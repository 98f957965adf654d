------------------------ MODULE MCStabilizerCircuits -----------------------
EXTENDS RepeatedCircuits

(***************************************************************************)
(* Families of circuits on two qubits.                                     *)
(***************************************************************************)

Op(name, on) == [name |-> name, on |-> on, inv |-> {}, arg |-> 0]
Noisy(name, on) == [Op(name, on) EXCEPT !.arg = 1]
Inverting(op, inv) == [op EXCEPT !.inv = inv]
Detector(backs) == Op("DETECTOR", backs)
Observable(k, backs) == [Op("OBSERVABLE_INCLUDE", backs) EXCEPT !.arg = k]
Product(a, b) == <<<<0, a>>, <<1, b>>>>

Gate(name) ==
  IF name \in OneQubitGates THEN Op(name, <<0>>)
  ELSE IF name \in TwoQubitGates THEN Op(name, <<<<0, 1>>>>)
  ELSE Op(name, <<Product("X", "Y")>>)
Gates == OneQubitGates \cup TwoQubitGates \cup {"SPP", "SPP_DAG"}

\* The gate that undoes a gate.
Inverses ==
  [S |-> "S_DAG", SQRT_X |-> "SQRT_X_DAG", SQRT_Y |-> "SQRT_Y_DAG", ISWAP |-> "ISWAP_DAG",
   SPP |-> "SPP_DAG", C_XYZ |-> "C_ZYX", C_NXYZ |-> "C_ZYNX", C_XNYZ |-> "C_ZNYX",
   C_XYNZ |-> "C_NZYX", CXSWAP |-> "SWAPCX"]
Undoing(name) ==
  IF name \in DOMAIN Inverses THEN Inverses[name]
  ELSE IF \E other \in DOMAIN Inverses : Inverses[other] = name
       THEN CHOOSE other \in DOMAIN Inverses : Inverses[other] = name
       ELSE name

\* Two gates, one of them on both qubits, after an entangling one, and measurements in two bases.
Entangled ==
  {<<Op("H", <<0>>), Op("CX", <<<<0, 1>>>>), Gate(g), Noisy("Z_ERROR", <<1>>), Gate(h),
     Op("MX", <<0>>), Op("M", <<1>>), Detector(<<1, 2>>)>>
     : g \in OneQubitGates \cup {"SPP", "CX", "XCY"}, h \in TwoQubitGates}

\* A gate, noise, and the gate undone, between resets and measurements.
Noises ==
  {<<Noisy(name, <<1, 0>>)>> : name \in OneQubitNoise}
    \cup {<<Noisy(name, <<<<0, 1>>>>)>> : name \in TwoQubitNoise}
    \cup {<<Noisy("E", Product("X", "Z"))>>,
          <<Noisy("E", Product("Y", "X")), Noisy("ELSE_CORRELATED_ERROR", <<<<1, "Z">>>>)>>,
          <<Noisy("E", Product("Z", "Z")), Noisy("ELSE_CORRELATED_ERROR", <<<<1, "X">>>>),
            Noisy("ELSE_CORRELATED_ERROR", <<<<0, "Y">>>>)>>,
          <<Noisy("E", Product("X", "X")), Op("TICK", <<>>),
            Noisy("ELSE_CORRELATED_ERROR", <<<<1, "X">>>>)>>}
Echoes ==
  {<<Op(r, <<0>>), Op("RX", <<1>>), Gate(g)>> \o noise
     \o <<Gate(Undoing(g)), Noisy("MX", <<1>>), Op(m, <<0>>),
          Detector(<<1>>), Observable(1, <<1, 2>>)>>
     : g \in Gates, noise \in Noises \cup {<<Noisy(name, <<0>>)>> : name \in Heralded},
       r \in {"R", "RY"}, m \in {"M", "MY"}}

\* Measurements and resets of every kind one after the other, on an entangled pair.
Collapses ==
  {Op(name, <<1>>) : name \in Measurements \cup MeasureResets \cup Resets}
    \cup {Op(name, <<<<0, 1>>>>) : name \in PairMeasurements}
    \cup {Op("MPP", <<Product("X", "Z"), <<<<1, "Y">>>>>>), Op("MPAD", <<TRUE, FALSE>>),
          Inverting(Op("MRX", <<0, 1>>), {2}), Inverting(Op("MPP", <<Product("Y", "Z")>>), {1}),
          Noisy("MR", <<0, 1>>), Op("RX", <<0, 1>>), Op("M", <<0>>)}
Sequences ==
  {<<Op("H", <<0>>), Op("CX", <<<<0, 1>>>>), a, b, c,
     Op("MX", <<0>>), Inverting(Op("M", <<1>>), {1}), Detector(<<1>>), Observable(0, <<2>>), Observable(0, <<1, 2>>)>>
     : a \in Collapses, b \in Collapses, c \in {Op("R", <<0, 1>>), Op("TICK", <<>>)}}

\* A product measured on a qubit that is measured again, in a basis that may feel its random frame.
Felt ==
  {<<Op("H", <<0>>), Op("TICK", <<>>), Op(p, <<<<0, 1>>>>), Op("R", <<1>>), Op(m, <<0>>),
     Detector(<<1>>), Detector(<<2>>)>>
     : p \in PairMeasurements, m \in Measurements}

\* Two rounds of a parity check of a data qubit, with noise between them.
Rounds ==
  {<<Op(r, <<0>>), Op("R", <<1>>), Op(c, <<<<0, 1>>>>), Op("MR", <<1>>)>> \o noise
     \o <<Op(c, <<<<0, 1>>>>), Noisy(m, <<1>>), Detector(<<1, 2>>),
          Op(e, <<0>>), Observable(0, <<1, 2>>)>>
     : r \in Resets, c \in {"CX", "XCX", "YCX"}, noise \in Noises, m \in {"MR", "M"},
       e \in Measurements}

\* A measurement fed back to either qubit, perhaps twice, with noise before it.
Feeds ==
  {<<Op(f, <<<<-1, q>>>>)>> : f \in {"CX", "CY", "CZ"}, q \in Qubits}
    \cup {<<Op("CX", <<<<-1, 1>>, <<-1, 0>>>>)>>, <<Op("CX", <<<<-1, 1>>>>), Op("CZ", <<<<-2, 1>>>>)>>}
Feedbacks ==
  {<<a>> \o noise \o <<Op("M", <<0>>), Op(m, <<0>>)>> \o f \o <<Op(r, <<1>>)>> \o g \o
     <<Op(e, <<1>>), Inverting(Op("M", <<0>>), {1}), Detector(<<1, 3>>), Observable(0, <<2, 3>>)>>
     : a \in {Op("X", <<0>>), Op("CX", <<<<0, 1>>>>), Op("H", <<0>>)},
       noise \in {<<>>, <<Noisy("Y_ERROR", <<1>>)>>},
       m \in {"MR", "MY"}, f \in Feeds, r \in {"M", "MRY", "R", "H"},
       g \in {<<Op("CZ", <<<<-1, 1>>>>)>>, <<>>}, e \in {"MX", "M"}}

\* Records padded with bits that noise flips, and heralds, both seen by detectors or fed back.
Extras ==
  {Noisy("MPAD", <<TRUE>>), Noisy("MPAD", <<FALSE, TRUE>>), Noisy("HERALDED_ERASE", <<0, 1>>),
   Noisy("HERALDED_PAULI_CHANNEL_1", <<1>>)}
Padded ==
  {<<Op("H", <<0>>), Op(m, <<0>>), extra>> \o f \o
     <<Op("M", <<1>>), Detector(<<back>>), Observable(0, <<1, back>>)>>
     : m \in {"M", "MY"}, extra \in Extras, f \in {<<>>, <<Op("CX", <<<<-1, 1>>>>)>>}, back \in {2, 3}}

\* Measurements fed back to a qubit that one instruction measures twice, seen before or after.
Twice ==
  {<<Op("H", <<0>>), Op(m, <<0>>), Op(f, <<<<-1, 1>>>>), Op(e, <<1, 1>>), Op("R", <<1>>),
     Op("M", <<0>>), Detector(<<1>>), Observable(0, <<2, 3>>)>>
     : m \in {"M", "MY"}, f \in {"CX", "CZ"}, e \in {"M", "MX", "MR"}}

\* Loops, long enough to be skipped or not, one in another.
Repeat(count, body) == [Op("REPEAT", body) EXCEPT !.arg = count]
Steps ==
  {Op(name, <<0>>) : name \in {"H", "S", "X", "M", "MRX"}}
    \cup {Op("CX", <<<<0, 1>>>>), Op("R", <<1>>), Inverting(Op("MR", <<1>>), {1})}
Loops ==
  {<<Op("H", <<0>>), Repeat(n, <<a, b>>), Inverting(Op("MY", <<0>>), {1})>>
     : a \in Steps, b \in Steps, n \in {2, 5}}
    \cup {<<Repeat(9, <<Op("S", <<0>>)>>), Op("MX", <<0>>)>>}
    \cup {<<Repeat(n, <<a, Repeat(k, <<b, Op("MR", <<1>>)>>)>>), Op("M", <<0>>)>>
            : a \in Steps, b \in {Op("X", <<1>>), Op("X", <<0>>), Op("CX", <<<<0, 1>>>>)},
              n \in {2, 4}, k \in {2, 4}}

MCCircuits ==
  Entangled \cup Echoes \cup Sequences \cup Felt \cup Rounds \cup Feedbacks \cup Padded \cup Twice
    \cup Loops
MCMeasuredAgain == {<<Op("H", <<0>>), Op("M", <<0>>), Op("M", <<0>>)>>}
=============================================================================
