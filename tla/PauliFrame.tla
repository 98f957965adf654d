----------------------------- MODULE PauliFrame ----------------------------
(***************************************************************************)
(* One shot's Pauli frame, a column of the two bit tables of               *)
(* src/rstim/src/sim/frame.rs: the qubits that have been flipped in x and  *)
(* the qubits that have been flipped in z, against the reference sample;   *)
(* and how the gates carry it along. Signs do not matter to a frame.       *)
(***************************************************************************)
EXTENDS StimCircuit

Frames == [x : SUBSET Qubits, z : SUBSET Qubits]
NoFlips == [x |-> {}, z |-> {}]

do_h(f, q) == [x |-> Toggle(f.x, q, (q \in f.x) # (q \in f.z)),
               z |-> Toggle(f.z, q, (q \in f.x) # (q \in f.z))]
do_s(f, q) == [x |-> f.x, z |-> Toggle(f.z, q, q \in f.x)]
do_sqrt_x(f, q) == [x |-> Toggle(f.x, q, q \in f.z), z |-> f.z]
do_c_xyz(f, q) == [x |-> Toggle(f.x, q, q \in f.z),
                   z |-> Toggle(f.z, q, (q \in f.x) # (q \in f.z))]
do_c_zyx(f, q) == [x |-> Toggle(f.x, q, (q \in f.x) # (q \in f.z)),
                   z |-> Toggle(f.z, q, q \in f.x)]
do_cx(f, c, t) == [x |-> Toggle(f.x, t, c \in f.x), z |-> Toggle(f.z, c, t \in f.z)]
do_cz(f, a, b) == [x |-> f.x, z |-> Toggle(Toggle(f.z, a, b \in f.x), b, a \in f.x)]
do_swap(f, a, b) ==
  [x |-> Toggle(Toggle(f.x, a, (a \in f.x) # (b \in f.x)), b, (a \in f.x) # (b \in f.x)),
   z |-> Toggle(Toggle(f.z, a, (a \in f.z) # (b \in f.z)), b, (a \in f.z) # (b \in f.z))]

FrameGate1(name, f, q) ==
  CASE name \in {"I", "X", "Y", "Z"} -> f
    [] name \in {"H", "SQRT_Y", "SQRT_Y_DAG", "H_NXZ"} -> do_h(f, q)
    [] name \in {"S", "S_DAG", "H_XY", "H_NXY"} -> do_s(f, q)
    [] name \in {"SQRT_X", "SQRT_X_DAG", "H_YZ", "H_NYZ"} -> do_sqrt_x(f, q)
    [] name \in {"C_XYZ", "C_NXYZ", "C_XNYZ", "C_XYNZ"} -> do_c_xyz(f, q)
    [] name \in {"C_ZYX", "C_NZYX", "C_ZNYX", "C_ZYNX"} -> do_c_zyx(f, q)

FrameGate2(name, f, a, b) ==
  CASE name = "CX" -> do_cx(f, a, b)
    [] name = "CY" -> do_s(do_cx(do_s(f, b), a, b), b)
    [] name = "CZ" -> do_cz(f, a, b)
    [] name = "XCX" -> do_h(do_cx(do_h(f, a), a, b), a)
    [] name = "XCY" -> do_sqrt_x(do_cx(do_sqrt_x(f, b), b, a), b)
    [] name = "XCZ" -> do_cx(f, b, a)
    [] name = "YCX" -> do_sqrt_x(do_cx(do_sqrt_x(f, a), a, b), a)
    [] name = "YCY" ->
         do_sqrt_x(do_sqrt_x(do_cz(do_sqrt_x(do_sqrt_x(f, a), b), a, b), b), a)
    [] name = "YCZ" -> do_s(do_cx(do_s(f, a), b, a), a)
    [] name = "SWAP" -> do_swap(f, a, b)
    [] name \in {"ISWAP", "ISWAP_DAG"} -> do_swap(do_cz(do_s(do_s(f, a), b), a, b), a, b)
    [] name = "CXSWAP" -> do_cx(do_cx(f, b, a), a, b)
    [] name = "SWAPCX" -> do_cx(do_cx(f, a, b), b, a)
    [] name = "CZSWAP" -> do_swap(do_cz(f, a, b), a, b)

=============================================================================
