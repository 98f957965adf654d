----------------------- MODULE ControllerProcessProofs -----------------------
(* Proofs about ControllerProcess, for any callers, any ids and any bounds. *)
EXTENDS ControllerProcess, TLAPS

-----------------------------------------------------------------------------
(* The inductive invariant.                                                *)

Places   == {"idle", "lock", "check", "send", "wait"}
Calls    == (Callers \cup {"none"}) \X Nat
Kinds    == {"hello", "outputs", "error", "malformed", "eof"}
Requests == [id : Nat, of : Calls]
Frames   == [id : Nat, kind : Kinds, of : Calls]
Results  == [kind : {"none", "ok", "error"}, sent : BOOLEAN, of : Calls]

\* Callers whose request has its id and has not been answered.
Pending == {t \in Callers : caller[t] \in {"send", "wait"}}

\* An id that was given out, with the call it was given to.
Own(id, of) ==
  /\ id < nextId
  /\ \A t \in Pending : mine[t] = id => of = Current(t)

OwnRequests == {r \in Requests : Own(r.id, r.of)}
OwnFrames   == {f \in Frames : f.id = NoId \/ Own(f.id, f.of)}

\* Values the variables may have.
TypeOK ==
  /\ caller \in [Callers -> Places]
  /\ mine \in [Callers -> Nat]
  /\ result \in [Callers -> Results]
  /\ calls \in [Callers -> Nat]
  /\ holder \in Callers \cup {"none"}
  /\ session \in {"starting", "ready", "failed", "dropped"}
  /\ nextId \in Nat /\ nextId <= NoId
  /\ io.at \in {"recv", "write", "read", "send", "exited"}
  /\ alive \in BOOLEAN
  /\ frames \in Nat

\* Whoever evaluates holds the mutex of the session.
Exclusive ==
  \A t \in Callers : caller[t] \in {"check", "send", "wait"} => holder = t

\* A session that starts, or is gone, has no callers; one with a request under
\* way is ready.
InUse ==
  /\ session \in {"starting", "dropped"} => \A t \in Callers : caller[t] = "idle"
  /\ Pending # {} => session = "ready"

\* All that is under way between the caller and the worker names an id that was
\* given out, and was computed for the call the id was given to.
Labelled ==
  /\ \A t \in Pending : mine[t] < nextId
  /\ requests \in Seq(OwnRequests)
  /\ inbox \in Seq(OwnRequests)
  /\ asked \in Seq(OwnRequests)
  /\ responses \in Seq(OwnFrames)
  /\ outbox \in Seq(OwnFrames)
  /\ io.at = "write" => io.frame \in OwnRequests
  /\ io.at # "write" => io.frame \in OwnFrames

ProcessInv == TypeOK /\ Exclusive /\ InUse /\ Labelled /\ AnswerIsOwn /\ NoOrphan

-----------------------------------------------------------------------------
(* Ids and sequences.                                                      *)

\* Ids are numbers, and the first one that is never given out is one of them.
LEMMA IdsAreNumbers == NoId \in Nat
  BY LastIdAssumption DEF NoId

\* What belongs to nobody is nobody's.
LEMMA NobodysFrames == ASSUME NEW kind \in Kinds
                       PROVE  [id |-> NoId, kind |-> kind, of |-> NoCall] \in OwnFrames
  BY IdsAreNumbers DEF OwnFrames, Frames, Calls, NoCall

\* The end of the pipe and the greeting belong to nobody.
LEMMA EofIsOwn == Eof \in OwnFrames
  BY NobodysFrames DEF Eof, Kinds

\* A sequence over a set is one over a larger set.
LEMMA SeqMonotone ==
  ASSUME NEW S, NEW T, S \subseteq T, NEW s \in Seq(S)
  PROVE  s \in Seq(T)
  OBVIOUS

\* The first element of a sequence that has one, and the others.
LEMMA HeadAndTail ==
  ASSUME NEW S, NEW s \in Seq(S), s # <<>>
  PROVE  Head(s) \in S /\ Tail(s) \in Seq(S)
  OBVIOUS

\* One element more, and one element alone.
LEMMA AddedToSeq ==
  ASSUME NEW S, NEW s \in Seq(S), NEW x \in S
  PROVE  Append(s, x) \in Seq(S) /\ <<x>> \in Seq(S)
  OBVIOUS

\* What was labelled stays labelled while ids are only given out, each to a new
\* request, and no call with a request under way is taken for another.
LEMMA OwnKept ==
  ASSUME TypeOK, nextId' \in Nat, nextId <= nextId',
         \A t \in Pending' : \/ t \in Pending /\ mine'[t] = mine[t] /\ calls'[t] = calls[t]
                             \/ mine'[t] = nextId
  PROVE  OwnRequests \subseteq OwnRequests' /\ OwnFrames \subseteq OwnFrames'
  <1>1. ASSUME NEW id \in Nat, NEW of, Own(id, of) PROVE Own(id, of)'
    <2>1. id < nextId /\ nextId \in Nat
      BY <1>1 DEF Own, TypeOK
    <2>2. id < nextId' /\ id # nextId
      BY <2>1
    <2>3. ASSUME NEW t \in Pending', mine'[t] = id PROVE of = Current(t)'
      <3>1. t \in Pending /\ mine[t] = id /\ calls'[t] = calls[t]
        BY <2>2, <2>3
      <3> QED
        BY <1>1, <3>1 DEF Own, Current
    <2> QED
      BY <2>2, <2>3 DEF Own
  <1>2. \A r \in Requests : r.id \in Nat
    BY DEF Requests
  <1>3. \A f \in Frames : f.id \in Nat
    BY DEF Frames
  <1>4. OwnRequests \subseteq OwnRequests'
    BY <1>1, <1>2 DEF OwnRequests
  <1>5. OwnFrames \subseteq OwnFrames'
    BY <1>1, <1>3 DEF OwnFrames
  <1> QED
    BY <1>4, <1>5

\* Nothing else under way changes its label when only callers move.
LEMMA LabelledKept ==
  ASSUME TypeOK, Labelled, nextId' \in Nat, nextId <= nextId',
         \A t \in Pending' : \/ t \in Pending /\ mine'[t] = mine[t] /\ calls'[t] = calls[t]
                             \/ mine'[t] = nextId /\ nextId' = nextId + 1,
         requests' = requests \/ requests' \in Seq(OwnRequests),
         responses' = responses \/ responses' \in Seq(OwnFrames),
         UNCHANGED <<io, worker>>
  PROVE  Labelled'
  <1>1. OwnRequests \subseteq OwnRequests' /\ OwnFrames \subseteq OwnFrames'
    BY OwnKept
  <1>2. requests' \in Seq(OwnRequests) /\ responses' \in Seq(OwnFrames)
    BY DEF Labelled
  <1>3. requests' \in Seq(OwnRequests') /\ responses' \in Seq(OwnFrames')
    BY <1>1, <1>2, SeqMonotone
  <1>4. inbox' \in Seq(OwnRequests') /\ asked' \in Seq(OwnRequests') /\ outbox' \in Seq(OwnFrames')
    BY <1>1, SeqMonotone DEF Labelled, worker
  <1>5. \A t \in Pending' : mine'[t] < nextId'
    <2>1. nextId \in Nat /\ \A t \in Callers : mine[t] \in Nat
      BY DEF TypeOK
    <2> SUFFICES ASSUME NEW t \in Callers, t \in Pending' PROVE mine'[t] < nextId'
      BY DEF Pending
    <2>2. CASE t \in Pending /\ mine'[t] = mine[t]
      BY <2>1, <2>2 DEF Labelled
    <2>3. CASE mine'[t] = nextId /\ nextId' = nextId + 1
      BY <2>1, <2>3
    <2> QED
      BY <2>2, <2>3
  <1> QED
    BY <1>1, <1>3, <1>4, <1>5 DEF Labelled

-----------------------------------------------------------------------------
(* The steps.                                                              *)

\* Before the worker was started.
LEMMA InitInv == Init => ProcessInv
  <1> SUFFICES ASSUME Init PROVE ProcessInv
    OBVIOUS
  <1> DEFINE none == [Refused EXCEPT !.kind = "none"]
  <1>1. none \in Results /\ none.kind = "none"
    BY DEF Refused, Results, Calls, NoCall
  <1> HIDE DEF none
  <1>2. /\ caller = [t \in Callers |-> "idle"] /\ mine = [t \in Callers |-> NoId]
        /\ result = [t \in Callers |-> none] /\ calls = [t \in Callers |-> 0]
        /\ holder = "none" /\ session = "starting" /\ nextId = 0
        /\ requests = <<>> /\ responses = <<>> /\ io = [at |-> "read", frame |-> Eof]
        /\ alive = TRUE /\ inbox = <<>> /\ outbox = <<>> /\ asked = <<>> /\ frames = 0
    BY DEF Init, none
  <1>3. TypeOK
    <2>1. /\ caller \in [Callers -> Places] /\ mine \in [Callers -> Nat]
          /\ result \in [Callers -> Results] /\ calls \in [Callers -> Nat]
      BY <1>1, <1>2, IdsAreNumbers DEF Places
    <2>2. nextId \in Nat /\ nextId <= NoId /\ io.at = "read"
      BY <1>2, IdsAreNumbers
    <2> QED
      BY <1>2, <2>1, <2>2 DEF TypeOK
  <1>4. Pending = {}
    BY <1>2 DEF Pending
  <1>5. Labelled
    BY <1>2, <1>4, EofIsOwn DEF Labelled
  <1>6. \A t \in Callers : caller[t] = "idle" /\ result[t].kind = "none"
    BY <1>1, <1>2
  <1> QED
    BY <1>2, <1>3, <1>4, <1>5, <1>6 DEF ProcessInv, Exclusive, InUse, AnswerIsOwn, NoOrphan

\* While no caller moves, only the messages need a look.
LEMMA SameCallers ==
  ASSUME ProcessInv, UNCHANGED <<callers, holder, nextId, session>>,
         alive' = alive \/ alive' = FALSE
  PROVE  /\ OwnRequests' = OwnRequests /\ OwnFrames' = OwnFrames /\ Pending' = Pending
         /\ Exclusive' /\ InUse' /\ AnswerIsOwn' /\ NoOrphan'
         /\ io'.at \in {"recv", "write", "read", "send", "exited"} /\ frames' \in Nat => TypeOK'
  <1>1. Pending' = Pending
    BY DEF Pending, callers
  <1>2. OwnRequests' = OwnRequests /\ OwnFrames' = OwnFrames
    BY <1>1 DEF OwnRequests, OwnFrames, Own, Current, callers
  <1>3. Exclusive' /\ InUse' /\ AnswerIsOwn' /\ NoOrphan'
    BY <1>1 DEF ProcessInv, Exclusive, InUse, AnswerIsOwn, NoOrphan, Current, callers
  <1>4. io'.at \in {"recv", "write", "read", "send", "exited"} /\ frames' \in Nat => TypeOK'
    BY DEF ProcessInv, TypeOK, callers
  <1> QED
    BY <1>1, <1>2, <1>3, <1>4

\* The session becomes ready, or is dropped and its worker killed.
LEMMA SessionInv == ProcessInv /\ (Spawn \/ SpawnTimesOut \/ Drop) => ProcessInv'
  <1> SUFFICES ASSUME ProcessInv, Spawn \/ SpawnTimesOut \/ Drop PROVE ProcessInv'
    OBVIOUS
  <1>1. /\ UNCHANGED <<caller, mine, result, calls, holder, nextId, requests, io,
                      inbox, outbox, asked, frames>>
        /\ \/ responses' = responses
           \/ responses # <<>> /\ responses' = Tail(responses)
        /\ \A t \in Callers : caller[t] = "idle"
        /\ \/ session' = "ready" /\ alive' = alive
           \/ session' = "dropped" /\ alive' = FALSE
    <2>1. CASE Spawn
      BY <2>1 DEF Spawn, callers, worker, ProcessInv, InUse
    <2>2. CASE SpawnTimesOut
      BY <2>2 DEF SpawnTimesOut, callers, worker, ProcessInv, InUse
    <2>3. CASE Drop
      BY <2>3 DEF Drop, callers, worker
    <2> QED
      BY <2>1, <2>2, <2>3
  <1>2. Pending = {} /\ Pending' = {}
    BY <1>1 DEF Pending
  <1>3. TypeOK'
    BY <1>1 DEF ProcessInv, TypeOK
  <1>4. Labelled'
    <2>1. responses' = responses \/ responses' \in Seq(OwnFrames)
      BY <1>1, HeadAndTail DEF ProcessInv, Labelled
    <2>2. nextId' \in Nat /\ nextId <= nextId'
      BY <1>1 DEF ProcessInv, TypeOK
    <2> QED
      BY <1>1, <1>2, <2>1, <2>2, LabelledKept DEF ProcessInv, worker
  <1>5. NoOrphan'
    BY <1>1 DEF ProcessInv, NoOrphan, TypeOK
  <1>6. Exclusive' /\ InUse' /\ AnswerIsOwn'
    BY <1>1, <1>2 DEF ProcessInv, Exclusive, InUse, AnswerIsOwn, Current
  <1> QED
    BY <1>3, <1>4, <1>5, <1>6 DEF ProcessInv

\* A caller comes, or gets the mutex.
LEMMA EnterInv ==
  ASSUME ProcessInv, NEW t \in Callers, Call(t) \/ Lock(t)
  PROVE  ProcessInv'
  <1>1. /\ caller[t] \in {"idle", "lock"} /\ session \in {"ready", "failed"}
        /\ caller' = [caller EXCEPT ![t] = IF caller[t] = "idle" THEN "lock" ELSE "check"]
        /\ calls' = [calls EXCEPT ![t] = IF caller[t] = "idle" THEN @ + 1 ELSE @]
        /\ UNCHANGED <<mine, result, session, nextId, requests, responses, io, alive,
                       inbox, outbox, asked, frames>>
    <2>1. CASE Call(t)
      BY <2>1 DEF Call, worker
    <2>2. CASE Lock(t)
      <3>1. calls = [calls EXCEPT ![t] = @]
        BY DEF ProcessInv, TypeOK
      <3>2. session \in {"ready", "failed"}
        BY <2>2 DEF Lock, ProcessInv, TypeOK, InUse
      <3> QED
        BY <2>2, <3>1, <3>2 DEF Lock, worker
    <2> QED
      BY <2>1, <2>2
  <1>2. /\ caller'[t] \in {"lock", "check"}
        /\ \A u \in Callers \ {t} : caller'[u] = caller[u] /\ calls'[u] = calls[u]
    BY <1>1 DEF ProcessInv, TypeOK
  <1>3. Pending' = Pending
    BY <1>1, <1>2 DEF Pending
  <1>4. TypeOK'
    <2>1. caller' \in [Callers -> Places]
      BY <1>1 DEF ProcessInv, TypeOK, Places
    <2>2. calls' \in [Callers -> Nat]
      BY <1>1 DEF ProcessInv, TypeOK
    <2>3. holder' \in Callers \cup {"none"}
      BY DEF ProcessInv, TypeOK, Call, Lock
    <2> QED
      BY <1>1, <2>1, <2>2, <2>3 DEF ProcessInv, TypeOK
  <1>5. Labelled'
    <2>1. \A u \in Pending' : u \in Pending /\ mine'[u] = mine[u] /\ calls'[u] = calls[u]
      BY <1>1, <1>2, <1>3 DEF Pending
    <2>2. nextId' \in Nat /\ nextId <= nextId'
      BY <1>1 DEF ProcessInv, TypeOK
    <2> QED
      BY <1>1, <2>1, <2>2, LabelledKept DEF ProcessInv, worker
  <1>6. Exclusive'
    <2>1. CASE Call(t)
      BY <1>1, <1>2, <2>1 DEF Call, ProcessInv, Exclusive
    <2>2. CASE Lock(t)
      BY <1>2, <2>2, CallersAssumption DEF Lock, ProcessInv, Exclusive
    <2> QED
      BY <2>1, <2>2
  <1>7. InUse' /\ AnswerIsOwn' /\ NoOrphan'
    BY <1>1, <1>2, <1>3 DEF ProcessInv, InUse, AnswerIsOwn, NoOrphan, Current
  <1> QED
    BY <1>4, <1>5, <1>6, <1>7 DEF ProcessInv

\* No two requests are under way at once.
LEMMA OnePending ==
  ASSUME ProcessInv, NEW t \in Callers, caller[t] \in {"check", "send", "wait"}
  PROVE  Pending \subseteq {t} /\ \A u \in Callers \ {t} : caller[u] \in {"idle", "lock"}
  <1>1. \A u \in Callers \ {t} : caller[u] \notin {"check", "send", "wait"}
    BY DEF ProcessInv, Exclusive
  <1> QED
    BY <1>1 DEF Pending, ProcessInv, TypeOK, Places

\* A call that returns leaves nothing pending: it returns the outputs computed
\* for it, or an error, which has killed the worker if the request was sent.
LEMMA ReturnInv ==
  ASSUME ProcessInv, NEW t \in Callers, caller[t] \in {"check", "send", "wait"},
         NEW r \in Results, Return(t, r),
         r.kind = "ok" => r.of = Current(t),
         r.kind = "error" /\ r.sent => ~alive',
         mine' \in [Callers -> Nat], nextId' \in Nat, nextId <= nextId', nextId' <= NoId,
         session' = session \/ session' = "failed",
         alive' = alive \/ alive' = FALSE,
         responses' = responses \/ responses' \in Seq(OwnFrames),
         UNCHANGED <<calls, requests, io, inbox, outbox, asked, frames>>
  PROVE  ProcessInv'
  <1>1. /\ caller' \in [Callers -> Places] /\ caller'[t] = "idle"
        /\ \A u \in Callers \ {t} : caller'[u] = caller[u]
    BY DEF Return, ProcessInv, TypeOK, Places
  <1>2. /\ result' \in [Callers -> Results] /\ result'[t] = r
        /\ \A u \in Callers \ {t} : result'[u] = result[u]
    BY DEF Return, ProcessInv, TypeOK
  <1>3. Pending' = {} /\ \A u \in Callers : caller'[u] \in {"idle", "lock"}
    BY <1>1, OnePending DEF Pending
  <1>4. TypeOK'
    BY <1>1, <1>2 DEF Return, ProcessInv, TypeOK
  <1>5. Labelled'
    BY <1>3, LabelledKept DEF ProcessInv, worker
  <1>6. Exclusive'
    BY <1>3 DEF Exclusive
  <1>7. InUse'
    <2>1. session \notin {"starting", "dropped"}
      BY DEF ProcessInv, InUse
    <2> QED
      BY <1>3, <2>1 DEF InUse
  <1>8. AnswerIsOwn'
    BY <1>1, <1>2 DEF ProcessInv, AnswerIsOwn, Current
  <1>9. NoOrphan'
    <2>1. session' = "dropped" => session = "dropped"
      OBVIOUS
    <2> QED
      BY <1>2, <2>1 DEF ProcessInv, NoOrphan
  <1> QED
    BY <1>4, <1>5, <1>6, <1>7, <1>8, <1>9 DEF ProcessInv

\* The errors are results.
LEMMA ErrorsAreResults ==
  /\ Refused \in Results /\ Refused.kind = "error" /\ ~Refused.sent
  /\ Broken \in Results /\ Broken.kind = "error"
  BY DEF Refused, Broken, Results, Calls, NoCall

\* A failure ends the call, the session and the worker.
LEMMA FailInv ==
  ASSUME ProcessInv, NEW t \in Callers, caller[t] \in {"check", "send", "wait"}, Fail(t),
         responses' = responses \/ responses' \in Seq(OwnFrames),
         UNCHANGED <<mine, nextId, calls, requests, io, inbox, outbox, asked, frames>>
  PROVE  ProcessInv'
  <1>1. /\ Return(t, Broken) /\ session' = "failed" /\ alive' = FALSE
        /\ mine' \in [Callers -> Nat] /\ nextId' \in Nat /\ nextId <= nextId' /\ nextId' <= NoId
    BY DEF Fail, ProcessInv, TypeOK
  <1> QED
    BY <1>1, ErrorsAreResults, ReturnInv

\* A refused call has sent nothing.
LEMMA RefuseInv ==
  ASSUME ProcessInv, NEW t \in Callers, Refuse(t)
  PROVE  ProcessInv'
  <1>1. /\ Return(t, Refused) /\ caller[t] = "check"
        /\ UNCHANGED <<mine, calls, session, nextId, requests, responses, io, alive,
                       inbox, outbox, asked, frames>>
        /\ mine' \in [Callers -> Nat] /\ nextId' \in Nat /\ nextId <= nextId' /\ nextId' <= NoId
    BY DEF Refuse, worker, ProcessInv, TypeOK
  <1> QED
    BY <1>1, ErrorsAreResults, ReturnInv

\* An id is new to all that is under way.
LEMMA TakeIdInv ==
  ASSUME ProcessInv, NEW t \in Callers, TakeId(t)
  PROVE  ProcessInv'
  <1>1. /\ caller[t] = "check" /\ session = "ready" /\ nextId < NoId
        /\ mine' = [mine EXCEPT ![t] = nextId] /\ nextId' = nextId + 1
        /\ UNCHANGED <<calls, session, requests, responses, io, alive,
                       inbox, outbox, asked, frames>>
    BY DEF TakeId, worker
  <1>2. mine' \in [Callers -> Nat] /\ mine'[t] = nextId /\ \A u \in Callers \ {t} : mine'[u] = mine[u]
    BY <1>1 DEF ProcessInv, TypeOK
  <1>3. nextId' \in Nat /\ nextId <= nextId' /\ nextId' <= NoId
    BY <1>1, IdsAreNumbers DEF ProcessInv, TypeOK
  <1>4. CASE Return(t, Refused)
    BY <1>1, <1>2, <1>3, <1>4, ErrorsAreResults, ReturnInv
  <1>5. CASE caller' = [caller EXCEPT ![t] = "send"] /\ UNCHANGED <<result, holder>>
    <2>1. /\ caller' \in [Callers -> Places] /\ caller'[t] = "send"
          /\ \A u \in Callers \ {t} : caller'[u] = caller[u]
      BY <1>5 DEF ProcessInv, TypeOK, Places
    <2>2. Pending' = {t} /\ \A u \in Callers \ {t} : caller'[u] \in {"idle", "lock"}
      BY <1>1, <2>1, OnePending DEF Pending
    <2>3. TypeOK'
      BY <1>1, <1>2, <1>3, <1>5, <2>1 DEF ProcessInv, TypeOK
    <2>4. Labelled'
      BY <1>1, <1>2, <1>3, <2>2, LabelledKept DEF ProcessInv, worker
    <2>5. Exclusive'
      BY <1>1, <1>5, <2>2 DEF ProcessInv, Exclusive
    <2>6. InUse' /\ AnswerIsOwn' /\ NoOrphan'
      BY <1>1, <1>5, <2>1, <2>2 DEF ProcessInv, InUse, AnswerIsOwn, NoOrphan, Current
    <2> QED
      BY <2>3, <2>4, <2>5, <2>6 DEF ProcessInv
  <1> QED
    BY <1>4, <1>5 DEF TakeId

\* The request names the id that was given to it.
LEMMA SendInv ==
  ASSUME ProcessInv, NEW t \in Callers, Send(t)
  PROVE  ProcessInv'
  <1>1. /\ caller[t] = "send" /\ t \in Pending
        /\ UNCHANGED <<mine, calls, nextId, responses, io, inbox, outbox, asked, frames>>
    BY DEF Send, worker, Pending
  <1>2. CASE requests = <<>> /\ io.at # "exited"
    <2> DEFINE r == [id |-> mine[t], of |-> Current(t)]
    <2>1. /\ requests' = <<r>> /\ caller' = [caller EXCEPT ![t] = "wait"]
          /\ UNCHANGED <<result, holder, session, alive>>
      BY <1>2 DEF Send
    <2>2. /\ caller' \in [Callers -> Places] /\ caller'[t] = "wait"
          /\ \A u \in Callers \ {t} : caller'[u] = caller[u]
      BY <2>1 DEF ProcessInv, TypeOK, Places
    <2>3. r \in OwnRequests
      <3>1. mine[t] \in Nat /\ Current(t) \in Calls /\ mine[t] < nextId
        BY <1>1 DEF ProcessInv, TypeOK, Labelled, Current, Calls
      <3>2. Own(mine[t], Current(t))
        BY <1>1, <3>1, OnePending DEF Own
      <3> QED
        BY <3>1, <3>2 DEF OwnRequests, Requests
    <2> HIDE DEF r
    <2>4. Pending' = Pending
      BY <1>1, <2>2 DEF Pending
    <2>5. TypeOK'
      BY <1>1, <2>1, <2>2 DEF ProcessInv, TypeOK
    <2>6. Labelled'
      <3>1. requests' \in Seq(OwnRequests)
        BY <2>1, <2>3
      <3>2. nextId' \in Nat /\ nextId <= nextId'
        BY <1>1 DEF ProcessInv, TypeOK
      <3> QED
        BY <1>1, <2>4, <3>1, <3>2, LabelledKept DEF ProcessInv, worker
    <2>7. Exclusive'
      BY <1>1, <2>1, <2>2 DEF ProcessInv, Exclusive
    <2>8. InUse' /\ AnswerIsOwn' /\ NoOrphan'
      BY <1>1, <2>1, <2>2, <2>4 DEF ProcessInv, InUse, AnswerIsOwn, NoOrphan, Current
    <2> QED
      BY <2>5, <2>6, <2>7, <2>8 DEF ProcessInv
  <1>3. CASE ~(requests = <<>> /\ io.at # "exited")
    <2>1. Fail(t) /\ UNCHANGED requests
      BY <1>3 DEF Send
    <2> QED
      BY <1>1, <2>1, FailInv
  <1> QED
    BY <1>2, <1>3

\* Outputs that name the id of the request were computed for this call.
LEMMA ReceiveInv ==
  ASSUME ProcessInv, NEW t \in Callers, Receive(t)
  PROVE  ProcessInv'
  <1>1. /\ caller[t] = "wait" /\ responses # <<>> /\ responses' = Tail(responses)
        /\ UNCHANGED <<mine, calls, nextId, requests, io, inbox, outbox, asked, frames>>
    BY DEF Receive, worker
  <1>2. Head(responses) \in OwnFrames /\ responses' \in Seq(OwnFrames)
    BY <1>1, HeadAndTail DEF ProcessInv, Labelled
  <1>3. CASE Fail(t)
    BY <1>1, <1>2, <1>3, FailInv
  <1>4. CASE /\ Answers(t, Head(responses))
             /\ Return(t, [kind |-> "ok", sent |-> TRUE, of |-> Head(responses).of])
             /\ UNCHANGED <<session, alive>>
    <2> DEFINE r == [kind |-> "ok", sent |-> TRUE, of |-> Head(responses).of]
    <2>1. Head(responses).id = mine[t] /\ t \in Pending
      BY <1>1, <1>4 DEF Answers, Pending
    <2>2. mine[t] # NoId
      BY <2>1, IdsAreNumbers DEF ProcessInv, Labelled, TypeOK
    <2>3. Head(responses).of = Current(t)
      BY <1>2, <2>1, <2>2 DEF OwnFrames, Own
    <2>4. r \in Results /\ r.kind = "ok" /\ r.of = Current(t)
      BY <1>2, <2>3 DEF OwnFrames, Frames, Results
    <2>5. Return(t, r) /\ UNCHANGED <<session, alive>>
      BY <1>4
    <2> HIDE DEF r
    <2>6. mine' \in [Callers -> Nat] /\ nextId' \in Nat /\ nextId <= nextId' /\ nextId' <= NoId
      BY <1>1 DEF ProcessInv, TypeOK
    <2> QED
      BY <1>1, <1>2, <2>4, <2>5, <2>6, ReturnInv
  <1> QED
    BY <1>3, <1>4 DEF Receive

\* A call that is not answered in time fails.
LEMMA TimeoutInv ==
  ASSUME ProcessInv, NEW t \in Callers, Timeout(t)
  PROVE  ProcessInv'
  <1>1. /\ caller[t] = "wait" /\ Fail(t)
        /\ UNCHANGED <<mine, calls, nextId, requests, responses, io, inbox, outbox, asked, frames>>
    BY DEF Timeout, worker
  <1> QED
    BY <1>1, FailInv

\* The I/O thread passes on what it is given.
LEMMA ThreadInv == ProcessInv /\ Thread => ProcessInv'
  <1> SUFFICES ASSUME ProcessInv, Thread PROVE ProcessInv'
    OBVIOUS
  <1>1. UNCHANGED <<caller, mine, result, calls, holder, session, nextId, alive, asked, frames>>
    BY DEF Thread, IoReceive, IoWrite, IoRead, IoSend, callers, worker
  <1>2. /\ OwnRequests' = OwnRequests /\ OwnFrames' = OwnFrames /\ Pending' = Pending
        /\ Exclusive' /\ InUse' /\ AnswerIsOwn' /\ NoOrphan'
        /\ io'.at \in {"recv", "write", "read", "send", "exited"} /\ frames' \in Nat => TypeOK'
    BY <1>1, SameCallers DEF callers
  <1>3. frames' \in Nat
    BY <1>1 DEF ProcessInv, TypeOK
  <1>4. /\ requests \in Seq(OwnRequests) /\ inbox \in Seq(OwnRequests)
        /\ asked \in Seq(OwnRequests) /\ responses \in Seq(OwnFrames)
        /\ outbox \in Seq(OwnFrames) /\ Eof \in OwnFrames
        /\ io.at = "write" => io.frame \in OwnRequests
        /\ io.at # "write" => io.frame \in OwnFrames
    BY EofIsOwn DEF ProcessInv, Labelled
  <1>5. /\ requests' \in Seq(OwnRequests) /\ inbox' \in Seq(OwnRequests)
        /\ responses' \in Seq(OwnFrames) /\ outbox' \in Seq(OwnFrames)
        /\ io'.at \in {"recv", "write", "read", "send", "exited"}
        /\ io'.at = "write" => io'.frame \in OwnRequests
        /\ io'.at # "write" => io'.frame \in OwnFrames
    <2>1. CASE IoReceive
      <3>1. UNCHANGED <<inbox, responses, outbox>>
        BY <2>1 DEF IoReceive, worker
      <3>2. CASE requests # <<>> /\ io' = [at |-> "write", frame |-> Head(requests)]
                 /\ requests' = Tail(requests)
        BY <1>4, <3>1, <3>2, HeadAndTail
      <3>3. CASE io' = [at |-> "exited", frame |-> Eof] /\ UNCHANGED requests
        BY <1>4, <3>1, <3>3
      <3> QED
        BY <2>1, <3>2, <3>3 DEF IoReceive
    <2>2. CASE IoWrite
      <3>1. UNCHANGED <<outbox, responses, requests>>
        BY <2>2 DEF IoWrite
      <3>2. io.frame \in OwnRequests
        BY <1>4, <2>2 DEF IoWrite
      <3>3. inbox' = Append(inbox, io.frame) \/ inbox' = inbox
        BY <2>2 DEF IoWrite
      <3>4. io'.at \in {"read", "send"} /\ io'.frame = Eof
        BY <2>2 DEF IoWrite
      <3>5. inbox' \in Seq(OwnRequests)
        BY <1>4, <3>2, <3>3, AddedToSeq, Zenon
      <3> QED
        BY <1>4, <3>1, <3>4, <3>5
    <2>3. CASE IoRead
      <3>1. UNCHANGED <<inbox, responses, requests>>
        BY <2>3 DEF IoRead
      <3>2. /\ outbox' = outbox \/ (outbox # <<>> /\ outbox' = Tail(outbox))
            /\ \/ outbox # <<>> /\ io' = [at |-> "send", frame |-> Head(outbox)]
               \/ io' = [at |-> "send", frame |-> Eof]
        BY <2>3 DEF IoRead
      <3>3. outbox' \in Seq(OwnFrames) /\ (outbox # <<>> => Head(outbox) \in OwnFrames)
        BY <1>4, <3>2, HeadAndTail
      <3> QED
        BY <1>4, <3>1, <3>2, <3>3
    <2>4. CASE IoSend
      <3>1. /\ UNCHANGED <<inbox, outbox, requests>>
            /\ responses' = responses \/ responses' = <<io.frame>>
            /\ io.at = "send" /\ io'.at \in {"exited", "recv"} /\ io'.frame = Eof
        BY <2>4 DEF IoSend, worker
      <3>2. io.frame \in OwnFrames
        BY <1>4, <3>1
      <3>3. responses' \in Seq(OwnFrames)
        BY <1>4, <3>1, <3>2, AddedToSeq, Zenon
      <3> QED
        BY <1>4, <3>1, <3>3
    <2> QED
      BY <2>1, <2>2, <2>3, <2>4 DEF Thread
  <1>6. Labelled'
    BY <1>1, <1>2, <1>4, <1>5 DEF ProcessInv, Labelled
  <1> QED
    BY <1>2, <1>3, <1>5, <1>6 DEF ProcessInv

\* The worker answers what it was asked, or names nobody.
LEMMA WorkerInv == ProcessInv /\ (Greet \/ Read \/ Respond \/ Die) => ProcessInv'
  <1> SUFFICES ASSUME ProcessInv, Greet \/ Read \/ Respond \/ Die PROVE ProcessInv'
    OBVIOUS
  <1>1. /\ UNCHANGED <<caller, mine, result, calls, holder, session, nextId, requests,
                      responses, io>>
        /\ alive' = alive \/ alive' = FALSE
    BY DEF Greet, Read, Respond, Die, Write, callers
  <1>2. /\ OwnRequests' = OwnRequests /\ OwnFrames' = OwnFrames /\ Pending' = Pending
        /\ Exclusive' /\ InUse' /\ AnswerIsOwn' /\ NoOrphan'
        /\ io'.at \in {"recv", "write", "read", "send", "exited"} /\ frames' \in Nat => TypeOK'
    BY <1>1, SameCallers DEF callers
  <1>3. /\ inbox \in Seq(OwnRequests) /\ asked \in Seq(OwnRequests) /\ outbox \in Seq(OwnFrames)
        /\ frames \in Nat
    BY DEF ProcessInv, Labelled, TypeOK
  <1>4. /\ inbox' \in Seq(OwnRequests) /\ asked' \in Seq(OwnRequests)
        /\ outbox' \in Seq(OwnFrames) /\ frames' \in Nat
    <2>1. CASE Greet
      <3>1. PICK kind \in {"hello", "malformed"} : Write([Hello EXCEPT !.kind = kind])
        BY <2>1 DEF Greet
      <3>2. [Hello EXCEPT !.kind = kind] = [id |-> NoId, kind |-> kind, of |-> NoCall]
        BY DEF Hello
      <3>3. [Hello EXCEPT !.kind = kind] \in OwnFrames
        BY <3>2, NobodysFrames DEF Kinds
      <3> QED
        BY <1>3, <2>1, <3>1, <3>3 DEF Greet, Write
    <2>2. CASE Read
      <3>1. Head(inbox) \in OwnRequests /\ Tail(inbox) \in Seq(OwnRequests)
        BY <1>3, <2>2, HeadAndTail DEF Read
      <3> QED
        BY <1>3, <2>2, <3>1 DEF Read
    <2>3. CASE Respond
      <3>1. PICK i \in 1..Len(asked), kind \in {"outputs", "error", "malformed"} :
              Write([id |-> asked[i].id, kind |-> kind, of |-> asked[i].of])
        BY <2>3 DEF Respond
      <3>2. asked[i] \in OwnRequests
        BY <1>3
      <3>3. [id |-> asked[i].id, kind |-> kind, of |-> asked[i].of] \in OwnFrames
        BY <3>2 DEF OwnRequests, OwnFrames, Requests, Frames, Kinds
      <3> QED
        BY <1>3, <2>3, <3>1, <3>3 DEF Respond, Write
    <2>4. CASE Die
      BY <1>3, <2>4 DEF Die, worker
    <2> QED
      BY <2>1, <2>2, <2>3, <2>4
  <1>5. Labelled'
    BY <1>1, <1>2, <1>4 DEF ProcessInv, Labelled
  <1>6. TypeOK'
    BY <1>1, <1>2, <1>4 DEF ProcessInv, TypeOK
  <1> QED
    BY <1>2, <1>5, <1>6 DEF ProcessInv

\* The invariant survives every step.
LEMMA StepInv == ProcessInv /\ [Next]_vars => ProcessInv'
  <1> SUFFICES ASSUME ProcessInv, [Next]_vars PROVE ProcessInv'
    OBVIOUS
  <1>1. CASE \E t \in Callers : Call(t) \/ Evaluate(t)
    <2>1. PICK t \in Callers : Call(t) \/ Evaluate(t)
      BY <1>1
    <2> QED
      BY <2>1, EnterInv, RefuseInv, TakeIdInv, SendInv, ReceiveInv, TimeoutInv DEF Evaluate
  <1>2. CASE UNCHANGED vars
    BY <1>2 DEF vars, ProcessInv, TypeOK, Exclusive, InUse, Labelled, AnswerIsOwn, NoOrphan,
       Pending, OwnRequests, OwnFrames, Own, Current
  <1> QED
    BY <1>1, <1>2, SessionInv, ThreadInv, WorkerInv DEF Next

\* The inductive invariant holds.
THEOREM Invariance == Spec => []ProcessInv
  BY InitInv, StepInv, PTL DEF Spec

-----------------------------------------------------------------------------
(* What it entails.                                                        *)

\* Every variable of the bridge has its type.
THEOREM TypeCorrect == Spec => []TypeOK
  BY Invariance, PTL DEF ProcessInv

\* A call that returns bits returns those computed for this very call
\* (process.rs: Session::evaluate compares the request id).
THEOREM AnswersAreOwn == Spec => []AnswerIsOwn
  BY Invariance, PTL DEF ProcessInv

\* A failed call and a dropped session leave no worker running (process.rs:
\* Session::fail and Session::drop).
THEOREM NoWorkerIsLeft == Spec => []NoOrphan
  BY Invariance, PTL DEF ProcessInv

-----------------------------------------------------------------------------
(* One message at a time.                                                  *)

Waiting == \E t \in Callers : caller[t] = "wait"

\* The session and the I/O thread are both at rest.
AtRest == requests = <<>> /\ responses = <<>> /\ io.at = "recv"

\* The one message there is: to the I/O thread, with it, or from it.  The
\* thread ends with the message that says so.
OneMessage ==
  \/ /\ responses = <<>> /\ requests # <<>> /\ Tail(requests) = <<>>
     /\ io.at = "recv"
  \/ /\ responses = <<>> /\ requests = <<>>
     /\ io.at \in {"write", "read", "send"}
  \/ /\ responses # <<>> /\ requests = <<>> /\ Tail(responses) = <<>>
     /\ io.at = "recv" \/ (io.at = "exited" /\ Head(responses) = Eof)

\* Until the session has failed, there is a message exactly while somebody waits for it.
Flow ==
  /\ session = "starting" => OneMessage
  /\ session = "ready" => IF Waiting THEN OneMessage ELSE AtRest

\* The request of a caller finds the channel empty, and the I/O thread at its end of it.
RoomToSend == \A t \in Callers : caller[t] = "send" => AtRest

\* A message is handed on, or the thread waits.
LEMMA ThreadFlow ==
  ASSUME session # "dropped", OneMessage, Thread
  PROVE  OneMessage'
  <1>1. CASE IoReceive
    <2>1. /\ requests' = Tail(requests) /\ responses' = responses /\ io.at = "recv"
          /\ requests # <<>> /\ io'.at = "write"
      BY <1>1 DEF IoReceive
    <2>2. Tail(requests) = <<>> /\ responses = <<>>
      BY <2>1 DEF OneMessage
    <2> QED
      BY <2>1, <2>2 DEF OneMessage
  <1>2. CASE IoWrite
    BY <1>2 DEF IoWrite, OneMessage
  <1>3. CASE IoRead
    BY <1>3 DEF IoRead, OneMessage
  <1>4. CASE IoSend
    <2>1. /\ io.at = "send" /\ responses' = <<io.frame>> /\ requests' = requests
          /\ io'.at = IF io.frame = Eof THEN "exited" ELSE "recv"
      BY <1>4 DEF IoSend
    <2> DEFINE f == io.frame
    <2> HIDE DEF f
    <2>2. Head(<<f>>) = f /\ Tail(<<f>>) = <<>> /\ <<f>> # <<>>
      OBVIOUS
    <2> QED
      BY <2>1, <2>2 DEF OneMessage, f
  <1> QED
    BY <1>1, <1>2, <1>3, <1>4 DEF Thread

\* No message is left over, and none overtakes another.
LEMMA FlowStep == ProcessInv /\ Flow /\ [Next]_vars => Flow'
  <1> SUFFICES ASSUME ProcessInv, Flow, [Next]_vars PROVE Flow'
    OBVIOUS
  <1>1. CASE Spawn
    <2>1. ~Waiting /\ caller' = caller /\ io' = io /\ requests' = requests
      BY <1>1 DEF Spawn, Waiting, ProcessInv, InUse, callers
    <2>2. responses # <<>> /\ responses' = Tail(responses) /\ OneMessage
      BY <1>1 DEF Spawn, Flow
    <2>3. CASE Head(responses).kind = "hello" /\ session' = "ready"
      <3>1. Head(responses) # Eof
        BY <2>3 DEF Eof
      <3>2. AtRest'
        BY <2>1, <2>2, <3>1 DEF OneMessage, AtRest
      <3> QED
        BY <2>1, <2>3, <3>2 DEF Flow, Waiting
    <2>4. CASE session' = "dropped"
      BY <2>4 DEF Flow
    <2> QED
      BY <1>1, <2>3, <2>4 DEF Spawn
  <1>2. CASE SpawnTimesOut \/ Drop
    BY <1>2 DEF SpawnTimesOut, Drop, Flow
  <1>3. ASSUME NEW t \in Callers, Call(t) \/ Lock(t) PROVE Flow'
    <2>1. /\ UNCHANGED <<session, requests, responses, io>>
          /\ Waiting' <=> Waiting
      BY <1>3 DEF Call, Lock, Waiting, ProcessInv, TypeOK
    <2> QED
      BY <2>1 DEF Flow, OneMessage, AtRest
  <1>4. ASSUME NEW t \in Callers, Refuse(t) \/ TakeId(t) PROVE Flow'
    <2>1. /\ UNCHANGED <<session, requests, responses, io>>
          /\ caller[t] = "check" /\ caller' \in {[caller EXCEPT ![t] = "idle"], [caller EXCEPT ![t] = "send"]}
      BY <1>4 DEF Refuse, TakeId, Return
    <2>2. ~Waiting /\ ~Waiting'
      BY <2>1, OnePending DEF Waiting, ProcessInv, TypeOK
    <2> QED
      BY <2>1, <2>2 DEF Flow, OneMessage, AtRest
  <1>5. ASSUME NEW t \in Callers, Fail(t) PROVE Flow'
    BY <1>5 DEF Fail, Flow
  <1>6. ASSUME NEW t \in Callers, Send(t) PROVE Flow'
    <2>1. session = "ready" /\ ~Waiting
      BY <1>6, OnePending DEF Send, Waiting, ProcessInv, InUse, Pending
    <2>2. AtRest
      BY <2>1 DEF Flow
    <2>3. /\ requests' = <<[id |-> mine[t], of |-> Current(t)]>>
          /\ caller'[t] = "wait" /\ UNCHANGED <<session, responses, io>>
      BY <1>6, <2>2 DEF Send, AtRest, ProcessInv, TypeOK
    <2>4. OneMessage' /\ Waiting'
      BY <2>2, <2>3 DEF OneMessage, AtRest, Waiting
    <2> QED
      BY <2>1, <2>3, <2>4 DEF Flow
  <1>7. ASSUME NEW t \in Callers, Receive(t) PROVE Flow'
    <2>1. /\ caller[t] = "wait" /\ responses # <<>> /\ responses' = Tail(responses)
          /\ UNCHANGED <<requests, io>>
      BY <1>7 DEF Receive
    <2>2. CASE Answers(t, Head(responses)) /\ UNCHANGED session
               /\ caller' = [caller EXCEPT ![t] = "idle"]
      <3>1. OneMessage /\ session = "ready"
        BY <2>1 DEF Flow, Waiting, ProcessInv, InUse, Pending
      <3>2. Head(responses) # Eof
        BY <2>2 DEF Answers, Eof
      <3>3. AtRest' /\ ~Waiting'
        BY <2>1, <2>2, <3>1, <3>2, OnePending DEF OneMessage, AtRest, Waiting, ProcessInv, TypeOK
      <3> QED
        BY <2>2, <3>1, <3>3 DEF Flow
    <2> QED
      BY <1>5, <1>7, <2>2 DEF Receive, Return
  <1>8. CASE Thread
    <2>1. UNCHANGED <<session, caller>>
      BY <1>8 DEF Thread, IoReceive, IoWrite, IoRead, IoSend, callers
    <2>2. AtRest /\ session # "dropped" => FALSE
      BY <1>8 DEF Thread, IoReceive, IoWrite, IoRead, IoSend, AtRest
    <2> QED
      BY <1>8, <2>1, <2>2, ThreadFlow DEF Flow, Waiting
  <1>9. CASE Greet \/ Read \/ Respond \/ Die \/ UNCHANGED vars
    <2>1. UNCHANGED <<session, caller, requests, responses, io>>
      BY <1>9 DEF Greet, Read, Respond, Die, vars, callers
    <2> QED
      BY <2>1 DEF Flow, OneMessage, AtRest, Waiting
  <1>10. ASSUME NEW t \in Callers, Timeout(t) PROVE Flow'
    BY <1>5, <1>10 DEF Timeout
  <1> QED
    BY <1>1, <1>2, <1>3, <1>4, <1>6, <1>7, <1>8, <1>9, <1>10 DEF Next, Evaluate

\* While nobody waits for an answer nothing is under way, so that the request of
\* a caller is always taken: try_send never finds the channel full or its
\* receiver gone (process.rs: Session::evaluate, the two channels of one
\* message and the loop of the I/O thread).
THEOREM SendIsTaken == Spec => []RoomToSend
  <1>1. Init => Flow
    BY DEF Init, Flow, OneMessage
  <1>2. Spec => []Flow
    BY <1>1, FlowStep, Invariance, PTL DEF Spec
  <1>3. ProcessInv /\ Flow => RoomToSend
    <2> SUFFICES ASSUME ProcessInv, Flow, NEW t \in Callers, caller[t] = "send"
                 PROVE  AtRest
      BY DEF RoomToSend
    <2>1. session = "ready" /\ ~Waiting
      BY OnePending DEF Waiting, ProcessInv, InUse, Pending
    <2> QED
      BY <2>1 DEF Flow
  <1> QED
    BY <1>2, <1>3, Invariance, PTL
=============================================================================
