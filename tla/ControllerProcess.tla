-------------------------- MODULE ControllerProcess --------------------------
(***************************************************************************)
(* The bridge to an external decoder process (rmagna/src/runtime/          *)
(* process.rs): callers share one Session behind a mutex, the Session      *)
(* talks over two channels of one message to an I/O thread, and that       *)
(* thread owns the pipes to the worker.                                    *)
(*                                                                         *)
(* The worker is external.  It may answer late, twice, with an error, with *)
(* something that is no answer, or never, and it may die.  A frame is the  *)
(* request id it names, its kind, and the call it was computed for.  A     *)
(* call is a caller and its number, which the code does not know.          *)
(* Time is left out: a timeout is a step that waiting may always take.     *)
(***************************************************************************)
EXTENDS Integers, Sequences, FiniteSets

CONSTANTS
  Callers,   \* threads that evaluate bindings of the worker
  LastId,    \* the last request id: u64::MAX - 1 in the code
  MaxCalls,  \* bound: calls of each caller
  MaxFrames  \* bound: frames the worker writes

ASSUME LastIdAssumption == LastId \in Nat
ASSUME CallersAssumption == {"spawner", "none"} \cap Callers = {}

VARIABLES
  caller,     \* where each caller is
  mine,       \* the id of each caller's last request
  result,     \* what its last call returned
  calls,      \* calls each caller made
  holder,     \* of the session's mutex
  session,    \* "starting", "ready", "failed" (Session::failed is Some) or "dropped"
  nextId,     \* next_id
  requests,   \* channel to the I/O thread
  responses,  \* channel from it
  io,         \* the I/O thread's state
  alive,      \* the worker has not been killed and has not died
  inbox,      \* pipe to the worker
  outbox,     \* pipe from the worker
  asked,      \* requests the worker has read, in order
  frames      \* frames the worker wrote

vars == <<caller, mine, result, calls, holder, session, nextId, requests, responses, io,
          alive, inbox, outbox, asked, frames>>

callers == <<caller, mine, result, calls>>
worker  == <<inbox, outbox, asked, frames>>

NoId   == LastId + 1
NoCall == <<"none", 0>>

\* A frame: the id it names, its kind ("hello", "outputs", "error", "malformed" or "eof") and the
\* call it was computed for.
Hello  == [id |-> NoId, kind |-> "hello", of |-> NoCall]
Eof    == [id |-> NoId, kind |-> "eof", of |-> NoCall]

Current(t) == <<t, calls[t]>>

-----------------------------------------------------------------------------
(* ControllerProcess::spawn.                                               *)

\* Mutant: a session whose greeting is refused is forgotten, not dropped.
SpawnLeaks ==
  /\ session = "starting"
  /\ responses # <<>>
  /\ responses' = Tail(responses)
  /\ session' = IF Head(responses).kind = "hello" THEN "ready" ELSE "dropped"
  /\ UNCHANGED <<callers, holder, nextId, requests, io, alive, worker>>

\* The greeting is there; anything else, or a late validation, drops the session.
Spawn ==
  /\ session = "starting"
  /\ responses # <<>>
  /\ responses' = Tail(responses)
  /\ \/ /\ Head(responses).kind = "hello"
        /\ session' = "ready"
        /\ UNCHANGED alive
     \/ /\ session' = "dropped"
        /\ alive' = FALSE
  /\ UNCHANGED <<callers, holder, nextId, requests, io, worker>>

SpawnTimesOut ==
  /\ session = "starting"
  /\ responses = <<>>
  /\ session' = "dropped"
  /\ alive' = FALSE
  /\ UNCHANGED <<callers, holder, nextId, requests, responses, io, worker>>

\* The last clone of the session is dropped: Session::drop kills and reaps.
Drop ==
  /\ session \in {"ready", "failed"}
  /\ \A t \in Callers : caller[t] = "idle"
  /\ session' = "dropped"
  /\ alive' = FALSE
  /\ UNCHANGED <<callers, holder, nextId, requests, responses, io, worker>>

-----------------------------------------------------------------------------
(* Session::evaluate, under the mutex.                                     *)

Call(t) ==
  /\ caller[t] = "idle"
  /\ calls[t] < MaxCalls
  /\ session \in {"ready", "failed"}
  /\ caller' = [caller EXCEPT ![t] = "lock"]
  /\ calls' = [calls EXCEPT ![t] = @ + 1]
  /\ UNCHANGED <<mine, result, holder, session, nextId, requests, responses, io, alive, worker>>

Lock(t) ==
  /\ caller[t] = "lock"
  /\ holder = "none"
  /\ holder' = t
  /\ caller' = [caller EXCEPT ![t] = "check"]
  /\ UNCHANGED <<mine, result, calls, session, nextId, requests, responses, io, alive, worker>>

\* The call returns, and the mutex is released.
Return(t, r) ==
  /\ caller' = [caller EXCEPT ![t] = "idle"]
  /\ result' = [result EXCEPT ![t] = r]
  /\ holder' = "none"

Refused == [kind |-> "error", sent |-> FALSE, of |-> NoCall]
Broken  == [kind |-> "error", sent |-> TRUE, of |-> NoCall]

\* A failed session, too many bits, or no request id left.
Refuse(t) ==
  /\ caller[t] = "check"
  /\ Return(t, Refused)
  /\ UNCHANGED <<mine, calls, session, nextId, requests, responses, io, alive, worker>>

\* The request gets its id, and keeps it also when its frame is too long to be sent.
TakeId(t) ==
  /\ caller[t] = "check"
  /\ session = "ready"
  /\ nextId < NoId
  /\ mine' = [mine EXCEPT ![t] = nextId]
  /\ nextId' = nextId + 1
  /\ \/ caller' = [caller EXCEPT ![t] = "send"] /\ UNCHANGED <<result, holder>>
     \/ Return(t, Refused)
  /\ UNCHANGED <<calls, session, requests, responses, io, alive, worker>>

\* Session::fail.
Fail(t) ==
  /\ session' = "failed"
  /\ alive' = FALSE
  /\ Return(t, Broken)

\* requests.try_send.
Send(t) ==
  /\ caller[t] = "send"
  /\ IF requests = <<>> /\ io.at # "exited"
     THEN /\ requests' = <<[id |-> mine[t], of |-> Current(t)]>>
          /\ caller' = [caller EXCEPT ![t] = "wait"]
          /\ UNCHANGED <<result, holder, session, alive>>
     ELSE Fail(t) /\ UNCHANGED requests
  /\ UNCHANGED <<mine, calls, nextId, responses, io, worker>>

\* Mutant: the id of the response is not compared.
AnswersAny(t, frame) == frame.kind = "outputs"

\* The response is outputs, for the id of this request.
Answers(t, frame) == frame.kind = "outputs" /\ frame.id = mine[t]

\* recv_timeout returns a message: outputs validated in time, or a failure.
Receive(t) ==
  /\ caller[t] = "wait"
  /\ responses # <<>>
  /\ responses' = Tail(responses)
  /\ \/ /\ Answers(t, Head(responses))
        /\ Return(t, [kind |-> "ok", sent |-> TRUE, of |-> Head(responses).of])
        /\ UNCHANGED <<session, alive>>
     \/ Fail(t)
  /\ UNCHANGED <<mine, calls, nextId, requests, io, worker>>

\* Mutant: recv, which ends only when the I/O thread is gone.
TimeoutNever(t) ==
  /\ caller[t] = "wait"
  /\ responses = <<>> /\ io.at = "exited"
  /\ Fail(t)
  /\ UNCHANGED <<mine, calls, nextId, requests, responses, io, worker>>

\* recv_timeout times out, or finds the I/O thread gone.
Timeout(t) ==
  /\ caller[t] = "wait"
  /\ responses = <<>>
  /\ Fail(t)
  /\ UNCHANGED <<mine, calls, nextId, requests, responses, io, worker>>

-----------------------------------------------------------------------------
(* The I/O thread.                                                         *)

\* receiver.recv: a request, or the channel is disconnected.
IoReceive ==
  /\ io.at = "recv"
  /\ \/ /\ requests # <<>>
        /\ io' = [at |-> "write", frame |-> Head(requests)]
        /\ requests' = Tail(requests)
     \/ /\ requests = <<>> /\ session = "dropped"
        /\ io' = [at |-> "exited", frame |-> Eof]
        /\ UNCHANGED requests
  /\ UNCHANGED <<callers, holder, session, nextId, responses, alive, worker>>

\* input.write_all and flush: into the pipe, or an error when the worker is gone or
\* has closed its end.
IoWrite ==
  /\ io.at = "write"
  /\ \/ /\ alive
        /\ inbox' = Append(inbox, io.frame)
        /\ io' = [at |-> "read", frame |-> Eof]
     \/ io' = [at |-> "send", frame |-> Eof] /\ UNCHANGED inbox
  /\ UNCHANGED <<callers, holder, session, nextId, requests, responses, alive, outbox, asked,
                 frames>>

\* read_frame: the next frame, or an error: no JSON, too long, or the end of the
\* pipe of a worker that is gone.
IoRead ==
  /\ io.at = "read"
  /\ IF outbox # <<>>
     THEN /\ outbox' = Tail(outbox)
          /\ \/ io' = [at |-> "send", frame |-> Head(outbox)]
             \/ Head(outbox).kind = "malformed" /\ io' = [at |-> "send", frame |-> Eof]
     ELSE ~ alive /\ io' = [at |-> "send", frame |-> Eof] /\ UNCHANGED outbox
  /\ UNCHANGED <<callers, holder, session, nextId, requests, responses, alive, inbox, asked,
                 frames>>

\* sender.send: blocks while the channel is full; the thread ends after an error,
\* or when nobody can receive.
IoSend ==
  /\ io.at = "send"
  /\ responses = <<>> \/ session = "dropped"
  /\ responses' = IF session = "dropped" THEN responses ELSE <<io.frame>>
  /\ io' = [at    |-> IF io.frame = Eof \/ session = "dropped" THEN "exited" ELSE "recv",
            frame |-> Eof]
  /\ UNCHANGED <<callers, holder, session, nextId, requests, alive, worker>>

-----------------------------------------------------------------------------
(* The worker, external.                                                   *)

Write(frame) ==
  /\ alive
  /\ frames < MaxFrames
  /\ frames' = frames + 1
  /\ outbox' = Append(outbox, frame)

Greet ==
  /\ frames = 0
  /\ \E kind \in {"hello", "malformed"} : Write([Hello EXCEPT !.kind = kind])
  /\ UNCHANGED <<callers, holder, session, nextId, requests, responses, io, alive, inbox, asked>>

Read ==
  /\ alive
  /\ inbox # <<>>
  /\ asked' = Append(asked, Head(inbox))
  /\ inbox' = Tail(inbox)
  /\ UNCHANGED <<callers, holder, session, nextId, requests, responses, io, alive, outbox,
                 frames>>

\* It answers a request it has read, the last one or an earlier one again.
Respond ==
  /\ \E i \in 1..Len(asked) : \E kind \in {"outputs", "error", "malformed"} :
       Write([id |-> asked[i].id, kind |-> kind, of |-> asked[i].of])
  /\ UNCHANGED <<callers, holder, session, nextId, requests, responses, io, alive, inbox, asked>>

Die ==
  /\ alive
  /\ alive' = FALSE
  /\ UNCHANGED <<callers, holder, session, nextId, requests, responses, io, worker>>

-----------------------------------------------------------------------------
Init ==
  /\ caller = [t \in Callers |-> "idle"]
  /\ mine = [t \in Callers |-> NoId]
  /\ result = [t \in Callers |-> [Refused EXCEPT !.kind = "none"]]
  /\ calls = [t \in Callers |-> 0]
  /\ holder = "none"
  /\ session = "starting"
  /\ nextId = 0
  /\ requests = <<>> /\ responses = <<>>
  /\ io = [at |-> "read", frame |-> Eof]
  /\ alive = TRUE
  /\ inbox = <<>> /\ outbox = <<>> /\ asked = <<>>
  /\ frames = 0

Evaluate(t) == Lock(t) \/ Refuse(t) \/ TakeId(t) \/ Send(t) \/ Receive(t) \/ Timeout(t)
Thread      == IoReceive \/ IoWrite \/ IoRead \/ IoSend

Next ==
  \/ Spawn \/ SpawnTimesOut \/ Drop
  \/ \E t \in Callers : Call(t) \/ Evaluate(t)
  \/ Thread
  \/ Greet \/ Read \/ Respond \/ Die

Spec == Init /\ [][Next]_vars

\* Threads are scheduled, and recv_timeout returns; nothing is assumed of the
\* worker, whose full pipe may hold up a write for as long as it lives.
FairSpec == Spec /\ WF_vars(Spawn \/ SpawnTimesOut)
                 /\ WF_vars(IoReceive \/ IoRead \/ IoSend \/ (~ alive /\ IoWrite))
                 /\ \A t \in Callers : WF_vars(Evaluate(t))

-----------------------------------------------------------------------------
(* Properties.                                                             *)

\* A call that returns bits returns what the worker computed for this very
\* call, whatever the worker repeats and however late: never the answer to
\* another caller, or to a call that timed out.
AnswerIsOwn ==
  \A t \in Callers : caller[t] = "idle" /\ result[t].kind = "ok" => result[t].of = Current(t)

\* No worker computes for nobody: a call that failed after it sent its request,
\* and the last owner that let the session go, have killed it.
NoOrphan ==
  /\ session = "dropped" => ~ alive
  /\ \A t \in Callers : result[t].kind = "error" /\ result[t].sent => ~ alive

\* Nobody waits for ever: every call returns, whatever the worker does, once the
\* others, which make finitely many calls, have let it have the mutex; and the
\* I/O thread of a dropped session ends.
CallsReturn ==
  /\ \A t \in Callers : caller[t] # "idle" ~> caller[t] = "idle"
  /\ session = "dropped" ~> io.at = "exited"
=============================================================================
