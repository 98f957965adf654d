------------------------------- MODULE Agenda -------------------------------
(***************************************************************************)
(* What the matcher's event queue promises the flooders: every item has at *)
(* most one time it wants to be looked at; looks are given in the order of *)
(* time, each at its time, and none is missing when there are no more.     *)
(* (The module EventQueue implements this one.)                            *)
(***************************************************************************)
EXTENDS Integers

CONSTANT Items

VARIABLES
  now,      \* the time, which does not go back
  wanted,   \* the time each item wants to be looked at, or Never
  look      \* the last answer: an item, "none", or "pending" while it is sought

vars == <<now, wanted, look>>

Never == -1

\* No item wants to be looked at before time t.
NothingBefore(t) == \A i \in Items : wanted[i] # Never => t <= wanted[i]

Init == now = 0 /\ wanted = [i \in Items |-> Never] /\ look = "none"

\* i wants to be looked at, now or later, instead of when it wanted to be.
Want(i) ==
  /\ wanted' = [wanted EXCEPT ![i] = wanted'[i]]
  /\ wanted'[i] \in Int /\ now <= wanted'[i]
  /\ UNCHANGED <<now, look>>

Forget(i) == wanted' = [wanted EXCEPT ![i] = Never] /\ UNCHANGED <<now, look>>

\* Time passes while an answer is sought, not past a time that is wanted.
Seek ==
  /\ now' >= now
  /\ NothingBefore(now')
  /\ look' = "pending"
  /\ UNCHANGED wanted

Give(i) ==
  /\ wanted[i] # Never
  /\ NothingBefore(wanted[i])
  /\ now' = wanted[i]
  /\ wanted' = [wanted EXCEPT ![i] = Never]
  /\ look' = i

GiveNone ==
  /\ \A i \in Items : wanted[i] = Never
  /\ look' = "none"
  /\ UNCHANGED <<now, wanted>>

Restart == now' = 0 /\ wanted' = [i \in Items |-> Never] /\ look' = "none"

Next ==
  \/ \E i \in Items : Want(i) \/ Forget(i) \/ Give(i)
  \/ Seek \/ GiveNone \/ Restart

Spec == Init /\ [][Next]_vars
=============================================================================
