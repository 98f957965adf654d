-------------------------- MODULE CheckpointStore --------------------------
(***************************************************************************)
(* Publication of checkpoints into one directory (rmagna, cli/stream/      *)
(* persistence.rs: reserve and publish; cli/stream.rs: checkpoint, which   *)
(* takes the next index only after an Ok and publishes nothing after an    *)
(* Err), one action per system call.  Any call may fail, a process may be  *)
(* killed between two calls, and power may be lost.                        *)
(*                                                                         *)
(* The file system is external, modelled by what the calls rely on: what   *)
(* processes see is the cache; fsync of a file or a directory copies it to *)
(* the disk; power loss keeps of everything not synchronized any part.     *)
(***************************************************************************)
EXTENDS Integers

CONSTANTS
  Invocations,  \* processes told to use this directory, each once
  LastIndex     \* bound: the last checkpoint a process publishes

ASSUME LastIndexAssumption == LastIndex \in Nat
ASSUME InvocationsAssumption ==
  Invocations # {} /\ Invocations \cap {"absent", "partial"} = {}

Indices == 0..LastIndex

VARIABLES
  pc,      \* the next system call of each invocation
  index,   \* context.index, the checkpoints acknowledged to it
  cache,   \* the directory as processes see it
  disk     \* the directory as power loss leaves at least

vars == <<pc, index, cache, disk>>

\* The names publish uses: .checkpoint-N.pending and checkpoint-N.json.
Pending(k)   == <<"pending", k>>
Published(k) == <<"checkpoint", k>>

\* The text of the file that was created as Pending(k), by the invocation that
\* wrote it; a file not written to its end is "partial".
Contents == Invocations \cup {"absent", "partial"}

NoDirectory == [exists |-> FALSE, names |-> {}, text |-> [k \in Indices |-> "absent"]]

Reserving  == {"create_dir", "sync_parent", "sync_new"}
Publishing == {"create", "write", "sync_file", "link", "sync_link", "unlink", "sync_unlink"}
Ended      == {"refused", "failed", "dead"}

-----------------------------------------------------------------------------
(* reserve.                                                                *)

\* Mutant: a directory that is there already is used (create_dir_all).
CreateDirAll(p) ==
  /\ pc[p] = "create_dir"
  /\ cache' = [cache EXCEPT !.exists = TRUE]
  /\ pc' = [pc EXCEPT ![p] = "sync_parent"]
  /\ UNCHANGED <<index, disk>>

\* fs::create_dir refuses a directory that is there already.
CreateDir(p) ==
  /\ pc[p] = "create_dir"
  /\ IF cache.exists
     THEN /\ pc' = [pc EXCEPT ![p] = "refused"]
          /\ UNCHANGED cache
     ELSE /\ pc' = [pc EXCEPT ![p] = "sync_parent"]
          /\ cache' = [cache EXCEPT !.exists = TRUE]
  /\ UNCHANGED <<index, disk>>

SyncParent(p) ==
  /\ pc[p] = "sync_parent"
  /\ disk' = [disk EXCEPT !.exists = TRUE]
  /\ pc' = [pc EXCEPT ![p] = "sync_new"]
  /\ UNCHANGED <<index, cache>>

\* Mutant: the directory itself is never synchronized after its creation.
SyncNothing == UNCHANGED disk

\* sync_directory makes the names, not the texts, durable.
SyncDirectory == disk' = [disk EXCEPT !.names = cache.names]

SyncNew(p) ==
  /\ pc[p] = "sync_new"
  /\ SyncDirectory
  /\ pc' = [pc EXCEPT ![p] = "create"]
  /\ UNCHANGED <<index, cache>>

-----------------------------------------------------------------------------
(* publish, for the checkpoint index[p].                                   *)

\* OpenOptions::create_new.
Create(p) ==
  /\ pc[p] = "create"
  /\ index[p] <= LastIndex
  /\ Pending(index[p]) \notin cache.names
  /\ cache' = [cache EXCEPT !.names = @ \cup {Pending(index[p])},
                            !.text[index[p]] = "partial"]
  /\ pc' = [pc EXCEPT ![p] = "write"]
  /\ UNCHANGED <<index, disk>>

Write(p) ==
  /\ pc[p] = "write"
  /\ cache' = [cache EXCEPT !.text[index[p]] = p]
  /\ pc' = [pc EXCEPT ![p] = "sync_file"]
  /\ UNCHANGED <<index, disk>>

\* file.sync_all.
SyncFile(p) ==
  /\ pc[p] = "sync_file"
  /\ disk' = [disk EXCEPT !.text[index[p]] = cache.text[index[p]]]
  /\ pc' = [pc EXCEPT ![p] = "link"]
  /\ UNCHANGED <<index, cache>>

\* fs::hard_link refuses a name that is there already.
Link(p) ==
  /\ pc[p] = "link"
  /\ Published(index[p]) \notin cache.names
  /\ cache' = [cache EXCEPT !.names = @ \cup {Published(index[p])}]
  /\ pc' = [pc EXCEPT ![p] = "sync_link"]
  /\ UNCHANGED <<index, disk>>

SyncLink(p) ==
  /\ pc[p] = "sync_link"
  /\ SyncDirectory
  /\ pc' = [pc EXCEPT ![p] = "unlink"]
  /\ UNCHANGED <<index, cache>>

Unlink(p) ==
  /\ pc[p] = "unlink"
  /\ cache' = [cache EXCEPT !.names = @ \ {Pending(index[p])}]
  /\ pc' = [pc EXCEPT ![p] = "sync_unlink"]
  /\ UNCHANGED <<index, disk>>

\* The last call: publish returns Ok and checkpoint takes the next index.
SyncUnlink(p) ==
  /\ pc[p] = "sync_unlink"
  /\ SyncDirectory
  /\ index' = [index EXCEPT ![p] = @ + 1]
  /\ pc' = [pc EXCEPT ![p] = "create"]
  /\ UNCHANGED cache

-----------------------------------------------------------------------------
(* What goes wrong.                                                        *)

\* Mutant: after an error the run goes on with the next index.
CallSkipped(p) ==
  /\ pc[p] \in Publishing
  /\ index[p] < LastIndex
  /\ pc' = [pc EXCEPT ![p] = "create"]
  /\ index' = [index EXCEPT ![p] = @ + 1]
  /\ cache' = [cache EXCEPT !.names = @ \ {Pending(index[p])}]
  /\ UNCHANGED disk

\* A call returns an error.  After create_new succeeded, publish still tries to
\* remove the pending file, and never the published one.
CallFails(p) ==
  /\ pc[p] \in Reserving \cup Publishing
  /\ pc' = [pc EXCEPT ![p] = "failed"]
  /\ \/ UNCHANGED cache
     \/ /\ pc[p] \in Publishing \ {"create"}
        /\ cache' = [cache EXCEPT !.names = @ \ {Pending(index[p])}]
  /\ UNCHANGED <<index, disk>>

Kill(p) ==
  /\ pc[p] \notin Ended
  /\ pc' = [pc EXCEPT ![p] = "dead"]
  /\ UNCHANGED <<index, cache, disk>>

\* The texts power loss may leave in the file created as Pending(k).
TextsLeft(k) ==
  IF disk.text[k] = cache.text[k] THEN {cache.text[k]} ELSE {"partial", cache.text[k]}

\* Every process that had begun is gone; of what was not synchronized, any part
\* has reached the disk.
PowerLoss ==
  /\ pc' = [p \in Invocations |-> IF pc[p] \in {"create_dir"} \cup Ended THEN pc[p] ELSE "dead"]
  /\ \E exists \in {disk.exists, cache.exists} :
     \E names \in SUBSET (disk.names \cup cache.names) :
     \E text \in [Indices -> Contents] :
       LET left == [exists |-> TRUE, names |-> names, text |-> text] IN
       /\ disk.names \cap cache.names \subseteq names
       /\ \A k \in Indices : text[k] \in TextsLeft(k)
       /\ cache' = IF exists THEN left ELSE NoDirectory
       /\ disk' = cache'
  /\ UNCHANGED index

-----------------------------------------------------------------------------
Init ==
  /\ pc = [p \in Invocations |-> "create_dir"]
  /\ index = [p \in Invocations |-> 0]
  /\ cache = NoDirectory
  /\ disk = NoDirectory

Step(p) ==
  \/ CreateDir(p) \/ SyncParent(p) \/ SyncNew(p)
  \/ Create(p) \/ Write(p) \/ SyncFile(p) \/ Link(p)
  \/ SyncLink(p) \/ Unlink(p) \/ SyncUnlink(p)
  \/ CallFails(p) \/ Kill(p)

Next == (\E p \in Invocations : Step(p)) \/ PowerLoss

Spec == Init /\ [][Next]_vars

-----------------------------------------------------------------------------
(* Properties.                                                             *)

\* What publish acknowledged with Ok is on the disk, whatever happens later.
AcknowledgedIsDurable ==
  \A p \in Invocations : \A k \in 0..index[p] - 1 :
    /\ disk.exists /\ Published(k) \in disk.names /\ disk.text[k] = p
    /\ Published(k) \in cache.names /\ cache.text[k] = p

\* Two invocations given the same directory never both write to it.
OneWriter ==
  \A p, q \in Invocations :
    pc[p] \in Publishing /\ pc[q] \in Publishing => p = q

\* The directory as its user sees it.
Highest == CHOOSE n \in {index[p] : p \in Invocations} : \A p \in Invocations : index[p] <= n

Log == INSTANCE CheckpointLog WITH
  Writers <- Invocations,
  entry <- [k \in Indices |-> IF Published(k) \in cache.names THEN cache.text[k] ELSE "absent"],
  acked <- Highest

\* The calls of reserve and publish implement a log whose entries appear whole,
\* in order, are never replaced and, once acknowledged, never lost.
Implements == Log!Spec
=============================================================================
