----------------------- MODULE CheckpointStoreProofs -----------------------
(* Proofs about CheckpointStore, for any invocations and any last index. *)
EXTENDS CheckpointStore, TLAPS

USE LastIndexAssumption, InvocationsAssumption

-----------------------------------------------------------------------------
(* The inductive invariant. *)

Names     == {Pending(k) : k \in Indices} \cup {Published(k) : k \in Indices}
Directory == [exists : BOOLEAN, names : SUBSET Names, text : [Indices -> Contents]]

\* Values the variables may have.
TypeOK ==
  /\ pc \in [Invocations -> Reserving \cup Publishing \cup Ended]
  /\ index \in [Invocations -> 0..LastIndex + 1]
  /\ cache \in Directory /\ disk \in Directory

\* p created the directory and is still running.
Active(p) == pc[p] \in {"sync_parent", "sync_new"} \cup Publishing

\* Only one running invocation created the directory; where one acknowledged a
\* checkpoint, no other acknowledged or will ever write one.
Exclusive ==
  \A p, q \in Invocations :
    (Active(p) \/ index[p] > 0) /\ (Active(q) \/ index[q] > 0) => p = q

\* The directory is there for whom created it, and on the disk before its first
\* file; what never was created has no files.
Reserved ==
  /\ disk.exists => cache.exists
  /\ ~cache.exists => cache = NoDirectory /\ disk = NoDirectory
  /\ \A p \in Invocations :
       /\ Active(p) => cache.exists
       /\ pc[p] \in {"sync_new"} \cup Publishing \/ index[p] > 0 => disk.exists

\* What publish has done of the checkpoint index[p].
Progress ==
  \A p \in Invocations :
    /\ pc[p] \in Publishing \ {"create"} => index[p] \in Indices
    /\ pc[p] \in {"sync_file", "link", "sync_link", "unlink", "sync_unlink"}
         => cache.text[index[p]] = p
    /\ pc[p] \in {"link", "sync_link", "unlink", "sync_unlink"}
         => disk.text[index[p]] = p
    /\ pc[p] \in {"sync_link", "unlink", "sync_unlink"}
         => Published(index[p]) \in cache.names
    /\ pc[p] \in {"unlink", "sync_unlink"} => Published(index[p]) \in disk.names
    /\ Active(p) /\ pc[p] \notin {"sync_link", "unlink", "sync_unlink"}
         => Published(index[p]) \notin cache.names

\* A published file is whole, on the disk as well, and at most one more than
\* were acknowledged.
Whole ==
  \A k \in Indices :
    /\ Published(k) \in disk.names => Published(k) \in cache.names
    /\ Published(k) \in cache.names =>
         /\ cache.text[k] \in Invocations
         /\ disk.text[k] = cache.text[k]
         /\ \E p \in Invocations : k <= index[p]

StoreInv ==
  TypeOK /\ Exclusive /\ Reserved /\ Progress /\ Whole /\ AcknowledgedIsDurable
-----------------------------------------------------------------------------
(* Names and contents. *)

\* The two names of a checkpoint are different files of the directory.
LEMMA TwoNames ==
  /\ \A j, k \in Indices : Pending(j) # Published(k)
  /\ \A j, k \in Indices : Published(j) = Published(k) => j = k
  /\ \A k \in Indices : Pending(k) \in Names /\ Published(k) \in Names
  BY DEF Pending, Published, Names

\* Nothing is ever published under a number beyond the last.
LEMMA BeyondLast ==
  ASSUME NEW n \in Nat, n \notin Indices
  PROVE  Published(n) \notin Names
  BY DEF Pending, Published, Names

\* What an invocation writes is neither of the two marks.
LEMMA WriterIsContent ==
  ASSUME NEW p \in Invocations
  PROVE  p \in Contents /\ p # "absent" /\ p # "partial"
  BY DEF Contents

\* A directory that was never created has a directory's type.
LEMMA NothingThere == NoDirectory \in Directory
  BY DEF NoDirectory, Directory, Contents

-----------------------------------------------------------------------------
(* reserve. *)

\* Before the first call.
LEMMA InitInv == Init => StoreInv
  <1> SUFFICES ASSUME Init PROVE StoreInv
    OBVIOUS
  <1>1. TypeOK
    BY NothingThere DEF Init, TypeOK, Reserving
  <1>2. Exclusive /\ Progress
    BY DEF Init, Exclusive, Progress, Active, Publishing
  <1>3. Reserved
    BY DEF Init, Reserved, Active, Publishing, NoDirectory
  <1>4. Whole /\ AcknowledgedIsDurable
    BY DEF Init, Whole, AcknowledgedIsDurable, NoDirectory
  <1> QED
    BY <1>1, <1>2, <1>3, <1>4 DEF StoreInv

\* fs::create_dir: only where no directory is, so that nobody else is active.
LEMMA CreateDirInv ==
  ASSUME StoreInv, NEW p \in Invocations, CreateDir(p)
  PROVE  StoreInv'
  <1> USE DEF StoreInv
  <1>1. CASE cache.exists
    <2>1. /\ pc' = [pc EXCEPT ![p] = "refused"]
          /\ UNCHANGED <<index, cache, disk>>
          /\ pc[p] = "create_dir"
      BY <1>1 DEF CreateDir
    <2>2. TypeOK'
      BY <2>1 DEF TypeOK, Ended
    <2>3. \A q \in Invocations : q # p => pc'[q] = pc[q]
      BY <2>1 DEF TypeOK
    <2>4. pc'[p] = "refused"
      BY <2>1 DEF TypeOK
    <2>5. ~Active(p)'
      BY <2>4 DEF Active, Publishing
    <2>6. Exclusive' /\ Reserved' /\ Progress'
      BY <2>1, <2>3, <2>4, <2>5 DEF Exclusive, Reserved, Progress, Active, Publishing
    <2>7. Whole' /\ AcknowledgedIsDurable'
      BY <2>1 DEF Whole, AcknowledgedIsDurable
    <2> QED
      BY <2>2, <2>6, <2>7
  <1>2. CASE ~cache.exists
    <2>1. /\ pc[p] = "create_dir"
          /\ pc' = [pc EXCEPT ![p] = "sync_parent"]
          /\ cache = NoDirectory /\ disk = NoDirectory
          /\ cache' = [cache EXCEPT !.exists = TRUE]
          /\ UNCHANGED <<index, disk>>
      BY <1>2 DEF CreateDir, Reserved
    <2>2. /\ cache'.exists = TRUE
          /\ cache'.names = {} /\ cache'.text = cache.text
          /\ disk.names = {} /\ disk.exists = FALSE
          /\ cache' \in Directory
      BY <2>1, NothingThere DEF Directory, NoDirectory
    <2>3. /\ \A q \in Invocations : pc'[q] = IF q = p THEN "sync_parent" ELSE pc[q]
          /\ pc' \in [Invocations -> Reserving \cup Publishing \cup Ended]
      BY <2>1 DEF TypeOK, Reserving
    <2>4. \A q \in Invocations : ~Active(q) /\ ~(index[q] > 0)
      BY <1>2 DEF Reserved
    <2>5. TypeOK'
      BY <2>1, <2>2, <2>3 DEF TypeOK
    <2>6. Exclusive'
      BY <2>1, <2>3, <2>4 DEF Exclusive, Active
    <2>7. Reserved'
      BY <2>1, <2>2, <2>3, <2>4 DEF Reserved, Active, Publishing
    <2>8. Progress'
      BY <2>1, <2>2, <2>3, <2>4 DEF Progress, Active, Publishing
    <2>9. Whole' /\ AcknowledgedIsDurable'
      BY <2>1, <2>2, <2>4 DEF Whole, AcknowledgedIsDurable, TypeOK
    <2> QED
      BY <2>5, <2>6, <2>7, <2>8, <2>9
  <1> QED
    BY <1>1, <1>2

\* sync_directory of the parent: the directory's own name is durable.
LEMMA SyncParentInv ==
  ASSUME StoreInv, NEW p \in Invocations, SyncParent(p)
  PROVE  StoreInv'
  <1> USE DEF StoreInv
  <1>1. /\ pc[p] = "sync_parent"
        /\ pc' = [pc EXCEPT ![p] = "sync_new"]
        /\ disk' = [disk EXCEPT !.exists = TRUE]
        /\ UNCHANGED <<index, cache>>
    BY DEF SyncParent
  <1>2. /\ disk'.exists = TRUE /\ disk'.names = disk.names /\ disk'.text = disk.text
        /\ disk' \in Directory
    BY <1>1 DEF TypeOK, Directory
  <1>3. /\ \A q \in Invocations : pc'[q] = IF q = p THEN "sync_new" ELSE pc[q]
        /\ pc' \in [Invocations -> Reserving \cup Publishing \cup Ended]
    BY <1>1 DEF TypeOK, Reserving
  <1>4. Active(p) /\ cache.exists
    BY <1>1 DEF Active, Reserved
  <1>5. TypeOK'
    BY <1>1, <1>2, <1>3 DEF TypeOK
  <1>6. Exclusive'
    BY <1>1, <1>3, <1>4 DEF Exclusive, Active
  <1>7. Reserved'
    BY <1>1, <1>2, <1>3, <1>4 DEF Reserved, Active, Publishing
  <1>8. Progress'
    BY <1>1, <1>2, <1>3 DEF Progress, Active, Publishing
  <1>9. Whole' /\ AcknowledgedIsDurable'
    BY <1>1, <1>2 DEF Whole, AcknowledgedIsDurable
  <1> QED
    BY <1>5, <1>6, <1>7, <1>8, <1>9

\* sync_directory of the new directory: whatever names it has are durable.
LEMMA SyncNewInv ==
  ASSUME StoreInv, NEW p \in Invocations, SyncNew(p)
  PROVE  StoreInv'
  <1> USE DEF StoreInv
  <1>1. /\ pc[p] = "sync_new"
        /\ pc' = [pc EXCEPT ![p] = "create"]
        /\ disk' = [disk EXCEPT !.names = cache.names]
        /\ UNCHANGED <<index, cache>>
    BY DEF SyncNew, SyncDirectory
  <1>2. /\ disk'.exists = disk.exists /\ disk'.names = cache.names /\ disk'.text = disk.text
        /\ disk' \in Directory
    BY <1>1 DEF TypeOK, Directory
  <1>3. /\ \A q \in Invocations : pc'[q] = IF q = p THEN "create" ELSE pc[q]
        /\ pc' \in [Invocations -> Reserving \cup Publishing \cup Ended]
    BY <1>1 DEF TypeOK, Publishing
  <1>4. Active(p) /\ cache.exists /\ disk.exists
    BY <1>1 DEF Active, Reserved
  <1>5. TypeOK'
    BY <1>1, <1>2, <1>3 DEF TypeOK
  <1>6. Exclusive'
    BY <1>1, <1>3, <1>4 DEF Exclusive, Active, Publishing
  <1>7. Reserved'
    BY <1>1, <1>2, <1>3, <1>4 DEF Reserved, Active, Publishing
  <1>8. Progress'
    <2>1. \A q \in Invocations : Active(q) => q = p
      BY <1>4 DEF Exclusive
    <2> QED
      BY <1>1, <1>2, <1>3, <2>1 DEF Progress, Active, Publishing
  <1>9. Whole' /\ AcknowledgedIsDurable'
    BY <1>1, <1>2 DEF Whole, AcknowledgedIsDurable
  <1> QED
    BY <1>5, <1>6, <1>7, <1>8, <1>9

-----------------------------------------------------------------------------
(* publish. *)

\* While p is running, only p acknowledged anything, and no other is running.
LEMMA Alone ==
  ASSUME StoreInv, NEW p \in Invocations, pc[p] \in Publishing
  PROVE  /\ Active(p) /\ cache.exists /\ disk.exists
         /\ \A q \in Invocations : Active(q) \/ index[q] > 0 => q = p
  BY DEF StoreInv, Exclusive, Reserved, Active

\* OpenOptions::create_new: the pending file of a checkpoint nobody can see yet.
LEMMA CreateInv ==
  ASSUME StoreInv, NEW p \in Invocations, Create(p)
  PROVE  StoreInv'
  <1> USE DEF StoreInv
  <1> DEFINE i == index[p]
  <1>1. /\ pc[p] = "create" /\ i <= LastIndex
        /\ pc' = [pc EXCEPT ![p] = "write"]
        /\ cache' = [cache EXCEPT !.names = @ \cup {Pending(i)}, !.text[i] = "partial"]
        /\ UNCHANGED <<index, disk>>
    BY DEF Create
  <1>2. i \in Indices
    BY <1>1 DEF TypeOK, Indices
  <1>3. /\ cache'.exists = cache.exists /\ cache'.names = cache.names \cup {Pending(i)}
        /\ \A k \in Indices : cache'.text[k] = IF k = i THEN "partial" ELSE cache.text[k]
        /\ cache' \in Directory
    <2>1. cache' = [exists |-> cache.exists, names |-> cache.names \cup {Pending(i)},
                    text |-> [cache.text EXCEPT ![i] = "partial"]]
      BY <1>1 DEF TypeOK, Directory
    <2>2. cache.text \in [Indices -> Contents] /\ "partial" \in Contents
      BY DEF TypeOK, Directory, Contents
    <2>3. cache.names \cup {Pending(i)} \in SUBSET Names /\ cache.exists \in BOOLEAN
      BY <1>2, TwoNames DEF TypeOK, Directory
    <2>4. cache' \in Directory
      BY <2>1, <2>2, <2>3 DEF Directory
    <2> QED
      BY <1>2, <2>1, <2>2, <2>4
  <1>4. /\ \A q \in Invocations : pc'[q] = IF q = p THEN "write" ELSE pc[q]
        /\ pc' \in [Invocations -> Reserving \cup Publishing \cup Ended]
    BY <1>1 DEF TypeOK, Publishing
  <1>5. /\ Active(p) /\ cache.exists /\ disk.exists
        /\ \A q \in Invocations : Active(q) \/ index[q] > 0 => q = p
    BY <1>1, Alone DEF Publishing
  <1>6. \A k \in Indices : Published(k) \in cache'.names <=> Published(k) \in cache.names
    BY <1>2, <1>3, TwoNames
  <1>7. Published(i) \notin cache.names
    BY <1>1, <1>5 DEF Progress
  <1>8. TypeOK' /\ Exclusive' /\ Reserved'
    BY <1>1, <1>3, <1>4, <1>5 DEF TypeOK, Exclusive, Reserved, Active, Publishing
  <1>9. Progress'
    BY <1>1, <1>2, <1>4, <1>5, <1>6, <1>7 DEF Progress, Active, Publishing
  <1>10. Whole'
    BY <1>1, <1>3, <1>6, <1>7 DEF Whole
  <1>11. AcknowledgedIsDurable'
    BY <1>1, <1>2, <1>3, <1>5, <1>6 DEF AcknowledgedIsDurable, TypeOK, Indices
  <1> QED
    BY <1>8, <1>9, <1>10, <1>11

\* write_all: the pending file is whole in the cache.
LEMMA WriteInv ==
  ASSUME StoreInv, NEW p \in Invocations, Write(p)
  PROVE  StoreInv'
  <1> USE DEF StoreInv
  <1> DEFINE i == index[p]
  <1>1. /\ pc[p] = "write"
        /\ pc' = [pc EXCEPT ![p] = "sync_file"]
        /\ cache' = [cache EXCEPT !.text[i] = p]
        /\ UNCHANGED <<index, disk>>
    BY DEF Write
  <1>2. i \in Indices
    BY <1>1 DEF Progress, Publishing
  <1>3. /\ cache'.exists = cache.exists /\ cache'.names = cache.names
        /\ \A k \in Indices : cache'.text[k] = IF k = i THEN p ELSE cache.text[k]
        /\ cache' \in Directory
    BY <1>1, <1>2, WriterIsContent DEF TypeOK, Directory
  <1>4. /\ \A q \in Invocations : pc'[q] = IF q = p THEN "sync_file" ELSE pc[q]
        /\ pc' \in [Invocations -> Reserving \cup Publishing \cup Ended]
    BY <1>1 DEF TypeOK, Publishing
  <1>5. /\ Active(p) /\ cache.exists /\ disk.exists
        /\ \A q \in Invocations : Active(q) \/ index[q] > 0 => q = p
    BY <1>1, Alone DEF Publishing
  <1>6. Published(i) \notin cache.names
    BY <1>1, <1>5 DEF Progress
  <1>7. TypeOK' /\ Exclusive' /\ Reserved'
    BY <1>1, <1>3, <1>4, <1>5 DEF TypeOK, Exclusive, Reserved, Active, Publishing
  <1>8. Progress'
    BY <1>1, <1>2, <1>3, <1>4, <1>5, <1>6 DEF Progress, Active, Publishing
  <1>9. Whole'
    BY <1>1, <1>3, <1>6 DEF Whole
  <1>10. AcknowledgedIsDurable'
    BY <1>1, <1>2, <1>3, <1>5 DEF AcknowledgedIsDurable, TypeOK, Indices
  <1> QED
    BY <1>7, <1>8, <1>9, <1>10

\* file.sync_all: the pending file is whole on the disk.
LEMMA SyncFileInv ==
  ASSUME StoreInv, NEW p \in Invocations, SyncFile(p)
  PROVE  StoreInv'
  <1> USE DEF StoreInv
  <1> DEFINE i == index[p]
  <1>1. /\ pc[p] = "sync_file"
        /\ pc' = [pc EXCEPT ![p] = "link"]
        /\ disk' = [disk EXCEPT !.text[i] = cache.text[i]]
        /\ UNCHANGED <<index, cache>>
    BY DEF SyncFile
  <1>2. i \in Indices /\ cache.text[i] = p
    BY <1>1 DEF Progress, Publishing
  <1>3. /\ disk'.exists = disk.exists /\ disk'.names = disk.names
        /\ \A k \in Indices : disk'.text[k] = IF k = i THEN p ELSE disk.text[k]
        /\ disk' \in Directory
    BY <1>1, <1>2, WriterIsContent DEF TypeOK, Directory
  <1>4. /\ \A q \in Invocations : pc'[q] = IF q = p THEN "link" ELSE pc[q]
        /\ pc' \in [Invocations -> Reserving \cup Publishing \cup Ended]
    BY <1>1 DEF TypeOK, Publishing
  <1>5. /\ Active(p) /\ cache.exists /\ disk.exists
        /\ \A q \in Invocations : Active(q) \/ index[q] > 0 => q = p
    BY <1>1, Alone DEF Publishing
  <1>6. Published(i) \notin cache.names
    BY <1>1, <1>5 DEF Progress
  <1>7. TypeOK' /\ Exclusive' /\ Reserved'
    BY <1>1, <1>3, <1>4, <1>5 DEF TypeOK, Exclusive, Reserved, Active, Publishing
  <1>8. Progress'
    BY <1>1, <1>2, <1>3, <1>4, <1>5, <1>6 DEF Progress, Active, Publishing
  <1>9. Whole'
    BY <1>1, <1>3, <1>6 DEF Whole
  <1>10. AcknowledgedIsDurable'
    BY <1>1, <1>2, <1>3, <1>5 DEF AcknowledgedIsDurable, TypeOK, Indices
  <1> QED
    BY <1>7, <1>8, <1>9, <1>10

\* fs::hard_link: the file that appears under its published name is whole and
\* synchronized.
LEMMA LinkInv ==
  ASSUME StoreInv, NEW p \in Invocations, Link(p)
  PROVE  StoreInv'
  <1> USE DEF StoreInv
  <1> DEFINE i == index[p]
  <1>1. /\ pc[p] = "link"
        /\ pc' = [pc EXCEPT ![p] = "sync_link"]
        /\ cache' = [cache EXCEPT !.names = @ \cup {Published(i)}]
        /\ UNCHANGED <<index, disk>>
    BY DEF Link
  <1>2. i \in Indices /\ cache.text[i] = p /\ disk.text[i] = p
    BY <1>1 DEF Progress, Publishing
  <1>3. /\ cache'.exists = cache.exists /\ cache'.text = cache.text
        /\ cache'.names = cache.names \cup {Published(i)}
        /\ cache' \in Directory
    BY <1>1, <1>2, TwoNames DEF TypeOK, Directory
  <1>4. /\ \A q \in Invocations : pc'[q] = IF q = p THEN "sync_link" ELSE pc[q]
        /\ pc' \in [Invocations -> Reserving \cup Publishing \cup Ended]
    BY <1>1 DEF TypeOK, Publishing
  <1>5. /\ Active(p) /\ cache.exists /\ disk.exists
        /\ \A q \in Invocations : Active(q) \/ index[q] > 0 => q = p
    BY <1>1, Alone DEF Publishing
  <1>6. \A k \in Indices :
          Published(k) \in cache'.names <=> k = i \/ Published(k) \in cache.names
    BY <1>2, <1>3, TwoNames
  <1>7. TypeOK' /\ Exclusive' /\ Reserved'
    BY <1>1, <1>3, <1>4, <1>5 DEF TypeOK, Exclusive, Reserved, Active, Publishing
  <1>8. Progress'
    BY <1>1, <1>2, <1>3, <1>4, <1>5, <1>6 DEF Progress, Active, Publishing
  <1>9. Whole'
    <2>1. i <= index[p]
      BY <1>2 DEF Indices
    <2> QED
      BY <1>1, <1>2, <1>3, <1>6, <2>1 DEF Whole
  <1>10. AcknowledgedIsDurable'
    BY <1>1, <1>3 DEF AcknowledgedIsDurable
  <1> QED
    BY <1>7, <1>8, <1>9, <1>10

\* sync_directory: the published name is durable.
LEMMA SyncLinkInv ==
  ASSUME StoreInv, NEW p \in Invocations, SyncLink(p)
  PROVE  StoreInv'
  <1> USE DEF StoreInv
  <1>1. /\ pc[p] = "sync_link"
        /\ pc' = [pc EXCEPT ![p] = "unlink"]
        /\ disk' = [disk EXCEPT !.names = cache.names]
        /\ UNCHANGED <<index, cache>>
    BY DEF SyncLink, SyncDirectory
  <1>2. /\ disk'.exists = disk.exists /\ disk'.names = cache.names /\ disk'.text = disk.text
        /\ disk' \in Directory
    BY <1>1 DEF TypeOK, Directory
  <1>3. /\ \A q \in Invocations : pc'[q] = IF q = p THEN "unlink" ELSE pc[q]
        /\ pc' \in [Invocations -> Reserving \cup Publishing \cup Ended]
    BY <1>1 DEF TypeOK, Publishing
  <1>4. /\ Active(p) /\ cache.exists /\ disk.exists
        /\ \A q \in Invocations : Active(q) \/ index[q] > 0 => q = p
    BY <1>1, Alone DEF Publishing
  <1>5. TypeOK' /\ Exclusive' /\ Reserved'
    BY <1>1, <1>2, <1>3, <1>4 DEF TypeOK, Exclusive, Reserved, Active, Publishing
  <1>6. Progress'
    BY <1>1, <1>2, <1>3, <1>4 DEF Progress, Active, Publishing
  <1>7. Whole' /\ AcknowledgedIsDurable'
    BY <1>1, <1>2 DEF Whole, AcknowledgedIsDurable
  <1> QED
    BY <1>5, <1>6, <1>7

\* fs::remove_file of the pending name: the published one stays.
LEMMA UnlinkInv ==
  ASSUME StoreInv, NEW p \in Invocations, Unlink(p)
  PROVE  StoreInv'
  <1> USE DEF StoreInv
  <1> DEFINE i == index[p]
  <1>1. /\ pc[p] = "unlink"
        /\ pc' = [pc EXCEPT ![p] = "sync_unlink"]
        /\ cache' = [cache EXCEPT !.names = @ \ {Pending(i)}]
        /\ UNCHANGED <<index, disk>>
    BY DEF Unlink
  <1>2. i \in Indices
    BY <1>1 DEF Progress, Publishing
  <1>3. /\ cache'.exists = cache.exists /\ cache'.text = cache.text
        /\ cache'.names = cache.names \ {Pending(i)}
        /\ cache' \in Directory
    BY <1>1 DEF TypeOK, Directory
  <1>4. /\ \A q \in Invocations : pc'[q] = IF q = p THEN "sync_unlink" ELSE pc[q]
        /\ pc' \in [Invocations -> Reserving \cup Publishing \cup Ended]
    BY <1>1 DEF TypeOK, Publishing
  <1>5. /\ Active(p) /\ cache.exists /\ disk.exists
        /\ \A q \in Invocations : Active(q) \/ index[q] > 0 => q = p
    BY <1>1, Alone DEF Publishing
  <1>6. \A k \in Indices : Published(k) \in cache'.names <=> Published(k) \in cache.names
    BY <1>2, <1>3, TwoNames
  <1>7. TypeOK' /\ Exclusive' /\ Reserved'
    BY <1>1, <1>3, <1>4, <1>5 DEF TypeOK, Exclusive, Reserved, Active, Publishing
  <1>8. Progress'
    BY <1>1, <1>2, <1>3, <1>4, <1>5, <1>6 DEF Progress, Active, Publishing
  <1>9. Whole'
    BY <1>1, <1>3, <1>6 DEF Whole
  <1>10. AcknowledgedIsDurable'
    BY <1>1, <1>3, <1>6 DEF AcknowledgedIsDurable, TypeOK, Indices
  <1> QED
    BY <1>7, <1>8, <1>9, <1>10

\* sync_directory, the last call: the checkpoint is acknowledged when it is whole
\* and durable under its published name.
LEMMA SyncUnlinkInv ==
  ASSUME StoreInv, NEW p \in Invocations, SyncUnlink(p)
  PROVE  StoreInv'
  <1> USE DEF StoreInv
  <1> DEFINE i == index[p]
  <1>1. /\ pc[p] = "sync_unlink"
        /\ pc' = [pc EXCEPT ![p] = "create"]
        /\ index' = [index EXCEPT ![p] = i + 1]
        /\ disk' = [disk EXCEPT !.names = cache.names]
        /\ UNCHANGED cache
    BY DEF SyncUnlink, SyncDirectory
  <1>2. /\ i \in Indices /\ cache.text[i] = p /\ disk.text[i] = p
        /\ Published(i) \in cache.names
    BY <1>1 DEF Progress, Publishing
  <1>3. /\ disk'.exists = disk.exists /\ disk'.names = cache.names /\ disk'.text = disk.text
        /\ disk' \in Directory
    BY <1>1 DEF TypeOK, Directory
  <1>4. /\ \A q \in Invocations : pc'[q] = IF q = p THEN "create" ELSE pc[q]
        /\ pc' \in [Invocations -> Reserving \cup Publishing \cup Ended]
    BY <1>1 DEF TypeOK, Publishing
  <1>5. /\ Active(p) /\ cache.exists /\ disk.exists
        /\ \A q \in Invocations : Active(q) \/ index[q] > 0 => q = p
    BY <1>1, Alone DEF Publishing
  <1>6. /\ \A q \in Invocations : index'[q] = IF q = p THEN i + 1 ELSE index[q]
        /\ index' \in [Invocations -> 0..LastIndex + 1]
    BY <1>1, <1>2 DEF TypeOK, Indices
  <1>7. \A q \in Invocations : index[q] \in 0..LastIndex + 1
    BY DEF TypeOK
  <1>8. TypeOK'
    BY <1>1, <1>3, <1>4, <1>6 DEF TypeOK
  <1>9. Exclusive' /\ Reserved'
    BY <1>1, <1>3, <1>4, <1>5, <1>6 DEF Exclusive, Reserved, Active, Publishing
  <1>10. Progress'
    <2>1. i + 1 \in Indices => Published(i + 1) \notin cache.names
      BY <1>2, <1>5, <1>7 DEF Whole, Indices
    <2>2. i + 1 \notin Indices => Published(i + 1) \notin cache.names
      BY <1>2, BeyondLast DEF TypeOK, Directory, Indices
    <2> QED
      BY <1>1, <1>3, <1>4, <1>5, <1>6, <2>1, <2>2 DEF Progress, Active, Publishing
  <1>11. Whole'
    BY <1>1, <1>2, <1>3, <1>6, <1>7 DEF Whole, Indices
  <1>12. AcknowledgedIsDurable'
    <2>1. ASSUME NEW q \in Invocations, NEW k \in 0..index'[q] - 1
          PROVE  /\ disk'.exists /\ Published(k) \in disk'.names /\ disk'.text[k] = q
                 /\ Published(k) \in cache'.names /\ cache'.text[k] = q
      <3>1. CASE q = p /\ k = i
        BY <1>1, <1>2, <1>3, <1>5, <3>1
      <3>2. CASE ~(q = p /\ k = i)
        BY <1>1, <1>2, <1>3, <1>6, <1>7, <2>1, <3>2 DEF AcknowledgedIsDurable, Indices
      <3> QED
        BY <3>1, <3>2
    <2> QED
      BY <2>1 DEF AcknowledgedIsDurable
  <1> QED
    BY <1>8, <1>9, <1>10, <1>11, <1>12

-----------------------------------------------------------------------------
(* Failing calls, kills and losses of power. *)

\* A call returns an error: only the pending name may be gone.
LEMMA CallFailsInv ==
  ASSUME StoreInv, NEW p \in Invocations, CallFails(p)
  PROVE  StoreInv'
  <1> USE DEF StoreInv
  <1>1. /\ pc[p] \in Reserving \cup Publishing
        /\ pc' = [pc EXCEPT ![p] = "failed"]
        /\ UNCHANGED <<index, disk>>
    BY DEF CallFails
  <1>2. /\ cache'.exists = cache.exists /\ cache'.text = cache.text
        /\ ~cache.exists => cache' = cache
        /\ \A k \in Indices : Published(k) \in cache'.names <=> Published(k) \in cache.names
        /\ cache' \in Directory
        /\ cache' = cache \/ pc[p] \in Publishing
    <2>1. CASE UNCHANGED cache
      BY <2>1 DEF TypeOK
    <2>2. CASE /\ pc[p] \in Publishing \ {"create"}
               /\ cache' = [cache EXCEPT !.names = @ \ {Pending(index[p])}]
      <3>1. index[p] \in Indices /\ cache.exists
        BY <2>2, Alone DEF Progress
      <3>2. cache'.names = cache.names \ {Pending(index[p])}
        BY <2>2 DEF TypeOK, Directory
      <3> QED
        BY <2>2, <3>1, <3>2, TwoNames DEF TypeOK, Directory
    <2> QED
      BY <2>1, <2>2 DEF CallFails
  <1>3. /\ \A q \in Invocations : pc'[q] = IF q = p THEN "failed" ELSE pc[q]
        /\ pc' \in [Invocations -> Reserving \cup Publishing \cup Ended]
    BY <1>1 DEF TypeOK, Ended
  <1>4. TypeOK' /\ Exclusive' /\ Reserved'
    BY <1>1, <1>2, <1>3 DEF TypeOK, Exclusive, Reserved, Active, Publishing
  <1>5. Progress'
    <2>1. \A q \in Invocations : Active(q)' => q # p /\ Active(q)
      BY <1>3 DEF Active, Publishing
    <2>2. (\E q \in Invocations : Active(q)') => cache' = cache
      BY <1>2, <2>1, Alone
    <2> QED
      BY <1>1, <1>2, <1>3, <2>1, <2>2 DEF Progress, Active, Publishing
  <1>6. Whole'
    BY <1>1, <1>2 DEF Whole
  <1>7. AcknowledgedIsDurable'
    BY <1>1, <1>2 DEF AcknowledgedIsDurable, TypeOK, Indices
  <1> QED
    BY <1>4, <1>5, <1>6, <1>7

\* A kill changes no file.
LEMMA KillInv ==
  ASSUME StoreInv, NEW p \in Invocations, Kill(p)
  PROVE  StoreInv'
  <1> USE DEF StoreInv
  <1>1. /\ pc' = [pc EXCEPT ![p] = "dead"]
        /\ UNCHANGED <<index, cache, disk>>
    BY DEF Kill
  <1>2. /\ \A q \in Invocations : pc'[q] = IF q = p THEN "dead" ELSE pc[q]
        /\ pc' \in [Invocations -> Reserving \cup Publishing \cup Ended]
    BY <1>1 DEF TypeOK, Ended
  <1>3. TypeOK' /\ Exclusive' /\ Reserved' /\ Progress'
    BY <1>1, <1>2 DEF TypeOK, Exclusive, Reserved, Progress, Active, Publishing
  <1>4. Whole' /\ AcknowledgedIsDurable'
    BY <1>1 DEF Whole, AcknowledgedIsDurable
  <1> QED
    BY <1>3, <1>4

\* Power loss: nobody is running, and of the files what was synchronized stays.
LEMMA PowerLossInv == StoreInv /\ PowerLoss => StoreInv'
  <1> SUFFICES ASSUME StoreInv, PowerLoss PROVE StoreInv'
    OBVIOUS
  <1> USE DEF StoreInv
  <1>1. PICK exists \in {disk.exists, cache.exists},
             names \in SUBSET (disk.names \cup cache.names),
             text \in [Indices -> Contents] :
          /\ disk.names \cap cache.names \subseteq names
          /\ \A k \in Indices : text[k] \in TextsLeft(k)
          /\ cache' = IF exists THEN [exists |-> TRUE, names |-> names, text |-> text]
                                ELSE NoDirectory
          /\ disk' = cache'
    BY DEF PowerLoss
  <1>2. /\ index' = index
        /\ pc' \in [Invocations -> Reserving \cup Publishing \cup Ended]
        /\ \A q \in Invocations : ~Active(q)'
    BY DEF PowerLoss, TypeOK, Active, Reserving, Publishing, Ended
  <1>3. cache' \in Directory
    BY <1>1, NothingThere DEF TypeOK, Directory
  <1>4. /\ exists \in BOOLEAN
        /\ (\E q \in Invocations : index[q] > 0) => exists
    BY <1>1 DEF Reserved, TypeOK, Directory
  <1>5. CASE ~exists
    <2>1. cache' = NoDirectory /\ disk' = NoDirectory
      BY <1>1, <1>5
    <2>2. \A q \in Invocations : index[q] = 0
      <3> SUFFICES ASSUME NEW q \in Invocations PROVE index[q] = 0
        OBVIOUS
      <3>1. index[q] \in 0..LastIndex + 1 /\ ~(index[q] > 0)
        BY <1>4, <1>5 DEF TypeOK
      <3> QED
        BY <3>1
    <2>3. TypeOK' /\ Exclusive' /\ Progress'
      BY <1>2, <1>3, <2>1, <2>2 DEF TypeOK, Exclusive, Progress, Active, Publishing
    <2>4. Reserved'
      BY <1>2, <2>1, <2>2 DEF Reserved, NoDirectory, Active
    <2>5. Whole' /\ AcknowledgedIsDurable'
      BY <1>2, <2>1, <2>2 DEF Whole, AcknowledgedIsDurable, NoDirectory
    <2> QED
      BY <2>3, <2>4, <2>5
  <1>6. CASE exists
    <2>1. /\ cache'.exists = TRUE /\ cache'.names = names /\ cache'.text = text
          /\ disk' = cache'
      BY <1>1, <1>6
    <2>2. \A k \in Indices :
            Published(k) \in names =>
              /\ Published(k) \in cache.names
              /\ text[k] = cache.text[k]
      BY <1>1 DEF Whole, TextsLeft
    <2>3. TypeOK' /\ Exclusive' /\ Progress' /\ Reserved'
      BY <1>2, <1>3, <2>1 DEF TypeOK, Exclusive, Progress, Reserved, Active, Publishing
    <2>4. Whole'
      BY <1>2, <2>1, <2>2 DEF Whole
    <2>5. AcknowledgedIsDurable'
      <3>1. ASSUME NEW q \in Invocations, NEW k \in 0..index[q] - 1
            PROVE  Published(k) \in names /\ text[k] = q
        <4>1. /\ k \in Indices /\ Published(k) \in disk.names \cap cache.names
              /\ cache.text[k] = q
          BY <3>1 DEF AcknowledgedIsDurable, TypeOK, Indices
        <4> QED
          BY <1>1, <2>2, <4>1
      <3> QED
        BY <1>2, <2>1, <3>1 DEF AcknowledgedIsDurable
    <2> QED
      BY <2>3, <2>4, <2>5
  <1> QED
    BY <1>4, <1>5, <1>6

-----------------------------------------------------------------------------
(* The theorems. *)

\* Every step preserves the invariant.
LEMMA StepInv == StoreInv /\ [Next]_vars => StoreInv'
  <1> SUFFICES ASSUME StoreInv, [Next]_vars PROVE StoreInv'
    OBVIOUS
  <1>1. ASSUME NEW p \in Invocations, Step(p) PROVE StoreInv'
    BY <1>1, CreateDirInv, SyncParentInv, SyncNewInv, CreateInv, WriteInv, SyncFileInv,
       LinkInv, SyncLinkInv, UnlinkInv, SyncUnlinkInv, CallFailsInv, KillInv DEF Step
  <1>2. CASE PowerLoss
    BY <1>2, PowerLossInv
  <1>3. CASE UNCHANGED vars
    BY <1>3 DEF vars, StoreInv, TypeOK, Exclusive, Reserved, Progress, Whole,
       AcknowledgedIsDurable, Active
  <1> QED
    BY <1>1, <1>2, <1>3 DEF Next

\* The invariant holds in every state of every run of the calls.
LEMMA Invariance == Spec => []StoreInv
  BY InitInv, StepInv, PTL DEF Spec

\* The calls of publish and reserve keep the types of what they work on.
THEOREM TypeCorrect == Spec => []TypeOK
  <1>1. StoreInv => TypeOK
    BY DEF StoreInv
  <1> QED
    BY <1>1, Invariance, PTL

\* What publish acknowledged with Ok stays on the disk, whole and under its
\* published name, through failing calls, kills and losses of power.
THEOREM AcknowledgedDurability == Spec => []AcknowledgedIsDurable
  <1>1. StoreInv => AcknowledgedIsDurable
    BY DEF StoreInv
  <1> QED
    BY <1>1, Invariance, PTL

\* Since fs::create_dir refuses a directory that is there, only one of any number
\* of invocations is ever publishing into it.
THEOREM SingleWriter == Spec => []OneWriter
  <1>1. StoreInv => OneWriter
    BY DEF StoreInv, OneWriter, Exclusive, Active
  <1> QED
    BY <1>1, Invariance, PTL

-----------------------------------------------------------------------------
(* The refinement: what the directory's user sees is a CheckpointLog.      *)

\* The log's entries, as Log maps them.
Entry == [k \in Indices |-> IF Published(k) \in cache.names THEN cache.text[k] ELSE "absent"]

HighestOf(f) == CHOOSE n \in {f[p] : p \in Invocations} : \A p \in Invocations : f[p] <= n

\* Where at most p acknowledged anything, the highest index is p's.
LEMMA HighestIsIts ==
  ASSUME NEW f \in [Invocations -> Nat], NEW p \in Invocations,
         \A q \in Invocations : q # p => f[q] = 0
  PROVE  HighestOf(f) = f[p]
  <1>1. /\ f[p] \in {f[q] : q \in Invocations}
        /\ \A q \in Invocations : f[q] <= f[p]
    BY SMT
  <1>2. \E n \in {f[q] : q \in Invocations} : \A q \in Invocations : f[q] <= n
    BY <1>1, Zenon
  <1>3. /\ HighestOf(f) \in {f[q] : q \in Invocations}
        /\ \A q \in Invocations : f[q] <= HighestOf(f)
    BY <1>2, Zenon DEF HighestOf
  <1> HIDE DEF HighestOf
  <1> QED
    BY <1>1, <1>3, SMT

\* Some invocation is the only one that may have acknowledged checkpoints, and
\* it is the running one if there is one.
LEMMA OneAcknowledged ==
  ASSUME StoreInv
  PROVE  /\ index \in [Invocations -> Nat]
         /\ \E p \in Invocations : \A q \in Invocations : q # p => index[q] = 0
         /\ \A p \in Invocations : pc[p] \in Publishing =>
              \A q \in Invocations : q # p => index[q] = 0
  <1>1. index \in [Invocations -> Nat] /\ \A q \in Invocations : index[q] = 0 \/ index[q] > 0
    BY DEF StoreInv, TypeOK
  <1>2. \A p, q \in Invocations : (Active(p) \/ index[p] > 0) /\ index[q] > 0 => p = q
    BY DEF StoreInv, Exclusive
  <1>3. \E p \in Invocations : \A q \in Invocations : q # p => index[q] = 0
    <2>1. CASE \E p \in Invocations : index[p] > 0
      BY <1>1, <1>2, <2>1
    <2>2. CASE \A p \in Invocations : index[p] = 0
      BY <2>2
    <2> QED
      BY <1>1, <2>1, <2>2
  <1>4. \A p \in Invocations : pc[p] \in Publishing => Active(p)
    BY DEF Active
  <1> QED
    BY <1>1, <1>2, <1>3, <1>4

\* The number of acknowledged entries, and what is known of the others.
LEMMA LogState ==
  ASSUME StoreInv
  PROVE  /\ Highest \in Nat
         /\ \A k \in Indices : k < Highest =>
              /\ disk.exists
              /\ Published(k) \in disk.names \cap cache.names
              /\ cache.text[k] \in Invocations
         /\ \A k \in Indices : k > Highest => Published(k) \notin cache.names
         /\ Highest > 0 => disk.exists
  <1>1. PICK p \in Invocations : \A q \in Invocations : q # p => index[q] = 0
    BY OneAcknowledged
  <1>2. index \in [Invocations -> Nat]
    BY OneAcknowledged
  <1>3. Highest = index[p]
    <2>1. HighestOf(index) = index[p]
      BY <1>1, <1>2, HighestIsIts
    <2> QED
      BY <2>1 DEF Highest, HighestOf
  <1>4. ASSUME NEW q \in Invocations PROVE index[q] <= index[p]
    <2>1. index[q] \in Nat /\ index[p] \in Nat /\ (q = p \/ index[q] = 0)
      BY <1>1, <1>2
    <2> QED
      BY <2>1
  <1>5. \A k \in Indices : Published(k) \in cache.names => k <= index[p]
    BY <1>2, <1>4 DEF StoreInv, Whole, Indices
  <1>6. \A k \in Indices : k < index[p] =>
          disk.exists /\ Published(k) \in disk.names \cap cache.names /\ cache.text[k] \in Invocations
    BY <1>2 DEF StoreInv, AcknowledgedIsDurable, Indices
  <1> QED
    BY <1>2, <1>3, <1>5, <1>6 DEF StoreInv, Reserved, Indices

\* A step that leaves the published files and the acknowledgements alone
\* changes nothing of the log.
LEMMA SameLog ==
  ASSUME index' = index,
         \A k \in Indices : Published(k) \in cache'.names <=> Published(k) \in cache.names,
         \A k \in Indices : Published(k) \in cache.names => cache'.text[k] = cache.text[k]
  PROVE  UNCHANGED <<Entry, Highest>>
  <1>1. Entry' = Entry
    BY DEF Entry
  <1>2. Highest' = Highest
    BY DEF Highest
  <1> QED
    BY <1>1, <1>2

\* The calls before the link change only what no user of the log looks at.
LEMMA Invisible ==
  ASSUME StoreInv, NEW p \in Invocations,
         \/ CreateDir(p) \/ SyncParent(p) \/ SyncNew(p) \/ Create(p) \/ Write(p)
         \/ SyncFile(p) \/ SyncLink(p) \/ Unlink(p) \/ CallFails(p) \/ Kill(p)
  PROVE  UNCHANGED <<Entry, Highest>>
  <1> USE DEF StoreInv
  <1>1. CASE CreateDir(p)
    BY <1>1, SameLog DEF CreateDir, TypeOK, Directory
  <1>2. CASE SyncParent(p) \/ SyncNew(p) \/ SyncFile(p) \/ SyncLink(p) \/ Kill(p)
    BY <1>2, SameLog DEF SyncParent, SyncNew, SyncFile, SyncLink, Kill
  <1>3. CASE Create(p)
    <2>1. /\ index' = index /\ index[p] \in Indices
          /\ Published(index[p]) \notin cache.names
      BY <1>3 DEF Create, Progress, Active, Publishing, TypeOK, Indices
    <2>2. /\ cache'.names = cache.names \cup {Pending(index[p])}
          /\ cache'.text = [cache.text EXCEPT ![index[p]] = "partial"]
      <3>1. cache' = [exists |-> cache.exists, names |-> cache.names \cup {Pending(index[p])},
                      text |-> [cache.text EXCEPT ![index[p]] = "partial"]]
        BY <1>3 DEF Create, TypeOK, Directory
      <3> QED
        BY <3>1
    <2>3. \A k \in Indices : Published(k) \in cache'.names <=> Published(k) \in cache.names
      BY <2>1, <2>2, TwoNames
    <2>4. \A k \in Indices : Published(k) \in cache.names => cache'.text[k] = cache.text[k]
      BY <2>1, <2>2 DEF TypeOK, Directory
    <2> QED
      BY <2>1, <2>3, <2>4, SameLog
  <1>4. CASE Write(p)
    <2>1. /\ index' = index /\ index[p] \in Indices
          /\ Published(index[p]) \notin cache.names
          /\ cache' = [cache EXCEPT !.text[index[p]] = p]
      BY <1>4 DEF Write, Progress, Active, Publishing
    <2>2. /\ cache'.names = cache.names
          /\ cache'.text = [cache.text EXCEPT ![index[p]] = p]
      BY <2>1 DEF TypeOK, Directory
    <2>3. \A k \in Indices : Published(k) \in cache.names => cache'.text[k] = cache.text[k]
      BY <2>1, <2>2 DEF TypeOK, Directory
    <2> QED
      BY <2>1, <2>2, <2>3, SameLog
  <1>5. CASE Unlink(p) \/ CallFails(p)
    <2>1. index' = index
      BY <1>5 DEF Unlink, CallFails
    <2>2. \/ cache' = cache
          \/ /\ pc[p] \in Publishing \ {"create"}
             /\ cache' = [cache EXCEPT !.names = @ \ {Pending(index[p])}]
      BY <1>5 DEF Unlink, CallFails, Publishing
    <2>3. CASE cache' = cache
      BY <2>1, <2>3, SameLog
    <2>4. CASE /\ pc[p] \in Publishing \ {"create"}
               /\ cache' = [cache EXCEPT !.names = @ \ {Pending(index[p])}]
      <3>1. /\ cache'.text = cache.text
            /\ cache'.names = cache.names \ {Pending(index[p])}
            /\ index[p] \in Indices
        BY <2>4 DEF TypeOK, Directory, Progress
      <3>2. \A k \in Indices : Published(k) \in cache'.names <=> Published(k) \in cache.names
        BY <3>1, TwoNames
      <3> QED
        BY <2>1, <3>1, <3>2, SameLog
    <2> QED
      BY <2>2, <2>3, <2>4
  <1> QED
    BY <1>1, <1>2, <1>3, <1>4, <1>5

\* The link makes the next entry appear, whole.
LEMMA LinkAppears ==
  ASSUME StoreInv, NEW p \in Invocations, Link(p)
  PROVE  Log!Appear
  <1> USE DEF StoreInv
  <1> DEFINE i == index[p]
  <1>1. /\ pc[p] \in Publishing /\ i \in Indices /\ cache.text[i] = p
        /\ Published(i) \notin cache.names
        /\ cache' = [cache EXCEPT !.names = @ \cup {Published(i)}]
        /\ index' = index
    BY DEF Link, Publishing, Progress
  <1>2. Highest = i
    BY <1>1, OneAcknowledged, HighestIsIts DEF Highest, HighestOf
  <1>3. cache'.names = cache.names \cup {Published(i)} /\ cache'.text = cache.text
    BY <1>1 DEF TypeOK, Directory
  <1>4. \A k \in Indices :
          Published(k) \in cache'.names <=> k = i \/ Published(k) \in cache.names
    BY <1>1, <1>3, TwoNames
  <1>5. Entry' = [Entry EXCEPT ![i] = p]
    <2>1. \A k \in Indices : Entry'[k] = IF k = i THEN p ELSE Entry[k]
      BY <1>1, <1>3, <1>4 DEF Entry
    <2> QED
      BY <1>1, <2>1 DEF Entry
  <1>6. Entry[i] = "absent"
    BY <1>1 DEF Entry
  <1>7. Highest' = Highest
    BY <1>1 DEF Highest
  <1> QED
    BY <1>1, <1>2, <1>5, <1>6, <1>7 DEF Log!Appear, Log!NoEntry, Log!Indices, Entry, Indices

\* The last call acknowledges the entry the link made appear.
LEMMA SyncUnlinkAcknowledges ==
  ASSUME StoreInv, NEW p \in Invocations, SyncUnlink(p)
  PROVE  Log!Acknowledge
  <1> USE DEF StoreInv
  <1> DEFINE i == index[p]
  <1>1. /\ pc[p] \in Publishing /\ i \in Indices /\ cache.text[i] = p
        /\ Published(i) \in cache.names
        /\ index' = [index EXCEPT ![p] = i + 1]
        /\ cache' = cache
    BY DEF SyncUnlink, Publishing, Progress
  <1>2. index \in [Invocations -> Nat] /\ \A q \in Invocations : q # p => index[q] = 0
    BY <1>1, OneAcknowledged
  <1>3. Highest = i
    BY <1>2, HighestIsIts DEF Highest, HighestOf
  <1>4. /\ index' \in [Invocations -> Nat] /\ index'[p] = i + 1
        /\ \A q \in Invocations : q # p => index'[q] = 0
    BY <1>1, <1>2
  <1>5. HighestOf(index') = i + 1
    BY <1>4, HighestIsIts
  <1>6. Highest' = i + 1
    BY <1>5 DEF Highest, HighestOf
  <1>7. Entry' = Entry
    BY <1>1 DEF Entry
  <1>8. Entry[i] # "absent"
    BY <1>1, WriterIsContent DEF Entry
  <1> QED
    BY <1>1, <1>3, <1>6, <1>7, <1>8 DEF Log!Acknowledge, Log!NoEntry, Log!Indices, Entry, Indices

\* Power loss may take the one entry that was not acknowledged, and no other.
LEMMA PowerLossDisappears ==
  ASSUME StoreInv, PowerLoss
  PROVE  Log!Disappear \/ UNCHANGED <<Entry, Highest>>
  <1> USE DEF StoreInv
  <1>1. PICK exists \in {disk.exists, cache.exists},
             names \in SUBSET (disk.names \cup cache.names),
             text \in [Indices -> Contents] :
          /\ disk.names \cap cache.names \subseteq names
          /\ \A k \in Indices : text[k] \in TextsLeft(k)
          /\ cache' = IF exists THEN [exists |-> TRUE, names |-> names, text |-> text]
                                ELSE NoDirectory
    BY DEF PowerLoss
  <1>2. index' = index /\ Highest' = Highest
    BY DEF PowerLoss, Highest
  <1>3. exists \in BOOLEAN /\ (disk.exists => exists)
    BY <1>1 DEF Reserved, TypeOK, Directory
  <1>4. ASSUME NEW k \in Indices
        PROVE  /\ Published(k) \in cache'.names =>
                    Published(k) \in cache.names /\ cache'.text[k] = cache.text[k]
               /\ k < Highest => Published(k) \in cache'.names
    <2>1. CASE exists
      <3>1. cache'.names = names /\ cache'.text = text
        BY <1>1, <2>1
      <3>2. Published(k) \in names => Published(k) \in cache.names /\ text[k] = cache.text[k]
        BY <1>1 DEF Whole, TextsLeft
      <3> QED
        BY <1>1, <3>1, <3>2, LogState
    <2>2. CASE ~exists
      <3>1. cache'.names = {} /\ ~disk.exists
        BY <1>1, <1>3, <2>2 DEF NoDirectory
      <3> QED
        BY <3>1, LogState
    <2> QED
      BY <1>3, <2>1, <2>2
  <1>5. ASSUME NEW k \in Indices, k # Highest
        PROVE  Entry'[k] = Entry[k]
    <2>1. k < Highest \/ k > Highest
      BY <1>5, LogState DEF Indices
    <2>2. CASE k < Highest
      BY <1>4, <2>2, LogState DEF Entry
    <2>3. CASE k > Highest
      BY <1>4, <2>3, LogState DEF Entry
    <2> QED
      BY <2>1, <2>2, <2>3
  <1>6. CASE Highest \in Indices /\ Published(Highest) \notin cache'.names
    <2>1. Entry' = [Entry EXCEPT ![Highest] = "absent"]
      BY <1>5, <1>6 DEF Entry
    <2> QED
      BY <1>2, <1>6, <2>1 DEF Log!Disappear, Log!NoEntry, Log!Indices, Entry, Indices
  <1>7. CASE Highest \in Indices /\ Published(Highest) \in cache'.names
    <2>1. Entry'[Highest] = Entry[Highest]
      BY <1>4, <1>7 DEF Entry
    <2>2. Entry' = Entry
      BY <1>5, <2>1 DEF Entry
    <2> QED
      BY <1>2, <2>2
  <1>8. CASE Highest \notin Indices
    <2>1. Entry' = Entry
      BY <1>5, <1>8 DEF Entry
    <2> QED
      BY <1>2, <2>1
  <1> QED
    BY <1>6, <1>7, <1>8

\* The calls of reserve and publish, with any of them failing, with kills and
\* with losses of power, implement the log: entries appear whole and in order,
\* are never replaced, and are never lost once acknowledged.
THEOREM ImplementsLog == Spec => Implements
  <1>1. Init => Log!Init
    <2> SUFFICES ASSUME Init PROVE Log!Init
      OBVIOUS
    <2>1. /\ \A k \in Indices : Published(k) \notin cache.names
          /\ \A q \in Invocations : index[q] = 0
      BY DEF Init, NoDirectory
    <2>2. \E p \in Invocations : HighestOf(index) = index[p]
      BY InitInv, OneAcknowledged, HighestIsIts
    <2>3. Highest = 0
      BY <2>1, <2>2 DEF Highest, HighestOf
    <2> QED
      BY <2>1, <2>3 DEF Log!Init, Log!Indices, Log!NoEntry, Indices
  <1>2. StoreInv /\ [Next]_vars => [Log!Next]_(Log!vars)
    <2> SUFFICES ASSUME StoreInv, [Next]_vars PROVE Log!Next \/ UNCHANGED Log!vars
      OBVIOUS
    <2>1. UNCHANGED <<Entry, Highest>> => UNCHANGED Log!vars
      BY DEF Log!vars, Entry
    <2>2. ASSUME NEW p \in Invocations, Step(p) PROVE Log!Next \/ UNCHANGED Log!vars
      BY <2>1, <2>2, Invisible, LinkAppears, SyncUnlinkAcknowledges DEF Step, Log!Next
    <2>3. CASE PowerLoss
      BY <2>1, <2>3, PowerLossDisappears DEF Log!Next
    <2>4. CASE UNCHANGED vars
      BY <2>1, <2>4, SameLog DEF vars
    <2> QED
      BY <2>2, <2>3, <2>4 DEF Next
  <1> QED
    BY <1>1, <1>2, Invariance, PTL DEF Spec, Implements, Log!Spec

=============================================================================
