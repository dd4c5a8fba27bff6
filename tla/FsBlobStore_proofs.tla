------------------------- MODULE FsBlobStore_proofs -------------------------
(***************************************************************************)
(* Proofs about FsBlobStore, for any number of tasks, digests, errors and  *)
(* crashes: what is stored under a digest is all of its bytes, writers     *)
(* never share a temporary file, none is left behind, and every step of    *)
(* the store is a step of the contract of the trait (BlobStore).           *)
(***************************************************************************)
EXTENDS FsBlobStoreContract, FiniteSetTheorems, TLAPS

Steps == {"idle", "dirs", "write", "rename", "remove", "read", "stat", "delete", "list"}

\* The steps at which a call has a temporary file.
Owning == {"write", "rename", "remove"}

\* What a call knows of its arguments and of its temporary file.
Holds(t) ==
  /\ pc[t] \in {"dirs", "read", "stat", "delete"} \cup Owning => req[t].digest \in Digests
  /\ pc[t] \in {"dirs"} \cup Owning => req[t].bytes = req[t].digest
  /\ pc[t] = "dirs" => DOMAIN req[t] = {"digest", "bytes", "n"}
  /\ pc[t] \in Owning => req[t].n \in Seqs /\ req[t].n < seq
  /\ pc[t] = "rename" => tmp[tmp_path(t)] = Whole(req[t].digest)

\* What a rename that outlived its call finds.
Outlived(e) ==
  /\ e = <<e[1], e[2]>>
  /\ e[1] = "rename" =>
       /\ e[2] \in Digests \X Seqs /\ e[2][2] < seq
       /\ tmp[e[2]] = Whole(e[2][1])
       /\ \A t \in Tasks : pc[t] \in Owning => req[t].n # e[2][2]

FsTypes ==
  /\ DOMAIN final = Digests /\ DOMAIN tmp = Digests \X Seqs
  /\ seq \in Nat
  /\ pc \in [Tasks -> Steps] /\ DOMAIN req = Tasks

Distinct(t, u) == pc[t] \in Owning /\ pc[u] \in Owning => req[t].n # req[u].n

FsInv ==
  /\ FsTypes
  /\ NeverPartial
  /\ \A t \in Tasks : Holds(t)
  /\ \A t, u \in Tasks : t # u => Distinct(t, u)
  /\ \A e \in detached : Outlived(e)

\* An empty directory.
LEMMA FsInit == Init => FsInv
BY DEF Init, FsInv, FsTypes, NeverPartial, Holds, Distinct, Outlived, Steps, Owning

\* A step of task t draws no number and touches no temporary file but its own.
Private(t) ==
  /\ seq' = seq /\ detached' = detached
  /\ \A u \in Tasks : u # t => pc'[u] = pc[u] /\ req'[u] = req[u]
  /\ pc'[t] \in Owning => pc[t] \in Owning /\ req'[t] = req[t]
  /\ \/ tmp' = tmp
     \/ pc[t] \in Owning /\ \E x : tmp' = [tmp EXCEPT ![tmp_path(t)] = x]

\* A step that writes, renames or removes at most its own temporary file.
LEMMA PrivateKeeps ==
  ASSUME FsInv, NEW t \in Tasks, Private(t), FsTypes', NeverPartial', Holds(t)'
  PROVE  FsInv'
<1>1. ASSUME NEW f \in Digests \X Seqs, pc[t] \in Owning => f[2] # req[t].n
      PROVE  tmp'[f] = tmp[f]
  BY <1>1 DEF Private, FsInv, FsTypes, tmp_path
<1>2. ASSUME NEW u \in Tasks, u # t PROVE Holds(u)'
  <2>1. pc[u] = "rename" => tmp'[tmp_path(u)] = tmp[tmp_path(u)]
    <3> SUFFICES ASSUME pc[u] = "rename" PROVE tmp'[tmp_path(u)] = tmp[tmp_path(u)]
      OBVIOUS
    <3>1. tmp_path(u) \in Digests \X Seqs /\ tmp_path(u)[2] = req[u].n
      BY DEF FsInv, Holds, Owning, tmp_path
    <3>2. pc[t] \in Owning => req[t].n # req[u].n
      BY <1>2 DEF FsInv, Distinct, Owning
    <3> QED
      BY <1>1, <3>1, <3>2
  <2>2. pc'[u] = pc[u] /\ req'[u] = req[u] /\ seq' = seq /\ tmp_path(u)' = tmp_path(u)
    BY <1>2 DEF Private, tmp_path
  <2>3. Holds(u)
    BY DEF FsInv
  <2> QED
    BY <2>1, <2>2, <2>3 DEF Holds, Owning
<1>3. \A u, v \in Tasks : u # v => Distinct(u, v)'
  BY DEF Private, FsInv, Distinct
<1>4. ASSUME NEW e \in detached' PROVE Outlived(e)'
  BY <1>1 DEF Private, FsInv, Outlived
<1> QED
  BY <1>2, <1>3, <1>4 DEF FsInv

\* A call begins, or returns without a change to a file.
LEMMA CallKeeps ==
  ASSUME FsInv, NEW t \in Tasks, UNCHANGED <<final, tmp, seq, detached>>,
         \/ \E d \in Digests, step \in {"dirs", "read", "stat", "delete"} : Begin(t, step, On(d))
         \/ Begin(t, "list", [n |-> 0, left |-> Digests, out |-> {}])
         \/ \E res : Return(t, res)
  PROVE  FsInv'
<1>1. FsTypes'
  BY DEF Begin, Return, FsInv, FsTypes, Steps
<1>2. Private(t)
  BY DEF Begin, Return, Private, FsInv, FsTypes, Owning
<1>3. Holds(t)'
  BY DEF Begin, Return, Holds, On, FsInv, FsTypes, Owning
<1> QED
  BY <1>1, <1>2, <1>3, PrivateKeeps DEF FsInv, NeverPartial

\* The listing goes through the directories.
LEMMA ListKeeps ==
  ASSUME FsInv, NEW t \in Tasks, ListDone(t) \/ \E d \in Digests : collect_algo(t, d)
  PROVE  FsInv'
<1>1. FsTypes'
  BY Zenon DEF ListDone, collect_algo, FsInv, FsTypes, Steps
<1>2. Private(t)
  BY Zenon DEF ListDone, collect_algo, Private, FsInv, FsTypes, Owning
<1>3. Holds(t)'
  BY Zenon DEF ListDone, collect_algo, Holds, FsInv, FsTypes, Owning
<1> QED
  BY <1>1, <1>2, <1>3, PrivateKeeps, Zenon DEF FsInv, NeverPartial, ListDone, collect_algo

\* Writing the temporary file of one put touches no other (PutWrite).
LEMMA WriteKeeps == ASSUME FsInv, NEW t \in Tasks, PutWrite(t) PROVE FsInv'
<1>1. tmp_path(t) \in Digests \X Seqs /\ tmp_path(t)' = tmp_path(t)
  BY DEF PutWrite, FsInv, Holds, Owning, tmp_path
<1>2. FsTypes'
  BY DEF PutWrite, FsInv, FsTypes, Steps
<1>3. Private(t)
  BY Zenon DEF PutWrite, Private, FsInv, FsTypes, Owning
<1>4. tmp'[tmp_path(t)] = Whole(req[t].digest)
  BY <1>1 DEF PutWrite, FsInv, FsTypes, Holds, Owning
<1>5. Holds(t)'
  BY <1>1, <1>4 DEF PutWrite, Holds, FsInv, FsTypes, Owning
<1> QED
  BY <1>2, <1>3, <1>5, PrivateKeeps DEF FsInv, NeverPartial, PutWrite

\* The file that is renamed has all of its bytes.
LEMMA RenameKeeps == ASSUME FsInv, NEW t \in Tasks, PutRename(t) PROVE FsInv'
<1>1. FsTypes'
  BY DEF PutRename, Return, FsInv, FsTypes, Steps
<1>2. Private(t)
  BY Zenon DEF PutRename, Return, Private, FsInv, FsTypes, Owning
<1>3. NeverPartial'
  BY DEF PutRename, NeverPartial, FsInv, FsTypes, Holds
<1>4. Holds(t)'
  BY DEF PutRename, Return, Holds, FsInv, FsTypes, Owning
<1> QED
  BY <1>1, <1>2, <1>3, <1>4, PrivateKeeps

\* put cleans up its temporary file after a rename that failed.
LEMMA RemoveKeeps ==
  ASSUME FsInv, NEW t \in Tasks, PutRenameFails(t) \/ PutRemove(t) PROVE FsInv'
<1>1. FsTypes'
  BY DEF PutRenameFails, PutRemove, Return, FsInv, FsTypes, Steps
<1>2. Private(t)
  BY Zenon DEF PutRenameFails, PutRemove, Return, Private, FsInv, FsTypes, Owning
<1>3. Holds(t)'
  BY DEF PutRenameFails, PutRemove, Return, Holds, FsInv, FsTypes, Owning
<1> QED
  BY <1>1, <1>2, <1>3, PrivateKeeps DEF FsInv, NeverPartial, PutRenameFails, PutRemove

\* delete removes the file under the digest only (DeleteRemove).
LEMMA DeleteKeeps == ASSUME FsInv, NEW t \in Tasks, DeleteRemove(t) PROVE FsInv'
<1>1. FsTypes'
  BY DEF DeleteRemove, Return, FsInv, FsTypes, Steps
<1>2. Private(t)
  BY DEF DeleteRemove, Return, Private, FsInv, FsTypes, Owning
<1>3. NeverPartial'
  BY DEF DeleteRemove, NeverPartial, FsInv, FsTypes
<1>4. Holds(t)'
  BY DEF DeleteRemove, Return, Holds, FsInv, FsTypes, Owning
<1> QED
  BY <1>1, <1>2, <1>3, <1>4, PrivateKeeps

\* The number that is drawn is nobody's.
LEMMA DirsKeeps ==
  ASSUME FsInv, NEW t \in Tasks, PutDirs(t), seq <= MaxSeq PROVE FsInv'
<1> DEFINE path == <<req[t].digest, seq>>
<1>1. /\ pc[t] = "dirs" /\ pc' = [pc EXCEPT ![t] = "write"]
      /\ seq' = seq + 1 /\ seq \in Seqs
      /\ req' = [req EXCEPT ![t].n = seq]
      /\ tmp' = [tmp EXCEPT ![path] = [of |-> req[t].bytes, whole |-> FALSE]]
      /\ UNCHANGED <<final, detached>>
  BY FsAssumption DEF PutDirs, FsInv, FsTypes, Seqs
<1>2. /\ req'[t].n = seq /\ req'[t].digest = req[t].digest /\ req'[t].bytes = req[t].bytes
      /\ req[t].digest \in Digests /\ req[t].bytes = req[t].digest
      /\ \A u \in Tasks : u # t => pc'[u] = pc[u] /\ req'[u] = req[u]
      /\ pc'[t] = "write"
  BY <1>1 DEF FsInv, FsTypes, Holds
<1>3. FsTypes'
  BY <1>1 DEF FsInv, FsTypes, Steps
<1>4. ASSUME NEW f \in Digests \X Seqs, f[2] < seq PROVE tmp'[f] = tmp[f]
  <2>1. f # path
    BY <1>4 DEF FsInv, FsTypes
  <2> QED
    BY <1>1, <2>1 DEF FsInv, FsTypes
<1>5. ASSUME NEW u \in Tasks PROVE Holds(u)'
  <2>1. CASE u = t
    BY <1>1, <1>2, <2>1 DEF Holds, Owning, FsInv, FsTypes
  <2>2. CASE u # t
    <3>1. pc[u] = "rename" => tmp'[tmp_path(u)] = tmp[tmp_path(u)]
      BY <1>4 DEF FsInv, Holds, Owning, tmp_path
    <3>2. pc'[u] = pc[u] /\ req'[u] = req[u] /\ tmp_path(u)' = tmp_path(u)
      BY <1>2, <2>2 DEF tmp_path
    <3>3. Holds(u) /\ (pc[u] \in Owning => req[u].n \in Nat)
      BY FsAssumption DEF FsInv, Holds, Seqs
    <3> QED
      BY <1>1, <3>1, <3>2, <3>3 DEF Holds, Owning, FsInv, FsTypes
  <2> QED
    BY <2>1, <2>2
<1>6. \A u \in Tasks : pc[u] \in Owning => req[u].n # seq
  BY FsAssumption DEF FsInv, FsTypes, Holds, Seqs
<1>7. \A u, v \in Tasks : u # v => Distinct(u, v)'
  BY <1>2, <1>6 DEF FsInv, Distinct
<1>8. ASSUME NEW e \in detached' PROVE Outlived(e)'
  <2> SUFFICES ASSUME e[1] = "rename"
               PROVE  /\ e[2] \in Digests \X Seqs /\ e[2][2] < seq'
                      /\ tmp'[e[2]] = Whole(e[2][1])
                      /\ \A u \in Tasks : pc'[u] \in Owning => req'[u].n # e[2][2]
    BY <1>1 DEF FsInv, Outlived
  <2>1. /\ e[2] \in Digests \X Seqs /\ e[2][2] < seq /\ tmp[e[2]] = Whole(e[2][1])
        /\ \A u \in Tasks : pc[u] \in Owning => req[u].n # e[2][2]
    BY <1>1 DEF FsInv, Outlived
  <2>2. e[2][2] \in Nat /\ e[2][2] < seq' /\ e[2][2] # seq
    BY <1>1, <2>1, FsAssumption DEF FsInv, FsTypes, Seqs
  <2>3. tmp'[e[2]] = tmp[e[2]]
    BY <1>4, <2>1
  <2> QED
    BY <1>2, <2>1, <2>2, <2>3
<1>9. NeverPartial'
  BY <1>1 DEF FsInv, NeverPartial
<1> QED
  BY <1>3, <1>5, <1>7, <1>8, <1>9 DEF FsInv

\* A dropped call: its rename lives on, on a file that is whole.
LEMMA DropKeeps == ASSUME FsInv, NEW t \in Tasks, Drop(t) PROVE FsInv'
<1> DEFINE path == tmp_path(t)
<1>1. /\ pc' = [pc EXCEPT ![t] = "idle"] /\ req' = [req EXCEPT ![t] = NoCall]
      /\ UNCHANGED <<final, seq>>
      /\ \/ tmp' = tmp
         \/ pc[t] \in {"write", "remove"} /\ \E x : tmp' = [tmp EXCEPT ![path] = x]
      /\ \A e \in detached' : e \in detached \/ e = <<pc[t], path>>
  BY DEF Drop
<1>2. /\ pc'[t] = "idle"
      /\ \A u \in Tasks : u # t => pc'[u] = pc[u] /\ req'[u] = req[u]
  BY <1>1 DEF FsInv, FsTypes
<1>3. FsTypes'
  BY <1>1, Zenon DEF FsInv, FsTypes, Steps
<1>4. ASSUME NEW f \in Digests \X Seqs, pc[t] \in {"write", "remove"} => f[2] # req[t].n
      PROVE  tmp'[f] = tmp[f]
  BY <1>1, <1>4 DEF FsInv, FsTypes, tmp_path
<1>5. ASSUME NEW u \in Tasks PROVE Holds(u)'
  <2>1. CASE u = t
    BY <1>2, <2>1 DEF Holds, Owning
  <2>2. CASE u # t
    <3>1. pc[u] = "rename" => tmp'[tmp_path(u)] = tmp[tmp_path(u)]
      BY <1>4, <2>2 DEF FsInv, Holds, Distinct, Owning, tmp_path
    <3>2. pc'[u] = pc[u] /\ req'[u] = req[u] /\ tmp_path(u)' = tmp_path(u)
      BY <1>2, <2>2 DEF tmp_path
    <3> QED
      BY <1>1, <3>1, <3>2 DEF FsInv, Holds, Owning
  <2> QED
    BY <2>1, <2>2
<1>6. \A u, v \in Tasks : u # v => Distinct(u, v)'
  BY <1>2 DEF FsInv, Distinct, Owning
<1>7. ASSUME NEW e \in detached', e[1] = "rename" PROVE Outlived(e)'
  <2>1. CASE e \in detached
    <3>1. Outlived(e)
      BY <2>1 DEF FsInv
    <3>2. tmp'[e[2]] = tmp[e[2]]
      BY <1>4, <1>7, <3>1 DEF Outlived, Owning
    <3> QED
      BY <1>1, <1>2, <1>7, <3>1, <3>2 DEF Outlived, Owning
  <2>2. CASE e = <<pc[t], path>>
    <3>1. pc[t] = "rename" /\ e[2] = tmp_path(t)
      BY <1>7, <2>2
    <3>2. /\ e[2] \in Digests \X Seqs /\ e[2][2] = req[t].n /\ e[2][1] = req[t].digest
          /\ e[2][2] < seq /\ tmp[e[2]] = Whole(req[t].digest)
      BY <3>1 DEF FsInv, Holds, Owning, tmp_path
    <3>3. tmp' = tmp
      BY <1>1, <3>1
    <3>4. \A u \in Tasks : pc'[u] \in Owning => req'[u].n # e[2][2]
      BY <1>2, <3>1, <3>2 DEF FsInv, Distinct, Owning
    <3> QED
      BY <1>1, <2>2, <3>2, <3>3, <3>4 DEF Outlived
  <2> QED
    BY <1>1, <2>1, <2>2
<1>8. \A e \in detached' : Outlived(e)'
  BY <1>1, <1>7 DEF FsInv, Outlived
<1>9. NeverPartial'
  BY <1>1 DEF FsInv, NeverPartial
<1> QED
  BY <1>3, <1>5, <1>6, <1>8, <1>9 DEF FsInv

\* A write, rename or removal that outlives its future (spawn_blocking).
LEMMA DetachedKeeps == ASSUME FsInv, Detached PROVE FsInv'
<1>1. PICK e \in detached :
        /\ IF e[1] = "rename"
           THEN /\ final' = [final EXCEPT ![e[2][1]] = tmp[e[2]]]
                /\ tmp' = [tmp EXCEPT ![e[2]] = NoFile]
           ELSE final' = [final EXCEPT ![e[2][1]] = NoFile] /\ UNCHANGED tmp
        /\ detached' = detached \ {e}
        /\ UNCHANGED <<seq, pc, req>>
  BY DEF Detached
<1>2. Outlived(e)
  BY DEF FsInv
<1>3. FsTypes'
  BY <1>1 DEF FsInv, FsTypes
<1>4. NeverPartial'
  BY <1>1, <1>2 DEF FsInv, FsTypes, NeverPartial, Outlived
<1>5. ASSUME NEW f \in Digests \X Seqs, e[1] = "rename" => f # e[2] PROVE tmp'[f] = tmp[f]
  BY <1>1, <1>5 DEF FsInv, FsTypes
<1>6. ASSUME NEW u \in Tasks PROVE Holds(u)'
  <2>1. pc[u] = "rename" => tmp'[tmp_path(u)] = tmp[tmp_path(u)]
    <3> SUFFICES ASSUME pc[u] = "rename" PROVE tmp'[tmp_path(u)] = tmp[tmp_path(u)]
      OBVIOUS
    <3>1. tmp_path(u) \in Digests \X Seqs /\ tmp_path(u)[2] = req[u].n
      BY DEF FsInv, Holds, Owning, tmp_path
    <3>2. e[1] = "rename" => tmp_path(u) # e[2]
      BY <1>2, <3>1 DEF Outlived, Owning
    <3> QED
      BY <1>5, <3>1, <3>2
  <2> QED
    BY <1>1, <2>1 DEF FsInv, Holds, Owning, tmp_path
<1>7. ASSUME NEW g \in detached' PROVE Outlived(g)'
  <2>1. Outlived(g) /\ g # e
    BY <1>1 DEF FsInv
  <2>2. g[1] = "rename" => tmp'[g[2]] = tmp[g[2]]
    BY <1>2, <1>5, <2>1 DEF Outlived
  <2> QED
    BY <1>1, <2>1, <2>2 DEF Outlived
<1>8. \A u, v \in Tasks : u # v => Distinct(u, v)'
  BY <1>1 DEF FsInv, Distinct
<1> QED
  BY <1>3, <1>4, <1>6, <1>7, <1>8 DEF FsInv

\* The process dies: its tasks are gone, every file stays (Crash).
LEMMA CrashKeeps == ASSUME FsInv, Crash PROVE FsInv'
BY DEF Crash, FsInv, FsTypes, NeverPartial, Holds, Distinct, Outlived, Steps, Owning

\* Every call that will draw a number finds one within the bound on TMP_SEQ.
Drawing == {t \in Tasks : pc[t] = "dirs"}
Room == seq + Cardinality(Drawing) <= MaxSeq

\* Finitely many puts have yet to draw a number from TMP_SEQ.
LEMMA DrawingFinite ==
  ASSUME IsFiniteSet(Tasks)
  PROVE  /\ IsFiniteSet(Drawing) /\ Cardinality(Drawing) \in Nat
         /\ IsFiniteSet(Drawing') /\ Cardinality(Drawing') \in Nat
BY FS_Subset, FS_CardinalityType, Zenon DEF Drawing

\* A put begins only while there is a number left for it (the bound MaxSeq).
LEMMA RoomPut ==
  ASSUME IsFiniteSet(Tasks), FsInv, Room, NEW t \in Tasks, NEW d, NEW b, Put(t, d, b) PROVE Room'
<1>1. CASE Drawing' = Drawing
  BY <1>1 DEF Put, Room
<1>2. CASE /\ seq + Cardinality(Drawing) < MaxSeq /\ Drawing' = Drawing \cup {t}
  <2>1. Cardinality(Drawing \cup {t}) = IF t \in Drawing THEN Cardinality(Drawing)
                                                         ELSE Cardinality(Drawing) + 1
    BY DrawingFinite, FS_AddElement, Zenon
  <2>2. Cardinality(Drawing') <= Cardinality(Drawing) + 1
    BY <1>2, <2>1, DrawingFinite
  <2>3. seq' = seq /\ seq \in Nat
    BY DEF Put, FsInv, FsTypes
  <2> QED
    BY <1>2, <2>2, <2>3, DrawingFinite, FsAssumption DEF Room
<1> QED
  BY <1>1, <1>2 DEF Put, Begin, Return, Drawing, FsInv, FsTypes

\* Drawing a number uses up the one that was left for it (fetch_add).
LEMMA RoomDirs ==
  ASSUME IsFiniteSet(Tasks), FsInv, Room, NEW t \in Tasks, PutDirs(t) PROVE Room' /\ seq <= MaxSeq
<1>1. t \in Drawing /\ Drawing' = Drawing \ {t} /\ seq' = seq + 1 /\ seq \in Nat
  BY DEF PutDirs, Drawing, FsInv, FsTypes
<1>2. Cardinality(Drawing \ {t}) = IF t \in Drawing THEN Cardinality(Drawing) - 1
                                                    ELSE Cardinality(Drawing)
  BY DrawingFinite, FS_RemoveElement, Zenon
<1>3. Cardinality(Drawing') = Cardinality(Drawing) - 1
  BY <1>1, <1>2
<1> QED
  BY <1>1, <1>3, DrawingFinite, FsAssumption DEF Room

\* No other step adds to the calls that will draw.
LEMMA RoomOthers ==
  ASSUME IsFiniteSet(Tasks), FsInv, Room, seq' \in {seq, 0}, Drawing' \subseteq Drawing PROVE Room'
<1>1. Cardinality(Drawing') <= Cardinality(Drawing)
  BY DrawingFinite, FS_Subset
<1> QED
  BY <1>1, DrawingFinite, FsAssumption DEF Room, FsInv, FsTypes

\* FsInv through every step of the store.
LEMMA FsStep ==
  ASSUME IsFiniteSet(Tasks), FsInv, Room, [Next]_vars PROVE FsInv' /\ Room'
<1>1. ASSUME NEW t \in Tasks, NEW d \in Digests, NEW b \in Digests, Put(t, d, b)
      PROVE  FsInv' /\ Room'
  BY <1>1, CallKeeps, RoomPut, Zenon DEF Put
<1>2. ASSUME NEW t \in Tasks, PutDirs(t) PROVE FsInv' /\ Room'
  BY <1>2, DirsKeeps, RoomDirs
<1>3. ASSUME NEW t \in Tasks,
             \/ \E d \in Digests : Get(t, d) \/ Contains(t, d) \/ Delete(t, d)
             \/ List(t) \/ GetRead(t) \/ ContainsStat(t) \/ ReadFails(t) \/ PutFails(t)
      PROVE  FsInv' /\ Room'
  <2>1. FsInv'
    BY <1>3, CallKeeps DEF Get, Contains, Delete, List, GetRead, ContainsStat, ReadFails, PutFails
  <2>2. seq' = seq /\ Drawing' \subseteq Drawing
    BY <1>3 DEF Get, Contains, Delete, List, GetRead, ContainsStat, ReadFails, PutFails, Begin,
       Return, Drawing, FsInv, FsTypes
  <2> QED
    BY <2>1, <2>2, RoomOthers
<1>4. ASSUME NEW t \in Tasks,
             \/ \E d \in Digests : collect_algo(t, d)
             \/ ListDone(t) \/ PutWrite(t) \/ PutRename(t) \/ PutRenameFails(t) \/ PutRemove(t)
             \/ DeleteRemove(t) \/ Drop(t)
      PROVE  FsInv' /\ Room'
  <2>1. FsInv'
    BY <1>4, ListKeeps, WriteKeeps, RenameKeeps, RemoveKeeps, DeleteKeeps, DropKeeps
  <2>2. seq' = seq /\ Drawing' \subseteq Drawing
    BY <1>4, Zenon DEF collect_algo, ListDone, PutWrite, PutRename, PutRenameFails, PutRemove,
       DeleteRemove, Drop, Return, Drawing, FsInv, FsTypes
  <2> QED
    BY <2>1, <2>2, RoomOthers
<1>5. CASE Detached \/ Crash
  <2>1. seq' \in {seq, 0} /\ Drawing' \subseteq Drawing
    BY <1>5 DEF Detached, Crash, Drawing
  <2> QED
    BY <1>5, <2>1, DetachedKeeps, CrashKeeps, RoomOthers
<1>6. CASE UNCHANGED vars
  BY <1>6 DEF vars, FsInv, FsTypes, NeverPartial, Holds, Distinct, Outlived, tmp_path, Room, Drawing
<1> QED
  BY <1>1, <1>2, <1>3, <1>4, <1>5, <1>6 DEF Next

\* At the start every number is free.
LEMMA RoomInit == ASSUME IsFiniteSet(Tasks), Init PROVE Room
<1>1. Drawing = {} /\ seq = 0
  BY DEF Init, Drawing
<1> QED
  BY <1>1, FS_EmptySet, FsAssumption DEF Room

----------------------------------------------------------------------------
(* No temporary file is left behind *)

Writing == {"write", "rename"}

\* As long as nothing failed, every temporary file is that of a put in
\* progress, and no clean-up and no rename of a dropped call is under way.
LeakInv ==
  /\ FsInv
  /\ faults \in Nat
  /\ faults = 0 =>
       /\ detached = {}
       /\ \A t \in Tasks : pc[t] # "remove"
       /\ \A f \in Digests \X Seqs : tmp[f] # NoFile =>
            \E t \in Tasks : pc[t] \in Writing /\ tmp_path(t) = f

\* An empty directory has no temporary file.
LEMMA LeakInit == Init => LeakInv
<1> SUFFICES ASSUME Init PROVE LeakInv
  OBVIOUS
<1>1. \A f \in Digests \X Seqs : tmp[f] = NoFile
  BY DEF Init
<1> QED
  BY <1>1, FsInit DEF Init, LeakInv

\* A step of a call that is not writing touches no temporary file.
LEMMA LeakQuiet ==
  ASSUME LeakInv, FsInv', UNCHANGED <<tmp, detached, faults>>, NEW t \in Tasks,
         pc[t] \notin Writing, pc'[t] # "remove",
         \A u \in Tasks : u # t => pc'[u] = pc[u] /\ req'[u] = req[u]
  PROVE  LeakInv'
<1> SUFFICES ASSUME faults = 0
             PROVE  /\ \A u \in Tasks : pc'[u] # "remove"
                    /\ \A f \in Digests \X Seqs : tmp[f] # NoFile =>
                         \E u \in Tasks : pc'[u] \in Writing /\ tmp_path(u)' = f
  BY DEF LeakInv
<1>1. \A u \in Tasks : pc'[u] # "remove"
  BY DEF LeakInv
<1>2. ASSUME NEW f \in Digests \X Seqs, tmp[f] # NoFile
      PROVE  \E u \in Tasks : pc'[u] \in Writing /\ tmp_path(u)' = f
  <2>1. PICK u \in Tasks : pc[u] \in Writing /\ tmp_path(u) = f
    BY <1>2 DEF LeakInv
  <2>2. pc'[u] = pc[u] /\ req'[u] = req[u]
    BY <2>1
  <2> QED
    BY <2>1, <2>2 DEF tmp_path
<1> QED
  BY <1>1, <1>2

\* A put creates its file, writes it and renames it away.
LEMMA LeakPut ==
  ASSUME LeakInv, FsInv', NEW t \in Tasks, PutDirs(t) \/ PutWrite(t) \/ PutRename(t)
  PROVE  LeakInv'
<1>1. /\ UNCHANGED <<detached, faults>> /\ pc'[t] # "remove"
      /\ \A u \in Tasks : u # t => pc'[u] = pc[u] /\ req'[u] = req[u]
  BY DEF PutDirs, PutWrite, PutRename, Return, LeakInv, FsInv, FsTypes
<1> SUFFICES ASSUME faults = 0, NEW f \in Digests \X Seqs, tmp'[f] # NoFile
             PROVE  \E u \in Tasks : pc'[u] \in Writing /\ tmp_path(u)' = f
  BY <1>1 DEF LeakInv
<1>2. CASE \E u \in Tasks : u # t /\ pc[u] \in Writing /\ tmp_path(u) = f
  <2>1. PICK u \in Tasks : u # t /\ pc[u] \in Writing /\ tmp_path(u) = f
    BY <1>2
  <2>2. pc'[u] = pc[u] /\ req'[u] = req[u]
    BY <1>1, <2>1
  <2> QED
    BY <2>1, <2>2 DEF tmp_path
<1>3. CASE PutDirs(t) /\ f = <<req[t].digest, seq>>
  <2>1. pc'[t] = "write" /\ req'[t].digest = req[t].digest /\ req'[t].n = seq
    BY <1>3 DEF PutDirs, LeakInv, FsInv, FsTypes, Holds
  <2> QED
    BY <1>3, <2>1 DEF tmp_path, Writing
<1>4. CASE PutWrite(t) /\ f = tmp_path(t)
  <2>1. pc'[t] = "rename" /\ req' = req
    BY <1>4 DEF PutWrite, LeakInv, FsInv, FsTypes
  <2> QED
    BY <1>4, <2>1 DEF tmp_path, Writing
<1>5. ASSUME PutDirs(t), f # <<req[t].digest, seq>>
      PROVE  tmp[f] # NoFile /\ pc[t] \notin Writing
  BY <1>5 DEF PutDirs, LeakInv, FsInv, FsTypes, Writing
<1>6. ASSUME PutWrite(t), f # tmp_path(t) PROVE tmp[f] # NoFile
  BY <1>6 DEF PutWrite, LeakInv, FsInv, FsTypes
<1>7. ASSUME PutRename(t) PROVE tmp[f] # NoFile /\ f # tmp_path(t)
  BY <1>7 DEF PutRename, LeakInv, FsInv, FsTypes
<1>8. tmp[f] # NoFile => \E u \in Tasks : pc[u] \in Writing /\ tmp_path(u) = f
  BY DEF LeakInv
<1> QED
  BY <1>2, <1>3, <1>4, <1>5, <1>6, <1>7, <1>8

\* A step that counts as a fault, and a step that only a fault makes possible.
LEMMA LeakFault ==
  ASSUME LeakInv, FsInv',
         \/ Fault
         \/ UNCHANGED faults /\ (Detached \/ \E t \in Tasks : PutRemove(t))
  PROVE  LeakInv'
BY DEF LeakInv, Fault, Detached, PutRemove

\* LeakInv through every step of the store.
LEMMA LeakStep ==
  ASSUME LeakInv, FsInv', [Next]_vars PROVE LeakInv'
<1>1. ASSUME NEW t \in Tasks,
             \/ \E d, b \in Digests : Put(t, d, b)
             \/ \E d \in Digests : Get(t, d) \/ Contains(t, d) \/ Delete(t, d) \/ collect_algo(t, d)
             \/ List(t) \/ GetRead(t) \/ ContainsStat(t) \/ ListDone(t)
             \/ DeleteRemove(t) /\ UNCHANGED faults
      PROVE  LeakInv'
  <2>1. /\ UNCHANGED <<tmp, detached, faults>>
        /\ \A u \in Tasks : u # t => pc'[u] = pc[u] /\ req'[u] = req[u]
    BY <1>1, Zenon DEF Put, Get, Contains, Delete, collect_algo, List, GetRead, ContainsStat, ListDone,
       DeleteRemove, Begin, Return, LeakInv, FsInv, FsTypes
  <2>2. pc[t] \notin Writing /\ pc'[t] # "remove"
    BY <1>1, Zenon DEF Put, Get, Contains, Delete, collect_algo, List, GetRead, ContainsStat, ListDone,
       DeleteRemove, Begin, Return, LeakInv, FsInv, FsTypes, Writing
  <2> QED
    BY <2>1, <2>2, LeakQuiet
<1>2. ASSUME NEW t \in Tasks, PutDirs(t) \/ PutWrite(t) \/ PutRename(t) PROVE LeakInv'
  BY <1>2, LeakPut
<1>3. ASSUME NEW t \in Tasks,
             \/ PutFails(t) \/ PutRenameFails(t) \/ ReadFails(t) \/ Drop(t)
             \/ DeleteRemove(t) /\ Fault
      PROVE  LeakInv'
  BY <1>3, LeakFault DEF PutFails, PutRenameFails, ReadFails, Drop
<1>4. ASSUME (\E t \in Tasks : PutRemove(t)) \/ Detached \/ Crash PROVE LeakInv'
  BY <1>4, LeakFault DEF PutRemove, Detached, Crash
<1>5. CASE UNCHANGED vars
  BY <1>5 DEF LeakInv, vars, tmp_path
<1>6. \A t \in Tasks : DeleteRemove(t) => UNCHANGED faults \/ Fault
  BY DEF DeleteRemove
<1> QED
  BY <1>1, <1>2, <1>3, <1>4, <1>5, <1>6 DEF Next

----------------------------------------------------------------------------
(* What the files are worth *)

\* FsInv and the room for numbers, at all times.
LEMMA FsAlways ==
  ASSUME IsFiniteSet(Tasks) PROVE Spec => [](FsInv /\ LeakInv)
<1>1. Init => FsInv /\ Room /\ LeakInv
  BY FsInit, RoomInit, LeakInit
<1>2. FsInv /\ Room /\ LeakInv /\ [Next]_vars => FsInv' /\ Room' /\ LeakInv'
  BY FsStep, LeakStep
<1> QED
  BY <1>1, <1>2, PTL DEF Spec

\* What is stored under a digest is exactly the bytes it names, writers of one
\* digest never share a temporary file, dropped ones included, and calls that
\* nothing disturbed leave none behind, also after dropped calls and process
\* crashes (put: the rename of a file with a per-call number in its name).
THEOREM FilesAreSound == ASSUME IsFiniteSet(Tasks) PROVE Spec => []FilesSound
<1>1. FsInv => NeverPartial
  BY DEF FsInv
<1>2. FsInv => OwnTmpFile
  BY DEF FsInv, OwnTmpFile, Distinct, Outlived, Owning, tmp_path
<1>3. LeakInv => NoTmpLeak
  BY DEF LeakInv, NoTmpLeak, Writing
<1> QED
  BY <1>1, <1>2, <1>3, FsAlways, PTL DEF FilesSound

----------------------------------------------------------------------------
(* The contract of the trait *)

Calls == [t \in Tasks |-> CallOf(t)]
LateCalls == {LateCall(e) : e \in detached}

----------------------------------------------------------------------------
(* Calls *)

\* A step of one task changes its call only.
LEMMA CallsChange ==
  ASSUME NEW t \in Tasks, \A u \in Tasks : u # t => pc'[u] = pc[u] /\ req'[u] = req[u]
  PROVE  Calls' = [Calls EXCEPT ![t] = CallOf(t)']
BY Zenon DEF Calls, CallOf

\* The answer to a call.
LEMMA Answers ==
  ASSUME FsInv, NEW t \in Tasks, NEW res, Return(t, res), UNCHANGED detached
  PROVE  Contract!Answer(t, res)
<1>1. pc'[t] = "idle" /\ \A u \in Tasks : u # t => pc'[u] = pc[u] /\ req'[u] = req[u]
  BY DEF Return, FsInv, FsTypes
<1>2. Calls' = [Calls EXCEPT ![t] = [op |-> "none"]]
  BY <1>1, CallsChange DEF CallOf
<1> QED
  BY <1>2 DEF Return, Contract!Answer, Contract!NoCall, Calls

\* A call of the store begins as a call of the trait (put, get, contains,
\* delete, list up to their first await).
LEMMA Starts ==
  ASSUME FsInv, NEW t \in Tasks, UNCHANGED <<final, detached>>,
         \/ \E d \in Digests, step \in {"dirs", "read", "stat", "delete"} : Begin(t, step, On(d))
         \/ Begin(t, "list", [n |-> 0, left |-> Digests, out |-> {}])
  PROVE  Contract!Start(t)
<1>1. /\ \A u \in Tasks : u # t => pc'[u] = pc[u] /\ req'[u] = req[u]
      /\ pc[t] = "idle" /\ result' = NoResult
  BY DEF Begin, FsInv, FsTypes
<1>2. CallOf(t)' \in Contract!OnDigest \cup {Contract!List}
  BY DEF Begin, On, CallOf, Operation, Contract!OnDigest, Contract!List, FsInv, FsTypes
<1>3. Calls' = [Calls EXCEPT ![t] = CallOf(t)']
  BY <1>1, CallsChange
<1>4. Calls[t] = Contract!NoCall
  BY <1>1 DEF Calls, CallOf, Contract!NoCall
<1> QED
  BY <1>1, <1>2, <1>3, <1>4, Zenon DEF Contract!Start, Contract!NoAnswer, NoResult, Calls, Blobs

\* A file operation inside a call.
LEMMA Works ==
  ASSUME FsInv, NEW t \in Tasks,
         \/ PutDirs(t) \/ PutWrite(t) \/ PutRenameFails(t)
         \/ \E d \in Digests : collect_algo(t, d)
  PROVE  Contract!Work
<1>1. UNCHANGED <<final, detached>> /\ result' = NoResult
  BY Zenon DEF PutDirs, PutWrite, PutRenameFails, collect_algo
<1>2. \A u \in Tasks : u # t => pc'[u] = pc[u] /\ req'[u] = req[u]
  BY Zenon DEF PutDirs, PutWrite, PutRenameFails, collect_algo, FsInv, FsTypes
<1>3. CallOf(t)' = CallOf(t)
  <2>1. CASE PutDirs(t)
    <3>1. pc[t] = "dirs" /\ pc'[t] = "write" /\ req'[t].digest = req[t].digest
      BY <2>1, Zenon DEF PutDirs, FsInv, FsTypes, Holds
    <3> QED
      BY <3>1 DEF CallOf, Operation
  <2>2. CASE PutWrite(t) \/ PutRenameFails(t)
    BY <2>2 DEF PutWrite, PutRenameFails, FsInv, FsTypes, CallOf, Operation
  <2>3. CASE \E d \in Digests : collect_algo(t, d)
    BY <2>3, Zenon DEF collect_algo, FsInv, FsTypes, CallOf
  <2> QED
    BY <2>1, <2>2, <2>3
<1>4. Calls' = Calls
  BY <1>2, <1>3, Zenon DEF Calls, CallOf
<1> QED
  BY <1>1, <1>4 DEF Contract!Work, Contract!NoAnswer, NoResult, Blobs, Calls

\* What a call waits for, by its step.
LEMMA CallAt ==
  ASSUME NEW t \in Tasks
  PROVE  /\ pc[t] \in {"dirs"} \cup Owning => Calls[t] = [op |-> "put", digest |-> req[t].digest]
         /\ pc[t] = "read" => Calls[t] = [op |-> "get", digest |-> req[t].digest]
         /\ pc[t] = "stat" => Calls[t] = [op |-> "contains", digest |-> req[t].digest]
         /\ pc[t] = "delete" => Calls[t] = [op |-> "delete", digest |-> req[t].digest]
         /\ pc[t] = "list" => Calls[t] = [op |-> "list"]
         /\ pc[t] = "idle" => Calls[t] = [op |-> "none"]
BY DEF Calls, CallOf, Operation, Owning

\* A task that the store is serving is in a call of the trait.
LEMMA Busy ==
  ASSUME FsInv, NEW t \in Tasks, pc[t] # "idle" PROVE Calls[t] # Contract!NoCall
<1>1. pc[t] \in {"dirs", "read", "stat", "delete", "list"} \cup Owning
  BY DEF FsInv, FsTypes, Steps, Owning
<1>2. Calls[t].op \in {"put", "get", "contains", "delete", "list"}
  BY <1>1 DEF Calls, CallOf, Operation, Owning
<1> QED
  BY <1>2 DEF Contract!NoCall

\* A file operation that fails makes its call fail and stores nothing.
LEMMA Fails ==
  ASSUME FsInv, NEW t \in Tasks, pc[t] # "idle", Return(t, "err"), UNCHANGED <<final, detached>>
  PROVE  Contract!Fail(t)
BY Busy, Answers DEF Contract!Fail, Calls, Blobs

\* put takes effect at its rename, or at finding the blob there after a
\* rename that failed.
LEMMA Puts ==
  ASSUME FsInv, NEW t \in Tasks, PutRename(t) \/ PutRemove(t)
  PROVE  Contract!put(t) \/ Contract!Fail(t)
<1>1. Calls[t] = [op |-> "put", digest |-> req[t].digest] /\ req[t].digest \in Digests
  BY CallAt, Zenon DEF PutRename, PutRemove, Owning, FsInv, Holds
<1>2. CASE PutRename(t)
  <2>1. final' = [final EXCEPT ![req[t].digest] = tmp[tmp_path(t)]] /\ tmp[tmp_path(t)] # NoFile
    BY <1>2 DEF PutRename
  <2>2. Blobs' = Blobs \cup {req[t].digest}
    BY <1>1, <2>1 DEF Blobs, FsInv, FsTypes
  <2>3. Contract!Answer(t, "ok")
    BY <1>2, Answers DEF PutRename
  <2> QED
    BY <1>1, <2>2, <2>3 DEF Contract!put, Calls
<1>3. CASE PutRemove(t) /\ final[req[t].digest] # NoFile
  <2>1. Blobs' = Blobs \cup {req[t].digest}
    BY <1>1, <1>3 DEF PutRemove, Blobs
  <2>2. Contract!Answer(t, "ok")
    BY <1>3, Answers DEF PutRemove
  <2> QED
    BY <1>1, <2>1, <2>2 DEF Contract!put, Calls
<1>4. CASE PutRemove(t) /\ final[req[t].digest] = NoFile
  BY <1>4, Fails DEF PutRemove
<1> QED
  BY <1>2, <1>3, <1>4

\* get and contains answer for the file as it is when it is opened.
LEMMA Gets ==
  ASSUME FsInv, NEW t \in Tasks, GetRead(t) \/ ContainsStat(t)
  PROVE  Contract!get(t) \/ Contract!contains(t)
<1>1. req[t].digest \in Digests /\ UNCHANGED <<final, detached>>
  BY Zenon DEF GetRead, ContainsStat, FsInv, Holds
<1>2. final[req[t].digest] \in {NoFile, Whole(req[t].digest)}
  BY <1>1 DEF FsInv, NeverPartial
<1>3. CASE GetRead(t)
  <2>1. Calls[t] = [op |-> "get", digest |-> req[t].digest]
    BY <1>3, CallAt, Zenon DEF GetRead
  <2>2. Return(t, IF req[t].digest \in Blobs THEN "bytes" ELSE "missing")
    BY <1>1, <1>2, <1>3, Zenon DEF GetRead, Blobs
  <2> QED
    BY <1>1, <2>1, <2>2, Answers DEF Contract!get, Calls, Blobs
<1>4. CASE ContainsStat(t)
  <2>1. Calls[t] = [op |-> "contains", digest |-> req[t].digest]
    BY <1>4, CallAt, Zenon DEF ContainsStat
  <2>2. Return(t, IF req[t].digest \in Blobs THEN "yes" ELSE "no")
    BY <1>1, <1>4 DEF ContainsStat, Blobs
  <2> QED
    BY <1>1, <2>1, <2>2, Answers DEF Contract!contains, Calls, Blobs
<1> QED
  BY <1>3, <1>4, Zenon

\* delete takes effect at remove_file.
LEMMA Deletes ==
  ASSUME FsInv, NEW t \in Tasks, DeleteRemove(t)
  PROVE  Contract!delete(t) \/ Contract!Fail(t)
<1>1. CASE Return(t, "err") /\ UNCHANGED final
  BY <1>1, Fails DEF DeleteRemove
<1>2. CASE final' = [final EXCEPT ![req[t].digest] = NoFile] /\ Return(t, "deleted")
  <2>1. Calls[t] = [op |-> "delete", digest |-> req[t].digest]
    BY CallAt, Zenon DEF DeleteRemove
  <2>2. Blobs' = Blobs \ {req[t].digest}
    BY <1>2 DEF Blobs, FsInv, FsTypes
  <2> QED
    BY <1>2, <2>1, <2>2, Answers DEF DeleteRemove, Contract!delete, Calls
<1> QED
  BY <1>1, <1>2 DEF DeleteRemove

----------------------------------------------------------------------------
(* Dropped calls, and the crash *)

\* A dropped future leaves its last file operation behind (Drop).
LEMMA Drops == ASSUME FsInv, NEW t \in Tasks, Drop(t) PROVE Contract!Drop(t)
<1>1. /\ pc[t] # "idle" /\ pc'[t] = "idle" /\ result' = NoResult /\ final' = final
      /\ \A u \in Tasks : u # t => pc'[u] = pc[u] /\ req'[u] = req[u]
  BY DEF Drop, FsInv, FsTypes
<1>2. Calls' = [Calls EXCEPT ![t] = [op |-> "none"]]
  BY <1>1, CallsChange DEF CallOf
<1>3. LateCalls' \in {LateCalls, LateCalls \cup {Calls[t]}}
  <2>1. CASE pc[t] \in {"rename", "delete"}
    <3>1. detached' = detached \cup {<<pc[t], tmp_path(t)>>}
      BY <2>1 DEF Drop
    <3>2. LateCall(<<pc[t], tmp_path(t)>>) = Calls[t]
      BY <2>1, CallAt, Zenon DEF LateCall, tmp_path, Owning
    <3>3. LateCalls' = LateCalls \cup {LateCall(<<pc[t], tmp_path(t)>>)}
      BY <3>1, Zenon DEF LateCalls
    <3> QED
      BY <3>2, <3>3
  <2>2. CASE pc[t] \notin {"rename", "delete"}
    BY <2>2, Zenon DEF Drop, LateCalls
  <2> QED
    BY <2>1, <2>2
<1>4. Calls[t] # Contract!NoCall
  BY <1>1, Busy
<1> QED
  BY <1>1, <1>2, <1>3, <1>4
     DEF Contract!Drop, Contract!NoCall, Contract!NoAnswer, NoResult, Blobs, Calls, LateCalls

\* A file operation that outlives its future is a late effect of the call.
LEMMA Lates == ASSUME FsInv, Detached PROVE \E c \in LateCalls : Contract!Late(c)
<1>1. PICK e \in detached :
        /\ IF e[1] = "rename"
           THEN /\ final' = [final EXCEPT ![e[2][1]] = tmp[e[2]]]
                /\ tmp' = [tmp EXCEPT ![e[2]] = NoFile]
           ELSE final' = [final EXCEPT ![e[2][1]] = NoFile] /\ UNCHANGED tmp
        /\ detached' = detached \ {e}
        /\ result' = NoResult
        /\ UNCHANGED <<pc, req>>
  BY DEF Detached
<1> DEFINE c == LateCall(e)
<1>2. c.digest = e[2][1] /\ c.op = IF e[1] = "rename" THEN "put" ELSE "delete"
  BY DEF LateCall
<1>3. Calls' = Calls
  BY <1>1 DEF Calls, CallOf
<1>4. LateCalls' \in {LateCalls, LateCalls \ {c}} /\ c \in LateCalls
  BY <1>1 DEF LateCalls
<1>5. Blobs' = IF c.op = "put" THEN Blobs \cup {c.digest} ELSE Blobs \ {c.digest}
  <2>1. CASE e[1] = "rename"
    <3>1. e[2][1] \in Digests /\ tmp[e[2]] = Whole(e[2][1])
      BY <2>1 DEF FsInv, Outlived
    <3>2. tmp[e[2]] # NoFile
      <4>1. TRUE \in BOOLEAN
        OBVIOUS
      <4>2. Whole(e[2][1]) \in [of: Digests, whole: BOOLEAN]
        BY <3>1, <4>1, Zenon DEF Whole
      <4> QED
        BY <3>1, <4>2, FsAssumption
    <3> QED
      BY <1>1, <1>2, <2>1, <3>1, <3>2 DEF Blobs, FsInv, FsTypes
  <2>2. CASE e[1] # "rename"
    BY <1>1, <1>2, <2>2 DEF Blobs, FsInv, FsTypes
  <2> QED
    BY <2>1, <2>2, Zenon
<1> HIDE DEF c
<1>6. c.op \in {"put", "delete"}
  BY <1>2, Zenon
<1>7. Contract!Late(c)
  BY <1>1, <1>3, <1>4, <1>5, <1>6 DEF Contract!Late, Contract!NoAnswer, NoResult, Calls, LateCalls
<1> QED
  BY <1>4, <1>7, Zenon

\* A crash leaves what lies under its own name (Crash).
LEMMA Restarts == ASSUME FsInv, Crash PROVE Contract!Restart
<1>1. Calls' = [t \in Tasks |-> [op |-> "none"]]
  BY DEF Crash, Calls, CallOf
<1>2. LateCalls' = {}
  BY Zenon DEF Crash, LateCalls
<1> QED
  BY <1>1, <1>2
     DEF Crash, Contract!Restart, Contract!NoCall, Contract!NoAnswer, NoResult, Blobs, Calls,
         LateCalls

----------------------------------------------------------------------------
(* Listings *)

\* A listing has what was there all the while, unless it is still to look, and
\* nothing that was never there.
Listing(t) ==
  pc[t] = "list" =>
    /\ DOMAIN req[t] = {"n", "left", "out"}
    /\ must[t] \subseteq Blobs /\ Blobs \subseteq may[t]
    /\ req[t].out \subseteq may[t] /\ must[t] \subseteq req[t].out \cup req[t].left

ListInv == \A t \in Tasks : Listing(t)

\* What the caller of a listing may expect of it, from one step to the next.
LEMMA Watching ==
  ASSUME FsInv, FsInv', Contract!Watch, NEW t \in Tasks, pc'[t] = "list"
  PROVE  /\ pc[t] = "list" => must'[t] = must[t] \cap Blobs' /\ may'[t] = may[t] \cup Blobs'
         /\ pc[t] # "list" => must'[t] = Blobs' /\ may'[t] = Blobs'
<1>1. Calls'[t] = Contract!List
  BY DEF Calls, CallOf, Contract!List
<1>2. Calls[t] = Contract!List <=> pc[t] = "list"
  <2>1. pc[t] = "list" => Calls[t] = Contract!List
    BY CallAt, Zenon DEF Contract!List
  <2>2. pc[t] # "list" => Calls[t].op # "list"
    BY DEF Calls, CallOf, Operation
  <2> QED
    BY <2>1, <2>2 DEF Contract!List
<1> QED
  BY <1>1, <1>2 DEF Contract!Watch, Calls

\* Only its own steps change what a listing has collected.
LEMMA ListingOthers ==
  ASSUME FsInv, [Next]_vars, NEW t \in Tasks, pc'[t] = "list",
         ~List(t), ~(\E d \in Digests : collect_algo(t, d))
  PROVE  pc[t] = "list" /\ req'[t] = req[t]
<1>1. ASSUME NEW u \in Tasks, NEW step \in Steps \ {"list"}, NEW call, Begin(u, step, call)
      PROVE  pc[t] = "list" /\ req'[t] = req[t]
  BY <1>1, Zenon DEF Begin, FsInv, FsTypes
<1>2. ASSUME NEW u \in Tasks, NEW res, Return(u, res) PROVE pc[t] = "list" /\ req'[t] = req[t]
  BY <1>2, Zenon DEF Return, FsInv, FsTypes
<1>3. ASSUME NEW u \in Tasks, NEW d \in Digests, NEW b \in Digests, Put(u, d, b)
      PROVE  pc[t] = "list" /\ req'[t] = req[t]
  BY <1>1, <1>2, <1>3 DEF Put, Steps
<1>4. ASSUME NEW u \in Tasks, NEW d \in Digests, Get(u, d) \/ Contains(u, d) \/ Delete(u, d)
      PROVE  pc[t] = "list" /\ req'[t] = req[t]
  BY <1>1, <1>4 DEF Get, Contains, Delete, Steps
<1>5. ASSUME NEW u \in Tasks, List(u) \/ \E d \in Digests : collect_algo(u, d)
      PROVE  pc[t] = "list" /\ req'[t] = req[t]
  BY <1>5, Zenon DEF List, collect_algo, Begin, FsInv, FsTypes
<1>6. ASSUME NEW u \in Tasks, PutFails(u) \/ PutRename(u) \/ PutRemove(u) \/ GetRead(u)
               \/ ContainsStat(u) \/ DeleteRemove(u) \/ ReadFails(u)
      PROVE  pc[t] = "list" /\ req'[t] = req[t]
  BY <1>2, <1>6 DEF PutFails, PutRename, PutRemove, GetRead, ContainsStat, DeleteRemove, ReadFails
<1>7. ASSUME NEW u \in Tasks, PutDirs(u) \/ PutWrite(u) \/ PutRenameFails(u) \/ ListDone(u)
               \/ Drop(u)
      PROVE  pc[t] = "list" /\ req'[t] = req[t]
  BY <1>7 DEF PutDirs, PutWrite, PutRenameFails, ListDone, Drop, FsInv, FsTypes
<1>8. CASE Detached \/ Crash \/ UNCHANGED vars
  BY <1>8 DEF Detached, Crash, vars
<1> QED
  BY <1>3, <1>4, <1>5, <1>6, <1>7, <1>8, Zenon DEF Next

\* ListInv through every step of the store.
LEMMA ListStep ==
  ASSUME FsInv, FsInv', ListInv, ContractNext PROVE ListInv'
<1> SUFFICES ASSUME NEW t \in Tasks, pc'[t] = "list" PROVE Listing(t)'
  BY DEF ListInv, Listing
<1>1. CASE List(t)
  <2>1. pc[t] # "list" /\ req'[t] = [n |-> 0, left |-> Digests, out |-> {}]
    BY <1>1 DEF List, Begin, FsInv, FsTypes
  <2>2. must'[t] = Blobs' /\ may'[t] = Blobs' /\ Blobs' \subseteq Digests
    BY <2>1, Watching, Zenon DEF ContractNext, Blobs
  <2> QED
    BY <2>1, <2>2 DEF Listing
<1>2. CASE \E d \in Digests : collect_algo(t, d)
  <2> PICK d \in Digests : collect_algo(t, d)
    BY <1>2
  <2>1. /\ pc[t] = "list" /\ final' = final /\ Listing(t)
        /\ req' = [req EXCEPT ![t].left = @ \ {d},
                              ![t].out = IF final[d] = NoFile THEN @ ELSE @ \cup {d}]
    BY DEF collect_algo, ListInv
  <2>2. /\ DOMAIN req'[t] = {"n", "left", "out"} /\ req'[t].left = req[t].left \ {d}
        /\ req'[t].out = IF d \in Blobs THEN req[t].out \cup {d} ELSE req[t].out
    BY <2>1 DEF FsInv, FsTypes, Listing, Blobs
  <2>3. must'[t] = must[t] \cap Blobs /\ may'[t] = may[t] \cup Blobs /\ Blobs' = Blobs
    BY <2>1, Watching DEF ContractNext, Blobs
  <2>4. /\ must[t] \subseteq Blobs /\ Blobs \subseteq may[t] /\ req[t].out \subseteq may[t]
        /\ must[t] \subseteq req[t].out \cup req[t].left
    BY <2>1 DEF Listing
  <2>5. req'[t].out \subseteq may'[t]
    BY <2>2, <2>3, <2>4
  <2>6. must'[t] \subseteq req'[t].out \cup req'[t].left
    BY <2>2, <2>3, <2>4
  <2>7. must'[t] \subseteq Blobs' /\ Blobs' \subseteq may'[t]
    BY <2>3, Zenon
  <2> QED
    BY <2>2, <2>5, <2>6, <2>7 DEF Listing
<1>3. CASE ~List(t) /\ ~(\E d \in Digests : collect_algo(t, d))
  <2>1. pc[t] = "list" /\ req'[t] = req[t]
    BY <1>3, ListingOthers DEF ContractNext
  <2>2. must'[t] = must[t] \cap Blobs' /\ may'[t] = may[t] \cup Blobs'
    BY <2>1, Watching DEF ContractNext
  <2> QED
    BY <2>1, <2>2, Zenon DEF ListInv, Listing
<1> QED
  BY <1>1, <1>2, <1>3

\* What list returns is what its caller may expect (collect_algo).
LEMMA Lists == ASSUME FsInv, ListInv, NEW t \in Tasks, ListDone(t) PROVE Contract!list(t)
<1>1. /\ pc[t] = "list" /\ req[t].left = {} /\ pc'[t] = "idle"
      /\ result' = [task |-> t, is |-> "listed", listed |-> req[t].out]
      /\ UNCHANGED <<final, detached>>
      /\ \A u \in Tasks : u # t => pc'[u] = pc[u] /\ req'[u] = req[u]
  BY Zenon DEF ListDone, FsInv, FsTypes
<1>2. Calls' = [Calls EXCEPT ![t] = [op |-> "none"]]
  BY <1>1, CallsChange DEF CallOf
<1>3. req[t].out \in SUBSET may[t] /\ must[t] \subseteq req[t].out
  BY <1>1, Zenon DEF ListInv, Listing
<1>4. Calls[t].op = "list"
  BY <1>1 DEF Calls, CallOf
<1> QED
  BY <1>1, <1>2, <1>3, <1>4, Zenon DEF Contract!list, Contract!NoCall, Calls, Blobs

----------------------------------------------------------------------------
(* The refinement *)

\* Every step of the store is a step of the trait or changes nothing of it.
LEMMA ContractStep == ASSUME FsInv, ListInv, ContractNext PROVE Contract!Next
<1>1. ASSUME NEW t \in Tasks, NEW d \in Digests, NEW b \in Digests, Put(t, d, b)
      PROVE  Contract!Start(t) \/ Contract!Refuse(t)
  <2>1. CASE Begin(t, "dirs", On(d))
    BY <1>1, <2>1, Starts DEF Put
  <2>2. CASE pc[t] = "idle" /\ Return(t, "mismatch")
    <3>1. Calls[t] = Contract!NoCall
      BY <2>2, CallAt, Zenon DEF Contract!NoCall
    <3> QED
      BY <1>1, <2>2, <3>1, Answers DEF Put, Contract!Refuse, Calls, Blobs
  <2> QED
    BY <1>1, <2>1, <2>2 DEF Put
<1>2. ASSUME NEW t \in Tasks,
             List(t) \/ \E d \in Digests : Get(t, d) \/ Contains(t, d) \/ Delete(t, d)
      PROVE  Contract!Start(t)
  BY <1>2, Starts DEF List, Get, Contains, Delete
<1>3. ASSUME NEW t \in Tasks, PutFails(t) \/ ReadFails(t) PROVE Contract!Fail(t)
  BY <1>3, Fails DEF PutFails, ReadFails
<1>4. Contract!Watch
  BY Zenon DEF ContractNext
<1> QED
  BY <1>1, <1>2, <1>3, <1>4, Works, Puts, Gets, Deletes, Lists, Drops, Lates, Restarts
     DEF ContractNext, Next, Contract!Next, LateCalls

\* An empty directory is an empty store.
LEMMA ContractBegins == ContractInit => Contract!Init /\ ListInv
BY DEF ContractInit, Init, Contract!Init, Contract!NoCall, Contract!NoAnswer, NoResult, Blobs, CallOf,
   LateCall, ListInv, Listing

\* The filesystem store implements the trait's contract: every call takes effect
\* at one moment between its start and its answer, whatever interleaves, fails,
\* is dropped or crashes (fs.rs, blob_store.rs).
THEOREM StoreImplementsContract ==
  ASSUME IsFiniteSet(Tasks) PROVE ContractSpec => RefinesBlobStore
<1> DEFINE Inv == FsInv /\ Room /\ ListInv
<1>1. ContractInit => Inv /\ Contract!Init
  BY FsInit, RoomInit, ContractBegins DEF ContractInit
<1>2. Inv /\ ContractNext => Inv' /\ Contract!Next
  BY FsStep, ListStep, ContractStep DEF ContractNext
<1>3. Inv /\ UNCHANGED contractVars => Inv' /\ UNCHANGED Contract!vars
  <2> SUFFICES ASSUME Inv, UNCHANGED contractVars PROVE Inv' /\ UNCHANGED Contract!vars
    OBVIOUS
  <2>1. UNCHANGED vars /\ must' = must /\ may' = may
    BY DEF contractVars
  <2>2. FsInv' /\ Room'
    BY <2>1, FsStep, Zenon
  <2>3. ListInv'
    BY <2>1, Zenon DEF vars, ListInv, Listing, Blobs
  <2>4. UNCHANGED Contract!vars
    BY <2>1 DEF vars, Contract!vars, Blobs, CallOf, LateCall
  <2> QED
    BY <2>2, <2>3, <2>4
<1> HIDE DEF Inv
<1> QED
  BY <1>1, <1>2, <1>3, PTL DEF ContractSpec, RefinesBlobStore, Contract!Spec

=============================================================================
