--------------------- MODULE CargoRegistryIndex_proofs ---------------------
(***************************************************************************)
(* Proofs about index-state.json and what is read by it, for any number of *)
(* requests, crates, versions and tarballs: memory and the file agree,     *)
(* every version can be downloaded, what was acknowledged survives, and    *)
(* the file behaves as CrateIndex.                                         *)
(***************************************************************************)
EXTENDS CargoRegistry_proofs

----------------------------------------------------------------------------
(* Memory and disk agree. *)

\* Two records are equal when their fields are.
LEMMA RecordEq ==
  ASSUME NEW a \in CrateRecord, NEW b \in CrateRecord,
         a.entries = b.entries, a.tarballs = b.tarballs, a.owners = b.owners
  PROVE  a = b
BY DEF CrateRecord

\* rollback_publish is the inverse of the ingest: it "leaves the in-memory
\* map exactly as it was before the failed publish" (handlers.rs:316).
LEMMA UndoAdd ==
  ASSUME NEW rec \in CrateRecord, Consistent(rec), NEW q \in PublishRequest,
         \A e \in rec.entries : e.vers # q.vers
  PROVE  undo(add_version(rec, Entry(q)), q) = rec
<1> DEFINE mid == add_version(rec, Entry(q))
           new == rollback_publish(mid, q.vers, q.digest)
<1>1. Entry(q) \in IndexEntry /\ Entry(q).vers = q.vers /\ Entry(q).cksum = q.digest
  BY DEF Entry, IndexEntry, PublishRequest
<1>2. /\ rec.tarballs \in [Versions -> Digests \cup {NoDigest}]
      /\ rec.tarballs[q.vers] = NoDigest /\ q.vers \in Versions
  BY DEF CrateRecord, Consistent, PublishRequest
<1>3. /\ mid \in CrateRecord
      /\ mid.entries = rec.entries \cup {Entry(q)}
      /\ mid.tarballs = [rec.tarballs EXCEPT ![q.vers] = q.digest]
      /\ mid.owners = rec.owners
  BY <1>1, EditType, Zenon DEF add_version, CrateRecord
<1> HIDE DEF mid
<1>4. /\ new.entries = {e \in mid.entries : e.vers # q.vers}
      /\ new.tarballs = [mid.tarballs EXCEPT ![q.vers] =
                           IF @ = q.digest THEN NoDigest ELSE @]
      /\ new.owners = mid.owners
  BY <1>3 DEF rollback_publish, CrateRecord
<1>5. undo(mid, q) = new
  BY KeyType DEF undo
<1>6. new \in CrateRecord
  BY <1>3, <1>5, UndoType
<1>7. new.entries = rec.entries
  BY <1>1, <1>3, <1>4
<1>8. new.tarballs = rec.tarballs
  BY <1>2, <1>3, <1>4
<1> HIDE DEF new
<1> QED
  BY <1>3, <1>4, <1>5, <1>6, <1>7, <1>8, RecordEq DEF mid

\* Setting the flag and setting it back changes nothing.
LEMMA UndoFlag ==
  ASSUME NEW rec \in CrateRecord, Consistent(rec), NEW q \in YankRequest,
         NEW line \in rec.entries, line.vers = q.vers, q.previous = line.yanked,
         NEW b \in BOOLEAN
  PROVE  undo(set_flag(rec, q.vers, b), q) = rec
<1> DEFINE mid == set_flag(rec, q.vers, b)
           new == set_flag(mid, q.vers, q.previous)
           there(e) == IF e.vers = q.vers THEN [e EXCEPT !.yanked = b] ELSE e
           back(e) == IF e.vers = q.vers THEN [e EXCEPT !.yanked = q.previous] ELSE e
<1>1. rec.entries \subseteq IndexEntry /\ q.vers \in Versions /\ q.previous \in BOOLEAN
  BY DEF CrateRecord, YankRequest
<1>2. mid \in CrateRecord
  BY <1>1, EditType
<1>3. /\ mid.entries = {there(e) : e \in rec.entries}
      /\ mid.tarballs = rec.tarballs /\ mid.owners = rec.owners
  BY DEF set_flag, CrateRecord
<1> HIDE DEF mid
<1>4. /\ new.entries = {back(e) : e \in mid.entries}
      /\ new.tarballs = mid.tarballs /\ new.owners = mid.owners
  BY <1>2 DEF set_flag, CrateRecord
<1>9. new \in CrateRecord
  BY <1>1, <1>2, EditType
<1>5. ASSUME NEW e \in rec.entries PROVE back(there(e)) = e
  <2>1. CASE e.vers = q.vers
    <3>1. e = line
      BY <2>1 DEF Consistent, UniqueVersions
    <3> QED
      BY <1>1, <2>1, <3>1, Zenon DEF IndexEntry
  <2>2. CASE e.vers # q.vers
    BY <2>2
  <2> QED
    BY <2>1, <2>2
<1> HIDE DEF there, back, new
<1>6. new.entries = rec.entries
  BY <1>3, <1>4, <1>5
<1>7. new = rec
  BY <1>3, <1>4, <1>6, <1>9, RecordEq
<1>8. undo(mid, q) = new
  BY KeyType DEF undo, new
<1> QED
  BY <1>7, <1>8 DEF mid

\* What is saved is what is loaded: the tarball map is not lost by leaving it
\* out of the snapshot.
LEMMA LoadSave ==
  ASSUME NEW cs \in [Keys -> CrateRecord],
         \A k \in Keys : Consistent(cs[k]),
         \A k \in Keys : cs[k].entries = {} => cs[k] = default
  PROVE  load(save(cs)) = cs
<1>1. ASSUME NEW k \in Keys PROVE load(save(cs))[k] = cs[k]
  <2> DEFINE rec == cs[k]
             good == {e \in save(cs)[k].entries : e.cksum \in Digests}
  <2>1. rec \in CrateRecord /\ Consistent(rec)
    OBVIOUS
  <2>2. good = rec.entries /\ save(cs)[k].owners = rec.owners
    BY <2>1 DEF save, CrateRecord, IndexEntry
  <2>3. CASE good = {}
    BY <2>2, <2>3 DEF load
  <2>4. CASE good # {}
    <3> DEFINE new == load(save(cs))[k]
    <3>1. /\ new.entries = good /\ new.owners = save(cs)[k].owners
          /\ new.tarballs = [v \in Versions |->
                               IF \E e \in good : e.vers = v
                               THEN (CHOOSE e \in good : e.vers = v).cksum
                               ELSE NoDigest]
      BY <2>4 DEF load
    <3>2. new \in CrateRecord
      BY SaveType, LoadType
    <3> HIDE DEF new, good
    <3>3. ASSUME NEW v \in Versions PROVE new.tarballs[v] = rec.tarballs[v]
      BY <2>1, <2>2, <3>1 DEF Consistent, CrateRecord, IndexEntry
    <3>4. new.tarballs = rec.tarballs
      BY <2>1, <3>2, <3>3 DEF CrateRecord
    <3> QED
      BY <2>1, <2>2, <3>1, <3>2, <3>4, RecordEq DEF new
  <2> QED
    BY <2>3, <2>4
<1>2. load(save(cs)) \in [Keys -> CrateRecord]
  BY SaveType, LoadType
<1> QED
  BY <1>1, <1>2

\* No record without lines is kept.
Proper(cs) == \A k \in Keys : cs[k].entries = {} => cs[k] = default

\* A mutation is one that undo would take back: rollback_publish, the previous
\* flag or the previous owners give the record that was there.
LEMMA MutationUndone ==
  ASSUME IndexInv, Proper(crates), NEW r \in Requests,
         PublishPut(r) \/ SetYanked(r) \/ MutateOwners(r)
  PROVE  /\ pc[r] # "rename" /\ pc'[r] = "rename" /\ writer \in {r, NoWriter}
         /\ Key(r) \in Keys /\ Key(r)' = Key(r) /\ UNCHANGED <<disk, survivors, acked>>
         /\ \E new : /\ crates' = [crates EXCEPT ![Key(r)] = new]
                     /\ new.entries # {}
                     /\ undo(new, req'[r]) = crates[Key(r)]
<1>t. /\ TypeOK /\ StepsOK
      /\ \A k \in Keys : Consistent(crates[k])
  BY DEF IndexInv, TypeInv, EntriesMatchTarballs
<1> USE DEF durableVars, historyVars
<1> DEFINE rec == crates[Key(r)]
<1>1. CASE SetYanked(r)
  <2>1. req[r] \in YankRequest /\ Key(r) \in Keys
    BY <1>1, <1>t, KeyType DEF SetYanked, GetsLock, Key, StepsOK
  <2>2. PICK line \in rec.entries :
          line.vers = req[r].vers /\ req' = [req EXCEPT ![r].previous = line.yanked]
    BY <1>1, Zenon DEF SetYanked
  <2> DEFINE new == set_flag(rec, req[r].vers, req[r].yanked)
  <2>3. rec \in CrateRecord /\ Consistent(rec) /\ line \in IndexEntry
    BY <1>t, <2>1, <2>2 DEF TypeOK, CrateRecord
  <2>4. /\ req'[r] \in YankRequest /\ req'[r].vers = req[r].vers
        /\ req'[r].previous = line.yanked /\ req'[r].name = req[r].name
    BY <1>t, <2>1, <2>2, <2>3 DEF TypeOK, YankRequest, IndexEntry
  <2>5. undo(new, req'[r]) = rec
    BY <2>1, <2>2, <2>3, <2>4, UndoFlag DEF YankRequest
  <2>6. new.entries # {}
    BY <2>2, <2>3, Zenon DEF set_flag, CrateRecord
  <2>7. crates' = [crates EXCEPT ![Key(r)] = new]
    BY <1>1 DEF SetYanked
  <2>8. Key(r)' = Key(r)
    BY <2>4 DEF Key
  <2> HIDE DEF new
  <2> QED
    BY <1>1, <1>t, <2>1, <2>5, <2>6, <2>7, <2>8, Zenon DEF SetYanked, GetsLock, TypeOK
<1>2. CASE MutateOwners(r)
  <2>1. req[r] \in OwnersRequest /\ Key(r) \in Keys
    BY <1>2, <1>t, KeyType, Zenon DEF MutateOwners, GetsLock, Key, StepsOK
  <2>2. rec \in CrateRecord /\ rec.entries # {}
    BY <1>2, <1>t, <2>1 DEF MutateOwners, Proper, TypeOK
  <2>3. PICK owners : crates' = [crates EXCEPT ![Key(r)].owners = owners]
    BY <1>2, Zenon DEF MutateOwners
  <2> DEFINE new == [rec EXCEPT !.owners = owners]
  <2>4. crates' = [crates EXCEPT ![Key(r)] = new]
    BY <2>3
  <2>5. req' = [req EXCEPT ![r].previous = rec.owners]
    BY <1>2 DEF MutateOwners
  <2>6. /\ req'[r] \in OwnersRequest
        /\ req'[r].previous = rec.owners /\ req'[r].name = req[r].name
    BY <1>t, <2>1, <2>2, <2>5, Zenon DEF TypeOK, OwnersRequest, CrateRecord
  <2>7. undo(new, req'[r]) = [new EXCEPT !.owners = rec.owners]
    BY <2>6, KeyType DEF undo
  <2>8. [new EXCEPT !.owners = rec.owners] = rec
    BY <2>2, Zenon DEF CrateRecord
  <2>9. new.entries # {}
    BY <2>2 DEF CrateRecord
  <2>10. Key(r)' = Key(r)
    BY <2>6 DEF Key
  <2> HIDE DEF new
  <2> QED
    BY <1>2, <1>t, <2>1, <2>4, <2>7, <2>8, <2>9, <2>10, Zenon DEF MutateOwners, GetsLock, TypeOK
<1>3. CASE PublishPut(r)
  <2>1. req[r] \in PublishRequest /\ Key(r) \in Keys /\ writer = r
    BY <1>3, <1>t, KeyType DEF PublishPut, Key, StepsOK
  <2> DEFINE new == add_version(rec, Entry(req[r]))
  <2>2. rec \in CrateRecord /\ Consistent(rec)
    BY <1>t, <2>1 DEF TypeOK
  <2>3. \A e \in rec.entries : e.vers # req[r].vers
    BY <1>3 DEF PublishPut, IndexInv, Pending
  <2>4. undo(new, req[r]) = rec
    BY <2>1, <2>2, <2>3, UndoAdd
  <2>5. new.entries # {}
    BY <2>2 DEF add_version, CrateRecord
  <2>6. crates' = [crates EXCEPT ![Key(r)] = new] /\ req' = req
    BY <1>3 DEF PublishPut
  <2>7. Key(r)' = Key(r)
    BY <2>6 DEF Key
  <2> HIDE DEF new
  <2> QED
    BY <1>3, <1>t, <2>1, <2>4, <2>5, <2>6, <2>7, Zenon DEF PublishPut, TypeOK
<1> QED
  BY <1>1, <1>2, <1>3

\* Between a mutation and the rename that saves it, disk holds what an undo
\* would bring back; at all other times it holds what is in memory.
DiskInv ==
  /\ IndexInv
  /\ Proper(crates)
  /\ (\A r \in Requests : pc[r] # "rename") => crates = load(disk)
  /\ \A r \in Requests : pc[r] = "rename" =>
       [crates EXCEPT ![Key(r)] = undo(@, req[r])] = load(disk)

NoDiskFaults == Faults \cap {"dirsync_error", "corruption"} = {}

\* No record without lines is loaded.
LEMMA LoadEmpty ==
  ASSUME NEW snapshot, NEW k \in Keys, load(snapshot)[k].entries = {}
  PROVE  load(snapshot)[k] = default
BY DEF load

\* The empty index is what the empty snapshot loads as.
LEMMA DiskInit == Init => DiskInv
<1> SUFFICES ASSUME Init PROVE DiskInv
  OBVIOUS
<1>1. crates = load(disk)
  BY DEF Init, load, default, NoRecord
<1> QED
  BY <1>1, IndexInit DEF Init, DiskInv, Proper

\* Each mutation either reaches the disk or is undone in memory, as long as
\* the error of save means that nothing was renamed.
LEMMA DiskStep == NoDiskFaults /\ DiskInv /\ [Next]_vars => DiskInv'
<1> SUFFICES ASSUME NoDiskFaults, DiskInv, [Next]_vars PROVE DiskInv'
  OBVIOUS
<1>0. IndexInv /\ IndexInv'
  BY IndexStep DEF DiskInv
<1>t. /\ TypeOK /\ TypeOK' /\ StepsOK /\ StepsOK'
      /\ \A k \in Keys : Consistent(crates[k])
  BY <1>0 DEF IndexInv, TypeInv, EntriesMatchTarballs
<1> USE DEF durableVars, historyVars
\* At most the writer is at "rename".
<1>a. \A r \in Requests : pc[r] = "rename" => writer = r
  BY <1>t DEF StepsOK
<1>b. \A r \in Requests : pc'[r] = "rename" => writer' = r
  BY <1>t DEF StepsOK
<1>1. ASSUME NEW r \in Requests,
             \/ Arrive(r) \/ Download(r) \/ Disconnect(r) \/ PublishReject(r)
             \/ YankNotFound(r) \/ OwnersNotFound(r) \/ PublishPutFails(r)
             \/ PublishDelete(r) \/ DownloadGet(r) \/ PublishAdmit(r)
      PROVE  DiskInv'
  <2>1. UNCHANGED <<crates, disk>>
    BY <1>1, Zenon DEF Arrive, Download, Disconnect, PublishReject, YankNotFound,
         OwnersNotFound, PublishPutFails, PublishDelete, DownloadGet, PublishAdmit
  <2>2. pc[r] # "rename" /\ pc'[r] # "rename"
    BY <1>1, <1>t, Zenon DEF Arrive, Download, Disconnect, PublishReject, YankNotFound,
         OwnersNotFound, PublishPutFails, PublishDelete, DownloadGet, PublishAdmit,
         Return, GetsLock, TypeOK
  <2>3. \A s \in Requests : s # r => pc'[s] = pc[s] /\ req'[s] = req[s]
    BY <1>1, <1>t DEF Arrive, Download, Disconnect, PublishReject, YankNotFound,
         OwnersNotFound, PublishPutFails, PublishDelete, DownloadGet, PublishAdmit,
         Return, TypeOK
  <2>4. \A s \in Requests : pc'[s] = "rename" =>
          /\ pc[s] = "rename" /\ Key(s)' = Key(s) /\ req'[s] = req[s]
    BY <2>2, <2>3 DEF Key
  <2>5. (\A s \in Requests : pc'[s] # "rename") => \A s \in Requests : pc[s] # "rename"
    BY <2>2, <2>3
  <2> QED
    BY <1>0, <2>1, <2>4, <2>5 DEF DiskInv
<1>2. ASSUME NEW r \in Requests, pc[r] # "rename", writer \in {r, NoWriter},
             Key(r) \in Keys, pc'[r] = "rename", UNCHANGED disk,
             Key(r)' = Key(r), NEW new,
             crates' = [crates EXCEPT ![Key(r)] = new], new.entries # {},
             undo(new, req'[r]) = crates[Key(r)]
      PROVE  DiskInv'
  <2>1. crates = load(disk)
    BY <1>2, <1>a, CargoAssumption DEF DiskInv
  <2>2. crates \in [Keys -> CrateRecord]
    BY <1>t DEF TypeOK
  <2>3. Proper(crates')
    BY <1>2, <2>2 DEF DiskInv, Proper
  <2>4. [crates' EXCEPT ![Key(r)] = undo(@, req'[r])] = crates
    BY <1>2, <2>2, Zenon
  <2>5. \A s \in Requests : pc'[s] = "rename" => s = r
    BY <1>2, <1>b
  <2> QED
    BY <1>0, <1>2, <2>1, <2>3, <2>4, <2>5 DEF DiskInv
<1>3. ASSUME NEW r \in Requests, PublishPut(r) \/ SetYanked(r) \/ MutateOwners(r)
      PROVE  DiskInv'
  <2>1. Proper(crates)
    BY DEF DiskInv
  <2> QED
    BY <1>0, <1>2, <1>3, <2>1, MutationUndone
<1>6. ASSUME NEW r \in Requests, SaveRename(r) PROVE DiskInv'
  <2>1. disk' = save(crates) /\ crates' = crates
    BY <1>6 DEF SaveRename
  <2>2. crates = load(disk')
    BY <1>t, <2>1, LoadSave, Zenon DEF TypeOK, DiskInv, Proper
  <2>3. \A s \in Requests : pc'[s] # "rename"
    BY <1>6, <1>a, <1>b, <1>t DEF SaveRename, TypeOK
  <2> QED
    BY <1>0, <2>1, <2>2, <2>3 DEF DiskInv
<1>7. ASSUME NEW r \in Requests, SaveDirSync(r) PROVE DiskInv'
  <2>1. writer = r /\ writer' = NoWriter /\ pc[r] = "dirsync"
    BY <1>7, <1>t DEF SaveDirSync, StepsOK
  <2>2. \A s \in Requests : pc'[s] # "rename"
    BY <1>b, <2>1, CargoAssumption
  <2>3. crates = load(disk)
    BY <1>a, <2>1 DEF DiskInv
  <2> QED
    BY <1>0, <1>7, <2>2, <2>3 DEF SaveDirSync, DiskInv
<1>8. ASSUME NEW r \in Requests, SaveFails(r) PROVE DiskInv'
  <2>1. pc[r] = "rename" /\ disk' = disk
    BY <1>8 DEF SaveFails, NoDiskFaults
  <2>2. crates' = load(disk')
    BY <1>8, <2>1 DEF SaveFails, DiskInv
  <2>3. \A s \in Requests : pc'[s] # "rename"
    BY <1>8, <1>a, <1>t, <2>1 DEF SaveFails, Return, TypeOK
  <2>4. Proper(crates')
    BY <2>2, LoadEmpty, Zenon DEF Proper
  <2> QED
    BY <1>0, <2>2, <2>3, <2>4 DEF DiskInv
<1>9. ASSUME Detached PROVE DiskInv'
  BY <1>0, <1>9 DEF Detached, DiskInv, Key
<1>10. ASSUME Crash \/ PowerLoss PROVE DiskInv'
  <2>1. crates' = load(disk') /\ \A s \in Requests : pc'[s] = "idle"
    BY <1>10 DEF Crash, PowerLoss, Restart
  <2>2. Proper(crates')
    BY <2>1, LoadEmpty DEF Proper
  <2> QED
    BY <1>0, <2>1, <2>2 DEF DiskInv
<1>11. ~Corrupt
  BY DEF Corrupt, NoDiskFaults
<1>12. CASE UNCHANGED vars
  BY <1>0, <1>12 DEF vars, DiskInv, Key
<1> QED
  BY <1>1, <1>3, <1>6, <1>7, <1>8, <1>9, <1>10, <1>11, <1>12
  DEF Next, Acquire, Proceed

\* When the directory fsync does not fail and the file is not damaged, what
\* is served is what a restart would serve, through crashes, power losses,
\* hang-ups and failed saves (persist_locked and the roll-backs).
THEOREM MemoryDurable ==
  ASSUME NoDiskFaults
  PROVE  Spec => []MemoryMatchesDisk
<1>1. DiskInv /\ [Next]_vars => DiskInv'
  BY DiskStep
<1>2. DiskInv => MemoryMatchesDisk
  BY CargoAssumption DEF DiskInv, MemoryMatchesDisk, IndexInv, TypeInv, StepsOK
<1> QED
  BY <1>1, <1>2, DiskInit, PTL DEF Spec

----------------------------------------------------------------------------
(* Every version can be downloaded. *)

HasBlobs(cs) ==
  \A k \in Keys, v \in Versions : cs[k].tarballs[v] \in blobs \cup {NoDigest}

\* The blob of every version is there, also of the versions that an undo or a
\* reload would leave; a digest about to be deleted is nobody's; a digest
\* about to be read belongs to a version that is saved.
BlobInv ==
  /\ DiskInv
  /\ detached = {}
  /\ HasBlobs(crates)
  /\ \A r \in Requests : pc[r] = "delete" =>
       ~digest_referenced_in(crates, req[r].digest)
  /\ \A r \in Requests : pc[r] = "get" =>
       digest_referenced_in(load(disk), req[r].digest)

NoBlobFaults ==
  Faults \cap {"dirsync_error", "corruption", "disconnect", "power_loss"} = {}

\* undo maps no version to another digest.
LEMMA UndoTarballs ==
  ASSUME NEW rec \in CrateRecord, NEW v \in Versions,
         NEW q \in PublishRequest \cup YankRequest \cup OwnersRequest
  PROVE  undo(rec, q).tarballs[v] \in {rec.tarballs[v], NoDigest}
<1>1. CASE q \in PublishRequest
  <2>1. undo(rec, q) = rollback_publish(rec, q.vers, q.digest)
    BY <1>1, KeyType DEF undo
  <2> QED
    BY <2>1 DEF rollback_publish, CrateRecord
<1>2. CASE q \in YankRequest
  <2>1. undo(rec, q) = set_flag(rec, q.vers, q.previous)
    BY <1>2, KeyType DEF undo
  <2> QED
    BY <2>1 DEF set_flag, CrateRecord
<1>3. CASE q \in OwnersRequest
  <2>1. undo(rec, q) = [rec EXCEPT !.owners = q.previous]
    BY <1>3, KeyType DEF undo
  <2> QED
    BY <2>1 DEF CrateRecord
<1> QED
  BY <1>1, <1>2, <1>3

\* What is saved refers to no other digests than what is in memory.
LEMMA SavedTarballs ==
  ASSUME DiskInv, NEW k \in Keys, NEW v \in Versions
  PROVE  load(disk)[k].tarballs[v] \in {crates[k].tarballs[v], NoDigest}
<1>1. TypeOK /\ StepsOK
  BY DEF DiskInv, IndexInv, TypeInv
<1>2. CASE \A r \in Requests : pc[r] # "rename"
  BY <1>2 DEF DiskInv
<1>3. ASSUME NEW r \in Requests, pc[r] = "rename"
      PROVE  load(disk)[k].tarballs[v] \in {crates[k].tarballs[v], NoDigest}
  <2>1. req[r] \in PublishRequest \cup YankRequest \cup OwnersRequest
    BY <1>1, <1>3 DEF StepsOK
  <2>2. crates[k] \in CrateRecord /\ crates \in [Keys -> CrateRecord]
    BY <1>1 DEF TypeOK
  <2>3. load(disk) = [crates EXCEPT ![Key(r)] = undo(@, req[r])]
    BY <1>3 DEF DiskInv
  <2>4. CASE k = Key(r)
    BY <2>1, <2>2, <2>3, <2>4, UndoTarballs
  <2>5. CASE k # Key(r)
    BY <2>2, <2>3, <2>5
  <2> QED
    BY <2>4, <2>5
<1> QED
  BY <1>2, <1>3

\* The empty index needs no blob.
LEMMA BlobInit == Init => BlobInv
BY DiskInit DEF Init, BlobInv, HasBlobs, default, NoTarballs

\* No step removes a blob that memory, the snapshot or a download refers to.
LEMMA BlobStep == NoBlobFaults /\ BlobInv /\ [Next]_vars => BlobInv'
<1> SUFFICES ASSUME NoBlobFaults, BlobInv, [Next]_vars PROVE BlobInv'
  OBVIOUS
<1>0. DiskInv /\ DiskInv'
  BY DiskStep DEF BlobInv, NoBlobFaults, NoDiskFaults
<1>t. TypeOK /\ TypeOK' /\ StepsOK /\ StepsOK'
  BY <1>0 DEF DiskInv, IndexInv, TypeInv
<1> USE DEF durableVars, historyVars
\* The digest of a deleting or downloading task, by the writer's step.
<1>d. ASSUME NEW r \in Requests, writer' # r PROVE pc'[r] # "delete"
  BY <1>t, <1>d DEF StepsOK
<1>g. ASSUME \A k \in Keys, v \in Versions :
               load(disk)[k].tarballs[v] \in {load(disk')[k].tarballs[v], NoDigest},
             NEW r \in Requests, pc[r] = "get", req'[r] = req[r]
      PROVE  digest_referenced_in(load(disk'), req'[r].digest)
  <2>1. req[r].digest \in Digests
    BY <1>t, <1>g DEF StepsOK, DownloadRequest
  <2>2. PICK k \in Keys, v \in Versions : load(disk)[k].tarballs[v] = req[r].digest
    BY <1>g DEF BlobInv, digest_referenced_in
  <2>3. load(disk')[k].tarballs[v] = req[r].digest
    BY <1>g, <2>1, <2>2, CargoAssumption
  <2> QED
    BY <1>g, <2>3 DEF digest_referenced_in
<1>1. ASSUME NEW r \in Requests,
             \/ Arrive(r) \/ PublishReject(r) \/ YankNotFound(r)
             \/ OwnersNotFound(r) \/ PublishPutFails(r) \/ DownloadGet(r)
             \/ PublishAdmit(r) \/ SaveDirSync(r)
      PROVE  BlobInv'
  <2>1. UNCHANGED <<crates, disk, blobs, detached>>
    BY <1>1, Zenon DEF Arrive, PublishReject, YankNotFound, OwnersNotFound,
         PublishPutFails, DownloadGet, PublishAdmit, SaveDirSync
  <2>2. pc'[r] \notin {"delete", "get"}
    BY <1>1, <1>t, Zenon DEF Arrive, PublishReject, YankNotFound, OwnersNotFound,
         PublishPutFails, DownloadGet, PublishAdmit, SaveDirSync, Return, TypeOK
  <2>3. \A s \in Requests : s # r => pc'[s] = pc[s] /\ req'[s] = req[s]
    BY <1>1, <1>t DEF Arrive, PublishReject, YankNotFound, OwnersNotFound,
         PublishPutFails, DownloadGet, PublishAdmit, SaveDirSync, Return, TypeOK
  <2> QED
    BY <1>0, <2>1, <2>2, <2>3, Zenon DEF BlobInv, HasBlobs
<1>2. ASSUME NEW r \in Requests, Download(r) PROVE BlobInv'
  <2>1. writer = NoWriter /\ UNCHANGED <<crates, disk, blobs, detached, writer>>
    BY <1>2 DEF Download
  <2>2. crates = load(disk)
    BY <1>0, <1>t, <2>1, CargoAssumption, Zenon DEF DiskInv, StepsOK
  <2>3. /\ pc'[r] = "get"
        /\ \A s \in Requests : s # r => pc'[s] = pc[s] /\ req'[s] = req[s]
    BY <1>2, <1>t DEF Download, TypeOK
  <2>4. digest_referenced_in(crates, req'[r].digest)
    BY <1>2, <1>t DEF Download, TypeOK, digest_referenced_in
  <2> QED
    BY <1>0, <2>1, <2>2, <2>3, <2>4 DEF BlobInv, HasBlobs
<1>3. ASSUME NEW r \in Requests, SetYanked(r) \/ MutateOwners(r) PROVE BlobInv'
  <2>1. /\ UNCHANGED <<disk, blobs, detached>> /\ writer' = r /\ pc'[r] = "rename"
        /\ \A s \in Requests : s # r => pc'[s] = pc[s] /\ req'[s] = req[s]
    BY <1>3, <1>t DEF SetYanked, MutateOwners, TypeOK
  <2>2. ASSUME NEW k \in Keys PROVE crates'[k].tarballs = crates[k].tarballs
    <3>1. crates[k] \in CrateRecord /\ crates \in [Keys -> CrateRecord]
      BY <1>t DEF TypeOK
    <3>2. CASE SetYanked(r)
      BY <3>1, <3>2 DEF SetYanked, set_flag, CrateRecord
    <3>3. CASE MutateOwners(r)
      <4>1. PICK new : crates' = [crates EXCEPT ![Key(r)].owners = new]
        BY <3>3, Zenon DEF MutateOwners
      <4> QED
        BY <3>1, <4>1 DEF CrateRecord
    <3> QED
      BY <1>3, <3>2, <3>3
  <2> QED
    BY <1>0, <1>d, <2>1, <2>2 DEF BlobInv, HasBlobs
<1>4. ASSUME NEW r \in Requests, PublishPut(r) PROVE BlobInv'
  <2>1. /\ UNCHANGED <<disk, detached, writer, req>> /\ writer = r
        /\ pc'[r] = "rename" /\ \A s \in Requests : s # r => pc'[s] = pc[s]
    BY <1>4, <1>t DEF PublishPut, TypeOK, StepsOK
  <2>2. HasBlobs(crates)'
    <3> SUFFICES ASSUME NEW k \in Keys, NEW v \in Versions
                 PROVE  crates'[k].tarballs[v] \in blobs' \cup {NoDigest}
      BY DEF HasBlobs
    <3>1. crates[k] \in CrateRecord /\ crates \in [Keys -> CrateRecord]
      BY <1>t DEF TypeOK
    <3>2. /\ crates' = [crates EXCEPT ![Key(r)] = add_version(@, Entry(req[r]))]
          /\ blobs' = blobs \cup {req[r].digest}
      BY <1>4 DEF PublishPut
    <3>3. CASE k = Key(r)
      BY <3>1, <3>2, <3>3
      DEF BlobInv, HasBlobs, add_version, Entry, CrateRecord
    <3>4. CASE k # Key(r)
      BY <3>1, <3>2, <3>4 DEF BlobInv, HasBlobs
    <3> QED
      BY <3>3, <3>4
  <2> QED
    BY <1>0, <1>d, <2>1, <2>2, Zenon DEF BlobInv
<1>5. ASSUME NEW r \in Requests, SaveRename(r) PROVE BlobInv'
  <2>1. /\ UNCHANGED <<crates, blobs, detached, writer, req>> /\ writer = r
        /\ pc'[r] = "dirsync" /\ \A s \in Requests : s # r => pc'[s] = pc[s]
    BY <1>5, <1>t, Zenon DEF SaveRename, TypeOK, StepsOK
  <2>2. \A s \in Requests : pc'[s] # "rename"
    BY <1>t, <2>1 DEF StepsOK
  <2>3. load(disk') = crates
    BY <1>0, <2>1, <2>2 DEF DiskInv
  <2>4. \A k \in Keys, v \in Versions :
          load(disk)[k].tarballs[v] \in {load(disk')[k].tarballs[v], NoDigest}
    BY <1>0, <2>3, SavedTarballs, Zenon
  <2>5. ASSUME NEW s \in Requests, pc'[s] = "get"
        PROVE  digest_referenced_in(load(disk'), req'[s].digest)
    BY <1>g, <2>1, <2>4, <2>5
  <2> QED
    BY <1>0, <1>d, <2>1, <2>5, Zenon DEF BlobInv, HasBlobs
<1>6. ASSUME NEW r \in Requests, SaveFails(r) PROVE BlobInv'
  <2>1. /\ pc[r] = "rename" /\ UNCHANGED <<disk, blobs, detached>> /\ writer = r
        /\ crates' = [crates EXCEPT ![Key(r)] = undo(@, req[r])]
    BY <1>6, <1>t DEF SaveFails, NoBlobFaults, StepsOK
  <2>2. crates' = load(disk)
    BY <1>0, <2>1 DEF DiskInv
  <2>3. HasBlobs(crates)'
    BY <1>0, <2>1, <2>2, SavedTarballs DEF BlobInv, HasBlobs
  <2>4. \A s \in Requests : s # r => pc'[s] = pc[s] /\ req'[s] = req[s]
    BY <1>6, <1>t DEF SaveFails, Return, TypeOK
  <2>5. /\ pc'[r] \in {"delete", "idle"}
        /\ pc'[r] = "delete" => /\ req' = req
                                /\ ~digest_referenced_in(crates', req[r].digest)
    BY <1>6, <1>t, Zenon DEF SaveFails, Return, TypeOK
  <2>6. \A s \in Requests : s # r => pc[s] # "delete"
    BY <1>t, <2>1 DEF StepsOK
  <2> QED
    BY <1>0, <2>1, <2>3, <2>4, <2>5, <2>6, Zenon DEF BlobInv
<1>7. ASSUME NEW r \in Requests, PublishDelete(r) PROVE BlobInv'
  <2>1. /\ UNCHANGED <<crates, disk, detached>> /\ writer = r /\ writer' = NoWriter
        /\ blobs \ {req[r].digest} \subseteq blobs'
        /\ ~digest_referenced_in(crates, req[r].digest)
    BY <1>7, <1>t, Zenon DEF PublishDelete, StepsOK, BlobInv
  <2>2. HasBlobs(crates)'
    BY <2>1 DEF BlobInv, HasBlobs, digest_referenced_in
  <2>3. /\ pc'[r] = "idle"
        /\ \A s \in Requests : s # r => pc'[s] = pc[s] /\ req'[s] = req[s]
    BY <1>7, <1>t DEF PublishDelete, Return, TypeOK
  <2>4. \A s \in Requests : pc'[s] # "delete"
    BY <1>d, <2>1, CargoAssumption
  <2> QED
    BY <1>0, <2>1, <2>2, <2>3, <2>4, Zenon DEF BlobInv
<1>8. ASSUME Crash PROVE BlobInv'
  <2>1. /\ crates' = load(disk) /\ disk' = disk /\ blobs' = blobs /\ detached' = {}
        /\ \A s \in Requests : pc'[s] = "idle"
    BY <1>8 DEF Crash, Restart
  <2>2. HasBlobs(crates)'
    BY <1>0, <2>1, SavedTarballs DEF BlobInv, HasBlobs
  <2> QED
    BY <1>0, <2>1, <2>2 DEF BlobInv
<1>9. /\ ~PowerLoss /\ ~Corrupt /\ ~Detached
      /\ \A r \in Requests : ~Disconnect(r)
  BY DEF PowerLoss, Corrupt, Detached, Disconnect, NoBlobFaults, BlobInv
<1>10. CASE UNCHANGED vars
  BY <1>0, <1>10 DEF vars, BlobInv, HasBlobs
<1> QED
  BY <1>1, <1>2, <1>3, <1>4, <1>5, <1>6, <1>7, <1>8, <1>9, <1>10
  DEF Next, Acquire, Proceed

\* Without faults other than process crashes, failed saves and failed
\* deletes, every version a reader sees has its tarball (the clean-up after a
\* failed save deletes no blob that another version uses).
THEOREM VersionsDownloadable ==
  ASSUME NoBlobFaults
  PROVE  Spec => []IndexedBlobPresent
<1>1. BlobInv /\ [Next]_vars => BlobInv'
  BY BlobStep
<1>2. BlobInv => IndexedBlobPresent
  BY DEF BlobInv, HasBlobs, IndexedBlobPresent
<1> QED
  BY <1>1, <1>2, BlobInit, PTL DEF Spec

\* Under the same faults a download that has taken its digest under the read
\* guard finds the blob, whatever happens before it asks for it.
THEOREM DownloadsSucceed ==
  ASSUME NoBlobFaults
  PROVE  Spec => []DownloadNeverMissing
<1>1. BlobInv /\ [Next]_vars => BlobInv'
  BY BlobStep
<1>2. BlobInv => DownloadNeverMissing
  <2> SUFFICES ASSUME BlobInv, NEW r \in Requests, pc[r] = "get"
               PROVE  req[r].digest \in blobs
    BY DEF DownloadNeverMissing
  <2>1. req[r].digest \in Digests
    BY DEF BlobInv, DiskInv, IndexInv, TypeInv, StepsOK, DownloadRequest
  <2>2. PICK k \in Keys, v \in Versions : load(disk)[k].tarballs[v] = req[r].digest
    BY DEF BlobInv, digest_referenced_in
  <2>3. crates[k].tarballs[v] = req[r].digest
    BY <2>1, <2>2, SavedTarballs, CargoAssumption DEF BlobInv
  <2> QED
    BY <2>1, <2>3, CargoAssumption DEF BlobInv, HasBlobs
<1> QED
  BY <1>1, <1>2, BlobInit, PTL DEF Spec

----------------------------------------------------------------------------
(* What was acknowledged survives. *)

Undone(r) == [crates EXCEPT ![Key(r)] = undo(@, req[r])]

\* Every snapshot that may be left holds, for each crate, a form that a client
\* may expect, as it stands and as it is loaded; so does the memory, except for
\* the crate whose change is not yet saved, and that one once it is undone.
AckInv ==
  /\ IndexInv
  /\ Proper(crates)
  /\ \A s \in survivors \cup {disk} : \A k \in Keys :
       s[k] \in acked[k] /\ save(load(s))[k] \in acked[k]
  /\ \A k \in Keys :
       \/ save(crates)[k] \in acked[k]
       \/ \E r \in Requests : pc[r] = "rename" /\ Key(r) = k
  /\ \A r \in Requests : pc[r] \in {"rename", "dirsync"} =>
       Proper(Undone(r)) /\ save(Undone(r))[Key(r)] \in acked[Key(r)]
  /\ \A r \in Requests : pc[r] = "dirsync" => disk = save(crates)

\* The empty registry is what everyone expects.
LEMMA AckInit == Init => AckInv
<1> SUFFICES ASSUME Init PROVE AckInv
  OBVIOUS
<1>1. save(crates) = disk /\ save(load(disk)) = disk
  BY Zenon DEF Init, save, load, default, NoRecord
<1> QED
  BY <1>1, IndexInit DEF Init, AckInv, Proper

\* A step that leaves index, disk and acknowledgements alone, and no task at a
\* step of save but those that were there.
LEMMA AckQuiet ==
  ASSUME AckInv, IndexInv', UNCHANGED <<crates, disk, survivors, acked>>,
         \A r \in Requests : pc[r] = "rename" => pc'[r] = "rename" /\ req'[r] = req[r],
         \A r \in Requests : pc'[r] \in {"rename", "dirsync"} =>
           pc'[r] = pc[r] /\ req'[r] = req[r]
  PROVE  AckInv'
<1>1. \A r \in Requests : pc'[r] \in {"rename", "dirsync"} => Key(r)' = Key(r)
  BY Zenon DEF Key
<1>2. \A r \in Requests : pc'[r] \in {"rename", "dirsync"} => Undone(r)' = Undone(r)
  BY <1>1, Zenon DEF Undone
<1>3. Proper(crates)' /\ save(crates)' = save(crates)
  BY Zenon DEF AckInv, Proper, save
<1>4. \A s \in survivors' \cup {disk'} : \A k \in Keys :
        s[k] \in acked'[k] /\ save(load(s))[k] \in acked'[k]
  BY Zenon DEF AckInv
<1>5. \A k \in Keys : \/ save(crates)'[k] \in acked'[k]
                      \/ \E r \in Requests : pc'[r] = "rename" /\ Key(r)' = k
  BY <1>3, <1>1 DEF AckInv
<1>6. \A r \in Requests : pc'[r] \in {"rename", "dirsync"} =>
        Proper(Undone(r)') /\ save(Undone(r)')[Key(r)'] \in acked'[Key(r)']
  BY <1>1, <1>2, Zenon DEF AckInv
<1>7. \A r \in Requests : pc'[r] = "dirsync" => disk' = save(crates)'
  BY <1>3 DEF AckInv
<1> QED
  BY <1>3, <1>4, <1>5, <1>6, <1>7, Zenon DEF AckInv, Proper, save, load

\* A step that changes one record in memory so that undo would bring back what
\* was there, with its save still to come.
LEMMA AckAhead ==
  ASSUME AckInv, IndexInv', UNCHANGED <<disk, survivors, acked>>,
         NEW r \in Requests, pc[r] # "rename", writer \in {r, NoWriter},
         Key(r) \in Keys, pc'[r] = "rename", Key(r)' = Key(r), NEW new,
         crates' = [crates EXCEPT ![Key(r)] = new], new.entries # {},
         undo(new, req'[r]) = crates[Key(r)]
  PROVE  AckInv'
<1>t. TypeOK /\ StepsOK /\ StepsOK'
  BY Zenon DEF AckInv, IndexInv, TypeInv
<1>1. crates \in [Keys -> CrateRecord]
  BY <1>t, Zenon DEF TypeOK
<1>2. \A s \in Requests : pc[s] # "rename"
  BY <1>t, CargoAssumption, Zenon DEF StepsOK
<1>3. \A s \in Requests : pc'[s] \in {"rename", "dirsync"} => s = r
  BY <1>t DEF StepsOK
<1>4. crates'[Key(r)] = new /\ \A k \in Keys : k # Key(r) => crates'[k] = crates[k]
  BY <1>1
<1>5. Proper(crates)'
  BY <1>4 DEF AckInv, Proper
<1>6. Undone(r)' = crates
  BY <1>1, Zenon DEF Undone
<1>7. ASSUME NEW k \in Keys, k # Key(r) PROVE save(crates)'[k] \in acked'[k]
  BY <1>2, <1>4, <1>7, Zenon DEF AckInv, save
<1>8. Proper(Undone(r)') /\ save(Undone(r)')[Key(r)'] \in acked'[Key(r)']
  BY <1>2, <1>6, Zenon DEF AckInv
<1>9. \A s \in survivors' \cup {disk'} : \A k \in Keys :
        s[k] \in acked'[k] /\ save(load(s))[k] \in acked'[k]
  BY Zenon DEF AckInv
<1>10. pc'[r] # "dirsync"
  BY Zenon
<1>11. \A s \in Requests : pc'[s] \in {"rename", "dirsync"} =>
         Proper(Undone(s)') /\ save(Undone(s)')[Key(s)'] \in acked'[Key(s)']
  BY <1>3, <1>8
<1>12. \A k \in Keys : \/ save(crates)'[k] \in acked'[k]
                       \/ \E s \in Requests : pc'[s] = "rename" /\ Key(s)' = k
  BY <1>7, Zenon
<1> QED
  BY <1>3, <1>5, <1>9, <1>10, <1>11, <1>12, Zenon DEF AckInv

\* Whatever the step, a snapshot that may be left is one that a client may
\* expect.
LEMMA AckStep == AckInv /\ [Next]_vars => AckInv'
<1> SUFFICES ASSUME AckInv, [Next]_vars PROVE AckInv'
  OBVIOUS
<1>0. IndexInv /\ IndexInv'
  BY IndexStep, Zenon DEF AckInv
<1>t. /\ TypeOK /\ TypeOK' /\ StepsOK /\ StepsOK'
      /\ \A k \in Keys : Consistent(crates[k])
  BY <1>0 DEF IndexInv, TypeInv, EntriesMatchTarballs
<1> USE DEF durableVars, historyVars
<1>a. \A r \in Requests : pc[r] \in {"rename", "dirsync"} => writer = r
  BY <1>t DEF StepsOK
<1>b. \A r \in Requests : pc'[r] \in {"rename", "dirsync"} => writer' = r
  BY <1>t DEF StepsOK
<1>k. \A r \in Requests : pc[r] \in {"rename", "dirsync"} => Key(r) \in Keys
  BY <1>t, KeyType DEF StepsOK, Key
<1>c. crates \in [Keys -> CrateRecord]
  BY <1>t DEF TypeOK
\* What has just been saved is loaded as it was.
<1>l. load(save(crates)) = crates
  BY <1>c, <1>t, LoadSave, Zenon DEF AckInv, Proper
<1>1. ASSUME NEW r \in Requests,
             \/ Arrive(r) \/ Download(r) \/ Disconnect(r) \/ PublishReject(r)
             \/ YankNotFound(r) \/ OwnersNotFound(r) \/ PublishPutFails(r)
             \/ PublishDelete(r) \/ DownloadGet(r) \/ PublishAdmit(r)
      PROVE  AckInv'
  <2>1. UNCHANGED <<crates, disk, survivors, acked>>
    BY <1>1, Zenon DEF Arrive, Download, Disconnect, PublishReject, YankNotFound,
         OwnersNotFound, PublishPutFails, PublishDelete, DownloadGet, PublishAdmit
  <2>2. pc[r] # "rename" /\ pc'[r] \notin {"rename", "dirsync"}
    BY <1>1, <1>t, Zenon DEF Arrive, Download, Disconnect, PublishReject, YankNotFound,
         OwnersNotFound, PublishPutFails, PublishDelete, DownloadGet, PublishAdmit,
         Return, GetsLock, TypeOK
  <2>3. \A s \in Requests : s # r => pc'[s] = pc[s] /\ req'[s] = req[s]
    BY <1>1, <1>t, Zenon DEF Arrive, Download, Disconnect, PublishReject, YankNotFound,
         OwnersNotFound, PublishPutFails, PublishDelete, DownloadGet, PublishAdmit,
         Return, TypeOK
  <2> QED
    BY <1>0, <2>1, <2>2, <2>3, AckQuiet
<1>2. ASSUME NEW r \in Requests, PublishPut(r) \/ SetYanked(r) \/ MutateOwners(r)
      PROVE  AckInv'
  <2>1. Proper(crates)
    BY Zenon DEF AckInv
  <2> QED
    BY <1>0, <1>2, <2>1, MutationUndone, AckAhead, Zenon
<1>3. ASSUME NEW r \in Requests, SaveRename(r) PROVE AckInv'
  <2>1. /\ disk' = save(crates) /\ survivors' = survivors \cup {disk'}
        /\ acked' = [acked EXCEPT ![Key(r)] = @ \cup {disk'[Key(r)]}]
        /\ UNCHANGED <<crates, req>> /\ pc[r] = "rename" /\ pc'[r] = "dirsync"
    BY <1>3, <1>t, Zenon DEF SaveRename, TypeOK
  <2>2. /\ \A s \in Requests : pc[s] \in {"rename", "dirsync"} => s = r
        /\ \A s \in Requests : pc'[s] \in {"rename", "dirsync"} => s = r
    BY <1>3, <1>a, <1>b, <2>1, Zenon DEF SaveRename
  <2>3. Key(r) \in Keys /\ acked \in [Keys -> SUBSET PersistedRecord]
    BY <1>k, <1>t, <2>1, Zenon DEF TypeOK
  <2>4. \A k \in Keys : acked[k] \subseteq acked'[k] /\ disk'[k] \in acked'[k]
    BY <2>1, <2>2, <2>3, Zenon DEF AckInv
  <2>5. \A s \in survivors' \cup {disk'} : \A k \in Keys :
          s[k] \in acked'[k] /\ save(load(s))[k] \in acked'[k]
    BY <1>l, <2>1, <2>4, Zenon DEF AckInv
  <2>6. Proper(crates') /\ save(crates') = disk'
    BY <2>1, Zenon DEF AckInv
  <2>7. Key(r)' = Key(r) /\ Undone(r)' = Undone(r)
    BY <2>1, Zenon DEF Key, Undone
  <2>8. Proper(Undone(r)') /\ save(Undone(r)')[Key(r)'] \in acked'[Key(r)']
    BY <2>1, <2>3, <2>4, <2>7, Zenon DEF AckInv
  <2> QED
    BY <1>0, <2>1, <2>2, <2>4, <2>5, <2>6, <2>8, Zenon DEF AckInv
<1>4. ASSUME NEW r \in Requests, SaveDirSync(r) PROVE AckInv'
  <2>1. /\ UNCHANGED <<crates, disk>> /\ pc[r] = "dirsync" /\ writer' = NoWriter
        /\ \/ /\ survivors' = {disk}
              /\ acked' = [acked EXCEPT ![Key(r)] = {disk[Key(r)]}]
           \/ UNCHANGED <<survivors, acked>>
    BY <1>4 DEF SaveDirSync
  <2>2. \A s \in Requests : pc'[s] \notin {"rename", "dirsync"}
    BY <1>b, <2>1, CargoAssumption, Zenon
  <2>3. /\ Key(r) \in Keys /\ acked \in [Keys -> SUBSET PersistedRecord]
        /\ disk = save(crates)
    BY <1>k, <1>t, <2>1, Zenon DEF TypeOK, AckInv
  <2>4. \A s \in survivors' \cup {disk'} : \A k \in Keys :
          s[k] \in acked'[k] /\ save(load(s))[k] \in acked'[k]
    BY <1>l, <2>1, <2>3 DEF AckInv
  <2>5. Proper(crates') /\ save(crates') = disk'
    BY <2>1, <2>3, Zenon DEF AckInv
  <2> QED
    BY <1>0, <2>2, <2>4, <2>5 DEF AckInv
<1>5. ASSUME NEW r \in Requests, SaveFails(r) PROVE AckInv'
  <2>1. /\ crates' = Undone(r) /\ UNCHANGED <<disk, survivors, acked>>
        /\ pc[r] \in {"rename", "dirsync"} /\ pc'[r] \notin {"rename", "dirsync"}
    BY <1>5, <1>t, Zenon DEF SaveFails, Undone, Return, TypeOK
  <2>2. /\ \A s \in Requests : pc[s] \in {"rename", "dirsync"} => s = r
        /\ \A s \in Requests : pc'[s] \notin {"rename", "dirsync"}
    BY <1>5, <1>a, <1>t, <2>1 DEF SaveFails, Return, TypeOK
  <2>3. ASSUME NEW k \in Keys PROVE save(crates')[k] \in acked'[k]
    <3>1. CASE k = Key(r)
      BY <2>1, <3>1, Zenon DEF AckInv
    <3>2. CASE k # Key(r)
      <4>1. crates'[k] = crates[k]
        BY <1>c, <2>1, <3>2, Zenon DEF Undone
      <4>2. save(crates)[k] \in acked[k]
        BY <2>2, <3>2, Zenon DEF AckInv
      <4> QED
        BY <2>1, <4>1, <4>2 DEF save
    <3> QED
      BY <3>1, <3>2, Zenon
  <2>4. Proper(crates')
    BY <2>1, Zenon DEF AckInv
  <2>5. \A s \in survivors' \cup {disk'} : \A k \in Keys :
          s[k] \in acked'[k] /\ save(load(s))[k] \in acked'[k]
    BY <2>1, Zenon DEF AckInv
  <2> QED
    BY <1>0, <2>2, <2>3, <2>4, <2>5, Zenon DEF AckInv
<1>6. ASSUME Crash \/ PowerLoss PROVE AckInv'
  <2>1. /\ crates' = load(disk') /\ disk' \in survivors \cup {disk} /\ acked' = acked
        /\ survivors' \subseteq survivors \cup {disk'}
        /\ \A s \in Requests : pc'[s] = "idle"
    BY <1>6 DEF Crash, PowerLoss, Restart
  <2>2. Proper(crates')
    BY <2>1, LoadEmpty, Zenon DEF Proper
  <2>3. \A s \in survivors' \cup {disk'} : \A k \in Keys :
          s[k] \in acked'[k] /\ save(load(s))[k] \in acked'[k]
    BY <2>1, Zenon DEF AckInv
  <2> QED
    BY <1>0, <2>1, <2>2, <2>3 DEF AckInv
<1>7. ASSUME Corrupt PROVE AckInv'
  <2>1. /\ survivors' = {disk'} /\ UNCHANGED <<crates, pc>> /\ writer = NoWriter
        /\ acked' = [k \in Keys |-> acked[k] \cup {disk'[k], save(load(disk'))[k]}]
    BY <1>7, Zenon DEF Corrupt
  <2>2. \A s \in Requests : pc[s] \notin {"rename", "dirsync"}
    BY <1>a, <2>1, CargoAssumption
  <2>3. \A s \in survivors' \cup {disk'} : \A k \in Keys :
          s[k] \in acked'[k] /\ save(load(s))[k] \in acked'[k]
    BY <2>1, Zenon
  <2>4. Proper(crates') /\ \A k \in Keys : save(crates')[k] \in acked'[k]
    BY <2>1, <2>2, Zenon DEF AckInv
  <2> QED
    BY <1>0, <2>1, <2>2, <2>3, <2>4 DEF AckInv
<1>8. ASSUME Detached PROVE AckInv'
  BY <1>0, <1>8, AckQuiet, Zenon DEF Detached
<1>9. CASE UNCHANGED vars
  BY <1>0, <1>9, AckQuiet DEF vars
<1> QED
  BY <1>1, <1>2, <1>3, <1>4, <1>5, <1>6, <1>7, <1>8, <1>9 DEF Next, Acquire, Proceed

\* What a 200 acknowledged is served after any restart, under every fault of the
\* model: hang-ups, failed and unsupported directory fsyncs, crashes and power
\* losses; after damage to the file it is what load makes of it
\* (write_atomic_durable, the roll-backs, load).
THEOREM AcknowledgedSurvives == Spec => []AckedDurable
<1>1. AckInv => AckedDurable
  BY DEF AckInv, AckedDurable
<1> QED
  BY <1>1, AckInit, AckStep, PTL DEF Spec

----------------------------------------------------------------------------
(* The snapshot behaves as CrateIndex: the rename in persist::save is the only
   step that changes it, and what is renamed over it is one legal change of the
   index ahead of it. *)

\* One publish, yank or change of owners takes a crate with these lines and
\* owners to one with those.
Change(k, lines, owners, newLines, newOwners) ==
  \/ \E n \in Names, v \in Versions, d \in Digests :
       /\ canonical_name[n] = k
       /\ \A e \in lines : e.name = n /\ e.vers # v
       /\ newLines = lines \cup
            {[name |-> n, vers |-> v, cksum |-> d, yanked |-> FALSE]}
       /\ newOwners = owners
  \/ \E line \in lines, b \in BOOLEAN :
       /\ newLines = (lines \ {line}) \cup {[line EXCEPT !.yanked = b]}
       /\ newOwners = owners
  \/ /\ lines # {}
     /\ newLines = lines
     /\ \/ \E logins \in SUBSET Logins :
             newOwners = {o \in owners : o.login \notin logins}
        \/ \E more \in SUBSET Owner :
             /\ \A o \in more, p \in owners : p.id < o.id /\ p.login # o.login
             /\ \A o, p \in more : o.id = p.id \/ o.login = p.login => o = p
             /\ newOwners = owners \cup more

\* The tarball map, which save leaves out, does not count.
Changes(k, old, new) ==
  Change(k, old.entries, old.owners, new.entries, new.owners)

\* Memory is one change ahead of the disk.
Ahead ==
  \E k \in Keys :
    /\ Changes(k, disk[k], crates[k])
    /\ \A j \in Keys \ {k} : disk[j] = save(crates)[j]

\* The snapshot is one that a reload and a save reproduce; memory is ahead of
\* it exactly while a handler is about to rename.
AheadInv ==
  /\ DiskInv
  /\ disk = save(load(disk))
  /\ (\E r \in Requests : pc[r] = "rename") => Ahead

\* Nothing takes the file back or damages it.
SnapshotKept == Faults \cap {"dirsync_error", "corruption", "power_loss"} = {}

----------------------------------------------------------------------------
(* What a handler does to a record is a change. *)

\* handle_publish adds a line with a new version under the known spelling.
LEMMA PublishChanges ==
  ASSUME NEW rec \in CrateRecord, NEW q \in PublishRequest,
         \A e \in rec.entries : e.name = q.name /\ e.vers # q.vers
  PROVE  Changes(canonical_name[q.name], rec, add_version(rec, Entry(q)))
<1> DEFINE new == add_version(rec, Entry(q))
<1>1. q.name \in Names /\ q.vers \in Versions /\ q.digest \in Digests
  BY Zenon DEF PublishRequest
<1>2. new.entries = rec.entries \cup {Entry(q)} /\ new.owners = rec.owners
  BY DEF add_version, CrateRecord
<1> HIDE DEF new
<1>3. \E n \in Names, v \in Versions, d \in Digests :
        /\ canonical_name[n] = canonical_name[q.name]
        /\ \A e \in rec.entries : e.name = n /\ e.vers # v
        /\ new.entries = rec.entries \cup
             {[name |-> n, vers |-> v, cksum |-> d, yanked |-> FALSE]}
        /\ new.owners = rec.owners
  BY <1>1, <1>2 DEF Entry
<1>4. Changes(canonical_name[q.name], rec, new)
  BY <1>3 DEF Changes, Change
<1> QED
  BY <1>4, Zenon DEF new

\* set_yanked touches the one line of its version.
LEMMA FlagChanges ==
  ASSUME NEW k, NEW rec \in CrateRecord, UniqueVersions(rec.entries),
         NEW line \in rec.entries, NEW b \in BOOLEAN
  PROVE  Changes(k, rec, set_flag(rec, line.vers, b))
<1> DEFINE new == set_flag(rec, line.vers, b)
<1>1. /\ new.entries = {IF e.vers = line.vers THEN [e EXCEPT !.yanked = b] ELSE e :
                          e \in rec.entries}
      /\ new.owners = rec.owners
  BY DEF set_flag, CrateRecord
<1>2. \A e \in rec.entries : e.vers = line.vers <=> e = line
  BY DEF UniqueVersions
<1> HIDE DEF new
<1>3. new.entries = (rec.entries \ {line}) \cup {[line EXCEPT !.yanked = b]}
  BY <1>1, <1>2
<1>4. Changes(k, rec, new)
  BY <1>1, <1>3 DEF Changes, Change
<1> QED
  BY <1>4 DEF new

\* mutate_owners numbers the owners it adds above those that are there.
LEMMA OwnersChange ==
  ASSUME NEW k, NEW rec \in CrateRecord, rec.entries # {},
         NEW logins \in SUBSET Logins, NEW owners,
         \/ owners = retain_owners(rec.owners, logins)
         \/ owners \in add_owners(rec.owners, logins)
  PROVE  Changes(k, rec, [rec EXCEPT !.owners = owners])
<1> DEFINE new == [rec EXCEPT !.owners = owners]
<1>1. new.entries = rec.entries /\ new.owners = owners
  BY DEF CrateRecord
<1> HIDE DEF new
<1>2. CASE owners = retain_owners(rec.owners, logins)
  <2>1. \E ls \in SUBSET Logins : new.owners = {o \in rec.owners : o.login \notin ls}
    BY <1>1, <1>2 DEF retain_owners
  <2> QED
    BY <1>1, <2>1 DEF Changes, Change, new
<1>3. CASE owners \in add_owners(rec.owners, logins)
  <2> DEFINE fresh == logins \ {o.login : o \in rec.owners}
  <2>0. PICK f \in {g \in [fresh -> 1..MaxOwnerId] :
                     \E next \in 1..(MaxOwnerId + 1) :
                       /\ IsNextId(rec.owners, next)
                       /\ \A l, m \in fresh :
                            /\ next <= g[l] /\ g[l] < next + Cardinality(fresh)
                            /\ g[l] = g[m] => l = m} :
          owners = rec.owners \cup {[id |-> f[l], login |-> l] : l \in fresh}
    BY <1>3, Zenon DEF add_owners
  <2>1. /\ f \in [fresh -> 1..MaxOwnerId]
        /\ \E next \in 1..(MaxOwnerId + 1) :
             /\ IsNextId(rec.owners, next)
             /\ \A l, m \in fresh : next <= f[l] /\ (f[l] = f[m] => l = m)
    BY <2>0, Zenon
  <2> DEFINE more == {[id |-> f[l], login |-> l] : l \in fresh}
  <2>2. more \in SUBSET Owner
    BY <2>1 DEF Owner
  <2>3. rec.owners \subseteq Owner
    BY Zenon DEF CrateRecord
  <2>4. ASSUME NEW o \in more, NEW p \in rec.owners
        PROVE  p.id < o.id /\ p.login # o.login
    <3>1. PICK l \in fresh : o = [id |-> f[l], login |-> l]
      OBVIOUS
    <3> PICK next \in 1..(MaxOwnerId + 1) : IsNextId(rec.owners, next) /\ next <= f[l]
      BY <2>1, Zenon
    <3>2. f[l] \in Nat /\ next \in Nat /\ p.id \in Nat
      BY <2>1, <2>3, CargoAssumption DEF Owner
    <3>3. p.id < next
      BY <2>3, CargoAssumption DEF IsNextId, Owner
    <3> QED
      BY <3>1, <3>2, <3>3
  <2>5. ASSUME NEW o \in more, NEW p \in more, o.id = p.id \/ o.login = p.login
        PROVE  o = p
    <3>1. PICK l \in fresh, m \in fresh :
            o = [id |-> f[l], login |-> l] /\ p = [id |-> f[m], login |-> m]
      BY Zenon
    <3>2. f[l] = f[m] => l = m
      BY <2>1, Zenon
    <3> QED
      BY <2>5, <3>1, <3>2, Zenon
  <2>6. owners = rec.owners \cup more
    BY <2>0
  <2> HIDE DEF more, fresh
  <2> QED
    BY <1>1, <2>2, <2>4, <2>5, <2>6 DEF Changes, Change, new
<1> QED
  BY <1>2, <1>3

----------------------------------------------------------------------------
(* The invariant. *)

\* The empty snapshot is reproduced.
LEMMA AheadInit == Init => AheadInv
<1> SUFFICES ASSUME Init PROVE AheadInv
  OBVIOUS
<1>1. disk = [k \in Keys |-> NoRecord] /\ \A r \in Requests : pc[r] # "rename"
  BY Zenon DEF Init
<1>2. load(disk) = [k \in Keys |-> default]
  BY <1>1, Zenon DEF load, default, NoRecord
<1>3. \A k \in Keys : [entries |-> load(disk)[k].entries, owners |-> load(disk)[k].owners] = NoRecord
  BY <1>2 DEF default, NoRecord
<1>4. save(load(disk)) = [k \in Keys |-> NoRecord]
  BY <1>3 DEF save
<1> QED
  BY <1>1, <1>4, DiskInit DEF AheadInv

\* Every mutation starts from what is on disk and is one change ahead of it.
LEMMA AheadStep == SnapshotKept /\ AheadInv /\ [Next]_vars => AheadInv'
<1> SUFFICES ASSUME SnapshotKept, AheadInv, [Next]_vars PROVE AheadInv'
  OBVIOUS
<1>0. DiskInv /\ DiskInv'
  BY DiskStep, Zenon DEF AheadInv, SnapshotKept, NoDiskFaults
<1>t. /\ TypeOK /\ TypeOK' /\ StepsOK /\ StepsOK'
      /\ \A k \in Keys : Consistent(crates[k])
  BY <1>0 DEF DiskInv, IndexInv, TypeInv, EntriesMatchTarballs
<1> USE DEF durableVars, historyVars
<1>1. ASSUME NEW r \in Requests, pc[r] # "rename", writer \in {r, NoWriter},
             Key(r) \in Keys, UNCHANGED disk, NEW new,
             crates' = [crates EXCEPT ![Key(r)] = new],
             Changes(Key(r), crates[Key(r)], new)
      PROVE  AheadInv'
  <2>1. \A s \in Requests : pc[s] # "rename"
    BY <1>1, <1>t, CargoAssumption, Zenon DEF StepsOK
  <2>2. disk = save(crates)
    BY <1>0, <2>1, Zenon DEF DiskInv, AheadInv
  <2>3. crates \in [Keys -> CrateRecord]
    BY <1>t DEF TypeOK
  <2>4. disk[Key(r)].entries = crates[Key(r)].entries
        /\ disk[Key(r)].owners = crates[Key(r)].owners
    BY <1>1, <2>2, Zenon DEF save
  <2>5. Changes(Key(r), disk[Key(r)], new)
    BY <1>1, <2>4 DEF Changes
  <2>6. crates'[Key(r)] = new /\ \A j \in Keys \ {Key(r)} : crates'[j] = crates[j]
    BY <1>1, <2>3, Zenon
  <2>7. \A j \in Keys \ {Key(r)} : disk[j] = save(crates')[j]
    BY <2>2, <2>6 DEF save
  <2>8. \A j \in Keys \ {Key(r)} : disk'[j] = save(crates)'[j]
    BY <1>1, <2>7, Zenon DEF save
  <2>9. Changes(Key(r), disk'[Key(r)], crates'[Key(r)])
    BY <1>1, <2>5, <2>6
  <2>10. Ahead'
    BY <1>1, <2>8, <2>9, Zenon DEF Ahead, Changes
  <2> QED
    BY <1>0, <1>1, <2>10, Zenon DEF AheadInv
<1>2. ASSUME NEW r \in Requests, PublishPut(r) PROVE AheadInv'
  <2>1. req[r] \in PublishRequest /\ Key(r) \in Keys /\ writer = r
    BY <1>2, <1>t, KeyType, Zenon DEF PublishPut, Key, StepsOK
  <2>2. crates[Key(r)] \in CrateRecord
    BY <1>t, <2>1, Zenon DEF TypeOK
  <2>3. \A e \in crates[Key(r)].entries :
          e.name = req[r].name /\ e.vers # req[r].vers
    BY <1>0, <1>2, Zenon DEF PublishPut, DiskInv, IndexInv, Pending
  <2>4. Changes(Key(r), crates[Key(r)], add_version(crates[Key(r)], Entry(req[r])))
    BY <2>1, <2>2, <2>3, PublishChanges DEF Key
  <2> QED
    BY <1>1, <1>2, <2>1, <2>4, Zenon DEF PublishPut
<1>3. ASSUME NEW r \in Requests, SetYanked(r) PROVE AheadInv'
  <2>1. req[r] \in YankRequest /\ Key(r) \in Keys
    BY <1>3, <1>t, KeyType DEF SetYanked, GetsLock, Key, StepsOK
  <2>2. PICK line \in crates[Key(r)].entries : line.vers = req[r].vers
    BY <1>3 DEF SetYanked
  <2>3. crates[Key(r)] \in CrateRecord /\ UniqueVersions(crates[Key(r)].entries)
    BY <1>t, <2>1, Zenon DEF TypeOK, Consistent
  <2>4. req[r].yanked \in BOOLEAN
    BY <2>1, Zenon DEF YankRequest
  <2>5. Changes(Key(r), crates[Key(r)],
               set_flag(crates[Key(r)], req[r].vers, req[r].yanked))
    BY <2>2, <2>3, <2>4, FlagChanges
  <2> QED
    BY <1>1, <1>3, <2>1, <2>5, Zenon DEF SetYanked, GetsLock
<1>4. ASSUME NEW r \in Requests, MutateOwners(r) PROVE AheadInv'
  <2>1. req[r] \in OwnersRequest /\ Key(r) \in Keys
    BY <1>4, <1>t, KeyType DEF MutateOwners, GetsLock, Key, StepsOK
  <2>2. crates[Key(r)] \in CrateRecord /\ crates[Key(r)].entries # {}
    BY <1>0, <1>4, <1>t, <2>1 DEF MutateOwners, DiskInv, Proper, TypeOK
  <2>3. PICK owners :
          /\ \/ owners = retain_owners(crates[Key(r)].owners, req[r].logins)
             \/ owners \in add_owners(crates[Key(r)].owners, req[r].logins)
          /\ crates' = [crates EXCEPT ![Key(r)].owners = owners]
    BY <1>4, Zenon DEF MutateOwners
  <2>4. req[r].logins \in SUBSET Logins
    BY <2>1 DEF OwnersRequest
  <2> DEFINE new == [crates[Key(r)] EXCEPT !.owners = owners]
  <2>5. Changes(Key(r), crates[Key(r)], new)
    BY <2>2, <2>3, <2>4, OwnersChange, Zenon
  <2>6. crates' = [crates EXCEPT ![Key(r)] = new]
    BY <2>3
  <2> HIDE DEF new
  <2> QED
    BY <1>1, <1>4, <2>1, <2>5, <2>6, Zenon DEF MutateOwners, GetsLock
<1>5. ASSUME NEW r \in Requests, SaveRename(r) PROVE AheadInv'
  <2>1. disk' = save(crates) /\ crates' = crates
    BY <1>5 DEF SaveRename
  <2>2. load(disk') = crates
    BY <1>0, <1>t, <2>1, LoadSave, Zenon DEF TypeOK, DiskInv, Proper
  <2>3. \A s \in Requests : pc'[s] # "rename"
    BY <1>5, <1>t, Zenon DEF SaveRename, TypeOK, StepsOK
  <2> QED
    BY <1>0, <2>1, <2>2, <2>3 DEF AheadInv
<1>6. ASSUME NEW r \in Requests, SaveFails(r) PROVE AheadInv'
  <2>1. disk' = disk
    BY <1>6, Zenon DEF SaveFails
  <2>2. pc[r] = "rename" /\ pc'[r] # "rename"
    BY <1>6, <1>t, Zenon DEF SaveFails, SnapshotKept, Return, TypeOK
  <2>3. \A s \in Requests : pc'[s] # "rename"
    BY <1>6, <1>t, <2>2 DEF SaveFails, Return, TypeOK, StepsOK
  <2> QED
    BY <1>0, <2>1, <2>3 DEF AheadInv
<1>7. ASSUME UNCHANGED <<crates, disk>>,
             \A r \in Requests : pc'[r] = "rename" => pc[r] = "rename"
      PROVE  AheadInv'
  BY <1>0, <1>7, Zenon DEF AheadInv, Ahead
<1>8. ASSUME NEW r \in Requests,
             \/ Arrive(r) \/ Download(r) \/ Disconnect(r) \/ PublishReject(r)
             \/ YankNotFound(r) \/ OwnersNotFound(r) \/ PublishPutFails(r)
             \/ PublishDelete(r) \/ DownloadGet(r) \/ PublishAdmit(r)
             \/ SaveDirSync(r)
      PROVE  AheadInv'
  <2>1. UNCHANGED <<crates, disk>>
    BY <1>8, Zenon DEF Arrive, Download, Disconnect, PublishReject, YankNotFound,
         OwnersNotFound, PublishPutFails, PublishDelete, DownloadGet, PublishAdmit,
         SaveDirSync
  <2>2. \A s \in Requests : pc'[s] = "rename" => pc[s] = "rename"
    BY <1>8, <1>t, Zenon DEF Arrive, Download, Disconnect, PublishReject, YankNotFound,
         OwnersNotFound, PublishPutFails, PublishDelete, DownloadGet, PublishAdmit,
         SaveDirSync, Return, TypeOK
  <2> QED
    BY <1>7, <2>1, <2>2
<1>9. ASSUME Detached PROVE AheadInv'
  BY <1>7, <1>9 DEF Detached
<1>10. ASSUME Crash PROVE AheadInv'
  <2>1. disk' = disk /\ \A s \in Requests : pc'[s] # "rename"
    BY <1>10 DEF Crash, Restart
  <2> QED
    BY <1>0, <2>1 DEF AheadInv
<1>11. ~PowerLoss /\ ~Corrupt
  BY DEF PowerLoss, Corrupt, SnapshotKept
<1>12. CASE UNCHANGED vars
  BY <1>7, <1>12 DEF vars
<1> QED
  BY <1>2, <1>3, <1>4, <1>5, <1>6, <1>8, <1>9, <1>10, <1>11, <1>12
  DEF Next, Acquire, Proceed

----------------------------------------------------------------------------
(* The refinement. *)

\* A change of one record of the snapshot is a step of CrateIndex.
LEMMA ChangeSteps ==
  ASSUME TypeOK, Ahead, disk' = save(crates)
  PROVE  Index!Next
<1>1. PICK k \in Keys : /\ Changes(k, disk[k], crates[k])
                        /\ \A j \in Keys \ {k} : disk[j] = save(crates)[j]
  BY DEF Ahead
<1> DEFINE old == disk[k]
           new == disk'[k]
<1>2. /\ disk \in [Keys -> PersistedRecord]
      /\ old \in PersistedRecord
  BY DEF TypeOK
<1>3. /\ new = [entries |-> crates[k].entries, owners |-> crates[k].owners]
      /\ new.entries = crates[k].entries /\ new.owners = crates[k].owners
  BY DEF save
<1>4. disk' = [disk EXCEPT ![k] = new]
  <2>1. disk' \in [Keys -> PersistedRecord]
    BY SaveType, Zenon DEF TypeOK
  <2>2. \A j \in Keys \ {k} : disk'[j] = disk[j]
    BY <1>1, Zenon
  <2> QED
    BY <1>2, <2>1, <2>2
<1>5. Changes(k, old, new)
  BY <1>1, <1>3, Zenon DEF Changes
<1>6. new = [entries |-> new.entries, owners |-> new.owners]
  BY <1>3
<1>o. old = [entries |-> old.entries, owners |-> old.owners]
  BY <1>2 DEF PersistedRecord
<1>e. ASSUME new.owners = old.owners
      PROVE  disk' = [disk EXCEPT ![k].entries = new.entries]
  <2>1. new = [old EXCEPT !.entries = new.entries]
    BY <1>6, <1>o, <1>e
  <2> QED
    BY <1>4, <2>1
<1>w. ASSUME new.entries = old.entries
      PROVE  disk' = [disk EXCEPT ![k].owners = new.owners]
  <2>1. new = [old EXCEPT !.owners = new.owners]
    BY <1>6, <1>o, <1>w, Zenon
  <2> QED
    BY <1>4, <2>1
<1> HIDE DEF old, new
<1>7. ASSUME NEW n \in Names, NEW v \in Versions, NEW d \in Digests,
             canonical_name[n] = k,
             \A e \in old.entries : e.name = n /\ e.vers # v,
             new.entries = old.entries \cup
               {[name |-> n, vers |-> v, cksum |-> d, yanked |-> FALSE]},
             new.owners = old.owners
      PROVE  Index!Next
  <2>1. Index!Publish(n, v, d)
    BY <1>7, <1>e DEF Index!Publish, old
  <2> QED
    BY <2>1 DEF Index!Next
<1>8. ASSUME NEW line \in old.entries, NEW b \in BOOLEAN,
             new.entries = (old.entries \ {line}) \cup {[line EXCEPT !.yanked = b]},
             new.owners = old.owners
      PROVE  Index!Next
  <2>1. Index!SetYanked(k, line, b)
    BY <1>8, <1>e, Zenon DEF Index!SetYanked, old
  <2> QED
    BY <2>1, <1>8 DEF Index!Next, old
<1>9. ASSUME old.entries # {}, new.entries = old.entries,
             NEW logins \in SUBSET Logins,
             new.owners = {o \in old.owners : o.login \notin logins}
      PROVE  Index!Next
  <2>1. Index!RemoveOwners(k, logins)
    BY <1>9, <1>w, Zenon DEF Index!RemoveOwners, old
  <2> QED
    BY <2>1 DEF Index!Next
<1>10. ASSUME old.entries # {}, new.entries = old.entries,
              NEW more \in SUBSET Owner,
              \A o \in more, p \in old.owners : p.id < o.id /\ p.login # o.login,
              \A o, p \in more : o.id = p.id \/ o.login = p.login => o = p,
              new.owners = old.owners \cup more
       PROVE  Index!Next
  <2>1. Index!AddOwners(k, more)
    BY <1>10, <1>w DEF Index!AddOwners, old
  <2> QED
    BY <2>1 DEF Index!Next
<1> QED
  BY <1>5, <1>7, <1>8, <1>9, <1>10, Zenon DEF Changes, Change

\* Only the rename changes the snapshot, so every other step is a stutter.
LEMMA IndexSteps ==
  SnapshotKept /\ AheadInv /\ [Next]_vars => [Index!Next]_disk
<1> SUFFICES ASSUME SnapshotKept, AheadInv, [Next]_vars, disk' # disk
             PROVE  Index!Next
  BY Zenon
<1>1. PICK r \in Requests : SaveRename(r)
  BY Zenon DEF Next, Acquire, Proceed, vars, durableVars, historyVars, SnapshotKept,
    Arrive, Download, Disconnect, PublishReject, PublishAdmit, PublishPut,
    PublishPutFails, PublishDelete, YankNotFound, SetYanked, OwnersNotFound,
    MutateOwners, SaveDirSync, SaveFails, DownloadGet, Detached, Crash,
    PowerLoss, Corrupt
<1>2. TypeOK /\ Ahead /\ disk' = save(crates)
  BY <1>1 DEF SaveRename, AheadInv, DiskInv, IndexInv, TypeInv
<1> QED
  BY <1>2, ChangeSteps

\* As long as the directory fsync does not fail, the power stays on and the
\* file is not damaged, index-state.json behaves as CrateIndex through
\* interleaved requests, hang-ups, failed saves and process crashes
\* (persist_locked, write_atomic_durable, with_persistence).
THEOREM RegistryImplementsIndex ==
  ASSUME SnapshotKept
  PROVE  Spec => RefinesCrateIndex
<1>1. Init => Index!Init
  BY DEF Init, Index!Init, Index!NewCrate, NoRecord
<1>2. AheadInv /\ [Next]_vars => AheadInv'
  BY AheadStep
<1>3. AheadInv /\ [Next]_vars => [Index!Next]_disk
  BY IndexSteps
<1> QED
  BY <1>1, <1>2, <1>3, AheadInit, PTL DEF Spec, RefinesCrateIndex, Index!Spec
===========================================================================
