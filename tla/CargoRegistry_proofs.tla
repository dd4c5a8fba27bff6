------------------------ MODULE CargoRegistry_proofs ------------------------
(***************************************************************************)
(* Proofs about CargoRegistry, for any number of requests, crates,         *)
(* versions and tarballs: types, locking, the index lines, and the blobs   *)
(* that a publish which fails leaves behind.                               *)
(***************************************************************************)
EXTENDS CargoRegistry, TLAPS

----------------------------------------------------------------------------
(* The operators keep their types. *)

\* A key of a mutation is a key of the index (canonical_name).
LEMMA KeyType ==
  ASSUME NEW q \in PublishRequest \cup YankRequest \cup OwnersRequest
  PROVE  /\ canonical_name[q.name] \in Keys
         /\ q.op \in {"publish", "yank", "owners"}
         /\ q.op = "publish" <=> q \in PublishRequest
         /\ q.op = "yank" <=> q \in YankRequest
         /\ q.op = "owners" <=> q \in OwnersRequest
BY CargoAssumption DEF PublishRequest, YankRequest, OwnersRequest

\* What is saved is a snapshot (save).
LEMMA SaveType ==
  ASSUME NEW cs \in [Keys -> CrateRecord]
  PROVE  save(cs) \in [Keys -> PersistedRecord]
BY DEF save, CrateRecord, PersistedRecord, IndexEntry

\* What is loaded is an index map, also from a damaged snapshot (load).
LEMMA LoadType ==
  ASSUME NEW snapshot \in [Keys -> PersistedRecord]
  PROVE  load(snapshot) \in [Keys -> CrateRecord]
<1> SUFFICES ASSUME NEW k \in Keys
             PROVE  load(snapshot)[k] \in CrateRecord
  BY DEF load
<1> DEFINE good == {e \in snapshot[k].entries : e.cksum \in Digests}
<1>1. good \in SUBSET IndexEntry /\ snapshot[k].owners \in SUBSET Owner
  BY DEF PersistedRecord, IndexEntry
<1>2. default \in CrateRecord
  BY DEF default, NoTarballs, CrateRecord
<1>3. ASSUME NEW v \in Versions, \E e \in good : e.vers = v
      PROVE  (CHOOSE e \in good : e.vers = v).cksum \in Digests
  BY <1>1, <1>3 DEF IndexEntry
<1> QED
  BY <1>1, <1>2, <1>3 DEF load, CrateRecord

\* undo gives back a record.
LEMMA UndoType ==
  ASSUME NEW rec \in CrateRecord,
         NEW q \in PublishRequest \cup YankRequest \cup OwnersRequest
  PROVE  undo(rec, q) \in CrateRecord
<1>1. CASE q \in PublishRequest
  BY <1>1, Zenon DEF undo, rollback_publish, PublishRequest, CrateRecord
<1>2. CASE q \in YankRequest
  BY <1>2 DEF undo, set_flag, YankRequest, CrateRecord, IndexEntry
<1>3. CASE q \in OwnersRequest
  BY <1>3 DEF undo, OwnersRequest, CrateRecord
<1> QED
  BY <1>1, <1>2, <1>3

\* add_version and set_flag keep a record a record.
LEMMA EditType ==
  ASSUME NEW rec \in CrateRecord
  PROVE  /\ \A e \in IndexEntry : add_version(rec, e) \in CrateRecord
         /\ \A v \in Versions, b \in BOOLEAN :
              set_flag(rec, v, b) \in CrateRecord
         /\ \A new \in SUBSET Owner : [rec EXCEPT !.owners = new] \in CrateRecord
<1>1. ASSUME NEW e \in IndexEntry
      PROVE  add_version(rec, e) \in CrateRecord
  BY <1>1, Zenon DEF add_version, CrateRecord, IndexEntry
<1>2. ASSUME NEW v \in Versions, NEW b \in BOOLEAN
      PROVE  set_flag(rec, v, b) \in CrateRecord
  BY <1>2 DEF set_flag, CrateRecord, IndexEntry
<1>3. ASSUME NEW new \in SUBSET Owner
      PROVE  [rec EXCEPT !.owners = new] \in CrateRecord
  BY <1>3 DEF CrateRecord
<1> QED
  BY <1>1, <1>2, <1>3

\* Both ways of changing owners give sets of owners (mutate_owners).
LEMMA OwnersType ==
  ASSUME NEW owners \in SUBSET Owner, NEW logins \in SUBSET Logins
  PROVE  /\ retain_owners(owners, logins) \in SUBSET Owner
         /\ \A new \in add_owners(owners, logins) : new \in SUBSET Owner
<1>1. retain_owners(owners, logins) \in SUBSET Owner
  BY DEF retain_owners
<1>2. ASSUME NEW new \in add_owners(owners, logins)
      PROVE  new \in SUBSET Owner
  <2> DEFINE fresh == logins \ {o.login : o \in owners}
  <2>1. PICK f \in [fresh -> 1..MaxOwnerId] :
               new = owners \cup {[id |-> f[l], login |-> l] : l \in fresh}
    BY Zenon DEF add_owners
  <2>2. \A l \in fresh : [id |-> f[l], login |-> l] \in Owner
    BY DEF Owner
  <2> QED
    BY <2>1, <2>2
<1> QED
  BY <1>1, <1>2

----------------------------------------------------------------------------
(* Types and locking. *)

TypeInv == TypeOK /\ StepsOK

\* The empty registry of Init is well typed, with no handler inside a mutation
\* (CargoState::new).
LEMMA TypeInit == Init => TypeInv
<1> SUFFICES ASSUME Init PROVE TypeInv
  OBVIOUS
<1>1. default \in CrateRecord /\ NoRecord \in PersistedRecord
  BY DEF default, NoTarballs, CrateRecord, NoRecord, PersistedRecord
<1>2. TypeOK
  BY <1>1, Zenon DEF Init, TypeOK, Steps, Request
<1>3. StepsOK
  BY CargoAssumption DEF Init, StepsOK
<1> QED
  BY <1>2, <1>3 DEF TypeInv

\* No handler step and no fault breaks the types, or lets two handlers inside
\* a mutation at once (the write guard).
LEMMA TypeStep == TypeInv /\ [Next]_vars => TypeInv'
<1> SUFFICES ASSUME TypeInv, [Next]_vars PROVE TypeInv'
  OBVIOUS
<1> USE DEF durableVars, historyVars
<1>1. ASSUME NEW r \in Requests, Arrive(r) PROVE TypeInv'
  BY <1>1, CargoAssumption DEF Arrive, TypeInv, TypeOK, StepsOK, Steps, Request
<1>2. ASSUME NEW r \in Requests, Download(r) PROVE TypeInv'
  <2>1. PICK k \in Keys, v \in Versions :
          /\ crates[k].tarballs[v] # NoDigest
          /\ req' = [req EXCEPT ![r] = [op |-> "download",
                                        digest |-> crates[k].tarballs[v]]]
    BY <1>2, Zenon DEF Download
  <2>2. [op |-> "download", digest |-> crates[k].tarballs[v]]
          \in DownloadRequest
    BY <2>1 DEF TypeInv, TypeOK, CrateRecord, DownloadRequest
  <2> QED
    BY <1>2, <2>1, <2>2, CargoAssumption
    DEF Download, TypeInv, TypeOK, StepsOK, Steps, Request
<1>3. ASSUME NEW r \in Requests, Disconnect(r) PROVE TypeInv'
  <2>1. detached' \in SUBSET [op: {"put", "delete"}, digest: Digests]
    BY <1>3 DEF Disconnect, TypeInv, TypeOK, StepsOK, PublishRequest
  <2> QED
    BY <1>3, <2>1, CargoAssumption
    DEF Disconnect, Return, TypeInv, TypeOK, StepsOK, Steps, Request
<1>4. ASSUME NEW r \in Requests, Acquire(r) PROVE TypeInv'
  <2> USE DEF GetsLock, Return, TypeInv
  <2>1. req[r] \in PublishRequest \cup YankRequest \cup OwnersRequest
    BY <1>4 DEF Acquire, PublishReject, PublishAdmit, YankNotFound, SetYanked,
                OwnersNotFound, MutateOwners, StepsOK
  <2>2. Key(r) \in Keys /\ crates[Key(r)] \in CrateRecord
    BY <2>1, KeyType DEF Key, TypeOK
  <2>3. CASE PublishReject(r) \/ YankNotFound(r) \/ OwnersNotFound(r)
    BY <2>3, CargoAssumption DEF PublishReject, YankNotFound, OwnersNotFound,
       TypeOK, StepsOK, Steps, Request
  <2>4. CASE PublishAdmit(r)
    BY <2>1, <2>4, KeyType, CargoAssumption DEF PublishAdmit, TypeOK, StepsOK, Steps
  <2>5. CASE SetYanked(r)
    <3>1. req[r] \in YankRequest
      BY <2>1, <2>5, KeyType DEF SetYanked
    <3>2. PICK e \in crates[Key(r)].entries :
             req' = [req EXCEPT ![r].previous = e.yanked]
      BY <2>5, Zenon DEF SetYanked
    <3>3. req'[r] \in YankRequest /\ req' \in [Requests -> Request]
      BY <2>2, <3>1, <3>2, Zenon
      DEF TypeOK, CrateRecord, IndexEntry, YankRequest, Request
    <3>4. crates' \in [Keys -> CrateRecord]
      BY <2>2, <2>5, <3>1, EditType DEF SetYanked, TypeOK, YankRequest
    <3> QED
      BY <2>5, <3>2, <3>3, <3>4, CargoAssumption
      DEF SetYanked, TypeOK, StepsOK, Steps
  <2>6. CASE MutateOwners(r)
    <3>1. req[r] \in OwnersRequest
      BY <2>1, <2>6, KeyType DEF MutateOwners
    <3>2. crates[Key(r)].owners \in SUBSET Owner /\ req[r].logins \in SUBSET Logins
      BY <2>2, <3>1 DEF CrateRecord, OwnersRequest
    <3>3. req' = [req EXCEPT ![r].previous = crates[Key(r)].owners]
      BY <2>6 DEF MutateOwners
    <3>4. req'[r] \in OwnersRequest /\ req' \in [Requests -> Request]
      BY <3>1, <3>2, <3>3 DEF TypeOK, OwnersRequest, Request
    <3>5. PICK new \in SUBSET Owner :
             crates' = [crates EXCEPT ![Key(r)].owners = new]
      BY <2>6, <3>2, OwnersType, Zenon DEF MutateOwners
    <3>6. crates' \in [Keys -> CrateRecord]
      BY <2>2, <3>5, EditType DEF TypeOK
    <3> QED
      BY <2>6, <3>3, <3>4, <3>6, CargoAssumption
      DEF MutateOwners, TypeOK, StepsOK, Steps
  <2> QED
    BY <1>4, <2>3, <2>4, <2>5, <2>6 DEF Acquire
<1>5. ASSUME NEW r \in Requests, Proceed(r) PROVE TypeInv'
  <2> USE DEF Return, TypeInv
  <2>1. CASE PublishPut(r)
    <3>1. req[r] \in PublishRequest /\ Key(r) \in Keys
      BY <2>1, KeyType DEF PublishPut, StepsOK, Key
    <3>2. Entry(req[r]) \in IndexEntry /\ req[r].digest \in Digests
      BY <3>1 DEF Entry, IndexEntry, PublishRequest
    <3>3. crates' \in [Keys -> CrateRecord]
      BY <2>1, <3>1, <3>2, EditType DEF PublishPut, TypeOK
    <3> QED
      BY <2>1, <3>1, <3>2, <3>3, CargoAssumption DEF PublishPut, TypeOK, StepsOK, Steps
  <2>2. CASE PublishPutFails(r)
    BY <2>2, CargoAssumption
    DEF PublishPutFails, TypeOK, StepsOK, Steps, Request
  <2>7. CASE PublishDelete(r)
    <3>1. faulted' \in BOOLEAN /\ blobs' \in SUBSET Digests
      BY <2>7, Zenon DEF PublishDelete, TypeOK
    <3> QED
      BY <2>7, <3>1, CargoAssumption
      DEF PublishDelete, TypeOK, StepsOK, Steps, Request
  <2>3. CASE SaveRename(r)
    <3>1. Key(r) \in Keys
      BY <2>3, KeyType DEF SaveRename, StepsOK, Key
    <3>2. disk' \in [Keys -> PersistedRecord]
      BY <2>3, SaveType DEF SaveRename, TypeOK
    <3>3. /\ survivors' \in SUBSET [Keys -> PersistedRecord]
          /\ acked' \in [Keys -> SUBSET PersistedRecord]
      BY <2>3, <3>1, <3>2, Zenon DEF SaveRename, TypeOK
    <3>4. TypeOK'
      BY <2>3, <3>2, <3>3 DEF SaveRename, TypeOK, Steps
    <3>5. StepsOK'
      BY <2>3 DEF SaveRename, TypeOK, StepsOK
    <3> QED
      BY <3>4, <3>5
  <2>4. CASE SaveDirSync(r)
    <3>1. Key(r) \in Keys
      BY <2>4, KeyType DEF SaveDirSync, StepsOK, Key
    <3> QED
      BY <2>4, <3>1, CargoAssumption
      DEF SaveDirSync, TypeOK, StepsOK, Steps, Request
  <2>5. CASE SaveFails(r)
    <3>1. /\ req[r] \in PublishRequest \cup YankRequest \cup OwnersRequest
          /\ Key(r) \in Keys
      BY <2>5, KeyType DEF SaveFails, StepsOK, Key
    <3>2. crates' \in [Keys -> CrateRecord]
      BY <2>5, <3>1, UndoType DEF SaveFails, TypeOK
    <3>3. req[r].op = "publish" => req[r] \in PublishRequest
      BY <3>1, KeyType
    <3> QED
      BY <2>5, <3>2, <3>3, CargoAssumption
      DEF SaveFails, TypeOK, StepsOK, Steps, Request
  <2>6. CASE DownloadGet(r)
    BY <2>6, CargoAssumption DEF DownloadGet, TypeOK, StepsOK, Steps, Request
  <2> QED
    BY <1>5, <2>1, <2>2, <2>3, <2>4, <2>5, <2>6, <2>7 DEF Proceed
<1>6. ASSUME Detached PROVE TypeInv'
  BY <1>6 DEF Detached, TypeInv, TypeOK, StepsOK
<1>7. ASSUME Crash \/ PowerLoss PROVE TypeInv'
  <2>1. disk' \in [Keys -> PersistedRecord]
    BY <1>7 DEF Crash, PowerLoss, TypeInv, TypeOK
  <2>2. crates' \in [Keys -> CrateRecord]
    BY <1>7, <2>1, LoadType DEF Crash, PowerLoss, Restart
  <2>3. survivors' \in SUBSET [Keys -> PersistedRecord] /\ blobs' \in SUBSET Digests
    BY <1>7, <2>1 DEF Crash, PowerLoss, TypeInv, TypeOK
  <2>4. Restart
    BY <1>7 DEF Crash, PowerLoss
  <2>5. TypeOK'
    BY <2>1, <2>2, <2>3, <2>4 DEF Restart, TypeInv, TypeOK, Steps, Request
  <2>6. StepsOK'
    BY <2>4, CargoAssumption DEF Restart, StepsOK
  <2> QED
    BY <2>5, <2>6 DEF TypeInv
<1>8. ASSUME Corrupt PROVE TypeInv'
  <2>1. disk' \in [Keys -> PersistedRecord]
    <3>1. CASE disk' = [k \in Keys |-> NoRecord]
      BY <3>1 DEF PersistedRecord, NoRecord
    <3>2. ASSUME NEW k \in Keys, NEW e \in disk[k].entries,
                 disk' = [disk EXCEPT ![k].entries =
                            (@ \ {e}) \cup {[e EXCEPT !.cksum = NoDigest]}]
          PROVE  disk' \in [Keys -> PersistedRecord]
      <4>1. disk[k] \in PersistedRecord
        BY DEF TypeInv, TypeOK
      <4>2. [disk[k] EXCEPT !.entries =
               (@ \ {e}) \cup {[e EXCEPT !.cksum = NoDigest]}] \in PersistedRecord
        BY <4>1 DEF PersistedRecord
      <4> QED
        BY <3>2, <4>2 DEF TypeInv, TypeOK
    <3> QED
      BY <1>8, <3>1, <3>2 DEF Corrupt
  <2>2. save(load(disk')) \in [Keys -> PersistedRecord]
    BY <2>1, LoadType, SaveType
  <2>3. acked' \in [Keys -> SUBSET PersistedRecord]
    BY <1>8, <2>1, <2>2 DEF Corrupt, TypeInv, TypeOK
  <2> QED
    BY <1>8, <2>1, <2>3 DEF Corrupt, TypeInv, TypeOK, StepsOK
<1>9. CASE UNCHANGED vars
  BY <1>9 DEF vars, TypeInv, TypeOK, StepsOK
<1> QED
  BY <1>1, <1>2, <1>3, <1>4, <1>5, <1>6, <1>7, <1>8, <1>9 DEF Next

\* Every variable keeps its type, whatever faults happen.
THEOREM TypeCorrect == Spec => []TypeOK
<1>1. Spec => []TypeInv
  BY TypeInit, TypeStep, PTL DEF Spec
<1> QED
  BY <1>1, PTL DEF TypeInv

----------------------------------------------------------------------------
(* The index lines and the tarball map of a crate agree. *)

\* Publishing a new version keeps a record consistent.
LEMMA AddConsistent ==
  ASSUME NEW rec \in CrateRecord, Consistent(rec), NEW entry \in IndexEntry,
         \A e \in rec.entries : e.vers # entry.vers
  PROVE  Consistent(add_version(rec, entry))
<1> DEFINE new == add_version(rec, entry)
<1>1. /\ new.entries = rec.entries \cup {entry}
      /\ new.tarballs = [rec.tarballs EXCEPT ![entry.vers] = entry.cksum]
  BY DEF add_version, CrateRecord
<1>2. /\ rec.tarballs \in [Versions -> Digests \cup {NoDigest}]
      /\ rec.entries \subseteq IndexEntry
  BY DEF CrateRecord
<1>3. UniqueVersions(new.entries)
  BY <1>1 DEF UniqueVersions, Consistent
<1>4. \A e \in new.entries : new.tarballs[e.vers] = e.cksum
  BY <1>1, <1>2 DEF Consistent, IndexEntry
<1>5. \A v \in Versions :
        new.tarballs[v] = NoDigest <=> \A e \in new.entries : e.vers # v
  BY <1>1, <1>2, CargoAssumption DEF Consistent, IndexEntry
<1> HIDE DEF new
<1> QED
  BY <1>3, <1>4, <1>5 DEF Consistent, new

\* Rolling a publish back keeps a record consistent.
LEMMA RollbackConsistent ==
  ASSUME NEW rec \in CrateRecord, Consistent(rec), NEW entry \in rec.entries
  PROVE  Consistent(rollback_publish(rec, entry.vers, entry.cksum))
<1> DEFINE new == rollback_publish(rec, entry.vers, entry.cksum)
<1>1. /\ rec.tarballs \in [Versions -> Digests \cup {NoDigest}]
      /\ rec.entries \subseteq IndexEntry
  BY DEF CrateRecord
<1>2. /\ new.entries = {e \in rec.entries : e.vers # entry.vers}
      /\ new.tarballs = [rec.tarballs EXCEPT ![entry.vers] = NoDigest]
  BY <1>1 DEF rollback_publish, CrateRecord, Consistent
<1>3. UniqueVersions(new.entries)
  BY <1>2 DEF UniqueVersions, Consistent
<1>4. \A e \in new.entries : new.tarballs[e.vers] = e.cksum
  BY <1>1, <1>2 DEF Consistent, IndexEntry
<1>5. \A v \in Versions :
        new.tarballs[v] = NoDigest <=> \A e \in new.entries : e.vers # v
  BY <1>1, <1>2 DEF Consistent, IndexEntry
<1> HIDE DEF new
<1> QED
  BY <1>3, <1>4, <1>5 DEF Consistent, new

\* Yanking keeps a record consistent.
LEMMA FlagConsistent ==
  ASSUME NEW rec \in CrateRecord, Consistent(rec), NEW vers, NEW b \in BOOLEAN
  PROVE  Consistent(set_flag(rec, vers, b))
<1> DEFINE new == set_flag(rec, vers, b)
           line(e) == IF e.vers = vers THEN [e EXCEPT !.yanked = b] ELSE e
<1>1. rec.entries \subseteq IndexEntry
  BY DEF CrateRecord
<1>2. new.entries = {line(e) : e \in rec.entries} /\ new.tarballs = rec.tarballs
  BY DEF set_flag, CrateRecord
<1>3. \A e \in rec.entries : line(e).vers = e.vers /\ line(e).cksum = e.cksum
  BY <1>1 DEF IndexEntry
<1> HIDE DEF line, new
<1>4. UniqueVersions(new.entries)
  BY <1>2, <1>3 DEF UniqueVersions, Consistent
<1>5. \A e \in new.entries : new.tarballs[e.vers] = e.cksum
  BY <1>2, <1>3 DEF Consistent
<1>6. \A v \in Versions :
        new.tarballs[v] = NoDigest <=> \A e \in new.entries : e.vers # v
  BY <1>2, <1>3 DEF Consistent
<1> QED
  BY <1>4, <1>5, <1>6 DEF Consistent, new

\* Owners do not matter to the consistency of a record.
LEMMA OwnersConsistent ==
  ASSUME NEW rec \in CrateRecord, Consistent(rec), NEW new
  PROVE  Consistent([rec EXCEPT !.owners = new])
BY DEF Consistent, CrateRecord

\* A snapshot with one line per version loads as a consistent map, damaged
\* checksums or not.
LEMMA LoadConsistent ==
  ASSUME NEW snapshot \in [Keys -> PersistedRecord], NEW k \in Keys,
         UniqueVersions(snapshot[k].entries)
  PROVE  Consistent(load(snapshot)[k])
<1> DEFINE good == {e \in snapshot[k].entries : e.cksum \in Digests}
           rec == load(snapshot)[k]
<1>1. good \subseteq IndexEntry
  BY DEF PersistedRecord, IndexEntry
<1>2. CASE good = {}
  <2>1. rec = default
    BY <1>2 DEF load
  <2> QED
    BY <2>1 DEF default, NoTarballs, Consistent, UniqueVersions
<1>3. CASE good # {}
  <2>1. /\ rec.entries = good
        /\ rec.tarballs = [v \in Versions |->
                             IF \E e \in good : e.vers = v
                             THEN (CHOOSE e \in good : e.vers = v).cksum
                             ELSE NoDigest]
    BY <1>3 DEF load
  <2>2. UniqueVersions(good)
    BY DEF UniqueVersions
  <2>3. ASSUME NEW e \in good
        PROVE  rec.tarballs[e.vers] = e.cksum
    BY <1>1, <2>1, <2>2 DEF UniqueVersions, IndexEntry
  <2>4. ASSUME NEW v \in Versions
        PROVE  rec.tarballs[v] = NoDigest <=> \A e \in good : e.vers # v
    BY <2>1, <2>3, CargoAssumption
  <2> HIDE DEF good, rec
  <2> QED
    BY <2>1, <2>2, <2>3, <2>4 DEF Consistent, rec
<1> QED
  BY <1>2, <1>3

GoodLines(entries) ==
  /\ UniqueVersions(entries)
  /\ \A e, f \in entries : e.name = f.name

\* A publish past its checks: they still hold, or its line is in the map.
Pending(r) ==
  /\ pc[r] = "put" =>
       \A e \in crates[Key(r)].entries :
         e.vers # req[r].vers /\ e.name = req[r].name
  /\ pc[r] \in {"rename", "dirsync"} /\ req[r] \in PublishRequest =>
       Entry(req[r]) \in crates[Key(r)].entries

IndexInv ==
  /\ TypeInv
  /\ EntriesMatchTarballs
  /\ \A k \in Keys : GoodLines(crates[k].entries)
  /\ \A s \in survivors \cup {disk} : \A k \in Keys : GoodLines(s[k].entries)
  /\ \A r \in Requests : Pending(r)

\* undo keeps what IndexInv says of a record.
LEMMA UndoGood ==
  ASSUME NEW rec \in CrateRecord, Consistent(rec), GoodLines(rec.entries),
         NEW q \in PublishRequest \cup YankRequest \cup OwnersRequest,
         q \in PublishRequest => Entry(q) \in rec.entries
  PROVE  Consistent(undo(rec, q)) /\ GoodLines(undo(rec, q).entries)
<1>1. CASE q \in PublishRequest
  <2>1. undo(rec, q) = rollback_publish(rec, q.vers, q.digest)
    BY <1>1, KeyType DEF undo
  <2>2. Entry(q).vers = q.vers /\ Entry(q).cksum = q.digest
    BY DEF Entry
  <2>3. undo(rec, q).entries \subseteq rec.entries
    BY <2>1 DEF rollback_publish, CrateRecord
  <2> QED
    BY <1>1, <2>1, <2>2, <2>3, RollbackConsistent DEF GoodLines, UniqueVersions
<1>2. CASE q \in YankRequest
  <2>1. undo(rec, q) = set_flag(rec, q.vers, q.previous)
    BY <1>2, KeyType DEF undo
  <2>2. Consistent(undo(rec, q))
    BY <1>2, <2>1, FlagConsistent DEF YankRequest
  <2>3. \A e \in undo(rec, q).entries : \E f \in rec.entries : e.name = f.name
    BY <2>1 DEF set_flag, CrateRecord, IndexEntry
  <2> QED
    BY <2>2, <2>3 DEF GoodLines, Consistent
<1>3. CASE q \in OwnersRequest
  <2>1. undo(rec, q) = [rec EXCEPT !.owners = q.previous]
    BY <1>3, KeyType DEF undo
  <2> QED
    BY <2>1, OwnersConsistent DEF GoodLines, Consistent, CrateRecord
<1> QED
  BY <1>1, <1>2, <1>3

\* An empty index is consistent.
LEMMA IndexInit == Init => IndexInv
<1> SUFFICES ASSUME Init PROVE IndexInv
  OBVIOUS
<1>1. \A k \in Keys : Consistent(crates[k]) /\ GoodLines(crates[k].entries)
  BY DEF Init, default, NoTarballs, Consistent, UniqueVersions, GoodLines
<1>2. \A s \in survivors \cup {disk} : \A k \in Keys : GoodLines(s[k].entries)
  BY DEF Init, NoRecord, UniqueVersions, GoodLines
<1>3. \A r \in Requests : Pending(r)
  BY DEF Init, Pending
<1> QED
  BY <1>1, <1>2, <1>3, TypeInit DEF IndexInv, EntriesMatchTarballs

\* Publishes, roll-backs, yanks, reloads and damage to the snapshot keep every
\* record consistent.
LEMMA IndexStep == IndexInv /\ [Next]_vars => IndexInv'
<1> SUFFICES ASSUME IndexInv, [Next]_vars PROVE IndexInv'
  OBVIOUS
<1>0. TypeInv'
  BY TypeStep DEF IndexInv
<1> USE DEF durableVars, historyVars
<1> DEFINE Frame == /\ UNCHANGED <<crates, disk, survivors>>
                    /\ \A r \in Requests : Pending(r)'
\* Of a task that is not the writer, Pending says nothing.
<1>a. \A r \in Requests : writer # r => Pending(r)
  BY DEF IndexInv, TypeInv, StepsOK, Pending
<1>b. \A r \in Requests : writer' # r => Pending(r)'
  BY <1>0 DEF TypeInv, StepsOK, Pending
<1>c. Frame => IndexInv'
  BY <1>0 DEF IndexInv, EntriesMatchTarballs
<1>1. ASSUME NEW r \in Requests,
             \/ Arrive(r) \/ Download(r) \/ Disconnect(r) \/ PublishReject(r)
             \/ YankNotFound(r) \/ OwnersNotFound(r) \/ PublishPutFails(r)
             \/ PublishDelete(r) \/ DownloadGet(r)
      PROVE  IndexInv'
  <2>1. UNCHANGED <<crates, disk, survivors>>
    BY <1>1, Zenon DEF Arrive, Download, Disconnect, PublishReject, YankNotFound,
         OwnersNotFound, PublishPutFails, PublishDelete, DownloadGet
  <2>2. pc'[r] \in {"idle", "lock", "get"}
    BY <1>1, Zenon DEF Arrive, Download, Disconnect, PublishReject, YankNotFound,
         OwnersNotFound, PublishPutFails, PublishDelete, DownloadGet, Return,
         IndexInv, TypeInv, TypeOK
  <2>3. \A s \in Requests : s # r => pc'[s] = pc[s] /\ req'[s] = req[s]
    BY <1>1 DEF Arrive, Download, Disconnect, PublishReject, YankNotFound,
         OwnersNotFound, PublishPutFails, PublishDelete, DownloadGet, Return,
         IndexInv, TypeInv, TypeOK
  <2>4. ASSUME NEW s \in Requests PROVE Pending(s)'
    BY <2>1, <2>2, <2>3 DEF IndexInv, Pending, Key
  <2> QED
    BY <2>1, <2>4, <1>c, Zenon
<1>2. ASSUME NEW r \in Requests, PublishAdmit(r) PROVE IndexInv'
  <2>1. Pending(r)'
    BY <1>2 DEF PublishAdmit, NameConflict, DuplicateVersion, Pending, Key,
                IndexInv, TypeInv, TypeOK
  <2> QED
    BY <1>2, <2>1, <1>b, <1>c, Zenon DEF PublishAdmit
<1>3. ASSUME NEW r \in Requests, SetYanked(r) PROVE IndexInv'
  <2>1. req[r] \in YankRequest /\ Key(r) \in Keys
    BY <1>3, KeyType, Zenon DEF SetYanked, GetsLock, Key, IndexInv, TypeInv, StepsOK
  <2> DEFINE rec == crates[Key(r)]
             new == set_flag(rec, req[r].vers, req[r].yanked)
  <2>2. rec \in CrateRecord /\ Consistent(rec) /\ GoodLines(rec.entries)
    BY <2>1, Zenon DEF IndexInv, TypeInv, TypeOK, EntriesMatchTarballs
  <2>3. Consistent(new)
    BY <2>1, <2>2, FlagConsistent DEF YankRequest
  <2>4. \A e \in new.entries : \E f \in rec.entries : e.name = f.name
    BY <2>2, Zenon DEF set_flag, CrateRecord, IndexEntry
  <2>5. GoodLines(new.entries)
    BY <2>2, <2>3, <2>4 DEF GoodLines, Consistent
  <2>6. crates' = [crates EXCEPT ![Key(r)] = new]
    BY <1>3 DEF SetYanked
  <2>7. req'[r] \notin PublishRequest /\ pc'[r] = "rename"
    BY <1>3, <2>1
    DEF SetYanked, IndexInv, TypeInv, TypeOK, YankRequest, PublishRequest
  <2>8. \A s \in Requests : Pending(s)'
    BY <1>3, <2>7, <1>b, Zenon DEF SetYanked, Pending
  <2> HIDE DEF rec, new
  <2>9. \A k \in Keys : Consistent(crates'[k]) /\ GoodLines(crates'[k].entries)
    BY <2>1, <2>3, <2>5, <2>6
    DEF IndexInv, TypeInv, TypeOK, EntriesMatchTarballs
  <2> QED
    BY <1>0, <1>3, <2>8, <2>9 DEF SetYanked, IndexInv, EntriesMatchTarballs
<1>4. ASSUME NEW r \in Requests, MutateOwners(r) PROVE IndexInv'
  <2>1. req[r] \in OwnersRequest /\ Key(r) \in Keys
    BY <1>4, KeyType DEF MutateOwners, GetsLock, Key, IndexInv, TypeInv, StepsOK
  <2>2. PICK new : crates' = [crates EXCEPT ![Key(r)].owners = new]
    BY <1>4, Zenon DEF MutateOwners
  <2>3. req'[r] \notin PublishRequest /\ pc'[r] = "rename"
    BY <1>4, <2>1
    DEF MutateOwners, IndexInv, TypeInv, TypeOK, OwnersRequest, PublishRequest
  <2>4. \A s \in Requests : Pending(s)'
    BY <1>4, <2>3, <1>b DEF MutateOwners, Pending
  <2>5. \A k \in Keys : Consistent(crates'[k]) /\ GoodLines(crates'[k].entries)
    <3> SUFFICES ASSUME NEW k \in Keys
                 PROVE  Consistent(crates'[k]) /\ GoodLines(crates'[k].entries)
      OBVIOUS
    <3> DEFINE upd == [crates[k] EXCEPT !.owners = new]
    <3>1. /\ crates[k] \in CrateRecord
          /\ Consistent(crates[k]) /\ GoodLines(crates[k].entries)
      BY DEF IndexInv, TypeInv, TypeOK, EntriesMatchTarballs
    <3>2. crates'[k] = crates[k] \/ crates'[k] = upd
      BY <2>2 DEF IndexInv, TypeInv, TypeOK
    <3>3. Consistent(upd)
      BY <3>1, OwnersConsistent
    <3>4. upd.entries = crates[k].entries
      BY <3>1 DEF CrateRecord
    <3> HIDE DEF upd
    <3> QED
      BY <3>1, <3>2, <3>3, <3>4
  <2> QED
    BY <1>0, <1>4, <2>4, <2>5 DEF MutateOwners, IndexInv, EntriesMatchTarballs
<1>5. ASSUME NEW r \in Requests, PublishPut(r) PROVE IndexInv'
  <2>1. req[r] \in PublishRequest /\ Key(r) \in Keys /\ writer = r
    BY <1>5, KeyType, Zenon DEF PublishPut, Key, IndexInv, TypeInv, StepsOK
  <2> DEFINE rec == crates[Key(r)]
             entry == Entry(req[r])
             new == add_version(rec, entry)
  <2>2. rec \in CrateRecord /\ Consistent(rec) /\ GoodLines(rec.entries)
    BY <2>1 DEF IndexInv, TypeInv, TypeOK, EntriesMatchTarballs
  <2>3. /\ entry \in IndexEntry
        /\ \A e \in rec.entries : e.vers # entry.vers /\ e.name = entry.name
    BY <1>5, <2>1
    DEF PublishPut, IndexInv, Pending, Entry, IndexEntry, PublishRequest
  <2>4. new.entries = rec.entries \cup {entry}
    BY <2>2 DEF add_version, CrateRecord
  <2> HIDE DEF entry
  <2>5. Consistent(new)
    BY <2>2, <2>3, AddConsistent, Zenon
  <2>6. GoodLines(new.entries)
    BY <2>2, <2>3, <2>4, <2>5 DEF GoodLines, Consistent
  <2>7. crates' = [crates EXCEPT ![Key(r)] = new]
    BY <1>5 DEF PublishPut, entry
  <2> HIDE DEF rec, new
  <2>8. \A k \in Keys : Consistent(crates'[k]) /\ GoodLines(crates'[k].entries)
    BY <2>1, <2>5, <2>6, <2>7
    DEF IndexInv, TypeInv, TypeOK, EntriesMatchTarballs
  <2>9. Pending(r)'
    <3>1. crates'[Key(r)] = new
      BY <2>1, <2>7 DEF IndexInv, TypeInv, TypeOK
    <3>2. Entry(req[r]) \in crates'[Key(r)].entries
      BY <2>4, <3>1 DEF entry
    <3>3. pc'[r] = "rename" /\ req' = req
      BY <1>5 DEF PublishPut, IndexInv, TypeInv, TypeOK
    <3> QED
      BY <3>2, <3>3 DEF Pending, Key
  <2>10. \A s \in Requests : Pending(s)'
    BY <1>5, <2>1, <2>9, <1>b DEF PublishPut
  <2> QED
    BY <1>0, <1>5, <2>8, <2>10 DEF PublishPut, IndexInv, EntriesMatchTarballs
<1>6. ASSUME NEW r \in Requests, SaveRename(r) PROVE IndexInv'
  <2>1. writer = r /\ writer' = r
    BY <1>6, Zenon DEF SaveRename, IndexInv, TypeInv, StepsOK
  <2>2. Pending(r)'
    BY <1>6, Zenon DEF SaveRename, IndexInv, TypeInv, TypeOK, Pending, Key
  <2>3. \A k \in Keys : disk'[k].entries = crates[k].entries
    BY <1>6 DEF SaveRename, save
  <2>4. \A s \in survivors' \cup {disk'} : \A k \in Keys : GoodLines(s[k].entries)
    BY <1>6, <2>3 DEF SaveRename, IndexInv
  <2> QED
    BY <1>0, <1>6, <1>b, <2>1, <2>2, <2>4 DEF SaveRename, IndexInv, EntriesMatchTarballs
<1>7. ASSUME NEW r \in Requests, SaveDirSync(r) PROVE IndexInv'
  <2>1. writer' = NoWriter /\ survivors' \subseteq survivors \cup {disk}
    BY <1>7 DEF SaveDirSync
  <2>2. \A s \in Requests : Pending(s)'
    BY <2>1, <1>b, CargoAssumption
  <2> QED
    BY <1>0, <1>7, <2>1, <2>2 DEF SaveDirSync, IndexInv, EntriesMatchTarballs
<1>8. ASSUME NEW r \in Requests, SaveFails(r) PROVE IndexInv'
  <2>1. /\ req[r] \in PublishRequest \cup YankRequest \cup OwnersRequest
        /\ Key(r) \in Keys /\ writer = r
        /\ crates' = [crates EXCEPT ![Key(r)] = undo(@, req[r])]
    BY <1>8, KeyType, Zenon DEF SaveFails, Key, IndexInv, TypeInv, StepsOK
  <2> DEFINE rec == crates[Key(r)]
  <2>2. rec \in CrateRecord /\ Consistent(rec) /\ GoodLines(rec.entries)
    BY <2>1 DEF IndexInv, TypeInv, TypeOK, EntriesMatchTarballs
  <2>3. req[r] \in PublishRequest => Entry(req[r]) \in rec.entries
    BY <1>8 DEF SaveFails, IndexInv, Pending
  <2>4. Consistent(undo(rec, req[r])) /\ GoodLines(undo(rec, req[r]).entries)
    BY <2>1, <2>2, <2>3, UndoGood, Zenon
  <2>5. \A k \in Keys : Consistent(crates'[k]) /\ GoodLines(crates'[k].entries)
    BY <2>1, <2>4, Zenon DEF IndexInv, TypeInv, TypeOK, EntriesMatchTarballs
  <2>6. pc'[r] \in {"delete", "idle"}
    BY <1>8 DEF SaveFails, Return, IndexInv, TypeInv, TypeOK
  <2>7. writer' \in {r, NoWriter}
    BY <1>8, <2>1 DEF SaveFails
  <2>8. \A s \in Requests : Pending(s)'
    BY <2>6, <2>7, <1>b, CargoAssumption, Zenon DEF Pending
  <2> QED
    BY <1>0, <1>8, <2>5, <2>8, Zenon DEF SaveFails, IndexInv, EntriesMatchTarballs
<1>9. ASSUME Detached PROVE IndexInv'
  BY <1>9, <1>c, Zenon DEF Detached, IndexInv, Pending, Key
<1>10. ASSUME Crash \/ PowerLoss PROVE IndexInv'
  <2>1. /\ disk' \in survivors \cup {disk}
        /\ survivors' \subseteq survivors \cup {disk'}
        /\ Restart
    BY <1>10 DEF Crash, PowerLoss
  <2>2. \A s \in survivors' \cup {disk'} : \A k \in Keys : GoodLines(s[k].entries)
    BY <2>1 DEF IndexInv
  <2>3. disk' \in [Keys -> PersistedRecord]
    BY <1>0 DEF TypeInv, TypeOK
  <2>4. \A k \in Keys : Consistent(crates'[k])
    BY <2>1, <2>2, <2>3, LoadConsistent DEF Restart, GoodLines
  <2>5. \A k \in Keys : crates'[k].entries \subseteq disk'[k].entries
    BY <2>1 DEF Restart, load, default
  <2>6. \A k \in Keys : GoodLines(crates'[k].entries)
    BY <2>2, <2>5 DEF GoodLines, UniqueVersions
  <2>7. \A s \in Requests : Pending(s)'
    BY <2>1, <1>b, CargoAssumption DEF Restart
  <2> QED
    BY <1>0, <2>2, <2>4, <2>6, <2>7 DEF IndexInv, EntriesMatchTarballs
<1>11. ASSUME Corrupt PROVE IndexInv'
  <2>1. \A k \in Keys : GoodLines(disk'[k].entries)
    <3>1. CASE disk' = [k \in Keys |-> NoRecord]
      BY <3>1 DEF NoRecord, GoodLines, UniqueVersions
    <3>2. ASSUME NEW k \in Keys, NEW e \in disk[k].entries,
                 disk' = [disk EXCEPT ![k].entries =
                            (@ \ {e}) \cup {[e EXCEPT !.cksum = NoDigest]}]
          PROVE  \A j \in Keys : GoodLines(disk'[j].entries)
      <4> DEFINE bad == [e EXCEPT !.cksum = NoDigest]
      <4>1. GoodLines(disk[k].entries) /\ disk[k] \in PersistedRecord
        BY DEF IndexInv, TypeInv, TypeOK
      <4>2. bad.vers = e.vers /\ bad.name = e.name
        BY <4>1 DEF PersistedRecord
      <4>3. disk'[k].entries = (disk[k].entries \ {e}) \cup {bad}
        BY <3>2, <4>1 DEF IndexInv, TypeInv, TypeOK, PersistedRecord
      <4> HIDE DEF bad
      <4>4. GoodLines(disk'[k].entries)
        BY <4>1, <4>2, <4>3 DEF GoodLines, UniqueVersions
      <4>5. \A j \in Keys : j # k => disk'[j] = disk[j]
        BY <3>2 DEF IndexInv, TypeInv, TypeOK
      <4> QED
        BY <4>4, <4>5 DEF IndexInv
    <3> QED
      BY <1>11, <3>1, <3>2 DEF Corrupt
  <2>2. \A s \in Requests : Pending(s)'
    BY <1>11, Zenon DEF Corrupt, IndexInv, Pending, Key
  <2> QED
    BY <1>0, <1>11, <2>1, <2>2 DEF Corrupt, IndexInv, EntriesMatchTarballs
<1>12. CASE UNCHANGED vars
  BY <1>12, <1>c DEF vars, IndexInv, Pending, Key
<1> QED
  BY <1>1, <1>2, <1>3, <1>4, <1>5, <1>6, <1>7, <1>8, <1>9, <1>10, <1>11, <1>12
  DEF Next, Acquire, Proceed

\* Every crate has one line per version, whose checksum is the tarball that a
\* download serves, whatever faults happen (handle_publish, load).
THEOREM IndexConsistent == Spec => []EntriesMatchTarballs
<1>1. Spec => []IndexInv
  BY IndexInit, IndexStep, PTL DEF Spec
<1> QED
  BY <1>1, PTL DEF IndexInv

\* Two spellings of one name never share an index file (NameConflict).
THEOREM OneSpelling == Spec => []OneDisplayName
<1>1. Spec => []IndexInv
  BY IndexInit, IndexStep, PTL DEF Spec
<1>2. IndexInv => OneDisplayName
  BY DEF IndexInv, OneDisplayName, GoodLines
<1> QED
  BY <1>1, <1>2, PTL

----------------------------------------------------------------------------
(* Failed and rejected publishes leave no blob behind. *)

\* Until something gets in the way, every blob belongs to a version, or to the
\* failed publish that is about to delete it.
OrphanInv ==
  /\ IndexInv
  /\ ~faulted =>
       /\ detached = {}
       /\ \A d \in blobs :
            \/ digest_referenced_in(crates, d)
            \/ \E r \in Requests : pc[r] = "delete" /\ req[r].digest = d

\* What a crate refers to, it still refers to when its tarballs are unchanged.
LEMMA SameTarballs ==
  ASSUME NEW cs, NEW ds, \A k \in Keys : ds[k].tarballs = cs[k].tarballs, NEW d
  PROVE  digest_referenced_in(ds, d) <=> digest_referenced_in(cs, d)
BY Zenon DEF digest_referenced_in

\* A publish of a new version takes no digest away and brings its own.
LEMMA AddReferences ==
  ASSUME NEW cs \in [Keys -> CrateRecord], NEW k \in Keys, Consistent(cs[k]),
         NEW q \in PublishRequest, \A e \in cs[k].entries : e.vers # q.vers,
         NEW d \in Digests, d = q.digest \/ digest_referenced_in(cs, d)
  PROVE  digest_referenced_in([cs EXCEPT ![k] = add_version(@, Entry(q))], d)
<1> DEFINE new == add_version(cs[k], Entry(q))
           ds == [cs EXCEPT ![k] = new]
<1>1. q.vers \in Versions /\ cs[k].tarballs[q.vers] = NoDigest
  BY DEF Consistent, PublishRequest
<1>2. new.tarballs = [cs[k].tarballs EXCEPT ![q.vers] = q.digest]
  BY DEF add_version, Entry, CrateRecord
<1>3. cs[k].tarballs \in [Versions -> Digests \cup {NoDigest}]
  BY DEF CrateRecord
<1> HIDE DEF new
<1>4. ds[k] = new /\ \A j \in Keys : j # k => ds[j] = cs[j]
  OBVIOUS
<1>5. CASE d = q.digest
  <2>1. ds[k].tarballs[q.vers] = d
    BY <1>1, <1>2, <1>3, <1>4, <1>5, Zenon
  <2> QED
    BY <1>1, <2>1 DEF digest_referenced_in, new
<1>6. CASE digest_referenced_in(cs, d)
  <2>1. PICK j \in Keys, v \in Versions : cs[j].tarballs[v] = d
    BY <1>6 DEF digest_referenced_in
  <2>2. CASE j = k
    <3>1. v # q.vers
      BY <1>1, <2>1, <2>2, CargoAssumption
    <3>2. ds[k].tarballs[v] = d
      BY <1>2, <1>3, <1>4, <2>1, <2>2, <3>1, Zenon
    <3> QED
      BY <3>2 DEF digest_referenced_in, new
  <2>3. CASE j # k
    BY <1>4, <2>1, <2>3 DEF digest_referenced_in, new
  <2> QED
    BY <2>2, <2>3
<1> QED
  BY <1>5, <1>6

\* An undo takes away no digest but the one of its publish.
LEMMA UndoReferences ==
  ASSUME NEW cs \in [Keys -> CrateRecord], NEW k \in Keys,
         NEW q \in PublishRequest \cup YankRequest \cup OwnersRequest,
         NEW d, digest_referenced_in(cs, d),
         q \in PublishRequest => d # q.digest
  PROVE  digest_referenced_in([cs EXCEPT ![k] = undo(@, q)], d)
<1> DEFINE new == undo(cs[k], q)
           ds == [cs EXCEPT ![k] = new]
<1>1. cs[k] \in CrateRecord
  OBVIOUS
<1>2. ASSUME NEW v \in Versions, cs[k].tarballs[v] = d
      PROVE  new.tarballs[v] = d
  <2>1. CASE q \in PublishRequest
    <3>1. new = rollback_publish(cs[k], q.vers, q.digest)
      BY <2>1, KeyType DEF undo
    <3> QED
      BY <1>1, <1>2, <2>1, <3>1 DEF rollback_publish, CrateRecord
  <2>2. CASE q \in YankRequest
    <3>1. new = set_flag(cs[k], q.vers, q.previous)
      BY <2>2, KeyType DEF undo
    <3> QED
      BY <1>1, <1>2, <3>1 DEF set_flag, CrateRecord
  <2>3. CASE q \in OwnersRequest
    <3>1. new = [cs[k] EXCEPT !.owners = q.previous]
      BY <2>3, KeyType DEF undo
    <3> QED
      BY <1>1, <1>2, <3>1 DEF CrateRecord
  <2> QED
    BY <2>1, <2>2, <2>3
<1> HIDE DEF new
<1>3. ds[k] = new /\ \A j \in Keys : j # k => ds[j] = cs[j]
  OBVIOUS
<1>4. PICK j \in Keys, v \in Versions : cs[j].tarballs[v] = d
  BY DEF digest_referenced_in
<1>5. ds[j].tarballs[v] = d
  BY <1>2, <1>3, <1>4
<1> QED
  BY <1>4, <1>5 DEF digest_referenced_in, new

\* The empty store has no blob to lose track of.
LEMMA OrphanInit == Init => OrphanInv
BY IndexInit DEF Init, OrphanInv

\* A blob gets a version when it is put, or a task that deletes it, or something
\* got in the way.
LEMMA OrphanStep == OrphanInv /\ [Next]_vars => OrphanInv'
<1> SUFFICES ASSUME OrphanInv, [Next]_vars, ~faulted' PROVE OrphanInv'
  BY IndexStep, Zenon DEF OrphanInv
<1>0. IndexInv /\ IndexInv'
  BY IndexStep DEF OrphanInv
<1>t. /\ TypeOK /\ TypeOK' /\ StepsOK
      /\ \A k \in Keys : Consistent(crates[k])
  BY <1>0, Zenon DEF IndexInv, TypeInv, EntriesMatchTarballs
<1> USE DEF durableVars, historyVars
<1>1. ASSUME NEW r \in Requests, pc[r] # "delete", UNCHANGED <<blobs, detached, faulted>>,
             \A k \in Keys : crates'[k].tarballs = crates[k].tarballs,
             \A s \in Requests : s # r => pc'[s] = pc[s] /\ req'[s] = req[s]
      PROVE  OrphanInv'
  <2>1. ASSUME NEW d \in blobs, digest_referenced_in(crates, d)
        PROVE  digest_referenced_in(crates', d)
    BY <1>1, <2>1, SameTarballs
  <2>2. ASSUME NEW s \in Requests, pc[s] = "delete"
        PROVE  pc'[s] = "delete" /\ req'[s] = req[s]
    BY <1>1, <2>2, Zenon
  <2>3. detached' = {} /\ \A d \in blobs' :
            \/ digest_referenced_in(crates', d)
            \/ \E s \in Requests : pc'[s] = "delete" /\ req'[s].digest = d
    BY <1>1, <2>1, <2>2 DEF OrphanInv
  <2> QED
    BY <1>0, <2>3, Zenon DEF OrphanInv, digest_referenced_in
<1>2. ASSUME NEW r \in Requests,
             \/ Arrive(r) \/ Download(r) \/ PublishReject(r)
             \/ YankNotFound(r) \/ OwnersNotFound(r) \/ PublishPutFails(r)
             \/ DownloadGet(r) \/ PublishAdmit(r)
             \/ SaveRename(r) \/ SaveDirSync(r)
      PROVE  OrphanInv'
  <2>1. pc[r] # "delete" /\ UNCHANGED <<crates, blobs, detached, faulted>>
    BY <1>2, Zenon DEF Arrive, Download, PublishReject, YankNotFound, OwnersNotFound,
         PublishPutFails, DownloadGet, PublishAdmit, SaveRename, SaveDirSync, GetsLock
  <2>2. \A s \in Requests : s # r => pc'[s] = pc[s] /\ req'[s] = req[s]
    BY <1>2, <1>t, Zenon DEF Arrive, Download, PublishReject, YankNotFound, OwnersNotFound,
         PublishPutFails, DownloadGet, PublishAdmit, SaveRename, SaveDirSync, Return, TypeOK
  <2> QED
    BY <1>1, <2>1, <2>2
<1>3. ASSUME NEW r \in Requests, SetYanked(r) \/ MutateOwners(r) PROVE OrphanInv'
  <2>1. /\ pc[r] # "delete" /\ UNCHANGED <<blobs, detached, faulted>>
        /\ \A s \in Requests : s # r => pc'[s] = pc[s] /\ req'[s] = req[s]
    BY <1>3, <1>t DEF SetYanked, MutateOwners, GetsLock, TypeOK
  <2>2. ASSUME NEW k \in Keys PROVE crates'[k].tarballs = crates[k].tarballs
    <3>1. crates[k] \in CrateRecord /\ crates \in [Keys -> CrateRecord]
      BY <1>t DEF TypeOK
    <3>2. CASE SetYanked(r)
      BY <3>1, <3>2 DEF SetYanked, set_flag, CrateRecord
    <3>3. CASE MutateOwners(r)
      <4>1. PICK new : crates' = [crates EXCEPT ![Key(r)].owners = new]
        BY <3>3, Zenon DEF MutateOwners
      <4> QED
        BY <3>1, <4>1 DEF CrateRecord
    <3> QED
      BY <1>3, <3>2, <3>3
  <2> QED
    BY <1>1, <2>1, <2>2
<1>4. ASSUME NEW r \in Requests, PublishPut(r) PROVE OrphanInv'
  <2>1. req[r] \in PublishRequest /\ Key(r) \in Keys
    BY <1>4, <1>t, KeyType, Zenon DEF PublishPut, Key, StepsOK
  <2>2. \A e \in crates[Key(r)].entries : e.vers # req[r].vers
    BY <1>0, <1>4, Zenon DEF PublishPut, IndexInv, Pending
  <2>3. /\ crates' = [crates EXCEPT ![Key(r)] = add_version(@, Entry(req[r]))]
        /\ blobs' = blobs \cup {req[r].digest} /\ UNCHANGED <<detached, faulted, req>>
        /\ pc' = [pc EXCEPT ![r] = "rename"] /\ pc[r] # "delete"
    BY <1>4 DEF PublishPut
  <2>4. crates \in [Keys -> CrateRecord] /\ blobs' \subseteq Digests
    BY <1>t DEF TypeOK
  <2>5. ASSUME NEW d \in blobs', d = req[r].digest \/ digest_referenced_in(crates, d)
        PROVE  digest_referenced_in(crates', d)
    BY <1>t, <2>1, <2>2, <2>3, <2>4, <2>5, AddReferences, Zenon
  <2>6. ASSUME NEW d \in blobs'
        PROVE  \/ digest_referenced_in(crates', d)
               \/ \E s \in Requests : pc'[s] = "delete" /\ req'[s].digest = d
    BY <1>t, <2>3, <2>5, Zenon DEF OrphanInv, TypeOK
  <2> QED
    BY <1>0, <2>3, <2>6, Zenon DEF OrphanInv, digest_referenced_in
<1>5. ASSUME NEW r \in Requests, SaveFails(r) PROVE OrphanInv'
  <2>1. /\ req[r] \in PublishRequest \cup YankRequest \cup OwnersRequest
        /\ Key(r) \in Keys
    BY <1>5, <1>t, KeyType DEF SaveFails, Key, StepsOK
  <2>2. /\ crates' = [crates EXCEPT ![Key(r)] = undo(@, req[r])]
        /\ UNCHANGED <<blobs, detached, faulted>> /\ pc[r] # "delete"
        /\ \A s \in Requests : s # r => pc'[s] = pc[s] /\ req'[s] = req[s]
    BY <1>5, <1>t, Zenon DEF SaveFails, Return, TypeOK
  <2>3. ASSUME req[r] \in PublishRequest, ~digest_referenced_in(crates', req[r].digest)
        PROVE  pc'[r] = "delete" /\ req'[r] = req[r]
    BY <1>5, <1>t, <2>3, KeyType DEF SaveFails, TypeOK
  <2>4. crates \in [Keys -> CrateRecord]
    BY <1>t DEF TypeOK
  <2>5. ASSUME NEW d, digest_referenced_in(crates, d),
               req[r] \in PublishRequest => d # req[r].digest
        PROVE  digest_referenced_in(crates', d)
    BY <2>1, <2>2, <2>4, <2>5, UndoReferences, Zenon
  <2>6. ASSUME NEW d \in blobs'
        PROVE  \/ digest_referenced_in(crates', d)
               \/ \E s \in Requests : pc'[s] = "delete" /\ req'[s].digest = d
    BY <2>2, <2>3, <2>5, Zenon DEF OrphanInv
  <2> QED
    BY <1>0, <2>2, <2>6, Zenon DEF OrphanInv, digest_referenced_in
<1>6. ASSUME NEW r \in Requests, PublishDelete(r) PROVE OrphanInv'
  <2>1. /\ blobs' = blobs \ {req[r].digest} /\ UNCHANGED <<crates, detached, faulted>>
        /\ \A s \in Requests : s # r => pc'[s] = pc[s] /\ req'[s] = req[s]
    BY <1>6, <1>t DEF PublishDelete, Return, TypeOK
  <2>2. ASSUME NEW d \in blobs'
        PROVE  \/ digest_referenced_in(crates', d)
               \/ \E s \in Requests : pc'[s] = "delete" /\ req'[s].digest = d
    BY <2>1 DEF OrphanInv
  <2> QED
    BY <1>0, <2>1, <2>2 DEF OrphanInv, digest_referenced_in
<1>7. ASSUME NEW r \in Requests, Disconnect(r) PROVE OrphanInv'
  <2>1. pc[r] \notin {"put", "delete"} /\ ~faulted
    BY <1>7, Zenon DEF Disconnect
  <2>2. UNCHANGED <<crates, blobs, detached, faulted>>
    BY <1>7, <1>t, <2>1, Zenon DEF Disconnect, TypeOK
  <2>3. \A s \in Requests : s # r => pc'[s] = pc[s] /\ req'[s] = req[s]
    BY <1>7, <1>t DEF Disconnect, Return, TypeOK
  <2> QED
    BY <1>1, <2>1, <2>2, <2>3
<1>8. ~Detached
  BY DEF Detached, OrphanInv
<1>9. ~Crash /\ ~PowerLoss /\ ~Corrupt
  BY DEF Crash, PowerLoss, Restart, Corrupt
<1>10. CASE UNCHANGED vars
  BY <1>0, <1>10 DEF vars, OrphanInv, digest_referenced_in
<1> QED
  BY <1>2, <1>3, <1>4, <1>5, <1>6, <1>7, <1>8, <1>9, <1>10, Zenon
  DEF Next, Acquire, Proceed

\* Rejected publishes never store their tarball and failed ones remove it,
\* unless another version shares it, whichever handlers interleave and
\* whatever save returns (handle_publish).
THEOREM NoBlobLeaks == Spec => []NoOrphanBlob
<1>1. OrphanInv => NoOrphanBlob
  BY CargoAssumption DEF OrphanInv, NoOrphanBlob, IndexInv, TypeInv, StepsOK
<1> QED
  BY <1>1, OrphanInit, OrphanStep, PTL DEF Spec

=============================================================================
