--------------------------- MODULE CargoRegistry ---------------------------
(***************************************************************************)
(* The cargo registry server (crate ferro-cargo-registry-server): the      *)
(* index map behind its tokio RwLock, the durable snapshot                 *)
(* index-state.json, and the content-addressed store of tarballs.          *)
(*                                                                         *)
(* A request is a task.  It can lose the processor only at an `.await`,    *)
(* so an action runs a handler from one await to the next, except that     *)
(* the file operations of persist::save are steps of their own: no other   *)
(* handler can run between them (the write guard is held) but the process  *)
(* can die there.  Read guards are never held over an await, so `writer`   *)
(* alone is the lock.                                                      *)
(*                                                                         *)
(* A digest stands for the bytes it names.  A record whose three fields    *)
(* are empty stands for a key that the BTreeMap does not hold: no handler  *)
(* leaves such a record in the map.                                        *)
(***************************************************************************)
EXTENDS Naturals, FiniteSets

CONSTANTS
  Requests,        \* handler tasks that can be in flight together
  Names,           \* crate names as clients spell them
  Keys,            \* canonical names
  canonical_name,  \* Names -> Keys: lower case, '-' folded to '_'
  Versions,
  Digests,
  Logins,
  Ops,             \* bound: the requests that clients make
  MaxOwnerId,      \* bound on the owner ids that are handed out
  MaxSnapshots,    \* bound on the snapshots that no directory fsync settled
  Faults,          \* what can go wrong besides a process crash, see below
  NoDigest,        \* no tarball; also a checksum that parses as no digest
  NoWriter

(***************************************************************************)
(* dirsync_error:        fsync of the data directory, or the open before   *)
(*                       it, may fail                                      *)
(* dirsync_unsupported:  it returns InvalidInput, which is tolerated       *)
(* disconnect:           clients hang up and hyper drops their handler     *)
(* power_loss:           the host may lose power, not only the process     *)
(* corruption:           index-state.json is damaged on disk               *)
(***************************************************************************)
ASSUME CargoAssumption ==
  /\ canonical_name \in [Names -> Keys]
  /\ NoDigest \notin Digests
  /\ NoWriter \notin Requests
  /\ Ops \subseteq {"publish", "yank", "owners", "download"}
  /\ MaxOwnerId \in Nat
  /\ MaxSnapshots \in Nat
  /\ Faults \subseteq {"dirsync_error", "dirsync_unsupported", "disconnect",
                       "power_loss", "corruption"}

VARIABLES
  crates,    \* CargoState.crates: key -> CrateRecord
  writer,    \* the task holding the write guard of `crates`
  blobs,     \* digests whose file is in the blob store
  disk,      \* index-state.json as a restarted process would read it
  survivors, \* the snapshots one of which a power loss would leave
  pc,        \* where each task is suspended
  req,       \* the arguments and locals of each task
  detached,  \* file operations of dropped tasks, still queued in tokio
  acked,     \* history: the forms a client may expect of each crate: the
             \* last acknowledged one and those saved for requests since
  faulted    \* history: a fault has happened that may orphan a blob

vars == <<crates, writer, blobs, disk, survivors, pc, req, detached, acked,
          faulted>>

IndexEntry == [name: Names, vers: Versions, cksum: Digests, yanked: BOOLEAN]
Owner == [id: 1..MaxOwnerId, login: Logins]
CrateRecord == [entries: SUBSET IndexEntry,
                tarballs: [Versions -> Digests \cup {NoDigest}],
                owners: SUBSET Owner]
PersistedRecord ==
  [entries: SUBSET [name: Names, vers: Versions,
                    cksum: Digests \cup {NoDigest}, yanked: BOOLEAN],
   owners: SUBSET Owner]

NoTarballs == [v \in Versions |-> NoDigest]
default == [entries |-> {}, tarballs |-> NoTarballs, owners |-> {}]
NoRecord == [entries |-> {}, owners |-> {}]

NoRequest == [op |-> "none"]
PublishRequest == [op: {"publish"}, name: Names, vers: Versions,
                   digest: Digests]
YankRequest == [op: {"yank"}, name: Names, vers: Versions, yanked: BOOLEAN,
                previous: BOOLEAN]
OwnersRequest == [op: {"owners"}, name: Names, logins: SUBSET Logins,
                  remove: BOOLEAN, previous: SUBSET Owner]
DownloadRequest == [op: {"download"}, digest: Digests]
Request == PublishRequest \cup YankRequest \cup OwnersRequest
             \cup DownloadRequest \cup {NoRequest}

(***************************************************************************)
(* `lock`: awaiting the write guard.  `put`, `delete`, `get`: awaiting the *)
(* blob store.  `rename`, `dirsync`: inside persist::save.                 *)
(***************************************************************************)
Steps == {"idle", "lock", "put", "rename", "dirsync", "delete", "get"}

Key(r) == canonical_name[req[r].name]

----------------------------------------------------------------------------
(* persist.rs *)

\* save: the snapshot leaves the tarball map out.
save(cs) ==
  [k \in Keys |-> [entries |-> cs[k].entries, owners |-> cs[k].owners]]

\* load: the tarball map is rebuilt from the checksums; an entry whose
\* checksum is no digest is dropped, and so is a crate left without entries.
load(snapshot) ==
  [k \in Keys |->
     LET good == {e \in snapshot[k].entries : e.cksum \in Digests}
     IN IF good = {} THEN default
        ELSE [entries |-> good,
              tarballs |-> [v \in Versions |->
                 IF \E e \in good : e.vers = v
                 THEN (CHOOSE e \in good : e.vers = v).cksum
                 ELSE NoDigest],
              owners |-> snapshot[k].owners]]

(* handlers.rs *)

\* The index line and the tarball mapping a publish adds to a record.
add_version(rec, entry) ==
  [rec EXCEPT !.entries = @ \cup {entry},
              !.tarballs[entry.vers] = entry.cksum]

\* The tarball mapping survives the roll-back.
Mut_rollback_publish(rec, vers, digest) ==
  [rec EXCEPT !.entries = {e \in @ : e.vers # vers}]

\* An emptied record is `default`, that is, removed from the map.
rollback_publish(rec, vers, digest) ==
  [rec EXCEPT !.entries = {e \in @ : e.vers # vers},
              !.tarballs[vers] = IF @ = digest THEN NoDigest ELSE @]

\* Blobs shared with other versions are not considered.
Mut_digest_referenced_in(cs, digest) == FALSE

digest_referenced_in(cs, digest) ==
  \E k \in Keys, v \in Versions : cs[k].tarballs[v] = digest

\* The flag of the line for `vers`: at most one line, by EntriesMatchTarballs.
set_flag(rec, vers, yanked) ==
  [rec EXCEPT !.entries =
     {IF e.vers = vers THEN [e EXCEPT !.yanked = yanked] ELSE e : e \in @}]

retain_owners(owners, logins) == {o \in owners : o.login \notin logins}

\* next_id: one above the highest id in use.
IsNextId(owners, id) ==
  \/ owners = {} /\ id = 1
  \/ \E o \in owners : /\ id = o.id + 1
                       /\ \A p \in owners : p.id <= o.id

\* The lists that adding `logins`, in some order, can give: known logins are
\* skipped and the others are numbered from next_id on.
add_owners(owners, logins) ==
  LET new == logins \ {o.login : o \in owners}
  IN {owners \cup {[id |-> f[l], login |-> l] : l \in new} :
        f \in {g \in [new -> 1..MaxOwnerId] :
                 \E next \in 1..(MaxOwnerId + 1) :
                   /\ IsNextId(owners, next)
                   /\ \A l, m \in new :
                        /\ next <= g[l] /\ g[l] < next + Cardinality(new)
                        /\ g[l] = g[m] => l = m}}

\* A failed save leaves the new owner list in memory.
Mut_undo(rec, q) ==
  CASE q.op = "publish" -> rollback_publish(rec, q.vers, q.digest)
    [] q.op = "yank"    -> set_flag(rec, q.vers, q.previous)
    [] q.op = "owners"  -> rec

\* What each mutation restores when the snapshot cannot be written.
undo(rec, q) ==
  CASE q.op = "publish" -> rollback_publish(rec, q.vers, q.digest)
    [] q.op = "yank"    -> set_flag(rec, q.vers, q.previous)
    [] q.op = "owners"  -> [rec EXCEPT !.owners = q.previous]

----------------------------------------------------------------------------
Init ==
  /\ crates = [k \in Keys |-> default]
  /\ writer = NoWriter
  /\ blobs = {}
  /\ disk = [k \in Keys |-> NoRecord]
  /\ survivors = {disk}
  /\ pc = [r \in Requests |-> "idle"]
  /\ req = [r \in Requests |-> NoRequest]
  /\ detached = {}
  /\ acked = [k \in Keys |-> {NoRecord}]
  /\ faulted = FALSE

durableVars == <<disk, survivors>>
historyVars == <<acked, faulted>>

\* A well-formed request reaches its handler, which asks for the lock.  The
\* checks before that (name, semver, checksum, body) need no state.
Arrive(r) ==
  /\ pc[r] = "idle"
  /\ \E q \in {p \in PublishRequest : "publish" \in Ops}
          \cup {p \in YankRequest : "yank" \in Ops /\ ~p.previous}
          \cup {p \in OwnersRequest : "owners" \in Ops /\ p.previous = {}} :
       req' = [req EXCEPT ![r] = q]
  /\ pc' = [pc EXCEPT ![r] = "lock"]
  /\ UNCHANGED <<crates, writer, blobs, durableVars, detached, historyVars>>

Return(r) ==
  /\ pc' = [pc EXCEPT ![r] = "idle"]
  /\ req' = [req EXCEPT ![r] = NoRequest]

GetsLock(r, op) == pc[r] = "lock" /\ req[r].op = op /\ writer = NoWriter

----------------------------------------------------------------------------
(* handle_publish *)

\* entry_from_manifest: the line carries the checksum the server computed.
Entry(q) ==
  [name |-> q.name, vers |-> q.vers, cksum |-> q.digest, yanked |-> FALSE]

Mut_NameConflict(r) == FALSE

\* The spelling of the lines already there; they all have the same.
NameConflict(r) == \E e \in crates[Key(r)].entries : e.name # req[r].name

\* A yanked version may be published again.
Mut_DuplicateVersion(r) ==
  \E e \in crates[Key(r)].entries : e.vers = req[r].vers /\ ~e.yanked

DuplicateVersion(r) == \E e \in crates[Key(r)].entries : e.vers = req[r].vers

PublishReject(r) ==
  /\ GetsLock(r, "publish")
  /\ NameConflict(r) \/ DuplicateVersion(r)
  /\ Return(r)
  /\ UNCHANGED <<crates, writer, blobs, durableVars, detached, historyVars>>

PublishAdmit(r) ==
  /\ GetsLock(r, "publish")
  /\ ~NameConflict(r)
  /\ ~DuplicateVersion(r)
  /\ writer' = r
  /\ pc' = [pc EXCEPT ![r] = "put"]
  /\ UNCHANGED <<crates, blobs, durableVars, req, detached, historyVars>>

\* blobs.put succeeds and the record is extended; save comes next.
PublishPut(r) ==
  /\ pc[r] = "put"
  /\ blobs' = blobs \cup {req[r].digest}
  /\ crates' = [crates EXCEPT ![Key(r)] = add_version(@, Entry(req[r]))]
  /\ pc' = [pc EXCEPT ![r] = "rename"]
  /\ UNCHANGED <<writer, durableVars, req, detached, historyVars>>

\* The lock is never given back.
Mut_PublishPutFails(r) ==
  /\ pc[r] = "put"
  /\ Return(r)
  /\ UNCHANGED <<crates, writer, blobs, durableVars, detached, historyVars>>

PublishPutFails(r) ==
  /\ pc[r] = "put"
  /\ writer' = NoWriter
  /\ Return(r)
  /\ UNCHANGED <<crates, blobs, durableVars, detached, historyVars>>

\* The clean-up delete after a failed save; its own failure is only logged.
PublishDelete(r) ==
  /\ pc[r] = "delete"
  /\ \/ blobs' = blobs \ {req[r].digest} /\ UNCHANGED faulted
     \/ blobs' = blobs /\ faulted' = TRUE
  /\ writer' = NoWriter
  /\ Return(r)
  /\ UNCHANGED <<crates, durableVars, detached, acked>>

----------------------------------------------------------------------------
(* set_yanked, for yank and unyank *)

YankNotFound(r) ==
  /\ GetsLock(r, "yank")
  /\ \A e \in crates[Key(r)].entries : e.vers # req[r].vers
  /\ Return(r)
  /\ UNCHANGED <<crates, writer, blobs, durableVars, detached, historyVars>>

SetYanked(r) ==
  /\ GetsLock(r, "yank")
  /\ \E e \in crates[Key(r)].entries :
       /\ e.vers = req[r].vers
       /\ req' = [req EXCEPT ![r].previous = e.yanked]
  /\ crates' = [crates EXCEPT
                  ![Key(r)] = set_flag(@, req[r].vers, req[r].yanked)]
  /\ writer' = r
  /\ pc' = [pc EXCEPT ![r] = "rename"]
  /\ UNCHANGED <<blobs, durableVars, detached, historyVars>>

----------------------------------------------------------------------------
(* mutate_owners, for adding and removing *)

OwnersNotFound(r) ==
  /\ GetsLock(r, "owners")
  /\ crates[Key(r)] = default
  /\ Return(r)
  /\ UNCHANGED <<crates, writer, blobs, durableVars, detached, historyVars>>

MutateOwners(r) ==
  /\ GetsLock(r, "owners")
  /\ crates[Key(r)] # default
  /\ LET owners == crates[Key(r)].owners
     IN /\ req' = [req EXCEPT ![r].previous = owners]
        /\ \E new \in IF req[r].remove
                      THEN {retain_owners(owners, req[r].logins)}
                      ELSE add_owners(owners, req[r].logins) :
             crates' = [crates EXCEPT ![Key(r)].owners = new]
  /\ writer' = r
  /\ pc' = [pc EXCEPT ![r] = "rename"]
  /\ UNCHANGED <<blobs, durableVars, detached, historyVars>>

----------------------------------------------------------------------------
(* persist_locked and what a handler does with its result *)

\* The temporary file is written, fsynced and renamed over the target.
SaveRename(r) ==
  /\ pc[r] = "rename"
  /\ Cardinality(survivors) < MaxSnapshots
  /\ disk' = save(crates)
  /\ survivors' = survivors \cup {disk'}
  /\ acked' = [acked EXCEPT ![Key(r)] = @ \cup {disk'[Key(r)]}]
  /\ pc' = [pc EXCEPT ![r] = "dirsync"]
  /\ UNCHANGED <<crates, writer, blobs, req, detached, faulted>>

\* The directory is not fsynced.
Mut_SaveDirSync(r) ==
  /\ pc[r] = "dirsync"
  /\ acked' = [acked EXCEPT ![Key(r)] = {disk[Key(r)]}]
  /\ writer' = NoWriter
  /\ Return(r)
  /\ UNCHANGED <<crates, blobs, durableVars, detached, faulted>>

\* sync_parent_dir returns Ok: unlock and answer 200.
SaveDirSync(r) ==
  /\ pc[r] = "dirsync"
  /\ \/ /\ survivors' = {disk}
        /\ acked' = [acked EXCEPT ![Key(r)] = {disk[Key(r)]}]
     \/ "dirsync_unsupported" \in Faults /\ UNCHANGED <<survivors, acked>>
  /\ writer' = NoWriter
  /\ Return(r)
  /\ UNCHANGED <<crates, blobs, disk, detached, faulted>>

\* The blob of a publish that could not be saved is left behind.
Mut_SaveFails_keep(r) ==
  /\ pc[r] = "rename" \/ (pc[r] = "dirsync" /\ "dirsync_error" \in Faults)
  /\ crates' = [crates EXCEPT ![Key(r)] = undo(@, req[r])]
  /\ writer' = NoWriter /\ Return(r)
  /\ UNCHANGED <<blobs, durableVars, detached, historyVars>>

\* As before R4-3: the guard is dropped between the check and the delete.
Mut_SaveFails_unlock(r) ==
  /\ pc[r] = "rename" \/ (pc[r] = "dirsync" /\ "dirsync_error" \in Faults)
  /\ crates' = [crates EXCEPT ![Key(r)] = undo(@, req[r])]
  /\ writer' = NoWriter
  /\ IF /\ req[r].op = "publish"
        /\ ~digest_referenced_in(crates', req[r].digest)
     THEN pc' = [pc EXCEPT ![r] = "delete"] /\ UNCHANGED req
     ELSE Return(r)
  /\ UNCHANGED <<blobs, durableVars, detached, historyVars>>

\* save returns an error: undo the mutation; a publish then deletes its
\* blob, still under the lock, unless another version refers to it.
SaveFails(r) ==
  /\ pc[r] = "rename" \/ (pc[r] = "dirsync" /\ "dirsync_error" \in Faults)
  /\ crates' = [crates EXCEPT ![Key(r)] = undo(@, req[r])]
  /\ IF /\ req[r].op = "publish"
        /\ ~digest_referenced_in(crates', req[r].digest)
     THEN pc' = [pc EXCEPT ![r] = "delete"] /\ UNCHANGED <<writer, req>>
     ELSE writer' = NoWriter /\ Return(r)
  /\ UNCHANGED <<blobs, durableVars, detached, historyVars>>

----------------------------------------------------------------------------
(* handle_download *)

\* The digest is read under the read guard, which is then dropped.
Download(r) ==
  /\ pc[r] = "idle"
  /\ "download" \in Ops
  /\ writer = NoWriter
  /\ \E k \in Keys, v \in Versions :
       /\ crates[k].tarballs[v] # NoDigest
       /\ req' = [req EXCEPT ![r] = [op |-> "download",
                                     digest |-> crates[k].tarballs[v]]]
  /\ pc' = [pc EXCEPT ![r] = "get"]
  /\ UNCHANGED <<crates, writer, blobs, durableVars, detached, historyVars>>

\* blobs.get answers, with the bytes or with an error.
DownloadGet(r) ==
  /\ pc[r] = "get"
  /\ Return(r)
  /\ UNCHANGED <<crates, writer, blobs, durableVars, detached, historyVars>>

----------------------------------------------------------------------------
(* The environment: hyper and tokio, the process, the host *)

\* hyper drops the handler of a client that is gone, at the await where it
\* is suspended.  A file operation already handed to spawn_blocking runs all
\* the same; a put dropped before its rename leaves nothing under its name.
Disconnect(r) ==
  /\ "disconnect" \in Faults
  /\ pc[r] \in {"lock", "put", "delete", "get"}
  /\ \/ pc[r] \in {"lock", "put", "get"} /\ UNCHANGED detached
     \/ /\ pc[r] \in {"put", "delete"}
        /\ detached' = detached \cup {[op |-> pc[r],
                                       digest |-> req[r].digest]}
  /\ writer' = IF writer = r THEN NoWriter ELSE writer
  /\ faulted' = (faulted \/ pc[r] \in {"put", "delete"})
  /\ Return(r)
  /\ UNCHANGED <<crates, blobs, durableVars, acked>>

Detached ==
  \E d \in detached :
    /\ blobs' = IF d.op = "put" THEN blobs \cup {d.digest}
                                ELSE blobs \ {d.digest}
    /\ detached' = detached \ {d}
    /\ UNCHANGED <<crates, writer, durableVars, pc, req, historyVars>>

\* Every task is gone and with_persistence loads what is on disk.
Restart ==
  /\ crates' = load(disk')
  /\ writer' = NoWriter
  /\ pc' = [r \in Requests |-> "idle"]
  /\ req' = [r \in Requests |-> NoRequest]
  /\ detached' = {}
  /\ faulted' = TRUE
  /\ UNCHANGED acked

Crash ==
  /\ UNCHANGED <<durableVars, blobs>>
  /\ Restart

\* A rename without directory fsync may be undone; FsBlobStore fsyncs nothing.
PowerLoss ==
  /\ "power_loss" \in Faults
  /\ disk' \in survivors
  /\ survivors' = {disk'}
  /\ blobs' \in SUBSET blobs
  /\ Restart

\* The file at rest is damaged: it cannot be parsed any more, or one checksum
\* in it cannot.  A client may then expect no more than what load makes of it.
Corrupt ==
  /\ "corruption" \in Faults
  /\ writer = NoWriter
  /\ \/ disk' = [k \in Keys |-> NoRecord]
     \/ \E k \in Keys : \E e \in disk[k].entries :
          disk' = [disk EXCEPT ![k].entries =
                     (@ \ {e}) \cup {[e EXCEPT !.cksum = NoDigest]}]
  /\ survivors' = {disk'}
  /\ acked' = [k \in Keys |->
                 acked[k] \cup {disk'[k], save(load(disk'))[k]}]
  /\ faulted' = TRUE
  /\ UNCHANGED <<crates, writer, blobs, pc, req, detached>>

----------------------------------------------------------------------------
Acquire(r) ==
  \/ PublishReject(r) \/ PublishAdmit(r)
  \/ YankNotFound(r) \/ SetYanked(r)
  \/ OwnersNotFound(r) \/ MutateOwners(r)

Proceed(r) ==
  \/ PublishPut(r) \/ PublishPutFails(r) \/ PublishDelete(r)
  \/ SaveRename(r) \/ SaveDirSync(r) \/ SaveFails(r)
  \/ DownloadGet(r)

Next ==
  \/ \E r \in Requests : \/ Arrive(r) \/ Download(r) \/ Disconnect(r)
                         \/ Acquire(r) \/ Proceed(r)
  \/ Detached \/ Crash \/ PowerLoss \/ Corrupt

Spec == Init /\ [][Next]_vars

----------------------------------------------------------------------------
(* Properties *)

\* Every variable has its type.
TypeOK ==
  /\ crates \in [Keys -> CrateRecord]
  /\ writer \in Requests \cup {NoWriter}
  /\ blobs \in SUBSET Digests
  /\ disk \in [Keys -> PersistedRecord]
  /\ survivors \in SUBSET [Keys -> PersistedRecord]
  /\ pc \in [Requests -> Steps]
  /\ req \in [Requests -> Request]
  /\ detached \in SUBSET [op: {"put", "delete"}, digest: Digests]
  /\ acked \in [Keys -> SUBSET PersistedRecord]
  /\ faulted \in BOOLEAN

\* Where a task is suspended says what it is doing, and it is inside a
\* mutation exactly when it holds the write guard (handlers.rs: the guard is
\* held over the whole ingest).
StepsOK ==
  \A r \in Requests :
    /\ pc[r] = "idle" => req[r] = NoRequest
    /\ pc[r] \in {"put", "delete"} => req[r] \in PublishRequest
    /\ pc[r] \in {"lock", "rename", "dirsync"} =>
         req[r] \in PublishRequest \cup YankRequest \cup OwnersRequest
    /\ pc[r] = "get" => req[r] \in DownloadRequest
    /\ pc[r] \in {"put", "rename", "dirsync", "delete"} <=> writer = r

UniqueVersions(entries) == \A e, f \in entries : e.vers = f.vers => e = f

Consistent(rec) ==
  /\ UniqueVersions(rec.entries)
  /\ \A e \in rec.entries : rec.tarballs[e.vers] = e.cksum
  /\ \A v \in Versions :
       rec.tarballs[v] = NoDigest <=> \A e \in rec.entries : e.vers # v

\* The index and the download map of a crate agree at every moment, through
\* publishes, roll-backs and reloads: each version has one line, and its
\* tarball is the one the line's checksum names (handle_publish, load).
EntriesMatchTarballs == \A k \in Keys : Consistent(crates[k])

\* All the lines of one index file spell the crate's name the same way, even
\* when two spellings of it are published at once (NameConflict).
OneDisplayName ==
  \A k \in Keys : \A e, f \in crates[k].entries : e.name = f.name

\* A version a reader can see can be downloaded: no roll-back removes a blob
\* that another version shares (digest_referenced_in), and no reload
\* advertises a version without its tarball.
IndexedBlobPresent ==
  writer = NoWriter =>
    \A k \in Keys, v \in Versions :
      crates[k].tarballs[v] \in blobs \cup {NoDigest}

\* The digest a download took under the read guard still names a blob when
\* the store is asked for it, after the guard was dropped.
DownloadNeverMissing ==
  \A r \in Requests : pc[r] = "get" => req[r].digest \in blobs

\* When no mutation is in progress, a reload would serve what is served now:
\* "on-disk state matches memory" (handlers.rs:263), so every mutation that
\* failed to save was undone exactly (rollback_publish, previous flag,
\* previous_owners).
MemoryMatchesDisk ==
  writer = NoWriter => crates = load(disk)

\* What a 200 acknowledged is what a restart serves, whichever snapshot the
\* crash or the power loss leaves, until a later request changes it or the
\* file is damaged (write_atomic_durable).
AckedDurable ==
  \A k \in Keys : \A s \in survivors \cup {disk} : s[k] \in acked[k]

\* A version whose publish was acknowledged can be downloaded.
AckedDownloadable ==
  \A k \in Keys : \A rec \in acked[k] :
    acked[k] = {rec} => \A e \in rec.entries : e.cksum \in blobs

\* Rejected and failed publishes leave no orphan blob, unless a crash, a
\* hang-up or a failed delete got in the way.
NoOrphanBlob ==
  writer = NoWriter /\ ~faulted =>
    \A d \in blobs : digest_referenced_in(crates, d)

\* The snapshot on disk behaves as CrateIndex: whatever requests interleave
\* and wherever the process dies, a published line is never lost or changed.
Index == INSTANCE CrateIndex WITH index <- disk
RefinesCrateIndex == Index!Spec

\* Every request that waits for the lock or holds it is answered.
EveryRequestReturns ==
  \A r \in Requests : (pc[r] # "idle") ~> (pc[r] = "idle")

=============================================================================
