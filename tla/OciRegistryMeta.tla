-------------------------- MODULE OciRegistryMeta --------------------------
(***************************************************************************)
(* Manifests, tags and referrers of the OCI registry (ferro-oci-server):   *)
(* the maps of InMemoryRegistryMeta, their snapshot metadata.json, and the *)
(* manifest handlers.                                                      *)
(*                                                                         *)
(* A mutation holds the write lock from its first change to the end of the *)
(* write of the snapshot and awaits nothing there, so only a crash can     *)
(* come in between; the check of the referenced blobs before it awaits     *)
(* every look-up, and anything can come in between.                        *)
(*                                                                         *)
(* A digest stands for the manifest it names: `layers`, `children` and     *)
(* `subject` are what that manifest says.                                  *)
(***************************************************************************)
EXTENDS Naturals, Sequences, FiniteSets, Functions

CONSTANTS
  Requests,
  Names,
  Tags,
  Digests,       \* manifests
  Blobs,
  layers,        \* manifest -> the blobs of its config and layers[]
  children,      \* manifest -> the digests of its manifests[]
  subject,       \* manifest -> the digest of its subject, or NoDigest
  artifactType,  \* manifest -> its artifactType, or "" if it is empty or absent
  configType,    \* manifest -> the mediaType of its config, or ""
  EmptyDescriptor,  \* the blob {}, which every registry is taken to hold
  MediaTypes,
  index_types,   \* the media types of ManifestKind::ImageIndex
  Pushes,        \* bound: the requests that clients make
  MaxReferrers,  \* bound on the length of a referrer list
  Faults,        \* subset of {"dirsync_error", "corruption"}
  NoDigest,      \* also: bytes that are not those of any digest
  NoManifest,
  NoWriter

ASSUME MetaAssumption ==
  /\ layers \in [Digests -> SUBSET Blobs]
  /\ children \in [Digests -> SUBSET Digests]
  /\ subject \in [Digests -> Digests \cup {NoDigest}]
  /\ DOMAIN artifactType = Digests /\ DOMAIN configType = Digests
  /\ EmptyDescriptor \in Blobs
  /\ index_types \subseteq MediaTypes
  /\ Tags \cap Digests = {}
  /\ Pushes \subseteq [reference: Tags \cup Digests, digest: Digests,
                      media_type: MediaTypes]
  /\ NoDigest \notin Digests /\ NoWriter \notin Requests
  /\ NoManifest \notin [media_type: MediaTypes, body: Digests \cup {NoDigest}]
  /\ MaxReferrers \in Nat

VARIABLES
  repos,      \* InMemoryState: name -> Repo
  writer,     \* the request holding the write lock
  disk,       \* metadata.json
  blobs,      \* the digests in the blob store
  pc,
  req,
  removed,    \* history: a blob or a manifest was deleted
  undone,     \* history: metadata.json holds a mutation that was rolled back
  corrupted   \* history: metadata.json was damaged

vars == <<repos, writer, disk, blobs, pc, req, removed, undone, corrupted>>

ArtifactTypes == {artifactType[d] : d \in Digests} \cup {configType[d] : d \in Digests}

\* `listed`: the name is a key of `manifests`, so the catalog shows it.
EmptyRepo == [listed |-> FALSE,
              manifests |-> [d \in Digests |-> NoManifest],
              tags |-> [t \in Tags |-> NoDigest],
              referrers |-> [d \in Digests |-> <<>>]]

NoRequest == [op |-> "none"]

Stored(repo) == {d \in Digests : repo.manifests[d] # NoManifest}

Init ==
  /\ repos = [n \in Names |-> EmptyRepo]
  /\ writer = NoWriter
  /\ disk = repos
  /\ blobs = {}
  /\ pc = [r \in Requests |-> "idle"]
  /\ req = [r \in Requests |-> NoRequest]
  /\ removed = FALSE
  /\ undone = FALSE
  /\ corrupted = FALSE

Return(r) ==
  /\ pc' = [pc EXCEPT ![r] = "idle"]
  /\ req' = [req EXCEPT ![r] = NoRequest]

----------------------------------------------------------------------------
(* registry.rs: the maps *)

get_manifest(n, d) == repos[n].manifests[d] # NoManifest

build_referrer(q) ==
  [media_type |-> q.media_type, digest |-> q.digest,
   artifact_type |-> IF artifactType[q.digest] # "" THEN artifactType[q.digest]
                     ELSE configType[q.digest]]

put_manifest(repo, q) ==
  [repo EXCEPT
     !.listed = TRUE,
     !.manifests[q.digest] = [media_type |-> q.media_type, body |-> q.digest],
     !.tags = IF q.reference \in Tags THEN [@ EXCEPT ![q.reference] = q.digest] ELSE @,
     !.referrers = [s \in Digests |-> IF s = subject[q.digest]
                                     THEN Append(@[s], build_referrer(q)) ELSE @[s]]]

\* The tag is not part of the roll-back.
Mut_rollback_put(repo, q) ==
  LET manifests == [repo.manifests EXCEPT ![q.digest] = q.prev_manifest]
  IN [repo EXCEPT
        !.listed = \E d \in Digests : manifests[d] # NoManifest,
        !.manifests = manifests,
        !.referrers = [s \in Digests |-> IF s = subject[q.digest]
                                        THEN SubSeq(@[s], 1, Len(@[s]) - 1) ELSE @[s]]]

\* prune_empty_repo drops the name from the catalog if nothing is left of it.
rollback_put(repo, q) ==
  LET manifests == [repo.manifests EXCEPT ![q.digest] = q.prev_manifest]
  IN [repo EXCEPT
        !.listed = \E d \in Digests : manifests[d] # NoManifest,
        !.manifests = manifests,
        !.tags = IF q.reference \in Tags THEN [@ EXCEPT ![q.reference] = q.prev_tag] ELSE @,
        !.referrers = [s \in Digests |-> IF s = subject[q.digest]
                                        THEN SubSeq(@[s], 1, Len(@[s]) - 1) ELSE @[s]]]

\* Where a position of a list comes to lie when some are taken out.
Place(i, gone) == i - Cardinality({j \in gone : j < i})

\* What is left of a list when the descriptors at some positions are taken out.
prune(list, gone) ==
  [i \in 1..(Len(list) - Cardinality(gone)) |->
     list[CHOOSE j \in DOMAIN list \ gone : Place(j, gone) = i]]

Positions(list, digest) == {i \in DOMAIN list : list[i].digest = digest}

\* As before R5-3: the descriptors of the deleted manifest stay.
Mut_delete_manifest(repo, digest) ==
  [repo EXCEPT !.manifests[digest] = NoManifest,
               !.tags = [t \in Tags |-> IF @[t] = digest THEN NoDigest ELSE @[t]]]

\* The manifest goes, and with it its tags and every descriptor of it.
delete_manifest(repo, digest) ==
  [repo EXCEPT
     !.manifests[digest] = NoManifest,
     !.tags = [t \in Tags |-> IF @[t] = digest THEN NoDigest ELSE @[t]],
     !.referrers = [d \in Digests |-> prune(@[d], Positions(@[d], digest))]]

\* The descriptors are put back at the end of their lists.
Mut_reinsert(list, taken) ==
  list \o [i \in 1..Cardinality(DOMAIN taken) |->
             taken[CHOOSE j \in DOMAIN taken : Cardinality({k \in DOMAIN taken : k < j}) = i - 1]]

\* Descriptors taken out back to front are inserted again front to back, each
\* at the position it had.
reinsert(list, taken) ==
  [i \in 1..(Len(list) + Cardinality(DOMAIN taken)) |->
     IF i \in DOMAIN taken THEN taken[i]
     ELSE list[Place(i, DOMAIN taken)]]

rollback_delete(repo, q) ==
  [repo EXCEPT
     !.listed = TRUE,
     !.manifests[q.digest] = q.removed_manifest,
     !.tags = [t \in Tags |-> IF t \in q.removed_tags THEN q.digest ELSE @[t]],
     !.referrers = [d \in Digests |-> reinsert(@[d], q.removed_referrers[d])]]

\* GET /referrers/{digest}?artifactType=at; "" stands for no filter.
list_referrers(repo, s, at) ==
  IF at = "" THEN repo.referrers[s]
  ELSE LET list == repo.referrers[s]
       IN prune(list, {i \in DOMAIN list : list[i].artifact_type # at})

\* Manifests whose bytes do not hash to their key are dropped (R3-1); their
\* tags and descriptors are not.
load_snapshot(snapshot) ==
  [n \in Names |-> [snapshot[n] EXCEPT
     !.manifests = [d \in Digests |->
        IF @[d] # NoManifest /\ @[d].body # d THEN NoManifest ELSE @[d]]]]

----------------------------------------------------------------------------
(* handlers/manifest.rs: put_manifest *)

\* A well-formed PUT arrives.  What has to be verified depends on the declared
\* media type, not on the manifest.
Put(r) ==
  /\ pc[r] = "idle"
  /\ \E n \in Names, p \in Pushes :
       req' = [req EXCEPT ![r] =
                 [op |-> "put", name |-> n, reference |-> p.reference,
                  digest |-> p.digest, media_type |-> p.media_type,
                  unverified |-> IF p.media_type \in index_types
                                 THEN children[p.digest] ELSE layers[p.digest]]]
  /\ pc' = [pc EXCEPT ![r] = "verify"]
  /\ UNCHANGED <<repos, writer, disk, blobs, removed, undone, corrupted>>

\* A layer has to be in the blob store, or to be the empty descriptor; a child of
\* an index may be a manifest of the repository instead.
check_blob_present(b) == b = EmptyDescriptor \/ b \in blobs
Present(q, d) ==
  IF q.media_type \in index_types THEN d \in blobs \/ get_manifest(q.name, d)
                                  ELSE check_blob_present(d)

\* Whether the blob is there is not asked.
Mut_VerifyReferenced(r, d) ==
  /\ pc[r] = "verify"
  /\ d \in req[r].unverified
  /\ req' = [req EXCEPT ![r].unverified = @ \ {d}] /\ UNCHANGED pc
  /\ UNCHANGED <<repos, writer, disk, blobs, removed, undone, corrupted>>

\* One look-up of verify_referenced_blobs; get_manifest takes the read lock.
\* The request ends here if the look-up says no or fails, or the client is gone.
VerifyReferenced(r, d) ==
  /\ pc[r] = "verify"
  /\ d \in req[r].unverified
  /\ req[r].media_type \in index_types => writer = NoWriter
  /\ \/ /\ Present(req[r], d)
        /\ req' = [req EXCEPT ![r].unverified = @ \ {d}]
        /\ UNCHANGED pc
     \/ Return(r)
  /\ UNCHANGED <<repos, writer, disk, blobs, removed, undone, corrupted>>

\* Everything referenced was there.  A digest the client declared must be that
\* of the body; put_manifest_with_referrer then takes the lock.
PutManifest(r) ==
  LET q == req[r]
  IN /\ pc[r] = "verify" /\ q.unverified = {}
     /\ IF q.reference \in Digests /\ q.reference # q.digest
        THEN Return(r) /\ UNCHANGED <<repos, writer>>
        ELSE /\ writer = NoWriter
             /\ \A d \in Digests : Len(repos[q.name].referrers[d]) < MaxReferrers
             /\ writer' = r
             /\ repos' = [repos EXCEPT ![q.name] = put_manifest(@, q)]
             /\ req' = [req EXCEPT ![r] =
                  [op |-> "put", name |-> q.name, reference |-> q.reference,
                   digest |-> q.digest,
                   prev_manifest |-> repos[q.name].manifests[q.digest],
                   prev_tag |-> IF q.reference \in Tags
                                THEN repos[q.name].tags[q.reference] ELSE NoDigest]]
             /\ pc' = [pc EXCEPT ![r] = "rename"]
     /\ UNCHANGED <<disk, blobs, removed, undone, corrupted>>

(* delete_manifest; by tag it is refused, and an unknown digest is a 404 *)

DeleteManifest(r, n, d) ==
  LET repo == repos[n]
  IN /\ pc[r] = "idle"
     /\ writer = NoWriter
     /\ d \in Stored(repo)
     /\ writer' = r
     /\ repos' = [repos EXCEPT ![n] = delete_manifest(@, d)]
     /\ req' = [req EXCEPT ![r] =
          [op |-> "delete", name |-> n, digest |-> d,
           removed_manifest |-> repo.manifests[d],
           removed_tags |-> {t \in Tags : repo.tags[t] = d},
           removed_referrers |->
             [s \in Digests |->
                [i \in Positions(repo.referrers[s], d) |-> repo.referrers[s][i]]]]]
     /\ pc' = [pc EXCEPT ![r] = "rename"]
     /\ removed' = TRUE
     /\ UNCHANGED <<disk, blobs, undone, corrupted>>

----------------------------------------------------------------------------
(* persist_locked, write_snapshot_atomic *)

SaveRename(r) ==
  /\ pc[r] = "rename"
  /\ disk' = repos
  /\ undone' = FALSE
  /\ pc' = [pc EXCEPT ![r] = "dirsync"]
  /\ UNCHANGED <<repos, writer, blobs, req, removed, corrupted>>

\* The directory is fsynced; 201 or 202.
SaveDirSync(r) ==
  /\ pc[r] = "dirsync"
  /\ writer' = NoWriter
  /\ Return(r)
  /\ UNCHANGED <<repos, disk, blobs, removed, undone, corrupted>>

\* An error before or of the rename, or of the directory's fsync after it: the
\* mutation is rolled back in memory and the client gets a 500.
SaveFails(r) ==
  /\ pc[r] = "rename" \/ (pc[r] = "dirsync" /\ "dirsync_error" \in Faults)
  /\ repos' = [repos EXCEPT ![req[r].name] =
                 IF req[r].op = "put" THEN rollback_put(@, req[r])
                                      ELSE rollback_delete(@, req[r])]
  /\ undone' = (undone \/ pc[r] = "dirsync")
  /\ writer' = NoWriter
  /\ Return(r)
  /\ UNCHANGED <<disk, blobs, removed, corrupted>>

----------------------------------------------------------------------------
(* The blob store, the process, the host *)

\* handlers/blob.rs: GET and HEAD of a blob find it; the empty descriptor is served
\* without being stored.
get_blob(b) == b = EmptyDescriptor \/ b \in blobs

UploadBlob(b) ==
  /\ blobs' = blobs \cup {b}
  /\ UNCHANGED <<repos, writer, disk, pc, req, removed, undone, corrupted>>

DeleteBlob(b) ==
  /\ b \in blobs
  /\ blobs' = blobs \ {b}
  /\ removed' = TRUE
  /\ UNCHANGED <<repos, writer, disk, pc, req, undone, corrupted>>

\* with_persistence: the requests are gone, the snapshot is loaded.
Restart ==
  /\ repos' = load_snapshot(disk')
  /\ writer' = NoWriter
  /\ pc' = [r \in Requests |-> "idle"]
  /\ req' = [r \in Requests |-> NoRequest]
  /\ undone' = FALSE
  /\ UNCHANGED <<blobs, removed>>

Crash ==
  /\ UNCHANGED <<disk, corrupted>>
  /\ Restart

\* While the server is down, the file is damaged: it cannot be parsed, or one
\* body in it is another one.  Bound: it happens once.
Corrupt ==
  /\ "corruption" \in Faults
  /\ ~corrupted
  /\ \/ disk' = [n \in Names |-> EmptyRepo]
     \/ \E n \in Names : \E d \in Stored(disk[n]) :
          \E body \in (Digests \cup {NoDigest}) \ {d} :
            disk' = [disk EXCEPT ![n].manifests[d].body = body]
  /\ corrupted' = TRUE
  /\ Restart

----------------------------------------------------------------------------
Next ==
  \/ \E r \in Requests :
       \/ Put(r)
       \/ \E d \in Blobs \cup Digests : VerifyReferenced(r, d)
       \/ PutManifest(r)
       \/ \E n \in Names, d \in Digests : DeleteManifest(r, n, d)
       \/ SaveRename(r) \/ SaveDirSync(r) \/ SaveFails(r)
  \/ \E b \in Blobs \ {EmptyDescriptor} : UploadBlob(b) \/ DeleteBlob(b)
  \/ Crash \/ Corrupt

Spec == Init /\ [][Next]_vars

----------------------------------------------------------------------------
(* Properties *)

\* The bytes served under a digest hash to it, also when metadata.json was
\* tampered with between two runs (put_manifest, load_snapshot R3-1).
ContentAddressed ==
  \A n \in Names : \A d \in Stored(repos[n]) : repos[n].manifests[d].body = d

\* A tag that is listed can be pulled: through overwrites, deletes, roll-backs
\* and restarts a tag names a stored manifest, unless the file was damaged.
TagsResolve ==
  ~corrupted =>
    \A n \in Names, t \in Tags :
      repos[n].tags[t] \in Stored(repos[n]) \cup {NoDigest}

\* What is stored under a digest is what was pushed as it, and a tag always
\* resolves (put_manifest, delete_manifest).
ManifestsSound == ContentAddressed /\ TagsResolve

\* The referrers of a subject are the stored manifests that declare it, none
\* missing and none dangling (R4-1, R5-3), in memory and after a restart; a
\* filter leaves those of the asked type, which is that of the config where
\* the manifest has none (build_referrer, list_referrers).
ReferrersExact ==
  ~corrupted =>
    \A n \in Names, s \in Digests, at \in ArtifactTypes : \A repo \in {repos[n], disk[n]} :
      {desc.digest : desc \in Range(list_referrers(repo, s, at))}
        = {d \in Stored(repo) :
             /\ subject[d] = s
             /\ at \in {"", artifactType[d], IF artifactType[d] = "" THEN configType[d] ELSE ""}}

\* Two forms of a repository that differ at most in whether the catalog shows
\* it although it holds nothing.
SameContent(repo, other) ==
  [repo EXCEPT !.listed = TRUE] = [other EXCEPT !.listed = TRUE]

\* When no mutation is in progress, a restart would serve what is served now,
\* what was acknowledged included: a mutation that could not be saved was
\* undone to the last descriptor ("rolled back and nothing is written",
\* registry.rs:113-115).  A directory fsync that fails after the rename is the
\* exception, until the next save.
MemoryMatchesDisk ==
  writer = NoWriter /\ ~undone /\ ~corrupted =>
    \A n \in Names : SameContent(repos[n], disk[n])

\* Everything that a manifest of the registry refers to can be pulled, although
\* each reference was checked before the lock was taken, unless something was
\* deleted (verify_referenced_blobs, get_blob).
ReferencesPresent ==
  ~removed /\ ~corrupted =>
    \A n \in Names : \A repo \in {repos[n], disk[n]} : \A d \in Stored(repo) :
      IF repo.manifests[d].media_type \in index_types
      THEN children[d] \subseteq blobs \cup Stored(repo)
      ELSE \A b \in layers[d] : get_blob(b)

\* "contains one descriptor per referrer" (handlers/referrers.rs:7-8).
OneDescriptorPerReferrer ==
  \A n \in Names, s \in Digests :
    LET list == repos[n].referrers[s]
    IN \A i, j \in 1..Len(list) : list[i].digest = list[j].digest => i = j

=============================================================================
