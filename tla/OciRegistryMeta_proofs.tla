----------------------- MODULE OciRegistryMeta_proofs -----------------------
(***************************************************************************)
(* Proofs about OciRegistryMeta, for any number of requests, repositories, *)
(* tags and manifests, and any graph of references between manifests.      *)
(*                                                                         *)
(* Then about the client of OciReads that pulls a manifest in ranges.      *)
(*                                                                         *)
(* The lists of the registry, of referrers, tags and names, play no part   *)
(* here: OciLists_proofs is about them.                                    *)
(***************************************************************************)
EXTENDS OciReads, Integers, TLAPS

Manifest == [media_type: MediaTypes, body: Digests \cup {NoDigest}]

IsRepo(repo) ==
  /\ repo \in [listed: {repo.listed}, manifests: {repo.manifests},
               tags: {repo.tags}, referrers: {repo.referrers}]
  /\ repo.manifests \in [Digests -> Manifest \cup {NoManifest}]
  /\ repo.tags \in [Tags -> Digests \cup {NoDigest}]

\* A request that is checking its references, and one that is being saved.
Verifying ==
  [op: {"put"}, name: Names, reference: Tags \cup Digests, digest: Digests,
   media_type: MediaTypes, unverified: SUBSET (Blobs \cup Digests)]

IsPut(q) ==
  /\ q.op = "put" /\ q.name \in Names /\ q.digest \in Digests
  /\ q.prev_manifest \in Manifest \cup {NoManifest}
  /\ q.prev_tag \in Digests \cup {NoDigest}

IsDelete(q) ==
  /\ q.op = "delete" /\ q.name \in Names /\ q.digest \in Digests
  /\ q.removed_manifest \in Manifest

Held(manifests) == {d \in Digests : manifests[d] # NoManifest}

\* What the roll-back of a mutation that cannot be saved leaves.
Undo(repo, q) == IF q.op = "put" THEN rollback_put(repo, q) ELSE rollback_delete(repo, q)

Kept(n) ==
  IF writer # NoWriter /\ req[writer].name = n THEN Undo(repos[n], req[writer])
  ELSE repos[n]

----------------------------------------------------------------------------
(* What the operators do to the manifests and the tags of a repository. *)

\* put_manifest stores the manifest and moves the tag.
LEMMA PutFields ==
  ASSUME NEW repo, IsRepo(repo), NEW q, q.digest \in Digests, q.media_type \in MediaTypes
  PROVE  /\ IsRepo(put_manifest(repo, q))
         /\ put_manifest(repo, q).manifests =
              [repo.manifests EXCEPT ![q.digest] = [media_type |-> q.media_type,
                                                    body |-> q.digest]]
         /\ put_manifest(repo, q).tags =
              IF q.reference \in Tags THEN [repo.tags EXCEPT ![q.reference] = q.digest]
              ELSE repo.tags
<1> DEFINE new == put_manifest(repo, q)
<1>1. /\ new \in [listed: {new.listed}, manifests: {new.manifests},
                tags: {new.tags}, referrers: {new.referrers}]
      /\ new.manifests = [repo.manifests EXCEPT ![q.digest] =
                            [media_type |-> q.media_type, body |-> q.digest]]
      /\ new.tags = IF q.reference \in Tags THEN [repo.tags EXCEPT ![q.reference] = q.digest]
                    ELSE repo.tags
  BY Zenon DEF put_manifest, IsRepo
<1>2. [media_type |-> q.media_type, body |-> q.digest] \in Manifest
  BY DEF Manifest
<1> HIDE DEF new
<1>3. IsRepo(new)
  BY <1>1, <1>2 DEF IsRepo
<1> QED
  BY <1>1, <1>3 DEF new

\* delete_manifest drops the manifest and every tag on it.
LEMMA DeleteFields ==
  ASSUME NEW repo, IsRepo(repo), NEW d \in Digests
  PROVE  /\ IsRepo(delete_manifest(repo, d))
         /\ delete_manifest(repo, d).manifests = [repo.manifests EXCEPT ![d] = NoManifest]
         /\ delete_manifest(repo, d).tags =
              [t \in Tags |-> IF repo.tags[t] = d THEN NoDigest ELSE repo.tags[t]]
<1> DEFINE new == delete_manifest(repo, d)
<1>1. new \in [listed: {new.listed}, manifests: {new.manifests},
                tags: {new.tags}, referrers: {new.referrers}]
  BY Zenon DEF delete_manifest, IsRepo
<1>2. new.manifests = [repo.manifests EXCEPT ![d] = NoManifest]
  BY DEF delete_manifest, IsRepo
<1>3. new.tags = [t \in Tags |-> IF repo.tags[t] = d THEN NoDigest ELSE repo.tags[t]]
  BY DEF delete_manifest, IsRepo
<1> HIDE DEF new
<1>4. IsRepo(new)
  BY <1>1, <1>2, <1>3 DEF IsRepo
<1> QED
  BY <1>2, <1>3, <1>4 DEF new

\* rollback_put puts the previous manifest and the previous tag in place.
LEMMA UndoPutFields ==
  ASSUME NEW repo, IsRepo(repo), NEW q, IsPut(q)
  PROVE  /\ IsRepo(Undo(repo, q))
         /\ Undo(repo, q).manifests = [repo.manifests EXCEPT ![q.digest] = q.prev_manifest]
         /\ Undo(repo, q).tags =
              IF q.reference \in Tags THEN [repo.tags EXCEPT ![q.reference] = q.prev_tag]
              ELSE repo.tags
<1> DEFINE new == rollback_put(repo, q)
<1>1. /\ new \in [listed: {new.listed}, manifests: {new.manifests},
                  tags: {new.tags}, referrers: {new.referrers}]
      /\ new.manifests = [repo.manifests EXCEPT ![q.digest] = q.prev_manifest]
      /\ new.tags = IF q.reference \in Tags THEN [repo.tags EXCEPT ![q.reference] = q.prev_tag]
                    ELSE repo.tags
  BY Zenon DEF rollback_put, IsRepo
<1>2. Undo(repo, q) = new
  BY DEF Undo, IsPut
<1> HIDE DEF new
<1>3. IsRepo(new)
  BY <1>1 DEF IsRepo, IsPut
<1> QED
  BY <1>1, <1>2, <1>3

\* rollback_delete puts the removed manifest and the removed tags back.
LEMMA UndoDeleteFields ==
  ASSUME NEW repo, IsRepo(repo), NEW q, IsDelete(q)
  PROVE  /\ IsRepo(Undo(repo, q))
         /\ Undo(repo, q).manifests = [repo.manifests EXCEPT ![q.digest] = q.removed_manifest]
         /\ Undo(repo, q).tags =
              [t \in Tags |-> IF t \in q.removed_tags THEN q.digest ELSE repo.tags[t]]
<1> DEFINE new == rollback_delete(repo, q)
<1>1. new \in [listed: {new.listed}, manifests: {new.manifests},
               tags: {new.tags}, referrers: {new.referrers}]
  BY Zenon DEF rollback_delete, IsRepo
<1>2. new.manifests = [repo.manifests EXCEPT ![q.digest] = q.removed_manifest]
  BY DEF rollback_delete, IsRepo
<1>3. new.tags = [t \in Tags |-> IF t \in q.removed_tags THEN q.digest ELSE repo.tags[t]]
  BY DEF rollback_delete, IsRepo
<1>4. Undo(repo, q) = new
  BY DEF Undo, IsDelete
<1> HIDE DEF new
<1>5. IsRepo(new)
  BY <1>1, <1>2, <1>3 DEF IsRepo, IsDelete
<1> QED
  BY <1>2, <1>3, <1>4, <1>5

\* Rolling a push back brings back the manifest and the tag that were there.
LEMMA UndoPut ==
  ASSUME NEW repo, IsRepo(repo), NEW q, q.digest \in Digests, q.media_type \in MediaTypes,
         NEW p, IsPut(p), p.digest = q.digest, p.reference = q.reference,
         p.prev_manifest = repo.manifests[q.digest],
         q.reference \in Tags => p.prev_tag = repo.tags[q.reference]
  PROVE  /\ Undo(put_manifest(repo, q), p).manifests = repo.manifests
         /\ Undo(put_manifest(repo, q), p).tags = repo.tags
<1> DEFINE new == put_manifest(repo, q)
<1>1. /\ IsRepo(new)
      /\ new.manifests = [repo.manifests EXCEPT ![q.digest] = [media_type |-> q.media_type,
                                                               body |-> q.digest]]
      /\ new.tags = IF q.reference \in Tags THEN [repo.tags EXCEPT ![q.reference] = q.digest]
                    ELSE repo.tags
  BY PutFields
<1> HIDE DEF new
<1>2. /\ Undo(new, p).manifests = [new.manifests EXCEPT ![p.digest] = p.prev_manifest]
      /\ Undo(new, p).tags =
           IF p.reference \in Tags THEN [new.tags EXCEPT ![p.reference] = p.prev_tag]
           ELSE new.tags
  BY <1>1, UndoPutFields
<1>3. Undo(new, p).manifests = repo.manifests
  BY <1>1, <1>2 DEF IsRepo
<1>4. Undo(new, p).tags = repo.tags
  <2>1. CASE q.reference \in Tags
    BY <1>1, <1>2, <2>1 DEF IsRepo
  <2>2. CASE q.reference \notin Tags
    BY <1>1, <1>2, <2>2
  <2> QED
    BY <2>1, <2>2
<1> QED
  BY <1>3, <1>4 DEF new

\* Rolling a delete back brings back the manifest and its tags.
LEMMA UndoDelete ==
  ASSUME NEW repo, IsRepo(repo), NEW p, IsDelete(p),
         p.removed_manifest = repo.manifests[p.digest],
         p.removed_tags = {t \in Tags : repo.tags[t] = p.digest}
  PROVE  /\ Undo(delete_manifest(repo, p.digest), p).manifests = repo.manifests
         /\ Undo(delete_manifest(repo, p.digest), p).tags = repo.tags
<1> DEFINE new == delete_manifest(repo, p.digest)
<1>1. /\ IsRepo(new)
      /\ new.manifests = [repo.manifests EXCEPT ![p.digest] = NoManifest]
      /\ new.tags = [t \in Tags |-> IF repo.tags[t] = p.digest THEN NoDigest ELSE repo.tags[t]]
  BY DeleteFields DEF IsDelete
<1> HIDE DEF new
<1>2. /\ Undo(new, p).manifests = [new.manifests EXCEPT ![p.digest] = p.removed_manifest]
      /\ Undo(new, p).tags =
           [t \in Tags |-> IF t \in p.removed_tags THEN p.digest ELSE new.tags[t]]
  BY <1>1, UndoDeleteFields
<1>3. Undo(new, p).manifests = repo.manifests
  BY <1>1, <1>2 DEF IsRepo
<1>4. ASSUME NEW t \in Tags PROVE Undo(new, p).tags[t] = repo.tags[t]
  BY <1>1, <1>2
<1>5. repo.tags \in [Tags -> Digests \cup {NoDigest}]
  BY DEF IsRepo
<1>6. Undo(new, p).tags = repo.tags
  BY <1>2, <1>4, <1>5
<1> QED
  BY <1>3, <1>6 DEF new

\* The manifests whose bytes hash to their key.
Intact(m) ==
  [d \in Digests |-> IF m[d] # NoManifest /\ m[d].body # d THEN NoManifest ELSE m[d]]

\* load_snapshot keeps the tags and the manifests whose bytes are right.
LEMMA LoadFields ==
  ASSUME NEW snapshot,
         NEW n \in Names, IsRepo(snapshot[n])
  PROVE  /\ IsRepo(load_snapshot(snapshot)[n])
         /\ load_snapshot(snapshot)[n].manifests = Intact(snapshot[n].manifests)
         /\ load_snapshot(snapshot)[n].tags = snapshot[n].tags
<1> DEFINE old == snapshot[n]
           new == load_snapshot(snapshot)[n]
<1>1. /\ new \in [listed: {new.listed}, manifests: {new.manifests},
                tags: {new.tags}, referrers: {new.referrers}]
      /\ new.tags = old.tags
      /\ new.manifests = Intact(old.manifests)
  BY DEF load_snapshot, IsRepo, Intact
<1> HIDE DEF new
<1>2. IsRepo(new)
  BY <1>1 DEF IsRepo, Intact
<1> QED
  BY <1>1, <1>2 DEF new

----------------------------------------------------------------------------
(* The invariant. *)

Addressed(m) == \A d \in Held(m) : m[d].body = d

Tagged(m, tags) == \A t \in Tags : tags[t] \in Held(m) \cup {NoDigest}

\* Everything that the manifests refer to is there.
Complete(m) ==
  \A d \in Held(m) :
    IF m[d].media_type \in index_types THEN children[d] \subseteq blobs \cup Held(m)
    ELSE layers[d] \subseteq blobs \cup {EmptyDescriptor}

\* What a request has looked up so far was there, and no roll-back of the
\* mutation that is being saved takes it away.
Verified(q) ==
  IF q.media_type \in index_types
  THEN children[q.digest] \ q.unverified \subseteq blobs \cup Held(Kept(q.name).manifests)
  ELSE layers[q.digest] \ q.unverified \subseteq blobs \cup {EmptyDescriptor}

MetaType ==
  /\ repos \in [Names -> {repos[n] : n \in Names}]
  /\ disk \in [Names -> {disk[n] : n \in Names}]
  /\ \A n \in Names : IsRepo(repos[n]) /\ IsRepo(disk[n])
  /\ writer \in Requests \cup {NoWriter}
  /\ pc \in [Requests -> {"idle", "verify", "rename", "dirsync"}]
  /\ req \in [Requests -> {req[r] : r \in Requests}]
  /\ \A r \in Requests :
       /\ pc[r] = "verify" => req[r] \in Verifying
       /\ pc[r] \in {"rename", "dirsync"} <=> writer = r
       /\ writer = r =>
            \/ IsPut(req[r]) /\ repos[req[r].name].manifests[req[r].digest] # NoManifest
            \/ IsDelete(req[r]) /\ removed

\* In memory, on disk and after a roll-back the same holds.  A damaged snapshot
\* keeps only its shape, and deleting things may break references.
MetaInv ==
  /\ MetaType
  /\ \A n \in Names :
       /\ Addressed(repos[n].manifests) /\ Addressed(Kept(n).manifests)
       /\ ~corrupted =>
            /\ Addressed(disk[n].manifests)
            /\ Tagged(repos[n].manifests, repos[n].tags)
            /\ Tagged(Kept(n).manifests, Kept(n).tags)
            /\ Tagged(disk[n].manifests, disk[n].tags)
       /\ ~corrupted /\ ~removed =>
            /\ Complete(repos[n].manifests)
            /\ Complete(Kept(n).manifests)
            /\ Complete(disk[n].manifests)
  /\ ~corrupted /\ ~removed =>
       \A r \in Requests : pc[r] = "verify" => Verified(req[r])

\* An empty registry.
LEMMA MetaInit == Init => MetaInv
<1> SUFFICES ASSUME Init PROVE MetaInv
  OBVIOUS
<1>1. /\ IsRepo(EmptyRepo) /\ Held(EmptyRepo.manifests) = {}
      /\ \A t \in Tags : EmptyRepo.tags[t] = NoDigest
  BY DEF EmptyRepo, IsRepo, Held
<1>2. \A n \in Names : repos[n] = EmptyRepo /\ disk[n] = EmptyRepo /\ Kept(n) = EmptyRepo
  BY DEF Init, Kept
<1> HIDE DEF EmptyRepo
<1>3. MetaType
  BY <1>1, <1>2, MetaAssumption DEF Init, MetaType
<1>4. \A r \in Requests : pc[r] # "verify"
  BY DEF Init
<1> QED
  BY <1>1, <1>2, <1>3, <1>4 DEF MetaInv, Addressed, Tagged, Complete

\* A step that leaves the maps, the writer and its request alone, and after
\* which everything verified is still there (UploadBlob and the checks).
LEMMA QuietStep ==
  ASSUME MetaInv, MetaType', UNCHANGED <<repos, disk, writer, corrupted>>,
         writer # NoWriter => req'[writer] = req[writer],
         removed => removed',
         ~removed' => blobs \subseteq blobs',
         ~corrupted /\ ~removed' =>
           \A r \in Requests : pc'[r] = "verify" => Verified(req[r])'
  PROVE  MetaInv'
<1>1. \A n \in Names : Kept(n)' = Kept(n)
  BY DEF Kept, Undo
<1>2. ASSUME NEW m, ~removed', Complete(m) PROVE Complete(m)'
  BY <1>2 DEF Complete, Held
<1> QED
  BY <1>1, <1>2 DEF MetaInv, Addressed, Tagged, Held

\* A step that changes no blob, from what it makes of the maps.
LEMMA InvAfter ==
  ASSUME MetaType', UNCHANGED blobs,
         \A n \in Names :
           /\ Addressed(repos'[n].manifests) /\ Addressed(Kept(n)'.manifests)
           /\ ~corrupted' =>
                /\ Addressed(disk'[n].manifests)
                /\ Tagged(repos'[n].manifests, repos'[n].tags)
                /\ Tagged(Kept(n)'.manifests, Kept(n)'.tags)
                /\ Tagged(disk'[n].manifests, disk'[n].tags)
           /\ ~corrupted' /\ ~removed' =>
                /\ Complete(repos'[n].manifests)
                /\ Complete(Kept(n)'.manifests)
                /\ Complete(disk'[n].manifests),
         ~corrupted' /\ ~removed' =>
           \A r \in Requests : pc'[r] = "verify" => Verified(req[r])'
  PROVE  MetaInv'
<1>1. ASSUME NEW n \in Names, Complete(repos'[n].manifests) PROVE Complete(repos[n].manifests)'
  BY <1>1 DEF Complete
<1>2. ASSUME NEW n \in Names, Complete(Kept(n)'.manifests) PROVE Complete(Kept(n).manifests)'
  BY <1>2 DEF Complete
<1>3. ASSUME NEW n \in Names, Complete(disk'[n].manifests) PROVE Complete(disk[n].manifests)'
  BY <1>3 DEF Complete
<1> QED
  BY <1>1, <1>2, <1>3 DEF MetaInv

\* One look-up for a request (Put, VerifyReferenced), and a push that ends
\* because its digest is not that of the body.
LEMMA VerifyStep ==
  ASSUME MetaInv, NEW r \in Requests,
         \/ Put(r)
         \/ \E d \in Blobs \cup Digests : VerifyReferenced(r, d)
         \/ PutManifest(r) /\ UNCHANGED writer
  PROVE  MetaInv'
<1>t. MetaType
  BY DEF MetaInv
<1>1. pc[r] \in {"idle", "verify"} /\ writer # r
  BY <1>t, Zenon DEF Put, VerifyReferenced, PutManifest, MetaType
<1>2. /\ UNCHANGED <<repos, disk, blobs, writer, removed, corrupted>>
      /\ pc'[r] \in {"idle", "verify"}
      /\ \A s \in Requests \ {r} : pc'[s] = pc[s] /\ req'[s] = req[s]
      /\ pc' \in [Requests -> {"idle", "verify", "rename", "dirsync"}]
      /\ DOMAIN req' = Requests /\ req' = [s \in Requests |-> req'[s]]
  <2>1. CASE Put(r)
    BY <1>t, <2>1, Zenon DEF Put, MetaType
  <2>2. CASE \E d \in Blobs \cup Digests : VerifyReferenced(r, d)
    BY <1>t, <2>2 DEF VerifyReferenced, Return, MetaType
  <2>3. CASE PutManifest(r) /\ UNCHANGED writer
    BY <1>t, <1>1, <2>3, Zenon DEF PutManifest, Return, MetaType
  <2> QED
    BY <2>1, <2>2, <2>3
<1>3. \A n \in Names : Kept(n)' = Kept(n)
  BY <1>t, <1>1, <1>2, MetaAssumption DEF Kept, Undo, MetaType
<1>4. ASSUME pc'[r] = "verify"
      PROVE  /\ req'[r] \in Verifying
             /\ ~corrupted /\ ~removed => Verified(req'[r])
  <2>1. CASE Put(r)
    <3>1. PICK n \in Names, p \in Pushes :
            req' = [req EXCEPT ![r] =
                 [op |-> "put", name |-> n, reference |-> p.reference,
                  digest |-> p.digest, media_type |-> p.media_type,
                  unverified |-> IF p.media_type \in index_types
                                 THEN children[p.digest] ELSE layers[p.digest]]]
      BY <2>1, Zenon DEF Put
    <3>2. /\ p.reference \in Tags \cup Digests /\ p.digest \in Digests
          /\ p.media_type \in MediaTypes
          /\ children[p.digest] \subseteq Digests /\ layers[p.digest] \subseteq Blobs
      BY MetaAssumption
    <3>3. req'[r] = [op |-> "put", name |-> n, reference |-> p.reference,
                     digest |-> p.digest, media_type |-> p.media_type,
                     unverified |-> IF p.media_type \in index_types
                                    THEN children[p.digest] ELSE layers[p.digest]]
      BY <1>t, <3>1 DEF MetaType
    <3> QED
      BY <3>2, <3>3 DEF Verifying, Verified
  <2>2. CASE \E d \in Blobs \cup Digests : VerifyReferenced(r, d)
    <3>1. PICK d \in Blobs \cup Digests : VerifyReferenced(r, d)
      BY <2>2
    <3>2. /\ req[r] \in Verifying /\ req[r].name \in Names
          /\ req[r].digest \in Digests
      BY <1>t, <3>1 DEF VerifyReferenced, MetaType, Verifying
    <3>3. /\ Present(req[r], d)
          /\ req' = [req EXCEPT ![r].unverified = @ \ {d}]
          /\ req[r].media_type \in index_types => writer = NoWriter
      BY <1>4, <1>t, <3>1 DEF VerifyReferenced, Return, MetaType
    <3>4. /\ req'[r] \in Verifying
          /\ req'[r].name = req[r].name /\ req'[r].digest = req[r].digest
          /\ req'[r].media_type = req[r].media_type
          /\ req'[r].unverified = req[r].unverified \ {d}
      BY <1>t, <3>2, <3>3, Zenon DEF MetaType, Verifying
    <3>5. ASSUME ~corrupted, ~removed PROVE Verified(req'[r])
      <4>1. Verified(req[r])
        BY <3>1, <3>5 DEF MetaInv, VerifyReferenced
      <4>2. CASE req[r].media_type \in index_types
        <5>1. Kept(req[r].name) = repos[req[r].name]
          BY <3>3, <4>2 DEF Kept
        <5>2. d \in blobs \/ (d \in Digests => d \in Held(Kept(req[r].name).manifests))
          BY <3>3, <4>2, <5>1 DEF Present, get_manifest, Held
        <5>3. children[req[r].digest] \subseteq Digests
          BY <3>2, MetaAssumption
        <5> QED
          BY <3>4, <4>1, <4>2, <5>2, <5>3 DEF Verified
      <4>3. CASE req[r].media_type \notin index_types
        BY <3>3, <3>4, <4>1, <4>3 DEF Verified, Present, check_blob_present
      <4> QED
        BY <4>2, <4>3
    <3> QED
      BY <3>4, <3>5
  <2>3. CASE PutManifest(r) /\ UNCHANGED writer
    BY <1>4, <1>t, <1>1, <2>3, Zenon DEF PutManifest, Return, MetaType
  <2> QED
    BY <2>1, <2>2, <2>3
<1>5. MetaType'
  BY <1>t, <1>1, <1>2, <1>4 DEF MetaType
<1>6. ASSUME ~corrupted, ~removed, NEW s \in Requests, pc'[s] = "verify"
      PROVE  Verified(req[s])'
  <2>1. req'[s].name \in Names
    BY <1>5, <1>6 DEF MetaType, Verifying
  <2>2. Verified(req'[s])
    BY <1>2, <1>4, <1>6 DEF MetaInv
  <2> QED
    BY <1>2, <1>3, <2>1, <2>2 DEF Verified
<1> QED
  BY <1>2, <1>5, <1>6, <1>t, <1>1, QuietStep, MetaAssumption, Zenon DEF MetaType

\* A blob is uploaded or deleted.
LEMMA BlobStep ==
  ASSUME MetaInv, NEW b \in Blobs, UploadBlob(b) \/ DeleteBlob(b)
  PROVE  MetaInv'
<1>1. /\ UNCHANGED <<repos, writer, disk, pc, req, corrupted>>
      /\ removed => removed'
      /\ ~removed' => blobs \subseteq blobs'
  BY DEF UploadBlob, DeleteBlob
<1>2. MetaType'
  BY <1>1 DEF MetaInv, MetaType
<1>3. \A n \in Names : Kept(n)' = Kept(n)
  BY <1>1 DEF Kept
<1>4. ASSUME ~corrupted, ~removed', NEW r \in Requests, pc'[r] = "verify"
      PROVE  Verified(req[r])'
  <2>1. Verified(req[r]) /\ req[r].name \in Names
    BY <1>1, <1>4 DEF MetaInv, MetaType, Verifying
  <2> QED
    BY <1>1, <1>3, <1>4, <2>1 DEF Verified
<1> QED
  BY <1>1, <1>2, <1>4, QuietStep

\* A mutation takes the lock: a roll-back would bring the repository back as
\* it was, so only the new form is left to be looked at.
LEMMA MutateStep ==
  ASSUME MetaInv, MetaType', NEW r \in Requests,
         writer = NoWriter, UNCHANGED <<disk, blobs, corrupted>>, removed => removed',
         pc'[r] # "verify",
         \A s \in Requests \ {r} : pc'[s] = pc[s] /\ req'[s] = req[s],
         \A n \in Names : /\ Kept(n)'.manifests = repos[n].manifests
                          /\ Kept(n)'.tags = repos[n].tags
                          /\ Addressed(repos'[n].manifests)
                          /\ ~corrupted => Tagged(repos'[n].manifests, repos'[n].tags)
                          /\ ~corrupted /\ ~removed' => Complete(repos'[n].manifests)
  PROVE  MetaInv'
<1>1. \A n \in Names : Kept(n) = repos[n]
  BY DEF Kept
<1>2. ASSUME ~corrupted, ~removed', NEW s \in Requests, pc'[s] = "verify"
      PROVE  Verified(req[s])'
  <2>1. Verified(req[s]) /\ req[s].name \in Names /\ req'[s] = req[s]
    BY <1>2, Zenon DEF MetaInv, MetaType, Verifying
  <2> QED
    BY <1>1, <2>1 DEF Verified
<1>4. ASSUME NEW n \in Names
      PROVE  /\ Addressed(repos[n].manifests)' /\ Addressed(Kept(n).manifests)'
             /\ ~corrupted' =>
                  /\ Addressed(disk[n].manifests)'
                  /\ Tagged(repos[n].manifests, repos[n].tags)'
                  /\ Tagged(Kept(n).manifests, Kept(n).tags)'
                  /\ Tagged(disk[n].manifests, disk[n].tags)'
  BY <1>1 DEF MetaInv, Addressed, Tagged, Held
<1>5. ASSUME NEW n \in Names, ~corrupted', ~removed'
      PROVE  /\ Complete(repos'[n].manifests)
             /\ Complete(Kept(n)'.manifests)
             /\ Complete(disk'[n].manifests)
  BY <1>1, <1>5, Zenon DEF MetaInv
<1>6. ASSUME NEW n \in Names, ~corrupted', ~removed'
      PROVE  /\ Complete(repos[n].manifests)'
             /\ Complete(Kept(n).manifests)'
             /\ Complete(disk[n].manifests)'
  BY <1>5, <1>6, Zenon DEF Complete, Held
<1> QED
  BY <1>2, <1>4, <1>6 DEF MetaInv

\* put_manifest_with_referrer, once everything referenced was seen.
LEMMA PutStep ==
  ASSUME MetaInv, NEW r \in Requests, PutManifest(r), writer' # writer
  PROVE  MetaInv'
<1> DEFINE q == req[r]
           n == q.name
           m == repos[n].manifests
<1>t. MetaType
  BY Zenon DEF MetaInv
<1>1. /\ writer = NoWriter /\ writer' = r /\ pc[r] = "verify" /\ q.unverified = {}
      /\ repos' = [repos EXCEPT ![n] = put_manifest(@, q)]
      /\ pc' = [pc EXCEPT ![r] = "rename"]
      /\ req' = [req EXCEPT ![r] =
                  [op |-> "put", name |-> q.name, reference |-> q.reference,
                   digest |-> q.digest,
                   prev_manifest |-> repos[q.name].manifests[q.digest],
                   prev_tag |-> IF q.reference \in Tags
                                THEN repos[q.name].tags[q.reference] ELSE NoDigest]]
      /\ UNCHANGED <<disk, blobs, removed, corrupted>>
  BY DEF PutManifest
<1>2. q \in Verifying /\ n \in Names /\ q.digest \in Digests /\ q.media_type \in MediaTypes
  BY <1>t, <1>1 DEF MetaType, Verifying
<1>3. IsRepo(repos[n]) /\ DOMAIN repos = Names
  BY <1>t, <1>2, Zenon DEF MetaType
<1> DEFINE new == put_manifest(repos[n], q)
           entry == [media_type |-> q.media_type, body |-> q.digest]
<1>4. /\ IsRepo(new)
      /\ new.manifests = [m EXCEPT ![q.digest] = entry]
      /\ new.tags = IF q.reference \in Tags
                    THEN [repos[n].tags EXCEPT ![q.reference] = q.digest]
                    ELSE repos[n].tags
  BY <1>2, <1>3, PutFields
<1>5. repos'[n] = new /\ \A k \in Names \ {n} : repos'[k] = repos[k]
  BY <1>1, <1>2, <1>t, Zenon DEF MetaType
<1>6. /\ req'[r].op = "put" /\ req'[r].name = n /\ req'[r].digest = q.digest
      /\ req'[r].reference = q.reference
      /\ req'[r].prev_manifest = m[q.digest]
      /\ q.reference \in Tags => req'[r].prev_tag = repos[n].tags[q.reference]
      /\ q.reference \notin Tags => req'[r].prev_tag = NoDigest
  BY <1>1, <1>t, Zenon DEF MetaType
<1>7. IsPut(req'[r])
  BY <1>2, <1>3, <1>6, Zenon DEF IsPut, IsRepo
<1>8. entry # NoManifest /\ m \in [Digests -> Manifest \cup {NoManifest}]
      /\ repos[n].tags \in [Tags -> Digests \cup {NoDigest}]
  BY <1>2, <1>3, MetaAssumption DEF Manifest, IsRepo
<1> HIDE DEF new, entry
<1>9. Undo(new, req'[r]).manifests = m /\ Undo(new, req'[r]).tags = repos[n].tags
  BY <1>2, <1>3, <1>6, <1>7, UndoPut DEF new
<1>10. Held(new.manifests) = Held(m) \cup {q.digest}
  BY <1>2, <1>4, <1>8, Zenon DEF Held
<1>11. \A k \in Names : Kept(k)' = IF k = n THEN Undo(new, req'[r]) ELSE repos[k]
  BY <1>1, <1>5, <1>6, MetaAssumption DEF Kept
<1>12. MetaType'
  <2>1. \A k \in Names : IsRepo(repos'[k])
    BY <1>4, <1>5, <1>t, Zenon DEF MetaType
  <2>2. repos'[n].manifests[q.digest] # NoManifest
    BY <1>2, <1>4, <1>5, <1>8, Zenon
  <2>3. \A s \in Requests \ {r} : pc'[s] = pc[s] /\ req'[s] = req[s] /\ writer # s
    BY <1>1, <1>t, MetaAssumption DEF MetaType
  <2>4. \A s \in Requests : pc'[s] = "verify" => req'[s] \in Verifying
    BY <1>1, <1>t, <2>3, Zenon DEF MetaType
  <2>5. \A s \in Requests : pc'[s] \in {"rename", "dirsync"} <=> writer' = s
    BY <1>1, <1>t, <2>3 DEF MetaType
  <2>6. \A s \in Requests : writer' = s =>
          IsPut(req'[s]) /\ repos'[req'[s].name].manifests[req'[s].digest] # NoManifest
    BY <1>1, <1>6, <1>7, <2>2, Zenon
  <2>7. /\ pc' \in [Requests -> {"idle", "verify", "rename", "dirsync"}]
        /\ req' \in [Requests -> {req'[s] : s \in Requests}]
        /\ repos' \in [Names -> {repos'[k] : k \in Names}]
    BY <1>1, <1>t, Zenon DEF MetaType
  <2>8. \A k \in Names : IsRepo(disk'[k])
    BY <1>1, <1>t, Zenon DEF MetaType
  <2>9. /\ disk' \in [Names -> {disk'[k] : k \in Names}]
        /\ writer' \in Requests \cup {NoWriter}
    BY <1>1, <1>t DEF MetaType
  <2> QED
    BY <2>1, <2>4, <2>5, <2>6, <2>7, <2>8, <2>9, Zenon DEF MetaType
<1>13. Addressed(new.manifests)
  <2>1. Addressed(m)
    BY <1>2 DEF MetaInv
  <2> QED
    <3>1. new.manifests[q.digest].body = q.digest
      BY <1>2, <1>4, <1>8 DEF entry
    <3>2. \A d \in Held(m) \ {q.digest} : new.manifests[d] = m[d]
      BY <1>4, <1>8 DEF Held
    <3> QED
      BY <1>10, <2>1, <3>1, <3>2, Zenon DEF Addressed
<1>14. ~corrupted => Tagged(new.manifests, new.tags)
  <2>1. ~corrupted => Tagged(m, repos[n].tags)
    BY <1>2 DEF MetaInv
  <2> QED
    BY <1>2, <1>4, <1>8, <1>10, <2>1, Zenon DEF Tagged
<1>15. ASSUME ~corrupted, ~removed PROVE Complete(new.manifests)
  <2>1. Complete(m) /\ Verified(q)
    BY <1>1, <1>2, <1>15 DEF MetaInv
  <2>2. Kept(n) = repos[n]
    BY <1>1, Zenon DEF Kept
  <2>3. IF q.media_type \in index_types
        THEN children[q.digest] \subseteq blobs \cup Held(m)
        ELSE layers[q.digest] \subseteq blobs \cup {EmptyDescriptor}
    BY <1>1, <2>1, <2>2 DEF Verified
  <2>4. ASSUME NEW d \in Held(new.manifests)
        PROVE  IF new.manifests[d].media_type \in index_types
               THEN children[d] \subseteq blobs \cup Held(new.manifests)
               ELSE layers[d] \subseteq blobs \cup {EmptyDescriptor}
    <3>1. CASE d = q.digest
      <4>1. new.manifests[d].media_type = q.media_type
        BY <1>2, <1>4, <1>8, <3>1 DEF entry
      <4> QED
        BY <1>10, <2>3, <3>1, <4>1, Zenon
    <3>2. CASE d # q.digest
      <4>1. d \in Held(m) /\ new.manifests[d] = m[d]
        BY <1>4, <1>8, <1>10, <3>2, Zenon DEF Held
      <4> QED
        BY <1>10, <2>1, <4>1, Zenon DEF Complete
    <3> QED
      BY <3>1, <3>2
  <2> QED
    BY <2>4 DEF Complete
<1>16. ASSUME NEW k \in Names
       PROVE  /\ Kept(k)'.manifests = repos[k].manifests
              /\ Kept(k)'.tags = repos[k].tags
              /\ Addressed(repos'[k].manifests)
              /\ ~corrupted => Tagged(repos'[k].manifests, repos'[k].tags)
              /\ ~corrupted /\ ~removed' => Complete(repos'[k].manifests)
  <2>1. CASE k = n
    BY <1>1, <1>5, <1>9, <1>11, <1>13, <1>14, <1>15, <2>1, Zenon
  <2>2. CASE k # n
    BY <1>1, <1>5, <1>11, <2>2, Zenon DEF MetaInv
  <2> QED
    BY <2>1, <2>2
<1>17. /\ pc'[r] # "verify"
       /\ \A s \in Requests \ {r} : pc'[s] = pc[s] /\ req'[s] = req[s]
  BY <1>1, <1>t, Zenon DEF MetaType
<1> QED
  BY <1>1, <1>12, <1>16, <1>17, MutateStep

\* delete_manifest: the tags go with the manifest they name.
LEMMA DeleteStep ==
  ASSUME MetaInv, NEW r \in Requests, NEW n \in Names, NEW d \in Digests,
         DeleteManifest(r, n, d)
  PROVE  MetaInv'
<1> DEFINE m == repos[n].manifests
           new == delete_manifest(repos[n], d)
<1>t. MetaType
  BY DEF MetaInv
<1>1. /\ writer = NoWriter /\ writer' = r /\ pc[r] = "idle" /\ d \in Held(m)
      /\ repos' = [repos EXCEPT ![n] = delete_manifest(@, d)]
      /\ pc' = [pc EXCEPT ![r] = "rename"]
      /\ removed' = TRUE
      /\ UNCHANGED <<disk, blobs, corrupted>>
  BY DEF DeleteManifest, Stored, Held
<1>2. PICK taken :
        req' = [req EXCEPT ![r] =
          [op |-> "delete", name |-> n, digest |-> d, removed_manifest |-> m[d],
           removed_tags |-> {t \in Tags : repos[n].tags[t] = d},
           removed_referrers |-> taken]]
  BY Zenon DEF DeleteManifest
<1>3. IsRepo(repos[n]) /\ DOMAIN repos = Names
  BY <1>t DEF MetaType
<1>4. /\ IsRepo(new)
      /\ new.manifests = [m EXCEPT ![d] = NoManifest]
      /\ new.tags = [t \in Tags |-> IF repos[n].tags[t] = d THEN NoDigest
                                    ELSE repos[n].tags[t]]
  BY <1>3, DeleteFields
<1>5. repos'[n] = new /\ \A k \in Names \ {n} : repos'[k] = repos[k]
  BY <1>1, <1>t DEF MetaType
<1>6. /\ req'[r].op = "delete" /\ req'[r].name = n /\ req'[r].digest = d
      /\ req'[r].removed_manifest = m[d]
      /\ req'[r].removed_tags = {t \in Tags : repos[n].tags[t] = d}
  BY <1>2, <1>t DEF MetaType
<1>8. /\ m \in [Digests -> Manifest \cup {NoManifest}]
      /\ repos[n].tags \in [Tags -> Digests \cup {NoDigest}]
      /\ m[d] \in Manifest
  BY <1>1, <1>3, Zenon DEF IsRepo, Held
<1>7. IsDelete(req'[r])
  BY <1>6, <1>8, Zenon DEF IsDelete
<1>9. Undo(new, req'[r]).manifests = m /\ Undo(new, req'[r]).tags = repos[n].tags
  BY <1>3, <1>6, <1>7, UndoDelete
<1> HIDE DEF new
<1>10. Held(new.manifests) = Held(m) \ {d}
  BY <1>4, <1>8, Zenon DEF Held
<1>11. \A k \in Names : Kept(k)' = IF k = n THEN Undo(new, req'[r]) ELSE repos[k]
  BY <1>1, <1>5, <1>6, MetaAssumption DEF Kept
<1>12. MetaType'
  <2>1. \A k \in Names : IsRepo(repos'[k])
    BY <1>4, <1>5, <1>t, Zenon DEF MetaType
  <2>3. \A s \in Requests \ {r} : pc'[s] = pc[s] /\ req'[s] = req[s] /\ writer # s
    BY <1>1, <1>2, <1>t, MetaAssumption DEF MetaType
  <2>4. \A s \in Requests : pc'[s] = "verify" => req'[s] \in Verifying
    BY <1>1, <1>t, <2>3 DEF MetaType
  <2>5. \A s \in Requests : pc'[s] \in {"rename", "dirsync"} <=> writer' = s
    BY <1>1, <1>t, <2>3 DEF MetaType
  <2>6. \A s \in Requests : writer' = s => IsDelete(req'[s]) /\ removed'
    BY <1>1, <1>7, Zenon
  <2>7. /\ pc' \in [Requests -> {"idle", "verify", "rename", "dirsync"}]
        /\ req' \in [Requests -> {req'[s] : s \in Requests}]
        /\ repos' \in [Names -> {repos'[k] : k \in Names}]
    BY <1>1, <1>2, <1>t DEF MetaType
  <2>8. \A k \in Names : IsRepo(disk'[k])
    BY <1>1, <1>t DEF MetaType
  <2>9. /\ disk' \in [Names -> {disk'[k] : k \in Names}]
        /\ writer' \in Requests \cup {NoWriter}
    BY <1>1, <1>t, Zenon DEF MetaType
  <2> QED
    BY <2>1, <2>4, <2>5, <2>6, <2>7, <2>8, <2>9 DEF MetaType
<1>13. Addressed(new.manifests)
  <2>1. Addressed(m)
    BY DEF MetaInv
  <2> QED
    BY <1>4, <1>8, <1>10, <2>1 DEF Addressed, Held
<1>14. ~corrupted => Tagged(new.manifests, new.tags)
  <2>1. ~corrupted => Tagged(m, repos[n].tags)
    BY DEF MetaInv
  <2> QED
    BY <1>4, <1>8, <1>10, <2>1 DEF Tagged
<1>16. ASSUME NEW k \in Names
       PROVE  /\ Kept(k)'.manifests = repos[k].manifests
              /\ Kept(k)'.tags = repos[k].tags
              /\ Addressed(repos'[k].manifests)
              /\ ~corrupted => Tagged(repos'[k].manifests, repos'[k].tags)
              /\ ~corrupted /\ ~removed' => Complete(repos'[k].manifests)
  <2>1. CASE k = n
    BY <1>1, <1>5, <1>9, <1>11, <1>13, <1>14, <2>1, Zenon
  <2>2. CASE k # n
    BY <1>1, <1>5, <1>11, <2>2, Zenon DEF MetaInv
  <2> QED
    BY <2>1, <2>2
<1>17. /\ pc'[r] # "verify"
       /\ \A s \in Requests \ {r} : pc'[s] = pc[s] /\ req'[s] = req[s]
  BY <1>1, <1>2, <1>t, Zenon DEF MetaType
<1> QED
  BY <1>1, <1>12, <1>16, <1>17, MutateStep, Zenon

\* The snapshot is renamed into place (write_snapshot_atomic).
LEMMA RenameStep ==
  ASSUME MetaInv, NEW r \in Requests, SaveRename(r)
  PROVE  MetaInv'
<1>t. MetaType
  BY DEF MetaInv
<1>1. /\ disk' = repos /\ pc[r] = "rename" /\ pc' = [pc EXCEPT ![r] = "dirsync"]
      /\ UNCHANGED <<repos, writer, blobs, req, removed, corrupted>>
  BY DEF SaveRename
<1>2. \A n \in Names : Kept(n)' = Kept(n)
  BY <1>1 DEF Kept
<1>3. \A s \in Requests : /\ pc'[s] \in {"rename", "dirsync"} <=> pc[s] \in {"rename", "dirsync"}
                          /\ pc'[s] = "verify" <=> pc[s] = "verify"
  BY <1>1, <1>t, Zenon DEF MetaType
<1>4. MetaType'
  BY <1>1, <1>3, <1>t, Zenon DEF MetaType
<1>5. ASSUME NEW s \in Requests, pc'[s] = "verify", ~corrupted, ~removed
      PROVE  Verified(req[s])'
  <2>1. Verified(req[s]) /\ req[s].name \in Names
    BY <1>3, <1>5, Zenon DEF MetaInv, MetaType, Verifying
  <2> QED
    BY <1>1, <1>2, <2>1 DEF Verified
<1>6. ASSUME NEW n \in Names
      PROVE  /\ Addressed(repos'[n].manifests) /\ Addressed(Kept(n)'.manifests)
             /\ ~corrupted' =>
                  /\ Addressed(disk'[n].manifests)
                  /\ Tagged(repos'[n].manifests, repos'[n].tags)
                  /\ Tagged(Kept(n)'.manifests, Kept(n)'.tags)
                  /\ Tagged(disk'[n].manifests, disk'[n].tags)
             /\ ~corrupted' /\ ~removed' =>
                  /\ Complete(repos'[n].manifests)
                  /\ Complete(Kept(n)'.manifests)
                  /\ Complete(disk'[n].manifests)
  BY <1>1, <1>2, Zenon DEF MetaInv
<1> QED
  BY <1>1, <1>4, <1>5, <1>6, InvAfter, Zenon

\* The lock is given back, after the directory's fsync or after a roll-back.
LEMMA UnlockStep ==
  ASSUME MetaInv, NEW r \in Requests, SaveDirSync(r) \/ SaveFails(r)
  PROVE  MetaInv'
<1> DEFINE q == req[r]
<1>t. MetaType
  BY DEF MetaInv
<1>1. /\ pc[r] \in {"rename", "dirsync"} /\ writer' = NoWriter
      /\ pc' = [pc EXCEPT ![r] = "idle"]
      /\ req' = [req EXCEPT ![r] = NoRequest]
      /\ UNCHANGED <<disk, blobs, removed, corrupted>>
      /\ repos' = repos \/ repos' = [repos EXCEPT ![q.name] = Undo(@, q)]
  BY Zenon DEF SaveDirSync, SaveFails, Return, Undo
<1>2. /\ writer = r /\ q.name \in Names /\ IsRepo(repos[q.name]) /\ q.digest \in Digests
      /\ \/ IsPut(q) /\ repos[q.name].manifests[q.digest] # NoManifest
         \/ IsDelete(q) /\ removed
  BY <1>t, <1>1, Zenon DEF MetaType, IsPut, IsDelete
<1>3. \A n \in Names : Kept(n) = IF n = q.name THEN Undo(repos[n], q) ELSE repos[n]
  BY <1>2, MetaAssumption, Zenon DEF Kept
<1>4. \A n \in Names : repos'[n] = repos[n] \/ repos'[n] = Kept(n)
  BY <1>1, <1>2, <1>3, <1>t, Zenon DEF MetaType
<1>5. \A n \in Names : Kept(n)' = repos'[n]
  BY <1>1 DEF Kept
<1>6. \A n \in Names : IsRepo(Kept(n))
  <2>1. IsRepo(Undo(repos[q.name], q))
    BY <1>2, UndoPutFields, UndoDeleteFields, Zenon
  <2> QED
    BY <1>3, <1>t, <2>1 DEF MetaType
<1>7. MetaType'
  <2>1. \A n \in Names : IsRepo(repos'[n]) /\ IsRepo(disk'[n])
    BY <1>1, <1>4, <1>6, <1>t DEF MetaType
  <2>2. \A s \in Requests \ {r} : pc'[s] = pc[s] /\ req'[s] = req[s] /\ writer # s
    BY <1>1, <1>2, <1>t DEF MetaType
  <2>3. pc'[r] = "idle"
    BY <1>1, <1>t DEF MetaType
  <2>4. \A s \in Requests : /\ pc'[s] = "verify" => req'[s] \in Verifying
                            /\ pc'[s] \notin {"rename", "dirsync"}
    BY <1>t, <2>2, <2>3 DEF MetaType
  <2>5. \A s \in Requests : writer' # s
    BY <1>1, MetaAssumption
  <2>6. /\ pc' \in [Requests -> {"idle", "verify", "rename", "dirsync"}]
        /\ req' \in [Requests -> {req'[s] : s \in Requests}]
        /\ repos' \in [Names -> {repos'[k] : k \in Names}]
    BY <1>1, <1>t DEF MetaType
  <2>7. /\ disk' \in [Names -> {disk'[k] : k \in Names}]
        /\ writer' \in Requests \cup {NoWriter}
    BY <1>1, <1>t DEF MetaType
  <2> QED
    BY <2>1, <2>4, <2>5, <2>6, <2>7, Zenon DEF MetaType
\* Without deletes, a roll-back leaves no more than what is in memory.
<1>8. ASSUME ~removed, NEW n \in Names
      PROVE  Held(Kept(n).manifests) \subseteq Held(repos'[n].manifests)
  <2>1. IsPut(q) /\ repos[q.name].manifests[q.digest] # NoManifest
    BY <1>2, <1>8
  <2>2. Undo(repos[q.name], q).manifests =
          [repos[q.name].manifests EXCEPT ![q.digest] = q.prev_manifest]
    BY <1>2, <2>1, UndoPutFields, Zenon
  <2>3. repos[q.name].manifests \in [Digests -> Manifest \cup {NoManifest}]
    BY <1>2, Zenon DEF IsRepo
  <2>4. Held(Undo(repos[q.name], q).manifests) \subseteq Held(repos[q.name].manifests)
    BY <2>1, <2>2, <2>3, Zenon DEF Held
  <2> QED
    BY <1>3, <1>4, <2>4, Zenon
<1>9. ASSUME NEW s \in Requests, pc'[s] = "verify", ~corrupted, ~removed
      PROVE  Verified(req[s])'
  <2>1. s # r /\ pc[s] = "verify" /\ req'[s] = req[s]
    BY <1>1, <1>9, <1>t, Zenon DEF MetaType
  <2>2. Verified(req[s]) /\ req[s].name \in Names
    BY <1>9, <2>1, Zenon DEF MetaInv, MetaType, Verifying
  <2> QED
    BY <1>1, <1>5, <1>8, <1>9, <2>1, <2>2 DEF Verified
<1>10. ASSUME NEW n \in Names
       PROVE  /\ Addressed(repos'[n].manifests)
              /\ ~corrupted => Tagged(repos'[n].manifests, repos'[n].tags)
              /\ ~corrupted /\ ~removed => Complete(repos'[n].manifests)
  BY <1>4, Zenon DEF MetaInv
<1>11. ASSUME NEW n \in Names
       PROVE  /\ ~corrupted => /\ Addressed(disk'[n].manifests)
                               /\ Tagged(disk'[n].manifests, disk'[n].tags)
              /\ ~corrupted /\ ~removed => Complete(disk'[n].manifests)
  BY <1>1, Zenon DEF MetaInv
<1> QED
  BY <1>1, <1>5, <1>7, <1>9, <1>10, <1>11, InvAfter, Zenon

\* The process is restarted on a snapshot that may be damaged
\* (with_persistence, load_snapshot).
LEMMA RestartStep ==
  ASSUME MetaInv, Crash \/ Corrupt
  PROVE  MetaInv'
<1>t. MetaType
  BY DEF MetaInv
<1>1. /\ repos' = load_snapshot(disk') /\ writer' = NoWriter
      /\ pc' = [r \in Requests |-> "idle"] /\ req' = [r \in Requests |-> NoRequest]
      /\ UNCHANGED <<blobs, removed>>
  BY DEF Crash, Corrupt, Restart
<1>2. ~corrupted' => disk' = disk /\ ~corrupted
  BY DEF Crash, Corrupt
<1>3. /\ disk' \in [Names -> {disk'[n] : n \in Names}]
      /\ \A n \in Names : IsRepo(disk'[n])
  <2>1. CASE disk' = disk
    BY <1>t, <2>1 DEF MetaType
  <2>2. CASE disk' = [n \in Names |-> EmptyRepo]
    <3>1. IsRepo(EmptyRepo)
      BY DEF EmptyRepo, IsRepo
    <3> QED
      BY <2>2, <3>1
  <2>3. ASSUME NEW n \in Names, NEW d \in Stored(disk[n]),
               NEW body \in (Digests \cup {NoDigest}) \ {d},
               disk' = [disk EXCEPT ![n].manifests[d].body = body]
        PROVE  /\ disk' \in [Names -> {disk'[k] : k \in Names}]
               /\ \A k \in Names : IsRepo(disk'[k])
    <3> DEFINE old == disk[n]
               entry == [old.manifests[d] EXCEPT !.body = body]
               new == [old EXCEPT !.manifests = [old.manifests EXCEPT ![d] = entry]]
    <3>o. IsRepo(old)
      BY <1>t DEF MetaType
    <3>1. IsRepo(old) /\ d \in Digests /\ old.manifests[d] \in Manifest
      BY <3>o DEF Stored, IsRepo
    <3>2. entry \in Manifest
      BY <3>1 DEF Manifest
    <3>3. disk' = [disk EXCEPT ![n] = new]
      BY <2>3
    <3> HIDE DEF entry
    <3>4. /\ new.manifests = [old.manifests EXCEPT ![d] = entry] /\ new.tags = old.tags
          /\ new \in [listed: {new.listed}, manifests: {new.manifests},
                      tags: {new.tags}, referrers: {new.referrers}]
      BY <3>1 DEF IsRepo
    <3> HIDE DEF new
    <3>5. IsRepo(new)
      BY <3>1, <3>2, <3>4 DEF IsRepo
    <3> QED
      BY <1>t, <3>3, <3>5 DEF MetaType
  <2> QED
    BY <2>1, <2>2, <2>3 DEF Crash, Corrupt
<1>4. ASSUME NEW n \in Names
      PROVE  /\ IsRepo(repos'[n])
             /\ repos'[n].manifests = Intact(disk'[n].manifests)
             /\ repos'[n].tags = disk'[n].tags
  BY <1>1, <1>3, LoadFields
<1>5. \A n \in Names : Kept(n)' = repos'[n]
  BY <1>1 DEF Kept
<1>6. MetaType'
  <2>1. /\ pc' \in [Requests -> {"idle", "verify", "rename", "dirsync"}]
        /\ req' \in [Requests -> {req'[s] : s \in Requests}]
        /\ writer' \in Requests \cup {NoWriter}
        /\ \A r \in Requests : pc'[r] = "idle" /\ writer' # r
    BY <1>1, MetaAssumption
  <2>2. repos' \in [Names -> {repos'[n] : n \in Names}]
    BY <1>1, Zenon DEF load_snapshot
  <2>3. \A n \in Names : IsRepo(repos'[n])
    BY <1>4
  <2> QED
    BY <1>3, <2>1, <2>2, <2>3 DEF MetaType
<1>7. ASSUME NEW n \in Names PROVE Addressed(repos'[n].manifests)
  <2> DEFINE m == repos'[n].manifests
             old == disk'[n].manifests
  <2>1. m = Intact(old)
    BY <1>4
  <2> HIDE DEF m, old
  <2>2. Addressed(m)
    BY <2>1 DEF Addressed, Held, Intact
  <2> QED
    BY <2>2 DEF m
<1>8. ASSUME NEW n \in Names, ~corrupted'
      PROVE  repos'[n].manifests = disk[n].manifests /\ repos'[n].tags = disk[n].tags
  <2>1. /\ Addressed(disk[n].manifests) /\ disk' = disk
        /\ disk[n].manifests \in [Digests -> Manifest \cup {NoManifest}]
    BY <1>2, <1>8, <1>t DEF MetaInv, MetaType, IsRepo
  <2> QED
    BY <1>4, <2>1 DEF Addressed, Held, Intact
<1>9. ASSUME NEW n \in Names, ~corrupted'
      PROVE  /\ disk'[n] = disk[n] /\ Addressed(disk[n].manifests)
             /\ Tagged(disk[n].manifests, disk[n].tags)
             /\ ~removed' => Complete(disk[n].manifests)
  BY <1>1, <1>2, <1>9, Zenon DEF MetaInv
<1>10. ASSUME NEW n \in Names, ~corrupted'
       PROVE  /\ Tagged(repos'[n].manifests, repos'[n].tags)
              /\ ~removed' => Complete(repos'[n].manifests)
  BY <1>8, <1>9, <1>10
<1>11. \A r \in Requests : pc'[r] # "verify"
  BY <1>1
<1> QED
  BY <1>1, <1>5, <1>6, <1>7, <1>9, <1>10, <1>11, InvAfter, Zenon

\* Every step keeps the invariant.
LEMMA MetaStep == MetaInv /\ [Next]_vars => MetaInv'
<1> SUFFICES ASSUME MetaInv, [Next]_vars PROVE MetaInv'
  OBVIOUS
<1>1. ASSUME NEW r \in Requests, PutManifest(r) PROVE MetaInv'
  BY <1>1, VerifyStep, PutStep
<1>2. ASSUME NEW b \in Blobs \ {EmptyDescriptor}, UploadBlob(b) \/ DeleteBlob(b)
      PROVE  MetaInv'
  BY <1>2, BlobStep
<1>3. ASSUME UNCHANGED vars PROVE MetaInv'
  <2>1. \A n \in Names : Kept(n)' = Kept(n)
    BY <1>3, Zenon DEF vars, Kept, Undo
  <2>2. MetaType'
    BY <1>3, Zenon DEF vars, MetaInv, MetaType
  <2>3. ASSUME ~corrupted, ~removed', NEW r \in Requests, pc'[r] = "verify"
        PROVE  Verified(req[r])'
    <3>1. Verified(req[r]) /\ req[r].name \in Names
      BY <1>3, <2>3 DEF vars, MetaInv, MetaType, Verifying
    <3> QED
      BY <1>3, <2>1, <3>1, Zenon DEF vars, Verified
  <2> QED
    BY <1>3, <2>2, <2>3, QuietStep DEF vars
<1> QED
  BY <1>1, <1>2, <1>3, VerifyStep, DeleteStep, RenameStep, UnlockStep, RestartStep DEF Next

\* The bytes served under a digest are those of that digest and every listed
\* tag can be pulled, through pushes, deletes, roll-backs, crashes and, for
\* the bytes, a damaged metadata.json (put_manifest, delete_manifest,
\* load_snapshot).
THEOREM ManifestsAddressed == Spec => []ManifestsSound
<1>1. MetaInv => ManifestsSound
  BY DEF MetaInv, ManifestsSound, ContentAddressed, TagsResolve, Addressed, Tagged, Stored, Held
<1> QED
  BY <1>1, MetaInit, MetaStep, PTL DEF Spec

\* Until something is deleted, whatever a stored manifest refers to can be
\* pulled, although its references were looked up one by one before the lock
\* was taken (verify_referenced_blobs, put_manifest_with_referrer).
THEOREM ReferencesKept == Spec => []ReferencesPresent
<1>1. MetaInv => ReferencesPresent
  <2> SUFFICES ASSUME MetaInv, ~removed, ~corrupted, NEW n \in Names,
                      NEW repo \in {repos[n], disk[n]}, NEW d \in Stored(repo)
               PROVE  IF repo.manifests[d].media_type \in index_types
                      THEN children[d] \subseteq blobs \cup Stored(repo)
                      ELSE \A b \in layers[d] : get_blob(b)
    BY DEF ReferencesPresent
  <2>1. Complete(repo.manifests)
    BY DEF MetaInv
  <2> QED
    BY <2>1 DEF Complete, Held, Stored, get_blob
<1> QED
  BY <1>1, MetaInit, MetaStep, PTL DEF Spec

-----------------------------------------------------------------------------
(* Manifests that are pulled in ranges *)

\* A position in p + q is in one of the parts.
LEMMA InEither ==
  ASSUME NEW p \in Nat, NEW q \in Nat, NEW i \in 1..(p + q)
  PROVE  i \in 1..p \/ \E j \in 1..q : i = p + j
<1>1. CASE i <= p
  BY <1>1
<1>2. CASE p < i
  <2>1. i - p \in 1..q /\ i = p + (i - p)
    BY <1>2
  <2> QED
    BY <2>1, Zenon
<1> QED
  BY <1>1, <1>2

\* The bytes of a manifest up to one, and those after it up to another.
LEMMA BytesJoined ==
  ASSUME NEW d \in Digests, NEW k \in 0..Size[d], NEW e \in k..Size[d]
  PROVE  /\ SubSeq(Body(d), 1, k) \o SubSeq(Body(d), k + 1, e) = SubSeq(Body(d), 1, e)
         /\ Len(SubSeq(Body(d), 1, k)) = k
         /\ SubSeq(Body(d), 1, 0) = <<>>
         /\ SubSeq(Body(d), 1, Size[d]) = Body(d)
<1> DEFINE body == Body(d)
           bytes == {<<d, i>> : i \in 1..Size[d]}
           a == SubSeq(body, 1, k)
           b == SubSeq(body, k + 1, e)
           c == SubSeq(body, 1, e)
<1>1. Size[d] \in Nat
  BY ReadsAssumption
<1>2. body \in Seq(bytes) /\ Len(body) = Size[d]
  <2>1. body \in [1..Size[d] -> bytes]
    BY Zenon DEF Body
  <2> HIDE DEF body, bytes
  <2> QED
    BY <1>1, <2>1
<1> HIDE DEF body, bytes
<1>3. /\ a \in Seq(bytes) /\ Len(a) = k /\ \A i \in 1..k : a[i] = body[i]
      /\ b \in Seq(bytes) /\ Len(b) = e - k /\ \A i \in 1..(e - k) : b[i] = body[k + i]
      /\ c \in Seq(bytes) /\ Len(c) = e /\ \A i \in 1..e : c[i] = body[i]
  BY <1>1, <1>2
<1>4. SubSeq(body, 1, 0) = <<>>
  BY <1>1, <1>2
<1>5. SubSeq(body, 1, Size[d]) = body
  BY <1>1, <1>2
<1> HIDE DEF a, b, c
<1>6. a \o b = c
  <2> DEFINE ab == a \o b
  <2>1. /\ ab \in Seq(bytes) /\ Len(ab) = e
        /\ \A i \in 1..k : ab[i] = a[i]
        /\ \A i \in 1..(e - k) : ab[k + i] = b[i]
    <3>1. a \in Seq(bytes) /\ b \in Seq(bytes)
      BY <1>3, Zenon
    <3>2. /\ ab \in Seq(bytes) /\ Len(ab) = Len(a) + Len(b)
          /\ \A i \in 1..Len(a) : ab[i] = a[i]
          /\ \A i \in 1..Len(b) : ab[Len(a) + i] = b[i]
      BY <3>1
    <3> HIDE DEF ab
    <3>3. k + (e - k) = e
      BY <1>1
    <3> QED
      BY <1>3, <3>2, <3>3, Zenon
  <2> HIDE DEF ab
  <2>2. ASSUME NEW i \in 1..e PROVE ab[i] = c[i]
    <3>1. e - k \in Nat /\ e = k + (e - k)
      BY <1>1
    <3>2. i \in 1..k \/ \E j \in 1..(e - k) : i = k + j
      BY <3>1, InEither
    <3>3. CASE i \in 1..k
      BY <1>3, <2>1, <3>3, Zenon
    <3>4. CASE \E j \in 1..(e - k) : i = k + j
      <4>1. PICK j \in 1..(e - k) : i = k + j
        BY <3>4, Zenon
      <4>2. ab[k + j] = b[j] /\ b[j] = body[k + j]
        BY <1>3, <2>1, Zenon
      <4>3. c[i] = body[i]
        BY <1>3, Zenon
      <4> QED
        BY <4>1, <4>2, <4>3, Zenon
    <3> QED
      BY <3>2, <3>3, <3>4, Zenon
  <2>3. ab = c
    BY <1>3, <2>1, <2>2
  <2> QED
    BY <2>3 DEF ab
<1> QED
  BY <1>3, <1>4, <1>5, <1>6, Zenon DEF a, b, c, body

\* What a client that pulls has: nothing, or the bytes of a manifest up to one,
\* which is the last if it is done.
Pulled(p) ==
  \/ p.digest = NoDigest /\ p.got = <<>> /\ p.done = FALSE
  \/ /\ p.digest \in Digests
     /\ \E k \in 0..Size[p.digest] : p.got = SubSeq(Body(p.digest), 1, k)
     /\ p.done => p.got = Body(p.digest)

\* A 206 with the bytes from the first that was asked for to one of the manifest.
IsPart(answer, d, range) ==
  /\ range.kind \in {"bytes", "open"}
  /\ answer.digest = d /\ answer.start = range.start /\ answer.total = Size[d]
  /\ range.start \in Nat
  /\ \E e \in range.start..Size[d] : answer.body = SubSeq(Body(d), range.start + 1, e)

\* range_or_full_response clips the range to the manifest.
LEMMA PartSent ==
  ASSUME NEW d \in Digests, NEW range \in Ranges, range_or_full_response(d, range).status = 206
  PROVE  IsPart(range_or_full_response(d, range), d, range)
<1> DEFINE total == Size[d]
           last == total - 1
           end == IF range.kind = "bytes" THEN Smaller(range.end, last) ELSE last
           answer == range_or_full_response(d, range)
<1>1. total \in Nat /\ MaxByte \in Nat
  BY ReadsAssumption
<1>2. /\ range.kind \in {"bytes", "open", "ignored", "absent"}
      /\ range.kind \in {"bytes", "open"} => range.start \in 0..MaxByte
      /\ range.kind = "bytes" => range.end \in 0..MaxByte
  BY DEF Ranges
<1>3. /\ range.kind \notin {"ignored", "absent"}
      /\ ~((range.kind = "bytes" /\ range.start > range.end) \/ range.start > last)
  BY DEF range_or_full_response
<1>4. answer = [status |-> 206, digest |-> d, start |-> range.start, total |-> total,
                body |-> SubSeq(Body(d), range.start + 1, end + 1)]
  BY <1>3, Zenon DEF range_or_full_response
<1>5. range.kind \in {"bytes", "open"} /\ range.start \in Nat
  BY <1>1, <1>2, <1>3
<1>6. end + 1 \in range.start..total
  BY <1>1, <1>2, <1>3, <1>5 DEF Smaller
<1> HIDE DEF end, total, answer
<1>7. /\ answer.digest = d /\ answer.start = range.start /\ answer.total = total
      /\ answer.body = SubSeq(Body(d), range.start + 1, end + 1)
  BY <1>4, Zenon
<1> QED
  BY <1>5, <1>6, <1>7, Zenon DEF IsPart, answer, total

\* The answer to a range is joined to what the client has, or replaces it.
LEMMA PullStep ==
  ASSUME Pulled(pull), NEW n \in Names, NEW reference, NEW range \in Ranges,
         Pull(n, reference, range)
  PROVE  Pulled(pull')
<1> DEFINE d == Resolve(repos[n], reference)
           answer == range_or_full_response(d, range)
           kept == IF answer.digest = pull.digest THEN pull.got ELSE <<>>
           got == IF Len(kept) = answer.start THEN kept \o answer.body ELSE <<>>
<1>1. /\ d # NoDigest
      /\ range.kind \in {"bytes", "open"} => range.start = Len(pull.got)
      /\ \/ /\ answer.status = 200
            /\ pull' = [digest |-> d, got |-> answer.body, requests |-> pull.requests + 1,
                        done |-> TRUE]
         \/ /\ answer.status = 206
            /\ pull' = [digest |-> d, got |-> got, requests |-> pull.requests + 1,
                        done |-> Len(got) = answer.total]
  BY Zenon DEF Pull
<1>2. d \in Digests
  BY <1>1, Zenon DEF Resolve, Stored
<1>3. Size[d] \in Nat /\ NoDigest \notin Digests
  BY <1>2, ReadsAssumption, MetaAssumption
<1> HIDE DEF d
<1>4. CASE answer.status = 200
  <2>1. answer.body = Body(d)
    <3>1. range.kind \in {"ignored", "absent"}
      <4>1. CASE range.kind \notin {"ignored", "absent"}
        <5>1. answer.status \in {206, 416}
          BY <4>1 DEF range_or_full_response
        <5> HIDE DEF answer
        <5> QED
          BY <1>4, <5>1
      <4> QED
        BY <4>1, Zenon
    <3>2. answer = [status |-> 200, digest |-> d, start |-> 0, total |-> Size[d], body |-> Body(d)]
      BY <3>1, Zenon DEF range_or_full_response
    <3> HIDE DEF answer
    <3> QED
      BY <3>2, Zenon
  <2> HIDE DEF answer
  <2>2. pull'.digest = d /\ pull'.got = Body(d)
    BY <1>1, <1>4, <2>1
  <2>3. SubSeq(Body(d), 1, Size[d]) = Body(d) /\ Size[d] \in 0..Size[d]
    BY <1>2, <1>3, BytesJoined
  <2> QED
    BY <1>2, <2>2, <2>3, Zenon DEF Pulled
<1>5. CASE answer.status = 206
  <2>1. /\ range.kind \in {"bytes", "open"}
        /\ answer.digest = d /\ answer.start = range.start /\ answer.total = Size[d]
        /\ range.start \in Nat
        /\ \E e \in range.start..Size[d] :
             answer.body = SubSeq(Body(d), range.start + 1, e)
    <3>1. IsPart(answer, d, range)
      BY <1>2, <1>5, PartSent, Zenon
    <3> HIDE DEF answer
    <3> QED
      BY <3>1, Zenon DEF IsPart
  <2> HIDE DEF answer
  <2>2. PICK e \in range.start..Size[d] : answer.body = SubSeq(Body(d), range.start + 1, e)
    BY <2>1, Zenon
  <2>3. e \in 0..Size[d] /\ range.start \in 0..Size[d]
    BY <1>3, <2>1
  <2>4. range.start = Len(pull.got)
    BY <1>1, <2>1, Zenon
  <2>5. answer.digest = d /\ answer.start = range.start
    BY <2>1, Zenon
  <2>6. \E k \in 0..Size[d] : got = SubSeq(Body(d), 1, k)
    <3>1. CASE d = pull.digest
      <4>1. PICK k \in 0..Size[d] : pull.got = SubSeq(Body(d), 1, k)
        BY <1>1, <3>1, Zenon DEF Pulled
      <4>2. k = range.start
        BY <1>2, <1>3, <2>4, <4>1, BytesJoined
      <4>3. got = pull.got \o answer.body
        BY <2>4, <2>5, <3>1, Zenon
      <4>4. got = SubSeq(Body(d), 1, e)
        BY <1>2, <2>2, <2>3, <4>1, <4>2, <4>3, BytesJoined, Zenon
      <4> QED
        BY <2>3, <4>4, Zenon
    <3>2. CASE d # pull.digest
      <4>1. kept = <<>> /\ Len(kept) = 0
        BY <2>5, <3>2
      <4>2. SubSeq(Body(d), 1, 0) = <<>> /\ 0 \in 0..Size[d]
        BY <1>2, <1>3, BytesJoined
      <4>3. CASE range.start = 0
        <5>1. got = <<>> \o answer.body
          BY <2>5, <4>1, <4>3, Zenon
        <5>2. got = SubSeq(Body(d), 1, 0) \o SubSeq(Body(d), 0 + 1, e)
          BY <2>2, <4>2, <4>3, <5>1, Zenon
        <5>3. e \in 0..Size[d] /\ 0 \in 0..Size[d]
          BY <2>3, <4>2
        <5>4. got = SubSeq(Body(d), 1, e)
          BY <1>2, <5>2, <5>3, BytesJoined, Zenon
        <5> QED
          BY <2>3, <5>4, Zenon
      <4>4. CASE range.start # 0
        <5>1. got = <<>>
          BY <2>5, <4>1, <4>4, Zenon
        <5> QED
          BY <4>2, <5>1, Zenon
      <4> QED
        BY <4>3, <4>4, Zenon
    <3> QED
      BY <3>1, <3>2, Zenon
  <2> HIDE DEF got
  <2>7. /\ pull'.digest = d /\ pull'.got = got /\ pull'.done = (Len(got) = Size[d])
    BY <1>1, <1>5, <2>1
  <2>8. PICK k \in 0..Size[d] : got = SubSeq(Body(d), 1, k)
    BY <2>6, Zenon
  <2>9. Len(got) = k /\ SubSeq(Body(d), 1, Size[d]) = Body(d)
    BY <1>2, <1>3, <2>8, BytesJoined
  <2> QED
    BY <1>2, <2>6, <2>7, <2>8, <2>9, Zenon DEF Pulled
<1> QED
  BY <1>1, <1>4, <1>5, Zenon

\* A client that has made no request has nothing.
LEMMA PulledInit == ReadInit => Pulled(pull)
<1> SUFFICES ASSUME ReadInit PROVE Pulled(pull)
  OBVIOUS
<1>1. pull = NotPulling
  BY Zenon DEF ReadInit
<1> QED
  BY <1>1 DEF Pulled, NotPulling

\* Every step of the readers and of the world keeps it.
LEMMA PulledStep == Pulled(pull) /\ [ReadNext]_<<vars, readVars>> => Pulled(pull)'
<1> SUFFICES ASSUME Pulled(pull), [ReadNext]_<<vars, readVars>> PROVE Pulled(pull')
  BY Zenon DEF Pulled
<1>1. ASSUME NEW n \in Names, NEW p \in Pushes, PushManifest(n, p) PROVE Pulled(pull')
  BY <1>1, Zenon DEF PushManifest, Mutate
<1>2. ASSUME NEW n \in Names, NEW d \in Digests, DropManifest(n, d) PROVE Pulled(pull')
  BY <1>2, Zenon DEF DropManifest, Mutate
<1>3. ASSUME NEW n \in Names, NEW reference, NEW range \in Ranges, Pull(n, reference, range)
      PROVE  Pulled(pull')
  BY <1>3, PullStep, Zenon
<1>4. ASSUME NEW of, NEW n, StartListing(of, n) PROVE Pulled(pull')
  BY <1>4, Zenon DEF StartListing
<1>5. ASSUME NextPage PROVE Pulled(pull')
  BY <1>5, Zenon DEF NextPage
<1>6. ASSUME Leave PROVE Pulled(pull')
  <2>1. pull' = NotPulling
    BY <1>6, Zenon DEF Leave
  <2> QED
    BY <2>1 DEF Pulled, NotPulling
<1>7. ASSUME UNCHANGED <<vars, readVars>> PROVE Pulled(pull')
  BY <1>7, Zenon DEF readVars
<1> QED
  BY <1>1, <1>2, <1>3, <1>4, <1>5, <1>6, <1>7, Zenon DEF ReadNext

\* A client that pulls a manifest in ranges has its bytes from the first on, of
\* one digest only, and all of them when it stops, wherever the tag moves to
\* between the requests (get_manifest, range_or_full_response).
THEOREM PullsAreExact == ReadSpec => []PullExact
<1>1. Pulled(pull) => PullExact
  BY MetaAssumption, Zenon DEF Pulled, PullExact
<1> QED
  BY <1>1, PulledInit, PulledStep, PTL DEF ReadSpec
=============================================================================
