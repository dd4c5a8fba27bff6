----------------------- MODULE MavenRepository_proofs -----------------------
(***************************************************************************)
(* Proofs about MavenRepository, for any number of requests, versions,     *)
(* files and bodies: a DELETE takes no shared bytes, the file of a build   *)
(* is never replaced, a stored sidecar is true of its artifact, and the    *)
(* metadata lists what the layout holds.                                   *)
(***************************************************************************)
EXTENDS MavenRepository, TLAPS

----------------------------------------------------------------------------
(* Bytes *)

Entered == {"count", "stamp", "describe", "insert"}
Undisturbed == events \cap {"raced", "dropped"} = {}

\* Request, whatever the counters have reached.
OpenRequest == [path: Paths, digest: Digests, main: Digests \cup {NoDigest},
                build: Nat, versions: SUBSET Versions]

\* What the handlers know about the bytes they work with.  A PUT that has stored
\* its bytes finds them again; a DELETE that has found no reference holds the
\* guard, and there is none until it is done.
BytesInv ==
  /\ layout \in [Paths -> Digests \cup {NoDigest}]
  /\ pc \in [Requests -> Steps]
  /\ snapshot_counter \in [Bases -> Nat]
  /\ DOMAIN req = Requests
  /\ \A r \in Requests : pc[r] # "idle" => req[r] \in OpenRequest
  /\ Undisturbed =>
       /\ LayoutBlobPresent
       /\ detached = {}
       /\ \A r \in Requests :
            /\ pc[r] \in Entered => req[r].digest \in blobs
            /\ pc[r] = "delete" => /\ holder = r
                                   /\ \A p \in Paths : layout[p] # req[r].digest

\* An empty repository.
LEMMA BytesInit == Init => BytesInv
BY MavenAssumption DEF Init, BytesInv, LayoutBlobPresent, Steps, Entered

\* No step takes the bytes of a path, or of a PUT that has stored them.
LEMMA BytesStep == BytesInv /\ [Next]_vars => BytesInv'
<1> SUFFICES ASSUME BytesInv, [Next]_vars PROVE BytesInv'
  OBVIOUS
<1> USE MavenAssumption
<1> \A r \in Requests : pc[r] # "idle" => req[r].digest \in Digests
  BY DEF BytesInv, OpenRequest
<1>1. CASE UNCHANGED vars
  BY <1>1 DEF vars, BytesInv, Undisturbed, LayoutBlobPresent
<1>2. CASE \E r \in Requests : PutArtifact(r)
  <2> PICK r \in Requests : PutArtifact(r)
    BY <1>2
  <2>1. PICK p \in Puts :
          req' = [req EXCEPT ![r] = NewRequest(Path(p.kind, p.version, p.file, 0), p.body)]
    BY Zenon DEF PutArtifact
  <2>2. req'[r] \in OpenRequest
    BY <2>1 DEF BytesInv, NewRequest, OpenRequest, Path, Paths
  <2> QED
    BY <2>1, <2>2 DEF metadataVars, PutArtifact, BytesInv, Goto, Steps, Entered, asideVars, Undisturbed,
       LayoutBlobPresent
<1>3. CASE \E r \in Requests : PutChecksum(r)
  <2> PICK r \in Requests : PutChecksum(r)
    BY <1>3
  <2>1. PICK p \in Puts :
          /\ req' = [req EXCEPT ![r] =
                       [NewRequest(Path(p.kind, p.version, p.file, 0), p.body)
                          EXCEPT !.main = layout[Path("artifact", p.version, p.file, 0)]]]
          /\ pc' \in {[pc EXCEPT ![r] = "put"], [pc EXCEPT ![r] = "verify"]}
    BY Zenon DEF metadataVars, PutChecksum, Goto
  <2>2. req'[r] \in OpenRequest
    BY <2>1 DEF BytesInv, NewRequest, OpenRequest, Path, Paths
  <2> QED
    BY <2>1, <2>2 DEF metadataVars, PutChecksum, BytesInv, Steps, Entered, asideVars, Undisturbed,
       LayoutBlobPresent
<1>4. CASE \E r \in Requests : Verify(r) \/ StoreFails(r) \/ WriteIndex(r)
  BY <1>4 DEF metadataVars, Verify, StoreFails, WriteIndex, BytesInv, Goto, Return, NoRequest, Steps, Entered,
     asideVars, Undisturbed, LayoutBlobPresent
<1>5. CASE \E r \in Requests : Store(r)
  BY <1>5 DEF metadataVars, Store, BytesInv, Goto, Steps, Entered, asideVars, Undisturbed, LayoutBlobPresent
<1>6. CASE \E r \in Requests : Count(r)
  <2> PICK r \in Requests : Count(r)
    BY <1>6
  <2>1. /\ pc[r] = "count" /\ pc' = [pc EXCEPT ![r] = "stamp"]
        /\ req' = [req EXCEPT ![r].build = snapshot_counter[Base(r)] + 1]
        /\ events \subseteq events'
        /\ UNCHANGED <<blobs, layout, holder, detached>>
    BY DEF Count, Goto, Note
  <2>2. Base(r) \in Bases
    BY <2>1 DEF BytesInv, OpenRequest, Base, Paths
  <2>3. snapshot_counter[Base(r)] + 1 \in Nat /\ snapshot_counter' \in [Bases -> Nat]
    BY <2>2 DEF Count, BytesInv
  <2>4. /\ DOMAIN req' = Requests /\ req'[r] \in OpenRequest
        /\ req'[r].digest = req[r].digest
        /\ \A s \in Requests : s # r => req'[s] = req[s]
    BY <2>1, <2>3 DEF BytesInv, OpenRequest
  <2> QED
    BY <2>1, <2>4, <2>3 DEF BytesInv, Steps, Entered, Undisturbed, LayoutBlobPresent
<1>7. CASE \E r \in Requests : Stamp(r)
  <2> PICK r \in Requests : Stamp(r)
    BY <1>7
  <2>1. PICK q : layout' = [layout EXCEPT ![q] = req[r].digest]
    BY Zenon DEF Stamp
  <2>2. /\ pc[r] = "stamp" /\ holder = NoHolder
        /\ pc' = [pc EXCEPT ![r] = "describe"]
        /\ events' \in {events, events \cup {"overtaken"}}
        /\ UNCHANGED <<blobs, holder, req, detached, snapshot_counter>>
    BY DEF Stamp, metadataVars, Goto, Note
  <2>3. layout' \in [Paths -> Digests \cup {NoDigest}]
    BY <2>1, <2>2, Zenon DEF BytesInv
  <2>4. Undisturbed' => Undisturbed
    BY <2>2 DEF Undisturbed
  <2>5. \A p \in Paths : layout'[p] \in {layout[p], req[r].digest}
    BY <2>1 DEF BytesInv
  <2>6. Undisturbed' => LayoutBlobPresent'
    BY <2>2, <2>4, <2>5 DEF BytesInv, LayoutBlobPresent, Entered
  <2>7. ASSUME NEW s \in Requests, Undisturbed' PROVE pc'[s] # "delete"
    <3>1. pc[s] = "delete" => holder = s
      BY <2>4, <2>7 DEF BytesInv
    <3>2. holder # s
      BY <2>2
    <3> QED
      BY <2>2, <3>1, <3>2 DEF BytesInv
  <2> QED
    BY <2>2, <2>3, <2>4, <2>6, <2>7 DEF BytesInv, Steps, Entered
<1>8. CASE \E r \in Requests : Describe(r) \/ ReadVersions(r)
  <2> PICK r \in Requests : Describe(r) \/ ReadVersions(r)
    BY <1>8
  <2>1. \/ /\ pc[r] = "describe" /\ pc' = [pc EXCEPT ![r] = "insert"] /\ req' = req
        \/ /\ pc[r] = "versions" /\ pc' = [pc EXCEPT ![r] = "index"]
           /\ req' = [req EXCEPT ![r].versions = Listed]
    BY DEF Describe, ReadVersions, Goto
  <2>2. UNCHANGED <<blobs, layout, holder, detached, events, snapshot_counter>>
    BY DEF metadataVars, Describe, ReadVersions, asideVars
  <2>3. DOMAIN req' = Requests /\ \A s \in Requests : s # r => req'[s] = req[s]
    BY <2>1 DEF BytesInv
  <2>4. Listed \in SUBSET Versions
    BY DEF Listed, VersionsOf, Paths
  <2>5. req'[r] \in OpenRequest /\ req'[r].digest = req[r].digest
    BY <2>1, <2>4 DEF BytesInv, OpenRequest
  <2>6. pc' \in [Requests -> Steps]
    BY <2>1 DEF BytesInv, Steps
  <2>7. \A s \in Requests : /\ pc'[s] # "idle" => pc[s] # "idle"
                            /\ pc'[s] \in Entered => pc[s] \in Entered
                            /\ pc'[s] = "delete" => pc[s] = "delete"
    BY <2>1 DEF BytesInv, Entered
  <2> QED
    BY <2>2, <2>3, <2>5, <2>6, <2>7 DEF BytesInv, Undisturbed, LayoutBlobPresent
<1>9. CASE \E r \in Requests : Insert(r)
  <2> PICK r \in Requests : Insert(r)
    BY <1>9
  <2>1. layout' = [layout EXCEPT ![req[r].path] = req[r].digest]
    BY DEF Insert
  <2>2. /\ pc[r] = "insert" /\ holder = NoHolder
        /\ events \subseteq events'
        /\ UNCHANGED <<blobs, holder, detached, snapshot_counter>>
    BY DEF Insert, metadataVars
  <2>3. \/ pc' = [pc EXCEPT ![r] = "versions"] /\ req' = req
        \/ pc' = [pc EXCEPT ![r] = "idle"] /\ req' = [req EXCEPT ![r] = NoRequest]
    BY DEF Insert, Goto, Return
  <2>4. Undisturbed' => Undisturbed
    BY <2>2 DEF Undisturbed
  <2>5. layout' \in [Paths -> Digests \cup {NoDigest}]
    BY <2>1, <2>2, Zenon DEF BytesInv
  <2>6. \A p \in Paths : layout'[p] \in {layout[p], req[r].digest}
    BY <2>1 DEF BytesInv
  <2>7. Undisturbed' => LayoutBlobPresent'
    BY <2>2, <2>4, <2>6 DEF BytesInv, LayoutBlobPresent, Entered
  <2>8. DOMAIN req' = Requests /\ \A s \in Requests : s # r => req'[s] = req[s]
    BY <2>3 DEF BytesInv
  <2>9. /\ pc' \in [Requests -> Steps] /\ pc'[r] \in {"versions", "idle"}
        /\ \A s \in Requests : s # r => pc'[s] = pc[s]
        /\ pc'[r] # "idle" => req'[r] = req[r]
    BY <2>3 DEF BytesInv, Steps
  <2>10. ASSUME NEW s \in Requests, Undisturbed' PROVE pc'[s] # "delete"
    <3>1. pc[s] = "delete" => holder = s
      BY <2>4, <2>10 DEF BytesInv
    <3>2. holder # s
      BY <2>2
    <3> QED
      BY <2>9, <3>1, <3>2
  <2>11. \A s \in Requests : pc'[s] # "idle" => req'[s] \in OpenRequest
    BY <2>2, <2>8, <2>9 DEF BytesInv
  <2>12. Undisturbed' => \A s \in Requests : pc'[s] \in Entered => req'[s].digest \in blobs'
    BY <2>2, <2>4, <2>8, <2>9 DEF BytesInv, Entered
  <2> QED
    BY <2>2, <2>4, <2>5, <2>7, <2>8, <2>9, <2>10, <2>11, <2>12 DEF BytesInv
<1>10. CASE \E r \in Requests, p \in Paths : Delete(r, p)
  <2> PICK r \in Requests, p \in Paths : Delete(r, p)
    BY <1>10
  <2>1. layout[p] \in Digests
    BY DEF metadataVars, Delete, BytesInv
  <2>2. NewRequest(p, layout[p]) \in OpenRequest /\ NewRequest(p, layout[p]).digest = layout[p]
    BY <2>1 DEF NewRequest, OpenRequest
  <2> QED
    BY <2>1, <2>2 DEF metadataVars, Delete, BytesInv, Goto, Note, Steps, Entered, Undisturbed,
       LayoutBlobPresent
<1>11. CASE \E r \in Requests : DeleteBlob(r)
  BY <1>11 DEF metadataVars, DeleteBlob, BytesInv, Goto, Return, Note, Entering, Steps, Entered, Undisturbed,
     LayoutBlobPresent
<1>12. CASE \E r \in Requests : Drop(r)
  BY <1>12 DEF metadataVars, Drop, BytesInv, Return, Note, Steps, Undisturbed
<1>13. CASE PutMetadata
  BY <1>13 DEF metadataVars, PutMetadata, BytesInv, Note, Undisturbed, LayoutBlobPresent
<1>14. CASE Detached
  BY <1>14 DEF metadataVars, Detached, BytesInv, Undisturbed
<1> QED
  BY <1>1, <1>2, <1>3, <1>4, <1>5, <1>6, <1>7, <1>8, <1>9, <1>10, <1>11, <1>12, <1>13, <1>14
     DEF Next

\* A DELETE takes no bytes that another path refers to, unless it fell into a PUT
\* of the same bytes or a client hung up (handle_delete R5-1).
THEOREM SharedBytesKept == Spec => []SharedBlobKept
<1>1. BytesInv => SharedBlobKept
  BY DEF BytesInv, SharedBlobKept, Undisturbed
<1> QED
  BY <1>1, BytesInit, BytesStep, PTL DEF Spec

----------------------------------------------------------------------------
(* Builds *)

\* The paths a build number of a base version can be used for.
OfBuild(b, n) == {p \in Paths : p.build = n /\ base_version[p.version] = b}

\* A number that is drawn and not used yet is used by no path, and by no other
\* request.
BuildsInv ==
  /\ \A p \in Paths : p.build # 0 /\ layout[p] # NoDigest
                       => p.build <= snapshot_counter[base_version[p.version]]
  /\ \A r \in Requests : pc[r] \notin {"idle", "delete"} => req[r].path.build = 0
  /\ \A r \in Requests : pc[r] = "stamp" =>
       /\ req[r].build # 0 /\ req[r].build <= snapshot_counter[Base(r)]
       /\ \A p \in OfBuild(Base(r), req[r].build) : layout[p] = NoDigest
       /\ \A s \in Requests : s # r /\ pc[s] = "stamp" /\ Base(s) = Base(r)
                              => req[s].build # req[r].build

\* No build number is given yet.
LEMMA BuildsInit == Init => BuildsInv
BY MavenAssumption DEF Init, BuildsInv, OfBuild

\* A step that enters no path and draws no number.
Quiet ==
  /\ snapshot_counter' = snapshot_counter
  /\ \A p \in Paths : layout'[p] \in {layout[p], NoDigest}
  /\ \A r \in Requests :
       /\ pc'[r] = "stamp" => pc[r] = "stamp" /\ req'[r] = req[r]
       /\ pc'[r] \notin {"idle", "delete"} /\ pc[r] \notin {"idle", "delete"}
            => req'[r].path = req[r].path
       /\ pc'[r] \notin {"idle", "delete"} /\ pc[r] \in {"idle", "delete"}
            => req'[r].path.build = 0

\* A step that gives no build number and removes no coordinate keeps BuildsInv.
LEMMA QuietKeeps == BytesInv /\ BuildsInv /\ Quiet => BuildsInv'
<1> SUFFICES ASSUME BytesInv, BuildsInv, Quiet PROVE BuildsInv'
  OBVIOUS
<1>1. \A r \in Requests : pc'[r] = "stamp" =>
        pc[r] = "stamp" /\ req'[r] = req[r] /\ Base(r)' = Base(r)
  BY DEF Quiet, Base
<1>2. (\A p \in Paths : p.build # 0 /\ layout[p] # NoDigest
                        => p.build <= snapshot_counter[base_version[p.version]])'
  BY DEF Quiet, BuildsInv
<1>3. (\A r \in Requests : pc[r] \notin {"idle", "delete"} => req[r].path.build = 0)'
  BY DEF Quiet, BuildsInv
<1>4. ASSUME NEW r \in Requests, pc'[r] = "stamp"
      PROVE  /\ req'[r].build # 0 /\ req'[r].build <= snapshot_counter'[Base(r)']
             /\ \A p \in OfBuild(Base(r)', req'[r].build) : layout'[p] = NoDigest
             /\ \A s \in Requests : s # r /\ pc'[s] = "stamp" /\ Base(s)' = Base(r)'
                                    => req'[s].build # req'[r].build
  BY <1>1, <1>4 DEF Quiet, BuildsInv, OfBuild
<1> QED
  BY <1>2, <1>3, <1>4 DEF BuildsInv, OfBuild

\* Every step but the count, the stamp and the insertion is such a step.
LEMMA QuietSteps ==
  ASSUME BytesInv, BuildsInv, NEW r \in Requests,
         \/ PutArtifact(r) \/ PutChecksum(r) \/ Verify(r) \/ Store(r) \/ StoreFails(r)
         \/ Describe(r) \/ ReadVersions(r) \/ WriteIndex(r)
         \/ \E p \in Paths : Delete(r, p)
         \/ DeleteBlob(r) \/ Drop(r)
  PROVE  Quiet
<1>1. CASE PutArtifact(r)
  BY <1>1 DEF PutArtifact, Quiet, BytesInv, Goto, NewRequest, Path, metadataVars
<1>2. CASE PutChecksum(r)
  <2>1. PICK p \in Puts :
          /\ req' = [req EXCEPT ![r] =
                       [NewRequest(Path(p.kind, p.version, p.file, 0), p.body)
                          EXCEPT !.main = layout[Path("artifact", p.version, p.file, 0)]]]
          /\ pc' \in {[pc EXCEPT ![r] = "put"], [pc EXCEPT ![r] = "verify"]}
    BY <1>2, Zenon DEF PutChecksum, Goto
  <2>2. req'[r].path.build = 0
    BY <2>1, Zenon DEF BytesInv, NewRequest, Path
  <2> QED
    BY <1>2, <2>1, <2>2 DEF PutChecksum, Quiet, BytesInv, metadataVars
<1>3. CASE Verify(r) \/ Store(r) \/ StoreFails(r) \/ WriteIndex(r)
  BY <1>3, Zenon DEF Verify, Store, StoreFails, WriteIndex, Quiet, BytesInv, Goto, Return, metadataVars
<1>4. CASE Describe(r)
  BY <1>4 DEF Describe, Quiet, BytesInv, Goto
<1>5. CASE ReadVersions(r)
  <2>1. /\ pc[r] = "versions" /\ pc' = [pc EXCEPT ![r] = "index"]
        /\ req' = [req EXCEPT ![r].versions = Listed]
        /\ UNCHANGED <<layout, snapshot_counter>>
    BY <1>5 DEF ReadVersions, Goto, metadataVars
  <2>2. req'[r].path = req[r].path
    BY <2>1, Zenon DEF BytesInv, OpenRequest
  <2> QED
    BY <2>1, <2>2 DEF Quiet, BytesInv
<1>6. CASE \E p \in Paths : Delete(r, p)
  BY <1>6 DEF Delete, Quiet, BytesInv, Goto, metadataVars
<1>7. CASE DeleteBlob(r) \/ Drop(r)
  BY <1>7, Zenon DEF DeleteBlob, Drop, Quiet, BytesInv, Return, metadataVars
<1> QED
  BY <1>1, <1>2, <1>3, <1>4, <1>5, <1>6, <1>7, Zenon

\* What BuildsDistinct says of one step.
BuildKept ==
  \A p \in Paths : p.build # 0 /\ layout[p] # NoDigest => layout'[p] \in {layout[p], NoDigest}

\* A number is drawn: it is larger than any that is in use or waits to be used.
LEMMA CountKeeps ==
  ASSUME BytesInv, BuildsInv, NEW r \in Requests, Count(r) PROVE BuildsInv' /\ BuildKept
<1> DEFINE next == snapshot_counter[Base(r)] + 1
<1>1. /\ pc[r] = "count" /\ pc' = [pc EXCEPT ![r] = "stamp"]
      /\ snapshot_counter' = [snapshot_counter EXCEPT ![Base(r)] = next]
      /\ req' = [req EXCEPT ![r].build = next]
      /\ layout' = layout
  BY DEF Count, Goto
<1>2. Base(r) \in Bases /\ \A p \in Paths : base_version[p.version] \in Bases
  BY <1>1, MavenAssumption DEF BytesInv, OpenRequest, Base, Paths
<1>3. /\ req'[r].path = req[r].path /\ req'[r].build = next
      /\ \A s \in Requests : s # r => req'[s] = req[s] /\ pc'[s] = pc[s]
      /\ pc'[r] = "stamp"
  BY <1>1, Zenon DEF BytesInv, OpenRequest
<1>4. \A s \in Requests : Base(s)' = Base(s)
  BY <1>3 DEF Base
<1>5. /\ next \in Nat /\ next # 0 /\ next > snapshot_counter[Base(r)]
      /\ snapshot_counter'[Base(r)] = next
      /\ \A b \in Bases : /\ snapshot_counter[b] \in Nat /\ snapshot_counter'[b] \in Nat
                          /\ snapshot_counter[b] <= snapshot_counter'[b]
  BY <1>1, <1>2 DEF BytesInv
<1>6. \A p \in Paths : p.build \in Nat
  BY MavenAssumption DEF Paths
<1> HIDE DEF next
<1>7. (\A p \in Paths : p.build # 0 /\ layout[p] # NoDigest
                        => p.build <= snapshot_counter[base_version[p.version]])'
  BY <1>1, <1>2, <1>5, <1>6 DEF BuildsInv
<1>8. (\A s \in Requests : pc[s] \notin {"idle", "delete"} => req[s].path.build = 0)'
  BY <1>1, <1>3 DEF BuildsInv
<1>9. \A p \in OfBuild(Base(r), next) : layout[p] = NoDigest
  BY <1>2, <1>5, <1>6 DEF BuildsInv, OfBuild
<1>10. \A s \in Requests : s # r /\ pc[s] = "stamp" =>
         /\ Base(s) \in Bases /\ req[s].build \in Nat
         /\ Base(s) = Base(r) => req[s].build < next
  BY <1>5, MavenAssumption DEF BuildsInv, BytesInv, OpenRequest, Base, Paths
<1>11. ASSUME NEW s \in Requests, pc'[s] = "stamp"
       PROVE  /\ req'[s].build # 0 /\ req'[s].build <= snapshot_counter'[Base(s)]
              /\ \A p \in OfBuild(Base(s), req'[s].build) : layout'[p] = NoDigest
              /\ \A t \in Requests : t # s /\ pc'[t] = "stamp" /\ Base(t) = Base(s)
                                     => req'[t].build # req'[s].build
  <2>1. CASE s = r
    BY <2>1, <1>1, <1>3, <1>5, <1>9, <1>10
  <2>2. CASE s # r
    <3>1. pc[s] = "stamp" /\ req'[s] = req[s]
      BY <1>3, <1>11, <2>2
    <3>2. req[s].build <= snapshot_counter'[Base(s)]
      BY <3>1, <2>2, <1>5, <1>10 DEF BuildsInv
    <3>3. \A t \in Requests : t # s /\ pc'[t] = "stamp" /\ Base(t) = Base(s)
                             => req'[t].build # req'[s].build
      BY <3>1, <2>2, <1>3, <1>5, <1>10 DEF BuildsInv
    <3> QED
      BY <3>1, <3>2, <3>3, <1>1 DEF BuildsInv
  <2> QED
    BY <2>1, <2>2
<1> QED
  BY <1>1, <1>4, <1>7, <1>8, <1>11 DEF BuildsInv, BuildKept, OfBuild

\* The number is used: no path has it yet, and no other request will use it.
LEMMA StampKeeps ==
  ASSUME BytesInv, BuildsInv, NEW r \in Requests, Stamp(r) PROVE BuildsInv' /\ BuildKept
<1> DEFINE at == Stamped(req[r].path.version, req[r].path.file, req[r].build)
<1>1. /\ pc[r] = "stamp" /\ pc' = [pc EXCEPT ![r] = "describe"]
      /\ layout' = [layout EXCEPT ![at] = req[r].digest]
      /\ UNCHANGED <<snapshot_counter, req>>
  BY DEF Stamp, Goto, metadataVars
<1>2. at.build = req[r].build /\ base_version[at.version] = Base(r)
  BY DEF Stamped, Path, Base
<1> HIDE DEF at
<1>3. \A p \in Paths : p # at => layout'[p] = layout[p]
  BY <1>1 DEF BytesInv
<1>4. at \in Paths => layout[at] = NoDigest
  BY <1>1, <1>2 DEF BuildsInv, OfBuild
<1>5. \A s \in Requests : /\ pc'[s] = "stamp" => s # r /\ pc[s] = "stamp"
                          /\ pc'[s] \notin {"idle", "delete"} => pc[s] \notin {"idle", "delete"}
                          /\ Base(s)' = Base(s)
  BY <1>1 DEF BytesInv, Base
<1>6. (\A p \in Paths : p.build # 0 /\ layout[p] # NoDigest
                        => p.build <= snapshot_counter[base_version[p.version]])'
  BY <1>1, <1>2, <1>3 DEF BuildsInv
<1>7. ASSUME NEW s \in Requests, pc'[s] = "stamp"
      PROVE  \A p \in OfBuild(Base(s), req[s].build) : layout'[p] = NoDigest
  <2>1. Base(s) = Base(r) => req[s].build # req[r].build
    BY <1>1, <1>5, <1>7 DEF BuildsInv
  <2> QED
    BY <1>2, <1>3, <1>5, <1>7, <2>1 DEF BuildsInv, OfBuild
<1>8. BuildKept
  BY <1>3, <1>4 DEF BuildKept
<1> QED
  BY <1>1, <1>5, <1>6, <1>7, <1>8 DEF BuildsInv, OfBuild

\* The name a client used is entered, which has no build number.
LEMMA InsertKeeps ==
  ASSUME BytesInv, BuildsInv, NEW r \in Requests, Insert(r) PROVE BuildsInv' /\ BuildKept
<1>1. /\ pc[r] = "insert" /\ layout' = [layout EXCEPT ![req[r].path] = req[r].digest]
      /\ snapshot_counter' = snapshot_counter
      /\ \/ pc' = [pc EXCEPT ![r] = "versions"] /\ req' = req
         \/ pc' = [pc EXCEPT ![r] = "idle"] /\ req' = [req EXCEPT ![r] = NoRequest]
  BY DEF Insert, Goto, Return, metadataVars
<1>2. req[r].path.build = 0
  BY <1>1 DEF BuildsInv
<1>3. \A p \in Paths : p.build # 0 => layout'[p] = layout[p]
  BY <1>1, <1>2 DEF BytesInv
<1>4. \A s \in Requests : pc'[s] # "idle" => req'[s] = req[s] /\ Base(s)' = Base(s)
  BY <1>1 DEF BytesInv, Base
<1>5. \A s \in Requests : /\ pc'[s] = "stamp" => pc[s] = "stamp"
                          /\ pc'[s] \notin {"idle", "delete"} => pc[s] \notin {"idle", "delete"}
  BY <1>1 DEF BytesInv
<1>6. (\A p \in Paths : p.build # 0 /\ layout[p] # NoDigest
                        => p.build <= snapshot_counter[base_version[p.version]])'
  BY <1>1, <1>3 DEF BuildsInv
<1>7. (\A s \in Requests : pc[s] \notin {"idle", "delete"} => req[s].path.build = 0)'
  BY <1>4, <1>5 DEF BuildsInv
<1>8. ASSUME NEW s \in Requests, pc'[s] = "stamp"
      PROVE  /\ req'[s].build # 0 /\ req'[s].build <= snapshot_counter'[Base(s)']
             /\ \A p \in OfBuild(Base(s)', req'[s].build) : layout'[p] = NoDigest
             /\ \A t \in Requests : t # s /\ pc'[t] = "stamp" /\ Base(t)' = Base(s)'
                                    => req'[t].build # req'[s].build
  BY <1>1, <1>3, <1>4, <1>5, <1>8 DEF BuildsInv, OfBuild
<1> QED
  BY <1>3, <1>6, <1>7, <1>8 DEF BuildsInv, BuildKept, OfBuild

\* BuildsInv through every step, and no build is changed by one.
LEMMA BuildsStep == BytesInv /\ BuildsInv /\ [Next]_vars => BuildsInv' /\ BuildKept
<1> SUFFICES ASSUME BytesInv, BuildsInv, [Next]_vars PROVE BuildsInv' /\ BuildKept
  OBVIOUS
<1>1. Quiet => BuildsInv' /\ BuildKept
  BY QuietKeeps DEF Quiet, BuildKept
<1>2. CASE UNCHANGED vars \/ PutMetadata \/ Detached
  BY <1>1, <1>2, Zenon DEF vars, PutMetadata, Detached, Quiet, metadataVars
<1> QED
  BY <1>1, <1>2, QuietSteps, CountKeeps, StampKeeps, InsertKeeps DEF Next

\* The timestamped file of a build is never replaced by that of another, although
\* its number is drawn and used under different guards
\* (register_snapshot_timestamped).
THEOREM BuildsAreDistinct == Spec => BuildsDistinct
<1>1. BytesInv /\ BuildsInv /\ [Next]_vars => [BuildKept]_vars
  BY BuildsStep
<1> QED
  BY <1>1, BytesInit, BytesStep, BuildsInit, BuildsStep, PTL DEF Spec, BuildsDistinct, BuildKept

----------------------------------------------------------------------------
(* One request at a time *)

\* What is a function of what.
LEMMA Shapes ==
  BytesInv => /\ layout \in [Paths -> Digests \cup {NoDigest}]
              /\ pc \in [Requests -> Steps] /\ DOMAIN req = Requests
BY DEF BytesInv

\* A step of request r, which changes no other and forgets no event.
Only(r) ==
  /\ \A s \in Requests : s # r => pc'[s] = pc[s] /\ req'[s] = req[s]
  /\ events \subseteq events'

\* Every handler's step is about its own request.
LEMMA OnlyOne ==
  ASSUME BytesInv, NEW r \in Requests,
         \/ PutArtifact(r) \/ PutChecksum(r) \/ Verify(r) \/ Store(r) \/ StoreFails(r)
         \/ Count(r) \/ Stamp(r) \/ Describe(r) \/ Insert(r) \/ ReadVersions(r) \/ WriteIndex(r)
         \/ \E p \in Paths : Delete(r, p)
         \/ DeleteBlob(r) \/ Drop(r)
  PROVE  Only(r)
<1>1. CASE PutArtifact(r) \/ PutChecksum(r)
  BY <1>1, Shapes, Zenon DEF PutArtifact, PutChecksum, Only, Goto, asideVars
<1>2. CASE Verify(r) \/ Store(r) \/ StoreFails(r) \/ WriteIndex(r)
  BY <1>2, Shapes DEF Verify, Store, StoreFails, WriteIndex, Only, Goto, Return, asideVars
<1>3. CASE Count(r) \/ Stamp(r)
  BY <1>3, Shapes DEF Count, Stamp, Only, Goto, Note
<1>4. CASE Describe(r) \/ ReadVersions(r)
  BY <1>4, Shapes, Zenon DEF Describe, ReadVersions, Only, Goto, asideVars
<1>5. CASE Insert(r)
  BY <1>5, Shapes DEF Insert, Only, Goto, Return
<1>6. CASE \E p \in Paths : Delete(r, p)
  BY <1>6, Shapes, Zenon DEF Delete, Only, Goto, Note
<1>7. CASE DeleteBlob(r) \/ Drop(r)
  BY <1>7, Shapes DEF DeleteBlob, Drop, Only, Return, Note
<1> QED
  BY <1>1, <1>2, <1>3, <1>4, <1>5, <1>6, <1>7

\* The steps that only an artifact goes through.
ArtifactSteps == {"count", "stamp", "describe", "versions", "index"}
Kinds == \A r \in Requests : pc[r] \in ArtifactSteps => req[r].path.kind = "artifact"

\* Nothing is uploaded yet.
LEMMA KindsInit == Init => Kinds
BY Zenon DEF Init, Kinds, ArtifactSteps

\* A sidecar is neither counted nor listed (put_checksum).
LEMMA KindsStep ==
  ASSUME BytesInv, Kinds, [Next]_vars PROVE Kinds'
<1>1. ASSUME NEW r \in Requests, Only(r), pc'[r] \in ArtifactSteps => req'[r].path.kind = "artifact"
      PROVE  Kinds'
  BY <1>1 DEF Kinds, Only
<1>2. ASSUME NEW r \in Requests,
             \/ PutArtifact(r) \/ PutChecksum(r) \/ Verify(r) \/ StoreFails(r) \/ WriteIndex(r)
             \/ DeleteBlob(r) \/ Drop(r)
      PROVE  pc'[r] \notin ArtifactSteps
  BY <1>2, Shapes, Zenon DEF PutArtifact, PutChecksum, Verify, StoreFails, WriteIndex, DeleteBlob,
     Drop, Goto, Return, ArtifactSteps
<1>3. ASSUME NEW r \in Requests, Store(r) \/ Stamp(r) \/ Describe(r)
      PROVE  pc'[r] \in ArtifactSteps => req'[r].path.kind = "artifact"
  BY <1>3, Shapes DEF Store, Stamp, Describe, Goto, Kinds, ArtifactSteps
<1>4. ASSUME NEW r \in Requests, Count(r) \/ ReadVersions(r)
      PROVE  req'[r].path.kind = "artifact"
  <2>1. pc[r] \in ArtifactSteps /\ req'[r].path = req[r].path
    BY <1>4 DEF Count, ReadVersions, BytesInv, OpenRequest, ArtifactSteps
  <2> QED
    BY <2>1 DEF Kinds
<1>5. ASSUME NEW r \in Requests, Insert(r)
      PROVE  pc'[r] \in ArtifactSteps => req'[r].path.kind = "artifact"
  BY <1>5, Shapes DEF Insert, Goto, Return, ArtifactSteps
<1>6. ASSUME NEW r \in Requests, NEW p \in Paths, Delete(r, p)
      PROVE  pc'[r] \notin ArtifactSteps
  BY <1>6, Shapes DEF Delete, Goto, ArtifactSteps
<1>7. CASE UNCHANGED vars \/ PutMetadata \/ Detached
  BY <1>7, Zenon DEF vars, PutMetadata, Detached, Kinds
<1> QED
  BY <1>1, <1>2, <1>3, <1>4, <1>5, <1>6, <1>7, OnlyOne DEF Next

----------------------------------------------------------------------------
(* Sidecars *)

Main(v, f) == Path("artifact", v, f, 0)
Side(v, f) == Path("checksum", v, f, 0)
Compared == {"put", "insert"}

\* A stored sidecar is that of the artifact; one that is being compared is
\* compared with the artifact that is there, and one that was compared is that
\* of the artifact.  An artifact that is deleted meanwhile does not come back.
Agree(v, f) ==
  /\ layout[Main(v, f)] # NoDigest /\ layout[Side(v, f)] # NoDigest
       => declares[layout[Side(v, f)]] = layout[Main(v, f)]
  /\ \A r \in Requests : req[r].path = Side(v, f) =>
       /\ pc[r] = "verify" => layout[Main(v, f)] \in {NoDigest, req[r].main}
       /\ pc[r] \in Compared /\ layout[Main(v, f)] # NoDigest
            => declares[req[r].digest] = layout[Main(v, f)]

Calm == events \cap {"restaged", "raced", "dropped"} = {}

SideInv == Calm => \A v \in Versions, f \in Files : Agree(v, f)

\* There is no sidecar yet.
LEMMA SideInit == Init => SideInv
<1> SUFFICES ASSUME Init, NEW v \in Versions, NEW f \in Files PROVE Agree(v, f)
  BY DEF SideInv
<1>1. Main(v, f) \in Paths /\ \A r \in Requests : pc[r] = "idle"
  BY DEF Init, Main, Path, Paths
<1>2. layout[Main(v, f)] = NoDigest
  BY <1>1 DEF Init
<1> QED
  BY <1>1, <1>2 DEF Agree, Compared

\* Both paths of a file are paths, and they are not stamped.
LEMMA SidePaths ==
  ASSUME NEW v \in Versions, NEW f \in Files
  PROVE  /\ Main(v, f) \in Paths /\ Side(v, f) \in Paths
         /\ Main(v, f).build = 0 /\ Side(v, f).build = 0
         /\ Main(v, f).kind = "artifact" /\ Side(v, f).kind = "checksum"
         /\ Side(v, f) = [Main(v, f) EXCEPT !.kind = "checksum"]
BY DEF Main, Side, Path, Paths

\* A step that enters neither path, and takes no sidecar past its comparison.
LEMMA AgreeKept ==
  ASSUME NEW v \in Versions, NEW f \in Files, Agree(v, f),
         layout'[Main(v, f)] \in {layout[Main(v, f)], NoDigest},
         layout'[Side(v, f)] \in {layout[Side(v, f)], NoDigest},
         \A r \in Requests : req'[r].path = Side(v, f) =>
           /\ pc'[r] = "verify" =>
                pc[r] = "verify" /\ req[r].path = Side(v, f) /\ req'[r].main = req[r].main
           /\ pc'[r] \in Compared =>
                pc[r] \in Compared /\ req[r].path = Side(v, f) /\ req'[r].digest = req[r].digest
  PROVE  Agree(v, f)'
<1>1. layout'[Main(v, f)] # NoDigest /\ layout'[Side(v, f)] # NoDigest
        => declares[layout'[Side(v, f)]] = layout'[Main(v, f)]
  BY DEF Agree
<1>2. ASSUME NEW r \in Requests, req'[r].path = Side(v, f), pc'[r] = "verify"
      PROVE  layout'[Main(v, f)] \in {NoDigest, req'[r].main}
  BY <1>2 DEF Agree
<1>3. ASSUME NEW r \in Requests, req'[r].path = Side(v, f), pc'[r] \in Compared,
             layout'[Main(v, f)] # NoDigest
      PROVE  declares[req'[r].digest] = layout'[Main(v, f)]
  BY <1>3 DEF Agree
<1> QED
  BY <1>1, <1>2, <1>3, Zenon DEF Agree, Compared

\* The steps of uploads, and of DELETEs, that leave the sidecars alone.
LEMMA SideQuiet ==
  ASSUME BytesInv, BuildsInv, Kinds, SideInv, NEW r \in Requests,
         \/ PutArtifact(r) \/ Store(r) \/ StoreFails(r)
         \/ Count(r) \/ Stamp(r) \/ Describe(r) \/ ReadVersions(r) \/ WriteIndex(r)
         \/ \E p \in Paths : Delete(r, p)
         \/ DeleteBlob(r) \/ Drop(r)
  PROVE  SideInv'
<1>1. Only(r)
  BY OnlyOne
<1> SUFFICES ASSUME Calm', NEW v \in Versions, NEW f \in Files PROVE Agree(v, f)'
  BY Zenon DEF SideInv
<1>2. Agree(v, f)
  BY <1>1 DEF SideInv, Calm, Only
<1>3. \A p \in Paths : p.build = 0 => layout'[p] \in {layout[p], NoDigest}
  <2>1. CASE Stamp(r)
    <3>1. layout' = [layout EXCEPT ![Stamped(req[r].path.version, req[r].path.file, req[r].build)]
                                     = req[r].digest]
      BY <2>1, Zenon DEF Stamp
    <3>2. req[r].build # 0
      BY <2>1, Zenon DEF Stamp, BuildsInv
    <3>3. Stamped(req[r].path.version, req[r].path.file, req[r].build).build # 0
      BY <3>2, Zenon DEF Stamped, Path
    <3> QED
      BY <3>1, <3>3, Shapes, Zenon
  <2>2. CASE \E p \in Paths : Delete(r, p)
    BY <2>2, Shapes, Zenon DEF Delete
  <2>3. CASE layout' = layout
    BY <2>3
  <2> QED
    BY <2>1, <2>2, <2>3, Zenon DEF PutArtifact, Store, StoreFails, Count, Describe, ReadVersions,
       WriteIndex, DeleteBlob, Drop
<1>4. /\ pc'[r] # "verify"
      /\ pc'[r] \in Compared =>
           \/ req'[r].path.kind = "artifact"
           \/ pc[r] \in Compared /\ req'[r] = req[r]
  <2>1. CASE PutArtifact(r)
    <3>1. pc' = [pc EXCEPT ![r] = "put"]
      BY <2>1, Zenon DEF PutArtifact, Goto
    <3>2. PICK p \in Puts : /\ p.kind = "artifact"
                            /\ req' = [req EXCEPT ![r] =
                                  NewRequest(Path(p.kind, p.version, p.file, 0), p.body)]
      BY <2>1, Zenon DEF PutArtifact
    <3>3. req'[r].path.kind = "artifact"
      BY <3>2, Shapes DEF NewRequest, Path
    <3> QED
      BY <3>1, <3>3, Shapes
  <2>2. CASE Store(r)
    BY <2>2, Shapes, Zenon DEF Store, Goto, Compared
  <2>3. CASE Describe(r)
    BY <2>3, Shapes, Zenon DEF Describe, Goto, Kinds, ArtifactSteps
  <2>4. CASE Count(r) \/ Stamp(r) \/ ReadVersions(r)
    BY <2>4, Shapes DEF Count, Stamp, ReadVersions, Goto, Compared
  <2>5. CASE StoreFails(r) \/ WriteIndex(r) \/ DeleteBlob(r) \/ Drop(r)
    BY <2>5, Shapes, Zenon DEF StoreFails, WriteIndex, DeleteBlob, Drop, Return, Compared
  <2>6. CASE \E p \in Paths : Delete(r, p)
    BY <2>6, Shapes, Zenon DEF Delete, Goto, Compared
  <2> QED
    BY <2>1, <2>2, <2>3, <2>4, <2>5, <2>6, Zenon
<1>5. \A s \in Requests : req'[s].path = Side(v, f) =>
        /\ pc'[s] = "verify" =>
             pc[s] = "verify" /\ req[s].path = Side(v, f) /\ req'[s].main = req[s].main
        /\ pc'[s] \in Compared =>
             pc[s] \in Compared /\ req[s].path = Side(v, f) /\ req'[s].digest = req[s].digest
  BY <1>1, <1>4, SidePaths DEF Only
<1> QED
  BY <1>2, <1>3, <1>5, SidePaths, AgreeKept

\* A sidecar arrives, and is compared with the artifact that is there.
LEMMA SideArrives ==
  ASSUME BytesInv, SideInv, NEW r \in Requests, PutChecksum(r) PROVE SideInv'
<1>1. Only(r)
  BY OnlyOne
<1> SUFFICES ASSUME Calm', NEW v \in Versions, NEW f \in Files PROVE Agree(v, f)'
  BY DEF SideInv
<1>2. Agree(v, f) /\ layout' = layout
  BY <1>1 DEF SideInv, Calm, Only, PutChecksum
<1>3. req'[r].path = Side(v, f) =>
        /\ req'[r].main = layout[Main(v, f)]
        /\ pc'[r] \in Compared => layout[Main(v, f)] = NoDigest
  <2>1. PICK p \in Puts :
          /\ req' = [req EXCEPT ![r] =
                       [NewRequest(Path(p.kind, p.version, p.file, 0), p.body)
                          EXCEPT !.main = layout[Path("artifact", p.version, p.file, 0)]]]
          /\ pc' = [pc EXCEPT ![r] = IF layout[Path("artifact", p.version, p.file, 0)] = NoDigest
                                     THEN "put" ELSE "verify"]
    BY Zenon DEF PutChecksum, Goto
  <2>2. /\ req'[r].path = Path(p.kind, p.version, p.file, 0)
        /\ req'[r].main = layout[Path("artifact", p.version, p.file, 0)]
    BY <2>1, Shapes DEF NewRequest
  <2>3. pc'[r] \in Compared => layout[Path("artifact", p.version, p.file, 0)] = NoDigest
    BY <2>1, Shapes DEF Compared
  <2>4. req'[r].path = Side(v, f) => p.version = v /\ p.file = f
    BY <2>2 DEF Side, Path
  <2> QED
    BY <2>2, <2>3, <2>4 DEF Main
<1> QED
  BY <1>1, <1>2, <1>3, Zenon DEF Agree, Only

\* The comparison: what passes it states the checksum of that artifact.
LEMMA SideVerified ==
  ASSUME BytesInv, SideInv, NEW r \in Requests, Verify(r) PROVE SideInv'
<1>1. Only(r)
  BY OnlyOne, Zenon
<1> SUFFICES ASSUME Calm', NEW v \in Versions, NEW f \in Files PROVE Agree(v, f)'
  BY DEF SideInv
<1>2. Agree(v, f) /\ layout' = layout
  BY <1>1 DEF SideInv, Calm, Only, Verify
<1>3. /\ pc[r] = "verify" /\ pc'[r] # "verify"
      /\ pc'[r] \in Compared => req'[r] = req[r] /\ declares[req[r].digest] = req[r].main
  BY Shapes DEF Verify, Goto, Return, Compared
<1> QED
  BY <1>1, <1>2, <1>3 DEF Agree, Only

\* The entry: an artifact is entered while it has no sidecar, and a sidecar
\* that was compared is entered next to its artifact.
LEMMA SideEntered ==
  ASSUME BytesInv, BuildsInv, SideInv, NEW r \in Requests, Insert(r) PROVE SideInv'
<1>1. Only(r)
  BY OnlyOne
<1> SUFFICES ASSUME Calm', NEW v \in Versions, NEW f \in Files PROVE Agree(v, f)'
  BY DEF SideInv
<1>2. /\ Agree(v, f) /\ pc[r] = "insert" /\ pc'[r] \notin Compared \cup {"verify"}
      /\ layout' = [layout EXCEPT ![req[r].path] = req[r].digest]
      /\ req[r].path \in Paths
      /\ req[r].path.kind = "artifact" => ~Sidecar(req[r].path)
  BY <1>1 DEF SideInv, Calm, Only, Insert, Goto, Return, BytesInv, Compared, OpenRequest
<1>3. \A p \in Paths : layout'[p] = IF p = req[r].path THEN req[r].digest ELSE layout[p]
  BY <1>2, Shapes, Zenon
<1>4. CASE req[r].path = Main(v, f)
  <2>1. ~Sidecar(Main(v, f))
    BY <1>2, <1>4, SidePaths
  <2>2. /\ layout[Side(v, f)] = NoDigest
        /\ \A s \in Requests : pc[s] # "idle" => req[s].path # Side(v, f)
    BY <2>1, SidePaths DEF Sidecar
  <2>3. layout'[Side(v, f)] = NoDigest
    BY <1>3, <1>4, <2>2, SidePaths, Zenon
  <2>4. \A s \in Requests : pc'[s] \in Compared \cup {"verify"} => req'[s].path # Side(v, f)
    BY <1>1, <1>2, <2>2 DEF Only, Compared
  <2> QED
    BY <2>3, <2>4 DEF Agree
<1>5. CASE req[r].path = Side(v, f)
  <2>1. layout'[Main(v, f)] = layout[Main(v, f)] /\ layout'[Side(v, f)] = req[r].digest
    BY <1>3, <1>5, SidePaths
  <2>2. layout[Main(v, f)] # NoDigest => declares[req[r].digest] = layout[Main(v, f)]
    BY <1>2, <1>5, Zenon DEF Agree, Compared
  <2> QED
    BY <1>1, <1>2, <2>1, <2>2, Zenon DEF Agree, Only
<1>6. CASE req[r].path \notin {Main(v, f), Side(v, f)}
  <2>1. layout'[Main(v, f)] = layout[Main(v, f)] /\ layout'[Side(v, f)] = layout[Side(v, f)]
    BY <1>3, <1>6, SidePaths
  <2> QED
    BY <1>1, <1>2, <2>1 DEF Agree, Only
<1> QED
  BY <1>4, <1>5, <1>6

\* SideInv through every step.
LEMMA SideStep ==
  ASSUME BytesInv, BuildsInv, Kinds, SideInv, [Next]_vars PROVE SideInv'
<1>1. CASE UNCHANGED vars \/ PutMetadata \/ Detached
  <2>1. UNCHANGED <<layout, pc, req>> /\ events \subseteq events'
    BY <1>1 DEF vars, PutMetadata, Detached, Note
  <2> QED
    BY <2>1 DEF SideInv, Calm, Agree
<1> QED
  BY <1>1, SideQuiet, SideArrives, SideVerified, SideEntered DEF Next

\* Whoever gets an artifact gets the checksum of that artifact, unless it was
\* entered while its sidecar was stored or on its way, a DELETE fell into a PUT
\* or a client hung up (put_checksum, serve_checksum).
THEOREM SidecarsAreTrue == Spec => []SidecarsMatch
<1>1. BytesInv /\ SideInv => SidecarsMatch
  <2> SUFFICES ASSUME BytesInv, SideInv, Calm, NEW v \in Versions, NEW f \in Files,
                      serve(Main(v, f)) # NoDigest
               PROVE  serve_checksum(Main(v, f)) = serve(Main(v, f))
    BY DEF SidecarsMatch, Calm, Main
  <2>1. layout[Main(v, f)] \in blobs /\ layout[Main(v, f)] # NoDigest /\ serve(Main(v, f)) = layout[Main(v, f)]
    BY DEF serve
  <2>2. layout[Side(v, f)] \in blobs \cup {NoDigest}
    BY SidePaths, Zenon DEF BytesInv, Undisturbed, Calm, LayoutBlobPresent
  <2>3. layout[Side(v, f)] # NoDigest => declares[layout[Side(v, f)]] = layout[Main(v, f)]
    BY <2>1 DEF SideInv, Agree
  <2> QED
    BY <2>1, <2>2, <2>3, SidePaths DEF serve_checksum
<1>2. Init => BytesInv /\ BuildsInv /\ Kinds /\ SideInv
  BY BytesInit, BuildsInit, KindsInit, SideInit
<1>3. BytesInv /\ BuildsInv /\ Kinds /\ SideInv /\ [Next]_vars
        => BytesInv' /\ BuildsInv' /\ Kinds' /\ SideInv'
  BY BytesStep, BuildsStep, KindsStep, SideStep
<1> QED
  BY <1>1, <1>2, <1>3, PTL DEF Spec

----------------------------------------------------------------------------
(* Metadata *)

Smooth == events \subseteq {"restaged"}
Current(versions) == VersionsOf({"artifact"}) \subseteq versions /\ versions \subseteq Listed

\* Requests that will write the list of versions, from one they have yet to
\* read or have just read.
Owes(r) == \/ pc[r] \in {"describe", "versions", "index"}
           \/ pc[r] = "insert" /\ req[r].path.kind = "artifact"

\* A request with a build number that the metadata of its base does not name.
Describes(r) == pc[r] \in {"stamp", "describe"}

\* As long as no PUT overtook another and nothing was deleted, uploaded or
\* dropped: a list that lacks a version is about to be replaced by one that has
\* it, and a base has at most one build that its metadata does not name, the
\* newest.
ListInv ==
  Smooth =>
    /\ index \subseteq Listed
    /\ VersionsOf({"artifact"}) \subseteq index \/ \E r \in Requests : Owes(r)
    /\ \A r \in Requests : pc[r] = "index" => Current(req[r].versions)

BuildInv ==
  Smooth =>
    /\ \A r \in Requests : Describes(r) => req[r].build = snapshot_counter[Base(r)]
    /\ \A r, s \in Requests : Describes(r) /\ Describes(s) /\ Base(r) = Base(s) => r = s
    /\ \A b \in Bases : (\A r \in Requests : Describes(r) => Base(r) # b)
                          => snapshot_metadata[b] = snapshot_counter[b]

MetaInv ==
  /\ snapshot_metadata \in [Bases -> Nat]
  /\ ListInv /\ BuildInv

\* A step that draws no number and describes no build.
LEMMA BuildsUnmoved ==
  ASSUME BuildInv, Smooth, UNCHANGED <<snapshot_metadata, snapshot_counter>>,
         \A s \in Requests : /\ Describes(s)' = Describes(s)
                             /\ Describes(s) => Base(s)' = Base(s) /\ req'[s] = req[s]
  PROVE  BuildInv'
<1>1. \A r \in Requests : Describes(r)' => req'[r].build = snapshot_counter'[Base(r)']
  BY DEF BuildInv
<1>2. \A r, s \in Requests : Describes(r)' /\ Describes(s)' /\ Base(r)' = Base(s)' => r = s
  BY DEF BuildInv
<1>3. \A b \in Bases : (\A r \in Requests : Describes(r)' => Base(r)' # b)
                          => snapshot_metadata'[b] = snapshot_counter'[b]
  BY DEF BuildInv
<1> QED
  BY <1>1, <1>2, <1>3 DEF BuildInv

\* An empty repository has an empty list.
LEMMA MetaInit == Init => MetaInv
<1> SUFFICES ASSUME Init PROVE MetaInv
  OBVIOUS
<1>1. VersionsOf({"artifact"}) = {} /\ index = {} /\ \A r \in Requests : pc[r] = "idle"
  BY DEF Init, VersionsOf
<1> QED
  BY <1>1 DEF Init, MetaInv, ListInv, BuildInv, Describes

\* A path that is entered removes no version from the list.
LEMMA VersionsGrow ==
  ASSUME \A q \in Paths : layout[q] # NoDigest => layout'[q] # NoDigest, NEW kinds
  PROVE  VersionsOf(kinds) \subseteq VersionsOf(kinds)'
BY Zenon DEF VersionsOf

\* What has an artifact has a file.
LEMMA ArtifactsListed == VersionsOf({"artifact"}) \subseteq Listed
BY Zenon DEF VersionsOf, Listed

\* A step after which nothing is left to say.
LEMMA MetaOver ==
  ASSUME MetaInv, snapshot_metadata' \in [Bases -> Nat], ~Smooth' PROVE MetaInv'
BY DEF MetaInv, ListInv, BuildInv

\* A step of a request that neither has a build number nor owes a list.
LEMMA MetaAside ==
  ASSUME MetaInv, NEW r \in Requests, Only(r), UNCHANGED <<layout, metadataVars>>,
         ~Owes(r), ~Describes(r), ~Describes(r)', pc'[r] # "index"
  PROVE  MetaInv'
<1>1. VersionsOf({"artifact"})' = VersionsOf({"artifact"}) /\ Listed' = Listed
  BY DEF VersionsOf, Listed
<1>2. Smooth' => Smooth
  BY DEF Smooth, Only
<1>3. \A s \in Requests : s # r => /\ pc'[s] = pc[s] /\ req'[s] = req[s] /\ Base(s)' = Base(s)
                                   /\ Describes(s)' = Describes(s)
  BY DEF Only, Base, Describes
<1>4. \A s \in Requests : Owes(s) => Owes(s)'
  BY <1>3, Zenon DEF Owes
<1>5. ListInv'
  BY <1>1, <1>2, <1>3, <1>4, Zenon DEF MetaInv, ListInv, Current, metadataVars
<1>6. BuildInv'
  BY <1>2, <1>3 DEF MetaInv, BuildInv, metadataVars
<1> QED
  BY <1>5, <1>6 DEF MetaInv, metadataVars

\* Uploads up to the count, and the end of a DELETE.
LEMMA MetaQuiet ==
  ASSUME BytesInv, MetaInv, NEW r \in Requests,
         \/ PutArtifact(r) \/ PutChecksum(r) \/ Verify(r) \/ Store(r) \/ StoreFails(r)
         \/ DeleteBlob(r)
  PROVE  MetaInv'
<1>1. Only(r) /\ UNCHANGED <<layout, metadataVars>>
  BY OnlyOne DEF PutArtifact, PutChecksum, Verify, Store, StoreFails, DeleteBlob
<1>2. pc[r] \in {"idle", "verify", "put", "delete"}
  BY DEF PutArtifact, PutChecksum, Verify, Store, StoreFails, DeleteBlob
<1>3. pc'[r] \in {"idle", "verify", "put", "count", "insert"}
  BY Shapes DEF PutArtifact, PutChecksum, Verify, Store, StoreFails, DeleteBlob, Goto, Return
<1>4. ~Owes(r) /\ ~Describes(r) /\ ~Describes(r)' /\ pc'[r] # "index"
  BY <1>2, <1>3 DEF Owes, Describes
<1> QED
  BY <1>1, <1>4, MetaAside

\* What a client deletes, uploads or leaves behind is an exception.
LEMMA MetaDisturbed ==
  ASSUME BytesInv, MetaInv,
         \/ \E r \in Requests : Drop(r) \/ \E p \in Paths : Delete(r, p)
         \/ PutMetadata
  PROVE  MetaInv'
<1>1. ~Smooth'
  BY DEF Drop, Delete, PutMetadata, Note, Smooth
<1>2. \/ snapshot_metadata' = snapshot_metadata
      \/ \E v \in Versions, n \in 0..MaxBuilds :
           snapshot_metadata' = [snapshot_metadata EXCEPT ![base_version[v]] = n]
  BY Zenon DEF Drop, Delete, PutMetadata, metadataVars
<1>3. snapshot_metadata' \in [Bases -> Nat]
  BY <1>2, MavenAssumption DEF MetaInv
<1> QED
  BY <1>1, <1>3, MetaOver

\* A number is drawn while no other of its base waits to be described.
LEMMA MetaCount ==
  ASSUME BytesInv, MetaInv, NEW r \in Requests, Count(r) PROVE MetaInv'
<1> DEFINE next == snapshot_counter[Base(r)] + 1
<1>1. /\ pc[r] = "count" /\ pc' = [pc EXCEPT ![r] = "stamp"]
      /\ snapshot_counter' = [snapshot_counter EXCEPT ![Base(r)] = next]
      /\ req' = [req EXCEPT ![r].build = next]
      /\ UNCHANGED <<layout, index, snapshot_metadata>>
      /\ Describing(Base(r)) => "overtaken" \in events'
      /\ events \subseteq events'
  BY DEF Count, Goto, Note
<1>2. /\ Base(r) \in Bases
      /\ pc'[r] = "stamp" /\ req'[r].path = req[r].path /\ req'[r].build = next
      /\ \A s \in Requests : s # r => pc'[s] = pc[s] /\ req'[s] = req[s]
  BY <1>1, MavenAssumption DEF BytesInv, OpenRequest, Base, Paths
<1>3. \A s \in Requests : Base(s)' = Base(s) /\ (s # r => Describes(s)' = Describes(s))
  BY <1>2 DEF Base, Describes
<1>4. \A b \in Bases : snapshot_counter'[b] = IF b = Base(r) THEN next ELSE snapshot_counter[b]
  BY <1>1 DEF BytesInv
<1> SUFFICES ASSUME Smooth' PROVE ListInv' /\ BuildInv'
  BY <1>1 DEF MetaInv, ListInv, BuildInv
<1>5. Smooth /\ \A s \in Requests : Describes(s) => Base(s) # Base(r)
  BY <1>1 DEF Smooth, Describing, Describes
<1> HIDE DEF next
<1>6. ListInv'
  <2>1. VersionsOf({"artifact"})' = VersionsOf({"artifact"}) /\ Listed' = Listed
    BY <1>1 DEF VersionsOf, Listed
  <2>2. \A s \in Requests : /\ Owes(s) => Owes(s)'
                            /\ pc'[s] = "index" => pc[s] = "index" /\ req'[s] = req[s]
    BY <1>1, <1>2 DEF Owes
  <2> QED
    BY <1>1, <1>5, <2>1, <2>2 DEF MetaInv, ListInv, Current
<1>7. ASSUME NEW s \in Requests, Describes(s)'
      PROVE  req'[s].build = snapshot_counter'[Base(s)]
  <2>1. CASE s = r
    BY <1>2, <1>4, <2>1
  <2>2. CASE s # r
    <3>1. Describes(s) /\ Base(s) # Base(r) /\ req'[s] = req[s]
      BY <1>2, <1>3, <1>5, <1>7, <2>2, Zenon
    <3>2. Base(s) \in Bases
      BY <3>1, MavenAssumption, Zenon DEF Describes, BytesInv, OpenRequest, Base, Paths
    <3> QED
      BY <1>4, <1>5, <3>1, <3>2, Zenon DEF MetaInv, BuildInv
  <2> QED
    BY <2>1, <2>2
<1>8. \A s, u \in Requests : Describes(s)' /\ Describes(u)' /\ Base(s) = Base(u) => s = u
  BY <1>3, <1>5 DEF MetaInv, BuildInv
<1>9. ASSUME NEW b \in Bases, \A s \in Requests : Describes(s)' => Base(s) # b
      PROVE  snapshot_metadata[b] = snapshot_counter'[b]
  <2>1. b # Base(r)
    BY <1>2, <1>9 DEF Describes
  <2>2. \A s \in Requests : Describes(s) => Base(s) # b
    BY <1>1, <1>3, <1>9 DEF Describes
  <2> QED
    BY <1>4, <1>5, <2>1, <2>2, Zenon DEF MetaInv, BuildInv
<1>10. BuildInv'
  BY <1>1, <1>3, <1>7, <1>8, <1>9 DEF BuildInv
<1> QED
  BY <1>6, <1>10

\* The stamped name is entered while no list is about to be written.
LEMMA MetaStamp ==
  ASSUME BytesInv, MetaInv, NEW r \in Requests, Stamp(r) PROVE MetaInv'
<1>1. /\ pc[r] = "stamp" /\ pc' = [pc EXCEPT ![r] = "describe"]
      /\ UNCHANGED <<req, index, snapshot_metadata, snapshot_counter>>
      /\ Regenerating => "overtaken" \in events'
      /\ events \subseteq events'
  BY DEF Stamp, Goto, Note, metadataVars
<1>2. pc'[r] = "describe" /\ \A s \in Requests : s # r => pc'[s] = pc[s]
  BY <1>1, Shapes
<1>3. \A s \in Requests : Base(s)' = Base(s) /\ Describes(s)' = Describes(s)
  BY <1>1, <1>2 DEF Base, Describes
<1>4. \A q \in Paths : layout[q] # NoDigest => layout'[q] # NoDigest
  <2>1. PICK p : layout' = [layout EXCEPT ![p] = req[r].digest]
    BY Zenon DEF Stamp
  <2>2. req[r].digest # NoDigest
    BY <1>1, MavenAssumption DEF BytesInv, OpenRequest
  <2> QED
    BY <2>1, <2>2, Shapes
<1> SUFFICES ASSUME Smooth' PROVE ListInv' /\ BuildInv'
  BY <1>1, Zenon DEF MetaInv, ListInv, BuildInv
<1>5. Smooth /\ \A s \in Requests : pc'[s] # "index"
  BY <1>1, <1>2 DEF Smooth, Regenerating
<1>6. index \subseteq Listed'
  BY <1>4, <1>5, VersionsGrow DEF MetaInv, ListInv, Listed
<1>7. ListInv'
  BY <1>1, <1>2, <1>5, <1>6, Zenon DEF ListInv, Owes
<1>8. BuildInv'
  BY <1>1, <1>3, <1>5 DEF MetaInv, BuildInv
<1> QED
  BY <1>7, <1>8

\* The metadata of the base names the build, which is the newest.
LEMMA MetaDescribe ==
  ASSUME BytesInv, Kinds, MetaInv, NEW r \in Requests, Describe(r) PROVE MetaInv'
<1>1. /\ pc[r] = "describe" /\ pc' = [pc EXCEPT ![r] = "insert"]
      /\ snapshot_metadata' = [snapshot_metadata EXCEPT ![Base(r)] = req[r].build]
      /\ UNCHANGED <<req, layout, index, snapshot_counter, events>>
  BY Zenon DEF Describe, Goto, asideVars
<1>2. /\ pc'[r] = "insert" /\ req[r].path.kind = "artifact" /\ Base(r) \in Bases /\ req[r].build \in Nat
      /\ \A s \in Requests : s # r => pc'[s] = pc[s]
  BY <1>1, MavenAssumption DEF BytesInv, OpenRequest, Kinds, ArtifactSteps, Base, Paths
<1>3. /\ \A s \in Requests : Base(s)' = Base(s) /\ (s # r => Describes(s)' = Describes(s))
      /\ Describes(r) /\ ~Describes(r)'
  BY <1>1, <1>2, Zenon DEF Base, Describes
<1>4. snapshot_metadata' \in [Bases -> Nat]
  BY <1>1, <1>2, Zenon DEF MetaInv
<1> SUFFICES ASSUME Smooth' PROVE ListInv' /\ BuildInv'
  BY <1>4, Zenon DEF MetaInv, ListInv, BuildInv
<1>5. Smooth
  BY <1>1, Zenon DEF Smooth
<1>6. ListInv'
  <2>1. VersionsOf({"artifact"})' = VersionsOf({"artifact"}) /\ Listed' = Listed
    BY <1>1 DEF VersionsOf, Listed
  <2>2. Owes(r)' /\ \A s \in Requests : pc'[s] = "index" => pc[s] = "index"
    BY <1>1, <1>2 DEF Owes
  <2> QED
    BY <1>1, <1>5, <2>1, <2>2, Zenon DEF MetaInv, ListInv, Current
<1>7. ASSUME NEW b \in Bases, \A s \in Requests : Describes(s)' => Base(s) # b
      PROVE  snapshot_metadata'[b] = snapshot_counter[b]
  <2>1. CASE b = Base(r)
    BY <1>1, <1>2, <1>3, <1>5, <2>1, Zenon DEF MetaInv, BuildInv
  <2>2. CASE b # Base(r)
    <3>1. \A s \in Requests : Describes(s) => Base(s) # b
      BY <1>3, <1>7, <2>2, Zenon
    <3> QED
      BY <1>1, <1>5, <2>2, <3>1 DEF MetaInv, BuildInv
  <2> QED
    BY <2>1, <2>2, Zenon
<1>8. BuildInv'
  BY <1>1, <1>3, <1>5, <1>7, Zenon DEF MetaInv, BuildInv
<1> QED
  BY <1>6, <1>8, Zenon

\* An artifact is entered while no list is about to be written, and owes one; a
\* sidecar is no artifact.
LEMMA MetaInsert ==
  ASSUME BytesInv, MetaInv, NEW r \in Requests, Insert(r) PROVE MetaInv'
<1>1. /\ Only(r) /\ pc[r] = "insert"
      /\ layout' = [layout EXCEPT ![req[r].path] = req[r].digest]
      /\ UNCHANGED <<index, snapshot_metadata, snapshot_counter>>
      /\ req[r].path \in Paths /\ req[r].digest # NoDigest
  BY OnlyOne, MavenAssumption, Zenon DEF Insert, metadataVars, BytesInv, OpenRequest
<1>2. pc'[r] \in {"versions", "idle"}
  BY Shapes, Zenon DEF Insert, Goto, Return
<1>3. /\ \A q \in Paths : layout'[q] = IF q = req[r].path THEN req[r].digest ELSE layout[q]
      /\ \A q \in Paths : layout[q] # NoDigest => layout'[q] # NoDigest
  BY <1>1, Shapes, Zenon
<1>4. \A s \in Requests : /\ Describes(s)' = Describes(s)
                          /\ Describes(s) => Base(s)' = Base(s) /\ req'[s] = req[s]
  BY <1>1, <1>2 DEF Only, Base, Describes
<1> SUFFICES ASSUME Smooth' PROVE ListInv' /\ BuildInv'
  BY <1>1, Zenon DEF MetaInv, ListInv, BuildInv
<1>5. Smooth
  BY <1>1 DEF Smooth, Only
<1>6. index \subseteq Listed' /\ Listed \subseteq Listed'
  BY <1>3, <1>5, VersionsGrow, Zenon DEF MetaInv, ListInv, Listed
<1>7. BuildInv'
  BY <1>1, <1>4, <1>5, BuildsUnmoved DEF MetaInv
<1>8. CASE req[r].path.kind = "artifact"
  <2>1. pc'[r] = "versions" /\ \A s \in Requests : pc'[s] # "index"
    BY <1>1, <1>8, Shapes DEF Insert, Goto, Smooth, Regenerating, Only
  <2>2. ListInv'
    BY <1>1, <1>6, <2>1 DEF ListInv, Owes
  <2> QED
    BY <1>7, <2>2, Zenon
<1>9. CASE req[r].path.kind # "artifact"
  <2>1. VersionsOf({"artifact"})' = VersionsOf({"artifact"})
    BY <1>3, <1>9 DEF VersionsOf
  <2>2. \A s \in Requests : /\ Owes(s) => Owes(s)'
                            /\ pc'[s] = "index" => pc[s] = "index" /\ req'[s] = req[s]
    BY <1>1, <1>2, <1>9, Zenon DEF Owes, Only
  <2>3. ListInv'
    BY <1>1, <1>5, <1>6, <2>1, <2>2 DEF MetaInv, ListInv, Current
  <2> QED
    BY <1>7, <2>3
<1> QED
  BY <1>8, <1>9

\* The list is read, and later written as it was read.
LEMMA MetaIndex ==
  ASSUME BytesInv, MetaInv, NEW r \in Requests, ReadVersions(r) \/ WriteIndex(r) PROVE MetaInv'
<1>1. /\ Only(r) /\ UNCHANGED <<layout, snapshot_metadata, snapshot_counter, events>>
      /\ pc[r] \in {"versions", "index"} /\ pc'[r] \in {"index", "idle"}
  BY OnlyOne, Shapes, Zenon DEF ReadVersions, WriteIndex, metadataVars, asideVars, Goto, Return
<1>2. VersionsOf({"artifact"})' = VersionsOf({"artifact"}) /\ Listed' = Listed
  BY <1>1 DEF VersionsOf, Listed
<1>3. \A s \in Requests : /\ Describes(s)' = Describes(s)
                          /\ Describes(s) => Base(s)' = Base(s) /\ req'[s] = req[s]
  BY <1>1 DEF Only, Base, Describes
<1> SUFFICES ASSUME Smooth, Smooth' PROVE ListInv' /\ BuildInv'
  BY <1>1, Zenon DEF MetaInv, ListInv, BuildInv, Smooth
<1>4. BuildInv'
  BY <1>1, <1>3, BuildsUnmoved, Zenon DEF MetaInv
<1>5. CASE ReadVersions(r)
  <2>1. index' = index /\ pc'[r] = "index" /\ req'[r].versions = Listed
    BY <1>5 DEF ReadVersions, metadataVars, Goto, BytesInv, OpenRequest
  <2>2. Current(Listed) /\ Owes(r)'
    BY <2>1, ArtifactsListed, Zenon DEF Current, Owes
  <2> QED
    BY <1>1, <1>2, <1>4, <2>1, <2>2, Zenon DEF MetaInv, ListInv, Current, Only
<1>6. CASE WriteIndex(r)
  <2>1. index' = req[r].versions /\ pc[r] = "index" /\ pc'[r] = "idle"
    BY <1>6, Shapes, Zenon DEF WriteIndex, Return
  <2>2. Current(index')
    BY <2>1 DEF MetaInv, ListInv
  <2> QED
    BY <1>1, <1>2, <1>4, <2>1, <2>2 DEF MetaInv, ListInv, Current, Only
<1> QED
  BY <1>5, <1>6

\* MetaInv through every step.
LEMMA MetaStep ==
  ASSUME BytesInv, Kinds, MetaInv, [Next]_vars PROVE MetaInv'
<1>1. CASE UNCHANGED vars \/ Detached
  <2>1. UNCHANGED <<layout, index, snapshot_metadata, snapshot_counter, pc, req, events>>
    BY <1>1 DEF vars, Detached, metadataVars
  <2>2. VersionsOf({"artifact"})' = VersionsOf({"artifact"}) /\ Listed' = Listed
    BY <2>1, Zenon DEF VersionsOf, Listed
  <2>3. ListInv'
    BY <2>1, <2>2, Zenon DEF MetaInv, ListInv, Smooth, Current, Owes
  <2>4. BuildInv'
    BY <2>1 DEF MetaInv, BuildInv, Smooth, Describes, Base
  <2> QED
    BY <2>1, <2>3, <2>4 DEF MetaInv
<1> QED
  BY <1>1, MetaQuiet, MetaDisturbed, MetaCount, MetaStamp, MetaDescribe, MetaInsert, MetaIndex DEF Next

\* Once all PUTs are answered, the generated metadata names every version that
\* has an artifact, none that has no file, and the newest build of each
\* snapshot, unless one PUT overtook another, a client wrote the metadata or
\* went away, or something was deleted (regenerate_artifact_index,
\* register_snapshot_timestamped).
THEOREM MetadataIsCurrent == Spec => []MetadataCurrent
<1>1. BytesInv /\ MetaInv => MetadataCurrent
  <2> SUFFICES ASSUME BytesInv, MetaInv, \A r \in Requests : pc[r] = "idle", Smooth
               PROVE  /\ VersionsOf({"artifact"}) \subseteq index /\ index \subseteq Listed
                      /\ snapshot_metadata = snapshot_counter
    BY DEF MetadataCurrent, Smooth
  <2>1. \A r \in Requests : ~Owes(r) /\ ~Describes(r)
    BY Zenon DEF Owes, Describes
  <2>2. \A b \in Bases : snapshot_metadata[b] = snapshot_counter[b]
    BY <2>1 DEF MetaInv, BuildInv
  <2>3. snapshot_metadata = snapshot_counter
    BY <2>2 DEF MetaInv, BytesInv
  <2> QED
    BY <2>1, <2>3 DEF MetaInv, ListInv
<1>2. Init => BytesInv /\ Kinds /\ MetaInv
  BY BytesInit, KindsInit, MetaInit
<1>3. BytesInv /\ Kinds /\ MetaInv /\ [Next]_vars => BytesInv' /\ Kinds' /\ MetaInv'
  BY BytesStep, KindsStep, MetaStep
<1> QED
  BY <1>1, <1>2, <1>3, PTL DEF Spec

=============================================================================
