-------------------------- MODULE MavenRepository --------------------------
(***************************************************************************)
(* The Maven repository (crate ferro-maven-layout): PUT and DELETE on the  *)
(* files of one artifact of one repository.  Other artifacts have keys of  *)
(* their own and share only the blobs.                                     *)
(*                                                                         *)
(* The layout map, the metadata cache and the snapshot counter have a      *)
(* tokio RwLock each.  Every guard is dropped at the end of the statement  *)
(* that takes it, so each such statement is a step; only DELETE holds its  *)
(* guard, that of the layout, over an await.  All of this lives in memory: *)
(* a new process starts at Init, over a store that may hold more blobs.    *)
(*                                                                         *)
(* A digest stands for the bytes it names.                                 *)
(***************************************************************************)
EXTENDS Naturals, FiniteSets

CONSTANTS
  Requests,
  Versions,
  Snapshots,     \* the versions that end in -SNAPSHOT
  Bases,
  base_version,  \* Versions -> Bases
  Files,         \* file names of a version: classifier and extension
  Digests,
  declares,      \* body -> the body whose checksum it states, as a sidecar
  Puts,          \* bound: the files and sidecars that clients upload
  MaxBuilds,     \* bound on the snapshot counter
  MaxDisturbances, \* bound on DELETEs, uploads of metadata and hang-ups
  Faults,        \* {} or {"disconnect"}: clients hang up
  NoDigest,
  NoHolder

ASSUME MavenAssumption ==
  /\ Snapshots \subseteq Versions
  /\ base_version \in [Versions -> Bases]
  /\ declares \in [Digests -> Digests \cup {NoDigest}]
  /\ Puts \subseteq [kind: {"artifact", "checksum"}, version: Versions,
                    file: Files, body: Digests]
  /\ MaxBuilds \in Nat /\ MaxDisturbances \in Nat
  /\ Faults \subseteq {"disconnect"}
  /\ NoDigest \notin Digests /\ NoHolder \notin Requests

VARIABLES
  blobs,
  layout,            \* path -> digest
  holder,            \* the DELETE that holds the write guard of `layout`
  index,             \* the versions in the artifact's maven-metadata.xml
  snapshot_metadata, \* base -> the build number in its maven-metadata.xml
  snapshot_counter,  \* base -> the last build number
  pc,
  req,
  detached,          \* puts and deletes of dropped handlers, still queued
  disturbances,
  events             \* history: what a property makes an exception for

vars == <<blobs, layout, holder, index, snapshot_metadata, snapshot_counter,
          pc, req, detached, disturbances, events>>

\* The key of a file.  Build 0 is the name a client uses; the server adds the
\* timestamped names, in which the build number tells files apart.
Path(k, v, f, b) == [kind |-> k, version |-> v, file |-> f, build |-> b]
Stamped(v, f, b) == Path("artifact", v, f, b)
Paths ==
  [kind: {"artifact", "checksum"}, version: Versions, file: Files, build: {0}]
    \cup [kind: {"artifact"}, version: Snapshots, file: Files,
          build: 1..MaxBuilds]

Steps == {"idle", "verify", "put", "count", "stamp", "describe", "insert",
          "versions", "index", "delete"}

\* `main` is the artifact a sidecar is compared with, `versions` the list
\* that regenerate_artifact_index has read.
Request == [path: Paths, digest: Digests, main: Digests \cup {NoDigest},
            build: 0..MaxBuilds, versions: SUBSET Versions]
NoRequest == [path |-> NoDigest]
NewRequest(p, d) == [path |-> p, digest |-> d, main |-> NoDigest, build |-> 0,
                     versions |-> {}]

Init ==
  /\ blobs = {}
  /\ layout = [p \in Paths |-> NoDigest]
  /\ holder = NoHolder
  /\ index = {}
  /\ snapshot_metadata = [b \in Bases |-> 0]
  /\ snapshot_counter = [b \in Bases |-> 0]
  /\ pc = [r \in Requests |-> "idle"]
  /\ req = [r \in Requests |-> NoRequest]
  /\ detached = {}
  /\ disturbances = 0
  /\ events = {}

metadataVars == <<index, snapshot_metadata, snapshot_counter>>
asideVars == <<detached, disturbances, events>>

Base(r) == base_version[req[r].path.version]
Goto(r, step) == pc' = [pc EXCEPT ![r] = step]
Return(r) ==
  /\ pc' = [pc EXCEPT ![r] = "idle"]
  /\ req' = [req EXCEPT ![r] = NoRequest]

Note(event, happens) ==
  events' = IF happens THEN events \cup {event} ELSE events

VersionsOf(kinds) ==
  {p.version : p \in {q \in Paths : q.kind \in kinds /\ layout[q] # NoDigest}}
Listed == VersionsOf({"artifact", "checksum"})

\* Uploads of snapshots within the bound.
BuildsLeft(v) ==
  LET coming == {r \in Requests : /\ pc[r] \in {"put", "count"}
                                  /\ req[r].path.kind = "artifact"
                                  /\ req[r].path.version \in Snapshots
                                  /\ Base(r) = base_version[v]}
  IN snapshot_counter[base_version[v]] + Cardinality(coming) < MaxBuilds

Disturb ==
  /\ disturbances < MaxDisturbances
  /\ disturbances' = disturbances + 1

\* A request is about to write a list of versions that it read earlier.
Regenerating == \E r \in Requests : pc[r] = "index"

----------------------------------------------------------------------------
(* put_artifact and put_checksum: up to the upload of the bytes *)

\* handle_put with an artifact.  A POM that does not match is refused.
PutArtifact(r) ==
  /\ pc[r] = "idle"
  /\ \E p \in Puts :
       /\ p.kind = "artifact"
       /\ p.version \in Snapshots => BuildsLeft(p.version)
       /\ req' = [req EXCEPT ![r] =
                    NewRequest(Path(p.kind, p.version, p.file, 0), p.body)]
  /\ Goto(r, "put")
  /\ UNCHANGED <<blobs, layout, holder, metadataVars, asideVars>>

\* handle_put with a sidecar: it is compared with the artifact, if there is one.
PutChecksum(r) ==
  /\ pc[r] = "idle"
  /\ holder = NoHolder
  /\ \E p \in Puts :
       LET main == layout[Path("artifact", p.version, p.file, 0)]
       IN /\ p.kind = "checksum"
          /\ declares[p.body] # NoDigest
          /\ req' = [req EXCEPT ![r] =
                       [NewRequest(Path(p.kind, p.version, p.file, 0), p.body)
                          EXCEPT !.main = main]]
          /\ Goto(r, IF main = NoDigest THEN "put" ELSE "verify")
  /\ UNCHANGED <<blobs, layout, holder, metadataVars, asideVars>>

\* The sidecar is accepted without a look at the artifact.
Mut_Verify(r) ==
  /\ pc[r] = "verify"
  /\ Goto(r, "put") /\ UNCHANGED req
  /\ UNCHANGED <<blobs, layout, holder, metadataVars, asideVars>>

\* blobs.get and the comparison.  A difference or a failed read ends the
\* request.
Verify(r) ==
  /\ pc[r] = "verify"
  /\ \/ /\ req[r].main \in blobs
        /\ declares[req[r].digest] = req[r].main
        /\ Goto(r, "put") /\ UNCHANGED req
     \/ Return(r)
  /\ UNCHANGED <<blobs, layout, holder, metadataVars, asideVars>>

\* blobs.put
Store(r) ==
  /\ pc[r] = "put"
  /\ blobs' = blobs \cup {req[r].digest}
  /\ Goto(r, IF /\ req[r].path.kind = "artifact"
                /\ req[r].path.version \in Snapshots
             THEN "count" ELSE "insert")
  /\ UNCHANGED <<layout, holder, metadataVars, req, asideVars>>

StoreFails(r) ==
  /\ pc[r] = "put"
  /\ Return(r)
  /\ UNCHANGED <<blobs, layout, holder, metadataVars, asideVars>>

----------------------------------------------------------------------------
(* register_snapshot_timestamped *)

\* A request has a build number of the same base and has not described it yet.
Describing(b) ==
  \E r \in Requests : pc[r] \in {"stamp", "describe"} /\ Base(r) = b

\* The number is drawn and not stored.
Mut_Count(r) ==
  LET next == snapshot_counter[Base(r)] + 1
  IN /\ pc[r] = "count"
     /\ req' = [req EXCEPT ![r].build = next]
     /\ Note("overtaken", Describing(Base(r)))
     /\ Goto(r, "stamp")
     /\ UNCHANGED <<blobs, layout, holder, metadataVars, detached,
                    disturbances>>

Count(r) ==
  LET next == snapshot_counter[Base(r)] + 1
  IN /\ pc[r] = "count"
     /\ snapshot_counter' = [snapshot_counter EXCEPT ![Base(r)] = next]
     /\ req' = [req EXCEPT ![r].build = next]
     /\ Note("overtaken", Describing(Base(r)))
     /\ Goto(r, "stamp")
     /\ UNCHANGED <<blobs, layout, holder, index, snapshot_metadata, detached,
                    disturbances>>

\* The timestamped name is entered.
Stamp(r) ==
  LET p == req[r].path
  IN /\ pc[r] = "stamp"
     /\ holder = NoHolder
     /\ layout' = [layout EXCEPT ![Stamped(p.version, p.file, req[r].build)]
                                   = req[r].digest]
     /\ Note("overtaken", Regenerating)
     /\ Goto(r, "describe")
     /\ UNCHANGED <<blobs, holder, metadataVars, req, detached, disturbances>>

\* The metadata of the base names this build, and only this one.
Describe(r) ==
  /\ pc[r] = "describe"
  /\ snapshot_metadata' = [snapshot_metadata EXCEPT ![Base(r)] = req[r].build]
  /\ Goto(r, "insert")
  /\ UNCHANGED <<blobs, layout, holder, index, snapshot_counter, req,
                 asideVars>>

----------------------------------------------------------------------------
(* The entry, and regenerate_artifact_index *)

\* A sidecar for path p is stored or on its way past its comparison.
Sidecar(p) ==
  LET c == [p EXCEPT !.kind = "checksum"]
  IN \/ layout[c] # NoDigest
     \/ \E r \in Requests : pc[r] # "idle" /\ req[r].path = c

\* The index is regenerated before the file is entered.
Mut_Insert(r) ==
  LET p == req[r].path
  IN /\ pc[r] = "insert"
     /\ holder = NoHolder
     /\ layout' = [layout EXCEPT ![p] = req[r].digest]
     /\ IF p.kind = "artifact"
        THEN /\ req' = [req EXCEPT ![r].versions = Listed]
             /\ Goto(r, "index")
             /\ events' = events
                  \cup (IF Regenerating THEN {"overtaken"} ELSE {})
                  \cup (IF Sidecar(p) THEN {"restaged"} ELSE {})
        ELSE Return(r) /\ UNCHANGED events
     /\ UNCHANGED <<blobs, holder, metadataVars, detached, disturbances>>

Insert(r) ==
  LET p == req[r].path
  IN /\ pc[r] = "insert"
     /\ holder = NoHolder
     /\ layout' = [layout EXCEPT ![p] = req[r].digest]
     /\ IF p.kind = "artifact"
        THEN /\ Goto(r, "versions") /\ UNCHANGED req
             /\ events' = events
                  \cup (IF Regenerating THEN {"overtaken"} ELSE {})
                  \cup (IF Sidecar(p) THEN {"restaged"} ELSE {})
        ELSE Return(r) /\ UNCHANGED events
     /\ UNCHANGED <<blobs, holder, metadataVars, detached, disturbances>>

\* The versions are collected under the read guard of the layout.
ReadVersions(r) ==
  /\ pc[r] = "versions"
  /\ holder = NoHolder
  /\ req' = [req EXCEPT ![r].versions = Listed]
  /\ Goto(r, "index")
  /\ UNCHANGED <<blobs, layout, holder, metadataVars, asideVars>>

\* The list is cached, and the PUT answered with 201.
WriteIndex(r) ==
  /\ pc[r] = "index"
  /\ index' = req[r].versions
  /\ Return(r)
  /\ UNCHANGED <<blobs, layout, holder, snapshot_metadata, snapshot_counter,
                 asideVars>>

\* handle_put with a maven-metadata.xml, of the artifact or of a version: it is
\* cached as it comes.  A checksum of one is parsed as one, and refused.
PutMetadata ==
  /\ Disturb
  /\ \/ \E versions \in SUBSET Versions :
          index' = versions /\ UNCHANGED snapshot_metadata
     \/ \E v \in Versions, n \in 0..MaxBuilds :
          /\ snapshot_metadata' =
               [snapshot_metadata EXCEPT ![base_version[v]] = n]
          /\ UNCHANGED index
  /\ Note("uploaded", TRUE)
  /\ UNCHANGED <<blobs, layout, holder, snapshot_counter, pc, req, detached>>

----------------------------------------------------------------------------
(* handle_delete *)

\* A PUT of the same bytes has stored them and not entered them yet.
Entering(d) ==
  \E r \in Requests : /\ pc[r] \in {"count", "stamp", "describe", "insert"}
                      /\ req[r].digest = d

\* Whether another path refers to the blob is not asked.
Mut_Delete(r, p) ==
  /\ pc[r] = "idle"
  /\ holder = NoHolder
  /\ layout[p] # NoDigest
  /\ Disturb
  /\ layout' = [layout EXCEPT ![p] = NoDigest]
  /\ holder' = r
  /\ req' = [req EXCEPT ![r] = NewRequest(p, layout[p])]
  /\ Goto(r, "delete")
  /\ Note("deleted", TRUE)
  /\ UNCHANGED <<blobs, metadataVars, detached>>

\* The entry goes; its blob too if no entry refers to it, with the guard held.
\* The path is not parsed, so a timestamped name can be deleted.
Delete(r, p) ==
  /\ pc[r] = "idle"
  /\ holder = NoHolder
  /\ layout[p] # NoDigest
  /\ Disturb
  /\ layout' = [layout EXCEPT ![p] = NoDigest]
  /\ IF \E q \in Paths : layout'[q] = layout[p]
     THEN UNCHANGED <<holder, pc, req>>
     ELSE /\ holder' = r
          /\ req' = [req EXCEPT ![r] = NewRequest(p, layout[p])]
          /\ Goto(r, "delete")
  /\ Note("deleted", TRUE)
  /\ UNCHANGED <<blobs, metadataVars, detached>>

DeleteBlob(r) ==
  /\ pc[r] = "delete"
  /\ \/ /\ blobs' = blobs \ {req[r].digest}
        /\ Note("raced", Entering(req[r].digest))
     \/ UNCHANGED <<blobs, events>>
  /\ holder' = NoHolder
  /\ Return(r)
  /\ UNCHANGED <<layout, metadataVars, detached, disturbances>>

----------------------------------------------------------------------------
(* serve: what a GET finds *)

\* The bytes of an artifact.
serve(p) == IF layout[p] \in blobs THEN layout[p] ELSE NoDigest

\* The bytes whose checksum is stated: by the stored sidecar if there is one,
\* computed from the artifact if not.
serve_checksum(p) ==
  LET sidecar == layout[[p EXCEPT !.kind = "checksum"]]
  IN  IF sidecar = NoDigest THEN serve(p)
      ELSE IF sidecar \in blobs THEN declares[sidecar] ELSE NoDigest

----------------------------------------------------------------------------
(* hyper and tokio *)

\* A handler is dropped where it awaits, its guard with it.  A put or delete
\* that was handed to the blocking pool still happens.
Drop(r) ==
  /\ "disconnect" \in Faults
  /\ Disturb
  /\ pc[r] # "idle"
  /\ \/ /\ pc[r] \in {"put", "delete"}
        /\ detached' = detached \cup {<<pc[r], req[r].digest>>}
     \/ UNCHANGED detached
  /\ holder' = IF holder = r THEN NoHolder ELSE holder
  /\ Note("dropped", TRUE)
  /\ Return(r)
  /\ UNCHANGED <<blobs, layout, metadataVars>>

Detached ==
  \E e \in detached :
    /\ blobs' = IF e[1] = "put" THEN blobs \cup {e[2]} ELSE blobs \ {e[2]}
    /\ detached' = detached \ {e}
    /\ UNCHANGED <<layout, holder, metadataVars, pc, req, disturbances, events>>

Next ==
  \/ \E r \in Requests :
       \/ PutArtifact(r) \/ PutChecksum(r) \/ Verify(r)
       \/ Store(r) \/ StoreFails(r)
       \/ Count(r) \/ Stamp(r) \/ Describe(r)
       \/ Insert(r) \/ ReadVersions(r) \/ WriteIndex(r)
       \/ \E p \in Paths : Delete(r, p)
       \/ DeleteBlob(r) \/ Drop(r)
  \/ PutMetadata \/ Detached

Spec == Init /\ [][Next]_vars

----------------------------------------------------------------------------
(* Properties *)

\* No path ends up "pointing at a deleted blob (data loss)" (handlers.rs:493).
LayoutBlobPresent ==
  \A p \in Paths : layout[p] \in blobs \cup {NoDigest}

\* A DELETE never takes the bytes of another path, as long as no DELETE falls
\* between the two halves of a PUT of the same bytes and no client hangs up:
\* the scan and the blob delete are one critical section (handle_delete R5-1).
SharedBlobKept ==
  events \cap {"raced", "dropped"} = {} => LayoutBlobPresent

\* "an increasing build number per base version" (snapshot.rs:8-9): the
\* timestamped file of a build is never replaced by that of another, although
\* the number is drawn and used under different guards, and uploads of all
\* files of a version draw from one counter.
BuildsDistinct ==
  [][\A p \in Paths : p.build # 0 /\ layout[p] # NoDigest
       => layout'[p] \in {layout[p], NoDigest}]_vars

\* Once all PUTs are answered, the generated metadata names every version that
\* has an artifact, none that has no file, and the newest build of each
\* snapshot, unless one PUT overtook another, a client wrote the metadata or
\* went away, or something was deleted (regenerate_artifact_index).
MetadataCurrent ==
  (\A r \in Requests : pc[r] = "idle") /\ events \subseteq {"restaged"} =>
    /\ VersionsOf({"artifact"}) \subseteq index
    /\ index \subseteq Listed
    /\ snapshot_metadata = snapshot_counter

\* Whoever gets an artifact gets the checksum of that artifact, stored or
\* computed (serve_checksum: "Maven clients treat a missing `.sha1` sidecar as
\* fatal"), although an uploaded sidecar is compared before it is stored and
\* stored before it is entered, unless an artifact was entered while its
\* sidecar was stored or on its way (put_checksum), a DELETE fell into a PUT
\* or a client hung up.
SidecarsMatch ==
  events \cap {"restaged", "raced", "dropped"} = {} =>
    \A v \in Versions, f \in Files :
      LET main == Path("artifact", v, f, 0)
      IN  serve(main) # NoDigest => serve_checksum(main) = serve(main)

=============================================================================
