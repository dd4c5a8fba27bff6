--------------------------- MODULE Servers_proofs ---------------------------
(***************************************************************************)
(* Proofs about the parts of Servers, for any number of requests, blobs,   *)
(* sessions and chunks of any length: the gauge of blobs is exact, the     *)
(* caps on uploads hold and a byte is buffered where its header says or    *)
(* not at all, and the books and scrapes of a server are right.            *)
(***************************************************************************)
EXTENDS Servers, Integers, Sequences, FiniteSetTheorems, TLAPS

\* The parts count sets as FiniteSets does.
LEMMA SameCardinality ==
  ASSUME NEW S
  PROVE  /\ Accounts!Cardinality(S) = Cardinality(S)
         /\ Uploads!Cardinality(S) = Cardinality(S)
         /\ Server!Cardinality(S) = Cardinality(S)
BY DEF Accounts!Cardinality, Uploads!Cardinality, Server!Cardinality, Cardinality

----------------------------------------------------------------------------
(* The counts of a scrape *)

Counts == [crates: Nat, versions: Nat]

\* Counts that agree on both gauges are the same.
LEMMA SameCounts ==
  ASSUME NEW c \in Counts, NEW d \in Counts, c.crates = d.crates, c.versions = d.versions
  PROVE  c = d
BY DEF Counts

\* Publish leaves counts in the index.
LEMMA PublishCounts ==
  ASSUME index \in Counts, NEW r \in Handlers, Server!Publish(r) PROVE index' \in Counts
BY DEF Server!Publish, Counts

\* SetCrates sets one gauge,
LEMMA CratesSet ==
  ASSUME gauges \in Counts, NEW c \in Counts, gauges' = [gauges EXCEPT !.crates = c.crates]
  PROVE  gauges' \in Counts /\ gauges'.crates = c.crates
BY DEF Counts

\* and SetVersions the other.
LEMMA VersionsSet ==
  ASSUME gauges \in Counts, NEW c \in Counts, gauges' = [gauges EXCEPT !.versions = c.versions]
  PROVE  /\ gauges' \in Counts /\ gauges'.crates = gauges.crates
         /\ gauges'.versions = c.versions
BY DEF Counts

\* Encode reports the gauges.
LEMMA EncodeExact ==
  ASSUME NEW s, s # {} => gauges \in s,
         reported' = {[counts |-> gauges, in_flight |-> in_flight, seen |-> s]}
  PROVE  Server!ScrapeExact'
BY DEF Server!ScrapeExact

----------------------------------------------------------------------------
(* The gauge of blobs *)

Storing == {"contains", "put", "count"}
BlobSteps == {"idle", "lock", "delete", "dec"} \cup Storing

\* While nothing disturbs the server, one store at a time is between the lock
\* and its count: what `contains` told it is still so when it puts, and until
\* it has counted a new blob the gauge is one behind.
Undisturbed ==
  /\ pending = {}
  /\ \A r \in Handlers : step[r] \notin {"delete", "dec"}
  /\ \A r \in Handlers : step[r] \in Storing => accounting = r
  /\ \A r \in Handlers : step[r] = "put" => args[r].present = (args[r].digest \in held)
  /\ \A r \in Handlers : step[r] = "count" /\ ~args[r].present =>
                           blob_count + 1 = Cardinality(held)
  /\ (\A r \in Handlers : step[r] = "count" => args[r].present) =>
       blob_count = Cardinality(held)

BlobTypes ==
  /\ IsFiniteSet(held) /\ blob_count \in Nat
  /\ step \in [Handlers -> BlobSteps] /\ DOMAIN args = Handlers
  /\ \A r \in Handlers : step[r] # "idle" => args[r] \in [digest: BlobDigests, present: BOOLEAN]

GaugeInv == BlobTypes /\ (~disturbed => Undisturbed)

\* An empty store.
LEMMA GaugeInit == Accounts!Init => GaugeInv
<1> SUFFICES ASSUME Accounts!Init PROVE GaugeInv
  OBVIOUS
<1>1. IsFiniteSet(held) /\ Cardinality(held) = 0
  BY FS_EmptySet DEF Accounts!Init
<1>2. \A r \in Handlers : step[r] = "idle"
  BY DEF Accounts!Init
<1>3. BlobTypes
  BY <1>1 DEF Accounts!Init, BlobTypes, BlobSteps
<1>4. Undisturbed
  BY <1>1, <1>2, Zenon DEF Accounts!Init, Undisturbed, Storing
<1> QED
  BY <1>3, <1>4 DEF GaugeInv

\* A handler's step is about its own request.
Sole(r) == \A s \in Handlers : s # r => step'[s] = step[s] /\ args'[s] = args[s]

\* The step a request takes next, and what it knows.
LEMMA BlobSole ==
  ASSUME BlobTypes, NEW r \in Handlers,
         \/ \E d \in BlobDigests : Accounts!Store(r, d) \/ Accounts!Delete(r, d)
         \/ Accounts!StoreLock(r) \/ Accounts!Proceed(r) \/ Accounts!Drop(r)
  PROVE  /\ Sole(r) /\ step' \in [Handlers -> BlobSteps] /\ DOMAIN args' = Handlers
         /\ step'[r] # "idle" => args'[r] \in [digest: BlobDigests, present: BOOLEAN]
<1> USE DEF BlobTypes, Sole, BlobSteps, Storing, Accounts!Goto, Accounts!Return
<1>1. CASE \E d \in BlobDigests : Accounts!Store(r, d) \/ Accounts!Delete(r, d)
  <2>1. PICK d \in BlobDigests, b \in BOOLEAN, next \in {"lock", "delete"} :
          /\ args' = [args EXCEPT ![r] = [digest |-> d, present |-> b]]
          /\ step' = [step EXCEPT ![r] = next]
    BY <1>1, Zenon DEF Accounts!Store, Accounts!Delete
  <2>2. [digest |-> d, present |-> b] \in [digest: BlobDigests, present: BOOLEAN]
    BY Zenon
  <2> QED
    BY <2>1, <2>2
<1>2. CASE Accounts!StoreLock(r) \/ Accounts!StorePut(r)
  BY <1>2 DEF Accounts!StoreLock, Accounts!StorePut
<1>3. CASE Accounts!StoreContains(r)
  <2> DEFINE b == args[r].digest \in held
  <2>1. /\ step[r] = "contains" /\ step' = [step EXCEPT ![r] = "put"]
        /\ args' = [args EXCEPT ![r].present = b] \/ args' = args
    BY <1>3 DEF Accounts!StoreContains
  <2>2. args[r] \in [digest: BlobDigests, present: BOOLEAN] /\ b \in BOOLEAN
    BY <2>1
  <2> HIDE DEF b
  <2>3. [args[r] EXCEPT !.present = b] \in [digest: BlobDigests, present: BOOLEAN]
    BY <2>2
  <2> QED
    BY <2>1, <2>2, <2>3
<1>4. CASE Accounts!StorePutFails(r) \/ Accounts!StoreCount(r) \/ Accounts!DeleteCount(r)
  BY <1>4 DEF Accounts!StorePutFails, Accounts!StoreCount, Accounts!DeleteCount
<1>5. CASE Accounts!DeleteRemove(r)
  BY <1>5 DEF Accounts!DeleteRemove
<1>6. CASE Accounts!Drop(r)
  BY <1>6 DEF Accounts!Drop
<1> QED
  BY <1>1, <1>2, <1>3, <1>4, <1>5, <1>6 DEF Accounts!Proceed

\* The store stays finite, and the counter a number (dec_blob_count saturates).
LEMMA BlobNumbers ==
  ASSUME BlobTypes, [Accounts!Next]_blobVars
  PROVE  IsFiniteSet(held') /\ blob_count' \in Nat
<1>1. \/ held' = held
      \/ \E d : held' = held \cup {d}
      \/ \E d : held' = held \ {d}
  BY Zenon DEF Accounts!Next, blobVars, Accounts!Store, Accounts!Delete, Accounts!StoreLock,
     Accounts!Proceed, Accounts!StoreContains, Accounts!StorePut, Accounts!StorePutFails,
     Accounts!StoreCount, Accounts!DeleteRemove, Accounts!DeleteCount, Accounts!Drop,
     Accounts!Detached
<1>2. IsFiniteSet(held')
  BY <1>1, FS_AddElement, FS_RemoveElement DEF BlobTypes
<1>3. blob_count' \in {blob_count, blob_count + 1, Accounts!dec_blob_count(blob_count)}
  BY DEF Accounts!Next, blobVars, Accounts!Store, Accounts!Delete, Accounts!StoreLock,
     Accounts!Proceed, Accounts!StoreContains, Accounts!StorePut, Accounts!StorePutFails,
     Accounts!StoreCount, Accounts!DeleteRemove, Accounts!DeleteCount, Accounts!Drop,
     Accounts!Detached
<1>4. blob_count' \in Nat
  BY <1>3 DEF BlobTypes, Accounts!dec_blob_count
<1> QED
  BY <1>2, <1>4

\* Undisturbed so far, a handler that disturbs nothing leaves it so.
LEMMA UndisturbedStep ==
  ASSUME BlobTypes, Undisturbed, ~disturbed, ~disturbed', NEW r \in Handlers,
         \/ \E d \in BlobDigests : Accounts!Store(r, d) \/ Accounts!Delete(r, d)
         \/ Accounts!StoreLock(r) \/ Accounts!Proceed(r) \/ Accounts!Drop(r)
  PROVE  Undisturbed'
<1>1. /\ Sole(r) /\ r # NoHolder
      /\ \A s \in Handlers : s # r /\ accounting \in {r, NoHolder} => step[s] \notin Storing
  BY BlobSole, HandlersAssumption DEF Undisturbed
<1>2. ASSUME step'[r] \in {"idle", "lock"}, step[r] \in {"idle", "put"},
             UNCHANGED <<held, blob_count, pending>>, accounting' = accounting \/ accounting = r
      PROVE  Undisturbed'
  BY <1>1, <1>2, Zenon DEF Undisturbed, Sole, Storing
<1>3. CASE (\E d \in BlobDigests : Accounts!Store(r, d)) \/ Accounts!StorePutFails(r)
  BY <1>2, <1>3 DEF Accounts!Store, Accounts!StorePutFails, Accounts!Goto, Accounts!Return,
     BlobTypes, Undisturbed, Storing
<1>4. CASE Accounts!StoreLock(r)
  <2>1. /\ step' = [step EXCEPT ![r] = "contains"] /\ step[r] = "lock"
        /\ accounting = NoHolder /\ accounting' = r /\ UNCHANGED <<held, blob_count, args, pending>>
    BY <1>4 DEF Accounts!StoreLock, Accounts!Goto
  <2> QED
    BY <1>1, <2>1 DEF Undisturbed, Storing, BlobTypes
<1>5. CASE Accounts!StoreContains(r)
  <2>1. /\ step' = [step EXCEPT ![r] = "put"] /\ step[r] = "contains" /\ accounting = r
        /\ args' = [args EXCEPT ![r].present = args[r].digest \in held]
        /\ UNCHANGED <<accounting, held, blob_count, pending>>
    BY <1>5 DEF Accounts!StoreContains, Accounts!Goto, Undisturbed, Storing
  <2>2. args'[r].digest = args[r].digest /\ args'[r].present = (args[r].digest \in held)
    BY <2>1 DEF BlobTypes
  <2> QED
    BY <1>1, <2>1, <2>2 DEF Undisturbed, Storing, BlobTypes, Sole
<1>6. CASE Accounts!StorePut(r)
  <2>1. /\ step' = [step EXCEPT ![r] = "count"] /\ step[r] = "put" /\ accounting = r
        /\ held' = held \cup {args[r].digest}
        /\ UNCHANGED <<accounting, args, blob_count, pending>>
    BY <1>6 DEF Accounts!StorePut, Accounts!Goto, Undisturbed, Storing
  <2>2. Cardinality(held') = IF args[r].present THEN Cardinality(held) ELSE Cardinality(held) + 1
    BY <2>1, FS_AddElement, Zenon DEF BlobTypes, Undisturbed
  <2>3. blob_count = Cardinality(held)
    BY <1>1, <2>1, Zenon DEF Undisturbed, Storing
  <2> QED
    BY <1>1, <2>1, <2>2, <2>3, Zenon DEF Undisturbed, Storing, BlobTypes
<1>7. CASE Accounts!StoreCount(r)
  <2>1. /\ step' = [step EXCEPT ![r] = "idle"] /\ step[r] = "count" /\ accounting = r
        /\ blob_count' = IF args[r].present THEN blob_count ELSE blob_count + 1
        /\ UNCHANGED <<held, pending>>
    BY <1>7 DEF Accounts!StoreCount, Accounts!Return, Undisturbed, Storing
  <2>2. blob_count' = Cardinality(held)
    BY <1>1, <2>1 DEF Undisturbed, Storing
  <2> QED
    BY <1>1, <2>1, <2>2, Zenon DEF Undisturbed, Storing, BlobTypes, Sole
<1>8. ~Accounts!DeleteRemove(r) /\ ~Accounts!DeleteCount(r)
  BY DEF Accounts!DeleteRemove, Accounts!DeleteCount, Undisturbed
<1>9. ~Accounts!Drop(r) /\ \A d \in BlobDigests : ~Accounts!Delete(r, d)
  BY DEF Accounts!Drop, Accounts!Delete
<1> QED
  BY <1>3, <1>4, <1>5, <1>6, <1>7, <1>8, <1>9, Zenon DEF Accounts!Proceed

\* GaugeInv through every step.
LEMMA GaugeStep == ASSUME GaugeInv, [Accounts!Next]_blobVars PROVE GaugeInv'
<1>1. IsFiniteSet(held') /\ blob_count' \in Nat
  BY BlobNumbers DEF GaugeInv
<1>2. CASE Accounts!Detached \/ UNCHANGED blobVars
  <2>1. UNCHANGED <<step, args, disturbed>>
    BY <1>2 DEF Accounts!Detached, blobVars
  <2>2. BlobTypes'
    BY <1>1, <2>1 DEF GaugeInv, BlobTypes
  <2>3. ~disturbed' => UNCHANGED blobVars
    BY <1>2, <2>1 DEF GaugeInv, Undisturbed, Accounts!Detached
  <2>4. ~disturbed' => Undisturbed'
    BY <2>1, <2>3 DEF GaugeInv, Undisturbed, blobVars
  <2> QED
    BY <2>2, <2>4 DEF GaugeInv
<1>3. ASSUME NEW r \in Handlers,
             \/ \E d \in BlobDigests : Accounts!Store(r, d) \/ Accounts!Delete(r, d)
             \/ Accounts!StoreLock(r) \/ Accounts!Proceed(r) \/ Accounts!Drop(r)
      PROVE  GaugeInv'
  <2>1. BlobTypes'
    <3>1. /\ Sole(r) /\ step' \in [Handlers -> BlobSteps] /\ DOMAIN args' = Handlers
          /\ step'[r] # "idle" => args'[r] \in [digest: BlobDigests, present: BOOLEAN]
      BY <1>3, BlobSole DEF GaugeInv
    <3> QED
      BY <1>1, <3>1 DEF GaugeInv, BlobTypes, Sole
  <2>2. ~disturbed' => ~disturbed
    BY <1>3 DEF Accounts!Store, Accounts!Delete, Accounts!StoreLock, Accounts!Proceed,
       Accounts!StoreContains, Accounts!StorePut, Accounts!StorePutFails, Accounts!StoreCount,
       Accounts!DeleteRemove, Accounts!DeleteCount, Accounts!Drop
  <2>3. ~disturbed' => Undisturbed'
    BY <1>3, <2>2, UndisturbedStep DEF GaugeInv
  <2> QED
    BY <2>1, <2>3 DEF GaugeInv
<1> QED
  BY <1>2, <1>3 DEF Accounts!Next

\* The gauge of distinct blobs is exact whenever no store is in progress, until
\* something is deleted, dropped or cannot be looked up (store_blob_counted).
THEOREM GaugeIsExact == ServersSpec => []BlobGaugeExact
<1>1. GaugeInv => BlobGaugeExact
  <2> SUFFICES ASSUME BlobTypes, Undisturbed, accounting = NoHolder
               PROVE  blob_count = Cardinality(held)
    BY SameCardinality DEF GaugeInv, BlobGaugeExact, Accounts!GaugeExact
  <2>1. \A r \in Handlers : step[r] # "count"
    BY HandlersAssumption DEF Undisturbed, Storing
  <2> QED
    BY <2>1 DEF Undisturbed
<1>2. ServersInit => GaugeInv
  BY GaugeInit DEF ServersInit
<1>3. GaugeInv /\ [ServersNext]_serversVars => GaugeInv'
  <2>1. [ServersNext]_serversVars => [Accounts!Next]_blobVars
    BY DEF ServersNext, serversVars, OnlyUploads, OnlyServer
  <2> QED
    BY <2>1, GaugeStep
<1> QED
  BY <1>1, <1>2, <1>3, PTL DEF ServersSpec

----------------------------------------------------------------------------
(* The buffers of uploads *)

\* The configured cap is a number of bytes below u64::MAX, which is where
\* saturating_add in would_exceed_cap could no longer tell a sum from the cap.
Configured ==
  /\ U64_MAX \in Nat /\ MaxChunk \in Nat
  /\ max_upload_session_bytes \in Nat /\ max_upload_session_bytes < U64_MAX

Bytes == Nat \cup {Unplaced}
Session == [buffer: Seq(Bytes), idle: Nat]

\* What can be appended at an offset.
Fits(start, chunk) ==
  /\ start \in Nat /\ chunk \in Seq(Bytes)
  /\ start + Len(chunk) <= max_upload_session_bytes
  /\ \A i \in 1..Len(chunk) : chunk[i] \in {start + i - 1, Unplaced}

Buffers(ups) ==
  /\ ups \in [Uuids -> Session \cup {NoSession}]
  /\ \A u \in Uuids : ups[u] # NoSession =>
       /\ Len(ups[u].buffer) <= max_upload_session_bytes
       /\ Uploads!Placement(ups[u].buffer)

\* The check of the cap is about the offset that the append will compare again.
UploadInv ==
  /\ Buffers(uploads)
  /\ DOMAIN call = Handlers /\ DOMAIN asked = Handlers
  /\ \A r \in Handlers : /\ call[r] # "idle" => asked[r].uuid \in Uuids
                         /\ call[r] = "append" => Fits(asked[r].offset, asked[r].chunk)
                         /\ call[r] = "store" => Uploads!Placement(asked[r].digest)

\* No session is open.
LEMMA UploadInit == Uploads!Init => UploadInv
BY DEF Uploads!Init, UploadInv, Buffers

\* A session that closes takes its buffer along.
LEMMA RemoveKeeps ==
  ASSUME Buffers(uploads), NEW u \in Uuids, Uploads!remove(u) PROVE Buffers(uploads')
BY DEF Uploads!remove, Buffers

\* What the appended chunk does to a buffer.
LEMMA AppendFits ==
  ASSUME NEW b \in Seq(Bytes), Uploads!Placement(b), NEW c, Fits(Len(b), c)
  PROVE  /\ b \o c \in Seq(Bytes) /\ Len(b \o c) <= max_upload_session_bytes
         /\ Uploads!Placement(b \o c)
<1>1. c \in Seq(Bytes) /\ Len(b) \in Nat /\ Len(c) \in Nat
  BY DEF Fits
<1>2. b \o c \in Seq(Bytes) /\ Len(b \o c) = Len(b) + Len(c)
  BY <1>1
<1>3. ASSUME NEW i \in 1..Len(b \o c) PROVE (b \o c)[i] \in {i - 1, Unplaced}
  <2>1. CASE i <= Len(b)
    BY <1>1, <1>2, <2>1 DEF Uploads!Placement
  <2>2. CASE i > Len(b)
    <3>1. i - Len(b) \in 1..Len(c) /\ (b \o c)[i] = c[i - Len(b)]
      BY <1>1, <1>2, <2>2
    <3>2. c[i - Len(b)] \in {Len(b) + (i - Len(b)) - 1, Unplaced}
      BY <3>1 DEF Fits
    <3> QED
      BY <1>1, <3>1, <3>2
  <2> QED
    BY <1>1, <2>1, <2>2
<1> QED
  BY <1>2, <1>3 DEF Uploads!Placement, Fits

\* A chunk that the check of the cap lets through fits at the offset it was
\* checked for.
LEMMA ChunkFits ==
  ASSUME Configured, NEW start \in Nat, NEW n \in Nat,
         NEW chunk \in {Uploads!Loose(n), Uploads!Placed(start, n)},
         ~Uploads!would_exceed_cap(max_upload_session_bytes, start, Len(chunk))
  PROVE  Fits(start, chunk)
<1>1. chunk \in Seq(Bytes) /\ Len(chunk) = n
  BY DEF Uploads!Loose, Uploads!Placed, Bytes
<1>2. \A i \in 1..n : chunk[i] \in {start + i - 1, Unplaced}
  BY DEF Uploads!Loose, Uploads!Placed
<1>3. start + Len(chunk) <= max_upload_session_bytes
  BY <1>1 DEF Uploads!would_exceed_cap, Configured
<1> QED
  BY <1>1, <1>2, <1>3 DEF Fits

\* A handler goes on with a chunk after its checks.
LEMMA ChunkKeeps ==
  ASSUME Configured, UploadInv, NEW r \in Handlers, NEW u \in Uuids, NEW op, NEW digest,
         Uploads!Open(u), NEW n \in Nat,
         NEW chunk \in {Uploads!Loose(n), Uploads!Placed(Uploads!offset(u), n)},
         Uploads!Chunk(r, op, u, Uploads!offset(u), chunk, digest), UNCHANGED uploads
  PROVE  UploadInv'
<1>1. Uploads!offset(u) \in Nat
  BY DEF UploadInv, Buffers, Session, Uploads!Open, Uploads!offset
<1>2. /\ DOMAIN call' = Handlers /\ DOMAIN asked' = Handlers
      /\ \A s \in Handlers : s # r => call'[s] = call[s] /\ asked'[s] = asked[s]
      /\ call'[r] # "store" /\ asked'[r].uuid = u
      /\ asked'[r].offset = Uploads!offset(u) /\ asked'[r].chunk = chunk
      /\ call'[r] = "append" =>
           ~Uploads!would_exceed_cap(max_upload_session_bytes, Uploads!offset(u), Len(chunk))
  BY Zenon DEF Uploads!Chunk, Uploads!Goto, UploadInv
<1>3. call'[r] = "append" => Fits(Uploads!offset(u), chunk)
  BY <1>1, <1>2, ChunkFits, Zenon
<1> QED
  BY <1>2, <1>3, Zenon DEF UploadInv

\* A handler ends or goes to a step with no claim of its own.
LEMMA PlainKeeps ==
  ASSUME UploadInv, Buffers(uploads'), NEW r \in Handlers,
         DOMAIN call' = Handlers, DOMAIN asked' = Handlers,
         \A s \in Handlers : s # r => call'[s] = call[s] /\ asked'[s] = asked[s],
         call'[r] \notin {"append", "store"},
         call'[r] # "idle" => asked'[r].uuid \in Uuids
  PROVE  UploadInv'
BY DEF UploadInv

\* append_upload adds a chunk to the session it found (AppendUpload).
LEMMA AppendKeeps ==
  ASSUME UploadInv, NEW r \in Handlers, Uploads!AppendUpload(r) PROVE UploadInv'
<1> DEFINE u == asked[r].uuid
<1>1. /\ DOMAIN call' = Handlers /\ DOMAIN asked' = Handlers
      /\ call[r] = "append" /\ u \in Uuids
      /\ \A s \in Handlers : s # r => call'[s] = call[s] /\ asked'[s] = asked[s]
      /\ call'[r] \in {"idle", "take"} /\ (call'[r] # "idle" => asked'[r].uuid = u)
  BY Zenon DEF Uploads!AppendUpload, Uploads!Return, Uploads!Goto, UploadInv
<1>2. CASE Uploads!Open(u) /\ asked[r].offset = Uploads!offset(u)
  <2> DEFINE b == uploads[u].buffer
  <2>1. uploads' = [uploads EXCEPT ![u] = [buffer |-> b \o asked[r].chunk, idle |-> 0]]
    BY <1>2, Zenon DEF Uploads!AppendUpload
  <2>2. b \in Seq(Bytes) /\ Uploads!Placement(b) /\ Fits(Len(b), asked[r].chunk)
    BY <1>1, <1>2 DEF UploadInv, Buffers, Session, Uploads!Open, Uploads!offset
  <2>3. /\ b \o asked[r].chunk \in Seq(Bytes)
        /\ Len(b \o asked[r].chunk) <= max_upload_session_bytes
        /\ Uploads!Placement(b \o asked[r].chunk)
    BY <2>2, AppendFits, Zenon
  <2> HIDE DEF b, u
  <2>4. Buffers(uploads')
    BY <2>1, <2>3, <1>1, Zenon DEF UploadInv, Buffers, Session
  <2> QED
    BY <1>1, <2>4, PlainKeeps, Zenon
<1>3. CASE ~(Uploads!Open(u) /\ asked[r].offset = Uploads!offset(u))
  BY <1>1, <1>3, PlainKeeps, Zenon DEF Uploads!AppendUpload, UploadInv
<1> QED
  BY <1>2, <1>3, Zenon

\* take_upload_bytes empties the session, which stays open until the end.
LEMMA TakeKeeps ==
  ASSUME Configured, UploadInv, NEW r \in Handlers, Uploads!TakeUploadBytes(r) PROVE UploadInv'
<1> DEFINE u == asked[r].uuid
<1>1. /\ DOMAIN call' = Handlers /\ DOMAIN asked' = Handlers /\ u \in Uuids
      /\ \A s \in Handlers : s # r => call'[s] = call[s] /\ asked'[s] = asked[s]
      /\ call'[r] # "append" /\ (call'[r] # "idle" => asked'[r].uuid = u)
      /\ call'[r] = "store" => Uploads!Open(u) /\ asked'[r].digest = uploads[u].buffer
  BY DEF Uploads!TakeUploadBytes, Uploads!Return, Uploads!Goto, UploadInv, Uploads!Finish
<1>2. Buffers(uploads')
  <2>1. CASE Uploads!Open(u)
    <3>1. uploads' = [uploads EXCEPT ![u].buffer = <<>>]
      BY <2>1, Zenon DEF Uploads!TakeUploadBytes
    <3>2. uploads[u] \in Session
      BY <1>1, <2>1 DEF UploadInv, Buffers, Uploads!Open
    <3>3. uploads'[u] \in Session /\ uploads'[u].buffer = <<>>
      <4>1. uploads'[u] = [uploads[u] EXCEPT !.buffer = <<>>]
        BY <1>1, <3>1 DEF UploadInv, Buffers
      <4>2. <<>> \in Seq(Bytes)
        OBVIOUS
      <4> QED
        BY <3>2, <4>1, <4>2, Zenon DEF Session
    <3>4. \A v \in Uuids : v # u => uploads'[v] = uploads[v]
      BY <3>1 DEF UploadInv, Buffers
    <3>5. uploads' \in [Uuids -> Session \cup {NoSession}]
      BY <3>1, <3>3, <3>4, Zenon DEF UploadInv, Buffers
    <3>6. Uploads!Placement(<<>>) /\ Len(<<>>) <= max_upload_session_bytes
      BY DEF Uploads!Placement, Configured
    <3> QED
      BY <3>3, <3>4, <3>5, <3>6, Zenon DEF UploadInv, Buffers
  <2>2. CASE ~Uploads!Open(u)
    BY <2>2, Zenon DEF Uploads!TakeUploadBytes, UploadInv
  <2> QED
    BY <2>1, <2>2, Zenon
<1>3. call'[r] = "store" => Uploads!Placement(asked'[r].digest)
  BY <1>1, Zenon DEF UploadInv, Buffers, Uploads!Open
<1> QED
  BY <1>1, <1>2, <1>3 DEF UploadInv

\* Idle sessions are swept, and a new one begins with nothing.
LEMMA StartKeeps == ASSUME Configured, UploadInv, Uploads!StartUpload PROVE UploadInv'
<1> DEFINE swept == [u \in Uuids |-> IF Uploads!Open(u) /\ Uploads!is_idle_for(u)
                                     THEN NoSession ELSE uploads[u]]
<1>1. Buffers(swept)
  BY Zenon DEF UploadInv, Buffers
<1>2. PICK u \in Uuids :
        uploads' \in {swept, [swept EXCEPT ![u] = [buffer |-> <<>>, idle |-> 0]]}
  BY DEF Uploads!StartUpload
<1> DEFINE fresh == [buffer |-> <<>>, idle |-> 0]
<1>3. /\ fresh \in Session /\ Uploads!Placement(fresh.buffer)
      /\ Len(fresh.buffer) <= max_upload_session_bytes
  BY DEF Session, Uploads!Placement, Configured
<1> HIDE DEF swept, fresh
<1>4. Buffers(uploads')
  BY <1>1, <1>2, <1>3 DEF Buffers, fresh
<1> QED
  BY <1>4, Zenon DEF Uploads!StartUpload, UploadInv

\* Time passes and sessions become idle (Tick).
LEMMA TickKeeps == ASSUME UploadInv, Uploads!Tick PROVE UploadInv'
<1>1. ASSUME NEW u \in Uuids
      PROVE  /\ uploads'[u] \in Session \cup {NoSession}
             /\ uploads'[u] # NoSession =>
                  uploads[u] # NoSession /\ uploads'[u].buffer = uploads[u].buffer
  BY DEF Uploads!Tick, Uploads!Open, UploadInv, Buffers, Session
<1>2. Buffers(uploads')
  BY <1>1 DEF Uploads!Tick, UploadInv, Buffers
<1> QED
  BY <1>2 DEF Uploads!Tick, UploadInv

\* PATCH and PUT up to their first call of the registry.
LEMMA PatchKeeps ==
  ASSUME Configured, UploadInv, NEW r \in Handlers, NEW u \in Uuids, Uploads!PatchUpload(r, u)
  PROVE  UploadInv'
<1>1. CASE Uploads!SessionUnknown(u) /\ UNCHANGED <<call, asked>>
  BY <1>1, RemoveKeeps DEF Uploads!SessionUnknown, UploadInv
<1>2. CASE /\ Uploads!SessionFound(u) /\ UNCHANGED uploads
           /\ \E n \in 0..MaxChunk :
                Uploads!Chunk(r, "patch", u, Uploads!offset(u), Uploads!Loose(n), <<>>)
  BY <1>2, ChunkKeeps DEF Uploads!SessionFound, Configured
<1>3. CASE /\ Uploads!SessionFound(u) /\ UNCHANGED uploads
           /\ \E n \in 0..MaxChunk :
                Uploads!Chunk(r, "patch", u, Uploads!offset(u),
                              Uploads!Placed(Uploads!offset(u), n), <<>>)
  BY <1>3, ChunkKeeps DEF Uploads!SessionFound, Configured
<1>4. CASE UNCHANGED <<uploads, call, asked>>
  BY <1>4 DEF UploadInv
<1> QED
  BY <1>1, <1>2, <1>3, <1>4, Zenon DEF Uploads!PatchUpload

\* The closing PUT, with a last chunk or without (FinishUpload).
LEMMA FinishKeeps ==
  ASSUME Configured, UploadInv, NEW r \in Handlers, NEW u \in Uuids, NEW d \in Declared,
         Uploads!FinishUpload(r, u, d)
  PROVE  UploadInv'
<1>1. CASE Uploads!SessionUnknown(u) /\ UNCHANGED <<call, asked>>
  BY <1>1, RemoveKeeps, Zenon DEF Uploads!SessionUnknown, UploadInv
<1>2. CASE /\ Uploads!SessionFound(u) /\ UNCHANGED uploads
           /\ \E n \in 1..MaxChunk :
                Uploads!Chunk(r, "finish", u, Uploads!offset(u), Uploads!Loose(n), d)
  BY <1>2, ChunkKeeps DEF Uploads!SessionFound, Configured
<1>3. CASE /\ UNCHANGED uploads /\ Uploads!Goto(r, "take")
           /\ asked' = [asked EXCEPT ![r] = Uploads!Finish(u, d)]
  BY <1>3, PlainKeeps, Zenon DEF Uploads!Goto, Uploads!Finish, UploadInv
<1> QED
  BY <1>1, <1>2, <1>3, Zenon DEF Uploads!FinishUpload

\* UploadInv through every step.
LEMMA UploadStep == Configured /\ UploadInv /\ [Uploads!Next]_uploadVars => UploadInv'
<1> SUFFICES ASSUME Configured, UploadInv, [Uploads!Next]_uploadVars PROVE UploadInv'
  BY Zenon
<1>1. CASE UNCHANGED uploadVars
  BY <1>1, Zenon DEF uploadVars, UploadInv
<1>2. ASSUME NEW u \in Uuids, Uploads!UploadStatus(u) \/ Uploads!CancelUpload(u) PROVE UploadInv'
  BY <1>2, RemoveKeeps, Zenon DEF Uploads!UploadStatus, Uploads!CancelUpload,
     Uploads!SessionUnknown, UploadInv
<1>3. ASSUME NEW r \in Handlers, Uploads!OverCap(r) \/ Uploads!CompleteUpload(r) PROVE UploadInv'
  <2>1. asked[r].uuid \in Uuids /\ Uploads!remove(asked[r].uuid)
    BY <1>3 DEF Uploads!OverCap, Uploads!CompleteUpload, UploadInv
  <2>2. Buffers(uploads')
    BY <2>1, RemoveKeeps, Zenon DEF UploadInv
  <2> QED
    BY <1>3, <2>2, PlainKeeps, Zenon DEF Uploads!OverCap, Uploads!CompleteUpload, Uploads!Return, UploadInv
<1>4. ASSUME NEW r \in Handlers,
             Uploads!StoreBlob(r) \/ Uploads!StoreBlobFails(r) \/ Uploads!Drop(r)
      PROVE  UploadInv'
  BY <1>4, PlainKeeps DEF Uploads!StoreBlob, Uploads!StoreBlobFails, Uploads!Drop,
     Uploads!Return, Uploads!Goto, UploadInv
<1> QED
  BY <1>1, <1>2, <1>3, <1>4, StartKeeps, TickKeeps, PatchKeeps, FinishKeeps, AppendKeeps, TakeKeeps
     DEF Uploads!Next

\* A step of the composition is one of the uploads or leaves them alone.
LEMMA UploadsMove == [ServersNext]_serversVars => [Uploads!Next]_uploadVars
BY DEF ServersNext, serversVars, OnlyBlobs, OnlyServer

\* A byte sent with a Content-Range is buffered, and handed to the blob store, at
\* the position the header declared for it or not at all (patch_upload,
\* append_upload).
THEOREM BytesInPlace == ASSUME Configured PROVE ServersSpec => []UploadInPlace
<1>1. UploadInv => UploadInPlace
  BY DEF UploadInv, Buffers, UploadInPlace, Uploads!InPlace, Uploads!Open
<1>2. ServersInit => UploadInv
  BY UploadInit DEF ServersInit
<1>3. UploadInv /\ [ServersNext]_serversVars => UploadInv'
  BY UploadStep, UploadsMove
<1> QED
  BY <1>1, <1>2, <1>3, PTL DEF ServersSpec

----------------------------------------------------------------------------
(* The number of upload sessions *)

OpenSessions == {u \in Uuids : Uploads!Open(u)}
SessionInv == DOMAIN uploads = Uuids /\ Cardinality(OpenSessions) <= max_sessions

\* Only start_upload opens a session.
LEMMA OthersOpenNone ==
  ASSUME DOMAIN uploads = Uuids, [Uploads!Next]_uploadVars, ~Uploads!StartUpload
  PROVE  DOMAIN uploads' = Uuids /\ OpenSessions' \subseteq OpenSessions
<1> USE DEF OpenSessions, Uploads!Open
<1>1. CASE \E u \in Uuids : Uploads!UploadStatus(u) \/ Uploads!CancelUpload(u)
  BY <1>1, Zenon DEF Uploads!UploadStatus, Uploads!CancelUpload, Uploads!SessionUnknown, Uploads!remove
<1>2. CASE \E r \in Handlers, u \in Uuids :
             Uploads!PatchUpload(r, u) \/ \E d \in Declared : Uploads!FinishUpload(r, u, d)
  BY <1>2, Zenon DEF Uploads!PatchUpload, Uploads!FinishUpload, Uploads!SessionUnknown, Uploads!remove
<1>3. CASE \E r \in Handlers : Uploads!OverCap(r) \/ Uploads!CompleteUpload(r)
  BY <1>3 DEF Uploads!OverCap, Uploads!CompleteUpload, Uploads!remove
<1>4. CASE \E r \in Handlers : Uploads!AppendUpload(r)
  BY <1>4, Zenon DEF Uploads!AppendUpload
<1>5. CASE \E r \in Handlers : Uploads!TakeUploadBytes(r)
  BY <1>5 DEF Uploads!TakeUploadBytes
<1>6. CASE \E r \in Handlers : Uploads!StoreBlob(r) \/ Uploads!StoreBlobFails(r) \/ Uploads!Drop(r)
  BY <1>6 DEF Uploads!StoreBlob, Uploads!StoreBlobFails, Uploads!Drop
<1>7. CASE Uploads!Tick \/ UNCHANGED uploadVars
  BY <1>7, Zenon DEF Uploads!Tick, uploadVars
<1> QED
  BY <1>1, <1>2, <1>3, <1>4, <1>5, <1>6, <1>7, Zenon DEF Uploads!Next

\* start_upload opens one, and only below the cap.
LEMMA StartCapped ==
  ASSUME IsFiniteSet(Uuids), max_sessions \in Nat, SessionInv, Uploads!StartUpload PROVE SessionInv'
<1> DEFINE swept == [u \in Uuids |-> IF Uploads!Open(u) /\ Uploads!is_idle_for(u)
                                     THEN NoSession ELSE uploads[u]]
           left == {v \in Uuids : swept[v] # NoSession}
<1>1. PICK u \in Uuids :
        \/ uploads' = swept
        \/ /\ ~(Cardinality(left) >= max_sessions)
           /\ uploads' = [swept EXCEPT ![u] = [buffer |-> <<>>, idle |-> 0]]
  BY SameCardinality, Zenon DEF Uploads!StartUpload
<1>2. left \subseteq OpenSessions
  BY DEF OpenSessions, Uploads!Open
<1>3. /\ IsFiniteSet(OpenSessions) /\ IsFiniteSet(left)
      /\ Cardinality(left) \in Nat /\ Cardinality(OpenSessions) \in Nat
      /\ Cardinality(left) <= Cardinality(OpenSessions)
  BY <1>2, FS_Subset, FS_CardinalityType, Zenon DEF OpenSessions
<1>4. CASE uploads' = swept
  <2>1. OpenSessions' = left
    BY <1>4, Zenon DEF OpenSessions, Uploads!Open
  <2> QED
    BY <1>3, <1>4, <2>1 DEF SessionInv
<1>5. CASE /\ ~(Cardinality(left) >= max_sessions)
           /\ uploads' = [swept EXCEPT ![u] = [buffer |-> <<>>, idle |-> 0]]
  <2>1. OpenSessions' \subseteq left \cup {u} /\ DOMAIN uploads' = Uuids
    BY <1>5, Zenon DEF OpenSessions, Uploads!Open
  <2> HIDE DEF left, swept
  <2>2. IsFiniteSet(left \cup {u}) /\ Cardinality(left \cup {u}) <= Cardinality(left) + 1
    <3>1. /\ IsFiniteSet(left \cup {u})
          /\ Cardinality(left \cup {u}) = IF u \in left THEN Cardinality(left)
                                                       ELSE Cardinality(left) + 1
      BY <1>3, FS_AddElement, Zenon
    <3> QED
      BY <1>3, <3>1
  <2>3. Cardinality(left \cup {u}) \in Nat /\ Cardinality(OpenSessions') \in Nat
        /\ Cardinality(OpenSessions') <= Cardinality(left \cup {u})
    BY <2>1, <2>2, FS_Subset, FS_CardinalityType, Zenon
  <2> QED
    BY <1>3, <1>5, <2>1, <2>2, <2>3 DEF SessionInv
<1> QED
  BY <1>1, <1>4, <1>5

\* No session is open at first.
LEMMA SessionInit == ASSUME max_sessions \in Nat PROVE Uploads!Init => SessionInv
<1>1. Uploads!Init => DOMAIN uploads = Uuids /\ OpenSessions = {}
  BY DEF Uploads!Init, OpenSessions, Uploads!Open
<1> QED
  BY <1>1, FS_EmptySet DEF SessionInv

\* SessionInv through every step.
LEMMA SessionStep ==
  ASSUME IsFiniteSet(Uuids), max_sessions \in Nat, SessionInv, [Uploads!Next]_uploadVars
  PROVE  SessionInv'
<1> SUFFICES ASSUME ~Uploads!StartUpload PROVE SessionInv'
  BY StartCapped
<1>1. DOMAIN uploads' = Uuids /\ OpenSessions' \subseteq OpenSessions
  BY OthersOpenNone DEF SessionInv
<1>2. IsFiniteSet(OpenSessions)
  BY FS_Subset DEF OpenSessions
<1>3. /\ Cardinality(OpenSessions) \in Nat /\ Cardinality(OpenSessions') \in Nat
      /\ Cardinality(OpenSessions') <= Cardinality(OpenSessions)
  BY <1>1, <1>2, FS_Subset, FS_CardinalityType
<1> QED
  BY <1>1, <1>3 DEF SessionInv

\* There are never more open sessions than max_sessions (start_upload), and none
\* buffers more than max_upload_session_bytes, although that cap is compared with
\* an offset that was read under an earlier guard (would_exceed_cap,
\* append_upload).
THEOREM CapsHold ==
  ASSUME Configured, IsFiniteSet(Uuids), max_sessions \in Nat
  PROVE  ServersSpec => []UploadsBounded
<1>1. UploadInv /\ SessionInv => UploadsBounded
  <2>1. UploadInv => Uploads!ByteCap
    BY DEF UploadInv, Buffers, Uploads!ByteCap, Uploads!Open, Uploads!offset
  <2>2. SessionInv => Uploads!SessionCap
    BY SameCardinality DEF SessionInv, Uploads!SessionCap, OpenSessions
  <2> QED
    BY <2>1, <2>2, Zenon DEF UploadsBounded
<1>2. ServersInit => UploadInv /\ SessionInv
  BY UploadInit, SessionInit DEF ServersInit
<1>3. UploadInv /\ SessionInv /\ [ServersNext]_serversVars => UploadInv' /\ SessionInv'
  BY UploadStep, SessionStep, UploadsMove, Zenon
<1> QED
  BY <1>1, <1>2, <1>3, PTL DEF ServersSpec

----------------------------------------------------------------------------
(* The life of a server *)

RunSteps == {"idle", "handle", "publish"} \cup Server!Scraping

\* The books of the middleware, kept for requests that run and for those whose
\* handler was dropped.
BooksInv ==
  /\ run \in [Handlers -> RunSteps]
  /\ in_flight \in Nat /\ requests_total \in Nat /\ accepted \in Nat /\ dropped \in Nat
  /\ IsFiniteSet(Server!Running)
  /\ in_flight = Cardinality(Server!Running) + dropped
  /\ accepted = requests_total + in_flight
  /\ phase \notin {"listening", "draining"} => Server!Running = {}
  /\ origin \notin {"wildcard", "ephemeral"}

\* A server that boots.
LEMMA BooksInit == Server!Init => BooksInv
<1> SUFFICES ASSUME Server!Init PROVE BooksInv
  OBVIOUS
<1>1. Server!Running = {}
  BY DEF Server!Init, Server!Running
<1> QED
  BY <1>1, FS_EmptySet DEF Server!Init, BooksInv, RunSteps

\* A request that starts.
LEMMA RunningMore ==
  ASSUME BooksInv, NEW r \in Handlers, run[r] = "idle", NEW next \in RunSteps \ {"idle"},
         run' = [run EXCEPT ![r] = next]
  PROVE  /\ IsFiniteSet(Server!Running')
         /\ Cardinality(Server!Running') = Cardinality(Server!Running) + 1
<1>1. Server!Running' = Server!Running \cup {r} /\ r \notin Server!Running
  BY DEF Server!Running, BooksInv
<1> QED
  BY <1>1, FS_AddElement, Zenon DEF BooksInv

\* A request that ends.
LEMMA RunningLess ==
  ASSUME BooksInv, NEW r \in Handlers, run[r] # "idle", run' = [run EXCEPT ![r] = "idle"]
  PROVE  /\ IsFiniteSet(Server!Running') /\ Cardinality(Server!Running) \in Nat
         /\ Cardinality(Server!Running') = Cardinality(Server!Running) - 1
         /\ Cardinality(Server!Running) > 0
<1>1. Server!Running' = Server!Running \ {r} /\ r \in Server!Running
  BY DEF Server!Running, BooksInv
<1>2. /\ IsFiniteSet(Server!Running') /\ Cardinality(Server!Running) \in Nat
      /\ Cardinality(Server!Running') = Cardinality(Server!Running) - 1
  BY <1>1, FS_RemoveElement, FS_CardinalityType, Zenon DEF BooksInv
<1>3. Cardinality(Server!Running) # 0
  BY <1>1, FS_EmptySet, Zenon DEF BooksInv
<1> QED
  BY <1>2, <1>3

\* A request that goes on.
LEMMA RunningSame ==
  ASSUME BooksInv, NEW r \in Handlers, run[r] # "idle", NEW next \in RunSteps \ {"idle"},
         run' = [run EXCEPT ![r] = next],
         UNCHANGED <<phase, origin, in_flight, requests_total, accepted, dropped>>
  PROVE  BooksInv'
<1>1. Server!Running' = Server!Running
  BY DEF Server!Running, BooksInv
<1> QED
  BY <1>1, Zenon DEF BooksInv

\* BooksInv through every step.
LEMMA BooksStep == ASSUME BooksInv, [Server!Next]_serverVars PROVE BooksInv'
<1>1. CASE UNCHANGED serverVars \/ Server!Exited
  BY <1>1 DEF serverVars, Server!Exited, Server!vars, BooksInv, Server!Running
<1>2. CASE Server!serve_oci \/ Server!serve_cargo
  <2>1. UNCHANGED <<run, in_flight, requests_total, accepted, dropped>> /\ phase = "boot"
    BY <1>2, Zenon DEF Server!serve_oci, Server!serve_cargo, Server!Boot
  <2>2. origin' \notin {"wildcard", "ephemeral"}
    BY <1>2 DEF Server!serve_oci, Server!serve_cargo, Server!Boot, BooksInv,
       Server!resolve_api_host_checked, Server!from_vars
  <2>3. Server!Running' = {}
    BY <2>1, Zenon DEF BooksInv, Server!Running
  <2> QED
    BY <2>1, <2>2, <2>3, Zenon DEF BooksInv
<1>3. ASSUME NEW r \in Handlers, Server!track_metrics(r) PROVE BooksInv'
  <2>1. PICK next \in {"handle", "publish", "sample"} : run' = [run EXCEPT ![r] = next]
    BY <1>3, Zenon DEF Server!track_metrics
  <2>2. /\ run[r] = "idle" /\ phase = "listening" /\ in_flight' = in_flight + 1
        /\ accepted' = accepted + 1 /\ UNCHANGED <<phase, origin, requests_total, dropped>>
    BY <1>3 DEF Server!track_metrics
  <2>3. next \in RunSteps \ {"idle"}
    BY DEF RunSteps, Server!Scraping
  <2>4. /\ IsFiniteSet(Server!Running')
        /\ Cardinality(Server!Running') = Cardinality(Server!Running) + 1
    BY <2>1, <2>2, <2>3, RunningMore, Zenon
  <2>5. Cardinality(Server!Running) \in Nat
    BY FS_CardinalityType, Zenon DEF BooksInv
  <2> QED
    BY <2>1, <2>2, <2>3, <2>4, <2>5 DEF BooksInv
<1>4. ASSUME NEW r \in Handlers, Server!Respond(r) \/ Server!Encode(r) PROVE BooksInv'
  <2>1. /\ run[r] # "idle" /\ run' = [run EXCEPT ![r] = "idle"]
        /\ in_flight' = in_flight - 1 /\ requests_total' = requests_total + 1
        /\ UNCHANGED <<phase, origin, accepted, dropped>>
    BY <1>4 DEF Server!Respond, Server!Encode, Server!Responds
  <2>2. /\ IsFiniteSet(Server!Running') /\ Cardinality(Server!Running) \in Nat
        /\ Cardinality(Server!Running') = Cardinality(Server!Running) - 1
        /\ Cardinality(Server!Running) > 0
    BY <2>1, RunningLess, Zenon
  <2>3. Server!Running # {}
    BY <2>1, Zenon DEF Server!Running
  <2> QED
    BY <2>1, <2>2, <2>3 DEF BooksInv, RunSteps
<1>5. ASSUME NEW r \in Handlers, Server!Hangup(r) PROVE BooksInv'
  <2>1. /\ run[r] # "idle" /\ run' = [run EXCEPT ![r] = "idle"] /\ dropped' = dropped + 1
        /\ UNCHANGED <<phase, origin, in_flight, requests_total, accepted>>
    BY <1>5 DEF Server!Hangup
  <2>2. /\ IsFiniteSet(Server!Running') /\ Cardinality(Server!Running) \in Nat
        /\ Cardinality(Server!Running') = Cardinality(Server!Running) - 1
        /\ Cardinality(Server!Running) > 0
    BY <2>1, RunningLess, Zenon
  <2>3. Server!Running # {}
    BY <2>1 DEF Server!Running
  <2> QED
    BY <2>1, <2>2, <2>3 DEF BooksInv, RunSteps
<1>6. ASSUME NEW r \in Handlers,
             Server!Publish(r) \/ Server!Sample(r) \/ Server!SetCrates(r) \/ Server!SetVersions(r)
      PROVE  BooksInv'
  <2>1. PICK next \in {"handle", "set_crates", "set_versions", "encode"} :
          /\ run[r] # "idle" /\ run' = [run EXCEPT ![r] = next]
          /\ UNCHANGED <<phase, origin, in_flight, requests_total, accepted, dropped>>
    BY <1>6 DEF Server!Publish, Server!Sample, Server!SetCrates, Server!SetVersions, Server!Mid
  <2>2. next \in RunSteps \ {"idle"}
    BY DEF RunSteps, Server!Scraping
  <2> QED
    BY <2>1, <2>2, RunningSame, Zenon
<1>7. CASE Server!shutdown_signal \/ Server!Stopped
  <2>1. /\ UNCHANGED <<run, origin, in_flight, requests_total, accepted, dropped>>
        /\ phase' = "draining" \/ \A r \in Handlers : run[r] = "idle"
    BY <1>7, Zenon DEF Server!shutdown_signal, Server!Stopped
  <2> QED
    BY <2>1 DEF BooksInv, Server!Running
<1> QED
  BY <1>1, <1>2, <1>3, <1>4, <1>5, <1>6, <1>7, Zenon DEF Server!Next, Server!Proceed

\* A scrape that is still alone: what it sampled, and the gauges it has set.
Alone(r) ==
  /\ \A o \in Handlers : run[o] \in Server!Scraping <=> o = r
  /\ index \in seen[r]
  /\ run[r] # "sample" => sampled[r] \in seen[r]
  /\ run[r] \in {"set_versions", "encode"} => gauges.crates = sampled[r].crates
  /\ run[r] = "encode" => gauges.versions = sampled[r].versions

ScrapeInv ==
  /\ index \in Counts /\ gauges \in Counts
  /\ sampled \in [Handlers -> Counts]
  /\ DOMAIN seen = Handlers
  /\ \A r \in Handlers : seen[r] # {} => Alone(r)
  /\ Server!ScrapeExact

\* Nothing was scraped yet.
LEMMA ScrapeInit == Server!Init => ScrapeInv
BY DEF Server!Init, Server!None, ScrapeInv, Counts, Server!ScrapeExact

\* A step that reports nothing.
LEMMA NothingReported ==
  ASSUME index' \in Counts, gauges' \in Counts, sampled' \in [Handlers -> Counts],
         DOMAIN seen' = Handlers, reported' \subseteq reported, Server!ScrapeExact,
         \A r \in Handlers : seen'[r] # {} => Alone(r)'
  PROVE  ScrapeInv'
<1>1. Server!ScrapeExact'
  BY Zenon DEF Server!ScrapeExact
<1> QED
  BY <1>1, Zenon DEF ScrapeInv

\* A request that is no scrape begins or goes on, or one that is over is
\* forgotten, while another scrape is alone.
LEMMA OthersStep ==
  ASSUME BooksInv, NEW r \in Handlers, NEW o \in Handlers, o # r, Alone(o),
         \A p \in Handlers : p # r => run'[p] = run[p],
         run'[r] \notin Server!Scraping,
         seen'[o] = seen[o], sampled'[o] = sampled[o], UNCHANGED <<index, gauges>>
  PROVE  Alone(o)'
BY Zenon DEF Alone

\* Handlers come and go.
LEMMA ScrapeQuiet ==
  ASSUME BooksInv, ScrapeInv,
         \/ UNCHANGED serverVars \/ Server!Exited \/ Server!serve_oci \/ Server!serve_cargo
         \/ Server!shutdown_signal \/ Server!Stopped
  PROVE  ScrapeInv'
<1>1. UNCHANGED <<run, index, gauges, sampled, seen>> /\ reported' \subseteq reported
  BY DEF serverVars, Server!Exited, Server!vars, Server!serve_oci, Server!serve_cargo, Server!Boot,
     Server!shutdown_signal, Server!Stopped
<1>2. \A r \in Handlers : seen'[r] # {} => Alone(r)'
  BY <1>1, Zenon DEF ScrapeInv, Alone
<1> QED
  BY <1>1, <1>2, NothingReported, Zenon DEF ScrapeInv

\* A request begins (track_metrics); a scrape that is not alone is forgotten.
LEMMA ScrapeBegins ==
  ASSUME BooksInv, ScrapeInv, NEW r \in Handlers, Server!track_metrics(r) PROVE ScrapeInv'
<1> DEFINE busy == {o \in Handlers : run[o] \in Server!Scraping}
<1>1. PICK next \in {"handle", "publish", "sample"} :
        /\ run' = [run EXCEPT ![r] = next]
        /\ seen' = IF next # "sample" THEN seen
                   ELSE [o \in Handlers |-> IF o \in busy THEN {}
                                            ELSE IF o = r /\ busy = {} THEN {index} ELSE seen[o]]
  BY Zenon DEF Server!track_metrics
<1>2. run[r] = "idle" /\ UNCHANGED <<index, gauges, sampled>> /\ reported' = {}
  BY DEF Server!track_metrics
<1>3. /\ run'[r] = next /\ \A o \in Handlers : o # r => run'[o] = run[o]
      /\ DOMAIN seen' = Handlers
  BY <1>1 DEF BooksInv, ScrapeInv
<1>4. \A o \in Handlers : seen[o] # {} => o \in busy
  BY Zenon DEF ScrapeInv, Alone
<1>5. r \notin busy
  BY <1>2 DEF Server!Scraping
<1>6. ASSUME NEW o \in Handlers, seen'[o] # {} PROVE Alone(o)'
  <2>1. CASE next # "sample"
    <3>1. seen' = seen /\ run'[r] \notin Server!Scraping
      BY <1>1, <1>3, <2>1, Zenon DEF Server!Scraping
    <3>2. o # r /\ Alone(o)
      BY <1>4, <1>5, <1>6, <3>1, Zenon DEF ScrapeInv
    <3> QED
      BY <1>2, <1>3, <3>1, <3>2, OthersStep, Zenon
  <2>2. CASE next = "sample"
    <3>1. o = r /\ busy = {} /\ seen'[o] = {index}
      BY <1>1, <1>4, <1>6, <2>2, Zenon
    <3>2. \A p \in Handlers : run'[p] \in Server!Scraping <=> p = r
      BY <1>3, <2>2, <3>1, Zenon DEF Server!Scraping
    <3> QED
      BY <1>2, <1>3, <2>2, <3>1, <3>2, Zenon DEF Alone
  <2> QED
    BY <2>1, <2>2, Zenon
<1> QED
  BY <1>2, <1>3, <1>6, NothingReported, Zenon DEF ScrapeInv

\* A request ends, answered or dropped; what a scrape then reports.
LEMMA ScrapeEnds ==
  ASSUME BooksInv, ScrapeInv, NEW r \in Handlers,
         Server!Respond(r) \/ Server!Encode(r) \/ Server!Hangup(r)
  PROVE  ScrapeInv'
<1>1. /\ run' = [run EXCEPT ![r] = "idle"] /\ seen' = [seen EXCEPT ![r] = {}]
      /\ sampled' \in {sampled, [sampled EXCEPT ![r] = Server!None]}
      /\ UNCHANGED <<index, gauges>>
  BY DEF Server!Respond, Server!Encode, Server!Responds, Server!Hangup
<1>2. Server!None \in Counts
  BY DEF Server!None, Counts
<1>3. /\ sampled' \in [Handlers -> Counts] /\ DOMAIN seen' = Handlers
      /\ \A o \in Handlers : o # r =>
           run'[o] = run[o] /\ seen'[o] = seen[o] /\ sampled'[o] = sampled[o]
      /\ run'[r] = "idle" /\ seen'[r] = {}
  BY <1>1, <1>2, Zenon DEF ScrapeInv, BooksInv
<1>4. \A o \in Handlers : seen'[o] # {} => Alone(o)'
  BY <1>1, <1>3, OthersStep, Zenon DEF ScrapeInv, Server!Scraping
<1>5. CASE Server!Encode(r)
  <2>1. /\ reported' = {[counts |-> gauges, in_flight |-> in_flight, seen |-> seen[r]]}
        /\ run[r] = "encode"
    BY <1>5, Zenon DEF Server!Encode
  <2>2. seen[r] # {} => gauges \in seen[r]
    <3>1. sampled[r] \in Counts /\ gauges \in Counts
      BY DEF ScrapeInv
    <3>2. seen[r] # {} => /\ sampled[r] \in seen[r] /\ gauges.crates = sampled[r].crates
                          /\ gauges.versions = sampled[r].versions
      BY <2>1, Zenon DEF ScrapeInv, Alone
    <3>3. seen[r] # {} => gauges = sampled[r]
      BY <3>1, <3>2, SameCounts, Zenon
    <3> QED
      BY <3>2, <3>3, Zenon
  <2>3. Server!ScrapeExact'
    BY <2>1, <2>2, EncodeExact, Zenon
  <2> QED
    BY <1>1, <1>3, <1>4, <2>3, Zenon DEF ScrapeInv
<1>6. CASE Server!Respond(r) \/ Server!Hangup(r)
  <2>1. reported' = {}
    BY <1>6 DEF Server!Respond, Server!Hangup
  <2> QED
    BY <1>1, <1>3, <1>4, <2>1, NothingReported, Zenon DEF ScrapeInv
<1> QED
  BY <1>5, <1>6, Zenon

\* A publish moves the index on, under every scrape that runs.
LEMMA ScrapePublish ==
  ASSUME BooksInv, ScrapeInv, NEW r \in Handlers, Server!Publish(r) PROVE ScrapeInv'
<1>1. /\ run[r] = "publish" /\ run' = [run EXCEPT ![r] = "handle"]
      /\ seen' = [o \in Handlers |-> IF seen[o] = {} THEN {} ELSE seen[o] \cup {index'}]
      /\ UNCHANGED <<gauges, sampled>> /\ reported' = {}
  BY Zenon DEF Server!Publish
<1>2. index' \in Counts
  BY PublishCounts, Zenon DEF ScrapeInv
<1>3. ASSUME NEW o \in Handlers, seen'[o] # {} PROVE Alone(o)'
  <2>1. seen[o] # {} /\ seen'[o] = seen[o] \cup {index'} /\ Alone(o)
    BY <1>1, <1>3, Zenon DEF ScrapeInv
  <2>2. \A p \in Handlers : (run'[p] \in Server!Scraping <=> run[p] \in Server!Scraping)
                            /\ (p # r => run'[p] = run[p])
    BY <1>1, Zenon DEF BooksInv, Server!Scraping
  <2>3. o # r
    BY <1>1, <2>1, Zenon DEF Alone, Server!Scraping
  <2> QED
    BY <1>1, <2>1, <2>2, <2>3, Zenon DEF Alone
<1> QED
  BY <1>1, <1>2, <1>3, NothingReported, Zenon DEF ScrapeInv

\* The handler of a scrape goes on: it samples, and sets one gauge, then the
\* other (refresh_storage).
LEMMA ScrapeGoesOn ==
  ASSUME BooksInv, ScrapeInv, NEW r \in Handlers,
         Server!Sample(r) \/ Server!SetCrates(r) \/ Server!SetVersions(r)
  PROVE  ScrapeInv'
<1>1. /\ UNCHANGED <<index, seen>> /\ reported' = {}
      /\ run[r] \in Server!Scraping
  BY Zenon DEF Server!Sample, Server!SetCrates, Server!SetVersions, Server!Mid, Server!Scraping
<1>2. /\ \A o \in Handlers : o # r => seen[o] = {}
      /\ gauges \in Counts /\ sampled[r] \in Counts
  BY <1>1 DEF ScrapeInv, Alone
<1>3. CASE Server!Sample(r)
  <2>1. /\ run' = [run EXCEPT ![r] = "set_crates"] /\ sampled' = [sampled EXCEPT ![r] = index]
        /\ UNCHANGED gauges
    BY <1>3 DEF Server!Sample, Server!Mid
  <2>2. seen[r] # {} => Alone(r)'
    BY <1>1, <2>1, Zenon DEF ScrapeInv, Alone, BooksInv, Server!Scraping
  <2> QED
    BY <1>1, <1>2, <2>1, <2>2, NothingReported, Zenon DEF ScrapeInv
<1>4. CASE Server!SetCrates(r)
  <2>1. /\ run' = [run EXCEPT ![r] = "set_versions"] /\ run[r] = "set_crates"
        /\ gauges' = [gauges EXCEPT !.crates = sampled[r].crates] /\ UNCHANGED sampled
    BY <1>4 DEF Server!SetCrates, Server!Mid
  <2>2. gauges' \in Counts /\ gauges'.crates = sampled[r].crates
    BY <1>2, <2>1, CratesSet, Zenon
  <2>3. seen[r] # {} => Alone(r)'
    BY <1>1, <2>1, <2>2, Zenon DEF ScrapeInv, Alone, BooksInv, Server!Scraping
  <2> QED
    BY <1>1, <1>2, <2>1, <2>2, <2>3, NothingReported, Zenon DEF ScrapeInv
<1>5. CASE Server!SetVersions(r)
  <2>1. /\ run' = [run EXCEPT ![r] = "encode"] /\ run[r] = "set_versions"
        /\ gauges' = [gauges EXCEPT !.versions = sampled[r].versions] /\ UNCHANGED sampled
    BY <1>5 DEF Server!SetVersions, Server!Mid
  <2>2. /\ gauges' \in Counts /\ gauges'.crates = gauges.crates
        /\ gauges'.versions = sampled[r].versions
    BY <1>2, <2>1, VersionsSet, Zenon
  <2>3. seen[r] # {} => Alone(r)'
    BY <1>1, <2>1, <2>2, Zenon DEF ScrapeInv, Alone, BooksInv, Server!Scraping
  <2> QED
    BY <1>1, <1>2, <2>1, <2>2, <2>3, NothingReported, Zenon DEF ScrapeInv
<1> QED
  BY <1>3, <1>4, <1>5, Zenon

\* ScrapeInv through every step.
LEMMA ScrapeStep == ASSUME BooksInv, ScrapeInv, [Server!Next]_serverVars PROVE ScrapeInv'
BY ScrapeQuiet, ScrapeBegins, ScrapeEnds, ScrapePublish, ScrapeGoesOn, Zenon
   DEF Server!Next, Server!Proceed

\* The books of the middleware balance, a scrape that no other overlaps reports
\* counts that were true together, and an advertised origin can be used
\* (track_metrics, refresh_storage, serve), for any number of requests.
THEOREM ServerIsSound == ServersSpec => []ServerSound
<1>1. BooksInv /\ ScrapeInv => ServerSound
  BY SameCardinality DEF BooksInv, ScrapeInv, ServerSound, Server!RequestsAccounted,
     Server!OriginReachable
<1>2. ServersInit => BooksInv /\ ScrapeInv
  BY BooksInit, ScrapeInit DEF ServersInit
<1>3. BooksInv /\ ScrapeInv /\ [ServersNext]_serversVars => BooksInv' /\ ScrapeInv'
  <2>1. [ServersNext]_serversVars => [Server!Next]_serverVars
    BY DEF ServersNext, serversVars, OnlyBlobs, OnlyUploads
  <2> QED
    BY <2>1, BooksStep, ScrapeStep, Zenon
<1> QED
  BY <1>1, <1>2, <1>3, PTL DEF ServersSpec

=============================================================================
