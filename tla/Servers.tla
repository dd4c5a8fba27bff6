------------------------------ MODULE Servers ------------------------------
(***************************************************************************)
(* What a registry server keeps in memory over a long run, besides its     *)
(* index: the blob accounting of the OCI registry (OciBlobs), its upload   *)
(* sessions (OciUpload), and the books and the life of either server       *)
(* process (HttpServer).  No two of them share state, so a behaviour is    *)
(* one of the parts.                                                       *)
(***************************************************************************)
CONSTANTS
  Parts,
  Handlers,  \* handler tasks that can be in flight together
  BlobDigests, MaxFaults, NoHolder,
  Uuids, Unplaced, max_sessions, idle_ttl, max_upload_session_bytes, U64_MAX, MaxChunk,
  NoSession,
  MaxRequests, MaxVersions

ASSUME HandlersAssumption == NoHolder \notin Handlers

VARIABLES
  part,
  \* see OciBlobs
  held, blob_count, accounting, step, args, pending, faults, disturbed,
  \* see OciUpload
  uploads, drawn, call, asked,
  \* see HttpServer
  env, phase, origin, run, in_flight, requests_total, index, gauges, sampled, reported,
  accepted, dropped, seen

Accounts ==
  INSTANCE OciBlobs WITH Requests <- Handlers, Digests <- BlobDigests, blobs <- held,
    pc <- step, req <- args, detached <- pending

\* The two bytes of a ranged upload, one byte finished by a loose one, and
\* the first byte lost.
Declared == {<<0, 1>>, <<0, Unplaced>>, <<1>>}

Uploads ==
  INSTANCE OciUpload WITH Requests <- Handlers, Digests <- Declared, pc <- call, req <- asked

Server == INSTANCE HttpServer WITH Requests <- Handlers

blobVars == <<held, blob_count, accounting, step, args, pending, faults, disturbed>>
uploadVars == <<uploads, drawn, call, asked>>
serverVars ==
  <<env, phase, origin, run, in_flight, requests_total, index, gauges, sampled, reported,
    accepted, dropped, seen>>
serversVars == <<part, blobVars, uploadVars, serverVars>>

\* The environment matters to the server only.
ServersInit ==
  /\ part \in Parts /\ Accounts!Init /\ Uploads!Init /\ Server!Init
  /\ part # "server" => env = [server |-> "oci", listen |-> "unset", api |-> "unset"]

OnlyBlobs == part = "blobs" /\ UNCHANGED <<part, uploadVars, serverVars>>
OnlyUploads == part = "uploads" /\ UNCHANGED <<part, blobVars, serverVars>>
OnlyServer == part = "server" /\ UNCHANGED <<part, blobVars, uploadVars>>

ServersNext ==
  \/ OnlyBlobs /\ Accounts!Next
  \/ OnlyUploads /\ Uploads!Next
  \/ OnlyServer /\ Server!Next

ServersSpec == ServersInit /\ [][ServersNext]_serversVars

----------------------------------------------------------------------------
(* Properties *)

\* The gauge of distinct blobs is exact (store_blob_counted).
BlobGaugeExact == Accounts!GaugeExact

\* Neither the number of sessions nor what a session buffers exceeds its cap
\* (start_upload, would_exceed_cap, append_upload).
UploadsBounded == Uploads!SessionCap /\ Uploads!ByteCap

\* A byte sent with a Content-Range ends up where the header put it
\* (patch_upload, append_upload).
UploadInPlace == Uploads!InPlace

\* The books of the middleware balance, a scrape reports counts that were true
\* together, and an advertised origin can be used (metrics.rs, serve.rs).
ServerSound == Server!RequestsAccounted /\ Server!ScrapeExact /\ Server!OriginReachable

=============================================================================
