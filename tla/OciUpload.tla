----------------------------- MODULE OciUpload -----------------------------
(***************************************************************************)
(* Blob uploads of the OCI registry (crate ferro-oci-server): the upload   *)
(* sessions behind the RwLock of InMemoryRegistryMeta and the handlers     *)
(* that use them.                                                          *)
(*                                                                         *)
(* A handler holds the registry's lock for one call at a time, so each     *)
(* call is a step and the handlers of other threads run in between.  A     *)
(* handler whose only stateful work is one such call is one action.        *)
(*                                                                         *)
(* A byte of a chunk sent with a Content-Range is the position that the    *)
(* header declares for it; the other bytes are `Unplaced`.  A digest       *)
(* stands for the bytes it names.  A uuid stands for a repository name     *)
(* with an upload uuid: another name with the same uuid is unknown.        *)
(***************************************************************************)
EXTENDS Naturals, Sequences, FiniteSets

CONSTANTS
  Requests,                  \* handlers that can be in flight together
  Uuids,                     \* bound: the uuids that are ever drawn
  Digests,                   \* what clients declare: sequences of bytes
  Unplaced,
  max_sessions,
  idle_ttl,
  max_upload_session_bytes,
  U64_MAX,
  MaxChunk,                  \* bound on the length of a request body
  NoSession

VARIABLES
  uploads,  \* uuid -> UploadState or NoSession
  drawn,    \* the uuids handed out so far; Uuid::new_v4 repeats none
  pc,       \* the call each handler makes next
  req       \* the arguments and locals of each handler

vars == <<uploads, drawn, pc, req>>

NoRequest == [op |-> "none"]
Finish(u, d) == [op |-> "finish", uuid |-> u, digest |-> d]

offset(u) == Len(uploads[u].buffer)
is_idle_for(u) == uploads[u].idle >= idle_ttl
Open(u) == uploads[u] # NoSession

Init ==
  /\ uploads = [u \in Uuids |-> NoSession]
  /\ drawn = {}
  /\ pc = [r \in Requests |-> "idle"]
  /\ req = [r \in Requests |-> NoRequest]

Goto(r, step) == pc' = [pc EXCEPT ![r] = step]

Return(r) ==
  /\ pc' = [pc EXCEPT ![r] = "idle"]
  /\ req' = [req EXCEPT ![r] = NoRequest]

remove(u) == uploads' = [uploads EXCEPT ![u] = NoSession]

----------------------------------------------------------------------------
(* upload.rs *)

\* The length of a parsed range: none when it is reversed (parse) or when
\* end - start + 1 does not fit (checked_length).
checked_length(range) ==
  {n \in 1..U64_MAX : range.start <= range.end /\ n = range.end - range.start + 1}

\* Only the chunk is compared with the cap.
Mut_would_exceed_cap(cap, current, incoming) == incoming > cap

would_exceed_cap(cap, current, incoming) ==
  (IF current + incoming > U64_MAX THEN U64_MAX ELSE current + incoming) > cap

----------------------------------------------------------------------------
(* init_upload: start_upload *)

\* Idle sessions are swept, then the cap decides between 202 and 429.
StartUpload ==
  LET swept == [u \in Uuids |-> IF Open(u) /\ is_idle_for(u)
                                THEN NoSession ELSE uploads[u]]
  IN \E u \in Uuids \ drawn :
       /\ IF Cardinality({v \in Uuids : swept[v] # NoSession}) >= max_sessions
          THEN uploads' = swept /\ UNCHANGED drawn
          ELSE /\ uploads' = [swept EXCEPT ![u] = [buffer |-> <<>>, idle |-> 0]]
               /\ drawn' = drawn \cup {u}
       /\ UNCHANGED <<pc, req>>

\* get_upload_state answers None: the session is unknown, or idle and evicted.
SessionUnknown(u) ==
  /\ Open(u) => is_idle_for(u)
  /\ remove(u)

SessionFound(u) == Open(u) /\ ~is_idle_for(u)

\* get_upload_status
UploadStatus(u) ==
  /\ SessionUnknown(u)
  /\ UNCHANGED <<drawn, pc, req>>

\* cancel_upload, for DELETE
CancelUpload(u) ==
  /\ remove(u)
  /\ UNCHANGED <<drawn, pc, req>>

----------------------------------------------------------------------------
(* patch_upload *)

Placed(start, n) == [i \in 1..n |-> start + i - 1]
Loose(n) == [i \in 1..n |-> Unplaced]

\* The request goes on to append a chunk at `start` or, if that would exceed
\* the cap, to cancel the session.
Chunk(r, op, u, start, chunk, digest) ==
  /\ req' = [req EXCEPT ![r] = [op |-> op, uuid |-> u, offset |-> start,
                                chunk |-> chunk, digest |-> digest]]
  /\ Goto(r, IF would_exceed_cap(max_upload_session_bytes, offset(u), Len(chunk))
             THEN "cancel" ELSE "append")

\* get_upload_state and the checks on the header.  A request that fails one
\* of them is answered without a trace.
PatchUpload(r, u) ==
  /\ pc[r] = "idle"
  /\ \/ SessionUnknown(u) /\ UNCHANGED <<pc, req>>
     \/ /\ SessionFound(u)
        /\ UNCHANGED uploads
        /\ \/ \E n \in 0..MaxChunk : Chunk(r, "patch", u, offset(u), Loose(n), <<>>)
           \/ \E start, end \in 0..U64_MAX, n \in 0..MaxChunk :
                LET length == checked_length([start |-> start, end |-> end])
                IN IF n \in length /\ start = offset(u)
                   THEN Chunk(r, "patch", u, start, Placed(start, n), <<>>)
                   ELSE UNCHANGED <<pc, req>>
  /\ UNCHANGED drawn

\* cancel_upload after the cap was found exceeded; 413
OverCap(r) ==
  /\ pc[r] = "cancel"
  /\ remove(req[r].uuid)
  /\ Return(r)
  /\ UNCHANGED drawn

\* The offset is not compared again.
Mut_AppendUpload(r) ==
  LET u == req[r].uuid
  IN /\ pc[r] = "append"
     /\ IF Open(u)
        THEN /\ uploads' = [uploads EXCEPT ![u] = [buffer |-> @.buffer \o req[r].chunk,
                                                  idle |-> 0]]
             /\ IF req[r].op = "patch" THEN Return(r)
                ELSE Goto(r, "take") /\ UNCHANGED req
        ELSE UNCHANGED uploads /\ Return(r)
     /\ UNCHANGED drawn

\* append_upload: the session must be there and its offset still the one the
\* handler saw; a PATCH is done then, a PUT goes on.
AppendUpload(r) ==
  LET u == req[r].uuid
  IN /\ pc[r] = "append"
     /\ IF Open(u) /\ req[r].offset = offset(u)
        THEN /\ uploads' = [uploads EXCEPT ![u] = [buffer |-> @.buffer \o req[r].chunk,
                                                  idle |-> 0]]
             /\ IF req[r].op = "patch" THEN Return(r)
                ELSE Goto(r, "take") /\ UNCHANGED req
        ELSE UNCHANGED uploads /\ Return(r)
     /\ UNCHANGED drawn

----------------------------------------------------------------------------
(* finish_upload *)

FinishUpload(r, u, d) ==
  /\ pc[r] = "idle"
  /\ \/ SessionUnknown(u) /\ UNCHANGED <<pc, req>>
     \/ /\ SessionFound(u)
        /\ UNCHANGED uploads
        /\ \/ \E n \in 1..MaxChunk : Chunk(r, "finish", u, offset(u), Loose(n), d)
           \/ /\ req' = [req EXCEPT ![r] = Finish(u, d)]
              /\ Goto(r, "take")
  /\ UNCHANGED drawn

\* take_upload_bytes, then the bytes are compared with the declared digest.
\* The session stays open, its buffer empty and its clock as it was.
TakeUploadBytes(r) ==
  LET u == req[r].uuid
  IN /\ pc[r] = "take"
     /\ IF Open(u)
        THEN /\ uploads' = [uploads EXCEPT ![u].buffer = <<>>]
             /\ IF uploads[u].buffer = req[r].digest
                THEN req' = [req EXCEPT ![r] = Finish(u, req[r].digest)] /\ Goto(r, "store")
                ELSE Return(r)
        ELSE UNCHANGED uploads /\ Return(r)
     /\ UNCHANGED drawn

\* store_blob_counted, see OciBlobs
StoreBlob(r) ==
  /\ pc[r] = "store"
  /\ Goto(r, "complete")
  /\ UNCHANGED <<uploads, drawn, req>>

StoreBlobFails(r) ==
  /\ pc[r] = "store"
  /\ Return(r)
  /\ UNCHANGED <<uploads, drawn>>

\* complete_upload; 201
CompleteUpload(r) ==
  /\ pc[r] = "complete"
  /\ remove(req[r].uuid)
  /\ Return(r)
  /\ UNCHANGED drawn

----------------------------------------------------------------------------
(* Time, and the client that hangs up *)

\* Time passes for every session at once; is_idle_for only asks for the TTL.
Tick ==
  /\ uploads' = [u \in Uuids |->
       IF Open(u) /\ ~is_idle_for(u) THEN [uploads[u] EXCEPT !.idle = @ + 1]
                                     ELSE uploads[u]]
  /\ UNCHANGED <<drawn, pc, req>>

\* hyper drops the handler where it awaits the blob store: the session stays
\* open, without the bytes that were taken.
Drop(r) ==
  /\ pc[r] = "store"
  /\ Return(r)
  /\ UNCHANGED <<uploads, drawn>>

----------------------------------------------------------------------------
Next ==
  \/ StartUpload
  \/ \E u \in Uuids : UploadStatus(u) \/ CancelUpload(u)
  \/ \E r \in Requests :
       \/ \E u \in Uuids : \/ PatchUpload(r, u)
                           \/ \E d \in Digests : FinishUpload(r, u, d)
       \/ OverCap(r) \/ AppendUpload(r) \/ TakeUploadBytes(r)
       \/ StoreBlob(r) \/ StoreBlobFails(r) \/ CompleteUpload(r) \/ Drop(r)
  \/ Tick

Spec == Init /\ [][Next]_vars

----------------------------------------------------------------------------
(* Properties *)

\* "the registry enforces a concurrent upload-session cap" (R2-7).
SessionCap == Cardinality({u \in Uuids : Open(u)}) <= max_sessions

\* No session ever buffers more than max_upload_session_bytes, although the
\* handlers compare the cap with an offset they read earlier, under a guard
\* they have since dropped (would_exceed_cap, append_upload).
ByteCap == \A u \in Uuids : Open(u) => offset(u) <= max_upload_session_bytes

Placement(bytes) == \A i \in 1..Len(bytes) : bytes[i] \in {i - 1, Unplaced}

\* A byte sent with a Content-Range is buffered, and handed to the blob store,
\* at the position the header declared for it or not at all, however chunks
\* are repeated, reordered and raced: a client that resumes where the status
\* says loses nothing ("contiguous chunks only", blob_upload.rs:164).
InPlace ==
  /\ \A u \in Uuids : Open(u) => Placement(uploads[u].buffer)
  /\ \A r \in Requests : pc[r] = "store" => Placement(req[r].digest)

=============================================================================
