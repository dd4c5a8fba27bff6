----------------------------- MODULE OciBlobs ------------------------------
(***************************************************************************)
(* How the OCI registry (crate ferro-oci-server) counts the distinct blobs *)
(* it holds: store_blob_counted, used by monolithic and by chunked         *)
(* uploads, delete_blob and the gauge.  The calls of the blob store are    *)
(* awaits; the blob_accounting mutex is held over those of a store, not    *)
(* over those of a delete.                                                 *)
(***************************************************************************)
EXTENDS Naturals, FiniteSets

CONSTANTS
  Requests,
  Digests,
  MaxFaults, \* bound on dropped handlers and failing calls of `contains`
  NoHolder

VARIABLES
  blobs,       \* the digests in the blob store
  blob_count,  \* AppState.blob_count
  accounting,  \* the holder of the blob_accounting mutex
  pc,
  req,         \* the digest of each handler, and what `contains` told it
  detached,    \* puts and deletes of dropped handlers, still to be executed
  faults,
  disturbed    \* history: a DELETE got past its check, a `contains` failed,
               \* or a handler was dropped

vars == <<blobs, blob_count, accounting, pc, req, detached, faults, disturbed>>

NoRequest == [digest |-> NoHolder]

Init ==
  /\ blobs = {}
  /\ blob_count = 0
  /\ accounting = NoHolder
  /\ pc = [r \in Requests |-> "idle"]
  /\ req = [r \in Requests |-> NoRequest]
  /\ detached = {}
  /\ faults = 0
  /\ disturbed = FALSE

Goto(r, step) == pc' = [pc EXCEPT ![r] = step]

Return(r) ==
  /\ pc' = [pc EXCEPT ![r] = "idle"]
  /\ req' = [req EXCEPT ![r] = NoRequest]

----------------------------------------------------------------------------
(* store_blob_counted *)

\* An upload whose bytes match their digest arrives.
Store(r, d) ==
  /\ pc[r] = "idle"
  /\ req' = [req EXCEPT ![r] = [digest |-> d, present |-> FALSE]]
  /\ Goto(r, "lock")
  /\ UNCHANGED <<blobs, blob_count, accounting, detached, faults, disturbed>>

\* As before R3-3: the mutex is not taken.
Mut_StoreLock(r) ==
  /\ pc[r] = "lock"
  /\ Goto(r, "contains")
  /\ UNCHANGED <<blobs, blob_count, accounting, req, detached, faults, disturbed>>

StoreLock(r) ==
  /\ pc[r] = "lock"
  /\ accounting = NoHolder
  /\ accounting' = r
  /\ Goto(r, "contains")
  /\ UNCHANGED <<blobs, blob_count, req, detached, faults, disturbed>>

\* contains: an error counts as absent.
StoreContains(r) ==
  /\ pc[r] = "contains"
  /\ \/ /\ req' = [req EXCEPT ![r].present = req[r].digest \in blobs]
        /\ UNCHANGED <<faults, disturbed>>
     \/ /\ faults < MaxFaults
        /\ faults' = faults + 1
        /\ disturbed' = TRUE
        /\ UNCHANGED req
  /\ Goto(r, "put")
  /\ UNCHANGED <<blobs, blob_count, accounting, detached>>

StorePut(r) ==
  /\ pc[r] = "put"
  /\ blobs' = blobs \cup {req[r].digest}
  /\ Goto(r, "count")
  /\ UNCHANGED <<blob_count, accounting, req, detached, faults, disturbed>>

\* The mutex is never released.
Mut_StorePutFails(r) ==
  /\ pc[r] = "put"
  /\ Return(r)
  /\ UNCHANGED <<blobs, blob_count, accounting, detached, faults, disturbed>>

StorePutFails(r) ==
  /\ pc[r] = "put"
  /\ accounting' = NoHolder
  /\ Return(r)
  /\ UNCHANGED <<blobs, blob_count, detached, faults, disturbed>>

StoreCount(r) ==
  /\ pc[r] = "count"
  /\ blob_count' = IF req[r].present THEN blob_count ELSE blob_count + 1
  /\ accounting' = NoHolder
  /\ Return(r)
  /\ UNCHANGED <<blobs, detached, faults, disturbed>>

----------------------------------------------------------------------------
(* delete_blob *)

\* contains: an unknown blob is a 404.
Delete(r, d) ==
  /\ pc[r] = "idle"
  /\ d \in blobs
  /\ req' = [req EXCEPT ![r] = [digest |-> d, present |-> TRUE]]
  /\ Goto(r, "delete")
  /\ disturbed' = TRUE
  /\ UNCHANGED <<blobs, blob_count, accounting, detached, faults>>

DeleteRemove(r) ==
  /\ pc[r] = "delete"
  /\ \/ blobs' = blobs \ {req[r].digest} /\ Goto(r, "dec") /\ UNCHANGED req
     \/ Return(r) /\ UNCHANGED blobs
  /\ UNCHANGED <<blob_count, accounting, detached, faults, disturbed>>

dec_blob_count(n) == IF n = 0 THEN 0 ELSE n - 1

DeleteCount(r) ==
  /\ pc[r] = "dec"
  /\ blob_count' = dec_blob_count(blob_count)
  /\ Return(r)
  /\ UNCHANGED <<blobs, accounting, detached, faults, disturbed>>

----------------------------------------------------------------------------
(* hyper and tokio *)

\* A handler is dropped at an await; its guard is released.  A put or delete
\* that was handed to spawn_blocking may still happen.
Drop(r) ==
  /\ faults < MaxFaults
  /\ pc[r] \in {"lock", "contains", "put", "delete"}
  /\ \/ pc[r] \in {"put", "delete"} /\ detached' = detached \cup {<<pc[r], req[r].digest>>}
     \/ UNCHANGED detached
  /\ accounting' = IF accounting = r THEN NoHolder ELSE accounting
  /\ faults' = faults + 1
  /\ disturbed' = TRUE
  /\ Return(r)
  /\ UNCHANGED <<blobs, blob_count>>

Detached ==
  \E late \in detached :
    /\ blobs' = IF late[1] = "put" THEN blobs \cup {late[2]} ELSE blobs \ {late[2]}
    /\ detached' = detached \ {late}
    /\ UNCHANGED <<blob_count, accounting, pc, req, faults, disturbed>>

Proceed(r) ==
  \/ StoreContains(r) \/ StorePut(r) \/ StorePutFails(r) \/ StoreCount(r)
  \/ DeleteRemove(r) \/ DeleteCount(r)

Next ==
  \/ \E r \in Requests :
       \/ \E d \in Digests : Store(r, d) \/ Delete(r, d)
       \/ StoreLock(r) \/ Proceed(r) \/ Drop(r)
  \/ Detached

Spec == Init /\ [][Next]_vars

----------------------------------------------------------------------------
(* Properties *)

\* "the storage_blobs gauge counts *distinct* blobs currently held"
\* (blob_upload.rs:120): exact whenever no store is in progress, however
\* stores of one digest interleave, in a server where nothing disturbed it.
GaugeExact ==
  accounting = NoHolder /\ ~disturbed => blob_count = Cardinality(blobs)

\* Every handler that starts is answered: the accounting mutex is released on
\* every path, errors and dropped handlers included.
EveryStoreReturns ==
  \A r \in Requests : (pc[r] # "idle") ~> (pc[r] = "idle")

=============================================================================
