----------------------------- MODULE BlobStore ------------------------------
(***************************************************************************)
(* What the BlobStore trait promises its callers (ferro-blob-store,        *)
(* blob_store.rs): every call takes effect at one moment between its start *)
(* and its answer, as it does in InMemoryBlobStore, whose operations each  *)
(* take its lock once (memory.rs).  A call may fail, and then changes      *)
(* nothing; a call that its caller drops may still take effect later, or   *)
(* never.  A listing is not a moment: it names everything that was there   *)
(* all the while, and nothing that was not there at some time.             *)
(***************************************************************************)
CONSTANTS Tasks, Digests

VARIABLES
  blobs,   \* the digests in the store; each with exactly its bytes
  call,    \* the call each task waits for
  answer,  \* what the last step answered, if it answered a call
  late,    \* dropped calls that may still take effect
  must,    \* task that lists -> digests there since the listing began
  may      \* task that lists -> digests there at some time since then

vars == <<blobs, call, answer, late, must, may>>

NoCall == [op |-> "none"]
OnDigest == [op: {"put", "get", "contains", "delete"}, digest: Digests]
List == [op |-> "list"]
NoAnswer == [is |-> "none"]

Init ==
  /\ blobs = {}
  /\ call = [t \in Tasks |-> NoCall]
  /\ answer = NoAnswer
  /\ late = {}
  /\ must = [t \in Tasks |-> {}]
  /\ may = [t \in Tasks |-> {}]

Start(t) ==
  /\ call[t] = NoCall
  /\ answer' = NoAnswer
  /\ \E c \in OnDigest \cup {List} : call' = [call EXCEPT ![t] = c]
  /\ UNCHANGED <<blobs, late>>

Answer(t, a) ==
  /\ call' = [call EXCEPT ![t] = NoCall]
  /\ answer' = [task |-> t, is |-> a]
  /\ UNCHANGED late

\* put with bytes that the digest does not name.
Refuse(t) ==
  /\ call[t] = NoCall
  /\ Answer(t, "mismatch")
  /\ UNCHANGED blobs

put(t) ==
  /\ call[t].op = "put"
  /\ blobs' = blobs \cup {call[t].digest}
  /\ Answer(t, "ok")

get(t) ==
  /\ call[t].op = "get"
  /\ Answer(t, IF call[t].digest \in blobs THEN "bytes" ELSE "missing")
  /\ UNCHANGED blobs

contains(t) ==
  /\ call[t].op = "contains"
  /\ Answer(t, IF call[t].digest \in blobs THEN "yes" ELSE "no")
  /\ UNCHANGED blobs

delete(t) ==
  /\ call[t].op = "delete"
  /\ blobs' = blobs \ {call[t].digest}
  /\ Answer(t, "deleted")

list(t) ==
  /\ call[t].op = "list"
  /\ \E S \in SUBSET may[t] :
       must[t] \subseteq S /\ answer' = [task |-> t, is |-> "listed", listed |-> S]
  /\ call' = [call EXCEPT ![t] = NoCall]
  /\ UNCHANGED <<blobs, late>>

Fail(t) ==
  /\ call[t] # NoCall
  /\ Answer(t, "err")
  /\ UNCHANGED blobs

\* The caller drops the future.
Drop(t) ==
  /\ call[t] # NoCall
  /\ call' = [call EXCEPT ![t] = NoCall]
  /\ answer' = NoAnswer
  /\ late' \in {late, late \cup {call[t]}}
  /\ UNCHANGED blobs

\* Several dropped calls may be the same.
Late(c) ==
  /\ c.op \in {"put", "delete"}
  /\ blobs' = IF c.op = "put" THEN blobs \cup {c.digest} ELSE blobs \ {c.digest}
  /\ late' \in {late, late \ {c}}
  /\ answer' = NoAnswer
  /\ UNCHANGED call

\* The process is started again.
Restart ==
  /\ call' = [t \in Tasks |-> NoCall]
  /\ answer' = NoAnswer
  /\ late' = {}
  /\ UNCHANGED blobs

\* A step inside the store.
Work ==
  /\ answer' = NoAnswer
  /\ UNCHANGED <<blobs, call, late>>

\* What a listing may see.
Watch ==
  /\ must' = [t \in Tasks |-> IF call'[t] # List THEN {}
                              ELSE IF call[t] = List THEN must[t] \cap blobs' ELSE blobs']
  /\ may' = [t \in Tasks |-> IF call'[t] # List THEN {}
                             ELSE IF call[t] = List THEN may[t] \cup blobs' ELSE blobs']

Next ==
  /\ \/ Work
     \/ \E t \in Tasks :
          \/ Start(t) \/ Refuse(t) \/ put(t) \/ get(t) \/ contains(t) \/ delete(t) \/ list(t)
          \/ Fail(t) \/ Drop(t)
     \/ \E c \in late : Late(c)
     \/ Restart
  /\ Watch

Spec == Init /\ [][Next]_vars

=============================================================================
