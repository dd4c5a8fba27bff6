----------------------------- MODULE ParseCache -----------------------------
(***************************************************************************)
(* The parse cache of ferro-airflow-dag-parser (cache.rs, and the parse    *)
(* below it in api.rs and panic_safe.rs): threads that poll one DAG file,  *)
(* an editor that rewrites, touches, removes and restores it, and the      *)
(* watcher that invalidates its entry.                                     *)
(*                                                                         *)
(* The file system calls and the calls of the DashMap are the atomic       *)
(* steps.  A fingerprint (mtime and size) is the number of the edit that   *)
(* made it, so no two states of the file have the same one; the hash of    *)
(* the source is the source.  `get` on the DashMap returns a guard, and    *)
(* while a guard is held an `insert` waits.                                *)
(***************************************************************************)
EXTENDS Integers, FiniteSets

CONSTANTS
  Threads,
  Sources,    \* what the file may contain
  Unparsable, \* the sources that are refused: by the shield, by the parser, or
              \* for an identifier
  MaxEdits,   \* bound: changes to the file
  MaxCalls    \* bound: calls of get_or_parse

VARIABLES
  file,    \* [there, source, stamp]
  inner,   \* ParseCache::inner at the canonical key: an entry, or NoEntry
  guards,  \* threads that hold a guard on the entry
  pc,      \* where each call of get_or_parse is
  local,   \* its locals: fingerprint, source, entry
  calls,   \* calls so far
  seen     \* history: for a call under way, the sources the file has had since

vars == <<file, inner, guards, pc, local, calls, seen>>

NoEntry == [source |-> "none", fingerprint |-> -1, markers |-> FALSE]
NoLocal == [fingerprint |-> -1, source |-> "none", entry |-> NoEntry]

Init ==
  /\ file \in [there : {TRUE}, source : Sources, stamp : {0}]
  /\ inner = NoEntry
  /\ guards = {}
  /\ pc = [t \in Threads |-> "idle"]
  /\ local = [t \in Threads |-> NoLocal]
  /\ calls = 0
  /\ seen = [t \in Threads |-> {}]

-----------------------------------------------------------------------------
(* The world *)

Now(f) == IF f.there THEN {f.source} ELSE {}

\* External: the file is written, touched, removed or restored.
Edit ==
  /\ file.stamp < MaxEdits
  /\ \E there \in BOOLEAN, s \in Sources :
       file' = [there |-> there, source |-> IF there THEN s ELSE file.source,
                stamp |-> file.stamp + 1]
  /\ seen' = [t \in Threads |-> IF pc[t] = "idle" THEN {} ELSE seen[t] \cup Now(file')]
  /\ UNCHANGED <<inner, guards, pc, local, calls>>

\* The canonical path of a file that is gone is not found: the key is then the
\* path as it was given, and the entry stays.
invalidate ==
  /\ guards = {}
  /\ inner' = IF file.there THEN NoEntry ELSE inner
  /\ UNCHANGED <<file, guards, pc, local, calls, seen>>

clear ==
  /\ guards = {}
  /\ inner' = NoEntry
  /\ UNCHANGED <<file, guards, pc, local, calls, seen>>

-----------------------------------------------------------------------------
(* get_or_parse *)

Call(t) ==
  /\ pc[t] = "idle"
  /\ calls < MaxCalls
  /\ calls' = calls + 1
  /\ pc' = [pc EXCEPT ![t] = "stat"]
  /\ seen' = [seen EXCEPT ![t] = Now(file)]
  /\ UNCHANGED <<file, inner, guards, local>>

Return(t) ==
  /\ pc' = [pc EXCEPT ![t] = "idle"]
  /\ local' = [local EXCEPT ![t] = NoLocal]
  /\ seen' = [seen EXCEPT ![t] = {}]

\* What Ok returns stays in `local` for the step "return".
Answer(t, entry) ==
  /\ pc' = [pc EXCEPT ![t] = "return"]
  /\ local' = [local EXCEPT ![t].entry = entry]
  /\ UNCHANGED seen

\* std::fs::metadata; an error is returned.
Stat(t) ==
  /\ pc[t] = "stat"
  /\ IF file.there
     THEN /\ pc' = [pc EXCEPT ![t] = "lookup"]
          /\ local' = [local EXCEPT ![t].fingerprint = file.stamp]
          /\ UNCHANGED seen
     ELSE Return(t)
  /\ UNCHANGED <<file, inner, guards, calls>>

\* The entry is returned whatever its fingerprint.
Mut_Lookup(t) ==
  /\ pc[t] = "lookup"
  /\ IF inner # NoEntry THEN Answer(t, inner)
     ELSE pc' = [pc EXCEPT ![t] = "read"] /\ UNCHANGED <<local, seen>>
  /\ UNCHANGED <<file, inner, guards, calls>>

\* The fast path: same mtime and size.
Lookup(t) ==
  /\ pc[t] = "lookup"
  /\ IF inner.fingerprint = local[t].fingerprint
     THEN Answer(t, inner)
     ELSE pc' = [pc EXCEPT ![t] = "read"] /\ UNCHANGED <<local, seen>>
  /\ UNCHANGED <<file, inner, guards, calls>>

\* read_to_string and hash_source
Read(t) ==
  /\ pc[t] = "read"
  /\ IF file.there
     THEN /\ pc' = [pc EXCEPT ![t] = "compare"]
          /\ local' = [local EXCEPT ![t].source = file.source]
          /\ UNCHANGED seen
     ELSE Return(t)
  /\ UNCHANGED <<file, inner, guards, calls>>

\* The source is the cached one: copy the entry under its guard.
Compare(t) ==
  /\ pc[t] = "compare"
  /\ IF inner.source = local[t].source
     THEN /\ guards' = guards \cup {t}
          /\ local' = [local EXCEPT ![t].entry =
                         [inner EXCEPT !.fingerprint = local[t].fingerprint]]
          /\ pc' = [pc EXCEPT ![t] = "drop"]
     ELSE /\ pc' = [pc EXCEPT ![t] = "parse"]
          /\ UNCHANGED <<guards, local>>
  /\ UNCHANGED <<file, inner, calls, seen>>

\* The guard is kept over the insert.
Mut_DropGuard(t) ==
  /\ pc[t] = "drop"
  /\ pc' = [pc EXCEPT ![t] = "insert"]
  /\ UNCHANGED <<file, inner, guards, local, calls, seen>>

DropGuard(t) ==
  /\ pc[t] = "drop"
  /\ guards' = guards \ {t}
  /\ pc' = [pc EXCEPT ![t] = "insert"]
  /\ UNCHANGED <<file, inner, local, calls, seen>>

\* parse_dag_file: extraction and marker detection.  When the thread of the second
\* cannot be made, the outcome has no markers.
Parse(t) ==
  /\ pc[t] = "parse"
  /\ local[t].source \notin Unparsable
  /\ \E markers \in BOOLEAN :
       local' = [local EXCEPT ![t].entry =
                   [source |-> local[t].source, fingerprint |-> local[t].fingerprint,
                    markers |-> markers]]
  /\ pc' = [pc EXCEPT ![t] = "insert"]
  /\ UNCHANGED <<file, inner, guards, calls, seen>>

\* The shield around the extraction: the source is refused, or the thread of the
\* parser panics or cannot be made.
shield_parser_panic(t) ==
  /\ pc[t] = "parse"
  /\ Return(t)
  /\ UNCHANGED <<file, inner, guards, calls>>

\* The older fingerprint, from before the read, goes with the newer source.
Insert(t) ==
  /\ pc[t] = "insert"
  /\ guards = {}
  /\ inner' = local[t].entry
  /\ Answer(t, local[t].entry)
  /\ UNCHANGED <<file, guards, calls>>

Finish(t) ==
  /\ pc[t] = "return"
  /\ Return(t)
  /\ UNCHANGED <<file, inner, guards, calls>>

Step(t) ==
  \/ Stat(t) \/ Lookup(t) \/ Read(t) \/ Compare(t) \/ DropGuard(t) \/ Parse(t)
  \/ shield_parser_panic(t) \/ Insert(t) \/ Finish(t)

Next ==
  \/ Edit \/ invalidate \/ clear
  \/ \E t \in Threads : Call(t) \/ Step(t)

\* The operating system runs every thread that is not waiting.
Spec == Init /\ [][Next]_vars /\ \A t \in Threads : WF_vars(Step(t))

-----------------------------------------------------------------------------
(* Properties *)

\* get_or_parse answers for a source that the file had during the call, never for
\* an older one, although the stat, the read, the look-ups and the inserts of
\* several threads and the edits interleave (fast path and refresh in cache.rs).
FreshOutcome == \A t \in Threads : pc[t] = "return" => local[t].entry.source \in seen[t]

\* A thread never waits for a guard of its own: every call comes back ("drop"
\* before "insert" in get_or_parse).
CallReturns == \A t \in Threads : pc[t] # "idle" ~> pc[t] = "idle"

=============================================================================
