------------------------- MODULE ParseCache_proofs -------------------------
(***************************************************************************)
(* A proof about ParseCache, for any number of threads, sources, edits and *)
(* calls: an outcome belongs to a source that the file had during the      *)
(* call.                                                                   *)
(***************************************************************************)
EXTENDS ParseCache, TLAPS

Steps == {"idle", "stat", "lookup", "read", "compare", "drop", "parse", "insert", "return"}

\* The call has a fingerprint; it has a source as well.
Timed == {"lookup", "read", "compare", "parse", "drop", "insert"}
Holding == {"compare", "parse", "drop", "insert"}

\* A source that was read after a stat that returned `stamp`.  While the file
\* has this stamp, the source is what it contains; and every call whose own stat
\* returned it was under way when the source was read, or began later with it.
Bears(stamp, source) ==
  /\ stamp <= file.stamp
  /\ stamp = file.stamp => file.there /\ source = file.source
  /\ \A u \in Threads : pc[u] \in Timed /\ local[u].fingerprint = stamp => source \in seen[u]

CacheTypes ==
  /\ file.stamp \in Nat
  /\ inner.fingerprint \in Int
  /\ DOMAIN inner = {"source", "fingerprint", "markers"}
  /\ pc \in [Threads -> Steps]
  /\ DOMAIN local = Threads /\ DOMAIN seen = Threads
  /\ \A t \in Threads : /\ DOMAIN local[t] = {"fingerprint", "source", "entry"}
                        /\ DOMAIN local[t].entry = {"source", "fingerprint", "markers"}
                        /\ local[t].fingerprint \in Int

\* What a call knows at each of its steps.
Own(t) ==
  /\ pc[t] # "idle" => Now(file) \subseteq seen[t]
  /\ pc[t] \in Timed => local[t].fingerprint \in Nat /\ local[t].fingerprint <= file.stamp
  /\ pc[t] \in Holding => Bears(local[t].fingerprint, local[t].source)
  /\ pc[t] \in {"drop", "insert"} => /\ local[t].entry.source = local[t].source
                                     /\ local[t].entry.fingerprint = local[t].fingerprint
  /\ pc[t] = "return" => local[t].entry.source \in seen[t]

CacheInv ==
  /\ CacheTypes
  /\ Bears(inner.fingerprint, inner.source)
  /\ \A t \in Threads : Own(t)

\* An empty cache.
LEMMA CacheInit == Init => CacheInv
<1> SUFFICES ASSUME Init PROVE CacheInv
  OBVIOUS
<1>1. file.stamp = 0 /\ file.stamp \in Nat
  BY DEF Init
<1>2. CacheTypes
  BY <1>1 DEF Init, CacheTypes, NoEntry, NoLocal, Steps
<1>3. Bears(inner.fingerprint, inner.source)
  BY <1>1 DEF Init, Bears, NoEntry, Timed
<1> QED
  BY <1>2, <1>3 DEF Init, CacheInv, Own, Timed, Holding

\* The file changes: its stamp is newer than any entry's.
LEMMA EditKeeps == CacheInv /\ Edit => CacheInv'
<1> SUFFICES ASSUME CacheInv, Edit PROVE CacheInv'
  OBVIOUS
<1>1. /\ file.stamp \in Nat /\ file'.stamp = file.stamp + 1
      /\ UNCHANGED <<inner, guards, pc, local, calls>>
  BY DEF Edit, CacheInv, CacheTypes
<1>2. /\ DOMAIN seen' = Threads
      /\ \A t \in Threads : pc[t] # "idle" => seen'[t] = seen[t] \cup Now(file')
  BY DEF Edit, CacheInv, CacheTypes
<1>3. ASSUME NEW f \in Int, NEW s, Bears(f, s) PROVE Bears(f, s)'
  BY <1>1, <1>2, <1>3 DEF Bears, Timed
<1>4. CacheTypes'
  BY <1>1, <1>2 DEF CacheInv, CacheTypes
<1>5. Bears(inner.fingerprint, inner.source)'
  BY <1>1, <1>3 DEF CacheInv, CacheTypes
<1>6. ASSUME NEW t \in Threads
      PROVE  /\ pc'[t] # "idle" => Now(file)' \subseteq seen'[t]
             /\ pc'[t] \in Timed => local'[t].fingerprint \in Nat
                                     /\ local'[t].fingerprint <= file'.stamp
             /\ pc'[t] = "return" => local'[t].entry.source \in seen'[t]
  BY <1>1, <1>2 DEF CacheInv, Own, Timed, Now
<1>7. ASSUME NEW t \in Threads, pc'[t] \in Holding
      PROVE  Bears(local[t].fingerprint, local[t].source)'
  BY <1>1, <1>3, <1>7 DEF CacheInv, CacheTypes, Own
<1> QED
  BY <1>1, <1>4, <1>5, <1>6, <1>7 DEF CacheInv, Own

\* A step of thread t: the file stays, and so does what the others know.
Moves(t) ==
  /\ file' = file
  /\ \A u \in Threads : u # t => pc'[u] = pc[u] /\ local'[u] = local[u] /\ seen'[u] = seen[u]
  /\ pc'[t] \in Timed =>
       /\ seen'[t] = seen[t]
       /\ \/ pc[t] = "stat" /\ local'[t].fingerprint = file.stamp
          \/ pc[t] \in Timed /\ local'[t].fingerprint = local[t].fingerprint

\* What was read stays what it is.
LEMMA BearsStable ==
  ASSUME CacheInv, NEW t \in Threads, Moves(t), NEW f \in Int, NEW s, Bears(f, s)
  PROVE  Bears(f, s)'
<1>1. ASSUME NEW u \in Threads, pc'[u] \in Timed, local'[u].fingerprint = f
      PROVE  s \in seen'[u]
  <2>1. CASE u # t
    BY <1>1, <2>1 DEF Moves, Bears
  <2>2. CASE u = t /\ pc[t] \in Timed /\ local'[t].fingerprint = local[t].fingerprint
    BY <1>1, <2>2 DEF Moves, Bears
  <2>3. CASE u = t /\ pc[t] = "stat" /\ local'[t].fingerprint = file.stamp
    <3>1. s \in Now(file)
      BY <1>1, <2>3 DEF Bears, Now
    <3> QED
      BY <1>1, <2>3, <3>1 DEF Moves, CacheInv, Own
  <2> QED
    BY <1>1, <2>1, <2>2, <2>3 DEF Moves
<1> QED
  BY <1>1 DEF Moves, Bears

\* A step of one thread that leaves the file and the other threads alone.
LEMMA MoveKeeps ==
  ASSUME CacheInv, NEW t \in Threads, Moves(t), CacheTypes',
         Bears(inner.fingerprint, inner.source)', Own(t)'
  PROVE  CacheInv'
<1>1. ASSUME NEW u \in Threads, u # t PROVE Own(u)'
  <2>1. pc[u] \in Holding => Bears(local[u].fingerprint, local[u].source)'
    BY <1>1, BearsStable DEF Moves, CacheInv, CacheTypes, Own, Bears
  <2> QED
    BY <1>1, <2>1 DEF Moves, CacheInv, Own, Timed
<1> QED
  BY <1>1 DEF CacheInv

\* The inner map is left alone, or holds what some thread has read.
LEMMA InnerStable ==
  ASSUME CacheInv, NEW t \in Threads, Moves(t), inner' = inner
  PROVE  Bears(inner.fingerprint, inner.source)'
BY BearsStable, Zenon DEF CacheInv, CacheTypes, Bears

\* A cache without an entry bears its source: no thread took its fingerprint.
LEMMA EmptyBears == CacheTypes /\ (\A t \in Threads : Own(t)) => Bears(-1, NoEntry.source)
BY DEF CacheTypes, Own, Bears

\* get_or_parse is called (Call).
LEMMA CallKeeps == ASSUME CacheInv, NEW t \in Threads, Call(t) PROVE CacheInv'
<1>1. /\ pc[t] = "idle" /\ pc' = [pc EXCEPT ![t] = "stat"]
      /\ seen' = [seen EXCEPT ![t] = Now(file)]
      /\ UNCHANGED <<file, inner, local>>
  BY DEF Call
<1>2. Moves(t)
  BY <1>1 DEF Moves, CacheInv, CacheTypes, Timed
<1>3. CacheTypes'
  BY <1>1 DEF CacheInv, CacheTypes, Steps
<1>4. Own(t)'
  BY <1>1 DEF Own, CacheInv, CacheTypes, Timed, Holding
<1> QED
  BY <1>1, <1>2, <1>3, <1>4, InnerStable, MoveKeeps

\* The call ends, with an answer or an error.
LEMMA ReturnKeeps ==
  ASSUME CacheInv, NEW t \in Threads, Return(t), UNCHANGED <<file, inner>> PROVE CacheInv'
<1>1. Moves(t)
  BY DEF Return, Moves, CacheInv, CacheTypes, Timed
<1>2. CacheTypes'
  BY DEF Return, CacheInv, CacheTypes, Steps, NoLocal, NoEntry
<1>3. Own(t)'
  BY DEF Return, Own, CacheInv, CacheTypes, Timed, Holding
<1> QED
  BY <1>1, <1>2, <1>3, InnerStable, MoveKeeps

\* The fingerprint of the file is taken (Stat).
LEMMA StatKeeps == ASSUME CacheInv, NEW t \in Threads, Stat(t) PROVE CacheInv'
<1>1. CASE ~file.there
  BY <1>1, ReturnKeeps DEF Stat
<1>2. CASE file.there
  <2>1. /\ pc[t] = "stat" /\ pc' = [pc EXCEPT ![t] = "lookup"]
        /\ local' = [local EXCEPT ![t].fingerprint = file.stamp]
        /\ UNCHANGED <<file, inner, seen>>
    BY <1>2 DEF Stat
  <2>2. /\ local'[t] = [local[t] EXCEPT !.fingerprint = file.stamp]
        /\ local'[t].fingerprint = file.stamp /\ DOMAIN local'[t] = DOMAIN local[t]
        /\ local'[t].entry = local[t].entry
    BY <2>1 DEF CacheInv, CacheTypes
  <2>3. Moves(t)
    BY <2>1, <2>2 DEF Moves, CacheInv, CacheTypes, Timed
  <2>4. CacheTypes'
    BY <2>1, <2>2 DEF CacheInv, CacheTypes, Steps
  <2>5. Own(t)'
    BY <2>1, <2>2 DEF Own, CacheInv, CacheTypes, Timed, Holding
  <2> QED
    BY <2>1, <2>3, <2>4, <2>5, InnerStable, MoveKeeps
<1> QED
  BY <1>1, <1>2

\* The fast path: the entry has the fingerprint of this call's own stat.
LEMMA LookupKeeps == ASSUME CacheInv, NEW t \in Threads, Lookup(t) PROVE CacheInv'
<1>1. pc[t] = "lookup" /\ UNCHANGED <<file, inner, seen>>
  BY DEF Lookup, Answer
<1>2. CASE inner.fingerprint = local[t].fingerprint
  <2>1. /\ pc' = [pc EXCEPT ![t] = "return"] /\ local' = [local EXCEPT ![t].entry = inner]
    BY <1>2 DEF Lookup, Answer
  <2>2. /\ local'[t].entry = inner /\ DOMAIN local'[t] = DOMAIN local[t]
        /\ local'[t].fingerprint = local[t].fingerprint
    BY <2>1 DEF CacheInv, CacheTypes
  <2>3. inner.source \in seen[t]
    BY <1>1, <1>2 DEF CacheInv, Bears, Timed
  <2>4. Moves(t)
    BY <1>1, <2>1, <2>2 DEF Moves, CacheInv, CacheTypes, Timed
  <2>5. CacheTypes'
    BY <1>1, <2>1, <2>2 DEF CacheInv, CacheTypes, Steps
  <2>6. Own(t)'
    BY <1>1, <2>1, <2>2, <2>3 DEF Own, CacheInv, CacheTypes, Timed, Holding
  <2> QED
    BY <1>1, <2>4, <2>5, <2>6, InnerStable, MoveKeeps
<1>3. CASE inner.fingerprint # local[t].fingerprint
  <2>1. pc' = [pc EXCEPT ![t] = "read"] /\ local' = local
    BY <1>3 DEF Lookup
  <2>2. Moves(t)
    BY <1>1, <2>1 DEF Moves, CacheInv, CacheTypes, Timed
  <2>3. CacheTypes'
    BY <1>1, <2>1 DEF CacheInv, CacheTypes, Steps
  <2>4. Own(t)'
    BY <1>1, <2>1 DEF Own, CacheInv, CacheTypes, Timed, Holding
  <2> QED
    BY <1>1, <2>2, <2>3, <2>4, InnerStable, MoveKeeps
<1> QED
  BY <1>2, <1>3

\* What is read now is known to every call under way.
LEMMA ReadKeeps == ASSUME CacheInv, NEW t \in Threads, Read(t) PROVE CacheInv'
<1>1. CASE ~file.there
  BY <1>1, ReturnKeeps DEF Read
<1>2. CASE file.there
  <2>1. /\ pc[t] = "read" /\ pc' = [pc EXCEPT ![t] = "compare"]
        /\ local' = [local EXCEPT ![t].source = file.source]
        /\ UNCHANGED <<file, inner, seen>>
    BY <1>2 DEF Read
  <2>2. /\ local'[t].fingerprint = local[t].fingerprint /\ local'[t].source = file.source
        /\ DOMAIN local'[t] = DOMAIN local[t] /\ local'[t].entry = local[t].entry
    BY <2>1 DEF CacheInv, CacheTypes
  <2>3. Moves(t)
    BY <2>1, <2>2 DEF Moves, CacheInv, CacheTypes, Timed
  <2>4. CacheTypes'
    BY <2>1, <2>2 DEF CacheInv, CacheTypes, Steps
  <2>5. Bears(local[t].fingerprint, file.source)
    BY <1>2, <2>1 DEF Bears, CacheInv, Own, Now, Timed
  <2>6. Bears(local[t].fingerprint, local[t].source)'
    BY <2>1, <2>2, <2>3, <2>5, BearsStable DEF CacheInv, CacheTypes, Bears
  <2>7. Own(t)'
    BY <2>1, <2>2, <2>6 DEF Own, CacheInv, CacheTypes, Timed, Holding
  <2> QED
    BY <2>1, <2>3, <2>4, <2>7, InnerStable, MoveKeeps
<1> QED
  BY <1>1, <1>2

\* A step of a call that holds a source, and keeps it with its fingerprint.
LEMMA HoldKeeps ==
  ASSUME CacheInv, NEW t \in Threads, NEW step \in {"drop", "parse", "insert"},
         pc[t] \in Holding, pc' = [pc EXCEPT ![t] = step],
         CacheTypes', UNCHANGED <<file, inner, seen>>,
         \A u \in Threads : u # t => local'[u] = local[u],
         local'[t].fingerprint = local[t].fingerprint, local'[t].source = local[t].source,
         step # "parse" => /\ local'[t].entry.source = local[t].source
                           /\ local'[t].entry.fingerprint = local[t].fingerprint
  PROVE  CacheInv'
<1>1. Moves(t)
  BY DEF Moves, CacheInv, CacheTypes, Timed, Holding
<1>2. Bears(local[t].fingerprint, local[t].source)'
  BY <1>1, BearsStable DEF CacheInv, CacheTypes, Own, Bears
<1>3. Own(t)'
  BY <1>2 DEF Own, CacheInv, CacheTypes, Timed, Holding
<1> QED
  BY <1>1, <1>3, InnerStable, MoveKeeps

\* The entry is compared with the fingerprint under the lock (Compare).
LEMMA CompareKeeps == ASSUME CacheInv, NEW t \in Threads, Compare(t) PROVE CacheInv'
<1>1. pc[t] = "compare" /\ UNCHANGED <<file, inner, seen>>
  BY DEF Compare
<1>2. CASE inner.source = local[t].source
  <2>1. /\ pc' = [pc EXCEPT ![t] = "drop"]
        /\ local' = [local EXCEPT ![t].entry =
                       [inner EXCEPT !.fingerprint = local[t].fingerprint]]
    BY <1>2 DEF Compare
  <2>2. /\ local'[t].fingerprint = local[t].fingerprint /\ local'[t].source = local[t].source
        /\ DOMAIN local'[t] = DOMAIN local[t] /\ DOMAIN local'[t].entry = DOMAIN inner
        /\ local'[t].entry.source = local[t].source
        /\ local'[t].entry.fingerprint = local[t].fingerprint
    BY <1>2, <2>1 DEF CacheInv, CacheTypes
  <2>3. DOMAIN local' = Threads /\ \A u \in Threads : u # t => local'[u] = local[u]
    BY <2>1 DEF CacheInv, CacheTypes
  <2>4. CacheTypes'
    BY <1>1, <2>1, <2>2, <2>3 DEF CacheInv, CacheTypes, Steps
  <2> QED
    BY <1>1, <2>1, <2>2, <2>3, <2>4, HoldKeeps, Zenon DEF Holding
<1>3. CASE inner.source # local[t].source
  <2>1. pc' = [pc EXCEPT ![t] = "parse"] /\ local' = local
    BY <1>3 DEF Compare
  <2>2. CacheTypes'
    BY <1>1, <2>1 DEF CacheInv, CacheTypes, Steps
  <2> QED
    BY <1>1, <2>1, <2>2, HoldKeeps, Zenon DEF Holding
<1> QED
  BY <1>2, <1>3

\* The lock is given back before the parse (DropGuard).
LEMMA DropGuardKeeps == ASSUME CacheInv, NEW t \in Threads, DropGuard(t) PROVE CacheInv'
<1>1. CacheTypes'
  BY DEF DropGuard, CacheInv, CacheTypes, Steps
<1> QED
  BY <1>1, HoldKeeps, Zenon DEF DropGuard, Holding, CacheInv, Own

\* The file is read and parsed, as it is now (Parse).
LEMMA ParseKeeps == ASSUME CacheInv, NEW t \in Threads, Parse(t) PROVE CacheInv'
<1>1. pc[t] = "parse" /\ pc' = [pc EXCEPT ![t] = "insert"] /\ UNCHANGED <<file, inner, seen>>
  BY DEF Parse
<1>2. PICK markers \in BOOLEAN :
        local' = [local EXCEPT ![t].entry =
                    [source |-> local[t].source, fingerprint |-> local[t].fingerprint,
                     markers |-> markers]]
  BY Zenon DEF Parse
<1>3. /\ local'[t].fingerprint = local[t].fingerprint /\ local'[t].source = local[t].source
      /\ DOMAIN local'[t] = DOMAIN local[t]
      /\ DOMAIN local'[t].entry = {"source", "fingerprint", "markers"}
      /\ local'[t].entry.source = local[t].source
      /\ local'[t].entry.fingerprint = local[t].fingerprint
  BY <1>2 DEF CacheInv, CacheTypes
<1>4. DOMAIN local' = Threads /\ \A u \in Threads : u # t => local'[u] = local[u]
  BY <1>2 DEF CacheInv, CacheTypes
<1>5. CacheTypes'
  BY <1>1, <1>3, <1>4 DEF CacheInv, CacheTypes, Steps
<1> QED
  BY <1>1, <1>3, <1>4, <1>5, HoldKeeps, Zenon DEF Holding

\* The outcome is stored with the fingerprint taken before the parse (Insert).
LEMMA InsertKeeps == ASSUME CacheInv, NEW t \in Threads, Insert(t) PROVE CacheInv'
<1>1. /\ pc[t] = "insert" /\ pc' = [pc EXCEPT ![t] = "return"]
      /\ inner' = local[t].entry
      /\ local' = [local EXCEPT ![t].entry = local[t].entry]
      /\ UNCHANGED <<file, seen>>
  BY DEF Insert, Answer
<1>2. \A u \in Threads :
        /\ local'[u].fingerprint = local[u].fingerprint /\ local'[u].source = local[u].source
        /\ local'[u].entry = local[u].entry /\ DOMAIN local'[u] = DOMAIN local[u]
        /\ u # t => local'[u] = local[u]
  BY <1>1 DEF CacheInv, CacheTypes
<1>3. Moves(t)
  BY <1>1, <1>2 DEF Moves, CacheInv, CacheTypes, Timed
<1>4. /\ Bears(local[t].fingerprint, local[t].source)
      /\ local[t].entry.source = local[t].source
      /\ local[t].entry.fingerprint = local[t].fingerprint
      /\ local[t].entry.source \in seen[t]
  BY <1>1 DEF CacheInv, Own, Holding, Timed, Bears
<1>5. Bears(inner.fingerprint, inner.source)'
  BY <1>1, <1>3, <1>4, BearsStable DEF CacheInv, CacheTypes, Bears
<1>6. CacheTypes'
  BY <1>1, <1>2, <1>4 DEF CacheInv, CacheTypes, Steps
<1>7. Own(t)'
  BY <1>1, <1>2, <1>4 DEF Own, CacheInv, CacheTypes, Timed, Holding
<1> QED
  BY <1>3, <1>5, <1>6, <1>7, MoveKeeps

\* CacheInv through every step.
LEMMA CacheStep == CacheInv /\ [Next]_vars => CacheInv'
<1> SUFFICES ASSUME CacheInv, [Next]_vars PROVE CacheInv'
  OBVIOUS
<1>1. CASE UNCHANGED vars
  BY <1>1 DEF vars, CacheInv, CacheTypes, Own, Bears
<1>2. CASE invalidate \/ clear
  <2>1. inner' \in {inner, NoEntry} /\ UNCHANGED <<file, pc, local, seen>>
    BY <1>2 DEF invalidate, clear
  <2>2. Bears(inner.fingerprint, inner.source)'
    BY <2>1, EmptyBears DEF CacheInv, Bears, NoEntry
  <2> QED
    BY <2>1, <2>2 DEF CacheInv, CacheTypes, Own, Bears, NoEntry
<1>3. ASSUME NEW t \in Threads, shield_parser_panic(t) \/ Finish(t) PROVE CacheInv'
  BY <1>3, ReturnKeeps DEF shield_parser_panic, Finish
<1> QED
  BY <1>1, <1>2, <1>3, EditKeeps, CallKeeps, StatKeeps, LookupKeeps, ReadKeeps, CompareKeeps,
     DropGuardKeeps, ParseKeeps, InsertKeeps DEF Next, Step

\* get_or_parse answers for a source that the file had during the call, however
\* the stat, the read, the look-ups and the inserts of several threads and the
\* edits interleave.
THEOREM OutcomeIsFresh == Spec => []FreshOutcome
<1>1. CacheInv => FreshOutcome
  BY DEF CacheInv, Own, FreshOutcome
<1> QED
  BY <1>1, CacheInit, CacheStep, PTL DEF Spec

=============================================================================
