---------------------------- MODULE FsBlobStore ----------------------------
(***************************************************************************)
(* The filesystem blob store (ferro-blob-store, fs.rs) at the level of its *)
(* file operations.  Callers are tasks; each file operation is an await,   *)
(* run by tokio's blocking pool, so other tasks run in between, the caller *)
(* may be dropped while it is in progress (it then completes on its own),  *)
(* and the process may die.                                                *)
(*                                                                         *)
(* A digest stands for the bytes it names.  A file holds the bytes of a    *)
(* digest, all of them (`whole`) or only some.  An open file keeps what it *)
(* holds when another is renamed over it or it is removed, so a read is    *)
(* one step.                                                               *)
(***************************************************************************)
EXTENDS Naturals, FiniteSets

CONSTANTS
  Tasks,
  Digests,
  MaxSeq,    \* bound on TMP_SEQ within one run of the process
  MaxFaults, \* bound on I/O errors, dropped callers and crashes
  NoFile

ASSUME FsAssumption ==
  /\ MaxSeq \in Nat /\ MaxFaults \in Nat
  /\ NoFile \notin [of: Digests, whole: BOOLEAN]

VARIABLES
  final,     \* digest -> file at path_for(digest)
  tmp,       \* temporary files, by the digest and number in their name
  seq,       \* TMP_SEQ
  pc,
  req,       \* the digest, the bytes and the temporary name of each task
  detached,  \* renames and removals of dropped calls, not executed yet
  result,    \* what the last step returned, if a call returned then
  faults     \* I/O errors, dropped callers and crashes so far

vars == <<final, tmp, seq, pc, req, detached, result, faults>>

Seqs == 0..MaxSeq
Whole(d) == [of |-> d, whole |-> TRUE]
NoCall == [n |-> 0]
NoResult == [is |-> "none"]

Init ==
  /\ final = [d \in Digests |-> NoFile]
  /\ tmp = [f \in Digests \X Seqs |-> NoFile]
  /\ seq = 0
  /\ pc = [t \in Tasks |-> "idle"]
  /\ req = [t \in Tasks |-> NoCall]
  /\ detached = {}
  /\ result = NoResult
  /\ faults = 0

Fault == faults < MaxFaults /\ faults' = faults + 1

tmp_path(t) == <<req[t].digest, req[t].n>>

Return(t, res) ==
  /\ pc' = [pc EXCEPT ![t] = "idle"]
  /\ req' = [req EXCEPT ![t] = NoCall]
  /\ result' = [task |-> t, is |-> res]

Begin(t, step, call) ==
  /\ pc[t] = "idle"
  /\ pc' = [pc EXCEPT ![t] = step]
  /\ req' = [req EXCEPT ![t] = call]
  /\ result' = NoResult

On(d) == [digest |-> d, bytes |-> d, n |-> 0]

----------------------------------------------------------------------------
(* put *)

\* The digest is verified before anything is written.  The bound leaves every
\* call a number.
Put(t, d, b) ==
  /\ \/ /\ b = d
        /\ seq + Cardinality({u \in Tasks : pc[u] = "dirs"}) < MaxSeq
        /\ Begin(t, "dirs", On(d))
     \/ b # d /\ pc[t] = "idle" /\ Return(t, "mismatch")
  /\ UNCHANGED <<final, tmp, seq, detached, faults>>

\* The temporary file has a name made of the digest and the process id only.
Mut_PutDirs(t) ==
  /\ pc[t] = "dirs"
  /\ req' = [req EXCEPT ![t].n = 0]
  /\ tmp' = [tmp EXCEPT ![<<req[t].digest, 0>>] =
               [of |-> req[t].bytes, whole |-> FALSE]]
  /\ pc' = [pc EXCEPT ![t] = "write"]
  /\ result' = NoResult
  /\ UNCHANGED <<final, seq, detached, faults>>

\* The directories are there; a number is drawn and the file is created or,
\* if a crashed process left one of this name, truncated.
PutDirs(t) ==
  /\ pc[t] = "dirs"
  /\ seq' = seq + 1
  /\ req' = [req EXCEPT ![t].n = seq]
  /\ tmp' = [tmp EXCEPT ![<<req[t].digest, seq>>] =
               [of |-> req[t].bytes, whole |-> FALSE]]
  /\ pc' = [pc EXCEPT ![t] = "write"]
  /\ result' = NoResult
  /\ UNCHANGED <<final, detached, faults>>

\* The bytes are all in the file.
PutWrite(t) ==
  /\ pc[t] = "write"
  /\ tmp' = [tmp EXCEPT ![tmp_path(t)] = Whole(req[t].bytes)]
  /\ pc' = [pc EXCEPT ![t] = "rename"]
  /\ result' = NoResult
  /\ UNCHANGED <<final, seq, req, detached, faults>>

\* create_dir_all or write fails: what is written so far stays.
PutFails(t) ==
  /\ pc[t] \in {"dirs", "write"}
  /\ Fault
  /\ Return(t, "err")
  /\ UNCHANGED <<final, tmp, seq, detached>>

PutRename(t) ==
  /\ pc[t] = "rename"
  /\ tmp[tmp_path(t)] # NoFile
  /\ final' = [final EXCEPT ![req[t].digest] = tmp[tmp_path(t)]]
  /\ tmp' = [tmp EXCEPT ![tmp_path(t)] = NoFile]
  /\ Return(t, "ok")
  /\ UNCHANGED <<seq, detached, faults>>

PutRenameFails(t) ==
  /\ pc[t] = "rename"
  /\ pc' = [pc EXCEPT ![t] = "remove"]
  /\ Fault
  /\ result' = NoResult
  /\ UNCHANGED <<final, tmp, seq, req, detached>>

\* A failed rename counts as a success whether or not the blob is there.
Mut_PutRemove(t) ==
  /\ pc[t] = "remove"
  /\ tmp' = [tmp EXCEPT ![tmp_path(t)] = NoFile]
  /\ Return(t, "ok")
  /\ UNCHANGED <<final, seq, detached, faults>>

\* The file is removed, if that works; success if the blob is there anyway.
PutRemove(t) ==
  /\ pc[t] = "remove"
  /\ \/ tmp' = [tmp EXCEPT ![tmp_path(t)] = NoFile]
     \/ tmp' = tmp
  /\ Return(t, IF final[req[t].digest] # NoFile THEN "ok" ELSE "err")
  /\ UNCHANGED <<final, seq, detached, faults>>

----------------------------------------------------------------------------
(* get, contains, delete *)

Get(t, d) ==
  /\ Begin(t, "read", On(d))
  /\ UNCHANGED <<final, tmp, seq, detached, faults>>

Contains(t, d) ==
  /\ Begin(t, "stat", On(d))
  /\ UNCHANGED <<final, tmp, seq, detached, faults>>

Delete(t, d) ==
  /\ Begin(t, "delete", On(d))
  /\ UNCHANGED <<final, tmp, seq, detached, faults>>

GetRead(t) ==
  LET file == final[req[t].digest]
  IN /\ pc[t] = "read"
     /\ Return(t, IF file = NoFile THEN "missing"
                  ELSE IF file = Whole(req[t].digest) THEN "bytes" ELSE "torn")
     /\ UNCHANGED <<final, tmp, seq, detached, faults>>

ContainsStat(t) ==
  /\ pc[t] = "stat"
  /\ Return(t, IF final[req[t].digest] = NoFile THEN "no" ELSE "yes")
  /\ UNCHANGED <<final, tmp, seq, detached, faults>>

\* A missing file is not an error.
DeleteRemove(t) ==
  /\ pc[t] = "delete"
  /\ \/ /\ final' = [final EXCEPT ![req[t].digest] = NoFile]
        /\ Return(t, "deleted")
        /\ UNCHANGED faults
     \/ Return(t, "err") /\ Fault /\ UNCHANGED final
  /\ UNCHANGED <<tmp, seq, detached>>

----------------------------------------------------------------------------
(* list *)

List(t) ==
  /\ Begin(t, "list", [n |-> 0, left |-> Digests, out |-> {}])
  /\ UNCHANGED <<final, tmp, seq, detached, faults>>

\* Each next_entry is an await; a directory is read in any order.
collect_algo(t, d) ==
  /\ pc[t] = "list"
  /\ d \in req[t].left
  /\ req' = [req EXCEPT ![t].left = @ \ {d},
                        ![t].out = IF final[d] = NoFile THEN @ ELSE @ \cup {d}]
  /\ result' = NoResult
  /\ UNCHANGED <<final, tmp, seq, pc, detached, faults>>

ListDone(t) ==
  /\ pc[t] = "list"
  /\ req[t].left = {}
  /\ pc' = [pc EXCEPT ![t] = "idle"]
  /\ req' = [req EXCEPT ![t] = NoCall]
  /\ result' = [task |-> t, is |-> "listed", listed |-> req[t].out]
  /\ UNCHANGED <<final, tmp, seq, detached, faults>>

\* An error other than NotFound.
ReadFails(t) ==
  /\ pc[t] \in {"read", "stat", "list"}
  /\ Fault
  /\ Return(t, "err")
  /\ UNCHANGED <<final, tmp, seq, detached>>

----------------------------------------------------------------------------
(* tokio and the process *)

\* The caller is dropped; what the blocking pool has begun still happens.  A
\* write or a clean-up touches a file no other call uses, so it happens at
\* once or, if it had not begun, not at all.
Drop(t) ==
  /\ pc[t] # "idle"
  /\ \/ UNCHANGED tmp
     \/ pc[t] = "write" /\ tmp' = [tmp EXCEPT ![tmp_path(t)] = Whole(req[t].bytes)]
     \/ pc[t] = "remove" /\ tmp' = [tmp EXCEPT ![tmp_path(t)] = NoFile]
  /\ detached' = detached \cup
       (IF pc[t] \in {"rename", "delete"} THEN {<<pc[t], tmp_path(t)>>} ELSE {})
  /\ Fault
  /\ pc' = [pc EXCEPT ![t] = "idle"]
  /\ req' = [req EXCEPT ![t] = NoCall]
  /\ result' = NoResult
  /\ UNCHANGED <<final, seq>>

Detached ==
  \E e \in detached :
    /\ IF e[1] = "rename"
       THEN /\ final' = [final EXCEPT ![e[2][1]] = tmp[e[2]]]
            /\ tmp' = [tmp EXCEPT ![e[2]] = NoFile]
       ELSE final' = [final EXCEPT ![e[2][1]] = NoFile] /\ UNCHANGED tmp
    /\ detached' = detached \ {e}
    /\ result' = NoResult
    /\ UNCHANGED <<seq, pc, req, faults>>

\* The files stay; the new process may have the same pid (in a container it
\* has) and counts from 0 again.
Crash ==
  /\ seq' = 0
  /\ pc' = [t \in Tasks |-> "idle"]
  /\ req' = [t \in Tasks |-> NoCall]
  /\ detached' = {}
  /\ result' = NoResult
  /\ Fault
  /\ UNCHANGED <<final, tmp>>

Next ==
  \/ \E t \in Tasks :
       \/ \E d, b \in Digests : Put(t, d, b)
       \/ \E d \in Digests : Get(t, d) \/ Contains(t, d) \/ Delete(t, d) \/ collect_algo(t, d)
       \/ List(t)
       \/ PutDirs(t) \/ PutWrite(t) \/ PutFails(t)
       \/ PutRename(t) \/ PutRenameFails(t) \/ PutRemove(t)
       \/ GetRead(t) \/ ContainsStat(t) \/ DeleteRemove(t) \/ ListDone(t) \/ ReadFails(t)
       \/ Drop(t)
  \/ Detached \/ Crash

Spec == Init /\ [][Next]_vars

----------------------------------------------------------------------------
(* Properties *)

\* "A concurrent `get` either sees the previous version or the new one, never
\* a partial write" (fs.rs:21-23): what is stored under a digest is exactly the
\* bytes it names, also after dropped calls and process crashes.
NeverPartial == \A d \in Digests : final[d] \in {NoFile, Whole(d)}

\* Writers of one digest never share a temporary file, dropped ones included
\* ("Per-call unique temp file name", fs.rs:74).
OwnTmpFile ==
  \A t \in Tasks : pc[t] \in {"write", "rename"} =>
    /\ \A u \in Tasks \ {t} :
         pc[u] \in {"write", "rename"} => tmp_path(u) # tmp_path(t)
    /\ <<"rename", tmp_path(t)>> \notin detached

\* Without I/O errors, dropped callers and crashes no temporary file is left.
NoTmpLeak ==
  faults = 0 /\ (\A t \in Tasks : pc[t] = "idle") =>
    \A f \in Digests \X Seqs : tmp[f] = NoFile

\* What lies under a digest is exactly the bytes it names, writers never share
\* a temporary file, and none is left behind by calls that nothing disturbed
\* (fs.rs put).
FilesSound == NeverPartial /\ OwnTmpFile /\ NoTmpLeak

=============================================================================
