------------------------ MODULE FsBlobStoreContract ------------------------
(***************************************************************************)
(* The filesystem blob store (FsBlobStore) seen through the contract of    *)
(* the trait (BlobStore): which call a task waits for, what is stored, and *)
(* which dropped calls may still take effect.                              *)
(***************************************************************************)
EXTENDS FsBlobStore

VARIABLES must, may  \* history: see BlobStore

contractVars == <<vars, must, may>>

Blobs == {d \in Digests : final[d] # NoFile}

Operation(step) ==
  IF step = "read" THEN "get" ELSE IF step = "stat" THEN "contains"
  ELSE IF step = "delete" THEN "delete" ELSE "put"

CallOf(t) ==
  IF pc[t] = "idle" THEN [op |-> "none"]
  ELSE IF pc[t] = "list" THEN [op |-> "list"]
  ELSE [op |-> Operation(pc[t]), digest |-> req[t].digest]

LateCall(e) ==
  [op |-> IF e[1] = "rename" THEN "put" ELSE "delete", digest |-> e[2][1]]

Contract ==
  INSTANCE BlobStore WITH blobs <- Blobs, call <- [t \in Tasks |-> CallOf(t)],
    answer <- result, late <- {LateCall(e) : e \in detached}

ContractInit ==
  /\ Init
  /\ must = [t \in Tasks |-> {}]
  /\ may = [t \in Tasks |-> {}]

ContractNext == Next /\ Contract!Watch

ContractSpec == ContractInit /\ [][ContractNext]_contractVars

\* The filesystem store keeps the promise of the trait, step by step, although
\* each of its operations is several file operations that interleave with
\* those of other callers: a put that answers Ok has stored, also when its
\* rename failed; a get finds the whole blob or none; a listing misses nothing
\* that was there all the while; a dropped call acts at most once.
RefinesBlobStore == Contract!Spec

=============================================================================
