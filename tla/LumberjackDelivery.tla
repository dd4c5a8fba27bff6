------------------------- MODULE LumberjackDelivery -------------------------
(***************************************************************************)
(* What Lumberjack promises the sender of events: a batch is handed to the *)
(* receiving application whole, possibly several times, and send_json      *)
(* returns Ok only for a batch that was handed over.  A batch written to a *)
(* stream in which an earlier write was cut off (`cut`) is not covered:    *)
(* the receiver cannot tell where its frames start.                        *)
(***************************************************************************)
EXTENDS Integers

CONSTANTS Batches, MaxBatch

VARIABLES size, result, delivered, cut

vars == <<size, result, delivered, cut>>

Events(b) == {b} \X (1..size[b])

Init ==
  /\ size = [b \in Batches |-> 0]
  /\ result = [b \in Batches |-> "unsent"]
  /\ delivered = {}
  /\ cut = {}

Send(b, n) ==
  /\ result[b] = "unsent"
  /\ result' = [result EXCEPT ![b] = "sending"]
  /\ size' = [size EXCEPT ![b] = n]
  /\ UNCHANGED <<delivered, cut>>

Ok(b) ==
  /\ result[b] = "sending"
  /\ Events(b) \subseteq delivered \/ b \in cut
  /\ result' = [result EXCEPT ![b] = "ok"]
  /\ UNCHANGED <<size, delivered, cut>>

GiveUp(b) ==
  /\ result[b] = "sending"
  /\ \E r \in {"failed", "cancelled"} : result' = [result EXCEPT ![b] = r]
  /\ \E c \in {{}, {b}} : cut' = cut \cup c
  /\ UNCHANGED <<size, delivered>>

\* Also late: after send_json has given up on the batch.
HandOver(b) ==
  /\ result[b] # "unsent"
  /\ delivered' = delivered \cup Events(b)
  /\ UNCHANGED <<size, result, cut>>

HandOverCut ==
  /\ \E E \in SUBSET UNION {Events(b) : b \in cut} : delivered' = delivered \cup E
  /\ UNCHANGED <<size, result, cut>>

Cut(b) ==
  /\ cut' = cut \cup {b}
  /\ UNCHANGED <<size, result, delivered>>

Next ==
  \/ \E b \in Batches :
       (\E n \in 1..MaxBatch : Send(b, n)) \/ Ok(b) \/ GiveUp(b) \/ HandOver(b) \/ Cut(b)
  \/ HandOverCut

Spec == Init /\ [][Next]_vars

=============================================================================
