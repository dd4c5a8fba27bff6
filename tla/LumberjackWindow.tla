-------------------------- MODULE LumberjackWindow --------------------------
(***************************************************************************)
(* How the Lumberjack server turns decoded frames into windows (crate      *)
(* ferro-lumberjack, server.rs): the accounting of read_window, one frame  *)
(* at a time.  The local variables of a call of read_window are a record;  *)
(* `status` tells whether the call goes on, has returned a window or has   *)
(* failed.                                                                 *)
(*                                                                         *)
(* A frame is a record with its type: W has a count, J has a seq, a        *)
(* payload and the size of the payload, C has the frames that its          *)
(* decompressed bytes decode to, D and A have nothing that is looked at.   *)
(* "bad" among the frames inside C stands for bytes that do not decode.    *)
(***************************************************************************)
EXTENDS Integers, Sequences, SequencesExt

CONSTANTS max_window_events, max_window_bytes

ASSUME WindowAssumption == max_window_events \in Nat /\ max_window_bytes \in Nat

NoWindow == -1    \* window_remaining is None

\* read_window starts with nothing accumulated.
FreshWindow ==
  [status |-> "reading", remaining |-> NoWindow, events |-> <<>>,
   last_seq |-> 0, bytes |-> 0]

Failed(w) == [w EXCEPT !.status = "error"]

\* The window is handed out as soon as its last slot is used.
Complete(w) ==
  IF w.status = "reading" /\ w.remaining = 0 THEN [w EXCEPT !.status = "window"] ELSE w

check_declared_window(count) == count <= max_window_events

\* A second header or a count above the cap fails, a count of zero is a window at
\* once.
OpenWindow(w, count) ==
  IF w.remaining # NoWindow \/ ~check_declared_window(count) THEN Failed(w)
  ELSE IF count = 0 THEN [w EXCEPT !.status = "window"]
  ELSE [w EXCEPT !.remaining = count]

\* Data is taken only into an open slot and only below both caps.
record_event(w, f) ==
  IF \/ w.remaining \in {NoWindow, 0}
     \/ Len(w.events) >= max_window_events
     \/ w.bytes + f.size > max_window_bytes
  THEN Failed(w)
  ELSE [w EXCEPT !.remaining = @ - 1, !.last_seq = f.seq, !.bytes = @ + f.size,
                 !.events = Append(@, [seq |-> f.seq, payload |-> f.payload])]

\* A legacy frame uses a slot and is dropped.
consume_slot(w) ==
  IF w.remaining \in {NoWindow, 0} THEN Failed(w) ELSE [w EXCEPT !.remaining = @ - 1]

\* Inside a compressed batch only data frames are legal.
InnerFrame(w, f) ==
  IF w.status = "error" THEN w
  ELSE CASE f.type = "J" -> record_event(w, f)
         [] f.type = "D" -> consume_slot(w)
         [] OTHER -> Failed(w)

OnFrame(w, f) ==
  CASE f.type = "W" -> OpenWindow(w, f.count)
    [] f.type = "J" -> Complete(record_event(w, f))
    [] f.type = "D" -> Complete(consume_slot(w))
    [] f.type = "C" -> Complete(FoldLeft(InnerFrame, w, f.inner))
    [] OTHER -> Failed(w)

\* The peer closed the stream between two windows (Ok(None)), not inside one.
CleanEof(w) == w.remaining = NoWindow /\ w.events = <<>>

=============================================================================
