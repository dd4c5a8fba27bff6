---------------------------- MODULE MCLumberjack ----------------------------
(* Small instances for TLC.  `part` picks one of them in the initial state: the
   client and its servers, or the bytes of one connection. *)
EXTENDS Lumberjack

VARIABLES part, script, input, buf, read_pos, window, windows, status

connVars == <<script, input, buf, read_pos, window, windows, status>>

Mixed == {[hosts |-> 2, load_balance |-> FALSE], [hosts |-> 3, load_balance |-> TRUE]}

-----------------------------------------------------------------------------
(* Scripts of the peer. *)

J(s, p) == [type |-> "J", seq |-> s, payload |-> p, size |-> Len(p)]
Legacy1 == [type |-> "D", seq |-> 5, pairs |-> <<<<2>>, <<>>>>]
Batch(fs) == [type |-> "C", inner |-> fs]
Bad(bytes) == [type |-> "bad", bytes |-> bytes]

\* Payload bytes that look like the start of a frame; windows at and above the
\* caps; compressed batches at, below and above what their window has left.
Good ==
  {[type |-> "W", count |-> n] : n \in 0..3}
  \cup {J(9, <<2>>), J(1, <<2, 5>>), Legacy1, [type |-> "A", seq |-> 9]}
  \cup {Batch(fs) : fs \in {<<>>, <<J(9, <<2>>)>>, <<J(9, <<2>>), J(1, <<>>)>>,
                            <<J(1, <<>>), Legacy1>>, <<[type |-> "W", count |-> 1]>>}}

\* A wrong version, an unknown type, a length above the cap, bytes that do not
\* inflate, and bytes that inflate to more than the cap.
Malformed5 ==
  {Bad(<<0, 3>>), Bad(<<2, 0>>), Bad(<<2, 5, 0, 1, 7, 7>>), Bad(<<2, 6, 0, 1, 1>>),
   Bad(<<2, 6, 1, 4, 7, 0, 7, 0, 7, 0, 7, 0, 7, 0, 7, 0>>)}

AllScripts ==
  {[whole |-> fs, part |-> f, cut |-> 0] :
     fs \in BoundedSeq(Good, 2), f \in Good \cup Malformed5}
  \cup {[whole |-> fs, part |-> f, cut |-> n] :
          fs \in BoundedSeq(Good, 2), f \in {J(1, <<2, 5>>), Legacy1}, n \in {1, 4}}

Codec == INSTANCE LumberjackCodec WITH
  Radix <- 8, FieldLen <- 2, max_frame_payload <- 36, ReadSizes <- {1, 2, 5},
  Scripts <- AllScripts

-----------------------------------------------------------------------------

MCInit == Init /\ Codec!Init /\ part \in {"hosts", "bytes"}
          /\ (part = "hosts" => script = CHOOSE s \in AllScripts : TRUE)
          /\ (part = "bytes" => config = CHOOSE g \in Configs : TRUE)

MCNext ==
  \/ part = "hosts" /\ Next /\ UNCHANGED <<part, connVars>>
  \/ part = "bytes" /\ Codec!Next /\ UNCHANGED <<part, vars>>

MCSpec ==
  /\ MCInit
  /\ [][MCNext]_<<vars, connVars, part>>
  /\ WF_vars(part = "hosts" /\ SendStep)

\* The server gets out of the bytes the windows that the peer sent, within its
\* caps, however the bytes arrive (FrameDecoder, read_window).
WindowsExact == Codec!WindowsAsSent /\ Codec!WindowWithinCaps

=============================================================================
