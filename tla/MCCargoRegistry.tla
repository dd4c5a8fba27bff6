-------------------------- MODULE MCCargoRegistry --------------------------
(* Finite instances for TLC.  `part` picks one of them in the initial state:
   publishes and downloads, publishes, yanks and owner changes, or a text of
   CargoWire. *)
EXTENDS CargoRegistry, SequencesExt

CONSTANTS foo, Foo, bar, foo_key, bar_key, v1, d1

VARIABLES part, text

Wire == INSTANCE CargoWire WITH Radix <- 3, FieldLen <- 2, MAX_NAME_LEN <- 4,
                                Versions <- {"1", "2"}

\* Two spellings of one crate, and another crate.
MCCanonicalName ==
  [n \in Names |-> IF n = bar THEN bar_key ELSE foo_key]

Symmetry == Permutations(Requests) \cup Permutations(Logins)

-----------------------------------------------------------------------------
(* Texts. *)

MaxBody == 7
MaxName == 5

Absent == Wire!Absent
Other == Wire!Other
Manifests ==
  [name: {"foo", "0bad", Absent, Other},
   vers: {"", "1", "2", "bad", Absent, Other},
   version: {"", "1", "bad", Absent, Other},
   cksum: {"", "sum", "wrong", Absent, Other},
   deps: BoundedSeq([name: {"x"}, version_req: {"1"},
                     explicit_name_in_toml: {"x", "y", Absent}], 1)]

IndexFiles == BoundedSeq([vers: {"1", "2"}, yanked: BOOLEAN], 2)

-----------------------------------------------------------------------------
MCInit ==
  /\ Init
  /\ \/ part \in {"publish", "mutate", "body", "name"} /\ text = <<>>
     \/ part = "manifest" /\ text \in Manifests
     \/ part = "poll" /\ text \in [held: BoundedSeq(IndexFiles, 2), current: IndexFiles]

\* Two publishes at once, of two spellings of one crate and of another crate.
Publishing ==
  /\ part = "publish"
  /\ Next
  /\ \A r \in Requests : req'[r].op \in {"publish", "download", "none"}
  /\ UNCHANGED <<part, text>>

\* Everything that changes one version of one crate.
Mutating ==
  /\ part = "mutate"
  /\ Next
  /\ \A r \in Requests :
       /\ req'[r].op \in {"publish", "yank", "owners", "none"}
       /\ req'[r].op # "none" => req'[r].name = foo
       /\ req'[r].op \in {"publish", "yank"} => req'[r].vers = v1
       /\ req'[r].op = "publish" => req'[r].digest = d1
  /\ UNCHANGED <<part, text>>

Lengthen ==
  /\ \/ part = "body" /\ Len(text) < MaxBody /\ \E b \in 0..2 : text' = Append(text, b)
     \/ /\ part = "name" /\ Len(text) < MaxName
        /\ \E c \in Wire!NameChars : text' = Append(text, c)
  /\ UNCHANGED <<vars, part>>

Rest ==
  /\ \/ part \in {"manifest", "poll"}
     \/ part = "body" /\ Len(text) = MaxBody
     \/ part = "name" /\ Len(text) = MaxName
  /\ UNCHANGED <<vars, part, text>>

MCNext == Publishing \/ Mutating \/ Lengthen \/ Rest

MCSpec == MCInit /\ [][MCNext]_<<vars, part, text>>

-----------------------------------------------------------------------------

\* What crosses the wire means the same at both ends: publish bodies
\* (publish.rs), crate names and index paths (name.rs), manifests as index
\* entries (index.rs) and index files polled by their ETag (serve_index).
WireExact ==
  /\ part = "body" => Wire!FramingExact(text)
  /\ part = "name" => Wire!IndexPathFinds(text)
  /\ part = "manifest" => Wire!EntryAsPublished(text, "sum")
  /\ part = "poll" => Wire!PollCurrent(text.held, text.current)

=============================================================================
