------------------------- MODULE MCOciRegistryMeta -------------------------
(* Finite instances for TLC.  `part` picks one of them in the initial state:
   the writers of OciRegistryMeta with their faults, the readers of OciReads, a
   text of OciNames or a path of OciRouting. *)
EXTENDS OciReads, TLC

CONSTANTS img, idx, sig, b1, empty, latest, old, new, app, other

VARIABLES part, text

MCHexLen == [algo \in {"sha256", "sha512"} |-> IF algo = "sha256" THEN 2 ELSE 3]

N == INSTANCE OciNames WITH HexLen <- MCHexLen, MAX_NAME_LENGTH <- 4, MAX_TAG_LENGTH <- 3
R == INSTANCE OciRouting

\* An image with one layer, an index of it that also has it as subject, and a
\* signature of it.
MCLayers == [d \in Digests |-> IF d = img THEN {b1} ELSE {empty}]
MCChildren == [d \in Digests |-> IF d = idx THEN {img} ELSE {}]
MCSubject == [d \in Digests |-> IF d = img THEN NoDigest ELSE img]

\* The signature has a type of its own, the index only that of its config.
MCArtifactType == [d \in Digests |-> IF d = sig THEN "signature" ELSE ""]
MCConfigType == [d \in Digests |-> IF d = sig THEN "empty" ELSE "config"]

Push(reference, digest, media_type) ==
  [reference |-> reference, digest |-> digest, media_type |-> media_type]

\* By tag, by digest, under a wrong digest, and as what it is not.
MCWritten == {Push(latest, img, "image"), Push(latest, idx, "index"),
              Push(sig, sig, "image"), Push(img, sig, "image"),
              Push(img, img, "index")}
MCRead == {Push(t, d, "image") : t \in Tags, d \in {img, sig}}
MCPushes == MCWritten \cup MCRead

MCRank == [k \in Tags \cup Names |-> CASE k \in {latest, other} -> 1 [] k \in {new, app} -> 2
                                       [] k = old -> 3]
MCSize == [d \in Digests |-> IF d = img THEN 3 ELSE 2]

\* Texts of one character more than the longest name.
MaxText == 5

\* Segments that are, begin with or end in what split_rest looks for.
Segments == {<<"a">>, <<"blobs">>, <<"manifests">>, <<"tags">>, <<"list">>, <<"uploads">>,
             <<"x", "blobs">>, <<"x", "tags">>, <<"list", "x">>}
Paths == [name: UNION {[1..k -> Segments] : k \in 1..3}, arg: Segments \cup {<<>>}]

MCInit ==
  /\ ReadInit
  /\ \/ part \in {"writers", "readers", "names"} /\ text = <<>>
     \/ part = "paths" /\ text \in Paths

Writers ==
  /\ part = "writers"
  /\ Next
  /\ \A r \in Requests :
       /\ req'[r].op # "none" => req'[r].name = app
       /\ pc[r] = "idle" /\ pc'[r] = "verify" =>
            \E p \in MCWritten : p.reference = req'[r].reference /\ p.digest = req'[r].digest
                                 /\ p.media_type = req'[r].media_type
  /\ UNCHANGED <<part, text, readVars>>

Readers ==
  /\ part = "readers"
  /\ ReadNext
  /\ \A n \in Names : Stored(repos'[n]) \subseteq {img, sig}
  /\ UNCHANGED <<part, text>>

Lengthen ==
  /\ part = "names" /\ Len(text) < MaxText
  /\ \E c \in N!Chars : text' = Append(text, c)
  /\ UNCHANGED <<vars, readVars, part>>

Rest ==
  /\ part = "paths" \/ (part = "names" /\ Len(text) = MaxText)
  /\ UNCHANGED <<vars, readVars, part, text>>

MCNext == Writers \/ Readers \/ Lengthen \/ Rest

MCSpec == MCInit /\ [][MCNext]_<<vars, readVars, part, text>>

\* A name or reference is read as its grammar says and is the same after
\* printing and reading it again (validate_name, from_str); a request reaches
\* the handler of its endpoint with the repository's name, and is counted there
\* (split_rest, dispatch_inner, handler_for).
AddressesExact ==
  /\ part = "names" => N!NamesAsGrammar(text) /\ N!ReferencesCanonical(text)
  /\ part = "paths" => /\ R!RoutedToRepository(text.name, text.arg)
                       /\ R!CountedAsServed(text.name, text.arg)

Symmetry == Permutations(Requests)
=============================================================================
