------------------------------ MODULE OciNames ------------------------------
(***************************************************************************)
(* The names a request carries: digests (ferro-blob-store, digest.rs),     *)
(* repository names and manifest references (ferro-oci-server,             *)
(* reference.rs).  A text is a sequence of characters; one character       *)
(* stands for each class the code tells apart, the names of the two hash   *)
(* algorithms are single letters of the alphabet, and the lengths the code *)
(* compares with (64, 128, 255) are scaled down to constants.              *)
(***************************************************************************)
EXTENDS Naturals, SequencesExt

CONSTANTS
  HexLen,            \* hex_len, by algorithm
  MAX_NAME_LENGTH,
  MAX_TAG_LENGTH

Algos == {"sha256", "sha512"}
Chars == Algos \cup {"a", "A", "z", "Z", ".", "_", "-", "/", ":"}
HexDigits == {"a", "A"}
Letters == Algos \cup {"a", "A", "z", "Z"}   \* ASCII letters and digits

to_ascii_lowercase(s) ==
  [i \in DOMAIN s |-> CASE s[i] = "A" -> "a" [] s[i] = "Z" -> "z" [] OTHER -> s[i]]

\* The index of the first c, 0 if there is none.
find(s, c) == IF c \in Range(s) THEN SelectInSeq(s, LAMBDA x : x = c) ELSE 0

----------------------------------------------------------------------------
(* digest.rs *)

validate_hex(algo, hex) == Len(hex) = HexLen[algo] /\ Range(hex) \subseteq HexDigits

NotADigest == [algo |-> "none", hex |-> <<>>]

new_digest(algo, hex) ==
  IF validate_hex(algo, hex)
  THEN [algo |-> algo, hex |-> to_ascii_lowercase(hex)]
  ELSE NotADigest

digest_to_string(d) == <<d.algo, ":">> \o d.hex

\* split_once(':'), parse_prefix, new.
parse_digest(s) ==
  LET colon == find(s, ":")
  IN  IF colon = 2 /\ s[1] \in Algos
      THEN new_digest(s[1], SubSeq(s, 3, Len(s)))
      ELSE NotADigest

----------------------------------------------------------------------------
(* reference.rs *)

is_alnum(c) == c \in Algos \cup {"a", "z"}

is_valid_separator(s) ==
  \/ s \in {<<".">>, <<"_">>, <<"_", "_">>}
  \/ s # <<>> /\ Range(s) = {"-"}

\* The runs of characters that are not alphanumeric, as pairs of indexes.
SeparatorRuns(c) ==
  {r \in (DOMAIN c) \X (DOMAIN c) :
     /\ r[1] <= r[2]
     /\ \A i \in r[1]..r[2] : ~is_alnum(c[i])
     /\ r[1] = 1 \/ is_alnum(c[r[1] - 1])
     /\ r[2] = Len(c) \/ is_alnum(c[r[2] + 1])}

validate_component(c) ==
  /\ c # <<>>
  /\ is_alnum(c[1])
  /\ is_alnum(c[Len(c)])
  /\ \A r \in SeparatorRuns(c) : is_valid_separator(SubSeq(c, r[1], r[2]))

\* split('/'): from each start of a component to the next slash.
Components(s) ==
  LET Starts == {1} \cup {i + 1 : i \in {j \in DOMAIN s : s[j] = "/"}}
      End(i) == CHOOSE e \in (i - 1)..Len(s) :
                  /\ e = Len(s) \/ s[e + 1] = "/"
                  /\ \A j \in i..e : s[j] # "/"
  IN  {SubSeq(s, i, End(i)) : i \in Starts}

validate_name(s) ==
  /\ s # <<>>
  /\ Len(s) <= MAX_NAME_LENGTH
  /\ \A c \in Components(s) : validate_component(c)

is_valid_tag(s) ==
  /\ s # <<>>
  /\ Len(s) <= MAX_TAG_LENGTH
  /\ s[1] \in Letters \cup {"_"}
  /\ \A i \in 2..Len(s) : s[i] \in Letters \cup {"_", ".", "-"}

NoReference == [kind |-> "invalid"]

\* Reference::from_str: a text with a colon is a digest or nothing.
from_str(s) ==
  IF find(s, ":") # 0
  THEN IF parse_digest(s) # NotADigest
       THEN [kind |-> "digest", digest |-> parse_digest(s)]
       ELSE NoReference
  ELSE IF is_valid_tag(s) THEN [kind |-> "tag", tag |-> s] ELSE NoReference

\* Reference::fmt
reference_to_string(r) ==
  IF r.kind = "tag" THEN r.tag ELSE digest_to_string(r.digest)

----------------------------------------------------------------------------
(* Reference definitions *)

Runs(S, n) == UNION {[1..k -> S] : k \in 1..n}

\* What may follow an alphanumeric character by the grammar of the comment,
\* [a-z0-9]+(?:(?:(?:[._]|__|[-]*)[a-z0-9]+)+)?
RECURSIVE Continues(_)
Continues(c) ==
  \/ c = <<>>
  \/ is_alnum(c[1]) /\ Continues(Tail(c))
  \/ \E k \in 1..(Len(c) - 1) :
       /\ SubSeq(c, 1, k) \in {<<".">>, <<"_">>, <<"_", "_">>} \cup Runs({"-"}, k)
       /\ is_alnum(c[k + 1])
       /\ Continues(SubSeq(c, k + 2, Len(c)))

InGrammar(c) == c # <<>> /\ is_alnum(c[1]) /\ Continues(Tail(c))

\* Parts joined by single slashes, each in the grammar.
RECURSIVE NameGrammar(_)
NameGrammar(s) ==
  \/ InGrammar(s)
  \/ \E i \in DOMAIN s :
       /\ s[i] = "/"
       /\ InGrammar(SubSeq(s, 1, i - 1))
       /\ NameGrammar(SubSeq(s, i + 1, Len(s)))

----------------------------------------------------------------------------
(* Properties *)

\* validate_name accepts exactly the names of the grammar its comment quotes
\* (reference.rs:52-57), one scan of separator runs against the regular
\* expression.
NamesAsGrammar(s) ==
  validate_name(s) <=> NameGrammar(s) /\ Len(s) <= MAX_NAME_LENGTH

\* Parsing and printing a reference are inverse up to the case of hex digits:
\* what from_str accepts prints to a text that from_str reads as the same
\* reference, texts that differ in case only name one digest, and no tag
\* prints like a digest.
ReferencesCanonical(s) ==
  from_str(s) # NoReference =>
    LET r == from_str(s)
        t == reference_to_string(r)
    IN  /\ from_str(t) = r
        /\ r.kind = "tag" => t = s
        /\ r.kind = "digest" =>
             t = to_ascii_lowercase(s) /\ ~is_valid_tag(t)

=============================================================================
