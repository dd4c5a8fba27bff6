----------------------------- MODULE CargoWire ------------------------------
(***************************************************************************)
(* What crosses the wire of the cargo registry (ferro-cargo-registry-      *)
(* server): the framed publish body (publish.rs), the checks of            *)
(* handle_publish before the lock and the translation of a manifest into   *)
(* an index entry (handlers.rs, index.rs), crate names and index paths     *)
(* (name.rs, router.rs), and the ETag of an index file (handlers.rs).      *)
(* CargoRegistry.tla starts where this module ends, with a checked entry.  *)
(***************************************************************************)
EXTENDS Naturals, SequencesExt

CONSTANTS
  Radix,         \* 256 in the code: a byte is a digit below Radix
  FieldLen,      \* 4 in the code: the bytes of a u32
  MAX_NAME_LEN,  \* 64 in the code
  Versions       \* what is_valid_semver accepts

----------------------------------------------------------------------------
(* publish.rs *)

\* External: serde_json; a byte 0 does not begin a value, nor does nothing.
IsJson(bytes) == bytes # <<>> /\ bytes[1] # 0

to_le_bytes(n) == [i \in 1..FieldLen |-> (n \div Radix^(i - 1)) % Radix]
from_le_bytes(bytes) == FoldRight(LAMBDA b, n : n * Radix + b, bytes, 0)

InvalidPublish == [kind |-> "invalid"]

\* The bytes of a length-prefixed field at the start of body, and what follows.
Framed(body) ==
  LET len == from_le_bytes(SubSeq(body, 1, FieldLen))
      rest == SubSeq(body, FieldLen + 1, Len(body))
  IN  IF Len(body) < FieldLen \/ Len(rest) < len THEN InvalidPublish
      ELSE [kind |-> "field", bytes |-> SubSeq(rest, 1, len),
            rest |-> SubSeq(rest, len + 1, Len(rest))]

\* The second length is read where the first field began.
Mut_parse_publish(body) ==
  LET metadata == Framed(body)
      tarball == Framed(SubSeq(body, FieldLen + 1, Len(body)))
  IN  IF metadata = InvalidPublish \/ ~IsJson(metadata.bytes) \/ tarball = InvalidPublish
      THEN InvalidPublish
      ELSE [kind |-> "publish", manifest |-> metadata.bytes, tarball |-> tarball.bytes]

\* publish::parse; what follows the tarball is ignored.
parse_publish(body) ==
  LET metadata == Framed(body)
      tarball == Framed(metadata.rest)
  IN  IF metadata = InvalidPublish \/ ~IsJson(metadata.bytes) \/ tarball = InvalidPublish
      THEN InvalidPublish
      ELSE [kind |-> "publish", manifest |-> metadata.bytes, tarball |-> tarball.bytes]

\* publish::encode
encode(manifest, tarball) ==
  to_le_bytes(Len(manifest)) \o manifest \o to_le_bytes(Len(tarball)) \o tarball

----------------------------------------------------------------------------
(* name.rs; a name is a sequence of characters *)

Lowers == {"a", "b"}
Uppers == {"A", "B"}
NameChars == Lowers \cup Uppers \cup {"0", "-", "_"}

is_valid_name(name) ==
  /\ name # <<>> /\ Len(name) <= MAX_NAME_LEN
  /\ name[1] \in Lowers \cup Uppers
  /\ \A i \in 2..Len(name) : name[i] \in NameChars

to_ascii_lowercase(name) ==
  [i \in DOMAIN name |->
     CASE name[i] = "A" -> "a" [] name[i] = "B" -> "b" [] OTHER -> name[i]]

canonical_form(name) ==
  LET lower == to_ascii_lowercase(name)
  IN  [i \in DOMAIN lower |-> IF lower[i] = "-" THEN "_" ELSE lower[i]]

names_collide(a, b) == canonical_form(a) = canonical_form(b)

\* The segments of the path, digits as in "1/{name}".
index_path(name) ==
  LET lower == to_ascii_lowercase(name)
  IN  CASE Len(lower) = 0 -> <<>>
        [] Len(lower) = 1 -> <<<<"1">>, lower>>
        [] Len(lower) = 2 -> <<<<"2">>, lower>>
        [] Len(lower) = 3 -> <<<<"3">>, SubSeq(lower, 1, 1), lower>>
        [] OTHER -> <<SubSeq(lower, 1, 2), SubSeq(lower, 3, 4), lower>>

\* The crate that a GET of these segments looks up: handle_sparse_index under
\* /index/, handle_sparse_index_root2 and _root3 without it, NotFound else.
\* extract_name_from_index_path takes what follows the last slash.
IndexFile(path) ==
  LET prefixed == path # <<>> /\ path[1] = <<"index">>
  IN  IF Len(path) >= 2 /\ (prefixed \/ Len(path) <= 3) /\ Last(path) # <<>>
      THEN canonical_form(Last(path))
      ELSE <<"NotFound">>

----------------------------------------------------------------------------
(* index.rs, and handle_publish up to the lock.  A JSON value of a manifest *)
(* is a string, Absent or Other (a value of another type).                  *)

Absent == "absent"
Other == "other"

IsStr(v) == v \notin {Absent, Other}

into_index_dep(dep) ==
  LET renamed == dep.explicit_name_in_toml \notin {Absent, dep.name}
  IN  [name |-> IF renamed THEN dep.explicit_name_in_toml ELSE dep.name,
       req |-> dep.version_req,
       package |-> IF renamed THEN dep.name ELSE Absent]

\* serde: an absent vers or version is the empty text, another type an error.
StrOrEmpty(v) == IF v = Absent THEN "" ELSE v

into_index_entry(manifest, cksum) ==
  [name |-> manifest.name,
   vers |-> IF StrOrEmpty(manifest.vers) = "" THEN StrOrEmpty(manifest.version)
            ELSE manifest.vers,
   deps |-> [i \in DOMAIN manifest.deps |-> into_index_dep(manifest.deps[i])],
   cksum |-> cksum, yanked |-> FALSE]

Rejected(why) == [kind |-> "rejected", why |-> why]

\* handle_publish before the write lock; cksum is the hash of the tarball.
CheckedEntry(manifest, cksum) ==
  LET vers == IF manifest.vers # Absent THEN manifest.vers ELSE manifest.version
  IN  IF ~IsStr(manifest.name) THEN Rejected("InvalidPublish")
      ELSE IF manifest.name = "0bad" THEN Rejected("InvalidName")
      ELSE IF ~IsStr(vers) THEN Rejected("InvalidPublish")
      ELSE IF vers \notin Versions THEN Rejected("InvalidVersion")
      ELSE IF manifest.cksum \notin {Absent, Other, "", cksum}
           THEN Rejected("ChecksumMismatch")
      ELSE IF Other \in {manifest.vers, manifest.version} THEN Rejected("InvalidPublish")
      ELSE [kind |-> "entry", entry |-> into_index_entry(manifest, cksum),
            checked |-> vers]

----------------------------------------------------------------------------
(* serve_index.  The body of an index file is the sequence of its entries,  *)
(* one line each (render_lines), and its ETag is that body's hash.          *)

sparse_index_etag(body) == [weak |-> FALSE, star |-> FALSE, of |-> body]
Star == [weak |-> FALSE, star |-> TRUE, of |-> <<>>]

\* Each candidate of the header is compared without its W/ prefix.
etag_matches(if_none_match, etag) ==
  \/ if_none_match = <<Star>>
  \/ \E i \in DOMAIN if_none_match : [if_none_match[i] EXCEPT !.weak = FALSE] = etag

serve_index(body, if_none_match) ==
  LET etag == sparse_index_etag(body)
  IN  IF etag_matches(if_none_match, etag) THEN [status |-> 304, etag |-> etag]
      ELSE [status |-> 200, etag |-> etag, body |-> body]

----------------------------------------------------------------------------
(* Properties *)

\* publish::parse is the inverse of the framing: a body is accepted exactly
\* when it begins with the frame of some manifest and tarball, and then it is
\* read as these two, at every length, also 0 and one byte short.
FramingExact(body) ==
  LET n == Len(body)
      Sub == {SubSeq(body, i, j) : i \in 1..(n + 1), j \in 0..n}
      Frames == {p \in Sub \X Sub : IsJson(p[1]) /\ IsPrefix(encode(p[1], p[2]), body)}
      r == parse_publish(body)
  IN  IF r = InvalidPublish THEN Frames = {} ELSE Frames = {<<r.manifest, r.tarball>>}

\* A crate published as `name` is found at the path cargo computes for it,
\* with the index under /index/ or at the root, in any spelling; no path serves
\* two crates that do not collide, and colliding names have equal length and
\* differ in case and in - against _ only ("Whether two crate names collide").
IndexPathFinds(name) ==
  is_valid_name(name) =>
    /\ IndexFile(index_path(name)) = canonical_form(name)
    /\ IndexFile(<<<<"index">>>> \o index_path(name)) = canonical_form(name)
    /\ \A i \in DOMAIN name, c \in NameChars :
         LET other == [name EXCEPT ![i] = c]
             same == \/ c = name[i] \/ {c, name[i]} = {"-", "_"}
                     \/ {c, name[i]} \in {{"a", "A"}, {"b", "B"}}
         IN  /\ names_collide(name, other) <=> same
             /\ index_path(name) = index_path(other) => same

\* An entry that gets into the index carries the version that was checked, the
\* checksum of the tarball itself, and dependencies that resolve to the crate
\* and the alias that the manifest named (entry_from_manifest after the checks
\* of handle_publish read the same JSON in two different ways).
EntryAsPublished(manifest, cksum) ==
  LET r == CheckedEntry(manifest, cksum)
  IN  r.kind = "entry" =>
        /\ r.entry.vers = r.checked /\ r.entry.vers \in Versions
        /\ r.entry.cksum = cksum /\ manifest.cksum \in {Absent, Other, "", cksum}
        /\ \A i \in DOMAIN manifest.deps :
             LET dep == manifest.deps[i]
                 indexed == r.entry.deps[i]
             IN  /\ dep.name = IF indexed.package = Absent THEN indexed.name
                               ELSE indexed.package
                 /\ indexed.name = IF dep.explicit_name_in_toml = Absent THEN dep.name
                                   ELSE dep.explicit_name_in_toml

\* A client that polls with the ETags of the bodies it holds, plain or weak, is
\* told 304 exactly if one of them is current and else gets the current body,
\* whatever changed (serve_index, etag_matches).
PollCurrent(held, current) ==
  \A weak \in BOOLEAN :
    LET r == serve_index(current, [i \in DOMAIN held |->
               [sparse_index_etag(held[i]) EXCEPT !.weak = weak]])
    IN  IF current \in Range(held) THEN r.status = 304
        ELSE r.status = 200 /\ r.body = current

=============================================================================
