---------------------------- MODULE MavenLayout -----------------------------
(***************************************************************************)
(* The texts of the Maven repository (ferro-maven-layout): coordinates and *)
(* their paths (coordinate.rs, layout.rs), the keys under which generated  *)
(* metadata is cached and looked up (handlers.rs, snapshot.rs), the        *)
(* maven-metadata.xml and POM documents (metadata.rs, pom.rs) and checksum *)
(* sidecars (checksum.rs).  MavenRepository.tla starts with parsed paths.  *)
(*                                                                         *)
(* A text is a sequence of pieces.  Single pieces stand for the characters *)
(* the code looks for, for a letter "a", a digit "1", and for the words    *)
(* the code knows.  A path is the sequence of the texts between slashes.   *)
(***************************************************************************)
EXTENDS Naturals, SequencesExt

CONSTANT HexLen   \* ChecksumAlgo::hex_len, by algorithm, scaled down

Algos == {"md5", "sha1", "sha256", "sha512"}
Digits == {"1"}
Illegal == {":", "\\"}

HasPrefix(s, p) == Len(p) <= Len(s) /\ SubSeq(s, 1, Len(p)) = p
HasSuffix(s, p) == Len(p) <= Len(s) /\ SubSeq(s, Len(s) - Len(p) + 1, Len(s)) = p
StripPrefix(s, p) == SubSeq(s, Len(p) + 1, Len(s))
StripSuffix(s, p) == SubSeq(s, 1, Len(s) - Len(p))
rfind(s, c) == Max({i \in DOMAIN s : s[i] = c} \cup {0})

\* Split at every c; the parts may be empty.
Split(s, c) ==
  FoldLeft(LAMBDA parts, x : IF x = c THEN Append(parts, <<>>)
                             ELSE [parts EXCEPT ![Len(parts)] = Append(@, x)],
           <<<<>>>>, s)
Join(parts, c) ==
  FoldLeft(LAMBDA s, i : IF i = 1 THEN parts[1] ELSE s \o <<c>> \o parts[i],
           <<>>, [i \in DOMAIN parts |-> i])

----------------------------------------------------------------------------
(* coordinate.rs, snapshot.rs *)

None == <<"none">>
Invalid == [class |-> "InvalidPath"]

validate_field(s) ==
  s \notin {<<>>, <<".">>, <<".", ".">>} /\ Range(s) \cap Illegal = {}

\* Coordinate::new
Valid(c) ==
  /\ \A f \in {c.group_id, c.artifact_id, c.version, c.extension} : validate_field(f)
  /\ c.classifier # None => validate_field(c.classifier)

group_path(c) == Split(c.group_id, ".")

filename(c) ==
  c.artifact_id \o <<"-">> \o c.version
    \o (IF c.classifier = None THEN <<>> ELSE <<"-">> \o c.classifier)
    \o <<".">> \o c.extension

repository_path(c) == group_path(c) \o <<c.artifact_id, c.version, filename(c)>>

is_snapshot_version(v) == HasSuffix(v, <<"-", "SNAPSHOT">>)
strip_snapshot(v) == IF is_snapshot_version(v) THEN StripSuffix(v, <<"-", "SNAPSHOT">>) ELSE v

----------------------------------------------------------------------------
(* layout.rs *)

COMPOUND == {<<"tar", ".", "gz">>, <<"tar", ".", "bz2">>}

\* The stem and, if the last extension is one, the checksum algorithm.
strip_checksum_suffix(name) ==
  LET dot == rfind(name, ".")
      ext == SubSeq(name, dot + 1, Len(name))
  IN  IF dot > 0 /\ \E a \in Algos : ext = <<a>>
      THEN [stem |-> SubSeq(name, 1, dot - 1), algo |-> ext[1]]
      ELSE [stem |-> name, algo |-> "none"]

\* A compound extension is not recognised.
Mut_split_classifier_and_extension(tail) ==
  LET dot == rfind(tail, ".")
  IN  IF dot \in {0, 1, Len(tail)} THEN Invalid
      ELSE [classifier |-> SubSeq(tail, 1, dot - 1),
            extension |-> SubSeq(tail, dot + 1, Len(tail))]

split_classifier_and_extension(tail) ==
  LET fits(c) == HasSuffix(tail, <<".">> \o c) /\ Len(tail) > Len(c) + 1
      dot == rfind(tail, ".")
  IN  IF \E c \in COMPOUND : fits(c)
      THEN LET c == CHOOSE x \in COMPOUND : fits(x)
           IN  [classifier |-> StripSuffix(tail, <<".">> \o c), extension |-> c]
      ELSE IF dot \in {0, 1, Len(tail)} THEN Invalid
      ELSE [classifier |-> SubSeq(tail, 1, dot - 1),
            extension |-> SubSeq(tail, dot + 1, Len(tail))]

split_filename(artifact_id, version, name) ==
  LET prefix == artifact_id \o <<"-">> \o version
      rest == StripPrefix(name, prefix)
  IN  IF ~HasPrefix(name, prefix) \/ rest = <<>> THEN Invalid
      ELSE CASE rest[1] = "-" -> split_classifier_and_extension(Tail(rest))
             [] rest[1] = "." -> [classifier |-> None, extension |-> Tail(rest)]
             [] OTHER -> Invalid

Coordinate(g, a, v, cl, ext) ==
  [group_id |-> Join(g, "."), artifact_id |-> a, version |-> v,
   classifier |-> cl, extension |-> ext]

Parsed(c, class) == IF Valid(c) THEN [class |-> class, coordinate |-> c] ELSE Invalid

maven_metadata_suffix(name) ==
  /\ name # <<>> /\ name[1] = "maven-metadata.xml"
  /\ Len(name) = 1 \/ (Len(name) = 3 /\ name[2] = "." /\ name[3] \in Algos)

\* dirs: what is before the file name.  A directory with a digit in its name is
\* taken for a version.
classify_metadata(dirs) ==
  LET n == Len(dirs)
      version_level == Range(dirs[n]) \cap Digits # {}
  IN  IF version_level /\ n >= 3
      THEN Parsed(Coordinate(SubSeq(dirs, 1, n - 2), dirs[n - 1], dirs[n], None, <<"pom">>),
                  "version metadata")
      ELSE Parsed(Coordinate(SubSeq(dirs, 1, n - 1), dirs[n], <<"index">>, None, <<"pom">>),
                  "artifact metadata")

parse_layout_path(path) ==
  LET s == SelectSeq(path, LAMBDA x : x # <<>>)
      n == Len(s)
      stripped == strip_checksum_suffix(s[n])
      split == split_filename(s[n - 2], s[n - 1], stripped.stem)
  IN  IF n < 3 THEN Invalid
      ELSE IF maven_metadata_suffix(s[n]) THEN classify_metadata(SubSeq(s, 1, n - 1))
      ELSE IF n < 4 \/ split = Invalid THEN Invalid
      ELSE Parsed(Coordinate(SubSeq(s, 1, n - 3), s[n - 2], s[n - 1],
                             split.classifier, split.extension),
                  IF stripped.algo = "none" THEN "Artifact" ELSE stripped.algo)

----------------------------------------------------------------------------
(* handlers.rs: the metadata cache is keyed by group path, artifact and base *)

MetadataKey(c, base) == <<group_path(c), c.artifact_id, base>>

\* What a PUT of an artifact caches: regenerate_artifact_index and, for a
\* snapshot, register_snapshot_timestamped.
Generated(c) ==
  {MetadataKey(c, None)}
    \cup (IF is_snapshot_version(c.version)
          THEN {MetadataKey(c, strip_snapshot(c.version))} ELSE {})

\* The key that serve looks up for a path classified as metadata.
load_metadata_xml(layout) ==
  MetadataKey(layout.coordinate,
              IF layout.class = "version metadata"
              THEN strip_snapshot(layout.coordinate.version) ELSE None)

----------------------------------------------------------------------------
(* metadata.rs.  A document is a sequence of tags and escaped texts.         *)

Entity == ("&" :> "amp;") @@ ("<" :> "lt;") @@ (">" :> "gt;")

Replace(s, c, by) ==
  FlattenSeq([i \in DOMAIN s |-> IF s[i] = c THEN <<"&", by>> ELSE <<s[i]>>])

\* The ampersand goes last.
Mut_escape(s) ==
  Replace(Replace(Replace(s, "<", "lt;"), ">", "gt;"), "&", "amp;")

escape(s) == Replace(Replace(Replace(s, "&", "amp;"), "<", "lt;"), ">", "gt;")

\* External (quick-xml): entities are resolved from left to right.
Unescape(s) ==
  LET step(acc, x) ==
        IF acc # <<>> /\ Last(acc) = "&?" /\ x \in Range(Entity)
        THEN Append(Front(acc), CHOOSE c \in DOMAIN Entity : Entity[c] = x)
        ELSE Append(acc, IF x = "&" THEN "&?" ELSE x)
  IN  FoldLeft(step, <<>>, s)

\* An optional element, and an element for each text of a list.
Element(tag, s) == IF s = None THEN <<>> ELSE <<[tag |-> tag, text |-> escape(s)]>>
Elements(tag, list) ==
  FlattenSeq([i \in DOMAIN list |-> Element(tag, list[i])])

artifact_index(g, a, versions) ==
  LET Releases == {i \in DOMAIN versions : ~is_snapshot_version(versions[i])}
  IN  [group_id |-> g, artifact_id |-> a, version |-> None,
       release |-> IF Releases = {} THEN None ELSE versions[Max(Releases)],
       latest |-> IF versions = <<>> THEN None ELSE Last(versions),
       versions |-> versions, snapshot |-> None, snapshot_versions |-> <<>>]

snapshot_metadata(g, a, version, snapshot, snapshot_versions) ==
  [group_id |-> g, artifact_id |-> a, version |-> version, release |-> None,
   latest |-> None, versions |-> <<>>, snapshot |-> snapshot,
   snapshot_versions |-> snapshot_versions]

to_xml(m) ==
  Element("groupId", m.group_id) \o Element("artifactId", m.artifact_id)
    \o Element("version", m.version) \o Element("release", m.release)
    \o Element("latest", m.latest) \o Element("snapshot", m.snapshot)
    \o Elements("versions/version", m.versions)
    \o Elements("snapshotVersion", m.snapshot_versions)

\* An absent groupId or artifactId is refused, an absent list is empty.
from_xml(doc) ==
  LET texts(tag) == LET es == SelectSeq(doc, LAMBDA e : e.tag = tag)
                    IN  [i \in DOMAIN es |-> Unescape(es[i].text)]
      option(tag) == IF texts(tag) = <<>> THEN None ELSE texts(tag)[1]
  IN  IF {option("groupId"), option("artifactId")} \cap {None, <<>>} # {}
      THEN Invalid
      ELSE [group_id |-> option("groupId"), artifact_id |-> option("artifactId"),
            version |-> option("version"), release |-> option("release"),
            latest |-> option("latest"), versions |-> texts("versions/version"),
            snapshot |-> option("snapshot"), snapshot_versions |-> texts("snapshotVersion")]

----------------------------------------------------------------------------
(* pom.rs, and the check of put_artifact *)

\* A missing groupId or version is the parent's; an absent one of the parent is
\* empty, and an empty one is refused.
parse_pom(raw) ==
  LET parent == [group_id |-> IF raw.parent.group_id = None THEN <<>>
                              ELSE raw.parent.group_id,
                 version |-> IF raw.parent.version = None THEN <<>>
                             ELSE raw.parent.version]
      own(f) == IF raw[f] = None THEN parent[f] ELSE raw[f]
      pom == [group_id |-> own("group_id"), version |-> own("version"),
              artifact_id |-> IF raw.artifact_id = None THEN <<>> ELSE raw.artifact_id]
  IN  IF <<>> \in {pom[f] : f \in DOMAIN pom} THEN Invalid ELSE pom

PomAccepted(raw, c) ==
  LET pom == parse_pom(raw)
  IN  /\ pom # Invalid
      /\ \A f \in {"group_id", "artifact_id", "version"} : pom[f] = c[f]

----------------------------------------------------------------------------
(* checksum.rs: a sidecar; "f" and "F" are hex digits *)

Lower(s) == [i \in DOMAIN s |-> IF s[i] = "F" THEN "f" ELSE s[i]]

\* lines().next() and trim, then split_whitespace().next()
FirstToken(body) ==
  LET line == Split(body, "\n")[1]
      words == SelectSeq(Split(line, " "), LAMBDA w : w # <<>>)
  IN  IF words = <<>> THEN <<>> ELSE words[1]

parse_sidecar(algo, body) ==
  LET hex == Lower(FirstToken(body))
  IN  IF Len(hex) = HexLen[algo] /\ Range(hex) \subseteq {"f", "1"} THEN hex ELSE Invalid

----------------------------------------------------------------------------
(* Properties *)

\* A coordinate whose file name reads one way only: an extension with a dot
\* needs to be a compound one once there is a classifier, the classifier must
\* not contain the start of one, the extension is not that of a sidecar, and
\* no part of the group is empty.
Unambiguous(c) ==
  /\ strip_checksum_suffix(filename(c)).algo = "none"
  /\ <<>> \notin Range(group_path(c))
  /\ c.classifier # None =>
       /\ "." \notin Range(c.extension) \/ c.extension \in COMPOUND
       /\ \A x \in COMPOUND : x # c.extension =>
            ~HasSuffix(c.classifier \o <<".">> \o c.extension, <<".">> \o x)

\* The file of a coordinate and its sidecars are parsed back to exactly that
\* coordinate, so that no two coordinates share a file (repository_path and
\* parse_layout_path, which recovers the classifier from the version).
LayoutRoundTrip(c) ==
  Valid(c) /\ Unambiguous(c) =>
    LET path == repository_path(c)
        n == Len(path)
    IN  /\ parse_layout_path(path) = [class |-> "Artifact", coordinate |-> c]
        /\ \A a \in Algos :
             parse_layout_path([path EXCEPT ![n] = @ \o <<".", a>>])
               = [class |-> a, coordinate |-> c]

Under(dirs) == Append(dirs, <<"maven-metadata.xml">>)

\* What a PUT generates is what a GET of the maven-metadata.xml beside the
\* artifact, or beside the snapshot, looks up, as long as an artifact's name
\* has no digit, or a one-part group, and a snapshot's version has one.
MetadataServed(c) ==
  Valid(c) /\ Unambiguous(c) =>
    LET artifact == group_path(c) \o <<c.artifact_id>>
        snapshot == Append(artifact, c.version)
    IN  /\ Range(c.artifact_id) \cap Digits = {} \/ Len(artifact) < 3 =>
             load_metadata_xml(parse_layout_path(Under(artifact))) \in Generated(c)
        /\ is_snapshot_version(c.version) /\ Range(c.version) \cap Digits # {} =>
             load_metadata_xml(parse_layout_path(Under(snapshot))) \in Generated(c)

\* "Whether the metadata path is under a `version/` directory (true = SNAPSHOT
\* timestamp metadata, false = artifact index)" (layout.rs:40-41): for every
\* artifact the path of its index is classified as that.
IndexPathClassified(c) ==
  Valid(c) /\ Unambiguous(c) =>
    parse_layout_path(Under(group_path(c) \o <<c.artifact_id>>)).class = "artifact metadata"

\* A generated document that a client downloads and uploads again, as deploy
\* tools do, is cached as the same metadata, whatever characters its texts have
\* (to_xml, escape, from_xml).
MetadataRoundTrip(m) == from_xml(to_xml(m)) = m

\* A POM is accepted at a path only if the coordinate it ends up with, inherited
\* parts included, is the path's (put_artifact, parse_pom).
PomNamesPath(raw, c) ==
  PomAccepted(raw, c) =>
    /\ raw.artifact_id = c.artifact_id
    /\ raw.group_id = c.group_id \/ (raw.group_id = None /\ raw.parent.group_id = c.group_id)
    /\ raw.version = c.version \/ (raw.version = None /\ raw.parent.version = c.version)

\* A sidecar states the same checksum bare, in capitals, and in the form of
\* sha1sum with a name and a line end, and nothing shorter or longer does.
SidecarForms(algo, hex) ==
  LET clean == Range(hex) \subseteq {"f", "F", "1"} /\ Len(hex) = HexLen[algo]
      forms == {hex, hex \o <<"\n">>, hex \o <<" ", "*", "a", "\n">>, <<" ">> \o hex}
  IN  \A body \in forms :
        parse_sidecar(algo, body) = IF clean THEN Lower(hex) ELSE Invalid

=============================================================================
