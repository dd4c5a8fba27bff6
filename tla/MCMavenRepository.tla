------------------------- MODULE MCMavenRepository -------------------------
(***************************************************************************)
(* Finite instances for TLC.  `part` picks one of them in the initial      *)
(* state: the repository itself, or a text of MavenLayout.                 *)
(***************************************************************************)
EXTENDS MavenRepository, SequencesExt

CONSTANTS a, b, sum_a, rel, snap, one, jar

VARIABLES part, text

MCHexLen == [algo \in {"md5", "sha1", "sha256", "sha512"} |-> IF algo = "sha1" THEN 2 ELSE 3]

Layout == INSTANCE MavenLayout WITH HexLen <- MCHexLen

MCBaseVersion == [v \in Versions |-> one]
MCDeclares == [d \in Digests |-> IF d = sum_a THEN a ELSE NoDigest]

MCPut(kind, version, body) ==
  [kind |-> kind, version |-> version, file |-> jar, body |-> body]

\* The same jar as a release and as a snapshot, another one as the snapshot,
\* and a sidecar for the snapshot.
MCPuts == {MCPut("artifact", rel, a), MCPut("artifact", snap, a),
           MCPut("artifact", snap, b), MCPut("checksum", snap, sum_a)}

Symmetry == Permutations(Requests)

-----------------------------------------------------------------------------
(* Texts.  Every short one over the pieces that matter for it. *)

Texts(S, n) == UNION {[1..k -> S] : k \in 1..n}
None == Layout!None

Extensions == {<<"jar">>, <<"gz">>, <<"tar", ".", "gz">>, <<"jar", ".", "a">>, <<"sha1">>}

Coordinates ==
  [group_id: Texts({"a", "1", "."}, 3),
   artifact_id: Texts({"a", "1", "-", "."}, 2),
   version: {<<"1">>, <<"a">>, <<"1", "-", "a">>, <<"1", "-", "SNAPSHOT">>,
             <<"a", "-", "SNAPSHOT">>},
   classifier: {None} \cup Texts({"a", "."}, 2) \cup {<<"a", "-", "a">>, <<"a", ".", "tar">>},
   extension: Extensions]

Escaped == Texts({"a", "&", "<", "lt;"}, 2)

Documents ==
  {Layout!artifact_index(g, <<"a">>, vs) :
     g \in Escaped, vs \in BoundedSeq({<<"1">>, <<"<">>, <<"1", "-", "SNAPSHOT">>}, 2)}
  \cup {Layout!snapshot_metadata(<<"a">>, x, <<"1", "-", "SNAPSHOT">>, <<"1">>, vs) :
          x \in Escaped, vs \in BoundedSeq(Escaped, 1)}

Fields == {None, <<>>, <<"a">>, <<"1">>}
Poms ==
  [raw: [group_id: Fields, artifact_id: Fields, version: Fields,
         parent: [group_id: Fields, version: Fields]],
   coordinate: [group_id: {<<"a">>, <<"1">>}, artifact_id: {<<"a">>}, version: {<<"a">>, <<"1">>}]]

Sidecars == Texts({"f", "F", "1", "x"}, 4)

-----------------------------------------------------------------------------

MCInit ==
  /\ Init
  /\ \/ part = "repository" /\ text = <<>>
     \/ part = "coordinates" /\ text \in Coordinates
     \/ part = "documents" /\ text \in Documents
     \/ part = "poms" /\ text \in Poms
     \/ part = "sidecars" /\ text \in Sidecars

Repository == part = "repository" /\ Next /\ UNCHANGED <<part, text>>
Rest == part # "repository" /\ UNCHANGED <<vars, part, text>>

MCNext == Repository \/ Rest

MCSpec == MCInit /\ [][MCNext]_<<vars, part, text>>

-----------------------------------------------------------------------------
(* The properties of MavenLayout, of the texts. *)

\* A coordinate's file and its sidecars are parsed back to the coordinate
\* (repository_path against parse_layout_path), and the metadata that a PUT
\* generates is found under its path (load_metadata_xml).
PathsExact ==
  part = "coordinates" => Layout!LayoutRoundTrip(text) /\ Layout!MetadataServed(text)

\* The path of every artifact index is classified as one (layout.rs:40-41).
IndexPathClassified == part = "coordinates" => Layout!IndexPathClassified(text)

\* Uploaded documents are read as what they say: metadata that was downloaded
\* (to_xml, from_xml), a POM at its path (parse_pom), a sidecar in each of its
\* forms (parse_sidecar).
DocumentsExact ==
  /\ part = "documents" => Layout!MetadataRoundTrip(text)
  /\ part = "poms" => Layout!PomNamesPath(text.raw, text.coordinate)
  /\ part = "sidecars" => \A algo \in {"sha1", "sha256"} : Layout!SidecarForms(algo, text)

=============================================================================
