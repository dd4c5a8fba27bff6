----------------------------- MODULE OciRouting -----------------------------
(***************************************************************************)
(* How a request under /v2/ finds its handler (ferro-oci-server,           *)
(* router.rs).  Repository names contain slashes, so the router captures   *)
(* the rest of the path and split_rest looks for the end of the name.      *)
(*                                                                         *)
(* A path is a sequence of segments, the texts between slashes.  A segment *)
(* is a sequence of pieces, so that a segment may end or begin with a      *)
(* keyword without being it: <<"x", "blobs">> is `xblobs`, <<"list", "x">> *)
(* is `listx`, <<>> the empty text after a final slash.                    *)
(***************************************************************************)
EXTENDS Naturals, SequencesExt

keywords == <<"blobs", "manifests", "tags", "referrers">>

Nowhere == [name |-> <<>>, suffix |-> <<>>]

\* Where the text of the k-th keyword, with the slash after it, occurs (for
\* "tags/list" the first segment it touches).
Occurrences(rest, k) ==
  {i \in 1..(Len(rest) - 1) :
     /\ rest[i] # <<>> /\ Last(rest[i]) = keywords[k]
     /\ keywords[k] = "tags" => rest[i + 1] # <<>> /\ Head(rest[i + 1]) = "list"}

rfind(rest, k) == Max(Occurrences(rest, k))

\* The keywords whose last occurrence begins a segment; the loop goes on to
\* the next keyword after one that does not.
Boundaries(rest) ==
  {k \in DOMAIN keywords :
     /\ Occurrences(rest, k) # {}
     /\ rest[rfind(rest, k)] = <<keywords[k]>>}

\* The first occurrence is taken (find for rfind).
Mut_split_rest(rest) ==
  IF Boundaries(rest) = {} THEN Nowhere
  ELSE LET i == Min(Occurrences(rest, Min(Boundaries(rest))))
       IN  IF i = 1 THEN Nowhere
           ELSE [name |-> SubSeq(rest, 1, i - 1), suffix |-> SubSeq(rest, i, Len(rest))]

split_rest(rest) ==
  IF Boundaries(rest) = {} THEN Nowhere
  ELSE LET i == rfind(rest, Min(Boundaries(rest)))
       IN  IF i = 1 THEN Nowhere
           ELSE [name |-> SubSeq(rest, 1, i - 1), suffix |-> SubSeq(rest, i, Len(rest))]

----------------------------------------------------------------------------
(* dispatch_inner *)

Methods == {"GET", "HEAD", "PUT", "POST", "PATCH", "DELETE"}

\* The handlers by the shape of the suffix and the method.
Handlers ==
  [tags      |-> [GET |-> "list_tags"],
   referrers |-> [GET |-> "get_referrers"],
   manifests |-> [GET |-> "get_manifest", HEAD |-> "head_manifest",
                  PUT |-> "put_manifest", DELETE |-> "delete_manifest"],
   uploads   |-> [POST |-> "init_upload", PATCH |-> "patch_upload",
                  PUT |-> "finish_upload", GET |-> "get_upload_status",
                  DELETE |-> "cancel_upload"],
   blobs     |-> [GET |-> "get_blob", HEAD |-> "head_blob", DELETE |-> "delete_blob"]]

NameUnknown == [handler |-> "none", status |-> 404]
Unsupported == [handler |-> "none", status |-> 405]

\* trim_end_matches('/')
TrimEnd(segments) ==
  LET Full == {i \in DOMAIN segments : segments[i] # <<>>}
  IN  IF Full = {} THEN <<>> ELSE SubSeq(segments, 1, Max(Full))

\* The shape of a suffix, tried in the order of dispatch_inner, and the rest
\* of the suffix that the handler gets.
Shape(suffix) ==
  LET n == Len(suffix)
      kind == suffix[1]
      From(i) == SubSeq(suffix, i, n)
  IN  IF suffix = <<<<"tags">>, <<"list">>>> THEN <<"tags", <<>>>>
      ELSE IF kind = <<"referrers">> THEN <<"referrers", From(2)>>
      ELSE IF kind = <<"manifests">> THEN <<"manifests", From(2)>>
      ELSE IF kind = <<"blobs">> /\ n > 2 /\ suffix[2] = <<"uploads">>
           THEN <<"uploads", TrimEnd(From(3))>>
      ELSE IF kind = <<"blobs">> THEN <<"blobs", From(2)>>
      ELSE <<"none", <<>>>>

dispatch_inner(name, suffix, method) ==
  LET shape == Shape(suffix)
  IN  IF shape[1] = "none" THEN NameUnknown
      ELSE IF method \notin DOMAIN Handlers[shape[1]] THEN Unsupported
      ELSE [handler |-> Handlers[shape[1]][method], name |-> name, arg |-> shape[2]]

\* router: the fixed routes, then dispatch_get, dispatch_head, ... by method.
route(rest, method) ==
  CASE rest \in {<<>>, <<<<>>>>} ->
         IF method \in {"GET", "HEAD"} THEN [handler |-> "version_check"] ELSE Unsupported
    [] rest = <<<<"_catalog">>>> ->
         IF method \in {"GET", "HEAD"} THEN [handler |-> "list_catalog"] ELSE Unsupported
    [] OTHER ->
         IF split_rest(rest) = Nowhere THEN NameUnknown
         ELSE dispatch_inner(split_rest(rest).name, split_rest(rest).suffix, method)

----------------------------------------------------------------------------
(* metrics.rs *)

\* The label under which a request of the wildcard route is counted, from the
\* texts its path contains.
handler_for(rest) ==
  LET n == Len(rest)
      Inside(keyword) == \E i \in 1..(n - 1) : rest[i] = <<keyword>>
  IN  IF n > 1 /\ SubSeq(rest, n - 1, n) = <<<<"tags">>, <<"list">>>> THEN "tags"
      ELSE IF Inside("referrers") THEN "referrers"
      ELSE IF Inside("manifests") THEN "manifests"
      ELSE IF \E i \in 1..(n - 1) : /\ rest[i] = <<"blobs">>
                                   /\ rest[i + 1] # <<>> /\ Head(rest[i + 1]) = "uploads"
           THEN "uploads"
      ELSE IF Inside("blobs") THEN "blobs"
      ELSE "other"

----------------------------------------------------------------------------
(* Properties *)

\* The path of an endpoint of the repository `name`.
Endpoint(name, shape, arg) ==
  name \o (CASE shape = "tags" -> <<<<"tags">>, <<"list">>>>
             [] shape = "uploads" -> <<<<"blobs">>, <<"uploads">>, arg>>
             [] OTHER -> <<<<shape>>, arg>>)

Order(shape) ==
  CHOOSE k \in DOMAIN keywords :
    keywords[k] = IF shape = "uploads" THEN "blobs" ELSE shape

\* A request for any endpoint of a repository reaches that endpoint's handler
\* with that repository's name, or is refused for its method, whatever the
\* last segment is and also when segments of the name end in a keyword:
\* provided no segment of the name is itself a keyword that split_rest tries
\* before the endpoint's own.
RoutedToRepository(name, arg) ==
  \A shape \in DOMAIN Handlers, method \in Methods :
    (\A k \in 1..(Order(shape) - 1) : <<keywords[k]>> \notin Range(name)) =>
      route(Endpoint(name, shape, arg), method) =
        IF method \in DOMAIN Handlers[shape]
        THEN [handler |-> Handlers[shape][method], name |-> name,
              arg |-> IF shape = "tags" \/ (shape = "uploads" /\ arg = <<>>)
                      THEN <<>> ELSE <<arg>>]
        ELSE Unsupported

\* The metrics count a request under the endpoint that serves it, although they
\* classify its path on their own: provided no segment of the repository's name
\* is a keyword (handler_for against dispatch_inner).
CountedAsServed(name, arg) ==
  (\A k \in DOMAIN keywords : <<keywords[k]>> \notin Range(name)) =>
    \A shape \in DOMAIN Handlers :
      ~(shape = "blobs" /\ arg = <<"uploads">>) =>
        handler_for(Endpoint(name, shape, arg)) = shape

=============================================================================
