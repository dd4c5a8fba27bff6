------------------------------ MODULE OciReads ------------------------------
(***************************************************************************)
(* The clients that read the OCI registry over several requests while      *)
(* others push and delete: one that lists tags or the catalog page by page *)
(* (handlers/tags.rs, handlers/catalog.rs), and one that pulls a manifest  *)
(* in ranges (get_manifest in handlers/manifest.rs).                       *)
(*                                                                         *)
(* A mutation holds the write lock of the maps from its first change until *)
(* it is saved or rolled back, and a read takes the read lock, so a reader *)
(* sees a mutation as one step.  The requests of OciRegistryMeta stay idle *)
(* here.                                                                   *)
(***************************************************************************)
EXTENDS OciRegistryMeta

CONSTANTS
  rank,          \* tag or name -> its place in the order of strings
  Size,          \* manifest -> its length in bytes
  PageSizes,     \* bound: the page sizes that clients ask for
  MaxByte,       \* bound: the positions in their Range headers
  MaxMutations,  \* bound: pushes and deletes
  MaxPages       \* bound: requests of one pull

ASSUME ReadsAssumption ==
  /\ IsFiniteSet(Names) /\ IsFiniteSet(Tags)
  /\ rank \in [Tags \cup Names -> Nat]
  /\ \A S \in {Tags, Names} : \A a, b \in S : rank[a] = rank[b] => a = b
  /\ Size \in [Digests -> Nat]
  /\ PageSizes \subseteq Nat \ {0}
  /\ MaxByte \in Nat
  /\ {"none", "catalog"} \cap (Names \cup Tags) = {}

VARIABLES
  listing,   \* a client that lists
  pull,      \* or a client that pulls
  mutations

readVars == <<listing, pull, mutations>>

Body(d) == [i \in 1..Size[d] |-> <<d, i>>]

\* The keys that a listing is about: the tags of a name, or the names.
Keys(of) ==
  IF of = "catalog" THEN {n \in Names : repos[n].listed}
  ELSE {t \in Tags : repos[of].tags[t] # NoDigest}

NotListing == [of |-> "none"]
NotPulling == [digest |-> NoDigest, got |-> <<>>, requests |-> 0, done |-> FALSE]

ReadInit ==
  /\ Init
  /\ listing = NotListing
  /\ pull = NotPulling
  /\ mutations = 0

-----------------------------------------------------------------------------
(* The world of the readers *)

\* What the page of a listing tells the lister of the world it comes from.
Observed(l) ==
  IF l = NotListing THEN l
  ELSE LET now == IF l.of = "catalog" THEN {n \in Names : repos'[n].listed}
                  ELSE {t \in Tags : repos'[l.of].tags[t] # NoDigest}
       IN  [l EXCEPT !.always = @ \cap now, !.ever = @ \cup now]

Mutate(new) ==
  /\ mutations < MaxMutations
  /\ mutations' = mutations + 1
  /\ repos' = new
  /\ disk' = new
  /\ listing' = Observed(listing)
  /\ UNCHANGED <<writer, pc, req, undone, corrupted, pull>>

\* An image is pushed: its layers, then its manifest.
PushManifest(n, p) ==
  /\ p.media_type \notin index_types
  /\ p.reference \in Tags \cup {p.digest}
  /\ blobs' = blobs \cup layers[p.digest]
  /\ Mutate([repos EXCEPT ![n] = put_manifest(@, p)])
  /\ UNCHANGED removed

DropManifest(n, d) ==
  /\ d \in Stored(repos[n])
  /\ removed' = TRUE
  /\ Mutate([repos EXCEPT ![n] = delete_manifest(@, d)])
  /\ UNCHANGED blobs

-----------------------------------------------------------------------------
(* list_tags, list_repositories *)

InOrder(S) ==
  CHOOSE s \in [1..Cardinality(S) -> S] :
    \A i, j \in DOMAIN s : i < j => rank[s[i]] < rank[s[j]]

\* The page starts with the cursor itself.
Mut_Page(of, last, n) ==
  LET names == InOrder({k \in Keys(of) : last = "none" \/ rank[k] >= rank[last]})
  IN  SubSeq(names, 1, IF Len(names) < n THEN Len(names) ELSE n)

Page(of, last, n) ==
  LET names == InOrder({k \in Keys(of) : last = "none" \/ rank[k] > rank[last]})
  IN  SubSeq(names, 1, IF Len(names) < n THEN Len(names) ELSE n)

\* The first page.  `ever` and `always` are history: the keys that existed at some
\* time, and at all times, of the listing.
StartListing(of, n) ==
  LET page == Page(of, "none", n) IN
  /\ listing = NotListing /\ pull = NotPulling
  /\ listing' = [of |-> of, n |-> n, got |-> page, always |-> Keys(of), ever |-> Keys(of),
                 more |-> page # <<>> /\ Len(page) = n]
  /\ UNCHANGED <<vars, pull, mutations>>

\* The page of the Link header, which a full page has.
NextPage ==
  LET page == Page(listing.of, listing.got[Len(listing.got)], listing.n) IN
  /\ listing # NotListing
  /\ listing.more
  /\ listing' = [listing EXCEPT !.got = @ \o page,
                                !.more = page # <<>> /\ Len(page) = listing.n]
  /\ UNCHANGED <<vars, pull, mutations>>

-----------------------------------------------------------------------------
(* get_manifest with a Range header *)

\* parse_byte_range: "N-M" and "N-"; anything else is ignored.
Ranges == [kind: {"bytes"}, start: 0..MaxByte, end: 0..MaxByte]
          \cup [kind: {"open"}, start: 0..MaxByte] \cup [kind: {"ignored", "absent"}]

Smaller(a, b) == IF a < b THEN a ELSE b

\* The length that is sent is that of the part.
Mut_range_or_full_response(d, range) ==
  LET total == Size[d]
      last == total - 1
      end == IF range.kind = "bytes" THEN Smaller(range.end, last) ELSE last
  IN  IF range.kind \in {"ignored", "absent"}
      THEN [status |-> 200, digest |-> d, start |-> 0, total |-> total, body |-> Body(d)]
      ELSE IF (range.kind = "bytes" /\ range.start > range.end) \/ range.start > last
      THEN [status |-> 416, digest |-> NoDigest, start |-> 0, total |-> total, body |-> <<>>]
      ELSE [status |-> 206, digest |-> d, start |-> range.start, total |-> end - range.start + 1,
            body |-> SubSeq(Body(d), range.start + 1, end + 1)]

\* 200 with the whole body, 206 with its bytes from `start` to `end`, both
\* included, or 416, each with the length of the whole.  A 416 has no digest.
range_or_full_response(d, range) ==
  LET total == Size[d]
      last == total - 1
      end == IF range.kind = "bytes" THEN Smaller(range.end, last) ELSE last
  IN  IF range.kind \in {"ignored", "absent"}
      THEN [status |-> 200, digest |-> d, start |-> 0, total |-> total, body |-> Body(d)]
      ELSE IF (range.kind = "bytes" /\ range.start > range.end) \/ range.start > last
      THEN [status |-> 416, digest |-> NoDigest, start |-> 0, total |-> total, body |-> <<>>]
      ELSE [status |-> 206, digest |-> d, start |-> range.start, total |-> total,
            body |-> SubSeq(Body(d), range.start + 1, end + 1)]

\* The digest that a reference names in a repository, if the manifest is there.
Resolve(repo, reference) ==
  LET d == IF reference \in Tags THEN repo.tags[reference] ELSE reference
  IN  IF d \in Stored(repo) THEN d ELSE NoDigest

\* The client goes on where it is, and throws away what it has when the tag has
\* moved to another digest.  A 404 or a 416 changes nothing.
Pull(n, reference, range) ==
  LET d == Resolve(repos[n], reference)
      answer == range_or_full_response(d, range)
      kept == IF answer.digest = pull.digest THEN pull.got ELSE <<>>
      got == IF Len(kept) = answer.start THEN kept \o answer.body ELSE <<>>
  IN
  /\ listing = NotListing
  /\ pull.requests < MaxPages
  /\ ~pull.done
  /\ d # NoDigest
  /\ range.kind \in {"bytes", "open"} => range.start = Len(pull.got)
  /\ \/ /\ answer.status = 200
        /\ pull' = [digest |-> d, got |-> answer.body, requests |-> pull.requests + 1,
                    done |-> TRUE]
     \/ /\ answer.status = 206
        /\ pull' = [digest |-> d, got |-> got, requests |-> pull.requests + 1,
                    done |-> Len(got) = answer.total]
  /\ UNCHANGED <<vars, listing, mutations>>

-----------------------------------------------------------------------------
\* A client is through, or gives up, and the next one comes.
Leave ==
  /\ (listing # NotListing /\ ~listing.more) \/ pull # NotPulling
  /\ listing' = NotListing
  /\ pull' = NotPulling
  /\ UNCHANGED <<vars, mutations>>

ReadNext ==
  \/ \E n \in Names :
       \/ \E p \in Pushes : PushManifest(n, p)
       \/ \E d \in Digests : DropManifest(n, d)
       \/ \E reference \in Tags \cup Digests, range \in Ranges : Pull(n, reference, range)
  \/ \E of \in Names \cup {"catalog"}, n \in PageSizes : StartListing(of, n)
  \/ NextPage
  \/ Leave

ReadSpec == ReadInit /\ [][ReadNext]_<<vars, readVars>>

-----------------------------------------------------------------------------
(* Properties *)

\* A listing that has followed the Link headers to the end has every key that was
\* there all the time, no key that never was, and none twice, whatever was
\* pushed and deleted between its pages (list_tags, list_repositories).
ListingComplete ==
  listing # NotListing =>
    /\ IsInjective(listing.got)
    /\ Range(listing.got) \subseteq listing.ever
    /\ ~listing.more => listing.always \subseteq Range(listing.got)

\* The pieces that a client keeps under one digest are the bytes of that manifest
\* from the first on, and when there are no more they are all of them, although
\* the tag moves between the requests (range_or_full_response).
PullExact ==
  /\ pull.digest # NoDigest =>
       \E k \in 0..Size[pull.digest] : pull.got = SubSeq(Body(pull.digest), 1, k)
  /\ pull.done => pull.got = Body(pull.digest)

=============================================================================
