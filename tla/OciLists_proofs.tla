--------------------------- MODULE OciLists_proofs ---------------------------
(***************************************************************************)
(* Proofs about the lists of the OCI registry, of any length: the lists of *)
(* referrers and what a roll-back leaves of them (OciRegistryMeta), and    *)
(* the tags and names that a client lists page by page (OciReads).         *)
(***************************************************************************)
EXTENDS OciRegistryMeta_proofs, Integers, FiniteSetTheorems

----------------------------------------------------------------------------
(* Lists with some positions taken out *)

\* Positions of a list of length n.
Inside(gone, n) == \A k \in gone : k \in 1..n

\* The positions that are taken out before another.
Below(i, gone) == {j \in gone : j < i}

\* A part of an interval has at most its length.
LEMMA PartOfInterval ==
  ASSUME NEW a \in Nat, NEW b \in Nat, NEW S, \A k \in S : k \in Nat /\ a <= k /\ k < b, a <= b
  PROVE  IsFiniteSet(S) /\ Cardinality(S) \in Nat /\ Cardinality(S) <= b - a
<1> DEFINE c == b - 1
           whole == a..c
<1>1. a \in Int /\ c \in Int /\ b = c + 1
  OBVIOUS
<1>2. S \in SUBSET whole
  OBVIOUS
<1> HIDE DEF c
<1>3. IsFiniteSet(whole) /\ Cardinality(whole) = IF a > c THEN 0 ELSE c - a + 1
  BY <1>1, FS_Interval
<1>4. Cardinality(whole) = b - a
  BY <1>1, <1>3
<1> HIDE DEF whole
<1>5. IsFiniteSet(S) /\ Cardinality(S) <= Cardinality(whole)
  BY <1>2, <1>3, FS_Subset
<1> QED
  BY <1>4, <1>5, FS_CardinalityType

\* Up to a position, all can be taken out; from one that stays to another, all
\* but one.
LEMMA BelowBounds ==
  ASSUME NEW n \in Nat, NEW gone, Inside(gone, n), NEW i \in 1..n, i \notin gone,
         NEW j \in Nat, i < j
  PROVE  /\ Cardinality(Below(i, gone)) \in 0..(i - 1)
         /\ Cardinality(Below(j, gone)) \in Nat
         /\ Cardinality(Below(j, gone)) <= Cardinality(Below(i, gone)) + (j - i - 1)
<1> DEFINE between == {k \in gone : i < k /\ k < j}
<1>1. \A k \in gone : k \in Nat /\ 1 <= k /\ k # i
  BY DEF Inside
<1>2. /\ IsFiniteSet(Below(i, gone)) /\ Cardinality(Below(i, gone)) \in 0..(i - 1)
  <2>1. \A k \in Below(i, gone) : k \in Nat /\ 1 <= k /\ k < i
    BY <1>1 DEF Below
  <2>2. /\ IsFiniteSet(Below(i, gone)) /\ Cardinality(Below(i, gone)) \in Nat
        /\ Cardinality(Below(i, gone)) <= i - 1
    BY <2>1, PartOfInterval
  <2> QED
    BY <2>2
<1>3. /\ IsFiniteSet(between) /\ Cardinality(between) \in Nat
      /\ Cardinality(between) <= j - (i + 1)
  <2>1. \A k \in between : k \in Nat /\ i + 1 <= k /\ k < j
    BY <1>1
  <2> HIDE DEF between
  <2>2. i + 1 \in Nat /\ i + 1 <= j
    OBVIOUS
  <2> QED
    BY <2>1, <2>2, PartOfInterval
<1>4. Below(j, gone) = Below(i, gone) \cup between
  BY <1>1 DEF Below
<1>5. Below(i, gone) \cap between = {}
  BY <1>1 DEF Below
<1> HIDE DEF between
<1>6. Cardinality(Below(i, gone) \cap between) = 0
  BY <1>5, FS_EmptySet
<1>7. Cardinality(Below(i, gone) \cup between)
        = Cardinality(Below(i, gone)) + Cardinality(between) - 0
  BY <1>2, <1>3, <1>6, FS_Union
<1> QED
  BY <1>2, <1>3, <1>4, <1>7

\* All that is taken out is taken out before the end.
LEMMA GoneCount ==
  ASSUME NEW n \in Nat, NEW gone, Inside(gone, n)
  PROVE  IsFiniteSet(gone) /\ Cardinality(gone) \in 0..n /\ Below(n + 1, gone) = gone
<1>1. \A k \in gone : k \in Nat /\ 1 <= k /\ k < n + 1
  BY DEF Inside
<1>2. IsFiniteSet(gone) /\ Cardinality(gone) \in Nat /\ Cardinality(gone) <= (n + 1) - 1
  BY <1>1, PartOfInterval
<1>3. Below(n + 1, gone) = gone
  BY <1>1 DEF Below
<1>4. Cardinality(gone) \in 0..n
  BY <1>2
<1> QED
  BY <1>2, <1>3, <1>4

\* Places keep the order of the positions that stay.
LEMMA PlaceOrder ==
  ASSUME NEW n \in Nat, NEW gone, Inside(gone, n),
         NEW i \in 1..n, i \notin gone, NEW j \in 1..n, i < j
  PROVE  Place(i, gone) < Place(j, gone)
<1>1. /\ Cardinality(Below(i, gone)) \in 0..(i - 1)
      /\ Cardinality(Below(j, gone)) \in Nat
      /\ Cardinality(Below(j, gone)) <= Cardinality(Below(i, gone)) + (j - i - 1)
  BY BelowBounds
<1>2. /\ Place(i, gone) = i - Cardinality(Below(i, gone))
      /\ Place(j, gone) = j - Cardinality(Below(j, gone))
  BY DEF Place, Below
<1> QED
  BY <1>1, <1>2

\* A position that stays has a place in what is left.
LEMMA PlaceRange ==
  ASSUME NEW n \in Nat, NEW gone, Inside(gone, n), NEW i \in 1..n, i \notin gone
  PROVE  Place(i, gone) \in 1..(n - Cardinality(gone))
<1>1. /\ Cardinality(Below(i, gone)) \in 0..(i - 1)
      /\ Cardinality(Below(n + 1, gone)) <= Cardinality(Below(i, gone)) + (n + 1 - i - 1)
  BY BelowBounds, n + 1 \in Nat
<1>2. Below(n + 1, gone) = gone /\ Cardinality(gone) \in 0..n
  BY GoneCount
<1>3. Place(i, gone) = i - Cardinality(Below(i, gone))
  BY DEF Place, Below
<1> QED
  BY <1>1, <1>2, <1>3

\* Every place is that of a position that stays.
LEMMA PlaceOnto ==
  ASSUME NEW n \in Nat, NEW gone, Inside(gone, n),
         NEW p \in 1..(n - Cardinality(gone))
  PROVE  \E j \in (1..n) \ gone : Place(j, gone) = p
<1> DEFINE stay == (1..n) \ gone
           left == 1..(n - Cardinality(gone))
           f == [j \in stay |-> Place(j, gone)]
<1>1. Cardinality(gone) \in 0..n /\ IsFiniteSet(gone)
  BY GoneCount
<1>2. f \in [stay -> left]
  BY PlaceRange
<1>3. ASSUME NEW i \in stay, NEW j \in stay, f[i] = f[j] PROVE i = j
  <2>1. Place(i, gone) = Place(j, gone) /\ Place(i, gone) \in Int
    BY <1>1, <1>3, PlaceRange
  <2>2. i \in 1..n /\ j \in 1..n /\ i \notin gone /\ j \notin gone
    OBVIOUS
  <2> HIDE DEF f, stay
  <2>3. ~(i < j) /\ ~(j < i)
    BY <2>1, <2>2, PlaceOrder
  <2> QED
    BY <2>2, <2>3
<1>4. Cardinality(stay) = n - Cardinality(gone)
  <2>1. IsFiniteSet(1..n) /\ Cardinality(1..n) = n
    BY FS_Interval
  <2>2. (1..n) \cap gone = gone
    BY DEF Inside
  <2>3. Cardinality((1..n) \ gone) = Cardinality(1..n) - Cardinality((1..n) \cap gone)
    BY <2>1, FS_Difference, Zenon
  <2> QED
    BY <2>1, <2>2, <2>3
<1>5. IsFiniteSet(left) /\ Cardinality(left) = n - Cardinality(gone)
  <2> DEFINE m == n - Cardinality(gone)
  <2>1. m \in Nat
    BY <1>1
  <2> HIDE DEF m
  <2>2. IsFiniteSet(1..m) /\ Cardinality(1..m) = m
    BY <2>1, FS_Interval
  <2> QED
    BY <2>2, Zenon DEF m
<1> HIDE DEF f, stay, left
<1>6. f \in Injection(stay, left)
  BY <1>2, <1>3 DEF Injection, IsInjective
<1>7. f \in Surjection(stay, left)
  BY <1>4, <1>5, <1>6, FS_Injection
<1>8. \E j \in stay : f[j] = p
  BY <1>7 DEF Surjection, left
<1> QED
  BY <1>8 DEF f, stay

\* What is left of a list is a list, and shorter by what was taken out.
LEMMA PruneList ==
  ASSUME NEW S, NEW list \in Seq(S), NEW gone, Inside(gone, Len(list))
  PROVE  /\ prune(list, gone) \in Seq(S)
         /\ Len(prune(list, gone)) = Len(list) - Cardinality(gone)
         /\ \A p \in 1..(Len(list) - Cardinality(gone)) :
              \E j \in (1..Len(list)) \ gone : prune(list, gone)[p] = list[j] /\ Place(j, gone) = p
<1> DEFINE n == Len(list)
           m == n - Cardinality(gone)
           at(p) == CHOOSE j \in DOMAIN list \ gone : Place(j, gone) = p
<1>1. n \in Nat /\ m \in Nat /\ DOMAIN list = 1..n
  BY GoneCount
<1>2. prune(list, gone) = [p \in 1..m |-> list[at(p)]]
  BY DEF prune
<1>3. \A p \in 1..m : at(p) \in (1..n) \ gone /\ Place(at(p), gone) = p
  BY <1>1, PlaceOnto
<1>4. \A j \in 1..n : list[j] \in S
  OBVIOUS
<1> HIDE DEF n, m, at
<1>5. \A p \in 1..m : list[at(p)] \in S
  BY <1>3, <1>4
<1>6. [p \in 1..m |-> list[at(p)]] \in Seq(S) /\ Len([p \in 1..m |-> list[at(p)]]) = m
  BY <1>1, <1>5
<1>7. \A p \in 1..m : \E j \in (1..n) \ gone :
        prune(list, gone)[p] = list[j] /\ Place(j, gone) = p
  BY <1>2, <1>3
<1> QED
  BY <1>2, <1>6, <1>7, Zenon DEF n, m

\* What stays is found at its place.
LEMMA PruneKeeps ==
  ASSUME NEW S, NEW list \in Seq(S), NEW gone, Inside(gone, Len(list)),
         NEW i \in 1..Len(list), i \notin gone
  PROVE  /\ Place(i, gone) \in 1..Len(prune(list, gone))
         /\ prune(list, gone)[Place(i, gone)] = list[i]
<1> DEFINE n == Len(list)
<1>1. n \in Nat
  OBVIOUS
<1>2. Place(i, gone) \in 1..(n - Cardinality(gone)) /\ Len(prune(list, gone)) = n - Cardinality(gone)
  BY <1>1, PlaceRange, PruneList
<1>3. PICK j \in (1..n) \ gone : /\ prune(list, gone)[Place(i, gone)] = list[j]
                                 /\ Place(j, gone) = Place(i, gone)
  BY <1>2, PruneList
<1>4. j = i
  <2>1. Place(i, gone) \in Int
    BY <1>2
  <2>2. ~(i < j) /\ ~(j < i)
    BY <1>1, <1>3, <2>1, PlaceOrder
  <2> QED
    BY <2>2
<1> QED
  BY <1>2, <1>3, <1>4

\* Inserting what was taken out gives the list back (delete_manifest and its
\* roll-back).
LEMMA ReinsertPruned ==
  ASSUME NEW S, NEW list \in Seq(S), NEW gone, Inside(gone, Len(list))
  PROVE  reinsert(prune(list, gone), [i \in gone |-> list[i]]) = list
<1> DEFINE n == Len(list)
           left == prune(list, gone)
           taken == [i \in gone |-> list[i]]
<1>1. Len(left) = n - Cardinality(gone) /\ Cardinality(gone) \in Nat /\ n \in Nat
  BY PruneList, GoneCount
<1>2. Len(left) + Cardinality(DOMAIN taken) = n /\ DOMAIN taken = gone
  BY <1>1
<1>3. reinsert(left, taken)
        = [i \in 1..n |-> IF i \in gone THEN taken[i] ELSE left[Place(i, gone)]]
  BY <1>2 DEF reinsert
<1>4. ASSUME NEW i \in 1..n
      PROVE  (IF i \in gone THEN taken[i] ELSE left[Place(i, gone)]) = list[i]
  BY PruneKeeps
<1>5. list = [i \in 1..n |-> list[i]]
  OBVIOUS
<1> HIDE DEF n, left, taken
<1>6. [i \in 1..n |-> IF i \in gone THEN taken[i] ELSE left[Place(i, gone)]]
        = [i \in 1..n |-> list[i]]
  BY <1>4
<1> QED
  BY <1>3, <1>5, <1>6, Zenon DEF left, taken

\* What is left is what was at the positions that stay.
LEMMA PruneRange ==
  ASSUME NEW S, NEW list \in Seq(S), NEW gone, Inside(gone, Len(list))
  PROVE  Range(prune(list, gone)) = {list[i] : i \in (1..Len(list)) \ gone}
<1> DEFINE n == Len(list)
           left == prune(list, gone)
<1>1. left \in Seq(S) /\ Len(left) = n - Cardinality(gone)
  BY PruneList
<1>2. ASSUME NEW p \in 1..Len(left) PROVE \E j \in (1..n) \ gone : left[p] = list[j]
  BY <1>1, PruneList
<1>3. ASSUME NEW i \in (1..n) \ gone PROVE \E p \in 1..Len(left) : left[p] = list[i]
  <2>1. i \in 1..n /\ i \notin gone
    OBVIOUS
  <2> QED
    BY <2>1, PruneKeeps
<1>4. Range(left) = {left[p] : p \in 1..Len(left)}
  BY <1>1 DEF Range
<1> HIDE DEF n, left
<1>5. ASSUME NEW x \in Range(left) PROVE x \in {list[i] : i \in (1..n) \ gone}
  BY <1>2, <1>4
<1>6. ASSUME NEW i \in (1..n) \ gone PROVE list[i] \in Range(left)
  BY <1>3, <1>4
<1>7. Range(left) = {list[i] : i \in (1..n) \ gone}
  BY <1>5, <1>6
<1> QED
  BY <1>7 DEF n, left

----------------------------------------------------------------------------
(* What the operators do to the lists of referrers. *)

Descriptors == {build_referrer(q) : q \in [media_type: MediaTypes, digest: Digests]}

Named(list) == {list[i].digest : i \in 1..Len(list)}

\* Every list names the stored manifests that declare its subject.
Exact(repo) ==
  \A s \in Digests : Named(repo.referrers[s]) = {d \in Held(repo.manifests) : subject[d] = s}

Listing(repo) ==
  /\ IsRepo(repo)
  /\ repo.referrers \in [Digests -> Seq(Descriptors)]
  /\ Exact(repo)

Alike(repo, other) ==
  /\ repo.manifests = other.manifests
  /\ repo.tags = other.tags
  /\ repo.referrers = other.referrers

\* What is like a repository with exact lists has them too.
LEMMA AlikeLists ==
  ASSUME NEW repo, IsRepo(repo), NEW other, Listing(other), Alike(repo, other)
  PROVE  Listing(repo) /\ SameContent(repo, other)
<1>1. Listing(repo)
  BY DEF Alike, Listing, Exact
<1>2. IsRepo(other)
  BY DEF Listing
<1>3. SameContent(repo, other)
  BY <1>2, Zenon DEF Alike, SameContent, IsRepo
<1> QED
  BY <1>1, <1>3

\* No filter is given; the filter lets a manifest through.
Unfiltered(at) == at = ""

Shown(at, d) ==
  at \in {"", artifactType[d], IF artifactType[d] = "" THEN configType[d] ELSE ""}

\* A filter compares with what the descriptor says (build_referrer).
LEMMA FilterTypes ==
  ASSUME NEW desc \in Descriptors, NEW at, ~Unfiltered(at)
  PROVE  Shown(at, desc.digest) <=> desc.artifact_type = at
<1> DEFINE a == artifactType[desc.digest]
           c == configType[desc.digest]
<1>1. PICK q \in [media_type: MediaTypes, digest: Digests] : desc = build_referrer(q)
  BY Zenon DEF Descriptors
<1>2. desc.digest = q.digest
  BY <1>1, Zenon DEF build_referrer
<1>3. desc.artifact_type = IF a # "" THEN a ELSE c
  BY <1>1, <1>2, Zenon DEF build_referrer
<1> HIDE DEF a, c
<1>4. at \in {"", a, IF a = "" THEN c ELSE ""} <=> at = IF a # "" THEN a ELSE c
  <2>1. CASE a = ""
    BY <2>1, Zenon DEF Unfiltered
  <2>2. CASE a # ""
    BY <2>2, Zenon DEF Unfiltered
  <2> QED
    BY <2>1, <2>2, Zenon
<1> QED
  BY <1>3, <1>4, Zenon DEF Shown, a, c

\* A push builds a descriptor of its manifest.
LEMMA BuildReferrer ==
  ASSUME NEW q, q.digest \in Digests, q.media_type \in MediaTypes
  PROVE  build_referrer(q) \in Descriptors /\ build_referrer(q).digest = q.digest
<1> DEFINE p == [media_type |-> q.media_type, digest |-> q.digest]
<1>1. p \in [media_type: MediaTypes, digest: Digests] /\ build_referrer(q) = build_referrer(p)
  BY DEF build_referrer
<1>2. build_referrer(q).digest = q.digest
  BY DEF build_referrer
<1> HIDE DEF p
<1> QED
  BY <1>1, <1>2 DEF Descriptors

\* The last descriptor can be taken back (rollback_put).
LEMMA AppendTakenBack ==
  ASSUME NEW S, NEW list \in Seq(S), NEW x \in S
  PROVE  /\ Append(list, x) \in Seq(S)
         /\ SubSeq(Append(list, x), 1, Len(Append(list, x)) - 1) = list
<1>1. Append(list, x) \in Seq(S) /\ Len(Append(list, x)) = Len(list) + 1
  OBVIOUS
<1>2. Len(Append(list, x)) - 1 = Len(list)
  BY <1>1
<1>3. SubSeq(Append(list, x), 1, Len(list)) = list
  OBVIOUS
<1> QED
  BY <1>1, <1>2, <1>3

\* An appended descriptor adds its digest.
LEMMA AppendNames ==
  ASSUME NEW S, NEW list \in Seq(S), NEW x \in S
  PROVE  Named(Append(list, x)) = Named(list) \cup {x.digest}
<1> DEFINE n == Len(list)
           new == Append(list, x)
<1>1. n \in Nat /\ Len(new) = n + 1 /\ new[n + 1] = x /\ \A i \in 1..n : new[i] = list[i]
  OBVIOUS
<1> HIDE DEF n, new
<1>2. \A i : i \in 1..(n + 1) <=> i \in 1..n \/ i = n + 1
  BY <1>1
<1>3. Named(new) = {new[i].digest : i \in 1..(n + 1)}
  BY <1>1 DEF Named
<1>4. Named(list) = {list[i].digest : i \in 1..n}
  BY DEF Named, n
<1>5. Named(new) = Named(list) \cup {x.digest}
  BY <1>1, <1>2, <1>3, <1>4
<1> QED
  BY <1>5 DEF new

\* The digests of a list are those of its descriptors.
LEMMA NamedRange ==
  ASSUME NEW S, NEW list \in Seq(S)
  PROVE  Named(list) = {x.digest : x \in Range(list)}
<1>1. Range(list) = {list[i] : i \in 1..Len(list)}
  BY DEF Range
<1> QED
  BY <1>1 DEF Named

\* Taking the positions of a digest out of a list leaves the other digests
\* (delete_manifest).
LEMMA PruneNames ==
  ASSUME NEW S, NEW list \in Seq(S), NEW d
  PROVE  /\ Inside(Positions(list, d), Len(list))
         /\ prune(list, Positions(list, d)) \in Seq(S)
         /\ Named(prune(list, Positions(list, d))) = Named(list) \ {d}
<1> DEFINE n == Len(list)
           gone == Positions(list, d)
           left == prune(list, gone)
<1>1. \A i \in 1..n : i \in gone <=> list[i].digest = d
  BY DEF Positions
<1>2. Inside(gone, n)
  BY DEF Positions, Inside
<1>3. left \in Seq(S) /\ Range(left) = {list[i] : i \in (1..n) \ gone}
  BY <1>2, PruneList, PruneRange
<1>4. Named(left) = {x.digest : x \in Range(left)}
  BY <1>3, NamedRange
<1> HIDE DEF n, gone, left
<1>5. Named(list) = {list[i].digest : i \in 1..n}
  BY DEF Named, n
<1>6. Named(left) = {list[i].digest : i \in (1..n) \ gone}
  BY <1>3, <1>4
<1>7. Named(left) = Named(list) \ {d}
  BY <1>1, <1>5, <1>6
<1> QED
  BY <1>2, <1>3, <1>7 DEF n, gone, left

\* The positions that a filter drops.
Dropped(list, at) == {i \in DOMAIN list : list[i].artifact_type # at}

\* What a filter of a list leaves (list_referrers).
LEMMA FilterNames ==
  ASSUME NEW list \in Seq(Descriptors), NEW at, ~Unfiltered(at)
  PROVE  Named(prune(list, Dropped(list, at)))
           = {d \in Named(list) : Shown(at, d)}
<1> DEFINE n == Len(list)
           gone == Dropped(list, at)
           left == prune(list, gone)
<1>1. Inside(gone, n)
  BY DEF Dropped, Inside
<1>2. left \in Seq(Descriptors) /\ Range(left) = {list[i] : i \in (1..n) \ gone}
  BY <1>1, PruneList, PruneRange
<1>3. Named(left) = {x.digest : x \in Range(left)}
  BY <1>2, NamedRange
<1>4. ASSUME NEW i \in 1..n PROVE i \in gone <=> ~Shown(at, list[i].digest)
  <2>1. list[i] \in Descriptors /\ (i \in gone <=> list[i].artifact_type # at)
    BY DEF Dropped
  <2> QED
    BY <2>1, FilterTypes
<1> HIDE DEF n, gone, left
<1>5. Named(list) = {list[i].digest : i \in 1..n}
  BY DEF Named, n
<1>6. Named(left) = {list[i].digest : i \in (1..n) \ gone}
  BY <1>2, <1>3
<1>7. Named(left) = {d \in Named(list) : Shown(at, d)}
  BY <1>4, <1>5, <1>6, Zenon
<1> QED
  BY <1>7 DEF gone, left

\* A push leaves exact lists, and its roll-back what was there.
LEMMA PutLists ==
  ASSUME NEW repo, Listing(repo), NEW q, q.digest \in Digests, q.media_type \in MediaTypes,
         NEW p, IsPut(p), p.digest = q.digest, p.reference = q.reference,
         p.prev_manifest = repo.manifests[q.digest],
         q.reference \in Tags => p.prev_tag = repo.tags[q.reference]
  PROVE  /\ Listing(put_manifest(repo, q))
         /\ IsRepo(Undo(put_manifest(repo, q), p))
         /\ Alike(Undo(put_manifest(repo, q), p), repo)
<1> DEFINE new == put_manifest(repo, q)
           old == repo.referrers
           s == subject[q.digest]
           x == build_referrer(q)
<1>1. IsRepo(repo) /\ old \in [Digests -> Seq(Descriptors)]
  BY DEF Listing
<1>2. /\ IsRepo(new)
      /\ new.manifests = [repo.manifests EXCEPT ![q.digest] = [media_type |-> q.media_type,
                                                               body |-> q.digest]]
  BY <1>1, PutFields, Zenon
<1>3. new.referrers = [t \in Digests |-> IF t = s THEN Append(old[t], x) ELSE old[t]]
  BY <1>1 DEF put_manifest, IsRepo
<1>4. x \in Descriptors /\ x.digest = q.digest
  BY BuildReferrer
<1>5. Held(new.manifests) = Held(repo.manifests) \cup {q.digest}
  <2>1. repo.manifests \in [Digests -> Manifest \cup {NoManifest}]
    BY <1>1 DEF IsRepo
  <2>2. [media_type |-> q.media_type, body |-> q.digest] # NoManifest
    BY MetaAssumption
  <2> QED
    BY <1>2, <2>1, <2>2 DEF Held
<1>6. Undo(new, p).referrers =
        [t \in Digests |-> IF t = s THEN SubSeq(new.referrers[t], 1, Len(new.referrers[t]) - 1)
                          ELSE new.referrers[t]]
  <2>1. Undo(new, p) = rollback_put(new, p)
    BY DEF Undo, IsPut
  <2> HIDE DEF new
  <2>2. rollback_put(new, p).referrers =
          [t \in Digests |-> IF t = s THEN SubSeq(new.referrers[t], 1, Len(new.referrers[t]) - 1)
                            ELSE new.referrers[t]]
    BY <1>2 DEF rollback_put, IsRepo
  <2> QED
    BY <2>1, <2>2
<1>7. IsRepo(Undo(new, p))
  BY <1>2, UndoPutFields, Zenon
<1>8. Undo(new, p).manifests = repo.manifests /\ Undo(new, p).tags = repo.tags
  BY <1>1, UndoPut
<1> HIDE DEF new, old, s, x
<1>9. ASSUME NEW t \in Digests
      PROVE  /\ new.referrers[t] \in Seq(Descriptors)
             /\ Undo(new, p).referrers[t] = old[t]
             /\ Named(new.referrers[t]) = {d \in Held(new.manifests) : subject[d] = t}
  <2>1. Named(old[t]) = {d \in Held(repo.manifests) : subject[d] = t}
    BY DEF Listing, Exact, old
  <2>2. old[t] \in Seq(Descriptors)
    BY <1>1
  <2>3. CASE t = s
    <3>1. new.referrers[t] = Append(old[t], x)
      BY <1>3, <2>3
    <3>2. /\ Append(old[t], x) \in Seq(Descriptors)
          /\ SubSeq(Append(old[t], x), 1, Len(Append(old[t], x)) - 1) = old[t]
      BY <1>4, <2>2, AppendTakenBack
    <3>3. Named(new.referrers[t]) = Named(old[t]) \cup {q.digest}
      BY <1>4, <2>2, <3>1, AppendNames
    <3>4. Named(new.referrers[t]) = {d \in Held(new.manifests) : subject[d] = t}
      BY <1>5, <2>1, <2>3, <3>3 DEF s
    <3>5. Undo(new, p).referrers[t] = old[t]
      BY <1>6, <2>3, <3>1, <3>2, Zenon
    <3> QED
      BY <3>1, <3>2, <3>4, <3>5
  <2>4. CASE t # s
    <3>1. new.referrers[t] = old[t] /\ Undo(new, p).referrers[t] = old[t]
      BY <1>3, <1>6, <2>4
    <3>2. Named(new.referrers[t]) = {d \in Held(new.manifests) : subject[d] = t}
      BY <1>5, <2>1, <2>4, <3>1 DEF s
    <3> QED
      BY <2>2, <3>1, <3>2, Zenon
  <2> QED
    BY <2>3, <2>4
<1>10. Listing(new)
  <2>1. new.referrers \in [Digests -> Seq(Descriptors)]
    BY <1>3, <1>9
  <2> QED
    BY <1>2, <1>9, <2>1, Zenon DEF Listing, Exact
<1>11. Undo(new, p).referrers = old
  BY <1>1, <1>6, <1>9
<1> QED
  BY <1>7, <1>8, <1>10, <1>11 DEF new, old, Alike

\* What a delete takes out of the lists, to be put back at the same positions.
Taken(repo, d) ==
  [s \in Digests |-> [i \in Positions(repo.referrers[s], d) |-> repo.referrers[s][i]]]

\* A delete leaves exact lists, and its roll-back what was there, each
\* descriptor at its position.
LEMMA DeleteLists ==
  ASSUME NEW repo, Listing(repo), NEW p, IsDelete(p),
         p.removed_manifest = repo.manifests[p.digest],
         p.removed_tags = {t \in Tags : repo.tags[t] = p.digest},
         p.removed_referrers = Taken(repo, p.digest)
  PROVE  /\ Listing(delete_manifest(repo, p.digest))
         /\ IsRepo(Undo(delete_manifest(repo, p.digest), p))
         /\ Alike(Undo(delete_manifest(repo, p.digest), p), repo)
<1> DEFINE d == p.digest
           new == delete_manifest(repo, d)
           old == repo.referrers
           left(s) == prune(old[s], Positions(old[s], d))
           taken(s) == [i \in Positions(old[s], d) |-> old[s][i]]
<1>1. IsRepo(repo) /\ old \in [Digests -> Seq(Descriptors)] /\ d \in Digests
  BY DEF Listing, IsDelete
<1>2. IsRepo(new) /\ new.manifests = [repo.manifests EXCEPT ![d] = NoManifest]
  BY <1>1, DeleteFields, Zenon
<1>3. new.referrers = [s \in Digests |-> left(s)]
  BY <1>1 DEF delete_manifest, IsRepo
<1>4. p.removed_referrers = [s \in Digests |-> taken(s)]
  BY DEF Taken
<1>5. Held(new.manifests) = Held(repo.manifests) \ {d}
  <2>1. repo.manifests \in [Digests -> Manifest \cup {NoManifest}]
    BY <1>1, Zenon DEF IsRepo
  <2> QED
    BY <1>1, <1>2, <2>1 DEF Held
<1>6. Undo(new, p).referrers = [s \in Digests |-> reinsert(new.referrers[s], p.removed_referrers[s])]
  <2>1. Undo(new, p) = rollback_delete(new, p)
    BY DEF Undo, IsDelete
  <2> HIDE DEF new
  <2>2. rollback_delete(new, p).referrers =
          [s \in Digests |-> reinsert(new.referrers[s], p.removed_referrers[s])]
    BY <1>2 DEF rollback_delete, IsRepo
  <2> QED
    BY <2>1, <2>2
<1>7. IsRepo(Undo(new, p)) /\ Undo(new, p).manifests = repo.manifests /\ Undo(new, p).tags = repo.tags
  BY <1>1, <1>2, UndoDelete, UndoDeleteFields, Zenon
<1>8. ASSUME NEW s \in Digests
      PROVE  /\ left(s) \in Seq(Descriptors)
             /\ Named(left(s)) = Named(old[s]) \ {d}
             /\ reinsert(left(s), taken(s)) = old[s]
  <2>1. old[s] \in Seq(Descriptors)
    BY <1>1, Zenon
  <2>2. /\ Inside(Positions(old[s], d), Len(old[s]))
        /\ left(s) \in Seq(Descriptors)
        /\ Named(left(s)) = Named(old[s]) \ {d}
    BY <2>1, PruneNames
  <2>3. reinsert(left(s), taken(s)) = old[s]
    BY <2>1, <2>2, ReinsertPruned, Zenon
  <2> QED
    BY <2>2, <2>3
<1> HIDE DEF new, old, d, left, taken
<1>9. ASSUME NEW s \in Digests
      PROVE  Named(new.referrers[s]) = {e \in Held(new.manifests) : subject[e] = s}
  <2>1. Named(old[s]) = {e \in Held(repo.manifests) : subject[e] = s}
    BY DEF Listing, Exact, old
  <2>2. Named(new.referrers[s]) = Named(old[s]) \ {d}
    BY <1>3, <1>8, Zenon
  <2> QED
    BY <1>5, <2>1, <2>2, Zenon
<1>10. Listing(new)
  <2>1. new.referrers \in [Digests -> Seq(Descriptors)]
    BY <1>3, <1>8, Zenon
  <2> QED
    BY <1>2, <1>9, <2>1, Zenon DEF Listing, Exact
<1>11. Undo(new, p).referrers = old
  <2>1. \A s \in Digests : new.referrers[s] = left(s) /\ p.removed_referrers[s] = taken(s)
    BY <1>3, <1>4, Zenon
  <2>2. Undo(new, p).referrers = [s \in Digests |-> old[s]]
    BY <1>6, <1>8, <2>1
  <2> QED
    BY <1>1, <2>2
<1> QED
  BY <1>7, <1>10, <1>11, Zenon DEF new, old, d, Alike

----------------------------------------------------------------------------
(* The lists of referrers, and what is on disk. *)

\* Until metadata.json is damaged, the lists are exact in memory, on disk and
\* after a roll-back; what a roll-back would leave is what is on disk, up to
\* the rename, and what is in memory after it.
ListInv ==
  ~corrupted =>
    /\ \A n \in Names : Listing(repos[n]) /\ Listing(Kept(n)) /\ Listing(disk[n])
    /\ \A r \in Requests : pc[r] = "dirsync" => disk = repos
    /\ ~undone /\ (\A r \in Requests : pc[r] # "dirsync") =>
         \A n \in Names : Alike(Kept(n), disk[n])

\* An empty registry has no referrers.
LEMMA ListInit == Init => ListInv
<1> SUFFICES ASSUME Init PROVE ListInv
  OBVIOUS
<1>1. \A n \in Names : repos[n] = EmptyRepo /\ disk[n] = EmptyRepo /\ Kept(n) = EmptyRepo
  BY DEF Init, Kept
<1>2. /\ IsRepo(EmptyRepo) /\ Held(EmptyRepo.manifests) = {}
      /\ EmptyRepo.referrers = [d \in Digests |-> <<>>]
  BY DEF EmptyRepo, IsRepo, Held
<1> HIDE DEF EmptyRepo
<1>3. Named(<<>>) = {} /\ <<>> \in Seq(Descriptors)
  BY DEF Named
<1>4. Listing(EmptyRepo)
  BY <1>2, <1>3 DEF Listing, Exact
<1>5. \A r \in Requests : pc[r] # "dirsync"
  BY Zenon DEF Init
<1> QED
  BY <1>1, <1>4, <1>5 DEF ListInv, Alike

\* A step that leaves the maps and the writer's request alone.
LEMMA ListQuiet ==
  ASSUME ListInv, UNCHANGED <<repos, disk, writer, undone, corrupted>>,
         writer # NoWriter => req'[writer] = req[writer],
         \A r \in Requests : pc'[r] = "dirsync" <=> pc[r] = "dirsync"
  PROVE  ListInv'
<1>1. \A n \in Names : Kept(n)' = Kept(n)
  BY Zenon DEF Kept, Undo
<1> QED
  BY <1>1 DEF ListInv

\* A mutation under the lock: the repository is changed in memory, and a
\* roll-back would leave it as it was.
LEMMA ListMutate ==
  ASSUME MetaType, ListInv, NEW r \in Requests, NEW n \in Names, NEW new,
         writer = NoWriter, writer' = r, repos' = [repos EXCEPT ![n] = new],
         pc' = [pc EXCEPT ![r] = "rename"], req'[r].name = n,
         UNCHANGED <<disk, undone, corrupted>>,
         ~corrupted => Listing(new) /\ IsRepo(Undo(new, req'[r])) /\ Alike(Undo(new, req'[r]), repos[n])
  PROVE  ListInv'
<1> SUFFICES ASSUME ~corrupted PROVE ListInv'
  BY DEF ListInv
<1>1. repos'[n] = new /\ \A k \in Names \ {n} : repos'[k] = repos[k]
  BY DEF MetaType
<1>2. \A s \in Requests : pc[s] # "dirsync" /\ pc'[s] # "dirsync"
  BY MetaAssumption, Zenon DEF MetaType
<1>3. \A k \in Names : Kept(k) = repos[k]
  BY Zenon DEF Kept
<1>4. \A k \in Names : Kept(k)' = IF k = n THEN Undo(new, req'[r]) ELSE repos[k]
  BY <1>1, MetaAssumption DEF Kept
<1>5. ASSUME NEW k \in Names
      PROVE  Listing(repos'[k]) /\ Listing(Kept(k)') /\ Alike(Kept(k)', repos[k])
  <2>1. Listing(repos[k])
    BY DEF ListInv
  <2>2. CASE k = n
    BY <1>1, <1>4, <2>1, <2>2, AlikeLists, Zenon
  <2>3. CASE k # n
    BY <1>1, <1>4, <2>1, <2>3, Zenon DEF Alike
  <2> QED
    BY <2>2, <2>3, Zenon
<1>6. ~undone => \A k \in Names : Alike(Kept(k)', disk[k])
  BY <1>2, <1>3, <1>5 DEF ListInv, Alike
<1>7. \A k \in Names : Listing(disk[k])
  BY DEF ListInv
<1> QED
  BY <1>2, <1>5, <1>6, <1>7, Zenon DEF ListInv

\* A push or a delete that got the lock (put_manifest_with_referrer,
\* delete_manifest).
LEMMA ListPut ==
  ASSUME MetaInv, ListInv, NEW r \in Requests, PutManifest(r), writer' # writer
  PROVE  ListInv'
<1> DEFINE q == req[r]
           n == q.name
           p == req'[r]
<1>t. MetaType
  BY Zenon DEF MetaInv
<1>1. /\ writer = NoWriter /\ writer' = r /\ pc[r] = "verify"
      /\ repos' = [repos EXCEPT ![n] = put_manifest(repos[n], q)]
      /\ pc' = [pc EXCEPT ![r] = "rename"]
      /\ req' = [req EXCEPT ![r] =
           [op |-> "put", name |-> n, reference |-> q.reference, digest |-> q.digest,
            prev_manifest |-> repos[n].manifests[q.digest],
            prev_tag |-> IF q.reference \in Tags THEN repos[n].tags[q.reference]
                         ELSE NoDigest]]
      /\ UNCHANGED <<disk, undone, corrupted>>
  BY Zenon DEF PutManifest
<1>2. q \in Verifying
  BY <1>1, <1>t DEF MetaType
<1>3. q.digest \in Digests /\ q.media_type \in MediaTypes /\ n \in Names
  BY <1>2, Zenon DEF Verifying
<1>4. p = [op |-> "put", name |-> n, reference |-> q.reference, digest |-> q.digest,
           prev_manifest |-> repos[n].manifests[q.digest],
           prev_tag |-> IF q.reference \in Tags THEN repos[n].tags[q.reference]
                        ELSE NoDigest]
  BY <1>1, <1>t, Zenon DEF MetaType
<1> HIDE DEF p, q, n
<1>5. /\ p.op = "put" /\ p.name = n /\ p.digest = q.digest /\ p.reference = q.reference
      /\ p.prev_manifest = repos[n].manifests[q.digest]
      /\ p.prev_tag = IF q.reference \in Tags THEN repos[n].tags[q.reference] ELSE NoDigest
  BY <1>4
<1>6. IsRepo(repos[n])
  BY <1>3, <1>t, Zenon DEF MetaType
<1>7. IsPut(p)
  BY <1>3, <1>5, <1>6, Zenon DEF IsPut, IsRepo
<1>8. ASSUME ~corrupted
      PROVE  /\ Listing(put_manifest(repos[n], q))
             /\ IsRepo(Undo(put_manifest(repos[n], q), p))
             /\ Alike(Undo(put_manifest(repos[n], q), p), repos[n])
  <2>1. Listing(repos[n])
    BY <1>3, <1>8 DEF ListInv
  <2> QED
    BY <1>3, <1>5, <1>7, <2>1, PutLists, Zenon
<1> QED
  BY <1>1, <1>3, <1>5, <1>8, <1>t, ListMutate, Zenon DEF p

\* delete_manifest takes the digest out of the list of its subject.
LEMMA ListDelete ==
  ASSUME MetaInv, ListInv, NEW r \in Requests, NEW n \in Names, NEW d \in Digests,
         DeleteManifest(r, n, d)
  PROVE  ListInv'
<1> DEFINE repo == repos[n]
           p == req'[r]
<1>t. MetaType
  BY Zenon DEF MetaInv
<1>1. /\ writer = NoWriter /\ writer' = r /\ repo.manifests[d] # NoManifest
      /\ repos' = [repos EXCEPT ![n] = delete_manifest(repo, d)]
      /\ pc' = [pc EXCEPT ![r] = "rename"]
      /\ UNCHANGED <<disk, undone, corrupted>>
  BY Zenon DEF DeleteManifest, Stored
<1>2. req' = [req EXCEPT ![r] =
                [op |-> "delete", name |-> n, digest |-> d,
                 removed_manifest |-> repo.manifests[d],
                 removed_tags |-> {t \in Tags : repo.tags[t] = d},
                 removed_referrers |-> Taken(repo, d)]]
  BY Zenon DEF DeleteManifest, Taken
<1>3. p = [op |-> "delete", name |-> n, digest |-> d,
           removed_manifest |-> repo.manifests[d],
           removed_tags |-> {t \in Tags : repo.tags[t] = d},
           removed_referrers |-> Taken(repo, d)]
  BY <1>2, <1>t, Zenon DEF MetaType
<1>4. IsRepo(repo)
  BY <1>t, Zenon DEF MetaType
<1> HIDE DEF p
<1>5. /\ p.op = "delete" /\ p.name = n /\ p.digest = d
      /\ p.removed_manifest = repo.manifests[d]
      /\ p.removed_tags = {t \in Tags : repo.tags[t] = d}
      /\ p.removed_referrers = Taken(repo, d)
  BY <1>3
<1> HIDE DEF repo
<1>6. IsDelete(p)
  BY <1>1, <1>4, <1>5, Zenon DEF IsDelete, IsRepo
<1>7. ASSUME ~corrupted
      PROVE  /\ Listing(delete_manifest(repo, d))
             /\ IsRepo(Undo(delete_manifest(repo, d), p))
             /\ Alike(Undo(delete_manifest(repo, d), p), repo)
  <2>1. Listing(repo)
    BY <1>7 DEF ListInv, repo
  <2> QED
    BY <1>5, <1>6, <2>1, DeleteLists, Zenon
<1> QED
  BY <1>1, <1>5, <1>7, <1>t, ListMutate, Zenon DEF p, repo

\* The snapshot is in place (write_snapshot_atomic).
LEMMA ListRename ==
  ASSUME MetaInv, ListInv, NEW r \in Requests, SaveRename(r)
  PROVE  ListInv'
<1>1. /\ disk' = repos /\ pc' = [pc EXCEPT ![r] = "dirsync"]
      /\ UNCHANGED <<repos, writer, req, corrupted>>
  BY DEF SaveRename
<1>2. \A n \in Names : Kept(n)' = Kept(n)
  BY <1>1, Zenon DEF Kept, Undo
<1>3. pc'[r] = "dirsync"
  BY <1>1 DEF MetaInv, MetaType
<1> QED
  BY <1>1, <1>2, <1>3, Zenon DEF ListInv

\* The lock is given back, and the mutation is on disk or undone (SaveDirSync,
\* SaveFails).
LEMMA ListUnlock ==
  ASSUME MetaInv, ListInv, NEW r \in Requests, SaveDirSync(r) \/ SaveFails(r)
  PROVE  ListInv'
<1> SUFFICES ASSUME ~corrupted PROVE ListInv'
  BY DEF ListInv, SaveDirSync, SaveFails
<1>t. MetaType
  BY DEF MetaInv
<1>1. /\ pc[r] \in {"rename", "dirsync"} /\ writer' = NoWriter
      /\ pc' = [pc EXCEPT ![r] = "idle"] /\ UNCHANGED <<disk, corrupted>>
  BY DEF SaveDirSync, SaveFails, Return
<1>2. writer = r /\ req[r].name \in Names
  BY <1>t, <1>1, Zenon DEF MetaType, IsPut, IsDelete
<1>3. \A n \in Names : Kept(n) = IF n = req[r].name THEN Undo(repos[n], req[r]) ELSE repos[n]
  BY <1>2, MetaAssumption, Zenon DEF Kept
<1>4. \A n \in Names : Kept(n)' = repos'[n]
  BY <1>1 DEF Kept
<1>5. \A s \in Requests : s # r => pc[s] # "dirsync"
  BY <1>2, <1>t, Zenon DEF MetaType
<1>6. \A s \in Requests : pc'[s] # "dirsync"
  BY <1>1, <1>5, <1>t, Zenon DEF MetaType
<1>7. \A n \in Names : Listing(repos[n]) /\ Listing(Kept(n)) /\ Listing(disk[n])
  BY DEF ListInv
<1>8. CASE SaveDirSync(r)
  <2>1. UNCHANGED <<repos, undone>> /\ disk = repos
    BY <1>8, Zenon DEF SaveDirSync, ListInv
  <2> QED
    BY <1>1, <1>4, <1>6, <1>7, <2>1, Zenon DEF ListInv, Alike
<1>9. CASE SaveFails(r)
  <2>1. /\ repos' = [repos EXCEPT ![req[r].name] = Undo(@, req[r])]
        /\ undone' = (undone \/ pc[r] = "dirsync")
    BY <1>9, Zenon DEF SaveFails, Undo
  <2>2. \A n \in Names : repos'[n] = Kept(n)
    BY <1>2, <1>3, <1>t, <2>1, Zenon DEF MetaType
  <2>3. ~undone' => \A n \in Names : Alike(Kept(n), disk[n])
    BY <1>5, <2>1, Zenon DEF ListInv
  <2> QED
    BY <1>1, <1>4, <1>6, <1>7, <2>2, <2>3, Zenon DEF ListInv
<1> QED
  BY <1>8, <1>9, Zenon

\* A restart serves what is on disk (with_persistence, load_snapshot).
LEMMA ListRestart ==
  ASSUME MetaInv, ListInv, Crash \/ Corrupt
  PROVE  ListInv'
<1>1. CASE Corrupt
  BY <1>1 DEF Corrupt, ListInv
<1>2. CASE Crash /\ ~corrupted
  <2>1. /\ repos' = load_snapshot(disk) /\ UNCHANGED <<disk, corrupted>> /\ writer' = NoWriter
        /\ pc' = [r \in Requests |-> "idle"]
    BY <1>2 DEF Crash, Restart
  <2>2. \A n \in Names : Kept(n)' = repos'[n]
    BY <2>1, Zenon DEF Kept
  <2>3. ASSUME NEW n \in Names
        PROVE  Listing(disk[n]) /\ Listing(repos'[n]) /\ Alike(repos'[n], disk[n])
    <3>1. Listing(disk[n]) /\ IsRepo(disk[n]) /\ Addressed(disk[n].manifests)
      BY <1>2, Zenon DEF ListInv, MetaInv, Listing
    <3>2. /\ IsRepo(repos'[n]) /\ repos'[n].tags = disk[n].tags
          /\ repos'[n].manifests = Intact(disk[n].manifests)
      BY <2>1, <3>1, LoadFields, Zenon
    <3>3. repos'[n].referrers = disk[n].referrers
      BY <2>1, <3>1, Zenon DEF load_snapshot, IsRepo
    <3>4. disk[n].manifests \in [Digests -> Manifest \cup {NoManifest}]
      BY <3>1, Zenon DEF IsRepo
    <3>5. Intact(disk[n].manifests) = disk[n].manifests
      BY <3>1, <3>4, Zenon DEF Addressed, Held, Intact
    <3>6. Alike(repos'[n], disk[n])
      BY <3>2, <3>3, <3>5 DEF Alike
    <3> QED
      BY <3>1, <3>2, <3>6, AlikeLists, Zenon
  <2>4. \A r \in Requests : pc'[r] # "dirsync"
    BY <2>1, Zenon
  <2> QED
    BY <2>1, <2>2, <2>3, <2>4, Zenon DEF ListInv
<1>3. CASE Crash /\ corrupted
  BY <1>3 DEF Crash, ListInv
<1> QED
  BY <1>1, <1>2, <1>3, Zenon

\* Every step keeps the lists.
LEMMA ListStep == MetaInv /\ ListInv /\ [Next]_vars => ListInv'
<1> SUFFICES ASSUME MetaInv, ListInv, [Next]_vars PROVE ListInv'
  BY Zenon
<1>t. MetaType
  BY DEF MetaInv
<1>1. ASSUME NEW r \in Requests,
             \/ Put(r)
             \/ \E d \in Blobs \cup Digests : VerifyReferenced(r, d)
             \/ PutManifest(r) /\ UNCHANGED writer
      PROVE  ListInv'
  <2>1. pc[r] \in {"idle", "verify"} /\ writer # r
    BY <1>1, <1>t, Zenon DEF Put, VerifyReferenced, PutManifest, MetaType
  <2>2. /\ UNCHANGED <<repos, disk, writer, undone, corrupted>>
        /\ pc'[r] \in {"idle", "verify"}
        /\ \A s \in Requests \ {r} : pc'[s] = pc[s] /\ req'[s] = req[s]
    <3>1. CASE Put(r)
      BY <1>t, <3>1, Zenon DEF Put, MetaType
    <3>2. CASE \E d \in Blobs \cup Digests : VerifyReferenced(r, d)
      BY <1>t, <3>2, Zenon DEF VerifyReferenced, Return, MetaType
    <3>3. CASE PutManifest(r) /\ UNCHANGED writer
      BY <1>t, <2>1, <3>3, Zenon DEF PutManifest, Return, MetaType
    <3> QED
      BY <1>1, <3>1, <3>2, <3>3, Zenon
  <2>3. \A s \in Requests : pc'[s] = "dirsync" <=> pc[s] = "dirsync"
    BY <2>1, <2>2, Zenon
  <2>4. writer # NoWriter => req'[writer] = req[writer]
    BY <1>t, <2>1, <2>2, Zenon DEF MetaType
  <2> QED
    BY <2>2, <2>3, <2>4, ListQuiet, Zenon
<1>2. ASSUME NEW b \in Blobs, UploadBlob(b) \/ DeleteBlob(b) PROVE ListInv'
  <2>1. UNCHANGED <<repos, disk, writer, undone, corrupted, req, pc>>
    BY <1>2 DEF UploadBlob, DeleteBlob
  <2> QED
    BY <2>1, ListQuiet
<1>3. ASSUME UNCHANGED vars PROVE ListInv'
  <2>1. UNCHANGED <<repos, disk, writer, undone, corrupted, req, pc>>
    BY <1>3 DEF vars
  <2> QED
    BY <2>1, ListQuiet
<1>4. ASSUME NEW r \in Requests, PutManifest(r) PROVE ListInv'
  BY <1>1, <1>4, ListPut
<1> QED
  BY <1>1, <1>2, <1>3, <1>4, ListDelete, ListRename, ListUnlock, ListRestart, Zenon DEF Next

\* When no mutation is in progress, a restart would serve what is served now:
\* a mutation that could not be saved was undone to the last descriptor
\* (rollback_put, rollback_delete, persist_locked).
THEOREM RollbackIsExact == Spec => []MemoryMatchesDisk
<1>1. MetaInv /\ ListInv => MemoryMatchesDisk
  <2> SUFFICES ASSUME MetaInv, ListInv, writer = NoWriter, ~undone, ~corrupted,
                      NEW n \in Names
               PROVE  SameContent(repos[n], disk[n])
    BY Zenon DEF MemoryMatchesDisk
  <2>1. \A r \in Requests : pc[r] # "dirsync"
    BY MetaAssumption, Zenon DEF MetaInv, MetaType
  <2>2. Kept(n) = repos[n]
    BY DEF Kept
  <2>3. Alike(repos[n], disk[n]) /\ Listing(repos[n]) /\ Listing(disk[n])
    BY <2>1, <2>2 DEF ListInv
  <2> QED
    BY <2>3, AlikeLists, Zenon DEF Listing
<1> QED
  BY <1>1, MetaInit, MetaStep, ListInit, ListStep, PTL DEF Spec

\* The referrers served for a subject, with or without a filter, are the
\* stored manifests that declare it, in memory and after a restart, through
\* pushes, deletes, roll-backs and crashes (build_referrer, list_referrers).
THEOREM ReferrersAreExact == Spec => []ReferrersExact
<1>1. ListInv => ReferrersExact
  <2> SUFFICES ASSUME ListInv, ~corrupted, NEW n \in Names, NEW s \in Digests,
                      NEW at \in ArtifactTypes, NEW repo \in {repos[n], disk[n]}
               PROVE  {desc.digest : desc \in Range(list_referrers(repo, s, at))}
                        = {d \in Stored(repo) : subject[d] = s /\ Shown(at, d)}
    BY Zenon DEF ReferrersExact, Shown
  <2> DEFINE list == repo.referrers[s]
             gone == Dropped(list, at)
             served == list_referrers(repo, s, at)
  <2>1. Listing(repo)
    BY DEF ListInv
  <2>2. list \in Seq(Descriptors) /\ Stored(repo) = Held(repo.manifests)
    BY <2>1, Zenon DEF Listing, Stored, Held
  <2>3. Named(list) = {d \in Stored(repo) : subject[d] = s}
    BY <2>1, <2>2 DEF Listing, Exact
  <2>4. /\ Unfiltered(at) => served = list /\ \A d \in Digests : Shown(at, d)
        /\ ~Unfiltered(at) => served = prune(list, gone)
    BY Zenon DEF list_referrers, Dropped, Unfiltered, Shown
  <2>5. ~Unfiltered(at) => Named(prune(list, gone)) = {d \in Named(list) : Shown(at, d)}
    BY <2>2, FilterNames, Zenon
  <2>6. served \in Seq(Descriptors)
    <3>1. Inside(gone, Len(list))
      BY <2>2 DEF Dropped, Inside
    <3>2. prune(list, gone) \in Seq(Descriptors)
      BY <2>2, <3>1, PruneList, Zenon
    <3> QED
      BY <2>2, <2>4, <3>2, Zenon
  <2> HIDE DEF list, gone, served
  <2>7. Named(served) = {d \in Named(list) : Shown(at, d)}
    BY <2>3, <2>4, <2>5, Zenon DEF Stored
  <2>8. Named(served) = {desc.digest : desc \in Range(served)}
    BY <2>6, NamedRange, Zenon
  <2>9. {desc.digest : desc \in Range(served)}
          = {d \in Stored(repo) : subject[d] = s /\ Shown(at, d)}
    BY <2>3, <2>7, <2>8
  <2> QED
    BY <2>9 DEF served
<1> QED
  BY <1>1, MetaInit, MetaStep, ListInit, ListStep, PTL DEF Spec

-----------------------------------------------------------------------------
(* Listings, page by page *)

Ascending(s) == \A i, j \in DOMAIN s : i < j => rank[s[i]] < rank[s[j]]

\* A set of keys of one kind: tags, or names.
OneKind(S) == S \in SUBSET Tags \/ S \in SUBSET Names

\* Keys have places in the order of strings, and no two of a kind the same.
LEMMA Ranked ==
  ASSUME NEW S, OneKind(S)
  PROVE  /\ IsFiniteSet(S)
         /\ \A k \in S : k \in Tags \cup Names /\ rank[k] \in Nat
         /\ \A a, b \in S : rank[a] = rank[b] => a = b
<1>1. CASE S \in SUBSET Tags
  <2>1. IsFiniteSet(S)
    BY <1>1, ReadsAssumption, FS_Subset
  <2> QED
    BY <1>1, <2>1, ReadsAssumption
<1>2. CASE S \in SUBSET Names
  <2>1. IsFiniteSet(S)
    BY <1>2, ReadsAssumption, FS_Subset
  <2> QED
    BY <1>2, <2>1, ReadsAssumption, Zenon
<1> QED
  BY <1>1, <1>2 DEF OneKind

\* The keys up to one, in the order of strings.
UpTo(S, k) == {x \in S : rank[x] <= rank[k]}

\* Further keys have more keys up to them.
LEMMA UpToGrows ==
  ASSUME NEW S, OneKind(S), NEW a \in S, NEW b \in S
  PROVE  /\ Cardinality(UpTo(S, a)) \in 1..Cardinality(S)
         /\ rank[a] < rank[b] => Cardinality(UpTo(S, a)) < Cardinality(UpTo(S, b))
<1>1. IsFiniteSet(S) /\ \A k \in S : rank[k] \in Nat
  BY Ranked
<1>2. UpTo(S, a) \in SUBSET S /\ UpTo(S, b) \in SUBSET S /\ a \in UpTo(S, a) /\ b \in UpTo(S, b)
  BY <1>1 DEF UpTo
<1>3. /\ IsFiniteSet(UpTo(S, a)) /\ IsFiniteSet(UpTo(S, b))
      /\ Cardinality(UpTo(S, a)) <= Cardinality(S)
  BY <1>1, <1>2, FS_Subset
<1>4. /\ Cardinality(UpTo(S, a)) \in Nat /\ Cardinality(UpTo(S, b)) \in Nat
      /\ Cardinality(S) \in Nat
  BY <1>1, <1>3, FS_CardinalityType
<1>5. Cardinality(UpTo(S, a)) # 0
  BY <1>2, <1>3, FS_EmptySet
<1>6. ASSUME rank[a] < rank[b]
      PROVE  Cardinality(UpTo(S, a)) < Cardinality(UpTo(S, b))
  <2>1. UpTo(S, a) \in SUBSET UpTo(S, b) /\ b \notin UpTo(S, a)
    BY <1>1, <1>6 DEF UpTo
  <2>2. UpTo(S, a) # UpTo(S, b)
    BY <1>2, <2>1
  <2>3. /\ Cardinality(UpTo(S, a)) <= Cardinality(UpTo(S, b))
        /\ Cardinality(UpTo(S, a)) = Cardinality(UpTo(S, b)) => UpTo(S, a) = UpTo(S, b)
    BY <1>3, <2>1, FS_Subset, Zenon
  <2> QED
    BY <1>4, <2>2, <2>3
<1> QED
  BY <1>3, <1>4, <1>5, <1>6

\* Every number of keys is that up to some key.
LEMMA UpToOnto ==
  ASSUME NEW S, OneKind(S), NEW p \in 1..Cardinality(S)
  PROVE  \E k \in S : Cardinality(UpTo(S, k)) = p
<1> DEFINE places == 1..Cardinality(S)
           f == [k \in S |-> Cardinality(UpTo(S, k))]
<1>1. IsFiniteSet(S) /\ Cardinality(S) \in Nat
  BY Ranked, FS_CardinalityType, Zenon
<1>2. f \in [S -> places]
  BY UpToGrows
<1>3. ASSUME NEW a \in S, NEW b \in S, f[a] = f[b] PROVE a = b
  <2>1. Cardinality(UpTo(S, a)) = Cardinality(UpTo(S, b)) /\ Cardinality(UpTo(S, a)) \in Nat
    BY <1>1, <1>3, UpToGrows
  <2> HIDE DEF f, places
  <2>2. ~(rank[a] < rank[b]) /\ ~(rank[b] < rank[a])
    BY <2>1, UpToGrows
  <2> QED
    BY <2>2, Ranked
<1>4. IsFiniteSet(places) /\ Cardinality(places) = Cardinality(S)
  BY <1>1, FS_Interval
<1> HIDE DEF f, places
<1>5. f \in Injection(S, places)
  BY <1>2, <1>3 DEF Injection, IsInjective
<1>6. f \in Surjection(S, places)
  BY <1>1, <1>4, <1>5, FS_Injection, Zenon
<1>7. \E k \in S : f[k] = p
  BY <1>6, Zenon DEF Surjection, places
<1> QED
  BY <1>7, Zenon DEF f

\* names.sort(): every key once, in order.
LEMMA Sorted ==
  ASSUME NEW S, OneKind(S)
  PROVE  /\ Cardinality(S) \in Nat
         /\ InOrder(S) \in [1..Cardinality(S) -> S]
         /\ Ascending(InOrder(S))
         /\ \A k \in S : \E i \in 1..Cardinality(S) : InOrder(S)[i] = k
<1> DEFINE places == 1..Cardinality(S)
           s == [i \in places |-> CHOOSE k \in S : Cardinality(UpTo(S, k)) = i]
<1>1. IsFiniteSet(S) /\ Cardinality(S) \in Nat
  BY Ranked, FS_CardinalityType
<1>2. \A i \in places : s[i] \in S /\ Cardinality(UpTo(S, s[i])) = i
  BY UpToOnto
<1>3. ASSUME NEW i \in places, NEW j \in places, i < j PROVE rank[s[i]] < rank[s[j]]
  <2>1. s[i] \in S /\ s[j] \in S /\ Cardinality(UpTo(S, s[i])) < Cardinality(UpTo(S, s[j]))
    BY <1>2, <1>3, Zenon
  <2> HIDE DEF s
  <2>2. /\ rank[s[i]] \in Nat /\ rank[s[j]] \in Nat
        /\ rank[s[i]] = rank[s[j]] => s[i] = s[j]
    BY <2>1, Ranked, Zenon
  <2>3. Cardinality(UpTo(S, s[i])) \in Nat /\ Cardinality(UpTo(S, s[j])) \in Nat
    BY <1>1, <2>1, UpToGrows
  <2>4. ~(rank[s[j]] < rank[s[i]])
    BY <2>1, <2>3, UpToGrows
  <2>5. s[i] # s[j]
    BY <2>1, <2>3
  <2> QED
    BY <2>2, <2>4, <2>5
<1>4. s \in [places -> S] /\ DOMAIN s = places
  BY <1>2
<1> HIDE DEF s
<1>5. /\ InOrder(S) \in [places -> S]
      /\ \A i, j \in DOMAIN InOrder(S) : i < j => rank[InOrder(S)[i]] < rank[InOrder(S)[j]]
  BY <1>3, <1>4, Zenon DEF InOrder
<1>6. IsFiniteSet(places) /\ Cardinality(places) = Cardinality(S)
  BY <1>1, FS_Interval
<1>7. InOrder(S) \in Injection(places, S)
  <2>1. ASSUME NEW i \in places, NEW j \in places, InOrder(S)[i] = InOrder(S)[j] PROVE i = j
    <3>1. InOrder(S)[i] \in S /\ rank[InOrder(S)[i]] \in Nat
      BY <1>5, Ranked, Zenon
    <3> QED
      BY <1>1, <1>5, <2>1, <3>1
  <2> HIDE DEF places
  <2> QED
    BY <1>5, <2>1, Zenon DEF Injection, IsInjective
<1>8. InOrder(S) \in Surjection(places, S)
  <2> HIDE DEF places
  <2> QED
    BY <1>1, <1>6, <1>7, FS_Injection, Zenon
<1>9. \A k \in S : \E i \in places : InOrder(S)[i] = k
  BY <1>8, Zenon DEF Surjection
<1> QED
  BY <1>1, <1>5, <1>9, Zenon DEF Ascending

\* A page: the first of the keys after the cursor, in order, and all of them if
\* they are fewer than were asked for.
LEMMA PageFirst ==
  ASSUME NEW of \in Names \cup {"catalog"}, NEW last, NEW n \in Nat
  PROVE  LET page == Page(of, last, n)
             after == {k \in Keys(of) : last = "none" \/ rank[k] > rank[last]}
         IN  /\ page \in Seq(after)
             /\ Len(page) <= n
             /\ Ascending(page)
             /\ \A k \in after : \/ \E i \in 1..Len(page) : page[i] = k
                                 \/ /\ Len(page) = n
                                    /\ \A i \in 1..Len(page) : rank[page[i]] < rank[k]
<1> DEFINE page == Page(of, last, n)
           after == {k \in Keys(of) : last = "none" \/ rank[k] > rank[last]}
           names == InOrder(after)
           size == Cardinality(after)
           m == IF size < n THEN size ELSE n
<1>1. OneKind(after)
  BY Zenon DEF OneKind, Keys
<1>2. /\ size \in Nat /\ names \in [1..size -> after] /\ Ascending(names)
      /\ \A k \in after : \E i \in 1..size : names[i] = k
      /\ \A k \in after : rank[k] \in Nat
  BY <1>1, Sorted, Ranked, Zenon
<1>3. page = SubSeq(names, 1, IF Len(names) < n THEN Len(names) ELSE n)
  BY Zenon DEF Page
<1> HIDE DEF page, after, names
<1>4. Len(names) = size /\ names \in Seq(after)
  BY <1>2
<1>5. m \in Nat /\ m <= size /\ m <= n /\ (m = size \/ m = n)
  BY <1>2
<1>6. page = SubSeq(names, 1, m)
  BY <1>3, <1>4
<1> HIDE DEF m, size
<1>7. /\ page \in Seq(after) /\ Len(page) = m
      /\ \A i \in 1..m : page[i] = names[i]
  BY <1>4, <1>5, <1>6
<1>8. Ascending(page)
  BY <1>2, <1>5, <1>7 DEF Ascending
<1>9. ASSUME NEW k \in after, \A i \in 1..m : page[i] # k
      PROVE  m = n /\ \A i \in 1..m : rank[page[i]] < rank[k]
  <2>1. PICK j \in 1..size : names[j] = k
    BY <1>2
  <2>2. j \notin 1..m
    BY <1>7, <1>9, <2>1, Zenon
  <2>3. m < j /\ m = n
    BY <1>2, <1>5, <2>2
  <2>4. ASSUME NEW i \in 1..m PROVE rank[page[i]] < rank[k]
    <3>1. i \in 1..size /\ i < j /\ page[i] = names[i]
      BY <1>2, <1>5, <1>7, <2>3
    <3>2. DOMAIN names = 1..size
      BY <1>2
    <3> QED
      BY <1>2, <2>1, <3>1, <3>2, Zenon DEF Ascending
  <2> QED
    BY <2>3, <2>4
<1> QED
  BY <1>5, <1>7, <1>8, <1>9, Zenon DEF page, after

\* A listing under way.
Lister == [of: Names \cup {"catalog"}, n: Nat \ {0}, got: Seq(Tags \cup Names),
           always: SUBSET (Tags \cup Names), ever: SUBSET (Tags \cup Names), more: BOOLEAN]

\* What has been returned is in order and was there once; of the keys that were
\* there throughout, those not returned are yet to come.
Listed(l, keys) ==
  /\ l \in Lister
  /\ l.always \subseteq keys /\ keys \subseteq l.ever
  /\ Ascending(l.got)
  /\ \A i \in 1..Len(l.got) : l.got[i] \in l.ever
  /\ l.more => l.got # <<>>
  /\ \A k \in l.always : \/ \E i \in 1..Len(l.got) : l.got[i] = k
                         \/ l.more /\ rank[l.got[Len(l.got)]] < rank[k]

\* The second page starts after the last key of the first.
Follows(b, a) == \A j \in 1..Len(b) : rank[a[Len(a)]] < rank[b[j]]

\* Where two positions of two joined pages are.
Parts(p, q, i, j) ==
  \/ i \in 1..p /\ j \in 1..p
  \/ \E x, y \in 1..q : i = p + x /\ j = p + y /\ x < y
  \/ i \in 1..p /\ p \in 1..p /\ (i < p \/ i = p) /\ \E y \in 1..q : j = p + y

\* Two positions in p + q: both in the first part, both in the second, or one in
\* each.
LEMMA InParts ==
  ASSUME NEW p \in Nat, NEW q \in Nat, NEW i \in 1..(p + q), NEW j \in 1..(p + q), i < j
  PROVE  Parts(p, q, i, j)
<1> USE DEF Parts
<1>1. CASE j <= p
  BY <1>1
<1>2. CASE p < i
  <2>1. i - p \in 1..q /\ j - p \in 1..q /\ i = p + (i - p) /\ j = p + (j - p) /\ i - p < j - p
    BY <1>2
  <2> QED
    BY <2>1, Zenon
<1>3. CASE i <= p /\ p < j
  <2>1. j - p \in 1..q /\ j = p + (j - p) /\ i \in 1..p /\ p \in 1..p /\ (i < p \/ i = p)
    BY <1>3
  <2> QED
    BY <2>1, Zenon
<1> QED
  BY <1>1, <1>2, <1>3

\* Two pages in order, of which one follows the other, are in order.
LEMMA PagesJoined ==
  ASSUME NEW a \in Seq(Tags \cup Names), NEW b \in Seq(Tags \cup Names),
         Ascending(a), Ascending(b), a # <<>>, Follows(b, a)
  PROVE  /\ a \o b \in Seq(Tags \cup Names) /\ Len(a \o b) = Len(a) + Len(b)
         /\ Ascending(a \o b)
         /\ \A i \in 1..Len(a) : (a \o b)[i] = a[i]
         /\ \A j \in 1..Len(b) : (a \o b)[Len(a) + j] = b[j]
<1> DEFINE c == a \o b
<1>1. /\ c \in Seq(Tags \cup Names) /\ Len(c) = Len(a) + Len(b)
      /\ \A i \in 1..Len(a) : c[i] = a[i]
      /\ \A j \in 1..Len(b) : c[Len(a) + j] = b[j]
  OBVIOUS
<1>2. /\ Len(a) \in Nat \ {0} /\ Len(b) \in Nat
      /\ DOMAIN a = 1..Len(a) /\ DOMAIN b = 1..Len(b) /\ DOMAIN c = 1..(Len(a) + Len(b))
  BY <1>1
<1>3. /\ \A i \in 1..Len(a) : rank[a[i]] \in Nat
      /\ \A j \in 1..Len(b) : rank[b[j]] \in Nat
  BY ReadsAssumption
<1> HIDE DEF c
<1>4. ASSUME NEW i \in 1..(Len(a) + Len(b)), NEW j \in 1..(Len(a) + Len(b)), i < j
      PROVE  rank[c[i]] < rank[c[j]]
  <2>1. CASE i \in 1..Len(a) /\ j \in 1..Len(a)
    <3>1. rank[a[i]] < rank[a[j]]
      BY <1>2, <1>4, <2>1, Zenon DEF Ascending
    <3> QED
      BY <1>1, <2>1, <3>1, Zenon
  <2>2. CASE \E x, y \in 1..Len(b) : i = Len(a) + x /\ j = Len(a) + y /\ x < y
    <3>1. PICK x \in 1..Len(b), y \in 1..Len(b) : i = Len(a) + x /\ j = Len(a) + y /\ x < y
      BY <2>2, Zenon
    <3>2. rank[b[x]] < rank[b[y]]
      BY <1>2, <3>1, Zenon DEF Ascending
    <3> QED
      BY <1>1, <3>1, <3>2, Zenon
  <2>3. CASE /\ i \in 1..Len(a) /\ Len(a) \in 1..Len(a) /\ (i < Len(a) \/ i = Len(a))
             /\ \E y \in 1..Len(b) : j = Len(a) + y
    <3>1. PICK y \in 1..Len(b) : j = Len(a) + y
      BY <2>3, Zenon
    <3>2. rank[a[i]] < rank[a[Len(a)]] \/ i = Len(a)
      BY <1>2, <2>3, Zenon DEF Ascending
    <3>3. c[i] = a[i] /\ c[j] = b[y] /\ rank[a[Len(a)]] < rank[b[y]]
      BY <1>1, <2>3, <3>1, Zenon DEF Follows
    <3>4. rank[a[i]] \in Nat /\ rank[a[Len(a)]] \in Nat /\ rank[b[y]] \in Nat
      BY <1>3, <2>3, Zenon
    <3> QED
      BY <3>2, <3>3, <3>4
  <2>4. Len(a) \in Nat /\ Len(b) \in Nat
    BY <1>2, Zenon
  <2> QED
    <3>1. Parts(Len(a), Len(b), i, j)
      BY <1>4, <2>4, InParts, Zenon
    <3> QED
      BY <2>1, <2>2, <2>3, <3>1, Zenon DEF Parts
<1>5. Ascending(c)
  BY <1>2, <1>4, Zenon DEF Ascending
<1> QED
  BY <1>1, <1>5 DEF c

\* The world changes between two pages.
LEMMA ListedOn ==
  ASSUME NEW l, NEW keys, Listed(l, keys), NEW now \in SUBSET (Tags \cup Names)
  PROVE  Listed([l EXCEPT !.always = @ \cap now, !.ever = @ \cup now], now)
<1> DEFINE m == [l EXCEPT !.always = @ \cap now, !.ever = @ \cup now]
<1>1. l \in Lister
  BY DEF Listed
<1>2. /\ m \in Lister /\ m.got = l.got /\ m.more = l.more
      /\ m.always = l.always \cap now /\ m.ever = l.ever \cup now
  BY <1>1, Zenon DEF Lister
<1> HIDE DEF m
<1>3. Listed(m, now)
  BY <1>2, Zenon DEF Listed
<1> QED
  BY <1>3 DEF m

\* The keys of a listing are of one kind.
LEMMA KeysTyped ==
  ASSUME NEW of
  PROVE  Keys(of) \in SUBSET (Tags \cup Names) /\ Keys(of)' \in SUBSET (Tags \cup Names)
BY DEF Keys

\* The first page.
LEMMA ListedStart ==
  ASSUME NEW of \in Names \cup {"catalog"}, NEW n \in Nat \ {0}
  PROVE  LET page == Page(of, "none", n)
         IN  Listed([of |-> of, n |-> n, got |-> page, always |-> Keys(of), ever |-> Keys(of),
                     more |-> page # <<>> /\ Len(page) = n], Keys(of))
<1> DEFINE page == Page(of, "none", n)
           more == page # <<>> /\ Len(page) = n
           l == [of |-> of, n |-> n, got |-> page, always |-> Keys(of), ever |-> Keys(of),
                 more |-> more]
<1>1. {k \in Keys(of) : "none" = "none" \/ rank[k] > rank["none"]} = Keys(of)
  BY Zenon
<1>2. /\ page \in Seq(Keys(of)) /\ Ascending(page)
      /\ \A k \in Keys(of) : \/ \E i \in 1..Len(page) : page[i] = k
                             \/ /\ Len(page) = n
                                /\ \A i \in 1..Len(page) : rank[page[i]] < rank[k]
  BY <1>1, PageFirst, Zenon
<1>3. Keys(of) \in SUBSET (Tags \cup Names)
  BY KeysTyped
<1>4. more \in BOOLEAN /\ (more <=> page # <<>> /\ Len(page) = n)
  BY Zenon
<1> HIDE DEF page, more
<1>5. /\ page \in Seq(Tags \cup Names) /\ Len(page) \in Nat
      /\ \A i \in 1..Len(page) : page[i] \in Keys(of)
      /\ Len(page) = n => page # <<>> /\ Len(page) \in 1..Len(page)
  BY <1>2, <1>3
<1>6. /\ l \in Lister
      /\ l.always = Keys(of) /\ l.ever = Keys(of) /\ l.got = page /\ l.more = more
  BY <1>3, <1>4, <1>5, Zenon DEF Lister
<1> HIDE DEF l
<1>7. \A k \in Keys(of) : \/ \E i \in 1..Len(page) : page[i] = k
                          \/ more /\ rank[page[Len(page)]] < rank[k]
  BY <1>2, <1>4, <1>5, Zenon
<1>8. /\ Keys(of) \subseteq Keys(of) /\ more => page # <<>>
      /\ \A i \in 1..Len(page) : page[i] \in Keys(of)
  BY <1>4, <1>5, Zenon
<1>9. Listed(l, Keys(of))
  BY <1>2, <1>6, <1>7, <1>8, Zenon DEF Listed
<1> QED
  BY <1>9, Zenon DEF l, page, more

\* The next page, after the last key of the one before.
LEMMA ListedNext ==
  ASSUME NEW l, Listed(l, Keys(l.of)), l.more
  PROVE  LET page == Page(l.of, l.got[Len(l.got)], l.n)
         IN  Listed([l EXCEPT !.got = @ \o page, !.more = page # <<>> /\ Len(page) = l.n],
                    Keys(l.of))
<1> DEFINE last == l.got[Len(l.got)]
           page == Page(l.of, last, l.n)
           more == page # <<>> /\ Len(page) = l.n
           got == l.got \o page
           after == {k \in Keys(l.of) : last = "none" \/ rank[k] > rank[last]}
           m == [l EXCEPT !.got = got, !.more = more]
<1>1. /\ l \in Lister /\ l.got # <<>> /\ Ascending(l.got)
      /\ l.always \subseteq Keys(l.of) /\ Keys(l.of) \subseteq l.ever
      /\ \A i \in 1..Len(l.got) : l.got[i] \in l.ever
      /\ \A k \in l.always : \/ \E i \in 1..Len(l.got) : l.got[i] = k
                             \/ rank[last] < rank[k]
  BY Zenon DEF Listed
<1>2. /\ l.of \in Names \cup {"catalog"} /\ l.n \in Nat \ {0} /\ l.got \in Seq(Tags \cup Names)
  BY <1>1, Zenon DEF Lister
<1>3. last \in Tags \cup Names
  BY <1>1, <1>2
<1>4. last # "none" /\ rank[last] \in Nat
  BY <1>3, ReadsAssumption, Zenon
<1> HIDE DEF last
<1>5. Keys(l.of) \in SUBSET (Tags \cup Names)
  BY KeysTyped
<1>6. /\ page \in Seq(after) /\ Ascending(page)
      /\ \A k \in after : \/ \E i \in 1..Len(page) : page[i] = k
                          \/ /\ Len(page) = l.n
                             /\ \A i \in 1..Len(page) : rank[page[i]] < rank[k]
  BY <1>2, PageFirst, Zenon
<1>7. \A k \in Keys(l.of) : rank[k] \in Nat /\ (k \in after <=> rank[last] < rank[k])
  BY <1>4, <1>5, ReadsAssumption, Zenon
<1>8. after \in SUBSET Keys(l.of)
  BY Zenon
<1>9. more \in BOOLEAN /\ (more <=> page # <<>> /\ Len(page) = l.n)
  BY Zenon
<1> HIDE DEF page, more, after
<1>10. /\ page \in Seq(Tags \cup Names) /\ Len(page) \in Nat
       /\ \A i \in 1..Len(page) : page[i] \in Keys(l.of) /\ rank[last] < rank[page[i]]
       /\ Len(page) = l.n => page # <<>> /\ Len(page) \in 1..Len(page)
  BY <1>2, <1>5, <1>6, <1>7, <1>8
<1>11. Follows(page, l.got)
  BY <1>10, Zenon DEF Follows, last
<1>12. /\ got \in Seq(Tags \cup Names) /\ Len(got) = Len(l.got) + Len(page) /\ Ascending(got)
       /\ \A i \in 1..Len(l.got) : got[i] = l.got[i]
       /\ \A j \in 1..Len(page) : got[Len(l.got) + j] = page[j]
  BY <1>1, <1>2, <1>6, <1>10, <1>11, PagesJoined, Zenon
<1> HIDE DEF got
<1>13. /\ m \in Lister /\ m.always = l.always /\ m.ever = l.ever /\ m.got = got /\ m.more = more
  BY <1>1, <1>9, <1>12, Zenon DEF Lister
<1> HIDE DEF m
<1>14. Len(l.got) \in Nat \ {0}
  BY <1>1, <1>2
<1>15. ASSUME NEW i \in 1..Len(got) PROVE got[i] \in l.ever
  <2>1. i \in 1..Len(l.got) \/ \E j \in 1..Len(page) : i = Len(l.got) + j
    <3>1. Len(l.got) \in Nat /\ Len(page) \in Nat
      BY <1>10, <1>14
    <3>2. i \in 1..(Len(l.got) + Len(page))
      BY <1>12, Zenon
    <3> QED
      BY <3>1, <3>2, InEither, Zenon
  <2> QED
    BY <1>1, <1>10, <1>12, <2>1, Zenon
<1>16. /\ \A i \in 1..Len(l.got) : i \in 1..Len(got)
       /\ \A j \in 1..Len(page) : Len(l.got) + j \in 1..Len(got)
  BY <1>10, <1>12, <1>14
<1>17. ASSUME NEW k \in l.always
       PROVE  (\E i \in 1..Len(got) : got[i] = k) \/ (more /\ rank[got[Len(got)]] < rank[k])
  <2>1. CASE \E i \in 1..Len(l.got) : l.got[i] = k
    BY <1>12, <1>16, <2>1, Zenon
  <2>2. CASE \E j \in 1..Len(page) : page[j] = k
    BY <1>12, <1>16, <2>2, Zenon
  <2>3. CASE Len(page) = l.n /\ \A j \in 1..Len(page) : rank[page[j]] < rank[k]
    <3>1. more /\ got[Len(got)] = page[Len(page)]
      BY <1>9, <1>10, <1>12, <2>3, Zenon
    <3> QED
      BY <1>10, <2>3, <3>1, Zenon
  <2> QED
    BY <1>1, <1>6, <1>7, <2>1, <2>2, <2>3, Zenon
<1>18. more => got # <<>>
  BY <1>12, <1>14, <1>10
<1>19. Listed(m, Keys(l.of))
  BY <1>1, <1>12, <1>13, <1>15, <1>17, <1>18, Zenon DEF Listed
<1> QED
  BY <1>19, Zenon DEF m, got, page, more, last

\* The lister's invariant.
ListingInv == listing = NotListing \/ Listed(listing, Keys(listing.of))

\* A listing under way is not the absence of one.
LEMMA ListedIsListing ==
  ASSUME NEW l, NEW keys, Listed(l, keys)
  PROVE  l # NotListing /\ l.of \in Names \cup {"catalog"}
<1>1. l.of \in Names \cup {"catalog"}
  BY DEF Listed, Lister
<1>2. l.of # "none"
  BY <1>1, ReadsAssumption
<1> QED
  BY <1>1, <1>2 DEF NotListing

\* A push or a delete between two pages.
LEMMA ListingMutate ==
  ASSUME ListingInv, listing' = Observed(listing)
  PROVE  ListingInv'
<1>1. CASE listing = NotListing
  BY <1>1 DEF Observed, ListingInv
<1>2. CASE Listed(listing, Keys(listing.of))
  <2> DEFINE now == IF listing.of = "catalog" THEN {n \in Names : repos'[n].listed}
                    ELSE {t \in Tags : repos'[listing.of].tags[t] # NoDigest}
  <2>1. listing # NotListing
    BY <1>2, ListedIsListing, Zenon
  <2>2. listing' = [listing EXCEPT !.always = @ \cap now, !.ever = @ \cup now]
    BY <2>1, Zenon DEF Observed
  <2>3. now \in SUBSET (Tags \cup Names)
    OBVIOUS
  <2>4. listing \in Lister
    BY <1>2, Zenon DEF Listed
  <2> HIDE DEF now
  <2>5. Listed(listing', now)
    BY <1>2, <2>2, <2>3, ListedOn, Zenon
  <2>6. listing'.of = listing.of
    BY <2>2, <2>4 DEF Lister
  <2>7. Keys(listing.of)' = now
    BY <2>6, Zenon DEF Keys, now
  <2>8. Listed(listing, Keys(listing.of))'
    BY <2>5, <2>7, Zenon DEF Listed, Ascending, Lister
  <2> QED
    BY <2>8 DEF ListingInv
<1> QED
  BY <1>1, <1>2 DEF ListingInv

\* A page is asked for.
LEMMA ListingPage ==
  ASSUME ListingInv, UNCHANGED repos
  PROVE  /\ \A of \in Names \cup {"catalog"}, n \in PageSizes :
               StartListing(of, n) => ListingInv'
         /\ NextPage => ListingInv'
         /\ listing' = listing \/ listing' = NotListing => ListingInv'
<1>1. ASSUME NEW l, NEW keys, Listed(l, keys), listing' = l, Keys(l.of) = keys
      PROVE  ListingInv'
  <2>1. Keys(listing.of)' = keys
    BY <1>1, Zenon DEF Keys
  <2>2. Listed(listing, Keys(listing.of))'
    BY <1>1, <2>1, Zenon DEF Listed, Ascending, Lister
  <2> QED
    BY <2>2, Zenon DEF ListingInv
<1>2. ASSUME NEW of \in Names \cup {"catalog"}, NEW n \in PageSizes, StartListing(of, n)
      PROVE  ListingInv'
  <2> DEFINE page == Page(of, "none", n)
             l == [of |-> of, n |-> n, got |-> page, always |-> Keys(of), ever |-> Keys(of),
                   more |-> page # <<>> /\ Len(page) = n]
  <2>1. n \in Nat \ {0}
    BY ReadsAssumption
  <2>2. Listed(l, Keys(of))
    BY <2>1, ListedStart, Zenon
  <2>3. listing' = l /\ l.of = of
    BY <1>2, Zenon DEF StartListing
  <2> HIDE DEF l
  <2> QED
    BY <1>1, <2>2, <2>3, Zenon
<1>3. ASSUME NextPage PROVE ListingInv'
  <2> DEFINE page == Page(listing.of, listing.got[Len(listing.got)], listing.n)
             l == [listing EXCEPT !.got = @ \o page,
                                  !.more = page # <<>> /\ Len(page) = listing.n]
  <2>1. Listed(listing, Keys(listing.of)) /\ listing.more /\ listing' = l
    BY <1>3, Zenon DEF NextPage, ListingInv
  <2>2. Listed(l, Keys(listing.of))
    BY <2>1, ListedNext, Zenon
  <2>3. listing \in Lister
    BY <2>1, Zenon DEF Listed
  <2>4. l.of = listing.of
    BY <2>3 DEF Lister
  <2> HIDE DEF l
  <2> QED
    BY <1>1, <2>1, <2>2, <2>4, Zenon
<1>4. ASSUME listing' = listing \/ listing' = NotListing PROVE ListingInv'
  BY <1>1, <1>4, Zenon DEF ListingInv, NotListing
<1> QED
  BY <1>2, <1>3, <1>4, Zenon

\* No client lists at first.
LEMMA ListingInit == ReadInit => ListingInv
BY Zenon DEF ReadInit, ListingInv

\* Every step of the readers and of the world keeps it.
LEMMA ListingStep == ListingInv /\ [ReadNext]_<<vars, readVars>> => ListingInv'
<1> SUFFICES ASSUME ListingInv, [ReadNext]_<<vars, readVars>> PROVE ListingInv'
  OBVIOUS
<1>1. ASSUME NEW n \in Names, NEW p \in Pushes, PushManifest(n, p) PROVE ListingInv'
  BY <1>1, ListingMutate, Zenon DEF PushManifest, Mutate
<1>2. ASSUME NEW n \in Names, NEW d \in Digests, DropManifest(n, d) PROVE ListingInv'
  BY <1>2, ListingMutate, Zenon DEF DropManifest, Mutate
<1>3. ASSUME NEW n, NEW reference, NEW range, Pull(n, reference, range) PROVE ListingInv'
  <2>1. UNCHANGED repos /\ UNCHANGED listing
    BY <1>3, Zenon DEF Pull, vars
  <2> QED
    BY <2>1, ListingPage, Zenon
<1>4. ASSUME NEW of \in Names \cup {"catalog"}, NEW n \in PageSizes, StartListing(of, n)
      PROVE  ListingInv'
  <2>1. UNCHANGED repos
    BY <1>4, Zenon DEF StartListing, vars
  <2> QED
    BY <1>4, <2>1, ListingPage, Zenon
<1>5. ASSUME NextPage PROVE ListingInv'
  <2>1. UNCHANGED repos
    BY <1>5, Zenon DEF NextPage, vars
  <2> QED
    BY <1>5, <2>1, ListingPage, Zenon
<1>6. ASSUME Leave PROVE ListingInv'
  <2>1. UNCHANGED repos /\ listing' = NotListing
    BY <1>6, Zenon DEF Leave, vars
  <2> QED
    BY <2>1, ListingPage, Zenon
<1>7. ASSUME UNCHANGED <<vars, readVars>> PROVE ListingInv'
  <2>1. UNCHANGED repos /\ UNCHANGED listing
    BY <1>7, Zenon DEF vars, readVars
  <2> QED
    BY <2>1, ListingPage, Zenon
<1> QED
  BY <1>1, <1>2, <1>3, <1>4, <1>5, <1>6, <1>7, Zenon DEF ReadNext

\* A listing that follows the Link headers to the end has every key that was
\* there all the time and no key twice, whatever is pushed and deleted between
\* its pages (list_tags, list_repositories and their cursor `last`).
THEOREM ListingsAreComplete == ReadSpec => []ListingComplete
<1>1. ASSUME NEW l, NEW keys, Listed(l, keys)
      PROVE  /\ IsInjective(l.got) /\ Range(l.got) \subseteq l.ever
             /\ ~l.more => l.always \subseteq Range(l.got)
  <2>1. /\ l \in Lister /\ Ascending(l.got) /\ \A i \in 1..Len(l.got) : l.got[i] \in l.ever
        /\ \A k \in l.always : \/ \E i \in 1..Len(l.got) : l.got[i] = k
                               \/ l.more
    BY <1>1, Zenon DEF Listed
  <2>2. l.got \in Seq(Tags \cup Names)
    BY <2>1, Zenon DEF Lister
  <2>3. DOMAIN l.got = 1..Len(l.got) /\ \A i \in 1..Len(l.got) : i \in Nat
    BY <2>2
  <2>4. \A i \in DOMAIN l.got : rank[l.got[i]] \in Nat
    BY <2>2, ReadsAssumption
  <2>5. IsInjective(l.got)
    BY <2>1, <2>3, <2>4 DEF Ascending, IsInjective
  <2> QED
    BY <2>1, <2>3, <2>5, Zenon DEF Range
<1>2. ListingInv => ListingComplete
  BY <1>1, Zenon DEF ListingInv, ListingComplete
<1> QED
  BY <1>2, ListingInit, ListingStep, PTL DEF ReadSpec
=============================================================================
