\* Publishes: two at once of two spellings of one crate and of another crate, two
\* versions and two tarballs, with downloads.  Mutations: publishes, yanks and owner
\* changes of one version, two logins, and ids that grow past their number.  Both with
\* process crashes and failing saves.  Texts: bodies of up to seven bytes, names of up
\* to five characters, manifests, and polls of index files of up to two lines.
CONSTANTS
  foo = foo
  Foo = Foo
  bar = bar
  foo_key = foo_key
  bar_key = bar_key
  v1 = v1
  d1 = d1
  Requests = {r1, r2}
  Names = {foo, Foo, bar}
  Keys = {foo_key, bar_key}
  canonical_name <- MCCanonicalName
  Versions = {v1, v2}
  Digests = {d1, d2}
  Logins = {alice, bob}
  Ops = {"publish", "download", "yank", "owners"}
  MaxOwnerId = 3
  MaxSnapshots = 3
  Faults = {}
  NoDigest = NoDigest
  NoWriter = NoWriter
SYMMETRY Symmetry
SPECIFICATION MCSpec
INVARIANTS
  EntriesMatchTarballs
  OneDisplayName
  IndexedBlobPresent
  DownloadNeverMissing
  MemoryMatchesDisk
  NoOrphanBlob
  WireExact
PROPERTY RefinesCrateIndex
