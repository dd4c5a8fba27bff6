\* Writers: two requests push and delete an image and an index of it, while saves
\* fail, the process crashes and the snapshot is damaged.  Readers: listings and
\* pulls in pieces over three pushes and deletes of two manifests under three tags
\* in two repositories.  Names: texts of up to five characters.  Paths: names of up to
\* three segments.
CONSTANTS
  img = img
  idx = idx
  sig = sig
  b1 = b1
  empty = empty
  latest = latest
  old = old
  new = new
  app = app
  other = other
  Requests = {r1, r2}
  Names = {app, other}
  Tags = {latest, old, new}
  Digests = {img, idx, sig}
  Blobs = {b1, empty}
  layers <- MCLayers
  children <- MCChildren
  subject <- MCSubject
  artifactType <- MCArtifactType
  configType <- MCConfigType
  EmptyDescriptor = empty
  MediaTypes = {"image", "index"}
  index_types = {"index"}
  Pushes <- MCPushes
  MaxReferrers = 3
  Faults = {"dirsync_error", "corruption"}
  NoDigest = NoDigest
  NoManifest = NoManifest
  NoWriter = NoWriter
  rank <- MCRank
  Size <- MCSize
  PageSizes = {1, 2, 3}
  MaxByte = 3
  MaxMutations = 3
  MaxPages = 3
SYMMETRY Symmetry
SPECIFICATION MCSpec
INVARIANTS
  ManifestsSound
  ReferrersExact
  MemoryMatchesDisk
  ReferencesPresent
  ListingComplete
  PullExact
  AddressesExact
