\* A referrer is pushed again.
CONSTANTS
  img = img
  idx = idx
  sig = sig
  b1 = b1
  empty = empty
  latest = latest
  old = old
  new = new
  app = app
  other = other
  Requests = {r1}
  Names = {app, other}
  Tags = {latest, old, new}
  Digests = {img, idx, sig}
  Blobs = {b1, empty}
  layers <- MCLayers
  children <- MCChildren
  subject <- MCSubject
  artifactType <- MCArtifactType
  configType <- MCConfigType
  EmptyDescriptor = empty
  MediaTypes = {"image", "index"}
  index_types = {"index"}
  Pushes <- MCPushes
  MaxReferrers = 3
  Faults = {}
  NoDigest = NoDigest
  NoManifest = NoManifest
  NoWriter = NoWriter
  rank <- MCRank
  Size <- MCSize
  PageSizes = {1, 2, 3}
  MaxByte = 3
  MaxMutations = 3
  MaxPages = 3
SPECIFICATION MCSpec
INVARIANT OneDescriptorPerReferrer
