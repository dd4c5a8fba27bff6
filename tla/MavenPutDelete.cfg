\* A DELETE falls between the upload of the bytes and the entry of a PUT.
CONSTANTS
  a = a
  b = b
  sum_a = sum_a
  rel = rel
  snap = snap
  one = one
  jar = jar
  Requests = {r1, r2}
  Versions = {rel, snap}
  Snapshots = {snap}
  Bases = {one}
  base_version <- MCBaseVersion
  Files = {jar}
  Digests = {a, b, sum_a}
  declares <- MCDeclares
  Puts <- MCPuts
  MaxBuilds = 2
  MaxDisturbances = 1
  Faults = {}
  NoDigest = NoDigest
  NoHolder = NoHolder
SPECIFICATION MCSpec
INVARIANT LayoutBlobPresent
