\* A release and a snapshot of one jar with the same base, two handlers, two
\* builds, sidecars, uploaded metadata, deletes, hang-ups; and the texts of
\* MavenLayout over short pieces.
CONSTANTS
  a = a
  b = b
  sum_a = sum_a
  rel = rel
  snap = snap
  one = one
  jar = jar
  Requests = {r1, r2}
  Versions = {rel, snap}
  Snapshots = {snap}
  Bases = {one}
  base_version <- MCBaseVersion
  Files = {jar}
  Digests = {a, b, sum_a}
  declares <- MCDeclares
  Puts <- MCPuts
  MaxBuilds = 2
  MaxDisturbances = 2
  Faults = {"disconnect"}
  NoDigest = NoDigest
  NoHolder = NoHolder
SYMMETRY Symmetry
SPECIFICATION MCSpec
INVARIANTS
  SharedBlobKept
  
  
  PathsExact
  DocumentsExact
PROPERTY BuildsDistinct
