\* Two Cargo requests on one version of one crate, on a host where everything fails:
\* clients hang up, the process crashes, power is lost, the snapshot is damaged
\* and the fsync of a directory fails or is not supported.  Two handlers store
\* and delete two blobs; one is dropped, or one look-up fails.  Two handlers
\* work on two upload sessions, one open at a time, with chunks of one and two
\* bytes, a cap of two bytes and a clock that ticks past the TTL.  A server takes
\* three requests, two at a time, in every environment, and is told to stop.
CONSTANTS
  Parts = {"cargo", "blobs", "uploads", "server"}
  BlobDigests = {b1, b2}
  MaxFaults = 1
  Uuids = {u1, u2}
  Unplaced = Unplaced
  max_sessions = 1
  idle_ttl = 1
  max_upload_session_bytes = 2
  U64_MAX = 3
  MaxChunk = 2
  NoSession = NoSession
  MaxRequests = 3
  MaxVersions = 2
  foo = foo
  Foo = Foo
  bar = bar
  foo_key = foo_key
  bar_key = bar_key
  Requests = {r1, r2}
  Handlers = {r1, r2}
  Names = {foo}
  Keys = {foo_key}
  canonical_name <- MCCanonicalName
  Versions = {v1}
  Digests = {d1}
  Logins = {}
  Ops = {"publish", "yank", "download"}
  MaxOwnerId = 0
  MaxSnapshots = 3
  Faults = {"power_loss", "dirsync_error", "dirsync_unsupported", "corruption",
            "disconnect"}
  NoDigest = NoDigest
  NoWriter = NoWriter
  NoHolder = NoHolder
SPECIFICATION FairSpec
INVARIANTS
  
  BlobGaugeExact
  UploadsBounded
  UploadInPlace
  
PROPERTIES
  EveryRequestReturns
  EveryStoreReturns
  
