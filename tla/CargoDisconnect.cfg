\* A client hangs up during the clean-up delete of its failed publish.
CONSTANTS
  Parts = {"cargo"}
  BlobDigests = {}
  MaxFaults = 0
  Uuids = {}
  Unplaced = Unplaced
  max_sessions = 0
  idle_ttl = 0
  max_upload_session_bytes = 0
  U64_MAX = 0
  MaxChunk = 0
  NoSession = NoSession
  MaxRequests = 0
  MaxVersions = 0
  foo = foo
  Foo = Foo
  bar = bar
  foo_key = foo_key
  bar_key = bar_key
  Requests = {r1, r2}
  Handlers = {r1, r2}
  Names = {foo, Foo, bar}
  Keys = {foo_key, bar_key}
  canonical_name <- MCCanonicalName
  Versions = {v1}
  Digests = {d1, d2}
  Logins = {}
  Ops = {"publish", "download"}
  MaxOwnerId = 0
  MaxSnapshots = 3
  Faults = {"disconnect"}
  NoDigest = NoDigest
  NoWriter = NoWriter
  NoHolder = NoHolder
SPECIFICATION MCSpec
INVARIANT AckedDownloadable
