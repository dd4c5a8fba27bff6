----------------------------- MODULE HttpServer -----------------------------
(***************************************************************************)
(* The life of the two registry binaries (serve.rs and metrics.rs of       *)
(* ferro-oci-server and ferro-cargo-registry-server, which share this      *)
(* code): boot from the environment, requests behind the metrics           *)
(* middleware, scrapes of /metrics, and the graceful shutdown.  What the   *)
(* handlers do is the subject of the other modules; here a handler only    *)
(* runs, and a publish adds to what the scrapes count.                     *)
(*                                                                         *)
(* An address is what the boot tells apart: one that does not parse, a     *)
(* wildcard host, port 0, or an address that remote clients can use.       *)
(***************************************************************************)
EXTENDS Naturals, FiniteSets

CONSTANTS
  Requests,
  MaxRequests, \* bound on the requests accepted
  MaxVersions  \* bound on the versions published

VARIABLES
  env,         \* the environment of the process
  phase,       \* "boot", "listening", "draining", "stopped" or "failed"
  origin,      \* the API host advertised in config.json
  run,         \* where each request is
  in_flight,
  requests_total,
  index,       \* the crates and the versions there are
  gauges,      \* crates_total and crate_versions
  sampled,     \* what each scrape read from the index
  reported,    \* what the last step rendered, if it answered a scrape
  accepted,    \* history: requests accepted
  dropped,     \* history: requests whose handler was dropped
  seen         \* history: the states of the index since each scrape began;
               \* empty if another scrape ran meanwhile

vars == <<env, phase, origin, run, in_flight, requests_total, index, gauges, sampled,
          reported, accepted, dropped, seen>>

None == [crates |-> 0, versions |-> 0]

Addresses == {"unparsable", "wildcard", "ephemeral", "reachable"}
Environments ==
  [server: {"oci", "cargo"}, listen: Addresses \cup {"unset"},
   api: {"unset", "empty", "explicit"}]

Scraping == {"sample", "set_crates", "set_versions", "encode"}

Init ==
  /\ env \in Environments
  /\ phase = "boot"
  /\ origin = "none"
  /\ run = [r \in Requests |-> "idle"]
  /\ in_flight = 0
  /\ requests_total = 0
  /\ index = None
  /\ gauges = None
  /\ sampled = [r \in Requests |-> None]
  /\ reported = {}
  /\ accepted = 0
  /\ dropped = 0
  /\ seen = [r \in Requests |-> {}]

----------------------------------------------------------------------------
(* serve.rs: Config and serve *)

\* DEFAULT_LISTEN is a wildcard address; an empty API host counts as unset.
from_vars(e) ==
  [listen |-> IF e.listen = "unset" THEN "wildcard" ELSE e.listen,
   api_host |-> IF e.api = "explicit" THEN {"explicit"} ELSE {}]

\* The origin to advertise; none if it could not be fetched from.
resolve_api_host_checked(config) ==
  IF config.api_host # {} THEN config.api_host
  ELSE {config.listen} \ {"wildcard", "ephemeral"}

\* The boot: the address must parse and there must be an origin, and then the
\* storage directory or the socket may still fail.
Boot(origins) ==
  /\ phase = "boot"
  /\ \/ /\ from_vars(env).listen # "unparsable"
        /\ origin' \in origins
        /\ phase' = "listening"
     \/ phase' = "failed" /\ UNCHANGED origin
  /\ UNCHANGED <<env, run, in_flight, requests_total, index, gauges, sampled, reported,
                 accepted, dropped, seen>>

serve_oci == env.server = "oci" /\ Boot({"none"})

serve_cargo == env.server = "cargo" /\ Boot(resolve_api_host_checked(from_vars(env)))

----------------------------------------------------------------------------
(* metrics.rs: track_metrics *)

\* The middleware up to the handler.  A scrape is a request like any other.
track_metrics(r) ==
  /\ phase = "listening"
  /\ run[r] = "idle"
  /\ accepted < MaxRequests
  /\ in_flight' = in_flight + 1
  /\ accepted' = accepted + 1
  /\ reported' = {}
  /\ \E step \in {"handle", "publish", "sample"} :
       /\ run' = [run EXCEPT ![r] = step]
       /\ seen' = IF step # "sample" THEN seen
                  ELSE LET busy == {o \in Requests : run[o] \in Scraping}
                       IN [o \in Requests |->
                            IF o \in busy THEN {}
                            ELSE IF o = r /\ busy = {} THEN {index} ELSE seen[o]]
  /\ UNCHANGED <<env, phase, origin, requests_total, index, gauges, sampled, dropped>>

\* The handler is done, and the middleware after it.
Responds(r) ==
  /\ run' = [run EXCEPT ![r] = "idle"]
  /\ in_flight' = in_flight - 1
  /\ requests_total' = requests_total + 1
  /\ sampled' = [sampled EXCEPT ![r] = None]
  /\ seen' = [seen EXCEPT ![r] = {}]
  /\ UNCHANGED <<env, phase, origin, accepted, dropped>>

Respond(r) ==
  /\ run[r] = "handle"
  /\ Responds(r)
  /\ reported' = {}
  /\ UNCHANGED <<index, gauges>>

\* A publish adds a version, of a new crate or of one there is.
Publish(r) ==
  /\ run[r] = "publish"
  /\ run' = [run EXCEPT ![r] = "handle"]
  /\ \/ UNCHANGED index
     \/ /\ index.versions < MaxVersions
        /\ \E new \in 0..1 :
             /\ index.crates + new > 0
             /\ index' = [crates |-> index.crates + new, versions |-> index.versions + 1]
  /\ seen' = [o \in Requests |-> IF seen[o] = {} THEN {} ELSE seen[o] \cup {index'}]
  /\ reported' = {}
  /\ UNCHANGED <<env, phase, origin, in_flight, requests_total, gauges, sampled, accepted,
                 dropped>>

----------------------------------------------------------------------------
(* metrics.rs: metrics_handler *)

Mid(r, from, to) ==
  /\ run[r] = from
  /\ run' = [run EXCEPT ![r] = to]
  /\ reported' = {}
  /\ UNCHANGED <<env, phase, origin, in_flight, requests_total, index, accepted, dropped, seen>>

\* refresh_storage counts under the read lock, and sets the gauges after it.
\* (The OCI server loads one counter and sets one gauge, see OciBlobs.)
Sample(r) ==
  /\ Mid(r, "sample", "set_crates")
  /\ sampled' = [sampled EXCEPT ![r] = index]
  /\ UNCHANGED gauges

SetCrates(r) ==
  /\ Mid(r, "set_crates", "set_versions")
  /\ gauges' = [gauges EXCEPT !.crates = sampled[r].crates]
  /\ UNCHANGED sampled

\* The gauge is added to.
Mut_SetVersions(r) ==
  /\ Mid(r, "set_versions", "encode")
  /\ gauges' = [gauges EXCEPT !.versions = @ + sampled[r].versions]
  /\ UNCHANGED sampled

SetVersions(r) ==
  /\ Mid(r, "set_versions", "encode")
  /\ gauges' = [gauges EXCEPT !.versions = sampled[r].versions]
  /\ UNCHANGED sampled

\* encode renders what the gauges hold now, and the request is answered.
Encode(r) ==
  /\ run[r] = "encode"
  /\ reported' = {[counts |-> gauges, in_flight |-> in_flight, seen |-> seen[r]]}
  /\ Responds(r)
  /\ UNCHANGED <<index, gauges>>

----------------------------------------------------------------------------
(* hyper, the signals and the shutdown *)

\* The client hangs up: the handler is dropped where it awaits, and with it the
\* rest of the middleware.  The scrape of the OCI server awaits nothing.
Hangup(r) ==
  /\ run[r] \in {"handle", "publish"} \cup (IF env.server = "cargo" THEN {"sample"} ELSE {})
  /\ run' = [run EXCEPT ![r] = "idle"]
  /\ dropped' = dropped + 1
  /\ seen' = [seen EXCEPT ![r] = {}]
  /\ reported' = {}
  /\ UNCHANGED <<env, phase, origin, in_flight, requests_total, index, gauges, sampled, accepted>>

\* Either signal; so does the failure to install the handler of either.
shutdown_signal ==
  /\ phase = "listening"
  /\ phase' = "draining"
  /\ reported' = {}
  /\ UNCHANGED <<env, origin, run, in_flight, requests_total, index, gauges, sampled, accepted,
                 dropped, seen>>

\* It waits for the in-flight gauge instead.
Mut_Stopped ==
  /\ phase = "draining"
  /\ in_flight = 0
  /\ phase' = "stopped"
  /\ reported' = {}
  /\ UNCHANGED <<env, origin, run, in_flight, requests_total, index, gauges, sampled, accepted,
                 dropped, seen>>

\* axum::serve has accepted nothing since and returns when the last request is
\* answered.
Stopped ==
  /\ phase = "draining"
  /\ \A r \in Requests : run[r] = "idle"
  /\ phase' = "stopped"
  /\ reported' = {}
  /\ UNCHANGED <<env, origin, run, in_flight, requests_total, index, gauges, sampled, accepted,
                 dropped, seen>>

\* The process is gone.
Exited == phase \in {"stopped", "failed"} /\ UNCHANGED vars

Proceed(r) ==
  Respond(r) \/ Publish(r) \/ Sample(r) \/ SetCrates(r) \/ SetVersions(r) \/ Encode(r)

Next ==
  \/ serve_oci \/ serve_cargo
  \/ \E r \in Requests : track_metrics(r) \/ Proceed(r) \/ Hangup(r)
  \/ shutdown_signal \/ Stopped \/ Exited

----------------------------------------------------------------------------
(* Properties *)

Running == {r \in Requests : run[r] # "idle"}

\* The books of the middleware balance: a request that is answered is counted
\* exactly once, the in-flight gauge is the requests that run and those whose
\* handler was dropped (which it never forgets), and a server that has shut
\* down has left no request unanswered (track_metrics, serve).
RequestsAccounted ==
  /\ in_flight = Cardinality(Running) + dropped
  /\ accepted = requests_total + in_flight
  /\ phase = "stopped" => Running = {}

\* A scrape that no other scrape overlaps reports counts of crates and versions
\* that the index had together while it ran, although the lock is released
\* before the gauges are set (refresh_storage).
ScrapeExact ==
  \A report \in reported : report.seen # {} => report.counts \in report.seen

\* A server that listens never advertises "an unusable wildcard / port-0
\* origin" (serve.rs:93), whatever its environment.
OriginReachable == origin \notin {"wildcard", "ephemeral"}

\* Once told to, the server stops: it waits for the requests that run and takes
\* no new ones (serve, shutdown_signal).
ShutdownDrains == (phase = "draining") ~> (phase = "stopped")

=============================================================================
