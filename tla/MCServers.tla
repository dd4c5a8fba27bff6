----------------------------- MODULE MCServers -----------------------------
(***************************************************************************)
(* Finite instances for TLC of the servers over a long run: the Cargo      *)
(* registry on a host where things fail (CargoRegistry), and the parts of  *)
(* Servers.  A behaviour is one of them.                                   *)
(***************************************************************************)
EXTENDS CargoRegistry, Servers

CONSTANTS foo, Foo, bar, foo_key, bar_key

\* Two spellings of one crate, and another crate.
MCCanonicalName ==
  [n \in Names |-> IF n = bar THEN bar_key ELSE foo_key]

mcVars == <<vars, serversVars>>

MCInit == Init /\ ServersInit

OnlyCargo == part = "cargo" /\ UNCHANGED serversVars

MCNext ==
  \/ OnlyCargo /\ Next
  \/ UNCHANGED vars /\ ServersNext

MCSpec == MCInit /\ [][MCNext]_mcVars

Proceeds(r) ==
  \/ OnlyCargo /\ Proceed(r)
  \/ UNCHANGED vars /\ OnlyBlobs /\ Accounts!Proceed(r)
  \/ UNCHANGED vars /\ OnlyServer /\ Server!Proceed(r)

Acquires(r) ==
  \/ OnlyCargo /\ Acquire(r)
  \/ UNCHANGED vars /\ OnlyBlobs /\ Accounts!StoreLock(r)

\* tokio polls a handler that can go on, and its locks are FIFO-fair: a handler
\* that waits for one gets it if it is released again and again.  axum::serve
\* returns once there is nothing left to wait for.
Fairness ==
  /\ \A r \in Requests \cup Handlers : WF_mcVars(Proceeds(r)) /\ SF_mcVars(Acquires(r))
  /\ WF_mcVars(UNCHANGED vars /\ OnlyServer /\ Server!Stopped)

FairSpec == MCSpec /\ Fairness

----------------------------------------------------------------------------
(* Properties *)

\* Every store and every delete of a blob is answered: the accounting mutex is
\* released on every path (store_blob_counted, delete_blob).
EveryStoreReturns == Accounts!EveryStoreReturns

\* Once told to, the server stops (serve, shutdown_signal).
ShutdownDrains == Server!ShutdownDrains

=============================================================================
