----------------------------- MODULE MCAirflow -----------------------------
(***************************************************************************)
(* ferro-airflow-dag-parser for TLC: one of its three parts per behaviour, *)
(* the walks, the cache or the scans.  They share no state.                *)
(***************************************************************************)
EXTENDS ParseCache, Sequences

CONSTANTS
  x, y,  \* names of variables
  Vars, Funs, Tasks, BadId, MAX_WALK_DEPTH, MaxStmts,
  MAX_PARSE_NESTING_DEPTH, MAX_PARSE_RECURSION, MaxTokens

VARIABLES
  part,
  dags, task_aliases, failed, in_dag_ctx, markers, blocks, stmts, runtime, partial, looped,
  source

walkVars == <<dags, task_aliases, failed, in_dag_ctx, markers, blocks, stmts, runtime, partial,
              looped>>

Name(n) == [type |-> "names", names |-> {n}]
Names(ns) == [type |-> "names", names |-> ns]
Shift(l, op, r) == [type |-> "shift", left |-> l, op |-> op, right |-> r]

WithItems ==
  LET D == [dag |-> TRUE, dag_id |-> "literal", schedule |-> "timedelta"]
      other == [D EXCEPT !.dag = FALSE]
  IN  {<<D>>, <<other>>, <<D, D>>, <<other, D>>, <<[D EXCEPT !.dag_id = "dynamic"]>>,
       <<[D EXCEPT !.dag_id = BadId, !.schedule = "call"]>>}

\* Chains, also mixed, with a list, nested on the right, and past MAX_WALK_DEPTH.
Shifts ==
  LET xy == Shift(Name(x), ">>", Name(y)) IN
  {xy, Shift(xy, "<<", Name(x)), Shift(Name(y), ">>", xy),
   Shift(Shift(Name(y), "<<", Names({x, y})), ">>", Name(y)),
   Shift(Shift(xy, ">>", Name(x)), ">>", Name(x))}

Walk == INSTANCE DagWalk
Scans == INSTANCE SourceScans

Parts == {"walk", "cache", "scans"}

MCInit ==
  /\ part \in Parts
  /\ Walk!Init
  /\ Init
  /\ part # "cache" => file.source \in Unparsable
  /\ Scans!Init

MCNext ==
  \/ part = "walk" /\ Walk!Next /\ UNCHANGED <<part, vars, source>>
  \/ part = "cache" /\ Next /\ UNCHANGED <<part, walkVars, source>>
  \/ part = "scans" /\ Scans!Next /\ UNCHANGED <<part, walkVars, vars>>

MCSpec ==
  /\ MCInit
  /\ [][MCNext]_<<part, walkVars, vars, source>>
  /\ \A t \in Threads : WF_vars(part = "cache" /\ Step(t))

\* The edges of a DAG are between its own tasks and are the ones that Python
\* would have made of the chain (visit_with, collect_shift_edges).
EdgesExact == Walk!EdgesWithinDag /\ Walk!EdgesAsEvaluated

\* The marker visitor knows whether it is inside a DAG and flags every loop that
\* makes tasks there (enter_with, flag_for_stmt).
MarkersExact == Walk!ContextWhereDag /\ Walk!LoopFlagged

\* A source is refused exactly if it nests too deeply, and a span names the line
\* and column of its offset (lex_reject_reason, line_col).
ScansExact == Scans!RefusedIffDeep /\ Scans!SpansExact

=============================================================================
