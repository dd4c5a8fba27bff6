------------------------------ MODULE DagWalk ------------------------------
(***************************************************************************)
(* The two walks of ferro-airflow-dag-parser over the syntax tree of a DAG *)
(* file: the Walker of ruff_impl.rs, which extracts the DAGs, and the      *)
(* MarkerVisitor of dynamic_markers.rs, which flags what only Python can   *)
(* resolve.                                                                *)
(*                                                                         *)
(* The file is any sequence of statements: a compound statement opens a    *)
(* block, `Leave` ends it.  The recursion of both walks over the tree is   *)
(* the stack of open blocks.  The walks are separate passes in the code    *)
(* and share nothing; here they take the same statement in one step.  The  *)
(* lists of tasks, edges and markers are sets (the code drops duplicates   *)
(* of the first two).  Where a marker stands is not modelled.              *)
(***************************************************************************)
EXTENDS Integers, Sequences, SequencesExt

CONSTANTS
  Vars,            \* names of variables
  Funs,            \* names of functions
  Tasks,           \* task ids that make_task_id accepts
  BadId,           \* a literal that make_dag_id and make_task_id refuse
  WithItems,       \* the items that a `with` statement may have
  Shifts,          \* `>>` and `<<` expressions
  MAX_WALK_DEPTH,  \* 1024 in the code
  MaxStmts         \* bound: statements of the file

VARIABLES
  dags,          \* Walker::dags: the tasks and edges, and the DAGs around each
  task_aliases,  \* Walker::task_aliases: pairs of a name and a task
  failed,        \* the walk returned Err
  in_dag_ctx,    \* MarkerVisitor::in_dag_ctx
  markers,       \* MarkerVisitor::markers: their kinds
  blocks,        \* the open blocks, innermost last
  stmts,         \* statements so far
  runtime,       \* history: the edges that evaluating the `>>` expressions makes
  partial,       \* history: DAGs with a `>>` expression that is not followed to its end
  looped         \* history: an operator was made in the body of a `for` of a DAG

walker == <<dags, task_aliases, failed>>
visitor == <<in_dag_ctx, markers>>
history == <<runtime, partial, looped>>
vars == <<walker, visitor, blocks, stmts, history>>

NoDag == 0

\* The module itself is the outermost block.  `walked`: the Walker visits the
\* body; `marker`: the length to truncate the aliases to, or -1; `opened`: the
\* MarkerVisitor leaves a DAG context with the block.
Module ==
  [kind |-> "module", dag |-> NoDag, walked |-> TRUE, marker |-> -1,
   opened |-> FALSE, flagging |-> FALSE, branching |-> FALSE]

Top == Last(blocks)
dag_idx == Top.dag

Init ==
  /\ dags = <<>>
  /\ task_aliases = <<>>
  /\ failed = FALSE
  /\ in_dag_ctx = 0
  /\ markers = {}
  /\ blocks = <<Module>>
  /\ stmts = 0
  /\ runtime = {}
  /\ partial = {}
  /\ looped = FALSE

\* The Walker takes a statement only in a block that it visits, and none after
\* it has failed.
Walking == Top.walked /\ ~failed

Enter(b) == blocks' = Append(blocks, b)

Mark(kinds) == markers' = markers \cup kinds

-----------------------------------------------------------------------------
(* ruff_impl.rs: DAGs *)

\* The enclosing DAG and its own.
NewDag == [tasks |-> {}, edges |-> {},
           around |-> IF dag_idx = NoDag THEN {} ELSE {dag_idx} \cup dags[dag_idx].around]

\* parse_dag_call and merge_dag_kwargs: a literal id that is refused ends the walk.
Refused(items) == \E i \in DOMAIN items : items[i].dag /\ items[i].dag_id = BadId

DagItems(items) == SelectSeq(items, LAMBDA it : it.dag)

\* The body belongs to the last DAG among the items.
with_dag(items) ==
  IF DagItems(items) = <<>> THEN dag_idx ELSE Len(dags) + Len(DagItems(items))

(* dynamic_markers.rs: enter_with, scan_dag_kwargs, flag_branching_in_body *)

is_acceptable_schedule_literal(s) == s \in {"string", "none", "ellipsis", "timedelta"}

scan_dag_kwargs(it) ==
  (IF it.dag_id = "dynamic" THEN {"path_stem_dag_id"} ELSE {})
  \cup (IF is_acceptable_schedule_literal(it.schedule) THEN {} ELSE {"dynamic_schedule_expr"})

\* A DAG in the body of an `if` or an `else`.
flag_branching_in_body(items) ==
  IF Top.branching /\ DagItems(items) # <<>> THEN {"import_time_branching"} ELSE {}

\* Every DAG item opens a context; leaving the block closes one.
enter_with(items) ==
  /\ in_dag_ctx' = in_dag_ctx + Len(DagItems(items))
  /\ Mark(UNION {scan_dag_kwargs(DagItems(items)[i]) : i \in DOMAIN DagItems(items)}
          \cup flag_branching_in_body(items))

visit_with(items) ==
  /\ failed' = (failed \/ (Walking /\ Refused(items)))
  /\ dags' = IF Walking /\ ~Refused(items) THEN dags \o [i \in DOMAIN DagItems(items) |-> NewDag]
             ELSE dags
  /\ Enter([Module EXCEPT !.kind = "with", !.walked = Top.walked,
              !.dag = IF Walking /\ ~Refused(items) THEN with_dag(items) ELSE dag_idx,
              !.marker = Len(task_aliases),
              !.opened = DagItems(items) # <<>>])
  /\ enter_with(items)
  /\ UNCHANGED <<task_aliases, history>>

\* Decorators: "dag" is `@dag`, "dag()" is `@dag(...)` also behind a module name,
\* "m.dag" is a bare attribute, which only the MarkerVisitor takes for a DAG;
\* "task" is any task decorator and "task(..)" one with arguments that matter.
match_dag_decorator(d) == d \in {"dag", "dag()"}
marks_dag(d) == d \in {"dag", "dag()", "m.dag"}
is_task_decorator(d) == d \in {"task", "task(..)"}
task_decorator_is_dynamic(d) == d = "task(..)"

visit_decorator_list(d) ==
  IF in_dag_ctx > 0 /\ task_decorator_is_dynamic(d) THEN {"unsupported_task_flow"} ELSE {}

\* A function of a DAG decorator is a DAG named after it; one of a task decorator
\* is a task, and an alias of itself.
visit_function(name, d) ==
  LET isDag == match_dag_decorator(d)
      isTask == is_task_decorator(d) /\ dag_idx # NoDag
  IN
  /\ dags' = IF ~Walking THEN dags
             ELSE IF isDag THEN Append(dags, NewDag)
             ELSE IF isTask THEN [dags EXCEPT ![dag_idx].tasks = @ \cup {name}]
             ELSE dags
  /\ task_aliases' = IF Walking /\ isTask THEN Append(task_aliases, <<name, name>>)
                     ELSE task_aliases
  /\ Enter([Module EXCEPT !.kind = "def", !.walked = Top.walked,
              !.dag = IF isDag /\ Walking THEN Len(dags) + 1 ELSE dag_idx,
              !.marker = IF isDag THEN Len(task_aliases) ELSE -1,
              !.opened = marks_dag(d)])
  /\ in_dag_ctx' = in_dag_ctx + (IF marks_dag(d) THEN 1 ELSE 0)
  /\ Mark(visit_decorator_list(d))
  /\ UNCHANGED <<failed, history>>

\* `if` with a condition that is not constant, its `else`, and the plain blocks.
\* The Walker visits the first body of a statement only; neither walk visits the
\* handlers of a `try` or the `else` of a loop.
Compound(kind) ==
  /\ Enter([Module EXCEPT !.kind = kind, !.dag = dag_idx,
              !.walked = Top.walked /\ kind # "else",
              !.flagging = (kind = "for" /\ in_dag_ctx > 0),
              !.branching = kind \in {"if", "else"}])
  /\ UNCHANGED <<walker, visitor, history>>

\* The end of a block.
Leave ==
  /\ Len(blocks) > 1
  /\ blocks' = Front(blocks)
  /\ task_aliases' = IF Top.marker >= 0 THEN SubSeq(task_aliases, 1, Top.marker)
                     ELSE task_aliases
  /\ in_dag_ctx' = in_dag_ctx - (IF Top.opened THEN 1 ELSE 0)
  /\ UNCHANGED <<dags, failed, markers, stmts, history>>

-----------------------------------------------------------------------------
(* ruff_impl.rs: tasks *)

\* make_task_id, push_unique_task
Refuse(id) == failed' = (failed \/ (Walking /\ dag_idx # NoDag /\ id = BadId))
AddTask(id) ==
  dags' = IF Walking /\ dag_idx # NoDag /\ id # BadId
          THEN [dags EXCEPT ![dag_idx].tasks = @ \cup {id}] ELSE dags

\* Any statement of the body of a `for` that calls an operator is flagged.
Mut_flag_for_stmt(operator) == Mark({})

flag_for_stmt(operator) ==
  Mark(IF Top.flagging /\ operator THEN {"for_loop_task_generation"} ELSE {})

\* name = Call(task_id=id), where the callee may be named like an operator.
visit_assign(name, id, operator) ==
  /\ Refuse(id)
  /\ AddTask(id)
  /\ task_aliases' = IF Walking /\ dag_idx # NoDag /\ id # BadId
                     THEN Append(task_aliases, <<name, id>>) ELSE task_aliases
  /\ flag_for_stmt(operator)
  /\ looped' = (looped \/ (Walking /\ Top.kind = "for" /\ dag_idx # NoDag /\ operator))
  /\ UNCHANGED <<in_dag_ctx, blocks, runtime, partial>>

\* name = DAG(id): a DAG of the file, which no block belongs to.
AssignDag(id) ==
  /\ failed' = (failed \/ (Walking /\ id = BadId))
  /\ dags' = IF Walking /\ id # BadId THEN Append(dags, [NewDag EXCEPT !.around = {}]) ELSE dags
  /\ UNCHANGED <<task_aliases, visitor, blocks, history>>

\* Call(task_id=id) as a statement.
CallStatement(id, operator) ==
  /\ Refuse(id)
  /\ AddTask(id)
  /\ flag_for_stmt(operator)
  /\ looped' = (looped \/ (Walking /\ Top.kind = "for" /\ dag_idx # NoDag /\ operator))
  /\ UNCHANGED <<task_aliases, in_dag_ctx, blocks, runtime, partial>>

\* visit_call: chain(*list), and task_id=f"..." also outside of any DAG.
DynamicCall(kind) ==
  /\ Mark(IF kind = "chain_splat" /\ in_dag_ctx = 0 THEN {} ELSE {kind})
  /\ UNCHANGED <<walker, in_dag_ctx, blocks, history>>

-----------------------------------------------------------------------------
(* ruff_impl.rs: edges.  An expression is a name, a list of names or a shift. *)

IsShift(e) == e.type = "shift"

\* The latest binding of a name.
resolve_to_task_id(name) ==
  LET S == {i \in DOMAIN task_aliases : task_aliases[i][1] = name}
  IN  IF S = {} THEN {} ELSE {task_aliases[CHOOSE i \in S : \A j \in S : j <= i][2]}

RECURSIVE terminal_task_ids(_, _)
terminal_task_ids(e, depth) ==
  IF depth > MAX_WALK_DEPTH THEN {}
  ELSE IF IsShift(e) THEN terminal_task_ids(e.right, depth + 1)
  ELSE IF depth + 1 > MAX_WALK_DEPTH THEN {}
  ELSE UNION {resolve_to_task_id(n) : n \in e.names}

EdgesOf(op, L, R) == IF op = ">>" THEN L \X R ELSE R \X L

\* The chain is not followed past its last shift.
RECURSIVE Mut_collect_shift_edges(_, _)
Mut_collect_shift_edges(e, depth) ==
  IF depth > MAX_WALK_DEPTH THEN {}
  ELSE EdgesOf(e.op, terminal_task_ids(e.left, depth), terminal_task_ids(e.left, depth))
       \cup (IF IsShift(e.left) THEN Mut_collect_shift_edges(e.left, depth + 1) ELSE {})

\* Only the left operand is walked into.
RECURSIVE collect_shift_edges(_, _)
collect_shift_edges(e, depth) ==
  IF depth > MAX_WALK_DEPTH THEN {}
  ELSE EdgesOf(e.op, terminal_task_ids(e.left, depth), terminal_task_ids(e.right, depth))
       \cup (IF IsShift(e.left) THEN collect_shift_edges(e.left, depth + 1) ELSE {})

\* External: what Airflow does with the expression.  Both operands are evaluated,
\* and the value of a shift is its right operand.
RECURSIVE Evaluate(_)
Evaluate(e) ==
  IF ~IsShift(e)
  THEN [value |-> UNION {resolve_to_task_id(n) : n \in e.names}, edges |-> {}]
  ELSE LET l == Evaluate(e.left)  r == Evaluate(e.right)
       IN  [value |-> r.value, edges |-> l.edges \cup r.edges \cup EdgesOf(e.op, l.value, r.value)]

\* A chain without parentheses on the right, and short enough.
RECURSIVE Followed(_, _)
Followed(e, depth) ==
  IsShift(e) => /\ depth < MAX_WALK_DEPTH
                /\ ~IsShift(e.right)
                /\ Followed(e.left, depth + 1)

AddEdges(E) ==
  dags' = IF Walking /\ dag_idx # NoDag
          THEN [dags EXCEPT ![dag_idx].edges = @ \cup E] ELSE dags

Tagged(E) == IF Walking /\ dag_idx # NoDag THEN {dag_idx} \X E ELSE {}

\* An expression statement with `>>` or `<<`.
ShiftStatement(e) ==
  /\ AddEdges(collect_shift_edges(e, 0))
  /\ runtime' = runtime \cup Tagged(Evaluate(e).edges)
  /\ partial' = IF Followed(e, 0) THEN partial ELSE partial \cup {dag_idx}
  /\ UNCHANGED <<task_aliases, failed, visitor, blocks, looped>>

\* name.set_downstream(arg) and name.set_upstream(arg)
SetterStatement(method, name, arg) ==
  LET E == EdgesOf(IF method = "set_downstream" THEN ">>" ELSE "<<",
                   resolve_to_task_id(name), resolve_to_task_id(arg))
  IN  /\ AddEdges(E)
      /\ runtime' = runtime \cup Tagged(E)
      /\ UNCHANGED <<task_aliases, failed, visitor, blocks, partial, looped>>

-----------------------------------------------------------------------------
Statement ==
  \/ \E items \in WithItems : visit_with(items)
  \/ \E n \in Funs, d \in {"none", "dag", "dag()", "m.dag", "task", "task(..)"} :
       visit_function(n, d)
  \/ \E kind \in {"if", "else", "for", "other"} : Compound(kind)
  \/ \E n \in Vars, id \in Tasks \cup {BadId}, operator \in BOOLEAN : visit_assign(n, id, operator)
  \/ \E id \in {"literal", BadId} : AssignDag(id)
  \/ \E id \in Tasks \cup {BadId}, operator \in BOOLEAN : CallStatement(id, operator)
  \/ \E kind \in {"chain_splat", "fstring_task_id"} : DynamicCall(kind)
  \/ \E e \in Shifts : ShiftStatement(e)
  \/ \E m \in {"set_downstream", "set_upstream"}, n \in Vars : \E a \in Vars \ {n} :
       SetterStatement(m, n, a)

Next ==
  \/ /\ stmts < MaxStmts
     /\ stmts' = stmts + 1
     /\ Statement
  \/ Leave

Spec == Init /\ [][Next]_vars

-----------------------------------------------------------------------------
(* Properties *)

Ends(E) == UNION {{e[1], e[2]} : e \in E}

\* An edge of a DAG joins tasks of that DAG or of a DAG around it: a name that was
\* bound in another DAG of the file is out of scope, whatever blocks, functions
\* and task groups lie between (task_aliases in visit_with and visit_function).
EdgesWithinDag ==
  \A i \in DOMAIN dags :
    Ends(dags[i].edges) \subseteq UNION {dags[j].tasks : j \in {i} \cup dags[i].around}

\* The edges taken from `>>`, `<<` and the setters are those that running the
\* expressions makes: none that does not exist, and all of them unless a chain is
\* nested on the right or longer than MAX_WALK_DEPTH (collect_shift_edges,
\* terminal_task_ids).
EdgesAsEvaluated ==
  \A i \in DOMAIN dags :
    LET R == {r[2] : r \in {q \in runtime : q[1] = i}} IN
    /\ dags[i].edges \subseteq R
    /\ i \notin partial => dags[i].edges = R

\* Wherever the Walker extracts tasks, the MarkerVisitor is in a DAG context, so
\* that its markers are not suppressed; and its counter never falls below zero.
ContextWhereDag ==
  /\ in_dag_ctx >= 0
  /\ Top.walked /\ dag_idx # NoDag => in_dag_ctx > 0

\* A file from which an operator in the body of a `for` was extracted, as if it
\* were made once, is flagged for the fallback (flag_for_loop_body).
LoopFlagged == looped => "for_loop_task_generation" \in markers

=============================================================================
