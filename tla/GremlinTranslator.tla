-------------------------- MODULE GremlinTranslator -------------------------
(***************************************************************************)
(* The Gremlin -> LogicalPlan translator                                   *)
(* (crates/grafeo-engine/src/query/gremlin_translator.rs).                 *)
(*                                                                         *)
(* translate_statement lowers the traversal source, then folds the steps   *)
(* one at a time into a plan, tracking the variable the next step refers   *)
(* to (current_var), a pending step-level addE (pending_edge) and the      *)
(* anonymous-variable counter (var_counter).  The model runs that loop     *)
(* one step per action, the step chosen from a small alphabet.             *)
(*                                                                         *)
(* Every operator the translator emits has at most one input, so a plan   *)
(* is a sequence, bottom (source) first.  An operator is abstracted to its *)
(* kind, the names it binds, the names its expressions reference, and the *)
(* number of literal properties it carries.  Edge types, predicates,      *)
(* literals and sort orders are left out: no property tells them apart.  *)
(***************************************************************************)
EXTENDS Integers, Sequences, FiniteSets, TLC

CONSTANTS
  Sources,    \* traversal sources to try (records, see MC module)
  Steps,      \* step alphabet (records, see MC module)
  Labels,     \* user labels usable in as()/from()/to()
  Traversal,  \* stands for a traversal argument of from()/to()
  NoVar,      \* None of an Option<String>
  NoEdge,     \* None of pending_edge
  MaxSteps    \* bound on the number of steps of a statement

ASSUME MaxSteps \in Nat
ASSUME Traversal \notin Labels /\ NoVar \notin Labels

VARIABLES
  phase,      \* "source", "steps", "addE" (g.addE statement), "done", "error"
  plan,       \* the operators built so far, bottom first
  curVar,     \* current_var
  pending,    \* pending_edge (or, in phase "addE", the edge being collected)
  counter,    \* var_counter
  nSteps,     \* steps consumed
  nAddE       \* history: addE sources and steps consumed

vars == <<phase, plan, curVar, pending, counter, nSteps, nAddE>>

-----------------------------------------------------------------------------
(* next_var / get_current_var: format!("_v{}", n).                         *)
Gen(n) == "_v" \o ToString(n)

(* get_current_var reads the counter without advancing it.                 *)
GetCurrentVar(n) == Gen(n)

Op(kind, binds, uses) == [op |-> kind, binds |-> binds, uses |-> uses, props |-> 0]

(* PendingEdge { from_var: None, to_var: None, properties: [] }.          *)
NewEdge == [from |-> NoVar, to |-> NoVar, props |-> 0]

(* A CreateEdge for a complete edge, bound to a fresh variable.            *)
CreateEdgeOp(e, n) ==
  [op |-> "CreateEdge", binds |-> {Gen(n)}, uses |-> {e.from, e.to}, props |-> e.props]

Result(p, cur, n) == [plan |-> p, cur |-> cur, counter |-> n, ok |-> TRUE]
Failed == [plan |-> <<>>, cur |-> NoVar, counter |-> 0, ok |-> FALSE]

-----------------------------------------------------------------------------
(* translate_source for V(ids): a NodeScan, filtered by id when ids given. *)
SourceV(s) ==
  <<Op("NodeScan", {Gen(0)}, {})>>
    \o (IF s.ids THEN <<Op("Filter", {}, {Gen(0)})>> ELSE <<>>)

(* translate_source for E(ids): NodeScan then a both-direction Expand       *)
(* binding an edge and a target variable, filtered by edge id.             *)
SourceE(s) ==
  <<Op("NodeScan", {Gen(0)}, {}), Op("Expand", {Gen(1), Gen(2)}, {Gen(0)})>>
    \o (IF s.ids THEN <<Op("Filter", {}, {Gen(1)})>> ELSE <<>>)

(* translate_source for addV(label?): a CreateNode with no input.          *)
SourceAddV == <<Op("CreateNode", {Gen(0)}, {})>>

(* Number of next_var calls each source makes.                             *)
SourceVars == [V |-> 1, E |-> 3, AddV |-> 1]

-----------------------------------------------------------------------------
(* translate_step, one operator per group of steps that lower alike.       *)

(* Mutant: next_var reading the counter without advancing it.             *)
NavStepNoAdvance(p, cur, n) == Result(Append(p, Op("Expand", {Gen(n)}, {cur})), Gen(n), n)

(* out/in/both: Expand from current_var to a fresh target, which becomes   *)
(* current.                                                                *)
NavStep(p, cur, n) == Result(Append(p, Op("Expand", {Gen(n)}, {cur})), Gen(n), n + 1)

(* outE/inE/bothE: edge variable first, then target; the edge is current. *)
NavEStep(p, cur, n) ==
  Result(Append(p, Op("Expand", {Gen(n), Gen(n + 1)}, {cur})), Gen(n), n + 2)

(* has/hasLabel/hasId/hasNot: a Filter over current_var; a has() whose     *)
(* predicate translate_predicate does not support fails the statement.    *)
FilterStep(s, p, cur, n) ==
  IF s.supported THEN Result(Append(p, Op("Filter", {}, {cur})), cur, n) ELSE Failed

(* dedup/limit/skip: one operator, no expression; range(lo, hi): Skip     *)
(* then Limit.                                                             *)
PassStep(s, p, cur, n) ==
  IF s.kind = "Range"
  THEN Result(p \o <<Op("Skip", {}, {}), Op("Limit", {}, {})>>, cur, n)
  ELSE Result(Append(p, Op(s.kind, {}, {})), cur, n)

(* values(keys)/id()/label(): a Return of the current element's property, *)
(* id or labels, aliased by key, "id" or "label"; current_var is kept.     *)
MapStep(s, p, cur, n) == Result(Append(p, Op("Return", s.aliases, {cur})), cur, n)

(* count(): Aggregate with no expression; sum/mean/min/max/fold aggregate *)
(* Variable(current_var).                                                  *)
AggStep(s, p, cur, n) ==
  Result(Append(p, Op("Aggregate", {s.alias}, IF s.kind = "Count" THEN {} ELSE {cur})), cur, n)

(* order().by(...): every sort key is an expression over current_var.      *)
OrderStep(p, cur, n) == Result(Append(p, Op("Sort", {}, {cur})), cur, n)

(* as(label), property(k, v), drop(), addV(label?) and the rest.           *)
SideEffectStep(s, p, cur, n) ==
  CASE s.kind = "As"       -> Result(p, s.label, n)
    [] s.kind = "Property" ->
         IF Len(p) > 0 /\ p[Len(p)].op = "CreateNode"
         THEN Result([p EXCEPT ![Len(p)].props = @ + 1], cur, n)
         ELSE Result(Append(p, Op("SetProperty", {}, {cur})), cur, n)
    [] s.kind = "Drop"     -> Result(Append(p, Op("DeleteNode", {}, {cur})), cur, n)
    [] s.kind = "AddV"     -> Result(Append(p, Op("CreateNode", {Gen(n)}, {})), Gen(n), n + 1)
    [] OTHER               -> Result(p, cur, n)

TranslateStep(s, p, cur, n) ==
  CASE s.kind = "Nav"                      -> NavStep(p, cur, n)
    [] s.kind = "NavE"                     -> NavEStep(p, cur, n)
    [] s.kind = "Has"                      -> FilterStep(s, p, cur, n)
    [] s.kind \in {"Distinct", "Limit", "Skip", "Range"} -> PassStep(s, p, cur, n)
    [] s.kind = "Values"                   -> MapStep(s, p, cur, n)
    [] s.kind \in {"Count", "Sum"}         -> AggStep(s, p, cur, n)
    [] s.kind = "Order"                    -> OrderStep(p, cur, n)
    [] OTHER                               -> SideEffectStep(s, p, cur, n)

-----------------------------------------------------------------------------
Init ==
  /\ phase   = "source"
  /\ plan    = <<>>
  /\ curVar  = NoVar
  /\ pending = NoEdge
  /\ counter = 0
  /\ nSteps  = 0
  /\ nAddE   = 0

(* translate_statement, lines before the loop: a g.addE(...) statement     *)
(* goes to translate_add_edge_traversal; any other source is lowered and  *)
(* current_var read from the counter after the source's next_var calls.    *)
TranslateSource(s) ==
  /\ phase = "source"
  /\ IF s.kind = "AddE"
     THEN /\ phase' = "addE"
          /\ pending' = NewEdge
          /\ nAddE' = 1
          /\ UNCHANGED <<plan, curVar, counter>>
     ELSE /\ phase' = "steps"
          /\ plan' = CASE s.kind = "V" -> SourceV(s)
                       [] s.kind = "E" -> SourceE(s)
                       [] OTHER        -> SourceAddV
          /\ counter' = SourceVars[s.kind]
          /\ curVar' = GetCurrentVar(SourceVars[s.kind])
          /\ UNCHANGED <<pending, nAddE>>
  /\ UNCHANGED nSteps

(* Loop body, a step met while an edge is pending: from/to record a label  *)
(* (a traversal argument is an error), to() completes the edge when from  *)
(* is known, property() is collected for the edge.                         *)
PendingEdgeStep(s) ==
  /\ phase = "steps" /\ pending # NoEdge /\ nSteps < MaxSteps
  /\ s.kind \in {"From", "To", "Property"}
  /\ nSteps' = nSteps + 1
  /\ CASE s.kind \in {"From", "To"} /\ s.label = Traversal ->
            /\ phase' = "error"
            /\ UNCHANGED <<plan, curVar, pending, counter>>
       [] s.kind = "From" ->
            /\ pending' = [pending EXCEPT !.from = s.label]
            /\ UNCHANGED <<phase, plan, curVar, counter>>
       [] s.kind = "To" /\ pending.from # NoVar ->
            /\ plan' = Append(plan, CreateEdgeOp([pending EXCEPT !.to = s.label], counter))
            /\ curVar' = Gen(counter)
            /\ counter' = counter + 1
            /\ pending' = NoEdge
            /\ UNCHANGED phase
       [] s.kind = "To" ->
            /\ pending' = [pending EXCEPT !.to = s.label]
            /\ UNCHANGED <<phase, plan, curVar, counter>>
       [] OTHER ->
            /\ pending' = [pending EXCEPT !.props = @ + 1]
            /\ UNCHANGED <<phase, plan, curVar, counter>>
  /\ UNCHANGED nAddE

(* Loop body, any other step: a pending edge with both ends is emitted     *)
(* first; then addE() opens a new pending edge (replacing any open one),   *)
(* and every other step goes through translate_step.                       *)
OrdinaryStep(s) ==
  /\ phase = "steps" /\ nSteps < MaxSteps
  /\ ~(pending # NoEdge /\ s.kind \in {"From", "To", "Property"})
  /\ LET complete == pending # NoEdge /\ pending.from # NoVar /\ pending.to # NoVar
         p1 == IF complete THEN Append(plan, CreateEdgeOp(pending, counter)) ELSE plan
         c1 == IF complete THEN Gen(counter) ELSE curVar
         n1 == IF complete THEN counter + 1 ELSE counter
         pe == IF complete THEN NoEdge ELSE pending
         r  == TranslateStep(s, p1, c1, n1)
     IN IF s.kind = "AddE"
        THEN /\ pending' = NewEdge
             /\ plan' = p1 /\ curVar' = c1 /\ counter' = n1
             /\ nAddE' = nAddE + 1
             /\ UNCHANGED phase
        ELSE /\ pending' = pe
             /\ IF r.ok
                THEN /\ plan' = r.plan /\ curVar' = r.cur /\ counter' = r.counter
                     /\ UNCHANGED phase
                ELSE /\ phase' = "error"
                     /\ UNCHANGED <<plan, curVar, counter>>
             /\ UNCHANGED nAddE
  /\ nSteps' = nSteps + 1

(* After the loop: emit a pending edge that has both ends (one that does   *)
(* not is dropped), then wrap the plan in Return(Variable(current_var))    *)
(* unless it already ends in a Return.                                     *)
FinishStatement ==
  /\ phase = "steps"
  /\ LET complete == pending # NoEdge /\ pending.from # NoVar /\ pending.to # NoVar
         p1 == IF complete THEN Append(plan, CreateEdgeOp(pending, counter)) ELSE plan
         c1 == IF complete THEN Gen(counter) ELSE curVar
     IN /\ plan' = IF Len(p1) > 0 /\ p1[Len(p1)].op = "Return" THEN p1
                   ELSE Append(p1, Op("Return", {c1}, {c1}))
        /\ curVar' = c1
        /\ counter' = IF complete THEN counter + 1 ELSE counter
  /\ phase' = "done"
  /\ UNCHANGED <<pending, nSteps, nAddE>>

(* Mutant: extract_from_to_var passing a traversal argument through.       *)
AddEStatementStepAcceptsTraversal(s) ==
  /\ phase = "addE" /\ nSteps < MaxSteps
  /\ nSteps' = nSteps + 1
  /\ CASE s.kind = "From"     -> pending' = [pending EXCEPT !.from = s.label]
       [] s.kind = "To"       -> pending' = [pending EXCEPT !.to = s.label]
       [] s.kind = "Property" -> pending' = [pending EXCEPT !.props = @ + 1]
       [] OTHER               -> UNCHANGED pending
  /\ UNCHANGED <<phase, plan, curVar, counter, nAddE>>

(* translate_add_edge_traversal, loop body: from/to/property are collected *)
(* (extract_from_to_var rejects a traversal), every other step ignored.    *)
AddEStatementStep(s) ==
  /\ phase = "addE" /\ nSteps < MaxSteps
  /\ nSteps' = nSteps + 1
  /\ CASE s.kind \in {"From", "To"} /\ s.label = Traversal ->
            phase' = "error" /\ UNCHANGED pending
       [] s.kind = "From"     -> pending' = [pending EXCEPT !.from = s.label] /\ UNCHANGED phase
       [] s.kind = "To"       -> pending' = [pending EXCEPT !.to = s.label] /\ UNCHANGED phase
       [] s.kind = "Property" -> pending' = [pending EXCEPT !.props = @ + 1] /\ UNCHANGED phase
       [] OTHER               -> UNCHANGED <<phase, pending>>
  /\ UNCHANGED <<plan, curVar, counter, nAddE>>

(* translate_add_edge_traversal, after the loop: from and to are required; *)
(* the plan is Return(edge) over CreateEdge over an unlabelled NodeScan.   *)
FinishAddEStatement ==
  /\ phase = "addE"
  /\ IF pending.from = NoVar \/ pending.to = NoVar
     THEN phase' = "error" /\ UNCHANGED <<plan, curVar, counter>>
     ELSE /\ phase' = "done"
          /\ plan' = << Op("NodeScan", {Gen(0)}, {}), CreateEdgeOp(pending, 1),
                        Op("Return", {Gen(1)}, {Gen(1)}) >>
          /\ curVar' = Gen(1)
          /\ counter' = 2
  /\ UNCHANGED <<pending, nSteps, nAddE>>

(* A translation ends in a plan or an error; nothing happens afterwards.   *)
Terminated == phase \in {"done", "error"} /\ UNCHANGED vars

Next ==
  \/ \E s \in Sources : TranslateSource(s)
  \/ \E s \in Steps : PendingEdgeStep(s) \/ OrdinaryStep(s) \/ AddEStatementStep(s)
  \/ FinishStatement
  \/ FinishAddEStatement
  \/ Terminated

Spec == Init /\ [][Next]_vars

-----------------------------------------------------------------------------
(* Properties                                                              *)

Generated == {Gen(i) : i \in 0..(3 + 2 * MaxSteps)}
OpRec == [op : STRING, binds : SUBSET STRING, uses : SUBSET STRING, props : 0..MaxSteps]

TypeOK ==
  /\ phase \in {"source", "steps", "addE", "done", "error"}
  /\ plan \in Seq(OpRec)
  /\ curVar \in STRING \cup {NoVar}
  /\ pending \in {NoEdge} \cup [from : Labels \cup {NoVar}, to : Labels \cup {NoVar},
                                props : 0..MaxSteps]
  /\ counter \in 0..(3 + 2 * MaxSteps)
  /\ nSteps \in 0..MaxSteps
  /\ nAddE \in 0..(MaxSteps + 1)

(* Operators that introduce variables (projections only rename columns).   *)
Introduces(o) == IF o.op \in {"Return", "Aggregate"} THEN {} ELSE o.binds

(* Spec 4.7(4): anonymous variables come from a counter unique to the      *)
(* translation: no two operators of a plan introduce the same _vN, across *)
(* sources, navigation, addV and both addE paths.                          *)
FreshNamesUnique ==
  \A i, j \in DOMAIN plan :
    i # j => Introduces(plan[i]) \cap Introduces(plan[j]) \cap Generated = {}

(* The names an operator may reference: those bound below it since the     *)
(* nearest Return/Aggregate, which project their aliases only.             *)
Visible(p, i) ==
  LET resets == {j \in 1..(i - 1) : p[j].op \in {"Return", "Aggregate"}}
      from   == IF resets = {} THEN 1 ELSE CHOOSE j \in resets : \A r \in resets : r <= j
  IN UNION {p[j].binds : j \in from..(i - 1)}

(* Spec 4.7(1), for anonymous variables: in a finished plan every _vN an   *)
(* expression references is bound by an operator below it.                 *)
GeneratedRefsBound ==
  phase = "done" =>
    \A i \in DOMAIN plan : plan[i].uses \cap Generated \subseteq Visible(plan, i)

(* Spec 4.7(1) and (3), for user labels: a label introduced by as() and    *)
(* referenced later (or by from()/to()) is bound in the plan.              *)
LabelRefsBound ==
  phase = "done" =>
    \A i \in DOMAIN plan : plan[i].uses \cap Labels \subseteq Visible(plan, i)

(* Spec 6: addE requires from() and to(); a statement that translates      *)
(* without error creates one edge per addE it contains.                    *)
AddEHonoured ==
  phase = "done" =>
    Cardinality({i \in DOMAIN plan : plan[i].op = "CreateEdge"}) = nAddE

=============================================================================
