------------------------ MODULE MCGremlinTranslator -------------------------
(* Model-checking instance of GremlinTranslator.  One representative step  *)
(* per group of steps that translate_step lowers alike (out/in/both,       *)
(* outE/inE/bothE, has/hasLabel/hasId/hasNot, dedup/limit/skip,            *)
(* values/id/label, sum/mean/min/max/fold).                                *)
EXTENDS GremlinTranslator

MCSources ==
  {[kind |-> "V", ids |-> FALSE], [kind |-> "V", ids |-> TRUE],
   [kind |-> "E", ids |-> FALSE], [kind |-> "E", ids |-> TRUE],
   [kind |-> "AddV"], [kind |-> "AddE"]}

(* Reading traversals: navigation, filters, paging, projection,            *)
(* aggregation, ordering, as() and an unsupported step.                    *)
ReadSteps ==
  {[kind |-> "Nav"], [kind |-> "NavE"],
   [kind |-> "Has", supported |-> TRUE], [kind |-> "Has", supported |-> FALSE],
   [kind |-> "Distinct"], [kind |-> "Range"],
   [kind |-> "Values", aliases |-> {"age"}],
   [kind |-> "Count", alias |-> "count"], [kind |-> "Sum", alias |-> "sum"],
   [kind |-> "Order"], [kind |-> "As", label |-> "a"], [kind |-> "Other"]}

(* Mutating traversals: addV, addE with from/to (label or traversal),      *)
(* property, drop, plus navigation and as() to give them context.          *)
WriteSteps ==
  {[kind |-> "Nav"], [kind |-> "As", label |-> "a"],
   [kind |-> "AddV"], [kind |-> "AddE"], [kind |-> "Property"], [kind |-> "Drop"],
   [kind |-> "From", label |-> "a"], [kind |-> "From", label |-> Traversal],
   [kind |-> "To", label |-> "a"], [kind |-> "To", label |-> Traversal]}

(* Reading and mutating steps together: every step may follow every other. *)
AllSteps == ReadSteps \cup WriteSteps
=============================================================================
