--------------------------- MODULE MCPropertyLock ---------------------------
(* Model-checking instance of PropertyLock: one column, one entity and a   *)
(* null and two ordered integers, enough for set() to move the zone map   *)
(* and for a half-done set() to be visible to a reader.                    *)
EXTENDS PropertyLock

(* Written out rather than as PS!VNull, PS!VInt: Vals is a parameter of PS. *)
MCVals == {[kind |-> "null", n |-> 0], [kind |-> "int", n |-> 1], [kind |-> "int", n |-> 2]}
=============================================================================
