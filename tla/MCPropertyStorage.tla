------------------------- MODULE MCPropertyStorage --------------------------
(* Model-checking instance of PropertyStorage: two entities, two property  *)
(* keys, and values of every kind compare_values distinguishes.           *)
EXTENDS PropertyStorage, TLC

(* Null, two ordered ints, a float equal to one of them after widening,    *)
(* and a string (incomparable with numbers, like a bool).                  *)
MCVals == {VNull, VInt(1), VInt(2), VFloat(2), VStr(1)}

(* Entities and keys are interchangeable: every action and property     *)
(* quantifies over them alike.                                             *)
Symmetry == Permutations(Ids) \cup Permutations(Keys)

(* The same with a float NaN added.                                        *)
MCValsNaN == {VNull, VInt(1), VNaN}
=============================================================================
