------------------------- MODULE MCGremlinPredicates -------------------------
EXTENDS GremlinPredicates

(* Strings are sequences of code points: "a" = <<1>>, "ba" = <<2, 1>>.    *)
MCLits     == {VInt(1), VInt(2), VFloat(2), VStr(<<1>>), VStr(<<2, 1>>)}
MCKidLits  == {VInt(1), VStr(<<1>>)}
MCStrLits  == {<<1>>, <<2, 1>>}
MCLabelLits == {<<3>>, <<4>>}
MCIdLits   == {VInt(1), VInt(2)}

(* Labels, id and the value of the filtered key; Absent: no such key.     *)
MCElements ==
  [labels : SUBSET MCLabelLits, id : {1, 2},
   val : {Absent, VNull, VInt(1), VFloat(1), VInt(2), VStr(<<1>>), VStr(<<2, 1>>), VStr(<<1, 2>>)}]
(* range(lo, hi) arguments: lo <= hi only, and every pair.                *)
MCRangesOrdered == {r \in (0..MaxOffset) \X (0..MaxOffset) : r[1] <= r[2]}
MCRangesAll     == (0..MaxOffset) \X (0..MaxOffset)
(* Three elements, two of them tied on the key (1 and 1.0), so a second    *)
(* by() decides their order.                                              *)
MCReadElems ==
  {[labels |-> {<<3>>}, id |-> 1, val |-> VInt(1)],
   [labels |-> {<<4>>}, id |-> 2, val |-> VFloat(1)],
   [labels |-> {<<3>>}, id |-> 3, val |-> VInt(2)]}
=============================================================================
