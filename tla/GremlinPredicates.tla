-------------------------- MODULE GremlinPredicates --------------------------
(***************************************************************************)
(* The filter steps of the Gremlin translator (query/gremlin_translator.rs:*)
(* translate_has_step, translate_predicate, build_id_filter and the        *)
(* hasLabel/hasId/hasNot arms of translate_step) as RECURSIVE operators    *)
(* from a step to a LogicalExpression, checked against what the filter     *)
(* means.                                                                  *)
(*                                                                         *)
(* The expression is evaluated as the executor's Filter does (spec 3 and   *)
(* 4.6, its code is not in this source tree): three-valued logic, a        *)
(* comparison with null or across kinds (other than Int64/Float64) is      *)
(* null, a row is kept only when the predicate is true.                    *)
(*                                                                         *)
(* An element has a set of labels, an id and a value of the filtered key   *)
(* (Absent when it has none).  Strings are sequences of character codes.   *)
(***************************************************************************)
EXTENDS Integers, Sequences, FiniteSets

Seqs == INSTANCE SequencesExt

CONSTANTS
  Lits,        \* literal values of top-level predicates and has(k, v)
  KidLits,     \* literal values of the predicates under and/or
  StrLits,     \* string arguments of containing/startingWith/endingWith
  LabelLits,   \* label strings a query may name
  IdLits,      \* id values hasId may name
  Elements,    \* elements a filter is evaluated on
  Absent,      \* the element has no value for the key
  MaxList,     \* bound on the length of within/without/and/or/hasLabel/hasId lists
  MaxOffset,   \* bound on the counts of limit/skip
  RangePairs,  \* the <<lo, hi>> arguments of range(lo, hi)
  Builds,      \* "debug" (overflow checks on) and/or "release" (wrapping)
  Width,       \* bit width of usize, reduced
  NRows,       \* rows reaching a paging step
  ReadElems    \* the elements a read traversal scans

ASSUME /\ MaxOffset < 2^Width
       /\ RangePairs \subseteq (0..MaxOffset) \X (0..MaxOffset)
       /\ Builds \subseteq {"debug", "release"}

VARIABLE step  \* the filter step being translated

-----------------------------------------------------------------------------
(* Values and the spec's comparison (spec 3).                             *)
VNull   == [kind |-> "null", n |-> 0]
VBool(b) == [kind |-> "bool", n |-> b]
VInt(i) == [kind |-> "int", n |-> i]
VFloat(x) == [kind |-> "float", n |-> x]
VStr(s) == [kind |-> "str", n |-> s]
VTrue  == VBool(TRUE)
VFalse == VBool(FALSE)

Order(a, b) == IF a < b THEN "lt" ELSE IF a = b THEN "eq" ELSE "gt"

RECURSIVE LexOrder(_, _)
LexOrder(a, b) ==
  CASE a = <<>> /\ b = <<>> -> "eq"
    [] a = <<>>             -> "lt"
    [] b = <<>>             -> "gt"
    [] Head(a) # Head(b)    -> Order(Head(a), Head(b))
    [] OTHER                -> LexOrder(Tail(a), Tail(b))

Compare(a, b) ==
  CASE a.kind = "str" /\ b.kind = "str"                 -> LexOrder(a.n, b.n)
    [] {a.kind, b.kind} \subseteq {"int", "float"}      -> Order(a.n, b.n)
    [] OTHER                                           -> "none"

IsInfix(t, s) == \E i \in 1..Len(s) + 1, j \in 0..Len(s) : SubSeq(s, i, j) = t

-----------------------------------------------------------------------------
(* LogicalExpression constructors (the parts a filter step produces).     *)
Lit(v)          == [e |-> "lit", v |-> v]
PropE           == [e |-> "prop"]
LabelsE         == [e |-> "labels"]
IdE             == [e |-> "id"]
VarE            == [e |-> "var"]
ListE(vs)       == [e |-> "list", vs |-> vs]
Bin(l, op, r)   == [e |-> "bin", op |-> op, l |-> l, r |-> r]
Un(op, x)       == [e |-> "un", op |-> op, x |-> x]

Ok(x)  == [ok |-> TRUE, x |-> x]
Err(m) == [ok |-> FALSE, err |-> m]

CmpOp  == [eq |-> "Eq", neq |-> "Ne", lt |-> "Lt", lte |-> "Le", gt |-> "Gt", gte |-> "Ge"]
TextOp == [containing |-> "Contains", startingWith |-> "StartsWith", endingWith |-> "EndsWith"]

(* translate_predicate, the arms that do not recurse.                      *)
LeafPredicateBetweenInclusive(p, x) ==
  CASE p.p \in DOMAIN CmpOp  -> Ok(Bin(x, CmpOp[p.p], Lit(p.v)))
    [] p.p = "within"        -> Ok(Bin(x, "In", ListE(p.vs)))
    [] p.p = "without"       -> Ok(Un("Not", Bin(x, "In", ListE(p.vs))))
    [] p.p = "between"       -> Ok(Bin(Bin(x, "Ge", Lit(p.lo)), "And", Bin(x, "Le", Lit(p.hi))))
    [] p.p \in DOMAIN TextOp -> Ok(Bin(x, TextOp[p.p], Lit(p.v)))
    [] OTHER                 -> Err("unsupported")

LeafPredicate(p, x) ==
  CASE p.p \in DOMAIN CmpOp  -> Ok(Bin(x, CmpOp[p.p], Lit(p.v)))
    [] p.p = "within"        -> Ok(Bin(x, "In", ListE(p.vs)))
    [] p.p = "without"       -> Ok(Un("Not", Bin(x, "In", ListE(p.vs))))
    [] p.p = "between"       -> Ok(Bin(Bin(x, "Ge", Lit(p.lo)), "And", Bin(x, "Lt", Lit(p.hi))))
    [] p.p \in DOMAIN TextOp -> Ok(Bin(x, TextOp[p.p], Lit(p.v)))
    [] OTHER                 -> Err("unsupported")

(* translate_predicate: and/or translate preds[0] (an empty list panics    *)
(* on the index) and fold the rest in with And/Or, left to right; the     *)
(* first error of a sub-predicate is returned (the ? operator).           *)
RECURSIVE TranslatePredicate(_, _), Connect(_, _, _, _, _)
Connect(op, ps, i, acc, x) ==
  IF i > Len(ps) THEN Ok(acc)
  ELSE LET r == TranslatePredicate(ps[i], x)
       IN IF r.ok THEN Connect(op, ps, i + 1, Bin(acc, op, r.x), x) ELSE r

TranslatePredicate(p, x) ==
  CASE p.p \in {"and", "or"} ->
         IF p.ps = <<>> THEN Err("panic")
         ELSE LET first == TranslatePredicate(p.ps[1], x)
              IN IF first.ok
                 THEN Connect(IF p.p = "and" THEN "And" ELSE "Or", p.ps, 2, first.x, x)
                 ELSE first
    [] p.p = "not" ->
         LET r == TranslatePredicate(p.q, x) IN IF r.ok THEN Ok(Un("Not", r.x)) ELSE r
    [] OTHER -> LeafPredicate(p, x)

(* translate_has_step                                                      *)
TranslateHasStep(h) ==
  CASE h.h = "key"      -> Ok(Un("IsNotNull", PropE))
    [] h.h = "keyValue" -> Ok(Bin(PropE, "Eq", Lit(h.v)))
    [] h.h = "keyPred"  -> TranslatePredicate(h.pred, PropE)
    [] h.h = "labelKeyValue" ->
         Ok(Bin(Bin(LabelsE, "Eq", Lit(VStr(h.label))), "And", Bin(PropE, "Eq", Lit(h.v))))

(* build_id_filter: one id is an equality, several an In list.            *)
BuildIdFilter(ids) ==
  IF Len(ids) = 1 THEN Bin(IdE, "Eq", Lit(ids[1])) ELSE Bin(IdE, "In", ListE(ids))

(* translate_step, the filter arms: has, hasLabel, hasId, hasNot.         *)
FilterPredicate(s) ==
  CASE s.s = "has"      -> TranslateHasStep(s.has)
    [] s.s = "hasLabel" ->
         Ok(IF Len(s.labels) = 1 THEN Bin(LabelsE, "Eq", Lit(VStr(s.labels[1])))
            ELSE Bin(LabelsE, "In", ListE([i \in DOMAIN s.labels |-> VStr(s.labels[i])])))
    [] s.s = "hasId"    -> Ok(BuildIdFilter(s.ids))
    [] s.s = "hasNot"   -> Ok(Un("IsNull", PropE))

(* usize subtraction: a panic when it underflows with overflow checks on  *)
(* (debug), wrap-around modulo 2^Width without them (release).            *)
USizeSub(a, b, build) ==
  CASE a >= b            -> Ok(a - b)
    [] build = "debug"   -> Err("panic")
    [] OTHER             -> Ok((a - b) % (2^Width))

SkipOp(n)  == [op |-> "Skip", count |-> n]
LimitOp(n) == [op |-> "Limit", count |-> n]

(* Mutant: range() with the Limit below the Skip.                          *)
TranslatePagingLimitFirst(s) ==
  CASE s.s = "limit" -> Ok(<<LimitOp(s.n)>>)
    [] s.s = "skip"  -> Ok(<<SkipOp(s.n)>>)
    [] s.s = "range" ->
         LET count == USizeSub(s.hi, s.lo, s.build)
         IN IF count.ok THEN Ok(<<LimitOp(count.x), SkipOp(s.lo)>>) ELSE count

(* translate_step, the paging arms: limit(n) and skip(n) are one operator; *)
(* range(start, end) is Skip(start) under Limit(end - start).  The plan is *)
(* the operators bottom-up.                                                 *)
TranslatePaging(s) ==
  CASE s.s = "limit" -> Ok(<<LimitOp(s.n)>>)
    [] s.s = "skip"  -> Ok(<<SkipOp(s.n)>>)
    [] s.s = "range" ->
         LET count == USizeSub(s.hi, s.lo, s.build)
         IN IF count.ok THEN Ok(<<SkipOp(s.lo), LimitOp(count.x)>>) ELSE count

(* translate_by_modifier: by(key) is the property, by(T.id) / by(T.label) *)
(* the Id / Labels of the element; identity, any other token and any other *)
(* modifier fall back to the element variable itself.                     *)
TranslateByModifier(by) ==
  CASE by = "key"   -> PropE
    [] by = "id"    -> IdE
    [] by = "label" -> LabelsE
    [] OTHER        -> VarE

(* Mutant: desc translated like asc.                                      *)
TranslateOrderIgnoresDesc(mods) ==
  IF mods = <<>> THEN <<[expr |-> VarE, order |-> "Ascending"]>>
  ELSE [i \in DOMAIN mods |-> [expr |-> TranslateByModifier(mods[i].by), order |-> "Ascending"]]

(* translate_step, the Order arm: no modifier sorts the element ascending; *)
(* otherwise one SortKey per by(), desc Descending, asc and shuffle       *)
(* Ascending.                                                             *)
TranslateOrder(mods) ==
  IF mods = <<>> THEN <<[expr |-> VarE, order |-> "Ascending"]>>
  ELSE [i \in DOMAIN mods |->
          [expr  |-> TranslateByModifier(mods[i].by),
           order |-> IF mods[i].order = "desc" THEN "Descending" ELSE "Ascending"]]

(* translate_step, the Values (one key), Id and Label arms: a Return of    *)
(* the property, the id or the labels of the current element.             *)
TranslateMapStep(m) ==
  CASE m = "values" -> PropE
    [] m = "id"     -> IdE
    [] m = "label"  -> LabelsE

(* translate_statement's loop over V().filter.order().page.map: each step's *)
(* operator is put over the plan so far (bottom-up here).                   *)
TranslateRead(t) ==
     (IF t.filter.s = "none" THEN <<>> ELSE <<[op |-> "Filter", x |-> FilterPredicate(t.filter).x]>>)
  \o <<[op |-> "Sort", keys |-> TranslateOrder(t.order)]>>
  \o (IF t.page.s = "none" THEN <<>> ELSE TranslatePaging(t.page).x)
  \o <<[op |-> "Return", x |-> TranslateMapStep(t.map)]>>

-----------------------------------------------------------------------------
(* The executor's three-valued evaluation (spec 3, 4.6, 9).  A label test *)
(* Labels(v) = 'L' / Labels(v) IN [...] is label membership, as scenario  *)
(* S2's hasLabel('Person') requires.                                      *)
Not3(a)    == IF a = VNull THEN VNull ELSE VBool(~a.n)
And3(a, b) == IF a = VFalse \/ b = VFalse THEN VFalse
              ELSE IF a = VNull \/ b = VNull THEN VNull ELSE VTrue
Or3(a, b)  == IF a = VTrue \/ b = VTrue THEN VTrue
              ELSE IF a = VNull \/ b = VNull THEN VNull ELSE VFalse
AnyOf3(S)  == IF VTrue \in S THEN VTrue ELSE IF VNull \in S THEN VNull ELSE VFalse

Cmp3(a, op, b) ==
  LET c == Compare(a, b) IN
  IF c = "none" THEN VNull
  ELSE VBool(CASE op = "Eq" -> c = "eq"  [] op = "Ne" -> c # "eq"
               [] op = "Lt" -> c = "lt"  [] op = "Le" -> c # "gt"
               [] op = "Gt" -> c = "gt"  [] op = "Ge" -> c # "lt")

Text3(a, op, b) ==
  IF a.kind # "str" \/ b.kind # "str" THEN VNull
  ELSE VBool(CASE op = "Contains"   -> IsInfix(b.n, a.n)
               [] op = "StartsWith" -> Len(b.n) <= Len(a.n) /\ SubSeq(a.n, 1, Len(b.n)) = b.n
               [] op = "EndsWith"   -> Len(b.n) <= Len(a.n)
                                       /\ SubSeq(a.n, Len(a.n) - Len(b.n) + 1, Len(a.n)) = b.n)

PropValue(el) == IF el.val = Absent THEN VNull ELSE el.val

RECURSIVE Eval(_, _)
Eval(x, el) ==
  CASE x.e = "lit"  -> x.v
    [] x.e = "prop" -> PropValue(el)
    [] x.e = "id"   -> VInt(el.id)
    [] x.e = "labels" -> [kind |-> "labels", n |-> el.labels]
    [] x.e = "un" ->
         LET a == Eval(x.x, el) IN
         (CASE x.op = "Not" -> Not3(a)
            [] x.op = "IsNull" -> VBool(a = VNull)
            [] x.op = "IsNotNull" -> VBool(a # VNull))
    [] x.e = "bin" /\ x.op \in {"And", "Or"} ->
         IF x.op = "And" THEN And3(Eval(x.l, el), Eval(x.r, el)) ELSE Or3(Eval(x.l, el), Eval(x.r, el))
    [] x.e = "bin" /\ x.l.e = "labels" ->
         VBool(IF x.op = "Eq" THEN x.r.v.n \in el.labels
               ELSE \E i \in DOMAIN x.r.vs : x.r.vs[i].n \in el.labels)
    [] x.e = "bin" /\ x.op = "In" ->
         LET a == Eval(x.l, el) IN
         IF a = VNull THEN VNull
         ELSE AnyOf3({Cmp3(a, "Eq", x.r.vs[i]) : i \in DOMAIN x.r.vs})
    [] x.e = "bin" /\ x.op \in {"Contains", "StartsWith", "EndsWith"} ->
         Text3(Eval(x.l, el), x.op, Eval(x.r, el))
    [] x.e = "bin" -> Cmp3(Eval(x.l, el), x.op, Eval(x.r, el))

Keeps(x, el) == Eval(x, el) = VTrue

(* The Skip and Limit operators (spec 4.6): counters on the row stream.   *)
SkipRows(rows, n)  == IF n >= Len(rows) THEN <<>> ELSE SubSeq(rows, n + 1, Len(rows))
LimitRows(rows, n) == IF n >= Len(rows) THEN rows ELSE SubSeq(rows, 1, n)

(* Sort (spec 4.6): stable, by the keys in turn; Descending reverses a key. *)
RECURSIVE KeysCmp(_, _, _)
KeysCmp(keys, a, b) ==
  IF keys = <<>> THEN "eq"
  ELSE LET k == Head(keys)
           c == Compare(Eval(k.expr, a), Eval(k.expr, b))
       IN CASE c \in {"eq", "none"}   -> KeysCmp(Tail(keys), a, b)
            [] k.order = "Ascending" -> c
            [] OTHER                 -> IF c = "lt" THEN "gt" ELSE "lt"

SortInsert(keys, sorted, el) ==
  LET greater == {i \in DOMAIN sorted : KeysCmp(keys, el, sorted[i]) = "lt"}
  IN IF greater = {} THEN Append(sorted, el) ELSE Seqs!InsertAt(sorted, Seqs!Min(greater), el)

SortRows(rows, keys) == Seqs!FoldLeft(LAMBDA acc, el : SortInsert(keys, acc, el), <<>>, rows)

RunOp(rows, o) ==
  CASE o.op = "Skip"   -> SkipRows(rows, o.count)
    [] o.op = "Limit"  -> LimitRows(rows, o.count)
    [] o.op = "Filter" -> SelectSeq(rows, LAMBDA el : Keeps(o.x, el))
    [] o.op = "Sort"   -> SortRows(rows, o.keys)
    [] o.op = "Return" -> [i \in DOMAIN rows |-> Eval(o.x, rows[i])]
RunPlan(rows, ops) == Seqs!FoldLeft(RunOp, rows, ops)

-----------------------------------------------------------------------------
(* The inputs: Gremlin filter steps over the constants' literals.         *)
SeqsUpTo(S, n) == UNION {[1..m -> S] : m \in 0..n}

Leaves(L) ==
       {[p |-> c, v |-> v] : c \in DOMAIN CmpOp, v \in L}
  \cup {[p |-> c, vs |-> vs] : c \in {"within", "without"}, vs \in SeqsUpTo(L, MaxList)}
  \cup {[p |-> "between", lo |-> lo, hi |-> hi] : lo, hi \in L}
  \cup {[p |-> c, v |-> VStr(s)] : c \in DOMAIN TextOp, s \in StrLits}

Negated(P) == {[p |-> "not", q |-> q] : q \in P}
Connected(P) == {[p |-> c, ps |-> ps] : c \in {"and", "or"}, ps \in SeqsUpTo(P, MaxList)}

Predicates ==
  LET Kids == Leaves(KidLits) \cup Negated(Leaves(KidLits))
  IN Leaves(Lits) \cup Negated(Leaves(Lits)) \cup Connected(Kids) \cup Negated(Connected(Kids))

HasSteps ==
       {[h |-> "key"]}
  \cup {[h |-> "keyValue", v |-> v] : v \in Lits}
  \cup {[h |-> "keyPred", pred |-> p] : p \in Predicates}
  \cup {[h |-> "labelKeyValue", label |-> l, v |-> v] : l \in LabelLits, v \in Lits}

Steps ==
       {[s |-> "has", has |-> h] : h \in HasSteps}
  \cup {[s |-> "hasLabel", labels |-> ls] : ls \in SeqsUpTo(LabelLits, MaxList) \ {<<>>}}
  \cup {[s |-> "hasId", ids |-> ids] : ids \in SeqsUpTo(IdLits, MaxList) \ {<<>>}}
  \cup {[s |-> "hasNot"]}

FilterKinds == {"has", "hasLabel", "hasId", "hasNot"}

PagingSteps ==
       {[s |-> c, n |-> n] : c \in {"limit", "skip"}, n \in 0..MaxOffset}
  \cup {[s |-> "range", lo |-> r[1], hi |-> r[2], build |-> b] : r \in RangePairs, b \in Builds}

(* V().filter.order().by(..).by(..).page.map over every scan order of    *)
(* ReadElems (scenario S2's shape).                                       *)
ByMods == [by : {"key", "id"}, order : {"asc", "desc", "shuffle"}]
ReadSteps ==
  [s      : {"read"},
   filter : {[s |-> "none"]} \cup {[s |-> "hasLabel", labels |-> <<l>>] : l \in LabelLits}
                     \cup {[s |-> "has", has |-> [h |-> "keyPred", pred |-> [p |-> "gt", v |-> v]]] : v \in KidLits},
   order  : SeqsUpTo(ByMods, 2) \ {<<>>},
   page   : {[s |-> "none"], [s |-> "limit", n |-> 1], [s |-> "skip", n |-> 1],
             [s |-> "range", lo |-> 1, hi |-> 3, build |-> "debug"]},
   map    : {"values", "id", "label"},
   scan   : Seqs!SetToSeqs(ReadElems)]

(* One state per step; the properties quantify over the elements.         *)
Init == step \in Steps \cup PagingSteps \cup ReadSteps
Next == UNCHANGED step
Spec == Init /\ [][Next]_step

-----------------------------------------------------------------------------
(* What a filter step means (spec 3, 6 and TinkerPop's steps): has(k) and  *)
(* hasNot(k) test for a non-null value, has(k, v) is equality, has(L,k,v)  *)
(* adds a label test, hasLabel/hasId are membership, between is [lo, hi),  *)
(* an empty and() holds and an empty or() does not.  Truth is three-valued *)
(* by the spec's comparison; the filter keeps an element when it is true.  *)
(* The outcomes of the spec's comparison for which each Gremlin predicate *)
(* holds, and the text predicates on code-point sequences.                *)
Holds == [eq |-> {"eq"}, neq |-> {"lt", "gt"}, lt |-> {"lt"}, lte |-> {"lt", "eq"},
          gt |-> {"gt"}, gte |-> {"gt", "eq"}]
CmpTruth(x, name, v) ==
  LET c == Compare(x, v) IN IF c = "none" THEN VNull ELSE VBool(c \in Holds[name])

TextTruth(name, x, t) ==
  IF x.kind # "str" THEN VNull
  ELSE VBool(CASE name = "containing"   -> \E i, j \in 0..Len(x.n) : SubSeq(x.n, i + 1, j) = t
               [] name = "startingWith" -> \E j \in 0..Len(x.n) : SubSeq(x.n, 1, j) = t
               [] name = "endingWith"   -> \E i \in 1..Len(x.n) + 1 : SubSeq(x.n, i, Len(x.n)) = t)

RECURSIVE PredTruth(_, _)
PredTruth(p, x) ==
  CASE p.p \in DOMAIN Holds -> CmpTruth(x, p.p, p.v)
    [] p.p = "within"        -> IF x = VNull THEN VNull
                                ELSE AnyOf3({CmpTruth(x, "eq", p.vs[i]) : i \in DOMAIN p.vs})
    [] p.p = "without"       -> Not3(PredTruth([p |-> "within", vs |-> p.vs], x))
    [] p.p = "between"       -> And3(CmpTruth(x, "gte", p.lo), CmpTruth(x, "lt", p.hi))
    [] p.p \in {"containing", "startingWith", "endingWith"} -> TextTruth(p.p, x, p.v.n)
    [] p.p = "and" -> LET T == {PredTruth(p.ps[i], x) : i \in DOMAIN p.ps}
                      IN IF VFalse \in T THEN VFalse ELSE IF VNull \in T THEN VNull ELSE VTrue
    [] p.p = "or"  -> AnyOf3({PredTruth(p.ps[i], x) : i \in DOMAIN p.ps})
    [] p.p = "not" -> Not3(PredTruth(p.q, x))

Present(el) == PropValue(el) # VNull

StepHolds(s, el) ==
  CASE s.s = "has" /\ s.has.h = "key"      -> Present(el)
    [] s.s = "has" /\ s.has.h = "keyValue" -> CmpTruth(PropValue(el), "eq", s.has.v) = VTrue
    [] s.s = "has" /\ s.has.h = "keyPred"  -> PredTruth(s.has.pred, PropValue(el)) = VTrue
    [] s.s = "has" /\ s.has.h = "labelKeyValue" ->
         s.has.label \in el.labels /\ CmpTruth(PropValue(el), "eq", s.has.v) = VTrue
    [] s.s = "hasLabel" -> \E i \in DOMAIN s.labels : s.labels[i] \in el.labels
    [] s.s = "hasId"    -> \E i \in DOMAIN s.ids : s.ids[i] = VInt(el.id)
    [] s.s = "hasNot"   -> ~Present(el)

Translated == FilterPredicate(step)

(* What a paging step selects (TinkerPop): the rows whose 0-based position *)
(* i has i < n (limit), i >= n (skip), lo <= i < hi (range; none when     *)
(* hi < lo, where TinkerPop rejects the range).                           *)
InPage(s, i) ==
  CASE s.s = "limit" -> i < s.n
    [] s.s = "skip"  -> i >= s.n
    [] s.s = "range" -> s.lo <= i /\ i < s.hi

Rows == [i \in 1..NRows |-> i]

(* TinkerPop's order(): a by() compares its key, asc or desc; ties go to   *)
(* the next by(); a shuffle key leaves the order free.  Any order the      *)
(* by()s allow is a correct answer.                                        *)
OrderKey(m, el) == IF m.by = "key" THEN PropValue(el) ELSE VInt(el.id)

RECURSIVE MayPrecede(_, _, _)
MayPrecede(ms, a, b) ==
  \/ ms = <<>>
  \/ Head(ms).order = "shuffle"
  \/ LET c == Compare(OrderKey(Head(ms), a), OrderKey(Head(ms), b))
     IN IF c = "eq" THEN MayPrecede(Tail(ms), a, b)
        ELSE c = (IF Head(ms).order = "asc" THEN "lt" ELSE "gt")

PageOf(pg, rows) ==
  IF pg.s = "none" THEN rows
  ELSE LET idx == SelectSeq([i \in DOMAIN rows |-> i], LAMBDA i : InPage(pg, i - 1))
       IN [k \in DOMAIN idx |-> rows[idx[k]]]

MapOut(m, el) ==
  CASE m = "values" -> PropValue(el)
    [] m = "id"     -> VInt(el.id)
    [] m = "label"  -> [kind |-> "labels", n |-> el.labels]

Answers(t) ==
  LET chosen  == {t.scan[i] : i \in DOMAIN t.scan} \cap
                 {el \in ReadElems : t.filter.s = "none" \/ StepHolds(t.filter, el)}
      ordered == {o \in Seqs!SetToSeqs(chosen) :
                    \A i, j \in DOMAIN o : i < j => MayPrecede(t.order, o[i], o[j])}
  IN {LET pg == PageOf(t.page, o) IN [k \in DOMAIN pg |-> MapOut(t.map, pg[k])] : o \in ordered}

-----------------------------------------------------------------------------
(* FilterMatchesSpec: the Filter the translator builds for a has/hasLabel/ *)
(* hasId/hasNot step (translate_has_step, translate_predicate,            *)
(* build_id_filter) keeps exactly the elements the step selects, for     *)
(* every element and every nesting of not/and/or that translates.         *)
FilterMatchesSpec ==
  step.s \in FilterKinds /\ Translated.ok => \A el \in Elements : Keeps(Translated.x, el) <=> StepHolds(step, el)

(* FilterNoPanic: translating a filter step returns a plan or an error,   *)
(* never a panic, for every predicate nesting (spec 6, 7: a malformed    *)
(* query is an error); translate_predicate indexes preds[0] of and/or    *)
(* without checking the list is non-empty.  TinkerPop rejects an empty    *)
(* and()/or(), so an error there is a correct answer.                     *)
FilterNoPanic == step.s \in FilterKinds => Translated.ok \/ Translated.err # "panic"

(* PagingMatchesSpec: the Skip/Limit plan of limit(n), skip(n) and        *)
(* range(lo, hi) returns exactly the rows the step selects, in order; for *)
(* hi < lo an error would also do, a panic would not.  range computes     *)
(* end - start in usize.                                                  *)
PagingMatchesSpec ==
  step.s \in {"limit", "skip", "range"} =>
    LET r == TranslatePaging(step) IN
    \/ r.ok /\ RunPlan(Rows, r.x) = SelectSeq(Rows, LAMBDA row : InPage(step, row - 1))
    \/ ~r.ok /\ r.err # "panic" /\ step.hi < step.lo

(* ReadTraversalMatchesSpec: the plan of V(), a filter, order() with one  *)
(* or two by()s, limit/skip/range and values/id/label, run over the scan  *)
(* in any order, returns an answer TinkerPop's traversal may return:      *)
(* translate_by_modifier, the Order arm's SortKeys and the operators'     *)
(* order in the plan together must sort before paging and map last.      *)
ReadTraversalMatchesSpec ==
  step.s = "read" => RunPlan(step.scan, TranslateRead(step)) \in Answers(step)

=============================================================================
