--------------------------- MODULE PropertyStorage ---------------------------
(***************************************************************************)
(* Columnar property storage of the LPG store with per-column zone maps   *)
(* (crates/grafeo-core/src/graph/lpg/property.rs).                         *)
(*                                                                         *)
(* PropertyStorage keeps one PropertyColumn per property key behind a     *)
(* single RwLock; every public method takes the lock for its whole body,  *)
(* so each method is one atomic step here.  A column maps entity ids to   *)
(* values and keeps a ZoneMapEntry {row_count, null_count, min, max}      *)
(* plus a zone_map_dirty flag.  might_match uses the zone map to decide   *)
(* whether a predicate scan of the column can be skipped.                 *)
(*                                                                         *)
(* Values are records [kind, n]: the kind is the Value variant and n an    *)
(* integer standing for the payload, so that comparison is the numeric     *)
(* order of n inside a kind (strings: code-point order abstracted to n).   *)
(* A float NaN is the kind "nan".                                          *)
(***************************************************************************)
EXTENDS Integers, FiniteSets, Sequences

Seqs == INSTANCE SequencesExt

CONSTANTS
  Ids,          \* entity ids (NodeId or EdgeId), model values
  Keys,         \* property keys, model values
  Vals,         \* the values callers may store or compare against
  NoValue,      \* absent entry of a column / None of an Option<Value>
  MaxRowCount   \* bound on a zone map's row_count (it grows on every set)

ASSUME NoValue \notin Vals
ASSUME MaxRowCount \in Nat /\ MaxRowCount >= Cardinality(Ids)

VARIABLES
  colKeys,   \* keys whose column exists (columns are created on first set)
  values,    \* values[k][id]: the value of id in column k, or NoValue
  zoneMap,   \* zoneMap[k]: the ZoneMapEntry of column k
  dirty      \* dirty[k]: zone_map_dirty of column k

vars == <<colKeys, values, zoneMap, dirty>>

-----------------------------------------------------------------------------
(* Value constructors used by the model configurations.                   *)
VNull     == [kind |-> "null",  n |-> 0]
VBool(b)  == [kind |-> "bool",  n |-> b]
VInt(i)   == [kind |-> "int",   n |-> i]
VFloat(x) == [kind |-> "float", n |-> x]
VNaN      == [kind |-> "nan",   n |-> 0]
VStr(c)   == [kind |-> "str",   n |-> c]

CompareOps == {"Eq", "Ne", "Lt", "Le", "Gt", "Ge"}

Order(a, b) == IF a < b THEN "lt" ELSE IF a = b THEN "eq" ELSE "gt"

(* compare_values: native order inside Int64, Float64, String and Bool,    *)
(* Int64/Float64 widened to f64, None ("none") for every other pair.       *)
(* NaN has no order with anything, itself included (f64::partial_cmp).     *)
CompareValues(a, b) ==
  IF \/ a.kind = b.kind /\ a.kind \in {"int", "float", "str", "bool"}
     \/ {a.kind, b.kind} = {"int", "float"}
  THEN Order(a.n, b.n)
  ELSE "none"

(* ZoneMapEntry::new()                                                     *)
EmptyZoneMap == [row_count |-> 0, null_count |-> 0, min |-> NoValue, max |-> NoValue]

(* Mutant of update_zone_map_on_insert: min widened on Greater, as with a  *)
(* copy-pasted comparison.                                                 *)
UpdateZoneMapOnInsertSwappedMin(zm, v) ==
  IF v = VNull
  THEN [zm EXCEPT !.row_count = @ + 1, !.null_count = @ + 1]
  ELSE [zm EXCEPT !.row_count = @ + 1,
                  !.min = IF @ = NoValue \/ CompareValues(v, @) = "gt" THEN v ELSE @,
                  !.max = IF @ = NoValue \/ CompareValues(v, @) = "gt" THEN v ELSE @]

(* update_zone_map_on_insert: count the row, count a null, and otherwise   *)
(* widen min/max when the new value compares Less/Greater.                 *)
UpdateZoneMapOnInsert(zm, v) ==
  IF v = VNull
  THEN [zm EXCEPT !.row_count = @ + 1, !.null_count = @ + 1]
  ELSE [zm EXCEPT !.row_count = @ + 1,
                  !.min = IF @ = NoValue \/ CompareValues(v, @) = "lt" THEN v ELSE @,
                  !.max = IF @ = NoValue \/ CompareValues(v, @) = "gt" THEN v ELSE @]

-----------------------------------------------------------------------------
(* ZoneMapEntry's range tests (index/zone_map.rs, outside this source      *)
(* tree): per the specification they answer false only when the bound     *)
(* provably excludes the value.                                           *)
MightContainEqual(zm, v) ==
  /\ ~(zm.min # NoValue /\ CompareValues(v, zm.min) = "lt")
  /\ ~(zm.max # NoValue /\ CompareValues(v, zm.max) = "gt")

MightContainLessThan(zm, v, inclusive) ==
  \/ zm.min = NoValue
  \/ CompareValues(zm.min, v) = "lt"
  \/ inclusive /\ CompareValues(zm.min, v) = "eq"
  \/ CompareValues(zm.min, v) = "none"

MightContainGreaterThan(zm, v, inclusive) ==
  \/ zm.max = NoValue
  \/ CompareValues(zm.max, v) = "gt"
  \/ inclusive /\ CompareValues(zm.max, v) = "eq"
  \/ CompareValues(zm.max, v) = "none"

(* PropertyColumn::might_match: conservative while dirty; Ne may skip only *)
(* when min and max both compare Equal to the value.                       *)
ColumnMightMatch(k, op, v) ==
  LET zm == zoneMap[k] IN
  \/ dirty[k]
  \/ op = "Eq" /\ MightContainEqual(zm, v)
  \/ op = "Ne" /\ ~(/\ zm.min # NoValue /\ zm.max # NoValue
                    /\ CompareValues(zm.min, v) = "eq"
                    /\ CompareValues(zm.max, v) = "eq")
  \/ op = "Lt" /\ MightContainLessThan(zm, v, FALSE)
  \/ op = "Le" /\ MightContainLessThan(zm, v, TRUE)
  \/ op = "Gt" /\ MightContainGreaterThan(zm, v, FALSE)
  \/ op = "Ge" /\ MightContainGreaterThan(zm, v, TRUE)

(* PropertyStorage::might_match: no column means "might match".            *)
MightMatch(k, op, v) == k \notin colKeys \/ ColumnMightMatch(k, op, v)

(* PropertyStorage::get                                                    *)
Get(id, k) == IF k \in colKeys THEN values[k][id] ELSE NoValue

-----------------------------------------------------------------------------
Init ==
  /\ colKeys = {}
  /\ values  = [k \in Keys |-> [id \in Ids |-> NoValue]]
  /\ zoneMap = [k \in Keys |-> EmptyZoneMap]
  /\ dirty   = [k \in Keys |-> FALSE]

(* PropertyStorage::set -> entry(key).or_insert_with(new) -> column set:   *)
(* the zone map is widened before the value is upserted; an overwritten   *)
(* value is neither uncounted nor marked dirty.                           *)
Set(id, k, v) ==
  /\ zoneMap[k].row_count < MaxRowCount
  /\ colKeys' = colKeys \cup {k}
  /\ zoneMap' = [zoneMap EXCEPT ![k] = UpdateZoneMapOnInsert(@, v)]
  /\ values'  = [values EXCEPT ![k][id] = v]
  /\ UNCHANGED dirty

(* Mutant of column remove that keeps the counters "up to date" by        *)
(* uncounting a null whatever kind of value it removed.                   *)
RemoveUncountsNull(id, k) ==
  /\ k \in colKeys
  /\ values[k][id] # NoValue
  /\ values' = [values EXCEPT ![k][id] = NoValue]
  /\ zoneMap' = [zoneMap EXCEPT ![k].row_count = @ - 1, ![k].null_count = @ - 1]
  /\ dirty'  = [dirty EXCEPT ![k] = TRUE]
  /\ UNCHANGED colKeys

(* PropertyStorage::remove -> column remove: marks the zone map dirty when *)
(* a value was removed (removing an absent entry changes nothing).        *)
Remove(id, k) ==
  /\ k \in colKeys
  /\ values[k][id] # NoValue
  /\ values' = [values EXCEPT ![k][id] = NoValue]
  /\ dirty'  = [dirty EXCEPT ![k] = TRUE]
  /\ UNCHANGED <<colKeys, zoneMap>>

(* PropertyStorage::remove_all: column remove on every existing column.    *)
RemoveAll(id) ==
  /\ \E k \in colKeys : values[k][id] # NoValue
  /\ values' = [k \in Keys |-> [values[k] EXCEPT ![id] = NoValue]]
  /\ dirty'  = [k \in Keys |-> dirty[k] \/ (k \in colKeys /\ values[k][id] # NoValue)]
  /\ UNCHANGED <<colKeys, zoneMap>>

(* Mutants of rebuild_zone_map: starting from the old entry instead of a   *)
(* fresh ZoneMapEntry::new(), and skipping null rows before counting them. *)
RebuiltZoneMapNoReset(k, order) ==
  Seqs!FoldLeft(LAMBDA zm, id : IF values[k][id] = NoValue THEN zm
                                ELSE UpdateZoneMapOnInsert(zm, values[k][id]),
                zoneMap[k], order)

RebuiltZoneMapSkipsNulls(k, order) ==
  Seqs!FoldLeft(LAMBDA zm, id : IF values[k][id] \in {NoValue, VNull} THEN zm
                                ELSE UpdateZoneMapOnInsert(zm, values[k][id]),
                EmptyZoneMap, order)

(* rebuild_zone_map folds update_zone_map_on_insert over the column's live *)
(* values in FxHashMap iteration order, which the model leaves open.       *)
RebuiltZoneMap(k, order) ==
  Seqs!FoldLeft(LAMBDA zm, id : IF values[k][id] = NoValue THEN zm
                           ELSE UpdateZoneMapOnInsert(zm, values[k][id]),
           EmptyZoneMap, order)

(* PropertyStorage::rebuild_zone_maps: rebuild every column, clear dirty.  *)
RebuildZoneMaps ==
  /\ colKeys # {}
  /\ \E order \in [colKeys -> Seqs!SetToSeqs(Ids)] :
       zoneMap' = [k \in Keys |-> IF k \in colKeys THEN RebuiltZoneMap(k, order[k])
                                  ELSE zoneMap[k]]
  /\ dirty' = [k \in Keys |-> IF k \in colKeys THEN FALSE ELSE dirty[k]]
  /\ UNCHANGED <<colKeys, values>>

Next ==
  \/ \E id \in Ids, k \in Keys, v \in Vals : Set(id, k, v)
  \/ \E id \in Ids, k \in Keys : Remove(id, k)
  \/ \E id \in Ids : RemoveAll(id)
  \/ RebuildZoneMaps

Spec == Init /\ [][Next]_vars

-----------------------------------------------------------------------------
(* Properties                                                              *)

TypeOK ==
  /\ colKeys \subseteq Keys
  /\ values \in [Keys -> [Ids -> Vals \cup {NoValue}]]
  /\ zoneMap \in [Keys -> [row_count : 0..MaxRowCount, null_count : 0..MaxRowCount,
                           min : Vals \cup {NoValue}, max : Vals \cup {NoValue}]]
  /\ dirty \in [Keys -> BOOLEAN]

(* How the query engine evaluates `x op v` on a stored value (spec 3 and   *)
(* 4.6): a comparison with no order is null and drops the row, except that *)
(* an IEEE NaN is unequal to every number.                                *)
Numeric == {"int", "float", "nan"}
Satisfies(x, op, v) ==
  LET c == CompareValues(x, v) IN
  \/ op = "Eq" /\ c = "eq"
  \/ op = "Ne" /\ (c \in {"lt", "gt"} \/ ("nan" \in {x.kind, v.kind} /\ {x.kind, v.kind} \subseteq Numeric))
  \/ op = "Lt" /\ c = "lt"
  \/ op = "Le" /\ c \in {"lt", "eq"}
  \/ op = "Gt" /\ c = "gt"
  \/ op = "Ge" /\ c \in {"gt", "eq"}

LiveIds(k) == {id \in Ids : values[k][id] # NoValue}

(* Zone-map soundness (spec 8.2): whenever might_match answers false for a *)
(* column, no value stored in it satisfies the predicate, whatever sequence*)
(* of set (overwrites included), remove, remove_all and rebuild led here.  *)
ZoneMapSound ==
  \A k \in Keys, op \in CompareOps, v \in Vals :
    ~MightMatch(k, op, v) => \A id \in LiveIds(k) : ~Satisfies(values[k][id], op, v)

(* A zone map is tight when its counters count exactly the live rows and   *)
(* nulls, and min/max are live non-null values no live value lies beyond.  *)
Tight(k) ==
  LET live    == LiveIds(k)
      nonNull == {id \in live : values[k][id] # VNull}
      zm      == zoneMap[k]
  IN /\ zm.row_count = Cardinality(live)
     /\ zm.null_count = Cardinality(live \ nonNull)
     /\ (zm.min = NoValue) = (nonNull = {})
     /\ (zm.max = NoValue) = (nonNull = {})
     /\ zm.min # NoValue => zm.min \in {values[k][id] : id \in nonNull}
     /\ zm.max # NoValue => zm.max \in {values[k][id] : id \in nonNull}
     /\ \A id \in nonNull :
          /\ zm.min # NoValue => CompareValues(values[k][id], zm.min) # "lt"
          /\ zm.max # NoValue => CompareValues(values[k][id], zm.max) # "gt"

(* rebuild_zone_maps leaves every column's zone map tight, however stale   *)
(* the incrementally maintained entry was before.                          *)
RebuildMakesTight ==
  [][RebuildZoneMaps => \A k \in colKeys' : Tight(k)']_vars

(* Spec 3: "after any set, the entry's counters and min/max reflect all    *)
(* live values": a column whose zone map is not dirty is tight.            *)
CleanZoneMapTight == \A k \in colKeys : ~dirty[k] => Tight(k)

=============================================================================
