# TLA+ models of grafeo

This directory holds TLA+ models of the parts of grafeo whose code is in
`src/`, together with the TLC configurations that check them. Every action is
translated from the Rust source. `PROJECT.json` maps each definition to the
lines it models. It also lists the runs, the mutants that show each property
can fail, the findings and the hazards.

## The system and its parts

grafeo is an embedded graph database.

- **Query side.** A query string (GQL, Cypher, Gremlin, SPARQL) is parsed to an
  AST. A translator lowers the AST to a `LogicalPlan`, a tree of operators that
  bind and use variables. That plan is bound, optimised and executed.
- **Execution side.** Push-based operators over `DataChunk`s run under a morsel
  scheduler. They read from the `LpgStore`.
- **Storage side.** The `LpgStore` keeps node and edge properties in a columnar
  `PropertyStorage`. Each column has a zone map, which scans use to skip
  columns that cannot match a predicate.

Only two of these parts have their implementation under `src/`:

| Part | Source | Module | Status |
|---|---|---|---|
| Property storage with zone maps | `grafeo-core/src/graph/lpg/property.rs` | `PropertyStorage`, `MCPropertyStorage` (methods), `PropertyLock`, `MCPropertyLock` (threads and the RwLock) | modelled |
| Gremlin → logical plan translator | `grafeo-engine/src/query/gremlin_translator.rs` | `GremlinTranslator`, `MCGremlinTranslator` (statement control), `GremlinPredicates`, `MCGremlinPredicates` (filter expressions, paging) | partly |
| Zone-map range tests (`ZoneMapEntry::might_contain_*`) | not under `src/` | in `PropertyStorage`, from the spec | partly |

Everything else the crates name is either not in the source tree, or it is
plain data or re-exports. That covers the config, the Python error mapping,
the buffer manager and allocators, the indexes, the store, the execution
engine, WAL and the parsers. `PROJECT.json` lists each of these with the reason
it is not modelled.

### How the parts interact

- A Gremlin query's plan refers to properties by key. At execution time a
  filter on a property asks `PropertyStorage::might_match` whether the column
  can be skipped, then scans it.
- The translator never touches storage, and the storage never sees a plan. The
  models are therefore independent. A composition only becomes worth building
  once the scan operator, whose code is not in `src/`, is modelled.

## PropertyStorage.tla

**State:**

- `colKeys`: the columns that exist. A column is created on its first `set`.
- `values[k][id]`: the value stored for `id` in column `k`, or `NoValue`.
- `zoneMap[k]`: the zone map of column `k`, a record `{row_count, null_count, min, max}`.
- `dirty[k]`: the column's `zone_map_dirty` flag.

**Values** are records `[kind, n]`:

- `kind` is one of null, bool, int, float, nan or str.
- `n` stands for the payload.
- `CompareValues` is `compare_values`. It orders int against float, and returns
  "none" for NaN and for any other pair of different kinds.

**Actions.** Each public method takes the single `RwLock` for its whole body,
so each method is one atomic step:

- `Set` is `PropertyStorage::set`. It covers `PropertyColumn::set` and `update_zone_map_on_insert`.
- `Remove` is `remove`. It sets `dirty`.
- `RemoveAll` is `remove_all`, across all columns.
- `RebuildZoneMaps` is `rebuild_zone_maps`. It covers `rebuild_zone_map` for every column.
  - The columns are `FxHashMap`s.
  - The fold order is chosen nondeterministically: any enumeration of the ids.

**Operators:**

- `MightMatch` and `ColumnMightMatch` are the two `might_match` methods.
  - A missing column returns TRUE.
  - A dirty column returns TRUE.
  - `Ne` skips only when `min = max = v`.
- The range tests `MightContain*` are modelled from the spec, because
  `zone_map.rs` is not under `src/`. They use the conservative reading: a test
  is FALSE only when the bounds prove the predicate cannot match.

**Properties:**

- `ZoneMapSound` (invariant): if `might_match(k, op, v)` is FALSE, then no live
  value in column `k` satisfies `op v`.
  - A counterexample needs a sequence of several steps: sets, overwrites,
    removes and rebuilds.
- `RebuildMakesTight` (action property): after `rebuild_zone_maps`, every
  column's zone map is exact.
  - The counts match the live values.
  - `min` and `max` are live extremal values.
  - This holds whatever order the hash map yields.
- `CleanZoneMapTight` (invariant, violation run): a column that is not dirty has
  an exact zone map.

## GremlinTranslator.tla

`translate()` creates a new translator per query, so there is no concurrency
here. The model is the sequential control of `translate_statement`, one AST
step per action.

**State:**

- `phase`: source, steps, addE, done or error.
- `plan`: the operators emitted so far, bottom-up. Each is a record of the
  variables it binds and the variables it uses.
- `curVar`: `current_var`.
- `pending`: the `PendingEdge` of a step-level `addE`.
- `counter`: `var_counter`, where `Gen(n)` is `_v<n>`.
- `nSteps` and `nAddE`: history, used by the properties.

**Actions:**

- `TranslateSource` covers `translate_source` and `get_current_var`.
- `PendingEdgeStep` handles `from`, `to` and `property` while an edge is pending.
- `OrdinaryStep` is the loop body. It finalizes a complete pending edge, opens
  `addE`, or calls `translate_step`.
- `FinishStatement` finalizes a complete pending edge and adds the `Return` wrap.
- `AddEStatementStep` and `FinishAddEStatement` are `translate_add_edge_traversal`.

The step groups of `translate_step` are operators:

- `NavStep`, `NavEStep`, `FilterStep`, `PassStep`, `MapStep`, `AggStep`,
  `OrderStep` and `SideEffectStep`.
- Each one records the `next_var` calls it makes, which operators it emits, and
  which variable becomes current.

Inputs are drawn from a small set: one representative per group of steps that
the code lowers alike.

**Properties:**

- `FreshNamesUnique`: no generated variable is bound by two operators.
- Three stated guarantees, each checked as a violation run:
  - `GeneratedRefsBound`: every generated variable used is bound below its use
    in scope.
  - `LabelRefsBound`: every `as()` label used is bound.
  - `AddEHonoured`: every `addE()` yields a `CreateEdge`, or translation fails.

## PropertyLock.tla

`PropertyStorage` guards all of its columns with one `parking_lot::RwLock`.
The spec (§4) describes a lock per column; the code has one for all. This
module splits every public method at that lock and runs it on several
threads. The storage itself is `PS == INSTANCE PropertyStorage`, so the method
bodies are the ones above.

**State:** the four storage variables, and per thread:

- `pc[t]`: idle, wait_write, drain, set_insert, wait_read or hold;
- `call[t]`: the call in progress;
- `readers`: threads inside `read()`, or holding a `PropertyColumnRef`;
- `writer`: the thread holding the writer bit;
- `calls`: the calls made so far, bounded by `MaxCalls`;
- `preKeys`/`preZM`: what `set()` saw before its first step, for the
  refinement mapping.

**Actions:**

- `StartCall(t)` is the caller. An idle thread makes any call. A thread that
  holds a column ref makes the calls in `NestedOps`.
- `LockExclusive(t)`: `columns.write()` claims the writer bit. parking_lot is
  task-fair, so from then on no new `read()` succeeds.
- `WriteLocked(t)`: once `readers = {}`, the body runs.
  - For `set()` this is `entry().or_insert_with(new)` plus
    `update_zone_map_on_insert`.
  - Every other write runs to its end and releases the lock.
- `SetInsert(t)` is `values.insert`, the end of `PropertyColumn::set`, and the
  guard drop.
- `LockShared(t)` is `columns.read()`.
  - `column()` keeps the guard in the returned `PropertyColumnRef` (`hold`).
  - Every other read returns at once.
- `DropColumnRef(t)`: the caller drops the ref.

**Refinement.** The module is checked against `PropertyStorage` under a
mapping:

- while a `set()` is between its two steps, `AbsColKeys` and `AbsZoneMap`
  give the state before the set;
- `Refines == Abs!Spec`, where
  `Abs == INSTANCE PropertyStorage WITH colKeys <- AbsColKeys, zoneMap <- AbsZoneMap`.

**Properties:**

- `Refines`: the locked implementation behaves as the atomic one.
- `ReadsLinearizable`: every read (`get`, `might_match`) answers as the
  abstract storage does at the step it takes the lock.
- `CallsReturn`: every call that started eventually returns.

**Fairness.** `WF_vars(Progress(t))` for each thread.

- A thread that can take its next lock step does so. parking_lot wakes waiters
  when a lock is released.
- `StartCall` is not fair, because a caller may stop calling. That is why the
  configs say `CHECK_DEADLOCK FALSE`: a state where every thread is idle is
  legitimate. A blocked call is caught by `CallsReturn`, not by TLC's deadlock
  check.

## GremlinPredicates.tla

The filter steps `has`, `hasLabel`, `hasId` and `hasNot` are modelled as
operators from a step to a `LogicalExpression` tree:

- `TranslatePredicate` and `Connect` are RECURSIVE. `Connect` is the and/or fold
  from `preds[0]`.
- `LeafPredicate`, `TranslateHasStep`, `BuildIdFilter` and `FilterPredicate`
  are non-recursive.

The Filter operator that evaluates these trees is not under `src/`. `Eval`
models it from the spec (§3, §4.6):

- three-valued logic;
- Int64/Float64 widening;
- a comparison of any other mix of kinds, or with null, is null;
- strings compare by code point, and are sequences of integers here;
- a label test `Labels(v) = 'L'` or `Labels(v) IN [...]` is label membership,
  as scenario S2's `hasLabel('Person')` requires.

The state is one variable, `step`. `Init` picks any step from the input set and
the properties quantify over all elements, so each distinct state is one
translated step.

**Inputs:**

- the six comparisons, within/without with up to 2 literals, between, and the
  three text predicates, over int 1, int 2, float 2, "a" and "ba";
- `not` of any of these;
- `and`/`or` of up to 2 sub-predicates, which may be negated, over int 1 and
  "a", and `not` of those;
- `has(k)`, `has(k, v)`, `has(L, k, v)`;
- `hasLabel` and `hasId` with up to 2 arguments;
- `hasNot`.

**Elements:** any label set over two labels, two ids, and a value that is
absent, null, int 1, float 1, int 2, "a", "ba" or "ab".

**Properties:**

- `FilterMatchesSpec`: the translated filter keeps exactly the elements the
  step selects. `StepHolds` and `PredTruth` state that selection:
  - between is [lo, hi);
  - an empty `and()` is true and an empty `or()` is false;
  - each Gremlin comparison is stated by the outcomes of the spec's comparison
    it accepts (`Holds`), and the text predicates by substring tests
    (`TextTruth`). Neither uses the translator's `CmpOp`/`TextOp` tables, so
    a wrong operator mapping is caught.
- `FilterNoPanic` (violation run): translating a filter step returns a plan or
  an error, never a panic. An error is a correct answer for an empty
  `and()`/`or()`, which TinkerPop itself rejects.
- `ReadTraversalMatchesSpec`: a read traversal's plan returns a result
  TinkerPop may return (see Read traversals below).
- `PagingMatchesSpec`: the plan of `limit(n)`, `skip(n)` and `range(lo, hi)`
  returns exactly the rows the step selects, in order (see Paging below).

**Paging.** `TranslatePaging` follows `translate_step` (lines 490-514):

- `limit(n)` is one `Limit(n)` and `skip(n)` is one `Skip(n)`;
- `range(start, end)` is `Skip(start)` under `Limit(end - start)`.

The subtraction `end - start` is usize arithmetic. `USizeSub` models it at a
reduced width (`Width = 3`):

- with overflow checks on (a debug build) it panics when `end < start`;
- without them (a release build) it wraps modulo `2^Width`.

Each range step is drawn with either build. The step's argument types belong
to the AST, which is not under `src/`. That the counts are `usize` is taken
from `LimitOp`/`SkipOp`, whose counts hold row numbers.

`SkipRows` and `LimitRows` are the spec's "stateful counters on the stream"
(§4.6), over a stream of `NRows = 3` rows. The reference selection `InPage` is
stated per row position instead:

- `i < n` for limit;
- `i >= n` for skip;
- `lo <= i < hi` for range, which selects nothing when `hi < lo`.

For `hi < lo` an error is also accepted, but a panic is not.

**Read traversals.** A read traversal has the shape of scenario S2:
`V()`, at most one filter, `order()` with one or two `by()`s, at most one paging
step, then `values(k)`, `id()` or `label()`. It is translated by the step
translations above plus three more:

- `TranslateOrder` is the Order arm, and `TranslateByModifier` is
  `translate_by_modifier`. Together they give one SortKey per `by()`:
  `desc` is Descending, while `asc` and `shuffle` are Ascending.
- `TranslateMapStep` is the Values (one key), Id and Label arms.
- `TranslateRead` puts each step's operator over the plan so far, as the
  loop of `translate_statement` does.

The Sort operator is not under `src/`. `SortRows` models it from the spec
(§4.6): a stable sort by the keys in turn.

The plan runs over every scan order of `ReadElems`. The reference `Answers` is
the set of results TinkerPop's traversal may return:

- a `by()` compares its key, ties go to the next `by()`, and a shuffle key
  leaves the order free;
- paging comes after the order;
- the map step comes last.

Two of the three elements tie on the key (int 1 and float 1.0 compare equal),
so a second `by()` decides their order. Variable naming is left to
`GremlinTranslator`, so the plan is evaluated with the element bound to the
variable the steps use. All elements carry the key.

**Open questions of the spec.**

- An element without the key: `values(k)` returns `Property(current_var, k)`,
  which is a null row for it. TinkerPop emits nothing. This is not checked.
- `neq` and `without` across kinds: `neq(v)` and `without(vs)` are lowered to
  `Ne` and `NOT(IN)`. Under the spec's filter semantics these are null for a
  value of another kind, so `has('k', neq(1))` drops an element with
  `k = 'a'`. TinkerPop's Gremlin, which the spec adopts, keeps it. The spec
  does not say which of the two the Gremlin front end follows.
  `FilterMatchesSpec` checks the spec's semantics.

## Runs

| Run | Config | Expect | Shows |
|---|---|---|---|
| ps_main | `MCPropertyStorage.cfg` | pass | `TypeOK`, `ZoneMapSound` and `RebuildMakesTight` hold without NaN. |
| ps_nan | `MCPropertyStorage_NaN.cfg` | violation | `ZoneMapSound` fails. TLC's trace sets `n1 := 1`, then overwrites `n1 := NaN`. The NaN compares None against the bounds, so min = max = 1 stays, and `Ne 1` is skipped although NaN ≠ 1. With `set` restricted to fresh ids, 1 on `n1` and NaN on `n2` fail the same way. NaN enters min/max only as the first non-null value (line 209). |
| ps_overwrite | `MCPropertyStorage_Overwrite.cfg` | violation | `CleanZoneMapTight` fails. An overwrite by `set` counts the row twice without marking the column dirty. This contradicts spec §3. |
| translator | `MCGremlinTranslator.cfg` | pass | `TypeOK` and freshness hold for every traversal of up to 4 reading and mutating steps, after any source. |
| tr_generated_refs | `MCGremlinTranslator_GeneratedRefsBound.cfg` | violation | `g.V()` scans into `_v0`, but `current_var` is `_v1` (`get_current_var` reads the counter late). |
| tr_label_refs | `MCGremlinTranslator_LabelRefsBound.cfg` | violation | `as('a')` binds nothing, so `addV().as('a')` returns an unbound `a`. |
| tr_addE | `MCGremlinTranslator_AddEHonoured.cfg` | violation | A step-level `addE()` without both ends is dropped without error. |
| pl_main | `MCPropertyLock.cfg` | pass | With two threads, `Refines`, `ReadsLinearizable` and `CallsReturn` hold while no call is nested in a held column ref. |
| pl_nested_read | `MCPropertyLock_NestedRead.cfg` | violation | t2 holds a column ref, t1's `set()` claims the writer bit, and t2's `get()` blocks behind it. t1 waits for t2's guard, so the two threads deadlock. This contradicts spec §4, "reads are wait-free against other reads". |
| gp_filters | `MCGremlinPredicates.cfg` | pass | All 21,303 filter steps translate to filters that keep exactly the selected elements. Every limit/skip, and every range with `lo <= hi`, returns exactly its rows. Every read traversal `V().filter.order().by(..).page.map` returns a TinkerPop answer for every scan order. |
| gp_total | `MCGremlinPredicates_Total.cfg` | violation | `has(k, and())` panics on `preds[0]`. |
| gp_range | `MCGremlinPredicates_Range.cfg` | violation | `range(1, 0)` panics on `end - start` in a debug build. In a release build `range(2, 1)` wraps to `Limit(7)` and returns the third row instead of none. |

## Bounds and why they suffice

**PropertyStorage:** two ids, two keys and `MaxRowCount = 3`.

- The values are null, int 1, int 2, float 2 and str 1.
- This gives:
  - overwrites;
  - a second live value that moves min and max;
  - int/float ties, where comparison is "eq" across kinds;
  - an incomparable string;
  - nulls;
  - two columns, for `remove_all`.
- `row_count` grows on every overwrite, so `MaxRowCount` caps it. At 3 an id
  can be overwritten after both ids are set.
- Symmetry over ids and keys is sound, because no definition names a particular
  id or key.
- The NaN run uses one key and {null, int 1, NaN}.

**GremlinTranslator:** the passing run draws from reading and mutating steps
together, with `MaxSteps = 4`. The violation runs use mutating steps with
`MaxSteps = 5`.

- These bounds reach:
  - chains of two navigations after an E source;
  - addE, from, to and a trailing step, plus a property step in the violation
    runs;
  - reads mixed with writes in one traversal;
  - addE replaced by a second addE;
  - aggregation after projection.

**PropertyLock:** one id, one key, values null, int 1 and int 2.

- Two threads and `MaxCalls = 3` give:
  - a writer queued behind a held column ref;
  - a reader arriving while a writer drains;
  - two writers in sequence;
  - a read between the two steps of `set()`.
- `MaxRowCount = 6` covers every set the calls can make.
- The nested-read run needs 2 calls per thread to deadlock.
- A `set()` made while the same thread holds a column ref also deadlocks, on
  its own guard. That case needs no second thread. It is the same mechanism, so
  it is not a separate run; see the hazard at `property.rs:118`.

**GremlinPredicates:** lists of at most 2 elements (`MaxList = 2`).

- That is enough to check the and/or fold, which combines `preds[0]` with the
  rest.
- It also covers the one-element versus several-element split of `hasLabel`
  and `hasId`.
- Paging counts go up to `MaxOffset = 4` over `NRows = 3` rows. So each count
  can be zero, inside the stream, at its end, or past it.
- `Width = 3` is the smallest usize width that holds every count, since
  `2^Width > MaxOffset` is an ASSUME. An underflow then wraps to a count that
  still exceeds the stream, as a 64-bit wrap would.
- Read traversals cover:
  - a filter: none, `hasLabel` of each label, or `has(k, gt(v))`;
  - 42 `by()` lists: one or two of key/id crossed with asc/desc/shuffle;
  - no paging, `limit(1)`, `skip(1)` or `range(1, 3)`;
  - the three map steps;
  - all 6 scan orders of three elements.
  That is 15,120 traversals. Two `by()`s and a tie are enough to exercise
  tie-breaking, and three rows are enough for paging to cut inside the sorted
  stream.
- The passing run uses the pairs with `lo <= hi`. The violation run uses all
  25 pairs.

## Fairness and liveness

`PropertyLock` assumes weak fairness of each thread's lock steps. Its section
above explains why the code justifies it. The other modules assume no fairness.

- The translator always terminates, because its loop is over a finite step list.
- The storage has no obligation to progress: nothing in the code schedules a
  rebuild.

## Not modelled

1. **Aggregates and edge creation over plan cardinality.**
   - `translate_add_edge_traversal` puts `CreateEdge` over an unlabelled
     `NodeScan`, so one edge is created per node in the graph.
   - `sum`/`mean`/`min`/`max`/`fold` after `values(k)` aggregate
     `Variable(current_var)`, the element, not the value the Return produced.

   The read-traversal evaluator above could show both. Each would need a
   violation run of its own, and the project already spends its runs on the
   findings listed in Runs. `GremlinTranslator` models which variables these
   operators use.
2. **`values()` with several keys, and `dedup(keys)`.** `values()` with several
   keys is one Return with a column per key, where TinkerPop emits one value
   per traverser. That is a difference of row shape, which the row model does
   not represent. `dedup` ignores its keys (a TODO in the code) and becomes a
   plain `Distinct`, whose equality of whole rows the spec leaves open.
3. **Components whose code is not under `src/`:** the buffer manager (grants,
   pressure levels, eviction), the morsel scheduler, the spill protocol, the
   WAL, the indexes, the LpgStore, and the parsers. Only their module roots and
   re-exports are in the source tree, so there is no code to translate.
   Modelling them from the spec alone would check the spec, not this code.
4. **The Python error mapping** (`error.rs`) and **configuration**
   (`config.rs`). These are a fixed mapping and builder data, with no state
   and no table in the spec to check them against. Two edges are worth noting
   for the code that consumes them:
   - `with_threads(0)` is accepted, which gives a worker pool of size 0;
   - `with_memory_fraction(f)` casts `system_memory * f` to usize, which
     saturates (a negative f gives 0) and replaces any limit set before,
     where spec §4 takes the minimum.
