---------------------------- MODULE PropertyLock ----------------------------
(***************************************************************************)
(* Threads calling one PropertyStorage (graph/lpg/property.rs) through its *)
(* parking_lot RwLock.                                                     *)
(*                                                                         *)
(* Every public method takes `self.columns.write()` or `.read()` for its   *)
(* whole body.  parking_lot's RwLock is task-fair: a writer first claims   *)
(* the writer bit, which blocks every new read(), and then waits for the   *)
(* readers inside to leave.  `column()` returns a PropertyColumnRef that   *)
(* keeps its read guard until the caller drops it, so a caller can call    *)
(* back into the storage while still holding a read guard.                 *)
(*                                                                         *)
(* The data is PropertyStorage's.  set() runs in two steps inside the      *)
(* write lock, as PropertyColumn::set does: update_zone_map_on_insert,     *)
(* then values.insert.  A plain read (get, might_match, get_all,           *)
(* zone_map, keys) takes and drops its guard in one step.                  *)
(***************************************************************************)
EXTENDS Integers, FiniteSets

CONSTANTS
  Ids, Keys, Vals, NoValue, MaxRowCount,   \* as in PropertyStorage
  Threads,      \* caller threads, model values
  NoThread,     \* nobody owns the writer bit
  MaxCalls,     \* bound on storage calls per thread (nested ones included)
  NestedOps     \* calls a holder of a PropertyColumnRef makes on the storage

ASSUME NoThread \notin Threads
ASSUME MaxCalls \in Nat /\ MaxRowCount >= Cardinality(Threads) * MaxCalls
ASSUME NestedOps \subseteq {"read", "set"}

VARIABLES
  colKeys, values, zoneMap, dirty,   \* the storage (PropertyStorage)
  pc,        \* pc[t]: where thread t is
  call,      \* call[t]: the storage call thread t is making
  readers,   \* threads holding a PropertyColumnRef read guard
  writer,    \* the thread owning the writer bit, or NoThread
  calls,     \* calls[t]: calls thread t has made
  preKeys, preZM   \* storage state a set() saw before its zone-map step

data == <<colKeys, values, zoneMap, dirty>>
vars == <<colKeys, values, zoneMap, dirty, pc, call, readers, writer, calls, preKeys, preZM>>

PS == INSTANCE PropertyStorage

NoCall == [op |-> "none", id |-> NoValue, k |-> NoValue, v |-> NoValue]
Call(op, id, k, v) == [op |-> op, id |-> id, k |-> k, v |-> v]

(* The public methods of PropertyStorage a thread may call.                *)
SetCalls    == {Call("set", id, k, v) : id \in Ids, k \in Keys, v \in Vals}
RemoveCalls == {Call("remove", id, k, NoValue) : id \in Ids, k \in Keys}
               \cup {Call("removeAll", id, NoValue, NoValue) : id \in Ids}
RebuildCall == Call("rebuild", NoValue, NoValue, NoValue)
WriteCalls  == SetCalls \cup RemoveCalls \cup {RebuildCall}
ReadCall   == Call("read", NoValue, NoValue, NoValue)
ColumnCall == Call("column", NoValue, NoValue, NoValue)

(* A finished call returns to the caller: into the code that holds a      *)
(* column ref, or to the thread's top level.                               *)
Return(t) == IF t \in readers THEN "hold" ELSE "idle"

Init ==
  /\ PS!Init
  /\ pc = [t \in Threads |-> "idle"]
  /\ call = [t \in Threads |-> NoCall]
  /\ readers = {}
  /\ writer = NoThread
  /\ calls = [t \in Threads |-> 0]
  /\ preKeys = [t \in Threads |-> {}]
  /\ preZM = [t \in Threads |-> PS!EmptyZoneMap]

-----------------------------------------------------------------------------
(* A thread enters a public method; at the top level any of them, inside  *)
(* code holding a column ref those of NestedOps.                           *)
StartCall(t) ==
  /\ pc[t] \in {"idle", "hold"}
  /\ calls[t] < MaxCalls
  /\ \E c \in IF pc[t] = "idle" THEN WriteCalls \cup {ReadCall, ColumnCall}
              ELSE {c \in WriteCalls \cup {ReadCall} : c.op \in NestedOps} :
       /\ call' = [call EXCEPT ![t] = c]
       /\ pc' = [pc EXCEPT ![t] = IF c \in WriteCalls THEN "wait_write" ELSE "wait_read"]
  /\ calls' = [calls EXCEPT ![t] = @ + 1]
  /\ UNCHANGED <<data, readers, writer, preKeys, preZM>>

(* Mutant: write() that does not wait for another writer's bit.          *)
LockExclusiveIgnoresWriterBit(t) ==
  /\ pc[t] = "wait_write"
  /\ writer' = t
  /\ pc' = [pc EXCEPT ![t] = "drain"]
  /\ UNCHANGED <<data, call, readers, calls, preKeys, preZM>>

(* write(), first half: claim the writer bit (parking while another        *)
(* writer owns it).                                                        *)
LockExclusive(t) ==
  /\ pc[t] = "wait_write"
  /\ writer = NoThread
  /\ writer' = t
  /\ pc' = [pc EXCEPT ![t] = "drain"]
  /\ UNCHANGED <<data, call, readers, calls, preKeys, preZM>>

(* rebuild_zone_maps: nothing to do without columns.                       *)
RebuildBody == IF colKeys # {} THEN PS!RebuildZoneMaps ELSE UNCHANGED data

(* The body of a write call other than set(): remove and remove_all do     *)
(* nothing on an absent value.                                             *)
WriteBody(c) ==
  CASE c.op = "remove" ->
         IF c.k \in colKeys /\ values[c.k][c.id] # NoValue
         THEN PS!Remove(c.id, c.k) ELSE UNCHANGED data
    [] c.op = "removeAll" ->
         IF \E k \in colKeys : values[k][c.id] # NoValue
         THEN PS!RemoveAll(c.id) ELSE UNCHANGED data
    [] c.op = "rebuild" -> RebuildBody

(* write(), second half: once no reader is inside, the body runs.  set()   *)
(* does entry().or_insert_with(new) and update_zone_map_on_insert and     *)
(* stops before values.insert; every other write runs to its end and      *)
(* drops the guard.                                                        *)
WriteLocked(t) ==
  /\ pc[t] = "drain"
  /\ readers = {}
  /\ IF call[t].op = "set"
     THEN LET k == call[t].k IN
          /\ colKeys' = colKeys \cup {k}
          /\ zoneMap' = [zoneMap EXCEPT ![k] = PS!UpdateZoneMapOnInsert(@, call[t].v)]
          /\ preKeys' = [preKeys EXCEPT ![t] = colKeys]
          /\ preZM' = [preZM EXCEPT ![t] = zoneMap[k]]
          /\ pc' = [pc EXCEPT ![t] = "set_insert"]
          /\ UNCHANGED <<values, dirty, writer>>
     ELSE /\ WriteBody(call[t])
          /\ writer' = NoThread
          /\ pc' = [pc EXCEPT ![t] = Return(t)]
          /\ UNCHANGED <<preKeys, preZM>>
  /\ UNCHANGED <<call, readers, calls>>

(* PropertyColumn::set, values.insert, then the write guard is dropped.   *)
SetInsert(t) ==
  /\ pc[t] = "set_insert"
  /\ values' = [values EXCEPT ![call[t].k][call[t].id] = call[t].v]
  /\ writer' = NoThread
  /\ preKeys' = [preKeys EXCEPT ![t] = {}]
  /\ preZM' = [preZM EXCEPT ![t] = PS!EmptyZoneMap]
  /\ pc' = [pc EXCEPT ![t] = Return(t)]
  /\ UNCHANGED <<colKeys, zoneMap, dirty, call, readers, calls>>

(* Mutant: read() that only checks for readers' compatibility, letting a  *)
(* reader in while a writer owns the lock.                                 *)
LockSharedIgnoresWriterBit(t) ==
  /\ pc[t] = "wait_read"
  /\ IF call[t].op = "column"
     THEN readers' = readers \cup {t} /\ pc' = [pc EXCEPT ![t] = "hold"]
     ELSE pc' = [pc EXCEPT ![t] = Return(t)] /\ UNCHANGED readers
  /\ UNCHANGED <<data, call, writer, calls, preKeys, preZM>>

(* read(): blocked while any thread owns the writer bit, even for a       *)
(* thread that already holds a read guard.  A plain read takes and drops  *)
(* its guard in one step; column() keeps it in the returned ref.          *)
LockShared(t) ==
  /\ pc[t] = "wait_read"
  /\ writer = NoThread
  /\ IF call[t].op = "column"
     THEN readers' = readers \cup {t} /\ pc' = [pc EXCEPT ![t] = "hold"]
     ELSE pc' = [pc EXCEPT ![t] = Return(t)] /\ UNCHANGED readers
  /\ UNCHANGED <<data, call, writer, calls, preKeys, preZM>>

(* Mutant: a column ref whose guard is leaked (mem::forget) when dropped. *)
DropColumnRefKeepsGuard(t) ==
  /\ pc[t] = "hold"
  /\ pc' = [pc EXCEPT ![t] = "idle"]
  /\ UNCHANGED <<data, call, readers, writer, calls, preKeys, preZM>>

(* The PropertyColumnRef goes out of scope and releases its read guard.   *)
DropColumnRef(t) ==
  /\ pc[t] = "hold"
  /\ readers' = readers \ {t}
  /\ pc' = [pc EXCEPT ![t] = "idle"]
  /\ UNCHANGED <<data, call, writer, calls, preKeys, preZM>>

(* The steps a running thread takes once it is inside a call.             *)
Progress(t) ==
  \/ LockExclusive(t) \/ WriteLocked(t) \/ SetInsert(t)
  \/ LockShared(t) \/ DropColumnRef(t)

Next ==
  \E t \in Threads : StartCall(t) \/ Progress(t)

(* Callers may stop calling at any point, so a state with no step is a    *)
(* legitimate end; a call that can never return is what CallsReturn finds. *)
(* The OS runs every runnable thread and parking_lot unparks waiters when *)
(* a guard is dropped: a thread that can proceed eventually does.          *)
Fairness == \A t \in Threads : WF_vars(Progress(t))

Spec == Init /\ [][Next]_vars /\ Fairness

-----------------------------------------------------------------------------
(* Properties                                                              *)

(* The thread, if any, between the two steps of set().                     *)
MidSet == {t \in Threads : pc[t] = "set_insert"}

(* Refinement mapping: while a set() is between its zone-map step and its *)
(* insert, the storage is seen as it was before that set() began.          *)
AbsColKeys == IF MidSet = {} THEN colKeys ELSE preKeys[CHOOSE t \in MidSet : TRUE]
AbsZoneMap ==
  IF MidSet = {} THEN zoneMap
  ELSE LET t == CHOOSE u \in MidSet : TRUE
       IN [zoneMap EXCEPT ![call[t].k] = preZM[t]]

Abs == INSTANCE PropertyStorage WITH colKeys <- AbsColKeys, zoneMap <- AbsZoneMap

(* Under the RwLock, the threads' calls change the storage only as the    *)
(* atomic methods of PropertyStorage do: set()'s two steps inside the     *)
(* write guard, interleaved with any other thread, are one Set.            *)
Refines == Abs!Spec

(* A read() guard observes a storage state of the atomic specification:   *)
(* every get and might_match answer a reader can compute when it takes    *)
(* the guard is the answer of the abstract state, never a half-done set.   *)
ReadsLinearizable ==
  [][\A t \in Threads :
       (pc[t] = "wait_read" /\ pc'[t] # "wait_read") =>
         /\ \A id \in Ids, k \in Keys : PS!Get(id, k) = Abs!Get(id, k)
         /\ \A k \in Keys, op \in PS!CompareOps, v \in Vals :
              PS!MightMatch(k, op, v) = Abs!MightMatch(k, op, v)]_vars

(* Every storage call a thread starts eventually returns: no thread waits *)
(* forever for the RwLock (spec: the property store is safe to share      *)
(* between threads).                                                       *)
CallsReturn ==
  \A t \in Threads : pc[t] \notin {"idle", "hold"} ~> pc[t] \in {"idle", "hold"}

=============================================================================
