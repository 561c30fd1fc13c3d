------------------------------- MODULE Poller -------------------------------
(***************************************************************************)
(* The Poller of src/wasi/crates/wasi-async-runtime/src/poller.rs: a Slab  *)
(* of Pollables whose keys are handed out as EventKeys, and block_until,   *)
(* which polls every target at once and turns the positions WASI's poll    *)
(* reports back into keys.                                                 *)
(*                                                                         *)
(* The Slab (crate slab) is modelled by what it does: entries indexed      *)
(* from 0, a vacated entry is linked into a free list whose head is the    *)
(* next key insert takes; with no vacant entry insert pushes at the end.   *)
(* WASI's poll blocks until some targets are ready and returns the         *)
(* positions, in its argument, of a non-empty set of ready ones.           *)
(***************************************************************************)
EXTENDS Naturals, Sequences, SequencesExt, FiniteSets

CONSTANTS
  Pollables,   \* pollable resources (model values)
  MaxSlots,    \* bound: entries of the slab
  NoResult     \* model value: block_until not called yet

VARIABLES
  entries,     \* Slab::entries: [occ |-> TRUE, target] or [occ |-> FALSE, next]
  next,        \* Slab::next: head of the free list (= Len(entries) if none)
  keyOf,       \* history: the EventKey insert returned for each live pollable
  polled,      \* history: the targets poll reported ready in the last call
  result       \* the keys the last block_until returned, or NoResult

vars == <<entries, next, keyOf, polled, result>>

Key(i) == i - 1                 \* entries[i] holds slab key i - 1
Slot(k) == k + 1
Occupied == {i \in DOMAIN entries : entries[i].occ}
Live == {entries[i].target : i \in Occupied}

(* Slab::insert: the key it takes and the entries after. *)
SlabKey == next
SlabInsert(t) ==
  IF next = Len(entries)
  THEN [entries |-> Append(entries, [occ |-> TRUE, target |-> t]),
        next |-> next + 1]
  ELSE [entries |-> [entries EXCEPT ![Slot(next)] = [occ |-> TRUE, target |-> t]],
        next |-> entries[Slot(next)].next]

(* Mutant of InsertKey: the key taken as the number of entries. *)
InsertKeyLen == Len(entries)

(* Poller::insert: EventKey(key as u32). *)
InsertKey == SlabKey

Init ==
  /\ entries = <<>>
  /\ next = 0
  /\ keyOf = [p \in {} |-> 0]
  /\ polled = {}
  /\ result = NoResult

Insert(p) ==
  /\ p \notin Live
  /\ next < MaxSlots
  /\ LET s == SlabInsert(p)
     IN /\ entries' = s.entries
        /\ next' = s.next
  /\ keyOf' = (p :> InsertKey) @@ keyOf
  /\ UNCHANGED <<polled, result>>

(* Poller::remove: Slab::try_remove, None for a key that is not occupied. *)
RemoveKey(k) ==
  /\ IF Slot(k) \in Occupied
     THEN /\ entries' = [entries EXCEPT ![Slot(k)] = [occ |-> FALSE, next |-> next]]
          /\ next' = k
          /\ keyOf' = [p \in DOMAIN keyOf \ {entries[Slot(k)].target} |-> keyOf[p]]
     ELSE UNCHANGED <<entries, next, keyOf>>
  /\ UNCHANGED <<polled, result>>

(* Poller::get: Slab::get, the pollable under a key, or NoResult (None). *)
Get(k) ==
  IF Slot(k) \in Occupied THEN entries[Slot(k)].target ELSE NoResult

(* The loop of block_until: indexes and targets, in key order. *)
Indexes == [j \in 1..Cardinality(Occupied) |-> Key(SetToSortSeq(Occupied, <)[j])]
Targets == [j \in 1..Len(Indexes) |-> entries[Slot(Indexes[j])].target]

(* Mutant of ReadyKeys: the positions poll returned used as keys. *)
ReadyKeysPositions(pos) == {j - 1 : j \in pos}

(* ready_indexes mapped through indexes[index]. *)
ReadyKeys(pos) == {Indexes[j] : j \in pos}

(* block_until: no targets, no poll; otherwise poll reports ready targets. *)
BlockUntil ==
  \/ /\ Occupied = {}
     /\ polled' = {}
     /\ result' = {}
     /\ UNCHANGED <<entries, next, keyOf>>
  \/ /\ Occupied # {}
     /\ \E R \in SUBSET Live \ {{}} :
          /\ polled' = R
          /\ result' = ReadyKeys({j \in 1..Len(Targets) : Targets[j] \in R})
     /\ UNCHANGED <<entries, next, keyOf>>

Next ==
  \/ \E p \in Pollables : Insert(p)
  \/ \E k \in 0..MaxSlots - 1 : RemoveKey(k)
  \/ BlockUntil

Spec == Init /\ [][Next]_vars
-----------------------------------------------------------------------------
(* Poller::get(key) for a key insert returned: the pollable inserted       *)
(* under it, for as long as it is not removed, however keys were reused.   *)
KeyNamesItsTarget ==
  \A p \in DOMAIN keyOf : Get(keyOf[p]) = p

(* Each call of block_until returns exactly the keys under which the      *)
(* targets poll found ready were inserted, also when removed entries      *)
(* leave holes between the live ones (a step that never does otherwise).  *)
ResultIsReadyKeys ==
  [][BlockUntil => result' = {keyOf[p] : p \in polled'}]_vars
=============================================================================
