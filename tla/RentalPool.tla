------------------------------ MODULE RentalPool ------------------------------
(***************************************************************************)
(* A pool of items that are rented out and come back when the handle is    *)
(* dropped (include/net/container/rentalItemPool.hpp).  The mutex of the   *)
(* pool makes getItem and releaseItem atomic.  A handle made by createItem *)
(* has a release function, one made for an item of the pool has none.      *)
(***************************************************************************)
EXTENDS Integers, Sequences

CONSTANT Items   \* bound: items that operator new may return

VARIABLES
  _pool,     \* items in the queue
  handles,   \* RentalItems that exist
  unused,    \* items not made yet
  reused,    \* items that have been taken from the pool
  discarded  \* items of dropped handles that were marked not reusable

vars == <<_pool, handles, unused, reused, discarded>>

RentalItem(v, f) == [value |-> v, reusable |-> TRUE, release |-> f]

Init ==
  /\ _pool = <<>>
  /\ handles = {}
  /\ unused = Items
  /\ reused = {}
  /\ discarded = {}

getItem ==
  /\ _pool # <<>>
  /\ handles' = handles \union {RentalItem(Head(_pool), FALSE)}
  /\ _pool' = Tail(_pool)
  /\ reused' = reused \union {Head(_pool)}
  /\ UNCHANGED <<unused, discarded>>

\* getItem finds the pool empty.
createItem(i) ==
  /\ _pool = <<>>
  /\ i \in unused
  /\ unused' = unused \ {i}
  /\ handles' = handles \union {RentalItem(i, TRUE)}
  /\ UNCHANGED <<_pool, reused, discarded>>

\* The user of a handle sets _reusable to false.
SetNotReusable(h) ==
  /\ h \in handles
  /\ handles' = (handles \ {h}) \union {[h EXCEPT !.reusable = FALSE]}
  /\ UNCHANGED <<_pool, unused, reused, discarded>>

\* The items after one has come back.
releaseItem(v) == Append(_pool, v)

\* ~RentalItem.
Drop(h) ==
  /\ h \in handles
  /\ handles' = handles \ {h}
  /\ _pool' = IF h.reusable /\ h.release THEN releaseItem(h.value) ELSE _pool
  /\ discarded' = IF h.reusable THEN discarded ELSE discarded \union {h.value}
  /\ UNCHANGED <<unused, reused>>

Next ==
  \/ getItem
  \/ \E i \in Items : createItem(i)
  \/ \E h \in handles : SetNotReusable(h) \/ Drop(h)

Spec == Init /\ [][Next]_vars

-----------------------------------------------------------------------------
Rented == {h.value : h \in handles}

\* Items that no handle and no pool knows any more.
Lost == {v \in Items \ (unused \union Rented) : \A i \in 1 .. Len(_pool) : _pool[i] # v}

\* Every variable has its type.
TypeOK ==
  /\ _pool \in Seq(Items)
  /\ handles \subseteq [value : Items, reusable : BOOLEAN, release : BOOLEAN]
  /\ unused \in SUBSET Items
  /\ reused \in SUBSET Items
  /\ discarded \in SUBSET Items

\* An item is rented by one handle at most, or waits in the pool in one place,
\* and never both.
OneOwner ==
  /\ \A g, h \in handles : g.value = h.value => g = h
  /\ \A i, j \in 1 .. Len(_pool) : _pool[i] = _pool[j] => i = j
  /\ \A h \in handles, i \in 1 .. Len(_pool) : h.value # _pool[i]

\* An item that came from createItem is lost only on purpose; one that was in
\* the pool before is lost whenever its handle is dropped.
LostOnlyAfterReuse == Lost \subseteq discarded \union reused
===============================================================================
