---------------------------- MODULE LockFreeList ----------------------------
(***************************************************************************)
(* The sorted lock-free list of include/net/container/lockfreeLinkedlist.h *)
(* with the hazard pointers of reclaimer.h, as UserSessionPair uses it to  *)
(* keep the sessions of logged-in users.  Every load, store or exchange of *)
(* shared memory is an action of its own; what a thread does between two   *)
(* of them is part of the first.  Memory is sequentially consistent and a  *)
(* weak exchange fails only when the values differ.                        *)
(*                                                                         *)
(* Node addresses are reused: a freed node may be the next one allocated.  *)
(* Hazard slots are numbered in the order they were added to the global    *)
(* list, which is walked from the newest to slot 1.                        *)
(*                                                                         *)
(* A mark is set and cleared by way of unsigned long, which holds a        *)
(* pointer with gcc on linux and not with msvc for x64. ULong says what    *)
(* comes back of an address; the properties are for builds in which it is  *)
(* the address itself.                                                     *)
(***************************************************************************)
EXTENDS Integers, Sequences, FiniteSets

CONSTANTS
  Thread,
  Node,          \* addresses a node can have
  head, NIL,     \* the head node, nullptr
  Elsewhere,     \* an address that no node has
  ULong,         \* what is left of an address cast to unsigned long and back
  Key,           \* T, ordered; numbers
  kCoefficient,  \* Reclaimer::kCoefficient
  Calls,         \* the calls each thread may make, pairs <<operation, key>>
  MaxOps,        \* bound: calls per thread
  MaxSlots,      \* bound: hazard slots
  Starts,        \* whether threads start "new" or "used"
  Earlier        \* how many nodes used threads have retired before

ASSUME ListAssumption ==
  /\ IsFiniteSet(Thread) /\ IsFiniteSet(Node)
  /\ {head, NIL, Elsewhere} \cap Node = {} /\ Cardinality({head, NIL, Elsewhere}) = 3
  /\ LET Address == Node \cup {NIL, Elsewhere}
     IN  ULong \in [Address -> Address] /\ ULong[NIL] = NIL /\ ULong[Elsewhere] = Elsewhere
  /\ Key \subseteq Nat
  /\ kCoefficient \in Nat
  /\ Calls \in [Thread -> SUBSET ({"Emplace", "Delete", "Find"} \X Key)]
  /\ MaxOps \in [Thread -> Nat]
  /\ MaxSlots \in Nat /\ MaxSlots >= 2 * Cardinality(Thread)
  /\ Starts \subseteq {"new", "used"} /\ Earlier \subseteq Nat

VARIABLES
  next,      \* Node::next, <<pointer, marked>>
  data,      \* Node::data
  heap,      \* addresses that are allocated
  size,      \* size_
  nslots,    \* hazard slots in the global list; its size_ counts all but the first
  hp,        \* what each slot points to
  hpList,    \* Reclaimer::hp_list_, the thread's slots
  retired,   \* Reclaimer::reclaim_map_
  earlier,   \* further entries of reclaim_map_, from before the start
  pc, op, arg, result,       \* the thread's call
  node, prev, cur, nxt,      \* locals of the call
  prevHp, curHp,             \* indices of prev_hp and cur_hp in hp_list_, 0 for HP_INDEX_NULL
  cleaning,                  \* in the Search that ends a Delete whose unlinking failed
  scan, found, victim,       \* walk of the hazard slots
  calls,                     \* calls made, for the bound
  net, was                   \* history: insertions less deletions; what held during the call

memory == <<next, data, heap>>
slots == <<nslots, hp, hpList>>
reclaim == <<retired, earlier, scan, found, victim>>
call == <<op, arg, calls>>
search == <<prev, cur, nxt>>
hazards == <<prevHp, curHp>>
history == <<net, was>>

vars == <<memory, size, slots, reclaim, pc, call, result, node, search, hazards, cleaning, history>>

Pointer == Node \cup {NIL}
Slots == 1..MaxSlots

is_marked_reference(p) == p[2]
get_marked_reference(p) == <<ULong[p[1]], TRUE>>
get_unmarked_reference(p) == <<ULong[p[1]], FALSE>>

\* The nodes linked from the head by nx, in order; NIL from the end on.
PathOf(nx) ==
  LET p[i \in 0..(Cardinality(Node) + 1)] ==
        IF i = 0 THEN head ELSE IF p[i - 1] \in DOMAIN nx THEN nx[p[i - 1]][1] ELSE NIL
  IN p
LinkedBy(nx) == LET p == PathOf(nx) IN {p[i] : i \in 1..(Cardinality(Node) + 1)} \cap Node

\* The keys of the linked nodes that are not marked: what the list holds.
ElementsOf(nx, d) == {d[n] : n \in {m \in LinkedBy(nx) : ~is_marked_reference(nx[m])}}

Linked == LinkedBy(next)
Elements == ElementsOf(next, data)

\* A list that holds some of the keys, each thread either new or with the two
\* slots and the retired nodes of earlier calls.
Init ==
  \E at \in [Key -> Pointer] :
    LET keys == {k \in Key : at[k] # NIL}
        After(k) == {m \in keys : m > k}
        First(ks) == IF ks = {} THEN NIL ELSE at[CHOOSE k \in ks : \A m \in ks : k <= m]
    IN
    /\ \A k, m \in keys : at[k] = at[m] => k = m
    /\ heap = {at[k] : k \in keys} \cup {head}
    /\ data = [n \in Node |-> IF n \in heap THEN CHOOSE k \in keys : at[k] = n ELSE 0]
    /\ next = [n \in Node \cup {head} |->
                 << IF n = head THEN First(keys) ELSE IF n \in heap THEN First(After(data[n])) ELSE NIL,
                    FALSE >>]
    /\ size = Cardinality(keys)
    /\ net = [k \in Key |-> IF k \in keys THEN 1 ELSE 0]
    /\ hp = [s \in Slots |-> NIL]
    /\ \/ /\ "new" \in Starts
          /\ nslots = 1 /\ hpList = [t \in Thread |-> <<>>]
          /\ earlier = [t \in Thread |-> 0]
       \/ /\ "used" \in Starts
          /\ nslots = 2 * Cardinality(Thread)
          /\ LET f == CHOOSE g \in [Thread -> 1..Cardinality(Thread)] :
                         \A t, u \in Thread : g[t] = g[u] => t = u
             IN hpList = [t \in Thread |-> <<2 * f[t] - 1, 2 * f[t]>>]
          /\ earlier \in [Thread -> Earlier]
    /\ retired = [t \in Thread |-> {}]
    /\ pc = [t \in Thread |-> "idle"]
    /\ op = [t \in Thread |-> "Find"] /\ arg = [t \in Thread |-> 0]
    /\ result = [t \in Thread |-> FALSE] /\ node = [t \in Thread |-> NIL]
    /\ prev = [t \in Thread |-> head] /\ cur = [t \in Thread |-> NIL]
    /\ nxt = [t \in Thread |-> <<NIL, FALSE>>]
    /\ prevHp = [t \in Thread |-> 0] /\ curHp = [t \in Thread |-> 0]
    /\ cleaning = [t \in Thread |-> FALSE]
    /\ scan = [t \in Thread |-> 0] /\ found = [t \in Thread |-> {}]
    /\ victim = [t \in Thread |-> NIL]
    /\ calls = [t \in Thread |-> 0]
    /\ was = [t \in Thread |-> {}]

Goto(t, label) == pc' = [pc EXCEPT ![t] = label]

\* Labels of a thread that is not in a call.
Outside == {"idle", "exit", "await", "exited"}

\* History: whether the key of each call is in the list after a step that
\* changed the list.
Observe ==
  \E now \in {ElementsOf(next', data')} :
    was' = [t \in Thread |-> IF pc[t] \in Outside THEN {} ELSE was[t] \cup {arg[t] \in now}]

-----------------------------------------------------------------------------
(* Calls *)

Call(t) ==
  /\ pc[t] = "idle" /\ calls[t] < MaxOps[t]
  /\ calls' = [calls EXCEPT ![t] = @ + 1]
  /\ \E c \in Calls[t] :
       /\ op' = [op EXCEPT ![t] = c[1]]
       /\ arg' = [arg EXCEPT ![t] = c[2]]
       /\ was' = [was EXCEPT ![t] = {c[2] \in Elements}]
       /\ \/ /\ c[1] # "Emplace"
             /\ UNCHANGED <<memory, node>>
          \/ /\ c[1] = "Emplace"
             /\ \E n \in Node \ heap :
                  /\ heap' = heap \cup {n}
                  /\ data' = [data EXCEPT ![n] = c[2]]
                  /\ next' = [next EXCEPT ![n] = <<NIL, FALSE>>]
                  /\ node' = [node EXCEPT ![t] = n]
  /\ Goto(t, "try_again")
  /\ UNCHANGED <<size, slots, reclaim, result, search, hazards, cleaning, net>>

Slot(t, i) == hpList[t][i]

\* Mutant: prev_hp is forgotten.
Marked_OnlyCur(t) == {Slot(t, i) : i \in {curHp[t]} \ {0}}

\* The slots cur_hp and prev_hp stand for.
Marked(t) == {Slot(t, i) : i \in {curHp[t], prevHp[t]} \ {0}}

Unmark(ss) == hp' = [s \in Slots |-> IF s \in ss THEN NIL ELSE hp[s]]

\* ~HazardPointer of cur_hp and of prev_hp; the locals of the call are gone.
Return(t) ==
  /\ pc[t] = "return"
  /\ Unmark(Marked(t))
  /\ Goto(t, "idle")
  /\ op' = [op EXCEPT ![t] = "Find"] /\ arg' = [arg EXCEPT ![t] = 0]
  /\ result' = [result EXCEPT ![t] = FALSE] /\ node' = [node EXCEPT ![t] = NIL]
  /\ prev' = [prev EXCEPT ![t] = head] /\ cur' = [cur EXCEPT ![t] = NIL]
  /\ nxt' = [nxt EXCEPT ![t] = <<NIL, FALSE>>]
  /\ prevHp' = [prevHp EXCEPT ![t] = 0] /\ curHp' = [curHp EXCEPT ![t] = 0]
  /\ cleaning' = [cleaning EXCEPT ![t] = FALSE]
  /\ was' = [was EXCEPT ![t] = {}]
  /\ UNCHANGED <<memory, size, nslots, hpList, reclaim, calls, net>>

\* The call is over with value r, up to the destruction of its hazard pointers.
Ends(t, r) ==
  /\ result' = [result EXCEPT ![t] = r]
  /\ Goto(t, "return")

-----------------------------------------------------------------------------
(* Search *)

\* prev starts at the head and next is not read yet; prev_hp keeps what it had.
try_again(t) ==
  /\ pc[t] = "try_again"
  /\ prev' = [prev EXCEPT ![t] = head]
  /\ cur' = [cur EXCEPT ![t] = next[head][1]]
  /\ nxt' = [nxt EXCEPT ![t] = <<NIL, FALSE>>]
  /\ Goto(t, "unmark")
  /\ UNCHANGED <<memory, size, slots, reclaim, call, result, node, hazards, cleaning, history>>

\* cur_hp.UnMark(): the slot is emptied, the index is kept.
UnMarkCur(t) ==
  /\ pc[t] = "unmark"
  /\ Unmark({Slot(t, i) : i \in {curHp[t]} \ {0}})
  /\ Goto(t, "mark")
  /\ UNCHANGED <<memory, size, nslots, hpList, reclaim, call, result, node, search, hazards, cleaning, history>>

\* cur_hp = HazardPointer(&reclaimer, cur): the first empty slot of the thread
\* takes the pointer.
MarkHazard(t) ==
  LET empty == {i \in DOMAIN hpList[t] : hp[Slot(t, i)] = NIL}
      first == CHOOSE i \in empty : \A j \in empty : i <= j
  IN
  /\ pc[t] = "mark"
  /\ \/ /\ cur[t] = NIL
        /\ curHp' = [curHp EXCEPT ![t] = 0]
        /\ Goto(t, "validate")
        /\ UNCHANGED <<hp, scan>>
     \/ /\ cur[t] # NIL /\ empty # {}
        /\ hp' = [hp EXCEPT ![Slot(t, first)] = cur[t]]
        /\ curHp' = [curHp EXCEPT ![t] = first]
        /\ Goto(t, "validate")
        /\ UNCHANGED scan
     \/ /\ cur[t] # NIL /\ empty = {}
        /\ scan' = [scan EXCEPT ![t] = nslots]
        /\ Goto(t, "acquire")
        /\ UNCHANGED <<hp, curHp>>
  /\ UNCHANGED <<memory, size, nslots, hpList, retired, earlier, found, victim, call, result, node, search, prevHp, cleaning, history>>

\* TryAcquireHazardPointer walks the slots for one whose flag is clear and
\* adds a slot when it finds none; MarkHazard goes on with the new last slot.
\* The counter of the list is raised together with the list.
Flagged(s) == \E u \in Thread : \E i \in DOMAIN hpList[u] : Slot(u, i) = s

TryAcquireHazardPointer(t) ==
  /\ pc[t] = "acquire"
  /\ \/ /\ scan[t] > 0 /\ Flagged(scan[t])
        /\ scan' = [scan EXCEPT ![t] = @ - 1]
        /\ UNCHANGED <<pc, nslots, hpList>>
     \/ /\ scan[t] > 0 /\ ~Flagged(scan[t])
        /\ hpList' = [hpList EXCEPT ![t] = Append(@, scan[t])]
        /\ scan' = [scan EXCEPT ![t] = 0]
        /\ Goto(t, "mark")
        /\ UNCHANGED nslots
     \/ /\ scan[t] = 0 /\ nslots < MaxSlots
        /\ nslots' = nslots + 1
        /\ hpList' = [hpList EXCEPT ![t] = Append(@, nslots + 1)]
        /\ Goto(t, "mark")
        /\ UNCHANGED scan
  /\ UNCHANGED <<memory, size, hp, retired, earlier, found, victim, call, result, node, search, hazards, cleaning, history>>

\* What Emplace, Delete and Find do with what Search returns.  Emplace deletes
\* its node when the key is there; the search that ends a Delete is ignored.
SearchReturns(t, r) ==
  \/ /\ op[t] = "Find" /\ Ends(t, r)
     /\ UNCHANGED heap
  \/ /\ op[t] = "Emplace" /\ r /\ Ends(t, FALSE)
     /\ heap' = heap \ {node[t]}
  \/ /\ op[t] = "Emplace" /\ ~r /\ Goto(t, "insert")
     /\ UNCHANGED <<heap, result>>
  \/ /\ op[t] = "Delete" /\ cleaning[t] /\ Ends(t, TRUE)
     /\ UNCHANGED heap
  \/ /\ op[t] = "Delete" /\ ~cleaning[t] /\ r /\ Goto(t, "load")
     /\ UNCHANGED <<heap, result>>
  \/ /\ op[t] = "Delete" /\ ~cleaning[t] /\ ~r /\ Ends(t, FALSE)
     /\ UNCHANGED heap

\* Mutant: the mark of prev is not seen.
Follows_IgnoreMark(t) == next[prev[t]][1] = cur[t]

\* prev->next == cur: prev is the predecessor of cur and not deleted itself.
Follows(t) == next[prev[t]] = <<cur[t], FALSE>>

\* Mutant: prev->next is not read again once cur is marked as hazard.
Validate_NoReload(t) ==
  /\ pc[t] = "validate"
  /\ \/ cur[t] = NIL /\ SearchReturns(t, FALSE)
     \/ cur[t] # NIL /\ Goto(t, "next") /\ UNCHANGED <<heap, result>>
  /\ UNCHANGED <<next, data, size, slots, reclaim, call, node, search, hazards, cleaning, history>>

\* Is prev still the predecessor of cur, now that cur is marked as hazard?
Validate(t) ==
  /\ pc[t] = "validate"
  /\ \/ /\ ~Follows(t) /\ Goto(t, "try_again")
        /\ UNCHANGED <<heap, result>>
     \/ /\ Follows(t) /\ cur[t] = NIL /\ SearchReturns(t, FALSE)
     \/ /\ Follows(t) /\ cur[t] # NIL /\ Goto(t, "next")
        /\ UNCHANGED <<heap, result>>
  /\ UNCHANGED <<next, data, size, slots, reclaim, call, node, search, hazards, cleaning, history>>

\* Mutant: a search that meets a marked node starts over.
LoadNext_NoHelp(t) ==
  /\ pc[t] = "next"
  /\ nxt' = [nxt EXCEPT ![t] = next[cur[t]]]
  /\ Goto(t, IF is_marked_reference(next[cur[t]]) THEN "try_again" ELSE "compare")
  /\ UNCHANGED <<memory, size, slots, reclaim, call, result, node, prev, cur, hazards, cleaning, history>>

LoadNext(t) ==
  /\ pc[t] = "next"
  /\ nxt' = [nxt EXCEPT ![t] = next[cur[t]]]
  /\ Goto(t, IF is_marked_reference(next[cur[t]]) THEN "unlink" ELSE "compare")
  /\ UNCHANGED <<memory, size, slots, reclaim, call, result, node, prev, cur, hazards, cleaning, history>>

\* A marked node is unlinked and retired by whoever meets it.
Unlink(t) ==
  /\ pc[t] = "unlink"
  /\ \/ /\ ~Follows(t) /\ Goto(t, "try_again")
        /\ UNCHANGED <<next, retired>>
     \/ /\ Follows(t)
        /\ next' = [next EXCEPT ![prev[t]] = get_unmarked_reference(nxt[t])]
        /\ retired' = [retired EXCEPT ![t] = @ \cup {cur[t]}]
        /\ Goto(t, "reclaim")
  /\ UNCHANGED <<data, heap, size, slots, earlier, scan, found, victim, call, result, node, search, hazards, cleaning, net>>
  /\ Observe

\* The node unlinked by Search is counted after the reclaimer ran.
Uncount(t) ==
  /\ pc[t] = "uncount"
  /\ size' = size - 1
  /\ cur' = [cur EXCEPT ![t] = get_unmarked_reference(nxt[t])[1]]
  /\ nxt' = [nxt EXCEPT ![t] = <<NIL, FALSE>>]
  /\ Goto(t, "unmark")
  /\ UNCHANGED <<memory, slots, reclaim, call, result, node, prev, hazards, cleaning, history>>

GreaterOrEquals(a, b) == ~(a < b)

\* Mutant: one of the two comparisons is missing.
Equals_Half(a, b) == ~(a < b)

Equals(a, b) == ~(a < b) /\ ~(b < a)

\* Compare the keys if prev is still the predecessor; go on behind a smaller one,
\* with the hazard pointers swapped.
Compare(t) ==
  LET d == data[cur[t]] IN
  /\ pc[t] = "compare"
  /\ \/ /\ ~Follows(t) /\ Goto(t, "try_again")
        /\ UNCHANGED <<heap, result, search, hazards>>
     \/ /\ Follows(t) /\ GreaterOrEquals(d, arg[t])
        /\ SearchReturns(t, Equals(d, arg[t]))
        /\ UNCHANGED <<search, hazards>>
     \/ /\ Follows(t) /\ ~GreaterOrEquals(d, arg[t])
        /\ curHp' = [curHp EXCEPT ![t] = prevHp[t]]
        /\ prevHp' = [prevHp EXCEPT ![t] = curHp[t]]
        /\ prev' = [prev EXCEPT ![t] = cur[t]]
        /\ cur' = [cur EXCEPT ![t] = nxt[t][1]]
        /\ nxt' = [nxt EXCEPT ![t] = <<NIL, FALSE>>]
        /\ Goto(t, "unmark")
        /\ UNCHANGED <<heap, result>>
  /\ UNCHANGED <<next, data, size, slots, reclaim, call, node, cleaning, history>>

\* Search, and SearchReset, which also copies the data it finds.
Search(t) ==
  \/ try_again(t) \/ UnMarkCur(t) \/ MarkHazard(t) \/ TryAcquireHazardPointer(t)
  \/ Validate(t) \/ LoadNext(t) \/ Unlink(t) \/ Uncount(t) \/ Compare(t)

-----------------------------------------------------------------------------
(* Emplace *)

\* new_node->next is set before the node can be seen; then it is linked.
Insert(t) ==
  /\ pc[t] = "insert"
  /\ \/ /\ ~Follows(t)
        /\ next' = [next EXCEPT ![node[t]] = <<cur[t], FALSE>>]
        /\ Goto(t, "try_again")
        /\ UNCHANGED net
     \/ /\ Follows(t)
        /\ next' = [next EXCEPT ![node[t]] = <<cur[t], FALSE>>, ![prev[t]] = <<node[t], FALSE>>]
        /\ net' = [net EXCEPT ![arg[t]] = @ + 1]
        /\ Goto(t, "count")
  /\ UNCHANGED <<data, heap, size, slots, reclaim, call, result, node, search, hazards, cleaning>>
  /\ Observe

Count(t) ==
  /\ pc[t] = "count"
  /\ size' = size + 1
  /\ Ends(t, TRUE)
  /\ UNCHANGED <<memory, slots, reclaim, call, node, search, hazards, cleaning, history>>

-----------------------------------------------------------------------------
(* Delete *)

Load(t) ==
  /\ pc[t] = "load"
  /\ nxt' = [nxt EXCEPT ![t] = next[cur[t]]]
  /\ Goto(t, IF is_marked_reference(next[cur[t]]) THEN "try_again" ELSE "logical")
  /\ UNCHANGED <<memory, size, slots, reclaim, call, result, node, prev, cur, hazards, cleaning, history>>

\* The mark on cur->next deletes cur.
DeleteLogically(t) ==
  /\ pc[t] = "logical"
  /\ \/ /\ next[cur[t]] # nxt[t] /\ Goto(t, "try_again")
        /\ UNCHANGED <<next, net>>
     \/ /\ next[cur[t]] = nxt[t]
        /\ next' = [next EXCEPT ![cur[t]] = get_marked_reference(nxt[t])]
        /\ net' = [net EXCEPT ![arg[t]] = @ - 1]
        /\ Goto(t, "physical")
  /\ UNCHANGED <<data, heap, size, slots, reclaim, call, result, node, search, hazards, cleaning>>
  /\ Observe

\* Mutant: a Delete that cannot unlink leaves it to later calls.
DeletePhysically_NoCleanup(t) ==
  /\ pc[t] = "physical"
  /\ \/ /\ Follows(t)
        /\ next' = [next EXCEPT ![prev[t]] = nxt[t]]
        /\ Goto(t, "retire")
        /\ UNCHANGED <<hp, cleaning>>
     \/ /\ ~Follows(t)
        /\ Unmark(Marked(t))
        /\ cleaning' = [cleaning EXCEPT ![t] = TRUE]
        /\ Goto(t, "return")
        /\ UNCHANGED next
  /\ UNCHANGED <<data, heap, size, nslots, hpList, reclaim, call, result, node, search, hazards, net>>
  /\ Observe

\* Unlink cur.  When prev has changed, both hazard pointers are unmarked, their
\* indices kept, and a search is left to unlink it.
DeletePhysically(t) ==
  /\ pc[t] = "physical"
  /\ \/ /\ Follows(t)
        /\ next' = [next EXCEPT ![prev[t]] = nxt[t]]
        /\ Goto(t, "retire")
        /\ UNCHANGED <<hp, cleaning>>
     \/ /\ ~Follows(t)
        /\ Unmark(Marked(t))
        /\ cleaning' = [cleaning EXCEPT ![t] = TRUE]
        /\ Goto(t, "try_again")
        /\ UNCHANGED next
  /\ UNCHANGED <<data, heap, size, nslots, hpList, reclaim, call, result, node, search, hazards, net>>
  /\ Observe

Retire(t) ==
  /\ pc[t] = "retire"
  /\ size' = size - 1
  /\ retired' = [retired EXCEPT ![t] = @ \cup {cur[t]}]
  /\ Goto(t, "reclaim")
  /\ UNCHANGED <<memory, slots, earlier, scan, found, victim, call, result, node, search, hazards, cleaning, history>>

-----------------------------------------------------------------------------
(* Reclaimer *)

\* Where ReclaimNoHazardPointer was called from: Search meets marked nodes,
\* Delete unlinks the one it marked itself.
InSearch(t) == is_marked_reference(nxt[t])
Reclaimed(t) ==
  \/ InSearch(t) /\ Goto(t, "uncount") /\ UNCHANGED result
  \/ ~InSearch(t) /\ Ends(t, TRUE)

\* Nothing is done below the threshold.
ReclaimNoHazardPointer(t) ==
  /\ pc[t] = "reclaim"
  /\ \/ /\ Cardinality(retired[t]) + earlier[t] < kCoefficient * (nslots - 1)
        /\ Reclaimed(t)
        /\ UNCHANGED <<scan, found>>
     \/ /\ Cardinality(retired[t]) + earlier[t] >= kCoefficient * (nslots - 1)
        /\ scan' = [scan EXCEPT ![t] = nslots]
        /\ found' = [found EXCEPT ![t] = {}]
        /\ Goto(t, "scan")
        /\ UNCHANGED result
  /\ UNCHANGED <<memory, size, slots, retired, earlier, victim, call, node, search, hazards, cleaning, history>>

\* The slots are read one by one; then what was not found in any is freed.
Scan(t) ==
  LET hazardous == found[t] \cup {hp[scan[t]]} IN
  /\ pc[t] = "scan"
  /\ \/ /\ scan[t] > 1
        /\ scan' = [scan EXCEPT ![t] = @ - 1]
        /\ found' = [found EXCEPT ![t] = hazardous]
        /\ UNCHANGED <<pc, result, heap, retired, earlier>>
     \/ /\ scan[t] = 1
        /\ heap' = heap \ (retired[t] \ hazardous)
        /\ retired' = [retired EXCEPT ![t] = @ \cap hazardous]
        /\ earlier' = [earlier EXCEPT ![t] = 0]
        /\ scan' = [scan EXCEPT ![t] = 0]
        /\ found' = [found EXCEPT ![t] = {}]
        /\ Reclaimed(t)
  /\ UNCHANGED <<next, data, size, slots, victim, call, node, search, hazards, cleaning, history>>

\* ~Reclaimer, when the thread exits: the slots are handed over ...
Exit(t) ==
  /\ pc[t] = "idle"
  /\ hpList' = [hpList EXCEPT ![t] = <<>>]
  /\ earlier' = [earlier EXCEPT ![t] = 0]
  /\ Goto(t, "exit")
  /\ UNCHANGED <<memory, size, nslots, hp, retired, scan, found, victim, call, result, node, search, hazards, cleaning, history>>

\* Mutant: the thread exits without its retired nodes.
ExitNext_NoWait(t) ==
  /\ pc[t] = "exit" /\ Goto(t, "exited")
  /\ UNCHANGED <<memory, size, slots, reclaim, call, result, node, search, hazards, cleaning, history>>

\* ... and every retired node is awaited and freed, in some order.
ExitNext(t) ==
  /\ pc[t] = "exit"
  /\ \/ /\ retired[t] = {} /\ Goto(t, "exited")
        /\ UNCHANGED <<scan, victim>>
     \/ \E n \in retired[t] :
          /\ victim' = [victim EXCEPT ![t] = n]
          /\ scan' = [scan EXCEPT ![t] = nslots]
          /\ Goto(t, "await")
  /\ UNCHANGED <<memory, size, slots, retired, earlier, found, call, result, node, search, hazards, cleaning, history>>

\* Hazard(it->first), over again until no slot holds the node.
Await(t) ==
  /\ pc[t] = "await"
  /\ \/ /\ hp[scan[t]] = victim[t]
        /\ scan' = [scan EXCEPT ![t] = nslots]
        /\ UNCHANGED <<pc, heap, retired, victim>>
     \/ /\ hp[scan[t]] # victim[t] /\ scan[t] > 1
        /\ scan' = [scan EXCEPT ![t] = @ - 1]
        /\ UNCHANGED <<pc, heap, retired, victim>>
     \/ /\ hp[scan[t]] # victim[t] /\ scan[t] = 1
        /\ heap' = heap \ {victim[t]}
        /\ retired' = [retired EXCEPT ![t] = @ \ {victim[t]}]
        /\ victim' = [victim EXCEPT ![t] = NIL]
        /\ scan' = [scan EXCEPT ![t] = 0]
        /\ Goto(t, "exit")
  /\ UNCHANGED <<next, data, size, slots, earlier, found, call, result, node, search, hazards, cleaning, history>>

-----------------------------------------------------------------------------
\* The nodes the next step of a thread reads or writes.
Touches(t) ==
  CASE pc[t] \in {"validate", "unlink", "physical"} -> {prev[t]}
    [] pc[t] \in {"next", "load", "logical"} -> {cur[t]}
    [] pc[t] = "compare" -> {prev[t], cur[t]}
    [] pc[t] = "insert" -> {prev[t], node[t]}
    [] OTHER -> {}

\* A step on freed memory could do anything; the model stops before it.
Step(t) ==
  /\ \A u \in Thread : Touches(u) \subseteq heap
  /\ \/ Search(t)
     \/ Insert(t) \/ Count(t)
     \/ Load(t) \/ DeleteLogically(t) \/ DeletePhysically(t) \/ Retire(t)
     \/ ReclaimNoHazardPointer(t) \/ Scan(t)
     \/ Return(t) \/ ExitNext(t) \/ Await(t)

Next == \E t \in Thread : Call(t) \/ Exit(t) \/ Step(t)

Spec == Init /\ [][Next]_vars

\* Threads are scheduled; which calls they make is up to them.
FairSpec == Spec /\ \A t \in Thread : WF_vars(Step(t))

-----------------------------------------------------------------------------
(* Properties *)

\* No update is lost or undone by another one: a key is in the list exactly
\* when the insertions of it that returned, or will return, true exceed the
\* deletions (an insertion behind a node being deleted would vanish).
NoLostUpdate ==
  /\ \A k \in Key : net[k] \in {0, 1}
  /\ Elements = {k \in Key : net[k] = 1}

\* What a call returns was so at some moment during the call: Find and Delete
\* answer whether the key was there, Emplace whether it was not.
ResultsWereTrue ==
  \A t \in Thread : pc[t] = "return" =>
    (IF op[t] = "Emplace" THEN ~result[t] ELSE result[t]) \in was[t]

\* The hazard pointers keep every node a thread is about to touch allocated,
\* except the predecessor in the search that ends a Delete.
HazardsProtect ==
  \A t \in Thread : \A n \in Touches(t) : n \in heap \/ (cleaning[t] /\ n = prev[t])

\* When no call is running, size() is the number of elements and no deleted
\* node is still linked: every Delete that fails to unlink has its node
\* unlinked before it returns.
AtRest ==
  (\A t \in Thread : pc[t] \in Outside) =>
    /\ size = Cardinality(Elements)
    /\ \A n \in Linked : ~is_marked_reference(next[n])

\* Once all threads have exited, the nodes still allocated are those of the
\* list, which its destructor deletes: none was leaked.
NoLeakAfterExit ==
  (\A t \in Thread : pc[t] = "exited") => heap = Linked \cup {head}

\* Every call returns, although a search starts over whenever the list changed.
EveryCallReturns ==
  \A t \in Thread : pc[t] \notin Outside ~> pc[t] \in Outside

\* A thread that exits gets rid of the nodes it retired.
EveryExitEnds ==
  \A t \in Thread : pc[t] = "exit" ~> pc[t] = "exited"

\* "Make sure prev is the predecessor of cur, so that cur is properly marked as
\* hazard" and "If ptr is hazard then reclaim it later": no thread touches a
\* node that was freed.
NoUseAfterFree == \A t \in Thread : Touches(t) \subseteq heap
=============================================================================
