----------------------------- MODULE UserManager -----------------------------
(***************************************************************************)
(* The table of users and their sessions                                   *)
(* (include/net/user/userManagerBase.hpp), shared by all threads under a   *)
(* std::shared_mutex.                                                      *)
(*                                                                         *)
(* A session is added by onAccept before it is started, and closed on its  *)
(* own strand.  Other threads look sessions up by key, call back for one,  *)
(* several or all of them, and delete what they looked up.                 *)
(*                                                                         *)
(* The pairs of user key and session key (userSessionPair.hpp) are a list  *)
(* of their own, module LockFreeList.  Nothing in the repository inserts a *)
(* pair or sets a user's _userId, so closedUser looks for the pair of user *)
(* 0 and finds none.                                                       *)
(***************************************************************************)
EXTENDS Integers, FiniteSets

CONSTANTS
  Threads,    \* worker threads
  Senders,    \* those of them that only call functionForeach to send something
  Sessions,   \* sessions, and their keys: an identity is used once
  Nobody      \* no session, no thread

ASSUME NobodyAssumption == Senders \subseteq Threads /\ Nobody \notin Threads \union Sessions

VARIABLES
  session,   \* "new", "adding", "open" or "closed"
  attached,  \* sessions with _spUser set
  _users,    \* sessions in the table
  deleted,   \* sessions given to deleteUser
  writer,    \* thread that holds _mtx_users
  readers,   \* threads that share it
  pc,        \* next step of a thread
  arg,       \* session it adds or deletes
  op,        \* function it is in
  cb,        \* what its callback does: "send" or "delete"
  left,      \* sessions its callback is still to be called with
  process    \* "running", or "crashed" by a null user

table == <<attached, _users, deleted>>
lock == <<writer, readers>>
thread == <<pc, arg, op, cb, left>>
vars == <<session, table, lock, thread, process>>

Init ==
  /\ session = [s \in Sessions |-> "new"]
  /\ attached = {}
  /\ _users = {}
  /\ deleted = {}
  /\ writer = Nobody
  /\ readers = {}
  /\ pc = [t \in Threads |-> "idle"]
  /\ arg = [t \in Threads |-> Nobody]
  /\ op = [t \in Threads |-> "none"]
  /\ cb = [t \in Threads |-> "send"]
  /\ left = [t \in Threads |-> {}]
  /\ process = "running"

-----------------------------------------------------------------------------
\* std::unique_lock and std::shared_lock.
Lock(t) == writer = Nobody /\ readers = {} /\ writer' = t /\ UNCHANGED readers

Unlock(t) == writer = t /\ writer' = Nobody /\ UNCHANGED readers

LockShared(t) == writer = Nobody /\ readers' = readers \union {t} /\ UNCHANGED writer

UnlockShared(t) == readers' = readers \ {t} /\ UNCHANGED writer

At(t, label) == pc[t] = label
Goto(t, label) == pc' = [pc EXCEPT ![t] = label]

\* Locals of a function that has returned are dead.
Return(t) ==
  /\ Goto(t, "idle")
  /\ arg' = [arg EXCEPT ![t] = Nobody]
  /\ op' = [op EXCEPT ![t] = "none"]
  /\ cb' = [cb EXCEPT ![t] = "send"]
  /\ left' = [left EXCEPT ![t] = {}]

\* What follows deleteUserBase: its caller, or the next callback.
AfterDelete(t) ==
  IF op[t] = "deleteUser" THEN Return(t) ELSE Goto(t, "each") /\ UNCHANGED <<arg, op, cb, left>>

-----------------------------------------------------------------------------
\* addUserBase up to the lock: the user is made and attached to the session.
addUserBase_NoUser(t, s) ==
  /\ At(t, "idle")
  /\ session[s] = "new"
  /\ session' = [session EXCEPT ![s] = "adding"]
  /\ Goto(t, "addLock")
  /\ arg' = [arg EXCEPT ![t] = s]
  /\ op' = [op EXCEPT ![t] = "addUser"]
  /\ UNCHANGED <<table, lock, cb, left, process>>

addUserBase(t, s) ==
  /\ At(t, "idle")
  /\ session[s] = "new"
  /\ session' = [session EXCEPT ![s] = "adding"]
  /\ attached' = attached \union {s}
  /\ Goto(t, "addLock")
  /\ arg' = [arg EXCEPT ![t] = s]
  /\ op' = [op EXCEPT ![t] = "addUser"]
  /\ UNCHANGED <<_users, deleted, lock, cb, left, process>>

addUserLock(t) ==
  /\ At(t, "addLock")
  /\ Lock(t)
  /\ Goto(t, "addInsert")
  /\ UNCHANGED <<session, table, arg, op, cb, left, process>>

\* onAccept returns and the session is started.
addUserInsert(t) ==
  /\ At(t, "addInsert")
  /\ _users' = _users \union {arg[t]}
  /\ session' = [session EXCEPT ![arg[t]] = "open"]
  /\ Unlock(t)
  /\ Return(t)
  /\ UNCHANGED <<attached, deleted, process>>

\* deleteUser of a session found with getUser.
deleteUser(t, s) ==
  /\ At(t, "idle")
  /\ s \in _users /\ writer = Nobody
  /\ s \in attached
  /\ Goto(t, "delLock")
  /\ arg' = [arg EXCEPT ![t] = s]
  /\ op' = [op EXCEPT ![t] = "deleteUser"]
  /\ deleted' = deleted \union {s}
  /\ UNCHANGED <<session, attached, _users, lock, cb, left, process>>

deleteUserLock_Readers(t) ==
  /\ At(t, "delLock")
  /\ writer = Nobody
  /\ writer' = t
  /\ Goto(t, "delErase")
  /\ UNCHANGED <<session, table, readers, arg, op, cb, left, process>>

deleteUserLock(t) ==
  /\ At(t, "delLock")
  /\ Lock(t)
  /\ Goto(t, "delErase")
  /\ UNCHANGED <<session, table, arg, op, cb, left, process>>

\* Whether or not the session is still in the table, it loses its user.
deleteUserErase(t) ==
  /\ At(t, "delErase")
  /\ _users' = _users \ {arg[t]}
  /\ attached' = attached \ {arg[t]}
  /\ Unlock(t)
  /\ AfterDelete(t)
  /\ UNCHANGED <<session, deleted, process>>

-----------------------------------------------------------------------------
CallFor(t, f, S, c) ==
  /\ At(t, "idle")
  /\ Goto(t, "readLock")
  /\ op' = [op EXCEPT ![t] = f]
  /\ cb' = [cb EXCEPT ![t] = c]
  /\ left' = [left EXCEPT ![t] = S]
  /\ UNCHANGED <<session, table, lock, arg, process>>

functionTarget(t, s, c) == CallFor(t, "functionTarget", {s}, c)

functionTargets(t, S, c) == CallFor(t, "functionTargets", S, c)

functionForeach(t, c) == CallFor(t, "functionForeach", Sessions, c)

\* The functions that call back under the shared lock.
UnderLock == {"functionTarget", "functionForeach"}

\* The sessions are looked up; functionTarget for several keys copies them and
\* lets go of the lock.
readLock(t) ==
  /\ At(t, "readLock")
  /\ left' = [left EXCEPT ![t] = @ \intersect _users]
  /\ IF op[t] \in UnderLock THEN LockShared(t) ELSE writer = Nobody /\ UNCHANGED lock
  /\ Goto(t, "each")
  /\ UNCHANGED <<session, table, arg, op, cb, process>>

callback(t, s) ==
  /\ At(t, "each")
  /\ s \in left[t]
  /\ left' = [left EXCEPT ![t] = @ \ {s}]
  /\ IF cb[t] = "delete" /\ s \in attached
     THEN /\ arg' = [arg EXCEPT ![t] = s]
          /\ deleted' = deleted \union {s}
          /\ Goto(t, "delLock")
     ELSE UNCHANGED <<arg, deleted, pc>>
  /\ UNCHANGED <<session, attached, _users, lock, op, cb, process>>

functionReturns_KeepsLock(t) ==
  /\ At(t, "each")
  /\ left[t] = {}
  /\ Return(t)
  /\ UNCHANGED <<session, table, lock, process>>

functionReturns(t) ==
  /\ At(t, "each")
  /\ left[t] = {}
  /\ UnlockShared(t)
  /\ Return(t)
  /\ UNCHANGED <<session, table, process>>

-----------------------------------------------------------------------------
\* The session stays in the table with its user.
closedUser(s) ==
  /\ session[s] = "open"
  /\ s \in attached
  /\ session' = [session EXCEPT ![s] = "closed"]
  /\ UNCHANGED <<table, lock, thread, process>>

\* spUser is null.
closedUserNull(s) ==
  /\ session[s] = "open"
  /\ s \notin attached
  /\ process' = "crashed"
  /\ UNCHANGED <<session, table, lock, thread>>

-----------------------------------------------------------------------------
Callbacks == {"send", "delete"}

Begin(t) ==
  \/ functionForeach(t, "send")
  \/ /\ t \notin Senders
     /\ \/ functionForeach(t, "delete")
        \/ \E s \in Sessions : addUserBase(t, s) \/ deleteUser(t, s)
        \/ \E c \in Callbacks :
             \/ \E s \in Sessions : functionTarget(t, s, c)
             \/ \E S \in SUBSET Sessions : functionTargets(t, S, c)

Step(t) ==
  \/ addUserLock(t) \/ addUserInsert(t)
  \/ deleteUserLock(t) \/ deleteUserErase(t)
  \/ readLock(t) \/ functionReturns(t)
  \/ \E s \in Sessions : callback(t, s)

SessionStrand(s) == closedUser(s) \/ closedUserNull(s)

Next ==
  /\ process = "running"
  /\ \/ \E t \in Threads : Begin(t) \/ Step(t)
     \/ \E s \in Sessions : SessionStrand(s)

\* Threads are scheduled.  A std::shared_mutex does not say whom it lets in first,
\* so a thread that waits while others take the lock in turn may wait for ever.
Fairness == \A t \in Threads : WF_vars(process = "running" /\ Step(t))

Spec == Init /\ [][Next]_vars

FairSpec == Spec /\ Fairness

-----------------------------------------------------------------------------
\* Every variable has its type, and the lock is exclusive or shared.
TypeOK ==
  /\ session \in [Sessions -> {"new", "adding", "open", "closed"}]
  /\ attached \in SUBSET Sessions
  /\ _users \in SUBSET Sessions
  /\ deleted \in SUBSET Sessions
  /\ writer \in Threads \union {Nobody}
  /\ readers \in SUBSET Threads
  /\ writer # Nobody => readers = {}
  /\ pc \in [Threads -> {"idle", "addLock", "addInsert", "delLock", "delErase", "readLock", "each"}]
  /\ arg \in [Threads -> Sessions \union {Nobody}]
  /\ op \in [Threads -> {"none", "addUser", "deleteUser", "functionTargets"} \union UnderLock]
  /\ cb \in [Threads -> Callbacks]
  /\ left \in [Threads -> SUBSET Sessions]
  /\ process \in {"running", "crashed"}

Adding(s) == \E t \in Threads : pc[t] \in {"addLock", "addInsert"} /\ arg[t] = s

\* A session is in the table exactly if it has a user, but for the moment in
\* which it is being added, however deletions race: whoever finds a session
\* finds its user.
TableAgrees == \A s \in Sessions : s \in attached <=> s \in _users \/ Adding(s)

\* A callback under the shared lock is called only with sessions that are in
\* the table at that moment.
VisitedRegistered ==
  \A t \in Threads : pc[t] = "each" /\ op[t] \in UnderLock => left[t] \subseteq _users

\* onClose finds its user gone only if the application deleted it before.
CrashOnlyAfterDelete ==
  \A s \in Sessions : session[s] = "open" /\ s \notin attached => s \in deleted

\* A thread waits for the exclusive lock while it shares it: it never gets it.
SelfDeadlock(t) == pc[t] = "delLock" /\ t \in readers

\* If the threads make no new calls from some time on, every call returns,
\* whatever its callbacks do, unless one of them deletes a user under the shared
\* lock: calls never wait for each other in a circle, and no lock is left behind.
EveryCallReturns ==
  <>[][\A t \in Threads : ~Begin(t)]_vars =>
    \A t \in Threads :
      pc[t] # "idle" ~> \/ pc[t] = "idle"
                        \/ \E r \in Threads : SelfDeadlock(r)
                        \/ process = "crashed"
==============================================================================
