--------------------------- MODULE UserManagerProofs ---------------------------
(***************************************************************************)
(* Proofs about UserManager for any number of threads and sessions.       *)
(* The table shrinks only under the exclusive lock, and whoever calls back *)
(* under the shared lock is among the readers: so the invariant has who    *)
(* holds the lock where (LockInv).  A session that is being added cannot   *)
(* be deleted: so it has what threads are adding (AddInv), what they are   *)
(* deleting (DeleteInv) and that sessions looked up were started           *)
(* (KnownInv).                                                             *)
(***************************************************************************)
EXTENDS UserManager, TLAPS

\* Who is past a lock holds it, exclusively or shared.
LockInv ==
  \A t \in Threads :
    /\ pc[t] \in {"addInsert", "delErase"} => writer = t
    /\ op[t] \in UnderLock /\ pc[t] \in {"each", "delLock", "delErase"} => t \in readers
    /\ pc[t] \in {"readLock", "each"} => op[t] # "deleteUser"

\* The session has been started.
Known(s) == session[s] \in {"open", "closed"}

\* A session is added by one thread and not started before it is in the table.
AddInv ==
  \A t \in Threads :
    pc[t] \in {"addLock", "addInsert"} =>
      /\ arg[t] \in Sessions /\ session[arg[t]] = "adding"
      /\ \A r \in Threads : pc[r] \in {"addLock", "addInsert"} /\ arg[r] = arg[t] => r = t

\* Only started sessions are deleted.
DeleteInv ==
  \A t \in Threads :
    pc[t] \in {"delLock", "delErase"} => arg[t] \in Sessions /\ Known(arg[t]) /\ arg[t] \in deleted

\* Sessions in the table or to be called back for have been started.
KnownInv ==
  /\ \A s \in _users : Known(s)
  /\ \A t \in Threads :
       pc[t] \in {"each", "delLock", "delErase"} /\ op[t] # "deleteUser" =>
         \A s \in left[t] : Known(s)

\* The inductive invariant.
IInv ==
  /\ TypeOK /\ LockInv /\ AddInv /\ DeleteInv /\ KnownInv
  /\ TableAgrees /\ VisitedRegistered /\ CrashOnlyAfterDelete

\* A new session gets its user before it is in the table.
LEMMA AddUserBaseStep ==
  ASSUME IInv, NEW t \in Threads, NEW s \in Sessions, addUserBase(t, s)
  PROVE  IInv'
<1>1. TypeOK'
  BY DEF IInv, TypeOK, addUserBase, lock, At, Goto, UnderLock, Callbacks
<1>2. LockInv'
  BY DEF IInv, TypeOK, LockInv, addUserBase, lock, At, Goto, UnderLock
<1>3. AddInv'
  BY DEF IInv, TypeOK, AddInv, addUserBase, At, Goto
<1>4. DeleteInv'
  BY DEF IInv, TypeOK, DeleteInv, Known, addUserBase, At, Goto
<1>5. KnownInv'
  BY DEF IInv, TypeOK, KnownInv, Known, addUserBase, At, Goto
<1>6. TableAgrees'
  BY DEF IInv, TypeOK, TableAgrees, Adding, addUserBase, At, Goto
<1>7. VisitedRegistered'
  BY DEF IInv, TypeOK, VisitedRegistered, addUserBase, At, Goto, UnderLock
<1>8. CrashOnlyAfterDelete'
  BY DEF IInv, TypeOK, CrashOnlyAfterDelete, addUserBase, At, Goto
<1> QED
  BY <1>1, <1>2, <1>3, <1>4, <1>5, <1>6, <1>7, <1>8 DEF IInv

\* Taking the exclusive lock to add.
LEMMA AddUserLockStep ==
  ASSUME IInv, NEW t \in Threads, addUserLock(t)
  PROVE  IInv'
<1>1. TypeOK'
  BY DEF IInv, TypeOK, addUserLock, Lock, table, At, Goto, UnderLock,
    Callbacks
<1>2. LockInv'
  BY NobodyAssumption DEF IInv, TypeOK, LockInv, addUserLock, Lock, At, Goto,
    UnderLock
<1>3. AddInv'
  BY DEF IInv, TypeOK, AddInv, addUserLock, Lock, At, Goto
<1>4. DeleteInv'
  BY DEF IInv, TypeOK, DeleteInv, Known, addUserLock, Lock, table, At, Goto
<1>5. KnownInv'
  BY DEF IInv, TypeOK, KnownInv, Known, addUserLock, Lock, table, At, Goto
<1>6. TableAgrees'
  BY DEF IInv, TypeOK, TableAgrees, Adding, addUserLock, Lock, table, At, Goto
<1>7. VisitedRegistered'
  BY DEF IInv, TypeOK, VisitedRegistered, addUserLock, Lock, table, At, Goto,
    UnderLock
<1>8. CrashOnlyAfterDelete'
  BY DEF IInv, CrashOnlyAfterDelete, addUserLock, table
<1> QED
  BY <1>1, <1>2, <1>3, <1>4, <1>5, <1>6, <1>7, <1>8 DEF IInv

\* The session enters the table as it stops being added.
LEMMA AddUserInsertStep ==
  ASSUME IInv, NEW t \in Threads, addUserInsert(t)
  PROVE  IInv'
<1>1. TypeOK'
  BY NobodyAssumption DEF IInv, TypeOK, LockInv, AddInv, DeleteInv, addUserInsert,
    Unlock, Return, At, Goto, UnderLock, Callbacks
<1>2. LockInv'
  BY DEF IInv, TypeOK, LockInv, addUserInsert, Unlock, Return, At, Goto, UnderLock
<1>3. AddInv'
  BY DEF IInv, TypeOK, AddInv, addUserInsert, Unlock, Return, At, Goto
<1>4. DeleteInv'
  BY DEF IInv, TypeOK, DeleteInv, Known, addUserInsert, Unlock, Return, At, Goto
<1>5. KnownInv'
  BY NobodyAssumption DEF IInv, TypeOK, KnownInv, DeleteInv, AddInv, Known,
    addUserInsert, Unlock, Return, At, Goto
<1>6. TableAgrees'
  BY DEF IInv, TypeOK, TableAgrees, Adding, addUserInsert, Unlock, Return, At, Goto
<1>7. VisitedRegistered'
  BY DEF IInv, TypeOK, VisitedRegistered, addUserInsert, Unlock, Return, At, Goto,
    UnderLock
<1>8. CrashOnlyAfterDelete'
  BY DEF IInv, TypeOK, CrashOnlyAfterDelete, TableAgrees, Adding, DeleteInv, AddInv,
    addUserInsert, Unlock, Return, At, Goto
<1> QED
  BY <1>1, <1>2, <1>3, <1>4, <1>5, <1>6, <1>7, <1>8 DEF IInv

\* The session was found in the table.
LEMMA DeleteUserStep ==
  ASSUME IInv, NEW t \in Threads, NEW s \in Sessions, deleteUser(t, s)
  PROVE  IInv'
<1>1. TypeOK'
  BY DEF IInv, TypeOK, deleteUser, lock, At, Goto, UnderLock, Callbacks
<1>2. LockInv'
  BY DEF IInv, TypeOK, LockInv, deleteUser, lock, At, Goto, UnderLock
<1>3. AddInv'
  BY DEF IInv, TypeOK, AddInv, deleteUser, At, Goto
<1>4. DeleteInv'
  BY DEF IInv, TypeOK, LockInv, DeleteInv, KnownInv, AddInv, Known, deleteUser,
    lock, At, Goto, UnderLock
<1>5. KnownInv'
  BY DEF IInv, TypeOK, KnownInv, Known, deleteUser, At, Goto
<1>6. TableAgrees'
  BY DEF IInv, TypeOK, TableAgrees, Adding, deleteUser, At, Goto
<1>7. VisitedRegistered'
  BY DEF IInv, TypeOK, VisitedRegistered, deleteUser, At, Goto, UnderLock
<1>8. CrashOnlyAfterDelete'
  BY DEF IInv, TypeOK, CrashOnlyAfterDelete, deleteUser, At, Goto
<1> QED
  BY <1>1, <1>2, <1>3, <1>4, <1>5, <1>6, <1>7, <1>8 DEF IInv

\* Taking the exclusive lock to delete.
LEMMA DeleteUserLockStep ==
  ASSUME IInv, NEW t \in Threads, deleteUserLock(t)
  PROVE  IInv'
<1>1. TypeOK'
  BY DEF IInv, TypeOK, deleteUserLock, Lock, table, At, Goto, UnderLock,
    Callbacks
<1>2. LockInv'
  BY NobodyAssumption DEF IInv, TypeOK, LockInv, deleteUserLock, Lock, At, Goto,
    UnderLock
<1>3. AddInv'
  BY DEF IInv, TypeOK, AddInv, deleteUserLock, Lock, At, Goto
<1>4. DeleteInv'
  BY DEF IInv, TypeOK, DeleteInv, Known, deleteUserLock, Lock, table, At, Goto
<1>5. KnownInv'
  BY DEF IInv, TypeOK, KnownInv, Known, deleteUserLock, Lock, table, At, Goto
<1>6. TableAgrees'
  BY DEF IInv, TypeOK, TableAgrees, Adding, deleteUserLock, Lock, table, At, Goto
<1>7. VisitedRegistered'
  BY DEF IInv, TypeOK, VisitedRegistered, deleteUserLock, Lock, table, At, Goto,
    UnderLock
<1>8. CrashOnlyAfterDelete'
  BY DEF IInv, CrashOnlyAfterDelete, deleteUserLock, table
<1> QED
  BY <1>1, <1>2, <1>3, <1>4, <1>5, <1>6, <1>7, <1>8 DEF IInv

\* Nobody calls back under the shared lock while the table shrinks.
LEMMA DeleteUserEraseStep ==
  ASSUME IInv, NEW t \in Threads, deleteUserErase(t)
  PROVE  IInv'
<1>1. TypeOK'
  BY DEF IInv, TypeOK, deleteUserErase, Unlock, AfterDelete, Return, At, Goto,
    UnderLock, Callbacks
<1>2. LockInv'
  BY DEF IInv, TypeOK, LockInv, deleteUserErase, Unlock, AfterDelete, Return, At,
    Goto, UnderLock
<1>3. AddInv'
  BY DEF IInv, TypeOK, AddInv, deleteUserErase, Unlock, AfterDelete, Return, At, Goto
<1>4. DeleteInv'
  BY DEF IInv, TypeOK, DeleteInv, Known, deleteUserErase, Unlock, AfterDelete, Return,
    At, Goto
<1>5. KnownInv'
  BY DEF IInv, TypeOK, KnownInv, Known, deleteUserErase, Unlock, AfterDelete, Return,
    At, Goto
<1>6. TableAgrees'
  BY DEF IInv, TypeOK, TableAgrees, Adding, AddInv, DeleteInv, KnownInv, Known,
    deleteUserErase, Unlock, AfterDelete, Return, At, Goto
<1>7. VisitedRegistered'
  BY NobodyAssumption DEF IInv, TypeOK, LockInv, VisitedRegistered, deleteUserErase,
    Unlock, AfterDelete, Return, At, Goto, UnderLock
<1>8. CrashOnlyAfterDelete'
  BY DEF IInv, TypeOK, CrashOnlyAfterDelete, TableAgrees, Adding, DeleteInv, AddInv,
    deleteUserErase, Unlock, AfterDelete, Return, At, Goto
<1> QED
  BY <1>1, <1>2, <1>3, <1>4, <1>5, <1>6, <1>7, <1>8 DEF IInv

\* A call that will look sessions up.
LEMMA CallForStep ==
  ASSUME IInv, NEW t \in Threads, NEW f \in {"functionTarget", "functionTargets",
         "functionForeach"}, NEW S \in SUBSET Sessions, NEW c \in Callbacks, CallFor(t, f, S,
         c)
  PROVE  IInv'
<1>1. TypeOK'
  BY DEF IInv, TypeOK, CallFor, table, lock, At, Goto, UnderLock, Callbacks
<1>2. LockInv'
  BY DEF IInv, TypeOK, LockInv, CallFor, lock, At, Goto, UnderLock
<1>3. AddInv'
  BY DEF IInv, TypeOK, AddInv, CallFor, At, Goto
<1>4. DeleteInv'
  BY DEF IInv, TypeOK, DeleteInv, Known, CallFor, table, At, Goto
<1>5. KnownInv'
  BY DEF IInv, TypeOK, KnownInv, Known, CallFor, table, At, Goto
<1>6. TableAgrees'
  BY DEF IInv, TypeOK, TableAgrees, Adding, CallFor, table, At, Goto
<1>7. VisitedRegistered'
  BY DEF IInv, TypeOK, VisitedRegistered, CallFor, table, At, Goto, UnderLock
<1>8. CrashOnlyAfterDelete'
  BY DEF IInv, CrashOnlyAfterDelete, CallFor, table
<1> QED
  BY <1>1, <1>2, <1>3, <1>4, <1>5, <1>6, <1>7, <1>8 DEF IInv

\* What is looked up is in the table.
LEMMA ReadLockStep ==
  ASSUME IInv, NEW t \in Threads, readLock(t)
  PROVE  IInv'
<1>1. TypeOK'
  BY DEF IInv, TypeOK, readLock, LockShared, lock, table, At, Goto, UnderLock,
    Callbacks
<1>2. LockInv'
  BY DEF IInv, TypeOK, LockInv, readLock, LockShared, lock, At, Goto, UnderLock
<1>3. AddInv'
  BY DEF IInv, TypeOK, AddInv, readLock, LockShared, lock, At, Goto, UnderLock
<1>4. DeleteInv'
  BY DEF IInv, TypeOK, DeleteInv, Known, readLock, LockShared, lock, table, At, Goto,
    UnderLock
<1>5. KnownInv'
  BY DEF IInv, TypeOK, KnownInv, Known, readLock, LockShared, lock, table, At,
    Goto, UnderLock
<1>6. TableAgrees'
  BY DEF IInv, TypeOK, TableAgrees, Adding, readLock, LockShared, lock, table, At,
    Goto, UnderLock
<1>7. VisitedRegistered'
  BY DEF IInv, TypeOK, VisitedRegistered, readLock, LockShared, lock, table, At, Goto,
    UnderLock
<1>8. CrashOnlyAfterDelete'
  BY DEF IInv, CrashOnlyAfterDelete, readLock, table
<1> QED
  BY <1>1, <1>2, <1>3, <1>4, <1>5, <1>6, <1>7, <1>8 DEF IInv

\* The callback may start a deletion.
LEMMA CallbackStep ==
  ASSUME IInv, NEW t \in Threads, NEW s \in Sessions, callback(t, s)
  PROVE  IInv'
<1>1. TypeOK'
  BY DEF IInv, TypeOK, callback, lock, At, Goto, UnderLock, Callbacks
<1>2. LockInv'
  BY DEF IInv, TypeOK, LockInv, callback, lock, At, Goto, UnderLock
<1>3. AddInv'
  BY DEF IInv, TypeOK, AddInv, callback, At, Goto
<1>4. DeleteInv'
  BY DEF IInv, TypeOK, LockInv, DeleteInv, KnownInv, AddInv, Known, callback,
    lock, At, Goto, UnderLock
<1>5. KnownInv'
  BY DEF IInv, TypeOK, KnownInv, Known, callback, At, Goto
<1>6. TableAgrees'
  BY DEF IInv, TypeOK, TableAgrees, Adding, callback, At, Goto
<1>7. VisitedRegistered'
  BY DEF IInv, TypeOK, VisitedRegistered, callback, At, Goto, UnderLock
<1>8. CrashOnlyAfterDelete'
  BY DEF IInv, TypeOK, CrashOnlyAfterDelete, callback, At, Goto
<1> QED
  BY <1>1, <1>2, <1>3, <1>4, <1>5, <1>6, <1>7, <1>8 DEF IInv

\* The shared lock is released.
LEMMA FunctionReturnsStep ==
  ASSUME IInv, NEW t \in Threads, functionReturns(t)
  PROVE  IInv'
<1>1. TypeOK'
  BY DEF IInv, TypeOK, functionReturns, UnlockShared, Return, table, At, Goto,
    UnderLock, Callbacks
<1>2. LockInv'
  BY DEF IInv, TypeOK, LockInv, functionReturns, UnlockShared, Return, At, Goto,
    UnderLock
<1>3. AddInv'
  BY DEF IInv, TypeOK, AddInv, functionReturns, UnlockShared, Return, At, Goto
<1>4. DeleteInv'
  BY DEF IInv, TypeOK, DeleteInv, Known, functionReturns, UnlockShared, Return, table,
    At, Goto
<1>5. KnownInv'
  BY DEF IInv, TypeOK, KnownInv, Known, functionReturns, UnlockShared, Return, table,
    At, Goto
<1>6. TableAgrees'
  BY DEF IInv, TypeOK, TableAgrees, Adding, functionReturns, UnlockShared, Return,
    table, At, Goto
<1>7. VisitedRegistered'
  BY DEF IInv, TypeOK, VisitedRegistered, functionReturns, UnlockShared, Return,
    table, At, Goto, UnderLock
<1>8. CrashOnlyAfterDelete'
  BY DEF IInv, CrashOnlyAfterDelete, functionReturns, table
<1> QED
  BY <1>1, <1>2, <1>3, <1>4, <1>5, <1>6, <1>7, <1>8 DEF IInv

\* A closed session keeps its user.
LEMMA ClosedUserStep ==
  ASSUME IInv, NEW s \in Sessions, closedUser(s)
  PROVE  IInv'
<1>1. TypeOK'
  BY DEF IInv, TypeOK, closedUser, table, lock, thread,
    UnderLock, Callbacks
<1>2. AddInv'
  BY DEF IInv, TypeOK, AddInv, closedUser, thread
<1>3. DeleteInv'
  BY DEF IInv, TypeOK, DeleteInv, Known, closedUser, table,
    thread
<1>4. KnownInv'
  BY DEF IInv, TypeOK, KnownInv, Known, closedUser, table,
    thread
<1>5. CrashOnlyAfterDelete'
  BY DEF IInv, TypeOK, CrashOnlyAfterDelete, closedUser,
    table
<1>7. LockInv' /\ TableAgrees' /\ VisitedRegistered'
  BY DEF IInv, LockInv, TableAgrees, VisitedRegistered, Adding, closedUser, table,
    lock, thread
<1> QED
  BY <1>1, <1>2, <1>3, <1>4, <1>5, <1>7 DEF IInv

\* The process ends.
LEMMA ClosedUserNullStep ==
  ASSUME IInv, NEW s \in Sessions, closedUserNull(s)
  PROVE  IInv'
<1>1. TypeOK'
  BY DEF IInv, TypeOK, closedUserNull, table, lock, thread, UnderLock,
    Callbacks
<1>2. LockInv' /\ AddInv' /\ DeleteInv' /\ KnownInv' /\ TableAgrees' /\
     VisitedRegistered' /\ CrashOnlyAfterDelete'
  BY SMTT(30) DEF IInv, LockInv, AddInv, DeleteInv, KnownInv, TableAgrees, VisitedRegistered,
    CrashOnlyAfterDelete, Adding, Known, closedUserNull, table,
    lock, thread
<1> QED
  BY <1>1, <1>2 DEF IInv

\* The invariant holds in every state.
LEMMA Invariant == Spec => []IInv
<1>1. Init => IInv
  BY NobodyAssumption
  DEF Init, IInv, TypeOK, LockInv, AddInv, DeleteInv, KnownInv, TableAgrees, Adding,
      VisitedRegistered, CrashOnlyAfterDelete, UnderLock, Callbacks
<1>2. IInv /\ [Next]_vars => IInv'
  <2> SUFFICES ASSUME IInv, [Next]_vars PROVE IInv'
    OBVIOUS
  <2>1. ASSUME NEW t \in Threads, Begin(t) PROVE IInv'
    <3>1. /\ {"send", "delete"} \subseteq Callbacks /\ Sessions \in SUBSET Sessions
          /\ \A s \in Sessions : {s} \in SUBSET Sessions
      BY DEF Callbacks
    <3>2. ASSUME NEW c \in Callbacks, functionForeach(t, c) PROVE IInv'
      BY Zenon, <3>1, <3>2, CallForStep DEF functionForeach
    <3>3. ASSUME NEW c \in Callbacks, NEW s \in Sessions, functionTarget(t, s, c) PROVE IInv'
      BY Zenon, <3>1, <3>3, CallForStep DEF functionTarget
    <3>4. ASSUME NEW c \in Callbacks, NEW S \in SUBSET Sessions, functionTargets(t, S, c)
          PROVE  IInv'
      BY Zenon, <3>4, CallForStep DEF functionTargets
    <3> QED
      BY <2>1, <3>1, <3>2, <3>3, <3>4, AddUserBaseStep, DeleteUserStep DEF Begin
  <2>2. ASSUME NEW t \in Threads, Step(t) PROVE IInv'
    BY <2>2, AddUserLockStep, AddUserInsertStep, DeleteUserLockStep, DeleteUserEraseStep,
       ReadLockStep, FunctionReturnsStep, CallbackStep DEF Step
  <2>3. ASSUME NEW s \in Sessions, SessionStrand(s) PROVE IInv'
    BY <2>3, ClosedUserStep, ClosedUserNullStep DEF SessionStrand
  <2>4. CASE UNCHANGED vars
    BY SMTT(30), <2>4
    DEF vars, table, lock, thread, IInv, TypeOK, LockInv, AddInv, DeleteInv, KnownInv,
        Known, TableAgrees, Adding, VisitedRegistered, CrashOnlyAfterDelete
  <2> QED
    BY <2>1, <2>2, <2>3, <2>4 DEF Next
<1> QED
  BY <1>1, <1>2, PTL DEF Spec

\* The variables keep their types, and the lock is never both exclusive and shared.
THEOREM TypeCorrect == Spec => []TypeOK
BY Invariant, PTL DEF IInv

\* However additions and deletions race, who finds a session finds its user.
THEOREM TableAgreesHolds == Spec => []TableAgrees
BY Invariant, PTL DEF IInv

\* functionTarget and functionForeach call back only for sessions in the table.
THEOREM VisitedRegisteredHolds == Spec => []VisitedRegistered
BY Invariant, PTL DEF IInv

\* A session whose user is gone when it closes was deleted by the application.
THEOREM CrashOnlyAfterDeleteHolds == Spec => []CrashOnlyAfterDelete
BY Invariant, PTL DEF IInv
===============================================================================
