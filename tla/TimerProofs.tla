--------------------------- MODULE TimerProofs ---------------------------
(***************************************************************************)
(* Proofs about the two parts that live on timers, each for any value of   *)
(* its constants: the connector (Connector) and the schedulers             *)
(* (SimpleScheduler).                                                      *)
(***************************************************************************)
EXTENDS Connector, TLAPS

CONSTANTS MaxSchedules, Intervals, MaxQueue   \* of SimpleScheduler

VARIABLES
  kind, owned, busy, strandOwned, m_spStrand, m_processing, m_currentEntries, entry,
  updateWaits, queue, handler, caller, misuse

Scheduler == INSTANCE SimpleScheduler

-----------------------------------------------------------------------------
(***************************************************************************)
(* Connector, for any number of calls, sessions and targets. UpdatesGoOn   *)
(* only needs where the handlers of the timer are. For ConnectsAddUp the   *)
(* invariant follows the one connect of a call through the kernel (ops)    *)
(* and the strand by its position there: a call has one at most            *)
(* (OneConnect), it knows what is still to be made (Pending), and a call   *)
(* without one has made all or has ended (Over).                           *)
(***************************************************************************)

Connects == [call : Nat, remain : Nat]

Handlers ==
  [fn : {"handleConnectAsync"}, ok : BOOLEAN, arg : Connects]
    \union [fn : {"handleUpdate"}, ok : BOOLEAN, arg : {NoArg}]

TypeOK ==
  /\ strand \in Seq(Handlers)
  /\ waits \in Nat
  /\ ops \subseteq Connects
  /\ calls \in Nat
  /\ asked \in [Calls -> Nat]
  /\ target \in Targets
  /\ endpoint \in Targets \union {"none"}
  /\ onConnect \in [Calls -> Seq(Targets \union {"none"})]
  /\ ended \in [Calls -> {"no", "unreported", "nullptr", "onConnectFailed"}]

\* Places of connects on the strand.
Queued == {i \in 1 .. Len(strand) : strand[i].fn = "handleConnectAsync"}

OneConnect ==
  /\ \A o, p \in ops : o.call = p.call => o = p
  /\ \A i, j \in Queued : strand[i].arg.call = strand[j].arg.call => i = j
  /\ \A o \in ops, i \in Queued : strand[i].arg.call # o.call

Expected(o) ==
  /\ o.call \in Calls /\ o.call <= calls
  /\ ended[o.call] = "no"
  /\ asked[o.call] = Len(onConnect[o.call]) + 1 + o.remain

Pending ==
  /\ \A o \in ops : Expected(o)
  /\ \A i \in Queued : Expected(strand[i].arg)

Idle(k) == (\A o \in ops : o.call # k) /\ (\A i \in Queued : strand[i].arg.call # k)

Over ==
  \A k \in Calls : Idle(k) =>
    /\ ended[k] = "no" => asked[k] = Len(onConnect[k])
    /\ ended[k] # "no" => Len(onConnect[k]) < asked[k]

\* Calls not made yet.
Fresh == \A k \in Calls : k > calls => asked[k] = 0 /\ onConnect[k] = <<>> /\ ended[k] = "no"

IInv == TypeOK /\ OneConnect /\ Pending /\ Over /\ Fresh

\* An update that will arm the timer is queued.
Due(s) == \E i \in 1 .. Len(s) : s[i].fn = "handleUpdate" /\ s[i].ok

-----------------------------------------------------------------------------
\* t is s with n handlers of the timer behind it.
Extends(t, s, n, ok) ==
  /\ t \in Seq(Handlers) /\ Len(s) \in Nat /\ Len(t) = Len(s) + n
  /\ \A i \in 1 .. Len(s) : t[i] = s[i]
  /\ \A i \in Len(s) + 1 .. Len(s) + n : t[i] = Update(ok)

\* What the handlers that a timer completes add to the strand.
LEMMA ConcatFacts ==
  ASSUME NEW s \in Seq(Handlers), NEW n \in Nat, NEW ok \in BOOLEAN
  PROVE  Extends(s \o Times(n, Update(ok)), s, n, ok)
<1>1. Update(ok) \in Handlers
  BY DEF Update, Call, Handlers
<1>2. Times(n, Update(ok)) \in Seq(Handlers) /\ Len(Times(n, Update(ok))) = n
  BY <1>1 DEF Times
<1>3. \A i \in 1 .. n : Times(n, Update(ok))[i] = Update(ok)
  BY DEF Times
<1> HIDE DEF Handlers
<1> QED
  BY <1>2, <1>3 DEF Extends

\* What taking the handler at the head leaves.
LEMMA TailFacts ==
  ASSUME NEW s \in Seq(Handlers), s # <<>>
  PROVE  /\ Tail(s) \in Seq(Handlers) /\ Len(Tail(s)) = Len(s) - 1 /\ Len(s) \in Nat \ {0}
         /\ Head(s) = s[1] /\ Head(s) \in Handlers
         /\ \A i \in 1 .. Len(s) - 1 : Tail(s)[i] = s[i + 1]
<1> HIDE DEF Handlers
<1> QED
  OBVIOUS

\* An update that is due stays so when handlers are added behind it.
LEMMA ConcatDue ==
  ASSUME NEW s \in Seq(Handlers), NEW n \in Nat, NEW ok \in BOOLEAN, Due(s) \/ (n > 0 /\ ok)
  PROVE  Due(s \o Times(n, Update(ok)))
<1> DEFINE t == s \o Times(n, Update(ok))
<1>1. /\ Len(t) = Len(s) + n /\ Len(s) \in Nat
      /\ \A i \in 1 .. Len(s) : t[i] = s[i]
      /\ \A i \in Len(s) + 1 .. Len(s) + n : t[i] = Update(ok)
  BY ConcatFacts, ZenonT(30) DEF Extends
<1> HIDE DEF t
<1> SUFFICES Due(t)
  BY DEF t
<1>2. CASE Due(s)
  <2>1. PICK i \in 1 .. Len(s) : s[i].fn = "handleUpdate" /\ s[i].ok
    BY <1>2 DEF Due
  <2>2. i \in 1 .. Len(t) /\ t[i] = s[i]
    BY <1>1
  <2> QED
    BY <2>1, <2>2 DEF Due
<1>3. CASE n > 0 /\ ok
  <2>1. Len(s) + 1 \in 1 .. Len(t) /\ Len(s) + 1 \in Len(s) + 1 .. Len(s) + n
    BY <1>1, <1>3
  <2>2. t[Len(s) + 1] = Update(ok)
    BY <1>1, <2>1
  <2>3. Update(ok).fn = "handleUpdate" /\ Update(ok).ok
    BY <1>3 DEF Update, Call
  <2> QED
    BY <2>1, <2>2, <2>3 DEF Due
<1> QED
  BY <1>2, <1>3

\* It stays so when another handler is run.
LEMMA TailDue ==
  ASSUME NEW s \in Seq(Handlers), s # <<>>, Due(s),
         ~(Head(s).fn = "handleUpdate" /\ Head(s).ok)
  PROVE  Due(Tail(s))
<1>1. PICK i \in 1 .. Len(s) : s[i].fn = "handleUpdate" /\ s[i].ok
  BY DEF Due
<1>2. i # 1 /\ i - 1 \in 1 .. Len(s) - 1 /\ Tail(s)[i - 1] = s[i]
  BY <1>1, TailFacts
<1> QED
  BY <1>1, <1>2, TailFacts, Zenon DEF Due

-----------------------------------------------------------------------------
\* The connects under way and what is known of them do not change when only
\* updates are queued or run: a connect at i + d is at i afterwards.
LEMMA SameConnects ==
  ASSUME IInv, TypeOK', NEW d \in {0, 1},
         UNCHANGED <<ops, calls, asked, onConnect, ended>>,
         \A i \in Queued' : i + d \in Queued /\ strand[i + d] = strand'[i],
         \A i \in Queued : i - d \in Queued' /\ strand'[i - d] = strand[i]
  PROVE  IInv'
<1>1. OneConnect'
  <2>1. \A i, j \in Queued' : i + d = j + d => i = j
    BY DEF Queued
  <2> QED
    BY <2>1 DEF IInv, OneConnect
<1>2. Pending'
  BY SMTT(30) DEF IInv, Pending, Expected
<1>3. \A k : Idle(k)' => Idle(k)
  BY DEF Idle
<1>4. Over' /\ Fresh'
  BY <1>3 DEF IInv, Over, Fresh
<1> QED
  BY <1>1, <1>2, <1>4 DEF IInv

\* Handlers of the timer are added at the end; one may have been taken (d = 1).
LEMMA UpdatesOnly ==
  ASSUME IInv, NEW d \in {0, 1}, strand' \in Seq(Handlers), Len(strand') >= Len(strand) - d,
         d = 1 => strand # <<>> /\ strand[1].fn = "handleUpdate",
         \A i \in 1 .. Len(strand) - d : strand'[i] = strand[i + d],
         \A i \in Len(strand) - d + 1 .. Len(strand') : strand'[i].fn = "handleUpdate",
         waits' \in Nat, UNCHANGED <<ops, calls, asked, onConnect, ended, target, endpoint>>
  PROVE  IInv'
<1>1. TypeOK'
  BY DEF IInv, TypeOK
<1>2. Len(strand) \in Nat /\ Len(strand') \in Nat
  BY DEF IInv, TypeOK
<1>3. \A i \in Queued' : i + d \in Queued /\ strand[i + d] = strand'[i]
  <2> SUFFICES ASSUME NEW i \in 1 .. Len(strand'), strand'[i].fn = "handleConnectAsync"
               PROVE  i + d \in Queued /\ strand[i + d] = strand'[i]
    BY DEF Queued
  <2>1. i \in 1 .. Len(strand) - d
    BY <1>2
  <2> QED
    BY <1>2, <2>1 DEF Queued
<1>4. \A i \in Queued : i - d \in Queued' /\ strand'[i - d] = strand[i]
  <2> SUFFICES ASSUME NEW i \in 1 .. Len(strand), strand[i].fn = "handleConnectAsync"
               PROVE  i - d \in Queued' /\ strand'[i - d] = strand[i]
    BY DEF Queued
  <2>1. i - d \in 1 .. Len(strand) - d /\ (i - d) + d = i
    BY <1>2
  <2>2. strand'[i - d] = strand[i] /\ i - d \in 1 .. Len(strand')
    BY <1>2, <2>1, SMTT(30)
  <2> QED
    BY <2>2 DEF Queued
<1> QED
  BY <1>1, <1>3, <1>4, SameConnects, SMTT(30)

\* The timer is armed, expires and is armed again.
LEMMA TimerStep ==
  ASSUME IInv,
         \/ connectExpire
         \/ UpdaterExpires /\ UNCHANGED connectVars
         \/ handleUpdate /\ UNCHANGED connectVars
         \/ handleUpdateAborted /\ UNCHANGED connectVars
  PROVE  IInv'
<1> USE DEF connectVars
<1>1. /\ strand \in Seq(Handlers) /\ waits \in Nat
      /\ UNCHANGED <<ops, calls, asked, onConnect, ended, target, endpoint>>
  BY DEF IInv, TypeOK, connectExpire
<1>2. \A ok \in BOOLEAN : Update(ok).fn = "handleUpdate"
  BY DEF Update, Call
<1>3. ASSUME NEW ok \in BOOLEAN, strand' = strand \o Times(waits, Update(ok)), waits' \in Nat
      PROVE  IInv'
  <2>1. Extends(strand', strand, waits, ok)
    BY <1>1, <1>3, ConcatFacts
  <2>2. /\ strand' \in Seq(Handlers)
        /\ Len(strand') >= Len(strand) - 0
        /\ \A i \in 1 .. Len(strand) - 0 : strand'[i] = strand[i + 0]
        /\ \A i \in Len(strand) - 0 + 1 .. Len(strand') : strand'[i].fn = "handleUpdate"
    BY <1>1, <1>2, <2>1 DEF Extends
  <2> QED
    BY <1>1, <1>3, <2>2, UpdatesOnly
<1>4. CASE connectExpire
  BY <1>3, <1>4, Zenon DEF connectExpire, expireTimerCancel, expires_from_now
<1>5. CASE UpdaterExpires
  BY <1>3, <1>5, Zenon DEF UpdaterExpires
<1>6. ASSUME strand # <<>>, Head(strand).fn = "handleUpdate"
      PROVE  /\ Tail(strand) \in Seq(Handlers) /\ Len(Tail(strand)) = Len(strand) - 1
             /\ strand[1].fn = "handleUpdate"
             /\ \A i \in 1 .. Len(strand) - 1 : Tail(strand)[i] = strand[i + 1]
             /\ Len(strand) \in Nat \ {0}
  BY <1>1, <1>6, TailFacts
<1>7. CASE handleUpdate
  <2>1. /\ strand # <<>> /\ Head(strand).fn = "handleUpdate" /\ waits' \in Nat
        /\ strand' = Tail(strand) \o Times(waits, Update(FALSE))
    BY <1>7 DEF handleUpdate, Running, expires_from_now
  <2>2. /\ Tail(strand) \in Seq(Handlers) /\ Len(Tail(strand)) = Len(strand) - 1
        /\ strand[1].fn = "handleUpdate" /\ Len(strand) \in Nat \ {0}
        /\ \A i \in 1 .. Len(strand) - 1 : Tail(strand)[i] = strand[i + 1]
    BY <1>6, <2>1
  <2>3. Extends(strand', Tail(strand), waits, FALSE)
    BY <1>1, <2>1, <2>2, ConcatFacts, Zenon
  <2>4. /\ strand' \in Seq(Handlers)
        /\ Len(strand') >= Len(strand) - 1
        /\ \A i \in 1 .. Len(strand) - 1 : strand'[i] = strand[i + 1]
    BY <1>1, <2>2, <2>3 DEF Extends
  <2>5. \A i \in Len(strand) - 1 + 1 .. Len(strand') : strand'[i] = Update(FALSE)
    BY <1>1, <2>2, <2>3, Zenon DEF Extends
  <2>6. \A i \in Len(strand) - 1 + 1 .. Len(strand') : strand'[i].fn = "handleUpdate"
    BY <1>2, <2>5, Zenon
  <2> QED
    BY <1>1, <2>1, <2>2, <2>4, <2>6, UpdatesOnly, Zenon
<1>8. CASE handleUpdateAborted
  <2>1. /\ strand # <<>> /\ Head(strand).fn = "handleUpdate" /\ waits' \in Nat
        /\ strand' = Tail(strand)
    BY <1>1, <1>8 DEF handleUpdateAborted, Running
  <2>2. /\ Len(strand') >= Len(strand) - 1
        /\ \A i \in Len(strand) - 1 + 1 .. Len(strand') : strand'[i].fn = "handleUpdate"
    BY <1>6, <2>1
  <2> QED
    BY <1>1, <1>6, <2>1, <2>2, UpdatesOnly
<1> QED
  BY <1>4, <1>5, <1>7, <1>8

\* Arming the timer, another target and the end of the process do not concern the
\* connects.
LEMMA OtherStep ==
  ASSUME IInv,
         \/ connectExpireWait
         \/ handleUpdateWait /\ UNCHANGED connectVars
         \/ \E t \in Targets : setTargetServer(t)
         \/ handleConnectAsyncThrows
  PROVE  IInv'
<1>1. TypeOK'
  <2>1. CASE connectExpireWait
    BY <2>1 DEF IInv, TypeOK, connectExpireWait, expireTimerWait
  <2>2. CASE \E t \in Targets : setTargetServer(t)
    BY <2>2 DEF IInv, TypeOK, setTargetServer, netVars
  <2>3. CASE handleConnectAsyncThrows
    BY <2>3 DEF IInv, TypeOK, handleConnectAsyncThrows, netVars
  <2>4. CASE handleUpdateWait /\ UNCHANGED connectVars
    BY <2>4 DEF IInv, TypeOK, handleUpdateWait, connectVars
  <2> QED
    BY <2>1, <2>2, <2>3, <2>4
<1>2. UNCHANGED <<strand, ops, calls, asked, onConnect, ended>>
  BY Zenon DEF connectExpireWait, handleUpdateWait, setTargetServer,
         handleConnectAsyncThrows, connectVars, netVars
<1>3. OneConnect' /\ Pending' /\ Over' /\ Fresh'
  BY <1>2 DEF IInv, OneConnect, Pending, Over, Fresh, Queued, Expected, Idle
<1> QED
  BY <1>1, <1>3 DEF IInv

-----------------------------------------------------------------------------
\* A call that is made has no connect under way yet, and the others keep theirs.
LEMMA NewCallFacts ==
  ASSUME IInv, MaxCalls \in Nat, NEW n \in Nat, NewCall(n)
  PROVE  /\ calls + 1 \in Calls /\ calls' = calls + 1 /\ calls \in Nat
         /\ asked' \in [Calls -> Nat] /\ asked'[calls + 1] = n
         /\ \A k \in Calls : k # calls + 1 => asked'[k] = asked[k]
         /\ Idle(calls + 1)
         /\ onConnect[calls + 1] = <<>> /\ ended[calls + 1] = "no"
<1>1. calls + 1 \in Calls /\ calls' = calls + 1 /\ calls \in Nat
  BY DEF IInv, TypeOK, NewCall, Calls
<1>2. /\ asked' \in [Calls -> Nat] /\ asked'[calls + 1] = n
      /\ \A k \in Calls : k # calls + 1 => asked'[k] = asked[k]
  BY <1>1 DEF IInv, TypeOK, NewCall
<1>3. onConnect[calls + 1] = <<>> /\ ended[calls + 1] = "no"
  BY <1>1 DEF IInv, Fresh
<1>4. Idle(calls + 1)
  BY <1>1 DEF IInv, Pending, Expected, Idle
<1> QED
  BY <1>1, <1>2, <1>3, <1>4

\* The endpoint is a target, or was not resolved.
LEMMA EndPointType ==
  ASSUME IInv, EndPointSet \/ EndPointFails
  PROVE  endpoint' \in Targets \union {"none"}
BY DEF IInv, TypeOK, EndPointSet, EndPointFails

\* The first connect of a call leaves one less to be made.
LEMMA ConnectAsyncStep ==
  ASSUME IInv, MaxCalls \in Nat, MaxSessions \in Nat, NEW n \in 1 .. MaxSessions, connectAsync(n)
  PROVE  IInv'
<1>1. n \in Nat \ {0} /\ NewCall(n)
  BY DEF connectAsync
<1>2. PICK k \in Calls :
        /\ k = calls + 1 /\ calls' = k /\ calls \in Nat
        /\ asked' \in [Calls -> Nat] /\ asked'[k] = n
        /\ \A j \in Calls : j # k => asked'[j] = asked[j]
        /\ Idle(k) /\ onConnect[k] = <<>> /\ ended[k] = "no"
  BY <1>1, NewCallFacts
<1>3. PICK new \in Connects : new = Connecting(k, n - 1) /\ new.call = k /\ new.remain = n - 1
  <2>1. k \in Nat /\ n - 1 \in Nat
    BY <1>1, <1>2 DEF Calls
  <2>2. /\ Connecting(k, n - 1) \in Connects
        /\ Connecting(k, n - 1).call = k /\ Connecting(k, n - 1).remain = n - 1
    BY <2>1 DEF Connecting, Connects
  <2> QED
    BY <2>2
<1>4. ops' = ops \union {new} /\ UNCHANGED <<strand, waits, target, onConnect, ended>>
  BY <1>2, <1>3 DEF connectAsync, FirstRemain, netVars
<1>5. \A j \in Calls : (j <= calls => j <= k /\ j # k) /\ (j > k => j > calls /\ j # k)
  BY <1>2 DEF Calls
<1>6. TypeOK'
  <2>1. endpoint' \in Targets \union {"none"}
    BY EndPointType DEF connectAsync
  <2>2. calls' \in Nat
    BY <1>2
  <2> QED
    BY <1>2, <1>4, <2>1, <2>2, Zenon DEF IInv, TypeOK
<1>7. OneConnect'
  BY <1>2, <1>3, <1>4 DEF IInv, OneConnect, Idle, Queued
<1>8. Pending'
  <2>1. Len(onConnect[k]) = 0
    BY <1>2
  <2>2. Expected(new)'
    <3>1. k <= k /\ n = 0 + 1 + (n - 1)
      BY <1>1, <1>2 DEF Calls
    <3> QED
      BY <1>2, <1>3, <1>4, <2>1, <3>1, SMTT(30) DEF Expected
  <2>3. \A o : Expected(o) => Expected(o)'
    BY <1>2, <1>4, <1>5, Zenon DEF Expected
  <2> QED
    <3>1. \A o \in ops' : o \in ops \/ o = new
      BY <1>4
    <3>2. (\A o \in ops : Expected(o))'
      BY <2>2, <2>3, <3>1 DEF IInv, Pending
    <3>3. (\A i \in Queued : Expected(strand[i].arg))'
      BY <1>4, <2>3 DEF IInv, Pending, Queued
    <3> QED
      BY <3>2, <3>3 DEF Pending
<1>9. Over'
  BY <1>2, <1>3, <1>4 DEF IInv, Over, Idle, Queued
<1>10. Fresh'
  BY <1>2, <1>4, <1>5, Zenon DEF IInv, Fresh
<1> QED
  BY <1>6, <1>7, <1>8, <1>9, <1>10 DEF IInv

\* A call that fails at once, and a blocking one, have no connect on the strand.
LEMMA CallEndsStep ==
  ASSUME IInv, MaxCalls \in Nat, MaxSessions \in Nat,
         \/ \E n \in 1 .. MaxSessions : connectAsyncFails(n)
         \/ connectSync
         \/ connectSyncFails
  PROVE  IInv'
<1>1. PICK n \in Nat \ {0} :
        /\ NewCall(n)
        /\ \/ connectAsyncFails(n)
           \/ connectSync /\ n = 1
           \/ connectSyncFails
  <2>1. CASE \E n \in 1 .. MaxSessions : connectAsyncFails(n)
    BY <2>1 DEF connectAsyncFails
  <2>2. CASE connectSync \/ connectSyncFails
    <3>1. NewCall(1)
      BY <2>2 DEF connectSync, connectSyncFails
    <3> QED
      BY <2>2, <3>1
  <2> QED
    BY <2>1, <2>2
<1>2. PICK k \in Calls :
        /\ k = calls + 1 /\ calls' = k /\ calls \in Nat
        /\ asked' \in [Calls -> Nat] /\ asked'[k] = n
        /\ \A j \in Calls : j # k => asked'[j] = asked[j]
        /\ Idle(k) /\ onConnect[k] = <<>> /\ ended[k] = "no"
  BY <1>1, NewCallFacts
<1>3. /\ UNCHANGED <<ops, strand, waits, target>>
      /\ endpoint' \in Targets \union {"none"}
  BY <1>1, EndPointType DEF connectAsyncFails, connectSync, connectSyncFails, netVars
<1>4. \A j \in Calls : (j <= calls => j <= k /\ j # k) /\ (j > k => j > calls /\ j # k)
  BY <1>2 DEF Calls
<1>5. /\ onConnect' \in [Calls -> Seq(Targets \union {"none"})]
      /\ ended' \in [Calls -> {"no", "unreported", "nullptr", "onConnectFailed"}]
      /\ \A j \in Calls : j # k => onConnect'[j] = onConnect[j] /\ ended'[j] = ended[j]
      /\ \/ ended'[k] = "no" /\ n = 1 /\ Len(onConnect'[k]) = 1
         \/ ended'[k] # "no" /\ Len(onConnect'[k]) = 0
  <2>1. CASE connectSync /\ n = 1
    BY <1>2, <1>3, <2>1, SMTT(30) DEF IInv, TypeOK, connectSync
  <2>2. CASE connectAsyncFails(n)
    BY Zenon, <1>2, <2>2 DEF IInv, TypeOK, connectAsyncFails
  <2>3. CASE connectSyncFails
    BY <1>2, <2>3 DEF IInv, TypeOK, connectSyncFails
  <2> QED
    BY <1>1, <2>1, <2>2, <2>3, SMTT(30)
<1>6. TypeOK'
  BY <1>2, <1>3, <1>5, SMTT(30) DEF IInv, TypeOK
<1>7. OneConnect'
  BY <1>3 DEF IInv, OneConnect, Queued
<1>8. Pending'
  <2>1. \A o : Expected(o) => Expected(o)'
    BY <1>2, <1>4, <1>5, Zenon DEF Expected
  <2> QED
    BY <1>3, <2>1 DEF IInv, Pending, Queued
<1>9. Over'
  <2>1. \A j \in Calls : Idle(j)' => Idle(j)
    BY <1>3 DEF Idle, Queued
  <2> SUFFICES ASSUME NEW j \in Calls, Idle(j)'
               PROVE  /\ ended'[j] = "no" => asked'[j] = Len(onConnect'[j])
                      /\ ended'[j] # "no" => Len(onConnect'[j]) < asked'[j]
    BY DEF Over
  <2>2. CASE j = k
    <3>1. \/ ended'[k] = "no" /\ n = 1 /\ Len(onConnect'[k]) = 1
          \/ ended'[k] # "no" /\ Len(onConnect'[k]) = 0
      BY <1>5
    <3>2. asked'[k] = n
      BY <1>2
    <3>3. 0 < n
      OBVIOUS
    <3>4. CASE ended'[k] = "no" /\ n = 1 /\ Len(onConnect'[k]) = 1
      BY <2>2, <3>2, <3>4
    <3>5. CASE ended'[k] # "no" /\ Len(onConnect'[k]) = 0
      BY <2>2, <3>2, <3>3, <3>5
    <3> QED
      BY <3>1, <3>4, <3>5
  <2>3. CASE j # k
    BY <1>2, <1>5, <2>1, <2>3 DEF IInv, Over
  <2> QED
    BY <2>2, <2>3
<1>10. Fresh'
  BY Zenon, <1>2, <1>4, <1>5 DEF IInv, Fresh
<1> QED
  BY <1>6, <1>7, <1>8, <1>9, <1>10 DEF IInv

-----------------------------------------------------------------------------
\* A connect that is over goes from the kernel to the end of the strand.
LEMMA ConnectEndsStep ==
  ASSUME IInv, NEW o \in ops, NEW ok \in BOOLEAN, ConnectEnds(o, ok)
  PROVE  IInv'
<1>1. PICK h \in Handlers : strand' = Append(strand, h) /\ h.fn = "handleConnectAsync" /\ h.arg = o
  <2>1. /\ Call("handleConnectAsync", ok, o) \in Handlers
        /\ Call("handleConnectAsync", ok, o).fn = "handleConnectAsync"
        /\ Call("handleConnectAsync", ok, o).arg = o
    BY DEF Call, Handlers, IInv, TypeOK
  <2> QED
    BY <2>1 DEF ConnectEnds
<1>2. PICK n \in Nat :
        /\ n = Len(strand) + 1 /\ Len(strand') = n /\ strand'[n] = h /\ strand' \in Seq(Handlers)
        /\ \A i \in 1 .. Len(strand) : strand'[i] = strand[i]
  <2> HIDE DEF Handlers
  <2> QED
    BY <1>1 DEF IInv, TypeOK
<1>3. n \in Queued' /\ strand'[n].arg = o
  BY <1>1, <1>2 DEF Queued
<1>4. \A i \in Queued' : i = n \/ (i \in Queued /\ strand'[i] = strand[i])
  BY <1>2 DEF Queued
<1>5. \A i \in Queued : i \in Queued' /\ strand'[i] = strand[i]
  BY <1>2 DEF Queued, IInv, TypeOK
<1>6. ops' = ops \ {o} /\ UNCHANGED <<waits, calls, asked, onConnect, ended, target, endpoint>>
  BY DEF ConnectEnds
<1>7. TypeOK'
  BY <1>2, <1>6 DEF IInv, TypeOK
<1>8. OneConnect'
  <2>1. \A p \in ops' : p \in ops /\ p.call # o.call
    BY <1>6 DEF IInv, OneConnect
  <2>2. \A i \in Queued' : i = n \/ (i \in Queued /\ strand'[i].arg.call # o.call)
    BY Zenon, <1>4 DEF IInv, OneConnect
  <2>3. (\A p, q \in ops : p.call = q.call => p = q)'
    BY Zenon, <2>1 DEF IInv, OneConnect
  <2>4. ASSUME NEW i \in Queued', NEW j \in Queued', strand'[i].arg.call = strand'[j].arg.call
        PROVE  i = j
    <3>1. CASE i = n \/ j = n
      BY Zenon, <1>3, <2>2, <2>4, <3>1
    <3>2. CASE i # n /\ j # n
      BY Zenon, <1>4, <2>4, <3>2 DEF IInv, OneConnect
    <3> QED
      BY <3>1, <3>2
  <2>5. ASSUME NEW p \in ops', NEW i \in Queued' PROVE strand'[i].arg.call # p.call
    <3>1. CASE i = n
      BY Zenon, <1>3, <2>1, <3>1
    <3>2. CASE i # n
      BY Zenon, <1>4, <2>1, <3>2 DEF IInv, OneConnect
    <3> QED
      BY <3>1, <3>2
  <2> QED
    BY Zenon, <2>3, <2>4, <2>5 DEF OneConnect
<1>9. Pending'
  <2>1. \A a : Expected(a) => Expected(a)'
    BY <1>6 DEF Expected
  <2>2. (\A i \in Queued : Expected(strand[i].arg))'
    BY Zenon, <1>3, <1>4, <2>1 DEF IInv, Pending
  <2> QED
    BY <1>6, <2>1, <2>2 DEF IInv, Pending
<1>10. Over' /\ Fresh'
  <2>1. \A k \in Calls : Idle(k)' => Idle(k)
    BY Zenon, <1>3, <1>5, <1>6 DEF Idle
  <2> QED
    BY Zenon, <1>6, <2>1 DEF IInv, Over, Fresh
<1> QED
  BY <1>7, <1>8, <1>9, <1>10 DEF IInv

\* The connect at the head is the only one of its call.
LEMMA HeadConnect ==
  ASSUME IInv, strand # <<>>, Head(strand).fn = "handleConnectAsync", strand' = Tail(strand)
  PROVE  /\ Arg \in Connects /\ Expected(Arg)
         /\ strand' \in Seq(Handlers)
         /\ \A o \in ops : o.call # Arg.call
         /\ \A i \in Queued' : i + 1 \in Queued /\ strand[i + 1] = strand'[i]
                               /\ strand'[i].arg.call # Arg.call
         /\ \A i \in Queued : strand[i].arg.call # Arg.call =>
                               i - 1 \in Queued' /\ strand'[i - 1] = strand[i]
<1>1. /\ strand' \in Seq(Handlers) /\ Len(strand') = Len(strand) - 1 /\ Len(strand) \in Nat \ {0}
      /\ Arg = strand[1].arg /\ strand[1].fn = "handleConnectAsync" /\ strand[1] \in Handlers
      /\ \A i \in 1 .. Len(strand) - 1 : strand'[i] = strand[i + 1]
  BY TailFacts DEF IInv, TypeOK, Arg
<1>2. Arg \in Connects
  BY <1>1 DEF Handlers
<1>3. 1 \in Queued
  BY <1>1 DEF Queued
<1>4. Expected(Arg)
  BY <1>1, <1>3 DEF IInv, Pending
<1>5. \A o \in ops : o.call # Arg.call
  BY <1>1, <1>3 DEF IInv, OneConnect
<1>6. \A i \in Queued' : i + 1 \in Queued /\ strand[i + 1] = strand'[i] /\ i + 1 # 1
  BY <1>1 DEF Queued
<1>7. \A i \in Queued' : strand'[i].arg.call # Arg.call
  <2> TAKE i \in Queued'
  <2>1. i + 1 \in Queued /\ i + 1 # 1 /\ strand[i + 1] = strand'[i]
    BY <1>6, Zenon
  <2>2. strand[i + 1].arg.call # strand[1].arg.call
    BY <1>3, <2>1, Zenon DEF IInv, OneConnect
  <2> QED
    BY <1>1, <2>1, <2>2, Zenon
<1>8. ASSUME NEW i \in Queued, strand[i].arg.call # Arg.call
      PROVE  i - 1 \in Queued' /\ strand'[i - 1] = strand[i]
  <2>1. i \in 1 .. Len(strand) /\ i # 1 /\ strand[i].fn = "handleConnectAsync"
    BY <1>1, <1>8 DEF Queued
  <2>2. i - 1 \in 1 .. Len(strand) - 1 /\ (i - 1) + 1 = i
    BY <1>1, <2>1
  <2>3. strand'[i - 1] = strand[i]
    BY <1>1, <2>2
  <2> QED
    BY <1>1, <2>1, <2>2, <2>3 DEF Queued
<1> QED
  BY <1>1, <1>2, <1>4, <1>5, <1>6, <1>7, <1>8, Zenon

\* Whoever takes the connect at the head of the strand leaves its call with a next
\* connect that knows what remains, with all made, or ended.
LEMMA HeadTaken ==
  ASSUME IInv, TypeOK', strand # <<>>, Head(strand).fn = "handleConnectAsync",
         strand' = Tail(strand), UNCHANGED <<calls, asked>>,
         NEW c, c = Arg.call, NEW next \in SUBSET Connects, ops' = ops \union next,
         \A p \in next : next = {p} /\ Expected(p)' /\ p.call = c,
         \A k \in Calls : k # c => onConnect'[k] = onConnect[k] /\ ended'[k] = ended[k],
         next = {} => /\ ended'[c] = "no" => asked[c] = Len(onConnect'[c])
                      /\ ended'[c] # "no" => Len(onConnect'[c]) < asked[c]
  PROVE  IInv'
<1>1. /\ \A o \in ops : o.call # c
      /\ \A i \in Queued' : i + 1 \in Queued /\ strand[i + 1] = strand'[i]
      /\ \A i \in Queued' : strand'[i].arg.call # c
      /\ \A i \in Queued : strand[i].arg.call # c =>
                            i - 1 \in Queued' /\ strand'[i - 1] = strand[i]
  BY HeadConnect, Zenon
<1>2. \A i, j \in Queued' : i + 1 = j + 1 => i = j
  BY DEF Queued
<1>3. OneConnect'
  <2>1. \A o, p \in ops' : o.call = p.call => o = p
    <3> TAKE o, p \in ops'
    <3>1. /\ o \in ops \/ (next = {o} /\ o.call = c)
          /\ p \in ops \/ (next = {p} /\ p.call = c)
      BY Zenon
    <3>2. o \in ops /\ p \in ops => (o.call = p.call => o = p)
      BY DEF IInv, OneConnect
    <3>3. next = {o} /\ next = {p} => o = p
      BY Zenon
    <3> QED
      BY <1>1, <3>1, <3>2, <3>3, SMTT(30)
  <2>2. \A i, j \in Queued' : strand'[i].arg.call = strand'[j].arg.call => i = j
    <3> TAKE i, j \in Queued'
    <3>1. /\ i + 1 \in Queued /\ strand[i + 1] = strand'[i]
          /\ j + 1 \in Queued /\ strand[j + 1] = strand'[j]
      BY <1>1, Zenon
    <3>2. strand[i + 1].arg.call = strand[j + 1].arg.call => i + 1 = j + 1
      BY <3>1, Zenon DEF IInv, OneConnect
    <3> QED
      BY <1>2, <3>1, <3>2, Zenon
  <2>3. \A o \in ops', i \in Queued' : strand'[i].arg.call # o.call
    <3> TAKE o \in ops', i \in Queued'
    <3>1. o \in ops \/ o.call = c
      OBVIOUS
    <3>2. i + 1 \in Queued /\ strand[i + 1] = strand'[i] /\ strand'[i].arg.call # c
      BY <1>1, Zenon
    <3>3. o \in ops => strand[i + 1].arg.call # o.call
      BY <3>2, Zenon DEF IInv, OneConnect
    <3> QED
      BY <3>1, <3>2, <3>3, Zenon
  <2> QED
    BY <2>1, <2>2, <2>3, Zenon DEF OneConnect
<1>4. Pending'
  <2>1. \A o : Expected(o) /\ o.call # c => Expected(o)'
    BY DEF Expected
  <2>2. (\A o \in ops : Expected(o))'
    BY <1>1, <2>1 DEF IInv, Pending
  <2>3. (\A i \in Queued : Expected(strand[i].arg))'
    BY <1>1, <2>1, Zenon DEF IInv, Pending
  <2> QED
    BY <2>2, <2>3, Zenon DEF Pending
<1>5. Over'
  <2> SUFFICES ASSUME NEW k \in Calls, Idle(k)'
               PROVE  /\ ended'[k] = "no" => asked'[k] = Len(onConnect'[k])
                      /\ ended'[k] # "no" => Len(onConnect'[k]) < asked'[k]
    BY DEF Over
  <2>1. CASE k = c
    <3>1. next = {}
      BY <2>1 DEF Idle
    <3> QED
      BY <2>1, <3>1
  <2>2. CASE k # c
    <3>1. \A o \in ops : o.call # k
      BY DEF Idle
    <3>2. ASSUME NEW i \in Queued, strand[i].arg.call = k
          PROVE  FALSE
      <4>1. i - 1 \in Queued' /\ strand'[i - 1] = strand[i]
        BY <1>1, <2>2, <3>2, Zenon
      <4> QED
        BY <3>2, <4>1, Zenon DEF Idle
    <3>3. Idle(k)
      BY <3>1, <3>2 DEF Idle
    <3> QED
      BY <2>2, <3>3 DEF IInv, Over
  <2> QED
    BY <2>1, <2>2
<1>6. Fresh'
  <2>1. c \in Calls /\ c <= calls
    BY HeadConnect DEF Expected
  <2>2. \A k \in Calls : k > calls => k # c
    BY <2>1 DEF IInv, TypeOK, Calls
  <2> QED
    BY <2>2 DEF IInv, Fresh
<1> QED
  BY <1>3, <1>4, <1>5, <1>6 DEF IInv

\* A session is handed out and the next connect made.
LEMMA HandleConnectStep ==
  ASSUME IInv, handleConnectAsync \/ handleConnectAsyncEnds
  PROVE  IInv'
<1>1. /\ strand # <<>> /\ Head(strand).fn = "handleConnectAsync" /\ strand' = Tail(strand)
      /\ onConnect' = [onConnect EXCEPT ![Arg.call] = Append(@, endpoint)]
      /\ UNCHANGED <<waits, target, endpoint, calls, asked>>
  BY DEF handleConnectAsync, handleConnectAsyncEnds, Connected, Running
<1>2. Arg \in Connects /\ Expected(Arg) /\ strand' \in Seq(Handlers)
  BY <1>1, HeadConnect
<1>3. PICK c \in Calls : c = Arg.call /\ c <= calls /\ ended[c] = "no"
                         /\ asked[c] = Len(onConnect[c]) + 1 + Arg.remain
  BY <1>2 DEF Expected
<1>4. PICK r \in Nat : r = Arg.remain
  BY <1>2 DEF Connects
<1>5. /\ onConnect' \in [Calls -> Seq(Targets \union {"none"})]
      /\ \A k \in Calls : k # c => onConnect'[k] = onConnect[k]
      /\ Len(onConnect'[c]) = Len(onConnect[c]) + 1 /\ Len(onConnect[c]) \in Nat
  <2>1. /\ onConnect \in [Calls -> Seq(Targets \union {"none"})]
        /\ endpoint \in Targets \union {"none"}
    BY DEF IInv, TypeOK
  <2>2. onConnect' = [onConnect EXCEPT ![c] = Append(onConnect[c], endpoint)]
    BY <1>1, <1>3
  <2> QED
    BY <2>1, <2>2
<1>6. c \in Nat /\ asked[c] \in Nat /\ asked[c] = Len(onConnect'[c]) + r
  BY <1>3, <1>4, <1>5, SMTT(30) DEF IInv, TypeOK, Calls
<1>7. CASE handleConnectAsync /\ r > 0
  <2>1. PICK p \in Connects : p = Connecting(c, r - 1) /\ p.call = c /\ p.remain = r - 1
    <3>1. r - 1 \in Nat
      BY <1>7
    <3>2. /\ Connecting(c, r - 1) \in Connects
          /\ Connecting(c, r - 1).call = c /\ Connecting(c, r - 1).remain = r - 1
      BY <1>6, <3>1 DEF Connecting, Connects
    <3> QED
      BY <3>2
  <2>2. ops' = ops \union {p} /\ ended' = ended
    BY <1>3, <1>4, <1>7, <2>1, SMTT(30) DEF handleConnectAsync, NextConnect
  <2>3. TypeOK'
    BY <1>1, <1>2, <1>5, <2>2 DEF IInv, TypeOK
  <2>4. Expected(p)'
    <3>1. asked[c] = Len(onConnect'[c]) + 1 + (r - 1)
      BY <1>5, <1>6
    <3> QED
      BY <1>1, <1>3, <2>1, <2>2, <3>1, Zenon DEF Expected
  <2> DEFINE next == {p}
  <2>5. \A q \in next : next = {q} /\ Expected(q)' /\ q.call = c
    BY <2>1, <2>4
  <2>6. next \in SUBSET Connects /\ next # {} /\ ops' = ops \union next
    BY <2>2
  <2> HIDE DEF next
  <2> QED
    <3>1. \A k \in Calls : k # c => onConnect'[k] = onConnect[k] /\ ended'[k] = ended[k]
      BY <1>5, <2>2
    <3> QED
      BY <1>1, <1>3, <2>3, <2>5, <2>6, <3>1, HeadTaken
<1>8. CASE handleConnectAsyncEnds \/ (handleConnectAsync /\ ~(r > 0))
  <2>1. /\ ops' = ops
        /\ ended' = ended \/ (r > 0 /\ ended' = [ended EXCEPT ![c] = "unreported"])
        /\ ended' = ended => ~(r > 0)
    <3>1. CASE handleConnectAsyncEnds
      BY <1>3, <1>4, <3>1 DEF handleConnectAsyncEnds, IInv, TypeOK
    <3>2. CASE handleConnectAsync /\ ~(r > 0)
      BY <1>3, <1>4, <3>2 DEF handleConnectAsync, NextConnect
    <3> QED
      BY <1>8, <3>1, <3>2
  <2>2. TypeOK'
    BY Zenon, <1>1, <1>2, <1>5, <2>1 DEF IInv, TypeOK
  <2>3. \A k \in Calls : k # c => onConnect'[k] = onConnect[k] /\ ended'[k] = ended[k]
    BY <1>5, <2>1 DEF IInv, TypeOK
  <2>4. \/ r > 0 /\ ended'[c] = "unreported"
        \/ r = 0 /\ ended'[c] = "no"
    BY <1>3, <2>1 DEF IInv, TypeOK
  <2>5. /\ ended'[c] = "no" => asked[c] = Len(onConnect'[c])
        /\ ended'[c] # "no" => Len(onConnect'[c]) < asked[c]
    BY <1>5, <1>6, <2>4
  <2> DEFINE next == {}
  <2>6. /\ next \in SUBSET Connects /\ ops' = ops \union next /\ next = {}
        /\ \A q \in next : next = {q} /\ Expected(q)' /\ q.call = c
    BY Zenon, <2>1
  <2> HIDE DEF next
  <2> QED
    BY <1>1, <1>3, <2>2, <2>3, <2>5, <2>6, HeadTaken, ZenonT(30)
<1> QED
  BY <1>7, <1>8, SMTT(30)

\* A connect that failed ends its call, with a session missing.
LEMMA HandleFailedStep ==
  ASSUME IInv, handleConnectAsyncFailed
  PROVE  IInv'
<1>1. /\ strand # <<>> /\ Head(strand).fn = "handleConnectAsync" /\ strand' = Tail(strand)
      /\ ended' = [ended EXCEPT ![Arg.call] = "onConnectFailed"]
      /\ UNCHANGED <<waits, target, endpoint, calls, asked, ops, onConnect>>
  BY DEF handleConnectAsyncFailed, Running
<1>2. Arg \in Connects /\ Expected(Arg) /\ strand' \in Seq(Handlers)
  BY <1>1, HeadConnect
<1>3. PICK c \in Calls : c = Arg.call /\ asked[c] = Len(onConnect[c]) + 1 + Arg.remain
  BY <1>2 DEF Expected
<1>4. Arg.remain \in Nat /\ Len(onConnect[c]) \in Nat
  BY <1>2 DEF IInv, TypeOK, Connects
<1>5. Len(onConnect'[c]) < asked[c]
  BY <1>1, <1>3, <1>4
<1>6. TypeOK'
  BY <1>1, <1>2, <1>3 DEF IInv, TypeOK
<1>7. ended'[c] # "no" /\ \A k \in Calls : k # c => onConnect'[k] = onConnect[k] /\ ended'[k] = ended[k]
  BY <1>1, <1>3 DEF IInv, TypeOK
<1> DEFINE next == {}
<1>8. /\ next \in SUBSET Connects /\ ops' = ops \union next /\ next = {}
      /\ \A q \in next : next = {q} /\ Expected(q)' /\ q.call = c
  BY <1>1
<1> HIDE DEF next
<1> QED
  BY <1>1, <1>3, <1>5, <1>6, <1>7, <1>8, HeadTaken

-----------------------------------------------------------------------------
\* The application, the kernel and the strand never break the invariant, whatever
\* their order.
THEOREM ConnectorInvariant ==
  ASSUME MaxCalls \in Nat, MaxSessions \in Nat
  PROVE  Spec => []IInv
<1>1. Init => IInv
  BY DEF Init, netInit, IInv, TypeOK, OneConnect, Pending, Over, Fresh, Queued
<1>2. IInv /\ [Next]_<<_updateTimeMs, vars>> => IInv'
  <2> SUFFICES ASSUME IInv, [Next]_<<_updateTimeMs, vars>> PROVE IInv'
    OBVIOUS
  <2>1. CASE Application
    BY <2>1, ConnectAsyncStep, CallEndsStep, TimerStep, OtherStep, SMTT(30) DEF Application
  <2>2. CASE Completions
    BY <2>2, ConnectEndsStep, TimerStep DEF Completions
  <2>3. CASE Strand
    BY <2>3, HandleConnectStep, HandleFailedStep, TimerStep, OtherStep DEF Strand
  <2>4. CASE \E t \in Targets : setTargetServer(t)
    BY <2>4, OtherStep, Zenon
  <2>5. CASE UNCHANGED <<_updateTimeMs, vars>>
    <3>1. TypeOK'
      BY <2>5, ZenonT(30) DEF vars, netVars, connectVars, IInv, TypeOK
    <3>2. /\ UNCHANGED <<ops, strand, calls, asked, onConnect, ended>>
          /\ UNCHANGED <<target, endpoint>>
      BY <2>5 DEF vars, netVars, connectVars
    <3>3. UNCHANGED Queued /\ \A o : Expected(o)' = Expected(o)
      BY <3>2 DEF Queued, Expected
    <3>4. \A k : Idle(k)' = Idle(k)
      BY <3>2, <3>3 DEF Idle
    <3>5. OneConnect' /\ Pending'
      BY Zenon, <3>2, <3>3 DEF IInv, OneConnect, Pending
    <3>6. Over' /\ Fresh'
      BY Zenon, <3>2, <3>4 DEF IInv, Over, Fresh
    <3> QED
      BY <3>1, <3>5, <3>6 DEF IInv
  <2> QED
    BY <2>1, <2>2, <2>3, <2>4, <2>5 DEF Next
<1> QED
  BY <1>1, <1>2, PTL DEF Spec

\* A call has no connect under way, or the one the invariant follows.
LEMMA UnderWayFacts ==
  ASSUME IInv, NEW k \in Calls
  PROVE  \/ UnderWay(k) = {} /\ Idle(k)
         \/ \E o \in Connects : UnderWay(k) = {o} /\ Expected(o) /\ o.call = k
<1>2. ASSUME NEW x
      PROVE  x \in UnderWay(k) <=>
               x.call = k /\ (x \in ops \/ \E i \in Queued : x = strand[i].arg)
  BY DEF UnderWay, Queued
<1>3. CASE Idle(k)
  BY <1>2, <1>3 DEF Idle
<1>4. CASE ~Idle(k)
  <2>1. PICK o : o.call = k /\ (o \in ops \/ \E i \in Queued : o = strand[i].arg)
    BY <1>4 DEF Idle
  <2>2. Expected(o)
    BY <2>1 DEF IInv, Pending
  <2>3. ASSUME NEW x \in UnderWay(k)
        PROVE  x = o
    BY <1>2, <2>1, <2>3 DEF IInv, OneConnect
  <2>4. UnderWay(k) = {o}
    BY <1>2, <2>1, <2>3
  <2>5. o \in Connects
    BY <2>1 DEF IInv, TypeOK, Queued, Handlers
  <2> QED
    BY <2>1, <2>2, <2>4, <2>5
<1> QED
  BY <1>3, <1>4

\* For any number of calls and of sessions asked for: the sessions made and those
\* the connect under way stands for are what was asked for, and a call never has
\* two connects.
THEOREM ConnectsAlwaysAddUp ==
  ASSUME MaxCalls \in Nat, MaxSessions \in Nat
  PROVE  Spec => []ConnectsAddUp
<1>1. IInv => ConnectsAddUp
  <2> SUFFICES ASSUME IInv, NEW k \in Calls
               PROVE  /\ \A o, q \in UnderWay(k) : o = q
                      /\ ended[k] # "no" => UnderWay(k) = {} /\ Len(onConnect[k]) < asked[k]
                      /\ ended[k] = "no" =>
                           asked[k] = Len(onConnect[k])
                                      + IF UnderWay(k) = {} THEN 0
                                        ELSE 1 + (CHOOSE o \in UnderWay(k) : TRUE).remain
    BY DEF ConnectsAddUp
  <2>1. asked[k] \in Nat /\ Len(onConnect[k]) \in Nat
    BY DEF IInv, TypeOK
  <2>2. CASE UnderWay(k) = {} /\ Idle(k)
    BY <2>1, <2>2 DEF IInv, Over
  <2>3. CASE \E o \in Connects : UnderWay(k) = {o} /\ Expected(o) /\ o.call = k
    <3>1. PICK o \in Connects : UnderWay(k) = {o} /\ Expected(o) /\ o.call = k
      BY <2>3
    <3>2. (CHOOSE p \in UnderWay(k) : TRUE) = o
      BY <3>1
    <3>3. ended[k] = "no" /\ asked[k] = Len(onConnect[k]) + 1 + o.remain
      BY <3>1 DEF Expected
    <3>4. o.remain \in Nat
      BY DEF Connects
    <3> QED
      BY <2>1, <3>1, <3>2, <3>3, <3>4, SMTT(30)
  <2> QED
    BY Zenon, <2>2, <2>3, UnderWayFacts
<1> QED
  BY <1>1, ConnectorInvariant, PTL

\* Whoever cancels a wait arms the timer again, so that the updates go on however the
\* two calls of expireTimerReady and the two of handleUpdate interleave.
THEOREM UpdatesAlwaysGoOn ==
  ASSUME MaxCalls \in Nat, MaxSessions \in Nat
  PROVE  Spec => []UpdatesGoOn
<1> DEFINE Inv == (armed /\ app # "wait" /\ ~rearming) => (waits > 0 \/ Due(strand))
<1>1. UpdatesGoOn <=> Inv
  BY DEF UpdatesGoOn, Due
<1>2. Init => Inv
  BY DEF Init, netInit
<1>3. IInv /\ Inv /\ [Next]_<<_updateTimeMs, vars>> => Inv'
  <2> SUFFICES ASSUME IInv, Inv, [Next]_<<_updateTimeMs, vars>> PROVE Inv'
    OBVIOUS
  <2>1. strand \in Seq(Handlers) /\ waits \in Nat
    BY DEF IInv, TypeOK
  <2>2. CASE connectExpire \/ connectExpireWait
    <3>1. CASE connectExpire
      BY <3>1 DEF connectExpire
    <3>2. CASE connectExpireWait
      <4>1. waits' > 0
        BY <2>1, <3>2 DEF connectExpireWait, expireTimerWait
      <4> QED
        BY <4>1
    <3> QED
      BY <2>2, <3>1, <3>2
  <2>3. CASE UpdaterExpires /\ UNCHANGED connectVars
    <3>1. Due(strand')
      BY <2>1, <2>3, ConcatDue, Zenon DEF UpdaterExpires
    <3> QED
      BY <3>1
  <2>4. CASE handleUpdate \/ handleUpdateWait
    <3>1. CASE handleUpdate
      BY <3>1 DEF handleUpdate
    <3>2. CASE handleUpdateWait
      <4>1. waits' > 0
        BY <2>1, <3>2 DEF handleUpdateWait
      <4> QED
        BY <4>1
    <3> QED
      BY <2>4, <3>1, <3>2
  <2>5. ASSUME strand # <<>>, ~(Head(strand).fn = "handleUpdate" /\ Head(strand).ok),
               strand' = Tail(strand), UNCHANGED <<armed, rearming, app, waits>>
        PROVE  Inv'
    <3>1. Due(strand) => Due(strand')
      BY <2>1, <2>5, TailDue, SMTT(30)
    <3> QED
      BY <2>5, <3>1
  <2>6. CASE handleUpdateAborted /\ UNCHANGED connectVars
    BY <2>5, <2>6 DEF handleUpdateAborted, Running, connectVars
  <2>7. CASE handleConnectAsync \/ handleConnectAsyncEnds \/ handleConnectAsyncFailed
    BY <2>5, <2>7, Zenon DEF handleConnectAsync, handleConnectAsyncEnds,
           handleConnectAsyncFailed, Connected, Running
  <2>8. CASE \E o \in ops, ok \in BOOLEAN : ConnectEnds(o, ok)
    <3>1. PICK o \in ops, ok \in BOOLEAN : ConnectEnds(o, ok)
      BY <2>8
    <3>2. PICK h \in Handlers : h = Call("handleConnectAsync", ok, o)
      BY Zenon DEF Call, Handlers, IInv, TypeOK
    <3>3. /\ Len(strand') = Len(strand) + 1 /\ Len(strand) \in Nat
          /\ \A i \in 1 .. Len(strand) : strand'[i] = strand[i]
      <4> HIDE DEF Handlers
      <4> QED
        BY <2>1, <3>1, <3>2, SMTT(30) DEF ConnectEnds
    <3>4. Due(strand) => Due(strand')
      BY <3>3 DEF Due
    <3> QED
      BY <3>1, <3>4 DEF ConnectEnds
  <2>9. CASE UNCHANGED netVars /\ (app' # "wait" => app # "wait")
    BY <2>9 DEF netVars
  <2> QED
    <3>1. CASE Application
      <4>1. CASE connectExpire \/ connectExpireWait
        BY <2>2, <4>1
      <4>2. CASE ~(connectExpire \/ connectExpireWait)
        <5>1. UNCHANGED netVars /\ app = "idle"
          BY <3>1, <4>2 DEF Application, connectAsync, connectAsyncFails, connectSync,
                            connectSyncFails, NewCall, netVars
        <5> QED
          BY <2>9, <5>1
      <4> QED
        BY <4>1, <4>2
    <3>2. CASE Completions
      BY <2>3, <2>8, <3>2 DEF Completions
    <3>3. CASE Strand
      <4>1. CASE handleConnectAsyncThrows
        BY <2>9, <4>1 DEF handleConnectAsyncThrows
      <4> QED
        BY <2>4, <2>6, <2>7, <3>3, <4>1, SMTT(30) DEF Strand
    <3>4. CASE \E t \in Targets : setTargetServer(t)
      BY <2>9, <3>4 DEF setTargetServer
    <3>5. CASE UNCHANGED <<_updateTimeMs, vars>>
      BY <2>9, <3>5 DEF vars, connectVars
    <3> QED
      BY <3>1, <3>2, <3>3, <3>4, <3>5, SMTT(30) DEF Next
<1> QED
  BY <1>1, <1>2, <1>3, ConnectorInvariant, PTL DEF Spec

-----------------------------------------------------------------------------
(***************************************************************************)
(* SimpleScheduler, for any size of the array, any intervals and any       *)
(* number of starts and stops. A scheduler that was let go of with nothing *)
(* due must stay quiet (Quiet), and the entries that are counted must be   *)
(* filled except the one being added (Filled).                             *)
(***************************************************************************)

SchedulerTyped ==
  /\ kind \in {"simple", "internal", "external"}
  /\ queue \in Seq(BOOLEAN)
  /\ updateWaits \in Nat
  /\ m_currentEntries \in Nat
  /\ entry \in [Scheduler!Entries -> [interval : Int, remain : Int]]

\* UpdateHandler is queued and will run with success.
TickDue(q) == \E i \in 1 .. Len(q) : q[i]

\* A destroyed scheduler that had nothing due has nothing due later.
Quiet ==
  Scheduler!Destroyed /\ ~busy =>
    handler = "idle" /\ ~TickDue(queue) /\ updateWaits = 0 /\ caller = "idle"

\* What is counted is filled, except what is being added.
Filled ==
  /\ \A i \in Scheduler!Entries : i < m_currentEntries /\ entry[i].interval = 0 =>
                          caller = "add" /\ i = m_currentEntries - 1
  /\ caller = "add" => m_currentEntries > 0

SchedulerInv ==
  /\ SchedulerTyped /\ Quiet /\ Filled
  /\ Scheduler!TicksGoOn /\ Scheduler!NullOnlyDuringAdd /\ Scheduler!UsedOnlyIfBusy

-----------------------------------------------------------------------------
\* n waits of the timer that have completed.
Completed(n, ok) == [i \in 1 .. n |-> ok]

\* t is s with n completed waits behind it.
ExtendsTicks(t, s, n, ok) ==
  /\ t \in Seq(BOOLEAN)
  /\ ok /\ n > 0 => TickDue(t)
  /\ TickDue(s) => TickDue(t)
  /\ ~ok /\ ~TickDue(s) => ~TickDue(t)

\* What the waits that a timer completes add to the queue.
LEMMA ConcatTicks ==
  ASSUME NEW s \in Seq(BOOLEAN), NEW n \in Nat, NEW ok \in BOOLEAN
  PROVE  ExtendsTicks(s \o Completed(n, ok), s, n, ok)
<1>1. Completed(n, ok) \in Seq(BOOLEAN) /\ Len(Completed(n, ok)) = n
  BY DEF Completed
<1>2. \A i \in 1 .. n : Completed(n, ok)[i] = ok
  BY DEF Completed
<1> DEFINE t == s \o Completed(n, ok)
<1>3. /\ t \in Seq(BOOLEAN) /\ Len(t) = Len(s) + n /\ Len(s) \in Nat
      /\ \A i \in 1 .. Len(s) : t[i] = s[i]
      /\ \A i \in Len(s) + 1 .. Len(s) + n : t[i] = ok
  BY <1>1, <1>2
<1> HIDE DEF t
<1>4. ok /\ n > 0 => TickDue(t)
  <2> HAVE ok /\ n > 0
  <2>1. Len(s) + 1 \in Len(s) + 1 .. Len(s) + n /\ Len(s) + 1 \in 1 .. Len(t)
    BY <1>3
  <2>2. t[Len(s) + 1] = ok
    BY Zenon, <1>3, <2>1
  <2> QED
    BY Zenon, <2>1, <2>2 DEF TickDue
<1>5. TickDue(s) => TickDue(t)
  BY <1>3 DEF TickDue
<1>6. ~ok /\ ~TickDue(s) => ~TickDue(t)
  <2> SUFFICES ASSUME ~ok, NEW i \in 1 .. Len(t), t[i]
               PROVE  TickDue(s)
    BY DEF TickDue
  <2>1. i \in 1 .. Len(s)
    BY <1>3
  <2>2. s[i]
    BY <1>3, <2>1
  <2> QED
    BY <2>1, <2>2 DEF TickDue
<1> QED
  BY <1>3, <1>4, <1>5, <1>6 DEF ExtendsTicks, t

\* What taking the handler at the head leaves.
LEMMA TailTicks ==
  ASSUME NEW s \in Seq(BOOLEAN), s # <<>>
  PROVE  /\ Tail(s) \in Seq(BOOLEAN)
         /\ ~TickDue(s) => ~TickDue(Tail(s))
         /\ Head(s) = FALSE /\ TickDue(s) => TickDue(Tail(s))
         /\ Head(s) = TRUE => TickDue(s)
<1>1. /\ Tail(s) \in Seq(BOOLEAN) /\ Len(Tail(s)) = Len(s) - 1 /\ Len(s) \in Nat \ {0}
      /\ \A i \in 1 .. Len(s) - 1 : Tail(s)[i] = s[i + 1]
      /\ Head(s) = s[1]
  OBVIOUS
<1>2. TickDue(Tail(s)) => TickDue(s)
  <2> SUFFICES ASSUME NEW i \in 1 .. Len(Tail(s)), Tail(s)[i] PROVE TickDue(s)
    BY DEF TickDue
  <2>1. i + 1 \in 1 .. Len(s) /\ s[i + 1] = Tail(s)[i]
    BY <1>1
  <2> QED
    BY <2>1 DEF TickDue
<1>3. \A i \in 1 .. Len(s) : i # 1 => i - 1 \in 1 .. Len(Tail(s)) /\ Tail(s)[i - 1] = s[i]
  BY <1>1
<1>4. Head(s) = FALSE /\ TickDue(s) => TickDue(Tail(s))
  <2> SUFFICES ASSUME Head(s) = FALSE, NEW i \in 1 .. Len(s), s[i] PROVE TickDue(Tail(s))
    BY Zenon DEF TickDue
  <2>1. i # 1
    BY Zenon, <1>1
  <2>2. i - 1 \in 1 .. Len(Tail(s)) /\ Tail(s)[i - 1] = s[i]
    BY Zenon, <1>3, <2>1
  <2> QED
    BY Zenon, <2>2 DEF TickDue
<1>5. Head(s) = TRUE => TickDue(s)
  <2>1. 1 \in 1 .. Len(s)
    BY <1>1
  <2> QED
    BY Zenon, <1>1, <2>1 DEF TickDue
<1> QED
  BY Zenon, <1>1, <1>2, <1>4, <1>5

\* Cancelling appends handlers that fail.
LEMMA CancelFacts ==
  ASSUME SchedulerTyped, Scheduler!CancelWaits(queue)
  PROVE  /\ queue' \in Seq(BOOLEAN) /\ updateWaits' = 0
         /\ TickDue(queue') <=> TickDue(queue)
<1>1. ExtendsTicks(queue', queue, updateWaits, FALSE)
  <2>1. queue' = queue \o Completed(updateWaits, FALSE)
    BY DEF Scheduler!CancelWaits, Completed
  <2> QED
    BY Zenon, <2>1, ConcatTicks DEF SchedulerTyped
<1> QED
  BY <1>1 DEF ExtendsTicks, Scheduler!CancelWaits

\* The timer expires.
LEMMA ExpireFacts ==
  ASSUME SchedulerTyped, Scheduler!TimerExpires
  PROVE  queue' \in Seq(BOOLEAN) /\ updateWaits' = 0 /\ TickDue(queue')
<1>1. ExtendsTicks(queue', queue, updateWaits, TRUE)
  <2>1. queue' = queue \o Completed(updateWaits, TRUE)
    BY DEF Scheduler!TimerExpires, Completed
  <2> QED
    BY Zenon, <2>1, ConcatTicks DEF SchedulerTyped
<1> QED
  BY <1>1 DEF ExtendsTicks, Scheduler!TimerExpires

\* UpdateHandler begins.
LEMMA BeginFacts ==
  ASSUME SchedulerTyped, NEW ok \in BOOLEAN, Scheduler!BeginHandler(ok)
  PROVE  /\ queue' \in Seq(BOOLEAN) /\ handler = "idle"
         /\ ~TickDue(queue) => ~TickDue(queue')
         /\ ok = FALSE /\ TickDue(queue) => TickDue(queue')
         /\ ok = TRUE => TickDue(queue)
BY Zenon, TailTicks DEF SchedulerTyped, Scheduler!BeginHandler

\* A tick keeps the interval of a job.
LEMMA TickFacts ==
  ASSUME NEW e \in [interval : Int, remain : Int]
  PROVE  /\ Scheduler!Tick(e) \in [interval : Int, remain : Int]
         /\ Scheduler!Tick(e).interval = e.interval
BY DEF Scheduler!Tick

\* Jobs are added and ticked; nobody else changes them.
LEMMA TypedStep ==
  ASSUME SchedulerInv, Scheduler!Next, MaxSchedules \in Nat, Intervals \subseteq Nat \ {0}
  PROVE  SchedulerTyped'
<1>1. queue' \in Seq(BOOLEAN) /\ updateWaits' \in Nat
  <2>1. CASE UNCHANGED Scheduler!timer
    BY <2>1 DEF SchedulerInv, SchedulerTyped, Scheduler!timer
  <2>2. CASE Scheduler!CancelWaits(queue)
    BY <2>2, CancelFacts DEF SchedulerInv
  <2>3. CASE Scheduler!TimerExpires
    BY <2>3, ExpireFacts DEF SchedulerInv
  <2>4. CASE UNCHANGED queue /\ updateWaits' = updateWaits + 1
    BY <2>4 DEF SchedulerInv, SchedulerTyped
  <2>5. CASE /\ UNCHANGED updateWaits
             /\ UNCHANGED queue \/ \E ok \in BOOLEAN : Scheduler!BeginHandler(ok)
    BY Zenon, <2>5, BeginFacts DEF SchedulerInv, SchedulerTyped
  <2>6. CASE Scheduler!Application
    BY Zenon, <2>1, <2>2, <2>6 DEF Scheduler!Application, Scheduler!TimerStart,
           Scheduler!TimerStop, Scheduler!AddJobInterval, Scheduler!AddJobCount,
           Scheduler!AddJobFill, Scheduler!Release, Scheduler!ReleaseStrand
  <2>7. CASE Scheduler!Reserve
    BY <2>2, <2>4, <2>7 DEF Scheduler!Reserve, Scheduler!ReserveExpire, Scheduler!ReserveWait
  <2>8. CASE Scheduler!Worker
    BY Zenon, <2>1, <2>2, <2>4, <2>5, <2>8 DEF Scheduler!Worker, Scheduler!UpdateHandlerTicks,
           Scheduler!UpdateHandlerEnds, Scheduler!UpdateHandlerNull,
           Scheduler!UpdateHandlerDestroyed, Scheduler!HandlerExpire, Scheduler!HandlerNoStrand,
           Scheduler!HandlerWait
  <2> QED
    BY <2>3, <2>6, <2>7, <2>8 DEF Scheduler!Next
<1>2. /\ kind' = kind
      /\ m_currentEntries' \in Nat
      /\ entry' \in [Scheduler!Entries -> [interval : Int, remain : Int]]
  <2>1. CASE Scheduler!AddJobCount
    BY <2>1 DEF Scheduler!AddJobCount, SchedulerInv, SchedulerTyped
  <2>2. CASE \E n \in Intervals : Scheduler!AddJobFill(n)
    <3>1. PICK n \in Intervals : Scheduler!AddJobFill(n)
      BY <2>2
    <3>2. Scheduler!Job(n) \in [interval : Int, remain : Int]
      BY DEF Scheduler!Job
    <3>3. /\ kind' = kind /\ m_currentEntries' = m_currentEntries
          /\ \/ entry' = entry
             \/ entry' = [entry EXCEPT ![m_currentEntries - 1] = Scheduler!Job(n)]
      BY <3>1 DEF Scheduler!AddJobFill, Scheduler!owners
    <3> QED
      BY <3>2, <3>3 DEF SchedulerInv, SchedulerTyped
  <2>3. CASE Scheduler!UpdateHandlerTicks
    <3>1. /\ entry' = [i \in Scheduler!Entries |->
                   IF i \in Scheduler!Counted THEN Scheduler!Tick(entry[i]) ELSE entry[i]]
          /\ m_currentEntries' = m_currentEntries /\ kind' = kind
      BY <2>3 DEF Scheduler!UpdateHandlerTicks, Scheduler!owners
    <3>2. \A i \in Scheduler!Entries : entry[i] \in [interval : Int, remain : Int]
      BY DEF SchedulerInv, SchedulerTyped
    <3> QED
      BY <3>1, <3>2, TickFacts DEF SchedulerInv, SchedulerTyped
  <2>4. CASE UNCHANGED <<kind, Scheduler!jobs>>
    BY <2>4 DEF SchedulerInv, SchedulerTyped, Scheduler!jobs
  <2>5. CASE Scheduler!Application
    BY Zenon, <2>1, <2>2, <2>4, <2>5 DEF Scheduler!Application, Scheduler!TimerStart,
           Scheduler!TimerStop, Scheduler!AddJobInterval, Scheduler!Release,
           Scheduler!ReleaseStrand, Scheduler!owners
  <2>6. CASE Scheduler!Reserve \/ Scheduler!TimerExpires
    BY Zenon, <2>4, <2>6 DEF Scheduler!Reserve, Scheduler!ReserveExpire, Scheduler!ReserveWait,
           Scheduler!TimerExpires, Scheduler!owners
  <2>7. CASE Scheduler!Worker
    BY Zenon, <2>3, <2>4, <2>7 DEF Scheduler!Worker, Scheduler!UpdateHandlerEnds,
           Scheduler!UpdateHandlerNull, Scheduler!UpdateHandlerDestroyed,
           Scheduler!HandlerExpire, Scheduler!HandlerNoStrand, Scheduler!HandlerWait,
           Scheduler!owners
  <2> QED
    BY <2>5, <2>6, <2>7 DEF Scheduler!Next
<1> QED
  BY <1>1, <1>2 DEF SchedulerInv, SchedulerTyped

\* Nothing begins on a scheduler that has been destroyed with nothing due.
LEMMA QuietStep ==
  ASSUME SchedulerInv, Scheduler!Next
  PROVE  Quiet' /\ Scheduler!UsedOnlyIfBusy'
<1>1. CASE Scheduler!Release
  <2>1. CASE kind = "simple"
    <3>1. TickDue(queue') <=> TickDue(queue)
      BY <1>1, <2>1, CancelFacts DEF Scheduler!Release, SchedulerInv
    <3>2. ~busy' => handler = "idle" /\ ~TickDue(queue)
      BY Zenon, <1>1 DEF Scheduler!Release, Scheduler!HandlerDue, TickDue
    <3>3. updateWaits' = 0 /\ caller' = "idle" /\ handler' = handler
      BY <1>1, <2>1 DEF Scheduler!Release, Scheduler!CancelWaits
    <3> QED
      BY <1>1, <3>1, <3>2, <3>3 DEF Scheduler!Release, SchedulerInv, Quiet,
             Scheduler!UsedOnlyIfBusy, Scheduler!Next
  <2>2. CASE kind # "simple"
    BY <1>1, <2>2 DEF Scheduler!Release, SchedulerInv, Quiet, Scheduler!UsedOnlyIfBusy,
           Scheduler!Destroyed
  <2> QED
    BY <2>1, <2>2
<1>2. ASSUME ~Scheduler!Destroyed, UNCHANGED <<owned, kind>>, misuse' # "destroyed"
      PROVE  Quiet' /\ Scheduler!UsedOnlyIfBusy'
  BY <1>2 DEF Quiet, Scheduler!UsedOnlyIfBusy, Scheduler!Destroyed
<1>3. CASE Scheduler!TimerStart \/ Scheduler!TimerStop \/ Scheduler!AddJobCount
  BY Zenon, <1>2, <1>3 DEF Scheduler!TimerStart, Scheduler!TimerStop, Scheduler!AddJobCount,
         Scheduler!Called, Scheduler!Destroyed, Scheduler!owners, Scheduler!Next
<1>4. CASE \E n \in Intervals : Scheduler!AddJobFill(n)
  BY <1>4 DEF Scheduler!AddJobFill, SchedulerInv, Quiet, Scheduler!UsedOnlyIfBusy,
         Scheduler!Destroyed, Scheduler!owners, Scheduler!Next
<1>5. CASE Scheduler!ReleaseStrand
  BY <1>5 DEF Scheduler!ReleaseStrand, SchedulerInv, Quiet, Scheduler!UsedOnlyIfBusy,
         Scheduler!Destroyed, Scheduler!timer
<1>6. CASE Scheduler!Reserve
  BY <1>6 DEF Scheduler!Reserve, Scheduler!ReserveExpire, Scheduler!ReserveWait, SchedulerInv,
         Quiet, Scheduler!UsedOnlyIfBusy, Scheduler!Destroyed, Scheduler!owners, Scheduler!Next
<1>7. CASE Scheduler!TimerExpires
  BY <1>7 DEF Scheduler!TimerExpires, SchedulerInv, Quiet, Scheduler!UsedOnlyIfBusy,
         Scheduler!Destroyed, Scheduler!owners
<1>8. CASE Scheduler!UpdateHandlerEnds
  <2>1. ~TickDue(queue) => ~TickDue(queue')
    BY Zenon, <1>8, BeginFacts DEF Scheduler!UpdateHandlerEnds, SchedulerInv
  <2> QED
    BY <1>8, <2>1 DEF Scheduler!UpdateHandlerEnds, SchedulerInv, Quiet,
           Scheduler!UsedOnlyIfBusy, Scheduler!Destroyed, Scheduler!owners
<1>9. CASE Scheduler!UpdateHandlerDestroyed
  <2>1. TickDue(queue) \/ handler # "idle"
    BY Zenon, <1>9, BeginFacts DEF Scheduler!UpdateHandlerDestroyed, SchedulerInv
  <2> QED
    BY <1>9, <2>1 DEF Scheduler!UpdateHandlerDestroyed, SchedulerInv, Quiet,
           Scheduler!UsedOnlyIfBusy, Scheduler!Destroyed, Scheduler!owners
<1>10. CASE \/ Scheduler!UpdateHandlerTicks \/ Scheduler!UpdateHandlerNull
            \/ Scheduler!HandlerExpire \/ Scheduler!HandlerWait
  BY Zenon, <1>2, <1>10 DEF Scheduler!UpdateHandlerTicks, Scheduler!UpdateHandlerNull,
         Scheduler!HandlerExpire, Scheduler!HandlerWait, Scheduler!owners, Scheduler!Next
<1>11. CASE Scheduler!HandlerNoStrand
  BY <1>11 DEF Scheduler!HandlerNoStrand, SchedulerInv, Quiet, Scheduler!UsedOnlyIfBusy,
         Scheduler!Destroyed, Scheduler!owners
<1> QED
  BY <1>1, <1>3, <1>4, <1>5, <1>6, <1>7, <1>8, <1>9, <1>10, <1>11
  DEF Scheduler!Next, Scheduler!Application, Scheduler!AddJobInterval, Scheduler!Worker

\* The counted entry that is not filled is the one being added.
LEMMA FilledStep ==
  ASSUME SchedulerInv, Scheduler!Next, MaxSchedules \in Nat, Intervals \subseteq Nat \ {0}
  PROVE  Filled' /\ Scheduler!NullOnlyDuringAdd'
<1> USE DEF SchedulerInv, Scheduler!NullOnlyDuringAdd
<1>1. CASE Scheduler!AddJobCount
  BY <1>1 DEF Scheduler!AddJobCount, Scheduler!Called, Filled, SchedulerTyped,
         Scheduler!Entries, Scheduler!Next
<1>2. CASE \E n \in Intervals : Scheduler!AddJobFill(n)
  <2>1. PICK n \in Intervals : Scheduler!AddJobFill(n)
    BY <1>2
  <2>2. Scheduler!Job(n).interval # 0
    BY DEF Scheduler!Job
  <2>3. CASE m_currentEntries - 1 \in Scheduler!Entries
    <3>1. /\ entry' = [entry EXCEPT ![m_currentEntries - 1] = Scheduler!Job(n)]
          /\ UNCHANGED <<m_currentEntries, misuse>> /\ caller' = "idle"
      BY <2>1, <2>3 DEF Scheduler!AddJobFill
    <3>2. \A i \in Scheduler!Entries : i < m_currentEntries => entry'[i].interval # 0
      BY <2>2, <2>3, <3>1 DEF Filled, SchedulerTyped
    <3> QED
      BY <3>1, <3>2 DEF Filled, Scheduler!Next
  <2>4. CASE m_currentEntries - 1 \notin Scheduler!Entries
    BY <2>1, <2>4 DEF Scheduler!AddJobFill, Filled
  <2> QED
    BY <2>3, <2>4
<1>3. CASE Scheduler!UpdateHandlerTicks
  <2>1. /\ entry' = [i \in Scheduler!Entries |->
                   IF i \in Scheduler!Counted THEN Scheduler!Tick(entry[i]) ELSE entry[i]]
        /\ UNCHANGED <<m_currentEntries, caller, misuse>>
    BY <1>3 DEF Scheduler!UpdateHandlerTicks
  <2>2. \A i \in Scheduler!Entries : entry'[i].interval = entry[i].interval
    BY <2>1, TickFacts DEF SchedulerTyped
  <2> QED
    BY <2>1, <2>2 DEF Filled
<1>4. CASE Scheduler!UpdateHandlerNull
  <2>1. Scheduler!Empty.interval = 0
    BY DEF Scheduler!Empty
  <2>2. UNCHANGED <<m_currentEntries, entry, caller>>
    BY <1>4 DEF Scheduler!UpdateHandlerNull, Scheduler!jobs
  <2>3. Filled'
    BY <2>2 DEF Filled
  <2>4. ASSUME misuse' = "null" PROVE caller = "add"
    <3>1. PICK i \in Scheduler!Counted : ~Scheduler!Usable(i)
      BY <1>4 DEF Scheduler!UpdateHandlerNull
    <3>2. i \in Scheduler!Entries
      BY <1>4, <2>4 DEF Scheduler!UpdateHandlerNull
    <3>3. entry[i] = Scheduler!Empty /\ i < m_currentEntries
      BY <3>1, <3>2 DEF Scheduler!Usable, Scheduler!Counted, SchedulerTyped
    <3> QED
      BY <2>1, <3>2, <3>3 DEF Filled
  <2> QED
    BY <2>2, <2>3, <2>4
<1>5. CASE /\ UNCHANGED Scheduler!jobs /\ misuse' # "null"
           /\ caller' = caller \/ (caller # "add" /\ caller' # "add")
  BY <1>5 DEF Filled, Scheduler!jobs
<1>6. CASE \/ Scheduler!TimerStart \/ Scheduler!TimerStop \/ Scheduler!Release
           \/ Scheduler!ReleaseStrand \/ Scheduler!Reserve \/ Scheduler!TimerExpires
  BY Zenon, <1>5, <1>6 DEF Scheduler!TimerStart, Scheduler!TimerStop, Scheduler!Called,
         Scheduler!Release, Scheduler!ReleaseStrand, Scheduler!Reserve, Scheduler!ReserveExpire,
         Scheduler!ReserveWait, Scheduler!TimerExpires, Scheduler!Next
<1>7. CASE \/ Scheduler!UpdateHandlerEnds \/ Scheduler!UpdateHandlerDestroyed
           \/ Scheduler!HandlerExpire \/ Scheduler!HandlerNoStrand \/ Scheduler!HandlerWait
  BY Zenon, <1>5, <1>7 DEF Scheduler!UpdateHandlerEnds, Scheduler!UpdateHandlerDestroyed,
         Scheduler!HandlerExpire, Scheduler!HandlerNoStrand, Scheduler!HandlerWait,
         Scheduler!Next
<1> QED
  BY <1>1, <1>2, <1>3, <1>4, <1>6, <1>7 DEF Scheduler!Next, Scheduler!Application,
         Scheduler!AddJobInterval, Scheduler!Worker

\* Whoever takes the wait or the handler that leads to the next tick puts another in
\* its place, unless the timer was stopped or the strand is gone.
LEMMA TicksStep ==
  ASSUME SchedulerInv, Scheduler!Next
  PROVE  Scheduler!TicksGoOn'
<1> DEFINE Going == updateWaits > 0 \/ handler # "idle" \/ TickDue(queue)
           Needed ==
             /\ m_processing /\ caller \notin {"expire", "wait"}
             /\ ~Scheduler!Destroyed /\ strandOwned
<1>1. Needed => Going
  BY DEF SchedulerInv, Scheduler!TicksGoOn, Scheduler!HandlerDue, TickDue, Scheduler!Next
<1>2. SUFFICES ASSUME Needed', misuse' = "none" PROVE Going'
  BY DEF Scheduler!TicksGoOn, Scheduler!HandlerDue, TickDue
<1>3. CASE UNCHANGED <<Scheduler!timer, handler>> /\ Needed
  BY <1>1, <1>3 DEF Scheduler!timer
<1>4. CASE Scheduler!TimerStart \/ Scheduler!TimerStop \/ Scheduler!ReserveExpire
  BY Zenon, <1>2, <1>4 DEF Scheduler!TimerStart, Scheduler!TimerStop, Scheduler!ReserveExpire
<1>5. CASE Scheduler!AddJobInterval \/ Scheduler!ReleaseStrand
  BY Zenon, <1>2, <1>3, <1>5 DEF Scheduler!AddJobInterval, Scheduler!AddJobCount,
         Scheduler!AddJobFill, Scheduler!ReleaseStrand, Scheduler!Called, Scheduler!Destroyed,
         Scheduler!owners
<1>6. CASE Scheduler!Release
  <2>1. kind # "simple" /\ UNCHANGED <<Scheduler!timer, handler>> /\ Needed
    BY <1>2, <1>6 DEF Scheduler!Release, Scheduler!Destroyed
  <2> QED
    BY <1>3, <2>1
<1>7. CASE Scheduler!ReserveWait \/ Scheduler!HandlerWait
  <2>1. updateWaits' > 0
    BY <1>7 DEF Scheduler!ReserveWait, Scheduler!HandlerWait, SchedulerInv, SchedulerTyped
  <2> QED
    BY <2>1
<1>8. CASE Scheduler!TimerExpires
  BY <1>8, ExpireFacts DEF SchedulerInv
<1>9. CASE Scheduler!UpdateHandlerTicks \/ Scheduler!HandlerExpire
  BY Zenon, <1>9 DEF Scheduler!UpdateHandlerTicks, Scheduler!HandlerExpire
<1>10. CASE Scheduler!UpdateHandlerEnds
  <2>1. UNCHANGED <<Scheduler!owners, m_processing, updateWaits, handler, caller>> /\ Needed
    BY Zenon, <1>2, <1>10 DEF Scheduler!UpdateHandlerEnds, Scheduler!owners, Scheduler!Destroyed
  <2>2. Scheduler!BeginHandler(FALSE)
    BY Zenon, <1>10, <2>1 DEF Scheduler!UpdateHandlerEnds, Scheduler!Ticking,
           Scheduler!GetStrand
  <2>3. TickDue(queue) => TickDue(queue')
    BY Zenon, <2>2, BeginFacts DEF SchedulerInv
  <2> QED
    BY <1>1, <2>1, <2>3
<1>11. CASE Scheduler!HandlerNoStrand
  <2>1. ~strandOwned
    BY <1>11 DEF Scheduler!HandlerNoStrand, Scheduler!GetStrand
  <2> QED
    BY <1>2, <1>11, <2>1 DEF Scheduler!HandlerNoStrand, Scheduler!owners
<1>12. CASE Scheduler!UpdateHandlerNull \/ Scheduler!UpdateHandlerDestroyed
  BY <1>2, <1>12 DEF Scheduler!UpdateHandlerNull, Scheduler!UpdateHandlerDestroyed
<1> QED
  BY <1>4, <1>5, <1>6, <1>7, <1>8, <1>9, <1>10, <1>11, <1>12
  DEF Scheduler!Next, Scheduler!Application, Scheduler!Reserve, Scheduler!Worker

-----------------------------------------------------------------------------
\* The application's thread and UpdateHandler never break the invariant, whatever
\* their order.
THEOREM SchedulerInvariant ==
  ASSUME MaxSchedules \in Nat, Intervals \subseteq Nat \ {0}
  PROVE  Scheduler!Spec => []SchedulerInv
<1>1. Scheduler!Init => SchedulerInv
  <2> HAVE Scheduler!Init
  <2>1. SchedulerTyped
    BY DEF Scheduler!Init, SchedulerTyped, Scheduler!Empty
  <2>2. ~TickDue(queue)
    BY DEF Scheduler!Init, TickDue
  <2>3. Quiet /\ Scheduler!TicksGoOn /\ Scheduler!NullOnlyDuringAdd /\ Scheduler!UsedOnlyIfBusy
    BY DEF Scheduler!Init, Quiet, Scheduler!TicksGoOn, Scheduler!NullOnlyDuringAdd,
           Scheduler!UsedOnlyIfBusy, Scheduler!Destroyed
  <2>4. Filled
    BY DEF Scheduler!Init, Filled, Scheduler!Entries
  <2> QED
    BY <2>1, <2>3, <2>4 DEF SchedulerInv
<1>2. SchedulerInv /\ [Scheduler!Next]_(Scheduler!vars) => SchedulerInv'
  <2> SUFFICES ASSUME SchedulerInv, [Scheduler!Next]_(Scheduler!vars) PROVE SchedulerInv'
    OBVIOUS
  <2>1. CASE Scheduler!Next
    BY <2>1, TypedStep, QuietStep, FilledStep, TicksStep DEF SchedulerInv
  <2>2. CASE UNCHANGED Scheduler!vars
    BY Zenon, <2>2 DEF Scheduler!vars, Scheduler!owners, Scheduler!jobs, Scheduler!timer, SchedulerInv,
           SchedulerTyped, Quiet, Filled, Scheduler!TicksGoOn, Scheduler!NullOnlyDuringAdd,
           Scheduler!UsedOnlyIfBusy, Scheduler!Destroyed, Scheduler!HandlerDue, TickDue
  <2> QED
    BY <2>1, <2>2
<1> QED
  BY <1>1, <1>2, PTL DEF Scheduler!Spec

\* A timer that was started ticks on until it is stopped, however the calls of
\* TimerStart and TimerStop race UpdateHandler.
THEOREM TicksAlwaysGoOn ==
  ASSUME MaxSchedules \in Nat, Intervals \subseteq Nat \ {0}
  PROVE  Scheduler!Spec => []Scheduler!TicksGoOn
<1>1. SchedulerInv => Scheduler!TicksGoOn
  BY DEF SchedulerInv
<1> QED
  BY <1>1, SchedulerInvariant, PTL

\* The two misuses a caller can avoid: a scheduler is used after its destructor only
\* if a handler was running or due when it was let go of, and an empty entry is met
\* only by an UpdateHandler that runs during AddJobInterval.
THEOREM MisusesHaveACause ==
  ASSUME MaxSchedules \in Nat, Intervals \subseteq Nat \ {0}
  PROVE  Scheduler!Spec => [](Scheduler!UsedOnlyIfBusy /\ Scheduler!NullOnlyDuringAdd)
<1>1. SchedulerInv => Scheduler!UsedOnlyIfBusy /\ Scheduler!NullOnlyDuringAdd
  BY DEF SchedulerInv
<1> QED
  BY <1>1, SchedulerInvariant, PTL
==============================================================================
