--------------------------- MODULE SimpleScheduler ---------------------------
(***************************************************************************)
(* The schedulers of include/net/time/simpleScheduler.h: jobs called back  *)
(* every so many ticks of one timer.  SimpleScheduler has a strand of its  *)
(* own and binds its handler to a raw this; SimpleSchedulerES binds it to  *)
(* shared_from_this() and uses a strand it makes ("internal") or is given  *)
(* and keeps a weak reference to ("external").                             *)
(*                                                                         *)
(* The application's thread starts and stops the timer, adds jobs and lets *)
(* go of the scheduler, while a worker thread runs UpdateHandler on the    *)
(* strand.  A tick is TIME_INCREMENT_SIZE_MS.                              *)
(***************************************************************************)
EXTENDS Integers, Sequences

CONSTANTS
  MaxSchedules,   \* MAX_SCHEDULES
  Intervals,      \* intervals of jobs, in ticks
  MaxQueue        \* bound: handlers queued when the timer is started or stopped

Entries == 0 .. MaxSchedules - 1

VARIABLES
  kind,              \* "simple", "internal" or "external"
  owned,             \* the application holds the scheduler
  busy,              \* it let go of it with a handler running or due
  strandOwned,       \* the application holds the external strand
  m_spStrand,        \* the internal strand has been made
  m_processing,
  m_currentEntries,
  entry,             \* m_schedulerEntry
  updateWaits,       \* waits pending on m_updateTimer
  queue,             \* queued UpdateHandlers, by whether they succeeded
  handler,           \* where the running UpdateHandler is
  caller,            \* where the application's thread is
  misuse             \* "none", "null", "overflow" or "destroyed"

timer == <<updateWaits, queue>>
jobs == <<m_currentEntries, entry>>
owners == <<owned, busy, strandOwned, m_spStrand, kind>>
vars == <<owners, m_processing, jobs, timer, handler, caller, misuse>>

Empty == [interval |-> 0, remain |-> 0]

Job(n) == [interval |-> n, remain |-> n]

Init ==
  /\ kind \in {"simple", "internal", "external"}
  /\ owned = TRUE
  /\ busy = FALSE
  /\ strandOwned = TRUE
  /\ m_spStrand = FALSE
  /\ m_processing = FALSE
  /\ m_currentEntries = 0
  /\ entry = [i \in Entries |-> Empty]
  /\ updateWaits = 0
  /\ queue = <<>>
  /\ handler = "idle"
  /\ caller = "idle"
  /\ misuse = "none"

\* GetStrand and weak_ptr::lock: once the application has let go of the
\* external strand, a handler bound to it may or may not keep it alive.
GetStrand(found) ==
  CASE kind = "simple"   -> found
    [] kind = "internal" -> found = m_spStrand
    [] kind = "external" -> strandOwned => found

\* deadline_timer::expires_from_now and cancel.
CancelWaits(q) == queue' = q \o [i \in 1 .. updateWaits |-> FALSE] /\ updateWaits' = 0

-----------------------------------------------------------------------------
Called == caller = "idle" /\ owned /\ Len(queue) < MaxQueue

TimerStart ==
  /\ Called
  /\ GetStrand(TRUE)
  /\ m_processing' = TRUE
  /\ caller' = "expire"
  /\ UNCHANGED <<owners, jobs, timer, handler, misuse>>

TimerStop ==
  /\ Called
  /\ m_processing' = FALSE
  /\ CancelWaits(queue)
  /\ UNCHANGED <<owners, jobs, handler, caller, misuse>>

\* ReserveUpdate on the application's thread, called by TimerStart.
ReserveExpire ==
  /\ caller = "expire"
  /\ caller' = "wait"
  /\ CancelWaits(queue)
  /\ UNCHANGED <<owners, m_processing, jobs, handler, misuse>>

ReserveWait ==
  /\ caller = "wait"
  /\ caller' = "idle"
  /\ updateWaits' = updateWaits + 1
  /\ UNCHANGED <<owners, m_processing, jobs, queue, handler, misuse>>

AddJobCount ==
  /\ Called
  /\ m_currentEntries <= MaxSchedules
  /\ m_spStrand' = (m_spStrand \/ kind = "internal")
  /\ kind = "external" => GetStrand(TRUE)
  /\ m_currentEntries' = m_currentEntries + 1
  /\ caller' = "add"
  /\ UNCHANGED <<owned, busy, strandOwned, kind, m_processing, entry, timer, handler, misuse>>

\* The entry is made; behind the last one it is written past the array.
AddJobFill(n) ==
  /\ caller = "add"
  /\ caller' = "idle"
  /\ LET i == m_currentEntries - 1 IN
       IF i \in Entries
       THEN entry' = [entry EXCEPT ![i] = Job(n)] /\ UNCHANGED misuse
       ELSE misuse' = "overflow" /\ UNCHANGED entry
  /\ UNCHANGED <<owners, m_processing, m_currentEntries, timer, handler>>

AddJobInterval == AddJobCount \/ \E n \in Intervals : AddJobFill(n)

\* UpdateHandler is running or will run with success.
HandlerDue == handler # "idle" \/ \E i \in 1 .. Len(queue) : queue[i]

\* The destructor of a SimpleScheduler cancels its timer; a SimpleSchedulerES
\* lives on in the handlers of its waits.
Release ==
  /\ caller = "idle" /\ owned
  /\ owned' = FALSE
  /\ busy' = HandlerDue
  /\ IF kind = "simple" THEN CancelWaits(queue) ELSE UNCHANGED timer
  /\ UNCHANGED <<strandOwned, m_spStrand, kind, m_processing, jobs, handler, caller, misuse>>

ReleaseStrand ==
  /\ kind = "external" /\ strandOwned
  /\ strandOwned' = FALSE
  /\ UNCHANGED <<owned, busy, m_spStrand, kind, m_processing, jobs, timer, handler, caller, misuse>>

-----------------------------------------------------------------------------
TimerExpires ==
  /\ updateWaits > 0
  /\ queue' = queue \o [i \in 1 .. updateWaits |-> TRUE]
  /\ updateWaits' = 0
  /\ UNCHANGED <<owners, m_processing, jobs, handler, caller, misuse>>

\* The scheduler has been destroyed.
Destroyed == kind = "simple" /\ ~owned

Tick(e) ==
  IF e.remain - 1 <= 0 THEN [e EXCEPT !.remain = e.interval] ELSE [e EXCEPT !.remain = @ - 1]

\* The entries that UpdateHandler goes through, and those of them it may use.
Counted == 0 .. m_currentEntries - 1

Usable(i) == i \in Entries /\ entry[i] # Empty

BeginHandler(ok) == handler = "idle" /\ queue # <<>> /\ Head(queue) = ok /\ queue' = Tail(queue)

Ticking == m_processing

\* UpdateHandler up to ReserveUpdate.
UpdateHandlerTicks ==
  /\ BeginHandler(TRUE)
  /\ ~Destroyed
  /\ kind = "external" => GetStrand(TRUE)
  /\ Ticking
  /\ \A i \in Counted : Usable(i)
  /\ entry' = [i \in Entries |-> IF i \in Counted THEN Tick(entry[i]) ELSE entry[i]]
  /\ handler' = "expire"
  /\ UNCHANGED <<owners, m_processing, m_currentEntries, updateWaits, caller, misuse>>

\* The wait was aborted, the timer stopped or the external strand is gone.
UpdateHandlerEnds ==
  /\ \/ BeginHandler(FALSE)
     \/ BeginHandler(TRUE) /\ ~Destroyed /\ ~Ticking
     \/ BeginHandler(TRUE) /\ kind = "external" /\ GetStrand(FALSE)
  /\ UNCHANGED <<owners, m_processing, jobs, updateWaits, handler, caller, misuse>>

\* An entry that was counted and is not filled yet is dereferenced, or one behind the
\* array is.
UpdateHandlerNull ==
  /\ BeginHandler(TRUE)
  /\ ~Destroyed /\ Ticking
  /\ \E i \in Counted : ~Usable(i)
  /\ misuse' = IF Counted \subseteq Entries THEN "null" ELSE "overflow"
  /\ UNCHANGED <<owners, m_processing, jobs, updateWaits, handler, caller>>

\* A handler that succeeded reads m_processing of a scheduler that is gone.
UpdateHandlerDestroyed ==
  /\ Destroyed
  /\ \/ BeginHandler(TRUE)
     \/ handler # "idle" /\ UNCHANGED queue
  /\ misuse' = "destroyed"
  /\ UNCHANGED <<owners, m_processing, jobs, updateWaits, handler, caller>>

\* ReserveUpdate on the strand.
HandlerExpire ==
  /\ handler = "expire" /\ ~Destroyed
  /\ GetStrand(TRUE)
  /\ handler' = "wait"
  /\ CancelWaits(queue)
  /\ UNCHANGED <<owners, m_processing, jobs, caller, misuse>>

HandlerNoStrand ==
  /\ handler = "expire" /\ kind = "external"
  /\ GetStrand(FALSE)
  /\ handler' = "idle"
  /\ UNCHANGED <<owners, m_processing, jobs, timer, caller, misuse>>

HandlerWait_ExpiresLast ==
  /\ handler = "wait" /\ ~Destroyed
  /\ handler' = "idle"
  /\ queue' = Append(queue, FALSE)
  /\ UNCHANGED <<owners, m_processing, jobs, updateWaits, caller, misuse>>

HandlerWait ==
  /\ handler = "wait" /\ ~Destroyed
  /\ handler' = "idle"
  /\ updateWaits' = updateWaits + 1
  /\ UNCHANGED <<owners, m_processing, jobs, queue, caller, misuse>>

-----------------------------------------------------------------------------
Application == TimerStart \/ TimerStop \/ AddJobInterval \/ Release \/ ReleaseStrand

Reserve == ReserveExpire \/ ReserveWait

Worker ==
  \/ UpdateHandlerTicks \/ UpdateHandlerEnds \/ UpdateHandlerNull \/ UpdateHandlerDestroyed
  \/ HandlerExpire \/ HandlerNoStrand \/ HandlerWait

Next == misuse = "none" /\ (Application \/ Reserve \/ TimerExpires \/ Worker)

Spec == Init /\ [][Next]_vars

-----------------------------------------------------------------------------
\* While it is processing, a scheduler always has a wait or a handler that
\* leads to the next tick, however stops and starts race the handler; an
\* external strand may end it.
TicksGoOn ==
  m_processing /\ caller \notin {"expire", "wait"} /\ ~Destroyed /\ strandOwned /\ misuse = "none"
    => updateWaits > 0 \/ HandlerDue

\* A null entry is met only while the entry is being added.
NullOnlyDuringAdd == misuse = "null" => caller = "add"

\* A SimpleScheduler is used after its destructor only if the application let
\* go of it while UpdateHandler was running or due; an aborted one is harmless.
UsedOnlyIfBusy == misuse = "destroyed" => kind = "simple" /\ busy
==============================================================================
