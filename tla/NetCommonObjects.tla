--------------------------- MODULE NetCommonObjects ---------------------------
(***************************************************************************)
(* What an acceptor and a connector have in common                         *)
(* (include/net/netCommonObjects.hpp): the service strand, on which all    *)
(* their handlers run one at a time, and the timer that calls onUpdate.    *)
(*                                                                         *)
(* A wait on the timer is armed in two calls, expires_from_now, which      *)
(* cancels the waits of the timer, and async_wait, which adds one.         *)
(***************************************************************************)
EXTENDS Integers, Sequences

CONSTANTS
  UpdateTimes,   \* values of serviceUpdateTimeMs_, 0 for a service without updates
  NoArg          \* argument of a handler that has none

ASSUME UpdateTimeAssumption == UpdateTimes \subseteq Nat

VARIABLES
  _updateTimeMs,  \* set by the constructor and kept
  strand,         \* handlers queued on _strand
  waits,          \* waits pending on _updater
  armed,          \* expireTimerReady has armed the timer
  rearming        \* handleUpdate, on the strand, is between its two calls

netVars == <<strand, waits, armed, rearming>>

\* A handler queued on the strand: its function, the error code it was
\* completed with (ok or not) and what is bound to it.
Call(fn, ok, arg) == [fn |-> fn, ok |-> ok, arg |-> arg]

\* The handler is run; no other is running on the strand.
Running(fn, ok) ==
  ~rearming /\ strand # <<>> /\ Head(strand).fn = fn /\ Head(strand).ok = ok

Arg == Head(strand).arg

Update(ok) == Call("handleUpdate", ok, NoArg)

Times(n, h) == [i \in 1 .. n |-> h]

netInit ==
  /\ _updateTimeMs \in UpdateTimes
  /\ strand = <<>>
  /\ waits = 0
  /\ armed = FALSE
  /\ rearming = FALSE

-----------------------------------------------------------------------------
\* deadline_timer::expires_from_now on a strand that holds q.
expires_from_now(q) == q \o Times(waits, Update(FALSE))

\* expireTimerReady, first call.
expireTimerCancel ==
  /\ strand' = expires_from_now(strand)
  /\ waits' = 0

\* expireTimerReady, second call.
expireTimerWait ==
  /\ waits' = waits + 1
  /\ armed' = TRUE

\* The timer expires: every wait on it completes.
UpdaterExpires ==
  /\ waits > 0
  /\ strand' = strand \o Times(waits, Update(TRUE))
  /\ waits' = 0
  /\ UNCHANGED <<armed, rearming>>

\* An aborted wait is logged and not renewed.
handleUpdateAborted ==
  /\ Running("handleUpdate", FALSE)
  /\ strand' = Tail(strand)
  /\ UNCHANGED <<waits, armed, rearming>>

\* onUpdate, then expires_from_now.
handleUpdate ==
  /\ Running("handleUpdate", TRUE)
  /\ strand' = expires_from_now(Tail(strand))
  /\ waits' = 0
  /\ rearming' = TRUE
  /\ UNCHANGED armed

handleUpdateWait_ExpiresLast ==
  /\ rearming
  /\ rearming' = FALSE
  /\ strand' = strand \o Times(waits + 1, Update(FALSE))
  /\ waits' = 0
  /\ UNCHANGED armed

\* async_wait, which ends handleUpdate.
handleUpdateWait ==
  /\ rearming
  /\ rearming' = FALSE
  /\ waits' = waits + 1
  /\ UNCHANGED <<strand, armed>>
===============================================================================
