---------------------------- MODULE SessionProofs ----------------------------
(***************************************************************************)
(* Proofs about Session for every bound: typing, one delivery of onClose,  *)
(* one read at a time, no session left idle, destruction only after close. *)
(***************************************************************************)
EXTENDS Session, SequenceTheorems, TLAPS

-----------------------------------------------------------------------------
(* What queueing and running a handler do to the strand. *)

\* Appending a handler adds its function and no other.
LEMMA AppendHas ==
  ASSUME NEW q \in Seq(Handler), NEW h \in Handler, NEW fn
  PROVE  /\ Append(q, h) \in Seq(Handler)
         /\ Has(Append(q, h), fn) <=> h.fn = fn \/ Has(q, fn)
<1>1. /\ Append(q, h) \in Seq(Handler)
      /\ Len(Append(q, h)) = Len(q) + 1
      /\ \A i \in 1..Len(q) : Append(q, h)[i] = q[i]
      /\ Append(q, h)[Len(q) + 1] = h
  BY AppendProperties
<1>2. Len(q) \in Nat
  BY LenProperties
<1>. QED BY <1>1, <1>2 DEF Has

\* Taking the head removes at most its function.
LEMMA TailHas ==
  ASSUME NEW q \in Seq(Handler), q # <<>>, NEW fn
  PROVE  /\ Head(q) \in Handler
         /\ Tail(q) \in Seq(Handler)
         /\ Has(q, fn) <=> Head(q).fn = fn \/ Has(Tail(q), fn)
<1>1. /\ Head(q) \in Handler
      /\ Tail(q) \in Seq(Handler)
      /\ Len(Tail(q)) = Len(q) - 1
      /\ \A i \in 1..Len(Tail(q)) : Tail(q)[i] = q[i+1]
  BY HeadTailProperties
<1>2. Len(q) \in Nat /\ Len(q) >= 1 /\ Head(q) = q[1]
  BY LenProperties, EmptySeq
<1>3. ASSUME NEW i \in 1..Len(q), q[i].fn = fn, i # 1
      PROVE  Has(Tail(q), fn)
  <2>1. i - 1 \in 1..Len(Tail(q)) /\ Tail(q)[i - 1] = q[i]
    BY <1>1, <1>2, <1>3
  <2>. QED BY <2>1, <1>3 DEF Has
<1>4. ASSUME NEW i \in 1..Len(Tail(q)), Tail(q)[i].fn = fn
      PROVE  Has(q, fn)
  <2>1. i + 1 \in 1..Len(q) /\ q[i + 1] = Tail(q)[i]
    BY <1>1, <1>2
  <2>. QED BY <2>1, <1>4 DEF Has
<1>. QED BY <1>1, <1>2, <1>3, <1>4 DEF Has

\* A function queued at most once stays so when another function is appended,
\* or when it was not queued.
LEMMA AppendAtMostOne ==
  ASSUME NEW q \in Seq(Handler), NEW h \in Handler, NEW fn,
         AtMostOne(q, fn), h.fn # fn \/ ~Has(q, fn)
  PROVE  AtMostOne(Append(q, h), fn)
<1>1. /\ Len(Append(q, h)) = Len(q) + 1
      /\ \A i \in 1..Len(q) : Append(q, h)[i] = q[i]
      /\ Append(q, h)[Len(q) + 1] = h
  BY AppendProperties
<1>2. Len(q) \in Nat
  BY LenProperties
<1>. QED BY <1>1, <1>2 DEF Has, AtMostOne

\* Taking the head keeps the bound, and leaves none if the head was the one.
LEMMA TailAtMostOne ==
  ASSUME NEW q \in Seq(Handler), q # <<>>, NEW fn, AtMostOne(q, fn)
  PROVE  /\ AtMostOne(Tail(q), fn)
         /\ Head(q).fn = fn => ~Has(Tail(q), fn)
<1>1. /\ Len(Tail(q)) = Len(q) - 1
      /\ \A i \in 1..Len(Tail(q)) : Tail(q)[i] = q[i+1]
  BY HeadTailProperties
<1>2. Len(q) \in Nat /\ Len(q) >= 1 /\ Head(q) = q[1]
  BY LenProperties, EmptySeq
<1>. QED BY <1>1, <1>2 DEF Has, AtMostOne

\* A handler built by Call is a Handler with the function and code given.
LEMMA CallType ==
  ASSUME NEW fn \in Functions, NEW ec \in Codes
  PROVE  Call(fn, ec) \in Handler /\ Call(fn, ec).fn = fn /\ Call(fn, ec).ec = ec
BY DEF Call, Handler

-----------------------------------------------------------------------------
(* Typing *)

\* A new session's variables have their types.
LEMMA InitType == Init => TypeOK
<1>1. <<>> \in Seq(Handler)
  OBVIOUS
<1>2. Init => /\ status \in Status /\ socketOpen \in BOOLEAN /\ isOpen \in BOOLEAN
              /\ busy \in {"no", "parse", "close"} /\ stoppedAt \in {"end", "size", "code"}
              /\ readOp \in BOOLEAN /\ timer \in BOOLEAN
  BY Zenon DEF Init, Status
<1>3. Init => seen \subseteq Events /\ shut \subseteq {"receive", "send"}
  BY DEF Init
<1>. QED BY <1>1, <1>2, <1>3 DEF Init, TypeOK

\* tryCloseByFailed assigns values of the variables' types.
LEMMA TryCloseType ==
  ASSUME TypeOK, NEW what \in {"receive", "send"}, NEW q \in Seq(Handler),
         tryCloseByFailed(what, q)
  PROVE  /\ status' \in Status /\ shut' \subseteq {"receive", "send"}
         /\ timer' \in BOOLEAN /\ aborting' \in Nat
         /\ strand' \in Seq(Handler)
<1>1. shut' \subseteq {"receive", "send"}
  BY DEF tryCloseByFailed, TypeOK
<1>2. CASE status = "OPEN"
  <2>1. status' \in Status /\ timer' \in BOOLEAN
    BY Zenon, <1>2 DEF tryCloseByFailed, CancelTimer, Status
  <2>2. aborting' \in Nat
    BY <1>2 DEF tryCloseByFailed, CancelTimer, TypeOK
  <2>3. strand' \in Seq(Handler)
    BY <1>2, AppendHas, CallType DEF tryCloseByFailed, Functions, Codes
  <2>. QED BY <1>1, <2>1, <2>2, <2>3
<1>3. CASE status # "OPEN"
  BY <1>1, <1>3 DEF tryCloseByFailed, TypeOK
<1>. QED BY <1>2, <1>3

\* The same of onClose.
LEMMA OnCloseType ==
  ASSUME TypeOK, onClose
  PROVE  /\ status' \in Status /\ socketOpen' \in BOOLEAN /\ isOpen' \in BOOLEAN
         /\ busy' \in {"no", "parse", "close"}
         /\ timer' \in BOOLEAN /\ aborting' \in Nat
         /\ closes' \in Nat
<1>1. status' \in Status /\ timer' \in BOOLEAN
  BY Zenon DEF onClose, CancelTimer, TypeOK, Status
<1>3. socketOpen' \in BOOLEAN /\ isOpen' \in BOOLEAN /\ busy' \in {"no", "parse", "close"}
  BY DEF onClose, CloseSocket, TypeOK
<1>2. aborting' \in Nat /\ closes' \in Nat
  BY DEF onClose, CancelTimer, TypeOK
<1>. QED BY <1>1, <1>2, <1>3

\* Every step of the session and of those that drive it keeps the types.
LEMMA StepType == TypeOK /\ [Next]_vars => TypeOK'
<1>. SUFFICES ASSUME TypeOK, [Next]_vars PROVE TypeOK'
  OBVIOUS
<1>. USE DEF fixed, sock, ops, recv
<1>0. \A fn \in Functions, ec \in Codes : Append(strand, Call(fn, ec)) \in Seq(Handler)
  BY AppendHas, CallType DEF TypeOK
<1>t. strand # <<>> =>
        /\ Head(strand) \in Handler /\ Tail(strand) \in Seq(Handler)
        /\ Append(Tail(strand), Head(strand)) \in Seq(Handler)
        /\ \A fn \in Functions, ec \in Codes : Append(Tail(strand), Call(fn, ec)) \in Seq(Handler)
  BY AppendHas, TailHas, CallType DEF TypeOK
<1>1. CASE StartRead
  BY <1>1 DEF StartRead, TypeOK
<1>2. CASE StartOpen
  BY <1>2 DEF StartOpen, TypeOK, Status
<1>3. CASE OnConnect
  BY <1>3 DEF OnConnect, TypeOK
<1>4. ASSUME NEW ec \in {"success", "eof", "error"}, ReadComplete(ec) PROVE TypeOK'
  BY Zenon, <1>0, <1>4 DEF ReadComplete, StillOpen, TypeOK, Functions, Codes
<1>5. ASSUME NEW ec \in {"success", "error"}, WriteComplete(ec) PROVE TypeOK'
  BY <1>0, <1>5 DEF WriteComplete, StillOpen, TypeOK, Functions, Codes
<1>6. CASE TimerExpired
  BY Zenon, <1>0, <1>6 DEF TimerExpired, TypeOK, Functions, Codes
<1>7. CASE TimerAborted
  BY <1>0, <1>7 DEF TimerAborted, TypeOK, Functions, Codes
<1>8. CASE Destruct
  <2>1. aborting \in Nat /\ aborting' = aborting + 1
    BY <1>8 DEF Destruct, TypeOK
  <2>2. aborting' \in Nat
    BY <2>1
  <2>3. timer' \in BOOLEAN
    BY Zenon, <1>8 DEF Destruct
  <2>. QED BY <1>8, <2>2, <2>3 DEF Destruct, TypeOK
<1>22. CASE WebsocketClosed
  BY <1>22 DEF WebsocketClosed, TypeOK
<1>9. CASE handleReadData
  <2>1. unparsed' \in Nat /\ pending' \in Int
    BY <1>9, BoundsAssumption DEF handleReadData, TypeOK
  <2>. QED BY <1>t, <1>9, <2>1 DEF handleReadData, Running, TypeOK, Functions, Codes
<1>10. CASE handleReadRetry
  BY <1>t, <1>10 DEF handleReadRetry, Running, TypeOK
<1>11. CASE handleReadFail
  <2>1. retry' \in Nat /\ seen' \subseteq Events
    BY <1>11 DEF handleReadFail, TypeOK, Events
  <2>2. strand # <<>> /\ tryCloseByFailed("receive", Tail(strand))
    BY <1>11 DEF handleReadFail, Running
  <2>3. /\ status' \in Status /\ shut' \subseteq {"receive", "send"}
        /\ timer' \in BOOLEAN /\ aborting' \in Nat
        /\ strand' \in Seq(Handler)
    BY Zenon, <1>t, <2>2, TryCloseType
  <2>. QED BY <1>11, <2>1, <2>3 DEF handleReadFail, TypeOK
<1>12. CASE dispatchDropped
  BY <1>t, <1>12 DEF dispatchDropped, Running, TypeOK, Events
<1>13. CASE dispatchHandled
  BY <1>t, <1>13 DEF dispatchHandled, Running, TypeOK
<1>14. CASE dispatchRefused
  <2>1. PICK left \in 0..unparsed : \E n \in 1..(unparsed - left) :
       /\ unparsed' = left
       /\ closeReserve(n, IF HasUser THEN {} ELSE {"lostUser"})
    BY <1>14 DEF dispatchRefused
  <2>2. PICK n \in 1..(unparsed - left) :
       /\ unparsed' = left
       /\ closeReserve(n, IF HasUser THEN {} ELSE {"lostUser"})
    BY <2>1
  <2>3. unparsed' \in Nat /\ n \in Nat /\ n >= 1
    BY <2>2 DEF TypeOK
  <2>4. timer' \in BOOLEAN /\ aborting' \in Nat
    BY <2>2, <2>3 DEF closeReserve, TypeOK
  <2>5. seen' \subseteq Events
    BY <2>2 DEF closeReserve, TypeOK, Events
  <2>. QED BY <1>t, <1>14, <2>3, <2>4, <2>5 DEF dispatchRefused, Running, TypeOK
<1>23. CASE dispatchStopped
  <2>1. unparsed' \in Nat /\ stoppedAt' \in {"end", "size", "code"}
    BY <1>23 DEF dispatchStopped, TypeOK
  <2>. QED BY <1>t, <1>23, <2>1 DEF dispatchStopped, Running, TypeOK
<1>24. CASE dispatchLoops
  <2>1. unparsed' \in Nat /\ timer' \in BOOLEAN /\ aborting' \in Nat
    BY <1>24 DEF dispatchLoops, closeReserve, TypeOK
  <2>2. seen' \subseteq Events
    BY <1>24 DEF dispatchLoops, closeReserve, TypeOK, Events
  <2>. QED BY <1>24, <2>1, <2>2 DEF dispatchLoops, TypeOK
<1>15. CASE handleWriteDone
  BY <1>t, <1>15 DEF handleWriteDone, Running, TypeOK
<1>16. CASE handleWriteFail
  <2>1. seen' \subseteq Events
    BY <1>16 DEF handleWriteFail, TypeOK, Events
  <2>2. strand # <<>> /\ tryCloseByFailed("send", Tail(strand))
    BY <1>16 DEF handleWriteFail, Running
  <2>3. /\ status' \in Status /\ shut' \subseteq {"receive", "send"}
        /\ timer' \in BOOLEAN /\ aborting' \in Nat
        /\ strand' \in Seq(Handler)
    BY Zenon, <1>t, <2>2, TryCloseType
  <2>. QED BY <1>16, <2>1, <2>3 DEF handleWriteFail, TypeOK
<1>17. CASE onClosePosted
  <2>1. strand' \in Seq(Handler) /\ onClose
    BY <1>t, <1>17 DEF onClosePosted, Running
  <2>. QED BY <1>17, <2>1, OnCloseType DEF onClosePosted, TypeOK
<1>18. CASE onCloseReserveTime
  <2>1. strand' \in Seq(Handler)
    BY <1>t, <1>18 DEF onCloseReserveTime, Running
  <2>2. CASE onClose
    BY <1>18, <2>1, <2>2, OnCloseType DEF onCloseReserveTime, TypeOK
  <2>3. CASE UNCHANGED <<status, timer, aborting, closes, socketOpen, isOpen, busy>>
    BY <1>18, <2>1, <2>3 DEF onCloseReserveTime, TypeOK
  <2>. QED BY <1>18, <2>2, <2>3 DEF onCloseReserveTime
<1>19. CASE Send
  BY <1>19 DEF Send, TypeOK
<1>20. CASE CloseReserve
  BY <1>20 DEF CloseReserve, closeReserve, TypeOK, Events
<1>21. CASE UNCHANGED vars
  BY <1>21 DEF vars, TypeOK
<1>. QED
  BY <1>1, <1>2, <1>3, <1>4, <1>5, <1>6, <1>7, <1>8, <1>9, <1>10, <1>11, <1>12, <1>13, <1>14,
     <1>15, <1>16, <1>17, <1>18, <1>19, <1>20, <1>21, <1>22, <1>23, <1>24 DEF Next, Service, Completion, Strand

\* The type invariant of Session holds in every behaviour, for all bounds.
THEOREM TypeCorrect == Spec => []TypeOK
BY InitType, StepType, PTL DEF Spec

-----------------------------------------------------------------------------
(* The inductive invariant: CloseOnce, SingleRead and NoIdleSession need to *)
(* know what the start sequence has done to the read chain.                 *)

Progress ==
  /\ starter = "created" => ~readOp /\ ~InStrand("handleRead")
  /\ starter = "reading" =>
       readOp \/ InStrand("handleRead") \/ "readFailedBeforeOpen" \in seen

IInv == TypeOK /\ CloseOnce /\ SingleRead /\ NoIdleSession /\ Progress

\* A new session satisfies the invariant: nothing is queued on its strand.
LEMMA InitInv == Init => IInv
<1>. SUFFICES ASSUME Init PROVE IInv
  OBVIOUS
<1>1. strand = <<>> /\ Len(strand) = 0
  BY DEF Init
<1>2. \A fn : ~InStrand(fn) /\ AtMostOne(strand, fn)
  BY <1>1 DEF InStrand, Has, AtMostOne
<1>3. CloseOnce /\ NoIdleSession
  BY DEF Init, CloseOnce, NoIdleSession
<1>4. SingleRead /\ Progress
  BY <1>2 DEF Init, SingleRead, Progress
<1>. QED BY InitType, <1>3, <1>4 DEF IInv

\* The start sequence, the completions and the application keep the invariant.
LEMMA OutsideInv ==
  ASSUME IInv, TypeOK',
         Service \/ Completion \/ dispatchLoops \/ Send \/ CloseReserve \/ UNCHANGED vars
  PROVE  IInv'
<1>. USE DEF fixed, sock, ops, recv, IInv
<1>1. CASE StartRead
  BY <1>1 DEF StartRead, CloseOnce, SingleRead, NoIdleSession, Progress, InStrand
<1>2. CASE StartOpen
  BY <1>2 DEF StartOpen, CloseOnce, SingleRead, NoIdleSession, Progress, InStrand
<1>3. CASE OnConnect
  BY <1>3 DEF OnConnect, CloseOnce, SingleRead, NoIdleSession, Progress, InStrand
<1>4. ASSUME NEW h \in Handler, strand' = Append(strand, h),
             \/ h.fn = "handleRead" /\ readOp /\ readOp' = FALSE
             \/ h.fn # "handleRead" /\ readOp' = readOp,
             UNCHANGED <<starter, status, closes, seen>>
      PROVE  IInv'
  <2>1. strand \in Seq(Handler)
    BY DEF TypeOK
  <2>2. \A fn : InStrand(fn)' <=> h.fn = fn \/ InStrand(fn)
    BY <1>4, <2>1, AppendHas DEF InStrand
  <2>3. AtMostOne(strand, "handleRead")'
    BY <1>4, <2>1, AppendAtMostOne DEF SingleRead, InStrand
  <2>4. CloseOnce'
    BY <1>4 DEF CloseOnce
  <2>5. SingleRead'
    BY <1>4, <2>2, <2>3 DEF SingleRead
  <2>6. NoIdleSession' /\ Progress'
    BY <1>4, <2>2 DEF NoIdleSession, Progress, SingleRead
  <2>. QED BY <2>4, <2>5, <2>6
<1>5. ASSUME NEW ec \in {"success", "eof", "error"}, ReadComplete(ec) PROVE IInv'
  BY Zenon, <1>4, <1>5, CallType DEF ReadComplete, Functions, Codes
<1>6. ASSUME NEW ec \in {"success", "error"}, WriteComplete(ec) PROVE IInv'
  BY Zenon, <1>4, <1>6, CallType DEF WriteComplete, Functions, Codes
<1>7. CASE TimerExpired
  BY Zenon, <1>4, <1>7, CallType DEF TimerExpired, Functions, Codes
<1>8. CASE TimerAborted
  BY Zenon, <1>4, <1>8, CallType DEF TimerAborted, Functions, Codes
<1>9. CASE UNCHANGED <<starter, status, readOp, strand, closes>> /\ seen \subseteq seen'
  BY <1>9 DEF CloseOnce, SingleRead, NoIdleSession, Progress, InStrand
<1>10. CASE Destruct \/ WebsocketClosed
  BY <1>9, <1>10 DEF Destruct, WebsocketClosed
<1>11. CASE Send
  BY <1>9, <1>11 DEF Send
<1>12. CASE CloseReserve \/ dispatchLoops
  BY <1>9, <1>12 DEF CloseReserve, dispatchLoops, closeReserve
<1>13. CASE UNCHANGED vars
  BY <1>9, <1>13 DEF vars
<1>. QED
  BY <1>1, <1>2, <1>3, <1>5, <1>6, <1>7, <1>8, <1>10, <1>11, <1>12, <1>13 DEF Service,
         Completion

\* What the strand holds once its head has been taken, and after the head's
\* handler has queued h behind the rest.
LEMMA HeadTaken ==
  ASSUME TypeOK, SingleRead, strand # <<>>
  PROVE  /\ Head(strand) \in Handler
         /\ \A fn : InStrand(fn) <=> Head(strand).fn = fn \/ Has(Tail(strand), fn)
         /\ AtMostOne(Tail(strand), "handleRead")
         /\ Head(strand).fn = "handleRead" => ~readOp /\ ~Has(Tail(strand), "handleRead")
         /\ \A h \in Handler :
              /\ \A fn : Has(Append(Tail(strand), h), fn) <=> h.fn = fn \/ Has(Tail(strand), fn)
              /\ h.fn # "handleRead" \/ ~Has(Tail(strand), "handleRead")
                   => AtMostOne(Append(Tail(strand), h), "handleRead")
<1>1. strand \in Seq(Handler)
  BY DEF TypeOK
<1>2. Head(strand) \in Handler /\ Tail(strand) \in Seq(Handler)
  BY <1>1, TailHas
<1>3. \A fn : InStrand(fn) <=> Head(strand).fn = fn \/ Has(Tail(strand), fn)
  BY <1>1, TailHas DEF InStrand
<1>4. /\ AtMostOne(Tail(strand), "handleRead")
      /\ Head(strand).fn = "handleRead" => ~Has(Tail(strand), "handleRead")
  BY <1>1, TailAtMostOne DEF SingleRead
<1>5. Head(strand).fn = "handleRead" => ~readOp
  BY <1>3 DEF SingleRead
<1>6. ASSUME NEW h \in Handler
      PROVE  /\ \A fn : Has(Append(Tail(strand), h), fn) <=> h.fn = fn \/ Has(Tail(strand), fn)
             /\ h.fn # "handleRead" \/ ~Has(Tail(strand), "handleRead")
                  => AtMostOne(Append(Tail(strand), h), "handleRead")
  BY Zenon, <1>2, <1>4, AppendHas, AppendAtMostOne
<1>. QED BY <1>2, <1>3, <1>4, <1>5, <1>6

\* Every handler keeps the invariant.
LEMMA StrandInv ==
  ASSUME IInv, TypeOK', Strand
  PROVE  IInv'
<1>. USE DEF fixed, sock, ops, recv, IInv
<1>0. strand # <<>>
  BY Zenon DEF Strand, Running, handleReadData, handleReadRetry, handleReadFail,
         dispatchDropped, dispatchHandled, dispatchRefused, dispatchStopped, handleWriteDone,
         handleWriteFail,
         onClosePosted, onCloseReserveTime
<1>h. /\ Head(strand) \in Handler
      /\ \A fn : InStrand(fn) <=> Head(strand).fn = fn \/ Has(Tail(strand), fn)
      /\ AtMostOne(Tail(strand), "handleRead")
      /\ Head(strand).fn = "handleRead" => ~readOp /\ ~Has(Tail(strand), "handleRead")
      /\ \A h \in Handler :
           /\ \A fn : Has(Append(Tail(strand), h), fn) <=> h.fn = fn \/ Has(Tail(strand), fn)
           /\ h.fn # "handleRead" \/ ~Has(Tail(strand), "handleRead")
                => AtMostOne(Append(Tail(strand), h), "handleRead")
  BY <1>0, HeadTaken
<1>1. CASE handleReadData
  <2>1. Call("dispatch", "success") \in Handler /\ Call("dispatch", "success").fn = "dispatch"
    BY CallType DEF Functions, Codes
  <2>2. /\ AtMostOne(strand', "handleRead") /\ ~InStrand("handleRead")'
        /\ InStrand("onClose") => InStrand("onClose")'
    BY <1>h, <1>1, <2>1 DEF handleReadData, Running, InStrand
  <2>3. starter # "created"
    BY <1>h, <1>1 DEF handleReadData, Running, Progress
  <2>. QED BY <1>1, <2>2, <2>3 DEF handleReadData, CloseOnce, SingleRead, NoIdleSession,
                  Progress
<1>2. CASE handleReadRetry
  <2>1. /\ AtMostOne(strand', "handleRead") /\ \A fn : InStrand(fn)' <=> InStrand(fn)
    BY <1>h, <1>2 DEF handleReadRetry, Running, InStrand
  <2>. QED BY <1>2, <2>1 DEF handleReadRetry, CloseOnce, SingleRead, NoIdleSession, Progress
\* The failing handlers: PENDING_CLOSE comes with the posted onClose.
<1>3. ASSUME NEW what, tryCloseByFailed(what, Tail(strand)),
             Head(strand).fn \in {"handleRead", "handleWrite"},
             Head(strand).fn = "handleRead" /\ starter = "reading" =>
               "readFailedBeforeOpen" \in seen',
             UNCHANGED <<starter, readOp, closes>>, seen \subseteq seen'
      PROVE  IInv'
  <2>1. Call("onClose", "success") \in Handler /\ Call("onClose", "success").fn = "onClose"
    BY CallType DEF Functions, Codes
  <2>2. /\ AtMostOne(strand', "handleRead")
        /\ InStrand("handleRead")' => InStrand("handleRead")
        /\ InStrand("onClose") => InStrand("onClose")'
        /\ Head(strand).fn # "handleRead" /\ InStrand("handleRead") => InStrand("handleRead")'
        /\ status = "OPEN" => InStrand("onClose")'
    BY Zenon, <1>h, <1>3, <2>1 DEF tryCloseByFailed, InStrand
  <2>3. /\ status = "OPEN" => status' = "PENDING_CLOSE"
        /\ status # "OPEN" => status' = status
    BY <1>3 DEF tryCloseByFailed
  <2>4. CloseOnce'
    BY <1>3, <2>3 DEF CloseOnce
  <2>5. SingleRead'
    BY <1>3, <2>2 DEF SingleRead
  <2>6. NoIdleSession'
    BY <2>2, <2>3 DEF NoIdleSession
  <2>7. Progress'
    BY <1>3, <1>h, <2>2 DEF Progress
  <2>. QED BY <2>4, <2>5, <2>6, <2>7
<1>4. CASE handleReadFail
  BY <1>3, <1>4 DEF handleReadFail, Running
<1>5. CASE handleWriteFail
  BY <1>3, <1>5 DEF handleWriteFail, Running
\* The other handlers take the head and leave the read chain alone.
<1>6. ASSUME strand' = Tail(strand), Head(strand).fn # "handleRead",
             \/ UNCHANGED <<status, closes>> /\ Head(strand).fn # "onClose"
             \/ onClose,
             UNCHANGED <<starter, readOp>>, seen \subseteq seen'
      PROVE  IInv'
  <2>1. /\ AtMostOne(strand', "handleRead")
        /\ InStrand("handleRead")' <=> InStrand("handleRead")
        /\ Head(strand).fn # "onClose" => (InStrand("onClose")' <=> InStrand("onClose"))
    BY <1>h, <1>6 DEF InStrand
  <2>2. CloseOnce'
    BY SMTT(30), <1>6 DEF CloseOnce, onClose, TypeOK, Status
  <2>3. SingleRead' /\ Progress'
    BY <1>6, <2>1 DEF SingleRead, Progress
  <2>4. NoIdleSession'
    BY <1>6, <2>1 DEF NoIdleSession, onClose
  <2>. QED BY <2>2, <2>3, <2>4
<1>7. CASE dispatchDropped
  BY <1>6, <1>7 DEF dispatchDropped, Running
<1>8. CASE dispatchHandled
  BY <1>6, <1>8 DEF dispatchHandled, Running
<1>9. CASE dispatchRefused
  <2>1. seen \subseteq seen'
    BY <1>9 DEF dispatchRefused, closeReserve
  <2>. QED BY <1>6, <1>9, <2>1 DEF dispatchRefused, Running
<1>13. CASE dispatchStopped
  BY <1>6, <1>13 DEF dispatchStopped, Running
<1>10. CASE handleWriteDone
  BY <1>6, <1>10 DEF handleWriteDone, Running
<1>11. CASE onClosePosted
  BY <1>6, <1>11 DEF onClosePosted, Running
<1>12. CASE onCloseReserveTime
  BY <1>6, <1>12 DEF onCloseReserveTime, Running
<1>. QED
  BY <1>1, <1>2, <1>4, <1>5, <1>7, <1>8, <1>9, <1>10, <1>11, <1>12, <1>13 DEF Strand

\* Every step keeps the invariant, whatever the bounds.
LEMMA StepInv == IInv /\ [Next]_vars => IInv'
<1>. SUFFICES ASSUME IInv, [Next]_vars PROVE IInv'
  OBVIOUS
<1>1. TypeOK'
  BY StepType DEF IInv
<1>. QED BY <1>1, OutsideInv, StrandInv DEF Next

\* IInv holds in every state of every behaviour of a session.
LEMMA Invariance == Spec => []IInv
BY InitInv, StepInv, PTL DEF Spec

-----------------------------------------------------------------------------
(* The theorems *)

\* onClose reaches the receiver exactly once per opened session, never before
\* the session is opened, however the failures and reserved closes race.
THEOREM CloseOnceHolds == Spec => []CloseOnce
BY Invariance, PTL DEF IInv

\* At most one read is in progress or waiting to be handled.
THEOREM SingleReadHolds == Spec => []SingleRead
BY Invariance, PTL DEF IInv

\* An OPEN session reads and a closing one has its onClose queued, except for
\* a first read that failed before the start sequence set OPEN.
THEOREM NoIdleSessionHolds == Spec => []NoIdleSession
BY Invariance, PTL DEF IInv

\* A session is not destroyed before its onClose, with the same exception.
THEOREM DestroyedAfterCloseHolds == Spec => []DestroyedAfterClose
<1>1. IInv => DestroyedAfterClose
  <2>. SUFFICES ASSUME IInv, ~Alive, "readFailedBeforeOpen" \notin seen PROVE closes = 1
    BY DEF DestroyedAfterClose
  <2>1. starter = "done" /\ ~readOp
    BY DEF Alive
  <2>2. ~InStrand("handleRead") /\ ~InStrand("onClose")
    BY DEF Alive, InStrand, Has
  <2>3. status = "CLOSED"
    BY <2>1, <2>2 DEF IInv, NoIdleSession, TypeOK, Status
  <2>. QED BY <2>1, <2>3 DEF IInv, CloseOnce
<1>. QED BY <1>1, Invariance, PTL

\* The status never moves back: it is opened once, by the start sequence.
THEOREM StatusForwardHolds == Spec => StatusForward
<1>1. ASSUME IInv, [Next]_vars
      PROVE  [status' # status =>
                \/ status = "CLOSED" /\ status' = "OPEN" /\ starter = "reading"
                \/ status = "OPEN" /\ status' \in {"PENDING_CLOSE", "CLOSED"}
                \/ status = "PENDING_CLOSE" /\ status' = "CLOSED"]_vars
  <2>. USE DEF fixed, sock, ops, recv
  <2>1. CASE StartOpen
    BY <1>1, <2>1 DEF StartOpen, IInv, CloseOnce
  <2>2. CASE handleReadFail \/ handleWriteFail
    BY <2>2 DEF handleReadFail, handleWriteFail, tryCloseByFailed
  <2>3. CASE onClosePosted \/ onCloseReserveTime
    BY <1>1, <2>3 DEF onClosePosted, onCloseReserveTime, onClose, IInv, TypeOK, Status
  <2>4. CASE status' = status
    BY <2>4
  <2>5. CASE StartRead \/ OnConnect \/ Send \/ CloseReserve \/ dispatchLoops
    BY <2>4, <2>5 DEF StartRead, OnConnect, Send, CloseReserve, dispatchLoops
  <2>6. CASE Completion
    BY <2>4, <2>6 DEF Completion, ReadComplete, WriteComplete, TimerExpired, TimerAborted,
           WebsocketClosed, Destruct
  <2>7. CASE \/ handleReadData \/ handleReadRetry \/ dispatchDropped \/ dispatchHandled
             \/ dispatchRefused \/ dispatchStopped \/ handleWriteDone
    BY <2>4, <2>7 DEF handleReadData, handleReadRetry, dispatchDropped, dispatchHandled,
       dispatchRefused, dispatchStopped, handleWriteDone
  <2>8. CASE UNCHANGED vars
    BY <2>4, <2>8 DEF vars
  <2>. QED
    BY <1>1, <2>1, <2>2, <2>3, <2>5, <2>6, <2>7, <2>8 DEF Next, Service, Strand
<1>. QED BY <1>1, Invariance, PTL DEF Spec, StatusForward

-----------------------------------------------------------------------------
(* One dispatch at a time *)

\* Appending anything but a dispatch behind a read keeps the order.
LEMMA AppendOrder ==
  ASSUME NEW q \in Seq(Handler), NEW h \in Handler, DispatchBeforeRead(q),
         h.fn # "dispatch" \/ ~Has(q, "handleRead")
  PROVE  DispatchBeforeRead(Append(q, h))
<1>1. /\ Len(Append(q, h)) = Len(q) + 1
      /\ \A i \in 1..Len(q) : Append(q, h)[i] = q[i]
      /\ Append(q, h)[Len(q) + 1] = h
  BY AppendProperties
<1>2. Len(q) \in Nat
  BY LenProperties
<1>. QED BY <1>1, <1>2 DEF Has, DispatchBeforeRead

\* Taking the head keeps the order, and no dispatch is behind a read.
LEMMA TailOrder ==
  ASSUME NEW q \in Seq(Handler), q # <<>>, DispatchBeforeRead(q)
  PROVE  /\ DispatchBeforeRead(Tail(q))
         /\ Head(q).fn = "handleRead" => ~Has(q, "dispatch")
<1>1. /\ Len(Tail(q)) = Len(q) - 1
      /\ \A i \in 1..Len(Tail(q)) : Tail(q)[i] = q[i+1]
  BY HeadTailProperties
<1>2. Len(q) \in Nat /\ Len(q) >= 1 /\ Head(q) = q[1]
  BY LenProperties, EmptySeq
<1>3. Head(q).fn = "handleRead" => ~Has(q, "dispatch")
  BY <1>2 DEF Has, DispatchBeforeRead
<1>4. ASSUME NEW i \in 1..Len(Tail(q)), NEW j \in 1..Len(Tail(q)),
             Tail(q)[i].fn = "handleRead", Tail(q)[j].fn = "dispatch"
      PROVE  j < i
  <2>1. i + 1 \in 1..Len(q) /\ j + 1 \in 1..Len(q)
    BY <1>1, <1>2
  <2>2. q[i+1].fn = "handleRead" /\ q[j+1].fn = "dispatch"
    BY <1>1, <1>4
  <2>3. j + 1 < i + 1
    BY <2>1, <2>2 DEF DispatchBeforeRead
  <2>. QED BY <2>3, <1>1, <1>2
<1>. QED BY <1>3, <1>4 DEF DispatchBeforeRead

\* A step keeps SingleDispatch: only handleReadData queues a dispatch, and it
\* runs as the head, with no dispatch behind it and no other read.
LEMMA StepDispatch == IInv /\ SingleDispatch /\ [Next]_vars => SingleDispatch'
<1>. SUFFICES ASSUME IInv, SingleDispatch, [Next]_vars PROVE SingleDispatch'
  OBVIOUS
<1>. USE DEF fixed, sock, ops, recv
<1>1. strand \in Seq(Handler) /\ SingleRead
  BY DEF IInv, TypeOK
<1>2. ASSUME NEW q \in Seq(Handler), NEW h \in Handler, h.fn # "dispatch",
             AtMostOne(q, "dispatch"), DispatchBeforeRead(q), strand' = Append(q, h)
      PROVE  SingleDispatch'
  BY <1>2, AppendAtMostOne, AppendOrder DEF SingleDispatch
<1>3. strand # <<>> =>
        /\ Head(strand) \in Handler /\ Tail(strand) \in Seq(Handler)
        /\ AtMostOne(Tail(strand), "dispatch") /\ DispatchBeforeRead(Tail(strand))
  BY <1>1, TailHas, TailAtMostOne, TailOrder DEF SingleDispatch
<1>4. \A fn \in Functions, ec \in Codes : Call(fn, ec) \in Handler /\ Call(fn, ec).fn = fn
  BY CallType
<1>5. CASE strand' = strand
  BY <1>5 DEF SingleDispatch
<1>6. CASE strand # <<>> /\ strand' = Tail(strand)
  BY <1>3, <1>6 DEF SingleDispatch
<1>7. CASE \/ Service \/ Send \/ CloseReserve \/ dispatchLoops \/ WebsocketClosed
           \/ Destruct \/ UNCHANGED vars
  BY <1>5, <1>7 DEF Service, StartRead, StartOpen, OnConnect, Send, CloseReserve, dispatchLoops,
     WebsocketClosed, Destruct, vars
<1>8. CASE \/ \E ec \in {"success", "eof", "error"} : ReadComplete(ec)
           \/ \E ec \in {"success", "error"} : WriteComplete(ec)
           \/ TimerExpired \/ TimerAborted
  <2>1. PICK fn \in {"handleRead", "handleWrite", "onCloseReserveTime"}, ec \in Codes :
          strand' = Append(strand, Call(fn, ec))
    BY <1>8 DEF ReadComplete, WriteComplete, TimerExpired, TimerAborted, Codes
  <2>2. Call(fn, ec) \in Handler /\ Call(fn, ec).fn # "dispatch"
    BY <1>4 DEF Functions
  <2>. QED BY <1>1, <1>2, <2>1, <2>2 DEF SingleDispatch
<1>9. CASE handleReadData
  <2>1. /\ strand # <<>> /\ Head(strand).fn = "handleRead"
        /\ strand' = Append(Tail(strand), Call("dispatch", "success"))
    BY <1>9 DEF handleReadData, Running
  <2>2. ~Has(Tail(strand), "dispatch")
    BY <1>1, <2>1, TailOrder, TailHas DEF SingleDispatch
  <2>3. ~Has(Tail(strand), "handleRead")
    BY <1>1, <2>1, TailAtMostOne DEF SingleRead
  <2>4. Call("dispatch", "success") \in Handler
    BY <1>4 DEF Functions, Codes
  <2>. QED BY Zenon, <1>3, <2>1, <2>2, <2>3, <2>4, AppendAtMostOne, AppendOrder
              DEF SingleDispatch
<1>10. CASE handleReadRetry
  BY Zenon, <1>2, <1>3, <1>10 DEF handleReadRetry, Running
<1>11. CASE handleReadFail \/ handleWriteFail
  <2>1. strand # <<>> /\ \E what : tryCloseByFailed(what, Tail(strand))
    BY <1>11 DEF handleReadFail, handleWriteFail, Running
  <2>2. strand' = Tail(strand) \/ strand' = Append(Tail(strand), Call("onClose", "success"))
    BY <2>1 DEF tryCloseByFailed
  <2>3. Call("onClose", "success") \in Handler /\ Call("onClose", "success").fn # "dispatch"
    BY <1>4 DEF Functions, Codes
  <2>. QED BY Zenon, <1>2, <1>3, <1>6, <2>1, <2>2, <2>3
<1>12. CASE \/ dispatchDropped \/ dispatchHandled \/ dispatchRefused \/ dispatchStopped
            \/ handleWriteDone \/ onClosePosted \/ onCloseReserveTime
  BY <1>6, <1>12 DEF dispatchDropped, dispatchHandled, dispatchRefused, dispatchStopped,
     handleWriteDone, onClosePosted, onCloseReserveTime, Running
<1>. QED BY <1>7, <1>8, <1>9, <1>10, <1>11, <1>12 DEF Next, Completion, Strand

\* At most one dispatch is queued, and none behind a read: the packets of a
\* session are handled one dispatch at a time, in the order of the reads.
THEOREM SingleDispatchHolds == Spec => []SingleDispatch
<1>1. Init => SingleDispatch
  BY DEF Init, SingleDispatch, AtMostOne, DispatchBeforeRead
<1>. QED BY <1>1, Invariance, StepDispatch, PTL DEF Spec

-----------------------------------------------------------------------------
(* What the receive path and the reserved closes leave behind.  The three   *)
(* properties are not inductive: they need to know what the start sequence  *)
(* lets happen before OPEN, and that the read chain is over once the        *)
(* session was closed by a failed read.                                     *)

Early == starter \in {"created", "reading"}
ReadChainOver == ~readOp /\ ~InStrand("handleRead") /\ ~InStrand("dispatch")
Aborted(queue) == \E i \in 1..Len(queue) : queue[i].ec = "aborted"
Left(fn) == Has(Tail(strand), fn)

\* Before OPEN: nothing closes the session, a packet is behind its dispatch or
\* was dropped, and a read that fails ends the read chain.
StartInv ==
  /\ starter = "created" => ~InStrand("dispatch") /\ "readFailedBeforeOpen" \notin seen
  /\ Early => ~InStrand("onClose")
  /\ InStrand("onClose") => status # "OPEN"
  /\ Early /\ unparsed > 0 => InStrand("dispatch") \/ "droppedBeforeOpen" \in seen
  /\ "readFailedBeforeOpen" \in seen =>
       ReadChainOver /\ (unparsed = 0 \/ "droppedBeforeOpen" \in seen)

\* After OPEN: a wait was reserved, a close that neither a failed write nor a
\* wait explains found the read chain over, and a wait is cancelled while the
\* session is still OPEN only by the wait that replaces it.
CloseInv ==
  /\ timer \/ aborting > 0 \/ InStrand("onCloseReserveTime") => "reserved" \in seen
  /\ ~Early /\ status # "OPEN" => ReadChainOver \/ seen \cap {"writeFailed", "reserved"} # {}
  /\ Alive /\ (Early \/ status = "OPEN") /\ (aborting > 0 \/ Aborted(strand))
       => "reReserved" \in seen

\* A code queued at the end is the only one added.
LEMMA AppendAborted ==
  ASSUME NEW q \in Seq(Handler), NEW h \in Handler
  PROVE  Aborted(Append(q, h)) <=> h.ec = "aborted" \/ Aborted(q)
<1>1. /\ Len(Append(q, h)) = Len(q) + 1
      /\ \A i \in 1..Len(q) : Append(q, h)[i] = q[i]
      /\ Append(q, h)[Len(q) + 1] = h
  BY AppendProperties
<1>2. Len(q) \in Nat
  BY LenProperties
<1>. QED BY <1>1, <1>2 DEF Aborted

\* Taking the head removes at most its code.
LEMMA TailAborted ==
  ASSUME NEW q \in Seq(Handler), q # <<>>
  PROVE  Aborted(q) <=> Head(q).ec = "aborted" \/ Aborted(Tail(q))
<1>1. /\ Len(Tail(q)) = Len(q) - 1
      /\ \A i \in 1..Len(Tail(q)) : Tail(q)[i] = q[i+1]
  BY HeadTailProperties
<1>2. Len(q) \in Nat /\ Len(q) >= 1 /\ Head(q) = q[1]
  BY LenProperties, EmptySeq
<1>3. ASSUME NEW i \in 1..Len(q), q[i].ec = "aborted", i # 1
      PROVE  Aborted(Tail(q))
  <2>1. i - 1 \in 1..Len(Tail(q)) /\ Tail(q)[i - 1] = q[i]
    BY <1>1, <1>2, <1>3
  <2>. QED BY <2>1, <1>3 DEF Aborted
<1>4. ASSUME NEW i \in 1..Len(Tail(q)), Tail(q)[i].ec = "aborted"
      PROVE  Aborted(q)
  <2>1. i + 1 \in 1..Len(q) /\ q[i + 1] = Tail(q)[i]
    BY <1>1, <1>2
  <2>. QED BY <2>1, <1>4 DEF Aborted
<1>5. Aborted(q) => Head(q).ec = "aborted" \/ Aborted(Tail(q))
  BY Zenon, <1>2, <1>3 DEF Aborted
<1>6. Head(q).ec = "aborted" => Aborted(q)
  BY <1>2 DEF Aborted
<1>7. Aborted(Tail(q)) => Aborted(q)
  BY Zenon, <1>4 DEF Aborted
<1>. QED BY <1>5, <1>6, <1>7

\* What is queued after an operation completed.
LEMMA Completed ==
  ASSUME IInv, NEW f \in Functions, NEW ec \in Codes, strand' = Append(strand, Call(f, ec))
  PROVE  /\ \A fn : InStrand(fn)' <=> f = fn \/ InStrand(fn)
         /\ Aborted(strand)' <=> ec = "aborted" \/ Aborted(strand)
<1>1. strand \in Seq(Handler)
  BY DEF IInv, TypeOK
<1>2. Call(f, ec) \in Handler /\ Call(f, ec).fn = f /\ Call(f, ec).ec = ec
  BY CallType
<1>3. \A fn : InStrand(fn)' <=> f = fn \/ InStrand(fn)
  BY <1>1, <1>2, AppendHas DEF InStrand
<1>4. Aborted(strand)' <=> ec = "aborted" \/ Aborted(strand)
  BY <1>1, <1>2, AppendAborted
<1>. QED BY <1>3, <1>4

\* What is queued when the head's handler runs, and after it.
LEMMA HandlerRuns ==
  ASSUME IInv, SingleDispatch, strand # <<>>
  PROVE  /\ Head(strand) \in Handler
         /\ \A fn : InStrand(fn) <=> Head(strand).fn = fn \/ Left(fn)
         /\ Head(strand).fn = "handleRead" =>
              ~readOp /\ ~Left("handleRead") /\ ~InStrand("dispatch")
         /\ Aborted(strand) <=> Head(strand).ec = "aborted" \/ Aborted(Tail(strand))
         /\ strand' = Tail(strand) =>
              /\ \A fn : InStrand(fn)' <=> Left(fn)
              /\ Aborted(strand)' <=> Aborted(Tail(strand))
         /\ strand' = Append(Tail(strand), Head(strand)) =>
              /\ \A fn : InStrand(fn)' <=> InStrand(fn)
              /\ Aborted(strand)' <=> Aborted(strand)
         /\ \A f \in Functions : strand' = Append(Tail(strand), Call(f, "success")) =>
              /\ \A fn : InStrand(fn)' <=> f = fn \/ Left(fn)
              /\ Aborted(strand)' <=> Aborted(Tail(strand))
<1>1. strand \in Seq(Handler) /\ TypeOK /\ SingleRead
  BY DEF IInv, TypeOK
<1>2. Head(strand) \in Handler /\ Tail(strand) \in Seq(Handler)
  BY <1>1, TailHas
<1>3. \A fn : InStrand(fn) <=> Head(strand).fn = fn \/ Left(fn)
  BY <1>1, TailHas DEF InStrand, Left
<1>4. Head(strand).fn = "handleRead" => ~readOp /\ ~Left("handleRead") /\ ~InStrand("dispatch")
  BY <1>1, HeadTaken, TailOrder DEF SingleDispatch, InStrand, Left
<1>5. Aborted(strand) <=> Head(strand).ec = "aborted" \/ Aborted(Tail(strand))
  BY <1>1, TailAborted
<1>6. ASSUME strand' = Tail(strand)
      PROVE  /\ \A fn : InStrand(fn)' <=> Left(fn)
             /\ Aborted(strand)' <=> Aborted(Tail(strand))
  BY <1>6 DEF InStrand, Left, Aborted
<1>7. ASSUME NEW h \in Handler, strand' = Append(Tail(strand), h)
      PROVE  /\ \A fn : InStrand(fn)' <=> h.fn = fn \/ Left(fn)
             /\ Aborted(strand)' <=> h.ec = "aborted" \/ Aborted(Tail(strand))
  <2>1. \A fn : InStrand(fn)' <=> h.fn = fn \/ Left(fn)
    BY Zenon, <1>2, <1>7, AppendHas DEF InStrand, Left
  <2>2. Aborted(strand)' <=> h.ec = "aborted" \/ Aborted(Tail(strand))
    BY Zenon, <1>2, <1>7, AppendAborted
  <2>. QED BY <2>1, <2>2
<1>8. ASSUME strand' = Append(Tail(strand), Head(strand))
      PROVE  /\ \A fn : InStrand(fn)' <=> InStrand(fn)
             /\ Aborted(strand)' <=> Aborted(strand)
  BY <1>2, <1>3, <1>5, <1>7, <1>8
<1>9. ASSUME NEW f \in Functions, strand' = Append(Tail(strand), Call(f, "success"))
      PROVE  /\ \A fn : InStrand(fn)' <=> f = fn \/ Left(fn)
             /\ Aborted(strand)' <=> Aborted(Tail(strand))
  <2>1. /\ Call(f, "success") \in Handler /\ Call(f, "success").fn = f
        /\ Call(f, "success").ec = "success"
    BY CallType DEF Codes
  <2>. QED BY <1>7, <1>9, <2>1
<1>. QED BY <1>2, <1>3, <1>4, <1>5, <1>6, <1>8, <1>9
\* Every step keeps StartInv: the session is closed only after OPEN, and the
\* dispatch of a read runs before the next read is handled.
LEMMA StepStart ==
  ASSUME IInv, SingleDispatch, StartInv, [Next]_vars, TypeOK'
  PROVE  StartInv'
<1>. USE DEF fixed, sock, ops, recv, Early, ReadChainOver
<1>t. /\ status \in Status /\ unparsed \in Nat /\ strand \in Seq(Handler)
      /\ Early => status = "CLOSED"
  BY DEF IInv, TypeOK, CloseOnce
<1>1. ASSUME \A fn : InStrand(fn)' <=> InStrand(fn), UNCHANGED <<unparsed, seen>>,
             \/ UNCHANGED <<starter, status>>
             \/ starter' \notin {"created", "reading"} /\ ~InStrand("onClose")
             \/ starter # "created" /\ starter' \notin {"created", "reading"} /\ status' = status,
             readOp' => readOp
      PROVE  StartInv'
  BY <1>1 DEF StartInv
<1>2. CASE StartRead
  BY <1>2 DEF StartRead, StartInv, InStrand
<1>3. CASE StartOpen
  BY <1>1, <1>3 DEF StartOpen, StartInv, InStrand
<1>4. CASE OnConnect
  BY <1>1, <1>4 DEF OnConnect, InStrand
<1>5. ASSUME NEW f \in Functions \ {"dispatch", "onClose"}, NEW ec \in Codes,
             strand' = Append(strand, Call(f, ec)), UNCHANGED <<starter, status, unparsed, seen>>,
             readOp' => readOp, f = "handleRead" => readOp
      PROVE  StartInv'
  <2>1. \A fn : InStrand(fn)' <=> f = fn \/ InStrand(fn)
    BY <1>5, Completed
  <2>. QED BY <1>5, <2>1 DEF StartInv
<1>6. CASE Completion
  <2>1. CASE \E ec \in {"success", "eof", "error"} : ReadComplete(ec)
    BY <1>5, <2>1 DEF ReadComplete, Functions, Codes
  <2>2. CASE \E ec \in {"success", "error"} : WriteComplete(ec)
    BY <1>5, <2>2 DEF WriteComplete, Functions, Codes
  <2>3. CASE TimerExpired \/ TimerAborted
    BY <1>5, <2>3 DEF TimerExpired, TimerAborted, Functions, Codes
  <2>4. CASE Destruct \/ WebsocketClosed
    BY <1>1, <2>4 DEF Destruct, WebsocketClosed, InStrand
  <2>. QED BY <1>6, <2>1, <2>2, <2>3, <2>4 DEF Completion
<1>7. ASSUME UNCHANGED <<starter, status, unparsed, strand, readOp>>,
             seen' \ {"reserved", "reReserved"} = seen \ {"reserved", "reReserved"}
      PROVE  StartInv'
  <2>1. /\ "readFailedBeforeOpen" \in seen' <=> "readFailedBeforeOpen" \in seen
        /\ "droppedBeforeOpen" \in seen' <=> "droppedBeforeOpen" \in seen
    BY <1>7
  <2>. QED BY <1>7, <2>1 DEF StartInv, InStrand
<1>8. CASE Send \/ CloseReserve \/ UNCHANGED vars
  BY <1>7, <1>8 DEF Send, CloseReserve, closeReserve, vars
<1>10. CASE dispatchLoops
  <2>1. /\ "readFailedBeforeOpen" \in seen' <=> "readFailedBeforeOpen" \in seen
        /\ "droppedBeforeOpen" \in seen' <=> "droppedBeforeOpen" \in seen
        /\ UNCHANGED <<starter, status, strand, readOp>>
    BY <1>10 DEF dispatchLoops, closeReserve
  <2>2. CASE unparsed' = unparsed
    BY <2>1, <2>2 DEF StartInv, InStrand
  <2>3. CASE unparsed' # unparsed
    <3>1. Running("dispatch") /\ status = "OPEN"
      BY <1>10, <2>3 DEF dispatchLoops
    <3>2. InStrand("dispatch")
      BY <3>1, HandlerRuns DEF Running
    <3>. QED BY <1>t, <2>1, <3>1, <3>2 DEF StartInv, InStrand
  <2>. QED BY <2>2, <2>3
<1>9. CASE Strand
  <2>0. strand # <<>>
    BY Zenon, <1>9 DEF Strand, Running, handleReadData, handleReadRetry, handleReadFail,
           dispatchDropped, dispatchHandled, dispatchRefused, dispatchStopped, handleWriteDone,
           handleWriteFail, onClosePosted, onCloseReserveTime
  <2>h. /\ \A fn : InStrand(fn) <=> Head(strand).fn = fn \/ Left(fn)
        /\ Head(strand).fn = "handleRead" =>
             ~readOp /\ ~Left("handleRead") /\ ~InStrand("dispatch")
        /\ strand' = Tail(strand) => \A fn : InStrand(fn)' <=> Left(fn)
        /\ strand' = Append(Tail(strand), Head(strand)) => \A fn : InStrand(fn)' <=> InStrand(fn)
        /\ \A f \in Functions : strand' = Append(Tail(strand), Call(f, "success")) =>
             \A fn : InStrand(fn)' <=> f = fn \/ Left(fn)
    BY <2>0, HandlerRuns
  <2>1. CASE handleReadData
    <3>1. \A fn : InStrand(fn)' <=> "dispatch" = fn \/ Left(fn)
      BY <2>h, <2>1 DEF handleReadData, Functions
    <3>2. starter # "created" /\ "readFailedBeforeOpen" \notin seen
      BY <2>h, <2>1 DEF handleReadData, Running, StartInv, IInv, Progress
    <3>. QED BY <2>1, <2>h, <3>1, <3>2 DEF handleReadData, StartInv
  <2>2. CASE handleReadRetry
    BY <1>1, <2>h, <2>2 DEF handleReadRetry
  <2>3. ASSUME NEW what, tryCloseByFailed(what, Tail(strand)),
               UNCHANGED <<starter, readOp, unparsed>>,
               "droppedBeforeOpen" \in seen' <=> "droppedBeforeOpen" \in seen,
               \/ Head(strand).fn = "handleWrite" /\
                    ("readFailedBeforeOpen" \in seen' <=> "readFailedBeforeOpen" \in seen)
               \/ Head(strand).fn = "handleRead" /\
                    ("readFailedBeforeOpen" \in seen' <=>
                       "readFailedBeforeOpen" \in seen \/ starter = "reading")
        PROVE  StartInv'
    <3>1. CASE status = "OPEN"
      <4>1. \A fn : InStrand(fn)' <=> "onClose" = fn \/ Left(fn)
        BY <2>3, <2>h, <3>1 DEF tryCloseByFailed, Functions
      <4>2. status' = "PENDING_CLOSE" /\ ~Early
        BY <1>t, <2>3, <3>1 DEF tryCloseByFailed
      <4>. QED BY <2>3, <2>h, <4>1, <4>2 DEF StartInv
    <3>2. CASE status # "OPEN"
      <4>1. (\A fn : InStrand(fn)' <=> Left(fn)) /\ status' = status
        BY <2>3, <2>h, <3>2 DEF tryCloseByFailed
      <4>2. CASE Head(strand).fn = "handleWrite"
        BY <2>3, <2>h, <4>1, <4>2 DEF StartInv
      <4>3. CASE Head(strand).fn = "handleRead"
        <5>1. starter # "created"
          BY <2>h, <4>3 DEF IInv, Progress
        <5>2. ~readOp' /\ ~InStrand("handleRead")' /\ ~InStrand("dispatch")'
          BY <2>3, <2>h, <4>1, <4>3
        <5>3. unparsed > 0 /\ Early => "droppedBeforeOpen" \in seen
          BY <2>h, <4>3 DEF StartInv
        <5>. QED BY <1>t, <2>3, <2>h, <4>1, <4>3, <5>1, <5>2, <5>3 DEF StartInv
      <4>. QED BY <2>3, <4>2, <4>3
    <3>. QED BY <3>1, <3>2
  <2>4. CASE handleReadFail
    BY <2>3, <2>4 DEF handleReadFail, Running
  <2>5. CASE handleWriteFail
    BY <2>3, <2>5 DEF handleWriteFail, Running
  <2>6. ASSUME strand' = Tail(strand), UNCHANGED <<starter, readOp>>,
               Head(strand).fn \notin {"dispatch", "handleRead"},
               UNCHANGED <<unparsed, seen>>, status' \in {status, "CLOSED"}
        PROVE  StartInv'
    BY <2>h, <2>6 DEF StartInv
  <2>7. CASE handleWriteDone \/ onClosePosted \/ onCloseReserveTime
    BY <2>6, <2>7 DEF handleWriteDone, onClosePosted, onCloseReserveTime, onClose, Running
  <2>8. CASE dispatchDropped
    <3>1. starter # "created"
      BY <2>h, <2>8 DEF dispatchDropped, Running, StartInv
    <3>2. /\ "readFailedBeforeOpen" \in seen' <=> "readFailedBeforeOpen" \in seen
          /\ starter = "reading" => "droppedBeforeOpen" \in seen'
          /\ "droppedBeforeOpen" \in seen => "droppedBeforeOpen" \in seen'
      BY <2>8 DEF dispatchDropped
    <3>. QED BY <2>h, <2>8, <3>1, <3>2 DEF dispatchDropped, StartInv
  <2>9. CASE dispatchHandled \/ dispatchRefused \/ dispatchStopped
    <3>1. ~Early
      BY <1>t, <2>9 DEF dispatchHandled, dispatchRefused, dispatchStopped
    <3>2. /\ strand' = Tail(strand) /\ UNCHANGED <<starter, status, readOp>>
          /\ Head(strand).fn = "dispatch"
          /\ "readFailedBeforeOpen" \in seen' <=> "readFailedBeforeOpen" \in seen
      BY <2>9 DEF dispatchHandled, dispatchRefused, dispatchStopped, closeReserve, Running
    <3>. QED BY <2>h, <3>1, <3>2 DEF StartInv
  <2>. QED BY <1>9, <2>1, <2>2, <2>4, <2>5, <2>7, <2>8, <2>9, SMTT(30) DEF Strand
<1>. QED BY <1>2, <1>3, <1>4, <1>6, <1>8, <1>9, <1>10 DEF Next, Service

\* Every handler queued runs one of the functions.
LEMMA QueuedFunctions ==
  ASSUME NEW q \in Seq(Handler)
  PROVE  \A i \in 1..Len(q) : q[i].fn \in Functions
<1>1. \A i \in 1..Len(q) : q[i] \in Handler
  BY ElementOfSeq
<1>. QED BY <1>1 DEF Handler

\* A session is alive as long as something other than a wait refers to it.
LEMMA AliveMeans ==
  ASSUME TypeOK
  PROVE  Alive <=> \/ role = "acceptor" \/ starter # "done"
                   \/ readOp \/ writes > 0
                   \/ \E fn \in Functions \ {"onCloseReserveTime"} : InStrand(fn)
<1>1. \A i \in 1..Len(strand) : strand[i].fn \in Functions
  BY QueuedFunctions DEF TypeOK
<1>. QED BY <1>1 DEF Alive, InStrand, Has

\* A destroyed session stays destroyed: only cancelled waits are left of it.
LEMMA DeadStays ==
  ASSUME IInv, SingleDispatch, [Next]_vars, TypeOK', ~Alive
  PROVE  ~Alive'
<1>. USE DEF fixed, sock, ops, recv
<1>1. /\ role # "acceptor" /\ starter = "done" /\ ~readOp /\ writes = 0
      /\ \A fn \in Functions \ {"onCloseReserveTime"} : ~InStrand(fn)
  BY AliveMeans DEF IInv, TypeOK
<1>2. ASSUME UNCHANGED <<role, starter, readOp, writes>>,
             \A fn \in Functions \ {"onCloseReserveTime"} : ~InStrand(fn)'
      PROVE  ~Alive'
  <2>1. role' # "acceptor" /\ starter' = "done" /\ ~readOp' /\ ~(writes' > 0)
    BY <1>1, <1>2
  <2>2. Alive' <=> \/ role' = "acceptor" \/ starter' # "done"
                   \/ readOp' \/ writes' > 0
                   \/ \E fn \in Functions \ {"onCloseReserveTime"} : InStrand(fn)'
    <3>1. \A i \in 1..Len(strand') : strand'[i].fn \in Functions
      BY QueuedFunctions DEF TypeOK
    <3>. QED BY <3>1 DEF Alive, InStrand, Has
  <2>. QED BY <1>2, <2>1, <2>2
<1>3. CASE TimerAborted
  <2>1. \A fn : InStrand(fn)' <=> "onCloseReserveTime" = fn \/ InStrand(fn)
    BY <1>3, Completed DEF TimerAborted, Functions, Codes
  <2>. QED BY <1>1, <1>2, <1>3, <2>1 DEF TimerAborted
<1>4. CASE Destruct \/ WebsocketClosed \/ UNCHANGED vars
  BY <1>1, <1>2, <1>4 DEF Destruct, WebsocketClosed, vars, InStrand
<1>8. CASE dispatchLoops
  BY <1>1, <1>2, <1>8 DEF dispatchLoops, InStrand
<1>5. CASE Strand
  <2>1. strand # <<>> /\ (\E fn \in Functions : Running(fn))
    BY Zenon, <1>5 DEF Strand, Functions, Running, handleReadData, handleReadRetry,
           handleReadFail, dispatchDropped, dispatchHandled, dispatchRefused, dispatchStopped,
           handleWriteDone, handleWriteFail, onClosePosted, onCloseReserveTime
  <2>2. /\ \A fn : InStrand(fn) <=> Head(strand).fn = fn \/ Left(fn)
        /\ strand' = Tail(strand) => \A fn : InStrand(fn)' <=> Left(fn)
    BY <2>1, HandlerRuns
  <2>3. Head(strand).fn = "onCloseReserveTime"
    BY <1>1, <2>1, <2>2, SMTT(30) DEF Running
  <2>4. onCloseReserveTime
    BY Zenon, <1>5, <2>3 DEF Strand, Running, handleReadData, handleReadRetry, handleReadFail,
       dispatchDropped, dispatchHandled, dispatchRefused, dispatchStopped, handleWriteDone,
         handleWriteFail,
       onClosePosted
  <2>. QED BY <1>1, <1>2, <2>2, <2>4, SMTT(30) DEF onCloseReserveTime
<1>6. CASE Service \/ Send \/ CloseReserve
  BY <1>1, <1>6 DEF Service, StartRead, StartOpen, OnConnect, Send, CloseReserve
<1>7. CASE \/ \E ec \in {"success", "eof", "error"} : ReadComplete(ec)
           \/ \E ec \in {"success", "error"} : WriteComplete(ec)
           \/ TimerExpired
  BY <1>1, <1>7 DEF ReadComplete, WriteComplete, TimerExpired
<1>. QED BY <1>3, <1>4, <1>5, <1>6, <1>7, <1>8 DEF Next, Completion

\* Cancelling the wait moves it among the cancelled ones.
LEMMA CancelMoves ==
  ASSUME TypeOK, CancelTimer
  PROVE  timer' = FALSE /\ (aborting' > 0 <=> timer \/ aborting > 0)
BY DEF CancelTimer, TypeOK

\* Every step keeps CloseInv.
LEMMA StepClose ==
  ASSUME IInv, SingleDispatch, StartInv, CloseInv, [Next]_vars, TypeOK'
  PROVE  CloseInv'
<1>. USE DEF fixed, sock, ops, recv, Early, ReadChainOver
<1>t. /\ status \in Status /\ aborting \in Nat /\ timer \in BOOLEAN
      /\ Early => status = "CLOSED"
      /\ TypeOK
  BY DEF IInv, TypeOK, CloseOnce
<1>d. Alive' => Alive
  BY DeadStays
\* Nothing reserved or cancelled, and no close.
<1>1. ASSUME InStrand("onCloseReserveTime")' => InStrand("onCloseReserveTime"),
             Aborted(strand)' => Aborted(strand),
             UNCHANGED <<timer, aborting>>, seen \subseteq seen',
             \/ status' = "OPEN" /\ (Early \/ status = "OPEN")
             \/ status' = status /\ (Early \/ ~Early'),
             ~Early' /\ status' # "OPEN" => ~Early /\ (ReadChainOver => ReadChainOver')
      PROVE  CloseInv'
  <2>1. (timer \/ aborting > 0 \/ InStrand("onCloseReserveTime"))' => "reserved" \in seen'
    BY <1>1 DEF CloseInv
  <2>2. ~Early' /\ status' # "OPEN" => ReadChainOver' \/ seen' \cap {"writeFailed", "reserved"} # {}
    BY <1>1 DEF CloseInv
  <2>3. Alive' /\ (Early \/ status = "OPEN")' /\ (aborting > 0 \/ Aborted(strand))'
          => "reReserved" \in seen'
    BY <1>1, <1>d DEF CloseInv
  <2>. QED BY <2>1, <2>2, <2>3 DEF CloseInv
<1>2. CASE StartRead \/ StartOpen \/ OnConnect
  <2>1. InStrand("onCloseReserveTime")' <=> InStrand("onCloseReserveTime")
    BY <1>2 DEF StartRead, StartOpen, OnConnect, InStrand
  <2>2. Aborted(strand)' <=> Aborted(strand)
    BY <1>2 DEF StartRead, StartOpen, OnConnect
  <2>3. ReadChainOver /\ ~StartRead => ReadChainOver'
    BY <1>2 DEF StartOpen, OnConnect, InStrand, StartRead
  <2>. QED BY <1>1, <1>2, <2>1, <2>2, <2>3 DEF StartRead, StartOpen, OnConnect
<1>3. CASE \/ \E ec \in {"success", "eof", "error"} : ReadComplete(ec)
           \/ \E ec \in {"success", "error"} : WriteComplete(ec)
  <2>1. PICK f \in {"handleRead", "handleWrite"}, ec \in Codes \ {"aborted"} :
          strand' = Append(strand, Call(f, ec)) /\ (f = "handleRead" => readOp)
    BY <1>3 DEF ReadComplete, WriteComplete, Codes
  <2>2. /\ \A fn : InStrand(fn)' <=> f = fn \/ InStrand(fn)
        /\ Aborted(strand)' <=> Aborted(strand)
    BY <2>1, Completed DEF Functions
  <2>3. /\ UNCHANGED <<starter, status, timer, aborting, seen>>
        /\ readOp' => readOp
    BY <1>3 DEF ReadComplete, WriteComplete
  <2>. QED BY <1>1, <2>1, <2>2, <2>3
<1>4. CASE TimerExpired \/ TimerAborted
  <2>1. PICK ec \in {"success", "aborted"} : strand' = Append(strand, Call("onCloseReserveTime", ec))
                       /\ (ec = "aborted" => aborting > 0)
    BY <1>4 DEF TimerExpired, TimerAborted
  <2>2. /\ \A fn : InStrand(fn)' <=> "onCloseReserveTime" = fn \/ InStrand(fn)
        /\ Aborted(strand)' <=> ec = "aborted" \/ Aborted(strand)
    BY <2>1, Completed DEF Functions, Codes
  <2>3. UNCHANGED <<starter, status, readOp, seen>> /\ (aborting' > 0 => aborting > 0)
    BY <1>4, <1>t DEF TimerExpired, TimerAborted
  <2>4. "reserved" \in seen'
    BY <1>4, <2>3 DEF CloseInv, TimerExpired, TimerAborted
  <2>. QED BY <1>d, <2>1, <2>2, <2>3, <2>4 DEF CloseInv
<1>5. CASE Destruct
  <2>1. "reserved" \in seen'
    BY <1>5 DEF Destruct, CloseInv
  <2>2. ~Alive'
    BY <1>5, DeadStays DEF Destruct
  <2>. QED BY <1>5, <2>1, <2>2 DEF Destruct, CloseInv
\* A wait armed by closeReserve.
<1>6. ASSUME NEW n \in Nat \ {0}, NEW what, closeReserve(n, what),
             Aborted(strand)' => Aborted(strand), UNCHANGED <<starter, status>>
      PROVE  CloseInv'
  <2>1. "reserved" \in seen' /\ seen \subseteq seen'
    BY <1>6 DEF closeReserve
  <2>2. aborting' > 0 => aborting > 0 \/ "reReserved" \in seen'
    BY <1>6, <1>t DEF closeReserve
  <2>. QED BY <1>6, <1>d, <2>1, <2>2 DEF CloseInv
<1>7. CASE CloseReserve \/ dispatchLoops
  BY <1>6, <1>7 DEF CloseReserve, dispatchLoops
<1>8. CASE Send \/ WebsocketClosed \/ UNCHANGED vars
  <2>1. (\A fn : InStrand(fn)' <=> InStrand(fn)) /\ (Aborted(strand)' <=> Aborted(strand))
    BY <1>8 DEF Send, WebsocketClosed, vars, InStrand
  <2>. QED BY <1>1, <1>8, <2>1 DEF Send, WebsocketClosed, vars
<1>9. CASE Strand
  <2>0. strand # <<>>
    BY Zenon, <1>9 DEF Strand, Running, handleReadData, handleReadRetry, handleReadFail,
           dispatchDropped, dispatchHandled, dispatchRefused, dispatchStopped, handleWriteDone,
         handleWriteFail,
           onClosePosted, onCloseReserveTime
  <2>h. /\ \A fn : InStrand(fn) <=> Head(strand).fn = fn \/ Left(fn)
        /\ Head(strand).fn = "handleRead" =>
             ~readOp /\ ~Left("handleRead") /\ ~InStrand("dispatch")
        /\ Aborted(Tail(strand)) => Aborted(strand)
        /\ strand' = Tail(strand) =>
             (\A fn : InStrand(fn)' <=> Left(fn)) /\ (Aborted(strand)' <=> Aborted(Tail(strand)))
        /\ strand' = Append(Tail(strand), Head(strand)) =>
             (\A fn : InStrand(fn)' <=> InStrand(fn)) /\ (Aborted(strand)' <=> Aborted(strand))
        /\ \A f \in Functions : strand' = Append(Tail(strand), Call(f, "success")) =>
             /\ \A fn : InStrand(fn)' <=> f = fn \/ Left(fn)
             /\ Aborted(strand)' <=> Aborted(Tail(strand))
    BY <2>0, HandlerRuns
  <2>1. CASE handleReadData
    <3>1. /\ \A fn : InStrand(fn)' <=> "dispatch" = fn \/ Left(fn)
          /\ Aborted(strand)' <=> Aborted(Tail(strand))
      BY <2>h, <2>1 DEF handleReadData, Functions
    <3>2. ~ReadChainOver
      BY <2>h, <2>1 DEF handleReadData, Running
    <3>. QED BY Zenon, <1>1, <2>1, <2>h, <3>1, <3>2 DEF handleReadData
  <2>2. CASE handleReadRetry
    BY <1>1, <2>h, <2>2 DEF handleReadRetry
  <2>3. CASE handleReadFail \/ handleWriteFail
    <3>1. PICK what : tryCloseByFailed(what, Tail(strand))
      BY <2>3 DEF handleReadFail, handleWriteFail
    <3>2. UNCHANGED <<starter, readOp>> /\ seen \subseteq seen'
      BY <2>3 DEF handleReadFail, handleWriteFail
    <3>3. Head(strand).fn = "handleRead" \/ "writeFailed" \in seen'
      BY <2>3 DEF handleReadFail, handleWriteFail, Running
    <3>4. CASE status # "OPEN"
      BY <1>1, <2>h, <3>1, <3>2, <3>4 DEF tryCloseByFailed
    <3>5. CASE status = "OPEN"
      <4>1. /\ \A fn : InStrand(fn)' <=> "onClose" = fn \/ Left(fn)
            /\ status' = "PENDING_CLOSE" /\ ~Early'
        BY <1>t, <2>h, <3>1, <3>2, <3>5 DEF tryCloseByFailed, Functions
      <4>2. timer' \/ aborting' > 0 => "reserved" \in seen'
        BY <1>t, <3>1, <3>2, <3>5, CancelMoves DEF tryCloseByFailed, CloseInv
      <4>3. InStrand("onCloseReserveTime")' => "reserved" \in seen'
        BY <2>h, <3>2, <4>1 DEF CloseInv
      <4>4. ReadChainOver' \/ seen' \cap {"writeFailed", "reserved"} # {}
        BY <2>h, <3>2, <3>3, <4>1
      <4>. QED BY <4>1, <4>2, <4>3, <4>4 DEF CloseInv
    <3>. QED BY <3>4, <3>5
  <2>4. ASSUME strand' = Tail(strand), UNCHANGED <<starter, readOp>>, seen' = seen, onClose,
               \/ Head(strand).fn = "onClose"
               \/ Head(strand).fn = "onCloseReserveTime" /\ status = "OPEN"
        PROVE  CloseInv'
    <3>1. status' = "CLOSED" /\ ~Early' /\ \A fn : InStrand(fn)' <=> Left(fn)
      BY Zenon, <1>t, <2>4, <2>h DEF onClose, StartInv
    <3>2. timer' \/ aborting' > 0 => timer \/ aborting > 0
      BY Zenon, <1>t, <2>4, CancelMoves DEF onClose
    <3>3. (timer \/ aborting > 0 \/ InStrand("onCloseReserveTime"))' => "reserved" \in seen'
      BY Zenon, <2>4, <2>h, <3>1, <3>2 DEF CloseInv
    <3>4. ReadChainOver' \/ seen' \cap {"writeFailed", "reserved"} # {}
      BY Zenon, <2>4, <2>h, <3>1 DEF CloseInv, StartInv
    <3>. QED BY <3>1, <3>3, <3>4 DEF CloseInv
  <2>5. CASE onClosePosted
    BY <2>4, <2>5 DEF onClosePosted, Running
  <2>6. ASSUME strand' = Tail(strand), UNCHANGED <<starter, status, readOp, timer, aborting>>,
               seen \subseteq seen'
        PROVE  CloseInv'
    BY <1>1, <2>h, <2>6
  <2>7. CASE onCloseReserveTime
    BY <2>4, <2>6, <2>7 DEF onCloseReserveTime, Running
  <2>8. CASE dispatchDropped \/ dispatchHandled \/ dispatchStopped \/ handleWriteDone
    BY Zenon, <2>6, <2>8 DEF dispatchDropped, dispatchHandled, dispatchStopped, handleWriteDone
  <2>9. CASE dispatchRefused
    <3>1. PICK left \in 0..unparsed : \E n \in 1..(unparsed - left) :
            closeReserve(n, IF HasUser THEN {} ELSE {"lostUser"})
      BY <2>9 DEF dispatchRefused
    <3>2. PICK n \in 1..(unparsed - left) : closeReserve(n, IF HasUser THEN {} ELSE {"lostUser"})
      BY <3>1
    <3>3. n \in Nat \ {0}
      BY <3>2
    <3>. QED BY <1>6, <2>9, <2>h, <3>2, <3>3 DEF dispatchRefused
  <2>. QED BY <1>9, <2>1, <2>2, <2>3, <2>5, <2>7, <2>8, <2>9, SMTT(30) DEF Strand
<1>. QED BY <1>2, <1>3, <1>4, <1>5, <1>7, <1>8, <1>9 DEF Next, Service, Completion

\* No step forgets what has been seen, and only dispatchDropped drops.
LEMMA SeenGrows ==
  ASSUME [Next]_vars
  PROVE  /\ seen \subseteq seen'
         /\ dropped' = dropped \/ dispatchDropped
<1>. USE DEF fixed, sock, ops, recv
<1>1. CASE Service \/ Completion \/ dispatchLoops \/ Send \/ CloseReserve \/ UNCHANGED vars
  BY Zenon, <1>1 DEF Service, StartRead, StartOpen, OnConnect, Completion, ReadComplete,
         WriteComplete, TimerExpired, TimerAborted, WebsocketClosed, Destruct, dispatchLoops,
         Send, CloseReserve, closeReserve, vars
<1>2. CASE handleReadData \/ handleReadRetry \/ handleReadFail \/ handleWriteDone \/ handleWriteFail
  BY <1>2 DEF handleReadData, handleReadRetry, handleReadFail, handleWriteDone, handleWriteFail
<1>3. CASE dispatchDropped \/ dispatchHandled \/ dispatchStopped
  BY <1>3 DEF dispatchDropped, dispatchHandled, dispatchStopped
<1>4. CASE dispatchRefused
  BY <1>4 DEF dispatchRefused, closeReserve
<1>5. CASE onClosePosted \/ onCloseReserveTime
  BY <1>5 DEF onClosePosted, onCloseReserveTime
<1>. QED BY <1>1, <1>2, <1>3, <1>4, <1>5, SMTT(30) DEF Next, Strand

\* A step keeps PeerCloseLosesNothing: a dispatch still queued once the session
\* left OPEN was overtaken by a failed write or a reserved close.
LEMMA StepLoss ==
  ASSUME IInv, SingleDispatch, StartInv, CloseInv, PeerCloseLosesNothing, [Next]_vars
  PROVE  PeerCloseLosesNothing'
<1>1. CASE dropped' = dropped
  BY <1>1, SeenGrows DEF PeerCloseLosesNothing
<1>2. CASE dispatchDropped
  <2>1. InStrand("dispatch") /\ status # "OPEN"
    BY <1>2, HandlerRuns DEF dispatchDropped, Running
  <2>2. CASE starter = "reading"
    BY <1>2, <2>2 DEF dispatchDropped, PeerCloseLosesNothing
  <2>3. CASE starter # "reading"
    <3>1. ~Early
      BY <2>1, <2>3 DEF StartInv, Early
    <3>2. seen \cap {"writeFailed", "reserved"} # {}
      BY <2>1, <3>1 DEF CloseInv, ReadChainOver
    <3>. QED BY <3>2, SeenGrows DEF PeerCloseLosesNothing
  <2>. QED BY <2>2, <2>3
<1>. QED BY <1>1, <1>2, SeenGrows

\* The last dispatch left packets behind, without a close.
Stopped == stoppedAt = "size" \/ (stoppedAt = "code" /\ role = "connector")

\* A step keeps NoStrandedPacket: a dispatch takes every packet, arms a wait or
\* stops for one of the two reasons, and the wait, cancelled or not, closes the
\* session when it is handled.
LEMMA StepStranded ==
  ASSUME IInv, SingleDispatch, StartInv, NoStrandedPacket, [Next]_vars, TypeOK'
  PROVE  NoStrandedPacket'
<1>. SUFFICES ASSUME status' = "OPEN", unparsed' > 0, "droppedBeforeOpen" \notin seen', ~Stopped'
              PROVE  (InStrand("dispatch") \/ timer \/ aborting > 0
                        \/ InStrand("onCloseReserveTime"))'
  BY DEF NoStrandedPacket, Stopped
<1>. USE DEF fixed, sock, ops, recv
<1>t. /\ status \in Status /\ aborting \in Nat /\ timer \in BOOLEAN /\ unparsed \in Nat
      /\ Early => status = "CLOSED"
      /\ "droppedBeforeOpen" \notin seen
  BY SeenGrows DEF IInv, TypeOK, CloseOnce, Early
<1>1. ASSUME UNCHANGED <<unparsed, timer, aborting, stoppedAt, role>>, status = "OPEN" \/ Early,
             InStrand("dispatch") => InStrand("dispatch")',
             InStrand("onCloseReserveTime") => InStrand("onCloseReserveTime")'
      PROVE  (InStrand("dispatch") \/ timer \/ aborting > 0 \/ InStrand("onCloseReserveTime"))'
  <2>1. stoppedAt # "size" /\ ~(stoppedAt = "code" /\ role = "connector")
    BY <1>1 DEF Stopped
  <2>2. unparsed > 0
    BY Zenon, <1>1
  <2>3. InStrand("dispatch") \/ timer \/ aborting > 0 \/ InStrand("onCloseReserveTime")
    BY Zenon, <1>1, <1>t, <2>1, <2>2 DEF NoStrandedPacket, StartInv
  <2>. QED BY Zenon, <1>1, <2>3
<1>2. CASE Service \/ Send \/ WebsocketClosed \/ UNCHANGED vars
  <2>1. \A fn : InStrand(fn)' <=> InStrand(fn)
    BY Zenon, <1>2 DEF Service, StartRead, StartOpen, OnConnect, Send, WebsocketClosed, vars,
       InStrand
  <2>2. UNCHANGED <<unparsed, timer, aborting, stoppedAt, role>> /\ (status = "OPEN" \/ Early)
    BY Zenon, <1>2 DEF Service, StartRead, StartOpen, OnConnect, Send, WebsocketClosed, vars, Early
  <2>. QED BY <1>1, <2>1, <2>2
<1>3. CASE CloseReserve \/ dispatchRefused \/ dispatchLoops
  BY <1>3 DEF CloseReserve, dispatchRefused, dispatchLoops, closeReserve
<1>4. CASE \/ \E ec \in {"success", "eof", "error"} : ReadComplete(ec)
           \/ \E ec \in {"success", "error"} : WriteComplete(ec)
  <2>1. PICK f \in {"handleRead", "handleWrite"}, ec \in Codes : strand' = Append(strand, Call(f, ec))
    BY <1>4 DEF ReadComplete, WriteComplete, Codes
  <2>2. \A fn : InStrand(fn)' <=> f = fn \/ InStrand(fn)
    BY <2>1, Completed DEF Functions
  <2>3. UNCHANGED <<status, unparsed, timer, aborting, stoppedAt, role>>
    BY <1>4 DEF ReadComplete, WriteComplete
  <2>. QED BY <1>1, <2>2, <2>3
<1>5. CASE TimerExpired \/ TimerAborted
  <2>1. PICK ec \in Codes : strand' = Append(strand, Call("onCloseReserveTime", ec))
    BY <1>5 DEF TimerExpired, TimerAborted, Codes
  <2>. QED BY <2>1, Completed DEF Functions
<1>6. CASE Destruct
  BY <1>6, <1>t DEF Destruct
<1>7. CASE handleReadData \/ handleReadRetry
  <2>1. CASE handleReadData
    BY <2>1, HandlerRuns DEF handleReadData, Running, Functions
  <2>2. CASE handleReadRetry
    BY <1>1, <2>2, HandlerRuns DEF handleReadRetry, Running
  <2>. QED BY <1>7, <2>1, <2>2
<1>8. CASE handleReadFail \/ handleWriteFail \/ onClosePosted
  <2>1. status' # "OPEN"
    BY <1>8 DEF handleReadFail, handleWriteFail, tryCloseByFailed, onClosePosted, onClose
  <2>. QED BY <2>1
<1>9. CASE dispatchDropped \/ dispatchHandled \/ dispatchStopped
  <2>1. CASE dispatchDropped \/ dispatchHandled
    BY <2>1 DEF dispatchDropped, dispatchHandled
  <2>2. CASE dispatchStopped
    <3>1. stoppedAt' = "size" \/ (stoppedAt' = "code" /\ role' = "connector")
      BY <2>2 DEF dispatchStopped
    <3>. QED BY <3>1 DEF Stopped
  <2>. QED BY <1>9, <2>1, <2>2
<1>10. CASE handleWriteDone
  <2>1. \A fn : fn # "handleWrite" /\ InStrand(fn) => InStrand(fn)'
    BY <1>10, HandlerRuns DEF handleWriteDone, Running
  <2>. QED BY <1>1, <1>10, <2>1 DEF handleWriteDone
\* The wait of a destroyed session changes nothing; such a session is OPEN only
\* if its first read failed, and then every packet was dropped before OPEN.
<1>11. CASE onCloseReserveTime
  <2>1. status = "OPEN" /\ ~Alive /\ unparsed' = unparsed
    BY <1>11 DEF onCloseReserveTime, onClose
  <2>2. ~readOp /\ ~InStrand("handleRead")
    BY <2>1 DEF Alive, InStrand, Has
  <2>3. "readFailedBeforeOpen" \in seen
    BY <2>1, <2>2 DEF IInv, NoIdleSession
  <2>. QED BY <1>t, <2>1, <2>3 DEF StartInv
<1>. QED
  BY <1>2, <1>3, <1>4, <1>5, <1>6, <1>7, <1>8, <1>9, <1>10, <1>11 DEF Next, Completion, Strand

HInv == IInv /\ SingleDispatch /\ StartInv /\ CloseInv /\ PeerCloseLosesNothing /\ NoStrandedPacket

\* The history invariant holds in every state of every behaviour of a session.
LEMMA HistoryInvariance == Spec => []HInv
<1>1. Init => HInv
  <2>. SUFFICES ASSUME Init PROVE HInv
    OBVIOUS
  <2>1. strand = <<>> /\ Len(strand) = 0
    BY DEF Init
  <2>2. (\A fn : ~InStrand(fn)) /\ ~Aborted(strand) /\ SingleDispatch
    BY <2>1 DEF InStrand, Has, Aborted, SingleDispatch, AtMostOne, DispatchBeforeRead
  <2>3. StartInv /\ CloseInv
    BY <2>2 DEF Init, StartInv, CloseInv, Early, ReadChainOver
  <2>4. PeerCloseLosesNothing /\ NoStrandedPacket
    BY DEF Init, PeerCloseLosesNothing, NoStrandedPacket
  <2>. QED BY <2>2, <2>3, <2>4, InitInv DEF HInv
<1>2. HInv /\ [Next]_vars => HInv'
  <2>. SUFFICES ASSUME HInv, [Next]_vars PROVE HInv'
    OBVIOUS
  <2>1. IInv' /\ TypeOK' /\ SingleDispatch'
    BY StepInv, StepDispatch DEF HInv, IInv
  <2>. QED BY <2>1, StepStart, StepClose, StepLoss, StepStranded DEF HInv
<1>. QED BY <1>1, <1>2, PTL DEF Spec

\* No packet of an OPEN session is left without a dispatch or a close to come,
\* unless its dispatch ran before OPEN was set, or stopped at a size that is not
\* accepted or, on the client side, at an unknown code.
THEOREM NoStrandedPacketHolds == Spec => []NoStrandedPacket
BY HistoryInvariance, PTL DEF HInv

\* What the peer sent before it disconnected is dispatched: after OPEN only a
\* failed write or a reserved close makes a dispatch return early.
THEOREM PeerCloseLosesNothingHolds == Spec => []PeerCloseLosesNothing
BY HistoryInvariance, PTL DEF HInv

\* A cancelled wait closes an OPEN session only if a second closeReserve
\* replaced it.
THEOREM AbortedWaitHolds == Spec => []AbortedWaitClosesOnlyIfReplaced
<1>1. HInv => AbortedWaitClosesOnlyIfReplaced
  BY DEF HInv, CloseInv, AbortedWaitClosesOnlyIfReplaced, Aborted
<1>. QED BY <1>1, HistoryInvariance, PTL
=============================================================================
