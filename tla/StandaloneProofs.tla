--------------------------- MODULE StandaloneProofs ---------------------------
(***************************************************************************)
(* What is proved of the parts that are used on their own, brought to      *)
(* MCStandalone, where they are together: HttpProofs, TimerProofs and      *)
(* PartsProofs have the invariants.                                        *)
(*                                                                         *)
(* The argument is the same for each part. A proof module is about an      *)
(* instance of the part that has the same definitions as MCStandalone's:   *)
(* the steps that say so expand both. A behaviour of the parts begins like *)
(* one of the part, and each of its steps is a step of the part or changes *)
(* none of its variables, so that it is a behaviour of the part (the       *)
(* lemmas ...Part), and the part's theorem holds of it.                    *)
(***************************************************************************)
EXTENDS MCStandalone, TLAPS

HP == INSTANCE HttpProofs
TP == INSTANCE TimerProofs
PP == INSTANCE PartsProofs

-----------------------------------------------------------------------------
\* A behaviour of the parts is one of a connection of an HTTP server.
LEMMA HttpPart == PartsSpec => HP!Spec
<1>1. PartsInit => HP!Init
  BY ZenonT(30) DEF PartsInit, HP!Init, Http!Init
<1>2. HP!Next <=> Http!Next
  BY ZenonT(30) DEF HP!IllegalTargets, HP!path_cat, HP!path_catCoro, HP!httpServerAnswer,
         HP!httpServerCoroAnswer, HP!answer, HP!Message, HP!ghosts, HP!ClientVars,
         HP!ServerVars, HP!ClientSends, HP!ClientCloses, HP!ClientGoes, HP!Timeout,
         HP!Request, HP!do_read, HP!run, HP!on_read, HP!on_read_end, HP!ReadFails,
         HP!on_read_failed, HP!SendFuncAsync, HP!SendFuncSync, HP!send_lambda, HP!send,
         HP!Response, HP!ResponseCoro, HP!Answered, HP!handle_request,
         HP!handle_requestCoro, HP!Runs, HP!sendBody, HP!sendError, HP!sendMessage,
         HP!HandlerReturns, HP!catch, HP!HandlerThrowsStd, HP!HandlerThrows, HP!WriteEnds,
         HP!AfterRequest, HP!do_session, HP!do_sessionCoro, HP!on_write, HP!on_write_failed,
         HP!Destroyed, HP!Client, HP!Reading, HP!Answers, HP!Handling, HP!Writing, HP!Next,
         Http!IllegalTargets, Http!path_cat, Http!path_catCoro, Http!httpServerAnswer,
         Http!httpServerCoroAnswer, Http!answer, Http!Message, Http!ghosts, Http!ClientVars,
         Http!ServerVars, Http!ClientSends, Http!ClientCloses, Http!ClientGoes,
         Http!Timeout, Http!Request, Http!do_read, Http!run, Http!on_read, Http!on_read_end,
         Http!ReadFails, Http!on_read_failed, Http!SendFuncAsync, Http!SendFuncSync,
         Http!send_lambda, Http!send, Http!Response, Http!ResponseCoro, Http!Answered,
         Http!handle_request, Http!handle_requestCoro, Http!Runs, Http!sendBody,
         Http!sendError, Http!sendMessage, Http!HandlerReturns, Http!catch,
         Http!HandlerThrowsStd, Http!HandlerThrows, Http!WriteEnds, Http!AfterRequest,
         Http!do_session, Http!do_sessionCoro, Http!on_write, Http!on_write_failed,
         Http!Destroyed, Http!Client, Http!Reading, Http!Answers, Http!Handling,
         Http!Writing, Http!Next
<1>3. [PartsNext]_partsVars => [HP!Next]_(HP!vars)
  BY ZenonT(30), <1>2 DEF PartsNext, partsVars, sessionVars, HP!vars
<1> QED
  BY <1>1, <1>3, PTL DEF PartsSpec, HP!Spec

\* However a handler and the writes of a connection interleave, a message that is
\* being written is freed only when the handler sends twice or throws after sending
\* (SendFuncAsync::operator() replacing res_).
THEOREM AliveUnlessSentTwiceOfParts == PartsSpec => []AliveUnlessSentTwice
<1>1. HP!AliveUnlessSentTwice => AliveUnlessSentTwice
  BY ZenonT(30) DEF AliveUnlessSentTwice, HP!MessageAlive, HP!AliveUnlessSentTwice,
         Http!MessageAlive, Http!AliveUnlessSentTwice
<1> QED
  BY <1>1, HP!AliveUnlessSentTwiceHolds, HttpPart, PTL

\* Responses stay in step with the requests of a connection for as long as every
\* handler sends exactly one (the loop of do_session, on_write of session).
THEOREM AnswersMatchOfParts == PartsSpec => []AnswersMatch
<1>1. HP!AnswersMatch => AnswersMatch
  BY ZenonT(30) DEF AnswersMatch, HP!AnswersMatch, Http!AnswersMatch
<1> QED
  BY <1>1, HP!AnswersMatchHolds, HttpPart, PTL

\* A handler's std::exception is answered with a server error before the connection
\* goes on or ends, if the response can be written (the catch of on_read and
\* do_session).
THEOREM ExceptionsAnsweredOfParts == PartsSpec => []ExceptionsAnswered
<1>1. HP!ExceptionsAnswered => ExceptionsAnswered
  BY ZenonT(30) DEF ExceptionsAnswered, HP!ExceptionsAnswered, Http!ExceptionsAnswered
<1> QED
  BY <1>1, HP!ExceptionsAnsweredHolds, HttpPart, PTL

-----------------------------------------------------------------------------
\* It is one of the accepting side of an HTTP server.
LEMMA ListenerPart == PartsSpec => HP!Listener!Spec
<1>1. PartsInit => HP!Listener!Init
  BY ZenonT(30) DEF PartsInit, HP!Listener!Empty, HP!Listener!Init, Listener!Empty,
         Listener!Init
<1>2. HP!Listener!Next <=> Listener!Next
  BY ZenonT(30) DEF HP!Listener!listenVars, HP!Listener!threadVars, HP!Listener!tableVars,
         HP!Listener!Empty, HP!Listener!Emplace, HP!Listener!registerURL,
         HP!Listener!registHandler, HP!Listener!Emplaced, HP!Listener!Detach,
         HP!Listener!startSync, HP!Listener!startAsync, HP!Listener!startAsyncCoro,
         HP!Listener!Reads, HP!Listener!Tables, HP!Listener!AcceptSyncOpen, HP!Listener!AcceptSync,
         HP!Listener!AcceptSyncThrows, HP!Listener!do_accept, HP!Listener!AcceptAsync,
         HP!Listener!on_accept, HP!Listener!on_accept_failed, HP!Listener!acceptAsync,
         HP!Listener!do_listenOpen, HP!Listener!do_listen, HP!Listener!Stop,
         HP!Listener!WorkerEnds, HP!Listener!AcceptAsyncReturns,
         HP!Listener!acceptAsyncJoins, HP!Listener!acceptAsyncReturns, HP!Listener!Connect,
         HP!Listener!AcceptCompletes, HP!Listener!AcceptFails, HP!Listener!find,
         HP!Listener!SessionEnds, HP!Listener!App, HP!Listener!Open, HP!Listener!Accepted,
         HP!Listener!Ending, HP!Listener!ClientSteps, HP!Listener!Next, Listener!listenVars,
         Listener!threadVars, Listener!tableVars, Listener!Empty, Listener!Emplace,
         Listener!registerURL, Listener!registHandler, Listener!Emplaced, Listener!Detach,
         Listener!startSync, Listener!startAsync, Listener!startAsyncCoro, Listener!Reads,
         Listener!Tables,
         Listener!AcceptSyncOpen, Listener!AcceptSync, Listener!AcceptSyncThrows,
         Listener!do_accept, Listener!AcceptAsync, Listener!on_accept,
         Listener!on_accept_failed, Listener!acceptAsync, Listener!do_listenOpen,
         Listener!do_listen, Listener!Stop, Listener!WorkerEnds,
         Listener!AcceptAsyncReturns, Listener!acceptAsyncJoins,
         Listener!acceptAsyncReturns, Listener!Connect, Listener!AcceptCompletes,
         Listener!AcceptFails, Listener!find, Listener!SessionEnds, Listener!App,
         Listener!Open, Listener!Accepted, Listener!Ending, Listener!ClientSteps,
         Listener!Next
<1>3. [PartsNext]_partsVars => [HP!Listener!Next]_(HP!Listener!vars)
  BY ZenonT(30), <1>2 DEF PartsNext, partsVars, listenerVars, HP!Listener!listenVars,
         HP!Listener!threadVars, HP!Listener!tableVars, HP!Listener!vars
<1> QED
  BY <1>1, <1>3, PTL DEF PartsSpec, HP!Listener!Spec

\* However many accepts fail, a server whose threads run and that does not stop has
\* one accept pending, or one that has completed and is to be handled (do_accept, which
\* on_accept calls in every case).
THEOREM OneAcceptGoesOnOfParts == PartsSpec => []OneAcceptGoesOn
<1>1. HP!Listener!Spec => []HP!Listener!OneAcceptGoesOn
  BY ConstantsAssumption, HP!OneAcceptAlwaysGoesOn, SMTT(30)
<1>2. HP!Listener!OneAcceptGoesOn => OneAcceptGoesOn
  BY ZenonT(30) DEF OneAcceptGoesOn, HP!Listener!OneAcceptGoesOn, Listener!OneAcceptGoesOn
<1> QED
  BY <1>1, <1>2, ListenerPart, PTL

-----------------------------------------------------------------------------
\* It is one of a connector.
LEMMA ConnPart == PartsSpec => TP!Spec
<1>1. PartsInit => TP!Init
  BY ZenonT(30) DEF PartsInit, TP!netInit, TP!Calls, TP!Init, Conn!netInit, Conn!Calls,
         Conn!Init
<1>2. TP!Next <=> Conn!Next
  BY ZenonT(30) DEF TP!netVars, TP!Call, TP!Running, TP!Arg, TP!Update, TP!Times,
         TP!expires_from_now, TP!expireTimerCancel, TP!expireTimerWait, TP!UpdaterExpires,
         TP!handleUpdateAborted, TP!handleUpdate, TP!handleUpdateWait, TP!connectVars, TP!setTargetServer,
         TP!EndPointSet, TP!EndPointFails, TP!AppNext, TP!NewCall, TP!Connecting,
         TP!FirstRemain, TP!connectAsync, TP!connectAsyncFails, TP!connectSync,
         TP!connectSyncFails, TP!connectExpire, TP!connectExpireWait, TP!ConnectEnds,
         TP!handleConnectAsyncFailed, TP!Connected, TP!NextConnect, TP!handleConnectAsync,
         TP!handleConnectAsyncEnds, TP!handleConnectAsyncThrows, TP!Application,
         TP!Completions, TP!Strand, TP!Next, Conn!netVars, Conn!Call, Conn!Running,
         Conn!Arg, Conn!Update, Conn!Times, Conn!expires_from_now, Conn!expireTimerCancel,
         Conn!expireTimerWait, Conn!UpdaterExpires, Conn!handleUpdateAborted,
         Conn!handleUpdate, Conn!handleUpdateWait, Conn!connectVars, Conn!setTargetServer, Conn!EndPointSet,
         Conn!EndPointFails, Conn!AppNext, Conn!NewCall, Conn!Connecting, Conn!FirstRemain,
         Conn!connectAsync, Conn!connectAsyncFails, Conn!connectSync, Conn!connectSyncFails,
         Conn!connectExpire, Conn!connectExpireWait, Conn!ConnectEnds,
         Conn!handleConnectAsyncFailed, Conn!Connected, Conn!NextConnect,
         Conn!handleConnectAsync, Conn!handleConnectAsyncEnds,
         Conn!handleConnectAsyncThrows, Conn!Application, Conn!Completions, Conn!Strand,
         Conn!Next
<1>3. [PartsNext]_partsVars => [TP!Next]_<<_updateTimeMs, TP!vars>>
  BY ZenonT(30), <1>2 DEF PartsNext, partsVars, connectorVars, TP!netVars, TP!connectVars,
         TP!vars
<1> QED
  BY <1>1, <1>3, PTL DEF PartsSpec, TP!Spec

\* The connects of a call of connectWait come one at a time and add up to what was
\* asked for (connectAsync and handleConnectAsync).
THEOREM ConnectsAddUpOfParts == PartsSpec => []ConnectsAddUp
<1>1. TP!Spec => []TP!ConnectsAddUp
  BY ConstantsAssumption, TP!ConnectsAlwaysAddUp, SMTT(30)
<1>2. TP!ConnectsAddUp => ConnectsAddUp
  BY ZenonT(30) DEF ConnectsAddUp, TP!Calls, TP!UnderWay, TP!ConnectsAddUp, Conn!Calls,
         Conn!UnderWay, Conn!ConnectsAddUp
<1> QED
  BY <1>1, <1>2, ConnPart, PTL

\* However connectWait races the handlers of earlier calls, an armed update timer has
\* a wait to come, or one expired for handleUpdate, unless a call is between its
\* expires_from_now and its async_wait (expireTimerReady and handleUpdate).
THEOREM UpdatesGoOnOfParts == PartsSpec => []UpdatesGoOn
<1>1. TP!Spec => []TP!UpdatesGoOn
  BY ConstantsAssumption, TP!UpdatesAlwaysGoOn, SMTT(30)
<1>2. TP!UpdatesGoOn => UpdatesGoOn
  BY ZenonT(30) DEF UpdatesGoOn, TP!UpdatesGoOn, TP!Update, TP!Call, Conn!UpdatesGoOn,
         Conn!Update, Conn!Call
<1> QED
  BY <1>1, <1>2, ConnPart, PTL

-----------------------------------------------------------------------------
\* It is one of a scheduler.
LEMMA SchedulerPart == PartsSpec => TP!Scheduler!Spec
<1>1. PartsInit => TP!Scheduler!Init
  BY ZenonT(30) DEF PartsInit, TP!Scheduler!Entries, TP!Scheduler!Empty, TP!Scheduler!Init,
         Scheduler!Entries, Scheduler!Empty, Scheduler!Init
<1>2. TP!Scheduler!Next <=> Scheduler!Next
  BY ZenonT(30) DEF TP!Scheduler!Entries, TP!Scheduler!timer, TP!Scheduler!jobs,
         TP!Scheduler!owners, TP!Scheduler!Empty, TP!Scheduler!Job, TP!Scheduler!GetStrand,
         TP!Scheduler!CancelWaits, TP!Scheduler!Called, TP!Scheduler!TimerStart,
         TP!Scheduler!TimerStop, TP!Scheduler!ReserveExpire, TP!Scheduler!ReserveWait,
         TP!Scheduler!AddJobCount, TP!Scheduler!AddJobFill, TP!Scheduler!AddJobInterval,
         TP!Scheduler!HandlerDue, TP!Scheduler!Release, TP!Scheduler!ReleaseStrand,
         TP!Scheduler!TimerExpires, TP!Scheduler!Destroyed, TP!Scheduler!Tick,
         TP!Scheduler!Counted, TP!Scheduler!Usable, TP!Scheduler!BeginHandler, TP!Scheduler!Ticking,
         TP!Scheduler!UpdateHandlerTicks, TP!Scheduler!UpdateHandlerEnds,
         TP!Scheduler!UpdateHandlerNull, TP!Scheduler!UpdateHandlerDestroyed,
         TP!Scheduler!HandlerExpire, TP!Scheduler!HandlerNoStrand, TP!Scheduler!HandlerWait,
         TP!Scheduler!Application, TP!Scheduler!Reserve, TP!Scheduler!Worker,
         TP!Scheduler!Next, Scheduler!Entries, Scheduler!timer, Scheduler!jobs,
         Scheduler!owners, Scheduler!Empty, Scheduler!Job, Scheduler!GetStrand,
         Scheduler!CancelWaits, Scheduler!Called, Scheduler!TimerStart, Scheduler!TimerStop,
         Scheduler!ReserveExpire, Scheduler!ReserveWait, Scheduler!AddJobCount,
         Scheduler!AddJobFill, Scheduler!AddJobInterval, Scheduler!HandlerDue,
         Scheduler!Release, Scheduler!ReleaseStrand, Scheduler!TimerExpires,
         Scheduler!Destroyed, Scheduler!Tick, Scheduler!Counted, Scheduler!Usable, Scheduler!BeginHandler,
         Scheduler!Ticking, Scheduler!UpdateHandlerTicks, Scheduler!UpdateHandlerEnds,
         Scheduler!UpdateHandlerNull, Scheduler!UpdateHandlerDestroyed,
         Scheduler!HandlerExpire, Scheduler!HandlerNoStrand, Scheduler!HandlerWait,
         Scheduler!Application, Scheduler!Reserve, Scheduler!Worker, Scheduler!Next
<1>3. [PartsNext]_partsVars => [TP!Scheduler!Next]_(TP!Scheduler!vars)
  BY ZenonT(30), <1>2 DEF PartsNext, partsVars, schedulerVars, TP!Scheduler!timer,
         TP!Scheduler!jobs, TP!Scheduler!owners, TP!Scheduler!vars
<1> QED
  BY <1>1, <1>3, PTL DEF PartsSpec, TP!Scheduler!Spec

\* A scheduler that is processing always has something that leads to its next tick,
\* however TimerStart and TimerStop race UpdateHandler.
THEOREM TicksGoOnOfParts == PartsSpec => []TicksGoOn
<1>1. TP!Scheduler!Spec => []TP!Scheduler!TicksGoOn
  BY ConstantsAssumption, TP!TicksAlwaysGoOn, SMTT(30)
<1>2. TP!Scheduler!TicksGoOn => TicksGoOn
  BY ZenonT(30) DEF TicksGoOn, TP!Scheduler!HandlerDue, TP!Scheduler!Destroyed,
         TP!Scheduler!TicksGoOn, Scheduler!HandlerDue, Scheduler!Destroyed,
         Scheduler!TicksGoOn
<1> QED
  BY <1>1, <1>2, SchedulerPart, PTL

-----------------------------------------------------------------------------
\* It is one of the sending side of a session.
LEMMA SendingPart == PartsSpec => PP!Sending!Spec
<1>1. PartsInit => PP!Sending!Init
  BY ZenonT(30) DEF PartsInit, PP!Sending!Init, Sending!Init
<1>2. PP!Sending!Next <=> Sending!Next
  BY ZenonT(30) DEF PP!Sending!In, PP!Sending!async_write, PP!Sending!websocket_async_write,
         PP!Sending!Write, PP!Sending!send, PP!Sending!sendFixedBuffer, PP!Sending!sendRaw,
         PP!Sending!write_some, PP!Sending!SocketBreaks, PP!Sending!Ended,
         PP!Sending!handleWrite, PP!Sending!handleWriteFailed, PP!Sending!Next, Sending!In,
         Sending!async_write, Sending!websocket_async_write, Sending!Write, Sending!send,
         Sending!sendFixedBuffer, Sending!sendRaw, Sending!write_some, Sending!SocketBreaks,
         Sending!Ended, Sending!handleWrite, Sending!handleWriteFailed, Sending!Next
<1>3. [PartsNext]_partsVars => [PP!Sending!Next]_(PP!Sending!vars)
  BY ZenonT(30), <1>2 DEF PartsNext, partsVars, sendVars, PP!Sending!vars
<1> QED
  BY <1>1, <1>3, PTL DEF PartsSpec, PP!Sending!Spec

\* Only packets of a TCP session that were sent before another was written are mixed
\* in what the peer receives (ISession's send, without a queue).
THEOREM TornOnlyIfOverlappedOfParts == PartsSpec => []TornOnlyIfOverlapped
<1>1. PP!Sending!Spec => []PP!Sending!TornOnlyIfOverlapped
  BY ZenonT(30), ByteAssumption, PP!OnlyOverlapsTear
<1>2. PP!Sending!TornOnlyIfOverlapped => TornOnlyIfOverlapped
  BY ZenonT(30) DEF TornOnlyIfOverlapped, PP!Sending!Places, PP!Sending!Torn,
         PP!Sending!TornOnlyIfOverlapped, Sending!Places, Sending!Torn,
         Sending!TornOnlyIfOverlapped
<1> QED
  BY <1>1, <1>2, SendingPart, PTL
===============================================================================
