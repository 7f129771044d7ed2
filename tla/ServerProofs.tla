---------------------------- MODULE ServerProofs ----------------------------
(* Proofs about Server, for every set of requests, and about Hook while    *)
(* the process shuts down.                                                 *)
EXTENDS Server, MetricsProofs

-----------------------------------------------------------------------------
(* The inductive invariant.                                                *)

MainOK ==
  /\ main \in MainStates
  /\ serve \in {"none", "accepting", "failed", "closed"}
  /\ serve = "accepting" => main \in {"listening", "serving", "killed"}
  /\ local \in BOOLEAN
  /\ late \in BOOLEAN
  /\ cut \subseteq Requests

\* Before the deadline has passed, no handler runs once the drain has ended,
\* and so none is there to be cut off, unless by an early signal.
Drains ==
  /\ main = "start" => Active = {}
  /\ ~late /\ main \in {"cleanup", "stop", "stopping", "exited"} => Active = {}
  /\ ~late /\ main # "killed" => cut = {}
  /\ late => main \notin {"start", "listening", "serving", "drain", "killed"}

\* The pool is closed when main has come to that, results speak of closing
\* only from then on, and answers only once the deadline has passed.
ClosesLast ==
  /\ closed => main \in {"stopping", "exited"}
  /\ ~closed => \A r \in Requests : result[r] \notin C!ClosingErrors
  /\ ~late => \A r \in Requests : answer[r] \notin C!ClosingErrors

ServerInv == MetricsInv /\ MainOK /\ Drains /\ ClosesLast

-----------------------------------------------------------------------------
(* The hook's invariant through the life of the process.                   *)

\* main does its part while the handlers stand still.
HandlersStand ==
  /\ TypeOK' /\ CompressorOK'
  /\ \A q \in Requests : StandsStill(q)
  /\ metrics' = metrics /\ tries' = tries /\ scrape' = scrape

\* Connections end under their handlers.
LEMMA CleanupStands ==
  ASSUME HookInv, Cleanup
  PROVE  HandlersStand
<1>1. UNCHANGED <<pc, input, enc, s, reply, tries, clientVars, metrics, scrape, compVars>>
  BY DEF Cleanup
<1>2. gone' \in [Requests -> BOOLEAN] /\ \A q \in Requests : gone[q] => gone'[q]
  BY DEF Cleanup, HookInv, TypeOK
<1>3. CompressorOK' /\ \A q \in Requests : Served(q)
  BY <1>1, CompressorIdle DEF HookInv
<1>4. TypeOK'
  BY <1>1, <1>2 DEF HookInv, TypeOK, clientVars
<1>5. \A q \in Requests : StandsStill(q)
  BY <1>1, <1>2, <1>3 DEF StandsStill, clientVars
<1> QED
  BY <1>1, <1>3, <1>4, <1>5 DEF HandlersStand

\* The pool is closed under its callers.
LEMMA CloseStands ==
  ASSUME HookInv, PoolShutdown
  PROVE  HandlersStand
<1>1. /\ UNCHANGED <<handlerVars, clientVars, metrics, scrape, caller, answer, job, result>>
      /\ closed' = TRUE
  BY DEF PoolShutdown, C!Close
<1>2. CompressorOK' /\ \A q \in Requests : Served(q)
  BY <1>1 DEF HookInv, CompressorOK, Served
<1>3. TypeOK'
  BY <1>1 DEF HookInv, TypeOK, handlerVars, clientVars
<1>4. \A q \in Requests : StandsStill(q)
  BY <1>1, <1>2 DEF StandsStill, handlerVars, clientVars
<1> QED
  BY <1>1, <1>2, <1>3, <1>4 DEF HandlersStand, handlerVars

\* A step that leaves the hook alone.
LEMMA IdleStands ==
  ASSUME HookInv, UNCHANGED vars
  PROVE  HandlersStand
<1>1. CompressorOK' /\ \A q \in Requests : Served(q)
  BY CompressorIdle DEF HookInv, vars
<1>2. TypeOK'
  BY DEF HookInv, TypeOK, vars, handlerVars, clientVars
<1>3. \A q \in Requests : StandsStill(q)
  BY <1>1 DEF StandsStill, vars, handlerVars, clientVars
<1> QED
  BY <1>1, <1>2, <1>3 DEF HandlersStand, vars, handlerVars

\* The steps in which main alone moves.
MainSteps ==
  \/ Listen \/ ListenFails \/ Notify \/ EarlySignal \/ ServeFails \/ Signal
  \/ Drained \/ DeadlinePasses \/ Exit

\* Every step of ServerNext keeps the hook's invariant.
LEMMA MetricsInvServer ==
  ASSUME MetricsInv, [ServerNext]_serverVars
  PROVE  MetricsInv'
<1>1. HookInv /\ ScrapeIsOneMoment
  BY DEF MetricsInv
<1>2. ASSUME HandlersStand PROVE MetricsInv'
  <2>1. HookInv' /\ ScrapeIsOneMoment'
    BY <1>1, <1>2, StillKeeps DEF HandlersStand, ScrapeIsOneMoment
  <2> QED
    BY <1>2, <2>1, StillBalances DEF HandlersStand
<1>3. CASE MainSteps \/ UNCHANGED serverVars
  <2>1. UNCHANGED vars
    BY <1>3 DEF MainSteps, Listen, ListenFails, Notify, EarlySignal, ServeFails, Signal, Drained, DeadlinePasses, Exit,
       serverVars
  <2> QED
    BY <1>1, <1>2, <2>1, IdleStands
<1>4. CASE \E r \in Requests : Arrive(r) \/ Retry(r)
  BY <1>4, HandlerCounts
<1>5. CASE Serving
  BY <1>5, HandlerCounts, ServingCounts DEF Serving
<1>6. CASE Cleanup \/ PoolShutdown
  BY <1>1, <1>2, <1>6, CleanupStands, CloseStands
<1> QED
  BY <1>3, <1>4, <1>5, <1>6 DEF ServerNext, MainSteps

-----------------------------------------------------------------------------
(* The order of the shutdown.                                              *)

\* A handler that takes a step is active.
LEMMA StepsAreActive ==
  ASSUME NEW r \in Requests, HandlerNext(r) \/ HangUp(r)
  PROVE  r \in Active
BY DEF HandlerNext, RejectMethod, ReadFails, RejectEncoding, DecodeFails, Passthrough, Decoded,
   Posted, CallCompress, CompressFails, CompressReturns, writeHookResponse, Record, Return, HangUp,
   Active

\* A call that waits for the compressor belongs to an active handler.
LEMMA WaitersAreActive ==
  ASSUME HookInv, NEW r \in Requests, caller[r] = "waiting"
  PROVE  r \in Active
BY DEF HookInv, HandlerOK, InPlace, Active

\* Where main is.
LEMMA MainStep ==
  ASSUME ServerInv, [ServerNext]_serverVars
  PROVE  MainOK'
<1> USE DEF ServerInv, MainOK, MainStates
<1>1. Active \subseteq Requests
  BY DEF Active
<1>2. CASE MainSteps
  BY <1>1, <1>2 DEF MainSteps, Listen, ListenFails, Notify, EarlySignal, ServeFails, Signal, Drained, DeadlinePasses, Exit
<1>3. CASE Cleanup
  BY <1>1, <1>3 DEF Cleanup
<1>4. CASE PoolShutdown
  BY <1>4 DEF PoolShutdown
<1>5. CASE UNCHANGED mainVars
  BY <1>5 DEF mainVars
<1> QED
  BY <1>2, <1>3, <1>4, <1>5 DEF ServerNext, MainSteps, serverVars

\* The handlers drain.
LEMMA DrainsStep ==
  ASSUME ServerInv, [ServerNext]_serverVars
  PROVE  Drains'
<1> USE DEF ServerInv, Drains
<1>1. CASE pc' = pc
  <2>1. Active' = Active
    BY <1>1 DEF Active
  <2>2. CASE MainSteps
    BY <2>1, <2>2 DEF MainSteps, MainOK, Listen, ListenFails, Notify, EarlySignal, ServeFails, Signal, Drained,
       DeadlinePasses, Exit
  <2>3. CASE Cleanup
    BY <2>1, <2>3 DEF Cleanup, MainOK
  <2>4. CASE PoolShutdown
    BY <2>1, <2>4 DEF PoolShutdown, MainOK
  <2>5. CASE UNCHANGED mainVars
    BY <2>1, <2>5 DEF mainVars
  <2> QED
    BY <2>2, <2>3, <2>4, <2>5 DEF ServerNext, MainSteps, serverVars
<1>2. CASE Accepts /\ UNCHANGED mainVars
  BY <1>2 DEF Accepts, mainVars
<1>3. CASE main \in {"listening", "serving"} /\ UNCHANGED mainVars
  BY <1>3 DEF mainVars
<1>4. CASE main # "start" /\ ~Over /\ Serving /\ UNCHANGED mainVars /\ pc' # pc
  <2>1. PICK r \in Requests : HandlerNext(r) \/ HangUp(r)
    BY <1>4 DEF Serving, Compressing, handlerVars
  <2>2. Active # {}
    BY <2>1, StepsAreActive
  <2> QED
    BY <1>4, <2>2 DEF mainVars
<1>5. CASE MainSteps \/ Cleanup \/ PoolShutdown \/ UNCHANGED serverVars
  <2>1. pc' = pc
    BY <1>5 DEF MainSteps, Listen, ListenFails, Notify, EarlySignal, ServeFails, Signal, Drained, DeadlinePasses, Exit,
       Cleanup, PoolShutdown, serverVars, vars, handlerVars
  <2> QED
    BY <1>1, <2>1
<1> QED
  BY <1>1, <1>2, <1>3, <1>4, <1>5 DEF ServerNext, MainSteps

\* The pool closes after them.
LEMMA ClosesLastStep ==
  ASSUME ServerInv, [ServerNext]_serverVars
  PROVE  ClosesLast'
<1> USE DEF ServerInv, ClosesLast, C!ClosingErrors
<1>1. CASE MainSteps \/ UNCHANGED serverVars
  <2>1. closed' = closed /\ result' = result /\ answer' = answer
    BY <1>1 DEF MainSteps, Listen, ListenFails, Notify, EarlySignal, ServeFails, Signal, Drained, DeadlinePasses, Exit,
       serverVars, vars, compVars
  <2>2. (main \in {"stopping", "exited"} => main' \in {"stopping", "exited"}) /\ (late => late')
    BY <1>1 DEF MainSteps, Listen, ListenFails, Notify, EarlySignal, ServeFails, Signal, Drained, DeadlinePasses, Exit,
       serverVars, mainVars
  <2> QED
    BY <2>1, <2>2
<1>2. CASE Cleanup
  BY <1>2 DEF Cleanup, compVars
<1>3. CASE PoolShutdown
  BY <1>3 DEF PoolShutdown, C!Close
<1>4. CASE UNCHANGED mainVars /\ UNCHANGED compVars
  BY <1>4 DEF mainVars, compVars
<1>5. ASSUME NEW r \in Requests, CallCompress(r), UNCHANGED mainVars PROVE ClosesLast'
  <2>1. r \in Active
    BY <1>5, StepsAreActive DEF HandlerNext
  <2>2. CASE C!Admit(r)
    BY <1>5, <2>2 DEF C!Admit, mainVars
  <2>3. CASE C!Refuse(r)
    <3>1. closed /\ closed' = closed /\ late
      BY <2>1, <2>3 DEF C!Refuse, Drains
    <3> QED
      BY <1>5, <3>1 DEF mainVars
  <2> QED
    BY <1>5, <2>2, <2>3 DEF CallCompress
<1>6. ASSUME NEW r \in Requests, Compressing(r), UNCHANGED mainVars PROVE ClosesLast'
  <2>1. closed' = closed /\ main' = main /\ late' = late
    BY <1>6 DEF Compressing, C!Run, C!Finish, C!Discard, C!Answer, C!Withdraw, C!GiveUp, mainVars
  <2>2. caller[r] = "waiting" /\ closed => late
    BY WaitersAreActive DEF Drains, MetricsInv
  <2>3. result \in [Requests -> Answers] /\ answer \in [Requests -> Answers]
    BY DEF MetricsInv, HookInv, CompressorOK
  <2>4. ~closed => \A q \in Requests : result'[q] \notin C!ClosingErrors
    BY <1>6, <2>3 DEF Compressing, C!Run, C!Finish, C!Discard, C!Answer, C!Withdraw, C!GiveUp,
       C!Settle, C!Failures
  <2>5. ~late => \A q \in Requests : answer'[q] \notin C!ClosingErrors
    BY <1>6, <2>2, <2>3 DEF Compressing, C!Run, C!Finish, C!Discard, C!Answer, C!Withdraw,
       C!GiveUp, C!Return
  <2> QED
    BY <2>1, <2>4, <2>5
<1>7. ASSUME NEW r \in Requests, Arrive(r) \/ Retry(r) \/ HangUp(r) \/ HandlerNext(r),
             ~CallCompress(r)
      PROVE  UNCHANGED compVars
  BY <1>7 DEF Arrive, Retry, HangUp, HandlerNext, RejectMethod, ReadFails, RejectEncoding,
     DecodeFails, Passthrough, CompressFails, CompressReturns, Decide, writeHookResponse, Record,
     Return
<1> QED
  BY <1>1, <1>2, <1>3, <1>4, <1>5, <1>6, <1>7 DEF ServerNext, MainSteps, Serving

-----------------------------------------------------------------------------
(* The invariant and what follows from it.                                 *)

\* The process has just started.
LEMMA ServerInvInit ==
  ASSUME ServerInit
  PROVE  ServerInv
<1>1. Init
  BY DEF ServerInit
<1>2. Active = {}
  BY <1>1 DEF Init, Active
<1>3. Null \notin {"closed", "unavailable", "canceled"}
  BY HookAssumption
<1>4. ClosesLast
  BY <1>1, <1>3 DEF Init, C!Init, ClosesLast, C!ClosingErrors
<1> QED
  BY <1>1, <1>2, <1>4, MetricsInvInit DEF ServerInit, ServerInv, MainOK, MainStates, Drains

\* The inductive invariant holds.
THEOREM ServerInvariant == ServerSpec => []ServerInv
<1>1. ServerInit => ServerInv
  BY ServerInvInit
<1>2. ServerInv /\ [ServerNext]_serverVars => ServerInv'
  BY MetricsInvServer, MainStep, DrainsStep, ClosesLastStep DEF ServerInv
<1> QED
  BY <1>1, <1>2, PTL DEF ServerSpec

\* The variables keep to their types.
THEOREM ServerTypeCorrect == ServerSpec => []ServerTypeOK
<1>1. ServerInv => ServerTypeOK
  BY DEF ServerInv, MetricsInv, HookInv, MainOK, ServerTypeOK
<1> QED
  BY <1>1, ServerInvariant, PTL

\* No request is cut off, unless the shutdown ran past its deadline or the
\* signal came before main asked for it (main.go:103-126): the network and the
\* process end after the handlers.
THEOREM ShutdownIsGraceful == ServerSpec => []GracefulUnlessLate
<1>1. ServerInv => GracefulUnlessLate
  BY DEF ServerInv, Drains, GracefulUnlessLate
<1> QED
  BY <1>1, ServerInvariant, PTL

\* No request fails because the pool closed under it, unless the deadline
\* passed (main.go:126): the deferred calls run in the order that this needs.
THEOREM PoolClosesLast == ServerSpec => []PoolOutlivesRequests
<1>1. ServerInv => PoolOutlivesRequests
  BY DEF ServerInv, ClosesLast, PoolOutlivesRequests
<1> QED
  BY <1>1, ServerInvariant, PTL

\* "It can never break a user's request" (handler.go:82-84), the shutdown
\* included: also when connections are cut and the pool closes under handlers
\* that still run, what is answered is allow or the outcome of a compression.
THEOREM ShutdownNeverBreaks == ServerSpec => []NeverBreaks
<1>1. ServerInv => NeverBreaks
  BY InvNeverBreaks DEF ServerInv, MetricsInv
<1> QED
  BY <1>1, ServerInvariant, PTL

\* The counters are right to the end of the process (handler.go:135-136,189,220):
\* requests that are cut off, or that the pool fails as it closes, are counted
\* like the others once their handlers get there.
THEOREM ShutdownIsCounted == ServerSpec => []AnswersAreCounted
<1>1. ServerInv => AnswersAreCounted
  BY DEF ServerInv, MetricsInv
<1> QED
  BY <1>1, ServerInvariant, PTL
=============================================================================
