----------------------------- MODULE PoolProofs -----------------------------
(* Proofs about Pool, for every number of slots and every set of calls.    *)
EXTENDS Pool, FiniteSetTheorems, TLAPS

-----------------------------------------------------------------------------
(* Type correctness.                                                       *)

\* The initial state of the pool is well typed (newPool).
LEMMA InitTypeOK == Init => TypeOK
  BY PoolAssumption DEF Init, TypeOK, Slots, CallStates, SlotStates, Replies, DoErrors

\* Every step of a call keeps the types (Compress, dispatch).
LEMMA CompressTypeOK ==
  ASSUME TypeOK, NEW c \in Calls, CompressNext(c)
  PROVE  TypeOK'
<1> USE PoolAssumption DEF TypeOK, CallStates, Replies, DoErrors, callVars, slotVars, shutVars
<1>1. CASE DispatchRefused(c)
  BY <1>1 DEF DispatchRefused, CallerReturns
<1>2. CASE DispatchAdmitted(c)
  BY <1>2 DEF DispatchAdmitted
<1>3. CASE SendAffinity(c)
  BY <1>3 DEF SendAffinity
<1>4. CASE CountHit(c)
  BY <1>4 DEF CountHit
<1>5. CASE FallThrough(c)
  BY <1>5 DEF FallThrough
<1>6. ASSUME NEW i \in Slots, SendShared(c, i) PROVE TypeOK'
  BY <1>6 DEF SendShared, Receive, SlotStates
<1>7. CASE CountSpill(c)
  BY <1>7 DEF CountSpill
<1>8. CASE DispatchCanceled(c)
  BY <1>8 DEF DispatchCanceled, CallerReturns
<1>9. CASE DispatchClosed(c)
  BY <1>9 DEF DispatchClosed, CallerReturns
<1>10. CASE TakeReply(c)
  BY <1>10 DEF TakeReply, CallerReturns
<1>11. CASE Abandon(c)
  BY <1>11 DEF Abandon, CallerReturns
<1> QED
  BY <1>1, <1>2, <1>3, <1>4, <1>5, <1>6, <1>7, <1>8, <1>9, <1>10, <1>11
  DEF CompressNext, DispatchNext

\* Every step of a slot keeps the types (runSlot, spawn, do).
LEMMA SlotTypeOK ==
  ASSUME TypeOK, NEW i \in Slots, SlotNext(i)
  PROVE  TypeOK'
<1> USE PoolAssumption DEF TypeOK, SlotStates, Replies, DoErrors, callVars, slotVars, shutVars
<1>1. CASE TakeAffinity(i)
  BY <1>1 DEF TakeAffinity, Receive
<1>2. CASE SpawnTries(i)
  BY <1>2 DEF SpawnTries
<1>3. CASE SpawnGivesUp(i)
  BY <1>3 DEF SpawnGivesUp
<1>4. CASE StartSucceeds(i)
  BY <1>4 DEF StartSucceeds
<1>5. CASE StartFails(i)
  BY <1>5 DEF StartFails
<1>6. CASE WriteSucceeds(i)
  BY <1>6 DEF WriteSucceeds
<1>7. ASSUME NEW e \in DoErrors, DoFails(i, e) PROVE TypeOK'
  BY <1>7 DEF DoFails
<1>8. CASE DoSucceeds(i)
  BY <1>8 DEF DoSucceeds, Replies, DoErrors
<1>9. CASE Reply(i)
  BY <1>9 DEF Reply
<1>10. CASE SlotExits(i)
  BY <1>10 DEF SlotExits
<1> QED
  BY <1>1, <1>2, <1>3, <1>4, <1>5, <1>6, <1>7, <1>8, <1>9, <1>10
  DEF SlotNext, SpawnNext, DoNext, WriteFails, WorkerFails, HardCapExpires, PoolCtxCancels

\* Every step of Shutdown keeps the types.
LEMMA ShutdownTypeOK ==
  ASSUME TypeOK, ShutdownNext
  PROVE  TypeOK'
<1> USE PoolAssumption DEF TypeOK, Replies, callVars, slotVars, shutVars
<1>1. CASE ShutdownCancels
  BY <1>1 DEF ShutdownCancels
<1>2. CASE ShutdownWaited
  BY <1>2 DEF ShutdownWaited
<1>3. CASE DrainJob
  BY <1>3 DEF DrainJob
<1>4. CASE DrainNext
  BY <1>4 DEF DrainNext
<1>5. CASE ShutdownReturns
  BY <1>5 DEF ShutdownReturns
<1> QED
  BY <1>1, <1>2, <1>3, <1>4, <1>5 DEF ShutdownNext

\* A stuttering step keeps the types.
LEMMA StutterTypeOK == TypeOK /\ UNCHANGED vars => TypeOK'
  BY DEF TypeOK, vars, callVars, slotVars, shutVars

\* Every variable keeps its type in every behaviour of the pool.
THEOREM TypeCorrect == Spec => []TypeOK
<1>1. TypeOK /\ [Next]_vars => TypeOK'
  BY CompressTypeOK, SlotTypeOK, ShutdownTypeOK, StutterTypeOK DEF Next, Terminated
<1> QED
  BY InitTypeOK, <1>1, PTL DEF Spec

-----------------------------------------------------------------------------
(* The inductive invariant.  That a job is in one place needs what each    *)
(* slot holds (SlotHands); that nobody serves jobs once wg.Wait returned   *)
(* needs that a slot that is gone holds nothing.                           *)

\* Only affinity-eligible jobs try for an affinity channel, and what is in one
\* hashes to its slot.
AffinityRouting ==
  /\ \A c \in Calls : call[c] \in {"affinity", "hit", "spill"} => affined(c)
  /\ \A i \in Slots : affinity[i] # Null =>
       affined(affinity[i]) /\ slotFor(KeyOf[affinity[i]]) = i

IInv ==
  /\ TypeOK
  /\ SlotHands
  /\ AffinityRouting
  /\ WorkerPresence
  /\ ShutdownTearsDown
  /\ JobConservation

\* slotFor indexes the affinity channels: a key always maps to a slot.
LEMMA SlotForInRange ==
  ASSUME NEW k \in Keys
  PROVE  slotFor(k) \in Slots
<1> DEFINE h == Hash[k]
<1>1. h \in Nat /\ Size \in Nat \ {0}
  BY PoolAssumption
<1>2. h % Size \in 0..(Size - 1)
  <2> HIDE DEF h
  <2> QED BY <1>1
<1> QED
  BY <1>1, <1>2 DEF slotFor, Slots

\* An affined call has a key, so its channel is one of the slots'.
LEMMA AffinedSlot ==
  ASSUME NEW c \in Calls, affined(c)
  PROVE  slotFor(KeyOf[c]) \in Slots
  BY PoolAssumption, SlotForInRange DEF affined

\* Before any step nothing is in hand, sent or answered.
LEMMA InitIInv == Init => IInv
<1> SUFFICES ASSUME Init PROVE IInv
  OBVIOUS
<1> USE DEF Init
<1>1. TypeOK
  BY InitTypeOK
<1>2. SlotHands /\ AffinityRouting /\ WorkerPresence /\ ShutdownTearsDown
  BY DEF SlotHands, AffinityRouting, WorkerPresence, ShutdownTearsDown
<1>3. JobConservation
  BY PoolAssumption DEF JobConservation, JobsInOnePlace, UnsentJobsNowhere, AcceptedJobsKept,
     AnsweredJobsGone, InFlight
<1> QED
  BY <1>1, <1>2, <1>3 DEF IInv

\* Every step of a call keeps what the slots hold and where jobs may be sent:
\* of those only the two sends touch a channel or a slot.
LEMMA CompressKeepsSlots ==
  ASSUME IInv, NEW c \in Calls, CompressNext(c)
  PROVE  SlotHands' /\ AffinityRouting' /\ WorkerPresence' /\ ShutdownTearsDown'
<1> USE PoolAssumption DEF IInv, TypeOK, SlotHands, AffinityRouting, WorkerPresence, ShutdownTearsDown,
        Closed, affined, slotFor, slotVars, shutVars, callVars
<1>1. CASE DispatchRefused(c)
  BY <1>1 DEF DispatchRefused, CallerReturns
<1>2. CASE DispatchAdmitted(c)
  BY <1>2 DEF DispatchAdmitted
<1>3. CASE SendAffinity(c)
  BY <1>3 DEF SendAffinity
<1>4. CASE CountHit(c)
  BY <1>4 DEF CountHit
<1>5. CASE FallThrough(c)
  BY <1>5 DEF FallThrough
<1>6. ASSUME NEW i \in Slots, SendShared(c, i)
      PROVE  SlotHands' /\ AffinityRouting' /\ WorkerPresence' /\ ShutdownTearsDown'
  BY <1>6 DEF SendShared, Receive
<1>7. CASE CountSpill(c)
  BY <1>7 DEF CountSpill
<1>8. CASE DispatchCanceled(c)
  BY <1>8 DEF DispatchCanceled, CallerReturns
<1>9. CASE DispatchClosed(c)
  BY <1>9 DEF DispatchClosed, CallerReturns
<1>10. CASE TakeReply(c)
  BY <1>10 DEF TakeReply, CallerReturns
<1>11. CASE Abandon(c)
  BY <1>11 DEF Abandon, CallerReturns
<1> QED
  BY <1>1, <1>2, <1>3, <1>4, <1>5, <1>6, <1>7, <1>8, <1>9, <1>10, <1>11
  DEF CompressNext, DispatchNext

\* Every step of a slot keeps them too.
LEMMA SlotKeepsSlots ==
  ASSUME IInv, NEW i \in Slots, SlotNext(i)
  PROVE  SlotHands' /\ AffinityRouting' /\ WorkerPresence' /\ ShutdownTearsDown'
<1> USE PoolAssumption DEF IInv, TypeOK, SlotHands, AffinityRouting, WorkerPresence, ShutdownTearsDown,
        Closed, affined, slotFor, slotVars, shutVars, callVars
<1>1. CASE TakeAffinity(i)
  BY <1>1 DEF TakeAffinity, Receive
<1>2. CASE SpawnTries(i)
  BY <1>2 DEF SpawnTries
<1>3. CASE SpawnGivesUp(i)
  BY <1>3 DEF SpawnGivesUp
<1>4. CASE StartSucceeds(i)
  BY <1>4 DEF StartSucceeds
<1>5. CASE StartFails(i)
  BY <1>5 DEF StartFails
<1>6. CASE WriteSucceeds(i)
  BY <1>6 DEF WriteSucceeds
<1>7. ASSUME NEW e \in DoErrors, slot[i] \in {"write", "read"}, DoFails(i, e)
      PROVE  SlotHands' /\ AffinityRouting' /\ WorkerPresence' /\ ShutdownTearsDown'
  BY <1>7 DEF DoFails, Replies, DoErrors
<1>8. CASE DoSucceeds(i)
  BY <1>8 DEF DoSucceeds, Replies, DoErrors
<1>9. CASE Reply(i)
  BY <1>9 DEF Reply
<1>10. CASE SlotExits(i)
  BY <1>10 DEF SlotExits
<1> QED
  BY <1>1, <1>2, <1>3, <1>4, <1>5, <1>6, <1>7, <1>8, <1>9, <1>10
  DEF SlotNext, SpawnNext, DoNext, WriteFails, WorkerFails, HardCapExpires, PoolCtxCancels, DoErrors

\* And so does every step of Shutdown.
LEMMA ShutdownKeepsSlots ==
  ASSUME IInv, ShutdownNext
  PROVE  SlotHands' /\ AffinityRouting' /\ WorkerPresence' /\ ShutdownTearsDown'
<1> USE PoolAssumption DEF IInv, TypeOK, SlotHands, AffinityRouting, WorkerPresence, ShutdownTearsDown,
        Closed, affined, slotFor, slotVars, shutVars, callVars
<1>1. CASE ShutdownCancels
  BY <1>1 DEF ShutdownCancels
<1>2. CASE ShutdownWaited
  BY <1>2 DEF ShutdownWaited
<1>3. CASE DrainJob
  BY <1>3 DEF DrainJob
<1>4. CASE DrainNext
  BY <1>4 DEF DrainNext
<1>5. CASE ShutdownReturns
  BY <1>5 DEF ShutdownReturns
<1> QED
  BY <1>1, <1>2, <1>3, <1>4, <1>5 DEF ShutdownNext

\* A call hands its job over in the two sends, takes it back in none, and
\* empties its reply channel only as it returns.
LEMMA CompressKeepsJobs ==
  ASSUME IInv, NEW c \in Calls, CompressNext(c)
  PROVE  JobConservation'
<1> USE PoolAssumption DEF IInv, TypeOK, SlotHands, JobConservation, JobsInOnePlace, UnsentJobsNowhere,
        AcceptedJobsKept, AnsweredJobsGone, InFlight, Replies, DoErrors, callVars, slotVars, shutVars
<1>1. CASE DispatchRefused(c)
  BY <1>1 DEF DispatchRefused, CallerReturns
<1>2. CASE DispatchAdmitted(c)
  BY <1>2 DEF DispatchAdmitted
<1>3. CASE SendAffinity(c)
  <2>1. slotFor(KeyOf[c]) \in Slots
    BY <1>3, AffinedSlot DEF SendAffinity, AffinityRouting
  <2> QED
    BY <1>3, <2>1 DEF SendAffinity
<1>4. CASE CountHit(c)
  BY <1>4 DEF CountHit
<1>5. CASE FallThrough(c)
  BY <1>5 DEF FallThrough
<1>6. ASSUME NEW i \in Slots, SendShared(c, i) PROVE JobConservation'
  BY <1>6 DEF SendShared, Receive
<1>7. CASE CountSpill(c)
  BY <1>7 DEF CountSpill
<1>8. CASE DispatchCanceled(c)
  BY <1>8 DEF DispatchCanceled, CallerReturns
<1>9. CASE DispatchClosed(c)
  BY <1>9 DEF DispatchClosed, CallerReturns
<1>10. CASE TakeReply(c)
  BY <1>10 DEF TakeReply, CallerReturns
<1>11. CASE Abandon(c)
  BY <1>11 DEF Abandon, CallerReturns
<1> QED
  BY <1>1, <1>2, <1>3, <1>4, <1>5, <1>6, <1>7, <1>8, <1>9, <1>10, <1>11
  DEF CompressNext, DispatchNext

\* A slot moves a job from its channel to its hands and lets go of it as it
\* replies; a failed call and the respawn after it keep the job in hand.
LEMMA SlotKeepsJobs ==
  ASSUME IInv, NEW i \in Slots, SlotNext(i)
  PROVE  JobConservation'
<1> USE PoolAssumption DEF IInv, TypeOK, SlotHands, JobConservation, JobsInOnePlace, UnsentJobsNowhere,
        AcceptedJobsKept, AnsweredJobsGone, InFlight, Replies, DoErrors, callVars, slotVars, shutVars
<1>1. CASE TakeAffinity(i)
  BY <1>1 DEF TakeAffinity, Receive
<1>2. CASE SpawnTries(i)
  BY <1>2 DEF SpawnTries
<1>3. CASE SpawnGivesUp(i)
  BY <1>3 DEF SpawnGivesUp
<1>4. CASE StartSucceeds(i)
  BY <1>4 DEF StartSucceeds
<1>5. CASE StartFails(i)
  BY <1>5 DEF StartFails
<1>6. CASE WriteSucceeds(i)
  BY <1>6 DEF WriteSucceeds
<1>7. ASSUME NEW e \in DoErrors, DoFails(i, e) PROVE JobConservation'
  BY <1>7 DEF DoFails
<1>8. CASE DoSucceeds(i)
  BY <1>8 DEF DoSucceeds
<1>9. CASE Reply(i)
  BY <1>9 DEF Reply
<1>10. CASE SlotExits(i)
  BY <1>10 DEF SlotExits
<1> QED
  BY <1>1, <1>2, <1>3, <1>4, <1>5, <1>6, <1>7, <1>8, <1>9, <1>10
  DEF SlotNext, SpawnNext, DoNext, WriteFails, WorkerFails, HardCapExpires, PoolCtxCancels

\* Draining answers a job as it takes it out of its channel.
LEMMA ShutdownKeepsJobs ==
  ASSUME IInv, ShutdownNext
  PROVE  JobConservation'
<1> USE PoolAssumption DEF IInv, TypeOK, SlotHands, JobConservation, JobsInOnePlace, UnsentJobsNowhere,
        AcceptedJobsKept, AnsweredJobsGone, InFlight, Replies, DoErrors, callVars, slotVars, shutVars
<1>1. CASE ShutdownCancels
  BY <1>1 DEF ShutdownCancels
<1>2. CASE ShutdownWaited
  BY <1>2 DEF ShutdownWaited
<1>3. CASE DrainJob
  <2>1. drainAt \in Slots
    BY <1>3 DEF DrainJob, Slots
  <2> QED
    BY <1>3, <2>1 DEF DrainJob
<1>4. CASE DrainNext
  BY <1>4 DEF DrainNext
<1>5. CASE ShutdownReturns
  BY <1>5 DEF ShutdownReturns
<1> QED
  BY <1>1, <1>2, <1>3, <1>4, <1>5 DEF ShutdownNext

\* A stuttering step keeps the invariant.
LEMMA StutterIInv == IInv /\ UNCHANGED vars => IInv'
  BY DEF IInv, TypeOK, SlotHands, AffinityRouting, WorkerPresence, ShutdownTearsDown, JobConservation,
     JobsInOnePlace, UnsentJobsNowhere, AcceptedJobsKept, AnsweredJobsGone, InFlight, Closed, affined,
     vars, callVars, slotVars, shutVars

\* The invariant is inductive.
LEMMA NextIInv == IInv /\ [Next]_vars => IInv'
<1> SUFFICES ASSUME IInv, [Next]_vars PROVE IInv'
  OBVIOUS
<1>1. ASSUME NEW c \in Calls, CompressNext(c) PROVE IInv'
  BY <1>1, CompressTypeOK, CompressKeepsSlots, CompressKeepsJobs DEF IInv
<1>2. ASSUME NEW i \in Slots, SlotNext(i) PROVE IInv'
  BY <1>2, SlotTypeOK, SlotKeepsSlots, SlotKeepsJobs DEF IInv
<1>3. CASE ShutdownNext
  BY <1>3, ShutdownTypeOK, ShutdownKeepsSlots, ShutdownKeepsJobs DEF IInv
<1>4. CASE Terminated \/ UNCHANGED vars
  BY <1>4, StutterIInv DEF Terminated
<1> QED
  BY <1>1, <1>2, <1>3, <1>4 DEF Next

\* The invariant holds in every behaviour of the pool.
LEMMA InvariantHolds == Spec => []IInv
  BY InitIInv, NextIInv, PTL DEF Spec

-----------------------------------------------------------------------------
(* What follows from it.                                                   *)

\* No accepted job is lost, duplicated or answered twice, and no send on a
\* reply channel blocks, with any number of slots, callers and keys.
THEOREM JobsConserved == Spec => []JobConservation
<1>1. IInv => JobConservation
  BY DEF IInv
<1> QED
  BY InvariantHolds, <1>1, PTL

\* A slot is without a worker only while it spawns, or at shutdown.
THEOREM WorkersPresent == Spec => []WorkerPresence
<1>1. IInv => WorkerPresence
  BY DEF IInv
<1> QED
  BY InvariantHolds, <1>1, PTL

\* A slot holds a job from its receive to its reply, an outcome only from the
\* end of w.do to the reply, and nothing when it is in its select or gone.
THEOREM HandsAgree == Spec => []SlotHands
<1>1. IInv => SlotHands
  BY DEF IInv
<1> QED
  BY InvariantHolds, <1>1, PTL

\* When Shutdown drains the channels every slot is gone, with empty hands.
THEOREM TornDown == Spec => []ShutdownTearsDown
<1>1. IInv => ShutdownTearsDown
  BY DEF IInv
<1> QED
  BY InvariantHolds, <1>1, PTL

-----------------------------------------------------------------------------
(* Why a worker is given up.                                               *)

\* No step of the pool takes a worker from its slot unless the call it runs
\* failed or ran into the hard cap, or the pool is closed.
THEOREM WorkersKept == Spec => OnlyFailuresRecycle
<1> DEFINE Kept == \A i \in Slots :
             worker[i] /\ ~worker'[i] =>
               \/ Closed
               \/ slot[i] \in {"write", "read"} /\ out'[i] \in {"fault", "cap"}
<1>1. TypeOK /\ [Next]_vars => [Kept]_vars
  <2> SUFFICES ASSUME TypeOK, Next PROVE Kept \/ UNCHANGED vars
    OBVIOUS
  <2>1. ASSUME NEW c \in Calls, CompressNext(c) PROVE UNCHANGED worker
    BY <2>1 DEF CompressNext, DispatchNext, DispatchRefused, DispatchAdmitted, SendAffinity,
       CountHit, FallThrough, SendShared, Receive, CountSpill, DispatchCanceled, DispatchClosed,
       TakeReply, Abandon, slotVars
  <2>2. ASSUME NEW i \in Slots, SlotNext(i) PROVE Kept
    <3>1. ASSUME NEW e \in {"fault", "cap"}, slot[i] \in {"write", "read"}, DoFails(i, e)
          PROVE  Kept
      BY <3>1 DEF DoFails, TypeOK
    <3>2. CASE PoolCtxCancels(i) \/ SlotExits(i)
      BY <3>2 DEF PoolCtxCancels, SlotExits
    <3>3. CASE StartSucceeds(i)
      BY <3>3 DEF StartSucceeds, TypeOK
    <3>4. CASE \/ TakeAffinity(i) \/ SpawnTries(i) \/ SpawnGivesUp(i) \/ StartFails(i)
               \/ WriteSucceeds(i) \/ DoSucceeds(i) \/ Reply(i)
      BY <3>4 DEF TakeAffinity, Receive, SpawnTries, SpawnGivesUp, StartFails, WriteSucceeds,
         DoSucceeds, Reply
    <3> QED
      BY <2>2, <3>1, <3>2, <3>3, <3>4
      DEF SlotNext, SpawnNext, DoNext, WriteFails, WorkerFails, HardCapExpires
  <2>3. CASE ShutdownNext
    BY <2>3 DEF ShutdownNext, ShutdownCancels, ShutdownWaited, DrainJob, DrainNext,
       ShutdownReturns, slotVars
  <2> QED
    BY <2>1, <2>2, <2>3 DEF Next, Terminated
<1> QED
  BY TypeCorrect, <1>1, PTL DEF Spec, OnlyFailuresRecycle

-----------------------------------------------------------------------------
(* The gauge.                                                              *)

InDo == {i \in Slots : slot[i] \in {"write", "read"}}

\* Calls that begin or end in a slot change the gauge by one.
LEMMA InDoCounts ==
  ASSUME TypeOK, NEW i \in Slots
  PROVE  /\ IsFiniteSet(InDo) /\ Cardinality(InDo) \in Nat
         /\ i \notin InDo => Cardinality(InDo \cup {i}) = Cardinality(InDo) + 1
         /\ i \in InDo => Cardinality(InDo \ {i}) = Cardinality(InDo) - 1
<1>1. IsFiniteSet(InDo)
  <2>1. IsFiniteSet(Slots)
    BY PoolAssumption, FS_Interval DEF Slots
  <2> QED
    BY <2>1, FS_Subset DEF InDo
<1> QED
  BY <1>1, FS_CardinalityType, FS_AddElement, FS_RemoveElement

Begins(i) == i \notin InDo /\ InDo' = InDo \cup {i} /\ busy' = busy + 1
Ends(i) == i \in InDo /\ InDo' = InDo \ {i} /\ busy' = busy - 1
Unmoved == InDo' = InDo /\ busy' = busy

\* A call hands a job to an idle slot or leaves the slots alone.
LEMMA CompressGauge ==
  ASSUME IInv, NEW c \in Calls, CompressNext(c)
  PROVE  Unmoved \/ \E i \in Slots : Begins(i)
<1>1. ASSUME NEW i \in Slots, SendShared(c, i) PROVE Unmoved \/ Begins(i)
  BY <1>1 DEF SendShared, Receive, IInv, TypeOK, InDo, Begins, Unmoved
<1>2. CASE UNCHANGED <<slot, busy>>
  BY <1>2 DEF InDo, Unmoved
<1> QED
  BY <1>1, <1>2 DEF CompressNext, DispatchNext, DispatchRefused, DispatchAdmitted, SendAffinity,
     CountHit, FallThrough, CountSpill, DispatchCanceled, DispatchClosed, TakeReply, Abandon, slotVars

\* A slot enters w.do as it takes or regains its job, and leaves it once.
LEMMA SlotGauge ==
  ASSUME IInv, NEW i \in Slots, SlotNext(i)
  PROVE  Unmoved \/ Begins(i) \/ Ends(i)
<1> USE DEF IInv, TypeOK, InDo, Begins, Ends, Unmoved
<1>1. CASE TakeAffinity(i)
  BY <1>1 DEF TakeAffinity, Receive
<1>2. CASE SpawnTries(i) \/ StartFails(i) \/ Reply(i) \/ SlotExits(i)
  BY <1>2 DEF SpawnTries, StartFails, Reply, SlotExits
<1>3. CASE SpawnGivesUp(i)
  BY <1>3 DEF SpawnGivesUp
<1>4. CASE StartSucceeds(i)
  BY <1>4 DEF StartSucceeds
<1>5. CASE WriteSucceeds(i)
  BY <1>5 DEF WriteSucceeds
<1>6. CASE DoSucceeds(i)
  BY <1>6 DEF DoSucceeds
<1>7. ASSUME NEW e \in DoErrors, slot[i] \in {"write", "read"}, DoFails(i, e) PROVE Ends(i)
  BY <1>7 DEF DoFails
<1> QED
  BY <1>1, <1>2, <1>3, <1>4, <1>5, <1>6, <1>7
  DEF SlotNext, SpawnNext, DoNext, WriteFails, WorkerFails, HardCapExpires, PoolCtxCancels, DoErrors

\* The busy gauge counts the slots inside w.do, however many there are.
THEOREM GaugeExact == Spec => []BusyIsExact
<1> DEFINE Exact == busy = Cardinality(InDo)
<1>1. Init => Exact
  <2> SUFFICES ASSUME Init PROVE Exact
    OBVIOUS
  <2>1. InDo = {}
    BY DEF Init, InDo
  <2> QED
    BY <2>1, FS_EmptySet DEF Init
<1>2. IInv /\ Exact /\ [Next]_vars => Exact'
  <2> SUFFICES ASSUME IInv, Exact, [Next]_vars PROVE Exact'
    OBVIOUS
  <2>1. ASSUME NEW i \in Slots, Begins(i) \/ Ends(i) PROVE Exact'
    BY <2>1, InDoCounts DEF Begins, Ends, IInv
  <2>2. CASE Unmoved
    BY <2>2 DEF Unmoved
  <2>3. CASE ShutdownNext \/ Terminated \/ UNCHANGED vars
    <3>1. UNCHANGED <<slot, busy>>
      BY <2>3 DEF ShutdownNext, ShutdownCancels, ShutdownWaited, DrainJob, DrainNext,
         ShutdownReturns, Terminated, vars, slotVars
    <3> QED
      BY <3>1, <2>2 DEF Unmoved, InDo
  <2> QED
    BY <2>1, <2>2, <2>3, CompressGauge, SlotGauge DEF Next
<1>3. Exact => BusyIsExact
  BY DEF BusyIsExact, InDo
<1> QED
  BY InvariantHolds, <1>1, <1>2, <1>3, PTL DEF Spec
-----------------------------------------------------------------------------
(* The affinity counters.                                                  *)

Eligible == {c \in Calls : affined(c)}
\* The callers that were counted for sure, and those that may have been.
MustCount == {c \in Eligible : call[c] = "wait" \/ ret[c] \in Replies \ {"closed"}}
MayCount == {c \in Eligible : call[c] \in {"wait", "returned"}}

\* A set of calls that gains at most c, or only loses, in a step.
LEMMA CountsMove ==
  ASSUME NEW A \in SUBSET Calls, NEW B \in SUBSET Calls, NEW c \in Calls
  PROVE  /\ Cardinality(A) \in Nat /\ Cardinality(B) \in Nat
         /\ B \subseteq A => Cardinality(B) <= Cardinality(A)
         /\ B \subseteq A \cup {c} => Cardinality(B) <= Cardinality(A) + 1
         /\ c \notin A /\ A \cup {c} \subseteq B => Cardinality(A) + 1 <= Cardinality(B)
<1>1. IsFiniteSet(A) /\ IsFiniteSet(B) /\ IsFiniteSet(A \cup {c})
  BY FinitelyManyCalls, FS_Subset
<1>2. Cardinality(A) \in Nat /\ Cardinality(B) \in Nat /\ Cardinality(A \cup {c}) \in Nat
  BY <1>1, FS_CardinalityType
<1>3. /\ c \notin A => Cardinality(A \cup {c}) = Cardinality(A) + 1
      /\ Cardinality(A \cup {c}) <= Cardinality(A) + 1
  <2>1. Cardinality(A \cup {c}) = IF c \in A THEN Cardinality(A) ELSE Cardinality(A) + 1
    BY <1>1, FS_AddElement
  <2> QED
    BY <1>2, <2>1
<1>4. B \subseteq A => Cardinality(B) <= Cardinality(A)
  BY <1>1, FS_Subset
<1>5. B \subseteq A \cup {c} => Cardinality(B) <= Cardinality(A \cup {c})
  BY <1>1, FS_Subset
<1>6. A \cup {c} \subseteq B => Cardinality(A \cup {c}) <= Cardinality(B)
  BY <1>1, FS_Subset
<1> QED
  BY <1>2, <1>3, <1>4, <1>5, <1>6

\* A step counts a caller as it begins to wait, or counts nobody, makes nobody
\* wait and takes back no return.
Counts(c) ==
  /\ affinityHits' + affinitySpills' = affinityHits + affinitySpills + 1
  /\ MustCount' \subseteq MustCount \cup {c}
  /\ c \notin MayCount /\ MayCount \cup {c} \subseteq MayCount'
CountsNobody ==
  /\ affinityHits' + affinitySpills' = affinityHits + affinitySpills
  /\ MustCount' \subseteq MustCount
  /\ MayCount \subseteq MayCount'

\* Every step of a call does one of the two (dispatch, Compress).
LEMMA CompressCounts ==
  ASSUME IInv, NEW c \in Calls, CompressNext(c)
  PROVE  Counts(c) \/ CountsNobody
<1> USE PoolAssumption
    DEF IInv, TypeOK, Eligible, MustCount, MayCount, affined, Replies, DoErrors
<1>1. CASE DispatchRefused(c) \/ DispatchCanceled(c) \/ DispatchClosed(c)
  BY <1>1 DEF DispatchRefused, DispatchCanceled, DispatchClosed, CallerReturns, CountsNobody
<1>2. CASE DispatchAdmitted(c)
  BY <1>2 DEF DispatchAdmitted, CountsNobody
<1>3. CASE SendAffinity(c) \/ FallThrough(c)
  BY <1>3 DEF SendAffinity, FallThrough, CountsNobody
<1>4. CASE CountHit(c)
  BY <1>4 DEF CountHit, Counts, AffinityRouting
<1>5. CASE CountSpill(c)
  BY <1>5 DEF CountSpill, Counts, AffinityRouting
<1>6. ASSUME NEW i \in Slots, SendShared(c, i) PROVE CountsNobody
  BY <1>6 DEF SendShared, CountsNobody
<1>7. CASE TakeReply(c)
  BY <1>7 DEF TakeReply, CallerReturns, CountsNobody
<1>8. CASE Abandon(c)
  BY <1>8 DEF Abandon, CallerReturns, CountsNobody
<1> QED
  BY <1>1, <1>2, <1>3, <1>4, <1>5, <1>6, <1>7, <1>8 DEF CompressNext, DispatchNext

\* With any number of calls, hits and spills together count every eligible job
\* whose caller waits or came back with a slot's reply, and none that was not
\* handed over.
THEOREM AffinityCounted == Spec => []AffinityCounts
<1> DEFINE Between == /\ Cardinality(MustCount) <= affinityHits + affinitySpills
                      /\ affinityHits + affinitySpills <= Cardinality(MayCount)
<1>1. Init => Between
  <2> SUFFICES ASSUME Init PROVE Between
    OBVIOUS
  <2>1. MustCount = {} /\ MayCount = {}
    BY PoolAssumption DEF Init, MustCount, MayCount, Eligible, Replies
  <2> QED
    BY <2>1, FS_EmptySet DEF Init
<1>2. IInv /\ Between /\ [Next]_vars => Between'
  <2> SUFFICES ASSUME IInv, Between, [Next]_vars PROVE Between'
    OBVIOUS
  <2>1. /\ affinityHits + affinitySpills \in Nat
        /\ MustCount \in SUBSET Calls /\ MustCount' \in SUBSET Calls
        /\ MayCount \in SUBSET Calls /\ MayCount' \in SUBSET Calls
    BY DEF IInv, TypeOK, MustCount, MayCount, Eligible
  <2>2. ASSUME NEW c \in Calls, CompressNext(c) PROVE Between'
    <3>1. CASE Counts(c)
      <4>1. Cardinality(MustCount') <= Cardinality(MustCount) + 1
        BY <2>1, <3>1, CountsMove DEF Counts
      <4>2. Cardinality(MayCount) + 1 <= Cardinality(MayCount')
        BY <2>1, <3>1, CountsMove DEF Counts
      <4> QED
        BY <2>1, <2>2, <3>1, <4>1, <4>2, CountsMove DEF Counts
    <3>2. CASE CountsNobody
      <4>1. Cardinality(MustCount') <= Cardinality(MustCount)
        BY <2>1, <2>2, <3>2, CountsMove DEF CountsNobody
      <4>2. Cardinality(MayCount) <= Cardinality(MayCount')
        BY <2>1, <2>2, <3>2, CountsMove DEF CountsNobody
      <4> QED
        BY <2>1, <2>2, <3>2, <4>1, <4>2, CountsMove DEF CountsNobody
    <3> QED
      BY <2>2, <3>1, <3>2, CompressCounts
  <2>3. CASE UNCHANGED <<call, ret, affinityHits, affinitySpills>>
    BY <2>3 DEF MustCount, MayCount, Eligible, affined
  <2>4. ASSUME NEW i \in Slots, SlotNext(i)
        PROVE  UNCHANGED <<call, ret, affinityHits, affinitySpills>>
    BY <2>4 DEF SlotNext, SpawnNext, DoNext, TakeAffinity, SpawnTries, SpawnGivesUp, StartSucceeds,
       StartFails, WriteSucceeds, WriteFails, DoSucceeds, WorkerFails, HardCapExpires,
       PoolCtxCancels, DoFails, Reply, SlotExits, callVars
  <2>5. CASE ShutdownNext \/ Terminated \/ UNCHANGED vars
    BY <2>3, <2>5 DEF ShutdownNext, ShutdownCancels, ShutdownWaited, DrainJob, DrainNext,
       ShutdownReturns, Terminated, vars, callVars
  <2> QED
    BY <2>2, <2>3, <2>4, <2>5 DEF Next
<1>3. Between => AffinityCounts
  BY DEF AffinityCounts, MustCount, MayCount, Eligible
<1> QED
  BY InvariantHolds, <1>1, <1>2, <1>3, PTL DEF Spec
=============================================================================
