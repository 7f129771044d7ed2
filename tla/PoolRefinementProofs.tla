------------------------ MODULE PoolRefinementProofs ------------------------
(* Proof that the pool implements the interface its callers know: every    *)
(* step of Pool is a step of Compressor or changes nothing it shows.       *)
EXTENDS PoolProofs

\* What a step must leave alone for call d to look the same.  Its caller may
\* move between the two sends, or count the one that succeeded, and a slot
\* may move inside or outside w.do.
SameFor(d) ==
  /\ \/ call'[d] = call[d]
     \/ {call[d], call'[d]} \subseteq {"affinity", "shared"}
     \/ {call[d], call'[d]} \subseteq {"hit", "spill", "wait"}
  /\ ret'[d] = ret[d] /\ resp'[d] = resp[d]
  /\ \A i \in Slots :
       /\ affinity'[i] = d <=> affinity[i] = d
       /\ cur'[i] = d <=> cur[i] = d
       /\ cur[i] = d =>
            /\ slot'[i] \in {"write", "read"} <=> slot[i] \in {"write", "read"}
            /\ out'[i] = out[i]

SameView(d) ==
  /\ CallerOf(d)' = CallerOf(d) /\ ret'[d] = ret[d]
  /\ JobOf(d)' = JobOf(d) /\ ResultOf(d)' = ResultOf(d)

\* A call whose state a step does not touch looks the same after it.
LEMMA Frame ==
  ASSUME NEW d \in Calls, SameFor(d)
  PROVE  SameView(d)
<1>1. Running(d)' = Running(d) /\ Queued(d)' = Queued(d)
  BY DEF SameFor, Running, Queued
<1>2. CallerOf(d)' = CallerOf(d) /\ JobOf(d)' = JobOf(d)
  BY <1>1 DEF SameFor, CallerOf, JobOf
<1>3. ResultOf(d)' = ResultOf(d)
  <2> DEFINE holder == {i \in Slots : cur[i] = d}
  <2>1. holder' = holder
    BY DEF SameFor
  <2>2. holder # {} => out'[CHOOSE i \in holder : TRUE] = out[CHOOSE i \in holder : TRUE]
    BY DEF SameFor
  <2> QED
    BY <1>2, <2>1, <2>2 DEF SameFor, ResultOf
<1> QED
  BY <1>2, <1>3 DEF SameView, SameFor

\* Where a job is tells its stage, and its result once it is settled.
View(c) ==
  /\ call[c] = "new" => JobOf(c) = "none" /\ ResultOf(c) = Null
  /\ call[c] \in {"affinity", "shared"} => JobOf(c) = "queued" /\ ResultOf(c) = Null
  /\ \A i \in Slots :
       /\ affinity[i] = c => JobOf(c) = "queued" /\ ResultOf(c) = Null
       /\ cur[i] = c /\ slot[i] \in {"write", "read"} =>
            JobOf(c) = "running" /\ ResultOf(c) = Null
       /\ cur[i] = c /\ slot[i] \notin {"write", "read"} /\ out[i] = Null =>
            JobOf(c) = "queued" /\ ResultOf(c) = Null
       /\ cur[i] = c /\ out[i] # Null => JobOf(c) = "settled" /\ ResultOf(c) = out[i]
  /\ call[c] \notin {"new", "affinity", "shared"} /\ ~InFlight(c) =>
       /\ JobOf(c) = "settled"
       /\ ResultOf(c) = IF resp[c] # Null THEN resp[c] ELSE ret[c]

\* It does, by the invariant: a job is in one place only.
LEMMA Views == IInv => \A c \in Calls : View(c)
<1> SUFFICES ASSUME IInv, NEW c \in Calls PROVE View(c)
  OBVIOUS
<1> USE PoolAssumption DEF IInv
<1>1. call[c] = "new" => JobOf(c) = "none" /\ ResultOf(c) = Null
  BY DEF JobOf, ResultOf
<1>2. call[c] \in {"affinity", "shared"} => JobOf(c) = "queued" /\ ResultOf(c) = Null
  BY DEF JobOf, ResultOf, Queued
<1>3. ASSUME NEW i \in Slots, affinity[i] = c
      PROVE  JobOf(c) = "queued" /\ ResultOf(c) = Null
  BY <1>3 DEF JobOf, ResultOf, Queued, JobConservation, UnsentJobsNowhere, InFlight
<1>4. ASSUME NEW i \in Slots, cur[i] = c
      PROVE  /\ slot[i] \in {"write", "read"} => JobOf(c) = "running" /\ ResultOf(c) = Null
             /\ slot[i] \notin {"write", "read"} /\ out[i] = Null =>
                  JobOf(c) = "queued" /\ ResultOf(c) = Null
             /\ out[i] # Null => JobOf(c) = "settled" /\ ResultOf(c) = out[i]
  <2>1. call[c] \notin {"new", "affinity", "shared"}
    BY <1>4 DEF JobConservation, UnsentJobsNowhere, InFlight
  <2>2. \A k \in Slots : affinity[k] # c /\ (cur[k] = c => k = i)
    BY <1>4 DEF JobConservation, JobsInOnePlace
  <2>3. Running(c) <=> slot[i] \in {"write", "read"}
    BY <1>4, <2>2 DEF Running
  <2>4. Queued(c) <=> out[i] = Null /\ ~Running(c)
    BY <1>4, <2>1, <2>2 DEF Queued
  <2>5. {k \in Slots : cur[k] = c} = {i}
    BY <1>4, <2>2
  <2>6. (CHOOSE k \in {i} : TRUE) = i
    OBVIOUS
  <2>7. JobOf(c) = "settled" => ResultOf(c) = out[i]
    BY <2>5, <2>6 DEF ResultOf
  <2>8. JobOf(c) # "settled" => ResultOf(c) = Null
    BY DEF ResultOf
  <2> QED
    BY <2>1, <2>3, <2>4, <2>7, <2>8 DEF JobOf, SlotHands
<1>5. ASSUME call[c] \notin {"new", "affinity", "shared"}, ~InFlight(c)
      PROVE  /\ JobOf(c) = "settled"
             /\ ResultOf(c) = IF resp[c] # Null THEN resp[c] ELSE ret[c]
  BY <1>5 DEF JobOf, ResultOf, Queued, Running, InFlight
<1> QED
  BY <1>1, <1>2, <1>3, <1>4, <1>5 DEF View

\* The same holds after a step that keeps the invariant.
LEMMA ViewsNext == IInv' => (\A c \in Calls : View(c))'
  BY Views, PTL

-----------------------------------------------------------------------------
(* Steps that the interface does not show.                                 *)

\* If every call looks the same and Shutdown was not called, nothing of the
\* interface's state changed.
LEMMA AllSame ==
  ASSUME IInv, IInv', \A d \in Calls : SameView(d), Closed' = Closed
  PROVE  UNCHANGED Interface!vars
<1>1. ret' = ret
  BY DEF SameView, IInv, TypeOK
<1> QED
  BY <1>1 DEF SameView, Interface!vars

\* The calls other than c look the same after a step of c's caller that only
\* changes c's own entries.
LEMMA OthersSame ==
  ASSUME IInv, NEW c \in Calls, NEW d \in Calls, d # c,
         call' = [call EXCEPT ![c] = call'[c]],
         ret' = [ret EXCEPT ![c] = ret'[c]],
         resp' = [resp EXCEPT ![c] = resp'[c]],
         UNCHANGED <<affinity, slot, cur, out>>
  PROVE  SameView(d)
  BY Frame DEF SameFor, IInv, TypeOK

\* dispatch refuses a call: Refuse.
LEMMA RefinesRefused ==
  ASSUME IInv, IInv', NEW c \in Calls, DispatchRefused(c)
  PROVE  Interface!Refuse(c)
<1> USE DEF DispatchRefused, CallerReturns, slotVars, shutVars
<1>1. \A d \in Calls : d # c => SameView(d)
  BY OthersSame DEF IInv, TypeOK
<1>2. CallerOf(c) = "new" /\ CallerOf(c)' = "returned"
  BY DEF CallerOf, IInv, TypeOK
<1>3. ~InFlight(c)' /\ resp'[c] = Null
  BY DEF IInv, JobConservation, UnsentJobsNowhere, InFlight
<1>4. JobOf(c)' = "settled" /\ ResultOf(c)' = "closed"
  BY <1>3, ViewsNext DEF View, IInv, TypeOK
<1>5. Closed /\ Closed' = Closed
  BY DEF Closed
<1> QED
  BY <1>1, <1>2, <1>4, <1>5
  DEF SameView, Interface!Refuse, Interface!Return, Interface!Settle, IInv, TypeOK

\* dispatch admits a call: Admit.
LEMMA RefinesAdmitted ==
  ASSUME IInv, IInv', NEW c \in Calls, DispatchAdmitted(c)
  PROVE  Interface!Admit(c)
<1> USE DEF DispatchAdmitted, slotVars, shutVars
<1>1. \A d \in Calls : d # c => SameView(d)
  BY OthersSame DEF IInv, TypeOK
<1>2. CallerOf(c) = "new" /\ CallerOf(c)' = "waiting"
  BY DEF CallerOf, IInv, TypeOK
<1>3. JobOf(c)' = "queued" /\ ResultOf(c)' = Null
  BY ViewsNext DEF View, IInv, TypeOK
<1>4. ResultOf(c) = Null
  BY Views DEF View
<1>5. ~Closed /\ Closed' = Closed
  BY DEF Closed
<1> QED
  BY <1>1, <1>2, <1>3, <1>4, <1>5 DEF SameView, Interface!Admit, IInv, TypeOK

\* The send to the slot's channel changes where the job waits, no more.
LEMMA RefinesSendAffinity ==
  ASSUME IInv, IInv', NEW c \in Calls, SendAffinity(c)
  PROVE  UNCHANGED Interface!vars
<1> USE DEF SendAffinity, slotVars, shutVars
<1>1. slotFor(KeyOf[c]) \in Slots
  BY AffinedSlot DEF IInv, AffinityRouting
<1>2. affinity'[slotFor(KeyOf[c])] = c
  BY <1>1 DEF IInv, TypeOK
<1>3. \A d \in Calls : d # c => SameFor(d)
  BY <1>1, PoolAssumption DEF SameFor, IInv, TypeOK
<1>4. CallerOf(c) = "waiting" /\ CallerOf(c)' = "waiting" /\ ret'[c] = ret[c]
  BY DEF CallerOf, IInv, TypeOK
<1>5. JobOf(c) = "queued" /\ ResultOf(c) = Null
  BY Views DEF View
<1>6. JobOf(c)' = "queued" /\ ResultOf(c)' = Null
  BY <1>1, <1>2, ViewsNext DEF View
<1>7. \A d \in Calls : SameView(d)
  BY <1>3, <1>4, <1>5, <1>6, Frame DEF SameView
<1> QED
  BY <1>7, AllSame DEF Closed

\* Counting, and falling through to the shared channel, show nothing.
LEMMA RefinesQuietDispatch ==
  ASSUME IInv, IInv', NEW c \in Calls, CountHit(c) \/ FallThrough(c) \/ CountSpill(c)
  PROVE  UNCHANGED Interface!vars
<1>1. \A d \in Calls : SameFor(d)
  BY DEF CountHit, FallThrough, CountSpill, SameFor, slotVars, IInv, TypeOK
<1>2. Closed' = Closed
  BY DEF CountHit, FallThrough, CountSpill, shutVars, Closed
<1> QED
  BY <1>1, <1>2, Frame, AllSame

\* Fewer than Size jobs run while a slot is outside w.do.
LEMMA RoomToRun ==
  ASSUME IInv, NEW i \in Slots, slot[i] \notin {"write", "read"}
  PROVE  Cardinality({d \in Calls : JobOf(d) = "running"}) < Size
<1> DEFINE others == Slots \ {i}
           image == {cur[k] : k \in others}
           running == {d \in Calls : JobOf(d) = "running"}
<1>1. IsFiniteSet(Slots) /\ Cardinality(Slots) = Size
  BY PoolAssumption, FS_Interval DEF Slots
<1>2. IsFiniteSet(others) /\ Cardinality(others) = Size - 1
  BY <1>1, FS_RemoveElement
<1>3. IsFiniteSet(image) /\ Cardinality(image) <= Cardinality(others)
  <2> DEFINE f == [k \in others |-> cur[k]]
  <2>1. f \in Surjection(others, image)
    BY DEF Surjection
  <2> QED
    BY <1>2, <2>1, FS_Surjection
<1>4. running \subseteq image
  BY DEF JobOf, Running
<1>5. Cardinality(running) <= Cardinality(image) /\ Cardinality(running) \in Nat
  BY <1>3, <1>4, FS_Subset, FS_CardinalityType
<1> QED
  BY <1>2, <1>3, <1>5, FS_CardinalityType, PoolAssumption

\* Job c passes from a caller or a channel into the hands of slot i (taken),
\* or its worker has just become ready; nothing else changes.
Taken(c, i) ==
  /\ slot[i] \notin {"write", "read"}
  /\ JobOf(c) = "queued" /\ cur'[i] = c /\ out'[i] = Null
  /\ CallerOf(c)' = CallerOf(c) /\ ret'[c] = ret[c]
  /\ \A d \in Calls : d # c => SameView(d)
  /\ Closed' = Closed

\* A job in the hands of a slot with a worker runs, else it stays queued.
LEMMA RefinesTaken ==
  ASSUME IInv, IInv', NEW c \in Calls, NEW i \in Slots, Taken(c, i)
  PROVE  Interface!Run(c) \/ UNCHANGED Interface!vars
<1> USE DEF Taken
<1>1. ResultOf(c) = Null /\ ResultOf(c)' = Null
  BY ViewsNext DEF View, ResultOf
<1>2. CASE slot'[i] \in {"write", "read"}
  <2>1. JobOf(c)' = "running"
    BY <1>2, ViewsNext DEF View
  <2>2. Cardinality({d \in Calls : JobOf(d) = "running"}) < Size
    BY RoomToRun
  <2>3. {d \in Calls : [e \in Calls |-> JobOf(e)][d] = "running"}
          = {d \in Calls : JobOf(d) = "running"}
    OBVIOUS
  <2>4. \A S : Interface!Cardinality(S) = Cardinality(S)
    BY DEF Interface!Cardinality, Interface!IsFiniteSet, Cardinality, IsFiniteSet
  <2>5. Interface!Cardinality({d \in Calls : [e \in Calls |-> JobOf(e)][d] = "running"}) < Size
    BY <2>2, <2>3, <2>4
  <2>6. [d \in Calls |-> JobOf(d)]' = [[d \in Calls |-> JobOf(d)] EXCEPT ![c] = "running"]
    BY <2>1 DEF SameView
  <2>7. /\ UNCHANGED [d \in Calls |-> CallerOf(d)]
        /\ UNCHANGED [d \in Calls |-> ResultOf(d)]
    BY <1>1 DEF SameView
  <2>8. ret' = ret
    BY DEF SameView, IInv, TypeOK
  <2> QED
    BY <2>5, <2>6, <2>7, <2>8 DEF Interface!Run
<1>3. CASE slot'[i] \notin {"write", "read"}
  <2>1. JobOf(c)' = "queued"
    BY <1>3, ViewsNext DEF View
  <2> QED
    BY <1>1, <2>1, AllSame DEF SameView
<1> QED
  BY <1>2, <1>3

\* The send on the shared channel hands the job to an idle slot: Run.
LEMMA RefinesSendShared ==
  ASSUME IInv, IInv', NEW c \in Calls, NEW i \in Slots, SendShared(c, i)
  PROVE  Interface!Run(c) \/ UNCHANGED Interface!vars
<1> USE DEF SendShared, Receive, shutVars
<1>1. cur[i] = Null /\ out[i] = Null
  BY DEF IInv, SlotHands
<1>2. \A d \in Calls : d # c => SameFor(d)
  BY <1>1, PoolAssumption DEF SameFor, IInv, TypeOK
<1>3. JobOf(c) = "queued"
  BY Views DEF View
<1>4. CallerOf(c)' = CallerOf(c)
  BY DEF CallerOf, IInv, TypeOK
<1> QED
  BY <1>1, <1>2, <1>3, <1>4, Frame, RefinesTaken DEF Taken, Closed, IInv, TypeOK

\* The receive from the slot's own channel: Run.
LEMMA RefinesTakeAffinity ==
  ASSUME IInv, IInv', NEW i \in Slots, NEW c \in Calls, affinity[i] = c, TakeAffinity(i)
  PROVE  Interface!Run(c) \/ UNCHANGED Interface!vars
<1> USE DEF TakeAffinity, Receive, callVars, shutVars
<1>1. cur[i] = Null /\ out[i] = Null
  BY DEF IInv, SlotHands
<1>2. \A d \in Calls : d # c => SameFor(d)
  BY <1>1, PoolAssumption DEF SameFor, IInv, TypeOK
<1>3. JobOf(c) = "queued"
  BY Views DEF View
<1>4. CallerOf(c)' = CallerOf(c)
  BY DEF CallerOf, IInv, TypeOK
<1> QED
  BY <1>1, <1>2, <1>3, <1>4, Frame, RefinesTaken DEF Taken, Closed, IInv, TypeOK

\* A call leaves dispatch on a context before any slot took its job: Withdraw.
LEMMA RefinesWithdrawn ==
  ASSUME IInv, IInv', NEW c \in Calls, DispatchCanceled(c) \/ DispatchClosed(c)
  PROVE  Interface!Withdraw(c)
<1> USE DEF DispatchCanceled, DispatchClosed, CallerReturns, slotVars, shutVars
<1>1. \A d \in Calls : d # c => SameView(d)
  BY OthersSame DEF IInv, TypeOK
<1>2. CallerOf(c) = "waiting" /\ CallerOf(c)' = "returned"
  BY DEF CallerOf, IInv, TypeOK
<1>3. JobOf(c) = "queued" /\ ResultOf(c) = Null
  BY Views DEF View
<1>4. ~InFlight(c)' /\ resp'[c] = Null
  BY DEF IInv, JobConservation, UnsentJobsNowhere, InFlight
<1>5. JobOf(c)' = "settled" /\ ResultOf(c)' = ret'[c]
  BY <1>4, ViewsNext DEF View, IInv, TypeOK
<1>6. Closed' = Closed
  BY DEF Closed
<1>7. \/ c \in Cancelable /\ ret'[c] = "ctx"
      \/ Closed /\ ret'[c] = "closed"
  BY DEF IInv, TypeOK
<1>8. ASSUME NEW a, ret'[c] = a PROVE Interface!Return(c, a) /\ Interface!Settle(c, a)
  <2>1. ret' = [ret EXCEPT ![c] = a]
    BY <1>8 DEF IInv, TypeOK
  <2> QED
    BY <1>1, <1>2, <1>5, <1>8, <2>1 DEF SameView, Interface!Return, Interface!Settle
<1> QED
  BY <1>2, <1>3, <1>6, <1>7, <1>8 DEF Interface!Withdraw

\* The caller takes the reply, which is the result of its own job: Answer.
LEMMA RefinesTakeReply ==
  ASSUME IInv, IInv', NEW c \in Calls, TakeReply(c)
  PROVE  Interface!Answer(c)
<1> USE DEF TakeReply, CallerReturns, slotVars, shutVars
<1>1. \A d \in Calls : d # c => SameView(d)
  BY OthersSame DEF IInv, TypeOK
<1>2. CallerOf(c) = "waiting" /\ CallerOf(c)' = "returned"
  BY DEF CallerOf, IInv, TypeOK
<1>3. ~InFlight(c) /\ ~InFlight(c)' /\ resp'[c] = Null
  BY DEF IInv, TypeOK, JobConservation, AcceptedJobsKept, InFlight
<1>4. JobOf(c) = "settled" /\ ResultOf(c) = resp[c]
  BY <1>3, Views DEF View
<1>5. JobOf(c)' = "settled" /\ ResultOf(c)' = resp[c]
  BY <1>3, ViewsNext DEF View, IInv, TypeOK
<1>6. Closed' = Closed
  BY DEF Closed
<1>7. ret' = [ret EXCEPT ![c] = ResultOf(c)]
  BY <1>4 DEF IInv, TypeOK
<1>8. [d \in Calls |-> CallerOf(d)]' = [[d \in Calls |-> CallerOf(d)] EXCEPT ![c] = "returned"]
  BY <1>1, <1>2 DEF SameView
<1>9. UNCHANGED [d \in Calls |-> JobOf(d)] /\ UNCHANGED [d \in Calls |-> ResultOf(d)]
  BY <1>1, <1>4, <1>5 DEF SameView
<1> QED
  BY <1>2, <1>4, <1>6, <1>7, <1>8, <1>9 DEF Interface!Answer, Interface!Return

\* The caller leaves on its own context, its job stays: GiveUp.
LEMMA RefinesAbandon ==
  ASSUME IInv, IInv', NEW c \in Calls, Abandon(c)
  PROVE  Interface!GiveUp(c)
<1> USE DEF Abandon, CallerReturns, slotVars, shutVars
<1>1. \A d \in Calls : d # c => SameView(d)
  BY OthersSame DEF IInv, TypeOK
<1>2. CallerOf(c) = "waiting" /\ CallerOf(c)' = "returned"
  BY DEF CallerOf, IInv, TypeOK
<1>3. JobOf(c)' = JobOf(c)
  BY DEF JobOf, Queued, Running, IInv, TypeOK
<1>4. ResultOf(c)' = ResultOf(c)
  <2>1. InFlight(c) \/ resp[c] # Null
    BY DEF IInv, JobConservation, AcceptedJobsKept
  <2>2. CASE InFlight(c)
    BY <1>3, <2>2, Views, ViewsNext DEF View, InFlight
  <2>3. CASE ~InFlight(c)
    BY <1>3, <2>1, <2>3, Views, ViewsNext DEF View, InFlight, IInv, TypeOK
  <2> QED
    BY <2>2, <2>3
<1>5. Closed' = Closed
  BY DEF Closed
<1> QED
  BY <1>1, <1>2, <1>3, <1>4, <1>5
  DEF SameView, Interface!GiveUp, Interface!Return, IInv, TypeOK

\* Starting a worker, writing a request and a slot's exit show nothing.
LEMMA RefinesQuietSlot ==
  ASSUME IInv, IInv', NEW i \in Slots,
         SpawnTries(i) \/ StartFails(i) \/ WriteSucceeds(i) \/ SlotExits(i)
  PROVE  UNCHANGED Interface!vars
<1>1. \A d \in Calls : SameFor(d)
  BY DEF SpawnTries, StartFails, WriteSucceeds, SlotExits, SameFor, callVars, IInv, TypeOK
<1>2. Closed' = Closed
  BY DEF SpawnTries, StartFails, WriteSucceeds, SlotExits, shutVars, Closed
<1> QED
  BY <1>1, <1>2, Frame, AllSame

\* The result of job c is settled by a step that leaves the other calls alone.
Settled(c, r) ==
  /\ JobOf(c)' = "settled" /\ ResultOf(c)' = r
  /\ CallerOf(c)' = CallerOf(c) /\ ret' = ret
  /\ \A d \in Calls : d # c => SameView(d)
  /\ Closed' = Closed

\* That is what the interface calls Settle, with its callers left alone.
LEMMA SettledSettles ==
  ASSUME IInv, IInv', NEW c \in Calls, NEW r, Settled(c, r)
  PROVE  /\ Interface!Settle(c, r)
         /\ UNCHANGED <<[d \in Calls |-> CallerOf(d)], ret, Closed>>
  BY DEF Settled, SameView, Interface!Settle

\* A job that waited for a worker in vain is answered: Discard.
LEMMA RefinesSpawnGivesUp ==
  ASSUME IInv, IInv', NEW i \in Slots, SpawnGivesUp(i)
  PROVE  UNCHANGED Interface!vars \/ \E c \in Calls : Interface!Discard(c)
<1> USE DEF SpawnGivesUp, shutVars
<1>1. CASE cur[i] = Null \/ out[i] # Null
  <2>1. \A d \in Calls : SameFor(d)
    BY <1>1 DEF SameFor, callVars, IInv, TypeOK
  <2> QED
    BY <2>1, Frame, AllSame, <1>1 DEF Closed
<1>2. ASSUME NEW c \in Calls, cur[i] = c, out[i] = Null, c # Null PROVE Interface!Discard(c)
  <2>1. JobOf(c) = "queued"
    BY <1>2, Views DEF View
  <2>2. \A d \in Calls : d # c => SameFor(d)
    BY <1>2, PoolAssumption DEF SameFor, IInv, TypeOK
  <2>3. InFlight(c)
    BY <1>2 DEF InFlight
  <2>4. call[c] \notin {"new", "affinity", "shared"} /\ ~InFlight(c)' /\ resp'[c] = "unavailable"
    <3>1. call[c] \notin {"new", "affinity", "shared"}
      BY <2>3 DEF IInv, JobConservation, UnsentJobsNowhere
    <3>2. \A k \in Slots : affinity[k] # c /\ (cur[k] = c => k = i)
      BY <1>2 DEF IInv, JobConservation, JobsInOnePlace
    <3>3. ~InFlight(c)'
      BY <1>2, <3>2, PoolAssumption DEF InFlight, IInv, TypeOK
    <3> QED
      BY <1>2, <3>1, <3>3 DEF IInv, TypeOK
  <2>5. JobOf(c)' = "settled" /\ ResultOf(c)' = "unavailable"
    BY <1>2, <2>4, ViewsNext, PoolAssumption DEF View, Replies
  <2>6. CallerOf(c)' = CallerOf(c) /\ ret' = ret /\ Closed /\ Closed' = Closed
    BY <1>2 DEF CallerOf, Closed
  <2>7. Settled(c, "unavailable")
    BY <2>2, <2>5, <2>6, Frame DEF Settled
  <2> QED
    BY <2>1, <2>6, <2>7, SettledSettles DEF Interface!Discard
<1> QED
  BY <1>1, <1>2 DEF IInv, TypeOK

\* A worker is ready: the job that waited for it, if any, is run.
LEMMA RefinesStartSucceeds ==
  ASSUME IInv, IInv', NEW i \in Slots, StartSucceeds(i)
  PROVE  UNCHANGED Interface!vars \/ \E c \in Calls : Interface!Run(c)
<1> USE DEF StartSucceeds, shutVars, callVars
<1>1. CASE cur[i] = Null \/ out[i] # Null
  <2>1. \A d \in Calls : SameFor(d)
    BY <1>1, PoolAssumption DEF SameFor, IInv, TypeOK
  <2> QED
    BY <2>1, Frame, AllSame DEF Closed
<1>2. ASSUME NEW c \in Calls, cur[i] = c, out[i] = Null
      PROVE  UNCHANGED Interface!vars \/ Interface!Run(c)
  <2>1. JobOf(c) = "queued"
    BY <1>2, Views DEF View
  <2>2. \A d \in Calls : d # c => SameFor(d)
    BY <1>2 DEF SameFor, IInv, TypeOK
  <2>3. CallerOf(c)' = CallerOf(c)
    BY DEF CallerOf
  <2> QED
    BY <1>2, <2>1, <2>2, <2>3, Frame, RefinesTaken DEF Taken, Closed
<1> QED
  BY <1>1, <1>2 DEF IInv, TypeOK

\* w.do returns, with a result or an error: Finish.
LEMMA RefinesDo ==
  ASSUME IInv, IInv', NEW i \in Slots, slot[i] \in {"write", "read"},
         NEW r \in {"ok"} \cup DoErrors, r = "canceled" => Closed,
         (DoSucceeds(i) /\ r = "ok") \/ DoFails(i, r)
  PROVE  \E c \in Calls : Interface!Finish(c)
<1> USE DEF DoSucceeds, DoFails, callVars, shutVars
<1>1. PICK c \in Calls : cur[i] = c
  BY DEF IInv, TypeOK, SlotHands
<1>2. JobOf(c) = "running"
  BY <1>1, Views DEF View
<1>3. cur'[i] = c /\ out'[i] = r
  BY <1>1 DEF IInv, TypeOK
<1>4. JobOf(c)' = "settled" /\ ResultOf(c)' = r
  BY <1>3, ViewsNext, PoolAssumption DEF View, Replies
<1>5. \A d \in Calls : d # c => SameFor(d)
  BY <1>1 DEF SameFor, IInv, TypeOK
<1>6. CallerOf(c)' = CallerOf(c) /\ ret' = ret /\ Closed' = Closed
  BY DEF CallerOf, Closed
<1>7. Settled(c, r)
  BY <1>4, <1>5, <1>6, Frame DEF Settled
<1>8. r \in {"ok"} \cup Interface!Failures \cup (IF Closed THEN {"canceled"} ELSE {})
  BY DEF DoErrors, Interface!Failures
<1> QED
  BY <1>2, <1>7, <1>8, SettledSettles DEF Interface!Finish

\* The reply moves the settled result to the reply channel, no more.
LEMMA RefinesReply ==
  ASSUME IInv, IInv', NEW i \in Slots, Reply(i)
  PROVE  UNCHANGED Interface!vars
<1> USE DEF Reply, shutVars
<1>1. PICK c \in Calls : cur[i] = c
  BY DEF IInv, TypeOK, SlotHands
<1>2. out[i] # Null
  BY DEF IInv, SlotHands
<1>3. JobOf(c) = "settled" /\ ResultOf(c) = out[i]
  BY <1>1, <1>2, Views DEF View
<1>4. call[c] \notin {"new", "affinity", "shared"}
  BY <1>1 DEF IInv, JobConservation, UnsentJobsNowhere, InFlight
<1>5. ~InFlight(c)' /\ resp'[c] = out[i]
  <2>1. \A k \in Slots : affinity[k] # c /\ (cur[k] = c => k = i)
    BY <1>1, PoolAssumption DEF IInv, JobConservation, JobsInOnePlace
  <2> QED
    BY <1>1, <2>1, PoolAssumption DEF InFlight, IInv, TypeOK
<1>6. JobOf(c)' = "settled" /\ ResultOf(c)' = out[i]
  BY <1>2, <1>4, <1>5, ViewsNext DEF View
<1>7. \A d \in Calls : d # c => SameFor(d)
  BY <1>1, PoolAssumption DEF SameFor, IInv, TypeOK
<1>8. CallerOf(c)' = CallerOf(c) /\ ret'[c] = ret[c] /\ Closed' = Closed
  BY DEF CallerOf, Closed
<1> QED
  BY <1>3, <1>6, <1>7, <1>8, Frame, AllSame DEF SameView

\* Shutdown shows its first step (Close) and the jobs it drains (Discard).
LEMMA RefinesShutdown ==
  ASSUME IInv, IInv', ShutdownNext
  PROVE  UNCHANGED Interface!vars \/ Interface!Close \/ \E c \in Calls : Interface!Discard(c)
<1>1. CASE ShutdownCancels
  <2>1. \A d \in Calls : SameFor(d)
    BY <1>1 DEF ShutdownCancels, SameFor, callVars, slotVars
  <2>2. ~Closed /\ Closed'
    BY <1>1 DEF ShutdownCancels, Closed
  <2>3. \A d \in Calls : SameView(d)
    BY <2>1, Frame
  <2>4. ret' = ret
    BY <1>1 DEF ShutdownCancels, callVars
  <2> QED
    BY <2>2, <2>3, <2>4 DEF SameView, Interface!Close, Closed
<1>2. CASE ShutdownWaited \/ DrainNext \/ ShutdownReturns
  <2>1. \A d \in Calls : SameFor(d)
    BY <1>2 DEF ShutdownWaited, DrainNext, ShutdownReturns, SameFor, callVars, slotVars
  <2>2. Closed' = Closed
    BY <1>2 DEF ShutdownWaited, DrainNext, ShutdownReturns, Closed
  <2> QED
    BY <2>1, <2>2, Frame, AllSame
<1>3. CASE DrainJob
  <2> USE <1>3 DEF DrainJob, slotVars, shutVars
  <2>1. drainAt \in Slots
    BY DEF IInv, TypeOK, Slots
  <2>2. PICK c \in Calls : affinity[drainAt] = c
    BY <2>1 DEF IInv, TypeOK
  <2>3. JobOf(c) = "queued"
    BY <2>1, <2>2, Views DEF View
  <2>4. call[c] \notin {"new", "affinity", "shared"}
    BY <2>1, <2>2 DEF IInv, JobConservation, UnsentJobsNowhere, InFlight
  <2>5. ~InFlight(c)' /\ resp'[c] = "closed"
    <3>1. \A k \in Slots : cur[k] # c /\ (affinity[k] = c => k = drainAt)
      BY <2>1, <2>2, PoolAssumption DEF IInv, JobConservation, JobsInOnePlace
    <3> QED
      BY <2>1, <2>2, <3>1, PoolAssumption DEF InFlight, IInv, TypeOK
  <2>6. JobOf(c)' = "settled" /\ ResultOf(c)' = "closed"
    BY <2>4, <2>5, ViewsNext, PoolAssumption DEF View, Replies
  <2>7. \A d \in Calls : d # c => SameFor(d)
    BY <2>1, <2>2, PoolAssumption DEF SameFor, IInv, TypeOK
  <2>8. CallerOf(c)' = CallerOf(c) /\ ret' = ret /\ Closed /\ Closed' = Closed
    BY DEF CallerOf, Closed
  <2>9. Settled(c, "closed")
    BY <2>6, <2>7, <2>8, Frame DEF Settled
  <2> QED
    BY <2>3, <2>8, <2>9, SettledSettles DEF Interface!Discard
<1> QED
  BY <1>1, <1>2, <1>3 DEF ShutdownNext

-----------------------------------------------------------------------------
(* The refinement.                                                         *)

\* Every step of a call is a step of the interface, or shows nothing.
LEMMA RefinesCompress ==
  ASSUME IInv, IInv', NEW c \in Calls, CompressNext(c)
  PROVE  Interface!Next \/ UNCHANGED Interface!vars
  BY RefinesRefused, RefinesAdmitted, RefinesSendAffinity, RefinesQuietDispatch, RefinesSendShared,
     RefinesWithdrawn, RefinesTakeReply, RefinesAbandon
  DEF CompressNext, DispatchNext, Interface!Next

\* Every step of a slot is a step of the interface, or shows nothing.
LEMMA RefinesSlot ==
  ASSUME IInv, IInv', NEW i \in Slots, SlotNext(i)
  PROVE  Interface!Next \/ UNCHANGED Interface!vars
<1>1. CASE TakeAffinity(i)
  <2>1. PICK c \in Calls : affinity[i] = c
    BY <1>1 DEF TakeAffinity, IInv, TypeOK
  <2> QED
    BY <1>1, <2>1, RefinesTakeAffinity DEF Interface!Next
<1>2. CASE SpawnNext(i)
  BY <1>2, RefinesQuietSlot, RefinesSpawnGivesUp, RefinesStartSucceeds
  DEF SpawnNext, Interface!Next
<1>3. CASE DoNext(i)
  <2>1. CASE WriteSucceeds(i)
    BY <2>1, RefinesQuietSlot
  <2>2. CASE DoSucceeds(i)
    <3>1. slot[i] \in {"write", "read"}
      BY <2>2 DEF DoSucceeds
    <3> QED
      BY <2>2, <3>1, RefinesDo DEF Interface!Next
  <2>3. ASSUME NEW e \in DoErrors, slot[i] \in {"write", "read"}, e = "canceled" => Closed,
               DoFails(i, e)
        PROVE  Interface!Next
    BY <2>3, RefinesDo DEF Interface!Next
  <2> QED
    BY <1>3, <2>1, <2>2, <2>3
    DEF DoNext, WriteFails, WorkerFails, HardCapExpires, PoolCtxCancels, DoErrors
<1>4. CASE Reply(i) \/ SlotExits(i)
  BY <1>4, RefinesReply, RefinesQuietSlot
<1> QED
  BY <1>1, <1>2, <1>3, <1>4 DEF SlotNext

\* The initial state shows no call, no job and an open compressor.
LEMMA RefinesInit == Init => Interface!Init
<1> SUFFICES ASSUME Init PROVE Interface!Init
  OBVIOUS
<1>1. \A c \in Calls : JobOf(c) = "none" /\ ResultOf(c) = Null
  BY InitIInv, Views DEF View, Init
<1>2. \A c \in Calls : CallerOf(c) = "new"
  BY DEF CallerOf, Init
<1> QED
  BY <1>1, <1>2 DEF Interface!Init, Init, Closed

\* The pool implements its interface: with any number of slots and calls, a
\* job runs at most once, at most Size jobs run together, a caller gets the
\* result of its own job, and no answer speaks of shutdown before Shutdown.
THEOREM PoolImplementsCompressor == Spec => ImplementsCompressor
<1>1. IInv /\ IInv' /\ [Next]_vars => [Interface!Next]_(Interface!vars)
  <2> SUFFICES ASSUME IInv, IInv', [Next]_vars
               PROVE  Interface!Next \/ UNCHANGED Interface!vars
    OBVIOUS
  <2>1. CASE Terminated \/ UNCHANGED vars
    <3>1. \A d \in Calls : SameFor(d)
      BY <2>1 DEF Terminated, vars, callVars, slotVars, SameFor
    <3>2. Closed' = Closed
      BY <2>1 DEF Terminated, vars, shutVars, Closed
    <3> QED
      BY <3>1, <3>2, Frame, AllSame
  <2>2. CASE ShutdownNext
    BY <2>2, RefinesShutdown DEF Interface!Next
  <2> QED
    BY <2>1, <2>2, RefinesCompress, RefinesSlot DEF Next
<1> QED
  BY RefinesInit, InvariantHolds, <1>1, PTL DEF Spec, ImplementsCompressor, Interface!Spec
=============================================================================
