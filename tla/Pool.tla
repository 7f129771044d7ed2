-------------------------------- MODULE Pool --------------------------------
(***************************************************************************)
(* The worker pool of tsheadroom (src/pool.go): callers of Compress, the   *)
(* slot goroutines that each own one worker process, the channels between  *)
(* them and Shutdown.                                                      *)
(*                                                                         *)
(* A member of Calls is one execution of Pool.Compress together with the   *)
(* job it submits.  A conversation is a key shared by several calls.  The  *)
(* stdio exchange with the worker process is seen here only through what   *)
(* worker.do and startWorker return.                                       *)
(*                                                                         *)
(* Channels.  affinity[i] is a channel of depth 1, so its content is one   *)
(* job or Null.  The shared channel is unbuffered: a send on it is one     *)
(* step with the receive of a slot that is in its select.  Handing a job   *)
(* over affinity[i] to a receiver that is already parked is the send       *)
(* followed at once by that slot's receive.                                *)
(*                                                                         *)
(* A definition named X_Slip for an action X (SpawnGivesUp_Silently) is X  *)
(* with a plausible slip in the code.  It is no part of the specification: *)
(* it stands in for X to show that a property below notices the slip.      *)
(***************************************************************************)
EXTENDS Integers, FiniteSets

CONSTANTS
  Size,            \* number of slots (-pool-size)
  Calls,           \* executions of Compress
  Cancelable,      \* the calls whose request context may be cancelled
  Keys, NoKey,     \* affinity keys, and the empty key
  KeyOf,           \* the AffinityKey of each call
  Hash,            \* the FNV-32a hash of each key
  AffinityEnabled, \* FALSE under -no-affinity
  Versions,        \* headroom-ai versions a worker may report
  Null

\* How w.do fails: a worker fault (crash, error reply, wrong id, no result),
\* the hard cap, or the pool's context being cancelled under it.
DoErrors == {"fault", "cap", "canceled"}
\* What is sent on j.resp.
Replies == {"ok", "unavailable", "closed"} \cup DoErrors

ASSUME PoolAssumption ==
  /\ Size \in Nat \ {0}
  /\ Cancelable \subseteq Calls
  /\ NoKey \notin Keys
  /\ KeyOf \in [Calls -> Keys \cup {NoKey}]
  /\ Hash \in [Keys -> Nat]
  /\ AffinityEnabled \in BOOLEAN
  /\ Null \notin Calls \cup Versions \cup Replies

\* Only what counts calls depends on this.
ASSUME FinitelyManyCalls == IsFiniteSet(Calls)

VARIABLES
  \* Compress and dispatch
  call,            \* call[c]: where the caller is
  ret,             \* ret[c]: what Compress returned to it
  resp,            \* resp[c]: the job's reply channel, of depth 1
  affinity,        \* affinity[i]: slot i's channel, of depth 1
  affinityHits, affinitySpills,
  \* runSlot and spawn
  slot,            \* slot[i]: where slot i's goroutine is
  cur,             \* cur[i]: the job j it holds
  out,             \* out[i]: the outcome of w.do not yet sent on j.resp
  worker,          \* worker[i]: w # nil
  busy,            \* slots running a compression (a gauge)
  headroomVer,     \* the version workers reported, Null until one did
  \* Shutdown
  shut,            \* where the caller of Shutdown is
  drainAt          \* index of the channel it drains

callVars == <<call, ret, resp, affinityHits, affinitySpills>>
slotVars == <<slot, cur, out, worker, busy, headroomVer>>
shutVars == <<shut, drainAt>>
vars == <<callVars, affinity, slotVars, shutVars>>

Slots == 0..(Size - 1)

CallStates == {"new", "affinity", "shared", "hit", "spill", "wait", "returned"}
SlotStates == {"spawn", "start", "idle", "write", "read", "reply", "done"}

slotFor(k) == IF Size <= 1 THEN 0 ELSE Hash[k] % Size

affined(c) == AffinityEnabled /\ KeyOf[c] # NoKey

\* p.ctx.Done() is ready.
Closed == shut # "running"

Init ==
  /\ call = [c \in Calls |-> "new"]
  /\ ret = [c \in Calls |-> Null]
  /\ resp = [c \in Calls |-> Null]
  /\ affinity = [i \in Slots |-> Null]
  /\ affinityHits = 0
  /\ affinitySpills = 0
  /\ slot = [i \in Slots |-> "spawn"]
  /\ cur = [i \in Slots |-> Null]
  /\ out = [i \in Slots |-> Null]
  /\ worker = [i \in Slots |-> FALSE]
  /\ busy = 0
  /\ headroomVer = Null
  /\ shut = "running"
  /\ drainAt = 0

-----------------------------------------------------------------------------
(* Compress and dispatch.                                                  *)

\* An early return that leaves err nil.
CallerReturns_NoError(c, r) ==
  /\ call' = [call EXCEPT ![c] = "returned"]
  /\ ret' = [ret EXCEPT ![c] = "nil"]

CallerReturns(c, r) ==
  /\ call' = [call EXCEPT ![c] = "returned"]
  /\ ret' = [ret EXCEPT ![c] = r]

\* The first select of dispatch: fail fast when the pool is shutting down ...
DispatchRefused(c) ==
  /\ call[c] = "new"
  /\ Closed
  /\ CallerReturns(c, "closed")
  /\ UNCHANGED <<resp, affinity, affinityHits, affinitySpills, slotVars, shutVars>>

\* ... or go on.  The sends below no longer look at what was checked here.
DispatchAdmitted(c) ==
  /\ call[c] = "new"
  /\ ~Closed
  /\ call' = [call EXCEPT ![c] = IF affined(c) THEN "affinity" ELSE "shared"]
  /\ UNCHANGED <<ret, resp, affinity, affinityHits, affinitySpills, slotVars, shutVars>>

\* The non-blocking send to the conversation's slot succeeds ...
SendAffinity(c) ==
  /\ call[c] = "affinity"
  /\ affinity[slotFor(KeyOf[c])] = Null
  /\ affinity' = [affinity EXCEPT ![slotFor(KeyOf[c])] = c]
  /\ call' = [call EXCEPT ![c] = "hit"]
  /\ UNCHANGED <<ret, resp, affinityHits, affinitySpills, slotVars, shutVars>>

\* ... and is counted after the job is out of the caller's hands.
CountHit(c) ==
  /\ call[c] = "hit"
  /\ affinityHits' = affinityHits + 1
  /\ call' = [call EXCEPT ![c] = "wait"]
  /\ UNCHANGED <<ret, resp, affinity, affinitySpills, slotVars, shutVars>>

\* The spill is counted before the shared channel took the job.
FallThrough_CountsEarly(c) ==
  /\ call[c] = "affinity"
  /\ affinity[slotFor(KeyOf[c])] # Null
  /\ call' = [call EXCEPT ![c] = "shared"]
  /\ affinitySpills' = affinitySpills + 1
  /\ UNCHANGED <<ret, resp, affinity, affinityHits, slotVars, shutVars>>

\* The slot's channel is full: fall through to the shared channel.
FallThrough(c) ==
  /\ call[c] = "affinity"
  /\ affinity[slotFor(KeyOf[c])] # Null
  /\ call' = [call EXCEPT ![c] = "shared"]
  /\ UNCHANGED <<ret, resp, affinity, affinityHits, affinitySpills, slotVars, shutVars>>

\* A slot in its select receives job c: with a worker it starts the call,
\* without one it goes through spawn first.
Receive(i, c) ==
  /\ slot[i] = "idle"
  /\ cur' = [cur EXCEPT ![i] = c]
  /\ slot' = [slot EXCEPT ![i] = IF worker[i] THEN "write" ELSE "spawn"]
  /\ busy' = IF worker[i] THEN busy + 1 ELSE busy
  /\ UNCHANGED <<out, worker, headroomVer>>

\* The blocking select of dispatch: some slot takes the job ...
SendShared(c, i) ==
  /\ call[c] = "shared"
  /\ Receive(i, c)
  /\ call' = [call EXCEPT ![c] = IF affined(c) THEN "spill" ELSE "wait"]
  /\ UNCHANGED <<ret, resp, affinity, affinityHits, affinitySpills, shutVars>>

CountSpill(c) ==
  /\ call[c] = "spill"
  /\ affinitySpills' = affinitySpills + 1
  /\ call' = [call EXCEPT ![c] = "wait"]
  /\ UNCHANGED <<ret, resp, affinity, affinityHits, slotVars, shutVars>>

\* ... or the request context is done, or the pool's.
DispatchCanceled(c) ==
  /\ call[c] = "shared"
  /\ c \in Cancelable
  /\ CallerReturns(c, "ctx")
  /\ UNCHANGED <<resp, affinity, affinityHits, affinitySpills, slotVars, shutVars>>

\* The blocking select has no case for p.ctx.Done().
DispatchClosed_NoCase(c) == FALSE

DispatchClosed(c) ==
  /\ call[c] = "shared"
  /\ Closed
  /\ CallerReturns(c, "closed")
  /\ UNCHANGED <<resp, affinity, affinityHits, affinitySpills, slotVars, shutVars>>

\* The select of Compress: the job's reply, or the request context.  In the
\* second case the job stays where it is and is still run.
TakeReply(c) ==
  /\ call[c] = "wait"
  /\ resp[c] # Null
  /\ CallerReturns(c, resp[c])
  /\ resp' = [resp EXCEPT ![c] = Null]
  /\ UNCHANGED <<affinity, affinityHits, affinitySpills, slotVars, shutVars>>

\* w.do runs under the request context, and the worker is recycled with it.
Abandon_KillsWorker(c) ==
  /\ call[c] = "wait"
  /\ c \in Cancelable
  /\ CallerReturns(c, "ctx")
  /\ \E i \in Slots :
       /\ cur[i] = c /\ slot[i] \in {"write", "read"}
       /\ out' = [out EXCEPT ![i] = "canceled"]
       /\ worker' = [worker EXCEPT ![i] = FALSE]
       /\ slot' = [slot EXCEPT ![i] = "spawn"]
  /\ busy' = busy - 1
  /\ UNCHANGED <<resp, affinity, affinityHits, affinitySpills, cur, headroomVer, shutVars>>

Abandon(c) ==
  /\ call[c] = "wait"
  /\ c \in Cancelable
  /\ CallerReturns(c, "ctx")
  /\ UNCHANGED <<resp, affinity, affinityHits, affinitySpills, slotVars, shutVars>>

-----------------------------------------------------------------------------
(* runSlot and spawn.  spawn is called before the loop (no job in hand),   *)
(* when a job arrives and w is nil (a job, no outcome), and after a failed *)
(* call (a job and its error); cur and out say which.                      *)

TakeAffinity(i) ==
  /\ affinity[i] # Null
  /\ Receive(i, affinity[i])
  /\ affinity' = [affinity EXCEPT ![i] = Null]
  /\ UNCHANGED <<callVars, shutVars>>

\* Head of spawn's loop: the pool is open, so startWorker runs ...
SpawnTries(i) ==
  /\ slot[i] = "spawn"
  /\ ~Closed
  /\ slot' = [slot EXCEPT ![i] = "start"]
  /\ UNCHANGED <<callVars, affinity, cur, out, worker, busy, headroomVer, shutVars>>

\* runSlot returns without answering the job that waited for a worker.
SpawnGivesUp_Silently(i) ==
  /\ slot[i] = "spawn"
  /\ Closed
  /\ cur' = [cur EXCEPT ![i] = IF out[i] = Null THEN Null ELSE cur[i]]
  /\ slot' = [slot EXCEPT ![i] = IF cur[i] = Null THEN "idle"
                                 ELSE IF out[i] = Null THEN "done" ELSE "reply"]
  /\ UNCHANGED <<callVars, affinity, out, worker, busy, headroomVer, shutVars>>

\* ... or it is closed and spawn returns nil.  A job that was waiting for a
\* worker is answered here and the goroutine returns.
SpawnGivesUp(i) ==
  /\ slot[i] = "spawn"
  /\ Closed
  /\ IF cur[i] # Null /\ out[i] = Null
     THEN /\ resp[cur[i]] = Null
          /\ resp' = [resp EXCEPT ![cur[i]] = "unavailable"]
          /\ cur' = [cur EXCEPT ![i] = Null]
          /\ slot' = [slot EXCEPT ![i] = "done"]
     ELSE /\ slot' = [slot EXCEPT ![i] = IF cur[i] = Null THEN "idle" ELSE "reply"]
          /\ UNCHANGED <<resp, cur>>
  /\ UNCHANGED <<call, ret, affinityHits, affinitySpills, affinity, out, worker, busy,
                 headroomVer, shutVars>>

\* startWorker succeeds (it does not watch p.ctx) and spawn returns w.
StartSucceeds(i) ==
  /\ slot[i] = "start"
  /\ worker' = [worker EXCEPT ![i] = TRUE]
  /\ \E v \in Versions \cup {Null} : headroomVer' = IF v = Null THEN headroomVer ELSE v
  /\ slot' = [slot EXCEPT ![i] = IF cur[i] = Null THEN "idle"
                                 ELSE IF out[i] = Null THEN "write" ELSE "reply"]
  /\ busy' = IF cur[i] # Null /\ out[i] = Null THEN busy + 1 ELSE busy
  /\ UNCHANGED <<callVars, affinity, cur, out, shutVars>>

\* spawn returns nil after one failed start.
StartFails_GivesUp(i) ==
  /\ slot[i] = "start"
  /\ slot' = [slot EXCEPT ![i] = IF cur[i] = Null THEN "idle" ELSE "reply"]
  /\ UNCHANGED <<callVars, affinity, cur, out, worker, busy, headroomVer, shutVars>>

\* startWorker fails or times out; spawn waits its backoff out and loops.
StartFails(i) ==
  /\ slot[i] = "start"
  /\ slot' = [slot EXCEPT ![i] = "spawn"]
  /\ UNCHANGED <<callVars, affinity, cur, out, worker, busy, headroomVer, shutVars>>

\* The failed job is run again on the new worker, and counted again.
DoFails_Retries(i, e) ==
  /\ worker' = [worker EXCEPT ![i] = FALSE]
  /\ slot' = [slot EXCEPT ![i] = "spawn"]
  /\ UNCHANGED <<callVars, affinity, cur, out, busy, headroomVer, shutVars>>

\* w.do returned an error: the worker is killed and reaped, and the slot
\* goes to spawn before the job is answered.
DoFails(i, e) ==
  /\ out' = [out EXCEPT ![i] = e]
  /\ worker' = [worker EXCEPT ![i] = FALSE]
  /\ slot' = [slot EXCEPT ![i] = "spawn"]
  /\ busy' = busy - 1
  /\ UNCHANGED <<callVars, affinity, cur, headroomVer, shutVars>>

\* w.do's write to the worker's stdin ends when the worker has read the
\* request or is dead; it looks at no context.
WriteSucceeds(i) ==
  /\ slot[i] = "write"
  /\ slot' = [slot EXCEPT ![i] = "read"]
  /\ UNCHANGED <<callVars, affinity, cur, out, worker, busy, headroomVer, shutVars>>

WriteFails(i) == slot[i] = "write" /\ DoFails(i, "fault")

\* w.do's readLine: a good response, a bad one or none, or hardCtx is done,
\* by its timeout or because it derives from the pool's context.
DoSucceeds(i) ==
  /\ slot[i] = "read"
  /\ out' = [out EXCEPT ![i] = "ok"]
  /\ slot' = [slot EXCEPT ![i] = "reply"]
  /\ busy' = busy - 1
  /\ UNCHANGED <<callVars, affinity, cur, worker, headroomVer, shutVars>>

WorkerFails(i) == slot[i] = "read" /\ DoFails(i, "fault")

HardCapExpires(i) == slot[i] = "read" /\ DoFails(i, "cap")

PoolCtxCancels(i) == slot[i] = "read" /\ Closed /\ DoFails(i, "canceled")

\* j.resp <- jobResult, a send on a channel of depth 1.
Reply(i) ==
  /\ slot[i] = "reply"
  /\ resp[cur[i]] = Null
  /\ resp' = [resp EXCEPT ![cur[i]] = out[i]]
  /\ cur' = [cur EXCEPT ![i] = Null]
  /\ out' = [out EXCEPT ![i] = Null]
  /\ slot' = [slot EXCEPT ![i] = "idle"]
  /\ UNCHANGED <<call, ret, affinityHits, affinitySpills, affinity, worker, busy,
                 headroomVer, shutVars>>

\* runSlot's select has no case for p.ctx.Done().
SlotExits_NoCase(i) == FALSE

\* The slot's select takes p.ctx.Done(): its worker is shut down, then
\* wg.Done is called (the two deferred calls).
SlotExits(i) ==
  /\ slot[i] = "idle"
  /\ Closed
  /\ worker' = [worker EXCEPT ![i] = FALSE]
  /\ slot' = [slot EXCEPT ![i] = "done"]
  /\ UNCHANGED <<callVars, affinity, cur, out, busy, headroomVer, shutVars>>

-----------------------------------------------------------------------------
(* Shutdown and drainBuffered.                                             *)

ShutdownCancels ==
  /\ shut = "running"
  /\ shut' = "waiting"
  /\ UNCHANGED <<callVars, affinity, slotVars, drainAt>>

\* Shutdown does not wait for the slots.
ShutdownWaited_NoWait ==
  /\ shut = "waiting"
  /\ shut' = "draining"
  /\ UNCHANGED <<callVars, affinity, slotVars, drainAt>>

ShutdownWaited ==
  /\ shut = "waiting"
  /\ \A i \in Slots : slot[i] = "done"
  /\ shut' = "draining"
  /\ UNCHANGED <<callVars, affinity, slotVars, drainAt>>

DrainJob ==
  /\ shut = "draining"
  /\ drainAt < Size
  /\ affinity[drainAt] # Null
  /\ resp[affinity[drainAt]] = Null
  /\ resp' = [resp EXCEPT ![affinity[drainAt]] = "closed"]
  /\ affinity' = [affinity EXCEPT ![drainAt] = Null]
  /\ UNCHANGED <<call, ret, affinityHits, affinitySpills, slotVars, shutVars>>

DrainNext ==
  /\ shut = "draining"
  /\ drainAt < Size
  /\ affinity[drainAt] = Null
  /\ drainAt' = drainAt + 1
  /\ UNCHANGED <<callVars, affinity, slotVars, shut>>

ShutdownReturns ==
  /\ shut = "draining"
  /\ drainAt = Size
  /\ shut' = "returned"
  /\ UNCHANGED <<callVars, affinity, slotVars, drainAt>>

\* The job of c entered an affinity channel that nobody reads any more.
Orphaned(c) == shut = "returned" /\ \E i \in Slots : affinity[i] = c

\* The one place where the system stops: the pool is gone, and every call
\* has returned or waits for an orphaned job.
Terminated ==
  /\ shut = "returned"
  /\ \A c \in Calls : call[c] = "returned" \/ (call[c] = "wait" /\ Orphaned(c))
  /\ UNCHANGED vars

-----------------------------------------------------------------------------
DispatchNext(c) ==
  \/ DispatchRefused(c)
  \/ DispatchAdmitted(c)
  \/ SendAffinity(c)
  \/ CountHit(c)
  \/ FallThrough(c)
  \/ \E i \in Slots : SendShared(c, i)
  \/ CountSpill(c)
  \/ DispatchCanceled(c)
  \/ DispatchClosed(c)

CompressNext(c) ==
  \/ DispatchNext(c)
  \/ TakeReply(c)
  \/ Abandon(c)

SpawnNext(i) ==
  \/ SpawnTries(i)
  \/ SpawnGivesUp(i)
  \/ StartSucceeds(i)
  \/ StartFails(i)

DoNext(i) ==
  \/ WriteSucceeds(i)
  \/ WriteFails(i)
  \/ DoSucceeds(i)
  \/ WorkerFails(i)
  \/ HardCapExpires(i)
  \/ PoolCtxCancels(i)

SlotNext(i) ==
  \/ TakeAffinity(i)
  \/ SpawnNext(i)
  \/ DoNext(i)
  \/ Reply(i)
  \/ SlotExits(i)

ShutdownNext ==
  \/ ShutdownCancels
  \/ ShutdownWaited
  \/ DrainJob
  \/ DrainNext
  \/ ShutdownReturns

Next ==
  \/ \E c \in Calls : CompressNext(c)
  \/ \E i \in Slots : SlotNext(i)
  \/ ShutdownNext
  \/ Terminated

Spec == Init /\ [][Next]_vars

-----------------------------------------------------------------------------
(* Fairness.  The Go scheduler runs every goroutine that can run, the hard *)
(* cap is a timer, and startWorker gives up after workerReadyTimeout.  A   *)
(* caller need not arrive, a request context need not be cancelled, and    *)
(* Shutdown need not be called.                                            *)

CallerSteps(c) ==
  \/ SendAffinity(c) \/ CountHit(c) \/ FallThrough(c)
  \/ \E i \in Slots : SendShared(c, i)
  \/ CountSpill(c) \/ DispatchClosed(c)
  \/ TakeReply(c)

SlotSteps(i) ==
  \/ TakeAffinity(i)
  \/ SpawnNext(i)
  \/ Reply(i)
  \/ SlotExits(i)

ReadSteps(i) ==
  \/ DoSucceeds(i) \/ WorkerFails(i)
  \/ HardCapExpires(i) \/ PoolCtxCancels(i)

ShutdownSteps == ShutdownWaited \/ DrainJob \/ DrainNext \/ ShutdownReturns

CodeFairness ==
  /\ \A c \in Calls : WF_vars(CallerSteps(c))
  /\ \A i \in Slots : WF_vars(SlotSteps(i)) /\ WF_vars(ReadSteps(i))
  /\ WF_vars(ShutdownSteps)

\* What is asked of the worker program: it does not fail to start for ever,
\* and while it lives it drains its stdin.
WorkerFairness ==
  \A i \in Slots :
    /\ SF_vars(StartSucceeds(i))
    /\ WF_vars(WriteSucceeds(i) \/ WriteFails(i))

CodeFairSpec == Spec /\ CodeFairness
FairSpec == CodeFairSpec /\ WorkerFairness

-----------------------------------------------------------------------------
(* Properties.                                                             *)

TypeOK ==
  /\ call \in [Calls -> CallStates]
  /\ ret \in [Calls -> Replies \cup {"ctx", Null}]
  /\ resp \in [Calls -> Replies \cup {Null}]
  /\ affinity \in [Slots -> Calls \cup {Null}]
  /\ affinityHits \in Nat
  /\ affinitySpills \in Nat
  /\ slot \in [Slots -> SlotStates]
  /\ cur \in [Slots -> Calls \cup {Null}]
  /\ out \in [Slots -> {"ok"} \cup DoErrors \cup {Null}]
  /\ worker \in [Slots -> BOOLEAN]
  /\ busy \in Int
  /\ headroomVer \in Versions \cup {Null}
  /\ shut \in {"running", "waiting", "draining", "returned"}
  /\ drainAt \in 0..Size

\* What a slot's goroutine holds agrees with where it is: a job from its
\* receive to its reply, an outcome only between a finished w.do and the
\* reply, across the respawn in between (runSlot's j, res and err).
SlotHands ==
  \A i \in Slots :
    /\ slot[i] \in {"write", "read", "reply"} => cur[i] # Null
    /\ slot[i] \in {"idle", "done"} => cur[i] = Null
    /\ slot[i] \in {"idle", "write", "read", "done"} => out[i] = Null
    /\ slot[i] = "reply" => out[i] # Null
    /\ cur[i] = Null => out[i] = Null

\* Job c is in an affinity channel or in a slot's hands.
InFlight(c) == \E i \in Slots : affinity[i] = c \/ cur[i] = c

JobsInOnePlace ==
  \A i, k \in Slots :
    /\ affinity[i] # Null => affinity[i] # cur[k]
    /\ i # k /\ affinity[i] # Null => affinity[i] # affinity[k]
    /\ i # k /\ cur[i] # Null => cur[i] # cur[k]

UnsentJobsNowhere ==
  \A c \in Calls :
    call[c] \in {"new", "affinity", "shared"} => ~InFlight(c) /\ resp[c] = Null

AcceptedJobsKept ==
  \A c \in Calls :
    call[c] \in {"hit", "spill", "wait"} => (InFlight(c) <=> resp[c] = Null)

AnsweredJobsGone ==
  \A c \in Calls :
    /\ call[c] = "returned" /\ ret[c] \in Replies => ~InFlight(c) /\ resp[c] = Null
    /\ call[c] = "returned" /\ ret[c] = "ctx" => ~(InFlight(c) /\ resp[c] # Null)

\* A job is neither lost, nor run or answered twice: until its answer is in
\* its reply channel an accepted job is in exactly one channel or slot, and
\* then in none, whoever is still waiting for it.  So the sends on j.resp
\* never block (pool.go:333, 376) although the caller may be gone.
JobConservation ==
  /\ JobsInOnePlace
  /\ UnsentJobsNowhere
  /\ AcceptedJobsKept
  /\ AnsweredJobsGone

\* A slot that serves jobs has a worker, one that spawns has none, and a
\* slot without one meets its select, or is gone, only once the pool is
\* closed: "spawn only returns nil on pool shutdown" (pool.go:369).
WorkerPresence ==
  \A i \in Slots :
    /\ slot[i] \in {"write", "read"} => worker[i]
    /\ slot[i] \in {"spawn", "start", "done"} => ~worker[i]
    /\ ~worker[i] /\ slot[i] \in {"idle", "reply", "done"} => Closed

\* The busy gauge is the number of slots inside w.do at every instant, over
\* failed calls, respawns and shutdown (pool.go:132, 380-382).
BusyIsExact == busy = Cardinality({i \in Slots : slot[i] \in {"write", "read"}})

\* Once wg.Wait has returned, no slot runs, holds a job or keeps a worker
\* process, so drainBuffered has "no competing receiver" (pool.go:323-333).
ShutdownTearsDown ==
  shut \in {"draining", "returned"} =>
    \A i \in Slots : slot[i] = "done" /\ ~worker[i] /\ cur[i] = Null

\* What the affinity counters do say (pool.go:134-135; see HitsPlusSpills for
\* what is said of them): they count no affinity-eligible job before a slot or
\* its channel took it, and miss none whose caller waits for its reply or came
\* back with one from a slot.  Of a caller that came back with the error of
\* its context or of a closed pool they do not tell.
AffinityCounts ==
  LET eligible == {c \in Calls : affined(c)}
  IN  /\ Cardinality({c \in eligible : call[c] = "wait" \/ ret[c] \in Replies \ {"closed"}})
            <= affinityHits + affinitySpills
      /\ affinityHits + affinitySpills
            <= Cardinality({c \in eligible : call[c] \in {"wait", "returned"}})

\* A worker is given up only for a failed call, the hard cap or shutdown,
\* never because the request that it serves was cancelled: a slow call
\* leaves the worker warm (pool.go:253-255, 372-377).
OnlyFailuresRecycle ==
  [][\A i \in Slots :
       worker[i] /\ ~worker'[i] =>
         \/ Closed
         \/ slot[i] \in {"write", "read"} /\ out'[i] \in {"fault", "cap"}]_vars

\* Every call that dispatch admitted comes back to its caller, except one
\* whose job reached a channel that Shutdown had drained already (see
\* BufferedJobsAnswered).
CallsReturn ==
  \A c \in Calls : call[c] # "new" ~> call[c] = "returned" \/ Orphaned(c)

\* Shutdown comes back, whatever the slots were doing when it was called:
\* spawning, waiting a backoff out, mid-call, replying (pool.go:319-329).
ShutdownCompletes == shut = "waiting" ~> shut = "returned"

-----------------------------------------------------------------------------
(* The pool implements the interface its callers know.  Where a job is and *)
(* what became of it is spread over call, affinity, cur, out, resp and ret.*)

Running(c) == \E i \in Slots : cur[i] = c /\ slot[i] \in {"write", "read"}

Queued(c) ==
  \/ call[c] \in {"affinity", "shared"}
  \/ \E i \in Slots : affinity[i] = c
  \/ \E i \in Slots : cur[i] = c /\ out[i] = Null /\ ~Running(c)

CallerOf(c) ==
  IF call[c] \in {"new", "returned"} THEN call[c] ELSE "waiting"

JobOf(c) ==
  IF call[c] = "new" THEN "none"
  ELSE IF Queued(c) THEN "queued"
  ELSE IF Running(c) THEN "running"
  ELSE "settled"

\* A settled result is in the slot's hands, then in the reply channel, then
\* with the caller.
ResultOf(c) ==
  LET holder == {i \in Slots : cur[i] = c}
      settled == IF holder # {} THEN out[CHOOSE i \in holder : TRUE]
                 ELSE IF resp[c] # Null THEN resp[c] ELSE ret[c]
  IN  IF JobOf(c) = "settled" THEN settled ELSE Null

Interface == INSTANCE Compressor
  WITH caller <- [c \in Calls |-> CallerOf(c)],
       answer <- ret,
       job    <- [c \in Calls |-> JobOf(c)],
       result <- [c \in Calls |-> ResultOf(c)],
       closed <- Closed,
       Capacity <- Size

\* Every step of the pool is a step of the compressor interface or changes
\* nothing its callers can tell: a job is run at most once and never retried
\* after a failure, at most Size run at a time, a caller gets the result of
\* its own job, and no answer speaks of shutdown before Shutdown is called.
ImplementsCompressor == Interface!Spec

\* Until Shutdown is called every admitted job is run, settled and answered,
\* slot failures, respawns and abandoned callers notwithstanding.
ServesWhileOpen == Interface!Fairness

-----------------------------------------------------------------------------
(* What comments of the source say and the code does not do.               *)

\* "Shutdown also drains any job that slips through the gap between this
\* check and the send below" (pool.go:288-290).
BufferedJobsAnswered == shut = "returned" => \A i \in Slots : affinity[i] = Null

\* "A slot mid-call finishes it first (bounded by the hard cap), then tears
\* down its worker" (pool.go:319-320): shutting down fails no call.
MidCallFinishes == \A i \in Slots : out[i] # "canceled"

\* "hits+spills is the number of affinity-eligible jobs" (pool.go:152-153): so
\* it is in an open pool when all of them have come back.
HitsPlusSpills ==
  LET eligible == {c \in Calls : affined(c)}
  IN  ~Closed /\ (\A c \in eligible : call[c] = "returned") =>
        affinityHits + affinitySpills = Cardinality(eligible)

\* "do sends one request and reads its response, bounded by ctx"
\* (pool.go:548), whatever the worker does.
DoIsBounded == \A i \in Slots : slot[i] = "write" ~> slot[i] # "write"

=============================================================================
