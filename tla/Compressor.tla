----------------------------- MODULE Compressor -----------------------------
(***************************************************************************)
(* What the pool promises to the code that calls it, which knows it as the *)
(* interface compressor (src/handler.go): no slots, channels or workers.   *)
(*                                                                         *)
(* A call and its job have lives of their own.  The job is run at most     *)
(* once, never by more than Capacity at a time, and its result is settled  *)
(* once.  The caller gets that result, or leaves without it when its own   *)
(* context is done; leaving does not stop a job that was accepted.  Until  *)
(* the compressor is closed, no result speaks of closing.                  *)
(***************************************************************************)
EXTENDS Naturals, FiniteSets

CONSTANTS
  Calls,       \* executions of Compress
  Cancelable,  \* the calls whose context may be cancelled
  Capacity,    \* jobs that can run at the same time
  Null

VARIABLES
  caller,      \* caller[c]: "new", "waiting" or "returned"
  answer,      \* answer[c]: what Compress returned
  job,         \* job[c]: "none", "queued", "running" or "settled"
  result,      \* result[c]: the result of the settled job
  closed       \* Shutdown was called

vars == <<caller, answer, job, result, closed>>

Failures == {"fault", "cap"}
ClosingErrors == {"closed", "unavailable", "canceled"}

Init ==
  /\ caller = [c \in Calls |-> "new"]
  /\ answer = [c \in Calls |-> Null]
  /\ job = [c \in Calls |-> "none"]
  /\ result = [c \in Calls |-> Null]
  /\ closed = FALSE

Return(c, a) ==
  /\ caller' = [caller EXCEPT ![c] = "returned"]
  /\ answer' = [answer EXCEPT ![c] = a]

Settle(c, r) ==
  /\ job' = [job EXCEPT ![c] = "settled"]
  /\ result' = [result EXCEPT ![c] = r]

Admit(c) ==
  /\ caller[c] = "new"
  /\ ~closed
  /\ caller' = [caller EXCEPT ![c] = "waiting"]
  /\ job' = [job EXCEPT ![c] = "queued"]
  /\ UNCHANGED <<answer, result, closed>>

Refuse(c) ==
  /\ caller[c] = "new"
  /\ closed
  /\ Return(c, "closed")
  /\ Settle(c, "closed")
  /\ UNCHANGED closed

Run(c) ==
  /\ job[c] = "queued"
  /\ Cardinality({d \in Calls : job[d] = "running"}) < Capacity
  /\ job' = [job EXCEPT ![c] = "running"]
  /\ UNCHANGED <<caller, answer, result, closed>>

Finish(c) ==
  /\ job[c] = "running"
  /\ \E r \in {"ok"} \cup Failures \cup (IF closed THEN {"canceled"} ELSE {}) :
       Settle(c, r)
  /\ UNCHANGED <<caller, answer, closed>>

\* A closing compressor answers a job that it will not run.
Discard(c) ==
  /\ job[c] = "queued"
  /\ closed
  /\ \E r \in {"closed", "unavailable"} : Settle(c, r)
  /\ UNCHANGED <<caller, answer, closed>>

Answer(c) ==
  /\ caller[c] = "waiting"
  /\ job[c] = "settled"
  /\ Return(c, result[c])
  /\ UNCHANGED <<job, result, closed>>

\* The caller's context is done while the job is queued, running or settled.
GiveUp(c) ==
  /\ caller[c] = "waiting"
  /\ c \in Cancelable
  /\ Return(c, "ctx")
  /\ UNCHANGED <<job, result, closed>>

\* The caller withdraws a job that was not accepted yet: its context is done
\* or the compressor is closed.
Withdraw(c) ==
  /\ caller[c] = "waiting"
  /\ job[c] = "queued"
  /\ \E a \in (IF c \in Cancelable THEN {"ctx"} ELSE {})
              \cup (IF closed THEN {"closed"} ELSE {}) :
       Return(c, a) /\ Settle(c, a)
  /\ UNCHANGED closed

Close ==
  /\ ~closed
  /\ closed' = TRUE
  /\ UNCHANGED <<caller, answer, job, result>>

Next ==
  \/ \E c \in Calls :
       \/ Admit(c) \/ Refuse(c)
       \/ Run(c) \/ Finish(c) \/ Discard(c)
       \/ Answer(c) \/ GiveUp(c) \/ Withdraw(c)
  \/ Close

Spec == Init /\ [][Next]_vars

\* While the compressor is open a queued job is run, a running job finishes
\* and a settled one is answered.
Fairness ==
  \A c \in Calls :
    /\ WF_vars(~closed /\ Run(c))
    /\ WF_vars(Finish(c))
    /\ WF_vars(Answer(c))

FairSpec == Spec /\ Fairness
=============================================================================
