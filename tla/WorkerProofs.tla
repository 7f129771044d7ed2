---------------------------- MODULE WorkerProofs ----------------------------
(* Proofs about Worker, for every number of processes, requests and lines  *)
(* outside the protocol.                                                   *)
EXTENDS Worker, FiniteSetTheorems, TLAPS

-----------------------------------------------------------------------------
(* The inductive invariant.                                                *)

\* The owner states in which the current process is not reaped, for sure.
Holding == {"ready", "idle", "write", "read", "kill", "reap"}
Stopping == {"grace", "forced"}
Unreaped(g) == proc[g] \notin {"none", "reaped"}

\* Processes are started in turn: those before the current one are reaped,
\* those after it are untouched, and the owner and the reaper know which of
\* them reaps the current one.
InTurn ==
  /\ \A g \in Workers : g < w => proc[g] = "reaped"
  /\ \A g \in Workers : g > w =>
       /\ proc[g] = "none" /\ readers[g] = {} /\ waits[g] = 0
       /\ stdin[g] = <<>> /\ stdout[g] = <<>> /\ serving[g] = NoLine
  /\ owner \in Holding \cup Stopping => w \in Workers
  /\ owner \in Holding => Unreaped(w) /\ stdoutOpen[w]
  /\ owner \in Stopping /\ reaper # "finished" => Unreaped(w)
  /\ w \in Workers /\ (owner \in {"spawn", "done"} \/ reaper = "finished") => proc[w] = "reaped"
  /\ reaper # "none" => owner \in Stopping \cup {"done"}
  /\ reaper = "waiting" => owner \in Stopping

\* cmd.Wait is called when the owner leaves the current process, not before.
WaitsInTurn ==
  /\ WaitOnce
  /\ owner \in {"ready", "idle", "write", "read", "kill"} => waits[w] = 0

\* The reader of the current call is the only one of its process, and gone
\* when its line has arrived; between two calls there is none.
ReadersInTurn ==
  /\ \A g \in Workers : \A a, b \in readers[g] : a = b
  /\ owner \in {"ready", "read"} =>
       readers[w] \subseteq {nextID} /\ (line # NoLine => readers[w] = {})
  /\ owner \in {"idle", "write"} => readers[w] = {}

\* In one process ids and requests go up together, so that an id and the
\* request of a line differ by what nextID and req differ by.
Own(l) == l.of + nextID = l.id + req

Numbered ==
  /\ nextID <= req
  /\ owner \in {"write", "read"} => req \in Requests
  /\ line.type = "ok" => Own(line)
  /\ w \in Workers =>
       /\ \A k \in DOMAIN stdin[w] : Own(stdin[w][k])
       /\ \A k \in DOMAIN stdout[w] : stdout[w][k].type = "ok" => Own(stdout[w][k])
       /\ serving[w] # NoLine => Own(serving[w])
       /\ proc[w] = "busy" => serving[w] # NoLine

\* Lines that are repeated replies, for ids below n; and the lines of a call n,
\* in which nothing of the call itself comes before its failure.
Repeats(q, n) == \A k \in DOMAIN q : q[k].type = "ok" /\ q[k].id < n

Answers(q, n) ==
  \A k \in DOMAIN q :
    /\ q[k].type \in Outcomes /\ q[k].id <= n
    /\ q[k].type = "failed" => \A j \in DOMAIN q : j < k => q[j].id < n

\* The lines of a worker that starts: it says ready last, and once.
Announces(q) == \A k \in DOMAIN q : q[k] = Ready => k = Len(q)
Silent(q) == \A k \in DOMAIN q : q[k] # Ready

\* The line of the current readLine has come; the request has no reply yet.
Arrived == line \in Lines
Pending == stdin[w] # <<>> \/ proc[w] = "busy"

\* One thing is under way: the ready line, a request in stdin, the worker's
\* work on it, or its reply.  What else is in stdout are strays, and a reply
\* that is accepted has none but repetitions of itself behind it.
Starting ==
  /\ stdin[w] = <<>> /\ serving[w] = NoLine /\ proc[w] # "busy"
  /\ Announces(stdout[w])
  /\ proc[w] \in {"import", "warm"} => line # Ready /\ Silent(stdout[w])
  /\ line = Ready => stdout[w] = <<>>

Resting(n) ==
  /\ stdin[w] = <<>> /\ proc[w] \in {"serve", "dead"}
  /\ Len(stdout[w]) <= strays /\ Repeats(stdout[w], n)
  /\ serving[w].id < n

Calling ==
  /\ proc[w] \in {"serve", "busy", "dead"}
  /\ Len(stdin[w]) <= 1 /\ \A k \in DOMAIN stdin[w] : stdin[w][k].id = nextID
  /\ proc[w] = "busy" => stdin[w] = <<>>
  /\ serving[w].id <= nextID
  /\ stdin[w] # <<>> => serving[w].id < nextID
  /\ Answers(stdout[w], nextID)
  /\ Len(stdout[w]) <= strays + 1
  /\ Arrived => Len(stdout[w]) <= strays
  /\ Pending => Repeats(stdout[w], nextID) /\ Len(stdout[w]) <= strays
  /\ Arrived /\ Pending => line.id < nextID /\ Len(stdout[w]) < strays
  /\ Arrived /\ line.id = nextID => \A k \in DOMAIN stdout[w] : stdout[w][k].type = "ok"

OneUnderWay ==
  /\ owner = "ready" => Starting
  /\ owner = "idle" => Resting(nextID + 1)
  /\ owner = "write" => Resting(nextID)
  /\ owner = "read" => Calling

IInv ==
  /\ TypeOK
  /\ InTurn
  /\ WaitsInTurn
  /\ ReadersInTurn
  /\ Numbered
  /\ OwnResult
  /\ OneUnderWay
-----------------------------------------------------------------------------
(* Lines and pipes.                                                        *)

\* What a pipe holds after a write (json.dumps and a newline, or w.stdin.Write).
LEMMA AppendFacts ==
  ASSUME NEW S, NEW q \in Seq(S), NEW x \in S
  PROVE  /\ Append(q, x) \in Seq(S)
         /\ Append(q, x) # <<>>
         /\ Len(Append(q, x)) = Len(q) + 1
         /\ \A k \in DOMAIN Append(q, x) :
              \/ k \in DOMAIN q /\ Append(q, x)[k] = q[k]
              \/ Append(q, x)[k] = x
  OBVIOUS

\* What a read takes out of a pipe and what it leaves (ReadBytes, stdin.readline).
LEMMA TailFacts ==
  ASSUME NEW S, NEW q \in Seq(S), q # <<>>
  PROVE  /\ Tail(q) \in Seq(S)
         /\ Head(q) \in S
         /\ 1 \in DOMAIN q /\ Head(q) = q[1]
         /\ \A k \in DOMAIN Tail(q) : k + 1 \in DOMAIN q /\ Tail(q)[k] = q[k + 1]
         /\ Len(q) <= 1 => Tail(q) = <<>>
  OBVIOUS

\* The lines of the protocol are lines, and the special ones differ.
LEMMA LineFacts ==
  /\ Ready \in Lines /\ Noise \in Lines /\ ReadError \notin Lines /\ NoLine \notin Lines
  /\ NoLine # ReadError
  /\ Ready.type = "ready" /\ Noise.type = "noise"
  /\ ReadError.type = "error" /\ NoLine.type = "none"
  /\ \A type \in Outcomes, id \in Ids, of \in Ids : Line(type, id, of) \in Lines
  /\ \A id \in Ids, of \in Requests : Line("request", id, of) \in Envelopes
  /\ \A type, id, of : Line(type, id, of).id = id /\ Line(type, id, of).of = of
  /\ NoLine.id \in Ids /\ NoLine.of \in Ids /\ NoLine \notin Envelopes
  /\ ReadError.id \in Ids /\ ReadError.of \in Ids
  /\ \A e \in Envelopes : e.id \in Ids /\ e.of \in Ids
  /\ \A l \in Lines : l.id \in Ids /\ l.of \in Ids
  BY WorkerAssumption DEF Ready, Noise, ReadError, NoLine, Line, Lines, Envelopes, Outcomes, Ids, Requests

\* Ids and requests are numbers from 0 and from 1.
LEMMA IdFacts ==
  /\ Ids \subseteq Nat /\ Requests \subseteq Ids /\ Failed \in Ids /\ Failed \notin Requests
  /\ \A n \in Ids : n < MaxRequests => n + 1 \in Requests
  /\ \A n \in Ids, m \in Ids : n <= m /\ m < MaxRequests => n + 1 \in Ids
  /\ Workers \subseteq Nat
  BY WorkerAssumption DEF Ids, Requests, Failed, Workers

-----------------------------------------------------------------------------
(* Each part of the invariant is kept by every step.                       *)

\* The types are kept by every step of the owner, the reader and the process.
LEMMA NextTypeOK ==
  ASSUME IInv, Next
  PROVE  TypeOK'
<1> USE WorkerAssumption, LineFacts, IdFacts
    DEF IInv, TypeOK, ownerVars, pipeVars, procVars, rest
<1>1. CASE StartProcess
  <2>1. w + 1 \in Workers /\ w + 1 \in 0..MaxWorkers /\ 0 \in Ids
    BY <1>1 DEF StartProcess, Workers, Ids
  <2> QED
    BY <1>1, <2>1 DEF StartProcess, StartReader, OwnerStates, ProcStates
<1>2. CASE SpawnGivesUp \/ ReadyArrives \/ ReadyFails \/ ReadyTimesOut \/ ShutdownReturns
  BY <1>2 DEF SpawnGivesUp, ReadyArrives, ReadyFails, ReadyTimesOut, ShutdownReturns, OwnerStates
<1>3. CASE TakeJob
  BY <1>3 DEF TakeJob, Numbered, OwnerStates
<1>4. CASE Write
  <2>1. w \in Workers /\ req \in Requests
    BY <1>4 DEF Write, InTurn, Numbered, Holding
  <2>2. Append(stdin[w], Line("request", nextID, req)) \in Seq(Envelopes)
    BY <2>1, AppendFacts
  <2> QED
    BY <1>4, <2>1, <2>2 DEF Write, StartReader, OwnerStates
<1>5. CASE WriteFails \/ ReplyRejected \/ ContextEnds
  BY <1>5 DEF WriteFails, ReplyRejected, ContextEnds, Recycle, OwnerStates
<1>6. CASE ReplyAccepted
  BY <1>6 DEF ReplyAccepted, OwnerStates
<1>7. CASE Kill
  <2>1. w \in Workers /\ waits[w] + 1 \in Nat
    BY <1>7 DEF Kill, InTurn, Holding
  <2> QED
    BY <1>7, <2>1 DEF Kill, OwnerStates
<1>8. CASE KillReaps \/ ReaperReaps
  BY <1>8 DEF KillReaps, ReaperReaps, WaitReturns, OwnerStates, ProcStates
<1>9. CASE ShutdownCloses
  <2>1. w \in Workers /\ waits[w] + 1 \in Nat
    BY <1>9 DEF ShutdownCloses, InTurn, Holding
  <2> QED
    BY <1>9, <2>1 DEF ShutdownCloses, OwnerStates
<1>10. CASE GraceExpires
  BY <1>10 DEF GraceExpires, OwnerStates
<1>11. CASE PoolCloses
  BY <1>11 DEF PoolCloses
<1>12. CASE SupervisorDies
  BY <1>12 DEF SupervisorDies, DeathSignal, Alive, OwnerStates
<1>13. ASSUME NEW g \in Workers, NEW l \in Lines, Emit(g, l)
       PROVE  stdout' \in [Workers -> Seq(Lines)]
  <2>1. Append(stdout[g], l) \in Seq(Lines)
    BY AppendFacts
  <2> QED
    BY <1>13, <2>1 DEF Emit
<1>14. ASSUME NEW g \in Workers, ImportPrints(g) \/ EmitReady(g) \/ EmitReply(g) \/ Repeat(g)
       PROVE  TypeOK'
  <2>1. \A type \in Outcomes : Line(type, serving[g].id, serving[g].of) \in Lines
    OBVIOUS
  <2>2. stdout' \in [Workers -> Seq(Lines)]
    BY <1>13, <1>14, <2>1 DEF ImportPrints, EmitReady, EmitReply, Repeat, Outcomes
  <2>3. strays' \in 0..MaxStrays /\ proc' \in [Workers -> ProcStates]
    BY <1>14 DEF ImportPrints, EmitReady, EmitReply, Repeat, ProcStates
  <2> QED
    BY <1>14, <2>2, <2>3 DEF ImportPrints, EmitReady, EmitReply, Repeat
<1>15. ASSUME NEW g \in Workers, Isolate(g) \/ Exit(g) \/ Crash(g) PROVE TypeOK'
  BY <1>15 DEF Isolate, Exit, Crash, ProcStates
<1>16. ASSUME NEW g \in Workers, TakeRequest(g) PROVE TypeOK'
  <2>1. Head(stdin[g]) \in Envelopes /\ Tail(stdin[g]) \in Seq(Envelopes)
    BY <1>16, TailFacts DEF TakeRequest
  <2> QED
    BY <1>16, <2>1 DEF TakeRequest, ProcStates
<1>17. ASSUME NEW g \in Workers, NEW id \in Ids, ReaderReturns(g, id) PROVE TypeOK'
  <2>1. stdout[g] # <<>> => Head(stdout[g]) \in Lines /\ Tail(stdout[g]) \in Seq(Lines)
    BY TailFacts
  <2> QED
    BY <1>17, <2>1 DEF ReaderReturns
<1>18. CASE UNCHANGED vars
  BY <1>18 DEF vars
<1> QED
  BY <1>1, <1>2, <1>3, <1>4, <1>5, <1>6, <1>7, <1>8, <1>9, <1>10, <1>11, <1>12, <1>14, <1>15,
     <1>16, <1>17, <1>18
  DEF Next, StartNext, DoNext, KillNext, ShutdownNext, ProcessNext, Terminated

\* Only the current process runs: the others are reaped or not started.
LEMMA CurrentRuns ==
  ASSUME IInv, NEW g \in Workers, Unreaped(g)
  PROVE  g = w
  BY WorkerAssumption DEF IInv, TypeOK, InTurn, Unreaped, Workers

\* Processes go on being started and reaped in turn.
LEMMA NextInTurn ==
  ASSUME IInv, Next
  PROVE  InTurn'
<1> USE WorkerAssumption
    DEF IInv, TypeOK, ownerVars, pipeVars, procVars, rest, InTurn, Holding, Stopping, Unreaped, Workers
<1>1. CASE StartProcess
  <2>1. w + 1 \in Workers /\ w' = w + 1 /\ owner' = "ready" /\ reaper' = "none"
    BY <1>1 DEF StartProcess
  <2>2. /\ proc' = [proc EXCEPT ![w + 1] = "import"]
        /\ stdoutOpen' = [stdoutOpen EXCEPT ![w + 1] = TRUE]
        /\ readers' = [readers EXCEPT ![w + 1] = @ \cup {0}]
        /\ UNCHANGED <<waits, stdin, stdout, serving>>
    BY <1>1 DEF StartProcess, StartReader
  <2>3. \A g \in Workers : g < w + 1 => proc[g] = "reaped"
    BY <1>1, <2>1 DEF StartProcess
  <2>4. \A g \in Workers : g < w' => proc'[g] = "reaped"
    BY <2>1, <2>2, <2>3
  <2>5. ASSUME NEW g \in Workers, g > w'
        PROVE  /\ proc'[g] = "none" /\ readers'[g] = {} /\ waits'[g] = 0
               /\ stdin'[g] = <<>> /\ stdout'[g] = <<>> /\ serving'[g] = NoLine
    <3>1. g > w /\ g # w + 1
      BY <2>1, <2>5
    <3> QED
      BY <2>2, <3>1
  <2>6. proc'[w'] = "import" /\ stdoutOpen'[w']
    BY <2>1, <2>2
  <2> QED
    BY <2>1, <2>4, <2>5, <2>6
<1>2. CASE SpawnGivesUp \/ ReadyArrives \/ ReadyFails \/ ReadyTimesOut \/ ShutdownReturns
  BY <1>2 DEF SpawnGivesUp, ReadyArrives, ReadyFails, ReadyTimesOut, ShutdownReturns
<1>3. CASE TakeJob
  BY <1>3 DEF TakeJob
<1>4. CASE Write
  BY <1>4 DEF Write, StartReader, Alive
<1>5. CASE WriteFails \/ ReplyAccepted \/ ReplyRejected \/ ContextEnds
  <2>1. owner \in {"write", "read"} /\ owner' \in {"idle", "kill"} /\ UNCHANGED rest
    BY <1>5 DEF WriteFails, ReplyAccepted, ReplyRejected, ContextEnds, Recycle
  <2> QED
    BY <2>1
<1>6. CASE Kill
  BY <1>6 DEF Kill
<1>7. CASE KillReaps
  BY <1>7 DEF KillReaps, WaitReturns
<1>8. CASE ShutdownCloses
  BY <1>8 DEF ShutdownCloses
<1>9. CASE GraceExpires
  BY <1>9 DEF GraceExpires
<1>10. CASE ReaperReaps
  BY <1>10 DEF ReaperReaps, WaitReturns
<1>11. CASE PoolCloses
  BY <1>11 DEF PoolCloses
<1>12. CASE SupervisorDies
  BY <1>12 DEF SupervisorDies
<1>13. ASSUME NEW g \in Workers, ProcessNext(g) PROVE InTurn'
  <2>1. Unreaped(g)
    BY <1>13 DEF ProcessNext, ImportPrints, Isolate, EmitReady, TakeRequest, EmitReply, Repeat,
       Exit, Crash, Alive
  <2>2. g = w
    BY <2>1, CurrentRuns
  <2>3. /\ UNCHANGED <<owner, w, reaper, waits, readers, stdoutOpen>>
        /\ \A h \in Workers : h # g =>
             proc'[h] = proc[h] /\ stdin'[h] = stdin[h] /\ stdout'[h] = stdout[h]
             /\ serving'[h] = serving[h]
    BY <1>13 DEF ProcessNext, ImportPrints, Isolate, EmitReady, TakeRequest, EmitReply, Repeat,
       Exit, Crash, Emit
  <2>4. proc'[g] \in {"import", "warm", "serve", "busy", "dead"}
    BY <1>13 DEF ProcessNext, ImportPrints, Isolate, EmitReady, TakeRequest, EmitReply, Repeat,
       Exit, Crash
  <2> QED
    BY <2>1, <2>2, <2>3, <2>4
<1>14. ASSUME NEW g \in Workers, NEW id \in Ids, ReaderReturns(g, id) PROVE InTurn'
  <2>1. g <= w
    BY <1>14 DEF ReaderReturns
  <2> QED
    BY <1>14, <2>1 DEF ReaderReturns
<1>15. CASE UNCHANGED vars
  BY <1>15 DEF vars
<1> QED
  BY <1>1, <1>2, <1>3, <1>4, <1>5, <1>6, <1>7, <1>8, <1>9, <1>10, <1>11, <1>12, <1>13, <1>14, <1>15
  DEF Next, StartNext, DoNext, KillNext, ShutdownNext, Terminated

\* cmd.Wait is called for a process that nobody waited for before.
LEMMA NextWaitsInTurn ==
  ASSUME IInv, Next
  PROVE  WaitsInTurn'
<1> USE WorkerAssumption
    DEF IInv, TypeOK, ownerVars, pipeVars, procVars, rest, WaitsInTurn, WaitOnce, InTurn, Holding, Workers
<1>1. CASE StartProcess
  BY <1>1 DEF StartProcess
<1>2. CASE SpawnGivesUp \/ ReadyArrives \/ ReadyFails \/ ReadyTimesOut \/ ShutdownReturns
  BY <1>2 DEF SpawnGivesUp, ReadyArrives, ReadyFails, ReadyTimesOut, ShutdownReturns
<1>3. CASE TakeJob \/ Write
  BY <1>3 DEF TakeJob, Write
<1>4. CASE WriteFails \/ ReplyAccepted \/ ReplyRejected \/ ContextEnds
  BY <1>4 DEF WriteFails, ReplyAccepted, ReplyRejected, ContextEnds, Recycle
<1>5. CASE Kill
  BY <1>5 DEF Kill
<1>6. CASE ShutdownCloses
  BY <1>6 DEF ShutdownCloses
<1>7. CASE KillReaps \/ GraceExpires \/ ReaperReaps \/ PoolCloses \/ SupervisorDies
  BY <1>7 DEF KillReaps, GraceExpires, ReaperReaps, PoolCloses, SupervisorDies
<1>8. CASE UNCHANGED <<owner, w, waits>>
  BY <1>8
<1> QED
  BY <1>1, <1>2, <1>3, <1>4, <1>5, <1>6, <1>7, <1>8
  DEF Next, StartNext, DoNext, KillNext, ShutdownNext, ProcessNext, Terminated, vars,
      ImportPrints, Isolate, EmitReady, TakeRequest, EmitReply, Repeat, Exit, Crash, ReaderReturns

\* A reader is started where there is none, and leaves one line behind.
LEMMA NextReadersInTurn ==
  ASSUME IInv, Next
  PROVE  ReadersInTurn'
<1> USE WorkerAssumption, LineFacts
    DEF IInv, TypeOK, ownerVars, pipeVars, procVars, rest, ReadersInTurn, InTurn, Holding, Workers
<1>1. CASE StartProcess
  <2>1. w + 1 \in Workers /\ readers[w + 1] = {}
    BY <1>1 DEF StartProcess
  <2>2. /\ readers' = [readers EXCEPT ![w + 1] = {0}]
        /\ w' = w + 1 /\ nextID' = 0 /\ line' = NoLine /\ owner' = "ready"
    BY <1>1, <2>1 DEF StartProcess, StartReader
  <2> QED
    BY <2>1, <2>2
<1>2. CASE SpawnGivesUp \/ ReadyArrives \/ ReadyFails \/ ReadyTimesOut \/ ShutdownReturns
  BY <1>2 DEF SpawnGivesUp, ReadyArrives, ReadyFails, ReadyTimesOut, ShutdownReturns
<1>3. CASE TakeJob
  BY <1>3 DEF TakeJob
<1>4. CASE Write
  BY <1>4 DEF Write, StartReader
<1>5. CASE ReplyAccepted
  <2>1. line # NoLine
    BY <1>5 DEF ReplyAccepted
  <2> QED
    BY <1>5, <2>1 DEF ReplyAccepted
<1>6. CASE WriteFails \/ ReplyRejected \/ ContextEnds
  BY <1>6 DEF WriteFails, ReplyRejected, ContextEnds, Recycle
<1>7. CASE Kill \/ KillReaps \/ ShutdownCloses \/ GraceExpires \/ ReaperReaps \/ PoolCloses
  <2>1. /\ UNCHANGED <<w, nextID, line, readers>>
        /\ owner' = owner \/ owner' \in {"reap", "spawn", "grace", "forced"}
    BY <1>7 DEF Kill, KillReaps, ShutdownCloses, GraceExpires, ReaperReaps, PoolCloses
  <2> QED
    BY <2>1
<1>8. CASE SupervisorDies
  BY <1>8 DEF SupervisorDies
<1>9. ASSUME NEW g \in Workers, NEW id \in Ids, ReaderReturns(g, id) PROVE ReadersInTurn'
  <2>1. /\ owner' = owner /\ w' = w /\ nextID' = nextID
        /\ readers' = [readers EXCEPT ![g] = @ \ {id}]
        /\ id \in readers[g]
    BY <1>9 DEF ReaderReturns
  <2>2. CASE g = w /\ owner \in {"ready", "read"}
    <3>1. readers'[w] = {}
      BY <2>1, <2>2
    <3> QED
      BY <2>1, <2>2, <3>1
  <2>3. CASE ~(g = w /\ owner \in {"ready", "read"})
    <3>1. line' = line
      BY <1>9, <2>3 DEF ReaderReturns
    <3> QED
      BY <2>1, <2>3, <3>1
  <2> QED
    BY <2>2, <2>3
<1>10. CASE UNCHANGED <<owner, w, nextID, line, readers>>
  BY <1>10
<1> QED
  BY <1>1, <1>2, <1>3, <1>4, <1>5, <1>6, <1>7, <1>8, <1>9, <1>10
  DEF Next, StartNext, DoNext, KillNext, ShutdownNext, ProcessNext, Terminated, vars,
      ImportPrints, Isolate, EmitReady, TakeRequest, EmitReply, Repeat, Exit, Crash

\* Every ok line in a pipe is numbered as the calls are.
Fits(q) == \A k \in DOMAIN q : q[k].type = "ok" => Own(q[k])

\* A write of a line that is numbered so keeps that (emit).
LEMMA AppendFits ==
  ASSUME NEW q \in Seq(Lines), Fits(q), NEW l \in Lines, l.type = "ok" => Own(l)
  PROVE  Fits(Append(q, l))
<1>1. \A k \in DOMAIN Append(q, l) :
        \/ k \in DOMAIN q /\ Append(q, l)[k] = q[k]
        \/ Append(q, l)[k] = l
  BY AppendFacts
<1> QED
  BY <1>1 DEF Fits

\* So does a read, and the line that is read is numbered so (readLine).
LEMMA TailFits ==
  ASSUME NEW q \in Seq(Lines), Fits(q), q # <<>>
  PROVE  Fits(Tail(q)) /\ (Head(q).type = "ok" => Own(Head(q)))
<1>1. /\ 1 \in DOMAIN q /\ Head(q) = q[1]
      /\ \A k \in DOMAIN Tail(q) : k + 1 \in DOMAIN q /\ Tail(q)[k] = q[k + 1]
  BY TailFacts
<1> QED
  BY <1>1 DEF Fits

\* A reply is numbered as its request is: worker.py copies the id.
LEMMA ReplyFits ==
  ASSUME NEW e \in Envelopes, Own(e), NEW type \in Outcomes
  PROVE  Line(type, e.id, e.of) \in Lines /\ Own(Line(type, e.id, e.of))
  BY LineFacts DEF Own

\* Lines stay numbered as the calls are: ids and requests go up together.
LEMMA NextNumbered ==
  ASSUME IInv, Next
  PROVE  Numbered'
<1> USE WorkerAssumption, LineFacts, IdFacts
    DEF IInv, TypeOK, ownerVars, pipeVars, procVars, rest, Numbered, Own
<1>1. CASE StartProcess
  <2>1. /\ w + 1 \in Workers
        /\ stdin[w + 1] = <<>> /\ stdout[w + 1] = <<>> /\ serving[w + 1] = NoLine
    BY <1>1 DEF StartProcess, InTurn, Workers
  <2> QED
    BY <1>1, <2>1 DEF StartProcess, StartReader
<1>2. CASE SpawnGivesUp \/ ReadyArrives \/ ReadyFails \/ ReadyTimesOut \/ ShutdownReturns
  BY <1>2 DEF SpawnGivesUp, ReadyArrives, ReadyFails, ReadyTimesOut, ShutdownReturns
<1>3. CASE TakeJob
  <2>1. /\ nextID' = nextID + 1 /\ req' = req + 1 /\ req' \in Requests
        /\ UNCHANGED <<w, line, stdin, stdout, serving, proc>>
    BY <1>3 DEF TakeJob
  <2>2. ASSUME NEW l \in Lines \cup Envelopes, Own(l)
        PROVE  l.of + nextID' = l.id + req'
    <3>1. l.of \in Nat /\ l.id \in Nat /\ nextID \in Nat /\ req \in Nat
      OBVIOUS
    <3>2. \A a, b, c, d \in Nat : a + b = c + d => a + (b + 1) = c + (d + 1)
      OBVIOUS
    <3> QED
      BY <2>1, <2>2, <3>1, <3>2
  <2>3. w \in Workers => /\ \A k \in DOMAIN stdin[w] : stdin[w][k] \in Envelopes
                         /\ \A k \in DOMAIN stdout[w] : stdout[w][k] \in Lines
                         /\ serving[w] \in {NoLine} \cup Envelopes
    OBVIOUS
  <2>4. nextID' <= req'
    <3>1. nextID \in Nat /\ req \in Nat
      OBVIOUS
    <3> QED
      BY <2>1, <3>1
  <2> QED
    BY <2>1, <2>2, <2>3, <2>4
<1>4. CASE Write
  <2>1. w \in Workers
    BY <1>4 DEF Write, InTurn, Holding
  <2>2. \A k \in DOMAIN stdin'[w] : Own(stdin'[w][k])
    BY <1>4, <2>1, AppendFacts DEF Write
  <2> QED
    BY <1>4, <2>1, <2>2 DEF Write, StartReader
<1>5. CASE WriteFails \/ ReplyAccepted \/ ReplyRejected \/ ContextEnds
  BY <1>5 DEF WriteFails, ReplyAccepted, ReplyRejected, ContextEnds, Recycle
<1>6. CASE Kill \/ ShutdownCloses \/ GraceExpires \/ PoolCloses \/ SupervisorDies
  BY <1>6 DEF Kill, ShutdownCloses, GraceExpires, PoolCloses, SupervisorDies
<1>7. CASE KillReaps \/ ReaperReaps
  BY <1>7 DEF KillReaps, ReaperReaps, WaitReturns
<1>8. ASSUME NEW g \in Workers, ProcessNext(g) PROVE Numbered'
  <2>1. g = w /\ UNCHANGED <<owner, w, nextID, req, line>>
    BY <1>8, CurrentRuns
    DEF ProcessNext, ImportPrints, Isolate, EmitReady, TakeRequest, EmitReply, Repeat, Exit, Crash,
        Alive, Unreaped
  <2>2. ASSUME NEW l \in Lines, l.type = "ok" => Own(l), Emit(g, l)
        PROVE  Fits(stdout'[w])
    <3>1. stdout[w] \in Seq(Lines) /\ stdout'[w] = Append(stdout[w], l)
      BY <2>1, <2>2 DEF Emit
    <3>2. Fits(stdout[w])
      BY <2>1 DEF Fits
    <3> QED
      BY <2>2, <3>1, <3>2, AppendFits
  <2>3. CASE ImportPrints(g) \/ EmitReady(g)
    <3>1. Fits(stdout'[w])
      BY <2>2, <2>3 DEF ImportPrints, EmitReady
    <3> QED
      BY <2>1, <2>3, <3>1 DEF ImportPrints, EmitReady, Fits
  <2>4. CASE EmitReply(g) \/ Repeat(g)
    <3>1. serving[g] \in Envelopes /\ Own(serving[g])
      BY <2>1, <2>4 DEF EmitReply, Repeat
    <3>2. PICK type \in Outcomes : Emit(g, Line(type, serving[g].id, serving[g].of))
      BY <2>4 DEF EmitReply, Repeat, Outcomes
    <3>3. Fits(stdout'[w])
      BY <2>2, <3>1, <3>2, ReplyFits
    <3> QED
      BY <2>1, <2>4, <3>3 DEF EmitReply, Repeat, Fits
  <2>5. CASE TakeRequest(g)
    <3>1. /\ Head(stdin[w]) \in Envelopes /\ Own(Head(stdin[w]))
          /\ \A k \in DOMAIN Tail(stdin[w]) : Own(Tail(stdin[w])[k])
      BY <2>1, <2>5, TailFacts DEF TakeRequest
    <3> QED
      BY <2>1, <2>5, <3>1 DEF TakeRequest
  <2>6. CASE Isolate(g) \/ Exit(g) \/ Crash(g)
    BY <2>1, <2>6 DEF Isolate, Exit, Crash
  <2> QED
    BY <1>8, <2>3, <2>4, <2>5, <2>6 DEF ProcessNext
<1>9. ASSUME NEW g \in Workers, NEW id \in Ids, ReaderReturns(g, id) PROVE Numbered'
  <2>1. UNCHANGED <<owner, w, nextID, req, stdin, serving, proc>>
    BY <1>9 DEF ReaderReturns
  <2>2. CASE stdout' = stdout
    BY <1>9, <2>1, <2>2 DEF ReaderReturns
  <2>3. CASE stdout' # stdout
    <3>1. /\ stdout[g] # <<>> /\ stdout' = [stdout EXCEPT ![g] = Tail(@)]
          /\ line' = line \/ (g = w /\ line' = Head(stdout[g]))
      BY <1>9, <2>3 DEF ReaderReturns
    <3>2. CASE g = w
      <4>1. stdout[w] \in Seq(Lines) /\ stdout[w] # <<>> /\ Fits(stdout[w])
        BY <3>1, <3>2 DEF Fits
      <4>2. Fits(Tail(stdout[w])) /\ (Head(stdout[w]).type = "ok" => Own(Head(stdout[w])))
        BY <4>1, TailFits
      <4>3. stdout'[w] = Tail(stdout[w])
        BY <3>1, <3>2
      <4> QED
        BY <2>1, <3>1, <3>2, <4>2, <4>3 DEF Fits
    <3>3. CASE g # w
      BY <2>1, <3>1, <3>3
    <3> QED
      BY <3>2, <3>3
  <2> QED
    BY <2>2, <2>3
<1>10. CASE UNCHANGED vars
  BY <1>10 DEF vars
<1> QED
  BY <1>1, <1>2, <1>3, <1>4, <1>5, <1>6, <1>7, <1>8, <1>9, <1>10
  DEF Next, StartNext, DoNext, KillNext, ShutdownNext, Terminated

\* The one step that hands out a result hands out that of the request at hand.
LEMMA NextOwnResult ==
  ASSUME IInv, Next
  PROVE  OwnResult'
<1> USE WorkerAssumption, LineFacts, IdFacts
    DEF IInv, TypeOK, ownerVars, pipeVars, procVars, rest, OwnResult
<1>1. CASE ReplyAccepted
  <2>1. line.of \in Nat /\ nextID \in Nat /\ req \in Nat
    OBVIOUS
  <2>2. line.of + nextID = nextID + req
    BY <1>1 DEF ReplyAccepted, Numbered, Own
  <2>3. line.of = req
    BY <2>1, <2>2
  <2> QED
    BY <1>1, <2>3 DEF ReplyAccepted
<1>2. CASE WriteFails \/ ReplyRejected \/ ContextEnds
  BY <1>2 DEF WriteFails, ReplyRejected, ContextEnds, Recycle
<1>3. CASE UNCHANGED answer
  BY <1>3
<1> QED
  BY <1>1, <1>2, <1>3
  DEF Next, StartNext, DoNext, KillNext, ShutdownNext, ProcessNext, Terminated, vars,
      StartProcess, SpawnGivesUp, ReadyArrives, ReadyFails, ReadyTimesOut, TakeJob, Write, Kill,
      KillReaps, ShutdownCloses, GraceExpires, ShutdownReturns, ReaperReaps, PoolCloses,
      SupervisorDies, ImportPrints, Isolate, EmitReady, TakeRequest, EmitReply, Repeat, Exit, Crash,
      ReaderReturns

\* What a line more or a line less does to the lines of a call.
LEMMA RepeatsFacts ==
  ASSUME NEW q \in Seq(Lines), NEW n \in Nat, Repeats(q, n)
  PROVE  /\ Answers(q, n)
         /\ \A l \in Lines : l.type = "ok" /\ l.id < n => Repeats(Append(q, l), n)
         /\ \A l \in Lines : l.type \in Outcomes /\ l.id <= n => Answers(Append(q, l), n)
         /\ q # <<>> => Repeats(Tail(q), n) /\ Head(q).id < n
<1> USE LineFacts, IdFacts DEF Repeats, Answers
<1>1. Answers(q, n)
  <2>1. \A k \in DOMAIN q : q[k].type \in Outcomes /\ q[k].type # "failed"
    BY DEF Outcomes
  <2>2. ASSUME NEW k \in DOMAIN q PROVE q[k].id \in Nat
    <3>1. q[k] \in Lines
      OBVIOUS
    <3> QED
      BY <3>1
  <2>3. \A k \in DOMAIN q : q[k].id <= n
    BY <2>2
  <2> QED
    BY <2>1, <2>3
<1>2. ASSUME NEW l \in Lines, l.type = "ok", l.id < n PROVE Repeats(Append(q, l), n)
  BY <1>2, AppendFacts
<1>3. ASSUME NEW l \in Lines, l.type \in Outcomes, l.id <= n PROVE Answers(Append(q, l), n)
  <2> SUFFICES ASSUME NEW k \in DOMAIN Append(q, l)
               PROVE  /\ Append(q, l)[k].type \in Outcomes /\ Append(q, l)[k].id <= n
                      /\ \A j \in DOMAIN Append(q, l) : j < k => Append(q, l)[j].id < n
    OBVIOUS
  <2>1. \A j \in DOMAIN Append(q, l) : j < k => j \in DOMAIN q /\ Append(q, l)[j] = q[j]
    OBVIOUS
  <2>2. Append(q, l)[k].type \in Outcomes /\ Append(q, l)[k].id <= n
    BY <1>1, <1>3, AppendFacts
  <2> QED
    BY <2>1, <2>2
<1>4. ASSUME q # <<>> PROVE Repeats(Tail(q), n) /\ Head(q).id < n
  <2>1. /\ 1 \in DOMAIN q /\ Head(q) = q[1]
        /\ \A k \in DOMAIN Tail(q) : k + 1 \in DOMAIN q /\ Tail(q)[k] = q[k + 1]
    BY <1>4, TailFacts
  <2> QED
    BY <2>1
<1> HIDE DEF Repeats, Answers
<1> QED
  BY <1>1, <1>2, <1>3, <1>4

\* And to the lines of a call that may have its reply among them.
LEMMA AnswersFacts ==
  ASSUME NEW q \in Seq(Lines), NEW n \in Nat, Answers(q, n)
  PROVE  /\ \A l \in Lines : l.type = "ok" /\ l.id <= n => Answers(Append(q, l), n)
         /\ q # <<>> => /\ Answers(Tail(q), n)
                        /\ Head(q).id = n => \A k \in DOMAIN Tail(q) : Tail(q)[k].type = "ok"
<1> USE LineFacts, IdFacts DEF Answers
<1>1. ASSUME NEW l \in Lines, l.type = "ok", l.id <= n PROVE Answers(Append(q, l), n)
  <2> SUFFICES ASSUME NEW k \in DOMAIN Append(q, l)
               PROVE  /\ Append(q, l)[k].type \in Outcomes /\ Append(q, l)[k].id <= n
                      /\ Append(q, l)[k].type = "failed" =>
                           \A j \in DOMAIN Append(q, l) : j < k => Append(q, l)[j].id < n
    OBVIOUS
  <2>1. CASE k \in DOMAIN q /\ Append(q, l)[k] = q[k]
    <3>1. \A j \in DOMAIN Append(q, l) : j < k => j \in DOMAIN q /\ Append(q, l)[j] = q[j]
      BY <2>1
    <3> QED
      BY <2>1, <3>1
  <2>2. CASE Append(q, l)[k] = l
    BY <1>1, <2>2 DEF Outcomes
  <2> QED
    BY <2>1, <2>2, AppendFacts
<1>2. ASSUME q # <<>>
      PROVE  /\ Answers(Tail(q), n)
             /\ Head(q).id = n => \A k \in DOMAIN Tail(q) : Tail(q)[k].type = "ok"
  <2>1. /\ 1 \in DOMAIN q /\ Head(q) = q[1]
        /\ \A k \in DOMAIN Tail(q) : k + 1 \in DOMAIN q /\ Tail(q)[k] = q[k + 1]
    BY <1>2, TailFacts
  <2>2. Answers(Tail(q), n)
    <3> SUFFICES ASSUME NEW k \in DOMAIN Tail(q)
                 PROVE  /\ Tail(q)[k].type \in Outcomes /\ Tail(q)[k].id <= n
                        /\ Tail(q)[k].type = "failed" =>
                             \A j \in DOMAIN Tail(q) : j < k => Tail(q)[j].id < n
      OBVIOUS
    <3>1. \A j \in DOMAIN Tail(q) : j \in Nat
      BY <1>2
    <3> QED
      BY <2>1, <3>1
  <2>3. ASSUME Head(q).id = n, NEW k \in DOMAIN Tail(q) PROVE Tail(q)[k].type = "ok"
    <3>1. k \in Nat /\ 1 < k + 1
      BY <1>2
    <3>2. q[k + 1].type # "failed"
      BY <2>1, <2>3, <3>1
    <3> QED
      BY <2>1, <3>2 DEF Outcomes
  <2> HIDE DEF Answers
  <2> QED
    BY <2>2, <2>3
<1> HIDE DEF Answers
<1> QED
  BY <1>1, <1>2

\* The same for the lines of a worker that starts.
LEMMA AnnounceFacts ==
  ASSUME NEW q \in Seq(Lines), Announces(q)
  PROVE  /\ q # <<>> => Announces(Tail(q)) /\ (Head(q) = Ready => Tail(q) = <<>>)
         /\ q # <<>> /\ Silent(q) => Silent(Tail(q)) /\ Head(q) # Ready
         /\ \A l \in Lines : Silent(q) => Announces(Append(q, l))
         /\ \A l \in Lines : Silent(q) /\ l # Ready => Silent(Append(q, l))
<1> USE DEF Announces, Silent
<1>1. CASE q # <<>>
  <2>1. /\ 1 \in DOMAIN q /\ Head(q) = q[1] /\ (Len(q) <= 1 => Tail(q) = <<>>)
        /\ \A k \in DOMAIN Tail(q) : k + 1 \in DOMAIN q /\ Tail(q)[k] = q[k + 1]
    BY <1>1, TailFacts
  <2>2. Len(Tail(q)) = Len(q) - 1 /\ DOMAIN Tail(q) \subseteq Nat /\ Len(q) \in Nat
    BY <1>1
  <2>3. Announces(Tail(q))
    BY <2>1, <2>2
  <2> QED
    BY <2>1, <2>2, <2>3
<1>2. ASSUME NEW l \in Lines, Silent(q) PROVE Announces(Append(q, l))
  <2> SUFFICES ASSUME NEW k \in DOMAIN Append(q, l), k # Len(q) + 1 PROVE Append(q, l)[k] # Ready
    BY AppendFacts
  <2>1. k \in DOMAIN q /\ Append(q, l)[k] = q[k]
    OBVIOUS
  <2> QED
    BY <1>2, <2>1
<1>3. ASSUME NEW l \in Lines, Silent(q), l # Ready PROVE Silent(Append(q, l))
  BY <1>3, AppendFacts
<1> QED
  BY <1>1, <1>2, <1>3

\* A process that is started says ready once, after what its import prints.
LEMMA NextStarting ==
  ASSUME IInv, Next, owner' = "ready"
  PROVE  Starting'
<1> USE WorkerAssumption, LineFacts, IdFacts DEF IInv, TypeOK, ownerVars, pipeVars, procVars, rest
<1>1. CASE StartProcess
  <2>1. w + 1 \in Workers /\ stdin[w + 1] = <<>> /\ stdout[w + 1] = <<>> /\ serving[w + 1] = NoLine
    BY <1>1 DEF StartProcess, InTurn, Workers
  <2>2. /\ w' = w + 1 /\ line' = NoLine /\ UNCHANGED <<stdin, stdout, serving>>
        /\ proc'[w + 1] = "import"
    BY <1>1, <2>1 DEF StartProcess, StartReader
  <2>3. NoLine # Ready
    OBVIOUS
  <2> QED
    BY <2>1, <2>2, <2>3 DEF Starting, Announces, Silent
<1>2. CASE ~StartProcess
  <2>1. owner = "ready" /\ w' = w /\ Starting /\ w \in Workers /\ stdoutOpen[w] /\ Unreaped(w)
    <3>1. owner = "ready" /\ w' = w
      BY <1>2
      DEF Next, StartNext, DoNext, KillNext, ShutdownNext, ProcessNext, Terminated, vars,
          SpawnGivesUp, ReadyArrives, ReadyFails, ReadyTimesOut, TakeJob, Write, WriteFails,
          ReplyAccepted, ReplyRejected, ContextEnds, Recycle, Kill, KillReaps, ShutdownCloses,
          GraceExpires, ShutdownReturns, ReaperReaps, PoolCloses, SupervisorDies, ImportPrints,
          Isolate, EmitReady, TakeRequest, EmitReply, Repeat, Exit, Crash, ReaderReturns
    <3> QED
      BY <3>1 DEF OneUnderWay, InTurn, Holding
  <2>2. CASE UNCHANGED <<stdin, stdout, serving, proc, line>>
    BY <2>1, <2>2 DEF Starting
  <2>3. ASSUME NEW g \in Workers, ProcessNext(g) PROVE Starting'
    <3>1. g = w /\ UNCHANGED line
      BY <2>3, CurrentRuns
      DEF ProcessNext, ImportPrints, Isolate, EmitReady, TakeRequest, EmitReply, Repeat, Exit, Crash,
          Alive, Unreaped
    <3>2. CASE ImportPrints(g)
      <4>1. /\ proc[w] = "import" /\ stdout'[w] = Append(stdout[w], Noise)
            /\ UNCHANGED <<stdin, serving, proc>>
        BY <2>1, <3>1, <3>2 DEF ImportPrints, Emit
      <4>2. Announces(stdout'[w]) /\ Silent(stdout'[w]) /\ Noise # Ready
        BY <2>1, <4>1, AnnounceFacts DEF Starting
      <4> QED
        BY <2>1, <3>1, <4>1, <4>2 DEF Starting
    <3>3. CASE EmitReady(g)
      <4>1. /\ proc[w] = "warm" /\ stdout'[w] = Append(stdout[w], Ready) /\ proc'[w] = "serve"
            /\ UNCHANGED <<stdin, serving>>
        BY <2>1, <3>1, <3>3 DEF EmitReady, Emit
      <4>2. Announces(stdout'[w]) /\ line' # Ready
        BY <2>1, <3>1, <4>1, AnnounceFacts DEF Starting
      <4> QED
        BY <2>1, <3>1, <4>1, <4>2 DEF Starting
    <3>4. CASE Isolate(g) \/ Exit(g) \/ Crash(g)
      <4>1. /\ proc'[w] \in {"warm", "dead"} /\ (proc'[w] = "warm" => proc[w] = "import")
            /\ UNCHANGED <<stdin, stdout, serving>>
        BY <2>1, <3>1, <3>4 DEF Isolate, Exit, Crash
      <4> QED
        BY <2>1, <3>1, <4>1 DEF Starting
    <3>5. ~(TakeRequest(g) \/ EmitReply(g) \/ Repeat(g))
      BY <2>1, <3>1 DEF Starting, TakeRequest, EmitReply, Repeat
    <3> QED
      BY <2>3, <3>2, <3>3, <3>4, <3>5 DEF ProcessNext
  <2>4. ASSUME NEW g \in Workers, NEW id \in Ids, ReaderReturns(g, id) PROVE Starting'
    <3>1. UNCHANGED <<stdin, serving, proc>>
      BY <2>4 DEF ReaderReturns
    <3>2. CASE g # w
      BY <2>1, <2>4, <3>1, <3>2 DEF ReaderReturns, Starting
    <3>3. CASE g = w
      <4>1. \/ /\ stdout[w] # <<>> /\ line' = Head(stdout[w]) /\ stdout'[w] = Tail(stdout[w])
            \/ line' = ReadError /\ stdout' = stdout
        BY <2>1, <2>4, <3>3 DEF ReaderReturns, ReadersInTurn
      <4>2. ReadError # Ready
        OBVIOUS
      <4> QED
        BY <2>1, <3>1, <4>1, <4>2, AnnounceFacts DEF Starting
    <3> QED
      BY <3>2, <3>3
  <2> QED
    BY <1>2, <2>1, <2>2, <2>3, <2>4
    DEF Next, StartNext, DoNext, KillNext, ShutdownNext, Terminated, vars,
        SpawnGivesUp, ReadyArrives, ReadyFails, ReadyTimesOut, TakeJob, Write, WriteFails,
        ReplyAccepted, ReplyRejected, ContextEnds, Recycle, Kill, KillReaps, ShutdownCloses,
        GraceExpires, ShutdownReturns, ReaperReaps, PoolCloses, SupervisorDies, InTurn, Stopping
<1> QED
  BY <1>1, <1>2

\* Between two calls only repeated replies are added to stdout, and those of
\* the call that ends are all that its reply leaves behind.
LEMMA NextResting ==
  ASSUME IInv, Next
  PROVE  (owner' = "idle" => Resting(nextID + 1)') /\ (owner' = "write" => Resting(nextID)')
<1> USE WorkerAssumption, LineFacts, IdFacts DEF IInv, TypeOK, ownerVars, pipeVars, procVars, rest
<1>0. nextID \in Nat /\ strays \in Nat
  OBVIOUS
<1>1. CASE ReadyArrives
  <2>1. owner = "ready" /\ line = Ready /\ owner' = "idle" /\ UNCHANGED rest
    BY <1>1 DEF ReadyArrives
  <2>2. Starting /\ w \in Workers /\ Unreaped(w)
    BY <2>1 DEF OneUnderWay, InTurn, Holding
  <2>3. proc[w] \in {"serve", "dead"}
    BY <2>1, <2>2 DEF Starting, Unreaped, ProcStates
  <2>4. stdout[w] = <<>> /\ stdin[w] = <<>> /\ serving[w].id = 0
    BY <2>1, <2>2 DEF Starting, NoLine
  <2> QED
    BY <1>0, <2>1, <2>3, <2>4 DEF Resting, Repeats
<1>2. CASE ReplyAccepted
  <2>1. /\ owner = "read" /\ line.type = "ok" /\ line.id = nextID /\ owner' = "idle"
        /\ UNCHANGED rest
    BY <1>2 DEF ReplyAccepted
  <2>2. Calling /\ w \in Workers /\ Arrived
    BY <2>1 DEF OneUnderWay, InTurn, Holding, Arrived
  <2>3. ~Pending
    BY <1>0, <2>1, <2>2 DEF Calling
  <2>4. stdin[w] = <<>> /\ proc[w] \in {"serve", "dead"} /\ Len(stdout[w]) <= strays
    BY <2>2, <2>3 DEF Calling, Pending
  <2>5. Repeats(stdout[w], nextID + 1)
    <3> SUFFICES ASSUME NEW k \in DOMAIN stdout[w]
                 PROVE  stdout[w][k].type = "ok" /\ stdout[w][k].id < nextID + 1
      BY DEF Repeats
    <3>1. stdout[w][k].type = "ok" /\ stdout[w][k].id <= nextID
      BY <2>1, <2>2 DEF Calling, Answers
    <3>2. stdout[w][k] \in Lines
      BY <2>2
    <3>3. stdout[w][k].id \in Nat
      BY <3>2
    <3> QED
      BY <1>0, <3>1, <3>3
  <2>6. serving[w].id < nextID + 1
    <3>1. serving[w].id <= nextID /\ serving[w].id \in Nat
      BY <2>2 DEF Calling
    <3> QED
      BY <1>0, <3>1
  <2> QED
    BY <2>1, <2>4, <2>5, <2>6 DEF Resting
<1>3. CASE TakeJob
  BY <1>3 DEF TakeJob, OneUnderWay, Resting
<1>4. CASE ~(ReadyArrives \/ ReplyAccepted \/ TakeJob) /\ owner' \in {"idle", "write"}
  <2>1. UNCHANGED <<owner, w, nextID>>
    BY <1>4
    DEF Next, StartNext, DoNext, KillNext, ShutdownNext, ProcessNext, Terminated, vars, StartProcess,
        SpawnGivesUp, ReadyFails, ReadyTimesOut, Write, WriteFails, ReplyRejected, ContextEnds,
        Recycle, Kill, KillReaps, ShutdownCloses, GraceExpires, ShutdownReturns, ReaperReaps,
        PoolCloses, SupervisorDies, ImportPrints, Isolate, EmitReady, TakeRequest, EmitReply,
        Repeat, Exit, Crash, ReaderReturns
  <2>2. PICK n \in Nat : /\ n = IF owner = "idle" THEN nextID + 1 ELSE nextID
                         /\ Resting(n)
    BY <1>0, <1>4, <2>1 DEF OneUnderWay
  <2>3. SUFFICES Resting(n)'
    BY <1>4, <2>1, <2>2
  <2>4. w \in Workers
    BY <1>4, <2>1 DEF InTurn, Holding
  <2>5. CASE UNCHANGED <<stdin, stdout, serving, proc, strays>>
    BY <2>1, <2>2, <2>5 DEF Resting
  <2>6. ASSUME NEW g \in Workers, ProcessNext(g) PROVE Resting(n)'
    <3>1. g = w
      BY <2>6, CurrentRuns
      DEF ProcessNext, ImportPrints, Isolate, EmitReady, TakeRequest, EmitReply, Repeat, Exit, Crash,
          Alive, Unreaped
    <3>2. CASE Repeat(g)
      <4>1. /\ stdout'[w] = Append(stdout[w], Line("ok", serving[w].id, serving[w].of))
            /\ strays' = strays + 1 /\ UNCHANGED <<stdin, serving, proc>>
        BY <2>4, <3>1, <3>2 DEF Repeat, Emit
      <4>2. Line("ok", serving[w].id, serving[w].of) \in Lines
        BY <2>4 DEF Outcomes
      <4>3. Line("ok", serving[w].id, serving[w].of).type = "ok"
        BY DEF Line
      <4>4. Repeats(stdout'[w], n)
        <5>1. /\ Repeats(stdout[w], n) /\ stdout[w] \in Seq(Lines)
              /\ Line("ok", serving[w].id, serving[w].of).id < n
          BY <2>2, <2>4 DEF Resting
        <5> QED
          BY <4>1, <4>2, <4>3, <5>1, RepeatsFacts
      <4>5. Len(stdout'[w]) = Len(stdout[w]) + 1 /\ Len(stdout[w]) \in Nat
        BY <2>4, <4>1, <4>2, AppendFacts
      <4>6. Len(stdout'[w]) <= strays'
        BY <1>0, <2>2, <4>1, <4>5 DEF Resting
      <4> QED
        BY <2>1, <2>2, <4>1, <4>4, <4>6 DEF Resting
    <3>3. CASE Exit(g) \/ Crash(g)
      <4>1. proc'[w] = "dead" /\ UNCHANGED <<stdin, stdout, serving, strays>>
        BY <2>4, <3>1, <3>3 DEF Exit, Crash
      <4> QED
        BY <2>1, <2>2, <4>1 DEF Resting
    <3>4. ~(ImportPrints(g) \/ Isolate(g) \/ EmitReady(g) \/ TakeRequest(g) \/ EmitReply(g))
      BY <2>2, <3>1 DEF Resting, ImportPrints, Isolate, EmitReady, TakeRequest, EmitReply
    <3> QED
      BY <2>6, <3>2, <3>3, <3>4 DEF ProcessNext
  <2>7. ASSUME NEW g \in Workers, NEW id \in Ids, ReaderReturns(g, id) PROVE Resting(n)'
    <3>1. g # w
      BY <1>4, <2>1, <2>7 DEF ReaderReturns, ReadersInTurn
    <3> QED
      BY <2>1, <2>2, <2>4, <2>7, <3>1 DEF ReaderReturns, Resting
  <2> QED
    BY <1>4, <2>1, <2>5, <2>6, <2>7
    DEF Next, StartNext, DoNext, KillNext, ShutdownNext, Terminated, vars, StartProcess,
        SpawnGivesUp, ReadyFails, ReadyTimesOut, Write, WriteFails, ReplyRejected, ContextEnds,
        Recycle, Kill, KillReaps, ShutdownCloses, GraceExpires, ShutdownReturns, ReaperReaps,
        PoolCloses, SupervisorDies, InTurn, Stopping
<1> QED
  BY <1>1, <1>2, <1>3, <1>4

\* During a call the worker adds the one reply, and repetitions before or after.
LEMMA NextCalling ==
  ASSUME IInv, Next, owner' = "read"
  PROVE  Calling'
<1> USE WorkerAssumption, LineFacts, IdFacts DEF IInv, TypeOK, ownerVars, pipeVars, procVars, rest
<1>0. nextID \in Nat /\ strays \in Nat
  OBVIOUS
<1>1. CASE Write
  <2>1. /\ owner = "write" /\ Alive(w) /\ w \in Workers /\ req \in Requests /\ Resting(nextID)
        /\ UNCHANGED <<w, nextID, stdout, proc, serving, strays>> /\ line' = NoLine
        /\ stdin' = [stdin EXCEPT ![w] = Append(@, Line("request", nextID, req))]
    BY <1>1 DEF Write, StartReader, OneUnderWay, InTurn, Holding, Numbered
  <2>2. /\ stdin[w] = <<>> /\ proc[w] = "serve" /\ Len(stdout[w]) <= strays
        /\ Repeats(stdout[w], nextID) /\ serving[w].id < nextID /\ serving[w].id \in Nat
        /\ stdout[w] \in Seq(Lines) /\ Len(stdout[w]) \in Nat
    <3>1. serving[w].id \in Nat
      BY <2>1
    <3>2. stdout[w] \in Seq(Lines) /\ Len(stdout[w]) \in Nat
      BY <2>1
    <3> QED
      BY <2>1, <3>1, <3>2 DEF Resting, Alive
  <2>3. stdin'[w] = Append(<<>>, Line("request", nextID, req))
    BY <2>1, <2>2
  <2>4. Len(stdin'[w]) <= 1 /\ \A k \in DOMAIN stdin'[w] : stdin'[w][k].id = nextID
    <3>1. Line("request", nextID, req) \in Envelopes /\ Line("request", nextID, req).id = nextID
      BY <2>1
    <3>2. <<>> \in Seq(Envelopes) /\ Len(<<>>) = 0 /\ DOMAIN <<>> = {}
      OBVIOUS
    <3> QED
      BY <2>3, <3>1, <3>2, AppendFacts
  <2>5. Answers(stdout[w], nextID)
    BY <1>0, <2>2, RepeatsFacts
  <2>6. ~Arrived'
    BY <2>1 DEF Arrived
  <2> QED
    BY <1>0, <2>1, <2>2, <2>4, <2>5, <2>6 DEF Calling, Pending
<1>2. CASE ~Write
  <2>1. UNCHANGED <<owner, w, nextID>>
    BY <1>2
    DEF Next, StartNext, DoNext, KillNext, ShutdownNext, ProcessNext, Terminated, vars, StartProcess,
        SpawnGivesUp, ReadyArrives, ReadyFails, ReadyTimesOut, TakeJob, WriteFails, ReplyAccepted,
        ReplyRejected, ContextEnds, Recycle, Kill, KillReaps, ShutdownCloses, GraceExpires,
        ShutdownReturns, ReaperReaps, PoolCloses, SupervisorDies, ImportPrints, Isolate, EmitReady,
        TakeRequest, EmitReply, Repeat, Exit, Crash, ReaderReturns
  <2>2. Calling /\ w \in Workers /\ stdoutOpen[w] /\ stdout[w] \in Seq(Lines) /\ Len(stdout[w]) \in Nat
    BY <2>1 DEF OneUnderWay, InTurn, Holding
  <2>3. CASE UNCHANGED <<stdin, stdout, serving, proc, line, strays>>
    BY <2>1, <2>2, <2>3 DEF Calling, Pending, Arrived
  <2>4. ASSUME NEW g \in Workers, ProcessNext(g) PROVE Calling'
    <3>1. g = w /\ UNCHANGED line
      BY <2>4, CurrentRuns
      DEF ProcessNext, ImportPrints, Isolate, EmitReady, TakeRequest, EmitReply, Repeat, Exit, Crash,
          Alive, Unreaped
    <3> DEFINE l(type) == Line(type, serving[w].id, serving[w].of)
    <3>2. \A type \in Outcomes : /\ l(type) \in Lines /\ l(type).id = serving[w].id
                                 /\ l(type).type = type
      BY <2>2 DEF Line
    <3>3. CASE Repeat(g)
      <4>1. /\ stdout'[w] = Append(stdout[w], l("ok")) /\ strays' = strays + 1
            /\ UNCHANGED <<stdin, serving, proc>> /\ proc[w] = "serve"
        BY <2>2, <3>1, <3>3 DEF Repeat, Emit
      <4>2. l("ok") \in Lines /\ l("ok").id = serving[w].id /\ l("ok").type = "ok"
        BY <3>2 DEF Outcomes
      <4> HIDE DEF l
      <4>3. Answers(stdout'[w], nextID)
        BY <1>0, <2>2, <4>1, <4>2, AnswersFacts DEF Calling
      <4>4. /\ Len(stdout'[w]) = Len(stdout[w]) + 1
            /\ \A k \in DOMAIN stdout'[w] :
                 (k \in DOMAIN stdout[w] /\ stdout'[w][k] = stdout[w][k]) \/ stdout'[w][k] = l("ok")
        BY <2>2, <4>1, <4>2, AppendFacts
      <4>5. Pending' => Pending /\ Repeats(stdout'[w], nextID)
        <5>1. Pending' => Pending /\ stdin[w] # <<>>
          BY <2>1, <4>1 DEF Pending
        <5>2. stdin[w] # <<>> => Repeats(stdout[w], nextID) /\ serving[w].id < nextID
          BY <2>2 DEF Calling, Pending
        <5> QED
          BY <1>0, <2>2, <4>1, <4>2, <5>1, <5>2, RepeatsFacts
      <4>6. Arrived' = Arrived
        BY <3>1 DEF Arrived
      <4>7. (\A k \in DOMAIN stdout[w] : stdout[w][k].type = "ok") =>
              \A k \in DOMAIN stdout'[w] : stdout'[w][k].type = "ok"
        <5> SUFFICES ASSUME \A k \in DOMAIN stdout[w] : stdout[w][k].type = "ok",
                            NEW k \in DOMAIN stdout'[w]
                     PROVE  stdout'[w][k].type = "ok"
          OBVIOUS
        <5>1. CASE k \in DOMAIN stdout[w] /\ stdout'[w][k] = stdout[w][k]
          BY <5>1
        <5>2. CASE stdout'[w][k] = l("ok")
          BY <4>2, <5>2
        <5> QED
          BY <4>4, <5>1, <5>2
      <4>8. /\ Len(stdout'[w]) <= strays' + 1 /\ (Arrived => Len(stdout'[w]) <= strays')
            /\ (Pending => Len(stdout'[w]) <= strays')
            /\ (Arrived /\ Pending => line.id < nextID /\ Len(stdout'[w]) < strays')
        BY <1>0, <2>2, <4>1, <4>4 DEF Calling
      <4> QED
        BY <2>1, <2>2, <3>1, <4>1, <4>3, <4>5, <4>6, <4>7, <4>8 DEF Calling
    <3>4. CASE EmitReply(g)
      <4>1. PICK type \in Outcomes :
              /\ stdout'[w] = Append(stdout[w], l(type)) /\ proc'[w] = "serve"
              /\ UNCHANGED <<stdin, serving, strays>> /\ proc[w] = "busy"
        BY <2>2, <3>1, <3>4 DEF EmitReply, Emit
      <4>2. l(type) \in Lines /\ l(type).id = serving[w].id /\ l(type).type \in Outcomes
        BY <3>2
      <4> HIDE DEF l
      <4>3. /\ Pending /\ stdin[w] = <<>> /\ Repeats(stdout[w], nextID) /\ Len(stdout[w]) <= strays
            /\ serving[w].id <= nextID
            /\ (Arrived => line.id < nextID /\ Len(stdout[w]) < strays)
        BY <2>2, <4>1 DEF Calling, Pending
      <4>4. Answers(stdout'[w], nextID)
        BY <1>0, <2>2, <4>1, <4>2, <4>3, RepeatsFacts
      <4>5. Len(stdout'[w]) = Len(stdout[w]) + 1
        BY <2>2, <4>1, <4>2, AppendFacts
      <4>6. Arrived' = Arrived /\ ~Pending'
        BY <2>1, <3>1, <4>1, <4>3 DEF Arrived, Pending
      <4>7. Arrived => line.id # nextID
        BY <1>0, <4>3
      <4>8. Len(stdout'[w]) <= strays' + 1 /\ (Arrived => Len(stdout'[w]) <= strays')
        BY <1>0, <2>2, <4>1, <4>3, <4>5
      <4> QED
        BY <2>1, <2>2, <3>1, <4>1, <4>3, <4>4, <4>6, <4>7, <4>8 DEF Calling
    <3>5. CASE TakeRequest(g)
      <4>1. /\ stdin[w] # <<>> /\ proc'[w] = "busy" /\ serving'[w] = Head(stdin[w])
            /\ stdin'[w] = Tail(stdin[w]) /\ UNCHANGED <<stdout, strays>>
        BY <2>2, <3>1, <3>5 DEF TakeRequest
      <4>2. stdin'[w] = <<>> /\ serving'[w].id = nextID
        BY <2>2, <4>1, TailFacts DEF Calling
      <4>3. Pending /\ Arrived' = Arrived
        BY <3>1, <4>1 DEF Pending, Arrived
      <4> QED
        BY <1>0, <2>1, <2>2, <3>1, <4>1, <4>2, <4>3 DEF Calling
    <3>6. CASE Exit(g) \/ Crash(g)
      <4>1. proc'[w] = "dead" /\ UNCHANGED <<stdin, stdout, serving, strays>>
        BY <2>2, <3>1, <3>6 DEF Exit, Crash
      <4>2. Arrived' = Arrived /\ (Pending' => Pending)
        BY <2>1, <3>1, <4>1 DEF Pending, Arrived
      <4> QED
        BY <2>1, <2>2, <3>1, <4>1, <4>2 DEF Calling
    <3>7. ~(ImportPrints(g) \/ Isolate(g) \/ EmitReady(g))
      BY <2>2, <3>1 DEF Calling, ImportPrints, Isolate, EmitReady
    <3> QED
      BY <2>4, <3>3, <3>4, <3>5, <3>6, <3>7 DEF ProcessNext
  <2>5. ASSUME NEW g \in Workers, NEW id \in Ids, ReaderReturns(g, id) PROVE Calling'
    <3>1. UNCHANGED <<stdin, serving, proc, strays>>
      BY <2>5 DEF ReaderReturns
    <3>2. CASE g # w
      <4>1. UNCHANGED line /\ stdout'[w] = stdout[w]
        BY <2>2, <2>5, <3>2 DEF ReaderReturns
      <4> QED
        BY <2>1, <2>2, <3>1, <4>1 DEF Calling, Pending, Arrived
    <3>3. CASE g = w
      <4>1. \/ /\ stdout[w] # <<>> /\ line' = Head(stdout[w]) /\ stdout'[w] = Tail(stdout[w])
            \/ line' = ReadError /\ stdout' = stdout
        BY <2>1, <2>2, <2>5, <3>3 DEF ReaderReturns, ReadersInTurn
      <4>2. Pending' = Pending
        BY <2>1, <3>1 DEF Pending
      <4>3. CASE line' = ReadError /\ stdout' = stdout
        BY <2>1, <2>2, <3>1, <4>2, <4>3 DEF Calling, Arrived
      <4>4. CASE stdout[w] # <<>> /\ line' = Head(stdout[w]) /\ stdout'[w] = Tail(stdout[w])
        <5>0. /\ Answers(Tail(stdout[w]), nextID)
              /\ Head(stdout[w]).id = nextID =>
                   \A k \in DOMAIN Tail(stdout[w]) : Tail(stdout[w])[k].type = "ok"
          <6>1. Answers(stdout[w], nextID)
            BY <2>2 DEF Calling
          <6> QED
            BY <1>0, <2>2, <4>4, <6>1, AnswersFacts
        <5>1. /\ Answers(stdout'[w], nextID)
              /\ line'.id = nextID => \A k \in DOMAIN stdout'[w] : stdout'[w][k].type = "ok"
          BY <4>4, <5>0
        <5>2. Pending => Repeats(stdout'[w], nextID) /\ line'.id < nextID
          <6>1. Pending => Repeats(stdout[w], nextID)
            BY <2>2 DEF Calling
          <6>2. Pending => Repeats(Tail(stdout[w]), nextID) /\ Head(stdout[w]).id < nextID
            BY <1>0, <2>2, <4>4, <6>1, RepeatsFacts
          <6> QED
            BY <4>4, <6>2
        <5>3. Len(stdout'[w]) = Len(stdout[w]) - 1
          BY <2>2, <4>4
        <5>4. Len(stdout'[w]) <= strays /\ (Pending => Len(stdout'[w]) < strays)
          BY <1>0, <2>2, <5>3 DEF Calling
        <5>5. Len(stdout'[w]) <= strays + 1 /\ (Pending => Len(stdout'[w]) <= strays)
          BY <1>0, <2>2, <5>3, <5>4
        <5> QED
          BY <2>1, <2>2, <3>1, <4>2, <5>1, <5>2, <5>4, <5>5 DEF Calling
      <4> QED
        BY <4>1, <4>3, <4>4
    <3> QED
      BY <3>2, <3>3
  <2> QED
    BY <1>2, <2>1, <2>3, <2>4, <2>5
    DEF Next, StartNext, DoNext, KillNext, ShutdownNext, Terminated, vars, StartProcess,
        SpawnGivesUp, ReadyArrives, ReadyFails, ReadyTimesOut, TakeJob, WriteFails, ReplyAccepted,
        ReplyRejected, ContextEnds, Recycle, Kill, KillReaps, ShutdownCloses, GraceExpires,
        ShutdownReturns, ReaperReaps, PoolCloses, SupervisorDies, InTurn, Stopping
<1> QED
  BY <1>1, <1>2

\* One thing at a time is under way, from the start of a process to its end.
LEMMA NextOneUnderWay ==
  ASSUME IInv, Next
  PROVE  OneUnderWay'
  BY NextStarting, NextResting, NextCalling DEF OneUnderWay

-----------------------------------------------------------------------------
(* The invariant and what follows from it.                                 *)

\* Before the first process is started nothing is under way.
LEMMA InitIInv == Init => IInv
<1> SUFFICES ASSUME Init PROVE IInv
  OBVIOUS
<1> USE WorkerAssumption, LineFacts, IdFacts DEF Init
<1>1. TypeOK
  <2>1. \A S : <<>> \in Seq(S)
    OBVIOUS
  <2>2. 0 \in Ids
    BY DEF Ids
  <2>3. stdin \in [Workers -> Seq(Envelopes)] /\ stdout \in [Workers -> Seq(Lines)]
    BY <2>1
  <2>4. strays \in 0..MaxStrays /\ w \in 0..MaxWorkers
    OBVIOUS
  <2>5. answer \in [Requests -> Ids \cup {Null}] /\ readers \in [Workers -> SUBSET Ids]
    OBVIOUS
  <2> QED
    BY <2>2, <2>3, <2>4, <2>5 DEF TypeOK, OwnerStates, ProcStates
<1>2. InTurn /\ WaitsInTurn /\ ReadersInTurn
  BY DEF InTurn, WaitsInTurn, WaitOnce, ReadersInTurn, Holding, Stopping, Workers
<1>3. Numbered /\ OwnResult /\ OneUnderWay
  BY DEF Numbered, OwnResult, OneUnderWay, Workers
<1> QED
  BY <1>1, <1>2, <1>3 DEF IInv

\* The invariant is inductive.
LEMMA NextIInv == IInv /\ [Next]_vars => IInv'
<1> SUFFICES ASSUME IInv, [Next]_vars PROVE IInv'
  OBVIOUS
<1>1. CASE Next
  BY <1>1, NextTypeOK, NextInTurn, NextWaitsInTurn, NextReadersInTurn, NextNumbered, NextOwnResult,
     NextOneUnderWay
  DEF IInv
<1>2. CASE UNCHANGED vars
  BY <1>2 DEF IInv, TypeOK, InTurn, WaitsInTurn, WaitOnce, ReadersInTurn, Numbered, Own, OwnResult,
     OneUnderWay, Starting, Resting, Calling, Pending, Arrived, Unreaped, vars, ownerVars, pipeVars, procVars
<1> QED
  BY <1>1, <1>2

\* The invariant holds in every behaviour of a slot's workers.
LEMMA InvariantHolds == Spec => []IInv
  BY InitIInv, NextIInv, PTL DEF Spec

\* Every variable keeps its type; what is read from a worker's stdout is a line
\* that the worker wrote.
THEOREM WorkerTypeCorrect == Spec => []TypeOK
<1>1. IInv => TypeOK
  BY DEF IInv
<1> QED
  BY InvariantHolds, <1>1, PTL

\* do returns what was computed for its own request, however many processes,
\* requests and stray or repeated lines there are: the comparison of ids
\* suffices although every process counts from zero again.
THEOREM ResultsAreOwn == Spec => []OwnResult
<1>1. IInv => OwnResult
  BY DEF IInv
<1> QED
  BY InvariantHolds, <1>1, PTL

\* No two goroutines read from one worker's bufio.Reader.
THEOREM ReadersAreAlone == Spec => []OneReader
<1>1. IInv => OneReader
  <2> SUFFICES ASSUME IInv, NEW g \in Workers PROVE Cardinality(readers[g]) <= 1
    BY DEF OneReader
  <2>1. CASE readers[g] = {}
    BY <2>1, FS_EmptySet
  <2>2. ASSUME NEW a \in readers[g] PROVE Cardinality(readers[g]) <= 1
    <3>1. readers[g] = {a}
      BY DEF IInv, ReadersInTurn
    <3>2. Cardinality({a}) = 1
      BY FS_Singleton
    <3> QED
      BY <3>1, <3>2
  <2> QED
    BY <2>1, <2>2
<1> QED
  BY InvariantHolds, <1>1, PTL

\* A slot never has two processes, and has none when it starts the next one
\* or returns.
THEOREM ProcessesAreAlone == Spec => []OneProcess
<1>1. IInv => OneProcess
  <2> SUFFICES ASSUME IInv PROVE OneProcess
    OBVIOUS
  <2> DEFINE U == {g \in Workers : proc[g] \notin {"none", "reaped"}}
  <2>1. U \subseteq {w}
    BY CurrentRuns DEF Unreaped
  <2>2. Cardinality(U) <= 1
    <3>1. CASE U = {}
      BY <3>1, FS_EmptySet
    <3>2. CASE U = {w}
      BY <3>2, FS_Singleton
    <3> QED
      BY <2>1, <3>1, <3>2
  <2>3. owner \in {"spawn", "done"} => \A g \in Workers : proc[g] \in {"none", "reaped"}
    <3> SUFFICES ASSUME owner \in {"spawn", "done"}, NEW g \in Workers, Unreaped(g) PROVE FALSE
      BY DEF Unreaped
    <3>1. g = w
      BY CurrentRuns
    <3> QED
      BY <3>1 DEF IInv, InTurn, Unreaped
  <2> QED
    BY <2>2, <2>3 DEF OneProcess
<1> QED
  BY InvariantHolds, <1>1, PTL

\* kill and shutdown never both wait for one process.
THEOREM WaitedForOnce == Spec => []WaitOnce
<1>1. IInv => WaitOnce
  BY DEF IInv, WaitsInTurn
<1> QED
  BY InvariantHolds, <1>1, PTL

\* Between two calls nothing is under way, however many lines outside the
\* protocol the worker writes: each call reads one line, and ends the worker
\* unless that line is its reply.
THEOREM QuietWhileIdle == Spec => []QuietBetweenCalls
<1>1. IInv => QuietBetweenCalls
  <2> SUFFICES ASSUME IInv, owner = "idle" PROVE QuietBetweenCalls
    BY DEF QuietBetweenCalls
  <2>1. Resting(nextID + 1) /\ readers[w] = {} /\ nextID \in Nat /\ stdout[w] \in Seq(Lines)
    BY IdFacts DEF IInv, OneUnderWay, ReadersInTurn, TypeOK, InTurn, Holding
  <2>2. ASSUME NEW k \in DOMAIN stdout[w]
        PROVE  stdout[w][k].type = "ok" /\ stdout[w][k].id <= nextID
    <3>1. stdout[w][k] \in Lines
      BY <2>1
    <3>2. stdout[w][k].id \in Nat
      BY <3>1, LineFacts, IdFacts
    <3> QED
      BY <2>1, <3>2 DEF Resting, Repeats
  <2> QED
    BY <2>1, <2>2 DEF QuietBetweenCalls, Resting
<1> QED
  BY InvariantHolds, <1>1, PTL
=============================================================================
