------------------------------- MODULE Worker -------------------------------
(***************************************************************************)
(* One slot's worker processes: startWorker, do, shutdown and kill in      *)
(* src/pool.go on one end of the pipes, src/worker.py on the other.        *)
(*                                                                         *)
(* The slot's goroutine, the owner, starts process after process, each     *)
(* with pipes of its own; process w is the current one.  readLine leaves   *)
(* the blocking read to a goroutine, the reader, known by the id of the    *)
(* call it reads for (0 for the ready line).  A request is known by its    *)
(* number in the slot's life; ids start again with every process.          *)
(*                                                                         *)
(* The owner's steps between a recycled worker's kill and the next start   *)
(* (the backoff, the reply) are in Pool.  A definition named X_Slip is X   *)
(* with a plausible slip in the code, as there.                            *)
(***************************************************************************)
EXTENDS Naturals, Sequences, FiniteSets

CONSTANTS
  MaxWorkers,  \* bound on the processes that are started
  MaxRequests, \* bound on the requests that are sent
  MaxStrays,   \* bound on the lines that are outside the protocol
  Null

Workers == 1..MaxWorkers
Requests == 1..MaxRequests
Ids == 0..MaxRequests

\* What do returns when it fails: no request has this number.
Failed == 0

ASSUME WorkerAssumption ==
  /\ MaxWorkers \in Nat /\ MaxRequests \in Nat /\ MaxStrays \in Nat
  /\ Null \notin Ids

VARIABLES
  \* the owner
  owner,    \* where it is
  w,        \* the current process, 0 before the first
  nextID,   \* w.nextID
  req,      \* the last request it took
  answer,   \* answer[r]: what do returned for r, or the request it belongs to
  line,     \* the channel of the current readLine: a line or none
  reaper,   \* shutdown's goroutine
  waits,    \* waits[g]: calls of cmd.Wait for process g
  closed,   \* the pool's context is done
  \* the pipes
  stdin, stdout,
  stdinOpen,  \* the owner's end of stdin
  stdoutOpen, \* the owner's end of stdout, which cmd.Wait closes
  readers,    \* readers[g]: the goroutines in a read of g's stdout
  \* the processes
  proc,     \* where process g is
  killed,   \* SIGKILL was sent to it
  serving,  \* the request it works on
  strays    \* counts lines outside the protocol, up to MaxStrays

ownerVars == <<owner, w, nextID, req, answer, reaper, waits>>
pipeVars == <<stdin, stdout, stdinOpen, stdoutOpen>>
procVars == <<proc, killed, serving, strays>>
vars == <<ownerVars, line, closed, pipeVars, readers, procVars>>

\* All but where the owner is and what it has answered.
rest == <<w, nextID, req, line, reaper, waits, closed, pipeVars, readers, procVars>>

\* A line.  of is the request that a reply was computed for.
Line(type, id, of) == [type |-> type, id |-> id, of |-> of]
Ready == Line("ready", 0, 0)
Noise == Line("noise", 0, 0)
ReadError == Line("error", 0, 0)
NoLine == Line("none", 0, 0)

\* What is on stdout and on stdin.
Lines == [type : {"ready", "noise", "ok", "failed"}, id : Ids, of : Ids]
Envelopes == [type : {"request"}, id : Ids, of : Requests]

OwnerStates ==
  {"spawn", "ready", "idle", "write", "read", "kill", "reap", "grace", "forced", "done", "gone"}
ProcStates == {"none", "import", "warm", "serve", "busy", "dead", "reaped"}

Alive(g) == proc[g] \in {"import", "warm", "serve", "busy"}

Init ==
  /\ owner = "spawn"
  /\ w = 0
  /\ nextID = 0
  /\ req = 0
  /\ answer = [r \in Requests |-> Null]
  /\ line = NoLine
  /\ reaper = "none"
  /\ waits = [g \in Workers |-> 0]
  /\ closed = FALSE
  /\ stdin = [g \in Workers |-> <<>>]
  /\ stdout = [g \in Workers |-> <<>>]
  /\ stdinOpen = [g \in Workers |-> FALSE]
  /\ stdoutOpen = [g \in Workers |-> FALSE]
  /\ readers = [g \in Workers |-> {}]
  /\ proc = [g \in Workers |-> "none"]
  /\ killed = [g \in Workers |-> FALSE]
  /\ serving = [g \in Workers |-> NoLine]
  /\ strays = 0

-----------------------------------------------------------------------------
(* startWorker and readLine.                                               *)

\* readLine starts its reader for call id; the channel is a new one.
StartReader(g, id) ==
  /\ readers' = [readers EXCEPT ![g] = @ \cup {id}]
  /\ line' = NoLine

StartProcess ==
  /\ owner = "spawn"
  /\ ~closed
  /\ w < MaxWorkers
  /\ w' = w + 1
  /\ nextID' = 0
  /\ proc' = [proc EXCEPT ![w + 1] = "import"]
  /\ stdinOpen' = [stdinOpen EXCEPT ![w + 1] = TRUE]
  /\ stdoutOpen' = [stdoutOpen EXCEPT ![w + 1] = TRUE]
  /\ StartReader(w + 1, 0)
  /\ owner' = "ready"
  /\ UNCHANGED <<req, answer, reaper, waits, closed, stdin, stdout, killed, serving, strays>>

\* spawn returns nil, and runSlot returns with no worker to shut down.
SpawnGivesUp ==
  /\ owner = "spawn"
  /\ closed
  /\ owner' = "done"
  /\ UNCHANGED <<answer, rest>>

\* A reader's ReadBytes returns: the next line, or an error at the end of
\* the stream or on a closed pipe.  Nobody listens to the channel of a
\* readLine that has returned.
ReaderReturns(g, id) ==
  /\ id \in readers[g]
  /\ readers' = [readers EXCEPT ![g] = @ \ {id}]
  /\ LET current == g = w /\ id = nextID /\ owner \in {"ready", "read"}
     IN  \/ /\ stdoutOpen[g]
            /\ stdout[g] # <<>>
            /\ line' = IF current THEN Head(stdout[g]) ELSE line
            /\ stdout' = [stdout EXCEPT ![g] = Tail(@)]
         \/ /\ stdoutOpen[g] => stdout[g] = <<>> /\ ~Alive(g)
            /\ line' = IF current THEN ReadError ELSE line
            /\ UNCHANGED stdout
  /\ UNCHANGED <<ownerVars, closed, stdin, stdinOpen, stdoutOpen, procVars>>

\* Whatever comes first is taken for the ready line.
ReadyArrives_AnyLine ==
  /\ owner = "ready"
  /\ line \notin {NoLine, ReadError}
  /\ owner' = "idle"
  /\ UNCHANGED <<answer, rest>>

\* awaitReady: the ready line, another first line or none, or the timeout.
ReadyArrives ==
  /\ owner = "ready"
  /\ line = Ready
  /\ owner' = "idle"
  /\ UNCHANGED <<answer, rest>>

ReadyFails ==
  /\ owner = "ready"
  /\ line \notin {Ready, NoLine}
  /\ owner' = "kill"
  /\ UNCHANGED <<answer, rest>>

ReadyTimesOut ==
  /\ owner = "ready"
  /\ owner' = "kill"
  /\ UNCHANGED <<answer, rest>>

-----------------------------------------------------------------------------
(* do.                                                                     *)

TakeJob ==
  /\ owner = "idle"
  /\ req < MaxRequests
  /\ req' = req + 1
  /\ nextID' = nextID + 1
  /\ owner' = "write"
  /\ UNCHANGED <<w, answer, line, reaper, waits, closed, pipeVars, readers, procVars>>

\* do fails and runSlot recycles the worker.
Recycle ==
  /\ answer' = [answer EXCEPT ![req] = Failed]
  /\ owner' = "kill"

Write ==
  /\ owner = "write"
  /\ Alive(w)
  /\ stdin' = [stdin EXCEPT ![w] = Append(@, Line("request", nextID, req))]
  /\ StartReader(w, nextID)
  /\ owner' = "read"
  /\ UNCHANGED <<w, nextID, req, answer, reaper, waits, closed,
                 stdout, stdinOpen, stdoutOpen, procVars>>

WriteFails ==
  /\ owner = "write"
  /\ ~Alive(w)
  /\ Recycle
  /\ UNCHANGED rest

\* The id of the response is not compared.
ReplyAccepted_AnyID ==
  /\ owner = "read"
  /\ line.type = "ok"
  /\ answer' = [answer EXCEPT ![req] = line.of]
  /\ owner' = "idle"
  /\ UNCHANGED rest

ReplyAccepted ==
  /\ owner = "read"
  /\ line.type = "ok"
  /\ line.id = nextID
  /\ answer' = [answer EXCEPT ![req] = line.of]
  /\ owner' = "idle"
  /\ UNCHANGED rest

\* A read error, a line that is no response, another id, or ok: false.
ReplyRejected ==
  /\ owner = "read"
  /\ line # NoLine
  /\ ~(line.type = "ok" /\ line.id = nextID)
  /\ Recycle
  /\ UNCHANGED rest

\* The error of an ended context does not cost the worker.
ContextEnds_KeepsWorker ==
  /\ owner = "read"
  /\ answer' = [answer EXCEPT ![req] = Failed]
  /\ owner' = "idle"
  /\ UNCHANGED rest

\* The hard cap, or the pool's context; the reader is left behind.
ContextEnds ==
  /\ owner = "read"
  /\ Recycle
  /\ UNCHANGED rest

-----------------------------------------------------------------------------
(* kill, signalKill and shutdown.                                          *)

\* A kill that only waits for the process.
Kill_NoSignal ==
  /\ owner = "kill"
  /\ waits' = [waits EXCEPT ![w] = @ + 1]
  /\ owner' = "reap"
  /\ UNCHANGED <<w, nextID, req, answer, line, reaper, closed, pipeVars, readers, procVars>>

Kill ==
  /\ owner = "kill"
  /\ killed' = [killed EXCEPT ![w] = TRUE]
  /\ waits' = [waits EXCEPT ![w] = @ + 1]
  /\ owner' = "reap"
  /\ UNCHANGED <<w, nextID, req, answer, line, reaper, closed, pipeVars, readers,
                 proc, serving, strays>>

\* cmd.Wait returns once the process is dead, and closes the owner's pipes.
WaitReturns ==
  /\ proc[w] = "dead"
  /\ proc' = [proc EXCEPT ![w] = "reaped"]
  /\ stdinOpen' = [stdinOpen EXCEPT ![w] = FALSE]
  /\ stdoutOpen' = [stdoutOpen EXCEPT ![w] = FALSE]

\* kill signals the process and does not wait for it.
KillReaps_NoWait ==
  /\ owner = "reap"
  /\ owner' = "spawn"
  /\ UNCHANGED <<answer, rest>>

KillReaps ==
  /\ owner = "reap"
  /\ WaitReturns
  /\ owner' = "spawn"
  /\ UNCHANGED <<w, nextID, req, answer, line, reaper, waits, closed,
                 stdin, stdout, readers, killed, serving, strays>>

\* The pool is closed and the slot's select sees it: shutdown closes stdin
\* and leaves cmd.Wait to the reaper.
ShutdownCloses ==
  /\ owner = "idle"
  /\ closed
  /\ stdinOpen' = [stdinOpen EXCEPT ![w] = FALSE]
  /\ reaper' = "waiting"
  /\ waits' = [waits EXCEPT ![w] = @ + 1]
  /\ owner' = "grace"
  /\ UNCHANGED <<w, nextID, req, answer, line, closed, stdin, stdout, stdoutOpen,
                 readers, procVars>>

ReaperReaps ==
  /\ reaper = "waiting"
  /\ WaitReturns
  /\ reaper' = "finished"
  /\ UNCHANGED <<owner, w, nextID, req, answer, line, waits, closed, stdin, stdout,
                 readers, killed, serving, strays>>

\* shutdown kills by kill(), which waits for the process as well.
GraceExpires_Kills ==
  /\ owner = "grace"
  /\ killed' = [killed EXCEPT ![w] = TRUE]
  /\ waits' = [waits EXCEPT ![w] = @ + 1]
  /\ owner' = "forced"
  /\ UNCHANGED <<w, nextID, req, answer, line, reaper, closed, pipeVars, readers,
                 proc, serving, strays>>

\* After the grace period shutdown goes on waiting, without a signal.
GraceExpires_WaitsOn ==
  /\ owner = "grace"
  /\ owner' = "forced"
  /\ UNCHANGED <<answer, rest>>

GraceExpires ==
  /\ owner = "grace"
  /\ killed' = [killed EXCEPT ![w] = TRUE]
  /\ owner' = "forced"
  /\ UNCHANGED <<w, nextID, req, answer, line, reaper, waits, closed, pipeVars, readers,
                 proc, serving, strays>>

ShutdownReturns ==
  /\ owner \in {"grace", "forced"}
  /\ reaper = "finished"
  /\ owner' = "done"
  /\ UNCHANGED <<answer, rest>>

PoolCloses ==
  /\ ~closed
  /\ owner # "gone"
  /\ closed' = TRUE
  /\ UNCHANGED <<ownerVars, line, pipeVars, readers, procVars>>

\* A worker is started without Pdeathsig, as procattr_other.go has to do.
DeathSignal_None(g) == FALSE

\* setProcAttr on Linux: SIGKILL when the parent dies.
DeathSignal(g) == Alive(g)

\* The supervisor crashes, or leaves by os.Exit: its goroutines are gone and
\* its ends of all pipes are closed.
SupervisorDies ==
  /\ owner \notin {"done", "gone"}
  /\ owner' = "gone"
  /\ reaper' = "none"
  /\ readers' = [g \in Workers |-> {}]
  /\ stdinOpen' = [g \in Workers |-> FALSE]
  /\ stdoutOpen' = [g \in Workers |-> FALSE]
  /\ killed' = [g \in Workers |-> killed[g] \/ DeathSignal(g)]
  /\ UNCHANGED <<w, nextID, req, answer, line, waits, closed, stdin, stdout,
                 proc, serving, strays>>

-----------------------------------------------------------------------------
(* worker.py.                                                              *)

\* A write to a pipe without a reader raises, which ends the program (Crash).
Emit(g, l) ==
  /\ stdoutOpen[g]
  /\ stdout' = [stdout EXCEPT ![g] = Append(@, l)]

\* Until main has moved the protocol to a private descriptor, what headroom
\* prints while it is imported goes to the stream that the owner reads.
ImportPrints(g) ==
  /\ proc[g] = "import"
  /\ strays < MaxStrays
  /\ strays' = strays + 1
  /\ Emit(g, Noise)
  /\ UNCHANGED <<ownerVars, line, closed, stdin, stdinOpen, stdoutOpen, readers,
                 proc, killed, serving>>

Isolate(g) ==
  /\ proc[g] = "import"
  /\ proc' = [proc EXCEPT ![g] = "warm"]
  /\ UNCHANGED <<ownerVars, line, closed, pipeVars, readers, killed, serving, strays>>

EmitReady(g) ==
  /\ proc[g] = "warm"
  /\ proc' = [proc EXCEPT ![g] = "serve"]
  /\ Emit(g, Ready)
  /\ UNCHANGED <<ownerVars, line, closed, stdin, stdinOpen, stdoutOpen, readers,
                 killed, serving, strays>>

TakeRequest(g) ==
  /\ proc[g] = "serve"
  /\ stdin[g] # <<>>
  /\ serving' = [serving EXCEPT ![g] = Head(stdin[g])]
  /\ stdin' = [stdin EXCEPT ![g] = Tail(@)]
  /\ proc' = [proc EXCEPT ![g] = "busy"]
  /\ UNCHANGED <<ownerVars, line, closed, stdout, stdinOpen, stdoutOpen, readers,
                 killed, strays>>

\* The envelope is sent back as it came.
EmitReply_Echo(g) ==
  /\ proc[g] = "busy"
  /\ Emit(g, serving[g])
  /\ proc' = [proc EXCEPT ![g] = "serve"]
  /\ UNCHANGED <<ownerVars, line, closed, stdin, stdinOpen, stdoutOpen, readers,
                 killed, serving, strays>>

\* compress returns a result or raises.
Outcomes == {"ok", "failed"}

\* One line per request, with the result or the exception.
EmitReply(g) ==
  /\ proc[g] = "busy"
  /\ \E type \in Outcomes : Emit(g, Line(type, serving[g].id, serving[g].of))
  /\ proc' = [proc EXCEPT ![g] = "serve"]
  /\ UNCHANGED <<ownerVars, line, closed, stdin, stdinOpen, stdoutOpen, readers,
                 killed, serving, strays>>

\* End of file on stdin.
Exit(g) ==
  /\ proc[g] = "serve"
  /\ stdin[g] = <<>>
  /\ ~stdinOpen[g]
  /\ proc' = [proc EXCEPT ![g] = "dead"]
  /\ UNCHANGED <<ownerVars, line, closed, pipeVars, readers, killed, serving, strays>>

\* The process crashes, or SIGKILL reaches it.
Crash(g) ==
  /\ Alive(g)
  /\ proc' = [proc EXCEPT ![g] = "dead"]
  /\ UNCHANGED <<ownerVars, line, closed, pipeVars, readers, killed, serving, strays>>

Die(g) == killed[g] /\ Crash(g)

\* A desynchronised stream: the last reply shows up once more.
Repeat(g) ==
  /\ proc[g] = "serve"
  /\ serving[g] # NoLine
  /\ strays < MaxStrays
  /\ strays' = strays + 1
  /\ Emit(g, Line("ok", serving[g].id, serving[g].of))
  /\ UNCHANGED <<ownerVars, line, closed, stdin, stdinOpen, stdoutOpen, readers,
                 proc, killed, serving>>

\* The slot is gone, and all that ran for it.
Terminated ==
  /\ owner \in {"done", "gone"}
  /\ \A g \in Workers : readers[g] = {} /\ ~Alive(g)
  /\ UNCHANGED vars

-----------------------------------------------------------------------------
StartNext == StartProcess \/ SpawnGivesUp \/ ReadyArrives \/ ReadyFails \/ ReadyTimesOut
DoNext ==
  \/ TakeJob \/ Write \/ WriteFails
  \/ ReplyAccepted \/ ReplyRejected \/ ContextEnds
KillNext == Kill \/ KillReaps
ShutdownNext == ShutdownCloses \/ GraceExpires \/ ShutdownReturns

ProcessNext(g) ==
  \/ ImportPrints(g) \/ Isolate(g) \/ EmitReady(g)
  \/ TakeRequest(g) \/ EmitReply(g) \/ Repeat(g)
  \/ Exit(g) \/ Crash(g)

Next ==
  \/ StartNext \/ DoNext \/ KillNext \/ ShutdownNext
  \/ ReaperReaps
  \/ PoolCloses
  \/ SupervisorDies
  \/ \E g \in Workers : ProcessNext(g)
  \/ \E g \in Workers, id \in Ids : ReaderReturns(g, id)
  \/ Terminated

Spec == Init /\ [][Next]_vars

\* Goroutines run, timers fire, a signal kills.  Of the worker program only
\* that a write to it ends (see Pool): it may hang anywhere else, and need
\* not heed the end of its stdin.
Fairness ==
  /\ WF_vars(StartNext)
  /\ WF_vars(Write \/ WriteFails \/ ReplyAccepted \/ ReplyRejected \/ ContextEnds)
  /\ WF_vars(KillNext)
  /\ WF_vars(ShutdownNext)
  /\ WF_vars(ReaperReaps)
  /\ \A g \in Workers :
       /\ WF_vars(Die(g))
       /\ \A id \in Ids : WF_vars(ReaderReturns(g, id))

FairSpec == Spec /\ Fairness

-----------------------------------------------------------------------------
(* Properties.                                                             *)

TypeOK ==
  /\ owner \in OwnerStates
  /\ w \in 0..MaxWorkers
  /\ nextID \in Ids
  /\ req \in Ids
  /\ answer \in [Requests -> Ids \cup {Null}]
  /\ line \in Lines \cup {NoLine, ReadError}
  /\ reaper \in {"none", "waiting", "finished"}
  /\ waits \in [Workers -> Nat]
  /\ closed \in BOOLEAN
  /\ stdin \in [Workers -> Seq(Envelopes)]
  /\ stdout \in [Workers -> Seq(Lines)]
  /\ stdinOpen \in [Workers -> BOOLEAN]
  /\ stdoutOpen \in [Workers -> BOOLEAN]
  /\ readers \in [Workers -> SUBSET Ids]
  /\ proc \in [Workers -> ProcStates]
  /\ killed \in [Workers -> BOOLEAN]
  /\ serving \in [Workers -> {NoLine} \cup Envelopes]
  /\ strays \in 0..MaxStrays

\* What do returns for a request was computed for it, whatever a timeout, a
\* crash or a repeated line left in the stream before (pool.go:572-577).
OwnResult == \A r \in Requests : answer[r] \in {Null, Failed, r}

\* The bufio.Reader of a worker has one user at a time, although readLine
\* leaves its goroutine behind when the context ends (pool.go:504-509).
OneReader == \A g \in Workers : Cardinality(readers[g]) <= 1

\* A slot owns one process at a time: the next is started, and the slot
\* returns, only when the last one is dead and reaped (pool.go:108-111).
OneProcess ==
  /\ Cardinality({g \in Workers : proc[g] \notin {"none", "reaped"}}) <= 1
  /\ owner \in {"spawn", "done"} => \A g \in Workers : proc[g] \in {"none", "reaped"}

\* "No concurrent/double Wait on the same Cmd" (pool.go:588-590, 615-617):
\* of the two places that call cmd.Wait each process meets at most one.
WaitOnce == \A g \in Workers : waits[g] <= 1

\* "Exactly one request is in flight at a time" (worker.py:27): between two
\* calls no request is under way, nobody reads, and the worker waits or is dead.
\* What stdout still holds came after its call's one line: repeated replies,
\* which the next call will refuse.  Nothing that was printed during the import
\* is left, nor was it taken for the ready line (pool.go:524-541).
QuietBetweenCalls ==
  owner = "idle" =>
    /\ stdin[w] = <<>> /\ readers[w] = {}
    /\ proc[w] \in {"serve", "dead"}
    /\ Len(stdout[w]) <= strays
    /\ \A k \in DOMAIN stdout[w] : stdout[w][k].type = "ok" /\ stdout[w][k].id <= nextID

\* Every reader comes back: when its line arrives, or when its worker is
\* killed because the call was given up, so none is leaked (pool.go:548-550).
ReadersReturn ==
  \A g \in Workers, id \in Ids : id \in readers[g] ~> id \notin readers[g]

\* The slot ends after the pool is closed although its worker neither
\* answers nor exits (pool.go:587-605).
WorkerGone == closed ~> owner \in {"done", "gone"}

\* "No orphans survive a supervisor crash" (procattr_linux.go:15-16), however
\* far its worker has come and even if it hangs.
NoOrphans == owner = "gone" ~> \A g \in Workers : ~Alive(g)
=============================================================================
