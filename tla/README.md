# A TLA+ model of tsheadroom

tsheadroom is a sidecar for LLM requests: an HTTP hook hands each request's
messages to one of a fixed set of Python workers that run headroom's
compression, and passes the request on unchanged whenever that does not work
out. These modules model the parts of it whose correctness depends on order,
concurrency and failure. TLC checks them on small instances; TLAPS proves every
safety property of the passing runs for every instance.

Paths below are those of the repository (`src/pool.go` is `pool.go` there).

## Inventory

### Components

| component | source | state | operations |
|---|---|---|---|
| worker pool | `src/pool.go` 104-428 | one depth-1 affinity channel per slot, the unbuffered shared channel, the pool context, hit/spill counters, the busy gauge, the reported headroom version; per slot goroutine its worker, the job in hand and its outcome; per job a depth-1 reply channel | `Compress`/`dispatch`, `runSlot`, `spawn`, `Shutdown`/`drainBuffered` |
| worker process supervision | `src/pool.go` 430-629, `src/procattr_*.go` | the child process, its three pipes, the reader goroutine and its `lines` channel, `nextID` | `startWorker`, `awaitReady`, `do`, `readLine`, `shutdown`, `kill` |
| worker program | `src/worker.py` | the loaded model, the line it is serving | ready handshake, one response per request line |
| settings store, config API | `src/config.go` | the live settings (a pointer), the config file, `st.mu` | `loadSettings`, `merge`, `validate`, `save`, swap, GET/PUT |
| hook handler | `src/handler.go` | per request its summary and response | read, decode, snapshot settings, route, `Compress`, fail open, respond, record |
| body encodings | `src/encoding.go` | none | advertise, negotiate and undo Content-Encoding, size limits |
| metrics | `src/metrics.go` | counters by total, outcome, provider and model, the inbound gauge | `inboundStart`, `inboundDone`, `record`, scrape |
| process lifecycle | `src/main.go`, `src/procattr_*.go` | listener, HTTP server, pool | start, signal, HTTP shutdown with 10 s deadline, deferred teardown |

### How they interact

The handler calls `Compress` through the interface `compressor` and gets a
result or an error; it takes one snapshot of the settings per request. A slot
goroutine owns one worker process at a time and talks to it over stdin and
stdout, one line each way per call. `spawn` asks the settings (a callback)
whether workers should preload the model, and workers report a version that the
config API reads when it gates `savings_profile`. `main` stops the HTTP server
first and the pool second; the first has a deadline, so calls may still be
inside `Compress` when the second starts.

### What is hard

- Handing a job over: `dispatch` looks at the pool's context once and sends
  later; the affinity send is buffered, the shared one is a rendezvous.
- Leaving early: a caller whose context ends abandons a job that is queued or
  running; the slot must neither notice nor block on the reply.
- Failing: a failed call keeps its job in hand across the respawn, which may
  take for ever, or end in shutdown.
- Shutdown at any instant of the above, including while slots spawn.
- A dozen ways through `ServeHTTP`, concurrent with each other, with clients that
  hang up or come back with another coding, and with scrapes.
- Three size limits, on the wire and behind each codec, one of which truncates
  without a word.
- The end of the process: a drain with a deadline, then the network and the pool
  under whatever has not finished, or `os.Exit`, an early signal or a crash without
  any of that.
- Concurrent partial updates of the settings, each a read, a validation, a file
  write and a pointer swap, any of which may fail or be cut off by a crash;
  pointer fields are shared between the copy and the original.

### What makes each part correct

Pool: every accepted job is answered exactly once unless its caller left, is
run at most once; gauge and counters say what happened; only real failures cost a warm worker; shutdown
ends and leaves nothing behind. Settings: acknowledged updates survive each
other and crashes; the file can always be loaded; a refused update changes
nothing. Handler: a request always passes, compressed or not, and what
replaces it is its own finished compression; what was answered is what is counted.
Worker protocol: a response is the one to the request just sent. Lifecycle: what
was accepted is answered within the deadline, the end comes in any case, and no
worker outlives the process. `PROJECT.json` lists the hazards behind these line by line.

## Modules

| module | what it is |
|---|---|
| `Compressor` | the interface that callers of the pool rely on, without slots or channels |
| `Pool` | `src/pool.go` from `Compress` to `Shutdown`; its properties; the refinement mapping to `Compressor` |
| `Worker` | one slot's worker processes: supervision in `src/pool.go` and the loop of `src/worker.py`, with the pipes between them |
| `Encodings` | `src/encoding.go` and the limit on the wire read, as operators |
| `Metrics` | `src/metrics.go` as operators on a record of counters |
| `Hook` | `ServeHTTP` and `process` of `src/handler.go`, concurrent, over `Encodings`, `Metrics` and `Compressor`; the client; the scraper |
| `Server` | `src/main.go` around `Hook`: listen, serve, signal, drain, teardown |
| `Affinity` | `affinityKey` over the turns of conversations |
| `MCHook`, `MCServer` | instances of `Hook` and `Server` |
| `MCPool` | instances of `Pool`, with the `pool_*.cfg` configurations |
| `PoolProofs` | the inductive invariant of `Pool` and the safety theorems |
| `PoolRefinementProofs` | the proof that `Pool` implements `Compressor` |
| `SettingsStore` | `src/config.go`: load, PUT, crash and restart; the version gate |
| `MCSettings` | instances of `SettingsStore`, with `settings*.cfg` |
| `SettingsProofs` | the inductive invariant of `SettingsStore` and its theorems |
| `WorkerProofs` | the inductive invariant of `Worker` and its theorems |
| `HookProofs` | the inductive invariant of `Hook` and the theorems about its responses |
| `SumProofs` | lemmas on the sum of a function over a finite set |
| `MetricsProofs` | the theorems about the counters and the scrape of `Hook` |
| `ServerProofs` | the inductive invariant of `Server`, and what holds of `Hook` during shutdown |

An operator named `X_Slip` (`Kill_NoSignal` for `Kill`) is an
action with a plausible coding slip. The specification never uses it; each
property is known to fail when the slip replaces the action.

### Pool and the code

One member of `Calls` is one execution of `Compress` with its job. `call[c]` is
the program counter of the caller (`affinity`: about to try the affinity send;
`shared`: in the blocking select; `hit`, `spill`: sent, about to bump the
counter; `wait`: in the select of `Compress`), `ret[c]` the error or result it
came back with, `resp[c]` the job's reply channel. `slot[i]` is the program
counter of `runSlot`: `spawn` at the head of spawn's loop or in its backoff,
`start` inside `startWorker`, `idle` in the select, `write` and `read` the two
halves of `worker.do`, `reply` before the send on `j.resp`, `done` returned.
`cur[i]`, `out[i]` and `worker[i]` are the goroutine's `j`, `res/err` and `w`.
`shut` and `drainAt` are the program counter of `Shutdown`.

Each atomic step of the code that another goroutine can observe is an action:
the channel operations, the counters (which come after the send in the code and
in the model), the context checks. A select is the disjunction of its cases, so
Go's random choice among ready cases is covered. A rendezvous on the shared
channel is one step of two goroutines (`SendShared`). Handing a job directly to
a parked receiver of an affinity channel is a send followed by that slot's
receive; the intermediate state differs from the code only in when the channel
looks full, and then another call spills that would have been queued.
A `worker.do` error (fault, hard cap, pool context) kills the worker and
respawns before it replies, in that order. Backoff, logging and durations are
left out; what a timer can do is a step that may happen at any time.

The worker process is environment here: `startWorker` may succeed or fail, a
write may succeed, fail or hang, a response may come, be bad or not come. What
happens inside those steps is `Worker`.

### Worker and the code

`Worker` is the view from inside `startWorker`, `do`, `kill` and `shutdown` of
one slot, over as many processes as it starts. `owner` is the program counter of
the slot's goroutine. `readLine`'s goroutines are `readers[g]`, named by the id of
the call they read for; a reader whose `readLine` has returned goes on reading,
and what it gets is lost. `line` is the channel of the current `readLine`.
`stdin[g]` and `stdout[g]` are the pipes of process `g`, which outlive neither
`cmd.Wait` (it closes the owner's ends) nor, for writing, the process. A process
imports headroom (whose output still goes to the protocol stream), isolates
descriptor 1, warms up, announces itself, and then serves line by line until its
stdin ends; it may hang or crash at any point, and may repeat its last reply once,
which stands for the stray line that `do` defends itself against. `shutdown`'s
reaper goroutine and `kill` are the two callers of `cmd.Wait`.

The two views meet in the following steps: `StartSucceeds` of `Pool` is
`StartProcess` to `ReadyArrives`; `StartFails` ends in `KillReaps`; `DoSucceeds` is
`ReplyAccepted`; `WorkerFails`, `HardCapExpires` and `PoolCtxCancels` are
`ReplyRejected` or `ContextEnds`, up to `KillReaps`; `SlotExits` is
`ShutdownCloses` to `ShutdownReturns`. `Pool` assumes that those end and that a
failed call leaves no process behind, which are `WorkerGone` and `OneProcess`.
A write that blocks is in `Pool` (`pool_writehang`); here it ends, with success
or because the process is dead.

`SupervisorDies` is a crash of the Go process, or an `os.Exit` past the deferred
calls (`src/main.go` 96-100): goroutines and pipe ends are gone, and on Linux the
kernel sends SIGKILL to the worker (`DeathSignal`, `src/procattr_linux.go`).
Elsewhere only the end of stdin tells it, which a worker that hangs does not see;
`src/procattr_other.go` says as much.

### Hook and the code

One member of `Requests` is one hook call, with the retries that a refusal of its
coding leads to. `pc[r]` is the program counter of its `ServeHTTP`: `read` (in
`io.ReadAll`), `compress` (inside `Compress`), `write` (before the response),
`record` and `return` (before `metrics.record` and the deferred `inboundDone`).
Between those points the handler computes on its own data, so decoding, parsing
and choosing the summary are part of the step that follows the read or the return
of `Compress`. `s[r]` is the summary, `reply[r]` what was written; the action in
the body goes with the summary's reason. A call is the data the code tells apart:
the method, the coding the client would like, the sizes of the body plain and
compressed, the blanks that follow its closing brace, whether a codec can read it,
how far it parses, the labels, and what the worker would make of it. A body longer
than `maxBody` loses its end, and with it the brace that closes it; if only blanks
are beyond the limit, a plain body loses nothing and a compressed one fails to
decode (`src/encoding.go` 127).

`Compress` is the module `Compressor`, which `Pool` is shown to implement: the
handler's call admits or refuses the job, `Compressing` is every step of the other
side, and a caller leaves early only when its client has hung up or the pool is
closed. `learned` is what the client believes the server accepts, from this
process or, in `Init`, from an earlier one with other codecs; it learns from every
response that carries Accept-Encoding. Each method of `Metrics` runs under one
lock, so it is one step; a scrape is two, the copy of the counters and the reads of
the pool's numbers.

### Server and the code

`main` is the program counter of `main`, `serve` that of the goroutine in
`httpSrv.Serve`. Between `Listen` and `Notify` requests are served but signals are
not yet caught: `EarlySignal`, there or while `listen` blocks, ends the process
without drain or deferred calls (`killed`). `Drained` and `DeadlinePasses` are the two ways out of
`httpSrv.Shutdown`; the defers then run in reverse: `Cleanup` (closing the tsnet
node ends every connection, closing a local listener none), `PoolShutdown` and
`Exit`, which happens whatever the handlers are doing. `ListenFails` is the
`os.Exit` that skips the defers. Connections are not modelled one by one: a
request may arrive until the drain has seen the last connection end, also when
`Serve` has failed (connections accepted before go on), and after that only if the
deadline passed. `cut` collects requests that were never answered.

### Affinity and the code

A conversation opens with one user message, or a system message and one, and grows
by two messages a turn; each turn is sent whole. `affinityKey` is the session id,
or the normalized contents of up to two messages, for which the hash is taken to
be injective.

### SettingsStore and the code

A settings struct is a function from fields to values for plain fields and to
`nil` or the address of a cell for pointer fields, because copying the Go struct
copies addresses and `json.Unmarshal` writes through a non-nil pointer. `put[p]`
is the program counter of a PUT: arrive (or `ReadFails`), gate, lock, merge,
validate (`apply`), save, swap. `Restart` is a crash at any point followed by `loadSettings`; only
the file survives. `file` may be missing, corrupt, valid, invalid or incomplete
before the first start; a field that it lacks is loaded as Go's zero value
(`Unmarshaled`), not as the default. `lastSet[f]` is a history variable: which PUT last wrote field `f`
to disk. GET only reads. `atomicfile.WriteFile` either replaces the file or
leaves it (an external library; modelled by what its callers rely on). The
numbers and strings in a field are three opaque values, one of which `validate`
refuses; a body is which fields it sets, clears or omits, and whether it parses.

## What TLC checks

All runs check deadlock. The pool may stop only in `Terminated` (Shutdown
returned; every call returned or orphaned), a slot's `Worker` only in its own
`Terminated` (the owner done or dead, no reader and no process left), the settings
only in `Finished`, the server only when it has exited; the hook never stops, as it
can be scraped. `affinity_turns` alone has deadlock off: its conversations end.

| run | instance | shows |
|---|---|---|
| `pool` | 2 slots, two turns of one conversation, one cancellable, fair | seven invariants, `OnlyFailuresRecycle`, that `Pool` implements `Compressor`, that admitted calls return (orphans aside), that Shutdown completes and that an open pool serves everything (the fairness of `Compressor`) |
| `pool_orphan`, `pool_midcall`, `pool_writehang`, `pool_counters` | 1 slot | four comments that the code does not live up to, see below |
| `worker` | one slot, two processes, three requests, one line outside the protocol, fair | results belong to their requests, nothing is under way between calls, readers and processes never overlap, each process is waited for once, readers return, shutdown ends although the worker may hang anywhere, and no worker survives the supervisor |
| `settings` | two PUTs out of eight bodies, five initial files, one restart, two versions, fair | no lost update, disk and memory agree, the file stays loadable and complete, a restart restores the last save, every PUT is answered |
| `settings_alias` | one PUT | a documented promise that does not hold |
| `hook` | two concurrent calls, one of five kinds and one of six, a compressor with one slot, two retries, fair | see the next section |
| `hook_empty` | the same calls | a comment that the code does not live up to |
| `server` | a call that is refused at first and one that is not, local or tailnet, fair | no request is cut off and none loses its pool unless the deadline passed or the signal came before `Notify`; a signal that `main` receives ends the process |
| `affinity_turns` | one conversation of three turns | a documented promise that does not hold |

### What the runs of the hook show

`NeverBreaks` is the promise of the tool: a body is replaced only by the outcome of
its own finished compression, with savings and with a field `messages`, and a POST in
an accepted coding is answered 200 with allow or modify, over every error and early
return. `OnlyWholeBodies` ties the three size limits to the parser: what reaches the
compressor is exactly what is whole, within the limit to the byte, and has
messages, with the one difference between codings that blanks at the end make. `AnswersAreCounted` compares the counters with the answers at every
moment, `ScrapeIsOneMoment` what a scrape sees with itself. `DowngradeOnce` says
that a refused coding costs one retry, whether or not `-accept-compressed` is on.
`CompressedCallsAnswered` is liveness: a call in the compressor is answered, also
when its client left.

`NeverBreaks` asks only that a result have a field `messages`, because that is all the
guard in `process` ensures: that the field is not empty is `BodyNotNulledOut`, which
`hook_empty` refutes.

### Bounds and why they are enough

Two slots and two turns of one conversation are what it takes to have a busy
affinity slot with a full channel, a spill, and another slot that takes it. Each
call happens once, so the state space is finite without further counters; failed
starts and failed calls may happen any number of times (they are loops in the state
graph). A call without a key is one that starts in `shared`, where a spilled one
arrives too; it has a run of its own only in `pool_midcall`. A third call would only
add to the interleavings (and is too much for a run with liveness): every safety
property of this run is also a theorem, for every `Size`, `Hash` and set of calls.
The conversation hashes to slot 1, so that the modulo is not degenerate. The runs that
refute a comment need one slot.

Two processes and three requests are enough for anything that one process, call
or reader can leave to the next: a late reply, an abandoned reader, a zombie. Each
request can go to the process of the one before or to its successor.

Two PUTs suffice for a lost update, which is a pair property, and one restart
puts a crash between any two steps of either. The eight bodies set a plain
field, set a plain and a pointer field together, carry an invalid plain or
pointer value, clear a pointer, spell the profile's key in another case, have a
field of the wrong type, and do not parse. The body may also fail to be read. The version may change
between any two steps.

Two hook calls meet in the compressor's one slot, in the counters, in what the
client has learned and in a scrape. Their eleven kinds put a body at the limit and
one byte past it, blanks beyond it after a whole body, plain and compressed, a coding in another spelling, one that is not
accepted, a corrupt body, one without messages, another method, a result that
saves less than nothing, one with empty messages and one without. `maxBody` is 2, so that the limit,
one below and one above differ. Two retries are one more than `DowngradeOnce`
allows. The server's two calls need no variety: one is refused and comes back, one
goes straight to the compressor; where they are when the signal comes is what
matters.

### Fairness

`CodeFairness` (Pool): every goroutine that can take a step eventually does
(the Go scheduler), `readLine` ends because the hard cap is a timer, and
`startWorker` ends because `awaitReady` has a timeout. `WorkerFairness` is asked
of the environment: a worker does not fail to start for ever, and while alive it
drains its stdin. `pool_writehang` shows that the second is needed. Nothing makes
a client call, a context end, or Shutdown be called. In `Worker` goroutines run,
timers fire and SIGKILL kills; of the Python side only that a write to it ends.
In `Hook` handlers run on once the body is read, and the compressor is as fair as
`ServesWhileOpen` shows `Pool` to be; no client is made to send its body, hang up or
retry. In `Server` only `main`, the timer of the drain's deadline and the end of
running jobs after `pool.Shutdown` (`ShutdownCompletes`) are fair: handlers may hang.
In `SettingsStore` a request that arrived runs on, and the mutex, which Go hands
to waiters that have starved, is strongly fair.

### Where documentation and code differ

- `pool_orphan`: the comment in `dispatch` says Shutdown drains any job that
  slips through between its context check and its send (`src/pool.go` 288-289).
  A send after the drain is not answered; its caller waits for its own context.
- `pool_midcall`: "A slot mid-call finishes it first" (319-320). The hard-cap
  context derives from the context that Shutdown cancels, so the call fails.
- `pool_writehang`: `do` is "bounded by ctx" (548). Its write is not.
- `settings_alias`: invalid values "leave the current configuration untouched"
  (`src/README.md` 433). With a pointer field set, the unmarshal of a PUT that is
  then refused has written the value the live settings point to. The plain
  fields do have the promised property (`DiskMatchesMemory`, `NoLostUpdate`),
  which is why those two are stated for them.
- `pool_counters`: "hits+spills is the number of affinity-eligible jobs"
  (`src/pool.go` 152-153), but a call that leaves the blocking select by cancellation
  is in neither counter. What the counters do say is `AffinityCounts`.
- `hook_empty`: a result that "would null out the body" is not used
  (`src/handler.go` 355-356). The guard measures raw JSON, so it stops a result without
  messages but neither `[]` nor `null`. Whether headroom can return such a result
  together with savings cannot be told from this repository.
- `affinity_turns`: the hash of the opening messages "is stable across a
  conversation's turns" (`src/handler.go` 374-379). It covers up to two messages, so
  a conversation that opens with one user message, the system prompt being
  elsewhere in the request, has one key in its first turn and another from the
  second on. With a session id, or a system message, the key is stable.

Five more have no run, because the repository contradicts itself or says little:

- "always with HTTP 200" (`src/README.md` 297 and 305, `src/handler.go` 45-46, and the
  comment in `src/handler_test.go` 47) against the 415 for a coding that is not
  accepted, which `src/README.md` 370 lists as `reject(encoding)` and
  `src/handler_test.go` 438-446 requires. `NeverBreaks` has the first for accepted codings, and `DowngradeOnce` is
  about the second.
- Setting a profile is rejected on old versions (`src/config.go` 241-242), but the gate
  looks for the exact key (280) and the decoder of the merge ignores case:
  `Savings_Profile` passes. The bodies of `settings` include it.
- The outcomes listed in `src/README.md` 477 lack `decode_error` and
  `reject_encoding`, which `outcomeFromReason` has.
- Blanks that take a body past `maxBody` do no harm to a plain body and fail a
  compressed one, see `OnlyWholeBodies`.
- A signal between `go httpSrv.Serve` and `signal.Notify` (`src/main.go` 103-120) ends
  the process without the drain that line 126 speaks of, see `GracefulUnlessLate`.

## What is proved

Every invariant and action property that a passing run checks is stated by a
theorem, for every value of the constants. The theorems rest on the named
assumptions of the modules, which TLC evaluates in the runs:

- `PoolAssumption`: at least one slot; `Null` is no call, version or reply. The
  theorem about the counters also needs `FinitelyManyCalls`.
- `SettingsAssumption`: bodies and files are well-formed; the default value is valid.
- `WorkerAssumption`: the bounds are numbers, `Null` is no id.
- `EncodingsAssumption`, `HookAssumption`: `maxBody` and the capacity are at least
  one; a client believes in codings that exist; `Null` is none of the values that it
  stands for the absence of. Counting needs `FinitelyMany` requests and labels.

### The pool

`PoolProofs`. `TypeOK` alone is not inductive for anything of interest: that a
reply channel is free when a slot or the drain sends on it needs to know where
every job is. The invariant `IInv` therefore joins types, what each slot holds at
each point (`SlotHands`), where each job is (`JobConservation`), who has a worker
(`WorkerPresence`), what is left after `wg.Wait` (`ShutdownTearsDown`) and which jobs
an affinity channel may hold (`AffinityRouting`, a part of the proof and no property
of its own). From `InvariantHolds` follow `TypeCorrect`, `HandsAgree`,
`JobsConserved`, `WorkersPresent`, `TornDown` and, for steps, `WorkersKept`
(`OnlyFailuresRecycle`). `GaugeExact`
counts the slots inside `worker.do` with the cardinality theorems, and
`AffinityCounted` the calls that `dispatch` has counted: a counter moves in the very
step in which the call moves on, and a call that never got that far has no reply from
a slot.

`PoolRefinementProofs`. Under `IInv` the place of a job determines the abstract
state; one lemma per group of actions shows which abstract action, or stutter,
each concrete step is. The bound on parallel runs comes from injectivity of the
map from running jobs to slots. The theorem is `PoolImplementsCompressor`.

### The worker processes

`WorkerProofs`. Processes come one after the other (`InTurn`): those before the
current one are reaped, those after it untouched, and the places of the owner and of
`shutdown`'s reaper say which of the two reaps the current one. Hence
`ProcessesAreAlone`, and with `WaitsInTurn` `WaitedForOnce`. `ReadersInTurn` says that
a reader left behind by a timeout is never joined by another, since the owner then
goes on to `kill` (`ReadersAreAlone`).

`ResultsAreOwn` is the one that needs a thought. `do` compares ids, and ids start
again with each process; that an equal id means the same request holds because
within a process ids and requests go up together (`Numbered`: every line in a pipe
differs from its request by what `nextID` and `req` differ by). So stray lines are
harmless, in any number.

`QuietWhileIdle` allows for them too. `OneUnderWay` says, for each place of the owner,
what the two pipes, the worker and the reader's channel hold together: before the
ready line only what the import printed (`Starting`), between calls nothing but
repeated replies (`Resting`), and during a call the request in exactly one place
(`Calling`). A call reads one line, and unless that is its reply the worker is
killed, so what is left over never adds up.

### The settings

`SettingsProofs`. The invariant says who is inside the mutex (`LockIsHeld`), that
the local copy is the live settings plus the body (`MergedIsCurrent`), that what
is about to be saved has been validated, cells included (`SavedIsValid`), and how
far the file is ahead of memory between save and swap (`FileIsAhead`,
`FileIsCurrent`). `NoLostUpdate` needs all of them: the fields a PUT does not
set are written from memory, so memory must be what the file says whenever the
lock is free. From `SettingsInvariant` follow `SettingsTypeCorrect`,
`SavesStayLoadable`, `UpdatesKept` and `DiskAndMemoryAgree`, and, for steps,
`RestartsRestore`: the file on disk is one that the program wrote completely, and
`LoadUndoesSave` shows that reading it back gives every field, pointers included.

### The hook

`HookProofs`. The properties compare a response with the compressor's answer, both
of which are known only through the handler's place in `ServeHTTP` and the summary
it carries. `HookInv` says this per request: where its call to the compressor is
(`InPlace`), what its summary tells of that (`Summarised`), what its response tells
of the summary (`Answered`), and what its client knows (`Taught`); and of the
compressor, that an `ok` is the caller's own settled job (`CompressorOK`). One
lemma per action of a handler shows that it keeps the invariant of its own request;
everything else, the steps of other handlers, of the compressor, the client and the
scraper, is covered for it by a single lemma (`StillKeeps`), whose hypothesis
(`StandsStill`) lists the little they can change: the compressor may answer, a client
may hang up or learn. `ParsedFits` and `CorruptDoesNotFit` carry the size limits: for
every `maxBody`, a body that is decoded and parsed is one that is whole. The theorems
are `RequestsNeverBreak`, `WholeBodiesOnly` and `RefusedOnce`; the last also needs
that the client's knowledge, once taken from a refusal, is not replaced by less.

### The counters

`AnswersAreCounted` adds up tokens and retries over the requests. What the sum of a
function over a finite set does when one term changes is in `SumProofs`: that it
does not depend on the order of the terms, is a number, and grows by what one term
grows. The library states induction with an operator as a parameter, which the
provers cannot instantiate, so the lemmas use induction over the subsets of a finite
set in first-order form (`SubsetInduction`).

`MetricsProofs`. An arrival, a record, a return and a retry each move requests
between the sets that the counters count; one lemma for each shows that counter and
set change together (`EveryAnswerCounted`). A scrape balances because the counters do
at every moment (`ScrapesBalance`); that requests are not counted before they came in
(`RoomToRecord`) needs `AnswersAreCounted`, which is why the two are one invariant.

### The server

`ServerProofs`. To the handlers, what `main` does is again standing still: closing
the network makes clients gone, `pool.Shutdown` closes the compressor. So
`MetricsInv` holds through the life of the process (`ShutdownNeverBreaks`,
`ShutdownIsCounted`). `Drains` says that without the deadline no handler is active
past the drain and that only an early signal cuts requests off before it, `ClosesLast` that results speak of a closed pool only once it is
closed, and answers only if the deadline has passed. From them follow
`ShutdownIsGraceful` and `PoolClosesLast`.

### Model-checked only

Liveness and the fairness part of the interface, which are out of the prover's
reach: `CallsReturn`, `ShutdownCompletes`, `ServesWhileOpen`, `PutsAnswered`,
`ReadersReturn`, `WorkerGone`, `NoOrphans`, `CompressedCallsAnswered`,
`SignalEndsProcess`. The absence of deadlocks, for the same reason (it is about
`ENABLED`). And the seven runs that show a violation.

## What is not modelled

The compression itself, tsnet, HTTP framing, codecs, flag parsing, logging and the
build files are I/O or third-party code. Of the handler, gzipping the response and
the `-v` line; of the metrics, durations and the text format. The settings a
request forwards go to the worker unseen: `Hook` does not read `SettingsStore`.
The stderr pipe of a worker is left out (a worker blocked on it is one that hangs),
and so is pid reuse. `-pool-size 0` is excluded by `PoolAssumption` (the program
does not check it; see the hazards). Connections of the HTTP server and scrapes
during shutdown are not modelled.

## Plan

1. An abstract slot, which both `Pool` (by slot) and `Worker` implement, to make the
   correspondence of their steps a checked one.
2. A proof that `Hook`, with `Compressor` replaced by `Pool`, keeps its invariant:
   the refinement proof gives every step of `Pool`, the hook's invariant every step of
   the interface; what is missing is the composition in one module.
