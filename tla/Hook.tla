-------------------------------- MODULE Hook --------------------------------
(***************************************************************************)
(* The hook endpoint (src/handler.go): concurrent executions of ServeHTTP  *)
(* over the compressor, the body encodings and the metrics, a client that  *)
(* learns from Accept-Encoding which codings it may use (RFC 7694), and a  *)
(* scraper of /metrics.                                                    *)
(*                                                                         *)
(* A request is one hook call of the client, aperture.  A call refused     *)
(* with 415 is sent again with another coding, as the comment on that      *)
(* branch says the client does.  A handler computes on its own data        *)
(* between two steps; a step ends where it blocks or touches shared state. *)
(* What it reads of the settings goes to the worker unseen and is left to  *)
(* SettingsStore; gzipping of the response is left out.                    *)
(*                                                                         *)
(* A definition named X_Slip is X with a plausible slip in the code.       *)
(***************************************************************************)
EXTENDS Encodings, Metrics, FiniteSets

CONSTANTS
  Requests,    \* hook calls
  Inputs,      \* Inputs[r]: what call r may consist of
  Beliefs,     \* codings the client may have learned from an earlier process
  Capacity,    \* of the compressor
  MaxRetries,  \* bound on the retries of a call
  Null

\* A result of the worker, and a call: the method, the coding the client would
\* use if it may (its first choice of those it can write), the body with its form
\* once parsed (garbled: not a hook call with a request_body; other: no array
\* of messages in it), the labels, and what the worker would make of it.  The
\* messages of a result may be absent, or there but null or an empty array.
Results == [tokensBefore : Nat, tokensSaved : Int, tokensAfter : Nat,
            messages : {"absent", "empty", "some"}, cold : BOOLEAN]
Bodies == [size : Nat, tail : Nat, packed : Nat, sound : BOOLEAN]
Calls == [method : {"POST", "GET"}, likes : Headers, body : Bodies,
          form : {"garbled", "other", "messages"},
          provider : Labels, model : Labels, bodyModel : Labels, yields : Results]

ASSUME HookAssumption ==
  /\ Inputs \in [Requests -> SUBSET Calls]
  /\ "" \in Labels
  /\ Beliefs \subseteq SUBSET (Range(Lower) \ {"", "identity"})
  /\ Capacity \in Nat \ {0} /\ MaxRetries \in Nat
  /\ Null \notin Calls \cup Headers \cup {"ok", "closed", "unavailable", "canceled"}

\* The sums over the counters have finitely many terms.
ASSUME FinitelyMany == IsFiniteSet(Requests) /\ IsFiniteSet(Labels)

VARIABLES
  \* executions of ServeHTTP
  pc,        \* pc[r]: where it is
  input,     \* input[r]: the call
  enc,       \* enc[r]: its Content-Encoding
  s,         \* s[r]: the summary that it records
  reply,     \* reply[r]: what it has written
  gone,      \* gone[r]: the client hung up, and the context is done
  tries,     \* tries[r]: how often the call was sent again
  \* the process and its client
  acceptCompressed, \* the flag -accept-compressed
  learned,   \* the codings the client believes it may use
  metrics,   \* the counters
  scrape,    \* a scrape in progress: where it is and what it has read, of
             \* which only matters whether it balances
  \* the compressor
  caller, answer, job, result, closed

C == INSTANCE Compressor WITH Calls <- Requests, Cancelable <- Requests

handlerVars == <<pc, input, enc, s, reply, gone, tries>>
compVars == <<caller, answer, job, result, closed>>
clientVars == <<acceptCompressed, learned>>
vars == <<handlerVars, clientVars, metrics, scrape, compVars>>

PCs == {"new", "read", "compress", "write", "record", "return", "done"}
Reasons ==
  {"modify", "allow(noop)", "allow(error)", "allow(read-error)", "allow(decode-error)",
   "allow(passthrough)", "reject(encoding)"}

\* The handlers that are running.
Active == {r \in Requests : pc[r] \notin {"new", "done"}}

NoResult == [tokensBefore |-> 0, tokensSaved |-> 0, tokensAfter |-> 0, cold |-> FALSE]

\* A summary without labels, one with, and the numbers of a worker's result.
Summary(reason, provider, model, res) == [
  reason |-> reason, provider |-> provider, model |-> model,
  tokensBefore |-> res.tokensBefore, tokensSaved |-> res.tokensSaved,
  tokensAfter |-> res.tokensAfter, cold |-> res.cold ]

\* A branch of ServeHTTP that leaves the reason unset.
Bare_NoReason(reason) == Summary("", "", "", NoResult)

Bare(reason) == Summary(reason, "", "", NoResult)

Init ==
  /\ pc = [r \in Requests |-> "new"]
  /\ input = [r \in Requests |-> Null]
  /\ enc = [r \in Requests |-> Null]
  /\ s = [r \in Requests |-> Null]
  /\ reply = [r \in Requests |-> Null]
  /\ gone = [r \in Requests |-> FALSE]
  /\ tries = [r \in Requests |-> 0]
  /\ acceptCompressed \in BOOLEAN
  /\ learned \in Beliefs
  /\ metrics = newMetrics
  /\ scrape = [at |-> "idle", balanced |-> TRUE]
  /\ C!Init

-----------------------------------------------------------------------------
(* The client.                                                             *)

\* The coding it likes if it believes that it may use it, or none.
Choose(call) ==
  IF normalizeCoding(call.likes) \in learned THEN call.likes ELSE [token |-> "", q |-> FALSE]

\* ServeHTTP starts with inboundStart.
Arrive(r) ==
  /\ pc[r] = "new"
  /\ \E call \in Inputs[r] :
       /\ input' = [input EXCEPT ![r] = call]
       /\ enc' = [enc EXCEPT ![r] = Choose(call)]
  /\ metrics' = inboundStart(metrics)
  /\ pc' = [pc EXCEPT ![r] = "read"]
  /\ UNCHANGED <<s, reply, gone, tries, clientVars, scrape, compVars>>

\* A call that was refused for its coding is sent again.
Retry(r) ==
  /\ pc[r] = "done"
  /\ reply[r] # Null /\ reply[r].status = 415
  /\ ~gone[r]
  /\ tries[r] < MaxRetries
  /\ tries' = [tries EXCEPT ![r] = @ + 1]
  /\ enc' = [enc EXCEPT ![r] = Choose(input[r])]
  /\ reply' = [reply EXCEPT ![r] = Null]
  /\ s' = [s EXCEPT ![r] = Null]
  /\ metrics' = inboundStart(metrics)
  /\ pc' = [pc EXCEPT ![r] = "read"]
  /\ UNCHANGED <<input, gone, clientVars, scrape, compVars>>

\* The client's timeout, or its own client's end.  Before that, the read of the
\* body fails; afterwards the handler does not notice.
HangUp(r) ==
  /\ pc[r] \in {"compress", "write"}
  /\ ~gone[r]
  /\ gone' = [gone EXCEPT ![r] = TRUE]
  /\ UNCHANGED <<pc, input, enc, s, reply, tries, clientVars, metrics, scrape, compVars>>

\* The handler writes a response; a client that is there learns from it.
Respond(r, status, action, advertised) ==
  /\ reply' = [reply EXCEPT ![r] =
       [status |-> status, action |-> action, advertised |-> advertised]]
  /\ learned' = IF advertised /\ ~gone[r] THEN acceptEncoding ELSE learned

-----------------------------------------------------------------------------
(* ServeHTTP up to the call of Compress.                                   *)

RejectMethod(r) ==
  /\ pc[r] = "read"
  /\ input[r].method # "POST"
  /\ Respond(r, 405, "none", acceptCompressed)
  /\ pc' = [pc EXCEPT ![r] = "return"]
  /\ UNCHANGED <<input, enc, s, gone, tries, acceptCompressed, metrics, scrape, compVars>>

\* A handler that has nothing to ask the compressor for goes on to write.
Decide(r, summary) ==
  /\ s' = [s EXCEPT ![r] = summary]
  /\ pc' = [pc EXCEPT ![r] = "write"]
  /\ UNCHANGED <<input, enc, reply, gone, tries, clientVars, metrics, scrape, compVars>>

Posted(r) == pc[r] = "read" /\ input[r].method = "POST"

ReadFails(r) == Posted(r) /\ Decide(r, Bare("allow(read-error)"))

\* The refusal advertises only if the flag says so.
Refuse_Flagged(r) == Respond(r, 415, "none", acceptCompressed)

Refuse(r) == Respond(r, 415, "none", TRUE)

RejectEncoding(r) ==
  /\ Posted(r)
  /\ decodeRequestBody(input[r].body, enc[r]) = "unsupported"
  /\ Refuse(r)
  /\ s' = [s EXCEPT ![r] = Bare("reject(encoding)")]
  /\ pc' = [pc EXCEPT ![r] = "record"]
  /\ UNCHANGED <<input, enc, gone, tries, acceptCompressed, metrics, scrape, compVars>>

DecodeFails(r) ==
  /\ Posted(r)
  /\ decodeRequestBody(input[r].body, enc[r]) = "corrupt"
  /\ Decide(r, Bare("allow(decode-error)"))

\* process: the body parses as far as its form says, if all of it was read.
Decoded(r) == Posted(r) /\ decodeRequestBody(input[r].body, enc[r]) = "nil"
Garbled(r) == input[r].form = "garbled" \/ ~Whole(input[r].body, enc[r])

Passthrough(r) ==
  /\ Decoded(r)
  /\ \/ Garbled(r) /\ Decide(r, Bare("allow(passthrough)"))
     \/ /\ ~Garbled(r) /\ input[r].form = "other"
        /\ Decide(r, Summary("allow(passthrough)", input[r].provider, input[r].model, NoResult))

\* The model is the one of the metadata, or else the one in the body.
Model(r) == IF input[r].model = "" THEN input[r].bodyModel ELSE input[r].model

CallCompress(r) ==
  /\ Decoded(r)
  /\ ~Garbled(r) /\ input[r].form = "messages"
  /\ C!Admit(r) \/ C!Refuse(r)
  /\ pc' = [pc EXCEPT ![r] = "compress"]
  /\ UNCHANGED <<input, enc, s, reply, gone, tries, clientVars, metrics, scrape>>

-----------------------------------------------------------------------------
(* The compressor works on the jobs.  A caller leaves when its context is  *)
(* done or the pool is closed.                                             *)

Compressing(r) ==
  /\ \/ C!Run(r) \/ C!Finish(r) \/ C!Discard(r) \/ C!Answer(r)
     \/ (gone[r] \/ closed) /\ C!Withdraw(r) /\ (answer'[r] = "ctx" => gone[r])
     \/ gone[r] /\ C!GiveUp(r)
  /\ UNCHANGED <<handlerVars, clientVars, metrics, scrape>>

-----------------------------------------------------------------------------
(* The rest of process and of ServeHTTP.                                   *)

\* Compress returned an error, and so does ServeHTTP.
CompressFails_Silently(r) ==
  /\ pc[r] = "compress"
  /\ caller[r] = "returned"
  /\ answer[r] # "ok"
  /\ s' = [s EXCEPT ![r] = Summary("allow(error)", input[r].provider, Model(r), NoResult)]
  /\ pc' = [pc EXCEPT ![r] = "record"]
  /\ UNCHANGED <<input, enc, reply, gone, tries, clientVars, metrics, scrape, compVars>>

CompressFails(r) ==
  /\ pc[r] = "compress"
  /\ caller[r] = "returned"
  /\ answer[r] # "ok"
  /\ Decide(r, Summary("allow(error)", input[r].provider, Model(r), NoResult))

\* A result without messages that saves tokens is spliced into the body.
Worthwhile_AbsentToo(res) == res.tokensSaved > 0

\* len(res.Messages) is that of the raw JSON, which is 0 only if it is absent.
Worthwhile(res) == res.tokensSaved > 0 /\ res.messages # "absent"

CompressReturns(r) ==
  /\ pc[r] = "compress"
  /\ caller[r] = "returned"
  /\ answer[r] = "ok"
  /\ LET res == input[r].yields
         reason == IF Worthwhile(res) THEN "modify" ELSE "allow(noop)"
     IN  Decide(r, Summary(reason, input[r].provider, Model(r), res))

\* The body of the response is the action that goes with the reason.
writeHookResponse(r) ==
  /\ pc[r] = "write"
  /\ Respond(r, 200, IF s[r].reason = "modify" THEN "modify" ELSE "allow", acceptCompressed)
  /\ pc' = [pc EXCEPT ![r] = "record"]
  /\ UNCHANGED <<input, enc, s, gone, tries, acceptCompressed, metrics, scrape, compVars>>

\* Calls whose client has left are not counted.
Counted_IfDelivered(r) == IF gone[r] THEN metrics ELSE record(metrics, s[r])

Counted(r) == record(metrics, s[r])

Record(r) ==
  /\ pc[r] = "record"
  /\ metrics' = Counted(r)
  /\ pc' = [pc EXCEPT ![r] = "return"]
  /\ UNCHANGED <<input, enc, s, reply, gone, tries, clientVars, scrape, compVars>>

\* The deferred inboundDone.
Return(r) ==
  /\ pc[r] = "return"
  /\ metrics' = inboundDone(metrics)
  /\ pc' = [pc EXCEPT ![r] = "done"]
  /\ UNCHANGED <<input, enc, s, reply, gone, tries, clientVars, scrape, compVars>>

-----------------------------------------------------------------------------
(* GET /metrics.                                                           *)

\* The maps are read after the scalars, without the lock in between.
ScrapeCounters_Unlocked ==
  /\ \/ /\ scrape.at = "idle"
        /\ scrape' = [at |-> "maps", balanced |-> metrics]
     \/ /\ scrape.at = "maps"
        /\ scrape' = [at |-> "pool", balanced |-> Balanced(
             [scrape.balanced EXCEPT !.byOutcome = metrics.byOutcome,
                                     !.byProvider = metrics.byProvider,
                                     !.byModel = metrics.byModel])]
  /\ UNCHANGED <<handlerVars, clientVars, metrics, compVars>>

\* export copies every counter in one critical section.
ScrapeCounters ==
  /\ scrape.at = "idle"
  /\ scrape' = [at |-> "pool", balanced |-> Balanced(metrics)]
  /\ UNCHANGED <<handlerVars, clientVars, metrics, compVars>>

\* The pool's gauges and counters are read after that, and the text is sent.
ScrapePool ==
  /\ scrape.at = "pool"
  /\ scrape' = [at |-> "idle", balanced |-> TRUE]
  /\ UNCHANGED <<handlerVars, clientVars, metrics, compVars>>

-----------------------------------------------------------------------------
HandlerNext(r) ==
  \/ RejectMethod(r) \/ ReadFails(r) \/ RejectEncoding(r) \/ DecodeFails(r)
  \/ Passthrough(r) \/ CallCompress(r)
  \/ CompressFails(r) \/ CompressReturns(r)
  \/ writeHookResponse(r) \/ Record(r) \/ Return(r)

Serving == \E r \in Requests : HandlerNext(r) \/ Compressing(r) \/ HangUp(r)

Next ==
  \/ \E r \in Requests : Arrive(r) \/ Retry(r)
  \/ Serving
  \/ ScrapeCounters \/ ScrapePool

Spec == Init /\ [][Next]_vars

\* Handlers run on, but nothing makes a client send the rest of its body.
\* The compressor is as fair as Pool is shown to be (ServesWhileOpen).
Fairness ==
  \A r \in Requests :
    /\ WF_vars(pc[r] # "read" /\ HandlerNext(r))
    /\ WF_vars(~closed /\ C!Run(r) /\ Compressing(r))
    /\ WF_vars(C!Finish(r) /\ Compressing(r))
    /\ WF_vars(C!Answer(r) /\ Compressing(r))

FairSpec == Spec /\ Fairness

-----------------------------------------------------------------------------
(* Properties.                                                             *)

Replies ==
  [status : {200, 405, 415}, action : {"allow", "modify", "none"}, advertised : BOOLEAN]

Summaries ==
  [reason : Reasons, provider : Labels, model : Labels, tokensBefore : Nat,
   tokensSaved : Int, tokensAfter : Nat, cold : BOOLEAN]

TypeOK ==
  /\ pc \in [Requests -> PCs]
  /\ input \in [Requests -> Calls \cup {Null}]
  /\ enc \in [Requests -> Headers \cup {Null}]
  /\ s \in [Requests -> Summaries \cup {Null}]
  /\ reply \in [Requests -> Replies \cup {Null}]
  /\ gone \in [Requests -> BOOLEAN]
  /\ tries \in [Requests -> 0..MaxRetries]
  /\ acceptCompressed \in BOOLEAN
  /\ learned \in SUBSET Range(Lower)
  /\ metrics \in MetricsType
  /\ scrape \in [at : {"idle", "pool"}, balanced : BOOLEAN]

\* "It can never break a user's request" (handler.go:82-84): a body is only
\* ever replaced by the outcome of its own finished compression, with fewer
\* tokens and with a field messages (which may be empty: see BodyNotNulledOut);
\* and a POST in a coding that is accepted is answered allow or modify with
\* 200 through errors, a closed pool or a client that left.  Other codings
\* are refused with 415.
NeverBreaks ==
  \A r \in Requests : reply[r] # Null /\ input[r].method = "POST" =>
    /\ reply[r].action = "modify" =>
         /\ answer[r] = "ok" /\ job[r] = "settled" /\ result[r] = "ok"
         /\ input[r].yields.messages # "absent" /\ input[r].yields.tokensSaved > 0
    /\ normalizeCoding(enc[r]) \in acceptEncoding \cup {""} =>
         reply[r].status = 200 /\ reply[r].action \in {"allow", "modify"}

\* The limits on the wire, on the decoded body and in the parser fit together
\* (handler.go:155, encoding.go:106-131): a body that was read reaches the
\* compressor if and only if it is whole, decodes to at most maxBody bytes,
\* the boundary included, and holds messages.  The codings differ in one point:
\* blanks beyond maxBody are cut off a plain body and fail a compressed one.
OnlyWholeBodies ==
  \A r \in Requests :
    pc[r] \in {"compress", "write"} /\ (pc[r] = "write" => s[r].reason # "allow(read-error)") =>
      LET b == input[r].body
          packed == normalizeCoding(enc[r]) # ""
      IN  (caller[r] # "new") <=>
            /\ b.size <= maxBody
            /\ packed => b.sound /\ b.packed <= maxBody /\ b.size + b.tail <= maxBody
            /\ input[r].form = "messages"

\* The calls that have been recorded.
Recorded == {r \in Requests : pc[r] \in {"return", "done"} /\ input[r].method = "POST"}

\* Every POST that was answered is counted once, under what was answered, and
\* every request is inbound until it returns, through all early returns,
\* retries and clients that left (handler.go:135-136,189,220).
AnswersAreCounted ==
  LET m == metrics
      Retried == SumFunction(tries)
  IN  /\ m.inboundActive = Cardinality(Active)
      /\ m.inboundCompleted = Cardinality({r \in Requests : pc[r] = "done"}) + Retried
      /\ m.requestsTotal = Cardinality(Recorded) + Retried
      /\ m.byOutcome["reject_encoding"] =
           Cardinality({r \in Recorded : reply[r].status = 415}) + Retried
      /\ m.byOutcome["modify"] = Cardinality({r \in Recorded : reply[r].action = "modify"})
      /\ m.requestsFailed =
           Cardinality({r \in Recorded : caller[r] = "returned" /\ answer[r] # "ok"})
      /\ m.tokensSaved =
           SumFunction([r \in Recorded |->
                         IF answer[r] = "ok" THEN input[r].yields.tokensSaved ELSE 0])

\* "The scrape (export) snapshots under the same lock" (metrics.go:24-25):
\* what a scrape has read balances, while requests start, end and are counted.
ScrapeIsOneMoment == scrape.at = "pool" => scrape.balanced

\* A call is refused for its coding once at the most: the refusal says what is
\* accepted, whatever the flag, so that the retry succeeds (handler.go:174-182).
DowngradeOnce == \A r \in Requests : tries[r] > 0 => reply[r] = Null \/ reply[r].status # 415

\* A call that is in the compressor is answered: with the result, or with
\* allow when it fails or the client leaves.
CompressedCallsAnswered ==
  \A r \in Requests : pc[r] = "compress" ~> (pc[r] = "done" /\ reply[r] # Null)

(* What the documentation says and the code does not do.                   *)

\* "An empty result that would null out the body: don't rewrite the body"
\* (handler.go:355-356): the messages of a call are replaced by messages.
BodyNotNulledOut ==
  \A r \in Requests :
    reply[r] # Null /\ reply[r].action = "modify" => input[r].yields.messages = "some"
=============================================================================
