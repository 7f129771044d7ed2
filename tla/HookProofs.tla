----------------------------- MODULE HookProofs -----------------------------
(* Proofs about Hook, for every set of requests, whatever they consist of, *)
(* and every ceiling on the size of a body.                                *)
EXTENDS Hook, TLAPS

-----------------------------------------------------------------------------
(* The inductive invariant.                                                *)

Answers == {"ok", "fault", "cap", "closed", "unavailable", "canceled", "ctx", Null}

\* The compressor: a caller that got "ok" got it from its own settled job.
CompressorOK ==
  /\ caller \in [Requests -> {"new", "waiting", "returned"}]
  /\ answer \in [Requests -> Answers]
  /\ job \in [Requests -> {"none", "queued", "running", "settled"}]
  /\ result \in [Requests -> Answers]
  /\ closed \in BOOLEAN
  /\ \A r \in Requests :
       /\ caller[r] = "new" => answer[r] = Null
       /\ caller[r] = "returned" /\ answer[r] = "ok" => job[r] = "settled" /\ result[r] = "ok"

\* A body that may be compressed: whole, within the limits, with messages.
Fits(r) ==
  LET b == input[r].body
  IN  /\ b.size <= maxBody
      /\ normalizeCoding(enc[r]) # "" => b.sound /\ b.packed <= maxBody /\ b.size + b.tail <= maxBody
      /\ input[r].form = "messages"

\* The call in the compressor is the one of the handler's place in ServeHTTP:
\* none before it, one under way, and none under way after it.
InPlace(r) ==
  /\ pc[r] # "new" => input[r] \in Calls /\ enc[r] \in Headers
  /\ pc[r] \in {"new", "read"} => caller[r] = "new"
  /\ pc[r] = "compress" => caller[r] # "new" /\ Fits(r)
  /\ pc[r] \notin {"new", "read", "compress"} => caller[r] # "waiting"
  /\ pc[r] = "write" /\ s[r].reason # "allow(read-error)" => (caller[r] # "new" <=> Fits(r))
  /\ pc[r] \in {"compress", "write", "record"} => input[r].method = "POST"

\* What a POST is counted under is what the compressor made of it.
Succeeded(r) == caller[r] = "returned" /\ answer[r] = "ok"

Summarised(r) ==
  pc[r] \in {"write", "record", "return", "done"} /\ input[r].method = "POST" =>
    /\ s[r] \in Summaries
    /\ s[r].reason = "modify" <=> Succeeded(r) /\ Worthwhile(input[r].yields)
    /\ s[r].reason = "allow(error)" <=> caller[r] = "returned" /\ ~Succeeded(r)
    /\ s[r].tokensSaved = IF Succeeded(r) THEN input[r].yields.tokensSaved ELSE 0
    /\ pc[r] = "write" => s[r].reason # "reject(encoding)"

\* A coding that decodeRequestBody does not know.
Refusable(r) == normalizeCoding(enc[r]) \notin acceptEncoding \cup {""}

\* What a POST was answered with is what it is counted under.
Answered(r) ==
  /\ pc[r] \in {"new", "read", "compress", "write"} => reply[r] = Null
  /\ pc[r] \in {"record", "return", "done"} => reply[r] \in Replies
  /\ pc[r] \in {"record", "return", "done"} /\ input[r].method = "POST" =>
       /\ reply[r].action = "modify" <=> s[r].reason = "modify"
       /\ reply[r].status = 415 <=> s[r].reason = "reject(encoding)"
       /\ reply[r].status = 415 =>
            caller[r] = "new" /\ Refusable(r)
       /\ reply[r].status # 415 =>
            reply[r].status = 200 /\ reply[r].action \in {"allow", "modify"}
  /\ pc[r] \in {"return", "done"} /\ input[r].method # "POST" =>
       reply[r].status = 405 /\ caller[r] = "new"

\* Who was refused for its coding, and is there, knows which are accepted; a
\* call that was sent again keeps to those.
Taught(r) ==
  /\ tries[r] = 0 \/ pc[r] # "new"
  /\ reply[r] # Null /\ reply[r].status = 415 /\ ~gone[r] => learned = acceptEncoding
  /\ tries[r] # 0 =>
       /\ learned = acceptEncoding
       /\ normalizeCoding(enc[r]) \in acceptEncoding \cup {""}
       /\ reply[r] # Null => reply[r].status # 415

HandlerOK(r) == InPlace(r) /\ Summarised(r) /\ Answered(r) /\ Taught(r)

HookInv ==
  /\ TypeOK
  /\ CompressorOK
  /\ \A r \in Requests : HandlerOK(r)

-----------------------------------------------------------------------------
(* The codings.                                                            *)

\* The codings that Accept-Encoding names.
LEMMA AcceptEncodingIs == acceptEncoding = {"zstd", "gzip"}
BY DEF acceptEncoding, Range, reqCodecs

\* The codings after strings.ToLower.
LEMMA LowerIs == Range(Lower) = {"", "identity", "gzip", "zstd", "br"}
BY DEF Range, Lower, Spellings

\* The three ways in which decodeRequestBody ends.
LEMMA DecodeEnds ==
  ASSUME NEW b, NEW e
  PROVE  /\ decodeRequestBody(b, e) = "nil" <=>
              \/ normalizeCoding(e) = ""
              \/ normalizeCoding(e) \in acceptEncoding /\ Decodes(b, e)
         /\ decodeRequestBody(b, e) = "unsupported" <=>
              normalizeCoding(e) \notin acceptEncoding \cup {""}
         /\ decodeRequestBody(b, e) = "corrupt" => normalizeCoding(e) # "" /\ ~Decodes(b, e)
BY DEF decodeRequestBody

\* A body that was decoded and parses to the end fits if it has messages.
LEMMA ParsedFits ==
  ASSUME NEW r \in Requests, input[r] \in Calls, enc[r] \in Headers, Decoded(r)
  PROVE  ~Garbled(r) /\ input[r].form = "messages" <=> Fits(r)
<1>1. input[r].body \in Bodies
  BY DEF Calls
<1>2. decodeRequestBody(input[r].body, enc[r]) = "nil"
  BY DEF Decoded
<1>3. \/ normalizeCoding(enc[r]) = ""
      \/ normalizeCoding(enc[r]) # "" /\ Decodes(input[r].body, enc[r])
  BY <1>2, DecodeEnds, AcceptEncodingIs
<1>4. LET b == input[r].body IN b.size + b.tail <= maxBody => b.size <= maxBody
  BY <1>1, EncodingsAssumption DEF Bodies
<1> QED
  BY <1>1, <1>3, <1>4 DEF Garbled, Fits, Decodes, Whole, Sent, Bodies

\* A body that a codec refuses does not fit.
LEMMA CorruptDoesNotFit ==
  ASSUME NEW r \in Requests, input[r] \in Calls, enc[r] \in Headers,
         decodeRequestBody(input[r].body, enc[r]) = "corrupt"
  PROVE  ~Fits(r)
<1>1. normalizeCoding(enc[r]) # "" /\ ~Decodes(input[r].body, enc[r])
  BY DecodeEnds
<1> QED
  BY <1>1 DEF Fits, Decodes, Whole, Sent

\* The client uses a coding that it believes in, or none.
LEMMA ChooseBelieves ==
  ASSUME NEW call \in Calls
  PROVE  /\ Choose(call) \in Headers
         /\ normalizeCoding(Choose(call)) \in learned \cup {""}
<1>1. [token |-> "", q |-> FALSE] \in Headers
  BY DEF Headers, Spellings
<1>2. normalizeCoding([token |-> "", q |-> FALSE]) = ""
  BY DEF normalizeCoding, Lower, Spellings
<1> QED
  BY <1>1, <1>2 DEF Choose, Calls

-----------------------------------------------------------------------------
(* The metrics.                                                            *)

\* Each reason has its outcome; the handler's own passthrough is the rest.
LEMMA OutcomeOf ==
  ASSUME NEW reason \in Reasons
  PROVE  /\ outcomeFromReason(reason) \in Outcomes
         /\ outcomeFromReason(reason) = "modify" <=> reason = "modify"
         /\ outcomeFromReason(reason) = "error" <=> reason = "allow(error)"
         /\ outcomeFromReason(reason) = "reject_encoding" <=> reason = "reject(encoding)"
BY DEF outcomeFromReason, Reasons, Outcomes

\* A fresh set of counters.
LEMMA NewMetricsType == newMetrics \in MetricsType
BY DEF newMetrics, MetricsType

\* A request comes in and goes.
LEMMA InboundType ==
  ASSUME NEW m \in MetricsType
  PROVE  inboundStart(m) \in MetricsType /\ inboundDone(m) \in MetricsType
<1>1. m.inboundTotal \in Nat /\ m.inboundCompleted \in Nat /\ m.inboundActive \in Nat
  BY DEF MetricsType
<1>2. /\ m.inboundTotal + 1 \in Nat /\ m.inboundCompleted + 1 \in Nat
      /\ m.inboundActive + 1 \in Nat
      /\ (IF m.inboundActive > 0 THEN m.inboundActive - 1 ELSE m.inboundActive) \in Nat
  BY <1>1
<1> QED
  BY <1>2, Zenon DEF inboundStart, inboundDone, MetricsType

\* The fields of the counters that a summary adds to.
LEMMA RecordFields ==
  ASSUME NEW m \in MetricsType, NEW sum \in Summaries
  PROVE  LET o == outcomeFromReason(sum.reason)
             p == labelOrUnknown(sum.provider)
             l == labelOrUnknown(sum.model)
             n == record(m, sum)
         IN  /\ o \in Outcomes /\ p \in LabelsOut /\ l \in LabelsOut
             /\ n.requestsTotal = m.requestsTotal + 1
             /\ n.byOutcome = [m.byOutcome EXCEPT ![o] = @ + 1]
             /\ n.byProvider = [m.byProvider EXCEPT ![p] = @ + 1]
             /\ n.byModel = [m.byModel EXCEPT ![l] = @ + 1]
             /\ n.tokensSaved = m.tokensSaved + sum.tokensSaved
             /\ n.requestsFailed =
                  IF o = "error" THEN m.requestsFailed + 1 ELSE m.requestsFailed
             /\ n.inboundTotal = m.inboundTotal
             /\ n.inboundCompleted = m.inboundCompleted
             /\ n.inboundActive = m.inboundActive
             /\ n \in MetricsType
<1> DEFINE o == outcomeFromReason(sum.reason)
           p == labelOrUnknown(sum.provider)
           l == labelOrUnknown(sum.model)
<1>1. o \in Outcomes /\ p \in LabelsOut /\ l \in LabelsOut
  BY OutcomeOf DEF Summaries, LabelsOut
<1>2. /\ sum.tokensBefore \in Nat /\ sum.tokensSaved \in Int /\ sum.tokensAfter \in Nat
  BY DEF Summaries
<1> HIDE DEF o, p, l
<1>3. /\ m.requestsTotal + 1 \in Nat /\ m.tokensInput + sum.tokensBefore \in Nat
      /\ m.tokensSaved + sum.tokensSaved \in Int /\ m.tokensAfter + sum.tokensAfter \in Nat
      /\ (IF sum.cold THEN m.coldStarts + 1 ELSE m.coldStarts) \in Nat
      /\ (IF o = "error" THEN m.requestsFailed + 1 ELSE m.requestsFailed) \in Nat
      /\ [m.byOutcome EXCEPT ![o] = m.byOutcome[o] + 1] \in [Outcomes -> Nat]
      /\ [m.byProvider EXCEPT ![p] = m.byProvider[p] + 1] \in [LabelsOut -> Nat]
      /\ [m.byModel EXCEPT ![l] = m.byModel[l] + 1] \in [LabelsOut -> Nat]
  <2>1. /\ m.requestsTotal \in Nat /\ m.tokensInput \in Nat /\ m.tokensSaved \in Int
        /\ m.tokensAfter \in Nat /\ m.coldStarts \in Nat /\ m.requestsFailed \in Nat
        /\ m.byOutcome \in [Outcomes -> Nat] /\ m.byProvider \in [LabelsOut -> Nat]
        /\ m.byModel \in [LabelsOut -> Nat]
    BY DEF MetricsType
  <2> QED
    BY <1>1, <1>2, <2>1
<1>4. record(m, sum) =
        [m EXCEPT !.requestsTotal = m.requestsTotal + 1,
                  !.byOutcome = [m.byOutcome EXCEPT ![o] = m.byOutcome[o] + 1],
                  !.byProvider = [m.byProvider EXCEPT ![p] = m.byProvider[p] + 1],
                  !.byModel = [m.byModel EXCEPT ![l] = m.byModel[l] + 1],
                  !.tokensInput = m.tokensInput + sum.tokensBefore,
                  !.tokensSaved = m.tokensSaved + sum.tokensSaved,
                  !.tokensAfter = m.tokensAfter + sum.tokensAfter,
                  !.coldStarts = IF sum.cold THEN m.coldStarts + 1 ELSE m.coldStarts,
                  !.requestsFailed =
                    IF o = "error" THEN m.requestsFailed + 1 ELSE m.requestsFailed]
  BY Zenon DEF record, o, p, l
<1>5. record(m, sum) \in MetricsType
  <2> DEFINE total == m.requestsTotal + 1
             byO == [m.byOutcome EXCEPT ![o] = m.byOutcome[o] + 1]
             byP == [m.byProvider EXCEPT ![p] = m.byProvider[p] + 1]
             byM == [m.byModel EXCEPT ![l] = m.byModel[l] + 1]
             tIn == m.tokensInput + sum.tokensBefore
             tSaved == m.tokensSaved + sum.tokensSaved
             tAfter == m.tokensAfter + sum.tokensAfter
             cold == IF sum.cold THEN m.coldStarts + 1 ELSE m.coldStarts
             failed == IF o = "error" THEN m.requestsFailed + 1 ELSE m.requestsFailed
  <2>1. /\ total \in Nat /\ byO \in [Outcomes -> Nat] /\ byP \in [LabelsOut -> Nat]
        /\ byM \in [LabelsOut -> Nat] /\ tIn \in Nat /\ tSaved \in Int /\ tAfter \in Nat
        /\ cold \in Nat /\ failed \in Nat
    BY <1>3
  <2>2. record(m, sum) =
          [m EXCEPT !.requestsTotal = total, !.byOutcome = byO, !.byProvider = byP,
                    !.byModel = byM, !.tokensInput = tIn, !.tokensSaved = tSaved,
                    !.tokensAfter = tAfter, !.coldStarts = cold, !.requestsFailed = failed]
    BY <1>4
  <2> HIDE DEF total, byO, byP, byM, tIn, tSaved, tAfter, cold, failed
  <2>3. [m EXCEPT !.requestsTotal = total, !.byOutcome = byO, !.byProvider = byP,
                  !.byModel = byM, !.tokensInput = tIn, !.tokensSaved = tSaved,
                  !.tokensAfter = tAfter, !.coldStarts = cold, !.requestsFailed = failed]
          \in MetricsType
    BY <2>1, Zenon DEF MetricsType
  <2> QED
    BY <2>2, <2>3, Zenon
<1>6. /\ record(m, sum).requestsTotal = m.requestsTotal + 1
      /\ record(m, sum).byOutcome = [m.byOutcome EXCEPT ![o] = m.byOutcome[o] + 1]
      /\ record(m, sum).byProvider = [m.byProvider EXCEPT ![p] = m.byProvider[p] + 1]
      /\ record(m, sum).byModel = [m.byModel EXCEPT ![l] = m.byModel[l] + 1]
      /\ record(m, sum).tokensSaved = m.tokensSaved + sum.tokensSaved
      /\ record(m, sum).requestsFailed =
           IF o = "error" THEN m.requestsFailed + 1 ELSE m.requestsFailed
      /\ record(m, sum).inboundTotal = m.inboundTotal
      /\ record(m, sum).inboundCompleted = m.inboundCompleted
      /\ record(m, sum).inboundActive = m.inboundActive
  BY <1>4, Zenon DEF MetricsType
<1> QED
  BY <1>1, <1>5, <1>6, Zenon DEF o, p, l

-----------------------------------------------------------------------------
(* The compressor.                                                         *)

\* A call that waits is answered, or goes on waiting; the others are left
\* alone, those that make a call excepted.
Served(r) ==
  /\ caller[r] # "waiting" => caller'[r] = caller[r] /\ answer'[r] = answer[r]
  /\ caller[r] = "waiting" => caller'[r] # "new"

\* The compressor works on its jobs.
LEMMA CompressingKeeps ==
  ASSUME CompressorOK, NEW r \in Requests, Compressing(r)
  PROVE  CompressorOK' /\ \A q \in Requests : Served(q)
<1> USE DEF CompressorOK, Answers, Served
<1>1. CASE C!Run(r)
  BY <1>1 DEF C!Run
<1>2. CASE C!Finish(r)
  BY <1>2 DEF C!Finish, C!Settle, C!Failures
<1>3. CASE C!Discard(r)
  BY <1>3 DEF C!Discard, C!Settle
<1>4. CASE C!Answer(r)
  BY <1>4 DEF C!Answer, C!Return
<1>5. CASE C!Withdraw(r)
  <2>1. PICK a \in {"ctx", "closed"} : C!Return(r, a) /\ C!Settle(r, a)
    BY <1>5 DEF C!Withdraw
  <2>2. caller[r] = "waiting" /\ closed' = closed
    BY <1>5 DEF C!Withdraw
  <2> QED
    BY <2>1, <2>2 DEF C!Return, C!Settle
<1>6. CASE C!GiveUp(r)
  BY <1>6 DEF C!GiveUp, C!Return
<1> QED
  BY <1>1, <1>2, <1>3, <1>4, <1>5, <1>6 DEF Compressing

\* A handler calls Compress.
LEMMA CallKeeps ==
  ASSUME CompressorOK, NEW r \in Requests, C!Admit(r) \/ C!Refuse(r)
  PROVE  /\ CompressorOK'
         /\ \A q \in Requests \ {r} : Served(q)
         /\ caller'[r] # "new"
<1> USE DEF CompressorOK, Answers, Served
<1>1. CASE C!Admit(r)
  BY <1>1 DEF C!Admit
<1>2. CASE C!Refuse(r)
  BY <1>2 DEF C!Refuse, C!Return, C!Settle
<1> QED
  BY <1>1, <1>2

\* A step that leaves the compressor alone.
LEMMA CompressorIdle ==
  ASSUME CompressorOK, UNCHANGED compVars
  PROVE  CompressorOK' /\ \A q \in Requests : Served(q)
BY DEF CompressorOK, compVars, Served

-----------------------------------------------------------------------------
(* The handlers.                                                           *)

\* A handler that stands still while its client may hang up, the compressor
\* serve its call, and a client learn.
StandsStill(r) ==
  /\ pc'[r] = pc[r] /\ input'[r] = input[r] /\ enc'[r] = enc[r]
  /\ s'[r] = s[r] /\ reply'[r] = reply[r] /\ tries'[r] = tries[r]
  /\ gone[r] => gone'[r]
  /\ learned' \in {learned, acceptEncoding}
  /\ Served(r)

\* Its part of the invariant stands still with it.
LEMMA StandingStill ==
  ASSUME NEW r \in Requests, CompressorOK, HandlerOK(r), StandsStill(r)
  PROVE  HandlerOK(r)'
<1> USE DEF StandsStill
<1>1. Fits(r)' <=> Fits(r)
  BY DEF Fits, normalizeCoding
<1>2. caller[r] # "waiting" => (Succeeded(r)' <=> Succeeded(r))
  BY DEF Succeeded, Served
<1>3. InPlace(r)'
  BY <1>1 DEF HandlerOK, InPlace, Served
<1>4. Summarised(r)'
  BY <1>2 DEF HandlerOK, Summarised, InPlace, Served
<1>5. Answered(r)'
  <2>1. Refusable(r)' <=> Refusable(r)
    BY DEF Refusable, normalizeCoding
  <2> QED
    BY <2>1 DEF HandlerOK, Answered, InPlace, Served
<1>6. Taught(r)'
  <2>1. learned = acceptEncoding => learned' = acceptEncoding
    OBVIOUS
  <2>2. ~gone'[r] => ~gone[r]
    OBVIOUS
  <2>3. normalizeCoding(enc'[r]) = normalizeCoding(enc[r])
    OBVIOUS
  <2>4. Taught(r)
    BY DEF HandlerOK
  <2> QED
    BY <2>1, <2>2, <2>3, <2>4, Zenon DEF Taught
<1> QED
  BY <1>3, <1>4, <1>5, <1>6 DEF HandlerOK

\* A summary with labels and without a result.
LEMMA LabelledSummary ==
  ASSUME NEW reason \in Reasons, NEW p \in Labels, NEW l \in Labels
  PROVE  LET sum == Summary(reason, p, l, NoResult)
         IN  sum \in Summaries /\ sum.reason = reason /\ sum.tokensSaved = 0
BY DEF Summary, NoResult, Summaries

\* The same without labels.
LEMMA BareSummary ==
  ASSUME NEW reason \in Reasons
  PROVE  Bare(reason) \in Summaries /\ Bare(reason).reason = reason /\ Bare(reason).tokensSaved = 0
<1>1. "" \in Labels
  BY HookAssumption
<1> QED
  BY <1>1, LabelledSummary DEF Bare

\* The same with the numbers of a result.
LEMMA ResultSummary ==
  ASSUME NEW reason \in Reasons, NEW p \in Labels, NEW l \in Labels, NEW res \in Results
  PROVE  LET sum == Summary(reason, p, l, res)
         IN  sum \in Summaries /\ sum.reason = reason /\ sum.tokensSaved = res.tokensSaved
BY DEF Summary, Results, Summaries

\* The labels that a call is counted under.
LEMMA CallLabels ==
  ASSUME NEW r \in Requests, input[r] \in Calls
  PROVE  input[r].provider \in Labels /\ input[r].model \in Labels /\ Model(r) \in Labels
BY DEF Calls, Model

\* A step of one handler leaves the others where they are.
LEMMA OthersStand ==
  ASSUME CompressorOK, TypeOK, NEW r \in Requests, NEW q \in Requests \ {r},
         Arrive(r) \/ Retry(r) \/ HandlerNext(r)
  PROVE  StandsStill(q)
<1> USE DEF TypeOK, StandsStill, clientVars, handlerVars
<1>1. CASE Arrive(r)
  BY <1>1, CompressorIdle DEF Arrive
<1>2. CASE Retry(r)
  BY <1>2, CompressorIdle DEF Retry
<1>3. ASSUME NEW sum, Decide(r, sum) PROVE StandsStill(q)
  BY <1>3, CompressorIdle DEF Decide
<1>4. CASE ReadFails(r) \/ DecodeFails(r) \/ Passthrough(r) \/ CompressFails(r)
        \/ CompressReturns(r)
  BY <1>3, <1>4 DEF ReadFails, DecodeFails, Passthrough, CompressFails, CompressReturns
<1>5. CASE RejectMethod(r)
  BY <1>5, CompressorIdle DEF RejectMethod, Respond
<1>6. CASE RejectEncoding(r)
  BY <1>6, CompressorIdle DEF RejectEncoding, Refuse, Respond
<1>7. CASE CallCompress(r)
  BY <1>7, CallKeeps DEF CallCompress
<1>8. CASE writeHookResponse(r)
  BY <1>8, CompressorIdle DEF writeHookResponse, Respond
<1>9. CASE Record(r)
  BY <1>9, CompressorIdle DEF Record
<1>10. CASE Return(r)
  BY <1>10, CompressorIdle DEF Return
<1> QED
  BY <1>1, <1>2, <1>4, <1>5, <1>6, <1>7, <1>8, <1>9, <1>10 DEF HandlerNext

\* A call arrives: nothing is known of it but what it consists of.
LEMMA ArriveKeeps ==
  ASSUME TypeOK, NEW r \in Requests, HandlerOK(r), Arrive(r)
  PROVE  TypeOK' /\ HandlerOK(r)'
<1>1. PICK call \in Inputs[r] : /\ input' = [input EXCEPT ![r] = call]
                                /\ enc' = [enc EXCEPT ![r] = Choose(call)]
  BY DEF Arrive
<1>2. call \in Calls /\ Choose(call) \in Headers
  BY HookAssumption, ChooseBelieves
<1>3. inboundStart(metrics) \in MetricsType
  BY InboundType DEF TypeOK
<1>4. TypeOK'
  BY <1>1, <1>2, <1>3 DEF TypeOK, Arrive, PCs, clientVars
<1>5. /\ pc[r] = "new" /\ pc'[r] = "read" /\ input'[r] \in Calls /\ enc'[r] \in Headers
      /\ caller' = caller /\ reply' = reply /\ tries' = tries
  BY <1>1, <1>2 DEF Arrive, TypeOK, compVars
<1>6. caller[r] = "new" /\ reply[r] = Null /\ tries[r] = 0
  BY <1>5 DEF HandlerOK, InPlace, Answered, Taught
<1>7. InPlace(r)' /\ Summarised(r)' /\ Answered(r)'
  BY <1>5, <1>6 DEF InPlace, Summarised, Answered
<1>8. Taught(r)'
  BY <1>5, <1>6 DEF Taught
<1> QED
  BY <1>4, <1>7, <1>8 DEF HandlerOK

\* A call is sent again: the client knows better now.
LEMMA RetryKeeps ==
  ASSUME TypeOK, NEW r \in Requests, HandlerOK(r), Retry(r)
  PROVE  TypeOK' /\ HandlerOK(r)'
<1>1. /\ pc[r] = "done" /\ reply[r] # Null /\ reply[r].status = 415 /\ ~gone[r]
      /\ tries[r] < MaxRetries
  BY DEF Retry
<1>2. input[r] \in Calls /\ learned = acceptEncoding /\ caller[r] = "new"
  BY <1>1 DEF HandlerOK, InPlace, Answered, Taught
<1>3. Choose(input[r]) \in Headers /\ normalizeCoding(Choose(input[r])) \in acceptEncoding \cup {""}
  BY <1>2, ChooseBelieves
<1>4. inboundStart(metrics) \in MetricsType
  BY InboundType DEF TypeOK
<1>5. tries[r] \in Nat /\ tries[r] + 1 \in 0..MaxRetries /\ tries[r] + 1 # 0
  <2>1. MaxRetries \in Nat /\ tries[r] \in 0..MaxRetries
    BY HookAssumption DEF TypeOK
  <2> QED
    BY <1>1, <2>1
<1>6. TypeOK'
  <2>1. tries' \in [Requests -> 0..MaxRetries] /\ enc' \in [Requests -> Headers \cup {Null}]
    BY <1>3, <1>5 DEF TypeOK, Retry
  <2> QED
    BY <1>4, <2>1 DEF TypeOK, Retry, PCs, clientVars
<1>7. /\ pc'[r] = "read" /\ input'[r] = input[r] /\ enc'[r] = Choose(input[r])
      /\ reply'[r] = Null /\ tries'[r] # 0
      /\ caller' = caller /\ learned' = learned
  <2>1. tries'[r] = tries[r] + 1
    BY <1>5 DEF TypeOK, Retry
  <2> QED
    BY <1>5, <2>1 DEF TypeOK, Retry, compVars, clientVars
<1>8. InPlace(r)' /\ Summarised(r)' /\ Answered(r)'
  BY <1>2, <1>3, <1>7 DEF InPlace, Summarised, Answered
<1>9. Taught(r)'
  BY <1>2, <1>3, <1>7 DEF Taught
<1> QED
  BY <1>6, <1>8, <1>9 DEF HandlerOK

\* A handler has made up its mind about a POST whose call of Compress, if
\* there was one, has returned, in accordance with what that returned.
LEMMA DecideKeeps ==
  ASSUME TypeOK, NEW r \in Requests, HandlerOK(r), NEW sum \in Summaries, Decide(r, sum),
         pc[r] \in {"read", "compress"}, input[r].method = "POST", caller[r] # "waiting",
         sum.reason # "reject(encoding)",
         sum.reason # "allow(read-error)" => (caller[r] # "new" <=> Fits(r)),
         sum.reason = "modify" <=> Succeeded(r) /\ Worthwhile(input[r].yields),
         sum.reason = "allow(error)" <=> caller[r] = "returned" /\ ~Succeeded(r),
         sum.tokensSaved = IF Succeeded(r) THEN input[r].yields.tokensSaved ELSE 0
  PROVE  TypeOK' /\ HandlerOK(r)'
<1>1. TypeOK'
  BY DEF TypeOK, Decide, PCs, clientVars
<1>2. /\ pc'[r] = "write" /\ s'[r] = sum
      /\ UNCHANGED <<input, enc, reply, gone, tries, learned, caller, answer>>
  BY DEF TypeOK, Decide, clientVars, compVars
<1>3. (Fits(r)' <=> Fits(r)) /\ (Succeeded(r)' <=> Succeeded(r))
  BY <1>2 DEF Fits, Succeeded, normalizeCoding
<1>4. input[r] \in Calls /\ enc[r] \in Headers /\ reply[r] = Null
  BY DEF HandlerOK, InPlace, Answered
<1>5. InPlace(r)'
  BY <1>2, <1>3, <1>4 DEF InPlace
<1>6. Summarised(r)'
  BY <1>2, <1>3 DEF Summarised
<1>7. Answered(r)'
  BY <1>2, <1>4 DEF Answered
<1>8. Taught(r)'
  <2>1. Taught(r)
    BY DEF HandlerOK
  <2> QED
    BY <1>2, <1>4, <2>1 DEF Taught
<1> QED
  BY <1>1, <1>5, <1>6, <1>7, <1>8 DEF HandlerOK

\* The branches that go on to write without asking the compressor.
LEMMA EarlyDecisionKeeps ==
  ASSUME TypeOK, CompressorOK, NEW r \in Requests, HandlerOK(r),
         ReadFails(r) \/ DecodeFails(r) \/ Passthrough(r)
  PROVE  TypeOK' /\ HandlerOK(r)'
<1>1. /\ pc[r] = "read" /\ input[r].method = "POST" /\ caller[r] = "new"
      /\ input[r] \in Calls /\ enc[r] \in Headers
  BY DEF ReadFails, DecodeFails, Passthrough, Decoded, Posted, HandlerOK, InPlace
<1>2. ~Succeeded(r)
  BY <1>1 DEF Succeeded
<1>3. ASSUME NEW sum \in Summaries, Decide(r, sum), sum.tokensSaved = 0,
             sum.reason \notin {"modify", "allow(error)", "reject(encoding)"},
             sum.reason # "allow(read-error)" => ~Fits(r)
      PROVE  TypeOK' /\ HandlerOK(r)'
  BY <1>1, <1>2, <1>3, DecideKeeps
<1>4. CASE ReadFails(r)
  <2> DEFINE sum == Bare("allow(read-error)")
  <2>1. sum \in Summaries /\ sum.reason = "allow(read-error)" /\ sum.tokensSaved = 0
    BY BareSummary DEF Reasons
  <2>2. Decide(r, sum)
    BY <1>4 DEF ReadFails
  <2> HIDE DEF sum
  <2> QED
    BY <1>3, <2>1, <2>2
<1>5. CASE DecodeFails(r)
  <2> DEFINE sum == Bare("allow(decode-error)")
  <2>1. sum \in Summaries /\ sum.reason = "allow(decode-error)" /\ sum.tokensSaved = 0
    BY BareSummary DEF Reasons
  <2>2. Decide(r, sum)
    BY <1>5 DEF DecodeFails
  <2>3. ~Fits(r)
    BY <1>1, <1>5, CorruptDoesNotFit DEF DecodeFails
  <2> HIDE DEF sum
  <2> QED
    BY <1>3, <2>1, <2>2, <2>3
<1>6. CASE Passthrough(r)
  <2>1. Decoded(r) /\ (Garbled(r) \/ input[r].form = "other")
    BY <1>6 DEF Passthrough
  <2>2. ~Fits(r)
    BY <1>1, <2>1, ParsedFits DEF Fits
  <2>3. ASSUME NEW sum, sum = Bare("allow(passthrough)")
                        \/ sum = Summary("allow(passthrough)", input[r].provider,
                                         input[r].model, NoResult)
        PROVE  sum \in Summaries /\ sum.reason = "allow(passthrough)" /\ sum.tokensSaved = 0
    BY <1>1, <2>3, BareSummary, LabelledSummary, CallLabels DEF Reasons
  <2>4. PICK sum : /\ Decide(r, sum)
                   /\ \/ sum = Bare("allow(passthrough)")
                      \/ sum = Summary("allow(passthrough)", input[r].provider,
                                       input[r].model, NoResult)
    BY <1>6 DEF Passthrough
  <2> QED
    BY <1>3, <2>2, <2>3, <2>4
<1> QED
  BY <1>4, <1>5, <1>6

\* Compress has returned, with an error or a result.
LEMMA LateDecisionKeeps ==
  ASSUME TypeOK, CompressorOK, NEW r \in Requests, HandlerOK(r),
         CompressFails(r) \/ CompressReturns(r)
  PROVE  TypeOK' /\ HandlerOK(r)'
<1>1. /\ pc[r] = "compress" /\ caller[r] = "returned" /\ input[r].method = "POST"
      /\ input[r] \in Calls /\ Fits(r)
  BY DEF CompressFails, CompressReturns, HandlerOK, InPlace
<1>2. CASE CompressFails(r)
  <2> DEFINE sum == Summary("allow(error)", input[r].provider, Model(r), NoResult)
  <2>1. sum \in Summaries /\ sum.reason = "allow(error)" /\ sum.tokensSaved = 0
    BY <1>1, LabelledSummary, CallLabels DEF Reasons
  <2>2. Decide(r, sum) /\ ~Succeeded(r)
    BY <1>2 DEF CompressFails, Succeeded
  <2> HIDE DEF sum
  <2> QED
    BY <1>1, <2>1, <2>2, DecideKeeps
<1>3. CASE CompressReturns(r)
  <2> DEFINE reason == IF Worthwhile(input[r].yields) THEN "modify" ELSE "allow(noop)"
             sum == Summary(reason, input[r].provider, Model(r), input[r].yields)
  <2>1. reason \in Reasons /\ input[r].yields \in Results
    BY <1>1 DEF Reasons, Calls
  <2>2. /\ sum \in Summaries /\ sum.reason = reason
        /\ sum.tokensSaved = input[r].yields.tokensSaved
    BY <1>1, <2>1, ResultSummary, CallLabels
  <2>3. Decide(r, sum) /\ Succeeded(r)
    BY <1>1, <1>3 DEF CompressReturns, Succeeded
  <2> HIDE DEF sum
  <2> QED
    BY <1>1, <2>2, <2>3, DecideKeeps
<1> QED
  BY <1>2, <1>3

\* The refusals: the method, and the coding.
LEMMA RefusalKeeps ==
  ASSUME TypeOK, CompressorOK, NEW r \in Requests, HandlerOK(r),
         RejectMethod(r) \/ RejectEncoding(r)
  PROVE  TypeOK' /\ HandlerOK(r)'
<1>1. /\ pc[r] = "read" /\ caller[r] = "new" /\ input[r] \in Calls /\ enc[r] \in Headers
      /\ input' = input /\ enc' = enc /\ gone' = gone /\ tries' = tries
      /\ caller' = caller /\ answer' = answer
  BY DEF RejectMethod, RejectEncoding, Posted, HandlerOK, InPlace, compVars
<1>2. acceptEncoding \in SUBSET Range(Lower) /\ acceptCompressed \in BOOLEAN
  BY AcceptEncodingIs, LowerIs DEF TypeOK
<1>3. Taught(r)
  BY DEF HandlerOK
<1>4. CASE RejectMethod(r)
  <2> DEFINE rep == [status |-> 405, action |-> "none", advertised |-> acceptCompressed]
  <2>1. rep \in Replies
    BY <1>2 DEF Replies
  <2>2. /\ input[r].method # "POST" /\ pc' = [pc EXCEPT ![r] = "return"]
        /\ reply' = [reply EXCEPT ![r] = rep] /\ learned' \in {learned, acceptEncoding}
        /\ UNCHANGED <<s, metrics, scrape, acceptCompressed>>
    BY <1>4 DEF RejectMethod, Respond
  <2>3. rep.status = 405 /\ rep.status # 415
    OBVIOUS
  <2> HIDE DEF rep
  <2>4. TypeOK'
    BY <1>1, <1>2, <2>1, <2>2 DEF TypeOK, PCs
  <2>5. pc'[r] = "return" /\ reply'[r] = rep
    BY <2>2 DEF TypeOK
  <2>6. InPlace(r)' /\ Summarised(r)' /\ Answered(r)'
    BY <1>1, <2>1, <2>2, <2>3, <2>5 DEF InPlace, Summarised, Answered
  <2>7. Taught(r)'
    <3>1. reply'[r].status # 415
      BY <2>3, <2>5
    <3>2. learned = acceptEncoding => learned' = acceptEncoding
      BY <2>2
    <3>3. pc'[r] # "new"
      BY <2>5
    <3> QED
      BY <1>1, <1>3, <3>1, <3>2, <3>3, Zenon DEF Taught
  <2> QED
    BY <2>4, <2>6, <2>7 DEF HandlerOK
<1>5. CASE RejectEncoding(r)
  <2> DEFINE rep == [status |-> 415, action |-> "none", advertised |-> TRUE]
             sum == Bare("reject(encoding)")
  <2>1. rep \in Replies /\ sum \in Summaries /\ sum.reason = "reject(encoding)"
        /\ sum.tokensSaved = 0
    BY BareSummary DEF Replies, Reasons
  <2>2. /\ input[r].method = "POST" /\ pc' = [pc EXCEPT ![r] = "record"]
        /\ reply' = [reply EXCEPT ![r] = rep] /\ s' = [s EXCEPT ![r] = sum]
        /\ learned' = IF ~gone[r] THEN acceptEncoding ELSE learned
        /\ UNCHANGED <<metrics, scrape, acceptCompressed>>
    BY <1>5 DEF RejectEncoding, Posted, Refuse, Respond
  <2>3. rep.status = 415 /\ rep.action = "none"
    OBVIOUS
  <2> HIDE DEF rep, sum
  <2>4. TypeOK'
    BY <1>1, <1>2, <2>1, <2>2 DEF TypeOK, PCs
  <2>5. pc'[r] = "record" /\ reply'[r] = rep /\ s'[r] = sum
    BY <2>2 DEF TypeOK
  <2>6. normalizeCoding(enc[r]) \notin acceptEncoding \cup {""}
    BY <1>5, DecodeEnds DEF RejectEncoding
  <2>7. InPlace(r)'
    BY <1>1, <2>2, <2>5 DEF InPlace
  <2>8. Summarised(r)'
    BY <1>1, <2>1, <2>2, <2>5 DEF Summarised, Succeeded
  <2>9. Answered(r)'
    <3>1. /\ pc'[r] = "record" /\ reply'[r] \in Replies /\ caller'[r] = "new"
      BY <1>1, <2>1, <2>5
    <3>3. input'[r].method = "POST"
      BY <1>1, <2>2
    <3>4. /\ reply'[r].status = 415 /\ reply'[r].action # "modify"
      BY <2>3, <2>5
    <3>5. s'[r].reason = "reject(encoding)"
      BY <2>1, <2>5
    <3>2. Refusable(r)'
      BY <1>1, <2>6, Zenon DEF Refusable
    <3> QED
      BY <3>1, <3>2, <3>3, <3>4, <3>5, Zenon DEF Answered
  <2>10. Taught(r)'
    BY <1>1, <1>3, <2>2, <2>5, <2>6 DEF Taught
  <2> QED
    BY <2>4, <2>7, <2>8, <2>9, <2>10 DEF HandlerOK
<1> QED
  BY <1>4, <1>5

\* A whole body with messages goes to the compressor.
LEMMA CallCompressKeeps ==
  ASSUME TypeOK, CompressorOK, NEW r \in Requests, HandlerOK(r), CallCompress(r)
  PROVE  TypeOK' /\ HandlerOK(r)'
<1>1. /\ pc[r] = "read" /\ input[r].method = "POST" /\ reply[r] = Null
      /\ input[r] \in Calls /\ enc[r] \in Headers
  BY DEF CallCompress, Decoded, Posted, HandlerOK, InPlace, Answered
<1>2. Fits(r)
  BY <1>1, ParsedFits DEF CallCompress
<1>3. caller'[r] # "new"
  BY CallKeeps DEF CallCompress
<1>4. /\ pc' = [pc EXCEPT ![r] = "compress"]
      /\ input' = input /\ enc' = enc /\ s' = s /\ reply' = reply /\ gone' = gone
      /\ tries' = tries /\ acceptCompressed' = acceptCompressed /\ learned' = learned
      /\ metrics' = metrics /\ scrape' = scrape
  BY DEF CallCompress, clientVars
<1>5. TypeOK' /\ pc'[r] = "compress"
  BY <1>4 DEF TypeOK, PCs
<1>6. Fits(r)'
  BY <1>2, <1>4 DEF Fits, normalizeCoding
<1>7. InPlace(r)' /\ Summarised(r)' /\ Answered(r)'
  BY <1>1, <1>3, <1>4, <1>5, <1>6 DEF InPlace, Summarised, Answered
<1>8. Taught(r)'
  <2>1. Taught(r) /\ pc'[r] # "new"
    BY <1>5 DEF HandlerOK
  <2> QED
    BY <1>4, <2>1, Zenon DEF Taught
<1> QED
  BY <1>5, <1>7, <1>8 DEF HandlerOK

\* The response is written.
LEMMA WriteKeeps ==
  ASSUME TypeOK, CompressorOK, NEW r \in Requests, HandlerOK(r), writeHookResponse(r)
  PROVE  TypeOK' /\ HandlerOK(r)'
<1> DEFINE action == IF s[r].reason = "modify" THEN "modify" ELSE "allow"
           rep == [status |-> 200, action |-> action, advertised |-> acceptCompressed]
<1>1. /\ pc[r] = "write" /\ pc' = [pc EXCEPT ![r] = "record"]
      /\ reply' = [reply EXCEPT ![r] = rep] /\ learned' \in {learned, acceptEncoding}
      /\ input' = input /\ enc' = enc /\ s' = s /\ gone' = gone /\ tries' = tries
      /\ acceptCompressed' = acceptCompressed /\ metrics' = metrics /\ scrape' = scrape
      /\ caller' = caller /\ answer' = answer
  BY DEF writeHookResponse, Respond, compVars
<1>2. /\ rep \in Replies /\ rep.status = 200 /\ rep.action \in {"modify", "allow"}
      /\ rep.action = "modify" <=> s[r].reason = "modify"
  BY DEF TypeOK, Replies
<1> HIDE DEF rep
<1>3. acceptEncoding \in SUBSET Range(Lower)
  BY AcceptEncodingIs, LowerIs
<1>4. TypeOK' /\ pc'[r] = "record" /\ reply'[r] = rep
  BY <1>1, <1>2, <1>3 DEF TypeOK, PCs
<1>5. /\ input[r] \in Calls /\ enc[r] \in Headers /\ input[r].method = "POST"
      /\ caller[r] # "waiting"
  BY <1>1 DEF HandlerOK, InPlace
<1>6. InPlace(r)'
  BY <1>1, <1>4, <1>5 DEF InPlace
<1>7. Summarised(r)
  BY DEF HandlerOK
<1>8. Summarised(r)'
  BY <1>1, <1>4, <1>5, <1>7 DEF Summarised, Succeeded
<1>9. s'[r].reason # "reject(encoding)" /\ s' = s
  BY <1>1, <1>5, <1>7 DEF Summarised
<1>10. Answered(r)'
  <2>1. /\ pc'[r] = "record" /\ reply'[r] \in Replies
        /\ reply'[r].action \in {"modify", "allow"}
        /\ reply'[r].action = "modify" <=> s'[r].reason = "modify"
    BY <1>2, <1>4, <1>9
  <2>2. reply'[r].status = 200 /\ reply'[r].status # 415
    BY <1>2, <1>4
  <2> QED
    BY <1>9, <2>1, <2>2, Zenon DEF Answered
<1>11. Taught(r)'
  <2>1. reply'[r].status # 415 /\ pc'[r] # "new"
    BY <1>2, <1>4
  <2>2. learned = acceptEncoding => learned' = acceptEncoding
    BY <1>1
  <2>3. Taught(r)
    BY DEF HandlerOK
  <2> QED
    BY <1>1, <2>1, <2>2, <2>3, Zenon DEF Taught
<1> QED
  BY <1>4, <1>6, <1>8, <1>10, <1>11 DEF HandlerOK

\* The call is counted, and ServeHTTP returns.
LEMMA ReturnKeeps ==
  ASSUME TypeOK, CompressorOK, NEW r \in Requests, HandlerOK(r), Record(r) \/ Return(r)
  PROVE  TypeOK' /\ HandlerOK(r)'
<1>1. /\ \/ pc[r] = "record" /\ pc' = [pc EXCEPT ![r] = "return"]
         \/ pc[r] = "return" /\ pc' = [pc EXCEPT ![r] = "done"]
      /\ input' = input /\ enc' = enc /\ s' = s /\ reply' = reply /\ gone' = gone
      /\ tries' = tries /\ acceptCompressed' = acceptCompressed /\ learned' = learned
      /\ scrape' = scrape /\ caller' = caller /\ answer' = answer
  BY DEF Record, Return, compVars, clientVars
<1>2. metrics' \in MetricsType
  <2>1. CASE Record(r)
    <3>1. s[r] \in Summaries
      BY <2>1 DEF Record, HandlerOK, InPlace, Summarised
    <3> QED
      BY <2>1, <3>1, RecordFields DEF Record, Counted, TypeOK
  <2>2. CASE Return(r)
    BY <2>2, InboundType DEF Return, TypeOK
  <2> QED
    BY <2>1, <2>2
<1>3. /\ TypeOK'
      /\ \/ pc[r] = "record" /\ pc'[r] = "return"
         \/ pc[r] = "return" /\ pc'[r] = "done"
  BY <1>1, <1>2 DEF TypeOK, PCs
<1>4. InPlace(r)'
  BY <1>1, <1>3 DEF HandlerOK, InPlace
<1>5. Summarised(r)'
  BY <1>1, <1>3 DEF HandlerOK, Summarised, Succeeded
<1>6. Answered(r)'
  <2>1. Answered(r) /\ (pc[r] = "record" => input[r].method = "POST")
    BY DEF HandlerOK, InPlace
  <2>2. Refusable(r)' <=> Refusable(r)
    BY <1>1 DEF Refusable
  <2> QED
    BY <1>1, <1>3, <2>1, <2>2, Zenon DEF Answered
<1>7. Taught(r)'
  <2>1. Taught(r)
    BY DEF HandlerOK
  <2> QED
    BY <1>1, <1>3, <2>1, Zenon DEF Taught
<1> QED
  BY <1>3, <1>4, <1>5, <1>6, <1>7 DEF HandlerOK

-----------------------------------------------------------------------------
(* The steps of Next.                                                      *)

\* A step of one handler, or the arrival of its call.
LEMMA HandlerKeeps ==
  ASSUME HookInv, NEW r \in Requests, Arrive(r) \/ Retry(r) \/ HandlerNext(r)
  PROVE  HookInv'
<1>1. TypeOK /\ CompressorOK /\ HandlerOK(r)
  BY DEF HookInv
<1>2. TypeOK' /\ HandlerOK(r)'
  BY <1>1, ArriveKeeps, RetryKeeps, EarlyDecisionKeeps, LateDecisionKeeps, RefusalKeeps,
     CallCompressKeeps, WriteKeeps, ReturnKeeps DEF HandlerNext
<1>3. CompressorOK'
  <2>1. CASE CallCompress(r)
    BY <1>1, <2>1, CallKeeps DEF CallCompress
  <2>2. CASE ~CallCompress(r)
    <3>1. UNCHANGED compVars
      BY <2>2 DEF Arrive, Retry, HandlerNext, RejectMethod, ReadFails, RejectEncoding,
         DecodeFails, Passthrough, CompressFails, CompressReturns, Decide, writeHookResponse,
         Record, Return
    <3> QED
      BY <1>1, <3>1, CompressorIdle
  <2> QED
    BY <2>1, <2>2
<1>4. ASSUME NEW q \in Requests \ {r} PROVE HandlerOK(q)'
  <2>1. StandsStill(q) /\ HandlerOK(q)
    BY <1>1, OthersStand DEF HookInv
  <2> QED
    BY <1>1, <2>1, StandingStill
<1> QED
  BY <1>2, <1>3, <1>4 DEF HookInv

\* A step in which every handler stands still.
LEMMA StillKeeps ==
  ASSUME HookInv, TypeOK', CompressorOK', \A q \in Requests : StandsStill(q)
  PROVE  HookInv'
BY StandingStill DEF HookInv

\* The compressor works, or a client hangs up: the handlers stand still.
LEMMA ServingStands ==
  ASSUME TypeOK, CompressorOK, NEW r \in Requests, Compressing(r) \/ HangUp(r)
  PROVE  TypeOK' /\ CompressorOK' /\ \A q \in Requests : StandsStill(q)
<1>1. CASE Compressing(r)
  <2>1. CompressorOK' /\ \A q \in Requests : Served(q)
    BY <1>1, CompressingKeeps
  <2>2. TypeOK' /\ UNCHANGED <<handlerVars, clientVars>>
    BY <1>1 DEF Compressing, TypeOK, handlerVars, clientVars
  <2>3. \A q \in Requests : StandsStill(q)
    BY <2>1, <2>2 DEF StandsStill, handlerVars, clientVars
  <2> QED
    BY <2>1, <2>2, <2>3
<1>2. CASE HangUp(r)
  <2>1. CompressorOK' /\ \A q \in Requests : Served(q)
    BY <1>2, CompressorIdle DEF HangUp
  <2>2. TypeOK'
    BY <1>2 DEF HangUp, TypeOK, clientVars
  <2>3. \A q \in Requests : StandsStill(q)
    BY <1>2, <2>1 DEF HangUp, StandsStill, TypeOK, clientVars
  <2> QED
    BY <2>1, <2>2, <2>3
<1> QED
  BY <1>1, <1>2

\* The invariant is kept while they do.
LEMMA ServingKeeps ==
  ASSUME HookInv, NEW r \in Requests, Compressing(r) \/ HangUp(r)
  PROVE  HookInv'
<1>1. TypeOK /\ CompressorOK
  BY DEF HookInv
<1>2. TypeOK' /\ CompressorOK' /\ \A q \in Requests : StandsStill(q)
  BY <1>1, ServingStands
<1> QED
  BY <1>2, StillKeeps

\* The handlers' variables, the client's and the compressor's are unchanged.
LEMMA QuietKeeps ==
  ASSUME HookInv, UNCHANGED <<handlerVars, clientVars, metrics, compVars>>,
         scrape' \in [at : {"idle", "pool"}, balanced : BOOLEAN]
  PROVE  HookInv'
<1>1. CompressorOK' /\ \A q \in Requests : Served(q)
  BY CompressorIdle DEF HookInv
<1>2. TypeOK'
  BY DEF HookInv, TypeOK, handlerVars, clientVars
<1>3. \A q \in Requests : StandsStill(q)
  BY <1>1 DEF StandsStill, handlerVars, clientVars
<1> QED
  BY <1>1, <1>2, <1>3, StillKeeps

\* Nothing has arrived yet.
LEMMA HookInvInit ==
  ASSUME Init
  PROVE  HookInv
<1>1. TypeOK
  <2>1. learned \in SUBSET Range(Lower) /\ MaxRetries \in Nat
    BY HookAssumption, Zenon DEF Init
  <2> QED
    BY <2>1, NewMetricsType DEF Init, TypeOK, PCs
<1>2. CompressorOK
  BY DEF Init, C!Init, CompressorOK, Answers
<1>3. ASSUME NEW r \in Requests PROVE HandlerOK(r)
  BY DEF Init, C!Init, HandlerOK, InPlace, Summarised, Answered, Taught
<1> QED
  BY <1>1, <1>2, <1>3 DEF HookInv

\* Every step of Next keeps the invariant.
LEMMA HookInvStep ==
  ASSUME HookInv, [Next]_vars
  PROVE  HookInv'
<1>1. ASSUME NEW r \in Requests, Arrive(r) \/ Retry(r) PROVE HookInv'
  BY <1>1, HandlerKeeps
<1>2. CASE Serving
  BY <1>2, HandlerKeeps, ServingKeeps DEF Serving
<1>3. CASE ScrapeCounters \/ ScrapePool
  <2>1. PICK b \in BOOLEAN : \/ scrape' = [at |-> "pool", balanced |-> b]
                            \/ scrape' = [at |-> "idle", balanced |-> b]
    <3>1. Balanced(metrics) \in BOOLEAN
      BY DEF Balanced
    <3> QED
      BY <1>3, <3>1 DEF ScrapeCounters, ScrapePool
  <2>2. scrape' \in [at : {"idle", "pool"}, balanced : BOOLEAN]
    BY <2>1
  <2> QED
    BY <1>3, <2>2, QuietKeeps DEF ScrapeCounters, ScrapePool
<1>4. CASE UNCHANGED vars
  BY <1>4, QuietKeeps DEF vars, HookInv, TypeOK
<1> QED
  BY <1>1, <1>2, <1>3, <1>4 DEF Next

-----------------------------------------------------------------------------
(* What follows from the invariant.                                        *)

\* The inductive invariant holds.
THEOREM HookInvariant == Spec => []HookInv
<1>1. Init => HookInv
  BY HookInvInit
<1>2. HookInv /\ [Next]_vars => HookInv'
  BY HookInvStep
<1> QED
  BY <1>1, <1>2, PTL DEF Spec

\* The variables keep to their types.
THEOREM HookTypeCorrect == Spec => []TypeOK
<1>1. HookInv => TypeOK
  BY DEF HookInv
<1> QED
  BY <1>1, HookInvariant, PTL

\* A POST that is not refused for its coding is allowed or modified.
LEMMA InvNeverBreaks == HookInv => NeverBreaks
<1> SUFFICES ASSUME HookInv, NEW r \in Requests, reply[r] # Null, input[r].method = "POST"
             PROVE  /\ reply[r].action = "modify" =>
                         /\ answer[r] = "ok" /\ job[r] = "settled" /\ result[r] = "ok"
                         /\ input[r].yields.messages # "absent" /\ input[r].yields.tokensSaved > 0
                    /\ normalizeCoding(enc[r]) \in acceptEncoding \cup {""} =>
                         reply[r].status = 200 /\ reply[r].action \in {"allow", "modify"}
  BY DEF NeverBreaks
<1>1. InPlace(r) /\ Summarised(r) /\ Answered(r) /\ CompressorOK /\ pc[r] \in PCs
  BY DEF HookInv, HandlerOK, TypeOK
<1>2. pc[r] \in {"record", "return", "done"}
  BY <1>1 DEF Answered, PCs
<1>3. ASSUME normalizeCoding(enc[r]) \in acceptEncoding \cup {""}
      PROVE  reply[r].status = 200 /\ reply[r].action \in {"allow", "modify"}
  <2>1. reply[r].status # 415
    BY <1>1, <1>2, <1>3, Zenon DEF Answered, Refusable
  <2> QED
    BY <1>1, <1>2, <2>1, Zenon DEF Answered
<1>4. ASSUME reply[r].action = "modify"
      PROVE  /\ answer[r] = "ok" /\ job[r] = "settled" /\ result[r] = "ok"
             /\ input[r].yields.messages # "absent" /\ input[r].yields.tokensSaved > 0
  <2>1. s[r].reason = "modify"
    BY <1>1, <1>2, <1>4 DEF Answered
  <2>2. Succeeded(r) /\ Worthwhile(input[r].yields)
    BY <1>1, <1>2, <2>1 DEF Summarised
  <2> QED
    BY <1>1, <2>2 DEF Succeeded, Worthwhile, CompressorOK
<1> QED
  BY <1>3, <1>4

\* "It can never break a user's request" (handler.go:82-84): whatever arrives,
\* in whatever order requests, workers and clients take their steps, a body is
\* replaced only by the outcome of its own finished compression, and a POST in
\* an accepted coding is answered 200 with allow or modify.
THEOREM RequestsNeverBreak == Spec => []NeverBreaks
BY InvNeverBreaks, HookInvariant, PTL

\* A body that was read reaches the compressor if and only if it is whole,
\* within the ceiling and holds messages, for every ceiling (encoding.go:106-131).
THEOREM WholeBodiesOnly == Spec => []OnlyWholeBodies
<1>1. HookInv => OnlyWholeBodies
  BY DEF HookInv, HandlerOK, InPlace, Fits, OnlyWholeBodies
<1> QED
  BY <1>1, HookInvariant, PTL

\* No call is refused for its coding a second time (handler.go:174-182).
THEOREM RefusedOnce == Spec => []DowngradeOnce
<1>1. HookInv => DowngradeOnce
  <2> SUFFICES ASSUME HookInv, NEW r \in Requests, tries[r] > 0
               PROVE  reply[r] = Null \/ reply[r].status # 415
    BY DEF DowngradeOnce
  <2>1. tries[r] # 0 /\ Taught(r)
    BY DEF HookInv, HandlerOK
  <2> QED
    BY <2>1, Zenon DEF Taught
<1> QED
  BY <1>1, HookInvariant, PTL
=============================================================================
