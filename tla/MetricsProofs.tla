---------------------------- MODULE MetricsProofs ---------------------------
(* Proofs that the counters tell what the handlers did, for every set of   *)
(* requests: each of them is counted once, and what a scrape reads         *)
(* balances.                                                               *)
EXTENDS HookProofs, SumProofs

-----------------------------------------------------------------------------
(* What is counted.                                                        *)

Done == {r \in Requests : pc[r] = "done"}
Rejected == {r \in Recorded : reply[r].status = 415}
Modified == {r \in Recorded : reply[r].action = "modify"}
Failed == {r \in Recorded : caller[r] = "returned" /\ answer[r] # "ok"}
Saved(r) == IF answer[r] = "ok" THEN input[r].yields.tokensSaved ELSE 0
SavedBy == [r \in Recorded |-> Saved(r)]

MetricsInv ==
  /\ HookInv
  /\ AnswersAreCounted
  /\ Balanced(metrics)
  /\ ScrapeIsOneMoment

\* AnswersAreCounted in these words.
LEMMA CountedIs ==
  AnswersAreCounted <=>
    /\ metrics.inboundActive = Cardinality(Active)
    /\ metrics.inboundCompleted = Cardinality(Done) + SumFunction(tries)
    /\ metrics.requestsTotal = Cardinality(Recorded) + SumFunction(tries)
    /\ metrics.byOutcome["reject_encoding"] = Cardinality(Rejected) + SumFunction(tries)
    /\ metrics.byOutcome["modify"] = Cardinality(Modified)
    /\ metrics.requestsFailed = Cardinality(Failed)
    /\ metrics.tokensSaved = SumFunction(SavedBy)
BY DEF AnswersAreCounted, Done, Rejected, Modified, Failed, SavedBy, Saved

\* The same after a step.
LEMMA CountedIsNext ==
  AnswersAreCounted' <=>
    /\ metrics'.inboundActive = Cardinality(Active')
    /\ metrics'.inboundCompleted = Cardinality(Done') + SumFunction(tries')
    /\ metrics'.requestsTotal = Cardinality(Recorded') + SumFunction(tries')
    /\ metrics'.byOutcome["reject_encoding"] = Cardinality(Rejected') + SumFunction(tries')
    /\ metrics'.byOutcome["modify"] = Cardinality(Modified')
    /\ metrics'.requestsFailed = Cardinality(Failed')
    /\ metrics'.tokensSaved = SumFunction(SavedBy')
BY DEF AnswersAreCounted, Done, Rejected, Modified, Failed, SavedBy, Saved

\* The sets of requests are finite.
LEMMA Finite ==
  /\ IsFiniteSet(Active) /\ IsFiniteSet(Done) /\ IsFiniteSet(Recorded)
  /\ IsFiniteSet(Rejected) /\ IsFiniteSet(Modified) /\ IsFiniteSet(Failed)
<1>1. IsFiniteSet(Requests)
  BY FinitelyMany
<1>2. ASSUME NEW T \in SUBSET Requests PROVE IsFiniteSet(T)
  BY <1>1, FS_Subset
<1>3. /\ Active \in SUBSET Requests /\ Done \in SUBSET Requests /\ Recorded \in SUBSET Requests
      /\ Rejected \in SUBSET Requests /\ Modified \in SUBSET Requests
      /\ Failed \in SUBSET Requests
  BY DEF Active, Done, Recorded, Rejected, Modified, Failed
<1> QED
  BY <1>2, <1>3

\* So are those of outcomes and labels.
LEMMA FiniteLabels == IsFiniteSet(Outcomes) /\ IsFiniteSet(LabelsOut)
<1>1. IsFiniteSet(Outcomes)
  <2> DEFINE A == {"modify", "noop", "error"}
             B == {"read_error", "decode_error", "reject_encoding"}
  <2>1. \A a, b, c : IsFiniteSet({a, b, c})
    <3> TAKE a, b, c
    <3>1. IsFiniteSet({a}) /\ {a, b, c} = ({a} \cup {b}) \cup {c}
      BY FS_Singleton
    <3>2. IsFiniteSet({a} \cup {b})
      BY <3>1, FS_AddElement
    <3>3. IsFiniteSet(({a} \cup {b}) \cup {c})
      BY <3>2, FS_AddElement
    <3> QED
      BY <3>1, <3>3
  <2>2. Outcomes = (A \cup B) \cup {"passthrough"}
    BY DEF Outcomes
  <2>3. IsFiniteSet(A) /\ IsFiniteSet(B)
    BY <2>1
  <2> HIDE DEF A, B
  <2> QED
    BY <2>2, <2>3, FS_Union, FS_AddElement
<1>2. IsFiniteSet(LabelsOut)
  <2> DEFINE f == [v \in Labels |-> labelOrUnknown(v)]
  <2>1. f \in Surjection(Labels, LabelsOut)
    BY DEF Surjection, LabelsOut
  <2> HIDE DEF f
  <2> QED
    BY <2>1, FinitelyMany, FS_Surjection
<1> QED
  BY <1>1, <1>2

-----------------------------------------------------------------------------
(* Steps that nothing is counted in.                                       *)

\* Who is active, done and recorded stays as it is, and so does what the
\* recorded ones were answered.
SameCounts ==
  /\ metrics' = metrics /\ tries' = tries
  /\ Active' = Active /\ Done' = Done /\ Recorded' = Recorded
  /\ \A r \in Recorded : /\ input'[r] = input[r] /\ reply'[r] = reply[r]
                         /\ caller'[r] = caller[r] /\ answer'[r] = answer[r]

\* Then the counts are right if they were.
LEMMA SameCountsKeeps ==
  ASSUME AnswersAreCounted, SameCounts
  PROVE  AnswersAreCounted'
<1>1. Rejected' = Rejected /\ Modified' = Modified /\ Failed' = Failed
  BY DEF SameCounts, Rejected, Modified, Failed
<1>2. SavedBy' = SavedBy
  BY DEF SameCounts, SavedBy, Saved
<1> QED
  BY <1>1, <1>2, CountedIs, CountedIsNext DEF SameCounts

\* A request that stands still keeps its place in the counts.
LEMMA StillCounts ==
  ASSUME HookInv, NEW r \in Requests, StandsStill(r)
  PROVE  /\ pc'[r] = pc[r] /\ input'[r] = input[r] /\ reply'[r] = reply[r]
         /\ r \in Recorded => caller'[r] = caller[r] /\ answer'[r] = answer[r]
<1>1. r \in Recorded => caller[r] # "waiting"
  BY DEF HookInv, HandlerOK, InPlace, Recorded
<1> QED
  BY <1>1 DEF StandsStill, Served

\* Every handler stands still.
LEMMA AllStillCounts ==
  ASSUME HookInv, AnswersAreCounted, metrics' = metrics, tries' = tries,
         \A r \in Requests : StandsStill(r)
  PROVE  AnswersAreCounted'
<1>1. \A r \in Requests : /\ pc'[r] = pc[r] /\ input'[r] = input[r] /\ reply'[r] = reply[r]
                          /\ r \in Recorded => caller'[r] = caller[r] /\ answer'[r] = answer[r]
  BY StillCounts
<1>2. SameCounts
  BY <1>1 DEF SameCounts, Active, Done, Recorded
<1> QED
  BY <1>2, SameCountsKeeps

\* A handler goes on, until it is to be counted.
LEMMA UncountedKeeps ==
  ASSUME HookInv, AnswersAreCounted, NEW r \in Requests, HandlerNext(r),
         ~Record(r), ~Return(r)
  PROVE  AnswersAreCounted' /\ metrics' = metrics
<1>1. TypeOK /\ CompressorOK
  BY DEF HookInv
<1>2. /\ pc[r] \in {"read", "compress", "write"}
      /\ pc'[r] \in {"compress", "write", "record"} \/ (pc'[r] = "return" /\ input[r].method # "POST")
      /\ input' = input /\ metrics' = metrics /\ tries' = tries
  <2>1. ASSUME NEW sum, Decide(r, sum), pc[r] \in {"read", "compress"}
        PROVE  /\ pc'[r] = "write"
               /\ input' = input /\ metrics' = metrics /\ tries' = tries
    BY <1>1, <2>1 DEF Decide, TypeOK
  <2>2. CASE ReadFails(r) \/ DecodeFails(r) \/ Passthrough(r) \/ CompressFails(r)
          \/ CompressReturns(r)
    BY <2>1, <2>2 DEF ReadFails, DecodeFails, Passthrough, CompressFails, CompressReturns, Decoded,
       Posted
  <2>3. CASE RejectMethod(r) \/ RejectEncoding(r) \/ CallCompress(r) \/ writeHookResponse(r)
    BY <1>1, <2>3 DEF RejectMethod, RejectEncoding, CallCompress, writeHookResponse, Decoded, Posted,
       TypeOK
  <2> QED
    BY <2>2, <2>3 DEF HandlerNext
<1>3. ASSUME NEW q \in Requests, q # r
      PROVE  /\ pc'[q] = pc[q] /\ input'[q] = input[q] /\ reply'[q] = reply[q]
             /\ q \in Recorded => caller'[q] = caller[q] /\ answer'[q] = answer[q]
  <2>1. StandsStill(q)
    BY <1>1, <1>3, OthersStand
  <2> QED
    BY <2>1, StillCounts
<1>4. Active' = Active /\ Done' = Done /\ Recorded' = Recorded /\ r \notin Recorded
  BY <1>2, <1>3 DEF Active, Done, Recorded
<1>5. SameCounts
  <2>1. \A q \in Recorded : q \in Requests /\ q # r
    BY <1>4 DEF Recorded
  <2> QED
    BY <1>2, <1>3, <1>4, <2>1 DEF SameCounts
<1> QED
  BY <1>2, <1>5, SameCountsKeeps

-----------------------------------------------------------------------------
(* Steps that something is counted in.                                     *)

\* The sizes of the sets are natural numbers, and the number of retries and
\* the tokens saved are integers.
LEMMA CountTypes ==
  ASSUME HookInv
  PROVE  /\ Cardinality(Active) \in Nat /\ Cardinality(Done) \in Nat
         /\ Cardinality(Recorded) \in Nat /\ Cardinality(Rejected) \in Nat
         /\ Cardinality(Modified) \in Nat /\ Cardinality(Failed) \in Nat
         /\ tries \in [Requests -> Int] /\ SumFunction(tries) \in Int
         /\ metrics \in MetricsType
<1>1. tries \in [Requests -> Int]
  <2>1. tries \in [Requests -> 0..MaxRetries] /\ MaxRetries \in Nat
    BY HookAssumption DEF HookInv, TypeOK
  <2> QED
    BY <2>1
<1>2. SumFunction(tries) \in Int
  <2>1. IsFiniteSet(Requests) /\ DOMAIN tries = Requests /\ Requests \in SUBSET Requests
    BY <1>1, FinitelyMany
  <2> QED
    BY <1>1, <2>1, SumType DEF SumFunction
<1>3. metrics \in MetricsType
  BY DEF HookInv, TypeOK
<1> QED
  BY <1>1, <1>2, <1>3, Finite, FS_CardinalityType

\* What a recorded call has saved.
LEMMA SavedIsInt ==
  ASSUME HookInv, NEW r \in Recorded
  PROVE  Saved(r) \in Int
<1>1. r \in Requests /\ pc[r] \in {"return", "done"}
  BY DEF Recorded
<1>2. input[r] \in Calls
  BY <1>1 DEF HookInv, HandlerOK, InPlace
<1> QED
  BY <1>2 DEF Saved, Calls, Results

\* Which fields a request that comes in or goes changes.
LEMMA InboundFields ==
  ASSUME NEW m \in MetricsType
  PROVE  /\ inboundStart(m).inboundTotal = m.inboundTotal + 1
         /\ inboundStart(m).inboundActive = m.inboundActive + 1
         /\ inboundStart(m).inboundCompleted = m.inboundCompleted
         /\ inboundDone(m).inboundTotal = m.inboundTotal
         /\ inboundDone(m).inboundActive =
              IF m.inboundActive > 0 THEN m.inboundActive - 1 ELSE m.inboundActive
         /\ inboundDone(m).inboundCompleted = m.inboundCompleted + 1
         /\ \A n \in {inboundStart(m), inboundDone(m)} :
              /\ n.requestsTotal = m.requestsTotal /\ n.requestsFailed = m.requestsFailed
              /\ n.byOutcome = m.byOutcome /\ n.byProvider = m.byProvider
              /\ n.byModel = m.byModel /\ n.tokensSaved = m.tokensSaved
BY Zenon DEF inboundStart, inboundDone, MetricsType

\* A request comes in.
LEMMA ArriveCounts ==
  ASSUME HookInv, AnswersAreCounted, NEW r \in Requests, Arrive(r)
  PROVE  AnswersAreCounted'
<1>1. TypeOK /\ CompressorOK /\ metrics \in MetricsType
  BY DEF HookInv, TypeOK
<1>2. /\ pc[r] = "new" /\ pc' = [pc EXCEPT ![r] = "read"] /\ metrics' = inboundStart(metrics)
      /\ tries' = tries /\ reply' = reply /\ caller' = caller /\ answer' = answer
      /\ \A q \in Requests : q # r => input'[q] = input[q]
  BY <1>1 DEF Arrive, compVars, TypeOK
<1>3. Active' = Active \cup {r} /\ r \notin Active /\ Done' = Done /\ Recorded' = Recorded
  BY <1>1, <1>2 DEF Active, Done, Recorded, TypeOK
<1>4. \A q \in Recorded : q \in Requests /\ q # r
  BY <1>2 DEF Recorded
<1>5. Rejected' = Rejected /\ Modified' = Modified /\ Failed' = Failed
  BY <1>2, <1>3 DEF Rejected, Modified, Failed
<1>6. SavedBy' = SavedBy
  BY <1>2, <1>3, <1>4 DEF SavedBy, Saved
<1>7. Cardinality(Active') = Cardinality(Active) + 1
  BY <1>3, Finite, FS_AddElement
<1>8. /\ metrics'.inboundActive = metrics.inboundActive + 1
      /\ metrics'.inboundCompleted = metrics.inboundCompleted
      /\ metrics'.requestsTotal = metrics.requestsTotal
      /\ metrics'.requestsFailed = metrics.requestsFailed
      /\ metrics'.byOutcome = metrics.byOutcome /\ metrics'.tokensSaved = metrics.tokensSaved
  BY <1>1, <1>2, InboundFields
<1> QED
  BY <1>2, <1>3, <1>5, <1>6, <1>7, <1>8, CountedIs, CountedIsNext

\* ServeHTTP returns.
LEMMA ReturnCounts ==
  ASSUME HookInv, AnswersAreCounted, NEW r \in Requests, Return(r)
  PROVE  AnswersAreCounted' /\ metrics.inboundActive > 0
<1>1. TypeOK /\ CompressorOK /\ metrics \in MetricsType
  BY DEF HookInv, TypeOK
<1>2. /\ pc[r] = "return" /\ pc' = [pc EXCEPT ![r] = "done"] /\ metrics' = inboundDone(metrics)
      /\ tries' = tries /\ reply' = reply /\ caller' = caller /\ answer' = answer
      /\ input' = input
  BY DEF Return, compVars
<1>3. /\ Active' = Active \ {r} /\ r \in Active
      /\ Done' = Done \cup {r} /\ r \notin Done
      /\ Recorded' = Recorded
  BY <1>1, <1>2 DEF Active, Done, Recorded, TypeOK
<1>4. Rejected' = Rejected /\ Modified' = Modified /\ Failed' = Failed /\ SavedBy' = SavedBy
  BY <1>2, <1>3 DEF Rejected, Modified, Failed, SavedBy, Saved
<1>5. Cardinality(Active') = Cardinality(Active) - 1 /\ Cardinality(Active) > 0
  <2>1. Cardinality(Active) # 0
    BY <1>3, Finite, FS_EmptySet
  <2>2. Cardinality(Active \ {r}) = Cardinality(Active) - 1
    BY <1>3, Finite, FS_RemoveElement
  <2>3. Cardinality(Active) \in Nat
    BY CountTypes
  <2> QED
    BY <1>3, <2>1, <2>2, <2>3
<1>6. Cardinality(Done') = Cardinality(Done) + 1
  BY <1>3, Finite, FS_AddElement
<1>7. metrics.inboundActive = Cardinality(Active) /\ metrics.inboundActive > 0
  BY <1>5, CountedIs
<1>8. /\ metrics'.inboundActive = metrics.inboundActive - 1
      /\ metrics'.inboundCompleted = metrics.inboundCompleted + 1
      /\ metrics'.requestsTotal = metrics.requestsTotal
      /\ metrics'.requestsFailed = metrics.requestsFailed
      /\ metrics'.byOutcome = metrics.byOutcome /\ metrics'.tokensSaved = metrics.tokensSaved
  BY <1>1, <1>2, <1>7, InboundFields
<1>9. metrics'.inboundCompleted = Cardinality(Done') + SumFunction(tries')
  BY <1>2, <1>6, <1>8, CountTypes, CountedIs
<1> QED
  BY <1>2, <1>3, <1>4, <1>5, <1>7, <1>8, <1>9, CountedIs, CountedIsNext

\* A call that was refused is sent again: what the first try was counted as
\* is counted among the retries from now on.
LEMMA RetryCounts ==
  ASSUME HookInv, AnswersAreCounted, NEW r \in Requests, Retry(r)
  PROVE  AnswersAreCounted'
<1>1. TypeOK /\ CompressorOK /\ metrics \in MetricsType
  BY DEF HookInv, TypeOK
<1>2. /\ pc[r] = "done" /\ pc' = [pc EXCEPT ![r] = "read"] /\ metrics' = inboundStart(metrics)
      /\ reply[r] # Null /\ reply[r].status = 415
      /\ reply' = [reply EXCEPT ![r] = Null] /\ caller' = caller /\ answer' = answer
      /\ input' = input /\ tries' = [tries EXCEPT ![r] = tries[r] + 1]
  BY <1>1 DEF Retry, compVars, TypeOK
<1>3. /\ input[r].method = "POST" /\ reply[r].action # "modify" /\ caller[r] = "new"
      /\ answer[r] # "ok"
  <2>1. Answered(r) /\ Summarised(r)
    BY DEF HookInv, HandlerOK
  <2>2. input[r].method = "POST"
    BY <1>2, <2>1 DEF Answered
  <2>3. s[r].reason = "reject(encoding)" /\ caller[r] = "new"
    BY <1>2, <2>1, <2>2 DEF Answered
  <2>4. reply[r].action # "modify"
    BY <1>2, <2>1, <2>2, <2>3 DEF Answered
  <2>5. answer[r] = Null /\ Null # "ok"
    BY <1>1, <2>3, HookAssumption DEF CompressorOK
  <2> QED
    BY <2>2, <2>3, <2>4, <2>5
<1>4. /\ Active' = Active \cup {r} /\ r \notin Active
      /\ Done' = Done \ {r} /\ r \in Done
      /\ Recorded' = Recorded \ {r} /\ r \in Recorded
  BY <1>1, <1>2, <1>3 DEF Active, Done, Recorded, TypeOK
<1>5. \A q \in Recorded' : reply'[q] = reply[q] /\ q # r /\ q \in Recorded
  BY <1>1, <1>2, <1>4 DEF TypeOK, Recorded
<1>6. Rejected' = Rejected \ {r} /\ r \in Rejected /\ Modified' = Modified /\ Failed' = Failed
  <2>1. Rejected' = Rejected \ {r} /\ r \in Rejected
    BY <1>2, <1>4, <1>5 DEF Rejected
  <2>2. Modified' = Modified
    BY <1>3, <1>4, <1>5 DEF Modified
  <2>3. Failed' = Failed
    BY <1>2, <1>3, <1>4 DEF Failed
  <2> QED
    BY <2>1, <2>2, <2>3
<1>7. SumFunction(SavedBy') = SumFunction(SavedBy)
  <2> DEFINE S == Recorded \ {r}
  <2>1. IsFiniteSet(S) /\ S \cup {r} = Recorded /\ r \notin S
    BY <1>4, Finite, FS_RemoveElement
  <2>2. SavedBy \in [S \cup {r} -> Int] /\ SavedBy[r] = 0
    BY <1>3, <1>4, <2>1, SavedIsInt DEF SavedBy, Saved
  <2>3. SavedBy' = [q \in S |-> SavedBy[q]]
    BY <1>2, <1>4 DEF SavedBy, Saved
  <2>4. SumFunction(SavedBy') \in Int /\ SumFunction(SavedBy) = SumFunction(SavedBy') + SavedBy[r]
    <3> HIDE DEF S
    <3> QED
      BY <2>1, <2>2, <2>3, SumGrows
  <2> QED
    BY <2>2, <2>4
<1>8. SumFunction(tries') = SumFunction(tries) + 1
  <2>1. IsFiniteSet(Requests) /\ tries \in [Requests -> Int] /\ SumFunction(tries) \in Int
    BY FinitelyMany, CountTypes
  <2>2. PICK v \in Int : v = tries[r] + 1 /\ tries[r] \in Int
    BY <2>1
  <2>3. tries' = [tries EXCEPT ![r] = v]
    BY <1>2, <2>2
  <2>4. SumFunction(tries') = SumFunction(tries) + v - tries[r]
    BY <2>1, <2>3, SumChanges
  <2> QED
    BY <2>1, <2>2, <2>4
<1>9. /\ Cardinality(Active') = Cardinality(Active) + 1
      /\ Cardinality(Done') = Cardinality(Done) - 1
      /\ Cardinality(Recorded') = Cardinality(Recorded) - 1
      /\ Cardinality(Rejected') = Cardinality(Rejected) - 1
  BY <1>4, <1>6, Finite, FS_AddElement, FS_RemoveElement
<1>10. /\ metrics'.inboundActive = metrics.inboundActive + 1
       /\ metrics'.inboundCompleted = metrics.inboundCompleted
       /\ metrics'.requestsTotal = metrics.requestsTotal
       /\ metrics'.requestsFailed = metrics.requestsFailed
       /\ metrics'.byOutcome = metrics.byOutcome /\ metrics'.tokensSaved = metrics.tokensSaved
  BY <1>1, <1>2, InboundFields
<1>11. /\ metrics.inboundCompleted = Cardinality(Done') + SumFunction(tries')
       /\ metrics.requestsTotal = Cardinality(Recorded') + SumFunction(tries')
       /\ metrics.byOutcome["reject_encoding"] = Cardinality(Rejected') + SumFunction(tries')
  BY <1>8, <1>9, CountTypes, CountedIs
<1> QED
  BY <1>6, <1>7, <1>9, <1>10, <1>11, CountedIs, CountedIsNext

\* A call is recorded, under what it was answered.
LEMMA RecordCounts ==
  ASSUME HookInv, AnswersAreCounted, NEW r \in Requests, Record(r)
  PROVE  AnswersAreCounted'
<1>1. TypeOK /\ CompressorOK /\ metrics \in MetricsType
  BY DEF HookInv, TypeOK
<1>2. /\ pc[r] = "record" /\ pc' = [pc EXCEPT ![r] = "return"]
      /\ metrics' = record(metrics, s[r])
      /\ tries' = tries /\ reply' = reply /\ caller' = caller /\ answer' = answer
      /\ input' = input
  BY DEF Record, Counted, compVars
<1>3. input[r].method = "POST" /\ s[r] \in Summaries /\ input[r] \in Calls
  BY <1>2 DEF HookInv, HandlerOK, InPlace, Summarised
<1>4. /\ reply[r].action = "modify" <=> s[r].reason = "modify"
      /\ reply[r].status = 415 <=> s[r].reason = "reject(encoding)"
      /\ caller[r] = "returned" /\ answer[r] # "ok" <=> s[r].reason = "allow(error)"
      /\ s[r].tokensSaved = Saved(r)
  <2>1. Answered(r) /\ Summarised(r) /\ InPlace(r)
    BY DEF HookInv, HandlerOK
  <2>2. /\ reply[r].action = "modify" <=> s[r].reason = "modify"
        /\ reply[r].status = 415 <=> s[r].reason = "reject(encoding)"
    BY <1>2, <1>3, <2>1 DEF Answered
  <2>3. /\ caller[r] = "returned" /\ answer[r] # "ok" <=> s[r].reason = "allow(error)"
        /\ s[r].tokensSaved = IF Succeeded(r) THEN input[r].yields.tokensSaved ELSE 0
    BY <1>2, <1>3, <2>1 DEF Summarised, Succeeded
  <2>4. Succeeded(r) <=> answer[r] = "ok"
    <3>1. caller[r] \in {"new", "returned"} /\ (caller[r] = "new" => answer[r] = Null)
      BY <1>1, <1>2, <2>1 DEF CompressorOK, InPlace
    <3>2. Null # "ok"
      BY HookAssumption
    <3> QED
      BY <3>1, <3>2 DEF Succeeded
  <2> QED
    BY <2>2, <2>3, <2>4 DEF Saved
<1>5. Active' = Active /\ Done' = Done /\ Recorded' = Recorded \cup {r} /\ r \notin Recorded
  BY <1>1, <1>2, <1>3 DEF Active, Done, Recorded, TypeOK
<1>6. /\ Rejected' = (IF s[r].reason = "reject(encoding)" THEN Rejected \cup {r} ELSE Rejected)
      /\ Modified' = (IF s[r].reason = "modify" THEN Modified \cup {r} ELSE Modified)
      /\ Failed' = (IF s[r].reason = "allow(error)" THEN Failed \cup {r} ELSE Failed)
      /\ r \notin Rejected /\ r \notin Modified /\ r \notin Failed
  BY <1>2, <1>4, <1>5 DEF Rejected, Modified, Failed
<1>7. /\ SumFunction(SavedBy) \in Int
      /\ SumFunction(SavedBy') = SumFunction(SavedBy) + s[r].tokensSaved
  <2>1. IsFiniteSet(Recorded)
    BY Finite
  <2>2. Saved(r) \in Int
    BY <1>3 DEF Saved, Calls, Results
  <2>3. SavedBy' \in [Recorded \cup {r} -> Int] /\ SavedBy'[r] = Saved(r)
    BY <1>2, <1>5, <2>2, SavedIsInt DEF SavedBy, Saved
  <2>4. SavedBy = [q \in Recorded |-> SavedBy'[q]]
    BY <1>2, <1>5 DEF SavedBy, Saved
  <2>5. SumFunction(SavedBy) \in Int /\ SumFunction(SavedBy') = SumFunction(SavedBy) + SavedBy'[r]
    BY <1>5, <2>1, <2>3, <2>4, SumGrows
  <2> QED
    BY <1>4, <2>3, <2>5
<1>8. /\ Cardinality(Recorded') = Cardinality(Recorded) + 1
      /\ Cardinality(Rejected') =
           Cardinality(Rejected) + (IF s[r].reason = "reject(encoding)" THEN 1 ELSE 0)
      /\ Cardinality(Modified') =
           Cardinality(Modified) + (IF s[r].reason = "modify" THEN 1 ELSE 0)
      /\ Cardinality(Failed') =
           Cardinality(Failed) + (IF s[r].reason = "allow(error)" THEN 1 ELSE 0)
  <2>1. /\ Cardinality(Recorded \cup {r}) = Cardinality(Recorded) + 1
        /\ Cardinality(Rejected \cup {r}) = Cardinality(Rejected) + 1
        /\ Cardinality(Modified \cup {r}) = Cardinality(Modified) + 1
        /\ Cardinality(Failed \cup {r}) = Cardinality(Failed) + 1
    BY <1>5, <1>6, Finite, FS_AddElement
  <2> QED
    BY <1>5, <1>6, <2>1, CountTypes
<1>9. LET o == outcomeFromReason(s[r].reason)
      IN  /\ o \in Outcomes
          /\ o = "reject_encoding" <=> s[r].reason = "reject(encoding)"
          /\ o = "modify" <=> s[r].reason = "modify"
          /\ o = "error" <=> s[r].reason = "allow(error)"
          /\ metrics'.requestsTotal = metrics.requestsTotal + 1
          /\ metrics'.byOutcome =
               [metrics.byOutcome EXCEPT ![o] = metrics.byOutcome[o] + 1]
          /\ metrics'.tokensSaved = metrics.tokensSaved + s[r].tokensSaved
          /\ metrics'.requestsFailed =
               IF o = "error" THEN metrics.requestsFailed + 1 ELSE metrics.requestsFailed
          /\ metrics'.inboundCompleted = metrics.inboundCompleted
          /\ metrics'.inboundActive = metrics.inboundActive
  <2>1. s[r].reason \in Reasons
    BY <1>3 DEF Summaries
  <2> QED
    BY <1>1, <1>2, <1>3, <2>1, OutcomeOf, RecordFields
<1>10. /\ metrics'.byOutcome["reject_encoding"] = metrics.byOutcome["reject_encoding"]
            + (IF s[r].reason = "reject(encoding)" THEN 1 ELSE 0)
       /\ metrics'.byOutcome["modify"] = metrics.byOutcome["modify"]
            + (IF s[r].reason = "modify" THEN 1 ELSE 0)
       /\ metrics'.requestsFailed = metrics.requestsFailed
            + (IF s[r].reason = "allow(error)" THEN 1 ELSE 0)
  <2>1. metrics.byOutcome \in [Outcomes -> Nat] /\ metrics.requestsFailed \in Nat
    BY <1>1 DEF MetricsType
  <2>2. {"reject_encoding", "modify", "error"} \subseteq Outcomes
    BY DEF Outcomes
  <2> QED
    BY <1>9, <2>1, <2>2
<1>11. /\ metrics'.inboundActive = Cardinality(Active')
       /\ metrics'.inboundCompleted = Cardinality(Done') + SumFunction(tries')
  BY <1>2, <1>5, <1>9, CountedIs
<1>12. metrics'.requestsTotal = Cardinality(Recorded') + SumFunction(tries')
  BY <1>2, <1>8, <1>9, CountTypes, CountedIs
<1>13. metrics'.byOutcome["reject_encoding"] = Cardinality(Rejected') + SumFunction(tries')
  BY <1>2, <1>8, <1>10, CountTypes, CountedIs
<1>14. /\ metrics'.byOutcome["modify"] = Cardinality(Modified')
       /\ metrics'.requestsFailed = Cardinality(Failed')
  BY <1>8, <1>10, CountedIs
<1>15. metrics'.tokensSaved = SumFunction(SavedBy')
  BY <1>7, <1>9, CountedIs
<1> QED
  BY <1>11, <1>12, <1>13, <1>14, <1>15, CountedIsNext

-----------------------------------------------------------------------------
(* What holds between the counters.                                        *)

\* The inbound counters move together.
LEMMA InboundBalances ==
  ASSUME NEW m \in MetricsType, Balanced(m)
  PROVE  /\ Balanced(inboundStart(m))
         /\ m.inboundActive > 0 => Balanced(inboundDone(m))
<1>1. /\ m.inboundTotal \in Nat /\ m.inboundActive \in Nat /\ m.inboundCompleted \in Nat
      /\ m.requestsTotal \in Nat
  BY DEF MetricsType
<1>2. ASSUME NEW n \in {inboundStart(m), inboundDone(m)},
             n.inboundTotal = n.inboundCompleted + n.inboundActive,
             m.requestsTotal <= n.inboundTotal
      PROVE  Balanced(n)
  <2>1. /\ n.requestsTotal = m.requestsTotal /\ n.requestsFailed = m.requestsFailed
        /\ n.byOutcome = m.byOutcome /\ n.byProvider = m.byProvider /\ n.byModel = m.byModel
    BY InboundFields
  <2> QED
    BY <1>2, <2>1 DEF Balanced
<1>3. /\ m.inboundTotal = m.inboundCompleted + m.inboundActive
      /\ m.requestsTotal <= m.inboundTotal
  BY DEF Balanced
<1>4. Balanced(inboundStart(m))
  <2> DEFINE n == inboundStart(m)
  <2>1. /\ n.inboundTotal = m.inboundTotal + 1 /\ n.inboundActive = m.inboundActive + 1
        /\ n.inboundCompleted = m.inboundCompleted
    BY InboundFields
  <2>2. n \in {inboundStart(m), inboundDone(m)}
    OBVIOUS
  <2> HIDE DEF n
  <2>3. n.inboundTotal = n.inboundCompleted + n.inboundActive /\ m.requestsTotal <= n.inboundTotal
    BY <1>1, <1>3, <2>1
  <2> QED
    BY <1>2, <2>2, <2>3 DEF n
<1>5. ASSUME m.inboundActive > 0 PROVE Balanced(inboundDone(m))
  <2> DEFINE n == inboundDone(m)
  <2>1. /\ n.inboundTotal = m.inboundTotal /\ n.inboundActive = m.inboundActive - 1
        /\ n.inboundCompleted = m.inboundCompleted + 1
    BY <1>5, InboundFields
  <2>2. n \in {inboundStart(m), inboundDone(m)}
    OBVIOUS
  <2> HIDE DEF n
  <2>3. n.inboundTotal = n.inboundCompleted + n.inboundActive /\ m.requestsTotal <= n.inboundTotal
    BY <1>1, <1>3, <2>1
  <2> QED
    BY <1>2, <2>2, <2>3 DEF n
<1> QED
  BY <1>4, <1>5

\* A counter of a map goes up by one, and so does the sum of the map.
LEMMA SumOneMore ==
  ASSUME NEW S, IsFiniteSet(S), NEW f \in [S -> Nat], NEW x \in S
  PROVE  SumFunction([f EXCEPT ![x] = @ + 1]) = SumFunction(f) + 1
<1>1. PICK v \in Int : v = f[x] + 1 /\ f[x] \in Int
  OBVIOUS
<1>2. f \in [S -> Int] /\ [f EXCEPT ![x] = @ + 1] = [f EXCEPT ![x] = v]
  BY <1>1
<1>3. /\ SumFunction(f) \in Int
      /\ SumFunction([f EXCEPT ![x] = v]) = SumFunction(f) + v - f[x]
  BY <1>2, SumChanges
<1> QED
  BY <1>1, <1>2, <1>3

\* record adds to the total and to one counter of each map.
LEMMA RecordBalances ==
  ASSUME NEW m \in MetricsType, NEW sum \in Summaries, Balanced(m),
         m.requestsTotal + 1 <= m.inboundTotal
  PROVE  Balanced(record(m, sum))
<1> DEFINE o == outcomeFromReason(sum.reason)
           p == labelOrUnknown(sum.provider)
           l == labelOrUnknown(sum.model)
           n == record(m, sum)
<1>1. /\ m.byOutcome \in [Outcomes -> Nat] /\ m.byProvider \in [LabelsOut -> Nat]
      /\ m.byModel \in [LabelsOut -> Nat] /\ m.requestsTotal \in Nat /\ m.requestsFailed \in Nat
  BY DEF MetricsType
<1>2. /\ o \in Outcomes /\ p \in LabelsOut /\ l \in LabelsOut
      /\ n.requestsTotal = m.requestsTotal + 1
      /\ n.byOutcome = [m.byOutcome EXCEPT ![o] = @ + 1]
      /\ n.byProvider = [m.byProvider EXCEPT ![p] = @ + 1]
      /\ n.byModel = [m.byModel EXCEPT ![l] = @ + 1]
      /\ n.requestsFailed = IF o = "error" THEN m.requestsFailed + 1 ELSE m.requestsFailed
      /\ n.inboundTotal = m.inboundTotal /\ n.inboundCompleted = m.inboundCompleted
      /\ n.inboundActive = m.inboundActive
  BY RecordFields
<1> HIDE DEF o, p, l, n
<1>3. /\ SumFunction(n.byOutcome) = SumFunction(m.byOutcome) + 1
      /\ SumFunction(n.byProvider) = SumFunction(m.byProvider) + 1
      /\ SumFunction(n.byModel) = SumFunction(m.byModel) + 1
  BY <1>1, <1>2, FiniteLabels, SumOneMore
<1>4. n.requestsFailed = n.byOutcome["error"]
  <2>1. "error" \in Outcomes
    BY DEF Outcomes
  <2> QED
    BY <1>1, <1>2, <2>1 DEF Balanced
<1>5. Balanced(n)
  BY <1>2, <1>3, <1>4 DEF Balanced
<1> QED
  BY <1>5 DEF n

\* A call that is about to be recorded came in, and was not recorded before.
LEMMA RoomToRecord ==
  ASSUME HookInv, AnswersAreCounted, Balanced(metrics), NEW r \in Requests, pc[r] = "record"
  PROVE  metrics.requestsTotal + 1 <= metrics.inboundTotal
<1>1. /\ Recorded \cup {r} \subseteq Done \cup Active /\ r \notin Recorded
      /\ Done \cap Active = {}
  BY DEF Recorded, Done, Active
<1>2. /\ IsFiniteSet(Done \cup Active)
      /\ Cardinality(Done \cup Active) = Cardinality(Done) + Cardinality(Active)
  <2>1. /\ IsFiniteSet(Done \cup Active)
        /\ Cardinality(Done \cup Active) =
             Cardinality(Done) + Cardinality(Active) - Cardinality(Done \cap Active)
    BY Finite, FS_Union
  <2>2. Cardinality(Done \cap Active) = 0
    BY <1>1, FS_EmptySet
  <2>3. Cardinality(Done) \in Nat /\ Cardinality(Active) \in Nat
    BY CountTypes
  <2> QED
    BY <2>1, <2>2, <2>3
<1>3. Cardinality(Recorded \cup {r}) = Cardinality(Recorded) + 1
  BY <1>1, Finite, FS_AddElement
<1>4. Cardinality(Recorded \cup {r}) <= Cardinality(Done \cup Active)
  BY <1>1, <1>2, FS_Subset
<1>5. Cardinality(Recorded) + 1 <= Cardinality(Done) + Cardinality(Active)
  BY <1>2, <1>3, <1>4
<1>6. /\ Cardinality(Recorded) \in Nat /\ Cardinality(Done) \in Nat /\ Cardinality(Active) \in Nat
      /\ SumFunction(tries) \in Int
  BY CountTypes
<1>7. /\ metrics.requestsTotal = Cardinality(Recorded) + SumFunction(tries)
      /\ metrics.inboundTotal = Cardinality(Done) + SumFunction(tries) + Cardinality(Active)
  BY CountedIs DEF Balanced
<1> QED
  BY <1>5, <1>6, <1>7

-----------------------------------------------------------------------------
(* The steps of Next.                                                      *)

\* A step of one handler, or the arrival of its call.
LEMMA HandlerCounts ==
  ASSUME MetricsInv, NEW r \in Requests, Arrive(r) \/ Retry(r) \/ HandlerNext(r)
  PROVE  MetricsInv'
<1>1. HookInv /\ AnswersAreCounted /\ Balanced(metrics) /\ metrics \in MetricsType
  BY DEF MetricsInv, HookInv, TypeOK
<1>2. HookInv'
  BY <1>1, HandlerKeeps
<1>3. ScrapeIsOneMoment'
  <2>1. scrape' = scrape
    BY DEF Arrive, Retry, HandlerNext, RejectMethod, ReadFails, RejectEncoding, DecodeFails,
       Passthrough, CallCompress, CompressFails, CompressReturns, Decide, writeHookResponse,
       Record, Return
  <2> QED
    BY <2>1 DEF MetricsInv, ScrapeIsOneMoment
<1>4. AnswersAreCounted' /\ Balanced(metrics')
  <2>1. CASE Arrive(r)
    BY <1>1, <2>1, ArriveCounts, InboundBalances DEF Arrive
  <2>2. CASE Retry(r)
    BY <1>1, <2>2, RetryCounts, InboundBalances DEF Retry
  <2>3. CASE Record(r)
    <3>1. s[r] \in Summaries /\ pc[r] = "record" /\ metrics' = record(metrics, s[r])
      BY <1>1, <2>3 DEF Record, Counted, HookInv, HandlerOK, InPlace, Summarised
    <3> QED
      BY <1>1, <2>3, <3>1, RecordCounts, RoomToRecord, RecordBalances
  <2>4. CASE Return(r)
    BY <1>1, <2>4, ReturnCounts, InboundBalances DEF Return
  <2>5. CASE HandlerNext(r) /\ ~Record(r) /\ ~Return(r)
    BY <1>1, <2>5, UncountedKeeps
  <2> QED
    BY <2>1, <2>2, <2>3, <2>4, <2>5
<1> QED
  BY <1>2, <1>3, <1>4 DEF MetricsInv

\* A step in which every handler stands still and nothing is counted.
LEMMA StillBalances ==
  ASSUME MetricsInv, HookInv', metrics' = metrics, tries' = tries, ScrapeIsOneMoment',
         \A q \in Requests : StandsStill(q)
  PROVE  MetricsInv'
<1>1. AnswersAreCounted'
  BY AllStillCounts DEF MetricsInv
<1> QED
  BY <1>1 DEF MetricsInv

\* The compressor works, or a client hangs up.
LEMMA ServingCounts ==
  ASSUME MetricsInv, NEW r \in Requests, Compressing(r) \/ HangUp(r)
  PROVE  MetricsInv'
<1>1. HookInv' /\ TypeOK /\ CompressorOK
  BY ServingKeeps DEF MetricsInv, HookInv
<1>2. metrics' = metrics /\ tries' = tries /\ scrape' = scrape
  BY DEF Compressing, HangUp, handlerVars
<1>3. \A q \in Requests : StandsStill(q)
  BY <1>1, ServingStands
<1> QED
  BY <1>1, <1>2, <1>3, StillBalances DEF MetricsInv, ScrapeIsOneMoment

\* No counter has moved yet.
LEMMA MetricsInvInit ==
  ASSUME Init
  PROVE  MetricsInv
<1>1. HookInv
  BY HookInvInit
<1>2. AnswersAreCounted
  <2>1. Active = {} /\ Done = {} /\ Recorded = {}
    BY DEF Init, Active, Done, Recorded
  <2>2. Rejected = {} /\ Modified = {} /\ Failed = {} /\ SavedBy = [r \in {} |-> 0]
    BY <2>1 DEF Rejected, Modified, Failed, SavedBy
  <2>3. tries = [r \in Requests |-> 0]
    BY DEF Init
  <2>4. SumFunction(tries) = 0
    BY <2>3, FinitelyMany, SumOfZeros
  <2>5. SumFunction(SavedBy) = 0
    BY <2>2, FS_EmptySet, SumOfZeros
  <2>6. /\ metrics.inboundActive = 0 /\ metrics.inboundCompleted = 0
        /\ metrics.requestsTotal = 0 /\ metrics.requestsFailed = 0 /\ metrics.tokensSaved = 0
        /\ metrics.byOutcome["reject_encoding"] = 0 /\ metrics.byOutcome["modify"] = 0
    BY DEF Init, newMetrics, Outcomes
  <2> QED
    BY <2>1, <2>2, <2>4, <2>5, <2>6, FS_EmptySet, CountedIs
<1>3. Balanced(metrics)
  <2>1. metrics = newMetrics
    BY DEF Init
  <2>2. /\ newMetrics.byOutcome = [o \in Outcomes |-> 0]
        /\ newMetrics.byProvider = [v \in LabelsOut |-> 0]
        /\ newMetrics.byModel = [v \in LabelsOut |-> 0]
        /\ newMetrics.requestsTotal = 0 /\ newMetrics.requestsFailed = 0
        /\ newMetrics.inboundTotal = 0 /\ newMetrics.inboundCompleted = 0
        /\ newMetrics.inboundActive = 0
    BY DEF newMetrics
  <2>3. /\ SumFunction(newMetrics.byOutcome) = 0 /\ SumFunction(newMetrics.byProvider) = 0
        /\ SumFunction(newMetrics.byModel) = 0
    BY <2>2, FiniteLabels, SumOfZeros
  <2>4. newMetrics.byOutcome["error"] = 0
    BY <2>2 DEF Outcomes
  <2> QED
    BY <2>1, <2>2, <2>3, <2>4 DEF Balanced
<1>4. ScrapeIsOneMoment
  BY DEF Init, ScrapeIsOneMoment
<1> QED
  BY <1>1, <1>2, <1>3, <1>4 DEF MetricsInv

\* Every step of Next keeps the invariant.
LEMMA MetricsInvStep ==
  ASSUME MetricsInv, [Next]_vars
  PROVE  MetricsInv'
<1>1. HookInv /\ HookInv' /\ TypeOK /\ CompressorOK
  BY HookInvStep DEF MetricsInv, HookInv
<1>2. ASSUME NEW r \in Requests, Arrive(r) \/ Retry(r) PROVE MetricsInv'
  BY <1>2, HandlerCounts
<1>3. CASE Serving
  BY <1>3, HandlerCounts, ServingCounts DEF Serving
<1>4. ASSUME UNCHANGED <<handlerVars, clientVars, metrics, compVars>>, ScrapeIsOneMoment'
      PROVE  MetricsInv'
  <2>1. \A q \in Requests : StandsStill(q)
    BY <1>1, <1>4, CompressorIdle DEF StandsStill, handlerVars, clientVars
  <2> QED
    BY <1>1, <1>4, <2>1, StillBalances DEF handlerVars
<1>5. CASE ScrapeCounters \/ ScrapePool
  <2>1. ScrapeIsOneMoment'
    BY <1>5 DEF ScrapeCounters, ScrapePool, ScrapeIsOneMoment, MetricsInv
  <2> QED
    BY <1>4, <1>5, <2>1 DEF ScrapeCounters, ScrapePool
<1>6. CASE UNCHANGED vars
  <2>1. ScrapeIsOneMoment'
    BY <1>6 DEF vars, ScrapeIsOneMoment, MetricsInv
  <2> QED
    BY <1>4, <1>6, <2>1 DEF vars
<1> QED
  BY <1>2, <1>3, <1>5, <1>6 DEF Next

-----------------------------------------------------------------------------
(* What follows from the invariant.                                        *)

\* The inductive invariant holds.
THEOREM MetricsInvariant == Spec => []MetricsInv
<1>1. Init => MetricsInv
  BY MetricsInvInit
<1>2. MetricsInv /\ [Next]_vars => MetricsInv'
  BY MetricsInvStep
<1> QED
  BY <1>1, <1>2, PTL DEF Spec

\* Every POST that was answered is counted once and under what was answered,
\* through all early returns, retries and clients that left
\* (handler.go:135-136,189,220).
THEOREM EveryAnswerCounted == Spec => []AnswersAreCounted
<1>1. MetricsInv => AnswersAreCounted
  BY DEF MetricsInv
<1> QED
  BY <1>1, MetricsInvariant, PTL

\* What a scrape reads balances, as the comment in metrics.go:24-25 promises,
\* although requests start, end and are counted at any time.
THEOREM ScrapesBalance == Spec => []ScrapeIsOneMoment
<1>1. MetricsInv => ScrapeIsOneMoment
  BY DEF MetricsInv
<1> QED
  BY <1>1, MetricsInvariant, PTL
=============================================================================
