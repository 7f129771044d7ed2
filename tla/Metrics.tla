------------------------------ MODULE Metrics -------------------------------
(***************************************************************************)
(* The counters behind /metrics (src/metrics.go) as one record.  Each      *)
(* method of the code holds m.mu from its first to its last access, so it  *)
(* is one step: an operator from the record before to the record after.    *)
(* Durations are left out, and so is the rendering of the text.            *)
(***************************************************************************)
EXTENDS Integers, Functions

CONSTANT Labels   \* names of providers and models; "" is an unknown one

Outcomes ==
  {"modify", "noop", "error", "read_error", "decode_error", "reject_encoding", "passthrough"}

labelOrUnknown(v) == IF v = "" THEN "unknown" ELSE v
LabelsOut == {labelOrUnknown(v) : v \in Labels}

newMetrics == [
  requestsTotal |-> 0, requestsFailed |-> 0,
  tokensInput |-> 0, tokensSaved |-> 0, tokensAfter |-> 0, coldStarts |-> 0,
  byProvider |-> [v \in LabelsOut |-> 0],
  byModel |-> [v \in LabelsOut |-> 0],
  byOutcome |-> [o \in Outcomes |-> 0],
  inboundTotal |-> 0, inboundCompleted |-> 0, inboundActive |-> 0 ]

MetricsType == [
  requestsTotal : Nat, requestsFailed : Nat,
  tokensInput : Nat, tokensSaved : Int, tokensAfter : Nat, coldStarts : Nat,
  byProvider : [LabelsOut -> Nat],
  byModel : [LabelsOut -> Nat],
  byOutcome : [Outcomes -> Nat],
  inboundTotal : Nat, inboundCompleted : Nat, inboundActive : Nat ]

inboundStart(m) == [m EXCEPT !.inboundTotal = @ + 1, !.inboundActive = @ + 1]

inboundDone(m) ==
  [m EXCEPT !.inboundCompleted = @ + 1,
            !.inboundActive = IF @ > 0 THEN @ - 1 ELSE @]

\* The reasons of the handler by outcome; what is not listed passes through.
outcomeFromReason(reason) ==
  CASE reason = "modify" -> "modify"
    [] reason = "allow(noop)" -> "noop"
    [] reason = "allow(error)" -> "error"
    [] reason = "allow(read-error)" -> "read_error"
    [] reason = "allow(decode-error)" -> "decode_error"
    [] reason = "reject(encoding)" -> "reject_encoding"
    [] OTHER -> "passthrough"

\* record folds the summary s of one hook call into the counters.
record(m, s) ==
  LET outcome == outcomeFromReason(s.reason)
  IN  [m EXCEPT
         !.requestsTotal = @ + 1,
         !.byOutcome[outcome] = @ + 1,
         !.byProvider[labelOrUnknown(s.provider)] = @ + 1,
         !.byModel[labelOrUnknown(s.model)] = @ + 1,
         !.tokensInput = @ + s.tokensBefore,
         !.tokensSaved = @ + s.tokensSaved,
         !.tokensAfter = @ + s.tokensAfter,
         !.coldStarts = IF s.cold THEN @ + 1 ELSE @,
         !.requestsFailed = IF outcome = "error" THEN @ + 1 ELSE @]

\* What holds between the counters of one moment.
Balanced(m) ==
  /\ m.inboundTotal = m.inboundCompleted + m.inboundActive
  /\ m.requestsTotal <= m.inboundTotal
  /\ m.requestsTotal = SumFunction(m.byOutcome)
  /\ m.requestsTotal = SumFunction(m.byProvider)
  /\ m.requestsTotal = SumFunction(m.byModel)
  /\ m.requestsFailed = m.byOutcome["error"]
=============================================================================
