------------------------------- MODULE MCHook -------------------------------
(* Small instances of Hook for TLC.                                        *)
EXTENDS Hook, TLC

CONSTANTS r1, r2

MCLabels == {"", "p", "m"}

Yields(saved, messages) ==
  [tokensBefore |-> 2, tokensSaved |-> saved, tokensAfter |-> 2 - saved,
   messages |-> messages, cold |-> TRUE]

\* A call that compresses well, in a body as large as it may be; the others
\* differ from it.  One has a newline after such a body.
Good == [method |-> "POST", likes |-> [token |-> "identity", q |-> FALSE],
         body |-> [size |-> maxBody, tail |-> 0, packed |-> 1, sound |-> TRUE],
         form |-> "messages", provider |-> "p", model |-> "", bodyModel |-> "m",
         yields |-> Yields(1, "some")]
Gzipped == [Good EXCEPT !.likes = [token |-> "GZIP", q |-> TRUE]]

Refused == [Good EXCEPT !.likes.token = "br"]

MCInputs ==
  r1 :> {Refused, Gzipped,
         [Good EXCEPT !.method = "GET"],
         [Good EXCEPT !.form = "other"],
         [Gzipped EXCEPT !.body.sound = FALSE, !.form = "garbled"]}
  @@
  r2 :> {Refused,
         [Good EXCEPT !.yields = Yields(0 - 1, "some")],
         [Good EXCEPT !.body.size = maxBody + 1],
         [Good EXCEPT !.body.tail = 1, !.yields = Yields(1, "empty")],
         [Gzipped EXCEPT !.body.tail = 1],
         [Gzipped EXCEPT !.yields = Yields(1, "absent"), !.model = "m"]}
=============================================================================
