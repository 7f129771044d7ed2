----------------------------- MODULE Encodings ------------------------------
(***************************************************************************)
(* The codings of a request body (src/encoding.go) and the limits on its   *)
(* size.  The codecs are third-party code: all that is known of one is     *)
(* that it fails on a body that is corrupt or cut short.                   *)
(*                                                                         *)
(* A Content-Encoding is a record: the token as it is spelled, and whether *)
(* a q-value follows.  A body is a record: its size up to the brace that   *)
(* ends it, the blanks after that (a newline, say), its size as it travels *)
(* when it is compressed, and whether a codec can read it.                 *)
(***************************************************************************)
EXTENDS Naturals, Functions

CONSTANT maxBody   \* the ceiling on the wire read and on the decoded body

ASSUME EncodingsAssumption == maxBody \in Nat \ {0}

\* The codings accepted, best first, and what Accept-Encoding says of them.
reqCodecs == <<"zstd", "gzip">>
acceptEncoding == Range(reqCodecs)

\* The spellings that a header may use, and strings.ToLower of them.
Spellings == {"", "identity", "Identity", "gzip", "GZIP", "zstd", "br"}
Lower == [t \in Spellings |->
  IF t = "Identity" THEN "identity" ELSE IF t = "GZIP" THEN "gzip" ELSE t]

Headers == [token : Spellings, q : BOOLEAN]

\* The q-value is cut off, the rest is lowered, and identity is no coding.
normalizeCoding(enc) ==
  IF Lower[enc.token] = "identity" THEN "" ELSE Lower[enc.token]

Sent(body, enc) == IF normalizeCoding(enc) = "" THEN body.size ELSE body.packed

\* io.ReadAll(io.LimitReader(r.Body, maxBody)) drops what is beyond, which an
\* uncompressed body can bear if only blanks are lost.
Whole(body, enc) == Sent(body, enc) <= maxBody

\* The overflow test of decodeGzip is off by one.
Decodes_OffByOne(body, enc) ==
  Whole(body, enc) /\ body.sound /\ body.size + body.tail < maxBody

\* decodeGzip reads one byte past the ceiling to see an overflow; decodeZstd
\* has the same ceiling as a limit on its memory.
Decodes(body, enc) ==
  Whole(body, enc) /\ body.sound /\ body.size + body.tail <= maxBody

\* The error of decodeRequestBody.  An uncompressed body is returned as read.
decodeRequestBody(body, enc) ==
  CASE normalizeCoding(enc) = "" -> "nil"
    [] normalizeCoding(enc) \notin acceptEncoding \cup {""} -> "unsupported"
    [] OTHER -> IF Decodes(body, enc) THEN "nil" ELSE "corrupt"
=============================================================================
