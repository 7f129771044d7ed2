------------------------------ MODULE Affinity ------------------------------
(***************************************************************************)
(* The routing key of a conversation, turn after turn: affinityKey in      *)
(* src/handler.go, for conversations whose session_id is empty or not.     *)
(*                                                                         *)
(* A client sends the whole conversation with every turn: the opening, and *)
(* then reply and next message in turn.  The opening is a system message   *)
(* and the first user message or, where the system prompt is not one of    *)
(* the messages (Anthropic), the user message alone.  A message is a       *)
(* content and the order in which the client happens to write its keys.    *)
(***************************************************************************)
EXTENDS Naturals, Sequences

CONSTANTS
  Conversations,
  Sessions,    \* the session_ids a conversation may have, "" for none
  MaxTurns     \* bound on the turns of a conversation

VARIABLES
  session,     \* session[c]: its session_id
  contents,    \* contents[c]: the contents of its messages so far
  keys         \* keys[c]: the key of each turn

vars == <<session, contents, keys>>

Orders == {"as is", "reordered"}

\* Unmarshal and Marshal sort the keys of the object.
normalize(message) == message.content

Min2(n) == IF n < 2 THEN n ELSE 2

\* The hash of at most two messages is taken to tell any two openings apart.
affinityKey(id, messages) ==
  IF id # "" THEN id
  ELSE IF messages = <<>> THEN ""
  ELSE [i \in 1..Min2(Len(messages)) |-> normalize(messages[i])]

Init ==
  /\ session \in [Conversations -> Sessions]
  /\ contents \in [Conversations -> {<<"user 1">>, <<"system", "user 1">>}]
  /\ keys = [c \in Conversations |-> <<>>]

\* The client sends a turn, and extends the conversation by the model's reply
\* and the user's next message.
Turn(c) ==
  /\ Len(keys[c]) < MaxTurns
  /\ \E order \in Orders :
       LET messages == [i \in 1..Len(contents[c]) |-> [content |-> contents[c][i], order |-> order]]
       IN  keys' = [keys EXCEPT ![c] = Append(@, affinityKey(session[c], messages))]
  /\ contents' = [contents EXCEPT ![c] = @ \o <<"reply", "user">>]
  /\ UNCHANGED session

Next == \E c \in Conversations : Turn(c)

Spec == Init /\ [][Next]_vars

-----------------------------------------------------------------------------
(* What the documentation says and the code does not do.                   *)

\* The hash of the opening messages "is stable across a conversation's turns"
\* (handler.go:374-379): every turn of a conversation has the same key.
KeyStable ==
  \A c \in Conversations : \A i, j \in 1..Len(keys[c]) : keys[c][i] = keys[c][j]
=============================================================================
