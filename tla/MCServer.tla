------------------------------ MODULE MCServer ------------------------------
(* Small instances of Server for TLC.                                      *)
EXTENDS Server, TLC

CONSTANTS r1, r2

MCLabels == {"", "p"}

Plain == [method |-> "POST", likes |-> [token |-> "", q |-> FALSE],
          body |-> [size |-> 1, tail |-> 0, packed |-> 1, sound |-> TRUE],
          form |-> "messages", provider |-> "p", model |-> "p", bodyModel |-> "",
          yields |-> [tokensBefore |-> 2, tokensSaved |-> 1, tokensAfter |-> 1,
                      messages |-> "some", cold |-> FALSE]]

\* One that is refused at first and one that is not.
MCInputs == r1 :> {[Plain EXCEPT !.likes.token = "br"]} @@ r2 :> {Plain}
=============================================================================
