------------------------------- MODULE MCPool -------------------------------
(* Small instances of Pool for TLC: turns a1 and a2 of one conversation,   *)
(* whose slot is 1, and a call n1 without an affinity key.                 *)
EXTENDS Pool, TLC

CONSTANTS a1, a2, n1, k1

MCKeys == {k1}
MCHash == k1 :> 5
MCKeyOf == [c \in Calls |-> IF c = n1 THEN NoKey ELSE k1]
=============================================================================
