-------------------------------- MODULE MCLlmCall ------------------------------
(* Instances of LlmCall for TLC. *)
EXTENDS LlmCall, TLC

CONSTANTS c1, c2, c3

\* Calls that one policy governs, and calls of two services.
MCServiceInterpret == [c \in Call |-> "interpret"]
MCServiceMixed     == [c \in Call |-> IF c = c3 THEN "draft" ELSE "respond"]

\* The key names the question, which differs between services.
MCKeyOf == [c \in Call |-> Service[c]]

\* The hash takes every key to lock 1, as it does for half of all keys.
MCLockOf == [k \in {"interpret", "draft", "respond"} |-> 1]

\* Calls of one service with the same key are interchangeable.
CallSymmetry == Permutations(Call)

MCRouteInterpret == <<"interpret">>
MCRouteAll       == <<"all">>

MCMaxRequests == <<1>>
MCMaxCost     == <<3>>
MCCost        == [c \in Call |-> 1]
================================================================================
