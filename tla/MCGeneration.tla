---------------------------- MODULE MCGeneration ----------------------------
(* Values of the constants of Generation for TLC. *)
EXTENDS Generation

CONSTANTS c1, c2, c3, r1, r2

\* One input, however many callers send it; and one request id used by an
\* input and a write, next to another input.
OneInput == [c \in Callers |-> [req |-> r1, type |-> "input"]]
Mixed ==
    [c \in Callers |-> [req |-> IF c = c3 THEN r2 ELSE r1,
                        type |-> IF c = c2 THEN "write" ELSE "input"]]

StreamBudget == [stop |-> 2, abort |-> 1, withdraw |-> 0]
TurnsBudget == [stop |-> 1, abort |-> 1, withdraw |-> 1]
==============================================================================
