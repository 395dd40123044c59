--------------------------- MODULE MCJsonlStorage ---------------------------
(* Values of the constants of JsonlStorage for TLC. *)
EXTENDS JsonlStorage

CONSTANTS t, d, h

\* The process dies twice, without fsync; or, with it, the host loses power.
Stores ==
    {[used |-> {t, d}, fsync |-> FALSE, failures |-> [io |-> 1, crash |-> 2, power |-> 0]],
     [used |-> {d, h}, fsync |-> TRUE, failures |-> [io |-> 1, crash |-> 1, power |-> 1]]}
==============================================================================
