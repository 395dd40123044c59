---------------------------- MODULE MCAgentLoop ----------------------------
(* Instances of AgentLoop for TLC. *)
EXTENDS AgentLoop

Agent(most, how, steers, follows, env) ==
    [sent |-> most, executions |-> how, steering |-> steers, followUp |-> follows, env |-> env]

One == "one-at-a-time"
Both == {"parallel", "sequential"}

\* Queues that are cleared, resets and aborts; hooks and listeners that throw.
Agents == {
    Agent(3, Both, One, "all", {"clear", "reset", "hooks", "abort"}),
    Agent(2, {"parallel"}, "all", One, {"abort", "hooks", "throw"}) }

\* Listeners and hooks that throw.
Throwing == {Agent(2, {"parallel"}, One, One, {"throw"})}
==============================================================================
