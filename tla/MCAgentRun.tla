----------------------------- MODULE MCAgentRun -----------------------------
EXTENDS AgentProperties, TLC

\* A read-only tool, and two gated ones: one that sends something, and one that
\* destroys something, which is idempotent and yet never replayable.
ReadTool == [requiresApproval |-> FALSE, readOnly |-> TRUE,
             idempotent |-> TRUE, destructive |-> FALSE]
SendTool == [requiresApproval |-> TRUE, readOnly |-> FALSE,
             idempotent |-> FALSE, destructive |-> FALSE]
DeleteTool == [requiresApproval |-> TRUE, readOnly |-> FALSE,
               idempotent |-> TRUE, destructive |-> TRUE]

AllTools == {ReadTool, SendTool, DeleteTool}
SomeTools == {ReadTool, DeleteTool}

\* The workers differ in nothing but their IDs.
Symmetry == Permutations(Workers)
=============================================================================
