------------------------------ MODULE MCMcpHub ------------------------------
(* Instances of the MCP hub for TLC.                                       *)
EXTENDS McpProperties, TLC

CONSTANTS r1, r2   \* the goroutines

Tool(listed, readOnly) == [listed |-> listed, readOnly |-> readOnly, risk |-> 0, approval |-> FALSE]
Server(t) == [allowed |-> TRUE, enabled |-> TRUE, tools |-> [search |-> t]]

\* The tool is reviewed as read-only in one configuration; the other one wants
\* an approval for it.
MCConfigs == {Server(Tool(TRUE, TRUE)), Server(Tool(TRUE, FALSE))}
MCOffers == {[search |-> FALSE]}
MCActionLimit == [mcp |-> 3, image |-> 1]
MCScript ==
  r1 :> <<{"create"}, {"approve"}, {"call"}>> @@
  r2 :> <<{"call", "image", "reload", "notify"}, {"call", "auto", "list", "refresh", "close", "image"}>>

Symmetry == Permutations(Users) \cup Permutations(Arguments)
=============================================================================
