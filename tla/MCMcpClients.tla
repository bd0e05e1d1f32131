------------------------------ MODULE MCMcpClients ------------------------------
(* Instances of McpClients for TLC: a server with one tool that gets a second. *)
EXTENDS McpClients, TLC

CONSTANTS p, k1, n1, u1, u2,   \* goroutines
          c1, c2, c3,          \* clients
          x, y                 \* tools

MCCatalogs == {{x}, {x, y}}
\* Once two replacements have overlapped, the run has nothing more to say.
Uncrossed == ~crossed
=============================================================================
