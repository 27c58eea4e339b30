----------------------------- MODULE MCRetention -----------------------------
(* Small instances of Retention for TLC. *)
EXTENDS Retention

Policy(content, history, archive, delete) ==
    [content |-> content, history |-> history, archive |-> archive, delete |-> delete]

\* Archival and deletion on one day; content until expiration, then history, no deletion.
MCPolicies == {Policy(None, None, 0, 0), Policy(Expiration, 0, None, None)}
\* Deletion alone.
DeletePolicies == {Policy(None, None, None, 0)}
AllPolicies == MCPolicies \cup DeletePolicies
=============================================================================
