-------------------------- MODULE MCEvidenceRecord --------------------------
(* Instances of EvidenceRecord for TLC. *)
EXTENDS EvidenceRecord, TLC

CONSTANTS r1, r2, p1, p2, s1, s2, c1, c2, c3, terms, short, branching, yes, no

Step(type, cases, default) == [type |-> type, cases |-> cases, default |-> default]
NoCases == [o \in {} |-> 0]

\* short: one activity; branching: a document review whose "no" skips the media
\* activity, and a media activity whose "no" ends the request early.
MCPlan ==
  [w \in Workflows |->
     CASE w = terms -> <<>>
       [] w = short -> <<Step("document_review", NoCases, None)>>
       [] w = branching ->
            <<Step("document_review", no :> 3, None),
              Step("external_media", no :> 0, 3),
              Step("terms_response", NoCases, None)>>]

\* Each session has a principal of its own.
TwoOwners == [s \in Sessions |-> IF s = s1 THEN p1 ELSE p2]
=============================================================================
