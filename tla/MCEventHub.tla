----------------------------- MODULE MCEventHub -----------------------------
(* EventHub on a session, its sub-agent and the sub-agent of that one. *)
EXTENDS EventHub

CONSTANTS root, child, grandchild

Ancestry == [s \in Sessions |-> IF s = grandchild THEN child
                                ELSE IF s = child THEN root ELSE None]

=============================================================================
