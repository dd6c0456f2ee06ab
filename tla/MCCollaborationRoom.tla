-------------------------- MODULE MCCollaborationRoom --------------------------
(* A host, a member with two tokens, a member with one identity from outside. *)
EXTENDS CollaborationRoom, TLC

MCBearer == [t \in Tokens |-> IF t = 1 THEN "host" ELSE "ann"]
AnyFrame == Permutations(Frames) \cup Permutations(Proposals)

================================================================================
