---------------------------- MODULE MCConversation ----------------------------
(***************************************************************************)
(* Conversation for TLC: handlers and claw ids are interchangeable.        *)
(***************************************************************************)
EXTENDS Conversation, TLC

Symmetry == Permutations(Handler) \cup Permutations(Claw)

==============================================================================
