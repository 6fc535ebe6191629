---------------------------- MODULE MCChatStream ----------------------------
(* Instances of ChatStream for TLC. *)
EXTENDS ChatStream, TLC

ChainOnly == {"chain"}
AllFaults == {"store", "fetch", "delete"}

\* Requests are interchangeable (used only where no liveness is checked).
Symmetry == Permutations(Requests)
=============================================================================
