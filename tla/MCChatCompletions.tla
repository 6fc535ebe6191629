------------------------- MODULE MCChatCompletions --------------------------
(* Instances of ChatCompletions for TLC. *)
EXTENDS ChatCompletions

AllServices == {"policy", "dlp", "tools", "chain"}
BothFaults == {"store", "delete"}
=============================================================================
