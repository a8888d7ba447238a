--------------------------- MODULE MCChatSession ----------------------------
(* Instances of the chat session model for TLC.                            *)
EXTENDS ChatProperties
=============================================================================
