------------------------------ MODULE MCVoice -------------------------------
(* Instances of the voice endpoint for TLC.                                *)
EXTENDS VoiceProperties, TLC

CONSTANTS c1, c2   \* the connections

\* Both requests come from one user; only the first one starts turns.
MCUserOf == c1 :> "u1" @@ c2 :> "u1"
MCMaxSentences == <<3, 0>>
MCMaxTurns == c1 :> 2 @@ c2 :> 0
=============================================================================
