----------------------------- MODULE MCDecision -----------------------------
(***************************************************************************)
(* Model-checking instance of Decision with 3-bit counters (u8 scaled to  *)
(* 0..7): up to 7 cosigners stays inside the width, as up to 255 do in the *)
(* code; 8 to 10 cosigners go past it, as 256 to 258 do.                   *)
(***************************************************************************)
EXTENDS Decision

MCNPastWidth == 2..10

MCBothBuilds == {"debug", "release"}

=============================================================================
