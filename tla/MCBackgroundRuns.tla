-------------------------- MODULE MCBackgroundRuns --------------------------
(* Two background tasks and a chat session for TLC.                        *)
EXTENDS BackgroundRuns

CONSTANTS r1, r2, s1
=============================================================================
