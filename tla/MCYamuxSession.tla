---------------------------- MODULE MCYamuxSession ----------------------------
(* Two streams over a gate of one slot: opens queue, race and abandon.      *)
EXTENDS YamuxSession

MC_Cause == {"normal", "network", "fallback", "canceled"}
=============================================================================
