---------------------------- MODULE MCAntigravity ----------------------------
(* An account of two models and a weekly quota, for TLC.                   *)
EXTENDS AntigravitySync

MCModels == <<"gemini", "claude">>
MCBuckets == <<"gemini-weekly">>
MCWindow == <<"weekly">>
=============================================================================
