----------------------------- MODULE MCPollRate -----------------------------
(* Model-checking instances of PollRate: see the .cfg files.                *)
EXTENDS PollRate
=============================================================================
