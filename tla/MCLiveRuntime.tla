--------------------------- MODULE MCLiveRuntime ---------------------------
(* A small instance of LiveRuntime for TLC.                                *)
EXTENDS LiveRuntime, TLC

TwoSignals == {"SIGINT", "SIGTERM"}
=============================================================================
