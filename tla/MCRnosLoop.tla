----------------------------- MODULE MCRnosLoop -----------------------------
(* RnosLoop for TLC, with the calibrated thresholds of the experiments,    *)
(* under which long runs exist.                                            *)
EXTENDS RnosLoop

\* EXP2_POLICY's trust thresholds of -0.1: no trust is that low.
Disabled == -100
=============================================================================
