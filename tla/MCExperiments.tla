---------------------------- MODULE MCExperiments ----------------------------
(***************************************************************************)
(* The instance of Experiments that TLC checks.                            *)
(***************************************************************************)
EXTENDS Experiments

\* The trust gates are switched off: -0.1 can never be reached.
Disabled == -100
=============================================================================
