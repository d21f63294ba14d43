------------------------------ MODULE MCRealRun ------------------------------
(***************************************************************************)
(* RealRun for TLC: the shapes of plans that the gate tells apart, on a    *)
(* sandbox of two files.                                                   *)
(***************************************************************************)
EXTENDS RealRun

\* RNOSBridge's trust thresholds of -1.0: no trust is that low.
Disabled == -1000

Look(target) == [action |-> "read_file", target |-> target] @@ NoReport
Patch(target, files, lines, destructive, failure) ==
  [ action |-> "edit_file", target |-> target, files |-> files, lines |-> lines,
    destructive |-> destructive, failure_type |-> failure ]

PlanSet ==
  { Look("app"), Look("missing"),
    [action |-> "run_tests", target |-> ""] @@ NoReport,
    Patch("app", 1, 4, FALSE, ""),
    Patch("test", 1, 4, FALSE, ""),
    Patch("app", 2, 8, FALSE, ""),
    Patch("app", 1, 40, FALSE, ""),
    Patch("app", 2, 60, TRUE, ""),
    Patch("app", 1, 0, FALSE, "malformed_output"),
    Patch("missing", 1, 0, FALSE, "unknown") }
=============================================================================
