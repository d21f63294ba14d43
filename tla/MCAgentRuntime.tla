---------------------------- MODULE MCAgentRuntime ----------------------------
(***************************************************************************)
(* AgentRuntime for TLC: the demo's four scenarios and every short         *)
(* sequence of plans the scores tell apart; and attempts of every intent.  *)
(***************************************************************************)
EXTENDS AgentRuntime

Disabled == -1000

Words == [read |-> {"look"}, edit_file |-> {"patch"}, run_tests |-> {"check"},
          shell_command |-> {"shell"}, network |-> {"fetch"}, delete |-> {"drop"}]

On(tool, target, root, succeeds) == OnFile(tool, Words[tool], target, root, succeeds)

AnyPlan ==
  { On("read", "src/a", "src", TRUE),
    Straying([On("read", "", "", FALSE) EXCEPT !.names = "nothing"]),
    On("run_tests", "", "", TRUE), On("run_tests", "", "", FALSE),
    On("edit_file", "src/a", "src", TRUE), On("edit_file", "src/a", "src", FALSE),
    On("edit_file", "src/b", "src", TRUE),
    On("edit_file", "lib/c", "lib", TRUE),
    Straying(On("edit_file", "lib/c", "lib", FALSE)),
    Straying(On("run_tests", "doc/d", "doc", FALSE)),
    On("shell_command", "", "", TRUE),
    [On("shell_command", "", "", FALSE) EXCEPT !.names = "everything"],
    [On("shell_command", "src/a", "src", TRUE) EXCEPT !.destroys = TRUE],
    [On("network", "", "", FALSE) EXCEPT !.names = "nothing"],
    [On("delete", "lib/c", "lib", TRUE) EXCEPT !.names = "nothing"] }

\* A scenario is written before it is run: any three plans, or four that only edit and test.
AnyScenario ==
  DemoScenarios
    \cup {Scenario("any", s) : s \in [1..3 -> AnyPlan]}
    \cup {Scenario("any", s) : s \in [1..4 -> {p \in AnyPlan :
                                 p.tool \in {"edit_file", "run_tests"}}]}

\* An attempt that differs from the one before in these respects.
Change(similarity, progress, flow, functions, minor) ==
  [ similarity |-> similarity, progress |-> progress, flow |-> flow,
    functions |-> functions, minor |-> minor ]

AnyChange ==
  { Change(1000, 0, 0, 0, 0),     \* handed in again
    Change(900, 50, 0, 0, 1), Change(780, 150, 0, 0, 1), Change(840, 150, 0, 1, 0),
    Change(700, 300, 0, 0, 1), Change(500, 300, 0, 0, 1),
    Change(900, 450, 1, 0, 0), Change(810, 300, 1, 1, 0),
    Change(500, 650, 0, 0, 0), Change(300, 1000, 2, 1, 1) }

AnyError ==
  { [type |-> "SyntaxError", text |-> "a"], [type |-> "SyntaxError", text |-> "b"],
    [type |-> "RuntimeError", text |-> "c"] }
=============================================================================
