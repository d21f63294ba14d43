---------------------------- MODULE Controllers ----------------------------
(***************************************************************************)
(* The two kinds of controllers that stand outside the runtime as one      *)
(* program: the experiment of a domain, or the gate of the CI pipeline.    *)
(* They share nothing; the state of the one that does not run stays as it  *)
(* is.                                                                     *)
(***************************************************************************)
EXTENDS DomainRun, WorkflowGate

VARIABLE program \* which of the two runs

vars == <<program, domainVars, workflowVars>>

Init ==
  /\ program \in {"domain", "workflow"}
  /\ DomainInit
  /\ WorkflowInit
  /\ program = "domain" => driver = "local" /\ ~simulated
  /\ program = "workflow" => scenario = "lock_contention" /\ ~written

Next ==
  \/ program = "domain" /\ DomainNext /\ UNCHANGED <<program, workflowVars>>
  \/ program = "workflow" /\ WorkflowNext /\ UNCHANGED <<program, domainVars>>

Spec == Init /\ [][Next]_vars
=============================================================================
