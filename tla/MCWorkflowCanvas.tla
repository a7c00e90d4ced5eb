-------------------------- MODULE MCWorkflowCanvas --------------------------
(* The modules and the blueprint on which WorkflowCanvas is checked.        *)
EXTENDS WorkflowCanvas, TLC

CONSTANTS enrich, stop, trigger

\* One output, none, one.
Outputs == (enrich :> 1) @@ (stop :> 0) @@ (trigger :> 1)

\* Two blocks of the misp-modules service, one after the other.
Prints == {[kind |-> <<enrich, enrich>>, link |-> {[from |-> 1, port |-> 1, to |-> 2]}]}
=============================================================================
