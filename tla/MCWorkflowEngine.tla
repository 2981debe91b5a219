------------------------- MODULE MCWorkflowEngine -------------------------
(* Small instances of WorkflowEngine: three nodes, an approval among them, *)
(* and the acyclic definitions over them, with a dangling dependency.      *)
EXTENDS WorkflowEngine, TLC

CONSTANTS n1, n2, n3, ghost

Always == SUBSET Nodes
OutputOf(n) == {o \in SUBSET Nodes : n \in o}

MCDefinitions ==
  {[depends_on |-> n1 :> {} @@ n2 :> d2 @@ n3 :> d3,
    trigger_rule |-> [n \in Nodes |-> rule],
    when |-> n1 :> Always @@ n2 :> Always @@ n3 :> w,
    approval |-> approval,
    max_attempts |-> n1 :> 1 @@ n2 :> attempts @@ n3 :> 1] :
      d2 \in {{}, {n1}}, d3 \in {{n1, n2}, {n2}, {ghost}}, rule \in Rules,
      w \in {Always, OutputOf(n2), {}}, approval \in {{}, {n2}}, attempts \in {0, 2}}
=============================================================================
