------------------------ MODULE MC_ConnectionPlanner ------------------------
(* Model-checking instances of ConnectionPlanner: every graph over three   *)
(* local operators (and, for the distributed runs, one                     *)
(* VirtualTransmitterOp) that Fragment::add_flow can compose.               *)
EXTENDS ConnectionPlanner

LocalOps == {"a", "b", "c"}

(* add_flow gives a downstream operator with no input port (or an input   *)
(* execution port) a control-flow edge, and a data input a data edge.      *)
EdgeChoices(d) == IF d = "noin" THEN {{}, {ExecPair}} ELSE {{}, {DataPair}}

GraphsWith(d) ==
    {[decl |-> d,
      pm |-> [e \in LocalOps \X LocalOps |->
                IF e \in E THEN CHOOSE c \in EdgeChoices(d[e[2]]) : c # {} ELSE {}]] :
        E \in SUBSET (LocalOps \X LocalOps)}

(* Control flow only: no operator declares an input port.                 *)
ExecGraphs == GraphsWith([v \in LocalOps |-> "noin"])

(* Data flow only: every operator declares the input port "in".           *)
DataGraphs == UNION {GraphsWith(d) : d \in [LocalOps -> {"in1", "inPC"}]}

LocalGraphs == UNION {GraphsWith(d) : d \in [LocalOps -> {"noin", "in1", "inPC"}]}

(* The distributed lowering adds x for one inter-fragment edge leaving    *)
(* the data output of a local operator (add_flow(op, virtual_op,          *)
(* {{port, port}})).                                                       *)
WithVirtual(g, src) ==
    [decl |-> g.decl @@ ("x" :> "noin"),
     pm   |-> [e \in (LocalOps \cup {"x"}) \X (LocalOps \cup {"x"}) |->
                 IF e \in LocalOps \X LocalOps THEN g.pm[e]
                 ELSE IF e = <<src, "x">> THEN {<<DataOut, DataOut>>} ELSE {}]]

IsLocalDag(g) == IsDag([node |-> LocalOps,
                        edge |-> {e \in LocalOps \X LocalOps : g.pm[e] # {}}])

DistributedGraphs(dagOnly) ==
    {WithVirtual(g, s) : g \in {h \in LocalGraphs : dagOnly => IsLocalDag(h)},
                         s \in LocalOps}

MC_Order_Local == <<"a", "b", "c">>
MC_Order_Dist  == <<"a", "b", "c", "x">>
MC_Ops_Dist    == LocalOps \cup {"x"}
MC_Inputs_Dag  == DistributedGraphs(TRUE)
MC_Inputs_Dist == DistributedGraphs(FALSE)
MC_ExecSpecs_Fixed == {ExecOut}
MC_ExecSpecs_Any   == {DataOut, ExecOut}
=============================================================================
