-------------------------- MODULE ConnectionPlanner --------------------------
(***************************************************************************)
(* GXFExecutor::initialize_fragment: the worklist loop that visits the     *)
(* operators of a fragment's (already lowered) operator graph, resolves    *)
(* the queue sizes and default conditions of their ports while             *)
(* initializing them, wires direct connections and inserts Broadcast       *)
(* entities for ports feeding a UCX (inter-fragment) target.               *)
(*                                                                         *)
(* The graph is an input: Init picks it from the set Inputs.  A graph is   *)
(* a port map pm0[<<u, v>>], the set of <<source port, target port>>       *)
(* pairs of the edge u -> v (the empty set when there is no edge), and     *)
(* decl[v], the input port the operator declared in setup():               *)
(*   "noin" (none, so it may receive control flow), "in1" (queue size 1),  *)
(*   "inPC" (IOSpec::kPrecedingCount).                                     *)
(* Every operator declares the data output "out"; "out_exec"/"in_exec"    *)
(* are the execution ports added by GXFExecutor::add_control_flow.         *)
(* Operators in Virtual are VirtualTransmitterOps made by the distributed  *)
(* lowering; they have no local receivers.                                 *)
(***************************************************************************)
EXTENDS Integers, FiniteSets, Sequences, SequencesExt, Bags, Graphs

CONSTANTS
    Ops,        \* the operators of the fragment
    Order,      \* Ops in graph insertion order (OperatorGraph::get_nodes())
    Virtual,    \* the virtual (UCX transmitter) operators among Ops
    Inputs,     \* set of [decl, pm] records: the graphs a fragment can compose
    ExecSpecs   \* ports add_control_flow may bind as output_exec_spec

ASSUME /\ Virtual \subseteq Ops
       /\ Order \in Seq(Ops) /\ Len(Order) = Cardinality(Ops)
       /\ ToSet(Order) = Ops

DataOut  == "out"
DataIn   == "in"
ExecOut  == "out_exec"     \* Operator::kOutputExecPortName
ExecIn   == "in_exec"      \* Operator::kInputExecPortName
ExecPair == <<ExecOut, ExecIn>>
DataPair == <<DataOut, DataIn>>

VARIABLES
    decl,       \* declared input port of each operator (part of the input)
    execSpec,   \* the output port output_exec_spec() points to
    pm0,        \* the port maps as composed (part of the input)
    pm,         \* the graph's port maps; connect_broadcast_to_previous_op erases keys
    worklist,   \* std::deque worklist
    indegree,   \* indegrees map
    visited,    \* visited_nodes (an operator is initialized when visited)
    cap,        \* resolved receiver capacity of each created input port
    gated,      \* operators whose input exec queue was forced to kSizeOne
    outCond,    \* condition of each output port: "unset", "none", "affordable"
    conns,      \* bag of nvidia::gxf::Connection components <<source, target>>
    ucxTx,      \* UcxTransmitters created inside Broadcast entities
    bcast,      \* <<op, port>> pairs owning a Broadcast entity
    status      \* "running", "done" (loop left) or "failed" (exception)

vars == <<decl, execSpec, pm0, pm, worklist, indegree, visited, cap, gated, outCond,
          conns, ucxTx, bcast, status>>

(* Component names used as connection endpoints. *)
Tx(u, p)          == <<"tx", u, p>>             \* op's own transmitter
Rx(v, q)          == <<"rx", v, q>>             \* op's own receiver
BcRx(u, p)        == <<"bcrx", u, p>>           \* Broadcast entity's "source"
BTx(u, p, v, q)   == <<"btx", u, p, v, q>>      \* transmitter in the Broadcast entity

-----------------------------------------------------------------------------
(* Graph queries (OperatorGraph is not part of this repository's sources). *)
Preds(v) == {u \in Ops : pm0[<<u, v>>] # {}}
Succs(u) == {v \in Ops : pm0[<<u, v>>] # {}}
SrcPorts(m) == {x[1] : x \in m}
Targets(m, p) == {x[2] : x \in {y \in m : y[1] = p}}

HasExecIn(v)  == \E u \in Ops : ExecPair \in pm0[<<u, v>>]
HasExecOut(u) == \E v \in Ops : ExecPair \in pm0[<<u, v>>]
OutPorts(u) == {DataOut} \cup (IF HasExecOut(u) THEN {ExecOut} ELSE {})
InPorts(v)  == (IF decl[v] # "noin" THEN {DataIn} ELSE {})
                 \cup (IF HasExecIn(v) THEN {ExecIn} ELSE {})

(* connect_ucx_transmitters_to_virtual_ops: the output port gets the       *)
(* virtual op's UcxTransmitter when the virtual op is the only operator    *)
(* its port feeds (connection_count == 1).                                  *)
IsUcx(u, p) ==
    LET fed == {v \in Ops : p \in SrcPorts(pm0[<<u, v>>])}
    IN  \E x \in Virtual : fed = {x}

(* create_input_port, kPrecedingCount: count of connections to port q of v *)
(* summed over the port maps of v's predecessors, as they are now.         *)
PrecedingCount(v, q) ==
    Cardinality({<<u, p>> \in Preds(v) \X {DataOut, ExecOut} :
                    <<p, q>> \in pm[<<u, v>>]})

-----------------------------------------------------------------------------
(* Cycle test at the top of the visit: op has an input execution port and *)
(* one of its predecessors is op itself or not yet visited.                *)
CycleDetected(op) ==
    /\ HasExecIn(op)
    /\ \E u \in Preds(op) : u = op \/ u \notin visited

SelfCycle(op) == HasExecIn(op) /\ op \in Preds(op)

(* Resolved queue size of input q of op (create_input_port).              *)
QueueSize(op, q) ==
    CASE q = ExecIn  -> IF CycleDetected(op) THEN 1 ELSE PrecedingCount(op, q)
      [] decl[op] = "in1" -> 1
      [] OTHER -> PrecedingCount(op, q)

(* op->initialize() throws "Invalid queue size" for a size below 1.        *)
InitFailsBelowZero(op) ==       \* fault variant: `queue_size < 0`
    op \notin Virtual /\ \E q \in InPorts(op) : QueueSize(op, q) < 0
InitFails(op) == op \notin Virtual /\ \E q \in InPorts(op) : QueueSize(op, q) < 1

(* Default output conditions (create_output_port): DownstreamMessage-     *)
(* Affordable unless the port already has a condition (kNone set for a    *)
(* self cycle) or its connector is UCX.                                    *)
OutCondition(op, p) ==
    IF p = execSpec[op] /\ CycleDetected(op) /\ SelfCycle(op) THEN "none"
    ELSE IF IsUcx(op, p) THEN "unset" ELSE "affordable"

-----------------------------------------------------------------------------
(* connect_broadcast_to_previous_op(op, prev): for every port of prev with *)
(* a Broadcast entity that the port map m names, one transmitter per       *)
(* target port: a DoubleBufferTransmitter connected to op's receiver, or a *)
(* UcxTransmitter (no Connection) when op is virtual.                      *)
BcastPorts(B, prev, m) == {p \in SrcPorts(m) : <<prev, p>> \in B}
BcastConns(B, op, prev, m) ==
    IF op \in Virtual THEN {}
    ELSE {<<BTx(prev, x[1], op, x[2]), Rx(op, x[2])>> :
            x \in {y \in m : y[1] \in BcastPorts(B, prev, m)}}
BcastUcx(B, op, prev, m) ==
    IF op \in Virtual
    THEN {BTx(prev, x[1], op, x[2]) : x \in {y \in m : y[1] \in BcastPorts(B, prev, m)}}
    ELSE {}
EraseBcastNone(B, prev, m) == m     \* fault variant: keys not erased
EraseBcast(B, prev, m) == {x \in m : x[1] \notin BcastPorts(B, prev, m)}

(* Loop over the previous operators: Broadcast transmitters first, then a *)
(* direct Connection from every initialized non-UCX source port; a self   *)
(* edge and edges touching a virtual operator are skipped.                *)
DirectConns(op, u, m) ==
    IF u \in Virtual \/ op \in Virtual \/ u \notin visited \ Virtual THEN {}
    ELSE {<<Tx(u, p), Rx(op, q)>> : <<p, q>> \in {x \in m : ~IsUcx(u, x[1])}}
ConnectPrevious(op) ==
    UNION {BcastConns(bcast, op, u, pm[<<u, op>>])
           \cup DirectConns(op, u, EraseBcast(bcast, u, pm[<<u, op>>])) : u \in Preds(op) \ {op}}

(* Downstream connections map of op: <<source port, next op, target port>>. *)
Downstream(op) ==
    IF op \in Virtual THEN {}
    ELSE {t \in {DataOut, ExecOut} \X Ops \X {DataIn, ExecIn, DataOut} :
             <<t[1], t[3]>> \in pm[<<op, t[2]>>]}

(* Forward connections to next operators that are already initialized     *)
(* (the cycle case, op itself on a self edge), for non-UCX source ports.   *)
(* A VirtualOperator never gets a GXF id, so it never counts as            *)
(* initialized.                                                            *)
ConnectForwardAll(op, vis) ==   \* fault variant: no initialized check
    {<<Tx(op, t[1]), Rx(t[2], t[3])>> :
        t \in {s \in Downstream(op) : ~IsUcx(op, s[1]) /\ s[2] \notin Virtual}}
ConnectForward(op, vis) ==
    {<<Tx(op, t[1]), Rx(t[2], t[3])>> :
        t \in {s \in Downstream(op) : ~IsUcx(op, s[1]) /\ s[2] \in vis \ Virtual}}

HasUcxTarget(op) ==
    \/ \E t \in Downstream(op) : IsUcx(op, t[1])
    \/ Succs(op) \cap Virtual # {}

(* create_broadcast_components: one entity per source port with two or    *)
(* more targets, its receiver connected to the port's transmitter.         *)
NewBcast(op) ==
    IF HasUcxTarget(op)
    THEN {<<op, p>> : p \in {r \in {DataOut, ExecOut} :
            Cardinality({t \in Downstream(op) : t[1] = r}) >= 2}}
    ELSE {}

-----------------------------------------------------------------------------
Init ==
    /\ \E g \in Inputs : decl = g.decl /\ pm0 = g.pm
    /\ pm = pm0
    /\ execSpec \in [Ops -> ExecSpecs]
    /\ \A u \in Ops : ~HasExecOut(u) => execSpec[u] = ExecOut
    /\ indegree = [v \in Ops |-> Cardinality(Preds(v))]
    /\ worklist = SelectSeq(Order, LAMBDA v : Cardinality(Preds(v)) = 0)
    /\ visited = {}
    /\ cap = <<>>
    /\ gated = {}
    /\ outCond = <<>>
    /\ conns = EmptyBag
    /\ ucxTx = {}
    /\ bcast = {}
    /\ status = "running"

(* Operators whose last unprocessed predecessor is op: `!indegrees[v]`   *)
(* after the decrement.                                                    *)
ReadyNonPositive(op) == {v \in Succs(op) : indegree[v] <= 1}   \* fault variant
Ready(op) == {v \in Succs(op) : indegree[v] = 1}

CycleBreakPositive ==           \* fault variant: only indegree > 1 re-queued
    /\ status = "running"
    /\ worklist = <<>>
    /\ visited # Ops
    /\ worklist' = SelectSeq(Order, LAMBDA v : indegree[v] > 1)
    /\ indegree' = [v \in Ops |-> 0]
    /\ UNCHANGED <<decl, execSpec, pm0, pm, visited, cap, gated, outCond, conns, ucxTx,
                   bcast, status>>

(* The worklist is empty but some operator was not visited: a cycle.      *)
(* Every operator with a nonzero indegree, in insertion order, gets its   *)
(* indegree zeroed and is appended to the worklist.                       *)
CycleBreak ==
    /\ status = "running"
    /\ worklist = <<>>
    /\ visited # Ops
    /\ worklist' = SelectSeq(Order, LAMBDA v : indegree[v] # 0)
    /\ indegree' = [v \in Ops |-> 0]
    /\ UNCHANGED <<decl, execSpec, pm0, pm, visited, cap, gated, outCond, conns, ucxTx,
                   bcast, status>>

(* Every operator was visited and the worklist is empty: leave the loop.  *)
Finish ==
    /\ status = "running"
    /\ worklist = <<>>
    /\ visited = Ops
    /\ status' = "done"
    /\ UNCHANGED <<decl, execSpec, pm0, pm, worklist, indegree, visited, cap, gated,
                   outCond, conns, ucxTx, bcast>>

(* Visit an operator whose initialize() throws: the exception leaves       *)
(* initialize_fragment with the graph partially built.                     *)
VisitFails ==
    /\ status = "running"
    /\ worklist # <<>>
    /\ LET op == Head(worklist) IN
       /\ op \notin visited
       /\ InitFails(op)
       /\ visited' = visited \cup {op}
       /\ worklist' = Tail(worklist)
       /\ gated' = IF CycleDetected(op) THEN gated \cup {op} ELSE gated
       /\ status' = "failed"
    /\ UNCHANGED <<decl, execSpec, pm0, pm, indegree, cap, outCond, conns, ucxTx, bcast>>

(* Visit the operator at the front of the worklist: cycle check,           *)
(* initialize() (ports, queue sizes, conditions), connections from the     *)
(* previous operators, indegree update of the next operators, forward      *)
(* connections to already initialized next operators, Broadcast entities. *)
Visit ==
    /\ status = "running"
    /\ worklist # <<>>
    /\ LET op   == Head(worklist)
           vis  == visited \cup {op}
           nb   == NewBcast(op)
           B2   == bcast \cup nb
           late == (Succs(op) \cap vis) \ Virtual
       IN
       /\ op \notin visited
       /\ ~InitFails(op)
       /\ visited' = vis
       /\ gated' = IF CycleDetected(op) THEN gated \cup {op} ELSE gated
       /\ cap' = IF op \in Virtual THEN cap
                 ELSE [x \in {op} \X InPorts(op) |-> QueueSize(op, x[2])] @@ cap
       /\ outCond' = IF op \in Virtual THEN outCond
                     ELSE [x \in {op} \X OutPorts(op) |-> OutCondition(op, x[2])] @@ outCond
       /\ indegree' = [v \in Ops |-> IF v \in Succs(op) THEN indegree[v] - 1
                                                      ELSE indegree[v]]
       /\ \E s \in SetToSeqs(Ready(op)) : worklist' = Tail(worklist) \o s
       /\ bcast' = B2
       /\ conns' = conns (+) SetToBag(
              ConnectPrevious(op)
              \cup ConnectForward(op, vis)
              \cup {<<Tx(op, b[2]), BcRx(op, b[2])>> : b \in nb}
              \cup UNION {BcastConns(B2, v, op, pm[<<op, v>>]) : v \in late})
       /\ ucxTx' = ucxTx \cup UNION {BcastUcx(bcast, op, u, pm[<<u, op>>]) :
                                        u \in Preds(op) \ {op}}
       /\ pm' = [e \in DOMAIN pm |->
                   IF e[2] = op /\ e[1] # op THEN EraseBcast(bcast, e[1], pm[e])
                   ELSE IF e[1] = op /\ e[2] \in late THEN EraseBcast(B2, op, pm[e])
                   ELSE pm[e]]
    /\ UNCHANGED <<decl, execSpec, pm0, status>>

Next == Visit \/ VisitFails \/ CycleBreak \/ Finish

(* initialize_fragment runs on one thread and its loop never waits: every *)
(* enabled step is eventually taken.                                       *)
Spec == Init /\ [][Next]_vars /\ WF_vars(Next)

-----------------------------------------------------------------------------
(* Properties.                                                             *)
Endpoints == {Tx(u, p) : u \in Ops, p \in {DataOut, ExecOut}}
               \cup {BTx(u, p, v, q) : u \in Ops, p \in {DataOut, ExecOut}, v \in Ops,
                                     q \in {DataIn, ExecIn, DataOut}}
Receivers == {Rx(v, q) : v \in Ops, q \in {DataIn, ExecIn}}
               \cup {BcRx(u, p) : u \in Ops, p \in {DataOut, ExecOut}}

TypeOK ==
    /\ decl \in [Ops -> {"noin", "in1", "inPC"}]
    /\ execSpec \in [Ops -> {DataOut, ExecOut}]
    /\ worklist \in Seq(Ops)
    /\ indegree \in [Ops -> Int]   \* negative after a cycle break
    /\ visited \subseteq Ops
    /\ DOMAIN cap \subseteq Ops \X {DataIn, ExecIn}
    /\ \A x \in DOMAIN cap : cap[x] \in Nat \ {0}  \* create_input_port rejects < 1
    /\ gated \subseteq visited
    /\ DOMAIN outCond \subseteq Ops \X {DataOut, ExecOut}
    /\ \A x \in DOMAIN outCond : outCond[x] \in {"none", "unset", "affordable"}
    /\ IsABag(conns) /\ BagToSet(conns) \subseteq Endpoints \X Receivers
    /\ ucxTx \subseteq Endpoints
    /\ bcast \subseteq Ops \X {DataOut, ExecOut}
    /\ status \in {"running", "done", "failed"}

(* The operator graph as a Graphs-module digraph.                          *)
G == [node |-> Ops, edge |-> {e \in Ops \X Ops : pm0[e] # {}}]

(* The edge u -> v is a feedback edge when u is reachable from v.          *)
Feedback(u, v) == u = v \/ u \in Descendants(G, v)

(* How many ways a message on port p of u reaches port q of v once the     *)
(* plan is handed to GXF: a direct Connection, a Broadcast transmitter     *)
(* connected to the receiver (with the Broadcast fed from p), the          *)
(* collapsed UcxTransmitter of p (created with u's output ports, so once  *)
(* p has its condition), or a UcxTransmitter in the Broadcast.             *)
Deliveries(u, p, v, q) ==
    IF v \in Virtual
    THEN (IF IsUcx(u, p) /\ <<u, p>> \in DOMAIN outCond THEN 1 ELSE 0)
         + (IF BTx(u, p, v, q) \in ucxTx /\ <<Tx(u, p), BcRx(u, p)>> \in DOMAIN conns
            THEN 1 ELSE 0)
    ELSE CopiesIn(<<Tx(u, p), Rx(v, q)>>, conns)
         + (IF <<Tx(u, p), BcRx(u, p)>> \in DOMAIN conns
            THEN CopiesIn(<<BTx(u, p, v, q), Rx(v, q)>>, conns) ELSE 0)

(* Once initialize_fragment returns, every port pair the application      *)
(* connected with add_flow is delivered exactly once (the direct, forward,*)
(* Broadcast and UCX paths together), and no Connection joins ports the   *)
(* application never connected.                                           *)
WiredExactlyOnce ==
    status = "done" =>
      /\ \A u \in Ops \ Virtual, v \in Ops :
            \A pq \in pm0[<<u, v>>] : Deliveries(u, pq[1], v, pq[2]) = 1
      /\ \A c \in DOMAIN conns :
            \E u \in Ops, v \in Ops : \E pq \in pm0[<<u, v>>] :
               c \in {<<Tx(u, pq[1]), Rx(v, pq[2])>>, <<Tx(u, pq[1]), BcRx(u, pq[1])>>,
                      <<BTx(u, pq[1], v, pq[2]), Rx(v, pq[2])>>}

(* The worklist never holds an operator twice nor one already visited:   *)
(* the `continue` for visited operators at the top of the loop is never  *)
(* taken, so every pop initializes a new operator.                        *)
WorklistFresh ==
    /\ IsInjective(worklist)
    /\ ToSet(worklist) \cap visited = {}

(* The worklist loop terminates: every composed graph is either fully     *)
(* initialized or initialize() throws, cycles included.                   *)
Terminates == <>(status \in {"done", "failed"})

(* Spec, section 8: an input on a feedback edge (self edge or longer      *)
(* cycle) is resolved to queue size 1 after planning, whatever its       *)
(* declared policy.                                                        *)
FeedbackInputSizeOne ==
    status = "done" =>
      \A v \in Ops \ Virtual, u \in Ops :
         \A pq \in pm0[<<u, v>>] : Feedback(u, v) => cap[<<v, pq[2]>>] = 1

(* Spec, section 4.3 step 7: an output port with two or more destinations *)
(* gets a Broadcast node instead of N direct connections.                  *)
BroadcastOnFanOut ==
    status = "done" =>
      \A u \in Ops \ Virtual, p \in {DataOut, ExecOut} :
         Cardinality({t \in Ops \X {DataIn, ExecIn, DataOut} :
                        <<p, t[2]>> \in pm0[<<u, t[1]>>]}) >= 2 => <<u, p>> \in bcast

(* Spec, section 5, example 3: for a self edge B -> B through the          *)
(* execution ports, B's output execution port loses its                   *)
(* downstream-affordable condition (kNone) so B does not block on itself. *)
SelfCycleExecOutNone ==
    status = "done" =>
      \A b \in Ops \ Virtual : ExecPair \in pm0[<<b, b>>] => outCond[<<b, ExecOut>>] = "none"

=============================================================================
