------------------------------ MODULE AddFlow ------------------------------
(***************************************************************************)
(* Fragment::add_flow (fragment.cpp 333-588) with GXFExecutor::add_        *)
(* receivers and add_control_flow (cuda_stream_pool.cpp 2211-2263): how a  *)
(* sequence of add_flow calls made by compose() turns port-label pairs     *)
(* into the port maps of the fragment's graph, adding execution ports and  *)
(* indexed receiver ports to the operators' specs as it goes.              *)
(*                                                                         *)
(* An operator's spec is its output labels (outs) and input labels (ins)   *)
(* and the receiver inputs add_receivers made (recv), which grow:          *)
(* add_control_flow adds the execution ports, and add_receivers adds an    *)
(* input "p:i" for a parameter p of type                                   *)
(* std::vector<IOSpec*>.  Errors are logged and the call                   *)
(* returns; nothing is thrown.  Port labels are strings ordered by Rank,   *)
(* the order of std::set and std::map over them.                           *)
(***************************************************************************)
EXTENDS Naturals, FiniteSets, Sequences, SequencesExt, TLC

CONSTANTS
    Ops,         \* operators added to the fragment
    Native,      \* the operators of OperatorType::kNative
    DeclOuts,    \* DeclOuts[op]: output labels declared in op's setup()
    DeclIns,     \* DeclIns[op]: input labels declared in op's setup()
    AnyIns,      \* AnyIns[op] \subseteq DeclIns[op]: inputs of IOSpec::kAnySize
    VecParams,   \* VecParams[op]: parameters of type std::vector<IOSpec*>
    Rank,        \* Rank[l]: position of the label l in string order
    PortPairs,   \* the port_pairs arguments compose() may pass
    MaxCalls     \* number of add_flow calls in one compose()

ExecOut == "__output_exec__"   \* Operator::kOutputExecPortName
ExecIn == "__input_exec__"     \* Operator::kInputExecPortName

ASSUME /\ Native \subseteq Ops
       /\ \A op \in Ops : AnyIns[op] \subseteq DeclIns[op] \cap VecParams[op]
       /\ \A P \in PortPairs : P \subseteq (DOMAIN Rank) \X (DOMAIN Rank)
       /\ MaxCalls \in Nat

VARIABLES
    outs,    \* outs[op]: op->spec()->outputs()
    ins,     \* ins[op]: op->spec()->inputs() with a plain label
    recv,    \* recv[op]: op->spec()->inputs() made by add_receivers
    pm,      \* pm[<<u, v>>]: the graph's port map of edge u -> v, as pairs
    calls,   \* add_flow calls made so far
    last     \* how the last call ended: "none", "data", "control", "error"

vars == <<outs, ins, recv, pm, calls, last>>

Inputs(op) == ins[op] \cup recv[op]
(* 2220: the label fmt::format("{}:{}", receivers_name, size).             *)
RecvLabel(p, i) == p \o ":" \o ToString(i)
(* iospec_vector.size(): the receivers already made for parameter p, which *)
(* are labelled p:0, p:1, ... in turn.                                     *)
RecvCount(R, p) == Cardinality({i \in 0..Cardinality(R) : RecvLabel(p, i) \in R})
IsAnySize(op, q) == q \in AnyIns[op]

Init ==
    /\ outs = DeclOuts
    /\ ins = DeclIns
    /\ recv = [op \in Ops |-> {}]
    /\ pm = [e \in Ops \X Ops |-> {}]
    /\ calls = 0
    /\ last = "none"

-----------------------------------------------------------------------------
(* Port-label resolution.  The state threaded through the loops is the     *)
(* receiver inputs of v, which add_receivers grows, the resolved pairs and *)
(* whether a check failed.                                                 *)

SortedLabels(S) == SetToSortSeq(S, LAMBDA x, y : Rank[x] < Rank[y])

(* 407-418: std::set<pair> -> map<string, set<string>>, keyed by output.   *)
Keys(P) == {pr[1] : pr \in P}
Targets(P, k) == {pr[2] : pr \in {x \in P : x[1] = k}}

(* 420-468: every output label names an output of u, except a lone ""     *)
(* when u has a single output, which is renamed to it.                     *)
OutLabelsOK(u, P) ==
    /\ ~(Cardinality(outs[u]) = 1 /\ Cardinality(Keys(P)) # 1)
    /\ \A k \in Keys(P) :
         \/ k \in outs[u]
         \/ k = "" /\ Cardinality(outs[u]) = 1 /\ Cardinality(Keys(P)) = 1
ResolveOut(u, k) == IF k \in outs[u] THEN k ELSE CHOOSE o \in outs[u] : TRUE

(* Fault variants of ResolveIn: a kAnySize input found by its label is   *)
(* taken as an ordinary input (no is_receivers test, 489-495), or a lone   *)
(* "" keeps its label for the receiver instead of the sole input's (507).  *)
ResolveInFaulty(anySize, rename, v, k, n, l, st) ==
    LET I == ins[v] \cup st.recv
        isRecv == anySize /\ l \in I /\ IsAnySize(v, l)
        lone == ~isRecv /\ l \notin I /\ Cardinality(I) = 1 /\ n = 1 /\ l = ""
        sole == CHOOSE q \in I : TRUE
        p == IF lone /\ rename THEN sole ELSE l
        new == RecvLabel(p, RecvCount(st.recv, p))
    IN IF l \in I /\ ~isRecv
       THEN [st EXCEPT !.res = @ \cup {<<k, l>>}]
       ELSE IF lone /\ ~IsAnySize(v, sole)
       THEN [st EXCEPT !.res = @ \cup {<<k, sole>>}]
       ELSE IF (IF lone THEN sole ELSE l) \in VecParams[v]
       THEN [st EXCEPT !.recv = @ \cup {new}, !.res = @ \cup {<<k, new>>}]
       ELSE [st EXCEPT !.err = TRUE]
ResolveInKeepsAnySize(v, k, n, l, st) == ResolveInFaulty(FALSE, TRUE, v, k, n, l, st)
ResolveInNoRename(v, k, n, l, st) == ResolveInFaulty(TRUE, FALSE, v, k, n, l, st)

(* 487-570: input label l of output k, n the number of labels mapped from *)
(* k, st.recv the receiver inputs of v when l is reached.  A label of an   *)
(* ordinary input is kept; a lone "" on a single-input v is renamed to     *)
(* that input unless it is kAnySize; a kAnySize input, or an unknown label *)
(* naming a vector parameter, gets a new receiver input (add_receivers,    *)
(* 2211-2234, labelled with the vector's current size); otherwise error.   *)
ResolveIn(v, k, n, l, st) ==
    LET I == ins[v] \cup st.recv
        isRecv == l \in I /\ IsAnySize(v, l)
        lone == ~isRecv /\ l \notin I /\ Cardinality(I) = 1 /\ n = 1 /\ l = ""
        sole == CHOOSE q \in I : TRUE
        p == IF lone THEN sole ELSE l
        new == RecvLabel(p, RecvCount(st.recv, p))
    IN IF l \in I /\ ~isRecv
       THEN [st EXCEPT !.res = @ \cup {<<k, l>>}]
       ELSE IF lone /\ ~IsAnySize(v, sole)
       THEN [st EXCEPT !.res = @ \cup {<<k, sole>>}]
       ELSE IF p \in VecParams[v]
       THEN [st EXCEPT !.recv = @ \cup {new}, !.res = @ \cup {<<k, new>>}]
       ELSE [st EXCEPT !.err = TRUE]

(* 470-481 and the inner loop over the labels of output k in order.        *)
ResolveKey(v, P, k, st) ==
    LET L == Targets(P, k)
    IN IF Cardinality(ins[v] \cup st.recv) = 1 /\ Cardinality(L) # 1
       THEN [st EXCEPT !.err = TRUE]
       ELSE FoldLeft(LAMBDA s, l : IF s.err THEN s
                                    ELSE ResolveIn(v, k, Cardinality(L), l, s),
                     st, SortedLabels(L))

(* 470-577: the outer loop over the output labels in order; the first     *)
(* failed check returns from add_flow.                                     *)
ResolveAll(v, P) ==
    FoldLeft(LAMBDA s, k : IF s.err THEN s ELSE ResolveKey(v, P, k, s),
             [recv |-> recv[v], res |-> {}, err |-> FALSE],
             SortedLabels(Keys(P)))

-----------------------------------------------------------------------------
(* 357-381: no port pairs and v has no input or an execution input: a     *)
(* control-flow edge; add_control_flow adds the execution ports that are   *)
(* missing (2236-2263).                                                    *)
IsControl(v, P) == P = {} /\ (Inputs(v) = {} \/ ExecIn \in ins[v])

AddControlFlow(u, v) ==
    /\ u \in Native /\ v \in Native
    /\ pm' = [pm EXCEPT ![<<u, v>>] = @ \cup {<<ExecOut, ExecIn>>}]
    /\ outs' = [outs EXCEPT ![u] = @ \cup {ExecOut}]
    /\ ins' = [ins EXCEPT ![v] = @ \cup {ExecIn}]
    /\ last' = "control"
    /\ UNCHANGED recv

(* 382-587: data flow.  Empty port pairs default to <<"", "">> when each  *)
(* side has one port.  On success the resolved pairs join the edge's port *)
(* map (graph().add_flow, 587); a check that fails returns, but receiver   *)
(* inputs add_receivers made before it stay in v's spec.                   *)
AddDataFlow(u, v, P0) ==
    LET P == IF P0 = {} THEN {<<"", "">>} ELSE P0
        r == ResolveAll(v, P)
        ok == OutLabelsOK(u, P) /\ ~r.err
    IN /\ P0 = {} => Cardinality(outs[u]) <= 1 /\ Cardinality(Inputs(v)) <= 1
       /\ recv' = IF OutLabelsOK(u, P) THEN [recv EXCEPT ![v] = r.recv] ELSE recv
       /\ pm' = IF ok
                THEN [pm EXCEPT ![<<u, v>>] =
                        @ \cup {<<ResolveOut(u, x[1]), x[2]>> : x \in r.res}]
                ELSE pm
       /\ last' = IF ok THEN "data" ELSE "error"
       /\ UNCHANGED <<outs, ins>>

(* A failed check before any port is made: control flow between operators *)
(* that are not both native (360-371), or more than one port on a side     *)
(* with no port pairs (382-401).                                           *)
Reject(u, v, P) ==
    /\ \/ IsControl(v, P) /\ ~(u \in Native /\ v \in Native)
       \/ ~IsControl(v, P) /\ P = {}
          /\ (Cardinality(outs[u]) > 1 \/ Cardinality(Inputs(v)) > 1)
    /\ last' = "error"
    /\ UNCHANGED <<outs, ins, recv, pm>>

(* Fragment::add_flow(u, v, P) (338-588).                                   *)
FlowCall(u, v, P) ==
    \/ IsControl(v, P) /\ AddControlFlow(u, v)
    \/ ~IsControl(v, P) /\ AddDataFlow(u, v, P)
    \/ Reject(u, v, P)

(* compose() calls add_flow(u, v) or add_flow(u, v, P) (333-336).          *)
AddFlow(u, v, P) ==
    /\ calls < MaxCalls
    /\ calls' = calls + 1
    /\ FlowCall(u, v, P)

Next == \E u, v \in Ops, P \in PortPairs : AddFlow(u, v, P)

Spec == Init /\ [][Next]_vars

-----------------------------------------------------------------------------
TypeOK ==
    /\ outs \in [Ops -> SUBSET (DOMAIN Rank)]
    /\ ins \in [Ops -> SUBSET (DOMAIN Rank)]
    /\ \A op \in Ops :
          \A q \in recv[op] : \E p \in VecParams[op], i \in 0..Cardinality(recv[op]) :
             q = RecvLabel(p, i)
    /\ pm \in [Ops \X Ops -> SUBSET (STRING \X STRING)]
    /\ calls \in 0..MaxCalls
    /\ last \in {"none", "data", "control", "error"}

(* Every connection recorded in the graph joins an output u has to an     *)
(* input v has and for which create_input_port makes a receiver: never a  *)
(* label add_flow failed to resolve, and never a kAnySize input, which     *)
(* gets no receiver of its own (cuda_stream_pool.cpp 659-662) and must be  *)
(* reached through the receiver inputs add_receivers makes for it.         *)
EdgesNameMaterializedPorts ==
    \A u, v \in Ops : \A pr \in pm[<<u, v>>] :
        /\ pr[1] \in outs[u]
        /\ pr[2] \in Inputs(v)
        /\ ~IsAnySize(v, pr[2])
=============================================================================
