------------------------------ MODULE Lowering ------------------------------
(***************************************************************************)
(* Distributed lowering of a fragment (generate_connection_map and         *)
(* create_virtual_operators_and_connections, cuda_stream_pool.cpp          *)
(* 1155-1292), composed with the add_flow calls of compose() (AddFlow).    *)
(*                                                                         *)
(* compose() makes its add_flow calls; then initialize_gxf_graph lowers    *)
(* the fragment's inter-fragment connection items.  An output item <op,    *)
(* port> gets a VirtualTransmitterOp fed by add_flow(op, vt, {port, port}); *)
(* an input item gets a VirtualReceiverOp and a ForwardOp, joined by       *)
(* add_flow(vr, fw, {port, "in"}) and add_flow(fw, op, {"out", port}).     *)
(* Those calls are Fragment::add_flow itself (FlowCall), so they see the   *)
(* ports compose() already added to op.                                    *)
(*                                                                         *)
(* Items of one <op, port> are lowered in the order of their vector;       *)
(* items of different keys in any order (the map is an unordered_map).     *)
(* Different keys touch different ports and parameters of op, so their     *)
(* order changes no outcome.                                               *)
(***************************************************************************)
EXTENDS AddFlow

CONSTANTS
    UserOps,    \* the operators compose() adds
    Items,      \* connection items of the fragment, 1..N in vector order
    ItemOp,     \* ItemOp[c]: the operator named by the item
    ItemPort,   \* ItemPort[c]: the port named by the item
    ItemIo,     \* ItemIo[c]: IOSpec::IOType, "out" or "in"
    VOp,        \* VOp[c]: the virtual operator made for c
    FwOp        \* FwOp[c]: the ForwardOp made for an input item c

ASSUME /\ UserOps \subseteq Ops
       /\ Items \subseteq Nat
       /\ \A c \in Items : ItemOp[c] \in UserOps /\ ItemIo[c] \in {"out", "in"}
       \* 1263-1264 any_casts the parameter: an input item names a declared
       \* input or a std::vector<IOSpec*> parameter of its operator.
       /\ \A c \in Items : ItemIo[c] = "in" =>
             ItemPort[c] \in DeclIns[ItemOp[c]] \cup VecParams[ItemOp[c]]

VARIABLES
    phase,    \* "compose" until initialize_gxf_graph lowers, then "lower"
    lpc,      \* lpc[c]: "todo", "forward" (vr -> fw made), "done"
    fwName    \* fwName[c]: the name given to c's ForwardOp, "" before

lvars == <<vars, phase, lpc, fwName>>

Key(c) == <<ItemOp[c], ItemPort[c]>>

(* 1163-1181: the items of one <op, port> form a vector, in order.        *)
NextOfKey(c) ==
    /\ lpc[c] = "todo"
    /\ \A d \in Items : d < c /\ Key(d) = Key(c) => lpc[d] = "done"

(* Fault variant: the index counts from 1, not from the vector's size.    *)
ParamIndexOneBased(c) ==
    LET op == ItemOp[c]
        p == ItemPort[c]
    IN IF p \notin Inputs(op) \/ IsAnySize(op, p) THEN RecvCount(recv[op], p) + 1
       ELSE -1

(* 1251-1267: an input port that op lacks, or one of kAnySize, is a vector *)
(* parameter; param_index is the parameter's current size, else -1.       *)
ParamIndex(c) ==
    LET op == ItemOp[c]
        p == ItemPort[c]
    IN IF p \notin Inputs(op) \/ IsAnySize(op, p) THEN RecvCount(recv[op], p)
       ELSE -1

(* 1270-1273: "forward_<op>_<port>" or "forward_<op>_<port>:<index>".      *)
ForwardName(c) ==
    LET base == "forward_" \o ItemOp[c] \o "_" \o ItemPort[c]
    IN IF ParamIndex(c) = -1 THEN base ELSE base \o ":" \o ToString(ParamIndex(c))

LInit ==
    /\ Init
    /\ phase = "compose"
    /\ lpc = [c \in Items |-> "todo"]
    /\ fwName = [c \in Items |-> ""]

Compose(u, v, P) ==
    /\ phase = "compose"
    /\ AddFlow(u, v, P)
    /\ UNCHANGED <<phase, lpc, fwName>>

(* compose() returns and initialize_gxf_graph starts lowering.             *)
EndCompose ==
    /\ phase = "compose"
    /\ phase' = "lower"
    /\ UNCHANGED <<vars, lpc, fwName>>

(* 1219-1236, 1244-1246: an output item: a VirtualTransmitterOp fed from   *)
(* op's port.                                                              *)
LowerOutput(c) ==
    /\ phase = "lower"
    /\ ItemIo[c] = "out"
    /\ NextOfKey(c)
    /\ FlowCall(ItemOp[c], VOp[c], {<<ItemPort[c], ItemPort[c]>>})
    /\ lpc' = [lpc EXCEPT ![c] = "done"]
    /\ UNCHANGED <<calls, phase, fwName>>

(* 1237-1240, 1248-1284: an input item: a VirtualReceiverOp, a ForwardOp   *)
(* named from param_index, and add_flow(vr, fw, {port, "in"}).             *)
LowerInput(c) ==
    /\ phase = "lower"
    /\ ItemIo[c] = "in"
    /\ NextOfKey(c)
    /\ fwName' = [fwName EXCEPT ![c] = ForwardName(c)]
    /\ FlowCall(VOp[c], FwOp[c], {<<ItemPort[c], "in">>})
    /\ lpc' = [lpc EXCEPT ![c] = "forward"]
    /\ UNCHANGED <<calls, phase>>

(* 1286-1287: add_flow(fw, op, {"out", port}).                              *)
ForwardInput(c) ==
    /\ lpc[c] = "forward"
    /\ FlowCall(FwOp[c], ItemOp[c], {<<"out", ItemPort[c]>>})
    /\ lpc' = [lpc EXCEPT ![c] = "done"]
    /\ UNCHANGED <<calls, phase, fwName>>

LNext ==
    \/ \E u, v \in UserOps, P \in PortPairs : Compose(u, v, P)
    \/ EndCompose
    \/ \E c \in Items : LowerOutput(c) \/ LowerInput(c) \/ ForwardInput(c)

LSpec == LInit /\ [][LNext]_lvars

-----------------------------------------------------------------------------
(* The name of an input item's ForwardOp is fixed (1270-1273) from the     *)
(* index its parameter would give the next receiver, before the add_flow   *)
(* that makes that receiver (1287).  Once the item is lowered, its         *)
(* ForwardOp feeds op through exactly the input its name announces:        *)
(* "forward_<op>_<port>" feeds port, "forward_<op>_<port>:<i>" the         *)
(* receiver <port>:<i> add_receivers made, whatever receivers compose()   *)
(* and the items lowered before it added to the same parameter.            *)
ForwardNameMatchesReceiver ==
    \A c \in Items :
        ItemIo[c] = "in" /\ lpc[c] = "done" =>
            \E pr \in pm[<<FwOp[c], ItemOp[c]>>] :
                /\ pr[1] = "out"
                /\ fwName[c] = "forward_" \o ItemOp[c] \o "_" \o pr[2]
=============================================================================
