---------------------------- MODULE OperatorInit ----------------------------
(***************************************************************************)
(* GXFExecutor::initialize_operator (cuda_stream_pool.cpp 2027-2210) for   *)
(* one operator, with the create_input_port (643-898) and                  *)
(* create_output_port (996-1148) calls it makes.                           *)
(*                                                                         *)
(* After its early returns, the call creates a receiver and the scheduling *)
(* conditions of each input port, a transmitter and the conditions of     *)
(* each output port, then the operator's multi-port conditions and its    *)
(* OrConditionCombiners, and marks the operator initialized.  A port's     *)
(* default condition (MessageAvailable for an input, Downstream-           *)
(* MessageAffordable for an output) is added only when the port has no    *)
(* condition of its own.                                                   *)
(*                                                                         *)
(* The operator's spec is the input, chosen in Init: per port, its queue   *)
(* size as resolved (kPrecedingCount already counted, 664-689), its        *)
(* conditions and connector type; the ports named by the user's condition *)
(* arguments (find_ports_used_by_condition_args, outside this repository); *)
(* the multi-port conditions and the OrConditionCombiner port lists.       *)
(* Names, connectors' capacities and GXF component ids are left out: the   *)
(* model keeps which components and conditions each step creates.  An     *)
(* operator wrapped as a GXF codelet (op_eid_ != 0) binds its ports to the *)
(* receivers and transmitters GXF already made (bind_input_port,          *)
(* bind_output_port) instead.                                              *)
(***************************************************************************)
EXTENDS Integers, Sequences, SequencesExt, FiniteSets

CONSTANTS
    InOrder,        \* spec.inputs() names, in std::map order
    OutOrder,       \* spec.outputs() names, in std::map order
    Unknown,        \* a port name that is not an input of the operator
    AnySize,        \* IOSpec::kAnySize
    QueueSizes,     \* resolved queue sizes an input can have
    CondKinds,      \* ConditionType values a port's condition list may hold
    MaxConds,       \* bound on the conditions the user gives one port
    RxKinds,        \* input connector types: "default", "double_buffer", "ucx"
    TxKinds,        \* output connector types, the same
    GxfKinds,       \* what a wrapped entity holds under a port's name:
                    \* "double_buffer", "other" (another type), "missing"
    GroupKinds,     \* ConditionType values of multi-port conditions
    MaxGroups,      \* bound on the multi-port conditions
    MaxGroupPorts,  \* bound on the port names of one multi-port condition
    MaxOr           \* bound on the OrConditionCombiners

Ins  == ToSet(InOrder)
Outs == ToSet(OutOrder)

ASSUME /\ IsInjective(InOrder) /\ IsInjective(OutOrder)
       /\ Unknown \notin Ins
       /\ AnySize \in Int /\ AnySize < 0 /\ QueueSizes \subseteq Int
       /\ RxKinds \cup TxKinds \subseteq {"default", "double_buffer", "ucx"}
       /\ GxfKinds \subseteq {"double_buffer", "other", "missing"}

(* The condition types each port's switch accepts (844-894, 1122-1146);   *)
(* any other throws "Unsupported condition type".                          *)
InKinds  == {"MessageAvailable", "ExpiringMessageAvailable",
             "MultiMessageAvailableTimeout", "None"}
OutKinds == {"DownstreamMessageAffordable", "None"}
MultiKinds == {"MultiMessageAvailable", "MultiMessageAvailableTimeout"}

VARIABLES
    owns,       \* owns_context_
    graphInit,  \* is_gxf_graph_initialized_
    hasSpec,    \* op->spec() is set
    wrapped,    \* op_eid_ != 0: GXF made the operator's entity (bind_port)
    initd,      \* op->is_initialized_
    qs,         \* qs[p]: io_spec->queue_size() of input p, resolved
    inConds,    \* inConds[p]: io_spec->conditions() of input p
    nonDefIn,   \* op->non_default_input_ports()
    rx,         \* rx[p]: connector_type() of input p
    gxfRx,      \* gxfRx[p]: the receiver a wrapped entity holds for p
    tx,         \* tx[o]: connector_type() of output o
    gxfTx,      \* gxfTx[o]: the transmitter a wrapped entity holds for o
    outConds,   \* outConds[o]: io_spec->conditions() of output o
    nonDefOut,  \* op->non_default_output_ports()
    groups,     \* spec.multi_port_conditions(): [ports, kind] records
    orNames,    \* spec.or_combiner_port_names()
    rxMade,     \* inputs whose io_spec has a receiver (made or bound)
    txMade,     \* outputs whose io_spec has a transmitter (made or bound)
    added,      \* indices of the multi-port conditions added to the entity
    terms,      \* terms of each OrConditionCombiner made: <<port, kind>> sets
    pc,         \* "start", "inputs", "outputs", "multi", "or", "done",
                \* "returned" (early return) or "thrown"
    k           \* the loop's position in InOrder, OutOrder, groups, orNames

specVars == <<owns, graphInit, hasSpec, wrapped, qs, nonDefIn, rx, gxfRx, tx, gxfTx,
              nonDefOut, groups, orNames>>
vars == <<specVars, initd, inConds, outConds, rxMade, txMade, added, terms, pc, k>>

PortLists == {s \in SeqOf(Ins \cup {Unknown}, MaxGroupPorts) : s # <<>>}
CondLists == SeqOf(CondKinds, MaxConds)

(* 814-822: the ports named by any multi-port condition of the spec.       *)
GroupPorts == UNION {ToSet(groups[j].ports) : j \in 1..Len(groups)}

Init ==
    /\ owns \in BOOLEAN /\ graphInit \in BOOLEAN
    /\ hasSpec \in BOOLEAN /\ initd \in BOOLEAN /\ wrapped \in BOOLEAN
    /\ qs \in [Ins -> QueueSizes]
    /\ inConds \in [Ins -> CondLists]
    /\ nonDefIn \in SUBSET Ins
    /\ rx \in [Ins -> RxKinds] /\ gxfRx \in [Ins -> GxfKinds]
    /\ tx \in [Outs -> TxKinds] /\ gxfTx \in [Outs -> GxfKinds]
    /\ outConds \in [Outs -> CondLists]
    /\ nonDefOut \in SUBSET Outs
    /\ groups \in SeqOf([ports : PortLists, kind : GroupKinds], MaxGroups)
    /\ orNames \in SeqOf(PortLists, MaxOr)
    /\ rxMade = {} /\ txMade = {} /\ added = {} /\ terms = <<>>
    /\ pc = "start" /\ k = 1

-----------------------------------------------------------------------------
(* 2028-2080: the early returns: a graph not composed yet in an owned      *)
(* context (false), an operator already initialized (true), no spec        *)
(* (false).  Otherwise the entity, codelet and async condition are made.   *)
Begin ==
    /\ pc = "start"
    /\ pc' = IF (owns /\ ~graphInit) \/ initd \/ ~hasSpec THEN "returned" ELSE "inputs"
    /\ UNCHANGED <<specVars, initd, inConds, outConds, rxMade, txMade, added, terms, k>>

(* The conditions io_spec holds after 803-833: MessageAvailable with       *)
(* min_size = queue size when the port has none, is named by no multi-port *)
(* condition and by no user condition argument.                           *)
InCondsAfterDefault(p) ==
    IF inConds[p] = <<>> /\ p \notin GroupPorts /\ p \notin nonDefIn
    THEN <<"MessageAvailable">> ELSE inConds[p]

(* create_input_port (643-898): a kAnySize port returns at once (659-662); *)
(* a queue size below 1 throws (691-696); otherwise the receiver is made   *)
(* (699-804), the default condition added, and each condition set up,     *)
(* where an unsupported type throws (891-894).                             *)
CreateInputPort ==
    LET p == InOrder[k]
        cs == InCondsAfterDefault(p)
    IN /\ pc = "inputs"
       /\ k <= Len(InOrder)
       /\ ~wrapped
       /\ IF qs[p] = AnySize
          THEN k' = k + 1 /\ UNCHANGED <<rxMade, inConds, pc>>
          ELSE IF qs[p] < 1
          THEN pc' = "thrown" /\ UNCHANGED <<rxMade, inConds, k>>
          ELSE /\ rxMade' = rxMade \cup {p}
               /\ inConds' = [inConds EXCEPT ![p] = cs]
               /\ IF ToSet(cs) \subseteq InKinds
                  THEN k' = k + 1 /\ UNCHANGED pc
                  ELSE pc' = "thrown" /\ UNCHANGED k
       /\ UNCHANGED <<specVars, initd, outConds, txMade, added, terms>>

(* 1097-1117: DownstreamMessageAffordable (min_size 1) when the port has no *)
(* condition, is not UCX and is named by no user condition argument.        *)
OutCondsAfterDefault(o) ==
    IF outConds[o] = <<>> /\ tx[o] # "ucx" /\ o \notin nonDefOut
    THEN <<"DownstreamMessageAffordable">> ELSE outConds[o]

(* create_output_port (996-1148): the transmitter, the default condition,  *)
(* each condition set up; an unsupported type throws (1143-1145).          *)
CreateOutputPort ==
    LET o == OutOrder[k]
        cs == OutCondsAfterDefault(o)
    IN /\ pc = "outputs"
       /\ k <= Len(OutOrder)
       /\ ~wrapped
       /\ txMade' = txMade \cup {o}
       /\ outConds' = [outConds EXCEPT ![o] = cs]
       /\ IF ToSet(cs) \subseteq OutKinds
          THEN k' = k + 1 /\ UNCHANGED pc
          ELSE pc' = "thrown" /\ UNCHANGED k
       /\ UNCHANGED <<specVars, initd, inConds, rxMade, added, terms>>

(* bind_input_port (549-641), called at 653-656 for a wrapped operator:   *)
(* a connector type other than kDefault throws; a kAnySize port returns;  *)
(* a receiver missing from the entity is fatal; a DoubleBufferReceiver    *)
(* becomes the port's connector, any other type is only logged.  The     *)
(* port's conditions are not set up and no default one is added.          *)
BindInputPort ==
    LET p == InOrder[k]
    IN /\ pc = "inputs"
       /\ k <= Len(InOrder)
       /\ wrapped
       /\ IF rx[p] # "default" \/ (qs[p] # AnySize /\ gxfRx[p] = "missing")
          THEN pc' = "thrown" /\ UNCHANGED <<rxMade, k>>
          ELSE /\ rxMade' = IF qs[p] # AnySize /\ gxfRx[p] = "double_buffer"
                            THEN rxMade \cup {p} ELSE rxMade
               /\ k' = k + 1 /\ UNCHANGED pc
       /\ UNCHANGED <<specVars, initd, inConds, outConds, txMade, added, terms>>

(* bind_output_port (910-995), called at 1004-1007: the same for an output, *)
(* without the kAnySize case.                                               *)
BindOutputPort ==
    LET o == OutOrder[k]
    IN /\ pc = "outputs"
       /\ k <= Len(OutOrder)
       /\ wrapped
       /\ IF tx[o] # "default" \/ gxfTx[o] = "missing"
          THEN pc' = "thrown" /\ UNCHANGED <<txMade, k>>
          ELSE /\ txMade' = IF gxfTx[o] = "double_buffer" THEN txMade \cup {o} ELSE txMade
               /\ k' = k + 1 /\ UNCHANGED pc
       /\ UNCHANGED <<specVars, initd, inConds, outConds, rxMade, added, terms>>

(* 2104-2161: a multi-port condition whose port names are not all inputs  *)
(* is not added, and the `break` at 2126 leaves the loop, so no later one *)
(* is added either; a kind other than the two multi-port ones throws      *)
(* (2155-2158); otherwise the condition joins the entity (2128-2153).      *)
AddMultiPortCondition ==
    LET g == groups[k]
    IN /\ pc = "multi"
       /\ k <= Len(groups)
       /\ IF ~(ToSet(g.ports) \subseteq Ins)
          THEN pc' = "or" /\ k' = 1 /\ UNCHANGED added
          ELSE IF g.kind \notin MultiKinds
          THEN pc' = "thrown" /\ UNCHANGED <<added, k>>
          ELSE added' = added \cup {k} /\ k' = k + 1 /\ UNCHANGED pc
       /\ UNCHANGED <<specVars, initd, inConds, outConds, rxMade, txMade, terms>>

(* 2171-2198: an OrConditionCombiner whose terms are the conditions of the *)
(* ports it names (io_spec->conditions(), not the multi-port ones); a name *)
(* that is not an input throws.                                            *)
AddOrCombiner ==
    LET names == orNames[k]
    IN /\ pc = "or"
       /\ k <= Len(orNames)
       /\ IF ToSet(names) \subseteq Ins
          THEN /\ terms' = Append(terms, UNION {{<<n, c>> : c \in ToSet(inConds[n])} :
                                                 n \in ToSet(names)})
               /\ k' = k + 1 /\ UNCHANGED pc
          ELSE pc' = "thrown" /\ UNCHANGED <<terms, k>>
       /\ UNCHANGED <<specVars, initd, inConds, outConds, rxMade, txMade, added>>

(* The loops of 2088-2198, in order: inputs, outputs, multi-port          *)
(* conditions, OrConditionCombiners.                                       *)
LoopSeqLen(ph) ==
    CASE ph = "inputs"  -> Len(InOrder)
      [] ph = "outputs" -> Len(OutOrder)
      [] ph = "multi"   -> Len(groups)
      [] ph = "or"      -> Len(orNames)
NextPhase(ph) ==
    CASE ph = "inputs" -> "outputs" [] ph = "outputs" -> "multi" [] ph = "multi" -> "or"

EndLoop ==
    /\ pc \in {"inputs", "outputs", "multi"}
    /\ k > LoopSeqLen(pc)
    /\ pc' = NextPhase(pc) /\ k' = 1
    /\ UNCHANGED <<specVars, initd, inConds, outConds, rxMade, txMade, added, terms>>

(* 2199-2208: the conditions and resources are initialized, the parameters *)
(* set, and the operator marked initialized; the call returns true.        *)
Finish ==
    /\ pc = "or"
    /\ k > LoopSeqLen(pc)
    /\ initd' = TRUE
    /\ pc' = "done"
    /\ UNCHANGED <<specVars, inConds, outConds, rxMade, txMade, added, terms, k>>

Next ==
    \/ Begin
    \/ CreateInputPort \/ CreateOutputPort
    \/ BindInputPort \/ BindOutputPort
    \/ AddMultiPortCondition \/ AddOrCombiner
    \/ EndLoop \/ Finish

Spec == Init /\ [][Next]_vars

-----------------------------------------------------------------------------
(* The comments at 2119-2124: a multi-port condition naming a port the   *)
(* operator lacks is skipped ("The requested condition will not be       *)
(* added").  Once initialize_operator returns true, every multi-port      *)
(* condition whose ports are all inputs has been added to the operator's  *)
(* entity; its                                                             *)
(* ports got no default MessageAvailable (806-823), so it is the only     *)
(* condition that makes the operator wait for them.                       *)
ValidGroupsAdded ==
    pc = "done" =>
        \A j \in 1..Len(groups) : ToSet(groups[j].ports) \subseteq Ins => j \in added
=============================================================================
