--------------------------- MODULE ResourceGroups ---------------------------
(***************************************************************************)
(* The resource-grouping passes of GXFExecutor, run once every operator    *)
(* has its GXF entity:                                                     *)
(*  - the end of initialize_fragment (cuda_stream_pool.cpp 1973-2017):     *)
(*    each thread pool, in the order the fragment made them, adds its      *)
(*    operators to its entity group (which takes them out of the group     *)
(*    they were in) and rejects the pool when two of its operators use     *)
(*    GPUDevices of different CUDA ids;                                    *)
(*  - the network step of initialize_gxf_graph (2420-2548): with a         *)
(*    NetworkContext, every operator with a UCX port must find a GPUDevice *)
(*    in its entity group, and one is generated when the first such        *)
(*    operator of the group has none; without one, a UCX port is an error. *)
(*                                                                         *)
(* An operator's entity group is the pool that last took it, or GXF's     *)
(* default group.  gxf_device_id and the default group are GXF's (not in  *)
(* this repository): an operator's device is the CUDA id of the GPUDevice *)
(* its own components use (the error text at 2001-2006), NoDev for none.   *)
(* The configuration (devices, UCX ports, pool members, NetworkContext)   *)
(* is any the fragment can have; it is chosen in Init and never changes.  *)
(***************************************************************************)
EXTENDS Integers, Sequences, SequencesExt, FiniteSets, Functions

CONSTANTS
    Ops,          \* the non-virtual operators of the graph
    NodeOrder,    \* graph.get_nodes() order of Ops
    PoolSeq,      \* fragment_->thread_pools_, in make_thread_pool order
    MaxMembers,   \* bound on the operators of one pool
    Devs,         \* CUDA device ids of GPU-bound components
    NoDev,        \* "no GPUDevice among the operator's components"
    UcxDev,       \* HOLOSCAN_UCX_DEVICE_ID (0 when unset, 2286)
    Default       \* GXF's default entity group

Pools == ToSet(PoolSeq)

ASSUME /\ ToSet(NodeOrder) = Ops /\ IsInjective(NodeOrder)
       /\ IsInjective(PoolSeq) /\ Default \notin Pools
       /\ Devs \subseteq Nat /\ UcxDev \in Nat /\ MaxMembers \in Nat

VARIABLES
    dev,        \* dev[op]: gxf_device_id of op's entity, or NoDev
    ucx,        \* operators with a UCX input or output port
    members,    \* members[p]: pool->operators(), in order
    hasNet,     \* fragment_->network_context() is set
    group,      \* group[op]: op's entity group
    pi, oi,     \* the pool and the member the pool loop is at
    gpuDevice,  \* gpu_device of the pool loop, -1 before a device is seen
    ni,         \* the node the GPUDevice loop is at
    withDev,    \* groups_with_device
    generated,  \* operators given a generated GPUDevice
    netDev,     \* id of the network entity group's GPUDevice, or NoDev
    phase       \* "pools", "network", "synth", "nonet", "done", "failed"

cfgVars == <<dev, ucx, members, hasNet>>
vars == <<cfgVars, group, pi, oi, gpuDevice, ni, withDev, generated, netDev, phase>>

(* Pool member lists: distinct operators, at most MaxMembers of them.     *)
MemberLists == {s \in SeqOf(Ops, MaxMembers) : IsInjective(s)}

(* The operators in group g and the device ids present in g.              *)
InGroup(g) == {o \in Ops : group[o] = g}
GroupDevs(g) == {dev[o] : o \in InGroup(g)} \ {NoDev}

(* Everything but the operators' devices, which GraphEntities derives     *)
(* from the components that end up in each operator's entity.              *)
InitGroups ==
    /\ ucx \in SUBSET Ops
    /\ members \in [Pools -> MemberLists]
    /\ hasNet \in BOOLEAN
    /\ group = [o \in Ops |-> Default]
    /\ pi = 1 /\ oi = 1
    /\ gpuDevice = -1
    /\ ni = 1
    /\ withDev = {}
    /\ generated = {}
    /\ netDev = NoDev
    /\ phase = "pools"

Init ==
    /\ dev \in [Ops -> Devs \cup {NoDev}]
    /\ InitGroups

-----------------------------------------------------------------------------
Conflict == -2   \* the runtime_error thrown at 2013

(* Fault variant: the first device seen is never recorded (1998-2000).    *)
CheckDeviceNoRecord(g, d) ==
    IF d = NoDev \/ g = -1 THEN g
    ELSE IF g # d THEN Conflict ELSE g

(* 1997-2014: the pool's gpu_device after an operator of device d joins:  *)
(* unchanged for no device, d for the first one, Conflict for a different *)
(* one.                                                                    *)
CheckDevice(g, d) ==
    IF d = NoDev THEN g
    ELSE IF g = -1 THEN d
    ELSE IF g # d THEN Conflict ELSE g

(* 1990-2015: pool_entity_group->add(op) moves op into the pool's group,  *)
(* then its device is checked against the pool's.                         *)
AddToPool ==
    LET p == PoolSeq[pi]
        op == members[p][oi]
        g == CheckDevice(gpuDevice, dev[op])
    IN /\ phase = "pools"
       /\ pi <= Len(PoolSeq)
       /\ oi <= Len(members[p])
       /\ group' = [group EXCEPT ![op] = p]
       /\ IF g = Conflict
          THEN phase' = "failed" /\ UNCHANGED <<oi, gpuDevice>>
          ELSE oi' = oi + 1 /\ gpuDevice' = g /\ UNCHANGED phase
       /\ UNCHANGED <<cfgVars, pi, ni, withDev, generated, netDev>>

(* 1984-1989: the next pool starts with gpu_device = -1.                    *)
NextPool ==
    /\ phase = "pools"
    /\ pi <= Len(PoolSeq)
    /\ oi > Len(members[PoolSeq[pi]])
    /\ pi' = pi + 1 /\ oi' = 1 /\ gpuDevice' = -1
    /\ UNCHANGED <<cfgVars, group, ni, withDev, generated, netDev, phase>>

(* The pool loop ends; initialize_gxf_graph reaches the network step      *)
(* (2420 with a NetworkContext, 2530 without).                             *)
EndPools ==
    /\ phase = "pools"
    /\ pi > Len(PoolSeq)
    /\ phase' = IF hasNet THEN "network" ELSE "nonet"
    /\ UNCHANGED <<cfgVars, group, pi, oi, gpuDevice, ni, withDev, generated, netDev>>

(* 2420-2445: the network entity group gets a GPUDevice of id UcxDev in a *)
(* new entity, unless that entity's setup fails (only logged).            *)
NetworkSetup(ok) ==
    /\ phase = "network"
    /\ netDev' = IF ok THEN UcxDev ELSE NoDev
    /\ phase' = "synth"
    /\ UNCHANGED <<cfgVars, group, pi, oi, gpuDevice, ni, withDev, generated>>

(* Fault variant: the group is recorded before the UCX test.              *)
SynthStepMarksFirst ==
    LET op == NodeOrder[ni]
        g == group[op]
    IN /\ phase = "synth"
       /\ ni <= Len(NodeOrder)
       /\ ni' = ni + 1
       /\ withDev' = withDev \cup {g}
       /\ generated' = IF op \in ucx /\ g \notin withDev /\ dev[op] = NoDev
                       THEN generated \cup {op} ELSE generated
       /\ UNCHANGED <<cfgVars, group, pi, oi, gpuDevice, netDev, phase>>

(* Fault variant: no test for a UCX port (2476).                            *)
SynthStepNoUcxTest ==
    LET op == NodeOrder[ni]
        g == group[op]
        needs == g \notin withDev
    IN /\ phase = "synth"
       /\ ni <= Len(NodeOrder)
       /\ ni' = ni + 1
       /\ withDev' = IF needs THEN withDev \cup {g} ELSE withDev
       /\ generated' = IF needs /\ dev[op] = NoDev
                       THEN generated \cup {op} ELSE generated
       /\ UNCHANGED <<cfgVars, group, pi, oi, gpuDevice, netDev, phase>>

(* 2452-2516: an operator without a UCX port, or whose group already got  *)
(* a device, is skipped; otherwise its group is recorded, and when the    *)
(* operator has no GPUDevice one is generated in its entity (2505-2511).   *)
SynthStep ==
    LET op == NodeOrder[ni]
        g == group[op]
        needs == op \in ucx /\ g \notin withDev
    IN /\ phase = "synth"
       /\ ni <= Len(NodeOrder)
       /\ ni' = ni + 1
       /\ withDev' = IF needs THEN withDev \cup {g} ELSE withDev
       /\ generated' = IF needs /\ dev[op] = NoDev
                       THEN generated \cup {op} ELSE generated
       /\ UNCHANGED <<cfgVars, group, pi, oi, gpuDevice, netDev, phase>>

EndSynth ==
    /\ phase = "synth"
    /\ ni > Len(NodeOrder)
    /\ phase' = "done"
    /\ UNCHANGED <<cfgVars, group, pi, oi, gpuDevice, ni, withDev, generated, netDev>>

(* 2530-2541: without a NetworkContext a UCX port is a runtime_error.     *)
NoNetwork ==
    /\ phase = "nonet"
    /\ phase' = IF ucx = {} THEN "done" ELSE "failed"
    /\ UNCHANGED <<cfgVars, group, pi, oi, gpuDevice, ni, withDev, generated, netDev>>

Next ==
    \/ AddToPool \/ NextPool \/ EndPools
    \/ \E ok \in BOOLEAN : NetworkSetup(ok)
    \/ SynthStep \/ EndSynth
    \/ NoNetwork

Spec == Init /\ [][Next]_vars

-----------------------------------------------------------------------------
TypeOK ==
    /\ dev \in [Ops -> Devs \cup {NoDev}]
    /\ group \in [Ops -> Pools \cup {Default}]
    /\ gpuDevice \in Devs \cup {-1}
    /\ withDev \subseteq Pools \cup {Default}
    /\ generated \subseteq ucx
    /\ phase \in {"pools", "network", "synth", "nonet", "done", "failed"}

(* Spec section 4.5: the members of a thread pool's group use one device. *)
(* The loop checks each pool's member list as it adds the members, while  *)
(* a later pool can still take an operator away; once the loop is left    *)
(* without a throw, every pool's final group has at most one device id.   *)
PoolGroupsAgree ==
    phase \in {"network", "synth", "nonet", "done"} =>
        \A p \in Pools : Cardinality(GroupDevs(p)) <= 1

(* The comment at 2447-2448 and at 2500: every operator with a UCX port    *)
(* ends up with a GPUDevice in its entity group, its own, another member's *)
(* or one generated for the group, although only the first UCX operator   *)
(* of each group reached in node order is looked at.                       *)
UcxGroupsHaveDevice ==
    phase = "done" /\ hasNet =>
        \A o \in ucx : \E m \in InGroup(group[o]) : dev[m] # NoDev \/ m \in generated
=============================================================================
