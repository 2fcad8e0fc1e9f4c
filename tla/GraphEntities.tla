---------------------------- MODULE GraphEntities ----------------------------
(***************************************************************************)
(* Composition of EntityBinding and ResourceGroups in the order            *)
(* initialize_gxf_graph runs them (cuda_stream_pool.cpp):                  *)
(*   scheduler (2376-2377) -> operators (initialize_fragment, 2170) ->     *)
(*   thread-pool loop (1973-2017) -> NetworkContext (2417-2423) together   *)
(*   with the network GPUDevice (2425-2445) -> GPUDevice loop (2447-2516). *)
(* An operator's device, which the thread-pool check and the GPUDevice     *)
(* loop read through gxf_device_id, is no longer chosen freely: it is the  *)
(* CUDA id of a GPUDevice that the binding put into the operator's entity. *)
(* When two such GPUDevices end up in one entity, which id GXF reports is  *)
(* GXF's (not in this repository), so either may be taken.                 *)
(***************************************************************************)
CONSTANTS
    Ops, Comps, Kind, CompArgs, Connector, IoConds, NoConnector, Sched, Net, None,
    InitOrder, OpArgMenu, SchedResMenu, SchedArgMenu, NetResMenu, NetArgMenu,
    NodeOrder, PoolSeq, MaxMembers, Devs, NoDev, UcxDev, Default,
    DeviceOf      \* DeviceOf[c]: the dev_id of GPUDevice c, NoDev for other components

VARIABLES opArgs, schedRes, schedArgs, netRes, netArgs, hasNet, entity, order, stage
VARIABLES dev, ucx, members, group, pi, oi, gpuDevice, ni, withDev, generated, netDev, phase

EB == INSTANCE EntityBinding
RG == INSTANCE ResourceGroups

bindVars == <<opArgs, schedRes, schedArgs, netRes, netArgs, entity, order, stage>>

groupVars == <<dev, ucx, members, group, pi, oi, gpuDevice, ni, withDev, generated, netDev, phase>>
vars == <<bindVars, hasNet, groupVars>>

(* The devices of the GPUDevices in op's entity.                           *)
EntityDevs(op, ent) == {DeviceOf[c] : c \in {x \in Comps : ent[x] = op}} \ {NoDev}

Init ==
    /\ EB!Init
    /\ dev = [o \in Ops |-> NoDev]
    /\ RG!InitGroups

BindScheduler ==
    /\ EB!InitializeScheduler
    /\ UNCHANGED groupVars

(* initialize_operator of op fills op's entity; its device is then fixed. *)
BindOperator(op) ==
    /\ EB!InitializeOperator(op)
    /\ LET ds == EntityDevs(op, entity')
       IN  dev' \in {[dev EXCEPT ![op] = d] : d \in IF ds = {} THEN {NoDev} ELSE ds}
    /\ UNCHANGED <<ucx, members, group, pi, oi, gpuDevice, ni, withDev, generated, netDev, phase>>

BindingDone ==
    /\ EB!EndOperators
    /\ UNCHANGED groupVars

(* The thread-pool loop ends initialize_fragment, after every operator.   *)
Pools ==
    /\ stage = "net"
    /\ (RG!AddToPool \/ RG!NextPool \/ RG!EndPools)
    /\ UNCHANGED bindVars

(* network_context->initialize() (2423), then the GPUDevice of the        *)
(* network entity group (2425-2445), in one step of initialize_gxf_graph. *)
Network(ok) ==
    /\ EB!InitializeNetworkContext
    /\ RG!NetworkSetup(ok)

NoNetwork ==
    /\ EB!NoNetworkContext
    /\ RG!NoNetwork

Synth ==
    /\ (RG!SynthStep \/ RG!EndSynth)
    /\ UNCHANGED <<bindVars, hasNet>>

Next ==
    \/ BindScheduler
    \/ \E op \in Ops : BindOperator(op)
    \/ BindingDone
    \/ Pools
    \/ \E ok \in BOOLEAN : Network(ok)
    \/ NoNetwork
    \/ Synth

Spec == Init /\ [][Next]_vars

-----------------------------------------------------------------------------
TypeOK == EB!TypeOK /\ RG!TypeOK

(* The thread-pool device check (1997-2014), now reading the devices the  *)
(* binding left in each operator's entity: no pool's final group holds two *)
(* device ids once the loop is left without a throw.                       *)
PoolGroupsAgree == RG!PoolGroupsAgree

(* The GPUDevice loop (2447-2516): every operator with a UCX port ends up  *)
(* with a GPUDevice in its entity group, now with the operators' own       *)
(* GPUDevices being those their arguments bound to their entities.         *)
UcxGroupsHaveDevice == RG!UcxGroupsHaveDevice

(* The binding of the scheduler's, the operators' and the NetworkContext's *)
(* arguments (2744-2979): each GXF component is in the entity of the first *)
(* of them that holds it, along the whole composed run.                    *)
EntityOfFirstHolder == EB!EntityOfFirstHolder
=============================================================================
