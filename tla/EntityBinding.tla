---------------------------- MODULE EntityBinding ----------------------------
(***************************************************************************)
(* How GXFExecutor puts the GXF components that a scheduler, an operator   *)
(* or a NetworkContext holds as arguments into a GXF graph entity          *)
(* (cuda_stream_pool.cpp):                                                 *)
(*  - initialize_scheduler (2744-2785) runs first (2376-2377): the         *)
(*    scheduler's resources go into the scheduler entity through           *)
(*    initialize_gxf_resources (376-392), then its arguments through       *)
(*    add_component_args_to_graph_entity;                                  *)
(*  - initialize_operator (2170) adds each operator's arguments to the     *)
(*    operator's own entity, in the order the fragment initializes the     *)
(*    operators;                                                           *)
(*  - with a NetworkContext, initialize_network_context (2787-2830) does   *)
(*    the same for the network entity after the thread-pool loop (2423).   *)
(* add_component_args_to_graph_entity (2934-2979) and the add_condition,   *)
(* add_resource and add_iospec helpers (2865-2932) are mutually recursive: *)
(* a component's own arguments are visited before the component is put    *)
(* into the entity, and a component that already has an entity keeps it.  *)
(*                                                                         *)
(* A component is a model value; its kind, its own arguments and, for an   *)
(* IOSpec, its connector and conditions are constants of the fragment.    *)
(* Only the Holoscan path (is_holoscan(), 2264-2276) is modelled.          *)
(***************************************************************************)
EXTENDS FiniteSets, Sequences, SequencesExt

CONSTANTS
    Ops,          \* the operators of the fragment
    Comps,        \* the conditions, resources and IOSpecs of the fragment
    Kind,         \* Kind[c]: GxfResource, NativeResource, GxfCondition, NativeCondition, IOSpec
    CompArgs,     \* CompArgs[c]: c's own arguments, <<component, container>> pairs
    Connector,    \* Connector[io]: io_spec->connector(), or NoConnector
    IoConds,      \* IoConds[io]: the conditions of io_spec->conditions()
    NoConnector,
    Sched,        \* the scheduler's graph entity (scheduler_entity_)
    Net,          \* the network context's graph entity (network_context_entity_)
    None,         \* "no graph entity yet" (gxf_graph_entity() is null)
    InitOrder,    \* the operators in the order initialize_operator is called
    OpArgMenu,    \* the argument lists an operator may hold
    SchedResMenu, SchedArgMenu, NetResMenu, NetArgMenu

Entities == Ops \cup {Sched, Net}

(* ArgContainerType: scalar and vector arguments are followed (2946-2947), *)
(* any other container is skipped with an error (2948-2952).               *)
Containers == {"kNative", "kVector", "kArray"}
Followed == {"kNative", "kVector"}
IsArgList(args) == args \subseteq Comps \X Containers

IsGxf(c) == Kind[c] \in {"GxfResource", "GxfCondition"}

ASSUME /\ Entities \cap Comps = {} /\ None \notin Entities
       /\ ToSet(InitOrder) = Ops /\ IsInjective(InitOrder)
       /\ \A c \in Comps : IsArgList(CompArgs[c])
       /\ \A c \in Comps : Kind[c] = "IOSpec" =>
              /\ Connector[c] \in {x \in Comps : Kind[x] \in {"GxfResource", "NativeResource"}}
                                  \cup {NoConnector}
              /\ IoConds[c] \subseteq {x \in Comps : Kind[x] \in {"GxfCondition", "NativeCondition"}}

VARIABLES
    opArgs,       \* opArgs[o]: op->args() after update_connector_arguments
    schedRes,     \* sch->resources() (GXF resources only, 380)
    schedArgs,    \* sch->args()
    netRes,       \* network_context->resources()
    netArgs,      \* network_context->args()
    hasNet,       \* fragment_->network_context() is set
    entity,       \* entity[c]: c's gxf_graph_entity(), or None
    order,        \* the entities filled so far, in order
    stage         \* "sched", "ops", "net", "done"

bindCfg == <<opArgs, schedRes, schedArgs, netRes, netArgs>>
bindVars == <<bindCfg, entity, order, stage>>

-----------------------------------------------------------------------------
(* 2934-2979 with 2865-2932.  AddComponentArgs visits the arguments one at *)
(* a time; add_condition_to_graph_entity and add_resource_to_graph_entity  *)
(* first visit the component's own arguments (2868, 2892), then give the   *)
(* component the entity only when it is a GXF one without an entity yet   *)
(* (2870-2884, 2894-2905); add_iospec_to_graph_entity returns early        *)
(* without a connector (2916-2919), otherwise adds the connector and then  *)
(* every condition of the port (2920-2930).                                *)
RECURSIVE AddComponentArgs(_, _, _), AddComponent(_, _, _), AddComponents(_, _, _)

AddComponentArgs(args, e, ent) ==
    IF args = {} THEN ent
    ELSE LET a == CHOOSE x \in args : TRUE
             ent2 == IF a[2] \in Followed THEN AddComponent(a[1], e, ent) ELSE ent
         IN  AddComponentArgs(args \ {a}, e, ent2)

AddComponents(cs, e, ent) ==
    IF cs = {} THEN ent
    ELSE LET c == CHOOSE x \in cs : TRUE
         IN  AddComponents(cs \ {c}, e, AddComponent(c, e, ent))

(* Fault variant: a GXF component is put into the entity even when it     *)
(* already has one (the check at 2877 and 2899 dropped).                   *)
AddComponentOverwrites(c, e, ent) ==
    IF Kind[c] = "IOSpec"
    THEN IF Connector[c] = NoConnector THEN ent
         ELSE AddComponents(IoConds[c], e, AddComponent(Connector[c], e, ent))
    ELSE LET ent2 == AddComponentArgs(CompArgs[c], e, ent)
         IN  IF IsGxf(c) THEN [ent2 EXCEPT ![c] = e] ELSE ent2

AddComponent(c, e, ent) ==
    IF Kind[c] = "IOSpec"
    THEN IF Connector[c] = NoConnector THEN ent
         ELSE AddComponents(IoConds[c], e, AddComponent(Connector[c], e, ent))
    ELSE LET ent2 == AddComponentArgs(CompArgs[c], e, ent)
         IN  IF IsGxf(c) /\ ent2[c] = None THEN [ent2 EXCEPT ![c] = e] ELSE ent2

(* 376-392 initialize_gxf_resources: a resource not yet initialized gets   *)
(* the entity directly, without a visit of its own arguments.  A component *)
(* is initialized by the ArgumentSetter of the owner whose arguments gave  *)
(* it its entity (comment at 2882, 2904), so "initialized" is "has an     *)
(* entity"; one that has is skipped with the error log at 389.             *)
InitializeGxfResources(rs, e, ent) ==
    [c \in Comps |-> IF c \in rs /\ ent[c] = None THEN e ELSE ent[c]]

-----------------------------------------------------------------------------
Init ==
    /\ opArgs \in [Ops -> OpArgMenu]
    /\ schedRes \in SchedResMenu /\ schedArgs \in SchedArgMenu
    /\ netRes \in NetResMenu /\ netArgs \in NetArgMenu
    /\ hasNet \in BOOLEAN
    /\ entity = [c \in Comps |-> None]
    /\ order = <<>>
    /\ stage = "sched"

(* 2744-2785: resources (2776), then arguments (2779) of the scheduler.     *)
InitializeScheduler ==
    /\ stage = "sched"
    /\ entity' = AddComponentArgs(schedArgs, Sched,
                                  InitializeGxfResources(schedRes, Sched, entity))
    /\ order' = <<Sched>>
    /\ stage' = "ops"
    /\ UNCHANGED <<bindCfg, hasNet>>

(* 2170: initialize_operator adds op's arguments to op's entity; the     *)
(* fragment reaches the operators in the order of its worklist            *)
(* (ConnectionPlanner), InitOrder here.                                    *)
InitializeOperator(op) ==
    /\ stage = "ops"
    /\ Len(order) <= Len(InitOrder)
    /\ op = InitOrder[Len(order)]
    /\ entity' = AddComponentArgs(opArgs[op], op, entity)
    /\ order' = Append(order, op)
    /\ UNCHANGED <<bindCfg, hasNet, stage>>

EndOperators ==
    /\ stage = "ops"
    /\ Ops \subseteq ToSet(order)
    /\ stage' = "net"
    /\ UNCHANGED <<bindCfg, hasNet, entity, order>>

(* 2417-2423 and 2787-2830: resources (2821), then arguments (2824) of the *)
(* NetworkContext go into the network entity.                              *)
InitializeNetworkContext ==
    /\ stage = "net"
    /\ hasNet
    /\ entity' = AddComponentArgs(netArgs, Net, InitializeGxfResources(netRes, Net, entity))
    /\ order' = Append(order, Net)
    /\ stage' = "done"
    /\ UNCHANGED <<bindCfg, hasNet>>

NoNetworkContext ==
    /\ stage = "net"
    /\ ~hasNet
    /\ stage' = "done"
    /\ UNCHANGED <<bindCfg, hasNet, entity, order>>

Next ==
    \/ InitializeScheduler
    \/ \E op \in Ops : InitializeOperator(op)
    \/ EndOperators
    \/ InitializeNetworkContext
    \/ NoNetworkContext

Spec == Init /\ [][Next]_<<bindVars, hasNet>>

-----------------------------------------------------------------------------
TypeOK ==
    /\ opArgs \in [Ops -> SUBSET (Comps \X Containers)]
    /\ entity \in [Comps -> Entities \cup {None}]
    /\ order \in Seq(Entities) /\ IsInjective(order)
    /\ stage \in {"sched", "ops", "net", "done"}

(* The reference: what a component's arguments lead to, as a graph, and    *)
(* the components each entity's owner holds: resources put in directly     *)
(* and everything reachable from its followed arguments.                   *)
Leads(x) ==
    IF Kind[x] = "IOSpec"
    THEN IF Connector[x] = NoConnector THEN {} ELSE {Connector[x]} \cup IoConds[x]
    ELSE {a[1] : a \in {b \in CompArgs[x] : b[2] \in Followed}}

(* The components reachable from the set xs along Leads, xs included.    *)
RECURSIVE Closure(_)
Closure(xs) ==
    LET more == xs \cup UNION {Leads(x) : x \in xs}
    IN  IF more = xs THEN xs ELSE Closure(more)

ClosureOf == [c \in Comps |-> Closure({c})]

Reached(args) == UNION {ClosureOf[a[1]] : a \in {b \in args : b[2] \in Followed}}

Holds(e) ==
    CASE e = Sched -> schedRes \cup Reached(schedArgs)
      [] e = Net   -> netRes \cup Reached(netArgs)
      [] OTHER     -> Reached(opArgs[e])

(* The entity of each component when the entities of the owners in seq   *)
(* take, in turn, the GXF components they hold that have none yet.        *)
RECURSIVE FirstHolders(_)
FirstHolders(seq) ==
    IF seq = <<>> THEN [c \in Comps |-> None]
    ELSE LET prev == FirstHolders(Front(seq))
             e == Last(seq)
             h == Holds(e)
         IN  [c \in Comps |-> IF prev[c] = None /\ IsGxf(c) /\ c \in h THEN e ELSE prev[c]]

(* GXFExecutor's contract for shared components (the comments at 2876 and  *)
(* 2897-2898: "do not overwrite previous graph entity ... the same         *)
(* allocator may be used across multiple operators"): after any prefix of  *)
(* the scheduler, the operators in their initialization order and the      *)
(* NetworkContext, every GXF component that one of them holds, directly    *)
(* or through the arguments of other components, is in the entity of the   *)
(* first of them that holds it, and no other component is in any entity.   *)
(* It takes the recursion of 2934-2979, the guard in each helper and the   *)
(* direct path of initialize_gxf_resources to agree.                        *)
EntityOfFirstHolder == entity = FirstHolders(order)
=============================================================================
