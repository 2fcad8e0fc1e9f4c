# TLA+ models of the Holoscan graph lowering and connection-resolution engine

This directory holds TLA+ specifications of the code in
`src/src/core/resources/gxf/cuda_stream_pool.cpp` (the `GXFExecutor`
implementation) and `src/src/core/fragment.cpp` (`Fragment::add_flow`,
`run`, `reset_state`). It also holds the TLC configurations that check them.
`PROJECT.json` lists every component, run, fault variant, the
definition-to-source map, the findings and the hazards.

## The system

An application builds an operator graph with `Fragment::add_flow`. Each edge
`u -> v` carries a port map: a set of `<<source port, target port>>` pairs.
When `add_flow` gets no port pairs and the downstream operator has no input
(or already has an input execution port), the edge is control flow. In that
case `GXFExecutor::add_control_flow` adds the execution ports `out_exec` and
`in_exec` (the latter with `IOSpec::kPrecedingCount`).

`GXFExecutor::initialize_fragment` turns the graph into GXF components:

1. Distributed lowering. `generate_connection_map` groups the fragment's
   inter-fragment connection items by operator and port, and
   `create_virtual_operators_and_connections` gives each output item a
   `VirtualTransmitterOp` and each input item a `VirtualReceiverOp` plus a
   `ForwardOp`, joined to the operator by further `add_flow` calls. If the source port feeds
   only that operator (`connect_ucx_transmitters_to_virtual_ops`,
   `connection_count == 1`), the port's own connector becomes the UCX
   transmitter.
2. The worklist loop. Roots are queued in insertion order. For each popped
   operator the loop does this, in order:
   - the cycle check for its input execution port (kSizeOne, and kNone on
     the output execution port for a self edge);
   - `op->initialize()`, which creates its receivers (queue size resolved
     here, including `kPrecedingCount`, which throws when below 1) and its
     transmitters (with their default conditions);
   - Broadcast transmitters and direct Connections from the
     already-initialized predecessors;
   - indegree decrements and queueing of successors that became ready;
   - forward Connections to successors already initialized because of a
     cycle;
   - Broadcast entities for fanned-out ports when some target is
     UCX/virtual, and forward Broadcast connections.

   When the worklist empties with operators unvisited, the loop zeroes
   every nonzero indegree and appends those operators in insertion order.
   This is the cycle break.
3. Thread pools and GPU devices are resolved after the loop. Then
   `initialize_gxf_graph`, `activate_gxf_graph` and `run_gxf_graph` run the
   graph.

Around this sits the run lifecycle. `Fragment::run` and `run_async` call
`reset_state` (which returns early unless run was called), then the
executor's `run`/`run_async`. `initialize_gxf_graph` tests and sets
`is_gxf_graph_initialized_`, then lowers under a function-static mutex shared
by every executor of the process. `run_gxf_graph` registers the SIGINT/SIGTERM
handler, activates the graph outside the mutex and waits for it. The handler
keeps two static atomics: the first signal asks for a graceful stop and
starts a 3 s force-exit countdown; a later signal calls `quick_exit`.

## Modules

### `ConnectionPlanner.tla`: the worklist loop of `initialize_fragment`

State (VARIABLES) and what it stands for in the code:

| variable | code |
|---|---|
| `decl`, `pm0` | the composed graph: declared input port of each operator, port maps (input of the loop) |
| `execSpec` | the port `output_exec_spec()` points to after `add_control_flow` |
| `pm` | the graph's port maps, which `connect_broadcast_to_previous_op` erases from |
| `worklist`, `indegree`, `visited` | `worklist`, `indegrees`, `visited_nodes` |
| `cap`, `gated` | resolved receiver capacity per input port; operators whose exec input was forced to kSizeOne |
| `outCond` | default condition of each output port |
| `conns` | a bag of `nvidia::gxf::Connection`s (a bag, so a duplicate shows) |
| `ucxTx`, `bcast` | UcxTransmitters inside Broadcast entities; `broadcast_entities` keys |
| `status` | running / done (loop left) / failed (initialize threw) |

Actions:
- `Visit` is one whole iteration for an operator whose `initialize()`
  succeeds: lines 1708-1970.
- `VisitFails` is an iteration whose `initialize()` throws.
- `CycleBreak` is the fallback at 1695-1706.
- `Finish` is the `break` at 1692.

The order in which ready successors are queued follows
`get_next_nodes`, an `unordered_map` order. So `Visit` queues them in any
order (`SetToSeqs`). The code's `continue` for an already-visited operator
is not an action. The invariant `WorklistFresh` shows that branch is never
taken.

Helpers translate the code they are mapped to: `QueueSize`,
`PrecedingCount`, `InitFails`, `OutCondition`, `CycleDetected`,
`ConnectPrevious`/`DirectConns`, `Bcast*`/`EraseBcast`, `Downstream`,
`ConnectForward`, `HasUcxTarget`, `NewBcast` and `IsUcx`.

The graph queries (`Preds`, `Succs`, port-map keys) come from
`OperatorGraph`, which is not in this repository. They are modelled from the
spec. One more assumption comes from outside the repository: a
`VirtualOperator` never receives a GXF id, so it is never treated as
initialized.

### `MC_ConnectionPlanner.tla`: the instances

Ops `a`, `b`, `c` in insertion order `<<a, b, c>>`. Every graph that `add_flow`
can compose over them is an initial state (`LocalGraphs`, 13 824 graphs):

- each operator declares no input, a size-1 input or a kPrecedingCount
  input;
- each of the nine ordered pairs (self edges included) has no edge or the
  one edge `add_flow` allows: control flow into an operator without inputs,
  data otherwise.

The distributed instances add a virtual operator `x` fed by the data output
of one local operator. `ExecGraphs` and `DataGraphs` restrict the graphs to
control-only and data-only.

Three operators are enough for the interesting cases:
- a self edge;
- a two-operator cycle with an outside predecessor (a loop entry);
- fan-out of one port to two operators, plus an inter-fragment target;
- a cycle break with an operator downstream of a cycle.

Symmetry is not used, because insertion order matters.

### `AddFlow.tla`: `Fragment::add_flow` over a sequence of calls

State: each operator's output labels `outs`, plain input labels `ins`, the
receiver inputs `recv` that `add_receivers` made (`p:0`, `p:1`, ...), the
graph's port maps `pm`, and how the last call ended. `FlowCall` is one whole
call (`fragment.cpp` 338-588):
- `AddControlFlow` for no port pairs into an operator without inputs
  (both must be native);
- `Reject` for the checks that fail before any port is made;
- `AddDataFlow` otherwise: pairs defaulted to `("", "")`, grouped by output
  label and resolved in `std::set` order (`SortedLabels`, `FoldLeft`), a lone
  `""` renamed, a kAnySize input or a `std::vector<IOSpec*>` parameter
  expanded into a new receiver input, and the first failed check returning
  without undoing the receivers already made.

`AddFlow` is a call of `compose()`, bounded by `MaxCalls`. It is checked
through `Lowering`, whose instance `MC_Lowering` has a native source `a`, a GXF operator `g` with two
outputs, an operator `v` with a `receivers` vector parameter and an operator
`w` with a kAnySize input `m`.

### `Lowering.tla`: `compose()` followed by receiver-side lowering

`Lowering` EXTENDS `AddFlow`. `Compose` makes the `add_flow` calls of
`compose()` over the user operators; `EndCompose` is `compose_graph`
returning. Then each connection item is lowered with the same `FlowCall`:
- `LowerOutput`: `add_flow(op, vt, {port, port})`;
- `LowerInput`: `param_index` (`ParamIndex`: the parameter's current size
  when the port is missing or kAnySize, else -1), the ForwardOp name
  (`ForwardName`, kept in `fwName`), then `add_flow(vr, fw, {port, "in"})`;
- `ForwardInput`: `add_flow(fw, op, {"out", port})`.
Items of one `<op, port>` go in vector order (`NextOfKey`); different keys
interleave, since `connection_map` is an `unordered_map`.

`MC_Lowering` has five items: two on `w.m` (kAnySize), one on
`v.receivers`, one on `g.in` (a plain input, index -1) and one output item
on `a.out`.

### `ResourceGroups.tla`: thread pools and GPUDevices

The post-pass at the end of `initialize_fragment` and the network step of
`initialize_gxf_graph`. Init chooses the configuration: each operator's
device (`dev`, or `NoDev`), the operators with UCX ports, each pool's member
list and whether there is a NetworkContext. Actions:
- `AddToPool` moves one member into the pool's entity group and checks its
  device (`CheckDevice`: the first id is recorded, a different one throws);
  `NextPool` resets `gpu_device` to -1; `EndPools` leaves the loop.
- `NetworkSetup` gives the network group its GPUDevice (or logs a failure);
  `SynthStep` handles one node of the GPUDevice loop (skip without UCX or
  when the group is in `groups_with_device`; otherwise record the group and
  generate a device when the operator has none); `EndSynth` ends it.
- `NoNetwork` throws when a UCX port exists without a NetworkContext.

`gxf_device_id` and GXF's default entity group are not in this repository.
An operator's device is the id of its own components' GPUDevice, as the
error message at 2001-2006 describes. `Init` chooses that device freely;
`InitGroups` is everything else, and `GraphEntities` uses it to take the
device from the entity binding instead.

### `EntityBinding.tla`: arguments into GXF entities

This module covers three owners and the functions that bind their
arguments:
- `initialize_scheduler` (2744-2785), called at 2377;
- `initialize_operator` at 2170;
- `initialize_network_context` (2787-2830), called at 2423;
- `initialize_gxf_resources` (376-392);
- the mutually recursive `add_component_args_to_graph_entity`,
  `add_condition_to_graph_entity`, `add_resource_to_graph_entity` and
  `add_iospec_to_graph_entity` (2865-2979).

The recursion is three RECURSIVE operators: `AddComponentArgs`,
`AddComponent` and `AddComponents`. A component's own arguments are
visited first. The component then joins the entity only if it is a GXF
component with no entity yet. Arguments whose container is neither scalar
nor vector are skipped. An IOSpec without a connector returns early.

The state is:
- `entity`, each component's graph entity;
- `order`, the owners bound so far;
- `stage`.

The actions are `InitializeScheduler`, `InitializeOperator` (in the
worklist order `InitOrder`), `EndOperators`, `InitializeNetworkContext` and
`NoNetworkContext`.

The reference is `FirstHolders`. It is written without the recursion:
- each owner holds the components reachable from its followed arguments
  (`Closure` over `Leads`), plus its directly initialized resources;
- folding over `order`, each GXF component goes to the first owner that
  holds it.

`EntityOfFirstHolder` says that the recursive binding equals this
reference in every state. Components are initialized by their first
owner's ArgumentSetter (the comments at 2882 and 2904), so "not yet
initialized" in `initialize_gxf_resources` is modelled as "has no entity".

### `GraphEntities.tla`: binding, then grouping

`GraphEntities` composes `EntityBinding` and `ResourceGroups` (both by
INSTANCE) in the order that `initialize_gxf_graph` runs them:
1. the scheduler;
2. the operators;
3. the thread-pool loop;
4. `network_context->initialize()` together with the network GPUDevice, as
   one step (`Network`);
5. the GPUDevice loop.

An operator's `dev` is set when its arguments are bound. It is the CUDA id
of a GPUDevice that the binding put into that operator's entity, or `NoDev`.
If there are two such GPUDevices, GXF decides which id it reports, so
either one may be taken.

`MC_ResourceGroups` instantiates the composition with:
- three operators, initialized in the order c, b, a (against node order);
- two pools of up to two members;
- ten components:
  - GPUDevices on CUDA 0 and 1;
  - an allocator whose GPUDevice is on CUDA 1;
  - a native resource and a GXF condition that lead to them;
  - a receivers IOSpec, and an IOSpec with no connector;
  - a clock for the scheduler.

Each operator holds one of three argument lists. The run has 897 280
states and takes about 90 s.

### `OperatorInit.tla`: initializing one operator

`GXFExecutor::initialize_operator` with the `create_input_port` and
`create_output_port` calls it makes; in the worklist loop this is
`op->initialize()`. Init chooses the operator's spec: per input, its queue
size as resolved, its conditions and whether a user condition argument names
it; per output, its conditions and connector type; the multi-port conditions
(port names, possibly one the operator lacks, and kind); the
OrConditionCombiner port lists; and the flags behind the early returns.
Actions, in the order the call takes them:
- `Begin`: the early returns (graph not composed in an owned context,
  already initialized, no spec);
- `CreateInputPort`: one input. A kAnySize port returns at once, and a queue
  size below 1 throws. Otherwise the port gets a receiver, the default
  MessageAvailable (`InCondsAfterDefault`: none when the port has conditions
  or is named by any multi-port condition or user condition argument), and
  its conditions, where an unsupported type throws;
- `CreateOutputPort`: the same for an output, with DownstreamMessageAffordable
  withheld from UCX ports;
- `BindInputPort`/`BindOutputPort`: the same step for an operator wrapped as
  a GXF codelet (`op_eid_ != 0`). The port is bound to the receiver or
  transmitter GXF made, which must be a DoubleBuffer one (another type is
  only logged). A connector type other than kDefault, or a missing
  component, throws. No condition is set up;
- `AddMultiPortCondition`: one multi-port condition. A missing port name
  leaves the whole loop (the `break` at 2126);
- `AddOrCombiner`: one combiner over the named ports' own conditions;
- `EndLoop` and `Finish`, which marks the operator initialized.

`MC_OperatorInit` has two inputs and one output. `MC_multiport.cfg` varies
the multi-port conditions (up to two, over one or two names drawn from the
inputs and one unknown name) and whether the operator is wrapped. It keeps
the per-port choices small.

### `SignalHandler.tla`: the interrupt handler

The lambda of `setup_signal_handlers` (2566-2611) split at its atomic
accesses: `Deliver` loads `interrupt_requested_`; `RequestShutdown` stores it
and detaches the graceful thread; `ForceExit` is a later signal's
`quick_exit`; the graceful thread's `GracefulStop`, `CheckCountdown` and
`StartCountdown`; the countdown thread's `CountdownExpires`.
`ResetInterruptFlags` is a conjunct of `destroy_context`.

### `Lifecycle.tla`: fragments running in one process

Each fragment's call of `run`/`run_async` is a thread `pc[f]`: `Call`
(reset_state, then the initialized-flag test), `Lock`, `Lower` (outcome ok,
false or throw; its inside is `ConnectionPlanner`), `Register`, `Activate`
(GxfGraphActivate succeeds, or its FATAL macro throws before the flag is
set, 2560), `RunAsync` (GxfGraphRunAsync starts the graph, or its FATAL macro
throws at 2629, which leaves `is_gxf_graph_activated_` set, run not marked called and the graph
not released) and `Finish` (the wait's outcome ok, fail or rethrow). Which
FATAL calls may throw is the constant `FatalCalls`. `TypeOK` checks types
plus one structural fact: only a thread in lowering holds the static mutex. It composes
`SignalHandler` (`SH == INSTANCE SignalHandler`): its handler runs only for
fragments whose context registered it, and its graceful thread's
`stop_execution` is what lets a streaming graph's wait return.

## Runs

| run | module / cfg | expect | what it shows |
|---|---|---|---|
| local_planner | MC_ConnectionPlanner / MC_local.cfg | pass | On every local graph the loop terminates, never pops a stale entry, and wires each port pair exactly once. |
| distributed_dag | MC_ConnectionPlanner / MC_dist_dag.cfg | pass | With an inter-fragment edge on an acyclic graph, UCX collapse and Broadcast insertion deliver each pair exactly once. |
| distributed_cycle | MC_ConnectionPlanner / MC_dist_cycle.cfg | violation | Broadcast created after a target was initialized by a cycle: that target is wired twice. |
| feedback_exec | MC_ConnectionPlanner / MC_feedback_exec.cfg | violation | The cycle break visits a loop member before the loop entry, whose exec input keeps min_size 2: deadlock. |
| self_cycle_exec_out | MC_ConnectionPlanner / MC_selfexec.cfg | violation | `outputs().begin()` may bind the data port as the execution output, so kNone lands on the wrong port. |
| life_faults | Lifecycle / MC_life_faults.cfg | pass | Two fragments making one `run()` or `run_async()` call each, lowering that returns false or throws, GxfGraphActivate and GxfGraphRunAsync that throw, waits that fail or rethrow, two signals: every call returns (the mutex is released on every path) and a signal on a running graph ends it. |
| life_retry | Lifecycle / MC_life_retry.cfg | violation | A `run()` retried after lowering threw skips reset and initialization and runs the partly lowered graph; `run_async()` ignores a `false` from lowering (418) and runs it at once. |
| signal_race | Lifecycle / MC_signal_race.cfg | violation | Two signals both pass the `load()` before either `store()`: two graceful shutdowns. |
| signal_timeout | Lifecycle / MC_signal_timeout.cfg | violation | After a graceful shutdown and `run()` returning, the countdown still finds the flag set and calls `quick_exit(1)`. |
| compose_lower | MC_Lowering / MC_lowering.cfg | pass | Every edge compose() and lowering record names a materialized, non-kAnySize port, and each ForwardOp feeds exactly the receiver its name announces. |
| groups | MC_ResourceGroups / MC_groups.cfg | pass | With devices taken from the entity binding: every GXF component shared by the scheduler, operators or NetworkContext is in its first holder's entity; a pool loop that does not throw leaves every pool's final group on one device, though later pools take members away; every UCX operator finds a GPUDevice in its group. |
| multiport_break | MC_OperatorInit / MC_multiport.cfg | violation | A multi-port condition naming a missing port ends the multi-port loop: a valid one after it is never added, its ports have no scheduling condition, and `initialize_operator` returns true. |

Each violation run has a finding in `PROJECT.json`. Each property of a
passing run has a fault variant, defined next to the definition it mutates,
that the property catches (the `mutants` of `PROJECT.json`), for example
`ConnectForwardAll` (no initialized check), `EraseBcastNone`,
`LowerThrowKeepsLock` (the mutex not released on an exception), `LowerFalseKeepsLock` (nor on an error return),
`RequestShutdownNoThread`, `ResolveInKeepsAnySize`, `ParamIndexOneBased`,
`CheckDeviceNoRecord`, `SynthStepMarksFirst` and `AddComponentOverwrites`
(the "already has an entity" check dropped).

## Bounds

- Planner: three operators and every graph `add_flow` can compose over them
  (13 824 initial graphs): enough for self edges, two-operator cycles with an
  entry, fan-out with a remote target and a cycle break.
- Lifecycle: two fragments (one streaming), one or two signals. The
  passing run makes one call per fragment (`MaxRuns = 1`): two fragments
  contend for the mutex, a second signal forces an exit, and a signal can
  land in each phase; with two calls per fragment and two signals the
  state space takes longer than five minutes. life_retry uses
  `MaxRuns = 2` on one fragment, for a call after a failed one.
- AddFlow/Lowering: `MaxCalls = 3` compose calls over four operators and
  six port-pair arguments, then five items: enough for a receiver made by
  compose() before lowering adds more to the same parameter.

- Resource groups: every configuration over three operators and two pools
  of up to two members, so an operator can be in both pools, in a pool with
  an operator of another device, or in the default group; three node
  positions let a UCX operator without a device precede or follow one with
  a device in the same group.

  The devices come from the entity binding. Each operator holds one of
  three argument lists, so each of these happens:
  - two operators share the allocator;
  - a GPUDevice is reached only through a native resource or a condition;
  - the NetworkContext's resource is already in an operator's entity.

  Any fixed initialization order covers the same binding outcomes, because
  every assignment of argument lists is enumerated. Letting the order vary
  as well would multiply the state space sixfold.
- Operator initialization: two inputs, one output and up to two multi-port
  conditions of up to two names each. This is enough for a condition
  naming a missing port ahead of a valid one (321 536 initial specs).

## Fairness

`initialize_fragment` is a sequential loop on one thread that never blocks,
so weak fairness on its `Next` is justified; it is used for `Terminates`.
In `Lifecycle`, each call's own steps and each detached handler thread are
weakly fair: they are threads that run until they block. Signal delivery and
new calls are not fair: nothing makes a user press Ctrl-C or call `run()`.
All runs say `CHECK_DEADLOCK FALSE`, because every modelled program stops:
the loop ends, lifecycle runs stop after `MaxRuns` calls or `quick_exit`,
and compose/lowering after its calls and items.

## Not modelled

- In the resource-grouping pass: the GreedyScheduler warning (logging), UCX
  Broadcast entities joining the network group (2518-2528), and
  DataLoggerResource initialization.
- In `create_input_port`/`create_output_port`: queue policies, data-flow
  tracking and connector capacities. These are arguments of the created
  components, with no effect on control.
- `HOLOSCAN_UCX_SOURCE_ADDRESS` parsing and
  `connect_ucx_transmitters_to_virtual_ops` beyond the collapse (`IsUcx`).
- The empty-graph early return of `initialize_gxf_graph` (2305-2308).
- In the entity binding:
  - the wrapped-codelet path, where `is_holoscan()` is false and no
    scheduler or network entity is made;
  - a scheduler or NetworkContext without a spec;
  - a native resource among the scheduler's resources. There
    `initialize_gxf_resources` dereferences a null cast (380-383), and the
    comment says such resources are unsupported;
  - `initialize_fragment_services`, whose
    `GXFResource::add_to_graph_entity` is not in this repository;
  - `register_extensions` and `connection_items`: one-off registration and
    a setter.
- `Fragment::stop_execution`, `port_info` and `reset_graph_entities`: they
  call into operators, the scheduler and the network context outside this
  repository, and no graph-engine state of the model changes.
- Hazards with no run, listed in `PROJECT.json` with notes:
  - activation outside the mutex (two fragments can activate at once, which
    the comment at 2555 warns against);
  - two input items on one plain port getting the same ForwardOp name;
  - a failing `add_flow` leaving a receiver input with no edge;
  - a GPUDevice generated into a group whose later member already has one
    (TLC finds this with a one-off action property; no run slot is left);
  - a pool rejected for a member that a later pool takes away;
  - a pool's device check that reads only the GPUDevices in each member's
    own entity. A GPUDevice reached through a shared allocator stays with
    that allocator's first holder, so a pool can mix CUDA devices. TLC
    finds this on MC_groups.cfg with an invariant over the reachable
    devices, but no run slot is left;
  - a wrapped operator's port left without a connector, then named by a
    multi-port condition.
- `CudaStreamPool` parameter setup, codecs, HoloInfer, Holoviz, Python
  bindings: no state machine, or outside the graph engine.
