----------------------------- MODULE Lifecycle -----------------------------
(***************************************************************************)
(* The run lifecycle of fragments that share one process: Fragment::run,   *)
(* Fragment::run_async and Fragment::reset_state (fragment.cpp), and the   *)
(* GXFExecutor calls they make: run, run_async, reset_execution_state,     *)
(* destroy_context, initialize_gxf_graph, activate_gxf_graph and           *)
(* run_gxf_graph (cuda_stream_pool.cpp).  Each fragment owns a GXFExecutor *)
(* that owns its context (owns_context_, the constructor at 353-361).      *)
(*                                                                         *)
(* One call of run/run_async is a thread of control pc[f].  Lowering       *)
(* (initialize_fragment and the rest of initialize_gxf_graph) holds the    *)
(* function-static gxf_execution_mutex, shared by all executors; its       *)
(* outcome is abstracted to ok, an error return (false) or an exception.   *)
(* The interrupt handler is the SignalHandler component, composed here:    *)
(* its static flags are reset by destroy_context, and its stop requests    *)
(* are what ends a graph that runs until stopped.                          *)
(***************************************************************************)
EXTENDS Naturals, FiniteSets

CONSTANTS
    Frags, Signals, NoFrag,
    Modes,          \* calls the application makes: "sync" run, "async" run_async
    LowerOutcomes,  \* results of lowering: "ok", "false", "throw"
    WaitOutcomes,   \* GxfGraphWait: "ok", "fail", "throw" (stored exception)
    Streaming,      \* fragments whose graph runs until stop_execution
    FatalCalls,     \* GXF calls whose HOLOSCAN_GXF_CALL_FATAL may throw
    MaxRuns         \* bound on run/run_async calls per fragment

ASSUME /\ Modes \subseteq {"sync", "async"}
       /\ LowerOutcomes \subseteq {"ok", "false", "throw"}
       /\ WaitOutcomes \subseteq {"ok", "fail", "throw"}
       /\ Streaming \subseteq Frags /\ MaxRuns \in Nat
       /\ FatalCalls \subseteq {"GxfGraphActivate", "GxfGraphRunAsync"}

VARIABLES
    pc,        \* where the call of fragment f is
    mode,      \* the call in progress: sync or async
    runs,      \* number of calls made (bounded by MaxRuns)
    fRun,      \* Fragment::is_run_called_
    xRun,      \* GXFExecutor::is_run_called_
    initd,     \* is_gxf_graph_initialized_
    actd,      \* is_gxf_graph_activated_
    ctx,       \* context_: 0 is nullptr, k > 0 the k-th context created
    graph,     \* what the executor's context holds: none, partial, built, spent
    mutex,     \* holder of the static gxf_execution_mutex, or NoFrag
    interrupt, countdown, hpc, hfrag, gpc, cpc, exited, graceful,
    registered, stopReq

SH == INSTANCE SignalHandler

sigVars == <<interrupt, countdown, hpc, hfrag, gpc, cpc, exited, graceful>>
lifeVars == <<pc, mode, runs, fRun, xRun, initd, actd, ctx, graph, mutex>>
vars == <<lifeVars, sigVars, registered, stopReq>>

Pc == {"idle", "lock", "lowering", "register", "activating", "starting", "run"}
GraphState == {"none", "partial", "built", "spent"}

Init ==
    /\ pc = [f \in Frags |-> "idle"]
    /\ mode = [f \in Frags |-> "sync"]
    /\ runs = [f \in Frags |-> 0]
    /\ fRun = [f \in Frags |-> FALSE]
    /\ xRun = [f \in Frags |-> FALSE]
    /\ initd = [f \in Frags |-> FALSE]
    /\ actd = [f \in Frags |-> FALSE]
    /\ ctx = [f \in Frags |-> 1]          \* the constructor's reset creates one
    /\ graph = [f \in Frags |-> "none"]
    /\ mutex = NoFrag
    /\ registered = {}
    /\ stopReq = {}
    /\ SH!Init

(* Fragment::reset_state returns early unless run was called (725-729).    *)
ResetsState(f) == fRun[f]

(* reset_execution_state creates a context when run was called on the     *)
(* executor or there is none (467), destroying the old one first (469).    *)
RecreatesContext(f) == xRun[f] \/ ctx[f] = 0
DestroysContext(f) == xRun[f] /\ ctx[f] # 0

(* destroy_context (498-526): unregister the context's signal handlers,    *)
(* reset the static interrupt flags, destroy the context.                  *)
DestroyContext(f) ==
    /\ registered' = registered \ {f}
    /\ SH!ResetInterruptFlags

(* reset_execution_state (435-496): clear the initialized and activated    *)
(* flags; destroy and recreate the context after a run.                    *)
ResetExecutionState(f) ==
    /\ actd' = [actd EXCEPT ![f] = FALSE]
    /\ ctx' = [ctx EXCEPT ![f] = IF RecreatesContext(f) THEN @ + 1 ELSE @]
    /\ IF DestroysContext(f) THEN DestroyContext(f)
       ELSE UNCHANGED <<registered, interrupt, countdown, graceful>>

(* reset_state after its early return (730-762): release the graph        *)
(* entities, reset the executor, drop the graph (and with its operators   *)
(* the stop requests made to them).                                        *)
ResetState(f) ==
    /\ graph' = [graph EXCEPT ![f] = "none"]
    /\ stopReq' = stopReq \ {f}
    /\ ResetExecutionState(f)

(* initialize_gxf_graph returns at once when the flag is set (2299-2302);  *)
(* run_async tests the same flag before calling it (418).                  *)
SkipsInit(f) == initd[f] /\ ~ResetsState(f)

(* Fragment::run / run_async (598-613): reset_state, then the executor's   *)
(* run/run_async.  Unless the flag makes initialize_gxf_graph skip, it     *)
(* sets the flag (2303) and waits for the mutex; otherwise it goes         *)
(* straight to run_gxf_graph, and run_async has returned its future, so    *)
(* the fragment marks run called (611).                                    *)
Call(f, m) ==
    /\ SH!Alive
    /\ pc[f] = "idle"
    /\ runs[f] < MaxRuns
    /\ runs' = [runs EXCEPT ![f] = @ + 1]
    /\ mode' = [mode EXCEPT ![f] = m]
    /\ pc' = [pc EXCEPT ![f] = IF SkipsInit(f) THEN "register" ELSE "lock"]
    /\ initd' = [initd EXCEPT ![f] = TRUE]
    /\ fRun' = [fRun EXCEPT ![f] = IF SkipsInit(f) /\ m = "async" THEN TRUE ELSE @]
    /\ IF ResetsState(f) THEN ResetState(f)
       ELSE UNCHANGED <<actd, graph, ctx, stopReq, registered,
                        interrupt, countdown, graceful>>
    /\ UNCHANGED <<xRun, mutex, hpc, hfrag, gpc, cpc, exited>>

(* 2314-2318: scoped_lock on the static gxf_execution_mutex.               *)
Lock(f) ==
    /\ SH!Alive
    /\ pc[f] = "lock"
    /\ mutex = NoFrag
    /\ mutex' = f
    /\ pc' = [pc EXCEPT ![f] = "lowering"]
    /\ UNCHANGED <<mode, runs, fRun, xRun, initd, actd, ctx, graph,
                   sigVars, registered, stopReq>>

(* Fault variants: the mutex is unlocked by hand and an exception, or an   *)
(* early return, skips the unlock.                                          *)
LowerKeepsLockOn(bad, f, o) ==
    /\ SH!Alive
    /\ pc[f] = "lowering"
    /\ mutex' = IF o = bad THEN f ELSE NoFrag
    /\ graph' = [graph EXCEPT ![f] = IF o = "ok" THEN "built" ELSE "partial"]
    /\ LET returns == o = "throw" \/ (o = "false" /\ mode[f] = "sync")
           marks == IF returns THEN o = "false" ELSE mode[f] = "async"
       IN /\ pc' = [pc EXCEPT ![f] = IF returns THEN "idle" ELSE "register"]
          /\ fRun' = [fRun EXCEPT ![f] = IF marks THEN TRUE ELSE @]
    /\ UNCHANGED <<mode, runs, xRun, initd, actd, ctx,
                   sigVars, registered, stopReq>>
LowerThrowKeepsLock(f, o) == LowerKeepsLockOn("throw", f, o)
LowerFalseKeepsLock(f, o) == LowerKeepsLockOn("false", f, o)

(* 2319-2551: lowering under the mutex ends; the scope releases the mutex  *)
(* on every path.  An error return makes GXFExecutor::run return (408-411) *)
(* and Fragment::run mark run called (602), while run_async ignores it and *)
(* launches run_gxf_graph anyway (418-423).  An exception leaves both      *)
(* Fragment calls before they mark run called.                             *)
Lower(f, o) ==
    /\ SH!Alive
    /\ pc[f] = "lowering"
    /\ mutex' = NoFrag
    /\ graph' = [graph EXCEPT ![f] = IF o = "ok" THEN "built" ELSE "partial"]
    /\ LET returns == o = "throw" \/ (o = "false" /\ mode[f] = "sync")
           marks == IF returns THEN o = "false" ELSE mode[f] = "async"
       IN /\ pc' = [pc EXCEPT ![f] = IF returns THEN "idle" ELSE "register"]
          /\ fRun' = [fRun EXCEPT ![f] = IF marks THEN TRUE ELSE @]
    /\ UNCHANGED <<mode, runs, xRun, initd, actd, ctx,
                   sigVars, registered, stopReq>>

(* run_gxf_graph 2613-2625: register the signal handlers for the context,  *)
(* then activate_gxf_graph, which does nothing when already activated.     *)
Register(f) ==
    /\ SH!Alive
    /\ pc[f] = "register"
    /\ registered' = registered \cup {f}
    /\ pc' = [pc EXCEPT ![f] = IF actd[f] THEN "starting" ELSE "activating"]
    /\ UNCHANGED <<mode, runs, fRun, xRun, initd, actd, ctx, graph, mutex,
                   sigVars, stopReq>>

(* activate_gxf_graph 2553-2562: GxfGraphActivate, outside any mutex.  A  *)
(* failure throws from the FATAL macro before the flag is set (2560): the  *)
(* exception leaves run_gxf_graph and the Fragment call before it marks    *)
(* run called; the handlers stay registered.                               *)
Activate(f, ok) ==
    /\ SH!Alive
    /\ pc[f] = "activating"
    /\ ok \/ "GxfGraphActivate" \in FatalCalls
    /\ actd' = [actd EXCEPT ![f] = ok]
    /\ pc' = [pc EXCEPT ![f] = IF ok THEN "starting" ELSE "idle"]
    /\ UNCHANGED <<mode, runs, fRun, xRun, initd, ctx, graph, mutex,
                   sigVars, registered, stopReq>>

(* 2626-2629: GxfGraphRunAsync starts the graph.  On failure the FATAL    *)
(* macro throws after the graph was activated; 2638-2645 are never        *)
(* reached, so is_gxf_graph_activated_ stays set, run is not marked called *)
(* on the executor nor, for run(), on the fragment, and the graph is not  *)
(* released.                                                               *)
RunAsync(f, ok) ==
    /\ SH!Alive
    /\ pc[f] = "starting"
    /\ ok \/ "GxfGraphRunAsync" \in FatalCalls
    /\ pc' = [pc EXCEPT ![f] = IF ok THEN "run" ELSE "idle"]
    /\ UNCHANGED <<mode, runs, fRun, xRun, initd, actd, ctx, graph, mutex,
                   sigVars, registered, stopReq>>

(* run_gxf_graph 2630-2657: GxfGraphWait returns once the graph finishes   *)
(* (a streaming graph only after stop_execution); the activated flag is    *)
(* cleared, run marked called on the executor and the graph entities       *)
(* released (2645).  A stored exception is rethrown, so Fragment::run does *)
(* not mark run called; run_async marked it when it returned the future.   *)
Finish(f, w) ==
    /\ SH!Alive
    /\ pc[f] = "run"
    /\ f \notin Streaming \/ f \in stopReq
    /\ actd' = [actd EXCEPT ![f] = FALSE]
    /\ xRun' = [xRun EXCEPT ![f] = TRUE]
    /\ graph' = [graph EXCEPT ![f] = "spent"]
    /\ pc' = [pc EXCEPT ![f] = "idle"]
    /\ fRun' = [fRun EXCEPT ![f] = IF w # "throw" THEN TRUE ELSE @]
    /\ UNCHANGED <<mode, runs, initd, ctx, mutex, sigVars, registered,
                   stopReq>>

LifeStep(f) ==
    \/ \E m \in Modes : Call(f, m)
    \/ Lock(f)
    \/ \E o \in LowerOutcomes : Lower(f, o)
    \/ Register(f)
    \/ \E ok \in BOOLEAN : Activate(f, ok)
    \/ \E ok \in BOOLEAN : RunAsync(f, ok)
    \/ \E w \in WaitOutcomes : Finish(f, w)

SignalStep ==
    /\ SH!Next
    /\ UNCHANGED <<lifeVars, registered>>

Next ==
    \/ \E f \in Frags : LifeStep(f)
    \/ SignalStep

(* Every thread runs until it blocks: each call's steps and each detached  *)
(* thread of the handler are weakly fair.  Signal delivery is not.         *)
Fairness ==
    /\ \A f \in Frags : WF_vars(LifeStep(f) /\ pc[f] # "idle")
    /\ \A s \in Signals : WF_vars(SH!ThreadStep(s) /\ UNCHANGED <<lifeVars, registered>>)

Spec == Init /\ [][Next]_vars /\ Fairness

-----------------------------------------------------------------------------
TypeOK ==
    /\ pc \in [Frags -> Pc]
    /\ mode \in [Frags -> {"sync", "async"}]
    /\ runs \in [Frags -> 0..MaxRuns]
    /\ fRun \in [Frags -> BOOLEAN] /\ xRun \in [Frags -> BOOLEAN]
    /\ initd \in [Frags -> BOOLEAN] /\ actd \in [Frags -> BOOLEAN]
    /\ ctx \in [Frags -> 0..MaxRuns + 1]
    /\ graph \in [Frags -> GraphState]
    /\ mutex \in Frags \cup {NoFrag}
    /\ registered \subseteq Frags /\ stopReq \subseteq Frags
    /\ SH!TypeOK
    /\ mutex # NoFrag => pc[mutex] = "lowering"

(* run_gxf_graph activates and runs exactly the graph that this call      *)
(* lowered: whenever a fragment is in run_gxf_graph, its executor's last   *)
(* lowering, since the last reset_execution_state, completed.  Broken by   *)
(* running after a failed lowering or re-running a graph already run.     *)
RunsComposedGraph ==
    \A f \in Frags : pc[f] \in {"register", "activating", "starting", "run"}
                        => graph[f] = "built"

(* The comment at 2590: the countdown forces an exit only if the process  *)
(* is "still alive", i.e. the interrupted run has not shut down.  A       *)
(* timeout exit happens only while some run/run_async call is in progress. *)
TimeoutOnlyWhileRunning ==
    exited = "timeout" => \E f \in Frags : pc[f] # "idle"

(* Two concurrent signals, as in SignalHandler. *)
OneGracefulPerInterrupt == SH!OneGracefulPerInterrupt

(* Every run/run_async call of a graph that ends by itself returns,       *)
(* whatever lowering and the graph's wait produce, unless the process was *)
(* ended: no call waits forever on the shared mutex or on activation.     *)
CallsReturn ==
    \A f \in Frags \ Streaming :
        pc[f] # "idle" ~> (pc[f] = "idle" \/ ~SH!Alive)

(* A signal that lands on a fragment whose graph is running ends that    *)
(* run: the graceful thread's stop_execution lets GxfGraphWait return, or *)
(* a later signal or the countdown exits the process.                     *)
InterruptHonoured ==
    \A s \in Signals, f \in Frags :
        (hpc[s] \in {"store", "force"} /\ hfrag[s] = f /\ pc[f] = "run")
            ~> (pc[f] # "run" \/ ~SH!Alive)
=============================================================================
