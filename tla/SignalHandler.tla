--------------------------- MODULE SignalHandler ---------------------------
(***************************************************************************)
(* The two-stage interrupt handler of GXFExecutor (setup_signal_handlers,  *)
(* cuda_stream_pool.cpp 2566-2611) and reset_interrupt_flags (2980-2983).  *)
(*                                                                         *)
(* interrupt_requested_ and force_exit_countdown_started_ are static       *)
(* std::atomic<bool>s shared by every executor of the process.  The        *)
(* handler tests them with load() and sets them with a separate store(),   *)
(* so each test-and-set is two steps.  Every signal delivery runs the      *)
(* handler once, in whatever thread the signal lands on; the handler then  *)
(* detaches a graceful-shutdown thread, which may detach a countdown       *)
(* thread.  std::quick_exit ends the whole process (exited).               *)
(*                                                                         *)
(* registered and stopReq belong to the executor lifecycle: the fragments  *)
(* whose context has the handler registered (run_gxf_graph 2620-2621 until *)
(* destroy_context 509-510), and the fragments whose operators were asked  *)
(* to stop by Fragment::stop_execution.  This module reads registered and  *)
(* adds to stopReq; Lifecycle composes it with the executors.              *)
(***************************************************************************)
EXTENDS Naturals, FiniteSets

CONSTANTS
    Frags,      \* fragments (one executor each) of the process
    Signals,    \* SIGINT/SIGTERM deliveries (model values)
    NoFrag      \* "no fragment" marker for a signal not delivered yet

VARIABLES
    interrupt,   \* interrupt_requested_
    countdown,   \* force_exit_countdown_started_
    hpc,         \* handler invocation of each signal
    hfrag,       \* the fragment captured by the handler that ran
    gpc,         \* the graceful-shutdown thread spawned by the handler
    cpc,         \* the force-exit countdown thread spawned by that thread
    exited,      \* why std::quick_exit(1) ended the process, or "none"
    graceful,    \* signals that took the graceful branch since the last reset
    registered,  \* (lifecycle) fragments whose context has the handler
    stopReq      \* (lifecycle) fragments asked to stop_execution

sigVars == <<interrupt, countdown, hpc, hfrag, gpc, cpc, exited, graceful>>

HPc == {"idle", "store", "force", "done"}
GPc == {"none", "stop", "load", "store", "done"}
CPc == {"none", "sleep", "done"}
ExitCause == {"none", "signal", "timeout"}

Alive == exited = "none"

Init ==
    /\ interrupt = FALSE
    /\ countdown = FALSE
    /\ hpc = [s \in Signals |-> "idle"]
    /\ hfrag = [s \in Signals |-> NoFrag]
    /\ gpc = [s \in Signals |-> "none"]
    /\ cpc = [s \in Signals |-> "none"]
    /\ exited = "none"
    /\ graceful = {}

(* 2572-2573: the signal lands while fragment f's handler is registered;   *)
(* the handler loads interrupt_requested_ and picks its branch.            *)
Deliver(s, f) ==
    /\ Alive
    /\ hpc[s] = "idle"
    /\ f \in registered
    /\ hfrag' = [hfrag EXCEPT ![s] = f]
    /\ hpc' = [hpc EXCEPT ![s] = IF interrupt THEN "force" ELSE "store"]
    /\ UNCHANGED <<interrupt, countdown, gpc, cpc, exited, graceful, stopReq>>

(* Fault variant: the graceful thread is not launched.                    *)
RequestShutdownNoThread(s) ==
    /\ Alive
    /\ hpc[s] = "store"
    /\ interrupt' = TRUE
    /\ graceful' = graceful \cup {s}
    /\ hpc' = [hpc EXCEPT ![s] = "done"]
    /\ UNCHANGED <<countdown, hfrag, gpc, cpc, exited, stopReq>>

(* 2575-2578: first signal: store(true), then detach the graceful thread.  *)
RequestShutdown(s) ==
    /\ Alive
    /\ hpc[s] = "store"
    /\ interrupt' = TRUE
    /\ graceful' = graceful \cup {s}
    /\ hpc' = [hpc EXCEPT ![s] = "done"]
    /\ gpc' = [gpc EXCEPT ![s] = "stop"]
    /\ UNCHANGED <<countdown, hfrag, cpc, exited, stopReq>>

(* 2601-2606: a later signal detaches a thread that calls quick_exit.      *)
ForceExit(s) ==
    /\ Alive
    /\ hpc[s] = "force"
    /\ exited' = "signal"
    /\ hpc' = [hpc EXCEPT ![s] = "done"]
    /\ UNCHANGED <<interrupt, countdown, hfrag, gpc, cpc, graceful, stopReq>>

(* 2580-2583: the graceful thread calls fragment->stop_execution().        *)
GracefulStop(s) ==
    /\ Alive
    /\ gpc[s] = "stop"
    /\ stopReq' = stopReq \cup {hfrag[s]}
    /\ gpc' = [gpc EXCEPT ![s] = "load"]
    /\ UNCHANGED <<interrupt, countdown, hpc, hfrag, cpc, exited, graceful>>

(* 2586: load force_exit_countdown_started_; done if already started.      *)
CheckCountdown(s) ==
    /\ Alive
    /\ gpc[s] = "load"
    /\ gpc' = [gpc EXCEPT ![s] = IF countdown THEN "done" ELSE "store"]
    /\ UNCHANGED <<interrupt, countdown, hpc, hfrag, cpc, exited, graceful,
                   stopReq>>

(* 2587-2599: store(true) and detach the countdown thread.                 *)
StartCountdown(s) ==
    /\ Alive
    /\ gpc[s] = "store"
    /\ countdown' = TRUE
    /\ gpc' = [gpc EXCEPT ![s] = "done"]
    /\ cpc' = [cpc EXCEPT ![s] = "sleep"]
    /\ UNCHANGED <<interrupt, hpc, hfrag, exited, graceful, stopReq>>

(* 2590-2597: after kForceExitTimeoutSeconds the countdown exits the       *)
(* process if interrupt_requested_ is still set.  The sleep has no bound   *)
(* relative to the other threads, so it may end at any point.              *)
CountdownExpires(s) ==
    /\ Alive
    /\ cpc[s] = "sleep"
    /\ exited' = IF interrupt THEN "timeout" ELSE "none"
    /\ cpc' = [cpc EXCEPT ![s] = "done"]
    /\ UNCHANGED <<interrupt, countdown, hpc, hfrag, gpc, graceful, stopReq>>

(* reset_interrupt_flags (2980-2983), called from destroy_context.  It is  *)
(* a conjunct of the lifecycle step that destroys a context.               *)
ResetInterruptFlags ==
    /\ interrupt' = FALSE
    /\ countdown' = FALSE
    /\ graceful' = {}

ThreadStep(s) ==
    \/ RequestShutdown(s)
    \/ ForceExit(s)
    \/ GracefulStop(s)
    \/ CheckCountdown(s)
    \/ StartCountdown(s)
    \/ CountdownExpires(s)

Next ==
    \/ \E s \in Signals, f \in Frags : Deliver(s, f)
    \/ \E s \in Signals : ThreadStep(s)

TypeOK ==
    /\ interrupt \in BOOLEAN
    /\ countdown \in BOOLEAN
    /\ hpc \in [Signals -> HPc]
    /\ hfrag \in [Signals -> Frags \cup {NoFrag}]
    /\ gpc \in [Signals -> GPc]
    /\ cpc \in [Signals -> CPc]
    /\ exited \in ExitCause
    /\ graceful \subseteq Signals

(* The comment at 2574/2601: only the first signal of an interrupt asks   *)
(* for a graceful shutdown, later ones force an exit.  At most one signal *)
(* took the graceful branch since interrupt_requested_ was last reset.    *)
OneGracefulPerInterrupt == Cardinality(graceful) <= 1
=============================================================================
