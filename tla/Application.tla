------------------------------ MODULE Application ------------------------------
(***************************************************************************)
(* The start, the wait for a signal and the end of the programs            *)
(* (Application::main).  The main thread locks a mutex twice, and the      *)
(* signal handler unlocks it in between; doInitialize, doStart, doStop and *)
(* doDestroy are the life cycle of the controller, broker or recorder.     *)
(***************************************************************************)
EXTENDS Integers, Sequences, FiniteSets

CONSTANT MaxSignals   \* bound on the signals sent

ASSUME MaxSignalsAssumption == MaxSignals \in Nat

Signal == {"SIGINT", "SIGQUIT"}

\* What main() does, in order.
Program == <<"options", "initialize", "realtime", "pidfile", "uuidfile",
             "start", "sigint", "sigquit", "lock", "wait", "stop", "destroy">>

VARIABLES
    pc,         \* how many steps of the program are done
    exited,     \* "no" while the program runs; then how it ended
    installed,  \* the signals with a handler
    mutex,      \* "free" or "locked"
    pending,    \* the signals sent and not yet delivered
    signals,    \* the number of signals sent
    handled,    \* the number of signals handled
    calls       \* the life cycle calls made

vars == <<pc, exited, installed, mutex, pending, signals, handled, calls>>

Init ==
    /\ pc = 0
    /\ exited = "no"
    /\ installed = {}
    /\ mutex = "free"
    /\ pending = {}
    /\ signals = 0
    /\ handled = 0
    /\ calls = <<>>

\* The next step of the program is taken.
Step(step) ==
    /\ exited = "no"
    /\ pc < Len(Program) /\ Program[pc + 1] = step
    /\ pc' = pc + 1

-----------------------------------------------------------------------------
\* An exception, or an error with an early return: the options, the scheduler,
\* the files, the construction of the controller and each call to it.  No life
\* cycle call follows.
Fails ==
    /\ exited = "no"
    /\ pc < Len(Program)
    /\ Program[pc + 1] \notin {"sigint", "sigquit", "lock", "wait"}
    /\ exited' = "failure"
    /\ UNCHANGED <<pc, installed, mutex, pending, signals, handled, calls>>

\* Options that are not given have nothing to do in their step.
Prepare ==
    /\ Step("options") \/ Step("realtime") \/ Step("pidfile") \/ Step("uuidfile")
    /\ UNCHANGED <<exited, installed, mutex, pending, signals, handled, calls>>

\* doInitialize, doStart, doStop, doDestroy.
LifeCycle(step) ==
    /\ Step(step)
    /\ calls' = Append(calls, step)
    /\ UNCHANGED <<exited, installed, mutex, pending, signals, handled>>

\* sigaction
Install(step, signal) ==
    /\ Step(step)
    /\ installed' = installed \cup {signal}
    /\ UNCHANGED <<exited, mutex, pending, signals, handled, calls>>

\* The first mutex.lock().
Lock ==
    /\ Step("lock")
    /\ mutex = "free"
    /\ mutex' = "locked"
    /\ UNCHANGED <<exited, installed, pending, signals, handled, calls>>

\* Mutant: the second lock is missing.
NoWait ==
    /\ Step("wait")
    /\ UNCHANGED <<exited, installed, mutex, pending, signals, handled, calls>>

\* The second mutex.lock(): it waits for the handler to unlock the mutex.
Wait ==
    /\ Step("wait")
    /\ mutex = "free"
    /\ mutex' = "locked"
    /\ UNCHANGED <<exited, installed, pending, signals, handled, calls>>

\* main() returns.
Return ==
    /\ exited = "no"
    /\ pc = Len(Program)
    /\ exited' = "success"
    /\ UNCHANGED <<pc, installed, mutex, pending, signals, handled, calls>>

-----------------------------------------------------------------------------
(* Signals.                                                                *)

\* A signal that is already pending is not sent twice.
Raise(s) ==
    /\ exited = "no"
    /\ signals < MaxSignals
    /\ signals' = signals + 1
    /\ pending' = pending \cup {s}
    /\ UNCHANGED <<pc, exited, installed, mutex, handled, calls>>

\* Mutant: the handler unlocks the mutex only for the first signal.
UnlockOnce == IF handled = 0 THEN "free" ELSE mutex

\* mutex.unlock(): a mutex that nobody holds stays as it is.
Unlocked == "free"

\* A signal is delivered: to its handler, or by default it kills the program.
Deliver(s) ==
    /\ exited = "no"
    /\ s \in pending
    /\ pending' = pending \ {s}
    /\ IF s \in installed
       THEN /\ mutex' = Unlocked
            /\ handled' = handled + 1
            /\ UNCHANGED exited
       ELSE /\ exited' = "killed"
            /\ UNCHANGED <<mutex, handled>>
    /\ UNCHANGED <<pc, installed, signals, calls>>

Main ==
    \/ Prepare
    \/ \E step \in {"initialize", "start", "stop", "destroy"} : LifeCycle(step)
    \/ Install("sigint", "SIGINT") \/ Install("sigquit", "SIGQUIT")
    \/ Lock \/ Wait \/ Return

Next ==
    \/ Main
    \/ Fails
    \/ \E s \in Signal : Raise(s) \/ Deliver(s)

\* The main thread runs and signals are delivered; nobody has to send one.
Spec == Init /\ [][Next]_vars
FairSpec ==
    /\ Spec
    /\ WF_vars(Main)
    /\ \A s \in Signal : WF_vars(Deliver(s))

-----------------------------------------------------------------------------
TypeOK ==
    /\ pc \in 0..Len(Program)
    /\ exited \in {"no", "failure", "killed", "success"}
    /\ installed \subseteq Signal
    /\ mutex \in {"free", "locked"}
    /\ pending \subseteq Signal
    /\ signals \in 0..MaxSignals
    /\ handled \in Nat
    /\ calls \in Seq({"initialize", "start", "stop", "destroy"})

Waiting == exited = "no" /\ pc < Len(Program) /\ Program[pc + 1] = "wait"
Stopped == \E i \in DOMAIN calls : calls[i] = "stop"

\* A daemon is stopped only by a signal it handles: not by the end of its start,
\* and not by a signal that came before it had a handler.
StopsOnlyBySignal == Stopped => handled > 0

\* A daemon that waits is woken by any signal, however many it handled before it
\* waited.
SignalEndsTheWait == Waiting /\ pending # {} ~> ~Waiting

\* application.cc: "signal handler unlocks mutex", for the wait that follows.  A
\* signal that is handled before the first lock unlocks nothing, and the daemon
\* waits for another.
HandledSignalStops == handled > 0 ~> Stopped \/ exited # "no"
=============================================================================
