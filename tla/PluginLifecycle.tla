--------------------------- MODULE PluginLifecycle ---------------------------
(***************************************************************************)
(* What a probe plugin may rely on.  A plugin (a ProbePlugin subclass or a *)
(* Python Probe) is user code inside its own otestpoint-probe process; the *)
(* framework calls its methods one at a time.  This module states the      *)
(* order of those calls from the plugin's side only: no daemon, no         *)
(* messages, no timeouts.  ProbeSession implements it.                     *)
(***************************************************************************)
CONSTANT Plugin

Lifecycle == {"CREATE", "INITIALIZE", "START", "STOP", "DESTROY"}

VARIABLES
    alive,    \* the plugin's process still calls it
    running,  \* the method now on the plugin's stack, "none" between calls
    last,     \* the last lifecycle method called
    result    \* its outcome: "none" while unknown, "ok" or "threw"

vars == <<alive, running, last, result>>

Init ==
    /\ alive = [p \in Plugin |-> TRUE]
    /\ running = [p \in Plugin |-> "none"]
    /\ last = [p \in Plugin |-> "none"]
    /\ result = [p \in Plugin |-> "none"]

\* The method that must have returned normally before m is called.
Predecessor == [CREATE |-> "none", INITIALIZE |-> "CREATE",
                START |-> "INITIALIZE", STOP |-> "START"]

\* CREATE comes first; INITIALIZE, START and STOP follow in that order, each
\* only on the success of the one before it, so that each is called at most
\* once; DESTROY may follow anything except a failed construction.
MayCall(p, m) ==
    /\ alive[p]
    /\ running[p] = "none"
    /\ \/ m = "CREATE" /\ last[p] = "none"
       \/ /\ m \in {"INITIALIZE", "START", "STOP"}
          /\ last[p] = Predecessor[m]
          /\ result[p] = "ok"
       \/ /\ m = "DESTROY"
          /\ last[p] \notin {"none", "DESTROY"}
          /\ ~(last[p] = "CREATE" /\ result[p] = "threw")

Call(p, m) ==
    /\ MayCall(p, m)
    /\ running' = [running EXCEPT ![p] = m]
    /\ last' = [last EXCEPT ![p] = m]
    /\ result' = [result EXCEPT ![p] = "none"]
    /\ UNCHANGED alive

\* probe() samples a plugin whose start() returned normally; the framework goes
\* on sampling after stop(), whatever stop() did.
Sample(p) ==
    /\ alive[p]
    /\ running[p] = "none"
    /\ \/ last[p] = "START" /\ result[p] = "ok"
       \/ last[p] = "STOP"
    /\ running' = [running EXCEPT ![p] = "probe"]
    /\ UNCHANGED <<alive, last, result>>

Return(p) ==
    /\ running[p] # "none"
    /\ running' = [running EXCEPT ![p] = "none"]
    /\ \/ /\ running[p] = "probe"
          /\ UNCHANGED result
       \/ /\ running[p] # "probe"
          /\ \E r \in {"ok", "threw"} : result' = [result EXCEPT ![p] = r]
    /\ alive' \in {alive, [alive EXCEPT ![p] = FALSE]}
    /\ UNCHANGED last

\* The process ends, possibly inside a call.
End(p) ==
    /\ alive[p]
    /\ alive' = [alive EXCEPT ![p] = FALSE]
    /\ running' = [running EXCEPT ![p] = "none"]
    /\ UNCHANGED <<last, result>>

Next ==
    \E p \in Plugin :
        \/ \E m \in Lifecycle : Call(p, m)
        \/ Sample(p)
        \/ Return(p)
        \/ End(p)

Spec == Init /\ [][Next]_vars
=============================================================================
