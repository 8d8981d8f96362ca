----------------------------- MODULE ProbeSession -----------------------------
(***************************************************************************)
(* The otestpointd daemon and its probe processes.                         *)
(*                                                                         *)
(* The daemon's main thread drives one ProbeContainer per configured probe *)
(* through construct, initialize, start, stop, destroy and delete, always  *)
(* in index order (ControllerImpl).  A container forks an otestpoint-probe *)
(* process and talks to its ProbeManager over a REQ/REP socket pair, one   *)
(* Toolkit::transaction per operation, each bounded by the probe's         *)
(* commthreshold.  The ProbeManager serves the requests and samples the    *)
(* plugin on a timer, in one thread.                                       *)
(***************************************************************************)
EXTENDS Naturals

CONSTANTS
    N,      \* number of configured probes
    Timed   \* probes with a nonzero commthreshold; 0 means wait forever

Probe == 1..N

ASSUME NAssumption == N \in Nat \ {0}
ASSUME TimedAssumption == Timed \subseteq Probe

VARIABLES
    op,        \* the operation the main thread applies to the containers
    cur,       \* the container it has reached
    step,      \* where it is in that container's operation
    bFailure,  \* ProbeContainer::bFailure_
    pid,       \* ProbeContainer::pid_ is nonzero
    client,    \* pClient_, a REQ socket: "idle", or "awaiting" a reply
    names,     \* initialize() returned the probe's topic names
    status,    \* the READY exchange on the status socket
    requests,  \* requests sent to the process and not yet received
    replies,   \* replies sent to the container and not yet received
    proc,      \* the probe process
    sigterm,   \* SIGTERM sent to the process
    armed,     \* the ProbeManager's timer is set
    running,   \* the plugin method on the stack
    last,      \* the last lifecycle method called on the plugin
    result     \* its outcome

mainVars == <<op, cur, step>>
containerVars == <<bFailure, pid, client, names>>
channelVars == <<status, requests, replies>>
procVars == <<proc, sigterm, armed>>
pluginVars == <<running, last, result>>
vars == <<mainVars, containerVars, channelVars, procVars, pluginVars>>

Request == {"CREATE", "INITIALIZE", "START", "STOP", "DESTROY"}
Reply == [to : Request, ok : BOOLEAN]
Operation == {"construct", "initialize", "start", "run", "stop", "destroy",
              "delete", "done", "aborted"}

\* The request each operation sends.
RequestOf == [construct |-> "CREATE", initialize |-> "INITIALIZE",
              start |-> "START", stop |-> "STOP", destroy |-> "DESTROY"]

\* The operation that follows once every container has been through this one.
NextOperation == [construct |-> "initialize", initialize |-> "start",
                  start |-> "run", stop |-> "destroy",
                  destroy |-> "delete", delete |-> "done"]

Init ==
    /\ op = "construct" /\ cur = 1 /\ step = "fork"
    /\ bFailure = [p \in Probe |-> FALSE]
    /\ pid = [p \in Probe |-> FALSE]
    /\ client = [p \in Probe |-> "idle"]
    /\ names = [p \in Probe |-> FALSE]
    /\ status = [p \in Probe |-> "none"]
    /\ requests = [p \in Probe |-> {}]
    /\ replies = [p \in Probe |-> {}]
    /\ proc = [p \in Probe |-> "none"]
    /\ sigterm = [p \in Probe |-> FALSE]
    /\ armed = [p \in Probe |-> FALSE]
    /\ running = [p \in Probe |-> "none"]
    /\ last = [p \in Probe |-> "none"]
    /\ result = [p \in Probe |-> "none"]

-----------------------------------------------------------------------------
(* The main thread.                                                        *)

\* Move on to the next container, or to the next operation.
Advance ==
    /\ cur' = IF cur < N THEN cur + 1 ELSE 1
    /\ op' = IF cur < N THEN op ELSE NextOperation[op]
    /\ step' = IF op' = "construct" THEN "fork" ELSE "call"

\* init() forks and execs the process.
Fork ==
    /\ op = "construct" /\ step = "fork"
    /\ proc' = [proc EXCEPT ![cur] = "booting"]
    /\ pid' = [pid EXCEPT ![cur] = TRUE]
    /\ step' = "ready"
    /\ UNCHANGED <<op, cur, bFailure, client, names, channelVars, sigterm,
                   armed, pluginVars>>

\* init() waits for READY without a timeout, connects the REQ socket and
\* answers SUCCESS.
ReceiveReady ==
    /\ op = "construct" /\ step = "ready"
    /\ status[cur] = "report"
    /\ status' = [status EXCEPT ![cur] = "answered"]
    /\ step' = "call"
    /\ UNCHANGED <<op, cur, containerVars, requests, replies, procVars,
                   pluginVars>>

\* Mutant: no operation looks at bFailure_.
TransactsDespiteFailure == op \in DOMAIN RequestOf /\ step = "call"

\* The operations that run a transaction, destroy() unconditionally.
Transacts ==
    /\ op \in DOMAIN RequestOf /\ step = "call"
    /\ op = "destroy" \/ ~bFailure[cur]

\* Mutant: the socket is given ZMQ_REQ_RELAXED.
RelaxedSocketReady == TRUE

\* A REQ socket sends only when it has received the reply to what it sent last.
SocketReady == client[cur] = "idle"

\* transaction(): the request is handed to the REQ socket.
SendRequest ==
    /\ Transacts
    /\ SocketReady
    /\ client' = [client EXCEPT ![cur] = "awaiting"]
    /\ requests' = [requests EXCEPT ![cur] = @ \cup {RequestOf[op]}]
    /\ step' = "reply"
    /\ UNCHANGED <<op, cur, bFailure, pid, names, status, replies, procVars,
                   pluginVars>>

\* A REQ socket that still awaits the reply of an earlier transaction refuses
\* to send: transaction() throws.
SendFails ==
    /\ Transacts
    /\ ~SocketReady
    /\ bFailure' = [bFailure EXCEPT ![cur] = TRUE]
    /\ Advance
    /\ UNCHANGED <<pid, client, names, channelVars, procVars, pluginVars>>

\* initialize(), start() and stop() skip a failed container.
SkipFailed ==
    /\ op \in DOMAIN RequestOf \ {"destroy"} /\ step = "call"
    /\ bFailure[cur]
    /\ Advance
    /\ UNCHANGED <<containerVars, channelVars, procVars, pluginVars>>

\* Mutant: pid_ is already cleared by a successful STOP.
ClearsPidOnStop(r) == op \in {"stop", "destroy"} /\ r.ok

\* The reply after which destroy() takes the process for gone.
ClearsPid(r) == op = "destroy" /\ r.ok

\* transaction() receives a reply: names after INITIALIZE, pid_ cleared after
\* DESTROY, bFailure_ set by an error reply.
ReceiveReply(r) ==
    /\ step = "reply"
    /\ r \in replies[cur]
    /\ replies' = [replies EXCEPT ![cur] = @ \ {r}]
    /\ client' = [client EXCEPT ![cur] = "idle"]
    /\ bFailure' = IF r.ok THEN bFailure ELSE [bFailure EXCEPT ![cur] = TRUE]
    /\ names' = IF op = "initialize" /\ r.ok
                  THEN [names EXCEPT ![cur] = TRUE] ELSE names
    /\ pid' = IF ClearsPid(r) THEN [pid EXCEPT ![cur] = FALSE] ELSE pid
    /\ Advance
    /\ UNCHANGED <<status, requests, procVars, pluginVars>>

\* Mutant: initialize() leaves out the timeout argument, whose default is 0.
BoundedExceptInitialize == cur \in Timed /\ op # "initialize"

\* The transaction has a timeout: 0 makes the poll wait without limit.
Bounded == cur \in Timed

\* transaction() times out: the request stays with the process, and its reply
\* may still come.
Timeout ==
    /\ step = "reply"
    /\ Bounded
    /\ bFailure' = [bFailure EXCEPT ![cur] = TRUE]
    /\ Advance
    /\ UNCHANGED <<pid, client, names, channelVars, procVars, pluginVars>>

\* SIGINT or SIGQUIT wakes the main thread from its wait for the end.
StopSignal ==
    /\ op = "run"
    /\ op' = "stop"
    /\ UNCHANGED <<cur, step, containerVars, channelVars, procVars,
                   pluginVars>>

\* Mutant: a failed container's process is taken for dead.
KillsOnlyHealthy(p) == pid[p] /\ ~bFailure[p]

\* ~ProbeContainer sends SIGTERM, unless destroy() succeeded.
Kills(p) == pid[p]

Delete ==
    /\ op = "delete" /\ step = "call"
    /\ sigterm' = IF Kills(cur) THEN [sigterm EXCEPT ![cur] = TRUE] ELSE sigterm
    /\ step' = "close"
    /\ UNCHANGED <<op, cur, containerVars, channelVars, proc, armed, pluginVars>>

\* The closed REQ socket still has a request for a process that is gone: with no
\* linger time set, it keeps trying for good.
HoldsContext(p) == proc[p] = "exited" /\ requests[p] # {}

\* The members of ~ProbeContainer: pClient_ is closed, and the destruction of
\* pContext_ waits until nothing is left to be sent.
CloseContext ==
    /\ op = "delete" /\ step = "close"
    /\ ~HoldsContext(cur)
    /\ Advance
    /\ UNCHANGED <<containerVars, channelVars, procVars, pluginVars>>

\* A signal that is handled meanwhile interrupts that wait, and nobody looks at
\* the result.
Interrupted ==
    /\ op = "delete" /\ step = "close"
    /\ HoldsContext(cur)
    /\ Advance
    /\ UNCHANGED <<containerVars, channelVars, procVars, pluginVars>>

\* The daemon ends early: an exception (fork failure, malformed READY), an
\* EXIT_FAILURE return after doInitialize, or an unhandled signal.  No
\* destructor runs for the containers.
Abort ==
    /\ op \notin {"done", "aborted"}
    /\ op' = "aborted" /\ step' = "call"
    /\ UNCHANGED <<cur, containerVars, channelVars, procVars,
                   pluginVars>>

-----------------------------------------------------------------------------
(* The probe processes.                                                    *)

\* The ProbeManager constructor binds its sockets and reports READY.
ReportReady(p) ==
    /\ proc[p] = "booting"
    /\ proc' = [proc EXCEPT ![p] = "ready"]
    /\ status' = [status EXCEPT ![p] = "report"]
    /\ UNCHANGED <<mainVars, containerVars, requests, replies, sigterm, armed,
                   pluginVars>>

\* READY is answered: run().
Serve(p) ==
    /\ proc[p] = "ready" /\ status[p] = "answered"
    /\ proc' = [proc EXCEPT ![p] = "serving"]
    /\ UNCHANGED <<mainVars, containerVars, channelVars, sigterm, armed,
                   pluginVars>>

\* Mutant: a failed construction leaves pProbePlugin_ set.
PluginAssumed(p) == last[p] # "none"

\* pProbePlugin_ is set.
HasPlugin(p) ==
    /\ last[p] # "none"
    /\ ~(last[p] = "CREATE" /\ result[p] = "threw")

\* run() is in its poll.
Polling(p) == proc[p] = "serving" /\ running[p] = "none"

\* run() receives a request and calls the plugin method it names.
ReceiveRequest(p, m) ==
    /\ Polling(p)
    /\ m \in requests[p]
    /\ m = "CREATE" \/ HasPlugin(p)
    /\ requests' = [requests EXCEPT ![p] = @ \ {m}]
    /\ running' = [running EXCEPT ![p] = m]
    /\ last' = [last EXCEPT ![p] = m]
    /\ result' = [result EXCEPT ![p] = "none"]
    /\ UNCHANGED <<mainVars, containerVars, status, replies, procVars>>

\* Mutant: a failing stop() is reported as a success.
ErrorReplyExceptStop(m) == [to |-> m, ok |-> m \in {"STOP", "DESTROY"}]

\* run()'s answer to a request it could not carry out.  DESTROY always succeeds.
ErrorReply(m) == [to |-> m, ok |-> m = "DESTROY"]

\* Without a plugin run() answers at once: an error, or success for DESTROY,
\* which also ends the loop.
RefuseRequest(p, m) ==
    /\ Polling(p)
    /\ m \in requests[p] \ {"CREATE"}
    /\ ~HasPlugin(p)
    /\ requests' = [requests EXCEPT ![p] = @ \ {m}]
    /\ replies' = [replies EXCEPT ![p] = @ \cup {ErrorReply(m)}]
    /\ proc' = [proc EXCEPT ![p] = IF m = "DESTROY" THEN "exiting" ELSE @]
    /\ UNCHANGED <<mainVars, containerVars, status, sigterm, armed,
                   pluginVars>>

\* Mutant: the timer is not set again after a sample.
ArmsOnce(m) == m = "START"

\* The calls after whose return run() sets the one-shot timer.
Arms(m) == m \in {"START", "probe"}

\* Where run() goes once it has replied.
AfterReply(m) ==
    IF m = "DESTROY" THEN "exiting" ELSE IF Arms(m) THEN "arming" ELSE "serving"

\* The method returns: run() replies, and has the timer before it after START,
\* the end of its loop after DESTROY.
MethodReturns(p) ==
    /\ proc[p] = "serving" /\ running[p] \in Request
    /\ running' = [running EXCEPT ![p] = "none"]
    /\ result' = [result EXCEPT ![p] = "ok"]
    /\ replies' = [replies EXCEPT
           ![p] = @ \cup {[to |-> running[p], ok |-> TRUE]}]
    /\ proc' = [proc EXCEPT ![p] = AfterReply(running[p])]
    /\ UNCHANGED <<mainVars, containerVars, status, requests, sigterm, armed,
                   last>>

\* START has been answered: scheduleNextProbe() sets the timer.
Arm(p) ==
    /\ proc[p] = "arming"
    /\ armed' = [armed EXCEPT ![p] = TRUE]
    /\ proc' = [proc EXCEPT ![p] = "serving"]
    /\ UNCHANGED <<mainVars, containerVars, channelVars, sigterm, pluginVars>>

\* The method throws a Toolkit::Exception: run() replies with the error, except
\* that DESTROY is answered, and the loop left, as if it had succeeded.
MethodThrows(p) ==
    /\ proc[p] = "serving" /\ running[p] \in Request
    /\ running' = [running EXCEPT ![p] = "none"]
    /\ result' = [result EXCEPT ![p] = "threw"]
    /\ replies' = [replies EXCEPT
           ![p] = @ \cup {ErrorReply(running[p])}]
    /\ proc' = [proc EXCEPT
           ![p] = IF running[p] = "DESTROY" THEN "exiting" ELSE @]
    /\ UNCHANGED <<mainVars, containerVars, status, requests, sigterm, armed,
                   last>>

\* Any other exception leaves run() without a reply.
MethodAborts(p) ==
    /\ proc[p] = "serving" /\ running[p] \in Request
    /\ running' = [running EXCEPT ![p] = "none"]
    /\ result' = [result EXCEPT ![p] = "threw"]
    /\ proc' = [proc EXCEPT ![p] = "exiting"]
    /\ UNCHANGED <<mainVars, containerVars, channelVars, sigterm, armed, last>>

\* The timer expires: run() samples the plugin.  A request on its way does not
\* prevent it; only one already received by the socket would.
TimerExpires(p) ==
    /\ Polling(p)
    /\ armed[p]
    /\ armed' = [armed EXCEPT ![p] = FALSE]
    /\ running' = [running EXCEPT ![p] = "probe"]
    /\ UNCHANGED <<mainVars, containerVars, channelVars, proc, sigterm, last,
                   result>>

\* probe() returns or throws: its entries, if any, are published and the timer
\* is set again.
ProbeReturns(p) ==
    /\ proc[p] = "serving" /\ running[p] = "probe"
    /\ running' = [running EXCEPT ![p] = "none"]
    /\ armed' = IF Arms("probe") THEN [armed EXCEPT ![p] = TRUE] ELSE armed
    /\ UNCHANGED <<mainVars, containerVars, channelVars, proc, sigterm, last,
                   result>>

\* The process is before or in run().
Up(p) == proc[p] \in {"booting", "ready", "serving", "arming"}

\* The process dies: exec failed, READY was not answered in time, user code
\* crashed, or the system ended it.  A reply may be lost with it.
Crash(p) ==
    /\ Up(p)
    /\ proc' = [proc EXCEPT ![p] = "exited"]
    /\ running' = [running EXCEPT ![p] = "none"]
    /\ replies' \in {replies, [replies EXCEPT ![p] = {}]}
    /\ UNCHANGED <<mainVars, containerVars, status, requests, sigterm, armed,
                   last, result>>

\* The process returns from main(), or SIGTERM ends it.
Exit(p) ==
    /\ proc[p] = "exiting" \/ (Up(p) /\ sigterm[p])
    /\ proc' = [proc EXCEPT ![p] = "exited"]
    /\ running' = [running EXCEPT ![p] = "none"]
    /\ UNCHANGED <<mainVars, containerVars, channelVars, sigterm, armed, last,
                   result>>

\* What had left the daemon's socket for a process that is gone is lost; what
\* has not stays in the socket.
RequestLost(p) ==
    /\ proc[p] = "exited" /\ requests[p] # {}
    /\ requests' = [requests EXCEPT ![p] = {}]
    /\ UNCHANGED <<mainVars, containerVars, status, replies, procVars, pluginVars>>

-----------------------------------------------------------------------------
Main ==
    \/ Fork
    \/ ReceiveReady
    \/ SendRequest
    \/ SendFails
    \/ SkipFailed
    \/ \E r \in replies[cur] : ReceiveReply(r)
    \/ Timeout
    \/ StopSignal
    \/ Delete
    \/ CloseContext
    \/ Interrupted
    \/ Abort

Process(p) ==
    \/ ReportReady(p)
    \/ Serve(p)
    \/ \E m \in requests[p] : ReceiveRequest(p, m) \/ RefuseRequest(p, m)
    \/ MethodReturns(p)
    \/ Arm(p)
    \/ MethodThrows(p)
    \/ MethodAborts(p)
    \/ TimerExpires(p)
    \/ ProbeReturns(p)
    \/ Crash(p)
    \/ Exit(p)
    \/ RequestLost(p)

Next == Main \/ \E p \in Probe : Process(p)

\* The main thread never stops between two steps of its own, and a poll with a
\* timeout returns; the operator's signals and the early ends are not promised.
\* A process that leaves run() or is sent SIGTERM ends.  Nothing is promised of
\* user code.
Fairness ==
    /\ WF_vars(Fork \/ ReceiveReady \/ SendRequest \/ SendFails \/ SkipFailed
                 \/ (\E r \in replies[cur] : ReceiveReply(r)) \/ Timeout
                 \/ Delete \/ CloseContext)
    /\ \A p \in Probe : WF_vars(Exit(p))

Spec == Init /\ [][Next]_vars

FairSpec == Spec /\ Fairness

-----------------------------------------------------------------------------
(* Properties.                                                             *)

TypeOK ==
    /\ op \in Operation
    /\ cur \in Probe
    /\ step \in {"fork", "ready", "call", "reply", "close"}
    /\ bFailure \in [Probe -> BOOLEAN]
    /\ pid \in [Probe -> BOOLEAN]
    /\ client \in [Probe -> {"idle", "awaiting"}]
    /\ names \in [Probe -> BOOLEAN]
    /\ status \in [Probe -> {"none", "report", "answered"}]
    /\ requests \in [Probe -> SUBSET Request]
    /\ replies \in [Probe -> SUBSET Reply]
    /\ proc \in [Probe -> {"none", "booting", "ready", "serving", "arming",
                           "exiting", "exited"}]
    /\ sigterm \in [Probe -> BOOLEAN]
    /\ armed \in [Probe -> BOOLEAN]
    /\ running \in [Probe -> Request \cup {"none", "probe"}]
    /\ last \in [Probe -> Request \cup {"none"}]
    /\ result \in [Probe -> {"none", "ok", "threw"}]

\* Requests and replies stay in step: a container whose REQ socket is idle has
\* nothing in flight and no call of its own on the plugin's stack, and one that
\* awaits a reply has exactly one exchange outstanding, or none once the process
\* is gone.  The reply transaction() reads is the answer to the request it sent,
\* however late earlier answers were (transaction.h).
InFlight(p) ==
    requests[p] \cup {r.to : r \in replies[p]}
        \cup ({running[p]} \cap Request)

OneExchange ==
    /\ \A p \in Probe :
         /\ client[p] = "idle" => InFlight(p) = {}
         /\ \A m1, m2 \in InFlight(p) : m1 = m2
    /\ step = "reply" => InFlight(cur) \subseteq {RequestOf[op]}

\* The last request container p has finished with, "none" before CREATE.
Completed(p) ==
    CASE op = "construct" -> IF p < cur THEN "CREATE" ELSE "none"
      [] op = "initialize" -> IF p < cur THEN "INITIALIZE" ELSE "CREATE"
      [] op = "start" -> IF p < cur THEN "START" ELSE "INITIALIZE"
      [] op = "run" -> "START"
      [] op = "stop" -> IF p < cur THEN "STOP" ELSE "START"
      [] op = "destroy" -> IF p < cur THEN "DESTROY" ELSE "STOP"
      [] OTHER -> "DESTROY"

\* The container and the plugin agree: between two transactions of a container
\* that has not failed, the plugin's last call is the one the container last
\* completed, and it succeeded.  (destroy() is the exception: the ProbeManager
\* reports success whatever the plugin's destroy() did.)
ContainerAgreesWithPlugin ==
    \A p \in Probe :
        ~bFailure[p] /\ op # "aborted" /\ ~(cur = p /\ step = "reply") =>
            /\ last[p] = Completed(p)
            /\ running[p] \notin Request
            /\ last[p] \in {"CREATE", "INITIALIZE", "START", "STOP"} =>
                   result[p] = "ok"

\* A probe publishes only under topics the daemon was told of: initialize() has
\* returned its names to the container before the plugin is ever sampled.
PublishedIsAdvertised ==
    \A p \in Probe : running[p] = "probe" => names[p]

\* While the daemon is in its run phase, every container it holds to be healthy
\* has a probe that is being sampled, or that has just replied to START and sets
\* its timer next (run() replies first), unless the process died.
RunningIsSampled ==
    op = "run" =>
        \A p \in Probe :
            ~bFailure[p] /\ proc[p] # "exited" =>
                armed[p] \/ running[p] = "probe" \/ proc[p] = "arming"

\* The destructor skips only processes that are ending by themselves: a forked
\* process whose pid_ is zero has left run().
NoForgottenProcess ==
    \A p \in Probe :
        proc[p] # "none" /\ ~pid[p] => proc[p] \in {"exiting", "exited"}

\* Seen from its plugin, every probe process keeps the call order
\* PluginLifecycle promises, under any timeouts, failures and late answers.
Contract == INSTANCE PluginLifecycle WITH
                Plugin <- Probe,
                alive <- [p \in Probe |-> proc[p] \notin {"exiting", "exited"}]

PluginContract == Contract!Spec

\* Once the processes are up, no probe keeps the daemon from its run phase: a
\* silent, failing or dead probe costs its commthreshold at most.
SetupCompletes ==
    op \in {"initialize", "start"} ~> op \in {"run", "aborted"}

\* A shutdown ends, and ends every probe process: by DESTROY, or by SIGTERM.
\* Only a request that a dead process never took can keep it from the containers
\* that follow, in the destructor of the one it was sent by.
ShutdownEndsEveryProcess ==
    \/ op = "stop" ~> \/ op = "aborted"
                      \/ op = "done" /\ \A p \in Probe : proc[p] = "exited"
    \/ <>[](/\ op = "delete" /\ step = "close" /\ HoldsContext(cur)
            /\ \A p \in 1..cur : proc[p] = "exited")

\* probe.py on probe(): "The method is only invoked on a probe in the running
\* state."  run() does not disarm the timer on STOP.
ProbeOnlyWhenRunning ==
    \A p \in Probe :
        running[p] = "probe" => last[p] = "START" /\ result[p] = "ok"
=============================================================================
