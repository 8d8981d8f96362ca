------------------------- MODULE ProbeSession_proofs -------------------------
(***************************************************************************)
(* Proofs about ProbeSession for every number of probes and every choice   *)
(* of timeouts.                                                            *)
(***************************************************************************)
EXTENDS ProbeSession, TLAPS

-----------------------------------------------------------------------------
(* The inductive invariant, part by part.                                  *)

\* Where the main thread can be.
MainInv ==
    /\ step \in {"fork", "ready"} => op = "construct"
    /\ op = "run" => cur = 1 /\ step = "call"
    /\ step = "reply" =>
         /\ op \in DOMAIN RequestOf
         /\ client[cur] = "awaiting"
         /\ requests[cur] \subseteq {RequestOf[op]}
         /\ running[cur] \in Request => running[cur] = RequestOf[op]
         /\ \A r \in replies[cur] : r.to = RequestOf[op]

\* An exchange is in one place: a request, a call, or a reply.
ExchangeInv ==
    \A p \in Probe :
        /\ client[p] = "idle" =>
             requests[p] = {} /\ replies[p] = {} /\ running[p] \notin Request
        /\ requests[p] # {} => replies[p] = {} /\ running[p] \notin Request
        /\ replies[p] # {} => running[p] \notin Request
        /\ \A m1, m2 \in requests[p] : m1 = m2
        /\ \A r1, r2 \in replies[p] : r1 = r2

\* The main thread waits in a transaction of p.
InTransaction(p) == cur = p /\ step = "reply"

\* A container whose socket awaits a reply outside a transaction has failed.
GaveUpInv ==
    \A p \in Probe :
        client[p] = "awaiting" /\ op # "aborted" /\ ~InTransaction(p)
            => bFailure[p]

\* The plugin's calls run in a serving process.
ProcInv ==
    \A p \in Probe :
        /\ running[p] # "none" => proc[p] = "serving"
        /\ running[p] \in Request => last[p] = running[p] /\ result[p] = "none"
        /\ op = "construct" /\ (cur < p \/ (cur = p /\ step = "fork")) =>
             proc[p] = "none"

\* The main thread has not yet sent DESTROY to p.
BeforeDestroy(p) ==
    \/ op \in {"construct", "initialize", "start", "run", "stop"}
    \/ op = "destroy" /\ (cur < p \/ (cur = p /\ step = "call"))

\* DESTROY is requested once, and after it the process leaves run().
DestroyInv ==
    \A p \in Probe :
        /\ BeforeDestroy(p) =>
             /\ last[p] # "DESTROY"
             /\ "DESTROY" \notin requests[p]
             /\ \A r \in replies[p] : r.to # "DESTROY"
        /\ last[p] = "DESTROY" =>
             running[p] = "DESTROY" \/ proc[p] \in {"exiting", "exited"}
        /\ \A r \in replies[p] :
             r.to = "DESTROY" => proc[p] \in {"exiting", "exited"}
        /\ proc[p] # "none" /\ ~pid[p] => proc[p] \in {"exiting", "exited"}

\* A request on its way is the one the plugin is ready for.
OrderInv ==
    \A p \in Probe : \A m \in requests[p] :
        /\ m = "CREATE" => last[p] = "none"
        /\ m \in {"INITIALIZE", "START", "STOP"} =>
             last[p] = Contract!Predecessor[m] /\ result[p] = "ok"
        /\ m = "DESTROY" => last[p] # "DESTROY"

\* The plugin's last lifecycle call is m, and it succeeded.
Reached(p, m) ==
    /\ last[p] = m
    /\ m \in {"CREATE", "INITIALIZE", "START", "STOP"} => result[p] = "ok"

\* What a container that has not failed knows of its plugin.
AgreementInv ==
    op # "aborted" =>
        \A p \in Probe :
            ~bFailure[p] =>
                /\ \/ ~InTransaction(p)
                   \/ requests[p] # {}
                   => Reached(p, Completed(p))
                /\ InTransaction(p) =>
                      \A r \in replies[p] : r.ok => Reached(p, RequestOf[op])

\* The main thread is past initialize() on p.
NamesDue(p) ==
    /\ op \notin {"construct", "aborted"}
    /\ op = "initialize" => p < cur

\* The container has its names before START.
NamesInv ==
    \A p \in Probe :
        /\ \/ "START" \in requests[p]
           \/ running[p] \in {"START", "probe"}
           \/ armed[p]
           \/ proc[p] = "arming"
           => names[p]
        /\ ~bFailure[p] /\ NamesDue(p) => names[p]

\* The timer is set from the step after the answer to a successful START to the end of
\* the process.
TimerInv ==
    \A p \in Probe :
        /\ armed[p] => \/ last[p] = "START" /\ result[p] = "ok"
                       \/ last[p] \in {"STOP", "DESTROY"}
        /\ running[p] = "probe" => \/ last[p] = "START" /\ result[p] = "ok"
                                   \/ last[p] = "STOP"
        /\ proc[p] = "arming" => last[p] = "START" /\ result[p] = "ok"
        /\ last[p] = "START" /\ result[p] = "ok" /\ proc[p] # "exited" =>
             armed[p] \/ running[p] = "probe" \/ proc[p] = "arming"

IInv ==
    /\ TypeOK
    /\ MainInv
    /\ ExchangeInv
    /\ GaveUpInv
    /\ ProcInv
    /\ DestroyInv
    /\ OrderInv
    /\ AgreementInv
    /\ NamesInv
    /\ TimerInv

-----------------------------------------------------------------------------
(* Type correctness.                                                       *)

\* The initial state is well typed.
LEMMA TypeInit == Init => TypeOK
BY NAssumption DEF Init, TypeOK, Probe, Operation, Request, Reply

\* Advance stays within the containers and the operations.
LEMMA AdvanceType ==
    ASSUME TypeOK, Advance, op \in DOMAIN NextOperation
    PROVE  op' \in Operation /\ cur' \in Probe /\ step' \in {"fork", "call"}
BY NAssumption DEF TypeOK, Advance, NextOperation, Operation, Probe

\* The replies the ProbeManager makes are well formed.
LEMMA ReplyType ==
    ASSUME NEW m \in Request
    PROVE  /\ ErrorReply(m) \in Reply
           /\ [to |-> m, ok |-> TRUE] \in Reply
           /\ ErrorReply(m).to = m
           /\ ErrorReply(m).ok <=> m = "DESTROY"
BY DEF ErrorReply, Reply

\* Every step keeps the types. MainInv keeps the run phase at container 1.
LEMMA TypeStep == TypeOK /\ MainInv /\ [Next]_vars => TypeOK'
<1> SUFFICES ASSUME TypeOK, MainInv, [Next]_vars PROVE TypeOK'
  OBVIOUS
<1> USE DEF TypeOK, mainVars, containerVars, channelVars, procVars, pluginVars
<1>1. CASE Fork
  BY <1>1 DEF Fork, Operation, RequestOf, Request
<1>2. CASE ReceiveReady
  BY <1>2 DEF ReceiveReady, Operation, RequestOf, Request
<1>3. CASE SendRequest
  BY <1>3 DEF SendRequest, Transacts, SocketReady, RequestOf, Operation, RequestOf, Request
<1>4. CASE SendFails
  BY <1>4, AdvanceType DEF SendFails, Transacts, NextOperation, MainInv, Operation, RequestOf
<1>5. CASE SkipFailed
  BY <1>5, AdvanceType DEF SkipFailed, RequestOf, NextOperation, MainInv, Operation, RequestOf
<1>6. ASSUME NEW r \in replies[cur], ReceiveReply(r) PROVE TypeOK'
  BY <1>6, AdvanceType DEF ReceiveReply, ClearsPid, NextOperation, MainInv,
     Operation, RequestOf
<1>7. CASE Timeout
  BY <1>7, AdvanceType DEF Timeout, NextOperation, MainInv, Operation, RequestOf
<1>8. CASE StopSignal
  BY <1>8 DEF StopSignal, Operation
<1>9. CASE Delete
  BY <1>9 DEF Delete
<1>13. CASE CloseContext \/ Interrupted
  BY <1>13, AdvanceType DEF CloseContext, Interrupted, NextOperation, Operation
<1>10. CASE Abort
  BY <1>10 DEF Abort, Operation
<1>11. ASSUME NEW p \in Probe, Process(p) PROVE TypeOK'
  <2>1. CASE ReportReady(p)
    BY <2>1 DEF ReportReady
  <2>2. CASE Serve(p)
    BY <2>2 DEF Serve
  <2>3. ASSUME NEW m \in requests[p], ReceiveRequest(p, m) PROVE TypeOK'
    BY <2>3 DEF ReceiveRequest
  <2>4. ASSUME NEW m \in requests[p], RefuseRequest(p, m) PROVE TypeOK'
    <3>1. m \in Request
      OBVIOUS
    <3>2. requests' \in [Probe -> SUBSET Request]
      BY <2>4, <3>1 DEF RefuseRequest
    <3>3. replies' \in [Probe -> SUBSET Reply]
      <4>1. ErrorReply(m) \in Reply
        BY <3>1, ReplyType
      <4>. QED
        BY <2>4, <4>1 DEF RefuseRequest
    <3>4. proc' \in [Probe -> {"none", "booting", "ready", "serving", "arming",
                               "exiting", "exited"}]
      BY <2>4, <3>1 DEF RefuseRequest
    <3>. QED
      BY <2>4, <3>2, <3>3, <3>4 DEF RefuseRequest
  <2>5. CASE MethodReturns(p)
    <3>1. replies' \in [Probe -> SUBSET Reply]
      <4>1. [to |-> running[p], ok |-> TRUE] \in Reply
        BY <2>5, ReplyType DEF MethodReturns
      <4>. QED
        BY <2>5, <4>1 DEF MethodReturns
    <3>2. proc' \in [Probe -> {"none", "booting", "ready", "serving", "arming",
                               "exiting", "exited"}]
      BY <2>5 DEF MethodReturns, AfterReply
    <3>3. /\ armed' \in [Probe -> BOOLEAN]
          /\ running' \in [Probe -> Request \cup {"none", "probe"}]
          /\ result' \in [Probe -> {"none", "ok", "threw"}]
      BY <2>5 DEF MethodReturns
    <3>. QED
      BY <2>5, <3>1, <3>2, <3>3 DEF MethodReturns
  <2>6. CASE MethodThrows(p)
    <3>1. replies' \in [Probe -> SUBSET Reply]
      <4>1. ErrorReply(running[p]) \in Reply
        BY <2>6, ReplyType DEF MethodThrows
      <4>. QED
        BY <2>6, <4>1 DEF MethodThrows
    <3>2. proc' \in [Probe -> {"none", "booting", "ready", "serving", "arming",
                               "exiting", "exited"}]
      BY <2>6 DEF MethodThrows
    <3>3. /\ armed' \in [Probe -> BOOLEAN]
          /\ running' \in [Probe -> Request \cup {"none", "probe"}]
          /\ result' \in [Probe -> {"none", "ok", "threw"}]
      BY <2>6 DEF MethodThrows
    <3>. QED
      BY <2>6, <3>1, <3>2, <3>3 DEF MethodThrows
  <2>7. CASE MethodAborts(p)
    BY <2>7 DEF MethodAborts
  <2>8. CASE TimerExpires(p)
    BY <2>8 DEF TimerExpires
  <2>9. CASE ProbeReturns(p)
    BY <2>9 DEF ProbeReturns
  <2>10. CASE Crash(p)
    BY <2>10 DEF Crash, Up
  <2>11. CASE Exit(p)
    BY <2>11 DEF Exit
  <2>12. CASE Arm(p)
    BY <2>12 DEF Arm
  <2>13. CASE RequestLost(p)
    BY <2>13 DEF RequestLost
  <2>. QED
    BY <1>11, <2>1, <2>2, <2>3, <2>4, <2>5, <2>6, <2>7, <2>8, <2>9, <2>10,
       <2>11, <2>12, <2>13 DEF Process
<1>12. CASE UNCHANGED vars
  BY <1>12 DEF vars
<1>. QED
  BY <1>1, <1>2, <1>3, <1>4, <1>5, <1>6, <1>7, <1>8, <1>9, <1>10, <1>11, <1>12,
   <1>13
  DEF Next, Main
-----------------------------------------------------------------------------
(* One lemma per action of Next: it preserves every part.                  *)

USE DEF mainVars, containerVars, channelVars, procVars, pluginVars

\* Advance goes to the next container of the operation, or to the first
\* container of the next operation.
LEMMA AdvanceCases ==
    ASSUME TypeOK, Advance
    PROVE  /\ \/ cur < N /\ cur' = cur + 1 /\ op' = op
              \/ cur = N /\ cur' = 1 /\ op' = NextOperation[op]
           /\ step' = IF op' = "construct" THEN "fork" ELSE "call"
           /\ N \in Nat
           /\ \A p \in Probe : p \in Nat /\ 1 <= p /\ p <= N
BY NAssumption DEF TypeOK, Advance, Probe

\* What a step to the next container or operation means for each container.
LEMMA AdvanceFacts ==
    ASSUME TypeOK, Advance, op \in DOMAIN RequestOf, NEW p \in Probe
    PROVE  /\ op # "aborted" /\ op' # "aborted"
           /\ ~InTransaction(p)'
           /\ Completed(p)' = IF p = cur THEN RequestOf[op] ELSE Completed(p)
           /\ NamesDue(p)' => NamesDue(p) \/ (op = "initialize" /\ p = cur)
<1>1. op # "aborted" /\ op' # "aborted" /\ ~InTransaction(p)'
  BY AdvanceCases DEF InTransaction, RequestOf, NextOperation
<1>2. CASE cur < N
  <2>1. cur' = cur + 1 /\ op' = op /\ cur \in Nat
    BY <1>2, AdvanceCases DEF TypeOK
  <2>2. p \in Nat
    BY AdvanceCases
  <2>3. Completed(p)' = IF p = cur THEN RequestOf[op] ELSE Completed(p)
    BY <2>1, <2>2 DEF Completed, RequestOf
  <2>4. NamesDue(p)' => NamesDue(p) \/ (op = "initialize" /\ p = cur)
    BY <2>1, <2>2 DEF NamesDue, RequestOf
  <2>. QED
    BY <1>1, <2>3, <2>4
<1>3. CASE cur = N
  <2>1. cur' = 1 /\ op' = NextOperation[op] /\ cur \in Nat
    BY <1>3, AdvanceCases DEF TypeOK
  <2>2. p \in Nat /\ 1 <= p /\ p <= cur
    BY <1>3, AdvanceCases
  <2>3. Completed(p)' = IF p = cur THEN RequestOf[op] ELSE Completed(p)
    BY <2>1, <2>2 DEF Completed, RequestOf, NextOperation
  <2>4. NamesDue(p)' => NamesDue(p) \/ (op = "initialize" /\ p = cur)
    BY <2>1, <2>2 DEF NamesDue, RequestOf, NextOperation
  <2>. QED
    BY <1>1, <2>3, <2>4
<1>4. cur < N \/ cur = N
  BY AdvanceCases
<1>. QED
  BY <1>1, <1>2, <1>3, <1>4

\* Fork starts the process of a container nobody has talked to yet.
LEMMA ForkPreserves ==
    ASSUME IInv, TypeOK', Fork
    PROVE  IInv'
<1>1. MainInv'
  BY DEF IInv, Fork, MainInv
<1>2. ExchangeInv'
  BY DEF IInv, Fork, ExchangeInv, TypeOK
<1>3. GaveUpInv'
  BY DEF IInv, Fork, GaveUpInv, InTransaction
<1>4. ProcInv'
  BY NAssumption DEF IInv, Fork, Probe, ProcInv, TypeOK
<1>5. DestroyInv'
  BY DEF IInv, Fork, TypeOK, DestroyInv, BeforeDestroy
<1>6. OrderInv'
  BY DEF IInv, Fork, OrderInv
<1>7. AgreementInv'
  BY DEF IInv, Fork, AgreementInv, Completed, InTransaction, Reached
<1>8. NamesInv'
  BY DEF IInv, Fork, NamesInv, NamesDue
<1>9. TimerInv'
  BY NAssumption DEF IInv, Fork, Probe, TimerInv, Contract!Predecessor,
     TypeOK, ProcInv
<1>. QED
  BY <1>1, <1>2, <1>3, <1>4, <1>5, <1>6, <1>7, <1>8, <1>9 DEF IInv

\* The READY exchange changes nothing but status and step.
LEMMA ReceiveReadyPreserves ==
    ASSUME IInv, TypeOK', ReceiveReady
    PROVE  IInv'
<1>1. MainInv'
  BY DEF IInv, ReceiveReady, MainInv
<1>2. ExchangeInv'
  BY DEF IInv, ReceiveReady, ExchangeInv
<1>3. GaveUpInv'
  BY DEF IInv, ReceiveReady, GaveUpInv, InTransaction
<1>4. ProcInv'
  BY DEF IInv, ReceiveReady, ProcInv
<1>5. DestroyInv'
  BY DEF IInv, ReceiveReady, DestroyInv, BeforeDestroy
<1>6. OrderInv'
  BY DEF IInv, ReceiveReady, OrderInv
<1>7. AgreementInv'
  BY DEF IInv, ReceiveReady, AgreementInv, Completed, InTransaction, Reached
<1>8. NamesInv'
  BY DEF IInv, ReceiveReady, NamesInv, NamesDue
<1>9. TimerInv'
  BY DEF IInv, ReceiveReady, TimerInv, Contract!Predecessor
<1>. QED
  BY <1>1, <1>2, <1>3, <1>4, <1>5, <1>6, <1>7, <1>8, <1>9 DEF IInv

\* A request is sent on an idle socket, with the plugin where it must be.
LEMMA SendRequestPreserves ==
    ASSUME IInv, TypeOK', SendRequest
    PROVE  IInv'
<1>1. MainInv'
  BY DEF IInv, SendRequest, Transacts, SocketReady, RequestOf, Request,
     MainInv, TypeOK, ExchangeInv
<1>2. ExchangeInv'
  BY DEF IInv, SendRequest, Transacts, SocketReady, RequestOf, Request,
     ExchangeInv, TypeOK
<1>3. GaveUpInv'
  BY DEF IInv, SendRequest, GaveUpInv, InTransaction
<1>4. ProcInv'
  BY DEF IInv, SendRequest, ProcInv
<1>5. DestroyInv'
  <2>1. RequestOf[op] = "DESTROY" <=> op = "destroy"
    BY DEF SendRequest, Transacts, RequestOf
  <2>2. ASSUME NEW p \in Probe, BeforeDestroy(p)'
        PROVE  /\ last'[p] # "DESTROY"
               /\ "DESTROY" \notin requests'[p]
               /\ \A r \in replies'[p] : r.to # "DESTROY"
    <3>1. BeforeDestroy(p) /\ (p = cur => op # "destroy")
      BY <2>2 DEF IInv, TypeOK, SendRequest, Transacts, BeforeDestroy, Probe
    <3>2. requests'[p] = requests[p] \/ (p = cur
              /\ requests'[p] = requests[p] \cup {RequestOf[op]})
      BY DEF IInv, TypeOK, SendRequest
    <3>. QED
      BY <2>1, <3>1, <3>2 DEF IInv, SendRequest, DestroyInv
  <2>. QED
    BY <2>2 DEF IInv, SendRequest, TypeOK, DestroyInv
<1>6. OrderInv'
  <2>1. requests[cur] = {} /\ requests'[cur] = {RequestOf[op]}
    BY DEF IInv, SendRequest, SocketReady, ExchangeInv, TypeOK
  <2>2. CASE op = "destroy"
    <3>1. last[cur] # "DESTROY"
      BY <2>2 DEF IInv, SendRequest, Transacts, DestroyInv, BeforeDestroy, TypeOK
    <3>. QED
      BY <2>1, <2>2, <3>1 DEF IInv, SendRequest, RequestOf, OrderInv, TypeOK
  <2>3. CASE op # "destroy"
    <3>1. Reached(cur, Completed(cur))
      BY <2>3 DEF IInv, SendRequest, Transacts, RequestOf, AgreementInv,
         InTransaction, TypeOK
    <3>2. \/ op = "construct" /\ last[cur] = "none"
          \/ op = "initialize" /\ last[cur] = "CREATE" /\ result[cur] = "ok"
          \/ op = "start" /\ last[cur] = "INITIALIZE" /\ result[cur] = "ok"
          \/ op = "stop" /\ last[cur] = "START" /\ result[cur] = "ok"
      BY <2>3, <3>1, AdvanceCases DEF IInv, TypeOK, SendRequest, Transacts,
         RequestOf, Completed, Reached, Probe
    <3>. QED
      BY <2>1, <3>2 DEF IInv, SendRequest, RequestOf, OrderInv, TypeOK,
         Contract!Predecessor
  <2>. QED
    BY <2>2, <2>3
<1>7. AgreementInv'
  BY DEF IInv, SendRequest, Transacts, SocketReady, RequestOf, Request,
     AgreementInv, Completed, InTransaction, Reached, TypeOK, ExchangeInv
<1>8. NamesInv'
  BY DEF IInv, SendRequest, Transacts, SocketReady, RequestOf, Request,
     NamesInv, NamesDue, TypeOK
<1>9. TimerInv'
  BY DEF IInv, SendRequest, TimerInv, Contract!Predecessor
<1>. QED
  BY <1>1, <1>2, <1>3, <1>4, <1>5, <1>6, <1>7, <1>8, <1>9 DEF IInv

\* A refused send fails the container: nothing is claimed of it any more.
LEMMA SendFailsPreserves ==
    ASSUME IInv, TypeOK', SendFails
    PROVE  IInv'
<1>1. MainInv'
  BY AdvanceCases DEF IInv, SendFails, Transacts, SocketReady, RequestOf,
     NextOperation, MainInv, TypeOK
<1>2. ExchangeInv'
  BY DEF IInv, SendFails, ExchangeInv
<1>3. GaveUpInv'
  BY AdvanceCases DEF IInv, SendFails, Transacts, SocketReady, RequestOf,
     NextOperation, GaveUpInv, InTransaction, TypeOK
<1>4. ProcInv'
  BY AdvanceCases DEF IInv, SendFails, Transacts, SocketReady, RequestOf,
     NextOperation, ProcInv, TypeOK
<1>5. DestroyInv'
  BY AdvanceCases DEF IInv, SendFails, Transacts, SocketReady, RequestOf,
     NextOperation, DestroyInv, BeforeDestroy, TypeOK
<1>6. OrderInv'
  BY DEF IInv, SendFails, OrderInv
<1>7. AgreementInv'
  <2>1. op \in DOMAIN RequestOf
    BY DEF IInv, SendFails, Transacts, MainInv
  <2>2. ASSUME NEW p \in Probe, ~bFailure'[p]
        PROVE  ~bFailure[p] /\ p # cur /\ ~InTransaction(p)
    BY <2>2 DEF IInv, TypeOK, SendFails, InTransaction
  <2>. QED
    BY <2>1, <2>2, AdvanceFacts DEF IInv, SendFails, AgreementInv, Reached
<1>8. NamesInv'
  <2>1. op \in DOMAIN RequestOf
    BY DEF IInv, SendFails, Transacts, MainInv
  <2>2. ASSUME NEW p \in Probe, ~bFailure'[p]
        PROVE  ~bFailure[p] /\ p # cur
    BY <2>2 DEF IInv, TypeOK, SendFails
  <2>. QED
    BY <2>1, <2>2, AdvanceFacts DEF IInv, SendFails, NamesInv
<1>9. TimerInv'
  BY DEF IInv, SendFails, TimerInv, Contract!Predecessor
<1>. QED
  BY <1>1, <1>2, <1>3, <1>4, <1>5, <1>6, <1>7, <1>8, <1>9 DEF IInv

\* A failed container is passed over.
LEMMA SkipFailedPreserves ==
    ASSUME IInv, TypeOK', SkipFailed
    PROVE  IInv'
<1>1. MainInv'
  BY AdvanceCases DEF IInv, SkipFailed, RequestOf, NextOperation, MainInv,
     TypeOK
<1>2. ExchangeInv'
  BY DEF IInv, SkipFailed, ExchangeInv
<1>3. GaveUpInv'
  BY AdvanceCases DEF IInv, SkipFailed, RequestOf, NextOperation, GaveUpInv,
     InTransaction, TypeOK
<1>4. ProcInv'
  BY AdvanceCases DEF IInv, SkipFailed, RequestOf, NextOperation, ProcInv,
     TypeOK
<1>5. DestroyInv'
  BY AdvanceCases DEF IInv, SkipFailed, RequestOf, NextOperation, DestroyInv,
     BeforeDestroy, TypeOK
<1>6. OrderInv'
  BY DEF IInv, SkipFailed, OrderInv
<1>7. AgreementInv'
  <2>1. op \in DOMAIN RequestOf
    BY DEF IInv, SkipFailed, Transacts, MainInv
  <2>2. ASSUME NEW p \in Probe, ~bFailure'[p]
        PROVE  ~bFailure[p] /\ p # cur /\ ~InTransaction(p)
    BY <2>2 DEF IInv, TypeOK, SkipFailed, InTransaction
  <2>. QED
    BY <2>1, <2>2, AdvanceFacts DEF IInv, SkipFailed, AgreementInv, Reached
<1>8. NamesInv'
  <2>1. op \in DOMAIN RequestOf
    BY DEF IInv, SkipFailed, Transacts, MainInv
  <2>2. ASSUME NEW p \in Probe, ~bFailure'[p]
        PROVE  ~bFailure[p] /\ p # cur
    BY <2>2 DEF IInv, TypeOK, SkipFailed
  <2>. QED
    BY <2>1, <2>2, AdvanceFacts DEF IInv, SkipFailed, NamesInv
<1>9. TimerInv'
  BY DEF IInv, SkipFailed, TimerInv, Contract!Predecessor
<1>. QED
  BY <1>1, <1>2, <1>3, <1>4, <1>5, <1>6, <1>7, <1>8, <1>9 DEF IInv

\* The reply read is the answer to the request: an ok reply completes the
\* operation, an error fails the container.
LEMMA ReceiveReplyPreserves ==
    ASSUME IInv, TypeOK', NEW r \in replies[cur], ReceiveReply(r)
    PROVE  IInv'
<1>1. MainInv'
  BY AdvanceCases DEF IInv, ReceiveReply, ClearsPid, RequestOf, NextOperation,
     MainInv, TypeOK
<1>2. ExchangeInv'
  BY DEF IInv, ReceiveReply, TypeOK, ExchangeInv
<1>3. GaveUpInv'
  BY AdvanceCases DEF IInv, ReceiveReply, ClearsPid, RequestOf, NextOperation,
     GaveUpInv, InTransaction, TypeOK, MainInv
<1>4. ProcInv'
  BY AdvanceCases DEF IInv, ReceiveReply, ClearsPid, RequestOf, NextOperation,
     ProcInv, TypeOK, MainInv
<1>5. DestroyInv'
  BY AdvanceCases DEF IInv, ReceiveReply, ClearsPid, RequestOf, NextOperation,
     DestroyInv, BeforeDestroy, TypeOK, MainInv
<1>6. OrderInv'
  BY DEF IInv, ReceiveReply, OrderInv
<1>7. AgreementInv'
  <2>1. op \in DOMAIN RequestOf /\ requests[cur] = {} /\ InTransaction(cur)
    BY DEF IInv, TypeOK, ReceiveReply, MainInv, ExchangeInv, InTransaction
  <2>2. ASSUME ~bFailure'[cur]
        PROVE  Reached(cur, RequestOf[op])
    <3>1. r.ok /\ ~bFailure[cur]
      BY <2>2 DEF IInv, TypeOK, ReceiveReply
    <3>. QED
      BY <2>1, <3>1, AdvanceFacts DEF IInv, TypeOK, ReceiveReply, AgreementInv
  <2>3. ASSUME NEW p \in Probe, p # cur, ~bFailure'[p]
        PROVE  ~bFailure[p] /\ ~InTransaction(p)
    BY <2>3 DEF IInv, TypeOK, ReceiveReply, InTransaction
  <2>. QED
    BY <2>1, <2>2, <2>3, AdvanceFacts DEF IInv, TypeOK, ReceiveReply,
       AgreementInv, Reached
<1>8. NamesInv'
  <2>1. op \in DOMAIN RequestOf
    BY DEF IInv, ReceiveReply, MainInv
  <2>2. ASSUME NEW p \in Probe, ~bFailure'[p]
        PROVE  ~bFailure[p] /\ (op = "initialize" /\ p = cur => names'[p])
    BY <2>2 DEF IInv, TypeOK, ReceiveReply
  <2>3. \A p \in Probe : names[p] => names'[p]
    BY DEF IInv, TypeOK, ReceiveReply
  <2>4. UNCHANGED <<requests, running, armed, proc>>
    BY DEF ReceiveReply
  <2>5. ASSUME NEW p \in Probe, ~bFailure'[p], NamesDue(p)'
        PROVE  names'[p]
    <3>1. NamesDue(p) \/ (op = "initialize" /\ p = cur)
      BY <2>1, <2>5, AdvanceFacts DEF IInv, ReceiveReply
    <3>. QED
      BY <2>2, <2>3, <2>5, <3>1 DEF IInv, NamesInv
  <2>. QED
    BY <2>3, <2>4, <2>5 DEF IInv, NamesInv
<1>9. TimerInv'
  BY DEF IInv, ReceiveReply, TimerInv, Contract!Predecessor
<1>. QED
  BY <1>1, <1>2, <1>3, <1>4, <1>5, <1>6, <1>7, <1>8, <1>9 DEF IInv

\* A timeout fails the container and leaves its exchange outstanding.
LEMMA TimeoutPreserves ==
    ASSUME IInv, TypeOK', Timeout
    PROVE  IInv'
<1>1. MainInv'
  BY AdvanceCases DEF IInv, Timeout, RequestOf, NextOperation, MainInv, TypeOK
<1>2. ExchangeInv'
  BY DEF IInv, Timeout, ExchangeInv
<1>3. GaveUpInv'
  BY AdvanceCases DEF IInv, Timeout, RequestOf, NextOperation, GaveUpInv,
     InTransaction, TypeOK, MainInv
<1>4. ProcInv'
  BY AdvanceCases DEF IInv, Timeout, RequestOf, NextOperation, ProcInv,
     TypeOK, MainInv
<1>5. DestroyInv'
  BY AdvanceCases DEF IInv, Timeout, RequestOf, NextOperation, DestroyInv,
     BeforeDestroy, TypeOK, MainInv
<1>6. OrderInv'
  BY DEF IInv, Timeout, OrderInv
<1>7. AgreementInv'
  <2>1. op \in DOMAIN RequestOf
    BY DEF IInv, Timeout, Transacts, MainInv
  <2>2. ASSUME NEW p \in Probe, ~bFailure'[p]
        PROVE  ~bFailure[p] /\ p # cur /\ ~InTransaction(p)
    BY <2>2 DEF IInv, TypeOK, Timeout, InTransaction
  <2>. QED
    BY <2>1, <2>2, AdvanceFacts DEF IInv, Timeout, AgreementInv, Reached
<1>8. NamesInv'
  <2>1. op \in DOMAIN RequestOf
    BY DEF IInv, Timeout, Transacts, MainInv
  <2>2. ASSUME NEW p \in Probe, ~bFailure'[p]
        PROVE  ~bFailure[p] /\ p # cur
    BY <2>2 DEF IInv, TypeOK, Timeout
  <2>. QED
    BY <2>1, <2>2, AdvanceFacts DEF IInv, Timeout, NamesInv
<1>9. TimerInv'
  BY DEF IInv, Timeout, TimerInv, Contract!Predecessor
<1>. QED
  BY <1>1, <1>2, <1>3, <1>4, <1>5, <1>6, <1>7, <1>8, <1>9 DEF IInv

\* The signal starts stop() at container 1, every container after START.
LEMMA StopSignalPreserves ==
    ASSUME IInv, TypeOK', StopSignal
    PROVE  IInv'
<1>1. MainInv'
  BY DEF IInv, StopSignal, MainInv
<1>2. ExchangeInv'
  BY DEF IInv, StopSignal, ExchangeInv
<1>3. GaveUpInv'
  BY DEF IInv, StopSignal, GaveUpInv, InTransaction
<1>4. ProcInv'
  BY DEF IInv, StopSignal, ProcInv
<1>5. DestroyInv'
  BY DEF IInv, StopSignal, DestroyInv, BeforeDestroy
<1>6. OrderInv'
  BY DEF IInv, StopSignal, OrderInv
<1>7. AgreementInv'
  <2>1. \A p \in Probe : Completed(p)' = Completed(p)
    BY DEF IInv, TypeOK, MainInv, StopSignal, Completed, Probe
  <2>2. \A p \in Probe : ~InTransaction(p) /\ ~InTransaction(p)'
    BY DEF IInv, MainInv, StopSignal, InTransaction
  <2>. QED
    BY <2>1, <2>2 DEF IInv, StopSignal, AgreementInv, Reached
<1>8. NamesInv'
  BY DEF IInv, StopSignal, NamesInv, NamesDue
<1>9. TimerInv'
  BY DEF IInv, StopSignal, TimerInv, Contract!Predecessor
<1>. QED
  BY <1>1, <1>2, <1>3, <1>4, <1>5, <1>6, <1>7, <1>8, <1>9 DEF IInv

\* The destructor sends SIGTERM and goes on to close its members.
LEMMA DeletePreserves ==
    ASSUME IInv, TypeOK', Delete
    PROVE  IInv'
<1>1. MainInv'
  BY DEF IInv, Delete, MainInv
<1>2. ExchangeInv'
  BY DEF IInv, Delete, ExchangeInv
<1>3. GaveUpInv'
  BY DEF IInv, Delete, GaveUpInv, InTransaction
<1>4. ProcInv'
  BY DEF IInv, Delete, ProcInv
<1>5. DestroyInv'
  BY DEF IInv, Delete, DestroyInv, BeforeDestroy
<1>6. OrderInv'
  BY DEF IInv, Delete, OrderInv
<1>7. AgreementInv'
  BY DEF IInv, Delete, AgreementInv, Completed, InTransaction, Reached
<1>8. NamesInv'
  BY DEF IInv, Delete, NamesInv, NamesDue
<1>9. TimerInv'
  BY DEF IInv, Delete, TimerInv
<1>. QED
  BY <1>1, <1>2, <1>3, <1>4, <1>5, <1>6, <1>7, <1>8, <1>9 DEF IInv

\* Nor does the end of its context, however it comes about.
LEMMA CloseContextPreserves ==
    ASSUME IInv, TypeOK', CloseContext \/ Interrupted
    PROVE  IInv'
<1> USE DEF CloseContext, Interrupted
<1>1. MainInv'
  BY AdvanceCases DEF IInv, RequestOf, NextOperation, MainInv, TypeOK
<1>2. ExchangeInv'
  BY DEF IInv, ExchangeInv
<1>3. GaveUpInv'
  BY AdvanceCases DEF IInv, RequestOf, NextOperation, GaveUpInv,
     InTransaction, TypeOK, MainInv
<1>4. ProcInv'
  BY AdvanceCases DEF IInv, RequestOf, NextOperation, ProcInv, TypeOK
<1>5. DestroyInv'
  BY AdvanceCases DEF IInv, RequestOf, NextOperation, DestroyInv,
     BeforeDestroy, TypeOK
<1>6. OrderInv'
  BY DEF IInv, OrderInv
<1>7. AgreementInv'
  BY AdvanceCases DEF IInv, RequestOf, NextOperation, AgreementInv,
     Completed, InTransaction, Reached, TypeOK, MainInv
<1>8. NamesInv'
  BY DEF IInv, NamesInv, NamesDue
<1>9. TimerInv'
  BY DEF IInv, TimerInv, Contract!Predecessor
<1>. QED
  BY <1>1, <1>2, <1>3, <1>4, <1>5, <1>6, <1>7, <1>8, <1>9 DEF IInv

\* An early end of the daemon claims nothing of the containers.
LEMMA AbortPreserves ==
    ASSUME IInv, TypeOK', Abort
    PROVE  IInv'
<1>1. MainInv'
  BY DEF IInv, Abort, MainInv
<1>2. ExchangeInv'
  BY DEF IInv, Abort, ExchangeInv
<1>3. GaveUpInv'
  BY DEF IInv, Abort, GaveUpInv, InTransaction
<1>4. ProcInv'
  BY DEF IInv, Abort, ProcInv
<1>5. DestroyInv'
  BY DEF IInv, Abort, DestroyInv, BeforeDestroy
<1>6. OrderInv'
  BY DEF IInv, Abort, OrderInv
<1>7. AgreementInv'
  BY DEF IInv, Abort, AgreementInv, Completed, InTransaction, Reached
<1>8. NamesInv'
  BY DEF IInv, Abort, NamesInv, NamesDue
<1>9. TimerInv'
  BY DEF IInv, Abort, TimerInv, Contract!Predecessor
<1>. QED
  BY <1>1, <1>2, <1>3, <1>4, <1>5, <1>6, <1>7, <1>8, <1>9 DEF IInv

\* The process reports READY before any request.
LEMMA ReportReadyPreserves ==
    ASSUME IInv, TypeOK', NEW p \in Probe, ReportReady(p)
    PROVE  IInv'
<1>1. MainInv'
  BY DEF IInv, ReportReady, MainInv
<1>2. ExchangeInv'
  BY DEF IInv, ReportReady, ExchangeInv
<1>3. GaveUpInv'
  BY DEF IInv, ReportReady, GaveUpInv, InTransaction
<1>4. ProcInv'
  BY DEF IInv, ReportReady, ProcInv
<1>5. DestroyInv'
  BY DEF IInv, ReportReady, DestroyInv, BeforeDestroy
<1>6. OrderInv'
  BY DEF IInv, ReportReady, OrderInv
<1>7. AgreementInv'
  BY DEF IInv, ReportReady, AgreementInv, Completed, InTransaction, Reached
<1>8. NamesInv'
  BY DEF IInv, ReportReady, NamesInv, NamesDue
<1>9. TimerInv'
  BY DEF IInv, ReportReady, TimerInv, Contract!Predecessor
<1>. QED
  BY <1>1, <1>2, <1>3, <1>4, <1>5, <1>6, <1>7, <1>8, <1>9 DEF IInv

\* The process enters run().
LEMMA ServePreserves ==
    ASSUME IInv, TypeOK', NEW p \in Probe, Serve(p)
    PROVE  IInv'
<1>1. MainInv'
  BY DEF IInv, Serve, MainInv
<1>2. ExchangeInv'
  BY DEF IInv, Serve, ExchangeInv
<1>3. GaveUpInv'
  BY DEF IInv, Serve, GaveUpInv, InTransaction
<1>4. ProcInv'
  BY DEF IInv, Serve, ProcInv
<1>5. DestroyInv'
  BY DEF IInv, Serve, DestroyInv, BeforeDestroy
<1>6. OrderInv'
  BY DEF IInv, Serve, OrderInv
<1>7. AgreementInv'
  BY DEF IInv, Serve, AgreementInv, Completed, InTransaction, Reached
<1>8. NamesInv'
  BY DEF IInv, Serve, NamesInv, NamesDue
<1>9. TimerInv'
  BY DEF IInv, Serve, TimerInv, Contract!Predecessor
<1>. QED
  BY <1>1, <1>2, <1>3, <1>4, <1>5, <1>6, <1>7, <1>8, <1>9 DEF IInv

\* The request becomes the call: the exchange stays in one place.
LEMMA ReceiveRequestPreserves ==
    ASSUME IInv, TypeOK', NEW p \in Probe, NEW m \in requests[p],
            ReceiveRequest(p, m)
    PROVE  IInv'
<1>1. MainInv'
  BY DEF IInv, ReceiveRequest, MainInv
<1>2. ExchangeInv'
  BY DEF IInv, ReceiveRequest, TypeOK, ExchangeInv
<1>3. GaveUpInv'
  BY DEF IInv, ReceiveRequest, GaveUpInv, InTransaction
<1>4. ProcInv'
  BY DEF IInv, ReceiveRequest, Polling, HasPlugin, Request, ProcInv, TypeOK
<1>5. DestroyInv'
  BY DEF IInv, ReceiveRequest, TypeOK, DestroyInv, BeforeDestroy
<1>6. OrderInv'
  BY DEF IInv, ReceiveRequest, Polling, HasPlugin, Request, OrderInv, TypeOK,
     ExchangeInv
<1>7. AgreementInv'
  BY DEF IInv, ReceiveRequest, Polling, HasPlugin, Request, AgreementInv,
     Completed, InTransaction, Reached, TypeOK, MainInv, ExchangeInv, GaveUpInv,
     ProcInv, OrderInv
<1>8. NamesInv'
  BY DEF IInv, ReceiveRequest, Polling, HasPlugin, Request, NamesInv,
     NamesDue, TypeOK
<1>9. TimerInv'
  BY DEF IInv, ReceiveRequest, Polling, HasPlugin, Request, TimerInv,
     Contract!Predecessor, TypeOK, ProcInv, OrderInv, DestroyInv
<1>. QED
  BY <1>1, <1>2, <1>3, <1>4, <1>5, <1>6, <1>7, <1>8, <1>9 DEF IInv

\* The request becomes an error reply; without a plugin nothing was reached.
LEMMA RefuseRequestPreserves ==
    ASSUME IInv, TypeOK', NEW p \in Probe, NEW m \in requests[p],
            RefuseRequest(p, m)
    PROVE  IInv'
<1>1. MainInv'
  BY ReplyType DEF IInv, RefuseRequest, Polling, HasPlugin, Request, MainInv,
     TypeOK
<1>2. ExchangeInv'
  <2>1. requests[p] = {m} /\ replies[p] = {} /\ client[p] = "awaiting"
    BY DEF IInv, TypeOK, ExchangeInv, RefuseRequest
  <2>2. requests'[p] = {} /\ replies'[p] = {ErrorReply(m)}
    BY <2>1 DEF IInv, TypeOK, RefuseRequest
  <2>. QED
    BY <2>1, <2>2 DEF IInv, TypeOK, ExchangeInv, RefuseRequest, Polling, Request
<1>3. GaveUpInv'
  BY DEF IInv, RefuseRequest, GaveUpInv, InTransaction
<1>4. ProcInv'
  BY ReplyType DEF IInv, RefuseRequest, Polling, HasPlugin, Request, ProcInv,
     TypeOK
<1>5. DestroyInv'
  BY ReplyType DEF IInv, RefuseRequest, Polling, HasPlugin, Request,
     DestroyInv, BeforeDestroy, TypeOK
<1>6. OrderInv'
  BY DEF IInv, RefuseRequest, OrderInv
<1>7. AgreementInv'
  <2>1. client[p] = "awaiting" /\ m # "CREATE"
    BY DEF IInv, TypeOK, ExchangeInv, RefuseRequest
  <2>2. ASSUME ~bFailure[p], op # "aborted"
        PROVE  FALSE
    <3>1. InTransaction(p) /\ m = RequestOf[op]
      BY <2>1, <2>2 DEF IInv, GaveUpInv, MainInv, InTransaction
    <3>2. op \in {"initialize", "start", "stop", "destroy"}
      BY <2>1, <3>1 DEF IInv, MainInv, RequestOf, InTransaction
    <3>3. Reached(p, Completed(p))
      BY <2>2 DEF IInv, AgreementInv
    <3>4. Completed(p) \in {"CREATE", "INITIALIZE", "START", "STOP"}
      BY <3>1, <3>2 DEF Completed, InTransaction, Probe
    <3>. QED
      BY <3>3, <3>4 DEF RefuseRequest, HasPlugin, Reached
  <2>3. \A q \in Probe : q # p => replies'[q] = replies[q] /\ requests'[q] = requests[q]
    BY DEF IInv, TypeOK, RefuseRequest
  <2>. QED
    BY <2>2, <2>3 DEF IInv, TypeOK, RefuseRequest, AgreementInv, Completed,
       InTransaction, Reached
<1>8. NamesInv'
  BY DEF IInv, RefuseRequest, NamesInv, NamesDue
<1>9. TimerInv'
  BY ReplyType DEF IInv, RefuseRequest, Polling, HasPlugin, Request, TimerInv,
     Contract!Predecessor, TypeOK
<1>. QED
  BY <1>1, <1>2, <1>3, <1>4, <1>5, <1>6, <1>7, <1>8, <1>9 DEF IInv

\* The call becomes an ok reply; START arms the timer.
LEMMA MethodReturnsPreserves ==
    ASSUME IInv, TypeOK', NEW p \in Probe, MethodReturns(p)
    PROVE  IInv'
<1>1. MainInv'
  BY ReplyType DEF IInv, MethodReturns, AfterReply, Arms, Request, MainInv, TypeOK
<1>2. ExchangeInv'
  <2>1. requests[p] = {} /\ replies[p] = {} /\ client[p] = "awaiting"
    BY DEF IInv, TypeOK, ExchangeInv, MethodReturns
  <2>2. replies'[p] = {[to |-> running[p], ok |-> TRUE]} /\ running'[p] = "none"
    BY <2>1 DEF IInv, TypeOK, MethodReturns
  <2>3. \A q \in Probe : q # p =>
            replies'[q] = replies[q] /\ running'[q] = running[q]
    BY DEF IInv, TypeOK, MethodReturns
  <2>4. requests' = requests /\ client' = client
    BY DEF MethodReturns
  <2>5. \A r1, r2 \in replies'[p] : r1 = r2
    BY <2>2
  <2>6. running'[p] \notin Request
    BY <2>2 DEF Request
  <2>. QED
    BY <2>1, <2>3, <2>4, <2>5, <2>6 DEF IInv, ExchangeInv
<1>3. GaveUpInv'
  BY DEF IInv, MethodReturns, GaveUpInv, InTransaction
<1>4. ProcInv'
  BY ReplyType DEF IInv, MethodReturns, AfterReply, Arms, Request, ProcInv, TypeOK
<1>5. DestroyInv'
  BY ReplyType DEF IInv, MethodReturns, AfterReply, Arms, Request, DestroyInv,
     BeforeDestroy, TypeOK, ProcInv
<1>6. OrderInv'
  BY DEF IInv, MethodReturns, OrderInv
<1>7. AgreementInv'
  BY ReplyType DEF IInv, MethodReturns, AfterReply, Arms, Request, AgreementInv,
     Completed, InTransaction, Reached, TypeOK, MainInv, ExchangeInv, GaveUpInv,
     ProcInv, OrderInv
<1>8. NamesInv'
  BY ReplyType DEF IInv, MethodReturns, AfterReply, Arms, Request, NamesInv, NamesDue,
     TypeOK
<1>9. TimerInv'
  BY ReplyType DEF IInv, MethodReturns, AfterReply, Arms, Request, TimerInv,
     Contract!Predecessor, TypeOK, ProcInv
<1>. QED
  BY <1>1, <1>2, <1>3, <1>4, <1>5, <1>6, <1>7, <1>8, <1>9 DEF IInv

\* The timer is set in a plugin that is started.
LEMMA ArmPreserves ==
    ASSUME IInv, TypeOK', NEW p \in Probe, Arm(p)
    PROVE  IInv'
<1>1. MainInv'
  BY DEF IInv, Arm, MainInv
<1>2. ExchangeInv'
  BY DEF IInv, Arm, ExchangeInv
<1>3. GaveUpInv'
  BY DEF IInv, Arm, GaveUpInv, InTransaction
<1>4. ProcInv'
  BY DEF IInv, Arm, ProcInv, TypeOK
<1>5. DestroyInv'
  BY DEF IInv, Arm, DestroyInv, BeforeDestroy, TypeOK
<1>6. OrderInv'
  BY DEF IInv, Arm, OrderInv
<1>7. AgreementInv'
  BY DEF IInv, Arm, AgreementInv, Completed, InTransaction, Reached
<1>8. NamesInv'
  BY DEF IInv, Arm, NamesInv, NamesDue, TypeOK
<1>9. TimerInv'
  BY DEF IInv, Arm, TimerInv, TypeOK
<1>. QED
  BY <1>1, <1>2, <1>3, <1>4, <1>5, <1>6, <1>7, <1>8, <1>9 DEF IInv

\* The call becomes an error reply, except DESTROY, which ends the process.
LEMMA MethodThrowsPreserves ==
    ASSUME IInv, TypeOK', NEW p \in Probe, MethodThrows(p)
    PROVE  IInv'
<1>1. MainInv'
  BY ReplyType DEF IInv, MethodThrows, Request, MainInv, TypeOK
<1>2. ExchangeInv'
  BY ReplyType DEF IInv, MethodThrows, Request, ExchangeInv, TypeOK
<1>3. GaveUpInv'
  BY DEF IInv, MethodThrows, GaveUpInv, InTransaction
<1>4. ProcInv'
  BY ReplyType DEF IInv, MethodThrows, Request, ProcInv, TypeOK
<1>5. DestroyInv'
  BY ReplyType DEF IInv, MethodThrows, Request, DestroyInv, BeforeDestroy,
     TypeOK, ProcInv
<1>6. OrderInv'
  BY ReplyType DEF IInv, MethodThrows, Request, OrderInv, TypeOK, ExchangeInv
<1>7. AgreementInv'
  <2>1. requests[p] = {} /\ replies[p] = {} /\ client[p] = "awaiting"
    BY DEF IInv, TypeOK, ExchangeInv, MethodThrows
  <2>2. replies'[p] = {ErrorReply(running[p])}
    BY <2>1 DEF IInv, TypeOK, MethodThrows
  <2>3. ErrorReply(running[p]).ok <=> running[p] = "DESTROY"
    BY ReplyType DEF MethodThrows
  <2>4. ASSUME ~bFailure[p], op # "aborted"
        PROVE  InTransaction(p) /\ running[p] = RequestOf[op]
               /\ last[p] = running[p]
    BY <2>1, <2>4 DEF IInv, GaveUpInv, MainInv, ProcInv, MethodThrows,
       InTransaction
  <2>5. ASSUME NEW q \in Probe, q # p
        PROVE  /\ requests'[q] = requests[q] /\ replies'[q] = replies[q]
               /\ last'[q] = last[q] /\ result'[q] = result[q]
    BY <2>5 DEF IInv, TypeOK, MethodThrows
  <2>. QED
    BY <2>1, <2>2, <2>3, <2>4, <2>5
    DEF IInv, TypeOK, MethodThrows, AgreementInv, Completed, InTransaction,
        Reached
<1>8. NamesInv'
  BY DEF IInv, MethodThrows, NamesInv, NamesDue
<1>9. TimerInv'
  BY ReplyType DEF IInv, MethodThrows, Request, TimerInv,
     Contract!Predecessor, TypeOK, ProcInv
<1>. QED
  BY <1>1, <1>2, <1>3, <1>4, <1>5, <1>6, <1>7, <1>8, <1>9 DEF IInv

\* The call ends with the process: its exchange is never completed.
LEMMA MethodAbortsPreserves ==
    ASSUME IInv, TypeOK', NEW p \in Probe, MethodAborts(p)
    PROVE  IInv'
<1>1. MainInv'
  BY DEF IInv, MethodAborts, Request, MainInv, TypeOK
<1>2. ExchangeInv'
  BY DEF IInv, MethodAborts, ExchangeInv
<1>3. GaveUpInv'
  BY DEF IInv, MethodAborts, GaveUpInv, InTransaction
<1>4. ProcInv'
  BY DEF IInv, MethodAborts, Request, ProcInv, TypeOK
<1>5. DestroyInv'
  BY DEF IInv, MethodAborts, TypeOK, DestroyInv, BeforeDestroy
<1>6. OrderInv'
  BY DEF IInv, MethodAborts, Request, OrderInv, TypeOK, ExchangeInv
<1>7. AgreementInv'
  BY DEF IInv, MethodAborts, Request, AgreementInv, Completed, InTransaction,
     Reached, TypeOK, ProcInv
<1>8. NamesInv'
  BY DEF IInv, MethodAborts, NamesInv, NamesDue
<1>9. TimerInv'
  BY DEF IInv, MethodAborts, Request, TimerInv, Contract!Predecessor, TypeOK,
     ProcInv
<1>. QED
  BY <1>1, <1>2, <1>3, <1>4, <1>5, <1>6, <1>7, <1>8, <1>9 DEF IInv

\* A set timer means START succeeded, so the names were returned.
LEMMA TimerExpiresPreserves ==
    ASSUME IInv, TypeOK', NEW p \in Probe, TimerExpires(p)
    PROVE  IInv'
<1>1. MainInv'
  BY DEF IInv, TimerExpires, Polling, Request, MainInv, TypeOK
<1>2. ExchangeInv'
  BY DEF IInv, TimerExpires, Polling, Request, ExchangeInv, TypeOK
<1>3. GaveUpInv'
  BY DEF IInv, TimerExpires, GaveUpInv, InTransaction
<1>4. ProcInv'
  BY DEF IInv, TimerExpires, Polling, Request, ProcInv, TypeOK
<1>5. DestroyInv'
  BY DEF IInv, TimerExpires, Polling, Request, DestroyInv, BeforeDestroy,
     TypeOK
<1>6. OrderInv'
  BY DEF IInv, TimerExpires, OrderInv
<1>7. AgreementInv'
  BY DEF IInv, TimerExpires, AgreementInv, Completed, InTransaction, Reached
<1>8. NamesInv'
  BY DEF IInv, TimerExpires, NamesInv, NamesDue
<1>9. TimerInv'
  BY DEF IInv, TimerExpires, Polling, Request, TimerInv, Contract!Predecessor,
     TypeOK, ProcInv, OrderInv, DestroyInv
<1>. QED
  BY <1>1, <1>2, <1>3, <1>4, <1>5, <1>6, <1>7, <1>8, <1>9 DEF IInv

\* After a sample the timer is set again.
LEMMA ProbeReturnsPreserves ==
    ASSUME IInv, TypeOK', NEW p \in Probe, ProbeReturns(p)
    PROVE  IInv'
<1>1. MainInv'
  BY DEF IInv, ProbeReturns, Arms, Request, MainInv, TypeOK
<1>2. ExchangeInv'
  BY DEF IInv, ProbeReturns, Arms, Request, ExchangeInv, TypeOK
<1>3. GaveUpInv'
  BY DEF IInv, ProbeReturns, GaveUpInv, InTransaction
<1>4. ProcInv'
  BY DEF IInv, ProbeReturns, Arms, Request, ProcInv, TypeOK
<1>5. DestroyInv'
  BY DEF IInv, ProbeReturns, DestroyInv, BeforeDestroy
<1>6. OrderInv'
  BY DEF IInv, ProbeReturns, OrderInv
<1>7. AgreementInv'
  BY DEF IInv, ProbeReturns, AgreementInv, Completed, InTransaction, Reached
<1>8. NamesInv'
  BY DEF IInv, ProbeReturns, NamesInv, NamesDue
<1>9. TimerInv'
  BY DEF IInv, ProbeReturns, Arms, Request, TimerInv, Contract!Predecessor,
     TypeOK
<1>. QED
  BY <1>1, <1>2, <1>3, <1>4, <1>5, <1>6, <1>7, <1>8, <1>9 DEF IInv

\* A crash leaves requests where they are; a reply may be lost.
LEMMA CrashPreserves ==
    ASSUME IInv, TypeOK', NEW p \in Probe, Crash(p)
    PROVE  IInv'
<1>1. MainInv'
  BY DEF IInv, Crash, Up, Request, MainInv, TypeOK
<1>2. ExchangeInv'
  BY DEF IInv, Crash, Up, Request, ExchangeInv, TypeOK
<1>3. GaveUpInv'
  BY DEF IInv, Crash, Up, GaveUpInv, InTransaction
<1>4. ProcInv'
  BY DEF IInv, Crash, Up, Request, ProcInv, TypeOK
<1>5. DestroyInv'
  BY DEF IInv, Crash, Up, TypeOK, DestroyInv, BeforeDestroy
<1>6. OrderInv'
  BY DEF IInv, Crash, Up, OrderInv
<1>7. AgreementInv'
  BY DEF IInv, Crash, Up, AgreementInv, Completed, InTransaction, Reached,
     TypeOK
<1>8. NamesInv'
  BY DEF IInv, Crash, Up, NamesInv, NamesDue, TypeOK
<1>9. TimerInv'
  BY DEF IInv, Crash, Up, TypeOK, TimerInv, Contract!Predecessor
<1>. QED
  BY <1>1, <1>2, <1>3, <1>4, <1>5, <1>6, <1>7, <1>8, <1>9 DEF IInv

\* A request that is lost is none that the invariant needs.
LEMMA RequestLostPreserves ==
    ASSUME IInv, TypeOK', NEW p \in Probe, RequestLost(p)
    PROVE  IInv'
<1>1. MainInv'
  BY DEF IInv, RequestLost, MainInv, TypeOK
<1>2. ExchangeInv'
  BY DEF IInv, RequestLost, ExchangeInv, TypeOK
<1>3. GaveUpInv'
  BY DEF IInv, RequestLost, GaveUpInv, InTransaction
<1>4. ProcInv'
  BY DEF IInv, RequestLost, ProcInv
<1>5. DestroyInv'
  BY DEF IInv, RequestLost, DestroyInv, BeforeDestroy, TypeOK
<1>6. OrderInv'
  BY DEF IInv, RequestLost, OrderInv, TypeOK
<1>7. AgreementInv'
  BY DEF IInv, RequestLost, AgreementInv, Completed, InTransaction, Reached, TypeOK
<1>8. NamesInv'
  BY DEF IInv, RequestLost, NamesInv, NamesDue, TypeOK
<1>9. TimerInv'
  BY DEF IInv, RequestLost, TimerInv
<1>. QED
  BY <1>1, <1>2, <1>3, <1>4, <1>5, <1>6, <1>7, <1>8, <1>9 DEF IInv

\* The process ends; nothing runs in it.
LEMMA ExitPreserves ==
    ASSUME IInv, TypeOK', NEW p \in Probe, Exit(p)
    PROVE  IInv'
<1>1. MainInv'
  BY DEF IInv, Exit, Up, Request, MainInv, TypeOK
<1>2. ExchangeInv'
  BY DEF IInv, Exit, Up, Request, ExchangeInv, TypeOK
<1>3. GaveUpInv'
  BY DEF IInv, Exit, Up, GaveUpInv, InTransaction
<1>4. ProcInv'
  BY DEF IInv, Exit, Up, Request, ProcInv, TypeOK
<1>5. DestroyInv'
  BY DEF IInv, Exit, Up, TypeOK, DestroyInv, BeforeDestroy
<1>6. OrderInv'
  BY DEF IInv, Exit, Up, OrderInv
<1>7. AgreementInv'
  BY DEF IInv, Exit, Up, AgreementInv, Completed, InTransaction, Reached
<1>8. NamesInv'
  BY DEF IInv, Exit, Up, NamesInv, NamesDue, TypeOK
<1>9. TimerInv'
  BY DEF IInv, Exit, Up, TypeOK, TimerInv, Contract!Predecessor
<1>. QED
  BY <1>1, <1>2, <1>3, <1>4, <1>5, <1>6, <1>7, <1>8, <1>9 DEF IInv

\* A stuttering step changes nothing.
LEMMA StutterPreserves ==
    ASSUME IInv, UNCHANGED vars
    PROVE  IInv'
BY DEF IInv, vars, TypeOK, MainInv, ExchangeInv, GaveUpInv, ProcInv, DestroyInv,
   BeforeDestroy, OrderInv, AgreementInv, InTransaction, Reached, Completed,
   NamesInv, NamesDue, TimerInv

-----------------------------------------------------------------------------
(* The theorems.                                                           *)

\* The inductive invariant holds initially.
LEMMA InitIInv == Init => IInv
<1> SUFFICES ASSUME Init PROVE IInv
  OBVIOUS
<1>1. TypeOK
  BY TypeInit
<1>2. MainInv /\ ExchangeInv /\ GaveUpInv /\ ProcInv
  BY DEF Init, MainInv, ExchangeInv, GaveUpInv, ProcInv, Request
<1>3. DestroyInv /\ OrderInv /\ NamesInv /\ TimerInv
  BY DEF Init, DestroyInv, OrderInv, NamesInv, NamesDue, TimerInv
<1>4. AgreementInv
  <2>1. \A p \in Probe : Completed(p) = "none"
    BY DEF Init, Completed, Probe
  <2>. QED
    BY <2>1 DEF Init, AgreementInv, InTransaction, Reached
<1>. QED
  BY <1>1, <1>2, <1>3, <1>4 DEF IInv

\* Every step preserves the inductive invariant.
LEMMA NextIInv == IInv /\ [Next]_vars => IInv'
<1> SUFFICES ASSUME IInv, [Next]_vars PROVE IInv'
  OBVIOUS
<1>1. TypeOK'
  BY TypeStep DEF IInv
<1>2. CASE Main
  BY <1>1, <1>2, ForkPreserves, ReceiveReadyPreserves, SendRequestPreserves,
     SendFailsPreserves, SkipFailedPreserves, ReceiveReplyPreserves, TimeoutPreserves,
     StopSignalPreserves, DeletePreserves, CloseContextPreserves, AbortPreserves
     DEF Main
<1>3. ASSUME NEW p \in Probe, Process(p) PROVE IInv'
  BY <1>1, <1>3, ReportReadyPreserves, ServePreserves, ReceiveRequestPreserves,
     RefuseRequestPreserves, MethodReturnsPreserves, MethodThrowsPreserves,
     MethodAbortsPreserves, TimerExpiresPreserves, ProbeReturnsPreserves,
     CrashPreserves, ExitPreserves, ArmPreserves, RequestLostPreserves
     DEF Process
<1>4. CASE UNCHANGED vars
  BY <1>4, StutterPreserves
<1>. QED
  BY <1>2, <1>3, <1>4 DEF Next

\* The inductive invariant holds in every reachable state.
THEOREM Invariance == Spec => []IInv
BY InitIInv, NextIInv, PTL DEF Spec

\* Every variable keeps its type: no loop of the main thread leaves the
\* configured probes.
THEOREM TypeCorrect == Spec => []TypeOK
<1>1. IInv => TypeOK
  BY DEF IInv
<1>. QED
  BY <1>1, Invariance, PTL

\* Requests and replies never fall out of step, whatever times out: no
\* transaction reads the answer to an earlier one.
THEOREM ExchangesInStep == Spec => []OneExchange
<1>1. IInv => OneExchange
  <2> SUFFICES ASSUME IInv PROVE OneExchange
    OBVIOUS
  <2>1. ASSUME NEW p \in Probe, client[p] = "idle" PROVE InFlight(p) = {}
    BY <2>1 DEF IInv, ExchangeInv, InFlight
  <2>2. ASSUME NEW p \in Probe, NEW m1 \in InFlight(p), NEW m2 \in InFlight(p)
        PROVE  m1 = m2
    BY DEF IInv, ExchangeInv, InFlight
  <2>3. ASSUME step = "reply", NEW m \in InFlight(cur) PROVE m = RequestOf[op]
    BY <2>3 DEF IInv, MainInv, InFlight
  <2>. QED
    BY <2>1, <2>2, <2>3 DEF OneExchange
<1>. QED
  BY <1>1, Invariance, PTL

\* A container that has not failed and is not in a transaction knows exactly
\* what its plugin has been through.
THEOREM Agreement == Spec => []ContainerAgreesWithPlugin
<1>1. IInv => ContainerAgreesWithPlugin
  <2> SUFFICES ASSUME IInv, op # "aborted", NEW p \in Probe, ~bFailure[p],
                      ~InTransaction(p)
               PROVE  /\ last[p] = Completed(p)
                      /\ running[p] \notin Request
                      /\ last[p] \in {"CREATE", "INITIALIZE", "START", "STOP"} =>
                             result[p] = "ok"
    BY DEF ContainerAgreesWithPlugin, InTransaction
  <2>1. Reached(p, Completed(p))
    BY DEF IInv, AgreementInv
  <2>2. client[p] = "idle"
    BY DEF IInv, TypeOK, GaveUpInv
  <2>. QED
    BY <2>1, <2>2 DEF IInv, ExchangeInv, Reached
<1>. QED
  BY <1>1, Invariance, PTL

\* No probe is sampled before the daemon knows its topics.
THEOREM PublishedAfterAdvertised == Spec => []PublishedIsAdvertised
<1>1. IInv => PublishedIsAdvertised
  BY DEF IInv, NamesInv, PublishedIsAdvertised
<1>. QED
  BY <1>1, Invariance, PTL

\* In the run phase every probe the daemon holds to be healthy is sampled, from
\* the step after its reply to START.
THEOREM SampledWhileRunning == Spec => []RunningIsSampled
<1>1. IInv => RunningIsSampled
  <2> SUFFICES ASSUME IInv, op = "run", NEW p \in Probe, ~bFailure[p],
                      proc[p] # "exited"
               PROVE  armed[p] \/ running[p] = "probe" \/ proc[p] = "arming"
    BY DEF RunningIsSampled
  <2>1. ~InTransaction(p)
    BY DEF IInv, MainInv, InTransaction
  <2>2. Reached(p, "START")
    BY <2>1 DEF IInv, AgreementInv, Completed
  <2>. QED
    BY <2>2 DEF IInv, TimerInv, Reached
<1>. QED
  BY <1>1, Invariance, PTL

\* A container forgets its process only when the process is on its way out.
THEOREM NoneForgotten == Spec => []NoForgottenProcess
<1>1. IInv => NoForgottenProcess
  BY DEF IInv, DestroyInv, NoForgottenProcess
<1>. QED
  BY <1>1, Invariance, PTL

-----------------------------------------------------------------------------
(* Every step of the system is a step of the plugin contract, or leaves    *)
(* the plugins alone.                                                      *)

\* The plugin's process is still in run(), or has yet to enter it.
Alive == [p \in Probe |-> proc[p] \notin {"exiting", "exited"}]

\* A step that leaves the plugins alone is a stutter of the contract.
LEMMA ContractStutter ==
    ASSUME Alive' = Alive, UNCHANGED pluginVars
    PROVE  UNCHANGED Contract!vars
BY DEF Contract!vars, Alive

\* Every other step is a step of the contract.
LEMMA ContractStep == IInv /\ [Next]_vars => [Contract!Next]_(Contract!vars)
<1> SUFFICES ASSUME IInv, [Next]_vars PROVE [Contract!Next]_(Contract!vars)
  OBVIOUS
<1>1. ASSUME UNCHANGED <<proc, running, last, result>>
      PROVE  UNCHANGED Contract!vars
  BY <1>1 DEF Contract!vars
<1>2. CASE Main
  <2>1. CASE Fork
    <3>1. proc[cur] = "none"
      BY <2>1 DEF IInv, TypeOK, ProcInv, Fork
    <3>2. Alive' = Alive
      BY <2>1, <3>1 DEF IInv, TypeOK, Fork, Alive
    <3>. QED
      BY <2>1, <3>2, ContractStutter DEF Fork
  <2>2. CASE ~Fork
    BY <1>1, <1>2, <2>2 DEF Main, ReceiveReady, SendRequest, SendFails, SkipFailed,
       ReceiveReply, Timeout, StopSignal, Delete, CloseContext, Interrupted, Abort
  <2>. QED
    BY <2>1, <2>2
<1>3. ASSUME NEW p \in Probe, Process(p)
      PROVE  [Contract!Next]_(Contract!vars)
  <2>1. CASE ReportReady(p) \/ Serve(p) \/ Arm(p) \/ RequestLost(p)
    <3>1. Alive' = Alive
      BY <2>1 DEF IInv, TypeOK, ReportReady, Serve, Arm, RequestLost, Alive
    <3>. QED
      BY <2>1, <3>1, ContractStutter DEF ReportReady, Serve, Arm, RequestLost
  <2>2. ASSUME NEW m \in requests[p], ReceiveRequest(p, m)
        PROVE  Contract!Call(p, m)
    <3>1. /\ m \in Request
          /\ Alive[p] /\ running[p] = "none"
          /\ Alive' = Alive
      BY <2>2 DEF IInv, TypeOK, ReceiveRequest, Polling, Alive
    <3>2. Contract!MayCall(p, m)
      BY <2>2, <3>1 DEF IInv, OrderInv, ReceiveRequest, HasPlugin, Request, Alive,
         Contract!MayCall, Contract!Predecessor
    <3>. QED
      BY <2>2, <3>1, <3>2 DEF ReceiveRequest, Contract!Call, Alive
  <2>3. ASSUME NEW m \in requests[p], RefuseRequest(p, m)
        PROVE  Contract!End(p) \/ UNCHANGED Contract!vars
    <3>1. CASE m = "DESTROY"
      <4>1. /\ Alive[p]
            /\ Alive' = [Alive EXCEPT ![p] = FALSE]
            /\ running' = [running EXCEPT ![p] = "none"]
        <5>1. proc[p] = "serving" /\ running[p] = "none"
          BY <2>3 DEF RefuseRequest, Polling
        <5>2. proc' = [proc EXCEPT ![p] = "exiting"]
          BY <2>3, <3>1 DEF RefuseRequest
        <5>3. Alive[p] /\ Alive' = [Alive EXCEPT ![p] = FALSE]
          BY <5>1, <5>2 DEF IInv, TypeOK, Alive
        <5>4. running = [running EXCEPT ![p] = "none"]
          BY <5>1 DEF IInv, TypeOK
        <5>. QED
          BY <2>3, <5>3, <5>4 DEF RefuseRequest
      <4>. QED
        BY <2>3, <4>1 DEF RefuseRequest, Contract!End, Alive
    <3>2. CASE m # "DESTROY"
      <4>1. Alive' = Alive
        BY <2>3, <3>2 DEF IInv, TypeOK, RefuseRequest, Alive
      <4>. QED
        BY <2>3, <4>1, ContractStutter DEF RefuseRequest
    <3>. QED
      BY <3>1, <3>2
  <2>4. CASE MethodReturns(p) \/ MethodThrows(p) \/ MethodAborts(p)
    <3>1. Alive' \in {Alive, [Alive EXCEPT ![p] = FALSE]}
      <4>1. \/ proc' = proc
            \/ proc' = [proc EXCEPT ![p] = "exiting"]
            \/ proc[p] = "serving" /\ proc' = [proc EXCEPT ![p] = "arming"]
        BY <2>4 DEF IInv, TypeOK, MethodReturns, MethodThrows, MethodAborts,
           AfterReply
      <4>2. proc \in [Probe -> {"none", "booting", "ready", "serving", "arming",
                                "exiting", "exited"}]
        BY DEF IInv, TypeOK
      <4>. QED
        BY <4>1, <4>2 DEF Alive
    <3>2. running[p] # "none" /\ running[p] # "probe"
      BY <2>4 DEF MethodReturns, MethodThrows, MethodAborts, Request
    <3>. QED
      BY <2>4, <3>1, <3>2 DEF MethodReturns, MethodThrows, MethodAborts,
         Contract!Next, Contract!Return, Alive
  <2>5. CASE TimerExpires(p)
    <3>1. last[p] # "DESTROY"
      BY <2>5 DEF IInv, DestroyInv, TimerExpires, Polling
    <3>2. Alive[p] /\ Alive' = Alive
      BY <2>5 DEF TimerExpires, Polling, Alive
    <3>. QED
      BY <2>5, <3>1, <3>2 DEF IInv, TimerInv, TimerExpires, Polling, Contract!Next,
         Contract!Sample, Alive
  <2>6. CASE ProbeReturns(p)
    BY <2>6 DEF ProbeReturns, Contract!Next, Contract!Return
  <2>7. CASE Crash(p) \/ Exit(p)
    <3>1. CASE Alive[p]
      <4>1. Alive' = [Alive EXCEPT ![p] = FALSE]
        <5>1. proc' = [proc EXCEPT ![p] = "exited"]
          BY <2>7 DEF Crash, Exit
        <5>2. proc \in [Probe -> {"none", "booting", "ready", "serving",
                                  "arming", "exiting", "exited"}]
          BY DEF IInv, TypeOK
        <5>. QED
          BY <5>1, <5>2 DEF Alive
      <4>. QED
        BY <2>7, <3>1, <4>1 DEF Crash, Exit, Contract!Next, Contract!End, Alive
    <3>2. CASE ~Alive[p]
      <4>1. proc[p] = "exiting" /\ running[p] = "none"
        BY <2>7, <3>2 DEF IInv, TypeOK, ProcInv, Crash, Exit, Up, Alive
      <4>2. proc' = [proc EXCEPT ![p] = "exited"]
            /\ running' = [running EXCEPT ![p] = "none"]
        BY <2>7 DEF Crash, Exit
      <4>3. Alive' = Alive
        BY <4>1, <4>2 DEF IInv, TypeOK, Alive
      <4>4. running' = running
        BY <4>1, <4>2 DEF IInv, TypeOK
      <4>. QED
        BY <2>7, <4>3, <4>4, ContractStutter DEF Crash, Exit
    <3>. QED
      BY <3>1, <3>2
  <2>8. ASSUME NEW m \in Request, Contract!Call(p, m) PROVE Contract!Next
    BY <2>8 DEF Contract!Next, Contract!Lifecycle, Request
  <2>9. ASSUME Contract!End(p) PROVE Contract!Next
    BY <2>9 DEF Contract!Next
  <2>. QED
    BY <1>3, <2>1, <2>2, <2>3, <2>4, <2>5, <2>6, <2>7, <2>8, <2>9
    DEF IInv, TypeOK, Process
<1>4. CASE UNCHANGED vars
  BY <1>1, <1>4 DEF vars
<1>. QED
  BY <1>2, <1>3, <1>4 DEF Next

\* The daemon and its probe processes implement the contract with the plugin:
\* its methods are called in order and at most once each, and it is sampled only
\* after a successful start, under any timeouts, failures and deaths.
THEOREM ImplementsContract == Spec => PluginContract
<1>1. Init => Contract!Init
  BY DEF Init, Contract!Init
<1>2. QED
  BY <1>1, Invariance, ContractStep, PTL DEF Spec, PluginContract, Contract!Spec
=============================================================================
