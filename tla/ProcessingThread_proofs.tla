------------------------ MODULE ProcessingThread_proofs ------------------------
(***************************************************************************)
(* Proofs about ProcessingThread, for any number of endpoints.             *)
(***************************************************************************)
EXTENDS ProcessingThread, FiniteSetTheorems, TLAPS

Setup == {"ready", "awaitReady", "joinFailed", "thrown"}
Ending == {"awaitEnd", "joining", "closing", "done", "terminated"}

\* READY and END are alone of their kind: 1 when it has not been received.
PendingReady == IF commands # <<>> /\ commands[1] = "READY" THEN 1 ELSE 0
PendingEnd ==
    IF commands # <<>> /\ commands[Len(commands)] = "END" THEN 1 ELSE 0

\* READY is sent and received before any ADD, and END is sent last.
CommandsInv ==
    /\ main = "ready" => commands = <<>>
    /\ \A i \in 1..Len(commands) :
           /\ commands[i] = "READY" => main \in Setup /\ Len(commands) = 1
           /\ commands[i] = "ADD" => main \notin Setup
           /\ commands[i] = "END" => main \in Ending /\ i = Len(commands)

\* Where one thread is tells where the other can be.
ThreadsInv ==
    /\ main \in Setup => sent = 0 /\ thread # "ended"
    /\ thread \in {"starting", "binding"} => main \in Setup /\ responses = <<>>
    /\ main \in {"ready", "awaitReady"} => timeouts = 0
    /\ thread = "failed" => main \in Setup \/ ~AddIsAnswered
    /\ thread = "failed" /\ main \in Setup => responses = <<>>
    /\ thread = "ended" => main \in Ending /\ commands = <<>>
    /\ main \in {"closing", "done"} => thread \in {"ended", "failed"}
    /\ main = "awaitAdd" => AddIsAnswered

\* Every ADD sent is carried out or pending.
AddsInv ==
    thread # "failed" =>
        added + Len(commands) = sent + PendingReady + PendingEnd

\* SurplusIsTimeouts without sets.
SurplusInv ==
    thread # "failed" =>
        Len(responses) + (IF AddIsAnswered THEN Len(commands)
                          ELSE PendingReady + PendingEnd)
            = timeouts + (IF main \in Awaiting THEN 1 ELSE 0)

\* What the program is decides which commands are answered.
USE DEF AddIsAnswered

IInv == TypeOK /\ CommandsInv /\ ThreadsInv /\ AddsInv /\ SurplusInv

-----------------------------------------------------------------------------
(* The invariant.                                                          *)

\* The program starts in the invariant.
LEMMA InitInv == Init => IInv
<1> SUFFICES ASSUME Init PROVE IInv
  OBVIOUS
<1>1. held \in BOOLEAN
  BY DEF Init
<1>. QED
  BY <1>1, AddsAssumption
     DEF Init, IInv, TypeOK, CommandsInv, ThreadsInv, AddsInv, SurplusInv,
         PendingReady, PendingEnd, Setup, Ending, Awaiting

\* A command appended to the queue comes last, and leaves the others in place.
LEMMA AppendCommand ==
    ASSUME NEW s \in Seq({"READY", "ADD", "END"}),
           NEW c \in {"READY", "ADD", "END"}
    PROVE  /\ Append(s, c) \in Seq({"READY", "ADD", "END"})
           /\ Append(s, c) # <<>>
           /\ Len(Append(s, c)) = Len(s) + 1
           /\ \A i \in 1..Len(s) : Append(s, c)[i] = s[i]
           /\ Append(s, c)[Len(s) + 1] = c
OBVIOUS

\* The command at the head of the queue is its first, and the others move up.
LEMMA TailCommand ==
    ASSUME NEW s \in Seq({"READY", "ADD", "END"}), s # <<>>
    PROVE  /\ Tail(s) \in Seq({"READY", "ADD", "END"})
           /\ Len(s) \in Nat \ {0} /\ Len(Tail(s)) = Len(s) - 1
           /\ Head(s) = s[1]
           /\ \A i \in 1..Len(Tail(s)) : Tail(s)[i] = s[i + 1]
OBVIOUS

\* A queue is empty when its length is 0; otherwise it has a first and a last.
LEMMA EmptyQueue ==
    ASSUME NEW s \in Seq({"READY", "ADD", "END"})
    PROVE  /\ Len(s) \in Nat
           /\ s = <<>> <=> Len(s) = 0
           /\ s # <<>> => 1 \in 1..Len(s) /\ Len(s) \in 1..Len(s)
OBVIOUS

\* A response appended or read changes the number of responses by one.
LEMMA Responses ==
    ASSUME NEW s \in Seq({"READY", "SUCCESS"}),
           NEW r \in {"READY", "SUCCESS"}
    PROVE  /\ Append(s, r) \in Seq({"READY", "SUCCESS"})
           /\ Len(Append(s, r)) = Len(s) + 1 /\ Len(s) \in Nat
           /\ s = <<>> <=> Len(s) = 0
           /\ s # <<>> => /\ Tail(s) \in Seq({"READY", "SUCCESS"})
                          /\ Len(Tail(s)) = Len(s) - 1
OBVIOUS

\* The counters are numbers.
LEMMA Counters ==
    ASSUME IInv
    PROVE  /\ sent \in Nat /\ added \in Nat /\ timeouts \in Nat
           /\ Len(responses) \in Nat /\ Len(commands) \in Nat
           /\ PendingReady \in {0, 1} /\ PendingEnd \in {0, 1}
BY AddsAssumption DEF IInv, TypeOK, PendingReady, PendingEnd

\* READY is the first command sent.
LEMMA SendReadyInv == IInv /\ SendReady => IInv'
<1> SUFFICES ASSUME IInv, SendReady PROVE IInv'
  OBVIOUS
<1>1. commands = <<>> /\ commands' = <<"READY">> /\ sent = 0
  BY DEF SendReady, Send, IInv, TypeOK, CommandsInv, ThreadsInv, Setup
<1>2. Len(commands) = 0 /\ Len(commands') = 1 /\ commands'[1] = "READY"
      /\ commands' # <<>> /\ commands' \in Seq({"READY", "ADD", "END"})
  BY <1>1
<1>3. PendingReady = 0 /\ PendingEnd = 0 /\ PendingReady' = 1 /\ PendingEnd' = 0
  BY <1>1, <1>2 DEF PendingReady, PendingEnd
<1>4. TypeOK' /\ CommandsInv' /\ ThreadsInv'
  BY <1>1, <1>2 DEF SendReady, Send, Connected, IInv, TypeOK, CommandsInv,
                    ThreadsInv, Setup, Ending, Awaiting
<1>5. AddsInv' /\ SurplusInv'
  BY <1>1, <1>2, <1>3
     DEF SendReady, Send, IInv, TypeOK, AddsInv, SurplusInv, Awaiting
<1>. QED
  BY <1>4, <1>5 DEF IInv

\* An ADD is sent while no other transaction is under way.
LEMMA SendAddInv == IInv /\ SendAdd => IInv'
<1> SUFFICES ASSUME IInv, SendAdd PROVE IInv'
  OBVIOUS
<1>1. commands \in Seq({"READY", "ADD", "END"})
      /\ commands' = Append(commands, "ADD")
  BY DEF SendAdd, Send, IInv, TypeOK
<1>2. /\ commands' \in Seq({"READY", "ADD", "END"}) /\ commands' # <<>>
      /\ Len(commands') = Len(commands) + 1 /\ Len(commands) \in Nat
      /\ \A i \in 1..Len(commands) : commands'[i] = commands[i]
      /\ commands'[Len(commands')] = "ADD"
  BY <1>1, AppendCommand
<1>3. \A i \in 1..Len(commands) : commands[i] = "ADD"
  BY <1>1 DEF SendAdd, IInv, CommandsInv, Setup, Ending
<1>4. \A i \in 1..Len(commands') : commands'[i] = "ADD"
  BY <1>2, <1>3
<1>5. PendingReady = 0 /\ PendingEnd = 0 /\ PendingReady' = 0 /\ PendingEnd' = 0
  BY <1>1, <1>2, <1>3, <1>4 DEF PendingReady, PendingEnd
<1>6. TypeOK' /\ CommandsInv' /\ ThreadsInv'
  BY <1>2, <1>4, AddsAssumption
     DEF SendAdd, Send, Connected, IInv, TypeOK, CommandsInv, ThreadsInv, Setup,
         Ending, Awaiting
<1>7. AddsInv'
  BY <1>2, <1>5, Counters DEF SendAdd, IInv, AddsInv
<1>8. UNCHANGED <<daemon, thread, responses, timeouts>> /\ main \notin Awaiting
      /\ (main' \in Awaiting <=> AddIsAnswered)
  BY DEF SendAdd, Awaiting
<1>9. SurplusInv'
  BY <1>2, <1>5, <1>8, Counters
     DEF IInv, SurplusInv
<1>. QED
  BY <1>6, <1>7, <1>9 DEF IInv

\* END is the last command sent.
LEMMA SendEndInv == IInv /\ SendEnd => IInv'
<1> SUFFICES ASSUME IInv, SendEnd PROVE IInv'
  OBVIOUS
<1>1. commands \in Seq({"READY", "ADD", "END"})
      /\ commands' = Append(commands, "END")
  BY DEF SendEnd, Send, IInv, TypeOK
<1>2. /\ commands' \in Seq({"READY", "ADD", "END"}) /\ commands' # <<>>
      /\ Len(commands') = Len(commands) + 1 /\ Len(commands) \in Nat
      /\ \A i \in 1..Len(commands) : commands'[i] = commands[i]
      /\ commands'[Len(commands')] = "END"
  BY <1>1, AppendCommand
<1>3. \A i \in 1..Len(commands) : commands[i] = "ADD"
  BY <1>1 DEF SendEnd, IInv, CommandsInv, Setup, Ending
<1>4. \A i \in 1..Len(commands') :
          commands'[i] = IF i = Len(commands') THEN "END" ELSE "ADD"
  BY <1>2, <1>3
<1>5. PendingReady = 0 /\ PendingEnd = 0 /\ PendingReady' = 0 /\ PendingEnd' = 1
  BY <1>1, <1>2, <1>3, <1>4 DEF PendingReady, PendingEnd
<1>6. TypeOK' /\ CommandsInv' /\ ThreadsInv'
  BY <1>2, <1>4, AddsAssumption
     DEF SendEnd, Send, Connected, IInv, TypeOK, CommandsInv, ThreadsInv, Setup,
         Ending, Awaiting
<1>7. AddsInv'
  BY <1>2, <1>5, Counters DEF SendEnd, IInv, AddsInv
<1>8. UNCHANGED <<daemon, thread, responses, timeouts>> /\ main \notin Awaiting
      /\ main' \in Awaiting
  BY DEF SendEnd, Awaiting
<1>9. SurplusInv'
  BY <1>2, <1>5, <1>8, Counters
     DEF IInv, SurplusInv
<1>. QED
  BY <1>6, <1>7, <1>9 DEF IInv

\* The main thread reads a response, stops waiting, or joins.
LEMMA WaitsInv == IInv /\ Waits => IInv'
<1> SUFFICES ASSUME IInv, Waits PROVE IInv'
  OBVIOUS
<1>1. UNCHANGED <<daemon, thread, commands, sent, added>>
  BY DEF Waits, ReadyAnswered, ReadyTimesOut, AddAnswered, AddTimesOut,
         EndAnswered, EndTimesOut, Receive, TimeOut, Join, CloseContext
<1>2. PendingReady' = PendingReady /\ PendingEnd' = PendingEnd
  BY <1>1 DEF PendingReady, PendingEnd
<1>3. responses \in Seq({"READY", "SUCCESS"}) /\ Len(responses) \in Nat
      /\ (responses # <<>> => /\ Tail(responses) \in Seq({"READY", "SUCCESS"})
                              /\ Len(Tail(responses)) = Len(responses) - 1)
  BY Responses DEF IInv, TypeOK
<1>4. AddsInv'
  BY <1>1, <1>2 DEF IInv, AddsInv
<1>5. TypeOK'
  <2>1. responses' \in Seq({"READY", "SUCCESS"})
    BY <1>3 DEF Waits, ReadyAnswered, ReadyTimesOut, AddAnswered, AddTimesOut,
                EndAnswered, EndTimesOut, Receive, TimeOut, Join, CloseContext
  <2>2. timeouts' \in Nat
    BY Counters
       DEF Waits, ReadyAnswered, ReadyTimesOut, AddAnswered, AddTimesOut,
           EndAnswered, EndTimesOut, Receive, TimeOut, Join, CloseContext
  <2>3. main' \in {"built", "joinFailed", "joining", "closing", "done",
                  "thrown", "terminated"}
    BY DEF Waits, ReadyAnswered, ReadyTimesOut, AddAnswered, AddTimesOut,
           EndAnswered, EndTimesOut, Receive, TimeOut, Join, CloseContext
  <2>4. held' \in BOOLEAN
    BY DEF Waits, ReadyAnswered, ReadyTimesOut, AddAnswered, AddTimesOut,
           EndAnswered, EndTimesOut, Receive, TimeOut, Join, CloseContext, IInv,
           TypeOK
  <2>. QED
    BY <1>1, <2>1, <2>2, <2>3, <2>4 DEF IInv, TypeOK
<1>6. SurplusInv'
  <2>1. ASSUME NEW from, NEW to, Receive(from, to), from \in Awaiting,
               to \notin Awaiting
        PROVE  SurplusInv'
    <3>1. Len(responses') = Len(responses) - 1 /\ timeouts' = timeouts
          /\ main \in Awaiting /\ main' \notin Awaiting
      BY <1>3, <2>1 DEF Receive
    <3>2. Len(commands) \in Nat /\ timeouts \in Nat
          /\ PendingReady \in Nat /\ PendingEnd \in Nat
      BY DEF IInv, TypeOK, PendingReady, PendingEnd
    <3>. QED
      BY <1>1, <1>2, <1>3, <3>1, <3>2 DEF IInv, SurplusInv
  <2>2. ASSUME NEW from, NEW to, TimeOut(from, to), from \in Awaiting,
               to \notin Awaiting
        PROVE  SurplusInv'
    BY <1>2, <2>2 DEF TimeOut, IInv, TypeOK, SurplusInv
  <2>3. CASE Join \/ CloseContext
    BY <1>2, <2>3 DEF Join, CloseContext, IInv, TypeOK, SurplusInv, Awaiting
  <2>. QED
    BY <2>1, <2>2, <2>3
       DEF Waits, ReadyAnswered, ReadyTimesOut, AddAnswered, AddTimesOut,
           EndAnswered, EndTimesOut, Awaiting
<1>7. CommandsInv'
  <2>1. CASE ReadyAnswered
    <3>1. main = "awaitReady" /\ responses # <<>> /\ main' = "built"
      BY <2>1 DEF ReadyAnswered, Receive
    <3>2. thread # "failed" /\ timeouts = 0 /\ Len(responses) > 0
      BY <1>3, <3>1, Responses DEF IInv, TypeOK, ThreadsInv, Setup
    <3>3. CASE AddIsAnswered
      <4>1. Len(commands) = 0
        BY <1>3, <3>1, <3>2, <3>3 DEF IInv, TypeOK, SurplusInv, Awaiting
      <4>. QED
        BY <1>1, <3>1, <4>1 DEF IInv, CommandsInv
    <3>4. CASE ~AddIsAnswered
      <4>1. PendingReady = 0
        BY <1>3, <3>1, <3>2, <3>4
           DEF IInv, SurplusInv, Awaiting, PendingReady, PendingEnd
      <4>2. commands = <<>>
        BY <3>1, <4>1, EmptyQueue
           DEF PendingReady, IInv, TypeOK, CommandsInv, Setup, Ending
      <4>. QED
        BY <1>1, <3>1, <4>2, EmptyQueue DEF CommandsInv, IInv, TypeOK
    <3>. QED
      BY <3>3, <3>4
  <2>2. CASE ~ReadyAnswered
    BY <1>1, <2>2
       DEF IInv, CommandsInv, Setup, Ending, Waits, ReadyTimesOut, AddAnswered,
           AddTimesOut, EndAnswered, EndTimesOut, Receive, TimeOut, Join, CloseContext
  <2>. QED
    BY <2>1, <2>2
<1>8. ThreadsInv'
  BY <1>1, Responses
     DEF IInv, TypeOK, ThreadsInv, Setup, Ending, Waits, ReadyAnswered,
         ReadyTimesOut, AddAnswered, AddTimesOut, EndAnswered, EndTimesOut,
         Receive, TimeOut, Join, CloseContext
<1>. QED
  BY <1>4, <1>5, <1>6, <1>7, <1>8 DEF IInv

\* What waits in the sockets changes nothing between the threads, and a signal
\* only ends the wait for it.
LEMMA HeldInv ==
    IInv /\ (GiveUp \/ QueueReport \/ Released \/ Interrupted) => IInv'
<1> SUFFICES ASSUME IInv, GiveUp \/ QueueReport \/ Released \/ Interrupted
             PROVE  IInv'
  OBVIOUS
<1>1. /\ UNCHANGED <<daemon, thread, commands, responses, sent, added, timeouts>>
      /\ held' \in BOOLEAN
      /\ main' = main \/ (main = "closing" /\ main' = "done")
  BY DEF GiveUp, QueueReport, Released, Interrupted, IInv, TypeOK
<1>2. PendingReady' = PendingReady /\ PendingEnd' = PendingEnd
  BY <1>1 DEF PendingReady, PendingEnd
<1>3. TypeOK' /\ CommandsInv' /\ ThreadsInv'
  BY <1>1 DEF IInv, TypeOK, CommandsInv, ThreadsInv, Setup, Ending
<1>4. AddsInv' /\ SurplusInv'
  BY <1>1, <1>2 DEF IInv, AddsInv, SurplusInv, Awaiting
<1>. QED
  BY <1>3, <1>4 DEF IInv

\* The processing thread sets up its sockets, or fails to.
LEMMA SetUpInv == IInv /\ (Connect \/ Bind \/ SetupFails) => IInv'
<1> SUFFICES ASSUME IInv, Connect \/ Bind \/ SetupFails PROVE IInv'
  OBVIOUS
<1>1. CASE Connect \/ Bind
  <2>1. PendingReady' = PendingReady /\ PendingEnd' = PendingEnd
    BY <1>1 DEF Connect, Bind, PendingReady, PendingEnd
  <2>. QED
    BY <1>1, <2>1
       DEF Connect, Bind, IInv, TypeOK, CommandsInv, ThreadsInv, AddsInv,
           SurplusInv
<1>2. CASE SetupFails
  BY <1>2
     DEF SetupFails, IInv, TypeOK, CommandsInv, ThreadsInv, AddsInv, SurplusInv
<1>. QED
  BY <1>1, <1>2

\* The processing thread takes READY: the queue is then empty.
LEMMA HandleReadyInv == IInv /\ HandleReady => IInv'
<1> SUFFICES ASSUME IInv, HandleReady PROVE IInv'
  OBVIOUS
<1>1. commands \in Seq({"READY", "ADD", "END"}) /\ commands # <<>>
  BY DEF HandleReady, Takes, IInv, TypeOK
<1>2. commands[1] = "READY" /\ Len(commands) = 1 /\ commands' = <<>>
      /\ main \in Setup
  BY <1>1, TailCommand, EmptyQueue DEF HandleReady, Takes, IInv, CommandsInv
<1>3. PendingReady = 1 /\ PendingEnd = 0 /\ PendingReady' = 0 /\ PendingEnd' = 0
  BY <1>1, <1>2 DEF PendingReady, PendingEnd
<1>4. /\ responses' \in Seq({"READY", "SUCCESS"})
      /\ Len(responses') = Len(responses) + 1 /\ Len(responses) \in Nat
  BY Responses DEF HandleReady, Respond, IInv, TypeOK
<1>5. Len(commands') = 0 /\ commands' \in Seq({"READY", "ADD", "END"})
  BY <1>2
<1>6. TypeOK'
  BY <1>4, <1>5 DEF HandleReady, Takes, IInv, TypeOK
<1>7. CommandsInv'
  BY <1>2, <1>5 DEF CommandsInv
<1>8. ThreadsInv'
  BY <1>2 DEF HandleReady, Takes, IInv, ThreadsInv, Setup
<1>9. AddsInv'
  <2>1. UNCHANGED <<sent, added>> /\ thread # "failed"
    BY DEF HandleReady, Takes
  <2>. QED
    BY <1>2, <1>3, <1>5, <2>1, Counters DEF IInv, AddsInv
<1>10. SurplusInv'
  <2>1. UNCHANGED <<daemon, main, timeouts>> /\ thread # "failed"
    BY DEF HandleReady, Takes
  <2>. QED
    BY <1>2, <1>3, <1>4, <1>5, <2>1, Counters
       DEF IInv, SurplusInv
<1>. QED
  BY <1>6, <1>7, <1>8, <1>9, <1>10 DEF IInv

\* What is left in the queue once an ADD is taken from it.
LEMMA TakesAdd ==
    ASSUME IInv, Takes("ADD")
    PROVE  /\ commands' \in Seq({"READY", "ADD", "END"})
           /\ Len(commands') = Len(commands) - 1 /\ Len(commands) \in Nat \ {0}
           /\ \A i \in 1..Len(commands') : commands'[i] = commands[i + 1]
           /\ \A i \in 1..Len(commands') :
                  /\ commands'[i] # "READY"
                  /\ commands'[i] = "END" => main \in Ending /\ i = Len(commands')
           /\ main \notin Setup
           /\ PendingReady = 0 /\ PendingReady' = 0 /\ PendingEnd' = PendingEnd
<1>1. /\ commands \in Seq({"READY", "ADD", "END"}) /\ commands # <<>>
      /\ commands' = Tail(commands) /\ Head(commands) = "ADD"
  BY DEF Takes, IInv, TypeOK
<1>2. /\ commands' \in Seq({"READY", "ADD", "END"})
      /\ Len(commands) \in Nat \ {0} /\ Len(commands') = Len(commands) - 1
      /\ commands[1] = "ADD"
      /\ \A i \in 1..Len(commands') : commands'[i] = commands[i + 1]
  BY <1>1, TailCommand
<1>3. main \notin Setup
  BY <1>2 DEF IInv, CommandsInv
<1>4. \A i \in 1..Len(commands') :
          /\ commands'[i] # "READY"
          /\ commands'[i] = "END" => main \in Ending /\ i = Len(commands')
  BY <1>2, <1>3 DEF IInv, CommandsInv
<1>5. PendingReady = 0 /\ PendingReady' = 0
  BY <1>1, <1>2, <1>4, EmptyQueue DEF PendingReady
<1>6. PendingEnd' = PendingEnd
  <2>1. CASE commands' = <<>>
    <3>1. Len(commands) = 1
      BY <1>2, <2>1, EmptyQueue
    <3>. QED
      BY <1>1, <1>2, <2>1, <3>1 DEF PendingEnd
  <2>2. CASE commands' # <<>>
    <3>1. Len(commands') \in 1..Len(commands')
      BY <1>2, <2>2
    <3>2. commands'[Len(commands')] = commands[Len(commands)]
      BY <1>2, <3>1
    <3>. QED
      BY <1>1, <2>2, <3>2 DEF PendingEnd
  <2>. QED
    BY <2>1, <2>2
<1>. QED
  BY <1>2, <1>3, <1>4, <1>5, <1>6

\* The processing thread takes an ADD, and carries it out or fails.
LEMMA HandleAddInv == IInv /\ (HandleAdd \/ AddFails) => IInv'
<1> SUFFICES ASSUME IInv, HandleAdd \/ AddFails PROVE IInv'
  OBVIOUS
<1>1. Takes("ADD") /\ UNCHANGED <<daemon, main, sent, timeouts>> /\ thread = "polling"
  BY DEF HandleAdd, AddFails, Takes
<1>2. CommandsInv'
  BY <1>1, TakesAdd DEF CommandsInv, Setup
<1>3. CASE HandleAdd
  <2>1. AddsInv'
    <3>1. added' = added + 1 /\ thread # "failed"
      BY <1>1, <1>3 DEF HandleAdd
    <3>. QED
      BY <1>1, <3>1, TakesAdd, Counters DEF IInv, AddsInv
  <2>2. PendingEnd \in {0, 1} /\ Len(commands) >= 1
    BY TakesAdd, <1>1 DEF PendingEnd
  <2>3. added < sent
    <3>1. CASE PendingEnd = 0
      BY <1>1, <2>2, <3>1, TakesAdd DEF IInv, TypeOK, AddsInv
    <3>2. CASE PendingEnd = 1
      <4>1. commands[1] = "ADD" /\ commands[Len(commands)] = "END"
        BY <1>1, <3>2, TailCommand DEF PendingEnd, Takes, IInv, TypeOK
      <4>2. Len(commands) >= 2
        BY <1>1, <4>1, TakesAdd
      <4>. QED
        BY <1>1, <3>2, <4>2, TakesAdd DEF IInv, TypeOK, AddsInv
    <3>. QED
      BY <2>2, <3>1, <3>2
  <2>4. /\ responses' \in Seq({"READY", "SUCCESS"}) /\ Len(responses) \in Nat
        /\ Len(responses')
               = IF AddIsAnswered THEN Len(responses) + 1 ELSE Len(responses)
    BY <1>3, Responses DEF HandleAdd, Respond, IInv, TypeOK
  <2>5. TypeOK'
    BY <1>1, <1>3, <2>3, <2>4, TakesAdd DEF HandleAdd, IInv, TypeOK
  <2>6. ThreadsInv'
    BY <1>1, <1>3, TakesAdd DEF HandleAdd, IInv, ThreadsInv
  <2>7. SurplusInv'
    <3>1. Len(commands') = Len(commands) - 1 /\ PendingReady' = PendingReady
          /\ PendingEnd' = PendingEnd /\ daemon' = daemon
      BY <1>1, TakesAdd
    <3>2. CASE AddIsAnswered
      BY <1>1, <2>4, <3>1, <3>2, Counters DEF IInv, SurplusInv
    <3>3. CASE ~AddIsAnswered
      BY <1>1, <2>4, <3>1, <3>3, Counters DEF IInv, SurplusInv
    <3>. QED
      BY <3>2, <3>3
  <2>. QED
    BY <1>2, <2>1, <2>5, <2>6, <2>7 DEF IInv
<1>4. CASE AddFails
  BY <1>1, <1>2, <1>4, TakesAdd
     DEF AddFails, IInv, TypeOK, ThreadsInv, AddsInv, SurplusInv
<1>. QED
  BY <1>3, <1>4

\* The processing thread takes END: it was the last command.
LEMMA HandleEndInv == IInv /\ HandleEnd => IInv'
<1> SUFFICES ASSUME IInv, HandleEnd PROVE IInv'
  OBVIOUS
<1>1. commands \in Seq({"READY", "ADD", "END"}) /\ commands # <<>>
  BY DEF HandleEnd, Takes, IInv, TypeOK
<1>2. commands[1] = "END" /\ Len(commands) = 1 /\ commands' = <<>>
      /\ main \in Ending
  <2>1. commands[1] = "END" /\ commands' = Tail(commands)
        /\ 1 \in 1..Len(commands)
    BY <1>1, TailCommand, EmptyQueue DEF HandleEnd, Takes
  <2>2. Len(commands) = 1 /\ main \in Ending
    BY <2>1 DEF IInv, CommandsInv
  <2>3. commands' \in Seq({"READY", "ADD", "END"}) /\ Len(commands') = 0
    BY <1>1, <2>1, <2>2, TailCommand
  <2>. QED
    BY <2>1, <2>2, <2>3, EmptyQueue
<1>3. PendingReady = 0 /\ PendingEnd = 1 /\ PendingReady' = 0 /\ PendingEnd' = 0
  BY <1>1, <1>2 DEF PendingReady, PendingEnd
<1>4. /\ responses' \in Seq({"READY", "SUCCESS"})
      /\ Len(responses') = Len(responses) + 1 /\ Len(responses) \in Nat
  BY Responses DEF HandleEnd, Respond, IInv, TypeOK
<1>5. Len(commands') = 0 /\ commands' \in Seq({"READY", "ADD", "END"})
  BY <1>2
<1>6. TypeOK'
  BY <1>4, <1>5 DEF HandleEnd, Takes, IInv, TypeOK
<1>7. CommandsInv'
  BY <1>2, <1>5 DEF CommandsInv
<1>8. ThreadsInv'
  BY <1>2 DEF HandleEnd, Takes, IInv, ThreadsInv, Setup, Ending
<1>9. AddsInv'
  <2>1. UNCHANGED <<sent, added>> /\ thread # "failed"
    BY DEF HandleEnd, Takes
  <2>. QED
    BY <1>2, <1>3, <1>5, <2>1, Counters DEF IInv, AddsInv
<1>10. SurplusInv'
  <2>1. UNCHANGED <<daemon, main, timeouts>> /\ thread # "failed"
    BY DEF HandleEnd, Takes
  <2>. QED
    BY <1>2, <1>3, <1>4, <1>5, <2>1, Counters
       DEF IInv, SurplusInv
<1>. QED
  BY <1>6, <1>7, <1>8, <1>9, <1>10 DEF IInv

\* Every step keeps the invariant.
LEMMA NextInv == IInv /\ [Next]_vars => IInv'
<1> SUFFICES ASSUME IInv, [Next]_vars PROVE IInv'
  OBVIOUS
<1>1. CASE UNCHANGED vars
  <2>1. PendingReady' = PendingReady /\ PendingEnd' = PendingEnd
    BY <1>1 DEF vars, PendingReady, PendingEnd
  <2>. QED
    BY <1>1, <2>1
       DEF vars, IInv, TypeOK, CommandsInv, ThreadsInv, AddsInv, SurplusInv
<1>. QED
  BY <1>1, SendReadyInv, SendAddInv, SendEndInv, WaitsInv, HeldInv, SetUpInv,
     HandleReadyInv, HandleAddInv, HandleEndInv
  DEF Next, Thread

\* The invariant holds in every state, for any number of endpoints.
THEOREM Invariance == Spec => []IInv
BY InitInv, NextInv, PTL DEF Spec

-----------------------------------------------------------------------------
(* What follows from it.                                                   *)

\* Every variable keeps its type.
THEOREM TypeCorrect == Spec => []TypeOK
<1>1. IInv => TypeOK
  BY DEF IInv
<1>. QED
  BY <1>1, Invariance, PTL

\* The commands of transactions, counted.
LEMMA AskedCount ==
    ASSUME IInv
    PROVE  Cardinality(Asked) = IF AddIsAnswered THEN Len(commands)
                                ELSE PendingReady + PendingEnd
<1>1. commands \in Seq({"READY", "ADD", "END"}) /\ Len(commands) \in Nat
      /\ DOMAIN commands = 1..Len(commands)
  BY DEF IInv, TypeOK
<1>2. CASE AddIsAnswered
  <2>1. Asked = 1..Len(commands)
    BY <1>1, <1>2 DEF Asked
  <2>. QED
    BY <1>1, <1>2, <2>1, FS_Interval
<1>3. CASE ~AddIsAnswered
  <2>1. Asked = {i \in 1..Len(commands) : commands[i] # "ADD"}
    BY <1>1, <1>3 DEF Asked
  <2>2. \A i \in 1..Len(commands) : commands[i] \in {"READY", "ADD", "END"}
    BY <1>1
  <2>3. CASE commands = <<>>
    <3>1. Asked = {}
      BY <2>1, <2>3
    <3>. QED
      BY <1>3, <2>3, <3>1, FS_EmptySet DEF PendingReady, PendingEnd
  <2>4. CASE commands # <<>> /\ commands[1] = "READY"
    <3>1. Len(commands) = 1
      BY <1>1, <2>4, EmptyQueue DEF IInv, CommandsInv
    <3>2. Asked = {1}
      BY <2>1, <2>4, <3>1
    <3>3. Cardinality(Asked) = 1
      BY <3>2, FS_Singleton
    <3>. QED
      BY <1>3, <2>4, <3>1, <3>3 DEF PendingReady, PendingEnd
  <2>5. CASE commands # <<>> /\ commands[1] # "READY"
    <3>1. \A i \in 1..Len(commands) : commands[i] = "READY" => i = 1
      BY DEF IInv, CommandsInv
    <3>2. \A i \in 1..Len(commands) : commands[i] = "END" => i = Len(commands)
      BY DEF IInv, CommandsInv
    <3>3. Asked \subseteq {Len(commands)}
      BY <2>1, <2>2, <2>5, <3>1, <3>2
    <3>4. Len(commands) \in Asked <=> commands[Len(commands)] = "END"
      BY <1>1, <2>1, <2>2, <2>5, <3>1, <3>2, EmptyQueue
    <3>5. CASE commands[Len(commands)] = "END"
      <4>1. Asked = {Len(commands)}
        BY <3>3, <3>4, <3>5
      <4>2. Cardinality(Asked) = 1
        BY <4>1, FS_Singleton
      <4>. QED
        BY <1>3, <2>5, <3>5, <4>2 DEF PendingReady, PendingEnd
    <3>6. CASE commands[Len(commands)] # "END"
      <4>1. Asked = {}
        BY <3>3, <3>4, <3>6
      <4>. QED
        BY <1>3, <2>5, <3>6, <4>1, FS_EmptySet DEF PendingReady, PendingEnd
    <3>. QED
      BY <3>5, <3>6
  <2>. QED
    BY <2>3, <2>4, <2>5
<1>. QED
  BY <1>2, <1>3

\* A transaction that times out leaves exactly one answer behind.
THEOREM SurplusAlwaysTimeouts == Spec => []SurplusIsTimeouts
<1>1. IInv => SurplusIsTimeouts
  BY AskedCount DEF IInv, SurplusInv, SurplusIsTimeouts
<1>. QED
  BY <1>1, Invariance, PTL

\* The sockets lack no more endpoints than transactions have timed out.
THEOREM LagIsBounded == Spec => []AddLagsByTimeouts
<1>1. ASSUME IInv, AddIsAnswered, main = "built"
      PROVE  added >= sent - timeouts
  <2>1. thread # "failed"
    BY <1>1 DEF IInv, ThreadsInv, Setup
  <2>2. Len(responses) \in Nat /\ Len(commands) \in Nat
    BY <1>1 DEF IInv, TypeOK
  <2>3. PendingReady = 0 /\ PendingEnd = 0
    <3>1. \A i \in 1..Len(commands) :
              commands[i] # "READY" /\ commands[i] # "END"
      BY <1>1 DEF IInv, CommandsInv, Setup, Ending
    <3>2. commands # <<>> => 1 \in 1..Len(commands)
                             /\ Len(commands) \in 1..Len(commands)
      BY <1>1 DEF IInv, TypeOK
    <3>. QED
      BY <3>1, <3>2 DEF PendingReady, PendingEnd
  <2>4. Len(commands) <= timeouts
    BY <1>1, <2>1, <2>2 DEF IInv, TypeOK, SurplusInv, Awaiting
  <2>. QED
    BY <1>1, <2>1, <2>2, <2>3, <2>4 DEF IInv, TypeOK, AddsInv
<1>2. IInv => AddLagsByTimeouts
  BY <1>1 DEF AddLagsByTimeouts
<1>. QED
  BY <1>2, Invariance, PTL

\* A destructor that has joined its thread has seen every endpoint added.
THEOREM JoinedThreadIsComplete == Spec => []JoinedIsComplete
<1>1. ASSUME IInv, main \in {"closing", "done"}, thread # "failed"
      PROVE  added = sent /\ thread = "ended"
  <2>1. thread = "ended" /\ commands = <<>>
    BY <1>1 DEF IInv, ThreadsInv
  <2>2. PendingReady = 0 /\ PendingEnd = 0 /\ Len(commands) = 0
    BY <2>1 DEF PendingReady, PendingEnd
  <2>. QED
    BY <1>1, <2>1, <2>2 DEF IInv, TypeOK, AddsInv
<1>2. IInv => JoinedIsComplete
  BY <1>1 DEF JoinedIsComplete
<1>. QED
  BY <1>2, Invariance, PTL
=============================================================================
