---------------------------- MODULE ProcessingThread ----------------------------
(***************************************************************************)
(* The main thread of a controller, broker or recorder (ControllerImpl,    *)
(* BrokerImpl, RecorderImpl) and its processing thread: commands and       *)
(* responses over a pair of inproc sockets, from the constructor's READY   *)
(* to the destructor's END.  The pair knows no exchanges: a response that  *)
(* comes after its transaction timed out is read by the next transaction.  *)
(*                                                                         *)
(* What else the processing thread does (discovery, reports) shows here as *)
(* the time it takes to come back to its commands, and as the messages it  *)
(* leaves behind, which hold the end of the messaging context.             *)
(***************************************************************************)
EXTENDS Integers, Sequences, FiniteSets

CONSTANT Adds   \* the testpoints or probes to add

ASSUME AddsAssumption == Adds \in Nat

VARIABLES
    daemon,     \* what the program is
    main,       \* where the main thread is
    thread,     \* where the processing thread is
    commands,   \* commands sent and not yet received
    responses,  \* responses sent and not yet received
    sent,       \* the number of ADD commands sent
    added,      \* the number of ADD commands carried out
    timeouts,   \* the transactions that timed out
    held        \* a message waits that its receiver does not take

vars == <<daemon, main, thread, commands, responses, sent, added, timeouts, held>>

\* ADD is a transaction in brokers and recorders, and only sent in controllers.
AddIsAnswered == daemon # "controller"

Awaiting == {"awaitReady", "awaitAdd", "awaitEnd"}

\* The sockets are open at both ends.
Connected == thread \in {"binding", "polling"}

Init ==
    /\ daemon \in {"controller", "broker", "recorder"}
    /\ main = "ready"
    /\ thread = "starting"
    /\ commands = <<>>
    /\ responses = <<>>
    /\ sent = 0
    /\ added = 0
    /\ timeouts = 0
    /\ held = FALSE

-----------------------------------------------------------------------------
(* The main thread.  Its send waits for the other end to be there.         *)

Send(command) ==
    /\ Connected
    /\ commands' = Append(commands, command)

\* A transaction in state "from" reads a response, whichever it is.
Receive(from, to) ==
    /\ main = from
    /\ responses # <<>>
    /\ responses' = Tail(responses)
    /\ main' = to
    /\ UNCHANGED <<daemon, thread, commands, sent, added, timeouts, held>>

\* The poll of a transaction in state "from" ends without a response.
TimeOut(from, to) ==
    /\ main = from
    /\ responses = <<>>
    /\ timeouts' = timeouts + 1
    /\ main' = to
    /\ UNCHANGED <<daemon, thread, commands, responses, sent, added, held>>

SendReady ==
    /\ main = "ready"
    /\ Send("READY")
    /\ main' = "awaitReady"
    /\ UNCHANGED <<daemon, thread, responses, sent, added, timeouts, held>>

ReadyAnswered == Receive("awaitReady", "built")
ReadyTimesOut == TimeOut("awaitReady", "joinFailed")

SendAdd ==
    /\ main = "built"
    /\ sent < Adds
    /\ Send("ADD")
    /\ sent' = sent + 1
    /\ main' = IF AddIsAnswered THEN "awaitAdd" ELSE "built"
    /\ UNCHANGED <<daemon, thread, responses, added, timeouts, held>>

\* The result of the transaction is only logged.
AddAnswered == Receive("awaitAdd", "built")
AddTimesOut == TimeOut("awaitAdd", "built")

\* The destructor, after the run or when an exception ends the construction.
SendEnd ==
    /\ main = "built"
    /\ Send("END")
    /\ main' = "awaitEnd"
    /\ UNCHANGED <<daemon, thread, responses, sent, added, timeouts, held>>

EndAnswered == Receive("awaitEnd", "joining")

\* Without an answer the thread is not joined, and the destructor of a
\* std::thread that can be joined calls std::terminate.
EndTimesOut == TimeOut("awaitEnd", "terminated")

\* Mutant: the thread is detached instead.
Detach ==
    /\ main \in {"joining", "joinFailed"}
    /\ main' = IF main = "joining" THEN "closing" ELSE "thrown"
    /\ UNCHANGED <<daemon, thread, commands, responses, sent, added, timeouts,
                   held>>

\* join() returns once the thread's function has: in the destructor, or in a
\* constructor that then throws.
Join ==
    /\ main \in {"joining", "joinFailed"}
    /\ thread \in {"ended", "failed"}
    /\ main' = IF main = "joining" THEN "closing" ELSE "thrown"
    /\ UNCHANGED <<daemon, thread, commands, responses, sent, added, timeouts,
                   held>>

\* The members of the destructor's object: the destruction of pContext_ waits for
\* what the thread's sockets have left, since none has a linger time.
CloseContext ==
    /\ main = "closing"
    /\ ~held
    /\ main' = "done"
    /\ UNCHANGED <<daemon, thread, commands, responses, sent, added, timeouts,
                   held>>

\* A signal that is handled meanwhile interrupts that wait.
Interrupted ==
    /\ main = "closing"
    /\ held
    /\ main' = "done"
    /\ UNCHANGED <<daemon, thread, commands, responses, sent, added, timeouts,
                   held>>

-----------------------------------------------------------------------------
(* The processing thread.                                                  *)

Connect ==
    /\ thread = "starting"
    /\ thread' = "binding"
    /\ UNCHANGED <<daemon, main, commands, responses, sent, added, timeouts,
                   held>>

Bind ==
    /\ thread = "binding"
    /\ thread' = "polling"
    /\ UNCHANGED <<daemon, main, commands, responses, sent, added, timeouts,
                   held>>

\* A socket cannot be made or bound: the exception is printed, and the thread's
\* function returns.
SetupFails ==
    /\ thread \in {"starting", "binding"}
    /\ thread' = "failed"
    /\ commands' = <<>>
    /\ UNCHANGED <<daemon, main, responses, sent, added, timeouts, held>>

\* The next command, as the switch of process() sees it.
Takes(command) ==
    /\ thread = "polling"
    /\ commands # <<>> /\ Head(commands) = command
    /\ commands' = Tail(commands)

Respond(response) == responses' = Append(responses, response)

\* Mutant: the answer to READY is followed by the one of every command.
HandleReadyTwice ==
    /\ Takes("READY")
    /\ responses' = responses \o <<"READY", "SUCCESS">>
    /\ UNCHANGED <<daemon, main, thread, sent, added, timeouts, held>>

HandleReady ==
    /\ Takes("READY")
    /\ Respond("READY")
    /\ UNCHANGED <<daemon, main, thread, sent, added, timeouts, held>>

\* Mutant: an endpoint that cannot be connected is not answered.
HandleAddOrDrop ==
    /\ Takes("ADD")
    /\ added' = added + 1
    /\ IF AddIsAnswered THEN Respond("SUCCESS") \/ UNCHANGED responses
       ELSE UNCHANGED responses
    /\ UNCHANGED <<daemon, main, thread, sent, timeouts, held>>

\* A broker or recorder answers even when its connect fails.
HandleAdd ==
    /\ Takes("ADD")
    /\ added' = added + 1
    /\ IF AddIsAnswered THEN Respond("SUCCESS") ELSE UNCHANGED responses
    /\ UNCHANGED <<daemon, main, thread, sent, timeouts, held>>

\* A controller whose connect fails throws.
AddFails ==
    /\ ~AddIsAnswered
    /\ Takes("ADD")
    /\ thread' = "failed"
    /\ UNCHANGED <<daemon, main, responses, sent, added, timeouts, held>>

\* Mutant: END is answered, and the loop goes on.
HandleEndOnly ==
    /\ Takes("END")
    /\ Respond("SUCCESS")
    /\ UNCHANGED <<daemon, main, thread, sent, added, timeouts, held>>

HandleEnd ==
    /\ Takes("END")
    /\ Respond("SUCCESS")
    /\ thread' = "ended"
    /\ UNCHANGED <<daemon, main, sent, added, timeouts, held>>

\* Discovery gives up on an added testpoint after a second: the socket is closed
\* with its request, which waits on for a testpoint that is not there.
GiveUp ==
    /\ daemon = "broker" /\ thread = "polling"
    /\ added > 0
    /\ held' = TRUE
    /\ UNCHANGED <<daemon, main, thread, commands, responses, sent, added,
                   timeouts>>

\* A report is forwarded to a client that is connected and does not read.
QueueReport ==
    /\ daemon # "recorder" /\ thread = "polling"
    /\ added > 0
    /\ held' = TRUE
    /\ UNCHANGED <<daemon, main, thread, commands, responses, sent, added,
                   timeouts>>

\* The receiver takes what was left for it, or its connection ends.
Released ==
    /\ held
    /\ held' = FALSE
    /\ UNCHANGED <<daemon, main, thread, commands, responses, sent, added,
                   timeouts>>

Waits ==
    \/ ReadyAnswered \/ ReadyTimesOut
    \/ AddAnswered \/ AddTimesOut
    \/ EndAnswered \/ EndTimesOut
    \/ Join \/ CloseContext

Thread ==
    \/ Connect \/ Bind \/ SetupFails
    \/ HandleReady \/ HandleAdd \/ AddFails \/ HandleEnd

Next ==
    \/ SendReady \/ SendAdd \/ SendEnd
    \/ Waits \/ Interrupted
    \/ Thread
    \/ GiveUp \/ QueueReport \/ Released

\* The processing thread comes back to its commands, and the main thread's waits
\* end when they can.  Nothing makes the program end its run, or anybody take a
\* message that waits.
Spec == Init /\ [][Next]_vars
FairSpec == Spec /\ WF_vars(Waits) /\ WF_vars(Thread)

-----------------------------------------------------------------------------
TypeOK ==
    /\ daemon \in {"controller", "broker", "recorder"}
    /\ main \in {"ready", "built", "joinFailed", "joining", "closing", "done",
                 "thrown", "terminated"} \cup Awaiting
    /\ thread \in {"starting", "binding", "polling", "ended", "failed"}
    /\ commands \in Seq({"READY", "ADD", "END"})
    /\ responses \in Seq({"READY", "SUCCESS"})
    /\ sent \in 0..Adds
    /\ added \in 0..sent
    /\ timeouts \in Nat
    /\ held \in BOOLEAN

\* The commands that a transaction has sent.
Asked ==
    {i \in DOMAIN commands : commands[i] # "ADD" \/ AddIsAnswered}

\* Every transaction that times out leaves one answer too many behind, for good:
\* the answers there are and will be are those of the transaction under way and
\* one for every timeout.
SurplusIsTimeouts ==
    thread # "failed" =>
        Len(responses) + Cardinality(Asked)
            = timeouts + (IF main \in Awaiting THEN 1 ELSE 0)

\* add() says nothing of the endpoint it was called for once a transaction has
\* timed out, but the endpoints it is behind by are never more than the timeouts.
AddLagsByTimeouts ==
    AddIsAnswered /\ main = "built" => added >= sent - timeouts

\* When the destructor has joined the thread, every endpoint added before was
\* added to the thread's sockets first, though the response that the destructor
\* took for END's may have been an earlier one.
JoinedIsComplete ==
    main \in {"closing", "done"} /\ thread # "failed" =>
        added = sent /\ thread = "ended"

\* The destructor ends: it never joins a thread that goes on polling, and only a
\* message that nobody takes can keep it from ending after that.  So does a
\* constructor whose thread cannot set up its sockets, with an exception, once the
\* READY command is sent.
MainEnds ==
    /\ \/ main \in {"awaitEnd", "joining"} ~> main \in {"done", "terminated"}
       \/ <>[](main = "closing" /\ held)
    /\ main = "awaitReady" /\ thread = "failed" ~> main = "thrown"
=============================================================================
