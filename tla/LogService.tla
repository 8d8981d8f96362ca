------------------------------ MODULE LogService ------------------------------
(***************************************************************************)
(* The log service of a daemon and its clients.  The service hands its     *)
(* level to each client over a REQ socket of its own and collects their    *)
(* records with a thread (ServiceImpl::process) that subscribes to all of  *)
(* them.  A client keeps the level it was handed, and publishes a record   *)
(* in two parts, a topic and the record (ClientImpl::log_i).               *)
(*                                                                         *)
(* ZeroMQ sockets are not for several threads.  Threads that log over one  *)
(* client (Python ones do: Logger_log releases the interpreter lock) are   *)
(* modelled by the interleavings of whole zmq_send calls.                  *)
(***************************************************************************)
EXTENDS Integers, Sequences, FiniteSets

CONSTANTS
    Client,
    Order,       \* the clients, in the order in which they are added
    Thread,      \* the threads that log
    Owner,       \* the client a thread logs with
    LogsAt,      \* the level a thread logs at
    DEBUG_LEVEL, \* the highest level; NOLOG_LEVEL is 0
    Hwm,         \* the messages of one client that the sockets hold
    MaxRecords,  \* bound on the log() calls of all threads
    MaxSettings, \* bound on the setLevel() calls
    NoClient

Level == 0..DEBUG_LEVEL

ASSUME ThreadAssumption ==
    /\ Owner \in [Thread -> Client]
    /\ LogsAt \in [Thread -> Level]
    /\ NoClient \notin Client
ASSUME OrderAssumption ==
    /\ Order \in Seq(Client)
    /\ \A i, j \in DOMAIN Order : i # j => Order[i] # Order[j]
ASSUME BoundsAssumption ==
    /\ DEBUG_LEVEL \in Nat /\ Hwm \in Nat \ {0}
    /\ MaxRecords \in Nat /\ MaxSettings \in Nat

VARIABLES
    \* the thread that owns the service, between its steps
    main,        \* its operation and the socket it is at
    level,       \* level_
    sockets,     \* the length of controlSockets_: the clients added so far
    settings,    \* the setLevel() calls so far
    exchange,    \* the transaction on each control socket
    \* the thread of the service
    thread,      \* what it does
    commands,    \* sent to it and not yet taken
    connecting,  \* the clients it has connected its XSUB socket to
    written,     \* the records of each client it has written
    culprit,     \* the client of a message it could not parse
    \* the clients
    phase,       \* a client is "up", its endpoints known, or "gone"
    clientLevel, \* level_ of the client
    linked,      \* the clients that have the subscription of the service
    pc, calls,   \* where each thread is in log(), and the calls so far
    parts,       \* the parts of the message begun on the PUB socket
    matched,     \* it goes to the service
    sent,        \* the records sent so far
    inbox,       \* the messages on their way to the service
    full         \* the clients that found their queue full

mainVars == <<main, level, sockets, settings>>
threadVars == <<thread, connecting, written, culprit>>
logVars == <<pc, calls, parts, sent, full>>
clients == <<phase, clientLevel, linked, matched, logVars>>
vars == <<mainVars, exchange, threadVars, commands, clients, inbox>>

\* The threads that may be in log() of c at the same time: a client can be called
\* by any, and Logger_log lets the interpreter run other threads meanwhile.
ThreadsOf(c) == {t \in Thread : Owner[t] = c}

Topic == 0  \* the part "log"; a record is the number its client sent it as
IsRecord(message) == Len(message) = 2 /\ message[2] # Topic

Add(c) == [type |-> "add", client |-> c]
End == [type |-> "end", client |-> NoClient]

Dead == {"ended", "threw"}
Idle == [op |-> "idle", at |-> 0]

\* A transaction: asked for a level, it is "queued" in the REQ socket, then
\* "answered" or "lost"; until the answer is read the socket refuses to send.
Free == [state |-> "free", level |-> 0]

ServiceInit ==
    /\ main = Idle
    /\ level \in Level
    /\ sockets = 0
    /\ settings = 0
    /\ exchange = [c \in Client |-> Free]
    /\ thread = "starting"
    /\ commands = <<>>
    /\ connecting = {}
    /\ written = [c \in Client |-> <<>>]
    /\ culprit = NoClient

\* The constructor of a client returns when its thread has bound the control socket.
ClientsInit ==
    /\ phase = [c \in Client |-> "up"]
    /\ clientLevel = [c \in Client |-> 0]
    /\ linked = {}
    /\ pc = [t \in Thread |-> "out"]
    /\ calls = 0
    /\ parts = [c \in Client |-> <<>>]
    /\ matched = {}
    /\ sent = [c \in Client |-> 0]
    /\ inbox = [c \in Client |-> <<>>]
    /\ full = {}

Init == ServiceInit /\ ClientsInit

-----------------------------------------------------------------------------
(* The thread that owns the service.                                       *)

\* The PAIR socket takes a command only while the thread has its end open.
Command(command) ==
    /\ thread \notin Dead
    /\ commands' = Append(commands, command)

Request(c, l) == exchange' = [exchange EXCEPT ![c] = [state |-> "queued", level |-> l]]

\* add() of the next client: it has reported its endpoints, and may be gone since.
AddClient ==
    /\ main = Idle
    /\ sockets < Len(Order)
    /\ Command(Add(Order[sockets + 1]))
    /\ sockets' = sockets + 1
    /\ Request(Order[sockets'], level)
    /\ main' = [op |-> "adding", at |-> sockets']
    /\ UNCHANGED <<level, settings, threadVars, clients, inbox>>

\* The control socket cannot be created or connected: add() throws with the
\* command already sent, and the program unwinds.
AddClientFails ==
    /\ main = Idle
    /\ sockets < Len(Order)
    /\ Command(Add(Order[sockets + 1]))
    /\ main' = [op |-> "ending", at |-> 0]
    /\ UNCHANGED <<level, sockets, settings, exchange, threadVars, clients, inbox>>

\* setLevel() begins.
SetLevel(l) ==
    /\ main = Idle
    /\ settings < MaxSettings
    /\ settings' = settings + 1
    /\ level' = l
    /\ main' = [op |-> "setting", at |-> 1]
    /\ UNCHANGED <<sockets, exchange, threadVars, commands, clients, inbox>>

\* The next control socket of the loop sends, or refuses to: then setLevel()
\* throws, as it returns at the end of the loop.
SetNext ==
    /\ main.op = "setting"
    /\ IF main.at <= sockets /\ exchange[Order[main.at]] = Free
       THEN /\ Request(Order[main.at], level)
            /\ main' = [main EXCEPT !.op = "awaiting"]
       ELSE main' = Idle /\ UNCHANGED exchange
    /\ UNCHANGED <<level, sockets, settings, threadVars, commands, clients, inbox>>

\* The transaction returns: add() is done, setLevel() goes on.
Returned ==
    IF main.op = "adding" THEN Idle ELSE [op |-> "setting", at |-> main.at + 1]

Waiting == main.op \in {"adding", "awaiting"}

\* The answer is read.
Confirm ==
    /\ Waiting
    /\ exchange[Order[main.at]].state = "answered"
    /\ exchange' = [exchange EXCEPT ![Order[main.at]] = Free]
    /\ main' = Returned
    /\ UNCHANGED <<level, sockets, settings, threadVars, commands, clients, inbox>>

\* Mutant: a transaction that timed out leaves a socket that can be used.
TimedOutIsFree == [exchange EXCEPT ![Order[main.at]] = Free]

\* What a transaction that times out leaves behind.
AfterTimeout == exchange

\* Ten seconds pass without one; nobody looks at what transaction() returns.
TimeOut ==
    /\ Waiting
    /\ exchange[Order[main.at]].state # "answered"
    /\ exchange' = AfterTimeout
    /\ main' = Returned
    /\ UNCHANGED <<level, sockets, settings, threadVars, commands, clients, inbox>>

\* The destructor begins: the control sockets are closed.
Destroy ==
    /\ main = Idle
    /\ main' = [op |-> "ending", at |-> 0]
    /\ UNCHANGED <<level, sockets, settings, exchange, threadVars, commands,
                   clients, inbox>>

SendEnd ==
    /\ main.op = "ending"
    /\ Command(End)
    /\ main' = [main EXCEPT !.op = "joining"]
    /\ UNCHANGED <<level, sockets, settings, exchange, threadVars, clients, inbox>>

Join ==
    /\ main.op = "joining"
    /\ thread \in Dead
    /\ main' = [main EXCEPT !.op = "closing"]
    /\ UNCHANGED <<level, sockets, settings, exchange, threadVars, commands,
                   clients, inbox>>

\* zmq_ctx_destroy waits for every request still in a closed socket.
CloseContext ==
    /\ main.op = "closing"
    /\ \A c \in Client : exchange[c].state # "queued"
    /\ main' = [main EXCEPT !.op = "done"]
    /\ UNCHANGED <<level, sockets, settings, exchange, threadVars, commands,
                   clients, inbox>>

-----------------------------------------------------------------------------
(* The thread of the service.                                              *)

\* The thread goes on, or ends: then its sockets are closed, and what is on its
\* way to them is lost.
Continue(state) ==
    /\ thread' = state
    /\ linked' = IF state \in Dead THEN {} ELSE linked
    /\ matched' = IF state \in Dead THEN {} ELSE matched

Remaining(state, messages) ==
    inbox' = IF state \in Dead THEN [c \in Client |-> <<>>] ELSE messages

\* Its sockets are opened, or that fails and it ends.
Setup ==
    /\ thread = "starting"
    /\ thread' \in {"polling", "threw"}
    /\ UNCHANGED <<mainVars, exchange, commands, connecting, written, culprit,
                   clients, inbox>>

\* Mutant: the break after END leaves only the switch.
KeepsRunning(command) == TRUE

\* bRun after a command.
RunsAfter(command) == command.type # "end"

\* A command is the first of what a poll finds.  If it found a record too, that is
\* next, even after END.
TakeCommand ==
    /\ thread = "polling" /\ commands # <<>>
    /\ commands' = Tail(commands)
    /\ LET command == Head(commands)
       IN  /\ connecting' = IF command.type = "add"
                            THEN connecting \cup {command.client} ELSE connecting
           /\ \E next \in IF RunsAfter(command) THEN {"polling", "halfway"}
                                               ELSE {"ended", "ending"} :
                /\ next \in {"halfway", "ending"} => \E c \in Client : inbox[c] # <<>>
                /\ Continue(next)
                /\ Remaining(next, inbox)
    /\ UNCHANGED <<mainVars, exchange, written, culprit, phase, clientLevel,
                   logVars>>

\* The XSUB socket cannot be connected.
ConnectFails ==
    /\ thread = "polling" /\ commands # <<>>
    /\ Head(commands).type = "add"
    /\ commands' = Tail(commands)
    /\ Continue("threw")
    /\ Remaining("threw", inbox)
    /\ UNCHANGED <<mainVars, exchange, connecting, written, culprit, phase,
                   clientLevel, logVars>>

\* Mutant: the message is only looked at.
StillThere(c) == inbox[c]

\* What zmq_msg_recv leaves.
Received(c) == Tail(inbox[c])

\* A message of client c: its first part is dropped and the second parsed.  What
\* cannot be parsed ends the thread.
TakeLog(c) ==
    /\ thread \in {"polling", "halfway", "ending"}
    /\ inbox[c] # <<>>
    /\ LET message == Head(inbox[c])
           next == IF ~IsRecord(message) THEN "threw"
                   ELSE IF thread = "ending" THEN "ended" ELSE "polling"
       IN  /\ written' = IF IsRecord(message)
                         THEN [written EXCEPT ![c] = Append(@, message[2])]
                         ELSE written
           /\ culprit' = IF IsRecord(message) THEN culprit ELSE c
           /\ Continue(next)
           /\ Remaining(next, [inbox EXCEPT ![c] = Received(c)])
    /\ UNCHANGED <<mainVars, exchange, commands, connecting, phase, clientLevel,
                   logVars>>

-----------------------------------------------------------------------------
(* The clients.                                                            *)

\* Mutant: the levels are counted from one.
LevelAbove(c) == exchange[c].level + 1

\* convertLogLevel(setLogLevel.level())
LevelAsked(c) == exchange[c].level

\* SETLOGLEVEL, whether or not anybody still waits for the answer.
TakeLevel(c) ==
    /\ phase[c] = "up"
    /\ exchange[c].state = "queued"
    /\ clientLevel' = [clientLevel EXCEPT ![c] = LevelAsked(c)]
    /\ exchange' = [exchange EXCEPT ![c].state = "answered"]
    /\ UNCHANGED <<mainVars, threadVars, commands, phase, linked, matched, logVars,
                   inbox>>

\* The connection is up and the subscription has arrived.
Link(c) ==
    /\ c \in connecting \ linked
    /\ phase[c] = "up" /\ thread \notin Dead
    /\ linked' = linked \cup {c}
    /\ UNCHANGED <<mainVars, exchange, threadVars, commands, phase, clientLevel,
                   matched, logVars, inbox>>

\* The client is destroyed, or its process ends, whatever it was doing.  What is
\* in transit may be lost in part, but not what a poll has found.
Leave(c) ==
    /\ phase[c] = "up"
    /\ phase' = [phase EXCEPT ![c] = "gone"]
    /\ linked' = linked \ {c}
    /\ matched' = matched \ {c}
    /\ pc' = [t \in Thread |-> IF Owner[t] = c THEN "out" ELSE pc[t]]
    /\ parts' = [parts EXCEPT ![c] = <<>>]
    /\ \E k \in 0..Len(inbox[c]) :
           /\ thread \in {"halfway", "ending"} /\ inbox[c] # <<>> => k > 0
           /\ inbox' = [inbox EXCEPT ![c] = SubSeq(@, 1, k)]
    /\ \/ UNCHANGED exchange
       \/ /\ exchange[c] # Free
          /\ exchange' = [exchange EXCEPT ![c].state = "lost"]
    /\ UNCHANGED <<mainVars, threadVars, commands, clientLevel, calls, sent, full>>

\* allowLog_i
Allowed(c, l) == l <= clientLevel[c]

\* log(): the level is looked up and the record made.
Log(t) ==
    LET c == Owner[t]
    IN  /\ pc[t] = "out" /\ phase[c] = "up"
        /\ calls < MaxRecords
        /\ Allowed(c, LogsAt[t])
        /\ pc' = [pc EXCEPT ![t] = "topic"]
        /\ calls' = calls + 1
        /\ UNCHANGED <<mainVars, exchange, threadVars, commands, phase,
                       clientLevel, linked, parts, matched, sent, inbox, full>>

\* zmq_send on the PUB socket of c: where a message goes is decided at its first
\* part, and it goes when it has its last.
SendPart(c, part, more) ==
    LET first == parts[c] = <<>>
        wanted == part = Topic /\ c \in linked
        room == Len(inbox[c]) < Hwm
        goes == IF first THEN wanted /\ room ELSE c \in matched
    IN  /\ matched' = IF goes THEN matched \cup {c} ELSE matched \ {c}
        /\ full' = IF first /\ wanted /\ ~room THEN full \cup {c} ELSE full
        /\ parts' = [parts EXCEPT ![c] = IF more THEN Append(@, part) ELSE <<>>]
        /\ inbox' = IF goes /\ ~more
                    THEN [inbox EXCEPT ![c] = Append(@, Append(parts[c], part))]
                    ELSE inbox

\* Mutant: the topic is a message of its own.
AlwaysLast == FALSE

\* ZMQ_SNDMORE of the topic.
SNDMORE == TRUE

SendTopic(t) ==
    /\ pc[t] = "topic"
    /\ SendPart(Owner[t], Topic, SNDMORE)
    /\ pc' = [pc EXCEPT ![t] = "record"]
    /\ UNCHANGED <<mainVars, exchange, threadVars, commands, phase, clientLevel,
                   linked, calls, sent>>

SendRecord(t) ==
    /\ pc[t] = "record"
    /\ sent' = [sent EXCEPT ![Owner[t]] = @ + 1]
    /\ SendPart(Owner[t], sent'[Owner[t]], FALSE)
    /\ pc' = [pc EXCEPT ![t] = "out"]
    /\ UNCHANGED <<mainVars, exchange, threadVars, commands, phase, clientLevel,
                   linked, calls>>

-----------------------------------------------------------------------------
Main ==
    \/ SetNext \/ Confirm \/ TimeOut
    \/ SendEnd \/ Join \/ CloseContext

Process == Setup \/ TakeCommand \/ \E c \in Client : TakeLog(c)

Next ==
    \/ AddClient \/ AddClientFails
    \/ \E l \in Level : SetLevel(l)
    \/ Destroy
    \/ Main
    \/ Process
    \/ ConnectFails
    \/ \E c \in Client : TakeLevel(c) \/ Link(c) \/ Leave(c)
    \/ \E t \in Thread : Log(t) \/ SendTopic(t) \/ SendRecord(t)

\* Threads run, and so do the transport and the polls' clocks.  Nobody has to
\* log, to add a client, to change the level or to end the service.
Fairness ==
    /\ WF_vars(Main) /\ WF_vars(Process)
    /\ \A c \in Client : WF_vars(TakeLevel(c))

Spec == Init /\ [][Next]_vars
FairSpec == Spec /\ Fairness

-----------------------------------------------------------------------------
TypeOK ==
    /\ main \in [op : {"idle", "adding", "setting", "awaiting", "ending",
                       "joining", "closing", "done"}, at : Nat]
    /\ level \in Level
    /\ sockets \in 0..Len(Order)
    /\ settings \in 0..MaxSettings
    /\ exchange \in [Client -> [state : {"free", "queued", "answered", "lost"},
                                level : Level]]
    /\ thread \in {"starting", "polling", "halfway", "ending"} \cup Dead
    /\ commands \in Seq([type : {"add"}, client : Client] \cup {End})
    /\ connecting \subseteq Client
    /\ written \in [Client -> Seq(Nat \ {0})]
    /\ culprit \in Client \cup {NoClient}
    /\ phase \in [Client -> {"up", "gone"}]
    /\ clientLevel \in [Client -> Level]
    /\ linked \subseteq connecting
    /\ pc \in [Thread -> {"out", "topic", "record"}]
    /\ calls \in 0..MaxRecords
    /\ parts \in [Client -> Seq(Nat)]
    /\ matched \subseteq Client
    /\ sent \in [Client -> Nat]
    /\ inbox \in [Client -> Seq(Seq(Nat))]
    /\ full \subseteq Client

\* Every client before the first one that ever let a transaction time out has
\* the level of the service, however often it is set: a client that is slow or
\* dead keeps setLevel() only from those that were added after it.
LevelsFollow ==
    main = Idle =>
        \A i \in 1..sockets :
            (\A j \in 1..i : exchange[Order[j]] = Free)
                => clientLevel[Order[i]] = level

\* More than one thread logs with c.
Shared(c) == \E t, u \in ThreadsOf(c) : t # u

\* The thread of the service can only be brought down by the records of a client
\* that several threads log with: those of one thread always come in pairs.
OnlySharedClientsMix == culprit # NoClient => Shared(culprit)

\* The records of each client are written in the order they were sent and each once.
\* Once the first of a client with one thread has been heard none is left out, unless
\* its queue was full; several threads can send a record without its topic, which
\* the subscription drops.
RecordsInOrder ==
    \A c \in Client : \A i \in 2..Len(written[c]) :
        IF c \in full \/ Shared(c) THEN written[c][i] > written[c][i - 1]
        ELSE written[c][i] = written[c][i - 1] + 1

\* A request that can no longer reach its client.
Undelivered == \E c \in Client : exchange[c].state = "queued" /\ phase[c] = "gone"

\* The destructor returns, unless the thread it has to tell is dead already, or a
\* client went away with a request on its way to it.
DestructorReturns ==
    main.op = "ending" ~>
        (main.op = "done" \/ thread = "threw" \/ Undelivered)
=============================================================================
