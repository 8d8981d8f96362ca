--------------------------- MODULE LogService_proofs ---------------------------
(***************************************************************************)
(* Proofs about LogService, for any clients and threads, any number of     *)
(* levels, records and setLevel() calls, and any length of the queues.     *)
(***************************************************************************)
EXTENDS LogService, SequenceTheorems, TLAPS

-----------------------------------------------------------------------------
(* The type invariant.                                                     *)

\* The clients in their order.
LEMMA OrderedClients ==
    /\ Len(Order) \in Nat
    /\ \A i \in 1..Len(Order) : Order[i] \in Client
    /\ \A i, j \in 1..Len(Order) : i # j => Order[i] # Order[j]
BY OrderAssumption

\* The type invariant holds initially.
LEMMA InitType == Init => TypeOK
<1> SUFFICES ASSUME Init PROVE TypeOK
  OBVIOUS
<1>. USE BoundsAssumption, OrderedClients DEF Level
<1>1. Free \in [state : {"free", "queued", "answered", "lost"}, level : Level]
  BY DEF Free
<1>2. Idle \in [op : {"idle", "adding", "setting", "awaiting", "ending",
                      "joining", "closing", "done"}, at : Nat]
  BY DEF Idle
<1>. QED
  BY <1>1, <1>2 DEF Init, ServiceInit, ClientsInit, TypeOK, Dead

\* A step of the thread that owns the service keeps the types.
LEMMA OwnerType ==
    ASSUME TypeOK,
           \/ AddClient \/ AddClientFails \/ Destroy \/ Main
           \/ \E l \in Level : SetLevel(l)
    PROVE  TypeOK'
<1>. USE BoundsAssumption, OrderedClients DEF TypeOK
<1>. DEFINE Exchange == [state : {"free", "queued", "answered", "lost"}, level : Level]
            Op == {"idle", "adding", "setting", "awaiting", "ending",
                   "joining", "closing", "done"}
<1>1. Free \in Exchange /\ Idle \in [op : Op, at : Nat]
  BY DEF Free, Idle, Level
<1>2. CASE AddClient
  <2>1. sockets' \in 0..Len(Order) /\ sockets' \in Nat /\ sockets + 1 \in 1..Len(Order)
    BY <1>2 DEF AddClient
  <2>2. Add(Order[sockets + 1]) \in [type : {"add"}, client : Client]
    BY <2>1 DEF Add
  <2>3. commands' \in Seq([type : {"add"}, client : Client] \cup {End})
    BY <1>2, <2>2 DEF AddClient, Command
  <2>4. exchange' \in [Client -> Exchange]
    BY <1>2 DEF AddClient, Request
  <2>. QED
    BY <1>2, <2>1, <2>3, <2>4 DEF AddClient, threadVars, clients, logVars
<1>3. CASE AddClientFails
  <2>1. sockets + 1 \in 1..Len(Order)
    BY <1>3 DEF AddClientFails
  <2>2. Add(Order[sockets + 1]) \in [type : {"add"}, client : Client]
    BY <2>1 DEF Add
  <2>3. commands' \in Seq([type : {"add"}, client : Client] \cup {End})
    BY <1>3, <2>2 DEF AddClientFails, Command
  <2>. QED
    BY <1>3, <2>3 DEF AddClientFails, threadVars, clients, logVars
<1>4. ASSUME NEW l \in Level, SetLevel(l) PROVE TypeOK'
  BY <1>4 DEF SetLevel, threadVars, clients, logVars
<1>5. CASE SetNext
  <2>1. exchange' \in [Client -> Exchange]
    <3>1. [state |-> "queued", level |-> level] \in Exchange
      OBVIOUS
    <3>2. \/ exchange' = exchange
          \/ exchange' = [exchange EXCEPT ![Order[main.at]] =
                              [state |-> "queued", level |-> level]]
      BY <1>5 DEF SetNext, Request
    <3>. QED
      BY <3>1, <3>2
  <2>2. main' \in [op : Op, at : Nat]
    BY <1>1, <1>5 DEF SetNext
  <2>. QED
    BY <1>5, <2>1, <2>2 DEF SetNext, threadVars, clients, logVars
<1>6. CASE Confirm \/ TimeOut
  <2>1. exchange' \in [Client -> Exchange]
    BY <1>1, <1>6 DEF Confirm, TimeOut, AfterTimeout
  <2>2. main' \in [op : Op, at : Nat]
    BY <1>1, <1>6 DEF Confirm, TimeOut, Returned
  <2>. QED
    BY <1>6, <2>1, <2>2 DEF Confirm, TimeOut, threadVars, clients, logVars
<1>7. CASE Destroy \/ Join \/ CloseContext
  <2>1. main' \in [op : Op, at : Nat]
    <3>1. [main EXCEPT !.op = "closing"] \in [op : Op, at : Nat]
      OBVIOUS
    <3>2. [main EXCEPT !.op = "done"] \in [op : Op, at : Nat]
      OBVIOUS
    <3>3. CASE Destroy
      BY <3>3 DEF Destroy
    <3>4. CASE Join
      BY <3>1, <3>4 DEF Join
    <3>5. CASE CloseContext
      BY <3>2, <3>5 DEF CloseContext
    <3>. QED
      BY <1>7, <3>3, <3>4, <3>5
  <2>2. UNCHANGED <<level, sockets, settings, exchange, threadVars, commands, clients, inbox>>
    BY <1>7 DEF Destroy, Join, CloseContext
  <2>. QED
    BY <2>1, <2>2 DEF threadVars, clients, logVars
<1>8. CASE SendEnd
  <2>1. commands' \in Seq([type : {"add"}, client : Client] \cup {End})
    BY <1>8 DEF SendEnd, Command
  <2>. QED
    BY <1>8, <2>1 DEF SendEnd, threadVars, clients, logVars
<1>. QED
  BY <1>2, <1>3, <1>4, <1>5, <1>6, <1>7, <1>8 DEF Main

\* The second part of a record's message is its number.
LEMMA RecordNumber ==
    ASSUME NEW m \in Seq(Nat), IsRecord(m)
    PROVE  m[2] = m[Len(m)] /\ m[2] \in Nat \ {0}
<1>1. Len(m) = 2 /\ m[2] # 0
  BY DEF IsRecord, Topic
<1>2. \A i \in 1..Len(m) : m[i] \in Nat
  OBVIOUS
<1>. QED
  BY <1>1, <1>2

\* A step of the thread of the service keeps the types.
LEMMA ThreadType ==
    ASSUME TypeOK, Process \/ ConnectFails
    PROVE  TypeOK'
<1>. USE DEF TypeOK
<1>1. CASE Setup
  BY <1>1 DEF Setup, Dead, mainVars, clients, logVars
<1>2. CASE TakeCommand
  <2>1. PICK next \in {"polling", "halfway", "ended", "ending"} :
            Continue(next) /\ Remaining(next, inbox)
    BY <1>2 DEF TakeCommand
  <2>2. /\ commands # <<>> /\ commands' = Tail(commands)
        /\ Head(commands) \in [type : {"add"}, client : Client] \cup {End}
        /\ commands' \in Seq([type : {"add"}, client : Client] \cup {End})
    BY <1>2 DEF TakeCommand
  <2>3. connecting' \subseteq Client /\ connecting \subseteq connecting'
    BY <1>2, <2>2 DEF TakeCommand, End
  <2>4. thread' \in {"starting", "polling", "halfway", "ending"} \cup Dead
        /\ linked' \subseteq linked /\ matched' \subseteq matched
    BY <2>1 DEF Continue, Dead
  <2>5. inbox' \in [Client -> Seq(Seq(Nat))]
    BY <2>1 DEF Remaining
  <2>. QED
    BY <1>2, <2>2, <2>3, <2>4, <2>5 DEF TakeCommand, mainVars, logVars
<1>3. CASE ConnectFails
  <2>1. commands' \in Seq([type : {"add"}, client : Client] \cup {End})
    BY <1>3 DEF ConnectFails
  <2>2. thread' \in Dead /\ linked' \subseteq linked /\ matched' \subseteq matched
    BY <1>3 DEF ConnectFails, Continue, Dead
  <2>3. inbox' \in [Client -> Seq(Seq(Nat))]
    BY <1>3 DEF ConnectFails, Remaining
  <2>. QED
    BY <1>3, <2>1, <2>2, <2>3 DEF ConnectFails, mainVars, logVars
<1>4. ASSUME NEW c \in Client, TakeLog(c) PROVE TypeOK'
  <2>. DEFINE message == Head(inbox[c])
  <2>1. message \in Seq(Nat) /\ Received(c) \in Seq(Seq(Nat))
    BY <1>4 DEF TakeLog, Received
  <2>3. written' \in [Client -> Seq(Nat \ {0})]
    BY <1>4, <2>1, RecordNumber DEF TakeLog
  <2>4. PICK next \in {"threw", "ended", "polling"} :
            Continue(next) /\ Remaining(next, [inbox EXCEPT ![c] = Received(c)])
    BY <1>4 DEF TakeLog
  <2>5. thread' \in {"starting", "polling", "halfway", "ending"} \cup Dead
        /\ linked' \subseteq linked /\ matched' \subseteq matched
    BY <2>4 DEF Continue, Dead
  <2>6. inbox' \in [Client -> Seq(Seq(Nat))]
    BY <2>1, <2>4 DEF Remaining
  <2>7. culprit' \in Client \cup {NoClient}
    BY <1>4 DEF TakeLog
  <2>. QED
    BY <1>4, <2>3, <2>5, <2>6, <2>7 DEF TakeLog, mainVars, logVars
<1>. QED
  BY <1>1, <1>2, <1>3, <1>4 DEF Process

\* What a zmq_send leaves on a PUB socket has the types.
LEMMA SendPartType ==
    ASSUME TypeOK, NEW c \in Client, NEW part \in Nat, NEW more \in BOOLEAN,
           SendPart(c, part, more)
    PROVE  /\ parts' \in [Client -> Seq(Nat)] /\ inbox' \in [Client -> Seq(Seq(Nat))]
           /\ matched' \subseteq Client /\ full' \subseteq Client
<1>. USE DEF TypeOK
<1>1. parts[c] \in Seq(Nat) /\ Append(parts[c], part) \in Seq(Nat) /\ <<>> \in Seq(Nat)
  OBVIOUS
<1>2. parts' \in [Client -> Seq(Nat)]
  <2>1. parts' = [parts EXCEPT ![c] = IF more THEN Append(parts[c], part) ELSE <<>>]
    BY DEF SendPart
  <2>. QED
    BY <1>1, <2>1
<1>3. inbox' \in [Client -> Seq(Seq(Nat))]
  <2>1. \/ inbox' = inbox
        \/ inbox' = [inbox EXCEPT ![c] = Append(inbox[c], Append(parts[c], part))]
    BY DEF SendPart
  <2>2. Append(inbox[c], Append(parts[c], part)) \in Seq(Seq(Nat))
    BY <1>1
  <2>. QED
    BY <2>1, <2>2
<1>. QED
  BY <1>2, <1>3 DEF SendPart

\* A step of a client keeps the types.
LEMMA ClientType ==
    ASSUME TypeOK,
           \/ \E c \in Client : TakeLevel(c) \/ Link(c) \/ Leave(c)
           \/ \E t \in Thread : Log(t) \/ SendTopic(t) \/ SendRecord(t)
    PROVE  TypeOK'
<1>. USE ThreadAssumption, BoundsAssumption DEF TypeOK
<1>1. ASSUME NEW c \in Client, TakeLevel(c) PROVE TypeOK'
  BY <1>1 DEF TakeLevel, LevelAsked, mainVars, threadVars, logVars
<1>2. ASSUME NEW c \in Client, Link(c) PROVE TypeOK'
  BY <1>2 DEF Link, mainVars, threadVars, logVars
<1>3. ASSUME NEW c \in Client, Leave(c) PROVE TypeOK'
  <2>1. PICK k \in 0..Len(inbox[c]) : inbox' = [inbox EXCEPT ![c] = SubSeq(@, 1, k)]
    BY <1>3 DEF Leave
  <2>2. SubSeq(inbox[c], 1, k) \in Seq(Seq(Nat))
    BY <2>1
  <2>3. inbox' \in [Client -> Seq(Seq(Nat))]
    BY <2>1, <2>2
  <2>4. exchange' \in [Client -> [state : {"free", "queued", "answered", "lost"},
                                  level : Level]]
    <3>1. [exchange[c] EXCEPT !.state = "lost"]
              \in [state : {"free", "queued", "answered", "lost"}, level : Level]
      OBVIOUS
    <3>2. \/ exchange' = exchange
          \/ exchange' = [exchange EXCEPT ![c] = [exchange[c] EXCEPT !.state = "lost"]]
      BY <1>3 DEF Leave
    <3>. QED
      BY <3>1, <3>2
  <2>6. parts' \in [Client -> Seq(Nat)]
    <3>1. <<>> \in Seq(Nat)
      OBVIOUS
    <3>. QED
      BY <1>3, <3>1 DEF Leave
  <2>5. /\ pc' \in [Thread -> {"out", "topic", "record"}]
        /\ phase' \in [Client -> {"up", "gone"}]
        /\ linked' \subseteq connecting /\ matched' \subseteq Client
    BY <1>3 DEF Leave
  <2>. QED
    BY <1>3, <2>3, <2>4, <2>5, <2>6 DEF Leave, mainVars, threadVars
<1>4. ASSUME NEW t \in Thread, Log(t) PROVE TypeOK'
  BY <1>4 DEF Log, mainVars, threadVars
<1>5. ASSUME NEW t \in Thread, SendTopic(t) PROVE TypeOK'
  <2>1. SendPart(Owner[t], Topic, TRUE) /\ Owner[t] \in Client /\ Topic \in Nat
    BY <1>5 DEF SendTopic, SNDMORE, Topic
  <2>. QED
    BY <1>5, <2>1, SendPartType DEF SendTopic, mainVars, threadVars
<1>6. ASSUME NEW t \in Thread, SendRecord(t) PROVE TypeOK'
  <2>1. sent' \in [Client -> Nat] /\ Owner[t] \in Client
    BY <1>6 DEF SendRecord
  <2>2. SendPart(Owner[t], sent'[Owner[t]], FALSE) /\ sent'[Owner[t]] \in Nat
    BY <1>6, <2>1 DEF SendRecord
  <2>. QED
    BY <1>6, <2>1, <2>2, SendPartType DEF SendRecord, mainVars, threadVars
<1>. QED
  BY <1>1, <1>2, <1>3, <1>4, <1>5, <1>6

\* Every step keeps the types.
LEMMA NextType == TypeOK /\ [Next]_vars => TypeOK'
<1>1. TypeOK /\ UNCHANGED vars => TypeOK'
  BY DEF TypeOK, vars, mainVars, threadVars, clients, logVars
<1>. QED
  BY <1>1, OwnerType, ThreadType, ClientType DEF Next

\* The variables keep their types, whatever the clients, the threads and the bounds.
THEOREM TypeCorrect == Spec => []TypeOK
BY InitType, NextType, PTL DEF Spec

-----------------------------------------------------------------------------
(* The levels of the clients.                                              *)

\* The loop of setLevel() and the socket of add() are at a client.
PositionInv ==
    /\ main.op = "adding" => main.at = sockets /\ sockets > 0
    /\ main.op = "setting" => main.at \in 1..(sockets + 1)
    /\ main.op = "awaiting" => main.at \in 1..sockets

\* An answer says that the client has the level it was sent; what is waited for is
\* an answer to the level of the service.
ExchangeInv ==
    /\ \A c \in Client :
          exchange[c].state = "answered" => clientLevel[c] = exchange[c].level
    /\ Waiting => /\ exchange[Order[main.at]] # Free
                  /\ exchange[Order[main.at]].level = level

\* LevelsFollow, for the first n clients.
Follows(n) ==
    \A i \in 1..n :
        (\A j \in 1..i : exchange[Order[j]] = Free) => clientLevel[Order[i]] = level

FollowInv ==
    /\ main.op = "idle" => Follows(sockets)
    /\ main.op \in {"adding", "setting", "awaiting"} => Follows(main.at - 1)

LevelInv == PositionInv /\ ExchangeInv /\ FollowInv

\* Follows(n) can only be spoilt at a client whose socket can be used.
LEMMA FollowsFrame ==
    ASSUME NEW n \in Nat, n <= Len(Order), Follows(n), level' = level,
           \A c \in Client : exchange'[c] = Free =>
               exchange[c] = Free /\ clientLevel'[c] = clientLevel[c]
    PROVE  Follows(n)'
<1> SUFFICES ASSUME NEW i \in 1..n, \A j \in 1..i : exchange'[Order[j]] = Free
             PROVE  clientLevel'[Order[i]] = level
  BY DEF Follows
<1>1. \A j \in 1..i : Order[j] \in Client
  BY OrderedClients
<1>2. \A j \in 1..i : exchange[Order[j]] = Free
  BY <1>1
<1>3. clientLevel'[Order[i]] = clientLevel[Order[i]]
  BY <1>1
<1>. QED
  BY <1>2, <1>3 DEF Follows

\* A client whose socket cannot be used, and those after it, need not follow.
LEMMA FollowsPast ==
    ASSUME NEW k \in Nat, NEW n \in Nat, Follows(k), k < n,
           exchange[Order[k + 1]] # Free
    PROVE  Follows(n)
BY DEF Follows

\* Adding a client leaves the level of those before it, and waits for its own.
LEMMA AddClientLevel == ASSUME TypeOK, LevelInv, AddClient PROVE LevelInv'
<1>. USE OrderedClients DEF TypeOK
<1>1. /\ main.op = "idle" /\ sockets \in Nat /\ sockets' = sockets + 1
      /\ sockets' \in 1..Len(Order) /\ main' = [op |-> "adding", at |-> sockets']
      /\ UNCHANGED <<level, clientLevel>>
      /\ exchange' = [exchange EXCEPT ![Order[sockets']] =
                         [state |-> "queued", level |-> level]]
  BY DEF AddClient, Idle, Request, clients
<1>2. PICK n \in Nat : n = sockets
  BY <1>1
<1>3. \A c \in Client : exchange'[c] = Free =>
               exchange[c] = Free /\ clientLevel'[c] = clientLevel[c]
  BY <1>1 DEF Free
<1>4. Follows(n)'
  BY <1>1, <1>2, <1>3, FollowsFrame DEF LevelInv, FollowInv
<1>5. main'.op = "adding" /\ main'.at = n + 1 /\ sockets' = n + 1
  BY <1>1, <1>2
<1>6. FollowInv'
  BY <1>4, <1>5 DEF FollowInv, Follows
<1>7. ExchangeInv'
  <2>1. exchange'[Order[sockets']] = [state |-> "queued", level |-> level]
    BY <1>1
  <2>2. Order[main'.at] = Order[sockets']
    BY <1>1
  <2>3. \A c \in Client : exchange'[c].state = "answered" =>
                             exchange'[c] = exchange[c]
    BY <1>1
  <2>. QED
    BY <1>1, <2>1, <2>2, <2>3 DEF LevelInv, ExchangeInv, Free
<1>. QED
  BY <1>5, <1>6, <1>7 DEF LevelInv, PositionInv

\* The loop of setLevel() begins before the first client.
LEMMA SetLevelLevel ==
    ASSUME TypeOK, LevelInv, NEW l \in Level, SetLevel(l) PROVE LevelInv'
<1>1. /\ main.op = "idle" /\ main' = [op |-> "setting", at |-> 1]
      /\ UNCHANGED <<sockets, exchange, clientLevel>>
  BY DEF SetLevel, Idle, clients
<1>2. sockets \in Nat
  BY OrderedClients DEF TypeOK
<1>3. main'.op = "setting" /\ main'.at = 1
  BY <1>1
<1>4. FollowInv'
  BY <1>3 DEF FollowInv, Follows
<1>. QED
  BY <1>1, <1>2, <1>3, <1>4 DEF LevelInv, PositionInv, ExchangeInv, Waiting

\* A socket of the loop takes the request, or the loop ends: at a socket that has not
\* been answered, or after the last client.
LEMMA SetNextLevel == ASSUME TypeOK, LevelInv, SetNext PROVE LevelInv'
<1>1. /\ main.op = "setting" /\ main.at \in 1..(sockets + 1)
      /\ UNCHANGED <<level, sockets, clientLevel>>
  BY DEF SetNext, LevelInv, PositionInv, clients
<1>2. sockets \in Nat /\ sockets <= Len(Order) /\ main.at \in Nat
  BY OrderedClients DEF TypeOK
<1>3. PICK n \in Nat : n = main.at - 1 /\ n <= sockets
  BY <1>1, <1>2
<1>4. Follows(n)
  BY <1>1, <1>3 DEF LevelInv, FollowInv
<1>5. CASE main.at <= sockets /\ exchange[Order[main.at]] = Free
  <2>1. /\ exchange' = [exchange EXCEPT ![Order[main.at]] =
                         [state |-> "queued", level |-> level]]
        /\ main' = [main EXCEPT !.op = "awaiting"]
    BY <1>5 DEF SetNext, Request
  <2>2. main'.op = "awaiting" /\ main'.at = n + 1 /\ n + 1 <= sockets /\ Order[main.at] \in Client
    <3>1. main'.op = "awaiting" /\ main'.at = main.at
      BY <2>1 DEF TypeOK
    <3>2. Order[main.at] \in Client
      BY <1>1, <1>2, <1>5, OrderedClients
    <3>. QED
      BY <1>2, <1>3, <1>5, <3>1, <3>2
  <2>3. \A c \in Client : exchange'[c] = Free =>
               exchange[c] = Free /\ clientLevel'[c] = clientLevel[c]
    BY <1>1, <2>1 DEF Free, TypeOK
  <2>4. Follows(n)'
    BY <1>1, <1>2, <1>3, <1>4, <2>3, FollowsFrame, OrderedClients
  <2>5. FollowInv'
    BY <2>2, <2>4 DEF FollowInv, Follows
  <2>6. ExchangeInv'
    <3>1. exchange'[Order[main'.at]] = [state |-> "queued", level |-> level]
      BY <1>3, <2>1, <2>2 DEF TypeOK
    <3>2. \A c \in Client : exchange'[c].state = "answered" =>
                               exchange'[c] = exchange[c]
      BY <2>1 DEF TypeOK
    <3>. QED
      BY <1>1, <3>1, <3>2 DEF LevelInv, ExchangeInv, Free
  <2>. QED
    BY <1>1, <1>2, <2>2, <2>5, <2>6 DEF LevelInv, PositionInv
<1>6. CASE ~(main.at <= sockets /\ exchange[Order[main.at]] = Free)
  <2>1. exchange' = exchange /\ main' = [op |-> "idle", at |-> 0]
    BY <1>6 DEF SetNext, Idle
  <2>2. main'.op = "idle"
    BY <2>1
  <2>3. Follows(sockets)
    <3>1. CASE main.at <= sockets
      <4>1. exchange[Order[n + 1]] # Free /\ n < sockets
        BY <1>2, <1>3, <1>6, <3>1
      <4>. QED
        BY <1>2, <1>4, <4>1, FollowsPast
    <3>2. CASE main.at = sockets + 1
      BY <1>2, <1>3, <1>4, <3>2
    <3>. QED
      BY <1>1, <1>2, <3>1, <3>2
  <2>. QED
    BY <1>1, <2>1, <2>2, <2>3
       DEF LevelInv, PositionInv, ExchangeInv, FollowInv, Follows, Waiting
<1>. QED
  BY <1>5, <1>6

\* What a transaction that returns leaves to do: all before its client follow, and so
\* does its client, or its socket cannot be used.
LEMMA ReturnedLevel ==
    ASSUME TypeOK, LevelInv, Waiting, main' = Returned, UNCHANGED <<sockets, clientLevel, level>>,
           NEW n \in Nat, n + 1 = main.at, Follows(n + 1)'
    PROVE  PositionInv' /\ FollowInv' /\ ~Waiting'
<1>1. sockets \in Nat /\ main.at \in Nat
  BY OrderedClients DEF TypeOK
<1>2. CASE main.op = "adding"
  <2>1. main'.op = "idle" /\ n + 1 = sockets
    BY <1>2 DEF Returned, Idle, LevelInv, PositionInv
  <2>. QED
    BY <1>1, <2>1 DEF PositionInv, FollowInv, Follows, Waiting
<1>3. CASE main.op = "awaiting"
  <2>1. main'.op = "setting" /\ main'.at = n + 2 /\ n + 1 <= sockets
    BY <1>1, <1>3 DEF Returned, LevelInv, PositionInv
  <2>2. main'.at - 1 = n + 1
    BY <2>1
  <2>. QED
    BY <1>1, <2>1, <2>2 DEF PositionInv, FollowInv, Follows, Waiting
<1>. QED
  BY <1>2, <1>3 DEF Waiting

\* What is known of a transaction in progress.
LEMMA WaitingFacts ==
    ASSUME TypeOK, LevelInv, Waiting
    PROVE  \E n \in Nat : /\ n + 1 = main.at /\ n + 1 <= Len(Order)
                          /\ Follows(n)
                          /\ Order[n + 1] \in Client
                          /\ \A j \in 1..n : Order[j] # Order[n + 1]
<1>1. sockets \in Nat /\ sockets <= Len(Order) /\ main.at \in 1..sockets
  BY OrderedClients DEF TypeOK, LevelInv, PositionInv, Waiting
<1>2. PICK n \in Nat : n + 1 = main.at /\ n = main.at - 1
  BY <1>1
<1>3. Follows(n)
  BY <1>2 DEF LevelInv, FollowInv, Waiting
<1>4. n + 1 <= Len(Order) /\ Order[n + 1] \in Client
  BY <1>1, <1>2, OrderedClients
<1>5. \A j \in 1..n : Order[j] # Order[n + 1]
  BY <1>4, OrderedClients
<1>. QED
  BY <1>2, <1>3, <1>4, <1>5

\* A client that has confirmed the level has it.
LEMMA ConfirmLevel == ASSUME TypeOK, LevelInv, Confirm PROVE LevelInv'
<1>1. /\ Waiting /\ exchange[Order[main.at]].state = "answered"
      /\ exchange' = [exchange EXCEPT ![Order[main.at]] = Free]
      /\ main' = Returned /\ UNCHANGED <<level, sockets, clientLevel>>
  BY DEF Confirm, clients
<1>2. PICK n \in Nat : /\ n + 1 = main.at /\ n + 1 <= Len(Order) /\ Follows(n)
                       /\ Order[n + 1] \in Client
                       /\ \A j \in 1..n : Order[j] # Order[n + 1]
  BY <1>1, WaitingFacts
<1>3. clientLevel[Order[n + 1]] = level
  BY <1>1, <1>2 DEF LevelInv, ExchangeInv
<1>4. Follows(n + 1)'
  <2> SUFFICES ASSUME NEW i \in 1..(n + 1), \A j \in 1..i : exchange'[Order[j]] = Free
               PROVE  clientLevel'[Order[i]] = level'
    BY DEF Follows
  <2>1. CASE i = n + 1
    BY <1>1, <1>3, <2>1
  <2>2. CASE i \in 1..n
    <3>1. \A j \in 1..i : exchange'[Order[j]] = exchange[Order[j]]
      <4> SUFFICES ASSUME NEW j \in 1..i PROVE exchange'[Order[j]] = exchange[Order[j]]
        OBVIOUS
      <4>1. j \in 1..n
        BY <2>2
      <4>2. Order[j] \in Client
        BY <1>2, <4>1, OrderedClients
      <4>. QED
        BY <1>1, <1>2, <4>1, <4>2 DEF TypeOK
    <3>. QED
      BY <1>1, <1>2, <2>2, <3>1 DEF Follows
  <2>. QED
    BY <2>1, <2>2
<1>5. PositionInv' /\ FollowInv' /\ ~Waiting'
  BY <1>1, <1>2, <1>4, ReturnedLevel
<1>6. \A c \in Client : exchange'[c].state = "answered" => exchange'[c] = exchange[c]
  BY <1>1 DEF TypeOK, Free
<1>. QED
  BY <1>1, <1>5, <1>6 DEF LevelInv, ExchangeInv

\* A client that has not answered in time holds up itself and those after it.
LEMMA TimeOutLevel == ASSUME TypeOK, LevelInv, TimeOut PROVE LevelInv'
<1>1. /\ Waiting /\ exchange' = exchange
      /\ main' = Returned /\ UNCHANGED <<level, sockets, clientLevel>>
  BY DEF TimeOut, AfterTimeout, clients
<1>2. PICK n \in Nat : n + 1 = main.at /\ n + 1 <= Len(Order) /\ Follows(n)
  BY <1>1, WaitingFacts
<1>3. exchange[Order[n + 1]] # Free
  BY <1>1, <1>2 DEF LevelInv, ExchangeInv
<1>4. Follows(n + 1)
  BY <1>2, <1>3, FollowsPast
<1>5. Follows(n + 1)'
  BY <1>1, <1>4 DEF Follows
<1>6. PositionInv' /\ FollowInv' /\ ~Waiting'
  BY <1>1, <1>2, <1>5, ReturnedLevel
<1>. QED
  BY <1>1, <1>6 DEF LevelInv, ExchangeInv

\* A step that leaves the owner of the service where it is, and makes no socket usable.
LEMMA ClientStepLevel ==
    ASSUME TypeOK, LevelInv, UNCHANGED mainVars,
           \A c \in Client :
               /\ exchange'[c] = Free =>
                      exchange[c] = Free /\ clientLevel'[c] = clientLevel[c]
               /\ exchange'[c].level = exchange[c].level
               /\ exchange'[c].state = "answered" => clientLevel'[c] = exchange'[c].level
    PROVE  LevelInv'
<1>1. UNCHANGED <<main, level, sockets>>
  BY DEF mainVars
<1>2. sockets \in Nat /\ sockets <= Len(Order)
  BY OrderedClients DEF TypeOK
<1>3. FollowInv'
  <2>1. CASE main.op = "idle"
    <3>1. PICK n \in Nat : n = sockets /\ n <= Len(Order)
      BY <1>2
    <3>2. Follows(n)'
      BY <1>1, <2>1, <3>1, FollowsFrame DEF LevelInv, FollowInv
    <3>. QED
      BY <1>1, <2>1, <3>1, <3>2 DEF FollowInv, Follows
  <2>2. CASE main.op \in {"adding", "setting", "awaiting"}
    <3>1. PICK n \in Nat : n = main.at - 1 /\ n <= Len(Order)
      BY <1>2, <2>2, OrderedClients DEF LevelInv, PositionInv
    <3>2. Follows(n)'
      BY <1>1, <2>2, <3>1, FollowsFrame DEF LevelInv, FollowInv
    <3>. QED
      BY <1>1, <2>2, <3>1, <3>2 DEF FollowInv, Follows
  <2>. QED
    BY <1>1, <2>1, <2>2 DEF FollowInv
<1>4. ExchangeInv'
  <2>1. CASE Waiting
    <3>1. Order[main.at] \in Client
      BY <2>1, WaitingFacts
    <3>. QED
      BY <1>1, <2>1, <3>1 DEF LevelInv, ExchangeInv, Waiting
  <2>. QED
    BY <1>1, <2>1 DEF ExchangeInv, Waiting
<1>. QED
  BY <1>1, <1>3, <1>4 DEF LevelInv, PositionInv

\* Every step keeps LevelInv.
LEMMA NextLevel == ASSUME TypeOK, LevelInv, [Next]_vars PROVE LevelInv'
<1>1. CASE AddClientFails \/ Destroy \/ SendEnd \/ Join \/ CloseContext
  <2>1. /\ main'.op \in {"ending", "joining", "closing", "done"}
        /\ UNCHANGED <<level, sockets, exchange, clientLevel>>
    BY <1>1 DEF AddClientFails, Destroy, SendEnd, Join, CloseContext, clients, TypeOK
  <2>. QED
    BY <2>1 DEF LevelInv, PositionInv, ExchangeInv, FollowInv, Waiting
<1>2. CASE Process \/ ConnectFails
  <2>1. UNCHANGED <<mainVars, exchange, clientLevel>>
    BY <1>2 DEF Process, Setup, TakeCommand, ConnectFails, TakeLog, clients
  <2>. QED
    BY <2>1, ClientStepLevel DEF LevelInv, ExchangeInv
<1>3. ASSUME NEW c \in Client, TakeLevel(c) PROVE LevelInv'
  <2>1. /\ UNCHANGED mainVars /\ exchange[c].state = "queued"
        /\ exchange' = [exchange EXCEPT ![c].state = "answered"]
        /\ clientLevel' = [clientLevel EXCEPT ![c] = exchange[c].level]
    BY <1>3 DEF TakeLevel, LevelAsked
  <2>2. /\ exchange'[c].state = "answered" /\ exchange'[c].level = exchange[c].level
        /\ clientLevel'[c] = exchange[c].level
        /\ \A d \in Client \ {c} : /\ exchange'[d] = exchange[d]
                                   /\ clientLevel'[d] = clientLevel[d]
    BY <2>1 DEF TypeOK
  <2>. QED
    BY <2>1, <2>2, ClientStepLevel DEF LevelInv, ExchangeInv, Free
<1>4. ASSUME NEW c \in Client, Leave(c) PROVE LevelInv'
  <2>1. UNCHANGED <<mainVars, clientLevel>>
    BY <1>4 DEF Leave
  <2>2. CASE exchange' = exchange
    BY <2>1, <2>2, ClientStepLevel DEF LevelInv, ExchangeInv
  <2>3. CASE exchange' = [exchange EXCEPT ![c].state = "lost"]
    <3>1. /\ exchange'[c].state = "lost" /\ exchange'[c].level = exchange[c].level
          /\ \A d \in Client \ {c} : exchange'[d] = exchange[d]
      BY <2>3 DEF TypeOK
    <3>. QED
      BY <2>1, <3>1, ClientStepLevel DEF LevelInv, ExchangeInv, Free
  <2>. QED
    BY <1>4, <2>2, <2>3 DEF Leave
<1>5. CASE \/ \E c \in Client : Link(c)
           \/ \E t \in Thread : Log(t) \/ SendTopic(t) \/ SendRecord(t)
           \/ UNCHANGED vars
  <2>1. UNCHANGED <<mainVars, exchange, clientLevel>>
    BY <1>5 DEF Link, Log, SendTopic, SendRecord, vars, clients
  <2>. QED
    BY <2>1, ClientStepLevel DEF LevelInv, ExchangeInv
<1>. QED
  BY <1>1, <1>2, <1>3, <1>4, <1>5, AddClientLevel, SetLevelLevel, SetNextLevel,
     ConfirmLevel, TimeOutLevel DEF Next, Main

\* A client that is slow or dead keeps setLevel() only from those added after it,
\* whatever times out and however late the answers are.
THEOREM EarlierClientsFollow == Spec => []LevelsFollow
<1>1. Init => TypeOK /\ LevelInv
  <2> SUFFICES ASSUME Init PROVE LevelInv
    BY InitType
  <2>1. main.op = "idle" /\ sockets = 0 /\ exchange = [c \in Client |-> Free]
    BY DEF Init, ServiceInit, Idle
  <2>. QED
    BY <2>1 DEF LevelInv, PositionInv, ExchangeInv, FollowInv, Follows, Waiting, Free
<1>2. TypeOK /\ LevelInv /\ [Next]_vars => (TypeOK /\ LevelInv)'
  BY NextType, NextLevel
<1>3. TypeOK /\ LevelInv => LevelsFollow
  BY DEF LevelInv, FollowInv, Follows, LevelsFollow, Idle
<1>. QED
  BY <1>1, <1>2, <1>3, PTL DEF Spec

-----------------------------------------------------------------------------
(* The two parts of a record.                                              *)

\* What a topic changes: it begins a message, or becomes part of one begun before.
LEMMA TopicFacts ==
    ASSUME TypeOK, NEW t \in Thread, SendTopic(t), NEW c, c = Owner[t]
    PROVE  /\ c \in Client /\ pc[t] = "topic" /\ pc' = [pc EXCEPT ![t] = "record"]
           /\ parts' = [parts EXCEPT ![c] = Append(parts[c], Topic)]
           /\ UNCHANGED <<threadVars, phase, linked, sent, inbox>>
           /\ full \subseteq full' /\ full' \subseteq full \cup {c}
           /\ matched' \subseteq matched \cup (linked \cap {c})
           /\ matched \subseteq matched' \cup {c}
           /\ parts[c] = <<>> /\ c \in linked /\ c \notin full' => c \in matched'
<1>1. c \in Client /\ SendPart(c, Topic, TRUE)
  BY ThreadAssumption DEF SendTopic, SNDMORE
<1>2. /\ parts' = [parts EXCEPT ![c] = Append(parts[c], Topic)]
      /\ inbox' = inbox /\ full \subseteq full' /\ full' \subseteq full \cup {c}
      /\ matched' \subseteq matched \cup (linked \cap {c})
      /\ matched \subseteq matched' \cup {c}
      /\ parts[c] = <<>> /\ c \in linked /\ c \notin full' => c \in matched'
  BY <1>1 DEF SendPart
<1>. QED
  BY <1>1, <1>2 DEF SendTopic

\* What a record changes: it ends the message, which is dropped without a topic.
LEMMA RecordFacts ==
    ASSUME TypeOK, NEW t \in Thread, SendRecord(t), NEW c, c = Owner[t]
    PROVE  /\ c \in Client /\ pc[t] = "record" /\ pc' = [pc EXCEPT ![t] = "out"]
           /\ parts' = [parts EXCEPT ![c] = <<>>]
           /\ sent' = [sent EXCEPT ![c] = sent[c] + 1]
           /\ UNCHANGED <<threadVars, phase, linked, full>>
           /\ matched' \subseteq matched
           /\ \A d \in Client \ {c} : d \in matched => d \in matched'
           /\ \/ inbox' = inbox /\ (parts[c] = <<>> \/ c \notin matched)
              \/ /\ c \in matched
                 /\ inbox' = [inbox EXCEPT ![c] =
                                 Append(inbox[c], Append(parts[c], sent[c] + 1))]
<1>1. c \in Client /\ sent' = [sent EXCEPT ![c] = sent[c] + 1]
  BY ThreadAssumption DEF SendRecord
<1>2. sent'[c] = sent[c] + 1 /\ sent[c] \in Nat
  BY <1>1 DEF TypeOK
<1>3. SendPart(c, sent[c] + 1, FALSE)
  BY <1>2 DEF SendRecord
<1>4. sent[c] + 1 # Topic
  BY <1>2 DEF Topic
<1>5. /\ parts' = [parts EXCEPT ![c] = <<>>] /\ full' = full
      /\ matched' \subseteq matched
      /\ \A d \in Client \ {c} : d \in matched => d \in matched'
      /\ \/ inbox' = inbox /\ (parts[c] = <<>> \/ c \notin matched)
         \/ /\ c \in matched
            /\ inbox' = [inbox EXCEPT ![c] =
                            Append(inbox[c], Append(parts[c], sent[c] + 1))]
  BY <1>3, <1>4 DEF SendPart
<1>. QED
  BY <1>1, <1>5 DEF SendRecord

\* What a step of the service's thread changes: it takes at most one message.
LEMMA ProcessFacts ==
    ASSUME TypeOK, Process \/ ConnectFails, NEW c \in Client
    PROVE  /\ UNCHANGED <<phase, logVars>>
           /\ matched' \subseteq matched /\ linked' \subseteq linked
           /\ thread' \notin Dead => matched' = matched /\ linked' = linked
           /\ thread' \in Dead => thread = "starting" \/ (linked' = {} /\ matched' = {})
           /\ \/ written'[c] = written[c] /\ (inbox'[c] = inbox[c] \/ inbox'[c] = <<>>)
              \/ /\ inbox[c] # <<>> /\ IsRecord(Head(inbox[c]))
                 /\ written'[c] = Append(written[c], Head(inbox[c])[2])
                 /\ inbox'[c] = Tail(inbox[c]) \/ (inbox'[c] = <<>> /\ thread' \in Dead)
           /\ inbox'[c] = <<>> /\ inbox[c] # <<>> /\ written'[c] = written[c] => thread' \in Dead
<1>. USE DEF TypeOK
<1>1. CASE Setup
  BY <1>1 DEF Setup, clients, logVars
<1>2. CASE TakeCommand
  <2>1. PICK next \in {"polling", "halfway", "ended", "ending"} :
            Continue(next) /\ Remaining(next, inbox)
    BY <1>2 DEF TakeCommand
  <2>2. UNCHANGED <<written, phase, logVars>>
    BY <1>2 DEF TakeCommand
  <2>. QED
    BY <2>1, <2>2 DEF Continue, Remaining
<1>3. CASE ConnectFails
  BY <1>3 DEF ConnectFails, Continue, Remaining, Dead
<1>4. ASSUME NEW d \in Client, TakeLog(d)
      PROVE  /\ UNCHANGED <<phase, logVars>>
             /\ matched' \subseteq matched /\ linked' \subseteq linked
             /\ thread' \notin Dead => matched' = matched /\ linked' = linked
             /\ thread' \in Dead => thread = "starting" \/ (linked' = {} /\ matched' = {})
             /\ \/ written'[c] = written[c] /\ (inbox'[c] = inbox[c] \/ inbox'[c] = <<>>)
                \/ /\ inbox[c] # <<>> /\ IsRecord(Head(inbox[c]))
                   /\ written'[c] = Append(written[c], Head(inbox[c])[2])
                   /\ inbox'[c] = Tail(inbox[c]) \/ (inbox'[c] = <<>> /\ thread' \in Dead)
             /\ inbox'[c] = <<>> /\ inbox[c] # <<>> /\ written'[c] = written[c] => thread' \in Dead
  <2>1. PICK next \in {"threw", "ended", "polling"} :
            /\ Continue(next) /\ Remaining(next, [inbox EXCEPT ![d] = Received(d)])
            /\ ~IsRecord(Head(inbox[d])) => next = "threw"
    BY <1>4 DEF TakeLog
  <2>2. /\ inbox[d] # <<>> /\ UNCHANGED <<phase, logVars>>
        /\ written' = IF IsRecord(Head(inbox[d]))
                      THEN [written EXCEPT ![d] = Append(written[d], Head(inbox[d])[2])]
                      ELSE written
    BY <1>4 DEF TakeLog
  <2>3. /\ matched' \subseteq matched /\ linked' \subseteq linked
        /\ thread' \notin Dead => matched' = matched /\ linked' = linked
        /\ thread' \in Dead => linked' = {} /\ matched' = {}
        /\ thread' = next
    BY <2>1 DEF Continue
  <2>4. CASE next \in Dead
    <3>1. inbox'[c] = <<>> /\ thread' \in Dead
      BY <2>1, <2>3, <2>4 DEF Remaining
    <3>2. CASE c = d /\ IsRecord(Head(inbox[d]))
      <4>1. written'[c] = Append(written[c], Head(inbox[c])[2])
        BY <2>2, <3>2
      <4>. QED
        BY <2>2, <2>3, <3>1, <3>2, <4>1
    <3>3. CASE ~(c = d /\ IsRecord(Head(inbox[d])))
      <4>1. written'[c] = written[c]
        BY <2>2, <3>3
      <4>. QED
        BY <2>2, <2>3, <3>1, <4>1
    <3>. QED
      BY <3>2, <3>3
  <2>5. CASE next \notin Dead
    <3>1. inbox' = [inbox EXCEPT ![d] = Tail(inbox[d])] /\ IsRecord(Head(inbox[d]))
      BY <2>1, <2>5 DEF Remaining, Received, Dead
    <3>2. CASE c = d
      <4>1. inbox'[c] = Tail(inbox[c]) /\ written'[c] = Append(written[c], Head(inbox[c])[2])
        BY <2>2, <3>1, <3>2
      <4>2. written'[c] # written[c]
        <5>1. written[c] \in Seq(Nat \ {0}) /\ Head(inbox[c]) \in Seq(Nat)
          BY <2>2, <3>2
        <5>2. Len(Append(written[c], Head(inbox[c])[2])) = Len(written[c]) + 1
          BY <3>1, <3>2, <5>1, RecordNumber, AppendProperties
        <5>. QED
          BY <4>1, <5>1, <5>2, LenProperties
      <4>. QED
        <5>1. inbox[c] # <<>> /\ IsRecord(Head(inbox[c]))
          BY <2>2, <3>1, <3>2
        <5>. QED
          BY <2>2, <2>3, <4>1, <4>2, <5>1
    <3>3. CASE c # d
      <4>1. inbox'[c] = inbox[c] /\ written'[c] = written[c]
        BY <2>2, <3>1, <3>3
      <4>. QED
        BY <2>2, <2>3, <4>1
    <3>. QED
      BY <3>2, <3>3
  <2>. QED
    BY <2>4, <2>5
<1>. QED
  BY <1>1, <1>2, <1>3, <1>4 DEF Process

\* What the client of one thread has sent and is sending: pairs of a topic and a record.
Paired(c) ==
    /\ \A i \in 1..Len(inbox[c]) : IsRecord(inbox[c][i])
    /\ \A t \in ThreadsOf(c) : parts[c] = IF pc[t] = "record" THEN <<Topic>> ELSE <<>>

PairInv == \A c \in Client : Paired(c) \/ Shared(c)

\* A client that goes away leaves the first k messages in its queue.
LEMMA LeaveFacts ==
    ASSUME TypeOK, NEW d \in Client, Leave(d)
    PROVE  /\ UNCHANGED <<mainVars, threadVars, commands, sent, full>>
           /\ phase' = [phase EXCEPT ![d] = "gone"]
           /\ linked' = linked \ {d} /\ matched' = matched \ {d}
           /\ pc' = [t \in Thread |-> IF Owner[t] = d THEN "out" ELSE pc[t]]
           /\ parts' = [parts EXCEPT ![d] = <<>>]
           /\ \E k \in 0..Len(inbox[d]) : inbox' = [inbox EXCEPT ![d] = SubSeq(inbox[d], 1, k)]
BY DEF Leave

\* The first messages of a queue.
LEMMA FirstOf ==
    ASSUME NEW q \in Seq(Seq(Nat)), NEW k \in 0..Len(q)
    PROVE  /\ Len(SubSeq(q, 1, k)) = k
           /\ \A i \in 1..k : SubSeq(q, 1, k)[i] = q[i]
OBVIOUS

\* A message added to a queue.
LEMMA Appended ==
    ASSUME NEW q \in Seq(Seq(Nat)), NEW m \in Seq(Nat)
    PROVE  /\ Append(q, m) \in Seq(Seq(Nat))
           /\ Len(Append(q, m)) = Len(q) + 1
           /\ \A i \in 1..Len(q) : Append(q, m)[i] = q[i]
           /\ Append(q, m)[Len(q) + 1] = m
BY AppendProperties

\* The rest of a queue.
LEMMA RestOf ==
    ASSUME NEW q \in Seq(Seq(Nat)), q # <<>>
    PROVE  /\ Len(Tail(q)) = Len(q) - 1 /\ Len(q) > 0
           /\ \A i \in 1..(Len(q) - 1) : Tail(q)[i] = q[i + 1]
           /\ Head(q) = q[1] /\ Head(q) \in Seq(Nat)
BY HeadTailProperties

\* A topic and the number of a record.
LEMMA PairIsRecord ==
    ASSUME NEW n \in Nat \ {0}
    PROVE  IsRecord(Append(<<Topic>>, n)) /\ Append(<<Topic>>, n) \in Seq(Nat)
<1>1. <<Topic>> \in Seq(Nat) /\ Len(<<Topic>>) = 1
  BY DEF Topic
<1>2. /\ Append(<<Topic>>, n) \in Seq(Nat) /\ Len(Append(<<Topic>>, n)) = 2
      /\ Append(<<Topic>>, n)[1 + 1] = n
  BY <1>1, AppendProperties
<1>. QED
  BY <1>2 DEF IsRecord, Topic

\* Every step keeps PairInv.
LEMMA NextPair == ASSUME TypeOK, PairInv, [Next]_vars PROVE PairInv'
<1> SUFFICES ASSUME NEW c \in Client, ~Shared(c) PROVE Paired(c)'
  BY DEF PairInv, Shared, ThreadsOf
<1>0. Paired(c) /\ inbox[c] \in Seq(Seq(Nat))
  BY DEF PairInv, TypeOK
<1>1. CASE Process \/ ConnectFails
  <2>1. /\ UNCHANGED <<parts, pc>>
        /\ \/ inbox'[c] = inbox[c] \/ inbox'[c] = <<>>
           \/ inbox[c] # <<>> /\ inbox'[c] = Tail(inbox[c])
    BY <1>1, ProcessFacts DEF logVars
  <2>2. \A i \in 1..Len(inbox'[c]) : IsRecord(inbox'[c][i])
    <3>1. CASE inbox'[c] = inbox[c] \/ inbox'[c] = <<>>
      BY <1>0, <3>1 DEF Paired
    <3>2. CASE inbox[c] # <<>> /\ inbox'[c] = Tail(inbox[c])
      BY <1>0, <3>2, RestOf DEF Paired
    <3>. QED
      BY <2>1, <3>1, <3>2
  <2>. QED
    BY <1>0, <2>1, <2>2 DEF Paired, ThreadsOf
<1>2. ASSUME NEW d \in Client, Leave(d) PROVE Paired(c)'
  <2>1. CASE c = d
    <3>1. parts'[c] = <<>> /\ \A t \in ThreadsOf(c) : pc'[t] = "out"
      BY <1>2, <2>1, LeaveFacts DEF TypeOK, ThreadsOf
    <3>2. PICK k \in 0..Len(inbox[c]) : inbox' = [inbox EXCEPT ![c] = SubSeq(inbox[c], 1, k)]
      BY <1>2, <2>1, LeaveFacts
    <3>4. inbox'[c] = SubSeq(inbox[c], 1, k)
      BY <3>2 DEF TypeOK
    <3>3. \A i \in 1..Len(inbox'[c]) : IsRecord(inbox'[c][i])
      BY <1>0, <3>4, FirstOf DEF Paired
    <3>. QED
      BY <3>1, <3>3 DEF Paired, ThreadsOf
  <2>2. CASE c # d
    <3>1. /\ parts'[c] = parts[c] /\ inbox'[c] = inbox[c]
          /\ \A t \in ThreadsOf(c) : pc'[t] = pc[t]
      BY <1>2, <2>2, LeaveFacts DEF TypeOK, ThreadsOf
    <3>. QED
      BY <1>0, <3>1 DEF Paired, ThreadsOf
  <2>. QED
    BY <2>1, <2>2
<1>3. ASSUME NEW t \in Thread, Log(t) PROVE Paired(c)'
  <2>1. /\ UNCHANGED <<parts, inbox>> /\ pc[t] = "out" /\ pc' = [pc EXCEPT ![t] = "topic"]
    BY <1>3 DEF Log
  <2>2. \A u \in ThreadsOf(c) : pc'[u] = "record" <=> pc[u] = "record"
    BY <2>1 DEF TypeOK, ThreadsOf
  <2>. QED
    BY <1>0, <2>1, <2>2 DEF Paired, ThreadsOf
<1>4. ASSUME NEW t \in Thread, SendTopic(t) PROVE Paired(c)'
  <2>1. /\ inbox' = inbox /\ pc[t] = "topic" /\ pc' = [pc EXCEPT ![t] = "record"]
        /\ parts' = [parts EXCEPT ![Owner[t]] = Append(parts[Owner[t]], Topic)]
    BY <1>4, TopicFacts
  <2>2. CASE Owner[t] = c
    <3>1. ThreadsOf(c) = {t}
      BY <2>2 DEF Shared, ThreadsOf
    <3>2. parts[c] = <<>>
      BY <1>0, <2>1, <3>1 DEF Paired
    <3>3. parts'[c] = <<Topic>> /\ pc'[t] = "record"
      BY <2>1, <2>2, <3>2 DEF TypeOK
    <3>. QED
      BY <1>0, <2>1, <3>1, <3>3 DEF Paired, ThreadsOf
  <2>3. CASE Owner[t] # c
    <3>1. /\ parts'[c] = parts[c] /\ \A u \in ThreadsOf(c) : pc'[u] = pc[u]
      BY <2>1, <2>3 DEF TypeOK, ThreadsOf
    <3>. QED
      BY <1>0, <2>1, <3>1 DEF Paired, ThreadsOf
  <2>. QED
    BY <2>2, <2>3
<1>5. ASSUME NEW t \in Thread, SendRecord(t) PROVE Paired(c)'
  <2>. DEFINE d == Owner[t]
  <2>1. /\ d \in Client /\ pc[t] = "record" /\ pc' = [pc EXCEPT ![t] = "out"]
        /\ parts' = [parts EXCEPT ![d] = <<>>]
        /\ \/ inbox' = inbox
           \/ inbox' = [inbox EXCEPT ![d] = Append(inbox[d], Append(parts[d], sent[d] + 1))]
    BY <1>5, RecordFacts
  <2>2. CASE d = c
    <3>1. ThreadsOf(c) = {t}
      BY <2>2 DEF Shared, ThreadsOf
    <3>2. parts[c] = <<Topic>>
      BY <1>0, <2>1, <3>1 DEF Paired
    <3>3. parts'[c] = <<>> /\ pc'[t] = "out"
      BY <2>1, <2>2 DEF TypeOK
    <3>4. \A i \in 1..Len(inbox'[c]) : IsRecord(inbox'[c][i])
      <4>. DEFINE message == Append(parts[c], sent[c] + 1)
      <4>1. message = Append(<<Topic>>, sent[c] + 1) /\ sent[c] + 1 \in Nat \ {0}
        BY <3>2 DEF TypeOK
      <4>2. IsRecord(message) /\ message \in Seq(Nat)
        BY <4>1, PairIsRecord
      <4>. HIDE DEF message
      <4>3. inbox'[c] = inbox[c] \/ inbox'[c] = Append(inbox[c], message)
        BY <2>1, <2>2 DEF TypeOK, message
      <4>4. CASE inbox'[c] = inbox[c]
        BY <1>0, <4>4 DEF Paired
      <4>5. CASE inbox'[c] = Append(inbox[c], message)
        <5>1. ASSUME NEW i \in 1..Len(inbox'[c]) PROVE IsRecord(inbox'[c][i])
          <6>1. i \in 1..Len(inbox[c]) \/ i = Len(inbox[c]) + 1
            BY <1>0, <4>2, <4>5, Appended
          <6>. QED
            BY <1>0, <4>2, <4>5, <6>1, Appended DEF Paired
        <5>. QED
          BY <5>1
      <4>. QED
        BY <4>3, <4>4, <4>5
    <3>. QED
      BY <3>1, <3>3, <3>4 DEF Paired, ThreadsOf
  <2>3. CASE d # c
    <3>1. /\ parts'[c] = parts[c] /\ inbox'[c] = inbox[c]
          /\ \A u \in ThreadsOf(c) : pc'[u] = pc[u]
      BY <2>1, <2>3 DEF TypeOK, ThreadsOf
    <3>. QED
      BY <1>0, <3>1 DEF Paired, ThreadsOf
  <2>. QED
    BY <2>2, <2>3
<1>6. CASE \/ AddClient \/ AddClientFails \/ Destroy \/ Main
           \/ \E l \in Level : SetLevel(l)
           \/ \E d \in Client : TakeLevel(d) \/ Link(d)
           \/ UNCHANGED vars
  <2>1. UNCHANGED <<inbox, parts, pc>>
    BY <1>6 DEF AddClient, AddClientFails, Destroy, Main, SetLevel, SetNext, Confirm,
                TimeOut, SendEnd, Join, CloseContext, TakeLevel, Link, vars, clients, logVars
  <2>. QED
    BY <1>0, <2>1 DEF Paired, ThreadsOf
<1>. QED
  BY <1>1, <1>2, <1>3, <1>4, <1>5, <1>6 DEF Next

\* Only a message that is no record ends the thread, and names its client.
LEMMA NextCulprit ==
    ASSUME TypeOK, PairInv, OnlySharedClientsMix, [Next]_vars PROVE OnlySharedClientsMix'
<1> SUFFICES culprit' = culprit \/ (culprit' \in Client /\ Shared(culprit'))
  BY DEF OnlySharedClientsMix, Shared, ThreadsOf
<1>1. ASSUME NEW c \in Client, TakeLog(c) PROVE culprit' = culprit \/ (culprit' = c /\ Shared(c))
  <2>1. inbox[c] # <<>> /\ inbox[c] \in Seq(Seq(Nat))
    BY <1>1 DEF TakeLog, TypeOK
  <2>2. CASE IsRecord(Head(inbox[c]))
    BY <1>1, <2>2 DEF TakeLog
  <2>3. CASE ~IsRecord(Head(inbox[c]))
    <3>1. culprit' = c
      BY <1>1, <2>3 DEF TakeLog
    <3>2. 1 \in 1..Len(inbox[c]) /\ ~IsRecord(inbox[c][1])
      BY <2>1, <2>3, RestOf
    <3>. QED
      BY <3>1, <3>2 DEF PairInv, Paired
  <2>. QED
    BY <2>2, <2>3
<1>2. CASE \/ AddClient \/ AddClientFails \/ Destroy \/ Main
           \/ Setup \/ TakeCommand \/ ConnectFails
           \/ \E l \in Level : SetLevel(l)
           \/ \E d \in Client : TakeLevel(d) \/ Link(d) \/ Leave(d)
           \/ \E t \in Thread : Log(t) \/ SendTopic(t) \/ SendRecord(t)
           \/ UNCHANGED vars
  BY <1>2 DEF AddClient, AddClientFails, Destroy, Main, SetLevel, SetNext, Confirm,
              TimeOut, SendEnd, Join, CloseContext, Setup, TakeCommand, ConnectFails,
              TakeLevel, Link, Leave, Log, SendTopic, SendRecord, vars, threadVars
<1>. QED
  BY <1>1, <1>2 DEF Next, Process

\* Initially nothing has been sent.
LEMMA InitPair == Init => PairInv /\ OnlySharedClientsMix
<1> SUFFICES ASSUME Init PROVE PairInv /\ OnlySharedClientsMix
  OBVIOUS
<1>1. /\ inbox = [c \in Client |-> <<>>] /\ parts = [c \in Client |-> <<>>]
      /\ pc = [t \in Thread |-> "out"] /\ culprit = NoClient
  BY DEF Init, ServiceInit, ClientsInit
<1>. QED
  BY <1>1 DEF PairInv, Paired, ThreadsOf, OnlySharedClientsMix

\* The thread of the service is only ever brought down by a client that several
\* threads log with.
THEOREM OneThreadIsHarmless == Spec => []OnlySharedClientsMix
<1>1. TypeOK /\ PairInv /\ OnlySharedClientsMix /\ [Next]_vars
          => (TypeOK /\ PairInv /\ OnlySharedClientsMix)'
  BY NextType, NextPair, NextCulprit
<1>. QED
  BY <1>1, InitType, InitPair, PTL DEF Spec

-----------------------------------------------------------------------------
(* The order of the records.                                               *)

\* The record of a message is its last part, whatever comes before it.
Number(message) == message[Len(message)]

\* Record n of c is written or queued next after record m.
Succeeds(c, m, n) == IF c \in full \/ Shared(c) THEN n > m ELSE n = m + 1

\* The records written and those queued are in the order they were sent in.
Chain(c) ==
    /\ \A i \in 1..Len(inbox[c]) : inbox[c][i] # <<>> /\ Number(inbox[c][i]) <= sent[c]
    /\ \A i \in 1..Len(written[c]) : written[c][i] <= sent[c]
    /\ \A i \in 2..Len(written[c]) : Succeeds(c, written[c][i - 1], written[c][i])
    /\ \A i \in 2..Len(inbox[c]) :
          Succeeds(c, Number(inbox[c][i - 1]), Number(inbox[c][i]))
    /\ written[c] # <<>> /\ inbox[c] # <<>> =>
          Succeeds(c, written[c][Len(written[c])], Number(inbox[c][1]))

\* The last record that has got through.
Latest(c) == IF inbox[c] # <<>> THEN Number(inbox[c][Len(inbox[c])])
             ELSE written[c][Len(written[c])]

\* The first record has been heard, and nothing can be left out after it.
Heard(c) ==
    /\ written[c] # <<>> \/ inbox[c] # <<>>
    /\ c \notin full /\ ~Shared(c) /\ thread \notin Dead /\ phase[c] = "up"

\* Then the subscription stays, and the last record sent has got through.
UpToDate(c) ==
    /\ Latest(c) = sent[c]
    /\ c \in linked
    /\ \A t \in ThreadsOf(c) : pc[t] = "record" => c \in matched

\* Only what is subscribed to is sent to the service.
SubscriptionInv ==
    /\ matched \subseteq linked
    /\ thread \in Dead => linked = {}
    /\ thread = "starting" => connecting = {}
    /\ \A c \in linked : phase[c] = "up"

OrderInv ==
    /\ SubscriptionInv
    /\ \A c \in Client : Chain(c) /\ (Heard(c) => UpToDate(c))

\* The numbers in a queue are numbers.
LEMMA NumberType ==
    ASSUME TypeOK, NEW c \in Client, Chain(c)
    PROVE  /\ written[c] \in Seq(Nat \ {0}) /\ inbox[c] \in Seq(Seq(Nat))
           /\ sent[c] \in Nat
           /\ \A i \in 1..Len(inbox[c]) : Number(inbox[c][i]) \in Nat
           /\ \A i \in 1..Len(written[c]) : written[c][i] \in Nat
<1>1. /\ written[c] \in Seq(Nat \ {0}) /\ inbox[c] \in Seq(Seq(Nat))
      /\ sent[c] \in Nat
  BY DEF TypeOK
<1>2. ASSUME NEW m \in Seq(Nat), m # <<>> PROVE Number(m) \in Nat
  <2>1. Len(m) \in 1..Len(m)
    BY <1>2
  <2>. QED
    BY <2>1, ElementOfSeq DEF Number
<1>3. ASSUME NEW i \in 1..Len(inbox[c]) PROVE Number(inbox[c][i]) \in Nat
  <2>1. inbox[c][i] \in Seq(Nat) /\ inbox[c][i] # <<>>
    BY <1>1, ElementOfSeq DEF Chain
  <2>. QED
    BY <1>2, <2>1
<1>4. ASSUME NEW i \in 1..Len(written[c]) PROVE written[c][i] \in Nat
  BY <1>1, ElementOfSeq
<1>. QED
  BY <1>1, <1>3, <1>4

\* The order holds as long as the queue and what is written of it stay, also when the
\* queue has been found full.
LEMMA ChainKept ==
    ASSUME TypeOK, NEW c \in Client, Chain(c), full \subseteq full',
           sent'[c] \in Nat, sent'[c] >= sent[c],
           written'[c] = written[c], inbox'[c] = inbox[c]
    PROVE  Chain(c)'
<1>. DEFINE Succeeded(m, n) == IF c \in full' \/ Shared(c) THEN n > m ELSE n = m + 1
<1>0. /\ written[c] \in Seq(Nat \ {0}) /\ inbox[c] \in Seq(Seq(Nat))
      /\ sent[c] \in Nat
      /\ \A i \in 1..Len(inbox[c]) : Number(inbox[c][i]) \in Nat
      /\ \A i \in 1..Len(written[c]) : written[c][i] \in Nat
  BY NumberType
<1>1. ASSUME NEW m \in Nat, NEW n \in Nat, Succeeds(c, m, n) PROVE Succeeded(m, n)
  BY <1>1 DEF Succeeds
<1>2. \A i \in 1..Len(inbox[c]) : inbox[c][i] # <<>> /\ Number(inbox[c][i]) <= sent'[c]
  BY <1>0 DEF Chain
<1>3. \A i \in 1..Len(written[c]) : written[c][i] <= sent'[c]
  BY <1>0 DEF Chain
<1>4. ASSUME NEW i \in 2..Len(written[c]) PROVE Succeeded(written[c][i - 1], written[c][i])
  <2>1. i - 1 \in 1..Len(written[c]) /\ i \in 1..Len(written[c])
    BY <1>0
  <2>. QED
    BY <1>0, <1>1, <2>1 DEF Chain
<1>5. ASSUME NEW i \in 2..Len(inbox[c])
      PROVE  Succeeded(Number(inbox[c][i - 1]), Number(inbox[c][i]))
  <2>1. i - 1 \in 1..Len(inbox[c]) /\ i \in 1..Len(inbox[c])
    BY <1>0
  <2>. QED
    BY <1>0, <1>1, <2>1 DEF Chain
<1>6. ASSUME written[c] # <<>>, inbox[c] # <<>>
      PROVE  Succeeded(written[c][Len(written[c])], Number(inbox[c][1]))
  <2>1. Len(written[c]) \in 1..Len(written[c]) /\ 1 \in 1..Len(inbox[c])
    BY <1>0, <1>6
  <2>. QED
    BY <1>0, <1>1, <1>6, <2>1 DEF Chain
<1>. QED
  BY <1>2, <1>3, <1>4, <1>5, <1>6 DEF Chain, Succeeds, Shared, ThreadsOf, Number

\* The order holds for the first messages of a queue.
LEMMA ChainCut ==
    ASSUME TypeOK, NEW c \in Client, Chain(c), full' = full, sent'[c] = sent[c],
           written'[c] = written[c], NEW k \in 0..Len(inbox[c]),
           Len(inbox'[c]) = k, \A i \in 1..k : inbox'[c][i] = inbox[c][i],
           k = 0 => inbox'[c] = <<>>
    PROVE  Chain(c)'
<1>. DEFINE Succeeded(m, n) == IF c \in full' \/ Shared(c) THEN n > m ELSE n = m + 1
<1>1. inbox[c] \in Seq(Seq(Nat)) /\ Len(inbox[c]) \in Nat
  BY NumberType
<1>2. ASSUME NEW i \in 1..k PROVE inbox'[c][i] # <<>> /\ Number(inbox'[c][i]) <= sent'[c]
  <2>1. i \in 1..Len(inbox[c]) /\ inbox'[c][i] = inbox[c][i]
    BY <1>1
  <2>. QED
    BY <2>1 DEF Chain
<1>3. ASSUME NEW i \in 2..k
      PROVE  Succeeded(Number(inbox'[c][i - 1]), Number(inbox'[c][i]))
  <2>1. i \in 2..Len(inbox[c]) /\ i - 1 \in 1..k /\ i \in 1..k
    BY <1>1
  <2>2. Succeeds(c, Number(inbox[c][i - 1]), Number(inbox[c][i]))
    BY <2>1 DEF Chain
  <2>. QED
    BY <2>1, <2>2 DEF Succeeds
<1>4. ASSUME written'[c] # <<>>, inbox'[c] # <<>>
      PROVE  Succeeded(written'[c][Len(written'[c])], Number(inbox'[c][1]))
  <2>1. k > 0 /\ inbox[c] # <<>> /\ inbox'[c][1] = inbox[c][1]
    BY <1>1, <1>4
  <2>2. Succeeds(c, written[c][Len(written[c])], Number(inbox[c][1]))
    BY <1>4, <2>1 DEF Chain
  <2>. QED
    BY <2>1, <2>2 DEF Succeeds
<1>5. /\ \A i \in 1..Len(written'[c]) : written'[c][i] <= sent'[c]
      /\ \A i \in 2..Len(written'[c]) : Succeeded(written'[c][i - 1], written'[c][i])
  BY DEF Chain, Succeeds
<1>. QED
  BY <1>2, <1>3, <1>4, <1>5 DEF Chain, Succeeds, Shared, ThreadsOf, Number

\* A number added to those written.
LEMMA AppendedNumber ==
    ASSUME NEW w \in Seq(Nat \ {0}), NEW n \in Nat \ {0}
    PROVE  /\ Append(w, n) # <<>> /\ Len(Append(w, n)) = Len(w) + 1
           /\ \A i \in 1..Len(w) : Append(w, n)[i] = w[i]
           /\ Append(w, n)[Len(w) + 1] = n
BY AppendProperties

\* A record taken from the queue follows those written before.
LEMMA ChainTake ==
    ASSUME TypeOK, NEW c \in Client, Chain(c), full' = full, sent'[c] = sent[c],
           inbox[c] # <<>>, IsRecord(Head(inbox[c])),
           written'[c] = Append(written[c], Head(inbox[c])[2]),
           inbox'[c] = Tail(inbox[c]) \/ inbox'[c] = <<>>
    PROVE  Chain(c)'
<1>1. /\ written[c] \in Seq(Nat \ {0}) /\ inbox[c] \in Seq(Seq(Nat))
      /\ Head(inbox[c]) = inbox[c][1] /\ Head(inbox[c]) \in Seq(Nat)
  BY NumberType, RestOf
<1>. DEFINE n == Number(inbox[c][1])
<1>2. Head(inbox[c])[2] = n /\ n \in Nat \ {0}
  BY <1>1, RecordNumber DEF Number
<1>3. written'[c] = Append(written[c], n)
  BY <1>2
<1>4. /\ Len(written'[c]) = Len(written[c]) + 1
      /\ \A i \in 1..Len(written[c]) : written'[c][i] = written[c][i]
      /\ written'[c][Len(written[c]) + 1] = n
      /\ written'[c] # <<>>
  <2>. HIDE DEF n
  <2>1. n \in Nat \ {0} /\ written[c] \in Seq(Nat \ {0})
    BY <1>1, <1>2
  <2>2. /\ Append(written[c], n) # <<>>
        /\ Len(Append(written[c], n)) = Len(written[c]) + 1
        /\ \A i \in 1..Len(written[c]) : Append(written[c], n)[i] = written[c][i]
        /\ Append(written[c], n)[Len(written[c]) + 1] = n
    BY <2>1, AppendedNumber, Zenon
  <2>. QED
    BY <1>3, <2>2, Zenon
<1>5. /\ \A i \in 1..Len(written'[c]) : written'[c][i] <= sent[c]
      /\ \A i \in 2..Len(written'[c]) : Succeeds(c, written'[c][i - 1], written'[c][i])
  <2>1. n <= sent[c]
    <3>1. \A i \in 1..Len(inbox[c]) : Number(inbox[c][i]) <= sent[c]
      BY DEF Chain
    <3>2. 1 \in 1..Len(inbox[c])
      BY <1>1
    <3>. QED
      BY <3>1, <3>2
  <2>2. written[c] # <<>> => Succeeds(c, written[c][Len(written[c])], n)
    BY DEF Chain
  <2>3. Len(written[c]) \in Nat /\ (Len(written[c]) > 0 => written[c] # <<>>)
    BY <1>1
  <2>4. ASSUME NEW i \in 2..Len(written'[c])
        PROVE  Succeeds(c, written'[c][i - 1], written'[c][i])
    <3>1. CASE i = Len(written[c]) + 1
      <4>1. i - 1 = Len(written[c]) /\ i - 1 \in 1..Len(written[c])
        BY <2>3, <2>4, <3>1
      <4>. QED
        BY <1>4, <2>2, <2>3, <3>1, <4>1
    <3>2. CASE i \in 2..Len(written[c])
      <4>1. i - 1 \in 1..Len(written[c]) /\ i \in 1..Len(written[c])
        BY <2>3, <3>2
      <4>. QED
        BY <1>4, <3>2, <4>1 DEF Chain
    <3>. QED
      BY <1>4, <2>3, <3>1, <3>2
  <2>5. ASSUME NEW i \in 1..Len(written'[c]) PROVE written'[c][i] <= sent[c]
    <3>1. CASE i = Len(written[c]) + 1
      BY <1>4, <2>1, <3>1
    <3>2. CASE i \in 1..Len(written[c])
      BY <1>4, <3>2 DEF Chain
    <3>. QED
      BY <1>4, <2>3, <3>1, <3>2
  <2>. QED
    BY <2>4, <2>5
<1>6. CASE inbox'[c] = <<>>
  BY <1>5, <1>6 DEF Chain, Succeeds, Shared, ThreadsOf
<1>7. CASE inbox'[c] = Tail(inbox[c])
  <2>1. /\ Len(inbox'[c]) = Len(inbox[c]) - 1 /\ Len(inbox[c]) \in Nat \ {0}
        /\ \A i \in 1..(Len(inbox[c]) - 1) : inbox'[c][i] = inbox[c][i + 1]
    BY <1>1, <1>7, RestOf
  <2>2. ASSUME NEW i \in 1..Len(inbox'[c])
        PROVE  /\ i + 1 \in 2..Len(inbox[c]) /\ i + 1 \in 1..Len(inbox[c])
               /\ i >= 2 => i - 1 \in 1..Len(inbox'[c]) /\ (i - 1) + 1 = i
               /\ (i + 1) - 1 = i
    BY <2>1
  <2>3. \A i \in 1..Len(inbox'[c]) : inbox'[c][i] # <<>> /\ Number(inbox'[c][i]) <= sent[c]
    BY <2>1, <2>2 DEF Chain
  <2>4. ASSUME NEW i \in 2..Len(inbox'[c])
        PROVE  Succeeds(c, Number(inbox'[c][i - 1]), Number(inbox'[c][i]))
    <3>1. i \in 1..Len(inbox'[c])
      OBVIOUS
    <3>2. inbox'[c][i] = inbox[c][i + 1] /\ inbox'[c][i - 1] = inbox[c][i]
      BY <2>1, <2>2, <3>1
    <3>3. i + 1 \in 2..Len(inbox[c]) /\ (i + 1) - 1 = i
      BY <2>2, <3>1
    <3>4. Succeeds(c, Number(inbox[c][(i + 1) - 1]), Number(inbox[c][i + 1]))
      BY <3>3 DEF Chain
    <3>. QED
      BY <3>2, <3>3, <3>4
  <2>5. inbox'[c] # <<>> => Succeeds(c, n, Number(inbox'[c][1]))
    <3> SUFFICES ASSUME inbox'[c] # <<>> PROVE Succeeds(c, n, Number(inbox'[c][1]))
      OBVIOUS
    <3>1. Len(inbox'[c]) > 0
      BY <1>1, <1>7, <2>1
    <3>2. inbox'[c][1] = inbox[c][2] /\ 2 \in 2..Len(inbox[c])
      BY <2>1, <3>1
    <3>3. Succeeds(c, Number(inbox[c][2 - 1]), Number(inbox[c][2]))
      BY <3>2 DEF Chain
    <3>. QED
      BY <3>2, <3>3
  <2>. QED
    BY <1>4, <1>5, <2>3, <2>4, <2>5 DEF Chain, Succeeds, Shared, ThreadsOf, Number
<1>. QED
  BY <1>6, <1>7

\* A record that is queued follows those before it: at once, unless some were left out.
LEMMA ChainSend ==
    ASSUME TypeOK, NEW c \in Client, Chain(c), full' = full, sent'[c] = sent[c] + 1,
           written'[c] = written[c], NEW message \in Seq(Nat), message # <<>>,
           Number(message) = sent[c] + 1,
           inbox'[c] = Append(inbox[c], message),
           Heard(c) => Latest(c) = sent[c],
           c \notin full /\ ~Shared(c) => Heard(c) \/ (written[c] = <<>> /\ inbox[c] = <<>>)
    PROVE  Chain(c)' /\ inbox'[c] # <<>> /\ Latest(c)' = sent'[c]
<1>. DEFINE n == sent[c] + 1
            q == inbox[c]
<1>0. /\ written[c] \in Seq(Nat \ {0}) /\ q \in Seq(Seq(Nat)) /\ sent[c] \in Nat
      /\ Len(q) \in Nat /\ Len(written[c]) \in Nat
      /\ \A i \in 1..Len(q) : Number(q[i]) \in Nat
      /\ \A i \in 1..Len(written[c]) : written[c][i] \in Nat
      /\ (q # <<>> => Len(q) \in 1..Len(q))
      /\ (written[c] # <<>> => Len(written[c]) \in 1..Len(written[c]))
  BY NumberType
<1>1. /\ Len(inbox'[c]) = Len(q) + 1
      /\ \A i \in 1..Len(q) : inbox'[c][i] = q[i]
      /\ inbox'[c][Len(q) + 1] = message
  BY <1>0, Appended
<1>c. /\ \A i \in 1..Len(q) : q[i] # <<>> /\ Number(q[i]) <= sent[c]
      /\ \A i \in 1..Len(written[c]) : written[c][i] <= sent[c]
      /\ \A i \in 2..Len(written[c]) : Succeeds(c, written[c][i - 1], written[c][i])
      /\ \A i \in 2..Len(q) : Succeeds(c, Number(q[i - 1]), Number(q[i]))
      /\ written[c] # <<>> /\ q # <<>> => Succeeds(c, written[c][Len(written[c])], Number(q[1]))
  BY DEF Chain
<1>l. c \notin full /\ ~Shared(c) /\ ~(written[c] = <<>> /\ q = <<>>) => Latest(c) = sent[c]
  OBVIOUS
<1>2. \A i \in 1..Len(inbox'[c]) : inbox'[c][i] # <<>> /\ Number(inbox'[c][i]) <= sent'[c]
  <2> SUFFICES ASSUME NEW i \in 1..Len(inbox'[c])
               PROVE  inbox'[c][i] # <<>> /\ Number(inbox'[c][i]) <= sent'[c]
    OBVIOUS
  <2>1. CASE i = Len(q) + 1
    BY <1>0, <1>1, <2>1
  <2>2. CASE i \in 1..Len(q)
    <3>1. inbox'[c][i] = q[i] /\ q[i] # <<>>
      BY <1>1, <1>c, <2>2
    <3>2. Number(q[i]) <= sent[c] /\ Number(q[i]) \in Nat
      BY <1>0, <1>c, <2>2
    <3>3. Number(inbox'[c][i]) = Number(q[i])
      BY <3>1
    <3>. QED
      BY <1>0, <3>1, <3>2, <3>3
  <2>. QED
    BY <1>0, <1>1, <2>1, <2>2
<1>3. ASSUME NEW i \in 1..Len(written[c]) PROVE written[c][i] <= sent'[c]
  <2>1. written[c][i] <= sent[c]
    BY <1>c
  <2>2. written[c][i] \in Nat /\ sent[c] \in Nat
    BY <1>0
  <2>. QED
    BY <2>1, <2>2
<1>. HIDE DEF q
<1>4. ASSUME q # <<>> PROVE Succeeds(c, Number(q[Len(q)]), sent[c] + 1)
  <2>. DEFINE m == Number(q[Len(q)])
  <2>1. m <= sent[c] /\ m \in Nat
    BY <1>0, <1>4, <1>c
  <2>2. c \notin full /\ ~Shared(c) => m = sent[c]
    BY <1>4, <1>l DEF Latest, q
  <2>. HIDE DEF m
  <2>3. Succeeds(c, m, sent[c] + 1)
    BY <1>0, <2>1, <2>2 DEF Succeeds
  <2>. QED
    BY <2>3 DEF m
<1>5. ASSUME q = <<>>, written[c] # <<>>
      PROVE  Succeeds(c, written[c][Len(written[c])], sent[c] + 1)
  <2>. DEFINE m == written[c][Len(written[c])]
  <2>1. m <= sent[c] /\ m \in Nat
    BY <1>0, <1>5, <1>c
  <2>2. c \notin full /\ ~Shared(c) => m = sent[c]
    BY <1>5, <1>l DEF Latest, q
  <2>. HIDE DEF m
  <2>3. Succeeds(c, m, sent[c] + 1)
    BY <1>0, <2>1, <2>2 DEF Succeeds
  <2>. QED
    BY <2>3 DEF m
<1>6. ASSUME NEW i \in 2..Len(inbox'[c])
      PROVE  Succeeds(c, Number(inbox'[c][i - 1]), Number(inbox'[c][i]))
  <2>1. CASE i = Len(q) + 1
    <3>1. Len(q) >= 1 /\ i - 1 = Len(q) /\ Len(q) \in 1..Len(q)
      BY <1>0, <2>1
    <3>2. inbox'[c][i - 1] = q[Len(q)] /\ inbox'[c][i] = message
      BY <1>1, <2>1, <3>1
    <3>3. q # <<>>
      BY <3>1
    <3>. QED
      BY <1>4, <3>2, <3>3
  <2>2. CASE i \in 2..Len(q)
    <3>1. i - 1 \in 1..Len(q) /\ i \in 1..Len(q)
      BY <1>0, <2>2
    <3>2. inbox'[c][i - 1] = q[i - 1] /\ inbox'[c][i] = q[i]
      BY <1>1, <3>1
    <3>. QED
      BY <1>c, <2>2, <3>2
  <2>3. i = Len(q) + 1 \/ i \in 2..Len(q)
    BY <1>0, <1>1
  <2>. QED
    BY <2>1, <2>2, <2>3
<1>7. ASSUME written[c] # <<>>
      PROVE  Succeeds(c, written[c][Len(written[c])], Number(inbox'[c][1]))
  <2>1. CASE q = <<>>
    <3>1. inbox'[c][1] = message
      BY <1>1, <2>1
    <3>. QED
      BY <1>5, <1>7, <2>1, <3>1
  <2>2. CASE q # <<>>
    <3>1. inbox'[c][1] = q[1]
      BY <1>0, <1>1, <2>2
    <3>. QED
      BY <1>7, <1>c, <2>2, <3>1
  <2>. QED
    BY <2>1, <2>2
<1>8. Chain(c)'
  BY <1>2, <1>3, <1>6, <1>7, <1>c DEF Chain, Succeeds, Shared, ThreadsOf, Number
<1>9. inbox'[c] # <<>>
  <2>1. Len(inbox'[c]) = Len(q) + 1 /\ Len(q) \in Nat
    BY <1>0, <1>1
  <2>2. Len(<<>>) = 0
    OBVIOUS
  <2>3. Len(inbox'[c]) # Len(<<>>)
    BY <2>1, <2>2
  <2>. QED
    BY <2>3, Zenon
<1>10. Number(inbox'[c][Len(inbox'[c])]) = sent'[c]
  BY <1>1
<1>. QED
  BY <1>8, <1>9, <1>10 DEF Latest, Number

\* Every step keeps SubscriptionInv.
LEMMA NextSubscription == ASSUME TypeOK, SubscriptionInv, [Next]_vars PROVE SubscriptionInv'
<1>. USE DEF SubscriptionInv
<1>1. ASSUME Process \/ ConnectFails, NEW c \in Client PROVE SubscriptionInv'
  <2>1. /\ phase' = phase
        /\ matched' \subseteq matched /\ linked' \subseteq linked
        /\ thread' \notin Dead => matched' = matched /\ linked' = linked
        /\ thread' \in Dead => thread = "starting" \/ (linked' = {} /\ matched' = {})
    BY <1>1, ProcessFacts
  <2>2. thread = "starting" => linked = {}
    BY DEF TypeOK
  <2>3. thread' # "starting"
    BY <1>1 DEF Process, Setup, TakeCommand, TakeLog, ConnectFails, Continue
  <2>. QED
    BY <2>1, <2>2, <2>3
<1>2. ASSUME Client = {} PROVE SubscriptionInv'
  <2>1. linked' = {} /\ matched' = {} /\ connecting' = {}
    BY <1>2, NextType DEF TypeOK
  <2>. QED
    BY <2>1
<1>3. ASSUME NEW c \in Client, Link(c) PROVE SubscriptionInv'
  BY <1>3 DEF Link, threadVars
<1>4. ASSUME NEW c \in Client, Leave(c) PROVE SubscriptionInv'
  <2>1. /\ phase' = [phase EXCEPT ![c] = "gone"] /\ UNCHANGED <<thread, connecting>>
        /\ linked' = linked \ {c} /\ matched' = matched \ {c}
    BY <1>4, LeaveFacts DEF threadVars
  <2>. QED
    BY <2>1 DEF TypeOK
<1>5. ASSUME NEW t \in Thread, SendTopic(t) PROVE SubscriptionInv'
  <2>1. /\ UNCHANGED <<threadVars, phase, linked>>
        /\ matched' \subseteq matched \cup linked
    BY <1>5, TopicFacts
  <2>. QED
    BY <2>1 DEF threadVars
<1>6. ASSUME NEW t \in Thread, SendRecord(t) PROVE SubscriptionInv'
  <2>1. /\ UNCHANGED <<threadVars, phase, linked>> /\ matched' \subseteq matched
    BY <1>6, RecordFacts
  <2>. QED
    BY <2>1 DEF threadVars
<1>7. CASE \/ AddClient \/ AddClientFails \/ Destroy \/ Main
           \/ \E l \in Level : SetLevel(l)
           \/ \E d \in Client : TakeLevel(d)
           \/ \E t \in Thread : Log(t)
           \/ UNCHANGED vars
  <2>1. UNCHANGED <<matched, linked, thread, connecting, phase>>
    BY <1>7 DEF AddClient, AddClientFails, Destroy, Main, SetLevel, SetNext, Confirm,
                TimeOut, SendEnd, Join, CloseContext, TakeLevel, Log, vars, clients, threadVars
  <2>. QED
    BY <2>1
<1>. QED
  BY <1>1, <1>2, <1>3, <1>4, <1>5, <1>6, <1>7 DEF Next

\* A step of the service's thread takes the records in their order.
LEMMA ProcessOrder ==
    ASSUME TypeOK, OrderInv, Process \/ ConnectFails, NEW c \in Client
    PROVE  Chain(c)' /\ (Heard(c) => UpToDate(c))'
<1>1. /\ UNCHANGED <<phase, pc, sent, full>>
      /\ thread' \notin Dead => matched' = matched /\ linked' = linked
      /\ \/ written'[c] = written[c] /\ (inbox'[c] = inbox[c] \/ inbox'[c] = <<>>)
         \/ /\ inbox[c] # <<>> /\ IsRecord(Head(inbox[c]))
            /\ written'[c] = Append(written[c], Head(inbox[c])[2])
            /\ inbox'[c] = Tail(inbox[c]) \/ (inbox'[c] = <<>> /\ thread' \in Dead)
      /\ inbox'[c] = <<>> /\ inbox[c] # <<>> /\ written'[c] = written[c] => thread' \in Dead
  BY ProcessFacts DEF logVars
<1>2. Chain(c) /\ (Heard(c) => UpToDate(c))
  BY DEF OrderInv
<1>3. /\ written[c] \in Seq(Nat \ {0}) /\ inbox[c] \in Seq(Seq(Nat)) /\ sent[c] \in Nat
  BY DEF TypeOK
<1>4. thread' \notin Dead => thread \notin Dead
  BY DEF Process, Setup, TakeCommand, TakeLog, ConnectFails, Dead
<1>5. CASE written'[c] = written[c] /\ inbox'[c] = inbox[c]
  <2>1. Chain(c)'
    BY <1>1, <1>2, <1>3, <1>5, ChainKept
  <2>. QED
    BY <1>1, <1>2, <1>4, <1>5, <2>1
       DEF Heard, UpToDate, Latest, Number, Shared, ThreadsOf
<1>6. CASE written'[c] = written[c] /\ inbox'[c] = <<>> /\ inbox[c] # <<>>
  <2>1. Chain(c)'
    <3>1. 0 \in 0..Len(inbox[c]) /\ Len(inbox'[c]) = 0
      BY <1>3, <1>6
    <3>. QED
      BY <1>1, <1>2, <1>6, <3>1, ChainCut
  <2>. QED
    BY <1>1, <1>6, <2>1 DEF Heard
<1>7. CASE /\ inbox[c] # <<>> /\ IsRecord(Head(inbox[c]))
           /\ written'[c] = Append(written[c], Head(inbox[c])[2])
           /\ inbox'[c] = Tail(inbox[c]) \/ (inbox'[c] = <<>> /\ thread' \in Dead)
  <2>1. Chain(c)'
    BY <1>1, <1>2, <1>7, ChainTake
  <2>2. CASE thread' \in Dead
    BY <2>1, <2>2 DEF Heard
  <2>3. CASE thread' \notin Dead
    <3>1. inbox'[c] = Tail(inbox[c])
      BY <1>7, <2>3
    <3>2. /\ Len(inbox'[c]) = Len(inbox[c]) - 1 /\ Len(inbox[c]) \in Nat \ {0}
          /\ \A i \in 1..(Len(inbox[c]) - 1) : inbox'[c][i] = inbox[c][i + 1]
          /\ Head(inbox[c]) = inbox[c][1] /\ Head(inbox[c]) \in Seq(Nat)
      BY <1>3, <1>7, <3>1, RestOf
    <3>3. Latest(c)' = Latest(c)
      <4>1. CASE inbox'[c] = <<>>
        <5>1. Len(inbox[c]) = 1
          BY <3>2, <4>1
        <5>2. Latest(c) = Head(inbox[c])[2]
          BY <1>7, <3>2, <5>1, RecordNumber DEF Latest, Number
        <5>3. Head(inbox[c])[2] \in Nat \ {0}
          BY <1>7, <3>2, RecordNumber
        <5>4. written'[c][Len(written'[c])] = Head(inbox[c])[2]
          BY <1>3, <1>7, <5>3, AppendedNumber
        <5>. QED
          BY <4>1, <5>2, <5>4 DEF Latest, Number
      <4>2. CASE inbox'[c] # <<>>
        <5>1. Len(inbox'[c]) > 0
          BY <1>3, <1>7, <3>1, <3>2, <4>2
        <5>2. inbox'[c][Len(inbox'[c])] = inbox[c][Len(inbox[c])]
          BY <3>2, <5>1
        <5>. QED
          BY <1>7, <4>2, <5>2 DEF Latest, Number
      <4>. QED
        BY <4>1, <4>2
    <3>4. Heard(c)' => Heard(c)
      BY <1>1, <1>4, <1>7 DEF Heard, Shared, ThreadsOf
    <3>. QED
      BY <1>1, <1>2, <2>1, <2>3, <3>3, <3>4 DEF UpToDate, ThreadsOf
  <2>. QED
    BY <2>2, <2>3
<1>. QED
  BY <1>1, <1>5, <1>6, <1>7

\* What a client that leaves had sent is cut off at some message.
LEMMA LeaveOrder ==
    ASSUME TypeOK, OrderInv, NEW d \in Client, Leave(d), NEW c \in Client
    PROVE  Chain(c)' /\ (Heard(c) => UpToDate(c))'
<1>1. Chain(c) /\ (Heard(c) => UpToDate(c))
  BY DEF OrderInv
<1>2. /\ UNCHANGED <<threadVars, sent, full>>
      /\ phase' = [phase EXCEPT ![d] = "gone"]
      /\ linked' = linked \ {d} /\ matched' = matched \ {d}
      /\ pc' = [t \in Thread |-> IF Owner[t] = d THEN "out" ELSE pc[t]]
      /\ \E k \in 0..Len(inbox[d]) : inbox' = [inbox EXCEPT ![d] = SubSeq(inbox[d], 1, k)]
  BY LeaveFacts
<1>3. inbox[c] \in Seq(Seq(Nat)) /\ sent[c] \in Nat
  BY DEF TypeOK
<1>4. CASE c = d
  <2>1. PICK k \in 0..Len(inbox[c]) : inbox'[c] = SubSeq(inbox[c], 1, k)
    BY <1>2, <1>4 DEF TypeOK
  <2>2. /\ Len(inbox'[c]) = k /\ \A i \in 1..k : inbox'[c][i] = inbox[c][i]
    BY <1>3, <2>1, FirstOf
  <2>3. k = 0 => inbox'[c] = <<>>
    BY <1>3, <2>1
  <2>4. Chain(c)'
    BY <1>1, <1>2, <2>2, <2>3, ChainCut DEF threadVars
  <2>5. phase'[c] = "gone"
    BY <1>2, <1>4 DEF TypeOK
  <2>. QED
    BY <2>4, <2>5 DEF Heard
<1>5. CASE c # d
  <2>1. /\ inbox'[c] = inbox[c] /\ phase'[c] = phase[c]
        /\ c \in linked' <=> c \in linked
        /\ c \in matched' <=> c \in matched
        /\ \A t \in ThreadsOf(c) : pc'[t] = pc[t]
        /\ UNCHANGED <<written, sent, full, thread>>
    BY <1>2, <1>5 DEF TypeOK, ThreadsOf, threadVars
  <2>2. Chain(c)'
    BY <1>1, <1>3, <2>1, ChainKept
  <2>. QED
    BY <1>1, <2>1, <2>2 DEF Heard, UpToDate, Latest, Number, Shared, ThreadsOf
<1>. QED
  BY <1>4, <1>5

\* A topic that follows what has been heard goes to the service.
LEMMA TopicOrder ==
    ASSUME TypeOK, PairInv, OrderInv, NEW t \in Thread, SendTopic(t), NEW c \in Client
    PROVE  Chain(c)' /\ (Heard(c) => UpToDate(c))'
<1>. DEFINE d == Owner[t]
<1>1. Chain(c) /\ (Heard(c) => UpToDate(c))
  BY DEF OrderInv
<1>2. /\ d \in Client /\ pc[t] = "topic" /\ pc' = [pc EXCEPT ![t] = "record"]
      /\ UNCHANGED <<threadVars, phase, linked, sent, inbox>>
      /\ full \subseteq full'
      /\ matched \subseteq matched' \cup {d}
      /\ parts[d] = <<>> /\ d \in linked /\ d \notin full' => d \in matched'
  BY TopicFacts
<1>3. UNCHANGED <<written, thread>> /\ sent'[c] \in Nat /\ sent'[c] >= sent[c]
  BY <1>2 DEF threadVars, TypeOK
<1>4. Chain(c)'
  BY <1>1, <1>2, <1>3, ChainKept
<1>5. Heard(c)' => Heard(c)
  BY <1>2, <1>3 DEF Heard, Shared, ThreadsOf
<1>6. Latest(c)' = Latest(c)
  BY <1>2, <1>3 DEF Latest, Number
<1>7. ASSUME Heard(c)', NEW u \in ThreadsOf(c), pc'[u] = "record" PROVE c \in matched'
  <2>1. Heard(c) /\ UpToDate(c)
    BY <1>1, <1>5, <1>7
  <2>2. CASE c = d
    <3>1. t \in ThreadsOf(c) /\ ~Shared(c) /\ c \notin full'
      BY <1>7, <2>2 DEF Heard, Shared, ThreadsOf
    <3>2. parts[c] = <<>>
      BY <1>2, <3>1 DEF PairInv, Paired
    <3>. QED
      BY <1>2, <2>1, <2>2, <3>1, <3>2 DEF UpToDate
  <2>3. CASE c # d
    <3>1. pc'[u] = pc[u]
      BY <1>2, <2>3 DEF TypeOK, ThreadsOf
    <3>. QED
      BY <1>2, <1>7, <2>1, <2>3, <3>1 DEF UpToDate
  <2>. QED
    BY <2>2, <2>3
<1>8. Heard(c)' => UpToDate(c)'
  BY <1>1, <1>2, <1>5, <1>6, <1>7 DEF UpToDate, ThreadsOf
<1>. QED
  BY <1>4, <1>8

\* A record that follows what has been heard is queued.
LEMMA RecordOrder ==
    ASSUME TypeOK, PairInv, OrderInv, NEW t \in Thread, SendRecord(t), NEW c \in Client
    PROVE  Chain(c)' /\ (Heard(c) => UpToDate(c))'
<1>. DEFINE d == Owner[t]
<1>1. Chain(c) /\ (Heard(c) => UpToDate(c))
  BY DEF OrderInv
<1>2. /\ d \in Client /\ pc[t] = "record" /\ pc' = [pc EXCEPT ![t] = "out"]
      /\ sent' = [sent EXCEPT ![d] = sent[d] + 1]
      /\ UNCHANGED <<threadVars, phase, linked, full>>
      /\ \A e \in Client \ {d} : e \in matched => e \in matched'
      /\ \/ inbox' = inbox /\ (parts[d] = <<>> \/ d \notin matched)
         \/ /\ d \in matched
            /\ inbox' = [inbox EXCEPT ![d] =
                            Append(inbox[d], Append(parts[d], sent[d] + 1))]
  BY RecordFacts
<1>3. UNCHANGED <<written, thread>> /\ sent[c] \in Nat
  BY <1>2 DEF threadVars, TypeOK
<1>4. CASE c # d
  <2>1. /\ sent'[c] = sent[c] /\ inbox'[c] = inbox[c]
        /\ c \in matched => c \in matched'
        /\ \A u \in ThreadsOf(c) : pc'[u] = pc[u]
    BY <1>2, <1>4 DEF TypeOK, ThreadsOf
  <2>2. Chain(c)'
    BY <1>1, <1>2, <1>3, <2>1, ChainKept
  <2>. QED
    BY <1>1, <1>2, <1>3, <2>1, <2>2
       DEF Heard, UpToDate, Latest, Number, Shared, ThreadsOf
<1>5. CASE c = d /\ inbox' = inbox /\ (parts[c] = <<>> \/ c \notin matched)
  <2>1. sent'[c] \in Nat /\ sent'[c] >= sent[c]
    BY <1>2, <1>3, <1>5 DEF TypeOK
  <2>2. Chain(c)'
    BY <1>1, <1>2, <1>3, <1>5, <2>1, ChainKept
  <2>3. ASSUME Heard(c)' PROVE FALSE
    <3>1. Heard(c)
      BY <1>2, <1>3, <1>5, <2>3 DEF Heard, Shared, ThreadsOf
    <3>2. t \in ThreadsOf(c) /\ ~Shared(c)
      BY <1>5, <3>1 DEF Heard, ThreadsOf
    <3>3. c \in matched
      BY <1>1, <1>2, <3>1, <3>2 DEF UpToDate
    <3>4. parts[c] = <<Topic>>
      BY <1>2, <3>2 DEF PairInv, Paired
    <3>. QED
      BY <1>5, <3>3, <3>4
  <2>. QED
    BY <2>2, <2>3
<1>6. CASE /\ c = d /\ c \in matched
           /\ inbox' = [inbox EXCEPT ![c] = Append(inbox[c], Append(parts[c], sent[c] + 1))]
  <2>. DEFINE message == Append(parts[c], sent[c] + 1)
  <2>1. parts[c] \in Seq(Nat) /\ sent[c] + 1 \in Nat
    BY <1>3 DEF TypeOK
  <2>2. message \in Seq(Nat) /\ message # <<>> /\ Number(message) = sent[c] + 1
    <3>1. /\ message \in Seq(Nat) /\ Len(message) = Len(parts[c]) + 1
          /\ message[Len(parts[c]) + 1] = sent[c] + 1
      BY <2>1, AppendProperties
    <3>2. Len(parts[c]) \in Nat /\ Len(<<>>) = 0
      BY <2>1
    <3>. HIDE DEF message
    <3>3. Len(message) # Len(<<>>)
      BY <3>1, <3>2
    <3>4. message # <<>>
      BY <3>3, Zenon
    <3>. QED
      BY <3>1, <3>4 DEF Number
  <2>. HIDE DEF message
  <2>3. inbox'[c] = Append(inbox[c], message) /\ sent'[c] = sent[c] + 1
    BY <1>2, <1>6 DEF TypeOK, message
  <2>4. c \in linked /\ phase[c] = "up" /\ thread \notin Dead
    BY <1>6 DEF OrderInv, SubscriptionInv
  <2>5. c \notin full /\ ~Shared(c) => Heard(c) \/ (written[c] = <<>> /\ inbox[c] = <<>>)
    BY <2>4 DEF Heard
  <2>6. Heard(c) => Latest(c) = sent[c]
    BY <1>1 DEF UpToDate
  <2>7. Chain(c)' /\ inbox'[c] # <<>> /\ Latest(c)' = sent'[c]
    BY <1>1, <1>2, <1>3, <2>2, <2>3, <2>5, <2>6, ChainSend
  <2>8. ASSUME Heard(c)', NEW u \in ThreadsOf(c), pc'[u] = "record" PROVE c \in matched'
    <3>1. t \in ThreadsOf(c) /\ ~Shared(c)
      BY <1>6, <2>8 DEF Heard, Shared, ThreadsOf
    <3>2. u = t /\ pc'[t] = "out"
      BY <1>2, <3>1 DEF Shared, TypeOK
    <3>. QED
      BY <2>8, <3>2
  <2>. QED
    BY <1>2, <2>4, <2>7, <2>8 DEF UpToDate, ThreadsOf
<1>. QED
  BY <1>2, <1>4, <1>5, <1>6

\* Every step keeps OrderInv.
LEMMA NextOrder == ASSUME TypeOK, PairInv, OrderInv, [Next]_vars PROVE OrderInv'
<1>1. SubscriptionInv'
  BY NextSubscription DEF OrderInv
<1> SUFFICES ASSUME NEW c \in Client PROVE Chain(c)' /\ (Heard(c) => UpToDate(c))'
  BY <1>1 DEF OrderInv
<1>2. CASE Process \/ ConnectFails
  BY <1>2, ProcessOrder
<1>3. ASSUME NEW d \in Client, Leave(d) PROVE Chain(c)' /\ (Heard(c) => UpToDate(c))'
  BY <1>3, LeaveOrder
<1>4. ASSUME NEW t \in Thread, SendTopic(t) PROVE Chain(c)' /\ (Heard(c) => UpToDate(c))'
  BY <1>4, TopicOrder
<1>5. ASSUME NEW t \in Thread, SendRecord(t) PROVE Chain(c)' /\ (Heard(c) => UpToDate(c))'
  BY <1>5, RecordOrder
<1>6. CASE \/ AddClient \/ AddClientFails \/ Destroy \/ Main
           \/ \E l \in Level : SetLevel(l)
           \/ \E d \in Client : TakeLevel(d) \/ Link(d)
           \/ \E t \in Thread : Log(t)
           \/ UNCHANGED vars
  <2>1. /\ UNCHANGED <<inbox, matched, phase, sent, full, thread, written>>
        /\ linked \subseteq linked'
        /\ \A u \in Thread : pc'[u] = "record" => pc[u] = "record"
    BY <1>6 DEF AddClient, AddClientFails, Destroy, Main, SetLevel, SetNext, Confirm,
                TimeOut, SendEnd, Join, CloseContext, TakeLevel, Link, Log, vars, clients,
                logVars, threadVars, TypeOK
  <2>2. Chain(c) /\ (Heard(c) => UpToDate(c)) /\ sent[c] \in Nat
    BY DEF OrderInv, TypeOK
  <2>3. Chain(c)'
    BY <2>1, <2>2, ChainKept
  <2>4. Heard(c)' => Heard(c)
    BY <2>1 DEF Heard, Shared, ThreadsOf
  <2>. QED
    BY <2>1, <2>2, <2>3, <2>4 DEF UpToDate, Latest, Number, ThreadsOf
<1>. QED
  BY <1>2, <1>3, <1>4, <1>5, <1>6 DEF Next

\* Initially nothing is written, queued or subscribed to.
LEMMA InitOrder == Init => OrderInv
<1> SUFFICES ASSUME Init PROVE OrderInv
  OBVIOUS
<1>1. /\ thread = "starting" /\ connecting = {} /\ linked = {} /\ matched = {}
      /\ \A c \in Client : written[c] = <<>> /\ inbox[c] = <<>>
  BY DEF Init, ServiceInit, ClientsInit
<1>. QED
  BY <1>1 DEF OrderInv, SubscriptionInv, Dead, Chain, Heard

\* The records of a client are written in the order they were sent, each once, and
\* without a gap unless its queue was full or several threads log with it.
THEOREM OrderIsKept == Spec => []RecordsInOrder
<1>1. TypeOK /\ PairInv /\ OrderInv /\ [Next]_vars => (TypeOK /\ PairInv /\ OrderInv)'
  BY NextType, NextPair, NextOrder
<1>2. TypeOK /\ OrderInv => RecordsInOrder
  <2> SUFFICES ASSUME TypeOK, OrderInv, NEW c \in Client, NEW i \in 2..Len(written[c])
               PROVE  IF c \in full \/ Shared(c) THEN written[c][i] > written[c][i - 1]
                      ELSE written[c][i] = written[c][i - 1] + 1
    BY DEF RecordsInOrder
  <2>1. Succeeds(c, written[c][i - 1], written[c][i])
    BY DEF OrderInv, Chain
  <2>. QED
    BY <2>1 DEF Succeeds
<1>. QED
  BY <1>1, <1>2, InitType, InitPair, InitOrder, PTL DEF Spec
================================================================================
