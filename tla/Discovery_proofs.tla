---------------------------- MODULE Discovery_proofs ----------------------------
(***************************************************************************)
(* Proofs about Discovery for every number of tiers, testpoints, clients   *)
(* and topics: its types, that no answer is taken for another, that every  *)
(* answer is fresh, and that only what is silent is missing from it.       *)
(***************************************************************************)
EXTENDS Discovery, TLAPS

\* A process that is down has nothing added.
DownInv == \A n \in Node : ~up[n] => added[n] = 0

\* What is offered while a client waits it may be answered, and so may what the brokers
\* that work for it have got: those of a set that is closed under working for each other.
FreshOf(c) ==
    /\ client[c].state = "waiting" =>
          /\ \A n \in Controller : Offered(n) \subseteq client[c].may
          /\ \E S \in SUBSET Broker :
                /\ \A b \in Broker : serving[b] \in S \cup {c} => b \in S
                /\ \A b \in S : progress[b].names \subseteq client[c].may
    /\ client[c].state = "answered" => client[c].answer \subseteq client[c].may

FreshInv == \A c \in Client : FreshOf(c)

\* The askers of the requests at a testpoint await its answer, each of one request.
ReachInv ==
    \A a \in Asker :
        /\ \A n \in Node : a \in waiting[n] => Awaits(a, n)
        /\ \A b \in Broker : serving[b] = a => Awaits(a, b) /\ a \notin waiting[b]

-----------------------------------------------------------------------------
(* Types, and what the parts of the actions change.                        *)

ClientRecord ==
    [state : {"idle", "waiting", "answered"}, answer : SUBSET Topic, due : SUBSET Topic,
     may : SUBSET Topic]
Progress == [next : Nat \ {0}, asked : BOOLEAN, names : SUBSET Topic]

LEMMA Names ==
    /\ \A b \in Broker : b \in Node /\ b \in Asker /\ b \notin Controller /\ b \notin Client
    /\ \A c \in Client : c \in Asker /\ c \notin Node
    /\ \A a \in Asker : a # Nobody /\ a # Idle
    /\ Nobody # Idle
BY NamesAssumption DEF Node, Asker

\* What a controller offers.
LEMMA OfferedType ==
    ASSUME TypeOK, NEW n \in Controller
    PROVE  Offered(n) \subseteq Topic
<1>1. n \in Node /\ added[n] \in Nat /\ added[n] <= Len(ProbeTopics[n])
  BY DEF Node, TypeOK
<1>2. ProbeTopics[n] \in Seq(SUBSET Topic)
  BY ProbesAssumption
<1>3. \A i \in 1..added[n] : ProbeTopics[n][i] \subseteq Topic
  <2>1. \A i \in 1..added[n] : i \in 1..Len(ProbeTopics[n])
    BY <1>1, <1>2
  <2>. QED
    BY <1>2, <2>1
<1>. QED
  BY <1>3 DEF Offered, TopicsOf

LEMMA PresentType ==
    ASSUME TypeOK, NEW n
    PROVE  Present(n) \subseteq Topic
BY OfferedType DEF Present

\* The remote whose turn it is.
LEMMA CurrentType ==
    ASSUME TypeOK, NEW b \in Broker, InLoop(b)
    PROVE  /\ Current(b) \in Node /\ progress[b].next \in 1..added[b]
           /\ progress[b].next \in DOMAIN Remote[b]
<1>1. /\ Remote[b] \in Seq(Node) /\ b \in Node
  BY RemoteAssumption, Names
<1>2. /\ progress[b].next \in Nat \ {0} /\ progress[b].next <= added[b]
      /\ added[b] <= Len(Remote[b]) /\ added[b] \in Nat
  BY <1>1 DEF TypeOK, InLoop
<1>. QED
  BY <1>1, <1>2 DEF Current

LEMMA AbandonFacts ==
    ASSUME TypeOK, NEW a \in Asker, NEW n \in Node, Abandon(a, n)
    PROVE  /\ waiting' \in [Node -> SUBSET Asker] /\ orphans' \in [Node -> Nat]
           /\ serving' \in [Broker -> Asker \cup {Nobody, Idle}]
           /\ \A m \in Node : waiting'[m] = IF m = n THEN waiting[m] \ {a} ELSE waiting[m]
           /\ \A b \in Broker : serving'[b] = IF b = n /\ serving[b] = a THEN Nobody
                                              ELSE serving[b]
<1>1. /\ waiting \in [Node -> SUBSET Asker] /\ orphans \in [Node -> Nat]
      /\ serving \in [Broker -> Asker \cup {Nobody, Idle}]
  BY DEF TypeOK
<1>2. /\ waiting' = [waiting EXCEPT ![n] = @ \ {a}]
      /\ orphans' = [orphans EXCEPT ![n] = IF a \in waiting[n] THEN @ + 1 ELSE @]
      /\ serving' = [b \in Broker |-> IF b = n /\ serving[b] = a THEN Nobody ELSE serving[b]]
  BY DEF Abandon
<1>3. orphans' \in [Node -> Nat]
  BY <1>1, <1>2
<1>4. waiting' \in [Node -> SUBSET Asker]
  BY <1>1, <1>2
<1>5. \A m \in Node : waiting'[m] = IF m = n THEN waiting[m] \ {a} ELSE waiting[m]
  BY <1>1, <1>2
<1>. QED
  BY <1>1, <1>2, <1>3, <1>4, <1>5

LEMMA DequeueFacts ==
    ASSUME TypeOK, NEW a \in Asker \cup {Nobody}, NEW n \in Node, Dequeue(n, a)
    PROVE  /\ waiting' \in [Node -> SUBSET Asker] /\ orphans' \in [Node -> Nat]
           /\ \A m \in Node : waiting'[m] = IF m = n THEN waiting[m] \ {a} ELSE waiting[m]
           /\ a \in Asker => a \in waiting[n]
<1>1. /\ Nobody \notin Asker
      /\ waiting \in [Node -> SUBSET Asker] /\ orphans \in [Node -> Nat]
  BY Names DEF TypeOK
<1>2. CASE a = Nobody
  <2>1. /\ orphans[n] > 0 /\ orphans' = [orphans EXCEPT ![n] = @ - 1]
        /\ waiting' = waiting
    BY <1>2 DEF Dequeue
  <2>. QED
    BY <1>1, <1>2, <2>1
<1>3. CASE a # Nobody
  <2>1. a \in waiting[n] /\ waiting' = [waiting EXCEPT ![n] = @ \ {a}] /\ orphans' = orphans
    BY <1>3 DEF Dequeue
  <2>. QED
    BY <1>1, <1>3, <2>1
<1>. QED
  BY <1>2, <1>3

LEMMA DeliverFacts ==
    ASSUME TypeOK, NEW a \in Asker \cup {Nobody}, NEW names \in SUBSET Topic,
           Deliver(a, names)
    PROVE  /\ progress' \in [Broker -> Progress] /\ client' \in [Client -> ClientRecord]
           /\ \A b \in Broker : b # a => progress'[b] = progress[b]
           /\ \A b \in Broker : b = a =>
                 /\ progress'[b].next = progress[b].next + 1 /\ progress'[b].asked = FALSE
                 /\ progress'[b].names = Union(progress[b].names, names)
           /\ \A c \in Client : c # a => client'[c] = client[c]
           /\ \A c \in Client : c = a =>
                 /\ client'[c].state = "answered" /\ client'[c].answer = names
                 /\ client'[c].due = client[c].due /\ client'[c].may = client[c].may
<1>1. /\ \A b \in Broker : progress[b] \in Progress
      /\ \A c \in Client : client[c] \in ClientRecord
  BY DEF TypeOK, Progress, ClientRecord
<1>. DEFINE P(b) == [next |-> progress[b].next + 1, asked |-> FALSE,
                     names |-> Union(progress[b].names, names)]
            C(c) == [client[c] EXCEPT !.state = "answered", !.answer = names]
<1>2. /\ progress' = [b \in Broker |-> IF b = a THEN P(b) ELSE progress[b]]
      /\ client' = [c \in Client |-> IF c = a THEN C(c) ELSE client[c]]
  BY DEF Deliver
<1>3. \A b \in Broker : P(b) \in Progress
  BY <1>1 DEF Progress, Union
<1>4. \A c \in Client : C(c) \in ClientRecord /\ C(c).state = "answered"
                        /\ C(c).answer = names /\ C(c).due = client[c].due
                        /\ C(c).may = client[c].may
  BY <1>1 DEF ClientRecord
<1>5. \A b \in Broker : P(b).next = progress[b].next + 1 /\ P(b).asked = FALSE
                        /\ P(b).names = Union(progress[b].names, names)
  OBVIOUS
<1>. HIDE DEF P, C
<1>. QED
  BY <1>1, <1>2, <1>3, <1>4, <1>5

LEMMA MissedFacts ==
    ASSUME TypeOK, NEW b, NEW n, client' = Missed(b, n)
    PROVE  /\ client' \in [Client -> ClientRecord]
           /\ \A c \in Client :
                 /\ client'[c].state = client[c].state /\ client'[c].answer = client[c].answer
                 /\ client'[c].may = client[c].may
                 /\ client'[c].due = IF b \in WorkFor(c) THEN client[c].due \ Below[n]
                                     ELSE client[c].due
<1>1. \A c \in Client : client[c] \in ClientRecord
  BY DEF TypeOK, ClientRecord
<1>. DEFINE C(c) == [client[c] EXCEPT !.due = @ \ Below[n]]
<1>2. client' = [c \in Client |-> IF b \in WorkFor(c) THEN C(c) ELSE client[c]]
  BY DEF Missed
<1>3. \A c \in Client : C(c) \in ClientRecord /\ C(c).state = client[c].state
                        /\ C(c).answer = client[c].answer /\ C(c).may = client[c].may
                        /\ C(c).due = client[c].due \ Below[n]
  BY <1>1 DEF ClientRecord
<1>. HIDE DEF C
<1>. QED
  BY <1>1, <1>2, <1>3

\* The loop of a broker goes on.
LEMMA LoopFacts ==
    ASSUME TypeOK, NEW b \in Broker, GiveUp(b) \/ AskFails(b)
    PROVE  /\ progress' \in [Broker -> Progress]
           /\ \A k \in Broker : k # b => progress'[k] = progress[k]
           /\ progress'[b].next = progress[b].next + 1 /\ ~progress'[b].asked
           /\ progress'[b].names = progress[b].names
           /\ InLoop(b) /\ UNCHANGED <<up, added>> /\ client' = Missed(b, Current(b))
<1>1. progress \in [Broker -> Progress]
  BY DEF TypeOK, Progress
<1>2. CASE GiveUp(b)
  BY <1>1, <1>2 DEF GiveUp, NextRemote, Progress
<1>3. CASE AskFails(b)
  BY <1>1, <1>3 DEF AskFails, NextRemote, Progress
<1>. QED
  BY <1>2, <1>3

LEMMA CrashFacts ==
    ASSUME TypeOK, NEW n \in Node, Crash(n)
    PROVE  LET asks(m) == n \in Broker /\ InLoop(n) /\ progress[n].asked /\ m = Current(n)
           IN  /\ up' = [up EXCEPT ![n] = FALSE] /\ added' = [added EXCEPT ![n] = 0]
               /\ progress' = progress
               /\ waiting' \in [Node -> SUBSET Asker]
               /\ \A m \in Node : /\ waiting'[m] \subseteq waiting[m]
                                  /\ asks(m) => n \notin waiting'[m]
                                  /\ m # n => \A a \in waiting[m] \ {n} : a \in waiting'[m]
               /\ orphans' \in [Node -> Nat]
               /\ serving' \in [Broker -> Asker \cup {Nobody, Idle}]
               /\ \A b \in Broker : serving'[b] = IF b = n THEN Idle
                                                  ELSE IF asks(b) /\ serving[b] = n THEN Nobody
                                                  ELSE serving[b]
               /\ client' \in [Client -> ClientRecord]
               /\ \A c \in Client :
                     /\ client'[c].state = client[c].state
                     /\ client'[c].answer = client[c].answer
                     /\ client'[c].may = client[c].may
                     /\ client'[c].due = client[c].due \ Below[n]
<1>. DEFINE asks(m) == n \in Broker /\ InLoop(n) /\ progress[n].asked /\ m = Current(n)
<1>1. PICK kept \in SUBSET waiting[n] :
         waiting' = [m \in Node |-> (IF m = n THEN kept ELSE waiting[m])
                                        \ (IF asks(m) THEN {n} ELSE {})]
  BY DEF Crash
<1>2. PICK k \in 0..orphans[n], left \in {0, 1} :
         orphans' = [m \in Node |-> IF m = n THEN k
                                    ELSE IF asks(m) /\ n \in waiting[m] THEN orphans[m] + left
                                    ELSE orphans[m]]
  BY DEF Crash
<1>3. serving' = [b \in Broker |-> IF b = n THEN Idle
                                   ELSE IF asks(b) /\ serving[b] = n THEN Nobody
                                   ELSE serving[b]]
  BY DEF Crash
<1>. HIDE DEF asks
<1>4. /\ waiting' \in [Node -> SUBSET Asker]
      /\ \A m \in Node : /\ waiting'[m] \subseteq waiting[m]
                         /\ asks(m) => n \notin waiting'[m]
                         /\ m # n => \A a \in waiting[m] \ {n} : a \in waiting'[m]
  <2>1. waiting \in [Node -> SUBSET Asker]
    BY DEF TypeOK
  <2>. QED
    BY <1>1, <2>1
<1>5. orphans' \in [Node -> Nat]
  BY <1>2 DEF TypeOK
<1>6. /\ serving' \in [Broker -> Asker \cup {Nobody, Idle}]
      /\ \A b \in Broker : serving'[b] = IF b = n THEN Idle
                                         ELSE IF asks(b) /\ serving[b] = n THEN Nobody
                                         ELSE serving[b]
  BY <1>3 DEF TypeOK
<1>7. \A c \in Client : client[c] \in ClientRecord
  BY DEF TypeOK, ClientRecord
<1>8. client' = [c \in Client |-> [client[c] EXCEPT !.due = @ \ Below[n]]]
  BY DEF Crash
<1>9. /\ client' \in [Client -> ClientRecord]
      /\ \A c \in Client :
             /\ client'[c].state = client[c].state /\ client'[c].answer = client[c].answer
             /\ client'[c].may = client[c].may /\ client'[c].due = client[c].due \ Below[n]
  BY <1>7, <1>8 DEF ClientRecord
<1>10. /\ up' = [up EXCEPT ![n] = FALSE] /\ added' = [added EXCEPT ![n] = 0]
       /\ progress' = progress
  BY DEF Crash
<1>. QED
  BY <1>4, <1>5, <1>6, <1>9, <1>10 DEF asks

LEMMA SendFacts ==
    ASSUME TypeOK, NEW a \in Asker, NEW n \in Node, Send(a, n)
    PROVE  /\ waiting' \in [Node -> SUBSET Asker]
           /\ \A m \in Node : waiting'[m] = IF m = n THEN waiting[m] \cup {a} ELSE waiting[m]
BY DEF Send, TypeOK

LEMMA AsksFacts ==
    ASSUME TypeOK, NEW c \in Client, ClientAsks(c)
    PROVE  /\ client[c].state # "waiting" /\ Entry[c] \in Node /\ Send(c, Entry[c])
           /\ client' \in [Client -> ClientRecord]
           /\ \A d \in Client : d # c => client'[d] = client[d]
           /\ client'[c].state = "waiting" /\ client'[c].due = Present(Entry[c])
           /\ client'[c].may = UNION {Offered(n) : n \in Controller}
           /\ UNCHANGED <<up, added, serving, progress, orphans, crashes>>
<1>1. Entry[c] \in Node
  BY EntryAssumption
<1>2. UNION {Offered(n) : n \in Controller} \subseteq Topic /\ Present(Entry[c]) \subseteq Topic
  BY OfferedType, PresentType
<1>. DEFINE new == [state |-> "waiting", answer |-> {}, due |-> Present(Entry[c]),
                    may |-> UNION {Offered(n) : n \in Controller}]
<1>3. new \in ClientRecord
  BY <1>2 DEF ClientRecord
<1>4. /\ new.state = "waiting" /\ new.due = Present(Entry[c])
      /\ new.may = UNION {Offered(n) : n \in Controller}
  OBVIOUS
<1>5. client' = [client EXCEPT ![c] = new]
  BY DEF ClientAsks
<1>. HIDE DEF new
<1>6. client \in [Client -> ClientRecord]
  BY DEF TypeOK, ClientRecord
<1>7. /\ client' \in [Client -> ClientRecord] /\ client'[c] = new
      /\ \A d \in Client : d # c => client'[d] = client[d]
  BY <1>3, <1>5, <1>6
<1>. QED
  BY <1>1, <1>4, <1>7 DEF ClientAsks

LEMMA QuitsFacts ==
    ASSUME TypeOK, NEW c \in Client, ClientQuits(c)
    PROVE  /\ Entry[c] \in Node /\ Abandon(c, Entry[c]) /\ client[c].state = "waiting"
           /\ client' \in [Client -> ClientRecord]
           /\ \A d \in Client : d # c => client'[d] = client[d]
           /\ client'[c].state = "idle"
           /\ UNCHANGED <<up, added, progress>>
<1>1. Entry[c] \in Node
  BY EntryAssumption
<1>2. client \in [Client -> ClientRecord]
  BY DEF TypeOK, ClientRecord
<1>3. /\ client' \in [Client -> ClientRecord]
      /\ \A d \in Client : d # c => client'[d] = client[d]
      /\ client'[c].state = "idle"
  BY <1>2 DEF ClientQuits, ClientRecord
<1>. QED
  BY <1>1, <1>3 DEF ClientQuits

LEMMA AddProbeFacts ==
    ASSUME TypeOK, NEW n \in Controller, AddProbe(n)
    PROVE  /\ up[n] /\ added[n] \in Nat /\ added[n] + 1 <= Len(ProbeTopics[n])
           /\ added' \in [Node -> Nat]
           /\ added'[n] = added[n] + 1 /\ \A m \in Node : m # n => added'[m] = added[m]
           /\ client' \in [Client -> ClientRecord]
           /\ \A c \in Client :
                 /\ client'[c].state = client[c].state /\ client'[c].answer = client[c].answer
                 /\ client'[c].due = client[c].due /\ client[c].may \subseteq client'[c].may
                 /\ client[c].state = "waiting" =>
                       client'[c].may = client[c].may \cup ProbeTopics[n][added[n] + 1]
           /\ UNCHANGED <<up, waiting, orphans, serving, progress>>
<1>1. /\ n \in Node /\ added \in [Node -> Nat]
      /\ ProbeTopics[n] \in Seq(SUBSET Topic) /\ Len(ProbeTopics[n]) \in Nat
  BY ProbesAssumption DEF Node, TypeOK
<1>2. /\ up[n] /\ added[n] < Len(ProbeTopics[n])
      /\ added' = [added EXCEPT ![n] = @ + 1]
      /\ UNCHANGED <<up, waiting, orphans, serving, progress>>
  BY DEF AddProbe
<1>3. /\ added' \in [Node -> Nat] /\ added'[n] = added[n] + 1
      /\ \A m \in Node : m # n => added'[m] = added[m]
  BY <1>1, <1>2
<1>4. ProbeTopics[n][added[n] + 1] \subseteq Topic
  <2>1. added[n] + 1 \in 1..Len(ProbeTopics[n])
    BY <1>1, <1>2
  <2>. QED
    BY <1>1, <2>1
<1>5. \A c \in Client : client[c] \in ClientRecord
  BY DEF TypeOK, ClientRecord
<1>. DEFINE names == ProbeTopics[n][added[n] + 1]
<1>6. client' = [c \in Client |-> IF client[c].state = "waiting"
                                  THEN [client[c] EXCEPT !.may = @ \cup names]
                                  ELSE client[c]]
  BY <1>3 DEF AddProbe
<1>. HIDE DEF names
<1>7. /\ client' \in [Client -> ClientRecord]
      /\ \A c \in Client :
            /\ client'[c].state = client[c].state /\ client'[c].answer = client[c].answer
            /\ client'[c].due = client[c].due /\ client[c].may \subseteq client'[c].may
            /\ client[c].state = "waiting" => client'[c].may = client[c].may \cup names
  BY <1>4, <1>5, <1>6 DEF ClientRecord, names
<1>. QED
  BY <1>1, <1>2, <1>3, <1>7 DEF names

LEMMA AnswerFacts ==
    ASSUME TypeOK, NEW n \in Controller, NEW a \in Asker \cup {Nobody}, Answer(n, a)
    PROVE  /\ n \in Node /\ up[n] /\ Dequeue(n, a) /\ Deliver(a, Offered(n))
           /\ Offered(n) \in SUBSET Topic
           /\ UNCHANGED <<up, added, serving>>
BY OfferedType DEF Answer, Node

LEMMA TakeFacts ==
    ASSUME TypeOK, NEW b \in Broker, NEW a \in Asker \cup {Nobody}, Take(b, a)
    PROVE  /\ b \in Node /\ up[b] /\ serving[b] = Idle /\ Dequeue(b, a)
           /\ serving' \in [Broker -> Asker \cup {Nobody, Idle}]
           /\ serving'[b] = a /\ \A k \in Broker : k # b => serving'[k] = serving[k]
           /\ progress' \in [Broker -> Progress]
           /\ progress'[b].next = 1 /\ ~progress'[b].asked /\ progress'[b].names = {}
           /\ \A k \in Broker : k # b => progress'[k] = progress[k]
           /\ UNCHANGED <<up, added, client>>
<1>1. progress \in [Broker -> Progress]
  BY DEF TypeOK, Progress
<1>2. /\ progress' \in [Broker -> Progress]
      /\ progress'[b].next = 1 /\ ~progress'[b].asked /\ progress'[b].names = {}
      /\ \A k \in Broker : k # b => progress'[k] = progress[k]
  BY <1>1 DEF Take, NoProgress, Progress
<1>3. /\ serving' \in [Broker -> Asker \cup {Nobody, Idle}]
      /\ serving'[b] = a /\ \A k \in Broker : k # b => serving'[k] = serving[k]
  BY DEF Take, TypeOK
<1>. QED
  BY <1>2, <1>3, Names DEF Take

LEMMA AskFacts ==
    ASSUME TypeOK, NEW b \in Broker, Ask(b)
    PROVE  /\ InLoop(b) /\ ~progress[b].asked /\ Current(b) \in Node /\ Send(b, Current(b))
           /\ progress' \in [Broker -> Progress]
           /\ progress'[b].next = progress[b].next /\ progress'[b].asked
           /\ progress'[b].names = progress[b].names
           /\ \A k \in Broker : k # b => progress'[k] = progress[k]
           /\ UNCHANGED <<up, added, serving, client>>
<1>1. progress \in [Broker -> Progress]
  BY DEF TypeOK, Progress
<1>2. /\ progress' \in [Broker -> Progress]
      /\ progress'[b].next = progress[b].next /\ progress'[b].asked
      /\ progress'[b].names = progress[b].names
      /\ \A k \in Broker : k # b => progress'[k] = progress[k]
  BY <1>1 DEF Ask, Progress
<1>. QED
  BY <1>2, CurrentType DEF Ask

LEMMA FinishFacts ==
    ASSUME TypeOK, NEW b \in Broker, Finish(b)
    PROVE  /\ up[b] /\ serving[b] \in Asker \cup {Nobody} /\ progress[b].next > added[b]
           /\ Deliver(serving[b], progress[b].names) /\ progress[b].names \in SUBSET Topic
           /\ serving' \in [Broker -> Asker \cup {Nobody, Idle}]
           /\ serving'[b] = Idle /\ \A k \in Broker : k # b => serving'[k] = serving[k]
           /\ ~InLoop(b)
           /\ UNCHANGED <<up, added, waiting>>
<1>1. added[b] \in Nat /\ progress[b].next \in Nat /\ progress[b].names \in SUBSET Topic
  BY Names DEF TypeOK
<1>2. ~InLoop(b)
  BY <1>1 DEF Finish, InLoop
<1>. QED
  BY <1>1, <1>2 DEF Finish, TypeOK

LEMMA AddRemoteFacts ==
    ASSUME TypeOK, NEW b \in Broker, AddRemote(b)
    PROVE  /\ b \in Node /\ up[b] /\ serving[b] = Idle /\ added[b] \in Nat
           /\ added' \in [Node -> Nat] /\ added'[b] = added[b] + 1
           /\ added'[b] <= Len(Remote[b])
           /\ \A m \in Node : m # b => added'[m] = added[m]
           /\ UNCHANGED <<up, waiting, orphans, serving, progress, client>>
<1>1. Remote[b] \in Seq(Node) /\ Len(Remote[b]) \in Nat /\ b \in Node
  BY RemoteAssumption, Names
<1>. QED
  BY <1>1 DEF AddRemote, TypeOK

LEMMA InitType == Init => TypeOK
BY BoundsAssumption, ProbesAssumption, RemoteAssumption DEF Init, TypeOK, Node

LEMMA NextType == TypeOK /\ [Next]_vars => TypeOK'
<1> SUFFICES ASSUME TypeOK, [Next]_vars PROVE TypeOK'
  OBVIOUS
<1>1. ASSUME NEW c \in Client, ClientAsks(c) PROVE TypeOK'
  <2>1. requests' \in 0..MaxRequests
    BY <1>1, BoundsAssumption DEF ClientAsks, TypeOK
  <2>2. waiting' \in [Node -> SUBSET Asker]
    BY <1>1, AsksFacts, SendFacts, Names
  <2>3. /\ client' \in [Client -> ClientRecord]
        /\ UNCHANGED <<up, added, serving, progress, orphans, crashes>>
    BY <1>1, AsksFacts
  <2>. QED
    BY <2>1, <2>2, <2>3 DEF TypeOK, ClientRecord
<1>2. ASSUME NEW c \in Client, ClientQuits(c) PROVE TypeOK'
  <2>1. /\ waiting' \in [Node -> SUBSET Asker] /\ orphans' \in [Node -> Nat]
        /\ serving' \in [Broker -> Asker \cup {Nobody, Idle}]
    BY <1>2, QuitsFacts, AbandonFacts, Names
  <2>2. client' \in [Client -> ClientRecord] /\ UNCHANGED <<up, added, progress>>
    BY <1>2, QuitsFacts
  <2>3. UNCHANGED <<crashes, requests>>
    BY <1>2 DEF ClientQuits
  <2>. QED
    BY <2>1, <2>2, <2>3 DEF TypeOK, ClientRecord
<1>3. ASSUME NEW n \in Controller, AddProbe(n) PROVE TypeOK'
  <2>1. /\ added' \in [Node -> Nat] /\ client' \in [Client -> ClientRecord]
        /\ UNCHANGED <<up, waiting, orphans, serving, progress>>
        /\ added'[n] <= Len(ProbeTopics[n]) /\ \A m \in Node : m # n => added'[m] = added[m]
    BY <1>3, AddProbeFacts
  <2>2. UNCHANGED <<crashes, requests>>
    BY <1>3 DEF AddProbe
  <2>3. n \notin Broker /\ Broker \subseteq Node /\ Controller \subseteq Node
    BY Names DEF Node
  <2>. QED
    BY <2>1, <2>2, <2>3 DEF TypeOK, ClientRecord
<1>4. ASSUME NEW n \in Controller, NEW a \in Asker \cup {Nobody}, Answer(n, a) PROVE TypeOK'
  <2>1. waiting' \in [Node -> SUBSET Asker] /\ orphans' \in [Node -> Nat]
    BY <1>4, AnswerFacts, DequeueFacts
  <2>2. progress' \in [Broker -> Progress] /\ client' \in [Client -> ClientRecord]
    BY <1>4, AnswerFacts, DeliverFacts
  <2>3. UNCHANGED <<up, added, serving, crashes, requests>>
    BY <1>4 DEF Answer
  <2>. QED
    BY <2>1, <2>2, <2>3 DEF TypeOK, ClientRecord, Progress
<1>5. ASSUME NEW b \in Broker, AddRemote(b) PROVE TypeOK'
  <2>1. /\ added' \in [Node -> Nat] /\ added'[b] <= Len(Remote[b])
        /\ \A m \in Node : m # b => added'[m] = added[m]
        /\ UNCHANGED <<up, waiting, orphans, serving, progress, client>>
    BY <1>5, AddRemoteFacts
  <2>2. UNCHANGED <<crashes, requests>>
    BY <1>5 DEF AddRemote
  <2>3. b \notin Controller /\ Broker \subseteq Node /\ Controller \subseteq Node
    BY Names DEF Node
  <2>. QED
    BY <2>1, <2>2, <2>3 DEF TypeOK
<1>6. ASSUME NEW b \in Broker, NEW a \in Asker \cup {Nobody}, Take(b, a) PROVE TypeOK'
  <2>1. waiting' \in [Node -> SUBSET Asker] /\ orphans' \in [Node -> Nat]
    BY <1>6, TakeFacts, DequeueFacts
  <2>2. /\ serving' \in [Broker -> Asker \cup {Nobody, Idle}]
        /\ progress' \in [Broker -> Progress]
    BY <1>6, TakeFacts
  <2>3. UNCHANGED <<up, added, client, crashes, requests>>
    BY <1>6 DEF Take
  <2>. QED
    BY <2>1, <2>2, <2>3 DEF TypeOK, Progress
<1>7. ASSUME NEW b \in Broker, Ask(b) PROVE TypeOK'
  <2>1. waiting' \in [Node -> SUBSET Asker]
    BY <1>7, AskFacts, SendFacts, Names
  <2>2. progress' \in [Broker -> Progress]
    BY <1>7, AskFacts
  <2>3. UNCHANGED <<up, added, orphans, serving, client, crashes, requests>>
    BY <1>7 DEF Ask
  <2>. QED
    BY <2>1, <2>2, <2>3 DEF TypeOK, Progress
<1>8. ASSUME NEW b \in Broker, AskFails(b) PROVE TypeOK'
  <2>1. progress' \in [Broker -> Progress] /\ client' \in [Client -> ClientRecord]
    BY <1>8, LoopFacts, MissedFacts
  <2>2. UNCHANGED <<up, added, waiting, orphans, serving, crashes, requests>>
    BY <1>8 DEF AskFails
  <2>. QED
    BY <2>1, <2>2 DEF TypeOK, Progress, ClientRecord
<1>9. ASSUME NEW b \in Broker, GiveUp(b) PROVE TypeOK'
  <2>1. progress' \in [Broker -> Progress] /\ client' \in [Client -> ClientRecord]
    BY <1>9, LoopFacts, MissedFacts
  <2>2. /\ Current(b) \in Node /\ b \in Asker
        /\ Abandon(b, Current(b)) /\ UNCHANGED <<up, added, crashes, requests>>
    BY <1>9, CurrentType, Names DEF GiveUp
  <2>3. /\ waiting' \in [Node -> SUBSET Asker] /\ orphans' \in [Node -> Nat]
        /\ serving' \in [Broker -> Asker \cup {Nobody, Idle}]
    BY <2>2, AbandonFacts
  <2>. QED
    BY <2>1, <2>2, <2>3 DEF TypeOK, Progress, ClientRecord
<1>10. ASSUME NEW b \in Broker, Finish(b) PROVE TypeOK'
  <2>1. progress' \in [Broker -> Progress] /\ client' \in [Client -> ClientRecord]
    BY <1>10, FinishFacts, DeliverFacts
  <2>2. serving' \in [Broker -> Asker \cup {Nobody, Idle}]
    BY <1>10, FinishFacts
  <2>3. UNCHANGED <<up, added, waiting, orphans, crashes, requests>>
    BY <1>10 DEF Finish
  <2>. QED
    BY <2>1, <2>2, <2>3 DEF TypeOK, Progress, ClientRecord
<1>11. ASSUME NEW n \in Node, Crash(n) PROVE TypeOK'
  <2>1. crashes' \in 0..MaxCrashes /\ requests' = requests
    BY <1>11, BoundsAssumption DEF Crash, TypeOK
  <2>2. /\ waiting' \in [Node -> SUBSET Asker] /\ orphans' \in [Node -> Nat]
        /\ serving' \in [Broker -> Asker \cup {Nobody, Idle}]
        /\ client' \in [Client -> ClientRecord]
        /\ up' = [up EXCEPT ![n] = FALSE] /\ added' = [added EXCEPT ![n] = 0]
        /\ progress' = progress
    BY <1>11, CrashFacts
  <2>3. /\ \A m \in Controller : ProbeTopics[m] \in Seq(SUBSET Topic) /\ m \in Node
        /\ \A b \in Broker : Remote[b] \in Seq(Node) /\ b \in Node
    BY ProbesAssumption, RemoteAssumption DEF Node
  <2>4. /\ \A m \in Controller : added'[m] <= Len(ProbeTopics[m])
        /\ \A b \in Broker : added'[b] <= Len(Remote[b])
    BY <2>2, <2>3 DEF TypeOK
  <2>. QED
    BY <2>1, <2>2, <2>4 DEF TypeOK, ClientRecord
<1>12. ASSUME NEW n \in Node, Restart(n) PROVE TypeOK'
  BY <1>12 DEF Restart, TypeOK
<1>13. CASE UNCHANGED vars
  BY <1>13 DEF vars, TypeOK
<1>. QED
  BY <1>1, <1>2, <1>3, <1>4, <1>5, <1>6, <1>7, <1>8, <1>9, <1>10, <1>11, <1>12, <1>13
     DEF Next

\* The variables have their types.
THEOREM TypeCorrect == Spec => []TypeOK
BY InitType, NextType, PTL DEF Spec

-----------------------------------------------------------------------------
(* Answers reach their askers.                                             *)

\* An asker awaits one answer at most, and goes on to while nothing of it changes.
LEMMA AwaitsOnce ==
    ASSUME NEW a, NEW n, NEW m, Awaits(a, n), Awaits(a, m)
    PROVE  n = m
BY DEF Awaits

LEMMA AwaitsKept ==
    ASSUME NEW a \in Asker, NEW n, Awaits(a, n),
           a \in Client => client'[a].state = client[a].state,
           a \in Broker => /\ up'[a] = up[a] /\ added'[a] = added[a]
                           /\ progress'[a] = progress[a] /\ serving'[a] # Idle
    PROVE  Awaits(a, n)'
<1>1. CASE a \in Client
  BY <1>1 DEF Awaits
<1>2. CASE a \in Broker
  <2>1. a \notin Client
    BY <1>2, Names
  <2>. QED
    BY <1>2, <2>1 DEF Awaits, InLoop, Current
<1>. QED
  BY <1>1, <1>2 DEF Asker

\* Where the request of an asker is.
LEMMA PlacedFacts ==
    ASSUME TypeOK, ReachInv, NEW a \in Asker
    PROVE  /\ \A n \in Node : a \in waiting[n] => Awaits(a, n)
           /\ \A b \in Broker : serving[b] = a => Awaits(a, b) /\ a \notin waiting[b]
           /\ a \in Client /\ client[a].state # "waiting" => \A n : ~Awaits(a, n)
           /\ a \in Broker /\ (~InLoop(a) \/ ~progress[a].asked) => \A n : ~Awaits(a, n)
<1>1. a \in Broker => a \notin Client
  BY Names
<1>. QED
  BY <1>1 DEF ReachInv, Awaits

\* The askers in X apart, nobody's exchange changes; they have no request, or one that
\* they await.
Apart(X) ==
    /\ \A c \in Client : c \notin X => client'[c].state = client[c].state
    /\ \A b \in Broker : b \notin X => /\ up'[b] = up[b] /\ added'[b] = added[b]
                                       /\ progress'[b] = progress[b]
                                       /\ serving'[b] = Idle => serving[b] = Idle
    /\ \A n \in Node : \A a \in waiting'[n] : a \notin X => a \in waiting[n]
    /\ \A b \in Broker : \A a \in Asker : serving'[b] = a =>
           /\ a \notin X => serving[b] = a \/ a \in waiting[b]
           /\ a \notin waiting'[b]
    /\ \A x \in X : x \in Asker => /\ \A n \in Node : x \in waiting'[n] => Awaits(x, n)'
                                   /\ \A b \in Broker : serving'[b] = x => Awaits(x, b)'

\* What is served does not wait.
LEMMA ServedOnce ==
    ASSUME ReachInv
    PROVE  \A b \in Broker : \A a \in Asker : serving[b] = a => a \notin waiting[b]
BY DEF ReachInv

LEMMA ReachStep ==
    ASSUME TypeOK, ReachInv, NEW X, Apart(X)
    PROVE  ReachInv'
<1>. USE DEF Apart
<1>1. ASSUME NEW a \in Asker, NEW n, Awaits(a, n), a \notin X PROVE Awaits(a, n)'
  <2>1. a \in Broker => serving[a] # Idle
    BY <1>1, Names DEF Awaits, InLoop
  <2>. QED
    BY <1>1, <2>1, AwaitsKept
<1>2. ASSUME NEW a \in Asker, NEW n \in Node, a \in waiting'[n] PROVE Awaits(a, n)'
  <2>1. CASE a \in X
    BY <1>2, <2>1
  <2>2. CASE a \notin X
    BY <1>1, <1>2, <2>2, PlacedFacts
  <2>. QED
    BY <2>1, <2>2
<1>3. ASSUME NEW a \in Asker, NEW b \in Broker, serving'[b] = a
      PROVE  Awaits(a, b)' /\ a \notin waiting'[b]
  <2>1. b \in Node
    BY Names
  <2>2. CASE a \in X
    BY <1>3, <2>2
  <2>3. CASE a \notin X
    <3>1. Awaits(a, b)
      BY <1>3, <2>1, <2>3, PlacedFacts
    <3>. QED
      BY <1>1, <1>3, <2>3, <3>1
  <2>. QED
    BY <2>2, <2>3
<1>. QED
  BY <1>2, <1>3 DEF ReachInv

LEMMA NextReach == ASSUME TypeOK, ReachInv, [Next]_vars PROVE ReachInv'
<1>1. ASSUME NEW c \in Client, ClientAsks(c) PROVE ReachInv'
  <2>1. /\ client[c].state # "waiting" /\ Entry[c] \in Node /\ Send(c, Entry[c])
        /\ \A d \in Client : d # c => client'[d] = client[d]
        /\ client'[c].state = "waiting"
        /\ UNCHANGED <<up, added, serving, progress>>
    BY <1>1, AsksFacts
  <2>2. c \in Asker /\ c \notin Broker
    BY Names
  <2>3. \A m \in Node : waiting'[m] = IF m = Entry[c] THEN waiting[m] \cup {c} ELSE waiting[m]
    BY <2>1, <2>2, SendFacts
  <2>4. /\ \A n \in Node : c \notin waiting[n]
        /\ \A b \in Broker : serving[b] # c
    BY <2>1, <2>2, PlacedFacts
  <2>5. Awaits(c, Entry[c])'
    BY <2>1 DEF Awaits
  <2>6. \A b \in Broker : \A a \in Asker : serving[b] = a => a # c /\ a \notin waiting'[b]
    BY <2>3, <2>4, ServedOnce, Names
  <2>9. Apart({c})
    BY <2>1, <2>2, <2>3, <2>4, <2>5, <2>6, ServedOnce, Names DEF Apart
  <2>. QED
    BY <2>9, ReachStep
<1>2. ASSUME NEW c \in Client, ClientQuits(c) PROVE ReachInv'
  <2>1. /\ Entry[c] \in Node /\ Abandon(c, Entry[c])
        /\ \A d \in Client : d # c => client'[d] = client[d]
        /\ UNCHANGED <<up, added, progress>>
    BY <1>2, QuitsFacts
  <2>2. c \in Asker
    BY Names
  <2>3. /\ \A m \in Node : waiting'[m] = IF m = Entry[c] THEN waiting[m] \ {c} ELSE waiting[m]
        /\ \A b \in Broker : serving'[b] = IF b = Entry[c] /\ serving[b] = c THEN Nobody
                                           ELSE serving[b]
    BY <2>1, <2>2, AbandonFacts
  <2>4. \A n : Awaits(c, n) => n = Entry[c]
    BY DEF Awaits
  <2>5. /\ \A n \in Node : c \notin waiting'[n]
        /\ \A b \in Broker : serving'[b] # c
    <3>1. /\ \A n \in Node : c \in waiting[n] => n = Entry[c]
          /\ \A b \in Broker : serving[b] = c => b = Entry[c]
      BY <2>2, <2>4, PlacedFacts
    <3>. QED
      BY <2>2, <2>3, <3>1, Names
  <2>6. \A b \in Broker : \A a \in Asker : serving'[b] = a => serving[b] = a /\ a \notin waiting'[b]
    BY <2>3, ServedOnce, Names
  <2>7. \A b \in Broker : serving'[b] = Idle => serving[b] = Idle
    BY <2>3, Names
  <2>8. \A n \in Node : \A a \in waiting'[n] : a \in waiting[n]
    BY <2>3
  <2>9. Apart({c})
    BY <2>1, <2>5, <2>6, <2>7, <2>8 DEF Apart
  <2>. QED
    BY <2>9, ReachStep
<1>3. ASSUME NEW n \in Controller, AddProbe(n) PROVE ReachInv'
  <2>1. /\ \A m \in Node : m # n => added'[m] = added[m]
        /\ \A c \in Client : client'[c].state = client[c].state
        /\ UNCHANGED <<up, waiting, serving, progress>>
    BY <1>3, AddProbeFacts
  <2>2. \A b \in Broker : b # n /\ b \in Node
    BY Names
  <2>9. Apart({})
    BY <2>1, <2>2, ServedOnce, Names DEF Apart
  <2>. QED
    BY <2>9, ReachStep
<1>4. ASSUME NEW n \in Controller, NEW a \in Asker \cup {Nobody}, Answer(n, a) PROVE ReachInv'
  <2>1. /\ n \in Node /\ Dequeue(n, a) /\ Deliver(a, Offered(n)) /\ Offered(n) \in SUBSET Topic
        /\ UNCHANGED <<up, added, serving>>
    BY <1>4, AnswerFacts
  <2>2. /\ \A m \in Node : waiting'[m] = IF m = n THEN waiting[m] \ {a} ELSE waiting[m]
        /\ a \in Asker => a \in waiting[n]
    BY <2>1, DequeueFacts
  <2>3. /\ \A b \in Broker : b # a => progress'[b] = progress[b]
        /\ \A c \in Client : c # a => client'[c] = client[c]
    BY <2>1, DeliverFacts
  <2>4. ASSUME a \in Asker
        PROVE  /\ \A m \in Node : a \notin waiting'[m]
               /\ \A b \in Broker : serving[b] # a
    <3>1. Awaits(a, n)
      BY <2>1, <2>2, <2>4, PlacedFacts
    <3>2. \A m : Awaits(a, m) => m = n
      BY <3>1, AwaitsOnce
    <3>. QED
      BY <2>2, <2>4, <3>2, PlacedFacts, Names
  <2>9. Apart({a})
    BY <2>1, <2>2, <2>3, <2>4, ServedOnce, Names DEF Apart
  <2>. QED
    BY <2>9, ReachStep
<1>5. ASSUME NEW b \in Broker, AddRemote(b) PROVE ReachInv'
  <2>1. /\ serving[b] = Idle /\ \A m \in Node : m # b => added'[m] = added[m]
        /\ UNCHANGED <<up, waiting, serving, progress, client>>
    BY <1>5, AddRemoteFacts
  <2>2. ~InLoop(b) /\ b \in Asker
    BY <2>1, Names DEF InLoop
  <2>3. /\ \A n \in Node : b \notin waiting[n]
        /\ \A k \in Broker : serving[k] # b
    BY <2>2, PlacedFacts
  <2>9. Apart({b})
    BY <2>1, <2>3, ServedOnce, Names DEF Apart
  <2>. QED
    BY <2>9, ReachStep
<1>6. ASSUME NEW b \in Broker, NEW a \in Asker \cup {Nobody}, Take(b, a) PROVE ReachInv'
  <2>1. /\ b \in Node /\ serving[b] = Idle /\ Dequeue(b, a)
        /\ serving'[b] = a /\ \A k \in Broker : k # b => serving'[k] = serving[k]
        /\ \A k \in Broker : k # b => progress'[k] = progress[k]
        /\ UNCHANGED <<up, added, client>>
    BY <1>6, TakeFacts
  <2>2. /\ \A m \in Node : waiting'[m] = IF m = b THEN waiting[m] \ {a} ELSE waiting[m]
        /\ a \in Asker => a \in waiting[b]
    BY <2>1, DequeueFacts
  <2>3. ~InLoop(b) /\ b \in Asker
    BY <2>1, Names DEF InLoop
  <2>4. /\ \A n \in Node : b \notin waiting[n]
        /\ \A k \in Broker : serving[k] # b
    BY <2>3, PlacedFacts
  <2>5. \A k \in Broker : \A d \in Asker : serving'[k] = d =>
            /\ d # b /\ d \notin waiting'[k]
            /\ serving[k] = d \/ d \in waiting[k]
    <3>1. ASSUME NEW k \in Broker, NEW d \in Asker, serving'[k] = d, k = b
          PROVE  d # b /\ d \notin waiting'[k] /\ d \in waiting[k]
      BY <2>1, <2>2, <2>4, <3>1
    <3>2. ASSUME NEW k \in Broker, NEW d \in Asker, serving'[k] = d, k # b
          PROVE  d # b /\ d \notin waiting'[k] /\ serving[k] = d
      <4>1. k \in Node /\ serving[k] = d
        BY <2>1, <3>2, Names
      <4>. QED
        BY <2>2, <2>4, <3>2, <4>1, PlacedFacts
    <3>. QED
      BY <3>1, <3>2
  <2>6. \A n \in Node : \A d \in waiting'[n] : d \in waiting[n]
    BY <2>2
  <2>9. Apart({b})
    BY <2>1, <2>4, <2>5, <2>6, ServedOnce, Names DEF Apart
  <2>. QED
    BY <2>9, ReachStep
<1>7. ASSUME NEW b \in Broker, Ask(b) PROVE ReachInv'
  <2>1. /\ InLoop(b) /\ ~progress[b].asked /\ Current(b) \in Node /\ Send(b, Current(b))
        /\ progress'[b].next = progress[b].next /\ progress'[b].asked
        /\ \A k \in Broker : k # b => progress'[k] = progress[k]
        /\ UNCHANGED <<up, added, serving, client>>
    BY <1>7, AskFacts
  <2>2. b \in Asker /\ b \notin Client
    BY Names
  <2>3. \A m \in Node : waiting'[m] = IF m = Current(b) THEN waiting[m] \cup {b} ELSE waiting[m]
    BY <2>1, <2>2, SendFacts
  <2>4. /\ \A n \in Node : b \notin waiting[n]
        /\ \A k \in Broker : serving[k] # b
    BY <2>1, <2>2, PlacedFacts
  <2>5. Awaits(b, Current(b))'
    BY <2>1, <2>2 DEF Awaits, InLoop, Current
  <2>6. \A n \in Node : b \in waiting'[n] => Awaits(b, n)'
    <3>1. Current(b)' = Current(b)
      BY <2>1 DEF Current
    <3>2. \A n : n = Current(b) => Awaits(b, n)'
      BY <2>1, <2>2 DEF Awaits, InLoop, Current
    <3>. QED
      BY <2>3, <2>4, <3>2
  <2>7. \A k \in Broker : \A a \in Asker : serving[k] = a => a # b /\ a \notin waiting'[k]
    BY <2>3, <2>4, ServedOnce, Names
  <2>9. Apart({b})
    BY <2>1, <2>3, <2>4, <2>6, <2>7, ServedOnce, Names DEF Apart
  <2>. QED
    BY <2>9, ReachStep
<1>8. ASSUME NEW b \in Broker, AskFails(b) PROVE ReachInv'
  <2>1. /\ \A k \in Broker : k # b => progress'[k] = progress[k]
        /\ InLoop(b) /\ UNCHANGED <<up, added>>
        /\ \A c \in Client : client'[c].state = client[c].state
    BY <1>8, LoopFacts, MissedFacts
  <2>2. ~progress[b].asked /\ UNCHANGED <<waiting, serving>> /\ b \in Asker
    BY <1>8, Names DEF AskFails
  <2>3. /\ \A n \in Node : b \notin waiting[n]
        /\ \A k \in Broker : serving[k] # b
    BY <2>2, PlacedFacts
  <2>9. Apart({b})
    BY <2>1, <2>2, <2>3, ServedOnce, Names DEF Apart
  <2>. QED
    BY <2>9, ReachStep
<1>9. ASSUME NEW b \in Broker, GiveUp(b) PROVE ReachInv'
  <2>1. /\ \A k \in Broker : k # b => progress'[k] = progress[k]
        /\ InLoop(b) /\ UNCHANGED <<up, added>>
        /\ \A c \in Client : client'[c].state = client[c].state
    BY <1>9, LoopFacts, MissedFacts
  <2>2. Current(b) \in Node /\ Abandon(b, Current(b)) /\ b \in Asker
    BY <1>9, <2>1, CurrentType, Names DEF GiveUp
  <2>3. /\ \A m \in Node : waiting'[m] = IF m = Current(b) THEN waiting[m] \ {b} ELSE waiting[m]
        /\ \A k \in Broker : serving'[k] = IF k = Current(b) /\ serving[k] = b THEN Nobody
                                           ELSE serving[k]
    BY <2>2, AbandonFacts
  <2>4. \A n : Awaits(b, n) => n = Current(b)
    BY Names DEF Awaits
  <2>5. /\ \A n \in Node : b \notin waiting'[n]
        /\ \A k \in Broker : serving'[k] # b
    BY <2>2, <2>3, <2>4, PlacedFacts, Names
  <2>6. \A k \in Broker : \A a \in Asker : serving'[k] = a => serving[k] = a /\ a \notin waiting'[k]
    BY <2>3, PlacedFacts, Names
  <2>7. \A k \in Broker : serving'[k] = Idle => serving[k] = Idle
    BY <2>3, Names
  <2>8. \A n \in Node : \A a \in waiting'[n] : a \in waiting[n]
    BY <2>3
  <2>9. Apart({b})
    BY <2>1, <2>5, <2>6, <2>7, <2>8 DEF Apart
  <2>. QED
    BY <2>9, ReachStep
<1>10. ASSUME NEW b \in Broker, Finish(b) PROVE ReachInv'
  <2>1. /\ serving[b] \in Asker \cup {Nobody}
        /\ Deliver(serving[b], progress[b].names) /\ progress[b].names \in SUBSET Topic
        /\ serving'[b] = Idle /\ \A k \in Broker : k # b => serving'[k] = serving[k]
        /\ ~InLoop(b) /\ UNCHANGED <<up, added, waiting>>
    BY <1>10, FinishFacts
  <2>2. PICK a \in Asker \cup {Nobody} : a = serving[b]
    BY <2>1
  <2>3. /\ \A k \in Broker : k # a => progress'[k] = progress[k]
        /\ \A c \in Client : c # a => client'[c] = client[c]
    BY <2>1, <2>2, DeliverFacts
  <2>4. b \in Asker /\ b \in Node
    BY Names
  <2>5. /\ \A n \in Node : b \notin waiting[n]
        /\ \A k \in Broker : serving[k] # b
    BY <2>1, <2>4, PlacedFacts
  <2>6. ASSUME a \in Asker
        PROVE  /\ \A n \in Node : a \notin waiting[n]
               /\ \A k \in Broker : serving'[k] # a
    <3>1. Awaits(a, b) /\ a \notin waiting[b]
      BY <2>2, <2>6, PlacedFacts
    <3>2. \A m : Awaits(a, m) => m = b
      BY <3>1, AwaitsOnce
    <3>. QED
      BY <2>1, <2>6, <3>1, <3>2, PlacedFacts, Names
  <2>7. \A k \in Broker : \A d \in Asker : serving'[k] = d => serving[k] = d /\ d \notin waiting'[k]
    BY <2>1, PlacedFacts, Names
  <2>9. Apart({a, b})
    BY <2>1, <2>3, <2>5, <2>6, <2>7, ServedOnce, Names DEF Apart
  <2>. QED
    BY <2>9, ReachStep
<1>11. ASSUME NEW n \in Node, Crash(n) PROVE ReachInv'
  <2>. DEFINE asks(m) == n \in Broker /\ InLoop(n) /\ progress[n].asked /\ m = Current(n)
  <2>1. /\ up' = [up EXCEPT ![n] = FALSE] /\ added' = [added EXCEPT ![n] = 0]
        /\ progress' = progress
        /\ \A m \in Node : waiting'[m] \subseteq waiting[m] /\ (asks(m) => n \notin waiting'[m])
        /\ \A b \in Broker : serving'[b] = IF b = n THEN Idle
                                           ELSE IF asks(b) /\ serving[b] = n THEN Nobody
                                           ELSE serving[b]
        /\ \A c \in Client : client'[c].state = client[c].state
    BY <1>11, CrashFacts
  <2>2. \A m : n \in Asker /\ Awaits(n, m) => asks(m)
    BY Names DEF Awaits, Asker
  <2>. HIDE DEF asks
  <2>3. n \in Asker => /\ \A m \in Node : n \notin waiting'[m]
                       /\ \A b \in Broker : serving'[b] # n
    BY <2>1, <2>2, PlacedFacts, Names
  <2>4. \A b \in Broker : b # n => up'[b] = up[b] /\ added'[b] = added[b]
    BY <2>1, Names DEF TypeOK
  <2>5. \A b \in Broker : \A a \in Asker : serving'[b] = a => serving[b] = a /\ a \notin waiting'[b]
    BY <2>1, PlacedFacts, Names
  <2>6. \A b \in Broker : b # n => (serving'[b] = Idle => serving[b] = Idle)
    BY <2>1, Names
  <2>9. Apart({n})
    BY <2>1, <2>3, <2>4, <2>5, <2>6, ServedOnce, Names DEF Apart
  <2>. QED
    BY <2>9, ReachStep
<1>12. ASSUME NEW n \in Node, Restart(n) PROVE ReachInv'
  <2>1. /\ ~up[n] /\ up' = [up EXCEPT ![n] = TRUE]
        /\ UNCHANGED <<added, waiting, serving, progress, client>>
    BY <1>12 DEF Restart
  <2>2. n \in Broker => /\ \A m \in Node : n \notin waiting[m]
                        /\ \A b \in Broker : serving[b] # n
    BY <2>1, PlacedFacts, Names DEF InLoop
  <2>3. n \in Asker => n \in Broker
    BY Names DEF Asker
  <2>4. \A b \in Broker : b # n => up'[b] = up[b]
    BY <2>1, Names DEF TypeOK
  <2>9. Apart({n})
    BY <2>1, <2>2, <2>3, <2>4, ServedOnce, Names DEF Apart
  <2>. QED
    BY <2>9, ReachStep
<1>13. CASE UNCHANGED vars
  <2>1. Apart({})
    BY <1>13, ServedOnce DEF Apart, vars
  <2>. QED
    BY <2>1, ReachStep
<1>. QED
  BY <1>1, <1>2, <1>3, <1>4, <1>5, <1>6, <1>7, <1>8, <1>9, <1>10, <1>11, <1>12, <1>13
     DEF Next

LEMMA InitReach == Init => ReachInv
BY Names DEF Init, ReachInv

LEMMA ReachEnough == ASSUME TypeOK, ReachInv PROVE AnswersReachTheirAsker
BY DEF TypeOK, ReachInv, AnswersReachTheirAsker

\* Every answer still to come is that of the exchange its asker is in: the late answer
\* of a remote that was given up on is not taken for that of the next.
THEOREM NoAnswerIsTakenForAnother == Spec => []AnswersReachTheirAsker
BY InitType, NextType, InitReach, NextReach, ReachEnough, PTL DEF Spec

-----------------------------------------------------------------------------
(* Answers are fresh.                                                      *)

LEMMA NextDown == ASSUME TypeOK, DownInv, [Next]_vars PROVE DownInv'
<1>1. ASSUME NEW n \in Controller, AddProbe(n) PROVE DownInv'
  <2>1. /\ up[n] /\ UNCHANGED up /\ \A m \in Node : m # n => added'[m] = added[m]
    BY <1>1, AddProbeFacts
  <2>. QED
    BY <2>1 DEF DownInv
<1>2. ASSUME NEW b \in Broker, AddRemote(b) PROVE DownInv'
  <2>1. /\ up[b] /\ UNCHANGED up /\ \A m \in Node : m # b => added'[m] = added[m]
    BY <1>2, AddRemoteFacts
  <2>. QED
    BY <2>1 DEF DownInv
<1>3. ASSUME NEW n \in Node, Crash(n) PROVE DownInv'
  <2>1. up' = [up EXCEPT ![n] = FALSE] /\ added' = [added EXCEPT ![n] = 0]
    BY <1>3 DEF Crash
  <2>. QED
    BY <2>1 DEF DownInv, TypeOK
<1>4. ASSUME NEW n \in Node, Restart(n) PROVE DownInv'
  BY <1>4 DEF Restart, DownInv, TypeOK
<1>5. CASE UNCHANGED <<up, added>>
  BY <1>5 DEF DownInv
<1>. QED
  BY <1>1, <1>2, <1>3, <1>4, <1>5
     DEF Next, vars, ClientAsks, ClientQuits, Answer, Take, Ask, AskFails, GiveUp, Finish

\* What brokers have got stays fresh while nothing is added to it and nothing more is
\* offered than the client may be answered.
LEMMA FreshKept ==
    ASSUME NEW c \in Client, FreshOf(c),
           client'[c].state = client[c].state, client'[c].answer = client[c].answer,
           client[c].may \subseteq client'[c].may,
           \A n \in Controller : client[c].state = "waiting" =>
               Offered(n)' \subseteq Offered(n) \cup client'[c].may,
           \A b \in Broker : serving'[b] \in {serving[b], Nobody, Idle},
           \A b \in Broker : progress'[b].names \subseteq progress[b].names
    PROVE  FreshOf(c)'
<1>1. c \notin {Nobody, Idle}
  BY Names
<1>2. ASSUME client[c].state = "waiting"
      PROVE  /\ \A n \in Controller : Offered(n)' \subseteq client'[c].may
             /\ \E S \in SUBSET Broker :
                   /\ \A b \in Broker : serving'[b] \in S \cup {c} => b \in S
                   /\ \A b \in S : progress'[b].names \subseteq client'[c].may
  <2>1. PICK S \in SUBSET Broker : /\ \A b \in Broker : serving[b] \in S \cup {c} => b \in S
                                   /\ \A b \in S : progress[b].names \subseteq client[c].may
    BY <1>2 DEF FreshOf
  <2>2. \A n \in Controller : Offered(n) \subseteq client[c].may
    BY <1>2 DEF FreshOf
  <2>3. \A b \in Broker : serving'[b] \in S \cup {c} => serving'[b] = serving[b]
    BY <1>1, <2>1, Names
  <2>. QED
    BY <1>2, <2>1, <2>2, <2>3
<1>. QED
  BY <1>2 DEF FreshOf

LEMMA GivenFacts ==
    ASSUME TypeOK, NEW c \in Client, NEW a \in Asker \cup {Nobody},
           NEW names \in SUBSET Topic, Deliver(a, names)
    PROVE  /\ \A b \in Broker : b # a => progress'[b] = progress[b]
           /\ \A b \in Broker : b = a => progress'[b].names = Union(progress[b].names, names)
           /\ c # a => client'[c] = client[c]
           /\ c = a => /\ client'[c].state = "answered" /\ client'[c].answer = names
                       /\ client'[c].may = client[c].may /\ client'[c].due = client[c].due
<1>1. \A b \in Broker : b # a => progress'[b] = progress[b]
  BY DeliverFacts
<1>2. ASSUME NEW b \in Broker, b = a
      PROVE  progress'[b].names = Union(progress[b].names, names)
  BY <1>2, DeliverFacts
<1>3. c # a => client'[c] = client[c]
  BY DeliverFacts
<1>4. ASSUME c = a
      PROVE  /\ client'[c].state = "answered" /\ client'[c].answer = names
             /\ client'[c].may = client[c].may /\ client'[c].due = client[c].due
  BY <1>4, DeliverFacts
<1>. QED
  BY <1>1, <1>2, <1>3, <1>4

\* What a is given is fresh for client c, if a is c or works for it.
MayGive(c, a, names) ==
    \A S \in SUBSET Broker :
        /\ client[c].state = "waiting"
        /\ \A b \in Broker : serving[b] \in S \cup {c} => b \in S
        /\ \A b \in S : progress[b].names \subseteq client[c].may
        /\ a \in S \cup {c}
        => names \subseteq client[c].may

\* Answers that brokers get are fresh, and so are those that clients get of them.
LEMMA FreshDelivered ==
    ASSUME TypeOK, NEW c \in Client, FreshOf(c),
           NEW a \in Asker \cup {Nobody}, NEW names \in SUBSET Topic, Deliver(a, names),
           a = c => client[c].state = "waiting",
           UNCHANGED <<up, added>>,
           \A b \in Broker : serving'[b] \in {serving[b], Nobody, Idle},
           MayGive(c, a, names)
    PROVE  FreshOf(c)'
<1>1. /\ \A b \in Broker : b # a => progress'[b] = progress[b]
      /\ \A b \in Broker : b = a => progress'[b].names = Union(progress[b].names, names)
      /\ c # a => client'[c] = client[c]
      /\ c = a => /\ client'[c].state = "answered" /\ client'[c].answer = names
                  /\ client'[c].may = client[c].may
  BY GivenFacts
<1>2. CASE client[c].state = "waiting"
  <2>1. PICK S \in SUBSET Broker : /\ \A b \in Broker : serving[b] \in S \cup {c} => b \in S
                                   /\ \A b \in S : progress[b].names \subseteq client[c].may
    BY <1>2 DEF FreshOf
  <2>2. a \in S \cup {c} => names \subseteq client[c].may
    BY <1>2, <2>1 DEF MayGive
  <2>3. CASE c = a
    BY <1>1, <2>2, <2>3 DEF FreshOf
  <2>4. CASE c # a
    <3>1. \A b \in S : progress'[b].names \subseteq client[c].may
      BY <1>1, <2>1, <2>2 DEF Union
    <3>2. \A b \in Broker : serving'[b] \in S \cup {c} => b \in S
      <4>1. \A b \in Broker : serving'[b] \in S \cup {c} => serving'[b] = serving[b]
        BY <2>1, Names
      <4>. QED
        BY <2>1, <4>1
    <3>3. \A n \in Controller : Offered(n)' = Offered(n)
      BY DEF Offered, TopicsOf
    <3>4. \A n \in Controller : Offered(n)' \subseteq client'[c].may
      BY <1>1, <1>2, <2>4, <3>3 DEF FreshOf
    <3>5. client'[c] = client[c]
      BY <1>1, <2>4
    <3>6. \E T \in SUBSET Broker :
             /\ \A b \in Broker : serving'[b] \in T \cup {c} => b \in T
             /\ \A b \in T : progress'[b].names \subseteq client'[c].may
      BY <3>1, <3>2, <3>5
    <3>. QED
      BY <1>2, <3>4, <3>5, <3>6 DEF FreshOf
  <2>. QED
    BY <2>3, <2>4
<1>3. CASE client[c].state # "waiting"
  BY <1>1, <1>3 DEF FreshOf
<1>. QED
  BY <1>2, <1>3

LEMMA NextFresh == ASSUME TypeOK, ReachInv, DownInv, FreshInv, [Next]_vars PROVE FreshInv'
<1> SUFFICES ASSUME NEW c \in Client PROVE FreshOf(c)'
  BY DEF FreshInv
<1>0. FreshOf(c) /\ c \in Asker /\ c \notin Broker
  BY Names DEF FreshInv
<1>1. ASSUME NEW d \in Client, ClientAsks(d) PROVE FreshOf(c)'
  <2>1. /\ client[d].state # "waiting" /\ client'[d].state = "waiting"
        /\ \A e \in Client : e # d => client'[e] = client[e]
        /\ client'[d].may = UNION {Offered(n) : n \in Controller}
        /\ UNCHANGED <<up, added, serving, progress>>
    BY <1>1, AsksFacts
  <2>2. \A n \in Controller : Offered(n)' = Offered(n)
    BY <2>1 DEF Offered, TopicsOf
  <2>3. CASE c = d
    <3>1. \A b \in Broker : serving[b] # c
      BY <1>0, <2>1, <2>3, PlacedFacts
    <3>2. /\ \A b \in Broker : serving'[b] \in {} \cup {c} => b \in {}
          /\ \A b \in {} : progress'[b].names \subseteq client'[c].may
      BY <2>1, <3>1
    <3>3. \E S \in SUBSET Broker :
             /\ \A b \in Broker : serving'[b] \in S \cup {c} => b \in S
             /\ \A b \in S : progress'[b].names \subseteq client'[c].may
      <4>1. {} \in SUBSET Broker
        OBVIOUS
      <4>. QED
        BY <3>2, <4>1, Zenon
    <3>4. \A n \in Controller : Offered(n)' \subseteq client'[c].may
      BY <2>1, <2>2, <2>3
    <3>. QED
      BY <2>1, <2>3, <3>3, <3>4 DEF FreshOf
  <2>4. CASE c # d
    BY <1>0, <2>1, <2>2, <2>4, FreshKept
  <2>. QED
    BY <2>3, <2>4
<1>2. ASSUME NEW d \in Client, ClientQuits(d) PROVE FreshOf(c)'
  <2>1. /\ Entry[d] \in Node /\ Abandon(d, Entry[d]) /\ d \in Asker
        /\ \A e \in Client : e # d => client'[e] = client[e]
        /\ client'[d].state = "idle"
        /\ UNCHANGED <<up, added, progress>>
    BY <1>2, QuitsFacts, Names
  <2>2. \A b \in Broker : serving'[b] \in {serving[b], Nobody, Idle}
    BY <2>1, AbandonFacts
  <2>3. \A n \in Controller : Offered(n)' = Offered(n)
    BY <2>1 DEF Offered, TopicsOf
  <2>4. CASE c = d
    BY <2>1, <2>4 DEF FreshOf
  <2>5. CASE c # d
    BY <1>0, <2>1, <2>2, <2>3, <2>5, FreshKept
  <2>. QED
    BY <2>4, <2>5
<1>3. ASSUME NEW n \in Controller, AddProbe(n) PROVE FreshOf(c)'
  <2>1. /\ up[n] /\ added[n] \in Nat /\ added'[n] = added[n] + 1
        /\ \A m \in Node : m # n => added'[m] = added[m]
        /\ client'[c].state = client[c].state /\ client'[c].answer = client[c].answer
        /\ client[c].may \subseteq client'[c].may
        /\ client[c].state = "waiting" =>
              client'[c].may = client[c].may \cup ProbeTopics[n][added[n] + 1]
        /\ UNCHANGED <<up, serving, progress>>
    BY <1>3, AddProbeFacts
  <2>2. ASSUME NEW m \in Controller, client[c].state = "waiting"
        PROVE  Offered(m)' \subseteq Offered(m) \cup client'[c].may
    <3>1. CASE m = n
      <4>1. \A i \in 1..(added[n] + 1) : i \in 1..added[n] \/ i = added[n] + 1
        BY <2>1
      <4>2. \A i \in 1..(added[n] + 1) :
                ProbeTopics[n][i] \subseteq Offered(n) \cup client'[c].may
        BY <2>1, <2>2, <4>1 DEF Offered, TopicsOf
      <4>3. Offered(n)' = UNION {ProbeTopics[n][i] : i \in 1..(added[n] + 1)}
        BY <2>1 DEF Offered, TopicsOf
      <4>. QED
        BY <3>1, <4>2, <4>3
    <3>2. CASE m # n
      BY <2>1, <3>2 DEF Offered, TopicsOf, Node
    <3>. QED
      BY <3>1, <3>2
  <2>. QED
    BY <1>0, <2>1, <2>2, FreshKept
<1>4. ASSUME NEW n \in Controller, NEW a \in Asker \cup {Nobody}, Answer(n, a)
      PROVE  FreshOf(c)'
  <2>1. /\ n \in Node /\ Dequeue(n, a) /\ Deliver(a, Offered(n)) /\ Offered(n) \in SUBSET Topic
        /\ UNCHANGED <<up, added, serving>>
    BY <1>4, AnswerFacts
  <2>2. a = c => client[c].state = "waiting"
    <3>1. a = c => c \in waiting[n]
      BY <1>0, <2>1, DequeueFacts
    <3>. QED
      BY <1>0, <2>1, <3>1, PlacedFacts
  <2>3. MayGive(c, a, Offered(n))
    BY <1>0 DEF FreshOf, MayGive
  <2>. QED
    BY <1>0, <2>1, <2>2, <2>3, FreshDelivered
<1>5. ASSUME NEW b \in Broker, AddRemote(b) PROVE FreshOf(c)'
  <2>1. /\ \A m \in Node : m # b => added'[m] = added[m]
        /\ UNCHANGED <<up, serving, progress, client>>
    BY <1>5, AddRemoteFacts
  <2>2. \A n \in Controller : Offered(n)' = Offered(n)
    BY <2>1, Names DEF Offered, TopicsOf, Node
  <2>. QED
    BY <1>0, <2>1, <2>2, FreshKept
<1>6. ASSUME NEW b \in Broker, NEW a \in Asker \cup {Nobody}, Take(b, a) PROVE FreshOf(c)'
  <2>1. /\ serving[b] = Idle
        /\ serving'[b] = a /\ \A k \in Broker : k # b => serving'[k] = serving[k]
        /\ progress'[b].names = {}
        /\ \A k \in Broker : k # b => progress'[k] = progress[k]
        /\ UNCHANGED <<up, added, client>>
    BY <1>6, TakeFacts
  <2>2. \A k \in Broker : serving[k] # b
    <3>1. ~InLoop(b) /\ b \in Asker
      BY <2>1, Names DEF InLoop
    <3>. QED
      BY <3>1, PlacedFacts
  <2>3. \A n \in Controller : Offered(n)' = Offered(n)
    BY <2>1 DEF Offered, TopicsOf
  <2>4. ASSUME client[c].state = "waiting"
        PROVE  \E S \in SUBSET Broker :
                  /\ \A k \in Broker : serving'[k] \in S \cup {c} => k \in S
                  /\ \A k \in S : progress'[k].names \subseteq client'[c].may
    <3>1. PICK S \in SUBSET Broker : /\ \A k \in Broker : serving[k] \in S \cup {c} => k \in S
                                     /\ \A k \in S : progress[k].names \subseteq client[c].may
      BY <1>0, <2>4 DEF FreshOf
    <3>. DEFINE T == S \cup {b}
    <3>2. T \in SUBSET Broker
      OBVIOUS
    <3>3. \A k \in Broker : serving'[k] \in T \cup {c} => k \in T
      <4>1. SUFFICES ASSUME NEW k \in Broker, k # b, serving'[k] \in T \cup {c} PROVE k \in S
        OBVIOUS
      <4>2. serving[k] \in S \cup {c}
        BY <2>1, <2>2, <4>1
      <4>. QED
        BY <3>1, <4>2
    <3>4. \A k \in T : progress'[k].names \subseteq client'[c].may
      BY <2>1, <3>1
    <3>. QED
      BY <3>2, <3>3, <3>4
  <2>. QED
    BY <1>0, <2>1, <2>3, <2>4 DEF FreshOf
<1>7. ASSUME NEW b \in Broker, Ask(b) PROVE FreshOf(c)'
  <2>1. /\ \A k \in Broker : progress'[k].names = progress[k].names
        /\ UNCHANGED <<up, added, serving, client>>
    BY <1>7, AskFacts
  <2>2. \A n \in Controller : Offered(n)' = Offered(n)
    BY <2>1 DEF Offered, TopicsOf
  <2>. QED
    BY <1>0, <2>1, <2>2, FreshKept
<1>8. ASSUME NEW b \in Broker, GiveUp(b) \/ AskFails(b) PROVE FreshOf(c)'
  <2>1. /\ \A k \in Broker : progress'[k].names = progress[k].names
        /\ UNCHANGED <<up, added>> /\ InLoop(b)
        /\ client'[c].state = client[c].state /\ client'[c].answer = client[c].answer
        /\ client'[c].may = client[c].may
    BY <1>8, LoopFacts, MissedFacts
  <2>2. \A k \in Broker : serving'[k] \in {serving[k], Nobody, Idle}
    <3>1. CASE GiveUp(b)
      <4>1. Current(b) \in Node /\ Abandon(b, Current(b)) /\ b \in Asker
        BY <2>1, <3>1, CurrentType, Names DEF GiveUp
      <4>. QED
        BY <4>1, AbandonFacts
    <3>2. CASE AskFails(b)
      BY <3>2 DEF AskFails
    <3>. QED
      BY <1>8, <3>1, <3>2
  <2>3. \A n \in Controller : Offered(n)' = Offered(n)
    BY <2>1 DEF Offered, TopicsOf
  <2>. QED
    BY <1>0, <2>1, <2>2, <2>3, FreshKept
<1>9. ASSUME NEW b \in Broker, Finish(b) PROVE FreshOf(c)'
  <2>1. /\ serving[b] \in Asker \cup {Nobody}
        /\ Deliver(serving[b], progress[b].names) /\ progress[b].names \in SUBSET Topic
        /\ serving'[b] = Idle /\ \A k \in Broker : k # b => serving'[k] = serving[k]
        /\ UNCHANGED <<up, added>>
    BY <1>9, FinishFacts
  <2>2. PICK a \in Asker \cup {Nobody} : a = serving[b]
    BY <2>1
  <2>3. a = c => client[c].state = "waiting"
    BY <1>0, <2>2, PlacedFacts
  <2>4. \A k \in Broker : serving'[k] \in {serving[k], Nobody, Idle}
    BY <2>1
  <2>5. MayGive(c, a, progress[b].names)
    BY <2>2 DEF MayGive
  <2>. QED
    BY <1>0, <2>1, <2>2, <2>3, <2>4, <2>5, FreshDelivered
<1>10. ASSUME NEW n \in Node, Crash(n) PROVE FreshOf(c)'
  <2>1. /\ up' = [up EXCEPT ![n] = FALSE] /\ added' = [added EXCEPT ![n] = 0]
        /\ progress' = progress
        /\ \A b \in Broker : serving'[b] \in {serving[b], Nobody, Idle}
        /\ client'[c].state = client[c].state /\ client'[c].answer = client[c].answer
        /\ client'[c].may = client[c].may
    BY <1>10, CrashFacts
  <2>2. \A m \in Controller : Offered(m)' \subseteq Offered(m)
    <3>1. \A m \in Controller : m # n => up'[m] = up[m] /\ added'[m] = added[m]
      BY <2>1 DEF TypeOK, Node
    <3>2. ~up'[n]
      BY <2>1 DEF TypeOK
    <3>. QED
      BY <3>1, <3>2 DEF Offered, TopicsOf
  <2>. QED
    BY <1>0, <2>1, <2>2, FreshKept
<1>11. ASSUME NEW n \in Node, Restart(n) PROVE FreshOf(c)'
  <2>1. /\ ~up[n] /\ up' = [up EXCEPT ![n] = TRUE]
        /\ UNCHANGED <<added, serving, progress, client>>
    BY <1>11 DEF Restart
  <2>2. added[n] = 0
    BY <2>1 DEF DownInv
  <2>3. \A m \in Controller : Offered(m)' \subseteq Offered(m)
    <3>1. \A m \in Controller : m # n => up'[m] = up[m]
      BY <2>1 DEF TypeOK, Node
    <3>2. \A i \in 1..added[n] : FALSE
      BY <2>2
    <3>3. n \in Controller => Offered(n)' = {}
      BY <2>1, <3>2 DEF Offered, TopicsOf
    <3>4. \A m \in Controller : m # n => Offered(m)' = Offered(m)
      BY <2>1, <3>1 DEF Offered, TopicsOf
    <3>. QED
      BY <3>3, <3>4
  <2>. QED
    BY <1>0, <2>1, <2>3, FreshKept
<1>12. CASE UNCHANGED vars
  BY <1>0, <1>12 DEF vars, FreshOf, Offered, TopicsOf
<1>. QED
  BY <1>1, <1>2, <1>3, <1>4, <1>5, <1>6, <1>7, <1>8, <1>9, <1>10, <1>11, <1>12 DEF Next

LEMMA InitFresh == Init => DownInv /\ FreshInv
BY DEF Init, DownInv, FreshInv, FreshOf

\* Nothing is answered from memory: each topic of an answer was offered by a running
\* controller after the client asked, through any number of brokers, restarted or not.
THEOREM NothingIsAnsweredFromMemory == Spec => []AnswersAreFresh
<1>1. FreshInv => AnswersAreFresh
  BY DEF FreshInv, FreshOf, AnswersAreFresh
<1>. QED
  BY <1>1, InitType, InitReach, InitFresh, NextType, NextReach, NextDown, NextFresh, PTL
     DEF Spec

-----------------------------------------------------------------------------
(* What can be found.                                                      *)

LEMMA ReachedFacts ==
    ASSUME NEW edges, NEW n \in Node
    PROVE  /\ n \in Reached(edges, n)
           /\ \A k \in Reached(edges, n) : \A m \in Node :
                 m \in edges[k] => m \in Reached(edges, n)
           /\ Reached(edges, n) \subseteq Node
<1>1. ASSUME NEW k \in Reached(edges, n), NEW m \in Node, m \in edges[k]
      PROVE  m \in Reached(edges, n)
  BY <1>1 DEF Reached
<1>. QED
  BY <1>1 DEF Reached

LEMMA ReachedLeast ==
    ASSUME NEW edges, NEW n, NEW S \in SUBSET Node, n \in S,
           \A k \in S : edges[k] \subseteq S
    PROVE  Reached(edges, n) \subseteq S
BY DEF Reached

\* The remotes of a broker are nodes, and those it asks are among them.
LEMMA RemotesFacts ==
    ASSUME TypeOK
    PROVE  /\ \A n \in Node : Remotes[n] \subseteq Node /\ Asked[n] \subseteq Remotes[n]
           /\ \A n \in Controller : Remotes[n] = {}
           /\ \A b \in Broker : \A i \in 1..added[b] :
                 Remote[b][i] \in Remotes[b] /\ Remote[b][i] \in Node
           /\ \A b \in Broker : \A i \in 1..added[b] : up[b] => Remote[b][i] \in Asked[b]
           /\ \A b \in Broker : \A m \in Asked[b] :
                 up[b] /\ \E i \in 1..added[b] : m = Remote[b][i]
<1>1. ASSUME NEW b \in Broker
      PROVE  /\ b \in Node /\ Remote[b] \in Seq(Node)
             /\ \A i \in 1..added[b] : i \in DOMAIN Remote[b]
             /\ \A i \in DOMAIN Remote[b] : Remote[b][i] \in Node
  <2>1. b \in Node /\ Remote[b] \in Seq(Node)
    BY RemoteAssumption, Names
  <2>2. added[b] \in Nat /\ added[b] <= Len(Remote[b])
    BY <2>1 DEF TypeOK
  <2>. QED
    BY <2>1, <2>2
<1>2. \A n \in Node : Remotes[n] = IF n \in Broker THEN {Remote[n][i] : i \in DOMAIN Remote[n]}
                                   ELSE {}
  BY DEF Remotes
<1>3. \A n \in Node : Asked[n] = IF n \in Broker /\ up[n]
                                 THEN {Remote[n][i] : i \in 1..added[n]} ELSE {}
  BY DEF Asked
<1>4. \A n \in Controller : n \in Node /\ n \notin Broker
  BY NamesAssumption DEF Node
<1>5. \A b \in Broker : \A i \in 1..added[b] :
          Remote[b][i] \in Remotes[b] /\ Remote[b][i] \in Node
  BY <1>1, <1>2
<1>6. \A n \in Node : Remotes[n] \subseteq Node
  <2>1. \A b \in Broker : \A i \in DOMAIN Remote[b] : Remote[b][i] \in Node
    BY <1>1
  <2>. QED
    BY <2>1 DEF Remotes
<1>7. \A b \in Broker : \A m \in Asked[b] : up[b] /\ \E i \in 1..added[b] : m = Remote[b][i]
  BY <1>1, <1>3
<1>8. \A n \in Node : Asked[n] \subseteq Remotes[n]
  <2>1. \A n \in Node : n \notin Broker => Asked[n] = {}
    BY <1>3
  <2>. QED
    BY <1>5, <1>7, <2>1
<1>9. \A b \in Broker : \A i \in 1..added[b] : up[b] => Remote[b][i] \in Asked[b]
  BY <1>1, <1>3
<1>10. \A n \in Controller : Remotes[n] = {}
  BY <1>2, <1>4
<1>. QED
  BY <1>5, <1>6, <1>7, <1>8, <1>9, <1>10

\* Everything that comes from n's remotes comes from n.
LEMMA BelowFacts ==
    ASSUME NEW n \in Node, NEW k \in Reached(Remotes, n)
    PROVE  Reached(Remotes, k) \subseteq Reached(Remotes, n) /\ Below[k] \subseteq Below[n]
<1>1. Reached(Remotes, n) \subseteq Node
  BY ReachedFacts
<1>2. \A m \in Node : Remotes[m] \subseteq Node
  <2>1. \A b \in Broker : \A i \in DOMAIN Remote[b] : Remote[b][i] \in Node
    BY RemoteAssumption
  <2>. QED
    BY <2>1 DEF Remotes
<1>3. \A m \in Reached(Remotes, n) : Remotes[m] \subseteq Reached(Remotes, n)
  BY <1>1, <1>2, ReachedFacts
<1>4. Reached(Remotes, k) \subseteq Reached(Remotes, n)
  BY <1>1, <1>3, ReachedLeast
<1>5. Below[n] = UNION {TopicsOf(m, Len(ProbeTopics[m])) :
                            m \in Reached(Remotes, n) \cap Controller}
  BY DEF Below
<1>6. Below[k] = UNION {TopicsOf(m, Len(ProbeTopics[m])) :
                            m \in Reached(Remotes, k) \cap Controller}
  BY <1>1 DEF Below
<1>. QED
  BY <1>4, <1>5, <1>6

LEMMA OfferedBelow ==
    ASSUME TypeOK, NEW n \in Node, NEW m \in Reached(Remotes, n) \cap Controller
    PROVE  Offered(m) \subseteq Below[n]
<1>1. m \in Node /\ added[m] \in Nat /\ added[m] <= Len(ProbeTopics[m])
  BY DEF Node, TypeOK
<1>2. Len(ProbeTopics[m]) \in Nat
  BY ProbesAssumption
<1>3. Offered(m) \subseteq TopicsOf(m, Len(ProbeTopics[m]))
  BY <1>1, <1>2 DEF Offered, TopicsOf
<1>4. Below[n] = UNION {TopicsOf(k, Len(ProbeTopics[k])) :
                            k \in Reached(Remotes, n) \cap Controller}
  BY DEF Below
<1>. QED
  BY <1>3, <1>4

LEMMA PresentBelow ==
    ASSUME TypeOK, NEW n \in Node
    PROVE  Present(n) \subseteq Below[n]
<1>1. \A k \in Reached(Remotes, n) : Asked[k] \subseteq Reached(Remotes, n)
  BY RemotesFacts, ReachedFacts
<1>2. Reached(Asked, n) \subseteq Reached(Remotes, n)
  BY <1>1, ReachedFacts, ReachedLeast
<1>. QED
  BY <1>2, OfferedBelow DEF Present

\* What is present at a controller is what it offers; what is present at a broker is
\* present at a testpoint it asks.
LEMMA PresentAtController ==
    ASSUME TypeOK, NEW n \in Controller
    PROVE  Present(n) = Offered(n)
<1>1. n \in Node /\ Asked[n] = {}
  BY RemotesFacts DEF Node
<1>2. Reached(Asked, n) = {n}
  <2>1. n \in Reached(Asked, n)
    BY <1>1, ReachedFacts
  <2>2. {n} \in SUBSET Node /\ \A k \in {n} : Asked[k] \subseteq {n}
    BY <1>1
  <2>. QED
    BY <2>1, <2>2, ReachedLeast
<1>. QED
  BY <1>2 DEF Present

LEMMA PresentAtBroker ==
    ASSUME TypeOK, NEW b \in Broker, NEW topic \in Present(b)
    PROVE  up[b] /\ \E i \in 1..added[b] : topic \in Present(Remote[b][i])
<1>1. PICK m \in Reached(Asked, b) \cap Controller : topic \in Offered(m)
  BY DEF Present
<1>. DEFINE T == {k \in Node : k = b \/ \E j \in Asked[b] : k \in Reached(Asked, j)}
<1>2. b \in Node /\ b # m /\ Asked[b] \subseteq Node
  BY Names, RemotesFacts
<1>3. \A k \in T : Asked[k] \subseteq T
  <2>1. SUFFICES ASSUME NEW k \in T, NEW x \in Asked[k] PROVE x \in T
    OBVIOUS
  <2>2. x \in Node
    BY <2>1, RemotesFacts
  <2>3. CASE k = b
    BY <1>2, <2>1, <2>2, <2>3, ReachedFacts
  <2>4. CASE k # b
    <3>1. PICK j \in Asked[b] : k \in Reached(Asked, j)
      BY <2>4
    <3>2. x \in Reached(Asked, j)
      BY <1>2, <2>1, <2>2, <3>1, ReachedFacts
    <3>. QED
      BY <2>2, <3>2
  <2>. QED
    BY <2>3, <2>4
<1>4. m \in T
  <2>1. T \in SUBSET Node /\ b \in T
    BY <1>2
  <2>. HIDE DEF T
  <2>. QED
    BY <1>3, <2>1, ReachedLeast
<1>5. PICK j \in Asked[b] : m \in Reached(Asked, j)
  BY <1>2, <1>4
<1>6. topic \in Present(j)
  BY <1>1, <1>5 DEF Present
<1>. QED
  BY <1>5, <1>6, RemotesFacts

\* What is present somewhere stays so when testpoints ask and controllers offer more.
LEMMA PresentGrows ==
    ASSUME \A k \in Node : Asked[k] \subseteq Asked'[k],
           \A m \in Controller : Offered(m) \subseteq Offered(m)'
    PROVE  \A n \in Node : Present(n) \subseteq Present(n)'
<1>1. \A n \in Node : Reached(Asked, n) \subseteq Reached(Asked, n)'
  BY DEF Reached
<1>. QED
  BY <1>1 DEF Present

\* The crash of n takes away no topics but those below n.
LEMMA PresentAfterCrash ==
    ASSUME TypeOK, NEW n \in Node,
           \A k \in Node : k # n => Asked'[k] = Asked[k],
           \A m \in Controller : m # n => Offered(m)' = Offered(m),
           NEW x \in Node, NEW topic \in Present(x), topic \notin Below[n]
    PROVE  topic \in Present(x)'
<1>. DEFINE R == Reached(Remotes, n)
<1>1. PICK m \in Reached(Asked, x) \cap Controller : topic \in Offered(m)
  BY DEF Present
<1>2. m \notin R
  BY <1>1, OfferedBelow
<1>3. n \in R /\ R \subseteq Node /\ \A k \in R : Remotes[k] \subseteq R
  BY ReachedFacts, RemotesFacts
<1>4. \A k \in R : Asked[k] \subseteq R
  BY <1>3, RemotesFacts
<1>. HIDE DEF R
<1>5. m \in Node /\ topic \in Offered(m)'
  BY <1>1, <1>2, <1>3 DEF Node
<1>6. ASSUME NEW S \in SUBSET Node, x \in S, \A k \in S : Asked'[k] \subseteq S
      PROVE  m \in S
  <2>1. S \cup R \in SUBSET Node /\ x \in S \cup R
    BY <1>3, <1>6
  <2>2. \A k \in S \cup R : Asked[k] \subseteq S \cup R
    BY <1>3, <1>4, <1>6
  <2>3. Reached(Asked, x) \subseteq S \cup R
    BY <2>1, <2>2, ReachedLeast
  <2>. QED
    BY <1>1, <1>2, <2>3
<1>7. m \in Reached(Asked, x)'
  BY <1>5, <1>6 DEF Reached
<1>. QED
  BY <1>1, <1>5, <1>7 DEF Present

-----------------------------------------------------------------------------
(* Who works for a client.                                                 *)

\* A set that has b and every broker that works for a member of it.
LEMMA WorkForFacts ==
    ASSUME NEW c
    PROVE  /\ \A k \in Broker : serving[k] \in WorkFor(c) \cup {c} => k \in WorkFor(c)
           /\ WorkFor(c) \subseteq Broker
BY DEF WorkFor

LEMMA WorkForLeast ==
    ASSUME NEW c, NEW S \in SUBSET Broker,
           \A k \in Broker : serving[k] \in S \cup {c} => k \in S
    PROVE  WorkFor(c) \subseteq S
BY DEF WorkFor

\* Who works for c serves c, or one that works for c.
LEMMA WorkForServes ==
    ASSUME NEW c, NEW b \in WorkFor(c)
    PROVE  serving[b] \in WorkFor(c) \cup {c}
<1>1. SUFFICES ASSUME serving[b] \notin WorkFor(c) \cup {c} PROVE FALSE
  OBVIOUS
<1>. DEFINE S == WorkFor(c) \ {b}
<1>2. S \in SUBSET Broker /\ \A k \in Broker : serving[k] \in S \cup {c} => k \in S
  BY <1>1, WorkForFacts
<1>3. b \notin S
  OBVIOUS
<1>. HIDE DEF S
<1>. QED
  BY <1>2, <1>3, WorkForLeast

\* A step in which nobody but D, and who works for D, stops to work for c.
LEMMA WorkForKept ==
    ASSUME NEW c, NEW D \in SUBSET Broker,
           \A k \in Broker : serving[k] \in D => k \in D,
           \A k \in Broker \ D : serving[k] \in WorkFor(c) \cup {c} => serving'[k] = serving[k]
    PROVE  \A b \in WorkFor(c) : b \notin D => b \in WorkFor(c)'
<1>1. SUFFICES ASSUME NEW b \in WorkFor(c), b \notin D, NEW T \in SUBSET Broker,
                      \A k \in Broker : serving'[k] \in T \cup {c} => k \in T
               PROVE  b \in T
  BY WorkForFacts DEF WorkFor
<1>. DEFINE S == (T \cap WorkFor(c)) \cup D
<1>2. S \in SUBSET Broker
  BY WorkForFacts
<1>3. ASSUME NEW k \in Broker, serving[k] \in S \cup {c} PROVE k \in S
  <2>1. CASE serving[k] \in D
    BY <2>1
  <2>2. CASE serving[k] \in (T \cap WorkFor(c)) \cup {c} /\ k \notin D
    <3>1. k \in WorkFor(c)
      BY <2>2, WorkForFacts
    <3>2. serving'[k] = serving[k]
      BY <2>2
    <3>. QED
      BY <1>1, <2>2, <3>1, <3>2
  <2>. QED
    BY <1>3, <2>1, <2>2
<1>4. b \in S
  <2>. HIDE DEF S
  <2>. QED
    BY <1>2, <1>3, WorkForLeast
<1>. QED
  BY <1>1, <1>4

\* A set D of brokers is out of the way of c: nobody outside it works for it, and who
\* works for c outside it goes on to.
Spared(c, D) ==
    /\ D \subseteq Broker
    /\ \A k \in Broker : serving[k] \in D => k \in D
    /\ \A k \in Broker \ D : serving[k] \in WorkFor(c) \cup {c} => serving'[k] = serving[k]

LEMMA SparedStay ==
    ASSUME NEW c, NEW D, Spared(c, D)
    PROVE  \A b \in WorkFor(c) : b \notin D => b \in WorkFor(c)'
BY WorkForKept DEF Spared

-----------------------------------------------------------------------------
(* Only what is silent is missing.                                         *)

\* What broker b has got came from below it.
GotInv == \A b \in Broker : progress[b].names \subseteq Below[b]

\* Broker b has the topic, or will have it from a remote whose turn is to come.
Has(b, topic) ==
    \/ topic \in progress[b].names
    \/ \E i \in progress[b].next..added[b] :
          /\ topic \in Present(Remote[b][i])
          /\ i = progress[b].next /\ progress[b].asked => b \in waiting[Current(b)]

\* The topic can be found where the request of c is, or a broker that works for c has it.
Held(c, topic) ==
    \/ c \in waiting[Entry[c]] /\ topic \in Present(Entry[c])
    \/ \E b \in WorkFor(c) : Has(b, topic)

\* What a client is due is held for it, and in its answer.
DueOf(c) ==
    /\ client[c].state = "waiting" => \A topic \in client[c].due : Held(c, topic)
    /\ client[c].state = "answered" => client[c].due \subseteq client[c].answer

DueInv == \A c \in Client : DueOf(c)

\* What broker b awaits is below it.
LEMMA AwaitedBelow ==
    ASSUME TypeOK, NEW b \in Broker, NEW n, Awaits(b, n)
    PROVE  /\ n \in Node /\ n \in Reached(Remotes, b) /\ Below[n] \subseteq Below[b]
           /\ InLoop(b) /\ progress[b].asked /\ n = Current(b)
<1>1. InLoop(b) /\ progress[b].asked /\ n = Current(b) /\ b \in Node
  BY Names DEF Awaits
<1>2. n \in Node /\ n \in Remotes[b]
  BY <1>1, CurrentType, RemotesFacts DEF Current
<1>3. n \in Reached(Remotes, b)
  BY <1>1, <1>2, ReachedFacts
<1>. QED
  BY <1>1, <1>2, <1>3, BelowFacts

LEMMA GotDelivered ==
    ASSUME TypeOK, GotInv, NEW a \in Asker \cup {Nobody}, NEW found \in SUBSET Topic,
           Deliver(a, found), NEW n, found \subseteq Below[n], a \in Broker => Awaits(a, n)
    PROVE  GotInv'
<1>1. SUFFICES ASSUME NEW b \in Broker PROVE progress'[b].names \subseteq Below[b]
  BY DEF GotInv
<1>2. CASE b = a
  <2>1. Below[n] \subseteq Below[b]
    BY <1>2, AwaitedBelow
  <2>2. progress'[b].names = Union(progress[b].names, found)
    BY <1>2, DeliverFacts
  <2>. QED
    BY <2>1, <2>2 DEF GotInv, Union
<1>3. CASE b # a
  <2>1. progress'[b] = progress[b]
    BY <1>3, DeliverFacts
  <2>. QED
    BY <2>1 DEF GotInv
<1>. QED
  BY <1>2, <1>3

LEMMA NextGot == ASSUME TypeOK, ReachInv, GotInv, [Next]_vars PROVE GotInv'
<1>1. ASSUME NEW n \in Controller, NEW a \in Asker \cup {Nobody}, Answer(n, a) PROVE GotInv'
  <2>1. /\ n \in Node /\ Dequeue(n, a) /\ Deliver(a, Offered(n)) /\ Offered(n) \in SUBSET Topic
    BY <1>1, AnswerFacts
  <2>2. Offered(n) \subseteq Below[n]
    BY <2>1, PresentAtController, PresentBelow
  <2>3. a \in Broker => Awaits(a, n)
    <3>1. a \in Broker => a \in Asker /\ a \in waiting[n]
      BY <2>1, DequeueFacts, Names
    <3>. QED
      BY <2>1, <3>1, PlacedFacts
  <2>. QED
    BY <2>1, <2>2, <2>3, GotDelivered
<1>2. ASSUME NEW b \in Broker, NEW a \in Asker \cup {Nobody}, Take(b, a) PROVE GotInv'
  <2>1. /\ progress'[b].names = {} /\ \A k \in Broker : k # b => progress'[k] = progress[k]
    BY <1>2, TakeFacts
  <2>. QED
    BY <2>1 DEF GotInv
<1>3. ASSUME NEW b \in Broker, Ask(b) \/ AskFails(b) \/ GiveUp(b) PROVE GotInv'
  <2>1. \A k \in Broker : progress'[k].names = progress[k].names
    BY <1>3, AskFacts, LoopFacts
  <2>. QED
    BY <2>1 DEF GotInv
<1>4. ASSUME NEW b \in Broker, Finish(b) PROVE GotInv'
  <2>1. /\ serving[b] \in Asker \cup {Nobody}
        /\ Deliver(serving[b], progress[b].names) /\ progress[b].names \in SUBSET Topic
    BY <1>4, FinishFacts
  <2>2. PICK a \in Asker \cup {Nobody} : a = serving[b]
    BY <2>1
  <2>3. a \in Broker => Awaits(a, b)
    BY <2>2, PlacedFacts, Names
  <2>4. progress[b].names \subseteq Below[b]
    BY DEF GotInv
  <2>. QED
    BY <2>1, <2>2, <2>3, <2>4, GotDelivered
<1>5. CASE UNCHANGED progress
  BY <1>5 DEF GotInv
<1>. QED
  BY <1>1, <1>2, <1>3, <1>4, <1>5
     DEF Next, vars, ClientAsks, ClientQuits, AddProbe, AddRemote, Crash, Restart

LEMMA PresentSame ==
    ASSUME UNCHANGED <<up, added>>
    PROVE  \A n \in Node : Present(n)' = Present(n)
<1>1. \A n \in Node : Reached(Asked, n)' = Reached(Asked, n)
  BY DEF Reached, Asked
<1>. QED
  BY <1>1 DEF Present, Offered, TopicsOf

\* What broker b has it goes on to have.
LEMMA HasKept ==
    ASSUME TypeOK, NEW b \in Broker, NEW topic, Has(b, topic),
           progress'[b] = progress[b], added'[b] \in Nat, added[b] <= added'[b],
           \A n \in Node : topic \in Present(n) => topic \in Present(n)',
           \A n \in Node : b \in waiting[n] /\ topic \in Present(n) => b \in waiting'[n]
    PROVE  Has(b, topic)'
<1>1. CASE topic \in progress[b].names
  BY <1>1 DEF Has
<1>2. CASE topic \notin progress[b].names
  <2>1. PICK i \in progress[b].next..added[b] :
           /\ topic \in Present(Remote[b][i])
           /\ i = progress[b].next /\ progress[b].asked => b \in waiting[Current(b)]
    BY <1>2 DEF Has
  <2>2. i \in 1..added[b] /\ progress[b].next \in Nat /\ added[b] \in Nat
    BY <2>1, Names DEF TypeOK
  <2>3. Remote[b][i] \in Node
    BY <2>2, RemotesFacts
  <2>4. i = progress[b].next => Current(b) = Remote[b][i] /\ Current(b)' = Remote[b][i]
    BY DEF Current
  <2>5. i \in progress'[b].next..added'[b]
    BY <2>1, <2>2
  <2>6. topic \in Present(Remote[b][i])'
    BY <2>1, <2>3
  <2>7. i = progress'[b].next /\ progress'[b].asked => b \in waiting'[Remote[b][i]]
    BY <2>1, <2>3, <2>4
  <2>. QED
    BY <2>4, <2>5, <2>6, <2>7 DEF Has
<1>. QED
  BY <1>1, <1>2

\* A topic stays held for c while everybody who works for it goes on, and has it still.
LEMMA HeldKept ==
    ASSUME NEW c \in Client, NEW topic, Held(c, topic), NEW D, Spared(c, D),
           c \in waiting[Entry[c]] /\ topic \in Present(Entry[c]) => Held(c, topic)',
           \A b \in WorkFor(c) : Has(b, topic) => b \notin D /\ Has(b, topic)'
    PROVE  Held(c, topic)'
<1>1. CASE c \in waiting[Entry[c]] /\ topic \in Present(Entry[c])
  BY <1>1
<1>2. CASE \E b \in WorkFor(c) : Has(b, topic)
  <2>1. PICK b \in WorkFor(c) : Has(b, topic)
    BY <1>2
  <2>2. b \notin D /\ Has(b, topic)' /\ b \in WorkFor(c)'
    BY <2>1, SparedStay
  <2>. QED
    BY <2>2 DEF Held
<1>. QED
  BY <1>1, <1>2 DEF Held

\* So it does while nothing but other clients' requests comes and goes.
LEMMA HeldSteady ==
    ASSUME TypeOK, NEW c \in Client, NEW topic, Held(c, topic),
           \A k \in Broker : serving[k] \in WorkFor(c) \cup {c} => serving'[k] = serving[k],
           \A b \in Broker : progress'[b] = progress[b] /\ added'[b] \in Nat
                             /\ added[b] <= added'[b],
           \A n \in Node : Present(n) \subseteq Present(n)',
           \A n \in Node : \A a \in Broker \cup {c} : a \in waiting[n] => a \in waiting'[n]
    PROVE  Held(c, topic)'
<1>1. Spared(c, {})
  BY DEF Spared
<1>2. Entry[c] \in Node
  BY EntryAssumption
<1>3. c \in waiting[Entry[c]] /\ topic \in Present(Entry[c]) => Held(c, topic)'
  BY <1>2 DEF Held
<1>4. \A b \in WorkFor(c) : Has(b, topic) => Has(b, topic)'
  BY WorkForFacts, HasKept
<1>. QED
  BY <1>1, <1>3, <1>4, HeldKept

LEMMA DueKept ==
    ASSUME NEW c \in Client, DueOf(c),
           client'[c].state = client[c].state, client'[c].answer = client[c].answer,
           client'[c].due \subseteq client[c].due,
           \A topic \in client'[c].due :
               client[c].state = "waiting" /\ Held(c, topic) => Held(c, topic)'
    PROVE  DueOf(c)'
<1>1. ASSUME client[c].state = "waiting", NEW topic \in client'[c].due
      PROVE  Held(c, topic)'
  BY <1>1 DEF DueOf
<1>2. client[c].state = "answered" => client'[c].due \subseteq client'[c].answer
  BY DEF DueOf
<1>. QED
  BY <1>1, <1>2 DEF DueOf

LEMMA ClientAsksDue ==
    ASSUME TypeOK, NEW c \in Client, DueOf(c), NEW d \in Client, ClientAsks(d)
    PROVE  DueOf(c)'
<1>1. /\ client[d].state # "waiting" /\ Entry[d] \in Node /\ Send(d, Entry[d])
      /\ \A e \in Client : e # d => client'[e] = client[e]
      /\ client'[d].state = "waiting" /\ client'[d].due = Present(Entry[d])
      /\ UNCHANGED <<up, added, serving, progress>> /\ d \in Asker
  BY AsksFacts, Names
<1>2. \A m \in Node : waiting'[m] = IF m = Entry[d] THEN waiting[m] \cup {d} ELSE waiting[m]
  BY <1>1, SendFacts
<1>3. \A n \in Node : Present(n)' = Present(n)
  BY <1>1, PresentSame
<1>4. CASE c = d
  BY <1>1, <1>2, <1>3, <1>4 DEF DueOf, Held
<1>5. CASE c # d
  <2>1. \A b \in Broker : added[b] \in Nat /\ added[b] <= added[b]
    BY Names DEF TypeOK
  <2>2. \A topic : Held(c, topic) => Held(c, topic)'
    BY <1>1, <1>2, <1>3, <2>1, HeldSteady
  <2>. QED
    BY <1>1, <1>5, <2>2, DueKept
<1>. QED
  BY <1>4, <1>5

\* Nobody else's request goes with that of a.
LEMMA AbandonKeeps ==
    ASSUME TypeOK, NEW a \in Asker, NEW n \in Node, Abandon(a, n)
    PROVE  /\ \A m \in Node : \A e \in waiting[m] : e # a => e \in waiting'[m]
           /\ \A b \in Broker : serving[b] # a => serving'[b] = serving[b]
BY AbandonFacts

LEMMA ClientQuitsDue ==
    ASSUME TypeOK, NEW c \in Client, DueOf(c), NEW d \in Client, ClientQuits(d)
    PROVE  DueOf(c)'
<1>1. /\ Entry[d] \in Node /\ Abandon(d, Entry[d]) /\ d \in Asker /\ d \notin Broker
      /\ \A e \in Client : e # d => client'[e] = client[e]
      /\ client'[d].state = "idle"
      /\ UNCHANGED <<up, added, progress>>
  BY QuitsFacts, Names
<1>2. /\ \A m \in Node : \A a \in waiting[m] : a # d => a \in waiting'[m]
      /\ \A b \in Broker : serving[b] # d => serving'[b] = serving[b]
  BY <1>1, AbandonKeeps
<1>3. \A n \in Node : Present(n)' = Present(n)
  BY <1>1, PresentSame
<1>4. CASE c = d
  BY <1>1, <1>4 DEF DueOf
<1>5. CASE c # d
  <2>1. \A b \in Broker : added[b] \in Nat /\ added[b] <= added[b]
    BY Names DEF TypeOK
  <2>2. \A k \in Broker : serving[k] \in WorkFor(c) \cup {c} => serving'[k] = serving[k]
    BY <1>1, <1>2, <1>5, WorkForFacts
  <2>3. \A n \in Node : \A a \in Broker \cup {c} : a \in waiting[n] => a \in waiting'[n]
    BY <1>1, <1>2, <1>5
  <2>4. \A topic : Held(c, topic) => Held(c, topic)'
    BY <1>1, <1>3, <2>1, <2>2, <2>3, HeldSteady
  <2>. QED
    BY <1>1, <1>5, <2>4, DueKept
<1>. QED
  BY <1>4, <1>5

\* A step that only adds to what is present.
Grows(c) ==
    /\ client'[c].state = client[c].state /\ client'[c].answer = client[c].answer
    /\ client'[c].due = client[c].due /\ UNCHANGED <<waiting, serving, progress>>
    /\ \A b \in Broker : added'[b] \in Nat /\ added[b] <= added'[b]
    /\ \A n \in Node : Asked[n] \subseteq Asked'[n]
    /\ \A n \in Controller : Offered(n) \subseteq Offered(n)'

LEMMA GrowsDue ==
    ASSUME TypeOK, NEW c \in Client, DueOf(c), Grows(c)
    PROVE  DueOf(c)'
<1>1. \A n \in Node : Present(n) \subseteq Present(n)'
  BY PresentGrows DEF Grows
<1>2. ASSUME NEW topic, Held(c, topic) PROVE Held(c, topic)'
  BY <1>1, <1>2, HeldSteady DEF Grows
<1>. QED
  BY <1>2, DueKept DEF Grows

LEMMA AddProbeDue ==
    ASSUME TypeOK, NEW c \in Client, DueOf(c), NEW n \in Controller, AddProbe(n)
    PROVE  DueOf(c)'
<1>1. /\ client'[c].state = client[c].state /\ client'[c].answer = client[c].answer
      /\ client'[c].due = client[c].due /\ UNCHANGED <<up, waiting, serving, progress>>
      /\ added[n] \in Nat /\ added'[n] = added[n] + 1
      /\ \A m \in Node : m # n => added'[m] = added[m]
  BY AddProbeFacts
<1>2. \A b \in Broker : b \in Node /\ b # n /\ added[b] \in Nat
  BY Names DEF TypeOK
<1>3. \A b \in Broker : added'[b] \in Nat /\ added[b] <= added'[b]
  BY <1>1, <1>2
<1>4. \A m \in Node : Asked'[m] = Asked[m]
  BY <1>1, <1>2 DEF Asked
<1>5. \A m \in Controller : Offered(m) \subseteq Offered(m)'
  <2>1. \A i \in 1..added[n] : i \in 1..added'[n]
    BY <1>1
  <2>2. Offered(n) \subseteq Offered(n)'
    BY <1>1, <2>1 DEF Offered, TopicsOf
  <2>3. \A m \in Controller : m # n => Offered(m)' = Offered(m)
    BY <1>1 DEF Offered, TopicsOf, Node
  <2>. QED
    BY <2>2, <2>3
<1>6. Grows(c)
  BY <1>1, <1>3, <1>4, <1>5 DEF Grows
<1>. QED
  BY <1>6, GrowsDue

LEMMA AddRemoteDue ==
    ASSUME TypeOK, NEW c \in Client, DueOf(c), NEW b \in Broker, AddRemote(b)
    PROVE  DueOf(c)'
<1>1. /\ added[b] \in Nat /\ added'[b] = added[b] + 1
      /\ \A m \in Node : m # b => added'[m] = added[m]
      /\ UNCHANGED <<up, waiting, serving, progress, client>>
  BY AddRemoteFacts
<1>2. /\ \A k \in Broker : k \in Node /\ added[k] \in Nat
      /\ \A m \in Controller : m \in Node /\ m # b
  BY Names DEF TypeOK, Node
<1>3. \A k \in Broker : added'[k] \in Nat /\ added[k] <= added'[k]
  BY <1>1, <1>2
<1>4. \A m \in Node : Asked[m] \subseteq Asked'[m]
  <2>1. \A i \in 1..added[b] : i \in 1..added'[b]
    BY <1>1
  <2>2. Asked[b] \subseteq Asked'[b]
    BY <1>1, <1>2, <2>1 DEF Asked
  <2>3. \A m \in Node : m # b => Asked'[m] = Asked[m]
    BY <1>1 DEF Asked
  <2>. QED
    BY <2>2, <2>3
<1>5. \A m \in Controller : Offered(m)' = Offered(m)
  BY <1>1, <1>2 DEF Offered, TopicsOf
<1>6. Grows(c)
  BY <1>1, <1>3, <1>4, <1>5 DEF Grows
<1>. QED
  BY <1>6, GrowsDue

LEMMA RestartDue ==
    ASSUME TypeOK, NEW c \in Client, DueOf(c), NEW n \in Node, Restart(n)
    PROVE  DueOf(c)'
<1>1. /\ ~up[n] /\ \A m \in Node : m # n => up'[m] = up[m]
      /\ UNCHANGED <<added, waiting, serving, progress, client>>
  BY DEF Restart, TypeOK
<1>2. \A b \in Broker : added'[b] \in Nat /\ added[b] <= added'[b]
  BY <1>1, Names DEF TypeOK
<1>3. \A m \in Node : Asked[m] \subseteq Asked'[m]
  <2>1. Asked[n] = {}
    BY <1>1 DEF Asked
  <2>2. \A m \in Node : m # n => Asked'[m] = Asked[m]
    BY <1>1 DEF Asked
  <2>. QED
    BY <2>1, <2>2
<1>4. \A m \in Controller : Offered(m) \subseteq Offered(m)'
  BY <1>1 DEF Offered, TopicsOf, Node
<1>5. Grows(c)
  BY <1>1, <1>2, <1>3, <1>4 DEF Grows
<1>. QED
  BY <1>5, GrowsDue

LEMMA StutterDue ==
    ASSUME TypeOK, NEW c \in Client, DueOf(c), UNCHANGED vars
    PROVE  DueOf(c)'
<1>1. UNCHANGED <<up, added, waiting, serving, progress, client>>
  BY DEF vars
<1>2. \A b \in Broker : added'[b] \in Nat /\ added[b] <= added'[b]
  BY <1>1, Names DEF TypeOK
<1>3. \A m \in Node : Asked'[m] = Asked[m]
  BY <1>1 DEF Asked
<1>4. \A m \in Controller : Offered(m)' = Offered(m)
  BY <1>1 DEF Offered, TopicsOf
<1>5. Grows(c)
  BY <1>1, <1>2, <1>3, <1>4 DEF Grows
<1>. QED
  BY <1>5, GrowsDue

\* What a broker has it had from below it.
LEMMA HasBelow ==
    ASSUME TypeOK, GotInv, NEW b \in Broker, NEW topic, Has(b, topic)
    PROVE  topic \in Below[b]
<1>1. CASE topic \in progress[b].names
  BY <1>1 DEF GotInv
<1>2. CASE topic \notin progress[b].names
  <2>1. PICK i \in progress[b].next..added[b] : topic \in Present(Remote[b][i])
    BY <1>2 DEF Has
  <2>2. i \in 1..added[b] /\ b \in Node
    BY <2>1, Names DEF TypeOK
  <2>3. Remote[b][i] \in Node /\ Remote[b][i] \in Remotes[b]
    BY <2>2, RemotesFacts
  <2>4. Remote[b][i] \in Reached(Remotes, b)
    BY <2>2, <2>3, ReachedFacts
  <2>5. topic \in Below[Remote[b][i]]
    BY <2>1, <2>3, PresentBelow
  <2>. QED
    BY <2>2, <2>4, <2>5, BelowFacts
<1>. QED
  BY <1>1, <1>2

\* Who works for a broker below n is below n.
LEMMA DownSpared ==
    ASSUME TypeOK, ReachInv, NEW n \in Node, NEW k \in Broker,
           serving[k] \in Reached(Remotes, n) \cap Broker
    PROVE  k \in Reached(Remotes, n) \cap Broker
<1>1. PICK a \in Reached(Remotes, n) \cap Broker : a = serving[k]
  OBVIOUS
<1>2. Awaits(a, k)
  BY <1>1, PlacedFacts, Names
<1>3. k \in Reached(Remotes, a)
  BY <1>2, AwaitedBelow
<1>. QED
  BY <1>3, BelowFacts

\* A broker that gets an answer has what it had, and what the answer has.
LEMMA HasDelivered ==
    ASSUME TypeOK, NEW b \in Broker, NEW topic, NEW found \in SUBSET Topic,
           Deliver(b, found), UNCHANGED <<up, added>>, progress[b].asked,
           \/ topic \in found
           \/ /\ Has(b, topic)
              /\ ~(topic \in Present(Current(b)) /\ b \in waiting[Current(b)])
    PROVE  Has(b, topic)'
<1>1. /\ progress'[b].next = progress[b].next + 1 /\ ~progress'[b].asked
      /\ progress'[b].names = Union(progress[b].names, found)
  BY DeliverFacts, Names
<1>2. CASE topic \in progress[b].names \/ topic \in found
  BY <1>1, <1>2 DEF Has, Union
<1>3. CASE topic \notin progress[b].names /\ topic \notin found
  <2>1. PICK i \in progress[b].next..added[b] :
           /\ topic \in Present(Remote[b][i])
           /\ i = progress[b].next /\ progress[b].asked => b \in waiting[Current(b)]
    BY <1>3 DEF Has
  <2>2. i \in 1..added[b] /\ progress[b].next \in Nat /\ added[b] \in Nat
    BY <2>1, Names DEF TypeOK
  <2>3. Remote[b][i] \in Node
    BY <2>2, RemotesFacts
  <2>4. i # progress[b].next
    BY <1>3, <2>1 DEF Current
  <2>5. i \in progress'[b].next..added'[b]
    BY <1>1, <2>1, <2>2, <2>4
  <2>6. topic \in Present(Remote[b][i])'
    BY <2>1, <2>3, PresentSame
  <2>. QED
    BY <1>1, <2>5, <2>6 DEF Has
<1>. QED
  BY <1>2, <1>3

LEMMA AnswerDue ==
    ASSUME TypeOK, ReachInv, NEW c \in Client, DueOf(c), NEW n \in Controller,
           NEW a \in Asker \cup {Nobody}, Answer(n, a)
    PROVE  DueOf(c)'
<1>1. /\ n \in Node /\ Dequeue(n, a) /\ Deliver(a, Offered(n)) /\ Offered(n) \in SUBSET Topic
      /\ UNCHANGED <<up, added, serving>> /\ Present(n) = Offered(n)
  BY AnswerFacts, PresentAtController
<1>2. /\ a \in Asker => a \in waiting[n]
      /\ \A m \in Node : \A e \in waiting[m] : e # a => e \in waiting'[m]
  BY <1>1, DequeueFacts
<1>f. PICK found \in SUBSET Topic : found = Offered(n) /\ Deliver(a, found)
  BY <1>1
<1>3. c \in Asker /\ \A b \in Broker : b # c /\ b # n /\ b \in Asker
  BY Names
<1>4. CASE a = c
  <2>1. Awaits(c, n)
    BY <1>1, <1>2, <1>3, <1>4, PlacedFacts
  <2>2. Entry[c] = n
    BY <2>1 DEF Awaits
  <2>3. \A b \in Broker : serving[b] # c
    <3>1. \A m : Awaits(c, m) => m = n
      BY <2>1, AwaitsOnce
    <3>. QED
      BY <1>3, <3>1, PlacedFacts
  <2>4. WorkFor(c) = {}
    BY <2>3, WorkForLeast
  <2>5. client[c].state = "waiting"
    BY <2>1 DEF Awaits
  <2>6. client[c].due \subseteq Offered(n)
    BY <1>1, <2>2, <2>4, <2>5 DEF DueOf, Held
  <2>7. /\ client'[c].state = "answered" /\ client'[c].answer = Offered(n)
        /\ client'[c].due = client[c].due
    BY <1>1, <1>4, <1>f, GivenFacts
  <2>. QED
    BY <2>6, <2>7 DEF DueOf
<1>5. CASE a # c
  <2>1. client'[c] = client[c]
    BY <1>1, <1>5, DeliverFacts
  <2>2. Spared(c, {})
    BY <1>1 DEF Spared
  <2>3. \A m \in Node : Present(m)' = Present(m)
    BY <1>1, PresentSame
  <2>4. ASSUME NEW topic, Held(c, topic) PROVE Held(c, topic)'
    <3>1. c \in waiting[Entry[c]] /\ topic \in Present(Entry[c]) => Held(c, topic)'
      BY <1>2, <1>5, <2>3, EntryAssumption DEF Held
    <3>2. ASSUME NEW b \in Broker, Has(b, topic), b # a PROVE Has(b, topic)'
      <4>1. progress'[b] = progress[b]
        BY <1>f, <3>2, GivenFacts
      <4>2. added'[b] \in Nat /\ added[b] <= added'[b]
        BY <1>1, Names DEF TypeOK
      <4>. QED
        BY <1>2, <2>3, <3>2, <4>1, <4>2, HasKept
    <3>3. ASSUME NEW b \in Broker, Has(b, topic), b = a PROVE Has(b, topic)'
      <4>1. Awaits(b, n)
        BY <1>1, <1>2, <1>3, <3>3, PlacedFacts
      <4>2. Current(b) = n /\ progress[b].asked
        BY <4>1, AwaitedBelow
      <4>. QED
        BY <1>1, <3>3, <4>2, HasDelivered
    <3>4. \A b \in WorkFor(c) : Has(b, topic) => b \notin {} /\ Has(b, topic)'
      BY <3>2, <3>3, WorkForFacts
    <3>. QED
      BY <2>2, <2>4, <3>1, <3>4, HeldKept
  <2>. QED
    BY <2>1, <2>4, DueKept
<1>. QED
  BY <1>4, <1>5

LEMMA FinishDue ==
    ASSUME TypeOK, ReachInv, NEW c \in Client, DueOf(c), NEW b \in Broker, Finish(b)
    PROVE  DueOf(c)'
<1>1. /\ serving[b] \in Asker \cup {Nobody} /\ progress[b].next > added[b]
      /\ Deliver(serving[b], progress[b].names) /\ progress[b].names \in SUBSET Topic
      /\ serving'[b] = Idle /\ \A k \in Broker : k # b => serving'[k] = serving[k]
      /\ ~InLoop(b) /\ UNCHANGED <<up, added, waiting>>
  BY FinishFacts
<1>f. PICK a \in Asker \cup {Nobody}, found \in SUBSET Topic :
         a = serving[b] /\ found = progress[b].names /\ Deliver(a, found)
  BY <1>1
<1>2. /\ c \in Asker /\ b \in Asker /\ b # c /\ b \in Node
      /\ \A k \in Broker : k \in Node /\ added[k] \in Nat /\ progress[k].next \in Nat
  BY Names DEF TypeOK
<1>3. \A k \in Broker : serving[k] # b
  BY <1>1, <1>2, PlacedFacts
<1>4. ASSUME NEW topic, Has(b, topic) PROVE topic \in found
  <2>1. \A i \in progress[b].next..added[b] : FALSE
    BY <1>1, <1>2
  <2>. QED
    BY <1>4, <1>f, <2>1 DEF Has
<1>5. \A n \in Node : Present(n)' = Present(n)
  BY <1>1, PresentSame
<1>6. CASE a = c
  <2>1. Awaits(c, b) /\ c \notin waiting[b]
    BY <1>2, <1>f, <1>6, PlacedFacts
  <2>2. Entry[c] = b /\ client[c].state = "waiting"
    BY <2>1 DEF Awaits
  <2>3. \A k \in Broker : serving[k] = c => k = b
    <3>1. \A m : Awaits(c, m) => m = b
      BY <2>1, AwaitsOnce
    <3>. QED
      BY <1>2, <3>1, PlacedFacts
  <2>4. WorkFor(c) \subseteq {b}
    <3>1. \A k \in Broker : serving[k] \in {b} \cup {c} => k \in {b}
      BY <1>3, <2>3
    <3>. QED
      BY <3>1, WorkForLeast
  <2>5. client[c].due \subseteq found
    BY <1>4, <2>1, <2>2, <2>4 DEF DueOf, Held
  <2>6. /\ client'[c].state = "answered" /\ client'[c].answer = found
        /\ client'[c].due = client[c].due
    BY <1>f, <1>6, GivenFacts
  <2>. QED
    BY <2>5, <2>6 DEF DueOf
<1>7. CASE a # c
  <2>1. client'[c] = client[c] /\ \A k \in Broker : k # a => progress'[k] = progress[k]
    BY <1>f, <1>7, GivenFacts
  <2>2. Spared(c, {b})
    BY <1>1, <1>3 DEF Spared
  <2>3. ASSUME NEW topic, NEW k \in Broker, Has(k, topic), k # a PROVE Has(k, topic)'
    <3>1. added'[k] \in Nat /\ added[k] <= added'[k]
      BY <1>1, <1>2
    <3>. QED
      BY <1>1, <1>5, <2>1, <2>3, <3>1, HasKept
  <2>4. ASSUME NEW topic, a \in Broker, topic \in found \/ Has(a, topic) PROVE Has(a, topic)'
    <3>1. Awaits(a, b) /\ a \notin waiting[b]
      BY <1>f, <2>4, PlacedFacts, Names
    <3>2. Current(a) = b /\ progress[a].asked
      BY <2>4, <3>1, AwaitedBelow
    <3>3. \/ topic \in found
          \/ /\ Has(a, topic)
             /\ ~(topic \in Present(Current(a)) /\ a \in waiting[Current(a)])
      BY <2>4, <3>1, <3>2
    <3>4. Deliver(a, found) /\ UNCHANGED <<up, added>> /\ progress[a].asked
      BY <1>1, <1>f, <3>2
    <3>. QED
      BY <2>4, <3>3, <3>4, HasDelivered
  <2>5. ASSUME NEW topic, Held(c, topic) PROVE Held(c, topic)'
    <3>1. CASE c \in waiting[Entry[c]] /\ topic \in Present(Entry[c])
      BY <1>1, <1>5, <3>1, EntryAssumption DEF Held
    <3>2. CASE \E k \in WorkFor(c) : Has(k, topic)
      <4>1. PICK k \in WorkFor(c) : Has(k, topic)
        BY <3>2
      <4>2. k \in Broker
        BY WorkForFacts
      <4>3. CASE k # b
        <5>1. Has(k, topic)'
          BY <2>3, <2>4, <4>1, <4>2
        <5>2. k \in WorkFor(c)'
          BY <2>2, <4>3, SparedStay
        <5>. QED
          BY <5>1, <5>2 DEF Held
      <4>4. CASE k = b
        <5>1. a \in WorkFor(c)
          BY <1>f, <1>7, <4>4, WorkForServes
        <5>2. a \in Broker /\ a # b
          BY <1>3, <1>f, <5>1, WorkForFacts
        <5>3. a \in WorkFor(c)'
          BY <2>2, <5>1, <5>2, SparedStay
        <5>4. Has(a, topic)'
          BY <1>4, <2>4, <4>1, <4>4, <5>2
        <5>. QED
          BY <5>3, <5>4 DEF Held
      <4>. QED
        BY <4>3, <4>4
    <3>. QED
      BY <2>5, <3>1, <3>2 DEF Held
  <2>. QED
    BY <2>1, <2>5, DueKept
<1>. QED
  BY <1>6, <1>7

LEMMA TakeDue ==
    ASSUME TypeOK, ReachInv, NEW c \in Client, DueOf(c), NEW b \in Broker,
           NEW a \in Asker \cup {Nobody}, Take(b, a)
    PROVE  DueOf(c)'
<1>1. /\ b \in Node /\ serving[b] = Idle /\ Dequeue(b, a)
      /\ serving'[b] = a /\ \A k \in Broker : k # b => serving'[k] = serving[k]
      /\ progress'[b].next = 1 /\ ~progress'[b].asked
      /\ \A k \in Broker : k # b => progress'[k] = progress[k]
      /\ UNCHANGED <<up, added, client>>
  BY TakeFacts
<1>2. \A m \in Node : \A e \in waiting[m] : e # a \/ m # b => e \in waiting'[m]
  BY <1>1, DequeueFacts
<1>3. Idle \notin Broker \cup {c} /\ \A k \in Broker : k \in Node /\ added[k] \in Nat
  BY Names DEF TypeOK
<1>4. b \notin WorkFor(c)
  BY <1>1, <1>3, WorkForFacts, WorkForServes
<1>5. \A k \in WorkFor(c) : k \in WorkFor(c)'
  <2>1. Spared(c, {})
    BY <1>1, <1>3, WorkForFacts DEF Spared
  <2>. QED
    BY <2>1, SparedStay
<1>6. \A n \in Node : Present(n)' = Present(n)
  BY <1>1, PresentSame
<1>7. ASSUME NEW topic \in Present(b), a \in WorkFor(c)' \cup {c} PROVE Held(c, topic)'
  <2>1. PICK i \in 1..added[b] : topic \in Present(Remote[b][i])
    BY PresentAtBroker
  <2>2. topic \in Present(Remote[b][i])'
    BY <1>6, <2>1, RemotesFacts
  <2>3. i \in progress'[b].next..added'[b]
    BY <1>1, <2>1
  <2>4. Has(b, topic)'
    BY <1>1, <2>2, <2>3 DEF Has
  <2>5. b \in WorkFor(c)'
    BY <1>1, <1>7 DEF WorkFor
  <2>. QED
    BY <2>4, <2>5 DEF Held
<1>8. ASSUME NEW topic, Held(c, topic) PROVE Held(c, topic)'
  <2>1. CASE c \in waiting[Entry[c]] /\ topic \in Present(Entry[c])
    <3>1. CASE c = a /\ Entry[c] = b
      BY <1>7, <2>1, <3>1
    <3>2. CASE ~(c = a /\ Entry[c] = b)
      BY <1>2, <1>6, <2>1, <3>2, EntryAssumption DEF Held
    <3>. QED
      BY <3>1, <3>2
  <2>2. CASE \E k \in WorkFor(c) : Has(k, topic)
    <3>1. PICK k \in WorkFor(c) : Has(k, topic)
      BY <2>2
    <3>2. k \in Broker /\ k # b /\ k \in WorkFor(c)'
      BY <1>4, <1>5, WorkForFacts
    <3>3. CASE k = a /\ topic \in Present(b)
      BY <1>7, <3>2, <3>3
    <3>4. CASE ~(k = a /\ topic \in Present(b))
      <4>1. \A n \in Node : k \in waiting[n] /\ topic \in Present(n) => k \in waiting'[n]
        BY <1>2, <3>4
      <4>2. progress'[k] = progress[k] /\ added'[k] \in Nat /\ added[k] <= added'[k]
        BY <1>1, <1>3, <3>2
      <4>3. Has(k, topic)'
        BY <1>6, <3>1, <3>2, <4>1, <4>2, HasKept
      <4>. QED
        BY <3>2, <4>3 DEF Held
    <3>. QED
      BY <3>3, <3>4
  <2>. QED
    BY <1>8, <2>1, <2>2 DEF Held
<1>. QED
  BY <1>1, <1>8, DueKept

LEMMA AskDue ==
    ASSUME TypeOK, NEW c \in Client, DueOf(c), NEW b \in Broker, Ask(b)
    PROVE  DueOf(c)'
<1>1. /\ InLoop(b) /\ Current(b) \in Node /\ Send(b, Current(b)) /\ b \in Asker
      /\ progress'[b].next = progress[b].next /\ progress'[b].asked
      /\ progress'[b].names = progress[b].names
      /\ \A k \in Broker : k # b => progress'[k] = progress[k]
      /\ UNCHANGED <<up, added, serving, client>>
  BY AskFacts, Names
<1>2. /\ \A n \in Node : waiting[n] \subseteq waiting'[n]
      /\ b \in waiting'[Current(b)]
  BY <1>1, SendFacts
<1>3. \A n \in Node : Present(n)' = Present(n)
  BY <1>1, PresentSame
<1>4. ASSUME NEW topic, Has(b, topic) PROVE Has(b, topic)'
  <2>1. CASE topic \in progress[b].names
    BY <1>1, <2>1 DEF Has
  <2>2. CASE topic \notin progress[b].names
    <3>1. PICK i \in progress[b].next..added[b] : topic \in Present(Remote[b][i])
      BY <1>4, <2>2 DEF Has
    <3>2. i \in 1..added[b]
      BY <3>1, Names DEF TypeOK
    <3>3. topic \in Present(Remote[b][i])'
      BY <1>3, <3>1, <3>2, RemotesFacts
    <3>4. Current(b)' = Current(b)
      BY <1>1 DEF Current
    <3>. QED
      BY <1>1, <1>2, <3>1, <3>3, <3>4 DEF Has
  <2>. QED
    BY <2>1, <2>2
<1>5. ASSUME NEW topic, NEW k \in Broker, Has(k, topic), k # b PROVE Has(k, topic)'
  <2>1. progress'[k] = progress[k] /\ added'[k] \in Nat /\ added[k] <= added'[k]
    BY <1>1, <1>5, Names DEF TypeOK
  <2>. QED
    BY <1>2, <1>3, <1>5, <2>1, HasKept
<1>6. Spared(c, {})
  BY <1>1 DEF Spared
<1>7. ASSUME NEW topic, Held(c, topic) PROVE Held(c, topic)'
  <2>1. c \in waiting[Entry[c]] /\ topic \in Present(Entry[c]) => Held(c, topic)'
    BY <1>2, <1>3, EntryAssumption DEF Held
  <2>2. \A k \in WorkFor(c) : Has(k, topic) => k \notin {} /\ Has(k, topic)'
    BY <1>4, <1>5, WorkForFacts
  <2>. QED
    BY <1>6, <1>7, <2>1, <2>2, HeldKept
<1>. QED
  BY <1>1, <1>7, DueKept

\* A remote that is passed over costs what is below it, and nothing else.
LEMMA PassedDue ==
    ASSUME TypeOK, ReachInv, GotInv, NEW c \in Client, DueOf(c), NEW b \in Broker,
           GiveUp(b) \/ AskFails(b)
    PROVE  DueOf(c)'
<1>. DEFINE n == Current(b)
            D == IF b \in WorkFor(c) THEN Reached(Remotes, n) \cap Broker ELSE {}
<1>1. /\ \A k \in Broker : k # b => progress'[k] = progress[k]
      /\ progress'[b].next = progress[b].next + 1 /\ ~progress'[b].asked
      /\ progress'[b].names = progress[b].names
      /\ InLoop(b) /\ UNCHANGED <<up, added>> /\ client' = Missed(b, n)
      /\ n \in Node /\ b \in Asker /\ b # c
  BY LoopFacts, CurrentType, Names
<1>2. /\ client'[c].state = client[c].state /\ client'[c].answer = client[c].answer
      /\ client'[c].due = IF b \in WorkFor(c) THEN client[c].due \ Below[n] ELSE client[c].due
  BY <1>1, MissedFacts
<1>3. /\ \A m \in Node : \A e \in waiting[m] : e # b => e \in waiting'[m]
      /\ \A k \in Broker : (serving[k] = b /\ k = n) \/ serving'[k] = serving[k]
  <2>1. CASE GiveUp(b)
    <3>1. Abandon(b, n)
      BY <2>1 DEF GiveUp
    <3>2. \A m \in Node : \A e \in waiting[m] : e # b => e \in waiting'[m]
      BY <1>1, <3>1, AbandonKeeps
    <3>3. \A k \in Broker : (serving[k] = b /\ k = n) \/ serving'[k] = serving[k]
      BY <1>1, <3>1, AbandonFacts
    <3>. QED
      BY <3>2, <3>3
  <2>2. CASE AskFails(b)
    BY <2>2 DEF AskFails
  <2>. QED
    BY <2>1, <2>2
<1>4. \A m \in Node : Present(m)' = Present(m)
  BY <1>1, PresentSame
<1>. HIDE DEF n
<1>5. Spared(c, D)
  <2>1. CASE b \in WorkFor(c)
    <3>1. n \in Reached(Remotes, n)
      BY <1>1, ReachedFacts
    <3>2. \A k \in Broker : serving[k] \in Reached(Remotes, n) \cap Broker =>
              k \in Reached(Remotes, n) \cap Broker
      BY <1>1, DownSpared
    <3>. QED
      BY <1>3, <2>1, <3>1, <3>2 DEF Spared
  <2>2. CASE b \notin WorkFor(c)
    BY <1>1, <1>3, <2>2 DEF Spared
  <2>. QED
    BY <2>1, <2>2
<1>6. ASSUME NEW topic \in client'[c].due, Held(c, topic) PROVE Held(c, topic)'
  <2>1. c \in waiting[Entry[c]] /\ topic \in Present(Entry[c]) => Held(c, topic)'
    BY <1>1, <1>3, <1>4, EntryAssumption DEF Held
  <2>2. ASSUME NEW k \in WorkFor(c), Has(k, topic) PROVE k \notin D
    <3>1. SUFFICES ASSUME b \in WorkFor(c), k \in Reached(Remotes, n) \cap Broker PROVE FALSE
      OBVIOUS
    <3>2. topic \in Below[k]
      BY <2>2, <3>1, HasBelow
    <3>3. topic \in Below[n]
      BY <1>1, <3>1, <3>2, BelowFacts
    <3>. QED
      BY <1>2, <1>6, <3>1, <3>3
  <2>3. ASSUME NEW k \in WorkFor(c), Has(k, topic), k # b PROVE Has(k, topic)'
    <3>1. k \in Broker
      BY WorkForFacts
    <3>2. progress'[k] = progress[k] /\ added'[k] \in Nat /\ added[k] <= added'[k]
      BY <1>1, <2>3, <3>1, Names DEF TypeOK
    <3>. QED
      BY <1>3, <1>4, <2>3, <3>1, <3>2, HasKept
  <2>4. ASSUME b \in WorkFor(c), Has(b, topic) PROVE Has(b, topic)'
    <3>1. CASE topic \in progress[b].names
      BY <1>1, <3>1 DEF Has
    <3>2. CASE topic \notin progress[b].names
      <4>1. PICK i \in progress[b].next..added[b] : topic \in Present(Remote[b][i])
        BY <2>4, <3>2 DEF Has
      <4>2. i \in 1..added[b] /\ progress[b].next \in Nat /\ added[b] \in Nat
        BY <4>1, Names DEF TypeOK
      <4>3. i # progress[b].next
        <5>1. topic \notin Below[n]
          BY <1>2, <1>6, <2>4
        <5>2. topic \notin Present(n)
          BY <1>1, <5>1, PresentBelow
        <5>. QED
          BY <4>1, <5>2 DEF n, Current
      <4>4. i \in progress'[b].next..added'[b]
        BY <1>1, <4>1, <4>2, <4>3
      <4>5. topic \in Present(Remote[b][i])'
        BY <1>4, <4>1, <4>2, RemotesFacts
      <4>. QED
        BY <1>1, <4>4, <4>5 DEF Has
    <3>. QED
      BY <3>1, <3>2
  <2>5. \A k \in WorkFor(c) : Has(k, topic) => k \notin D /\ Has(k, topic)'
    BY <2>2, <2>3, <2>4
  <2>. HIDE DEF D
  <2>. QED
    BY <1>5, <1>6, <2>1, <2>5, HeldKept
<1>. QED
  BY <1>2, <1>6, DueKept

LEMMA CrashDue ==
    ASSUME TypeOK, ReachInv, GotInv, NEW c \in Client, DueOf(c), NEW n \in Node, Crash(n)
    PROVE  DueOf(c)'
<1>. DEFINE D == Reached(Remotes, n) \cap Broker
            asks(m) == n \in Broker /\ InLoop(n) /\ progress[n].asked /\ m = Current(n)
<1>1. /\ up' = [up EXCEPT ![n] = FALSE] /\ added' = [added EXCEPT ![n] = 0]
      /\ progress' = progress
      /\ \A m \in Node : m # n => \A a \in waiting[m] \ {n} : a \in waiting'[m]
      /\ \A b \in Broker : serving'[b] = IF b = n THEN Idle
                                         ELSE IF asks(b) /\ serving[b] = n THEN Nobody
                                         ELSE serving[b]
      /\ client'[c].state = client[c].state /\ client'[c].answer = client[c].answer
      /\ client'[c].due = client[c].due \ Below[n]
  BY CrashFacts
<1>2. /\ \A m \in Node : m # n => up'[m] = up[m] /\ added'[m] = added[m]
      /\ \A b \in Broker : b \in Node /\ added[b] \in Nat
      /\ c # n
  BY <1>1, Names DEF TypeOK
<1>3. n \in Reached(Remotes, n) /\ (n \in Broker => n \in D)
  BY ReachedFacts
<1>4. Spared(c, D)
  <2>1. \A k \in Broker : serving[k] \in D => k \in D
    BY DownSpared
  <2>2. ASSUME NEW k \in Broker, asks(k) /\ serving[k] = n PROVE k \in D
    BY <1>3, <2>1, <2>2
  <2>3. \A k \in Broker \ D : serving'[k] = serving[k]
    BY <1>1, <1>3, <2>2
  <2>. QED
    BY <2>1, <2>3 DEF Spared
<1>. HIDE DEF asks
<1>5. ASSUME NEW m \in Node, NEW topic \in Present(m), topic \notin Below[n]
      PROVE  topic \in Present(m)' /\ m # n
  <2>1. \A k \in Node : k # n => Asked'[k] = Asked[k]
    BY <1>2 DEF Asked
  <2>2. \A k \in Controller : k # n => Offered(k)' = Offered(k)
    BY <1>2 DEF Offered, TopicsOf, Node
  <2>3. topic \in Present(m)'
    BY <1>5, <2>1, <2>2, PresentAfterCrash
  <2>. QED
    BY <1>5, <2>3, PresentBelow
<1>6. ASSUME NEW topic \in client'[c].due, Held(c, topic) PROVE Held(c, topic)'
  <2>1. topic \notin Below[n]
    BY <1>1, <1>6
  <2>2. c \in waiting[Entry[c]] /\ topic \in Present(Entry[c]) => Held(c, topic)'
    BY <1>1, <1>2, <1>5, <2>1, EntryAssumption DEF Held
  <2>3. ASSUME NEW k \in WorkFor(c), Has(k, topic) PROVE k \notin D /\ Has(k, topic)'
    <3>1. k \in Broker
      BY WorkForFacts
    <3>2. topic \in Below[k]
      BY <2>3, <3>1, HasBelow
    <3>3. k \notin D
      BY <2>1, <3>2, BelowFacts
    <3>4. k # n
      BY <1>3, <3>1, <3>3
    <3>5. progress'[k] = progress[k] /\ added'[k] \in Nat /\ added[k] <= added'[k]
      BY <1>1, <1>2, <3>1, <3>4
    <3>6. \A m \in Node : topic \in Present(m) => topic \in Present(m)'
      BY <1>5, <2>1
    <3>7. \A m \in Node : k \in waiting[m] /\ topic \in Present(m) => k \in waiting'[m]
      BY <1>1, <1>5, <2>1, <3>4
    <3>8. Has(k, topic)'
      BY <2>3, <3>1, <3>5, <3>6, <3>7, HasKept
    <3>. QED
      BY <3>3, <3>8
  <2>. HIDE DEF D
  <2>. QED
    BY <1>4, <1>6, <2>2, <2>3, HeldKept
<1>. QED
  BY <1>1, <1>6, DueKept

LEMMA NextDue == ASSUME TypeOK, ReachInv, GotInv, DueInv, [Next]_vars PROVE DueInv'
<1>1. SUFFICES ASSUME NEW c \in Client PROVE DueOf(c)'
  BY DEF DueInv
<1>2. DueOf(c)
  BY DEF DueInv
<1>. QED
  BY <1>2, ClientAsksDue, ClientQuitsDue, AddProbeDue, AddRemoteDue, RestartDue, StutterDue,
     AnswerDue, TakeDue, AskDue, PassedDue, FinishDue, CrashDue
     DEF Next

LEMMA InitDue == Init => GotInv /\ DueInv
BY DEF Init, GotInv, DueInv, DueOf

\* Silent, dead and slow remotes cost an answer their own topics and no others: what could
\* be found when a client asked is in its answer, unless a broker that worked for it gave
\* up on a testpoint it comes through, or one crashed meanwhile.
THEOREM SilenceCostsOnlyItsOwn == Spec => []OnlyTheSilentAreMissing
<1>1. DueInv => OnlyTheSilentAreMissing
  BY DEF DueInv, DueOf, OnlyTheSilentAreMissing
<1>. QED
  BY <1>1, InitType, InitReach, InitDue, NextType, NextReach, NextGot, NextDue, PTL DEF Spec
=============================================================================
