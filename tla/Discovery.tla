------------------------------- MODULE Discovery -------------------------------
(***************************************************************************)
(* Discovery of topics through tiers of testpoints.  A controller answers  *)
(* with the topics of its probes; a broker asks its remote testpoints, one *)
(* after the other, and answers with the union.  A remote that does not    *)
(* answer in time is given up on; its request is then nobody's, and is     *)
(* served all the same.                                                    *)
(*                                                                         *)
(* An answer reaches its asker in the step that sends it: an answer that   *)
(* comes after its asker gave up is an answer sent after it.               *)
(***************************************************************************)
EXTENDS Integers, Sequences, FiniteSets

CONSTANTS
    Controller, Broker, Client, Topic,
    ProbeTopics,  \* the sets of topics of a controller's probes, in ADD order
    Remote,       \* the testpoints of a broker, in ADD order
    Entry,        \* the testpoint that a client asks
    Nobody,       \* the asker that has gone
    Idle,         \* the asker of a testpoint that serves no request
    MaxCrashes,   \* bound on the crashes
    MaxRequests   \* bound on the requests of all clients

Node == Controller \cup Broker
Asker == Broker \cup Client

ASSUME NamesAssumption ==
    /\ Controller \cap Broker = {} /\ Node \cap Client = {}
    /\ Nobody \notin Asker /\ Idle \notin Asker /\ Nobody # Idle
ASSUME ProbesAssumption ==
    \A n \in Controller : ProbeTopics[n] \in Seq(SUBSET Topic)
ASSUME RemoteAssumption == Remote \in [Broker -> Seq(Node)]
ASSUME EntryAssumption == Entry \in [Client -> Node]
ASSUME BoundsAssumption == MaxCrashes \in Nat /\ MaxRequests \in Nat

VARIABLES
    up,        \* the processes that run
    added,     \* how many ADD commands a processing thread has handled
    waiting,   \* the askers whose request a testpoint has not yet taken
    orphans,   \* the number of requests of nobody at a testpoint
    serving,   \* the asker a broker works for
    progress,  \* a broker's loop over its remotes
    client,    \* a client's exchange, with what its answer must and may hold
    crashes, requests

nodes == <<up, added>>
bounds == <<crashes, requests>>
vars == <<up, added, waiting, orphans, serving, progress, client, crashes,
          requests>>

-----------------------------------------------------------------------------
(* Which topics can be found.                                              *)

TopicsOf(n, k) == UNION {ProbeTopics[n][i] : i \in 1..k}

\* The nodes reached from n along the edges: those in every set that has n and
\* what the edges of its members lead to.
Reached(edges, n) ==
    {m \in Node : \A S \in SUBSET Node :
        n \in S /\ (\A k \in S : edges[k] \subseteq S) => m \in S}

\* The testpoints a node may ever ask.
Remotes ==
    [n \in Node |-> IF n \in Broker THEN {Remote[n][i] : i \in DOMAIN Remote[n]}
                    ELSE {}]

\* All topics that could ever come from a node.
Below ==
    [n \in Node |-> UNION {TopicsOf(m, Len(ProbeTopics[m])) :
                               m \in Reached(Remotes, n) \cap Controller}]

\* The topics a controller's processing thread knows (probeSet).
Offered(n) == IF up[n] THEN TopicsOf(n, added[n]) ELSE {}

\* The testpoints a node asks now.
Asked ==
    [n \in Node |-> IF n \in Broker /\ up[n]
                    THEN {Remote[n][i] : i \in 1..added[n]} ELSE {}]

\* The topics that can be found from a node now.
Present(n) == UNION {Offered(m) : m \in Reached(Asked, n) \cap Controller}

\* The brokers that work for client c, directly or through other brokers.
WorkFor(c) ==
    {b \in Broker : \A S \in SUBSET Broker :
        (\A k \in Broker : serving[k] \in S \cup {c} => k \in S) => b \in S}

\* The clients, when broker b goes on without the topics below n.
Missed(b, n) ==
    [c \in Client |->
        IF b \in WorkFor(c) THEN [client[c] EXCEPT !.due = @ \ Below[n]]
        ELSE client[c]]

Init ==
    /\ up = [n \in Node |-> TRUE]
    /\ added = [n \in Node |-> 0]
    /\ waiting = [n \in Node |-> {}]
    /\ orphans = [n \in Node |-> 0]
    /\ serving = [b \in Broker |-> Idle]
    /\ progress = [b \in Broker |-> [next |-> 1, asked |-> FALSE, names |-> {}]]
    /\ client = [c \in Client |-> [state |-> "idle", answer |-> {},
                                   due |-> {}, may |-> {}]]
    /\ crashes = 0
    /\ requests = 0

-----------------------------------------------------------------------------
(* Requests and answers.                                                   *)

\* A request is sent: it waits at the testpoint, even at one that is not up.
Send(a, n) == waiting' = [waiting EXCEPT ![n] = @ \cup {a}]

\* The asker closes its socket: the request it has at n is nobody's.
Abandon(a, n) ==
    /\ waiting' = [waiting EXCEPT ![n] = @ \ {a}]
    /\ orphans' = [orphans EXCEPT ![n] = IF a \in waiting[n] THEN @ + 1 ELSE @]
    /\ serving' = [b \in Broker |-> IF b = n /\ serving[b] = a THEN Nobody
                                    ELSE serving[b]]

\* A testpoint takes the request of an asker, or one that is nobody's.
Dequeue(n, a) ==
    IF a = Nobody
    THEN /\ orphans[n] > 0
         /\ orphans' = [orphans EXCEPT ![n] = @ - 1]
         /\ UNCHANGED waiting
    ELSE /\ a \in waiting[n]
         /\ waiting' = [waiting EXCEPT ![n] = @ \ {a}]
         /\ UNCHANGED orphans

\* uniqueTopics.insert
Union(before, names) == before \cup names

\* The asker, if there still is one, gets the names.
Deliver(a, names) ==
    /\ progress' = [b \in Broker |->
           IF b = a THEN [next |-> progress[b].next + 1, asked |-> FALSE,
                          names |-> Union(progress[b].names, names)]
           ELSE progress[b]]
    /\ client' = [c \in Client |->
           IF c = a THEN [client[c] EXCEPT !.state = "answered",
                                           !.answer = names]
           ELSE client[c]]

-----------------------------------------------------------------------------
(* A client (otestpoint-discover): one request, and a wait without limit.  *)

ClientAsks(c) ==
    /\ client[c].state # "waiting"
    /\ requests < MaxRequests
    /\ requests' = requests + 1
    /\ client' = [client EXCEPT ![c] =
           [state |-> "waiting", answer |-> {}, due |-> Present(Entry[c]),
            may |-> UNION {Offered(n) : n \in Controller}]]
    /\ Send(c, Entry[c])
    /\ UNCHANGED <<up, added, orphans, serving, progress, crashes>>

\* The user ends it.
ClientQuits(c) ==
    /\ client[c].state = "waiting"
    /\ client' = [client EXCEPT ![c].state = "idle"]
    /\ Abandon(c, Entry[c])
    /\ UNCHANGED <<up, added, progress, crashes, requests>>

-----------------------------------------------------------------------------
(* The processing thread of a controller.                                  *)

\* ADD of the next probe.
AddProbe(n) ==
    /\ up[n]
    /\ added[n] < Len(ProbeTopics[n])
    /\ added' = [added EXCEPT ![n] = @ + 1]
    /\ client' = [c \in Client |->
           IF client[c].state = "waiting"
           THEN [client[c] EXCEPT !.may = @ \cup ProbeTopics[n][added'[n]]]
           ELSE client[c]]
    /\ UNCHANGED <<up, waiting, orphans, serving, progress, crashes, requests>>

Answer(n, a) ==
    /\ up[n]
    /\ Dequeue(n, a)
    /\ Deliver(a, Offered(n))
    /\ UNCHANGED <<up, added, serving, crashes, requests>>

-----------------------------------------------------------------------------
(* The processing thread of a broker.                                      *)

\* ADD of the next testpoint.
AddRemote(b) ==
    /\ up[b] /\ serving[b] = Idle
    /\ added[b] < Len(Remote[b])
    /\ added' = [added EXCEPT ![b] = @ + 1]
    /\ UNCHANGED <<up, waiting, orphans, serving, progress, client, crashes,
                   requests>>

\* Mutant: the names of the last exchange are kept.
KeptProgress(b) == [progress[b] EXCEPT !.next = 1, !.asked = FALSE]

\* Mutant: the loop starts before its first remote.
ZeroBasedProgress(b) == [next |-> 0, asked |-> FALSE, names |-> {}]

\* The loop's variables at its start.
NoProgress(b) == [next |-> 1, asked |-> FALSE, names |-> {}]

Take(b, a) ==
    /\ up[b] /\ serving[b] = Idle
    /\ Dequeue(b, a)
    /\ serving' = [serving EXCEPT ![b] = a]
    /\ progress' = [progress EXCEPT ![b] = NoProgress(b)]
    /\ UNCHANGED <<up, added, client, crashes, requests>>

\* The remote whose turn it is in the loop.
Current(b) == Remote[b][progress[b].next]

InLoop(b) == up[b] /\ serving[b] # Idle /\ progress[b].next <= added[b]

\* discoverRemote sends its request.
Ask(b) ==
    /\ InLoop(b) /\ ~progress[b].asked
    /\ Send(b, Current(b))
    /\ progress' = [progress EXCEPT ![b].asked = TRUE]
    /\ UNCHANGED <<up, added, orphans, serving, client, crashes, requests>>

\* Mutant: the loop ends at the first remote that fails.
StopLooping(b) == added[b] + 1

\* A remote that fails is passed over.
NextRemote(b) == progress[b].next + 1

\* discoverRemote cannot open its socket or connect it.
AskFails(b) ==
    /\ InLoop(b) /\ ~progress[b].asked
    /\ progress' = [progress EXCEPT ![b].next = NextRemote(b)]
    /\ client' = Missed(b, Current(b))
    /\ UNCHANGED <<up, added, waiting, orphans, serving, crashes, requests>>

\* Mutant: the socket outlives the exchange, and with it the request.
GiveUpWithSocketOpen(b) ==
    /\ InLoop(b) /\ progress[b].asked
    /\ progress' = [progress EXCEPT ![b].next = NextRemote(b), ![b].asked = FALSE]
    /\ client' = Missed(b, Current(b))
    /\ UNCHANGED <<up, added, waiting, orphans, serving, crashes, requests>>

\* Mutant: the transaction has no timeout.
NeverGiveUp(b) == FALSE /\ UNCHANGED vars

\* The transaction with a remote times out, whatever the reason.
GiveUp(b) ==
    /\ InLoop(b) /\ progress[b].asked
    /\ progress' = [progress EXCEPT ![b].next = NextRemote(b), ![b].asked = FALSE]
    /\ client' = Missed(b, Current(b))
    /\ Abandon(b, Current(b))
    /\ UNCHANGED <<up, added, crashes, requests>>

\* The answer is sent, and the thread polls again.
Finish(b) ==
    /\ up[b] /\ serving[b] # Idle /\ progress[b].next > added[b]
    /\ Deliver(serving[b], progress[b].names)
    /\ serving' = [serving EXCEPT ![b] = Idle]
    /\ UNCHANGED <<up, added, waiting, orphans, crashes, requests>>

-----------------------------------------------------------------------------
(* Crashes.  A request that waits at a testpoint that crashes is lost, or  *)
(* still with its sender; one that a crashing broker has sent may be lost. *)

Crash(n) ==
    /\ up[n]
    /\ crashes < MaxCrashes
    /\ crashes' = crashes + 1
    /\ up' = [up EXCEPT ![n] = FALSE]
    /\ added' = [added EXCEPT ![n] = 0]
    /\ LET asks(m) == n \in Broker /\ InLoop(n) /\ progress[n].asked
                          /\ m = Current(n)
       IN  /\ \E kept \in SUBSET waiting[n] :
                waiting' = [m \in Node |->
                    (IF m = n THEN kept ELSE waiting[m])
                        \ (IF asks(m) THEN {n} ELSE {})]
           /\ \E k \in 0..orphans[n], left \in {0, 1} :
                orphans' = [m \in Node |->
                    IF m = n THEN k
                    ELSE IF asks(m) /\ n \in waiting[m] THEN orphans[m] + left
                    ELSE orphans[m]]
           /\ serving' = [b \in Broker |->
                    IF b = n THEN Idle
                    ELSE IF asks(b) /\ serving[b] = n THEN Nobody
                    ELSE serving[b]]
    /\ client' = [c \in Client |-> [client[c] EXCEPT !.due = @ \ Below[n]]]
    /\ UNCHANGED <<progress, requests>>

Restart(n) ==
    /\ ~up[n]
    /\ up' = [up EXCEPT ![n] = TRUE]
    /\ UNCHANGED <<added, waiting, orphans, serving, progress, client, crashes,
                   requests>>

Next ==
    \/ \E c \in Client : ClientAsks(c) \/ ClientQuits(c)
    \/ \E n \in Controller : AddProbe(n)
    \/ \E n \in Controller, a \in Asker \cup {Nobody} : Answer(n, a)
    \/ \E b \in Broker : AddRemote(b) \/ Ask(b) \/ AskFails(b) \/ GiveUp(b)
                             \/ Finish(b)
    \/ \E b \in Broker, a \in Asker \cup {Nobody} : Take(b, a)
    \/ \E n \in Node : Crash(n) \/ Restart(n)

\* The threads run and their polls time out; a REP socket takes requests from
\* its peers in turn.  Nobody has to ask, to crash or to be started again.
Fairness ==
    /\ \A n \in Controller :
           WF_vars(\E a \in Asker \cup {Nobody} : Answer(n, a))
    /\ \A b \in Broker, a \in Asker \cup {Nobody} : SF_vars(Take(b, a))
    /\ \A b \in Broker : WF_vars(Ask(b)) /\ WF_vars(GiveUp(b))
                             /\ WF_vars(Finish(b))

Spec == Init /\ [][Next]_vars
FairSpec == Spec /\ Fairness

-----------------------------------------------------------------------------
TypeOK ==
    /\ up \in [Node -> BOOLEAN]
    /\ added \in [Node -> Nat]
    /\ \A n \in Controller : added[n] <= Len(ProbeTopics[n])
    /\ \A b \in Broker : added[b] <= Len(Remote[b])
    /\ waiting \in [Node -> SUBSET Asker]
    /\ orphans \in [Node -> Nat]
    /\ serving \in [Broker -> Asker \cup {Nobody, Idle}]
    /\ progress \in [Broker -> [next : Nat \ {0}, asked : BOOLEAN,
                                names : SUBSET Topic]]
    /\ client \in [Client -> [state : {"idle", "waiting", "answered"},
                              answer : SUBSET Topic, due : SUBSET Topic,
                              may : SUBSET Topic]]
    /\ crashes \in 0..MaxCrashes
    /\ requests \in 0..MaxRequests

\* a waits for the answer of n.
Awaits(a, n) ==
    IF a \in Client THEN client[a].state = "waiting" /\ Entry[a] = n
    ELSE InLoop(a) /\ progress[a].asked /\ Current(a) = n

\* Every answer still to come is that of the exchange its asker is in: a late one
\* is never taken for that of the next remote, though one thread asks them all.
AnswersReachTheirAsker ==
    /\ \A n \in Node : \A a \in waiting[n] : Awaits(a, n)
    /\ \A b \in Broker : serving[b] \in Asker =>
           Awaits(serving[b], b) /\ serving[b] \notin waiting[b]

\* Silent, dead and slow remotes cost an answer their own topics and no others:
\* a topic that could be found when the client asked is in its answer, unless a
\* broker that worked for it gave up on a testpoint the topic comes through, or
\* one crashed meanwhile.
OnlyTheSilentAreMissing ==
    \A c \in Client : client[c].state = "answered" =>
        client[c].due \subseteq client[c].answer

\* Nothing is answered from memory: every topic in an answer was offered by a
\* running controller at some time after the client asked.
AnswersAreFresh ==
    \A c \in Client : client[c].state = "answered" =>
        client[c].answer \subseteq client[c].may

\* A request of a client is at its testpoint, waiting or in service.
Pending(c) ==
    LET n == Entry[c]
    IN  up[n] /\ (c \in waiting[n] \/ (n \in Broker /\ serving[n] = c))

\* A client's request is answered in the end, however many remotes never answer,
\* unless its testpoint crashes.
ClientsAreAnswered ==
    \A c \in Client : Pending(c) ~> ~Pending(c)

\* Requests die out: once no client waits, every testpoint that is up has no
\* more requests to serve, not even the ones given up on.
RequestsDieOut ==
    <>[](\A c \in Client : client[c].state # "waiting") =>
        <>[](\A n \in Node : up[n] =>
                 /\ waiting[n] = {} /\ orphans[n] = 0
                 /\ n \in Broker => serving[n] = Idle)
=============================================================================
