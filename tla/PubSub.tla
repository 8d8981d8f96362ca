-------------------------------- MODULE PubSub --------------------------------
(***************************************************************************)
(* Reports on their way from the probes (PUB) through controllers and      *)
(* brokers to recorders and otestpoint-dump (clients), and subscriptions   *)
(* on their way back.  A testpoint has an XSUB socket connected to what is *)
(* above it and an XPUB socket bound for what is below; its processing     *)
(* thread passes subscriptions up and reports down, one message a time.    *)
(*                                                                         *)
(* Of ZeroMQ (external): an XPUB socket hands its reader the first and the *)
(* last subscription of each filter only; an XSUB socket remembers what it *)
(* was told and tells it to every peer it connects to; a connection keeps  *)
(* the order of its messages; a full one drops reports; one that breaks    *)
(* takes back its subscriptions, loses what is on it, and is made again.   *)
(***************************************************************************)
EXTENDS Integers, Sequences, FiniteSets, SequencesExt

CONSTANTS
    Probe, Testpoint, Client,
    Links,       \* <<u, d>>: d connects to u
    Topic,       \* what the reports of probes are about
    Filter,      \* what can be subscribed to: prefixes of topics
    Covers,      \* the topics that start with a filter
    Wants,       \* the filters of a client
    Hwm,         \* the reports each connection holds
    MaxReports,  \* bound on the reports of each probe
    MaxBreaks    \* bound on the connections lost and the processes ended

Node == Probe \cup Testpoint \cup Client

ASSUME NodeAssumption ==
    /\ Probe \cap Testpoint = {} /\ Client \cap (Probe \cup Testpoint) = {}
ASSUME LinksAssumption ==
    /\ Links \subseteq (Probe \cup Testpoint) \X (Testpoint \cup Client)
    /\ Covers \in [Filter -> SUBSET Topic]
    /\ Wants \in [Client -> SUBSET Filter]
    /\ IsFiniteSet(Filter)
ASSUME BoundsAssumption ==
    Hwm \in [Links -> Nat \ {0}] /\ MaxReports \in Nat /\ MaxBreaks \in Nat

VARIABLES
    up,        \* the processes that run
    linked,    \* the connections that are up
    asked,     \* the changes of subscription on their way up each link
    table,     \* what the upper end of a link has recorded of its lower end
    changes,   \* the changes the XPUB socket of a testpoint has for its thread
    mine,      \* what the XSUB or SUB socket of a node subscribes to
    reports,   \* the reports on their way down each link
    published, \* the topics of the reports of each probe
    received,  \* the reports each client has got since it started
    due,       \* auxiliary: those published when all was set up for it to get them
    breaks

subVars == <<asked, table, changes, mine>>
vars == <<up, linked, subVars, reports, published, received, due, breaks>>

Above(n) == {l \in Links : l[2] = n}
Below(n) == {l \in Links : l[1] = n}

\* The nodes that what p sends can get to: those in every set that has p and what
\* is above each of its members.
From ==
    [p \in Node |-> {n \in Node : \A S \in SUBSET Node :
        p \in S /\ (\A l \in Links : l[1] \in S => l[2] \in S) => n \in S}]

\* The nodes whose messages can get to c.
Towards ==
    [c \in Node |-> {n \in Node : \A S \in SUBSET Node :
        c \in S /\ (\A l \in Links : l[2] \in S => l[1] \in S) => n \in S}]

\* What a probe publishes gets to each node on one way only.
ASSUME TreeAssumption ==
    \A p \in Probe : \A k, l \in Links :
        k[1] \in From[p] /\ l[1] \in From[p] /\ k[2] = l[2] => k = l

\* The links between probe p and client c.
Route(p, c) == {l \in Links : l[1] \in From[p] /\ l[2] \in Towards[c]}

Heard(topic, filters) == \E filter \in filters : topic \in Covers[filter]

Subscribed(l, topic) == l \in linked /\ Heard(topic, table[l])

On(filter) == [filter |-> filter, on |-> TRUE]
Off(filter) == [filter |-> filter, on |-> FALSE]

\* A filter of c has been passed up to the probe, and no earlier end of it is still
\* on its way.
SetUp(c, p, topic) ==
    \E filter \in mine[c] :
        /\ topic \in Covers[filter] /\ Route(p, c) # {}
        /\ \A l \in Route(p, c) :
              /\ filter \in table[l]
              /\ ~Contains(asked[l], Off(filter))
              /\ l[1] \in Testpoint => ~Contains(changes[l[1]], Off(filter))

Init ==
    /\ up = Node
    /\ linked = {}
    /\ asked = [l \in Links |-> <<>>]
    /\ table = [l \in Links |-> {}]
    /\ changes = [f \in Testpoint |-> <<>>]
    /\ mine = [n \in Testpoint \cup Client |-> {}]
    /\ reports = [l \in Links |-> <<>>]
    /\ published = [p \in Probe |-> <<>>]
    /\ received = [c \in Client |-> <<>>]
    /\ due = [c \in Client |-> {}]
    /\ breaks = 0

-----------------------------------------------------------------------------
(* Subscriptions.                                                          *)

\* A change is sent on the XSUB socket of n.
SendUp(n, change) ==
    /\ mine' = [mine EXCEPT ![n] = IF change.on THEN @ \cup {change.filter}
                                   ELSE @ \ {change.filter}]
    /\ asked' = [l \in Links |-> IF l \in Above(n) \cap linked
                                 THEN Append(asked[l], change) ELSE asked[l]]

\* A recorder, which asks for everything, or otestpoint-dump.
Subscribe(c, filter) ==
    /\ c \in up
    /\ filter \in Wants[c] \ mine[c]
    /\ SendUp(c, On(filter))
    /\ UNCHANGED <<up, linked, table, changes, reports, published, received, due, breaks>>

\* Mutant: zmq_connect succeeds, so there is a connection.
Asked(l) == l[2] \in up

\* There are two ends to connect; zmq_connect does not wait for it.
Reachable(l) == {l[1], l[2]} \subseteq up

\* Mutant: only changes are sent, so that a connection made again starts with none.
LinkAnew(l) ==
    /\ l \notin linked
    /\ Reachable(l)
    /\ linked' = linked \cup {l}
    /\ UNCHANGED <<up, asked, table, changes, mine, reports, published, received, due, breaks>>

\* ADD, or what ZeroMQ does when a connection is lost: the lower end is connected
\* and sends all it subscribes to.
Link(l) ==
    /\ l \notin linked
    /\ Reachable(l)
    /\ linked' = linked \cup {l}
    /\ asked' = [asked EXCEPT ![l] = SetToSeq({On(filter) : filter \in mine[l[2]]})]
    /\ UNCHANGED <<up, table, changes, mine, reports, published, received, due, breaks>>

\* A change arrives at the upper end of l, and, when no other peer has or had the
\* filter, goes on to the reader of the XPUB socket.
Arrive(l) ==
    /\ asked[l] # <<>>
    /\ LET change == Head(asked[l])
           others == UNION {table[k] : k \in Below(l[1]) \ {l}}
       IN  /\ table' = [table EXCEPT ![l] = IF change.on THEN @ \cup {change.filter}
                                            ELSE @ \ {change.filter}]
           /\ changes' = IF l[1] \in Testpoint /\ change.filter \notin others
                         THEN [changes EXCEPT ![l[1]] = Append(@, change)]
                         ELSE changes
    /\ asked' = [asked EXCEPT ![l] = Tail(@)]
    /\ UNCHANGED <<up, linked, mine, reports, published, received, due, breaks>>

\* Mutant: only subscriptions are forwarded, not their ends.
OnlyOn(change) == [change EXCEPT !.on = TRUE]

\* What is sent for a change that was read.
Forwarded(change) == change

\* XPUB to XSUB.
ForwardChange(f) ==
    /\ f \in up
    /\ changes[f] # <<>>
    /\ SendUp(f, Forwarded(Head(changes[f])))
    /\ changes' = [changes EXCEPT ![f] = Tail(@)]
    /\ UNCHANGED <<up, linked, table, reports, published, received, due, breaks>>

-----------------------------------------------------------------------------
(* Reports.                                                                *)

Full(l) == Len(reports[l]) >= Hwm[l]

\* The queues after report r is sent on the PUB or XPUB socket of n.
SentDown(n, r, queues) ==
    [l \in Links |-> IF l \in Below(n) /\ Subscribed(l, r.topic) /\ ~Full(l)
                     THEN Append(queues[l], r) ELSE queues[l]]

\* The clients that do not get report r as a full connection of n drops it.
Dropped(n, r) ==
    {c \in Client : \E l \in Route(r.probe, c) \cap Below(n) : Full(l)}

\* A report of a sample: its topic and its data, in one message of two parts.
Publish(p, topic) ==
    /\ p \in up
    /\ Len(published[p]) < MaxReports
    /\ published' = [published EXCEPT ![p] = Append(@, topic)]
    /\ LET r == [probe |-> p, number |-> Len(published'[p]), topic |-> topic]
       IN  /\ reports' = SentDown(p, r, reports)
           /\ due' = [c \in Client |->
                        IF SetUp(c, p, topic) /\ c \notin Dropped(p, r)
                        THEN due[c] \cup {r} ELSE due[c]]
    /\ UNCHANGED <<up, linked, subVars, received, breaks>>

\* Mutant: the report is forwarded and not taken off the queue.
Kept(queue) == queue

\* Mutant: the queue is emptied for its first report.
Emptied(queue) == <<>>

\* What zmq_msg_recv leaves of a queue.
Rest(queue) == Tail(queue)

\* XSUB to XPUB, all parts of a message.
ForwardReport(l) ==
    /\ l[2] \in Testpoint \cap up
    /\ reports[l] # <<>>
    /\ LET r == Head(reports[l])
       IN  /\ reports' = SentDown(l[2], r, [reports EXCEPT ![l] = Rest(@)])
           /\ due' = [c \in Client |-> IF c \in Dropped(l[2], r) THEN due[c] \ {r}
                                       ELSE due[c]]
    /\ UNCHANGED <<up, linked, subVars, published, received, breaks>>

Receive(l) ==
    /\ l[2] \in Client \cap up
    /\ reports[l] # <<>>
    /\ received' = [received EXCEPT ![l[2]] = Append(@, Head(reports[l]))]
    /\ reports' = [reports EXCEPT ![l] = Rest(@)]
    /\ UNCHANGED <<up, linked, subVars, published, due, breaks>>

-----------------------------------------------------------------------------
(* Failures.                                                               *)

\* Connections that are lost: the upper end forgets the subscriptions of the lower
\* one.  What had got through of the messages was read before.
Lose(lost) ==
    LET left(n) == UNION {table[l] : l \in Below(n) \ lost}
        gone(n) == (UNION {table[l] : l \in Below(n) \cap lost}) \ left(n)
    IN  /\ linked' = linked \ lost
        /\ table' = [l \in Links |-> IF l \in lost THEN {} ELSE table[l]]
        /\ asked' = [l \in Links |-> IF l \in lost THEN <<>> ELSE asked[l]]
        /\ reports' = [l \in Links |-> IF l \in lost THEN <<>> ELSE reports[l]]
        /\ changes' = [f \in Testpoint |->
                         IF f \in up' THEN changes[f] \o SetToSeq({Off(filter) : filter \in gone(f)})
                         ELSE <<>>]
        /\ breaks < MaxBreaks
        /\ breaks' = breaks + 1

\* The reports of p to c no longer all arrive.
StillDue(c, lost) == {r \in due[c] : c \in up' /\ Route(r.probe, c) \cap lost = {}}

Disconnect(l) ==
    /\ l \in linked
    /\ up' = up
    /\ Lose({l})
    /\ due' = [c \in Client |-> StillDue(c, {l})]
    /\ UNCHANGED <<mine, published, received>>

\* A process ends, or the processing thread with its sockets.
Crash(n) ==
    /\ n \in up
    /\ up' = up \ {n}
    /\ Lose(linked \cap (Above(n) \cup Below(n)))
    /\ mine' = [m \in Testpoint \cup Client |-> IF m = n THEN {} ELSE mine[m]]
    /\ received' = [c \in Client |-> IF c = n THEN <<>> ELSE received[c]]
    /\ due' = [c \in Client |-> StillDue(c, Above(n) \cup Below(n))]
    /\ UNCHANGED published

\* It is started again; the processes of probes are not.
Start(n) ==
    /\ n \in (Testpoint \cup Client) \ up
    /\ up' = up \cup {n}
    /\ UNCHANGED <<linked, subVars, reports, published, received, due, breaks>>

-----------------------------------------------------------------------------
Next ==
    \/ \E c \in Client : \E filter \in Filter : Subscribe(c, filter)
    \/ \E l \in Links : Link(l) \/ Arrive(l) \/ ForwardReport(l) \/ Receive(l) \/ Disconnect(l)
    \/ \E f \in Testpoint : ForwardChange(f)
    \/ \E p \in Probe : \E topic \in Topic : Publish(p, topic)
    \/ \E n \in Node : Crash(n) \/ Start(n)

\* Threads run and connections are made.  Nobody has to subscribe, publish, fail or
\* be started again.
Fairness ==
    /\ \A l \in Links : WF_vars(Link(l)) /\ WF_vars(Arrive(l))
    /\ \A f \in Testpoint : WF_vars(ForwardChange(f))
    /\ \A l \in Links : WF_vars(ForwardReport(l)) /\ WF_vars(Receive(l))

Spec == Init /\ [][Next]_vars
FairSpec == Spec /\ Fairness

-----------------------------------------------------------------------------
Change == [filter : Filter, on : BOOLEAN]
Report == [probe : Probe, number : 1..MaxReports, topic : Topic]

TypeOK ==
    /\ up \subseteq Node
    /\ linked \subseteq {l \in Links : {l[1], l[2]} \subseteq up}
    /\ asked \in [Links -> Seq(Change)]
    /\ table \in [Links -> SUBSET Filter]
    /\ changes \in [Testpoint -> Seq(Change)]
    /\ mine \in [Testpoint \cup Client -> SUBSET Filter]
    /\ reports \in [Links -> Seq(Report)]
    /\ published \in [Probe -> Seq(Topic)]
    /\ received \in [Client -> Seq(Report)]
    /\ due \in [Client -> SUBSET Report]
    /\ breaks \in 0..MaxBreaks

\* However clients come and go and connections break: once a testpoint has nothing
\* left to pass up, it subscribes to exactly what those below it subscribe to, and
\* what is above it knows, as soon as nothing is on its way.
SubscriptionsAgree ==
    /\ \A f \in Testpoint :
          changes[f] = <<>> => mine[f] = UNION {table[l] : l \in Below(f)}
    /\ \A l \in linked : asked[l] = <<>> => table[l] = mine[l[2]]

\* A report published once a subscription of a client had been passed up to its probe
\* gets to the client, or is on its way, whoever else unsubscribes meanwhile; only a full
\* queue, a broken connection or the end of a process loses it.
SubscribersMissNothing ==
    \A c \in Client : \A r \in due[c] :
        \/ Contains(received[c], r)
        \/ \E l \in Route(r.probe, c) : Contains(reports[l], r)

\* Through any number of testpoints a client gets a stream of reports.
Stream == INSTANCE ReportStream WITH
    wanted <- [c \in Client |-> {topic \in Topic : Heard(topic, mine[c])}]

StreamOfReports == Stream!Spec

\* In the end every testpoint between a client and a probe that are up subscribes
\* for the client, whatever was lost on the way.
SubscriptionsSpread ==
    \A c \in Client : \A p \in Probe : \A topic \in Topic :
        <>[](Heard(topic, mine[c]) /\ (\A l \in Route(p, c) : {l[1], l[2]} \subseteq up)
                => \A l \in Route(p, c) : Subscribed(l, topic))
=============================================================================
