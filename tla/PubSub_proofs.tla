---------------------------- MODULE PubSub_proofs ----------------------------
(***************************************************************************)
(* Proofs about PubSub for every graph of testpoints and every set of      *)
(* filters: its types, the reports that subscribers do not miss, the       *)
(* agreement of subscriptions, and that each client gets a ReportStream.   *)
(***************************************************************************)
EXTENDS PubSub, FiniteSetTheorems, SequenceTheorems, TLAPS

\* Nothing is kept for a connection that is down.
LinkInv ==
    \A l \in Links \ linked : asked[l] = <<>> /\ table[l] = {} /\ reports[l] = <<>>

\* Nor does a testpoint that is down keep anything.
DownInv == \A f \in Testpoint \ up : changes[f] = <<>> /\ mine[f] = {}

\* A filter is started by changes, and not ended after that.
Started(changed, filter) ==
    \E i \in 1..Len(changed) :
        changed[i] = On(filter) /\ \A j \in (i + 1)..Len(changed) : changed[j] # Off(filter)

\* It is subscribed to once they have been made to what was.
Told(changed, before, filter) ==
    (filter \in before /\ ~Contains(changed, Off(filter))) \/ Started(changed, filter)

\* What is on its way up a link leads to what its lower end subscribes to.
AskedInv ==
    \A l \in linked : \A filter \in Filter :
        Told(asked[l], table[l], filter) <=> filter \in mine[l[2]]

\* What a testpoint has to pass up leads to what those below it subscribe to.
ChangesInv ==
    \A f \in Testpoint : \A filter \in Filter :
        Told(changes[f], mine[f], filter)
            <=> filter \in UNION {table[l] : l \in Below(f)}

\* A client never takes a subscription back.
ClientInv ==
    \A l \in Links : l[2] \in Client =>
        /\ table[l] \subseteq mine[l[2]]
        /\ \A i \in 1..Len(asked[l]) : \E filter \in mine[l[2]] : asked[l][i] = On(filter)
        /\ \A i \in 1..Len(reports[l]) : Heard(reports[l][i].topic, mine[l[2]])

\* Every report on its way was published, by a probe above it.
Genuine(l, r, topics) ==
    /\ r.number \in 1..Len(topics[r.probe])
    /\ r.topic = topics[r.probe][r.number]
    /\ l[1] \in From[r.probe]

OriginInv ==
    \A l \in Links : \A i \in 1..Len(reports[l]) : Genuine(l, reports[l][i], published)

\* A node has passed on the reports of each probe up to its mark: those on their way
\* to it come after that, and its senders have passed them on.
Mark == [Node -> [Probe -> Nat]]

Between(mark, l, r) == mark[l[2]][r.probe] < r.number /\ r.number <= mark[l[1]][r.probe]

Increasing(q) ==
    \A i, j \in 1..Len(q) : i < j /\ q[i].probe = q[j].probe => q[i].number < q[j].number

Marked(mark) ==
    /\ \A p \in Probe : mark[p][p] = Len(published[p])
    /\ \A l \in Links : \A i \in 1..Len(reports[l]) : Between(mark, l, reports[l][i])
    /\ \A l \in Links : Increasing(reports[l])
    /\ \A c \in Client : \A i \in 1..Len(received[c]) :
          received[c][i].number <= mark[c][received[c][i].probe]
    /\ \A p \in Probe : \A l \in Links : l[1] \in From[p] => mark[l[2]][p] <= mark[l[1]][p]

MarkInv == \E mark \in Mark : Marked(mark)

\* The subscription that makes a report due stays, and so does the report.
DueInv ==
    \A c \in Client : \A r \in due[c] :
        /\ SetUp(c, r.probe, r.topic)
        /\ \/ Contains(received[c], r)
           \/ \E l \in Route(r.probe, c) : Contains(reports[l], r)

-----------------------------------------------------------------------------
(* Sequences, finite sets and the graph.                                   *)

\* A value added to a sequence.
LEMMA Appended ==
    ASSUME NEW T, NEW q \in Seq(T), NEW e \in T
    PROVE  /\ Append(q, e) \in Seq(T) /\ Len(Append(q, e)) = Len(q) + 1
           /\ \A i \in 1..Len(q) : Append(q, e)[i] = q[i]
           /\ Append(q, e)[Len(q) + 1] = e
BY AppendProperties

\* The rest of a sequence.
LEMMA RestOf ==
    ASSUME NEW T, NEW q \in Seq(T), q # <<>>
    PROVE  /\ Tail(q) \in Seq(T) /\ Head(q) \in T /\ Head(q) = q[1]
           /\ Len(q) \in Nat \ {0} /\ Len(Tail(q)) = Len(q) - 1
           /\ \A i \in 1..(Len(q) - 1) : Tail(q)[i] = q[i + 1]
BY HeadTailProperties

\* The members of a finite set in a sequence.
LEMMA Listed ==
    ASSUME NEW S, IsFiniteSet(S)
    PROVE  /\ SetToSeq(S) \in Seq(S) /\ \A e \in S : Contains(SetToSeq(S), e)
<1>. DEFINE n == Cardinality(S)
            q == SetToSeq(S)
<1>1. n \in Nat /\ ExistsBijection(1..n, S)
  BY FS_CardinalityType
<1>2. PICK f \in Bijection(1..n, S) : TRUE
  BY <1>1 DEF ExistsBijection
<1>3. f \in [1..n -> S] /\ IsInjective(f)
  BY <1>2 DEF Bijection, Injection, IsInjective
<1>4. q \in [1..n -> S] /\ IsInjective(q)
  BY <1>3 DEF SetToSeq
<1>. HIDE DEF q
<1>5. q \in Seq(S) /\ Len(q) = n
  BY <1>1, <1>4
<1>6. ASSUME NEW e \in S PROVE Contains(q, e)
  <2>. DEFINE T == {q[i] : i \in 1..n}
  <2>1. T \subseteq S
    BY <1>4
  <2>2. q \in Injection(1..n, T) /\ q \in Surjection(1..n, T)
    BY <1>4 DEF Injection, Surjection, IsInjective
  <2>3. IsFiniteSet(1..n) /\ Cardinality(1..n) = n
    BY <1>1, FS_Interval
  <2>4. Cardinality(T) = n
    BY <2>2, <2>3, FS_Surjection
  <2>. HIDE DEF T
  <2>5. S = T
    BY <2>1, <2>4, FS_Subset
  <2>. QED
    BY <1>5, <2>5 DEF T, Contains
<1>. QED
  BY <1>5, <1>6 DEF q

\* The changes that start or end a set of filters.
LEMMA ChangesListed ==
    ASSUME NEW filters \in SUBSET Filter, NEW on \in BOOLEAN
    PROVE  LET q == SetToSeq({[filter |-> filter, on |-> on] : filter \in filters})
           IN  /\ q \in Seq(Change)
               /\ \A i \in 1..Len(q) : \E filter \in filters :
                      q[i] = [filter |-> filter, on |-> on]
               /\ \A filter \in filters : Contains(q, [filter |-> filter, on |-> on])
<1>. DEFINE S == {[filter |-> filter, on |-> on] : filter \in filters}
            q == SetToSeq(S)
            f == [filter \in filters |-> [filter |-> filter, on |-> on]]
<1>1. IsFiniteSet(filters)
  BY LinksAssumption, FS_Subset
<1>2. f \in Surjection(filters, S)
  BY DEF Surjection
<1>3. IsFiniteSet(S)
  BY <1>1, <1>2, FS_Surjection
<1>4. q \in Seq(S) /\ \A e \in S : Contains(q, e)
  BY <1>3, Listed
<1>5. S \subseteq Change
  BY DEF Change
<1>. HIDE DEF S, q
<1>6. q \in Seq(Change)
  BY <1>4, <1>5
<1>7. \A i \in 1..Len(q) : q[i] \in S
  BY <1>4, ElementOfSeq
<1>. QED
  BY <1>4, <1>6, <1>7 DEF S, q

\* What can get to a node goes on to those above it, and starts with the node itself.
LEMMA FromFacts ==
    ASSUME NEW p \in Node
    PROVE  /\ p \in From[p] /\ From[p] \subseteq Node
           /\ \A l \in Links : l[1] \in From[p] => l[2] \in From[p]
BY LinksAssumption DEF From, Node

\* The ways to a node lead on until they are at it.
LEMMA TowardsFacts ==
    ASSUME NEW c \in Node
    PROVE  /\ c \in Towards[c] /\ Towards[c] \subseteq Node
           /\ \A l \in Links : l[2] \in Towards[c] => l[1] \in Towards[c]
           /\ \A n \in Towards[c] : n = c \/ \E l \in Links : l[1] = n /\ l[2] \in Towards[c]
<1>1. /\ c \in Towards[c] /\ Towards[c] \subseteq Node
      /\ \A l \in Links : l[2] \in Towards[c] => l[1] \in Towards[c]
  BY LinksAssumption DEF Towards, Node
<1>2. ASSUME NEW n \in Towards[c], n # c,
             \A l \in Links : ~(l[1] = n /\ l[2] \in Towards[c])
      PROVE  FALSE
  <2>. DEFINE S == Towards[c] \ {n}
  <2>1. S \in SUBSET Node /\ c \in S
    BY <1>1, <1>2
  <2>2. \A l \in Links : l[2] \in S => l[1] \in S
    BY <1>1, <1>2
  <2>3. n \in S
    BY <2>1, <2>2 DEF Towards
  <2>. QED
    BY <2>3
<1>. QED
  BY <1>1, <1>2

\* A route starts at the probe, ends at the client and has no gap.
LEMMA RouteFacts ==
    ASSUME NEW p \in Probe, NEW c \in Client
    PROVE  /\ Route(p, c) \subseteq Links
           /\ Route(p, c) # {} => \E l \in Route(p, c) : l[1] = p
           /\ \A l \in Route(p, c) : l[2] = c \/ \E k \in Route(p, c) : k[1] = l[2]
           /\ \A l \in Route(p, c) : l[2] \in Client => l[2] = c
<1>1. p \in Node /\ c \in Node /\ p # c
  <2>1. p \in Node /\ c \in Node
    BY DEF Node
  <2>2. p # c
    BY NodeAssumption
  <2>. QED
    BY <2>1, <2>2
<1>2. Route(p, c) = {l \in Links : l[1] \in From[p] /\ l[2] \in Towards[c]}
  BY DEF Route
<1>3. ASSUME NEW l \in Route(p, c) PROVE l[2] = c \/ \E k \in Route(p, c) : k[1] = l[2]
  BY <1>1, <1>2, FromFacts, TowardsFacts
<1>4. ASSUME NEW l \in Route(p, c), l[2] \in Client PROVE l[2] = c
  BY <1>2, <1>3, <1>4, LinksAssumption, NodeAssumption
<1>5. ASSUME NEW l \in Route(p, c) PROVE \E k \in Route(p, c) : k[1] = p
  <2>1. p \in Towards[c]
    <3>. DEFINE S == Node \ Towards[c]
    <3>1. \A k \in Links : k[1] \in S => k[2] \in S
      BY <1>1, TowardsFacts, LinksAssumption DEF Node
    <3>2. l[1] \in Towards[c] /\ l[1] \in From[p]
      BY <1>1, <1>2, TowardsFacts
    <3>3. p \in S => l[1] \in S
      BY <1>1, <3>1, <3>2 DEF From
    <3>. QED
      BY <1>1, <3>2, <3>3
  <2>. QED
    BY <1>1, <1>2, <2>1, FromFacts, TowardsFacts
<1>. QED
  BY <1>2, <1>3, <1>4, <1>5

-----------------------------------------------------------------------------
(* Types.                                                                  *)

LEMMA InitType == Init => TypeOK
BY LinksAssumption, BoundsAssumption DEF Init, TypeOK, Node

\* What a change makes of subscriptions.
LEMMA SendUpType ==
    ASSUME TypeOK, NEW n \in Testpoint \cup Client, NEW change \in Change, SendUp(n, change)
    PROVE  /\ mine' \in [Testpoint \cup Client -> SUBSET Filter]
           /\ asked' \in [Links -> Seq(Change)]
<1>1. mine' \in [Testpoint \cup Client -> SUBSET Filter]
  BY DEF SendUp, TypeOK, Change
<1>2. \A l \in Links : Append(asked[l], change) \in Seq(Change)
  BY Appended DEF TypeOK
<1>. QED
  BY <1>1, <1>2 DEF SendUp, TypeOK

\* What a report makes of the queues.
LEMMA SentDownType ==
    ASSUME NEW n, NEW r \in Report, NEW queues \in [Links -> Seq(Report)]
    PROVE  SentDown(n, r, queues) \in [Links -> Seq(Report)]
<1>1. \A l \in Links : Append(queues[l], r) \in Seq(Report)
  BY Appended
<1>. QED
  BY <1>1 DEF SentDown

\* The rest of a queue.
LEMMA RestType ==
    ASSUME TypeOK, NEW l \in Links, reports[l] # <<>>
    PROVE  /\ Head(reports[l]) \in Report
           /\ [reports EXCEPT ![l] = Rest(@)] \in [Links -> Seq(Report)]
<1>1. reports[l] \in Seq(Report) /\ reports \in [Links -> Seq(Report)]
  BY DEF TypeOK
<1>2. Tail(reports[l]) \in Seq(Report) /\ Head(reports[l]) \in Report
  BY <1>1, RestOf
<1>. QED
  BY <1>1, <1>2 DEF Rest

\* A connection that is lost.
LEMMA LoseType ==
    ASSUME TypeOK, NEW lost \in SUBSET Links, Lose(lost), up' \subseteq up
    PROVE  /\ linked' \subseteq linked
           /\ table' \in [Links -> SUBSET Filter]
           /\ asked' \in [Links -> Seq(Change)]
           /\ reports' \in [Links -> Seq(Report)]
           /\ changes' \in [Testpoint -> Seq(Change)]
           /\ breaks' \in 0..MaxBreaks
<1>1. /\ linked' \subseteq linked
      /\ table' \in [Links -> SUBSET Filter]
      /\ asked' \in [Links -> Seq(Change)]
      /\ reports' \in [Links -> Seq(Report)]
  BY DEF Lose, TypeOK
<1>2. breaks' \in 0..MaxBreaks
  BY BoundsAssumption DEF Lose, TypeOK
<1>. DEFINE left(n) == UNION {table[l] : l \in Below(n) \ lost}
            gone(n) == (UNION {table[l] : l \in Below(n) \cap lost}) \ left(n)
<1>3. ASSUME NEW f \in Testpoint
      PROVE  changes[f] \o SetToSeq({Off(filter) : filter \in gone(f)}) \in Seq(Change)
  <2>1. gone(f) \in SUBSET Filter
    BY DEF TypeOK, Below
  <2>. HIDE DEF gone
  <2>2. SetToSeq({[filter |-> filter, on |-> FALSE] : filter \in gone(f)}) \in Seq(Change)
    BY <2>1, ChangesListed
  <2>3. changes[f] \in Seq(Change)
    BY DEF TypeOK
  <2>. QED
    BY <2>2, <2>3, ConcatProperties DEF Off
<1>4. changes' \in [Testpoint -> Seq(Change)]
  <2>1. changes' = [f \in Testpoint |->
                      IF f \in up' THEN changes[f] \o SetToSeq({Off(filter) : filter \in gone(f)})
                      ELSE <<>>]
    BY DEF Lose
  <2>2. <<>> \in Seq(Change)
    OBVIOUS
  <2>. HIDE DEF gone
  <2>. QED
    BY <1>3, <2>1, <2>2
<1>. QED
  BY <1>1, <1>2, <1>4

\* What a probe publishes.
LEMMA PublishedReport ==
    ASSUME TypeOK, NEW p \in Probe, NEW topic \in Topic, Publish(p, topic)
    PROVE  /\ [probe |-> p, number |-> Len(published'[p]), topic |-> topic] \in Report
           /\ published' \in [Probe -> Seq(Topic)]
           /\ published'[p] = Append(published[p], topic)
           /\ Len(published'[p]) = Len(published[p]) + 1
           /\ published'[p][Len(published'[p])] = topic
           /\ \A i \in 1..Len(published[p]) : published'[p][i] = published[p][i]
           /\ \A q \in Probe : q # p => published'[q] = published[q]
<1>1. /\ published' = [published EXCEPT ![p] = Append(@, topic)]
      /\ Len(published[p]) < MaxReports
  BY DEF Publish
<1>2. /\ Append(published[p], topic) \in Seq(Topic)
      /\ Len(Append(published[p], topic)) = Len(published[p]) + 1
      /\ Append(published[p], topic)[Len(published[p]) + 1] = topic
      /\ \A i \in 1..Len(published[p]) : Append(published[p], topic)[i] = published[p][i]
      /\ Len(published[p]) \in Nat
  BY Appended DEF TypeOK
<1>3. /\ published' \in [Probe -> Seq(Topic)]
      /\ published'[p] = Append(published[p], topic)
      /\ \A q \in Probe : q # p => published'[q] = published[q]
  BY <1>1, <1>2 DEF TypeOK
<1>4. Len(published'[p]) \in 1..MaxReports
  BY <1>1, <1>2, <1>3, BoundsAssumption
<1>5. [probe |-> p, number |-> Len(published'[p]), topic |-> topic] \in Report
  BY <1>4 DEF Report
<1>. QED
  BY <1>2, <1>3, <1>5

LEMMA NextType == TypeOK /\ [Next]_vars => TypeOK'
<1> SUFFICES ASSUME TypeOK, [Next]_vars PROVE TypeOK'
  OBVIOUS
<1>1. ASSUME NEW c \in Client, NEW filter \in Filter, Subscribe(c, filter) PROVE TypeOK'
  <2>1. On(filter) \in Change /\ SendUp(c, On(filter))
    BY <1>1 DEF On, Change, Subscribe
  <2>. QED
    BY <1>1, <2>1, SendUpType DEF Subscribe, TypeOK
<1>2. ASSUME NEW l \in Links, Link(l) PROVE TypeOK'
  <2>1. mine[l[2]] \in SUBSET Filter
    BY LinksAssumption DEF TypeOK
  <2>2. SetToSeq({[filter |-> filter, on |-> TRUE] : filter \in mine[l[2]]}) \in Seq(Change)
    BY <2>1, ChangesListed
  <2>3. asked' \in [Links -> Seq(Change)]
    BY <1>2, <2>2 DEF Link, On, TypeOK
  <2>4. linked' \subseteq {k \in Links : {k[1], k[2]} \subseteq up}
    BY <1>2 DEF Link, Reachable, TypeOK
  <2>. QED
    BY <1>2, <2>3, <2>4 DEF Link, TypeOK
<1>3. ASSUME NEW l \in Links, Arrive(l) PROVE TypeOK'
  <2>. DEFINE change == Head(asked[l])
  <2>1. asked[l] \in Seq(Change) /\ asked[l] # <<>>
    BY <1>3 DEF Arrive, TypeOK
  <2>2. change \in Change /\ Tail(asked[l]) \in Seq(Change)
    BY <2>1, RestOf
  <2>3. asked' = [asked EXCEPT ![l] = Tail(@)]
    BY <1>3 DEF Arrive
  <2>4. asked' \in [Links -> Seq(Change)]
    BY <2>2, <2>3 DEF TypeOK
  <2>5. table' \in [Links -> SUBSET Filter]
    BY <1>3, <2>2 DEF Arrive, TypeOK, Change
  <2>6. changes' \in [Testpoint -> Seq(Change)]
    <3>1. CASE l[1] \in Testpoint /\ changes' = [changes EXCEPT ![l[1]] = Append(@, change)]
      <4>1. Append(changes[l[1]], change) \in Seq(Change)
        BY <2>2, <3>1, Appended DEF TypeOK
      <4>. QED
        BY <3>1, <4>1 DEF TypeOK
    <3>. QED
      BY <1>3, <3>1 DEF Arrive, TypeOK
  <2>. QED
    BY <1>3, <2>4, <2>5, <2>6 DEF Arrive, TypeOK
<1>4. ASSUME NEW f \in Testpoint, ForwardChange(f) PROVE TypeOK'
  <2>1. changes[f] \in Seq(Change) /\ changes[f] # <<>>
    BY <1>4 DEF ForwardChange, TypeOK
  <2>2. Head(changes[f]) \in Change /\ Tail(changes[f]) \in Seq(Change)
    BY <2>1, RestOf
  <2>3. SendUp(f, Head(changes[f])) /\ changes' = [changes EXCEPT ![f] = Tail(@)]
    BY <1>4 DEF ForwardChange, Forwarded
  <2>4. changes' \in [Testpoint -> Seq(Change)]
    BY <2>2, <2>3 DEF TypeOK
  <2>. QED
    BY <1>4, <2>2, <2>3, <2>4, SendUpType DEF ForwardChange, TypeOK
<1>5. ASSUME NEW p \in Probe, NEW topic \in Topic, Publish(p, topic) PROVE TypeOK'
  <2>. DEFINE r == [probe |-> p, number |-> Len(published'[p]), topic |-> topic]
  <2>1. /\ reports' = SentDown(p, r, reports)
        /\ due' = [c \in Client |-> IF SetUp(c, p, topic) /\ c \notin Dropped(p, r)
                                    THEN due[c] \cup {r} ELSE due[c]]
        /\ UNCHANGED <<up, linked, subVars, received, breaks>>
    BY <1>5 DEF Publish
  <2>5. r \in Report /\ published' \in [Probe -> Seq(Topic)]
    BY <1>5, PublishedReport
  <2>. HIDE DEF r
  <2>6. reports' \in [Links -> Seq(Report)]
    BY <2>1, <2>5, SentDownType DEF TypeOK
  <2>7. due' \in [Client -> SUBSET Report]
    BY <2>1, <2>5 DEF TypeOK
  <2>. QED
    BY <2>1, <2>5, <2>6, <2>7 DEF TypeOK, subVars
<1>6. ASSUME NEW l \in Links, ForwardReport(l) PROVE TypeOK'
  <2>. DEFINE r == Head(reports[l])
  <2>1. /\ reports[l] # <<>>
        /\ reports' = SentDown(l[2], r, [reports EXCEPT ![l] = Rest(@)])
        /\ due' = [c \in Client |-> IF c \in Dropped(l[2], r) THEN due[c] \ {r} ELSE due[c]]
        /\ UNCHANGED <<up, linked, subVars, published, received, breaks>>
    BY <1>6 DEF ForwardReport
  <2>2. r \in Report /\ [reports EXCEPT ![l] = Rest(@)] \in [Links -> Seq(Report)]
    BY <2>1, RestType
  <2>. HIDE DEF r
  <2>3. reports' \in [Links -> Seq(Report)]
    BY <2>1, <2>2, SentDownType
  <2>4. due' \in [Client -> SUBSET Report]
    BY <2>1 DEF TypeOK
  <2>. QED
    BY <2>1, <2>3, <2>4 DEF TypeOK, subVars
<1>7. ASSUME NEW l \in Links, Receive(l) PROVE TypeOK'
  <2>1. /\ reports[l] # <<>> /\ l[2] \in Client
        /\ received' = [received EXCEPT ![l[2]] = Append(@, Head(reports[l]))]
        /\ reports' = [reports EXCEPT ![l] = Rest(@)]
        /\ UNCHANGED <<up, linked, subVars, published, due, breaks>>
    BY <1>7 DEF Receive
  <2>2. Head(reports[l]) \in Report /\ reports' \in [Links -> Seq(Report)]
    BY <2>1, RestType
  <2>3. Append(received[l[2]], Head(reports[l])) \in Seq(Report)
    BY <2>1, <2>2, Appended DEF TypeOK
  <2>4. received' \in [Client -> Seq(Report)]
    BY <2>1, <2>3 DEF TypeOK
  <2>. QED
    BY <2>1, <2>2, <2>4 DEF TypeOK, subVars
<1>8. ASSUME NEW l \in Links, Disconnect(l) PROVE TypeOK'
  <2>1. /\ up' = up /\ Lose({l}) /\ UNCHANGED <<mine, published, received>>
        /\ due' \in [Client -> SUBSET Report]
    BY <1>8 DEF Disconnect, StillDue, TypeOK
  <2>. QED
    BY <2>1, LoseType DEF TypeOK
<1>9. ASSUME NEW n \in Node, Crash(n) PROVE TypeOK'
  <2>1. /\ up' = up \ {n} /\ Lose(linked \cap (Above(n) \cup Below(n)))
        /\ due' \in [Client -> SUBSET Report]
        /\ mine' \in [Testpoint \cup Client -> SUBSET Filter]
        /\ received' \in [Client -> Seq(Report)]
        /\ published' = published
    BY <1>9 DEF Crash, StillDue, TypeOK
  <2>2. linked \cap (Above(n) \cup Below(n)) \in SUBSET Links
    BY DEF Above, Below
  <2>3. linked' = linked \ (linked \cap (Above(n) \cup Below(n)))
    BY <2>1 DEF Lose
  <2>4. linked' \subseteq {l \in Links : {l[1], l[2]} \subseteq up'}
    BY <2>1, <2>3 DEF TypeOK, Above, Below
  <2>. QED
    BY <2>1, <2>2, <2>4, LoseType DEF TypeOK
<1>10. ASSUME NEW n \in Node, Start(n) PROVE TypeOK'
  BY <1>10 DEF Start, TypeOK, subVars
<1>11. CASE UNCHANGED vars
  BY <1>11 DEF vars, subVars, TypeOK
<1>. QED
  BY <1>1, <1>2, <1>3, <1>4, <1>5, <1>6, <1>7, <1>8, <1>9, <1>10, <1>11 DEF Next

\* The variables have their types.
THEOREM TypeCorrect == Spec => []TypeOK
BY InitType, NextType, PTL DEF Spec

-----------------------------------------------------------------------------
(* What is kept for a connection.                                          *)

\* A report goes to the connections that are up and have subscribed.
LEMMA SentDownFacts ==
    ASSUME NEW n, NEW r, NEW queues, NEW l \in Links
    PROVE  \/ SentDown(n, r, queues)[l] = queues[l]
           \/ /\ SentDown(n, r, queues)[l] = Append(queues[l], r)
              /\ l[1] = n /\ l \in linked /\ Heard(r.topic, table[l]) /\ ~Full(l)
BY DEF SentDown, Below, Subscribed

\* A change goes up the connections of its sender.
LEMMA SendUpFacts ==
    ASSUME TypeOK, NEW n \in Testpoint \cup Client, NEW change \in Change, SendUp(n, change)
    PROVE  /\ \A m \in Testpoint \cup Client : m # n => mine'[m] = mine[m]
           /\ mine'[n] = IF change.on THEN mine[n] \cup {change.filter}
                                      ELSE mine[n] \ {change.filter}
           /\ \A l \in Links : IF l[2] = n /\ l \in linked
                               THEN asked'[l] = Append(asked[l], change)
                               ELSE asked'[l] = asked[l]
BY DEF SendUp, TypeOK, Above

\* What is lost with connections.
LEMMA LoseFacts ==
    ASSUME TypeOK, NEW lost \in SUBSET Links, Lose(lost)
    PROVE  /\ linked' = linked \ lost
           /\ \A l \in lost : table'[l] = {} /\ asked'[l] = <<>> /\ reports'[l] = <<>>
           /\ \A l \in Links \ lost :
                  table'[l] = table[l] /\ asked'[l] = asked[l] /\ reports'[l] = reports[l]
BY DEF Lose, TypeOK

\* The connections that end with a process.
LEMMA CrashFacts ==
    ASSUME TypeOK, NEW n \in Node, Crash(n)
    PROVE  \E lost \in SUBSET Links :
               /\ Lose(lost)
               /\ lost = {l \in linked : l[1] = n \/ l[2] = n}
               /\ up' = up \ {n} /\ published' = published
               /\ \A m \in Testpoint \cup Client : mine'[m] = IF m = n THEN {} ELSE mine[m]
               /\ \A c \in Client : received'[c] = IF c = n THEN <<>> ELSE received[c]
<1>. DEFINE lost == linked \cap (Above(n) \cup Below(n))
<1>1. lost \in SUBSET Links /\ lost = {l \in linked : l[1] = n \/ l[2] = n}
  BY DEF Above, Below, TypeOK
<1>. QED
  BY <1>1 DEF Crash

LEMMA NextLink == ASSUME TypeOK, LinkInv, [Next]_vars PROVE LinkInv'
<1>1. ASSUME NEW c \in Client, NEW filter \in Filter, Subscribe(c, filter) PROVE LinkInv'
  <2>1. On(filter) \in Change /\ SendUp(c, On(filter)) /\ UNCHANGED <<linked, table, reports>>
    BY <1>1 DEF On, Change, Subscribe
  <2>. QED
    BY <2>1, SendUpFacts DEF LinkInv
<1>2. ASSUME NEW l \in Links, Link(l) PROVE LinkInv'
  <2>1. /\ linked' = linked \cup {l} /\ UNCHANGED <<table, reports>>
        /\ \A k \in Links : k # l => asked'[k] = asked[k]
    BY <1>2 DEF Link, TypeOK
  <2>. QED
    BY <2>1 DEF LinkInv
<1>3. ASSUME NEW l \in Links, Arrive(l) PROVE LinkInv'
  <2>1. /\ asked[l] # <<>> /\ UNCHANGED <<linked, reports>>
        /\ \A k \in Links : k # l => asked'[k] = asked[k] /\ table'[k] = table[k]
    BY <1>3 DEF Arrive, TypeOK
  <2>. QED
    BY <2>1 DEF LinkInv
<1>4. ASSUME NEW f \in Testpoint, ForwardChange(f) PROVE LinkInv'
  <2>1. changes[f] \in Seq(Change) /\ changes[f] # <<>>
    BY <1>4 DEF ForwardChange, TypeOK
  <2>2. Head(changes[f]) \in Change
    BY <2>1, RestOf
  <2>3. SendUp(f, Head(changes[f])) /\ UNCHANGED <<linked, table, reports>>
    BY <1>4 DEF ForwardChange, Forwarded
  <2>. QED
    BY <2>2, <2>3, SendUpFacts DEF LinkInv
<1>5. ASSUME NEW p \in Probe, NEW topic \in Topic, Publish(p, topic) PROVE LinkInv'
  <2>1. \E r : reports' = SentDown(p, r, reports)
    BY <1>5 DEF Publish
  <2>2. \A l \in Links \ linked : reports'[l] = reports[l]
    BY <2>1, SentDownFacts
  <2>. QED
    BY <1>5, <2>2 DEF LinkInv, Publish, subVars
<1>6. ASSUME NEW l \in Links, ForwardReport(l) PROVE LinkInv'
  <2>. DEFINE queues == [reports EXCEPT ![l] = Rest(@)]
  <2>1. reports[l] # <<>> /\ \E r : reports' = SentDown(l[2], r, queues)
    BY <1>6 DEF ForwardReport
  <2>2. l \in linked
    BY <2>1 DEF LinkInv
  <2>3. \A k \in Links \ linked : queues[k] = reports[k]
    BY <2>2 DEF TypeOK
  <2>. HIDE DEF queues
  <2>4. \A k \in Links \ linked : reports'[k] = queues[k]
    BY <2>1, SentDownFacts
  <2>. QED
    BY <1>6, <2>3, <2>4 DEF LinkInv, ForwardReport, subVars
<1>7. ASSUME NEW l \in Links, Receive(l) PROVE LinkInv'
  <2>1. /\ reports[l] # <<>> /\ UNCHANGED <<linked, asked, table>>
        /\ \A k \in Links : k # l => reports'[k] = reports[k]
    BY <1>7 DEF Receive, subVars, TypeOK
  <2>. QED
    BY <2>1 DEF LinkInv
<1>8. ASSUME NEW lost \in SUBSET Links, Lose(lost) PROVE LinkInv'
  BY <1>8, LoseFacts DEF LinkInv
<1>9. ASSUME NEW l \in Links, Disconnect(l) PROVE LinkInv'
  BY <1>8, <1>9 DEF Disconnect
<1>10. ASSUME NEW n \in Node, Crash(n) PROVE LinkInv'
  BY <1>8, <1>10, CrashFacts
<1>11. ASSUME NEW n \in Node, Start(n) PROVE LinkInv'
  BY <1>11 DEF Start, LinkInv, subVars
<1>12. CASE UNCHANGED vars
  BY <1>12 DEF vars, subVars, LinkInv
<1>. QED
  BY <1>1, <1>2, <1>3, <1>4, <1>5, <1>6, <1>7, <1>9, <1>10, <1>11, <1>12 DEF Next

-----------------------------------------------------------------------------
(* What clients are sent.                                                  *)

\* More filters hear more.
LEMMA HeardMore ==
    ASSUME NEW topic, NEW filters, NEW more, filters \subseteq more, Heard(topic, filters)
    PROVE  Heard(topic, more)
BY DEF Heard

\* The rest of a queue is about the same topics.
LEMMA RestHeard ==
    ASSUME NEW q \in Seq(Report), q # <<>>, NEW filters,
           \A i \in 1..Len(q) : Heard(q[i].topic, filters)
    PROVE  Tail(q) \in Seq(Report) /\ \A i \in 1..Len(Tail(q)) : Heard(Tail(q)[i].topic, filters)
<1>1. /\ Tail(q) \in Seq(Report) /\ Len(q) \in Nat \ {0} /\ Len(Tail(q)) = Len(q) - 1
      /\ \A i \in 1..(Len(q) - 1) : Tail(q)[i] = q[i + 1]
  BY RestOf
<1>2. ASSUME NEW i \in 1..Len(Tail(q)) PROVE Heard(Tail(q)[i].topic, filters)
  <2>1. i + 1 \in 1..Len(q) /\ Tail(q)[i] = q[i + 1]
    BY <1>1
  <2>2. Heard(q[i + 1].topic, filters)
    BY <2>1
  <2>. QED
    BY <2>1, <2>2
<1>. QED
  BY <1>1, <1>2

\* ClientInv of one link.
Served(l) ==
    /\ table[l] \subseteq mine[l[2]]
    /\ \A i \in 1..Len(asked[l]) : \E filter \in mine[l[2]] : asked[l][i] = On(filter)
    /\ \A i \in 1..Len(reports[l]) : Heard(reports[l][i].topic, mine[l[2]])

\* It stays if nothing is sent.
LEMMA ServedKept ==
    ASSUME NEW l \in Links, Served(l), mine[l[2]] \subseteq mine'[l[2]],
           table'[l] = table[l], asked'[l] = asked[l], reports'[l] = reports[l]
    PROVE  Served(l)'
BY DEF Served, Heard, On

LEMMA NextClient == ASSUME TypeOK, LinkInv, ClientInv, [Next]_vars PROVE ClientInv'
<1> SUFFICES ASSUME NEW l \in Links, l[2] \in Client PROVE Served(l)'
  BY DEF ClientInv, Served
<1>0. /\ Served(l) /\ asked[l] \in Seq(Change) /\ reports[l] \in Seq(Report)
      /\ l[2] \notin Testpoint
  BY NodeAssumption DEF ClientInv, Served, TypeOK
<1>1. ASSUME NEW c \in Client, NEW filter \in Filter, Subscribe(c, filter) PROVE Served(l)'
  <2>1. On(filter) \in Change /\ SendUp(c, On(filter)) /\ UNCHANGED <<table, reports>>
    BY <1>1 DEF On, Change, Subscribe
  <2>2. mine[l[2]] \subseteq mine'[l[2]]
    BY <2>1, SendUpFacts DEF On
  <2>3. CASE asked'[l] = asked[l]
    BY <1>0, <2>1, <2>2, <2>3, ServedKept
  <2>4. CASE asked'[l] = Append(asked[l], On(filter)) /\ l[2] = c
    <3>1. filter \in mine'[l[2]]
      <4>1. On(filter).on /\ On(filter).filter = filter
        BY DEF On
      <4>2. mine'[c] = IF On(filter).on THEN mine[c] \cup {On(filter).filter}
                                        ELSE mine[c] \ {On(filter).filter}
        BY <2>1, SendUpFacts, Zenon
      <4>. QED
        BY <2>4, <4>1, <4>2
    <3>2. \A i \in 1..Len(asked'[l]) : i \in 1..Len(asked[l]) \/ i = Len(asked[l]) + 1
      BY <1>0, <2>1, <2>4, Appended
    <3>3. \A i \in 1..Len(asked'[l]) : \E x \in mine'[l[2]] : asked'[l][i] = On(x)
      BY <1>0, <2>1, <2>2, <2>4, <3>1, <3>2, Appended DEF Served
    <3>. QED
      BY <1>0, <2>1, <2>2, <3>3, HeardMore DEF Served, On
  <2>. QED
    BY <2>1, <2>3, <2>4, SendUpFacts
<1>2. ASSUME NEW k \in Links, Link(k) PROVE Served(l)'
  <2>1. UNCHANGED <<table, mine, reports>>
    BY <1>2 DEF Link
  <2>2. CASE k = l
    <3>1. asked'[l] = SetToSeq({[filter |-> x, on |-> TRUE] : x \in mine[l[2]]})
      BY <1>2, <2>2 DEF Link, On, TypeOK
    <3>2. mine[l[2]] \in SUBSET Filter
      BY DEF TypeOK
    <3>3. \A i \in 1..Len(asked'[l]) : \E x \in mine[l[2]] : asked'[l][i] = On(x)
      BY <3>1, <3>2, ChangesListed DEF On
    <3>. QED
      BY <1>0, <2>1, <3>3 DEF Served, Heard, On
  <2>3. CASE k # l
    BY <1>0, <1>2, <2>1, <2>3, ServedKept DEF Link, TypeOK
  <2>. QED
    BY <2>2, <2>3
<1>3. ASSUME NEW k \in Links, Arrive(k) PROVE Served(l)'
  <2>1. UNCHANGED <<mine, reports>>
    BY <1>3 DEF Arrive
  <2>2. CASE k = l
    <3>1. asked[l] # <<>>
      BY <1>3, <2>2 DEF Arrive
    <3>2. PICK x \in mine[l[2]] : Head(asked[l]) = On(x)
      BY <1>0, <3>1, RestOf DEF Served
    <3>3. table'[l] = table[l] \cup {x} /\ asked'[l] = Tail(asked[l])
      BY <1>3, <2>2, <3>2 DEF Arrive, TypeOK, On
    <3>4. \A i \in 1..Len(asked'[l]) : \E y \in mine[l[2]] : asked'[l][i] = On(y)
      BY <1>0, <3>1, <3>3, RestOf DEF Served
    <3>. QED
      BY <1>0, <2>1, <3>2, <3>3, <3>4 DEF Served, Heard, On
  <2>3. CASE k # l
    BY <1>0, <1>3, <2>1, <2>3, ServedKept DEF Arrive, TypeOK
  <2>. QED
    BY <2>2, <2>3
<1>4. ASSUME NEW f \in Testpoint, ForwardChange(f) PROVE Served(l)'
  <2>1. changes[f] \in Seq(Change) /\ changes[f] # <<>>
    BY <1>4 DEF ForwardChange, TypeOK
  <2>. DEFINE change == Head(changes[f])
  <2>2. change \in Change
    BY <2>1, RestOf
  <2>3. SendUp(f, change) /\ UNCHANGED <<table, reports>>
    BY <1>4 DEF ForwardChange, Forwarded
  <2>. HIDE DEF change
  <2>4. asked'[l] = asked[l] /\ mine'[l[2]] = mine[l[2]]
    <3>1. /\ \A m \in Testpoint \cup Client : m # f => mine'[m] = mine[m]
          /\ \A k \in Links : k[2] # f => asked'[k] = asked[k]
      BY <2>2, <2>3, SendUpFacts
    <3>2. l[2] # f /\ l[2] \in Testpoint \cup Client
      BY <1>0
    <3>. QED
      BY <3>1, <3>2
  <2>. QED
    BY <1>0, <2>3, <2>4, ServedKept
<1>5. ASSUME UNCHANGED <<mine, table, asked>>, NEW n, NEW r \in Report, NEW queue \in Seq(Report),
             \/ reports'[l] = queue
             \/ reports'[l] = Append(queue, r) /\ Heard(r.topic, table[l]),
             \A i \in 1..Len(queue) : Heard(queue[i].topic, mine[l[2]])
      PROVE  Served(l)'
  <2>1. CASE reports'[l] = queue
    BY <1>0, <1>5, <2>1 DEF Served, Heard, On
  <2>2. CASE reports'[l] = Append(queue, r) /\ Heard(r.topic, table[l])
    <3>1. Heard(r.topic, mine[l[2]])
      BY <1>0, <2>2, HeardMore DEF Served
    <3>2. /\ Len(reports'[l]) = Len(queue) + 1 /\ reports'[l][Len(queue) + 1] = r
          /\ \A i \in 1..Len(queue) : reports'[l][i] = queue[i]
      BY <2>2, Appended
    <3>3. \A i \in 1..Len(reports'[l]) : i \in 1..Len(queue) \/ i = Len(queue) + 1
      BY <3>2
    <3>4. \A i \in 1..Len(reports'[l]) : Heard(reports'[l][i].topic, mine[l[2]])
      BY <1>5, <3>1, <3>2, <3>3
    <3>. QED
      BY <1>0, <1>5, <3>4 DEF Served, Heard, On
  <2>. QED
    BY <1>5, <2>1, <2>2
<1>6. ASSUME NEW p \in Probe, NEW topic \in Topic, Publish(p, topic) PROVE Served(l)'
  <2>. DEFINE r == [probe |-> p, number |-> Len(published'[p]), topic |-> topic]
  <2>1. reports' = SentDown(p, r, reports) /\ UNCHANGED <<mine, table, asked>>
    BY <1>6 DEF Publish, subVars
  <2>2. r \in Report
    BY <1>6, PublishedReport
  <2>. HIDE DEF r
  <2>. QED
    BY <1>0, <1>5, <2>1, <2>2, SentDownFacts DEF Served
<1>7. ASSUME NEW k \in Links, ForwardReport(k) PROVE Served(l)'
  <2>. DEFINE r == Head(reports[k])
              queues == [reports EXCEPT ![k] = Rest(@)]
  <2>1. /\ reports[k] # <<>> /\ reports' = SentDown(k[2], r, queues)
        /\ UNCHANGED <<mine, table, asked>>
    BY <1>7 DEF ForwardReport, subVars
  <2>2. r \in Report /\ queues \in [Links -> Seq(Report)]
    BY <2>1, RestType
  <2>3. queues[l] = reports[l] \/ (queues[l] = Tail(reports[l]) /\ reports[l] # <<>>)
    BY <2>1 DEF TypeOK, Rest
  <2>. HIDE DEF r, queues
  <2>4. queues[l] \in Seq(Report) /\ \A i \in 1..Len(queues[l]) : Heard(queues[l][i].topic, mine[l[2]])
    BY <1>0, <2>2, <2>3, RestHeard DEF Served
  <2>5. \/ reports'[l] = queues[l]
        \/ reports'[l] = Append(queues[l], r) /\ Heard(r.topic, table[l])
    BY <2>1, SentDownFacts
  <2>. QED
    BY <1>5, <2>1, <2>2, <2>4, <2>5
<1>8. ASSUME NEW k \in Links, Receive(k) PROVE Served(l)'
  <2>1. /\ reports[k] # <<>> /\ reports' = [reports EXCEPT ![k] = Rest(@)]
        /\ UNCHANGED <<mine, table, asked>>
    BY <1>8 DEF Receive, subVars
  <2>2. reports'[l] = reports[l] \/ (reports'[l] = Tail(reports[l]) /\ reports[l] # <<>>)
    BY <2>1 DEF TypeOK, Rest
  <2>3. /\ reports'[l] \in Seq(Report)
        /\ \A i \in 1..Len(reports'[l]) : Heard(reports'[l][i].topic, mine[l[2]])
    BY <1>0, <2>2, RestHeard DEF Served
  <2>. QED
    BY <1>0, <2>1, <2>3 DEF Served, Heard, On
<1>9. ASSUME NEW lost \in SUBSET Links, Lose(lost),
             mine'[l[2]] = mine[l[2]] \/ (l \in linked => l \in lost)
      PROVE  Served(l)'
  <2>1. CASE table'[l] = {} /\ asked'[l] = <<>> /\ reports'[l] = <<>>
    BY <2>1 DEF Served
  <2>2. CASE /\ table'[l] = table[l] /\ asked'[l] = asked[l] /\ reports'[l] = reports[l]
             /\ mine'[l[2]] = mine[l[2]]
    BY <1>0, <2>2, ServedKept
  <2>. QED
    BY <1>9, <2>1, <2>2, LoseFacts DEF LinkInv
<1>10. ASSUME NEW k \in Links, Disconnect(k) PROVE Served(l)'
  BY <1>9, <1>10 DEF Disconnect
<1>11. ASSUME NEW n \in Node, Crash(n) PROVE Served(l)'
  BY <1>9, <1>11, CrashFacts
<1>12. CASE UNCHANGED <<mine, table, asked, reports>>
  BY <1>0, <1>12, ServedKept
<1>. QED
  BY <1>1, <1>2, <1>3, <1>4, <1>6, <1>7, <1>8, <1>10, <1>11, <1>12
     DEF Next, Start, vars, subVars

-----------------------------------------------------------------------------
(* The order of reports.                                                   *)

\* The members of a queue from which d reports have been taken and to which one may
\* have been added.
LEMMA Moved ==
    ASSUME NEW q \in Seq(Report), NEW r \in Report, NEW d \in {0, 1}, NEW queue, NEW result,
           IF d = 0 THEN queue = q ELSE q # <<>> /\ queue = Tail(q),
           result = queue \/ result = Append(queue, r)
    PROVE  /\ result \in Seq(Report)
           /\ \A i \in 1..Len(result) :
                  \/ i + d \in 1..Len(q) /\ result[i] = q[i + d]
                  \/ i + d = Len(q) + 1 /\ result[i] = r /\ result = Append(queue, r)
<1>1. /\ queue \in Seq(Report) /\ Len(queue) = Len(q) - d /\ Len(queue) \in Nat /\ Len(q) \in Nat
      /\ \A i \in 1..Len(queue) : i + d \in 1..Len(q) /\ queue[i] = q[i + d]
  BY RestOf
<1>2. CASE result = queue
  BY <1>1, <1>2
<1>3. CASE result = Append(queue, r)
  <2>1. /\ result \in Seq(Report) /\ Len(result) = Len(queue) + 1
        /\ \A i \in 1..Len(queue) : result[i] = queue[i]
        /\ result[Len(queue) + 1] = r
    BY <1>1, <1>3, Appended
  <2>2. ASSUME NEW i \in 1..Len(result)
        PROVE  \/ i + d \in 1..Len(q) /\ result[i] = q[i + d]
               \/ i + d = Len(q) + 1 /\ result[i] = r /\ result = Append(queue, r)
    <3>1. i \in 1..Len(queue) \/ i = Len(queue) + 1
      BY <1>1, <2>1
    <3>2. CASE i \in 1..Len(queue)
      BY <1>1, <2>1, <3>2
    <3>3. CASE i = Len(queue) + 1
      BY <1>1, <1>3, <2>1, <3>3
    <3>. QED
      BY <3>1, <3>2, <3>3
  <2>. QED
    BY <2>1, <2>2
<1>. QED
  BY <1>2, <1>3

\* The queues after a report has been sent: d(l) have been taken from that of l.
Sent(l, d, n, r) ==
    /\ reports'[l] \in Seq(Report)
    /\ \A i \in 1..Len(reports'[l]) :
          \/ i + d \in 1..Len(reports[l]) /\ reports'[l][i] = reports[l][i + d]
          \/ i + d = Len(reports[l]) + 1 /\ reports'[l][i] = r /\ l[1] = n

LEMMA PublishSends ==
    ASSUME TypeOK, NEW p \in Probe, NEW topic \in Topic, Publish(p, topic), NEW l \in Links
    PROVE  Sent(l, 0, p, [probe |-> p, number |-> Len(published'[p]), topic |-> topic])
<1>. DEFINE r == [probe |-> p, number |-> Len(published'[p]), topic |-> topic]
<1>1. r \in Report /\ reports' = SentDown(p, r, reports) /\ reports[l] \in Seq(Report)
  BY PublishedReport DEF Publish, TypeOK
<1>. HIDE DEF r
<1> SUFFICES Sent(l, 0, p, r)
  BY DEF r
<1>2. reports'[l] = reports[l] \/ (reports'[l] = Append(reports[l], r) /\ l[1] = p)
  BY <1>1, SentDownFacts
<1>3. CASE reports'[l] = reports[l]
  BY <1>1, <1>3 DEF Sent
<1>4. CASE reports'[l] = Append(reports[l], r) /\ l[1] = p
  <2>. DEFINE q == reports[l]
              result == reports'[l]
  <2>1. /\ result \in Seq(Report)
        /\ \A i \in 1..Len(result) : \/ i + 0 \in 1..Len(q) /\ result[i] = q[i + 0]
                                     \/ i + 0 = Len(q) + 1 /\ result[i] = r
    BY <1>1, <1>4, Moved
  <2>2. \A i \in 1..Len(result) : \/ i + 0 \in 1..Len(q) /\ result[i] = q[i + 0]
                                  \/ i + 0 = Len(q) + 1 /\ result[i] = r /\ l[1] = p
    BY <1>4, <2>1
  <2>. QED
    BY <2>1, <2>2 DEF Sent
<1>. QED
  BY <1>2, <1>3, <1>4

LEMMA ForwardSends ==
    ASSUME TypeOK, NEW k \in Links, ForwardReport(k), NEW l \in Links
    PROVE  Sent(l, IF l = k THEN 1 ELSE 0, k[2], Head(reports[k]))
<1>. DEFINE r == Head(reports[k])
            queues == [reports EXCEPT ![k] = Rest(@)]
            d == IF l = k THEN 1 ELSE 0
<1>1. reports[k] # <<>> /\ reports' = SentDown(k[2], r, queues)
  BY DEF ForwardReport
<1>2. r \in Report /\ reports[l] \in Seq(Report)
  BY <1>1, RestType DEF TypeOK
<1>3. IF d = 0 THEN queues[l] = reports[l]
               ELSE reports[l] # <<>> /\ queues[l] = Tail(reports[l])
  BY <1>1 DEF TypeOK, Rest
<1>. HIDE DEF r, queues
<1>4. \/ reports'[l] = queues[l]
      \/ reports'[l] = Append(queues[l], r) /\ l[1] = k[2]
  BY <1>1, SentDownFacts
<1>5. d \in {0, 1}
  OBVIOUS
<1>. HIDE DEF d
<1>. DEFINE q == reports[l]
            result == reports'[l]
            queue == queues[l]
<1>6. /\ result \in Seq(Report)
      /\ \A i \in 1..Len(result) : \/ i + d \in 1..Len(q) /\ result[i] = q[i + d]
                                   \/ i + d = Len(q) + 1 /\ result[i] = r /\ result = Append(queue, r)
  <2>. HIDE DEF q, result, queue
  <2>1. IF d = 0 THEN queue = q ELSE q # <<>> /\ queue = Tail(q)
    BY <1>3 DEF q, queue
  <2>2. q \in Seq(Report) /\ (result = queue \/ result = Append(queue, r))
    BY <1>2, <1>4 DEF q, result, queue
  <2>. QED
    BY <1>2, <1>5, <2>1, <2>2, Moved
<1>7. ASSUME l[1] # k[2], NEW i \in 1..Len(result) PROVE i + d \in 1..Len(q) /\ result[i] = q[i + d]
  <2>1. result = queue
    BY <1>4, <1>7
  <2>2. /\ queue \in Seq(Report) /\ Len(queue) = Len(q) - d /\ Len(queue) \in Nat /\ Len(q) \in Nat
        /\ \A j \in 1..Len(queue) : j + d \in 1..Len(q) /\ queue[j] = q[j + d]
    <3>1. q \in Seq(Report)
      BY <1>2
    <3>2. CASE d = 0 /\ queue = q
      BY <3>1, <3>2
    <3>3. CASE d = 1 /\ q # <<>> /\ queue = Tail(q)
      <4>. HIDE DEF q, queue
      <4>. QED
        BY <3>1, <3>3, RestOf
    <3>. QED
      BY <1>3, <1>5, <3>2, <3>3
  <2>. QED
    BY <1>7, <2>1, <2>2
<1>. QED
  BY <1>6, <1>7 DEF Sent, r, d

LEMMA ReceiveTakes ==
    ASSUME TypeOK, NEW k \in Links, Receive(k), NEW l \in Links
    PROVE  Sent(l, IF l = k THEN 1 ELSE 0, k[2], Head(reports[k]))
<1>1. reports[k] # <<>> /\ reports' = [reports EXCEPT ![k] = Tail(@)]
  BY DEF Receive, Rest
<1>2. reports[l] \in Seq(Report)
  BY DEF TypeOK
<1>3. CASE l # k
  BY <1>1, <1>2, <1>3 DEF Sent, TypeOK
<1>4. CASE l = k
  <2>1. /\ reports'[l] = Tail(reports[l]) /\ reports'[l] \in Seq(Report)
        /\ Len(reports[l]) \in Nat \ {0} /\ Len(reports'[l]) = Len(reports[l]) - 1
        /\ \A i \in 1..(Len(reports[l]) - 1) : reports'[l][i] = reports[l][i + 1]
    BY <1>1, <1>2, <1>4, RestOf DEF TypeOK
  <2>. QED
    BY <1>4, <2>1 DEF Sent
<1>. QED
  BY <1>3, <1>4

LEMMA NextOrigin == ASSUME TypeOK, OriginInv, [Next]_vars PROVE OriginInv'
<1>0. \A l \in Links : \A i \in 1..Len(reports[l]) : Genuine(l, reports[l][i], published) /\ reports[l][i] \in Report
  BY ElementOfSeq DEF OriginInv, TypeOK
<1>1. ASSUME NEW p \in Probe, NEW topic \in Topic, Publish(p, topic) PROVE OriginInv'
  <2>. DEFINE r == [probe |-> p, number |-> Len(published'[p]), topic |-> topic]
  <2>1. /\ published'[p] \in Seq(Topic) /\ published[p] \in Seq(Topic)
        /\ Len(published'[p]) = Len(published[p]) + 1
        /\ published'[p][Len(published'[p])] = topic
        /\ \A i \in 1..Len(published[p]) : published'[p][i] = published[p][i]
        /\ \A q \in Probe : q # p => published'[q] = published[q]
    BY <1>1, PublishedReport DEF TypeOK
  <2>2. ASSUME NEW l \in Links, NEW x \in Report, Genuine(l, x, published) PROVE Genuine(l, x, published')
    <3>1. x.probe \in Probe
      BY DEF Report
    <3>2. CASE x.probe = p
      <4>1. x.number \in 1..Len(published[p])
        BY <2>2, <3>2 DEF Genuine
      <4>2. x.number \in 1..Len(published'[p]) /\ published'[p][x.number] = published[p][x.number]
        BY <2>1, <4>1
      <4>. QED
        BY <2>2, <3>2, <4>2 DEF Genuine
    <3>3. CASE x.probe # p
      BY <2>1, <2>2, <3>1, <3>3 DEF Genuine
    <3>. QED
      BY <3>2, <3>3
  <2>3. ASSUME NEW l \in Links, l[1] = p PROVE Genuine(l, r, published')
    <3>1. p \in From[p]
      BY FromFacts DEF Node
    <3>2. Len(published'[p]) \in 1..Len(published'[p])
      BY <2>1
    <3>3. r.probe = p /\ r.number = Len(published'[p]) /\ r.topic = topic
      OBVIOUS
    <3>. HIDE DEF r
    <3>. QED
      BY <2>1, <2>3, <3>1, <3>2, <3>3 DEF Genuine
  <2>. HIDE DEF r
  <2>4. ASSUME NEW l \in Links, NEW i \in 1..Len(reports'[l]) PROVE Genuine(l, reports'[l][i], published')
    <3>1. \/ i + 0 \in 1..Len(reports[l]) /\ reports'[l][i] = reports[l][i + 0]
          \/ reports'[l][i] = r /\ l[1] = p
      <4>1. Sent(l, 0, p, r)
        BY <1>1, PublishSends DEF r
      <4>. QED
        BY <4>1 DEF Sent
    <3>2. CASE reports'[l][i] = r /\ l[1] = p
      BY <2>3, <3>2
    <3>3. ASSUME NEW j \in 1..Len(reports[l]), reports'[l][i] = reports[l][j]
          PROVE  Genuine(l, reports'[l][i], published')
      BY <1>0, <2>2, <3>3
    <3>4. i + 0 = i
      OBVIOUS
    <3>. QED
      BY <3>1, <3>2, <3>3, <3>4
  <2>. QED
    BY <2>4 DEF OriginInv
<1>2. ASSUME NEW k \in Links, ForwardReport(k) \/ Receive(k) PROVE OriginInv'
  <2>. DEFINE r == Head(reports[k])
  <2>1. published' = published /\ reports[k] # <<>>
    BY <1>2 DEF ForwardReport, Receive
  <2>2. r = reports[k][1] /\ Len(reports[k]) \in Nat \ {0}
    BY <2>1, RestOf DEF TypeOK
  <2>3. Genuine(k, r, published) /\ r \in Report
    BY <1>0, <2>2
  <2>. HIDE DEF r
  <2>4. ASSUME NEW l \in Links, l[1] = k[2] PROVE Genuine(l, r, published)
    <3>1. r.probe \in Node
      BY <2>3 DEF Report, Node
    <3>. QED
      BY <2>3, <2>4, <3>1, FromFacts DEF Genuine
  <2>5. ASSUME NEW l \in Links, NEW i \in 1..Len(reports'[l]) PROVE Genuine(l, reports'[l][i], published)
    <3>1. PICK d \in {0, 1} : Sent(l, d, k[2], r)
      BY <1>2, ForwardSends, ReceiveTakes DEF r
    <3>2. \/ i + d \in 1..Len(reports[l]) /\ reports'[l][i] = reports[l][i + d]
          \/ reports'[l][i] = r /\ l[1] = k[2]
      BY <3>1 DEF Sent
    <3>. QED
      BY <1>0, <2>4, <3>2
  <2>. QED
    BY <2>1, <2>5 DEF OriginInv, Genuine
<1>3. CASE /\ published' = published
           /\ \A l \in Links : reports'[l] = reports[l] \/ reports'[l] = <<>>
  <2> SUFFICES ASSUME NEW l \in Links, NEW i \in 1..Len(reports'[l])
               PROVE  Genuine(l, reports'[l][i], published')
    BY DEF OriginInv
  <2>1. reports'[l] = reports[l]
    BY <1>3
  <2>. QED
    BY <1>3, <2>1 DEF OriginInv
<1>4. ASSUME NEW lost \in SUBSET Links, Lose(lost), published' = published PROVE OriginInv'
  BY <1>3, <1>4, LoseFacts
<1>5. ASSUME NEW l \in Links, Disconnect(l) PROVE OriginInv'
  BY <1>4, <1>5 DEF Disconnect
<1>6. ASSUME NEW n \in Node, Crash(n) PROVE OriginInv'
  BY <1>4, <1>6, CrashFacts
<1>7. CASE UNCHANGED <<published, reports>>
  BY <1>3, <1>7
<1>. QED
  BY <1>1, <1>2, <1>5, <1>6, <1>7
     DEF Next, Subscribe, Link, Arrive, ForwardChange, Start, vars

\* A node moves its mark for the reports of one probe.
Moving(mark, n, p, number) ==
    [m \in Node |-> [q \in Probe |-> IF m = n /\ q = p THEN number ELSE mark[m][q]]]

LEMMA MovingFacts ==
    ASSUME NEW mark \in Mark, NEW n \in Node, NEW p \in Probe, NEW number \in Nat
    PROVE  /\ Moving(mark, n, p, number) \in Mark
           /\ Moving(mark, n, p, number)[n][p] = number
           /\ \A m \in Node, q \in Probe :
                  m # n \/ q # p => Moving(mark, n, p, number)[m][q] = mark[m][q]
BY DEF Moving, Mark

LEMMA LinkNodes ==
    ASSUME NEW l \in Links
    PROVE  /\ l[1] \in Node /\ l[2] \in Node /\ l[2] \notin Probe /\ l[1] \notin Client
           /\ l[1] \in Probe \cup Testpoint /\ l[2] \in Testpoint \cup Client
BY LinksAssumption, NodeAssumption DEF Node

LEMMA ReportFacts ==
    ASSUME NEW r \in Report
    PROVE  r.probe \in Probe /\ r.number \in Nat \ {0} /\ r.topic \in Topic
BY BoundsAssumption DEF Report

\* What the marks say of one queue.
LEMMA MarkedQueue ==
    ASSUME TypeOK, OriginInv, NEW mark \in Mark, Marked(mark), NEW l \in Links,
           NEW i \in 1..Len(reports[l])
    PROVE  /\ reports[l][i] \in Report /\ Genuine(l, reports[l][i], published)
           /\ Between(mark, l, reports[l][i])
           /\ \A n \in Node, q \in Probe : mark[n][q] \in Nat
BY ElementOfSeq DEF TypeOK, OriginInv, Marked, Mark

\* The marks do not rise on the way.
LEMMA MarksFall ==
    ASSUME NEW mark \in Mark, Marked(mark), NEW p \in Probe, NEW l \in Links, l[1] \in From[p]
    PROVE  mark[l[2]][p] <= mark[l[1]][p]
BY DEF Marked

\* Sending a report that is numbered above the mark of its sender keeps a queue in order.
LEMMA SentInOrder ==
    ASSUME TypeOK, OriginInv, NEW mark \in Mark, Marked(mark), NEW l \in Links,
           NEW d \in {0, 1}, NEW n \in Node, NEW r \in Report, Sent(l, d, n, r),
           mark[n][r.probe] < r.number
    PROVE  Increasing(reports[l])'
<1> SUFFICES ASSUME NEW i \in 1..Len(reports'[l]), NEW j \in 1..Len(reports'[l]), i < j,
                    reports'[l][i].probe = reports'[l][j].probe
             PROVE  reports'[l][i].number < reports'[l][j].number
  BY DEF Increasing
<1>. DEFINE q == reports[l]
<1>1. Len(q) \in Nat /\ Len(reports'[l]) \in Nat /\ Increasing(q)
  BY DEF TypeOK, Sent, Marked
<1>2. /\ \/ i + d \in 1..Len(q) /\ reports'[l][i] = q[i + d]
         \/ i + d = Len(q) + 1 /\ reports'[l][i] = r /\ l[1] = n
      /\ \/ j + d \in 1..Len(q) /\ reports'[l][j] = q[j + d]
         \/ j + d = Len(q) + 1 /\ reports'[l][j] = r /\ l[1] = n
  BY DEF Sent
<1>3. CASE /\ i + d \in 1..Len(q) /\ reports'[l][i] = q[i + d]
           /\ j + d \in 1..Len(q) /\ reports'[l][j] = q[j + d]
  <2>. DEFINE a == i + d
              b == j + d
  <2>1. a \in 1..Len(q) /\ b \in 1..Len(q) /\ a < b /\ q[a].probe = q[b].probe
    BY <1>1, <1>3
  <2>. HIDE DEF a, b
  <2>2. q[a].number < q[b].number
    BY <1>1, <2>1 DEF Increasing
  <2>. QED
    BY <1>3, <2>2 DEF a, b
<1>4. CASE /\ i + d \in 1..Len(q) /\ reports'[l][i] = q[i + d]
           /\ reports'[l][j] = r /\ l[1] = n
  <2>1. q[i + d] \in Report /\ Between(mark, l, q[i + d]) /\ mark[n][r.probe] \in Nat
    BY <1>4, MarkedQueue, ReportFacts
  <2>2. q[i + d].number \in Nat /\ r.number \in Nat /\ q[i + d].probe = r.probe
    BY <1>4, <2>1, ReportFacts
  <2>3. q[i + d].number <= mark[n][r.probe]
    BY <1>4, <2>1, <2>2 DEF Between
  <2>. QED
    BY <1>4, <2>1, <2>2, <2>3
<1>5. CASE i + d = Len(q) + 1
  BY <1>1, <1>2, <1>5
<1>. QED
  BY <1>2, <1>3, <1>4, <1>5

\* A probe moves its own mark with what it publishes.
LEMMA PublishMark ==
    ASSUME TypeOK, OriginInv, MarkInv, NEW p \in Probe, NEW topic \in Topic, Publish(p, topic)
    PROVE  MarkInv'
<1>1. PICK mark \in Mark : Marked(mark)
  BY DEF MarkInv
<1>. DEFINE number == Len(published'[p])
            r == [probe |-> p, number |-> number, topic |-> topic]
            moved == Moving(mark, p, p, number)
<1>2. /\ r \in Report /\ number \in Nat /\ number = Len(published[p]) + 1
      /\ \A q \in Probe : q # p => published'[q] = published[q]
      /\ Len(published[p]) \in Nat
  BY PublishedReport DEF TypeOK
<1>3. p \in Node /\ p \in From[p]
  BY FromFacts DEF Node
<1>4. /\ moved \in Mark /\ moved[p][p] = number
      /\ \A m \in Node, q \in Probe : m # p \/ q # p => moved[m][q] = mark[m][q]
  BY <1>1, <1>2, <1>3, MovingFacts
<1>5. /\ mark[p][p] = number - 1 /\ \A m \in Node, q \in Probe : mark[m][q] \in Nat
  BY <1>1, <1>2 DEF Marked, Mark
<1>6. \A l \in Links : Sent(l, 0, p, r)
  BY PublishSends
<1>7. r.probe = p /\ r.number = number
  OBVIOUS
<1>. HIDE DEF r, moved, number
<1>8. \A q \in Probe : moved[q][q] = Len(published'[q])
  BY <1>1, <1>2, <1>4 DEF Marked, Node, number
<1>9. ASSUME NEW l \in Links, NEW i \in 1..Len(reports'[l])
      PROVE  Between(moved, l, reports'[l][i])
  <2>1. /\ l[1] \in Node /\ l[2] \in Node /\ l[2] # p
    BY LinkNodes
  <2>2. \A q \in Probe : moved[l[2]][q] = mark[l[2]][q] /\ moved[l[1]][q] >= mark[l[1]][q]
    BY <1>2, <1>4, <1>5, <2>1
  <2>3. CASE i + 0 \in 1..Len(reports[l]) /\ reports'[l][i] = reports[l][i + 0]
    <3>1. reports[l][i + 0] \in Report /\ Between(mark, l, reports[l][i + 0])
      BY <1>1, <2>3, MarkedQueue
    <3>. DEFINE x == reports[l][i + 0]
    <3>. HIDE DEF x
    <3>2. x.probe \in Probe /\ x.number \in Nat
      BY <3>1, ReportFacts DEF x
    <3>3. /\ mark[l[2]][x.probe] < x.number /\ x.number <= mark[l[1]][x.probe]
          /\ mark[l[1]][x.probe] \in Nat /\ mark[l[2]][x.probe] \in Nat
          /\ moved[l[1]][x.probe] \in Nat
      BY <1>4, <1>5, <2>1, <3>1, <3>2 DEF Between, x, Mark
    <3>4. Between(moved, l, x)
      BY <2>2, <3>2, <3>3 DEF Between
    <3>. QED
      BY <2>3, <3>4 DEF x
  <2>4. CASE reports'[l][i] = r /\ l[1] = p
    <3>1. mark[l[2]][p] <= mark[p][p]
      BY <1>1, <1>3, <2>4, MarksFall
    <3>. QED
      BY <1>2, <1>4, <1>5, <1>7, <2>1, <2>2, <2>4, <3>1 DEF Between
  <2>. QED
    BY <1>6, <2>3, <2>4 DEF Sent
<1>10. \A l \in Links : Increasing(reports[l])'
  <2>1. mark[p][r.probe] < r.number
    BY <1>2, <1>5, <1>7
  <2>. QED
    BY <1>1, <1>2, <1>3, <1>6, <2>1, SentInOrder
<1>11. ASSUME NEW c \in Client, NEW i \in 1..Len(received'[c])
       PROVE  received'[c][i].number <= moved[c][received'[c][i].probe]
  <2>1. received' = received /\ received[c][i] \in Report
    BY <1>11, ElementOfSeq DEF Publish, TypeOK
  <2>2. c \in Node /\ c # p
    BY NodeAssumption DEF Node
  <2>3. received[c][i].probe \in Probe
    BY <2>1, ReportFacts
  <2>. QED
    BY <1>1, <1>4, <1>11, <2>1, <2>2, <2>3 DEF Marked
<1>12. ASSUME NEW q \in Probe, NEW l \in Links, l[1] \in From[q]
       PROVE  moved[l[2]][q] <= moved[l[1]][q]
  <2>1. l[1] \in Node /\ l[2] \in Node /\ l[2] # p
    BY LinkNodes
  <2>2. moved[l[2]][q] = mark[l[2]][q] /\ moved[l[1]][q] >= mark[l[1]][q]
    BY <1>2, <1>4, <1>5, <2>1
  <2>3. mark[l[2]][q] <= mark[l[1]][q]
    BY <1>1, <1>12, MarksFall
  <2>4. mark[l[2]][q] \in Nat /\ mark[l[1]][q] \in Nat /\ moved[l[1]][q] \in Nat
    BY <1>4, <1>5, <2>1 DEF Mark
  <2>. QED
    BY <2>2, <2>3, <2>4
<1>. QED
  BY <1>4, <1>8, <1>9, <1>10, <1>11, <1>12 DEF MarkInv, Marked

\* A node that takes a report moves its mark to it.
LEMMA TakeMark ==
    ASSUME TypeOK, OriginInv, MarkInv, NEW k \in Links, reports[k] # <<>>, published' = published,
           \A l \in Links : Sent(l, IF l = k THEN 1 ELSE 0, k[2], Head(reports[k])),
           \A c \in Client : \A i \in 1..Len(received'[c]) :
               \/ i \in 1..Len(received[c]) /\ received'[c][i] = received[c][i]
               \/ c = k[2] /\ received'[c][i] = Head(reports[k])
    PROVE  MarkInv'
<1>1. PICK mark \in Mark : Marked(mark)
  BY DEF MarkInv
<1>. DEFINE r == Head(reports[k])
            p == r.probe
            n == k[2]
            moved == Moving(mark, n, p, r.number)
<1>2. r = reports[k][1] /\ Len(reports[k]) \in Nat \ {0} /\ 1 \in 1..Len(reports[k])
  BY RestOf DEF TypeOK
<1>3. /\ r \in Report /\ Genuine(k, r, published) /\ Between(mark, k, r)
      /\ \A m \in Node, q \in Probe : mark[m][q] \in Nat
  BY <1>1, <1>2, MarkedQueue
<1>4. \A l \in Links : Sent(l, IF l = k THEN 1 ELSE 0, n, r)
  OBVIOUS
<1>5. \A c \in Client : \A i \in 1..Len(received'[c]) :
               \/ i \in 1..Len(received[c]) /\ received'[c][i] = received[c][i]
               \/ c = n /\ received'[c][i] = r
  OBVIOUS
<1>. HIDE DEF r
<1>6. p \in Probe /\ r.number \in Nat /\ n \in Node /\ k[1] \in Node /\ n \notin Probe
  BY <1>3, LinkNodes, ReportFacts
<1>7. /\ k[1] \in From[p] /\ n \in From[p]
      /\ mark[n][p] < r.number /\ r.number <= mark[k[1]][p]
  <2>1. k[1] \in From[p] /\ mark[n][p] < r.number /\ r.number <= mark[k[1]][p]
    BY <1>3 DEF Genuine, Between
  <2>2. p \in Node
    BY <1>6 DEF Node
  <2>. QED
    BY <2>1, <2>2, FromFacts
<1>8. k[1] # n
  BY <1>3, <1>6, <1>7
<1>9. /\ moved \in Mark /\ moved[n][p] = r.number
      /\ \A m \in Node, q \in Probe : m # n \/ q # p => moved[m][q] = mark[m][q]
  <2>. HIDE DEF p, n
  <2>. QED
    BY <1>1, <1>6, MovingFacts
<1>10. \A l \in Links : l[1] \in From[p] /\ l[2] = n => l = k
  BY <1>6, <1>7, TreeAssumption
<1>. HIDE DEF p, n, moved
<1>11. \A m \in Node, q \in Probe : mark[m][q] <= moved[m][q] /\ moved[m][q] \in Nat
  <2> SUFFICES ASSUME NEW m \in Node, NEW q \in Probe
               PROVE  mark[m][q] <= moved[m][q] /\ moved[m][q] \in Nat
    OBVIOUS
  <2>1. moved[m][q] \in Nat /\ mark[m][q] \in Nat /\ mark[n][p] \in Nat
    BY <1>3, <1>6, <1>9 DEF Mark
  <2>2. CASE m = n /\ q = p
    BY <1>6, <1>7, <1>9, <2>1, <2>2
  <2>3. CASE m # n \/ q # p
    BY <1>9, <2>1, <2>3
  <2>. QED
    BY <2>2, <2>3
<1>12. \A q \in Probe : moved[q][q] = Len(published'[q])
  BY <1>1, <1>6, <1>9 DEF Marked, Node
<1>13. ASSUME NEW l \in Links, NEW i \in 1..Len(reports'[l])
       PROVE  Between(moved, l, reports'[l][i])
  <2>. DEFINE d == IF l = k THEN 1 ELSE 0
  <2>1. l[1] \in Node /\ l[2] \in Node
    BY LinkNodes
  <2>2. d \in {0, 1} /\ Len(reports[l]) \in Nat /\ Len(reports'[l]) \in Nat
    BY <1>4 DEF Sent, TypeOK
  <2>3. CASE i + d \in 1..Len(reports[l]) /\ reports'[l][i] = reports[l][i + d]
    <3>. DEFINE x == reports[l][i + d]
    <3>1. x \in Report /\ Between(mark, l, x) /\ Genuine(l, x, published)
      BY <1>1, <2>3, MarkedQueue
    <3>2. l = k /\ x.probe = p => r.number < x.number
      <4> SUFFICES ASSUME l = k, x.probe = p PROVE r.number < x.number
        OBVIOUS
      <4>1. 1 < i + 1 /\ i + 1 \in 1..Len(reports[k]) /\ x = reports[k][i + 1]
        BY <2>2, <2>3
      <4>2. Increasing(reports[k])
        BY <1>1 DEF Marked
      <4>. HIDE DEF x
      <4>. QED
        BY <1>2, <4>1, <4>2 DEF Increasing, p
    <3>. HIDE DEF x
    <3>3. x.probe \in Probe /\ x.number \in Nat
      BY <3>1, ReportFacts
    <3>4. /\ mark[l[2]][x.probe] < x.number /\ x.number <= mark[l[1]][x.probe]
          /\ mark[l[1]][x.probe] \in Nat /\ mark[l[2]][x.probe] \in Nat
          /\ moved[l[1]][x.probe] \in Nat /\ mark[l[1]][x.probe] <= moved[l[1]][x.probe]
      BY <1>3, <1>11, <2>1, <3>1, <3>3 DEF Between
    <3>5. moved[l[2]][x.probe] < x.number
      <4>1. CASE l[2] = n /\ x.probe = p
        <5>1. l[1] \in From[p]
          BY <3>1, <4>1 DEF Genuine
        <5>. QED
          BY <1>9, <1>10, <3>2, <4>1, <5>1
      <4>2. CASE l[2] # n \/ x.probe # p
        BY <1>9, <2>1, <3>3, <3>4, <4>2
      <4>. QED
        BY <4>1, <4>2
    <3>6. x.number <= moved[l[1]][x.probe]
      BY <3>3, <3>4
    <3>. QED
      BY <2>3, <3>5, <3>6 DEF Between, x
  <2>4. CASE reports'[l][i] = r /\ l[1] = n
    <3>1. mark[l[2]][p] <= mark[n][p]
      BY <1>1, <1>6, <1>7, <2>4, MarksFall
    <3>2. l[2] # n
      BY <1>7, <1>8, <1>10, <2>4
    <3>3. moved[l[2]][p] = mark[l[2]][p] /\ mark[l[2]][p] \in Nat /\ mark[n][p] \in Nat
      BY <1>3, <1>6, <1>9, <2>1, <3>2
    <3>4. moved[l[2]][p] < r.number /\ r.number <= moved[n][p]
      BY <1>6, <1>7, <1>9, <3>1, <3>3
    <3>. QED
      BY <2>4, <3>4 DEF Between, p
  <2>5. Sent(l, d, n, r)
    BY <1>4
  <2>. QED
    BY <2>3, <2>4, <2>5 DEF Sent
<1>14. ASSUME NEW l \in Links PROVE Increasing(reports[l])'
  <2>1. PICK d \in {0, 1} : Sent(l, d, n, r)
    BY <1>4
  <2>2. mark[n][r.probe] < r.number
    BY <1>7 DEF p
  <2>. QED
    BY <1>1, <1>3, <1>6, <2>1, <2>2, SentInOrder
<1>15. ASSUME NEW c \in Client, NEW i \in 1..Len(received'[c])
       PROVE  received'[c][i].number <= moved[c][received'[c][i].probe]
  <2>1. CASE i \in 1..Len(received[c]) /\ received'[c][i] = received[c][i]
    <3>1. received[c][i] \in Report /\ c \in Node
      BY <2>1, ElementOfSeq DEF TypeOK, Node
    <3>2. received[c][i].number <= mark[c][received[c][i].probe]
      BY <1>1, <2>1 DEF Marked
    <3>3. received[c][i].probe \in Probe /\ received[c][i].number \in Nat
      BY <3>1, ReportFacts
    <3>4. /\ mark[c][received[c][i].probe] <= moved[c][received[c][i].probe]
          /\ mark[c][received[c][i].probe] \in Nat /\ moved[c][received[c][i].probe] \in Nat
      BY <1>3, <1>11, <3>1, <3>3
    <3>. QED
      BY <2>1, <3>2, <3>3, <3>4
  <2>2. CASE c = n /\ received'[c][i] = r
    BY <1>6, <1>9, <2>2 DEF p
  <2>. QED
    BY <1>5, <2>1, <2>2
<1>16. ASSUME NEW q \in Probe, NEW l \in Links, l[1] \in From[q]
       PROVE  moved[l[2]][q] <= moved[l[1]][q]
  <2>1. l[1] \in Node /\ l[2] \in Node
    BY LinkNodes
  <2>2. mark[l[2]][q] <= mark[l[1]][q]
    BY <1>1, <1>16, MarksFall
  <2>3. /\ mark[l[2]][q] \in Nat /\ mark[l[1]][q] \in Nat
        /\ moved[l[1]][q] \in Nat /\ mark[l[1]][q] <= moved[l[1]][q]
    BY <1>3, <1>11, <2>1
  <2>4. CASE q = p /\ l[2] = n
    <3>1. l = k
      BY <1>10, <1>16, <2>4
    <3>2. moved[k[1]][p] = mark[k[1]][p]
      BY <1>6, <1>8, <1>9
    <3>. QED
      BY <1>7, <1>9, <2>4, <3>1, <3>2
  <2>5. CASE q # p \/ l[2] # n
    BY <1>9, <2>1, <2>2, <2>3, <2>5
  <2>. QED
    BY <2>4, <2>5
<1>. QED
  BY <1>9, <1>12, <1>13, <1>14, <1>15, <1>16 DEF MarkInv, Marked

\* What a client gets is added to what it has.
LEMMA ReceiveFacts ==
    ASSUME TypeOK, NEW k \in Links, Receive(k)
    PROVE  /\ reports[k] # <<>> /\ Head(reports[k]) = reports[k][1] /\ 1 \in 1..Len(reports[k])
           /\ Head(reports[k]) \in Report /\ k[2] \in Client
           /\ received' = [received EXCEPT ![k[2]] = Append(@, Head(reports[k]))]
           /\ \A c \in Client : \A i \in 1..Len(received'[c]) :
                  \/ i \in 1..Len(received[c]) /\ received'[c][i] = received[c][i]
                  \/ c = k[2] /\ received'[c][i] = Head(reports[k])
<1>. DEFINE r == Head(reports[k])
<1>1. /\ reports[k] # <<>> /\ k[2] \in Client
      /\ received' = [received EXCEPT ![k[2]] = Append(@, r)]
  BY DEF Receive
<1>2. r \in Report /\ r = reports[k][1] /\ 1 \in 1..Len(reports[k])
  BY <1>1, RestOf DEF TypeOK
<1>. HIDE DEF r
<1>3. ASSUME NEW c \in Client, NEW i \in 1..Len(received'[c])
      PROVE  \/ i \in 1..Len(received[c]) /\ received'[c][i] = received[c][i]
             \/ c = k[2] /\ received'[c][i] = r
  <2>1. CASE c # k[2]
    BY <1>1, <1>3, <2>1 DEF TypeOK
  <2>2. CASE c = k[2]
    <3>1. received'[c] = Append(received[c], r) /\ received[c] \in Seq(Report)
      BY <1>1, <2>2 DEF TypeOK
    <3>2. /\ Len(received'[c]) = Len(received[c]) + 1 /\ Len(received[c]) \in Nat
          /\ \A j \in 1..Len(received[c]) : received'[c][j] = received[c][j]
          /\ received'[c][Len(received[c]) + 1] = r
      BY <1>2, <3>1, Appended
    <3>3. i \in 1..Len(received[c]) \/ i = Len(received[c]) + 1
      BY <3>2
    <3>. QED
      BY <2>2, <3>2, <3>3
  <2>. QED
    BY <2>1, <2>2
<1>. QED
  BY <1>1, <1>2, <1>3 DEF r

LEMMA NextMark == ASSUME TypeOK, OriginInv, MarkInv, [Next]_vars PROVE MarkInv'
<1>1. ASSUME NEW k \in Links, ForwardReport(k) PROVE MarkInv'
  <2>1. reports[k] # <<>> /\ published' = published /\ received' = received
    BY <1>1 DEF ForwardReport
  <2>. QED
    BY <1>1, <2>1, ForwardSends, TakeMark
<1>2. ASSUME NEW k \in Links, Receive(k) PROVE MarkInv'
  <2>1. reports[k] # <<>> /\ published' = published
    BY <1>2 DEF Receive
  <2>2. \A l \in Links : Sent(l, IF l = k THEN 1 ELSE 0, k[2], Head(reports[k]))
    BY <1>2, ReceiveTakes
  <2>3. \A c \in Client : \A i \in 1..Len(received'[c]) :
            \/ i \in 1..Len(received[c]) /\ received'[c][i] = received[c][i]
            \/ c = k[2] /\ received'[c][i] = Head(reports[k])
    BY <1>2, ReceiveFacts
  <2>. QED
    BY <2>1, <2>2, <2>3, TakeMark
<1>3. CASE /\ published' = published
           /\ \A l \in Links : reports'[l] = reports[l] \/ reports'[l] = <<>>
           /\ \A c \in Client : received'[c] = received[c] \/ received'[c] = <<>>
  <2>1. PICK mark \in Mark : Marked(mark)
    BY DEF MarkInv
  <2>2. ASSUME NEW l \in Links, NEW i \in 1..Len(reports'[l]) PROVE Between(mark, l, reports'[l][i])
    <3>1. reports'[l] = reports[l]
      BY <1>3
    <3>. QED
      BY <2>1, <3>1 DEF Marked
  <2>3. \A l \in Links : Increasing(reports[l])'
    BY <1>3, <2>1 DEF Marked, Increasing
  <2>4. ASSUME NEW c \in Client, NEW i \in 1..Len(received'[c])
        PROVE  received'[c][i].number <= mark[c][received'[c][i].probe]
    <3>1. received'[c] = received[c]
      BY <1>3
    <3>. QED
      BY <2>1, <3>1 DEF Marked
  <2>. QED
    BY <1>3, <2>1, <2>2, <2>3, <2>4 DEF Marked, MarkInv
<1>4. ASSUME NEW l \in Links, Disconnect(l) PROVE MarkInv'
  BY <1>3, <1>4, LoseFacts DEF Disconnect
<1>5. ASSUME NEW n \in Node, Crash(n) PROVE MarkInv'
  BY <1>3, <1>5, CrashFacts, LoseFacts
<1>6. CASE UNCHANGED <<published, reports, received>>
  BY <1>3, <1>6
<1>. QED
  BY <1>1, <1>2, <1>4, <1>5, <1>6, PublishMark
     DEF Next, Subscribe, Link, Arrive, ForwardChange, Start, vars

-----------------------------------------------------------------------------
(* A client gets a stream of reports.                                      *)

StreamInv == LinkInv /\ ClientInv /\ OriginInv /\ MarkInv

LEMMA InitStream == Init => StreamInv
<1> SUFFICES ASSUME Init PROVE StreamInv
  OBVIOUS
<1>1. /\ published = [p \in Probe |-> <<>>] /\ received = [c \in Client |-> <<>>]
      /\ \A l \in Links : asked[l] = <<>> /\ table[l] = {} /\ reports[l] = <<>>
  BY DEF Init
<1>2. LinkInv /\ ClientInv /\ OriginInv
  BY <1>1 DEF LinkInv, ClientInv, OriginInv
<1>3. MarkInv
  <2>. DEFINE mark == [n \in Node |-> [p \in Probe |-> 0]]
  <2>1. mark \in Mark
    BY DEF Mark
  <2>2. \A p \in Probe : \A n \in Node : mark[n][p] = 0
    OBVIOUS
  <2>3. \A p \in Probe : mark[p][p] = Len(published[p])
    BY <1>1, <2>2 DEF Node
  <2>4. \A p \in Probe : \A l \in Links : mark[l[2]][p] <= mark[l[1]][p]
    BY <2>2, LinkNodes
  <2>5. \A l \in Links : Increasing(reports[l])
    BY <1>1 DEF Increasing
  <2>. HIDE DEF mark
  <2>. QED
    BY <1>1, <2>1, <2>3, <2>4, <2>5 DEF MarkInv, Marked
<1>. QED
  BY <1>2, <1>3 DEF StreamInv

LEMMA NextStream == TypeOK /\ StreamInv /\ [Next]_vars => (TypeOK /\ StreamInv)'
BY NextType, NextLink, NextClient, NextOrigin, NextMark DEF StreamInv

\* The topics that each client has asked for.
Wanted == [c \in Client |-> {topic \in Topic : Heard(topic, mine[c])}]

\* A report that a client takes is one it may get.
LEMMA DeliverStep ==
    ASSUME TypeOK, StreamInv, NEW l \in Links, Receive(l)
    PROVE  \E c \in Client : \E p \in Probe : \E k \in DOMAIN published[p] : Stream!Deliver(c, p, k)
<1>. DEFINE r == Head(reports[l])
            c == l[2]
            p == r.probe
            k == r.number
<1>1. /\ r = reports[l][1] /\ 1 \in 1..Len(reports[l]) /\ r \in Report /\ c \in Client
      /\ received' = [received EXCEPT ![c] = Append(@, r)]
      /\ UNCHANGED <<published, mine>>
  BY ReceiveFacts DEF Receive, subVars
<1>2. PICK mark \in Mark : Marked(mark)
  BY DEF StreamInv, MarkInv
<1>3. Genuine(l, r, published) /\ Between(mark, l, r) /\ Heard(r.topic, mine[c])
  BY <1>1, <1>2, MarkedQueue DEF StreamInv, ClientInv
<1>4. \A i \in 1..Len(received[c]) : received[c][i].number <= mark[c][received[c][i].probe]
  BY <1>1, <1>2 DEF Marked
<1>. HIDE DEF r, c
<1>5. /\ p \in Probe /\ k \in 1..Len(published[p]) /\ published[p] \in Seq(Topic)
      /\ r.topic = published[p][k] /\ r.topic \in Topic /\ k \in Nat
      /\ mark[c][p] < k /\ mark[c][p] \in Nat
  <2>1. p \in Probe /\ k \in Nat /\ r.topic \in Topic
    BY <1>1, ReportFacts
  <2>2. c \in Node
    BY <1>1 DEF Node
  <2>. QED
    BY <1>2, <1>3, <2>1, <2>2 DEF Genuine, Between, TypeOK, Mark, c
<1>6. \A i \in DOMAIN received[c] : received[c][i].probe = p => received[c][i].number < k
  <2>1. DOMAIN received[c] = 1..Len(received[c])
    BY <1>1 DEF TypeOK
  <2> SUFFICES ASSUME NEW i \in 1..Len(received[c]), received[c][i].probe = p
               PROVE  received[c][i].number < k
    BY <2>1
  <2>2. received[c][i] \in Report
    BY <1>1, ElementOfSeq DEF TypeOK
  <2>3. received[c][i].number \in Nat /\ received[c][i].number <= mark[c][p]
    BY <1>4, <2>2, ReportFacts
  <2>. QED
    BY <1>5, <2>3
<1>7. k \in DOMAIN published[p]
  BY <1>5
<1>8. r = [probe |-> p, number |-> k, topic |-> published[p][k]]
  BY <1>1, <1>5 DEF Report
<1>9. published[p][k] \in Wanted[c]
  BY <1>1, <1>3, <1>5 DEF Wanted
<1>. HIDE DEF p, k
<1>10. received' = [received EXCEPT ![c] =
                      Append(@, [probe |-> p, number |-> k, topic |-> published[p][k]])]
  BY <1>1, <1>8
<1>11. UNCHANGED Wanted
  BY <1>1 DEF Wanted, Heard
<1>12. Stream!Deliver(c, p, k)
  BY <1>1, <1>6, <1>9, <1>10, <1>11 DEF Stream!Deliver, Wanted
<1>. QED
  BY <1>1, <1>5, <1>7, <1>12

\* Every step is a step of the stream or changes nothing in it.
LEMMA StreamStep ==
    ASSUME TypeOK, StreamInv, [Next]_vars PROVE [Stream!Next]_(Stream!vars)
<1>. DEFINE Same == UNCHANGED <<published, Wanted, received>>
<1>0. ASSUME Same PROVE [Stream!Next]_(Stream!vars)
  BY <1>0 DEF Stream!vars, Wanted
<1>1. ASSUME NEW c \in Client, NEW filter \in Filter, Subscribe(c, filter)
      PROVE  Stream!Ask(c)
  <2>. DEFINE more == Wanted'[c]
  <2>1. On(filter).on /\ On(filter).filter = filter /\ On(filter) \in Change
    BY DEF On, Change
  <2>2. SendUp(c, On(filter)) /\ UNCHANGED <<published, received>>
    BY <1>1 DEF Subscribe
  <2>3. /\ \A m \in Client : m # c => mine'[m] = mine[m]
        /\ mine[c] \subseteq mine'[c]
    BY <2>1, <2>2, SendUpFacts
  <2>4. more \in SUBSET Topic
    BY DEF Wanted
  <2>5. Wanted[c] \subseteq more
    BY <2>3, HeardMore DEF Wanted
  <2>6. \A m \in Client : m # c => Wanted'[m] = Wanted[m]
    BY <2>3 DEF Wanted, Heard
  <2>. HIDE DEF more
  <2>7. Wanted' = [Wanted EXCEPT ![c] = @ \cup more]
    <3>1. Wanted'[c] = more
      BY DEF more
    <3>2. Wanted[c] \cup more = more
      BY <2>5
    <3>3. /\ Wanted' = [m \in Client |-> Wanted'[m]]
          /\ Wanted = [m \in Client |-> Wanted[m]]
      BY DEF Wanted
    <3>. QED
      BY <2>6, <3>1, <3>2, <3>3
  <2>. QED
    BY <2>2, <2>4, <2>7 DEF Stream!Ask, Wanted
<1>2. ASSUME NEW p \in Probe, NEW topic \in Topic, Publish(p, topic) PROVE Stream!Publish(p)
  <2>1. /\ published' = [published EXCEPT ![p] = Append(@, topic)]
        /\ UNCHANGED <<mine, received>>
    BY <1>2 DEF Publish, subVars
  <2>2. UNCHANGED Wanted
    BY <2>1 DEF Wanted, Heard
  <2>. QED
    BY <2>1, <2>2 DEF Stream!Publish, Wanted
<1>3. ASSUME NEW f \in Testpoint, ForwardChange(f) PROVE Same
  <2>. DEFINE change == Head(changes[f])
  <2>1. changes[f] \in Seq(Change) /\ changes[f] # <<>>
    BY <1>3 DEF ForwardChange, TypeOK
  <2>2. change \in Change /\ SendUp(f, change) /\ UNCHANGED <<published, received>>
    BY <1>3, <2>1, RestOf DEF ForwardChange, Forwarded
  <2>. HIDE DEF change
  <2>3. \A m \in Client : m # f
    BY NodeAssumption
  <2>4. \A m \in Client : mine'[m] = mine[m]
    BY <2>2, <2>3, SendUpFacts
  <2>. QED
    BY <2>2, <2>4 DEF Wanted, Heard
<1>4. ASSUME NEW n \in Node, Crash(n) PROVE Same \/ (n \in Client /\ Stream!Restart(n))
  <2>1. /\ published' = published
        /\ \A c \in Client : mine'[c] = IF c = n THEN {} ELSE mine[c]
        /\ received' = [c \in Client |-> IF c = n THEN <<>> ELSE received[c]]
    BY <1>4, CrashFacts DEF Crash
  <2>2. CASE n \notin Client
    <3>1. \A c \in Client : mine'[c] = mine[c]
      BY <2>1, <2>2
    <3>2. received' = received
      BY <2>1, <2>2 DEF TypeOK
    <3>. QED
      BY <2>1, <3>1, <3>2 DEF Wanted, Heard
  <2>3. CASE n \in Client
    <3>1. received' = [received EXCEPT ![n] = <<>>]
      BY <2>1, <2>3 DEF TypeOK
    <3>2. Wanted' = [Wanted EXCEPT ![n] = {}]
      <4>1. Wanted'[n] = {}
        BY <2>1, <2>3 DEF Wanted, Heard
      <4>2. \A m \in Client : m # n => Wanted'[m] = Wanted[m]
        BY <2>1 DEF Wanted, Heard
      <4>3. /\ Wanted' = [m \in Client |-> Wanted'[m]]
            /\ Wanted = [m \in Client |-> Wanted[m]]
        BY DEF Wanted
      <4>. QED
        BY <4>1, <4>2, <4>3
    <3>. QED
      BY <2>1, <2>3, <3>1, <3>2 DEF Stream!Restart, Wanted
  <2>. QED
    BY <2>2, <2>3
<1>5. CASE \/ \E l \in Links : Link(l) \/ Arrive(l) \/ ForwardReport(l) \/ Disconnect(l)
           \/ \E n \in Node : Start(n)
           \/ UNCHANGED vars
  <2>1. UNCHANGED <<published, mine, received>>
    BY <1>5 DEF Link, Arrive, ForwardReport, Disconnect, Start, vars, subVars
  <2>. QED
    BY <1>0, <2>1 DEF Wanted, Heard
<1>. QED
  BY <1>0, <1>1, <1>2, <1>3, <1>4, <1>5, DeliverStep DEF Next, Stream!Next

\* Through any number of testpoints, each client gets what was published and what it
\* asked for, in the order of each probe and nothing twice, whatever is lost or
\* restarted on the way: PubSub implements ReportStream.
THEOREM ReportsAreStreamed == Spec => StreamOfReports
<1>1. Init => Stream!Init
  BY DEF Init, Stream!Init, Heard
<1>2. TypeOK /\ StreamInv /\ [Next]_vars => [Stream!Next]_(Stream!vars)
  BY StreamStep
<1>. QED
  BY <1>1, <1>2, InitType, InitStream, NextStream, PTL DEF Spec, StreamOfReports, Stream!Spec

-----------------------------------------------------------------------------
(* What subscribers do not miss.                                           *)

\* The members of a sequence that grows or shrinks.
LEMMA ContainsAppended ==
    ASSUME NEW T, NEW q \in Seq(T), NEW e \in T, NEW x
    PROVE  Contains(Append(q, e), x) <=> Contains(q, x) \/ x = e
<1>1. /\ Len(Append(q, e)) = Len(q) + 1 /\ Len(q) \in Nat
      /\ \A i \in 1..Len(q) : Append(q, e)[i] = q[i]
      /\ Append(q, e)[Len(q) + 1] = e
  BY Appended
<1>2. \A i \in 1..Len(Append(q, e)) : i \in 1..Len(q) \/ i = Len(q) + 1
  BY <1>1
<1>3. ASSUME NEW i \in 1..Len(q), q[i] = x PROVE Contains(Append(q, e), x)
  BY <1>1, <1>3 DEF Contains
<1>4. Len(q) + 1 \in 1..Len(Append(q, e))
  BY <1>1
<1>. QED
  BY <1>1, <1>2, <1>3, <1>4 DEF Contains

LEMMA ContainsRest ==
    ASSUME NEW T, NEW q \in Seq(T), q # <<>>, NEW x
    PROVE  Contains(q, x) <=> Contains(Tail(q), x) \/ x = Head(q)
<1>1. /\ Head(q) = q[1] /\ Len(q) \in Nat \ {0} /\ Len(Tail(q)) = Len(q) - 1
      /\ \A i \in 1..(Len(q) - 1) : Tail(q)[i] = q[i + 1]
  BY RestOf
<1>2. ASSUME NEW i \in 1..Len(q), q[i] = x PROVE Contains(Tail(q), x) \/ x = Head(q)
  <2>1. CASE i = 1
    BY <1>1, <1>2, <2>1
  <2>2. CASE i # 1
    <3>1. i - 1 \in 1..Len(Tail(q)) /\ (i - 1) + 1 = i
      BY <1>1, <2>2
    <3>. QED
      BY <1>1, <1>2, <3>1 DEF Contains
  <2>. QED
    BY <2>1, <2>2
<1>3. ASSUME NEW i \in 1..Len(Tail(q)), Tail(q)[i] = x PROVE Contains(q, x)
  <2>1. i + 1 \in 1..Len(q) /\ q[i + 1] = x
    BY <1>1, <1>3
  <2>. QED
    BY <2>1 DEF Contains
<1>4. 1 \in 1..Len(q)
  BY <1>1
<1>. QED
  BY <1>1, <1>2, <1>3, <1>4 DEF Contains

LEMMA ContainsBoth ==
    ASSUME NEW T, NEW q \in Seq(T), NEW more \in Seq(T), NEW x, Contains(q \o more, x)
    PROVE  Contains(q, x) \/ Contains(more, x)
<1>1. /\ Len(q \o more) = Len(q) + Len(more) /\ Len(q) \in Nat /\ Len(more) \in Nat
      /\ \A i \in 1..(Len(q) + Len(more)) :
            (q \o more)[i] = IF i <= Len(q) THEN q[i] ELSE more[i - Len(q)]
  BY ConcatProperties
<1>2. PICK i \in 1..(Len(q) + Len(more)) : (q \o more)[i] = x
  BY <1>1 DEF Contains
<1>3. CASE i <= Len(q)
  BY <1>1, <1>2, <1>3 DEF Contains
<1>4. CASE i > Len(q)
  <2>1. i - Len(q) \in 1..Len(more) /\ more[i - Len(q)] = x
    BY <1>1, <1>2, <1>4
  <2>. QED
    BY <2>1 DEF Contains
<1>. QED
  BY <1>1, <1>3, <1>4

\* A filter of c has been passed up to p, and is not about to be taken back.
Firm(c, p, filter) ==
    /\ Route(p, c) # {}
    /\ \A l \in Route(p, c) :
          /\ filter \in table[l]
          /\ ~Contains(asked[l], Off(filter))
          /\ l[1] \in Testpoint => ~Contains(changes[l[1]], Off(filter))

\* Its links are up.
LEMMA FirmLinked ==
    ASSUME LinkInv, NEW c \in Client, NEW p \in Probe, NEW filter, Firm(c, p, filter)
    PROVE  \A l \in Route(p, c) : l \in linked
BY RouteFacts DEF Firm, LinkInv

\* It stays firm while nobody who passes it on sends its end.
LEMMA FirmSendUp ==
    ASSUME TypeOK, NEW c \in Client, NEW p \in Probe, NEW filter \in Filter, Firm(c, p, filter),
           NEW n \in Testpoint \cup Client, NEW change \in Change, SendUp(n, change),
           change = Off(filter) => \A l \in Route(p, c) : l[2] # n,
           table' = table,
           \A f \in Testpoint : Contains(changes'[f], Off(filter)) => Contains(changes[f], Off(filter))
    PROVE  Firm(c, p, filter)'
<1> SUFFICES ASSUME NEW l \in Route(p, c) PROVE ~Contains(asked'[l], Off(filter))
  BY DEF Firm, Route
<1>1. l \in Links /\ asked[l] \in Seq(Change) /\ ~Contains(asked[l], Off(filter))
  BY RouteFacts DEF TypeOK, Firm
<1>2. \/ asked'[l] = asked[l]
      \/ l[2] = n /\ asked'[l] = Append(asked[l], change)
  BY <1>1, SendUpFacts
<1>3. CASE l[2] = n /\ asked'[l] = Append(asked[l], change)
  <2>1. change # Off(filter)
    BY <1>3
  <2>2. Contains(Append(asked[l], change), Off(filter))
            <=> Contains(asked[l], Off(filter)) \/ Off(filter) = change
    BY <1>1, ContainsAppended
  <2>. QED
    BY <1>1, <1>3, <2>1, <2>2
<1>. QED
  BY <1>1, <1>2, <1>3

LEMMA FirmForward ==
    ASSUME TypeOK, NEW c \in Client, NEW p \in Probe, NEW filter \in Filter, Firm(c, p, filter),
           NEW f \in Testpoint, ForwardChange(f)
    PROVE  Firm(c, p, filter)'
<1>. DEFINE change == Head(changes[f])
<1>1. changes[f] \in Seq(Change) /\ changes[f] # <<>>
  BY DEF ForwardChange, TypeOK
<1>2. /\ change \in Change /\ SendUp(f, change) /\ table' = table
      /\ changes' = [changes EXCEPT ![f] = Tail(@)]
  BY <1>1, RestOf DEF ForwardChange, Forwarded
<1>3. ASSUME NEW g \in Testpoint, Contains(changes'[g], Off(filter))
      PROVE  Contains(changes[g], Off(filter))
  <2>1. changes'[g] = IF g = f THEN Tail(changes[f]) ELSE changes[g]
    BY <1>2 DEF TypeOK
  <2>. QED
    BY <1>1, <1>3, <2>1, ContainsRest
<1>4. ASSUME change = Off(filter), NEW l \in Route(p, c), l[2] = f PROVE FALSE
  <2>1. f # c
    BY NodeAssumption
  <2>2. PICK k \in Route(p, c) : k[1] = f
    BY <1>4, <2>1, RouteFacts
  <2>3. ~Contains(changes[f], Off(filter))
    BY <2>2 DEF Firm
  <2>. QED
    BY <1>1, <1>4, <2>3, ContainsRest
<1>. HIDE DEF change
<1>. QED
  BY <1>2, <1>3, <1>4, FirmSendUp

LEMMA FirmArrive ==
    ASSUME TypeOK, NEW c \in Client, NEW p \in Probe, NEW filter \in Filter, Firm(c, p, filter),
           NEW k \in Links, Arrive(k)
    PROVE  Firm(c, p, filter)'
<1>. DEFINE change == Head(asked[k])
            others == UNION {table[m] : m \in Below(k[1]) \ {k}}
<1>1. asked[k] \in Seq(Change) /\ asked[k] # <<>>
  BY DEF Arrive, TypeOK
<1>2. /\ change \in Change /\ asked' = [asked EXCEPT ![k] = Tail(@)]
      /\ table' = [table EXCEPT ![k] = IF change.on THEN @ \cup {change.filter}
                                       ELSE @ \ {change.filter}]
      /\ changes' = IF k[1] \in Testpoint /\ change.filter \notin others
                    THEN [changes EXCEPT ![k[1]] = Append(@, change)] ELSE changes
  BY <1>1, RestOf DEF Arrive
<1> SUFFICES ASSUME NEW l \in Route(p, c)
             PROVE  /\ filter \in table'[l]
                    /\ ~Contains(asked'[l], Off(filter))
                    /\ l[1] \in Testpoint => ~Contains(changes'[l[1]], Off(filter))
  BY DEF Firm, Route
<1>3. /\ l \in Links /\ filter \in table[l] /\ ~Contains(asked[l], Off(filter))
      /\ l[1] \in Testpoint => ~Contains(changes[l[1]], Off(filter))
  BY RouteFacts DEF Firm
<1>4. ~Contains(asked'[l], Off(filter))
  <2>1. asked'[l] = IF l = k THEN Tail(asked[k]) ELSE asked[l]
    BY <1>2, <1>3 DEF TypeOK
  <2>. QED
    BY <1>1, <1>3, <2>1, ContainsRest
<1>5. l = k => change # Off(filter)
  BY <1>1, <1>3, ContainsRest
<1>. HIDE DEF change
<1>6. change = Off(filter) <=> (~change.on /\ change.filter = filter)
  BY <1>2 DEF Change, Off
<1>7. filter \in table'[l]
  BY <1>2, <1>3, <1>5, <1>6 DEF TypeOK
<1>8. ASSUME l[1] \in Testpoint, Contains(changes'[l[1]], Off(filter)) PROVE FALSE
  <2>1. /\ change.filter \notin others /\ k[1] = l[1]
        /\ changes'[l[1]] = Append(changes[l[1]], change)
    BY <1>2, <1>3, <1>8 DEF TypeOK
  <2>2. changes[l[1]] \in Seq(Change)
    BY <1>8 DEF TypeOK
  <2>3. change = Off(filter)
    BY <1>2, <1>3, <1>8, <2>1, <2>2, ContainsAppended
  <2>4. l # k /\ change.filter = filter /\ l \in Below(k[1])
    BY <1>3, <1>5, <1>6, <2>1, <2>3 DEF Below
  <2>. QED
    BY <1>3, <2>1, <2>4
<1>. QED
  BY <1>4, <1>7, <1>8

LEMMA FirmLose ==
    ASSUME TypeOK, NEW c \in Client, NEW p \in Probe, NEW filter \in Filter, Firm(c, p, filter),
           NEW lost \in SUBSET Links, Lose(lost), Route(p, c) \cap lost = {}
    PROVE  Firm(c, p, filter)'
<1>. DEFINE left(n) == UNION {table[l] : l \in Below(n) \ lost}
            gone(n) == (UNION {table[l] : l \in Below(n) \cap lost}) \ left(n)
<1> SUFFICES ASSUME NEW l \in Route(p, c)
             PROVE  /\ filter \in table'[l]
                    /\ ~Contains(asked'[l], Off(filter))
                    /\ l[1] \in Testpoint => ~Contains(changes'[l[1]], Off(filter))
  BY DEF Firm, Route
<1>1. /\ l \in Links \ lost /\ filter \in table[l] /\ ~Contains(asked[l], Off(filter))
      /\ l[1] \in Testpoint => ~Contains(changes[l[1]], Off(filter))
  BY RouteFacts DEF Firm
<1>2. filter \in table'[l] /\ ~Contains(asked'[l], Off(filter))
  BY <1>1, LoseFacts
<1>3. ASSUME l[1] \in Testpoint, Contains(changes'[l[1]], Off(filter)) PROVE FALSE
  <2>. DEFINE f == l[1]
              more == SetToSeq({[filter |-> x, on |-> FALSE] : x \in gone(f)})
  <2>1. filter \notin gone(f)
    <3>1. l \in Below(f) \ lost
      BY <1>1 DEF Below
    <3>2. filter \in left(f)
      BY <1>1, <3>1
    <3>. QED
      BY <3>2
  <2>2. gone(f) \in SUBSET Filter
    BY DEF TypeOK, Below
  <2>3. changes'[f] = changes[f] \o more \/ changes'[f] = <<>>
    BY <1>3 DEF Lose, Off
  <2>. HIDE DEF gone
  <2>4. more \in Seq(Change) /\ \A i \in 1..Len(more) : \E x \in gone(f) : more[i] = Off(x)
    BY <2>2, ChangesListed DEF Off
  <2>. HIDE DEF more
  <2>5. ~Contains(more, Off(filter))
    <3>1. \A x \in gone(f) : Off(x) # Off(filter)
      <4>1. \A x : Off(x).filter = x
        BY DEF Off
      <4>. QED
        BY <2>1, <4>1
    <3>. QED
      BY <2>4, <3>1 DEF Contains
  <2>6. changes[f] \in Seq(Change)
    BY <1>3 DEF TypeOK
  <2>7. ~Contains(<<>>, Off(filter))
    BY DEF Contains
  <2>8. Contains(changes[f] \o more, Off(filter))
    BY <1>3, <2>3, <2>7
  <2>9. Contains(changes[f], Off(filter)) \/ Contains(more, Off(filter))
    BY <2>4, <2>6, <2>8, ContainsBoth
  <2>. QED
    BY <1>1, <1>3, <2>5, <2>9
<1>. QED
  BY <1>2, <1>3

\* Report r has got to c or is on its way there.
Coming(c, r) ==
    \/ Contains(received[c], r)
    \/ \E l \in Route(r.probe, c) : Contains(reports[l], r)

\* A report that is published reaches the first connection of its way.
LEMMA PublishComing ==
    ASSUME TypeOK, LinkInv, NEW p \in Probe, NEW topic \in Topic, Publish(p, topic),
           NEW c \in Client, SetUp(c, p, topic),
           NEW r, r = [probe |-> p, number |-> Len(published'[p]), topic |-> topic],
           c \notin Dropped(p, r)
    PROVE  \E l \in Route(p, c) : Contains(reports'[l], r)
<1>1. PICK filter \in mine[c] : topic \in Covers[filter] /\ Firm(c, p, filter)
  BY DEF SetUp, Firm
<1>2. r \in Report /\ r.probe = p /\ r.topic = topic /\ reports' = SentDown(p, r, reports)
  BY PublishedReport DEF Publish
<1>3. PICK l \in Route(p, c) : l[1] = p
  BY <1>1, RouteFacts DEF Firm
<1>4. l \in Links /\ l \in linked /\ filter \in table[l]
  BY <1>1, <1>3, RouteFacts, FirmLinked DEF Firm
<1>5. l \in Below(p) /\ ~Full(l)
  BY <1>2, <1>3, <1>4 DEF Dropped, Below
<1>6. reports'[l] = Append(reports[l], r)
  BY <1>1, <1>2, <1>4, <1>5 DEF SentDown, Subscribed, Heard
<1>7. Contains(Append(reports[l], r), r)
  BY <1>2, <1>4, ContainsAppended DEF TypeOK
<1>. QED
  BY <1>6, <1>7

\* A report that is forwarded goes to the next connection of its way.
LEMMA ForwardComing ==
    ASSUME TypeOK, LinkInv, NEW k \in Links, ForwardReport(k), NEW c \in Client,
           NEW r \in due'[c], r \in Report, SetUp(c, r.probe, r.topic), Coming(c, r)
    PROVE  Coming(c, r)'
<1>. DEFINE head == Head(reports[k])
            queues == [reports EXCEPT ![k] = Rest(@)]
<1>1. /\ reports[k] # <<>> /\ k[2] \in Testpoint /\ reports' = SentDown(k[2], head, queues)
      /\ received' = received
      /\ due' = [e \in Client |-> IF e \in Dropped(k[2], head) THEN due[e] \ {head} ELSE due[e]]
  BY DEF ForwardReport
<1>2. head \in Report /\ queues \in [Links -> Seq(Report)]
  BY <1>1, RestType
<1>3. \A l \in Links : queues[l] = IF l = k THEN Tail(reports[k]) ELSE reports[l]
  BY DEF TypeOK, Rest
<1>4. reports[k] \in Seq(Report)
  BY DEF TypeOK
<1>. HIDE DEF head, queues
<1>5. ASSUME NEW l \in Links, Contains(queues[l], r) PROVE Contains(reports'[l], r)
  <2>1. reports'[l] = queues[l] \/ reports'[l] = Append(queues[l], head)
    BY <1>1, SentDownFacts
  <2>2. queues[l] \in Seq(Report)
    BY <1>2
  <2>3. Contains(Append(queues[l], head), r) <=> Contains(queues[l], r) \/ r = head
    BY <1>2, <2>2, ContainsAppended
  <2>. QED
    BY <1>5, <2>1, <2>3
<1>6. CASE Contains(received[c], r)
  BY <1>1, <1>6 DEF Coming
<1>7. CASE \E l \in Route(r.probe, c) : Contains(queues[l], r)
  <2>1. r.probe \in Probe
    BY ReportFacts
  <2>2. \E l \in Route(r.probe, c) : Contains(reports'[l], r)
    BY <1>5, <1>7, <2>1, RouteFacts
  <2>. QED
    BY <2>2 DEF Coming, Route
<1>8. CASE r = head /\ k \in Route(r.probe, c)
  <2>1. r.probe \in Probe /\ k[2] # c
    BY <1>1, ReportFacts, NodeAssumption
  <2>2. PICK filter \in mine[c] : r.topic \in Covers[filter] /\ Firm(c, r.probe, filter)
    BY DEF SetUp, Firm
  <2>3. PICK l \in Route(r.probe, c) : l[1] = k[2]
    BY <1>8, <2>1, RouteFacts
  <2>4. l \in Links /\ l \in linked /\ filter \in table[l]
    BY <2>1, <2>2, <2>3, RouteFacts, FirmLinked DEF Firm
  <2>5. l \in Below(k[2])
    BY <2>3, <2>4 DEF Below
  <2>6. c \notin Dropped(k[2], head)
    BY <1>1, <1>8
  <2>7. ~Full(l)
    BY <1>8, <2>3, <2>5, <2>6 DEF Dropped
  <2>8. reports'[l] = Append(queues[l], head)
    BY <1>1, <1>8, <2>2, <2>4, <2>5, <2>7 DEF SentDown, Subscribed, Heard
  <2>9. Contains(Append(queues[l], head), r)
    BY <1>2, <1>8, <2>4, ContainsAppended
  <2>. QED
    BY <2>3, <2>8, <2>9 DEF Coming, Route
<1>9. ASSUME NEW l \in Route(r.probe, c), Contains(reports[l], r)
      PROVE  Contains(queues[l], r) \/ (r = head /\ l = k)
  <2>1. l \in Links
    BY ReportFacts, RouteFacts
  <2>2. Contains(reports[k], r) <=> Contains(Tail(reports[k]), r) \/ r = Head(reports[k])
    BY <1>1, <1>4, ContainsRest
  <2>. QED
    BY <1>3, <1>9, <2>1, <2>2 DEF head
<1>. QED
  BY <1>6, <1>7, <1>8, <1>9 DEF Coming

\* A report that is received is.
LEMMA ReceiveComing ==
    ASSUME TypeOK, NEW k \in Links, Receive(k), NEW c \in Client, NEW r \in Report, Coming(c, r)
    PROVE  Coming(c, r)'
<1>. DEFINE head == Head(reports[k])
<1>1. /\ reports[k] # <<>> /\ k[2] \in Client /\ head \in Report
      /\ received' = [received EXCEPT ![k[2]] = Append(@, head)]
      /\ reports' = [reports EXCEPT ![k] = Tail(@)]
  BY ReceiveFacts DEF Receive, Rest
<1>2. reports[k] \in Seq(Report) /\ received[c] \in Seq(Report) /\ r.probe \in Probe
  BY ReportFacts DEF TypeOK
<1>3. \A l \in Links : reports'[l] = IF l = k THEN Tail(reports[k]) ELSE reports[l]
  BY <1>1 DEF TypeOK
<1>4. Contains(reports[k], r) <=> Contains(Tail(reports[k]), r) \/ r = head
  BY <1>1, <1>2, ContainsRest
<1>. HIDE DEF head
<1>5. received'[c] = IF c = k[2] THEN Append(received[c], head) ELSE received[c]
  BY <1>1 DEF TypeOK
<1>6. Contains(Append(received[c], head), r) <=> Contains(received[c], r) \/ r = head
  BY <1>1, <1>2, ContainsAppended
<1>7. CASE Contains(received[c], r)
  BY <1>5, <1>6, <1>7 DEF Coming
<1>8. ASSUME NEW l \in Route(r.probe, c), Contains(reports[l], r) PROVE Coming(c, r)'
  <2>1. l \in Links
    BY <1>2, RouteFacts
  <2>2. CASE l = k /\ r = head
    <3>1. c = k[2]
      BY <1>1, <1>2, <1>8, <2>2, RouteFacts
    <3>. QED
      BY <1>5, <1>6, <2>2, <3>1 DEF Coming
  <2>3. CASE Contains(reports'[l], r)
    BY <1>8, <2>3 DEF Coming, Route
  <2>. QED
    BY <1>3, <1>4, <1>8, <2>1, <2>2, <2>3
<1>. QED
  BY <1>7, <1>8 DEF Coming

\* Nothing that is due is on a connection that is lost.
LEMMA LoseDue ==
    ASSUME TypeOK, NEW c \in Client, NEW r \in Report, SetUp(c, r.probe, r.topic), Coming(c, r),
           NEW lost \in SUBSET Links, Lose(lost), Route(r.probe, c) \cap lost = {},
           mine'[c] = mine[c], received'[c] = received[c]
    PROVE  SetUp(c, r.probe, r.topic)' /\ Coming(c, r)'
<1>1. r.probe \in Probe
  BY ReportFacts
<1>2. PICK filter \in mine[c] : r.topic \in Covers[filter] /\ Firm(c, r.probe, filter)
  BY DEF SetUp, Firm
<1>3. filter \in Filter
  BY <1>2 DEF TypeOK
<1>4. Firm(c, r.probe, filter)'
  BY <1>1, <1>2, <1>3, FirmLose
<1>5. SetUp(c, r.probe, r.topic)'
  BY <1>2, <1>4 DEF SetUp, Firm, Route
<1>6. \A l \in Route(r.probe, c) : reports'[l] = reports[l]
  BY <1>1, LoseFacts, RouteFacts
<1>7. Coming(c, r)'
  BY <1>6 DEF Coming, Route
<1>. QED
  BY <1>5, <1>7

LEMMA NextDue == ASSUME TypeOK, LinkInv, DueInv, [Next]_vars PROVE DueInv'
<1> SUFFICES ASSUME NEW c \in Client, NEW r \in due'[c]
             PROVE  SetUp(c, r.probe, r.topic)' /\ Coming(c, r)'
  BY DEF DueInv, Coming
<1>0. ASSUME r \in due[c] PROVE SetUp(c, r.probe, r.topic) /\ Coming(c, r) /\ r \in Report
  BY <1>0 DEF DueInv, Coming, TypeOK
\* A step of subscriptions that leaves every firm filter firm.
<1>1. ASSUME UNCHANGED <<due, received, reports>>, mine[c] \subseteq mine'[c],
             \A filter \in Filter, p \in Probe : Firm(c, p, filter) => Firm(c, p, filter)'
      PROVE  SetUp(c, r.probe, r.topic)' /\ Coming(c, r)'
  <2>1. SetUp(c, r.probe, r.topic) /\ Coming(c, r) /\ r.probe \in Probe
    BY <1>0, <1>1, ReportFacts
  <2>2. PICK filter \in mine[c] : r.topic \in Covers[filter] /\ Firm(c, r.probe, filter)
    BY <2>1 DEF SetUp, Firm
  <2>3. filter \in Filter
    BY <2>2 DEF TypeOK
  <2>4. Firm(c, r.probe, filter)' /\ filter \in mine'[c]
    BY <1>1, <2>1, <2>2, <2>3
  <2>5. SetUp(c, r.probe, r.topic)'
    BY <2>2, <2>4 DEF SetUp, Firm, Route
  <2>. QED
    BY <1>1, <2>1, <2>5 DEF Coming, Route
<1>2. ASSUME NEW d \in Client, NEW x \in Filter, Subscribe(d, x)
      PROVE  SetUp(c, r.probe, r.topic)' /\ Coming(c, r)'
  <2>. DEFINE change == On(x)
  <2>1. change \in Change /\ change.on /\ \A filter : change # Off(filter)
    BY DEF On, Off, Change
  <2>2. SendUp(d, change) /\ UNCHANGED <<due, received, reports, table, changes>>
    BY <1>2 DEF Subscribe
  <2>. HIDE DEF change
  <2>3. mine[c] \subseteq mine'[c]
    BY <2>1, <2>2, SendUpFacts
  <2>4. \A filter \in Filter, p \in Probe : Firm(c, p, filter) => Firm(c, p, filter)'
    BY <2>1, <2>2, FirmSendUp
  <2>. QED
    BY <1>1, <2>2, <2>3, <2>4
<1>3. ASSUME NEW l \in Links, Link(l) PROVE SetUp(c, r.probe, r.topic)' /\ Coming(c, r)'
  <2>1. /\ l \notin linked /\ UNCHANGED <<due, received, reports, mine, table, changes>>
        /\ \A k \in Links : k # l => asked'[k] = asked[k]
    BY <1>3 DEF Link, TypeOK
  <2>2. ASSUME NEW filter \in Filter, NEW p \in Probe, Firm(c, p, filter)
        PROVE  Firm(c, p, filter)'
    <3>1. l \notin Route(p, c)
      BY <2>1, <2>2, FirmLinked
    <3>2. \A k \in Route(p, c) : asked'[k] = asked[k]
      BY <2>1, <3>1, RouteFacts
    <3>. QED
      BY <2>1, <2>2, <3>2 DEF Firm, Route
  <2>. QED
    BY <1>1, <2>1, <2>2
<1>4. ASSUME NEW l \in Links, Arrive(l) PROVE SetUp(c, r.probe, r.topic)' /\ Coming(c, r)'
  BY <1>1, <1>4, FirmArrive DEF Arrive
<1>5. ASSUME NEW f \in Testpoint, ForwardChange(f)
      PROVE  SetUp(c, r.probe, r.topic)' /\ Coming(c, r)'
  <2>. DEFINE change == Head(changes[f])
  <2>1. changes[f] \in Seq(Change) /\ changes[f] # <<>>
    BY <1>5 DEF ForwardChange, TypeOK
  <2>2. change \in Change /\ SendUp(f, change) /\ UNCHANGED <<due, received, reports>>
    BY <1>5, <2>1, RestOf DEF ForwardChange, Forwarded
  <2>. HIDE DEF change
  <2>3. mine'[c] = mine[c]
    <3>1. c # f
      BY NodeAssumption
    <3>. QED
      BY <2>2, <3>1, SendUpFacts
  <2>4. \A filter \in Filter, p \in Probe : Firm(c, p, filter) => Firm(c, p, filter)'
    BY <1>5, FirmForward
  <2>. QED
    BY <1>1, <2>2, <2>3, <2>4
<1>6. ASSUME NEW p \in Probe, NEW topic \in Topic, Publish(p, topic)
      PROVE  SetUp(c, r.probe, r.topic)' /\ Coming(c, r)'
  <2>. DEFINE new == [probe |-> p, number |-> Len(published'[p]), topic |-> topic]
  <2>1. /\ due'[c] = IF SetUp(c, p, topic) /\ c \notin Dropped(p, new)
                     THEN due[c] \cup {new} ELSE due[c]
        /\ UNCHANGED <<linked, subVars, received>>
    BY <1>6 DEF Publish
  <2>2. new.probe = p /\ new.topic = topic
    OBVIOUS
  <2>. HIDE DEF new
  <2>3. CASE r \in due[c]
    <3>1. SetUp(c, r.probe, r.topic)'
      BY <1>0, <2>1, <2>3 DEF SetUp, subVars, Route
    <3>2. ASSUME NEW l \in Route(r.probe, c), Contains(reports[l], r) PROVE Contains(reports'[l], r)
      <4>1. l \in Links /\ reports[l] \in Seq(Report)
        BY <1>0, <2>3, ReportFacts, RouteFacts DEF TypeOK
      <4>2. new \in Report /\ reports' = SentDown(p, new, reports)
        BY <1>6, PublishedReport DEF Publish, new
      <4>3. reports'[l] = reports[l] \/ reports'[l] = Append(reports[l], new)
        BY <4>1, <4>2, SentDownFacts
      <4>4. Contains(Append(reports[l], new), r) <=> Contains(reports[l], r) \/ r = new
        BY <4>1, <4>2, ContainsAppended
      <4>. QED
        BY <3>2, <4>3, <4>4
    <3>. QED
      BY <1>0, <2>1, <2>3, <3>1, <3>2 DEF Coming, Route
  <2>4. CASE r = new /\ SetUp(c, p, topic) /\ c \notin Dropped(p, new)
    <3>1. SetUp(c, r.probe, r.topic)'
      BY <2>1, <2>2, <2>4 DEF SetUp, subVars, Route
    <3>2. \E l \in Route(p, c) : Contains(reports'[l], r)
      BY <1>6, <2>4, PublishComing DEF new
    <3>. QED
      BY <2>2, <2>4, <3>1, <3>2 DEF Coming, Route
  <2>. QED
    BY <2>1, <2>3, <2>4
<1>7. ASSUME NEW k \in Links, ForwardReport(k) PROVE SetUp(c, r.probe, r.topic)' /\ Coming(c, r)'
  <2>1. due'[c] \subseteq due[c] /\ UNCHANGED subVars
    BY <1>7 DEF ForwardReport
  <2>2. SetUp(c, r.probe, r.topic)'
    BY <1>0, <2>1 DEF SetUp, subVars, Route
  <2>. QED
    BY <1>0, <1>7, <2>1, <2>2, ForwardComing
<1>8. ASSUME NEW k \in Links, Receive(k) PROVE SetUp(c, r.probe, r.topic)' /\ Coming(c, r)'
  <2>1. due' = due /\ UNCHANGED subVars
    BY <1>8 DEF Receive
  <2>2. SetUp(c, r.probe, r.topic)'
    BY <1>0, <2>1 DEF SetUp, subVars, Route
  <2>. QED
    BY <1>0, <1>8, <2>1, <2>2, ReceiveComing
<1>9. ASSUME NEW l \in Links, Disconnect(l) PROVE SetUp(c, r.probe, r.topic)' /\ Coming(c, r)'
  <2>1. /\ Lose({l}) /\ UNCHANGED <<mine, received>>
        /\ r \in due[c] /\ Route(r.probe, c) \cap {l} = {}
    BY <1>9 DEF Disconnect, StillDue
  <2>. QED
    BY <1>0, <2>1, LoseDue
<1>10. ASSUME NEW n \in Node, Crash(n) PROVE SetUp(c, r.probe, r.topic)' /\ Coming(c, r)'
  <2>1. r \in due[c] /\ c \in up' /\ Route(r.probe, c) \cap (Above(n) \cup Below(n)) = {}
    BY <1>10 DEF Crash, StillDue
  <2>2. PICK lost \in SUBSET Links :
               /\ Lose(lost)
               /\ lost = {l \in linked : l[1] = n \/ l[2] = n}
               /\ up' = up \ {n} /\ published' = published
               /\ \A m \in Testpoint \cup Client : mine'[m] = IF m = n THEN {} ELSE mine[m]
               /\ \A e \in Client : received'[e] = IF e = n THEN <<>> ELSE received[e]
    BY <1>10, CrashFacts
  <2>3. c # n /\ mine'[c] = mine[c] /\ received'[c] = received[c]
    BY <2>1, <2>2
  <2>4. Route(r.probe, c) \cap lost = {}
    BY <2>1, <2>2 DEF Above, Below
  <2>. QED
    BY <1>0, <2>1, <2>2, <2>3, <2>4, LoseDue
<1>11. CASE UNCHANGED <<subVars, reports, received, due>>
  BY <1>0, <1>11 DEF SetUp, Coming, subVars, Route
<1>. QED
  BY <1>2, <1>3, <1>4, <1>5, <1>6, <1>7, <1>8, <1>9, <1>10, <1>11 DEF Next, Start, vars

\* A report published once a subscription had been passed up to its probe gets to the
\* client or is on its way there, unless a full queue, a broken connection or the end
\* of a process loses it.
THEOREM NothingIsMissed == Spec => []SubscribersMissNothing
<1>1. Init => LinkInv /\ DueInv
  BY DEF Init, LinkInv, DueInv
<1>2. TypeOK /\ LinkInv /\ DueInv /\ [Next]_vars => (TypeOK /\ LinkInv /\ DueInv)'
  BY NextType, NextLink, NextDue
<1>3. DueInv => SubscribersMissNothing
  BY DEF DueInv, SubscribersMissNothing
<1>. QED
  BY <1>1, <1>2, <1>3, InitType, PTL DEF Spec

-----------------------------------------------------------------------------
(* The agreement of subscriptions.                                         *)

\* What a change makes of a set of filters.
Applied(before, change) ==
    IF change.on THEN before \cup {change.filter} ELSE before \ {change.filter}

LEMMA ChangeFacts ==
    ASSUME NEW e \in Change, NEW filter
    PROVE  /\ e = On(filter) <=> e.filter = filter /\ e.on
           /\ e = Off(filter) <=> e.filter = filter /\ ~e.on
BY DEF Change, On, Off

\* No change leaves things as they were.
LEMMA ToldNothing ==
    ASSUME NEW before, NEW filter
    PROVE  Told(<<>>, before, filter) <=> filter \in before
BY DEF Told, Started, Contains

\* The last change of a filter decides.
LEMMA ToldAppended ==
    ASSUME NEW q \in Seq(Change), NEW e \in Change, NEW before, NEW filter
    PROVE  Told(Append(q, e), before, filter)
               <=> IF e.filter = filter THEN e.on ELSE Told(q, before, filter)
<1>. DEFINE n == Len(q)
            longer == Append(q, e)
<1>1. /\ Len(longer) = n + 1 /\ n \in Nat
      /\ \A i \in 1..n : longer[i] = q[i]
      /\ longer[n + 1] = e
  BY Appended
<1>2. Contains(longer, Off(filter)) <=> Contains(q, Off(filter)) \/ Off(filter) = e
  BY ContainsAppended
<1>3. n + 1 \in 1..Len(longer)
  BY <1>1
<1>. HIDE DEF longer
<1>4. CASE e = On(filter)
  <2>1. \A j \in (n + 1 + 1)..Len(longer) : longer[j] # Off(filter)
    BY <1>1
  <2>2. Started(longer, filter)
    BY <1>1, <1>3, <1>4, <2>1 DEF Started
  <2>3. e.filter = filter /\ e.on
    BY <1>4, ChangeFacts
  <2>. QED
    BY <2>2, <2>3 DEF Told, longer
<1>5. CASE e = Off(filter)
  <2>1. ASSUME Started(longer, filter) PROVE FALSE
    <3>1. PICK i \in 1..Len(longer) :
             longer[i] = On(filter) /\ \A j \in (i + 1)..Len(longer) : longer[j] # Off(filter)
      BY <2>1 DEF Started
    <3>2. e # On(filter)
      BY <1>5, ChangeFacts
    <3>3. n + 1 \in (i + 1)..Len(longer)
      BY <1>1, <3>1, <3>2
    <3>. QED
      BY <1>1, <1>5, <3>1, <3>3
  <2>2. e.filter = filter /\ ~e.on
    BY <1>5, ChangeFacts
  <2>3. ~Told(longer, before, filter)
    BY <1>2, <1>5, <2>1 DEF Told
  <2>. QED
    BY <2>2, <2>3 DEF longer
<1>6. CASE e.filter # filter
  <2>1. e # On(filter) /\ e # Off(filter)
    BY <1>6, ChangeFacts
  <2>2. ASSUME NEW i \in 1..Len(longer), longer[i] = On(filter),
               \A j \in (i + 1)..Len(longer) : longer[j] # Off(filter)
        PROVE  Started(q, filter)
    <3>1. i \in 1..n /\ q[i] = On(filter)
      BY <1>1, <2>1, <2>2
    <3>2. \A j \in (i + 1)..n : j \in 1..n /\ j \in (i + 1)..Len(longer)
      BY <1>1, <3>1
    <3>3. \A j \in (i + 1)..n : q[j] # Off(filter)
      BY <1>1, <2>2, <3>2
    <3>. QED
      BY <3>1, <3>3 DEF Started
  <2>3. ASSUME NEW i \in 1..n, q[i] = On(filter), \A j \in (i + 1)..n : q[j] # Off(filter)
        PROVE  Started(longer, filter)
    <3>1. i \in 1..Len(longer) /\ longer[i] = On(filter)
      BY <1>1, <2>3
    <3>2. \A j \in (i + 1)..Len(longer) : j = n + 1 \/ (j \in (i + 1)..n /\ j \in 1..n)
      BY <1>1
    <3>3. \A j \in (i + 1)..Len(longer) : longer[j] # Off(filter)
      BY <1>1, <2>1, <2>3, <3>2
    <3>. QED
      BY <3>1, <3>3 DEF Started
  <2>4. Started(longer, filter) <=> Started(q, filter)
    BY <2>2, <2>3 DEF Started
  <2>5. Contains(longer, Off(filter)) <=> Contains(q, Off(filter))
    BY <1>2, <2>1
  <2>. QED
    BY <1>6, <2>4, <2>5 DEF Told, longer
<1>7. e = On(filter) \/ e = Off(filter) \/ e.filter # filter
  BY ChangeFacts
<1>. QED
  BY <1>4, <1>5, <1>6, <1>7

\* The first change can be made at once.
LEMMA ToldRest ==
    ASSUME NEW q \in Seq(Change), q # <<>>, NEW before, NEW filter
    PROVE  Told(q, before, filter) <=> Told(Tail(q), Applied(before, Head(q)), filter)
<1>. DEFINE n == Len(q)
            rest == Tail(q)
            e == Head(q)
<1>1. /\ rest \in Seq(Change) /\ e \in Change /\ e = q[1]
      /\ n \in Nat \ {0} /\ Len(rest) = n - 1
      /\ \A i \in 1..(n - 1) : rest[i] = q[i + 1]
  BY RestOf
<1>2. Contains(q, Off(filter)) <=> Contains(rest, Off(filter)) \/ Off(filter) = e
  BY ContainsRest
<1>3. filter \in Applied(before, e)
          <=> IF e.filter = filter THEN e.on ELSE filter \in before
  BY <1>1 DEF Applied, Change
<1>. HIDE DEF rest, e
<1>4. ASSUME NEW i \in 1..(n - 1), rest[i] = On(filter),
             \A j \in (i + 1)..(n - 1) : rest[j] # Off(filter)
      PROVE  Started(q, filter)
  <2>1. i + 1 \in 1..n /\ q[i + 1] = On(filter)
    BY <1>1, <1>4
  <2>2. \A j \in (i + 1 + 1)..n :
            j - 1 \in (i + 1)..(n - 1) /\ j - 1 \in 1..(n - 1) /\ (j - 1) + 1 = j
    BY <1>1
  <2>3. \A j \in (i + 1 + 1)..n : q[j] # Off(filter)
    BY <1>1, <1>4, <2>2
  <2>. QED
    BY <2>1, <2>3 DEF Started
<1>5. ASSUME NEW i \in 1..n, i # 1, q[i] = On(filter),
             \A j \in (i + 1)..n : q[j] # Off(filter)
      PROVE  Started(rest, filter)
  <2>1. i - 1 \in 1..(n - 1) /\ (i - 1) + 1 = i
    BY <1>1, <1>5
  <2>2. \A j \in ((i - 1) + 1)..(n - 1) : j + 1 \in (i + 1)..n /\ j \in 1..(n - 1)
    BY <1>1, <2>1
  <2>3. \A j \in ((i - 1) + 1)..(n - 1) : rest[j] # Off(filter)
    BY <1>1, <1>5, <2>2
  <2>4. rest[i - 1] = On(filter)
    BY <1>1, <1>5, <2>1
  <2>. QED
    BY <1>1, <2>1, <2>3, <2>4 DEF Started
<1>6. ASSUME q[1] = On(filter)
      PROVE  (\A j \in (1 + 1)..n : q[j] # Off(filter)) <=> ~Contains(rest, Off(filter))
  <2>1. \A j \in 2..n : j - 1 \in 1..(n - 1) /\ (j - 1) + 1 = j
    BY <1>1
  <2>2. \A j \in 1..(n - 1) : j + 1 \in 2..n
    BY <1>1
  <2>3. Contains(rest, Off(filter)) <=> \E j \in 1..(n - 1) : rest[j] = Off(filter)
    BY <1>1 DEF Contains
  <2>4. ASSUME NEW j \in 1..(n - 1), rest[j] = Off(filter)
        PROVE  \E k \in 2..n : q[k] = Off(filter)
    BY <1>1, <2>2, <2>4
  <2>5. ASSUME NEW k \in 2..n, q[k] = Off(filter)
        PROVE  \E j \in 1..(n - 1) : rest[j] = Off(filter)
    BY <1>1, <2>1, <2>5
  <2>6. 1 + 1 = 2
    OBVIOUS
  <2>. QED
    BY <2>3, <2>4, <2>5, <2>6
<1>7. Started(q, filter)
          <=> Started(rest, filter) \/ (e = On(filter) /\ ~Contains(rest, Off(filter)))
  <2>1. Started(rest, filter) => Started(q, filter)
    BY <1>1, <1>4 DEF Started
  <2>2. ASSUME e = On(filter), ~Contains(rest, Off(filter)) PROVE Started(q, filter)
    <3>1. 1 \in 1..n /\ q[1] = On(filter)
      BY <1>1, <2>2
    <3>2. \A j \in (1 + 1)..n : q[j] # Off(filter)
      BY <1>6, <2>2, <3>1
    <3>. QED
      BY <3>1, <3>2 DEF Started
  <2>3. ASSUME Started(q, filter), ~Started(rest, filter)
        PROVE  e = On(filter) /\ ~Contains(rest, Off(filter))
    <3>1. PICK i \in 1..n : q[i] = On(filter) /\ \A j \in (i + 1)..n : q[j] # Off(filter)
      BY <2>3 DEF Started
    <3>2. i = 1
      BY <1>5, <2>3, <3>1
    <3>. QED
      BY <1>1, <1>6, <3>1, <3>2
  <2>. QED
    BY <2>1, <2>2, <2>3
<1>8. /\ e = On(filter) <=> e.filter = filter /\ e.on
      /\ e = Off(filter) <=> e.filter = filter /\ ~e.on
  BY <1>1, ChangeFacts
<1>9. Told(q, before, filter) <=> Told(rest, Applied(before, e), filter)
  BY <1>2, <1>3, <1>7, <1>8 DEF Told
<1>. QED
  BY <1>9 DEF rest, e

\* The filters of a peer that has come.
LEMMA ToldStarts ==
    ASSUME NEW filters \in SUBSET Filter, NEW filter
    PROVE  Told(SetToSeq({On(x) : x \in filters}), {}, filter) <=> filter \in filters
<1>. DEFINE q == SetToSeq({[filter |-> x, on |-> TRUE] : x \in filters})
<1>1. /\ q \in Seq(Change)
      /\ \A i \in 1..Len(q) : \E x \in filters : q[i] = On(x)
      /\ \A x \in filters : Contains(q, On(x))
  BY ChangesListed DEF On
<1>. HIDE DEF q
<1>2. \A x : On(x) # Off(filter) /\ (On(x) = On(filter) => x = filter)
  <2>1. \A x : On(x).on = TRUE /\ On(x).filter = x /\ Off(x).on = FALSE
    BY DEF On, Off
  <2>. QED
    BY <2>1
<1>3. \A i \in 1..Len(q) : q[i] # Off(filter)
  BY <1>1, <1>2
<1>4. Started(q, filter) => filter \in filters
  BY <1>1, <1>2 DEF Started
<1>5. ASSUME filter \in filters PROVE Started(q, filter)
  <2>1. PICK i \in 1..Len(q) : q[i] = On(filter)
    BY <1>1, <1>5 DEF Contains
  <2>2. \A j \in (i + 1)..Len(q) : j \in 1..Len(q)
    BY <1>1
  <2>. QED
    BY <1>3, <2>1, <2>2 DEF Started
<1>6. Told(q, {}, filter) <=> filter \in filters
  BY <1>4, <1>5 DEF Told
<1>. QED
  BY <1>6 DEF q, On

\* The filters of peers that are gone.
LEMMA ToldEnds ==
    ASSUME NEW q \in Seq(Change), NEW gone \in SUBSET Filter, NEW before, NEW filter
    PROVE  Told(q \o SetToSeq({Off(x) : x \in gone}), before, filter)
               <=> Told(q, before, filter) /\ filter \notin gone
<1>. DEFINE more == SetToSeq({[filter |-> x, on |-> FALSE] : x \in gone})
            n == Len(q)
            m == Len(more)
            both == q \o more
<1>1. /\ more \in Seq(Change)
      /\ \A i \in 1..m : \E x \in gone : more[i] = Off(x)
      /\ \A x \in gone : Contains(more, Off(x))
  BY ChangesListed DEF Off
<1>. HIDE DEF more
<1>2. /\ Len(both) = n + m /\ n \in Nat /\ m \in Nat
      /\ \A i \in 1..(n + m) : both[i] = IF i <= n THEN q[i] ELSE more[i - n]
  BY <1>1, ConcatProperties
<1>3. \A x : On(filter) # Off(x) /\ (Off(x) = Off(filter) => x = filter)
  <2>1. \A x : On(x).on = TRUE /\ Off(x).filter = x /\ Off(x).on = FALSE
    BY DEF On, Off
  <2>. QED
    BY <2>1
<1>. HIDE DEF both
<1>4. \A i \in 1..m : more[i] # On(filter) /\ (more[i] = Off(filter) => filter \in gone)
  BY <1>1, <1>3
<1>5. CASE filter \in gone
  <2>1. PICK k \in 1..m : more[k] = Off(filter)
    BY <1>1, <1>5 DEF Contains
  <2>2. n + k \in 1..(n + m) /\ ~(n + k <= n) /\ (n + k) - n = k
    BY <1>2
  <2>3. both[n + k] = Off(filter)
    BY <1>2, <2>1, <2>2
  <2>4. Contains(both, Off(filter))
    BY <1>2, <2>2, <2>3 DEF Contains
  <2>5. ASSUME Started(both, filter) PROVE FALSE
    <3>1. PICK i \in 1..(n + m) :
             both[i] = On(filter) /\ \A j \in (i + 1)..(n + m) : both[j] # Off(filter)
      BY <1>2, <2>5 DEF Started
    <3>2. CASE i <= n
      <4>1. n + k \in (i + 1)..(n + m)
        BY <1>2, <3>2
      <4>. QED
        BY <2>3, <3>1, <4>1
    <3>3. CASE i > n
      <4>1. i - n \in 1..m /\ both[i] = more[i - n]
        BY <1>2, <3>3
      <4>. QED
        BY <1>4, <3>1, <4>1
    <3>. QED
      BY <1>2, <3>2, <3>3
  <2>6. ~Told(both, before, filter)
    BY <2>4, <2>5 DEF Told
  <2>. QED
    BY <1>5, <2>6 DEF both, more, Off
<1>6. CASE filter \notin gone
  <2>1. \A i \in 1..(n + m) : \/ i \in 1..n /\ both[i] = q[i]
                              \/ both[i] # On(filter) /\ both[i] # Off(filter)
    <3>1. \A i \in 1..(n + m) : i \in 1..n \/ (~(i <= n) /\ i - n \in 1..m)
      BY <1>2
    <3>. QED
      BY <1>2, <1>4, <1>6, <3>1
  <2>2. \A i \in 1..n : i \in 1..(n + m) /\ both[i] = q[i]
    BY <1>2
  <2>3. Contains(both, Off(filter)) <=> Contains(q, Off(filter))
    BY <1>2, <2>1, <2>2 DEF Contains
  <2>4. ASSUME NEW i \in 1..(n + m), both[i] = On(filter),
               \A j \in (i + 1)..(n + m) : both[j] # Off(filter)
        PROVE  Started(q, filter)
    <3>1. i \in 1..n /\ q[i] = On(filter)
      BY <2>1, <2>4
    <3>2. \A j \in (i + 1)..n : j \in 1..n /\ j \in (i + 1)..(n + m)
      BY <1>2, <3>1
    <3>3. \A j \in (i + 1)..n : q[j] # Off(filter)
      BY <2>2, <2>4, <3>2
    <3>. QED
      BY <3>1, <3>3 DEF Started
  <2>5. ASSUME NEW i \in 1..n, q[i] = On(filter), \A j \in (i + 1)..n : q[j] # Off(filter)
        PROVE  Started(both, filter)
    <3>1. i \in 1..(n + m) /\ both[i] = On(filter)
      BY <2>2, <2>5
    <3>2. \A j \in (i + 1)..(n + m) : j \in 1..(n + m) /\ (j \in 1..n => j \in (i + 1)..n)
      BY <1>2
    <3>3. \A j \in (i + 1)..(n + m) : both[j] # Off(filter)
      BY <2>1, <2>5, <3>2
    <3>. QED
      BY <1>2, <3>1, <3>3 DEF Started
  <2>6. Started(both, filter) <=> Started(q, filter)
    BY <1>2, <2>4, <2>5 DEF Started
  <2>7. Told(both, before, filter) <=> Told(q, before, filter)
    BY <2>3, <2>6 DEF Told
  <2>. QED
    BY <1>6, <2>7 DEF both, more, Off
<1>. QED
  BY <1>5, <1>6

\* A change that arrives.
LEMMA ArriveFacts ==
    ASSUME TypeOK, LinkInv, NEW l \in Links, Arrive(l)
    PROVE  LET change == Head(asked[l])
               others == UNION {table[k] : k \in Below(l[1]) \ {l}}
           IN  /\ change \in Change /\ asked[l] \in Seq(Change) /\ asked[l] # <<>>
               /\ l \in linked /\ l[1] \in up
               /\ \A k \in Links : asked'[k] = IF k = l THEN Tail(asked[l]) ELSE asked[k]
               /\ \A k \in Links : table'[k] = IF k = l THEN Applied(table[l], change)
                                               ELSE table[k]
               /\ \A f \in Testpoint :
                      changes'[f] = IF f = l[1] /\ change.filter \notin others
                                    THEN Append(changes[f], change) ELSE changes[f]
               /\ UNCHANGED <<up, linked, mine>>
<1>1. asked[l] \in Seq(Change) /\ asked[l] # <<>>
  BY DEF Arrive, TypeOK
<1>2. Head(asked[l]) \in Change
  BY <1>1, RestOf
<1>3. l \in linked /\ l[1] \in up
  BY <1>1 DEF LinkInv, TypeOK
<1>4. /\ asked' = [asked EXCEPT ![l] = Tail(@)]
      /\ table' = [table EXCEPT ![l] = Applied(@, Head(asked[l]))]
      /\ UNCHANGED <<up, linked, mine>>
  BY DEF Arrive, Applied
<1>5. /\ \A k \in Links : asked'[k] = IF k = l THEN Tail(asked[l]) ELSE asked[k]
      /\ \A k \in Links : table'[k] = IF k = l THEN Applied(table[l], Head(asked[l]))
                                      ELSE table[k]
  BY <1>4 DEF TypeOK
<1>. DEFINE others == UNION {table[k] : k \in Below(l[1]) \ {l}}
<1>6. changes' = IF l[1] \in Testpoint /\ Head(asked[l]).filter \notin others
                 THEN [changes EXCEPT ![l[1]] = Append(@, Head(asked[l]))] ELSE changes
  BY DEF Arrive
<1>. HIDE DEF others
<1>7. \A f \in Testpoint : changes'[f] = IF f = l[1] /\ Head(asked[l]).filter \notin others
                                         THEN Append(changes[f], Head(asked[l])) ELSE changes[f]
  BY <1>6 DEF TypeOK
<1>. QED
  BY <1>1, <1>2, <1>3, <1>4, <1>5, <1>7 DEF others

\* A change that is passed up.
LEMMA ForwardFacts ==
    ASSUME TypeOK, NEW f \in Testpoint, ForwardChange(f)
    PROVE  LET change == Head(changes[f])
           IN  /\ change \in Change /\ changes[f] \in Seq(Change) /\ changes[f] # <<>>
               /\ SendUp(f, change) /\ mine'[f] = Applied(mine[f], change)
               /\ \A g \in Testpoint : changes'[g] = IF g = f THEN Tail(changes[f]) ELSE changes[g]
               /\ f \in up /\ UNCHANGED <<up, linked, table>>
<1>1. changes[f] \in Seq(Change) /\ changes[f] # <<>>
  BY DEF ForwardChange, TypeOK
<1>2. Head(changes[f]) \in Change
  BY <1>1, RestOf
<1>3. /\ SendUp(f, Head(changes[f])) /\ changes' = [changes EXCEPT ![f] = Tail(@)]
      /\ f \in up /\ UNCHANGED <<up, linked, table>>
  BY DEF ForwardChange, Forwarded
<1>4. mine'[f] = Applied(mine[f], Head(changes[f]))
  BY <1>2, <1>3, SendUpFacts DEF Applied
<1>5. \A g \in Testpoint : changes'[g] = IF g = f THEN Tail(changes[f]) ELSE changes[g]
  BY <1>3 DEF TypeOK
<1>. QED
  BY <1>1, <1>2, <1>3, <1>4, <1>5

LEMMA NextDown == ASSUME TypeOK, LinkInv, DownInv, [Next]_vars PROVE DownInv'
<1> SUFFICES ASSUME NEW f \in Testpoint \ up' PROVE changes'[f] = <<>> /\ mine'[f] = {}
  BY DEF DownInv
<1>0. f \notin up => changes[f] = <<>> /\ mine[f] = {}
  BY DEF DownInv
<1>1. ASSUME NEW c \in Client, NEW filter \in Filter, Subscribe(c, filter)
      PROVE  changes'[f] = <<>> /\ mine'[f] = {}
  <2>1. On(filter) \in Change /\ SendUp(c, On(filter)) /\ UNCHANGED <<up, changes>> /\ c # f
    BY <1>1, NodeAssumption DEF On, Change, Subscribe
  <2>2. mine'[f] = mine[f]
    BY <2>1, SendUpFacts
  <2>. QED
    BY <1>0, <2>1, <2>2
<1>2. ASSUME NEW l \in Links, Arrive(l) PROVE changes'[f] = <<>> /\ mine'[f] = {}
  <2>1. l[1] \in up /\ UNCHANGED <<up, mine>> /\ (f # l[1] => changes'[f] = changes[f])
    BY <1>2, ArriveFacts
  <2>. QED
    BY <1>0, <2>1
<1>3. ASSUME NEW g \in Testpoint, ForwardChange(g) PROVE changes'[f] = <<>> /\ mine'[f] = {}
  <2>1. /\ Head(changes[g]) \in Change /\ SendUp(g, Head(changes[g]))
        /\ f # g => changes'[f] = changes[f]
        /\ g \in up /\ up' = up
    BY <1>3, ForwardFacts
  <2>. QED
    BY <1>0, <2>1, SendUpFacts
<1>4. ASSUME NEW lost, Lose(lost) PROVE changes'[f] = <<>>
  BY <1>4 DEF Lose
<1>5. ASSUME NEW l \in Links, Disconnect(l) PROVE changes'[f] = <<>> /\ mine'[f] = {}
  BY <1>0, <1>4, <1>5 DEF Disconnect
<1>6. ASSUME NEW n \in Node, Crash(n) PROVE changes'[f] = <<>> /\ mine'[f] = {}
  <2>1. /\ up' = up \ {n} /\ mine'[f] = IF f = n THEN {} ELSE mine[f]
        /\ \E lost : Lose(lost)
    BY <1>6, CrashFacts
  <2>. QED
    BY <1>0, <1>4, <2>1
<1>7. CASE up \subseteq up' /\ UNCHANGED subVars
  BY <1>0, <1>7 DEF subVars
<1>8. ASSUME NEW l \in Links, Link(l) PROVE changes'[f] = <<>> /\ mine'[f] = {}
  BY <1>0, <1>8 DEF Link
<1>. QED
  BY <1>1, <1>2, <1>3, <1>5, <1>6, <1>7, <1>8
     DEF Next, vars, Start, Publish, ForwardReport, Receive

LEMMA NextAsked == ASSUME TypeOK, LinkInv, AskedInv, [Next]_vars PROVE AskedInv'
<1> SUFFICES ASSUME NEW l \in Links, l \in linked', NEW x \in Filter
             PROVE  Told(asked'[l], table'[l], x) <=> x \in mine'[l[2]]
  <2>1. \A l \in linked' : l \in Links
    BY NextType DEF TypeOK
  <2>. QED
    BY <2>1 DEF AskedInv
<1>0. /\ l \in linked => (Told(asked[l], table[l], x) <=> x \in mine[l[2]])
      /\ l[2] \in Testpoint \cup Client /\ asked[l] \in Seq(Change)
  BY LinksAssumption DEF AskedInv, TypeOK
<1>1. ASSUME NEW n \in Testpoint \cup Client, NEW change \in Change, SendUp(n, change),
             UNCHANGED <<linked, table>>
      PROVE  Told(asked'[l], table'[l], x) <=> x \in mine'[l[2]]
  <2>1. /\ \A m \in Testpoint \cup Client : m # n => mine'[m] = mine[m]
        /\ mine'[n] = IF change.on THEN mine[n] \cup {change.filter}
                                   ELSE mine[n] \ {change.filter}
        /\ IF l[2] = n /\ l \in linked THEN asked'[l] = Append(asked[l], change)
                                       ELSE asked'[l] = asked[l]
    BY <1>1, SendUpFacts
  <2>2. Told(Append(asked[l], change), table[l], x)
            <=> IF change.filter = x THEN change.on ELSE Told(asked[l], table[l], x)
    BY <1>0, ToldAppended
  <2>3. CASE l[2] = n
    <3>1. x \in mine'[n] <=> IF change.filter = x THEN change.on ELSE x \in mine[n]
      <4>1. change.on \in BOOLEAN
        BY DEF Change
      <4>. QED
        BY <2>1, <4>1
    <3>. QED
      BY <1>0, <1>1, <2>1, <2>2, <2>3, <3>1
  <2>4. CASE l[2] # n
    BY <1>0, <1>1, <2>1, <2>4
  <2>. QED
    BY <2>3, <2>4
<1>2. ASSUME NEW c \in Client, NEW filter \in Filter, Subscribe(c, filter)
      PROVE  Told(asked'[l], table'[l], x) <=> x \in mine'[l[2]]
  <2>1. On(filter) \in Change /\ SendUp(c, On(filter)) /\ UNCHANGED <<linked, table>>
    BY <1>2 DEF On, Change, Subscribe
  <2>. QED
    BY <1>1, <2>1
<1>3. ASSUME NEW k \in Links, Link(k)
      PROVE  Told(asked'[l], table'[l], x) <=> x \in mine'[l[2]]
  <2>1. /\ k \notin linked /\ linked' = linked \cup {k} /\ UNCHANGED <<mine, table>>
        /\ \A m \in Links : asked'[m] = IF m = k THEN SetToSeq({On(y) : y \in mine[k[2]]})
                                        ELSE asked[m]
    BY <1>3 DEF Link, TypeOK
  <2>2. CASE l = k
    <3>1. table[l] = {}
      BY <2>1, <2>2 DEF LinkInv
    <3>2. mine[l[2]] \in SUBSET Filter
      BY <1>0 DEF TypeOK
    <3>3. Told(SetToSeq({On(y) : y \in mine[l[2]]}), {}, x) <=> x \in mine[l[2]]
      BY <3>2, ToldStarts
    <3>. QED
      BY <2>1, <2>2, <3>1, <3>3
  <2>3. CASE l # k
    BY <1>0, <2>1, <2>3
  <2>. QED
    BY <2>2, <2>3
<1>4. ASSUME NEW k \in Links, Arrive(k)
      PROVE  Told(asked'[l], table'[l], x) <=> x \in mine'[l[2]]
  <2>. DEFINE change == Head(asked[k])
  <2>1. /\ asked[k] \in Seq(Change) /\ asked[k] # <<>> /\ UNCHANGED <<linked, mine>>
        /\ asked'[l] = IF l = k THEN Tail(asked[k]) ELSE asked[l]
        /\ table'[l] = IF l = k THEN Applied(table[k], change) ELSE table[l]
    BY <1>4, ArriveFacts
  <2>2. Told(asked[k], table[k], x) <=> Told(Tail(asked[k]), Applied(table[k], change), x)
    BY <2>1, ToldRest
  <2>. HIDE DEF change
  <2>. QED
    BY <1>0, <2>1, <2>2
<1>5. ASSUME NEW f \in Testpoint, ForwardChange(f)
      PROVE  Told(asked'[l], table'[l], x) <=> x \in mine'[l[2]]
  <2>1. /\ Head(changes[f]) \in Change /\ SendUp(f, Head(changes[f]))
        /\ UNCHANGED <<linked, table>>
    BY <1>5, ForwardFacts
  <2>. QED
    BY <1>1, <2>1
<1>6. ASSUME NEW lost \in SUBSET Links, Lose(lost), l \notin lost => mine'[l[2]] = mine[l[2]]
      PROVE  Told(asked'[l], table'[l], x) <=> x \in mine'[l[2]]
  <2>1. l \in linked /\ l \notin lost /\ asked'[l] = asked[l] /\ table'[l] = table[l]
    BY <1>6, LoseFacts
  <2>. QED
    BY <1>0, <1>6, <2>1
<1>7. ASSUME NEW k \in Links, Disconnect(k)
      PROVE  Told(asked'[l], table'[l], x) <=> x \in mine'[l[2]]
  BY <1>6, <1>7 DEF Disconnect
<1>8. ASSUME NEW n \in Node, Crash(n)
      PROVE  Told(asked'[l], table'[l], x) <=> x \in mine'[l[2]]
  <2>1. PICK lost \in SUBSET Links :
               /\ Lose(lost)
               /\ lost = {k \in linked : k[1] = n \/ k[2] = n}
               /\ \A m \in Testpoint \cup Client : mine'[m] = IF m = n THEN {} ELSE mine[m]
    BY <1>8, CrashFacts
  <2>2. l \in linked
    BY <2>1, LoseFacts
  <2>3. l \notin lost => mine'[l[2]] = mine[l[2]]
    BY <1>0, <2>1, <2>2
  <2>. QED
    BY <1>6, <2>1, <2>3
<1>9. CASE UNCHANGED <<linked, subVars>>
  BY <1>0, <1>9 DEF subVars
<1>. QED
  BY <1>2, <1>3, <1>4, <1>5, <1>7, <1>8, <1>9
     DEF Next, vars, Start, Publish, ForwardReport, Receive

\* What peers that are gone leave to be passed up.
LEMMA LoseChanges ==
    ASSUME TypeOK, LinkInv, DownInv, ChangesInv, NEW lost \in SUBSET Links, Lose(lost),
           up' \subseteq up, NEW f \in Testpoint, NEW x \in Filter,
           f \in up' => mine'[f] = mine[f],
           f \notin up' => mine'[f] = {} /\ \A l \in Below(f) \cap linked : l \in lost
    PROVE  Told(changes'[f], mine'[f], x) <=> \E l \in Below(f) : x \in table'[l]
<1>. DEFINE left(n) == UNION {table[l] : l \in Below(n) \ lost}
            gone(n) == (UNION {table[l] : l \in Below(n) \cap lost}) \ left(n)
<1>1. \A l \in Links : table'[l] = IF l \in lost THEN {} ELSE table[l]
  BY LoseFacts
<1>2. Told(changes[f], mine[f], x) <=> \E l \in Below(f) : x \in table[l]
  BY DEF ChangesInv
<1>3. Below(f) \subseteq Links
  BY DEF Below
<1>4. CASE f \in up'
  <2>1. changes'[f] = changes[f] \o SetToSeq({Off(filter) : filter \in gone(f)})
    BY <1>4 DEF Lose
  <2>2. gone(f) \in SUBSET Filter /\ changes[f] \in Seq(Change)
    BY <1>3 DEF TypeOK
  <2>3. x \in gone(f) <=> /\ \E l \in Below(f) \cap lost : x \in table[l]
                          /\ ~\E l \in Below(f) \ lost : x \in table[l]
    OBVIOUS
  <2>. HIDE DEF gone
  <2>4. Told(changes'[f], mine[f], x) <=> Told(changes[f], mine[f], x) /\ x \notin gone(f)
    BY <2>1, <2>2, ToldEnds
  <2>5. (\E l \in Below(f) : x \in table'[l]) <=> \E l \in Below(f) \ lost : x \in table[l]
    BY <1>1, <1>3
  <2>. QED
    BY <1>2, <1>4, <2>3, <2>4, <2>5
<1>5. CASE f \notin up'
  <2>1. changes'[f] = <<>> /\ mine'[f] = {}
    BY <1>5 DEF Lose
  <2>2. \A l \in Below(f) : table'[l] = {}
    BY <1>1, <1>3, <1>5 DEF LinkInv
  <2>3. ~Told(<<>>, {}, x)
    BY ToldNothing
  <2>. QED
    BY <2>1, <2>2, <2>3
<1>. QED
  BY <1>4, <1>5

LEMMA NextChanges ==
    ASSUME TypeOK, LinkInv, DownInv, ChangesInv, [Next]_vars PROVE ChangesInv'
<1> SUFFICES ASSUME NEW f \in Testpoint, NEW x \in Filter
             PROVE  Told(changes'[f], mine'[f], x) <=> \E l \in Below(f) : x \in table'[l]
  BY DEF ChangesInv, Below
<1>0. /\ Told(changes[f], mine[f], x) <=> \E l \in Below(f) : x \in table[l]
      /\ changes[f] \in Seq(Change) /\ Below(f) \subseteq Links
  BY DEF ChangesInv, TypeOK, Below
<1>1. CASE UNCHANGED <<changes, table>> /\ mine'[f] = mine[f]
  BY <1>0, <1>1
<1>2. ASSUME NEW c \in Client, NEW filter \in Filter, Subscribe(c, filter)
      PROVE  Told(changes'[f], mine'[f], x) <=> \E l \in Below(f) : x \in table'[l]
  <2>1. /\ On(filter) \in Change /\ SendUp(c, On(filter)) /\ UNCHANGED <<changes, table>>
        /\ c # f
    BY <1>2, NodeAssumption DEF On, Change, Subscribe
  <2>2. mine'[f] = mine[f]
    BY <2>1, SendUpFacts
  <2>. QED
    BY <1>1, <2>1, <2>2
<1>3. ASSUME NEW k \in Links, Arrive(k)
      PROVE  Told(changes'[f], mine'[f], x) <=> \E l \in Below(f) : x \in table'[l]
  <2>. DEFINE change == Head(asked[k])
              others == UNION {table[l] : l \in Below(k[1]) \ {k}}
  <2>1. /\ change \in Change /\ mine' = mine
        /\ \A l \in Links : table'[l] = IF l = k THEN Applied(table[k], change) ELSE table[l]
        /\ changes'[f] = IF f = k[1] /\ change.filter \notin others
                         THEN Append(changes[f], change) ELSE changes[f]
    BY <1>3, ArriveFacts
  <2>2. x \in others <=> \E l \in Below(k[1]) \ {k} : x \in table[l]
    OBVIOUS
  <2>. HIDE DEF change, others
  <2>3. Told(Append(changes[f], change), mine[f], x)
            <=> IF change.filter = x THEN change.on ELSE Told(changes[f], mine[f], x)
    BY <1>0, <2>1, ToldAppended
  <2>4. x \in Applied(table[k], change) <=> IF change.filter = x THEN change.on ELSE x \in table[k]
    BY <2>1 DEF Applied, Change
  <2>5. CASE f = k[1]
    <3>1. k \in Below(f)
      BY <2>5 DEF Below
    <3>2. (\E l \in Below(f) : x \in table'[l])
              <=> x \in Applied(table[k], change) \/ x \in others
      BY <1>0, <2>1, <2>2, <2>5, <3>1
    <3>3. (\E l \in Below(f) : x \in table[l]) <=> x \in table[k] \/ x \in others
      BY <2>2, <2>5, <3>1
    <3>4. CASE change.filter = x /\ x \notin others
      BY <2>1, <2>3, <2>4, <2>5, <3>2, <3>4
    <3>5. CASE change.filter = x /\ x \in others
      BY <1>0, <2>1, <3>2, <3>3, <3>5
    <3>6. CASE change.filter # x
      BY <1>0, <2>1, <2>3, <2>4, <3>2, <3>3, <3>6
    <3>. QED
      BY <3>4, <3>5, <3>6
  <2>6. CASE f # k[1]
    <3>1. \A l \in Below(f) : table'[l] = table[l]
      BY <1>0, <2>1, <2>6 DEF Below
    <3>. QED
      BY <1>0, <2>1, <2>6, <3>1
  <2>. QED
    BY <2>5, <2>6
<1>4. ASSUME NEW g \in Testpoint, ForwardChange(g)
      PROVE  Told(changes'[f], mine'[f], x) <=> \E l \in Below(f) : x \in table'[l]
  <2>. DEFINE change == Head(changes[g])
  <2>1. /\ change \in Change /\ changes[g] \in Seq(Change) /\ changes[g] # <<>>
        /\ SendUp(g, change) /\ mine'[g] = Applied(mine[g], change) /\ table' = table
        /\ changes'[f] = IF f = g THEN Tail(changes[g]) ELSE changes[f]
    BY <1>4, ForwardFacts
  <2>2. Told(changes[g], mine[g], x) <=> Told(Tail(changes[g]), Applied(mine[g], change), x)
    BY <2>1, ToldRest
  <2>. HIDE DEF change
  <2>3. f # g => mine'[f] = mine[f]
    BY <2>1, SendUpFacts
  <2>. QED
    BY <1>0, <2>1, <2>2, <2>3
<1>5. ASSUME NEW l \in Links, Disconnect(l)
      PROVE  Told(changes'[f], mine'[f], x) <=> \E k \in Below(f) : x \in table'[k]
  <2>1. Lose({l}) /\ up' = up /\ mine' = mine
    BY <1>5 DEF Disconnect
  <2>2. f \notin up' => mine'[f] = {} /\ \A k \in Below(f) \cap linked : k \in {l}
    <3>1. \A k \in linked : k[1] \in up
      BY DEF TypeOK
    <3>. QED
      BY <2>1, <3>1 DEF DownInv, Below
  <2>. QED
    BY <2>1, <2>2, LoseChanges
<1>6. ASSUME NEW n \in Node, Crash(n)
      PROVE  Told(changes'[f], mine'[f], x) <=> \E l \in Below(f) : x \in table'[l]
  <2>1. PICK lost \in SUBSET Links :
               /\ Lose(lost)
               /\ lost = {k \in linked : k[1] = n \/ k[2] = n}
               /\ up' = up \ {n}
               /\ mine'[f] = IF f = n THEN {} ELSE mine[f]
    BY <1>6, CrashFacts
  <2>2. \A k \in linked : k[1] \in up
    BY DEF TypeOK
  <2>3. f \notin up' => mine'[f] = {} /\ \A k \in Below(f) \cap linked : k \in lost
    BY <2>1, <2>2 DEF DownInv, Below
  <2>. QED
    BY <2>1, <2>3, LoseChanges
<1>7. CASE UNCHANGED subVars
  BY <1>1, <1>7 DEF subVars
<1>8. ASSUME NEW l \in Links, Link(l)
      PROVE  Told(changes'[f], mine'[f], x) <=> \E k \in Below(f) : x \in table'[k]
  BY <1>1, <1>8 DEF Link
<1>. QED
  BY <1>2, <1>3, <1>4, <1>5, <1>6, <1>7, <1>8
     DEF Next, vars, Start, Publish, ForwardReport, Receive

AgreeInv == LinkInv /\ DownInv /\ AskedInv /\ ChangesInv

\* However clients come and go and connections break: a testpoint that has nothing left
\* to pass up subscribes to exactly what those below it subscribe to, and what is above
\* a node knows what it subscribes to as soon as nothing is on its way.
THEOREM SubscriptionsSettle == Spec => []SubscriptionsAgree
<1>1. Init => AgreeInv
  <2>1. Init => LinkInv /\ DownInv
    BY DEF Init, LinkInv, DownInv
  <2>2. Init => AskedInv
    BY DEF Init, AskedInv
  <2>3. ASSUME Init, NEW f \in Testpoint, NEW x \in Filter
        PROVE  Told(changes[f], mine[f], x) <=> x \in UNION {table[l] : l \in Below(f)}
    <3>1. changes[f] = <<>> /\ mine[f] = {} /\ \A l \in Below(f) : table[l] = {}
      BY <2>3 DEF Init, Below
    <3>. QED
      BY <3>1, ToldNothing
  <2>. QED
    BY <2>1, <2>2, <2>3 DEF AgreeInv, ChangesInv
<1>2. TypeOK /\ AgreeInv /\ [Next]_vars => (TypeOK /\ AgreeInv)'
  BY NextType, NextLink, NextDown, NextAsked, NextChanges DEF AgreeInv
<1>3. TypeOK /\ AgreeInv => SubscriptionsAgree
  <2>1. ASSUME TypeOK, AgreeInv, NEW f \in Testpoint, changes[f] = <<>>
        PROVE  mine[f] = UNION {table[l] : l \in Below(f)}
    <3>1. \A x \in Filter : x \in mine[f] <=> x \in UNION {table[l] : l \in Below(f)}
      BY <2>1, ToldNothing DEF AgreeInv, ChangesInv
    <3>2. /\ mine[f] \subseteq Filter
          /\ \A l \in Below(f) : table[l] \subseteq Filter
      BY <2>1 DEF TypeOK, Below
    <3>. QED
      BY <3>1, <3>2
  <2>2. ASSUME TypeOK, AgreeInv, NEW l \in linked, asked[l] = <<>>
        PROVE  table[l] = mine[l[2]]
    <3>1. \A x \in Filter : x \in table[l] <=> x \in mine[l[2]]
      BY <2>2, ToldNothing DEF AgreeInv, AskedInv
    <3>2. l \in Links /\ l[2] \in Testpoint \cup Client
      BY <2>2, LinksAssumption DEF TypeOK
    <3>3. table[l] \subseteq Filter /\ mine[l[2]] \subseteq Filter
      BY <2>2, <3>2 DEF TypeOK
    <3>. QED
      BY <3>1, <3>3
  <2>. QED
    BY <2>1, <2>2 DEF SubscriptionsAgree
<1>. QED
  BY <1>1, <1>2, <1>3, InitType, PTL DEF Spec
================================================================================
