----------------------------- MODULE ReportStream -----------------------------
(***************************************************************************)
(* What a subscriber of a testpoint may rely on, however many controllers  *)
(* and brokers lie between it and the probes: it gets only reports that    *)
(* were published and that it asked for, those of each probe in the order  *)
(* in which the probe published them, and none of them twice.  It may miss *)
(* some, and starts afresh when it is restarted.                           *)
(***************************************************************************)
EXTENDS Integers, Sequences

CONSTANTS Probe, Client, Topic

VARIABLES
    published,  \* the topics of the reports of each probe
    wanted,     \* the topics a client has asked for
    received    \* the reports a client has got: probe, number and topic

vars == <<published, wanted, received>>

Init ==
    /\ published = [p \in Probe |-> <<>>]
    /\ wanted \in [Client -> SUBSET Topic]
    /\ received = [c \in Client |-> <<>>]

Publish(p) ==
    /\ \E topic \in Topic : published' = [published EXCEPT ![p] = Append(@, topic)]
    /\ UNCHANGED <<wanted, received>>

Ask(c) ==
    /\ \E more \in SUBSET Topic : wanted' = [wanted EXCEPT ![c] = @ \cup more]
    /\ UNCHANGED <<published, received>>

\* Report k of p, about a topic that c has asked for and after those of p it has got.
Deliver(c, p, k) ==
    /\ published[p][k] \in wanted[c]
    /\ \A i \in DOMAIN received[c] :
          received[c][i].probe = p => received[c][i].number < k
    /\ received' = [received EXCEPT ![c] =
                      Append(@, [probe |-> p, number |-> k, topic |-> published[p][k]])]
    /\ UNCHANGED <<published, wanted>>

Restart(c) ==
    /\ wanted' = [wanted EXCEPT ![c] = {}]
    /\ received' = [received EXCEPT ![c] = <<>>]
    /\ UNCHANGED published

Next ==
    \/ \E p \in Probe : Publish(p)
    \/ \E c \in Client :
          Ask(c) \/ Restart(c) \/ \E p \in Probe : \E k \in DOMAIN published[p] : Deliver(c, p, k)

Spec == Init /\ [][Next]_vars
=============================================================================
