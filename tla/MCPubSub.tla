------------------------------- MODULE MCPubSub -------------------------------
(* A probe of a controller, a broker over it, and two otestpoint-dumps of  *)
(* the broker that ask for the same topic.                                 *)
EXTENDS PubSub

CONSTANTS p, controller, broker, dump, monitor, ofA, a, b

MCLinks == {<<p, controller>>, <<controller, broker>>,
            <<broker, dump>>, <<broker, monitor>>}

MCCovers == [filter \in Filter |-> {a}]

MCWants == [c \in Client |-> {ofA}]

\* Room for two before the controller; a client's connection is full with one.
MCHwm == [l \in Links |-> IF l[1] = p THEN 2 ELSE 1]
=============================================================================
