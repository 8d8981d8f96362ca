------------------------------ MODULE MCDiscovery ------------------------------
(* Small tiers of testpoints.                                              *)
EXTENDS Discovery, TLC

CONSTANTS b1, b2, n1, n2, c1, c2, t1, t2, t3

MCProbeTopics == (n1 :> <<{t1}, {t2}>>) @@ (n2 :> <<{t3}>>)

\* One probe each, for the runs of liveness properties.
OneProbeTopics == (n1 :> <<{t1}>>) @@ (n2 :> <<{t3}>>)

\* A broker over a broker over a controller.
ChainRemote == (b1 :> <<b2>>) @@ (b2 :> <<n1>>)

\* A broker over a broker and a controller.
TreeRemote == (b1 :> <<b2, n2>>) @@ (b2 :> <<n1>>)

MCEntry == [c \in Client |-> IF c = c1 THEN b1 ELSE b2]
=============================================================================
