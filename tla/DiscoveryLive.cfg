CONSTANTS
    b1 = b1  b2 = b2  n1 = n1  n2 = n2  c1 = c1  c2 = c2
    t1 = t1  t2 = t2  t3 = t3
    Controller = {n1}
    Broker = {b1, b2}
    Client = {c1}
    Topic = {t1, t2, t3}
    ProbeTopics <- OneProbeTopics
    Remote <- ChainRemote
    Entry <- MCEntry
    Nobody = Nobody
    Idle = Idle
    MaxCrashes = 1
    MaxRequests = 2
CHECK_DEADLOCK FALSE
SPECIFICATION FairSpec
PROPERTIES
    ClientsAreAnswered
    RequestsDieOut
