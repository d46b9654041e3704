CONSTANTS
    r1 = r1
    r2 = r2
    r3 = r3
    r4 = r4
    a = a
    b = b
    c = c
    none = none
    noTime = noTime
    owner = owner
    replicaA = replicaA
    replicaB = replicaB
    Requests = {r1, r2, r3}
    Replicas = {replicaA, replicaB}
    Deliveries = {"recA", "nameless", "spoken", "alias"}
    RingId = {a, b, c}
    NoId = none
    NoTime = noTime
    Owner = owner
    Signing = TRUE
    Rand = {"a4c1", "09be"}
    MaxAttempts = 3
    LostReplies = {}
    StuckTemps = {}
    MaxRemovals = 1
    Home <- Home2
    Content <- MCContent
    Times <- MCTimes
    Clock <- MCClock
    Word <- MCWord
    First8 <- MCFirst8
    Second <- MCSecond
    OwnerNames <- NoOwnerNames
SYMMETRY Symmetry
SPECIFICATION Spec
INVARIANTS
    EmbedIsTheRecording
    AnsweredIsKept
    RedeliveryConverges
PROPERTIES
    DurableBeforeVisible
