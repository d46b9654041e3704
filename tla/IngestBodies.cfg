CONSTANTS
    r1 = r1
    r2 = r2
    r3 = r3
    r4 = r4
    a = a
    b = b
    c = c
    none = none
    noTime = noTime
    owner = owner
    replicaA = replicaA
    replicaB = replicaB
    Requests = {r1, r2}
    Replicas = {replicaA, replicaB}
    Deliveries = {"full", "nameless", "faceless", "twice", "garbled", "foreign", "bearer", "unsigned", "forged", "opaque", "buried", "bare", "damaged", "cut", "huge", "preamble", "tooLong"}
    RingId = {a, b, c}
    NoId = none
    NoTime = noTime
    Owner = owner
    Signing = TRUE
    Rand = {"a4c1"}
    MaxAttempts = 3
    LostReplies = {r1}
    StuckTemps = {r1, r2}
    MaxRemovals = 0
    Home <- Home2
    Content <- MCContent
    Times <- MCTimes
    Clock <- MCClock
    Word <- MCWord
    First8 <- MCFirst8
    Second <- MCSecond
    OwnerNames <- BothTaken
SPECIFICATION Spec
INVARIANTS
    UnansweredLeavesNothing
    TempsRemoved
PROPERTIES
    KeepsPromise
