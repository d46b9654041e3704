------------------------------ MODULE MCIngest ------------------------------
(***************************************************************************)
(* Small instances of Ingest for TLC.  Every configuration chooses which   *)
(* deliveries the requests are; what a delivery holds is defined here.     *)
(* Times are seconds: 100 and 119 fall in one minute, 86520 is a day and a *)
(* second from the only reading of the clock.                              *)
(***************************************************************************)
EXTENDS Ingest, TLC

CONSTANTS r1, r2, r3, r4, a, b, c, none, noTime, owner, replicaA, replicaB

MCTimes == {0, 100, 119, 86520}
MCClock == {119}
MCWord == {"buy", "milk", "40", "59", "ring_7f3", "20260704", "a4c1", "09be"}
MCSecond == [s \in 0..59 |-> CASE s = 40 -> "40" [] s = 59 -> "59" [] OTHER -> "milk"]
(* A ring id's first eight bytes are "ring_" and three of the device's     *)
(* hex digits, the same for every recording of a ring.                     *)
MCFirst8 == [id \in RingId \cup SynthesisedId |->
                IF id \in RingId THEN "ring_7f3" ELSE "20260704"]

Blank == [name |-> "other", whole |-> TRUE, id |-> none, known |-> FALSE,
          words |-> <<>>, at |-> noTime]
Audio(id) == [Blank EXCEPT !.name = "audio", !.id = id, !.known = TRUE]
Text(ws) == [Blank EXCEPT !.name = "transcription", !.words = ws]
Stamp(t) == [Blank EXCEPT !.name = "recordedAt", !.at = t]
Broken(p) == [p EXCEPT !.whole = FALSE]

Body(ps, end) == [auth |-> TRUE, headers |-> TRUE, signed |-> TRUE,
                  multipart |-> TRUE, parts |-> ps, ending |-> end]
Whole(ps) == Body(ps, "close")

Foreign == [Audio(a) EXCEPT !.known = FALSE]
Buy == Text(<<"buy">>)

Sent == [
    (* recordings of one minute with the same words, which collide *)
    recA      |-> Whole(<<Audio(a), Buy>>),
    recB      |-> Whole(<<Audio(b), Buy>>),
    recC      |-> Whole(<<Audio(c), Buy>>),
    nameless  |-> Whole(<<Audio(none), Buy>>),
    spoken    |-> Whole(<<Buy>>),
    (* a name that is another's name with the seconds after it *)
    alias     |-> Whole(<<Text(<<"buy", "59">>)>>),
    silent    |-> Whole(<<Stamp(100)>>),
    (* one way each of being unusual *)
    full      |-> Whole(<<Stamp(100), Blank, Audio(a), Buy>>),
    twice     |-> Whole(<<Audio(a), Foreign, Buy, Text(<<"milk">>), Stamp(0), Stamp(100)>>),
    garbled   |-> Whole(<<Stamp(noTime), Stamp(86520), Audio(a)>>),
    foreign   |-> Whole(<<Foreign, Audio(a)>>),
    faceless  |-> Whole(<<[Foreign EXCEPT !.id = none]>>),
    bearer    |-> [Whole(<<Audio(a)>>) EXCEPT !.auth = FALSE],
    unsigned  |-> [Whole(<<Audio(a)>>) EXCEPT !.headers = FALSE],
    forged    |-> [Whole(<<Audio(a)>>) EXCEPT !.signed = FALSE],
    opaque    |-> [Body(<<>>, "bare") EXCEPT !.multipart = FALSE],
    buried    |-> Body(<<Audio(a), Buy>>, "buried"),
    bare      |-> Body(<<Audio(a), Buy>>, "bare"),
    damaged   |-> Body(<<Buy, Broken(Audio(a))>>, "bare"),
    cut       |-> Body(<<Audio(a), Broken(Buy)>>, "cut"),
    huge      |-> Body(<<Broken(Audio(a))>>, "cap"),
    preamble  |-> Body(<<>>, "cap"),
    tooLong   |-> Body(<<Buy, Broken(Audio(a))>>, "cap")]

MCContent == [d \in Deliveries |-> Sent[d]]

Home1 == [r \in Requests |-> replicaA]
Home2 == [r \in Requests |-> IF r = r1 THEN replicaA ELSE replicaB]

(* Under Home2, requests of one replica are interchangeable.               *)
Symmetry == Permutations(Requests \ {r1})

NoOwnerNames == {}
BuyTaken == {[minute |-> 1, words |-> <<"buy">>, tail |-> <<>>]}
BothTaken == BuyTaken \cup {[minute |-> 1, words |-> <<"buy", "59">>, tail |-> <<>>]}
=============================================================================
