------------------------------ MODULE MCScoring -----------------------------
(* Small instances of Scoring for TLC. *)
EXTENDS Scoring

CONSTANTS a, b, c, s, p, n1, n2, n3, n4, n5, m1, m2

(* Against the owner's recording a, b is at the top of the middle band and *)
(* c just below it; against b, c is at the bottom of the highest.  s has   *)
(* no speech and p breaks the embedder.                                    *)
MCSound ==
    [r \in Recordings |-> IF r = p THEN "poison" ELSE IF r = s THEN "short" ELSE "speech"]
MCCosine ==
    [x \in Recordings |-> [y \in Recordings |->
        IF x = y THEN 100 ELSE IF {x, y} = {a, b} THEN 49
        ELSE IF {x, y} = {a, c} THEN 29 ELSE 50]]
MCRecordingOf ==
    [n \in NoteNames |->
        CASE n = n1 -> a
          [] n = n2 -> b
          [] n = n3 -> IF c \in Recordings THEN c ELSE NoRecording
          [] n = n4 -> s
          [] OTHER -> p]

Old(tick) == [text |-> "ok", ticked |-> tick, voice |-> NoVoice, recent |-> FALSE]
AllMissing == [id \in Recordings |-> NoRecord]

(* A ticked note that has its voice, and one to be scored, whose record is *)
(* torn; or one without speech, and one that cannot be read and whose clip *)
(* breaks the embedder.  One more comes later.                             *)
Seed == [Old(TRUE) EXCEPT !.voice = [band |-> "no-gallery", score |-> NoScore, model |-> m1]]
Vaults == {[n \in {n1, n2} |-> IF n = n1 THEN Seed ELSE Old(FALSE)],
           [n \in {n4, n5} |-> IF n = n4 THEN Old(TRUE) ELSE [Old(TRUE) EXCEPT !.text = "denied"]]}
Caches == {[AllMissing EXCEPT ![b].kind = "corrupt"]}
=============================================================================
