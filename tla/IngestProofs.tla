---------------------------- MODULE IngestProofs ----------------------------
(***************************************************************************)
(* Proofs about Ingest, for any number of requests and replicas, any       *)
(* deliveries, any ids and names and any number of link attempts.          *)
(***************************************************************************)
EXTENDS Ingest, TLAPS

(* A delivery's parts are parts, and so is what a handler reads of them.   *)
LEMMA PartsType ==
    ASSUME TypeOK, NEW r \in Requests
    PROVE  /\ In(r) \in Input
           /\ Parts(r) \in Seq(Part)
           /\ \A k \in 1..Len(Parts(r)) : Parts(r)[k] \in Part
  <1>1. In(r) \in Input
    BY ContentAssumption DEF TypeOK, In
  <1>2. Parts(r) \in Seq(Part)
    BY <1>1 DEF Parts, Input
  <1> QED
    BY <1>1, <1>2

(* Where the fields of partState came from, as far as the body was read.   *)
FieldsRead ==
    \A r \in Requests :
        /\ st[r].audio <= Len(Parts(r))
        /\ st[r].transcription <= Len(Parts(r))
        /\ st[r].recordedAt <= Len(Parts(r))
        /\ st[r].audioComplete => st[r].audio # 0

(* A note that is being placed is its request's own and names the          *)
(* recording the body held.                                                *)
PlacingAudio == {"syncAudio", "linkAudio"}
PlacingNote == {"writeNote", "linkNote", "compare", "placed"}
NoteBuilt ==
    \A r \in Requests :
        /\ pc[r] \in PlacingAudio => note[r].id # NoId
        /\ pc[r] \in PlacingAudio \cup PlacingNote =>
              /\ note[r].by = r
              /\ note[r].synthesised <=> note[r].id \in SynthesisedId
              /\ note[r].id # NoId => st[r].audio # 0
              /\ note[r].id \in RingId => Parts(r)[st[r].audio].id = note[r].id

(* What is attached was read: its request's audio part is settled, and it  *)
(* is the one that has this id, if the id is a ring's.                     *)
AttachedRead ==
    \A id \in DOMAIN attachments :
        /\ st[attachments[id]].audio # 0
        /\ id \in RingId =>
              Parts(attachments[id])[st[attachments[id]].audio].id = id

(* From the moment its audio is placed, a note has its recording.          *)
RecordingPlaced ==
    \A r \in Requests :
        pc[r] \in PlacingNote => HasOwnRecording(note[r])

IInv == /\ TypeOK
        /\ FieldsRead
        /\ NoteBuilt
        /\ AttachedRead
        /\ RecordingPlaced
        /\ EmbedIsTheRecording

LEMMA InitIInv == Init => IInv
  <1> SUFFICES ASSUME Init PROVE IInv
    OBVIOUS
  <1> USE DEF Init
  <1>1. OwnerNote \in Note
    <2>1. (CHOOSE t \in Clock : TRUE) \in Times
      BY ClockAssumption
    <2>2. <<>> \in Seq(Word)
      OBVIOUS
    <2> QED
      BY <2>1, <2>2 DEF OwnerNote, Note, Id
  <1>2. NoName \in Name /\ NoParts \in PartState
    BY DEF NoName, Name, NoParts, PartState
  <1>3. TypeOK
    BY <1>1, <1>2, VaultAssumption DEF TypeOK, Steps, Written
  <1>4. \A r \in Requests : Len(Parts(r)) \in Nat
    BY <1>3, PartsType
  <1>5. FieldsRead
    BY <1>4 DEF FieldsRead, NoParts
  <1>6. NoteBuilt /\ AttachedRead /\ RecordingPlaced
    BY DEF NoteBuilt, AttachedRead, RecordingPlaced, PlacingAudio, PlacingNote
  <1>7. EmbedIsTheRecording
    BY DEF EmbedIsTheRecording, Written, HasOwnRecording, OwnerNote
  <1> QED
    BY <1>3, <1>5, <1>6, <1>7 DEF IInv

----
(* What the steps compute has the type it should.                          *)

LEMMA ConsumedType ==
    ASSUME NEW s \in PartState, NEW p \in Part, NEW k \in Nat
    PROVE  Consumed(s, p, k) \in PartState
  BY DEF PartState, Part, Consumed

LEMMA BaseNameType == ASSUME NEW n \in Note PROVE BaseName(n) \in Name
  <1>1. n.at \in Nat /\ n.words \in Seq(Word)
    BY ClockAssumption DEF Note
  <1>2. n.at \div 60 \in Nat
    BY <1>1
  <1> QED
    BY <1>1, <1>2 DEF BaseName, Name

LEMMA SuffixedType ==
    ASSUME NEW base \in Name, NEW w \in Word
    PROVE  Suffixed(base, w) \in Name
  <1>1. <<w>> \in Seq(Word) /\ Append(base.words, w) \in Seq(Word)
    BY DEF Name
  <1> QED
    BY <1>1 DEF Suffixed, Name

LEMMA SuffixesType ==
    ASSUME NEW n \in Note, NEW k \in Nat
    PROVE  Suffixes(n, k) \subseteq Word
  <1>1. Rand \subseteq Word
    BY VaultAssumption
  <1>2. n.id # NoId => First8[n.id] \in Word
    BY IngestAssumption DEF Note, Id
  <1>3. Second[n.at % 60] \in Word
    <2>1. n.at \in Nat
      BY ClockAssumption DEF Note
    <2>2. n.at % 60 \in 0..59
      BY <2>1
    <2> QED
      BY <2>2, IngestAssumption
  <1> QED
    BY <1>1, <1>2, <1>3 DEF Suffixes

LEMMA SynthesisedType ==
    ASSUME NEW t \in Times
    PROVE  /\ SynthesiseID(t) \subseteq SynthesisedId
           /\ \A id \in SynthesiseID(t) : id # NoId /\ id \notin RingId
  <1>1. SynthesiseID(t) \subseteq SynthesisedId
    BY DEF SynthesiseID, SynthesisedId
  <1> QED
    BY <1>1, IdAssumption DEF Id

(* The note a handler builds: a note of its request, with the id of the    *)
(* recording when the body held one.                                       *)
NoteTime(r, now) == IF Usable(RecordedAt(r), now) THEN RecordedAt(r) ELSE now

LEMMA NewNoteType ==
    ASSUME TypeOK, FieldsRead, NEW r \in Requests, NEW now \in Clock,
           NEW id \in IdChoices(r, NoteTime(r, now))
    PROVE  /\ NewNote(r, now, id) \in Note
           /\ NewNote(r, now, id).by = r
           /\ NewNote(r, now, id).id = id
           /\ NewNote(r, now, id).synthesised <=> id \in SynthesisedId
           /\ st[r].audioComplete => id # NoId
           /\ id # NoId => st[r].audio # 0
           /\ id \in RingId => Parts(r)[st[r].audio].id = id
  <1> DEFINE n == NewNote(r, now, id)
  <1>1. st[r] \in PartState /\ truncated[r] \in BOOLEAN
    BY DEF TypeOK
  <1>2. \A k \in Nat \ {0} : k <= Len(Parts(r)) => Parts(r)[k] \in Part
    BY PartsType
  <1>3. RecordedAt(r) \in Times \cup {NoTime}
    BY <1>1, <1>2 DEF RecordedAt, FieldsRead, PartState, Part
  <1>4. NoteTime(r, now) \in Times
    BY <1>3, ClockAssumption DEF NoteTime, Usable
  <1>5. st[r].audioComplete => st[r].audio # 0 /\ Parts(r)[st[r].audio] \in Part
    BY <1>1, <1>2 DEF FieldsRead, PartState
  <1>6. st[r].audioComplete => Parts(r)[st[r].audio].id \in Id
    BY <1>5 DEF Part
  <1>7. /\ id \in Id \cup SynthesisedId
        /\ st[r].audioComplete => id # NoId
        /\ id # NoId => st[r].audio # 0
        /\ id \in RingId => Parts(r)[st[r].audio].id = id
    BY <1>4, <1>5, <1>6, SynthesisedType, IdAssumption DEF IdChoices, Id
  <1>8. n.words \in Seq(Word)
    <2>1. CASE st[r].transcription = 0
      BY <2>1 DEF NewNote
    <2>2. CASE st[r].transcription # 0
      BY <1>1, <1>2, <2>2 DEF NewNote, FieldsRead, PartState, Part
    <2> QED
      BY <2>1, <2>2
  <1>9. Usable(RecordedAt(r), now) \in BOOLEAN /\ (id \in SynthesisedId) \in BOOLEAN
    BY DEF Usable
  <1>10. /\ n.by = r
         /\ n.id = id
         /\ n.synthesised = (id \in SynthesisedId)
         /\ n.truncated = truncated[r]
         /\ n.at = NoteTime(r, now)
    BY DEF NewNote, NoteTime
  <1>11. n \in Note
    BY <1>1, <1>4, <1>7, <1>8, <1>9, <1>10 DEF Note, NewNote
  <1>12. n.by = r /\ n.id = id /\ (n.synthesised <=> id \in SynthesisedId)
    BY <1>10
  <1> QED
    BY <1>7, <1>11, <1>12 DEF n

----
(* Every step keeps the types.                                             *)

LEMMA GotoType ==
    ASSUME TypeOK, NEW r \in Requests, NEW l \in Steps, Goto(r, l)
    PROVE  pc' \in [Requests -> Steps]
  BY DEF TypeOK, Goto

LEMMA RespondType ==
    ASSUME TypeOK, NEW r \in Requests, NEW code \in {200, 401, 413, 500},
           Respond(r, code)
    PROVE  /\ pc' \in [Requests -> Steps]
           /\ status' \in [Requests -> {0, 200, 401, 413, 500}]
  <1>1. pc' \in [Requests -> Steps]
    BY GotoType DEF Respond, Steps, InFlight
  <1> QED
    BY <1>1 DEF TypeOK, Respond

LEMMA BodyErrorType ==
    ASSUME TypeOK, NEW r \in Requests, NEW any, BodyError(r, any)
    PROVE  /\ pc' \in [Requests -> Steps]
           /\ status' \in [Requests -> {0, 200, 401, 413, 500}]
           /\ truncated' \in [Requests -> BOOLEAN]
  <1>1. CASE In(r).ending = "cap" /\ ~any
    BY <1>1, RespondType DEF BodyError, TypeOK
  <1>2. CASE ~(In(r).ending = "cap" /\ ~any)
    <2>1. Goto(r, "verify") /\ UNCHANGED status
          /\ truncated' = [truncated EXCEPT ![r] = TRUE]
      BY <1>2 DEF BodyError
    <2>2. pc' \in [Requests -> Steps]
      BY <2>1, GotoType DEF Steps, InFlight
    <2> QED
      BY <2>1, <2>2 DEF TypeOK
  <1> QED
    BY <1>1, <1>2

LEMMA TypeStep == IInv /\ [Next]_vars => TypeOK'
  <1> SUFFICES ASSUME IInv, [Next]_vars PROVE TypeOK'
    OBVIOUS
  <1>0. TypeOK /\ FieldsRead /\ NoteBuilt
    BY DEF IInv
  <1>1. ASSUME NEW r \in Requests, Begin(r) PROVE TypeOK'
    <2>1. UNCHANGED <<sent, next, st, note, attempt, try, poked, tmpAudio, tmpNote, vault>>
      BY <1>1 DEF Begin
    <2>2. CASE ~Admitted(r)
      BY <1>0, <1>1, <2>1, <2>2, RespondType DEF Begin, TypeOK, vault, Written
    <2>3. CASE Admitted(r)
      <3>1. /\ Goto(r, IF In(r).multipart THEN "body" ELSE "verify")
            /\ truncated' = [truncated EXCEPT ![r] = ~In(r).multipart]
            /\ UNCHANGED status
        BY <1>1, <2>3 DEF Begin
      <3>2. pc' \in [Requests -> Steps]
        BY <1>0, <3>1, GotoType DEF Steps, InFlight
      <3>3. truncated' \in [Requests -> BOOLEAN]
        BY <1>0, <3>1, PartsType DEF TypeOK
      <3> QED
        BY <1>0, <2>1, <3>1, <3>2, <3>3 DEF TypeOK, vault, Written
    <2> QED
      BY <2>2, <2>3
  <1>2. ASSUME NEW r \in Requests, ReadPart(r) PROVE TypeOK'
    <2> DEFINE p == Parts(r)[next[r]]
    <2>1. p \in Part /\ next[r] \in Nat
      BY <1>0, <1>2, PartsType DEF ReadPart, TypeOK
    <2>2. st' \in [Requests -> PartState]
      <3>1. Consumed(st[r], p, next[r]) \in PartState
        BY <1>0, <2>1, ConsumedType DEF TypeOK
      <3> QED
        BY <1>0, <1>2, <3>1 DEF ReadPart, TypeOK
    <2>3. tmpAudio' \in [Requests -> {"none", "open", "synced", "left"}]
      BY <1>0, <1>2 DEF ReadPart, TypeOK
    <2>4. next' \in [Requests -> Nat \ {0}]
      BY <1>0, <1>2 DEF ReadPart, TypeOK
    <2>5. /\ pc' \in [Requests -> Steps]
          /\ status' \in [Requests -> {0, 200, 401, 413, 500}]
          /\ truncated' \in [Requests -> BOOLEAN]
      <3>1. CASE p.whole
        BY <1>0, <1>2, <3>1 DEF ReadPart, TypeOK
      <3>2. CASE ~p.whole
        BY <1>0, <1>2, <3>2, BodyErrorType DEF ReadPart
      <3> QED
        BY <3>1, <3>2
    <2>6. UNCHANGED <<sent, note, attempt, try, poked, tmpNote, vault>>
      BY <1>2 DEF ReadPart
    <2> QED
      BY <1>0, <2>2, <2>3, <2>4, <2>5, <2>6 DEF TypeOK, vault, Written
  <1>3. ASSUME NEW r \in Requests, EndOfBody(r) PROVE TypeOK'
    <2>1. /\ pc' \in [Requests -> Steps]
          /\ status' \in [Requests -> {0, 200, 401, 413, 500}]
          /\ truncated' \in [Requests -> BOOLEAN]
      <3>1. CASE In(r).ending = "close"
        <4>1. Goto(r, "verify") /\ UNCHANGED <<truncated, status>>
          BY <1>3, <3>1 DEF EndOfBody
        <4> QED
          BY <1>0, <4>1, GotoType DEF TypeOK, Steps, InFlight
      <3>2. CASE In(r).ending # "close"
        BY <1>0, <1>3, <3>2, BodyErrorType DEF EndOfBody
      <3> QED
        BY <3>1, <3>2
    <2>2. UNCHANGED <<sent, next, st, note, attempt, try, poked, tmpAudio, tmpNote, vault>>
      BY <1>3 DEF EndOfBody
    <2> QED
      BY <1>0, <2>1, <2>2 DEF TypeOK, vault, Written
  <1>4. ASSUME NEW r \in Requests, Reject(r) PROVE TypeOK'
    BY <1>0, <1>4 DEF TypeOK, Reject, Respond, Goto, vault, Steps, InFlight, Written
  <1>5. ASSUME NEW r \in Requests, BuildNote(r) PROVE TypeOK'
    <2>1. PICK now \in Clock : \E id \in IdChoices(r, NoteTime(r, now)) :
              note' = [note EXCEPT ![r] = NewNote(r, now, id)]
      BY <1>5 DEF BuildNote, NoteTime
    <2>2. note' \in [Requests -> Note]
      BY <1>0, <2>1, NewNoteType DEF TypeOK
    <2>3. pc' \in [Requests -> Steps]
      BY <1>0, <1>5, GotoType DEF BuildNote, Steps, InFlight
    <2> QED
      BY <1>0, <1>5, <2>2, <2>3 DEF BuildNote, TypeOK, vault, Written
  <1>6. ASSUME NEW r \in Requests, SyncAudio(r) PROVE TypeOK'
    BY <1>0, <1>6 DEF TypeOK, SyncAudio, Respond, Goto, vault, Steps, InFlight, Written
  <1>7. ASSUME NEW r \in Requests, LinkAudio(r) PROVE TypeOK'
    <2>1. note[r].id \in RingId \cup SynthesisedId
      BY <1>0, <1>7 DEF TypeOK, LinkAudio, NoteBuilt, PlacingAudio, Note, Id
    <2>2. /\ DOMAIN attachments' = DOMAIN attachments \cup {note[r].id}
          /\ \A id \in DOMAIN attachments' :
                attachments'[id] = IF id = note[r].id THEN r ELSE attachments[id]
      BY <1>7 DEF LinkAudio, Link
    <2>3. pc' \in [Requests -> Steps]
      BY <1>0, <1>7, GotoType DEF LinkAudio, Steps, InFlight
    <2> QED
      BY <1>0, <1>7, <2>1, <2>2, <2>3 DEF LinkAudio, TypeOK, Written
  <1>8. ASSUME NEW r \in Requests, KeepAudio(r) PROVE TypeOK'
    BY <1>0, <1>8 DEF TypeOK, KeepAudio, Respond, Goto, vault, Steps, InFlight, Written
  <1>9. ASSUME NEW r \in Requests, RedrawId(r) PROVE TypeOK'
    <2>1. PICK id \in SynthesiseID(note[r].at) : note' = [note EXCEPT ![r].id = id]
      BY <1>9 DEF RedrawId
    <2>2. note[r] \in Note /\ id \in SynthesisedId
      BY <1>0, SynthesisedType DEF TypeOK, Note
    <2>3. [note[r] EXCEPT !.id = id] \in Note
      BY <2>2 DEF Note
    <2>4. note' \in [Requests -> Note]
      BY <1>0, <2>1, <2>3 DEF TypeOK
    <2>5. /\ pc' \in [Requests -> Steps]
          /\ status' \in [Requests -> {0, 200, 401, 413, 500}]
          /\ attempt' \in [Requests -> Nat]
      <3>1. CASE LastAttempt(r)
        BY <1>0, <1>9, <3>1, RespondType DEF RedrawId, TypeOK
      <3>2. CASE ~LastAttempt(r)
        BY <1>0, <1>9, <3>2 DEF RedrawId, TypeOK, Lost
      <3> QED
        BY <3>1, <3>2
    <2>6. UNCHANGED <<sent, next, st, truncated, try, poked, tmpAudio, tmpNote, vault>>
      BY <1>9 DEF RedrawId
    <2> QED
      BY <1>0, <2>4, <2>5, <2>6 DEF TypeOK, vault, Written
  <1>10. ASSUME NEW r \in Requests, WriteNote(r) PROVE TypeOK'
    <2>1. try' \in [Requests -> Name]
      BY <1>0, <1>10, BaseNameType DEF WriteNote, TypeOK
    <2>2. pc' \in [Requests -> Steps]
      BY <1>0, <1>10, GotoType DEF WriteNote, Steps, InFlight
    <2> QED
      BY <1>0, <1>10, <2>1, <2>2 DEF WriteNote, TypeOK, vault, Written
  <1>11. ASSUME NEW r \in Requests, LinkNote(r) PROVE TypeOK'
    <2>1. /\ DOMAIN notes' = DOMAIN notes \cup {try[r]}
          /\ \A f \in DOMAIN notes' : notes'[f] = IF f = try[r] THEN note[r] ELSE notes[f]
      BY <1>11 DEF LinkNote, Link
    <2>2. DOMAIN notes' \subseteq Name /\ Written' \subseteq Note
      BY <1>0, <1>11, <2>1 DEF LinkNote, TypeOK, Written
    <2>3. pc' \in [Requests -> Steps]
      BY <1>0, <1>11, GotoType DEF LinkNote, Steps, InFlight
    <2> QED
      BY <1>0, <1>11, <2>2, <2>3 DEF LinkNote, TypeOK
  <1>12. ASSUME NEW r \in Requests, NameTaken(r) PROVE TypeOK'
    BY <1>0, <1>12 DEF TypeOK, NameTaken, Respond, Goto, vault, Steps, InFlight, Written
  <1>13. ASSUME NEW r \in Requests, KeepNote(r) PROVE TypeOK'
    BY <1>0, <1>13 DEF TypeOK, KeepNote, Respond, Goto, vault, Steps, InFlight, Written
  <1>14. ASSUME NEW r \in Requests, NextName(r) PROVE TypeOK'
    <2>1. /\ pc' \in [Requests -> Steps]
          /\ status' \in [Requests -> {0, 200, 401, 413, 500}]
          /\ tmpNote' \in [Requests -> {"none", "synced", "left"}]
          /\ attempt' \in [Requests -> Nat]
          /\ try' \in [Requests -> Name]
      <3>1. CASE LastAttempt(r)
        <4>1. /\ Respond(r, 500)
              /\ \E t \in Removed(r, tmpNote[r]) : tmpNote' = [tmpNote EXCEPT ![r] = t]
              /\ UNCHANGED <<attempt, try, unread>>
          BY <1>14, <3>1 DEF NextName
        <4>2. /\ pc' \in [Requests -> Steps]
              /\ status' \in [Requests -> {0, 200, 401, 413, 500}]
          BY <1>0, <4>1, RespondType
        <4>3. tmpNote' \in [Requests -> {"none", "synced", "left"}]
          BY <1>0, <4>1 DEF TypeOK, Removed
        <4>4. attempt' \in [Requests -> Nat] /\ try' \in [Requests -> Name]
          BY <1>0, <4>1 DEF TypeOK
        <4> QED
          BY <4>2, <4>3, <4>4
      <3>2. CASE ~LastAttempt(r)
        <4>1. PICK w \in Suffixes(note[r], attempt[r]) :
                  try' = [try EXCEPT ![r] = Suffixed(BaseName(note[r]), w)]
          BY <1>14, <3>2 DEF NextName
        <4>2. Suffixed(BaseName(note[r]), w) \in Name
          BY <1>0, BaseNameType, SuffixesType, SuffixedType DEF TypeOK
        <4>3. /\ attempt' = [attempt EXCEPT ![r] = attempt[r] + 1]
              /\ Goto(r, "linkNote")
              /\ UNCHANGED <<status, tmpNote>>
          BY <1>14, <3>2 DEF NextName, Lost
        <4>4. pc' \in [Requests -> Steps]
          BY <1>0, <4>3, GotoType DEF Steps, InFlight
        <4>5. attempt' \in [Requests -> Nat] /\ try' \in [Requests -> Name]
          BY <1>0, <4>1, <4>2, <4>3 DEF TypeOK
        <4>6. /\ status' \in [Requests -> {0, 200, 401, 413, 500}]
              /\ tmpNote' \in [Requests -> {"none", "synced", "left"}]
          BY <1>0, <4>3 DEF TypeOK
        <4> QED
          BY <4>4, <4>5, <4>6
      <3> QED
        BY <3>1, <3>2
    <2>2. UNCHANGED <<sent, next, st, truncated, note, poked, tmpAudio,
                      notes, attachments, trash>>
      BY <1>14 DEF NextName
    <2>3. unread' \subseteq Name
      BY <1>0, <1>14 DEF NextName, TypeOK
    <2> QED
      BY <1>0, <2>1, <2>2, <2>3 DEF TypeOK, Written
  <1>15. ASSUME NEW r \in Requests, Answer(r) PROVE TypeOK'
    BY <1>0, <1>15 DEF TypeOK, Answer, Removed, Respond, Goto, vault, Steps, InFlight, Written
  <1>16. ASSUME NEW r \in Requests, Cleanup(r) PROVE TypeOK'
    BY <1>0, <1>16 DEF TypeOK, Cleanup, AudioTempRemoved, Removed, Goto, vault, Steps, InFlight, Written
  <1>17. ASSUME NEW r \in Requests, VaultFails(r) PROVE TypeOK'
    BY <1>0, <1>17 DEF TypeOK, VaultFails, Removed, Respond, Goto, vault, Steps, InFlight, Written
  <1>18. ASSUME NEW p \in Replicas, Crash(p) PROVE TypeOK'
    BY <1>0, <1>18 DEF TypeOK, Crash, vault, Steps, InFlight, Written
  <1>19. ASSUME NEW f \in DOMAIN notes, OwnerRemoves(f) PROVE TypeOK'
    BY <1>0, <1>19 DEF TypeOK, OwnerRemoves, handler, Written
  <1>20. CASE UNCHANGED vars
    BY <1>0, <1>20 DEF TypeOK, vars, handler, vault, Written
  <1>21. ASSUME NEW r \in Requests, AudioReplyLost(r) PROVE TypeOK'
    <2>1. note[r].id \in RingId \cup SynthesisedId
      BY <1>0, <1>21 DEF TypeOK, AudioReplyLost, NoteBuilt, PlacingAudio, Note, Id
    <2>2. /\ DOMAIN attachments' = DOMAIN attachments \cup {note[r].id}
          /\ \A id \in DOMAIN attachments' :
                attachments'[id] = IF id = note[r].id THEN r ELSE attachments[id]
      BY <1>21 DEF AudioReplyLost, Link
    <2> QED
      BY <1>0, <1>21, <2>1, <2>2 DEF AudioReplyLost, TypeOK, handler, Written
  <1>22. ASSUME NEW r \in Requests, NoteReplyLost(r) PROVE TypeOK'
    <2>1. /\ DOMAIN notes' = DOMAIN notes \cup {try[r]}
          /\ \A f \in DOMAIN notes' : notes'[f] = IF f = try[r] THEN note[r] ELSE notes[f]
      BY <1>22 DEF NoteReplyLost, Link
    <2>2. DOMAIN notes' \subseteq Name /\ Written' \subseteq Note
      BY <1>0, <1>22, <2>1 DEF NoteReplyLost, TypeOK, Written
    <2>3. pc' \in [Requests -> Steps]
      BY <1>0, <1>22, GotoType DEF NoteReplyLost, Steps, InFlight
    <2> QED
      BY <1>0, <1>22, <2>2, <2>3 DEF NoteReplyLost, TypeOK
  <1> QED
    BY <1>1, <1>2, <1>3, <1>4, <1>5, <1>6, <1>7, <1>8, <1>9, <1>10, <1>11,
       <1>12, <1>13, <1>14, <1>15, <1>16, <1>17, <1>18, <1>19, <1>20,
       <1>21, <1>22
       DEF Next, Handle, Terminating

----
(* Which steps change what.                                                *)

(* What a request is never changes.                                        *)
LEMMA SentFrame == [Next]_vars => UNCHANGED sent
  BY DEF Next, Handle, Terminating, vars, handler, vault, Begin, ReadPart,
         EndOfBody, Reject, BuildNote, SyncAudio, LinkAudio, AudioReplyLost, NoteReplyLost, KeepAudio,
         RedrawId, WriteNote, LinkNote, NameTaken, KeepNote, NextName,
         Answer, Cleanup, VaultFails, Crash, OwnerRemoves

(* Only reading a part changes partState.                                  *)
LEMMA StFrame == [Next]_vars => UNCHANGED st \/ \E r \in Requests : ReadPart(r)
  BY DEF Next, Handle, Terminating, vars, handler, vault, Begin,
         EndOfBody, Reject, BuildNote, SyncAudio, LinkAudio, AudioReplyLost, NoteReplyLost, KeepAudio,
         RedrawId, WriteNote, LinkNote, NameTaken, KeepNote, NextName,
         Answer, Cleanup, VaultFails, Crash, OwnerRemoves

(* Only building the note and drawing another id change it.                *)
LEMMA NoteFrame == [Next]_vars => UNCHANGED note \/ \E r \in Requests : BuildNote(r) \/ RedrawId(r)
  BY DEF Next, Handle, Terminating, vars, handler, vault, Begin, ReadPart,
         EndOfBody, Reject, SyncAudio, LinkAudio, AudioReplyLost, NoteReplyLost, KeepAudio, WriteNote,
         LinkNote, NameTaken, KeepNote, NextName, Answer, Cleanup,
         VaultFails, Crash, OwnerRemoves

(* Only a link and the owner change the vault.                             *)
LEMMA VaultFrame ==
    [Next]_vars => \/ notes' = notes /\ attachments' = attachments /\ trash' = trash
                   \/ \E r \in Requests : LinkAudio(r) \/ AudioReplyLost(r)
                   \/ \E r \in Requests : LinkNote(r) \/ NoteReplyLost(r)
                   \/ \E f \in DOMAIN notes : OwnerRemoves(f)
  BY DEF Next, Handle, Terminating, vars, handler, vault, Begin, ReadPart,
         EndOfBody, Reject, BuildNote, SyncAudio, KeepAudio, RedrawId,
         WriteNote, NameTaken, KeepNote, NextName, Answer, Cleanup,
         VaultFails, Crash

(* What was not read once is remembered, by the request that goes on.      *)
LEMMA UnreadFrame ==
    [Next]_vars => unread' = unread \/ \E r \in Requests : NextName(r)
  BY DEF Next, Handle, Terminating, vars, handler, vault, Begin, ReadPart,
         EndOfBody, Reject, BuildNote, SyncAudio, LinkAudio, AudioReplyLost,
         KeepAudio, RedrawId, WriteNote, LinkNote, NoteReplyLost, NameTaken,
         KeepNote, Answer, Cleanup, VaultFails, Crash, OwnerRemoves

LEMMA UnreadStays == [Next]_vars => unread \subseteq unread'
  BY UnreadFrame DEF NextName

----
(* Create only, for every vault and every number of replicas.              *)

(* A step of the service changes or removes no file, and a note that goes  *)
(* goes to its owner's trash (link(2) in note.go, never rename).           *)
LEMMA CreateOnlyNext == [Next]_vars => CreateOnlyStep
  <1> SUFFICES ASSUME [Next]_vars PROVE CreateOnlyStep
    OBVIOUS
  <1>1. CASE notes' = notes /\ attachments' = attachments /\ trash' = trash
    BY <1>1 DEF CreateOnlyStep
  <1>2. ASSUME NEW r \in Requests, LinkAudio(r) PROVE CreateOnlyStep
    BY <1>2 DEF CreateOnlyStep, LinkAudio, Link, Exists
  <1>3. ASSUME NEW r \in Requests, LinkNote(r) PROVE CreateOnlyStep
    BY <1>3 DEF CreateOnlyStep, LinkNote, Link, Exists
  <1>4. ASSUME NEW f \in DOMAIN notes, OwnerRemoves(f) PROVE CreateOnlyStep
    BY <1>4 DEF CreateOnlyStep, OwnerRemoves
  <1>5. ASSUME NEW r \in Requests, AudioReplyLost(r) PROVE CreateOnlyStep
    BY <1>5 DEF CreateOnlyStep, AudioReplyLost, Link, Exists
  <1>6. ASSUME NEW r \in Requests, NoteReplyLost(r) PROVE CreateOnlyStep
    BY <1>6 DEF CreateOnlyStep, NoteReplyLost, Link, Exists
  <1> QED
    BY <1>1, <1>2, <1>3, <1>4, <1>5, <1>6, VaultFrame

THEOREM CreateOnlyHolds == Spec => CreateOnly
  BY CreateOnlyNext, PTL DEF Spec, CreateOnly

----
(* An embed is the recording: the inductive invariant, part by part.       *)

(* How a handler gets to placing its audio, and to placing its note.       *)
PcStep(q) ==
    /\ pc'[q] \in PlacingAudio => pc[q] \in PlacingAudio \/ BuildNote(q)
    /\ pc'[q] \in PlacingNote =>
          pc[q] \in PlacingNote \/ LinkAudio(q) \/ KeepAudio(q) \/ BuildNote(q)

LEMMA PcFrame == TypeOK /\ [Next]_vars => \A q \in Requests : PcStep(q)
  <1> SUFFICES ASSUME TypeOK, [Next]_vars, NEW q \in Requests PROVE PcStep(q)
    OBVIOUS
  <1>1. ASSUME NEW r \in Requests, Begin(r) PROVE PcStep(q)
    BY <1>1 DEF TypeOK, PcStep, PlacingAudio, PlacingNote, Begin, Goto, Respond
  <1>2. ASSUME NEW r \in Requests, ReadPart(r) PROVE PcStep(q)
    BY <1>2 DEF TypeOK, PcStep, PlacingAudio, PlacingNote, ReadPart, Goto, Respond, BodyError
  <1>3. ASSUME NEW r \in Requests, EndOfBody(r) PROVE PcStep(q)
    BY <1>3 DEF TypeOK, PcStep, PlacingAudio, PlacingNote, EndOfBody, Goto, Respond, BodyError
  <1>4. ASSUME NEW r \in Requests, Reject(r) PROVE PcStep(q)
    BY <1>4 DEF TypeOK, PcStep, PlacingAudio, PlacingNote, Reject, Goto, Respond
  <1>5. ASSUME NEW r \in Requests, BuildNote(r) PROVE PcStep(q)
    <2>1. q # r => pc'[q] = pc[q]
      BY <1>5 DEF TypeOK, BuildNote, Goto
    <2> QED
      BY <1>5, <2>1 DEF PcStep
  <1>6. ASSUME NEW r \in Requests, SyncAudio(r) PROVE PcStep(q)
    BY <1>6 DEF TypeOK, PcStep, PlacingAudio, PlacingNote, SyncAudio, Goto, Respond
  <1>7. ASSUME NEW r \in Requests, LinkAudio(r) PROVE PcStep(q)
    BY <1>7 DEF TypeOK, PcStep, PlacingAudio, PlacingNote, LinkAudio, Goto, Respond
  <1>8. ASSUME NEW r \in Requests, KeepAudio(r) PROVE PcStep(q)
    BY <1>8 DEF TypeOK, PcStep, PlacingAudio, PlacingNote, KeepAudio, Goto, Respond
  <1>9. ASSUME NEW r \in Requests, RedrawId(r) PROVE PcStep(q)
    BY <1>9 DEF TypeOK, PcStep, PlacingAudio, PlacingNote, RedrawId, Goto, Respond
  <1>10. ASSUME NEW r \in Requests, WriteNote(r) PROVE PcStep(q)
    BY <1>10 DEF TypeOK, PcStep, PlacingAudio, PlacingNote, WriteNote, Goto, Respond
  <1>11. ASSUME NEW r \in Requests, LinkNote(r) PROVE PcStep(q)
    BY <1>11 DEF TypeOK, PcStep, PlacingAudio, PlacingNote, LinkNote, Goto, Respond
  <1>12. ASSUME NEW r \in Requests, NameTaken(r) PROVE PcStep(q)
    BY <1>12 DEF TypeOK, PcStep, PlacingAudio, PlacingNote, NameTaken, Goto, Respond
  <1>13. ASSUME NEW r \in Requests, KeepNote(r) PROVE PcStep(q)
    BY <1>13 DEF TypeOK, PcStep, PlacingAudio, PlacingNote, KeepNote, Goto, Respond
  <1>14. ASSUME NEW r \in Requests, NextName(r) PROVE PcStep(q)
    BY <1>14 DEF TypeOK, PcStep, PlacingAudio, PlacingNote, NextName, Goto, Respond
  <1>15. ASSUME NEW r \in Requests, Answer(r) PROVE PcStep(q)
    BY <1>15 DEF TypeOK, PcStep, PlacingAudio, PlacingNote, Answer, Goto, Respond
  <1>16. ASSUME NEW r \in Requests, Cleanup(r) PROVE PcStep(q)
    BY <1>16 DEF TypeOK, PcStep, PlacingAudio, PlacingNote, Cleanup, Goto, Respond
  <1>17. ASSUME NEW r \in Requests, VaultFails(r) PROVE PcStep(q)
    BY <1>17 DEF TypeOK, PcStep, PlacingAudio, PlacingNote, VaultFails, Goto, Respond, FailingSteps
  <1>18. ASSUME NEW p \in Replicas, Crash(p) PROVE PcStep(q)
    BY <1>18 DEF TypeOK, PcStep, PlacingAudio, PlacingNote, Crash
  <1>19. ASSUME NEW f \in DOMAIN notes, OwnerRemoves(f) PROVE PcStep(q)
    BY <1>19 DEF PcStep, OwnerRemoves, handler
  <1>20. CASE UNCHANGED vars
    BY <1>20 DEF PcStep, vars, handler
  <1>21. ASSUME NEW r \in Requests, AudioReplyLost(r) PROVE PcStep(q)
    BY <1>21 DEF PcStep, AudioReplyLost, handler
  <1>22. ASSUME NEW r \in Requests, NoteReplyLost(r) PROVE PcStep(q)
    BY <1>22 DEF TypeOK, PcStep, PlacingAudio, PlacingNote, NoteReplyLost, Goto, Respond
  <1> QED
    BY <1>1, <1>2, <1>3, <1>4, <1>5, <1>6, <1>7, <1>8, <1>9, <1>10, <1>11,
       <1>12, <1>13, <1>14, <1>15, <1>16, <1>17, <1>18, <1>19, <1>20,
       <1>21, <1>22
       DEF Next, Handle, Terminating

(* partState only names parts that are there, and the audio part it names  *)
(* stays the same.                                                         *)
LEMMA FieldsStep ==
    IInv /\ [Next]_vars =>
        /\ FieldsRead'
        /\ \A r \in Requests : st[r].audio # 0 => st'[r].audio = st[r].audio
  <1> SUFFICES ASSUME IInv, [Next]_vars, NEW r \in Requests
               PROVE  /\ st'[r].audio <= Len(Parts(r)')
                      /\ st'[r].transcription <= Len(Parts(r)')
                      /\ st'[r].recordedAt <= Len(Parts(r)')
                      /\ st'[r].audioComplete => st'[r].audio # 0
                      /\ st[r].audio # 0 => st'[r].audio = st[r].audio
    BY DEF FieldsRead
  <1>1. TypeOK /\ FieldsRead
    BY DEF IInv
  <1>2. Parts(r)' = Parts(r)
    BY SentFrame DEF Parts, In
  <1>3. CASE st'[r] = st[r]
    BY <1>1, <1>2, <1>3 DEF FieldsRead
  <1>4. CASE st'[r] # st[r]
    <2>1. ReadPart(r)
      BY <1>1, <1>4, StFrame DEF ReadPart, TypeOK
    <2>2. /\ next[r] \in Nat \ {0} /\ next[r] <= Len(Parts(r))
          /\ st'[r] = Consumed(st[r], Parts(r)[next[r]], next[r])
      BY <1>1, <2>1 DEF ReadPart, TypeOK
    <2>3. st[r] \in PartState
      BY <1>1 DEF TypeOK
    <2> QED
      BY <1>1, <1>2, <2>2, <2>3 DEF FieldsRead, Consumed, PartState
  <1> QED
    BY <1>3, <1>4

(* The note a handler places is its own and has its recording's id.        *)
LEMMA NoteStep == IInv /\ [Next]_vars => NoteBuilt'
  <1> SUFFICES ASSUME IInv, [Next]_vars, NEW r \in Requests,
                      pc'[r] \in PlacingAudio \cup PlacingNote
               PROVE  /\ pc'[r] \in PlacingAudio => note'[r].id # NoId
                      /\ note'[r].by = r
                      /\ note'[r].synthesised <=> note'[r].id \in SynthesisedId
                      /\ note'[r].id # NoId => st'[r].audio # 0
                      /\ note'[r].id \in RingId => Parts(r)'[st'[r].audio].id = note'[r].id
    BY DEF NoteBuilt
  <1>1. TypeOK /\ FieldsRead /\ NoteBuilt
    BY DEF IInv
  <1>2. Parts(r)' = Parts(r)
    BY SentFrame DEF Parts, In
  <1>3. CASE BuildNote(r)
    <2>1. PICK now \in Clock : \E id \in IdChoices(r, NoteTime(r, now)) :
              note' = [note EXCEPT ![r] = NewNote(r, now, id)]
      BY <1>3 DEF BuildNote, NoteTime
    <2>2. PICK id \in IdChoices(r, NoteTime(r, now)) : note'[r] = NewNote(r, now, id)
      BY <1>1, <2>1 DEF TypeOK
    <2>3. st' = st /\ (pc'[r] \in PlacingAudio => st[r].audioComplete)
      BY <1>1, <1>3 DEF BuildNote, Goto, TypeOK, PlacingAudio
    <2> QED
      BY <1>1, <1>2, <2>2, <2>3, NewNoteType
  <1>4. CASE ~BuildNote(r)
    <2>1. /\ pc[r] \in PlacingAudio \cup PlacingNote
          /\ pc'[r] \in PlacingAudio => pc[r] \in PlacingAudio
      BY <1>1, <1>4, PcFrame DEF PcStep, PlacingAudio, LinkAudio, KeepAudio
    <2>2. /\ note[r].by = r
          /\ note[r].synthesised <=> note[r].id \in SynthesisedId
          /\ note[r].id # NoId => st[r].audio # 0
          /\ note[r].id \in RingId => Parts(r)[st[r].audio].id = note[r].id
          /\ pc[r] \in PlacingAudio => note[r].id # NoId
      BY <1>1, <2>1 DEF NoteBuilt
    <2>3. st[r].audio # 0 => st'[r].audio = st[r].audio
      BY FieldsStep
    <2>4. CASE note'[r] = note[r]
      BY <1>2, <2>1, <2>2, <2>3, <2>4, IdAssumption DEF Id
    <2>5. CASE note'[r] # note[r]
      <3>1. RedrawId(r)
        BY <1>1, <1>4, <2>5, NoteFrame DEF BuildNote, RedrawId, TypeOK
      <3>2. PICK id \in SynthesiseID(note[r].at) : note'[r] = [note[r] EXCEPT !.id = id]
        BY <1>1, <3>1 DEF RedrawId, TypeOK
      <3>3. note[r] \in Note
        BY <1>1 DEF TypeOK
      <3>4. id \in SynthesisedId /\ id # NoId /\ id \notin RingId
        BY <3>3, SynthesisedType DEF Note
      <3>5. /\ note'[r].by = note[r].by
            /\ note'[r].synthesised = note[r].synthesised
            /\ note'[r].id = id
        BY <3>2, <3>3 DEF Note
      <3>6. note[r].synthesised /\ note[r].id # NoId
        BY <2>2, <3>1 DEF RedrawId, PlacingAudio
      <3> QED
        BY <2>2, <2>3, <3>4, <3>5, <3>6
    <2> QED
      BY <2>4, <2>5
  <1> QED
    BY <1>3, <1>4

(* A note that has its recording keeps it: no attachment goes or changes,  *)
(* and what its request read as audio stays what it read.                  *)
LEMMA RecordingStays ==
    IInv /\ [Next]_vars => \A n \in Note : HasOwnRecording(n) => HasOwnRecording(n)'
  <1> SUFFICES ASSUME IInv, [Next]_vars, NEW n \in Note, HasOwnRecording(n), n.id # NoId
               PROVE  /\ n.id \in DOMAIN attachments'
                      /\ n.synthesised => attachments'[n.id] = n.by
                      /\ ~n.synthesised =>
                            Parts(attachments'[n.id])[st'[attachments'[n.id]].audio].id = n.id
    BY SentFrame DEF HasOwnRecording, Parts, In
  <1> DEFINE a == attachments[n.id]
  <1>1. /\ n.id \in DOMAIN attachments
        /\ n.synthesised => a = n.by
        /\ ~n.synthesised => Parts(a)[st[a].audio].id = n.id
    BY DEF HasOwnRecording
  <1>2. n.id \in DOMAIN attachments' /\ attachments'[n.id] = a
    BY <1>1, CreateOnlyNext DEF CreateOnlyStep
  <1>3. a \in Requests /\ st[a].audio # 0
    BY <1>1 DEF IInv, TypeOK, AttachedRead
  <1>4. st'[a].audio = st[a].audio
    BY <1>3, FieldsStep
  <1> QED
    BY <1>1, <1>2, <1>4

LEMMA AttachedStep == IInv /\ [Next]_vars => AttachedRead'
  <1> SUFFICES ASSUME IInv, [Next]_vars, NEW id \in DOMAIN attachments'
               PROVE  /\ st'[attachments'[id]].audio # 0
                      /\ id \in RingId =>
                            Parts(attachments'[id])[st'[attachments'[id]].audio].id = id
    BY SentFrame DEF AttachedRead, Parts, In
  <1>1. TypeOK /\ NoteBuilt /\ AttachedRead
    BY DEF IInv
  <1>2. PICK a \in Requests :
            /\ attachments'[id] = a
            /\ st[a].audio # 0
            /\ id \in RingId => Parts(a)[st[a].audio].id = id
    <2>1. CASE id \in DOMAIN attachments
      BY <1>1, <2>1, CreateOnlyNext DEF CreateOnlyStep, AttachedRead, TypeOK
    <2>2. CASE id \notin DOMAIN attachments
      <3>1. PICK r \in Requests : LinkAudio(r) \/ AudioReplyLost(r)
        BY <2>2, VaultFrame DEF LinkNote, NoteReplyLost, OwnerRemoves
      <3>2. id = note[r].id /\ attachments'[id] = r
        BY <2>2, <3>1 DEF LinkAudio, AudioReplyLost, Link
      <3>3. pc[r] \in PlacingAudio
        BY <3>1 DEF LinkAudio, AudioReplyLost, PlacingAudio
      <3> QED
        BY <1>1, <3>2, <3>3 DEF NoteBuilt
    <2> QED
      BY <2>1, <2>2
  <1>3. st'[a].audio = st[a].audio
    BY <1>2, FieldsStep
  <1> QED
    BY <1>2, <1>3

(* A handler gets to its note with its audio linked, or found in place, or *)
(* with no audio to place.                                                 *)
LEMMA PlacedStep == IInv /\ [Next]_vars => RecordingPlaced'
  <1> SUFFICES ASSUME IInv, [Next]_vars, NEW r \in Requests, pc'[r] \in PlacingNote
               PROVE  HasOwnRecording(note[r])'
    BY DEF RecordingPlaced
  <1>1. TypeOK /\ FieldsRead /\ NoteBuilt /\ AttachedRead /\ RecordingPlaced
    BY DEF IInv
  <1>2. note[r] \in Note
    BY <1>1 DEF TypeOK
  <1>3. Parts(r)' = Parts(r) /\ (st[r].audio # 0 => st'[r].audio = st[r].audio)
    BY FieldsStep, SentFrame DEF Parts, In
  <1>4. CASE pc[r] \in PlacingNote
    <2>1. note'[r] = note[r]
      BY <1>1, <1>4, NoteFrame DEF BuildNote, RedrawId, PlacingNote, TypeOK
    <2>2. HasOwnRecording(note[r])
      BY <1>1, <1>4 DEF RecordingPlaced
    <2>3. \A n \in Note : n = note[r] => HasOwnRecording(n)'
      BY <2>2, RecordingStays
    <2> QED
      BY <1>2, <2>1, <2>3 DEF HasOwnRecording
  <1>5. CASE LinkAudio(r)
    <2>1. note'[r] = note[r] /\ pc[r] \in PlacingAudio
      BY <1>5 DEF LinkAudio, PlacingAudio
    <2>2. note[r].id \in DOMAIN attachments' /\ attachments'[note[r].id] = r
      BY <1>5 DEF LinkAudio, Link
    <2>3. note[r].id # NoId /\ note[r].id \in Id \cup SynthesisedId
      BY <1>1, <1>2, <2>1 DEF NoteBuilt, Note
    <2>4. ~note[r].synthesised => Parts(r)[st[r].audio].id = note[r].id
      BY <1>1, <2>1, <2>3 DEF NoteBuilt, Id
    <2> QED
      BY <1>1, <1>3, <2>1, <2>2, <2>3, <2>4 DEF HasOwnRecording, NoteBuilt
  <1>6. CASE KeepAudio(r)
    <2>1. note'[r] = note[r] /\ pc[r] \in PlacingAudio /\ attachments' = attachments
      BY <1>6 DEF KeepAudio, PlacingAudio, vault
    <2>2. note[r].id \in DOMAIN attachments /\ ~note[r].synthesised
      BY <1>6 DEF KeepAudio, Exists
    <2>3. note[r].id \in RingId
      BY <1>1, <1>2, <2>1, <2>2 DEF NoteBuilt, Note, Id
    <2>4. HasOwnRecording(note[r])
      BY <1>1, <2>2, <2>3 DEF AttachedRead, HasOwnRecording
    <2>5. \A n \in Note : n = note[r] => HasOwnRecording(n)'
      BY <2>4, RecordingStays
    <2> QED
      BY <1>2, <2>1, <2>5 DEF HasOwnRecording
  <1>7. CASE BuildNote(r)
    <2>1. PICK now \in Clock : \E id \in IdChoices(r, NoteTime(r, now)) :
              note' = [note EXCEPT ![r] = NewNote(r, now, id)]
      BY <1>7 DEF BuildNote, NoteTime
    <2>2. PICK id \in IdChoices(r, NoteTime(r, now)) : note'[r] = NewNote(r, now, id)
      BY <1>1, <2>1 DEF TypeOK
    <2>3. ~st[r].audioComplete
      BY <1>1, <1>7 DEF BuildNote, Goto, TypeOK, PlacingNote
    <2>4. note'[r].id = NoId
      BY <2>2, <2>3 DEF IdChoices, NewNote
    <2> QED
      BY <2>4 DEF HasOwnRecording
  <1> QED
    BY <1>1, <1>4, <1>5, <1>6, <1>7, PcFrame DEF PcStep

(* Every note of the vault was placed, or the owner's own.                 *)
LEMMA EmbedStep == IInv /\ [Next]_vars => EmbedIsTheRecording'
  <1> SUFFICES ASSUME IInv, [Next]_vars, NEW n \in Written' PROVE HasOwnRecording(n)'
    BY DEF EmbedIsTheRecording
  <1>1. TypeOK /\ RecordingPlaced /\ EmbedIsTheRecording
    BY DEF IInv
  <1>2. \A m \in Written : HasOwnRecording(m)'
    BY <1>1, RecordingStays DEF TypeOK, EmbedIsTheRecording
  <1>3. n \in Written \/ \E r \in Requests : pc[r] \in PlacingNote /\ n = note[r]
    <2>1. ASSUME NEW r \in Requests, LinkNote(r) \/ NoteReplyLost(r)
          PROVE  n \in Written \/ (pc[r] \in PlacingNote /\ n = note[r])
      BY <2>1 DEF LinkNote, NoteReplyLost, Link, Written, PlacingNote
    <2>2. ASSUME NEW r \in Requests, LinkAudio(r) \/ AudioReplyLost(r)
          PROVE  n \in Written
      BY <2>2 DEF LinkAudio, AudioReplyLost, Written
    <2>3. ASSUME NEW f \in DOMAIN notes, OwnerRemoves(f) PROVE n \in Written
      BY <2>3 DEF OwnerRemoves, Written
    <2> QED
      BY <2>1, <2>2, <2>3, VaultFrame DEF Written
  <1>4. ASSUME NEW r \in Requests, pc[r] \in PlacingNote, n = note[r]
        PROVE  HasOwnRecording(n)'
    <2>1. HasOwnRecording(n) /\ n \in Note
      BY <1>1, <1>4 DEF RecordingPlaced, TypeOK
    <2> QED
      BY <2>1, RecordingStays
  <1> QED
    BY <1>2, <1>3, <1>4

LEMMA IInvStep == IInv /\ [Next]_vars => IInv'
  BY TypeStep, FieldsStep, NoteStep, AttachedStep, PlacedStep, EmbedStep DEF IInv

(* Types are kept, whatever the deliveries, the replicas and the bounds.   *)
THEOREM TypeCorrect == Spec => []TypeOK
  <1>1. IInv => TypeOK
    BY DEF IInv
  <1> QED
    BY <1>1, InitIInv, IInvStep, PTL DEF Spec

(* No note ever embeds a recording that is missing or another's, in any    *)
(* interleaving of any number of requests, crashes and removals.           *)
THEOREM EmbedHolds == Spec => []EmbedIsTheRecording
  <1>1. IInv => EmbedIsTheRecording
    BY DEF IInv
  <1> QED
    BY <1>1, InitIInv, IInvStep, PTL DEF Spec
----
(* What the client hears is what happened: the second inductive invariant. *)

Reading == {"new", "body", "verify"}
BeforeNote == Reading \cup PlacingAudio \cup {"writeNote"}
Working == Reading \cup PlacingAudio \cup PlacingNote

(* Until it responds a handler has no status and has poked nobody; its     *)
(* note's temp file is there while a name is being looked for, and each    *)
(* removal has been tried when it is done.                                 *)
LocalInv ==
    \A r \in Requests :
        /\ pc[r] \in Working => status[r] = 0 /\ r \notin poked
        /\ tmpNote[r] = "synced" => pc[r] \in {"linkNote", "compare", "placed", "crashed"}
        /\ pc[r] = "done" => tmpAudio[r] \in {"none", "left"}

(* How a step can change where r is, and what has been answered.           *)
Progress(r) ==
    /\ pc'[r] = "placed" => pc[r] = "placed" \/ LinkNote(r) \/ KeepNote(r)
    /\ status'[r] = 200 => status[r] = 200 \/ pc[r] = "placed"
    /\ r \in poked' => r \in poked \/ pc[r] = "placed"
    /\ status'[r] \in {401, 413} => status'[r] = status[r] \/ pc[r] \in Reading
    /\ status'[r] = 500 =>
          status[r] = 500 \/ pc[r] \in BeforeNote \cup {"linkNote", "compare"}
    /\ pc'[r] \in Reading => pc[r] \in Reading
    /\ pc'[r] \in BeforeNote => pc[r] \in BeforeNote
    /\ pc'[r] \in {"linkNote", "compare"} =>
          \/ pc'[r] = pc[r] /\ try'[r] = try[r]
          \/ WriteNote(r) \/ NameTaken(r) \/ NoteReplyLost(r) \/ NextName(r)

LEMMA LocalStep ==
    TypeOK /\ LocalInv /\ [Next]_vars => LocalInv' /\ \A q \in Requests : Progress(q)
  <1> SUFFICES ASSUME TypeOK, LocalInv, [Next]_vars, NEW q \in Requests
               PROVE  /\ pc'[q] \in Working => status'[q] = 0 /\ q \notin poked'
                      /\ tmpNote'[q] = "synced" =>
                            pc'[q] \in {"linkNote", "compare", "placed", "crashed"}
                      /\ pc'[q] = "done" => tmpAudio'[q] \in {"none", "left"}
                      /\ Progress(q)
    BY DEF LocalInv
  <1> USE DEF LocalInv, Working, Reading, BeforeNote, PlacingAudio, PlacingNote,
              TypeOK, Progress, Goto, Respond
  <1> DEFINE Goal == /\ pc'[q] \in Working => status'[q] = 0 /\ q \notin poked'
                     /\ tmpNote'[q] = "synced" =>
                           pc'[q] \in {"linkNote", "compare", "placed", "crashed"}
                     /\ pc'[q] = "done" => tmpAudio'[q] \in {"none", "left"}
                     /\ Progress(q)
  <1>1. ASSUME NEW r \in Requests, Begin(r) PROVE Goal
    BY <1>1 DEF Begin
  <1>2. ASSUME NEW r \in Requests, ReadPart(r) PROVE Goal
    BY <1>2 DEF ReadPart, BodyError
  <1>3. ASSUME NEW r \in Requests, EndOfBody(r) PROVE Goal
    BY <1>3 DEF EndOfBody, BodyError
  <1>4. ASSUME NEW r \in Requests, Reject(r) PROVE Goal
    BY <1>4 DEF Reject
  <1>5. ASSUME NEW r \in Requests, BuildNote(r) PROVE Goal
    BY <1>5 DEF BuildNote
  <1>6. ASSUME NEW r \in Requests, SyncAudio(r) PROVE Goal
    BY <1>6 DEF SyncAudio
  <1>7. ASSUME NEW r \in Requests, LinkAudio(r) PROVE Goal
    BY <1>7 DEF LinkAudio
  <1>8. ASSUME NEW r \in Requests, AudioReplyLost(r) PROVE Goal
    BY <1>8 DEF AudioReplyLost, handler
  <1>9. ASSUME NEW r \in Requests, KeepAudio(r) PROVE Goal
    BY <1>9 DEF KeepAudio
  <1>10. ASSUME NEW r \in Requests, RedrawId(r) PROVE Goal
    BY <1>10 DEF RedrawId
  <1>11. ASSUME NEW r \in Requests, WriteNote(r) PROVE Goal
    BY <1>11 DEF WriteNote
  <1>12. ASSUME NEW r \in Requests, LinkNote(r) PROVE Goal
    <2>1. CASE q # r
      BY <1>12, <2>1 DEF LinkNote
    <2>2. CASE q = r
      <3>1. /\ pc[q] = "linkNote" /\ pc'[q] = "placed"
            /\ UNCHANGED <<status, poked, tmpAudio, tmpNote>>
        BY <1>12, <2>2 DEF LinkNote
      <3> QED
        BY <1>12, <2>2, <3>1
    <2> QED
      BY <2>1, <2>2
  <1>13. ASSUME NEW r \in Requests, NoteReplyLost(r) PROVE Goal
    BY <1>13 DEF NoteReplyLost
  <1>14. ASSUME NEW r \in Requests, NameTaken(r) PROVE Goal
    BY <1>14 DEF NameTaken
  <1>15. ASSUME NEW r \in Requests, KeepNote(r) PROVE Goal
    <2>1. CASE q # r
      BY <1>15, <2>1 DEF KeepNote
    <2>2. CASE q = r
      <3>1. /\ pc[q] = "compare" /\ pc'[q] = "placed"
            /\ UNCHANGED <<status, poked, tmpAudio, tmpNote>>
        BY <1>15, <2>2 DEF KeepNote
      <3> QED
        BY <1>15, <2>2, <3>1
    <2> QED
      BY <2>1, <2>2
  <1>16. ASSUME NEW r \in Requests, NextName(r) PROVE Goal
    BY <1>16 DEF NextName, Removed
  <1>17. ASSUME NEW r \in Requests, Answer(r) PROVE Goal
    BY <1>17 DEF Answer, Removed
  <1>18. ASSUME NEW r \in Requests, Cleanup(r) PROVE Goal
    BY <1>18 DEF Cleanup, AudioTempRemoved, Removed
  <1>19. ASSUME NEW r \in Requests, VaultFails(r) PROVE Goal
    BY <1>19 DEF VaultFails, FailingSteps, Removed
  <1>20. ASSUME NEW p \in Replicas, Crash(p) PROVE Goal
    BY <1>20 DEF Crash
  <1>21. ASSUME NEW f \in DOMAIN notes, OwnerRemoves(f) PROVE Goal
    BY <1>21 DEF OwnerRemoves, handler
  <1>22. CASE UNCHANGED vars
    BY <1>22 DEF vars, handler
  <1> QED
    BY <1>1, <1>2, <1>3, <1>4, <1>5, <1>6, <1>7, <1>8, <1>9, <1>10, <1>11,
       <1>12, <1>13, <1>14, <1>15, <1>16, <1>17, <1>18, <1>19, <1>20, <1>21,
       <1>22 DEF Next, Handle, Terminating
(* Whoever is answered, or about to be, has a note; a note's request is    *)
(* past writing it, and was not refused; a request that may be told that   *)
(* its own link failed looks at the note it made next.                     *)
Answered(r) == pc[r] = "placed" \/ status[r] = 200 \/ r \in poked

KeptInv ==
    \A r \in Requests : Answered(r) =>
        \E n \in Written : n.by = r \/ (n.id # NoId /\ n.id = note[r].id)

WroteInv ==
    \A n \in Written : \A r \in Requests : n.by = r =>
        /\ n.id = note[r].id
        /\ pc[r] \notin BeforeNote
        /\ status[r] \notin {401, 413}
        /\ r \notin LostReplies => pc[r] \notin {"linkNote", "compare"} /\ status[r] # 500

AttachedInv ==
    \A id \in DOMAIN attachments :
        /\ pc[attachments[id]] \notin Reading
        /\ status[attachments[id]] \notin {401, 413}

OwnName ==
    \A f \in DOMAIN notes : \A r \in Requests :
        notes[f].by = r /\ note[r].id # NoId /\ pc[r] \in {"linkNote", "compare"} =>
            \/ pc[r] = "compare" /\ try[r] = f
            \/ f \in unread

SInv == /\ IInv
        /\ LocalInv
        /\ KeptInv
        /\ WroteInv
        /\ AttachedInv
        /\ OwnName
        /\ OneNoteEach

LEMMA InitSInv == Init => SInv
  <1> SUFFICES ASSUME Init PROVE SInv
    OBVIOUS
  <1>1. IInv
    BY InitIInv
  <1>2. LocalInv /\ KeptInv /\ AttachedInv
    BY DEF Init, LocalInv, KeptInv, AttachedInv, Answered, Working, Reading,
           PlacingAudio, PlacingNote
  <1>3. \A n \in Written : n.by = Owner
    BY DEF Init, Written, OwnerNote
  <1>4. WroteInv
    BY <1>3, VaultAssumption DEF WroteInv
  <1>5. OwnName /\ OneNoteEach
    BY <1>3, VaultAssumption DEF OwnName, OneNoteEach, Written
  <1> QED
    BY <1>1, <1>2, <1>4, <1>5 DEF SInv

(* Notes only come, by a link, and go only to the trash.                   *)
LEMMA WrittenStep ==
    ASSUME IInv, [Next]_vars
    PROVE  /\ Written \subseteq Written'
           /\ \A f \in DOMAIN notes' :
                 \/ f \in DOMAIN notes /\ notes'[f] = notes[f]
                 \/ \E r \in Requests : /\ LinkNote(r) \/ NoteReplyLost(r)
                                        /\ f = try[r] /\ f \notin DOMAIN notes
                                        /\ notes'[f] = note[r] /\ note[r].by = r
           /\ \A n \in Written' :
                 \/ n \in Written
                 \/ \E r \in Requests : /\ LinkNote(r) \/ NoteReplyLost(r)
                                        /\ n = note[r] /\ note[r].by = r
  <1>1. ASSUME NEW r \in Requests, LinkNote(r) \/ NoteReplyLost(r)
        PROVE  /\ try[r] \notin DOMAIN notes
               /\ DOMAIN notes' = DOMAIN notes \cup {try[r]}
               /\ notes'[try[r]] = note[r]
               /\ \A f \in DOMAIN notes : notes'[f] = notes[f]
               /\ trash' = trash
               /\ note[r].by = r
    <2>1. pc[r] = "linkNote" /\ trash' = trash /\ ~Exists(notes, try[r])
          /\ notes' = Link(notes, try[r], note[r])
      BY <1>1 DEF LinkNote, NoteReplyLost
    <2>2. note[r].by = r
      BY <2>1 DEF IInv, NoteBuilt, PlacingNote
    <2> QED
      BY <2>1, <2>2 DEF Exists, Link
  <1>2. ASSUME NEW r \in Requests, LinkAudio(r) \/ AudioReplyLost(r)
        PROVE  notes' = notes /\ trash' = trash
    BY <1>2 DEF LinkAudio, AudioReplyLost
  <1>3. ASSUME NEW f \in DOMAIN notes, OwnerRemoves(f)
        PROVE  /\ DOMAIN notes' = DOMAIN notes \ {f}
               /\ \A g \in DOMAIN notes' : notes'[g] = notes[g]
               /\ trash' = trash \cup {notes[f]}
    BY <1>3 DEF OwnerRemoves
  <1>4. Written \subseteq Written'
    <2>1. ASSUME NEW f \in DOMAIN notes PROVE notes[f] \in Written'
      BY CreateOnlyNext DEF CreateOnlyStep, Written
    <2>2. trash \subseteq trash'
      BY <1>1, <1>2, <1>3, VaultFrame
    <2> QED
      BY <2>1, <2>2 DEF Written
  <1>5. \A f \in DOMAIN notes' :
           \/ f \in DOMAIN notes /\ notes'[f] = notes[f]
           \/ \E r \in Requests : /\ LinkNote(r) \/ NoteReplyLost(r)
                                  /\ f = try[r] /\ f \notin DOMAIN notes
                                  /\ notes'[f] = note[r] /\ note[r].by = r
    <2>1. CASE notes' = notes
      BY <2>1
    <2>2. ASSUME NEW f \in DOMAIN notes', NEW r \in Requests,
                 LinkNote(r) \/ NoteReplyLost(r)
          PROVE  \/ f \in DOMAIN notes /\ notes'[f] = notes[f]
                 \/ f = try[r] /\ f \notin DOMAIN notes /\ notes'[f] = note[r] /\ note[r].by = r
      <3>1. /\ try[r] \notin DOMAIN notes
            /\ DOMAIN notes' = DOMAIN notes \cup {try[r]}
            /\ notes'[try[r]] = note[r]
            /\ \A h \in DOMAIN notes : notes'[h] = notes[h]
            /\ note[r].by = r
        BY <1>1, <2>2
      <3>2. CASE f = try[r]
        BY <3>1, <3>2
      <3>3. CASE f # try[r]
        BY <3>1, <3>3
      <3> QED
        BY <3>2, <3>3
    <2>3. ASSUME NEW f \in DOMAIN notes', NEW g \in DOMAIN notes, OwnerRemoves(g)
          PROVE  f \in DOMAIN notes /\ notes'[f] = notes[f]
      BY <1>3, <2>3
    <2> QED
      BY <1>2, <2>1, <2>2, <2>3, VaultFrame
  <1>6. ASSUME NEW n \in Written'
        PROVE  \/ n \in Written
               \/ \E r \in Requests : /\ LinkNote(r) \/ NoteReplyLost(r)
                                      /\ n = note[r] /\ note[r].by = r
    <2>1. CASE n \in trash'
      <3>1. ASSUME NEW g \in DOMAIN notes, OwnerRemoves(g) PROVE n \in Written
        BY <1>3, <2>1, <3>1 DEF Written
      <3>2. CASE trash' = trash
        BY <2>1, <3>2 DEF Written
      <3> QED
        BY <1>1, <1>2, <3>1, <3>2, VaultFrame
    <2>2. CASE n \notin trash'
      BY <1>5, <2>2 DEF Written
    <2> QED
      BY <2>1, <2>2
  <1> QED
    BY <1>4, <1>5, <1>6

(* The note of a request past building it and drawing its id is settled.   *)
LEMMA NoteSettled ==
    ASSUME TypeOK, [Next]_vars, NEW r \in Requests, pc[r] \notin {"verify", "linkAudio"}
    PROVE  note'[r] = note[r]
  BY NoteFrame DEF BuildNote, RedrawId, TypeOK

LEMMA KeptStep == SInv /\ [Next]_vars => KeptInv'
  <1> SUFFICES ASSUME SInv, [Next]_vars, NEW r \in Requests, Answered(r)'
               PROVE  \E n \in Written' : n.by = r \/ (n.id # NoId /\ n.id = note'[r].id)
    BY DEF KeptInv
  <1>1. IInv /\ TypeOK /\ LocalInv /\ KeptInv
    BY DEF SInv, IInv
  <1>2. CASE Answered(r)
    <2>1. pc[r] \notin {"verify", "linkAudio"}
      BY <1>1, <1>2 DEF LocalInv, Answered, Working, Reading, PlacingAudio
    <2>2. note'[r] = note[r]
      BY <1>1, <2>1, NoteSettled
    <2> QED
      BY <1>1, <1>2, <2>2, WrittenStep DEF KeptInv
  <1>3. CASE ~Answered(r)
    <2>1. LinkNote(r) \/ KeepNote(r)
      BY <1>1, <1>3, LocalStep DEF Progress, Answered
    <2>2. note'[r] = note[r]
      BY <2>1 DEF LinkNote, KeepNote
    <2>3. CASE LinkNote(r)
      <3>1. notes' = Link(notes, try[r], note[r]) /\ pc[r] \in PlacingNote
        BY <2>3 DEF LinkNote, PlacingNote
      <3>2. note[r] \in Written'
        BY <3>1 DEF Link, Written
      <3> QED
        BY <1>1, <3>1, <3>2 DEF IInv, NoteBuilt
    <2>4. CASE KeepNote(r)
      <3>1. note[r].id # NoId /\ try[r] \in DOMAIN notes /\ notes[try[r]].id = note[r].id
        BY <2>4 DEF KeepNote, SameRecording, ExistingIds
      <3>2. notes[try[r]] \in Written
        BY <3>1 DEF Written
      <3> QED
        BY <1>1, <2>2, <3>1, <3>2, WrittenStep
    <2> QED
      BY <2>1, <2>3, <2>4
  <1> QED
    BY <1>2, <1>3

LEMMA WroteStep == SInv /\ [Next]_vars => WroteInv'
  <1> SUFFICES ASSUME SInv, [Next]_vars, NEW n \in Written', NEW r \in Requests, n.by = r
               PROVE  /\ n.id = note'[r].id
                      /\ pc'[r] \notin BeforeNote
                      /\ status'[r] \notin {401, 413}
                      /\ r \notin LostReplies =>
                            pc'[r] \notin {"linkNote", "compare"} /\ status'[r] # 500
    BY DEF WroteInv
  <1>1. IInv /\ TypeOK /\ LocalInv /\ WroteInv
    BY DEF SInv, IInv
  <1>2. Progress(r)
    BY <1>1, LocalStep
  <1>3. CASE n \in Written
    <2>1. /\ n.id = note[r].id
          /\ pc[r] \notin BeforeNote
          /\ status[r] \notin {401, 413}
          /\ r \notin LostReplies => pc[r] \notin {"linkNote", "compare"} /\ status[r] # 500
      BY <1>1, <1>3 DEF WroteInv
    <2>2. note'[r] = note[r]
      BY <1>1, <2>1, NoteSettled DEF BeforeNote, Reading, PlacingAudio
    <2>3. pc'[r] \notin BeforeNote /\ status'[r] \notin {401, 413}
      BY <1>2, <2>1 DEF Progress, BeforeNote
    <2>4. r \notin LostReplies => pc'[r] \notin {"linkNote", "compare"} /\ status'[r] # 500
      BY <1>2, <2>1 DEF Progress, BeforeNote, WriteNote, NameTaken, NoteReplyLost, NextName
    <2> QED
      BY <2>1, <2>2, <2>3, <2>4
  <1>4. CASE LinkNote(r) /\ n = note[r]
    <2>1. pc[r] = "linkNote" /\ pc'[r] = "placed" /\ UNCHANGED <<status, note>>
      BY <1>1, <1>4 DEF LinkNote, Goto, TypeOK
    <2>2. status[r] = 0
      BY <1>1, <2>1 DEF LocalInv, Working, PlacingNote
    <2> QED
      BY <1>4, <2>1, <2>2 DEF BeforeNote, Reading, PlacingAudio
  <1>5. CASE NoteReplyLost(r) /\ n = note[r]
    <2>1. pc[r] = "linkNote" /\ pc'[r] = "compare" /\ r \in LostReplies
          /\ UNCHANGED <<status, note>>
      BY <1>1, <1>5 DEF NoteReplyLost, Goto, TypeOK
    <2>2. status[r] = 0
      BY <1>1, <2>1 DEF LocalInv, Working, PlacingNote
    <2> QED
      BY <1>5, <2>1, <2>2 DEF BeforeNote, Reading, PlacingAudio
  <1> QED
    BY <1>1, <1>3, <1>4, <1>5, WrittenStep

LEMMA AttachedInvStep == SInv /\ [Next]_vars => AttachedInv'
  <1> SUFFICES ASSUME SInv, [Next]_vars, NEW id \in DOMAIN attachments'
               PROVE  /\ pc'[attachments'[id]] \notin Reading
                      /\ status'[attachments'[id]] \notin {401, 413}
    BY DEF AttachedInv
  <1>1. IInv /\ TypeOK /\ LocalInv /\ AttachedInv
    BY DEF SInv, IInv
  <1>2. CASE id \in DOMAIN attachments
    <2>1. attachments'[id] = attachments[id] /\ attachments[id] \in Requests
      BY <1>1, <1>2, CreateOnlyNext DEF CreateOnlyStep, TypeOK
    <2>2. Progress(attachments[id])
      BY <1>1, <2>1, LocalStep
    <2> QED
      BY <1>1, <1>2, <2>1, <2>2 DEF AttachedInv, Progress
  <1>3. CASE id \notin DOMAIN attachments
    <2>1. PICK r \in Requests : LinkAudio(r) \/ AudioReplyLost(r)
      BY <1>3, VaultFrame DEF LinkNote, NoteReplyLost, OwnerRemoves
    <2>2. attachments'[id] = r /\ pc[r] = "linkAudio" /\ status' = status
      BY <1>3, <2>1 DEF LinkAudio, AudioReplyLost, Link, handler
    <2>3. pc'[r] \in {"linkAudio", "writeNote"}
      BY <1>1, <2>1, <2>2 DEF LinkAudio, AudioReplyLost, Goto, handler, TypeOK
    <2>4. status[r] = 0
      BY <1>1, <2>2 DEF LocalInv, Working, PlacingAudio
    <2> QED
      BY <2>2, <2>3, <2>4 DEF Reading
  <1> QED
    BY <1>2, <1>3

LEMMA OwnNameStep == SInv /\ [Next]_vars => OwnName'
  <1> SUFFICES ASSUME SInv, [Next]_vars, NEW f \in DOMAIN notes', NEW r \in Requests,
                      notes'[f].by = r, note'[r].id # NoId,
                      pc'[r] \in {"linkNote", "compare"}
               PROVE  (pc'[r] = "compare" /\ try'[r] = f) \/ f \in unread'
    BY DEF OwnName
  <1>1. IInv /\ TypeOK /\ LocalInv /\ WroteInv /\ OwnName
    BY DEF SInv, IInv
  <1>2. Progress(r)
    BY <1>1, LocalStep
  <1>3. CASE f \in DOMAIN notes /\ notes'[f] = notes[f]
    <2>1. pc[r] \notin BeforeNote /\ notes[f].id = note[r].id
      BY <1>1, <1>3 DEF WroteInv, Written
    <2>2. note'[r] = note[r]
      BY <1>1, <2>1, NoteSettled DEF BeforeNote, Reading, PlacingAudio
    <2>3. CASE f \in unread
      BY <2>3, UnreadStays
    <2>4. CASE f \notin unread
      <3>1. pc[r] \in {"linkNote", "compare"} => pc[r] = "compare" /\ try[r] = f
        BY <1>1, <1>3, <2>2, <2>4 DEF OwnName
      <3>2. ~WriteNote(r) /\ ~NameTaken(r) /\ ~NoteReplyLost(r)
        BY <2>1, <3>1 DEF WriteNote, NameTaken, NoteReplyLost, BeforeNote
      <3>3. CASE NextName(r)
        <4>1. pc[r] = "compare" /\ try[r] = f /\ IsItsOwn(r)
          BY <1>3, <2>1, <2>2, <3>1, <3>3
             DEF NextName, IsItsOwn, SameRecording, ExistingIds
        <4>2. ~LastAttempt(r)
          BY <1>1, <3>3, <4>1 DEF NextName, Respond, Goto, TypeOK
        <4> QED
          BY <3>3, <4>1, <4>2 DEF NextName
      <3> QED
        BY <1>2, <3>1, <3>2, <3>3 DEF Progress
    <2> QED
      BY <2>3, <2>4
  <1>4. CASE f = try[r] /\ (LinkNote(r) \/ NoteReplyLost(r))
    BY <1>1, <1>4 DEF LinkNote, NoteReplyLost, Goto, TypeOK
  <1> QED
    BY <1>1, <1>3, <1>4, WrittenStep

LEMMA OneStep == SInv /\ [Next]_vars => OneNoteEach'
  <1> SUFFICES ASSUME SInv, [Next]_vars, NEW f \in DOMAIN notes', NEW g \in DOMAIN notes',
                      notes'[f].by = notes'[g].by, notes'[f].by # Owner,
                      notes'[f].by \in LostReplies =>
                         notes'[f].id # NoId /\ f \notin unread' /\ g \notin unread'
               PROVE  f = g
    BY DEF OneNoteEach
  <1>1. IInv /\ TypeOK /\ LocalInv /\ WroteInv /\ OwnName /\ OneNoteEach
    BY DEF SInv, IInv
  <1> DEFINE Old(h) == h \in DOMAIN notes /\ notes'[h] = notes[h]
             New(h, r) == /\ LinkNote(r) \/ NoteReplyLost(r)
                          /\ h = try[r] /\ notes'[h] = note[r] /\ note[r].by = r
  <1>2. \A h \in DOMAIN notes' : Old(h) \/ \E r \in Requests : New(h, r)
    BY <1>1, WrittenStep
  <1>3. ASSUME NEW h \in DOMAIN notes', NEW k \in DOMAIN notes', NEW r \in Requests,
               New(h, r), Old(k), notes'[k].by = r,
               r \in LostReplies => note[r].id # NoId /\ k \notin unread
        PROVE  FALSE
    <2>1. pc[r] = "linkNote"
      BY <1>3 DEF LinkNote, NoteReplyLost
    <2>2. r \in LostReplies
      BY <1>1, <1>3, <2>1 DEF WroteInv, Written
    <2>3. note[r].id = NoId \/ k \in unread
      BY <1>1, <1>3, <2>1 DEF OwnName
    <2> QED
      BY <1>3, <2>2, <2>3
  <1>4. CASE Old(f) /\ Old(g)
    BY <1>1, <1>4, UnreadStays DEF OneNoteEach
  <1>5. ASSUME NEW r \in Requests, New(f, r), Old(g) PROVE f = g
    BY <1>3, <1>5, UnreadStays
  <1>6. ASSUME NEW r \in Requests, Old(f), New(g, r) PROVE f = g
    <2>1. notes[f] \in Written /\ notes[f].by = r
      BY <1>6 DEF Written
    <2>2. notes[f].id = note[r].id
      BY <1>1, <2>1 DEF WroteInv
    <2> QED
      BY <1>3, <1>6, <2>2, UnreadStays
  <1>7. ASSUME NEW r \in Requests, NEW q \in Requests, New(f, r), New(g, q) PROVE f = g
    BY <1>7
  <1> QED
    BY <1>2, <1>4, <1>5, <1>6, <1>7

LEMMA SInvStep == SInv /\ [Next]_vars => SInv'
  <1>1. SInv /\ [Next]_vars => LocalInv'
    BY LocalStep DEF SInv, IInv
  <1>2. SInv /\ [Next]_vars => IInv'
    BY IInvStep DEF SInv
  <1> QED
    BY <1>1, <1>2, KeptStep, WroteStep, AttachedInvStep, OwnNameStep, OneStep DEF SInv

(* A 200, and so a poke, is never ahead of the note it speaks of.          *)
THEOREM AnsweredHolds == Spec => []AnsweredIsKept
  <1>1. SInv => AnsweredIsKept
    BY DEF SInv, KeptInv, Answered, AnsweredIsKept
  <1> QED
    BY <1>1, InitSInv, SInvStep, PTL DEF Spec

(* A refused or failed request has left no note, for any faults.           *)
THEOREM UnansweredHolds == Spec => []UnansweredLeavesNothing
  <1>1. SInv => UnansweredLeavesNothing
    BY DEF SInv, WroteInv, AttachedInv, UnansweredLeavesNothing
  <1> QED
    BY <1>1, InitSInv, SInvStep, PTL DEF Spec

(* No handler that returned has left a temp file behind, but where the     *)
(* removal it tried has failed.                                            *)
THEOREM TempsHold == Spec => []TempsRemoved
  <1>1. SInv => TempsRemoved
    BY DEF SInv, IInv, TypeOK, LocalInv, TempsRemoved
  <1> QED
    BY <1>1, InitSInv, SInvStep, PTL DEF Spec

(* One note of a request, though its link may be reported as failed, as    *)
(* long as its note has an id and no reading of it came to nothing.        *)
THEOREM OneNoteHolds == Spec => []OneNoteEach
  <1>1. SInv => OneNoteEach
    BY DEF SInv
  <1> QED
    BY <1>1, InitSInv, SInvStep, PTL DEF Spec----
(* Ingest implements NoteStore.                                            *)
(*                                                                         *)
(* What a handler has read so far, as sets of parts; the fields of         *)
(* partState are the first of each.                                        *)
PartsRead(r) == 1 .. next[r] - 1
AudioRead(r) == {k \in PartsRead(r) : Parts(r)[k].name = "audio"}
TextRead(r) ==
    {k \in PartsRead(r) : Parts(r)[k].name = "transcription" /\ Parts(r)[k].whole}
TimeRead(r) ==
    {k \in PartsRead(r) : /\ Parts(r)[k].name = "recordedAt" /\ Parts(r)[k].whole
                          /\ Parts(r)[k].at # NoTime}
WholeRead(r) == {k \in PartsRead(r) : Parts(r)[k].whole}

IsFirst(k, K) == IF K = {} THEN k = 0 ELSE k \in K /\ \A l \in K : k <= l

FirstsRead ==
    \A r \in Requests :
        /\ next[r] <= Len(Parts(r)) + 1
        /\ IsFirst(st[r].audio, AudioRead(r))
        /\ IsFirst(st[r].transcription, TextRead(r))
        /\ IsFirst(st[r].recordedAt, TimeRead(r))
        /\ st[r].audioComplete <=> st[r].audio \in WholeRead(r)
        /\ st[r].anyComplete <=> WholeRead(r) # {}

(* How far the body is read and what has been made of its end; and who has *)
(* been let in.                                                            *)
Placing == PlacingAudio \cup PlacingNote
BodyReadOf(r) ==
    /\ pc[r] = "new" => next[r] = 1
    /\ pc[r] = "body" =>
          /\ In(r).multipart /\ ~truncated[r]
          /\ \A k \in PartsRead(r) : Parts(r)[k].whole
    /\ pc[r] \in {"verify"} \cup Placing =>
          /\ next[r] = IF In(r).multipart THEN Len(Parts(r)) + 1 ELSE 1
          /\ truncated[r] <=> ~(In(r).multipart /\ In(r).ending = "close")
          /\ ~Store!NothingWhole(In(r))
    /\ pc[r] \in {"body", "verify"} \cup Placing => Admitted(r)
    /\ pc[r] \in Placing => Verified(r) /\ FromKnownRing(r)
BodyRead == \A r \in Requests : BodyReadOf(r)

(* The note that is being placed says what was delivered, and the name it  *)
(* is tried under is one of its names.                                     *)
NoteSays == \A r \in Requests : pc[r] \in Placing => Store!IsNoteOf(note[r], r)
NameSays ==
    \A r \in Requests :
        pc[r] \in {"linkNote", "compare"} => Store!IsNameOf(try[r], note[r])

(* A second recording of one request, or a note whose id is made up.       *)
AttachedOnce ==
    \A id \in DOMAIN attachments :
        pc[attachments[id]] \in PlacingAudio => attachments[id] \in LostReplies
MadeUpMarked == \A n \in Written : n.id \in SynthesisedId => n.synthesised

PInv == /\ SInv
        /\ FirstsRead
        /\ BodyRead
        /\ NoteSays
        /\ NameSays
        /\ AttachedOnce
        /\ MadeUpMarked

(* The first of a set of parts is the one that NoteStore chooses.          *)
LEMMA FirstIs ==
    ASSUME NEW K, K \subseteq Nat, NEW k, IsFirst(k, K)
    PROVE  /\ K = {} => k = 0
           /\ K # {} => k = CHOOSE l \in K : \A m \in K : l <= m
  <1>1. CASE K = {}
    BY <1>1 DEF IsFirst
  <1>2. CASE K # {}
    <2> DEFINE c == CHOOSE l \in K : \A m \in K : l <= m
    <2>1. k \in K /\ \A m \in K : k <= m
      BY <1>2 DEF IsFirst
    <2>2. c \in K /\ \A m \in K : c <= m
      BY <2>1
    <2> HIDE DEF c
    <2>3. c <= k /\ k <= c /\ c \in Nat /\ k \in Nat
      BY <2>1, <2>2
    <2>4. k = c
      BY <2>3
    <2> QED
      BY <1>2, <2>4 DEF c
  <1> QED
    BY <1>1, <1>2

(* Once the body has been read, the fields of partState are the parts that *)
(* the whole delivery makes the winners.                                   *)
LEMMA FieldsAreFirst ==
    ASSUME TypeOK, FirstsRead, BodyRead, NEW r \in Requests, pc[r] \in {"verify"} \cup Placing
    PROVE  /\ Store!Recording(In(r)) = st[r].audio
           /\ Store!Transcription(In(r)) = st[r].transcription
           /\ Store!Timestamp(In(r)) = st[r].recordedAt
           /\ Store!HasRecording(In(r)) <=> st[r].audioComplete
           /\ \A k \in PartsRead(r) : Store!Delivered(In(r))[k] = Parts(r)[k]
           /\ st[r].audio \in Nat /\ (st[r].audio # 0 => st[r].audio \in PartsRead(r))
           /\ st[r].transcription # 0 => st[r].transcription \in PartsRead(r)
           /\ st[r].recordedAt # 0 => st[r].recordedAt \in PartsRead(r)
  <1> DEFINE D == Store!Delivered(In(r))
  <1>1. D = IF In(r).multipart THEN Parts(r) ELSE <<>>
    BY DEF Store!Delivered, Parts
  <1>2. Len(Parts(r)) \in Nat
    BY PartsType
  <1>3. PartsRead(r) = 1 .. Len(D) /\ \A k \in PartsRead(r) : D[k] = Parts(r)[k]
    <2>1. CASE In(r).multipart
      BY <1>1, <1>2, <2>1 DEF BodyRead, BodyReadOf, PartsRead
    <2>2. CASE ~In(r).multipart
      BY <1>1, <1>2, <2>2 DEF BodyRead, BodyReadOf, PartsRead
    <2> QED
      BY <2>1, <2>2
  <1>4. PartsRead(r) \subseteq Nat \ {0}
    BY DEF PartsRead
  <1> HIDE DEF D
  <1>5. Store!Recording(In(r)) = st[r].audio
    <2>1. AudioRead(r) = {k \in 1 .. Len(D) : D[k].name = "audio"}
      BY <1>3 DEF AudioRead
    <2>2. AudioRead(r) \subseteq Nat /\ IsFirst(st[r].audio, AudioRead(r))
      BY <1>4 DEF AudioRead, FirstsRead
    <2> QED
      BY <2>1, <2>2, FirstIs DEF Store!Recording, Store!FirstWith, D
  <1>6. Store!Transcription(In(r)) = st[r].transcription
    <2>1. TextRead(r) = {k \in 1 .. Len(D) : D[k].name = "transcription" /\ D[k].whole}
      BY <1>3 DEF TextRead
    <2>2. TextRead(r) \subseteq Nat /\ IsFirst(st[r].transcription, TextRead(r))
      BY <1>4 DEF TextRead, FirstsRead
    <2> QED
      BY <2>1, <2>2, FirstIs DEF Store!Transcription, Store!FirstWith, D
  <1>7. Store!Timestamp(In(r)) = st[r].recordedAt
    <2>1. TimeRead(r) = {k \in 1 .. Len(D) :
                            D[k].name = "recordedAt" /\ D[k].whole /\ D[k].at # NoTime}
      BY <1>3 DEF TimeRead
    <2>2. TimeRead(r) \subseteq Nat /\ IsFirst(st[r].recordedAt, TimeRead(r))
      BY <1>4 DEF TimeRead, FirstsRead
    <2> QED
      BY <2>1, <2>2, FirstIs DEF Store!Timestamp, Store!FirstWith, D
  <1>8. /\ st[r].audio # 0 => st[r].audio \in PartsRead(r)
        /\ st[r].transcription # 0 => st[r].transcription \in PartsRead(r)
        /\ st[r].recordedAt # 0 => st[r].recordedAt \in PartsRead(r)
    BY DEF FirstsRead, IsFirst, AudioRead, TextRead, TimeRead
  <1>9. Store!HasRecording(In(r)) <=> st[r].audioComplete
    <2>1. st[r].audioComplete <=> st[r].audio \in WholeRead(r)
      BY DEF FirstsRead
    <2>2. Store!HasRecording(In(r)) <=> st[r].audio # 0 /\ D[st[r].audio].whole
      BY <1>5 DEF Store!HasRecording, D
    <2> QED
      BY <1>3, <1>4, <1>8, <2>1, <2>2 DEF WholeRead
  <1>10. st[r].audio \in Nat
    BY DEF TypeOK, PartState
  <1> QED
    BY <1>3, <1>5, <1>6, <1>7, <1>8, <1>9, <1>10 DEF D

(* Who gets past the checks is one whose delivery is acceptable.           *)
LEMMA PlacingAcceptable ==
    ASSUME TypeOK, FirstsRead, BodyRead, NEW r \in Requests, pc[r] \in Placing
    PROVE  Store!Acceptable(In(r))
  <1>1. Admitted(r) /\ Verified(r) /\ FromKnownRing(r) /\ ~Store!NothingWhole(In(r))
    BY DEF BodyRead, BodyReadOf
  <1>2. Store!Recording(In(r)) # 0 => Store!Delivered(In(r))[Store!Recording(In(r))].known
    BY <1>1, FieldsAreFirst DEF FromKnownRing
  <1> QED
    BY <1>1, <1>2 DEF Store!Acceptable, Store!Authentic, Admitted, Authorised,
                      StartsSignature, Verified

(* A handler's refusal is the promise's.                                   *)
LEMMA RefusedNotAcceptable ==
    ASSUME TypeOK, FirstsRead, BodyRead, NEW r \in Requests
    PROVE  /\ ~Admitted(r) => ~Store!Acceptable(In(r))
           /\ pc[r] = "verify" /\ ~(Verified(r) /\ FromKnownRing(r)) =>
                 ~Store!Acceptable(In(r))
  <1>1. ~Admitted(r) \/ ~Verified(r) => ~Store!Acceptable(In(r))
    BY DEF Store!Acceptable, Store!Authentic, Admitted, Authorised, StartsSignature, Verified
  <1>2. ASSUME pc[r] = "verify", ~FromKnownRing(r) PROVE ~Store!Acceptable(In(r))
    <2>1. Store!Recording(In(r)) # 0
          /\ ~Store!Delivered(In(r))[Store!Recording(In(r))].known
      BY <1>2, FieldsAreFirst DEF FromKnownRing
    <2> QED
      BY <2>1 DEF Store!Acceptable, Store!Authentic
  <1> QED
    BY <1>1, <1>2

(* A step is one request's own, and leaves every other where it is, but    *)
(* for a crash.                                                            *)
Rests(q) ==
    /\ pc'[q] \in {pc[q], "crashed"}
    /\ next'[q] = next[q] /\ st'[q] = st[q] /\ truncated'[q] = truncated[q]
    /\ note'[q] = note[q] /\ attempt'[q] = attempt[q] /\ try'[q] = try[q]
    /\ status'[q] = status[q] /\ tmpAudio'[q] = tmpAudio[q] /\ tmpNote'[q] = tmpNote[q]

LEMMA OthersRest ==
    ASSUME TypeOK, NEW r \in Requests, NEW q \in Requests, r # q, Handle(r)
    PROVE  Rests(q) /\ pc'[q] = pc[q]
  <1> USE DEF TypeOK, Rests, Goto, Respond
  <1>1. CASE Begin(r)
    BY <1>1 DEF Begin
  <1>2. CASE ReadPart(r)
    BY <1>2 DEF ReadPart, BodyError
  <1>3. CASE EndOfBody(r)
    BY <1>3 DEF EndOfBody, BodyError
  <1>4. CASE Reject(r)
    BY <1>4 DEF Reject
  <1>5. CASE BuildNote(r)
    BY <1>5 DEF BuildNote
  <1>6. CASE SyncAudio(r)
    BY <1>6 DEF SyncAudio
  <1>7. CASE LinkAudio(r)
    BY <1>7 DEF LinkAudio
  <1>8. CASE AudioReplyLost(r)
    BY <1>8 DEF AudioReplyLost, handler
  <1>9. CASE KeepAudio(r)
    BY <1>9 DEF KeepAudio
  <1>10. CASE RedrawId(r)
    BY <1>10 DEF RedrawId
  <1>11. CASE WriteNote(r)
    BY <1>11 DEF WriteNote
  <1>12. CASE LinkNote(r)
    BY <1>12 DEF LinkNote
  <1>13. CASE NoteReplyLost(r)
    BY <1>13 DEF NoteReplyLost
  <1>14. CASE NameTaken(r)
    BY <1>14 DEF NameTaken
  <1>15. CASE KeepNote(r)
    BY <1>15 DEF KeepNote
  <1>16. CASE NextName(r)
    BY <1>16 DEF NextName
  <1>17. CASE Answer(r)
    BY <1>17 DEF Answer
  <1>18. CASE Cleanup(r)
    BY <1>18 DEF Cleanup, AudioTempRemoved, Removed
  <1>19. CASE VaultFails(r)
    BY <1>19 DEF VaultFails
  <1> QED
    BY <1>1, <1>2, <1>3, <1>4, <1>5, <1>6, <1>7, <1>8, <1>9, <1>10, <1>11,
       <1>12, <1>13, <1>14, <1>15, <1>16, <1>17, <1>18, <1>19 DEF Handle

LEMMA OneActs ==
    ASSUME TypeOK, [Next]_vars, NEW q \in Requests
    PROVE  Handle(q) \/ Rests(q)
  <1>1. ASSUME NEW r \in Requests, Handle(r) PROVE Handle(q) \/ Rests(q)
    BY <1>1, OthersRest
  <1>2. ASSUME NEW p \in Replicas, Crash(p) PROVE Rests(q)
    BY <1>2 DEF Crash, Rests, TypeOK
  <1>3. ASSUME NEW f \in DOMAIN notes, OwnerRemoves(f) PROVE Rests(q)
    BY <1>3 DEF OwnerRemoves, handler, Rests
  <1>4. CASE UNCHANGED vars
    BY <1>4 DEF vars, handler, Rests
  <1> QED
    BY <1>1, <1>2, <1>3, <1>4 DEF Next, Terminating

(* What a delivery is stays the same.                                      *)
LEMMA DeliveryStays == [Next]_vars => \A r \in Requests : In(r)' = In(r) /\ Parts(r)' = Parts(r)
  BY SentFrame DEF In, Parts

(* The first of a set of parts stays it when a later part is added.        *)
LEMMA FirstGrows ==
    ASSUME NEW m \in Nat \ {0}, NEW K, K \subseteq 1 .. m - 1, NEW k, IsFirst(k, K)
    PROVE  /\ k = 0 => IsFirst(m, K \cup {m})
           /\ k # 0 => IsFirst(k, K \cup {m})
  <1>1. CASE K = {}
    BY <1>1 DEF IsFirst
  <1>2. CASE K # {}
    <2>1. k \in K /\ \A l \in K : k <= l
      BY <1>2 DEF IsFirst
    <2>2. k # 0 /\ \A l \in K \cup {m} : k <= l
      BY <2>1
    <2>3. IsFirst(k, K \cup {m})
      BY <2>1, <2>2 DEF IsFirst
    <2> QED
      BY <2>2, <2>3
  <1> QED
    BY <1>1, <1>2

LEMMA FirstsReadStep == TypeOK /\ FirstsRead /\ [Next]_vars => FirstsRead'
  <1> SUFFICES ASSUME TypeOK, FirstsRead, [Next]_vars, NEW r \in Requests
               PROVE  /\ next'[r] <= Len(Parts(r)') + 1
                      /\ IsFirst(st'[r].audio, AudioRead(r)')
                      /\ IsFirst(st'[r].transcription, TextRead(r)')
                      /\ IsFirst(st'[r].recordedAt, TimeRead(r)')
                      /\ st'[r].audioComplete <=> st'[r].audio \in WholeRead(r)'
                      /\ st'[r].anyComplete <=> WholeRead(r)' # {}
    BY Zenon DEF FirstsRead, IsFirst
  <1>1. Parts(r)' = Parts(r)
    BY DeliveryStays
  <1>2. /\ next[r] <= Len(Parts(r)) + 1
        /\ IsFirst(st[r].audio, AudioRead(r))
        /\ IsFirst(st[r].transcription, TextRead(r))
        /\ IsFirst(st[r].recordedAt, TimeRead(r))
        /\ st[r].audioComplete <=> st[r].audio \in WholeRead(r)
        /\ st[r].anyComplete <=> WholeRead(r) # {}
    BY DEF FirstsRead
  <1>3. CASE next'[r] = next[r] /\ st'[r] = st[r]
    <2>1. /\ AudioRead(r)' = AudioRead(r) /\ TextRead(r)' = TextRead(r)
          /\ TimeRead(r)' = TimeRead(r) /\ WholeRead(r)' = WholeRead(r)
      BY <1>1, <1>3 DEF AudioRead, TextRead, TimeRead, WholeRead, PartsRead
    <2> QED
      BY <1>1, <1>2, <1>3, <2>1
  <1>4. CASE ReadPart(r)
    <2> DEFINE m == next[r]
               p == Parts(r)[m]
    <2>1. /\ m \in Nat \ {0} /\ m <= Len(Parts(r)) /\ Len(Parts(r)) \in Nat
          /\ next'[r] = m + 1
          /\ st'[r] = Consumed(st[r], p, m)
          /\ st[r] \in PartState
          /\ p.whole \in BOOLEAN
      BY <1>4, PartsType DEF ReadPart, TypeOK, Part
    <2>2. PartsRead(r)' = PartsRead(r) \cup {m} /\ m \notin PartsRead(r)
      BY <2>1 DEF PartsRead
    <2>3. /\ AudioRead(r)' = IF p.name = "audio" THEN AudioRead(r) \cup {m} ELSE AudioRead(r)
          /\ TextRead(r)' = IF p.name = "transcription" /\ p.whole
                            THEN TextRead(r) \cup {m} ELSE TextRead(r)
          /\ TimeRead(r)' = IF p.name = "recordedAt" /\ p.whole /\ p.at # NoTime
                            THEN TimeRead(r) \cup {m} ELSE TimeRead(r)
          /\ WholeRead(r)' = IF p.whole THEN WholeRead(r) \cup {m} ELSE WholeRead(r)
      BY <1>1, <2>2 DEF AudioRead, TextRead, TimeRead, WholeRead
    <2>4. /\ AudioRead(r) \subseteq 1 .. m - 1 /\ TextRead(r) \subseteq 1 .. m - 1
          /\ TimeRead(r) \subseteq 1 .. m - 1 /\ WholeRead(r) \subseteq 1 .. m - 1
      BY DEF AudioRead, TextRead, TimeRead, WholeRead, PartsRead
    <2> HIDE DEF m, p
    <2>5. /\ st'[r].audio = IF p.name = "audio" /\ st[r].audio = 0 THEN m ELSE st[r].audio
          /\ st'[r].transcription =
                IF p.name = "transcription" /\ st[r].transcription = 0 /\ p.whole
                THEN m ELSE st[r].transcription
          /\ st'[r].recordedAt =
                IF p.name = "recordedAt" /\ st[r].recordedAt = 0 /\ p.whole /\ p.at # NoTime
                THEN m ELSE st[r].recordedAt
          /\ st'[r].audioComplete <=>
                st[r].audioComplete \/ (p.name = "audio" /\ st[r].audio = 0 /\ p.whole)
          /\ st'[r].anyComplete <=> st[r].anyComplete \/ p.whole
      BY <2>1 DEF Consumed, PartState
    <2>6. IsFirst(st'[r].audio, AudioRead(r)')
      <3>1. /\ st[r].audio = 0 => IsFirst(m, AudioRead(r) \cup {m})
            /\ st[r].audio # 0 => IsFirst(st[r].audio, AudioRead(r) \cup {m})
        BY <1>2, <2>1, <2>4, FirstGrows
      <3> QED
        BY <1>2, <2>3, <2>5, <3>1
    <2>7. IsFirst(st'[r].transcription, TextRead(r)')
      <3>1. /\ st[r].transcription = 0 => IsFirst(m, TextRead(r) \cup {m})
            /\ st[r].transcription # 0 => IsFirst(st[r].transcription, TextRead(r) \cup {m})
        BY <1>2, <2>1, <2>4, FirstGrows
      <3> QED
        BY <1>2, <2>3, <2>5, <3>1
    <2>8. IsFirst(st'[r].recordedAt, TimeRead(r)')
      <3>1. /\ st[r].recordedAt = 0 => IsFirst(m, TimeRead(r) \cup {m})
            /\ st[r].recordedAt # 0 => IsFirst(st[r].recordedAt, TimeRead(r) \cup {m})
        BY <1>2, <2>1, <2>4, FirstGrows
      <3> QED
        BY <1>2, <2>3, <2>5, <3>1
    <2>10. st'[r].anyComplete <=> WholeRead(r)' # {}
      BY <1>2, <2>3, <2>5
    <2>9. st'[r].audioComplete <=> st'[r].audio \in WholeRead(r)'
      <3>1. CASE p.name = "audio" /\ st[r].audio = 0
        BY <1>2, <2>1, <2>3, <2>4, <2>5, <3>1
      <3>2. CASE ~(p.name = "audio" /\ st[r].audio = 0)
        <4>1. st[r].audio \in 0 .. m - 1
          BY <1>2, <2>1, <2>4 DEF IsFirst
        <4> QED
          BY <1>2, <2>1, <2>3, <2>4, <2>5, <3>2, <4>1
      <3> QED
        BY <3>1, <3>2
    <2> QED
      BY <1>1, <2>1, <2>6, <2>7, <2>8, <2>9, <2>10
  <1>5. ReadPart(r) \/ (next'[r] = next[r] /\ st'[r] = st[r])
    BY OneActs DEF Rests, Handle, Begin, EndOfBody, Reject, BuildNote, SyncAudio, LinkAudio,
         AudioReplyLost, NoteReplyLost, KeepAudio, RedrawId, WriteNote, LinkNote, NameTaken,
         KeepNote, NextName, Answer, Cleanup, VaultFails, handler
  <1> QED
    BY <1>3, <1>4, <1>5

Refusal(r) ==
    status'[r] = status[r] \/ (status'[r] = 413 /\ Store!NothingWhole(In(r)))

(* The end of a body: everything was read, and truncated says whether that *)
(* is all there was.                                                       *)
LEMMA BodyEnds ==
    ASSUME TypeOK, FirstsRead, BodyRead, [Next]_vars, NEW r \in Requests,
           pc[r] = "body", BodyError(r, st[r].anyComplete), In(r).ending # "close",
           next'[r] = Len(Parts(r)) + 1,
           \A k \in 1 .. Len(Parts(r)) : k \notin PartsRead(r) => ~Parts(r)[k].whole
    PROVE  BodyReadOf(r)' /\ Refusal(r)
  <1>1. In(r)' = In(r) /\ Parts(r)' = Parts(r) /\ In(r).multipart /\ Admitted(r)
    BY DeliveryStays DEF BodyRead, BodyReadOf
  <1>2. Admitted(r)'
    BY <1>1 DEF Admitted, Authorised, StartsSignature
  <1>3. Store!NothingWhole(In(r)) <=> In(r).ending = "cap" /\ WholeRead(r) = {}
    <2>1. Store!NothingWhole(In(r)) <=>
              In(r).ending = "cap" /\ \A k \in 1 .. Len(Parts(r)) : ~Parts(r)[k].whole
      BY <1>1 DEF Store!NothingWhole, Parts
    <2>2. PartsRead(r) \subseteq 1 .. Len(Parts(r))
      <3>1. next[r] \in Nat /\ Len(Parts(r)) \in Nat /\ next[r] <= Len(Parts(r)) + 1
        BY PartsType DEF TypeOK, FirstsRead
      <3> QED
        BY <3>1 DEF PartsRead
    <2> QED
      BY <2>1, <2>2 DEF WholeRead
  <1>4. CASE In(r).ending = "cap" /\ ~st[r].anyComplete
    <2>1. Respond(r, 413)
      BY <1>4 DEF BodyError
    <2>2. pc'[r] = "cleanup" /\ status'[r] = 413
      BY <2>1 DEF Respond, Goto, TypeOK
    <2>3. Store!NothingWhole(In(r))
      BY <1>3, <1>4 DEF FirstsRead
    <2> QED
      BY <2>2, <2>3 DEF BodyReadOf, Refusal, Placing, PlacingAudio, PlacingNote
  <1>5. CASE ~(In(r).ending = "cap" /\ ~st[r].anyComplete)
    <2>1. pc'[r] = "verify" /\ truncated'[r] = TRUE /\ status' = status
      BY <1>5 DEF BodyError, Goto, TypeOK
    <2>2. ~Store!NothingWhole(In(r))
      BY <1>3, <1>5 DEF FirstsRead
    <2>3. (Store!NothingWhole(In(r)))' <=> Store!NothingWhole(In(r))
      BY <1>1 DEF Store!NothingWhole
    <2> QED
      BY <1>1, <1>2, <2>1, <2>2, <2>3 DEF BodyReadOf, Refusal, Placing, PlacingAudio, PlacingNote
  <1> QED
    BY <1>4, <1>5

(* It ends at a part that breaks off, or with an error after the last one. *)
LEMMA BodyStops ==
    ASSUME TypeOK, FirstsRead, BodyRead, [Next]_vars, NEW r \in Requests,
           \/ ReadPart(r) /\ ~Parts(r)[next[r]].whole
           \/ EndOfBody(r) /\ In(r).ending # "close"
    PROVE  BodyReadOf(r)' /\ Refusal(r)
  <1>1. /\ BodyError(r, st[r].anyComplete)
        /\ pc[r] = "body"
    BY DEF ReadPart, EndOfBody
  <1>2. next[r] \in Nat \ {0} /\ Len(Parts(r)) \in Nat /\ next[r] <= Len(Parts(r)) + 1
    BY PartsType DEF TypeOK, FirstsRead
  <1>3. CASE ReadPart(r) /\ ~Parts(r)[next[r]].whole
    <2>1. WellFormed(In(r))
      BY ContentAssumption DEF In, TypeOK
    <2>2. /\ next[r] = Len(Parts(r)) /\ next'[r] = next[r] + 1
          /\ In(r).ending # "close"
      BY <1>2, <1>3, <2>1 DEF ReadPart, WellFormed, Parts, TypeOK
    <2>3. \A k \in 1 .. Len(Parts(r)) : k \notin PartsRead(r) => k = next[r]
      BY <1>2, <2>2 DEF PartsRead
    <2> QED
      BY <1>1, <1>3, <2>2, <2>3, BodyEnds
  <1>4. CASE EndOfBody(r) /\ In(r).ending # "close"
    <2>1. next'[r] = next[r] /\ next[r] = Len(Parts(r)) + 1
      BY <1>2, <1>4 DEF EndOfBody
    <2>2. \A k \in 1 .. Len(Parts(r)) : k \in PartsRead(r)
      BY <1>2, <2>1 DEF PartsRead
    <2> QED
      BY <1>1, <1>4, <2>1, <2>2, BodyEnds
  <1> QED
    BY <1>3, <1>4

LEMMA BodyReadStep == TypeOK /\ FirstsRead /\ BodyRead /\ [Next]_vars => BodyRead'
  <1> SUFFICES ASSUME TypeOK, FirstsRead, BodyRead, [Next]_vars, NEW r \in Requests
               PROVE  BodyReadOf(r)'
    BY DEF BodyRead
  <1>1. /\ In(r)' = In(r) /\ Parts(r)' = Parts(r)
        /\ Admitted(r)' <=> Admitted(r)
        /\ Verified(r)' <=> Verified(r)
        /\ (Store!NothingWhole(In(r)))' <=> Store!NothingWhole(In(r))
    BY DeliveryStays DEF Admitted, Authorised, StartsSignature, Verified, Store!NothingWhole
  <1>2. BodyReadOf(r) /\ next[r] \in Nat \ {0} /\ Len(Parts(r)) \in Nat
        /\ next[r] <= Len(Parts(r)) + 1
    BY PartsType DEF BodyRead, TypeOK, FirstsRead
  <1>3. ASSUME st'[r] = st[r], next'[r] = next[r], truncated'[r] = truncated[r],
               \/ pc'[r] = pc[r] /\ pc[r] \in Steps
               \/ pc[r] \in Placing /\ pc'[r] \in Placing
               \/ pc'[r] \in {"crashed", "cleanup", "done"}
        PROVE  BodyReadOf(r)'
    <2>1. FromKnownRing(r)' <=> FromKnownRing(r)
      BY <1>1, <1>3 DEF FromKnownRing
    <2>2. PartsRead(r)' = PartsRead(r)
      BY <1>3 DEF PartsRead
    <2> QED
      BY <1>1, <1>2, <1>3, <2>1, <2>2 DEF BodyReadOf, Placing, PlacingAudio, PlacingNote
  <1>4. CASE Begin(r)
    <2>1. UNCHANGED <<next, st>> /\ pc[r] = "new"
      BY <1>4 DEF Begin
    <2>2. CASE ~Admitted(r)
      <3>1. pc'[r] = "cleanup"
        BY <1>4, <2>2 DEF Begin, Respond, Goto, TypeOK
      <3> QED
        BY <3>1 DEF BodyReadOf, Placing, PlacingAudio, PlacingNote
    <2>3. CASE Admitted(r)
      <3>1. /\ pc'[r] = IF In(r).multipart THEN "body" ELSE "verify"
            /\ truncated'[r] = ~In(r).multipart
        BY <1>4, <2>3 DEF Begin, Goto, TypeOK
      <3>2. next'[r] = 1 /\ PartsRead(r)' = {}
        BY <1>2, <2>1 DEF BodyReadOf, PartsRead
      <3>3. ~In(r).multipart => ~Store!NothingWhole(In(r))
        BY DEF Store!NothingWhole
      <3> QED
        BY <1>1, <2>3, <3>1, <3>2, <3>3 DEF BodyReadOf, Placing, PlacingAudio, PlacingNote
    <2> QED
      BY <2>2, <2>3
  <1>5. CASE ReadPart(r)
    <2> DEFINE m == next[r]
    <2>1. /\ pc[r] = "body" /\ m <= Len(Parts(r)) /\ next'[r] = m + 1
          /\ In(r).multipart /\ ~truncated[r] /\ Admitted(r)
          /\ \A k \in PartsRead(r) : Parts(r)[k].whole
      BY <1>2, <1>5 DEF ReadPart, BodyReadOf, TypeOK
    <2>2. CASE Parts(r)[m].whole
      <3>1. pc'[r] = "body" /\ ~truncated'[r]
        BY <1>5, <2>1, <2>2 DEF ReadPart
      <3>2. PartsRead(r)' = PartsRead(r) \cup {m}
        BY <1>2, <2>1 DEF PartsRead
      <3> QED
        BY <1>1, <2>1, <2>2, <3>1, <3>2 DEF BodyReadOf, Placing, PlacingAudio, PlacingNote
    <2>3. CASE ~Parts(r)[m].whole
      BY <1>5, <2>3, BodyStops
    <2> QED
      BY <2>2, <2>3
  <1>6. CASE EndOfBody(r)
    <2>1. /\ pc[r] = "body" /\ next'[r] = next[r] /\ next[r] = Len(Parts(r)) + 1
          /\ In(r).multipart /\ ~truncated[r] /\ Admitted(r)
      BY <1>2, <1>6 DEF EndOfBody, BodyReadOf
    <2>2. CASE In(r).ending = "close"
      <3>1. pc'[r] = "verify" /\ ~truncated'[r]
        BY <1>6, <2>1, <2>2 DEF EndOfBody, Goto, TypeOK
      <3>2. ~Store!NothingWhole(In(r))
        BY <2>2 DEF Store!NothingWhole
      <3> QED
        BY <1>1, <2>1, <2>2, <3>1, <3>2 DEF BodyReadOf, Placing, PlacingAudio, PlacingNote
    <2>3. CASE In(r).ending # "close"
      BY <1>6, <2>3, BodyStops
    <2> QED
      BY <2>2, <2>3
  <1>7. CASE BuildNote(r)
    <2>1. /\ pc[r] = "verify" /\ Verified(r) /\ FromKnownRing(r)
          /\ UNCHANGED <<st, next, truncated>>
          /\ pc'[r] \in Placing
      BY <1>7 DEF BuildNote, Goto, TypeOK, Placing, PlacingAudio, PlacingNote
    <2>2. FromKnownRing(r)'
      BY <1>1, <2>1 DEF FromKnownRing
    <2> QED
      BY <1>1, <1>2, <2>1, <2>2 DEF BodyReadOf, Placing, PlacingAudio, PlacingNote
  <1>8. CASE Rests(r)
    BY <1>3, <1>8 DEF Rests, TypeOK
  <1>9. CASE Reject(r) \/ RedrawId(r) \/ NextName(r) \/ Answer(r) \/ Cleanup(r) \/ VaultFails(r)
    BY <1>3, <1>9 DEF Reject, RedrawId, NextName, Answer, Cleanup, VaultFails, Respond, Goto,
                      TypeOK, Placing, PlacingNote
  <1>10. CASE \/ SyncAudio(r) \/ LinkAudio(r) \/ AudioReplyLost(r) \/ KeepAudio(r)
              \/ WriteNote(r) \/ LinkNote(r) \/ NoteReplyLost(r) \/ NameTaken(r) \/ KeepNote(r)
    BY <1>3, <1>10 DEF SyncAudio, LinkAudio, AudioReplyLost, KeepAudio, WriteNote, LinkNote,
                       NoteReplyLost, NameTaken, KeepNote, Goto, TypeOK, handler, Placing,
                       PlacingAudio, PlacingNote
  <1> QED
    BY <1>4, <1>5, <1>6, <1>7, <1>8, <1>9, <1>10, OneActs DEF Handle

(* NoteStore is about the same data.                                       *)
LEMMA SameData ==
    /\ Store!SynthesisedId = SynthesisedId
    /\ \A t, now : Store!Usable(t, now) <=> Usable(t, now)
  BY DEF Store!SynthesisedId, SynthesisedId, Store!Usable, Usable, Store!Day, Day

(* The note that a handler builds is the note of what was delivered.       *)
LEMMA NewNoteSays ==
    ASSUME IInv, FirstsRead, BodyRead, NEW r \in Requests, pc[r] = "verify",
           NEW now \in Clock, NEW id \in IdChoices(r, NoteTime(r, now))
    PROVE  Store!IsNoteOf(NewNote(r, now, id), r)
  <1> DEFINE n == NewNote(r, now, id)
             D == Store!Delivered(In(r))
  <1>1. TypeOK /\ FieldsRead
    BY DEF IInv
  <1>2. /\ Store!Transcription(In(r)) = st[r].transcription
        /\ Store!Timestamp(In(r)) = st[r].recordedAt
        /\ Store!Recording(In(r)) = st[r].audio
        /\ Store!HasRecording(In(r)) <=> st[r].audioComplete
        /\ st[r].transcription # 0 => D[st[r].transcription] = Parts(r)[st[r].transcription]
        /\ st[r].recordedAt # 0 => D[st[r].recordedAt] = Parts(r)[st[r].recordedAt]
        /\ st[r].audio # 0 => D[st[r].audio] = Parts(r)[st[r].audio]
    BY <1>1, FieldsAreFirst
  <1>3. /\ n.by = r
        /\ n.id = id
        /\ n.synthesised = (id \in SynthesisedId)
        /\ n.truncated = truncated[r]
        /\ n.clockServer = ~Usable(RecordedAt(r), now)
        /\ n.at = NoteTime(r, now)
        /\ n.words = IF st[r].transcription = 0 THEN <<>>
                     ELSE Parts(r)[st[r].transcription].words
    BY DEF NewNote, NoteTime
  <1> HIDE DEF n
  <1>4. Store!IsTimeFor(n.at, n.clockServer, In(r), now)
    <2>1. RecordedAt(r) = IF Store!Timestamp(In(r)) = 0 THEN NoTime
                          ELSE D[Store!Timestamp(In(r))].at
      BY <1>2 DEF RecordedAt
    <2> QED
      BY <1>3, <2>1, SameData DEF Store!IsTimeFor, NoteTime
  <1>5. Store!IsIdFor(n.id, In(r), n.at)
    <2>1. CASE ~st[r].audioComplete
      BY <1>2, <1>3, <2>1 DEF IdChoices, Store!IsIdFor
    <2>2. CASE st[r].audioComplete
      <3>1. D[Store!Recording(In(r))].id = Parts(r)[st[r].audio].id
        BY <1>1, <1>2, <2>2 DEF FieldsRead
      <3>2. NoteTime(r, now) \in Times
        <4>1. NewNote(r, now, id).at \in Times
          BY <1>1, NewNoteType DEF Note
        <4> QED
          BY <1>3, <4>1 DEF n
      <3>3. Parts(r)[st[r].audio].id = NoId => id \in SynthesisedId /\ id.at = NoteTime(r, now)
        BY <2>2, <3>2, SynthesisedType DEF IdChoices, SynthesiseID
      <3> QED
        BY <1>2, <1>3, <2>2, <3>1, <3>3, SameData DEF IdChoices, Store!IsIdFor
    <2> QED
      BY <2>1, <2>2
  <1>6. n.truncated = ~(In(r).multipart /\ In(r).ending = "close")
    <2>1. truncated[r] \in BOOLEAN /\ In(r).multipart \in BOOLEAN
      BY <1>1, PartsType DEF TypeOK, Input
    <2> QED
      BY <1>3, <2>1 DEF BodyRead, BodyReadOf
  <1>7. n.words = IF Store!Transcription(In(r)) = 0 THEN <<>>
                  ELSE D[Store!Transcription(In(r))].words
    BY <1>2, <1>3
  <1>8. Store!IsNoteOf(n, r)
    BY <1>3, <1>4, <1>5, <1>6, <1>7, SameData DEF Store!IsNoteOf, In
  <1> QED
    BY <1>8 DEF n

(* Another made-up id is as good as the first.                             *)
LEMMA RedrawnNoteSays ==
    ASSUME IInv, NEW r \in Requests, pc[r] = "linkAudio", note[r].synthesised,
           Store!IsNoteOf(note[r], r), NEW id \in SynthesiseID(note[r].at)
    PROVE  Store!IsNoteOf([note[r] EXCEPT !.id = id], r)
  <1> DEFINE n == [note[r] EXCEPT !.id = id]
  <1>1. note[r] \in Note /\ note[r].id \in SynthesisedId /\ note[r].id # NoId
    BY DEF IInv, TypeOK, NoteBuilt, PlacingAudio
  <1>2. /\ n.by = note[r].by /\ n.id = id /\ n.synthesised = note[r].synthesised
        /\ n.truncated = note[r].truncated /\ n.clockServer = note[r].clockServer
        /\ n.at = note[r].at /\ n.words = note[r].words
    BY <1>1 DEF Note
  <1>3. id \in SynthesisedId /\ id.at = note[r].at
    BY <1>1, SynthesisedType DEF Note, SynthesiseID
  <1>4. Store!IsIdFor(note[r].id, Content[sent[r]], note[r].at)
    BY DEF Store!IsNoteOf
  <1>5. /\ Store!HasRecording(Content[sent[r]])
        /\ Store!Delivered(Content[sent[r]])[Store!Recording(Content[sent[r]])].id = NoId
    <2>1. Store!HasRecording(Content[sent[r]])
      BY <1>1, <1>4 DEF Store!IsIdFor
    <2>2. st[r].audio # 0 /\ note[r].id \notin RingId
      BY <1>1, IdAssumption DEF Id, IInv, NoteBuilt, PlacingAudio
    <2> DEFINE own == Store!Delivered(Content[sent[r]])[Store!Recording(Content[sent[r]])].id
    <2>3. own # NoId => note[r].id = own
      BY <1>4, <2>1 DEF Store!IsIdFor
    <2>4. own \in Id
      <3>1. Store!Delivered(Content[sent[r]]) \in Seq(Part)
        BY PartsType DEF IInv, Store!Delivered, In, Input
      <3>2. Store!Recording(Content[sent[r]]) \in
                {0} \cup DOMAIN Store!Delivered(Content[sent[r]])
        BY <3>1 DEF Store!Recording, Store!FirstWith
      <3>3. Store!Delivered(Content[sent[r]])[Store!Recording(Content[sent[r]])] \in Part
        BY <2>1, <3>1, <3>2 DEF Store!HasRecording
      <3> QED
        BY <3>3 DEF Part
    <2> QED
      BY <1>1, <2>1, <2>2, <2>3, <2>4 DEF Id
  <1>6. Store!IsIdFor(n.id, Content[sent[r]], n.at)
    BY <1>2, <1>3, <1>5, SameData DEF Store!IsIdFor
  <1> HIDE DEF n
  <1>7. Store!IsNoteOf(n, r)
    BY <1>2, <1>3, <1>6, SameData DEF Store!IsNoteOf
  <1> QED
    BY <1>7 DEF n

LEMMA NoteSaysStep ==
    IInv /\ FirstsRead /\ BodyRead /\ NoteSays /\ [Next]_vars => NoteSays'
  <1> SUFFICES ASSUME IInv, FirstsRead, BodyRead, NoteSays, [Next]_vars,
                      NEW r \in Requests, pc'[r] \in Placing
               PROVE  Store!IsNoteOf(note[r], r)'
    BY DEF NoteSays
  <1>1. TypeOK
    BY DEF IInv
  <1>2. \A n : Store!IsNoteOf(n, r)' <=> Store!IsNoteOf(n, r)
    BY SentFrame DEF Store!IsNoteOf
  <1>3. CASE BuildNote(r)
    <2>1. PICK now \in Clock : \E id \in IdChoices(r, NoteTime(r, now)) :
              note' = [note EXCEPT ![r] = NewNote(r, now, id)]
      BY <1>3 DEF BuildNote, NoteTime
    <2>2. PICK id \in IdChoices(r, NoteTime(r, now)) : note'[r] = NewNote(r, now, id)
      BY <1>1, <2>1 DEF TypeOK
    <2>3. pc[r] = "verify"
      BY <1>3 DEF BuildNote
    <2> QED
      BY <1>2, <2>2, <2>3, NewNoteSays
  <1>4. CASE ~BuildNote(r)
    <2>1. pc[r] \in Placing
      BY <1>1, <1>4, PcFrame DEF PcStep, Placing, PlacingAudio, LinkAudio, KeepAudio
    <2>2. Store!IsNoteOf(note[r], r)
      BY <2>1 DEF NoteSays
    <2>3. CASE note'[r] = note[r]
      BY <1>2, <2>2, <2>3
    <2>4. CASE RedrawId(r)
      <3>1. PICK id \in SynthesiseID(note[r].at) : note'[r] = [note[r] EXCEPT !.id = id]
        BY <1>1, <2>4 DEF RedrawId, TypeOK
      <3> QED
        BY <1>2, <2>2, <2>4, <3>1, RedrawnNoteSays DEF RedrawId
    <2> QED
      BY <1>1, <1>4, <2>3, <2>4, NoteFrame DEF BuildNote, RedrawId, TypeOK
  <1> QED
    BY <1>3, <1>4

(* Whatever its suffix, a name is a name of its note.                      *)
LEMMA NamesOf ==
    ASSUME NEW n \in Note, NEW w \in Word
    PROVE  Store!IsNameOf(BaseName(n), n) /\ Store!IsNameOf(Suffixed(BaseName(n), w), n)
  <1> DEFINE s == n.words
             b == BaseName(n)
  <1>1. s \in Seq(Word) /\ Len(s) \in Nat
    BY DEF Note
  <1>2. b.minute = n.at \div 60 /\ b.words = s /\ b.tail = <<>>
    BY DEF BaseName
  <1>3. SubSeq(s, 1, Len(s)) = s /\ Len(<<>>) = 0
    BY <1>1
  <1>4. Store!IsNameOf(b, n)
    BY <1>1, <1>2, <1>3 DEF Store!IsNameOf
  <1>5. CASE s = <<>>
    <2>1. Suffixed(b, w).minute = b.minute /\ Suffixed(b, w).words = s
          /\ Suffixed(b, w).tail = <<w>>
      BY <1>2, <1>5 DEF Suffixed, BaseName
    <2> QED
      BY <1>1, <1>2, <1>3, <1>4, <2>1 DEF Store!IsNameOf
  <1>6. CASE s # <<>>
    <2>1. Suffixed(b, w).minute = b.minute /\ Suffixed(b, w).words = Append(s, w)
          /\ Suffixed(b, w).tail = <<>>
      BY <1>2, <1>6 DEF Suffixed, BaseName
    <2>2. Len(Append(s, w)) = Len(s) + 1 /\ SubSeq(Append(s, w), 1, Len(s)) = s
      BY <1>1
    <2> QED
      BY <1>1, <1>2, <1>3, <1>4, <2>1, <2>2 DEF Store!IsNameOf
  <1> QED
    BY <1>4, <1>5, <1>6

LEMMA NameSaysStep == SInv /\ NameSays /\ [Next]_vars => NameSays'
  <1> SUFFICES ASSUME SInv, NameSays, [Next]_vars, NEW r \in Requests,
                      pc'[r] \in {"linkNote", "compare"}
               PROVE  Store!IsNameOf(try'[r], note'[r])
    BY DEF NameSays, Store!IsNameOf
  <1>1. TypeOK /\ LocalInv /\ note[r] \in Note /\ attempt[r] \in Nat
    BY DEF SInv, IInv, TypeOK
  <1>2. CASE WriteNote(r)
    <2>1. try'[r] = BaseName(note[r]) /\ note' = note
      BY <1>1, <1>2 DEF WriteNote, TypeOK
    <2>2. Rand \subseteq Word /\ Rand # {}
      BY VaultAssumption
    <2> QED
      BY <1>1, <2>1, <2>2, NamesOf
  <1>3. CASE NextName(r)
    <2>1. PICK w \in Suffixes(note[r], attempt[r]) :
              try'[r] = Suffixed(BaseName(note[r]), w)
      BY <1>1, <1>3 DEF NextName, Respond, Goto, TypeOK
    <2>2. note' = note /\ w \in Word
      BY <1>1, <1>3, SuffixesType DEF NextName
    <2> QED
      BY <1>1, <2>1, <2>2, NamesOf
  <1>4. CASE ~WriteNote(r) /\ ~NextName(r)
    <2>1. pc[r] \in {"linkNote", "compare"} /\ try'[r] = try[r]
      BY <1>1, <1>4, LocalStep DEF Progress, NameTaken, NoteReplyLost
    <2>2. note'[r] = note[r]
      BY <1>1, <2>1, NoteSettled
    <2> QED
      BY <2>1, <2>2 DEF NameSays
  <1> QED
    BY <1>2, <1>3, <1>4

LEMMA AttachedOnceStep == SInv /\ AttachedOnce /\ [Next]_vars => AttachedOnce'
  <1> SUFFICES ASSUME SInv, AttachedOnce, [Next]_vars, NEW id \in DOMAIN attachments',
                      pc'[attachments'[id]] \in PlacingAudio
               PROVE  attachments'[id] \in LostReplies
    BY DEF AttachedOnce
  <1>1. TypeOK /\ AttachedInv
    BY DEF SInv, IInv
  <1>2. CASE id \in DOMAIN attachments
    <2>1. attachments'[id] = attachments[id] /\ attachments[id] \in Requests
      BY <1>1, <1>2, CreateOnlyNext DEF CreateOnlyStep, TypeOK
    <2>2. pc[attachments[id]] \notin Reading
      BY <1>1, <1>2 DEF AttachedInv
    <2>3. pc[attachments[id]] \in PlacingAudio
      BY <1>1, <2>1, <2>2, PcFrame DEF PcStep, BuildNote, Reading
    <2> QED
      BY <1>2, <2>1, <2>3 DEF AttachedOnce
  <1>3. CASE id \notin DOMAIN attachments
    <2>1. PICK r \in Requests : LinkAudio(r) \/ AudioReplyLost(r)
      BY <1>3, VaultFrame DEF LinkNote, NoteReplyLost, OwnerRemoves
    <2>2. attachments'[id] = r
      BY <1>3, <2>1 DEF LinkAudio, AudioReplyLost, Link
    <2>3. CASE LinkAudio(r)
      BY <1>1, <2>2, <2>3 DEF LinkAudio, Goto, TypeOK, PlacingAudio
    <2>4. CASE AudioReplyLost(r)
      BY <2>2, <2>4 DEF AudioReplyLost
    <2> QED
      BY <2>1, <2>3, <2>4
  <1> QED
    BY <1>2, <1>3

LEMMA MadeUpMarkedStep == IInv /\ MadeUpMarked /\ [Next]_vars => MadeUpMarked'
  <1> SUFFICES ASSUME IInv, MadeUpMarked, [Next]_vars, NEW n \in Written',
                      n.id \in SynthesisedId
               PROVE  n.synthesised
    BY DEF MadeUpMarked
  <1>1. ASSUME NEW r \in Requests, LinkNote(r) \/ NoteReplyLost(r), n = note[r]
        PROVE  n.synthesised
    BY <1>1 DEF LinkNote, NoteReplyLost, IInv, NoteBuilt, PlacingNote
  <1> QED
    BY <1>1, WrittenStep DEF MadeUpMarked

LEMMA InitPInv == Init => PInv
  <1> SUFFICES ASSUME Init PROVE PInv
    OBVIOUS
  <1>1. SInv /\ TypeOK
    BY InitSInv DEF SInv, IInv
  <1>2. \A r \in Requests : PartsRead(r) = {} /\ Len(Parts(r)) \in Nat
    BY <1>1, PartsType DEF Init, PartsRead
  <1>3. FirstsRead
    BY <1>2 DEF FirstsRead, IsFirst, AudioRead, TextRead, TimeRead, WholeRead, Init, NoParts
  <1>4. BodyRead
    BY DEF BodyRead, BodyReadOf, Init, Placing, PlacingAudio, PlacingNote
  <1>5. NoteSays /\ NameSays /\ AttachedOnce
    BY DEF NoteSays, NameSays, AttachedOnce, Init, Placing, PlacingAudio, PlacingNote
  <1>6. MadeUpMarked
    BY IdAssumption DEF MadeUpMarked, Init, Written, OwnerNote, Id
  <1> QED
    BY <1>1, <1>3, <1>4, <1>5, <1>6 DEF PInv

LEMMA PInvStep == PInv /\ [Next]_vars => PInv'
  <1> SUFFICES ASSUME PInv, [Next]_vars PROVE PInv'
    OBVIOUS
  <1>1. SInv /\ IInv /\ TypeOK
    BY DEF PInv, SInv, IInv
  <1> QED
    BY <1>1, SInvStep, FirstsReadStep, BodyReadStep, NoteSaysStep, NameSaysStep,
       AttachedOnceStep, MadeUpMarkedStep DEF PInv

(* What has become of a request, before and after a step.                  *)
LEMMA Outcomes ==
    ASSUME TypeOK, NEW r \in Requests
    PROVE  /\ status[r] = 0 /\ pc[r] # "crashed" => Outcome(r) = "pending"
           /\ status[r] = 0 /\ pc[r] = "crashed" => Outcome(r) = "lost"
           /\ status[r] = 200 => Outcome(r) = "kept"
           /\ status[r] \in {401, 413} => Outcome(r) = "refused"
           /\ status[r] = 500 => Outcome(r) = "failed"
           /\ status[r] \in {0, 200, 401, 413, 500}
  BY DEF Outcome, TypeOK

LEMMA OutcomesNext ==
    ASSUME TypeOK', NEW r \in Requests
    PROVE  /\ status'[r] = 0 /\ pc'[r] # "crashed" => Outcome(r)' = "pending"
           /\ status'[r] = 0 /\ pc'[r] = "crashed" => Outcome(r)' = "lost"
           /\ status'[r] = 200 => Outcome(r)' = "kept"
           /\ status'[r] \in {401, 413} => Outcome(r)' = "refused"
           /\ status'[r] = 500 => Outcome(r)' = "failed"
  BY DEF Outcome, TypeOK

(* What a step of r's handler does to the promise's variables.             *)
AllOutcomes == [r \in Requests |-> Outcome(r)]

LEMMA HandlerOutcomes ==
    ASSUME TypeOK, TypeOK', NEW r \in Requests, Handle(r)
    PROVE  AllOutcomes' = [AllOutcomes EXCEPT ![r] = Outcome(r)']
  <1>1. ASSUME NEW q \in Requests, q # r PROVE Outcome(q)' = Outcome(q)
    <2>1. pc'[q] = pc[q] /\ status'[q] = status[q]
      BY <1>1, OthersRest DEF Rests
    <2> QED
      BY <2>1, Outcomes, OutcomesNext
  <1> QED
    BY <1>1 DEF AllOutcomes

LEMMA QuietStep ==
    ASSUME TypeOK, TypeOK', [Next]_vars, NEW r \in Requests, Handle(r), UNCHANGED vault,
           status'[r] = status[r], pc[r] # "crashed", pc'[r] # "crashed"
    PROVE  UNCHANGED Store!vars
  <1>1. Outcome(r)' = Outcome(r)
    BY Outcomes, OutcomesNext
  <1>2. AllOutcomes' = AllOutcomes
    BY <1>1, HandlerOutcomes DEF AllOutcomes
  <1> QED
    BY <1>2, SentFrame DEF Store!vars, AllOutcomes, vault

(* The six operations.                                                     *)
LEMMA RefuseStep ==
    ASSUME TypeOK, TypeOK', [Next]_vars, NEW r \in Requests, Handle(r), UNCHANGED vault,
           status[r] = 0, pc[r] # "crashed", status'[r] \in {401, 413},
           ~Store!Acceptable(In(r))
    PROVE  Store!Refuse(r)
  <1>1. AllOutcomes' = [AllOutcomes EXCEPT ![r] = "refused"] /\ AllOutcomes[r] = "pending"
    BY HandlerOutcomes, Outcomes, OutcomesNext DEF AllOutcomes
  <1> QED
    BY <1>1, SentFrame DEF Store!Refuse, AllOutcomes, In, vault

LEMMA FailStep ==
    ASSUME SInv, SInv', [Next]_vars, NEW r \in Requests, Handle(r), UNCHANGED vault,
           status[r] = 0, pc[r] # "crashed", status'[r] = 500
    PROVE  Store!Fail(r)
  <1>1. TypeOK /\ TypeOK' /\ IInv
    BY DEF SInv, IInv
  <1>2. AllOutcomes' = [AllOutcomes EXCEPT ![r] = "failed"] /\ AllOutcomes[r] = "pending"
    BY <1>1, HandlerOutcomes, Outcomes, OutcomesNext DEF AllOutcomes
  <1>3. r \notin LostReplies => \A n \in Store!Written : n.by # r
    BY <1>1, WrittenStep DEF SInv, WroteInv, Store!Written, Written
  <1> QED
    BY <1>2, <1>3, SentFrame DEF Store!Fail, AllOutcomes, vault

LEMMA StoreRecordingStep ==
    ASSUME PInv, PInv', [Next]_vars, NEW r \in Requests, LinkAudio(r) \/ AudioReplyLost(r)
    PROVE  /\ note[r].id \in RingId \cup SynthesisedId
           /\ Store!StoreRecording(r, note[r].id)
  <1>1. TypeOK /\ TypeOK' /\ IInv
    BY DEF PInv, SInv, IInv
  <1>2. /\ pc[r] = "linkAudio" /\ status'[r] = status[r] /\ status[r] = 0
        /\ pc'[r] # "crashed"
        /\ note[r].id \notin DOMAIN attachments
        /\ attachments' = Store!Put(attachments, note[r].id, r)
        /\ UNCHANGED <<notes, trash, unread>>
    BY <1>1 DEF LinkAudio, AudioReplyLost, handler, Goto, TypeOK, Exists, Link, Store!Put,
                PInv, SInv, LocalInv, Working, PlacingAudio
  <1>3. AllOutcomes' = AllOutcomes /\ AllOutcomes[r] = "pending"
    <2>1. Outcome(r)' = "pending" /\ Outcome(r) = "pending"
      BY <1>1, <1>2, Outcomes, OutcomesNext
    <2>2. AllOutcomes' = [AllOutcomes EXCEPT ![r] = Outcome(r)']
      BY <1>1, HandlerOutcomes DEF Handle
    <2> QED
      BY <2>1, <2>2 DEF AllOutcomes
  <1>4. Store!Acceptable(In(r)) /\ Store!IsNoteOf(note[r], r)
    BY <1>1, <1>2, PlacingAcceptable DEF PInv, NoteSays, Placing, PlacingAudio
  <1>5. note[r].at \in Times /\ note[r].id \in Id \cup SynthesisedId /\ note[r].id # NoId
    BY <1>1, <1>2 DEF TypeOK, Note, IInv, NoteBuilt, PlacingAudio
  <1>6. \E at \in Times : Store!IsIdFor(note[r].id, In(r), at)
    BY <1>4, <1>5 DEF Store!IsNoteOf, In
  <1>7. \A other \in DOMAIN attachments : attachments[other] = r => r \in LostReplies
    BY <1>2 DEF PInv, AttachedOnce, PlacingAudio
  <1>8. Store!StoreRecording(r, note[r].id)
    BY <1>2, <1>3, <1>4, <1>5, <1>6, <1>7, SentFrame
       DEF Store!StoreRecording, AllOutcomes, In
  <1> QED
    BY <1>5, <1>8 DEF Id

LEMMA StoreNoteStep ==
    ASSUME PInv, PInv', [Next]_vars, NEW r \in Requests, LinkNote(r) \/ NoteReplyLost(r)
    PROVE  /\ try[r] \in DOMAIN notes'
           /\ Store!StoreNote(r, try[r], notes'[try[r]])
  <1>1. TypeOK /\ TypeOK' /\ IInv /\ SInv
    BY DEF PInv, SInv, IInv
  <1>2. /\ pc[r] = "linkNote" /\ status'[r] = status[r] /\ status[r] = 0
        /\ pc'[r] # "crashed"
        /\ try[r] \notin DOMAIN notes
        /\ notes' = Store!Put(notes, try[r], note[r])
        /\ try[r] \in DOMAIN notes' /\ notes'[try[r]] = note[r]
        /\ UNCHANGED <<attachments, trash, unread>>
    BY <1>1 DEF LinkNote, NoteReplyLost, Goto, TypeOK, Exists, Link, Store!Put,
                SInv, LocalInv, Working, PlacingNote
  <1>3. AllOutcomes' = AllOutcomes /\ AllOutcomes[r] = "pending"
    <2>1. Outcome(r)' = "pending" /\ Outcome(r) = "pending"
      BY <1>1, <1>2, Outcomes, OutcomesNext
    <2>2. AllOutcomes' = [AllOutcomes EXCEPT ![r] = Outcome(r)']
      BY <1>1, HandlerOutcomes DEF Handle
    <2> QED
      BY <2>1, <2>2 DEF AllOutcomes
  <1>4. Store!Acceptable(In(r)) /\ Store!IsNoteOf(note[r], r) /\ Store!IsNameOf(try[r], note[r])
    BY <1>1, <1>2, PlacingAcceptable DEF PInv, NoteSays, NameSays, Placing, PlacingNote
  <1>5. /\ note[r].id # NoId => note[r].id \in DOMAIN attachments
        /\ note[r].synthesised => attachments[note[r].id] = r
    BY <1>1, <1>2, IdAssumption DEF IInv, RecordingPlaced, HasOwnRecording, NoteBuilt, PlacingNote, Id
  <1>6. \A m \in Store!Written : m.by = r => r \in LostReplies
    BY <1>1, <1>2 DEF SInv, WroteInv, Store!Written, Written
  <1>7. \A g \in DOMAIN notes : notes[g].by = r => note[r].id = NoId \/ g \in unread
    BY <1>1, <1>2 DEF SInv, OwnName
  <1> QED
    BY <1>2, <1>3, <1>4, <1>5, <1>6, <1>7, SentFrame DEF Store!StoreNote, AllOutcomes, In

LEMMA KeepStep ==
    ASSUME PInv, PInv', [Next]_vars, NEW r \in Requests, Answer(r)
    PROVE  Store!Keep(r)
  <1>1. TypeOK /\ TypeOK' /\ IInv /\ SInv
    BY DEF PInv, SInv, IInv
  <1>2. /\ pc[r] = "placed" /\ status[r] = 0 /\ status'[r] = 200
        /\ UNCHANGED vault
    BY <1>1 DEF Answer, Respond, TypeOK, SInv, LocalInv, Working, PlacingNote
  <1>3. AllOutcomes' = [AllOutcomes EXCEPT ![r] = "kept"] /\ AllOutcomes[r] = "pending"
    BY <1>1, <1>2, HandlerOutcomes, Outcomes, OutcomesNext DEF AllOutcomes, Handle
  <1>4. Store!Acceptable(In(r)) /\ Store!IsNoteOf(note[r], r)
    BY <1>1, <1>2, PlacingAcceptable DEF PInv, NoteSays, Placing, PlacingNote
  <1>5. PICK n \in Written : n.by = r \/ (n.id # NoId /\ n.id = note[r].id)
    BY <1>1, <1>2 DEF SInv, KeptInv, Answered
  <1>6. \/ n.by = r
        \/ /\ Store!HasRecording(In(r))
           /\ n.id # NoId
           /\ n.id = Store!Delivered(In(r))[Store!Recording(In(r))].id
    <2> SUFFICES ASSUME n.by # r
                 PROVE  /\ Store!HasRecording(In(r))
                        /\ n.id = Store!Delivered(In(r))[Store!Recording(In(r))].id
      BY <1>5
    <2>1. n.id # NoId /\ n.id = note[r].id
      BY <1>5
    <2>2. HasOwnRecording(n) /\ HasOwnRecording(note[r]) /\ note[r].by = r
          /\ (note[r].synthesised <=> note[r].id \in SynthesisedId)
      BY <1>1, <1>2, <1>5 DEF IInv, EmbedIsTheRecording, RecordingPlaced, NoteBuilt, PlacingNote
    <2>3. note[r].id \notin SynthesisedId
      BY <1>5, <2>1, <2>2 DEF PInv, MadeUpMarked, HasOwnRecording
    <2>4. Store!IsIdFor(note[r].id, In(r), note[r].at)
      BY <1>4 DEF Store!IsNoteOf, In
    <2> QED
      BY <2>1, <2>3, <2>4, SameData DEF Store!IsIdFor
  <1>7. n \in Store!Written
    BY <1>5 DEF Store!Written, Written
  <1> QED
    BY <1>2, <1>3, <1>4, <1>6, <1>7, SentFrame DEF Store!Keep, AllOutcomes, In, vault

(* A step of a handler is one of the promise, or none of it.               *)
LEMMA BeginPromise ==
    ASSUME PInv, PInv', [Next]_vars, NEW r \in Requests, Begin(r)
    PROVE  Store!Refuse(r) \/ UNCHANGED Store!vars
  <1>1. TypeOK /\ TypeOK' /\ FirstsRead /\ BodyRead
    BY DEF PInv, SInv, IInv
  <1>2. Handle(r) /\ UNCHANGED vault /\ status[r] = 0 /\ pc[r] = "new"
    BY DEF Begin, Handle, PInv, SInv, LocalInv, Working, Reading
  <1>3. CASE ~Admitted(r)
    <2>1. status'[r] = 401 /\ ~Store!Acceptable(In(r))
      BY <1>1, <1>3, RefusedNotAcceptable DEF Begin, Respond, TypeOK
    <2> QED
      BY <1>1, <1>2, <2>1, RefuseStep
  <1>4. CASE Admitted(r)
    <2>1. status'[r] = status[r] /\ pc'[r] # "crashed"
      BY <1>1, <1>4 DEF Begin, Goto, TypeOK
    <2> QED
      BY <1>1, <1>2, <2>1, QuietStep
  <1> QED
    BY <1>3, <1>4

LEMMA BodyPromise ==
    ASSUME PInv, PInv', [Next]_vars, NEW r \in Requests, ReadPart(r) \/ EndOfBody(r)
    PROVE  Store!Refuse(r) \/ UNCHANGED Store!vars
  <1>1. TypeOK /\ TypeOK' /\ FirstsRead /\ BodyRead
    BY DEF PInv, SInv, IInv
  <1>2. Handle(r) /\ UNCHANGED vault /\ status[r] = 0 /\ pc[r] = "body"
    BY DEF ReadPart, EndOfBody, Handle, PInv, SInv, LocalInv, Working, Reading
  <1>3. pc'[r] # "crashed"
    BY <1>1, <1>2 DEF ReadPart, EndOfBody, BodyError, Respond, Goto, TypeOK
  <1>4. Refusal(r)
    <2>1. CASE \/ ReadPart(r) /\ ~Parts(r)[next[r]].whole
               \/ EndOfBody(r) /\ In(r).ending # "close"
      BY <1>1, <2>1, BodyStops
    <2>2. CASE \/ ReadPart(r) /\ Parts(r)[next[r]].whole
               \/ EndOfBody(r) /\ In(r).ending = "close"
      BY <2>2 DEF ReadPart, EndOfBody, Refusal
    <2> QED
      BY <2>1, <2>2
  <1>5. CASE status'[r] = status[r]
    BY <1>1, <1>2, <1>3, <1>5, QuietStep
  <1>6. CASE status'[r] = 413 /\ Store!NothingWhole(In(r))
    <2>1. ~Store!Acceptable(In(r))
      BY <1>6 DEF Store!Acceptable
    <2> QED
      BY <1>1, <1>2, <1>6, <2>1, RefuseStep
  <1> QED
    BY <1>4, <1>5, <1>6 DEF Refusal

LEMMA RejectPromise ==
    ASSUME PInv, PInv', [Next]_vars, NEW r \in Requests, Reject(r)
    PROVE  Store!Refuse(r)
  <1>1. TypeOK /\ TypeOK' /\ FirstsRead /\ BodyRead
    BY DEF PInv, SInv, IInv
  <1>2. Handle(r) /\ UNCHANGED vault /\ status[r] = 0 /\ pc[r] = "verify"
    BY DEF Reject, Handle, PInv, SInv, LocalInv, Working, Reading
  <1>3. status'[r] = 401 /\ ~Store!Acceptable(In(r))
    BY <1>1, <1>2, RefusedNotAcceptable DEF Reject, Respond, TypeOK
  <1> QED
    BY <1>1, <1>2, <1>3, RefuseStep

(* Where a handler may give up.                                            *)
LEMMA GivesUpPromise ==
    ASSUME PInv, PInv', [Next]_vars, NEW r \in Requests,
           RedrawId(r) \/ NextName(r) \/ VaultFails(r), unread' = unread
    PROVE  Store!Fail(r) \/ UNCHANGED Store!vars
  <1>1. TypeOK /\ TypeOK' /\ SInv /\ SInv'
    BY DEF PInv, SInv, IInv
  <1>2. pc[r] \in {"body", "linkAudio", "compare"} \cup FailingSteps
    BY DEF RedrawId, NextName, VaultFails
  <1>3. Handle(r) /\ UNCHANGED vault /\ status[r] = 0 /\ pc[r] # "crashed"
    <2>1. Handle(r)
      BY DEF Handle
    <2>2. UNCHANGED vault
      BY DEF RedrawId, NextName, VaultFails, vault
    <2>3. pc[r] \in Working /\ pc[r] # "crashed"
      BY <1>2 DEF Working, Reading, PlacingAudio, PlacingNote, FailingSteps
    <2> QED
      BY <1>1, <2>1, <2>2, <2>3 DEF SInv, LocalInv
  <1>4. CASE Respond(r, 500)
    <2>1. status'[r] = 500
      BY <1>1, <1>4 DEF Respond, TypeOK
    <2> QED
      BY <1>1, <1>3, <2>1, FailStep
  <1>5. CASE ~Respond(r, 500)
    <2>1. status'[r] = status[r] /\ pc'[r] # "crashed"
      BY <1>1, <1>3, <1>5 DEF RedrawId, NextName, VaultFails, Goto, TypeOK
    <2> QED
      BY <1>1, <1>3, <2>1, QuietStep
  <1> QED
    BY <1>4, <1>5

(* Where a handler takes its own recording's note for another one's.       *)
LEMMA MisreadPromise ==
    ASSUME PInv, PInv', [Next]_vars, NEW r \in Requests, NextName(r), unread' # unread
    PROVE  try[r] \in DOMAIN notes /\ Store!Misread(try[r])
  <1>1. TypeOK /\ TypeOK'
    BY DEF PInv, SInv, IInv
  <1>2. /\ ~LastAttempt(r) /\ IsItsOwn(r) /\ unread' = unread \cup {try[r]}
        /\ UNCHANGED <<sent, notes, attachments, trash>>
    BY DEF NextName
  <1>3. try[r] \in DOMAIN notes /\ notes[try[r]].id # NoId
    BY <1>2 DEF IsItsOwn, SameRecording, ExistingIds
  <1>4. AllOutcomes' = AllOutcomes
    <2>1. status'[r] = status[r] /\ pc[r] = "compare" /\ pc'[r] = "linkNote"
      BY <1>1, <1>2 DEF NextName, Goto, TypeOK
    <2>2. Outcome(r)' = Outcome(r)
      BY <1>1, <2>1, Outcomes, OutcomesNext
    <2>3. AllOutcomes' = [AllOutcomes EXCEPT ![r] = Outcome(r)']
      BY <1>1, HandlerOutcomes DEF Handle
    <2> QED
      BY <2>2, <2>3 DEF AllOutcomes
  <1> QED
    BY <1>2, <1>3, <1>4 DEF Store!Misread, AllOutcomes

LEMMA QuietPromise ==
    ASSUME PInv, PInv', [Next]_vars, NEW r \in Requests,
           \/ BuildNote(r) \/ SyncAudio(r) \/ KeepAudio(r) \/ WriteNote(r)
           \/ NameTaken(r) \/ KeepNote(r) \/ Cleanup(r)
    PROVE  UNCHANGED Store!vars
  <1>1. TypeOK /\ TypeOK'
    BY DEF PInv, SInv, IInv
  <1>2. /\ Handle(r) /\ UNCHANGED vault /\ status'[r] = status[r]
        /\ pc[r] # "crashed" /\ pc'[r] # "crashed"
    BY <1>1 DEF BuildNote, SyncAudio, KeepAudio, WriteNote, NameTaken, KeepNote, Cleanup,
                Handle, Goto, TypeOK
  <1> QED
    BY <1>1, <1>2, QuietStep

LEMMA HandlerPromise ==
    ASSUME PInv, PInv', [Next]_vars, NEW r \in Requests, Handle(r)
    PROVE  [Store!Next]_Store!vars
  <1>1. CASE Begin(r)
    BY <1>1, BeginPromise DEF Store!Next
  <1>2. CASE ReadPart(r) \/ EndOfBody(r)
    BY <1>2, BodyPromise DEF Store!Next
  <1>3. CASE Reject(r)
    BY <1>3, RejectPromise DEF Store!Next
  <1>4. CASE LinkAudio(r) \/ AudioReplyLost(r)
    <2>1. PICK id \in RingId \cup Store!SynthesisedId : Store!StoreRecording(r, id)
      BY <1>4, StoreRecordingStep DEF Store!SynthesisedId, SynthesisedId
    <2> QED
      BY <2>1 DEF Store!Next
  <1>5. CASE LinkNote(r) \/ NoteReplyLost(r)
    <2>1. PICK f \in DOMAIN notes' : Store!StoreNote(r, f, notes'[f])
      BY <1>5, StoreNoteStep
    <2> QED
      BY <2>1 DEF Store!Next
  <1>6. CASE RedrawId(r) \/ NextName(r) \/ VaultFails(r)
    <2>1. CASE unread' = unread
      BY <1>6, <2>1, GivesUpPromise DEF Store!Next
    <2>2. CASE unread' # unread
      <3>1. NextName(r)
        BY <1>6, <2>2 DEF RedrawId, VaultFails, vault
      <3> QED
        BY <2>2, <3>1, MisreadPromise DEF Store!Next
    <2> QED
      BY <2>1, <2>2
  <1>7. CASE Answer(r)
    BY <1>7, KeepStep DEF Store!Next
  <1>8. CASE \/ BuildNote(r) \/ SyncAudio(r) \/ KeepAudio(r) \/ WriteNote(r)
             \/ NameTaken(r) \/ KeepNote(r) \/ Cleanup(r)
    BY <1>8, QuietPromise
  <1> QED
    BY <1>1, <1>2, <1>3, <1>4, <1>5, <1>6, <1>7, <1>8 DEF Handle

LEMMA CrashPromise ==
    ASSUME TypeOK, TypeOK', NEW p \in Replicas, Crash(p)
    PROVE  \E R \in SUBSET Requests : Store!Lose(R)
  <1> DEFINE R == {r \in Requests : Home[r] = p /\ pc[r] \in InFlight /\ status[r] = 0}
  <1>1. UNCHANGED <<status, sent, notes, attachments, trash, unread>>
    BY DEF Crash, vault
  <1>2. ASSUME NEW r \in Requests
        PROVE  Outcome(r)' = IF r \in R THEN "lost" ELSE Outcome(r)
    <2>1. status'[r] = status[r] /\ pc[r] \in Steps /\ status[r] \in {0, 200, 401, 413, 500}
          /\ pc'[r] = IF Home[r] = p /\ pc[r] \in InFlight THEN "crashed" ELSE pc[r]
      BY <1>1 DEF Crash, TypeOK
    <2>2. CASE r \in R
      BY <2>1, <2>2, OutcomesNext
    <2>3. CASE r \notin R /\ status[r] = 0
      <3>1. pc'[r] = pc[r]
        BY <2>1, <2>3
      <3> QED
        BY <2>1, <2>3, <3>1, Outcomes, OutcomesNext
    <2>4. CASE r \notin R /\ status[r] # 0
      BY <2>1, <2>4, Outcomes, OutcomesNext
    <2> QED
      BY <2>2, <2>3, <2>4
  <1>3. \A r \in R : Outcome(r) = "pending"
    BY Outcomes DEF InFlight
  <1>4. R \subseteq Requests
    OBVIOUS
  <1> HIDE DEF R
  <1>5. AllOutcomes' = [r \in Requests |-> IF r \in R THEN "lost" ELSE AllOutcomes[r]]
    BY <1>2 DEF AllOutcomes
  <1>6. \A r \in R : AllOutcomes[r] = "pending"
    BY <1>3, <1>4 DEF AllOutcomes
  <1>7. Store!Lose(R)
    BY <1>1, <1>5, <1>6 DEF Store!Lose, AllOutcomes
  <1> QED
    BY <1>4, <1>7

LEMMA RemovalPromise ==
    ASSUME NEW f \in DOMAIN notes, OwnerRemoves(f)
    PROVE  Store!OwnerRemoves(f)
  <1>1. UNCHANGED <<sent, pc, status, attachments, unread>>
    BY DEF OwnerRemoves, handler
  <1>2. AllOutcomes' = AllOutcomes
    BY <1>1 DEF AllOutcomes, Outcome
  <1> QED
    BY <1>1, <1>2 DEF Store!OwnerRemoves, OwnerRemoves, AllOutcomes

LEMMA PromiseStep == PInv /\ PInv' /\ [Next]_vars => [Store!Next]_Store!vars
  <1> SUFFICES ASSUME PInv, PInv', [Next]_vars PROVE [Store!Next]_Store!vars
    OBVIOUS
  <1>1. ASSUME NEW r \in Requests, Handle(r) PROVE [Store!Next]_Store!vars
    BY <1>1, HandlerPromise
  <1>2. ASSUME NEW p \in Replicas, Crash(p) PROVE [Store!Next]_Store!vars
    BY <1>2, CrashPromise DEF Store!Next, PInv, SInv, IInv
  <1>3. ASSUME NEW f \in DOMAIN notes, OwnerRemoves(f) PROVE [Store!Next]_Store!vars
    BY <1>3, RemovalPromise DEF Store!Next
  <1>4. CASE UNCHANGED vars
    <2>1. AllOutcomes' = AllOutcomes
      BY <1>4 DEF AllOutcomes, Outcome, vars, handler
    <2> QED
      BY <1>4, <2>1 DEF AllOutcomes, Store!vars, vars, vault
  <1> QED
    BY <1>1, <1>2, <1>3, <1>4 DEF Next, Terminating

LEMMA InitPromise == Init => Store!Init
  <1> SUFFICES ASSUME Init PROVE Store!Init
    OBVIOUS
  <1>1. \A r \in Requests : Outcome(r) = "pending"
    BY DEF Init, Outcome
  <1>2. AllOutcomes = [r \in Requests |-> "pending"]
    BY <1>1 DEF AllOutcomes
  <1> QED
    BY <1>2 DEF Init, Store!Init, AllOutcomes, OwnerNote, Store!OwnerNote

(* The ingest service keeps the promise NoteStore is: whatever requests,   *)
(* replicas, crashes, lost replies, failed readings and removals come      *)
(* between its steps, a note and its recording appear only for an          *)
(* acceptable delivery, once, recording first, saying what was delivered;  *)
(* and the status the client hears is what has become of it.  Once more    *)
(* only after a lost reply, and a note only if it has no id or a request   *)
(* could not read it.                                                      *)
THEOREM PromiseKept == Spec => KeepsPromise
  <1>1. Init => PInv
    BY InitPInv
  <1>2. PInv /\ [Next]_vars => PInv'
    BY PInvStep
  <1>3. PInv /\ PInv' /\ [Next]_vars => [Store!Next]_Store!vars
    BY PromiseStep
  <1>4. Init => Store!Init
    BY InitPromise
  <1> QED
    BY <1>1, <1>2, <1>3, <1>4, PTL DEF Spec, KeepsPromise, Store!Spec

----
(* On disk before it has a name: what is about to be linked was synced.    *)

Synced ==
    \A r \in Requests :
        /\ pc[r] = "linkAudio" => tmpAudio[r] = "synced"
        /\ pc[r] \in {"linkNote", "compare"} => tmpNote[r] = "synced"

DInv == IInv /\ Synced

LEMMA SyncedStep == TypeOK /\ Synced /\ [Next]_vars => Synced'
  <1> SUFFICES ASSUME TypeOK, Synced, [Next]_vars, NEW r \in Requests
               PROVE  /\ pc'[r] = "linkAudio" => tmpAudio'[r] = "synced"
                      /\ pc'[r] \in {"linkNote", "compare"} => tmpNote'[r] = "synced"
    BY DEF Synced
  <1>1. CASE Rests(r)
    BY <1>1 DEF Rests, Synced
  <1>2. CASE Begin(r) \/ ReadPart(r) \/ EndOfBody(r) \/ Reject(r) \/ BuildNote(r)
    BY <1>2 DEF Begin, ReadPart, EndOfBody, BodyError, Reject, BuildNote, Respond, Goto, TypeOK
  <1>3. CASE SyncAudio(r) \/ LinkAudio(r) \/ AudioReplyLost(r) \/ KeepAudio(r) \/ RedrawId(r)
    BY <1>3 DEF SyncAudio, LinkAudio, AudioReplyLost, KeepAudio, RedrawId, Respond, Goto,
                handler, TypeOK, Synced
  <1>4. CASE \/ WriteNote(r) \/ LinkNote(r) \/ NoteReplyLost(r) \/ NameTaken(r)
             \/ KeepNote(r) \/ NextName(r)
    BY <1>4 DEF WriteNote, LinkNote, NoteReplyLost, NameTaken, KeepNote, NextName,
                Respond, Goto, TypeOK, Synced
  <1>5. CASE Answer(r) \/ Cleanup(r) \/ VaultFails(r)
    BY <1>5 DEF Answer, Cleanup, VaultFails, Respond, Goto, TypeOK
  <1> QED
    BY <1>1, <1>2, <1>3, <1>4, <1>5, OneActs DEF Handle

LEMMA DurableStep ==
    ASSUME DInv, [Next]_vars
    PROVE  /\ \A id \in DOMAIN attachments' \ DOMAIN attachments :
                 tmpAudio[attachments'[id]] = "synced"
           /\ \A f \in DOMAIN notes' \ DOMAIN notes : tmpNote[notes'[f].by] = "synced"
  <1>1. ASSUME NEW id \in DOMAIN attachments' \ DOMAIN attachments
        PROVE  tmpAudio[attachments'[id]] = "synced"
    <2>1. PICK r \in Requests : LinkAudio(r) \/ AudioReplyLost(r)
      BY <1>1, VaultFrame DEF LinkNote, NoteReplyLost, OwnerRemoves
    <2>2. pc[r] = "linkAudio" /\ attachments'[id] = r
      BY <1>1, <2>1 DEF LinkAudio, AudioReplyLost, Link
    <2> QED
      BY <2>2 DEF DInv, Synced
  <1>2. ASSUME NEW f \in DOMAIN notes' \ DOMAIN notes
        PROVE  tmpNote[notes'[f].by] = "synced"
    <2>1. PICK r \in Requests : /\ LinkNote(r) \/ NoteReplyLost(r)
                                /\ notes'[f] = note[r] /\ note[r].by = r
      BY <1>2, WrittenStep DEF DInv
    <2>2. pc[r] = "linkNote"
      BY <2>1 DEF LinkNote, NoteReplyLost
    <2> QED
      BY <2>1, <2>2 DEF DInv, Synced
  <1> QED
    BY <1>1, <1>2

(* A recording or a note that gets its name in the vault has been synced   *)
(* to disk by then (SyncAudio and WriteNote come before the links), so a   *)
(* crash at no moment leaves a name without its bytes.                     *)
THEOREM DurableHolds == Spec => DurableBeforeVisible
  <1>1. Init => DInv
    BY InitIInv DEF Init, DInv, Synced
  <1>2. DInv /\ [Next]_vars => DInv'
    BY IInvStep, SyncedStep DEF DInv, IInv
  <1>3. DInv /\ [Next]_vars =>
           [/\ \A id \in DOMAIN attachments' \ DOMAIN attachments :
                  tmpAudio[attachments'[id]] = "synced"
            /\ \A f \in DOMAIN notes' \ DOMAIN notes : tmpNote[notes'[f].by] = "synced"
           ]_vars
    BY DurableStep
  <1> QED
    BY <1>1, <1>2, <1>3, PTL DEF Spec, DurableBeforeVisible

----
(* One recording, one note: who holds the names a note is tried under.     *)

HeldBy(id, f) == f \in DOMAIN notes /\ (notes[f].id # id \/ f \in unread)
SecondName(n) == Suffixed(BaseName(n), First8[n.id])

(* A name is passed over only when another recording's note has it, or one *)
(* whose id could not be read.                                             *)
TriedOf(r) ==
    /\ pc[r] = "compare" => try[r] \in DOMAIN notes
    /\ attempt[r] = 0 => try[r] = BaseName(note[r])
    /\ attempt[r] = 1 => try[r] = SecondName(note[r])
    /\ attempt[r] > 0 => HeldBy(note[r].id, BaseName(note[r]))
    /\ attempt[r] > 1 => HeldBy(note[r].id, SecondName(note[r]))

NamesTried ==
    \A r \in Requests :
        pc[r] \in {"linkNote", "compare"} /\ note[r].id # NoId => TriedOf(r)

NamesHeld ==
    \A g \in DOMAIN notes :
        LET n == notes[g]
        IN  n.id # NoId =>
               /\ g # BaseName(n) => HeldBy(n.id, BaseName(n))
               /\ g \notin FirstNames(n) => HeldBy(n.id, SecondName(n))

RInv == IInv /\ (trash = {} => NamesTried /\ NamesHeld)

LEMMA HeldStays ==
    ASSUME [Next]_vars, trash' = {}
    PROVE  /\ trash = {}
           /\ \A f \in DOMAIN notes : f \in DOMAIN notes' /\ notes'[f] = notes[f]
           /\ \A id, f : HeldBy(id, f) => HeldBy(id, f)'
  <1>1. trash = {}
    BY VaultFrame DEF LinkAudio, AudioReplyLost, LinkNote, NoteReplyLost, OwnerRemoves
  <1>2. \A f \in DOMAIN notes : f \in DOMAIN notes' /\ notes'[f] = notes[f]
    BY CreateOnlyNext DEF CreateOnlyStep
  <1> QED
    BY <1>1, <1>2, UnreadStays DEF HeldBy

LEMMA NamesTriedStep ==
    ASSUME IInv, NamesTried, [Next]_vars, trash' = {}
    PROVE  NamesTried'
  <1> SUFFICES ASSUME NEW r \in Requests, pc'[r] \in {"linkNote", "compare"},
                      note'[r].id # NoId
               PROVE  TriedOf(r)'
    BY DEF NamesTried
  <1>1. TypeOK /\ attempt[r] \in Nat
    BY DEF IInv, TypeOK
  <1>2. CASE WriteNote(r)
    <2>1. /\ note' = note /\ pc'[r] = "linkNote"
          /\ attempt'[r] = 0 /\ try'[r] = BaseName(note[r])
      BY <1>1, <1>2 DEF WriteNote, Goto, TypeOK
    <2> QED
      BY <2>1 DEF TriedOf, BaseName
  <1> DEFINE b == BaseName(note[r])
             s == SecondName(note[r])
  <1>3. ASSUME note'[r] = note[r]
        PROVE  BaseName(note[r])' = b /\ SecondName(note[r])' = s /\ note[r].id # NoId
    BY <1>3 DEF BaseName, SecondName, Suffixed
  <1>4. CASE NextName(r)
    <2> DEFINE Held(f) == /\ f \in DOMAIN notes'
                          /\ notes'[f].id # note[r].id \/ f \in unread'
    <2>1. /\ note' = note /\ pc[r] = "compare" /\ pc'[r] = "linkNote"
          /\ attempt'[r] = attempt[r] + 1
          /\ \E w \in Suffixes(note[r], attempt[r]) : try'[r] = Suffixed(b, w)
          /\ IsItsOwn(r) => try[r] \in unread'
      BY <1>1, <1>4 DEF NextName, Respond, Goto, Lost, TypeOK
    <2>2. note[r].id # NoId /\ TriedOf(r)
      BY <1>3, <2>1 DEF NamesTried
    <2>3. Held(try[r])
      <3>1. /\ try[r] \in DOMAIN notes /\ try[r] \in DOMAIN notes'
            /\ notes'[try[r]] = notes[try[r]]
        BY <2>1, <2>2, HeldStays DEF TriedOf
      <3>2. notes[try[r]].id = note[r].id => IsItsOwn(r)
        BY <2>2, <3>1 DEF IsItsOwn, SameRecording, ExistingIds
      <3> QED
        BY <2>1, <3>1, <3>2
    <2>4. attempt[r] = 0 => try'[r] = s
      BY <2>1, <2>2 DEF Suffixes, SecondName
    <2>5. \A f : HeldBy(note[r].id, f) => Held(f)
      BY HeldStays, UnreadStays DEF HeldBy
    <2> HIDE DEF Held
    <2>6. Held(b)
      BY <1>1, <2>2, <2>3, <2>5 DEF TriedOf
    <2>7. attempt'[r] > 1 => Held(s)
      BY <1>1, <2>1, <2>2, <2>3, <2>5 DEF TriedOf
    <2>8. HeldBy(note[r].id, b)' /\ (attempt'[r] > 1 => HeldBy(note[r].id, s)')
      BY <1>3, <2>1, <2>6, <2>7 DEF HeldBy, Held
    <2> QED
      BY <1>1, <1>3, <2>1, <2>4, <2>8 DEF TriedOf, HeldBy
  <1>5. CASE NameTaken(r) \/ NoteReplyLost(r)
    <2>1. /\ note' = note /\ pc[r] = "linkNote" /\ pc'[r] = "compare"
          /\ attempt' = attempt /\ try' = try /\ try[r] \in DOMAIN notes'
      BY <1>1, <1>5 DEF NameTaken, NoteReplyLost, Goto, Exists, Link, TypeOK, vault
    <2>2. TriedOf(r)
      BY <1>3, <2>1 DEF NamesTried
    <2> QED
      BY <1>3, <2>1, <2>2, HeldStays DEF TriedOf, HeldBy
  <1>6. CASE Rests(r)
    <2>1. /\ note'[r] = note[r] /\ pc'[r] = pc[r]
          /\ attempt'[r] = attempt[r] /\ try'[r] = try[r]
      BY <1>6 DEF Rests
    <2>2. TriedOf(r)
      BY <1>3, <2>1 DEF NamesTried
    <2> QED
      BY <1>3, <2>1, <2>2, HeldStays DEF TriedOf, HeldBy
  <1>7. ~(\/ Begin(r) \/ ReadPart(r) \/ EndOfBody(r) \/ Reject(r) \/ BuildNote(r)
          \/ SyncAudio(r) \/ LinkAudio(r) \/ AudioReplyLost(r) \/ KeepAudio(r) \/ RedrawId(r))
    BY <1>1 DEF Begin, ReadPart, EndOfBody, BodyError, Reject, BuildNote, SyncAudio, LinkAudio,
                AudioReplyLost, KeepAudio, RedrawId, Respond, Goto, TypeOK, handler
  <1>8. ~(LinkNote(r) \/ KeepNote(r) \/ Answer(r) \/ Cleanup(r) \/ VaultFails(r))
    BY <1>1 DEF LinkNote, KeepNote, Answer, Cleanup, VaultFails, Respond, Goto, TypeOK
  <1> QED
    BY <1>1, <1>2, <1>4, <1>5, <1>6, <1>7, <1>8, OneActs DEF Handle

LEMMA NamesHeldStep ==
    ASSUME IInv, NamesTried, NamesHeld, [Next]_vars, trash' = {}
    PROVE  NamesHeld'
  <1>1. ASSUME NEW g \in DOMAIN notes', NEW n, n = notes'[g], n.id # NoId
        PROVE  /\ g # BaseName(n) => HeldBy(n.id, BaseName(n))
               /\ g \notin FirstNames(n) => HeldBy(n.id, SecondName(n))
    <2>1. CASE g \in DOMAIN notes /\ notes'[g] = notes[g]
      BY <1>1, <2>1 DEF NamesHeld
    <2>2. ASSUME NEW r \in Requests, LinkNote(r) \/ NoteReplyLost(r), g = try[r],
                 n = note[r]
          PROVE  /\ g # BaseName(n) => HeldBy(n.id, BaseName(n))
                 /\ g \notin FirstNames(n) => HeldBy(n.id, SecondName(n))
      <3>1. pc[r] = "linkNote" /\ attempt[r] \in Nat
        BY <2>2 DEF LinkNote, NoteReplyLost, IInv, TypeOK
      <3>2. TriedOf(r)
        BY <1>1, <2>2, <3>1 DEF NamesTried
      <3> QED
        BY <2>2, <3>1, <3>2 DEF TriedOf, FirstNames, SecondName
    <2> QED
      BY <1>1, <2>1, <2>2, WrittenStep
  <1>2. ASSUME NEW id, NEW f, HeldBy(id, f)
        PROVE  f \in DOMAIN notes' /\ (notes'[f].id # id \/ f \in unread')
    BY <1>2, HeldStays DEF HeldBy
  <1>3. ASSUME NEW g \in DOMAIN notes', NEW n, n = notes'[g], n.id # NoId
        PROVE  /\ g # BaseName(n) =>
                     /\ BaseName(n) \in DOMAIN notes'
                     /\ notes'[BaseName(n)].id # n.id \/ BaseName(n) \in unread'
               /\ g \notin FirstNames(n) =>
                     /\ SecondName(n) \in DOMAIN notes'
                     /\ notes'[SecondName(n)].id # n.id \/ SecondName(n) \in unread'
    BY <1>1, <1>2, <1>3
  <1> QED
    BY <1>3 DEF NamesHeld, HeldBy

LEMMA RInvStep == RInv /\ [Next]_vars => RInv'
  <1> SUFFICES ASSUME RInv, [Next]_vars PROVE RInv'
    OBVIOUS
  <1>1. IInv'
    BY IInvStep DEF RInv
  <1>2. ASSUME trash' = {} PROVE NamesTried' /\ NamesHeld'
    BY <1>2, HeldStays, NamesTriedStep, NamesHeldStep DEF RInv
  <1> QED
    BY <1>1, <1>2 DEF RInv

LEMMA HeldConverges == RInv => RedeliveryConverges
  <1> SUFFICES ASSUME RInv, trash = {}, NEW f \in DOMAIN notes, NEW g \in DOMAIN notes,
                      notes[f].id = notes[g].id, notes[f].id # NoId,
                      BaseName(notes[f]) = BaseName(notes[g]), f \in FirstNames(notes[f]),
                      f \notin unread, g \notin unread
               PROVE  f = g
    BY DEF RedeliveryConverges
  <1> DEFINE b == BaseName(notes[f])
             s == SecondName(notes[f])
  <1>1. NamesHeld /\ s = SecondName(notes[g]) /\ f \in {b, s}
    BY DEF RInv, SecondName, FirstNames
  <1>2. FirstNames(notes[g]) = {b, s}
    BY DEF FirstNames, SecondName
  <1>3. f # b => notes[b].id # notes[f].id \/ b \in unread
    BY <1>1 DEF NamesHeld, HeldBy
  <1>4. g # b => notes[b].id # notes[f].id \/ b \in unread
    BY DEF RInv, NamesHeld, HeldBy
  <1>5. g \notin {b, s} => notes[s].id # notes[f].id \/ s \in unread
    BY <1>1, <1>2 DEF NamesHeld, HeldBy
  <1> QED
    BY <1>1, <1>3, <1>4, <1>5

(* While the owner takes nothing away, no two notes of one recording, of   *)
(* the same minute and words, are in the vault when one of them has either *)
(* name its id leads to, but one that a request found there and could not  *)
(* read: a redelivery looks at both names before any random one            *)
(* (writeMarkdown, readFrontmatterID).                                     *)
THEOREM RedeliveryHolds == Spec => []RedeliveryConverges
  <1>1. Init => RInv
    BY InitIInv DEF Init, RInv, NamesTried, NamesHeld, OwnerNote
  <1>2. RInv /\ [Next]_vars => RInv'
    BY RInvStep
  <1>3. RInv => RedeliveryConverges
    BY HeldConverges
  <1> QED
    BY <1>1, <1>2, <1>3, PTL DEF Spec
=============================================================================
