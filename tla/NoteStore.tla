----------------------------- MODULE NoteStore ------------------------------
(***************************************************************************)
(* What the ingest service promises a ring and an owner (SPEC 6 and 7),    *)
(* with no handler in sight: which requests may leave a note, what that    *)
(* note says as a function of what was delivered, and that the vault only  *)
(* ever gains files.  Ingest implements it.                                *)
(***************************************************************************)
EXTENDS Delivery

VARIABLES
    sent,         \* sent[r]: which delivery request r is
    notes,        \* the vault's notes, by file name
    attachments,  \* whose recording attachments/<id>.m4a is, by id
    trash,        \* the notes the owner removed
    unread,       \* the notes whose id some request could not read
    outcome       \* outcome[r]: what became of r

vars == <<sent, notes, attachments, trash, unread, outcome>>

Outcomes == {"pending", "kept", "refused", "failed", "lost"}

----
(* What a delivery amounts to.                                             *)

Delivered(i) == IF i.multipart THEN i.parts ELSE <<>>

(* The first delivered part that P holds of; 0 when there is none.         *)
FirstWith(i, P(_)) ==
    LET ks == {k \in 1..Len(Delivered(i)) : P(Delivered(i)[k])}
    IN  IF ks = {} THEN 0 ELSE CHOOSE k \in ks : \A l \in ks : k <= l

Recording(i) == LET IsAudio(p) == p.name = "audio" IN FirstWith(i, IsAudio)
Transcription(i) ==
    LET IsText(p) == p.name = "transcription" /\ p.whole IN FirstWith(i, IsText)
Timestamp(i) ==
    LET IsTime(p) == p.name = "recordedAt" /\ p.whole /\ p.at # NoTime
    IN  FirstWith(i, IsTime)

HasRecording(i) == Recording(i) # 0 /\ Delivered(i)[Recording(i)].whole

(* Signed by whoever holds the secret and arrived as signed; and, if it    *)
(* brings a recording, from a ring of the owner's.                         *)
Authentic(i) ==
    /\ i.auth
    /\ Signing => i.headers /\ i.signed /\ i.ending \in {"close", "buried", "bare"}
    /\ Recording(i) # 0 => Delivered(i)[Recording(i)].known

(* Over the cap with nothing whole before it: there is nothing to keep.    *)
NothingWhole(i) ==
    /\ i.multipart
    /\ i.ending = "cap"
    /\ \A k \in 1..Len(i.parts) : ~i.parts[k].whole

Acceptable(i) == Authentic(i) /\ ~NothingWhole(i)

(* The id of a recording: the ring's own, or one made up for it.           *)
IsIdFor(id, i, at) ==
    IF ~HasRecording(i) THEN id = NoId
    ELSE LET own == Delivered(i)[Recording(i)].id
         IN  IF own # NoId THEN id = own ELSE id \in SynthesisedId /\ id.at = at

IsTimeFor(at, server, i, now) ==
    LET k == Timestamp(i)
        t == IF k = 0 THEN NoTime ELSE Delivered(i)[k].at
    IN  IF Usable(t, now) THEN at = t /\ ~server ELSE at = now /\ server

(* n is what r's delivery says, no more and no less.                       *)
IsNoteOf(n, r) ==
    LET i == Content[sent[r]]
        k == Transcription(i)
    IN  /\ n.by = r
        /\ \E now \in Clock : IsTimeFor(n.at, n.clockServer, i, now)
        /\ IsIdFor(n.id, i, n.at)
        /\ n.synthesised = (n.id \in SynthesisedId)
        /\ n.truncated = ~(i.multipart /\ i.ending = "close")
        /\ n.words = IF k = 0 THEN <<>> ELSE Delivered(i)[k].words

(* A note is filed under its minute and its words, perhaps one more word.  *)
IsNameOf(f, n) ==
    /\ f.minute = n.at \div 60
    /\ Len(f.words) + Len(f.tail) \in {Len(n.words), Len(n.words) + 1}
    /\ SubSeq(f.words, 1, Len(n.words)) = n.words

Written == {notes[f] : f \in DOMAIN notes} \cup trash

----
Init ==
    /\ sent \in [Requests -> Deliveries]
    /\ notes = [f \in OwnerNames |-> OwnerNote]
    /\ attachments = [id \in {} |-> Owner]
    /\ trash = {}
    /\ unread = {}
    /\ outcome = [r \in Requests |-> "pending"]

Put(dir, f, x) == [g \in DOMAIN dir \cup {f} |-> IF g = f THEN x ELSE dir[g]]

(* A recording is stored once, under an id nothing is stored under; once   *)
(* more under another one, if the vault's reply to the first was lost.     *)
StoreRecording(r, id) ==
    LET i == Content[sent[r]]
    IN  /\ outcome[r] = "pending"
        /\ Acceptable(i)
        /\ \E at \in Times : IsIdFor(id, i, at)
        /\ id # NoId
        /\ id \notin DOMAIN attachments
        /\ \A other \in DOMAIN attachments : attachments[other] = r => r \in LostReplies
        /\ attachments' = Put(attachments, id, r)
        /\ UNCHANGED <<sent, notes, trash, unread, outcome>>

(* A note is stored once, under a free name, and after its recording.  A   *)
(* lost reply lets it be stored again when nothing in the vault tells that *)
(* it was: it has no id, its id could not be read, or its owner has        *)
(* removed it.                                                             *)
StoreNote(r, f, n) ==
    /\ outcome[r] = "pending"
    /\ Acceptable(Content[sent[r]])
    /\ IsNoteOf(n, r)
    /\ n.id # NoId => n.id \in DOMAIN attachments
    /\ n.synthesised => attachments[n.id] = r
    /\ \A m \in Written : m.by = r => r \in LostReplies
    /\ \A g \in DOMAIN notes : notes[g].by = r => n.id = NoId \/ g \in unread
    /\ f \notin DOMAIN notes
    /\ IsNameOf(f, n)
    /\ notes' = Put(notes, f, n)
    /\ UNCHANGED <<sent, attachments, trash, unread, outcome>>

(* 200: the note is there, or was there for the same recording.            *)
Keep(r) ==
    /\ outcome[r] = "pending"
    /\ Acceptable(Content[sent[r]])
    /\ \E n \in Written :
          \/ n.by = r
          \/ /\ HasRecording(Content[sent[r]])
             /\ n.id # NoId
             /\ n.id = Delivered(Content[sent[r]])[Recording(Content[sent[r]])].id
    /\ outcome' = [outcome EXCEPT ![r] = "kept"]
    /\ UNCHANGED <<sent, notes, attachments, trash, unread>>

(* 401 or 413, and only for what is not acceptable.                        *)
Refuse(r) ==
    /\ outcome[r] = "pending"
    /\ ~Acceptable(Content[sent[r]])
    /\ outcome' = [outcome EXCEPT ![r] = "refused"]
    /\ UNCHANGED <<sent, notes, attachments, trash, unread>>

(* 500: no note, whatever became of the recording, unless its reply got    *)
(* lost.                                                                   *)
Fail(r) ==
    /\ outcome[r] = "pending"
    /\ r \notin LostReplies => \A n \in Written : n.by # r
    /\ outcome' = [outcome EXCEPT ![r] = "failed"]
    /\ UNCHANGED <<sent, notes, attachments, trash, unread>>

(* The service dies: requests stay unanswered, with or without their note. *)
Lose(R) ==
    /\ \A r \in R : outcome[r] = "pending"
    /\ outcome' = [r \in Requests |-> IF r \in R THEN "lost" ELSE outcome[r]]
    /\ UNCHANGED <<sent, notes, attachments, trash, unread>>

(* A note in the vault is taken for one without an id.                     *)
Misread(f) ==
    /\ notes[f].id # NoId
    /\ unread' = unread \cup {f}
    /\ UNCHANGED <<sent, notes, attachments, trash, outcome>>

OwnerRemoves(f) ==
    /\ notes' = [g \in DOMAIN notes \ {f} |-> notes[g]]
    /\ trash' = trash \cup {notes[f]}
    /\ UNCHANGED <<sent, attachments, unread, outcome>>

Next ==
    \/ \E r \in Requests :
          \/ \E id \in RingId \cup SynthesisedId : StoreRecording(r, id)
          \/ \E f \in DOMAIN notes' : StoreNote(r, f, notes'[f])
          \/ Keep(r)
          \/ Refuse(r)
          \/ Fail(r)
    \/ \E R \in SUBSET Requests : Lose(R)
    \/ \E f \in DOMAIN notes : Misread(f) \/ OwnerRemoves(f)

Spec == Init /\ [][Next]_vars
=============================================================================
