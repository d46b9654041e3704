------------------------------- MODULE Ingest -------------------------------
(***************************************************************************)
(* The ingest service: POST /note, from the first header to the last       *)
(* deferred cleanup (handler.go, note.go, signature.go).  Requests run     *)
(* concurrently, on replicas that share one vault directory and nothing    *)
(* else.  An action is one step that another request, a crash or the owner *)
(* can come before or after: reading one part, or one operation on the     *)
(* vault.                                                                  *)
(***************************************************************************)
EXTENDS Delivery

CONSTANTS
    Replicas,     \* the service's processes
    Home,         \* Home[r]: the replica that serves r
    First8,       \* First8[id]: the word the first eight bytes of an id are
    Second,       \* Second[s]: the word that seconds s are, 0..59
    MaxAttempts,  \* link attempts before a name is given up (6 in the code)
    StuckTemps    \* bound: the requests whose temp files may refuse to go

ASSUME IngestAssumption ==
    /\ Home \in [Requests -> Replicas]
    /\ First8 \in [RingId \cup SynthesisedId -> Word]
    /\ Second \in [0..59 -> Word]
    /\ MaxAttempts \in Nat \ {0}
    /\ LostReplies \subseteq Requests
    /\ StuckTemps \subseteq Requests

VARIABLES
    sent,         \* sent[r]: which delivery request r is
    pc,           \* pc[r]: where r's handler is
    next,         \* next[r]: the part its reader comes to next
    st,           \* st[r]: partState, with the part each field came from
    truncated,    \* truncated[r]: the body did not end as it should
    note,         \* note[r]: the note being written
    attempt,      \* attempt[r]: link attempts lost to an existing file
    try,          \* try[r]: the file name the next one is for
    status,       \* status[r]: the HTTP status, 0 before there is one
    poked,        \* the requests that poked the scorer and the vault sync
    tmpAudio,     \* tmpAudio[r]: r's .tmp-audio file: none, open, synced, or
                  \*   left by a removal that failed
    tmpNote,      \* tmpNote[r]: r's .tmp-note file, likewise
    notes,        \* the vault's notes, by file name
    attachments,  \* whose recording attachments/<id>.m4a is, by id
    trash,        \* the notes the owner removed
    unread        \* history: the names of notes that a request for the same
                  \*   recording found and did not recognise

handler == <<pc, next, st, truncated, note, attempt, try, status, poked>>
vault == <<notes, attachments, trash, unread>>
vars == <<sent, handler, tmpAudio, tmpNote, vault>>

InFlight == {"body", "verify", "syncAudio", "linkAudio", "writeNote",
             "linkNote", "compare", "placed", "cleanup"}
Steps == {"new", "done", "crashed"} \cup InFlight

PartState == [audio : Nat, audioComplete : BOOLEAN, transcription : Nat,
              recordedAt : Nat, anyComplete : BOOLEAN]
NoParts == [audio |-> 0, audioComplete |-> FALSE, transcription |-> 0,
            recordedAt |-> 0, anyComplete |-> FALSE]

In(r) == Content[sent[r]]
Parts(r) == In(r).parts

NoName == [minute |-> 0, words |-> <<>>, tail |-> <<>>]

Init ==
    /\ sent \in [Requests -> Deliveries]
    /\ pc = [r \in Requests |-> "new"]
    /\ next = [r \in Requests |-> 1]
    /\ st = [r \in Requests |-> NoParts]
    /\ truncated = [r \in Requests |-> FALSE]
    /\ note = [r \in Requests |-> OwnerNote]
    /\ attempt = [r \in Requests |-> 0]
    /\ try = [r \in Requests |-> NoName]
    /\ status = [r \in Requests |-> 0]
    /\ poked = {}
    /\ tmpAudio = [r \in Requests |-> "none"]
    /\ tmpNote = [r \in Requests |-> "none"]
    /\ notes = [f \in OwnerNames |-> OwnerNote]
    /\ attachments = [id \in {} |-> Owner]
    /\ trash = {}
    /\ unread = {}

----
(* What the steps are made of.                                             *)

Goto(r, label) == pc' = [pc EXCEPT ![r] = label]

(* The status is written; what is left are the deferred removals.          *)
Respond(r, code) ==
    /\ status' = [status EXCEPT ![r] = code]
    /\ Goto(r, "cleanup")

(* link(2) fails with EEXIST on a name that is taken, and that decides:    *)
(* nothing looks first and renames later.                                  *)
Exists(dir, f) == f \in DOMAIN dir
Link(dir, f, x) == [g \in DOMAIN dir \cup {f} |-> IF g = f THEN x ELSE dir[g]]

(* The first whole part of each name wins, and for audio the first one,    *)
(* whole or not: its temp file exists from its first byte on.              *)
FirstAudio(r, p) == p.name = "audio" /\ st[r].audio = 0

(* partState after part p, number k, has been read as far as it goes.      *)
Consumed(s, p, k) ==
    [audio |-> IF p.name = "audio" /\ s.audio = 0 THEN k ELSE s.audio,
     audioComplete |-> s.audioComplete
                       \/ (p.name = "audio" /\ s.audio = 0 /\ p.whole),
     transcription |-> IF p.name = "transcription" /\ s.transcription = 0 /\ p.whole
                       THEN k ELSE s.transcription,
     recordedAt |-> IF /\ p.name = "recordedAt" /\ s.recordedAt = 0
                       /\ p.whole /\ p.at # NoTime
                    THEN k ELSE s.recordedAt,
     anyComplete |-> s.anyComplete \/ p.whole]

BodyError_CapAlways(r, anyComplete) ==
    IF In(r).ending = "cap"
    THEN Respond(r, 413) /\ UNCHANGED truncated
    ELSE truncated' = [truncated EXCEPT ![r] = TRUE] /\ Goto(r, "verify") /\ UNCHANGED status

(* The body cannot be read further.  413 only when the cap was hit before  *)
(* anything was whole; otherwise what is whole makes a truncated note.     *)
BodyError(r, anyComplete) ==
    IF In(r).ending = "cap" /\ ~anyComplete
    THEN /\ Respond(r, 413)
         /\ UNCHANGED truncated
    ELSE /\ truncated' = [truncated EXCEPT ![r] = TRUE]
         /\ Goto(r, "verify")
         /\ UNCHANGED status

(* The MAC covers the body as it was sent, and nothing else verifies.      *)
Verified(r) == Signing => In(r).signed /\ In(r).ending \in {"close", "buried", "bare"}

FromKnownRing_ByName(r) ==
    st[r].audio # 0 => Parts(r)[st[r].audio].known \/ Parts(r)[st[r].audio].id = NoId

(* The second factor: only a note with no audio part is exempt.            *)
FromKnownRing(r) == st[r].audio # 0 => Parts(r)[st[r].audio].known

RecordedAt(r) == IF st[r].recordedAt = 0 THEN NoTime ELSE Parts(r)[st[r].recordedAt].at

SynthesiseID(t) == {[at |-> t, rnd |-> x] : x \in Rand}

(* The ids a note of r may start with: its recording's own, a synthesised  *)
(* one when that is unusable, none without a whole recording.              *)
IdChoices(r, t) ==
    IF ~st[r].audioComplete THEN {NoId}
    ELSE LET id == Parts(r)[st[r].audio].id
         IN  IF id # NoId THEN {id} ELSE SynthesiseID(t)

(* The note, from what the body delivered and the clock's reading.         *)
NewNote(r, now, id) ==
    LET t == RecordedAt(r)
    IN  [by |-> r,
         id |-> id,
         synthesised |-> id \in SynthesisedId,
         truncated |-> truncated[r],
         clockServer |-> ~Usable(t, now),
         at |-> IF Usable(t, now) THEN t ELSE now,
         words |-> IF st[r].transcription = 0 THEN <<>>
                   ELSE Parts(r)[st[r].transcription].words]

BaseName(n) == [minute |-> n.at \div 60, words |-> n.words, tail |-> <<>>]

(* "<base>-<w>.md": w is one more word, or follows a bare minute.          *)
Suffixed(base, w) ==
    IF base.words = <<>> THEN [base EXCEPT !.tail = <<w>>]
    ELSE [base EXCEPT !.words = Append(@, w)]

(* The suffixes that may be tried after a file was there k + 1 times.      *)
Suffixes(n, k) ==
    IF k > 0 THEN Rand
    ELSE IF n.id # NoId THEN {First8[n.id]}
    ELSE {Second[n.at % 60]}

Lost_Uncounted(r) == attempt[r]

(* The attempts lost once the one at hand is.                              *)
Lost(r) == attempt[r] + 1
LastAttempt(r) == Lost(r) >= MaxAttempts

----
(* handleNote: the headers, then the body, one part at a time.             *)

(* Neither the bearer nor the signature's headers need the body: a request *)
(* they refuse is refused before any of it is read.  A body whose parts    *)
(* cannot be told apart is not a reason to refuse.                         *)
Authorised(r) == In(r).auth
StartsSignature(r) == Signing => In(r).headers
Admitted(r) == Authorised(r) /\ StartsSignature(r)

Begin(r) ==
    /\ pc[r] = "new"
    /\ IF ~Admitted(r)
       THEN /\ Respond(r, 401)
            /\ UNCHANGED truncated
       ELSE /\ Goto(r, IF In(r).multipart THEN "body" ELSE "verify")
            /\ truncated' = [truncated EXCEPT ![r] = ~In(r).multipart]
            /\ UNCHANGED status
    /\ UNCHANGED <<sent, next, st, note, attempt, try, poked, tmpAudio, tmpNote, vault>>

(* consumePart; the first audio part is streamed to a temp file.           *)
ReadPart(r) ==
    /\ pc[r] = "body"
    /\ next[r] <= Len(Parts(r))
    /\ LET p == Parts(r)[next[r]]
       IN  /\ st' = [st EXCEPT ![r] = Consumed(@, p, next[r])]
           /\ tmpAudio' = IF FirstAudio(r, p) THEN [tmpAudio EXCEPT ![r] = "open"]
                          ELSE tmpAudio
           /\ IF p.whole
              THEN UNCHANGED <<pc, truncated, status>>
              ELSE BodyError(r, st[r].anyComplete)
    /\ next' = [next EXCEPT ![r] = @ + 1]
    /\ UNCHANGED <<sent, note, attempt, try, poked, tmpNote, vault>>

(* NextPart has no further part: io.EOF after the closing delimiter or     *)
(* without it, or an error.                                                *)
EndOfBody(r) ==
    /\ pc[r] = "body"
    /\ next[r] > Len(Parts(r))
    /\ IF In(r).ending = "close"
       THEN /\ Goto(r, "verify")
            /\ UNCHANGED <<truncated, status>>
       ELSE BodyError(r, st[r].anyComplete)
    /\ UNCHANGED <<sent, next, st, note, attempt, try, poked, tmpAudio, tmpNote, vault>>

(* The rest of the body is drained and the digest compared; then the ring  *)
(* that sent the recording.                                                *)
Reject(r) ==
    /\ pc[r] = "verify"
    /\ ~(Verified(r) /\ FromKnownRing(r))
    /\ Respond(r, 401)
    /\ UNCHANGED <<sent, next, st, truncated, note, attempt, try, poked,
                   tmpAudio, tmpNote, vault>>

(* From here on the vault is written: first the audio, then the note.      *)
BuildNote(r) ==
    /\ pc[r] = "verify"
    /\ Verified(r) /\ FromKnownRing(r)
    /\ \E now \in Clock :
          \E id \in IdChoices(r, IF Usable(RecordedAt(r), now) THEN RecordedAt(r) ELSE now) :
              note' = [note EXCEPT ![r] = NewNote(r, now, id)]
    /\ Goto(r, IF st[r].audioComplete THEN "syncAudio" ELSE "writeNote")
    /\ UNCHANGED <<sent, next, st, truncated, attempt, try, status, poked,
                   tmpAudio, tmpNote, vault>>

----
(* placeAudio: link the temp file to attachments/<id>.m4a.                 *)

SyncAudio_Skipped(r) ==
    /\ pc[r] = "syncAudio"
    /\ Goto(r, "linkAudio")
    /\ UNCHANGED <<sent, next, st, truncated, note, attempt, try, status, poked,
                   tmpAudio, tmpNote, vault>>

SyncAudio(r) ==
    /\ pc[r] = "syncAudio"
    /\ tmpAudio' = [tmpAudio EXCEPT ![r] = "synced"]
    /\ Goto(r, "linkAudio")
    /\ UNCHANGED <<sent, next, st, truncated, note, attempt, try, status, poked,
                   tmpNote, vault>>

LinkAudio(r) ==
    /\ pc[r] = "linkAudio"
    /\ ~Exists(attachments, note[r].id)
    /\ attachments' = Link(attachments, note[r].id, r)
    /\ Goto(r, "writeNote")
    /\ UNCHANGED <<sent, next, st, truncated, note, attempt, try, status, poked,
                   tmpAudio, tmpNote, notes, trash, unread>>

(* Over NFS the link may be made and its reply get lost: the client asks   *)
(* again, and link(2) fails with EEXIST on the file it made.               *)
AudioReplyLost(r) ==
    /\ pc[r] = "linkAudio"
    /\ r \in LostReplies
    /\ ~Exists(attachments, note[r].id)
    /\ attachments' = Link(attachments, note[r].id, r)
    /\ UNCHANGED <<sent, handler, tmpAudio, tmpNote, notes, trash, unread>>

KeepAudio_AnyId(r) ==
    /\ pc[r] = "linkAudio"
    /\ Exists(attachments, note[r].id)
    /\ Goto(r, "writeNote")
    /\ UNCHANGED <<sent, next, st, truncated, note, attempt, try, status, poked,
                   tmpAudio, tmpNote, vault>>

(* EEXIST on the ring's own id: the recording is there already.            *)
KeepAudio(r) ==
    /\ pc[r] = "linkAudio"
    /\ Exists(attachments, note[r].id)
    /\ ~note[r].synthesised
    /\ Goto(r, "writeNote")
    /\ UNCHANGED <<sent, next, st, truncated, note, attempt, try, status, poked,
                   tmpAudio, tmpNote, vault>>

(* EEXIST on a synthesised id: another recording drew it.  Draw again, and *)
(* let the note follow.                                                    *)
RedrawId(r) ==
    /\ pc[r] = "linkAudio"
    /\ Exists(attachments, note[r].id)
    /\ note[r].synthesised
    /\ \E id \in SynthesiseID(note[r].at) : note' = [note EXCEPT ![r].id = id]
    /\ IF LastAttempt(r)
       THEN Respond(r, 500) /\ UNCHANGED attempt
       ELSE /\ attempt' = [attempt EXCEPT ![r] = Lost(r)]
            /\ UNCHANGED <<pc, status>>
    /\ UNCHANGED <<sent, next, st, truncated, try, poked, tmpAudio, tmpNote, vault>>

----
(* writeMarkdown: the note in a temp file, linked to the first free name.  *)

WriteNote(r) ==
    /\ pc[r] = "writeNote"
    /\ tmpNote' = [tmpNote EXCEPT ![r] = "synced"]
    /\ attempt' = [attempt EXCEPT ![r] = 0]
    /\ try' = [try EXCEPT ![r] = BaseName(note[r])]
    /\ Goto(r, "linkNote")
    /\ UNCHANGED <<sent, next, st, truncated, note, status, poked, tmpAudio, vault>>

LinkNote_Retried(r) ==
    /\ pc[r] = "linkNote"
    /\ ~Exists(notes, try[r])
    /\ notes' = Link(notes, try[r], note[r])
    /\ UNCHANGED <<sent, handler, tmpAudio, tmpNote, attachments, trash, unread>>

LinkNote(r) ==
    /\ pc[r] = "linkNote"
    /\ ~Exists(notes, try[r])
    /\ notes' = Link(notes, try[r], note[r])
    /\ Goto(r, "placed")
    /\ UNCHANGED <<sent, next, st, truncated, note, attempt, try, status, poked,
                   tmpAudio, tmpNote, attachments, trash, unread>>

NameTaken(r) ==
    /\ pc[r] = "linkNote"
    /\ Exists(notes, try[r])
    /\ Goto(r, "compare")
    /\ UNCHANGED <<sent, next, st, truncated, note, attempt, try, status, poked,
                   tmpAudio, tmpNote, vault>>

(* The same for a note's link: EEXIST on a name that holds its own note.    *)
NoteReplyLost(r) ==
    /\ pc[r] = "linkNote"
    /\ r \in LostReplies
    /\ ~Exists(notes, try[r])
    /\ notes' = Link(notes, try[r], note[r])
    /\ Goto(r, "compare")
    /\ UNCHANGED <<sent, next, st, truncated, note, attempt, try, status, poked,
                   tmpAudio, tmpNote, attachments, trash, unread>>

ExistingIds_Nothing(f) == {NoId}

(* readFrontmatterID: no id when the file has gone since; and none when it *)
(* cannot be read, or when its owner's editor left it with CRLF, with YAML *)
(* that no longer parses or with the key twice.  Any reading may come to   *)
(* nothing.                                                                *)
ExistingIds(f) == {NoId} \cup {notes[g].id : g \in DOMAIN notes \cap {f}}

SameRecording_Missing(r, id) == id = note[r].id

(* A missing id is never equal to a missing id.                            *)
SameRecording(r, id) == note[r].id # NoId /\ id = note[r].id

KeepNote(r) ==
    /\ pc[r] = "compare"
    /\ \E id \in ExistingIds(try[r]) : SameRecording(r, id)
    /\ Goto(r, "placed")
    /\ UNCHANGED <<sent, next, st, truncated, note, attempt, try, status, poked,
                   tmpAudio, tmpNote, vault>>

(* The note there is r's recording's, whether or not the reading tells.    *)
IsItsOwn(r) == \E id \in ExistingIds(try[r]) : SameRecording(r, id)

(* os.Remove, whose error nobody looks at: what becomes of temp file t.    *)
Removed(r, t) ==
    IF t = "none" THEN {"none"}
    ELSE {"none"} \cup (IF r \in StuckTemps THEN {"left"} ELSE {})

NextName(r) ==
    /\ pc[r] = "compare"
    /\ \E id \in ExistingIds(try[r]) : ~SameRecording(r, id)
    /\ IF LastAttempt(r)
       THEN /\ Respond(r, 500)
            /\ \E t \in Removed(r, tmpNote[r]) : tmpNote' = [tmpNote EXCEPT ![r] = t]
            /\ UNCHANGED <<attempt, try, unread>>
       ELSE /\ \E w \in Suffixes(note[r], attempt[r]) :
                  try' = [try EXCEPT ![r] = Suffixed(BaseName(note[r]), w)]
            /\ attempt' = [attempt EXCEPT ![r] = Lost(r)]
            /\ unread' = IF IsItsOwn(r) THEN unread \cup {try[r]} ELSE unread
            /\ Goto(r, "linkNote")
            /\ UNCHANGED <<status, tmpNote>>
    /\ UNCHANGED <<sent, next, st, truncated, note, poked, tmpAudio,
                   notes, attachments, trash>>

----
(* The end of a request, and what may come between its steps.              *)

(* writeMarkdown's deferred removal, the 200, then the two pokes.          *)
Answer(r) ==
    /\ pc[r] = "placed"
    /\ \E t \in Removed(r, tmpNote[r]) : tmpNote' = [tmpNote EXCEPT ![r] = t]
    /\ Respond(r, 200)
    /\ poked' = poked \cup {r}
    /\ UNCHANGED <<sent, next, st, truncated, note, attempt, try, tmpAudio, vault>>

AudioTempRemoved_IfWhole(r) ==
    IF st[r].audioComplete THEN Removed(r, tmpAudio[r]) ELSE {tmpAudio[r]}

(* The deferred removal is there for a recording that broke off, too.      *)
AudioTempRemoved(r) == Removed(r, tmpAudio[r])

Cleanup(r) ==
    /\ pc[r] = "cleanup"
    /\ \E t \in AudioTempRemoved(r) : tmpAudio' = [tmpAudio EXCEPT ![r] = t]
    /\ Goto(r, "done")
    /\ UNCHANGED <<sent, next, st, truncated, note, attempt, try, status, poked,
                   tmpNote, vault>>

FailingSteps_AfterLink == {"syncAudio", "linkAudio", "writeNote", "linkNote", "placed"}

(* The vault refuses an operation: no temp file, no room for the audio, no *)
(* sync, no link; a temp file that was made goes, if it will.  Once the    *)
(* note has its name only a removal can fail.                              *)
FailingSteps == {"syncAudio", "linkAudio", "writeNote", "linkNote"}
VaultFails(r) ==
    /\ \/ pc[r] = "body" /\ next[r] <= Len(Parts(r)) /\ FirstAudio(r, Parts(r)[next[r]])
       \/ pc[r] \in FailingSteps
    /\ Respond(r, 500)
    /\ \E left \in {tmpAudio[r], "open"} :
          tmpAudio' = [tmpAudio EXCEPT ![r] = IF pc[r] = "body" THEN left ELSE @]
    /\ \E t \in Removed(r, IF pc[r] = "writeNote" THEN "open" ELSE tmpNote[r]) :
          tmpNote' = [tmpNote EXCEPT ![r] = t]
    /\ UNCHANGED <<sent, next, st, truncated, note, attempt, try, poked, vault>>

(* A replica dies: its requests get no further and nothing is cleaned up.  *)
Crash(p) ==
    /\ \E r \in Requests : Home[r] = p /\ pc[r] \in InFlight
    /\ pc' = [r \in Requests |-> IF Home[r] = p /\ pc[r] \in InFlight
                                 THEN "crashed" ELSE pc[r]]
    /\ UNCHANGED <<sent, next, st, truncated, note, attempt, try, status, poked,
                   tmpAudio, tmpNote, vault>>

(* The vault is the owner's: a note may be deleted, or renamed away.       *)
OwnerRemoves(f) ==
    /\ Cardinality(trash) < MaxRemovals
    /\ notes' = [g \in DOMAIN notes \ {f} |-> notes[g]]
    /\ trash' = trash \cup {notes[f]}
    /\ UNCHANGED <<sent, handler, tmpAudio, tmpNote, attachments, unread>>

Terminating ==
    /\ \A r \in Requests : pc[r] \in {"done", "crashed"}
    /\ UNCHANGED vars

Handle(r) ==
    \/ Begin(r) \/ ReadPart(r) \/ EndOfBody(r) \/ Reject(r) \/ BuildNote(r)
    \/ SyncAudio(r) \/ LinkAudio(r) \/ AudioReplyLost(r) \/ KeepAudio(r) \/ RedrawId(r)
    \/ WriteNote(r) \/ LinkNote(r) \/ NoteReplyLost(r) \/ NameTaken(r) \/ KeepNote(r)
    \/ NextName(r)
    \/ Answer(r) \/ Cleanup(r) \/ VaultFails(r)

Next ==
    \/ \E r \in Requests : Handle(r)
    \/ \E p \in Replicas : Crash(p)
    \/ \E f \in DOMAIN notes : OwnerRemoves(f)
    \/ Terminating

Spec == Init /\ [][Next]_vars

(* A handler runs until it returns; it never waits for another one, and    *)
(* the server's read and write timeouts end a body that does not arrive.   *)
Fairness == \A r \in Requests : WF_vars(pc[r] # "new" /\ Handle(r))
FairSpec == Spec /\ Fairness

----
(* Properties.                                                             *)

Written == {notes[f] : f \in DOMAIN notes} \cup trash

(* Types: every variable holds what its declaration says.                  *)
TypeOK ==
    /\ sent \in [Requests -> Deliveries]
    /\ pc \in [Requests -> Steps]
    /\ next \in [Requests -> Nat \ {0}]
    /\ st \in [Requests -> PartState]
    /\ truncated \in [Requests -> BOOLEAN]
    /\ note \in [Requests -> Note]
    /\ attempt \in [Requests -> Nat]
    /\ try \in [Requests -> Name]
    /\ status \in [Requests -> {0, 200, 401, 413, 500}]
    /\ poked \subseteq Requests
    /\ tmpAudio \in [Requests -> {"none", "open", "synced", "left"}]
    /\ tmpNote \in [Requests -> {"none", "synced", "left"}]
    /\ DOMAIN notes \subseteq Name
    /\ Written \subseteq Note
    /\ DOMAIN attachments \subseteq RingId \cup SynthesisedId
    /\ \A id \in DOMAIN attachments : attachments[id] \in Requests
    /\ unread \subseteq Name

(* A note never embeds a recording that is not there yet, nor another      *)
(* one: a synthesised id names its own request's audio, a ring's id the    *)
(* audio of a request that brought that id (audio first, then markdown).   *)
HasOwnRecording(n) ==
    n.id # NoId =>
        /\ n.id \in DOMAIN attachments
        /\ n.synthesised => attachments[n.id] = n.by
        /\ ~n.synthesised => LET r == attachments[n.id]
                             IN  Parts(r)[st[r].audio].id = n.id
EmbedIsTheRecording == \A n \in Written : HasOwnRecording(n)

(* Once a 200 is decided, and so before any poke, the note is in the vault *)
(* or was until its owner removed it; a duplicate is answered by a note    *)
(* with the same id.  No thought is acknowledged and lost.                 *)
AnsweredIsKept ==
    \A r \in Requests :
        status[r] = 200 \/ r \in poked =>
            \E n \in Written : n.by = r \/ (n.id # NoId /\ n.id = note[r].id)

(* A request that is refused leaves nothing in the vault, and one that     *)
(* failed leaves no note, unless the reply to a link got lost: what the    *)
(* client hears is what happened.                                          *)
UnansweredLeavesNothing ==
    \A r \in Requests :
        /\ status[r] \in {401, 413} => \A n \in Written : n.by # r
        /\ status[r] = 500 /\ r \notin LostReplies => \A n \in Written : n.by # r
        /\ status[r] \in {401, 413} =>
              \A id \in DOMAIN attachments : attachments[id] # r

(* Neither a retried link, nor a name taken from under it, nor a link that *)
(* was made and reported as EEXIST makes two notes of one request: the id  *)
(* tells its own note.  A note is made again only when the reply to its    *)
(* link was lost and it has no id, or the reading of it came to nothing.   *)
OneNoteEach ==
    \A f, g \in DOMAIN notes :
        /\ notes[f].by = notes[g].by /\ notes[f].by # Owner
        /\ notes[f].by \in LostReplies =>
              notes[f].id # NoId /\ f \notin unread /\ g \notin unread
        => f = g

(* A recording delivered twice, with the same minute and words, makes one  *)
(* note, as long as every reading of its note that mattered told its id,   *)
(* and no other recording's note holds both names its id leads to: whoever *)
(* looks further has found both taken.  (SPEC 7.2 promises more.)          *)
FirstNames(n) == {BaseName(n), Suffixed(BaseName(n), First8[n.id])}
RedeliveryConverges ==
    \A f, g \in DOMAIN notes :
        /\ trash = {}
        /\ notes[f].id = notes[g].id /\ notes[f].id # NoId
        /\ BaseName(notes[f]) = BaseName(notes[g])
        /\ f \in FirstNames(notes[f])
        /\ f \notin unread /\ g \notin unread
        => f = g

(* SPEC 7.2: "A sanitised id also gives idempotency. [...] The same id     *)
(* lands on the same filename."  Here as long as every id could be read.   *)
OneNotePerRecording ==
    unread = {} =>
        \A f, g \in DOMAIN notes :
            notes[f].id \in RingId /\ notes[f].id = notes[g].id => f = g

(* When a handler has returned, by whatever path, it has tried to remove   *)
(* each temp file of its own: one is left beside the notes only by a       *)
(* removal that failed, or by a crash.                                     *)
TempsRemoved ==
    \A r \in Requests :
        pc[r] = "done" => /\ tmpAudio[r] \in {"none", "left"}
                          /\ tmpNote[r] \in {"none", "left"}

(* Create only: nothing the service does changes or removes a file that is *)
(* in the vault, and a note goes only to its owner's trash.                *)
CreateOnlyStep ==
    /\ \A id \in DOMAIN attachments :
          id \in DOMAIN attachments' /\ attachments'[id] = attachments[id]
    /\ \A f \in DOMAIN notes :
          IF f \in DOMAIN notes' THEN notes'[f] = notes[f] ELSE notes[f] \in trash'
CreateOnly == [][CreateOnlyStep]_vars

(* A file is on disk before it has a name in the vault, so no crash leaves *)
(* a name without the bytes.                                               *)
DurableBeforeVisible ==
    [][/\ \A id \in DOMAIN attachments' \ DOMAIN attachments :
             tmpAudio[attachments'[id]] = "synced"
       /\ \A f \in DOMAIN notes' \ DOMAIN notes : tmpNote[notes'[f].by] = "synced"
      ]_vars

(* A request that is being handled is answered, unless its replica dies:   *)
(* losing every race for a name ends the search for one.                   *)
Finishes == \A r \in Requests : pc[r] \in InFlight ~> pc[r] \in {"done", "crashed"}

(* The promise to the ring and the owner: NoteStore, with r's outcome read *)
(* off its status.                                                         *)
Outcome(r) ==
    CASE status[r] = 200 -> "kept"
      [] status[r] \in {401, 413} -> "refused"
      [] status[r] = 500 -> "failed"
      [] pc[r] = "crashed" /\ status[r] = 0 -> "lost"
      [] OTHER -> "pending"
Store == INSTANCE NoteStore WITH outcome <- [r \in Requests |-> Outcome(r)]
KeepsPromise == Store!Spec

=============================================================================
