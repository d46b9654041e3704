------------------------------- MODULE Scoring ------------------------------
(***************************************************************************)
(* The voice scorer's pass: run_sweep_pass of server.py with state.py,     *)
(* gallery.py and splice.py.  There is one process, and the sweep lock     *)
(* keeps its passes apart; what comes between the steps of a pass are the  *)
(* ingest service adding notes, the owner editing them, the hour going by, *)
(* a failing operation and a kill.  An action is one read or one write of  *)
(* a file, with what the pass computes from it.                            *)
(*                                                                         *)
(* An embedding is the recording and the model it was made with; a cosine  *)
(* is a number of hundredths; a note is what its frontmatter says.         *)
(***************************************************************************)
EXTENDS Integers, FiniteSets

CONSTANTS
    Recordings,   \* ids of recordings
    Sound,        \* Sound[id]: what attachments/<id>.m4a holds
    Cosine,       \* Cosine[a][b]: the similarity of two embeddings, in 1/100
    NoteNames,    \* paths of notes
    RecordingOf,  \* RecordingOf[n]: the recordingId in n's frontmatter
    NoRecording,  \* no recordingId key
    Models,       \* the values of VOICE_MODEL_VERSION
    NoModel,      \* no voiceModel key
    InitVaults,   \* the vaults a scorer may find: notes by path
    InitCaches,   \* what it may find in STATE_DIR: records by id
    Coming,       \* the notes that ingest adds while the scorer runs
    MaxEdits,     \* bound: edits, and deletions of records, by the owner
    MaxFaults,    \* bound: failing writes
    MaxKills      \* bound: kills of the process

NoScore == -101
Bands == {"likely-owner", "uncertain", "unlikely-owner"}
Voice == [band : Bands \cup {"none", "unscoreable", "no-gallery"},
          score : -100..100 \cup {NoScore}, model : Models \cup {NoModel}]
NoVoice == [band |-> "none", score |-> NoScore, model |-> NoModel]

(* "plain" has no frontmatter, "denied" fails with an OSError, "garbled"   *)
(* with another error: bytes that are not UTF-8, a date that is none.      *)
Note == [text : {"ok", "plain", "denied", "garbled"}, ticked : BOOLEAN,
         voice : Voice, recent : BOOLEAN]

(* "corrupt" is a file read_record takes for a missing one, "undecodable"  *)
(* one that is not UTF-8.                                                  *)
Record == [kind : {"none", "corrupt", "undecodable", "unscoreable", "embedded"},
           model : Models \cup {NoModel}, best : -100..100 \cup {NoScore},
           band : Bands \cup {"none"}]

ASSUME RecordingAssumption ==
    /\ Sound \in [Recordings -> {"speech", "short", "broken", "poison"}]
    /\ Cosine \in [Recordings -> [Recordings -> -100..100]]
    /\ NoRecording \notin Recordings
    /\ RecordingOf \in [NoteNames -> Recordings \cup {NoRecording}]

ASSUME ScorerAssumption ==
    /\ NoModel \notin Models
    /\ \A v \in InitVaults : DOMAIN v \subseteq NoteNames /\ \A n \in DOMAIN v : v[n] \in Note
    /\ InitCaches \subseteq [Recordings -> Record]
    /\ \A c \in InitCaches : \A id \in Recordings :
          c[id].kind = "embedded" => c[id].model \in Models /\ Sound[id] = "speech"
    /\ Coming \subseteq NoteNames
    /\ \A n \in Coming : RecordingOf[n] \in Recordings
    /\ MaxEdits \in Nat /\ MaxFaults \in Nat /\ MaxKills \in Nat

VARIABLES
    notes,        \* the vault's notes, by path
    attachments,  \* the ids with an audio file
    records,      \* STATE_DIR/embeddings, by id
    coming,       \* the notes ingest has yet to add
    model,        \* the model version the process was started with
    phase,        \* where the pass is
    pending,      \* the clips it has yet to score
    unread,       \* the notes its walk of the vault has yet to read
    todo,         \* the notes it has yet to give a voice
    ticked,       \* the ids it found ticked
    gallery,      \* the embeddings it scores against
    at,           \* the note it is writing: at most one
    draft,        \* the voice fields for it, then its whole new content
    aborted,      \* an exception ended the last pass: "pass failed"
    edits, faults, kills,   \* how often each has happened
    dropped,      \* the ids whose record the owner has deleted
    everTicked,   \* history: the notes ticked at some time since it began
    stayedTicked  \* history: the notes ticked ever since it began

locals == <<pending, unread, todo, ticked, gallery, at, draft>>
pass == <<phase, aborted, locals>>
vault == <<notes, attachments, coming>>
bounds == <<edits, faults, kills, dropped>>
history == <<everTicked, stayedTicked>>
vars == <<vault, records, model, pass, bounds, history>>

Phases == {"idle", "clips", "scan", "gallery", "notes", "splice", "replace"}

NoDraft == [text |-> "ok", ticked |-> FALSE, voice |-> NoVoice, recent |-> FALSE]

TickedNow == {n \in DOMAIN notes : notes[n].text = "ok" /\ notes[n].ticked}

Init ==
    /\ notes \in InitVaults
    /\ attachments = {RecordingOf[n] : n \in DOMAIN notes} \ {NoRecording}
    /\ records \in InitCaches
    /\ coming = Coming \ DOMAIN notes
    /\ model \in Models
    /\ phase = "idle"
    /\ pending = {} /\ unread = {} /\ todo = {} /\ ticked = {} /\ gallery = {}
    /\ at = {} /\ draft = NoDraft
    /\ aborted = FALSE
    /\ edits = 0 /\ faults = 0 /\ kills = 0 /\ dropped = {}
    /\ everTicked = {} /\ stayedTicked = {}

----
(* What the steps are made of.                                             *)

Put(f, x, y) == [z \in DOMAIN f \cup {x} |-> IF z = x THEN y ELSE f[z]]

(* The locals of run_sweep_pass end with it, however it ends.              *)
Forget ==
    /\ pending' = {} /\ unread' = {} /\ todo' = {} /\ ticked' = {} /\ gallery' = {}
    /\ at' = {} /\ draft' = NoDraft

Return(failed) ==
    /\ phase' = "idle"
    /\ aborted' = failed
    /\ Forget

(* read_record raises, has a record, or has none.                          *)
Undecodable(id) == records[id].kind = "undecodable"
Cached_EvenTorn(id) == records[id].kind \in {"unscoreable", "embedded", "corrupt"}
Cached(id) == records[id].kind \in {"unscoreable", "embedded"}

(* ensure_scored: the cached record, or a new one; unless the embedder     *)
(* raises, and then nothing is recorded.                                   *)
Decodes(id) == id \in attachments /\ Sound[id] # "broken"
Raises(id) == Undecodable(id) \/ (~Cached(id) /\ Decodes(id) /\ Sound[id] = "poison")
Unscoreable == [kind |-> "unscoreable", model |-> model, best |-> NoScore, band |-> "none"]
EnsureScored(id) ==
    IF Cached(id) THEN records[id]
    ELSE IF Decodes(id) /\ Sound[id] # "short" THEN [Unscoreable EXCEPT !.kind = "embedded"]
    ELSE Unscoreable

BandFor(best) ==
    IF best >= 50 THEN "likely-owner"
    ELSE IF best >= 30 THEN "uncertain" ELSE "unlikely-owner"

Best_Lowest(id, entries) ==
    CHOOSE s \in {Cosine[id][e.id] : e \in entries} :
        \A e \in entries : Cosine[id][e.id] >= s

Best(id, entries) ==
    CHOOSE s \in {Cosine[id][e.id] : e \in entries} :
        \A e \in entries : Cosine[id][e.id] <= s

(* read_flags: what the frontmatter of a readable note says.               *)
AlreadyScored(n) == notes[n].voice # NoVoice
Readable(n) == n \in DOMAIN notes /\ notes[n].text \in {"ok", "plain"}
HasRecording(n) == notes[n].text = "ok" /\ RecordingOf[n] # NoRecording

----
(* First the clips: every attachment without a record.                     *)

(* The list reads every record outside of any handler.                     *)
ListFails ==
    /\ phase = "idle"
    /\ \E id \in attachments : Undecodable(id)
    /\ Return(TRUE)
    /\ UNCHANGED <<vault, records, model, bounds>>

ListClips ==
    /\ phase = "idle"
    /\ \A id \in attachments : ~Undecodable(id)
    /\ pending' = {id \in attachments : ~Cached(id)}
    /\ phase' = "clips"
    /\ aborted' = FALSE
    /\ UNCHANGED <<vault, records, model, unread, todo, ticked, gallery, at, draft, bounds>>

ScoreClip_Escapes(id) ==
    /\ phase = "clips"
    /\ id \in pending
    /\ IF Raises(id)
       THEN Return(TRUE) /\ UNCHANGED records
       ELSE /\ records' = [records EXCEPT ![id] = EnsureScored(id)]
            /\ pending' = pending \ {id}
            /\ UNCHANGED <<phase, aborted, unread, todo, ticked, gallery, at, draft>>
    /\ UNCHANGED <<vault, model, bounds>>

(* A clip that raises is skipped, and tried again in the next pass.        *)
ScoreClip(id) ==
    /\ phase = "clips"
    /\ id \in pending
    /\ pending' = pending \ {id}
    /\ records' = IF Raises(id) THEN records
                  ELSE [records EXCEPT ![id] = EnsureScored(id)]
    /\ UNCHANGED <<vault, model, phase, aborted, unread, todo, ticked, gallery, at, draft, bounds>>

(* The decoder's temp file or the record cannot be written.                *)
ClipFails(id) ==
    /\ phase = "clips"
    /\ id \in pending
    /\ faults < MaxFaults
    /\ faults' = faults + 1
    /\ pending' = pending \ {id}
    /\ UNCHANGED <<vault, records, model, phase, aborted, unread, todo, ticked,
                   gallery, at, draft, edits, kills, dropped>>

(* The decoder does not start, or gives up on a clip it could decode: the  *)
(* clip is recorded as unscoreable, for good.  In the notes loop the same  *)
(* comes before the judgement of a note whose clip has no record.          *)
DecoderFails(id) ==
    /\ faults < MaxFaults
    /\ faults' = faults + 1
    /\ id \in attachments /\ ~Undecodable(id) /\ ~Cached(id)
    /\ \/ phase = "clips" /\ id \in pending
       \/ phase = "notes" /\ \E n \in todo : RecordingOf[n] = id
    /\ pending' = pending \ {id}
    /\ records' = [records EXCEPT ![id] = Unscoreable]
    /\ UNCHANGED <<vault, model, phase, aborted, unread, todo, ticked, gallery,
                   at, draft, edits, kills, dropped>>

----
(* Then the notes that need a voice and have not been edited of late.      *)

WalkNotes ==
    /\ phase = "clips"
    /\ pending = {}
    /\ phase' = "scan"
    /\ unread' = DOMAIN notes
    /\ UNCHANGED <<vault, records, model, aborted, pending, todo, ticked, gallery,
                   at, draft, bounds>>

(* A note that cannot be read, or has gone since, is skipped.              *)
ScanNote(n) ==
    /\ phase = "scan"
    /\ n \in unread
    /\ unread' = unread \ {n}
    /\ todo' = IF Readable(n) /\ HasRecording(n) /\ ~AlreadyScored(n) /\ ~notes[n].recent
               THEN todo \cup {n} ELSE todo
    /\ UNCHANGED <<vault, records, model, phase, aborted, pending, ticked, gallery,
                   at, draft, bounds>>

NothingToDo ==
    /\ phase = "scan"
    /\ unread = {} /\ todo = {}
    /\ Return(FALSE)
    /\ UNCHANGED <<vault, records, model, bounds>>

----
(* The gallery, from the tick boxes as they are now.                       *)

WalkTicks ==
    /\ phase = "scan"
    /\ unread = {} /\ todo # {}
    /\ phase' = "gallery"
    /\ unread' = DOMAIN notes
    /\ UNCHANGED <<vault, records, model, aborted, pending, todo, ticked, gallery,
                   at, draft, bounds>>

(* find_ticked_recording_ids catches OSError and nothing else.             *)
Garbled(n) == n \in DOMAIN notes /\ notes[n].text = "garbled"

ReadTick(n) ==
    /\ phase = "gallery"
    /\ n \in unread
    /\ ~Garbled(n)
    /\ unread' = unread \ {n}
    /\ ticked' = IF Readable(n) /\ HasRecording(n) /\ notes[n].ticked
                 THEN ticked \cup {RecordingOf[n]} ELSE ticked
    /\ UNCHANGED <<vault, records, model, phase, aborted, pending, todo, gallery,
                   at, draft, bounds>>

TickFails(n) ==
    /\ phase = "gallery"
    /\ n \in unread
    /\ Garbled(n)
    /\ Return(TRUE)
    /\ UNCHANGED <<vault, records, model, bounds>>

Entries_EvenUnscoreable ==
    {[id |-> id, model |-> records[id].model] : id \in {t \in ticked : Cached(t)}}

(* An unscoreable recording is no entry, nor one without a record.         *)
Entries ==
    {[id |-> id, model |-> records[id].model] :
        id \in {t \in ticked : records[t].kind = "embedded"}}

BuildGallery ==
    /\ phase = "gallery"
    /\ unread = {}
    /\ IF \E id \in ticked : Undecodable(id)
       THEN Return(TRUE)
       ELSE /\ gallery' = Entries
            /\ phase' = "notes"
            /\ ticked' = {}
            /\ UNCHANGED <<aborted, pending, unread, todo, at, draft>>
    /\ UNCHANGED <<vault, records, model, bounds>>

----
(* Then note by note: the record, then the note.                           *)

Scored(id) ==
    LET best == Best(id, gallery)
    IN  [EnsureScored(id) EXCEPT !.best = best, !.band = BandFor(best)]

Compared(id) == EnsureScored(id).kind = "embedded" /\ gallery # {}

VoiceFor_Cached(id) ==
    [band |-> records[id].band, score |-> records[id].best, model |-> model]

VoiceFor(id) ==
    IF EnsureScored(id).kind = "unscoreable"
    THEN [band |-> "unscoreable", score |-> NoScore, model |-> model]
    ELSE IF gallery = {}
    THEN [band |-> "no-gallery", score |-> NoScore, model |-> model]
    ELSE [band |-> Scored(id).band, score |-> Scored(id).best, model |-> model]

Judged_Unrecorded(id) == EnsureScored(id)

(* The record after the note was judged: with the result, if there is one. *)
Judged(id) == IF Compared(id) THEN Scored(id) ELSE EnsureScored(id)

Judge(n) ==
    /\ phase = "notes"
    /\ n \in todo
    /\ todo' = todo \ {n}
    /\ LET id == RecordingOf[n]
       IN  IF Raises(id)
           THEN UNCHANGED <<records, phase, at, draft>>
           ELSE /\ records' = [records EXCEPT ![id] = Judged(id)]
                /\ draft' = [NoDraft EXCEPT !.voice = VoiceFor(id)]
                /\ at' = {n}
                /\ phase' = "splice"
    /\ UNCHANGED <<vault, model, aborted, pending, unread, ticked, gallery, bounds>>

(* A record cannot be written: neither of the two, or only the first.      *)
JudgeFails(n) ==
    /\ phase = "notes"
    /\ n \in todo
    /\ faults < MaxFaults
    /\ faults' = faults + 1
    /\ todo' = todo \ {n}
    /\ LET id == RecordingOf[n]
       IN  records' \in {records} \cup
              (IF Raises(id) THEN {} ELSE {[records EXCEPT ![id] = EnsureScored(id)]})
    /\ UNCHANGED <<vault, model, phase, aborted, pending, unread, ticked, gallery,
                   at, draft, edits, kills, dropped>>

(* splice_voice_fields reads the note again: it may carry a voice by now,  *)
(* or no frontmatter, or be gone.                                          *)
Splice(n) ==
    /\ phase = "splice"
    /\ n \in at
    /\ IF Readable(n) /\ notes[n].text = "ok" /\ ~AlreadyScored(n)
       THEN /\ draft' = [notes[n] EXCEPT !.voice = draft.voice, !.recent = TRUE]
            /\ phase' = "replace"
            /\ UNCHANGED at
       ELSE /\ draft' = NoDraft
            /\ at' = {}
            /\ phase' = "notes"
    /\ UNCHANGED <<vault, records, model, aborted, pending, unread, todo, ticked,
                   gallery, bounds>>

(* os.replace: whatever is under the name now is what the pass read, with  *)
(* a voice.                                                                *)
Replace(n) ==
    /\ phase = "replace"
    /\ n \in at
    /\ notes' = Put(notes, n, draft)
    /\ draft' = NoDraft
    /\ at' = {}
    /\ phase' = "notes"
    /\ UNCHANGED <<attachments, coming, records, model, aborted, pending, unread,
                   todo, ticked, gallery, bounds>>

(* The temp file cannot be written or renamed.                             *)
ReplaceFails ==
    /\ phase = "replace"
    /\ faults < MaxFaults
    /\ faults' = faults + 1
    /\ draft' = NoDraft
    /\ at' = {}
    /\ phase' = "notes"
    /\ UNCHANGED <<vault, records, model, aborted, pending, unread, todo, ticked,
                   gallery, edits, kills, dropped>>

EndPass ==
    /\ phase = "notes"
    /\ todo = {}
    /\ Return(FALSE)
    /\ UNCHANGED <<vault, records, model, bounds>>

PassStep ==
    \/ ListFails \/ ListClips \/ WalkNotes \/ NothingToDo \/ WalkTicks
    \/ BuildGallery \/ EndPass
    \/ \E id \in pending : ScoreClip(id)
    \/ \E n \in unread : ScanNote(n) \/ ReadTick(n) \/ TickFails(n)
    \/ \E n \in todo : Judge(n)
    \/ \E n \in at : Splice(n) \/ Replace(n)

Fault ==
    \/ ReplaceFails
    \/ \E id \in pending : ClipFails(id)
    \/ \E id \in attachments : DecoderFails(id)
    \/ \E n \in todo : JudgeFails(n)

----
(* What comes between the steps of a pass.                                 *)

(* The ingest service links the audio before the note that embeds it.      *)
Attach(n) ==
    /\ n \in coming
    /\ RecordingOf[n] \notin attachments
    /\ attachments' = attachments \cup {RecordingOf[n]}
    /\ UNCHANGED <<notes, coming, records, model, pass, bounds>>

Arrive(n) ==
    /\ n \in coming
    /\ RecordingOf[n] \in attachments
    /\ notes' = Put(notes, n, [NoDraft EXCEPT !.recent = TRUE])
    /\ coming' = coming \ {n}
    /\ UNCHANGED <<attachments, records, model, pass, bounds>>

(* The owner ticks or unticks the box, deletes the voice fields to have    *)
(* the note scored again, breaks the frontmatter, or mends it.             *)
Edits(x) ==
    IF x.text # "ok" THEN {[x EXCEPT !.text = "ok", !.recent = TRUE]}
    ELSE {[x EXCEPT !.ticked = ~@, !.recent = TRUE],
          [x EXCEPT !.voice = NoVoice, !.recent = TRUE],
          [x EXCEPT !.text = "plain", !.recent = TRUE],
          [x EXCEPT !.text = "garbled", !.recent = TRUE]}

(* The owner's edits and deletions are bounded together.                   *)
OwnerMayAct == edits < MaxEdits /\ edits + Cardinality(dropped) < MaxEdits

Edit(n) ==
    /\ OwnerMayAct
    /\ edits' = edits + 1
    /\ \/ \E x \in Edits(notes[n]) : notes' = Put(notes, n, x)
       \/ notes' = [m \in DOMAIN notes \ {n} |-> notes[m]]
    /\ UNCHANGED <<attachments, coming, records, model, pass, faults, kills, dropped>>

(* The owner deletes the record of a recording, at most once each.         *)
NoRecord == [kind |-> "none", model |-> NoModel, best |-> NoScore, band |-> "none"]

DropRecord(id) ==
    /\ OwnerMayAct
    /\ id \notin dropped
    /\ records[id].kind # "none"
    /\ records' = [records EXCEPT ![id] = NoRecord]
    /\ dropped' = dropped \cup {id}
    /\ UNCHANGED <<vault, model, pass, edits, faults, kills>>

(* An hour in which no note is edited.                                     *)
HourPasses ==
    /\ \E n \in DOMAIN notes : notes[n].recent
    /\ notes' = [n \in DOMAIN notes |-> [notes[n] EXCEPT !.recent = FALSE]]
    /\ UNCHANGED <<attachments, coming, records, model, pass, bounds>>

(* The process is killed and started again, with the same model or not.    *)
Kill ==
    /\ kills < MaxKills
    /\ kills' = kills + 1
    /\ model' \in Models
    /\ Return(FALSE)
    /\ UNCHANGED <<vault, records, edits, faults, dropped>>

Step ==
    \/ PassStep \/ Fault \/ HourPasses \/ Kill
    \/ \E n \in coming : Attach(n) \/ Arrive(n)
    \/ \E n \in DOMAIN notes : Edit(n)
    \/ \E id \in Recordings : DropRecord(id)

(* The history of the tick boxes, from the start of a pass to its gallery. *)
Watched == phase' \in {"clips", "scan", "gallery"}
Watch ==
    /\ everTicked' = IF Watched THEN everTicked \cup TickedNow' ELSE {}
    /\ stayedTicked' = IF ~Watched THEN {}
                       ELSE IF phase = "idle" THEN TickedNow'
                       ELSE stayedTicked \cap TickedNow'

Next == Step /\ Watch

Spec == Init /\ [][Next]_vars

(* The timer starts a pass every hour, a pass runs to its end, and hours   *)
(* go by.                                                                  *)
FairSpec == Spec /\ WF_vars(PassStep /\ Watch) /\ WF_vars(HourPasses /\ Watch)

----
(* Properties.                                                             *)

(* Types, and what the locals hold in each phase of a pass.                *)
TypeOK ==
    /\ DOMAIN notes \subseteq NoteNames /\ \A n \in DOMAIN notes : notes[n] \in Note
    /\ attachments \subseteq Recordings
    /\ records \in [Recordings -> Record]
    /\ coming \subseteq Coming
    /\ model \in Models
    /\ phase \in Phases
    /\ pending \subseteq Recordings /\ (pending # {} => phase = "clips")
    /\ unread \subseteq NoteNames /\ (unread # {} => phase \in {"scan", "gallery"})
    /\ todo \subseteq {n \in NoteNames : RecordingOf[n] # NoRecording}
    /\ ticked \subseteq Recordings
    /\ gallery \subseteq [id : Recordings, model : Models]
    /\ draft \in Note
    /\ IF phase \in {"splice", "replace"} THEN \E n \in NoteNames : at = {n} ELSE at = {}
    /\ aborted \in BOOLEAN
    /\ edits \in 0..MaxEdits /\ faults \in 0..MaxFaults /\ kills \in 0..MaxKills
    /\ dropped \subseteq Recordings
    /\ everTicked \subseteq NoteNames /\ stayedTicked \subseteq NoteNames

(* A pass scores against what the owner has ticked and nothing else: every *)
(* entry was ticked while the pass ran, and what was ticked all the while  *)
(* and can be scored is an entry.  Unticking takes effect in the next      *)
(* pass, unscoreable clips never count (VOICE.md section 6).               *)
GalleryIsTicked ==
    [][phase = "gallery" /\ phase' = "notes" =>
          /\ \A e \in gallery' : \E n \in everTicked : RecordingOf[n] = e.id
          /\ \A e \in gallery' : e.id \in attachments /\ Sound[e.id] = "speech"
          /\ \A n \in stayedTicked :
                /\ RecordingOf[n] # NoRecording
                /\ records[RecordingOf[n]].kind = "embedded"
                => \E e \in gallery' : e.id = RecordingOf[n]
      ]_vars

(* The voice a note gets is its own recording's: whether there was speech  *)
(* to score, whether there was a gallery, and the band of the closest      *)
(* entry, through cached records, skipped clips and interrupted passes.    *)
(* Only a failing operation makes speech unscoreable.                      *)
Publishes(n) ==
    phase = "replace" /\ n \in at /\ notes' # notes /\ phase' = "notes"
VoiceIsDeserved ==
    [][\A n \in at : Publishes(n) =>
          LET v == notes'[n].voice
              sims == {Cosine[RecordingOf[n]][e.id] : e \in gallery}
              speech == Sound[RecordingOf[n]] = "speech"
              heard == v.band # "unscoreable"
          IN  /\ heard => speech
              /\ speech /\ faults = 0 => heard
              /\ v.band = "no-gallery" <=> heard /\ sims = {}
              /\ v.band = "likely-owner" <=> heard /\ \E s \in sims : s >= 50
              /\ v.band = "unlikely-owner" <=> heard /\ sims # {} /\ \A s \in sims : s < 30
      ]_vars

(* When a band reaches a note, the record outside the vault says the same: *)
(* the record is written first and a kill in between leaves the note as it *)
(* was (VOICE.md section 5 step 7), unless the owner deletes the record.   *)
RecordBeforeNote ==
    [][\A n \in at :
          Publishes(n) /\ notes'[n].voice.band \in Bands /\ RecordingOf[n] \notin dropped =>
          /\ records[RecordingOf[n]].band = notes'[n].voice.band
          /\ records[RecordingOf[n]].best = notes'[n].voice.score
      ]_vars

(* Only the owner takes a voice away or makes room for another: a pass     *)
(* never writes a note that carries one, whatever it read earlier.         *)
ScoredOnce ==
    [][edits' = edits =>
          \A n \in DOMAIN notes :
              notes[n].voice # NoVoice => n \in DOMAIN notes' /\ notes'[n].voice = notes[n].voice
      ]_vars

(* The pass keeps the promise of VoiceBook: a note is given a voice in one *)
(* step, one that its recording can have, and once, whatever the pass read *)
(* before the owner or the ingest service changed the vault.               *)
Givable ==
    [band : Bands \cup {"unscoreable", "no-gallery"},
     score : {NoScore} \cup {Cosine[x][y] : x, y \in Recordings}, model : Models]
Book == INSTANCE VoiceBook
          WITH Voices <- Givable, book <- [n \in DOMAIN notes |-> notes[n].voice]
ImplementsBook == Book!Spec

(* The owner's input: no step of the scorer turns a tick on or off, or     *)
(* brings back a deleted note (VOICE.md sections 7 and 10).                *)
TickIsTheOwners ==
    [][edits' = edits =>
          \A n \in DOMAIN notes' \ coming :
              n \in DOMAIN notes /\ notes'[n].ticked = notes[n].ticked
      ]_vars

(* voiceModel names the model that made the embedding that was scored.     *)
VoiceModelIsTrue ==
    \A n \in DOMAIN notes :
        notes[n].voice.band \in Bands =>
            records[RecordingOf[n]].model = notes[n].voice.model

(* "One bad note must never abort the whole sweep" (gallery.py, server.py).*)
BadNoteIsolated == ~aborted

(* Every note with a recording gets its voice, with others that fail, with *)
(* failing writes, kills and edits: only a note or a record that cannot be *)
(* decoded holds up the rest, for as long as it is there.                  *)
Waiting(n) ==
    /\ n \in DOMAIN notes
    /\ HasRecording(n) /\ ~AlreadyScored(n)
    /\ ~Raises(RecordingOf[n])
Blocked ==
    \/ \E n \in DOMAIN notes : notes[n].text = "garbled"
    \/ \E id \in attachments : Undecodable(id)
EveryNoteScored ==
    []<>~Blocked => \A n \in NoteNames : Waiting(n) ~> ~Waiting(n)

(* The records are a cache: one that is deleted, torn, or lost before it   *)
(* was written is made again from the clip, whatever else fails.           *)
Unrecorded(id) ==
    /\ id \in attachments /\ records[id].kind \in {"none", "corrupt"}
    /\ Decodes(id) => Sound[id] # "poison"
RecordsRebuilt ==
    []<>~Blocked => \A id \in Recordings : Unrecorded(id) ~> ~Unrecorded(id)

(* "Deleting its record re-scores that note" (VOICE.md section 5): a note  *)
(* that was scored before there was a gallery, and is ticked now, is given *)
(* a band again once its record is gone.                                   *)
Stale(n) ==
    /\ n \in DOMAIN notes /\ RecordingOf[n] \in dropped
    /\ notes[n].text = "ok" /\ notes[n].ticked /\ notes[n].voice.band = "no-gallery"
    /\ Sound[RecordingOf[n]] = "speech"
DropRescores ==
    \A n \in NoteNames : Stale(n) ~> ~Stale(n)
=============================================================================
