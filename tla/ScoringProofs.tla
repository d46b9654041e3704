---------------------------- MODULE ScoringProofs ---------------------------
(***************************************************************************)
(* Proofs about Scoring, for any recordings, vaults, records and models    *)
(* and any number of edits, failures and kills.                            *)
(***************************************************************************)
EXTENDS Scoring, TLAPS, WellFoundedInduction

(* A set of similarities has a greatest one.                               *)
LEMMA GreatestExists ==
    ASSUME NEW T \in SUBSET (-100..100), T # {}
    PROVE  \E s \in T : \A t \in T : t <= s
  <1> DEFINE Below == {100 - t : t \in T}
             Less == {ss \in Nat \X Nat : ss[1] < ss[2]}
  <1>1. Below \subseteq Nat /\ Below # {}
    <2>1. \A t \in -100..100 : 100 - t \in Nat
      OBVIOUS
    <2> QED
      BY <2>1
  <1>2. IsWellFoundedOn(Less, Nat)
    BY NatLessThanWellFounded DEF OpToRel
  <1>3. \E x \in Below : \A y \in Below : <<y, x>> \notin Less
    <2> HIDE DEF Below, Less
    <2> QED
      BY <1>1, <1>2, WFMin
  <1>4. PICK s \in T : \A y \in Below : <<y, 100 - s>> \notin Less
    BY <1>3
  <1>5. \A t \in T : t <= s
    <2> SUFFICES ASSUME NEW t \in T PROVE t <= s
      OBVIOUS
    <2>1. 100 - t \in Below /\ 100 - t \in Nat /\ 100 - s \in Nat
      OBVIOUS
    <2>2. ~(100 - t < 100 - s)
      BY <1>4, <2>1
    <2> QED
      BY <2>2
  <1> QED
    BY <1>5

(* The best similarity is one of those of the gallery, and the greatest.   *)
LEMMA BestType ==
    ASSUME NEW id \in Recordings, NEW entries \in SUBSET [id : Recordings, model : Models],
           entries # {}
    PROVE  /\ Best(id, entries) \in -100..100
           /\ \E e \in entries : Best(id, entries) = Cosine[id][e.id]
           /\ \A e \in entries : Cosine[id][e.id] <= Best(id, entries)
  <1> DEFINE Sims == {Cosine[id][e.id] : e \in entries}
  <1>1. Sims \in SUBSET (-100..100) /\ Sims # {}
    BY RecordingAssumption
  <1>2. \E s \in Sims : \A t \in Sims : t <= s
    <2> HIDE DEF Sims
    <2> QED
      BY <1>1, GreatestExists
  <1>3. \E s \in Sims : \A e \in entries : Cosine[id][e.id] <= s
    BY <1>2
  <1>4. Best(id, entries) \in Sims /\ \A e \in entries : Cosine[id][e.id] <= Best(id, entries)
    BY <1>3 DEF Best
  <1> QED
    BY <1>1, <1>4

(* What the pass computes has the type it should.                          *)
LEMMA NoteTypes ==
    /\ NoVoice \in Voice
    /\ NoDraft \in Note
    /\ \A x \in Note, v \in Voice :
          /\ [x EXCEPT !.voice = v] \in Note
          /\ [x EXCEPT !.voice = v, !.recent = TRUE] \in Note
    /\ \A x \in Note : Edits(x) \subseteq Note /\ [x EXCEPT !.recent = FALSE] \in Note
  <1>1. NoVoice \in Voice
    BY DEF NoVoice, Voice
  <1>2. NoDraft \in Note
    BY <1>1 DEF NoDraft, Note
  <1>3. ASSUME NEW x \in Note, NEW v \in Voice
        PROVE  /\ [x EXCEPT !.voice = v] \in Note
               /\ [x EXCEPT !.voice = v, !.recent = TRUE] \in Note
    BY <1>3 DEF Note
  <1>4. ASSUME NEW x \in Note
        PROVE  Edits(x) \subseteq Note /\ [x EXCEPT !.recent = FALSE] \in Note
    <2> HIDE DEF Voice
    <2>1. x.ticked \in BOOLEAN /\ (~x.ticked) \in BOOLEAN
      BY <1>4 DEF Note
    <2> QED
      BY <1>1, <1>4, <2>1 DEF Edits, Note
  <1> QED
    BY <1>1, <1>2, <1>3, <1>4

LEMMA RecordTypes ==
    ASSUME TypeOK, NEW id \in Recordings
    PROVE  /\ Unscoreable \in Record
           /\ EnsureScored(id) \in Record
           /\ EnsureScored(id).kind = "embedded" => Cached(id) \/ EnsureScored(id).model = model
  BY DEF TypeOK, Unscoreable, EnsureScored, Record, Cached

(* A record of an embedding names a model.                                 *)
ModelRecorded ==
    \A id \in Recordings : records[id].kind = "embedded" => records[id].model \in Models

LEMMA JudgedTypes ==
    ASSUME TypeOK, NEW id \in Recordings
    PROVE  /\ Judged(id) \in Record
           /\ Judged(id).kind = EnsureScored(id).kind
           /\ Judged(id).model = EnsureScored(id).model
           /\ VoiceFor(id) \in Voice
           /\ VoiceFor(id).band \in Bands =>
                 /\ Judged(id).band = VoiceFor(id).band
                 /\ Judged(id).best = VoiceFor(id).score
  <1>1. gallery # {} => Best(id, gallery) \in -100..100
    BY BestType DEF TypeOK
  <1>2. gallery # {} => BandFor(Best(id, gallery)) \in Bands
    BY DEF BandFor, Bands
  <1>3. EnsureScored(id) \in Record
    BY RecordTypes
  <1> HIDE DEF Best
  <1>4. CASE EnsureScored(id).kind = "unscoreable"
    BY <1>3, <1>4 DEF Judged, Compared, VoiceFor, Voice, TypeOK, Bands, NoScore
  <1>5. CASE EnsureScored(id).kind # "unscoreable" /\ gallery = {}
    BY <1>3, <1>5 DEF Judged, Compared, VoiceFor, Voice, TypeOK, Bands, NoScore
  <1>6. CASE EnsureScored(id).kind # "unscoreable" /\ gallery # {}
    <2>1. EnsureScored(id).kind = "embedded"
      BY <1>6 DEF EnsureScored, Cached, Unscoreable
    <2>2. Scored(id) \in Record
      BY <1>1, <1>2, <1>3, <1>6 DEF Scored, Record
    <2> QED
      BY <1>1, <1>2, <1>3, <1>6, <2>1, <2>2
         DEF Judged, Compared, Scored, VoiceFor, Voice, TypeOK, Record
  <1> QED
    BY <1>4, <1>5, <1>6

----
(* Types.  The history apart, each step keeps them; and Watch follows the  *)
(* notes.                                                                  *)
Core ==
    /\ DOMAIN notes \subseteq NoteNames /\ \A n \in DOMAIN notes : notes[n] \in Note
    /\ attachments \subseteq Recordings
    /\ records \in [Recordings -> Record] /\ ModelRecorded
    /\ coming \subseteq Coming
    /\ model \in Models
    /\ phase \in Phases
    /\ pending \subseteq Recordings /\ (pending # {} => phase = "clips")
    /\ unread \subseteq NoteNames /\ (unread # {} => phase \in {"scan", "gallery"})
    /\ todo \subseteq {n \in NoteNames : RecordingOf[n] # NoRecording}
    /\ ticked \subseteq Recordings
    /\ gallery \subseteq [id : Recordings, model : Models]
    /\ draft \in Note
    /\ IF phase \in {"splice", "replace"} THEN \E n \in NoteNames : at = {n} ELSE at = {}
    /\ aborted \in BOOLEAN
    /\ edits \in 0..MaxEdits /\ faults \in 0..MaxFaults /\ kills \in 0..MaxKills
    /\ dropped \subseteq Recordings

LEMMA CoreType ==
    TypeOK /\ ModelRecorded <=>
        Core /\ everTicked \subseteq NoteNames /\ stayedTicked \subseteq NoteNames
  BY DEF Core, TypeOK

LEMMA InitCore == Init => TypeOK /\ ModelRecorded
  <1> SUFFICES ASSUME Init PROVE TypeOK /\ ModelRecorded
    OBVIOUS
  <1>1. NoDraft \in Note
    BY NoteTypes
  <1>2. attachments \subseteq Recordings
    BY RecordingAssumption, ScorerAssumption DEF Init
  <1>3. /\ DOMAIN notes \subseteq NoteNames /\ \A n \in DOMAIN notes : notes[n] \in Note
        /\ records \in [Recordings -> Record] /\ ModelRecorded
    BY ScorerAssumption DEF Init, ModelRecorded
  <1>4. 0 \in 0..MaxEdits /\ 0 \in 0..MaxFaults /\ 0 \in 0..MaxKills
    BY ScorerAssumption
  <1> QED
    BY <1>1, <1>2, <1>3, <1>4 DEF Init, TypeOK, Phases

LEMMA ReturnCore ==
    ASSUME Core, NEW failed \in BOOLEAN, Return(failed),
           UNCHANGED <<vault, records, bounds>>, model' \in Models
    PROVE  Core'
  BY NoteTypes DEF Core, Return, Forget, vault, bounds, Phases, ModelRecorded

(* The pass: its clips, its notes, its gallery.                            *)
LEMMA ClipsCore ==
    ASSUME TypeOK, ModelRecorded
    PROVE  /\ ListFails \/ ListClips => Core'
           /\ \A id \in pending : ScoreClip(id) \/ ClipFails(id) => Core'
           /\ \A id \in attachments : DecoderFails(id) => Core'
  <1>0. Core
    BY CoreType
  <1> USE DEF Core
  <1>1. CASE ListFails
    BY <1>0, <1>1, ReturnCore DEF ListFails
  <1>2. ListClips => Core'
    BY <1>0 DEF ListClips, vault, bounds, Phases, ModelRecorded
  <1>3. ASSUME NEW id \in pending, ScoreClip(id)
        PROVE  Core'
    <2>1. id \in Recordings /\ EnsureScored(id) \in Record
      BY <1>0, RecordTypes
    <2>2. EnsureScored(id).kind = "embedded" => EnsureScored(id).model \in Models
      BY <1>0, <2>1, RecordTypes DEF ModelRecorded, EnsureScored, Unscoreable
    <2>3. records' \in [Recordings -> Record] /\ ModelRecorded'
      BY <1>0, <1>3, <2>1, <2>2 DEF ScoreClip, ModelRecorded
    <2> QED
      BY <1>0, <1>3, <2>3 DEF ScoreClip, vault, bounds
  <1>4. ASSUME NEW id \in pending, ClipFails(id)
        PROVE  Core'
    BY <1>0, <1>4, ScorerAssumption DEF ClipFails, vault, ModelRecorded
  <1>5. ASSUME NEW id \in attachments, DecoderFails(id)
        PROVE  Core'
    <2>1. id \in Recordings /\ Unscoreable \in Record /\ Unscoreable.kind = "unscoreable"
      BY <1>0, RecordTypes DEF Unscoreable
    <2>2. records' \in [Recordings -> Record] /\ ModelRecorded'
      BY <1>0, <1>5, <2>1 DEF DecoderFails, ModelRecorded
    <2> QED
      BY <1>0, <1>5, <2>2, ScorerAssumption DEF DecoderFails, vault
  <1> QED
    BY <1>1, <1>2, <1>3, <1>4, <1>5

LEMMA GalleryCore ==
    ASSUME TypeOK, ModelRecorded
    PROVE  /\ WalkNotes \/ NothingToDo \/ WalkTicks \/ BuildGallery => Core'
           /\ \A n \in unread : ScanNote(n) \/ ReadTick(n) \/ TickFails(n) => Core'
  <1>0. Core
    BY CoreType
  <1>1. CASE WalkNotes \/ WalkTicks
    BY <1>0, <1>1 DEF WalkNotes, WalkTicks, Core, vault, bounds, Phases, ModelRecorded
  <1>2. CASE NothingToDo
    BY <1>0, <1>2, ReturnCore DEF NothingToDo, Core
  <1>3. CASE BuildGallery /\ \E id \in ticked : Undecodable(id)
    BY <1>0, <1>3, ReturnCore DEF BuildGallery, Core
  <1>4. CASE BuildGallery /\ ~\E id \in ticked : Undecodable(id)
    <2>1. Entries \subseteq [id : Recordings, model : Models]
      BY <1>0 DEF Entries, Core, ModelRecorded
    <2> QED
      BY <1>0, <1>4, <2>1 DEF BuildGallery, Core, vault, bounds, Phases, ModelRecorded
  <1>5. ASSUME NEW n \in unread, ScanNote(n)
        PROVE  Core'
    <2>1. HasRecording(n) => n \in {m \in NoteNames : RecordingOf[m] # NoRecording}
      BY <1>0 DEF HasRecording, Core
    <2> QED
      BY <1>0, <1>5, <2>1 DEF ScanNote, Core, vault, bounds, ModelRecorded
  <1>6. ASSUME NEW n \in unread, ReadTick(n)
        PROVE  Core'
    <2>1. HasRecording(n) => RecordingOf[n] \in Recordings
      BY <1>0, RecordingAssumption DEF HasRecording, Core
    <2> QED
      BY <1>0, <1>6, <2>1 DEF ReadTick, Core, vault, bounds, ModelRecorded
  <1>7. ASSUME NEW n \in unread, TickFails(n)
        PROVE  Core'
    BY <1>0, <1>7, ReturnCore DEF TickFails, Core
  <1> QED
    BY <1>1, <1>2, <1>3, <1>4, <1>5, <1>6, <1>7

(* The pass: its notes.                                                    *)
LEMMA NotesCore ==
    ASSUME TypeOK, ModelRecorded
    PROVE  /\ \A n \in todo : Judge(n) \/ JudgeFails(n) => Core'
           /\ \A n \in at : Splice(n) \/ Replace(n) => Core'
           /\ ReplaceFails \/ EndPass => Core'
  <1>0. Core
    BY CoreType
  <1>1. \A n \in todo : n \in NoteNames /\ RecordingOf[n] \in Recordings
    BY <1>0, RecordingAssumption DEF Core
  <1>2. ASSUME NEW id \in Recordings
        PROVE  /\ [records EXCEPT ![id] = EnsureScored(id)] \in [Recordings -> Record]
               /\ [records EXCEPT ![id] = Judged(id)] \in [Recordings -> Record]
               /\ EnsureScored(id).kind = "embedded" => EnsureScored(id).model \in Models
               /\ Judged(id).kind = "embedded" => Judged(id).model \in Models
    BY <1>0, <1>2, RecordTypes, JudgedTypes DEF Core, ModelRecorded, EnsureScored, Unscoreable
  <1>3. ASSUME NEW n \in todo, Judge(n)
        PROVE  Core'
    <2>1. CASE Raises(RecordingOf[n])
      BY <1>0, <1>3, <2>1 DEF Judge, Core, vault, bounds, ModelRecorded
    <2>2. CASE ~Raises(RecordingOf[n])
      <3> DEFINE id == RecordingOf[n]
      <3>1. id \in Recordings /\ n \in NoteNames
        BY <1>1
      <3>2. records' = [records EXCEPT ![id] = Judged(id)]
        BY <1>3, <2>2 DEF Judge
      <3>3. records' \in [Recordings -> Record]
        BY <1>2, <3>1, <3>2
      <3>4. ModelRecorded'
        <4> HIDE DEF id
        <4> QED
          BY <1>0, <1>2, <3>1, <3>2 DEF Core, ModelRecorded
      <3>5. draft' \in Note
        <4>1. VoiceFor(id) \in Voice
          BY <3>1, JudgedTypes
        <4>2. draft' = [NoDraft EXCEPT !.voice = VoiceFor(id)]
          BY <1>3, <2>2 DEF Judge
        <4> QED
          BY <4>1, <4>2, NoteTypes
      <3> QED
        BY <1>0, <1>3, <2>2, <3>1, <3>3, <3>4, <3>5 DEF Judge, Core, vault, bounds, Phases
    <2> QED
      BY <2>1, <2>2
  <1>4. ASSUME NEW n \in todo, JudgeFails(n)
        PROVE  Core'
    <2> DEFINE id == RecordingOf[n]
    <2>1. id \in Recordings
      BY <1>1
    <2>2. records' = records \/ records' = [records EXCEPT ![id] = EnsureScored(id)]
      BY <1>4 DEF JudgeFails
    <2>3. records' \in [Recordings -> Record] /\ ModelRecorded'
      <3> HIDE DEF id
      <3> QED
        BY <1>0, <1>2, <2>1, <2>2 DEF Core, ModelRecorded
    <2> QED
      BY <1>0, <1>4, <2>3, ScorerAssumption DEF JudgeFails, Core, vault
  <1>5. ASSUME NEW n \in at
        PROVE  n \in NoteNames /\ at = {n} /\ phase \in {"splice", "replace"}
    BY <1>0, <1>5 DEF Core
  <1>6. ASSUME NEW n \in at, Splice(n)
        PROVE  Core'
    <2>1. draft.voice \in Voice
      BY <1>0 DEF Core, Note
    <2>2. draft' \in Note
      <3>1. CASE Readable(n) /\ notes[n].text = "ok" /\ ~AlreadyScored(n)
        <4>1. notes[n] \in Note
          BY <1>0, <3>1 DEF Readable, Core
        <4>2. draft' = [notes[n] EXCEPT !.voice = draft.voice, !.recent = TRUE]
          BY <1>6, <3>1 DEF Splice
        <4> QED
          BY <2>1, <4>1, <4>2, NoteTypes
      <3>2. CASE ~(Readable(n) /\ notes[n].text = "ok" /\ ~AlreadyScored(n))
        BY <1>6, <3>2, NoteTypes DEF Splice
      <3> QED
        BY <3>1, <3>2
    <2> QED
      BY <1>0, <1>5, <1>6, <2>2 DEF Splice, Core, vault, bounds, Phases, ModelRecorded
  <1>7. ASSUME NEW n \in at, Replace(n)
        PROVE  Core'
    <2>1. DOMAIN notes' \subseteq NoteNames /\ \A m \in DOMAIN notes' : notes'[m] \in Note
      BY <1>0, <1>5, <1>7 DEF Replace, Put, Core
    <2>2. draft' \in Note
      BY <1>7, NoteTypes DEF Replace
    <2> QED
      BY <1>0, <1>7, <2>1, <2>2 DEF Replace, Core, bounds, Phases, ModelRecorded
  <1>8. CASE ReplaceFails
    <2>1. faults' \in 0..MaxFaults
      BY <1>0, <1>8, ScorerAssumption DEF ReplaceFails, Core
    <2>2. NoDraft \in Note
      BY NoteTypes
    <2> QED
      BY <1>0, <1>8, <2>1, <2>2 DEF ReplaceFails, Core, vault, Phases, ModelRecorded
  <1>9. CASE EndPass
    BY <1>0, <1>9, ReturnCore DEF EndPass, Core
  <1> QED
    BY <1>3, <1>4, <1>6, <1>7, <1>8, <1>9

(* What comes between the steps of a pass.                                 *)
LEMMA OthersCore ==
    ASSUME TypeOK, ModelRecorded
    PROVE  /\ HourPasses \/ Kill => Core'
           /\ \A n \in coming : Attach(n) \/ Arrive(n) => Core'
           /\ \A n \in DOMAIN notes : Edit(n) => Core'
           /\ \A id \in Recordings : DropRecord(id) => Core'
  <1>0. Core
    BY CoreType
  <1>1. CASE HourPasses
    BY <1>0, <1>1, NoteTypes DEF HourPasses, Core, pass, locals, bounds, ModelRecorded
  <1>2. CASE Kill
    <2>1. kills' \in 0..MaxKills
      BY <1>0, <1>2, ScorerAssumption DEF Kill, Core
    <2>2. NoDraft \in Note
      BY NoteTypes
    <2> QED
      BY <1>0, <1>2, <2>1, <2>2
         DEF Kill, Return, Forget, Core, vault, Phases, ModelRecorded
  <1>3. ASSUME NEW n \in coming, Attach(n)
        PROVE  Core'
    BY <1>0, <1>3, ScorerAssumption DEF Attach, Core, pass, locals, bounds, ModelRecorded
  <1>4. ASSUME NEW n \in coming, Arrive(n)
        PROVE  Core'
    <2>1. [NoDraft EXCEPT !.recent = TRUE] \in Note
      BY NoteTypes DEF Note
    <2> QED
      BY <1>0, <1>4, <2>1, ScorerAssumption
         DEF Arrive, Put, Core, pass, locals, bounds, ModelRecorded
  <1>5. ASSUME NEW n \in DOMAIN notes, Edit(n)
        PROVE  Core'
    <2>1. DOMAIN notes' \subseteq NoteNames /\ \A m \in DOMAIN notes' : notes'[m] \in Note
      BY <1>0, <1>5, NoteTypes DEF Edit, Put, Core
    <2>2. edits' \in 0..MaxEdits
      BY <1>0, <1>5, ScorerAssumption DEF Edit, OwnerMayAct, Core
    <2> QED
      BY <1>0, <1>5, <2>1, <2>2 DEF Edit, Core, pass, locals, ModelRecorded
  <1>6. ASSUME NEW id \in Recordings, DropRecord(id)
        PROVE  Core'
    <2>1. NoRecord \in Record /\ NoRecord.kind = "none"
      BY DEF NoRecord, Record, NoScore
    <2>2. records' \in [Recordings -> Record] /\ ModelRecorded'
      BY <1>0, <1>6, <2>1 DEF DropRecord, Core, ModelRecorded
    <2> QED
      BY <1>0, <1>6, <2>2 DEF DropRecord, Core, vault, pass, locals
  <1> QED
    BY <1>1, <1>2, <1>3, <1>4, <1>5, <1>6

LEMMA StepCore == TypeOK /\ ModelRecorded /\ Step => Core'
  BY ClipsCore, GalleryCore, NotesCore, OthersCore DEF Step, PassStep, Fault

LEMMA TypeStep == TypeOK /\ ModelRecorded /\ [Next]_vars => TypeOK' /\ ModelRecorded'
  <1> SUFFICES ASSUME TypeOK, ModelRecorded, [Next]_vars PROVE TypeOK' /\ ModelRecorded'
    OBVIOUS
  <1>1. CASE UNCHANGED vars
    BY <1>1 DEF vars, vault, pass, locals, bounds, history, TypeOK, ModelRecorded
  <1>2. CASE Next
    <2>1. Core'
      BY <1>2, StepCore DEF Next
    <2>2. TickedNow' \subseteq NoteNames
      BY <2>1 DEF Core, TickedNow
    <2>3. everTicked' \subseteq NoteNames /\ stayedTicked' \subseteq NoteNames
      BY <1>2, <2>2, CoreType DEF Next, Watch
    <2> QED
      BY <2>1, <2>3 DEF Core, TypeOK
  <1> QED
    BY <1>1, <1>2

(* The pass's locals, the notes and the records keep their types, and a    *)
(* score its range, whatever fails (server.py, run_sweep_pass).            *)
THEOREM ScoringTypeCorrect == Spec => []TypeOK
  <1>1. Spec => [](TypeOK /\ ModelRecorded)
    BY InitCore, TypeStep, PTL DEF Spec
  <1> QED
    BY <1>1, PTL

----
(* The note that is being written: it has no voice in the vault when the   *)
(* new content is ready, it is none that ingest has yet to add, and its    *)
(* record says what its draft says.                                        *)
ComingNew == coming \cap (DOMAIN notes \cup unread \cup todo \cup at) = {}

Unvoiced ==
    phase = "replace" => \A n \in at : n \in DOMAIN notes => notes[n].voice = NoVoice

DraftRecorded ==
    phase \in {"splice", "replace"} /\ draft.voice.band \in Bands =>
        \A n \in at : RecordingOf[n] \notin dropped =>
            /\ records[RecordingOf[n]].band = draft.voice.band
            /\ records[RecordingOf[n]].best = draft.voice.score

Writing == ComingNew /\ Unvoiced /\ DraftRecorded

LEMMA InitWriting == Init => Writing
  BY DEF Init, Writing, ComingNew, Unvoiced, DraftRecorded

(* A step that neither changes a note nor is at one.                       *)
LEMMA ElsewhereWriting ==
    ASSUME Writing, UNCHANGED <<notes, coming>>, phase' \notin {"splice", "replace"},
           at' \subseteq at,
           todo' \subseteq todo \cup unread,
           unread' \subseteq unread \cup DOMAIN notes
    PROVE  Writing'
  BY DEF Writing, ComingNew, Unvoiced, DraftRecorded

LEMMA ClipsWriting ==
    ASSUME TypeOK, Writing
    PROVE  /\ ListFails \/ ListClips \/ WalkNotes \/ NothingToDo => Writing'
           /\ \A id \in pending : ScoreClip(id) \/ ClipFails(id) => Writing'
           /\ \A n \in unread : ScanNote(n) => Writing'
           /\ \A id \in attachments : DecoderFails(id) => Writing'
  <1>1. CASE ListFails \/ NothingToDo
    BY <1>1, ElsewhereWriting DEF ListFails, NothingToDo, Return, Forget, vault
  <1>2. CASE ListClips \/ WalkNotes
    BY <1>2, ElsewhereWriting DEF ListClips, WalkNotes, vault
  <1>3. ASSUME NEW id \in pending, ScoreClip(id) \/ ClipFails(id)
        PROVE  Writing'
    BY <1>3, ElsewhereWriting DEF ScoreClip, ClipFails, vault
  <1>4. ASSUME NEW n \in unread, ScanNote(n)
        PROVE  Writing'
    BY <1>4, ElsewhereWriting DEF ScanNote, vault
  <1>5. ASSUME NEW id \in attachments, DecoderFails(id)
        PROVE  Writing'
    BY <1>5, ElsewhereWriting DEF DecoderFails, vault
  <1> QED
    BY <1>1, <1>2, <1>3, <1>4, <1>5

LEMMA GalleryWriting ==
    ASSUME TypeOK, Writing
    PROVE  /\ WalkTicks \/ BuildGallery => Writing'
           /\ \A n \in unread : ReadTick(n) \/ TickFails(n) => Writing'
  <1>1. CASE WalkTicks
    BY <1>1, ElsewhereWriting DEF WalkTicks, vault
  <1>2. CASE BuildGallery
    <2>1. /\ UNCHANGED <<notes, coming>> /\ phase' \in {"idle", "notes"}
          /\ at' \subseteq at /\ todo' \subseteq todo /\ unread' \subseteq unread
      BY <1>2 DEF BuildGallery, Return, Forget, vault
    <2> QED
      BY <2>1, ElsewhereWriting
  <1>3. ASSUME NEW n \in unread, ReadTick(n)
        PROVE  Writing'
    BY <1>3, ElsewhereWriting DEF ReadTick, vault
  <1>4. ASSUME NEW n \in unread, TickFails(n)
        PROVE  Writing'
    BY <1>4, ElsewhereWriting DEF TickFails, Return, Forget, vault
  <1> QED
    BY <1>1, <1>2, <1>3, <1>4

LEMMA NotesWriting ==
    ASSUME TypeOK, Writing
    PROVE  /\ ReplaceFails \/ EndPass => Writing'
           /\ \A n \in todo : Judge(n) \/ JudgeFails(n) => Writing'
           /\ \A n \in at : Splice(n) \/ Replace(n) => Writing'
  <1>1. CASE ReplaceFails
    BY <1>1, ElsewhereWriting DEF ReplaceFails, vault
  <1>2. CASE EndPass
    BY <1>2, ElsewhereWriting DEF EndPass, Return, Forget, vault
  <1>3. ASSUME NEW n \in todo, Judge(n)
        PROVE  Writing'
    <2>1. CASE Raises(RecordingOf[n])
      BY <1>3, <2>1, ElsewhereWriting DEF Judge, vault
    <2>2. CASE ~Raises(RecordingOf[n])
      <3> DEFINE id == RecordingOf[n]
      <3>1. id \in Recordings
        BY RecordingAssumption DEF TypeOK
      <3>2. /\ records' = [records EXCEPT ![id] = Judged(id)]
            /\ draft' = [NoDraft EXCEPT !.voice = VoiceFor(id)]
            /\ at' = {n} /\ phase' = "splice" /\ todo' = todo \ {n}
            /\ UNCHANGED <<notes, coming, unread>>
        BY <1>3, <2>2 DEF Judge, vault
      <3>3. ComingNew' /\ Unvoiced'
        BY <3>2 DEF Writing, ComingNew, Unvoiced
      <3>4. draft'.voice = VoiceFor(id) /\ records'[id] = Judged(id)
        <4> HIDE DEF id
        <4> QED
          BY <3>1, <3>2 DEF NoDraft, TypeOK
      <3>5. DraftRecorded'
        BY <3>1, <3>2, <3>4, JudgedTypes DEF DraftRecorded
      <3> QED
        BY <3>3, <3>5 DEF Writing
    <2> QED
      BY <2>1, <2>2
  <1>4. ASSUME NEW n \in todo, JudgeFails(n)
        PROVE  Writing'
    BY <1>4, ElsewhereWriting DEF JudgeFails, vault
  <1>5. ASSUME NEW n \in at
        PROVE  at = {n}
    BY <1>5 DEF TypeOK
  <1>6. ASSUME NEW n \in at, Splice(n)
        PROVE  Writing'
    <2>1. CASE Readable(n) /\ notes[n].text = "ok" /\ ~AlreadyScored(n)
      <3>1. notes[n] \in Note
        BY <2>1 DEF TypeOK, Readable
      <3>2. draft'.voice = draft.voice
        BY <1>6, <2>1, <3>1 DEF Splice, Note
      <3>3. ComingNew' /\ DraftRecorded'
        BY <1>6, <2>1, <3>2 DEF Splice, vault, bounds, Writing, ComingNew, DraftRecorded
      <3>4. Unvoiced'
        BY <1>5, <1>6, <2>1 DEF Splice, vault, Unvoiced, AlreadyScored
      <3> QED
        BY <3>3, <3>4 DEF Writing
    <2>2. CASE ~(Readable(n) /\ notes[n].text = "ok" /\ ~AlreadyScored(n))
      BY <1>6, <2>2, ElsewhereWriting DEF Splice, vault
    <2> QED
      BY <2>1, <2>2
  <1>7. ASSUME NEW n \in at, Replace(n)
        PROVE  Writing'
    BY <1>7 DEF Replace, Put, bounds, Writing, ComingNew, Unvoiced, DraftRecorded
  <1> QED
    BY <1>1, <1>2, <1>3, <1>4, <1>6, <1>7

LEMMA OthersWriting ==
    ASSUME TypeOK, Writing
    PROVE  /\ HourPasses \/ Kill => Writing'
           /\ \A n \in coming : Attach(n) \/ Arrive(n) => Writing'
           /\ \A n \in DOMAIN notes : Edit(n) => Writing'
           /\ \A id \in Recordings : DropRecord(id) => Writing'
  <1>1. CASE HourPasses
    <2>1. \A n \in DOMAIN notes : notes'[n].voice = notes[n].voice
      BY <1>1 DEF HourPasses, TypeOK, Note
    <2>2. DOMAIN notes' = DOMAIN notes
      BY <1>1 DEF HourPasses
    <2> QED
      BY <1>1, <2>1, <2>2
         DEF HourPasses, pass, locals, bounds, Writing, ComingNew, Unvoiced, DraftRecorded
  <1>2. CASE Kill
    BY <1>2, ElsewhereWriting DEF Kill, Return, Forget, vault
  <1>3. ASSUME NEW n \in coming, Attach(n)
        PROVE  Writing'
    BY <1>3 DEF Attach, pass, locals, bounds, Writing, ComingNew, Unvoiced, DraftRecorded
  <1>4. ASSUME NEW n \in coming, Arrive(n)
        PROVE  Writing'
    <2>1. notes'[n].voice = NoVoice
      BY <1>4 DEF Arrive, Put, NoDraft
    <2> QED
      BY <1>4, <2>1
         DEF Arrive, Put, pass, locals, bounds, Writing, ComingNew, Unvoiced, DraftRecorded
  <1>5. ASSUME NEW n \in DOMAIN notes, Edit(n)
        PROVE  Writing'
    <2>1. DOMAIN notes' \subseteq DOMAIN notes
      BY <1>5 DEF Edit, Put
    <2>2. \A x \in Edits(notes[n]) : x.voice \in {notes[n].voice, NoVoice}
      BY DEF Edits, TypeOK, Note
    <2>3. \A m \in DOMAIN notes' : notes'[m].voice \in {notes[m].voice, NoVoice}
      BY <1>5, <2>2 DEF Edit, Put
    <2> QED
      BY <1>5, <2>1, <2>3
         DEF Edit, pass, locals, Writing, ComingNew, Unvoiced, DraftRecorded
  <1>6. ASSUME NEW id \in Recordings, DropRecord(id)
        PROVE  Writing'
    <2>1. \A k \in Recordings : k \notin dropped' => records'[k] = records[k] /\ k \notin dropped
      BY <1>6 DEF DropRecord, TypeOK
    <2>2. \A n \in at : RecordingOf[n] \in Recordings \/ records'[RecordingOf[n]] = records[RecordingOf[n]]
      BY <1>6 DEF DropRecord, TypeOK
    <2>3. UNCHANGED <<notes, coming, phase, at, draft, todo, unread>>
      BY <1>6 DEF DropRecord, vault, pass, locals
    <2> QED
      BY <1>6, <2>1, <2>2, <2>3
         DEF DropRecord, Writing, ComingNew, Unvoiced, DraftRecorded
  <1> QED
    BY <1>1, <1>2, <1>3, <1>4, <1>5, <1>6

LEMMA WritingStep == TypeOK /\ Writing /\ [Next]_vars => Writing'
  <1> SUFFICES ASSUME TypeOK, Writing, [Next]_vars PROVE Writing'
    OBVIOUS
  <1>1. CASE UNCHANGED vars
    BY <1>1 DEF vars, vault, pass, locals, bounds, Writing, ComingNew, Unvoiced, DraftRecorded
  <1>2. CASE Next
    BY <1>2, ClipsWriting, GalleryWriting, NotesWriting, OthersWriting
       DEF Next, Step, PassStep, Fault
  <1> QED
    BY <1>1, <1>2

LEMMA ScoringInvariant == Spec => [](TypeOK /\ ModelRecorded /\ Writing)
  <1>1. Init => TypeOK /\ ModelRecorded /\ Writing
    BY InitCore, InitWriting
  <1>2. TypeOK /\ ModelRecorded /\ Writing /\ [Next]_vars => (TypeOK /\ ModelRecorded /\ Writing)'
    BY TypeStep, WritingStep
  <1> QED
    BY <1>1, <1>2, PTL DEF Spec

LEMMA ScoredOnceStep ==
    ASSUME TypeOK, Writing, Next, edits' = edits, NEW n \in DOMAIN notes,
           notes[n].voice # NoVoice
    PROVE  n \in DOMAIN notes' /\ notes'[n].voice = notes[n].voice
  <1>1. CASE notes' = notes
    BY <1>1
  <1>2. ASSUME NEW m \in at, Replace(m)
        PROVE  n # m /\ n \in DOMAIN notes' /\ notes'[n] = notes[n]
    BY <1>2 DEF Replace, Put, Writing, Unvoiced
  <1>3. ASSUME NEW m \in coming, Arrive(m)
        PROVE  n # m /\ n \in DOMAIN notes' /\ notes'[n] = notes[n]
    BY <1>3 DEF Arrive, Put, Writing, ComingNew
  <1>4. CASE HourPasses
    BY <1>4 DEF HourPasses, TypeOK, Note
  <1>5. ASSUME NEW m \in DOMAIN notes, Edit(m)
        PROVE  FALSE
    BY <1>5 DEF Edit, TypeOK
  <1>6. \/ notes' = notes \/ HourPasses
        \/ \E m \in at : Replace(m)
        \/ \E m \in coming : Arrive(m)
        \/ \E m \in DOMAIN notes : Edit(m)
    BY DEF Next, Step, PassStep, Fault, ListFails, ListClips, WalkNotes, NothingToDo,
           WalkTicks, BuildGallery, EndPass, ScoreClip, ScanNote, ReadTick, TickFails,
           Judge, Splice, ReplaceFails, ClipFails, DecoderFails, JudgeFails, Kill,
           Attach, DropRecord, vault
  <1> QED
    BY <1>1, <1>2, <1>3, <1>4, <1>5, <1>6

(* Whatever a pass read earlier, and whatever fails or is killed, a voice  *)
(* that a note carries stays until the owner takes it away                 *)
(* (splice.py, splice_voice_fields).                                       *)
THEOREM ScoredOnceHolds == Spec => ScoredOnce
  <1> DEFINE Kept == edits' = edits =>
                 \A n \in DOMAIN notes :
                     notes[n].voice # NoVoice =>
                         n \in DOMAIN notes' /\ notes'[n].voice = notes[n].voice
  <1>1. TypeOK /\ Writing /\ [Next]_vars => [Kept]_vars
    BY ScoredOnceStep DEF vars
  <1> QED
    BY <1>1, ScoringInvariant, PTL DEF Spec, ScoredOnce

LEMMA PublishedIsDraft ==
    ASSUME TypeOK, Next, NEW n \in at, Publishes(n)
    PROVE  notes'[n] = draft
  <1>1. \E m \in at : Replace(m)
    BY DEF TypeOK, Publishes, Next, Step, PassStep, Fault, ListFails, ListClips,
         WalkNotes, NothingToDo, WalkTicks, BuildGallery, EndPass, ScoreClip, ScanNote,
         ReadTick, TickFails, Judge, Splice, ReplaceFails, ClipFails, DecoderFails,
         JudgeFails, Kill, Return, Attach, Arrive, Edit, DropRecord, HourPasses,
         vault, pass
  <1>2. at = {n}
    BY DEF TypeOK, Publishes
  <1> QED
    BY <1>1, <1>2 DEF Replace, Put

(* A band in a note is the band of its recording's record, and the score   *)
(* the record's best similarity, when the note is written (server.py,      *)
(* run_sweep_pass).                                                        *)
THEOREM RecordBeforeNoteHolds == Spec => RecordBeforeNote
  <1> DEFINE Backed == \A n \in at :
             Publishes(n) /\ notes'[n].voice.band \in Bands /\ RecordingOf[n] \notin dropped =>
                 /\ records[RecordingOf[n]].band = notes'[n].voice.band
                 /\ records[RecordingOf[n]].best = notes'[n].voice.score
  <1>1. TypeOK /\ Writing /\ [Next]_vars => [Backed]_vars
    <2> SUFFICES ASSUME TypeOK, Writing, Next, NEW n \in at, Publishes(n),
                        notes'[n].voice.band \in Bands, RecordingOf[n] \notin dropped
                 PROVE  /\ records[RecordingOf[n]].band = notes'[n].voice.band
                        /\ records[RecordingOf[n]].best = notes'[n].voice.score
      BY DEF vars
    <2>1. notes'[n] = draft
      BY PublishedIsDraft
    <2> QED
      BY <2>1 DEF Publishes, Writing, DraftRecorded
  <1> QED
    BY <1>1, ScoringInvariant, PTL DEF Spec, RecordBeforeNote

----
(* The refinement.  What is about to be written is a voice that may be     *)
(* given, from the judgement to the rename.                                *)
DraftGivable == phase \in {"splice", "replace"} => draft.voice \in Givable

LEMMA VoiceForGivable ==
    ASSUME TypeOK, NEW id \in Recordings
    PROVE  VoiceFor(id) \in Givable
  <1>1. CASE EnsureScored(id).kind = "unscoreable" \/ gallery = {}
    BY <1>1 DEF VoiceFor, Givable, TypeOK
  <1>2. CASE EnsureScored(id).kind # "unscoreable" /\ gallery # {}
    <2> DEFINE best == Best(id, gallery)
    <2>1. PICK e \in gallery : best = Cosine[id][e.id]
      BY <1>2, BestType DEF TypeOK
    <2>2. e.id \in Recordings
      BY <2>1 DEF TypeOK
    <2>3. best \in {Cosine[x][y] : x, y \in Recordings}
      BY <2>1, <2>2
    <2>4. Scored(id).band = BandFor(best) /\ Scored(id).best = best
      <3>1. EnsureScored(id) \in Record
        BY RecordTypes
      <3> QED
        BY <3>1 DEF Scored, Record
    <2>5. BandFor(best) \in Bands
      BY DEF BandFor, Bands
    <2>6. VoiceFor(id) = [band |-> BandFor(best), score |-> best, model |-> model]
      BY <1>2, <2>4 DEF VoiceFor
    <2> HIDE DEF best
    <2> QED
      BY <2>3, <2>5, <2>6 DEF Givable, TypeOK
  <1> QED
    BY <1>1, <1>2

LEMMA GivableStep == TypeOK /\ DraftGivable /\ [Next]_vars => DraftGivable'
  <1> SUFFICES ASSUME TypeOK, DraftGivable, [Next]_vars PROVE DraftGivable'
    OBVIOUS
  <1>1. CASE phase' \notin {"splice", "replace"}
    BY <1>1 DEF DraftGivable
  <1>2. CASE UNCHANGED <<phase, draft>>
    BY <1>2 DEF DraftGivable
  <1>3. ASSUME NEW n \in todo, Judge(n), phase' = "splice"
        PROVE  DraftGivable'
    <2>1. RecordingOf[n] \in Recordings
      BY RecordingAssumption DEF TypeOK
    <2>2. phase = "notes" /\ ~Raises(RecordingOf[n])
      BY <1>3 DEF Judge
    <2>3. draft' = [NoDraft EXCEPT !.voice = VoiceFor(RecordingOf[n])]
      BY <1>3, <2>2 DEF Judge
    <2>4. draft'.voice = VoiceFor(RecordingOf[n])
      BY <2>3 DEF NoDraft
    <2> QED
      BY <2>1, <2>4, VoiceForGivable DEF DraftGivable
  <1>4. ASSUME NEW n \in at, Splice(n), phase' = "replace"
        PROVE  DraftGivable'
    <2>1. draft' = [notes[n] EXCEPT !.voice = draft.voice, !.recent = TRUE] /\ notes[n] \in Note
      BY <1>4 DEF Splice, TypeOK, Readable
    <2>2. draft'.voice = draft.voice
      BY <2>1 DEF Note
    <2> QED
      BY <1>4, <2>2 DEF Splice, DraftGivable
  <1>5. \/ phase' \notin {"splice", "replace"} \/ UNCHANGED <<phase, draft>>
        \/ \E n \in todo : Judge(n) /\ phase' = "splice"
        \/ \E n \in at : Splice(n) /\ phase' = "replace"
    BY DEF Next, Step, PassStep, Fault, ListFails, ListClips, WalkNotes, NothingToDo,
           WalkTicks, BuildGallery, EndPass, ScoreClip, ScanNote, ReadTick, TickFails,
           Judge, Splice, Replace, ReplaceFails, ClipFails, DecoderFails, JudgeFails, Kill,
           Return, Attach, Arrive, Edit, DropRecord, HourPasses, vars, pass, locals
  <1> QED
    BY <1>1, <1>2, <1>3, <1>4, <1>5

voices == [n \in DOMAIN notes |-> notes[n].voice]

LEMMA BookStep ==
    ASSUME TypeOK, Writing, DraftGivable, Next
    PROVE  Book!Next \/ UNCHANGED Book!vars
  <1>1. CASE UNCHANGED <<notes, edits>>
    BY <1>1 DEF Book!vars
  <1>2. ASSUME NEW n \in at, Replace(n)
        PROVE  Book!Next
    <2>1. n \in NoteNames /\ phase = "replace" /\ draft.voice \in Givable
      BY <1>2 DEF Replace, TypeOK, DraftGivable
    <2>2. notes' = Put(notes, n, draft) /\ edits' = edits
      BY <1>2 DEF Replace, bounds
    <2>3. n \in DOMAIN notes => notes[n].voice = NoVoice
      BY <2>1, <1>2 DEF Writing, Unvoiced
    <2>4. voices' = Book!With(n, draft.voice)
      BY <2>2 DEF voices, Put, Book!With
    <2>5. Book!Give(n)
      BY <2>1, <2>2, <2>3, <2>4 DEF Book!Give, voices
    <2> QED
      BY <2>1, <2>5 DEF Book!Next
  <1>3. ASSUME NEW n \in coming, Arrive(n)
        PROVE  Book!Next
    <2>1. n \in NoteNames /\ n \notin DOMAIN notes
      BY <1>3, ScorerAssumption DEF Writing, ComingNew, TypeOK
    <2>2. notes' = Put(notes, n, [NoDraft EXCEPT !.recent = TRUE]) /\ edits' = edits
      BY <1>3 DEF Arrive, bounds
    <2>3. voices' = Book!With(n, NoVoice)
      BY <2>2 DEF voices, Put, NoDraft, Book!With
    <2>4. Book!Add(n)
      BY <2>1, <2>2, <2>3 DEF Book!Add, voices
    <2> QED
      BY <2>1, <2>4 DEF Book!Next
  <1>4. CASE HourPasses
    <2>1. \A n \in DOMAIN notes : notes'[n].voice = notes[n].voice
      BY <1>4 DEF HourPasses, TypeOK, Note
    <2>2. DOMAIN notes' = DOMAIN notes /\ edits' = edits
      BY <1>4 DEF HourPasses, bounds
    <2> QED
      BY <2>1, <2>2 DEF Book!vars
  <1>5. ASSUME NEW n \in DOMAIN notes, Edit(n)
        PROVE  Book!Next
    <2>1. n \in NoteNames /\ notes[n] \in Note /\ edits' = edits + 1
      BY <1>5 DEF Edit, TypeOK
    <2>2. \A x \in Edits(notes[n]) : x.voice \in {notes[n].voice, NoVoice}
      BY <2>1 DEF Edits, Note
    <2>3. CASE notes' = [m \in DOMAIN notes \ {n} |-> notes[m]]
      BY <2>1, <2>3 DEF Book!Next, Book!Owner
    <2>4. ASSUME NEW x \in Edits(notes[n]), notes' = Put(notes, n, x)
          PROVE  Book!Next
      <3>1. CASE x.voice = NoVoice
        <4>1. voices' = Book!With(n, NoVoice)
          BY <2>4, <3>1 DEF voices, Put, Book!With
        <4> QED
          BY <2>1, <4>1 DEF Book!Next, Book!Owner, voices
      <3>2. CASE x.voice = notes[n].voice
        <4>1. voices' = voices
          BY <2>4, <3>2 DEF voices, Put
        <4> QED
          BY <2>1, <4>1 DEF Book!Next, Book!Owner, voices
      <3> QED
        BY <2>2, <3>1, <3>2
    <2> QED
      BY <1>5, <2>3, <2>4 DEF Edit
  <1>6. \/ UNCHANGED <<notes, edits>> \/ HourPasses
        \/ \E m \in at : Replace(m)
        \/ \E m \in coming : Arrive(m)
        \/ \E m \in DOMAIN notes : Edit(m)
    BY DEF Next, Step, PassStep, Fault, ListFails, ListClips, WalkNotes, NothingToDo,
           WalkTicks, BuildGallery, EndPass, ScoreClip, ScanNote, ReadTick, TickFails,
           Judge, Splice, ReplaceFails, ClipFails, DecoderFails, JudgeFails, Kill,
           Attach, DropRecord, vault, bounds
  <1> QED
    BY <1>1, <1>2, <1>3, <1>4, <1>5, <1>6

(* The pass implements the book of voices: each of its steps, and each     *)
(* change of the vault that comes between them, gives at most one note one *)
(* voice, and never a second one (server.py, run_sweep_pass; splice.py,    *)
(* splice_voice_fields).                                                   *)
THEOREM ScoringImplementsBook == Spec => ImplementsBook
  <1>1. Init => Book!Init /\ DraftGivable
    BY ScorerAssumption DEF Init, Book!Init, DraftGivable
  <1>2. Spec => []DraftGivable
    BY <1>1, GivableStep, ScoringInvariant, PTL DEF Spec
  <1>3. TypeOK /\ Writing /\ DraftGivable /\ [Next]_vars => [Book!Next]_Book!vars
    <2>1. UNCHANGED vars => UNCHANGED Book!vars
      BY DEF vars, vault, bounds, Book!vars
    <2> QED
      BY <2>1, BookStep
  <1> QED
    BY <1>1, <1>2, <1>3, ScoringInvariant, PTL DEF Spec, Book!Spec, ImplementsBook

----
(* Who is scored against.  The history has all that is ticked, and holds   *)
(* on to what stays ticked; what the pass found ticked was so while it     *)
(* ran, and what stays so it has found, or has yet to read.                *)
GalleryInv ==
    /\ phase \in {"clips", "scan", "gallery"} => TickedNow \subseteq everTicked
    /\ stayedTicked \subseteq TickedNow
    /\ phase # "gallery" => ticked = {}
    /\ \A id \in ticked : id \in attachments /\ \E n \in everTicked : RecordingOf[n] = id
    /\ phase = "gallery" =>
          \A n \in stayedTicked :
              RecordingOf[n] # NoRecording => n \in unread \/ RecordingOf[n] \in ticked

(* Which clips are there, and what a record says of its clip: an embedding *)
(* is of speech.                                                           *)
Attached ==
    /\ pending \subseteq attachments
    /\ \A n \in DOMAIN notes \cup todo \cup at : RecordingOf[n] \in attachments \cup {NoRecording}
Embeds == \A id \in Recordings : records[id].kind = "embedded" => Sound[id] = "speech"

(* Until an operation fails, what is written off has no speech.            *)
WrittenOff ==
    faults = 0 =>
        \A id \in Recordings : records[id].kind = "unscoreable" => Sound[id] # "speech"

LEMMA AttachedStep == TypeOK /\ Attached /\ [Next]_vars => Attached'
  <1> SUFFICES ASSUME TypeOK, Attached, [Next]_vars PROVE Attached'
    OBVIOUS
  <1>1. CASE UNCHANGED <<notes, todo, at, attachments, pending>>
    BY <1>1 DEF Attached
  <1>2. CASE \/ ListFails \/ ListClips \/ WalkNotes \/ NothingToDo \/ WalkTicks
             \/ BuildGallery \/ EndPass
    BY <1>2 DEF ListFails, ListClips, WalkNotes, NothingToDo, WalkTicks, BuildGallery, EndPass,
                Return, Forget, vault, Attached
  <1>3. ASSUME NEW id \in pending, ScoreClip(id) \/ ClipFails(id)
        PROVE  Attached'
    BY <1>3 DEF ScoreClip, ClipFails, vault, Attached
  <1>4. ASSUME NEW id \in attachments, DecoderFails(id)
        PROVE  Attached'
    BY <1>4 DEF DecoderFails, vault, Attached
  <1>5. ASSUME NEW n \in unread, ScanNote(n) \/ ReadTick(n) \/ TickFails(n)
        PROVE  Attached'
    BY <1>5 DEF ScanNote, ReadTick, TickFails, Readable, Return, Forget, vault, Attached
  <1>6. ASSUME NEW n \in todo, Judge(n) \/ JudgeFails(n)
        PROVE  Attached'
    BY <1>6 DEF Judge, JudgeFails, vault, Attached
  <1>7. ASSUME NEW n \in at, Splice(n) \/ Replace(n)
        PROVE  Attached'
    BY <1>7 DEF Splice, Replace, Put, vault, Attached
  <1>8. CASE ReplaceFails \/ HourPasses \/ Kill
    BY <1>8 DEF ReplaceFails, HourPasses, Kill, Return, Forget, vault, pass, locals, Attached
  <1>9. ASSUME NEW n \in coming, Attach(n) \/ Arrive(n)
        PROVE  Attached'
    BY <1>9 DEF Attach, Arrive, Put, pass, locals, Attached
  <1>10. ASSUME NEW n \in DOMAIN notes, Edit(n)
         PROVE  Attached'
    BY <1>10 DEF Edit, Put, pass, locals, Attached
  <1>11. ASSUME NEW id \in Recordings, DropRecord(id)
         PROVE  Attached'
    BY <1>1, <1>11 DEF DropRecord, vault, pass, locals
  <1> QED
    BY <1>1, <1>2, <1>3, <1>4, <1>5, <1>6, <1>7, <1>8, <1>9, <1>10, <1>11
       DEF Next, Step, PassStep, Fault, vars, vault, pass, locals

(* How a record comes about: it stays, its owner deletes it, a failing     *)
(* decoder writes its clip off, or it is what ensure_scored finds.         *)
LEMMA RecordStep ==
    ASSUME TypeOK, Attached, [Next]_vars, NEW id \in Recordings
    PROVE  \/ records'[id] = records[id]
           \/ records'[id].kind = "none"
           \/ records'[id].kind = "unscoreable" /\ faults' > 0
           \/ ~Raises(id) /\ id \in attachments /\ records'[id].kind = EnsureScored(id).kind
  <1>1. CASE UNCHANGED records
    BY <1>1
  <1>2. ASSUME NEW k \in pending, ScoreClip(k)
        PROVE  \/ records'[id] = records[id]
               \/ ~Raises(id) /\ id \in attachments /\ records'[id].kind = EnsureScored(id).kind
    <2>1. CASE Raises(k) \/ id # k
      BY <1>2, <2>1 DEF ScoreClip, TypeOK
    <2>2. CASE ~Raises(k) /\ id = k
      <3>1. records'[id] = EnsureScored(id)
        BY <1>2, <2>2 DEF ScoreClip, TypeOK
      <3> QED
        BY <2>2, <3>1 DEF Attached
    <2> QED
      BY <2>1, <2>2
  <1>3. ASSUME NEW k \in attachments, DecoderFails(k)
        PROVE  records'[id] = records[id] \/ (records'[id].kind = "unscoreable" /\ faults' > 0)
    <2>1. faults' > 0
      BY <1>3 DEF DecoderFails, TypeOK
    <2>2. records'[id] = records[id] \/ records'[id] = Unscoreable
      BY <1>3 DEF DecoderFails, TypeOK
    <2> QED
      BY <2>1, <2>2 DEF Unscoreable
  <1>4. \A n \in todo : RecordingOf[n] \in Recordings /\ RecordingOf[n] \in attachments
    BY RecordingAssumption DEF TypeOK, Attached
  <1>5. ASSUME NEW n \in todo, Judge(n)
        PROVE  \/ records'[id] = records[id]
               \/ ~Raises(id) /\ id \in attachments /\ records'[id].kind = EnsureScored(id).kind
    <2>1. CASE Raises(RecordingOf[n]) \/ id # RecordingOf[n]
      BY <1>5, <2>1 DEF Judge, TypeOK
    <2>2. CASE ~Raises(RecordingOf[n]) /\ id = RecordingOf[n]
      <3>1. records'[id] = Judged(id)
        BY <1>5, <2>2 DEF Judge, TypeOK
      <3>2. Judged(id).kind = EnsureScored(id).kind
        BY JudgedTypes
      <3> QED
        BY <1>4, <2>2, <3>1, <3>2
    <2> QED
      BY <2>1, <2>2
  <1>6. ASSUME NEW n \in todo, JudgeFails(n)
        PROVE  \/ records'[id] = records[id]
               \/ ~Raises(id) /\ id \in attachments /\ records'[id].kind = EnsureScored(id).kind
    <2>1. CASE records' = records
      BY <2>1
    <2>2. CASE ~Raises(RecordingOf[n])
               /\ records' = [records EXCEPT ![RecordingOf[n]] = EnsureScored(RecordingOf[n])]
      <3>1. CASE id # RecordingOf[n]
        BY <2>2, <3>1 DEF TypeOK
      <3>2. CASE id = RecordingOf[n]
        <4>1. records'[id] = EnsureScored(id)
          BY <2>2, <3>2 DEF TypeOK
        <4> QED
          BY <1>4, <2>2, <3>2, <4>1
      <3> QED
        BY <3>1, <3>2
    <2> QED
      BY <1>6, <2>1, <2>2 DEF JudgeFails
  <1>7. ASSUME NEW k \in Recordings, DropRecord(k)
        PROVE  records'[id] = records[id] \/ records'[id].kind = "none"
    BY <1>7 DEF DropRecord, NoRecord, TypeOK
  <1>8. \/ UNCHANGED records
        \/ \E k \in pending : ScoreClip(k)
        \/ \E k \in attachments : DecoderFails(k)
        \/ \E n \in todo : Judge(n) \/ JudgeFails(n)
        \/ \E k \in Recordings : DropRecord(k)
    BY DEF Next, Step, PassStep, Fault, ListFails, ListClips, WalkNotes, NothingToDo,
           WalkTicks, BuildGallery, EndPass, ScanNote, ReadTick, TickFails,
           Splice, Replace, ReplaceFails, ClipFails, Kill, Attach, Arrive, Edit, HourPasses, vars
  <1> QED
    BY <1>1, <1>2, <1>3, <1>5, <1>6, <1>7, <1>8

(* What ensure_scored finds is true of the clip.                           *)
LEMMA EnsuredIsTrue ==
    ASSUME TypeOK, Embeds, NEW id \in attachments, ~Raises(id)
    PROVE  /\ EnsureScored(id).kind \in {"embedded", "unscoreable"}
           /\ EnsureScored(id).kind = "embedded" => Sound[id] = "speech"
           /\ WrittenOff /\ faults = 0 /\ EnsureScored(id).kind = "unscoreable"
              => Sound[id] # "speech"
  <1>1. id \in Recordings /\ Sound[id] \in {"speech", "short", "broken", "poison"}
    BY RecordingAssumption DEF TypeOK
  <1>2. CASE Cached(id)
    BY <1>1, <1>2 DEF EnsureScored, Cached, Embeds, WrittenOff
  <1>3. CASE ~Cached(id) /\ Decodes(id) /\ Sound[id] # "short"
    <2>1. EnsureScored(id).kind = "embedded"
      BY <1>3 DEF EnsureScored, Unscoreable
    <2> QED
      BY <1>1, <1>3, <2>1 DEF Raises, Decodes
  <1>4. CASE ~Cached(id) /\ ~(Decodes(id) /\ Sound[id] # "short")
    <2>1. EnsureScored(id).kind = "unscoreable"
      BY <1>4 DEF EnsureScored, Unscoreable
    <2> QED
      BY <1>1, <1>4, <2>1 DEF Decodes
  <1> QED
    BY <1>2, <1>3, <1>4

LEMMA EmbedsStep == TypeOK /\ Attached /\ Embeds /\ [Next]_vars => Embeds'
  BY RecordStep, EnsuredIsTrue DEF Embeds

LEMMA FaultsStep == TypeOK /\ [Next]_vars => faults' >= faults
  <1>1. [Next]_vars => faults' \in {faults, faults + 1}
    BY DEF Next, Step, PassStep, Fault, ListFails, ListClips, WalkNotes, NothingToDo,
           WalkTicks, BuildGallery, EndPass, ScoreClip, ScanNote, ReadTick, TickFails,
           Judge, Splice, Replace, ReplaceFails, ClipFails, DecoderFails, JudgeFails, Kill,
           Attach, Arrive, Edit, DropRecord, HourPasses, vars, bounds
  <1>2. TypeOK => faults \in Int
    BY ScorerAssumption DEF TypeOK
  <1> QED
    BY <1>1, <1>2

LEMMA WrittenOffStep ==
    TypeOK /\ Attached /\ Embeds /\ WrittenOff /\ [Next]_vars => WrittenOff'
  <1> SUFFICES ASSUME TypeOK, Attached, Embeds, WrittenOff, [Next]_vars, faults' = 0,
                      NEW id \in Recordings, records'[id].kind = "unscoreable"
               PROVE  Sound[id] # "speech"
    BY DEF WrittenOff
  <1>1. faults = 0
    BY FaultsStep DEF TypeOK
  <1> QED
    BY <1>1, RecordStep, EnsuredIsTrue DEF WrittenOff

LEMMA RecordsTrue == Spec => [](TypeOK /\ Attached /\ Embeds)
  <1>1. Init => Attached /\ Embeds
    BY ScorerAssumption DEF Init, Attached, Embeds
  <1> QED
    BY <1>1, AttachedStep, EmbedsStep, ScoringInvariant, PTL DEF Spec

(* What is ticked, and was, from the start of a pass to its gallery.       *)
LEMMA GalleryInvStep == TypeOK /\ Attached /\ GalleryInv /\ [Next]_vars => GalleryInv'
  <1> SUFFICES ASSUME TypeOK, Attached, GalleryInv, [Next]_vars PROVE GalleryInv'
    OBVIOUS
  <1>1. CASE UNCHANGED vars
    BY <1>1 DEF vars, vault, pass, locals, history, GalleryInv, TickedNow
  <1> SUFFICES ASSUME Next PROVE GalleryInv'
    BY <1>1
  <1>2. /\ phase' \in {"clips", "scan", "gallery"} =>
              TickedNow' \subseteq everTicked' /\ everTicked \subseteq everTicked'
        /\ stayedTicked' \subseteq TickedNow'
        /\ stayedTicked' \subseteq stayedTicked \/ phase = "idle"
    BY DEF Next, Watch, Watched
  <1>3. attachments \subseteq attachments'
    BY DEF Next, Step, PassStep, Fault, ListFails, ListClips, WalkNotes, NothingToDo,
         WalkTicks, BuildGallery, EndPass, ScoreClip, ScanNote, ReadTick, TickFails,
         Judge, Splice, Replace, ReplaceFails, ClipFails, DecoderFails, JudgeFails, Kill,
         Attach, Arrive, Edit, DropRecord, HourPasses, vault
  <1>4. CASE ticked' = {} /\ phase' # "gallery"
    BY <1>2, <1>4 DEF GalleryInv
  <1>5. CASE UNCHANGED <<ticked, unread, phase>>
    BY <1>2, <1>3, <1>5 DEF GalleryInv
  <1>6. CASE WalkTicks
    <2>1. phase = "scan" /\ ticked' = {} /\ unread' = DOMAIN notes /\ notes' = notes
      BY <1>6 DEF WalkTicks, GalleryInv, vault
    <2>2. TickedNow' \subseteq unread'
      BY <2>1 DEF TickedNow
    <2> QED
      BY <1>2, <2>1, <2>2 DEF GalleryInv
  <1>7. ASSUME NEW n \in unread, ReadTick(n)
        PROVE  GalleryInv'
    <2>1. /\ phase = "gallery" /\ phase' = "gallery" /\ unread' = unread \ {n}
          /\ UNCHANGED <<notes, attachments>>
      BY <1>7 DEF ReadTick, vault
    <2>2. CASE Readable(n) /\ HasRecording(n) /\ notes[n].ticked
      <3>1. ticked' = ticked \cup {RecordingOf[n]}
        BY <1>7, <2>2 DEF ReadTick
      <3>2. n \in TickedNow /\ RecordingOf[n] \in attachments
        BY <2>2 DEF Readable, HasRecording, TickedNow, Attached
      <3>3. n \in everTicked
        BY <2>1, <3>2 DEF GalleryInv
      <3> QED
        BY <1>2, <2>1, <3>1, <3>2, <3>3 DEF GalleryInv
    <2>3. CASE ~(Readable(n) /\ HasRecording(n) /\ notes[n].ticked)
      <3>1. ticked' = ticked
        BY <1>7, <2>3 DEF ReadTick
      <3>2. n \in TickedNow => RecordingOf[n] = NoRecording
        BY <2>3 DEF TickedNow, Readable, HasRecording
      <3> QED
        BY <1>2, <2>1, <3>1, <3>2 DEF GalleryInv
    <2> QED
      BY <2>2, <2>3
  <1>8. \/ ticked' = {} /\ phase' # "gallery"
        \/ UNCHANGED <<ticked, unread, phase>>
        \/ WalkTicks
        \/ \E n \in unread : ReadTick(n)
    BY DEF Next, Step, PassStep, Fault, ListFails, ListClips, WalkNotes, NothingToDo,
         BuildGallery, EndPass, ScoreClip, ScanNote, TickFails, Return, Forget,
         Judge, Splice, Replace, ReplaceFails, ClipFails, DecoderFails, JudgeFails, Kill,
         Attach, Arrive, Edit, DropRecord, HourPasses, pass, locals, GalleryInv
  <1> QED
    BY <1>4, <1>5, <1>6, <1>7, <1>8

(* The entries of a gallery were ticked while the pass ran, and are        *)
(* speech; and nobody who was ticked all the while, and can be scored, is  *)
(* left out (gallery.py, build_gallery).                                   *)
THEOREM GalleryIsTickedHolds == Spec => GalleryIsTicked
  <1> DEFINE Rightly ==
          phase = "gallery" /\ phase' = "notes" =>
          /\ \A e \in gallery' : \E n \in everTicked : RecordingOf[n] = e.id
          /\ \A e \in gallery' : e.id \in attachments /\ Sound[e.id] = "speech"
          /\ \A n \in stayedTicked :
                /\ RecordingOf[n] # NoRecording
                /\ records[RecordingOf[n]].kind = "embedded"
                => \E e \in gallery' : e.id = RecordingOf[n]
  <1>1. Init => GalleryInv
    BY DEF Init, GalleryInv
  <1>2. Spec => []GalleryInv
    BY <1>1, GalleryInvStep, RecordsTrue, PTL DEF Spec
  <1>3. TypeOK /\ Embeds /\ GalleryInv /\ [Next]_vars => [Rightly]_vars
    <2> SUFFICES ASSUME TypeOK, Embeds, GalleryInv, Next, phase = "gallery", phase' = "notes"
                 PROVE  Rightly
      BY DEF vars
    <2>1. BuildGallery
      BY DEF Next, Step, PassStep, Fault, ListFails, ListClips, WalkNotes, NothingToDo,
           WalkTicks, EndPass, ScoreClip, ScanNote, ReadTick, TickFails, Return,
           Judge, Splice, Replace, ReplaceFails, ClipFails, DecoderFails, JudgeFails, Kill,
           Attach, Arrive, Edit, DropRecord, HourPasses, pass
    <2>2. gallery' = Entries /\ unread = {}
      BY <2>1 DEF BuildGallery, Return
    <2>3. \A e \in gallery' : e.id \in ticked /\ records[e.id].kind = "embedded"
      BY <2>2 DEF Entries
    <2>4. \A id \in ticked : records[id].kind = "embedded" => \E e \in gallery' : e.id = id
      <3> TAKE id \in ticked
      <3> HAVE records[id].kind = "embedded"
      <3>1. [id |-> id, model |-> records[id].model] \in gallery'
        BY <2>2 DEF Entries
      <3> QED
        BY <3>1
    <2> QED
      BY <2>2, <2>3, <2>4 DEF GalleryInv, Embeds, TypeOK
  <1> QED
    BY <1>2, <1>3, RecordsTrue, PTL DEF Spec, GalleryIsTicked

----
(* What a note is given.                                                   *)

(* The records it starts with are those of processes that met no failure.  *)
Unfailed ==
    \A c \in InitCaches : \A id \in Recordings :
        c[id].kind = "unscoreable" => Sound[id] # "speech"

Deserved(n, v) ==
    LET sims == {Cosine[RecordingOf[n]][e.id] : e \in gallery}
        speech == Sound[RecordingOf[n]] = "speech"
        heard == v.band # "unscoreable"
    IN  /\ heard => speech
        /\ speech /\ faults = 0 => heard
        /\ v.band = "no-gallery" <=> heard /\ sims = {}
        /\ v.band = "likely-owner" <=> heard /\ \E s \in sims : s >= 50
        /\ v.band = "unlikely-owner" <=> heard /\ sims # {} /\ \A s \in sims : s < 30

DraftDeserved == phase \in {"splice", "replace"} => \A n \in at : Deserved(n, draft.voice)

LEMMA VoiceForDeserved ==
    ASSUME TypeOK, Attached, Embeds, WrittenOff, NEW n \in todo, ~Raises(RecordingOf[n])
    PROVE  Deserved(n, VoiceFor(RecordingOf[n]))
  <1> DEFINE id == RecordingOf[n]
             sims == {Cosine[id][e.id] : e \in gallery}
             v == VoiceFor(id)
             best == Best(id, gallery)
  <1>1. id \in Recordings /\ id \in attachments
    BY RecordingAssumption DEF TypeOK, Attached
  <1>2. /\ EnsureScored(id).kind \in {"embedded", "unscoreable"}
        /\ EnsureScored(id).kind = "embedded" => Sound[id] = "speech"
        /\ faults = 0 /\ EnsureScored(id).kind = "unscoreable" => Sound[id] # "speech"
    BY <1>1, EnsuredIsTrue
  <1>3. sims = {} <=> gallery = {}
    OBVIOUS
  <1>4. CASE EnsureScored(id).kind = "unscoreable"
    <2>1. v.band = "unscoreable"
      BY <1>4 DEF VoiceFor
    <2> QED
      BY <1>2, <1>4, <2>1 DEF Deserved
  <1>5. CASE EnsureScored(id).kind = "embedded" /\ gallery = {}
    <2>1. v.band = "no-gallery"
      BY <1>5 DEF VoiceFor
    <2> QED
      BY <1>2, <1>3, <1>5, <2>1 DEF Deserved
  <1>6. CASE EnsureScored(id).kind = "embedded" /\ gallery # {}
    <2>1. best \in -100..100 /\ best \in sims /\ \A s \in sims : s <= best
      BY <1>1, <1>6, BestType DEF TypeOK
    <2>2. v.band = BandFor(best)
      <3>1. EnsureScored(id) \in Record
        BY <1>1, RecordTypes
      <3>2. Scored(id).band = BandFor(best)
        BY <3>1 DEF Scored, Record
      <3> QED
        BY <1>6, <3>2 DEF VoiceFor
    <2>3. sims \subseteq -100..100
      BY <1>1, RecordingAssumption DEF TypeOK
    <2> HIDE DEF best, sims, v
    <2>4. v.band = "likely-owner" <=> \E s \in sims : s >= 50
      BY <2>1, <2>2, <2>3 DEF BandFor
    <2>5. v.band = "unlikely-owner" <=> \A s \in sims : s < 30
      BY <2>1, <2>2, <2>3 DEF BandFor
    <2>6. v.band \notin {"unscoreable", "no-gallery"}
      BY <2>2 DEF BandFor
    <2> QED
      BY <1>2, <1>6, <2>1, <2>4, <2>5, <2>6 DEF Deserved, sims, v
  <1> QED
    BY <1>2, <1>4, <1>5, <1>6

LEMMA DeservedStep ==
    TypeOK /\ Attached /\ Embeds /\ WrittenOff /\ DraftDeserved /\ [Next]_vars => DraftDeserved'
  <1> SUFFICES ASSUME TypeOK, Attached, Embeds, WrittenOff, DraftDeserved, [Next]_vars,
                      phase' \in {"splice", "replace"}, NEW n \in at'
               PROVE  Deserved(n, draft.voice)'
    BY DEF DraftDeserved
  <1>1. faults' = 0 => faults = 0
    BY FaultsStep DEF TypeOK
  <1>2. CASE UNCHANGED <<phase, at, draft, gallery>>
    BY <1>1, <1>2 DEF DraftDeserved, Deserved
  <1>3. ASSUME NEW m \in todo, Judge(m), phase' = "splice"
        PROVE  Deserved(n, draft.voice)'
    <2>1. /\ ~Raises(RecordingOf[m]) /\ at' = {m} /\ UNCHANGED <<gallery, bounds>>
          /\ draft' = [NoDraft EXCEPT !.voice = VoiceFor(RecordingOf[m])]
      BY <1>3 DEF Judge
    <2>2. draft'.voice = VoiceFor(RecordingOf[m]) /\ n = m
      BY <2>1 DEF NoDraft
    <2>3. Deserved(m, VoiceFor(RecordingOf[m]))
      BY <2>1, VoiceForDeserved
    <2> DEFINE w == VoiceFor(RecordingOf[m])
    <2> HIDE DEF w
    <2> QED
      BY <2>1, <2>2, <2>3 DEF Deserved, bounds, w
  <1>4. ASSUME NEW m \in at, Splice(m), phase' = "replace"
        PROVE  Deserved(n, draft.voice)'
    <2>1. draft' = [notes[m] EXCEPT !.voice = draft.voice, !.recent = TRUE] /\ notes[m] \in Note
      BY <1>4 DEF Splice, TypeOK, Readable
    <2>2. draft'.voice = draft.voice /\ UNCHANGED <<at, gallery, bounds>>
      BY <1>4, <2>1 DEF Splice, Note
    <2> QED
      BY <1>4, <2>2 DEF Splice, DraftDeserved, Deserved, bounds
  <1>5. \/ phase' \notin {"splice", "replace"} \/ UNCHANGED <<phase, at, draft, gallery>>
        \/ \E m \in todo : Judge(m) /\ phase' = "splice"
        \/ \E m \in at : Splice(m) /\ phase' = "replace"
    BY DEF TypeOK, Next, Step, PassStep, Fault, ListFails, ListClips, WalkNotes, NothingToDo,
           WalkTicks, BuildGallery, EndPass, ScoreClip, ScanNote, ReadTick, TickFails,
           Judge, Splice, Replace, ReplaceFails, ClipFails, DecoderFails, JudgeFails, Kill,
           Return, Attach, Arrive, Edit, DropRecord, HourPasses, vars, pass, locals
  <1> QED
    BY <1>2, <1>3, <1>4, <1>5

(* A note gets the band that its own recording deserves, by the gallery of *)
(* the pass, for any cached records, failures, kills and edits; and what   *)
(* has speech is written off only if an operation has failed (server.py,   *)
(* run_sweep_pass; gallery.py, score_against_gallery).                     *)
THEOREM VoiceIsDeservedHolds == ASSUME Unfailed PROVE Spec => VoiceIsDeserved
  <1>1. Init => WrittenOff /\ DraftDeserved
    BY DEF Init, WrittenOff, DraftDeserved, Unfailed
  <1>2. Spec => [](WrittenOff /\ DraftDeserved)
    BY <1>1, WrittenOffStep, DeservedStep, RecordsTrue, PTL DEF Spec
  <1> DEFINE Rightly == \A n \in at : Publishes(n) => Deserved(n, notes'[n].voice)
  <1>3. TypeOK /\ DraftDeserved /\ [Next]_vars => [Rightly]_vars
    <2> SUFFICES ASSUME TypeOK, DraftDeserved, Next, NEW n \in at, Publishes(n)
                 PROVE  Deserved(n, notes'[n].voice)
      BY DEF vars
    <2>1. notes'[n] = draft /\ phase = "replace"
      BY PublishedIsDraft DEF Publishes
    <2> QED
      BY <2>1 DEF DraftDeserved
  <1>4. [Rightly]_vars => [\A n \in at : Publishes(n) =>
          LET v == notes'[n].voice
              sims == {Cosine[RecordingOf[n]][e.id] : e \in gallery}
              speech == Sound[RecordingOf[n]] = "speech"
              heard == v.band # "unscoreable"
          IN  /\ heard => speech
              /\ speech /\ faults = 0 => heard
              /\ v.band = "no-gallery" <=> heard /\ sims = {}
              /\ v.band = "likely-owner" <=> heard /\ \E s \in sims : s >= 50
              /\ v.band = "unlikely-owner" <=> heard /\ sims # {} /\ \A s \in sims : s < 30
          ]_vars
    BY DEF Deserved
  <1> QED
    BY <1>2, <1>3, <1>4, RecordsTrue, PTL DEF Spec, VoiceIsDeserved
=============================================================================
