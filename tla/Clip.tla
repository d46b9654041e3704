-------------------------------- MODULE Clip --------------------------------
(***************************************************************************)
(* One recording on its way to its record: ensure_scored of server.py with *)
(* decode_to_wav, read_wav_samples and speech_band_seconds of audio.py and *)
(* the embedder.  Passes try the clip until it has a record; a failing     *)
(* operation or a kill may end each try.  Scoring takes such a try as one  *)
(* step and the measurement as given.                                      *)
(*                                                                         *)
(* A source is the attachment: whether it is there, decodes, and leaves    *)
(* ffmpeg messages that are UTF-8; its samples once decoded, its analysis  *)
(* frames with their energy in 300-3400 Hz and below 200 Hz, and whether   *)
(* the embedder takes them.                                                *)
(***************************************************************************)
EXTENDS Integers, FiniteSets

CONSTANTS
    Sources,     \* what attachments/<id>.m4a may be
    MaxFaults,   \* bound: failing operations
    MaxKills     \* bound: kills of the process

Rate == 16000
FrameLen == (Rate * 30) \div 1000
HopLen == FrameLen \div 2

Frame == [band : Nat, rumble : Nat]

(* Overlapping windows, none that is not full.                             *)
NumFrames(samples) ==
    IF samples < FrameLen THEN 0 ELSE 1 + (samples - FrameLen) \div HopLen
Frames(src) == 0 .. NumFrames(src.samples) - 1

ASSUME SourceAssumption == \A src \in Sources :
    /\ {src.there, src.decodes, src.utf8, src.embeds} \subseteq BOOLEAN
    /\ src.samples \in Nat
    /\ src.frame \in [Frames(src) -> Frame]

ASSUME BoundAssumption == MaxFaults \in Nat /\ MaxKills \in Nat

VARIABLES
    source,   \* the attachment
    step,     \* where ensure_scored is
    wavs,     \* the temp WAVs on disk: its own; and those no call knows of,
              \*   after a kill, a removal that failed, or left untouched
    draft,    \* the record it is about to write
    record,   \* the record in STATE_DIR
    faults, kills

vars == <<source, step, wavs, draft, record, faults, kills>>

Init ==
    /\ source \in Sources
    /\ step = "idle"
    /\ wavs = {}
    /\ draft = "none" /\ record = "none"
    /\ faults = 0 /\ kills = 0

----
(* speech_band_seconds.  Energies are whole numbers, and the reference     *)
(* level, a percentile, comes in hundredths.                               *)

PeakPercentile_Maximum == 100
PeakPercentile == 95

Below(src, e) == {i \in Frames(src) : src.frame[i].band < e}
UpTo(src, e) == {i \in Frames(src) : src.frame[i].band <= e}

(* The energy at a rank of the frames sorted by energy, from 0.            *)
AtRank(src, rank) ==
    CHOOSE e \in {src.frame[i].band : i \in Frames(src)} :
        Cardinality(Below(src, e)) <= rank /\ rank < Cardinality(UpTo(src, e))

(* np.percentile: between the two ranks next to its place, if that is none.*)
Reference(src) ==
    LET place == PeakPercentile * (NumFrames(src.samples) - 1)
        rank == place \div 100
        rest == place % 100
    IN  IF rest = 0 THEN 100 * AtRank(src, rank)
        ELSE (100 - rest) * AtRank(src, rank) + rest * AtRank(src, rank + 1)

ClearsRumble_Unasked(frame) == TRUE

ClearsRumble(frame) == 1000 * frame.band > frame.rumble

SpeechFrames(src) ==
    LET reference == Reference(src)
    IN  {i \in Frames(src) : /\ 1000 * src.frame[i].band > reference
                             /\ ClearsRumble(src.frame[i])}

(* A frame counts for its hop: the windows overlap.                        *)
LongEnough(src) ==
    NumFrames(src.samples) > 0 /\ Cardinality(SpeechFrames(src)) * HopLen >= Rate

----
(* ensure_scored.  An exception ends the try, and a later pass makes       *)
(* another, from the start.                                                *)

Raise(files) ==
    /\ step' = "idle"
    /\ wavs' = files
    /\ draft' = "none"
    /\ UNCHANGED record

(* Its own WAV is gone, or becomes what is in rest.                        *)
Without(rest) == (wavs \ {"own"}) \cup rest

Write(kind, rest) ==
    /\ step' = "write"
    /\ draft' = kind
    /\ wavs' = Without(rest)
    /\ UNCHANGED record

(* There is no record: a temp file for the WAV, unless the clip has gone.  *)
Begin ==
    /\ step = "idle"
    /\ record = "none"
    /\ IF source.there
       THEN step' = "decode" /\ wavs' = wavs \cup {"own"} /\ UNCHANGED <<draft, record>>
       ELSE Write("unscoreable", {})

Decode_KeepsWav ==
    /\ step = "decode"
    /\ IF source.utf8 /\ source.decodes
       THEN step' = "read" /\ UNCHANGED <<wavs, draft, record>>
       ELSE /\ step' = "write" /\ draft' = "unscoreable"
            /\ wavs' = Without({"left"})
            /\ UNCHANGED record

Decode_SkipsBroken ==
    /\ step = "decode"
    /\ IF source.utf8 /\ source.decodes
       THEN step' = "read" /\ UNCHANGED <<wavs, draft, record>>
       ELSE Raise(Without(IF source.utf8 THEN {} ELSE {"left"}))

(* ffmpeg ends.  Its messages are decoded before its exit status is looked *)
(* at, and nothing catches a failure of that.                              *)
Decode ==
    /\ step = "decode"
    /\ IF ~source.utf8 THEN Raise(Without({"left"}))
       ELSE IF source.decodes
       THEN step' = "read" /\ UNCHANGED <<wavs, draft, record>>
       ELSE Write("unscoreable", {})

(* The samples are in memory and the WAV is gone: measure.                 *)
ReadWav ==
    /\ step = "read"
    /\ IF LongEnough(source)
       THEN /\ step' = "embed"
            /\ wavs' = Without({})
            /\ UNCHANGED <<draft, record>>
       ELSE Write("unscoreable", {})

Embed ==
    /\ step = "embed"
    /\ IF source.embeds THEN Write("embedded", {}) ELSE Raise(wavs)

(* write_record: os.replace.                                               *)
WriteRecord ==
    /\ step = "write"
    /\ record' = draft
    /\ step' = "idle"
    /\ draft' = "none"
    /\ UNCHANGED wavs

(* A failing operation: ffmpeg does not start, or gives up, and that is    *)
(* taken for the clip's fault; a WAV cannot be read, and is removed; or it *)
(* is the removal that fails.  In decode_to_wav nobody looks at that       *)
(* error; in ensure_scored it ends the try, whatever was read.             *)
Fault ==
    /\ faults < MaxFaults
    /\ faults' = faults + 1
    /\ \/ step = "idle" /\ record = "none" /\ source.there /\ Raise(wavs)
       \/ \E rest \in {{}, {"stuck"}} :
             \/ step = "decode" /\ Write("unscoreable", rest)
             \/ step = "read" /\ Raise(Without(rest))
       \/ step \in {"embed", "write"} /\ Raise(wavs)
    /\ UNCHANGED <<source, kills>>

(* The process is killed, and started again.                               *)
Kill ==
    /\ kills < MaxKills
    /\ kills' = kills + 1
    /\ Raise(Without(IF "own" \in wavs THEN {"killed"} ELSE {}))
    /\ UNCHANGED <<source, faults>>

Try == Begin \/ Decode \/ ReadWav \/ Embed \/ WriteRecord

Next == (Try /\ UNCHANGED <<source, faults, kills>>) \/ Fault \/ Kill

Spec == Init /\ [][Next]_vars

(* The passes that try the clip never end.                                 *)
FairSpec == Spec /\ WF_vars(Try /\ UNCHANGED <<source, faults, kills>>)

----
(* Properties.                                                             *)

(* Types, and what a call holds at each step.                              *)
TypeOK ==
    /\ source \in Sources
    /\ step \in {"idle", "decode", "read", "embed", "write"}
    /\ wavs \subseteq {"own", "killed", "stuck", "left"}
    /\ "own" \in wavs <=> step \in {"decode", "read"}
    /\ IF step = "write" THEN draft \in {"unscoreable", "embedded"} ELSE draft = "none"
    /\ record \in {"none", "unscoreable", "embedded"}
    /\ step # "idle" => record = "none"
    /\ faults \in 0..MaxFaults /\ kills \in 0..MaxKills

(* What is embedded lasts: a second of it, at half a window a frame, lies  *)
(* in frames that stand out of their own rumble (VOICE.md section 5 step   *)
(* 4: a naive VAD measures the rumble).                                    *)
NeverOnRumble ==
    record = "embedded" =>
        /\ source.there /\ source.decodes /\ source.embeds
        /\ 100 * source.samples >= 102 * Rate
        /\ HopLen * Cardinality({i \in Frames(source) :
              1000 * source.frame[i].band > source.frame[i].rumble}) >= Rate

(* A second of speech is heard, at any level and beside any rumble, though *)
(* a twentieth of the clip be handling clicks of any strength (the comment *)
(* on PEAK_PERCENTILE): only a failing operation makes it unscoreable.     *)
Spoken(src, level) ==
    /\ level > 0
    /\ Rate <= HopLen * Cardinality({i \in Frames(src) :
          src.frame[i].band >= level /\ 1000 * src.frame[i].band > src.frame[i].rumble})
    /\ 20 * (NumFrames(src.samples) - Cardinality(Below(src, 10 * level)))
          < NumFrames(src.samples)
SpeechIsHeard ==
    record = "unscoreable" /\ faults = 0 /\ source.there /\ source.decodes =>
        \A i \in Frames(source) : ~Spoken(source, source.frame[i].band)

(* However a call ends it has tried to remove its temp WAV, but for a      *)
(* kill: only messages of ffmpeg that are not UTF-8 get past every removal.*)
(* What stays else is a call's that was killed or whose removal failed.    *)
WavRemoved == "left" \in wavs => ~source.utf8

(* Every clip is settled, through failures and kills; what breaks the      *)
(* embedder or has such messages may be tried for ever.                    *)
ClipSettled == source.utf8 /\ source.embeds => <>[](record # "none")

(* decode_to_wav: "the caller owns it and must delete it".  No call ends   *)
(* with its WAV neither removed nor tried to be, unless it is killed.      *)
WavAlwaysRemoved == "left" \notin wavs

(* "Reject as unscoreable if speech-band duration is under 1.0 s": a clip  *)
(* of a second or more that is speech from its first sample to its last is *)
(* not rejected.                                                           *)
OneSecondIsEnough ==
    record = "unscoreable" /\ faults = 0 /\ source.there /\ source.decodes
    /\ source.samples >= Rate => SpeechFrames(source) # Frames(source)
=============================================================================
