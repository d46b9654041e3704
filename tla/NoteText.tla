------------------------------- MODULE NoteText -----------------------------
(***************************************************************************)
(* One note as the text it is: what the ingest service renders (note.go),  *)
(* the owner edits, the scorer splices (splice.py), and both services read *)
(* back, each in its own way.  The scorer splits the text in lines after   *)
(* Python has made every line end a line feed; the ingest service looks    *)
(* for bytes.  Scoring and Ingest take what is read here as given.         *)
(* A pass lists the note first and writes it later (run_sweep_pass), and   *)
(* the owner may be at it in between.                                      *)
(*                                                                         *)
(* A line is what it says and how it ends.  "text" is prose: in the        *)
(* frontmatter it is no YAML.                                              *)
(***************************************************************************)
EXTENDS Integers, Sequences, FiniteSets

CONSTANTS
    Habits,    \* the kinds of edit the owner makes
    MaxEdits   \* bound: edits by the owner

Keys == {"---", "id", "ticked", "unticked", "voice", "voiceScore", "voiceModel",
         "property", "text"}
Ends == {"lf", "crlf", "none"}
Line == [says : Keys, end : Ends]

ASSUME HabitAssumption ==
    /\ Habits \subseteq {"tick", "property", "rule", "prose", "crlf", "chop", "break",
                         "mend", "unscore", "unvoice"}
    /\ MaxEdits \in Nat

VARIABLES
    text,    \* the note, a sequence of lines
    edits,
    due      \* the pass under way has listed the note and not come to it yet

vars == <<text, edits, due>>

Of(says) == [says |-> says, end |-> "lf"]

(* render: the tick box is there and off; audio, transcription or both.    *)
Init ==
    /\ \E props \in {<<>>, <<Of("property")>>}, body \in {<<>>, <<Of("text"), Of("text")>>} :
          text = <<Of("---"), Of("id")>> \o props \o <<Of("unticked"), Of("---")>> \o body
    /\ edits = 0
    /\ due = FALSE

----
(* How the scorer reads.                                                   *)

Universal_Rejoined(t) ==
    [i \in DOMAIN t |-> [t[i] EXCEPT !.end = IF i = Len(t) THEN "none" ELSE "lf"]]

(* Text mode: "\r\n" comes as "\n".                                        *)
Universal(t) ==
    [i \in DOMAIN t |-> IF t[i].end = "crlf" THEN [t[i] EXCEPT !.end = "lf"] ELSE t[i]]

Rules(t) == {i \in 2 .. Len(t) : t[i].says = "---"}
Delimited(t) == t # <<>> /\ t[1].says = "---" /\ Rules(t) # {}

Close(t) == CHOOSE i \in Rules(t) : \A j \in Rules(t) : i <= j

(* The lines of a frontmatter that parses; of a key given twice the last   *)
(* counts.                                                                 *)
Parses(t) == \A i \in 2 .. Close(t) - 1 : t[i].says # "text"
Frontmatter(t) ==
    IF Delimited(t) /\ Parses(t) THEN SubSeq(t, 2, Close(t) - 1) ELSE <<>>
Has(t, key) == \E i \in DOMAIN Frontmatter(t) : Frontmatter(t)[i].says = key
Ticked(t) ==
    \E i \in DOMAIN Frontmatter(t) :
        /\ Frontmatter(t)[i].says = "ticked"
        /\ \A j \in DOMAIN Frontmatter(t) : Frontmatter(t)[j].says = "unticked" => j < i
Flags(t) == [id |-> Has(t, "id"), ticked |-> Ticked(t), scored |-> Has(t, "voice")]

(* How the ingest service reads: "---\n", then "\n---\n", and in between   *)
(* no key twice.                                                           *)
GoReads(t) ==
    LET fm == Frontmatter(t)
    IN  /\ Delimited(t) /\ t[1].end = "lf"
        /\ \E i \in Rules(t) : i > 2 /\ t[i].end = "lf"
        /\ Has(t, "id")
        /\ \A i, j \in DOMAIN fm : i # j => fm[i].says # fm[j].says \/ fm[i].says = "property"

----
(* The pass: a note with a recording and no voice is listed.               *)
Scan ==
    /\ Flags(text).id /\ ~Flags(text).scored
    /\ ~due /\ due' = TRUE
    /\ UNCHANGED <<text, edits>>

(* It fails for a listed note, or is killed before it comes to it.         *)
Skip == due /\ due' = FALSE /\ UNCHANGED <<text, edits>>

(* splice_voice_fields, which reads the note again and asks for nothing    *)
(* but that it has no voice: before the closing line go the band, the      *)
(* score if there is one, the model, and the whole text is written again.  *)

Fields_Unended(scored) == <<[says |-> "voice", end |-> "none"], Of("voiceModel")>>

Fields(scored) ==
    IF scored THEN <<Of("voice"), Of("voiceScore"), Of("voiceModel")>>
    ELSE <<Of("voice"), Of("voiceModel")>>

SpliceAt_LastRule(t) == CHOOSE i \in Rules(t) : \A j \in Rules(t) : i >= j

SpliceAt(t) == Close(t)

Inserted_Behind(t, at, lines) == SubSeq(t, 1, at) \o lines \o SubSeq(t, at + 1, Len(t))

Inserted(t, at, lines) == SubSeq(t, 1, at - 1) \o lines \o SubSeq(t, at, Len(t))

Splice(scored) ==
    /\ due /\ due' = FALSE
    /\ ~Flags(text).scored
    /\ text' = Inserted(Universal(text), SpliceAt(text), Fields(scored))
    /\ UNCHANGED edits

----
(* The owner, in Obsidian or another editor.                               *)

Edit(habit, new) ==
    /\ edits < MaxEdits
    /\ edits' = edits + 1
    /\ habit \in Habits
    /\ text' = new
    /\ UNCHANGED due

End == IF \E i \in DOMAIN text : text[i].end = "crlf" THEN "crlf" ELSE "lf"
Typed(says) == [says |-> says, end |-> End]
Cut(t, first, last) == SubSeq(t, 1, first - 1) \o SubSeq(t, last + 1, Len(t))
Appended(says) ==
    [text EXCEPT ![Len(text)].end = IF @ = "none" THEN End ELSE @] \o <<Typed(says)>>

Tick ==
    \E i \in 2 .. Close(text) - 1 :
        /\ text[i].says \in {"ticked", "unticked"}
        /\ Edit("tick", [text EXCEPT ![i].says = IF @ = "ticked" THEN "unticked" ELSE "ticked"])

AddProperty ==
    \E i \in 2 .. Close(text) : Edit("property", Inserted(text, i, <<Typed("property")>>))

(* A rule, which in Markdown is the line that closes a frontmatter.        *)
AddRule == Edit("rule", Appended("---"))
AddProse == Edit("prose", Appended("text"))

SaveCrlf ==
    /\ End = "lf"
    /\ Edit("crlf", [i \in DOMAIN text |->
          IF text[i].end = "lf" THEN [text[i] EXCEPT !.end = "crlf"] ELSE text[i]])

ChopLastEnd ==
    /\ text[Len(text)].end # "none"
    /\ Edit("chop", [text EXCEPT ![Len(text)].end = "none"])

Break == Edit("break", Inserted(text, 2, <<Typed("text")>>))
Mend ==
    /\ text[2].says = "text"
    /\ Edit("mend", Cut(text, 2, 2))

(* To have the note scored again: lines of the scorer's that follow each   *)
(* other, or, as VOICE.md section 5 has it, the `voice:` key.              *)
VoiceKeys == {"voice", "voiceScore", "voiceModel"}
Unscore ==
    \E first, last \in DOMAIN text :
        /\ first <= last
        /\ \A i \in first .. last : text[i].says \in VoiceKeys
        /\ Edit("unscore", Cut(text, first, last))
Unvoice ==
    \E i \in DOMAIN text :
        /\ text[i].says = "voice"
        /\ Edit("unvoice", Cut(text, i, i))

Owner ==
    \/ Tick \/ AddProperty \/ AddRule \/ AddProse \/ SaveCrlf \/ ChopLastEnd
    \/ Break \/ Mend \/ Unscore \/ Unvoice

Scorer == Scan \/ Skip \/ \E scored \in BOOLEAN : Splice(scored)

Next == Owner \/ Scorer

Spec == Init /\ [][Next]_vars

----
(* Properties.                                                             *)

TypeOK ==
    /\ text \in Seq(Line)
    /\ \A i \in 1 .. Len(text) - 1 : text[i].end # "none"
    /\ Delimited(text)
    /\ edits \in 0..MaxEdits
    /\ due \in BOOLEAN

(* The text is another, and not by an edit of the owner's.                 *)
Written == edits' = edits /\ text' # text

(* What the scorer writes it reads back: the note counts as scored from    *)
(* then on, with the recording and the tick it had, whatever rules, prose  *)
(* and line ends it holds and whatever the owner did since it was listed.  *)
(* Only if that left YAML that does not parse does the note, which is      *)
(* spliced all the same, read as nothing until it is mended.               *)
SplicedIsScored ==
    [][Written /\ Parses(text) => Flags(text') = [Flags(text) EXCEPT !.scored = TRUE]]_vars

(* The scorer only inserts: but for line ends, all that was there is there *)
(* in its order, to the last byte (VOICE.md section 10).                   *)
OnlyInserts ==
    [][Written =>
          \E first, last \in 1 .. Len(text') :
              /\ \A i \in first .. last : text'[i].says \in VoiceKeys
              /\ Len(text) = Len(text') - (last - first + 1)
              /\ \A i \in DOMAIN text :
                    LET was == text[i]
                        is == text'[IF i < first THEN i ELSE i + last - first + 1]
                    IN  was.says = is.says /\ (was.end = "none" <=> is.end = "none")
      ]_vars

(* However often the owner has it scored again, and whatever it reads as   *)
(* between a pass's list and its write, a note has one band.               *)
VoicedOnce == Cardinality({i \in DOMAIN text : text[i].says = "voice"}) <= 1

(* The other service's reader: a splice never hides the id by which the    *)
(* ingest service knows a redelivered recording ("Same note arriving       *)
(* twice: both ids present and equal keeps the existing file", note.go),   *)
(* unless the owner deleted `voice:` alone and left the keys beside it.    *)
Leftover == \E i \in DOMAIN text : text[i].says \in {"voiceScore", "voiceModel"}
IdStaysReadable ==
    [][Written /\ GoReads(text) /\ ~Leftover => GoReads(text')]_vars

(* Deleting the `voice:` key is how a note is scored again (VOICE.md       *)
(* section 5), and should not hide the id either.                          *)
RescoredIsReadable == [][Written /\ GoReads(text) => GoReads(text')]_vars

(* No "gratuitous diff": the lines that were there end as they did.        *)
LineEndsKept ==
    [][Written => \A i \in DOMAIN text : \E j \in DOMAIN text' : text'[j] = text[i]]_vars
=============================================================================
