------------------------------- MODULE Naming -------------------------------
(***************************************************************************)
(* How a delivery's texts become file names: `slug` makes words of the     *)
(* transcription and `sanitiseRecordingID` an id of the audio part's file  *)
(* name (note.go).  Ingest takes words and ids as given, and an id for the *)
(* recording that it names.                                                *)
(*                                                                         *)
(* Texts arrive rune by rune, NFKD makes one or two characters of a rune,  *)
(* and each loop reads these as if the text were its own.  A text may end  *)
(* with any rune, so that what holds of its loops holds of every text.     *)
(***************************************************************************)
EXTENDS Integers, Sequences, FiniteSets

CONSTANTS
    Runes,           \* those that texts are made of
    MaxWords,        \* 6 in the code
    MaxBytes,        \* 60 in the code
    MaxRecordingID,  \* 192 in the code
    MaxText,         \* bound: runes of a text
    MaxRecordings    \* bound: recordings

(* "a", "b": small letters and digits; "A": a capital; an accented letter  *)
(* comes apart in NFKD; "blank": whatever no name keeps.                   *)
SlugChars == {"a", "b", "e"}
Alnum == SlugChars \cup {"A"}
SlugParts == SlugChars \cup {"hyphen"}
IdChars == Alnum \cup {"underscore", "hyphen"}
Chars == IdChars \cup {"blank", "accent"}

ASSUME NamingAssumption ==
    /\ Runes \subseteq IdChars \cup {"blank", "eacute"}
    /\ MaxWords \in Nat \ {0} /\ MaxBytes \in Nat \ {0} /\ MaxRecordingID \in Nat \ {0}
    /\ MaxText \in Nat /\ MaxRecordings \in Nat

VARIABLES
    text,         \* the runes so far
    unread,       \* the characters of the last rune that the loops have yet to read
    b, pending,   \* slug's: what is built, and whether a run is to be collapsed
    kept,         \* sanitiseRecordingID's: what is built
    notes,        \* for each recording: its file name, and the id it got
    attachments   \* of these, the ones whose audio was linked

vars == <<text, unread, b, pending, kept, notes, attachments>>

Init ==
    /\ text = <<>> /\ unread = <<>>
    /\ b = <<>> /\ pending = FALSE /\ kept = <<>>
    /\ notes = {} /\ attachments = {}

----
(* The loops.                                                              *)

NFKD(rune) == IF rune = "eacute" THEN <<"e", "accent">> ELSE <<rune>>
Lower(c) == IF c = "A" THEN "a" ELSE c

(* A text has one more rune, while a recording has yet to come.            *)
Rune(rune) ==
    /\ unread = <<>> /\ Len(text) < MaxText /\ Cardinality(notes) < MaxRecordings
    /\ text' = Append(text, rune)
    /\ unread' = NFKD(rune)
    /\ UNCHANGED <<b, pending, kept, notes, attachments>>

Separator == IF pending /\ b # <<>> THEN <<"hyphen">> ELSE <<>>

SlugReads(c) ==
    IF Lower(c) \in SlugChars
    THEN b' = b \o Append(Separator, Lower(c)) /\ pending' = FALSE
    ELSE b' = b /\ pending' = TRUE

IdReads(c) == kept' = IF c \in IdChars THEN Append(kept, c) ELSE kept

Read ==
    /\ unread # <<>>
    /\ unread' = Tail(unread)
    /\ SlugReads(Head(unread))
    /\ IdReads(Head(unread))
    /\ UNCHANGED <<text, notes, attachments>>

----
(* After the loops.                                                        *)

Hyphens(s) == {i \in DOMAIN s : s[i] = "hyphen"}

(* strings.Split, words[:6], strings.Join.                                 *)
FirstWords(s) ==
    IF Cardinality(Hyphens(s)) < MaxWords THEN s
    ELSE LET cut == CHOOSE i \in Hyphens(s) :
                        Cardinality({j \in Hyphens(s) : j < i}) = MaxWords - 1
         IN  SubSeq(s, 1, cut - 1)

TrimRight(s) ==
    LET last == CHOOSE i \in 0..Len(s) :
                    /\ \A j \in i + 1 .. Len(s) : s[j] = "hyphen"
                    /\ i > 0 => s[i] # "hyphen"
    IN  SubSeq(s, 1, last)

Capped_Untrimmed(s) == IF Len(s) > MaxBytes THEN SubSeq(s, 1, MaxBytes) ELSE s
Capped(s) == IF Len(s) > MaxBytes THEN TrimRight(SubSeq(s, 1, MaxBytes)) ELSE s

Slug == Capped(FirstWords(b))

Cut_Tight(id) == IF Len(id) >= MaxRecordingID THEN SubSeq(id, 1, MaxRecordingID - 1) ELSE id
Cut(id) == IF Len(id) > MaxRecordingID THEN SubSeq(id, 1, MaxRecordingID) ELSE id

(* An empty sequence where sanitiseRecordingID finds the name unusable.    *)
SanitiseRecordingID ==
    LET id == Cut(kept)
    IN  IF id # <<>> /\ id[1] # "hyphen" /\ \E i \in DOMAIN id : id[i] \in Alnum
        THEN id ELSE <<>>

(* A recording whose file name is the text, with ".m4a" behind it or not:  *)
(* the suffix is trimmed before the loop.  An id that is taken is taken to *)
(* be this recording's, and its audio is kept; a synthesised id, here <<>>,*)
(* is drawn until it is free.                                              *)
Deliver(suffix) ==
    LET note == [file |-> [name |-> text, suffix |-> suffix], id |-> SanitiseRecordingID]
    IN  /\ unread = <<>> /\ Cardinality(notes) < MaxRecordings
        /\ notes' = notes \cup {note}
        /\ attachments' =
               IF note.id # <<>> /\ \E other \in attachments : other.id = note.id
               THEN attachments ELSE attachments \cup {note}
        /\ text' = <<>> /\ b' = <<>> /\ pending' = FALSE /\ kept' = <<>>
        /\ UNCHANGED unread

Next ==
    \/ \E rune \in Runes : Rune(rune)
    \/ Read
    \/ \E suffix \in BOOLEAN : Deliver(suffix)

Spec == Init /\ [][Next]_vars

----
(* Properties.                                                             *)

File == [name : Seq(Runes), suffix : BOOLEAN]

(* Types; an id is no longer than a file name has room for.                *)
TypeOK ==
    /\ text \in Seq(Runes) /\ unread \in Seq(Chars)
    /\ b \in Seq(SlugParts) /\ pending \in BOOLEAN
    /\ kept \in Seq(IdChars)
    /\ notes \subseteq [file : File, id : Seq(IdChars)]
    /\ \A note \in notes : Len(note.id) <= MaxRecordingID
    /\ attachments \subseteq notes

(* SPEC.md 7.3 word for word: of the text in NFKD and small letters, runs  *)
(* of [a-z0-9] are the words; the first few of them with single hyphens    *)
(* between, as many characters of that as fit, and no hyphen at the end.   *)
Written == [i \in 1 .. 2 * Len(text) |->
               LET rune == NFKD(text[(i + 1) \div 2])
               IN  IF i % 2 = 1 THEN Lower(rune[1])
                   ELSE IF Len(rune) = 2 THEN rune[2] ELSE "nothing"]
InWord(i) == Written[i] \in SlugChars
Starts(i) ==
    InWord(i) /\ ~\E h \in 1 .. i - 1 :
                    InWord(h) /\ \A j \in h .. i : InWord(j) \/ Written[j] = "nothing"
Place(i) == Cardinality({j \in 1..i : InWord(j)}) + Cardinality({j \in 1..i : Starts(j)}) - 1
Shown == {i \in DOMAIN Written :
             /\ InWord(i) /\ Place(i) <= MaxBytes
             /\ Cardinality({j \in 1..i : Starts(j)}) <= MaxWords}

(* The loop, its flag and the cuts after it make just these words.         *)
SlugIsTheWords ==
    unread = <<>> =>
        /\ \A i \in Shown : Place(i) \in DOMAIN Slug /\ Slug[Place(i)] = Written[i]
        /\ \A p \in DOMAIN Slug : Slug[p] # "hyphen" => \E i \in Shown : Place(i) = p
        /\ Slug # <<>> => Slug[Len(Slug)] # "hyphen"

(* What is built has no hyphen at its ends and no two in a row, wherever   *)
(* in a text the loop is: the split into words finds no empty one.         *)
HyphensAreBetween ==
    \A i \in DOMAIN b : b[i] = "hyphen" => i > 1 /\ i < Len(b) /\ b[i + 1] # "hyphen"

(* "The filename is the id" (SPEC.md 7.4): a name that only uses what an   *)
(* id may hold, as the ring's do, is the id, whole.                        *)
FromRing(file) ==
    LET name == file.name
    IN  /\ \A i \in DOMAIN name : name[i] \in IdChars
        /\ name # <<>> /\ name[1] # "hyphen" /\ Len(name) <= MaxRecordingID
        /\ \E i \in DOMAIN name : name[i] \in Alnum
RingNameIsId == \A note \in notes : FromRing(note.file) => note.id = note.file.name

(* "this is the same recording arriving twice" (SPEC.md 7.4), for any file *)
(* names: a note's audio is there.                                         *)
EmbedIsOwn == notes \subseteq attachments
=============================================================================
