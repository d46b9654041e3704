------------------------------ MODULE VoiceBook -----------------------------
(***************************************************************************)
(* What the scorer promises about the vault: the book of the notes and the *)
(* voices they carry.  A note comes without a voice; a step of the scorer  *)
(* gives one note one voice, and only a note that has none, or is gone by  *)
(* then; whatever else happens to it is an edit by the owner.  No step is  *)
(* about two notes.                                                        *)
(***************************************************************************)
EXTENDS Integers

CONSTANTS
    NoteNames,    \* paths of notes
    Voices,       \* the voices that may be given
    NoVoice       \* a note that carries none

VARIABLES
    book,         \* the voices of the notes that are in the vault
    edits         \* how often the owner has edited it
vars == <<book, edits>>

With(n, v) == [m \in DOMAIN book \cup {n} |-> IF m = n THEN v ELSE book[m]]

Init == DOMAIN book \subseteq NoteNames /\ edits = 0

Add(n) ==
    /\ n \notin DOMAIN book
    /\ book' = With(n, NoVoice)
    /\ UNCHANGED edits

Give(n) ==
    /\ n \in DOMAIN book => book[n] = NoVoice
    /\ \E v \in Voices : book' = With(n, v)
    /\ UNCHANGED edits

Owner(n) ==
    /\ n \in DOMAIN book
    /\ edits' = edits + 1
    /\ \/ book' = book
       \/ book' = With(n, NoVoice)
       \/ book' = [m \in DOMAIN book \ {n} |-> book[m]]

Next == \E n \in NoteNames : Add(n) \/ Give(n) \/ Owner(n)

Spec == Init /\ [][Next]_vars
=============================================================================
