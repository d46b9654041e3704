----------------------------- MODULE MCNoteText -----------------------------
(* Instances of NoteText for TLC: what the owner does in each.             *)
EXTENDS NoteText

Everything ==
    {"tick", "property", "rule", "prose", "crlf", "chop", "break", "mend", "unscore",
     "unvoice"}
=============================================================================
