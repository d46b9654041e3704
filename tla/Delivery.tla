------------------------------ MODULE Delivery ------------------------------
(***************************************************************************)
(* What a client sends and what the vault holds: the data that the ingest  *)
(* service (Ingest) and its promise (NoteStore) are both about.            *)
(*                                                                         *)
(* The bytes are abstracted to what the code branches on.  A body is a     *)
(* sequence of parts and the way it ends; an audio part is the id its      *)
(* filename sanitises to; a transcription is the words of its slug; a      *)
(* timestamp is a number of seconds.  A file name is its minute, its words *)
(* and, for a name without words, the suffix that follows the minute.      *)
(***************************************************************************)
EXTENDS Integers, Sequences, FiniteSets

CONSTANTS
    Requests,     \* the POST /note requests the service gets
    Deliveries,   \* names of the distinct HTTP requests a client may send
    Content,      \* Content[d]: what delivery d holds, an Input
    Signing,      \* a signing secret is configured (startup insists on one)
    RingId,       \* usable recording ids the ring supplies
    NoId,         \* no id: no audio part, or an unusable filename
    Times,        \* timestamps, in seconds
    NoTime,       \* no timestamp: no text, or none that parses
    Clock,        \* the readings of the server's clock
    Word,         \* what a slug, and so a file name, is made of
    Rand,         \* the words randHex(2) can return
    Owner,        \* who writes the notes that no request wrote
    OwnerNames,   \* the names of those, there from the start
    MaxRemovals,  \* bound: how many notes the owner removes
    LostReplies   \* bound: the requests whose replies from NFS may get lost

Id == RingId \cup {NoId}
SynthesisedId == [at : Times, rnd : Rand]

PartNames == {"audio", "transcription", "recordedAt", "other"}
Endings == {"close",   \* all of it arrived, and it ends with the delimiter
            "buried",  \* the same, with more after the delimiter than the tail keeps
            "bare",    \* all of it arrived, and it does not, or breaks a part
            "cut",     \* the connection died
            "cap"}     \* it is longer than the 16 MiB the handler reads

Part == [name : PartNames, whole : BOOLEAN, id : Id, known : BOOLEAN,
         words : Seq(Word), at : Times \cup {NoTime}]
Input == [auth : BOOLEAN,        \* a configured bearer token
          headers : BOOLEAN,     \* signature headers: there, well formed, recent
          signed : BOOLEAN,      \* the digest is that of the body as sent
          multipart : BOOLEAN,   \* a multipart content type with a boundary
          parts : Seq(Part), ending : Endings]

Name == [minute : Nat, words : Seq(Word), tail : Seq(Word)]
Note == [by : Requests \cup {Owner}, id : Id \cup SynthesisedId,
         synthesised : BOOLEAN, truncated : BOOLEAN, clockServer : BOOLEAN,
         at : Times, words : Seq(Word)]

(* A part breaks only where the reader stops: at the end of what arrived.  *)
WellFormed(i) ==
    \A k \in 1..Len(i.parts) :
        ~i.parts[k].whole => k = Len(i.parts) /\ i.ending \notin {"close", "buried"}

ASSUME ContentAssumption ==
    /\ Content \in [Deliveries -> Input]
    /\ \A d \in Deliveries : WellFormed(Content[d])
    /\ Signing \in BOOLEAN

(* A ring's ids start with its device identifier, a synthesised one with a *)
(* timestamp.                                                              *)
ASSUME IdAssumption ==
    /\ NoId \notin RingId
    /\ \A id \in Id : id \notin SynthesisedId

ASSUME ClockAssumption ==
    /\ Times \subseteq Nat
    /\ NoTime \notin Times
    /\ Clock \subseteq Times
    /\ Clock # {}

ASSUME VaultAssumption ==
    /\ Rand \subseteq Word
    /\ Rand # {}
    /\ Owner \notin Requests
    /\ OwnerNames \subseteq Name
    /\ MaxRemovals \in Nat

(* A note of the owner's own: no id, and nothing a request wrote.          *)
OwnerNote == [by |-> Owner, id |-> NoId, synthesised |-> FALSE,
              truncated |-> FALSE, clockServer |-> FALSE,
              at |-> CHOOSE t \in Clock : TRUE, words |-> <<>>]

(* The body's timestamp is used unless it is missing, zero or more than a  *)
(* day from the server's clock.                                            *)
Day == 86400
Usable(t, now) == t # NoTime /\ t # 0 /\ t - now <= Day /\ now - t <= Day
=============================================================================
