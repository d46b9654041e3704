---------------------------- MODULE NamingProofs ----------------------------
(***************************************************************************)
(* Proofs about Naming, for any runes, texts, caps and recordings.         *)
(***************************************************************************)
EXTENDS Naming, FiniteSetTheorems, WellFoundedInduction, TLAPS

LEMMA Empty == ASSUME NEW S PROVE <<>> \in Seq(S) /\ Len(<<>>) = 0
  OBVIOUS

LEMMA CapsType == MaxRecordingID \in Nat \ {0} /\ Runes \subseteq IdChars \cup {"blank", "eacute"}
  BY NamingAssumption

LEMMA NFKDType ==
    ASSUME NEW rune \in Runes
    PROVE  /\ NFKD(rune) \in Seq(Chars)
           /\ rune \in IdChars => NFKD(rune) = <<rune>>
  <1>1. CASE rune = "eacute"
    BY <1>1 DEF NFKD, Chars, IdChars, Alnum, SlugChars
  <1>2. CASE rune # "eacute"
    <2>1. rune \in Chars
      BY <1>2, NamingAssumption DEF Chars
    <2> QED
      BY <1>2, <2>1 DEF NFKD
  <1> QED
    BY <1>1, <1>2

LEMMA CutType ==
    ASSUME NEW id \in Seq(IdChars)
    PROVE  Cut(id) \in Seq(IdChars) /\ Len(Cut(id)) <= MaxRecordingID
  <1>1. CASE Len(id) > MaxRecordingID
    <2>1. MaxRecordingID \in 0 .. Len(id)
      BY <1>1, NamingAssumption
    <2>2. SubSeq(id, 1, MaxRecordingID) \in Seq(IdChars)
      BY <2>1
    <2>3. Len(SubSeq(id, 1, MaxRecordingID)) = MaxRecordingID
      BY <2>1
    <2> QED
      BY <1>1, <2>2, <2>3, NamingAssumption DEF Cut
  <1>2. CASE ~(Len(id) > MaxRecordingID)
    BY <1>2, NamingAssumption DEF Cut
  <1> QED
    BY <1>1, <1>2

LEMMA IdType ==
    ASSUME kept \in Seq(IdChars)
    PROVE  SanitiseRecordingID \in Seq(IdChars) /\ Len(SanitiseRecordingID) <= MaxRecordingID
  <1> HIDE DEF Cut
  <1>1. <<>> \in Seq(IdChars) /\ Len(<<>>) <= MaxRecordingID
    BY NamingAssumption
  <1>2. SanitiseRecordingID \in {Cut(kept), <<>>}
    BY DEF SanitiseRecordingID
  <1> QED
    BY <1>1, <1>2, CutType

LEMMA NamingTypeStep == TypeOK /\ [Next]_vars => TypeOK'
  <1> SUFFICES ASSUME TypeOK, [Next]_vars PROVE TypeOK'
    OBVIOUS
  <1> USE DEF TypeOK
  <1>1. ASSUME NEW rune \in Runes, Rune(rune) PROVE TypeOK'
    BY <1>1, NFKDType DEF Rune
  <1>2. CASE Read
    <2>1. Head(unread) \in Chars /\ unread' \in Seq(Chars)
      BY <1>2 DEF Read
    <2>2. kept' \in Seq(IdChars)
      BY <1>2 DEF Read, IdReads
    <2>3. Separator \in Seq(SlugParts)
      <3>1. "hyphen" \in SlugParts
        BY DEF SlugParts
      <3>2. <<"hyphen">> \in Seq(SlugParts)
        BY <3>1
      <3> QED
        BY <3>2, Empty DEF Separator
    <2>4. b' \in Seq(SlugParts) /\ pending' \in BOOLEAN
      <3>1. CASE Lower(Head(unread)) \in SlugChars
        <4>1. Lower(Head(unread)) \in SlugParts
          BY <3>1 DEF SlugParts
        <4>2. Append(Separator, Lower(Head(unread))) \in Seq(SlugParts)
          BY <2>3, <4>1
        <4>3. b' = b \o Append(Separator, Lower(Head(unread))) /\ pending' = FALSE
          BY <1>2, <3>1 DEF Read, SlugReads
        <4>4. ASSUME NEW s \in Seq(SlugParts) PROVE b \o s \in Seq(SlugParts)
          OBVIOUS
        <4> QED
          BY <4>2, <4>3, <4>4
      <3>2. CASE Lower(Head(unread)) \notin SlugChars
        BY <1>2, <3>2 DEF Read, SlugReads
      <3> QED
        BY <3>1, <3>2
    <2>5. UNCHANGED <<text, notes, attachments>>
      BY <1>2 DEF Read
    <2> QED
      BY <2>1, <2>2, <2>4, <2>5
  <1>3. ASSUME NEW suffix \in BOOLEAN, Deliver(suffix) PROVE TypeOK'
    <2> DEFINE note == [file |-> [name |-> text, suffix |-> suffix], id |-> SanitiseRecordingID]
    <2>1. note.id \in Seq(IdChars) /\ Len(note.id) <= MaxRecordingID
      BY IdType
    <2>2. note \in [file : File, id : Seq(IdChars)]
      BY <2>1 DEF File
    <2>3. notes' = notes \cup {note} /\ attachments' \subseteq attachments \cup {note}
      BY <1>3 DEF Deliver
    <2>4. text' = <<>> /\ unread' = unread /\ b' = <<>> /\ pending' = FALSE /\ kept' = <<>>
      BY <1>3 DEF Deliver
    <2>5. notes' \subseteq [file : File, id : Seq(IdChars)]
      BY <2>2, <2>3
    <2>6. \A n \in notes' : Len(n.id) <= MaxRecordingID
      BY <2>1, <2>3
    <2> HIDE DEF note
    <2> QED
      BY <2>3, <2>4, <2>5, <2>6, Empty
  <1>4. CASE UNCHANGED vars
    BY <1>4 DEF vars
  <1> QED
    BY <1>1, <1>2, <1>3, <1>4 DEF Next

(* Types are kept; ids are no longer than their cap, whatever it is.       *)
THEOREM NamingTypeCorrect == Spec => []TypeOK
  <1>1. Init => TypeOK
    BY Empty DEF Init, TypeOK
  <1> QED
    BY <1>1, NamingTypeStep, PTL DEF Spec

----
(* Every hyphen is followed by a character of a word, as the loop writes   *)
(* one only with the other, and never before there is any.                 *)
LEMMA HyphenStep == TypeOK /\ HyphensAreBetween /\ [Next]_vars => HyphensAreBetween'
  <1> SUFFICES ASSUME TypeOK, HyphensAreBetween, [Next]_vars PROVE HyphensAreBetween'
    OBVIOUS
  <1>1. ASSUME NEW rune \in Runes, Rune(rune) PROVE HyphensAreBetween'
    BY <1>1 DEF Rune, HyphensAreBetween
  <1>2. CASE Read
    <2> DEFINE c == Lower(Head(unread))
    <2>1. CASE c \notin SlugChars
      BY <1>2, <2>1 DEF Read, SlugReads, HyphensAreBetween
    <2>2. CASE c \in SlugChars
      <3>1. b' = b \o Append(Separator, c)
        BY <1>2, <2>2 DEF Read, SlugReads
      <3>2. c # "hyphen"
        BY <2>2 DEF SlugChars
      <3>3. b \in Seq(SlugParts)
        BY DEF TypeOK
      <3> HIDE DEF c
      <3>4. CASE Separator = <<>>
        <4>1. b' = Append(b, c)
          BY <3>1, <3>3, <3>4
        <4> QED
          BY <3>2, <3>3, <4>1 DEF HyphensAreBetween
      <3>5. CASE b # <<>> /\ Separator = <<"hyphen">>
        <4>1. b' = Append(Append(b, "hyphen"), c)
          BY <3>1, <3>3, <3>5
        <4>2. Len(b') = Len(b) + 2 /\ b'[Len(b) + 1] = "hyphen" /\ b'[Len(b) + 2] = c
          BY <3>3, <4>1
        <4>3. \A i \in DOMAIN b : b'[i] = b[i]
          BY <3>3, <4>1
        <4>4. DOMAIN b = 1 .. Len(b) /\ DOMAIN b' = 1 .. Len(b) + 2 /\ Len(b) \in Nat \ {0}
          BY <3>3, <3>5, <4>1
        <4> QED
          BY <3>2, <4>2, <4>3, <4>4 DEF HyphensAreBetween
      <3> QED
        BY <3>4, <3>5 DEF Separator
    <2> QED
      BY <2>1, <2>2
  <1>3. ASSUME NEW suffix \in BOOLEAN, Deliver(suffix) PROVE HyphensAreBetween'
    BY <1>3 DEF Deliver, HyphensAreBetween
  <1>4. CASE UNCHANGED vars
    BY <1>4 DEF vars, HyphensAreBetween
  <1> QED
    BY <1>1, <1>2, <1>3, <1>4 DEF Next

(* The words of a slug are never empty, wherever its loop stops.           *)
THEOREM HyphensHold == Spec => []HyphensAreBetween
  <1>1. Init => TypeOK /\ HyphensAreBetween
    <2>1. Init => TypeOK
      BY Empty DEF Init, TypeOK
    <2>2. Init => HyphensAreBetween
      BY DEF Init, HyphensAreBetween
    <2> QED
      BY <2>1, <2>2
  <1> QED
    BY <1>1, NamingTypeStep, HyphenStep, PTL DEF Spec

----
(* Of a text that only uses what an id may hold, the id's loop has kept    *)
(* all that it has read.                                                   *)
Clean(name) == \A i \in DOMAIN name : name[i] \in IdChars
KeptAll == Clean(text) =>
    \/ unread = <<>> /\ kept = text
    \/ /\ text # <<>> /\ unread = <<text[Len(text)]>>
       /\ kept = SubSeq(text, 1, Len(text) - 1)

LEMMA KeptStep == TypeOK /\ KeptAll /\ [Next]_vars => KeptAll'
  <1> SUFFICES ASSUME TypeOK, KeptAll, [Next]_vars, Clean(text') PROVE KeptAll'
    BY DEF KeptAll
  <1> USE DEF TypeOK
  <1>1. ASSUME NEW rune \in Runes, Rune(rune) PROVE KeptAll'
    <2>1. text' = Append(text, rune) /\ unread = <<>> /\ kept' = kept /\ unread' = NFKD(rune)
      BY <1>1 DEF Rune
    <2>2. Len(text') = Len(text) + 1 /\ text'[Len(text) + 1] = rune
      BY <2>1
    <2>3. rune \in IdChars
      BY <2>1, <2>2 DEF Clean
    <2>4. Clean(text)
      BY <2>1 DEF Clean
    <2>5. kept = text
      BY <2>1, <2>4 DEF KeptAll
    <2>6. SubSeq(text', 1, Len(text') - 1) = text
      BY <2>1, <2>2
    <2>7. unread' = <<rune>>
      BY <2>1, <2>3, NFKDType
    <2> QED
      BY <2>1, <2>2, <2>5, <2>6, <2>7 DEF KeptAll
  <1>2. CASE Read
    <2>1. text' = text /\ unread # <<>> /\ unread' = Tail(unread) /\ IdReads(Head(unread))
      BY <1>2 DEF Read
    <2>2. /\ text # <<>> /\ unread = <<text[Len(text)]>>
          /\ kept = SubSeq(text, 1, Len(text) - 1)
      BY <2>1 DEF KeptAll
    <2>3. text[Len(text)] \in IdChars
      BY <2>1, <2>2 DEF Clean
    <2>4. unread' = <<>> /\ kept' = Append(kept, text[Len(text)])
      BY <2>1, <2>2, <2>3 DEF IdReads
    <2>5. kept' = text
      BY <2>2, <2>4
    <2> QED
      BY <2>1, <2>4, <2>5 DEF KeptAll
  <1>3. ASSUME NEW suffix \in BOOLEAN, Deliver(suffix) PROVE KeptAll'
    BY <1>3 DEF Deliver, KeptAll
  <1>4. CASE UNCHANGED vars
    BY <1>4 DEF vars, KeptAll
  <1> QED
    BY <1>1, <1>2, <1>3, <1>4 DEF Next

LEMMA RingStep == TypeOK /\ KeptAll /\ RingNameIsId /\ [Next]_vars => RingNameIsId'
  <1> SUFFICES ASSUME TypeOK, KeptAll, RingNameIsId, [Next]_vars PROVE RingNameIsId'
    OBVIOUS
  <1>1. ASSUME NEW rune \in Runes, Rune(rune) PROVE RingNameIsId'
    BY <1>1 DEF Rune, RingNameIsId
  <1>2. CASE Read
    BY <1>2 DEF Read, RingNameIsId
  <1>3. ASSUME NEW suffix \in BOOLEAN, Deliver(suffix) PROVE RingNameIsId'
    <2> DEFINE note == [file |-> [name |-> text, suffix |-> suffix], id |-> SanitiseRecordingID]
    <2>1. notes' = notes \cup {note} /\ unread = <<>>
      BY <1>3 DEF Deliver
    <2>2. ASSUME FromRing(note.file) PROVE note.id = note.file.name
      <3>1. Clean(text) /\ text # <<>> /\ text[1] # "hyphen" /\ Len(text) <= MaxRecordingID
        BY <2>2 DEF FromRing, Clean
      <3>2. \E i \in DOMAIN text : text[i] \in Alnum
        BY <2>2 DEF FromRing
      <3>3. kept = text
        BY <2>1, <3>1 DEF KeptAll
      <3>4. Cut(kept) = text
        BY <3>1, <3>3, NamingAssumption DEF Cut, TypeOK
      <3> QED
        BY <3>1, <3>2, <3>4 DEF SanitiseRecordingID
    <2> HIDE DEF note
    <2> QED
      BY <2>1, <2>2 DEF RingNameIsId
  <1>4. CASE UNCHANGED vars
    BY <1>4 DEF vars, RingNameIsId
  <1> QED
    BY <1>1, <1>2, <1>3, <1>4 DEF Next

(* A name that only uses what an id may hold is the id, whatever the cap   *)
(* it is within: two recordings of the ring's never share one.             *)
THEOREM RingNameHolds == Spec => []RingNameIsId
  <1>1. Init => TypeOK /\ KeptAll /\ RingNameIsId
    BY Empty DEF Init, TypeOK, KeptAll, RingNameIsId
  <1> QED
    BY <1>1, NamingTypeStep, KeptStep, RingStep, PTL DEF Spec
----
(* Counting the members of a set among the first numbers.                  *)
Count(S, n) == Cardinality({j \in 1..n : j \in S})

LEMMA Counted ==
    ASSUME NEW S, NEW n \in Nat
    PROVE  /\ IsFiniteSet({j \in 1..n : j \in S}) /\ Count(S, n) \in Nat
           /\ Count(S, n + 1) = Count(S, n) + (IF n + 1 \in S THEN 1 ELSE 0)
  <1> DEFINE T == {j \in 1..n : j \in S}
  <1>1. IsFiniteSet(T) /\ Cardinality(T) \in Nat
    <2>1. IsFiniteSet(1..n)
      BY FS_Interval, 1 \in Int, n \in Int
    <2> QED
      BY <2>1, FS_Subset, FS_CardinalityType, T \in SUBSET (1..n)
  <1>2. CASE n + 1 \in S
    <2>1. {j \in 1 .. n + 1 : j \in S} = T \cup {n + 1}
      BY <1>2
    <2>2. n + 1 \notin T
      OBVIOUS
    <2> HIDE DEF T
    <2>3. Cardinality(T \cup {n + 1}) = Cardinality(T) + 1
      BY <1>1, <2>2, FS_AddElement
    <2> QED
      BY <1>1, <1>2, <2>1, <2>3 DEF Count, T
  <1>3. CASE n + 1 \notin S
    <2>1. {j \in 1 .. n + 1 : j \in S} = T
      BY <1>3
    <2> QED
      BY <1>1, <1>3, <2>1 DEF Count
  <1> QED
    BY <1>1, <1>2, <1>3 DEF Count

LEMMA Counts ==
    ASSUME NEW S, NEW n \in Nat
    PROVE  /\ Count(S, n) \in Nat
           /\ n + 1 \in S => Count(S, n + 1) = Count(S, n) + 1
           /\ n + 1 \notin S => Count(S, n + 1) = Count(S, n)
  <1>1. Count(S, n) \in Nat
    BY Counted
  <1>2. Count(S, n + 1) = Count(S, n) + (IF n + 1 \in S THEN 1 ELSE 0)
    BY Counted
  <1> QED
    BY <1>1, <1>2

LEMMA CountGrows ==
    ASSUME NEW S, NEW m \in Nat, NEW n \in Nat, m <= n
    PROVE  /\ Count(S, m) <= Count(S, n)
           /\ m < n /\ n \in S => Count(S, m) < Count(S, n)
  <1>1. ASSUME NEW k \in Nat, m <= k PROVE Count(S, m) <= Count(S, k)
    <2>1. {j \in 1..m : j \in S} \in SUBSET {j \in 1..k : j \in S}
      BY <1>1
    <2> QED
      BY <1>1, <2>1, Counted, FS_Subset DEF Count
  <1>2. ASSUME m < n, n \in S PROVE Count(S, m) < Count(S, n)
    <2>1. PICK k \in Nat : m <= k /\ n = k + 1
      BY <1>2, n - 1 \in Nat
    <2>2. Count(S, m) <= Count(S, k)
      BY <1>1, <2>1
    <2>3. Count(S, k + 1) = Count(S, k) + 1
      BY <1>2, <2>1, Counted
    <2>4. Count(S, m) \in Nat /\ Count(S, k) \in Nat
      BY Counted
    <2> QED
      BY <2>1, <2>2, <2>3, <2>4
  <1> QED
    BY <1>1, <1>2

LEMMA CountAgrees ==
    ASSUME NEW S, NEW T, NEW n \in Nat, \A j \in 1..n : j \in S <=> j \in T
    PROVE  Count(S, n) = Count(T, n)
  <1>1. {j \in 1..n : j \in S} = {j \in 1..n : j \in T}
    OBVIOUS
  <1> QED
    BY <1>1 DEF Count

LEMMA CountNone ==
    ASSUME NEW S, NEW n \in Nat, \A j \in 1..n : j \notin S
    PROVE  Count(S, n) = 0
  <1>1. {j \in 1..n : j \in S} = {}
    OBVIOUS
  <1> QED
    BY <1>1, FS_EmptySet DEF Count

LEMMA LeastExists ==
    ASSUME NEW T, T \subseteq Nat, T # {}
    PROVE  \E x \in T : \A y \in T : x <= y
  <1> DEFINE Less == {ss \in Nat \X Nat : ss[1] < ss[2]}
  <1>1. IsWellFoundedOn(Less, Nat)
    BY NatLessThanWellFounded DEF OpToRel
  <1>2. \E x \in T : \A y \in T : <<y, x>> \notin Less
    <2> HIDE DEF Less
    <2> QED
      BY <1>1, WFMin
  <1>3. PICK x \in T : \A y \in T : <<y, x>> \notin Less
    BY <1>2
  <1> SUFFICES ASSUME NEW y \in T PROVE x <= y
    OBVIOUS
  <1>4. <<y, x>> \in Nat \X Nat /\ ~(y < x)
    BY <1>3
  <1> QED
    BY <1>4

(* The number at which a count comes to m.                                 *)
LEMMA CountReaches ==
    ASSUME NEW S, NEW n \in Nat, NEW m \in Nat \ {0}, m <= Count(S, n)
    PROVE  \E i \in 1..n : i \in S /\ Count(S, i - 1) = m - 1
  <1> DEFINE T == {i \in 1..n : m <= Count(S, i)}
  <1>1. Count(S, 0) = 0
    BY CountNone
  <1>2. n \in T
    BY <1>1
  <1>3. PICK i \in T : \A k \in T : i <= k
    BY <1>2, LeastExists, T \subseteq Nat
  <1>4. i - 1 \in Nat /\ (i - 1) + 1 = i /\ Count(S, i - 1) < m
    <2>1. CASE i = 1
      BY <2>1, <1>1
    <2>2. CASE i # 1
      <3>1. i - 1 \in 1..n /\ i - 1 \notin T
        BY <1>3, <2>2
      <3>2. Count(S, i - 1) \in Nat
        BY <3>1, Counted, i - 1 \in Nat
      <3> QED
        BY <3>1, <3>2
    <2> QED
      BY <2>1, <2>2
  <1>5. Count(S, i) = Count(S, i - 1) + (IF i \in S THEN 1 ELSE 0)
    <2>1. PICK k \in Nat : k = i - 1 /\ k + 1 = i
      BY <1>4
    <2>2. Count(S, k + 1) = Count(S, k) + (IF k + 1 \in S THEN 1 ELSE 0)
      BY Counted
    <2> QED
      BY <2>1, <2>2
  <1>6. Count(S, i - 1) \in Nat /\ m <= Count(S, i)
    BY <1>4, Counted
  <1> QED
    BY <1>4, <1>5, <1>6

----
(* What the loop has made of the part of a text it has read.               *)
Spelled(t) == [i \in 1 .. 2 * Len(t) |->
                  LET rune == NFKD(t[(i + 1) \div 2])
                  IN  IF i % 2 = 1 THEN Lower(rune[1])
                      ELSE IF Len(rune) = 2 THEN rune[2] ELSE "nothing"]
Letters(w) == {i \in DOMAIN w : w[i] \in SlugChars}
Joined(w, h, i) == \A j \in h..i : j \in Letters(w) \/ w[j] = "nothing"
Firsts(w) == {i \in Letters(w) : ~\E h \in 1 .. i - 1 : h \in Letters(w) /\ Joined(w, h, i)}
At(w, i) == Count(Letters(w), i) + Count(Firsts(w), i) - 1

(* The slug s stands for the first n characters of w: each letter is in    *)
(* its place, with a hyphen for each word before its own, and there is     *)
(* nothing else; p tells whether a letter that comes now begins a word.    *)
Built(w, n, s) ==
    /\ s = <<>> => \A i \in 1..n : i \notin Letters(w)
    /\ s # <<>> => Len(s) = At(w, n) /\ Count(Hyphens(s), Len(s)) = Count(Firsts(w), n) - 1
    /\ \A i \in 1..n : i \in Letters(w) =>
          /\ At(w, i) \in 1 .. Len(s) /\ s[At(w, i)] = w[i]
          /\ Count(Hyphens(s), At(w, i)) = Count(Firsts(w), i) - 1
    /\ \A q \in 1 .. Len(s) : s[q] # "hyphen" => \E i \in 1..n : i \in Letters(w) /\ At(w, i) = q
Waits(w, n, s, p) ==
    IF p THEN \E j \in 1..n : w[j] # "nothing" /\ \A k \in j..n : k \notin Letters(w)
    ELSE s # <<>> => \E h \in 1..n : h \in Letters(w) /\ Joined(w, h, n)
Reads(w, n, s, p) == Built(w, n, s) /\ Waits(w, n, s, p)

SlugRead ==
    LET w == Spelled(text)
        n == 2 * Len(text)
    IN  \/ unread = <<>> /\ Reads(w, n, b, pending)
        \/ text # <<>> /\ unread = NFKD(text[Len(text)]) /\ Reads(w, n - 2, b, pending)
        \/ /\ text # <<>> /\ text[Len(text)] = "eacute" /\ unread = <<"accent">>
           /\ Reads(w, n - 1, b, pending)

LEMMA CharIs ==
    ASSUME NEW w, NEW n \in Nat, n + 1 \in DOMAIN w, DOMAIN w \subseteq Nat,
           NEW s \in Seq(SlugParts), Built(w, n, s)
    PROVE  /\ At(w, n) \in Int /\ At(w, n + 1) \in Int
           /\ Count(Letters(w), n + 1) = Count(Letters(w), n) + (IF w[n + 1] \in SlugChars THEN 1 ELSE 0)
           /\ Count(Firsts(w), n + 1) = Count(Firsts(w), n) + (IF n + 1 \in Firsts(w) THEN 1 ELSE 0)
           /\ n + 1 \in Letters(w) <=> w[n + 1] \in SlugChars
           /\ n + 1 \in Firsts(w) => n + 1 \in Letters(w)
  <1>1. n + 1 \in Letters(w) <=> w[n + 1] \in SlugChars
    BY DEF Letters
  <1>2. n + 1 \in Firsts(w) => n + 1 \in Letters(w)
    BY DEF Firsts
  <1>3. Count(Letters(w), n) \in Nat /\ Count(Firsts(w), n) \in Nat
    BY Counted
  <1>4. Count(Letters(w), n + 1) \in Nat /\ Count(Firsts(w), n + 1) \in Nat
    BY Counted, n + 1 \in Nat
  <1>5. /\ Count(Letters(w), n + 1) = Count(Letters(w), n) + (IF n + 1 \in Letters(w) THEN 1 ELSE 0)
        /\ Count(Firsts(w), n + 1) = Count(Firsts(w), n) + (IF n + 1 \in Firsts(w) THEN 1 ELSE 0)
    BY Counted
  <1>6. At(w, n) \in Int /\ At(w, n + 1) \in Int
    BY <1>3, <1>4 DEF At
  <1> QED
    BY <1>1, <1>2, <1>5, <1>6

(* A character that is no letter adds nothing.                             *)
LEMMA OtherRead ==
    ASSUME NEW w, NEW n \in Nat, n + 1 \in DOMAIN w, DOMAIN w \subseteq Nat,
           NEW s \in Seq(SlugParts), Built(w, n, s), w[n + 1] \notin SlugChars
    PROVE  Built(w, n + 1, s)
  <1>1. n + 1 \notin Letters(w) /\ At(w, n + 1) = At(w, n) /\ Count(Firsts(w), n + 1) = Count(Firsts(w), n)
    <2>1. n + 1 \notin Letters(w) /\ n + 1 \notin Firsts(w)
      BY CharIs
    <2>2. Count(Letters(w), n) \in Nat /\ Count(Firsts(w), n) \in Nat
      BY Counted
    <2>3. Count(Letters(w), n + 1) = Count(Letters(w), n) /\ Count(Firsts(w), n + 1) = Count(Firsts(w), n)
      BY <2>1, <2>2, CharIs
    <2> QED
      BY <2>1, <2>3 DEF At
  <1> QED
    BY <1>1 DEF Built

LEMMA NothingRead ==
    ASSUME NEW w, NEW n \in Nat, n + 1 \in DOMAIN w, DOMAIN w \subseteq Nat,
           NEW s \in Seq(SlugParts), NEW p \in BOOLEAN,
           Reads(w, n, s, p), w[n + 1] = "nothing"
    PROVE  Reads(w, n + 1, s, p)
  <1>1. w[n + 1] \notin SlugChars
    BY DEF SlugChars
  <1>2. Built(w, n + 1, s)
    BY <1>1, OtherRead DEF Reads
  <1>3. n + 1 \notin Letters(w)
    BY <1>1 DEF Letters
  <1>4. Waits(w, n + 1, s, p)
    BY <1>3 DEF Reads, Waits, Joined
  <1> QED
    BY <1>2, <1>4 DEF Reads

LEMMA SeparatorRead ==
    ASSUME NEW w, NEW n \in Nat, n + 1 \in DOMAIN w, DOMAIN w \subseteq Nat,
           NEW s \in Seq(SlugParts), NEW p \in BOOLEAN,
           Reads(w, n, s, p), w[n + 1] \notin SlugChars, w[n + 1] # "nothing"
    PROVE  Reads(w, n + 1, s, TRUE)
  <1>1. Built(w, n + 1, s)
    BY OtherRead DEF Reads
  <1>2. n + 1 \notin Letters(w)
    BY DEF Letters
  <1>3. Waits(w, n + 1, s, TRUE)
    BY <1>2 DEF Waits
  <1> QED
    BY <1>1, <1>3 DEF Reads

(* The flag says whether a letter begins a word.                           *)
LEMMA FirstIs ==
    ASSUME NEW w, NEW n \in Nat, n + 1 \in DOMAIN w, DOMAIN w \subseteq Nat,
           NEW s \in Seq(SlugParts), NEW p \in BOOLEAN,
           Reads(w, n, s, p), w[n + 1] \in SlugChars
    PROVE  n + 1 \in Firsts(w) <=> s = <<>> \/ p
  <1>1. n + 1 \in Letters(w)
    BY DEF Letters
  <1>2. CASE s = <<>>
    BY <1>1, <1>2 DEF Reads, Built, Firsts
  <1>3. CASE s # <<>> /\ p
    <2>1. PICK j \in 1..n : w[j] # "nothing" /\ \A k \in j..n : k \notin Letters(w)
      BY <1>3 DEF Reads, Waits
    <2>2. ASSUME NEW h \in 1 .. (n + 1) - 1, h \in Letters(w), Joined(w, h, n + 1) PROVE FALSE
      <3>1. h < j
        BY <2>1, <2>2
      <3>2. j \in h .. n + 1 /\ j \notin Letters(w) /\ w[j] # "nothing"
        BY <2>1, <3>1
      <3> QED
        BY <2>2, <3>2 DEF Joined
    <2> QED
      BY <1>1, <1>3, <2>2 DEF Firsts
  <1>4. CASE s # <<>> /\ ~p
    <2>1. PICK h \in 1..n : h \in Letters(w) /\ Joined(w, h, n)
      BY <1>4 DEF Reads, Waits
    <2>2. Joined(w, h, n + 1)
      BY <1>1, <2>1 DEF Joined
    <2> QED
      BY <1>4, <2>1, <2>2 DEF Firsts
  <1> QED
    BY <1>2, <1>3, <1>4

LEMMA HyphensAgree ==
    ASSUME NEW s \in Seq(SlugParts), NEW t \in Seq(SlugParts), Len(s) <= Len(t),
           \A q \in 1 .. Len(s) : t[q] = s[q]
    PROVE  \A k \in 0 .. Len(s) : Count(Hyphens(t), k) = Count(Hyphens(s), k)
  <1> SUFFICES ASSUME NEW k \in 0 .. Len(s) PROVE Count(Hyphens(t), k) = Count(Hyphens(s), k)
    OBVIOUS
  <1>1. \A j \in 1..k : j \in Hyphens(t) <=> j \in Hyphens(s)
    BY DEF Hyphens
  <1> QED
    BY <1>1, CountAgrees, k \in Nat

(* A letter goes to its place, behind a hyphen if it begins a word.        *)
LEMMA LetterRead ==
    ASSUME NEW w, NEW n \in Nat, n + 1 \in DOMAIN w, DOMAIN w \subseteq Nat,
           NEW s \in Seq(SlugParts), NEW p \in BOOLEAN,
           Reads(w, n, s, p), w[n + 1] \in SlugChars
    PROVE  Reads(w, n + 1, s \o Append(IF p /\ s # <<>> THEN <<"hyphen">> ELSE <<>>, w[n + 1]), FALSE)
  <1> DEFINE c == w[n + 1]
             t == s \o Append(IF p /\ s # <<>> THEN <<"hyphen">> ELSE <<>>, c)
  <1>0. c \in SlugParts /\ "hyphen" \in SlugParts /\ c # "hyphen" /\ n + 1 \in Letters(w)
    BY DEF SlugParts, SlugChars, Letters
  <1>c. /\ Count(Letters(w), n) \in Nat /\ Count(Firsts(w), n) \in Nat
        /\ Count(Letters(w), n + 1) = Count(Letters(w), n) + 1
        /\ Count(Firsts(w), n + 1) = Count(Firsts(w), n) + (IF s = <<>> \/ p THEN 1 ELSE 0)
    <2>1. n + 1 \in Firsts(w) <=> s = <<>> \/ p
      BY FirstIs
    <2>2. Count(Letters(w), n) \in Nat /\ Count(Letters(w), n + 1) = Count(Letters(w), n) + 1
      BY <1>0, Counts
    <2>3. /\ Count(Firsts(w), n) \in Nat
          /\ Count(Firsts(w), n + 1) = Count(Firsts(w), n) + (IF n + 1 \in Firsts(w) THEN 1 ELSE 0)
      BY Counts
    <2> QED
      BY <2>1, <2>2, <2>3
  <1>1. /\ t \in Seq(SlugParts) /\ Len(s) < Len(t) /\ t[Len(t)] = c /\ Len(t) = At(w, n + 1)
        /\ \A q \in 1 .. Len(s) : t[q] = s[q]
        /\ \A q \in Len(s) + 1 .. Len(t) : t[q] # "hyphen" => q = Len(t)
        /\ Count(Hyphens(t), Len(t)) = Count(Firsts(w), n + 1) - 1
    <2>1. CASE s = <<>>
      <3>1. t = <<c>> /\ Len(s) = 0 /\ t \in Seq(SlugParts)
        BY <1>0, <2>1
      <3>2. \A i \in 1..n : i \notin Letters(w) /\ i \notin Firsts(w)
        BY <2>1 DEF Reads, Built, Firsts
      <3>3. Count(Letters(w), n) = 0 /\ Count(Firsts(w), n) = 0
        BY <3>2, CountNone
      <3>4. \A j \in 1..1 : j \notin Hyphens(t)
        BY <1>0, <3>1 DEF Hyphens
      <3>5. Count(Hyphens(t), 1) = 0
        BY <3>4, CountNone
      <3> HIDE DEF t, c
      <3>6. At(w, n + 1) = 1 /\ Count(Firsts(w), n + 1) = 1
        BY <1>c, <2>1, <3>3 DEF At
      <3> QED
        BY <3>1, <3>5, <3>6
    <2>2. CASE s # <<>> /\ ~p
      <3>1. t = Append(s, c)
        BY <2>2
      <3> HIDE DEF t, c
      <3>2. t \in Seq(SlugParts) /\ Len(t) = Len(s) + 1 /\ t[Len(t)] = c /\ \A q \in 1 .. Len(s) : t[q] = s[q]
        BY <1>0, <3>1
      <3>3. Len(s) \in Nat /\ Len(s) = At(w, n) /\ Count(Hyphens(s), Len(s)) = Count(Firsts(w), n) - 1
        BY <2>2 DEF Reads, Built
      <3>4. Count(Hyphens(t), Len(s)) = Count(Hyphens(s), Len(s))
        BY <3>2, <3>3, HyphensAgree
      <3>5. Len(s) + 1 \notin Hyphens(t)
        BY <1>0, <3>2 DEF Hyphens
      <3>6. Count(Hyphens(t), Len(s) + 1) = Count(Hyphens(t), Len(s))
        BY <3>3, <3>5, Counts
      <3>7. At(w, n + 1) = At(w, n) + 1 /\ Count(Firsts(w), n + 1) = Count(Firsts(w), n)
        BY <1>c, <2>2 DEF At
      <3> QED
        BY <3>2, <3>3, <3>4, <3>6, <3>7
    <2>3. CASE s # <<>> /\ p
      <3>1. t = Append(Append(s, "hyphen"), c)
        BY <2>3
      <3> HIDE DEF t, c
      <3>2. /\ t \in Seq(SlugParts) /\ Len(t) = Len(s) + 2 /\ t[Len(t)] = c
            /\ \A q \in 1 .. Len(s) : t[q] = s[q]
            /\ t[Len(s) + 1] = "hyphen"
        BY <1>0, <3>1
      <3>3. Len(s) \in Nat /\ Len(s) = At(w, n) /\ Count(Hyphens(s), Len(s)) = Count(Firsts(w), n) - 1
        BY <2>3 DEF Reads, Built
      <3>4. Count(Hyphens(t), Len(s)) = Count(Hyphens(s), Len(s))
        BY <3>2, <3>3, HyphensAgree
      <3>5. Len(s) + 1 \in Hyphens(t) /\ (Len(s) + 1) + 1 \notin Hyphens(t)
        BY <1>0, <3>2, <3>3 DEF Hyphens
      <3>6. Count(Hyphens(t), Len(s) + 1) = Count(Hyphens(t), Len(s)) + 1
        BY <3>3, <3>5, Counts
      <3>7. Count(Hyphens(t), (Len(s) + 1) + 1) = Count(Hyphens(t), Len(s) + 1)
        <4>1. PICK k \in Nat : k = Len(s) + 1
          BY <3>3
        <4>2. k + 1 \notin Hyphens(t)
          BY <3>5, <4>1
        <4>3. Count(Hyphens(t), k + 1) = Count(Hyphens(t), k)
          BY <4>2, Counts
        <4> QED
          BY <4>1, <4>3
      <3>8. At(w, n + 1) = At(w, n) + 2 /\ Count(Firsts(w), n + 1) = Count(Firsts(w), n) + 1
        BY <1>c, <2>3 DEF At
      <3>9. \A q \in Len(s) + 1 .. Len(t) : t[q] # "hyphen" => q = Len(t)
        BY <3>2, <3>3
      <3>10. (Len(s) + 1) + 1 = Len(t)
        BY <3>2, <3>3
      <3> QED
        BY <3>2, <3>3, <3>4, <3>6, <3>7, <3>8, <3>9, <3>10, <1>c
    <2> QED
      BY <2>1, <2>2, <2>3
  <1> HIDE DEF t
  <1>2. \A k \in 0 .. Len(s) : Count(Hyphens(t), k) = Count(Hyphens(s), k)
    BY <1>1, HyphensAgree
  <1>3. Built(w, n + 1, t)
    <2>1. t # <<>> /\ Len(s) \in Nat /\ Len(t) \in Nat
      BY <1>1
    <2>2. ASSUME NEW i \in 1 .. n + 1, i \in Letters(w)
          PROVE  /\ At(w, i) \in 1 .. Len(t) /\ t[At(w, i)] = w[i]
                 /\ Count(Hyphens(t), At(w, i)) = Count(Firsts(w), i) - 1
      <3>1. CASE i = n + 1
        BY <1>1, <2>1, <3>1
      <3>2. CASE i \in 1..n
        <4>1. /\ At(w, i) \in 1 .. Len(s) /\ s[At(w, i)] = w[i]
              /\ Count(Hyphens(s), At(w, i)) = Count(Firsts(w), i) - 1
          BY <2>2, <3>2 DEF Reads, Built
        <4> QED
          BY <1>1, <1>2, <2>1, <4>1
      <3> QED
        BY <3>1, <3>2
    <2>3. ASSUME NEW q \in 1 .. Len(t), t[q] # "hyphen"
          PROVE  \E i \in 1 .. n + 1 : i \in Letters(w) /\ At(w, i) = q
      <3>1. CASE q \in 1 .. Len(s)
        <4>1. s[q] # "hyphen"
          BY <1>1, <2>3, <3>1
        <4>2. PICK i \in 1..n : i \in Letters(w) /\ At(w, i) = q
          BY <3>1, <4>1 DEF Reads, Built
        <4> QED
          BY <4>2
      <3>2. CASE q \notin 1 .. Len(s)
        <4>1. q = Len(t)
          BY <1>1, <2>1, <2>3, <3>2
        <4> QED
          BY <1>0, <1>1, <4>1
      <3> QED
        BY <3>1, <3>2
    <2> QED
      BY <1>1, <2>1, <2>2, <2>3 DEF Built
  <1>4. Waits(w, n + 1, t, FALSE)
    <2>1. Joined(w, n + 1, n + 1)
      BY <1>0 DEF Joined
    <2> QED
      BY <1>0, <2>1 DEF Waits
  <1> QED
    BY <1>3, <1>4 DEF Reads, t

(* What was read before stands when a rune is added.                       *)
Same(w, v, n) == 1..n \subseteq DOMAIN w /\ 1..n \subseteq DOMAIN v /\ \A j \in 1..n : w[j] = v[j]

LEMMA ReadsAgree ==
    ASSUME NEW w, NEW v, NEW n \in Nat, NEW s \in Seq(SlugParts), NEW p \in BOOLEAN,
           Same(w, v, n), Reads(w, n, s, p)
    PROVE  Reads(v, n, s, p)
  <1>1. \A i \in 1..n : i \in Letters(w) <=> i \in Letters(v)
    BY DEF Letters, Same
  <1>2. \A h \in 1..n, i \in 1..n : Joined(w, h, i) <=> Joined(v, h, i)
    BY <1>1 DEF Joined, Same
  <1>3. \A i \in 1..n : i \in Firsts(w) <=> i \in Firsts(v)
    BY <1>1, <1>2 DEF Firsts
  <1>4. \A i \in 0..n : Count(Letters(w), i) = Count(Letters(v), i) /\ Count(Firsts(w), i) = Count(Firsts(v), i)
    <2> SUFFICES ASSUME NEW i \in 0..n
                 PROVE  Count(Letters(w), i) = Count(Letters(v), i) /\ Count(Firsts(w), i) = Count(Firsts(v), i)
      OBVIOUS
    <2>1. \A j \in 1..i : (j \in Letters(w) <=> j \in Letters(v)) /\ (j \in Firsts(w) <=> j \in Firsts(v))
      BY <1>1, <1>3
    <2> QED
      BY <2>1, CountAgrees, i \in Nat
  <1>5. \A i \in 0..n : At(w, i) = At(v, i)
    BY <1>4 DEF At
  <1>6. n \in 0..n
    OBVIOUS
  <1>7. Built(v, n, s)
    BY <1>1, <1>4, <1>5, <1>6 DEF Reads, Built, Same
  <1>8. Waits(v, n, s, p)
    BY <1>1, <1>2 DEF Reads, Waits, Same
  <1> QED
    BY <1>7, <1>8 DEF Reads

LEMMA SpelledIs ==
    ASSUME NEW t \in Seq(Runes)
    PROVE  /\ DOMAIN Spelled(t) = 1 .. 2 * Len(t)
           /\ \A k \in 1 .. Len(t) :
                 /\ Spelled(t)[2 * k - 1] = Lower(NFKD(t[k])[1])
                 /\ Spelled(t)[2 * k] = IF t[k] = "eacute" THEN "accent" ELSE "nothing"
  <1>1. ASSUME NEW k \in 1 .. Len(t)
        PROVE  /\ Spelled(t)[2 * k - 1] = Lower(NFKD(t[k])[1])
               /\ Spelled(t)[2 * k] = IF t[k] = "eacute" THEN "accent" ELSE "nothing"
    <2>1. Len(t) \in Nat /\ 2 * k - 1 \in 1 .. 2 * Len(t) /\ 2 * k \in 1 .. 2 * Len(t)
      OBVIOUS
    <2>2. (2 * k - 1 + 1) \div 2 = k /\ (2 * k + 1) \div 2 = k /\ (2 * k - 1) % 2 = 1 /\ (2 * k) % 2 # 1
      OBVIOUS
    <2>3. Spelled(t)[2 * k - 1] = Lower(NFKD(t[k])[1])
      BY <2>1, <2>2 DEF Spelled
    <2>4. Spelled(t)[2 * k] = IF Len(NFKD(t[k])) = 2 THEN NFKD(t[k])[2] ELSE "nothing"
      BY <2>1, <2>2 DEF Spelled
    <2>5. IF t[k] = "eacute" THEN Len(NFKD(t[k])) = 2 /\ NFKD(t[k])[2] = "accent" ELSE Len(NFKD(t[k])) = 1
      BY DEF NFKD
    <2> QED
      BY <2>3, <2>4, <2>5
  <1>2. DOMAIN Spelled(t) = 1 .. 2 * Len(t)
    BY DEF Spelled
  <1> QED
    BY <1>1, <1>2

LEMMA SpelledGrows ==
    ASSUME NEW t \in Seq(Runes), NEW rune \in Runes
    PROVE  \A j \in 1 .. 2 * Len(t) : Spelled(t)[j] = Spelled(Append(t, rune))[j]
  <1>1. Append(t, rune) \in Seq(Runes) /\ Len(Append(t, rune)) = Len(t) + 1 /\ Len(t) \in Nat
    OBVIOUS
  <1>2. \A k \in 1 .. Len(t) : Append(t, rune)[k] = t[k]
    OBVIOUS
  <1> SUFFICES ASSUME NEW j \in 1 .. 2 * Len(t) PROVE Spelled(t)[j] = Spelled(Append(t, rune))[j]
    OBVIOUS
  <1>3. (j + 1) \div 2 \in 1 .. Len(t) /\ j \in 1 .. 2 * Len(Append(t, rune))
    BY <1>1
  <1> HIDE DEF NFKD
  <1> QED
    BY <1>2, <1>3 DEF Spelled

(* One character read by the loop.                                         *)
LEMMA CharRead ==
    ASSUME TypeOK, NEW w, NEW n \in Nat, n + 1 \in DOMAIN w, DOMAIN w \subseteq Nat,
           NEW c, w[n + 1] = Lower(c), Lower(c) # "nothing",
           Reads(w, n, b, pending), SlugReads(c)
    PROVE  Reads(w, n + 1, b', pending')
  <1>1. b \in Seq(SlugParts) /\ pending \in BOOLEAN
    BY DEF TypeOK
  <1>2. CASE w[n + 1] \in SlugChars
    <2>1. /\ b' = b \o Append(IF pending /\ b # <<>> THEN <<"hyphen">> ELSE <<>>, w[n + 1])
          /\ pending' = FALSE
      BY <1>2 DEF SlugReads, Separator
    <2>2. Reads(w, n + 1, b \o Append(IF pending /\ b # <<>> THEN <<"hyphen">> ELSE <<>>, w[n + 1]), FALSE)
      BY <1>1, <1>2, LetterRead
    <2> QED
      BY <2>1, <2>2
  <1>3. CASE w[n + 1] \notin SlugChars
    <2>1. b' = b /\ pending' = TRUE
      BY <1>3 DEF SlugReads
    <2>2. Reads(w, n + 1, b, TRUE)
      BY <1>1, <1>3, SeparatorRead
    <2> QED
      BY <2>1, <2>2
  <1> QED
    BY <1>2, <1>3

LEMMA ReadsNothing == Reads(Spelled(<<>>), 2 * Len(<<>>), <<>>, FALSE)
  <1>1. 2 * Len(<<>>) = 0 /\ Len(<<>>) = 0
    OBVIOUS
  <1> QED
    BY <1>1 DEF Reads, Built, Waits

LEMMA SlugReadStep == TypeOK /\ SlugRead /\ [Next]_vars => SlugRead'
  <1> SUFFICES ASSUME TypeOK, SlugRead, [Next]_vars PROVE SlugRead'
    OBVIOUS
  <1> DEFINE w == Spelled(text)
             n == 2 * Len(text)
  <1>0. text \in Seq(Runes) /\ b \in Seq(SlugParts) /\ pending \in BOOLEAN /\ Len(text) \in Nat
    BY DEF TypeOK
  <1>1. ASSUME NEW rune \in Runes, Rune(rune) PROVE SlugRead'
    <2>1. /\ unread = <<>> /\ text' = Append(text, rune) /\ unread' = NFKD(rune)
          /\ b' = b /\ pending' = pending
      BY <1>1 DEF Rune
    <2>2. Reads(w, n, b, pending)
      <3>1. NFKD(text[Len(text)]) # <<>>
        BY DEF NFKD
      <3> QED
        BY <2>1, <3>1 DEF SlugRead
    <2>3. /\ text' \in Seq(Runes) /\ text' # <<>> /\ text'[Len(text')] = rune
          /\ Len(text') = Len(text) + 1
      BY <1>0, <2>1
    <2>4. 1..n \subseteq DOMAIN w /\ 1..n \subseteq DOMAIN Spelled(text') /\ n \in Nat
      BY <1>0, <2>3, SpelledIs
    <2>5. Same(w, Spelled(text'), n)
      BY <1>0, <2>1, <2>4, SpelledGrows DEF Same
    <2>6. Reads(Spelled(text'), n, b, pending)
      BY <1>0, <2>2, <2>4, <2>5, ReadsAgree
    <2>7. n = 2 * Len(text') - 2
      BY <1>0, <2>3
    <2> QED
      BY <2>1, <2>3, <2>6, <2>7 DEF SlugRead
  <1>2. CASE Read
    <2>1. /\ unread # <<>> /\ unread' = Tail(unread) /\ SlugReads(Head(unread))
          /\ text' = text
      BY <1>2 DEF Read
    <2>2. text # <<>>
      BY <2>1 DEF SlugRead
    <2>3. PICK m \in Nat : Len(text) = m + 1
      <3>1. Len(text) # 0
        BY <1>0, <2>2
      <3> QED
        BY <1>0, <3>1, Len(text) - 1 \in Nat
    <2>4. n = 2 * m + 2 /\ DOMAIN w \subseteq Nat /\ 2 * m \in Nat /\ (2 * m) + 1 \in DOMAIN w /\ (2 * m + 1) + 1 \in DOMAIN w
      BY <1>0, <2>3, SpelledIs
    <2>5. /\ w[2 * m + 1] = Lower(NFKD(text[Len(text)])[1])
          /\ w[2 * m + 2] = IF text[Len(text)] = "eacute" THEN "accent" ELSE "nothing"
      <3>1. Len(text) \in 1 .. Len(text) /\ 2 * Len(text) - 1 = 2 * m + 1 /\ 2 * Len(text) = 2 * m + 2
        BY <2>3
      <3> QED
        BY <1>0, <3>1, SpelledIs
    <2> HIDE DEF w, n
    <2>6. CASE unread = NFKD(text[Len(text)]) /\ Reads(w, n - 2, b, pending)
      <3>1. Head(unread) = NFKD(text[Len(text)])[1]
        BY <2>6 DEF NFKD
      <3>2. Lower(Head(unread)) # "nothing"
        <4>1. text[Len(text)] \in Runes
          BY <1>0, <2>3
        <4>2. text[Len(text)] # "nothing" /\ NFKD(text[Len(text)])[1] \in {"e", text[Len(text)]}
          BY <4>1, NamingAssumption DEF NFKD, IdChars, Alnum, SlugChars
        <4> QED
          BY <3>1, <4>2 DEF Lower
      <3>3. n - 2 = 2 * m
        BY <2>4
      <3>4. Reads(w, (2 * m) + 1, b', pending')
        BY <2>1, <2>4, <2>5, <2>6, <3>1, <3>2, <3>3, CharRead
      <3>5. CASE text[Len(text)] = "eacute"
        <4>1. unread' = <<"accent">> /\ n - 1 = 2 * m + 1
          BY <2>1, <2>4, <2>6, <3>5 DEF NFKD
        <4> QED
          BY <2>1, <2>2, <3>4, <3>5, <4>1 DEF SlugRead, w, n
      <3>6. CASE text[Len(text)] # "eacute"
        <4>1. unread' = <<>>
          BY <2>1, <2>6, <3>6 DEF NFKD
        <4>2. w[(2 * m + 1) + 1] = "nothing" /\ n = (2 * m + 1) + 1 /\ 2 * m + 1 \in Nat
          BY <2>4, <2>5, <3>6
        <4>3. b' \in Seq(SlugParts) /\ pending' \in BOOLEAN
          BY <1>2, NamingTypeStep DEF TypeOK
        <4>4. Reads(w, (2 * m + 1) + 1, b', pending')
          BY <2>4, <3>4, <4>2, <4>3, NothingRead
        <4> QED
          BY <2>1, <4>1, <4>2, <4>4 DEF SlugRead, w, n
      <3> QED
        BY <3>5, <3>6
    <2>7. CASE text[Len(text)] = "eacute" /\ unread = <<"accent">> /\ Reads(w, n - 1, b, pending)
      <3>1. Head(unread) = "accent" /\ unread' = <<>>
        BY <2>1, <2>7
      <3>2. Lower("accent") = "accent" /\ w[(2 * m + 1) + 1] = "accent" /\ n - 1 = 2 * m + 1
            /\ n = (2 * m + 1) + 1 /\ 2 * m + 1 \in Nat
        BY <2>4, <2>5, <2>7 DEF Lower
      <3>3. Reads(w, (2 * m + 1) + 1, b', pending')
        BY <2>1, <2>4, <2>7, <3>1, <3>2, CharRead
      <3> QED
        BY <2>1, <3>1, <3>2, <3>3 DEF SlugRead, w, n
    <2> QED
      BY <2>1, <2>6, <2>7 DEF SlugRead, w, n
  <1>3. ASSUME NEW suffix \in BOOLEAN, Deliver(suffix) PROVE SlugRead'
    <2>1. unread' = <<>> /\ text' = <<>> /\ b' = <<>> /\ pending' = FALSE
      BY <1>3 DEF Deliver
    <2> QED
      BY <2>1, ReadsNothing DEF SlugRead
  <1>4. CASE UNCHANGED vars
    BY <1>4 DEF vars, SlugRead
  <1> QED
    BY <1>1, <1>2, <1>3, <1>4 DEF Next

----
(* The cuts.                                                               *)
LEMMA FirstWordsIs ==
    ASSUME NEW s \in Seq(SlugParts)
    PROVE  \E m \in 0 .. Len(s) :
              /\ FirstWords(s) = SubSeq(s, 1, m)
              /\ IF m = Len(s) THEN Count(Hyphens(s), m) < MaxWords
                               ELSE m + 1 \in Hyphens(s) /\ Count(Hyphens(s), m) = MaxWords - 1
  <1> DEFINE H == Hyphens(s)
  <1>0. Len(s) \in Nat /\ MaxWords \in Nat \ {0} /\ Count(H, Len(s)) \in Nat
    BY NamingAssumption, Counts, Len(s) \in Nat
  <1>1. Cardinality(H) = Count(H, Len(s))
    <2>1. H = {j \in 1 .. Len(s) : j \in H}
      BY DEF Hyphens
    <2> QED
      BY <2>1 DEF Count
  <1>2. ASSUME NEW i \in H PROVE Cardinality({j \in H : j < i}) = Count(H, i - 1)
    <2>1. i \in 1 .. Len(s) /\ H \subseteq 1 .. Len(s)
      BY DEF Hyphens
    <2>2. {j \in H : j < i} = {j \in 1 .. i - 1 : j \in H}
      BY <2>1
    <2> QED
      BY <2>2 DEF Count
  <1>3. CASE Count(H, Len(s)) < MaxWords
    <2>1. FirstWords(s) = s
      BY <1>1, <1>3 DEF FirstWords
    <2>2. SubSeq(s, 1, Len(s)) = s
      OBVIOUS
    <2>3. Len(s) \in 0 .. Len(s)
      BY <1>0
    <2> QED
      BY <1>3, <2>1, <2>2, <2>3
  <1>4. CASE ~(Count(H, Len(s)) < MaxWords)
    <2> DEFINE cut == CHOOSE i \in H : Cardinality({j \in H : j < i}) = MaxWords - 1
    <2>1. PICK i \in 1 .. Len(s) : i \in H /\ Count(H, i - 1) = MaxWords - 1
      <3>1. MaxWords <= Count(H, Len(s))
        BY <1>0, <1>4
      <3> HIDE DEF H
      <3> QED
        BY <1>0, <3>1, CountReaches
    <2>2. cut \in H /\ Cardinality({j \in H : j < cut}) = MaxWords - 1
      BY <1>2, <2>1
    <2>3. Count(H, cut - 1) = MaxWords - 1
      BY <1>2, <2>2
    <2>4. cut \in 1 .. Len(s)
      BY <2>2 DEF Hyphens
    <2>5. FirstWords(s) = SubSeq(s, 1, cut - 1)
      BY <1>1, <1>4 DEF FirstWords
    <2> HIDE DEF cut
    <2>6. cut - 1 \in 0 .. Len(s) /\ cut - 1 # Len(s) /\ (cut - 1) + 1 \in H
      BY <2>2, <2>4
    <2> QED
      BY <2>3, <2>5, <2>6
  <1> QED
    BY <1>3, <1>4

LEMMA TrimRightIs ==
    ASSUME NEW S, NEW s \in Seq(S)
    PROVE  \E last \in 0 .. Len(s) :
              /\ TrimRight(s) = SubSeq(s, 1, last)
              /\ \A j \in last + 1 .. Len(s) : s[j] = "hyphen"
              /\ last > 0 => s[last] # "hyphen"
  <1> DEFINE Ends(i) == (\A j \in i + 1 .. Len(s) : s[j] = "hyphen") /\ (i > 0 => s[i] # "hyphen")
             T == {i \in 0 .. Len(s) : \A j \in i + 1 .. Len(s) : s[j] = "hyphen"}
             last == CHOOSE i \in 0 .. Len(s) : Ends(i)
  <1>1. Len(s) \in T /\ T \subseteq Nat
    OBVIOUS
  <1>2. PICK i \in T : \A k \in T : i <= k
    BY <1>1, LeastExists
  <1>3. i > 0 => s[i] # "hyphen"
    <2> SUFFICES ASSUME i > 0, s[i] = "hyphen" PROVE FALSE
      OBVIOUS
    <2>1. i - 1 \in 0 .. Len(s) /\ \A j \in (i - 1) + 1 .. Len(s) : j = i \/ j \in i + 1 .. Len(s)
      BY <1>2
    <2>2. i - 1 \in T
      BY <2>1
    <2> QED
      BY <1>2, <2>2
  <1>4. last \in 0 .. Len(s) /\ Ends(last)
    BY <1>2, <1>3
  <1>5. TrimRight(s) = SubSeq(s, 1, last)
    BY DEF TrimRight
  <1> QED
    BY <1>4, <1>5

(* The slug is a beginning of what the loop built: it goes as far as words *)
(* and bytes may, but for the hyphens at its end.                          *)
LEMMA SlugIs ==
    ASSUME b \in Seq(SlugParts), HyphensAreBetween
    PROVE  \E m \in 0 .. Len(b), last \in 0 .. Len(b) :
              /\ last <= m /\ last <= MaxBytes /\ Slug = SubSeq(b, 1, last)
              /\ last > 0 => b[last] # "hyphen"
              /\ \A j \in last + 1 .. m : j <= MaxBytes => b[j] = "hyphen"
              /\ IF m = Len(b) THEN Count(Hyphens(b), m) < MaxWords
                               ELSE m + 1 \in Hyphens(b) /\ Count(Hyphens(b), m) = MaxWords - 1
  <1>1. PICK m \in 0 .. Len(b) :
            /\ FirstWords(b) = SubSeq(b, 1, m)
            /\ IF m = Len(b) THEN Count(Hyphens(b), m) < MaxWords
                             ELSE m + 1 \in Hyphens(b) /\ Count(Hyphens(b), m) = MaxWords - 1
    BY FirstWordsIs
  <1>2. MaxBytes \in Nat \ {0} /\ Len(b) \in Nat /\ m \in Nat
    BY NamingAssumption
  <1>3. SubSeq(b, 1, m) \in Seq(SlugParts) /\ Len(SubSeq(b, 1, m)) = m
        /\ \A j \in 1..m : SubSeq(b, 1, m)[j] = b[j]
    BY <1>2
  <1>4. CASE m <= MaxBytes
    <2>1. Slug = SubSeq(b, 1, m)
      BY <1>1, <1>2, <1>3, <1>4 DEF Slug, Capped
    <2>2. m > 0 => b[m] # "hyphen"
      <3> SUFFICES ASSUME m > 0, b[m] = "hyphen" PROVE FALSE
        OBVIOUS
      <3>1. m \in DOMAIN b /\ m < Len(b) /\ b[m + 1] # "hyphen"
        BY <1>2 DEF HyphensAreBetween
      <3>2. m + 1 \in Hyphens(b)
        BY <1>1, <3>1
      <3> QED
        BY <3>1, <3>2 DEF Hyphens
    <2> QED
      BY <1>1, <1>2, <1>4, <2>1, <2>2
  <1>5. CASE ~(m <= MaxBytes)
    <2> DEFINE f == SubSeq(b, 1, m)
               c == SubSeq(f, 1, MaxBytes)
    <2>1. Slug = TrimRight(c)
      BY <1>1, <1>2, <1>3, <1>5 DEF Slug, Capped
    <2>2. c \in Seq(SlugParts) /\ Len(c) = MaxBytes /\ \A j \in 1 .. MaxBytes : c[j] = b[j]
      BY <1>2, <1>3, <1>5
    <2> HIDE DEF c
    <2>3. PICK last \in 0 .. MaxBytes :
              /\ TrimRight(c) = SubSeq(c, 1, last)
              /\ \A j \in last + 1 .. MaxBytes : c[j] = "hyphen"
              /\ last > 0 => c[last] # "hyphen"
      BY <2>2, TrimRightIs
    <2>4. SubSeq(c, 1, last) = SubSeq(b, 1, last)
      BY <1>2, <1>5, <2>2, <2>3
    <2>5. last \in 0 .. Len(b) /\ last <= m
      BY <1>2, <1>5, <2>3
    <2>6. \A j \in last + 1 .. m : j <= MaxBytes => b[j] = "hyphen"
      BY <1>2, <2>2, <2>3
    <2>7. last > 0 => b[last] # "hyphen"
      BY <1>2, <2>2, <2>3
    <2> QED
      BY <1>1, <1>2, <2>1, <2>3, <2>4, <2>5, <2>6, <2>7
  <1> QED
    BY <1>4, <1>5

LEMMA WrittenIs ==
    /\ Written = Spelled(text)
    /\ \A i : InWord(i) <=> Written[i] \in SlugChars
    /\ \A i \in DOMAIN Written : Starts(i) <=> i \in Firsts(Written)
  <1>1. Written = Spelled(text)
    BY DEF Written, Spelled
  <1>2. \A i : InWord(i) <=> Written[i] \in SlugChars
    BY DEF InWord
  <1>3. DOMAIN Written = 1 .. 2 * Len(text)
    BY DEF Written
  <1> HIDE DEF Written
  <1>4. ASSUME NEW i \in DOMAIN Written PROVE Starts(i) <=> i \in Firsts(Written)
    BY <1>2, <1>3, <1>4 DEF Starts, Firsts, Letters, Joined
  <1> QED
    BY <1>1, <1>2, <1>4

(* Which letters the cuts leave, and where.                                *)
LEMMA SlugStep == TypeOK /\ HyphensAreBetween /\ SlugRead => SlugIsTheWords
  <1> SUFFICES ASSUME TypeOK, HyphensAreBetween, SlugRead, unread = <<>> PROVE SlugIsTheWords
    BY DEF SlugIsTheWords
  <1> DEFINE w == Written
             n == 2 * Len(text)
             H == Hyphens(b)
  <1>1. text \in Seq(Runes) /\ b \in Seq(SlugParts) /\ n \in Nat /\ Len(b) \in Nat
        /\ MaxWords \in Nat \ {0} /\ MaxBytes \in Nat \ {0}
    BY NamingAssumption DEF TypeOK
  <1>2. Built(w, n, b)
    <2>1. NFKD(text[Len(text)]) # <<>>
      BY DEF NFKD
    <2> QED
      BY <2>1, WrittenIs DEF SlugRead, Reads
  <1>3. DOMAIN w = 1..n
    BY <1>1, WrittenIs, SpelledIs
  <1>4. \A i \in 1..n : /\ InWord(i) <=> i \in Letters(w)
                        /\ Place(i) = At(w, i)
                        /\ Cardinality({j \in 1..i : Starts(j)}) = Count(Firsts(w), i)
    <2> SUFFICES ASSUME NEW i \in 1..n
                 PROVE  /\ InWord(i) <=> i \in Letters(w)
                        /\ Place(i) = At(w, i)
                        /\ Cardinality({j \in 1..i : Starts(j)}) = Count(Firsts(w), i)
      OBVIOUS
    <2>1. \A j \in 1..n : (InWord(j) <=> j \in Letters(w)) /\ (Starts(j) <=> j \in Firsts(w))
      BY <1>3, WrittenIs DEF Letters
    <2>2. {j \in 1..i : InWord(j)} = {j \in 1..i : j \in Letters(w)}
          /\ {j \in 1..i : Starts(j)} = {j \in 1..i : j \in Firsts(w)}
      BY <1>1, <2>1
    <2> QED
      BY <2>1, <2>2 DEF Place, At, Count
  <1>5. PICK m \in 0 .. Len(b), last \in 0 .. Len(b) :
              /\ last <= m /\ last <= MaxBytes /\ Slug = SubSeq(b, 1, last)
              /\ last > 0 => b[last] # "hyphen"
              /\ \A j \in last + 1 .. m : j <= MaxBytes => b[j] = "hyphen"
              /\ IF m = Len(b) THEN Count(H, m) < MaxWords
                               ELSE m + 1 \in H /\ Count(H, m) = MaxWords - 1
    BY <1>1, SlugIs
  <1>6. Len(Slug) = last /\ DOMAIN Slug = 1..last /\ \A j \in 1..last : Slug[j] = b[j]
    BY <1>1, <1>5
  <1> HIDE DEF w, H, n
  <1>7. ASSUME NEW i \in 1..n, i \in Letters(w)
        PROVE  /\ At(w, i) \in 1 .. Len(b) /\ b[At(w, i)] = w[i] /\ w[i] # "hyphen"
               /\ Count(H, At(w, i)) = Count(Firsts(w), i) - 1 /\ Count(Firsts(w), i) \in Nat
               /\ Count(Firsts(w), i) <= MaxWords <=> At(w, i) <= m
    <2>1. /\ At(w, i) \in 1 .. Len(b) /\ b[At(w, i)] = w[i]
          /\ Count(H, At(w, i)) = Count(Firsts(w), i) - 1
      BY <1>2, <1>7 DEF Built, H
    <2>2. w[i] # "hyphen"
      BY <1>7 DEF Letters, SlugChars
    <2>3. Count(Firsts(w), i) \in Nat /\ Count(H, m) \in Nat /\ Count(H, At(w, i)) \in Nat
      BY <1>1, <2>1, Counts
    <2>4. ASSUME At(w, i) <= m PROVE Count(Firsts(w), i) <= MaxWords
      <3>1. Count(H, At(w, i)) <= Count(H, m)
        BY <1>1, <2>1, <2>4, CountGrows
      <3>2. Count(H, m) < MaxWords
        BY <1>1, <1>5, <2>3
      <3> QED
        BY <1>1, <2>1, <2>3, <3>1, <3>2
    <2>5. ASSUME ~(At(w, i) <= m) PROVE ~(Count(Firsts(w), i) <= MaxWords)
      <3>1. m # Len(b) /\ m + 1 \in H /\ Count(H, m) = MaxWords - 1
        BY <1>1, <1>5, <2>1, <2>5
      <3>2. At(w, i) # m + 1
        BY <2>1, <2>2, <3>1 DEF Hyphens, H
      <3>3. m + 1 \in Nat /\ m + 1 <= At(w, i) /\ Count(H, m + 1) = Count(H, m) + 1
        BY <1>1, <2>1, <2>5, <3>1, Counts
      <3>4. Count(H, m + 1) <= Count(H, At(w, i))
        BY <2>1, <3>3, CountGrows
      <3> QED
        BY <1>1, <2>1, <2>3, <3>1, <3>3, <3>4
    <2> QED
      BY <2>1, <2>2, <2>3, <2>4, <2>5
  <1>8. ASSUME NEW i \in Shown PROVE Place(i) \in DOMAIN Slug /\ Slug[Place(i)] = Written[i]
    <2>1. i \in 1..n /\ i \in Letters(w) /\ Place(i) = At(w, i) /\ At(w, i) <= MaxBytes /\ At(w, i) <= m
      BY <1>3, <1>4, <1>7 DEF Shown, w
    <2>2. At(w, i) \in 1 .. Len(b) /\ b[At(w, i)] = w[i] /\ w[i] # "hyphen"
      BY <1>7, <2>1
    <2>3. At(w, i) <= last
      BY <1>1, <1>5, <2>1, <2>2
    <2> QED
      BY <1>6, <2>1, <2>2, <2>3 DEF w
  <1>9. ASSUME NEW p \in DOMAIN Slug, Slug[p] # "hyphen" PROVE \E i \in Shown : Place(i) = p
    <2>1. p \in 1 .. Len(b) /\ b[p] # "hyphen" /\ p <= m /\ p <= MaxBytes
      BY <1>1, <1>5, <1>6, <1>9
    <2>2. PICK i \in 1..n : i \in Letters(w) /\ At(w, i) = p
      BY <1>2, <2>1 DEF Built
    <2>3. Count(Firsts(w), i) <= MaxWords
      BY <1>7, <2>1, <2>2
    <2>4. i \in Shown
      BY <1>3, <1>4, <2>1, <2>2, <2>3 DEF Shown, w
    <2> QED
      BY <1>4, <2>2, <2>4
  <1>10. Slug # <<>> => Slug[Len(Slug)] # "hyphen"
    <2> SUFFICES ASSUME Slug # <<>> PROVE Slug[Len(Slug)] # "hyphen"
      OBVIOUS
    <2>1. last > 0
      <3>1. last = 0 => Slug = <<>>
        BY <1>1, <1>5
      <3> QED
        BY <1>1, <3>1
    <2> QED
      BY <1>1, <1>5, <1>6, <2>1
  <1> QED
    BY <1>8, <1>9, <1>10 DEF SlugIsTheWords

(* The slug is the words that SPEC.md 7.3 defines: the runs of letters and *)
(* digits of the text in NFKD and small letters, in their places, the      *)
(* first MaxWords of them as far as MaxBytes go, for every text.           *)
THEOREM SlugHolds == Spec => []SlugIsTheWords
  <1>1. Init => TypeOK /\ HyphensAreBetween /\ SlugRead
    <2> SUFFICES ASSUME Init PROVE TypeOK /\ HyphensAreBetween /\ SlugRead
      OBVIOUS
    <2>1. TypeOK /\ HyphensAreBetween
      <3>1. TypeOK
        BY Empty DEF Init, TypeOK
      <3> QED
        BY <3>1 DEF Init, HyphensAreBetween
    <2>2. SlugRead
      BY ReadsNothing DEF Init, SlugRead
    <2> QED
      BY <2>1, <2>2
  <1> QED
    BY <1>1, NamingTypeStep, HyphenStep, SlugReadStep, SlugStep, PTL DEF Spec

=============================================================================
