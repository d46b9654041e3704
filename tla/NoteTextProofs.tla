--------------------------- MODULE NoteTextProofs ---------------------------
(***************************************************************************)
(* Proofs about NoteText, for notes of any length and any number of edits. *)
(***************************************************************************)
EXTENDS NoteText, FiniteSetTheorems, SequenceTheorems, TLAPS

(* What is where once lines have been put in, or cut out.                  *)
LEMMA InsertedLines ==
    ASSUME NEW t \in Seq(Line), NEW at \in 1 .. Len(t), NEW lines \in Seq(Line)
    PROVE  /\ Inserted(t, at, lines) \in Seq(Line)
           /\ Len(Inserted(t, at, lines)) = Len(t) + Len(lines)
           /\ \A i \in 1 .. Len(t) + Len(lines) :
                 Inserted(t, at, lines)[i] =
                    IF i < at THEN t[i]
                    ELSE IF i < at + Len(lines) THEN lines[i - at + 1]
                    ELSE t[i - Len(lines)]
  <1> DEFINE head == SubSeq(t, 1, at - 1)
             tail == SubSeq(t, at, Len(t))
             left == head \o lines
             new == left \o tail
             n == Len(lines)
             m == Len(t)
  <1>0. m \in Nat /\ n \in Nat /\ at \in Int
    OBVIOUS
  <1>1. /\ head \in Seq(Line) /\ Len(head) = at - 1
        /\ \A i \in 1 .. at - 1 : head[i] = t[i]
    OBVIOUS
  <1>2. /\ tail \in Seq(Line) /\ Len(tail) = m - at + 1
        /\ \A i \in 1 .. m - at + 1 : tail[i] = t[at + i - 1]
    OBVIOUS
  <1>3. Inserted(t, at, lines) = new
    BY DEF Inserted
  <1> HIDE DEF head, tail
  <1>4. /\ left \in Seq(Line) /\ Len(left) = Len(head) + n
        /\ \A i \in 1 .. Len(head) + n :
              left[i] = IF i <= Len(head) THEN head[i] ELSE lines[i - Len(head)]
    BY <1>1, ConcatProperties
  <1> HIDE DEF left
  <1>5. left \in Seq(Line) /\ tail \in Seq(Line)
    BY <1>2, <1>4
  <1>6. /\ new \in Seq(Line) /\ Len(new) = Len(left) + Len(tail)
        /\ \A i \in 1 .. Len(left) + Len(tail) :
              new[i] = IF i <= Len(left) THEN left[i] ELSE tail[i - Len(left)]
    BY <1>5, ConcatProperties
  <1> HIDE DEF new, n, m
  <1>7. Len(head) = at - 1 /\ Len(left) = at - 1 + n /\ Len(tail) = m - at + 1 /\ Len(new) = m + n
    BY <1>0, <1>1, <1>2, <1>4, <1>6
  <1>8. ASSUME NEW i \in 1 .. m + n
        PROVE  new[i] = IF i < at THEN t[i] ELSE IF i < at + n THEN lines[i - at + 1] ELSE t[i - n]
    <2>1. CASE i < at
      <3>1. new[i] = left[i] /\ left[i] = head[i]
        BY <1>0, <1>4, <1>6, <1>7, <2>1
      <3> QED
        BY <1>0, <1>1, <2>1, <3>1
    <2>2. CASE i >= at /\ i < at + n
      <3>1. new[i] = left[i] /\ left[i] = lines[i - (at - 1)]
        BY <1>0, <1>4, <1>6, <1>7, <2>2
      <3> QED
        BY <1>0, <2>2, <3>1
    <2>3. CASE i >= at + n
      <3>1. new[i] = tail[i - (at - 1 + n)]
        BY <1>0, <1>6, <1>7, <2>3
      <3>2. i - (at - 1 + n) \in 1 .. m - at + 1 /\ at + (i - (at - 1 + n)) - 1 = i - n
        BY <1>0, <2>3
      <3>3. tail[i - (at - 1 + n)] = t[at + (i - (at - 1 + n)) - 1]
        BY <1>2, <3>2 DEF m
      <3> QED
        BY <1>0, <2>3, <3>1, <3>2, <3>3
    <2> QED
      BY <1>0, <2>1, <2>2, <2>3
  <1> QED
    BY <1>3, <1>6, <1>7, <1>8 DEF n, m

LEMMA CutLines ==
    ASSUME NEW t \in Seq(Line), NEW first \in 1 .. Len(t), NEW last \in first .. Len(t)
    PROVE  LET n == last - first + 1
           IN  /\ Cut(t, first, last) \in Seq(Line)
               /\ Len(Cut(t, first, last)) = Len(t) - n
               /\ \A i \in 1 .. Len(t) - n :
                     Cut(t, first, last)[i] = IF i < first THEN t[i] ELSE t[i + n]
  <1> DEFINE head == SubSeq(t, 1, first - 1)
             tail == SubSeq(t, last + 1, Len(t))
             new == head \o tail
             n == last - first + 1
             m == Len(t)
  <1>0. m \in Nat /\ first \in Int /\ last \in Int /\ n \in Nat /\ n <= m
    OBVIOUS
  <1>1. /\ head \in Seq(Line) /\ Len(head) = first - 1
        /\ \A i \in 1 .. first - 1 : head[i] = t[i]
    OBVIOUS
  <1>2. /\ tail \in Seq(Line) /\ Len(tail) = m - last
        /\ \A i \in 1 .. m - last : tail[i] = t[last + i]
    OBVIOUS
  <1>3. Cut(t, first, last) = new
    BY DEF Cut
  <1> HIDE DEF head, tail
  <1>4. head \in Seq(Line) /\ tail \in Seq(Line)
    BY <1>1, <1>2
  <1>5. /\ new \in Seq(Line) /\ Len(new) = Len(head) + Len(tail)
        /\ \A i \in 1 .. Len(head) + Len(tail) :
              new[i] = IF i <= Len(head) THEN head[i] ELSE tail[i - Len(head)]
    BY <1>4, ConcatProperties
  <1> HIDE DEF new, m
  <1>6. Len(head) = first - 1 /\ Len(tail) = m - last /\ Len(new) = m - n
    BY <1>0, <1>1, <1>2, <1>5
  <1>7. ASSUME NEW i \in 1 .. m - n
        PROVE  new[i] = IF i < first THEN t[i] ELSE t[i + n]
    <2>1. CASE i < first
      <3>1. new[i] = head[i]
        BY <1>0, <1>5, <1>6, <2>1
      <3> QED
        BY <1>0, <1>1, <2>1, <3>1
    <2>2. CASE i >= first
      <3>1. new[i] = tail[i - (first - 1)]
        BY <1>0, <1>5, <1>6, <2>2
      <3>2. i - (first - 1) \in 1 .. m - last /\ last + (i - (first - 1)) = i + n
        BY <1>0, <2>2
      <3>3. tail[i - (first - 1)] = t[last + (i - (first - 1))]
        BY <1>2, <3>2 DEF m
      <3> QED
        BY <1>0, <2>2, <3>1, <3>2, <3>3
    <2> QED
      BY <1>0, <2>1, <2>2
  <1> QED
    BY <1>3, <1>5, <1>6, <1>7 DEF m

----
(* What every note is, c being the line that closes its frontmatter: only  *)
(* the last line may be open, what the scorer wrote is in the frontmatter, *)
(* and of bands there is at most one; none while the note is due, for an   *)
(* edit adds none.                                                         *)
NoVoice(t) == \A i \in 1 .. Len(t) : t[i].says # "voice"
OneVoice(t) ==
    \A i, j \in 1 .. Len(t) : t[i].says = "voice" /\ t[j].says = "voice" => i = j
ANote(t, c) ==
    /\ t \in Seq(Line)
    /\ \A i \in 1 .. Len(t) - 1 : t[i].end # "none"
    /\ c \in 2 .. Len(t)
    /\ t[1].says = "---" /\ t[c].says = "---"
    /\ \A i \in 2 .. c - 1 : t[i].says # "---"
    /\ \A i \in 1 .. Len(t) : t[i].says \in VoiceKeys => i < c
    /\ OneVoice(t)

NoteInv ==
    /\ edits \in 0..MaxEdits
    /\ due \in BOOLEAN
    /\ \E c \in Nat : ANote(text, c)
    /\ due => NoVoice(text)

LEMMA NoteIs ==
    ASSUME NEW t, NEW c, ANote(t, c)
    PROVE  /\ t \in Seq(Line) /\ Len(t) \in Nat /\ DOMAIN t = 1 .. Len(t)
           /\ c \in 2 .. Len(t) /\ c \in 1 .. Len(t) /\ c \in Nat
           /\ \A i \in 1 .. Len(t) : t[i] \in Line
           /\ \A i \in 1 .. Len(t) : i # Len(t) => t[i].end # "none"
  BY DEF ANote

(* The scorer looks for the closing line, and finds c.                     *)
LEMMA CloseIs ==
    ASSUME NEW t, NEW c, ANote(t, c)
    PROVE  Delimited(t) /\ Close(t) = c /\ Rules(t) \subseteq Nat /\ Len(t) \in Nat
  <1>1. c \in Rules(t) /\ (\A j \in Rules(t) : c <= j) /\ Rules(t) \subseteq Nat /\ Len(t) \in Nat
    BY DEF ANote, Rules
  <1>2. Delimited(t)
    BY <1>1 DEF ANote, Delimited
  <1>3. Close(t) \in Rules(t) /\ \A j \in Rules(t) : Close(t) <= j
    BY <1>1 DEF Close
  <1>4. Close(t) = c
    BY <1>1, <1>3
  <1> QED
    BY <1>1, <1>2, <1>4

LEMMA TypeIs == NoteInv => TypeOK
  BY CloseIs DEF NoteInv, ANote, TypeOK

(* Lines put in before the closing one.                                    *)
LEMMA InsertKeeps ==
    ASSUME NEW t, NEW c, ANote(t, c), NEW at \in 2 .. c, NEW lines \in Seq(Line),
           \A k \in 1 .. Len(lines) : lines[k].says # "---" /\ lines[k].end # "none",
           OneVoice(lines),
           \A i \in 1 .. Len(t), k \in 1 .. Len(lines) :
              ~(t[i].says = "voice" /\ lines[k].says = "voice")
    PROVE  /\ ANote(Inserted(t, at, lines), c + Len(lines))
           /\ NoVoice(t) /\ NoVoice(lines) => NoVoice(Inserted(t, at, lines))
  <1> DEFINE u == Inserted(t, at, lines)
             n == Len(lines)
             m == Len(t)
  <1>1. t \in Seq(Line) /\ m \in Nat /\ n \in Nat /\ c \in 2 .. m /\ at \in 1 .. m
    BY DEF ANote
  <1>2. u \in Seq(Line) /\ Len(u) = m + n
    BY <1>1, InsertedLines
  <1>3. \A i \in 1 .. m + n :
           u[i] = IF i < at THEN t[i] ELSE IF i < at + n THEN lines[i - at + 1] ELSE t[i - n]
    BY <1>1, InsertedLines
  <1> HIDE DEF u, n, m
  <1>4. ASSUME NEW i \in 1 .. m + n
        PROVE  \/ i < at /\ i \in 1 .. m /\ u[i] = t[i]
               \/ i >= at /\ i < at + n /\ i - at + 1 \in 1 .. n /\ u[i] = lines[i - at + 1]
               \/ i >= at + n /\ i - n \in 1 .. m /\ i - n >= at /\ u[i] = t[i - n]
    BY <1>1, <1>3
  <1>5. \A i \in 1 .. m + n - 1 : u[i].end # "none"
    <2> TAKE i \in 1 .. m + n - 1
    <2>1. /\ i \in 1 .. m + n /\ (i < at => i \in 1 .. m - 1)
          /\ i - n \in 1 .. m => i - n \in 1 .. m - 1
      BY <1>1
    <2>2. /\ \A j \in 1 .. m - 1 : t[j].end # "none"
          /\ \A k \in 1 .. n : lines[k].end # "none"
      BY DEF ANote, m, n
    <2> QED
      BY <1>4, <2>1, <2>2
  <1>6. c + n \in 2 .. m + n /\ u[1].says = "---" /\ u[c + n].says = "---"
    <2>1. u[1] = t[1]
      BY <1>1, <1>3
    <2>2. u[c + n] = t[c]
      <3>1. c + n \in 1 .. m + n /\ c + n - n = c /\ ~(c + n < at) /\ ~(c + n < at + n)
        BY <1>1
      <3> QED
        BY <1>1, <1>3, <3>1
    <2> QED
      BY <1>1, <2>1, <2>2 DEF ANote
  <1>7. \A i \in 2 .. c + n - 1 : u[i].says # "---"
    <2> TAKE i \in 2 .. c + n - 1
    <2>1. i \in 1 .. m + n
      BY <1>1
    <2>2. CASE i < at /\ u[i] = t[i]
      BY <1>1, <2>2 DEF ANote
    <2>3. CASE i - at + 1 \in 1 .. n /\ u[i] = lines[i - at + 1]
      BY <2>3 DEF n
    <2>4. CASE i >= at + n /\ i - n \in 1 .. m /\ u[i] = t[i - n]
      <3>1. i - n \in 2 .. c - 1
        BY <1>1, <2>4
      <3> QED
        BY <2>4, <3>1 DEF ANote
    <2> QED
      BY <1>4, <2>1, <2>2, <2>3, <2>4
  <1>8. \A i \in 1 .. m + n : u[i].says \in VoiceKeys => i < c + n
    <2> SUFFICES ASSUME NEW i \in 1 .. m + n, u[i].says \in VoiceKeys PROVE i < c + n
      OBVIOUS
    <2>1. \A j \in 1 .. m : t[j].says \in VoiceKeys => j < c
      BY DEF ANote, m
    <2>2. i < at \/ i < at + n \/ i - n < c
      BY <1>4, <2>1
    <2> QED
      BY <1>1, <2>2
  <1>9. OneVoice(u)
    <2> SUFFICES ASSUME NEW i \in 1 .. m + n, NEW j \in 1 .. m + n,
                        u[i].says = "voice", u[j].says = "voice"
                 PROVE  i = j
      BY <1>2 DEF OneVoice
    <2>1. CASE \E k \in 1 .. n : lines[k].says = "voice"
      <3>1. \A k \in 1 .. m : t[k].says # "voice"
        BY <2>1 DEF n, m
      <3>2. /\ i - at + 1 \in 1 .. n /\ u[i] = lines[i - at + 1]
            /\ j - at + 1 \in 1 .. n /\ u[j] = lines[j - at + 1]
        BY <1>4, <3>1
      <3>3. i - at + 1 = j - at + 1
        BY <3>2 DEF OneVoice, n
      <3> QED
        BY <1>1, <3>3
    <2>2. CASE \A k \in 1 .. n : lines[k].says # "voice"
      <3> DEFINE Old(x) == IF x < at THEN x ELSE x - n
      <3>1. /\ u[i] = t[Old(i)] /\ Old(i) \in 1 .. m /\ (i < at \/ i >= at + n)
            /\ u[j] = t[Old(j)] /\ Old(j) \in 1 .. m /\ (j < at \/ j >= at + n)
        BY <1>1, <1>4, <2>2
      <3>2. Old(i) = Old(j)
        BY <3>1 DEF ANote, OneVoice, m
      <3> QED
        BY <1>1, <3>1, <3>2
    <2> QED
      BY <2>1, <2>2
  <1> QED
    <2>1. ANote(u, c + n)
      BY <1>1, <1>2, <1>5, <1>6, <1>7, <1>8, <1>9 DEF ANote
    <2>2. NoVoice(t) /\ NoVoice(lines) => NoVoice(u)
      BY <1>2, <1>4 DEF NoVoice, m, n
    <2> QED
      BY <2>1, <2>2 DEF u, n

(* Lines cut out of the frontmatter.                                       *)
LEMMA CutKeeps ==
    ASSUME NEW t, NEW c, ANote(t, c), NEW first \in 2 .. c - 1, NEW last \in first .. c - 1
    PROVE  /\ ANote(Cut(t, first, last), c - (last - first + 1))
           /\ NoVoice(t) => NoVoice(Cut(t, first, last))
  <1> DEFINE u == Cut(t, first, last)
             n == last - first + 1
             m == Len(t)
  <1>1. /\ t \in Seq(Line) /\ m \in Nat /\ c \in 2 .. m
        /\ first \in 1 .. m /\ last \in first .. m
    BY DEF ANote
  <1>2. u \in Seq(Line) /\ Len(u) = m - n
    BY <1>1, CutLines
  <1>3. \A i \in 1 .. m - n : u[i] = IF i < first THEN t[i] ELSE t[i + n]
    BY <1>1, CutLines
  <1>4. n \in Nat /\ n <= c - 2 /\ n = last - first + 1
    BY <1>1
  <1> HIDE DEF u, m, n
  <1> DEFINE Old(x) == IF x < first THEN x ELSE x + n
  <1>5. \A i \in 1 .. m - n :
           u[i] = t[Old(i)] /\ Old(i) \in 1 .. m /\ (i # m - n => Old(i) # m)
    BY <1>1, <1>3, <1>4
  <1>6. \A i \in 1 .. m - n - 1 : u[i].end # "none"
    <2> TAKE i \in 1 .. m - n - 1
    <2>1. i \in 1 .. m - n /\ i # m - n
      BY <1>1, <1>4
    <2>2. Old(i) \in 1 .. m - 1
      BY <1>1, <1>5, <2>1
    <2> QED
      BY <1>5, <2>1, <2>2 DEF ANote, m
  <1>7. c - n \in 2 .. m - n /\ Old(1) = 1 /\ Old(c - n) = c
    BY <1>1, <1>4
  <1>8. u[1].says = "---" /\ u[c - n].says = "---"
    BY <1>1, <1>4, <1>5, <1>7 DEF ANote
  <1>9. \A i \in 2 .. c - n - 1 : u[i].says # "---"
    <2> TAKE i \in 2 .. c - n - 1
    <2>1. Old(i) \in 2 .. c - 1 /\ i \in 1 .. m - n
      BY <1>1, <1>4
    <2> QED
      BY <1>5, <2>1 DEF ANote
  <1>10. \A i \in 1 .. m - n : u[i].says \in VoiceKeys => i < c - n
    <2> SUFFICES ASSUME NEW i \in 1 .. m - n, u[i].says \in VoiceKeys PROVE i < c - n
      OBVIOUS
    <2>1. Old(i) < c
      BY <1>5 DEF ANote, m
    <2> QED
      BY <1>1, <1>4, <2>1
  <1>11. OneVoice(u)
    <2> SUFFICES ASSUME NEW i \in 1 .. m - n, NEW j \in 1 .. m - n,
                        u[i].says = "voice", u[j].says = "voice"
                 PROVE  i = j
      BY <1>2 DEF OneVoice
    <2>1. Old(i) = Old(j)
      BY <1>5 DEF ANote, OneVoice, m
    <2> QED
      BY <1>1, <1>4, <2>1
  <1> QED
    <2>1. ANote(u, c - n)
      BY <1>2, <1>6, <1>7, <1>8, <1>9, <1>10, <1>11 DEF ANote
    <2>2. NoVoice(t) => NoVoice(u)
      BY <1>2, <1>5 DEF NoVoice, m
    <2> QED
      BY <1>4, <2>1, <2>2 DEF u

(* Lines written anew where they are, and one after the last.              *)
LEMMA RewriteKeeps ==
    ASSUME NEW t, NEW c, ANote(t, c), NEW u \in Seq(Line), Len(u) = Len(t),
           \A i \in 1 .. Len(t) :
              /\ u[i].says = t[i].says \/ {u[i].says, t[i].says} \subseteq {"ticked", "unticked"}
              /\ i # Len(t) => u[i].end # "none"
    PROVE  ANote(u, c) /\ (NoVoice(t) => NoVoice(u))
  <1>1. /\ t \in Seq(Line) /\ Len(t) \in Nat /\ c \in 2 .. Len(t)
        /\ t[1].says = "---" /\ t[c].says = "---"
        /\ \A i \in 2 .. c - 1 : t[i].says # "---"
        /\ \A i \in 1 .. Len(t) : t[i].says \in VoiceKeys => i < c
    BY DEF ANote
  <1>2. \A i \in 1 .. Len(t) :
           /\ u[i].says = "---" <=> t[i].says = "---"
           /\ u[i].says \in VoiceKeys => u[i].says = t[i].says
    BY DEF VoiceKeys
  <1>3. u[1].says = "---" /\ u[c].says = "---" /\ \A i \in 2 .. c - 1 : u[i].says # "---"
    BY <1>1, <1>2
  <1>4. \A i \in 1 .. Len(t) - 1 : u[i].end # "none"
    BY <1>1
  <1>5. OneVoice(u)
    BY <1>2 DEF ANote, OneVoice, VoiceKeys
  <1>6. \A i \in 1 .. Len(t) : u[i].says \in VoiceKeys => i < c
    BY <1>1, <1>2
  <1>7. NoVoice(t) => NoVoice(u)
    BY <1>2 DEF NoVoice, VoiceKeys
  <1> QED
    BY <1>1, <1>3, <1>4, <1>5, <1>6, <1>7 DEF ANote

LEMMA AppendKeeps ==
    ASSUME NEW t, NEW c, ANote(t, c), t[Len(t)].end # "none", NEW l \in Line,
           l.says \notin VoiceKeys
    PROVE  ANote(Append(t, l), c) /\ (NoVoice(t) => NoVoice(Append(t, l)))
  <1> DEFINE u == Append(t, l)
  <1>1. t \in Seq(Line) /\ Len(t) \in Nat /\ c \in 2 .. Len(t)
    BY DEF ANote
  <1>2. /\ u \in Seq(Line) /\ Len(u) = Len(t) + 1 /\ u[Len(t) + 1] = l
        /\ \A i \in 1 .. Len(t) : u[i] = t[i]
    BY <1>1
  <1> HIDE DEF u
  <1>3. \A i \in 1 .. Len(t) + 1 : i \in 1 .. Len(t) \/ i = Len(t) + 1
    BY <1>1
  <1>4. \A i \in 1 .. Len(t) : u[i].end # "none"
    BY <1>1, <1>2 DEF ANote
  <1>5. /\ u[1].says = "---" /\ u[c].says = "---" /\ c \in 2 .. Len(t) + 1
        /\ \A i \in 2 .. c - 1 : u[i].says # "---"
    BY <1>1, <1>2 DEF ANote
  <1>6. \A i \in 1 .. Len(t) + 1 :
           u[i].says \in VoiceKeys => i \in 1 .. Len(t) /\ i < c /\ u[i] = t[i]
    BY <1>1, <1>2, <1>3 DEF ANote
  <1>7. OneVoice(u)
    BY <1>2, <1>6 DEF ANote, OneVoice, VoiceKeys
  <1>8. ANote(u, c)
    BY <1>1, <1>2, <1>4, <1>5, <1>6, <1>7 DEF ANote
  <1>9. NoVoice(t) => NoVoice(u)
    BY <1>2, <1>6 DEF NoVoice, VoiceKeys
  <1> QED
    BY <1>8, <1>9 DEF u

----
(* No edit and no splice makes anything else of a note.                    *)
LEMMA OfType ==
    /\ \A says \in Keys : Of(says) \in Line /\ Typed(says) \in Line
    /\ \A says : /\ Of(says).says = says /\ Of(says).end # "none"
                 /\ Typed(says).says = says /\ Typed(says).end # "none"
    /\ End \in {"lf", "crlf"}
  BY DEF Of, Typed, End, Line, Ends

LEMMA FieldsAre ==
    ASSUME NEW scored \in BOOLEAN
    PROVE  /\ Fields(scored) \in Seq(Line)
           /\ Len(Fields(scored)) = (IF scored THEN 3 ELSE 2)
           /\ \A k \in 1 .. Len(Fields(scored)) :
                 /\ Fields(scored)[k].says \in VoiceKeys
                 /\ Fields(scored)[k].end = "lf"
                 /\ Fields(scored)[k].says = "voice" <=> k = 1
           /\ \A k, l \in 1 .. Len(Fields(scored)) :
                 k # l => Fields(scored)[k].says # Fields(scored)[l].says
  <1>1. \A says \in VoiceKeys : Of(says) \in Line
    BY DEF Of, Line, Keys, Ends, VoiceKeys
  <1>2. CASE scored
    <2> DEFINE f == Fields(scored)
    <2>1. f = <<Of("voice"), Of("voiceScore"), Of("voiceModel")>>
      BY <1>2 DEF Fields
    <2>2. f \in Seq(Line) /\ Len(f) = 3
      BY <1>1, <2>1 DEF VoiceKeys
    <2>3. f[1] = Of("voice") /\ f[2] = Of("voiceScore") /\ f[3] = Of("voiceModel")
      BY <2>1
    <2>4. \A k \in 1 .. 3 : k \in {1, 2, 3}
      OBVIOUS
    <2> HIDE DEF f
    <2>5. \A k \in 1 .. 3 : /\ f[k].says \in VoiceKeys /\ f[k].end = "lf"
                            /\ f[k].says = "voice" <=> k = 1
      BY <2>3, <2>4 DEF Of, VoiceKeys
    <2>6. \A k, l \in 1 .. 3 : k # l => f[k].says # f[l].says
      BY <2>3, <2>4 DEF Of
    <2> QED
      BY <1>2, <2>2, <2>5, <2>6 DEF f
  <1>3. CASE ~scored
    <2>1. Fields(scored) = <<Of("voice"), Of("voiceModel")>>
      BY <1>3 DEF Fields
    <2> QED
      BY <1>1, <1>3, <2>1 DEF Of, VoiceKeys
  <1> QED
    BY <1>2, <1>3

LEMMA UniversalKeeps ==
    ASSUME NEW t, NEW c, ANote(t, c)
    PROVE  /\ ANote(Universal(t), c)
           /\ Len(Universal(t)) = Len(t)
           /\ \A i \in 1 .. Len(t) :
                 /\ Universal(t)[i].says = t[i].says
                 /\ Universal(t)[i].end = IF t[i].end = "crlf" THEN "lf" ELSE t[i].end
  <1> DEFINE u == Universal(t)
  <1>1. \A i \in 1 .. Len(t) : u[i] = IF t[i].end = "crlf" THEN [t[i] EXCEPT !.end = "lf"] ELSE t[i]
    BY NoteIs DEF Universal
  <1>2. \A i \in 1 .. Len(t) :
           /\ u[i] \in Line /\ u[i].says = t[i].says
           /\ u[i].end = IF t[i].end = "crlf" THEN "lf" ELSE t[i].end
    <2> TAKE i \in 1 .. Len(t)
    <2>1. t[i] \in Line
      BY NoteIs
    <2>2. u[i] = IF t[i].end = "crlf" THEN [t[i] EXCEPT !.end = "lf"] ELSE t[i]
      BY <1>1
    <2> HIDE DEF u
    <2> QED
      BY <2>1, <2>2 DEF Line, Ends
  <1>3. u \in Seq(Line) /\ Len(u) = Len(t)
    <2>1. DOMAIN t = 1 .. Len(t) /\ Len(t) \in Nat
      BY NoteIs
    <2>2. u \in [1 .. Len(t) -> Line]
      BY <1>2, <2>1 DEF Universal
    <2> HIDE DEF u
    <2> QED
      BY <2>1, <2>2
  <1> HIDE DEF u
  <1>4. ANote(u, c)
    <2>1. \A i \in 1 .. Len(t) : i # Len(t) => u[i].end # "none"
      BY <1>2, NoteIs
    <2> QED
      BY <1>2, <1>3, <2>1, RewriteKeeps
  <1> QED
    BY <1>2, <1>3, <1>4 DEF u

(* A splice, line by line.                                                 *)
LEMMA SpliceIs ==
    ASSUME NEW c, ANote(text, c), NEW scored \in BOOLEAN, Splice(scored)
    PROVE  LET fields == Fields(scored)
               n == Len(fields)
           IN  /\ text' \in Seq(Line) /\ Len(text') = Len(text) + n
               /\ \A i \in 1 .. Len(text) + n :
                     text'[i] = IF i < c THEN Universal(text)[i]
                                ELSE IF i < c + n THEN fields[i - c + 1]
                                ELSE Universal(text)[i - n]
  <1>1. /\ ANote(Universal(text), c) /\ Len(Universal(text)) = Len(text)
        /\ Universal(text) \in Seq(Line) /\ c \in 1 .. Len(text)
    BY UniversalKeeps, NoteIs
  <1>2. text' = Inserted(Universal(text), c, Fields(scored))
    BY CloseIs DEF Splice, SpliceAt
  <1>3. Fields(scored) \in Seq(Line)
    BY FieldsAre
  <1> DEFINE t == Universal(text)
             fields == Fields(scored)
  <1> HIDE DEF t, fields
  <1>4. t \in Seq(Line) /\ c \in 1 .. Len(t) /\ fields \in Seq(Line) /\ Len(t) = Len(text)
    BY <1>1, <1>3 DEF t, fields
  <1>5. /\ Inserted(t, c, fields) \in Seq(Line)
        /\ Len(Inserted(t, c, fields)) = Len(t) + Len(fields)
        /\ \A i \in 1 .. Len(t) + Len(fields) :
              Inserted(t, c, fields)[i] =
                 IF i < c THEN t[i]
                 ELSE IF i < c + Len(fields) THEN fields[i - c + 1]
                 ELSE t[i - Len(fields)]
    BY <1>4, InsertedLines
  <1>6. text' = Inserted(t, c, fields)
    BY <1>2 DEF t, fields
  <1> QED
    BY <1>4, <1>5, <1>6 DEF t, fields

(* A note that is listed has no band yet.                                  *)
LEMMA Unvoiced ==
    ASSUME NEW c, ANote(text, c), Flags(text).id, ~Flags(text).scored
    PROVE  NoVoice(text)
  <1>1. Has(text, "id") /\ ~Has(text, "voice")
    BY DEF Flags
  <1>2. Close(text) = c /\ Delimited(text) /\ Len(text) \in Nat
    BY CloseIs
  <1>3. \A i \in 2 .. c - 1 : text[i].says # "text"
    BY <1>1, <1>2 DEF Has, Frontmatter, Parses
  <1>4. Frontmatter(text) = SubSeq(text, 2, c - 1)
    BY <1>2, <1>3 DEF Frontmatter, Parses
  <1>5. text \in Seq(Line) /\ c \in 2 .. Len(text) /\ text[1].says = "---"
        /\ \A i \in 1 .. Len(text) : text[i].says = "voice" => i < c
    BY DEF ANote, VoiceKeys
  <1>6. ASSUME NEW i \in 1 .. Len(text), text[i].says = "voice" PROVE FALSE
    <2>1. i \in 2 .. c - 1
      BY <1>5, <1>6
    <2>2. i - 1 \in DOMAIN Frontmatter(text) /\ Frontmatter(text)[i - 1] = text[i]
      BY <1>4, <1>5, <2>1
    <2> QED
      BY <1>1, <1>6, <2>2 DEF Has
  <1> QED
    BY <1>6 DEF NoVoice

LEMMA SpliceKeeps ==
    ASSUME NEW c, ANote(text, c), NoVoice(text), NEW scored \in BOOLEAN, Splice(scored)
    PROVE  ANote(text', c + Len(Fields(scored))) /\ c + Len(Fields(scored)) \in Nat
  <1>1. /\ ANote(Universal(text), c) /\ Len(Universal(text)) = Len(text)
        /\ \A i \in 1 .. Len(text) : Universal(text)[i].says = text[i].says
        /\ c \in 2 .. c /\ c \in Nat
    <2>1. c \in 2 .. c /\ c \in Nat
      BY NoteIs
    <2> QED
      BY <2>1, UniversalKeeps
  <1>2. text' = Inserted(Universal(text), c, Fields(scored))
    BY CloseIs DEF Splice, SpliceAt
  <1>3. \A i \in 1 .. Len(text) : text[i].says # "voice"
    BY DEF NoVoice
  <1>4. /\ Fields(scored) \in Seq(Line) /\ Len(Fields(scored)) \in Nat
        /\ \A k \in 1 .. Len(Fields(scored)) :
              Fields(scored)[k].says # "---" /\ Fields(scored)[k].end # "none"
        /\ OneVoice(Fields(scored))
    BY FieldsAre DEF OneVoice, VoiceKeys
  <1>5. ANote(text', c + Len(Fields(scored)))
    BY <1>1, <1>2, <1>3, <1>4, InsertKeeps
  <1> QED
    BY <1>1, <1>4, <1>5

LEMMA OwnerKeeps ==
    ASSUME NEW c, ANote(text, c), Owner
    PROVE  (\E d \in Nat : ANote(text', d)) /\ (NoVoice(text) => NoVoice(text'))
  <1>1. /\ text \in Seq(Line) /\ Len(text) \in Nat /\ DOMAIN text = 1 .. Len(text)
        /\ c \in 2 .. Len(text) /\ c \in Nat
        /\ \A i \in 1 .. Len(text) : text[i] \in Line
        /\ \A i \in 1 .. Len(text) : i # Len(text) => text[i].end # "none"
    BY NoteIs
  <1>2. /\ text[1].says = "---" /\ text[c].says = "---"
        /\ \A i \in 1 .. Len(text) : text[i].says \in VoiceKeys => i < c
    BY DEF ANote
  <1>3. Close(text) = c
    BY CloseIs
  <1>0. Len(text) \in Nat /\ c \in Nat /\ 2 <= c /\ c <= Len(text)
    <2>1. Len(text) \in Nat /\ c \in Nat /\ c \in 2 .. Len(text)
      BY <1>1
    <2> QED
      BY <2>1
  <1>4. ASSUME NEW u, DOMAIN u = 1 .. Len(text),
               \A i \in 1 .. Len(text) :
                  /\ u[i] \in Line
                  /\ u[i].says = text[i].says
                     \/ {u[i].says, text[i].says} \subseteq {"ticked", "unticked"}
                  /\ i # Len(text) => u[i].end # "none",
               u = [i \in 1 .. Len(text) |-> u[i]]
        PROVE  ANote(u, c) /\ Len(u) = Len(text) /\ (NoVoice(text) => NoVoice(u))
    <2>1. u \in [1 .. Len(text) -> Line]
      BY <1>4
    <2>2. u \in Seq(Line) /\ Len(u) = Len(text)
      BY <1>0, <2>1
    <2> QED
      BY <1>4, <2>2, RewriteKeeps
  <1>5. ASSUME NEW at \in 2 .. c, NEW l \in Line, l.says \notin VoiceKeys \cup {"---"},
               l.end # "none"
        PROVE  /\ \E d \in Nat : ANote(Inserted(text, at, <<l>>), d)
               /\ NoVoice(text) => NoVoice(Inserted(text, at, <<l>>))
    <2> DEFINE lines == <<l>>
    <2>1. /\ lines \in Seq(Line) /\ Len(lines) = 1
          /\ \A k \in 1 .. Len(lines) : lines[k] = l
          /\ \A j, k \in 1 .. Len(lines) : j = k
      OBVIOUS
    <2> HIDE DEF lines
    <2>2. /\ \A k \in 1 .. Len(lines) :
                lines[k].says # "---" /\ lines[k].end # "none" /\ lines[k].says # "voice"
          /\ OneVoice(lines) /\ NoVoice(lines)
      BY <1>5, <2>1 DEF OneVoice, NoVoice, VoiceKeys
    <2>3. /\ ANote(Inserted(text, at, lines), c + Len(lines))
          /\ NoVoice(text) => NoVoice(Inserted(text, at, lines))
      BY <2>1, <2>2, InsertKeeps
    <2>4. c + Len(lines) \in Nat
      BY <1>0, <2>1
    <2> QED
      BY <2>3, <2>4 DEF lines
  <1>6. ASSUME NEW first \in 2 .. c - 1, NEW last \in first .. c - 1
        PROVE  /\ \E d \in Nat : ANote(Cut(text, first, last), d)
               /\ NoVoice(text) => NoVoice(Cut(text, first, last))
    <2>1. /\ ANote(Cut(text, first, last), c - (last - first + 1))
          /\ NoVoice(text) => NoVoice(Cut(text, first, last))
      BY CutKeeps
    <2>2. c - (last - first + 1) \in Nat
      BY <1>0
    <2> QED
      BY <2>1, <2>2
  <1>7. ASSUME NEW says \in Keys \ VoiceKeys
        PROVE  ANote(Appended(says), c) /\ (NoVoice(text) => NoVoice(Appended(says)))
    <2> DEFINE n == Len(text)
               u == [text EXCEPT ![Len(text)].end = IF @ = "none" THEN End ELSE @]
    <2>1. \A i \in 1 .. n : u[i] = IF i = n THEN [text[i] EXCEPT !.end =
                                                    IF text[i].end = "none" THEN End ELSE text[i].end]
                                   ELSE text[i]
      BY <1>1
    <2>2. DOMAIN u = 1 .. n /\ u = [i \in 1 .. n |-> u[i]]
      <3>1. DOMAIN u = DOMAIN text
        OBVIOUS
      <3>2. u = [i \in DOMAIN text |-> u[i]]
        OBVIOUS
      <3>3. DOMAIN text = 1 .. n
        BY <1>1
      <3> HIDE DEF u, n
      <3> QED
        BY <3>1, <3>2, <3>3
    <2> HIDE DEF u
    <2>3. \A i \in 1 .. n : u[i] \in Line /\ u[i].says = text[i].says /\ u[i].end # "none"
      <3> TAKE i \in 1 .. n
      <3>1. text[i] \in Line /\ End \in {"lf", "crlf"} /\ (i # n => text[i].end # "none")
        BY <1>1, OfType
      <3>2. u[i] = IF i = n THEN [text[i] EXCEPT !.end = IF text[i].end = "none" THEN End
                                                         ELSE text[i].end] ELSE text[i]
        BY <2>1
      <3>3. CASE i = n
        <4>1. u[i] = [text[i] EXCEPT !.end = IF text[i].end = "none" THEN End ELSE text[i].end]
          BY <3>2, <3>3
        <4> HIDE DEF n
        <4> QED
          BY <3>1, <4>1 DEF Line, Ends
      <3>4. CASE i # n
        BY <3>1, <3>2, <3>4
      <3> QED
        BY <3>3, <3>4
    <2>4. ANote(u, c) /\ Len(u) = n /\ (NoVoice(text) => NoVoice(u))
      BY <1>4, <2>2, <2>3
    <2>5. Typed(says) \in Line /\ Typed(says).says \notin VoiceKeys
      BY OfType
    <2>6. u[Len(u)].end # "none" /\ u \in Seq(Line)
      <3>1. n \in 1 .. n
        BY <1>0
      <3> QED
        BY <2>3, <2>4, <3>1, NoteIs
    <2>7. /\ ANote(Append(u, Typed(says)), c)
          /\ NoVoice(u) => NoVoice(Append(u, Typed(says)))
      BY <2>4, <2>5, <2>6, AppendKeeps
    <2>8. Append(u, Typed(says)) = u \o <<Typed(says)>>
      BY <2>5, <2>6
    <2> QED
      BY <2>4, <2>7, <2>8 DEF Appended, u
  <1>8. CASE Tick
    <2>1. PICK i \in 2 .. c - 1 :
             /\ text[i].says \in {"ticked", "unticked"}
             /\ text' = [text EXCEPT ![i].says = IF @ = "ticked" THEN "unticked" ELSE "ticked"]
      BY <1>3, <1>8 DEF Tick, Edit
    <2>2. \A j \in 1 .. Len(text) :
             text'[j] = IF j = i
                        THEN [text[j] EXCEPT !.says = IF text[j].says = "ticked" THEN "unticked"
                                                      ELSE "ticked"]
                        ELSE text[j]
      BY <1>1, <2>1
    <2>3. DOMAIN text' = 1 .. Len(text) /\ text' = [j \in 1 .. Len(text) |-> text'[j]]
      BY <1>1, <2>1
    <2>4. \A j \in 1 .. Len(text) :
             /\ text'[j] \in Line
             /\ text'[j].says = text[j].says
                \/ {text'[j].says, text[j].says} \subseteq {"ticked", "unticked"}
             /\ text'[j].end = text[j].end
      BY <1>1, <2>1, <2>2 DEF Line, Keys
    <2>5. ANote(text', c) /\ (NoVoice(text) => NoVoice(text'))
      BY <1>1, <1>4, <2>3, <2>4
    <2> QED
      BY <1>1, <2>5
  <1>9. CASE AddProperty
    BY <1>3, <1>5, <1>9, OfType DEF AddProperty, Edit, Keys, VoiceKeys
  <1>10. CASE AddRule
    BY <1>1, <1>7, <1>10 DEF AddRule, Edit, Keys, VoiceKeys
  <1>11. CASE AddProse
    BY <1>1, <1>7, <1>11 DEF AddProse, Edit, Keys, VoiceKeys
  <1>12. CASE SaveCrlf
    <2>1. text' = [i \in 1 .. Len(text) |->
             IF text[i].end = "lf" THEN [text[i] EXCEPT !.end = "crlf"] ELSE text[i]]
      BY <1>1, <1>12 DEF SaveCrlf, Edit
    <2>2. DOMAIN text' = 1 .. Len(text) /\ text' = [j \in 1 .. Len(text) |-> text'[j]]
      BY <2>1
    <2>3. \A j \in 1 .. Len(text) :
             text'[j] = IF text[j].end = "lf" THEN [text[j] EXCEPT !.end = "crlf"] ELSE text[j]
      BY <2>1
    <2>4. \A j \in 1 .. Len(text) :
             /\ text'[j] \in Line /\ text'[j].says = text[j].says
             /\ text[j].end # "none" => text'[j].end # "none"
      BY <1>1, <2>3 DEF Line, Ends
    <2>5. ANote(text', c) /\ (NoVoice(text) => NoVoice(text'))
      BY <1>1, <1>4, <2>2, <2>4
    <2> QED
      BY <1>1, <2>5
  <1>13. CASE ChopLastEnd
    <2>1. text' = [text EXCEPT ![Len(text)].end = "none"]
      BY <1>13 DEF ChopLastEnd, Edit
    <2>2. DOMAIN text' = 1 .. Len(text) /\ text' = [j \in 1 .. Len(text) |-> text'[j]]
      BY <1>1, <2>1
    <2>3. \A j \in 1 .. Len(text) :
             text'[j] = IF j = Len(text) THEN [text[j] EXCEPT !.end = "none"] ELSE text[j]
      BY <1>1, <2>1
    <2>4. \A j \in 1 .. Len(text) :
             /\ text'[j] \in Line /\ text'[j].says = text[j].says
             /\ j # Len(text) => text'[j].end # "none"
      BY <1>1, <2>3 DEF Line, Ends
    <2>5. ANote(text', c) /\ (NoVoice(text) => NoVoice(text'))
      BY <1>4, <2>2, <2>4
    <2> QED
      BY <1>1, <2>5
  <1>14. CASE Break
    <2>1. 2 \in 2 .. c /\ Typed("text") \in Line
          /\ Typed("text").says \notin VoiceKeys \cup {"---"} /\ Typed("text").end # "none"
      <3>1. 2 \in 2 .. c
        BY <1>0
      <3> QED
        BY <3>1, OfType DEF Keys, VoiceKeys
    <2> QED
      BY <1>5, <1>14, <2>1 DEF Break, Edit
  <1>15. CASE Mend
    <2>1. 2 \in 2 .. c - 1 /\ 2 \in 2 .. 2
      <3>1. c # 2
        BY <1>2, <1>15 DEF Mend
      <3> QED
        BY <1>0, <3>1
    <2> QED
      BY <1>6, <1>15, <2>1 DEF Mend, Edit
  <1>16. CASE Unscore
    <2>1. PICK first \in 1 .. Len(text), last \in 1 .. Len(text) :
             /\ first <= last
             /\ \A i \in first .. last : text[i].says \in VoiceKeys
             /\ text' = Cut(text, first, last)
      BY <1>1, <1>16 DEF Unscore, Edit
    <2>2. text[first].says \in VoiceKeys /\ text[last].says \in VoiceKeys
      BY <2>1
    <2>3. first \in 2 .. c - 1 /\ last \in first .. c - 1
      <3>1. first # 1 /\ last < c
        BY <1>2, <2>1, <2>2 DEF VoiceKeys
      <3> QED
        BY <1>0, <2>1, <3>1
    <2> QED
      BY <1>6, <2>1, <2>3
  <1>17. CASE Unvoice
    <2>1. PICK i \in 1 .. Len(text) : text[i].says = "voice" /\ text' = Cut(text, i, i)
      BY <1>1, <1>17 DEF Unvoice, Edit
    <2>2. i \in 2 .. c - 1 /\ i \in i .. c - 1
      <3>1. i # 1 /\ i < c
        BY <1>2, <2>1 DEF VoiceKeys
      <3> QED
        BY <1>0, <2>1, <3>1
    <2> QED
      BY <1>6, <2>1, <2>2
  <1> QED
    BY <1>8, <1>9, <1>10, <1>11, <1>12, <1>13, <1>14, <1>15, <1>16, <1>17 DEF Owner

LEMMA NoteInit == Init => NoteInv
  <1> SUFFICES ASSUME Init PROVE NoteInv
    OBVIOUS
  <1>1. PICK props \in {<<>>, <<Of("property")>>}, body \in {<<>>, <<Of("text"), Of("text")>>} :
           text = <<Of("---"), Of("id")>> \o props \o <<Of("unticked"), Of("---")>> \o body
    BY DEF Init
  <1>2. \A says \in Keys : Of(says) \in Line
    BY OfType
  <1>3. edits \in 0..MaxEdits /\ due = FALSE
    BY HabitAssumption DEF Init
  <1> DEFINE a == <<Of("---"), Of("id")>>
             z == <<Of("unticked"), Of("---")>>
             ap == a \o props
             apz == ap \o z
             p == Len(props)
             b == Len(body)
  <1>4. a \in Seq(Line) /\ Len(a) = 2 /\ a[1] = Of("---") /\ a[2] = Of("id")
    BY <1>2 DEF Keys
  <1>5. z \in Seq(Line) /\ Len(z) = 2 /\ z[1] = Of("unticked") /\ z[2] = Of("---")
    BY <1>2 DEF Keys
  <1>6. props \in Seq(Line) /\ p \in Nat /\ \A i \in 1 .. p : props[i] = Of("property")
    <2>1. CASE props = <<>>
      BY <2>1
    <2>2. CASE props = <<Of("property")>>
      <3>1. Of("property") \in Line
        BY <1>2 DEF Keys
      <3> QED
        BY <2>2, <3>1
    <2> QED
      BY <2>1, <2>2
  <1>7. body \in Seq(Line) /\ b \in Nat /\ \A i \in 1 .. b : body[i] = Of("text")
    <2>1. <<Of("text"), Of("text")>> \in Seq(Line) /\ Len(<<Of("text"), Of("text")>>) = 2
          /\ \A i \in 1 .. 2 : <<Of("text"), Of("text")>>[i] = Of("text")
      BY <1>2 DEF Keys
    <2>2. CASE body = <<>>
      BY <2>2
    <2>3. CASE body = <<Of("text"), Of("text")>>
      BY <2>1, <2>3
    <2> QED
      BY <2>2, <2>3
  <1>8. text = apz \o body
    BY <1>1
  <1> HIDE DEF a, z, p, b
  <1>9. /\ ap \in Seq(Line) /\ Len(ap) = 2 + p
        /\ \A i \in 1 .. 2 + p : ap[i] = IF i <= 2 THEN a[i] ELSE props[i - 2]
    BY <1>4, <1>6, ConcatProperties DEF p
  <1> HIDE DEF ap
  <1>10. /\ apz \in Seq(Line) /\ Len(apz) = 4 + p
         /\ \A i \in 1 .. 4 + p : apz[i] = IF i <= 2 + p THEN ap[i] ELSE z[i - (2 + p)]
    <2>1. /\ apz \in Seq(Line) /\ Len(apz) = Len(ap) + Len(z)
          /\ \A i \in 1 .. Len(ap) + Len(z) :
                apz[i] = IF i <= Len(ap) THEN ap[i] ELSE z[i - Len(ap)]
      BY <1>5, <1>9, ConcatProperties
    <2>2. Len(ap) + Len(z) = 4 + p
      BY <1>5, <1>6, <1>9
    <2> QED
      BY <1>9, <2>1, <2>2
  <1> HIDE DEF apz
  <1>11. /\ text \in Seq(Line) /\ Len(text) = 4 + p + b
         /\ \A i \in 1 .. 4 + p + b : text[i] = IF i <= 4 + p THEN apz[i] ELSE body[i - (4 + p)]
    <2>1. /\ apz \o body \in Seq(Line) /\ Len(apz \o body) = Len(apz) + Len(body)
          /\ \A i \in 1 .. Len(apz) + Len(body) :
                (apz \o body)[i] = IF i <= Len(apz) THEN apz[i] ELSE body[i - Len(apz)]
      BY <1>7, <1>10, ConcatProperties
    <2> QED
      BY <1>8, <1>10, <2>1 DEF b
  <1>12. ASSUME NEW i \in 1 .. 4 + p + b
         PROVE  \/ i \in {1, 4 + p} /\ text[i] = Of("---")
                \/ i = 2 /\ text[i] = Of("id")
                \/ i \in 3 .. 2 + p /\ text[i] = Of("property")
                \/ i = 3 + p /\ text[i] = Of("unticked")
                \/ i > 4 + p /\ text[i] = Of("text")
    <2>1. CASE i <= 2
      <3>1. text[i] = apz[i] /\ apz[i] = ap[i] /\ ap[i] = a[i] /\ (i = 1 \/ i = 2)
        BY <1>6, <1>7, <1>9, <1>10, <1>11, <2>1
      <3> QED
        BY <1>4, <3>1
    <2>2. CASE i > 2 /\ i <= 2 + p
      <3>1. text[i] = props[i - 2] /\ i - 2 \in 1 .. p
        BY <1>6, <1>7, <1>9, <1>10, <1>11, <2>2
      <3> QED
        BY <1>6, <2>2, <3>1
    <2>3. CASE i > 2 + p /\ i <= 4 + p
      <3>1. text[i] = z[i - (2 + p)] /\ (i = 3 + p \/ i = 4 + p)
        BY <1>6, <1>7, <1>10, <1>11, <2>3
      <3>2. (3 + p) - (2 + p) = 1 /\ (4 + p) - (2 + p) = 2
        BY <1>6
      <3> QED
        BY <1>5, <3>1, <3>2
    <2>4. CASE i > 4 + p
      <3>1. text[i] = body[i - (4 + p)] /\ i - (4 + p) \in 1 .. b
        BY <1>6, <1>7, <1>11, <2>4
      <3> QED
        BY <1>7, <2>4, <3>1
    <2> QED
      BY <1>6, <2>1, <2>2, <2>3, <2>4
  <1>13. /\ 4 + p \in 2 .. Len(text) /\ 4 + p \in 1 .. Len(text) /\ 4 + p \in Nat
         /\ 1 \in 1 .. Len(text)
    BY <1>6, <1>7, <1>11
  <1>14. text[1].says = "---" /\ text[4 + p].says = "---"
    BY <1>6, <1>11, <1>12, <1>13 DEF Of
  <1>15. \A i \in 1 .. Len(text) : text[i].end # "none" /\ text[i].says \notin VoiceKeys
    BY <1>11, <1>12 DEF Of, VoiceKeys
  <1>16. \A i \in 2 .. (4 + p) - 1 : text[i].says # "---"
    <2> TAKE i \in 2 .. (4 + p) - 1
    <2>1. i \in 1 .. 4 + p + b /\ i \notin {1, 4 + p} /\ ~(i > 4 + p)
      BY <1>6, <1>7
    <2> QED
      BY <1>12, <2>1 DEF Of
  <1>17. OneVoice(text)
    BY <1>15 DEF OneVoice, VoiceKeys
  <1>18. \A i \in 1 .. Len(text) - 1 : i \in 1 .. Len(text)
    BY <1>6, <1>7, <1>11
  <1>19. ANote(text, 4 + p)
    <2>1. \A i \in 1 .. Len(text) - 1 : text[i].end # "none"
      BY <1>15, <1>18
    <2>2. \A i \in 1 .. Len(text) : text[i].says \in VoiceKeys => i < 4 + p
      BY <1>15
    <2>3. text \in Seq(Line)
      BY <1>11
    <2>4. 4 + p \in 2 .. Len(text)
      BY <1>13
    <2> QED
      BY <1>14, <1>16, <1>17, <2>1, <2>2, <2>3, <2>4 DEF ANote
  <1> QED
    BY <1>3, <1>13, <1>19 DEF NoteInv

LEMMA NoteStep == NoteInv /\ [Next]_vars => NoteInv'
  <1> SUFFICES ASSUME NoteInv, [Next]_vars PROVE NoteInv'
    OBVIOUS
  <1>1. PICK c \in Nat : ANote(text, c)
    BY DEF NoteInv
  <1>2. CASE Owner
    <2>1. edits < MaxEdits /\ edits' = edits + 1
      BY <1>2 DEF Owner, Tick, AddProperty, AddRule, AddProse, SaveCrlf, ChopLastEnd,
                  Break, Mend, Unscore, Unvoice, Edit
    <2>2. edits' \in 0..MaxEdits
      BY <2>1, HabitAssumption DEF NoteInv
    <2>3. due' = due
      BY <1>2 DEF Owner, Tick, AddProperty, AddRule, AddProse, SaveCrlf, ChopLastEnd,
                  Break, Mend, Unscore, Unvoice, Edit
    <2>4. (\E d \in Nat : ANote(text', d)) /\ (NoVoice(text) => NoVoice(text'))
      BY <1>1, <1>2, OwnerKeeps
    <2> QED
      BY <2>2, <2>3, <2>4 DEF NoteInv
  <1>3. ASSUME NEW scored \in BOOLEAN, Splice(scored) PROVE NoteInv'
    <2>1. NoVoice(text) /\ due' = FALSE /\ edits' = edits
      BY <1>3 DEF NoteInv, Splice
    <2>2. \E d \in Nat : ANote(text', d)
      BY <1>1, <1>3, <2>1, SpliceKeeps
    <2> QED
      BY <2>1, <2>2 DEF NoteInv
  <1>4. CASE Scan
    <2>1. NoVoice(text)
      BY <1>1, <1>4, Unvoiced DEF Scan
    <2> QED
      BY <1>4, <2>1 DEF NoteInv, Scan
  <1>5. CASE Skip
    BY <1>5 DEF NoteInv, Skip
  <1>6. CASE UNCHANGED vars
    BY <1>6 DEF NoteInv, vars
  <1> QED
    BY <1>2, <1>3, <1>4, <1>5, <1>6 DEF Next, Scorer

LEMMA NoteAlways == Spec => []NoteInv
  BY NoteInit, NoteStep, PTL DEF Spec

(* Every edit of the owner's and every splice leaves lines between two     *)
(* rules, of which only the last may be open.                              *)
THEOREM NoteTextTypeCorrect == Spec => []TypeOK
  BY NoteAlways, TypeIs, PTL

(* However often the owner takes the scorer's lines out, whichever of them *)
(* go, the note is given a second band only once the first is gone.        *)
THEOREM VoicedOnceHolds == Spec => []VoicedOnce
  <1>1. NoteInv => VoicedOnce
    <2> SUFFICES ASSUME NoteInv PROVE VoicedOnce
      OBVIOUS
    <2>1. PICK c \in Nat : ANote(text, c)
      BY DEF NoteInv
    <2> DEFINE voices == {i \in DOMAIN text : text[i].says = "voice"}
    <2>2. \A i, j \in voices : i = j
      BY <2>1, NoteIs DEF ANote, OneVoice
    <2>3. voices = {} \/ \E i \in voices : voices = {i}
      BY <2>2
    <2> HIDE DEF voices
    <2>4. CASE voices = {}
      <3>1. Cardinality(voices) = 0
        BY <2>4, FS_EmptySet
      <3> QED
        BY <3>1 DEF VoicedOnce, voices
    <2>5. CASE \E i \in voices : voices = {i}
      <3>1. Cardinality(voices) = 1
        BY <2>5, FS_Singleton
      <3> QED
        BY <3>1 DEF VoicedOnce, voices
    <2> QED
      BY <2>3, <2>4, <2>5
  <1> QED
    BY <1>1, NoteAlways, PTL

----
(* What a splice does to what is read.                                     *)

(* A frontmatter that parses, in terms of the lines of the note.           *)
LEMMA FrontmatterIs ==
    ASSUME NEW t, NEW c, ANote(t, c), \A i \in 2 .. c - 1 : t[i].says # "text"
    PROVE  /\ DOMAIN Frontmatter(t) = 1 .. c - 2
           /\ \A i \in 1 .. c - 2 : Frontmatter(t)[i] = t[i + 1]
           /\ \A key : Has(t, key) <=> \E i \in 2 .. c - 1 : t[i].says = key
           /\ Ticked(t) <=> \E i \in 2 .. c - 1 :
                               /\ t[i].says = "ticked"
                               /\ \A j \in 2 .. c - 1 : t[j].says = "unticked" => j < i
  <1> DEFINE fm == Frontmatter(t)
  <1>1. t \in Seq(Line) /\ Len(t) \in Nat /\ c \in Nat /\ 2 <= c /\ c <= Len(t)
    <2>1. t \in Seq(Line) /\ c \in 2 .. Len(t)
      BY NoteIs
    <2> QED
      BY <2>1
  <1>2. Close(t) = c /\ Delimited(t)
    BY CloseIs
  <1>3. fm = SubSeq(t, 2, c - 1)
    BY <1>2 DEF Frontmatter, Parses
  <1>4. DOMAIN fm = 1 .. c - 2 /\ \A i \in 1 .. c - 2 : fm[i] = t[i + 1]
    BY <1>1, <1>3
  <1> HIDE DEF fm
  <1>5. \A i \in 2 .. c - 1 : i - 1 \in 1 .. c - 2 /\ fm[i - 1] = t[i]
    <2> TAKE i \in 2 .. c - 1
    <2>1. i - 1 \in 1 .. c - 2 /\ (i - 1) + 1 = i
      BY <1>1
    <2> QED
      BY <1>4, <2>1
  <1>6. \A i \in 1 .. c - 2 : i + 1 \in 2 .. c - 1
    BY <1>1
  <1>7. ASSUME NEW key PROVE Has(t, key) <=> \E i \in 2 .. c - 1 : t[i].says = key
    BY <1>4, <1>5, <1>6 DEF Has, fm
  <1>8. Ticked(t) <=> \E i \in 1 .. c - 2 :
                         /\ fm[i].says = "ticked"
                         /\ \A j \in 1 .. c - 2 : fm[j].says = "unticked" => j < i
    BY <1>4 DEF Ticked, fm
  <1>9. ASSUME NEW i \in 1 .. c - 2, fm[i].says = "ticked",
               \A j \in 1 .. c - 2 : fm[j].says = "unticked" => j < i
        PROVE  \E k \in 2 .. c - 1 :
                  t[k].says = "ticked" /\ \A j \in 2 .. c - 1 : t[j].says = "unticked" => j < k
    <2>1. ASSUME NEW j \in 2 .. c - 1, t[j].says = "unticked" PROVE j < i + 1
      <3>1. j - 1 < i
        BY <1>5, <1>9, <2>1
      <3> QED
        BY <1>1, <3>1
    <2>2. i + 1 \in 2 .. c - 1 /\ t[i + 1].says = "ticked"
      BY <1>4, <1>6, <1>9
    <2> QED
      BY <2>1, <2>2
  <1>10. ASSUME NEW k \in 2 .. c - 1, t[k].says = "ticked",
                \A j \in 2 .. c - 1 : t[j].says = "unticked" => j < k
         PROVE  \E i \in 1 .. c - 2 :
                   fm[i].says = "ticked" /\ \A j \in 1 .. c - 2 : fm[j].says = "unticked" => j < i
    <2>1. ASSUME NEW j \in 1 .. c - 2, fm[j].says = "unticked" PROVE j < k - 1
      <3>1. j + 1 < k
        BY <1>4, <1>6, <1>10, <2>1
      <3> QED
        BY <1>1, <3>1
    <2>2. k - 1 \in 1 .. c - 2 /\ fm[k - 1].says = "ticked"
      BY <1>5, <1>10
    <2> QED
      BY <2>1, <2>2
  <1> QED
    BY <1>4, <1>7, <1>8, <1>9, <1>10 DEF fm

(* The note before and after, in one place.                                *)
LEMMA Spliced ==
    ASSUME NEW c \in Nat, ANote(text, c), NoVoice(text),
           NEW scored \in BOOLEAN, Splice(scored)
    PROVE  LET n == Len(Fields(scored))
           IN  /\ n \in {2, 3} /\ Len(text) \in Nat /\ 2 <= c /\ c <= Len(text)
               /\ DOMAIN text = 1 .. Len(text)
               /\ Len(text') = Len(text) + n /\ DOMAIN text' = 1 .. Len(text')
               /\ ANote(text', c + n)
               /\ \A i \in 1 .. Len(text) :
                     LET was == text[i]
                         is == text'[IF i < c THEN i ELSE i + n]
                     IN  /\ is.says = was.says
                         /\ is.end = IF was.end = "crlf" THEN "lf" ELSE was.end
               /\ \A k \in 1 .. n : text'[c + k - 1] = Fields(scored)[k]
               /\ Parses(text) <=> \A i \in 2 .. c - 1 : text[i].says # "text"
               /\ Parses(text) => \A i \in 2 .. (c + n) - 1 : text'[i].says # "text"
  <1> DEFINE f == Fields(scored)
             n == Len(f)
             m == Len(text)
             u == Universal(text)
  <1>1. n \in {2, 3} /\ \A k \in 1 .. n : f[k].says \in VoiceKeys
    BY FieldsAre
  <1>2. m \in Nat /\ 2 <= c /\ c <= m /\ DOMAIN text = 1 .. m
    <2>1. m \in Nat /\ c \in 2 .. m /\ DOMAIN text = 1 .. m
      BY NoteIs
    <2> QED
      BY <2>1
  <1>3. /\ text' \in Seq(Line) /\ Len(text') = m + n
        /\ \A i \in 1 .. m + n :
              text'[i] = IF i < c THEN u[i] ELSE IF i < c + n THEN f[i - c + 1] ELSE u[i - n]
    BY SpliceIs
  <1>4. \A i \in 1 .. m : u[i].says = text[i].says
                         /\ u[i].end = IF text[i].end = "crlf" THEN "lf" ELSE text[i].end
    BY UniversalKeeps
  <1>5. ANote(text', c + n) /\ DOMAIN text' = 1 .. Len(text')
    BY <1>3, SpliceKeeps
  <1>6. Parses(text) <=> \A i \in 2 .. c - 1 : text[i].says # "text"
    BY CloseIs DEF Parses
  <1> HIDE DEF f, n, m, u
  <1>7. ASSUME NEW i \in 1 .. m PROVE text'[IF i < c THEN i ELSE i + n] = u[i]
    <2>1. CASE i < c
      BY <1>1, <1>2, <1>3, <2>1
    <2>2. CASE ~(i < c)
      <3>1. i + n \in 1 .. m + n /\ ~(i + n < c) /\ ~(i + n < c + n) /\ (i + n) - n = i
        BY <1>1, <1>2, <2>2
      <3> QED
        BY <1>3, <2>2, <3>1
    <2> QED
      BY <2>1, <2>2
  <1>8. ASSUME NEW k \in 1 .. n PROVE text'[c + k - 1] = f[k]
    <2>1. /\ c + k - 1 \in 1 .. m + n /\ ~(c + k - 1 < c) /\ c + k - 1 < c + n
          /\ (c + k - 1) - c + 1 = k
      BY <1>1, <1>2
    <2> QED
      BY <1>3, <2>1
  <1>9. ASSUME Parses(text), NEW i \in 2 .. (c + n) - 1 PROVE text'[i].says # "text"
    <2>1. CASE i < c
      <3>1. i \in 1 .. m /\ i \in 2 .. c - 1
        BY <1>1, <1>2, <2>1
      <3> QED
        BY <1>4, <1>6, <1>7, <1>9, <2>1, <3>1
    <2>2. CASE ~(i < c)
      <3>1. i - c + 1 \in 1 .. n /\ c + (i - c + 1) - 1 = i
        BY <1>1, <1>2, <2>2
      <3>2. text'[i].says \in VoiceKeys
        BY <1>1, <1>8, <3>1
      <3> QED
        BY <3>2 DEF VoiceKeys
    <2> QED
      BY <2>1, <2>2
  <1> QED
    BY <1>1, <1>2, <1>3, <1>4, <1>5, <1>6, <1>7, <1>8, <1>9 DEF f, n, m, u

(* Only a splice changes the text and leaves `edits` as it is.             *)
LEMMA ScorersStep ==
    ASSUME NoteInv, [Next]_vars, Written
    PROVE  \E c \in Nat, scored \in BOOLEAN :
              ANote(text, c) /\ NoVoice(text) /\ Splice(scored)
  <1>1. ~Owner
    <2>1. Owner => edits' = edits + 1
      BY DEF Owner, Tick, AddProperty, AddRule, AddProse, SaveCrlf, ChopLastEnd,
             Break, Mend, Unscore, Unvoice, Edit
    <2>2. edits \in Int
      BY HabitAssumption DEF NoteInv
    <2> QED
      BY <2>1, <2>2 DEF Written
  <1>2. PICK scored \in BOOLEAN : Splice(scored)
    BY <1>1 DEF Next, Scorer, Scan, Skip, Written, vars
  <1>3. NoVoice(text)
    BY <1>2 DEF NoteInv, Splice
  <1> QED
    BY <1>2, <1>3 DEF NoteInv

(* All that was there is there after a splice, in its order.               *)
THEOREM OnlyInsertsHolds == Spec => OnlyInserts
  <1> DEFINE Kept ==
          \E first, last \in 1 .. Len(text') :
              /\ \A i \in first .. last : text'[i].says \in VoiceKeys
              /\ Len(text) = Len(text') - (last - first + 1)
              /\ \A i \in DOMAIN text :
                    LET was == text[i]
                        is == text'[IF i < first THEN i ELSE i + last - first + 1]
                    IN  was.says = is.says /\ (was.end = "none" <=> is.end = "none")
  <1>1. ASSUME NEW c \in Nat, NEW scored \in BOOLEAN, ANote(text, c), NoVoice(text),
               Splice(scored)
        PROVE  Kept
    <2> DEFINE n == Len(Fields(scored))
               m == Len(text)
               last == (c + n) - 1
    <2>1. /\ n \in {2, 3} /\ m \in Nat /\ 2 <= c /\ c <= m
          /\ Len(text') = m + n /\ DOMAIN text = 1 .. m
      BY <1>1, Spliced
    <2>2. \A i \in 1 .. m :
             LET was == text[i]
                 is == text'[IF i < c THEN i ELSE i + n]
             IN  /\ is.says = was.says
                 /\ is.end = IF was.end = "crlf" THEN "lf" ELSE was.end
      BY <1>1, Spliced
    <2>3. /\ \A k \in 1 .. n : text'[c + k - 1] = Fields(scored)[k]
          /\ \A k \in 1 .. n : Fields(scored)[k].says \in VoiceKeys
      BY <1>1, Spliced, FieldsAre
    <2> HIDE DEF n, m
    <2>4. c \in 1 .. Len(text') /\ last \in 1 .. Len(text') /\ last - c + 1 = n
      BY <2>1
    <2>5. ASSUME NEW i \in c .. last PROVE text'[i].says \in VoiceKeys
      <3>1. i - c + 1 \in 1 .. n /\ c + (i - c + 1) - 1 = i
        BY <2>1
      <3> QED
        BY <2>3, <3>1
    <2>6. m = Len(text') - (last - c + 1)
      BY <2>1
    <2>7. ASSUME NEW i \in 1 .. m
          PROVE  LET was == text[i]
                     is == text'[IF i < c THEN i ELSE i + last - c + 1]
                 IN  was.says = is.says /\ (was.end = "none" <=> is.end = "none")
      <3>1. i + last - c + 1 = i + n
        BY <2>1
      <3> QED
        BY <2>2, <3>1
    <2> HIDE DEF last
    <2> QED
      BY <2>1, <2>4, <2>5, <2>6, <2>7 DEF m
  <1>2. NoteInv /\ [Next]_vars => [Written => Kept]_vars
    BY <1>1, ScorersStep
  <1> QED
    BY <1>2, NoteAlways, PTL DEF Spec, OnlyInserts

(* What a splice writes, the next pass reads: the note is scored, and has  *)
(* the recording and the tick it had, unless the owner has left YAML that  *)
(* does not parse since the note was listed.                               *)
THEOREM SplicedIsScoredHolds == Spec => SplicedIsScored
  <1>1. ASSUME NEW c \in Nat, NEW scored \in BOOLEAN, ANote(text, c), NoVoice(text),
               Splice(scored), Parses(text)
        PROVE  Flags(text') = [Flags(text) EXCEPT !.scored = TRUE]
    <2> DEFINE n == Len(Fields(scored))
               m == Len(text)
               d == c + n
    <2>1. n \in {2, 3} /\ m \in Nat /\ 2 <= c /\ c <= m /\ Len(text') = m + n /\ ANote(text', d)
      BY <1>1, Spliced
    <2>2. \A i \in 1 .. m : text'[IF i < c THEN i ELSE i + n].says = text[i].says
      BY <1>1, Spliced
    <2>3. /\ \A k \in 1 .. n : text'[c + k - 1] = Fields(scored)[k]
          /\ \A k \in 1 .. n : /\ Fields(scored)[k].says \in VoiceKeys
                               /\ Fields(scored)[k].says = "voice" <=> k = 1
      BY <1>1, Spliced, FieldsAre
    <2>4. /\ \A i \in 2 .. c - 1 : text[i].says # "text"
          /\ \A i \in 2 .. d - 1 : text'[i].says # "text"
      BY <1>1, Spliced
    <2>5. /\ \A key : Has(text, key) <=> \E i \in 2 .. c - 1 : text[i].says = key
          /\ Ticked(text) <=> \E i \in 2 .. c - 1 :
                /\ text[i].says = "ticked"
                /\ \A j \in 2 .. c - 1 : text[j].says = "unticked" => j < i
      BY <1>1, <2>4, FrontmatterIs
    <2>6. /\ \A key : Has(text', key) <=> \E i \in 2 .. d - 1 : text'[i].says = key
          /\ Ticked(text') <=> \E i \in 2 .. d - 1 :
                /\ text'[i].says = "ticked"
                /\ \A j \in 2 .. d - 1 : text'[j].says = "unticked" => j < i
      <3>1. d \in Nat /\ ANote(text', d)
        BY <2>1
      <3> HIDE DEF d
      <3> QED
        BY <2>4, <3>1, FrontmatterIs
    <2> HIDE DEF n, m
    <2>7. \A i \in 2 .. c - 1 : i \in 2 .. d - 1 /\ text'[i].says = text[i].says
      <3> TAKE i \in 2 .. c - 1
      <3>1. i \in 1 .. m /\ i < c /\ i \in 2 .. d - 1
        BY <2>1
      <3> QED
        BY <2>2, <3>1
    <2>8. \A i \in 2 .. d - 1 : i \in 2 .. c - 1 \/ text'[i].says \in VoiceKeys
      <3> TAKE i \in 2 .. d - 1
      <3>1. CASE i < c
        BY <2>1, <3>1
      <3>2. CASE ~(i < c)
        <4>1. i - c + 1 \in 1 .. n /\ c + (i - c + 1) - 1 = i
          BY <2>1, <3>2
        <4> QED
          BY <2>3, <4>1
      <3> QED
        BY <3>1, <3>2
    <2>9. c \in 2 .. d - 1 /\ text'[c].says = "voice"
      <3>1. 1 \in 1 .. n /\ c + 1 - 1 = c /\ c \in 2 .. d - 1
        BY <2>1
      <3> QED
        BY <2>3, <3>1
    <2> HIDE DEF d
    <2>10. Has(text', "id") <=> Has(text, "id")
      BY <2>5, <2>6, <2>7, <2>8 DEF VoiceKeys
    <2>11. Ticked(text') <=> Ticked(text)
      BY <2>5, <2>6, <2>7, <2>8 DEF VoiceKeys
    <2>12. Has(text', "voice")
      BY <2>6, <2>9
    <2>13. Has(text, "id") \in BOOLEAN /\ Has(text', "id") \in BOOLEAN
           /\ Ticked(text) \in BOOLEAN /\ Ticked(text') \in BOOLEAN
           /\ Has(text', "voice") \in BOOLEAN
      BY DEF Has, Ticked
    <2>14. /\ Has(text', "id") = Has(text, "id") /\ Ticked(text') = Ticked(text)
           /\ Has(text', "voice") = TRUE
      BY <2>10, <2>11, <2>12, <2>13
    <2> DEFINE F(a, b, v) == [id |-> a, ticked |-> b, scored |-> v]
               Rescored(f, w) == [f EXCEPT !.scored = w]
    <2>15. \A a, b, v, w : Rescored(F(a, b, v), w) = F(a, b, w)
      OBVIOUS
    <2>16. /\ Flags(text) = F(Has(text, "id"), Ticked(text), Has(text, "voice"))
           /\ Flags(text') = F(Has(text', "id"), Ticked(text'), Has(text', "voice"))
      BY Zenon DEF Flags
    <2> HIDE DEF F, Rescored
    <2>17. Flags(text') = F(Has(text, "id"), Ticked(text), TRUE)
      BY <2>14, <2>16, Zenon
    <2>18. Rescored(F(Has(text, "id"), Ticked(text), Has(text, "voice")), TRUE)
           = F(Has(text, "id"), Ticked(text), TRUE)
      BY <2>15, Zenon
    <2>19. Flags(text') = Rescored(Flags(text), TRUE)
      BY <2>16, <2>17, <2>18
    <2> QED
      BY <2>19 DEF Rescored
  <1>2. NoteInv /\ [Next]_vars
        => [Written /\ Parses(text) => Flags(text') = [Flags(text) EXCEPT !.scored = TRUE]]_vars
    BY <1>1, ScorersStep
  <1> QED
    BY <1>2, NoteAlways, PTL DEF Spec, SplicedIsScored

(* A note the ingest service can read stays one: the band goes above the   *)
(* line it looks for, and gives no key twice.                              *)
THEOREM IdStaysReadableHolds == Spec => IdStaysReadable
  <1>1. ASSUME NEW c \in Nat, NEW scored \in BOOLEAN, ANote(text, c), NoVoice(text),
               Splice(scored), GoReads(text), ~Leftover
        PROVE  GoReads(text')
    <2> DEFINE n == Len(Fields(scored))
               m == Len(text)
               d == c + n
    <2>1. /\ n \in {2, 3} /\ m \in Nat /\ 2 <= c /\ c <= m /\ Len(text') = m + n
          /\ ANote(text', d) /\ DOMAIN text = 1 .. m /\ d \in Nat
      BY <1>1, Spliced
    <2>2. \A i \in 1 .. m :
             LET was == text[i]
                 is == text'[IF i < c THEN i ELSE i + n]
             IN  /\ is.says = was.says
                 /\ is.end = IF was.end = "crlf" THEN "lf" ELSE was.end
      BY <1>1, Spliced
    <2>3. /\ \A k \in 1 .. n : text'[c + k - 1] = Fields(scored)[k]
          /\ \A k \in 1 .. n : Fields(scored)[k].says \in VoiceKeys
          /\ \A k, l \in 1 .. n : k # l => Fields(scored)[k].says # Fields(scored)[l].says
      BY <1>1, Spliced, FieldsAre
    <2>0. Parses(text)
      <3>1. Has(text, "id") /\ Delimited(text)
        BY <1>1 DEF GoReads
      <3> QED
        BY <3>1 DEF Has, Frontmatter
    <2>4. /\ \A i \in 2 .. c - 1 : text[i].says # "text"
          /\ \A i \in 2 .. d - 1 : text'[i].says # "text"
          /\ \A i \in 1 .. m : text[i].says \notin VoiceKeys
      BY <1>1, <2>0, <2>1, Spliced DEF Leftover, NoVoice, VoiceKeys
    <2>5. /\ DOMAIN Frontmatter(text) = 1 .. c - 2
          /\ \A i \in 1 .. c - 2 : Frontmatter(text)[i] = text[i + 1]
          /\ \A key : Has(text, key) <=> \E i \in 2 .. c - 1 : text[i].says = key
      BY <1>1, <2>4, FrontmatterIs
    <2>6. /\ DOMAIN Frontmatter(text') = 1 .. d - 2
          /\ \A i \in 1 .. d - 2 : Frontmatter(text')[i] = text'[i + 1]
          /\ \A key : Has(text', key) <=> \E i \in 2 .. d - 1 : text'[i].says = key
      BY <2>1, <2>4, FrontmatterIs
    <2> HIDE DEF n, m
    <2>7. Delimited(text')
      BY <2>1, CloseIs
    <2>8. text'[1].end = "lf"
      <3>1. text[1].end = "lf"
        BY <1>1 DEF GoReads
      <3>2. 1 \in 1 .. m /\ 1 < c
        BY <2>1
      <3> QED
        BY <2>2, <3>1, <3>2
    <2>9. \E i \in Rules(text') : i > 2 /\ text'[i].end = "lf"
      <3>1. PICK i \in Rules(text) : i > 2 /\ text[i].end = "lf"
        BY <1>1 DEF GoReads
      <3>2. i \in 1 .. m /\ i \in 2 .. m /\ text[i].says = "---"
        BY <2>1, <3>1 DEF Rules, m
      <3>3. ~(i < c)
        <4>1. \A j \in 2 .. c - 1 : text[j].says # "---"
          BY <1>1 DEF ANote
        <4> QED
          BY <2>1, <3>2, <4>1
      <3>4. text'[i + n].says = "---" /\ text'[i + n].end = "lf"
        BY <2>2, <3>1, <3>2, <3>3
      <3>5. i + n \in 2 .. Len(text') /\ i + n > 2
        BY <2>1, <3>1, <3>2
      <3> QED
        BY <3>4, <3>5 DEF Rules
    <2>10. \A i \in 2 .. c - 1 : i \in 2 .. d - 1 /\ text'[i].says = text[i].says
      <3> TAKE i \in 2 .. c - 1
      <3>1. i \in 1 .. m /\ i < c /\ i \in 2 .. d - 1
        BY <2>1
      <3> QED
        BY <2>2, <3>1
    <2>11. Has(text', "id")
      <3>1. Has(text, "id")
        BY <1>1 DEF GoReads
      <3> QED
        BY <2>5, <2>6, <2>10, <3>1
    <2>12. ASSUME NEW i \in 2 .. d - 1, ~(i < c)
           PROVE  /\ i - c + 1 \in 1 .. n /\ text'[i] = Fields(scored)[i - c + 1]
                  /\ text'[i].says \in VoiceKeys
      <3>1. i - c + 1 \in 1 .. n /\ c + (i - c + 1) - 1 = i
        BY <2>1, <2>12
      <3> QED
        BY <2>3, <3>1
    <2>13. ASSUME NEW i \in 2 .. d - 1, i < c
           PROVE  /\ i \in 2 .. c - 1 /\ text'[i].says = text[i].says
                  /\ text'[i].says \notin VoiceKeys
      <3>1. i \in 2 .. c - 1 /\ i \in 1 .. m
        BY <2>1, <2>13
      <3> QED
        BY <2>4, <2>10, <3>1
    <2>14. \A i, j \in 2 .. c - 1 :
              i # j => text[i].says # text[j].says \/ text[i].says = "property"
      <3> TAKE i, j \in 2 .. c - 1
      <3>1. /\ i - 1 \in 1 .. c - 2 /\ (i - 1) + 1 = i
            /\ j - 1 \in 1 .. c - 2 /\ (j - 1) + 1 = j
            /\ i # j => i - 1 # j - 1
        BY <2>1
      <3>2. Frontmatter(text)[i - 1] = text[i] /\ Frontmatter(text)[j - 1] = text[j]
        BY <2>5, <3>1
      <3> QED
        BY <1>1, <2>5, <3>1, <3>2 DEF GoReads
    <2>15. ASSUME NEW i \in 2 .. d - 1, NEW j \in 2 .. d - 1, i # j
           PROVE  text'[i].says # text'[j].says \/ text'[i].says = "property"
      <3>1. CASE i < c /\ j < c
        BY <2>13, <2>14, <2>15, <3>1
      <3>2. CASE ~(i < c) /\ ~(j < c)
        <4>1. i - c + 1 # j - c + 1
          BY <2>1, <2>15
        <4> QED
          BY <2>3, <2>12, <3>2, <4>1
      <3>3. CASE (i < c) # (j < c)
        BY <2>12, <2>13, <3>3
      <3> QED
        BY <3>1, <3>2, <3>3
    <2>16. \A i, j \in DOMAIN Frontmatter(text') :
              i # j => \/ Frontmatter(text')[i].says # Frontmatter(text')[j].says
                       \/ Frontmatter(text')[i].says = "property"
      <3> TAKE i, j \in DOMAIN Frontmatter(text')
      <3>1. i \in 1 .. d - 2 /\ j \in 1 .. d - 2
        BY <2>6
      <3>2. i + 1 \in 2 .. d - 1 /\ j + 1 \in 2 .. d - 1 /\ (i # j => i + 1 # j + 1)
        BY <2>1, <3>1
      <3> QED
        BY <2>6, <2>15, <3>1, <3>2
    <2> QED
      BY <2>7, <2>8, <2>9, <2>11, <2>16 DEF GoReads
  <1>2. NoteInv /\ [Next]_vars
        => [Written /\ GoReads(text) /\ ~Leftover => GoReads(text')]_vars
    BY <1>1, ScorersStep
  <1> QED
    BY <1>2, NoteAlways, PTL DEF Spec, IdStaysReadable
=============================================================================
