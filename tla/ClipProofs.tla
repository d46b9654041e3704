----------------------------- MODULE ClipProofs -----------------------------
(***************************************************************************)
(* Theorems about Clip, for any recordings, and any number of failures and *)
(* kills: its type invariant, and that nothing is embedded that lasts less *)
(* than a second outside of its own rumble.                                *)
(***************************************************************************)
EXTENDS Clip, FiniteSetTheorems, WellFoundedInduction, TLAPS

LEMMA Typed == Init => TypeOK
BY BoundAssumption DEF Init, TypeOK

LEMMA TypedStep == TypeOK /\ [Next]_vars => TypeOK'
<1> SUFFICES ASSUME TypeOK, [Next]_vars PROVE TypeOK'
    OBVIOUS
<1> USE BoundAssumption DEF TypeOK
<1>1. CASE Begin /\ UNCHANGED <<source, faults, kills>>
    BY <1>1 DEF Begin, Write, Without
<1>2. CASE Decode /\ UNCHANGED <<source, faults, kills>>
  <2>1. CASE Raise(Without({"left"}))
      BY <1>2, <2>1 DEF Decode, Raise, Without
  <2>2. CASE step' = "read" /\ UNCHANGED <<wavs, draft, record>>
      BY <1>2, <2>2 DEF Decode
  <2>3. CASE Write("unscoreable", {})
      BY <1>2, <2>3 DEF Decode, Write, Without
  <2> QED BY <1>2, <2>1, <2>2, <2>3 DEF Decode
<1>3. CASE ReadWav /\ UNCHANGED <<source, faults, kills>>
    BY <1>3 DEF ReadWav, Write, Without
<1>4. CASE Embed /\ UNCHANGED <<source, faults, kills>>
    BY <1>4 DEF Embed, Write, Raise, Without
<1>5. CASE WriteRecord /\ UNCHANGED <<source, faults, kills>>
    BY <1>5 DEF WriteRecord
<1>6. CASE Fault
  <2>1. source' = source /\ kills' = kills /\ faults' \in 0..MaxFaults
      BY <1>6 DEF Fault
  <2>2. CASE step = "idle" /\ record = "none" /\ source.there /\ Raise(wavs)
      BY <2>1, <2>2 DEF Raise
  <2>3. ASSUME NEW rest \in {{}, {"stuck"}}, step = "decode", Write("unscoreable", rest)
        PROVE  TypeOK'
      BY <2>1, <2>3 DEF Write, Without
  <2>4. ASSUME NEW rest \in {{}, {"stuck"}}, step = "read", Raise(Without(rest))
        PROVE  TypeOK'
      BY <2>1, <2>4 DEF Raise, Without
  <2>5. CASE step \in {"embed", "write"} /\ Raise(wavs)
      BY <2>1, <2>5 DEF Raise
  <2> QED BY <1>6, <2>2, <2>3, <2>4, <2>5 DEF Fault
<1>7. CASE Kill
    BY <1>7 DEF Kill, Raise, Without
<1>8. CASE UNCHANGED vars
    BY <1>8 DEF vars
<1> QED BY <1>1, <1>2, <1>3, <1>4, <1>5, <1>6, <1>7, <1>8 DEF Next, Try

(* The type invariant holds whatever the recording is and however often    *)
(* an operation fails or the process is killed: the record is written by   *)
(* the call that found none, and a call holds a temp WAV only while it     *)
(* decodes and reads.                                                      *)
THEOREM ClipTypeCorrect == Spec => []TypeOK
BY Typed, TypedStep, PTL DEF Spec

----
(* What is embedded was measured, and what was measured lasts.             *)

(* A frame counts for half a window, and there are no more speech frames   *)
(* than frames: a second takes 67 of them, and 1.02 s of samples.          *)
LEMMA SecondNeedsFrames ==
    ASSUME NEW src \in Sources, LongEnough(src)
    PROVE  /\ 100 * src.samples >= 102 * Rate
           /\ HopLen * Cardinality({i \in Frames(src) :
                 1000 * src.frame[i].band > src.frame[i].rumble}) >= Rate
<1> DEFINE n == NumFrames(src.samples)
           Clear == {i \in Frames(src) : 1000 * src.frame[i].band > src.frame[i].rumble}
<1>1. src.samples \in Nat /\ n \in Nat /\ n > 0
    BY SourceAssumption DEF LongEnough, NumFrames, FrameLen, HopLen, Rate
<1>2. IsFiniteSet(Frames(src)) /\ Cardinality(Frames(src)) = n
    BY <1>1, FS_Interval, 0 \in Int, n - 1 \in Int DEF Frames
<1>3. /\ IsFiniteSet(Clear) /\ Cardinality(Clear) \in Nat
      /\ Cardinality(Clear) <= n
    BY <1>2, FS_Subset, FS_CardinalityType, Clear \subseteq Frames(src)
<1>4. /\ Cardinality(SpeechFrames(src)) \in Nat
      /\ Cardinality(SpeechFrames(src)) <= Cardinality(Clear)
  <2>1. SpeechFrames(src) \subseteq Clear
      BY DEF SpeechFrames, ClearsRumble
  <2> QED BY <1>3, <2>1, FS_Subset, FS_CardinalityType
<1>5. Cardinality(SpeechFrames(src)) * 240 >= 16000
    BY DEF LongEnough, HopLen, FrameLen, Rate
<1>6. n >= 67 /\ 240 * Cardinality(Clear) >= 16000
    BY <1>1, <1>3, <1>4, <1>5
<1>7. n = IF src.samples < 480 THEN 0 ELSE 1 + (src.samples - 480) \div 240
    BY DEF NumFrames, FrameLen, HopLen, Rate
<1>8. src.samples >= 16320
    BY <1>1, <1>6, <1>7
<1> QED BY <1>1, <1>6, <1>8 DEF Rate, HopLen, FrameLen

(* On the way to an embedding the clip is there, decodes and is long       *)
(* enough, from the step that found it so.                                 *)
Measured ==
    /\ step \in {"decode", "read", "embed"} => source.there
    /\ step \in {"read", "embed"} => source.decodes
    /\ step = "embed" => LongEnough(source)
    /\ draft = "embedded" \/ record = "embedded" =>
          source.there /\ source.decodes /\ source.embeds /\ LongEnough(source)

LEMMA MeasuredStep == TypeOK /\ Measured /\ [Next]_vars => Measured'
<1> SUFFICES ASSUME TypeOK, Measured, [Next]_vars PROVE Measured'
    OBVIOUS
<1>0. source' = source
    BY DEF Next, Fault, Kill, vars
<1>a. LongEnough(source)' <=> LongEnough(source)
    BY <1>0
<1>b. source'.there = source.there /\ source'.decodes = source.decodes
      /\ source'.embeds = source.embeds
    BY <1>0
<1>1. CASE Begin
    BY <1>1, <1>a, <1>b DEF Begin, Write, Measured, TypeOK
<1>2. CASE Decode
    BY <1>2, <1>a, <1>b DEF Decode, Write, Raise, Measured, TypeOK
<1>3. CASE ReadWav
    BY <1>3, <1>a, <1>b DEF ReadWav, Write, Measured, TypeOK
<1>4. CASE Embed
    BY <1>4, <1>a, <1>b DEF Embed, Write, Raise, Measured, TypeOK
<1>5. CASE WriteRecord
    BY <1>5, <1>a, <1>b DEF WriteRecord, Measured, TypeOK
<1>6. CASE Fault
    BY <1>6, <1>a, <1>b DEF Fault, Write, Raise, Measured, TypeOK
<1>7. CASE Kill
    BY <1>7, <1>a, <1>b DEF Kill, Raise, Measured, TypeOK
<1>8. CASE UNCHANGED vars
    BY <1>8, <1>a, <1>b DEF vars, Measured
<1> QED BY <1>1, <1>2, <1>3, <1>4, <1>5, <1>6, <1>7, <1>8 DEF Next, Try

(* Whatever the clip, no embedding is made of less than a second outside   *)
(* of its own rumble, nor of a clip that lasts less than 1.02 s.           *)
THEOREM NeverOnRumbleHolds == Spec => []NeverOnRumble
<1>1. Init => Measured
    BY DEF Init, Measured
<1>2. TypeOK /\ Measured => NeverOnRumble
    BY SecondNeedsFrames DEF TypeOK, Measured, NeverOnRumble
<1> QED BY ClipTypeCorrect, MeasuredStep, <1>1, <1>2, PTL DEF Spec

(* No try leaves its temp WAV untouched, in any number of passes, with any *)
(* failures, unless it is killed or ffmpeg's messages are not UTF-8.       *)
THEOREM WavRemovedHolds == Spec => []WavRemoved
<1>1. Init => WavRemoved
    BY DEF Init, WavRemoved
<1>2. TypeOK /\ WavRemoved /\ [Next]_vars => WavRemoved'
  <2> SUFFICES ASSUME TypeOK, WavRemoved, [Next]_vars PROVE WavRemoved'
      OBVIOUS
  <2>0. source' = source
      BY DEF Next, Fault, Kill, vars
  <2>1. CASE Try /\ UNCHANGED <<source, faults, kills>>
      BY <2>0, <2>1 DEF Try, Begin, Decode, ReadWav, Embed, WriteRecord, Write, Raise,
                        Without, WavRemoved
  <2>2. CASE Fault
      BY <2>0, <2>2 DEF Fault, Write, Raise, Without, WavRemoved
  <2>3. CASE Kill
      BY <2>0, <2>3 DEF Kill, Raise, Without, WavRemoved
  <2>4. CASE UNCHANGED vars
      BY <2>4 DEF vars, WavRemoved
  <2> QED BY <2>1, <2>2, <2>3, <2>4 DEF Next
<1> QED BY ClipTypeCorrect, <1>1, <1>2, PTL DEF Spec

----
(* Speech is heard.  The percentile is one of the clip's energies, or lies *)
(* between two of them, and fewer than a twentieth of the frames lie above.*)

LEMMA LeastExists ==
    ASSUME NEW T, T \subseteq Nat, T # {}
    PROVE  \E x \in T : \A y \in T : x <= y
<1> DEFINE Less == {ss \in Nat \X Nat : ss[1] < ss[2]}
<1>1. IsWellFoundedOn(Less, Nat)
    BY NatLessThanWellFounded DEF OpToRel
<1>2. \E x \in T : \A y \in T : <<y, x>> \notin Less
  <2> HIDE DEF Less
  <2> QED BY <1>1, WFMin
<1>3. PICK x \in T : \A y \in T : <<y, x>> \notin Less
    BY <1>2
<1> SUFFICES ASSUME NEW y \in T PROVE x <= y
    OBVIOUS
<1>4. <<y, x>> \in Nat \X Nat /\ ~(y < x)
    BY <1>3
<1> QED BY <1>4

LEMMA ClipTypes ==
    ASSUME NEW src \in Sources
    PROVE  /\ NumFrames(src.samples) \in Nat
           /\ IsFiniteSet(Frames(src)) /\ Cardinality(Frames(src)) = NumFrames(src.samples)
           /\ \A i \in Frames(src) : src.frame[i].band \in Nat /\ src.frame[i].rumble \in Nat
<1>1. NumFrames(src.samples) \in Nat
    BY SourceAssumption DEF NumFrames, FrameLen, HopLen, Rate
<1>2. IsFiniteSet(Frames(src)) /\ Cardinality(Frames(src)) = NumFrames(src.samples)
    BY <1>1, FS_Interval, 0 \in Int, NumFrames(src.samples) - 1 \in Int DEF Frames
<1>3. \A i \in Frames(src) : src.frame[i] \in Frame
    BY SourceAssumption
<1> QED BY <1>1, <1>2, <1>3 DEF Frame

(* Among some frames there is one that no other exceeds: the one that the  *)
(* fewest do.                                                              *)
LEMMA LoudestExists ==
    ASSUME NEW src \in Sources, NEW S \in SUBSET Frames(src), S # {}
    PROVE  \E i \in S : \A j \in S : src.frame[j].band <= src.frame[i].band
<1> DEFINE Louder(i) == {j \in S : src.frame[j].band > src.frame[i].band}
           Counts == {Cardinality(Louder(i)) : i \in S}
<1>1. \A i \in S : IsFiniteSet(Louder(i)) /\ Cardinality(Louder(i)) \in Nat
  <2> TAKE i \in S
  <2>1. Louder(i) \subseteq Frames(src)
      OBVIOUS
  <2> QED BY <2>1, ClipTypes, FS_Subset, FS_CardinalityType
<1>2. \E n \in Counts : \A k \in Counts : n <= k
  <2>1. Counts \subseteq Nat /\ Counts # {}
      BY <1>1
  <2> QED BY <2>1, LeastExists
<1>3. PICK i \in S : \A k \in S : Cardinality(Louder(i)) <= Cardinality(Louder(k))
    BY <1>2
<1> SUFFICES ASSUME NEW j \in S, ~(src.frame[j].band <= src.frame[i].band) PROVE FALSE
    BY <1>3
<1>4. src.frame[j].band > src.frame[i].band
    BY ClipTypes
<1>5. Louder(j) \subseteq Louder(i) /\ j \in Louder(i) /\ j \notin Louder(j)
    BY <1>4, ClipTypes
<1>6. Cardinality(Louder(j)) <= Cardinality(Louder(i))
      /\ (Cardinality(Louder(j)) = Cardinality(Louder(i)) => Louder(j) = Louder(i))
  <2> HIDE DEF Louder
  <2> QED BY <1>1, <1>5, FS_Subset
<1>7. Cardinality(Louder(i)) \in Nat /\ Cardinality(Louder(j)) \in Nat
    BY <1>1
<1>8. Cardinality(Louder(i)) <= Cardinality(Louder(j))
    BY <1>3
<1>9. Louder(j) # Louder(i)
    BY <1>5
<1> QED BY <1>6, <1>7, <1>8, <1>9

(* Below and UpTo are finite, and an energy that is not below another has  *)
(* no fewer frames below it.                                               *)
LEMMA Counted ==
    ASSUME NEW src \in Sources, NEW e \in Nat
    PROVE  /\ Cardinality(Below(src, e)) \in Nat /\ Cardinality(UpTo(src, e)) \in Nat
           /\ Cardinality(Below(src, e)) <= NumFrames(src.samples)
           /\ \A d \in Nat : d <= e => Cardinality(Below(src, d)) <= Cardinality(Below(src, e))
<1>1. Below(src, e) \subseteq Frames(src) /\ UpTo(src, e) \subseteq Frames(src)
    BY DEF Below, UpTo
<1>2. IsFiniteSet(Below(src, e)) /\ IsFiniteSet(UpTo(src, e))
    BY <1>1, ClipTypes, FS_Subset
<1>3. \A d \in Nat : d <= e => Below(src, d) \subseteq Below(src, e)
    BY ClipTypes DEF Below
<1> QED BY <1>1, <1>2, <1>3, ClipTypes, FS_Subset, FS_CardinalityType

(* Every rank has an energy.                                               *)
LEMMA RankExists ==
    ASSUME NEW src \in Sources, NEW rank \in Nat, rank < NumFrames(src.samples)
    PROVE  /\ AtRank(src, rank) \in Nat
           /\ Cardinality(Below(src, AtRank(src, rank))) <= rank
<1> DEFINE Energies == {src.frame[i].band : i \in Frames(src)}
           Enough == {e \in Energies : rank < Cardinality(UpTo(src, e))}
<1>1. Energies \subseteq Nat
    BY ClipTypes
<1>2. Enough # {}
  <2>1. Frames(src) # {}
      BY ClipTypes, FS_EmptySet
  <2>2. PICK i \in Frames(src) : \A j \in Frames(src) : src.frame[j].band <= src.frame[i].band
      BY <2>1, LoudestExists
  <2>3. UpTo(src, src.frame[i].band) = Frames(src)
      BY <2>2 DEF UpTo
  <2> QED BY <2>3, ClipTypes
<1>3. PICK e \in Enough : \A d \in Enough : e <= d
    BY <1>1, <1>2, LeastExists
<1>4. Cardinality(Below(src, e)) <= rank
  <2> SUFFICES ASSUME ~(Cardinality(Below(src, e)) <= rank) PROVE FALSE
      OBVIOUS
  <2>0. e \in Nat /\ Cardinality(Below(src, e)) \in Nat
      BY <1>1, Counted
  <2>1. rank < Cardinality(Below(src, e))
      BY <2>0
  <2>2. Below(src, e) # {} /\ Below(src, e) \subseteq Frames(src)
    <3>1. Cardinality(Below(src, e)) # 0
        BY <2>0, <2>1
    <3> QED BY <3>1, FS_EmptySet DEF Below
  <2>3. PICK i \in Below(src, e) :
            \A j \in Below(src, e) : src.frame[j].band <= src.frame[i].band
      BY <2>2, LoudestExists
  <2>4. src.frame[i].band < e /\ src.frame[i].band \in Energies
      BY <2>2 DEF Below
  <2>5. UpTo(src, src.frame[i].band) = Below(src, e)
      BY <2>0, <2>3, <2>4, ClipTypes, <1>1 DEF Below, UpTo
  <2>6. src.frame[i].band \in Enough
      BY <2>1, <2>4, <2>5
  <2>7. e <= src.frame[i].band
      BY <1>3, <2>6
  <2>8. src.frame[i].band \in Nat
      BY <1>1, <2>4
  <2> QED BY <2>0, <2>4, <2>7, <2>8
<1>5. \E d \in Energies : Cardinality(Below(src, d)) <= rank /\ rank < Cardinality(UpTo(src, d))
    BY <1>4
<1>6. /\ AtRank(src, rank) \in Energies
      /\ Cardinality(Below(src, AtRank(src, rank))) <= rank
    BY <1>5 DEF AtRank
<1> QED BY <1>1, <1>6

(* The reference level is below any bound that all but a twentieth of the  *)
(* frames are below.                                                       *)
LEMMA ReferenceBelow ==
    ASSUME NEW src \in Sources, NEW bound \in Nat,
           NumFrames(src.samples) > 0,
           20 * (NumFrames(src.samples) - Cardinality(Below(src, bound)))
               < NumFrames(src.samples)
    PROVE  Reference(src) \in Nat /\ Reference(src) < 100 * bound
<1> DEFINE n == NumFrames(src.samples)
           place == 95 * (n - 1)
           rank == place \div 100
           rest == place % 100
<1>1. n \in Nat /\ Cardinality(Below(src, bound)) \in Nat
      /\ Cardinality(Below(src, bound)) <= n
    BY ClipTypes, Counted
<1>2. /\ rank \in Nat /\ rest \in 0..99 /\ rank < Cardinality(Below(src, bound))
      /\ rest # 0 => rank + 1 < Cardinality(Below(src, bound))
    BY <1>1
<1>3. \A k \in Nat : k < Cardinality(Below(src, bound)) =>
          AtRank(src, k) \in Nat /\ AtRank(src, k) < bound
  <2> SUFFICES ASSUME NEW k \in Nat, k < Cardinality(Below(src, bound))
               PROVE  AtRank(src, k) \in Nat /\ AtRank(src, k) < bound
      OBVIOUS
  <2>1. AtRank(src, k) \in Nat /\ Cardinality(Below(src, AtRank(src, k))) <= k
      BY <1>1, RankExists
  <2>2. bound <= AtRank(src, k) =>
            Cardinality(Below(src, bound)) <= Cardinality(Below(src, AtRank(src, k)))
      BY <2>1, Counted
  <2>3. Cardinality(Below(src, AtRank(src, k))) \in Nat
      BY <2>1, Counted
  <2> QED BY <1>1, <2>1, <2>2, <2>3
<1>4. AtRank(src, rank) \in Nat /\ AtRank(src, rank) < bound
    BY <1>2, <1>3
<1>5. CASE rest = 0
  <2>1. Reference(src) = 100 * AtRank(src, rank)
      BY <1>5 DEF Reference, PeakPercentile
  <2> QED BY <2>1, <1>4
<1>6. CASE rest # 0
  <2>1. AtRank(src, rank + 1) \in Nat /\ AtRank(src, rank + 1) < bound
      BY <1>2, <1>3, <1>6
  <2>2. Reference(src) = (100 - rest) * AtRank(src, rank) + rest * AtRank(src, rank + 1)
      BY <1>6 DEF Reference, PeakPercentile
  <2>3. \A x, y \in Nat, r \in 1..99 : x < bound /\ y < bound =>
            (100 - r) * x + r * y \in Nat /\ (100 - r) * x + r * y < 100 * bound
    <3> SUFFICES ASSUME NEW x \in Nat, NEW y \in Nat, NEW r \in 1..99, x < bound, y < bound
                 PROVE  (100 - r) * x + r * y \in Nat /\ (100 - r) * x + r * y < 100 * bound
        OBVIOUS
    <3>1. r * y <= r * (bound - 1) /\ r * y \in Nat
        BY SMTT(30)
    <3>2. (100 - r) * x <= (100 - r) * (bound - 1) /\ (100 - r) * x \in Nat
        BY SMTT(30)
    <3>3. (100 - r) * (bound - 1) + r * (bound - 1) = 100 * (bound - 1)
        BY SMTT(30)
    <3> QED BY <3>1, <3>2, <3>3
  <2> QED BY <1>2, <1>4, <1>6, <2>1, <2>2, <2>3
<1> QED BY <1>5, <1>6

LEMMA SpokenIsLongEnough ==
    ASSUME NEW src \in Sources, NEW f \in Frames(src), Spoken(src, src.frame[f].band)
    PROVE  LongEnough(src)
<1> DEFINE level == src.frame[f].band
           Voiced == {i \in Frames(src) :
                        src.frame[i].band >= level /\ 1000 * src.frame[i].band > src.frame[i].rumble}
<1>1. level \in Nat /\ NumFrames(src.samples) \in Nat /\ NumFrames(src.samples) > 0
    BY ClipTypes, FS_EmptySet
<1>2. Reference(src) \in Nat /\ Reference(src) < 100 * (10 * level)
    BY <1>1, ReferenceBelow, 10 * level \in Nat DEF Spoken
<1>3. Voiced \subseteq SpeechFrames(src)
    BY <1>1, <1>2, ClipTypes DEF SpeechFrames, ClearsRumble
<1>4. IsFiniteSet(SpeechFrames(src)) /\ Cardinality(SpeechFrames(src)) \in Nat
  <2>1. SpeechFrames(src) \subseteq Frames(src)
      BY DEF SpeechFrames
  <2> QED BY <2>1, ClipTypes, FS_Subset, FS_CardinalityType
<1>5. Cardinality(Voiced) \in Nat /\ Cardinality(Voiced) <= Cardinality(SpeechFrames(src))
    BY <1>3, <1>4, FS_Subset, FS_CardinalityType
<1>6. 240 * Cardinality(Voiced) >= 16000
    BY <1>5 DEF Spoken, HopLen, FrameLen, Rate
<1>7. Cardinality(SpeechFrames(src)) * 240 >= 16000
    BY <1>4, <1>5, <1>6
<1> QED BY <1>1, <1>7 DEF LongEnough, HopLen, FrameLen, Rate

(* A clip that could be decoded and is recorded as unscoreable was found   *)
(* to be too short, if no operation failed.                                *)
Rejected ==
    faults = 0 /\ source.there /\ source.decodes =>
        ~(draft = "unscoreable" \/ record = "unscoreable") \/ ~LongEnough(source)

LEMMA RejectedStep == TypeOK /\ Rejected /\ [Next]_vars => Rejected'
<1> SUFFICES ASSUME TypeOK, Rejected, [Next]_vars PROVE Rejected'
    OBVIOUS
<1>0. source' = source /\ faults \in Nat
    BY DEF Next, Fault, Kill, vars, TypeOK
<1>a. LongEnough(source)' <=> LongEnough(source)
    BY <1>0
<1>1. CASE Try /\ UNCHANGED <<source, faults, kills>>
    BY <1>0, <1>1, <1>a
       DEF Try, Begin, Decode, ReadWav, Embed, WriteRecord, Write, Raise, Rejected
<1>2. CASE Fault
    BY <1>0, <1>2 DEF Fault, Rejected
<1>3. CASE Kill
    BY <1>0, <1>3, <1>a DEF Kill, Raise, Rejected
<1>4. CASE UNCHANGED vars
    BY <1>4, <1>a DEF vars, Rejected
<1> QED BY <1>1, <1>2, <1>3, <1>4 DEF Next

(* For every clip: a second of speech at any level, with up to a twentieth *)
(* of the frames drowned by clicks and the rest as quiet or as full of     *)
(* rumble as it may be, is never recorded as unscoreable unless an         *)
(* operation failed.                                                       *)
THEOREM SpeechIsHeardHolds == Spec => []SpeechIsHeard
<1>1. Init => Rejected
    BY DEF Init, Rejected
<1>2. TypeOK /\ Rejected => SpeechIsHeard
    BY SpokenIsLongEnough DEF TypeOK, Rejected, SpeechIsHeard
<1> QED BY ClipTypeCorrect, RejectedStep, <1>1, <1>2, PTL DEF Spec
=============================================================================
