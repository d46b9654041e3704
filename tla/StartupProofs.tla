--------------------------- MODULE StartupProofs ----------------------------
(***************************************************************************)
(* Proofs about Startup, for any environments, versions and bounds.        *)
(***************************************************************************)
EXTENDS Startup, TLAPS

LEMMA VersionType == ASSUME NEW e \in Env PROVE Version(e) \in Versions
  BY StartupAssumption DEF Env, Version

LEMMA BoundsType == MaxChanges \in Nat /\ MaxSwaps \in Nat /\ MaxKills \in Nat
  BY StartupAssumption

LEMMA Counts ==
    ASSUME NEW bound \in Nat, NEW count \in 0..bound
    PROVE  0 \in 0..bound /\ (count < bound => count + 1 \in 0..bound)
  OBVIOUS

LEMMA InitType == Init => TypeOK
  <1> SUFFICES ASSUME Init PROVE TypeOK
    OBVIOUS
  <1>1. env \in Env /\ cfg \in Env /\ offline \in BOOLEAN
    BY StartupAssumption DEF Init, Env
  <1>2. volume \in SUBSET Versions
    BY <1>1, VersionType DEF Init
  <1>3. changes \in 0..MaxChanges /\ swaps \in 0..MaxSwaps /\ kills \in 0..MaxKills
    BY BoundsType DEF Init
  <1>4. model = {} /\ scores = {} /\ step = "config" /\ fetched = FALSE /\ hub = "unimported"
    BY DEF Init
  <1> QED
    BY <1>1, <1>2, <1>3, <1>4 DEF TypeOK

LEMMA TypeStep == TypeOK /\ [Next]_vars => TypeOK'
  <1> SUFFICES ASSUME TypeOK, [Next]_vars PROVE TypeOK'
    OBVIOUS
  <1> USE DEF TypeOK, process, bounds, Down
  <1>1. CASE LoadConfig
    BY <1>1 DEF LoadConfig
  <1>2. CASE ImportHub
    BY <1>2 DEF ImportHub
  <1>3. CASE LoadModel
    BY <1>3 DEF LoadModel
  <1>4. CASE CreateServer
    BY <1>4 DEF CreateServer
  <1>5. CASE Start
    <2>1. env.offline \in BOOLEAN
      BY DEF Env
    <2> QED
      BY <1>5, <2>1 DEF Start
  <1>6. CASE Score
    <2>1. Version(cfg) \in Versions
      BY VersionType
    <2>2. \A s \in scores' : s \in scores \/ \E w \in model : s = <<w, Version(cfg)>>
      BY <1>6 DEF Score
    <2>3. scores' \subseteq (Versions \cup {Fetched}) \X Versions
      BY <2>1, <2>2
    <2>4. UNCHANGED <<env, volume, step, process, fetched, bounds>>
      BY <1>6 DEF Score
    <2> QED
      BY <2>3, <2>4
  <1>7. CASE Kill
    <2>1. kills' \in 0..MaxKills
      BY <1>7, BoundsType, Counts DEF Kill
    <2> QED
      BY <1>7, <2>1 DEF Kill
  <1>8. CASE Replaced
    BY <1>8 DEF Replaced
  <1>9. CASE Reconfigure
    <2>1. changes' \in 0..MaxChanges
      BY <1>9, BoundsType, Counts DEF Reconfigure
    <2>2. env' \in Env
      BY <1>9, StartupAssumption DEF Reconfigure
    <2>3. UNCHANGED <<volume, step, process, scores, fetched, swaps, kills>>
      BY <1>9 DEF Reconfigure
    <2> QED
      BY <2>1, <2>2, <2>3
  <1>10. CASE Swap
    <2>1. PICK v \in Versions : env' = [env EXCEPT !.version = v]
      BY <1>10 DEF Swap
    <2>2. env' \in Env
      BY <2>1 DEF Env
    <2>3. swaps' \in 0..MaxSwaps
      BY <1>10, BoundsType, Counts DEF Swap
    <2> QED
      BY <1>10, <2>2, <2>3 DEF Swap
  <1>11. CASE Fill
    BY <1>11, VersionType DEF Fill
  <1>12. CASE UNCHANGED vars
    BY <1>12 DEF vars, process, bounds
  <1> QED
    BY <1>1, <1>2, <1>3, <1>4, <1>5, <1>6, <1>7, <1>8, <1>9, <1>10, <1>11, <1>12 DEF Next, Up

(* Types are kept, whatever is deployed and whenever.                      *)
THEOREM StartupTypeCorrect == Spec => []TypeOK
  BY InitType, TypeStep, PTL DEF Spec

----
(* The flag is set before the library is imported, and stays set.          *)
Offline ==
    /\ ~fetched
    /\ step \in {"import", "load", "bind", "serving"} => offline
    /\ step \in {"load", "bind", "serving"} => hub = "offline"

LEMMA OfflineStep == Offline /\ [Next]_vars => Offline'
  <1> SUFFICES ASSUME Offline, [Next]_vars PROVE Offline'
    OBVIOUS
  <1> USE DEF Offline, process, bounds, Down
  <1>1. CASE LoadConfig
    BY <1>1 DEF LoadConfig
  <1>2. CASE ImportHub
    BY <1>2 DEF ImportHub
  <1>3. CASE LoadModel
    BY <1>3 DEF LoadModel
  <1>4. CASE CreateServer
    BY <1>4 DEF CreateServer
  <1>5. CASE Start
    BY <1>5 DEF Start
  <1>6. CASE Score
    BY <1>6 DEF Score
  <1>7. CASE Kill
    BY <1>7 DEF Kill
  <1>8. CASE Replaced
    BY <1>8 DEF Replaced
  <1>9. CASE Reconfigure
    BY <1>9 DEF Reconfigure
  <1>10. CASE Swap
    BY <1>10 DEF Swap
  <1>11. CASE Fill
    BY <1>11 DEF Fill
  <1>12. CASE UNCHANGED vars
    BY <1>12 DEF vars, process, bounds
  <1> QED
    BY <1>1, <1>2, <1>3, <1>4, <1>5, <1>6, <1>7, <1>8, <1>9, <1>10, <1>11, <1>12 DEF Next, Up

(* No weights come over the network, whatever the image's environment says *)
(* and whenever the volume is empty.                                       *)
THEOREM NeverFetchesHolds == Spec => []NeverFetches
  <1>1. Init => Offline
    BY DEF Init, Offline
  <1>2. Offline => NeverFetches
    BY DEF Offline, NeverFetches
  <1> QED
    BY <1>1, <1>2, OfflineStep, PTL DEF Spec

----
(* While an owner waits for the old process, a filled volume is the one    *)
(* its version says.                                                       *)
VersionInv ==
    /\ volume \subseteq {Version(env)}
    /\ volume # {} => step = "down" \/ Version(cfg) = Version(env)
    /\ step \in {"bind", "serving"} => model \subseteq {Version(cfg)}
    /\ VersionIsTrue

LEMMA VersionStep ==
    ASSUME Patient
    PROVE  TypeOK /\ Offline /\ VersionInv /\ [Next]_vars => VersionInv'
  <1> SUFFICES ASSUME TypeOK, Offline, VersionInv, [Next]_vars PROVE VersionInv'
    OBVIOUS
  <1> USE DEF VersionInv, VersionIsTrue, process, bounds, Down, Version
  <1>1. CASE LoadConfig
    BY <1>1 DEF LoadConfig
  <1>2. CASE ImportHub
    BY <1>2 DEF ImportHub
  <1>3. CASE LoadModel
    BY <1>3 DEF LoadModel, Offline
  <1>4. CASE CreateServer
    BY <1>4 DEF CreateServer
  <1>5. CASE Start
    BY <1>5 DEF Start
  <1>6. CASE Score
    <2>1. model \subseteq {Version(cfg)}
      BY <1>6 DEF Score
    <2>2. ASSUME NEW s \in scores' PROVE s[1] = s[2]
      <3>1. CASE s \in scores
        BY <3>1
      <3>2. CASE s \notin scores
        <4>1. PICK w \in model : s = <<w, Version(cfg)>>
          BY <1>6, <2>2, <3>2 DEF Score
        <4>2. w = Version(cfg)
          BY <2>1
        <4> HIDE DEF Version
        <4> QED
          BY <4>1, <4>2
      <3> QED
        BY <3>1, <3>2
    <2>3. \A s \in scores' : s[1] = s[2]
      BY <2>2
    <2>4. UNCHANGED <<env, volume, step, process, fetched, bounds>>
      BY <1>6 DEF Score
    <2> QED
      BY <2>3, <2>4
  <1>7. CASE Kill
    BY <1>7 DEF Kill
  <1>8. CASE Replaced
    BY <1>8 DEF Replaced
  <1>9. CASE Reconfigure
    BY <1>9 DEF Reconfigure
  <1>10. CASE Swap
    BY <1>10 DEF Swap
  <1>11. CASE Fill
    BY <1>11 DEF Fill
  <1>12. CASE UNCHANGED vars
    BY <1>12 DEF vars, process, bounds
  <1> QED
    BY <1>1, <1>2, <1>3, <1>4, <1>5, <1>6, <1>7, <1>8, <1>9, <1>10, <1>11, <1>12 DEF Next, Up

(* The version noted with a score is that of the weights behind it, for an *)
(* owner who fills the volume when the process of the old version is gone. *)
THEOREM VersionIsTrueHolds == ASSUME Patient PROVE Spec => []VersionIsTrue
  <1>1. Init => VersionInv /\ Offline
    BY DEF Init, VersionInv, VersionIsTrue, Offline
  <1>2. VersionInv => VersionIsTrue
    BY DEF VersionInv
  <1> QED
    BY <1>1, <1>2, VersionStep, OfflineStep, InitType, TypeStep, PTL DEF Spec
=============================================================================
