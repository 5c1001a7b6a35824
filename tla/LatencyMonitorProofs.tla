------------------------ MODULE LatencyMonitorProofs ------------------------
(***************************************************************************)
(* Theorems of LatencyMonitor for any number of frames and commands, any   *)
(* age and any number of entries allowed: what is pruned and why, and what *)
(* becomes of a frame that reaches the servos.                             *)
(***************************************************************************)
EXTENDS LatencyMonitor, SequenceTheorems, FiniteSetTheorems,
        WellFoundedInduction, TLAPS

-----------------------------------------------------------------------------
(* The inductive invariant.                                                *)

(* An entry belongs to an id that has reported, holds stages it reported,  *)
(* and is not complete.                                                    *)
EntriesInv ==
  \A id \in DOMAIN stamps :
    /\ reached[id] > 0
    /\ stamps[id].stages \subseteq 1 .. reached[id]
    /\ stamps[id].stages # Stages

(* An id whose entry is gone but that is in order_ still reports no more:  *)
(* ensureEntry_ never puts an id in order_ twice.                          *)
OrderInv ==
  \A i \in DOMAIN order :
    order[i] \in DOMAIN stamps \/ reached[order[i]] = Actuate

(* A frame on its way keeps all the stages it has reported, unless it was  *)
(* pruned or has become a sample.                                          *)
KeptInv ==
  \A id \in Frames :
    reached[id] > 0 =>
      \/ id \in pruned
      \/ id \in ToSet(samples)
      \/ id \in DOMAIN stamps /\ stamps[id].stages = 1 .. reached[id]

IInv == TypeOK /\ EntriesInv /\ OrderInv /\ KeptInv /\ SampledOrPruned

-----------------------------------------------------------------------------
(* Lemmas about the operators.                                             *)

(* The least element of a set of numbers, for what CHOOSE picks.           *)
LEMMA Least ==
  ASSUME NEW T \in SUBSET Nat, T # {}
  PROVE  \E m \in T : \A n \in T : m <= n
PROOF
<1> DEFINE R == {ss \in Nat \X Nat : ss[1] < ss[2]}
<1>1. IsWellFoundedOn(R, Nat)
  BY NatLessThanWellFounded DEF OpToRel
<1>2. ASSUME NEW x \in Nat, NEW y \in Nat, y < x PROVE <<y, x>> \in R
  <2>1. <<y, x>> \in Nat \X Nat /\ <<y, x>>[1] = y /\ <<y, x>>[2] = x
    OBVIOUS
  <2> QED
    BY <1>2, <2>1
<1> HIDE DEF R
<1>3. PICK x \in T : \A y \in T : ~(<<y, x>> \in R)
  BY <1>1, WFMin
<1>4. \A y \in T : ~(y < x)
  BY <1>2, <1>3
<1> QED
  BY <1>4

(* A cut after the first k ids parts a sequence.                           *)
LEMMA Cut ==
  ASSUME NEW o \in Seq(Ids), NEW k \in 0 .. Len(o)
  PROVE  /\ ToSet(SubSeq(o, 1, k)) = {o[i] : i \in 1 .. k}
         /\ From(o, k) \in Seq(Ids)
         /\ Len(From(o, k)) = Len(o) - k
         /\ \A i \in 1 .. Len(o) - k : From(o, k)[i] = o[i + k]
         /\ ToSet(From(o, k)) = {o[i] : i \in k + 1 .. Len(o)}
PROOF
<1>1. \A i \in 1 .. Len(o) : o[i] \in Ids
  BY ElementOfSeq
<1>2. /\ SubSeq(o, 1, k) \in Seq(Ids)
      /\ Len(SubSeq(o, 1, k)) = k
      /\ \A i \in 1 .. k : SubSeq(o, 1, k)[i] = o[i]
  BY <1>1, SubSeqProperties
<1>3. ToSet(SubSeq(o, 1, k)) = {o[i] : i \in 1 .. k}
  BY <1>2, LenProperties DEF ToSet
<1>4. /\ SubSeq(o, k + 1, Len(o)) \in Seq(Ids)
      /\ Len(SubSeq(o, k + 1, Len(o))) = Len(o) - k
      /\ \A i \in 1 .. Len(o) - k : SubSeq(o, k + 1, Len(o))[i] = o[i + k]
  BY <1>1, SubSeqProperties
<1>5. ToSet(From(o, k)) = {o[i] : i \in k + 1 .. Len(o)}
  <2>1. DOMAIN From(o, k) = 1 .. Len(o) - k
    BY <1>4, LenProperties DEF From
  <2>2. \A x \in ToSet(From(o, k)) : x \in {o[i] : i \in k + 1 .. Len(o)}
    BY <2>1, <1>4 DEF From, ToSet
  <2>3. \A j \in k + 1 .. Len(o) : o[j] \in ToSet(From(o, k))
    <3> TAKE j \in k + 1 .. Len(o)
    <3>1. j - k \in 1 .. Len(o) - k /\ From(o, k)[j - k] = o[j]
      BY <1>4 DEF From
    <3> QED
      BY <3>1, <2>1 DEF ToSet
  <2> QED
    BY <2>2, <2>3
<1> QED
  BY <1>3, <1>4, <1>5 DEF From

(* A sequence has finitely many elements.                                  *)
LEMMA ToSetIsFinite ==
  ASSUME NEW o \in Seq(Ids)
  PROVE  IsFiniteSet(ToSet(o))
PROOF
<1>1. o \in [1 .. Len(o) -> ToSet(o)] /\ DOMAIN o = 1 .. Len(o)
  BY LenProperties DEF ToSet
<1>2. o \in Surjection(1 .. Len(o), ToSet(o))
  BY <1>1 DEF Surjection, ToSet
<1> QED
  BY <1>2, FS_Surjection, FS_Interval, LenProperties

(* Pruning by age takes expired ids only, and none if it is disabled.      *)
LEMMA PrefixIsExpired ==
  ASSUME NEW s, NEW o \in Seq(Ids), NEW t
  PROVE  /\ ExpiredPrefix(s, o, t) \in 0 .. Len(o)
         /\ \A i \in 1 .. ExpiredPrefix(s, o, t) :
              MaxAge > 0 /\ Expired(s, o[i], t)
PROOF
<1>1. CASE MaxAge = 0
  BY <1>1 DEF ExpiredPrefix
<1>2. CASE MaxAge # 0
  <2> DEFINE Stops == {k \in 0 .. Len(o) : k < Len(o) => ~Expired(s, o[k + 1], t)}
             Fits(k) == /\ \A i \in 1 .. k : Expired(s, o[i], t)
                        /\ k < Len(o) => ~Expired(s, o[k + 1], t)
  <2>1. Len(o) \in Stops
    OBVIOUS
  <2>2. PICK m \in Stops : \A n \in Stops : m <= n
    <3>1. Stops \in SUBSET Nat /\ Stops # {}
      BY <2>1, LenProperties
    <3> HIDE DEF Stops
    <3> QED
      BY <3>1, Least
  <2>3. \A i \in 1 .. m : Expired(s, o[i], t)
    <3> TAKE i \in 1 .. m
    <3>1. i - 1 \in 0 .. Len(o) /\ ~(m <= i - 1)
      OBVIOUS
    <3>2. i - 1 \notin Stops
      BY <2>2, <3>1
    <3> QED
      BY <3>1, <3>2
  <2>4. \E k \in 0 .. Len(o) : Fits(k)
    BY <2>2, <2>3
  <2>5. ExpiredPrefix(s, o, t) = CHOOSE k \in 0 .. Len(o) : Fits(k)
    BY <1>2 DEF ExpiredPrefix
  <2> HIDE DEF Fits
  <2>6. ExpiredPrefix(s, o, t) \in 0 .. Len(o) /\ Fits(ExpiredPrefix(s, o, t))
    BY <2>4, <2>5
  <2> QED
    BY <2>6, <1>2, LatencyAssumption DEF Fits
<1> QED
  BY <1>1, <1>2

(* Pruning by count stops as soon as the monitor is not crowded.           *)
LEMMA PrefixIsCrowded ==
  ASSUME NEW s, NEW o \in Seq(Ids), DOMAIN s \subseteq ToSet(o)
  PROVE  /\ CrowdedPrefix(s, o) \in 0 .. Len(o)
         /\ ~Crowded(s, o, CrowdedPrefix(s, o))
         /\ \A j \in 0 .. CrowdedPrefix(s, o) - 1 : Crowded(s, o, j)
PROOF
<1> DEFINE Stops == {k \in 0 .. Len(o) : ~Crowded(s, o, k)}
           Fits(k) == /\ ~Crowded(s, o, k)
                      /\ \A j \in 0 .. k - 1 : Crowded(s, o, j)
<1>1. Len(o) \in Stops
  <2>1. DOMAIN s \ ToSet(SubSeq(o, 1, Len(o))) = {}
    BY SubSeqFull
  <2>2. Cardinality(DOMAIN s \ ToSet(SubSeq(o, 1, Len(o)))) = 0
    BY <2>1, FS_EmptySet
  <2>3. ~(0 > MaxInflight) /\ Len(o) \in 0 .. Len(o)
    BY LatencyAssumption, LenProperties
  <2> QED
    BY <2>2, <2>3 DEF Crowded
<1>2. PICK m \in Stops : \A n \in Stops : m <= n
  <2>1. Stops \in SUBSET Nat /\ Stops # {}
    BY <1>1, LenProperties
  <2> HIDE DEF Stops
  <2> QED
    BY <2>1, Least
<1>3. \A j \in 0 .. m - 1 : Crowded(s, o, j)
  <2> TAKE j \in 0 .. m - 1
  <2>1. j \in 0 .. Len(o) /\ j \notin Stops
    BY <1>2
  <2> QED
    BY <2>1
<1>4. \E k \in 0 .. Len(o) : Fits(k)
  BY <1>2, <1>3
<1>5. CrowdedPrefix(s, o) = CHOOSE k \in 0 .. Len(o) : Fits(k)
  BY DEF CrowdedPrefix
<1> HIDE DEF Fits
<1>6. CrowdedPrefix(s, o) \in 0 .. Len(o) /\ Fits(CrowdedPrefix(s, o))
  BY <1>4, <1>5
<1> QED
  BY <1>6 DEF Fits

Overfull(s) == MaxInflight > 0 /\ Cardinality(DOMAIN s) > MaxInflight

(* What pruning makes of the entries s and the order o: the first ids of o *)
(* are gone from both, each for its age or because there were too many.    *)
PrunedTo(s, o, t, s2, o2) ==
  \E k \in 0 .. Len(o) :
    /\ Len(o2) = Len(o) - k
    /\ \A i \in 1 .. Len(o) - k : o2[i] = o[i + k]
    /\ DOMAIN s2 = DOMAIN s \ {o[i] : i \in 1 .. k}
    /\ \A id \in DOMAIN s2 : s2[id] = s[id]
    /\ \A i \in 1 .. k :
         \/ MaxAge > 0 /\ Expired(s, o[i], t)
         \/ Overfull(s)

(* Both rounds of pruning together, and the bound they establish.          *)
LEMMA Pruning ==
  ASSUME NEW s, NEW o \in Seq(Ids), DOMAIN s \subseteq ToSet(o), NEW t,
         NEW k1, k1 = ExpiredPrefix(s, o, t),
         NEW s1, s1 = Without(s, ToSet(SubSeq(o, 1, k1))),
         NEW o1, o1 = From(o, k1),
         NEW k2, k2 = CrowdedPrefix(s1, o1),
         NEW s2, s2 = Without(s1, ToSet(SubSeq(o1, 1, k2)))
  PROVE  /\ From(o1, k2) \in Seq(Ids)
         /\ PrunedTo(s, o, t, s2, From(o1, k2))
         /\ MaxInflight > 0 => Cardinality(DOMAIN s2) <= MaxInflight
PROOF
<1>1. /\ k1 \in 0 .. Len(o) /\ Len(o) \in Nat
      /\ \A i \in 1 .. k1 : MaxAge > 0 /\ Expired(s, o[i], t)
  BY PrefixIsExpired, LenProperties
<1>2. /\ ToSet(SubSeq(o, 1, k1)) = {o[i] : i \in 1 .. k1}
      /\ o1 \in Seq(Ids) /\ Len(o1) = Len(o) - k1
      /\ \A i \in 1 .. Len(o) - k1 : o1[i] = o[i + k1]
      /\ ToSet(o1) = {o[i] : i \in k1 + 1 .. Len(o)}
  BY <1>1, Cut
<1>3. /\ DOMAIN s1 = DOMAIN s \ {o[i] : i \in 1 .. k1}
      /\ \A id \in DOMAIN s1 : s1[id] = s[id]
  BY <1>2 DEF Without
<1>4. DOMAIN s1 \subseteq ToSet(o1)
  <2> SUFFICES ASSUME NEW id \in DOMAIN s1 PROVE id \in ToSet(o1)
    OBVIOUS
  <2>0. id \in ToSet(o) /\ DOMAIN o = 1 .. Len(o)
    BY <1>3, LenProperties
  <2>1. PICK i \in 1 .. Len(o) : o[i] = id
    BY <2>0 DEF ToSet
  <2>2. i \in k1 + 1 .. Len(o)
    BY <2>1, <1>1, <1>3
  <2> QED
    BY <2>1, <2>2, <1>2
<1>5. /\ k2 \in 0 .. Len(o1)
      /\ ~Crowded(s1, o1, k2)
      /\ \A j \in 0 .. k2 - 1 : Crowded(s1, o1, j)
  BY <1>2, <1>4, PrefixIsCrowded
<1>6. /\ ToSet(SubSeq(o1, 1, k2)) = {o1[i] : i \in 1 .. k2}
      /\ From(o1, k2) \in Seq(Ids)
      /\ Len(From(o1, k2)) = Len(o1) - k2
      /\ \A i \in 1 .. Len(o1) - k2 : From(o1, k2)[i] = o1[i + k2]
  <2> DEFINE Parted(q, n) ==
        /\ ToSet(SubSeq(q, 1, n)) = {q[i] : i \in 1 .. n}
        /\ From(q, n) \in Seq(Ids)
        /\ Len(From(q, n)) = Len(q) - n
        /\ \A i \in 1 .. Len(q) - n : From(q, n)[i] = q[i + n]
  <2>1. \A q \in Seq(Ids) : \A n \in 0 .. Len(q) : Parted(q, n)
    BY Cut
  <2>2. o1 \in Seq(Ids) /\ k2 \in 0 .. Len(o1)
    BY <1>2, <1>5
  <2> HIDE DEF Parted
  <2>3. Parted(o1, k2)
    BY <2>1, <2>2
  <2> QED
    BY <2>3 DEF Parted
<1>7. /\ DOMAIN s2 = DOMAIN s1 \ {o1[i] : i \in 1 .. k2}
      /\ \A id \in DOMAIN s2 : s2[id] = s1[id]
  BY <1>6 DEF Without
<1>8. MaxInflight > 0 => Cardinality(DOMAIN s2) <= MaxInflight
  <2>1. IsFiniteSet(DOMAIN s2)
    BY <1>2, <1>4, <1>7, ToSetIsFinite, FS_Subset
  <2>2. Cardinality(DOMAIN s2) \in Nat
    BY <2>1, FS_CardinalityType
  <2>3. DOMAIN s2 = DOMAIN s1 \ ToSet(SubSeq(o1, 1, k2))
    BY <1>6, <1>7
  <2>4. MaxInflight > 0 => ~(Cardinality(DOMAIN s2) > MaxInflight)
    BY <1>5, <2>3 DEF Crowded
  <2> QED
    BY <2>2, <2>4, LatencyAssumption
<1>9. k2 > 0 => Overfull(s)
  <2>1. CASE k2 = 0
    BY <2>1
  <2>2. CASE k2 # 0
    <3>1. /\ MaxInflight > 0
          /\ Cardinality(DOMAIN s1 \ ToSet(SubSeq(o1, 1, 0))) > MaxInflight
      BY <2>2, <1>5, <1>2, LenProperties DEF Crowded
    <3>2. DOMAIN s1 \ ToSet(SubSeq(o1, 1, 0)) = DOMAIN s1
      <4>1. SubSeq(o1, 1, 0) = << >> /\ DOMAIN << >> = {}
        BY SubSeqEmpty
      <4>2. ToSet(SubSeq(o1, 1, 0)) = {}
        BY <4>1 DEF ToSet
      <4> QED
        BY <4>2
    <3>3. IsFiniteSet(DOMAIN s)
      BY ToSetIsFinite, FS_Subset
    <3>4. Cardinality(DOMAIN s1) <= Cardinality(DOMAIN s) /\ IsFiniteSet(DOMAIN s1)
      BY <3>3, <1>3, FS_Subset
    <3>5. Cardinality(DOMAIN s1) \in Nat /\ Cardinality(DOMAIN s) \in Nat
      BY <3>3, <3>4, FS_CardinalityType
    <3> QED
      BY <3>1, <3>2, <3>4, <3>5, LatencyAssumption DEF Overfull
  <2> QED
    BY <2>1, <2>2, <1>5
<1> DEFINE k == k1 + k2
<1>10. k \in 0 .. Len(o) /\ Len(From(o1, k2)) = Len(o) - k
  BY <1>1, <1>2, <1>5, <1>6
<1>11. \A i \in 1 .. Len(o) - k : From(o1, k2)[i] = o[i + k]
  <2> TAKE i \in 1 .. Len(o) - k
  <2>1. i \in 1 .. Len(o1) - k2 /\ i + k2 \in 1 .. Len(o) - k1
    BY <1>1, <1>2, <1>5
  <2>2. From(o1, k2)[i] = o1[i + k2]
    BY <2>1, <1>6
  <2>3. o1[i + k2] = o[(i + k2) + k1]
    BY <2>1, <1>2
  <2>4. (i + k2) + k1 = i + k
    BY <1>1, <1>5, <1>2
  <2> QED
    BY <2>2, <2>3, <2>4
<1>12. DOMAIN s2 = DOMAIN s \ {o[i] : i \in 1 .. k}
  <2>1. {o1[i] : i \in 1 .. k2} \subseteq {o[i] : i \in 1 .. k}
    <3> SUFFICES ASSUME NEW i \in 1 .. k2 PROVE o1[i] \in {o[j] : j \in 1 .. k}
      OBVIOUS
    <3>1. o1[i] = o[i + k1] /\ i + k1 \in 1 .. k
      BY <1>1, <1>2, <1>5
    <3> QED
      BY <3>1
  <2>2. \A i \in 1 .. k : o[i] \in {o[j] : j \in 1 .. k1} \cup {o1[j] : j \in 1 .. k2}
    <3> TAKE i \in 1 .. k
    <3>1. CASE i <= k1
      BY <3>1, <1>1
    <3>2. CASE i > k1
      <4>1. i - k1 \in 1 .. k2 /\ i - k1 \in 1 .. Len(o) - k1
        BY <3>2, <1>1, <1>2, <1>5
      <4>2. o1[i - k1] = o[i]
        BY <4>1, <1>1, <1>2
      <4> QED
        BY <4>1, <4>2
    <3> QED
      BY <3>1, <3>2, <1>1
  <2>3. {o[i] : i \in 1 .. k1} \subseteq {o[i] : i \in 1 .. k}
    BY <1>1, <1>5
  <2> QED
    <3> DEFINE A == {o[i] : i \in 1 .. k1}
               B == {o1[i] : i \in 1 .. k2}
               C == {o[i] : i \in 1 .. k}
    <3>1. \A x \in C : x \in A \cup B
      BY <2>2
    <3>2. A \subseteq C /\ B \subseteq C
      BY <2>1, <2>3
    <3>3. DOMAIN s2 = (DOMAIN s \ A) \ B
      BY <1>3, <1>7
    <3> HIDE DEF A, B, C, k
    <3>4. DOMAIN s2 = DOMAIN s \ C
      BY <3>1, <3>2, <3>3
    <3> QED
      BY <3>4 DEF C
<1>13. \A id \in DOMAIN s2 : s2[id] = s[id]
  BY <1>3, <1>7
<1>14. \A i \in 1 .. k : \/ MaxAge > 0 /\ Expired(s, o[i], t)
                         \/ Overfull(s)
  BY <1>1, <1>5, <1>9
<1> HIDE DEF k
<1> QED
  BY <1>6, <1>8, <1>10, <1>11, <1>12, <1>13, <1>14 DEF PrunedTo

-----------------------------------------------------------------------------
(* What a report changes.                                                  *)

(* Both actions that report, with what their guards say of the id.         *)
Report(stage, id, t) ==
  /\ t \in 0 .. now
  /\ reached[id] < stage
  /\ id \in Frames =>
       /\ stage = reached[id] + 1
       /\ \A other \in Frames : other > id => reached[other] < stage
  /\ id \notin Frames => reached[id] = 0 /\ stage = Actuate
  /\ On(stage, id, t)
  /\ reached' = [reached EXCEPT ![id] = stage]
  /\ UNCHANGED now

(* A step is one report, of one stage of one frame.                        *)
LEMMA NextReports ==
  ASSUME TypeOK, Next
  PROVE  \/ \E id \in Ids, stage \in Stages, t \in Nat : Report(stage, id, t)
         \/ Tick
PROOF
<1>1. now \in Nat /\ reached \in [Ids -> 0 .. 4] /\ Frames \subseteq Ids
  BY LatencyAssumption DEF TypeOK, Actuate, Ids
<1>2. ASSUME ReportFrame
      PROVE  \E id \in Ids, stage \in Stages, t \in Nat : Report(stage, id, t)
  <2>1. PICK id \in Frames, t \in 0 .. now :
          /\ reached[id] + 1 \in Stages
          /\ \A other \in Frames : other > id => reached[other] < reached[id] + 1
          /\ On(reached[id] + 1, id, t)
          /\ reached' = [reached EXCEPT ![id] = reached[id] + 1]
          /\ UNCHANGED now
    BY <1>2 DEF ReportFrame
  <2>2. t \in Nat /\ id \in Ids /\ reached[id] < reached[id] + 1
    BY <1>1
  <2>3. Report(reached[id] + 1, id, t)
    BY <2>1, <2>2 DEF Report
  <2> QED
    BY <2>1, <2>2, <2>3
<1>3. ASSUME ReportCommand
      PROVE  \E id \in Ids, stage \in Stages, t \in Nat : Report(stage, id, t)
  <2>1. PICK id \in Synthetic, t \in 0 .. now :
          /\ reached[id] = 0
          /\ On(Actuate, id, t)
          /\ reached' = [reached EXCEPT ![id] = Actuate]
          /\ UNCHANGED now
    BY <1>3 DEF ReportCommand
  <2>2. t \in Nat /\ id \in Ids /\ id \notin Frames
    BY <1>1, LatencyAssumption DEF Ids, Frames
  <2>3. Actuate \in Stages /\ 0 < Actuate
    BY DEF Stages, Actuate, Capture
  <2>4. Report(Actuate, id, t)
    BY <2>1, <2>2, <2>3 DEF Report
  <2> QED
    BY <2>2, <2>3, <2>4
<1> QED
  BY <1>2, <1>3 DEF Next

(* The entry and the place in order_ that a report finds or makes.         *)
LEMMA Entered ==
  ASSUME TypeOK, OrderInv, NEW id \in Ids, NEW stage \in Stages,
         NEW t \in Nat, Report(stage, id, t)
  PROVE  /\ DOMAIN Stamped(id, stage, t) = DOMAIN stamps \cup {id}
         /\ Stamped(id, stage, t) \in [DOMAIN stamps \cup {id} -> Entries]
         /\ Ordered(id) \in Seq(Ids) /\ IsInjective(Ordered(id))
         /\ DOMAIN stamps \cup {id} \subseteq ToSet(Ordered(id))
         /\ Len(order) <= Len(Ordered(id))
         /\ \A i \in 1 .. Len(order) : Ordered(id)[i] = order[i]
         /\ \A i \in 1 .. Len(Ordered(id)) :
              Ordered(id)[i] = id \/ i \in 1 .. Len(order)
PROOF
<1>1. DOMAIN Stamped(id, stage, t) = DOMAIN stamps \cup {id}
  BY DEF Stamped
<1>2. Stamped(id, stage, t) \in [DOMAIN stamps \cup {id} -> Entries]
  <2>1. t \in 0 .. MaxTime /\ 0 \in 0 .. MaxTime
    BY LatencyAssumption DEF TypeOK, Report
  <2> QED
    BY <2>1 DEF Stamped, Entries, TypeOK
<1>3. order \in Seq(Ids) /\ Len(order) \in Nat /\ DOMAIN order = 1 .. Len(order)
  BY LenProperties DEF TypeOK
<1>4. CASE id \in DOMAIN stamps
  BY <1>1, <1>2, <1>3, <1>4 DEF Ordered, TypeOK
<1>5. CASE id \notin DOMAIN stamps
  <2>1. Ordered(id) = Append(order, id)
    BY <1>5 DEF Ordered
  <2>2. /\ Ordered(id) \in Seq(Ids)
        /\ Len(Ordered(id)) = Len(order) + 1
        /\ \A i \in 1 .. Len(order) : Ordered(id)[i] = order[i]
        /\ Ordered(id)[Len(order) + 1] = id
    BY <2>1, <1>3, AppendProperties
  <2>3. DOMAIN Ordered(id) = 1 .. Len(order) + 1
    BY <2>2, LenProperties
  <2>4. \A i \in 1 .. Len(order) : order[i] # id
    <3>1. reached[id] # Actuate
      BY DEF Report, TypeOK, Stages, Actuate, Capture
    <3> QED
      BY <3>1, <1>3, <1>5 DEF OrderInv
  <2>5. IsInjective(Ordered(id))
    <3> SUFFICES ASSUME NEW i \in 1 .. Len(order) + 1, NEW j \in 1 .. Len(order) + 1,
                        Ordered(id)[i] = Ordered(id)[j]
                 PROVE  i = j
      BY <2>3 DEF IsInjective
    <3>1. \A k \in 1 .. Len(order) + 1 : k \in 1 .. Len(order) \/ k = Len(order) + 1
      BY <1>3
    <3>2. CASE i \in 1 .. Len(order) /\ j \in 1 .. Len(order)
      BY <3>2, <2>2, <1>3 DEF TypeOK, IsInjective
    <3>3. CASE i = Len(order) + 1 \/ j = Len(order) + 1
      BY <3>1, <3>3, <2>2, <2>4
    <3> QED
      BY <3>1, <3>2, <3>3
  <2>6. DOMAIN stamps \cup {id} \subseteq ToSet(Ordered(id))
    <3>1. id \in ToSet(Ordered(id))
      BY <2>2, <2>3, <1>3 DEF ToSet
    <3>2. ASSUME NEW x \in DOMAIN stamps PROVE x \in ToSet(Ordered(id))
      <4>1. x \in ToSet(order)
        BY DEF TypeOK
      <4>2. PICK i \in 1 .. Len(order) : order[i] = x
        BY <4>1, <1>3 DEF ToSet
      <4>3. i \in DOMAIN Ordered(id) /\ Ordered(id)[i] = x
        BY <4>2, <2>2, <2>3, <1>3
      <4> QED
        BY <4>3 DEF ToSet
    <3> QED
      BY <3>1, <3>2
  <2> QED
    BY <1>1, <1>2, <1>3, <2>2, <2>5, <2>6
<1> QED
  BY <1>4, <1>5

(* What pruning leaves of an entry or a place: s are the entries that the  *)
(* report finds or makes, s2 those it does not prune.                      *)
Kept(stage, id, t, s2) ==
  LET s == Stamped(id, stage, t)
  IN  /\ PrunedTo(s, Ordered(id), t, s2, order')
      /\ MaxInflight > 0 => Cardinality(DOMAIN s2) <= MaxInflight
      /\ DOMAIN s2 = ToSet(order') \cap DOMAIN s
      /\ s2 = [i \in DOMAIN s2 |-> s[i]]
      /\ stamps' = IF Complete(s2, id, stage) THEN Without(s2, {id}) ELSE s2
      /\ samples' = IF Complete(s2, id, stage) THEN Append(samples, id)
                                               ELSE samples
      /\ pruned' = pruned \cup (DOMAIN s \ DOMAIN s2)
      /\ lastTime' = t

(* What a report leaves of order_, and which entries it keeps.             *)
LEMMA ReportPrunes ==
  ASSUME TypeOK, OrderInv, NEW id \in Ids, NEW stage \in Stages,
         NEW t \in Nat, Report(stage, id, t)
  PROVE  /\ order' \in Seq(Ids) /\ IsInjective(order')
         /\ ToSet(order') \subseteq ToSet(order) \cup {id}
         /\ \E s2 : Kept(stage, id, t, s2)
PROOF
<1> DEFINE s == Stamped(id, stage, t)
           o == Ordered(id)
           k1 == ExpiredPrefix(s, o, t)
           s1 == Without(s, ToSet(SubSeq(o, 1, k1)))
           o1 == From(o, k1)
           k2 == CrowdedPrefix(s1, o1)
           s2 == Without(s1, ToSet(SubSeq(o1, 1, k2)))
<1>1. /\ order' = From(o1, k2)
      /\ stamps' = IF Complete(s2, id, stage) THEN Without(s2, {id}) ELSE s2
      /\ samples' = IF Complete(s2, id, stage) THEN Append(samples, id) ELSE samples
      /\ pruned' = pruned \cup (DOMAIN s \ DOMAIN s2)
      /\ lastTime' = t
  BY DEF Report, On
<1>2. /\ DOMAIN s = DOMAIN stamps \cup {id}
      /\ o \in Seq(Ids) /\ IsInjective(o)
      /\ DOMAIN s \subseteq ToSet(o)
      /\ Len(order) <= Len(o)
      /\ \A i \in 1 .. Len(order) : o[i] = order[i]
      /\ \A i \in 1 .. Len(o) : o[i] = id \/ i \in 1 .. Len(order)
  BY Entered
<1>3. /\ From(o1, k2) \in Seq(Ids)
      /\ PrunedTo(s, o, t, s2, From(o1, k2))
      /\ MaxInflight > 0 => Cardinality(DOMAIN s2) <= MaxInflight
  <2> HIDE DEF s, o
  <2> QED
    BY <1>2, Pruning
<1>11. s2 = [i \in DOMAIN s2 |-> s2[i]]
  BY DEF Without
<1> HIDE DEF s, o, k1, s1, o1, k2, s2
<1>4. PICK k \in 0 .. Len(o) :
        /\ Len(order') = Len(o) - k
        /\ \A i \in 1 .. Len(o) - k : order'[i] = o[i + k]
        /\ DOMAIN s2 = DOMAIN s \ {o[i] : i \in 1 .. k}
        /\ \A i \in DOMAIN s2 : s2[i] = s[i]
  BY <1>1, <1>3 DEF PrunedTo
<1>5. order' \in Seq(Ids) /\ DOMAIN order' = 1 .. Len(o) - k
  BY <1>1, <1>3, <1>4, LenProperties
<1>6. Len(o) \in Nat /\ DOMAIN o = 1 .. Len(o)
  BY <1>2, LenProperties
<1>7. IsInjective(order')
  <2> SUFFICES ASSUME NEW i \in 1 .. Len(o) - k, NEW j \in 1 .. Len(o) - k,
                      order'[i] = order'[j]
               PROVE  i = j
    BY <1>5 DEF IsInjective
  <2>1. i + k \in DOMAIN o /\ j + k \in DOMAIN o /\ o[i + k] = o[j + k]
    BY <1>4, <1>6
  <2>2. i + k = j + k
    BY <2>1, <1>2 DEF IsInjective
  <2> QED
    BY <2>2, <1>4, <1>6
<1>8. ToSet(order') \subseteq ToSet(order) \cup {id}
  <2> SUFFICES ASSUME NEW i \in 1 .. Len(o) - k
               PROVE  order'[i] \in ToSet(order) \cup {id}
    BY <1>5 DEF ToSet
  <2>1. order'[i] = o[i + k] /\ i + k \in 1 .. Len(o)
    BY <1>4, <1>6
  <2>2. DOMAIN order = 1 .. Len(order)
    BY LenProperties DEF TypeOK
  <2>3. CASE i + k \in 1 .. Len(order)
    BY <2>1, <2>2, <2>3, <1>2 DEF ToSet
  <2> QED
    BY <2>1, <2>3, <1>2
<1>9. DOMAIN s2 = ToSet(order') \cap DOMAIN s
  <2>1. ASSUME NEW x \in DOMAIN s2 PROVE x \in ToSet(order')
    <3>1. x \in ToSet(o)
      BY <1>2, <1>4
    <3>2. PICK i \in 1 .. Len(o) : o[i] = x
      BY <3>1, <1>6 DEF ToSet
    <3>3. i \notin 1 .. k
      BY <3>2, <1>4
    <3>4. i - k \in 1 .. Len(o) - k /\ (i - k) + k = i
      BY <3>3, <1>4, <1>6
    <3>5. order'[i - k] = o[(i - k) + k]
      BY <3>4, <1>4
    <3> QED
      BY <3>2, <3>4, <3>5, <1>5 DEF ToSet
  <2>2. ASSUME NEW i \in 1 .. Len(o) - k, order'[i] \in DOMAIN s
        PROVE  order'[i] \in DOMAIN s2
    <3>1. order'[i] = o[i + k] /\ i + k \in DOMAIN o
      BY <1>4, <1>6
    <3>2. ASSUME NEW j \in 1 .. k PROVE o[j] # o[i + k]
      <4>1. j \in DOMAIN o /\ j # i + k
        BY <1>4, <1>6
      <4> QED
        BY <3>1, <4>1, <1>2 DEF IsInjective
    <3>3. order'[i] \notin {o[j] : j \in 1 .. k}
      BY <3>1, <3>2
    <3> QED
      BY <2>2, <3>3, <1>4
  <2>3. \A x \in ToSet(order') : x \in DOMAIN s => x \in DOMAIN s2
    BY <2>2, <1>5 DEF ToSet
  <2> QED
    BY <2>1, <2>3, <1>4
<1>10. Kept(stage, id, t, s2)
  <2>1. s2 = [i \in DOMAIN s2 |-> s[i]]
    BY <1>4, <1>11
  <2> QED
    BY <2>1, <1>1, <1>3, <1>9 DEF Kept, s, o
<1> QED
  BY <1>5, <1>7, <1>8, <1>10

-----------------------------------------------------------------------------
(* The invariant, part by part.                                            *)

(* A report keeps the types, and the number of entries within its limit.   *)
LEMMA ReportKeepsTypes ==
  ASSUME IInv, NEW id \in Ids, NEW stage \in Stages, NEW t \in Nat,
         Report(stage, id, t)
  PROVE  TypeOK'
PROOF
<1>1. TypeOK /\ OrderInv
  BY DEF IInv
<1>2. PICK s2 : Kept(stage, id, t, s2)
  BY <1>1, ReportPrunes
<1>3. /\ DOMAIN Stamped(id, stage, t) = DOMAIN stamps \cup {id}
      /\ Stamped(id, stage, t) \in [DOMAIN stamps \cup {id} -> Entries]
  BY <1>1, Entered
<1>4. order' \in Seq(Ids) /\ IsInjective(order')
  BY <1>1, ReportPrunes
<1>5. DOMAIN stamps' \subseteq DOMAIN s2 /\ \A i \in DOMAIN stamps' : stamps'[i] = s2[i]
  BY <1>2 DEF Kept, Without
<1>6. stamps' = [i \in DOMAIN stamps' |-> stamps'[i]]
  <2>1. s2 = [i \in DOMAIN s2 |-> s2[i]]
    BY <1>2 DEF Kept
  <2> QED
    BY <1>2, <2>1 DEF Kept, Without
<1>7. stamps' \in [DOMAIN stamps' -> Entries] /\ DOMAIN stamps' \subseteq Ids
  BY <1>1, <1>2, <1>3, <1>5, <1>6 DEF Kept, TypeOK
<1>8. MaxInflight > 0 => Cardinality(DOMAIN stamps') <= MaxInflight
  <2>1. IsFiniteSet(DOMAIN s2)
    BY <1>2, <1>4, ToSetIsFinite, FS_Subset DEF Kept
  <2>2. /\ IsFiniteSet(DOMAIN stamps')
        /\ Cardinality(DOMAIN stamps') <= Cardinality(DOMAIN s2)
    BY <2>1, <1>5, FS_Subset
  <2>3. Cardinality(DOMAIN stamps') \in Nat /\ Cardinality(DOMAIN s2) \in Nat
    BY <2>1, <2>2, FS_CardinalityType
  <2> QED
    BY <2>2, <2>3, <1>2, LatencyAssumption DEF Kept
<1>9. DOMAIN stamps' \subseteq ToSet(order')
  BY <1>2, <1>5 DEF Kept
<1>10. samples' \in Seq(Ids)
  BY <1>1, <1>2, AppendProperties DEF Kept, TypeOK
<1>11. now' \in 0 .. MaxTime /\ lastTime' \in 0 .. MaxTime
  BY <1>1, <1>2, LatencyAssumption DEF Kept, TypeOK, Report
<1>12. reached' \in [Ids -> 0 .. Actuate]
  BY <1>1 DEF TypeOK, Report, Stages, Capture, Actuate
<1>13. pruned' \subseteq Ids
  BY <1>1, <1>2, <1>3 DEF Kept, TypeOK
<1> QED
  BY <1>4, <1>7, <1>8, <1>9, <1>10, <1>11, <1>12, <1>13 DEF TypeOK

(* What a frame that reaches a further stage has in its entry.             *)
LEMMA StagesGather ==
  ASSUME IInv, NEW id \in Ids, NEW stage \in Stages, NEW t \in Nat,
         Report(stage, id, t)
  PROVE  LET s == Stamped(id, stage, t)
         IN  /\ \A i \in DOMAIN stamps : i # id => s[i] = stamps[i]
             /\ s[id].stages \subseteq 1 .. stage
             /\ s[id].stages = Stages => id \in Frames /\ stage = Actuate
             /\ id \in Frames /\ id \notin pruned \cup ToSet(samples) =>
                  s[id].stages = 1 .. stage
PROOF
<1> DEFINE s == Stamped(id, stage, t)
<1>1. /\ stage \in 1 .. 4 /\ Stages = 1 .. 4
      /\ reached \in [Ids -> 0 .. 4] /\ reached[id] < stage
  BY DEF IInv, TypeOK, Report, Stages, Capture, Actuate
<1>2. \A i \in DOMAIN stamps : i # id => s[i] = stamps[i]
  BY DEF Stamped
<1>3. CASE id \in DOMAIN stamps
  <2>1. s[id].stages = stamps[id].stages \cup {stage}
    BY <1>3 DEF Stamped
  <2>2. reached[id] > 0 /\ stamps[id].stages \subseteq 1 .. reached[id]
    BY <1>3 DEF IInv, EntriesInv
  <2>3. id \in Frames /\ stage = reached[id] + 1
    BY <1>1, <2>2 DEF Report
  <2>4. s[id].stages \subseteq 1 .. stage
    BY <1>1, <2>1, <2>2, <2>3
  <2>5. s[id].stages = Stages => stage = Actuate
    BY <1>1, <2>4 DEF Actuate
  <2>6. id \notin pruned \cup ToSet(samples) => s[id].stages = 1 .. stage
    <3>1. id \notin pruned \cup ToSet(samples) =>
            stamps[id].stages = 1 .. reached[id]
      BY <2>2, <2>3 DEF IInv, KeptInv
    <3>2. 1 .. stage = 1 .. reached[id] \cup {stage}
      BY <1>1, <2>3
    <3> QED
      BY <2>1, <3>1, <3>2
  <2> QED
    BY <1>2, <2>3, <2>4, <2>5, <2>6
<1>4. CASE id \notin DOMAIN stamps
  <2>1. s[id].stages = {stage}
    BY <1>4 DEF Stamped
  <2>2. {stage} # Stages /\ {stage} \subseteq 1 .. stage
    <3>1. 1 \in Stages /\ 2 \in Stages
      BY <1>1
    <3> QED
      BY <1>1, <3>1
  <2>3. id \in Frames /\ id \notin pruned \cup ToSet(samples) => stage = 1
    BY <1>1, <1>4 DEF IInv, KeptInv, Report
  <2>4. 1 .. 1 = {1}
    OBVIOUS
  <2> QED
    BY <1>2, <2>1, <2>2, <2>3, <2>4
<1> QED
  BY <1>3, <1>4

(* A report keeps the parts about entries, their order and what is kept.   *)
LEMMA ReportKeepsOrder ==
  ASSUME IInv, NEW id \in Ids, NEW stage \in Stages, NEW t \in Nat,
         Report(stage, id, t)
  PROVE  EntriesInv' /\ OrderInv' /\ KeptInv'
PROOF
<1> DEFINE s == Stamped(id, stage, t)
<1>1. TypeOK /\ OrderInv
  BY DEF IInv
<1>2. PICK s2 : Kept(stage, id, t, s2)
  BY <1>1, ReportPrunes
<1>3. /\ DOMAIN s = DOMAIN stamps \cup {id}
      /\ DOMAIN s2 = ToSet(order') \cap DOMAIN s
      /\ \A i \in DOMAIN s2 : s2[i] = s[i]
  BY <1>1, <1>2, Entered DEF Kept
<1>4. /\ \A i \in DOMAIN stamps : i # id => s[i] = stamps[i]
      /\ s[id].stages \subseteq 1 .. stage
      /\ s[id].stages = Stages => id \in Frames /\ stage = Actuate
      /\ id \in Frames /\ id \notin pruned \cup ToSet(samples) =>
           s[id].stages = 1 .. stage
  BY StagesGather
<1>5. /\ reached'[id] = stage /\ stage > 0
      /\ \A i \in Ids : i # id => reached'[i] = reached[i]
  BY <1>1 DEF Report, TypeOK, Stages, Capture
<1>6. /\ \A i \in DOMAIN stamps' : i \in DOMAIN s2 /\ stamps'[i] = s[i]
      /\ \A i \in DOMAIN s2 : i \in DOMAIN stamps' \/ (i = id /\ Complete(s2, id, stage))
      /\ id \in DOMAIN stamps' => ~Complete(s2, id, stage)
  <2>1. stamps' = IF Complete(s2, id, stage) THEN Without(s2, {id}) ELSE s2
    BY <1>2 DEF Kept
  <2>2. CASE Complete(s2, id, stage)
    BY <2>1, <2>2, <1>3 DEF Without
  <2>3. CASE ~Complete(s2, id, stage)
    BY <2>1, <2>3, <1>3
  <2> QED
    BY <2>2, <2>3
<1> HIDE DEF s
<1>7. EntriesInv'
  <2> SUFFICES ASSUME NEW i \in DOMAIN stamps'
               PROVE  /\ reached'[i] > 0
                      /\ stamps'[i].stages \subseteq 1 .. reached'[i]
                      /\ stamps'[i].stages # Stages
    BY DEF EntriesInv
  <2>1. CASE i = id
    <3>1. s[id].stages # Stages
      BY <2>1, <1>3, <1>6 DEF Complete
    <3> QED
      BY <2>1, <3>1, <1>4, <1>5, <1>6
  <2>2. CASE i # id
    <3>1. i \in DOMAIN stamps /\ stamps'[i] = stamps[i] /\ i \in Ids
      BY <2>2, <1>1, <1>3, <1>4, <1>6 DEF TypeOK
    <3> QED
      BY <2>2, <3>1, <1>5 DEF IInv, EntriesInv
  <2> QED
    BY <2>1, <2>2
<1>8. OrderInv'
  <2>1. order' \in Seq(Ids) /\ ToSet(order') \subseteq ToSet(order) \cup {id}
    BY <1>1, ReportPrunes
  <2>2. ASSUME NEW x \in ToSet(order')
        PROVE  x \in DOMAIN stamps' \/ reached'[x] = Actuate
    <3>1. CASE x \in DOMAIN s
      <4>1. x \in DOMAIN s2
        BY <3>1, <1>3
      <4>2. CASE x = id /\ Complete(s2, id, stage)
        BY <4>2, <1>3, <1>4, <1>5 DEF Complete
      <4> QED
        BY <4>1, <4>2, <1>6
    <3>2. CASE x \notin DOMAIN s
      <4>1. x \in ToSet(order) /\ x # id /\ x \notin DOMAIN stamps
        BY <3>2, <2>1, <1>3
      <4>2. PICK i \in DOMAIN order : order[i] = x
        BY <4>1 DEF ToSet
      <4>3. reached[x] = Actuate /\ x \in Ids
        BY <4>1, <4>2, <1>1, ElementOfSeq, LenProperties DEF OrderInv, TypeOK
      <4> QED
        BY <4>1, <4>3, <1>5
    <3> QED
      BY <3>1, <3>2
  <2> QED
    BY <2>2 DEF OrderInv, ToSet
<1>9. KeptInv'
  <2> SUFFICES ASSUME NEW i \in Frames, reached'[i] > 0,
                      i \notin pruned', i \notin ToSet(samples')
               PROVE  i \in DOMAIN stamps' /\ stamps'[i].stages = 1 .. reached'[i]
    BY DEF KeptInv
  <2>1. i \in Ids
    BY DEF Ids
  <2>2. ToSet(samples) \subseteq ToSet(samples')
        /\ (Complete(s2, id, stage) => id \in ToSet(samples'))
    <3>1. samples \in Seq(Ids)
      BY <1>1 DEF TypeOK
    <3>2. /\ Append(samples, id) \in Seq(Ids)
          /\ Len(Append(samples, id)) = Len(samples) + 1
          /\ \A j \in 1 .. Len(samples) : Append(samples, id)[j] = samples[j]
          /\ Append(samples, id)[Len(samples) + 1] = id
      BY <3>1, AppendProperties
    <3>3. /\ DOMAIN samples = 1 .. Len(samples) /\ Len(samples) \in Nat
          /\ DOMAIN Append(samples, id) = 1 .. Len(samples) + 1
      BY <3>1, <3>2, LenProperties
    <3>4. /\ \A j \in DOMAIN samples : samples[j] \in ToSet(Append(samples, id))
          /\ id \in ToSet(Append(samples, id))
      BY <3>2, <3>3 DEF ToSet
    <3> QED
      BY <3>4, <1>2 DEF Kept, ToSet
  <2>3. i \notin pruned /\ i \notin ToSet(samples) /\ i \notin DOMAIN s \ DOMAIN s2
    BY <2>2, <1>2 DEF Kept, s
  <2>4. i \in DOMAIN s /\ s[i].stages = 1 .. reached'[i]
    <3>1. CASE i = id
      BY <3>1, <2>3, <1>3, <1>4, <1>5
    <3>2. CASE i # id
      <4>1. i \in DOMAIN stamps /\ stamps[i].stages = 1 .. reached[i]
        BY <3>2, <2>1, <2>3, <1>5 DEF IInv, KeptInv
      <4> QED
        BY <3>2, <4>1, <2>1, <1>3, <1>4, <1>5
    <3> QED
      BY <3>1, <3>2
  <2>5. i \in DOMAIN s2
    BY <2>3, <2>4
  <2>6. i \in DOMAIN stamps'
    BY <2>2, <2>5, <1>6
  <2> QED
    BY <2>4, <2>6, <1>6
<1> QED
  BY <1>7, <1>8, <1>9

(* Samples come in the order of the frames: a frame that overtook this one *)
(* at the last stage would have ended it.                                  *)
LEMMA ReportSamples ==
  ASSUME IInv, NEW id \in Ids, NEW stage \in Stages, NEW t \in Nat,
         Report(stage, id, t)
  PROVE  SampledOrPruned'
PROOF
<1> DEFINE s == Stamped(id, stage, t)
<1>1. TypeOK /\ OrderInv
  BY DEF IInv
<1>2. PICK s2 : Kept(stage, id, t, s2)
  BY <1>1, ReportPrunes
<1>3. /\ id \in DOMAIN s
      /\ DOMAIN s2 \subseteq DOMAIN s
      /\ \A i \in DOMAIN s2 : s2[i] = s[i]
      /\ pruned' = pruned \cup (DOMAIN s \ DOMAIN s2)
  BY <1>1, <1>2, Entered DEF Kept
<1>4. /\ s[id].stages = Stages => id \in Frames /\ stage = Actuate
      /\ id \in Frames /\ id \notin pruned \cup ToSet(samples) =>
           s[id].stages = 1 .. stage
  BY StagesGather
<1>5. /\ reached \in [Ids -> 0 .. 4] /\ Actuate = 4 /\ Stages = 1 .. 4
      /\ reached'[id] = stage /\ reached[id] < stage /\ stage \in 1 .. 4
      /\ \A i \in Ids : i # id => reached'[i] = reached[i]
      /\ Frames \subseteq Ids /\ Frames \subseteq Int
  BY <1>1 DEF Report, TypeOK, Stages, Capture, Actuate, Ids, Frames
<1>6. samples \in Seq(Ids) /\ DOMAIN samples = 1 .. Len(samples) /\ Len(samples) \in Nat
  BY <1>1, LenProperties DEF TypeOK
<1>7. /\ \A i \in Frames : reached[i] = Actuate => i \in ToSet(samples) \cup pruned
      /\ \A i, j \in 1 .. Len(samples) : i < j => samples[i] < samples[j]
      /\ \A i \in ToSet(samples) : i \in Frames /\ reached[i] = Actuate
  BY DEF IInv, SampledOrPruned
<1> HIDE DEF s
<1>8. CASE Complete(s2, id, stage)
  <2>1. /\ id \in Frames /\ stage = Actuate
        /\ samples' = Append(samples, id)
    BY <1>2, <1>3, <1>4, <1>8 DEF Complete, Kept
  <2>2. /\ Len(samples') = Len(samples) + 1
        /\ DOMAIN samples' = 1 .. Len(samples) + 1
        /\ \A j \in 1 .. Len(samples) : samples'[j] = samples[j]
        /\ samples'[Len(samples) + 1] = id
    BY <2>1, <1>6, AppendProperties, LenProperties
  <2>3. ToSet(samples') = ToSet(samples) \cup {id}
    <3>1. \A j \in DOMAIN samples' : samples'[j] \in ToSet(samples) \cup {id}
      BY <2>2, <1>6 DEF ToSet
    <3>2. \A j \in DOMAIN samples : samples[j] \in ToSet(samples')
      BY <2>2, <1>6 DEF ToSet
    <3>3. id \in ToSet(samples')
      BY <2>2, <1>6 DEF ToSet
    <3> QED
      BY <3>1, <3>2, <3>3 DEF ToSet
  <2>4. \A j \in 1 .. Len(samples) : samples[j] < id
    <3> TAKE j \in 1 .. Len(samples)
    <3>1. samples[j] \in Frames /\ reached[samples[j]] = Actuate
      BY <1>6, <1>7 DEF ToSet
    <3>2. samples[j] # id
      BY <3>1, <1>5
    <3>3. ~(samples[j] > id)
      <4>1. \A other \in Frames : other > id => reached[other] < stage
        BY <2>1 DEF Report
      <4>2. ~(reached[samples[j]] < stage)
        BY <3>1, <2>1, <1>5
      <4> QED
        BY <3>1, <4>1, <4>2
    <3> QED
      BY <3>1, <3>2, <3>3, <2>1, <1>5
  <2>5. \A i, j \in 1 .. Len(samples') : i < j => samples'[i] < samples'[j]
    <3> TAKE i, j \in 1 .. Len(samples')
    <3> HAVE i < j
    <3>1. i \in 1 .. Len(samples) /\ samples'[i] = samples[i]
      BY <2>2, <1>6
    <3>2. CASE j = Len(samples) + 1
      BY <3>1, <3>2, <2>2, <2>4
    <3>3. CASE j # Len(samples) + 1
      <4>1. j \in 1 .. Len(samples)
        BY <3>3, <2>2, <1>6
      <4> QED
        BY <3>1, <4>1, <2>2, <1>7
    <3> QED
      BY <3>2, <3>3
  <2>6. \A i \in ToSet(samples') : i \in Frames /\ reached'[i] = Actuate
    BY <2>1, <2>3, <1>5, <1>7
  <2>7. \A i \in Frames : reached'[i] = Actuate => i \in ToSet(samples') \cup pruned'
    BY <2>3, <1>3, <1>5, <1>7
  <2> QED
    BY <2>5, <2>6, <2>7 DEF SampledOrPruned
<1>9. CASE ~Complete(s2, id, stage)
  <2>1. samples' = samples
    BY <1>2, <1>9 DEF Kept
  <2>2. ASSUME NEW i \in Frames, reached'[i] = Actuate
        PROVE  i \in ToSet(samples') \cup pruned'
    <3>1. CASE i # id
      BY <3>1, <2>1, <2>2, <1>3, <1>5, <1>7
    <3>2. CASE i = id
      <4>1. i \notin pruned \cup ToSet(samples) => s[id].stages = Stages
        BY <3>2, <2>2, <1>4, <1>5
      <4>2. s[id].stages = Stages => id \notin DOMAIN s2
        BY <1>3, <1>9 DEF Complete
      <4> QED
        BY <3>2, <4>1, <4>2, <2>1, <1>3
    <3> QED
      BY <3>1, <3>2
  <2>3. \A i \in ToSet(samples') : i \in Frames /\ reached'[i] = Actuate
    <3> TAKE i \in ToSet(samples')
    <3>1. i \in Frames /\ i \in Ids /\ reached[i] = Actuate
      BY <2>1, <1>5, <1>7
    <3>2. i # id
      BY <3>1, <1>5
    <3> QED
      BY <3>1, <3>2, <1>5
  <2> QED
    BY <2>1, <2>2, <2>3, <1>7 DEF SampledOrPruned
<1> QED
  BY <1>8, <1>9

-----------------------------------------------------------------------------
(* The theorems.                                                           *)

(* A monitor without entries keeps every part.                             *)
LEMMA InitIInv == Init => IInv
PROOF
<1> SUFFICES ASSUME Init PROVE IInv
  OBVIOUS
<1>1. /\ DOMAIN stamps = {} /\ DOMAIN order = {} /\ Len(order) = 0
      /\ DOMAIN samples = {} /\ Len(samples) = 0 /\ order \in Seq(Ids)
      /\ samples \in Seq(Ids) /\ stamps = [i \in {} |-> 0]
  BY EmptySeq DEF Init
<1>2. TypeOK
  <2>1. MaxInflight > 0 => Cardinality(DOMAIN stamps) <= MaxInflight
    BY <1>1, FS_EmptySet, LatencyAssumption
  <2>2. IsInjective(order) /\ DOMAIN stamps \subseteq ToSet(order)
    BY <1>1 DEF IsInjective, ToSet
  <2>3. stamps \in [DOMAIN stamps -> Entries] /\ DOMAIN stamps \subseteq Ids
    BY <1>1
  <2>4. /\ now \in 0 .. MaxTime /\ lastTime \in 0 .. MaxTime
        /\ reached \in [Ids -> 0 .. Actuate] /\ pruned \subseteq Ids
    BY LatencyAssumption DEF Init, Actuate
  <2> QED
    BY <1>1, <2>1, <2>2, <2>3, <2>4 DEF TypeOK
<1>3. EntriesInv /\ OrderInv
  BY <1>1 DEF EntriesInv, OrderInv
<1>4. KeptInv
  BY DEF Init, KeptInv, Ids
<1>5. SampledOrPruned
  BY <1>1 DEF Init, SampledOrPruned, Ids, Actuate, ToSet
<1> QED
  BY <1>2, <1>3, <1>4, <1>5 DEF IInv

(* Every report keeps them together.                                       *)
LEMMA StepIInv == IInv /\ [Next]_vars => IInv'
PROOF
<1> SUFFICES ASSUME IInv, [Next]_vars PROVE IInv'
  OBVIOUS
<1>1. ASSUME NEW id \in Ids, NEW stage \in Stages, NEW t \in Nat,
             Report(stage, id, t)
      PROVE  IInv'
  BY <1>1, ReportKeepsTypes, ReportKeepsOrder, ReportSamples DEF IInv
<1>2. CASE Tick
  <2>1. now' \in 0 .. MaxTime
    BY <1>2, LatencyAssumption DEF Tick, IInv, TypeOK
  <2> QED
    BY <1>2, <2>1 DEF Tick, IInv, TypeOK, EntriesInv, OrderInv, KeptInv, SampledOrPruned
<1>3. CASE UNCHANGED vars
  BY <1>3 DEF vars, IInv, TypeOK, EntriesInv, OrderInv, KeptInv, SampledOrPruned
<1> QED
  BY <1>1, <1>2, <1>3, NextReports DEF IInv

(* At every moment the parts of the invariant hold.                        *)
THEOREM InvHolds == Spec => []IInv
PROOF
  BY InitIInv, StepIInv, PTL DEF Spec

(* LatencyMonitor.cpp:164: the entries in flight are never more than       *)
(* max_inflight_frames, however many frames are dropped on the way, and    *)
(* each can be found in order_ and pruned.                                 *)
THEOREM TypeCorrect == Spec => []TypeOK
PROOF
<1>1. IInv => TypeOK
  BY DEF IInv
<1> QED
  BY <1>1, InvHolds, PTL

(* Every frame that reached the servos gave one sample, in the order of    *)
(* the frames, unless its entry was pruned on the way; no command did that *)
(* no frame caused.                                                        *)
THEOREM FramesAreSampled == Spec => []SampledOrPruned
PROOF
<1>1. IInv => SampledOrPruned
  BY DEF IInv
<1> QED
  BY <1>1, InvHolds, PTL

(* An entry goes for a sample, for its age, or when the monitor is full,   *)
(* and then for one that came later.                                       *)
THEOREM PruningHasCause == Spec => PrunedForCause
PROOF
<1> DEFINE Cause ==
      \A id \in DOMAIN stamps \ DOMAIN stamps' :
        \/ id \in ToSet(samples')
        \/ /\ MaxAge > 0
           /\ Capture \in stamps[id].stages
           /\ lastTime' - stamps[id].captured > MaxAge
        \/ /\ Cardinality(DOMAIN stamps) = MaxInflight
           /\ \A other \in DOMAIN stamps :
                other \notin DOMAIN stamps' \/
                \E i, j \in 1 .. Len(order) :
                  i < j /\ order[i] = id /\ order[j] = other
<1>1. ASSUME IInv, NEW id \in Ids, NEW stage \in Stages, NEW t \in Nat,
             Report(stage, id, t), NEW x \in DOMAIN stamps \ DOMAIN stamps'
      PROVE  \/ x \in ToSet(samples')
             \/ /\ MaxAge > 0
                /\ Capture \in stamps[x].stages
                /\ lastTime' - stamps[x].captured > MaxAge
             \/ /\ Cardinality(DOMAIN stamps) = MaxInflight
                /\ \A other \in DOMAIN stamps :
                     other \notin DOMAIN stamps' \/
                     \E i, j \in 1 .. Len(order) :
                       i < j /\ order[i] = x /\ order[j] = other
  <2> DEFINE s == Stamped(id, stage, t)
             o == Ordered(id)
  <2>1. TypeOK /\ OrderInv
    BY <1>1 DEF IInv
  <2>2. PICK s2 : Kept(stage, id, t, s2)
    BY <1>1, <2>1, ReportPrunes
  <2>3. /\ DOMAIN s = DOMAIN stamps \cup {id}
        /\ o \in Seq(Ids) /\ IsInjective(o)
        /\ Len(order) <= Len(o)
        /\ \A i \in 1 .. Len(order) : o[i] = order[i]
    BY <1>1, <2>1, Entered
  <2>4. /\ Len(order) \in Nat /\ DOMAIN order = 1 .. Len(order)
        /\ Len(o) \in Nat /\ DOMAIN o = 1 .. Len(o)
    BY <2>1, <2>3, LenProperties DEF TypeOK
  <2>5. lastTime' = t
    BY <2>2 DEF Kept
  <2>6. PICK k \in 0 .. Len(o) :
          /\ DOMAIN s2 = DOMAIN s \ {o[i] : i \in 1 .. k}
          /\ \A i \in 1 .. k : \/ MaxAge > 0 /\ Expired(s, o[i], t)
                               \/ Overfull(s)
    BY <2>2 DEF Kept, PrunedTo
  <2>7. \A y \in DOMAIN stamps : \E i \in 1 .. Len(order) : order[i] = y /\ o[i] = y
    BY <2>1, <2>3, <2>4 DEF TypeOK, ToSet
  <2>8. \A y \in DOMAIN stamps' : y \in DOMAIN s2
    BY <2>2 DEF Kept, Without
  <2>9. CASE x \in DOMAIN s2
    <3>1. x = id /\ samples' = Append(samples, id)
      BY <1>1, <2>2, <2>9 DEF Kept, Without
    <3>2. /\ Append(samples, id) \in Seq(Ids)
          /\ Len(Append(samples, id)) = Len(samples) + 1
          /\ Append(samples, id)[Len(samples) + 1] = id
          /\ Len(samples) \in Nat
      BY <2>1, AppendProperties, LenProperties DEF TypeOK
    <3>3. id \in ToSet(Append(samples, id))
      BY <3>2, LenProperties DEF ToSet
    <3> QED
      BY <3>1, <3>3
  <2>10. CASE x \notin DOMAIN s2
    <3>1. PICK i \in 1 .. k : o[i] = x
      BY <2>3, <2>6, <2>10
    <3>2. CASE MaxAge > 0 /\ Expired(s, x, t)
      <4>1. Capture \in s[x].stages /\ t - s[x].captured > MaxAge
        BY <3>2, <2>3 DEF Expired
      <4>2. CASE x # id
        BY <3>2, <4>1, <4>2, <2>5 DEF Stamped
      <4>3. CASE x = id
        <5>1. stage # Capture
          BY <1>1, <4>3 DEF IInv, EntriesInv, Report, TypeOK, Capture, Stages
        <5>2. /\ s[x].stages = stamps[x].stages \cup {stage}
              /\ s[x].captured = stamps[x].captured
          BY <4>3, <5>1 DEF Stamped
        <5> QED
          BY <3>2, <4>1, <5>1, <5>2, <2>5
      <4> QED
        BY <4>2, <4>3
    <3>3. CASE Overfull(s)
      <4>1. Cardinality(DOMAIN stamps) = MaxInflight
        <5>1. IsFiniteSet(DOMAIN stamps)
          BY <2>1, ToSetIsFinite, FS_Subset DEF TypeOK
        <5>2. /\ Cardinality(DOMAIN stamps) \in Nat
              /\ Cardinality(DOMAIN s) <= Cardinality(DOMAIN stamps) + 1
          <6> HIDE DEF s
          <6>1. Cardinality(DOMAIN stamps) \in Nat
            BY <5>1, FS_CardinalityType
          <6>2. DOMAIN s = DOMAIN stamps \cup {id}
            BY <2>3
          <6>3. id \in DOMAIN stamps => DOMAIN s = DOMAIN stamps
            BY <6>2
          <6>4. \/ Cardinality(DOMAIN s) = Cardinality(DOMAIN stamps)
                \/ Cardinality(DOMAIN s) = Cardinality(DOMAIN stamps) + 1
            BY <5>1, <6>2, <6>3, FS_AddElement
          <6> QED
            BY <6>1, <6>4
        <5>3. Cardinality(DOMAIN s) \in Nat
          <6>1. IsFiniteSet(DOMAIN s)
            BY <5>1, <2>3, FS_AddElement
          <6> QED
            BY <6>1, FS_CardinalityType
        <5>4. MaxInflight > 0 /\ Cardinality(DOMAIN s) > MaxInflight
          BY <3>3 DEF Overfull
        <5>5. /\ MaxInflight \in Nat
              /\ Cardinality(DOMAIN stamps) <= MaxInflight
          BY <2>1, <5>4, LatencyAssumption DEF TypeOK
        <5> QED
          BY <5>2, <5>3, <5>4, <5>5
      <4>2. ASSUME NEW other \in DOMAIN stamps, other \in DOMAIN stamps'
            PROVE  \E a, b \in 1 .. Len(order) :
                     a < b /\ order[a] = x /\ order[b] = other
        <5>1. PICK a \in 1 .. Len(order) : order[a] = x /\ o[a] = x
          BY <1>1, <2>7
        <5>2. PICK b \in 1 .. Len(order) : order[b] = other /\ o[b] = other
          BY <2>7, <4>2
        <5>3. a = i
          BY <3>1, <5>1, <2>3, <2>4, <2>6 DEF IsInjective
        <5>4. b \notin 1 .. k
          BY <4>2, <5>2, <2>6, <2>8
        <5>5. a < b
          BY <5>3, <5>4, <2>4, <2>6
        <5> QED
          BY <5>1, <5>2, <5>5
      <4> QED
        BY <4>1, <4>2
    <3> QED
      BY <3>1, <3>2, <3>3, <2>6
  <2> QED
    BY <2>9, <2>10
<1>2. IInv /\ [Next]_vars => [Cause]_vars
  <2> SUFFICES ASSUME IInv, Next PROVE Cause
    OBVIOUS
  <2>1. CASE Tick
    BY <2>1 DEF Tick
  <2>2. CASE \E id \in Ids, stage \in Stages, t \in Nat : Report(stage, id, t)
    BY <1>1, <2>2
  <2> QED
    BY <2>1, <2>2, NextReports DEF IInv
<1>3. IInv /\ [Next]_vars /\ IInv' => [Cause]_vars
  BY <1>2
<1>4. Spec => [][Cause]_vars
  BY <1>3, InvHolds, PTL DEF Spec
<1> QED
  BY <1>4 DEF PrunedForCause
=============================================================================
