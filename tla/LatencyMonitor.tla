-------------------------- MODULE LatencyMonitor --------------------------
(***************************************************************************)
(* common/LatencyMonitor: three threads report the stages of every frame,  *)
(* each under the monitor's mutex, so a report is one step.  A frame with  *)
(* all four stages becomes a sample; entries that never complete (frames   *)
(* that were dropped on the way) are pruned by age and by count.  Commands *)
(* of the operator, of parking and of the neutral pose have ids of their   *)
(* own and report the last stage only.                                     *)
(*                                                                         *)
(* The stamps of the stages matter through the time of capture alone; the  *)
(* statistics are abstracted to the sequence of samples.                   *)
(***************************************************************************)
EXTENDS Integers, Sequences, FiniteSets, SequencesExt

CONSTANTS LastFrame,    \* bound: frames 1 .. LastFrame
          Synthetic,    \* bound: ids of commands that no frame caused
          MaxInflight,  \* Config::max_inflight_frames, 0 for no limit
          MaxAge,       \* Config::max_inflight_age, 0 to disable it
          MaxTime,      \* bound: the clock
          MaxDelay      \* bound: from taking a stamp to reporting it

ASSUME LatencyAssumption ==
  /\ LastFrame \in Nat /\ MaxTime \in Nat /\ MaxDelay \in Nat
  /\ MaxInflight \in Nat /\ MaxAge \in Nat
  /\ Synthetic \cap (1 .. LastFrame) = {}

Frames == 1 .. LastFrame
Ids    == Frames \cup Synthetic

(* onCapture, onEstimate, onControl, onActuate.                            *)
Capture == 1
Actuate == 4
Stages  == Capture .. Actuate

VARIABLES stamps,       \* stamps_: [stages, captured] of the ids in flight
          order,        \* order_
          samples,      \* the frames of the finalised samples
          now,          \* the steady clock
          lastTime,     \* history: the time the last report gave
          reached,      \* the stages each id has reported: 1 .. reached[id]
          pruned        \* history: ids that lost an entry to pruning

vars == <<stamps, order, samples, now, lastTime, reached, pruned>>

Entries == [stages : SUBSET Stages, captured : 0 .. MaxTime]

(* The monitor's types; it never has more entries than it may, and each is *)
(* in order_ exactly once, where pruning can find it.                      *)
TypeOK ==
  /\ DOMAIN stamps \subseteq Ids /\ stamps \in [DOMAIN stamps -> Entries]
  /\ MaxInflight > 0 => Cardinality(DOMAIN stamps) <= MaxInflight
  /\ order \in Seq(Ids) /\ IsInjective(order)
  /\ DOMAIN stamps \subseteq ToSet(order)
  /\ samples \in Seq(Ids)
  /\ now \in 0 .. MaxTime /\ lastTime \in 0 .. MaxTime
  /\ reached \in [Ids -> 0 .. Actuate]
  /\ pruned \subseteq Ids

-----------------------------------------------------------------------------
(* ensureEntry_ and the store of the stamp.                                *)
Stamped(id, stage, t) ==
  LET e == IF id \in DOMAIN stamps THEN stamps[id]
           ELSE [stages |-> {}, captured |-> 0]
  IN  [i \in DOMAIN stamps \cup {id} |->
         IF i # id THEN stamps[i]
         ELSE [stages   |-> e.stages \cup {stage},
               captured |-> IF stage = Capture THEN t ELSE e.captured]]

Ordered(id) == IF id \in DOMAIN stamps THEN order ELSE Append(order, id)

(* The ids of o after the first k.                                         *)
From(o, k) == SubSeq(o, k + 1, Len(o))

(* Mutant: an entry without a capture counts as captured at the start.     *)
ExpiredUncaptured(s, id, t) ==
  id \notin DOMAIN s \/ t - s[id].captured > MaxAge

(* Pruning by age pops ids that are gone or too old, up to the first that  *)
(* is neither; an entry without a capture is never too old.                *)
Expired(s, id, t) ==
  \/ id \notin DOMAIN s
  \/ Capture \in s[id].stages /\ t - s[id].captured > MaxAge

ExpiredPrefix(s, o, t) ==
  IF MaxAge = 0 THEN 0
  ELSE CHOOSE k \in 0 .. Len(o) :
         /\ \A i \in 1 .. k : Expired(s, o[i], t)
         /\ k < Len(o) => ~Expired(s, o[k + 1], t)

(* Mutant: one too many is allowed.                                        *)
CrowdedLate(s, o, k) ==
  /\ MaxInflight > 0
  /\ Cardinality(DOMAIN s \ ToSet(SubSeq(o, 1, k))) > MaxInflight + 1

(* Pruning by count pops until no more than MaxInflight are left.          *)
Crowded(s, o, k) ==
  /\ MaxInflight > 0
  /\ Cardinality(DOMAIN s \ ToSet(SubSeq(o, 1, k))) > MaxInflight

CrowdedPrefix(s, o) ==
  CHOOSE k \in 0 .. Len(o) :
    /\ ~Crowded(s, o, k)
    /\ \A j \in 0 .. k - 1 : Crowded(s, o, j)

(* The entries of s without the ids.                                       *)
Without(s, ids) == [i \in DOMAIN s \ ids |-> s[i]]

(* Mutant: the report of the last stage completes an entry.                *)
CompleteOnActuate(s, id, stage) == id \in DOMAIN s /\ stage = Actuate

(* tryFinalizeLocked_ finds all four stamps.                               *)
Complete(s, id, stage) == id \in DOMAIN s /\ s[id].stages = Stages

-----------------------------------------------------------------------------
Init ==
  /\ stamps = << >>
  /\ order = << >>
  /\ samples = << >>
  /\ now = 0
  /\ lastTime = 0
  /\ reached = [id \in Ids |-> 0]
  /\ pruned = {}

(* onCapture, onEstimate, onControl, onActuate: stamp, prune, finalise.    *)
On(stage, id, t) ==
  LET s0 == Stamped(id, stage, t)
      o0 == Ordered(id)
      k1 == ExpiredPrefix(s0, o0, t)
      s1 == Without(s0, ToSet(SubSeq(o0, 1, k1)))
      o1 == From(o0, k1)
      k2 == CrowdedPrefix(s1, o1)
      s2 == Without(s1, ToSet(SubSeq(o1, 1, k2)))
      complete == Complete(s2, id, stage)
  IN  /\ order' = From(o1, k2)
      /\ stamps' = IF complete THEN Without(s2, {id}) ELSE s2
      /\ samples' = IF complete THEN Append(samples, id) ELSE samples
      /\ pruned' = pruned \cup (DOMAIN s0 \ DOMAIN s2)
      /\ lastTime' = t

(* A frame reports its stages in turn, and each stage sees the frames in   *)
(* order: a frame that was overtaken in a queue reports no more.  The time *)
(* reported was taken before the mutex, and other threads may have come    *)
(* first.                                                                  *)
ReportFrame ==
  \E id \in Frames, t \in 0 .. now :
    LET stage == reached[id] + 1
    IN  /\ stage \in Stages
        /\ \A other \in Frames : other > id => reached[other] < stage
        /\ stage = Capture => \A other \in 1 .. id - 1 : reached[other] > 0
        /\ t >= now - MaxDelay
        /\ id \in DOMAIN stamps => t >= stamps[id].captured
        /\ On(stage, id, t)
        /\ reached' = [reached EXCEPT ![id] = stage]
        /\ UNCHANGED now

ReportCommand ==
  \E id \in Synthetic, t \in 0 .. now :
    /\ reached[id] = 0
    /\ t >= now - MaxDelay
    /\ On(Actuate, id, t)
    /\ reached' = [reached EXCEPT ![id] = Actuate]
    /\ UNCHANGED now

Tick ==
  /\ now < MaxTime
  /\ now' = now + 1
  /\ UNCHANGED <<stamps, order, samples, lastTime, reached, pruned>>

Next == ReportFrame \/ ReportCommand \/ Tick

Spec == Init /\ [][Next]_vars

-----------------------------------------------------------------------------
(* Every frame that reached the servos gives one sample, unless its entry  *)
(* was pruned on the way; samples come in the order of the frames, and a   *)
(* command that no frame caused gives none.                                *)
SampledOrPruned ==
  /\ \A id \in Frames :
       reached[id] = Actuate => id \in ToSet(samples) \cup pruned
  /\ \A i, j \in 1 .. Len(samples) : i < j => samples[i] < samples[j]
  /\ \A id \in ToSet(samples) : id \in Frames /\ reached[id] = Actuate

(* An entry is given up for a sample, for its age, or when the monitor is  *)
(* full, and then for one that came later.                                 *)
PrunedForCause ==
  [][ \A id \in DOMAIN stamps \ DOMAIN stamps' :
        \/ id \in ToSet(samples')
        \/ /\ MaxAge > 0
           /\ Capture \in stamps[id].stages
           /\ lastTime' - stamps[id].captured > MaxAge
        \/ /\ Cardinality(DOMAIN stamps) = MaxInflight
           /\ \A other \in DOMAIN stamps :
                other \notin DOMAIN stamps' \/
                \E i, j \in 1 .. Len(order) :
                  i < j /\ order[i] = id /\ order[j] = other ]_vars

(* What LatencyMonitor.hpp:49 and docs/latency_measurement.md:114 say: no  *)
(* entry stays in flight for longer than the age allowed, as of the last   *)
(* report.                                                                 *)
NothingStale ==
  MaxAge > 0 =>
    \A id \in DOMAIN stamps :
      Capture \in stamps[id].stages =>
        lastTime - stamps[id].captured <= MaxAge
=============================================================================
