----------------------- MODULE ThreadSafeQueueProofs ------------------------
(***************************************************************************)
(* Theorems of ThreadSafeQueue for any finite set of threads, any capacity *)
(* and any number of items: the queue stays bounded and ordered, no wakeup *)
(* is lost and no stop is missed.  Each property is inductive once the     *)
(* types are known.  Together they make the queue the atomic buffer that   *)
(* its users take it for: LatestBuffer, as far as safety goes.             *)
(***************************************************************************)
EXTENDS ThreadSafeQueue, SequenceTheorems, FiniteSetTheorems, TLAPS

(* TRUE and FALSE are Booleans: the SMT encoding has to be told. *)
LEMMA Booleans == \A b : b = TRUE \/ b = FALSE => b \in BOOLEAN
OBVIOUS

-----------------------------------------------------------------------------
(* What push_latest makes of a queue.                                      *)

(* push_latest gives a queue over the same items, no longer than the       *)
(* capacity allows if it was not longer before.                            *)
LEMMA PushedLatestType ==
  ASSUME NEW S, NEW s \in Seq(S), NEW e \in S, NEW cap \in Nat
  PROVE  /\ PushedLatest(s, cap, e) \in Seq(S)
         /\ Len(PushedLatest(s, cap, e)) =
              IF IsFull(s, cap) THEN Len(s) ELSE Len(s) + 1
<1>. DEFINE kept == IF IsFull(s, cap) THEN Tail(s) ELSE s
<1>1. Len(s) \in Nat
  BY LenProperties
<1>2. /\ kept \in Seq(S)
      /\ Len(kept) = IF IsFull(s, cap) THEN Len(s) - 1 ELSE Len(s)
  <2>1. CASE IsFull(s, cap)
    <3>1. s # <<>>
      BY <2>1, EmptySeq DEF IsFull
    <3>. QED
      BY <2>1, <3>1, HeadTailProperties
  <2>2. CASE ~IsFull(s, cap)
    BY <2>2
  <2>. QED
    BY <2>1, <2>2
<1>3. PushedLatest(s, cap, e) = Append(kept, e)
  BY DEF PushedLatest
<1>. HIDE DEF kept
<1>4. Append(kept, e) \in Seq(S) /\ Len(Append(kept, e)) = Len(kept) + 1
  BY <1>2
<1>. QED
  BY <1>1, <1>2, <1>3, <1>4

(* Where each item is after push_latest: the new one last, and before it   *)
(* the old ones, moved up by one if the oldest had to go.                  *)
LEMMA PushedLatestItems ==
  ASSUME NEW S, NEW s \in Seq(S), NEW e \in S, NEW cap \in Nat,
         NEW i \in 1 .. Len(PushedLatest(s, cap, e))
  PROVE  PushedLatest(s, cap, e)[i] =
           IF i = Len(PushedLatest(s, cap, e)) THEN e
           ELSE IF IsFull(s, cap) THEN s[i + 1] ELSE s[i]
<1>. DEFINE kept == IF IsFull(s, cap) THEN Tail(s) ELSE s
<1>1. Len(s) \in Nat
  BY LenProperties
<1>2. CASE IsFull(s, cap)
  <2>1. s # <<>>
    BY <1>2, EmptySeq DEF IsFull
  <2>2. /\ Tail(s) \in Seq(S) /\ Len(Tail(s)) = Len(s) - 1
        /\ \A k \in 1 .. Len(s) - 1 : Tail(s)[k] = s[k + 1]
    BY <2>1, HeadTailProperties
  <2>3. PushedLatest(s, cap, e) = Append(Tail(s), e)
    BY <1>2 DEF PushedLatest
  <2>4. /\ Len(Append(Tail(s), e)) = Len(s)
        /\ \A k \in 1 .. Len(s) - 1 : Append(Tail(s), e)[k] = Tail(s)[k]
        /\ Append(Tail(s), e)[Len(s)] = e
    BY <1>1, <2>2, AppendProperties
  <2>5. i \in 1 .. Len(s)
    BY <2>3, <2>4
  <2>6. CASE i = Len(s)
    BY <2>3, <2>4, <2>6
  <2>7. CASE i # Len(s)
    <3>1. i \in 1 .. Len(s) - 1
      BY <1>1, <2>5, <2>7
    <3>2. Append(Tail(s), e)[i] = s[i + 1]
      BY <2>2, <2>4, <3>1
    <3>. QED
      BY <1>2, <2>3, <2>4, <2>7, <3>2
  <2>. QED
    BY <2>6, <2>7
<1>3. CASE ~IsFull(s, cap)
  <2>1. PushedLatest(s, cap, e) = Append(s, e)
    BY <1>3 DEF PushedLatest
  <2>. QED
    BY <1>1, <1>3, <2>1, AppendProperties
<1>. QED
  BY <1>2, <1>3

-----------------------------------------------------------------------------
(* Where the threads are.                                                  *)

(* A thread that moves leaves the place it was at and joins another. *)
LEMMA Moves ==
  ASSUME TypeOK, NEW t \in Threads, NEW place \in Places, Goto(t, place)
  PROVE  /\ pc' \in [Threads -> Places]
         /\ At(place)' = At(place) \cup {t}
         /\ \A p \in Places : p # place => At(p)' = At(p) \ {t}
BY DEF TypeOK, Goto, At

(* The threads at a place can be counted. *)
LEMMA Countable ==
  \A p \in Places : IsFiniteSet(At(p)) /\ Cardinality(At(p)) \in Nat
<1>. SUFFICES ASSUME NEW p \in Places
              PROVE  IsFiniteSet(At(p)) /\ Cardinality(At(p)) \in Nat
  OBVIOUS
<1>1. IsFiniteSet(At(p))
  BY ThreadsAssumption, FS_Subset DEF At
<1>. QED
  BY <1>1, FS_CardinalityType

(* Notifying: t leaves for "outside" and one blocked thread, if any, wakes. *)
LEMMA Notifies ==
  ASSUME TypeOK, NEW t \in Threads, NotifyOne(t)
  PROVE  /\ pc' \in [Threads -> Places]
         /\ At("notify_one")' = At("notify_one") \ {t}
         /\ t \in At("notify_one")
         /\ At("notify_all")' = At("notify_all")
         /\ \/ /\ At("blocked") = {} /\ At("blocked")' = {}
               /\ At("woken")' = At("woken")
            \/ \E b \in At("blocked") :
                 /\ At("blocked")' = At("blocked") \ {b}
                 /\ At("woken")' = At("woken") \cup {b}
                 /\ b \notin At("woken")
<1>1. CASE At("blocked") = {} /\ Goto(t, "outside")
  BY <1>1 DEF TypeOK, NotifyOne, Goto, At, Places
<1>2. ASSUME NEW b \in At("blocked"),
             pc' = [pc EXCEPT ![t] = "outside", ![b] = "woken"]
      PROVE  /\ pc' \in [Threads -> Places]
             /\ At("notify_one")' = At("notify_one") \ {t}
             /\ t \in At("notify_one")
             /\ At("notify_all")' = At("notify_all")
             /\ At("blocked")' = At("blocked") \ {b}
             /\ At("woken")' = At("woken") \cup {b}
             /\ b \notin At("woken")
  BY <1>2 DEF TypeOK, NotifyOne, At, Places
<1>. QED
  BY <1>1, <1>2 DEF NotifyOne

(* notify_all leaves nobody blocked. *)
LEMMA NotifiesAll ==
  ASSUME TypeOK, NEW t \in Threads, NotifyAll(t)
  PROVE  pc' \in [Threads -> Places] /\ At("blocked")' = {}
BY DEF TypeOK, NotifyAll, At, Places

-----------------------------------------------------------------------------
(* Types.                                                                  *)

(* An item is accepted: its number is new and the queue stays in its type. *)
LEMMA AcceptStep ==
  ASSUME TypeOK, accepted' = accepted + 1,
         \/ q' = PushedLatest(q, Capacity, accepted')
         \/ ~IsFull(q, Capacity) /\ q' = Append(q, accepted')
  PROVE  /\ accepted' \in Nat
         /\ q' = PushedLatest(q, Capacity, accepted')
         /\ q' \in Seq(Nat)
         /\ Len(q') = IF IsFull(q, Capacity) THEN Len(q) ELSE Len(q) + 1
         /\ Capacity > 0 => Len(q') <= Capacity
<1>1. accepted' \in Nat /\ Len(q) \in Nat
  BY LenProperties DEF TypeOK
<1>2. q' = PushedLatest(q, Capacity, accepted')
  BY DEF PushedLatest
<1>3. /\ q' \in Seq(Nat)
      /\ Len(q') = IF IsFull(q, Capacity) THEN Len(q) ELSE Len(q) + 1
  BY <1>1, <1>2, CapacityAssumption, PushedLatestType DEF TypeOK
<1>. QED
  BY <1>1, <1>2, <1>3, CapacityAssumption DEF TypeOK, IsFull

(* What taking the oldest item does to the queue. *)
LEMMA PopStep ==
  ASSUME TypeOK, NEW t \in Threads, PopFront(t)
  PROVE  /\ taken' = q[1] /\ taken' \in Nat
         /\ q' \in Seq(Nat) /\ Len(q) \in Nat /\ Len(q) > 0
         /\ Len(q') = Len(q) - 1
         /\ \A i \in 1 .. Len(q') : q'[i] = q[i + 1]
         /\ UNCHANGED <<stopped, accepted>>
<1>1. q # <<>> /\ q \in Seq(Nat)
  BY DEF PopFront, TypeOK
<1>2. Len(q) \in Nat /\ Len(q) # 0
  BY <1>1, EmptySeq, LenProperties
<1>3. /\ Head(q) = q[1] /\ Head(q) \in Nat
      /\ Tail(q) \in Seq(Nat) /\ Len(Tail(q)) = Len(q) - 1
      /\ \A i \in 1 .. Len(Tail(q)) : Tail(q)[i] = q[i + 1]
  BY <1>1, <1>2, HeadTailProperties
<1>. QED
  BY <1>2, <1>3 DEF PopFront

(* Every step of a thread keeps every variable in its type. *)
LEMMA TypeStep == TypeOK /\ [Next]_vars => TypeOK'
<1>. SUFFICES ASSUME TypeOK, [Next]_vars PROVE TypeOK'
  OBVIOUS
<1>. USE CapacityAssumption
<1>1. ASSUME NEW t \in Threads, Push(t) PROVE TypeOK'
  <2>1. pc' \in [Threads -> Places]
    BY <1>1, Moves DEF Push, Places
  <2>. QED
    BY <1>1, <2>1, AcceptStep DEF Push, TypeOK
<1>2. ASSUME NEW t \in Threads, PushLatest(t) PROVE TypeOK'
  <2>1. pc' \in [Threads -> Places]
    BY <1>2, Moves DEF PushLatest, Places
  <2>. QED
    BY <1>2, <2>1, AcceptStep DEF PushLatest, TypeOK
<1>3. ASSUME NEW t \in Threads, NotifyOne(t) PROVE TypeOK'
  BY <1>3, Notifies DEF NotifyOne, TypeOK
<1>4. ASSUME NEW t \in Threads, PopFront(t) PROVE TypeOK'
  <2>1. pc' \in [Threads -> Places]
    BY <1>4, Moves DEF PopFront, Places
  <2>. QED
    BY <1>4, <2>1, PopStep DEF TypeOK
<1>5. ASSUME NEW t \in Threads, WaitPop(t), ~PopFront(t) PROVE TypeOK'
  <2>1. pc' \in [Threads -> Places]
    BY <1>5, Moves DEF WaitPop, Places
  <2>. QED
    BY <1>5, <2>1 DEF WaitPop, TypeOK
<1>6. ASSUME NEW t \in Threads, SpuriousWakeup(t) PROVE TypeOK'
  <2>1. pc' \in [Threads -> Places]
    BY <1>6, Moves DEF SpuriousWakeup, Places
  <2>. QED
    BY <1>6, <2>1 DEF SpuriousWakeup, TypeOK
<1>7. ASSUME NEW t \in Threads, Stop(t) PROVE TypeOK'
  <2>1. pc' \in [Threads -> Places]
    BY <1>7, Moves DEF Stop, Places
  <2>. QED
    BY <1>7, <2>1 DEF Stop, TypeOK
<1>8. ASSUME NEW t \in Threads, NotifyAll(t) PROVE TypeOK'
  BY <1>8, NotifiesAll DEF NotifyAll, TypeOK
<1>9. ASSUME NEW t \in Threads, Reset(t) PROVE TypeOK'
  BY <1>9 DEF Reset, TypeOK
<1>10. ASSUME NEW t \in Threads, Clear(t) PROVE TypeOK'
  BY <1>10, EmptySeq DEF Clear, TypeOK
<1>11. CASE UNCHANGED vars
  BY <1>11 DEF vars, TypeOK
<1>. QED
  BY <1>1, <1>2, <1>3, <1>4, <1>5, <1>6, <1>7, <1>8, <1>9, <1>10, <1>11
     DEF Next, TryPop

(* Every variable keeps its type and a bounded queue its bound. *)
THEOREM TypeCorrect == Spec => []TypeOK
<1>1. Init => TypeOK
  <2>. SUFFICES ASSUME Init PROVE TypeOK
    OBVIOUS
  <2>1. q \in Seq(Nat) /\ Len(q) = 0
    BY EmptySeq DEF Init
  <2>2. stopped \in BOOLEAN
    BY Booleans DEF Init
  <2>3. pc \in [Threads -> Places] /\ accepted \in Nat /\ taken \in Nat
    BY DEF Init, Places
  <2>. QED
    BY <2>1, <2>2, <2>3, CapacityAssumption DEF TypeOK
<1>. QED
  BY <1>1, TypeStep, PTL DEF Spec

-----------------------------------------------------------------------------
(* Order.                                                                  *)

(* Every step keeps the queue a run of consecutive numbers up to the       *)
(* newest, later than all that was taken.                                  *)
LEMMA OrderStep == TypeOK /\ NewestInOrder /\ [Next]_vars => NewestInOrder'
<1>. SUFFICES ASSUME TypeOK, NewestInOrder, [Next]_vars PROVE NewestInOrder'
  OBVIOUS
<1>. Len(q) \in Nat /\ accepted \in Nat /\ taken \in Nat /\ q \in Seq(Nat)
  BY LenProperties DEF TypeOK
<1>1. ASSUME NEW t \in Threads, Push(t) \/ PushLatest(t) PROVE NewestInOrder'
  <2>1. /\ accepted' = accepted + 1 /\ taken' = taken /\ accepted' \in Nat
        /\ q' = PushedLatest(q, Capacity, accepted')
        /\ Len(q') = IF IsFull(q, Capacity) THEN Len(q) ELSE Len(q) + 1
    BY <1>1, AcceptStep DEF Push, PushLatest
  <2>. Len(q') \in Nat
    BY <2>1
  <2>2. ASSUME NEW i \in 1 .. Len(q')
        PROVE  q'[i] = accepted' - Len(q') + i
    <3>1. i \in 1 .. Len(PushedLatest(q, Capacity, accepted'))
      BY <2>1
    <3>2. PushedLatest(q, Capacity, accepted')[i] =
            IF i = Len(PushedLatest(q, Capacity, accepted')) THEN accepted'
            ELSE IF IsFull(q, Capacity) THEN q[i + 1] ELSE q[i]
      <4>1. \A s \in Seq(Nat), e \in Nat, cap \in Nat :
              \A k \in 1 .. Len(PushedLatest(s, cap, e)) :
                PushedLatest(s, cap, e)[k] =
                  IF k = Len(PushedLatest(s, cap, e)) THEN e
                  ELSE IF IsFull(s, cap) THEN s[k + 1] ELSE s[k]
        BY PushedLatestItems
      <4>. QED
        BY <2>1, <3>1, <4>1, CapacityAssumption
    <3>3. q'[i] = IF i = Len(q') THEN accepted'
                  ELSE IF IsFull(q, Capacity) THEN q[i + 1] ELSE q[i]
      BY <2>1, <3>2
    <3>4. \A k \in 1 .. Len(q) : q[k] = accepted - Len(q) + k
      BY DEF NewestInOrder
    <3>5. i \in Nat /\ 1 <= i /\ i <= Len(q')
      OBVIOUS
    <3>6. CASE i = Len(q')
      <4>1. q'[i] = accepted'
        BY <3>3, <3>6
      <4>2. accepted' - Len(q') + Len(q') = accepted'
        BY <2>1
      <4>. QED
        BY <3>6, <4>1, <4>2
    <3>7. CASE i # Len(q') /\ IsFull(q, Capacity)
      <4>1. i + 1 \in 1 .. Len(q)
        BY <2>1, <3>5, <3>7
      <4>. QED
        BY <2>1, <3>3, <3>4, <3>5, <3>7, <4>1
    <3>8. CASE i # Len(q') /\ ~IsFull(q, Capacity)
      <4>1. i \in 1 .. Len(q)
        BY <2>1, <3>5, <3>8
      <4>. QED
        BY <2>1, <3>3, <3>4, <3>5, <3>8, <4>1
    <3>. QED
      BY <3>6, <3>7, <3>8
  <2>. QED
    BY <2>1, <2>2 DEF NewestInOrder
<1>2. ASSUME NEW t \in Threads, PopFront(t) PROVE NewestInOrder'
  <2>1. /\ taken' = q[1] /\ Len(q) > 0 /\ Len(q') = Len(q) - 1
        /\ \A i \in 1 .. Len(q') : q'[i] = q[i + 1]
        /\ accepted' = accepted
    BY <1>2, PopStep
  <2>2. taken' = accepted - Len(q) + 1
    BY <2>1 DEF NewestInOrder
  <2>3. \A i \in 1 .. Len(q') : q'[i] = accepted - Len(q') + i
    BY <2>1 DEF NewestInOrder
  <2>. QED
    BY <2>1, <2>2, <2>3 DEF NewestInOrder
<1>3. ASSUME NEW t \in Threads, Clear(t) PROVE NewestInOrder'
  BY <1>3 DEF Clear, NewestInOrder
<1>4. CASE UNCHANGED <<q, accepted, taken>>
  BY <1>4 DEF NewestInOrder
<1>. QED
  BY <1>1, <1>2, <1>3, <1>4
     DEF Next, NotifyOne, WaitPop, SpuriousWakeup, TryPop, Stop, NotifyAll,
         Reset, vars

(* The queue always holds the newest items, in order, and no consumer is   *)
(* handed an item older than one handed out before.                        *)
THEOREM NewestKept == Spec => []NewestInOrder
<1>1. Init => NewestInOrder
  BY DEF Init, NewestInOrder
<1>. QED
  BY <1>1, OrderStep, TypeCorrect, PTL DEF Spec

-----------------------------------------------------------------------------
(* Wakeups.                                                                *)

(* Every step keeps a notify_all on its way to the threads blocked on a    *)
(* stopped queue.                                                          *)
LEMMA StopStep == TypeOK /\ NoMissedStop /\ [Next]_vars => NoMissedStop'
<1>. SUFFICES ASSUME TypeOK, NoMissedStop, [Next]_vars PROVE NoMissedStop'
  OBVIOUS
<1>. USE DEF NoMissedStop, Places
<1>1. ASSUME NEW t \in Threads, Push(t) \/ PushLatest(t) PROVE NoMissedStop'
  BY <1>1 DEF Push, PushLatest
<1>2. ASSUME NEW t \in Threads, NotifyOne(t) PROVE NoMissedStop'
  BY <1>2, Notifies DEF NotifyOne
<1>3. ASSUME NEW t \in Threads, pc[t] # "notify_all", Goto(t, "outside"),
             stopped' = stopped
      PROVE  NoMissedStop'
  <2>1. t \notin At("notify_all")
    BY <1>3 DEF At
  <2>. QED
    BY <1>3, <2>1, Moves
<1>4. ASSUME NEW t \in Threads, WaitPop(t) PROVE NoMissedStop'
  <2>1. CASE Goto(t, "outside")
    BY <1>3, <1>4, <2>1 DEF WaitPop, PopFront
  <2>2. CASE ~stopped /\ stopped' = stopped
    BY <2>2
  <2>. QED
    BY <1>4, <2>1, <2>2 DEF WaitPop, PopFront
<1>5. ASSUME NEW t \in Threads, SpuriousWakeup(t) PROVE NoMissedStop'
  <2>1. t \in At("blocked") /\ t \notin At("notify_all")
    BY <1>5 DEF SpuriousWakeup, At
  <2>. QED
    BY <1>5, <2>1, Moves DEF SpuriousWakeup
<1>6. ASSUME NEW t \in Threads, TryPop(t) PROVE NoMissedStop'
  BY <1>3, <1>6 DEF TryPop, PopFront
<1>7. ASSUME NEW t \in Threads, Stop(t) PROVE NoMissedStop'
  BY <1>7, Moves DEF Stop
<1>8. ASSUME NEW t \in Threads, NotifyAll(t) PROVE NoMissedStop'
  BY <1>8, NotifiesAll
<1>9. ASSUME NEW t \in Threads, Reset(t) PROVE NoMissedStop'
  BY <1>9 DEF Reset
<1>10. ASSUME NEW t \in Threads, Clear(t) PROVE NoMissedStop'
  BY <1>10 DEF Clear, At
<1>11. CASE UNCHANGED vars
  BY <1>11 DEF vars, At
<1>. QED
  BY <1>1, <1>2, <1>4, <1>5, <1>6, <1>7, <1>8, <1>9, <1>10, <1>11 DEF Next

(* No thread stays blocked on a stopped queue without a notification still *)
(* to come, so stop() ends every consumer's loop.                          *)
THEOREM StopsNotMissed == Spec => []NoMissedStop
<1>1. Init => NoMissedStop
  BY DEF Init, NoMissedStop, At
<1>. QED
  BY <1>1, StopStep, TypeCorrect, PTL DEF Spec

-----------------------------------------------------------------------------
(* Counting wakeups.                                                       *)

(* Adding a member to a set of threads, or taking one away. *)
LEMMA Counting ==
  ASSUME NEW S, IsFiniteSet(S), NEW x
  PROVE  /\ Cardinality(S) \in Nat
         /\ x \notin S => Cardinality(S \cup {x}) = Cardinality(S) + 1
         /\ x \in S => /\ Cardinality(S \ {x}) = Cardinality(S) - 1
                       /\ Cardinality(S) > 0
         /\ x \notin S => S \ {x} = S
<1>1. x \in S => Cardinality(S) # 0
  BY FS_EmptySet
<1>. QED
  BY <1>1, FS_AddElement, FS_RemoveElement, FS_CardinalityType

(* The threads that are about to wake or to be woken. *)
Notifying == Cardinality(At("notify_one"))
Woken     == Cardinality(At("woken"))

(* Both are numbers, before and after a step. *)
LEMMA CountsAreNumbers ==
  ASSUME TypeOK
  PROVE  /\ Notifying \in Nat /\ Woken \in Nat
         /\ Notifying' \in Nat /\ Woken' \in Nat
<1>1. \A S \in SUBSET Threads : Cardinality(S) \in Nat
  BY ThreadsAssumption, FS_Subset, FS_CardinalityType
<1>2. \A p \in Places : At(p) \subseteq Threads /\ At(p)' \subseteq Threads
  BY DEF At
<1>. QED
  BY <1>1, <1>2 DEF Notifying, Woken, Places

(* How a move of a thread that was outside, or woken, changes the counts. *)
LEMMA MoveCounts ==
  ASSUME TypeOK, NEW t \in Threads, NEW place \in Places, Goto(t, place),
         pc[t] \in {"outside", "woken", "blocked"}
  PROVE  /\ Notifying \in Nat /\ Woken \in Nat
         /\ Notifying' =
              IF place = "notify_one" THEN Notifying + 1 ELSE Notifying
         /\ place # "woken" =>
              Woken' = IF pc[t] = "woken" THEN Woken - 1 ELSE Woken
         /\ place = "woken" =>
              Woken' = IF pc[t] = "woken" THEN Woken ELSE Woken + 1
<1>1. /\ IsFiniteSet(At("notify_one")) /\ IsFiniteSet(At("woken"))
      /\ t \notin At("notify_one")
      /\ t \in At("woken") <=> pc[t] = "woken"
  BY Countable DEF Places, At
<1>2. At("notify_one")' = IF place = "notify_one" THEN At("notify_one") \cup {t}
                          ELSE At("notify_one") \ {t}
  BY Moves DEF Places
<1>3. At("woken")' = IF place = "woken" THEN At("woken") \cup {t}
                     ELSE At("woken") \ {t}
  BY Moves DEF Places
<1>4. Notifying \in Nat /\ Woken \in Nat
  BY <1>1, Counting DEF Notifying, Woken
<1>5. Notifying' = IF place = "notify_one" THEN Notifying + 1 ELSE Notifying
  BY <1>1, <1>2, Counting DEF Notifying
<1>6. CASE place = "woken"
  <2>1. CASE pc[t] = "woken"
    <3>1. At("woken")' = At("woken")
      BY <1>1, <1>3, <1>6, <2>1
    <3>. QED
      BY <1>4, <1>5, <1>6, <2>1, <3>1 DEF Woken
  <2>2. CASE pc[t] # "woken"
    BY <1>1, <1>3, <1>4, <1>5, <1>6, <2>2, Counting DEF Woken
  <2>. QED
    BY <2>1, <2>2
<1>7. CASE place # "woken"
  <2>1. At("woken")' = At("woken") \ {t}
    BY <1>3, <1>7
  <2>2. Woken' = IF t \in At("woken") THEN Woken - 1 ELSE Woken
    BY <1>1, <2>1, Counting DEF Woken
  <2>. QED
    BY <1>1, <1>4, <1>5, <1>7, <2>2
<1>. QED
  BY <1>6, <1>7

(* notify_one trades a notification for a woken thread. *)
LEMMA NotifyCounts ==
  ASSUME TypeOK, NEW t \in Threads, NotifyOne(t)
  PROVE  \/ At("blocked")' = {}
         \/ /\ At("blocked") # {}
            /\ Notifying \in Nat /\ Woken \in Nat
            /\ Notifying' = Notifying - 1 /\ Woken' = Woken + 1
<1>1. CASE At("blocked")' = {}
  BY <1>1
<1>2. CASE At("blocked")' # {}
  <2>1. PICK b \in At("blocked") :
          At("woken")' = At("woken") \cup {b} /\ b \notin At("woken")
    BY <1>2, Notifies
  <2>2. /\ IsFiniteSet(At("notify_one")) /\ IsFiniteSet(At("woken"))
        /\ t \in At("notify_one")
        /\ At("notify_one")' = At("notify_one") \ {t}
    BY Countable, Notifies DEF Places
  <2>. QED
    BY <2>1, <2>2, Counting DEF Notifying, Woken
<1>. QED
  BY <1>1, <1>2

(* Every step keeps at least as many wakeups under way as items queued,    *)
(* while a thread is blocked.                                              *)
LEMMA WakeupStep == TypeOK /\ NoLostWakeup /\ [Next]_vars => NoLostWakeup'
<1>. SUFFICES ASSUME TypeOK, NoLostWakeup, [Next]_vars PROVE NoLostWakeup'
  OBVIOUS
<1>. Len(q) \in Nat
  BY LenProperties DEF TypeOK
<1>. Notifying \in Nat /\ Woken \in Nat
  BY Countable DEF Notifying, Woken, Places
<1>0. /\ NoLostWakeup <=> (At("blocked") # {} => Len(q) <= Notifying + Woken)
      /\ NoLostWakeup' <=>
           (At("blocked")' # {} => Len(q') <= Notifying' + Woken')
  BY DEF NoLostWakeup, Notifying, Woken
<1>1. ASSUME NEW t \in Threads, Push(t) \/ PushLatest(t) PROVE NoLostWakeup'
  <2>1. Len(q') = IF IsFull(q, Capacity) THEN Len(q) ELSE Len(q) + 1
    BY <1>1, AcceptStep DEF Push, PushLatest
  <2>2. Goto(t, "notify_one") /\ pc[t] = "outside"
    BY <1>1 DEF Push, PushLatest
  <2>3. Notifying' = Notifying + 1 /\ Woken' = Woken
    BY <2>2, MoveCounts DEF Places
  <2>4. At("blocked")' = At("blocked") \ {t}
    BY <2>2, Moves DEF Places
  <2>. QED
    BY <1>0, <2>1, <2>3, <2>4
<1>2. ASSUME NEW t \in Threads, NotifyOne(t) PROVE NoLostWakeup'
  BY <1>0, <1>2, NotifyCounts DEF NotifyOne
<1>3. ASSUME NEW t \in Threads, PopFront(t), pc[t] \in {"outside", "woken"}
      PROVE  NoLostWakeup'
  <2>1. Len(q') = Len(q) - 1 /\ Len(q) > 0
    BY <1>3, PopStep
  <2>2. Goto(t, "outside")
    BY <1>3 DEF PopFront
  <2>3. Notifying' = Notifying /\ Woken' \in {Woken, Woken - 1}
    BY <1>3, <2>2, MoveCounts DEF Places
  <2>4. At("blocked")' = At("blocked") \ {t}
    BY <2>2, Moves DEF Places
  <2>. QED
    BY <1>0, <2>1, <2>3, <2>4
<1>4. ASSUME Len(q') = 0 PROVE NoLostWakeup'
  <2>1. 0 <= Notifying' + Woken'
    BY CountsAreNumbers
  <2>. QED
    BY <1>0, <1>4, <2>1
<1>5. ASSUME NEW t \in Threads, WaitPop(t) PROVE NoLostWakeup'
  <2>1. CASE PopFront(t)
    BY <1>3, <1>5, <2>1 DEF WaitPop
  <2>2. CASE q = <<>> /\ q' = q
    BY <1>4, <2>2, EmptySeq
  <2>. QED
    BY <1>5, <2>1, <2>2 DEF WaitPop
<1>6. ASSUME NEW t \in Threads, SpuriousWakeup(t) PROVE NoLostWakeup'
  <2>1. Goto(t, "woken") /\ pc[t] = "blocked" /\ q' = q
    BY <1>6 DEF SpuriousWakeup
  <2>2. Notifying' = Notifying /\ Woken' = Woken + 1
    BY <2>1, MoveCounts DEF Places
  <2>3. At("blocked") # {}
    BY <2>1 DEF At
  <2>. QED
    BY <1>0, <2>1, <2>2, <2>3
<1>7. ASSUME NEW t \in Threads, TryPop(t) PROVE NoLostWakeup'
  BY <1>3, <1>7 DEF TryPop
<1>8. ASSUME NEW t \in Threads, Stop(t) PROVE NoLostWakeup'
  <2>1. Goto(t, "notify_all") /\ pc[t] = "outside" /\ q' = q
    BY <1>8 DEF Stop
  <2>2. Notifying' = Notifying /\ Woken' = Woken
    BY <2>1, MoveCounts DEF Places
  <2>3. At("blocked")' = At("blocked") \ {t}
    BY <2>1, Moves DEF Places
  <2>. QED
    BY <1>0, <2>1, <2>2, <2>3
<1>9. ASSUME NEW t \in Threads, NotifyAll(t) PROVE NoLostWakeup'
  BY <1>0, <1>9, NotifiesAll
<1>10. ASSUME NEW t \in Threads, Reset(t) PROVE NoLostWakeup'
  BY <1>10 DEF Reset, NoLostWakeup, At
<1>11. ASSUME NEW t \in Threads, Clear(t) PROVE NoLostWakeup'
  BY <1>4, <1>11, EmptySeq DEF Clear
<1>12. CASE UNCHANGED vars
  BY <1>12 DEF vars, NoLostWakeup, At
<1>. QED
  BY <1>1, <1>2, <1>5, <1>6, <1>7, <1>8, <1>9, <1>10, <1>11, <1>12 DEF Next

(* A thread that blocks on an empty queue is woken for the items that are  *)
(* queued later: no push goes unnoticed.                                   *)
THEOREM WakeupsNotLost == Spec => []NoLostWakeup
<1>1. Init => NoLostWakeup
  BY DEF Init, NoLostWakeup, At
<1>. QED
  BY <1>1, WakeupStep, TypeCorrect, PTL DEF Spec

-----------------------------------------------------------------------------
(* The refinement.                                                         *)

(* The threads inside wait_pop: LatestBuffer's `waiting`.                  *)
Waiting == At("blocked") \cup At("woken")

(* A thread that moves is in wait_pop afterwards if it goes there.         *)
LEMMA WaitingMoves ==
  ASSUME TypeOK, NEW t \in Threads, NEW place \in Places, Goto(t, place)
  PROVE  Waiting' = IF place \in {"blocked", "woken"} THEN Waiting \cup {t}
                    ELSE Waiting \ {t}
BY Moves DEF Waiting, Places

(* Every step of the class is a step of the buffer, or one of the mutex's  *)
(* users alone, which the buffer does not see.                             *)
LEMMA BufferStep == TypeOK /\ [Next]_vars => [Buffer!Next]_(Buffer!vars)
<1>. SUFFICES ASSUME TypeOK, [Next]_vars PROVE [Buffer!Next]_(Buffer!vars)
  OBVIOUS
<1>0. /\ \A t \in Threads :
           pc[t] \in {"outside", "notify_one", "notify_all"} => t \notin Waiting
      /\ \A t \in Threads : pc[t] \in {"blocked", "woken"} => t \in Waiting
  BY DEF Waiting, At
<1>1. ASSUME NEW t \in Threads, Push(t) \/ PushLatest(t) PROVE Buffer!Accept
  <2>1. q' = PushedLatest(q, Capacity, accepted') /\ accepted' = accepted + 1
    BY <1>1, AcceptStep DEF Push, PushLatest
  <2>2. Waiting' = Waiting
    BY <1>0, <1>1, WaitingMoves DEF Push, PushLatest, Places
  <2>. QED
    BY <1>1, <2>1, <2>2
       DEF Push, PushLatest, Waiting, Buffer!Accept, Buffer!PushedLatest,
           Buffer!IsFull, PushedLatest, IsFull
<1>2. ASSUME NEW t \in Threads, NotifyOne(t) PROVE UNCHANGED Buffer!vars
  <2>1. Waiting' = Waiting
    BY <1>2, Notifies DEF Waiting
  <2>. QED
    BY <1>2, <2>1 DEF NotifyOne, Waiting, Buffer!vars
<1>3. ASSUME NEW t \in Threads, PopFront(t) PROVE Buffer!Take(t)
  <2>1. Waiting' = Waiting \ {t}
    BY <1>3, WaitingMoves DEF PopFront, Places
  <2>. QED
    BY <1>3, <2>1 DEF PopFront, Waiting, Buffer!Take
<1>4. ASSUME NEW t \in Threads, WaitPop(t), ~PopFront(t)
      PROVE  Buffer!Wait(t) \/ Buffer!Quit(t) \/ UNCHANGED Buffer!vars
  <2>1. q = <<>> /\ UNCHANGED <<q, stopped, accepted>>
    BY <1>4 DEF WaitPop
  <2>2. CASE stopped
    <3>1. Waiting' = Waiting \ {t}
      BY <1>4, <2>2, WaitingMoves DEF WaitPop, Places
    <3>2. CASE t \in Waiting
      BY <2>1, <2>2, <3>1, <3>2 DEF Waiting, Buffer!Quit
    <3>3. CASE t \notin Waiting
      BY <2>1, <3>1, <3>3 DEF Waiting, Buffer!vars
    <3>. QED
      BY <3>2, <3>3
  <2>3. CASE ~stopped
    <3>1. Waiting' = Waiting \cup {t}
      BY <1>4, <2>3, WaitingMoves DEF WaitPop, Places
    <3>. QED
      BY <2>1, <2>3, <3>1 DEF Waiting, Buffer!Wait
  <2>. QED
    BY <2>2, <2>3
<1>5. ASSUME NEW t \in Threads, SpuriousWakeup(t) PROVE UNCHANGED Buffer!vars
  <2>1. Waiting' = Waiting
    BY <1>0, <1>5, WaitingMoves DEF SpuriousWakeup, Places
  <2>. QED
    BY <1>5, <2>1 DEF SpuriousWakeup, Waiting, Buffer!vars
<1>6. ASSUME NEW t \in Threads, Stop(t) PROVE Buffer!Close
  <2>1. Waiting' = Waiting
    BY <1>0, <1>6, WaitingMoves DEF Stop, Places
  <2>. QED
    BY <1>6, <2>1 DEF Stop, Waiting, Buffer!Close
<1>7. ASSUME NEW t \in Threads, NotifyAll(t) PROVE UNCHANGED Buffer!vars
  <2>1. Waiting' = Waiting
    BY <1>7 DEF NotifyAll, Waiting, At, TypeOK, Places
  <2>. QED
    BY <1>7, <2>1 DEF NotifyAll, Waiting, Buffer!vars
<1>8. ASSUME NEW t \in Threads, Reset(t) PROVE Buffer!Reopen
  BY <1>8 DEF Reset, At, Buffer!Reopen
<1>9. ASSUME NEW t \in Threads, Clear(t) PROVE Buffer!Empty
  BY <1>9 DEF Clear, At, Buffer!Empty
<1>10. CASE UNCHANGED vars
  BY <1>10 DEF vars, At, Buffer!vars
<1>. QED
  BY <1>1, <1>2, <1>3, <1>4, <1>5, <1>6, <1>7, <1>8, <1>9, <1>10
     DEF Next, TryPop, Buffer!Next

(* The class is the atomic bounded buffer its users take it for, as far as *)
(* safety goes: no item is lost but the oldest of a full queue, handed to  *)
(* two threads or out of turn, and nobody leaves wait_pop without an item  *)
(* while the queue is open.                                                *)
THEOREM ImplementsBufferSafely == Spec => Buffer!Safe
<1>1. Init => Buffer!Init
  BY DEF Init, At, Buffer!Init
<1>. QED
  BY <1>1, BufferStep, TypeCorrect, PTL DEF Spec, Buffer!Safe
=============================================================================
