--------------------------- MODULE AdmissionProofs ---------------------------
(***************************************************************************)
(* The admission controller keeps AdmissionInvariant, for every number of  *)
(* callers, every configuration of limits, reserve and queue, and every    *)
(* behaviour of the adaptive limit that AdmissionLimit allows.             *)
(***************************************************************************)
EXTENDS Admission, FiniteSetTheorems, TLAPS

(* Pressure (evaluate_pressure) never raises the limit, and keeps its bounds. *)
LEMMA PressedLimit ==
    ASSUME TypeOK, limit' = Limit!Pressed
    PROVE  limit' \in Minimum .. Maximum /\ limit' <= limit
<1>1. limit \in Nat /\ limit \div 2 \in Int /\ limit \div 2 <= limit
  BY AdmissionAssumption DEF TypeOK
<1> QED
  BY <1>1, AdmissionAssumption DEF TypeOK, Limit!Pressed, Limit!Halved

(* Whatever complete evaluates, the limit keeps its bounds.                  *)
LEMMA EvaluatedLimit ==
    ASSUME TypeOK, Evaluate
    PROVE  limit' \in Minimum .. Maximum /\ reduced' \in BOOLEAN
<1>1. CASE UNCHANGED <<limit, reduced>> BY Zenon, <1>1 DEF TypeOK
<1>2. CASE Limit!Pressure BY Zenon, <1>2, PressedLimit DEF Limit!Pressure
<1>3. CASE Limit!ClosePressed BY Zenon, <1>3, PressedLimit DEF Limit!ClosePressed
<1>4. CASE Limit!CloseQuiet BY Zenon, <1>4 DEF Limit!CloseQuiet, TypeOK
<1> QED BY Zenon, <1>1, <1>2, <1>3, <1>4 DEF Evaluate

(* Sets of callers and of control tasks are finite. *)
LEMMA FiniteParts ==
    /\ \A S \in SUBSET Callers : IsFiniteSet(S) /\ Cardinality(S) \in Nat
    /\ \A S \in SUBSET Controls : IsFiniteSet(S) /\ Cardinality(S) \in Nat
  BY Zenon, AdmissionAssumption, FS_Subset, FS_CardinalityType

(* Each waiter the loop of grant_waiters_from_locked pops takes at most one    *)
(* slot.                                                                    *)
LEMMA OpenWaitersGrow ==
    ASSUME NEW q \in Seq(Callers), NEW n \in 0 .. Len(q)
    PROVE  /\ OpenWaiters(q, n) \subseteq Callers
           /\ n = 0 => Cardinality(OpenWaiters(q, n)) = 0
           /\ n # 0 => Cardinality(OpenWaiters(q, n)) <= Cardinality(OpenWaiters(q, n - 1)) + 1
<1>1. \A m \in 0 .. Len(q) : OpenWaiters(q, m) \subseteq Callers
  BY DEF OpenWaiters
<1>2. n = 0 => OpenWaiters(q, n) = {}
  BY DEF OpenWaiters
<1>3. ASSUME n # 0
      PROVE  Cardinality(OpenWaiters(q, n)) <= Cardinality(OpenWaiters(q, n - 1)) + 1
  <2> DEFINE S == OpenWaiters(q, n - 1)
  <2>1. n - 1 \in 0 .. Len(q) BY <1>3
  <2>2. IsFiniteSet(S) /\ Cardinality(S) \in Nat BY Zenon, <1>1, <2>1, FiniteParts
  <2>3. OpenWaiters(q, n) \subseteq S \cup {q[n]}
    BY <1>3 DEF OpenWaiters
  <2>4. /\ IsFiniteSet(S \cup {q[n]})
        /\ Cardinality(S \cup {q[n]}) = IF q[n] \in S THEN Cardinality(S) ELSE Cardinality(S) + 1
    BY Zenon, <2>2, FS_AddElement
  <2>5. /\ Cardinality(OpenWaiters(q, n)) \in Nat
        /\ Cardinality(OpenWaiters(q, n)) <= Cardinality(S \cup {q[n]})
    BY Zenon, <1>1, <2>3, <2>4, FS_Subset, FiniteParts
  <2>6. Cardinality(S \cup {q[n]}) <= Cardinality(S) + 1
    BY <2>2, <2>4
  <2> HIDE DEF S
  <2>7. Cardinality(S \cup {q[n]}) \in Nat BY <2>2, <2>4
  <2> QED BY <2>2, <2>5, <2>6, <2>7 DEF S
<1> QED BY Zenon, <1>1, <1>2, <1>3, FS_EmptySet

(* The room below a limit l (desired_limit - in_flight) is what is missing to  *)
(* reach it.                                                                *)
LEMMA RoomBelow ==
    \A l, s, m \in Nat :
        s < l /\ l <= m => l - s \in Nat /\ s + (l - s) <= m /\ s + (l - s) >= l
  OBVIOUS

(* What grant_waiters_from_locked is given: a queue that all waiters but t    *)
(* are in, and as many slots as callers other than t hold.                  *)
GrantReady(q, slots, t) ==
    /\ q \in Seq(Callers) /\ Len(q) <= QueueCapacity
    /\ slots \in Nat /\ slots <= Maximum /\ slots = Cardinality(Admitted \ {t})
    /\ callers[t] # "waiting"
    /\ \A i, j \in 1 .. Len(q) : q[i] = q[j] => i = j
    /\ \A i \in 1 .. Len(q) : q[i] # t /\ callers[q[i]] \in {"waiting", "expired", "leaving"}
    /\ \A u \in Callers : callers[u] = "waiting" => \E i \in 1 .. Len(q) : q[i] = u

(* Granting from a queue (grant_waiters_from_locked) leaves the slots exact,  *)
(* within the limit, and nobody waiting while there is room.                *)
LEMMA GrantStep ==
    ASSUME callers \in [Callers -> CallerPhase], limit' \in Minimum .. Maximum,
           NEW t \in Callers, NEW phase \in {"idle", "expired", "leaving", "left"},
           NEW q, NEW slots, GrantReady(q, slots, t), GrantWaiters(q, slots, t, phase)
    PROVE  /\ callers' \in [Callers -> CallerPhase]
           /\ queue' \in Seq(Callers) /\ in_flight' \in Nat
           /\ SlotsExact' /\ QueueOnlyWhenFull'
           /\ q = <<>> => queue' = <<>> /\ in_flight' = slots
<1>1. PICK n \in 0 .. Len(q) :
         /\ Pops(q, slots, n)
         /\ queue' = SubSeq(q, n + 1, Len(q))
         /\ in_flight' = slots + Cardinality(OpenWaiters(q, n))
         /\ callers' = [u \in Callers |->
               IF u = t THEN phase ELSE IF u \in OpenWaiters(q, n) THEN "granted" ELSE callers[u]]
  BY Zenon DEF GrantWaiters
<1> DEFINE open == OpenWaiters(q, n)
           rest == SubSeq(q, n + 1, Len(q))
<1>2. /\ q \in Seq(Callers) /\ Len(q) \in Nat /\ Len(q) <= QueueCapacity
      /\ slots \in Nat /\ slots <= Maximum
      /\ limit' \in Nat /\ limit' <= Maximum /\ Maximum \in Nat /\ QueueCapacity \in Nat
  BY AdmissionAssumption DEF GrantReady
<1>n. /\ n \in Nat /\ n <= Len(q) /\ Len(q) \in Nat
      /\ slots \in Nat /\ slots <= Maximum /\ limit' \in Nat /\ limit' <= Maximum
      /\ Maximum \in Nat
  BY <1>1, <1>2
<1>r. /\ Room(slots) \in Nat /\ slots + Room(slots) <= Maximum
      /\ slots + Room(slots) >= limit'
  <2>1. CASE slots < limit'
    <3>1. Room(slots) = limit' - slots BY Zenon, <2>1 DEF Room
    <3> QED BY Zenon, <1>n, <2>1, <3>1, RoomBelow
  <2>2. CASE ~ (slots < limit')
    <3>1. Room(slots) = 0 BY Zenon, <2>2 DEF Room
    <3> QED BY <1>n, <2>2, <3>1
  <2> QED BY Zenon, <2>1, <2>2
<1>3. callers' \in [Callers -> CallerPhase]
  BY Zenon, <1>1 DEF CallerPhase
<1>4. open \subseteq Callers /\ IsFiniteSet(open) /\ Cardinality(open) \in Nat
  BY Zenon, <1>1, <1>2, OpenWaitersGrow, FiniteParts
<1>5. /\ rest \in Seq(Callers) /\ Len(rest) = Len(q) - n
      /\ \A i \in 1 .. Len(rest) : rest[i] = q[n + i] /\ n + i \in 1 .. Len(q)
  <2>1. n + 1 \in 1 .. Len(q) + 1 BY <1>n
  <2>2. rest \in Seq(Callers) /\ Len(rest) = Len(q) - n
    BY <1>2, <1>n, <2>1
  <2>3. ASSUME NEW i \in 1 .. Len(rest) PROVE rest[i] = q[n + i] /\ n + i \in 1 .. Len(q)
    BY SMTT(60), <1>2, <1>n, <2>1, <2>2
  <2> QED BY Zenon, <2>2, <2>3
<1>6. Admitted' = (Admitted \ {t}) \cup open
  <2>1. t \notin open BY Zenon, <1>2 DEF open, OpenWaiters, GrantReady
  <2>2. \A u \in Callers : u # t => (u \in Admitted' <=> u \in Admitted \/ u \in open)
    BY Zenon, <1>1, <1>4 DEF Admitted
  <2>3. t \notin Admitted' BY Zenon, <1>1 DEF Admitted
  <2> QED BY Zenon, <1>4, <2>1, <2>2, <2>3 DEF Admitted
<1>7. (Admitted \ {t}) \cap open = {}
  BY Zenon DEF Admitted, OpenWaiters
<1>8. in_flight' = Cardinality(Admitted') /\ in_flight' \in Nat
  <2>1. (Admitted \ {t}) \subseteq Callers BY Zenon DEF Admitted
  <2>2. IsFiniteSet(Admitted \ {t}) /\ Cardinality(Admitted \ {t}) \in Nat
    BY Zenon, <2>1, FiniteParts
  <2>3. Cardinality((Admitted \ {t}) \cup open) =
           Cardinality(Admitted \ {t}) + Cardinality(open) - Cardinality({})
    BY Zenon, <1>4, <1>7, <2>2, FS_Union
  <2>4. slots = Cardinality(Admitted \ {t}) BY Zenon DEF GrantReady
  <2> HIDE DEF open
  <2>5. Cardinality((Admitted \ {t}) \cup open) = slots + Cardinality(open)
    BY <1>4, <2>2, <2>3, <2>4, FS_EmptySet
  <2> QED BY <1>1, <1>2, <1>4, <1>6, <2>5 DEF open
<1>9. Cardinality(open) <= Room(slots)
  <2>1. Room(slots) \in Nat BY Zenon, <1>r
  <2>2. CASE n = 0 BY <1>2, <2>1, <2>2, OpenWaitersGrow
  <2>3. CASE n # 0
    <3>1. n - 1 \in 0 .. n - 1 /\ n - 1 \in 0 .. Len(q) BY <1>2, <2>3
    <3>2. Cardinality(OpenWaiters(q, n - 1)) < Room(slots) BY Zenon, <1>1, <3>1 DEF Pops
    <3>3. Cardinality(open) <= Cardinality(OpenWaiters(q, n - 1)) + 1
      BY Zenon, <1>1, <1>2, <2>3, OpenWaitersGrow
    <3>4. Cardinality(OpenWaiters(q, n - 1)) \in Nat
      BY Zenon, <1>2, <3>1, OpenWaitersGrow, FiniteParts
    <3> QED BY <1>4, <2>1, <3>2, <3>3, <3>4
  <2> QED BY Zenon, <2>2, <2>3
<1>10. in_flight' <= Maximum
  BY SMTT(60), <1>1, <1>n, <1>4, <1>9, <1>r
<1>11. QueueOnlyWhenFull'
  <2>1. CASE n = Len(q)
    BY <1>1, <1>2, <1>5, <2>1 DEF QueueOnlyWhenFull
  <2>2. CASE Cardinality(open) = Room(slots)
    BY Zenon, <1>1, <1>n, <1>r, <2>2 DEF QueueOnlyWhenFull
  <2> QED BY Zenon, <1>1, <2>1, <2>2 DEF Pops
<1>12. \A i \in 1 .. Len(rest) : callers'[rest[i]] \in {"waiting", "expired", "leaving"}
  <2> SUFFICES ASSUME NEW i \in 1 .. Len(rest)
               PROVE  callers'[rest[i]] \in {"waiting", "expired", "leaving"}
    BY Zenon
  <2>1. rest[i] = q[n + i] /\ n + i \in 1 .. Len(q) BY Zenon, <1>5
  <2>2. rest[i] # t /\ rest[i] \in Callers
        /\ callers[rest[i]] \in {"waiting", "expired", "leaving"}
    BY SMTT(60), <1>2, <2>1 DEF GrantReady
  <2>3. rest[i] \notin open
    <3> SUFFICES ASSUME rest[i] \in open PROVE FALSE BY Zenon
    <3>1. PICK j \in 1 .. n : q[j] = rest[i] BY Zenon DEF OpenWaiters
    <3>2. i \in Nat /\ i > 0 BY SMTT(60), <1>5
    <3>3. j \in 1 .. Len(q) /\ j # n + i BY <1>n, <3>2
    <3> QED BY Zenon, <2>1, <3>1, <3>3 DEF GrantReady
  <2> HIDE DEF rest, open
  <2> QED BY Zenon, <1>1, <2>2, <2>3 DEF open
<1>13. \A u \in Callers : callers'[u] = "waiting" => InQueue(u)'
  <2> SUFFICES ASSUME NEW u \in Callers, callers'[u] = "waiting" PROVE InQueue(u)' BY Zenon
  <2>1. u # t /\ u \notin open /\ callers[u] = "waiting" BY Zenon, <1>1
  <2>2. PICK i \in 1 .. Len(q) : q[i] = u BY Zenon, <2>1 DEF GrantReady
  <2>3. ~ (i \in 1 .. n) BY Zenon, <2>1, <2>2 DEF OpenWaiters
  <2>4. i - n \in 1 .. Len(rest) /\ rest[i - n] = u BY <1>1, <1>2, <1>5, <2>2, <2>3
  <2> QED BY Zenon, <1>1, <2>4 DEF InQueue
<1>14. \A i, j \in 1 .. Len(rest) : rest[i] = rest[j] => i = j
  <2> SUFFICES ASSUME NEW i \in 1 .. Len(rest), NEW j \in 1 .. Len(rest), rest[i] = rest[j]
               PROVE  i = j
    BY Zenon
  <2>1. n + i \in 1 .. Len(q) /\ n + j \in 1 .. Len(q) /\ q[n + i] = q[n + j] BY Zenon, <1>5
  <2>2. n + i = n + j BY Zenon, <2>1 DEF GrantReady
  <2>3. i \in Nat /\ j \in Nat BY SMTT(30), <1>5
  <2> QED BY <1>n, <2>2, <2>3
<1>15. SlotsExact'
  <2>1. Len(rest) <= QueueCapacity BY SMTT(60), <1>1, <1>2, <1>5
  <2> HIDE DEF rest
  <2> QED BY Zenon, <1>1, <1>8, <1>10, <1>12, <1>13, <1>14, <2>1 DEF SlotsExact, rest
<1>16. q = <<>> => queue' = <<>> /\ in_flight' = slots
  <2> SUFFICES ASSUME q = <<>> PROVE queue' = <<>> /\ in_flight' = slots BY ZenonT(60)
  <2>1. n = 0 BY <1>1
  <2>2. Cardinality(open) = 0 BY Zenon, <1>2, <2>1, OpenWaitersGrow
  <2> QED BY <1>1, <1>2, <1>5, <2>1, <2>2
<1> QED BY Zenon, <1>1, <1>3, <1>5, <1>8, <1>11, <1>15, <1>16

(* A step that grants waiters keeps the invariant. *)
LEMMA GrantKeeps ==
    ASSUME AdmissionInvariant, limit' \in Minimum .. Maximum, reduced' \in BOOLEAN,
           NEW t \in Callers, NEW phase \in {"idle", "expired", "leaving", "left"},
           NEW q, NEW slots, GrantReady(q, slots, t), GrantWaiters(q, slots, t, phase),
           drain \in {"checked", "done"} => q = <<>> /\ slots = 0,
           UNCHANGED <<reserve, intake, drain>>, woken' \in BOOLEAN
    PROVE  AdmissionInvariant'
<1>1. callers \in [Callers -> CallerPhase] BY Zenon DEF AdmissionInvariant, TypeOK
<1>2. /\ callers' \in [Callers -> CallerPhase]
      /\ queue' \in Seq(Callers) /\ in_flight' \in Nat
      /\ SlotsExact' /\ QueueOnlyWhenFull'
      /\ q = <<>> => queue' = <<>> /\ in_flight' = slots
  BY Zenon, <1>1, GrantStep
<1>3. TypeOK' BY Zenon, <1>2 DEF AdmissionInvariant, TypeOK, reserve
<1>4. ControlExact' BY Zenon DEF AdmissionInvariant, ControlExact, reserve
<1>5. DrainExact' BY Zenon, <1>2 DEF AdmissionInvariant, DrainExact, reserve
<1> QED BY Zenon, <1>2, <1>3, <1>4, <1>5 DEF AdmissionInvariant

(* Whoever has a slot and gives it up (complete, PermitGrant::drop) leaves one *)
(* slot less.                                                               *)
LEMMA ReadyToRelease ==
    ASSUME AdmissionInvariant, NEW t \in Callers, callers[t] \in {"forfeiting", "holding"}
    PROVE  GrantReady(queue, in_flight - 1, t) /\ drain \notin {"checked", "done"}
<1>1. Admitted \subseteq Callers /\ t \in Admitted BY Zenon DEF Admitted
<1>2. IsFiniteSet(Admitted) /\ Cardinality(Admitted) \in Nat BY Zenon, <1>1, FiniteParts
<1>3. Cardinality(Admitted \ {t}) = Cardinality(Admitted) - 1
  BY Zenon, <1>1, <1>2, FS_RemoveElement
<1>4. Admitted \ {t} \subseteq Callers BY Zenon, <1>1
<1>5. Cardinality(Admitted \ {t}) \in Nat BY Zenon, <1>4, FiniteParts
<1>6. /\ in_flight \in Nat /\ in_flight = Cardinality(Admitted) /\ in_flight <= Maximum
      /\ Maximum \in Nat
  BY Zenon, AdmissionAssumption DEF AdmissionInvariant, SlotsExact, TypeOK
<1>7. /\ in_flight - 1 \in Nat /\ in_flight - 1 <= Maximum
      /\ in_flight - 1 = Cardinality(Admitted \ {t}) /\ in_flight # 0
  BY <1>3, <1>5, <1>6
<1>8. \A i \in 1 .. Len(queue) :
         queue[i] # t /\ callers[queue[i]] \in {"waiting", "expired", "leaving"}
  BY Zenon DEF AdmissionInvariant, SlotsExact
<1>9. \A u \in Callers : callers[u] = "waiting" => \E i \in 1 .. Len(queue) : queue[i] = u
  BY Zenon DEF AdmissionInvariant, SlotsExact, InQueue
<1>10. /\ queue \in Seq(Callers) /\ Len(queue) <= QueueCapacity
       /\ \A i, j \in 1 .. Len(queue) : queue[i] = queue[j] => i = j
  BY Zenon DEF AdmissionInvariant, SlotsExact, TypeOK
<1>11. drain \notin {"checked", "done"} BY Zenon, <1>7 DEF AdmissionInvariant, DrainExact
<1> QED BY Zenon, <1>7, <1>8, <1>9, <1>10, <1>11 DEF GrantReady

(* A waiter that goes (remove_waiter) and is in the queue no more holds nothing. *)
LEMMA ReadyToLeave ==
    ASSUME AdmissionInvariant, NEW t \in Callers, callers[t] = "leaving",
           \A i \in 1 .. Len(queue) : queue[i] # t
    PROVE  GrantReady(queue, in_flight, t)
<1>1. Admitted \ {t} = Admitted BY Zenon DEF Admitted
<1>2. /\ in_flight \in Nat /\ in_flight = Cardinality(Admitted) /\ in_flight <= Maximum
      /\ queue \in Seq(Callers) /\ Len(queue) <= QueueCapacity
      /\ \A i, j \in 1 .. Len(queue) : queue[i] = queue[j] => i = j
      /\ \A i \in 1 .. Len(queue) : callers[queue[i]] \in {"waiting", "expired", "leaving"}
  BY Zenon DEF AdmissionInvariant, SlotsExact, TypeOK
<1>3. \A u \in Callers : callers[u] = "waiting" => \E i \in 1 .. Len(queue) : queue[i] = u
  BY Zenon DEF AdmissionInvariant, SlotsExact, InQueue
<1>4. callers[t] # "waiting" BY Zenon
<1> QED BY Zenon, <1>1, <1>2, <1>3, <1>4 DEF GrantReady

(* One that is still there is removed from its place (VecDeque::remove) and the *)
(* order of the others is kept.                                             *)
LEMMA ReadyToRemove ==
    ASSUME AdmissionInvariant, NEW t \in Callers, callers[t] = "leaving",
           NEW p \in 1 .. Len(queue), queue[p] = t
    PROVE  GrantReady(Without(queue, p), in_flight, t) /\ drain \notin {"checked", "done"}
<1> DEFINE q == Without(queue, p)
<1>1. /\ in_flight \in Nat /\ in_flight = Cardinality(Admitted) /\ in_flight <= Maximum
      /\ queue \in Seq(Callers) /\ Len(queue) <= QueueCapacity /\ Len(queue) \in Nat
      /\ QueueCapacity \in Nat
      /\ \A i, j \in 1 .. Len(queue) : queue[i] = queue[j] => i = j
      /\ \A i \in 1 .. Len(queue) : callers[queue[i]] \in {"waiting", "expired", "leaving"}
  BY SMTT(60), AdmissionAssumption DEF AdmissionInvariant, SlotsExact, TypeOK
<1>2. Admitted \ {t} = Admitted BY Zenon DEF Admitted
<1>3. p \in Nat /\ p >= 1 /\ p <= Len(queue) /\ Len(queue) - 1 \in Nat BY <1>1
<1>4. q \in Seq(Callers) /\ Len(q) = Len(queue) - 1
  <2>1. \A j \in 1 .. Len(queue) - 1 : (IF j < p THEN queue[j] ELSE queue[j + 1]) \in Callers
    BY <1>1, <1>3
  <2>2. q \in [1 .. Len(queue) - 1 -> Callers] BY Zenon, <2>1 DEF Without
  <2> HIDE DEF q
  <2> QED BY <1>3, <2>2
<1>5. \A j \in 1 .. Len(queue) - 1 :
         \/ j < p /\ q[j] = queue[j]
         \/ ~ (j < p) /\ q[j] = queue[j + 1]
  BY Zenon DEF Without
<1> HIDE DEF q
<1>p. \A i \in 1 .. Len(q) : \E k \in 1 .. Len(queue) :
         q[i] = queue[k] /\ ((i < p /\ k = i) \/ (~ (i < p) /\ k = i + 1))
  <2> SUFFICES ASSUME NEW i \in 1 .. Len(q)
               PROVE  \E k \in 1 .. Len(queue) :
                         q[i] = queue[k] /\ ((i < p /\ k = i) \/ (~ (i < p) /\ k = i + 1))
    BY Zenon
  <2>1. i \in 1 .. Len(queue) - 1 /\ i \in 1 .. Len(queue) /\ i + 1 \in 1 .. Len(queue)
    BY <1>3, <1>4
  <2>2. CASE i < p /\ q[i] = queue[i]
    BY Zenon, <2>1, <2>2
  <2>3. CASE ~ (i < p) /\ q[i] = queue[i + 1] BY Zenon, <2>1, <2>3
  <2> QED BY Zenon, <1>5, <2>1, <2>2, <2>3
<1>6. \A i, j \in 1 .. Len(q) : q[i] = q[j] => i = j
  <2> SUFFICES ASSUME NEW i \in 1 .. Len(q), NEW j \in 1 .. Len(q), q[i] = q[j]
               PROVE  i = j
    BY Zenon
  <2>1. PICK k \in 1 .. Len(queue) :
           q[i] = queue[k] /\ ((i < p /\ k = i) \/ (~ (i < p) /\ k = i + 1))
    BY Zenon, <1>p
  <2>2. PICK l \in 1 .. Len(queue) :
           q[j] = queue[l] /\ ((j < p /\ l = j) \/ (~ (j < p) /\ l = j + 1))
    BY Zenon, <1>p
  <2>3. k = l BY Zenon, <1>1, <2>1, <2>2
  <2> QED BY SMTT(60), <1>3, <1>4, <2>1, <2>2, <2>3
<1>7. \A i \in 1 .. Len(q) : q[i] # t /\ callers[q[i]] \in {"waiting", "expired", "leaving"}
  <2> SUFFICES ASSUME NEW i \in 1 .. Len(q)
               PROVE  q[i] # t /\ callers[q[i]] \in {"waiting", "expired", "leaving"}
    BY Zenon
  <2>1. PICK k \in 1 .. Len(queue) : q[i] = queue[k] /\ k # p
    BY SMTT(120), <1>3, <1>4, <1>5
  <2> QED BY Zenon, <1>1, <2>1
<1>8. \A u \in Callers : callers[u] = "waiting" => \E i \in 1 .. Len(q) : q[i] = u
  <2> SUFFICES ASSUME NEW u \in Callers, callers[u] = "waiting"
               PROVE  \E i \in 1 .. Len(q) : q[i] = u
    BY Zenon
  <2>1. PICK k \in 1 .. Len(queue) : queue[k] = u
    BY Zenon DEF AdmissionInvariant, SlotsExact, InQueue
  <2>2. k # p BY Zenon, <2>1
  <2>3. CASE k < p
    <3>1. k \in 1 .. Len(q) BY <1>3, <1>4, <2>3
    <3> QED BY Zenon, <1>4, <1>5, <2>1, <2>3, <3>1
  <2>4. CASE k > p
    <3>1. k - 1 \in 1 .. Len(q) /\ ~ (k - 1 < p) /\ (k - 1) + 1 = k BY <1>3, <1>4, <2>4
    <3>2. q[k - 1] = queue[k] BY Zenon, <1>3, <1>4, <1>5, <3>1
    <3> QED BY Zenon, <2>1, <3>1, <3>2
  <2> QED BY <1>3, <2>2, <2>3, <2>4
<1>9. Len(q) <= QueueCapacity BY <1>1, <1>4
<1>10. drain \notin {"checked", "done"}
  BY <1>1, <1>3 DEF AdmissionInvariant, DrainExact
<1>11. callers[t] # "waiting" BY Zenon
<1> QED BY Zenon, <1>1, <1>2, <1>4, <1>6, <1>7, <1>8, <1>9, <1>10, <1>11 DEF GrantReady, q

(* A caller that moves on without touching a slot, the queue or a permit (the  *)
(* receiver yields or is dropped, a timeout is recorded, a waiter is gone)    *)
(* keeps the invariant, though the limit may fall.                          *)
LEMMA MoveKeeps ==
    ASSUME AdmissionInvariant, NEW t \in Callers, NEW phase \in CallerPhase, Enter(t, phase),
           limit' \in Minimum .. Maximum, limit' <= limit, reduced' \in BOOLEAN,
           UNCHANGED <<in_flight, queue, reserve, intake, drain>>, woken' \in BOOLEAN,
           \/ /\ callers[t] \in {"granted", "forfeiting", "holding"}
              /\ phase \in {"granted", "forfeiting", "holding"}
           \/ callers[t] \in {"waiting", "expired"} /\ phase \in {"expired", "leaving"}
           \/ callers[t] = "left" /\ phase = "idle"
    PROVE  AdmissionInvariant'
<1>1. /\ callers \in [Callers -> CallerPhase] /\ limit \in Nat /\ in_flight \in Nat
      /\ limit' \in Nat /\ queue \in Seq(Callers)
  BY AdmissionAssumption DEF AdmissionInvariant, TypeOK
<1>2. /\ callers' \in [Callers -> CallerPhase] /\ callers'[t] = phase
      /\ \A u \in Callers : u # t => callers'[u] = callers[u]
  BY Zenon, <1>1 DEF Enter
<1>3. TypeOK' BY Zenon, <1>2 DEF AdmissionInvariant, TypeOK, reserve
<1>4. Admitted' = Admitted BY Zenon, <1>2 DEF Admitted
<1>5. SlotsExact'
  <2>1. in_flight' = Cardinality(Admitted') /\ in_flight' <= Maximum
    BY Zenon, <1>4 DEF AdmissionInvariant, SlotsExact
  <2>2. \A i \in 1 .. Len(queue) :
           queue[i] \in Callers /\ callers[queue[i]] \in {"waiting", "expired", "leaving"}
    BY <1>1 DEF AdmissionInvariant, SlotsExact
  <2>3. \A i \in 1 .. Len(queue') : callers'[queue'[i]] \in {"waiting", "expired", "leaving"}
    BY Zenon, <1>2, <2>2
  <2>4. \A u \in Callers : callers'[u] = "waiting" => InQueue(u)'
    <3>1. \A u \in Callers : callers'[u] = "waiting" => callers[u] = "waiting" BY Zenon, <1>2
    <3> QED BY Zenon, <3>1 DEF AdmissionInvariant, SlotsExact, InQueue
  <2>5. /\ \A i, j \in 1 .. Len(queue') : queue'[i] = queue'[j] => i = j
        /\ Len(queue') <= QueueCapacity
    BY ZenonT(60) DEF AdmissionInvariant, SlotsExact
  <2> QED BY Zenon, <2>1, <2>3, <2>4, <2>5 DEF SlotsExact
<1>6. QueueOnlyWhenFull' BY <1>1 DEF AdmissionInvariant, QueueOnlyWhenFull
<1>7. ControlExact' BY Zenon DEF AdmissionInvariant, ControlExact, reserve
<1>8. DrainExact' BY Zenon DEF AdmissionInvariant, DrainExact, reserve
<1> QED BY Zenon, <1>3, <1>5, <1>6, <1>7, <1>8 DEF AdmissionInvariant

(* A notification leaves a truth value. *)
LEMMA NotifyTyped == ASSUME Notify PROVE woken' \in BOOLEAN
  BY Zenon DEF Notify

(* Room and an empty queue (try_grant_locked): the permit takes one slot.    *)
LEMMA AdmitStep ==
    ASSUME AdmissionInvariant, NEW t \in Callers, Admit(t)
    PROVE  AdmissionInvariant'
<1>1. /\ callers \in [Callers -> CallerPhase] /\ callers[t] = "idle" /\ intake
      /\ in_flight \in Nat /\ limit \in Nat /\ limit <= Maximum /\ Maximum \in Nat
      /\ in_flight < limit /\ queue = <<>> /\ in_flight' = in_flight + 1
      /\ UNCHANGED <<limit, reduced, queue, reserve, intake, drain, woken>>
  BY SMTT(60), AdmissionAssumption DEF AdmissionInvariant, TypeOK, Admit, CanGrant
<1>2. /\ callers' \in [Callers -> CallerPhase] /\ callers'[t] = "holding"
      /\ \A u \in Callers : u # t => callers'[u] = callers[u]
  BY Zenon, <1>1 DEF Admit, Enter, CallerPhase
<1>3. Admitted' = Admitted \cup {t} /\ t \notin Admitted /\ Admitted \subseteq Callers
  BY Zenon, <1>1, <1>2 DEF Admitted
<1>4. IsFiniteSet(Admitted) /\ Cardinality(Admitted) \in Nat BY Zenon, <1>3, FiniteParts
<1>5. Cardinality(Admitted') = Cardinality(Admitted) + 1
  BY Zenon, <1>3, <1>4, FS_AddElement
<1>6. TypeOK' BY <1>1, <1>2 DEF AdmissionInvariant, TypeOK, reserve
<1>7. SlotsExact'
  <2>1. in_flight' = Cardinality(Admitted') /\ in_flight' <= Maximum
    BY <1>1, <1>5 DEF AdmissionInvariant, SlotsExact
  <2>2. Len(queue') = 0 /\ 1 .. Len(queue') = {} BY <1>1
  <2>3. \A u \in Callers : callers'[u] # "waiting"
    <3>1. 1 .. Len(queue) = {} BY <1>1
    <3>2. \A u \in Callers : callers[u] # "waiting"
      BY Zenon, <3>1 DEF AdmissionInvariant, SlotsExact, InQueue
    <3> QED BY Zenon, <1>2, <3>2
  <2>4. Len(queue') <= QueueCapacity BY <2>2, AdmissionAssumption
  <2> QED BY Zenon, <2>1, <2>2, <2>3, <2>4 DEF SlotsExact
<1>8. QueueOnlyWhenFull' BY Zenon, <1>1 DEF QueueOnlyWhenFull
<1>9. ControlExact' BY Zenon, <1>1 DEF AdmissionInvariant, ControlExact, reserve
<1>10. DrainExact' BY Zenon, <1>1 DEF AdmissionInvariant, DrainExact, TypeOK, DrainPhase, reserve
<1> QED BY Zenon, <1>6, <1>7, <1>8, <1>9, <1>10 DEF AdmissionInvariant

(* No room, or others before: the caller queues (acquire), if the queue has    *)
(* room.                                                                    *)
LEMMA EnqueueStep ==
    ASSUME AdmissionInvariant, NEW t \in Callers, Enqueue(t)
    PROVE  AdmissionInvariant'
<1>1. /\ callers \in [Callers -> CallerPhase] /\ callers[t] = "idle" /\ intake
      /\ in_flight \in Nat /\ limit \in Nat /\ queue \in Seq(Callers) /\ Len(queue) \in Nat
      /\ Len(queue) < QueueCapacity /\ QueueCapacity \in Nat /\ queue' = Append(queue, t)
      /\ UNCHANGED <<limit, reduced, in_flight, reserve, intake, drain, woken>>
  BY SMTT(60), AdmissionAssumption DEF AdmissionInvariant, TypeOK, Enqueue
<1>2. /\ callers' \in [Callers -> CallerPhase] /\ callers'[t] = "waiting"
      /\ \A u \in Callers : u # t => callers'[u] = callers[u]
  BY Zenon, <1>1 DEF Enqueue, Enter, CallerPhase
<1>3. /\ queue' \in Seq(Callers) /\ Len(queue') = Len(queue) + 1 /\ queue'[Len(queue) + 1] = t
      /\ \A i \in 1 .. Len(queue) : queue'[i] = queue[i]
  BY <1>1
<1>4. TypeOK' BY Zenon, <1>1, <1>2, <1>3 DEF AdmissionInvariant, TypeOK, reserve
<1>5. Admitted' = Admitted BY Zenon, <1>1, <1>2 DEF Admitted
<1>6. \A i \in 1 .. Len(queue) :
         /\ queue[i] \in Callers /\ queue[i] # t
         /\ callers[queue[i]] \in {"waiting", "expired", "leaving"}
  BY <1>1 DEF AdmissionInvariant, SlotsExact
<1>7. \A i \in 1 .. Len(queue') : i \in 1 .. Len(queue) \/ i = Len(queue) + 1
  BY <1>1, <1>3
<1>8. SlotsExact'
  <2>1. in_flight' = Cardinality(Admitted') /\ in_flight' <= Maximum
    BY Zenon, <1>1, <1>5 DEF AdmissionInvariant, SlotsExact
  <2>2. \A i \in 1 .. Len(queue') : callers'[queue'[i]] \in {"waiting", "expired", "leaving"}
    BY ZenonT(120), <1>2, <1>3, <1>6, <1>7
  <2>3. \A i, j \in 1 .. Len(queue') : queue'[i] = queue'[j] => i = j
    <3>1. \A i, j \in 1 .. Len(queue) : queue[i] = queue[j] => i = j
      BY Zenon DEF AdmissionInvariant, SlotsExact
    <3> QED BY ZenonT(60), <1>3, <1>6, <1>7, <3>1
  <2>4. \A u \in Callers : callers'[u] = "waiting" => InQueue(u)'
    <3> SUFFICES ASSUME NEW u \in Callers, callers'[u] = "waiting" PROVE InQueue(u)' BY Zenon
    <3>1. CASE u = t
      <4>1. Len(queue) + 1 \in 1 .. Len(queue') BY <1>1, <1>3
      <4> QED BY Zenon, <1>3, <3>1, <4>1 DEF InQueue
    <3>2. CASE u # t
      <4>1. PICK i \in 1 .. Len(queue) : queue[i] = u
        BY Zenon, <1>2, <3>2 DEF AdmissionInvariant, SlotsExact, InQueue
      <4>2. i \in 1 .. Len(queue') /\ queue'[i] = u BY <1>1, <1>3, <4>1
      <4> QED BY Zenon, <4>2 DEF InQueue
    <3> QED BY Zenon, <3>1, <3>2
  <2>5. Len(queue') <= QueueCapacity BY <1>1, <1>3
  <2> QED BY Zenon, <2>1, <2>2, <2>3, <2>4, <2>5 DEF SlotsExact
<1>9. QueueOnlyWhenFull'
  BY <1>1 DEF AdmissionInvariant, QueueOnlyWhenFull, Enqueue, CanGrant
<1>10. ControlExact' BY Zenon, <1>1 DEF AdmissionInvariant, ControlExact, reserve
<1>11. DrainExact' BY Zenon, <1>1 DEF AdmissionInvariant, DrainExact, TypeOK, DrainPhase, reserve
<1> QED BY Zenon, <1>4, <1>8, <1>9, <1>10, <1>11 DEF AdmissionInvariant

(* The steps of a caller. *)
LEMMA CallerStep ==
    ASSUME AdmissionInvariant, NEW t \in Callers, Caller(t)
    PROVE  AdmissionInvariant'
<1>1. /\ TypeOK /\ limit \in Minimum .. Maximum /\ reduced \in BOOLEAN /\ woken \in BOOLEAN
      /\ limit <= limit /\ callers[t] \in CallerPhase
  BY SMTT(60), AdmissionAssumption DEF AdmissionInvariant, TypeOK
<1>2. CASE Admit(t) BY Zenon, <1>2, AdmitStep
<1>3. CASE Enqueue(t) BY Zenon, <1>3, EnqueueStep
<1>4. CASE Claim(t)
  <2>1. /\ callers[t] = "granted" /\ Enter(t, "holding") /\ "holding" \in CallerPhase
        /\ UNCHANGED <<limit, reduced, in_flight, queue, reserve, intake, drain, woken>>
    BY Zenon, <1>4 DEF Claim, CallerPhase
  <2> QED BY Zenon, <1>1, <2>1, MoveKeeps
<1>5. CASE Abandon(t)
  <2>1. UNCHANGED <<limit, reduced, in_flight, queue, reserve, intake, drain, woken>>
    BY Zenon, <1>5 DEF Abandon
  <2>2. CASE callers[t] = "waiting" /\ \E phase \in {"expired", "leaving"} : Enter(t, phase)
    <3>1. PICK phase \in {"expired", "leaving"} : Enter(t, phase) BY Zenon, <2>2
    <3>2. phase \in CallerPhase BY Zenon DEF CallerPhase
    <3> QED BY Zenon, <1>1, <2>1, <2>2, <3>1, <3>2, MoveKeeps
  <2>3. CASE callers[t] = "granted" /\ Enter(t, "forfeiting")
    <3>1. "forfeiting" \in CallerPhase BY Zenon DEF CallerPhase
    <3> QED BY Zenon, <1>1, <2>1, <2>3, <3>1, MoveKeeps
  <2> QED BY Zenon, <1>5, <2>2, <2>3 DEF Abandon
<1>6. CASE Forfeit(t)
  <2>1. PICK phase \in {"expired", "leaving"} : GrantWaiters(queue, in_flight - 1, t, phase)
    BY Zenon, <1>6 DEF Forfeit
  <2>2. /\ callers[t] = "forfeiting" /\ UNCHANGED <<limit, reduced>>
        /\ UNCHANGED <<reserve, intake, drain>> /\ woken' \in BOOLEAN
    BY Zenon, <1>6, NotifyTyped DEF Forfeit
  <2>3. GrantReady(queue, in_flight - 1, t) /\ drain \notin {"checked", "done"}
    BY Zenon, <2>2, ReadyToRelease
  <2> QED BY Zenon, <1>1, <2>1, <2>2, <2>3, GrantKeeps
<1>7. CASE RecordTimeout(t)
  <2>1. /\ callers[t] = "expired" /\ Limit!Pressure /\ Enter(t, "leaving")
        /\ UNCHANGED <<in_flight, queue, reserve, intake, drain, woken>>
        /\ "leaving" \in CallerPhase
    BY Zenon, <1>7 DEF RecordTimeout, CallerPhase
  <2>2. limit' \in Minimum .. Maximum /\ limit' <= limit /\ reduced' \in BOOLEAN
    BY Zenon, <1>1, <2>1, PressedLimit DEF Limit!Pressure
  <2> QED BY Zenon, <1>1, <2>1, <2>2, MoveKeeps
<1>8. CASE Leave(t)
  <2>1. /\ callers[t] = "leaving" /\ UNCHANGED <<limit, reduced>>
        /\ UNCHANGED <<reserve, intake, drain, woken>>
    BY Zenon, <1>8 DEF Leave
  <2>2. CASE /\ \A i \in 1 .. Len(queue) : queue[i] # t
             /\ GrantWaiters(queue, in_flight, t, "left")
    <3>1. GrantReady(queue, in_flight, t) BY Zenon, <2>1, <2>2, ReadyToLeave
    <3>2. drain \in {"checked", "done"} => queue = <<>> /\ in_flight = 0
      BY Zenon DEF AdmissionInvariant, DrainExact
    <3> QED BY Zenon, <1>1, <2>1, <2>2, <3>1, <3>2, GrantKeeps
  <2>3. CASE \E i \in 1 .. Len(queue) :
                queue[i] = t /\ GrantWaiters(Without(queue, i), in_flight, t, "left")
    <3>1. PICK i \in 1 .. Len(queue) :
             queue[i] = t /\ GrantWaiters(Without(queue, i), in_flight, t, "left")
      BY Zenon, <2>3
    <3>2. GrantReady(Without(queue, i), in_flight, t) /\ drain \notin {"checked", "done"}
      BY Zenon, <2>1, <3>1, ReadyToRemove
    <3> QED BY Zenon, <1>1, <2>1, <3>1, <3>2, GrantKeeps
  <2> QED BY Zenon, <1>8, <2>2, <2>3 DEF Leave
<1>9. CASE NotifyLeft(t)
  <2>1. /\ callers[t] = "left" /\ Enter(t, "idle") /\ "idle" \in CallerPhase
        /\ UNCHANGED <<limit, reduced, in_flight, queue, reserve, intake, drain>>
        /\ woken' \in BOOLEAN
    BY Zenon, <1>9, NotifyTyped DEF NotifyLeft, CallerPhase
  <2> QED BY Zenon, <1>1, <2>1, MoveKeeps
<1>10. CASE Complete(t)
  <2>1. /\ callers[t] = "holding" /\ Evaluate /\ GrantWaiters(queue, in_flight - 1, t, "idle")
        /\ UNCHANGED <<reserve, intake, drain>> /\ woken' \in BOOLEAN
    BY Zenon, <1>10, NotifyTyped DEF Complete
  <2>2. limit' \in Minimum .. Maximum /\ reduced' \in BOOLEAN
    BY Zenon, <1>1, <2>1, EvaluatedLimit
  <2>3. GrantReady(queue, in_flight - 1, t) /\ drain \notin {"checked", "done"}
    BY Zenon, <2>1, ReadyToRelease
  <2> QED BY Zenon, <2>1, <2>2, <2>3, GrantKeeps
<1> QED
  BY Zenon, <1>2, <1>3, <1>4, <1>5, <1>6, <1>7, <1>8, <1>9, <1>10 DEF Caller

(* The control tasks that are counted in control_outstanding, and those that   *)
(* hold a slot of the reserve.                                              *)
Counted == {c \in Controls : controls[c] \in {"registered", "holding", "releasing"}}
Holding == {c \in Controls : controls[c] = "holding"}

(* A control step that keeps the counts exact keeps the invariant. *)
LEMMA ControlKeeps ==
    ASSUME AdmissionInvariant, UNCHANGED <<permits, intake, drain>>, woken' \in BOOLEAN,
           controls' \in [Controls -> ControlPhase], outstanding' \in Nat, available' \in Nat,
           outstanding' = Cardinality(Counted'),
           Reserve > 0 => available' = Reserve - Cardinality(Holding'),
           drain = "done" => outstanding' = 0
    PROVE  AdmissionInvariant'
<1>1. TypeOK' BY Zenon DEF AdmissionInvariant, TypeOK, permits
<1>2. SlotsExact' /\ QueueOnlyWhenFull'
  BY Zenon DEF AdmissionInvariant, SlotsExact, QueueOnlyWhenFull, Admitted, InQueue, permits
<1>3. ControlExact' BY Zenon DEF ControlExact, Counted, Holding
<1>4. DrainExact' BY Zenon DEF AdmissionInvariant, DrainExact, permits
<1> QED BY Zenon, <1>1, <1>2, <1>3, <1>4 DEF AdmissionInvariant

(* The steps of a control task (register_control, claim_control_slot, the drops *)
(* of ControlPermit).                                                       *)
LEMMA ControlStep ==
    ASSUME AdmissionInvariant, NEW c \in Controls, Control(c)
    PROVE  AdmissionInvariant'
<1>1. /\ controls \in [Controls -> ControlPhase] /\ outstanding \in Nat /\ available \in Nat
      /\ woken \in BOOLEAN /\ Reserve \in Nat
      /\ outstanding = Cardinality(Counted)
      /\ Reserve > 0 => available = Reserve - Cardinality(Holding)
      /\ drain = "done" => outstanding = 0
      /\ drain = "done" => ~ intake
  BY ZenonT(60), AdmissionAssumption
  DEF AdmissionInvariant, TypeOK, ControlExact, DrainExact, Counted, Holding
<1>2. Counted \subseteq Controls /\ Holding \subseteq Controls BY Zenon DEF Counted, Holding
<1>3. /\ IsFiniteSet(Counted) /\ Cardinality(Counted) \in Nat
      /\ IsFiniteSet(Holding) /\ Cardinality(Holding) \in Nat
  BY Zenon, <1>2, FiniteParts
<1>4. /\ c \notin Counted => Cardinality(Counted \cup {c}) = Cardinality(Counted) + 1
      /\ c \notin Holding => Cardinality(Holding \cup {c}) = Cardinality(Holding) + 1
  BY Zenon, <1>3, FS_AddElement
<1>5. /\ c \in Counted => Cardinality(Counted \ {c}) = Cardinality(Counted) - 1
      /\ c \in Holding => Cardinality(Holding \ {c}) = Cardinality(Holding) - 1
  BY Zenon, <1>3, FS_RemoveElement
<1>6. /\ Counted \ {c} \subseteq Controls /\ Holding \ {c} \subseteq Controls
  BY Zenon, <1>2
<1>7. Cardinality(Counted \ {c}) \in Nat /\ Cardinality(Holding \ {c}) \in Nat
  BY Zenon, <1>6, FiniteParts
<1>8. ASSUME NEW phase \in ControlPhase, EnterControl(c, phase)
      PROVE  /\ controls' \in [Controls -> ControlPhase]
             /\ Counted' = IF phase \in {"registered", "holding", "releasing"}
                           THEN Counted \cup {c} ELSE Counted \ {c}
             /\ Holding' = IF phase = "holding" THEN Holding \cup {c} ELSE Holding \ {c}
  <2>1. /\ controls' \in [Controls -> ControlPhase] /\ controls'[c] = phase
        /\ \A d \in Controls : d # c => controls'[d] = controls[d]
    BY Zenon, <1>1, <1>8 DEF EnterControl
  <2>2. Counted' = IF phase \in {"registered", "holding", "releasing"}
                   THEN Counted \cup {c} ELSE Counted \ {c}
    BY Zenon, <2>1 DEF Counted
  <2>3. Holding' = IF phase = "holding" THEN Holding \cup {c} ELSE Holding \ {c}
    BY Zenon, <2>1 DEF Holding
  <2> QED BY Zenon, <2>1, <2>2, <2>3
<1>9. CASE RegisterControl(c)
  <2>1. /\ intake /\ controls[c] = "idle" /\ outstanding' = outstanding + 1
        /\ UNCHANGED <<permits, available, intake, drain, woken>>
    BY Zenon, <1>9 DEF RegisterControl
  <2>2. PICK phase \in {"holding", "registered"} :
           EnterControl(c, phase) /\ (phase = "holding" => Reserve = 0)
    BY Zenon, <1>9 DEF RegisterControl
  <2>3. phase \in ControlPhase BY Zenon DEF ControlPhase
  <2>4. c \notin Counted /\ c \notin Holding BY Zenon, <2>1 DEF Counted, Holding
  <2>5. controls' \in [Controls -> ControlPhase] /\ Counted' = Counted \cup {c}
        /\ (phase # "holding" => Holding' = Holding \ {c})
    BY Zenon, <1>8, <2>2, <2>3
  <2>6. Holding \ {c} = Holding BY Zenon, <2>4
  <2>7. outstanding' \in Nat /\ outstanding' = Cardinality(Counted') BY <1>1, <1>4, <2>1, <2>4, <2>5
  <2>8. Reserve > 0 => available' = Reserve - Cardinality(Holding')
    BY SMTT(60), <1>1, <2>1, <2>2, <2>5, <2>6
  <2> QED BY Zenon, <1>1, <2>1, <2>5, <2>7, <2>8, ControlKeeps
<1>10. CASE ClaimControlSlot(c)
  <2>1. /\ controls[c] = "registered" /\ available > 0 /\ available' = available - 1
        /\ EnterControl(c, "holding") /\ "holding" \in ControlPhase
        /\ UNCHANGED <<permits, outstanding, intake, drain, woken>>
    BY Zenon, <1>10 DEF ClaimControlSlot, ControlPhase
  <2>2. c \in Counted /\ c \notin Holding BY Zenon, <2>1 DEF Counted, Holding
  <2>3. /\ controls' \in [Controls -> ControlPhase] /\ Counted' = Counted \cup {c}
        /\ Holding' = Holding \cup {c}
    BY Zenon, <1>8, <2>1
  <2>4. Counted \cup {c} = Counted BY Zenon, <2>2
  <2>5. available' \in Nat /\ (Reserve > 0 => available' = Reserve - Cardinality(Holding'))
    BY <1>1, <1>3, <1>4, <2>1, <2>2, <2>3
  <2> QED BY Zenon, <1>1, <2>1, <2>3, <2>4, <2>5, ControlKeeps
<1>11. CASE RefuseControl(c)
  <2>1. /\ controls[c] = "registered" /\ EnterControl(c, "releasing")
        /\ "releasing" \in ControlPhase
        /\ UNCHANGED <<permits, outstanding, available, intake, drain, woken>>
    BY Zenon, <1>11 DEF RefuseControl, ControlPhase
  <2>2. c \in Counted /\ c \notin Holding BY Zenon, <2>1 DEF Counted, Holding
  <2>3. /\ controls' \in [Controls -> ControlPhase] /\ Counted' = Counted \cup {c}
        /\ Holding' = Holding \ {c}
    BY Zenon, <1>8, <2>1
  <2>4. Counted \cup {c} = Counted /\ Holding \ {c} = Holding BY Zenon, <2>2
  <2> QED BY Zenon, <1>1, <2>1, <2>3, <2>4, ControlKeeps
<1>12. CASE ReleaseControlSlot(c)
  <2>1. /\ controls[c] = "holding" /\ EnterControl(c, "releasing") /\ "releasing" \in ControlPhase
        /\ UNCHANGED <<permits, outstanding, intake, drain, woken>>
        /\ available' = IF Reserve = 0 THEN available ELSE available + 1
    BY Zenon, <1>12 DEF ReleaseControlSlot, ControlPhase
  <2>2. c \in Counted /\ c \in Holding BY Zenon, <2>1 DEF Counted, Holding
  <2>3. /\ controls' \in [Controls -> ControlPhase] /\ Counted' = Counted \cup {c}
        /\ Holding' = Holding \ {c}
    BY Zenon, <1>8, <2>1
  <2>4. Counted \cup {c} = Counted BY Zenon, <2>2
  <2>5. available' \in Nat /\ (Reserve > 0 => available' = Reserve - Cardinality(Holding'))
    BY <1>1, <1>3, <1>5, <2>1, <2>2, <2>3
  <2> QED BY Zenon, <1>1, <2>1, <2>3, <2>4, <2>5, ControlKeeps
<1>13. CASE UncountControl(c)
  <2>1. /\ controls[c] = "releasing" /\ outstanding' = outstanding - 1
        /\ EnterControl(c, "released") /\ "released" \in ControlPhase
        /\ UNCHANGED <<permits, available, intake, drain, woken>>
    BY Zenon, <1>13 DEF UncountControl, ControlPhase
  <2>2. c \in Counted /\ c \notin Holding BY Zenon, <2>1 DEF Counted, Holding
  <2>3. /\ controls' \in [Controls -> ControlPhase] /\ Counted' = Counted \ {c}
        /\ Holding' = Holding \ {c}
    BY Zenon, <1>8, <2>1
  <2>4. Holding \ {c} = Holding BY Zenon, <2>2
  <2>5. outstanding' \in Nat /\ outstanding' = Cardinality(Counted') /\ outstanding # 0
    BY <1>1, <1>3, <1>5, <1>7, <2>1, <2>2, <2>3
  <2> QED BY Zenon, <1>1, <2>1, <2>3, <2>4, <2>5, ControlKeeps
<1>14. CASE NotifyReleased(c)
  <2>1. /\ controls[c] = "released" /\ EnterControl(c, "idle") /\ "idle" \in ControlPhase
        /\ UNCHANGED <<permits, outstanding, available, intake, drain>> /\ woken' \in BOOLEAN
    BY Zenon, <1>14, NotifyTyped DEF NotifyReleased, ControlPhase
  <2>2. c \notin Counted /\ c \notin Holding BY Zenon, <2>1 DEF Counted, Holding
  <2>3. /\ controls' \in [Controls -> ControlPhase] /\ Counted' = Counted \ {c}
        /\ Holding' = Holding \ {c}
    BY Zenon, <1>8, <2>1
  <2>4. Counted \ {c} = Counted /\ Holding \ {c} = Holding BY Zenon, <2>2
  <2> QED BY Zenon, <1>1, <2>1, <2>3, <2>4, ControlKeeps
<1> QED BY Zenon, <1>9, <1>10, <1>11, <1>12, <1>13, <1>14 DEF Control

(* The host stops intake, and the drain looks (wait_for_native_idle).         *)
LEMMA DrainStep ==
    ASSUME AdmissionInvariant, StopIntake \/ Drain
    PROVE  AdmissionInvariant'
<1>1. /\ UNCHANGED <<permits, reserve>>
      /\ drain' \in DrainPhase /\ woken' \in BOOLEAN /\ intake' \in BOOLEAN
  BY Zenon DEF AdmissionInvariant, TypeOK, StopIntake, Drain, EnableDrain, CheckPermits, CheckControl,
         DrainPhase
<1>2. TypeOK' BY Zenon, <1>1 DEF AdmissionInvariant, TypeOK, permits, reserve
<1>3. SlotsExact' /\ QueueOnlyWhenFull'
  BY Zenon, <1>1
  DEF AdmissionInvariant, SlotsExact, QueueOnlyWhenFull, Admitted, InQueue, permits
<1>4. ControlExact' BY Zenon, <1>1 DEF AdmissionInvariant, ControlExact, reserve
<1>5. /\ in_flight' = in_flight /\ queue' = queue /\ outstanding' = outstanding
      /\ DrainExact
  BY Zenon, <1>1 DEF permits, reserve, AdmissionInvariant
<1>6. DrainExact'
  <2>1. CASE StopIntake BY Zenon, <1>5, <2>1 DEF StopIntake, DrainExact
  <2>2. CASE EnableDrain BY Zenon, <1>5, <2>2 DEF EnableDrain, DrainExact
  <2>3. CASE CheckPermits BY Zenon, <1>5, <2>3 DEF CheckPermits, DrainExact
  <2>4. CASE CheckControl BY Zenon, <1>5, <2>4 DEF CheckControl, DrainExact
  <2> QED BY Zenon, <2>1, <2>2, <2>3, <2>4 DEF Drain
<1> QED BY Zenon, <1>2, <1>3, <1>4, <1>6 DEF AdmissionInvariant

(* The controller starts (try_new) with nothing admitted, queued or counted. *)
LEMMA InitStep == Init => AdmissionInvariant
<1> SUFFICES ASSUME Init PROVE AdmissionInvariant BY Zenon
<1>1. TypeOK
  <2>1. callers \in [Callers -> CallerPhase] /\ controls \in [Controls -> ControlPhase]
    BY Zenon DEF Init, CallerPhase, ControlPhase
  <2>2. limit \in Minimum .. Maximum /\ reduced \in BOOLEAN
    BY Zenon DEF Init, Limit!Init
  <2>3. in_flight \in Nat /\ outstanding \in Nat /\ available \in Nat /\ queue \in Seq(Callers)
    BY AdmissionAssumption DEF Init
  <2>4. intake \in BOOLEAN /\ drain \in DrainPhase /\ woken \in BOOLEAN
    BY Zenon DEF Init, DrainPhase
  <2> QED BY Zenon, <2>1, <2>2, <2>3, <2>4 DEF TypeOK
<1>2. Admitted = {} BY Zenon DEF Init, Admitted
<1>3. SlotsExact
  <2>1. in_flight = Cardinality(Admitted) /\ in_flight <= Maximum
    BY <1>2, FS_EmptySet, AdmissionAssumption DEF Init
  <2>2. Len(queue) = 0 /\ 1 .. Len(queue) = {} BY DEF Init
  <2>3. \A t \in Callers : callers[t] # "waiting" BY Zenon DEF Init
  <2>4. Len(queue) <= QueueCapacity BY <2>2, AdmissionAssumption
  <2> QED BY Zenon, <2>1, <2>2, <2>3, <2>4 DEF SlotsExact
<1>4. ControlExact
  <2>1. /\ {c \in Controls : controls[c] \in {"registered", "holding", "releasing"}} = {}
        /\ {c \in Controls : controls[c] = "holding"} = {}
    BY Zenon DEF Init
  <2>2. Cardinality({}) = 0 BY Zenon, FS_EmptySet
  <2>3. outstanding = 0 /\ available = Reserve /\ Reserve - 0 = Reserve
    BY AdmissionAssumption DEF Init
  <2> QED BY Zenon, <2>1, <2>2, <2>3 DEF ControlExact
<1>5. QueueOnlyWhenFull /\ DrainExact BY Zenon DEF Init, QueueOnlyWhenFull, DrainExact
<1> QED BY Zenon, <1>1, <1>3, <1>4, <1>5 DEF AdmissionInvariant

(* Every step keeps the invariant. *)
LEMMA NextStep == AdmissionInvariant /\ [Next]_vars => AdmissionInvariant'
<1> SUFFICES ASSUME AdmissionInvariant, [Next]_vars PROVE AdmissionInvariant' BY Zenon
<1>1. ASSUME NEW t \in Callers, Caller(t) PROVE AdmissionInvariant'
  BY Zenon, <1>1, CallerStep
<1>2. ASSUME NEW c \in Controls, Control(c) PROVE AdmissionInvariant'
  BY Zenon, <1>2, ControlStep
<1>3. CASE StopIntake \/ Drain BY Zenon, <1>3, DrainStep
<1>4. CASE UNCHANGED vars
  <2>1. UNCHANGED <<limit, reduced, in_flight, queue, callers>>
        /\ UNCHANGED <<outstanding, available, controls, intake, drain, woken>>
    BY Zenon, <1>4 DEF vars, permits, reserve
  <2>2. TypeOK' BY Zenon, <2>1 DEF AdmissionInvariant, TypeOK
  <2>3. SlotsExact' /\ QueueOnlyWhenFull'
    BY Zenon, <2>1 DEF AdmissionInvariant, SlotsExact, QueueOnlyWhenFull, Admitted, InQueue
  <2>4. ControlExact' BY Zenon, <2>1 DEF AdmissionInvariant, ControlExact
  <2>5. DrainExact' BY Zenon, <2>1 DEF AdmissionInvariant, DrainExact
  <2> QED BY Zenon, <2>2, <2>3, <2>4, <2>5 DEF AdmissionInvariant
<1> QED BY Zenon, <1>1, <1>2, <1>3, <1>4 DEF Next

(* The controller's counters are those of its callers (ControllerState,        *)
(* control_outstanding, control_available), whatever the limit does, whoever  *)
(* times out or is cancelled, and a drain that looked was not deceived.      *)
THEOREM AdmissionHolds == Spec => []AdmissionInvariant
<1> QED BY InitStep, NextStep, PTL DEF Spec

(* Nobody is left waiting while there is room (grant_waiters_from_locked). *)
THEOREM NoSlotWasted == Spec => []QueueOnlyWhenFull
<1>1. AdmissionInvariant => QueueOnlyWhenFull BY Zenon DEF AdmissionInvariant
<1> QED BY <1>1, AdmissionHolds, PTL

(* The work on the connection stays within the pool qualify_pool_capacity      *)
(* asks for: foreground permits within the maximum, control within the reserve. *)
THEOREM PoolNeverExceeded == Spec => []PoolBounded
<1>1. AdmissionInvariant => PoolBounded
  <2> SUFFICES ASSUME AdmissionInvariant PROVE PoolBounded BY Zenon
  <2>1. Cardinality(Admitted) <= Maximum BY Zenon DEF AdmissionInvariant, SlotsExact
  <2>2. /\ available \in Nat /\ Reserve \in Nat
        /\ Reserve > 0 => available = Reserve - Cardinality(Holding)
    BY Zenon, AdmissionAssumption DEF AdmissionInvariant, TypeOK, ControlExact, Holding
  <2>3. Holding \subseteq Controls BY Zenon DEF Holding
  <2>4. Cardinality(Holding) \in Nat BY Zenon, <2>3, FiniteParts
  <2>5. Reserve > 0 => Cardinality(Holding) <= Reserve BY <2>2, <2>4
  <2> QED BY Zenon, <2>1, <2>5 DEF PoolBounded, Holding
<1> QED BY <1>1, AdmissionHolds, PTL

(* A drain that returned (wait_for_native_idle) left the connection idle. *)
THEOREM DrainedStaysIdle == Spec => []DrainedIdle
<1>1. AdmissionInvariant => DrainedIdle
  <2> SUFFICES ASSUME AdmissionInvariant, drain = "done"
               PROVE  /\ Admitted = {} /\ queue = <<>>
                      /\ \A c \in Controls : controls[c] \notin {"registered", "holding"}
    BY Zenon DEF DrainedIdle
  <2>1. in_flight = 0 /\ queue = <<>> /\ outstanding = 0
    BY Zenon DEF AdmissionInvariant, DrainExact
  <2>2. Admitted \subseteq Callers /\ Counted \subseteq Controls BY Zenon DEF Admitted, Counted
  <2>3. IsFiniteSet(Admitted) /\ IsFiniteSet(Counted) BY Zenon, <2>2, FiniteParts
  <2>4. Cardinality(Admitted) = 0 /\ Cardinality(Counted) = 0
    BY Zenon, <2>1 DEF AdmissionInvariant, SlotsExact, ControlExact, Counted
  <2>5. Admitted = {} /\ Counted = {} BY Zenon, <2>3, <2>4, FS_EmptySet
  <2> QED BY Zenon, <2>1, <2>5 DEF Counted
<1> QED BY <1>1, AdmissionHolds, PTL

(* What one step may not do to waiter t. *)
NotOvertaken(t) ==
    callers[t] = "waiting" /\ callers'[t] = "waiting" =>
        /\ \A u \in Callers : callers[u] = "idle" => callers'[u] # "holding"
        /\ \A i, j \in 1 .. Len(queue) :
              i < j /\ queue[i] = t /\ callers[queue[j]] = "waiting"
              => callers'[queue[j]] # "granted"

(* Grants go to a prefix of the queue (grant_waiters_from_locked pops the       *)
(* front), so they overtake nobody, also after a waiter was removed.         *)
LEMMA GrantsInOrder ==
    ASSUME AdmissionInvariant, NEW t \in Callers,
           NEW s \in Callers, NEW phase \in {"idle", "expired", "leaving", "left"},
           NEW q, NEW slots, q \in Seq(Callers), GrantWaiters(q, slots, s, phase),
           \A k \in 1 .. Len(q) : \E m \in 1 .. Len(queue) : q[k] = queue[m],
           \A k, l \in 1 .. Len(q) : \A i, j \in 1 .. Len(queue) :
               i < j /\ q[k] = queue[i] /\ q[l] = queue[j] => k < l,
           \A u \in Callers : callers[u] = "waiting" => \E k \in 1 .. Len(q) : q[k] = u
    PROVE  NotOvertaken(t)
<1>1. PICK n \in 0 .. Len(q) :
         callers' = [u \in Callers |->
            IF u = s THEN phase ELSE IF u \in OpenWaiters(q, n) THEN "granted" ELSE callers[u]]
  BY Zenon DEF GrantWaiters
<1>2. \A u \in Callers : callers'[u] =
         IF u = s THEN phase ELSE IF u \in OpenWaiters(q, n) THEN "granted" ELSE callers[u]
  BY Zenon, <1>1
<1>3. \A u \in Callers : callers[u] = "idle" => callers'[u] # "holding"
  BY Zenon, <1>2
<1>4. ASSUME callers[t] = "waiting", callers'[t] = "waiting",
             NEW i \in 1 .. Len(queue), NEW j \in 1 .. Len(queue),
             i < j, queue[i] = t, callers[queue[j]] = "waiting", callers'[queue[j]] = "granted"
      PROVE  FALSE
  <2>1. queue[j] \in Callers BY SMTT(60) DEF AdmissionInvariant, TypeOK
  <2>2. queue[j] \in OpenWaiters(q, n) BY Zenon, <1>2, <1>4, <2>1
  <2>3. PICK l \in 1 .. n : q[l] = queue[j] BY ZenonT(60), <2>2 DEF OpenWaiters
  <2>4. PICK k \in 1 .. Len(q) : q[k] = t BY Zenon, <1>4
  <2>5. Len(q) \in Nat /\ l \in 1 .. Len(q) OBVIOUS
  <2>6. k < l BY ZenonT(60), <1>4, <2>3, <2>4, <2>5
  <2>7. k \in 1 .. n BY <2>5, <2>6
  <2>8. t \in OpenWaiters(q, n) BY SMTT(60), <1>4, <2>4, <2>7 DEF OpenWaiters
  <2> QED BY Zenon, <1>2, <1>4, <2>8
<1> QED BY Zenon, <1>3, <1>4 DEF NotOvertaken

(* A caller's step overtakes no waiter: try_grant_locked admits only when the   *)
(* queue is empty, and grants are in order.                                 *)
LEMMA CallerInOrder ==
    ASSUME AdmissionInvariant, NEW t \in Callers, NEW s \in Callers, Caller(s)
    PROVE  NotOvertaken(t)
<1>1. /\ callers \in [Callers -> CallerPhase] /\ queue \in Seq(Callers) /\ Len(queue) \in Nat
      /\ \A i, j \in 1 .. Len(queue) : queue[i] = queue[j] => i = j
  BY SMTT(60) DEF AdmissionInvariant, TypeOK, SlotsExact
<1>2. \A u \in Callers : callers[u] = "waiting" => \E i \in 1 .. Len(queue) : queue[i] = u
  BY Zenon DEF AdmissionInvariant, SlotsExact, InQueue
<1>3. ASSUME NEW phase, Enter(s, phase), phase # "granted",
             callers[s] = "idle" /\ phase = "holding" => queue = <<>>
      PROVE  NotOvertaken(t)
  <2>1. \A u \in Callers : callers'[u] = IF u = s THEN phase ELSE callers[u]
    BY Zenon, <1>1, <1>3 DEF Enter
  <2>2. \A u \in Callers : callers[u] = "waiting" => callers'[u] # "granted"
    BY Zenon, <1>3, <2>1
  <2>3. \A i \in 1 .. Len(queue) : queue[i] \in Callers BY <1>1
  <2>4. ASSUME callers[t] = "waiting", NEW u \in Callers, callers[u] = "idle",
               callers'[u] = "holding"
        PROVE  FALSE
    <3>1. u = s /\ phase = "holding" BY Zenon, <2>1, <2>4
    <3>2. 1 .. Len(queue) = {} BY <1>1, <1>3, <2>4, <3>1
    <3> QED BY Zenon, <1>2, <2>4, <3>2
  <2> QED BY Zenon, <2>2, <2>3, <2>4 DEF NotOvertaken
<1>4. ASSUME NEW slots, NEW phase \in {"idle", "expired", "leaving", "left"},
             GrantWaiters(queue, slots, s, phase)
      PROVE  NotOvertaken(t)
  <2>1. \A k \in 1 .. Len(queue) : \E m \in 1 .. Len(queue) : queue[k] = queue[m]
    BY ZenonT(60)
  <2>2. \A k, l \in 1 .. Len(queue) : \A i, j \in 1 .. Len(queue) :
           i < j /\ queue[k] = queue[i] /\ queue[l] = queue[j] => k < l
    BY Zenon, <1>1
  <2> QED BY SMTT(60), <1>1, <1>2, <1>4, <2>1, <2>2, GrantsInOrder
<1>5. ASSUME NEW p \in 1 .. Len(queue), queue[p] = s, callers[s] = "leaving",
             GrantWaiters(Without(queue, p), in_flight, s, "left")
      PROVE  NotOvertaken(t)
  <2> DEFINE q == Without(queue, p)
  <2>1. /\ q \in Seq(Callers)
        /\ \A u \in Callers : callers[u] = "waiting" => \E k \in 1 .. Len(q) : q[k] = u
    <3>1. GrantReady(q, in_flight, s) BY Zenon, <1>5, ReadyToRemove
    <3> HIDE DEF q
    <3> QED BY Zenon, <3>1 DEF GrantReady
  <2>2. Len(q) = Len(queue) - 1 /\ p \in Nat
    BY <1>1 DEF Without
  <2>3. \A k \in 1 .. Len(queue) - 1 : q[k] = IF k < p THEN queue[k] ELSE queue[k + 1]
    BY Zenon DEF Without
  <2> HIDE DEF q
  <2>4. ASSUME NEW k \in 1 .. Len(q)
        PROVE  \E m \in 1 .. Len(queue) : q[k] = queue[m] /\ (m = k \/ m = k + 1)
                                          /\ (m = k => k < p) /\ (m = k + 1 => ~ (k < p))
    <3>1. k \in 1 .. Len(queue) - 1 /\ k \in 1 .. Len(queue) /\ k + 1 \in 1 .. Len(queue)
          /\ k # k + 1
      BY <1>1, <2>2
    <3>2. CASE k < p BY Zenon, <2>3, <3>1, <3>2
    <3>3. CASE ~ (k < p) BY Zenon, <2>3, <3>1, <3>3
    <3> QED BY Zenon, <3>2, <3>3
  <2>5. ASSUME NEW k \in 1 .. Len(q), NEW l \in 1 .. Len(q),
               NEW i \in 1 .. Len(queue), NEW j \in 1 .. Len(queue),
               i < j, q[k] = queue[i], q[l] = queue[j]
        PROVE  k < l
    <3>1. (i = k \/ i = k + 1) /\ (i = k => k < p) /\ (i = k + 1 => ~ (k < p))
      BY ZenonT(60), <1>1, <2>4, <2>5
    <3>2. (j = l \/ j = l + 1) /\ (j = l => l < p) /\ (j = l + 1 => ~ (l < p))
      BY ZenonT(60), <1>1, <2>4, <2>5
    <3>3. k \in Nat /\ l \in Nat /\ i \in Nat /\ j \in Nat BY <1>1, <2>2
    <3> QED BY SMTT(60), <2>2, <2>5, <3>1, <3>2, <3>3
  <2>6. \A k \in 1 .. Len(q) : \E m \in 1 .. Len(queue) : q[k] = queue[m]
    BY Zenon, <2>4
  <2>7. GrantWaiters(q, in_flight, s, "left") BY Zenon, <1>5 DEF q
  <2>8. \A k, l \in 1 .. Len(q) : \A i, j \in 1 .. Len(queue) :
           i < j /\ q[k] = queue[i] /\ q[l] = queue[j] => k < l
    BY Zenon, <2>5
  <2> QED BY ZenonT(120), <2>1, <2>6, <2>7, <2>8, GrantsInOrder
<1>6. CASE Admit(s) BY Zenon, <1>3, <1>6 DEF Admit, CanGrant
<1>7. CASE Enqueue(s) BY Zenon, <1>3, <1>7 DEF Enqueue
<1>8. CASE Claim(s) BY Zenon, <1>3, <1>8 DEF Claim
<1>9. CASE Abandon(s) BY Zenon, <1>3, <1>9 DEF Abandon
<1>10. CASE Forfeit(s) BY Zenon, <1>4, <1>10 DEF Forfeit
<1>11. CASE RecordTimeout(s) BY Zenon, <1>3, <1>11 DEF RecordTimeout
<1>12. CASE Leave(s) BY Zenon, <1>4, <1>5, <1>12 DEF Leave
<1>13. CASE NotifyLeft(s) BY Zenon, <1>3, <1>13 DEF NotifyLeft
<1>14. CASE Complete(s) BY Zenon, <1>4, <1>14 DEF Complete
<1> QED
  BY Zenon, <1>6, <1>7, <1>8, <1>9, <1>10, <1>11, <1>12, <1>13, <1>14 DEF Caller

(* A waiter is overtaken neither by one behind it nor by a caller that finds   *)
(* room (acquire, try_acquire, grant_waiters_from_locked).                  *)
THEOREM WaitersInOrder == Spec => NoOvertaking
<1>1. ASSUME AdmissionInvariant, Next, NEW t \in Callers PROVE NotOvertaken(t)
  <2>1. ASSUME NEW s \in Callers, Caller(s) PROVE NotOvertaken(t)
    BY Zenon, <1>1, <2>1, CallerInOrder
  <2>2. CASE StopIntake \/ Drain \/ \E c \in Controls : Control(c)
    <3>1. UNCHANGED permits
      BY Zenon, <2>2
      DEF StopIntake, Drain, EnableDrain, CheckPermits, CheckControl, Control, RegisterControl,
          ClaimControlSlot, RefuseControl, ReleaseControlSlot, UncountControl, NotifyReleased
    <3>2. callers' = callers BY Zenon, <3>1 DEF permits
    <3> QED BY Zenon, <3>2 DEF NotOvertaken
  <2> QED BY Zenon, <1>1, <2>1, <2>2 DEF Next
<1>2. AdmissionInvariant /\ [Next]_vars =>
         [\A t \in Callers : callers[t] = "waiting" /\ callers'[t] = "waiting" =>
             /\ \A u \in Callers : callers[u] = "idle" => callers'[u] # "holding"
             /\ \A i, j \in 1 .. Len(queue) :
                   i < j /\ queue[i] = t /\ callers[queue[j]] = "waiting"
                   => callers'[queue[j]] # "granted"]_vars
  BY Zenon, <1>1 DEF NotOvertaken
<1> QED BY <1>2, AdmissionHolds, PTL DEF Spec, NoOvertaking
=============================================================================
