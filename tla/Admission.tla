----------------------------- MODULE Admission -----------------------------
(***************************************************************************)
(* The admission controller of crates/storage/src/admission: the permits   *)
(* of foreground work, the bounded queue of callers that wait for one with *)
(* a deadline and may be cancelled, the reserved slots of control work and *)
(* the drain that waits for the connection to be idle.  One action is one  *)
(* critical section of the controller's mutex, one atomic operation, or    *)
(* one notification.                                                       *)
(***************************************************************************)
EXTENDS Integers, Sequences, FiniteSets

CONSTANTS
    Callers,           \* tasks that acquire foreground permits
    Controls,          \* tasks that acquire control permits
    Minimum, Maximum,  \* minimum_concurrency, effective_maximum
    Reserve,           \* control_reserve_concurrency
    QueueCapacity

ASSUME AdmissionAssumption ==
    /\ IsFiniteSet(Callers) /\ IsFiniteSet(Controls)
    /\ Minimum \in Nat \ {0} /\ Maximum \in Nat /\ Minimum <= Maximum
    /\ Reserve \in Nat /\ QueueCapacity \in Nat

VARIABLES
    limit, reduced,  \* desired_limit, Window::emergency_reduction_applied
    in_flight,
    queue,           \* the callers that have a Waiter in the queue
    callers,         \* where each caller is in acquire or with its permit
    outstanding,     \* control_outstanding
    available,       \* free slots of the control_available semaphore
    controls,        \* where each control task is
    intake,          \* the host has not stopped intake
    drain, woken     \* wait_for_native_idle and its Notified

permits == <<limit, reduced, in_flight, queue, callers>>
reserve == <<outstanding, available, controls>>
vars == <<permits, reserve, intake, drain, woken>>

(* waiting: in the queue, the receiver open; granted: the grant is in the     *)
(* channel; forfeiting: the receiver was dropped with the grant in it;        *)
(* expired, leaving: the receiver is closed, the timeout is not yet recorded, *)
(* or only the guard is left; left: the waiter is removed.                   *)
CallerPhase ==
    {"idle", "waiting", "granted", "forfeiting", "expired", "leaving", "left", "holding"}

(* registered: counted in control_outstanding, without a slot; releasing:     *)
(* about to be uncounted; released: about to notify.                        *)
ControlPhase == {"idle", "registered", "holding", "releasing", "released"}

(* enabled: registered with native_idle; checked: the permits are idle, the   *)
(* control count is to be read; waiting: for a notification.                *)
DrainPhase == {"off", "enabled", "checked", "waiting", "done"}

TypeOK ==
    /\ limit \in Minimum .. Maximum /\ reduced \in BOOLEAN
    /\ in_flight \in Nat
    /\ queue \in Seq(Callers)
    /\ callers \in [Callers -> CallerPhase]
    /\ outstanding \in Nat /\ available \in Nat
    /\ controls \in [Controls -> ControlPhase]
    /\ intake \in BOOLEAN
    /\ drain \in DrainPhase /\ woken \in BOOLEAN

Limit == INSTANCE AdmissionLimit

Init ==
    /\ Limit!Init
    /\ in_flight = 0
    /\ queue = <<>>
    /\ callers = [t \in Callers |-> "idle"]
    /\ outstanding = 0 /\ available = Reserve
    /\ controls = [c \in Controls |-> "idle"]
    /\ intake = TRUE
    /\ drain = "off" /\ woken = FALSE

-----------------------------------------------------------------------------
(* native_idle.notify_waiters: wakes a drain that is registered. *)
Notify == woken' = (woken \/ drain \in {"enabled", "checked", "waiting"})

Enter(t, phase) == callers' = [callers EXCEPT ![t] = phase]

(* The waiters among the first n of the queue whose receiver is open. *)
OpenWaiters(q, n) == {t \in {q[i] : i \in 1 .. n} : callers[t] = "waiting"}

Room(slots) == IF slots < limit' THEN limit' - slots ELSE 0

(* How many the loop of grant_waiters_from_locked pops: until the limit is    *)
(* reached by grants that were sent, or the queue is empty.                 *)
Pops(q, slots, n) ==
    /\ \/ n = Len(q)
       \/ Cardinality(OpenWaiters(q, n)) = Room(slots)
    /\ \A m \in 0 .. n - 1 : Cardinality(OpenWaiters(q, m)) < Room(slots)

(* Mutation: the newest waiters are served first. *)
GrantNewest(q, slots, t, phase) ==
    LET reversed == [i \in 1 .. Len(q) |-> q[Len(q) + 1 - i]] IN
    \E n \in 0 .. Len(q) :
        /\ Pops(reversed, slots, n)
        /\ queue' = SubSeq(q, 1, Len(q) - n)
        /\ in_flight' = slots + Cardinality(OpenWaiters(reversed, n))
        /\ callers' = [u \in Callers |->
              IF u = t THEN phase
              ELSE IF u \in OpenWaiters(reversed, n) THEN "granted"
              ELSE callers[u]]

(* grant_waiters_from_locked on queue q with that many slots taken.  A grant  *)
(* to a closed receiver comes back and is reclaimed, with a notification      *)
(* that Forfeit and Complete give anyway and Leave, where nothing is popped   *)
(* (QueueOnlyWhenFull), never needs.  Caller t goes on to the given phase.   *)
GrantWaiters(q, slots, t, phase) ==
    \E n \in 0 .. Len(q) :
        /\ Pops(q, slots, n)
        /\ queue' = SubSeq(q, n + 1, Len(q))
        /\ in_flight' = slots + Cardinality(OpenWaiters(q, n))
        /\ callers' = [u \in Callers |->
              IF u = t THEN phase
              ELSE IF u \in OpenWaiters(q, n) THEN "granted"
              ELSE callers[u]]

-----------------------------------------------------------------------------
(* Foreground permits                                                      *)

(* Mutation: one more than the limit. *)
CanGrantOneMore == in_flight <= limit /\ queue = <<>>

(* try_grant_locked: nobody overtakes the queue. *)
CanGrant == in_flight < limit /\ queue = <<>>

(* acquire and try_acquire when there is room.  A refusal for a full queue    *)
(* changes nothing.                                                         *)
Admit(t) ==
    /\ intake /\ callers[t] = "idle" /\ CanGrant
    /\ in_flight' = in_flight + 1
    /\ Enter(t, "holding")
    /\ UNCHANGED <<limit, reduced, queue, reserve, intake, drain, woken>>

(* acquire when there is none *)
Enqueue(t) ==
    /\ intake /\ callers[t] = "idle" /\ ~ CanGrant /\ Len(queue) < QueueCapacity
    /\ queue' = Append(queue, t)
    /\ Enter(t, "waiting")
    /\ UNCHANGED <<limit, reduced, in_flight, reserve, intake, drain, woken>>

(* The receiver yields the grant: the guard is disarmed, the permit claimed. *)
Claim(t) ==
    /\ callers[t] = "granted"
    /\ Enter(t, "holding")
    /\ UNCHANGED <<limit, reduced, in_flight, queue, reserve, intake, drain, woken>>

(* The wait times out, or the caller is dropped: the receiver goes, perhaps   *)
(* with a grant that was sent after it was last polled.                     *)
Abandon(t) ==
    /\ \/ callers[t] = "waiting" /\ \E phase \in {"expired", "leaving"} : Enter(t, phase)
       \/ callers[t] = "granted" /\ Enter(t, "forfeiting")
    /\ UNCHANGED <<limit, reduced, in_flight, queue, reserve, intake, drain, woken>>

(* PermitGrant::drop *)
Forfeit(t) ==
    /\ callers[t] = "forfeiting"
    /\ UNCHANGED <<limit, reduced>>
    /\ \E phase \in {"expired", "leaving"} : GrantWaiters(queue, in_flight - 1, t, phase)
    /\ Notify
    /\ UNCHANGED <<reserve, intake, drain>>

(* The timeout arm of acquire: a queue timeout is pressure. *)
RecordTimeout(t) ==
    /\ callers[t] = "expired"
    /\ Limit!Pressure
    /\ Enter(t, "leaving")
    /\ UNCHANGED <<in_flight, queue, reserve, intake, drain, woken>>

(* Mutation: whoever is first is removed. *)
WithoutFirst(q, i) == Tail(q)

Without(q, i) == [j \in 1 .. Len(q) - 1 |-> IF j < i THEN q[j] ELSE q[j + 1]]

(* WaiterGuard::drop: remove_waiter up to the end of its critical section. *)
Leave(t) ==
    /\ callers[t] = "leaving"
    /\ UNCHANGED <<limit, reduced>>
    /\ \/ /\ \A i \in 1 .. Len(queue) : queue[i] # t
          /\ GrantWaiters(queue, in_flight, t, "left")
       \/ \E i \in 1 .. Len(queue) :
             /\ queue[i] = t
             /\ GrantWaiters(Without(queue, i), in_flight, t, "left")
    /\ UNCHANGED <<reserve, intake, drain, woken>>

(* Its notification comes after the lock. *)
NotifyLeft(t) ==
    /\ callers[t] = "left"
    /\ Enter(t, "idle")
    /\ Notify
    /\ UNCHANGED <<limit, reduced, in_flight, queue, reserve, intake, drain>>

(* complete decides whether the window is over and whether the outcome is     *)
(* pressure.                                                                *)
Evaluate ==
    \/ UNCHANGED <<limit, reduced>>
    \/ Limit!Pressure
    \/ Limit!ClosePressed
    \/ Limit!CloseQuiet

(* Mutation: the slot is released, the waiters are not looked at. *)
CompleteQuietly(t) ==
    /\ callers[t] = "holding"
    /\ Evaluate
    /\ in_flight' = in_flight - 1
    /\ Enter(t, "idle")
    /\ Notify
    /\ UNCHANGED <<queue, reserve, intake, drain>>

(* AdmissionPermit::complete, or its drop: the slot is released once, and the *)
(* waiters get what the new limit allows.                                   *)
Complete(t) ==
    /\ callers[t] = "holding"
    /\ Evaluate
    /\ GrantWaiters(queue, in_flight - 1, t, "idle")
    /\ Notify
    /\ UNCHANGED <<reserve, intake, drain>>

-----------------------------------------------------------------------------
(* Control permits                                                         *)

EnterControl(c, phase) == controls' = [controls EXCEPT ![c] = phase]

(* register_control; without a reserve the permit needs no slot. *)
RegisterControl(c) ==
    /\ intake /\ controls[c] = "idle"
    /\ outstanding' = outstanding + 1
    /\ EnterControl(c, IF Reserve = 0 THEN "holding" ELSE "registered")
    /\ UNCHANGED <<permits, available, intake, drain, woken>>

(* try_acquire_control or acquire_recovery gets a slot: claim_control_slot. *)
ClaimControlSlot(c) ==
    /\ controls[c] = "registered" /\ available > 0
    /\ available' = available - 1
    /\ EnterControl(c, "holding")
    /\ UNCHANGED <<permits, outstanding, intake, drain, woken>>

(* It gets none: refused at once, after the wait, or cancelled. *)
RefuseControl(c) ==
    /\ controls[c] = "registered"
    /\ EnterControl(c, "releasing")
    /\ UNCHANGED <<permits, outstanding, available, intake, drain, woken>>

(* ControlPermit::drop: the slot first ... *)
ReleaseControlSlot(c) ==
    /\ controls[c] = "holding"
    /\ available' = IF Reserve = 0 THEN available ELSE available + 1
    /\ EnterControl(c, "releasing")
    /\ UNCHANGED <<permits, outstanding, intake, drain, woken>>

(* ... then the count ... *)
UncountControl(c) ==
    /\ controls[c] = "releasing"
    /\ outstanding' = outstanding - 1
    /\ EnterControl(c, "released")
    /\ UNCHANGED <<permits, available, intake, drain, woken>>

(* Mutation: nobody is told that the last control permit is gone. *)
NotifyNobody(c) ==
    /\ controls[c] = "released"
    /\ EnterControl(c, "idle")
    /\ UNCHANGED <<permits, outstanding, available, intake, drain, woken>>

(* ... then the notification. *)
NotifyReleased(c) ==
    /\ controls[c] = "released"
    /\ EnterControl(c, "idle")
    /\ Notify
    /\ UNCHANGED <<permits, outstanding, available, intake, drain>>

-----------------------------------------------------------------------------
(* The drain                                                               *)

(* "The host stops intake and joins dispatching workers before awaiting idle" *)
StopIntake ==
    /\ intake
    /\ intake' = FALSE
    /\ UNCHANGED <<permits, reserve, drain, woken>>

(* wait_for_native_idle registers for notifications before it looks. *)
EnableDrain ==
    /\ \/ drain = "off" /\ ~ intake
       \/ drain = "waiting" /\ woken
    /\ drain' = "enabled" /\ woken' = FALSE
    /\ UNCHANGED <<permits, reserve, intake>>

CheckPermits ==
    /\ drain = "enabled"
    /\ drain' = IF in_flight = 0 /\ queue = <<>> THEN "checked" ELSE "waiting"
    /\ UNCHANGED <<permits, reserve, intake, woken>>

(* Mutation: control work is not waited for. *)
IgnoreControl ==
    /\ drain = "checked"
    /\ drain' = "done"
    /\ UNCHANGED <<permits, reserve, intake, woken>>

CheckControl ==
    /\ drain = "checked"
    /\ drain' = IF outstanding = 0 THEN "done" ELSE "waiting"
    /\ UNCHANGED <<permits, reserve, intake, woken>>

-----------------------------------------------------------------------------
Caller(t) ==
    \/ Admit(t) \/ Enqueue(t) \/ Claim(t) \/ Abandon(t) \/ Forfeit(t)
    \/ RecordTimeout(t) \/ Leave(t) \/ NotifyLeft(t) \/ Complete(t)

Control(c) ==
    \/ RegisterControl(c) \/ ClaimControlSlot(c) \/ RefuseControl(c)
    \/ ReleaseControlSlot(c) \/ UncountControl(c) \/ NotifyReleased(c)

Drain == EnableDrain \/ CheckPermits \/ CheckControl

Next ==
    \/ \E t \in Callers : Caller(t)
    \/ \E c \in Controls : Control(c)
    \/ StopIntake \/ Drain

Spec == Init /\ [][Next]_vars

(* Whoever has a permit finishes its work, a task that is scheduled goes on,  *)
(* a destructor that began ends, and control work gets a slot or gives up.   *)
(* A waiter's deadline is not assumed to come.                              *)
Fairness ==
    /\ \A t \in Callers :
          WF_vars(Claim(t) \/ Forfeit(t) \/ RecordTimeout(t) \/ Leave(t)
                  \/ NotifyLeft(t) \/ Complete(t))
    /\ \A c \in Controls :
          WF_vars(ClaimControlSlot(c) \/ RefuseControl(c) \/ ReleaseControlSlot(c)
                  \/ UncountControl(c) \/ NotifyReleased(c))
    /\ WF_vars(Drain)

FairSpec == Spec /\ Fairness

-----------------------------------------------------------------------------
(* Properties                                                              *)

InQueue(t) == \E i \in 1 .. Len(queue) : queue[i] = t

(* The callers a slot is taken for. *)
Admitted == {t \in Callers : callers[t] \in {"granted", "forfeiting", "holding"}}

(* Nobody waits while there is room: whoever frees a slot, gives one back     *)
(* unused, leaves the queue or raises the limit hands the room on before the  *)
(* lock is released (grant_waiters_from_locked), so a slot is never lost to   *)
(* a waiter that timed out.                                                 *)
QueueOnlyWhenFull == queue # <<>> => in_flight >= limit

(* The work that runs on the connection never exceeds what the pool was       *)
(* qualified for (qualify_pool_capacity): foreground permits the effective    *)
(* maximum, control permits the reserve, though the limit moves and grants    *)
(* are dropped on the way.                                                  *)
PoolBounded ==
    /\ Cardinality(Admitted) <= Maximum
    /\ Reserve > 0 => Cardinality({c \in Controls : controls[c] = "holding"}) <= Reserve

(* A waiter is not overtaken: not by one that came later, and not by a caller *)
(* that finds a free slot.                                                  *)
NoOvertaking ==
    [][\A t \in Callers : callers[t] = "waiting" /\ callers'[t] = "waiting" =>
          /\ \A u \in Callers : callers[u] = "idle" => callers'[u] # "holding"
          /\ \A i, j \in 1 .. Len(queue) :
                i < j /\ queue[i] = t /\ callers[queue[j]] = "waiting"
                => callers'[queue[j]] # "granted"]_vars

(* A drain that returned was right: no permit, no grant, no waiter and no     *)
(* control work is left, and none will be.                                  *)
DrainedIdle ==
    drain = "done" =>
        /\ Admitted = {} /\ queue = <<>>
        /\ \A c \in Controls : controls[c] \notin {"registered", "holding"}

(* Whoever waits is admitted or gives up, though no deadline is assumed to    *)
(* come: waiters that leave do not hold up those behind them.               *)
WaitersAdmitted == \A t \in Callers : callers[t] = "waiting" ~> callers[t] # "waiting"

(* The drain ends: no notification is lost between the look and the wait. *)
DrainEnds == drain = "enabled" ~> drain = "done"

(* The parts of the inductive invariant.                                    *)

(* Slots and waiters are those of the callers. *)
SlotsExact ==
    /\ in_flight = Cardinality(Admitted) /\ in_flight <= Maximum
    /\ \A i, j \in 1 .. Len(queue) : queue[i] = queue[j] => i = j
    /\ \A i \in 1 .. Len(queue) : callers[queue[i]] \in {"waiting", "expired", "leaving"}
    /\ \A t \in Callers : callers[t] = "waiting" => InQueue(t)
    /\ Len(queue) <= QueueCapacity

ControlExact ==
    /\ outstanding =
          Cardinality({c \in Controls : controls[c] \in {"registered", "holding", "releasing"}})
    /\ Reserve > 0 =>
          available = Reserve - Cardinality({c \in Controls : controls[c] = "holding"})

DrainExact ==
    /\ drain # "off" => ~ intake
    /\ drain \in {"checked", "done"} => in_flight = 0 /\ queue = <<>>
    /\ drain = "done" => outstanding = 0

AdmissionInvariant ==
    TypeOK /\ SlotsExact /\ QueueOnlyWhenFull /\ ControlExact /\ DrainExact
=============================================================================
