-------------------------- MODULE AdmissionWindow --------------------------
(***************************************************************************)
(* The adaptive limit of crates/storage/src/admission: the state machine   *)
(* that evaluate_window drives at the end of a sampling window and         *)
(* evaluate_pressure at once.  What a window measured (latency gradients,  *)
(* goodput, occupancy, clocks) is one signal per comparison the code makes. *)
(***************************************************************************)
EXTENDS Integers

CONSTANTS
    Minimum, Maximum,  \* minimum_concurrency, effective_maximum
    Factors            \* percentages normal_backoff may keep of the limit

ASSUME WindowAssumption ==
    /\ Minimum \in Nat \ {0} /\ Maximum \in Nat /\ Minimum <= Maximum
    /\ Factors \subseteq 80 .. 90

VARIABLES
    limit, mode, reduced, probe_previous_limit,
    healthy, congested, clear, non_congested, saturated_healthy,
    opened,   \* history: the limit when the sampling window opened
    before,   \* history: the limit before the last probe
    calm      \* history: windows closed since the last pressure, up to Calm

vars == <<limit, mode, reduced, probe_previous_limit, healthy, congested, clear,
          non_congested, saturated_healthy, opened, before, calm>>

None == 0
Calm == 3
SaturatedWindows == 3

Modes == {"Warmup", "Stable", "Probe", "Backoff", "Recovering", "Emergency"}

(* WindowSignals of a window without pressure.  healthy: the gradient is at   *)
(* least one; improved: the goodput beats the previous one; due: the time of  *)
(* the next probe has come.                                                 *)
Signals == [saturated : BOOLEAN, healthy : BOOLEAN, samples : BOOLEAN,
            improved : BOOLEAN, due : BOOLEAN]

TypeOK ==
    /\ limit \in Minimum .. Maximum
    /\ mode \in Modes
    /\ reduced \in BOOLEAN
    /\ probe_previous_limit \in {None} \cup Minimum .. Maximum
    /\ healthy \in 0 .. 2 /\ congested \in 0 .. 3 /\ clear \in 0 .. 3
    /\ non_congested \in 0 .. 1 /\ saturated_healthy \in 0 .. SaturatedWindows
    /\ opened \in Minimum .. Maximum
    /\ before \in Minimum .. Maximum
    /\ calm \in 0 .. Calm

(* bootstrap_limit clamps the configured estimate. *)
Init ==
    /\ limit \in Minimum .. Maximum
    /\ mode = "Warmup" /\ reduced = FALSE /\ probe_previous_limit = None
    /\ healthy = 0 /\ congested = 0 /\ clear = 0
    /\ non_congested = 0 /\ saturated_healthy = 0
    /\ opened = limit /\ before = limit /\ calm = Calm

-----------------------------------------------------------------------------
AtLeastMinimum(l) == IF l > Minimum THEN l ELSE Minimum

AtMostMaximum(l) == IF l < Maximum THEN l ELSE Maximum

(* Mutation: half of the limit, whatever the configured minimum. *)
EmergencyLimitUnbounded(l) == l \div 2

EmergencyLimit(l) == AtLeastMinimum(l \div 2)

(* Mutation: five percent, rounded down. *)
ProbeDeltaRoundedDown(l) == (l * 5) \div 100

(* percent_threshold(limit, PROBE_PERCENT), at least one. *)
ProbeDelta(l) == (l * 5 + 99) \div 100

Congested(s) == s.saturated /\ ~ s.healthy

CountCongested(s) == IF Congested(s) THEN congested + 1 ELSE 0

Sustained(s) == CountCongested(s) >= 2

(* The counter is only compared with SaturatedWindows. *)
CountSaturated ==
    IF saturated_healthy < SaturatedWindows THEN saturated_healthy + 1 ELSE saturated_healthy

(* The part of transition_window that explicit pressure or a queue timeout    *)
(* takes.                                                                   *)
EnterEmergency ==
    /\ limit' = IF reduced THEN limit ELSE EmergencyLimit(limit)
    /\ mode' = "Emergency"
    /\ clear' = 0 /\ congested' = 0 /\ probe_previous_limit' = None
    /\ calm' = 0
    /\ UNCHANGED <<healthy, non_congested, saturated_healthy, before>>

(* Mutation: the reduction is not remembered. *)
PressureForgotten == EnterEmergency /\ UNCHANGED <<reduced, opened>>

(* evaluate_pressure *)
Pressure ==
    /\ EnterEmergency
    /\ reduced' = TRUE
    /\ UNCHANGED opened

(* evaluate_window when the window saw pressure, or sees it just now. *)
ClosePressed ==
    /\ EnterEmergency
    /\ reduced' = FALSE
    /\ opened' = limit'

(* evaluate_window without pressure starts a fresh window. *)
Close ==
    /\ ~ reduced
    /\ UNCHANGED reduced
    /\ opened' = limit'
    /\ calm' = IF calm < Calm THEN calm + 1 ELSE calm

(* normal_backoff in the modes that call it *)
NormalBackoff(s) ==
    /\ mode \in {"Warmup", "Stable", "Backoff", "Recovering"} /\ Sustained(s)
    /\ \E factor \in Factors : limit' = AtLeastMinimum((limit * factor) \div 100)
    /\ mode' = "Backoff"
    /\ non_congested' = 0 /\ congested' = 0 /\ probe_previous_limit' = None
    /\ healthy' = IF mode = "Warmup" THEN 0 ELSE healthy
    /\ saturated_healthy' = IF mode \in {"Stable", "Recovering"} THEN 0 ELSE saturated_healthy
    /\ UNCHANGED <<clear, before>>
    /\ Close

WarmUp(s) ==
    /\ mode = "Warmup" /\ ~ Sustained(s)
    /\ congested' = CountCongested(s)
    /\ healthy' = IF Congested(s) \/ ~ s.samples THEN 0 ELSE healthy + 1
    /\ mode' = IF healthy' >= 2 THEN "Stable" ELSE mode
    /\ UNCHANGED <<limit, probe_previous_limit, clear, non_congested, saturated_healthy, before>>
    /\ Close

(* A window that may earn a probe. *)
Earns(s) == s.saturated /\ s.samples /\ s.healthy

Probes(s) == Earns(s) /\ CountSaturated >= SaturatedWindows /\ s.due

BeginProbe(s) ==
    /\ mode \in {"Stable", "Recovering"} /\ Probes(s)
    /\ probe_previous_limit' = limit /\ before' = limit
    /\ limit' = AtMostMaximum(limit + ProbeDelta(limit))
    /\ mode' = "Probe"
    /\ saturated_healthy' = CountSaturated /\ congested' = 0
    /\ UNCHANGED <<healthy, clear, non_congested>>
    /\ Close

Observe(s) ==
    /\ mode \in {"Stable", "Recovering"} /\ ~ Probes(s) /\ ~ Sustained(s)
    /\ congested' = CountCongested(s)
    /\ saturated_healthy' = IF Earns(s) THEN CountSaturated
                            ELSE IF Congested(s) \/ ~ s.saturated THEN 0
                            ELSE saturated_healthy
    /\ UNCHANGED <<limit, mode, probe_previous_limit, healthy, clear, non_congested, before>>
    /\ Close

(* Mutation: a probe that did not improve the goodput keeps its limit. *)
KeepProbe(s) ==
    /\ mode = "Probe"
    /\ mode' = IF ~ s.saturated \/ (s.improved /\ s.samples /\ s.healthy)
               THEN "Stable" ELSE "Backoff"
    /\ probe_previous_limit' = None
    /\ congested' = CountCongested(s)
    /\ UNCHANGED <<limit, healthy, clear, non_congested, saturated_healthy, before>>
    /\ Close

EndProbe(s) ==
    LET previous == IF probe_previous_limit = None THEN limit ELSE probe_previous_limit IN
    /\ mode = "Probe"
    /\ IF ~ s.saturated \/ (s.improved /\ s.samples /\ s.healthy)
       THEN mode' = "Stable" /\ UNCHANGED limit
       ELSE mode' = "Backoff" /\ limit' = AtLeastMinimum(previous)
    /\ probe_previous_limit' = None
    /\ congested' = CountCongested(s)
    /\ UNCHANGED <<healthy, clear, non_congested, saturated_healthy, before>>
    /\ Close

LeaveBackoff(s) ==
    /\ mode = "Backoff" /\ ~ Sustained(s)
    /\ congested' = CountCongested(s)
    /\ non_congested' = IF Congested(s) \/ non_congested = 1 THEN 0 ELSE non_congested + 1
    /\ mode' = IF ~ Congested(s) /\ non_congested = 1 THEN "Recovering" ELSE mode
    /\ UNCHANGED <<limit, probe_previous_limit, healthy, clear, saturated_healthy, before>>
    /\ Close

(* Mutation: two windows clear an emergency. *)
ClearEmergencyEarly(s) ==
    /\ mode = "Emergency"
    /\ congested' = CountCongested(s)
    /\ clear' = clear + 1
    /\ mode' = IF clear' >= 2 THEN "Recovering" ELSE mode
    /\ UNCHANGED <<limit, probe_previous_limit, healthy, non_congested, saturated_healthy, before>>
    /\ Close

ClearEmergency(s) ==
    /\ mode = "Emergency"
    /\ congested' = CountCongested(s)
    /\ clear' = clear + 1
    /\ mode' = IF clear' >= 3 THEN "Recovering" ELSE mode
    /\ UNCHANGED <<limit, probe_previous_limit, healthy, non_congested, saturated_healthy, before>>
    /\ Close

CloseQuiet(s) ==
    \/ NormalBackoff(s) \/ WarmUp(s) \/ BeginProbe(s) \/ Observe(s) \/ EndProbe(s)
    \/ LeaveBackoff(s) \/ ClearEmergency(s)

Next == Pressure \/ ClosePressed \/ \E s \in Signals : CloseQuiet(s)

Spec == Init /\ [][Next]_vars

(* Requests keep completing, so windows keep closing. *)
FairSpec == Spec /\ WF_vars(ClosePressed \/ \E s \in Signals : CloseQuiet(s))

-----------------------------------------------------------------------------
(* "one window can apply at most one emergency reduction"                     *)
(* (transition.rs:52): however many timeouts and throttles a window sees,     *)
(* and whether its end comes with one more, it costs at most half.           *)
OneReductionPerWindow ==
    limit \in {opened, EmergencyLimit(opened)} /\ (~ reduced => limit = opened)

(* The inductive invariant of transition_window: a window costs one reduction, *)
(* an emergency counts its clear windows, pressure is forgotten nowhere else,  *)
(* a probe remembers the limit before it, and streaks end with their mode.     *)
WindowInvariant ==
    /\ TypeOK /\ OneReductionPerWindow
    /\ reduced => mode = "Emergency"
    /\ IF mode = "Emergency"
       THEN clear <= 2 /\ clear <= calm /\ congested <= clear
       ELSE calm = Calm /\ (mode # "Recovering" => congested <= 1)
    /\ mode = "Probe" => congested = 0 /\ probe_previous_limit = before /\ before <= limit
    /\ mode = "Warmup" => healthy <= 1

(* The limit rises only by a probe, after a window that used all of it, and   *)
(* never sooner than three windows after pressure.                          *)
RisesAreEarned == [][limit' > limit => mode' = "Probe" /\ calm >= Calm]_vars

(* A probe that does not pay is taken back exactly, whatever happened since   *)
(* earlier probes; a probe that ends otherwise keeps its limit.              *)
FailedProbeUndone ==
    [][mode = "Probe" /\ mode' # "Emergency" =>
          limit' = IF mode' = "Backoff" THEN before ELSE limit]_vars

(* A window that was full, healthy and sampled, and improved the goodput. *)
GoodWindow ==
    CloseQuiet([saturated |-> TRUE, healthy |-> TRUE, samples |-> TRUE,
                improved |-> TRUE, due |-> TRUE])

(* The limit is not locked low: from wherever congestion and pressure left    *)
(* it, good windows bring it back to the maximum.                           *)
NotLockedLow == <>[][GoodWindow]_vars => <>(limit = Maximum)

(* The permits and the queue rely on no more than AdmissionLimit. *)
Limit == INSTANCE AdmissionLimit

ImplementsLimit == Limit!Spec
=============================================================================
