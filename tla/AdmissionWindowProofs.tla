----------------------- MODULE AdmissionWindowProofs -----------------------
(***************************************************************************)
(* The adaptive limit keeps WindowInvariant and implements AdmissionLimit, *)
(* for every minimum, maximum and backoff, and every sequence of signals.  *)
(***************************************************************************)
EXTENDS AdmissionWindow, TLAPS

(* What a reduction, a backoff and a probe make of a limit within its bounds.  *)
LEMMA LimitsInBounds ==
    ASSUME NEW l \in Minimum .. Maximum
    PROVE  /\ EmergencyLimit(l) \in Minimum .. Maximum /\ EmergencyLimit(l) <= l
           /\ \A f \in Factors : /\ AtLeastMinimum((l * f) \div 100) \in Minimum .. Maximum
                                 /\ AtLeastMinimum((l * f) \div 100) <= l
           /\ AtMostMaximum(l + ProbeDelta(l)) \in l .. Maximum
           /\ AtLeastMinimum(l) = l
<1>1. l \in Nat /\ Minimum <= l /\ l <= Maximum /\ Minimum \in Nat /\ Maximum \in Nat
  BY WindowAssumption
<1>2. l \div 2 \in Int /\ l \div 2 <= l BY <1>1
<1>3. EmergencyLimit(l) \in Minimum .. Maximum /\ EmergencyLimit(l) <= l
  BY <1>1, <1>2 DEF EmergencyLimit, AtLeastMinimum
<1>4. ASSUME NEW f \in Factors
      PROVE  /\ AtLeastMinimum((l * f) \div 100) \in Minimum .. Maximum
             /\ AtLeastMinimum((l * f) \div 100) <= l
  <2>1. f \in Nat /\ f <= 90 BY WindowAssumption
  <2>2. l * f \in Nat /\ l * f <= l * 90 BY SMTT(20), <1>1, <2>1
  <2>3. (l * f) \div 100 \in Int /\ (l * f) \div 100 <= l BY SMTT(20), <1>1, <2>2
  <2> DEFINE q == (l * f) \div 100
  <2> HIDE DEF q
  <2>4. q \in Int /\ q <= l BY <2>3 DEF q
  <2>5. AtLeastMinimum(q) \in Minimum .. Maximum /\ AtLeastMinimum(q) <= l
    BY <1>1, <2>4 DEF AtLeastMinimum
  <2> QED BY <2>5 DEF q
<1>5. AtMostMaximum(l + ProbeDelta(l)) \in l .. Maximum
  <2>1. ProbeDelta(l) \in Nat BY <1>1 DEF ProbeDelta
  <2> QED BY <1>1, <2>1 DEF AtMostMaximum
<1>6. AtLeastMinimum(l) = l BY <1>1 DEF AtLeastMinimum
<1> QED BY <1>3, <1>4, <1>5, <1>6

(* bootstrap_limit starts within the bounds.                                 *)
LEMMA InitInvariant == Init => WindowInvariant
<1> SUFFICES ASSUME Init PROVE WindowInvariant
  OBVIOUS
<1>1. TypeOK
  <2>1. limit \in Minimum .. Maximum /\ opened \in Minimum .. Maximum /\ before \in Minimum .. Maximum
    BY DEF Init
  <2>2. mode \in Modes /\ reduced \in BOOLEAN /\ probe_previous_limit = None
    BY Zenon DEF Init, Modes
  <2>3. /\ healthy \in 0 .. 2 /\ congested \in 0 .. 3 /\ clear \in 0 .. 3
        /\ non_congested \in 0 .. 1 /\ saturated_healthy \in 0 .. SaturatedWindows
        /\ calm \in 0 .. Calm
    BY DEF Init, Calm, SaturatedWindows
  <2> QED BY <2>1, <2>2, <2>3 DEF TypeOK
<1>2. OneReductionPerWindow BY DEF Init, OneReductionPerWindow
<1> QED BY <1>1, <1>2 DEF Init, WindowInvariant

(* Pressure, at once or at the end of its window.                            *)
LEMMA PressureStep ==
    ASSUME WindowInvariant, Pressure \/ ClosePressed
    PROVE  WindowInvariant' /\ limit' <= limit
<1>1. TypeOK /\ OneReductionPerWindow BY DEF WindowInvariant
<1>2. limit \in Minimum .. Maximum /\ opened \in Minimum .. Maximum BY <1>1 DEF TypeOK
<1>3. /\ EmergencyLimit(limit) \in Minimum .. Maximum /\ EmergencyLimit(limit) <= limit
  BY <1>2, LimitsInBounds
<1>4. /\ limit' = (IF reduced THEN limit ELSE EmergencyLimit(limit)) /\ mode' = "Emergency"
      /\ clear' = 0 /\ congested' = 0 /\ probe_previous_limit' = None /\ calm' = 0
      /\ UNCHANGED <<healthy, non_congested, saturated_healthy, before>>
      /\ reduced' \in BOOLEAN /\ opened' \in {opened, limit'}
      /\ (reduced' = TRUE \/ opened' = limit')
  BY Zenon DEF Pressure, ClosePressed, EnterEmergency
<1>5. limit' \in Minimum .. Maximum /\ limit' <= limit
  BY <1>2, <1>3, <1>4, WindowAssumption
<1>6. TypeOK'
  BY <1>1, <1>4, <1>5 DEF TypeOK, Modes, Calm
<1>7. OneReductionPerWindow'
  <2>1. CASE Pressure
    <3>1. opened' = opened /\ reduced' = TRUE BY <2>1 DEF Pressure
    <3>2. EmergencyLimit(opened)' = EmergencyLimit(opened)
      BY <3>1 DEF EmergencyLimit, AtLeastMinimum
    <3> QED BY <1>1, <1>4, <3>1, <3>2 DEF OneReductionPerWindow
  <2>2. CASE ClosePressed
    <3>1. opened' = limit' BY <2>2 DEF ClosePressed
    <3> QED BY <3>1 DEF OneReductionPerWindow
  <2> QED BY <2>1, <2>2
<1> QED BY <1>4, <1>5, <1>6, <1>7 DEF WindowInvariant

(* A window without pressure: the parts that are the same in every mode.       *)
LEMMA CloseStep ==
    ASSUME WindowInvariant, Close
    PROVE  /\ ~ reduced /\ ~ reduced' /\ opened' = limit' /\ OneReductionPerWindow'
           /\ calm' \in 0 .. Calm /\ calm' >= calm
           /\ calm < Calm => calm' = calm + 1
           /\ calm = Calm => calm' = Calm
<1>1. calm \in 0 .. Calm /\ reduced \in BOOLEAN BY DEF WindowInvariant, TypeOK
<1>2. ~ reduced /\ ~ reduced' /\ opened' = limit' BY <1>1 DEF Close
<1>3. OneReductionPerWindow' BY <1>2 DEF OneReductionPerWindow
<1>4. /\ calm' \in 0 .. Calm /\ calm' >= calm
      /\ calm < Calm => calm' = calm + 1
      /\ calm = Calm => calm' = Calm
  BY <1>1 DEF Close, Calm
<1> QED BY <1>2, <1>3, <1>4

(* What a quiet window may do to the limit, and to what it is judged by.       *)
QuietChange ==
    /\ limit' \in Minimum .. Maximum
    /\ limit' > limit => mode' = "Probe" /\ calm >= Calm
    /\ mode = "Probe" => limit' = IF mode' = "Backoff" THEN before ELSE limit

(* What the branches of transition_window write outside an emergency.          *)
QuietWrites ==
    /\ limit' \in Minimum .. Maximum /\ (limit' > limit => mode' = "Probe")
    /\ mode = "Probe" => limit' = IF mode' = "Backoff" THEN before ELSE limit
    /\ mode' \in Modes \ {"Emergency"}
    /\ probe_previous_limit' \in {None} \cup Minimum .. Maximum
    /\ before' \in Minimum .. Maximum
    /\ healthy' \in 0 .. 2 /\ (mode' = "Warmup" => healthy' <= 1)
    /\ congested' \in 0 .. 3 /\ (mode' # "Recovering" => congested' <= 1)
    /\ mode' = "Probe" => congested' = 0 /\ probe_previous_limit' = before' /\ before' <= limit'
    /\ clear' = clear /\ non_congested' \in 0 .. 1
    /\ saturated_healthy' \in 0 .. SaturatedWindows

(* The streak of congested windows, counted on.                              *)
LEMMA CountsOn ==
    ASSUME WindowInvariant, NEW s \in Signals
    PROVE  /\ CountCongested(s) \in {0, congested + 1} /\ CountCongested(s) \in 0 .. 4
           /\ ~ Sustained(s) => CountCongested(s) \in 0 .. 1
           /\ CountSaturated \in 0 .. SaturatedWindows
<1>1. congested \in 0 .. 3 /\ saturated_healthy \in 0 .. SaturatedWindows
  BY DEF WindowInvariant, TypeOK
<1>2. CountCongested(s) \in {0, congested + 1} /\ CountCongested(s) \in 0 .. 4
  BY <1>1 DEF CountCongested
<1>3. ~ Sustained(s) => CountCongested(s) \in 0 .. 1 BY <1>2 DEF Sustained
<1>4. CountSaturated \in 0 .. SaturatedWindows BY <1>1 DEF CountSaturated, SaturatedWindows
<1> QED BY <1>2, <1>3, <1>4

(* Each of the branches of transition_window without pressure.                *)
LEMMA QuietStep ==
    ASSUME WindowInvariant, NEW s \in Signals, CloseQuiet(s)
    PROVE  WindowInvariant' /\ QuietChange /\ ~ reduced /\ ~ reduced'
<1>t. TypeOK BY DEF WindowInvariant
<1>l. limit \in Minimum .. Maximum /\ before \in Minimum .. Maximum BY <1>t DEF TypeOK
<1>i. limit \in Nat /\ before \in Nat BY <1>l, WindowAssumption
<1>c. Close BY DEF CloseQuiet, NormalBackoff, WarmUp, BeginProbe, Observe, EndProbe,
                   LeaveBackoff, ClearEmergency
<1>d. /\ ~ reduced /\ ~ reduced' /\ opened' = limit' /\ OneReductionPerWindow'
      /\ calm' \in 0 .. Calm /\ calm' >= calm
      /\ calm < Calm => calm' = calm + 1
      /\ calm = Calm => calm' = Calm
  BY <1>c, CloseStep
<1>n. /\ CountCongested(s) \in {0, congested + 1} /\ CountCongested(s) \in 0 .. 4
      /\ ~ Sustained(s) => CountCongested(s) \in 0 .. 1
      /\ CountSaturated \in 0 .. SaturatedWindows
  BY CountsOn
<1>b. reduced' \in BOOLEAN BY <1>c, <1>t DEF Close, TypeOK
<1>1. ASSUME QuietWrites, mode # "Emergency"
      PROVE  WindowInvariant' /\ QuietChange
  <2>1. calm = Calm /\ clear \in 0 .. 3 BY <1>t, <1>1 DEF WindowInvariant, TypeOK
  <2>2. TypeOK' BY <1>1, <1>b, <1>d, <2>1 DEF TypeOK, QuietWrites
  <2>3. WindowInvariant' BY <1>1, <1>d, <2>1, <2>2 DEF WindowInvariant, QuietWrites
  <2> QED BY <1>1, <2>1, <2>3 DEF QuietChange, QuietWrites, Calm
<1>2. CASE NormalBackoff(s)
  <2>1. PICK f \in Factors : limit' = AtLeastMinimum((limit * f) \div 100)
    BY <1>2 DEF NormalBackoff
  <2>2. limit' \in Minimum .. Maximum /\ limit' <= limit BY <1>l, <2>1, LimitsInBounds
  <2>3. limit' \in Nat /\ ~ (limit' > limit) BY <1>i, <2>2, WindowAssumption
  <2>4. healthy' \in 0 .. 2 /\ saturated_healthy' \in 0 .. SaturatedWindows
    BY <1>t, <1>2 DEF NormalBackoff, TypeOK, SaturatedWindows
  <2>9. QuietWrites
    BY <1>2, <1>l, <2>2, <2>3, <2>4 DEF QuietWrites, NormalBackoff, Modes, None
  <2> QED BY <1>1, <1>2, <1>d, <2>9 DEF NormalBackoff
<1>3. CASE WarmUp(s)
  <2>1. healthy \in 0 .. 1 /\ non_congested \in 0 .. 1 /\ saturated_healthy \in 0 .. SaturatedWindows
        /\ probe_previous_limit \in {None} \cup Minimum .. Maximum
    BY <1>t, <1>3 DEF WarmUp, WindowInvariant, TypeOK
  <2>2. healthy' \in 0 .. 2 /\ (mode' = "Warmup" => healthy' <= 1)
        /\ mode' \in {"Warmup", "Stable"}
    BY <1>3, <2>1 DEF WarmUp
  <2>3. congested' \in 0 .. 1 BY <1>3, <1>n DEF WarmUp
  <2>9. QuietWrites
    BY <1>3, <1>i, <1>l, <2>1, <2>2, <2>3 DEF QuietWrites, WarmUp, Modes
  <2> QED BY <1>1, <1>3, <1>d, <2>9 DEF WarmUp
<1>4. CASE BeginProbe(s)
  <2>1. limit' \in limit .. Maximum BY <1>4, <1>l, LimitsInBounds DEF BeginProbe
  <2>3. limit' \in Minimum .. Maximum /\ limit' >= limit BY <1>l, <2>1, WindowAssumption
  <2>2. healthy \in 0 .. 2 /\ non_congested \in 0 .. 1 BY <1>t DEF TypeOK
  <2>9. QuietWrites
    BY <1>4, <1>l, <1>n, <2>2, <2>3 DEF QuietWrites, BeginProbe, Modes
  <2> QED BY <1>1, <1>4, <1>d, <2>9 DEF BeginProbe
<1>5. CASE Observe(s)
  <2>1. /\ healthy \in 0 .. 2 /\ non_congested \in 0 .. 1
        /\ saturated_healthy \in 0 .. SaturatedWindows
        /\ probe_previous_limit \in {None} \cup Minimum .. Maximum
    BY <1>t DEF TypeOK
  <2>2. congested' \in 0 .. 1 /\ saturated_healthy' \in 0 .. SaturatedWindows
    BY <1>5, <1>n, <2>1 DEF Observe, SaturatedWindows
  <2>9. QuietWrites
    BY <1>5, <1>i, <1>l, <2>1, <2>2 DEF QuietWrites, Observe, Modes
  <2> QED BY <1>1, <1>5, <1>d, <2>9 DEF Observe
<1>6. CASE EndProbe(s)
  <2>1. /\ healthy \in 0 .. 2 /\ non_congested \in 0 .. 1
        /\ saturated_healthy \in 0 .. SaturatedWindows
    BY <1>t DEF TypeOK
  <2>2. mode = "Probe" /\ congested = 0 /\ probe_previous_limit = before
    BY <1>6 DEF EndProbe, WindowInvariant
  <2>3. CountCongested(s) \in 0 .. 1 BY <1>n, <2>2
  <2>4. AtLeastMinimum(before) = before /\ before # None
    BY <1>l, LimitsInBounds, WindowAssumption DEF None
  <2>5. \/ mode' = "Stable" /\ limit' = limit
        \/ mode' = "Backoff" /\ limit' = before
    BY <1>6, <2>2, <2>4 DEF EndProbe
  <2>6. limit' \in Minimum .. Maximum BY <1>l, <2>5
  <2>7. /\ probe_previous_limit' = None /\ congested' = CountCongested(s)
        /\ UNCHANGED <<healthy, clear, non_congested, saturated_healthy, before>>
    BY <1>6 DEF EndProbe
  <2>8. mode' \in Modes \ {"Emergency"} /\ mode' \notin {"Probe", "Warmup"}
    BY <2>5 DEF Modes
  <2>10. ~ (limit' > limit)
    BY <1>i, <1>l, <2>2, <2>5 DEF WindowInvariant
  <2>9. QuietWrites
    BY <1>l, <2>1, <2>2, <2>3, <2>5, <2>6, <2>7, <2>8, <2>10 DEF QuietWrites
  <2> QED BY <1>1, <1>6, <1>d, <2>9 DEF EndProbe
<1>7. CASE LeaveBackoff(s)
  <2>1. /\ healthy \in 0 .. 2 /\ non_congested \in 0 .. 1
        /\ saturated_healthy \in 0 .. SaturatedWindows
        /\ probe_previous_limit \in {None} \cup Minimum .. Maximum
    BY <1>t DEF TypeOK
  <2>2. congested' \in 0 .. 1 /\ non_congested' \in 0 .. 1 /\ mode' \in {"Backoff", "Recovering"}
    BY <1>7, <1>n, <2>1 DEF LeaveBackoff
  <2>9. QuietWrites
    BY <1>7, <1>i, <1>l, <2>1, <2>2 DEF QuietWrites, LeaveBackoff, Modes
  <2> QED BY <1>1, <1>7, <1>d, <2>9 DEF LeaveBackoff
<1>8. CASE ClearEmergency(s)
  <2>1. /\ clear \in 0 .. 2 /\ clear <= calm /\ congested <= clear /\ calm \in 0 .. Calm
        /\ congested \in 0 .. 3
    BY <1>t, <1>8 DEF ClearEmergency, WindowInvariant, TypeOK
  <2>2. /\ mode = "Emergency" /\ clear' = clear + 1 /\ congested' = CountCongested(s)
        /\ mode' = (IF clear' >= 3 THEN "Recovering" ELSE mode) /\ limit' = limit
        /\ UNCHANGED <<probe_previous_limit, healthy, non_congested, saturated_healthy, before>>
    BY <1>8 DEF ClearEmergency
  <2>3. clear' \in 0 .. 3 /\ congested' \in 0 .. 3 /\ congested' <= clear'
    BY <1>n, <2>1, <2>2
  <2>4. calm' >= clear' BY <1>d, <2>1, <2>2 DEF Calm
  <2>5. TypeOK'
    BY <1>t, <1>b, <1>d, <2>2, <2>3 DEF TypeOK, Modes
  <2>6. ~ (limit' > limit) BY <1>i, <2>2
  <2>7. CASE clear' >= 3
    <3>1. mode' = "Recovering" /\ calm' = Calm BY <1>d, <2>2, <2>3, <2>4, <2>7 DEF Calm
    <3> QED BY <1>d, <1>l, <2>2, <2>3, <2>5, <2>6, <3>1 DEF WindowInvariant, QuietChange
  <2>8. CASE ~ (clear' >= 3)
    <3>1. mode' = "Emergency" /\ clear' <= 2 BY <2>2, <2>3, <2>8
    <3> QED BY <1>d, <1>l, <2>2, <2>3, <2>4, <2>5, <2>6, <3>1 DEF WindowInvariant, QuietChange
  <2> QED BY <1>d, <2>2, <2>7, <2>8
<1> QED BY <1>2, <1>3, <1>4, <1>5, <1>6, <1>7, <1>8, <1>d DEF CloseQuiet

(* What any step of the controller may do to the limit.                       *)
LEMMA NextStep ==
    ASSUME WindowInvariant, [Next]_vars
    PROVE  /\ WindowInvariant'
           /\ UNCHANGED vars \/ Pressure \/ ClosePressed
                \/ (QuietChange /\ ~ reduced /\ ~ reduced')
<1>1. CASE Pressure \/ ClosePressed BY <1>1, PressureStep
<1>2. CASE \E s \in Signals : CloseQuiet(s)
  <2> PICK s \in Signals : CloseQuiet(s) BY <1>2
  <2> QED BY QuietStep
<1>3. CASE UNCHANGED vars
  BY <1>3 DEF vars, WindowInvariant, TypeOK, OneReductionPerWindow
<1> QED BY <1>1, <1>2, <1>3 DEF Next

(* transition_window keeps WindowInvariant, whatever the windows measure.      *)
THEOREM WindowCorrect == Spec => []WindowInvariant
<1>1. WindowInvariant /\ [Next]_vars => WindowInvariant' BY NextStep
<1> QED BY InitInvariant, <1>1, PTL DEF Spec

(* However many timeouts and throttles a window sees, it is reduced once.     *)
THEOREM AlwaysOneReduction == Spec => []OneReductionPerWindow
<1>1. WindowInvariant => OneReductionPerWindow BY DEF WindowInvariant
<1> QED BY WindowCorrect, <1>1, PTL

(* The limit rises by probes only, three windows or more after pressure.      *)
THEOREM RisesAlwaysEarned == Spec => RisesAreEarned
<1>1. WindowInvariant /\ [Next]_vars => [limit' > limit => mode' = "Probe" /\ calm >= Calm]_vars
  <2> SUFFICES ASSUME WindowInvariant, [Next]_vars, limit' > limit
               PROVE  UNCHANGED vars \/ (mode' = "Probe" /\ calm >= Calm)
    OBVIOUS
  <2>1. limit \in Nat /\ limit' \in Nat
    BY NextStep, WindowAssumption DEF WindowInvariant, TypeOK
  <2>2. CASE Pressure \/ ClosePressed BY <2>1, <2>2, PressureStep
  <2>3. CASE QuietChange BY <2>3 DEF QuietChange
  <2> QED BY <2>2, <2>3, NextStep
<1> QED BY WindowCorrect, <1>1, PTL DEF Spec, RisesAreEarned

(* A probe that does not pay is taken back to the limit before it.            *)
THEOREM FailedProbeAlwaysUndone == Spec => FailedProbeUndone
<1>1. WindowInvariant /\ [Next]_vars =>
        [mode = "Probe" /\ mode' # "Emergency" =>
            limit' = IF mode' = "Backoff" THEN before ELSE limit]_vars
  <2> SUFFICES ASSUME WindowInvariant, [Next]_vars, mode = "Probe", mode' # "Emergency"
               PROVE  UNCHANGED vars \/ limit' = IF mode' = "Backoff" THEN before ELSE limit
    OBVIOUS
  <2>1. ~ (Pressure \/ ClosePressed) BY DEF Pressure, ClosePressed, EnterEmergency
  <2>2. CASE QuietChange BY <2>2 DEF QuietChange
  <2> QED BY <2>1, <2>2, NextStep
<1> QED BY WindowCorrect, <1>1, PTL DEF Spec, FailedProbeUndone

(* The adaptive controller is a concurrency limit as AdmissionLimit promises   *)
(* it: what Admission is checked and proved with.                             *)
THEOREM WindowImplementsLimit == Spec => ImplementsLimit
<1>1. Init => Limit!Init BY DEF Init, Limit!Init
<1>2. ASSUME WindowInvariant, [Next]_vars PROVE [Limit!Next]_<<limit, reduced>>
  <2>1. ASSUME EnterEmergency PROVE limit' = Limit!Pressed
    BY <2>1 DEF EnterEmergency, EmergencyLimit, AtLeastMinimum, Limit!Pressed, Limit!Halved
  <2>2. CASE Pressure BY <2>1, <2>2 DEF Pressure, Limit!Pressure, Limit!Next
  <2>3. CASE ClosePressed BY <2>1, <2>3 DEF ClosePressed, Limit!ClosePressed, Limit!Next
  <2>4. CASE QuietChange /\ ~ reduced /\ ~ reduced'
    <3>1. reduced = FALSE /\ reduced' = FALSE
      BY <2>4, NextStep DEF WindowInvariant, TypeOK
    <3> QED BY Zenon, <2>4, <3>1 DEF QuietChange, Limit!CloseQuiet, Limit!Next
  <2>5. CASE UNCHANGED vars BY <2>5 DEF vars
  <2>6. \/ UNCHANGED vars \/ Pressure \/ ClosePressed
        \/ (QuietChange /\ ~ reduced /\ ~ reduced')
    BY <1>2, NextStep
  <2> QED BY <2>2, <2>3, <2>4, <2>5, <2>6
<1> QED BY WindowCorrect, <1>1, <1>2, PTL DEF Spec, ImplementsLimit, Limit!Spec
=============================================================================
