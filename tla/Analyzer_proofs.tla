--------------------------- MODULE Analyzer_proofs ---------------------------
(***************************************************************************)
(* What the analyzer computes, for every baseline, configuration and time: *)
(* what it finds, and in which direction its status moves.                 *)
(***************************************************************************)
EXTENDS Analyzer, Integers, TLAPS

-----------------------------------------------------------------------------
(* Types.                                                                   *)

\* Escalation stays within the severities.
LEMMA EscalateType ==
  ASSUME NEW severity \in Severities
  PROVE  Escalate(severity) \in Severities
BY DEF Escalate, Severities, SEVERITY_INFO, SEVERITY_MINOR, SEVERITY_MAJOR,
       SEVERITY_CRITICAL

\* compute_discrepancies returns findings about its own baseline, all of them
\* detected now.
LEMMA ComputeDiscrepanciesType ==
  ASSUME NEW b \in Baseline, NEW installed \in Installed,
         NEW mods \in ModCompliance, NEW t \in Nat
  PROVE  ComputeDiscrepancies(b, installed, mods, t) \subseteq Finding
<1>1. ASSUME NEW s \in Slots
      PROVE  SlotFinding(b, installed, s, t) \in Finding
  BY DEF SlotFinding, Finding, Baseline, Rules, Severities, SEVERITY_INFO,
         SEVERITY_MAJOR, SEVERITY_CRITICAL
<1>2. ASSUME NEW m \in Mods
      PROVE  ModFinding(b, mods, m, t) \in Finding
  <2>1. b.severity[m] \in Severities /\ Escalate(b.severity[m]) \in Severities
    BY EscalateType DEF Baseline
  <2>2. b.due[m] \in Nat /\ b.id \in BaselineIds /\ b.version \in Nat
    BY DEF Baseline
  <2>3. QED
    BY <2>1, <2>2 DEF ModFinding, Finding, Rules
<1>3. MissingSlots(b, installed) \subseteq Slots /\ OpenMods(b, mods) \subseteq Mods
  BY DEF MissingSlots, OpenMods, Baseline
<1>4. QED
  BY <1>1, <1>2, <1>3 DEF ComputeDiscrepancies

\* The analyzer always arrives at a definite status.
LEMMA OverallStatusType ==
  ASSUME NEW findings
  PROVE  OverallStatus(findings) \in
           CONFIG_STATUS_IN_COMPLIANCE .. CONFIG_STATUS_NOT_MISSION_CAPABLE
BY DEF OverallStatus, CONFIG_STATUS_IN_COMPLIANCE, CONFIG_STATUS_MINOR_DISCREPANCY,
       CONFIG_STATUS_MAJOR_DISCREPANCY, CONFIG_STATUS_NOT_MISSION_CAPABLE

\* What a baseline initializes is well formed.
LEMMA BaselineDefaultsType ==
  ASSUME NEW b \in Baseline
  PROVE  BaselineInstalled(b) \in Installed /\ BaselineMods(b) \in ModCompliance
BY DEF BaselineInstalled, Installed, BaselineMods, ModCompliance, ModStates,
       MOD_UNTRACKED, MOD_STATE_PENDING

-----------------------------------------------------------------------------
(* The status.                                                              *)

USE DEF SEVERITY_INFO, SEVERITY_MINOR, SEVERITY_MAJOR, SEVERITY_CRITICAL, Severities,
        CONFIG_STATUS_UNSPECIFIED, CONFIG_STATUS_IN_COMPLIANCE,
        CONFIG_STATUS_MINOR_DISCREPANCY, CONFIG_STATUS_MAJOR_DISCREPANCY,
        CONFIG_STATUS_NOT_MISSION_CAPABLE

\* Anything with a severity: a finding of the analyzer or a reported fault.
Graded(findings) == \A d \in findings : d.severity \in Severities

\* For everything in S there is something at least as severe in T.
Outweighs(T, S) == \A d \in S : \E f \in T : f.severity >= d.severity

\* Something in the set is at least that severe.
WorstOf(findings, n) == \E d \in findings : d.severity >= n

\* The status is decided by the worst severity there is.
LEMMA StatusIsWorst ==
  ASSUME NEW findings, Graded(findings)
  PROVE  OverallStatus(findings) =
           IF WorstOf(findings, 4) THEN 4 ELSE IF WorstOf(findings, 3) THEN 3
           ELSE IF WorstOf(findings, 2) THEN 2 ELSE 1
<1>1. ASSUME NEW d \in findings
      PROVE  d.severity \in 1 .. 4
  BY DEF Graded
<1>2. /\ WorstOf(findings, 4) <=> 4 \in { d.severity : d \in findings }
      /\ WorstOf(findings, 3) <=> \/ 4 \in { d.severity : d \in findings }
                                  \/ 3 \in { d.severity : d \in findings }
      /\ WorstOf(findings, 2) <=> \/ 4 \in { d.severity : d \in findings }
                                  \/ 3 \in { d.severity : d \in findings }
                                  \/ 2 \in { d.severity : d \in findings }
  BY <1>1 DEF WorstOf
<1>3. QED
  BY <1>2 DEF OverallStatus

\* What outweighs has no better status.
LEMMA OutweighedStatus ==
  ASSUME NEW S, NEW T, Graded(S), Graded(T), Outweighs(T, S)
  PROVE  OverallStatus(S) <= OverallStatus(T)
<1>1. ASSUME NEW n \in 2 .. 4, WorstOf(S, n)
      PROVE  WorstOf(T, n)
  <2>1. PICK d \in S : d.severity >= n
    BY <1>1 DEF WorstOf
  <2>2. PICK f \in T : f.severity >= d.severity
    BY DEF Outweighs
  <2>3. d.severity \in 1 .. 4 /\ f.severity \in 1 .. 4
    BY DEF Graded
  <2>4. QED
    BY <2>1, <2>2, <2>3 DEF WorstOf
<1>2. QED
  BY <1>1, StatusIsWorst

\* overall_status: a further finding never improves the status.
THEOREM MoreFindingsNeverHelp ==
  ASSUME NEW T, Graded(T), NEW S \in SUBSET T
  PROVE  OverallStatus(S) <= OverallStatus(T)
<1>1. \A d \in T : d.severity \in 1 .. 4
  BY DEF Graded
<1>2. Graded(S) /\ Outweighs(T, S)
  BY <1>1 DEF Graded, Outweighs
<1>3. QED
  BY <1>2, OutweighedStatus

-----------------------------------------------------------------------------
(* The findings.                                                            *)

LEMMA FindingsGraded ==
  ASSUME NEW b \in Baseline, NEW installed \in Installed,
         NEW mods \in ModCompliance, NEW t \in Nat
  PROVE  Graded(ComputeDiscrepancies(b, installed, mods, t))
BY ComputeDiscrepanciesType DEF Finding, Graded

\* What the status says, exactly: it is at least n on the scale MINOR, MAJOR,
\* NOT_MISSION_CAPABLE when, and only when, a required part is missing or
\* unverified, which counts as MAJOR and never grounds the asset by itself, or
\* an open mod has that category, or the category below and is tracked and past
\* its due date. An overdue INFO mod is therefore out of compliance, and an
\* untracked mod is never escalated.
THEOREM StatusSaysExactly ==
  ASSUME NEW b \in Baseline, NEW installed \in Installed,
         NEW mods \in ModCompliance, NEW t \in Nat,
         NEW n \in CONFIG_STATUS_MINOR_DISCREPANCY .. CONFIG_STATUS_NOT_MISSION_CAPABLE
  PROVE  OverallStatus(ComputeDiscrepancies(b, installed, mods, t)) >= n <=>
           \/ /\ n <= CONFIG_STATUS_MAJOR_DISCREPANCY
              /\ \E s \in Slots :
                   b.slots[s] = "required"
                   /\ installed[s].ci \in {Unverified, NotInstalled}
           \/ \E m \in b.required :
                /\ mods[m].state \notin
                     {MOD_STATE_APPLIED, MOD_STATE_WAIVED, MOD_STATE_NOT_APPLICABLE}
                /\ \/ b.severity[m] >= n
                   \/ /\ mods[m].state # MOD_UNTRACKED
                      /\ b.severity[m] >= n - 1
                      /\ b.due[m] > 0 /\ t \div Second > b.due[m]
<1> DEFINE found == ComputeDiscrepancies(b, installed, mods, t)
           Missing == MissingSlots(b, installed)
           Open == OpenMods(b, mods)
<1>1. Graded(found)
  BY FindingsGraded
<1>2. OverallStatus(found) >= n <=> \E d \in found : d.severity >= n
  <2> HIDE DEF found
  <2>1. OverallStatus(found) =
          IF WorstOf(found, 4) THEN 4 ELSE IF WorstOf(found, 3) THEN 3
          ELSE IF WorstOf(found, 2) THEN 2 ELSE 1
    BY <1>1, StatusIsWorst
  <2>2. \A d \in found : d.severity \in 1 .. 4
    BY <1>1 DEF Graded
  <2>3. CASE n = 2
    BY <2>1, <2>2, <2>3 DEF WorstOf
  <2>4. CASE n = 3
    BY <2>1, <2>2, <2>4 DEF WorstOf
  <2>5. CASE n = 4
    BY <2>1, <2>2, <2>5 DEF WorstOf
  <2>6. QED
    BY <2>3, <2>4, <2>5
<1>3. (\E d \in found : d.severity >= n) <=>
        \/ \E s \in Missing : SlotFinding(b, installed, s, t).severity >= n
        \/ \E m \in Open : ModFinding(b, mods, m, t).severity >= n
  BY DEF ComputeDiscrepancies
<1>4. \A s : SlotFinding(b, installed, s, t).severity = 3
  BY DEF SlotFinding
<1>5. ASSUME NEW m \in Open
      PROVE  ModFinding(b, mods, m, t).severity >= n <=>
               \/ b.severity[m] >= n
               \/ /\ mods[m].state # MOD_UNTRACKED
                  /\ b.severity[m] >= n - 1
                  /\ IsOverdue(b, m, t)
  <2>1. b.severity[m] \in 1 .. 4
    BY DEF OpenMods, Baseline
  <2>2. ModFinding(b, mods, m, t).severity =
          IF mods[m].state # MOD_UNTRACKED /\ IsOverdue(b, m, t)
          THEN Escalate(b.severity[m]) ELSE b.severity[m]
    BY DEF ModFinding
  <2>3. Escalate(b.severity[m]) >= n <=>
          b.severity[m] >= n \/ b.severity[m] >= n - 1
    BY <2>1 DEF Escalate
  <2>4. CASE mods[m].state # MOD_UNTRACKED /\ IsOverdue(b, m, t)
    BY <2>2, <2>3, <2>4
  <2>5. CASE ~(mods[m].state # MOD_UNTRACKED /\ IsOverdue(b, m, t))
    BY <2>2, <2>5
  <2>6. QED
    BY <2>4, <2>5
<1> HIDE DEF found
<1>6. QED
  BY <1>2, <1>3, <1>4, <1>5 DEF found, MissingSlots, OpenMods, IsOverdue

\* Rounding down keeps the order.
LEMMA FlooredOrder ==
  ASSUME NEW a \in Nat, NEW c \in Nat, a <= c
  PROVE  a \div Second <= c \div Second
<1> DEFINE p == a \div Second
           q == c \div Second
<1>1. Second \in Nat /\ Second > 0 /\ p \in Int /\ q \in Int
  BY SecondAssumption
<1>2. p * Second <= a /\ c < (q + 1) * Second
  BY <1>1
<1>3. SUFFICES ASSUME q + 1 <= p PROVE FALSE
  BY <1>1
<1> HIDE DEF p, q
<1>4. (q + 1) * Second <= p * Second
  BY <1>1, <1>3
<1>5. p * Second \in Int /\ (q + 1) * Second \in Int
  BY <1>1
<1>6. QED
  BY <1>2, <1>4, <1>5

\* With the same configuration and baseline, the status never improves as time
\* goes by: a due date only ever turns pending into overdue, one level up.
THEOREM TimeNeverHelps ==
  ASSUME NEW b \in Baseline, NEW installed \in Installed,
         NEW mods \in ModCompliance, NEW t \in Nat, NEW later \in Nat, t <= later
  PROVE  OverallStatus(ComputeDiscrepancies(b, installed, mods, t))
           <= OverallStatus(ComputeDiscrepancies(b, installed, mods, later))
<1> DEFINE S == ComputeDiscrepancies(b, installed, mods, t)
           T == ComputeDiscrepancies(b, installed, mods, later)
<1>1. ASSUME NEW s \in MissingSlots(b, installed)
      PROVE  /\ SlotFinding(b, installed, s, later) \in T
             /\ SlotFinding(b, installed, s, later).severity
                  >= SlotFinding(b, installed, s, t).severity
  BY DEF SlotFinding, ComputeDiscrepancies
<1>2. ASSUME NEW m \in OpenMods(b, mods)
      PROVE  /\ ModFinding(b, mods, m, later) \in T
             /\ ModFinding(b, mods, m, later).severity
                  >= ModFinding(b, mods, m, t).severity
  <2>1. m \in Mods /\ b.severity[m] \in 1 .. 4 /\ b.due[m] \in Nat
    BY DEF OpenMods, Baseline
  <2>2. IsOverdue(b, m, t) => IsOverdue(b, m, later)
    <3>1. t \div Second <= later \div Second
      BY FlooredOrder
    <3>2. t \div Second \in Int /\ later \div Second \in Int
      BY SecondAssumption
    <3>3. QED
      BY <2>1, <3>1, <3>2 DEF IsOverdue
  <2>3. Escalate(b.severity[m]) >= b.severity[m]
        /\ b.severity[m] >= b.severity[m]
        /\ Escalate(b.severity[m]) >= Escalate(b.severity[m])
    BY <2>1 DEF Escalate
  <2>4. \A x : ModFinding(b, mods, m, x).severity =
                IF mods[m].state # MOD_UNTRACKED /\ IsOverdue(b, m, x)
                THEN Escalate(b.severity[m]) ELSE b.severity[m]
    BY DEF ModFinding
  <2>5. ModFinding(b, mods, m, later) \in T
    BY DEF ComputeDiscrepancies
  <2>6. QED
    BY <2>2, <2>3, <2>4, <2>5
<1>3. Outweighs(T, S)
  BY <1>1, <1>2 DEF Outweighs, ComputeDiscrepancies
<1>4. Graded(S) /\ Graded(T)
  BY FindingsGraded
<1> HIDE DEF S, T
<1>5. QED
  BY <1>3, <1>4, OutweighedStatus DEF S, T

\* Filling slots with configuration items and settling mods, in any order and
\* any part of them, never worsens the status.
THEOREM RepairsNeverHurt ==
  ASSUME NEW b \in Baseline, NEW t \in Nat,
         NEW installed \in Installed, NEW repaired \in Installed,
         NEW mods \in ModCompliance, NEW settled \in ModCompliance,
         \A s \in Slots : repaired[s] = installed[s] \/
           repaired[s].ci \notin {Unverified, NotInstalled},
         \A m \in Mods : settled[m] = mods[m] \/ settled[m].state \in
           {MOD_STATE_APPLIED, MOD_STATE_WAIVED, MOD_STATE_NOT_APPLICABLE}
  PROVE  OverallStatus(ComputeDiscrepancies(b, repaired, settled, t))
           <= OverallStatus(ComputeDiscrepancies(b, installed, mods, t))
<1> DEFINE S == ComputeDiscrepancies(b, repaired, settled, t)
           T == ComputeDiscrepancies(b, installed, mods, t)
<1>1. ASSUME NEW s \in MissingSlots(b, repaired)
      PROVE  SlotFinding(b, repaired, s, t) \in T
  <2>1. s \in Slots /\ repaired[s] = installed[s]
    BY DEF MissingSlots
  <2>2. s \in MissingSlots(b, installed)
        /\ SlotFinding(b, repaired, s, t) = SlotFinding(b, installed, s, t)
    BY <2>1 DEF MissingSlots, SlotFinding
  <2>3. QED
    BY <2>2 DEF ComputeDiscrepancies
<1>2. ASSUME NEW m \in OpenMods(b, settled)
      PROVE  ModFinding(b, settled, m, t) \in T
  <2>1. m \in Mods /\ settled[m] = mods[m]
    BY DEF OpenMods, Baseline
  <2>2. m \in OpenMods(b, mods)
        /\ ModFinding(b, settled, m, t) = ModFinding(b, mods, m, t)
    BY <2>1 DEF OpenMods, ModFinding
  <2>3. QED
    BY <2>2 DEF ComputeDiscrepancies
<1>3. S \in SUBSET T
  BY <1>1, <1>2 DEF ComputeDiscrepancies
<1>4. Graded(T)
  BY FindingsGraded
<1> HIDE DEF S, T
<1>5. QED
  BY <1>3, <1>4, MoreFindingsNeverHelp DEF S, T
=============================================================================
