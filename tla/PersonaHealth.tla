--------------------------- MODULE PersonaHealth ---------------------------
(***************************************************************************)
(* The state file of one persona, persona/manager.ts, and the scorer that  *)
(* takes points off it for the signals of detection,                       *)
(* detection/health-scorer.ts: below 50 the persona rests, below 20 it is  *)
(* retired.  Every operation of the manager reads the file, changes its    *)
(* copy and writes all of it back; there is no lock, and an operation of   *)
(* the warmer, which is a program of its own, may come in between.         *)
(***************************************************************************)
EXTENDS Integers

CONSTANT COOLDOWN_DURATION   \* how long a persona below 50 rests

ASSUME HealthConstants == COOLDOWN_DURATION \in Nat

VARIABLES
    file,         \* the state file; 0 is no time
    report,       \* the call of applyForPersona() in progress
    warmer,       \* the call of markWarmed() in progress
    total,        \* the points of all reports that were written
    atRisk,       \* those of them written while markWarmed() was at work
    interrupted,  \* since the last verdict one was cut off or undone
    lastDrop      \* when points were last taken off

healthVars == <<file, report, warmer, total, atRisk, interrupted, lastDrop>>

InitialState == [healthScore |-> 100, warmedUp |-> "no", retired |-> 0,
                 cooldownUntil |-> 0]

NoReport == [step |-> "none", delta |-> 0, copy |-> InitialState,
             after |-> 100, until |-> 0]
NoWarming == [step |-> "none", copy |-> InitialState]

HealthInit ==
    /\ file = InitialState /\ report = NoReport /\ warmer = NoWarming
    /\ total = 0 /\ atRisk = 0 /\ interrupted = FALSE
    /\ lastDrop = 0

IsCoolingDown(now) == now < file.cooldownUntil

-----------------------------------------------------------------------------
(***************************************************************************)
(* detectBotFlags(): what a response says of how the site sees us, and     *)
(* what the scorer takes off for it.                                       *)
(***************************************************************************)
SeverityDelta == [critical |-> 50, high |-> 20, medium |-> 10, low |-> 5]

\* A response has a status, marks, and a number of words of refusal.
DeltaForSignals(response) ==
    LET If(found, severity) == IF found THEN SeverityDelta[severity] ELSE 0
    IN  If(response.status \in {403, 429}, "high")
          + If("challenge" \in response.marks, "high")
          + If("small" \in response.marks, "medium")
          + response.refusals * SeverityDelta["critical"]
          + If("captcha" \in response.marks, "critical")

-----------------------------------------------------------------------------
(***************************************************************************)
(* applyForPersona(): penalize(), and the verdict on what is left.         *)
(***************************************************************************)
Save(state) == file' = state

\* Variant of Penalized with a bug: the score is not held at zero.
PenalizedBelowZero(copy, delta) ==
    [copy EXCEPT !.healthScore = copy.healthScore - delta]

Penalized(copy, delta) ==
    [copy EXCEPT !.healthScore =
       IF copy.healthScore > delta THEN copy.healthScore - delta ELSE 0]

\* Without a delta the file is read, and nothing is done.
ReportBegins(delta) ==
    /\ report.step = "none" /\ delta > 0
    /\ report' = [NoReport EXCEPT !.step = "penalize", !.delta = delta]
    /\ UNCHANGED <<file, warmer, total, atRisk, interrupted, lastDrop>>

PenalizeReads ==
    /\ report.step = "penalize"
    /\ report' = [report EXCEPT !.step = "penalizing", !.copy = file]
    /\ UNCHANGED <<file, warmer, total, atRisk, interrupted, lastDrop>>

PenalizeSaves(now) ==
    LET next == Penalized(report.copy, report.delta)
    IN  /\ report.step = "penalizing"
        /\ Save(next)
        /\ report' = [report EXCEPT !.step = "judge",
                                    !.after = next.healthScore]
        /\ total' = total + report.delta
        /\ atRisk' = atRisk + IF warmer.step = "saving" THEN report.delta
                                                       ELSE 0
        /\ lastDrop' = now
        /\ UNCHANGED <<warmer, interrupted>>

\* Variant of RestUntil with a bug: the rest is over as it begins.
RestUntilNow(now) == now

RestUntil(now) == now + COOLDOWN_DURATION

\* Below 20 retire() reads the file, below 50 cooldown() does.
Judge(now) ==
    /\ report.step = "judge"
    /\ report' = IF report.after < 20
                 THEN [report EXCEPT !.step = "retiring", !.copy = file]
                 ELSE IF report.after < 50
                 THEN [report EXCEPT !.step = "cooling", !.copy = file,
                                     !.until = RestUntil(now)]
                 ELSE NoReport
    /\ interrupted' = (interrupted /\ (report.after < 50
                                         \/ file.healthScore < 50))
    /\ UNCHANGED <<file, warmer, total, atRisk, lastDrop>>

RetireSaves(now) ==
    /\ report.step = "retiring"
    /\ Save([report.copy EXCEPT !.healthScore = 0, !.retired = now])
    /\ report' = NoReport /\ interrupted' = FALSE
    /\ UNCHANGED <<warmer, total, atRisk, lastDrop>>

CooldownSaves ==
    /\ report.step = "cooling"
    /\ Save([report.copy EXCEPT !.cooldownUntil = report.until])
    /\ report' = NoReport /\ interrupted' = FALSE
    /\ UNCHANGED <<warmer, total, atRisk, lastDrop>>

\* The process dies: a report that has taken points off is cut off.
ReportCut ==
    /\ report' = NoReport
    /\ interrupted' = \/ interrupted
                      \/ report.step \in {"judge", "retiring", "cooling"}
    /\ UNCHANGED <<file, warmer, total, atRisk, lastDrop>>

-----------------------------------------------------------------------------
(***************************************************************************)
(* markWarmed(), at the end of a warming.  When a report wrote the file    *)
(* meanwhile, the old copy undoes its points and its verdict.              *)
(***************************************************************************)
WarmReads ==
    /\ warmer.step = "none"
    /\ warmer' = [step |-> "saving", copy |-> file]
    /\ UNCHANGED <<file, report, total, atRisk, interrupted, lastDrop>>

WarmSaves ==
    /\ warmer.step = "saving"
    /\ Save([warmer.copy EXCEPT !.warmedUp = "yes"])
    /\ warmer' = NoWarming
    /\ interrupted' = (interrupted \/ warmer.copy # file)
    /\ UNCHANGED <<report, total, atRisk, lastDrop>>

WarmerDies ==
    /\ warmer.step = "saving"
    /\ warmer' = NoWarming
    /\ UNCHANGED <<file, report, total, atRisk, interrupted, lastDrop>>

-----------------------------------------------------------------------------
State == [healthScore : 0..100, warmedUp : {"no", "yes"},
          retired : Nat, cooldownUntil : Nat]

ReportStates == [step : {"none", "penalize", "penalizing", "judge",
                         "retiring", "cooling"},
                 delta : Nat, copy : State, after : 0..100, until : Nat]

HealthTypes ==
    /\ file \in State /\ report \in ReportStates
    /\ warmer \in [step : {"none", "saving"}, copy : State]
    /\ total \in Nat /\ atRisk \in 0..total
    /\ interrupted \in BOOLEAN /\ lastDrop \in Nat
=============================================================================
