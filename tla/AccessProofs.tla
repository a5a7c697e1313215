---------------------------- MODULE AccessProofs ----------------------------
(***************************************************************************)
(* Proofs about Access, for every set of responses, every rest and every   *)
(* age of an entry: the account of the points, the rest of a persona, and  *)
(* the page that is served with its metadata.  The cache and the state     *)
(* file share no variable, so that the invariant has a part for each, and  *)
(* a lemma for each operation on it.                                       *)
(***************************************************************************)
EXTENDS Access, TLAPS

\* The files of the entry: outside of a set() that was cut off they are a
\* pair, and during a set() those that are written are of its fetch.
Paired ==
  /\ toOpen \cap opened = {}
  /\ ~dirty => /\ toOpen = {} /\ opened = {}
               /\ html = meta.number /\ meta.at = fetchedAt
  /\ stage = "set" =>
       /\ dirty
       /\ "html" \notin toOpen \cup opened =>
            html = fresh.number /\ fetchedAt = fresh.at
       /\ "meta" \notin toOpen \cup opened => meta = fresh

\* Numbers and times grow together: a page that is not older than its
\* metadata by its number is not older by its time, whatever set() left.
Ordered ==
  /\ html <= fetches /\ meta.number <= fetches
  /\ fetchedAt <= begunAt /\ meta.at <= begunAt /\ begunAt <= clock
  /\ html # Torn /\ html >= meta.number => fetchedAt >= meta.at
  /\ stage = "set" =>
       /\ fresh.number = fetches /\ fresh.at = begunAt
       /\ "html" \in toOpen => html < fetches
       /\ "html" \in opened => html = Torn

\* The state file and every copy of it that is still to be written back.
Counted ==
  /\ Accounted(file)
  /\ report.step \in {"penalizing", "retiring", "cooling"} =>
       Accounted(report.copy)
  /\ warmer.step = "saving" => Accounted(warmer.copy)

\* What the verdict of a report that is not over will find, and the rest
\* that the last verdict has given.
Verdict ==
  /\ report.step \in {"penalize", "penalizing"} => report.delta > 0
  /\ report.step = "judge" =>
       /\ report.after < 20 => total > 80
       /\ report.after < 50 => total > 50
       /\ ~interrupted => report.after = file.healthScore
  /\ report.step = "retiring" => total > 80
  /\ report.step = "cooling" =>
       total > 50 /\ report.until >= lastDrop + COOLDOWN_DURATION

Resting ==
  /\ ~interrupted
  /\ report.step \notin {"judge", "retiring", "cooling"}
  /\ file.retired = 0 /\ file.healthScore < 50
  => file.cooldownUntil >= lastDrop + COOLDOWN_DURATION

Clocked ==
  /\ clock > 0 /\ lastDrop <= clock
  /\ stage # "report" => report.step = "none"

CachePart  == CacheTypes /\ Paired /\ Ordered
HealthPart == HealthTypes /\ Counted /\ Verdict /\ Resting

SessionTypes ==
  /\ stage \in {"idle", "page", "request", "set", "served", "answered",
                "report"}
  /\ response \in Response
  /\ fetches \in Nat /\ reports \in Nat /\ warmings \in Nat
  /\ clock \in Nat

AccessInv == SessionTypes /\ CachePart /\ HealthPart /\ Clocked

-----------------------------------------------------------------------------
(* The points of a response.                                               *)

LEMMA PointsAreNat ==
  ASSUME NEW r \in Response
  PROVE  DeltaForSignals(r) \in Nat
<1>1. r.refusals \in Nat
      BY DEF Response
<1>2. r.refusals * 50 \in Nat
      BY <1>1
<1> QED
  BY <1>2 DEF DeltaForSignals, SeverityDelta

-----------------------------------------------------------------------------
(* The cache.                                                              *)

LEMMA NoFetchType == NoFetch \in [number : Int, at : Nat]
BY DEF NoFetch, None

LEMMA CacheStarts == ASSUME Init PROVE CachePart
<1>1. html = 0 /\ html \in Int
      BY DEF Init, CacheInit, None
<1>2. meta \in [number : Int, at : Nat] /\ fresh \in [number : Int, at : Nat]
      BY NoFetchType DEF Init, CacheInit
<1>3. /\ toOpen \subseteq Files /\ opened \subseteq Files
      /\ dirty \in BOOLEAN /\ begunAt \in Nat /\ fetchedAt \in Nat
      BY DEF Init, CacheInit
<1>4. Paired /\ Ordered
      BY DEF Init, CacheInit, Paired, Ordered, NoFetch, None
<1> QED
  BY <1>1, <1>2, <1>3, <1>4 DEF CachePart, CacheTypes

\* Answers that are not cached, and time, pass the entry by.
LEMMA CacheStays ==
  ASSUME CachePart, UNCHANGED cacheVars,
         fetches \in Nat, fetches' \in Nat, fetches <= fetches',
         clock \in Nat, clock' \in Nat, clock <= clock',
         stage' = "set" <=> stage = "set",
         stage = "set" => fetches' = fetches
  PROVE  CachePart'
<1>1. CacheTypes' /\ Paired'
      BY DEF CachePart, CacheTypes, Paired, cacheVars, Files
<1>2. Ordered'
      BY DEF CachePart, CacheTypes, Ordered, cacheVars, Files
<1> QED
  BY <1>1, <1>2 DEF CachePart

LEMMA SetBeginsKeeps ==
  ASSUME CachePart, fetches \in Nat, clock \in Nat,
         SetBegins(fetches + 1, clock), stage' = "set",
         fetches' = fetches + 1, clock' = clock
  PROVE  CachePart'
<1>1. CacheTypes' /\ Paired'
      BY DEF CachePart, CacheTypes, Paired, SetBegins, Files
<1>2. Ordered'
      BY DEF CachePart, CacheTypes, Ordered, SetBegins, Files
<1> QED
  BY <1>1, <1>2 DEF CachePart

LEMMA CacheStepKeeps ==
  ASSUME CachePart, CacheStep, fetches \in Nat, clock \in Nat
  PROVE  CachePart'
<1>1. stage = "set" /\ stage' = "set" /\ fetches' = fetches /\ clock' = clock
      BY DEF CacheStep, counters
<1>2. CASE OpenHtml
  <2>1. CacheTypes' /\ Paired'
        BY <1>1, <1>2
           DEF CachePart, CacheTypes, Paired, OpenHtml, Torn, Files
  <2>2. Ordered'
        BY <1>1, <1>2
           DEF CachePart, CacheTypes, Ordered, OpenHtml, Torn, Files
  <2> QED
    BY <2>1, <2>2 DEF CachePart
<1>3. CASE OpenMeta
  <2>1. CacheTypes' /\ Paired'
        BY <1>1, <1>3
           DEF CachePart, CacheTypes, Paired, OpenMeta, Torn, Files
  <2>2. Ordered'
        BY <1>1, <1>3
           DEF CachePart, CacheTypes, Ordered, OpenMeta, Torn, Files
  <2> QED
    BY <2>1, <2>2 DEF CachePart
<1>4. CASE WriteHtml
  <2>1. CacheTypes' /\ Paired'
        BY <1>1, <1>4 DEF CachePart, CacheTypes, Paired, WriteHtml, Files
  <2>2. Ordered'
        BY <1>1, <1>4
           DEF CachePart, CacheTypes, Paired, Ordered, WriteHtml, Files
  <2> QED
    BY <2>1, <2>2 DEF CachePart
<1>5. CASE WriteMeta
  <2>1. CacheTypes' /\ Paired'
        BY <1>1, <1>5 DEF CachePart, CacheTypes, Paired, WriteMeta, Files
  <2>2. Ordered'
        BY <1>1, <1>5
           DEF CachePart, CacheTypes, Paired, Ordered, WriteMeta, Files
  <2> QED
    BY <2>1, <2>2 DEF CachePart
<1> QED
  BY <1>2, <1>3, <1>4, <1>5 DEF CacheStep

LEMMA SetEndsKeeps ==
  ASSUME CachePart, Cached
  PROVE  CachePart'
<1>1. /\ stage = "set" /\ stage' = "answered" /\ SetEnds
      /\ fetches' = fetches /\ clock' = clock
      BY DEF Cached, counters
<1>2. html = meta.number /\ meta.at = fetchedAt
      BY <1>1 DEF CachePart, Paired, SetEnds
<1>3. CacheTypes'
      BY <1>1, NoFetchType DEF CachePart, CacheTypes, SetEnds
<1>4. Paired' /\ Ordered'
      BY <1>1, <1>2 DEF CachePart, Paired, Ordered, SetEnds
<1> QED
  BY <1>3, <1>4 DEF CachePart

LEMMA SetCutKeeps ==
  ASSUME CachePart, SetCut, stage' = "idle", UNCHANGED counters
  PROVE  CachePart'
<1>1. CacheTypes' /\ Paired'
      BY NoFetchType DEF CachePart, CacheTypes, Paired, SetCut
<1>2. Ordered'
      BY DEF CachePart, Ordered, SetCut, counters
<1> QED
  BY <1>1, <1>2 DEF CachePart

-----------------------------------------------------------------------------
(* The state file.                                                         *)

LEMMA InitialIsState == InitialState \in State
BY DEF InitialState, State

LEMMA NoReportType == NoReport \in ReportStates
BY InitialIsState DEF NoReport, ReportStates

LEMMA HealthStarts == ASSUME Init PROVE HealthPart
<1>1. file = InitialState /\ file \in State
      BY InitialIsState DEF Init, HealthInit
<1>2. report = NoReport /\ report \in ReportStates
      BY NoReportType DEF Init, HealthInit
<1>3. warmer \in [step : {"none", "saving"}, copy : State]
      BY InitialIsState DEF Init, HealthInit, NoWarming
<1>4. /\ total = 0 /\ atRisk = 0 /\ total \in Nat /\ atRisk \in 0..total
      /\ interrupted \in BOOLEAN /\ lastDrop \in Nat
  <2>1. total = 0 /\ atRisk = 0 /\ lastDrop = 0
        BY DEF Init, HealthInit
  <2>2. interrupted \in BOOLEAN
        BY DEF Init, HealthInit
  <2> QED
    BY <2>1, <2>2
<1>5. file.healthScore = 100 /\ file.retired = 0 /\ file.cooldownUntil = 0
      BY <1>1 DEF InitialState
<1>6. report.step = "none" /\ warmer.step = "none"
      BY <1>2 DEF NoReport, Init, HealthInit, NoWarming
<1>7. Accounted(file)
      BY <1>4, <1>5 DEF Accounted, Left
<1> QED
  BY <1>1, <1>2, <1>3, <1>4, <1>5, <1>6, <1>7
     DEF HealthPart, HealthTypes, Counted, Verdict, Resting

LEMMA HealthStays ==
  ASSUME HealthPart, UNCHANGED healthVars
  PROVE  HealthPart'
BY DEF HealthPart, HealthTypes, Counted, Accounted, Verdict, Resting,
       healthVars

LEMMA ReportBeginsKeeps ==
  ASSUME HealthPart, NEW delta \in Nat, ReportBegins(delta)
  PROVE  HealthPart'
<1>1. report' \in ReportStates
      BY NoReportType DEF ReportBegins, ReportStates
<1>2. report'.step = "penalize" /\ report'.delta > 0
      BY DEF ReportBegins, NoReport
<1> QED
  BY <1>1, <1>2
     DEF HealthPart, HealthTypes, Counted, Accounted, Verdict, Resting,
         ReportBegins

LEMMA PenalizeReadsKeeps ==
  ASSUME HealthPart, PenalizeReads
  PROVE  HealthPart'
<1>1. report' \in ReportStates
      BY DEF PenalizeReads, HealthPart, HealthTypes, ReportStates
<1>2. /\ report'.step = "penalizing" /\ report'.delta > 0
      /\ report'.copy = file
      BY DEF PenalizeReads, HealthPart, HealthTypes, ReportStates, Verdict
<1> QED
  BY <1>1, <1>2
     DEF HealthPart, HealthTypes, Counted, Accounted, Verdict, Resting,
         PenalizeReads

LEMMA PenalizedState ==
  ASSUME NEW copy \in State, NEW delta \in Nat
  PROVE  /\ Penalized(copy, delta) \in State
         /\ Penalized(copy, delta).retired = copy.retired
         /\ Penalized(copy, delta).cooldownUntil = copy.cooldownUntil
         /\ Penalized(copy, delta).healthScore =
              IF copy.healthScore > delta THEN copy.healthScore - delta
                                          ELSE 0
BY DEF Penalized, State

LEMMA PenalizeSavesKeeps ==
  ASSUME HealthPart, NEW now \in Nat, PenalizeSaves(now)
  PROVE  HealthPart'
<1> DEFINE next == Penalized(report.copy, report.delta)
           risk == IF warmer.step = "saving" THEN report.delta ELSE 0
<1>1. /\ report.step = "penalizing" /\ report.delta > 0
      /\ report.copy \in State /\ report.delta \in Nat
      /\ total \in Nat /\ atRisk \in 0..total
      /\ Accounted(report.copy)
      BY DEF PenalizeSaves, HealthPart, HealthTypes, ReportStates, Verdict,
             Counted
<1>2. /\ next \in State /\ next.retired = report.copy.retired
      /\ next.cooldownUntil = report.copy.cooldownUntil
      /\ next.healthScore =
           IF report.copy.healthScore > report.delta
           THEN report.copy.healthScore - report.delta ELSE 0
      BY <1>1, PenalizedState
<1>3. /\ file' = next
      /\ report' = [report EXCEPT !.step = "judge",
                                  !.after = next.healthScore]
      /\ total' = total + report.delta /\ atRisk' = atRisk + risk
      /\ lastDrop' = now /\ UNCHANGED <<warmer, interrupted>>
      BY DEF PenalizeSaves, Save
<1> HIDE DEF next
<1>4. /\ report' \in ReportStates
      /\ report'.step = "judge" /\ report'.after = next.healthScore
      BY <1>2, <1>3 DEF HealthPart, HealthTypes, ReportStates, State
<1>5. /\ total' \in Nat /\ atRisk' \in 0..total' /\ total' >= total
      /\ atRisk' \in {atRisk, atRisk + report.delta}
      /\ warmer.step = "saving" => atRisk' = atRisk + report.delta
      BY <1>1, <1>3
<1>6. HealthTypes'
      BY <1>2, <1>3, <1>4, <1>5 DEF HealthPart, HealthTypes
<1>7. Accounted(file)'
  <2>1. report.copy.healthScore \in 0..100
        BY <1>1 DEF State
  <2>2. report.copy.healthScore >= Left(total) =>
          next.healthScore >= Left(total')
    <3>1. total' = total + report.delta /\ total \in Nat
          BY <1>1, <1>3
    <3>2. /\ report.copy.healthScore \in Int /\ report.delta \in Nat
          /\ next.healthScore =
               IF report.copy.healthScore > report.delta
               THEN report.copy.healthScore - report.delta ELSE 0
          BY <2>1, <1>1, <1>2
    <3> QED
      BY <3>1, <3>2, SMTT(30) DEF Left
  <2>3. next.healthScore <= Left(total' - atRisk')
    <3>1. report.copy.healthScore <= Left(total - atRisk)
          BY <1>1 DEF Accounted
    <3>2. CASE atRisk' = atRisk
      BY <2>1, <3>1, <3>2, <1>1, <1>2, <1>3, SMTT(30) DEF Left
    <3>3. CASE atRisk' = atRisk + report.delta
      <4>1. total' - atRisk' = total - atRisk
            BY <3>3, <1>1, <1>3
      <4>2. next.healthScore <= report.copy.healthScore
            BY <2>1, <1>1, <1>2
      <4>3. next.healthScore \in Int /\ Left(total - atRisk) \in Int
            BY <2>1, <1>1, <1>2 DEF Left
      <4> QED
        BY <2>1, <3>1, <4>1, <4>2, <4>3
    <3> QED
      BY <3>2, <3>3, <1>5
  <2>4. report.copy.healthScore = 0 => next.healthScore = 0
        BY <1>1, <1>2, <2>1, SMTT(30)
  <2> QED
    BY <2>2, <2>3, <2>4, <1>1, <1>2, <1>3, <1>5 DEF Accounted
<1>8. warmer.step = "saving" => Accounted(warmer.copy)'
  <2> SUFFICES ASSUME warmer.step = "saving"
               PROVE  Accounted(warmer.copy)'
    OBVIOUS
  <2>1. Accounted(warmer.copy) /\ warmer.copy.healthScore \in 0..100
        BY DEF HealthPart, Counted, HealthTypes, State
  <2>2. /\ warmer.copy.healthScore >= Left(total) =>
             warmer.copy.healthScore >= Left(total')
        /\ warmer.copy.healthScore <= Left(total' - atRisk')
        BY <2>1, <1>1, <1>3, <1>5 DEF Accounted, Left
  <2> QED
    BY <2>1, <2>2, <1>1, <1>3, <1>5 DEF Accounted
<1>9. Counted'
      BY <1>3, <1>4, <1>7, <1>8 DEF Counted
<1>10. Verdict'
  <2>1. next.retired = 0 => next.healthScore >= Left(total')
        BY <1>3, <1>7 DEF Accounted
  <2>2. next.retired # 0 => total' > 80
        BY <1>3, <1>7 DEF Accounted
  <2>3. /\ next.healthScore < 20 => total' > 80
        /\ next.healthScore < 50 => total' > 50
        BY <2>1, <2>2, <1>2, <1>5 DEF Left, State
  <2> QED
    BY <2>3, <1>3, <1>4 DEF Verdict
<1> QED
  BY <1>4, <1>6, <1>9, <1>10 DEF HealthPart, Resting

LEMMA JudgeKeeps ==
  ASSUME HealthPart, NEW now \in Nat, lastDrop <= now, Judge(now)
  PROVE  HealthPart'
<1>1. /\ report.step = "judge" /\ report.after \in 0..100
      /\ report.after < 20 => total > 80
      /\ report.after < 50 => total > 50
      /\ UNCHANGED <<file, warmer, total, atRisk, lastDrop>>
      /\ interrupted' = (interrupted /\ (report.after < 50
                                           \/ file.healthScore < 50))
      BY DEF Judge, HealthPart, HealthTypes, ReportStates, Verdict
<1>2. /\ interrupted' \in BOOLEAN
      /\ ~interrupted' => ~interrupted \/ ~(file.healthScore < 50)
      BY <1>1, Zenon
<1>3. /\ report' \in ReportStates
      /\ report'.step \in {"none", "retiring", "cooling"}
      /\ report'.step # "none" => report'.copy = file
      /\ report'.step = "none" => report.after >= 50
      /\ report'.step = "retiring" => report.after < 20
      /\ report'.step = "cooling" => /\ report.after < 50
                                     /\ report'.until = now + COOLDOWN_DURATION
  <2>1. CASE report.after < 20
    BY <1>1, <2>1 DEF Judge, HealthPart, HealthTypes, ReportStates
  <2>2. CASE report.after >= 20 /\ report.after < 50
    <3>1. /\ RestUntil(now) = now + COOLDOWN_DURATION
          /\ RestUntil(now) \in Nat
          BY HealthConstants DEF RestUntil, HealthConstants
    <3>2. report' = [report EXCEPT !.step = "cooling", !.copy = file,
                                   !.until = RestUntil(now)]
          BY <1>1, <2>2 DEF Judge
    <3>3. report \in ReportStates /\ file \in State
          BY DEF HealthPart, HealthTypes
    <3>4. /\ report' \in ReportStates /\ report'.step = "cooling"
          /\ report'.copy = file /\ report'.until = RestUntil(now)
          BY <3>1, <3>2, <3>3 DEF ReportStates
    <3> QED
      BY <2>2, <3>1, <3>4
  <2>3. CASE report.after >= 50
    BY <1>1, <2>3, NoReportType DEF Judge, NoReport
  <2> QED
    BY <2>1, <2>2, <2>3, <1>1
<1>4. HealthTypes' /\ Counted'
      BY <1>1, <1>2, <1>3
         DEF HealthPart, HealthTypes, Counted, Accounted
<1>5. Verdict'
      BY <1>1, <1>3, HealthConstants
         DEF HealthPart, HealthTypes, Verdict, HealthConstants
<1>6. Resting'
  <2>1. CASE report'.step = "none"
    <3>1. ~interrupted => file.healthScore >= 50
          BY <2>1, <1>1, <1>3 DEF HealthPart, Verdict
    <3>2. file.healthScore \in 0..100
          BY DEF HealthPart, HealthTypes, State
    <3> QED
      BY <3>1, <3>2, <1>1, <1>2 DEF Resting
  <2>2. CASE report'.step # "none"
    BY <2>2, <1>3 DEF Resting
  <2> QED
    BY <2>1, <2>2
<1> QED
  BY <1>4, <1>5, <1>6 DEF HealthPart

LEMMA RetireSavesKeeps ==
  ASSUME HealthPart, NEW now \in Nat, now > 0, RetireSaves(now)
  PROVE  HealthPart'
<1> DEFINE next == [report.copy EXCEPT !.healthScore = 0, !.retired = now]
<1>1. /\ next \in State /\ next.retired # 0 /\ next.healthScore = 0
  <2>1. report.copy \in State
        BY DEF HealthPart, HealthTypes, ReportStates
  <2>2. next.retired = now /\ next.healthScore = 0
        BY <2>1 DEF State
  <2>3. next \in State
    <3> DEFINE drained == [report.copy EXCEPT !.healthScore = 0]
    <3>1. drained \in State
          BY <2>1 DEF State
    <3>2. next = [drained EXCEPT !.retired = now]
          BY <2>1 DEF State
    <3> HIDE DEF drained
    <3>3. [drained EXCEPT !.retired = now] \in State
          BY <3>1 DEF State
    <3> QED
      BY <3>2, <3>3
  <2> QED
    BY <2>2, <2>3
<1>2. /\ file' = next /\ report' = NoReport
      /\ interrupted' = FALSE
      /\ UNCHANGED <<warmer, total, atRisk, lastDrop>>
      BY DEF RetireSaves, Save
<1>3. /\ total > 80 /\ total \in Nat /\ atRisk \in 0..total
      BY DEF RetireSaves, HealthPart, HealthTypes, Verdict
<1> HIDE DEF next
<1>4. report' \in ReportStates /\ report'.step = "none"
      BY <1>2, NoReportType DEF NoReport
<1>5. HealthTypes'
      BY <1>1, <1>2, <1>4 DEF HealthPart, HealthTypes
<1>6. Counted'
      BY <1>1, <1>2, <1>3, <1>4 DEF HealthPart, Counted, Accounted, Left
<1> QED
  BY <1>1, <1>2, <1>4, <1>5, <1>6 DEF HealthPart, Verdict, Resting

LEMMA CooldownSavesKeeps ==
  ASSUME HealthPart, CooldownSaves
  PROVE  HealthPart'
<1> DEFINE next == [report.copy EXCEPT !.cooldownUntil = report.until]
<1>1. /\ next \in State /\ next.retired = report.copy.retired
      /\ next.healthScore = report.copy.healthScore
      /\ next.cooldownUntil = report.until
      BY DEF HealthPart, HealthTypes, ReportStates, State
<1>2. /\ file' = next /\ report' = NoReport
      /\ report.step = "cooling" /\ interrupted' = FALSE
      /\ UNCHANGED <<warmer, total, atRisk, lastDrop>>
      BY DEF CooldownSaves, Save
<1>3. /\ total > 50 /\ Accounted(report.copy)
      /\ report.until >= lastDrop + COOLDOWN_DURATION
      BY <1>2 DEF HealthPart, Verdict, Counted
<1> HIDE DEF next
<1>4. report' \in ReportStates /\ report'.step = "none"
      BY <1>2, NoReportType DEF NoReport
<1>5. HealthTypes'
      BY <1>1, <1>2, <1>4 DEF HealthPart, HealthTypes
<1>6. Counted'
      BY <1>1, <1>2, <1>3, <1>4 DEF HealthPart, Counted, Accounted
<1>7. Verdict' /\ Resting'
      BY <1>1, <1>2, <1>3, <1>4 DEF Verdict, Resting
<1> QED
  BY <1>5, <1>6, <1>7 DEF HealthPart

\* After a cut the rest of the last verdict stands, or the verdict of a
\* report is missing.
LEMMA ReportCutKeeps ==
  ASSUME HealthPart, ReportCut
  PROVE  HealthPart'
<1>1. /\ report' = NoReport
      /\ interrupted' = \/ interrupted
                        \/ report.step \in {"judge", "retiring", "cooling"}
      /\ UNCHANGED <<file, warmer, total, atRisk, lastDrop>>
      BY DEF ReportCut
<1>2. /\ interrupted' \in BOOLEAN
      /\ ~interrupted' =>
           /\ ~interrupted
           /\ report.step \notin {"judge", "retiring", "cooling"}
      BY <1>1, Zenon
<1>3. report' \in ReportStates /\ report'.step = "none"
      BY <1>1, NoReportType DEF NoReport
<1>4. HealthTypes' /\ Counted' /\ Verdict'
      BY <1>1, <1>2, <1>3
         DEF HealthPart, HealthTypes, Counted, Accounted, Verdict
<1>5. Resting'
      BY <1>1, <1>2 DEF HealthPart, Resting
<1> QED
  BY <1>4, <1>5 DEF HealthPart

LEMMA WarmReadsKeeps ==
  ASSUME HealthPart, WarmReads
  PROVE  HealthPart'
BY DEF HealthPart, HealthTypes, Counted, Accounted, Verdict, Resting,
       WarmReads

\* What a warming writes back is accounted, old or not; when it is old, the
\* next verdict has to give the rest.
LEMMA WarmEndsKeeps ==
  ASSUME HealthPart, WarmSaves \/ WarmerDies
  PROVE  HealthPart'
<1>1. /\ NoWarming \in [step : {"none", "saving"}, copy : State]
      /\ NoWarming.step = "none"
      BY InitialIsState DEF NoWarming
<1>2. CASE WarmerDies
  BY <1>1, <1>2
     DEF HealthPart, HealthTypes, Counted, Accounted, Verdict, Resting,
         WarmerDies
<1>3. CASE WarmSaves
  <2> DEFINE next == [warmer.copy EXCEPT !.warmedUp = "yes"]
  <2>1. /\ next \in State /\ next.retired = warmer.copy.retired
        /\ next.healthScore = warmer.copy.healthScore
        /\ next.cooldownUntil = warmer.copy.cooldownUntil
        BY DEF HealthPart, HealthTypes, State
  <2>2. /\ file' = next /\ warmer' = NoWarming
        /\ interrupted' = (interrupted \/ warmer.copy # file)
        /\ UNCHANGED <<report, total, atRisk, lastDrop>>
        BY <1>3 DEF WarmSaves, Save
  <2> HIDE DEF next
  <2>3. /\ interrupted' \in BOOLEAN
        /\ ~interrupted' => ~interrupted /\ warmer.copy = file
        BY <2>2, Zenon
  <2>4. HealthTypes'
        BY <1>1, <2>1, <2>2, <2>3 DEF HealthPart, HealthTypes
  <2>5. Accounted(warmer.copy)
        BY <1>3 DEF WarmSaves, HealthPart, Counted
  <2>6. Counted'
        BY <1>1, <2>1, <2>2, <2>5 DEF HealthPart, Counted, Accounted
  <2>7. Verdict' /\ Resting'
        BY <2>1, <2>2, <2>3 DEF HealthPart, Verdict, Resting
  <2> QED
    BY <2>4, <2>6, <2>7 DEF HealthPart
<1> QED
  BY <1>2, <1>3

-----------------------------------------------------------------------------
(* The session.                                                            *)

LEMMA InitAccess == ASSUME Init PROVE AccessInv
<1>1. NoResponse \in Response
      BY DEF NoResponse, Response
<1>2. SessionTypes
      BY <1>1 DEF Init, SessionTypes
<1>3. lastDrop = 0 /\ report.step = "none" /\ clock = 1
      BY DEF Init, HealthInit, NoReport
<1>4. Clocked
      BY <1>3 DEF Clocked
<1> QED
  BY <1>2, <1>4, CacheStarts, HealthStarts DEF AccessInv

\* A step of a report, and the time it knows of.
LEMMA ReportStepKeeps ==
  ASSUME AccessInv, ReportStep
  PROVE  HealthPart' /\ lastDrop' <= clock
<1>1. /\ HealthPart /\ clock \in Nat /\ clock > 0 /\ lastDrop <= clock
      /\ lastDrop \in Nat
      BY DEF AccessInv, SessionTypes, Clocked, HealthPart, HealthTypes
<1>2. CASE PenalizeReads
  BY <1>1, <1>2, PenalizeReadsKeeps DEF PenalizeReads
<1>3. CASE PenalizeSaves(clock)
  BY <1>1, <1>3, PenalizeSavesKeeps DEF PenalizeSaves
<1>4. CASE Judge(clock)
  BY <1>1, <1>4, JudgeKeeps DEF Judge
<1>5. CASE RetireSaves(clock)
  BY <1>1, <1>5, RetireSavesKeeps DEF RetireSaves
<1>6. CASE CooldownSaves
  BY <1>1, <1>6, CooldownSavesKeeps DEF CooldownSaves
<1> QED
  BY <1>2, <1>3, <1>4, <1>5, <1>6 DEF ReportStep

LEMMA NextAccess ==
  ASSUME AccessInv, [Next]_vars
  PROVE  AccessInv'
<1>1. /\ SessionTypes /\ CachePart /\ HealthPart /\ Clocked
      /\ fetches \in Nat /\ clock \in Nat
      BY DEF AccessInv, SessionTypes
\* Steps of the session alone.
<1>2. CASE StartSession \/ FetchCached \/ FetchMiss \/ NextPage \/ EndSession
  <2>1. /\ UNCHANGED <<cacheVars, healthVars, response, counters>>
        /\ stage \notin {"set", "report"} /\ stage' \notin {"set", "report"}
        /\ stage' \in {"idle", "page", "request", "served"}
        /\ fetches' = fetches /\ clock' = clock
        BY <1>2 DEF StartSession, FetchCached, FetchMiss, NextPage,
                    EndSession, counters
  <2>2. CachePart' /\ HealthPart'
        BY <1>1, <2>1, CacheStays, HealthStays
  <2>3. SessionTypes' /\ Clocked'
        BY <1>1, <2>1 DEF SessionTypes, Clocked, counters, healthVars
  <2> QED
    BY <2>2, <2>3 DEF AccessInv
<1>3. ASSUME NEW r \in Responses, Respond(r)
      PROVE  AccessInv'
  <2>1. r \in Response
        BY AccessConstants DEF AccessConstants
  <2>2. /\ UNCHANGED <<healthVars, reports, warmings, clock>>
        /\ stage = "request" /\ stage' \in {"set", "answered"}
        /\ response' = r /\ fetches' = fetches + 1
        BY <1>3 DEF Respond
  <2>3. CachePart'
    <3>1. CASE r.status \in 200..299
      <4>1. SetBegins(fetches + 1, clock) /\ stage' = "set"
            BY <1>3, <3>1 DEF Respond
      <4> QED
        BY <1>1, <2>2, <4>1, SetBeginsKeeps
    <3>2. CASE r.status \notin 200..299
      <4>1. UNCHANGED cacheVars /\ stage' = "answered"
            BY <1>3, <3>2 DEF Respond
      <4> QED
        BY <1>1, <2>2, <4>1, CacheStays
    <3> QED
      BY <3>1, <3>2
  <2>4. HealthPart'
        BY <1>1, <2>2, HealthStays
  <2>5. SessionTypes' /\ Clocked'
        BY <1>1, <2>1, <2>2 DEF SessionTypes, Clocked, healthVars
  <2> QED
    BY <2>3, <2>4, <2>5 DEF AccessInv
<1>4. CASE CacheStep \/ Cached
  <2>1. /\ UNCHANGED <<healthVars, response, counters>>
        /\ stage = "set" /\ stage' \in {"set", "answered"}
        BY <1>4 DEF CacheStep, Cached
  <2>2. CachePart' /\ HealthPart'
        BY <1>1, <1>4, <2>1, CacheStepKeeps, SetEndsKeeps, HealthStays
  <2>3. SessionTypes' /\ Clocked'
        BY <1>1, <2>1 DEF SessionTypes, Clocked, counters, healthVars
  <2> QED
    BY <2>2, <2>3 DEF AccessInv
<1>5. CASE Report
  <2>1. /\ UNCHANGED <<cacheVars, response, fetches, warmings, clock>>
        /\ stage = "answered" /\ stage' = "report"
        /\ reports' = reports + 1
        /\ ReportBegins(DeltaForSignals(response))
        BY <1>5 DEF Report
  <2>2. HealthPart'
    <3>1. DeltaForSignals(response) \in Nat
          BY <1>1, PointsAreNat DEF SessionTypes
    <3> QED
      BY <1>1, <2>1, <3>1, ReportBeginsKeeps
  <2>3. CachePart'
        BY <1>1, <2>1, CacheStays
  <2>4. SessionTypes' /\ Clocked'
        BY <1>1, <2>1 DEF SessionTypes, Clocked, ReportBegins
  <2> QED
    BY <2>2, <2>3, <2>4 DEF AccessInv
<1>6. CASE ReportStep
  <2>1. /\ UNCHANGED <<cacheVars, response, counters>>
        /\ stage = "report"
        /\ stage' = IF report'.step = "none" THEN "page" ELSE "report"
        /\ fetches' = fetches /\ clock' = clock
        BY <1>6 DEF ReportStep, counters
  <2>2. HealthPart' /\ lastDrop' <= clock
        BY <1>6, ReportStepKeeps
  <2>3. CachePart'
        BY <1>1, <2>1, CacheStays
  <2>4. SessionTypes' /\ Clocked'
        BY <1>1, <2>1, <2>2 DEF SessionTypes, Clocked, counters
  <2> QED
    BY <2>2, <2>3, <2>4 DEF AccessInv
<1>7. CASE Crash
  <2>1. /\ SetCut /\ ReportCut /\ stage' = "idle"
        /\ UNCHANGED <<response, counters>>
        BY <1>7 DEF Crash
  <2>2. CachePart' /\ HealthPart'
        BY <1>1, <2>1, SetCutKeeps, ReportCutKeeps
  <2>3. report'.step = "none" /\ lastDrop' = lastDrop
        BY <2>1 DEF ReportCut, NoReport
  <2>4. SessionTypes' /\ Clocked'
        BY <1>1, <2>1, <2>3 DEF SessionTypes, Clocked, counters
  <2> QED
    BY <2>2, <2>4 DEF AccessInv
<1>8. CASE WarmBegins \/ WarmEnds
  <2>1. /\ UNCHANGED <<cacheVars, stage, response, fetches, reports, clock>>
        /\ UNCHANGED <<report, lastDrop>>
        /\ warmings' \in {warmings, warmings + 1}
        BY <1>8 DEF WarmBegins, WarmEnds, WarmReads, WarmSaves, WarmerDies,
                    counters
  <2>2. HealthPart'
        BY <1>1, <1>8, WarmReadsKeeps, WarmEndsKeeps DEF WarmBegins, WarmEnds
  <2>3. CachePart'
        BY <1>1, <2>1, CacheStays
  <2>4. SessionTypes' /\ Clocked'
        BY <1>1, <2>1 DEF SessionTypes, Clocked
  <2> QED
    BY <2>2, <2>3, <2>4 DEF AccessInv
<1>9. CASE Tick
  <2>1. /\ UNCHANGED <<cacheVars, healthVars, stage, response, fetches,
                       reports, warmings>>
        /\ clock' = clock + 1
        BY <1>9 DEF Tick
  <2>2. CachePart' /\ HealthPart'
        BY <1>1, <2>1, CacheStays, HealthStays
  <2>3. lastDrop \in Nat
        BY <1>1 DEF HealthPart, HealthTypes
  <2>4. SessionTypes' /\ Clocked'
        BY <1>1, <2>1, <2>3 DEF SessionTypes, Clocked, healthVars
  <2> QED
    BY <2>2, <2>4 DEF AccessInv
<1>10. CASE UNCHANGED vars
  <2>1. CachePart' /\ HealthPart'
        BY <1>1, <1>10, CacheStays, HealthStays DEF vars, counters
  <2>2. SessionTypes' /\ Clocked'
        BY <1>1, <1>10 DEF SessionTypes, Clocked, vars, counters, healthVars
  <2> QED
    BY <2>1, <2>2 DEF AccessInv
<1> QED
  BY <1>2, <1>3, <1>4, <1>5, <1>6, <1>7, <1>8, <1>9, <1>10 DEF Next

-----------------------------------------------------------------------------
(* The theorems.                                                           *)

LEMMA Invariance == Spec => []AccessInv
BY InitAccess, NextAccess, PTL DEF Spec

\* The score of a persona is what the reports have left of the hundred
\* points, but for those a warming at work may have undone; retirement and
\* rest are earned, and every variable has its type, whatever crashes
\* (PersonaManager.penalize(), retire(), cooldown(), markWarmed()).
THEOREM HealthInvariant == Spec => []HealthInv
<1>1. AccessInv => HealthInv
      BY DEF AccessInv, SessionTypes, CachePart, HealthPart, Counted,
             HealthInv, TypeOK
<1> QED
  BY <1>1, Invariance, PTL

\* What is served from the cache: a page and the metadata of its fetch unless
\* the last set() was cut off, and then a page good for its days unless it is
\* torn or older than its metadata; nothing is served longer than an entry is
\* good after the last set() began (HtmlCache).
THEOREM ServedWholeHolds == Spec => ServedWhole
<1>1. ASSUME AccessInv, [Next]_vars
      PROVE  [stage = "page" /\ stage' = "served" =>
                /\ ~dirty => html = meta.number
                /\ html # Torn /\ html >= meta.number
                     => clock - fetchedAt <= TTL_DAYS
                /\ clock - begunAt <= TTL_DAYS]_vars
  <2> SUFFICES ASSUME stage = "page", stage' = "served"
               PROVE  /\ ~dirty => html = meta.number
                      /\ html # Torn /\ html >= meta.number
                           => clock - fetchedAt <= TTL_DAYS
                      /\ clock - begunAt <= TTL_DAYS
    OBVIOUS
  <2>1. FetchCached
        BY <1>1 DEF Next, StartSession, FetchMiss, Respond, CacheStep,
             Cached, NextPage, Report, ReportStep, EndSession, Crash,
             WarmBegins, WarmEnds, Tick, vars
  <2>2. /\ ~dirty => html = meta.number
        /\ html # Torn /\ html >= meta.number => fetchedAt >= meta.at
        /\ meta.at <= begunAt
        BY <1>1 DEF AccessInv, CachePart, Paired, Ordered
  <2>3. /\ clock \in Nat /\ fetchedAt \in Nat /\ begunAt \in Nat
        /\ meta.at \in Nat /\ TTL_DAYS \in Nat
        BY <1>1, CacheConstants DEF AccessInv, SessionTypes, CachePart,
             CacheTypes, CacheConstants
  <2> QED
    BY <2>1, <2>2, <2>3 DEF FetchCached, Hit
<1> QED
  BY <1>1, Invariance, PTL DEF Spec, ServedWhole

\* A persona below fifty has rested since it last lost points when a session
\* of it begins, but for a report cut off or undone since the last verdict,
\* and retirement (HealthScorer, SessionManager's gate).
THEOREM RestedHolds == Spec => Rested
<1>1. ASSUME AccessInv, [Next]_vars
      PROVE  [/\ stage = "idle" /\ stage' = "page" /\ ~interrupted
              /\ file.retired = 0 /\ file.healthScore < 50
              => clock >= lastDrop + COOLDOWN_DURATION]_vars
  <2> SUFFICES ASSUME stage = "idle", stage' = "page",
                      ~interrupted,
                      file.retired = 0, file.healthScore < 50
               PROVE  clock >= lastDrop + COOLDOWN_DURATION
    OBVIOUS
  <2>1. StartSession
        BY <1>1 DEF Next, FetchCached, FetchMiss, Respond, CacheStep,
             Cached, NextPage, Report, ReportStep, EndSession, Crash,
             WarmBegins, WarmEnds, Tick, vars
  <2>2. report.step = "none"
        BY <1>1 DEF AccessInv, Clocked
  <2>3. file.cooldownUntil >= lastDrop + COOLDOWN_DURATION
        BY <1>1, <2>2 DEF AccessInv, HealthPart, Resting
  <2>4. /\ clock \in Nat /\ lastDrop \in Nat /\ file.cooldownUntil \in Nat
        BY <1>1 DEF AccessInv, SessionTypes, HealthPart, HealthTypes, State
  <2> QED
    BY <2>1, <2>3, <2>4, HealthConstants
       DEF StartSession, IsCoolingDown, HealthConstants
<1> QED
  BY <1>1, Invariance, PTL DEF Spec, Rested
=============================================================================
