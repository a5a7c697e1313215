------------------------------- MODULE Access -------------------------------
(***************************************************************************)
(* The sessions of one persona on its source: a session asks for a page    *)
(* again and again, gets it from the cache or from the site                *)
(* (fetchers/playwright-fetcher.ts), and reports the signals it finds in   *)
(* an answer of the site (scheduler/session-manager.ts), which take points *)
(* off the persona.  The warmer of profiles runs beside them in a program  *)
(* of its own (persona/warmer.ts).                                         *)
(*                                                                         *)
(* The sessions of a persona exclude each other (ConcurrencyGuard), and    *)
(* callers that race for the gate are in SessionManager: here one session  *)
(* follows the other.  One page stands for all: entries of the cache share *)
(* no file.  A response is a member of Responses.  There are at most       *)
(* MaxFetches answers and MaxReports reports, the warmer starts at most    *)
(* MaxWarmings times, and the clock stops at MaxTime.                      *)
(***************************************************************************)
EXTENDS HtmlCache, PersonaHealth

CONSTANTS
    Responses,    \* the answers of the site
    MaxFetches, MaxReports, MaxWarmings, MaxTime

Response == [status : {200, 403, 429, 500},
             marks : SUBSET {"challenge", "small", "captcha"},
             refusals : Nat]

ASSUME AccessConstants ==
    /\ Responses \subseteq Response
    /\ {MaxFetches, MaxReports, MaxWarmings, MaxTime} \subseteq Nat

VARIABLES
    stage,      \* what the session does; "idle" without one
    response,   \* the last answer of the site
    fetches, reports, warmings, clock

counters == <<fetches, reports, warmings, clock>>
vars == <<cacheVars, healthVars, stage, response, counters>>

NoResponse == [status |-> 500, marks |-> {}, refusals |-> 0]

Init ==
    /\ CacheInit /\ HealthInit
    /\ stage = "idle" /\ response = NoResponse
    /\ fetches = 0 /\ reports = 0 /\ warmings = 0 /\ clock = 1

-----------------------------------------------------------------------------
(***************************************************************************)
(* The session: the gate, and the pages it asks for.                       *)
(***************************************************************************)
StartSession ==
    /\ stage = "idle" /\ ~IsCoolingDown(clock)
    /\ stage' = "page"
    /\ UNCHANGED <<cacheVars, healthVars, response, counters>>

FetchCached ==
    /\ stage = "page" /\ Hit(clock)
    /\ stage' = "served"
    /\ UNCHANGED <<cacheVars, healthVars, response, counters>>

\* No hit, or forceFetch.
FetchMiss ==
    /\ stage = "page" /\ fetches < MaxFetches
    /\ stage' = "request"
    /\ UNCHANGED <<cacheVars, healthVars, response, counters>>

\* loadAndCapture(): a page of status 2xx goes to the cache, whatever it is.
Respond(r) ==
    /\ stage = "request"
    /\ response' = r /\ fetches' = fetches + 1
    /\ IF r.status \in 200..299
       THEN stage' = "set" /\ SetBegins(fetches + 1, clock)
       ELSE stage' = "answered" /\ UNCHANGED cacheVars
    /\ UNCHANGED <<healthVars, reports, warmings, clock>>

CacheStep ==
    /\ stage = "set"
    /\ OpenHtml \/ OpenMeta \/ WriteHtml \/ WriteMeta
    /\ UNCHANGED <<healthVars, stage, response, counters>>

Cached ==
    /\ stage = "set" /\ SetEnds
    /\ stage' = "answered"
    /\ UNCHANGED <<healthVars, response, counters>>

NextPage ==
    /\ stage \in {"served", "answered"}
    /\ stage' = "page"
    /\ UNCHANGED <<cacheVars, healthVars, response, counters>>

\* reportSignals(), for an answer that has signals.
Report ==
    /\ stage = "answered" /\ reports < MaxReports
    /\ ReportBegins(DeltaForSignals(response))
    /\ stage' = "report" /\ reports' = reports + 1
    /\ UNCHANGED <<cacheVars, response, fetches, warmings, clock>>

ReportStep ==
    /\ stage = "report"
    /\ PenalizeReads \/ PenalizeSaves(clock) \/ Judge(clock)
         \/ RetireSaves(clock) \/ CooldownSaves
    /\ stage' = IF report'.step = "none" THEN "page" ELSE "report"
    /\ UNCHANGED <<cacheVars, response, counters>>

EndSession ==
    /\ stage = "page"
    /\ stage' = "idle"
    /\ UNCHANGED <<cacheVars, healthVars, response, counters>>

\* The process dies, or a step of it throws and ends the session.
Crash ==
    /\ stage # "idle"
    /\ SetCut /\ ReportCut
    /\ stage' = "idle"
    /\ UNCHANGED <<response, counters>>

-----------------------------------------------------------------------------
WarmBegins ==
    /\ warmings < MaxWarmings /\ WarmReads
    /\ warmings' = warmings + 1
    /\ UNCHANGED <<cacheVars, stage, response, fetches, reports, clock>>

WarmEnds ==
    /\ WarmSaves \/ WarmerDies
    /\ UNCHANGED <<cacheVars, stage, response, counters>>

Tick ==
    /\ clock < MaxTime
    /\ clock' = clock + 1
    /\ UNCHANGED <<cacheVars, healthVars, stage, response, fetches, reports,
                   warmings>>

Next ==
    \/ StartSession \/ FetchCached \/ FetchMiss
    \/ \E r \in Responses : Respond(r)
    \/ CacheStep \/ Cached \/ NextPage
    \/ Report \/ ReportStep
    \/ EndSession \/ Crash
    \/ WarmBegins \/ WarmEnds
    \/ Tick

Spec == Init /\ [][Next]_vars

-----------------------------------------------------------------------------
TypeOK ==
    /\ CacheTypes /\ HealthTypes
    /\ stage \in {"idle", "page", "request", "set", "served", "answered",
                  "report"}
    /\ response \in Response
    /\ fetches \in Nat /\ reports \in Nat /\ warmings \in Nat
    /\ clock \in Nat

\* The account of the points of a persona.  The score never falls below what
\* the reports have left of the hundred points, and it is above that by no
\* more than the points reported while markWarmed() was at work, whose old
\* copy may undo them: no crash between penalize() and the verdict, no retry
\* and no other order of the writes loses a point or takes one twice.  A
\* persona is retired only when the reports took more than eighty points, and
\* rests only when they took more than fifty (persona/manager.ts:158-197,
\* detection/health-scorer.ts:94-120).
Left(points) == IF points > 100 THEN 0 ELSE 100 - points

Accounted(state) ==
    /\ state.retired = 0 => state.healthScore >= Left(total)
    /\ state.healthScore <= Left(total - atRisk)
    /\ state.retired # 0 => state.healthScore = 0 /\ total > 80
    /\ state.cooldownUntil # 0 => total > 50

\* The types, and the account of the points.
HealthInv == TypeOK /\ Accounted(file)

\* What is served from the cache.  The page and its metadata are of one
\* fetch unless the last set() of the entry did not end.  If it did not, the
\* page is still good for its days, unless it is torn or older than its
\* metadata; and whatever the deaths in set() left behind, it is served no
\* longer than an entry is good after the last set() began
\* (cache/html-cache.ts:147-209).
ServedWhole ==
    [][stage = "page" /\ stage' = "served" =>
         /\ ~dirty => html = meta.number
         /\ html # Torn /\ html >= meta.number
              => clock - fetchedAt <= TTL_DAYS
         /\ clock - begunAt <= TTL_DAYS]_vars

\* A session of a persona below 50 begins only when its rest since it last
\* lost points is over, however often it crashed, was warmed and rested
\* before, unless since the last verdict a report was cut off before its own
\* or a warming wrote its old copy over it: the next verdict, whoever else
\* writes, gives the rest again.  A retired persona is let in by the gate
\* (health-scorer.ts:101-117, scheduler/session-manager.ts:157-162).
Rested ==
    [][/\ stage = "idle" /\ stage' = "page" /\ ~interrupted
       /\ file.retired = 0 /\ file.healthScore < 50
       => clock >= lastDrop + COOLDOWN_DURATION]_vars
=============================================================================
