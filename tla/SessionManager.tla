---------------------------- MODULE SessionManager ----------------------------
(***************************************************************************)
(* services/scraper/src/scheduler/session-manager.ts: one crawl session    *)
(* from the cooldown gates to the clean-up, in several processes, with     *)
(* what it coordinates: the guard, crawl.json, the error reactions, the    *)
(* cooldown of the persona and the browser behind the fetcher.             *)
(*                                                                         *)
(* The guard is the atomic one of SessionExclusion, which ConcurrencyGuard *)
(* is shown to implement, with the entries that a failed release leaves    *)
(* behind.  crawl.json is written at once (debounceMs = 0, as the scripts  *)
(* construct it), so an update by the one chain of awaits of a process is  *)
(* one step here: nobody else reads that process's cache, and others see   *)
(* the file change at the rename.                                          *)
(***************************************************************************)
EXTENDS CrawlData

CONSTANTS
    Proc,
    Requests,       \* what runSession() is called with: [source, tier, persona]
    NoPersona, NoReq, NoFile, NoData,
    BlockCooldown,      \* blockCooldownBaseMinutes, in clock units
    BlockFactor,        \* blockCooldownFactor
    ThrottleCooldown,   \* the cooldowns a soft throttle may draw
    PersonaCooldown,    \* cooldownDurationMs of the health scorer
    HealthScores,       \* the scores a persona may come down to
    MaxBlocks,          \* bound on the blocks counted per process and source
    MaxClock,           \* bound of the clock
    MaxRuns             \* bound on the calls of runSession(), in all

ASSUME SessionConstants ==
    /\ \A r \in Requests : r.source \in Source
    /\ \A r \in Requests : r.persona \in Persona \cup {NoPersona}
    /\ NoReq \notin Requests
    /\ NoFile \notin CrawlStateData
    /\ NoData \notin CrawlStateData
    /\ BlockCooldown \in Nat /\ BlockFactor \in Nat
    /\ ThrottleCooldown \subseteq Nat
    /\ PersonaCooldown \in Nat /\ HealthScores \subseteq Nat
    /\ MaxBlocks \in Nat /\ MaxClock \in Nat /\ MaxRuns \in Nat

\* The escalation is a number: what n -> BlockFactor^n is for naturals.
ASSUME Escalation ==
    \A n \in 0..MaxBlocks : BlockCooldown * BlockFactor^n \in Nat

VARIABLES
    st,         \* where runSession() stands in each process
    req,        \* its arguments
    entry,      \* the sessions of each process in active-sessions.json
    todo,       \* the clean-up branches still running
    browser,    \* the browsers a process has launched and not closed
    disk,       \* crawl.json
    cache,      \* the copy of it in each process
    blocks,     \* blockAttempts of each process
    resting,    \* cooldownUntil in the state file of each persona
    clock,
    runs        \* calls of runSession() so far

vars == <<st, req, entry, todo, browser, disk, cache, blocks, resting, clock,
          runs>>

Step == {"down", "idle", "source", "persona", "acquire", "opening",
         "running", "cleanup"}
Branch == {"close", "release", "end"}

\* A browser whose context the fetcher keeps, and one that it has lost.
Browser == {"open", "leaked"}

TypeOK ==
    /\ st \in [Proc -> Step]
    /\ req \in [Proc -> Requests \cup {NoReq}]
    /\ entry \in [Proc -> SUBSET Requests]
    /\ todo \in [Proc -> SUBSET Branch]
    /\ browser \in [Proc -> SUBSET Browser]
    /\ disk \in CrawlStateData \cup {NoFile}
    /\ cache \in [Proc -> CrawlStateData \cup {NoData}]
    /\ blocks \in [Proc -> [Source -> 0..MaxBlocks]]
    /\ resting \in [Persona -> Nat]
    /\ clock \in 0..MaxClock
    /\ runs \in 0..MaxRuns

-----------------------------------------------------------------------------

\* Variant of Compatible with a bug: one source may have two sessions.
CompatiblePersonas(r, s) == r.persona = NoPersona \/ s.persona = NoPersona

Compatible(r, s) ==
    /\ r.source # s.source
    /\ r.persona = NoPersona \/ s.persona = NoPersona

\* Variant of Admitted with a bug: the rules are not evaluated.
AdmittedAlways(r) == TRUE

Admitted(r) == \A q \in Proc : \A s \in entry[q] : Compatible(r, s)

\* CrawlState.read(): the cache, or the file the first time.
Known(p) ==
    IF cache[p] # NoData THEN cache[p]
    ELSE IF disk # NoFile THEN disk ELSE EMPTY_STATE

\* CrawlState.update(): the cache and the whole file are replaced.
Updated(p, d) ==
    /\ cache' = [cache EXCEPT ![p] = d]
    /\ disk' = d

\* The same where the write may fail: the cache has changed by then.
Recorded(p, d) ==
    /\ cache' = [cache EXCEPT ![p] = d]
    /\ disk' \in {disk, d}

Goto(p, s) == st' = [st EXCEPT ![p] = s]

\* runSession() returns or rejects before the session has begun.
Return(p) == Goto(p, "idle") /\ req' = [req EXCEPT ![p] = NoReq]

\* The action ended, threw, or was never reached: finally.
Finally(p) ==
    /\ Goto(p, "cleanup")
    /\ todo' = [todo EXCEPT ![p] = Branch]

\* One of the parallel branches of the clean-up has settled; after the last
\* one runSession() returns.
Settled(p, b) ==
    /\ st[p] = "cleanup" /\ b \in todo[p]
    /\ todo' = [todo EXCEPT ![p] = @ \ {b}]
    /\ IF todo[p] = {b} THEN Return(p) ELSE UNCHANGED <<st, req>>

Init ==
    /\ st = [p \in Proc |-> "down"]
    /\ req = [p \in Proc |-> NoReq]
    /\ entry = [p \in Proc |-> {}]
    /\ todo = [p \in Proc |-> {}]
    /\ browser = [p \in Proc |-> {}]
    /\ disk = NoFile
    /\ cache = [p \in Proc |-> NoData]
    /\ blocks = [p \in Proc |-> [s \in Source |-> 0]]
    /\ resting = [x \in Persona |-> 0]
    /\ clock = 0
    /\ runs = 0

Tick ==
    /\ clock < MaxClock
    /\ clock' = clock + 1
    /\ UNCHANGED <<st, req, entry, todo, browser, disk, cache, blocks,
                   resting, runs>>

\* An entry script wires a SessionManager and bootstraps.
Start(p) ==
    /\ st[p] = "down"
    /\ Goto(p, "idle")
    /\ UNCHANGED <<req, entry, todo, browser, disk, cache, blocks, resting,
                   clock, runs>>

RunSession(p, r) ==
    /\ st[p] = "idle"
    /\ runs < MaxRuns
    /\ runs' = runs + 1
    /\ Goto(p, "source")
    /\ req' = [req EXCEPT ![p] = r]
    /\ UNCHANGED <<entry, todo, browser, disk, cache, blocks, resting, clock>>

\* Variant of CheckSource with a bug: the answer of the gate is dropped.
CheckSourceIgnored(p) ==
    /\ st[p] = "source"
    /\ cache' = [cache EXCEPT ![p] = Known(p)]
    /\ Goto(p, IF req[p].persona = NoPersona THEN "acquire" ELSE "persona")
    /\ UNCHANGED <<req, entry, todo, browser, disk, blocks, resting, clock,
                   runs>>

\* The first gate: crawlState.isCoolingDown(source).
CheckSource(p) ==
    /\ st[p] = "source"
    /\ cache' = [cache EXCEPT ![p] = Known(p)]
    /\ IF CoolingDown(Known(p), req[p].source, clock)
       THEN Return(p)
       ELSE /\ Goto(p, IF req[p].persona = NoPersona
                       THEN "acquire" ELSE "persona")
            /\ UNCHANGED req
    /\ UNCHANGED <<entry, todo, browser, disk, blocks, resting, clock, runs>>

\* The second gate: personaManager.isCoolingDown(persona), from its file.
CheckPersona(p) ==
    /\ st[p] = "persona"
    /\ IF clock < resting[req[p].persona]
       THEN Return(p)
       ELSE Goto(p, "acquire") /\ UNCHANGED req
    /\ UNCHANGED <<entry, todo, browser, disk, cache, blocks, resting, clock,
                   runs>>

\* guard.acquire() grants the session.
Granted(p) ==
    /\ st[p] = "acquire"
    /\ Admitted(req[p])
    /\ entry' = [entry EXCEPT ![p] = @ \cup {req[p]}]
    /\ Goto(p, "opening")
    /\ UNCHANGED <<req, todo, browser, disk, cache, blocks, resting, clock,
                   runs>>

\* It rejects (a conflict, or rule 4, which may apply while any session runs),
\* or throws because the lock is not to be had.
Refused(p) ==
    /\ st[p] = "acquire"
    /\ Return(p)
    /\ UNCHANGED <<entry, todo, browser, disk, cache, blocks, resting, clock,
                   runs>>

\* handleChromeBump(), startSession(), fetcherFactory() and the session.start
\* notification; the action begins.
Open(p) ==
    /\ st[p] = "opening"
    /\ Updated(p, StartSession(Known(p)))
    /\ Goto(p, "running")
    /\ UNCHANGED <<req, entry, todo, browser, blocks, resting, clock, runs>>

\* The Chrome hook throws, or the write of the record does after the cache has
\* changed, or the factory does after both: catch, then finally.
OpenFails(p) ==
    /\ st[p] = "opening"
    /\ UNCHANGED <<cache, disk>> \/ Recorded(p, StartSession(Known(p)))
    /\ Finally(p)
    /\ UNCHANGED <<req, entry, browser, blocks, resting, clock, runs>>

\* ensureContext() of the browser fetchers, at a page that is not cached:
\* launch(), newContext() and its fingerprint succeed ...
OpenContext(p) ==
    /\ st[p] = "running" /\ req[p].persona # NoPersona
    /\ "open" \notin browser[p]
    /\ browser' = [browser EXCEPT ![p] = @ \cup {"open"}]
    /\ UNCHANGED <<st, req, entry, todo, disk, cache, blocks, resting, clock,
                   runs>>

\* ... or one of them after launch() throws, and the fetcher, which keeps the
\* context at the very end only, cannot reach that browser any more.
OpenContextFails(p) ==
    /\ st[p] = "running" /\ req[p].persona # NoPersona
    /\ "open" \notin browser[p]
    /\ browser' = [browser EXCEPT ![p] = @ \cup {"leaked"}]
    /\ UNCHANGED <<st, req, entry, todo, disk, cache, blocks, resting, clock,
                   runs>>

SetSourceCooldown(p, until) ==
    Recorded(p, SetCooldown(Known(p), req[p].source, until))

\* Variant of ReportBlock with a bug: a block does not end the session.
ReportBlockAndGoOn(p) ==
    LET s == req[p].source
        n == blocks[p][s]
    IN  /\ st[p] = "running"
        /\ n < MaxBlocks
        /\ blocks' = [blocks EXCEPT ![p][s] = n + 1]
        /\ SetSourceCooldown(p, clock + BlockCooldown * BlockFactor^n)
        /\ UNCHANGED <<st, req, entry, todo, browser, resting, clock, runs>>

\* ErrorReaction.handleBlock(): the cooldown grows with each block of the
\* source that this process has seen; the answer is abort-session, and the
\* action that asked throws or returns.
ReportBlock(p) ==
    LET s == req[p].source
        n == blocks[p][s]
    IN  /\ st[p] = "running"
        /\ n < MaxBlocks
        /\ blocks' = [blocks EXCEPT ![p][s] = n + 1]
        /\ SetSourceCooldown(p, clock + BlockCooldown * BlockFactor^n)
        /\ Finally(p)
        /\ UNCHANGED <<req, entry, browser, resting, clock, runs>>

\* ErrorReaction.handleSoftThrottle()
ReportSoftThrottle(p) ==
    /\ st[p] = "running"
    /\ \E d \in ThrottleCooldown : SetSourceCooldown(p, clock + d)
    /\ Finally(p)
    /\ UNCHANGED <<req, entry, browser, blocks, resting, clock, runs>>

\* HealthScorer.applyForPersona(): the new score is recorded, and one between
\* the thresholds puts the persona to rest; the session may go on.
ReportSignals(p) ==
    LET x == req[p].persona
    IN  /\ st[p] = "running" /\ x # NoPersona
        /\ \E score \in HealthScores :
             Recorded(p, SetHealthScore(Known(p), x, score))
        /\ \/ UNCHANGED resting
           \/ resting' = [resting EXCEPT ![x] = clock + PersonaCooldown]
        /\ UNCHANGED <<st, req, entry, todo, browser, blocks, clock, runs>>

\* The action returns or throws.
ActionEnds(p) ==
    /\ st[p] = "running"
    /\ Finally(p)
    /\ UNCHANGED <<req, entry, browser, disk, cache, blocks, resting, clock,
                   runs>>

\* fetcher.close(): without a context there is nothing to close; a browser
\* that will not close is dropped without a word, as the context is.
CloseFetcher(p) ==
    /\ Settled(p, "close")
    /\ \/ browser' = [browser EXCEPT ![p] = @ \ {"open"}]
       \/ "open" \in browser[p] /\ browser' = [browser EXCEPT ![p] = {"leaked"}]
    /\ UNCHANGED <<entry, disk, cache, blocks, resting, clock, runs>>

\* guard.release(), which may fail and is then not tried again.
ReleaseGuard(p) ==
    /\ Settled(p, "release")
    /\ entry' = [entry EXCEPT
                   ![p] = {s \in @ : s.source # req[p].source}]
    /\ UNCHANGED <<browser, disk, cache, blocks, resting, clock, runs>>

ReleaseFails(p) ==
    /\ Settled(p, "release")
    /\ UNCHANGED <<entry, browser, disk, cache, blocks, resting, clock, runs>>

\* Variant of EndRecord with a bug: flush() without endSession().
EndRecordFlushOnly(p) ==
    /\ Settled(p, "end")
    /\ Recorded(p, Known(p))
    /\ UNCHANGED <<entry, browser, blocks, resting, clock, runs>>

\* crawlState.endSession() and flush(), whose failure is nobody's concern.
EndRecord(p) ==
    /\ Settled(p, "end")
    /\ Recorded(p, EndSession(Known(p)))
    /\ UNCHANGED <<entry, browser, blocks, resting, clock, runs>>

\* The process ends: its browsers end with it, its counters are gone, and its
\* entries are reaped before anyone's next check.
Die(p) ==
    /\ st[p] # "down"
    /\ Goto(p, "down")
    /\ req' = [req EXCEPT ![p] = NoReq]
    /\ entry' = [entry EXCEPT ![p] = {}]
    /\ todo' = [todo EXCEPT ![p] = {}]
    /\ browser' = [browser EXCEPT ![p] = {}]
    /\ cache' = [cache EXCEPT ![p] = NoData]
    /\ blocks' = [blocks EXCEPT ![p] = [s \in Source |-> 0]]
    /\ UNCHANGED <<disk, resting, clock, runs>>

CleanUp(p) ==
    \/ CloseFetcher(p)
    \/ ReleaseGuard(p)
    \/ ReleaseFails(p)
    \/ EndRecord(p)

\* The steps of runSession() once it is called.
Proceed(p) ==
    \/ CheckSource(p)
    \/ CheckPersona(p)
    \/ Granted(p)
    \/ Refused(p)
    \/ Open(p)
    \/ OpenFails(p)
    \/ ReportBlock(p)
    \/ ReportSoftThrottle(p)
    \/ ActionEnds(p)
    \/ CleanUp(p)

Next ==
    \/ Tick
    \/ \E p \in Proc :
        \/ Start(p)
        \/ \E r \in Requests : RunSession(p, r)
        \/ OpenContext(p)
        \/ OpenContextFails(p)
        \/ ReportSignals(p)
        \/ Proceed(p)
        \/ Die(p)

Spec == Init /\ [][Next]_vars

-----------------------------------------------------------------------------
(* Properties.                                                             *)

InSession(p) ==
    \/ st[p] \in {"opening", "running"}
    \/ st[p] = "cleanup" /\ "release" \in todo[p]

Granting(p) == st[p] = "acquire" /\ st'[p] = "opening"

\* From the grant to the release, through every failure in between, sessions
\* are granted and given up as the guard promises.
Held == [p \in Proc |-> IF InSession(p) THEN req[p] ELSE NoReq]

Exclusion == INSTANCE SessionExclusion WITH held <- Held

ImplementsExclusion == Exclusion!Spec

\* A process never begins a session on a source that it knows, at that very
\* moment and not only when it looked, to be cooling down.
KnownCooldownHonoured ==
    [][\A p \in Proc :
        Granting(p) => ~CoolingDown(cache[p], req[p].source, clock)]_vars

\* A cooldown a process has set is never cut short by a later reaction of its
\* own: the source is left alone until the longest of them is over.
CooldownsOnlyGrow ==
    [][\A p \in Proc : \A s \in Source :
        cache[p] # NoData /\ cache'[p] # NoData /\ cache[p].cooldowns[s] # Never
            => /\ cache'[p].cooldowns[s] # Never
               /\ cache'[p].cooldowns[s] >= cache[p].cooldowns[s]]_vars

\* When runSession() returns nothing of the session is left in the process,
\* whichever step failed and in whichever order the clean-up settled: no
\* context is open and no session is recorded.  (A browser that would not
\* close, or that the fetcher has lost, stays until the process ends.)
CleanupComplete ==
    [][\A p \in Proc : st[p] = "cleanup" /\ st'[p] = "idle" =>
        /\ "open" \notin browser'[p]
        /\ cache'[p].session = NoSession]_vars

\* "Cooldowns are respected": no session begins on a source that crawl.json
\* has in cooldown.
CooldownHonoured ==
    [][\A p \in Proc : Granting(p) /\ disk # NoFile
        => ~CoolingDown(disk, req[p].source, clock)]_vars

\* "No two personas are active at a time from one IP": browsers of personas
\* never run in two processes at once.
OnePersonaBrowser ==
    \A p, q \in Proc :
        p # q => "open" \notin browser[p] \/ "open" \notin browser[q]

-----------------------------------------------------------------------------
(* Why the first four of them hold: the inductive invariant (proved in     *)
(* SessionManagerProofs), in named parts.                                  *)

\* A call keeps its arguments until it returns, and its clean-up branches are
\* of its own end.
CallsConsistent ==
    \A p \in Proc :
        /\ req[p] = NoReq <=> st[p] \in {"down", "idle"}
        /\ todo[p] # {} <=> st[p] = "cleanup"

\* A session in progress is in the guard's list.
Guarded == \A p \in Proc : InSession(p) => req[p] \in entry[p]

\* The list never holds two sessions that exclude each other, not even with
\* the entries that a failed release has left in it.
EntriesExclusive ==
    \A p, q \in Proc : \A r \in entry[p], s \in entry[q] :
        (p = q /\ r = s) \/ Compatible(r, s)

\* From the gate to the end of its action a session's source is not cooling
\* down, as far as its process knows.
GatePassed ==
    \A p \in Proc :
        st[p] \in {"persona", "acquire", "opening", "running"} =>
            /\ cache[p] # NoData
            /\ ~CoolingDown(cache[p], req[p].source, clock)

\* A context is open during the action or until the clean-up has closed it,
\* and the record's clean-up leaves no session in it.
CleanedUp ==
    \A p \in Proc :
        /\ "open" \in browser[p] => st[p] = "running" \/ "close" \in todo[p]
        /\ st[p] = "cleanup" /\ "end" \notin todo[p] =>
             cache[p] # NoData /\ cache[p].session = NoSession

SessionInv ==
    /\ TypeOK
    /\ CallsConsistent
    /\ Guarded
    /\ EntriesExclusive
    /\ GatePassed
    /\ CleanedUp
=============================================================================
