------------------------- MODULE SessionManagerProofs -------------------------
(***************************************************************************)
(* Proofs about SessionManager for every set of processes, requests and    *)
(* cooldowns: the inductive invariant SessionInv, that sessions are taken  *)
(* and given up as SessionExclusion says, and what the cooldowns promise.  *)
(***************************************************************************)
EXTENDS SessionManager, TLAPS

-----------------------------------------------------------------------------
(* The record: what a mutator yields is a record again, and only           *)
(* setCooldown() touches the cooldowns.                                    *)

LEMMA EmptyRecord == EMPTY_STATE \in CrawlStateData
BY DEF EMPTY_STATE, CrawlStateData

LEMMA KnownRecord ==
  ASSUME TypeOK, NEW p \in Proc
  PROVE  Known(p) \in CrawlStateData
BY EmptyRecord DEF TypeOK, Known

LEMMA SessionMutators ==
  ASSUME NEW d \in CrawlStateData
  PROVE  /\ StartSession(d) \in CrawlStateData
         /\ EndSession(d) \in CrawlStateData
         /\ StartSession(d).cooldowns = d.cooldowns
         /\ EndSession(d).cooldowns = d.cooldowns
         /\ EndSession(d).session = NoSession
BY DEF CrawlStateData, StartSession, EndSession

LEMMA HealthMutator ==
  ASSUME NEW d \in CrawlStateData, NEW x \in Persona, NEW n \in Nat
  PROVE  /\ SetHealthScore(d, x, n) \in CrawlStateData
         /\ SetHealthScore(d, x, n).cooldowns = d.cooldowns
BY DEF CrawlStateData, SetHealthScore

LEMMA CooldownMutator ==
  ASSUME NEW d \in CrawlStateData, NEW s \in Source, NEW t \in Nat
  PROVE  /\ SetCooldown(d, s, t) \in CrawlStateData
         /\ SetCooldown(d, s, t).cooldowns = [d.cooldowns EXCEPT ![s] = t]
BY DEF CrawlStateData, SetCooldown

LEMMA RequestTypes ==
  ASSUME NEW r \in Requests
  PROVE  /\ r # NoReq
         /\ r.source \in Source
         /\ r.persona \in Persona \cup {NoPersona}
BY SessionConstants DEF SessionConstants

\* A call in progress has arguments.
LEMMA InCall ==
  ASSUME TypeOK, CallsConsistent, NEW p \in Proc, st[p] \notin {"down", "idle"}
  PROVE  /\ req[p] \in Requests
         /\ req[p].source \in Source
         /\ req[p].persona # NoPersona => req[p].persona \in Persona
BY RequestTypes DEF TypeOK, CallsConsistent

-----------------------------------------------------------------------------
(* The types.                                                              *)

LEMMA InitInvariant == Init => SessionInv
<1> SUFFICES ASSUME Init PROVE SessionInv
    BY DEF CleanedUp
<1>1. TypeOK
      BY SessionConstants
         DEF Init, TypeOK, SessionConstants, Step, Browser
<1>2. CallsConsistent /\ Guarded /\ EntriesExclusive /\ GatePassed /\ CleanedUp
      BY DEF Init, CallsConsistent, Guarded, InSession, EntriesExclusive,
             GatePassed, CleanedUp
<1> QED
    BY <1>1, <1>2 DEF SessionInv

\* However a session ends, its clean-up begins.
LEMMA Ends ==
  ASSUME NEW p \in Proc,
         \/ OpenFails(p) \/ ReportBlock(p) \/ ReportSoftThrottle(p)
         \/ ActionEnds(p)
  PROVE  /\ Finally(p)
         /\ st[p] \in {"opening", "running"}
         /\ UNCHANGED <<req, entry, clock, runs>>
BY DEF OpenFails, ReportBlock, ReportSoftThrottle, ActionEnds

LEMMA CleansUp ==
  ASSUME NEW p \in Proc, CleanUp(p)
  PROVE  /\ \E b \in Branch : Settled(p, b)
         /\ UNCHANGED <<clock, runs>>
BY DEF CleanUp, CloseFetcher, ReleaseGuard, ReleaseFails, EndRecord, Branch

\* The types of what only the flow of a call decides.
LEMMA FlowTypes ==
  ASSUME TypeOK, CallsConsistent, [Next]_vars
  PROVE  /\ st' \in [Proc -> Step]
         /\ req' \in [Proc -> Requests \cup {NoReq}]
         /\ todo' \in [Proc -> SUBSET Branch]
         /\ clock' \in 0..MaxClock
         /\ runs' \in 0..MaxRuns
<1> USE DEF TypeOK, Step, Branch
<1>1. CASE Tick
      BY <1>1, SessionConstants DEF Tick, SessionConstants
<1>2. ASSUME NEW p \in Proc,
             \/ Start(p) \/ CheckSource(p) \/ CheckPersona(p) \/ Granted(p)
             \/ Refused(p) \/ Open(p) \/ OpenContext(p) \/ OpenContextFails(p)
             \/ ReportSignals(p) \/ Die(p)
      PROVE  /\ st' \in [Proc -> Step]
             /\ req' \in [Proc -> Requests \cup {NoReq}]
             /\ todo' \in [Proc -> SUBSET Branch]
             /\ UNCHANGED <<clock, runs>>
      BY <1>2 DEF Start, CheckSource, CheckPersona, Granted, Refused, Open,
         OpenContext, OpenContextFails, ReportSignals, Die, Goto, Return
<1>3. ASSUME NEW p \in Proc, NEW r \in Requests, RunSession(p, r)
      PROVE  /\ st' \in [Proc -> Step]
             /\ req' \in [Proc -> Requests \cup {NoReq}]
             /\ UNCHANGED <<todo, clock>>
             /\ runs' \in 0..MaxRuns
      BY <1>3, SessionConstants DEF RunSession, Goto, SessionConstants
<1>4. ASSUME NEW p \in Proc,
             \/ OpenFails(p) \/ ReportBlock(p) \/ ReportSoftThrottle(p)
             \/ ActionEnds(p)
      PROVE  /\ st' \in [Proc -> Step]
             /\ todo' \in [Proc -> SUBSET Branch]
             /\ UNCHANGED <<req, clock, runs>>
  <2>1. Finally(p) /\ UNCHANGED <<req, clock, runs>>
        BY <1>4, Ends
  <2> QED
    BY <2>1 DEF Finally, Goto
<1>5. ASSUME NEW p \in Proc, CleanUp(p)
      PROVE  /\ st' \in [Proc -> Step]
             /\ req' \in [Proc -> Requests \cup {NoReq}]
             /\ todo' \in [Proc -> SUBSET Branch]
             /\ UNCHANGED <<clock, runs>>
  <2>1. (\E b \in Branch : Settled(p, b)) /\ UNCHANGED <<clock, runs>>
        BY <1>5, CleansUp
  <2>2. PICK b \in Branch : Settled(p, b)
        BY <2>1
  <2>3. CASE todo[p] = {b}
        BY <2>1, <2>2, <2>3 DEF Settled, Return, Goto
  <2>4. CASE todo[p] # {b}
        BY <2>1, <2>2, <2>4 DEF Settled
  <2> QED
    BY <2>3, <2>4
<1>6. CASE UNCHANGED vars
      BY <1>6 DEF vars
<1> QED
    BY <1>1, <1>2, <1>3, <1>4, <1>5, <1>6 DEF Next, Proceed

\* What a step may do to the record, in the cache of one process and in the
\* file: change what is no cooldown, set the cooldown of the session's source
\* as the last thing of its action, or lose the cache with the process.
RecordKept(p) ==
  \E d \in CrawlStateData :
    /\ d.cooldowns = Known(p).cooldowns
    /\ cache' = [cache EXCEPT ![p] = d]
    /\ disk' \in {disk, d}

CooldownSet(p) ==
  /\ st[p] = "running" /\ st'[p] = "cleanup"
  /\ \E t \in Nat : t >= clock /\ SetSourceCooldown(p, t)

RecordLost(p) ==
  /\ cache' = [cache EXCEPT ![p] = NoData]
  /\ st'[p] = "down"
  /\ UNCHANGED disk

LEMMA RecordSteps ==
  ASSUME TypeOK, CallsConsistent, [Next]_vars
  PROVE  \/ UNCHANGED <<disk, cache>>
         \/ \E p \in Proc : RecordKept(p) \/ CooldownSet(p) \/ RecordLost(p)
<1>1. ASSUME NEW p \in Proc, CheckSource(p)
      PROVE  RecordKept(p)
      BY <1>1, KnownRecord DEF CheckSource, RecordKept
<1>2. ASSUME NEW p \in Proc, Open(p)
      PROVE  RecordKept(p)
      BY <1>2, KnownRecord, SessionMutators DEF Open, Updated, RecordKept
<1>3. ASSUME NEW p \in Proc, OpenFails(p)
      PROVE  UNCHANGED <<disk, cache>> \/ RecordKept(p)
      BY <1>3, KnownRecord, SessionMutators DEF OpenFails, Recorded, RecordKept
<1>4. ASSUME NEW p \in Proc, EndRecord(p)
      PROVE  RecordKept(p)
      BY <1>4, KnownRecord, SessionMutators
         DEF EndRecord, Recorded, RecordKept
<1>5. ASSUME NEW p \in Proc, ReportBlock(p)
      PROVE  CooldownSet(p)
  <2> DEFINE n == blocks[p][req[p].source]
             t == clock + BlockCooldown * BlockFactor^n
  <2>1. req[p].source \in Source
        BY <1>5, InCall DEF ReportBlock
  <2>2. n \in 0..MaxBlocks /\ clock \in Nat
        BY <2>1, SessionConstants DEF TypeOK, SessionConstants
  <2>3. BlockCooldown * BlockFactor^n \in Nat
        BY <2>2, Escalation
  <2>4. t \in Nat /\ t >= clock
        BY <2>2, <2>3
  <2>5. st[p] = "running" /\ Finally(p) /\ SetSourceCooldown(p, t)
        BY <1>5 DEF ReportBlock
  <2>6. st'[p] = "cleanup"
        BY <2>5 DEF Finally, Goto, TypeOK
  <2> QED
    BY <2>4, <2>5, <2>6 DEF CooldownSet
<1>6. ASSUME NEW p \in Proc, ReportSoftThrottle(p)
      PROVE  CooldownSet(p)
  <2>1. st[p] = "running" /\ Finally(p)
        BY <1>6 DEF ReportSoftThrottle
  <2>2. PICK d \in ThrottleCooldown : SetSourceCooldown(p, clock + d)
        BY <1>6 DEF ReportSoftThrottle
  <2>3. clock + d \in Nat /\ clock + d >= clock
        BY SessionConstants DEF TypeOK, SessionConstants
  <2>4. st'[p] = "cleanup"
        BY <2>1 DEF Finally, Goto, TypeOK
  <2> QED
    BY <2>1, <2>2, <2>3, <2>4 DEF CooldownSet
<1>7. ASSUME NEW p \in Proc, Die(p)
      PROVE  RecordLost(p)
      BY <1>7 DEF Die, Goto, RecordLost, TypeOK
<1>8. ASSUME NEW p \in Proc, ReportSignals(p)
      PROVE  RecordKept(p)
  <2>1. req[p].persona \in Persona
        BY <1>8, InCall DEF ReportSignals
  <2>2. PICK n \in HealthScores :
          Recorded(p, SetHealthScore(Known(p), req[p].persona, n))
        BY <1>8 DEF ReportSignals
  <2>3. n \in Nat
        BY SessionConstants DEF SessionConstants
  <2> QED
    BY <2>1, <2>2, <2>3, KnownRecord, HealthMutator DEF Recorded, RecordKept
<1>9. ASSUME NEW p \in Proc,
             \/ Start(p) \/ (\E r \in Requests : RunSession(p, r))
             \/ CheckPersona(p) \/ Granted(p) \/ Refused(p) \/ OpenContext(p)
             \/ OpenContextFails(p) \/ ActionEnds(p)
             \/ CloseFetcher(p) \/ ReleaseGuard(p) \/ ReleaseFails(p)
      PROVE  UNCHANGED <<disk, cache>>
      BY <1>9 DEF Start, RunSession, CheckPersona, Granted, Refused,
         OpenContext, OpenContextFails, ActionEnds, CloseFetcher, ReleaseGuard,
         ReleaseFails
<1>10. CASE Tick \/ UNCHANGED vars
      BY <1>10 DEF Tick, vars
<1> QED
    BY <1>1, <1>2, <1>3, <1>4, <1>5, <1>6, <1>7, <1>8, <1>9,
       <1>10
       DEF Next, Proceed, CleanUp

LEMMA RecordTypes ==
  ASSUME TypeOK, CallsConsistent, [Next]_vars
  PROVE  /\ disk' \in CrawlStateData \cup {NoFile}
         /\ cache' \in [Proc -> CrawlStateData \cup {NoData}]
<1> USE DEF TypeOK
<1>1. ASSUME NEW p \in Proc, CooldownSet(p)
      PROVE  /\ disk' \in CrawlStateData \cup {NoFile}
             /\ cache' \in [Proc -> CrawlStateData \cup {NoData}]
  <2>1. PICK t \in Nat : SetSourceCooldown(p, t)
        BY <1>1 DEF CooldownSet
  <2>2. SetCooldown(Known(p), req[p].source, t) \in CrawlStateData
        BY <1>1, KnownRecord, CooldownMutator, InCall DEF CooldownSet
  <2> QED
    BY <2>1, <2>2 DEF SetSourceCooldown, Recorded
<1> QED
    BY <1>1, RecordSteps DEF RecordKept, RecordLost

\* The sessions in the guard's list, the browsers, counters and rests.
LEMMA OtherTypes ==
  ASSUME TypeOK, CallsConsistent, [Next]_vars
  PROVE  /\ entry' \in [Proc -> SUBSET Requests]
         /\ browser' \in [Proc -> SUBSET Browser]
         /\ blocks' \in [Proc -> [Source -> 0..MaxBlocks]]
         /\ resting' \in [Persona -> Nat]
<1> USE DEF TypeOK, Browser
<1>1. ASSUME NEW p \in Proc, Granted(p)
      PROVE  entry' \in [Proc -> SUBSET Requests]
      BY <1>1, InCall DEF Granted
<1>2. ASSUME NEW p \in Proc, ReleaseGuard(p)
      PROVE  entry' \in [Proc -> SUBSET Requests]
      BY <1>2 DEF ReleaseGuard
<1>3. ASSUME NEW p \in Proc, ReportBlock(p)
      PROVE  blocks' \in [Proc -> [Source -> 0..MaxBlocks]]
  <2>1. req[p].source \in Source
        BY <1>3, InCall DEF ReportBlock
  <2>2. blocks[p][req[p].source] \in 0..MaxBlocks
        BY <2>1
  <2>3. blocks[p][req[p].source] + 1 \in 0..MaxBlocks
        BY <1>3, <2>2, SessionConstants DEF ReportBlock, SessionConstants
  <2> QED
    BY <1>3, <2>1, <2>3 DEF ReportBlock
<1>4. ASSUME NEW p \in Proc, ReportSignals(p)
      PROVE  resting' \in [Persona -> Nat]
      BY <1>4, SessionConstants, InCall DEF ReportSignals, SessionConstants
<1>5. ASSUME NEW p \in Proc, Die(p)
      PROVE  /\ entry' \in [Proc -> SUBSET Requests]
             /\ browser' \in [Proc -> SUBSET Browser]
             /\ blocks' \in [Proc -> [Source -> 0..MaxBlocks]]
             /\ UNCHANGED resting
      BY <1>5, SessionConstants DEF Die, SessionConstants
<1>6. ASSUME NEW p \in Proc,
             OpenContext(p) \/ OpenContextFails(p) \/ CloseFetcher(p)
      PROVE  browser' \in [Proc -> SUBSET Browser]
      BY <1>6 DEF OpenContext, OpenContextFails, CloseFetcher
<1>7. \/ UNCHANGED entry
      \/ \E p \in Proc : Granted(p) \/ ReleaseGuard(p) \/ Die(p)
      BY DEF Next, Proceed, CleanUp, Tick, Start, RunSession, CheckSource,
         CheckPersona, Refused, Open, OpenFails, OpenContext, OpenContextFails,
         ReportBlock, ReportSoftThrottle, ReportSignals, ActionEnds,
         CloseFetcher, ReleaseFails, EndRecord, vars
<1>8. \/ UNCHANGED browser
      \/ \E p \in Proc :
           OpenContext(p) \/ OpenContextFails(p) \/ CloseFetcher(p) \/ Die(p)
      BY DEF Next, Proceed, CleanUp, Tick, Start, RunSession, CheckSource,
         CheckPersona, Granted, Refused, Open, OpenFails, ReportBlock,
         ReportSoftThrottle, ReportSignals, ActionEnds, ReleaseGuard,
         ReleaseFails, EndRecord, vars
<1>9. UNCHANGED blocks \/ \E p \in Proc : ReportBlock(p) \/ Die(p)
      BY DEF Next, Proceed, CleanUp, Tick, Start, RunSession, CheckSource,
         CheckPersona, Granted, Refused, Open, OpenFails, OpenContext,
         OpenContextFails, ReportSoftThrottle, ReportSignals, ActionEnds,
         CloseFetcher, ReleaseGuard, ReleaseFails, EndRecord,
         vars
<1>10. UNCHANGED resting \/ \E p \in Proc : ReportSignals(p)
      BY DEF Next, Proceed, CleanUp, Tick, Start, RunSession, CheckSource,
         CheckPersona, Granted, Refused, Open, OpenFails, OpenContext,
         OpenContextFails, ReportBlock, ReportSoftThrottle, ActionEnds,
         CloseFetcher, ReleaseGuard, ReleaseFails, EndRecord,
         Die, vars
<1>11. entry' \in [Proc -> SUBSET Requests]
      BY <1>1, <1>2, <1>5, <1>7
<1>12. browser' \in [Proc -> SUBSET Browser]
      BY <1>5, <1>6, <1>8
<1>13. blocks' \in [Proc -> [Source -> 0..MaxBlocks]]
      BY <1>3, <1>5, <1>9
<1>14. resting' \in [Persona -> Nat]
      BY <1>4, <1>10
<1> QED
    BY <1>11, <1>12, <1>13, <1>14

LEMMA TypeStep ==
  ASSUME TypeOK, CallsConsistent, [Next]_vars
  PROVE  TypeOK'
BY FlowTypes, RecordTypes, OtherTypes DEF TypeOK

-----------------------------------------------------------------------------
(* The flow of a call.                                                     *)

\* What a step of process p does to its call.
FlowStep(p) ==
  \/ Start(p)
  \/ \E r \in Requests : RunSession(p, r)
  \/ CheckSource(p)
  \/ CheckPersona(p)
  \/ Granted(p)
  \/ Refused(p)
  \/ Open(p)
  \/ Finally(p) /\ st[p] \in {"opening", "running"} /\ UNCHANGED req
  \/ \E b \in Branch : Settled(p, b)
  \/ Die(p)

LEMMA FlowSteps ==
  ASSUME TypeOK, [Next]_vars
  PROVE  UNCHANGED <<st, req, todo>> \/ \E p \in Proc : FlowStep(p)
<1>1. ASSUME NEW p \in Proc,
             \/ OpenFails(p) \/ ReportBlock(p) \/ ReportSoftThrottle(p)
             \/ ActionEnds(p)
      PROVE  Finally(p) /\ st[p] \in {"opening", "running"} /\ UNCHANGED req
      BY <1>1, Ends
<1>2. ASSUME NEW p \in Proc, CleanUp(p)
      PROVE  \E b \in Branch : Settled(p, b)
      BY <1>2, CleansUp
<1>3. ASSUME NEW p \in Proc,
             OpenContext(p) \/ OpenContextFails(p) \/ ReportSignals(p)
      PROVE  UNCHANGED <<st, req, todo>>
      BY <1>3 DEF OpenContext, OpenContextFails, ReportSignals
<1>4. CASE Tick \/ UNCHANGED vars
      BY <1>4 DEF Tick, vars
<1>5. ASSUME NEW p \in Proc, Proceed(p)
      PROVE  FlowStep(p)
      BY <1>5, <1>1, <1>2 DEF Proceed, FlowStep
<1> QED
    BY <1>3, <1>4, <1>5 DEF Next, FlowStep

LEMMA CallsStep ==
  ASSUME TypeOK, CallsConsistent, [Next]_vars
  PROVE  CallsConsistent'
<1> USE DEF CallsConsistent, TypeOK
<1>1. CASE UNCHANGED <<st, req, todo>>
      BY <1>1
<1>2. ASSUME NEW p \in Proc, Start(p)
      PROVE  CallsConsistent'
      BY <1>2 DEF Start, Goto
<1>3. ASSUME NEW p \in Proc, NEW r \in Requests, RunSession(p, r)
      PROVE  CallsConsistent'
      BY <1>3, RequestTypes DEF RunSession, Goto
<1>4. ASSUME NEW p \in Proc, CheckSource(p) \/ CheckPersona(p) \/ Refused(p)
      PROVE  CallsConsistent'
      BY <1>4 DEF CheckSource, CheckPersona, Refused, Goto, Return
<1>5. ASSUME NEW p \in Proc, Granted(p) \/ Open(p)
      PROVE  CallsConsistent'
      BY <1>5 DEF Granted, Open, Goto
<1>6. ASSUME NEW p \in Proc, Finally(p), st[p] \in {"opening", "running"},
             UNCHANGED req
      PROVE  CallsConsistent'
      BY <1>6 DEF Finally, Goto, Branch
<1>7. ASSUME NEW p \in Proc, NEW b \in Branch, Settled(p, b)
      PROVE  CallsConsistent'
  <2>1. CASE todo[p] = {b}
        BY <1>7, <2>1 DEF Settled, Return, Goto
  <2>2. CASE todo[p] # {b}
        BY <1>7, <2>2 DEF Settled
  <2> QED
    BY <2>1, <2>2
<1>8. ASSUME NEW p \in Proc, Die(p)
      PROVE  CallsConsistent'
      BY <1>8 DEF Die, Goto
<1> QED
    BY <1>1, <1>2, <1>3, <1>4, <1>5, <1>6, <1>7, <1>8, FlowSteps DEF FlowStep

-----------------------------------------------------------------------------
(* The guard's list.                                                       *)

\* What happens to the sessions that processes hold: nothing, a grant, or the
\* end of one, by its release (done or failed) or by the death of its process.
SessionKept(p) ==
  /\ InSession(p)' <=> InSession(p)
  /\ InSession(p) => req'[p] = req[p]

SessionOver(p) ==
  /\ ~InSession(p)'
  /\ \A q \in Proc \ {p} : SessionKept(q)
  /\ UNCHANGED entry \/ Die(p) \/ ReleaseGuard(p)

LEMMA HeldSteps ==
  ASSUME TypeOK, CallsConsistent, [Next]_vars
  PROVE  \/ UNCHANGED entry /\ \A p \in Proc : SessionKept(p)
         \/ \E p \in Proc : Granted(p) \/ SessionOver(p)
<1> USE DEF TypeOK, InSession, SessionKept
<1>1. CASE UNCHANGED <<st, req, todo, entry>>
      BY <1>1
<1>2. ASSUME NEW p \in Proc, Start(p)
      PROVE  UNCHANGED entry /\ \A q \in Proc : SessionKept(q)
      BY <1>2 DEF Start, Goto
<1>3. ASSUME NEW p \in Proc, NEW r \in Requests, RunSession(p, r)
      PROVE  UNCHANGED entry /\ \A q \in Proc : SessionKept(q)
      BY <1>3 DEF RunSession, Goto
<1>4. ASSUME NEW p \in Proc, CheckSource(p) \/ CheckPersona(p) \/ Refused(p)
      PROVE  UNCHANGED entry /\ \A q \in Proc : SessionKept(q)
      BY <1>4 DEF CheckSource, CheckPersona, Refused, Goto, Return
<1>5. ASSUME NEW p \in Proc, Open(p)
      PROVE  UNCHANGED entry /\ \A q \in Proc : SessionKept(q)
      BY <1>5 DEF Open, Goto
<1>6. ASSUME NEW p \in Proc, Finally(p), st[p] \in {"opening", "running"},
             UNCHANGED <<req, entry>>
      PROVE  \A q \in Proc : SessionKept(q)
      BY <1>6 DEF Finally, Goto, Branch
<1>7. ASSUME NEW p \in Proc, NEW b \in Branch, Settled(p, b)
      PROVE  /\ \A q \in Proc \ {p} : SessionKept(q)
             /\ IF b = "release" THEN ~InSession(p)' ELSE SessionKept(p)
  <2>1. CASE todo[p] = {b}
        BY <1>7, <2>1 DEF Settled, Return, Goto
  <2>2. CASE todo[p] # {b}
        BY <1>7, <2>2 DEF Settled
  <2> QED
    BY <2>1, <2>2
<1>8. ASSUME NEW p \in Proc, Die(p)
      PROVE  SessionOver(p)
      BY <1>8 DEF Die, Goto, SessionOver
<1>9. ASSUME NEW p \in Proc, NEW b \in Branch, Settled(p, b), UNCHANGED entry
      PROVE  (\A q \in Proc : SessionKept(q)) \/ SessionOver(p)
      BY <1>9, <1>7 DEF SessionOver
<1>10. ASSUME NEW p \in Proc, ReleaseGuard(p)
      PROVE  SessionOver(p)
      BY <1>10, <1>7 DEF ReleaseGuard, SessionOver, Branch
<1> DEFINE Moved(p) ==
      \/ Start(p)
      \/ \E r \in Requests : RunSession(p, r)
      \/ CheckSource(p) \/ CheckPersona(p) \/ Granted(p) \/ Refused(p)
      \/ Open(p)
      \/ /\ Finally(p) /\ st[p] \in {"opening", "running"}
         /\ UNCHANGED <<req, entry>>
      \/ (\E b \in Branch : Settled(p, b)) /\ UNCHANGED entry
      \/ ReleaseGuard(p)
      \/ Die(p)
<1>11. UNCHANGED <<st, req, todo, entry>> \/ \E p \in Proc : Moved(p)
  <2>1. ASSUME NEW p \in Proc,
               \/ OpenFails(p) \/ ReportBlock(p) \/ ReportSoftThrottle(p)
               \/ ActionEnds(p)
        PROVE  /\ Finally(p) /\ st[p] \in {"opening", "running"}
               /\ UNCHANGED <<req, entry>>
        BY <2>1, Ends
  <2>2. ASSUME NEW p \in Proc,
               \/ CloseFetcher(p) \/ ReleaseFails(p) \/ EndRecord(p)
        PROVE  (\E b \in Branch : Settled(p, b)) /\ UNCHANGED entry
        BY <2>2 DEF CloseFetcher, ReleaseFails, EndRecord,
           Branch
  <2>3. ASSUME NEW p \in Proc,
               OpenContext(p) \/ OpenContextFails(p) \/ ReportSignals(p)
        PROVE  UNCHANGED <<st, req, todo, entry>>
        BY <2>3 DEF OpenContext, OpenContextFails, ReportSignals
  <2>4. CASE Tick \/ UNCHANGED vars
        BY <2>4 DEF Tick, vars
  <2>5. ASSUME NEW p \in Proc, Proceed(p)
        PROVE  Moved(p)
        BY <2>5, <2>1, <2>2 DEF Proceed, CleanUp
  <2> QED
    BY <2>3, <2>4, <2>5 DEF Next
<1> QED
    BY <1>1, <1>2, <1>3, <1>4, <1>5, <1>6, <1>8, <1>9, <1>10, <1>11

LEMMA GuardedStep ==
  ASSUME TypeOK, CallsConsistent, Guarded, [Next]_vars
  PROVE  Guarded'
<1>1. ASSUME UNCHANGED entry, \A p \in Proc : SessionKept(p)
      PROVE  Guarded'
      BY <1>1 DEF Guarded, SessionKept
<1>2. ASSUME NEW p \in Proc, Granted(p)
      PROVE  Guarded'
      BY <1>2 DEF Granted, Goto, Guarded, InSession, TypeOK
<1>3. ASSUME NEW p \in Proc, SessionOver(p)
      PROVE  Guarded'
  <2>1. \A q \in Proc \ {p} : entry'[q] = entry[q]
        BY <1>3 DEF SessionOver, Die, ReleaseGuard, TypeOK
  <2> QED
    BY <1>3, <2>1 DEF SessionOver, SessionKept, Guarded
<1> QED
    BY <1>1, <1>2, <1>3, HeldSteps

LEMMA ExclusiveStep ==
  ASSUME TypeOK, CallsConsistent, EntriesExclusive, [Next]_vars
  PROVE  EntriesExclusive'
<1>1. CASE UNCHANGED entry
      BY <1>1 DEF EntriesExclusive
<1>2. ASSUME NEW p \in Proc, Granted(p)
      PROVE  EntriesExclusive'
  <2>1. \A q \in Proc :
          entry'[q] = IF q = p THEN entry[q] \cup {req[p]} ELSE entry[q]
        BY <1>2 DEF Granted, TypeOK
  <2>2. \A q \in Proc : \A s \in entry[q] :
          Compatible(req[p], s) /\ Compatible(s, req[p])
        BY <1>2 DEF Granted, Admitted, Compatible
  <2> SUFFICES ASSUME NEW q1 \in Proc, NEW q2 \in Proc,
                      NEW r \in entry'[q1], NEW s \in entry'[q2]
               PROVE  (q1 = q2 /\ r = s) \/ Compatible(r, s)
      BY DEF EntriesExclusive, Compatible
  <2>3. CASE r \in entry[q1] /\ s \in entry[q2]
        BY <2>3 DEF EntriesExclusive
  <2>4. CASE r \notin entry[q1] /\ s \in entry[q2]
        BY <2>1, <2>2, <2>4
  <2>5. CASE r \in entry[q1] /\ s \notin entry[q2]
        BY <2>1, <2>2, <2>5
  <2>6. CASE r \notin entry[q1] /\ s \notin entry[q2]
    <3>1. q1 = p /\ r = req[p]
          BY <2>1, <2>6
    <3>2. q2 = p /\ s = req[p]
          BY <2>1, <2>6
    <3> QED
      BY <3>1, <3>2
  <2> QED
    BY <2>3, <2>4, <2>5, <2>6
<1>3. ASSUME NEW p \in Proc, SessionOver(p)
      PROVE  EntriesExclusive'
  <2>1. \A q \in Proc : entry'[q] \subseteq entry[q]
        BY <1>3 DEF SessionOver, Die, ReleaseGuard, TypeOK
  <2> QED
    BY <2>1 DEF EntriesExclusive, Compatible
<1> QED
    BY <1>1, <1>2, <1>3, HeldSteps

-----------------------------------------------------------------------------
(* The gate of the cooldown.                                               *)

PastGate == {"persona", "acquire", "opening", "running"}

\* Nobody gets past the gate but through it, and nobody's arguments change.
LEMMA GateSteps ==
  ASSUME TypeOK, [Next]_vars, NEW p \in Proc, st'[p] \in PastGate
  PROVE  \/ CheckSource(p)
         \/ st[p] \in PastGate /\ req'[p] = req[p] /\ ~CheckSource(p)
<1> USE DEF TypeOK, PastGate
<1>1. CASE UNCHANGED <<st, req, todo>>
      BY <1>1
<1>2. ASSUME NEW q \in Proc, CheckSource(q)
      PROVE  \/ CheckSource(p)
             \/ st[p] \in PastGate /\ req'[p] = req[p] /\ ~CheckSource(p)
      BY <1>2 DEF CheckSource, Goto, Return
<1>3. ASSUME NEW q \in Proc,
             \/ Start(q) \/ (\E r \in Requests : RunSession(q, r))
             \/ CheckPersona(q) \/ Granted(q) \/ Refused(q) \/ Open(q)
             \/ Die(q)
      PROVE  st[p] \in PastGate /\ req'[p] = req[p]
      BY <1>3 DEF Start, RunSession, CheckPersona, Granted, Refused, Open, Die,
         Goto, Return
<1>4. ASSUME NEW q \in Proc, Finally(q), UNCHANGED req
      PROVE  st[p] \in PastGate /\ req'[p] = req[p]
      BY <1>4 DEF Finally, Goto
<1>5. ASSUME NEW q \in Proc, NEW b \in Branch, Settled(q, b)
      PROVE  st[p] \in PastGate /\ req'[p] = req[p]
  <2>1. CASE todo[q] = {b}
        BY <1>5, <2>1 DEF Settled, Return, Goto
  <2>2. CASE todo[q] # {b}
        BY <1>5, <2>2 DEF Settled
  <2> QED
    BY <2>1, <2>2
<1>6. st[p] \in PastGate => ~CheckSource(p)
      BY DEF CheckSource
<1> QED
    BY <1>1, <1>2, <1>3, <1>4, <1>5, <1>6, FlowSteps DEF FlowStep

LEMMA GateStep ==
  ASSUME TypeOK, CallsConsistent, GatePassed, [Next]_vars
  PROVE  GatePassed'
<1> SUFFICES ASSUME NEW p \in Proc, st'[p] \in PastGate
             PROVE  /\ cache'[p] # NoData
                    /\ ~CoolingDown(cache'[p], req'[p].source, clock')
    BY DEF GatePassed, PastGate, CoolingDown
<1>1. CASE CheckSource(p)
  <2>1. cache'[p] = Known(p) /\ clock' = clock
        BY <1>1 DEF CheckSource, TypeOK
  <2>2. ~CoolingDown(Known(p), req[p].source, clock) /\ req' = req
        BY <1>1 DEF CheckSource, Return, Goto, PastGate, TypeOK
  <2>3. Known(p) # NoData
        BY KnownRecord, SessionConstants
  <2> QED
    BY <2>1, <2>2, <2>3
<1>2. CASE st[p] \in PastGate /\ req'[p] = req[p] /\ ~CheckSource(p)
  <2>1. /\ cache[p] # NoData
        /\ ~CoolingDown(cache[p], req[p].source, clock)
        BY <1>2 DEF GatePassed, PastGate
  <2>2. Known(p) = cache[p] /\ cache[p] \in CrawlStateData
        BY <2>1 DEF Known, TypeOK
  <2>3. cache'[p] # NoData /\ cache'[p].cooldowns = cache[p].cooldowns
    <3>1. CASE UNCHANGED cache
          BY <3>1, <2>1
    <3>2. ASSUME NEW q \in Proc, RecordKept(q)
          PROVE  cache'[p] # NoData /\ cache'[p].cooldowns = cache[p].cooldowns
          BY <3>2, <2>1, <2>2, SessionConstants
             DEF RecordKept, TypeOK, SessionConstants
    <3>3. ASSUME NEW q \in Proc, CooldownSet(q)
          PROVE  cache'[p] # NoData /\ cache'[p].cooldowns = cache[p].cooldowns
          BY <3>3, <2>1
             DEF CooldownSet, SetSourceCooldown, Recorded, TypeOK, PastGate
    <3>4. ASSUME NEW q \in Proc, RecordLost(q)
          PROVE  cache'[p] # NoData /\ cache'[p].cooldowns = cache[p].cooldowns
          BY <3>4, <2>1 DEF RecordLost, TypeOK, PastGate
    <3> QED
      BY <3>1, <3>2, <3>3, <3>4, RecordSteps
  <2>4. clock \in Nat /\ clock' \in Nat /\ clock' >= clock
    <3>1. clock' = clock \/ clock' = clock + 1
          BY Ends, CleansUp DEF Next, Proceed, Tick, Start, RunSession,
             CheckSource, CheckPersona, Granted, Refused, Open, OpenContext,
             OpenContextFails, ReportSignals, Die, vars
    <3> QED
      BY <3>1 DEF TypeOK
  <2>5. cache[p].cooldowns[req[p].source] \in Nat \cup {Never}
        BY <1>2, <2>2, InCall DEF CrawlStateData, PastGate
  <2> QED
    BY <1>2, <2>1, <2>3, <2>4, <2>5 DEF CoolingDown
<1> QED
    BY <1>1, <1>2, GateSteps

-----------------------------------------------------------------------------
(* The clean-up.                                                           *)

\* All that CleanedUp says of a process is about these, and no step of another
\* process changes them.
Own(p) == <<st[p], todo[p], browser[p], cache[p]>>

StepOf(q) ==
  \/ Start(q)
  \/ \E r \in Requests : RunSession(q, r)
  \/ OpenContext(q)
  \/ OpenContextFails(q)
  \/ ReportSignals(q)
  \/ Proceed(q)
  \/ Die(q)

LEMMA OthersKept ==
  ASSUME TypeOK, NEW p \in Proc, NEW q \in Proc, q # p, StepOf(q)
  PROVE  Own(p)' = Own(p)
<1> USE DEF TypeOK
<1>1. st'[p] = st[p] /\ todo'[p] = todo[p]
  <2>1. CASE FlowStep(q)
    <3>1. ASSUME NEW b \in Branch, Settled(q, b)
          PROVE  st'[p] = st[p] /\ todo'[p] = todo[p]
      <4>1. CASE todo[q] = {b}
            BY <3>1, <4>1 DEF Settled, Return, Goto
      <4>2. CASE todo[q] # {b}
            BY <3>1, <4>2 DEF Settled
      <4> QED
        BY <4>1, <4>2
    <3>2. ASSUME ~\E b \in Branch : Settled(q, b)
          PROVE  st'[p] = st[p] /\ todo'[p] = todo[p]
          BY <2>1, <3>2 DEF FlowStep, Start, RunSession, CheckSource,
             CheckPersona, Granted, Refused, Open, Die, Finally, Goto, Return
    <3> QED
      BY <3>1, <3>2
  <2>2. CASE OpenContext(q) \/ OpenContextFails(q) \/ ReportSignals(q)
        BY <2>2 DEF OpenContext, OpenContextFails, ReportSignals
  <2>3. \/ FlowStep(q)
        \/ OpenContext(q) \/ OpenContextFails(q) \/ ReportSignals(q)
        BY Ends, CleansUp DEF StepOf, Proceed, FlowStep
  <2> QED
    BY <2>1, <2>2, <2>3
<1>2. browser'[p] = browser[p]
      BY DEF StepOf, Start, RunSession, OpenContext, OpenContextFails,
         ReportSignals, Proceed, CheckSource, CheckPersona, Granted, Refused,
         Open, OpenFails, ReportBlock, ReportSoftThrottle, ActionEnds,
         CleanUp, CloseFetcher, ReleaseGuard, ReleaseFails, EndRecord, Die
<1>3. cache'[p] = cache[p]
      BY DEF StepOf, Start, RunSession, OpenContext, OpenContextFails,
         ReportSignals, Proceed, CheckSource, CheckPersona, Granted, Refused,
         Open, OpenFails, ReportBlock, ReportSoftThrottle, ActionEnds,
         CleanUp, CloseFetcher, ReleaseGuard, ReleaseFails, EndRecord, Die,
         SetSourceCooldown, Updated, Recorded
<1> QED
    BY <1>1, <1>2, <1>3 DEF Own

LEMMA CleanedStep ==
  ASSUME TypeOK, CallsConsistent, CleanedUp, [Next]_vars
  PROVE  CleanedUp'
<1> USE DEF TypeOK
<1> DEFINE Tidy(p) ==
      /\ "open" \in browser[p] => st[p] = "running" \/ "close" \in todo[p]
      /\ st[p] = "cleanup" /\ "end" \notin todo[p] =>
           cache[p] # NoData /\ cache[p].session = NoSession
<1> SUFFICES ASSUME NEW p \in Proc PROVE Tidy(p)'
    BY DEF CleanedUp
<1>1. Tidy(p)
      BY DEF CleanedUp
<1>2. CASE Own(p)' = Own(p)
      BY <1>1, <1>2 DEF Own
<1>3. CASE Start(p) \/ (\E r \in Requests : RunSession(p, r))
      BY <1>1, <1>3 DEF Start, RunSession, Goto, CallsConsistent
<1>4. CASE \/ CheckSource(p) \/ CheckPersona(p) \/ Granted(p) \/ Refused(p)
           \/ Open(p)
      BY <1>1, <1>4 DEF CheckSource, CheckPersona, Granted, Refused, Open, Goto,
         Return, CallsConsistent
<1>5. CASE Finally(p) /\ UNCHANGED browser
      BY <1>5 DEF Finally, Goto, Branch
<1>6. CASE OpenContext(p) \/ OpenContextFails(p)
      BY <1>1, <1>6 DEF OpenContext, OpenContextFails
<1>7. CASE Die(p)
      BY <1>7 DEF Die, Goto
<1>8. ASSUME NEW b \in Branch, Settled(p, b),
             "open" \in browser'[p] => "open" \in browser[p] /\ b # "close",
             IF b = "end" THEN cache'[p] = EndSession(Known(p))
                          ELSE cache'[p] = cache[p]
      PROVE  Tidy(p)'
  <2>1. /\ EndSession(Known(p)) # NoData
        /\ EndSession(Known(p)).session = NoSession
        BY KnownRecord, SessionMutators, SessionConstants
           DEF SessionConstants
  <2>2. CASE todo[p] = {b}
        BY <1>1, <1>8, <2>2 DEF Settled, Return, Goto
  <2>3. CASE todo[p] # {b}
        BY <1>1, <1>8, <2>1, <2>3 DEF Settled
  <2> QED
    BY <2>2, <2>3
<1>9. CASE CleanUp(p)
  <2>1. CASE CloseFetcher(p)
    <3>1. "open" \notin browser'[p]
          BY <2>1, <1>1 DEF CloseFetcher, TypeOK
    <3>2. Settled(p, "close") /\ cache' = cache
          BY <2>1 DEF CloseFetcher
    <3> QED
      BY <3>1, <3>2, <1>8 DEF Branch
  <2>2. CASE ReleaseGuard(p) \/ ReleaseFails(p)
        BY <2>2, <1>8 DEF ReleaseGuard, ReleaseFails, Branch
  <2>3. CASE EndRecord(p)
        BY <2>3, <1>8 DEF EndRecord, Recorded, Branch
  <2> QED
    BY <1>9, <2>1, <2>2, <2>3 DEF CleanUp
<1>10. ASSUME NEW q \in Proc, StepOf(q)
       PROVE  Tidy(p)'
  <2>1. CASE q # p
        BY <1>10, <2>1, <1>2, OthersKept
  <2>2. CASE ReportSignals(p)
        BY <1>1, <2>2 DEF ReportSignals
  <2>3. CASE \/ OpenFails(p) \/ ReportBlock(p) \/ ReportSoftThrottle(p)
             \/ ActionEnds(p)
        BY <2>3, <1>5, Ends DEF OpenFails, ReportBlock, ReportSoftThrottle,
           ActionEnds
  <2> QED
    BY <1>3, <1>4, <1>6, <1>7, <1>9, <1>10, <2>1, <2>2, <2>3
       DEF StepOf, Proceed
<1>11. CASE Tick \/ UNCHANGED vars
      BY <1>11, <1>2 DEF Tick, vars, Own
<1> QED
    BY <1>10, <1>11 DEF Next, StepOf

-----------------------------------------------------------------------------
(* The theorems.                                                           *)

\* The inductive invariant of the session manager: types, the flow of a call,
\* sessions in progress are listed and the list is free of conflicts, and a
\* session past the gate is on a source that its process knows to be free; what
\* the clean-up has finished stays finished.
THEOREM SessionInvariant == Spec => []SessionInv
<1>1. SessionInv /\ [Next]_vars => SessionInv'
      BY TypeStep, CallsStep, GuardedStep, ExclusiveStep, GateStep,
         CleanedStep
         DEF SessionInv
<1> QED
  BY <1>1, InitInvariant, PTL DEF Spec

\* Every variable keeps its type, over all failures and crashes.
THEOREM TypeCorrect == Spec => []TypeOK
<1>1. SessionInv => TypeOK
      BY DEF SessionInv
<1> QED
  BY <1>1, SessionInvariant, PTL

\* From the grant to the release, sessions are taken and given up one at a
\* time and never next to one they exclude (SessionExclusion), also when the
\* opening fails, the clean-up fails or the process dies.
LEMMA ExclusionInit == Init => Exclusion!Init
BY DEF Init, Exclusion!Init, Held, InSession

LEMMA ExclusionStep ==
  ASSUME SessionInv, [Next]_vars
  PROVE  [Exclusion!Next]_Held
<1> USE DEF SessionInv
<1>1. ASSUME \A p \in Proc : SessionKept(p)
      PROVE  Held' = Held
      BY <1>1 DEF SessionKept, Held
<1>2. ASSUME NEW p \in Proc, SessionOver(p)
      PROVE  Held' = Held \/ Exclusion!Drop(p)
  <2>1. Held' = [Held EXCEPT ![p] = NoReq]
        BY <1>2 DEF SessionOver, SessionKept, Held
  <2>2. CASE Held[p] = NoReq
        BY <2>1, <2>2 DEF Held
  <2>3. CASE Held[p] # NoReq
        BY <2>1, <2>3 DEF Exclusion!Drop
  <2> QED
    BY <2>2, <2>3
<1>3. ASSUME NEW p \in Proc, Granted(p)
      PROVE  req[p] \in Requests /\ Exclusion!Grant(p, req[p])
  <2>1. req[p] \in Requests
        BY <1>3, InCall DEF Granted
  <2>2. ~InSession(p) /\ Held[p] = NoReq
        BY <1>3 DEF Granted, InSession, Held
  <2>3. ASSUME NEW q \in Proc, Held[q] # NoReq
        PROVE  Exclusion!Compatible(req[p], Held[q])
    <3>1. Held[q] \in entry[q]
          BY <2>3 DEF Held, Guarded
    <3> QED
      BY <1>3, <3>1
         DEF Granted, Admitted, Compatible, Exclusion!Compatible
  <2>4. Held' = [Held EXCEPT ![p] = req[p]]
        BY <1>3 DEF Granted, Goto, Held, InSession, TypeOK
  <2> QED
    BY <2>1, <2>2, <2>3, <2>4 DEF Exclusion!Grant
<1> QED
    BY <1>1, <1>2, <1>3, HeldSteps DEF Exclusion!Next

THEOREM SessionImplementsExclusion == Spec => ImplementsExclusion
<1>1. SessionInv /\ [Next]_vars => [Exclusion!Next]_Held
      BY ExclusionStep
<1> QED
  BY <1>1, ExclusionInit, SessionInvariant, PTL
     DEF Spec, ImplementsExclusion, Exclusion!Spec

\* However long a call waits between the gate and the grant, no session begins
\* on a source that its own process knows to be cooling down.
THEOREM KnownCooldownHonouredHolds == Spec => KnownCooldownHonoured
<1>1. SessionInv /\ [Next]_vars
        => [\A p \in Proc : Granting(p)
              => ~CoolingDown(cache[p], req[p].source, clock)]_vars
      BY DEF SessionInv, GatePassed, Granting
<1> QED
  BY <1>1, SessionInvariant, PTL DEF Spec, KnownCooldownHonoured

\* A later reaction of a process never shortens a cooldown it knows: at most
\* one is set per session, as its last act, and the gate has been passed.
LEMMA CooldownStep ==
  ASSUME SessionInv, [Next]_vars, NEW p \in Proc, NEW s \in Source,
         cache[p] # NoData, cache'[p] # NoData, cache[p].cooldowns[s] # Never
  PROVE  /\ cache'[p].cooldowns[s] # Never
         /\ cache'[p].cooldowns[s] >= cache[p].cooldowns[s]
<1> USE DEF SessionInv
<1>1. Known(p) = cache[p] /\ cache[p] \in CrawlStateData
      BY DEF Known, TypeOK
<1>2. cache[p].cooldowns[s] \in Nat
      BY <1>1 DEF CrawlStateData
<1>3. CASE UNCHANGED cache
      BY <1>2, <1>3
<1>4. ASSUME NEW q \in Proc, RecordKept(q) \/ RecordLost(q)
      PROVE  cache'[p].cooldowns = cache[p].cooldowns
      BY <1>4, <1>1 DEF RecordKept, RecordLost, TypeOK
<1>5. ASSUME NEW q \in Proc, CooldownSet(q)
      PROVE  /\ cache'[p].cooldowns[s] # Never
             /\ cache'[p].cooldowns[s] >= cache[p].cooldowns[s]
  <2> DEFINE s0 == req[q].source
  <2>1. PICK t \in Nat : t >= clock /\ SetSourceCooldown(q, t)
        BY <1>5 DEF CooldownSet
  <2>2. s0 \in Source
        BY <1>5, InCall DEF CooldownSet
  <2>3. /\ Known(q) \in CrawlStateData
        /\ Known(q).cooldowns \in [Source -> Nat \cup {Never}]
        BY KnownRecord DEF CrawlStateData
  <2> DEFINE d == SetCooldown(Known(q), s0, t)
  <2>4. cache' = [cache EXCEPT ![q] = d]
        BY <2>1 DEF SetSourceCooldown, Recorded
  <2>5. d.cooldowns = [Known(q).cooldowns EXCEPT ![s0] = t]
        BY <2>2, <2>3, CooldownMutator
  <2> HIDE DEF d
  <2>6. CASE q = p /\ s = s0
    <3>1. cache'[p].cooldowns[s] = t
          BY <2>2, <2>3, <2>4, <2>5, <2>6 DEF TypeOK
    <3>2. ~(clock < cache[p].cooldowns[s])
          BY <1>5, <2>6 DEF CooldownSet, GatePassed, CoolingDown
    <3> QED
      BY <2>1, <3>1, <3>2, <1>2, NeverIsNoTime
         DEF TypeOK, NeverIsNoTime
  <2>7. CASE q = p /\ s # s0
    <3>1. cache'[p].cooldowns[s] = cache[p].cooldowns[s]
          BY <1>1, <2>3, <2>4, <2>5, <2>7
    <3> QED
      BY <3>1, <1>2
  <2>8. CASE q # p
    <3>1. cache'[p] = cache[p]
          BY <2>4, <2>8
    <3> QED
      BY <3>1, <1>2
  <2> QED
    BY <2>6, <2>7, <2>8
<1> QED
    BY <1>2, <1>3, <1>4, <1>5, RecordSteps

THEOREM CooldownsOnlyGrowHolds == Spec => CooldownsOnlyGrow
<1>1. SessionInv /\ [Next]_vars
        => [\A p \in Proc : \A s \in Source :
              cache[p] # NoData /\ cache'[p] # NoData
                /\ cache[p].cooldowns[s] # Never
                => /\ cache'[p].cooldowns[s] # Never
                   /\ cache'[p].cooldowns[s] >= cache[p].cooldowns[s]]_vars
      BY CooldownStep
<1> QED
  BY <1>1, SessionInvariant, PTL DEF Spec, CooldownsOnlyGrow

\* When runSession() returns, the context is closed and the record has no
\* session, in whichever order the branches of the clean-up settled.
LEMMA CleanupStep ==
  ASSUME SessionInv, [Next]_vars, NEW p \in Proc, st[p] = "cleanup",
         st'[p] = "idle"
  PROVE  "open" \notin browser'[p] /\ cache'[p].session = NoSession
<1> USE DEF SessionInv, TypeOK
<1>1. CleanUp(p)
  <2>1. PICK q \in Proc : StepOf(q)
        BY DEF Next, StepOf, Tick, vars
  <2>2. q = p
        BY <2>1, OthersKept DEF Own
  <2> QED
    BY <2>1, <2>2, Ends DEF StepOf, Proceed, Start, RunSession, OpenContext,
       OpenContextFails, ReportSignals, CheckSource, CheckPersona, Granted,
       Refused, Open, Die, Goto
<1>2. PICK b \in Branch : Settled(p, b)
      BY <1>1, CleansUp
<1>3. todo[p] = {b}
      BY <1>2 DEF Settled
<1>4. /\ "open" \in browser[p] => b = "close"
      /\ b # "end" => cache[p].session = NoSession
      BY <1>3 DEF CleanedUp
<1>5. CASE b = "close"
      BY <1>1, <1>3, <1>4, <1>5 DEF CleanUp, CloseFetcher, ReleaseGuard,
         ReleaseFails, EndRecord, Settled
<1>6. CASE b = "release"
      BY <1>1, <1>3, <1>4, <1>6 DEF CleanUp, CloseFetcher, ReleaseGuard,
         ReleaseFails, EndRecord, Settled
<1>7. CASE b = "end"
  <2>1. EndRecord(p)
        BY <1>1, <1>3, <1>7 DEF CleanUp, CloseFetcher, ReleaseGuard,
           ReleaseFails, Settled
  <2>2. cache'[p] = EndSession(Known(p)) /\ browser' = browser
        BY <2>1 DEF EndRecord, Recorded
  <2> QED
    BY <1>4, <1>7, <2>2, KnownRecord, SessionMutators
<1> QED
    BY <1>5, <1>6, <1>7 DEF Branch

THEOREM CleanupCompleteHolds == Spec => CleanupComplete
<1>1. SessionInv /\ [Next]_vars
        => [\A p \in Proc : st[p] = "cleanup" /\ st'[p] = "idle" =>
              /\ "open" \notin browser'[p]
              /\ cache'[p].session = NoSession]_vars
      BY CleanupStep
<1> QED
  BY <1>1, SessionInvariant, PTL DEF Spec, CleanupComplete

=============================================================================
