--------------------------- MODULE CrawlStateProofs ---------------------------
(***************************************************************************)
(* Proofs about CrawlState, for every set of processes that each make one  *)
(* call at a time, whatever the others write and whenever they die: the    *)
(* inductive invariant CrawlInv, that no update is undone in a cache, and  *)
(* that CrawlStore is implemented.  For one process that writes at once:   *)
(* that the file never goes back and holds all at rest.                    *)
(***************************************************************************)
EXTENDS CrawlState, TLAPS

\* runSession() awaits each call before it makes the next one.
OneCallPerProcess ==
  \A c1, c2 \in Caller : ProcOf[c1] = ProcOf[c2] => c1 = c2

-----------------------------------------------------------------------------
(* The record.                                                             *)

LEMMA EmptyRecord == EMPTY_STATE \in CrawlStateData
BY DEF EMPTY_STATE, CrawlStateData

LEMMA ParsedRecord ==
  ASSUME TypeOK
  PROVE  Parsed(disk) \in CrawlStateData
BY EmptyRecord DEF TypeOK, Parsed

IsMutator(o) == o \in Ops /\ ~IsRead(o) /\ ~IsFlush(o)

\* Each mutator yields a record that has all that it was given.
LEMMA Mutators ==
  ASSUME NEW d \in CrawlStateData, NEW o \in Ops, IsMutator(o)
  PROVE  Apply(o, d) \in CrawlStateData /\ Keeps(Apply(o, d), d)
<1>1. CASE o.name = "markCompleted"
  <2>1. o.page \in Page /\ Apply(o, d) = MarkCompleted(d, o.page)
        BY <1>1, OpTypes DEF Apply
  <2> QED
    BY <2>1 DEF MarkCompleted, CrawlStateData, Keeps
<1>2. CASE o.name = "recordFailure"
  <2>1. o.page \in Page /\ Apply(o, d) = RecordFailure(d, o.page)
        BY <1>2, OpTypes DEF Apply
  <2> QED
    BY <2>1 DEF RecordFailure, CrawlStateData, Keeps
<1>3. CASE o.name = "setCooldown"
  <2>1. /\ o.source \in Source /\ o.until \in Nat
        /\ Apply(o, d) = SetCooldown(d, o.source, o.until)
        BY <1>3, OpTypes DEF Apply
  <2> QED
    BY <2>1, NeverIsNoTime
       DEF NeverIsNoTime, SetCooldown, CrawlStateData, Keeps
<1>4. CASE o.name = "setHealthScore"
  <2>1. /\ o.persona \in Persona /\ o.score \in Nat
        /\ Apply(o, d) = SetHealthScore(d, o.persona, o.score)
        BY <1>4, OpTypes DEF Apply
  <2> QED
    BY <2>1, NeverIsNoTime
       DEF NeverIsNoTime, SetHealthScore, CrawlStateData, Keeps
<1>5. CASE o.name = "startSession"
  <2>1. Apply(o, d) = StartSession(d)
        BY <1>5 DEF Apply
  <2> QED
    BY <2>1 DEF StartSession, CrawlStateData, Keeps
<1>6. CASE o.name = "incrementRequestCount"
  <2>1. Apply(o, d) = IncrementRequestCount(d)
        BY <1>6 DEF Apply
  <2> QED
    BY <2>1 DEF IncrementRequestCount, CrawlStateData, Keeps
<1>7. CASE o.name = "endSession"
  <2>1. Apply(o, d) = EndSession(d)
        BY <1>7 DEF Apply
  <2> QED
    BY <2>1 DEF EndSession, CrawlStateData, Keeps
<1> QED
    BY <1>1, <1>2, <1>3, <1>4, <1>5, <1>6, <1>7, OpTypes
       DEF OpTypes, IsMutator, IsRead, IsFlush

-----------------------------------------------------------------------------
(* The inductive invariant.                                                *)

LEMMA InitInvariant == Init => CrawlInv
BY CrawlStateConstants
   DEF Init, CrawlInv, TypeOK, CopiesCurrent, CallsConsistent,
       CrawlStateConstants, Step, Writer

LEMMA CallerTypes ==
  ASSUME NEW c \in Caller
  PROVE  ProcOf[c] \in Proc /\ c \in Writer
BY CrawlStateConstants DEF CrawlStateConstants, Writer

LEMMA TypeStep ==
  ASSUME CrawlInv, [Next]_vars
  PROVE  TypeOK'
<1> USE CallerTypes DEF CrawlInv, TypeOK, Step
<1>1. ASSUME NEW p \in Proc, Start(p)
      PROVE  TypeOK'
      BY <1>1, CrawlStateConstants DEF Start
<1>2. ASSUME NEW c \in Caller, NEW o \in Ops, BeginRead(c, o)
      PROVE  TypeOK'
  <2>1. calls' \in [Caller -> 0..MaxCalls]
        BY <1>2, CrawlStateConstants
           DEF BeginRead, Begun, CanBegin, CrawlStateConstants
  <2>2. snap' \in [Caller -> CrawlStateData \cup {NoData}]
        BY <1>2 DEF BeginRead
  <2> QED
    BY <1>2, <2>1, <2>2 DEF BeginRead, Begun, Goto
<1>3. ASSUME NEW c \in Caller, ReadFile(c)
      PROVE  TypeOK'
      BY <1>3, ParsedRecord DEF ReadFile, Goto
<1>4. ASSUME NEW c \in Caller, Load(c)
      PROVE  TypeOK'
      BY <1>4 DEF Load, Finish, Goto
<1>5. ASSUME NEW c \in Caller, Mutate(c)
      PROVE  TypeOK'
  <2>1. snap[c] \in CrawlStateData /\ op[c] \in Ops /\ IsMutator(op[c])
        BY <1>5 DEF Mutate, CopiesCurrent, CallsConsistent, IsMutator
  <2>2. Apply(op[c], snap[c]) \in CrawlStateData
        BY <2>1, Mutators
  <2> QED
    BY <1>5, <2>2 DEF Mutate, Finish, Goto
<1>6. ASSUME NEW c \in Caller, NEW o \in Ops, BeginFlush(c, o)
      PROVE  TypeOK'
  <2>1. calls' \in [Caller -> 0..MaxCalls]
        BY <1>6, CrawlStateConstants
           DEF BeginFlush, Begun, CanBegin, CrawlStateConstants
  <2> QED
    BY <1>6, <2>1 DEF BeginFlush, Begun, Goto
<1>7. ASSUME NEW p \in Proc, TimerFires(p)
      PROVE  TypeOK'
      BY <1>7 DEF TimerFires
<1>8. ASSUME NEW c \in Caller, CallWriteEnds(c)
      PROVE  TypeOK'
      BY <1>8 DEF CallWriteEnds, WriteEnds, Finish, Goto
<1>9. ASSUME NEW p \in Proc, TimerWriteEnds(p)
      PROVE  TypeOK'
      BY <1>9 DEF TimerWriteEnds, WriteEnds, Writer
<1>10. ASSUME NEW p \in Proc, Die(p)
       PROVE  TypeOK'
       BY <1>10 DEF Die
<1>11. CASE UNCHANGED vars
       BY <1>11 DEF vars
<1> QED
    BY <1>1, <1>2, <1>3, <1>4, <1>5, <1>6, <1>7, <1>8, <1>9, <1>10, <1>11
       DEF Next, CallStep, TimerStep

LEMMA CopiesStep ==
  ASSUME OneCallPerProcess, CrawlInv, [Next]_vars
  PROVE  CopiesCurrent'
<1> USE CallerTypes DEF CrawlInv, TypeOK, CopiesCurrent, OneCallPerProcess
<1>1. ASSUME NEW c \in Caller, NEW o \in Ops, BeginRead(c, o)
      PROVE  CopiesCurrent'
      BY <1>1 DEF BeginRead, Goto
<1>2. ASSUME NEW c \in Caller, ReadFile(c)
      PROVE  CopiesCurrent'
      BY <1>2, ParsedRecord, CrawlStateConstants
         DEF ReadFile, Goto, CrawlStateConstants
<1>3. ASSUME NEW c \in Caller, Load(c)
      PROVE  CopiesCurrent'
      BY <1>3 DEF Load, Finish, Goto
<1>4. ASSUME NEW c \in Caller, Mutate(c)
      PROVE  CopiesCurrent'
      BY <1>4 DEF Mutate, Finish, Goto
<1>5. ASSUME NEW c \in Caller, NEW o \in Ops, BeginFlush(c, o)
      PROVE  CopiesCurrent'
      BY <1>5 DEF BeginFlush, Goto
<1>6. ASSUME NEW c \in Caller, CallWriteEnds(c)
      PROVE  CopiesCurrent'
      BY <1>6 DEF CallWriteEnds, Finish, Goto
<1>7. ASSUME NEW p \in Proc, Die(p)
      PROVE  CopiesCurrent'
      BY <1>7 DEF Die
<1>8. CASE UNCHANGED <<cache, pc, snap>>
      BY <1>8
<1> QED
    BY <1>1, <1>2, <1>3, <1>4, <1>5, <1>6, <1>7, <1>8
       DEF Next, CallStep, TimerStep, Start, TimerFires, TimerWriteEnds, vars

LEMMA CallsStep ==
  ASSUME CrawlInv, [Next]_vars
  PROVE  CallsConsistent'
<1> USE CallerTypes DEF CrawlInv, TypeOK, CallsConsistent
<1>1. ASSUME NEW c \in Caller, NEW o \in Ops, BeginRead(c, o)
      PROVE  CallsConsistent'
      BY <1>1 DEF BeginRead, Begun, Goto
<1>2. ASSUME NEW c \in Caller, ReadFile(c)
      PROVE  CallsConsistent'
      BY <1>2 DEF ReadFile, Goto
<1>3. ASSUME NEW c \in Caller, Load(c)
      PROVE  CallsConsistent'
      BY <1>3 DEF Load, CopiesCurrent, Finish, Goto
<1>4. ASSUME NEW c \in Caller, Mutate(c)
      PROVE  CallsConsistent'
  <2>1. Apply(op[c], snap[c]) # NoData
        BY <1>4, Mutators, CrawlStateConstants
           DEF Mutate, CopiesCurrent, IsMutator, CrawlStateConstants
  <2> QED
    BY <1>4, <2>1 DEF Mutate, Finish, Goto
<1>5. ASSUME NEW c \in Caller, NEW o \in Ops, BeginFlush(c, o)
      PROVE  CallsConsistent'
      BY <1>5 DEF BeginFlush, Begun, Goto
<1>6. ASSUME NEW c \in Caller, CallWriteEnds(c)
      PROVE  CallsConsistent'
      BY <1>6 DEF CallWriteEnds, Finish, Goto
<1>7. ASSUME NEW p \in Proc, Die(p)
      PROVE  CallsConsistent'
      BY <1>7 DEF Die
<1>8. ASSUME NEW p \in Proc, TimerFires(p)
      PROVE  CallsConsistent'
      BY <1>8 DEF TimerFires
<1>9. CASE UNCHANGED <<cache, pc, op, timer>>
      BY <1>9
<1> QED
    BY <1>1, <1>2, <1>3, <1>4, <1>5, <1>6, <1>7, <1>8, <1>9
       DEF Next, CallStep, TimerStep, Start, TimerWriteEnds, vars

-----------------------------------------------------------------------------
(* The theorems.                                                           *)

\* The inductive invariant: types, and the copy that a mutator is given is the
\* cache it is about to replace.
THEOREM CrawlInvariant ==
  ASSUME OneCallPerProcess
  PROVE  Spec => []CrawlInv
<1>1. CrawlInv /\ [Next]_vars => CrawlInv'
      BY TypeStep, CopiesStep, CallsStep DEF CrawlInv
<1> QED
  BY <1>1, InitInvariant, PTL DEF Spec

\* Every variable keeps its type: no failed or reordered write, crash or read
\* of a missing file puts anything but a record into the file or a cache.
THEOREM TypeCorrect ==
  ASSUME OneCallPerProcess
  PROVE  Spec => []TypeOK
<1>1. CrawlInv => TypeOK
      BY DEF CrawlInv
<1> QED
  BY <1>1, CrawlInvariant, PTL

LEMMA KeepsItself ==
  ASSUME NEW d \in CrawlStateData
  PROVE  Keeps(d, d)
BY DEF Keeps, CrawlStateData

LEMMA UpdateStep ==
  ASSUME OneCallPerProcess, CrawlInv, [Next]_vars, NEW p \in Proc,
         cache[p] # NoData, cache'[p] # NoData
  PROVE  Keeps(cache'[p], cache[p])
<1> USE CallerTypes DEF CrawlInv, TypeOK
<1>1. CASE cache'[p] = cache[p]
      BY <1>1, KeepsItself
<1>2. ASSUME NEW c \in Caller, Load(c)
      PROVE  cache'[p] = cache[p]
      BY <1>2 DEF Load, CopiesCurrent
<1>3. ASSUME NEW c \in Caller, Mutate(c)
      PROVE  Keeps(cache'[p], cache[p])
  <2>1. CASE ProcOf[c] = p
    <3>1. snap[c] = cache[p] /\ IsMutator(op[c])
          BY <1>3, <2>1
             DEF Mutate, CopiesCurrent, CallsConsistent, IsMutator
    <3>2. cache'[p] = Apply(op[c], cache[p])
          BY <1>3, <2>1, <3>1 DEF Mutate
    <3> QED
      BY <3>1, <3>2, Mutators DEF IsMutator
  <2>2. CASE ProcOf[c] # p
        BY <1>3, <2>2, <1>1 DEF Mutate
  <2> QED
    BY <2>1, <2>2
<1>4. ASSUME NEW q \in Proc, Die(q)
      PROVE  cache'[p] = cache[p]
      BY <1>4 DEF Die
<1> QED
    BY <1>1, <1>2, <1>3, <1>4
       DEF Next, CallStep, TimerStep, Start, TimerFires, TimerWriteEnds,
           BeginRead, BeginFlush, ReadFile, CallWriteEnds, vars

\* As long as a process lives, no update it makes is undone by a later one, be
\* there any number of other processes that write the file in between.
THEOREM UpdatesKeptHolds ==
  ASSUME OneCallPerProcess
  PROVE  Spec => UpdatesKept
<1>1. CrawlInv /\ [Next]_vars
        => [\A p \in Proc :
              cache[p] # NoData /\ cache'[p] # NoData
                => Keeps(cache'[p], cache[p])]_vars
      BY UpdateStep
<1> QED
  BY <1>1, CrawlInvariant, PTL DEF Spec, UpdatesKept

-----------------------------------------------------------------------------
(* What is under way, for any number of processes.                         *)

\* A process that does not run has nothing under way and nothing in memory.
Stopped(p) ==
  p \notin up => /\ cache[p] = NoData /\ ~timer[p] /\ inflight[p] = NoData
                 /\ \A c \in Caller : ProcOf[c] = p => pc[c] = "idle"

\* Without a debounce nothing is left to the timer.
NoTimer(p) == ~debounced[p] => ~timer[p] /\ inflight[p] = NoData

\* What a call writes, without a debounce, is the cache.
WritesCurrent(p) ==
  ~debounced[p] =>
    \A c \in Caller : ProcOf[c] = p /\ pc[c] = "write" =>
      inflight[c] = cache[p] /\ cache[p] # NoData

UnderWayInv ==
  /\ \A c \in Caller : inflight[c] # NoData <=> pc[c] = "write"
  /\ \A p \in Proc : Stopped(p) /\ NoTimer(p) /\ WritesCurrent(p)

LEMMA KeepsTransitive ==
  ASSUME NEW a \in CrawlStateData, NEW b \in CrawlStateData,
         NEW d \in CrawlStateData, Keeps(a, b), Keeps(b, d)
  PROVE  Keeps(a, d)
<1>1. d.completed \subseteq a.completed
      BY DEF Keeps
<1>2. \A u \in Page : /\ a.retries[u] \in Nat /\ b.retries[u] \in Nat
                      /\ d.retries[u] \in Nat
      BY DEF CrawlStateData
<1>3. ASSUME NEW u \in Page
      PROVE  d.retries[u] <= a.retries[u]
  <2>1. d.retries[u] <= b.retries[u] /\ b.retries[u] <= a.retries[u]
        BY DEF Keeps
  <2> QED
    BY <1>2, <2>1
<1>4. /\ \A s \in Source : d.cooldowns[s] # Never => a.cooldowns[s] # Never
      /\ \A x \in Persona : d.health[x] # Never => a.health[x] # Never
      BY DEF Keeps
<1> QED
  BY <1>1, <1>3, <1>4 DEF Keeps

LEMMA ProcWrites ==
  ASSUME NEW q \in Proc
  PROVE  q \in Writer /\ q \notin Caller
BY CrawlStateConstants DEF CrawlStateConstants, Writer

LEMMA ParsedOfRecord ==
  ASSUME NEW d \in CrawlStateData
  PROVE  Parsed(d) = d
BY CrawlStateConstants DEF CrawlStateConstants, Parsed

LEMMA InitUnderWay == ASSUME Init PROVE UnderWayInv
BY CallerTypes, CrawlStateConstants
   DEF Init, UnderWayInv, Stopped, NoTimer, WritesCurrent, Writer

\* A call is writing as long as its write is in flight.
LEMMA WritersStep ==
  ASSUME CrawlInv, UnderWayInv, [Next]_vars, NEW c \in Caller
  PROVE  inflight'[c] # NoData <=> pc'[c] = "write"
<1> USE CallerTypes DEF CrawlInv, TypeOK, UnderWayInv
<1>1. ASSUME NEW b \in Caller, NEW o \in Ops, BeginRead(b, o)
      PROVE  inflight'[c] # NoData <=> pc'[c] = "write"
  BY <1>1 DEF BeginRead, CanBegin, Goto
<1>2. ASSUME NEW b \in Caller, ReadFile(b)
      PROVE  inflight'[c] # NoData <=> pc'[c] = "write"
  BY <1>2 DEF ReadFile, Goto
<1>3. ASSUME NEW b \in Caller, Load(b)
      PROVE  inflight'[c] # NoData <=> pc'[c] = "write"
  BY <1>3 DEF Load, Finish, Goto
<1>4. ASSUME NEW b \in Caller, Mutate(b)
      PROVE  inflight'[c] # NoData <=> pc'[c] = "write"
  <2>1. Apply(op[b], snap[b]) # NoData
        BY <1>4, Mutators, CrawlStateConstants
           DEF Mutate, CopiesCurrent, CallsConsistent, IsMutator,
               CrawlStateConstants
  <2> QED
    BY <1>4, <2>1 DEF Mutate, Finish, Goto
<1>5. ASSUME NEW b \in Caller, NEW o \in Ops, BeginFlush(b, o)
      PROVE  inflight'[c] # NoData <=> pc'[c] = "write"
  BY <1>5 DEF BeginFlush, Begun, Goto
<1>6. ASSUME NEW b \in Caller, CallWriteEnds(b)
      PROVE  inflight'[c] # NoData <=> pc'[c] = "write"
  BY <1>6 DEF CallWriteEnds, WriteEnds, Finish, Goto
<1>7. ASSUME NEW q \in Proc, TimerStep(q)
      PROVE  inflight'[c] # NoData <=> pc'[c] = "write"
  <2>1. c # q
        BY CrawlStateConstants DEF CrawlStateConstants
  <2>2. inflight'[c] = inflight[c] /\ pc' = pc
        BY <1>7, <2>1 DEF TimerStep, TimerFires, TimerWriteEnds, WriteEnds
  <2> QED
    BY <2>2
<1>8. ASSUME NEW q \in Proc, Die(q)
      PROVE  inflight'[c] # NoData <=> pc'[c] = "write"
  <2>1. c # q
        BY CrawlStateConstants DEF CrawlStateConstants
  <2> QED
    BY <1>8, <2>1 DEF Die
<1>9. CASE UNCHANGED <<pc, inflight>>
  BY <1>9
<1> QED
    BY <1>1, <1>2, <1>3, <1>4, <1>5, <1>6, <1>7, <1>8, <1>9
       DEF Next, CallStep, Start, vars

LEMMA StoppedStep ==
  ASSUME CrawlInv, UnderWayInv, [Next]_vars, NEW p \in Proc
  PROVE  Stopped(p)'
<1> USE CallerTypes, ProcWrites DEF CrawlInv, TypeOK, UnderWayInv, Stopped
<1>1. ASSUME NEW c \in Caller, NEW o \in Ops,
             BeginRead(c, o) \/ BeginFlush(c, o)
      PROVE  Stopped(p)'
  BY <1>1 DEF BeginRead, BeginFlush, CanBegin, Goto
<1>2. ASSUME NEW c \in Caller, CallStep(c)
      PROVE  Stopped(p)'
  <2>1. pc[c] # "idle"
        BY <1>2 DEF CallStep, ReadFile, Load, Mutate, CallWriteEnds, WriteEnds
  <2>2. ProcOf[c] \in up /\ up' = up
        BY <1>2, <2>1
           DEF CallStep, ReadFile, Load, Mutate, CallWriteEnds
  <2> QED
    BY <1>2, <2>2
       DEF CallStep, ReadFile, Load, Mutate, CallWriteEnds, WriteEnds, Finish,
           Goto
<1>3. ASSUME NEW q \in Proc, TimerStep(q)
      PROVE  Stopped(p)'
  BY <1>3 DEF TimerStep, TimerFires, TimerWriteEnds, WriteEnds
<1>4. ASSUME NEW q \in Proc, Start(q)
      PROVE  Stopped(p)'
  BY <1>4 DEF Start
<1>5. ASSUME NEW q \in Proc, Die(q)
      PROVE  Stopped(p)'
  BY <1>5 DEF Die, Writer
<1>6. CASE UNCHANGED vars
  BY <1>6 DEF vars
<1> QED
    BY <1>1, <1>2, <1>3, <1>4, <1>5, <1>6 DEF Next

LEMMA NoTimerStep ==
  ASSUME CrawlInv, UnderWayInv, [Next]_vars, NEW p \in Proc
  PROVE  NoTimer(p)'
<1> USE CallerTypes, ProcWrites DEF CrawlInv, TypeOK, UnderWayInv, NoTimer
<1>1. ASSUME NEW c \in Caller, NEW o \in Ops,
             BeginRead(c, o) \/ BeginFlush(c, o)
      PROVE  NoTimer(p)'
  BY <1>1 DEF BeginRead, BeginFlush
<1>2. ASSUME NEW c \in Caller, CallStep(c)
      PROVE  NoTimer(p)'
  BY <1>2 DEF CallStep, ReadFile, Load, Mutate, CallWriteEnds, WriteEnds
<1>3. ASSUME NEW q \in Proc, TimerStep(q)
      PROVE  NoTimer(p)'
  BY <1>3 DEF TimerStep, TimerFires, TimerWriteEnds, WriteEnds
<1>4. ASSUME NEW q \in Proc, Start(q)
      PROVE  NoTimer(p)'
  BY <1>4, CrawlStateConstants DEF Start, Stopped, CrawlStateConstants
<1>5. ASSUME NEW q \in Proc, Die(q)
      PROVE  NoTimer(p)'
  BY <1>5 DEF Die, Writer
<1>6. CASE UNCHANGED vars
  BY <1>6 DEF vars
<1> QED
    BY <1>1, <1>2, <1>3, <1>4, <1>5, <1>6 DEF Next

LEMMA CurrentStep ==
  ASSUME OneCallPerProcess, CrawlInv, UnderWayInv, [Next]_vars, NEW p \in Proc
  PROVE  WritesCurrent(p)'
<1> SUFFICES ASSUME ~debounced'[p]
             PROVE  WritesCurrent(p)'
    BY DEF WritesCurrent
<1> USE CallerTypes
    DEF CrawlInv, TypeOK, UnderWayInv, OneCallPerProcess, WritesCurrent
<1>1. ASSUME NEW c \in Caller, NEW o \in Ops, BeginRead(c, o)
      PROVE  WritesCurrent(p)'
  BY <1>1 DEF BeginRead, CanBegin, Goto
<1>2. ASSUME NEW c \in Caller, ReadFile(c)
      PROVE  WritesCurrent(p)'
  BY <1>2 DEF ReadFile, Goto
<1>3. ASSUME NEW c \in Caller, Load(c)
      PROVE  WritesCurrent(p)'
  BY <1>3 DEF Load, Finish, Goto
<1>4. ASSUME NEW c \in Caller, Mutate(c)
      PROVE  WritesCurrent(p)'
  <2>1. Apply(op[c], snap[c]) # NoData
        BY <1>4, Mutators, CrawlStateConstants
           DEF Mutate, CopiesCurrent, CallsConsistent, IsMutator,
               CrawlStateConstants
  <2> QED
    BY <1>4, <2>1 DEF Mutate, Finish, Goto
<1>5. ASSUME NEW c \in Caller, NEW o \in Ops, BeginFlush(c, o)
      PROVE  WritesCurrent(p)'
  BY <1>5 DEF BeginFlush, Begun, Goto
<1>6. ASSUME NEW c \in Caller, CallWriteEnds(c)
      PROVE  WritesCurrent(p)'
  BY <1>6 DEF CallWriteEnds, WriteEnds, Finish, Goto
<1>7. ASSUME NEW q \in Proc, TimerStep(q)
      PROVE  WritesCurrent(p)'
  <2>1. \A c \in Caller : c # q
        BY CrawlStateConstants DEF CrawlStateConstants
  <2>2. (\A c \in Caller : inflight'[c] = inflight[c])
        /\ UNCHANGED <<pc, cache, debounced>>
        BY <1>7, <2>1 DEF TimerStep, TimerFires, TimerWriteEnds, WriteEnds
  <2> QED
    BY <2>2
<1>8. ASSUME NEW q \in Proc, Start(q)
      PROVE  WritesCurrent(p)'
  BY <1>8 DEF Start, Stopped
<1>9. ASSUME NEW q \in Proc, Die(q)
      PROVE  WritesCurrent(p)'
  <2>1. \A c \in Caller : ProcOf[c] = p /\ pc'[c] = "write" =>
          /\ p # q /\ pc[c] = "write"
          /\ cache'[p] = cache[p] /\ inflight'[c] = inflight[c]
    <3> SUFFICES ASSUME NEW c \in Caller, ProcOf[c] = p, pc'[c] = "write"
                 PROVE  /\ p # q /\ pc[c] = "write"
                        /\ cache'[p] = cache[p] /\ inflight'[c] = inflight[c]
        OBVIOUS
    <3>1. c # q
          BY CrawlStateConstants DEF CrawlStateConstants
    <3>2. p # q /\ pc[c] = "write"
          BY <1>9 DEF Die
    <3> QED
      BY <1>9, <3>1, <3>2 DEF Die
  <2>2. debounced' = debounced
        BY <1>9 DEF Die
  <2> QED
    BY <2>1, <2>2
<1>10. CASE UNCHANGED vars
  BY <1>10 DEF vars
<1> QED
    BY <1>1, <1>2, <1>3, <1>4, <1>5, <1>6, <1>7, <1>8, <1>9, <1>10
       DEF Next, CallStep

LEMMA UnderWayStep ==
  ASSUME OneCallPerProcess, CrawlInv, UnderWayInv, [Next]_vars
  PROVE  CrawlInv' /\ UnderWayInv'
<1>1. CrawlInv'
      BY TypeStep, CopiesStep, CallsStep DEF CrawlInv
<1>2. \A c \in Caller : inflight'[c] # NoData <=> pc'[c] = "write"
      BY WritersStep
<1>3. \A p \in Proc : Stopped(p)' /\ NoTimer(p)' /\ WritesCurrent(p)'
      BY StoppedStep, NoTimerStep, CurrentStep
<1> QED
  BY <1>1, <1>2, <1>3 DEF UnderWayInv

\* Nothing but the cache is ever on its way to the file without a debounce.
LEMMA UnderWayInvariant ==
  ASSUME OneCallPerProcess
  PROVE  Spec => [](CrawlInv /\ UnderWayInv)
<1>1. Init => CrawlInv /\ UnderWayInv
      BY InitInvariant, InitUnderWay
<1>2. CrawlInv /\ UnderWayInv /\ [Next]_vars => (CrawlInv /\ UnderWayInv)'
      BY UnderWayStep
<1> QED
  BY <1>1, <1>2, PTL DEF Spec

-----------------------------------------------------------------------------
(* The file, where there is one process and it writes at once.             *)

\* The crawl runs in one process; another one starts when it has died.
SoleProcess == \A p, q \in Proc : p = q

\* What a call has read is what the file still holds; the cache has all that
\* the file has, and differs from it only while a write is under way or after
\* one that failed.
CacheAhead(p) ==
  ~debounced[p] =>
    /\ \A c \in Caller : ProcOf[c] = p /\ pc[c] = "load" =>
         snap[c] = Parsed(disk)
    /\ cache[p] # NoData =>
         /\ Keeps(cache[p], Parsed(disk))
         /\ \/ p \in failed
            \/ \E c \in Caller : ProcOf[c] = p /\ pc[c] = "write"
            \/ Parsed(disk) = cache[p]

SavedInv == UnderWayInv /\ \A p \in Proc : CacheAhead(p)

LEMMA InitSaved == ASSUME Init PROVE SavedInv
BY InitUnderWay DEF Init, SavedInv, CacheAhead

LEMMA AheadStep ==
  ASSUME OneCallPerProcess, SoleProcess, CrawlInv, SavedInv, [Next]_vars,
         NEW p \in Proc
  PROVE  CacheAhead(p)'
<1> SUFFICES ASSUME ~debounced'[p]
             PROVE  CacheAhead(p)'
    BY DEF CacheAhead
<1> USE CallerTypes
    DEF CrawlInv, TypeOK, SavedInv, UnderWayInv, OneCallPerProcess,
        SoleProcess
<1>1. ASSUME NEW c \in Caller, NEW o \in Ops, BeginRead(c, o)
      PROVE  CacheAhead(p)'
  BY <1>1 DEF BeginRead, CanBegin, Goto, CacheAhead
<1>2. ASSUME NEW c \in Caller, ReadFile(c)
      PROVE  CacheAhead(p)'
  BY <1>2 DEF ReadFile, Goto, CacheAhead, CopiesCurrent
<1>3. ASSUME NEW c \in Caller, Load(c)
      PROVE  CacheAhead(p)'
  <2>1. ProcOf[c] = p /\ snap[c] = Parsed(disk)
        BY <1>3 DEF Load, CacheAhead
  <2>2. cache'[p] = Parsed(disk) /\ UNCHANGED <<disk, inflight>>
        BY <1>3, <2>1 DEF Load
  <2>3. Keeps(cache'[p], Parsed(disk'))
        BY <2>2, ParsedRecord, KeepsItself
  <2>4. \A b \in Caller : b = c /\ pc'[b] \notin {"load", "write"}
        BY <1>3, <2>1 DEF Load, Finish, Goto
  <2> QED
    BY <2>2, <2>3, <2>4 DEF CacheAhead
<1>4. ASSUME NEW c \in Caller, Mutate(c)
      PROVE  CacheAhead(p)'
  <2>1. ProcOf[c] = p /\ ~debounced[p] /\ snap[c] = cache[p]
        /\ cache[p] \in CrawlStateData /\ IsMutator(op[c])
        BY <1>4 DEF Mutate, CopiesCurrent, CallsConsistent, IsMutator
  <2> DEFINE next == Apply(op[c], cache[p])
  <2>2. next \in CrawlStateData /\ Keeps(next, cache[p])
        BY <2>1, Mutators DEF IsMutator
  <2>3. /\ cache'[p] = next /\ inflight'[c] = next /\ pc'[c] = "write"
        /\ disk' = disk
        BY <1>4, <2>1 DEF Mutate, Goto
  <2>4. Keeps(cache[p], Parsed(disk))
        BY <2>1, <1>4, CrawlStateConstants
           DEF CacheAhead, CopiesCurrent, Mutate
  <2>5. Keeps(next, Parsed(disk))
        BY <2>1, <2>2, <2>4, ParsedRecord, KeepsTransitive
  <2>6. next # NoData /\ \A b \in Caller : b = c
        BY <2>1, <2>2, CrawlStateConstants DEF CrawlStateConstants
  <2> HIDE DEF next
  <2> QED
    BY <2>1, <2>3, <2>5, <2>6 DEF CacheAhead
<1>5. ASSUME NEW c \in Caller, NEW o \in Ops, BeginFlush(c, o)
      PROVE  CacheAhead(p)'
  BY <1>5 DEF BeginFlush, Goto, CacheAhead
<1>6. ASSUME NEW c \in Caller, CallWriteEnds(c)
      PROVE  CacheAhead(p)'
  <2>1. /\ ProcOf[c] = p /\ pc[c] = "write" /\ ~debounced[p]
        /\ UNCHANGED cache
        /\ \A b \in Caller : b = c /\ pc'[b] = "idle"
        BY <1>6 DEF CallWriteEnds, WriteEnds, Finish, Goto
  <2>2. inflight[c] = cache[p] /\ cache[p] # NoData
        /\ cache[p] \in CrawlStateData
        BY <2>1 DEF WritesCurrent
  <2>3. CASE disk' = inflight[c]
    BY <2>1, <2>2, <2>3, ParsedOfRecord, KeepsItself DEF CacheAhead, Parsed
  <2>4. CASE failed' = failed \cup {p} /\ UNCHANGED disk
    BY <2>1, <2>2, <2>4 DEF CacheAhead
  <2> QED
    BY <1>6, <2>1, <2>3, <2>4 DEF CallWriteEnds, WriteEnds
<1>7. ASSUME NEW q \in Proc, TimerStep(q)
      PROVE  CacheAhead(p)'
  BY <1>7 DEF TimerStep, TimerFires, TimerWriteEnds, WriteEnds, NoTimer
<1>8. ASSUME NEW q \in Proc, Start(q)
      PROVE  CacheAhead(p)'
  BY <1>8 DEF Start, Stopped, CacheAhead
<1>9. ASSUME NEW q \in Proc, Die(q)
      PROVE  CacheAhead(p)'
  BY <1>9 DEF Die, CacheAhead
<1>10. CASE UNCHANGED vars
  BY <1>10 DEF vars, CacheAhead, Parsed
<1> QED
    BY <1>1, <1>2, <1>3, <1>4, <1>5, <1>6, <1>7, <1>8, <1>9, <1>10
       DEF Next, CallStep

\* Both invariants at once: neither the file nor a copy of it is ever behind
\* what the sole process has read or written.
LEMMA SavedInvariant ==
  ASSUME OneCallPerProcess, SoleProcess
  PROVE  Spec => [](CrawlInv /\ SavedInv)
<1>1. Init => CrawlInv /\ SavedInv
      BY InitInvariant, InitSaved
<1>2. CrawlInv /\ SavedInv /\ [Next]_vars => (CrawlInv /\ SavedInv)'
  <2> SUFFICES ASSUME CrawlInv, SavedInv, [Next]_vars
               PROVE  CrawlInv' /\ SavedInv'
      OBVIOUS
  <2>1. CrawlInv' /\ UnderWayInv'
        BY UnderWayStep DEF SavedInv
  <2>2. \A p \in Proc : CacheAhead(p)'
        BY AheadStep
  <2> QED
    BY <2>1, <2>2 DEF SavedInv
<1> QED
  BY <1>1, <1>2, PTL DEF Spec

\* Where the sole process writes at once, the file holds its whole state
\* whenever no call is under way, unless the last write failed: a crash there
\* loses nothing (CrawlState.update() without debounceMs).
THEOREM PersistedAtOnceHolds ==
  ASSUME OneCallPerProcess, SoleProcess
  PROVE  Spec => []PersistedAtOnce
<1>1. CrawlInv /\ SavedInv => PersistedAtOnce
      BY DEF SavedInv, UnderWayInv, CacheAhead, PersistedAtOnce,
             SavedAtRest, AtRest
<1> QED
  BY <1>1, SavedInvariant, PTL

LEMMA FileStep ==
  ASSUME CrawlInv, SavedInv, [Next]_vars, disk # NoFile,
         \A p \in Proc : ~debounced[p]
  PROVE  Keeps(disk', disk)
<1> USE CallerTypes DEF CrawlInv, TypeOK, SavedInv, UnderWayInv
<1>1. disk \in CrawlStateData /\ Parsed(disk) = disk
      BY DEF Parsed
<1>2. CASE disk' = disk
  BY <1>1, <1>2, KeepsItself
<1>3. ASSUME NEW c \in Caller, CallWriteEnds(c), disk' # disk
      PROVE  Keeps(disk', disk)
  <2>1. disk' = inflight[c] /\ pc[c] = "write"
        BY <1>3 DEF CallWriteEnds, WriteEnds
  <2>2. disk' = cache[ProcOf[c]] /\ Keeps(cache[ProcOf[c]], Parsed(disk))
        BY <2>1 DEF CacheAhead, WritesCurrent
  <2> QED
    BY <2>2, <1>1
<1>4. ASSUME NEW q \in Proc, TimerWriteEnds(q)
      PROVE  FALSE
  BY <1>4 DEF TimerWriteEnds, WriteEnds, NoTimer
<1> QED
    BY <1>2, <1>3, <1>4
       DEF Next, CallStep, TimerStep, Start, Die, TimerFires, BeginRead,
           BeginFlush, ReadFile, Load, Mutate, vars

\* Where the sole process writes at once, no write takes anything out of the
\* file: not after one that failed, and not after a crash in the middle of a
\* call, when the next process writes on from what it reads.
THEOREM FileKeptHolds ==
  ASSUME OneCallPerProcess, SoleProcess
  PROVE  Spec => FileKept
<1>1. CrawlInv /\ SavedInv /\ [Next]_vars
        => [disk # NoFile /\ (\A p \in Proc : ~debounced[p])
              => Keeps(disk', disk)]_vars
      BY FileStep
<1> QED
  BY <1>1, SavedInvariant, PTL DEF Spec, FileKept

-----------------------------------------------------------------------------
(* CrawlState implements CrawlStore.                                       *)

Memory == [p \in Proc |-> Remembered(p)]

LEMMA RememberedIs ==
  ASSUME OneCallPerProcess, NEW p \in Proc
  PROVE  /\ \A c \in Caller : ProcOf[c] = p /\ pc[c] = "load" =>
              Remembered(p) = snap[c]
         /\ (\A c \in Caller : ProcOf[c] = p => pc[c] # "load") =>
              Remembered(p) = cache[p]
<1> DEFINE loading == {c \in Caller : ProcOf[c] = p /\ pc[c] = "load"}
<1>1. Remembered(p) =
        IF loading = {} THEN cache[p] ELSE snap[CHOOSE c \in loading : TRUE]
      BY DEF Remembered
<1>2. ASSUME NEW c \in Caller, ProcOf[c] = p, pc[c] = "load"
      PROVE  Remembered(p) = snap[c]
  <2>1. loading = {c}
        BY <1>2 DEF OneCallPerProcess
  <2>2. (CHOOSE d \in loading : TRUE) = c
        BY <2>1
  <2> QED
    BY <1>1, <2>1, <2>2
<1>3. ASSUME \A c \in Caller : ProcOf[c] = p => pc[c] # "load"
      PROVE  Remembered(p) = cache[p]
      BY <1>1, <1>3
<1> QED
  BY <1>2, <1>3

LEMMA RememberedNext ==
  ASSUME OneCallPerProcess, NEW p \in Proc
  PROVE  /\ \A c \in Caller : ProcOf[c] = p /\ pc'[c] = "load" =>
              Remembered(p)' = snap'[c]
         /\ (\A c \in Caller : ProcOf[c] = p => pc'[c] # "load") =>
              Remembered(p)' = cache'[p]
<1> DEFINE loading == {c \in Caller : ProcOf[c] = p /\ pc'[c] = "load"}
<1>1. Remembered(p)' =
        IF loading = {} THEN cache'[p] ELSE snap'[CHOOSE c \in loading : TRUE]
      BY DEF Remembered
<1>2. ASSUME NEW c \in Caller, ProcOf[c] = p, pc'[c] = "load"
      PROVE  Remembered(p)' = snap'[c]
  <2>1. loading = {c}
        BY <1>2 DEF OneCallPerProcess
  <2>2. (CHOOSE d \in loading : TRUE) = c
        BY <2>1
  <2> QED
    BY <1>1, <2>1, <2>2
<1>3. ASSUME \A c \in Caller : ProcOf[c] = p => pc'[c] # "load"
      PROVE  Remembered(p)' = cache'[p]
      BY <1>1, <1>3
<1> QED
  BY <1>2, <1>3

\* A process that neither begins nor ends to load and whose cache is left alone
\* remembers what it did.
LEMMA MemoryKept ==
  ASSUME OneCallPerProcess, NEW p \in Proc, cache'[p] = cache[p],
         \A c \in Caller : ProcOf[c] = p =>
           /\ pc'[c] = "load" <=> pc[c] = "load"
           /\ pc[c] = "load" => snap'[c] = snap[c]
  PROVE  Remembered(p)' = Remembered(p)
<1>1. CASE \E c \in Caller : ProcOf[c] = p /\ pc[c] = "load"
  <2>1. PICK c \in Caller : ProcOf[c] = p /\ pc[c] = "load"
        BY <1>1
  <2>2. Remembered(p) = snap[c] /\ Remembered(p)' = snap'[c]
        BY <2>1, RememberedIs, RememberedNext
  <2> QED
    BY <2>1, <2>2
<1>2. CASE \A c \in Caller : ProcOf[c] = p => pc[c] # "load"
      BY <1>2, RememberedIs, RememberedNext
<1> QED
  BY <1>1, <1>2

\* A step that leaves the file alone and changes what p remembers, if anything.
LEMMA MemoryOf ==
  ASSUME NEW p \in Proc, NEW d,
         Remembered(p)' = d,
         \A q \in Proc : q # p => Remembered(q)' = Remembered(q)
  PROVE  Memory' = [Memory EXCEPT ![p] = d]
BY DEF Memory

LEMMA StoreInit == ASSUME Init PROVE Store!Init
<1>1. \A p \in Proc : Remembered(p) = NoData
      BY DEF Init, Remembered
<1>2. Parsed(disk) = EMPTY_STATE
      BY DEF Init, Parsed
<1>3. inflight = [w \in Writer |-> NoData] /\ debounced \in [Proc -> BOOLEAN]
      BY DEF Init
<1> QED
  BY <1>1, <1>2, <1>3 DEF Store!Init, Store!EMPTY_STATE, EMPTY_STATE

\* The process a writer belongs to: a timer's is itself.
OwnerOf == [w \in Writer |-> IF w \in Proc THEN w ELSE ProcOf[w]]

LEMMA Owners ==
  /\ \A c \in Caller : c \in Writer /\ OwnerOf[c] = ProcOf[c]
  /\ \A p \in Proc : p \in Writer /\ OwnerOf[p] = p
BY CrawlStateConstants DEF CrawlStateConstants, Writer, OwnerOf

\* A process whose calls do not stand between reading the file and filling the
\* cache remembers its cache.
LEMMA RemembersCache ==
  ASSUME OneCallPerProcess, CrawlInv, NEW p \in Proc,
         \/ cache[p] # NoData
         \/ \E c \in Caller : ProcOf[c] = p /\ pc[c] # "load"
  PROVE  Remembered(p) = cache[p]
<1>1. \A c \in Caller : ProcOf[c] = p => pc[c] # "load"
      BY DEF OneCallPerProcess, CrawlInv, CopiesCurrent
<1> QED
  BY <1>1, RememberedIs

\* Steps that neither load nor end loading, with the caches as they were.
LEMMA MemoryUnchanged ==
  ASSUME OneCallPerProcess, UNCHANGED cache,
         \A c \in Caller : /\ pc'[c] = "load" <=> pc[c] = "load"
                           /\ pc[c] = "load" => snap'[c] = snap[c]
  PROVE  Memory' = Memory
<1>1. \A p \in Proc : Remembered(p)' = Remembered(p)
      BY MemoryKept
<1> QED
  BY <1>1 DEF Memory

LEMMA ReadFileLoads ==
  ASSUME OneCallPerProcess, CrawlInv, NEW c \in Caller, ReadFile(c)
  PROVE  Store!Load(ProcOf[c])
<1> DEFINE p == ProcOf[c]
<1> USE CallerTypes DEF CrawlInv, TypeOK
<1>1. p \in Proc /\ pc[c] = "read" /\ cache[p] = NoData
      BY DEF ReadFile, CopiesCurrent
<1>2. Remembered(p) = NoData
      BY <1>1, RemembersCache
<1>3. Remembered(p)' = Parsed(disk)
      BY <1>1, RememberedNext DEF ReadFile, Goto
<1>4. \A q \in Proc : q # p => Remembered(q)' = Remembered(q)
      BY MemoryKept DEF ReadFile, Goto
<1>5. Memory' = [Memory EXCEPT ![p] = Parsed(disk)]
      BY <1>1, <1>3, <1>4, MemoryOf
<1>6. Parsed(disk)' = Parsed(disk) /\ UNCHANGED <<debounced, inflight>>
      BY DEF ReadFile, Parsed
<1> QED
  BY <1>1, <1>2, <1>5, <1>6 DEF Store!Load, Memory

LEMMA LoadStutters ==
  ASSUME OneCallPerProcess, CrawlInv, NEW c \in Caller, Load(c)
  PROVE  UNCHANGED Store!vars
<1> DEFINE p == ProcOf[c]
<1> USE CallerTypes DEF CrawlInv, TypeOK
<1>1. p \in Proc /\ pc[c] = "load" /\ cache'[p] = snap[c]
      BY DEF Load
<1>2. \A b \in Caller : ProcOf[b] = p => b = c
      BY DEF OneCallPerProcess
<1>3. Remembered(p) = snap[c]
      BY <1>1, RememberedIs
<1>4. pc'[c] # "load"
      BY DEF Load, Finish, Goto
<1>5. Remembered(p)' = snap[c]
      BY <1>1, <1>2, <1>4, RememberedNext
<1>6. \A q \in Proc : q # p => Remembered(q)' = Remembered(q)
      BY MemoryKept DEF Load, Finish, Goto
<1>7. Memory' = Memory
      BY <1>1, <1>3, <1>5, <1>6 DEF Memory
<1>8. Parsed(disk)' = Parsed(disk) /\ UNCHANGED <<debounced, inflight>>
      BY DEF Load, Parsed
<1> QED
  BY <1>7, <1>8 DEF Store!vars, Memory

\* The store updates a record as CrawlState does.
LEMMA StoreApplies ==
  ASSUME NEW o, NEW d
  PROVE  Store!Apply(o, d) = Apply(o, d)
BY DEF Store!Apply, Apply, Store!MarkCompleted, MarkCompleted,
       Store!RecordFailure, RecordFailure, Store!SetCooldown, SetCooldown,
       Store!SetHealthScore, SetHealthScore, Store!StartSession, StartSession,
       Store!IncrementRequestCount, IncrementRequestCount,
       Store!EndSession, EndSession

\* With a debounce the update leaves the writing to the timer; without one it
\* sets out with the copy it has just made.
LEMMA MutateUpdates ==
  ASSUME OneCallPerProcess, CrawlInv, UnderWayInv, NEW c \in Caller, Mutate(c)
  PROVE  IsMutator(op[c]) /\ Store!Update(ProcOf[c], op[c])
<1> DEFINE p == ProcOf[c]
           next == Apply(op[c], cache[p])
<1> USE CallerTypes DEF CrawlInv, TypeOK
<1>1. /\ p \in Proc /\ pc[c] = "mutate" /\ IsMutator(op[c])
      /\ snap[c] = cache[p] /\ cache[p] # NoData
      BY DEF Mutate, CopiesCurrent, CallsConsistent, IsMutator
<1>2. \A b \in Caller : ProcOf[b] = p => b = c
      BY DEF OneCallPerProcess
<1>3. Remembered(p) = cache[p]
      BY <1>1, RemembersCache
<1>4. cache'[p] = next /\ pc'[c] # "load"
      BY <1>1 DEF Mutate, Finish, Goto
<1>5. Remembered(p)' = next
      BY <1>1, <1>2, <1>4, RememberedNext
<1>6. \A q \in Proc : q # p => Remembered(q)' = Remembered(q)
      BY MemoryKept DEF Mutate, Finish, Goto
<1>7. Memory' = [Memory EXCEPT ![p] = next]
      BY <1>1, <1>5, <1>6, MemoryOf
<1>8. Parsed(disk)' = Parsed(disk) /\ UNCHANGED debounced
      BY DEF Mutate, Parsed
<1>9. \/ debounced[p] /\ UNCHANGED inflight
      \/ /\ ~debounced[p] /\ inflight[c] = NoData
         /\ inflight' = [inflight EXCEPT ![c] = next]
      BY <1>1 DEF Mutate, UnderWayInv
<1>10. Store!Update(p, op[c])
      BY <1>1, <1>3, <1>7, <1>8, <1>9, StoreApplies, Owners
         DEF Store!Update, Store!Carry, Memory, OwnerOf
<1> QED
  BY <1>1, <1>10

\* flush() and the timer set out with a copy of the cache.
LEMMA BeginFlushWrites ==
  ASSUME OneCallPerProcess, CrawlInv, UnderWayInv,
         NEW c \in Caller, NEW o \in Ops, BeginFlush(c, o)
  PROVE  Store!Write(c)
<1> DEFINE p == ProcOf[c]
<1> USE CallerTypes DEF CrawlInv, TypeOK
<1>1. p \in Proc /\ pc[c] = "idle" /\ cache[p] # NoData
      BY DEF BeginFlush, CanBegin
<1>2. inflight[c] = NoData /\ inflight' = [inflight EXCEPT ![c] = cache[p]]
      BY <1>1 DEF BeginFlush, UnderWayInv
<1>3. Remembered(p) = cache[p]
      BY <1>1, RemembersCache
<1>4. Memory' = Memory
      BY <1>1, MemoryUnchanged DEF BeginFlush, Goto
<1>5. Parsed(disk)' = Parsed(disk) /\ UNCHANGED debounced
      BY DEF BeginFlush, Parsed
<1> QED
  BY <1>1, <1>2, <1>3, <1>4, <1>5, Owners
     DEF Store!Write, Store!Carry, Memory, OwnerOf

LEMMA TimerWrites ==
  ASSUME OneCallPerProcess, CrawlInv, NEW p \in Proc, TimerFires(p)
  PROVE  Store!Write(p)
<1> USE DEF CrawlInv, TypeOK
<1>1. cache[p] # NoData
      BY DEF TimerFires, CallsConsistent
<1>2. inflight[p] = NoData /\ inflight' = [inflight EXCEPT ![p] = cache[p]]
      BY DEF TimerFires
<1>3. Remembered(p) = cache[p]
      BY <1>1, RemembersCache
<1>4. Memory' = Memory
      BY MemoryUnchanged DEF TimerFires
<1>5. Parsed(disk)' = Parsed(disk) /\ UNCHANGED debounced
      BY DEF TimerFires, Parsed
<1> QED
  BY <1>1, <1>2, <1>3, <1>4, <1>5, Owners
     DEF Store!Write, Store!Carry, Memory, OwnerOf

\* A write that ends replaces the record or is lost. Without a debounce it was
\* a call's, and carries what its process still remembers.
LEMMA WriteArrives ==
  ASSUME CrawlInv, NEW p \in Proc, NEW w \in Writer, WriteEnds(w, p),
         OwnerOf[w] = p, UNCHANGED debounced, Memory' = Memory,
         ~debounced[p] => inflight[w] = Remembered(p)
  PROVE  Store!Arrive(w) \/ Store!Lose(w)
<1> USE DEF CrawlInv, TypeOK
<1>1. /\ inflight[w] \in CrawlStateData /\ inflight[w] # NoData
      /\ inflight' = [inflight EXCEPT ![w] = NoData]
      BY DEF WriteEnds
<1>2. CASE disk' = inflight[w]
  <2>1. Parsed(disk)' = inflight[w]
        BY <1>1, <1>2, ParsedOfRecord DEF Parsed
  <2> QED
    BY <1>1, <2>1 DEF Store!Arrive, Memory, OwnerOf
<1>3. CASE UNCHANGED disk
  <2>1. Parsed(disk)' = Parsed(disk)
        BY <1>3 DEF Parsed
  <2> QED
    BY <1>1, <2>1 DEF Store!Lose, Memory
<1> QED
  BY <1>2, <1>3 DEF WriteEnds

LEMMA CallWriteArrives ==
  ASSUME OneCallPerProcess, CrawlInv, UnderWayInv,
         NEW c \in Caller, CallWriteEnds(c)
  PROVE  Store!Arrive(c) \/ Store!Lose(c)
<1> USE CallerTypes DEF CrawlInv, TypeOK
<1>1. WriteEnds(c, ProcOf[c]) /\ UNCHANGED debounced
      BY DEF CallWriteEnds
<1>2. pc[c] = "write"
      BY <1>1 DEF WriteEnds, UnderWayInv
<1>3. Remembered(ProcOf[c]) = cache[ProcOf[c]]
      BY <1>2, RemembersCache
<1>4. ~debounced[ProcOf[c]] => inflight[c] = cache[ProcOf[c]]
      BY <1>2 DEF UnderWayInv, WritesCurrent
<1>5. Memory' = Memory
      BY <1>2, MemoryUnchanged DEF CallWriteEnds, Finish, Goto
<1> QED
  BY <1>1, <1>3, <1>4, <1>5, Owners, WriteArrives

LEMMA TimerWriteArrives ==
  ASSUME OneCallPerProcess, CrawlInv, UnderWayInv,
         NEW p \in Proc, TimerWriteEnds(p)
  PROVE  Store!Arrive(p) \/ Store!Lose(p)
<1>1. WriteEnds(p, p) /\ UNCHANGED debounced
      BY DEF TimerWriteEnds
<1>2. debounced[p]
      BY <1>1 DEF WriteEnds, UnderWayInv, NoTimer
<1>3. Memory' = Memory
      BY MemoryUnchanged DEF TimerWriteEnds
<1> QED
  BY <1>1, <1>2, <1>3, Owners, WriteArrives

LEMMA DeathForgets ==
  ASSUME OneCallPerProcess, CrawlInv, NEW p \in Proc, Die(p)
  PROVE  Store!Forget(p)
<1> USE CallerTypes DEF CrawlInv, TypeOK
<1>1. \A c \in Caller : ProcOf[c] = p => pc'[c] = "idle"
      BY DEF Die
<1>2. cache'[p] = NoData
      BY DEF Die
<1>3. Remembered(p)' = NoData
      BY <1>1, <1>2, RememberedNext
<1>4. \A q \in Proc : q # p => Remembered(q)' = Remembered(q)
      BY MemoryKept DEF Die
<1>5. Memory' = [Memory EXCEPT ![p] = NoData]
      BY <1>3, <1>4, MemoryOf
<1>6. Parsed(disk)' = Parsed(disk) /\ UNCHANGED debounced
      BY DEF Die, Parsed
<1>7. \A w \in Writer :
        OwnerOf[w] = p <=> w = p \/ w \in {c \in Caller : ProcOf[c] = p}
      BY CrawlStateConstants DEF CrawlStateConstants, Writer, OwnerOf
<1>8. inflight' = [w \in Writer |->
                     IF OwnerOf[w] = p THEN NoData ELSE inflight[w]]
      BY <1>7 DEF Die
<1> QED
  BY <1>5, <1>6, <1>8 DEF Store!Forget, Memory, OwnerOf

LEMMA StartChooses ==
  ASSUME OneCallPerProcess, CrawlInv, UnderWayInv, NEW p \in Proc, Start(p)
  PROVE  \E b \in BOOLEAN : Store!Choose(p, b)
<1> USE CallerTypes DEF CrawlInv, TypeOK
<1>1. /\ cache[p] = NoData /\ inflight[p] = NoData
      /\ \A c \in Caller : ProcOf[c] = p => pc[c] = "idle"
      BY DEF Start, Stopped, UnderWayInv
<1>2. Remembered(p) = NoData
      BY <1>1, RememberedIs
<1>3. \A w \in Writer : OwnerOf[w] = p => inflight[w] = NoData
      BY <1>1 DEF UnderWayInv, Writer, OwnerOf
<1>4. Memory' = Memory
      BY MemoryUnchanged DEF Start
<1>5. Parsed(disk)' = Parsed(disk) /\ UNCHANGED inflight
      BY DEF Start, Parsed
<1>6. PICK b \in Debouncing : debounced' = [debounced EXCEPT ![p] = b]
      BY DEF Start
<1>7. b \in BOOLEAN
      BY CrawlStateConstants DEF CrawlStateConstants
<1> QED
  BY <1>2, <1>3, <1>4, <1>5, <1>6, <1>7 DEF Store!Choose, Memory, OwnerOf

\* The store sees nothing of a call that begins to read, and of a stutter.
LEMMA OthersStutter ==
  ASSUME OneCallPerProcess,
         UNCHANGED <<disk, cache, debounced, inflight>>,
         \A c \in Caller : /\ pc'[c] = "load" <=> pc[c] = "load"
                           /\ pc[c] = "load" => snap'[c] = snap[c]
  PROVE  UNCHANGED Store!vars
<1>1. Memory' = Memory
      BY MemoryUnchanged
<1>2. Parsed(disk)' = Parsed(disk)
      BY DEF Parsed
<1> QED
  BY <1>1, <1>2 DEF Store!vars, Memory

LEMMA StoreStep ==
  ASSUME OneCallPerProcess, CrawlInv, UnderWayInv, [Next]_vars
  PROVE  [Store!Next]_Store!vars
<1> USE CallerTypes, Owners
<1>1. ASSUME NEW c \in Caller, NEW o \in Ops, BeginRead(c, o)
      PROVE  UNCHANGED Store!vars
  <2>1. /\ UNCHANGED <<disk, cache, debounced, inflight>>
        /\ \A b \in Caller : /\ pc'[b] = "load" <=> pc[b] = "load"
                             /\ pc[b] = "load" => snap'[b] = snap[b]
        BY <1>1 DEF BeginRead, CanBegin, Goto, CrawlInv, TypeOK
  <2> QED
    BY <2>1, OthersStutter
<1>2. ASSUME NEW c \in Caller, NEW o \in Ops, BeginFlush(c, o)
      PROVE  Store!Next
      BY <1>2, BeginFlushWrites DEF Store!Next
<1>3. ASSUME NEW c \in Caller, ReadFile(c)
      PROVE  Store!Next
      BY <1>3, ReadFileLoads DEF Store!Next
<1>4. ASSUME NEW c \in Caller, Load(c)
      PROVE  UNCHANGED Store!vars
      BY <1>4, LoadStutters
<1>5. ASSUME NEW c \in Caller, Mutate(c)
      PROVE  Store!Next
      BY <1>5, MutateUpdates DEF Store!Next, IsMutator
<1>6. ASSUME NEW c \in Caller, CallWriteEnds(c)
      PROVE  Store!Next
      BY <1>6, CallWriteArrives DEF Store!Next
<1>7. ASSUME NEW p \in Proc, TimerStep(p)
      PROVE  Store!Next
      BY <1>7, TimerWrites, TimerWriteArrives DEF Store!Next, TimerStep
<1>8. ASSUME NEW p \in Proc, Start(p)
      PROVE  Store!Next
      BY <1>8, StartChooses DEF Store!Next
<1>9. ASSUME NEW p \in Proc, Die(p)
      PROVE  Store!Next
      BY <1>9, DeathForgets DEF Store!Next
<1>10. CASE UNCHANGED vars
      BY <1>10, OthersStutter DEF vars
<1> QED
  BY <1>1, <1>2, <1>3, <1>4, <1>5, <1>6, <1>7, <1>8, <1>9, <1>10
     DEF Next, CallStep

\* The awaits of read() and update(), the timer, failed writes and deaths come
\* to loads, updates and copies of the whole record (CrawlStore), whatever
\* number of processes write the file without a lock, some with a debounce and
\* some at once, when each makes one call at a time.
THEOREM StoreImplemented ==
  ASSUME OneCallPerProcess
  PROVE  Spec => ImplementsStore
<1>1. CrawlInv /\ UnderWayInv /\ [Next]_vars => [Store!Next]_Store!vars
      BY StoreStep
<1> QED
  BY <1>1, StoreInit, UnderWayInvariant, PTL
     DEF Spec, ImplementsStore, Store!Spec
=============================================================================
