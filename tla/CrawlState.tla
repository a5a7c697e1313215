------------------------------ MODULE CrawlState ------------------------------
(***************************************************************************)
(* services/scraper/src/state/crawl-state.ts: progress of the crawl, kept  *)
(* in a file and cached in each process.                                   *)
(*                                                                         *)
(* There is no lock.  update() awaits read() and then changes a copy of    *)
(* what it was given; the write that follows is another await, and with    *)
(* debounceMs > 0 a timer does it later.  A caller is a chain of awaits in *)
(* a process: two callers of one process are calls that overlap there.     *)
(***************************************************************************)
EXTENDS CrawlData

CONSTANTS
    Proc,
    Caller,
    ProcOf,         \* the process a caller runs in
    Ops,            \* the calls made: records with a field "name"
    Debouncing,     \* values of debounceMs > 0 that a process may start with
    NoFile, NoData, NoOp,
    MaxCalls        \* bound on the calls of one caller

ASSUME CrawlStateConstants ==
    /\ ProcOf \in [Caller -> Proc]
    /\ Caller \cap Proc = {}
    /\ Debouncing \subseteq BOOLEAN
    /\ MaxCalls \in Nat
    /\ NoFile \notin CrawlStateData
    /\ NoData \notin CrawlStateData
    /\ NoOp \notin Ops

\* What the parameters of the methods are typed to be.
ASSUME OpTypes ==
    \A o \in Ops :
        /\ o.name \in {"read", "flush", "markCompleted", "recordFailure",
                       "setCooldown", "setHealthScore", "startSession",
                       "incrementRequestCount", "endSession"}
        /\ o.name \in {"markCompleted", "recordFailure"} => o.page \in Page
        /\ o.name = "setCooldown" => o.source \in Source /\ o.until \in Nat
        /\ o.name = "setHealthScore" =>
             o.persona \in Persona /\ o.score \in Nat

\* Who may have a write in flight: a call, or the timer of a process.
Writer == Caller \cup Proc

VARIABLES
    disk,       \* what crawl.json holds
    up,         \* the processes that run
    debounced,  \* per process: debounceMs > 0
    cache,      \* per process: the in-memory copy, NoData before the first read
    timer,      \* per process: pendingFlush is set
    pc,         \* where a call stands
    op,         \* what it does
    snap,       \* the copy it works on
    inflight,   \* what a writer is writing, NoData if nothing
    calls,      \* calls begun, per caller
    failed      \* history: the processes whose last write failed

vars == <<disk, up, debounced, cache, timer, pc, op, snap, inflight, calls,
          failed>>

Step == {"idle", "read", "load", "mutate", "write"}

TypeOK ==
    /\ disk \in CrawlStateData \cup {NoFile}
    /\ up \in SUBSET Proc
    /\ debounced \in [Proc -> BOOLEAN]
    /\ cache \in [Proc -> CrawlStateData \cup {NoData}]
    /\ timer \in [Proc -> BOOLEAN]
    /\ pc \in [Caller -> Step]
    /\ op \in [Caller -> Ops \cup {NoOp}]
    /\ snap \in [Caller -> CrawlStateData \cup {NoData}]
    /\ inflight \in [Writer -> CrawlStateData \cup {NoData}]
    /\ calls \in [Caller -> 0..MaxCalls]
    /\ failed \in SUBSET Proc

-----------------------------------------------------------------------------

\* Variant of Parsed with a bug: a file that is there is not read.
ParsedAsEmpty(raw) == EMPTY_STATE

\* read() of a file: an absent one is an empty state.  normalizeState() gives
\* back what the program itself has written; a file that cannot be read or
\* parsed, for which the code takes an empty state too, does not occur here.
Parsed(raw) == IF raw = NoFile THEN EMPTY_STATE ELSE raw

IsRead(o) == o.name = "read"    \* read(), isCompleted(), isCoolingDown()
IsFlush(o) == o.name = "flush"

Goto(c, s) == pc' = [pc EXCEPT ![c] = s]

Begun(c, o) ==
    /\ op' = [op EXCEPT ![c] = o]
    /\ calls' = [calls EXCEPT ![c] = @ + 1]

Finish(c) ==
    /\ Goto(c, "idle")
    /\ op' = [op EXCEPT ![c] = NoOp]
    /\ snap' = [snap EXCEPT ![c] = NoData]

Init ==
    /\ disk = NoFile
    /\ up = {}
    /\ debounced = [p \in Proc |-> FALSE]
    /\ cache = [p \in Proc |-> NoData]
    /\ timer = [p \in Proc |-> FALSE]
    /\ pc = [c \in Caller |-> "idle"]
    /\ op = [c \in Caller |-> NoOp]
    /\ snap = [c \in Caller |-> NoData]
    /\ inflight = [w \in Writer |-> NoData]
    /\ calls = [c \in Caller |-> 0]
    /\ failed = {}

\* new CrawlState(options)
Start(p) ==
    /\ p \notin up
    /\ up' = up \cup {p}
    /\ \E b \in Debouncing : debounced' = [debounced EXCEPT ![p] = b]
    /\ UNCHANGED <<disk, cache, timer, pc, op, snap, inflight, calls, failed>>

CanBegin(c) == ProcOf[c] \in up /\ pc[c] = "idle" /\ calls[c] < MaxCalls

\* Variant of BeginRead with a bug: the cache is not looked at.
BeginReadUncached(c, o) ==
    /\ CanBegin(c)
    /\ ~IsFlush(o)
    /\ Begun(c, o)
    /\ Goto(c, "read")
    /\ UNCHANGED <<disk, up, debounced, cache, timer, snap, inflight, failed>>

\* read() and update() first look at the cache; without one they await the
\* file, with one they still await the answer before the mutator runs.
BeginRead(c, o) ==
    /\ CanBegin(c)
    /\ ~IsFlush(o)
    /\ IsRead(o) => cache[ProcOf[c]] = NoData
    /\ Begun(c, o)
    /\ IF cache[ProcOf[c]] = NoData
       THEN Goto(c, "read") /\ UNCHANGED snap
       ELSE /\ Goto(c, "mutate")
            /\ snap' = [snap EXCEPT ![c] = cache[ProcOf[c]]]
    /\ UNCHANGED <<disk, up, debounced, cache, timer, inflight, failed>>

\* readFile(): the content at this moment.
ReadFile(c) ==
    /\ pc[c] = "read"
    /\ snap' = [snap EXCEPT ![c] = Parsed(disk)]
    /\ Goto(c, "load")
    /\ UNCHANGED <<disk, up, debounced, cache, timer, op, inflight, calls,
                   failed>>

\* What was read becomes the cache, whatever the cache holds by now.
Load(c) ==
    /\ pc[c] = "load"
    /\ cache' = [cache EXCEPT ![ProcOf[c]] = snap[c]]
    /\ IF IsRead(op[c])
       THEN Finish(c)
       ELSE Goto(c, "mutate") /\ UNCHANGED <<op, snap, failed>>
    /\ UNCHANGED <<disk, up, debounced, timer, inflight, calls, failed>>

\* Variant of Mutate with a bug: what is written is the copy before the change.
MutateWritesOld(c) ==
    LET p == ProcOf[c]
    IN  /\ pc[c] = "mutate"
        /\ cache' = [cache EXCEPT ![p] = Apply(op[c], snap[c])]
        /\ inflight' = [inflight EXCEPT ![c] = snap[c]]
        /\ Goto(c, "write")
        /\ UNCHANGED <<disk, up, debounced, timer, op, snap, calls, failed>>

\* The mutator runs, its result is the cache, and the write begins or is left
\* to the timer.
Mutate(c) ==
    LET p == ProcOf[c]
        next == Apply(op[c], snap[c])
    IN  /\ pc[c] = "mutate"
        /\ cache' = [cache EXCEPT ![p] = next]
        /\ IF debounced[p]
           THEN /\ timer' = [timer EXCEPT ![p] = TRUE]
                /\ Finish(c)
                /\ UNCHANGED inflight
           ELSE /\ inflight' = [inflight EXCEPT ![c] = next]
                /\ Goto(c, "write")
                /\ UNCHANGED <<timer, op, snap, failed>>
        /\ UNCHANGED <<disk, up, debounced, calls, failed>>

\* flush(): the timer is cleared and the cache, if there is one, written.
BeginFlush(c, o) ==
    LET p == ProcOf[c]
    IN  /\ CanBegin(c)
        /\ IsFlush(o)
        /\ cache[p] # NoData
        /\ Begun(c, o)
        /\ timer' = [timer EXCEPT ![p] = FALSE]
        /\ inflight' = [inflight EXCEPT ![c] = cache[p]]
        /\ Goto(c, "write")
        /\ UNCHANGED <<disk, up, debounced, cache, snap, failed>>

\* Variant of TimerFires with a bug: the timer is cleared and nothing written.
TimerFiresInVain(p) ==
    /\ timer[p]
    /\ timer' = [timer EXCEPT ![p] = FALSE]
    /\ UNCHANGED <<disk, up, debounced, cache, pc, op, snap, inflight, calls,
                   failed>>

\* scheduleFlush()'s timer fires: flush(), not awaited by anyone.
\* A timer waits for its own last write, which takes milliseconds.
TimerFires(p) ==
    /\ timer[p]
    /\ inflight[p] = NoData
    /\ timer' = [timer EXCEPT ![p] = FALSE]
    /\ inflight' = [inflight EXCEPT ![p] = cache[p]]
    /\ UNCHANGED <<disk, up, debounced, cache, pc, op, snap, calls, failed>>

\* atomicWriteJson(): the rename replaces the whole file, or the write fails
\* and the file is as it was.  Renames land in any order.
WriteEnds(w, p) ==
    /\ inflight[w] # NoData
    /\ \/ disk' = inflight[w] /\ failed' = failed \ {p}
       \/ failed' = failed \cup {p} /\ UNCHANGED disk
    /\ inflight' = [inflight EXCEPT ![w] = NoData]

CallWriteEnds(c) ==
    /\ WriteEnds(c, ProcOf[c])
    /\ Finish(c)
    /\ UNCHANGED <<up, debounced, cache, timer, calls>>

TimerWriteEnds(p) ==
    /\ WriteEnds(p, p)
    /\ UNCHANGED <<up, debounced, cache, timer, pc, op, snap, calls>>

\* The process ends, at whatever await it stands.
Die(p) ==
    LET mine == {c \in Caller : ProcOf[c] = p}
    IN  /\ p \in up
        /\ up' = up \ {p}
        /\ failed' = failed \ {p}
        /\ cache' = [cache EXCEPT ![p] = NoData]
        /\ timer' = [timer EXCEPT ![p] = FALSE]
        /\ pc' = [c \in Caller |-> IF c \in mine THEN "idle" ELSE pc[c]]
        /\ op' = [c \in Caller |-> IF c \in mine THEN NoOp ELSE op[c]]
        /\ snap' = [c \in Caller |-> IF c \in mine THEN NoData ELSE snap[c]]
        /\ inflight' = [w \in Writer |->
                          IF w = p \/ w \in mine THEN NoData ELSE inflight[w]]
        /\ UNCHANGED <<disk, debounced, calls>>

CallStep(c) == ReadFile(c) \/ Load(c) \/ Mutate(c) \/ CallWriteEnds(c)

TimerStep(p) == TimerFires(p) \/ TimerWriteEnds(p)

Next ==
    \/ \E p \in Proc : Start(p) \/ Die(p) \/ TimerStep(p)
    \/ \E c \in Caller :
        \/ CallStep(c)
        \/ \E o \in Ops : BeginRead(c, o) \/ BeginFlush(c, o)

\* What a live process has begun goes on; nobody has to make a call.
Fairness ==
    /\ \A c \in Caller : WF_vars(CallStep(c))
    /\ \A p \in Proc : WF_vars(TimerStep(p))

Spec == Init /\ [][Next]_vars

FairSpec == Spec /\ Fairness

-----------------------------------------------------------------------------
(* Properties.                                                             *)

\* Nothing that old records is missing from new: pages completed, failures
\* counted, and the cooldowns and scores that were set.
Keeps(new, old) ==
    /\ old.completed \subseteq new.completed
    /\ \A u \in Page : old.retries[u] <= new.retries[u]
    /\ \A s \in Source : old.cooldowns[s] # Never => new.cooldowns[s] # Never
    /\ \A x \in Persona : old.health[x] # Never => new.health[x] # Never

\* While a process lives no update undoes an earlier one: the copy a mutator
\* was given is not older than the cache it replaces.
UpdatesKept ==
    [][\A p \in Proc :
        cache[p] # NoData /\ cache'[p] # NoData => Keeps(cache'[p], cache[p])
      ]_vars

\* Writing at once, the file never goes back: not when a write fails or the
\* process dies between two writes, and not when it starts again and writes on
\* from what it finds.
FileKept ==
    [][disk # NoFile /\ (\A p \in Proc : ~debounced[p])
          => Keeps(disk', disk)]_vars

\* No call, timer or write of the process is under way.
AtRest(p) ==
    /\ p \in up
    /\ ~timer[p]
    /\ inflight[p] = NoData
    /\ \A c \in Caller : ProcOf[c] = p => pc[c] = "idle"

\* What a process has not failed to write is in the file whenever it rests.
SavedAtRest(p) ==
    AtRest(p) /\ cache[p] # NoData /\ p \notin failed
        => Parsed(disk) = cache[p]

\* Writing at once, the file holds the whole state between two calls, so a
\* crash there loses nothing.
PersistedAtOnce == \A p \in Proc : ~debounced[p] => SavedAtRest(p)

\* "flush() guarantees that the last state is persisted", with a timer too.
PersistedByFlush == \A p \in Proc : SavedAtRest(p)

\* What a process remembers: its cache, or what it has read for it.
Remembered(p) ==
    LET loading == {c \in Caller : ProcOf[c] = p /\ pc[c] = "load"}
    IN  IF loading = {} THEN cache[p] ELSE snap[CHOOSE c \in loading : TRUE]

Store == INSTANCE CrawlStore
           WITH memory <- [p \in Proc |-> Remembered(p)],
                deferring <- debounced,
                writing <- inflight,
                saved <- Parsed(disk),
                Owner <- [w \in Writer |-> IF w \in Proc THEN w ELSE ProcOf[w]],
                Updates <- {o \in Ops : ~IsRead(o) /\ ~IsFlush(o)}

\* The calls, the timers and the writes that nobody awaits implement a store
\* whose record is loaded, changed, copied and saved as a whole: a file is
\* never one that no living process had in memory, whatever fails, lands late
\* or dies; and a write of a process without a debounce never leaves a file
\* that this process did not have in memory at the moment it appeared
\* (crawl-state.ts:124-185).
ImplementsStore == Store!Spec

\* A page that markCompleted() is called for reaches the file, at the latest
\* by the timer, unless the process dies or a write fails before.
CompletedIsSaved ==
    \A c \in Caller : \A u \in Page :
        (pc[c] = "mutate" /\ op[c] = [name |-> "markCompleted", page |-> u])
            ~> \/ ProcOf[c] \notin up
               \/ ProcOf[c] \in failed
               \/ disk # NoFile /\ u \in disk.completed

-----------------------------------------------------------------------------
(* Why UpdatesKept holds where each process makes one call at a time: the  *)
(* inductive invariant (proved in CrawlStateProofs), in named parts.       *)

\* A call that waits for the file is in a process without a cache; the copy a
\* mutator is given is that cache.
CopiesCurrent ==
    \A c \in Caller :
        /\ pc[c] \in {"read", "load"} => cache[ProcOf[c]] = NoData
        /\ pc[c] = "load" => snap[c] # NoData
        /\ pc[c] = "mutate" => /\ snap[c] = cache[ProcOf[c]]
                               /\ snap[c] # NoData

\* Only what there is gets written, and only mutators mutate.
CallsConsistent ==
    /\ \A c \in Caller : pc[c] # "idle" => op[c] \in Ops
    /\ \A c \in Caller :
         pc[c] = "mutate" => ~IsRead(op[c]) /\ ~IsFlush(op[c])
    /\ \A c \in Caller : pc[c] \in {"read", "load"} => ~IsFlush(op[c])
    /\ \A p \in Proc : timer[p] => cache[p] # NoData

CrawlInv ==
    /\ TypeOK
    /\ CopiesCurrent
    /\ CallsConsistent
=============================================================================
