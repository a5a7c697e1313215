------------------------------ MODULE Notifier ------------------------------
(***************************************************************************)
(* The notifier of the scraper, notifier/index.ts: events of high and      *)
(* critical severity go one by one through immediateQueue and its worker,  *)
(* events of severity warn and info through a queue that a timer of each   *)
(* level flushes as one message.  A high event seen within the window of   *)
(* deduplication is skipped; the times of that window are written to a     *)
(* file, without being awaited, and read back by the next process, without *)
(* being awaited either.  shutdown() waits for the worker, flushes both    *)
(* levels once and saves the times.                                        *)
(*                                                                         *)
(* A step is the code between two awaits.  What a message says is left     *)
(* out, and so is the log of events, whose line each call awaits before    *)
(* anything else: an event is a call of notify(), a member of Note.  The   *)
(* notifier is the enabled one; disabled, notify() ends at the log.  A     *)
(* send fails at most MaxFails times, a process dies or exits and another  *)
(* one starts at most MaxBoots times, and the clock stops at MaxTime.      *)
(***************************************************************************)
EXTENDS Integers, FiniteSets, Sequences, SequencesExt

CONSTANTS
    Note,              \* the calls of notify()
    EventOf,           \* the type of the event each call is about
    QUEUE_HIGH_MAX,    \* the bound on the queue of the batches
    DEDUP_WINDOW,      \* how long a high event is not repeated
    DEDUP_RETENTION,   \* how old a time that is read back may be
    MaxTime, MaxFails, MaxBoots

Critical == {"captcha.detected", "captcha.unresolved", "persona.retired",
             "scraper.crashed", "network.inconsistency",
             "scheduler.persona_conflict"}
High     == {"block.403", "block.429", "cloudflare.challenge_timeout",
             "data.integrity_failure"}
Warn     == {"rate_limit.approaching", "health.score_dropped",
             "soft_throttle.detected", "robots.changed"}
Info     == {"scraper.start", "scraper.stop", "phase.start",
             "phase.complete", "session.start", "session.end",
             "milestone.progress", "milestone.daily_summary",
             "chrome.version_bump"}
EventType == Critical \cup High \cup Warn \cup Info
Level     == {"warn", "info"}

ASSUME NotifierConstants ==
    /\ EventOf \in [Note -> EventType]
    /\ QUEUE_HIGH_MAX \in Nat \ {0}
    /\ DEDUP_WINDOW \in Nat /\ DEDUP_RETENTION \in Nat
    /\ DEDUP_WINDOW <= DEDUP_RETENTION
    /\ MaxTime \in Nat \ {0} /\ MaxFails \in Nat /\ MaxBoots \in Nat

VARIABLES
    life,            \* "off", "up", or how far shutdown() has come
    fate,            \* of each call of notify(): in a queue or a message, or past
    queue,           \* events that wait for the flush of their level
    immediateQueue,  \* events that wait for the worker
    worker,          \* "poll", "send" or "ended"
    sending,         \* the event the worker sends
    inFlight,        \* the batch of each flush that is being sent
    lastSentAt,      \* when an event of each type was sent; 0 is never
    loading,         \* loadDedup() has not ended
    writes,          \* snapshots of lastSentAt being written, and by whom
    file,            \* notifier-dedup.json
    clock, fails, boots

\* What the properties remember of the past.
VARIABLES
    tried,           \* events that have been in a message
    inTime,          \* events queued before this process stopped looking
    lastPush,        \* when an event of each type was last queued
    sure             \* types whose last time this process knows

queues  == <<queue, immediateQueue, worker, sending, inFlight>>
dedup   == <<lastSentAt, loading, writes, file>>
bounds  == <<clock, fails, boots>>
history == <<tried, inTime, lastPush, sure>>
vars    == <<life, fate, queues, dedup, bounds, history>>

\* The batches in the air: of the two timers, and the one of shutdown().
Slot     == {"warn", "info", "last"}
Alive    == {"up", "drain", "warn", "info", "persist", "down"}
Fate     == {"uncalled", "open", "dropped", "over"}
Types    == {EventOf[n] : n \in Note}
Never    == [e \in Types |-> 0]
Stopping == life # "up"

SeverityOf(n) == LET e == EventOf[n]
                 IN  CASE e \in Critical -> "critical"
                       [] e \in High     -> "high"
                       [] e \in Warn     -> "warn"
                       [] OTHER          -> "info"

Immediate(n) == SeverityOf(n) \in {"high", "critical"}

\* The members of s whose positions are in I, in the order of s.
Rank(I, i)        == Cardinality({j \in I : j <= i})
Nth(I, k)         == CHOOSE i \in I : Rank(I, i) = k
AtPositions(s, I) == [k \in 1..Cardinality(I) |-> s[Nth(I, k)]]

OfLevel(level) == {i \in DOMAIN queue : SeverityOf(queue[i]) = level}

\* The events of a level in the queue, and the queue without them.
Batch(level) == AtPositions(queue, OfLevel(level))
Rest(level)  == AtPositions(queue, (DOMAIN queue) \ OfLevel(level))

Settle(ns, f) == fate' = [n \in Note |-> IF n \in ns THEN f ELSE fate[n]]

Init ==
    /\ life = "up"
    /\ fate = [n \in Note |-> "uncalled"]
    /\ queue = <<>> /\ immediateQueue = <<>>
    /\ worker = "poll" /\ sending = {}
    /\ inFlight = [s \in Slot |-> <<>>]
    /\ lastSentAt = Never /\ loading = TRUE
    /\ writes = {} /\ file = Never
    /\ clock = 1 /\ fails = 0 /\ boots = 0
    /\ tried = {} /\ inTime = {} /\ lastPush = Never /\ sure = {}

-----------------------------------------------------------------------------
(***************************************************************************)
(* notify(): it awaits the line of the log first, whatever comes of it,    *)
(* and does the rest in one step: the check of the window and the push.    *)
(***************************************************************************)
Repeated(n) == /\ SeverityOf(n) # "critical"
               /\ lastSentAt[EventOf[n]] # 0
               /\ clock - lastSentAt[EventOf[n]] < DEDUP_WINDOW

Skip(n) ==
    /\ life \in Alive /\ fate[n] = "uncalled" /\ Repeated(n)
    /\ Settle({n}, "over")
    /\ UNCHANGED <<life, queues, dedup, bounds, history>>

\* Variant of PushImmediate with a bug: the time is not recorded.
PushImmediateUntimed(n) ==
    /\ life \in Alive /\ fate[n] = "uncalled" /\ Immediate(n) /\ ~Repeated(n)
    /\ immediateQueue' = Append(immediateQueue, n)
    /\ Settle({n}, "open")
    /\ writes' = writes \cup {[times |-> lastSentAt, by |-> "push"]}
    /\ lastPush' = [lastPush EXCEPT ![EventOf[n]] = clock]
    /\ sure' = IF loading THEN {} ELSE sure \cup {EventOf[n]}
    /\ inTime' = IF worker # "ended" THEN inTime \cup {n} ELSE inTime
    /\ UNCHANGED <<life, queue, worker, sending, inFlight, lastSentAt,
                   loading, file, bounds, tried>>

\* A push while the times are still being loaded starts a write of a file
\* that has not been read yet: after it no time is sure.
PushImmediate(n) ==
    /\ life \in Alive /\ fate[n] = "uncalled" /\ Immediate(n) /\ ~Repeated(n)
    /\ immediateQueue' = Append(immediateQueue, n)
    /\ Settle({n}, "open")
    /\ lastSentAt' = [lastSentAt EXCEPT ![EventOf[n]] = clock]
    /\ writes' = writes \cup {[times |-> lastSentAt', by |-> "push"]}
    /\ lastPush' = [lastPush EXCEPT ![EventOf[n]] = clock]
    /\ sure' = IF loading THEN {} ELSE sure \cup {EventOf[n]}
    /\ inTime' = IF worker # "ended" THEN inTime \cup {n} ELSE inTime
    /\ UNCHANGED <<life, queue, worker, sending, inFlight, loading, file,
                   bounds, tried>>

\* Variant of Excess with a bug: the queue is cut when it is just full.
ExcessWhenFull(events) == IF Len(events) >= QUEUE_HIGH_MAX
                          THEN Len(events) - QUEUE_HIGH_MAX + 1 ELSE 0

\* How many events are dropped from the front of a queue over its bound.
Excess(events) == IF Len(events) > QUEUE_HIGH_MAX
                  THEN Len(events) - QUEUE_HIGH_MAX ELSE 0

PushBatched(n) ==
    LET longer == Append(queue, n)
        cut    == Excess(longer)
    IN  /\ life \in Alive /\ fate[n] = "uncalled"
        /\ ~Immediate(n) /\ ~Repeated(n)
        /\ queue' = SubSeq(longer, cut + 1, Len(longer))
        /\ fate' = [m \in Note |->
                      IF \E i \in 1..cut : longer[i] = m THEN "dropped"
                      ELSE IF m = n THEN "open" ELSE fate[m]]
        /\ inTime' = IF \/ life \in {"up", "drain"}
                        \/ life = "warn" /\ SeverityOf(n) = "info"
                     THEN inTime \cup {n} ELSE inTime
        /\ UNCHANGED <<life, immediateQueue, worker, sending, inFlight,
                       dedup, bounds, tried, lastPush, sure>>

-----------------------------------------------------------------------------
(***************************************************************************)
(* runImmediateWorker(): it ends once shutdown() has been called and its   *)
(* queue is empty.  An event whose send fails is given up.                 *)
(***************************************************************************)
WorkerTakes ==
    /\ life \in Alive /\ worker = "poll" /\ immediateQueue # <<>>
    /\ worker' = "send"
    /\ sending' = {Head(immediateQueue)}
    /\ immediateQueue' = Tail(immediateQueue)
    /\ tried' = tried \cup {Head(immediateQueue)}
    /\ UNCHANGED <<life, fate, queue, inFlight, dedup, bounds, inTime,
                   lastPush, sure>>

WorkerSent ==
    /\ worker = "send"
    /\ worker' = "poll" /\ sending' = {}
    /\ Settle(sending, "over")
    /\ UNCHANGED <<life, queue, immediateQueue, inFlight, dedup, bounds,
                   history>>

WorkerFails ==
    /\ worker = "send" /\ fails < MaxFails
    /\ fails' = fails + 1
    /\ worker' = "poll" /\ sending' = {}
    /\ Settle(sending, "over")
    /\ UNCHANGED <<life, queue, immediateQueue, inFlight, dedup, clock,
                   boots, history>>

\* Variant of WorkerDone with a bug: the worker ends with events waiting.
WorkerDoneEarly == Stopping

\* Variant of WorkerDone with a bug: the worker ends at an empty queue.
WorkerDoneWhenIdle == immediateQueue = <<>>

WorkerDone == Stopping /\ immediateQueue = <<>>

WorkerEnds ==
    /\ life \in Alive /\ worker = "poll" /\ WorkerDone
    /\ worker' = "ended"
    /\ UNCHANGED <<life, fate, queue, immediateQueue, sending, inFlight,
                   dedup, bounds, history>>

-----------------------------------------------------------------------------
(***************************************************************************)
(* flushBatched(): the events of a level leave the queue, and come back at *)
(* its end when their message fails, past the bound if need be.            *)
(***************************************************************************)
Flush(slot, level) ==
    /\ inFlight' = [inFlight EXCEPT ![slot] = Batch(level)]
    /\ queue' = Rest(level)
    /\ tried' = tried \cup {Batch(level)[i] : i \in 1..Len(Batch(level))}

\* A send is over long before the timer of its level fires again.
TimerFlush(level) ==
    /\ life = "up" /\ inFlight[level] = <<>> /\ Batch(level) # <<>>
    /\ Flush(level, level)
    /\ UNCHANGED <<life, fate, immediateQueue, worker, sending, dedup,
                   bounds, inTime, lastPush, sure>>

BatchSent(slot) ==
    /\ inFlight[slot] # <<>>
    /\ inFlight' = [inFlight EXCEPT ![slot] = <<>>]
    /\ Settle(ToSet(inFlight[slot]), "over")
    /\ UNCHANGED <<life, queue, immediateQueue, worker, sending, dedup,
                   bounds, history>>

\* Variant of BackInQueue with a bug: the events of the batch are gone.
BackInQueueNever(events) == queue

BackInQueue(events) == queue \o events

BatchFails(slot) ==
    /\ inFlight[slot] # <<>> /\ fails < MaxFails
    /\ fails' = fails + 1
    /\ inFlight' = [inFlight EXCEPT ![slot] = <<>>]
    /\ queue' = BackInQueue(inFlight[slot])
    /\ UNCHANGED <<life, fate, immediateQueue, worker, sending, dedup,
                   clock, boots, history>>

-----------------------------------------------------------------------------
(***************************************************************************)
(* loadDedup() and persistDedup().  The snapshot of a write is that of the *)
(* moment of the call (the program takes it after a mkdir, when it can     *)
(* only be newer); two writes may end in either order, and one may fail.   *)
(***************************************************************************)
LoadDedup ==
    /\ life \in Alive /\ loading
    /\ loading' = FALSE
    /\ lastSentAt' = [e \in Types |->
                        IF file[e] > 0 /\ file[e] > clock - DEDUP_RETENTION
                        THEN file[e] ELSE lastSentAt[e]]
    /\ UNCHANGED <<life, fate, queues, writes, file, bounds, history>>

\* shutdown() awaits the write of its own, and no other.
PersistEnds(write) ==
    /\ write \in writes
    /\ writes' = writes \ {write}
    /\ file' \in {write.times, file}
    /\ life' = IF write.by = "shutdown" THEN "down" ELSE life
    /\ UNCHANGED <<fate, queues, lastSentAt, loading, bounds, history>>

-----------------------------------------------------------------------------
(***************************************************************************)
(* shutdown(): the timers stop, the worker is awaited, each level is       *)
(* flushed once, and the times are saved.                                  *)
(***************************************************************************)
Shutdown ==
    /\ life = "up"
    /\ life' = "drain"
    /\ UNCHANGED <<fate, queues, dedup, bounds, history>>

LastFlush(from, to) ==
    /\ life = from /\ inFlight["last"] = <<>>
    /\ life' = to
    /\ Flush("last", to)
    /\ UNCHANGED <<fate, immediateQueue, worker, sending, dedup, bounds,
                   inTime, lastPush, sure>>

FlushWarn == worker = "ended" /\ LastFlush("drain", "warn")
FlushInfo == LastFlush("warn", "info")

\* A snapshot taken while the times are still being loaded lacks them.
LastPersist ==
    /\ life = "info" /\ inFlight["last"] = <<>>
    /\ life' = "persist"
    /\ writes' = writes \cup {[times |-> lastSentAt, by |-> "shutdown"]}
    /\ sure' = IF loading THEN {} ELSE sure
    /\ UNCHANGED <<fate, queues, lastSentAt, loading, file, bounds,
                   tried, inTime, lastPush>>

\* The process exits after shutdown(), or dies: what it had in memory is
\* lost, and so is a file that is not renamed yet.
Dies ==
    /\ life \in Alive
    /\ life' = "off"
    /\ fate' = [n \in Note |->
                  IF fate[n] = "open" THEN "over" ELSE fate[n]]
    /\ queue' = <<>> /\ immediateQueue' = <<>>
    /\ worker' = "ended" /\ sending' = {}
    /\ inFlight' = [s \in Slot |-> <<>>]
    /\ writes' = {}
    /\ UNCHANGED <<lastSentAt, loading, file, bounds, history>>

\* A new process knows the last time of a type if the file has it.
Boots ==
    /\ life = "off" /\ boots < MaxBoots
    /\ life' = "up" /\ boots' = boots + 1
    /\ worker' = "poll"
    /\ lastSentAt' = Never /\ loading' = TRUE
    /\ tried' = {} /\ inTime' = {}
    /\ sure' = {e \in Types : file[e] # 0 /\ file[e] = lastPush[e]}
    /\ UNCHANGED <<fate, queue, immediateQueue, sending, inFlight, writes,
                   file, clock, fails, lastPush>>

Tick ==
    /\ life \in Alive \/ boots < MaxBoots
    /\ clock < MaxTime
    /\ clock' = clock + 1
    /\ UNCHANGED <<life, fate, queues, dedup, fails, boots, history>>

Work ==
    \/ WorkerTakes \/ WorkerSent \/ WorkerFails \/ WorkerEnds
    \/ \E level \in Level : TimerFlush(level)
    \/ \E slot \in Slot : BatchSent(slot) \/ BatchFails(slot)
    \/ LoadDedup
    \/ \E write \in writes : PersistEnds(write)
    \/ FlushWarn \/ FlushInfo \/ LastPersist

Next ==
    \/ \E n \in Note : Skip(n) \/ PushImmediate(n) \/ PushBatched(n)
    \/ Work
    \/ Shutdown \/ Dies \/ Boots \/ Tick

\* The event loop runs what is ready, the worker and shutdown() each one step
\* after the other; timers fire, and a send ends, with an answer or at its
\* timeout.
Fairness ==
    /\ WF_vars(WorkerTakes \/ WorkerSent \/ WorkerFails \/ WorkerEnds)
    /\ WF_vars(FlushWarn \/ FlushInfo \/ LastPersist)
    /\ \A level \in Level : WF_vars(TimerFlush(level))
    /\ \A slot \in Slot : WF_vars(BatchSent(slot) \/ BatchFails(slot))
    /\ WF_vars(\E write \in writes : PersistEnds(write))

Spec == Init /\ [][Next]_vars /\ Fairness

-----------------------------------------------------------------------------
Waiting == ToSet(queue) \cup ToSet(immediateQueue) \cup sending
             \cup UNION {ToSet(inFlight[s]) : s \in Slot}

TypeOK ==
    /\ life \in Alive \cup {"off"}
    /\ fate \in [Note -> Fate]
    /\ queue \in Seq(Note) /\ immediateQueue \in Seq(Note)
    /\ worker \in {"poll", "send", "ended"}
    /\ sending \subseteq Note
    /\ inFlight \in [Slot -> Seq(Note)]
    /\ lastSentAt \in [Types -> 0..MaxTime]
    /\ loading \in BOOLEAN
    /\ \A w \in writes : /\ w.times \in [Types -> 0..MaxTime]
                         /\ w.by \in {"push", "shutdown"}
    /\ file \in [Types -> 0..MaxTime]
    /\ clock \in 1..MaxTime /\ fails \in 0..MaxFails
    /\ boots \in 0..MaxBoots

\* An event that has been queued is in one place, and in one only, until it
\* is sent, given up, dropped at the bound or lost with its process: a flush
\* that overlaps another one, or that fails after shutdown() has flushed the
\* same level, neither forgets an event nor has it in two messages at once
\* (notifier/index.ts:284-303).
Accounted ==
    /\ {n \in Note : fate[n] = "open"} = Waiting
    /\ Cardinality(Waiting) =
         Len(queue) + Len(immediateQueue) + Cardinality(sending)
           + Len(inFlight["warn"]) + Len(inFlight["info"])
           + Len(inFlight["last"])
    /\ \A n \in ToSet(queue) \cup ToSet(inFlight["last"]) : ~Immediate(n)
    /\ \A level \in Level :
         \A n \in ToSet(inFlight[level]) : SeverityOf(n) = level

\* The types of the variables, and that no event is lost from sight.
NotifierInv == TypeOK /\ Accounted

\* When shutdown() is over, each event that was queued before this process
\* stopped looking at its queue has been in a message, or was dropped at the
\* bound: the worker is awaited and empties its queue, and what a timer has
\* in the air meanwhile was tried (index.ts:192-213, "prevents the loss of
\* pending events").
Drained ==
    life = "down" =>
        \A n \in inTime : n \in tried \/ fate[n] = "dropped"

\* An event of high severity is not queued again within the window, unless
\* the process did not know the last time: it was still loading it, or it
\* was told by a file that was not up to date (index.ts:160-172, 216-231).
NoRepeat ==
    [][\A n \in Note :
         /\ fate[n] = "uncalled" /\ fate'[n] = "open"
         /\ SeverityOf(n) = "high"
         /\ EventOf[n] \in sure /\ ~loading
         => clock - lastPush[EventOf[n]] >= DEDUP_WINDOW]_vars

Delivery == INSTANCE EventDelivery
              WITH Urgent <- {n \in Note : Immediate(n)},
                   Repeatable <- {n \in Note : SeverityOf(n) = "high"},
                   LevelOf <- [n \in Note |-> SeverityOf(n)],
                   Bound <- QUEUE_HIGH_MAX,
                   unseen <- {n \in Note : fate[n] = "uncalled"},
                   line <- immediateQueue,
                   batched <- ToSet(queue),
                   messages <- ({sending}
                                  \cup {ToSet(inFlight[s]) : s \in Slot}) \ {{}}

\* Whatever timers, the worker and shutdown() do side by side, each event goes
\* its way: urgent ones one by one and in order, the others with all of their
\* level, which come back together, once and only from a message that failed;
\* no more of them are dropped than the bound says, and only when one is
\* queued; nothing but a high event is passed over as a repetition, although
\* warnings are looked up as well; what has been sent or given up is never
\* sent again (notifier/index.ts:160-178, 246-303).
ImplementsDelivery == Delivery!Spec

\* What is queued is sent, given up or dropped, again and again until there
\* is nothing left, if the process lives on and sends do not fail for ever;
\* and a call of shutdown() ends (index.ts:192-213, 246-260, 284-303).
Settled ==
    []<>(\/ life = "down"
         \/ life \in {"up", "off"} /\ \A n \in Note : fate[n] # "open")
=============================================================================
