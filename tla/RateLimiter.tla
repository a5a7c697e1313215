----------------------------- MODULE RateLimiter -----------------------------
(***************************************************************************)
(* services/scraper/src/rate/limiter.ts: the daily budget of one source    *)
(* and kind of request, counted in a file that processes share under a     *)
(* lock.  Each source and kind has a file of its own, so one is enough.    *)
(*                                                                         *)
(* acquire() looks for the file and creates it if need be (before and      *)
(* outside the lock), takes the lock, notes the day, reads the record,     *)
(* asks the guard whether a session of a higher tier runs, and counts.     *)
(* Midnight may pass at each of these awaits.  The alert of the 80% mark   *)
(* is sent when the lock has been given back.                              *)
(***************************************************************************)
EXTENDS Integers

CONSTANTS
    Proc,
    NoProc,         \* nobody holds the lock
    NoFile,
    Never,          \* no session of a higher tier runs
    NoMemo,         \* the guard has not been asked yet
    Limit,          \* maxPerDay
    Slowed,         \* TRUE for serebii, whose limit is halved at times
    MemoTime,       \* HIGHER_TIER_CACHE_MS, in clock units
    MaxDay, MaxClock,   \* bounds of the calendar and of the clock
    SoloFirstUse    \* TRUE: until the file exists, one process uses it

ASSUME LimiterConstants ==
    /\ NoProc \notin Proc
    /\ Never \notin Nat
    /\ Limit \in Nat \ {0}
    /\ Slowed \in BOOLEAN
    /\ MemoTime \in Nat
    /\ MaxDay \in Nat /\ MaxClock \in Nat
    /\ SoloFirstUse \in BOOLEAN

Days == 0..MaxDay

\* RateStateRecord
Record == [date : Days, count : Nat, alerted : BOOLEAN]

ASSUME NoFileIsNoRecord == NoFile \notin Record

\* What a process remembers of the guard's answer, and since when.
Memo == [at : Nat, value : BOOLEAN]

ASSUME NoMemoIsNoMemo == NoMemo \notin Memo

VARIABLES
    file,       \* what the counter file holds
    lock,       \* who holds the file's lock
    st,         \* where each process stands in acquire()
    today,      \* the day it took down
    rec,        \* the record it counts on
    limit,      \* the limit in effect for it
    alert,      \* it has an alert to send
    memo,       \* cachedHigherTier
    higher,     \* since when a session of tier 1 or more has been running
    day, clock,
    granted,    \* history: acquire() granted, by the day they are counted on
    late,       \* history: those granted on a later day than that
    alerts      \* history: alerts sent, by day

vars == <<file, lock, st, today, rec, limit, alert, memo, higher, day, clock,
          granted, late, alerts>>

Step == {"idle", "ensure", "create", "lock", "read", "tier", "bump",
         "unlock", "notify"}

TypeOK ==
    /\ file \in Record \cup {NoFile}
    /\ lock \in Proc \cup {NoProc}
    /\ st \in [Proc -> Step]
    /\ today \in [Proc -> Days]
    /\ rec \in [Proc -> Record]
    /\ limit \in [Proc -> 0..Limit]
    /\ alert \in [Proc -> BOOLEAN]
    /\ memo \in [Proc -> Memo \cup {NoMemo}]
    /\ higher \in Nat \cup {Never}
    /\ day \in Days /\ clock \in 0..MaxClock
    /\ granted \in [Days -> Nat]
    /\ late \in [Days -> Nat]
    /\ alerts \in [Days -> Nat]

-----------------------------------------------------------------------------

ZeroRecord(d) == [date |-> d, count |-> 0, alerted |-> FALSE]

\* Variant of OfDay with a bug: the date is not compared.
OfDayAnew(r, d) == ZeroRecord(d)

\* A record of another day counts as zero.
OfDay(r, d) == IF r.date = d THEN r ELSE ZeroRecord(d)

\* In effect while a session of a higher tier runs.
HalfLimit == Limit \div 2

\* 80% of the limit in effect; 0.8 times a limit of config.ts is exact.
AlertAt(l) == (4 * l) \div 5

\* Variant of Fresh with a bug: the answer is remembered for good.
FreshForever(m) == m # NoMemo

\* The remembered answer is young enough to be used.
Fresh(m) == m # NoMemo /\ clock - m.at < MemoTime

Goto(p, s) == st' = [st EXCEPT ![p] = s]

Init ==
    /\ file = NoFile
    /\ lock = NoProc
    /\ st = [p \in Proc |-> "idle"]
    /\ today = [p \in Proc |-> 0]
    /\ rec = [p \in Proc |-> ZeroRecord(0)]
    /\ limit = [p \in Proc |-> 0]
    /\ alert = [p \in Proc |-> FALSE]
    /\ memo = [p \in Proc |-> NoMemo]
    /\ higher = Never
    /\ day = 0 /\ clock = 0
    /\ granted = [d \in Days |-> 0]
    /\ late = [d \in Days |-> 0]
    /\ alerts = [d \in Days |-> 0]

history == <<granted, late, alerts>>

\* Time passes, and midnight in Seoul may pass with it.
Tick ==
    /\ clock < MaxClock
    /\ clock' = clock + 1
    /\ day' \in {day, day + 1} \cap Days
    /\ UNCHANGED <<file, lock, st, today, rec, limit, alert, memo, higher,
                   history>>

\* A session of tier 1 or more begins or ends somewhere.
HigherTier ==
    /\ Slowed
    /\ higher' = IF higher = Never THEN clock ELSE Never
    /\ UNCHANGED <<file, lock, st, today, rec, limit, alert, memo, day, clock,
                   history>>

\* acquire() is called.
Acquire(p) ==
    /\ st[p] = "idle"
    /\ SoloFirstUse => file # NoFile \/ \A q \in Proc : st[q] = "idle"
    /\ Goto(p, "ensure")
    /\ UNCHANGED <<file, lock, today, rec, limit, alert, memo, higher, day,
                   clock, history>>

\* ensureFile(): is the file there?  If not, the record to be written is made
\* with the day of this moment.
EnsureFile(p) ==
    /\ st[p] = "ensure"
    /\ IF file # NoFile
       THEN Goto(p, "lock") /\ UNCHANGED today
       ELSE Goto(p, "create") /\ today' = [today EXCEPT ![p] = day]
    /\ UNCHANGED <<file, lock, rec, limit, alert, memo, higher, day, clock,
                   history>>

\* The write of ensureFile() replaces whatever the file holds by now.
CreateFile(p) ==
    /\ st[p] = "create"
    /\ file' = ZeroRecord(today[p])
    /\ Goto(p, "lock")
    /\ UNCHANGED <<lock, today, rec, limit, alert, memo, higher, day, clock,
                   history>>

\* Variants of TakeLock with a bug: a lock held by another does not stop us;
\* the day is the one noted at an earlier call.
TakeLockAnyway(p) ==
    /\ st[p] = "lock"
    /\ lock' = p
    /\ today' = [today EXCEPT ![p] = day]
    /\ Goto(p, "read")
    /\ UNCHANGED <<file, rec, limit, alert, memo, higher, day, clock, history>>

TakeLockUndated(p) ==
    /\ st[p] = "lock"
    /\ lock = NoProc
    /\ lock' = p
    /\ Goto(p, "read")
    /\ UNCHANGED <<file, today, rec, limit, alert, memo, higher, day, clock,
                   history>>

\* The lock is ours; bumpUnderLock() takes down the day.
TakeLock(p) ==
    /\ st[p] = "lock"
    /\ lock = NoProc
    /\ lock' = p
    /\ today' = [today EXCEPT ![p] = day]
    /\ Goto(p, "read")
    /\ UNCHANGED <<file, rec, limit, alert, memo, higher, day, clock, history>>

\* mkdir or the write of ensureFile() fails, or the retries for the lock run
\* out: acquire() rejects and nothing is counted.
GiveUp(p) ==
    /\ st[p] \in {"ensure", "create", "lock"}
    /\ Goto(p, "idle")
    /\ UNCHANGED <<file, lock, today, rec, limit, alert, memo, higher, day,
                   clock, history>>

\* readRecord(); only the source of tier 0 asks for higher tiers.
ReadRecord(p) ==
    /\ st[p] = "read"
    /\ rec' = [rec EXCEPT ![p] = OfDay(file, today[p])]
    /\ IF Slowed
       THEN Goto(p, "tier") /\ UNCHANGED limit
       ELSE Goto(p, "bump") /\ limit' = [limit EXCEPT ![p] = Limit]
    /\ UNCHANGED <<file, lock, today, alert, memo, higher, day, clock, history>>

LimitIf(slow) == IF slow THEN HalfLimit ELSE Limit

\* isHigherTierActive(): the remembered answer is used while it is fresh ...
RememberTier(p) ==
    /\ st[p] = "tier"
    /\ Fresh(memo[p])
    /\ limit' = [limit EXCEPT ![p] = LimitIf(memo[p].value)]
    /\ Goto(p, "bump")
    /\ UNCHANGED <<file, lock, today, rec, alert, memo, higher, day, clock,
                   history>>

\* ... otherwise the guard is asked; the time goes with the question ...
AskGuard(p) ==
    LET answer == higher # Never
    IN  /\ st[p] = "tier"
        /\ ~Fresh(memo[p])
        /\ memo' = [memo EXCEPT ![p] = [at |-> clock, value |-> answer]]
        /\ limit' = [limit EXCEPT ![p] = LimitIf(answer)]
        /\ Goto(p, "bump")
        /\ UNCHANGED <<file, lock, today, rec, alert, higher, day, clock,
                       history>>

\* ... and when it cannot answer, no higher tier is assumed.
GuardFails(p) ==
    /\ st[p] = "tier"
    /\ ~Fresh(memo[p])
    /\ limit' = [limit EXCEPT ![p] = LimitIf(FALSE)]
    /\ Goto(p, "bump")
    /\ UNCHANGED <<file, lock, today, rec, alert, memo, higher, day, clock,
                   history>>

\* Variant of Crossed with a bug: the flag of the alert is not looked at.
CrossedAgain(r, l) == r.count + 1 >= AlertAt(l)

\* This request is the first of the day that reaches the mark.
Crossed(r, l) == r.count + 1 >= AlertAt(l) /\ ~r.alerted

\* Variant of Exhausted with a bug: off by one.
ExhaustedLate(r, l) == r.count > l

Exhausted(r, l) == r.count + 1 > l

\* RateLimitExceededError, thrown through the finally that unlocks.
Exceeded(p) ==
    /\ st[p] = "bump"
    /\ Exhausted(rec[p], limit[p])
    /\ Goto(p, "unlock")
    /\ UNCHANGED <<file, lock, today, rec, limit, alert, memo, higher, day,
                   clock, history>>

\* The request is counted and the file replaced ...
Bump(p) ==
    LET r == rec[p]
        crossed == Crossed(r, limit[p])
    IN  /\ st[p] = "bump"
        /\ ~Exhausted(r, limit[p])
        /\ file' = [date |-> today[p], count |-> r.count + 1,
                    alerted |-> r.alerted \/ crossed]
        /\ alert' = [alert EXCEPT ![p] = crossed]
        /\ granted' = [granted EXCEPT ![today[p]] = @ + 1]
        /\ late' = IF today[p] < day THEN [late EXCEPT ![day] = @ + 1]
                                     ELSE late
        /\ Goto(p, "unlock")
        /\ UNCHANGED <<lock, today, rec, limit, memo, higher, day, clock,
                       alerts>>

\* ... or the write fails, and so does acquire().
BumpFails(p) ==
    /\ st[p] = "bump"
    /\ ~Exhausted(rec[p], limit[p])
    /\ Goto(p, "unlock")
    /\ UNCHANGED <<file, lock, today, rec, limit, alert, memo, higher, day,
                   clock, history>>

\* bumpUnderLock() has returned or thrown: its variables are gone.
Forgotten(p) ==
    /\ rec' = [rec EXCEPT ![p] = ZeroRecord(0)]
    /\ limit' = [limit EXCEPT ![p] = 0]

Unlock(p) ==
    /\ st[p] = "unlock"
    /\ lock' = NoProc
    /\ Forgotten(p)
    /\ Goto(p, IF alert[p] THEN "notify" ELSE "idle")
    /\ UNCHANGED <<file, today, alert, memo, higher, day, clock, history>>

\* release() rejects in the finally: so does acquire(), although the request
\* is counted, and its alert is never sent; the lock is left to expire.
UnlockFails(p) ==
    /\ st[p] = "unlock"
    /\ alert' = [alert EXCEPT ![p] = FALSE]
    /\ Forgotten(p)
    /\ Goto(p, "idle")
    /\ UNCHANGED <<file, lock, today, memo, higher, day, clock, history>>

\* notifier.notify('rate_limit.approaching'), whose failure is ignored.
Notify(p) ==
    /\ st[p] = "notify"
    /\ alerts' = [alerts EXCEPT ![today[p]] = @ + 1]
    /\ alert' = [alert EXCEPT ![p] = FALSE]
    /\ Goto(p, "idle")
    /\ UNCHANGED <<file, lock, today, rec, limit, memo, higher, day, clock,
                   granted, late>>

\* The process dies; when it starts again it remembers nothing.
Die(p) ==
    /\ Goto(p, "idle")
    /\ alert' = [alert EXCEPT ![p] = FALSE]
    /\ memo' = [memo EXCEPT ![p] = NoMemo]
    /\ Forgotten(p)
    /\ UNCHANGED <<file, lock, today, higher, day, clock, history>>

InCritical(p) == st[p] \in {"read", "tier", "bump", "unlock"}

\* proper-lockfile: the lock that a dead holder or a failed release has left
\* is stale after 10 s and goes to the next who tries.
ExpireLock ==
    /\ lock # NoProc
    /\ ~InCritical(lock)
    /\ lock' = NoProc
    /\ UNCHANGED <<file, st, today, rec, limit, alert, memo, higher, day,
                   clock, history>>

Proceed(p) ==
    \/ EnsureFile(p)
    \/ CreateFile(p)
    \/ TakeLock(p)
    \/ GiveUp(p)
    \/ ReadRecord(p)
    \/ RememberTier(p)
    \/ AskGuard(p)
    \/ GuardFails(p)
    \/ Exceeded(p)
    \/ Bump(p)
    \/ BumpFails(p)
    \/ Unlock(p)
    \/ UnlockFails(p)
    \/ Notify(p)

Next ==
    \/ Tick
    \/ HigherTier
    \/ ExpireLock
    \/ \E p \in Proc : Acquire(p) \/ Proceed(p) \/ Die(p)

Spec == Init /\ [][Next]_vars

-----------------------------------------------------------------------------
(* Properties.                                                             *)

\* "Remembered over restarts, reset at midnight": however processes, crashes,
\* failures and midnight interleave, no day is charged more than the limit.
DailyLimit == \A d \in Days : granted[d] <= Limit

\* Midnight may pass while the lock is held, and the request is then charged
\* to the day before; but to one request at most.  So no day by the calendar
\* sees more than Limit + 1.
OneLateGrant == \A d \in Days : late[d] <= 1

\* The alert of a day is sent once, by whichever process reaches the mark.
AlertOncePerDay == \A d \in Days : alerts[d] <= 1

\* The limit is halved for whoever can ask the guard, at the latest MemoTime
\* after a session of a higher tier has begun.
SlowedDown ==
    [][\A p \in Proc :
        st[p] = "tier" /\ st'[p] = "bump" /\ Fresh(memo'[p])
            => \/ limit'[p] = HalfLimit
               \/ higher = Never
               \/ clock - higher < MemoTime]_vars

-----------------------------------------------------------------------------
(* Why it holds: the inductive invariant, in named parts.                  *)

\* Who is inside the lock holds it.
LockHeld == \A p \in Proc : InCritical(p) => lock = p

\* Until the file exists one process at most is at work, before the lock.
CreatedAlone ==
    /\ \A p \in Proc : st[p] = "create" => file = NoFile
    /\ file = NoFile =>
        /\ \A p \in Proc : st[p] \in {"idle", "ensure", "create"}
        /\ \A p, q \in Proc : p = q \/ st[p] = "idle" \/ st[q] = "idle"

\* What is counted on is what the file holds, and no file is of the future.
RecordCurrent ==
    /\ file # NoFile => file.date <= day
    /\ \A p \in Proc : today[p] <= day
    /\ \A p \in Proc :
         st[p] \in {"read", "tier", "bump"} => file.date <= today[p]
    /\ \A p \in Proc :
         st[p] \in {"tier", "bump"} => rec[p] = OfDay(file, today[p])

\* The file has counted what was granted on its day, and nothing was granted
\* on a later one.
Counted ==
    /\ file = NoFile => \A d \in Days : granted[d] = 0
    /\ file # NoFile =>
        /\ file.count <= Limit
        /\ \A d \in Days :
            /\ d = file.date => granted[d] <= file.count
            /\ d > file.date => granted[d] = 0
    /\ DailyLimit

\* Who has an alert to send for a day is the only one, none was sent yet, and
\* the file says that one is due.
AlertDue(d) ==
    /\ file # NoFile
    /\ file.date >= d
    /\ file.date = d => file.alerted

AlertsSingle ==
    /\ \A d \in Days : alerts[d] <= 1 /\ (alerts[d] = 1 => AlertDue(d))
    /\ \A p \in Proc :
        /\ alert[p] => /\ st[p] \in {"unlock", "notify"}
                       /\ alerts[today[p]] = 0
                       /\ AlertDue(today[p])
        /\ st[p] = "notify" => alert[p]
    /\ \A p, q \in Proc :
        p # q /\ alert[p] /\ alert[q] => today[p] # today[q]

\* A grant after its day happens once: the file is of that earlier day, or of
\* a later one when nobody counts on the earlier any more.
LateOnce ==
    /\ \A d \in Days : late[d] <= 1 /\ (d > day => late[d] = 0)
    /\ \A p \in Proc : \A d \in Days :
        st[p] \in {"read", "tier", "bump"} /\ d > today[p] => late[d] = 0

\* An answer "no" that is remembered was true when the guard gave it.
MemoTrue ==
    /\ higher # Never => higher <= clock
    /\ \A p \in Proc : memo[p] # NoMemo =>
        /\ memo[p].at <= clock
        /\ ~memo[p].value /\ higher # Never => memo[p].at <= higher

LimiterInv ==
    /\ TypeOK
    /\ LockHeld
    /\ CreatedAlone
    /\ RecordCurrent
    /\ Counted
    /\ AlertsSingle
    /\ LateOnce
    /\ MemoTrue
=============================================================================
