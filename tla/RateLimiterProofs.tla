-------------------------- MODULE RateLimiterProofs --------------------------
(***************************************************************************)
(* Proofs about RateLimiter for every set of processes, every limit and    *)
(* every calendar: the inductive invariant LimiterInv and what it says of  *)
(* limits, late grants, alerts and the slowing down.  Where the creation   *)
(* of the file matters it is assumed to meet no other process              *)
(* (SoloFirstUse).                                                         *)
(***************************************************************************)
EXTENDS RateLimiter, TLAPS

-----------------------------------------------------------------------------
(* Records and limits.                                                     *)

LEMMA DayTypes == \A d \in Days : d \in Nat
BY LimiterConstants DEF LimiterConstants, Days

LEMMA LimitTypes ==
  /\ HalfLimit \in 0..Limit
  /\ \A b \in BOOLEAN : LimitIf(b) \in 0..Limit
<1>1. HalfLimit \in 0..Limit
      BY LimiterConstants DEF LimiterConstants, HalfLimit
<1> QED
    BY <1>1, LimiterConstants DEF LimiterConstants, LimitIf

LEMMA RecordTypes ==
  ASSUME NEW d \in Days
  PROVE  /\ ZeroRecord(d) \in Record
         /\ \A r \in Record : OfDay(r, d) \in Record /\ OfDay(r, d).date = d
BY DEF ZeroRecord, OfDay, Record

\* The record that Bump writes.
Counting(p) ==
  [date |-> today[p], count |-> rec[p].count + 1,
   alerted |-> rec[p].alerted \/ Crossed(rec[p], limit[p])]

LEMMA CountingTypes ==
  ASSUME TypeOK, NEW p \in Proc
  PROVE  /\ Counting(p) \in Record
         /\ Crossed(rec[p], limit[p]) \in BOOLEAN
BY DEF TypeOK, Counting, Record, Crossed

\* What a call that is over leaves behind in its variables.
LEMMA ForgottenTypes ==
  ASSUME TypeOK, NEW p \in Proc, Forgotten(p)
  PROVE  /\ rec' \in [Proc -> Record]
         /\ limit' \in [Proc -> 0..Limit]
         /\ \A q \in Proc \ {p} : rec'[q] = rec[q]
<1>1. 0 \in Days /\ 0 \in 0..Limit
      BY LimiterConstants DEF LimiterConstants, Days
<1>2. ZeroRecord(0) \in Record
      BY <1>1, RecordTypes
<1> QED
    BY <1>1, <1>2 DEF TypeOK, Forgotten

-----------------------------------------------------------------------------
(* The steps.                                                              *)

LEMMA InitInvariant == Init => LimiterInv
<1> SUFFICES ASSUME Init PROVE LimiterInv
    OBVIOUS
<1>1. TypeOK
      BY LimiterConstants, RecordTypes
         DEF Init, TypeOK, LimiterConstants, Step, Days
<1>2. LockHeld /\ CreatedAlone /\ RecordCurrent /\ MemoTrue
      BY DEF Init, LockHeld, InCritical, CreatedAlone, RecordCurrent, MemoTrue
<1>3. Counted /\ AlertsSingle /\ LateOnce
      BY LimiterConstants
         DEF Init, Counted, DailyLimit, AlertsSingle, LateOnce, LimiterConstants
<1> QED
    BY <1>1, <1>2, <1>3 DEF LimiterInv

\* Types: a process that counts has found a file.
LEMMA TypesStep ==
  ASSUME TypeOK, CreatedAlone, [Next]_vars
  PROVE  TypeOK'
<1> USE DEF TypeOK, Step, history
<1>1. CASE Tick
      BY <1>1, LimiterConstants DEF Tick, LimiterConstants
<1>2. CASE HigherTier
      BY <1>2, LimiterConstants DEF HigherTier, LimiterConstants
<1>3. CASE ExpireLock
      BY <1>3 DEF ExpireLock
<1>4. ASSUME NEW p \in Proc,
             \/ Acquire(p) \/ EnsureFile(p) \/ TakeLock(p) \/ GiveUp(p)
             \/ Exceeded(p) \/ BumpFails(p)
      PROVE  TypeOK'
      BY <1>4 DEF Acquire, EnsureFile, TakeLock, GiveUp, Exceeded, BumpFails,
         Goto
<1>5. ASSUME NEW p \in Proc, Notify(p)
      PROVE  TypeOK'
      BY <1>5 DEF Notify, Goto
<1>6. ASSUME NEW p \in Proc, UnlockFails(p) \/ Die(p)
      PROVE  TypeOK'
      BY <1>6, ForgottenTypes DEF UnlockFails, Die, Goto
<1>7. ASSUME NEW p \in Proc, CreateFile(p)
      PROVE  TypeOK'
      BY <1>7, RecordTypes DEF CreateFile, Goto
<1>8. ASSUME NEW p \in Proc, ReadRecord(p)
      PROVE  TypeOK'
  <2>1. file \in Record
        BY <1>8 DEF ReadRecord, CreatedAlone
  <2> QED
    BY <1>8, <2>1, RecordTypes, LimiterConstants
       DEF ReadRecord, Goto, LimiterConstants
<1>9. ASSUME NEW p \in Proc, RememberTier(p)
      PROVE  TypeOK'
      BY <1>9, LimitTypes DEF RememberTier, Goto, Memo, Fresh
<1>10. ASSUME NEW p \in Proc, GuardFails(p)
      PROVE  TypeOK'
      BY <1>10, LimitTypes DEF GuardFails, Goto
<1>11. ASSUME NEW p \in Proc, AskGuard(p)
      PROVE  TypeOK'
  <2>1. /\ st' = [st EXCEPT ![p] = "bump"]
        /\ memo' = [memo EXCEPT ![p] = [at |-> clock, value |-> higher # Never]]
        /\ limit' = [limit EXCEPT ![p] = LimitIf(higher # Never)]
        /\ UNCHANGED <<file, lock, today, rec, alert, higher, day, clock,
                       history>>
        BY <1>11, Zenon DEF AskGuard, Goto
  <2>2. [at |-> clock, value |-> higher # Never] \in Memo
        BY DEF Memo
  <2>3. LimitIf(higher # Never) \in 0..Limit
        BY LimitTypes
  <2> QED
    BY <2>1, <2>2, <2>3
<1>12. ASSUME NEW p \in Proc, Bump(p)
      PROVE  TypeOK'
      BY <1>12, CountingTypes DEF Bump, Counting, Goto
<1>13. ASSUME NEW p \in Proc, Unlock(p)
      PROVE  TypeOK'
  <2>1. st' \in [Proc -> Step]
        BY <1>13, Zenon DEF Unlock, Goto
  <2> QED
    BY <1>13, <2>1, ForgottenTypes DEF Unlock
<1>14. CASE UNCHANGED vars
      BY <1>14 DEF vars
<1> QED
    BY <1>1, <1>2, <1>3, <1>4, <1>5, <1>6, <1>7, <1>8, <1>9,
       <1>10, <1>11, <1>12, <1>13, <1>14
       DEF Next, Proceed

\* The lock: nobody gets in while another is inside, and the takeover of a
\* stale lock needs a holder that is not.
LEMMA LockStep ==
  ASSUME TypeOK, LockHeld, [Next]_vars
  PROVE  LockHeld'
<1> USE DEF TypeOK, LockHeld, InCritical
<1>1. CASE Tick \/ HigherTier \/ UNCHANGED vars
      BY <1>1 DEF Tick, HigherTier, vars
<1>2. CASE ExpireLock
      BY <1>2 DEF ExpireLock
<1>3. ASSUME NEW p \in Proc,
             \/ Acquire(p) \/ EnsureFile(p) \/ CreateFile(p) \/ GiveUp(p)
             \/ UnlockFails(p) \/ Notify(p) \/ Die(p)
      PROVE  LockHeld'
      BY <1>3 DEF Acquire, EnsureFile, CreateFile, GiveUp, UnlockFails, Notify,
         Die, Goto
<1>4. ASSUME NEW p \in Proc, TakeLock(p)
      PROVE  LockHeld'
      BY <1>4, LimiterConstants DEF TakeLock, Goto, LimiterConstants
<1>5. ASSUME NEW p \in Proc,
             \/ ReadRecord(p) \/ RememberTier(p) \/ AskGuard(p)
             \/ GuardFails(p) \/ Exceeded(p) \/ Bump(p) \/ BumpFails(p)
      PROVE  LockHeld'
      BY <1>5 DEF ReadRecord, RememberTier, AskGuard, GuardFails, Exceeded,
         Bump, BumpFails, Goto
<1>6. ASSUME NEW p \in Proc, Unlock(p)
      PROVE  LockHeld'
      BY <1>6 DEF Unlock, Goto
<1> QED
    BY <1>1, <1>2, <1>3, <1>4, <1>5, <1>6 DEF Next, Proceed

\* The creation of the file meets no other process.
LEMMA CreationStep ==
  ASSUME SoloFirstUse, TypeOK, CreatedAlone, [Next]_vars
  PROVE  CreatedAlone'
<1> USE DEF TypeOK, CreatedAlone
<1>1. CASE Tick \/ HigherTier \/ ExpireLock \/ UNCHANGED vars
      BY <1>1 DEF Tick, HigherTier, ExpireLock, vars
<1>2. ASSUME NEW p \in Proc,
             Acquire(p) \/ EnsureFile(p) \/ GiveUp(p) \/ Die(p)
      PROVE  CreatedAlone'
      BY <1>2 DEF Acquire, EnsureFile, GiveUp, Die, Goto
<1>3. ASSUME NEW p \in Proc, CreateFile(p)
      PROVE  CreatedAlone'
  <2>1. file' # NoFile
        BY <1>3, RecordTypes, NoFileIsNoRecord DEF CreateFile
  <2> QED
    BY <1>3, <2>1 DEF CreateFile, Goto
<1>4. ASSUME NEW p \in Proc,
             \/ TakeLock(p) \/ ReadRecord(p) \/ RememberTier(p) \/ AskGuard(p)
             \/ GuardFails(p) \/ Exceeded(p) \/ BumpFails(p) \/ UnlockFails(p)
             \/ Notify(p)
      PROVE  CreatedAlone'
  <2>1. CASE TakeLock(p) \/ ReadRecord(p)
        BY <2>1 DEF TakeLock, ReadRecord, Goto
  <2>2. CASE RememberTier(p) \/ AskGuard(p) \/ GuardFails(p)
        BY <2>2 DEF RememberTier, AskGuard, GuardFails, Goto
  <2>3. CASE Exceeded(p) \/ BumpFails(p) \/ UnlockFails(p) \/ Notify(p)
        BY <2>3 DEF Exceeded, BumpFails, UnlockFails, Notify, Goto
  <2> QED
    BY <1>4, <2>1, <2>2, <2>3
<1>5. ASSUME NEW p \in Proc, Bump(p)
      PROVE  CreatedAlone'
  <2>1. file' # NoFile
        BY <1>5, CountingTypes, NoFileIsNoRecord DEF Bump, Counting
  <2> QED
    BY <1>5, <2>1 DEF Bump, Goto
<1>6. ASSUME NEW p \in Proc, Unlock(p)
      PROVE  CreatedAlone'
      BY <1>6 DEF Unlock, Goto
<1> QED
    BY <1>1, <1>2, <1>3, <1>4, <1>5, <1>6 DEF Next, Proceed

\* Who counts has the file's record of its day, since nobody else writes.
LEMMA RecordStep ==
  ASSUME TypeOK, LockHeld, CreatedAlone, RecordCurrent, [Next]_vars
  PROVE  RecordCurrent'
<1> USE DayTypes DEF TypeOK, RecordCurrent
<1>1. CASE Tick
  <2>1. day' >= day /\ day' \in Nat
        BY <1>1 DEF Tick
  <2>2. file # NoFile => file.date \in Nat
        BY DEF Record
  <2>3. UNCHANGED <<file, st, today, rec>>
        BY <1>1 DEF Tick
  <2>4. file # NoFile => file.date <= day'
        BY <2>1, <2>2
  <2>5. \A p \in Proc : today[p] <= day'
        BY <2>1
  <2> QED
    BY <2>3, <2>4, <2>5
<1>2. CASE HigherTier \/ ExpireLock \/ UNCHANGED vars
      BY <1>2 DEF HigherTier, ExpireLock, vars
<1>3. ASSUME NEW p \in Proc,
             \/ Acquire(p) \/ GiveUp(p) \/ RememberTier(p) \/ AskGuard(p)
             \/ GuardFails(p) \/ Exceeded(p) \/ BumpFails(p) \/ UnlockFails(p)
             \/ Notify(p) \/ Die(p)
      PROVE  RecordCurrent'
  <2>1. CASE Acquire(p) \/ GiveUp(p)
        BY <2>1 DEF Acquire, GiveUp, Goto
  <2>2. CASE RememberTier(p) \/ AskGuard(p) \/ GuardFails(p)
        BY <2>2 DEF RememberTier, AskGuard, GuardFails, Goto
  <2>3. CASE Exceeded(p) \/ BumpFails(p)
        BY <2>3 DEF Exceeded, BumpFails, Goto
  <2>4. CASE UnlockFails(p) \/ Notify(p) \/ Die(p)
        BY <2>4, ForgottenTypes DEF UnlockFails, Notify, Die, Goto
  <2> QED
    BY <1>3, <2>1, <2>2, <2>3, <2>4
<1>4. ASSUME NEW p \in Proc, EnsureFile(p)
      PROVE  RecordCurrent'
      BY <1>4 DEF EnsureFile, Goto
<1>5. ASSUME NEW p \in Proc, CreateFile(p)
      PROVE  RecordCurrent'
      BY <1>5 DEF CreateFile, CreatedAlone, ZeroRecord, Goto
<1>6. ASSUME NEW p \in Proc, TakeLock(p)
      PROVE  RecordCurrent'
      BY <1>6 DEF TakeLock, CreatedAlone, Goto
<1>7. ASSUME NEW p \in Proc, ReadRecord(p)
      PROVE  RecordCurrent'
      BY <1>7 DEF ReadRecord, Goto
<1>8. ASSUME NEW p \in Proc, Bump(p)
      PROVE  RecordCurrent'
  <2>1. \A q \in Proc : st'[q] \notin {"read", "tier", "bump"}
        BY <1>8 DEF Bump, LockHeld, InCritical, Goto
  <2> QED
    BY <1>8, <2>1 DEF Bump
<1>9. ASSUME NEW p \in Proc, Unlock(p)
      PROVE  RecordCurrent'
      BY <1>9, ForgottenTypes DEF Unlock, Goto
<1> QED
    BY <1>1, <1>2, <1>3, <1>4, <1>5, <1>6, <1>7, <1>8, <1>9 DEF Next, Proceed

\* What has been granted is in the file, and the file is within the limit.
LEMMA CountStep ==
  ASSUME TypeOK, LockHeld, CreatedAlone, RecordCurrent, Counted, [Next]_vars
  PROVE  Counted'
<1> USE DEF TypeOK, Counted, DailyLimit, history
<1>1. CASE Tick \/ HigherTier \/ ExpireLock \/ UNCHANGED vars
      BY <1>1 DEF Tick, HigherTier, ExpireLock, vars
<1>2. ASSUME NEW p \in Proc,
             \/ Acquire(p) \/ EnsureFile(p) \/ TakeLock(p) \/ GiveUp(p)
             \/ ReadRecord(p) \/ RememberTier(p) \/ AskGuard(p)
             \/ GuardFails(p) \/ Exceeded(p) \/ BumpFails(p) \/ Unlock(p)
             \/ UnlockFails(p) \/ Notify(p) \/ Die(p)
      PROVE  Counted'
  <2>1. UNCHANGED <<file, granted>>
        BY <1>2 DEF Acquire, EnsureFile, TakeLock, GiveUp, ReadRecord,
           RememberTier, AskGuard, GuardFails, Exceeded, BumpFails, Unlock,
           UnlockFails, Notify, Die
  <2> QED
    BY <2>1
<1>3. ASSUME NEW p \in Proc, CreateFile(p)
      PROVE  Counted'
  <2>1. \A d \in Days : granted[d] = 0
        BY <1>3 DEF CreateFile, CreatedAlone
  <2>2. file' = ZeroRecord(today[p]) /\ file' # NoFile /\ granted' = granted
        BY <1>3, RecordTypes, NoFileIsNoRecord DEF CreateFile
  <2> QED
    BY <2>1, <2>2, LimiterConstants DEF ZeroRecord, LimiterConstants
<1>4. ASSUME NEW p \in Proc, Bump(p)
      PROVE  Counted'
  <2> DEFINE t == today[p]
             n == rec[p].count
  <2>1. /\ file \in Record /\ t \in Days /\ n \in Nat
        /\ file.date <= t
        /\ rec[p] = OfDay(file, t)
        BY <1>4 DEF Bump, CreatedAlone, RecordCurrent, Record
  <2>2. n + 1 <= Limit
        BY <1>4, <2>1, LimiterConstants DEF Bump, Exhausted, LimiterConstants
  <2>3. granted[t] <= n /\ \A d \in Days : d > t => granted[d] = 0
    <3>1. CASE file.date = t
          BY <2>1, <3>1, NoFileIsNoRecord DEF OfDay
    <3>2. CASE file.date # t
      <4>1. n = 0
            BY <2>1, <3>2 DEF OfDay, ZeroRecord
      <4>2. file.date \in Days
            BY <2>1 DEF Record
      <4>3. file # NoFile /\ file.date < t
            BY <2>1, <3>2, <4>2, NoFileIsNoRecord, DayTypes
      <4>4. \A d \in Days : d >= t => d > file.date
            BY <2>1, <4>2, <4>3, DayTypes
      <4> QED
        BY <2>1, <4>1, <4>3, <4>4, DayTypes
    <3> QED
      BY <3>1, <3>2
  <2>4. file'.date = t /\ file'.count = n + 1 /\ file' # NoFile
        BY <1>4, CountingTypes, NoFileIsNoRecord DEF Bump, Counting
  <2>5. granted' = [granted EXCEPT ![t] = @ + 1]
        BY <1>4 DEF Bump
  <2>6. /\ granted' \in [Days -> Nat] /\ granted'[t] <= n + 1
        /\ \A d \in Days \ {t} : granted'[d] = granted[d]
        BY <2>1, <2>3, <2>5
  <2> HIDE DEF t, n
  <2>7. DailyLimit'
        BY <2>1, <2>2, <2>6, LimiterConstants DEF LimiterConstants
  <2> QED
    BY <2>1, <2>2, <2>3, <2>4, <2>6, <2>7, DayTypes
<1> QED
    BY <1>1, <1>2, <1>3, <1>4 DEF Next, Proceed

\* At most one holder of the lock is left behind by midnight.
LEMMA LateStep ==
  ASSUME TypeOK, LockHeld, RecordCurrent, LateOnce, [Next]_vars
  PROVE  LateOnce'
<1> USE DayTypes DEF TypeOK, LateOnce, history
<1>1. CASE Tick
  <2>1. day' >= day
        BY <1>1 DEF Tick
  <2> QED
    BY <1>1, <2>1 DEF Tick
<1>2. CASE HigherTier \/ ExpireLock \/ UNCHANGED vars
      BY <1>2 DEF HigherTier, ExpireLock, vars
<1>3. ASSUME NEW p \in Proc,
             \/ Acquire(p) \/ EnsureFile(p) \/ CreateFile(p) \/ GiveUp(p)
             \/ ReadRecord(p) \/ RememberTier(p) \/ AskGuard(p)
             \/ GuardFails(p) \/ Exceeded(p) \/ BumpFails(p) \/ UnlockFails(p)
             \/ Notify(p) \/ Die(p)
      PROVE  LateOnce'
      BY <1>3 DEF Acquire, EnsureFile, CreateFile, GiveUp, ReadRecord,
         RememberTier, AskGuard, GuardFails, Exceeded, BumpFails,
         UnlockFails, Notify, Die, Goto
<1>4. ASSUME NEW p \in Proc, TakeLock(p)
      PROVE  LateOnce'
      BY <1>4 DEF TakeLock, Goto
<1>5. ASSUME NEW p \in Proc, Bump(p)
      PROVE  LateOnce'
  <2>1. \A q \in Proc : st'[q] \notin {"read", "tier", "bump"}
        BY <1>5 DEF Bump, LockHeld, InCritical, Goto
  <2>2. CASE today[p] < day
        BY <1>5, <2>1, <2>2 DEF Bump
  <2>3. CASE ~(today[p] < day)
        BY <1>5, <2>1, <2>3 DEF Bump
  <2> QED
    BY <2>2, <2>3
<1>6. ASSUME NEW p \in Proc, Unlock(p)
      PROVE  LateOnce'
      BY <1>6 DEF Unlock, Goto
<1> QED
    BY <1>1, <1>2, <1>3, <1>4, <1>5, <1>6 DEF Next, Proceed

\* A remembered "no" stays true of its moment: sessions begin now, not then.
LEMMA MemoStep ==
  ASSUME TypeOK, MemoTrue, [Next]_vars
  PROVE  MemoTrue'
<1> USE DEF TypeOK, MemoTrue, Memo
<1>1. CASE Tick
      BY <1>1, LimiterConstants DEF Tick, LimiterConstants
<1>2. CASE HigherTier
      BY <1>2, LimiterConstants DEF HigherTier, LimiterConstants
<1>3. CASE ExpireLock \/ UNCHANGED vars
      BY <1>3 DEF ExpireLock, vars
<1>4. ASSUME NEW p \in Proc,
             \/ Acquire(p) \/ EnsureFile(p) \/ CreateFile(p) \/ TakeLock(p)
             \/ GiveUp(p) \/ ReadRecord(p) \/ RememberTier(p)
             \/ GuardFails(p) \/ Exceeded(p) \/ Bump(p) \/ BumpFails(p)
             \/ Unlock(p) \/ UnlockFails(p) \/ Notify(p)
      PROVE  MemoTrue'
  <2>1. UNCHANGED <<memo, higher, clock>>
        BY <1>4 DEF Acquire, EnsureFile, CreateFile, TakeLock, GiveUp,
           ReadRecord, RememberTier, GuardFails, Exceeded, Bump, BumpFails,
           Unlock, UnlockFails, Notify
  <2> QED
    BY <2>1
<1>5. ASSUME NEW p \in Proc, Die(p)
      PROVE  MemoTrue'
      BY <1>5 DEF Die
<1>6. ASSUME NEW p \in Proc, AskGuard(p)
      PROVE  MemoTrue'
  <2> DEFINE m == [at |-> clock, value |-> higher # Never]
  <2>1. memo' = [memo EXCEPT ![p] = m] /\ UNCHANGED <<higher, clock>>
        BY <1>6, Zenon DEF AskGuard
  <2>2. m.at = clock /\ (~m.value => higher = Never)
        OBVIOUS
  <2> HIDE DEF m
  <2> QED
    BY <2>1, <2>2
<1> QED
    BY <1>1, <1>2, <1>3, <1>4, <1>5, <1>6 DEF Next, Proceed

\* The alert that is due for a day stays due.
LEMMA DueStays ==
  ASSUME TypeOK, CreatedAlone, RecordCurrent, [Next]_vars,
         NEW d \in Days, AlertDue(d)
  PROVE  AlertDue(d)'
<1> USE DEF TypeOK, AlertDue
<1>1. CASE file' = file
      BY <1>1
<1>2. ASSUME NEW p \in Proc, CreateFile(p)
      PROVE  AlertDue(d)'
      BY <1>2 DEF CreateFile, CreatedAlone
<1>3. ASSUME NEW p \in Proc, Bump(p)
      PROVE  AlertDue(d)'
  <2>1. /\ file \in Record /\ today[p] \in Days
        /\ file.date <= today[p]
        /\ rec[p] = OfDay(file, today[p])
        BY <1>3 DEF Bump, CreatedAlone, RecordCurrent
  <2>2. file' = Counting(p) /\ file' # NoFile
        BY <1>3, CountingTypes, NoFileIsNoRecord DEF Bump, Counting
  <2>3. file.date \in Nat /\ today[p] \in Nat /\ d \in Nat
        BY <2>1, DayTypes DEF Record
  <2>4. file'.date = today[p] /\ (rec[p].alerted => file'.alerted)
        BY <2>2 DEF Counting
  <2>5. today[p] >= d
        BY <2>1, <2>3
  <2>6. today[p] = d => rec[p] = file /\ file.alerted
        BY <2>1, <2>3 DEF OfDay
  <2> QED
    BY <2>2, <2>4, <2>5, <2>6
<1>4. \/ file' = file
      \/ \E p \in Proc : CreateFile(p) \/ Bump(p)
      BY DEF Next, Proceed, vars, Tick, HigherTier, ExpireLock, Acquire,
         EnsureFile, TakeLock, GiveUp, ReadRecord, RememberTier, AskGuard,
         GuardFails, Exceeded, BumpFails, Unlock, UnlockFails, Notify, Die
<1> QED
    BY <1>1, <1>2, <1>3, <1>4

\* Who reaches the mark first takes it for itself.
LEMMA AlertStep ==
  ASSUME TypeOK, LockHeld, CreatedAlone, RecordCurrent, AlertsSingle,
         [Next]_vars
  PROVE  AlertsSingle'
<1> USE DEF TypeOK, AlertsSingle, history
<1>1. \A d \in Days : AlertDue(d) => AlertDue(d)'
      BY DueStays
<1> HIDE DEF AlertDue
<1>2. CASE Tick \/ HigherTier \/ ExpireLock \/ UNCHANGED vars
      BY <1>1, <1>2 DEF Tick, HigherTier, ExpireLock, vars
<1>3. ASSUME NEW p \in Proc,
             \/ Acquire(p) \/ CreateFile(p) \/ GiveUp(p) \/ ReadRecord(p)
             \/ RememberTier(p) \/ AskGuard(p) \/ GuardFails(p) \/ Exceeded(p)
             \/ BumpFails(p)
      PROVE  AlertsSingle'
  <2>1. /\ UNCHANGED <<today, alert, alerts>>
        /\ st[p] \notin {"unlock", "notify"}
        /\ st'[p] # "notify"
        /\ \A q \in Proc : q # p => st'[q] = st[q]
        BY <1>3 DEF Acquire, CreateFile, GiveUp, ReadRecord, RememberTier,
           AskGuard, GuardFails, Exceeded, BumpFails, Goto
  <2>2. ~alert[p]
        BY <2>1
  <2> QED
    BY <1>1, <2>1, <2>2
<1>4. ASSUME NEW p \in Proc, EnsureFile(p) \/ TakeLock(p)
      PROVE  AlertsSingle'
      BY <1>1, <1>4 DEF EnsureFile, TakeLock, Goto
<1>5. ASSUME NEW p \in Proc, Bump(p)
      PROVE  AlertsSingle'
  <2> DEFINE t == today[p]
  <2>1. /\ st' = [st EXCEPT ![p] = "unlock"]
        /\ alert' = [alert EXCEPT ![p] = Crossed(rec[p], limit[p])]
        /\ UNCHANGED <<today, alerts>>
        BY <1>5 DEF Bump, Goto
  <2>2. ~alert[p] /\ t \in Days
        BY <1>5 DEF Bump
  <2>3. CASE Crossed(rec[p], limit[p])
    <3>1. ~AlertDue(t)
      <4>1. /\ file.date <= t /\ file \in Record
            /\ rec[p] = OfDay(file, t)
            BY <1>5 DEF Bump, RecordCurrent, CreatedAlone
      <4>2. ~rec[p].alerted
            BY <2>3 DEF Crossed
      <4>3. file.date \in Nat /\ t \in Nat
            BY <2>2, <4>1, DayTypes DEF Record
      <4>4. file.date = t => rec[p] = file
            BY <4>1 DEF OfDay
      <4> QED
        BY <4>1, <4>2, <4>3, <4>4 DEF AlertDue
    <3>2. alerts[t] = 0
          BY <2>2, <3>1
    <3>3. AlertDue(t)'
      <4>1. file' = Counting(p) /\ file' # NoFile
            BY <1>5, CountingTypes, NoFileIsNoRecord DEF Bump, Counting
      <4>2. file'.date = t /\ file'.alerted
            BY <2>3, <4>1 DEF Counting
      <4> QED
        BY <2>1, <2>2, <4>1, <4>2, DayTypes DEF AlertDue
    <3>4. \A q \in Proc : alert[q] => today[q] # t
          BY <3>1
    <3> QED
      BY <1>1, <2>1, <2>2, <2>3, <3>2, <3>3, <3>4
  <2>4. CASE ~Crossed(rec[p], limit[p])
        BY <1>1, <1>5, <2>1, <2>2, <2>4 DEF Bump
  <2> QED
    BY <2>3, <2>4
<1>6. ASSUME NEW p \in Proc, Unlock(p)
      PROVE  AlertsSingle'
  <2>1. CASE alert[p]
        BY <1>1, <1>6, <2>1 DEF Unlock, Goto
  <2>2. CASE ~alert[p]
        BY <1>1, <1>6, <2>2 DEF Unlock, Goto
  <2> QED
    BY <2>1, <2>2
<1>7. ASSUME NEW p \in Proc, UnlockFails(p)
      PROVE  AlertsSingle'
      BY <1>1, <1>7 DEF UnlockFails, Goto
<1>8. ASSUME NEW p \in Proc, Notify(p)
      PROVE  AlertsSingle'
      BY <1>1, <1>8 DEF Notify, Goto
<1>9. ASSUME NEW p \in Proc, Die(p)
      PROVE  AlertsSingle'
      BY <1>1, <1>9 DEF Die, Goto
<1> QED
    BY <1>2, <1>3, <1>4, <1>5, <1>6, <1>7, <1>8, <1>9 DEF Next, Proceed

-----------------------------------------------------------------------------
(* Theorems.                                                               *)

\* The inductive invariant, where the file is created by one process alone.
THEOREM LimiterInvariant ==
  ASSUME SoloFirstUse
  PROVE  Spec => []LimiterInv
<1>1. LimiterInv /\ [Next]_vars => LimiterInv'
      BY TypesStep, LockStep, CreationStep, RecordStep, CountStep, AlertStep,
         LateStep, MemoStep
         DEF LimiterInv
<1> QED
  BY <1>1, InitInvariant, PTL DEF Spec

\* Every variable keeps its type.
THEOREM TypeCorrect ==
  ASSUME SoloFirstUse
  PROVE  Spec => []TypeOK
BY LimiterInvariant, PTL DEF LimiterInv

\* acquire() never grants more requests on account of a day than maxPerDay,
\* however many processes, restarts and midnights there are.
THEOREM DailyLimitHolds ==
  ASSUME SoloFirstUse
  PROVE  Spec => []DailyLimit
<1>1. LimiterInv => DailyLimit
      BY DEF LimiterInv, Counted
<1> QED
  BY <1>1, LimiterInvariant, PTL

\* At most one request is granted on account of a day that is over.
THEOREM OneLateGrantHolds ==
  ASSUME SoloFirstUse
  PROVE  Spec => []OneLateGrant
<1>1. LimiterInv => OneLateGrant
      BY DEF LimiterInv, LateOnce, OneLateGrant
<1> QED
  BY <1>1, LimiterInvariant, PTL

\* No day's alert is sent twice.
THEOREM AlertOncePerDayHolds ==
  ASSUME SoloFirstUse
  PROVE  Spec => []AlertOncePerDay
<1>1. LimiterInv => AlertOncePerDay
      BY DEF LimiterInv, AlertsSingle, AlertOncePerDay
<1> QED
  BY <1>1, LimiterInvariant, PTL

\* A process that can ask the guard slows down within MemoTime.
LEMMA SlowStep ==
  ASSUME LimiterInv, [Next]_vars, NEW p \in Proc,
         st[p] = "tier", st'[p] = "bump", Fresh(memo'[p])
  PROVE  limit'[p] = HalfLimit \/ higher = Never \/ clock - higher < MemoTime
<1> USE DEF LimiterInv, TypeOK
<1>1. RememberTier(p) \/ AskGuard(p) \/ GuardFails(p)
  <2>1. PICK q \in Proc : Acquire(q) \/ Proceed(q) \/ Die(q)
        BY DEF Next, vars, Tick, HigherTier, ExpireLock
  <2>2. \E s \in Step : st' = [st EXCEPT ![q] = s]
    <3>1. CASE Unlock(q)
          BY <3>1, Zenon DEF Unlock, Goto, Step
    <3>2. CASE ~Unlock(q)
          BY <2>1, <3>2 DEF Proceed, Acquire, EnsureFile, CreateFile, TakeLock,
             GiveUp, ReadRecord, RememberTier, AskGuard, GuardFails, Exceeded,
             Bump, BumpFails, UnlockFails, Notify, Die, Goto, Step
    <3> QED
      BY <3>1, <3>2
  <2>3. q = p
        BY <2>2
  <2> QED
    BY <2>1, <2>3 DEF Proceed, Acquire, EnsureFile, CreateFile, TakeLock,
       GiveUp, ReadRecord, Exceeded, Bump, BumpFails, Unlock, UnlockFails,
       Notify,
       Die, Goto
<1>2. CASE RememberTier(p)
  <2>1. /\ memo[p] \in Memo
        /\ clock - memo[p].at < MemoTime
        /\ limit'[p] = LimitIf(memo[p].value)
        BY <1>2 DEF RememberTier, Fresh
  <2>2. CASE memo[p].value
        BY <2>1, <2>2 DEF LimitIf
  <2>3. CASE ~memo[p].value /\ higher # Never
    <3>1. memo[p].at <= higher
          BY <2>1, <2>3, NoMemoIsNoMemo DEF MemoTrue
    <3> QED
      BY <2>1, <2>3, <3>1, LimiterConstants DEF Memo, LimiterConstants
  <2> QED
    BY <2>2, <2>3
<1>3. CASE AskGuard(p)
      BY <1>3, Zenon DEF AskGuard, LimitIf
<1>4. CASE GuardFails(p)
      BY <1>4 DEF GuardFails
<1> QED
    BY <1>1, <1>2, <1>3, <1>4

THEOREM SlowedDownHolds ==
  ASSUME SoloFirstUse
  PROVE  Spec => SlowedDown
<1>1. LimiterInv /\ [Next]_vars
        => [\A p \in Proc :
              st[p] = "tier" /\ st'[p] = "bump" /\ Fresh(memo'[p])
                => \/ limit'[p] = HalfLimit
                   \/ higher = Never
                   \/ clock - higher < MemoTime]_vars
      BY SlowStep
<1> QED
  BY <1>1, LimiterInvariant, PTL DEF Spec, SlowedDown
=============================================================================
