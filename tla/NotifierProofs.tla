--------------------------- MODULE NotifierProofs ---------------------------
(***************************************************************************)
(* Proofs about the deduplication of Notifier, for every set of calls,     *)
(* every window, and any number of sends that fail, deaths and restarts:   *)
(* what a process knows of the last time an event was queued, from its own *)
(* memory or from the file, is true, so that no high event is repeated.    *)
(***************************************************************************)
EXTENDS Notifier, TLAPS

Times == [Types -> Nat]

DedupTypes ==
  /\ lastSentAt \in Times /\ lastPush \in Times /\ file \in Times
  /\ \A w \in writes : w.times \in Times
  /\ sure \subseteq Types
  /\ loading \in BOOLEAN
  /\ clock \in Nat /\ clock > 0

\* While the times are still being loaded, the file has those that are sure,
\* and nobody writes it.
FileKnows ==
  /\ life = "off" => writes = {}
  /\ loading /\ sure # {} => writes = {}
  /\ \A e \in sure : lastPush[e] # 0
  /\ loading => \A e \in sure : file[e] = lastPush[e]

\* Once they are loaded, memory has the time, or it is past the window.
MemoryKnows ==
  ~loading => \A e \in sure : \/ lastSentAt[e] = lastPush[e]
                              \/ clock - lastPush[e] >= DEDUP_WINDOW

DedupInv == DedupTypes /\ FileKnows /\ MemoryKnows

-----------------------------------------------------------------------------
LEMMA NeverIsTimes == Never \in Times
BY DEF Never, Times

LEMMA EventOfType == ASSUME NEW n \in Note PROVE EventOf[n] \in Types
BY DEF Types

LEMMA InitDedup == ASSUME Init PROVE DedupInv
BY NeverIsTimes DEF Init, DedupInv, DedupTypes, FileKnows, MemoryKnows

LEMMA DedupStays ==
  ASSUME DedupInv,
         UNCHANGED <<lastSentAt, loading, file, lastPush, sure, clock>>,
         writes' \subseteq writes,
         life' = "off" => writes' = {}
  PROVE  DedupInv'
BY DEF DedupInv, DedupTypes, FileKnows, MemoryKnows

\* The steps that are not about the times.
LEMMA OtherSteps ==
  ASSUME DedupInv,
         UNCHANGED <<dedup, clock, lastPush, sure>>,
         life' = "off" => life = "off"
  PROVE  DedupInv'
<1>1. life' = "off" => writes' = {}
      BY DEF DedupInv, FileKnows, dedup
<1> QED
  BY <1>1, DedupStays DEF dedup

LEMMA PushKnows ==
  ASSUME DedupInv, NEW n \in Note, PushImmediate(n)
  PROVE  DedupInv'
<1> DEFINE e == EventOf[n]
<1>1. /\ life # "off" /\ life' = life
      /\ lastSentAt' = [lastSentAt EXCEPT ![e] = clock]
      /\ lastPush' = [lastPush EXCEPT ![e] = clock]
      /\ writes' = writes \cup {[times |-> lastSentAt', by |-> "push"]}
      /\ sure' = IF loading THEN {} ELSE sure \cup {e}
      /\ UNCHANGED <<loading, file, clock>>
      BY DEF PushImmediate, Alive, bounds
<1>2. e \in Types
      BY EventOfType
<1> HIDE DEF e
<1>3. /\ lastSentAt \in Times /\ lastPush \in Times /\ file \in Times
      /\ sure \subseteq Types /\ loading \in BOOLEAN
      /\ clock \in Nat /\ clock > 0
      BY DEF DedupInv, DedupTypes
<1>4. /\ lastSentAt' \in Times /\ lastPush' \in Times
      /\ lastSentAt'[e] = clock /\ lastPush'[e] = clock
      /\ \A f \in Types \ {e} : /\ lastSentAt'[f] = lastSentAt[f]
                                /\ lastPush'[f] = lastPush[f]
      BY <1>1, <1>2, <1>3 DEF Times
<1>5. \A w \in writes' : w.times \in Times
  <2>1. [times |-> lastSentAt', by |-> "push"].times \in Times
        BY <1>4
  <2>2. \A w \in writes : w.times \in Times
        BY DEF DedupInv, DedupTypes
  <2> QED
    BY <1>1, <2>1, <2>2, Zenon
<1>6. sure' \subseteq Types
      BY <1>1, <1>2, <1>3
<1>7. DedupTypes'
      BY <1>1, <1>3, <1>4, <1>5, <1>6 DEF DedupTypes
<1>8. CASE loading
  BY <1>1, <1>7, <1>8 DEF DedupInv, FileKnows, MemoryKnows
<1>9. CASE ~loading
  <2>1. sure' = sure \cup {e} /\ ~loading'
        BY <1>1, <1>9
  <2>2. ASSUME NEW f \in sure'
        PROVE  /\ lastPush'[f] # 0
               /\ \/ lastSentAt'[f] = lastPush'[f]
                  \/ clock - lastPush'[f] >= DEDUP_WINDOW
    <3>1. CASE f = e
      BY <3>1, <1>3, <1>4
    <3>2. CASE f # e
      <4>1. f \in sure /\ f \in Types \ {e}
            BY <2>1, <3>2, <1>3
      <4>2. /\ lastPush[f] # 0
            /\ \/ lastSentAt[f] = lastPush[f]
               \/ clock - lastPush[f] >= DEDUP_WINDOW
            BY <4>1, <1>9 DEF DedupInv, FileKnows, MemoryKnows
      <4> QED
        BY <4>1, <4>2, <1>4
    <3> QED
      BY <3>1, <3>2
  <2> QED
    BY <2>1, <2>2, <1>1, <1>7 DEF DedupInv, FileKnows, MemoryKnows
<1> QED
  BY <1>3, <1>8, <1>9

LEMMA LoadKnows ==
  ASSUME DedupInv, LoadDedup
  PROVE  DedupInv'
<1>1. /\ loading /\ loading' = FALSE /\ life # "off"
      /\ lastSentAt' = [e \in Types |->
                          IF file[e] > 0 /\ file[e] > clock - DEDUP_RETENTION
                          THEN file[e] ELSE lastSentAt[e]]
      /\ UNCHANGED <<life, writes, file, clock, lastPush, sure>>
      BY DEF LoadDedup, bounds, history, Alive
<1>2. /\ lastSentAt \in Times /\ lastPush \in Times /\ file \in Times
      /\ sure \subseteq Types /\ clock \in Nat
      BY DEF DedupInv, DedupTypes
<1>3. lastSentAt' \in Times
      BY <1>1, <1>2 DEF Times
<1>4. DedupTypes'
      BY <1>1, <1>3 DEF DedupInv, DedupTypes
<1>5. FileKnows'
      BY <1>1 DEF DedupInv, FileKnows
<1>6. ASSUME NEW e \in sure
      PROVE  \/ lastSentAt'[e] = lastPush[e]
             \/ clock - lastPush[e] >= DEDUP_WINDOW
  <2>1. /\ e \in Types /\ file[e] = lastPush[e] /\ lastPush[e] # 0
        /\ lastPush[e] \in Nat
        BY <1>1, <1>2 DEF DedupInv, FileKnows, Times
  <2>2. CASE file[e] > clock - DEDUP_RETENTION
    BY <2>1, <2>2, <1>1
  <2>3. CASE ~(file[e] > clock - DEDUP_RETENTION)
    BY <2>1, <2>3, <1>2, NotifierConstants DEF NotifierConstants
  <2> QED
    BY <2>2, <2>3
<1>7. MemoryKnows'
      BY <1>1, <1>6 DEF MemoryKnows
<1> QED
  BY <1>4, <1>5, <1>7 DEF DedupInv

LEMMA PersistKnows ==
  ASSUME DedupInv, NEW write \in writes, PersistEnds(write)
  PROVE  DedupInv'
<1>1. /\ writes' = writes \ {write} /\ file' \in {write.times, file}
      /\ life' \in {"down", life}
      /\ UNCHANGED <<lastSentAt, loading, clock, lastPush, sure>>
      BY DEF PersistEnds, bounds, history
<1>2. write.times \in Times /\ file \in Times
      BY DEF DedupInv, DedupTypes
<1>3. DedupTypes'
      BY <1>1, <1>2 DEF DedupInv, DedupTypes
<1>4. ~(loading /\ sure # {}) /\ life # "off"
      BY DEF DedupInv, FileKnows
<1>5. FileKnows' /\ MemoryKnows'
      BY <1>1, <1>4 DEF DedupInv, FileKnows, MemoryKnows
<1> QED
  BY <1>3, <1>5 DEF DedupInv

LEMMA LastPersistKnows ==
  ASSUME DedupInv, LastPersist
  PROVE  DedupInv'
<1>1. /\ life' = "persist"
      /\ writes' = writes \cup {[times |-> lastSentAt, by |-> "shutdown"]}
      /\ sure' = IF loading THEN {} ELSE sure
      /\ UNCHANGED <<lastSentAt, loading, file, clock, lastPush>>
      BY DEF LastPersist, bounds
<1>2. DedupTypes'
      BY <1>1 DEF DedupInv, DedupTypes
<1>3. FileKnows' /\ MemoryKnows'
      BY <1>1 DEF DedupInv, FileKnows, MemoryKnows
<1> QED
  BY <1>2, <1>3 DEF DedupInv

LEMMA BootKnows ==
  ASSUME DedupInv, Boots
  PROVE  DedupInv'
<1>1. /\ life = "off" /\ life' = "up" /\ lastSentAt' = Never
      /\ loading' = TRUE
      /\ sure' = {e \in Types : file[e] # 0 /\ file[e] = lastPush[e]}
      /\ UNCHANGED <<writes, file, clock, lastPush>>
      BY DEF Boots
<1>2. DedupTypes'
      BY <1>1, NeverIsTimes DEF DedupInv, DedupTypes
<1>3. FileKnows' /\ MemoryKnows'
      BY <1>1 DEF DedupInv, FileKnows, MemoryKnows
<1> QED
  BY <1>2, <1>3 DEF DedupInv

LEMMA TickKnows ==
  ASSUME DedupInv, Tick
  PROVE  DedupInv'
<1>1. /\ clock' = clock + 1
      /\ UNCHANGED <<life, lastSentAt, loading, writes, file, lastPush, sure>>
      BY DEF Tick, dedup, history
<1>2. DedupTypes'
      BY <1>1 DEF DedupInv, DedupTypes
<1>3. FileKnows'
      BY <1>1 DEF DedupInv, FileKnows
<1>4. ASSUME ~loading, NEW e \in sure,
             clock - lastPush[e] >= DEDUP_WINDOW
      PROVE  clock' - lastPush[e] >= DEDUP_WINDOW
  <2>1. lastPush[e] \in Nat /\ clock \in Nat
        BY DEF DedupInv, DedupTypes, Times
  <2> QED
    BY <2>1, <1>1, <1>4, NotifierConstants DEF NotifierConstants
<1>5. MemoryKnows'
      BY <1>1, <1>4 DEF DedupInv, MemoryKnows
<1> QED
  BY <1>2, <1>3, <1>5 DEF DedupInv

-----------------------------------------------------------------------------
LEMMA NextDedup ==
  ASSUME DedupInv, [Next]_vars
  PROVE  DedupInv'
<1>1. ASSUME NEW n \in Note, Skip(n) \/ PushBatched(n)
      PROVE  DedupInv'
  BY <1>1, OtherSteps DEF Skip, PushBatched, bounds, history
<1>2. ASSUME NEW n \in Note, PushImmediate(n)
      PROVE  DedupInv'
  BY <1>2, PushKnows
<1>3. CASE WorkerTakes \/ WorkerSent \/ WorkerFails \/ WorkerEnds
  BY <1>3, OtherSteps
     DEF WorkerTakes, WorkerSent, WorkerFails, WorkerEnds, bounds, history
<1>4. ASSUME NEW level \in Level, TimerFlush(level)
      PROVE  DedupInv'
  BY <1>4, OtherSteps DEF TimerFlush, bounds
<1>5. ASSUME NEW slot \in Slot, BatchSent(slot) \/ BatchFails(slot)
      PROVE  DedupInv'
  BY <1>5, OtherSteps DEF BatchSent, BatchFails, bounds, history
<1>6. CASE LoadDedup
  BY <1>6, LoadKnows
<1>7. ASSUME NEW write \in writes, PersistEnds(write)
      PROVE  DedupInv'
  BY <1>7, PersistKnows
<1>8. CASE FlushWarn \/ FlushInfo
  BY <1>8, OtherSteps DEF FlushWarn, FlushInfo, LastFlush, bounds
<1>9. CASE LastPersist
  BY <1>9, LastPersistKnows
<1>10. CASE Shutdown
  BY <1>10, OtherSteps DEF Shutdown, bounds, history
<1>11. CASE Dies
  <2>1. /\ writes' = {}
        /\ UNCHANGED <<lastSentAt, loading, file, clock, lastPush, sure>>
        BY <1>11 DEF Dies, bounds, history
  <2> QED
    BY <2>1, DedupStays
<1>12. CASE Boots
  BY <1>12, BootKnows
<1>13. CASE Tick
  BY <1>13, TickKnows
<1>14. CASE UNCHANGED vars
  BY <1>14, OtherSteps DEF vars, bounds, history
<1> QED
  BY <1>1, <1>2, <1>3, <1>4, <1>5, <1>6, <1>7, <1>8, <1>9, <1>10, <1>11,
     <1>12, <1>13, <1>14 DEF Next, Work

LEMMA Invariance == Spec => []DedupInv
BY InitDedup, NextDedup, PTL DEF Spec

-----------------------------------------------------------------------------
\* Settling a set of calls otherwise opens none.
LEMMA SettledIsNotOpen ==
  ASSUME NEW ns, NEW f, f # "open", Settle(ns, f), NEW n \in Note,
         fate[n] = "uncalled"
  PROVE  fate'[n] # "open"
BY DEF Settle

\* A call of notify() is queued by its own push.
LEMMA OpenedByPush ==
  ASSUME [Next]_vars, NEW n \in Note, fate[n] = "uncalled",
         fate'[n] = "open"
  PROVE  PushImmediate(n) \/ PushBatched(n)
<1>1. ASSUME NEW m \in Note, Skip(m)
      PROVE  FALSE
  BY <1>1, SettledIsNotOpen DEF Skip
<1>2. ASSUME NEW m \in Note, PushImmediate(m)
      PROVE  PushImmediate(n)
  <2>1. fate'[n] = IF n = m THEN "open" ELSE fate[n]
        BY <1>2 DEF PushImmediate, Settle
  <2> QED
    BY <1>2, <2>1
<1>3. ASSUME NEW m \in Note, PushBatched(m)
      PROVE  PushBatched(n)
  <2>1. n = m
        BY <1>3 DEF PushBatched
  <2> QED
    BY <1>3, <2>1
<1>4. ~(WorkerSent \/ WorkerFails)
      BY SettledIsNotOpen DEF WorkerSent, WorkerFails
<1>5. \A slot \in Slot : ~BatchSent(slot)
      BY SettledIsNotOpen DEF BatchSent
<1>6. ~Dies
      BY DEF Dies
<1>7. fate' # fate
      OBVIOUS
<1>8. ~(WorkerTakes \/ WorkerEnds \/ LoadDedup \/ LastPersist)
      BY <1>7 DEF WorkerTakes, WorkerEnds, LoadDedup, LastPersist
<1>9. /\ \A level \in Level : ~TimerFlush(level)
      /\ \A slot \in Slot : ~BatchFails(slot)
      /\ \A write \in writes : ~PersistEnds(write)
      BY <1>7 DEF TimerFlush, BatchFails, PersistEnds
<1>10. ~(FlushWarn \/ FlushInfo \/ Shutdown \/ Boots \/ Tick)
      BY <1>7 DEF FlushWarn, FlushInfo, LastFlush, Shutdown, Boots, Tick
<1>11. ~UNCHANGED vars
      BY <1>7 DEF vars
<1> QED
  BY <1>1, <1>2, <1>3, <1>4, <1>5, <1>6, <1>8, <1>9, <1>10, <1>11
     DEF Next, Work

\* Across failed sends, deaths and restarts, no event of high severity is
\* queued within the window of its last time, unless the process did not
\* know that time (Notifier.notify(), loadDedup(), persistDedup()).
THEOREM NoRepeatHolds == Spec => NoRepeat
<1> DEFINE Quiet ==
      \A n \in Note :
        /\ fate[n] = "uncalled" /\ fate'[n] = "open"
        /\ SeverityOf(n) = "high"
        /\ EventOf[n] \in sure /\ ~loading
        => clock - lastPush[EventOf[n]] >= DEDUP_WINDOW
<1>1. ASSUME DedupInv, [Next]_vars
      PROVE  Quiet
  <2> SUFFICES ASSUME NEW n \in Note,
                      fate[n] = "uncalled", fate'[n] = "open",
                      SeverityOf(n) = "high",
                      EventOf[n] \in sure, ~loading
               PROVE  clock - lastPush[EventOf[n]] >= DEDUP_WINDOW
    OBVIOUS
  <2>1. Immediate(n) /\ SeverityOf(n) # "critical"
        BY DEF Immediate
  <2>2. ~Repeated(n)
        BY <1>1, <2>1, OpenedByPush DEF PushImmediate, PushBatched
  <2> DEFINE e == EventOf[n]
  <2>3. \/ lastSentAt[e] = 0
        \/ ~(clock - lastSentAt[e] < DEDUP_WINDOW)
        BY <2>1, <2>2 DEF Repeated
  <2>4. /\ lastPush[e] # 0
        /\ \/ lastSentAt[e] = lastPush[e]
           \/ clock - lastPush[e] >= DEDUP_WINDOW
        BY <1>1 DEF DedupInv, FileKnows, MemoryKnows
  <2>5. e \in Types /\ lastPush[e] \in Nat /\ clock \in Nat
        BY <1>1, EventOfType DEF DedupInv, DedupTypes, Times
  <2> QED
    BY <2>3, <2>4, <2>5, NotifierConstants DEF NotifierConstants
<1>2. ASSUME DedupInv, [Next]_vars
      PROVE  [Quiet]_vars
  BY <1>1, <1>2
<1> QED
  BY <1>2, Invariance, PTL DEF Spec, NoRepeat
=============================================================================
