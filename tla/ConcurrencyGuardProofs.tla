----------------------- MODULE ConcurrencyGuardProofs -----------------------
(***************************************************************************)
(* Proofs about ConcurrencyGuard, for every set of processes, hosts, pids  *)
(* and requests, under one assumption on the deployment: SoloFirstBoot,    *)
(* the first process of a fresh data directory has created the file before *)
(* a second one boots.                                                     *)
(*                                                                         *)
(* The argument: GuardInv is inductive.  The file never lists two sessions *)
(* that exclude each other, because acquire() checks a list that is still  *)
(* current when it writes (SnapshotFresh, from LockHeld and CreatedAlone), *)
(* and every session in progress is on the list, because reaping and       *)
(* releasing remove no entry of a live process's session.  Exclusion and   *)
(* the refinement follow.                                                  *)
(***************************************************************************)
EXTENDS ConcurrencyGuard, TLAPS

\* The invariant holds before any process has booted.
LEMMA InitInv == Init => GuardInv
<1> SUFFICES ASSUME Init PROVE GuardInv
    OBVIOUS
<1> USE GuardConstants DEF GuardConstants, Init
<1>1. TypeOK
      BY DEF TypeOK, Step, Op
<1>2. LockHeld /\ CallsConsistent /\ SnapshotFresh
      BY DEF LockHeld, InCritical, CallsConsistent, SnapshotFresh
<1>3. CreatedAlone /\ EntriesExclusive /\ SessionsRegistered
      BY DEF CreatedAlone, EntriesExclusive, SessionsRegistered
<1> QED
  BY <1>1, <1>2, <1>3 DEF GuardInv

\* The clock is in no part of the invariant but TypeOK.
LEMMA TickInv ==
  ASSUME GuardInv, Tick
  PROVE  GuardInv'
<1> USE GuardConstants DEF GuardConstants, GuardInv, Tick
<1>1. TypeOK'
      BY DEF TypeOK
<1>2. LockHeld'
      BY DEF LockHeld, InCritical
<1>3. CallsConsistent'
      BY DEF CallsConsistent
<1>4. CreatedAlone'
      BY DEF CreatedAlone
<1>5. SnapshotFresh'
      BY DEF SnapshotFresh
<1>6. EntriesExclusive'
      BY DEF EntriesExclusive
<1>7. SessionsRegistered'
      BY DEF SessionsRegistered, Registered
<1> QED
  BY <1>1, <1>2, <1>3, <1>4, <1>5, <1>6, <1>7

\* Only the lock of a process that is not inside it expires.
LEMMA ExpireLockInv ==
  ASSUME GuardInv, ExpireLock
  PROVE  GuardInv'
<1> USE GuardConstants DEF GuardConstants, GuardInv, ExpireLock
<1>1. TypeOK'
      BY DEF TypeOK
<1>2. LockHeld'
      BY DEF LockHeld, InCritical
<1>3. CallsConsistent'
      BY DEF CallsConsistent
<1>4. CreatedAlone'
      BY DEF CreatedAlone
<1>5. SnapshotFresh'
      BY DEF SnapshotFresh
<1>6. EntriesExclusive'
      BY DEF EntriesExclusive
<1>7. SessionsRegistered'
      BY DEF SessionsRegistered, Registered
<1> QED
  BY <1>1, <1>2, <1>3, <1>4, <1>5, <1>6, <1>7

\* A booting process holds no session; until the file exists it is alone.
LEMMA BootInv ==
  ASSUME NEW p \in Proc, GuardInv, Boot(p), SoloFirstBoot = TRUE
  PROVE  GuardInv'
<1> USE GuardConstants DEF GuardConstants, GuardInv, Boot, Goto
<1>1. TypeOK'
      BY DEF TypeOK, Step, Op
<1>2. LockHeld'
      BY DEF LockHeld, InCritical
<1>3. CallsConsistent'
      BY DEF TypeOK, CallsConsistent
<1>4. CreatedAlone'
      BY DEF CreatedAlone
<1>5. SnapshotFresh'
      BY DEF SnapshotFresh
<1>6. EntriesExclusive'
      BY DEF EntriesExclusive
<1>7. SessionsRegistered'
      BY DEF SessionsRegistered, Registered
<1> QED
  BY <1>1, <1>2, <1>3, <1>4, <1>5, <1>6, <1>7

\* A dead process holds no session, and its entries exclude as before.
LEMMA DieInv ==
  ASSUME NEW p \in Proc, GuardInv, Die(p)
  PROVE  GuardInv'
<1> USE GuardConstants DEF GuardConstants, GuardInv, Die, Goto, Done
<1>1. TypeOK'
      BY DEF TypeOK, Step, Op
<1>2. LockHeld'
      BY DEF LockHeld, InCritical
<1>3. CallsConsistent'
      BY DEF TypeOK, CallsConsistent
<1>4. CreatedAlone'
      BY DEF CreatedAlone
<1>5. SnapshotFresh'
      BY DEF TypeOK, SnapshotFresh
<1>6. EntriesExclusive'
      BY DEF EntriesExclusive
<1>7. SessionsRegistered'
      BY DEF SessionsRegistered, Registered
<1> QED
  BY <1>1, <1>2, <1>3, <1>4, <1>5, <1>6, <1>7

\* Beginning acquire() touches no shared state.
LEMMA CallAcquireInv ==
  ASSUME NEW p \in Proc, NEW r \in Requests, GuardInv, CallAcquire(p, r)
  PROVE  GuardInv'
<1> USE GuardConstants DEF GuardConstants, GuardInv, CallAcquire, Goto
<1>1. TypeOK'
      BY DEF TypeOK, Step, Op
<1>2. LockHeld'
      BY DEF LockHeld, InCritical
<1>3. CallsConsistent'
      BY DEF TypeOK, CallsConsistent
<1>4. CreatedAlone'
      BY DEF CreatedAlone
<1>5. SnapshotFresh'
      BY DEF SnapshotFresh
<1>6. EntriesExclusive'
      BY DEF EntriesExclusive
<1>7. SessionsRegistered'
      BY DEF SessionsRegistered, Registered
<1> QED
  BY <1>1, <1>2, <1>3, <1>4, <1>5, <1>6, <1>7

\* Beginning a call from inside a session touches no shared state.
LEMMA CallFromSessionInv ==
  ASSUME NEW p \in Proc, NEW o \in {"release", "list", "touch"}, GuardInv,
         CallFromSession(p, o)
  PROVE  GuardInv'
<1> USE GuardConstants DEF GuardConstants, GuardInv, CallFromSession, Goto
<1>1. TypeOK'
      BY DEF TypeOK, Step, Op
<1>2. LockHeld'
      BY DEF LockHeld, InCritical
<1>3. CallsConsistent'
      BY DEF TypeOK, CallsConsistent
<1>4. CreatedAlone'
      BY DEF CreatedAlone
<1>5. SnapshotFresh'
      BY DEF SnapshotFresh
<1>6. EntriesExclusive'
      BY DEF EntriesExclusive
<1>7. SessionsRegistered'
      BY DEF SessionsRegistered, Registered
<1> QED
  BY <1>1, <1>2, <1>3, <1>4, <1>5, <1>6, <1>7

\* Whoever finds no file is alone (CreatedAlone).
LEMMA AccessInv ==
  ASSUME NEW p \in Proc, GuardInv, Access(p)
  PROVE  GuardInv'
<1> USE GuardConstants DEF GuardConstants, GuardInv, Access, Goto
<1>1. TypeOK'
      BY DEF TypeOK, Step
<1>2. LockHeld'
      BY DEF LockHeld, InCritical
<1>3. CallsConsistent'
      BY DEF CallsConsistent
<1>4. CreatedAlone'
      BY DEF CreatedAlone
<1>5. SnapshotFresh'
      BY DEF SnapshotFresh
<1>6. EntriesExclusive'
      BY DEF EntriesExclusive
<1>7. SessionsRegistered'
      BY DEF SessionsRegistered, Registered
<1> QED
  BY <1>1, <1>2, <1>3, <1>4, <1>5, <1>6, <1>7

\* The file that is replaced by [] did not exist: no entry is lost.
LEMMA CreateFileInv ==
  ASSUME NEW p \in Proc, GuardInv, CreateFile(p)
  PROVE  GuardInv'
<1> USE GuardConstants DEF GuardConstants, GuardInv, CreateFile, Goto
<1>1. TypeOK'
      BY DEF TypeOK, Step
<1>2. LockHeld'
      BY DEF LockHeld, InCritical
<1>3. CallsConsistent'
      BY DEF CallsConsistent
<1>4. CreatedAlone'
      BY DEF TypeOK, CreatedAlone
<1>5. SnapshotFresh'
      BY DEF SnapshotFresh, CreatedAlone
<1>6. EntriesExclusive'
      BY DEF EntriesExclusive
<1>7. SessionsRegistered'
      BY DEF SessionsRegistered, CreatedAlone
<1> QED
  BY <1>1, <1>2, <1>3, <1>4, <1>5, <1>6, <1>7

\* Who takes the lock finds nobody inside it (LockHeld).
LEMMA TakeLockInv ==
  ASSUME NEW p \in Proc, GuardInv, TakeLock(p)
  PROVE  GuardInv'
<1> USE GuardConstants DEF GuardConstants, GuardInv, TakeLock, Goto
<1>1. TypeOK'
      BY DEF TypeOK, Step
<1>2. LockHeld'
      BY DEF LockHeld, InCritical, LockFree
<1>3. CallsConsistent'
      BY DEF CallsConsistent
<1>4. CreatedAlone'
      BY DEF CreatedAlone
<1>5. SnapshotFresh'
      BY DEF SnapshotFresh
<1>6. EntriesExclusive'
      BY DEF EntriesExclusive
<1>7. SessionsRegistered'
      BY DEF SessionsRegistered, Registered
<1> QED
  BY <1>1, <1>2, <1>3, <1>4, <1>5, <1>6, <1>7

\* A call that fails to lock changes no entry.
LEMMA GiveUpLockInv ==
  ASSUME NEW p \in Proc, GuardInv, GiveUpLock(p)
  PROVE  GuardInv'
<1> USE GuardConstants DEF GuardConstants, GuardInv, GiveUpLock, Goto, Done
<1>1. TypeOK'
      BY DEF TypeOK, Step, Op
<1>2. LockHeld'
      BY DEF LockHeld, InCritical
<1>3. CallsConsistent'
      BY DEF TypeOK, CallsConsistent, Op
<1>4. CreatedAlone'
      BY DEF CreatedAlone
<1>5. SnapshotFresh'
      BY DEF SnapshotFresh
<1>6. EntriesExclusive'
      BY DEF EntriesExclusive
<1>7. SessionsRegistered'
      BY DEF SessionsRegistered, Registered
<1> QED
  BY <1>1, <1>2, <1>3, <1>4, <1>5, <1>6, <1>7

\* Reaping removes no entry of a session in progress: its process is up.
LEMMA ReadReconciledInv ==
  ASSUME NEW p \in Proc, GuardInv, ReadReconciled(p)
  PROVE  GuardInv'
<1> USE GuardConstants DEF GuardConstants, GuardInv, ReadReconciled, Goto
<1>1. TypeOK'
      BY DEF TypeOK, Step
<1>2. LockHeld'
      BY DEF LockHeld, InCritical
<1>3. CallsConsistent'
      BY DEF CallsConsistent
<1>4. CreatedAlone'
      BY DEF CreatedAlone
<1>5. SnapshotFresh'
      BY DEF TypeOK, SnapshotFresh, LockHeld, InCritical
<1>6. EntriesExclusive'
      BY DEF EntriesExclusive
<1>7. SessionsRegistered'
      BY DEF SessionsRegistered, Registered, OwnedBy, LooksAlive, Up,
         CallsConsistent
<1> QED
  BY <1>1, <1>2, <1>3, <1>4, <1>5, <1>6, <1>7

\* The new entry is compatible with what the file holds at this moment.
LEMMA CommitAcquireInv ==
  ASSUME NEW p \in Proc, GuardInv, CommitAcquire(p)
  PROVE  GuardInv'
<1> USE GuardConstants DEF GuardConstants, GuardInv, CommitAcquire, Goto
<1>1. TypeOK'
  <2>1. req[p] \in Request
        BY DEF TypeOK, CallsConsistent
  <2>2. NewEntry(p, req[p]) \in Entry
        BY <2>1 DEF NewEntry, Entry, Request, TypeOK
  <2>3. file' \in SUBSET Entry
        BY <2>2 DEF TypeOK
  <2> QED
    BY <2>1, <2>3 DEF TypeOK, Step
<1>2. LockHeld'
      BY DEF LockHeld, InCritical
<1>3. CallsConsistent'
      BY DEF TypeOK, CallsConsistent
<1>4. CreatedAlone'
      BY DEF CreatedAlone
<1>5. SnapshotFresh'
      BY DEF TypeOK, SnapshotFresh, LockHeld, InCritical
<1>6. EntriesExclusive'
      BY DEF EntriesExclusive, SnapshotFresh, NewEntry, Rejected, SameSource,
         SamePersona, OtherPersona
<1>7. SessionsRegistered'
  <2> SUFFICES ASSUME NEW q \in Proc, sess'[q] # NoReq
               PROVE  \E e \in file' : Registered(q, e)'
      BY DEF SessionsRegistered
  <2>1. file \subseteq file'
        BY DEF SnapshotFresh
  <2>2. CASE sess'[q] = sess[q]
    <3>1. PICK e \in file : Registered(q, e)
          BY <2>2 DEF SessionsRegistered
    <3> QED
      BY <3>1, <2>1, <2>2 DEF Registered
  <2>3. CASE sess'[q] # sess[q]
    <3>1. q = p /\ sess'[p] = req[p] /\ NewEntry(p, req[p]) \in file'
          BY <2>3 DEF TypeOK
    <3> QED
      BY <3>1 DEF Registered, OwnedBy, NewEntry
  <2> QED
    BY <2>2, <2>3
<1> QED
  BY <1>1, <1>2, <1>3, <1>4, <1>5, <1>6, <1>7

\* Only the caller's own session leaves: a live process of its host has
\* another pid, and an entry of another host has another source.
LEMMA CommitReleaseInv ==
  ASSUME NEW p \in Proc, GuardInv, CommitRelease(p)
  PROVE  GuardInv'
<1> USE GuardConstants DEF GuardConstants, GuardInv, CommitRelease, Goto
<1>1. TypeOK'
      BY DEF TypeOK, Step
<1>2. LockHeld'
      BY DEF LockHeld, InCritical
<1>3. CallsConsistent'
      BY DEF TypeOK, CallsConsistent
<1>4. CreatedAlone'
      BY DEF CreatedAlone
<1>5. SnapshotFresh'
      BY DEF TypeOK, SnapshotFresh, LockHeld, InCritical
<1>6. EntriesExclusive'
      BY DEF EntriesExclusive, SnapshotFresh
<1>7. SessionsRegistered'
      BY DistinctPids DEF TypeOK, SessionsRegistered, Registered, OwnedBy,
         CallsConsistent, SnapshotFresh, Mine, EntriesExclusive
<1> QED
  BY <1>1, <1>2, <1>3, <1>4, <1>5, <1>6, <1>7

\* Touching changes neither the source nor the owner of an entry.
LEMMA CommitTouchInv ==
  ASSUME NEW p \in Proc, GuardInv, CommitTouch(p)
  PROVE  GuardInv'
<1> USE GuardConstants DEF GuardConstants, GuardInv, CommitTouch, Goto
<1>1. TypeOK'
      BY DEF TypeOK, Step, Entry, Touched
<1>2. LockHeld'
      BY DEF LockHeld, InCritical
<1>3. CallsConsistent'
      BY DEF CallsConsistent
<1>4. CreatedAlone'
      BY DEF CreatedAlone
<1>5. SnapshotFresh'
      BY DEF TypeOK, SnapshotFresh, LockHeld, InCritical
<1>6. EntriesExclusive'
  <2>1. file' = {Touched(p, e) : e \in file}
        BY DEF SnapshotFresh
  <2>2. \A e \in file : /\ Touched(p, e).source = e.source
                        /\ Touched(p, e).persona = e.persona
        BY DEF Touched
  <2> SUFFICES ASSUME NEW x \in file', NEW y \in file', x # y
               PROVE  /\ x.source # y.source
                      /\ x.persona = NoPersona \/ y.persona = NoPersona
      BY DEF EntriesExclusive
  <2>3. PICK e \in file : x = Touched(p, e)
        BY <2>1
  <2>4. PICK f \in file : y = Touched(p, f)
        BY <2>1
  <2>5. e.source # f.source /\ (e.persona = NoPersona \/ f.persona = NoPersona)
        BY <2>3, <2>4 DEF EntriesExclusive
  <2> QED
    BY <2>2, <2>3, <2>4, <2>5
<1>7. SessionsRegistered'
  <2> SUFFICES ASSUME NEW q \in Proc, sess'[q] # NoReq
               PROVE  \E e \in file' : Registered(q, e)'
      BY DEF SessionsRegistered
  <2>1. PICK e \in file : Registered(q, e)
        BY DEF SessionsRegistered
  <2>2. PICK f \in file' : f = Touched(p, e)
        BY DEF SnapshotFresh
  <2>3. Registered(q, f)'
        BY <2>1, <2>2 DEF Registered, OwnedBy, Touched
  <2> QED
    BY <2>3
<1> QED
  BY <1>1, <1>2, <1>3, <1>4, <1>5, <1>6, <1>7

\* Reading changes nothing.
LEMMA CommitReadInv ==
  ASSUME NEW p \in Proc, GuardInv, CommitRead(p)
  PROVE  GuardInv'
<1> USE GuardConstants DEF GuardConstants, GuardInv, CommitRead, Goto
<1>1. TypeOK'
      BY DEF TypeOK, Step
<1>2. LockHeld'
      BY DEF LockHeld, InCritical
<1>3. CallsConsistent'
      BY DEF CallsConsistent
<1>4. CreatedAlone'
      BY DEF CreatedAlone
<1>5. SnapshotFresh'
      BY DEF SnapshotFresh
<1>6. EntriesExclusive'
      BY DEF EntriesExclusive
<1>7. SessionsRegistered'
      BY DEF SessionsRegistered, Registered
<1> QED
  BY <1>1, <1>2, <1>3, <1>4, <1>5, <1>6, <1>7

\* Nobody else was inside the lock.
LEMMA UnlockInv ==
  ASSUME NEW p \in Proc, GuardInv, Unlock(p)
  PROVE  GuardInv'
<1> USE GuardConstants DEF GuardConstants, GuardInv, Unlock, Goto, Done
<1>1. TypeOK'
      BY DEF TypeOK, Step, Op
<1>2. LockHeld'
      BY DEF TypeOK, LockHeld, InCritical
<1>3. CallsConsistent'
      BY DEF TypeOK, CallsConsistent
<1>4. CreatedAlone'
      BY DEF CreatedAlone
<1>5. SnapshotFresh'
      BY DEF SnapshotFresh
<1>6. EntriesExclusive'
      BY DEF EntriesExclusive
<1>7. SessionsRegistered'
      BY DEF SessionsRegistered, Registered
<1> QED
  BY <1>1, <1>2, <1>3, <1>4, <1>5, <1>6, <1>7

\* Every step preserves the invariant: one case per action.
LEMMA NextInv ==
  ASSUME SoloFirstBoot = TRUE, GuardInv, [Next]_vars
  PROVE  GuardInv'
<1>1. CASE Tick
      BY <1>1, TickInv
<1>2. CASE ExpireLock
      BY <1>2, ExpireLockInv
<1>3. ASSUME NEW p \in Proc, Boot(p) \/ Die(p)
      PROVE  GuardInv'
      BY <1>3, BootInv, DieInv
<1>4. ASSUME NEW p \in Proc, NEW r \in Requests, CallAcquire(p, r)
      PROVE  GuardInv'
      BY <1>4, CallAcquireInv
<1>5. ASSUME NEW p \in Proc, NEW o \in {"release", "list", "touch"},
             CallFromSession(p, o)
      PROVE  GuardInv'
      BY <1>5, CallFromSessionInv
<1>6. ASSUME NEW p \in Proc, Proceed(p)
      PROVE  GuardInv'
      BY <1>6, AccessInv, CreateFileInv, TakeLockInv, GiveUpLockInv,
         ReadReconciledInv, CommitAcquireInv, CommitReleaseInv,
         CommitTouchInv, CommitReadInv, UnlockInv
         DEF Proceed
<1>7. CASE UNCHANGED vars
  <2> USE <1>7 DEF vars, GuardInv
  <2>1. TypeOK' /\ LockHeld'
        BY DEF TypeOK, LockHeld, InCritical
  <2>2. CallsConsistent' /\ CreatedAlone'
        BY DEF CallsConsistent, CreatedAlone
  <2>3. SnapshotFresh' /\ EntriesExclusive' /\ SessionsRegistered'
        BY DEF SnapshotFresh, EntriesExclusive, SessionsRegistered, Registered,
           OwnedBy
  <2> QED
    BY <2>1, <2>2, <2>3
<1> QED
  BY <1>1, <1>2, <1>3, <1>4, <1>5, <1>6, <1>7 DEF Next

-----------------------------------------------------------------------------
(* The theorems.                                                           *)

\* In a data directory whose first process boots alone, every reachable state
\* of acquire(), release(), touchLastRequest(), listActive() and
\* reconcileOnBoot() in any number of processes satisfies GuardInv: its types,
\* the lock, the freshness of what is read under it and the exclusiveness of
\* the entries.
THEOREM GuardInvariant ==
  ASSUME SoloFirstBoot = TRUE
  PROVE  Spec => []GuardInv
<1>1. Init => GuardInv
      BY InitInv
<1>2. GuardInv /\ [Next]_vars => GuardInv'
      BY NextInv
<1> QED
  BY <1>1, <1>2, PTL DEF Spec

\* Every variable keeps its type: in particular the file is always a list of
\* well-formed entries.
THEOREM TypeCorrect ==
  ASSUME SoloFirstBoot = TRUE
  PROVE  Spec => []TypeOK
<1>1. GuardInv => TypeOK
      BY DEF GuardInv
<1> QED
  BY <1>1, GuardInvariant, PTL

\* No reap, release or rewrite ever takes the entry of a session in progress
\* out of the file.
THEOREM SessionsStayRegistered ==
  ASSUME SoloFirstBoot = TRUE
  PROVE  Spec => []SessionsRegistered
<1>1. GuardInv => SessionsRegistered
      BY DEF GuardInv
<1> QED
  BY <1>1, GuardInvariant, PTL

\* Two sessions in progress have two entries, so what holds of entries holds
\* of sessions.
LEMMA SessionsExclusive ==
  ASSUME GuardInv
  PROVE  SourceExclusion /\ PersonaExclusion
<1> SUFFICES ASSUME NEW p \in Proc, NEW q \in Proc,
                    p # q, sess[p] # NoReq, sess[q] # NoReq
             PROVE  /\ sess[p].source # sess[q].source
                    /\ \/ sess[p].persona = NoPersona
                       \/ sess[q].persona = NoPersona
    BY DEF SourceExclusion, PersonaExclusion
<1>1. PICK e \in file : Registered(p, e)
      BY DEF GuardInv, SessionsRegistered
<1>2. PICK f \in file : Registered(q, f)
      BY DEF GuardInv, SessionsRegistered
<1>3. e # f
      BY <1>1, <1>2, DistinctPids DEF Registered, OwnedBy
<1> QED
  BY <1>1, <1>2, <1>3 DEF GuardInv, EntriesExclusive, Registered

\* Rule 1 (ConcurrencyGuard.acquire): one source is never crawled by two
\* processes at a time, whatever dies and whoever reaps.
THEOREM SourceExclusionHolds ==
  ASSUME SoloFirstBoot = TRUE
  PROVE  Spec => []SourceExclusion
BY GuardInvariant, SessionsExclusive, PTL

\* Rules 2 and 3: at most one process at a time crawls with a persona.
THEOREM PersonaExclusionHolds ==
  ASSUME SoloFirstBoot = TRUE
  PROVE  Spec => []PersonaExclusion
BY GuardInvariant, SessionsExclusive, PTL

\* Who holds a session and where: only CommitAcquire grants one, and every
\* other step leaves each session alone or ends it.
LEMMA SessionSteps ==
  ASSUME GuardInv, [Next]_vars
  PROVE  \/ \E p \in Proc :
              /\ CommitAcquire(p)
              /\ ~Rejected(req[p], snap[p])
         \/ sess' = sess
         \/ \E p \in Proc : /\ sess[p] # NoReq
                            /\ sess' = [sess EXCEPT ![p] = NoReq]
<1> USE DEF GuardInv
<1>1. CASE Tick \/ ExpireLock \/ UNCHANGED vars
      BY <1>1 DEF Tick, ExpireLock, vars
<1>2. ASSUME NEW p \in Proc, Boot(p)
      PROVE  sess' = sess
      BY <1>2 DEF Boot
<1>3. ASSUME NEW p \in Proc, NEW r \in Requests, CallAcquire(p, r)
      PROVE  sess' = sess
      BY <1>3 DEF CallAcquire
<1>4. ASSUME NEW p \in Proc, NEW o \in {"release", "list", "touch"},
             CallFromSession(p, o)
      PROVE  sess' = sess
      BY <1>4 DEF CallFromSession
<1>5. ASSUME NEW p \in Proc, Die(p) \/ GiveUpLock(p) \/ CommitRelease(p)
      PROVE  \/ sess' = sess
             \/ sess[p] # NoReq /\ sess' = [sess EXCEPT ![p] = NoReq]
      BY <1>5 DEF Die, GiveUpLock, CommitRelease, TypeOK
<1>6. ASSUME NEW p \in Proc, CommitAcquire(p)
      PROVE  \/ sess' = sess
             \/ CommitAcquire(p) /\ ~Rejected(req[p], snap[p])
      BY <1>6 DEF CommitAcquire
<1>7. ASSUME NEW p \in Proc,
             \/ Access(p) \/ CreateFile(p) \/ TakeLock(p)
             \/ ReadReconciled(p) \/ CommitTouch(p) \/ CommitRead(p)
             \/ Unlock(p)
      PROVE  sess' = sess
      BY <1>7 DEF Access, CreateFile, TakeLock, ReadReconciled, CommitTouch,
         CommitRead, Unlock
<1> QED
  BY <1>1, <1>2, <1>3, <1>4, <1>5, <1>6, <1>7 DEF Next, Proceed

\* The session that is granted conflicts with none in progress.
LEMMA GrantStep ==
  ASSUME NEW p \in Proc, GuardInv, CommitAcquire(p), ~Rejected(req[p], snap[p])
  PROVE  Exclusion!Grant(p, req[p]) /\ req[p] \in Requests
<1> USE DEF GuardInv
<1>1. sess[p] = NoReq /\ req[p] \in Requests
      BY DEF CommitAcquire, CallsConsistent, TypeOK
<1>2. ASSUME NEW q \in Proc, sess[q] # NoReq
      PROVE  Exclusion!Compatible(req[p], sess[q])
  <2>1. PICK e \in file : Registered(q, e)
        BY <1>2 DEF SessionsRegistered
  <2>2. snap[p] = file
        BY DEF CommitAcquire, SnapshotFresh
  <2> QED
    BY <2>1, <2>2 DEF Exclusion!Compatible, Registered, Rejected, SameSource,
       SamePersona, OtherPersona
<1>3. sess' = [sess EXCEPT ![p] = req[p]]
      BY DEF CommitAcquire
<1> QED
  BY <1>1, <1>2, <1>3 DEF Exclusion!Grant

\* The guard implements the atomic grant of SessionExclusion: seen from
\* outside, its awaits, its lock, its deaths and its reaps amount to granting
\* a session that conflicts with none, and to dropping one.
THEOREM GuardImplementsExclusion ==
  ASSUME SoloFirstBoot = TRUE
  PROVE  Spec => ImplementsExclusion
<1>1. Init => Exclusion!Init
      BY DEF Init, Exclusion!Init
<1>2. GuardInv /\ [Next]_vars => [Exclusion!Next]_sess
  <2> SUFFICES ASSUME GuardInv, [Next]_vars
               PROVE  Exclusion!Next \/ sess' = sess
      OBVIOUS
  <2>1. ASSUME NEW p \in Proc, CommitAcquire(p), ~Rejected(req[p], snap[p])
        PROVE  Exclusion!Next
        BY <2>1, GrantStep DEF Exclusion!Next
  <2>2. ASSUME NEW p \in Proc, sess[p] # NoReq,
               sess' = [sess EXCEPT ![p] = NoReq]
        PROVE  Exclusion!Next
        BY <2>2 DEF Exclusion!Next, Exclusion!Drop
  <2> QED
    BY <2>1, <2>2, SessionSteps
<1> QED
  BY <1>1, <1>2, GuardInvariant, PTL
     DEF Spec, ImplementsExclusion, Exclusion!Spec

\* Rule 4 when the session begins: the tier-0 entry it was checked against is
\* the one that is in the file when the session is granted.
THEOREM StaggeredGrantHolds ==
  ASSUME SoloFirstBoot = TRUE
  PROVE  Spec => StaggeredGrant
<1> DEFINE Staggered(p) ==
      sess[p] = NoReq /\ sess'[p] # NoReq /\ sess'[p].tier >= 1
          => \A e \in file : e.tier = 0 => clock - e.last >= Stagger
<1>1. ASSUME GuardInv, [Next]_vars, NEW p \in Proc
      PROVE  Staggered(p)
  <2>1. ASSUME NEW q \in Proc, CommitAcquire(q), ~Rejected(req[q], snap[q])
        PROVE  Staggered(p)
    <3> SUFFICES ASSUME sess[p] = NoReq, sess'[p] # NoReq, sess'[p].tier >= 1,
                        NEW e \in file, e.tier = 0
                 PROVE  clock - e.last >= Stagger
        OBVIOUS
    <3>1. p = q /\ sess'[p] = req[p]
          BY <2>1, <1>1 DEF CommitAcquire, GuardInv, TypeOK
    <3>2. snap[q] = file
          BY <2>1, <1>1 DEF CommitAcquire, GuardInv, SnapshotFresh
    <3>3. ~(clock - e.last < Stagger)
          BY <2>1, <3>1, <3>2 DEF Rejected, StaggerTooSoon
    <3>4. clock \in Nat /\ e.last \in Nat /\ Stagger \in Nat
          BY <1>1, GuardConstants DEF GuardConstants, GuardInv, TypeOK, Entry
    <3> QED
      BY <3>3, <3>4
  <2>2. CASE sess' = sess
        BY <2>2
  <2>3. ASSUME NEW q \in Proc, sess' = [sess EXCEPT ![q] = NoReq]
        PROVE  Staggered(p)
        BY <2>3, <1>1 DEF GuardInv, TypeOK
  <2> QED
    BY <1>1, <2>1, <2>2, <2>3, SessionSteps
<1>2. GuardInv /\ [Next]_vars => [\A p \in Proc : Staggered(p)]_vars
      BY <1>1
<1> QED
  BY <1>2, GuardInvariant, PTL DEF Spec, StaggeredGrant

\* Every step that rewrites the file keeps an entry of each owner and source
\* it finds there, unless the owner is dead or this is its own release.
LEMMA RemovalStep ==
  ASSUME GuardInv, [Next]_vars, NEW e \in file
  PROVE  \/ \E f \in file' :
              f.source = e.source /\ f.host = e.host /\ f.pid = e.pid
         \/ \A q \in Proc : OwnedBy(e, q) => ~Up(q)
         \/ \E q \in Proc :
              /\ OwnedBy(e, q)
              /\ sess[q] # NoReq /\ sess[q].source = e.source
              /\ sess'[q] = NoReq
<1> USE DEF GuardInv
<1>1. CASE file' = file
      BY <1>1
<1>2. ASSUME NEW p \in Proc, CreateFile(p)
      PROVE  FALSE
      BY <1>2 DEF CreateFile, CreatedAlone
<1>3. ASSUME NEW p \in Proc, ReadReconciled(p), e \notin file'
      PROVE  \A q \in Proc : OwnedBy(e, q) => ~Up(q)
      BY <1>3 DEF ReadReconciled, LooksAlive, OwnedBy
<1>4. ASSUME NEW p \in Proc, CommitAcquire(p)
      PROVE  e \in file'
      BY <1>4 DEF CommitAcquire, SnapshotFresh
<1>5. ASSUME NEW p \in Proc, CommitRelease(p), e \notin file'
      PROVE  OwnedBy(e, p) /\ sess[p] # NoReq /\ sess[p].source = e.source
             /\ sess'[p] = NoReq
  <2>1. Mine(p, e)
        BY <1>5 DEF CommitRelease, SnapshotFresh
  <2>2. sess[p] # NoReq /\ sess'[p] = NoReq
        BY <1>5 DEF CommitRelease, CallsConsistent, TypeOK
  <2>3. PICK f \in file : Registered(p, f)
        BY <2>2 DEF SessionsRegistered
  <2>4. e = f
        BY <2>1, <2>3 DEF Mine, Registered, EntriesExclusive
  <2> QED
    BY <2>1, <2>2, <2>3, <2>4 DEF Mine, Registered
<1>6. ASSUME NEW p \in Proc, CommitTouch(p)
      PROVE  \E f \in file' :
               f.source = e.source /\ f.host = e.host /\ f.pid = e.pid
  <2>1. Touched(p, e) \in file'
        BY <1>6 DEF CommitTouch, SnapshotFresh
  <2>2. /\ Touched(p, e).source = e.source
        /\ Touched(p, e).host = e.host
        /\ Touched(p, e).pid = e.pid
        BY DEF Touched
  <2> QED
    BY <2>1, <2>2
<1>7. \/ file' = file
      \/ \E p \in Proc : \/ CreateFile(p) \/ ReadReconciled(p)
                         \/ CommitAcquire(p) \/ CommitRelease(p)
                         \/ CommitTouch(p)
      BY DEF Next, Proceed, Tick, ExpireLock, Boot, Die, CallAcquire,
         CallFromSession, Access, TakeLock, GiveUpLock, CommitRead, Unlock, vars
<1> QED
  BY <1>1, <1>2, <1>3, <1>4, <1>5, <1>6, <1>7

\* Reaping removes only the dead and release() only its own session: a live
\* process never loses its entry to another one, not even when a process of
\* another host has the same pid.
THEOREM RemovalJustifiedHolds ==
  ASSUME SoloFirstBoot = TRUE
  PROVE  Spec => RemovalJustified
<1> DEFINE Kept ==
      \A e \in file :
        \/ \E f \in file' :
             f.source = e.source /\ f.host = e.host /\ f.pid = e.pid
        \/ \A q \in Proc : OwnedBy(e, q) => ~Up(q)
        \/ \E q \in Proc :
             /\ OwnedBy(e, q)
             /\ sess[q] # NoReq /\ sess[q].source = e.source
             /\ sess'[q] = NoReq
<1>1. GuardInv /\ [Next]_vars => [Kept]_vars
      BY RemovalStep
<1> QED
  BY <1>1, GuardInvariant, PTL DEF Spec, RemovalJustified

=============================================================================
