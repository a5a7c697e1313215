-------------------------- MODULE ConcurrencyGuard --------------------------
(***************************************************************************)
(* services/scraper/src/scheduler/concurrency-guard.ts: the gate every     *)
(* crawl session passes.  Processes that share the directory data/state    *)
(* agree on who is crawling through active-sessions.json, a list of        *)
(* sessions that each call reads, checks and rewrites under a file lock.   *)
(*                                                                         *)
(* A call is the code's sequence of awaits: look whether the file exists,  *)
(* create it if not (before and outside the lock), take the lock, read the *)
(* list and drop the entries of dead processes, do the work of the call,   *)
(* give the lock back.  A process may die at every one of these points.    *)
(* A process runs one call at a time: it boots with reconcileOnBoot and    *)
(* then runs sessions one after the other, as the entry scripts do.        *)
(***************************************************************************)
EXTENDS Integers

CONSTANTS
    Proc,       \* a (host, pid) slot; booting again after death reuses the pid
    Host, Pid,
    HostOf,     \* os.hostname() of a process
    PidOf,      \* process.pid of a process
    Requests,   \* arguments acquire() is called with: [source, tier, persona]
    Source, Persona,
    NoPersona,  \* acquire() without a persona (tier 0)
    NoReq,      \* no session
    NoProc,     \* nobody holds the lock
    Stagger,    \* t0T1StaggerMs, in clock units
    MaxClock,   \* bound of the clock
    SoloFirstBoot  \* TRUE: until the file exists, one process runs at a time

Request == [source : Source, tier : 0..3, persona : Persona \cup {NoPersona}]

\* ActiveSession, without startedAt, which no rule reads.
Entry == [source : Source, tier : 0..3, persona : Persona \cup {NoPersona},
          host : Host, pid : Pid, last : Nat]

ASSUME GuardConstants ==
    /\ HostOf \in [Proc -> Host]
    /\ PidOf \in [Proc -> Pid]
    /\ Requests \subseteq Request
    /\ NoReq \notin Requests
    /\ NoProc \notin Proc
    /\ NoPersona \notin Persona
    /\ Stagger \in Nat
    /\ MaxClock \in Nat
    /\ SoloFirstBoot \in BOOLEAN

\* The processes alive on one host have distinct pids.
ASSUME DistinctPids ==
    \A p, q \in Proc : HostOf[p] = HostOf[q] /\ PidOf[p] = PidOf[q] => p = q

\* resolveTier() maps one source only, serebii, to tier 0.
ASSUME OneTierZeroSource ==
    \A r, s \in Requests : r.tier = 0 /\ s.tier = 0 => r.source = s.source

VARIABLES
    exists,     \* active-sessions.json is on disk
    file,       \* its entries
    lock,       \* the holder of active-sessions.json.lock, or NoProc
    st,         \* where each process stands
    op,         \* the call it is in
    req,        \* the arguments of its acquire()
    snap,       \* the entries it read under the lock
    sess,       \* the session it believes it holds
    clock

vars == <<exists, file, lock, st, op, req, snap, sess, clock>>

Step == {"down", "ready", "access", "create", "lock", "read", "commit",
         "unlock", "running"}
Op == {"none", "boot", "acquire", "release", "list", "touch"}

TypeOK ==
    /\ exists \in BOOLEAN
    /\ file \in SUBSET Entry
    /\ lock \in Proc \cup {NoProc}
    /\ st \in [Proc -> Step]
    /\ op \in [Proc -> Op]
    /\ req \in [Proc -> Requests \cup {NoReq}]
    /\ snap \in [Proc -> SUBSET Entry]
    /\ sess \in [Proc -> Requests \cup {NoReq}]
    /\ clock \in Nat

-----------------------------------------------------------------------------
(* The entries of the file.                                                *)

Up(p) == st[p] # "down"

OwnedBy(e, p) == e.host = HostOf[p] /\ e.pid = PidOf[p]

\* Variant of LooksAlive with a bug: of this host, only the caller is alive.
LooksAliveIfOwn(p, e) == e.host # HostOf[p] \/ e.pid = PidOf[p]

\* isAliveSession() as process p sees it: an entry of another host is kept,
\* one of this host is judged by whether its pid is alive.
LooksAlive(p, e) ==
    \/ e.host # HostOf[p]
    \/ \E q \in Proc : Up(q) /\ HostOf[q] = HostOf[p] /\ PidOf[q] = e.pid

NewEntry(p, r) ==
    [source |-> r.source, tier |-> r.tier, persona |-> r.persona,
     host |-> HostOf[p], pid |-> PidOf[p], last |-> clock]

\* release() and touchLastRequest() match on source and pid, not on host.
Mine(p, e) == e.source = sess[p].source /\ e.pid = PidOf[p]

Touched(p, e) == IF Mine(p, e) THEN [e EXCEPT !.last = clock] ELSE e

-----------------------------------------------------------------------------
(* evaluateRules(): what keeps a request out.                              *)

\* Variant of SameSource with a bug: only sessions of another tier count.
SameSourceOtherTier(r, active) ==
    \E e \in active : e.source = r.source /\ e.tier # r.tier

SameSource(r, active) == \E e \in active : e.source = r.source

SamePersona(r, active) ==
    r.persona # NoPersona /\ \E e \in active : e.persona = r.persona

\* Variant of OtherPersona with a bug: rule 3 repeats the test of rule 2.
OtherPersonaAsSame(r, active) ==
    r.persona # NoPersona /\ \E e \in active : e.persona = r.persona

OtherPersona(r, active) ==
    /\ r.persona # NoPersona
    /\ \E e \in active : e.persona \notin {NoPersona, r.persona}

\* Variant of StaggerTooSoon with a bug: > for >= on the tier.
StaggerTooSoonAboveOne(r, active) ==
    /\ r.tier > 1
    /\ \E e \in active : e.tier = 0 /\ clock - e.last < Stagger

\* At most one entry has tier 0 (OneTierZeroSource and the first rule), so
\* the first one that active.find() returns is the only one.
StaggerTooSoon(r, active) ==
    /\ r.tier >= 1
    /\ \E e \in active : e.tier = 0 /\ clock - e.last < Stagger

Rejected(r, active) ==
    \/ SameSource(r, active)
    \/ SamePersona(r, active)
    \/ OtherPersona(r, active)
    \/ StaggerTooSoon(r, active)

-----------------------------------------------------------------------------
(* Actions.                                                                *)

Init ==
    /\ exists = FALSE
    /\ file = {}
    /\ lock = NoProc
    /\ st = [p \in Proc |-> "down"]
    /\ op = [p \in Proc |-> "none"]
    /\ req = [p \in Proc |-> NoReq]
    /\ snap = [p \in Proc |-> {}]
    /\ sess = [p \in Proc |-> NoReq]
    /\ clock = 0

Goto(p, s) == st' = [st EXCEPT ![p] = s]

\* A call is over: its local variables are gone.
Done(p) ==
    /\ op' = [op EXCEPT ![p] = "none"]
    /\ req' = [req EXCEPT ![p] = NoReq]
    /\ snap' = [snap EXCEPT ![p] = {}]

Tick ==
    /\ clock < MaxClock
    /\ clock' = clock + 1
    /\ UNCHANGED <<exists, file, lock, st, op, req, snap, sess>>

\* The entry script starts: bootstrap() calls reconcileOnBoot().
Boot(p) ==
    /\ st[p] = "down"
    /\ SoloFirstBoot => exists \/ \A q \in Proc : st[q] = "down"
    /\ Goto(p, "access")
    /\ op' = [op EXCEPT ![p] = "boot"]
    /\ UNCHANGED <<exists, file, lock, req, snap, sess, clock>>

\* runSession() calls acquire() once its cooldown checks let it.
CallAcquire(p, r) ==
    /\ st[p] = "ready"
    /\ Goto(p, "access")
    /\ op' = [op EXCEPT ![p] = "acquire"]
    /\ req' = [req EXCEPT ![p] = r]
    /\ UNCHANGED <<exists, file, lock, snap, sess, clock>>

\* From inside a session: its end (release), the rate limiter's look at the
\* active sessions (list), a request just made (touch).
CallFromSession(p, o) ==
    /\ st[p] = "running"
    /\ Goto(p, "access")
    /\ op' = [op EXCEPT ![p] = o]
    /\ UNCHANGED <<exists, file, lock, req, snap, sess, clock>>

\* withLock(): access() says whether the file must be created first.
Access(p) ==
    /\ st[p] = "access"
    /\ Goto(p, IF exists THEN "lock" ELSE "create")
    /\ UNCHANGED <<exists, file, lock, op, req, snap, sess, clock>>

\* atomicWriteJson(statePath, []), outside the lock: whatever the file holds
\* by now is replaced.
CreateFile(p) ==
    /\ st[p] = "create"
    /\ exists' = TRUE
    /\ file' = {}
    /\ Goto(p, "lock")
    /\ UNCHANGED <<lock, op, req, snap, sess, clock>>

\* Variant of LockFree with a bug: a lock held by another does not stop us.
LockAlwaysFree == TRUE

\* A lock is free only while nobody holds it.
LockFree == lock = NoProc

TakeLock(p) ==
    /\ st[p] = "lock"
    /\ LockFree
    /\ lock' = p
    /\ Goto(p, "read")
    /\ UNCHANGED <<exists, file, op, req, snap, sess, clock>>

\* Variants of GiveUpLock with a bug: the error is swallowed and the call goes
\* on without the lock; the retries never run out.
GiveUpLockAndGoOn(p) ==
    /\ st[p] = "lock"
    /\ lock # NoProc
    /\ Goto(p, "read")
    /\ UNCHANGED <<exists, file, lock, op, req, snap, sess, clock>>

NeverGiveUpLock(p) == FALSE

\* The retries run out (about 7.5 s) and lock() throws.  The caller of
\* reconcileOnBoot() exits; runSession() rejects; safeReleaseGuard() swallows
\* the error, and the session is over with its entry still in the file; the
\* rate limiter swallows it too and the session goes on.
GiveUpLock(p) ==
    /\ st[p] = "lock"
    /\ lock # NoProc
    /\ Goto(p, CASE op[p] = "boot" -> "down"
                 [] op[p] \in {"acquire", "release"} -> "ready"
                 [] OTHER -> "running")
    /\ sess' = [sess EXCEPT ![p] = IF op[p] = "release" THEN NoReq ELSE @]
    /\ Done(p)
    /\ UNCHANGED <<exists, file, lock, clock>>

\* readReconciled(): the entries of dead processes leave the file, which is
\* rewritten only then.
ReadReconciled(p) ==
    LET live == {e \in file : LooksAlive(p, e)}
    IN  /\ st[p] = "read"
        /\ file' = live
        /\ snap' = [snap EXCEPT ![p] = live]
        /\ Goto(p, "commit")
        /\ UNCHANGED <<exists, lock, op, req, sess, clock>>

\* acquire(), under the lock: evaluateRules(), then register.
CommitAcquire(p) ==
    /\ st[p] = "commit"
    /\ op[p] = "acquire"
    /\ IF Rejected(req[p], snap[p])
       THEN UNCHANGED <<file, sess>>
       ELSE /\ file' = snap[p] \cup {NewEntry(p, req[p])}
            /\ sess' = [sess EXCEPT ![p] = req[p]]
    /\ Goto(p, "unlock")
    /\ UNCHANGED <<exists, lock, op, req, snap, clock>>

\* Variant of CommitRelease with a bug: the filter is inverted.
CommitReleaseInverted(p) ==
    /\ st[p] = "commit"
    /\ op[p] = "release"
    /\ file' = {e \in snap[p] : Mine(p, e)}
    /\ sess' = [sess EXCEPT ![p] = NoReq]
    /\ Goto(p, "unlock")
    /\ UNCHANGED <<exists, lock, op, req, snap, clock>>

CommitRelease(p) ==
    /\ st[p] = "commit"
    /\ op[p] = "release"
    /\ file' = {e \in snap[p] : ~Mine(p, e)}
    /\ sess' = [sess EXCEPT ![p] = NoReq]
    /\ Goto(p, "unlock")
    /\ UNCHANGED <<exists, lock, op, req, snap, clock>>

CommitTouch(p) ==
    /\ st[p] = "commit"
    /\ op[p] = "touch"
    /\ file' = {Touched(p, e) : e \in snap[p]}
    /\ Goto(p, "unlock")
    /\ UNCHANGED <<exists, lock, op, req, snap, sess, clock>>

\* reconcileOnBoot() reports what it reaped; listActive() returns the list.
CommitRead(p) ==
    /\ st[p] = "commit"
    /\ op[p] \in {"boot", "list"}
    /\ Goto(p, "unlock")
    /\ UNCHANGED <<exists, file, lock, op, req, snap, sess, clock>>

Unlock(p) ==
    /\ st[p] = "unlock"
    /\ lock' = NoProc
    /\ Goto(p, IF sess[p] = NoReq THEN "ready" ELSE "running")
    /\ Done(p)
    /\ UNCHANGED <<exists, file, sess, clock>>

\* SIGKILL, power loss or process.exit(): nothing of the process runs again.
Die(p) ==
    /\ st[p] # "down"
    /\ Goto(p, "down")
    /\ sess' = [sess EXCEPT ![p] = NoReq]
    /\ Done(p)
    /\ UNCHANGED <<exists, file, lock, clock>>

InCritical(p) == st[p] \in {"read", "commit", "unlock"}

\* proper-lockfile: a holder that is alive refreshes the lock's mtime; the
\* lock of a dead one is stale after 10 s, and a process that tries it then
\* removes it.
ExpireLock ==
    /\ lock # NoProc
    /\ ~InCritical(lock)
    /\ \E p \in Proc : st[p] = "lock"
    /\ lock' = NoProc
    /\ UNCHANGED <<exists, file, st, op, req, snap, sess, clock>>

\* The rest of a call that has begun.
Proceed(p) ==
    \/ Access(p)
    \/ CreateFile(p)
    \/ TakeLock(p)
    \/ GiveUpLock(p)
    \/ ReadReconciled(p)
    \/ CommitAcquire(p)
    \/ CommitRelease(p)
    \/ CommitTouch(p)
    \/ CommitRead(p)
    \/ Unlock(p)

Next ==
    \/ Tick
    \/ ExpireLock
    \/ \E p \in Proc :
        \/ Boot(p)
        \/ Die(p)
        \/ Proceed(p)
        \/ \E r \in Requests : CallAcquire(p, r)
        \/ \E o \in {"release", "list", "touch"} : CallFromSession(p, o)

\* A call that has begun goes on unless its process dies: the event loop of a
\* live process runs every awaited step that can run.
Fairness == \A p \in Proc : WF_vars(Proceed(p))

Spec == Init /\ [][Next]_vars

FairSpec == Spec /\ Fairness

-----------------------------------------------------------------------------
(* Properties.                                                             *)

\* Rule 1: two processes never crawl one source at a time, whatever way
\* their calls, their deaths and the creation of the file interleave.
SourceExclusion ==
    \A p, q \in Proc :
        p # q /\ sess[p] # NoReq /\ sess[q] # NoReq
            => sess[p].source # sess[q].source

\* Rules 2 and 3: at most one process at a time crawls with a persona.
PersonaExclusion ==
    \A p, q \in Proc :
        p # q /\ sess[p] # NoReq /\ sess[q] # NoReq
            => sess[p].persona = NoPersona \/ sess[q].persona = NoPersona

\* The entry by which the others see the session of p.
Registered(p, e) ==
    /\ OwnedBy(e, p)
    /\ e.source = sess[p].source
    /\ e.persona = sess[p].persona
    /\ e.tier = sess[p].tier

\* A session in progress stays visible to every process until it ends: no
\* reap, release or rewrite by anyone else takes its entry out of the file.
SessionsRegistered ==
    \A p \in Proc : sess[p] # NoReq => \E e \in file : Registered(p, e)

\* "Keep what is alive, remove only the dead": an entry leaves the file only
\* in its own process's release of that source, or when its process is dead.
RemovalJustified ==
    [][\A e \in file :
        \/ \E f \in file' :
             f.source = e.source /\ f.host = e.host /\ f.pid = e.pid
        \/ \A q \in Proc : OwnedBy(e, q) => ~Up(q)
        \/ \E q \in Proc :
             /\ OwnedBy(e, q)
             /\ sess[q] # NoReq /\ sess[q].source = e.source
             /\ sess'[q] = NoReq
      ]_vars

\* Rule 4, at the moment the session begins and not when the file was read:
\* a session of tier 1 or more is granted only when each tier-0 session in
\* the file recorded its last request at least Stagger ago.
StaggeredGrant ==
    [][\A p \in Proc :
        sess[p] = NoReq /\ sess'[p] # NoReq /\ sess'[p].tier >= 1
            => \A e \in file : e.tier = 0 => clock - e.last >= Stagger
      ]_vars

\* The guard implements the atomic grant of conflict-free sessions.
Exclusion == INSTANCE SessionExclusion WITH held <- sess

ImplementsExclusion == Exclusion!Spec

\* Every call returns or dies with its process: contention and a lock left
\* behind by a dead process delay a call, they never hang it.
CallsReturn ==
    \A p \in Proc : op[p] # "none" ~> op[p] = "none"

-----------------------------------------------------------------------------
(* Why it holds: the inductive invariant (proved in                        *)
(* ConcurrencyGuardProofs), in named parts.                                *)

\* Who is inside the lock holds it.
LockHeld == \A p \in Proc : InCritical(p) => lock = p

\* Where a process stands fits the call it is in and the session it holds.
CallsConsistent ==
    \A p \in Proc :
        /\ st[p] \in {"down", "ready"} => sess[p] = NoReq
        /\ st[p] = "running" => sess[p] # NoReq
        /\ op[p] = "none" <=> st[p] \in {"down", "ready", "running"}
        /\ op[p] = "acquire" => req[p] # NoReq
        /\ op[p] \in {"boot", "acquire"} /\ st[p] # "unlock"
              => sess[p] = NoReq
        /\ op[p] \in {"release", "list", "touch"} /\ st[p] # "unlock"
              => sess[p] # NoReq

\* Until the file exists one process at most is up, and it is still in the
\* first steps of its first call.
CreatedAlone ==
    /\ \A p \in Proc : st[p] = "create" => ~exists
    /\ ~exists =>
        /\ file = {}
        /\ \A p \in Proc : st[p] \in {"down", "access", "create"}
        /\ \A p, q \in Proc : p = q \/ st[p] = "down" \/ st[q] = "down"

\* What a process read under the lock is still what the file holds when it
\* acts on it.
SnapshotFresh == \A p \in Proc : st[p] = "commit" => snap[p] = file

\* The file never lists two sessions that exclude each other.
EntriesExclusive ==
    \A e, f \in file :
        \/ e = f
        \/ /\ e.source # f.source
           /\ e.persona = NoPersona \/ f.persona = NoPersona

GuardInv ==
    /\ TypeOK
    /\ LockHeld
    /\ CallsConsistent
    /\ CreatedAlone
    /\ SnapshotFresh
    /\ EntriesExclusive
    /\ SessionsRegistered

=============================================================================
