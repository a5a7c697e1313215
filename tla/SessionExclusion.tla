-------------------------- MODULE SessionExclusion --------------------------
(***************************************************************************)
(* What the crawl scheduler promises, with no file, lock, pid or clock in  *)
(* it: a process is granted a crawl session in one indivisible step, and   *)
(* only when the session conflicts with none that another process holds.   *)
(* ConcurrencyGuard implements this module.                                *)
(*                                                                         *)
(* The conflicts are the first three rules of the guard: two sessions of   *)
(* one source never overlap, and neither do two sessions that use a        *)
(* browser persona, whether it is the same persona (rule 2) or another one *)
(* (rule 3).                                                               *)
(***************************************************************************)
CONSTANTS
    Proc,       \* processes that run crawl sessions
    Requests,   \* what a session may ask for: [source, tier, persona]
    NoReq,      \* "holds no session"
    NoPersona   \* a session without a persona (tier 0)

VARIABLE held   \* held[p]: the session p has been granted, or NoReq

Compatible(r, s) ==
    /\ r.source # s.source
    /\ r.persona = NoPersona \/ s.persona = NoPersona

Init == held = [p \in Proc |-> NoReq]

Grant(p, r) ==
    /\ held[p] = NoReq
    /\ \A q \in Proc : held[q] # NoReq => Compatible(r, held[q])
    /\ held' = [held EXCEPT ![p] = r]

\* The session ended, or its process did.
Drop(p) ==
    /\ held[p] # NoReq
    /\ held' = [held EXCEPT ![p] = NoReq]

Next == \E p \in Proc : Drop(p) \/ \E r \in Requests : Grant(p, r)

Spec == Init /\ [][Next]_held
=============================================================================
