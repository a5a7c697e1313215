------------------------- MODULE MCConcurrencyGuard -------------------------
(* Instances of ConcurrencyGuard for TLC.  p1 and p2 share a host; p3 is   *)
(* on another one and happens to have the pid of p1.  The .cfg files take  *)
(* p1 and p2; Proc = {p1, p3} is the instance with two hosts.              *)
EXTENDS ConcurrencyGuard

CONSTANTS p1, p2, p3, h1, h2, n1, n2, serebii, namuwiki, guide, kofan, namufan

MCHostOf == [p \in Proc |-> IF p = p3 THEN h2 ELSE h1]
MCPidOf == [p \in Proc |-> IF p = p2 THEN n2 ELSE n1]

\* One request per tier the repository's sources have: serebii needs no
\* persona, the others are crawled with the persona that owns them.
MCRequests ==
    {[source |-> serebii, tier |-> 0, persona |-> NoPersona],
     [source |-> guide, tier |-> 1, persona |-> kofan],
     [source |-> namuwiki, tier |-> 3, persona |-> namufan]}
=============================================================================
