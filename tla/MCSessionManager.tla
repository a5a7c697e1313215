--------------------------- MODULE MCSessionManager ---------------------------
(* Instance of SessionManager for TLC: a source crawled by a browser       *)
(* persona and one crawled at tier 0, by two interchangeable processes.    *)
EXTENDS SessionManager, TLC

CONSTANTS p1, p2, serebii, guide, kofan

MCRequests ==
    {[source |-> guide, tier |-> 1, persona |-> kofan],
     [source |-> serebii, tier |-> 0, persona |-> NoPersona]}

\* Nothing tells the processes apart.
MCSymmetry == Permutations(Proc)
=============================================================================
