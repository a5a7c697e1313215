---------------------------- MODULE MCCrawlState ----------------------------
(* Instance of CrawlState for TLC.                                         *)
EXTENDS CrawlState

CONSTANTS p1, p2, c1, c2, page, guide, kofan

MCProcOf == [c \in Caller |-> IF c = c2 THEN p2 ELSE p1]

MCOps ==
    {[name |-> "read"], [name |-> "flush"],
     [name |-> "markCompleted", page |-> page],
     [name |-> "recordFailure", page |-> page],
     [name |-> "setCooldown", source |-> guide, until |-> 1],
     [name |-> "setHealthScore", persona |-> kofan, score |-> 80],
     [name |-> "startSession"],
     [name |-> "incrementRequestCount"],
     [name |-> "endSession"]}
=============================================================================
