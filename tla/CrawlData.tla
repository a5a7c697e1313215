------------------------------ MODULE CrawlData ------------------------------
(***************************************************************************)
(* The content of data/state/crawl.json and the functions by which         *)
(* services/scraper/src/state/crawl-state.ts changes it.                   *)
(*                                                                         *)
(* Times stand for themselves; a page, a source and a persona are opaque.  *)
(* Left out because only the status screen shows them: "phase" and         *)
(* "persona", which startSession() sets with the session, and the error    *)
(* text and cooldownUntil of a failed page.                                *)
(***************************************************************************)
EXTENDS Integers

CONSTANTS
    Page, Source, Persona,
    NoSession,
    Never       \* a source without cooldown, a persona without score

ASSUME NeverIsNoTime == Never \notin Nat

CrawlStateData ==
    [session : Nat \cup {NoSession},        \* the requestCount of the session
     completed : SUBSET Page,
     retries : [Page -> Nat],               \* failedPages; 0: not in it
     cooldowns : [Source -> Nat \cup {Never}],
     health : [Persona -> Nat \cup {Never}]]

EMPTY_STATE ==
    [session |-> NoSession,
     completed |-> {},
     retries |-> [u \in Page |-> 0],
     cooldowns |-> [s \in Source |-> Never],
     health |-> [x \in Persona |-> Never]]

\* The mutators that the methods of CrawlState hand to update().

MarkCompleted(d, u) == [d EXCEPT !.completed = @ \cup {u}]

RecordFailure(d, u) == [d EXCEPT !.retries[u] = @ + 1]

SetCooldown(d, s, until) == [d EXCEPT !.cooldowns[s] = until]

SetHealthScore(d, x, score) == [d EXCEPT !.health[x] = score]

StartSession(d) == [d EXCEPT !.session = 0]

\* Without a session the count stays as it is.
IncrementRequestCount(d) ==
    IF d.session = NoSession THEN d ELSE [d EXCEPT !.session = @ + 1]

\* Variant of EndSession with a bug: it clears more than the session.
EndSessionClearsAll(d) == EMPTY_STATE

EndSession(d) == [d EXCEPT !.session = NoSession]

\* The mutator of a call, a record with the name of the method.
Apply(o, d) ==
    CASE o.name = "markCompleted" -> MarkCompleted(d, o.page)
      [] o.name = "recordFailure" -> RecordFailure(d, o.page)
      [] o.name = "setCooldown" -> SetCooldown(d, o.source, o.until)
      [] o.name = "setHealthScore" -> SetHealthScore(d, o.persona, o.score)
      [] o.name = "startSession" -> StartSession(d)
      [] o.name = "incrementRequestCount" -> IncrementRequestCount(d)
      [] o.name = "endSession" -> EndSession(d)

CoolingDown(d, s, now) == d.cooldowns[s] # Never /\ now < d.cooldowns[s]
=============================================================================
