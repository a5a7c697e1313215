----------------------------- MODULE MCNotifier -----------------------------
(***************************************************************************)
(* Two blocks, which are sent at once, and a warning and the end of a      *)
(* session for the batches, over a queue of one place.                     *)
(***************************************************************************)
EXTENDS Notifier

CONSTANTS b1, b2, w1, i1

MCEventOf == [n \in Note |->
    CASE n \in {b1, b2} -> "block.403"
      [] n = w1         -> "robots.changed"
      [] n = i1         -> "session.end"]
=============================================================================
