---------------------------- MODULE EventDelivery ----------------------------
(***************************************************************************)
(* What Notifier promises of the way of each event, with no timer, worker, *)
(* file, clock or shutdown in it.  An urgent event goes in a message of its *)
(* own, one after the other in the order of the calls, and is never sent   *)
(* twice; only events of some kinds are passed over as repetitions.  The   *)
(* others go with all that wait of their level; they come back together    *)
(* when their message fails, and some of them make room when too many      *)
(* wait.  Everything under way may be lost at once.                        *)
(* Notifier implements this module.                                        *)
(***************************************************************************)
EXTENDS Integers, FiniteSets, Sequences

CONSTANTS
    Note,
    Urgent,     \* the events that are sent one by one
    Repeatable, \* the events that may be passed over as repetitions
    LevelOf,    \* the level of each event
    Bound       \* how many may wait for a batch before some are dropped

VARIABLES
    unseen,     \* events nobody has reported
    line,       \* urgent events that wait, in order
    batched,    \* the others that wait
    messages    \* the sets of events that are on their way

vars == <<unseen, line, batched, messages>>

Init ==
    /\ unseen = Note
    /\ line = <<>>
    /\ batched = {}
    /\ messages = {}

\* The event is passed over, or gets to its queue.
Skip(n) ==
    /\ n \in Repeatable
    /\ unseen' = unseen \ {n}
    /\ UNCHANGED <<line, batched, messages>>

LineUp(n) ==
    /\ n \in Urgent
    /\ unseen' = unseen \ {n}
    /\ line' = Append(line, n)
    /\ UNCHANGED <<batched, messages>>

Collect(n) ==
    /\ n \notin Urgent
    /\ unseen' = unseen \ {n}
    /\ \E kept \in SUBSET batched :
         /\ IF Cardinality(batched) < Bound
            THEN kept = batched
            ELSE Cardinality(kept) = Bound - 1
         /\ batched' = kept \cup {n}
    /\ UNCHANGED <<line, messages>>

SendFirst ==
    /\ line # <<>>
    /\ \A message \in messages : message \cap Urgent = {}
    /\ line' = Tail(line)
    /\ messages' = messages \cup {{Head(line)}}
    /\ UNCHANGED <<unseen, batched>>

SendLevel(level) ==
    LET batch == {n \in batched : LevelOf[n] = level}
    IN  /\ batch # {}
        /\ batched' = batched \ batch
        /\ messages' = messages \cup {batch}
        /\ UNCHANGED <<unseen, line>>

\* A message has arrived, or is given up.
End(message) ==
    /\ messages' = messages \ {message}
    /\ UNCHANGED <<unseen, line, batched>>

Return(message) ==
    /\ message \cap Urgent = {}
    /\ messages' = messages \ {message}
    /\ batched' = batched \cup message
    /\ UNCHANGED <<unseen, line>>

LoseAll ==
    /\ line' = <<>> /\ batched' = {} /\ messages' = {}
    /\ UNCHANGED unseen

Next ==
    \/ \E n \in unseen : Skip(n) \/ LineUp(n) \/ Collect(n)
    \/ SendFirst
    \/ \E n \in batched : SendLevel(LevelOf[n])
    \/ \E message \in messages : End(message) \/ Return(message)
    \/ LoseAll

Spec == Init /\ [][Next]_vars
=============================================================================
