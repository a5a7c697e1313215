----------------------------- MODULE CrawlStore -----------------------------
(***************************************************************************)
(* What CrawlState promises, with no call, await, cache or timer in it: a  *)
(* process has the whole record of the crawl in memory once it has loaded  *)
(* it, changes it one update at a time, and writes copies of it that take  *)
(* time to be saved and may be lost.  One that writes at once saves only   *)
(* what it has in memory at that moment; one that defers its writes, any   *)
(* copy on its way.  CrawlState implements this module.                    *)
(*                                                                         *)
(* Nothing is promised between processes, nor between two copies on their  *)
(* way: the one saved last wins.                                           *)
(***************************************************************************)
EXTENDS CrawlData

CONSTANTS
    Proc,
    Writer,     \* who carries a copy to the store
    Owner,      \* the process a writer belongs to
    Updates,    \* the calls that change the record
    NoData      \* nothing is loaded, or nothing on its way

VARIABLES
    memory,     \* memory[p]: the record as p knows it, or NoData
    deferring,  \* deferring[p]: p does not write with every update
    writing,    \* writing[w]: the copy on its way, or NoData
    saved       \* the record that outlives the processes

vars == <<memory, deferring, writing, saved>>

Init ==
    /\ memory = [p \in Proc |-> NoData]
    /\ deferring \in [Proc -> BOOLEAN]
    /\ writing = [w \in Writer |-> NoData]
    /\ saved = EMPTY_STATE

Load(p) ==
    /\ memory[p] = NoData
    /\ memory' = [memory EXCEPT ![p] = saved]
    /\ UNCHANGED <<deferring, writing, saved>>

\* The writer w sets out with the copy d.
Carry(w, d) ==
    /\ writing[w] = NoData
    /\ writing' = [writing EXCEPT ![w] = d]

Update(p, o) ==
    /\ memory[p] # NoData
    /\ memory' = [memory EXCEPT ![p] = Apply(o, memory[p])]
    /\ \/ deferring[p] /\ UNCHANGED writing
       \/ \E w \in Writer : /\ ~deferring[p]
                            /\ Owner[w] = p
                            /\ Carry(w, Apply(o, memory[p]))
    /\ UNCHANGED <<deferring, saved>>

Write(w) ==
    /\ memory[Owner[w]] # NoData
    /\ Carry(w, memory[Owner[w]])
    /\ UNCHANGED <<memory, deferring, saved>>

Arrive(w) ==
    /\ writing[w] # NoData
    /\ ~deferring[Owner[w]] => writing[w] = memory[Owner[w]]
    /\ saved' = writing[w]
    /\ writing' = [writing EXCEPT ![w] = NoData]
    /\ UNCHANGED <<memory, deferring>>

Lose(w) ==
    /\ writing[w] # NoData
    /\ writing' = [writing EXCEPT ![w] = NoData]
    /\ UNCHANGED <<memory, deferring, saved>>

\* The process is gone, and with it its memory and all it had on its way.
Forget(p) ==
    /\ memory' = [memory EXCEPT ![p] = NoData]
    /\ writing' = [w \in Writer |->
                     IF Owner[w] = p THEN NoData ELSE writing[w]]
    /\ UNCHANGED <<deferring, saved>>

\* A process that starts says whether it will defer its writes.
Choose(p, b) ==
    /\ memory[p] = NoData
    /\ \A w \in Writer : Owner[w] = p => writing[w] = NoData
    /\ deferring' = [deferring EXCEPT ![p] = b]
    /\ UNCHANGED <<memory, writing, saved>>

Next ==
    \/ \E p \in Proc : \/ Load(p)
                       \/ Forget(p)
                       \/ \E o \in Updates : Update(p, o)
                       \/ \E b \in BOOLEAN : Choose(p, b)
    \/ \E w \in Writer : Write(w) \/ Arrive(w) \/ Lose(w)

Spec == Init /\ [][Next]_vars
=============================================================================
