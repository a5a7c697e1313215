--------------------------- MODULE ScrapeCliProofs ---------------------------
(***************************************************************************)
(* Proofs about ScrapeCli, for every document, page, job and schedule:     *)
(* what the operations of the database do to a table, that a run writes    *)
(* one row at a time and only when it loads, and what its exit code tells. *)
(* They ask nothing of the parsers and of what the loaders plan.           *)
(***************************************************************************)
EXTENDS ScrapeCli, SequenceTheorems, TLAPS

-----------------------------------------------------------------------------
(* The operations of the database.                                         *)

\* An upsert or an update leaves every other row of its table as it was.
LEMMA WrittenRow ==
  ASSUME NEW o, NEW rows
  PROVE  /\ DOMAIN rows \subseteq DOMAIN L!Written(o, rows)
         /\ \A s \in DOMAIN L!Written(o, rows) :
              \/ s = o.slug
              \/ s \in DOMAIN rows /\ L!Written(o, rows)[s] = rows[s]
<1>1. CASE L!Skips(o, rows)
      BY <1>1 DEF L!Written
<1>2. CASE ~L!Skips(o, rows)
  <2>1. PICK row : L!Written(o, rows) = L!With(rows, o.slug, row)
        BY <1>2 DEF L!Written
  <2> QED
    BY <2>1 DEF L!With
<1> QED
  BY <1>1, <1>2

\* The row that an upsert writes.
LEMMA UpsertRow ==
  ASSUME NEW o, NEW rows, o.op = "upsert", ~L!Skips(o, rows)
  PROVE  L!Written(o, rows)
           = L!With(rows, o.slug, [data |-> o.data, hash |-> o.data])
BY DEF L!Written

\* An upsert that is repeated finds its row unchanged and writes nothing, also
\* when a run before wrote it and was killed: loads can be tried again
\* (upsertBySourceSlug, contentHash).
THEOREM RepeatedUpsertSkips ==
  ASSUME NEW o, NEW rows, o.op = "upsert", o.by # "never"
  PROVE  /\ L!Skips(o, L!Written(o, rows))
         /\ ~L!Refused(o, L!Written(o, rows))
         /\ L!Written(o, L!Written(o, rows)) = L!Written(o, rows)
<1> DEFINE new == L!Written(o, rows)
<1>1. L!Skips(o, new)
  <2>1. CASE L!Skips(o, rows)
        BY <2>1 DEF L!Written
  <2>2. CASE ~L!Skips(o, rows)
    <3>1. new = L!With(rows, o.slug, [data |-> o.data, hash |-> o.data])
          BY <2>2, UpsertRow
    <3>2. /\ o.slug \in DOMAIN new
          /\ new[o.slug] = [data |-> o.data, hash |-> o.data]
          BY <3>1 DEF L!With
    <3>3. L!Unchanged(o, new[o.slug])
      <4>1. /\ new[o.slug].hash = o.data
            /\ new[o.slug].data = o.data
            BY <3>2
      <4>2. CASE o.by = "hash"
            BY <4>1, <4>2 DEF L!Unchanged
      <4>3. CASE o.by # "hash"
            BY <4>1, <4>3 DEF L!Unchanged
      <4> HIDE DEF new
      <4> QED
        BY <4>2, <4>3
    <3> QED
      BY <3>2, <3>3 DEF L!Skips
  <2> QED
    BY <2>1, <2>2
<1>2. ~L!Refused(o, new)
      BY <1>1 DEF L!Refused
<1>3. L!Written(o, new) = new
      BY <1>1 DEF L!Written
<1> QED
  BY <1>1, <1>2, <1>3

-----------------------------------------------------------------------------
(* The run.                                                                *)

Stages == {"idle", "fetch", "isolate", "lookup", "first", "second"}

\* Before the lookups nothing is planned, tried or half done.
Fresh == pc \in {"fetch", "isolate", "lookup"}
           => plan = <<>> /\ failures = <<>> /\ ~cleared

\* Only a load gets as far as its operations, with a page that was read.
Loading == /\ pc \in {"lookup", "first", "second"} =>
                ~job.dryRun /\ job.page \in LoaderPages
           /\ pc \in {"isolate", "lookup", "first", "second"} =>
                job.useFixture

\* A replace that is half done is the next operation.
HalfDone == cleared => plan # <<>> /\ Head(plan).op = "replace"

\* The failures are a sequence, of whatever slugs the loaders give.
Listed == \E slugs : failures \in Seq(slugs)

\* A fault that a run survives is among its failures.
Noted == /\ faults \in Nat /\ prev.faults \in Nat
         /\ prev.faults <= faults
         /\ pc # "idle" /\ faults # prev.faults => failures # <<>>

RunInv ==
  /\ pc \in Stages
  /\ exit # Nil => pc = "idle"
  /\ DOMAIN db = L!Tables
  /\ Fresh
  /\ Loading
  /\ HalfDone
  /\ Listed
  /\ Noted
  /\ ExitTells

LEMMA ExitCodes == Nil \notin {0, 1, 2}
BY DEF Nil

LEMMA InitRun == ASSUME Init PROVE RunInv
<1>1. failures \in Seq({})
      BY DEF Init
<1> QED
  BY <1>1 DEF Init, RunInv, Stages, Fresh, Loading, HalfDone, Listed, Noted,
              ExitTells, L!EmptyDatabase

\* A failure more: the failures are not empty.
LEMMA FailureNoted ==
  ASSUME Listed, NEW slug, failures' = Append(failures, slug)
  PROVE  Listed' /\ failures' # <<>>
<1>1. PICK slugs : failures \in Seq(slugs)
      BY DEF Listed
<1>2. failures \in Seq(slugs \cup {slug})
      BY <1>1, SeqMonotonic
<1>3. Append(failures, slug) \in Seq(slugs \cup {slug})
      BY <1>2
<1>4. Len(Append(failures, slug)) = Len(failures) + 1
      BY <1>2
<1>5. Append(failures, slug) # <<>>
      BY <1>2, <1>4, LenProperties, EmptySeq
<1> QED
  BY <1>3, <1>5 DEF Listed

LEMMA RunStepKeeps ==
  ASSUME RunInv, [Next]_vars
  PROVE  RunInv'
<1> USE DEF RunInv, Stages, Fresh, Loading, HalfDone, Noted, ExitTells,
            Hopeless
<1>1. CASE Start
  <2>1. Listed'
    <3>1. failures' \in Seq({})
          BY <1>1 DEF Start
    <3> QED
      BY <3>1 DEF Listed
  <2> QED
    BY <1>1, <2>1, ExitCodes DEF Start, Exit
<1>2. CASE FetchAndParse
      BY <1>2, ExitCodes DEF FetchAndParse, Listed
<1>3. CASE FixtureFails
      BY <1>3, ExitCodes DEF FixtureFails, Fault, Exit, run, Listed
<1>4. CASE LiveFetchFails
      BY <1>4, ExitCodes DEF LiveFetchFails, Exit, run, Listed
<1>5. CASE Isolate
      BY <1>5, ExitCodes DEF Isolate, Exit, Listed
<1>6. CASE IsolateFails
      BY <1>6, ExitCodes DEF IsolateFails, Fault, Exit, Listed
<1>7. CASE Lookup
      BY <1>7, ExitCodes DEF Lookup, Listed
<1>8. CASE LookupAgain
      BY <1>8, ExitCodes DEF LookupAgain, Listed
<1>9. CASE LookupFails
      BY <1>9, ExitCodes DEF LookupFails, Fault, Exit, run, Listed
<1>10. CASE GiveUp
      BY <1>10, FailureNoted DEF GiveUp, AtOp, KeepsRun
<1>11. CASE WriteRow
  <2>1. Listed' /\ (failures # <<>> => failures' # <<>>)
    <3>1. CASE UNCHANGED failures
          BY <3>1 DEF Listed
    <3>2. CASE failures' = Append(failures, Head(plan).slug)
          BY <3>2, FailureNoted
    <3> QED
      BY <1>11, <3>1, <3>2 DEF WriteRow
  <2> QED
    BY <1>11, <2>1 DEF WriteRow, AtOp, KeepsRun
<1>12. CASE DeleteChildren
      BY <1>12 DEF DeleteChildren, AtOp, KeepsRun, Listed
<1>13. CASE CreateChildren
      BY <1>13 DEF CreateChildren, AtOp, KeepsRun, Listed
<1>14. CASE OpFails
      BY <1>14, FailureNoted DEF OpFails, AtOp, KeepsRun, Fault
<1>15. CASE Report
      BY <1>15, ExitCodes DEF Report, Exit, Listed
<1>16. CASE ReportFails
      BY <1>16, ExitCodes DEF ReportFails, Fault, Exit, Listed
<1>17. CASE Crash
      BY <1>17, ExitCodes DEF Crash, Fault, Exit, run, Listed
<1>18. CASE UNCHANGED vars
      BY <1>18 DEF vars, Listed
<1> QED
  BY <1>1, <1>2, <1>3, <1>4, <1>5, <1>6, <1>7, <1>8, <1>9, <1>10, <1>11,
     <1>12, <1>13, <1>14, <1>15, <1>16, <1>17, <1>18
     DEF Next, RunStep

LEMMA RunInvariant == Spec => []RunInv
<1>1. RunInv /\ [Next]_vars => RunInv'
      BY RunStepKeeps
<1> QED
  BY <1>1, InitRun, PTL DEF Spec

\* The exit code tells how a run went, whatever its page and document and
\* whatever its loader plans, also after a run that was killed or whose accesses
\* failed: no exit leaves an operation or half a replace, a fault is never
\* swallowed, and 1 has a fault or the arguments as its reason (main of
\* index.ts).
THEOREM ExitTellsHolds == Spec => []ExitTells
<1>1. RunInv => ExitTells
      BY DEF RunInv
<1> QED
  BY <1>1, RunInvariant, PTL

\* A step that writes an operation's row into its table.
LEMMA RowStep ==
  ASSUME RunInv, AtOp({"upsert", "patch", "replace"}), NEW new,
         db' = [db EXCEPT ![Head(plan).table] = new],
         Head(plan).table \in L!Tables =>
           /\ DOMAIN db[Head(plan).table] \subseteq DOMAIN new
           /\ \A s \in DOMAIN new :
                \/ s = Head(plan).slug
                \/ /\ s \in DOMAIN db[Head(plan).table]
                   /\ new[s] = db[Head(plan).table][s]
  PROVE  /\ ~job.dryRun /\ job.useFixture /\ job.page \in LoaderPages
         /\ \A t \in L!Tables :
              /\ DOMAIN db[t] \subseteq DOMAIN db'[t]
              /\ \A s \in DOMAIN db'[t] :
                   \/ t = Head(plan).table /\ s = Head(plan).slug
                   \/ s \in DOMAIN db[t] /\ db'[t][s] = db[t][s]
<1>1. ~job.dryRun /\ job.useFixture /\ job.page \in LoaderPages
      BY DEF RunInv, Loading, AtOp
<1>2. ASSUME NEW t \in L!Tables
      PROVE  /\ DOMAIN db[t] \subseteq DOMAIN db'[t]
             /\ \A s \in DOMAIN db'[t] :
                  \/ t = Head(plan).table /\ s = Head(plan).slug
                  \/ s \in DOMAIN db[t] /\ db'[t][s] = db[t][s]
  <2>1. CASE t = Head(plan).table
    <3>1. db'[t] = new
          BY <2>1 DEF RunInv
    <3> QED
      BY <2>1, <3>1
  <2>2. CASE t # Head(plan).table
    <3>1. db'[t] = db[t]
          BY <2>2 DEF RunInv
    <3> QED
      BY <3>1
  <2> QED
    BY <2>1, <2>2
<1> QED
  BY <1>1, <1>2

LEMMA WithKeeps ==
  ASSUME NEW rows, NEW slug, NEW row
  PROVE  /\ DOMAIN rows \subseteq DOMAIN L!With(rows, slug, row)
         /\ \A s \in DOMAIN L!With(rows, slug, row) :
              \/ s = slug
              \/ s \in DOMAIN rows /\ L!With(rows, slug, row)[s] = rows[s]
BY DEF L!With

\* What OneRowAtATime says of a step.
OneRow ==
  db' # db =>
    /\ AtOp({"upsert", "patch", "replace"})
    /\ ~job.dryRun /\ job.useFixture /\ job.page \in LoaderPages
    /\ \A t \in L!Tables :
         /\ DOMAIN db[t] \subseteq DOMAIN db'[t]
         /\ \A s \in DOMAIN db'[t] :
              \/ t = Head(plan).table /\ s = Head(plan).slug
              \/ s \in DOMAIN db[t] /\ db'[t][s] = db[t][s]

LEMMA OneRowStep ==
  ASSUME RunInv, [Next]_vars
  PROVE  OneRow
<1> DEFINE o == Head(plan)
<1>1. CASE UNCHANGED db
      BY <1>1 DEF OneRow
<1>2. CASE WriteRow
  <2>1. CASE db' = db
        BY <2>1 DEF OneRow
  <2>2. CASE db' = [db EXCEPT ![o.table] = L!Written(o, @)]
    <3> DEFINE new == L!Written(o, db[o.table])
    <3>1. db' = [db EXCEPT ![o.table] = new]
          BY <2>2
    <3>2. /\ DOMAIN db[o.table] \subseteq DOMAIN new
          /\ \A s \in DOMAIN new :
               \/ s = o.slug
               \/ s \in DOMAIN db[o.table] /\ new[s] = db[o.table][s]
          BY WrittenRow
    <3>3. AtOp({"upsert", "patch", "replace"})
          BY <1>2 DEF WriteRow, AtOp
    <3> HIDE DEF new
    <3> QED
      BY <3>1, <3>2, <3>3, RowStep DEF OneRow
  <2> QED
    BY <1>2, <2>1, <2>2 DEF WriteRow
<1>3. CASE DeleteChildren \/ CreateChildren
  <2>1. PICK row : db' = [db EXCEPT ![o.table] = L!With(@, o.slug, row)]
        BY <1>3 DEF DeleteChildren, CreateChildren
  <2> DEFINE new == L!With(db[o.table], o.slug, row)
  <2>2. db' = [db EXCEPT ![o.table] = new]
        BY <2>1
  <2>3. /\ DOMAIN db[o.table] \subseteq DOMAIN new
        /\ \A s \in DOMAIN new :
             \/ s = o.slug
             \/ s \in DOMAIN db[o.table] /\ new[s] = db[o.table][s]
        BY WithKeeps
  <2>4. AtOp({"upsert", "patch", "replace"})
        BY <1>3 DEF DeleteChildren, CreateChildren, AtOp
  <2> HIDE DEF new
  <2> QED
    BY <2>2, <2>3, <2>4, RowStep DEF OneRow
<1> QED
  BY <1>1, <1>2, <1>3
     DEF Next, RunStep, Start, FetchAndParse, FixtureFails, LiveFetchFails,
         Isolate, IsolateFails, Lookup, LookupAgain, LookupFails, GiveUp,
         OpFails, Report, ReportFails, Crash, KeepsRun, vars

\* Whatever its loader plans, a load writes one row at a time and takes none
\* away, so that a kill or a fault leaves every other row whole; a dry run and
\* a live one write nothing (main of index.ts, upsertBySourceSlug).
THEOREM OneRowAtATimeHolds == Spec => OneRowAtATime
<1>1. RunInv /\ [Next]_vars => [OneRow]_vars
      BY OneRowStep
<1> QED
  BY <1>1, RunInvariant, PTL DEF Spec, OneRowAtATime, OneRow

\* An upsert that the schema takes, and a replace once its rows are made, leave
\* behind what they are for, whether they wrote or found it there: the payload
\* or the field an upsert compares, the children of the owner
\* (upsertBySourceSlug, the loaders' deleteMany and createMany).
THEOREM OperationDone ==
  ASSUME RunInv, NEW o, o = Head(plan), o.table \in L!Tables,
         \/ WriteRow /\ o.op = "upsert" /\ ~L!Refused(o, db[o.table])
         \/ CreateChildren
         \/ DeleteChildren /\ o.data = {}
  PROVE  Holds(o)'
<1>1. DOMAIN db = L!Tables
      BY DEF RunInv
<1>2. ASSUME WriteRow, o.op = "upsert", ~L!Refused(o, db[o.table])
      PROVE  Holds(o)'
  <2> DEFINE rows == db[o.table]
             new == L!Written(o, rows)
  <2>1. db'[o.table] = new
        BY <1>1, <1>2 DEF WriteRow
  <2>2. CASE L!Skips(o, rows)
    <3>1. new = rows /\ o.slug \in DOMAIN rows /\ L!Unchanged(o, rows[o.slug])
          BY <2>2 DEF L!Written, L!Skips
    <3> HIDE DEF new, rows
    <3>2. CASE o.by = "hash"
          BY <1>2, <2>1, <3>1, <3>2 DEF L!Unchanged, Holds
    <3>3. CASE o.by # "hash"
          BY <1>2, <2>1, <3>1, <3>3 DEF L!Unchanged, Holds
    <3> QED
      BY <3>2, <3>3
  <2>3. CASE ~L!Skips(o, rows)
    <3>1. new = L!With(rows, o.slug, [data |-> o.data, hash |-> o.data])
          BY <1>2, <2>3, UpsertRow
    <3>2. o.slug \in DOMAIN new /\ new[o.slug].data = o.data
          /\ new[o.slug].hash = o.data
          BY <3>1 DEF L!With
    <3> HIDE DEF new, rows
    <3> QED
      BY <1>2, <2>1, <3>2 DEF Holds
  <2> QED
    BY <2>2, <2>3
<1>3. ASSUME CreateChildren \/ (DeleteChildren /\ o.data = {})
      PROVE  Holds(o)'
  <2>1. o.op = "replace"
        BY <1>3 DEF CreateChildren, DeleteChildren, AtOp
  <2>2. db' = [db EXCEPT ![o.table] = L!With(@, o.slug, o.data)]
        BY <1>3 DEF CreateChildren, DeleteChildren
  <2>3. db'[o.table] = L!With(db[o.table], o.slug, o.data)
        BY <1>1, <2>2
  <2>4. o.slug \in DOMAIN db'[o.table] /\ db'[o.table][o.slug] = o.data
        BY <2>3 DEF L!With
  <2> QED
    BY <2>1, <2>4 DEF Holds
<1> QED
  BY <1>2, <1>3

\* What an operation has done stays done until an operation is tried on the
\* same row: not an operation on another row, another run, a fault or a kill
\* undoes it.
THEOREM StaysDone ==
  ASSUME RunInv, [Next]_vars, NEW o, o.table \in L!Tables, Holds(o),
         AtOp({"upsert", "patch", "replace"}) =>
           o.table # Head(plan).table \/ o.slug # Head(plan).slug
  PROVE  Holds(o)'
<1>1. o.slug \in DOMAIN db[o.table]
      BY DEF Holds
<1>2. CASE db' = db
      BY <1>2 DEF Holds
<1>3. CASE db' # db
  <2>1. /\ o.slug \in DOMAIN db'[o.table]
        /\ db'[o.table][o.slug] = db[o.table][o.slug]
        BY <1>1, <1>3, OneRowStep DEF OneRow
  <2> QED
    BY <2>1 DEF Holds
<1> QED
  BY <1>2, <1>3
=============================================================================
