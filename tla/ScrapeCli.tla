------------------------------ MODULE ScrapeCli ------------------------------
(***************************************************************************)
(* The command line of the scraper (index.ts): a run takes one page from   *)
(* its fixture, parses it, isolates what could not be read, and either     *)
(* writes the entities to a file or loads them into the database, one      *)
(* operation of the database at a time.  A run that is to fetch the page   *)
(* from the site ends before its request: the rules of robots.txt are      *)
(* asked and never loaded.  Runs follow one another; each may be killed at *)
(* any point, and each access to the files or the database may fail.       *)
(*                                                                         *)
(* A job is what a run is started with, and the version of the page's      *)
(* document that it meets.                                                 *)
(***************************************************************************)
EXTENDS PageRegistry

CONSTANTS
  Site,       \* the versions of each page's document
  Schedules,  \* the sequences of jobs to run
  FileNameOf, \* the file name for a slug with characters no file may have
  MaxFaults   \* bound: how often a run is killed or an access fails

VARIABLES
  jobs,       \* the jobs to come
  job,        \* the job that runs, or the last that ran
  pc,         \* where the run is
  result,     \* what the parser gave
  seen,       \* the database as the lookups of the first round saw it
  plan,       \* the operations to come in this round
  cleared,    \* a replace has deleted the rows and not yet made the new ones
  failures,   \* the slugs of the failures so far
  isolated,   \* the file names of data/invalid that this run has written
  writes,     \* the rows of entities this run has written
  exit,       \* the exit code of the run, Nil while it runs or if it is killed
  db,         \* the database
  prev,       \* the job before, its exit code, the faults until its end
  faults      \* how many faults there were

vars == <<jobs, job, pc, result, seen, plan, cleared, failures, isolated,
          writes, exit, db, prev, faults>>

run == <<result, seen, plan, cleared, failures, isolated, writes>>

NoJob == [page |-> "", version |-> 0, dryRun |-> TRUE, useFixture |-> TRUE,
          limit |-> Nil]

Init ==
  /\ jobs \in Schedules
  /\ job = NoJob
  /\ pc = "idle"
  /\ result = Nothing
  /\ seen = L!EmptyDatabase
  /\ plan = <<>>
  /\ cleared = FALSE
  /\ failures = <<>>
  /\ isolated = {}
  /\ writes = {}
  /\ exit = Nil
  /\ db = L!EmptyDatabase
  /\ prev = [job |-> NoJob, exit |-> Nil, faults |-> 0]
  /\ faults = 0

------------------------------------------------------------------------------

Limited == IF job.limit = Nil THEN result.entities
           ELSE SubSeq(result.entities, 1,
                       Min({job.limit, Len(result.entities)}))

\* The page's document; the URL that is claimed for a fixture is not the
\* one of a location, from which a location's page has its slug.
Doc ==
  LET doc == Site[job.page][job.version]
  IN  IF job.page \in LocationPages THEN [doc EXCEPT ![1].link = ""]
      ELSE doc

Url == SourceUrl(job.page)

Dispatch(again) == DispatchLoader(job.page, Limited, Url, seen, again)

\* isolateInvalidEntries: a file for each entry, named for its slug; the
\* second entry of a name and the ones after it are numbered.
SanitizeFilename(slug) ==
  IF slug \in DOMAIN FileNameOf THEN FileNameOf[slug] ELSE slug

\* Variant with a bug: the last entry of a name replaces the others.
IsolateUnnumbered(slugs) ==
  {SanitizeFilename(slugs[i]) : i \in DOMAIN slugs}

IsolateInvalidEntries(slugs) ==
  LET names == [i \in DOMAIN slugs |-> SanitizeFilename(slugs[i])]
      Before(i) == Cardinality({j \in 1 .. i - 1 : names[j] = names[i]})
  IN  {IF Before(i) = 0 THEN names[i]
       ELSE names[i] \o "__00" \o ToString(Before(i) + 1)
         : i \in DOMAIN slugs}

\* Variant of Exit with a bug: open connections keep the process alive.
ExitLeavesOpen(code) == exit' = code /\ UNCHANGED pc

Exit(code) == /\ exit' = code
              /\ pc' = "idle"

Fault == /\ faults < MaxFaults
         /\ faults' = faults + 1

\* A run begins; a page without a parser ends it at once.
Start ==
  /\ pc = "idle"
  /\ jobs # <<>>
  /\ jobs' = Tail(jobs)
  /\ job' = Head(jobs)
  /\ prev' = [job |-> job, exit |-> exit, faults |-> faults]
  /\ result' = Nothing
  /\ seen' = L!EmptyDatabase
  /\ plan' = <<>>
  /\ cleared' = FALSE
  /\ failures' = <<>>
  /\ isolated' = {}
  /\ writes' = {}
  /\ IF Head(jobs).page \in Pages
     THEN /\ pc' = "fetch"
          /\ exit' = Nil
     ELSE Exit(1)
  /\ UNCHANGED <<db, faults>>

\* The page is there, as a fixture, and is parsed.
FetchAndParse ==
  /\ pc = "fetch"
  /\ job.useFixture
  /\ result' = Parse(job.page, Doc)
  /\ pc' = "isolate"
  /\ UNCHANGED <<jobs, job, seen, plan, cleared, failures, isolated, writes,
                 exit, db, prev, faults>>

\* The fixture is not there or cannot be read, or the parser throws.
FixtureFails ==
  /\ pc = "fetch"
  /\ job.useFixture
  /\ Fault
  /\ Exit(1)
  /\ UNCHANGED <<jobs, job, db, prev>> /\ UNCHANGED run

\* liveFetch() makes a RobotsChecker without loading any rules into it, and
\* isAllowed() throws at a source whose rules are not loaded.
LiveFetchFails ==
  /\ pc = "fetch"
  /\ ~job.useFixture
  /\ Exit(1)
  /\ UNCHANGED <<jobs, job, db, prev, faults>> /\ UNCHANGED run

\* The slugs of the issues, which name their files.
IssueSlugs == [i \in DOMAIN result.issues |-> result.issues[i].at]

\* The files of the first n entries are written: a write that fails ends it.
FilesOf(slugs, n) == IsolateInvalidEntries(SubSeq(slugs, 1, n))

\* Variant of Isolate with a bug: a dry run without issues goes on to load.
IsolateDryOnlyOnIssues ==
  /\ pc = "isolate"
  /\ isolated' = IsolateInvalidEntries(IssueSlugs)
  /\ IF job.dryRun /\ result.issues # <<>> THEN Exit(2)
     ELSE IF job.page \notin LoaderPages THEN Exit(1)
     ELSE /\ pc' = "lookup"
          /\ UNCHANGED exit
  /\ UNCHANGED <<jobs, job, result, seen, plan, cleared, failures, writes, db,
                 prev, faults>>

\* The issues of the parser go to data/invalid; a page without a loader
\* ends the run, unless it is dry.
Isolate ==
  /\ pc = "isolate"
  /\ isolated' = IsolateInvalidEntries(IssueSlugs)
  /\ IF job.dryRun THEN Exit(IF result.issues = <<>> THEN 0 ELSE 2)
     ELSE IF job.page \notin LoaderPages THEN Exit(1)
     ELSE /\ pc' = "lookup"
          /\ UNCHANGED exit
  /\ UNCHANGED <<jobs, job, result, seen, plan, cleared, failures, writes, db,
                 prev, faults>>

\* A write of the isolation fails, the one of a dry run's entities, or the
\* making of the database's client: the run is over.
IsolateFails ==
  /\ pc = "isolate"
  /\ \E n \in 0 .. Len(IssueSlugs) : isolated' = FilesOf(IssueSlugs, n)
  /\ Fault
  /\ Exit(1)
  /\ UNCHANGED <<jobs, job, result, seen, plan, cleared, failures, writes, db,
                 prev>>

\* The lookups before the first round.
Lookup ==
  /\ pc = "lookup"
  /\ seen' = db
  /\ plan' = DispatchLoader(job.page, Limited, Url, db, db).first
  /\ pc' = "first"
  /\ UNCHANGED <<jobs, job, result, cleared, failures, isolated, writes, exit,
                 db, prev, faults>>

\* The lookups between the two rounds.
LookupAgain ==
  /\ pc = "first"
  /\ plan = <<>>
  /\ plan' = Dispatch(db).second
  /\ pc' = "second"
  /\ UNCHANGED <<jobs, job, result, seen, cleared, failures, isolated, writes,
                 exit, db, prev, faults>>

\* A lookup is outside of every try: it fails and the run is over.
LookupFails ==
  /\ \/ /\ pc = "lookup"
        /\ DispatchLoader(job.page, Limited, Url, db, db).reads # {}
     \/ /\ pc = "first"
        /\ plan = <<>>
        /\ Dispatch(db).rereads # {}
  /\ Fault
  /\ Exit(1)
  /\ UNCHANGED <<jobs, job, db, prev>> /\ UNCHANGED run

------------------------------------------------------------------------------
(* One operation of the loader.                                            *)

AtOp(kinds) == /\ pc \in {"first", "second"}
               /\ plan # <<>>
               /\ Head(plan).op \in kinds

Popped == plan' = Tail(plan)

\* What every operation leaves alone.
KeepsRun == UNCHANGED <<jobs, job, pc, result, seen, isolated, exit, prev>>

\* An input the loader gives up.
GiveUp ==
  /\ AtOp({"fail"})
  /\ failures' = Append(failures, Head(plan).slug)
  /\ Popped
  /\ KeepsRun /\ UNCHANGED <<cleared, writes, db, faults>>

\* An upsert or an update, which the schema may refuse.
WriteRow ==
  /\ AtOp({"upsert", "patch"})
  /\ LET o == Head(plan)
         rows == db[o.table]
     IN  IF L!Refused(o, rows)
         THEN /\ failures' = Append(failures, o.slug)
              /\ UNCHANGED <<db, writes>>
         ELSE /\ db' = [db EXCEPT ![o.table] = L!Written(o, @)]
              /\ writes' = IF L!Skips(o, rows) THEN writes
                           ELSE writes \cup {<<o.table, o.slug>>}
              /\ UNCHANGED failures
  /\ Popped
  /\ KeepsRun /\ UNCHANGED <<cleared, faults>>

\* deleteMany: the rows of the owner are gone.
DeleteChildren ==
  /\ AtOp({"replace"})
  /\ ~cleared
  /\ db' = [db EXCEPT ![Head(plan).table] =
              L!With(@, Head(plan).slug, {})]
  /\ IF Head(plan).data = {}
     THEN /\ Popped
          /\ UNCHANGED cleared
     ELSE /\ cleared' = TRUE
          /\ UNCHANGED plan
  /\ KeepsRun /\ UNCHANGED <<failures, writes, faults>>

\* createMany: the new ones are there.
CreateChildren ==
  /\ AtOp({"replace"})
  /\ cleared
  /\ db' = [db EXCEPT ![Head(plan).table] =
              L!With(@, Head(plan).slug, Head(plan).data)]
  /\ cleared' = FALSE
  /\ Popped
  /\ KeepsRun /\ UNCHANGED <<failures, writes, faults>>

\* Variant of OpFails with a bug: the replace is taken to be half done.
OpFailsHalfway ==
  /\ AtOp({"upsert", "patch", "replace"})
  /\ Fault
  /\ failures' = Append(failures, Head(plan).slug)
  /\ Popped
  /\ KeepsRun /\ UNCHANGED <<cleared, writes, db>>

\* Variant of OpFails with a bug: the catch only logs.
OpFailsUnnoted ==
  /\ AtOp({"upsert", "patch", "replace"})
  /\ Fault
  /\ cleared' = FALSE
  /\ Popped
  /\ KeepsRun /\ UNCHANGED <<failures, writes, db>>

\* An access of the operation fails: a failure, and the next operation.
OpFails ==
  /\ AtOp({"upsert", "patch", "replace"})
  /\ Fault
  /\ failures' = Append(failures, Head(plan).slug)
  /\ cleared' = FALSE
  /\ Popped
  /\ KeepsRun /\ UNCHANGED <<writes, db>>

------------------------------------------------------------------------------

\* The failures are isolated too, in a directory of their own, and the run
\* ends: 0 if there was neither an issue nor a failure.
Report ==
  /\ pc = "second"
  /\ plan = <<>>
  /\ isolated' = isolated \cup {"upsert/" \o n :
                                  n \in IsolateInvalidEntries(failures)}
  /\ Exit(IF result.issues = <<>> /\ failures = <<>> THEN 0 ELSE 2)
  /\ UNCHANGED <<jobs, job, result, seen, plan, cleared, failures, writes, db,
                 prev, faults>>

\* A write of that isolation fails, or the disconnecting after it: the run
\* ends in the catch around the load.
ReportFails ==
  /\ pc = "second"
  /\ plan = <<>>
  /\ \E n \in 0 .. Len(failures) :
       isolated' = isolated \cup {"upsert/" \o f : f \in FilesOf(failures, n)}
  /\ Fault
  /\ Exit(1)
  /\ UNCHANGED <<jobs, job, result, seen, plan, cleared, failures, writes, db,
                 prev>>

\* The process is killed; the database keeps what it has.
Crash ==
  /\ pc # "idle"
  /\ Fault
  /\ Exit(Nil)
  /\ UNCHANGED <<jobs, job, db, prev>> /\ UNCHANGED run

RunStep == \/ Start \/ FetchAndParse \/ LiveFetchFails \/ Isolate \/ Lookup
           \/ LookupAgain \/ GiveUp \/ WriteRow \/ DeleteChildren
           \/ CreateChildren \/ Report

Next == \/ RunStep
        \/ FixtureFails \/ IsolateFails \/ LookupFails \/ OpFails \/ ReportFails
        \/ Crash

\* The process goes on until it ends, and the next run is started.
Spec == Init /\ [][Next]_vars /\ WF_vars(RunStep)

------------------------------------------------------------------------------
(* Properties.                                                             *)

(* Type invariant. *)
TypeOK ==
  /\ pc \in {"idle", "fetch", "isolate", "lookup", "first", "second"}
  /\ cleared \in BOOLEAN
  /\ exit \in {Nil, 0, 1, 2}
  /\ exit # Nil => pc = "idle"
  /\ faults \in 0 .. MaxFaults
  /\ DOMAIN db = L!Tables
  /\ \A t \in L!Tables \ L!ChildTables : \A s \in DOMAIN db[t] :
       DOMAIN db[t][s] = {"data", "hash"}
  /\ cleared => plan # <<>> /\ Head(plan).op = "replace"

\* A row that its parser can no longer use: its cells are gone.
Unusable(row) ==
  IF "tds" \in DOMAIN row THEN [row EXCEPT !.tds = 0]
  ELSE IF "cen" \in DOMAIN row THEN [row EXCEPT !.cen = 0]
  ELSE IF "cells" \in DOMAIN row THEN [row EXCEPT !.cells = FALSE]
  ELSE row

\* The pages whose entities are not rows: a product of two tables, cells of
\* header rows, sections of prose.
NotByRow == {"mosslaxboosts", "flowers", "vegetables", "gameplay", "legendary",
             "importantrequests", "uniquepokemon", "collect", "trade",
             "friendship", "stampcard", "stampcard-card"} \cup LocationPages

(* The contract of every parser (base.ts): what is wrong with one entity   *)
(* does not spread to the others.  A data row that cannot be used takes    *)
(* away at most its own entity, and leaves the others, their slugs, tiers  *)
(* and positions as they were.                                             *)
RowByRow ==
  pc = "isolate" /\ job.page \notin NotByRow =>
    \A b \in DOMAIN Doc : \A r \in DOMAIN Doc[b].rows :
      LET row == Doc[b].rows[r]
          changed == [Doc EXCEPT ![b].rows[r] = Unusable(row)]
          without == Parse(job.page, changed).entities
      IN  ~row.head =>
            \/ without = result.entities
            \/ \E k \in DOMAIN result.entities :
                 without = RemoveAt(result.entities, k)

(* Every issue has a file of its own before the database is touched, also  *)
(* those that have the same slug, and at the run's end every failure of    *)
(* the load has one too.  Only a run that met a fault may lose some, those *)
(* of its first round if a lookup throws after it, and it ends with 1      *)
(* (invalid-isolator.ts, main of index.ts).                                *)
NothingLost ==
  /\ pc \in {"lookup", "first", "second"} =>
       Cardinality(isolated) = Len(result.issues)
  /\ exit # Nil /\ (exit = 1 => faults = prev.faults) =>
       Cardinality(isolated) = Len(result.issues) + Len(failures)

\* The runs that their arguments end: an unknown page, one without a loader
\* to load it, and every run on the live site.
Hopeless == \/ job.page \notin Pages
            \/ ~job.useFixture
            \/ ~job.dryRun /\ job.page \notin LoaderPages

(* The exit code tells how the run went.  Whatever it is, no operation of  *)
(* the round is left and no replace is half done.  0 only when no row, of  *)
(* the page or of the load, was given up and nothing failed: no fault in   *)
(* the middle of a load is swallowed.  1 only when there was a fault or    *)
(* the arguments could not work (main of index.ts).                        *)
ExitTells ==
  exit # Nil =>
    /\ plan = <<>> /\ ~cleared
    /\ exit = 0 => faults = prev.faults
    /\ exit = 1 => faults # prev.faults \/ Hopeless
    /\ exit # 1 => (exit = 0 <=> result.issues = <<>> /\ failures = <<>>)

(* A write reaches one row, the one of the operation in progress, takes no *)
(* row out of a table, and happens in a load only: not in a dry run, a run *)
(* on the live site or that of a page without a loader, however earlier    *)
(* runs ended (index.ts, upsert-loader.ts).                                *)
OneRowAtATime ==
  [][db' # db =>
       /\ AtOp({"upsert", "patch", "replace"})
       /\ ~job.dryRun /\ job.useFixture /\ job.page \in LoaderPages
       /\ \A t \in L!Tables :
            /\ DOMAIN db[t] \subseteq DOMAIN db'[t]
            /\ \A s \in DOMAIN db'[t] :
                 \/ t = Head(plan).table /\ s = Head(plan).slug
                 \/ s \in DOMAIN db[t] /\ db'[t][s] = db[t][s]]_vars

\* The last of the operations that write one row.
IsLast(ops, k) ==
  \A j \in k + 1 .. Len(ops) : \/ ops[j].op # ops[k].op
                               \/ ops[j].table # ops[k].table
                               \/ ops[j].slug # ops[k].slug

\* What one operation is for is there: the row that was upserted has the
\* payload it was last given (compared on one field, it has that field),
\* the patched row the fields, and the owner exactly these children.
Holds(o) ==
  /\ o.op # "fail"
  /\ o.slug \in DOMAIN db[o.table]
  /\ CASE o.op = "replace" -> db[o.table][o.slug] = o.data
       [] o.op = "patch"   -> \A f \in DOMAIN o.data :
                                db[o.table][o.slug].data[f] = o.data[f]
       [] o.op = "upsert"  ->
            IF o.by = "hash" THEN db[o.table][o.slug].hash = o.data
            ELSE IF o.by = "never" THEN db[o.table][o.slug].data = o.data
            ELSE db[o.table][o.slug].data[o.by] = o.data[o.by]

(* A load that says 0 has done all of it: there is no operation left that  *)
(* its loader would plan now and that would change the database, whatever  *)
(* an earlier run of this or another page left behind when it was killed   *)
(* or its accesses failed: rows without their children, rows of an older   *)
(* document whose hash is still there.                                     *)
Stored ==
  exit = 0 /\ ~job.dryRun =>
    LET load == DispatchLoader(job.page, Limited, Url, db, db)
        ops == load.first \o load.second
    IN  \A k \in DOMAIN ops : IsLast(ops, k) => Holds(ops[k])

\* The operations that write their row each time: updates that compare
\* nothing, and upserts of a row that is given twice, as two things.
Rewrites(ops, k) ==
  \/ ops[k].op = "patch"
  \/ /\ ops[k].op = "upsert"
     /\ \/ ops[k].by = "never"
        \/ \E j \in DOMAIN ops : /\ ops[j].op = "upsert"
                                 /\ ops[j].table = ops[k].table
                                 /\ ops[j].slug = ops[k].slug
                                 /\ ops[j].data # ops[k].data

(* A page that is loaded again as it was writes no row of an entity again: *)
(* the content hash tells that nothing has changed (upsert-loader.ts).     *)
(* Only the rows of Rewrites are written, and no other row of their pages. *)
Idempotent ==
  exit = 0 /\ ~job.dryRun /\ prev.job = job /\ prev.exit = 0 =>
    LET load == DispatchLoader(job.page, Limited, Url, db, db)
        ops == load.first \o load.second
    IN  \A row \in writes : \E k \in DOMAIN ops :
          /\ Rewrites(ops, k)
          /\ row = <<ops[k].table, ops[k].slug>>

(* Every run ends and every job is run: a failure never makes a loader try *)
(* the same operation for ever.                                            *)
EveryJobRuns == <>(jobs = <<>> /\ pc = "idle")

(* What furniture.ts says of its loader: of an item that is there already  *)
(* only the two flags of the Colour cell change.                           *)
OnlyFlagsMerged ==
  [][pc # "idle" /\ job.page = "furniture" =>
       \A s \in DOMAIN db.item :
         \A f \in DOMAIN db.item[s].data \ {"isPaintable", "isPatternable"} :
           db'.item[s].data[f] = db.item[s].data[f]]_vars
==============================================================================
