------------------------------- MODULE LoadOps -------------------------------
(***************************************************************************)
(* What the loaders of the scraper do to the database: the operations of   *)
(* the Prisma client they use, and the order of a loader's rounds.         *)
(*                                                                         *)
(* The database maps a table to its rows.  A row of an entity is known by  *)
(* its source slug, which stands for its id too (rows are never deleted);  *)
(* it holds its data and the data its contentHash was computed from.  The  *)
(* rows of a child table are known by their owner: the set that the last   *)
(* replace gave it.                                                        *)
(***************************************************************************)
EXTENDS Integers, Sequences, SequencesExt

Null == "null"  \* a reference that is null; a number that is null is Nil
Nil == -1

\* The tables that hold the children of an entity.
ChildTables == {"itemTag", "itemLocation", "cookingIngredient",
                "craftingIngredient", "paintRecipe", "habitatPokemon",
                "islandReward", "pokemonCenterMaterial",
                "teamChallengeRequirement", "eventPokemon",
                "pokemonLitterReward"}

\* What the schema keeps unique besides the source slug.
UniqueKeys == [pokemon             |-> {"pokedexNo"},
               legendaryAcquisition |-> {"pokemonId"},
               habitat             |-> {"habitatNo"},
               friendshipTier      |-> {"tier"},
               teamChallenge       |-> {"stage"},
               sourceGame          |-> {"code"},
               jumpropeTier        |-> {"tier"},
               mosslaxBoost        |-> {"flavor", "level"}]

Tables == ChildTables \cup DOMAIN UniqueKeys
          \cup {"item", "specialty", "stampCard", "favoriteCategory",
                "generator", "waterType", "paintPattern", "customizationItem",
                "plant", "cd", "paintColor", "location", "food", "lostRelic",
                "tradeValuation", "buildingKit", "stampReward",
                "hideAndSneakReward", "pokedexMilestone", "cookingRecipe",
                "craftingRecipe", "environmentReward", "pokemonCenter",
                "quest", "humanRecord", "islandVariant", "event",
                "dittoAbility"}

EmptyDatabase == [t \in Tables |-> <<>>]

Has(db, table, slug) == slug \in DOMAIN db[table]

\* A reference that may be null.
Ref(db, table, slug) == IF Has(db, table, slug) THEN slug ELSE Null

------------------------------------------------------------------------------
(* The operations a loader plans.  "by" is what an existing row is compared *)
(* on before it is written: its hash, one field, or nothing.               *)

Compared(table, slug, data, by) ==
  <<[op |-> "upsert", table |-> table, slug |-> slug, data |-> data,
     by |-> by]>>
Upsert(table, slug, data) == Compared(table, slug, data, "hash")

Patch(table, slug, data) ==
  <<[op |-> "patch", table |-> table, slug |-> slug, data |-> data]>>

\* deleteMany of the owner's rows, then createMany of the new ones if any.
Replace(table, owner, rows) ==
  <<[op |-> "replace", table |-> table, slug |-> owner, data |-> rows]>>

\* An input the loader gives up.
Fail(slug) == <<[op |-> "fail", slug |-> slug]>>

ForEach(inputs, Op(_)) == FlattenSeq([i \in DOMAIN inputs |-> Op(inputs[i])])

\* createMany with skipDuplicates keeps the first row of a key.
FirstOfKey(rows, Key(_)) ==
  {rows[i] : i \in {j \in DOMAIN rows :
                      \A k \in 1 .. j - 1 : Key(rows[k]) # Key(rows[j])}}

\* A loader looks up the tables "reads", runs its first operations, and
\* if it has a second round looks up "rereads" and runs the second ones.
Once(reads, first) ==
  [reads |-> reads, first |-> first, rereads |-> {}, second |-> <<>>]
Twice(reads, first, rereads, second) ==
  [reads |-> reads, first |-> first, rereads |-> rereads, second |-> second]

\* A lookup of no slugs asks the database nothing.
Asked(table, slugs) == IF slugs = {} THEN {} ELSE {table}

------------------------------------------------------------------------------
(* What an operation does to the rows of its table.                        *)

\* Variant of Unchanged with a bug: a row that is there is never rewritten.
UnchangedIfThere(o, row) == o.by # "never"

\* Variant of Unchanged with a bug: the hashed payload has the time in it.
UnchangedNever(o, row) ==
  o.by \notin {"hash", "never"} /\ row.data[o.by] = o.data[o.by]

Unchanged(o, row) ==
  CASE o.by = "hash"  -> row.hash = o.data
    [] o.by = "never" -> FALSE
    [] OTHER          -> row.data[o.by] = o.data[o.by]

\* Another row has the values of a unique key; null is never equal.
Clashes(o, rows) ==
  /\ o.table \in DOMAIN UniqueKeys
  /\ o.table = "habitat" => o.data.habitatNo # Nil
  /\ \E s \in DOMAIN rows \ {o.slug} :
       \A f \in UniqueKeys[o.table] : rows[s].data[f] = o.data[f]

With(rows, slug, row) ==
  [s \in DOMAIN rows \cup {slug} |-> IF s = slug THEN row ELSE rows[s]]

\* An existing row that is found unchanged is not written.
Skips(o, rows) ==
  o.op = "upsert" /\ o.slug \in DOMAIN rows /\ Unchanged(o, rows[o.slug])

\* What the schema wants set, of what a loader may give as null.
Required == [food |-> {"ppRestore"}]

Lacks(o) == /\ o.table \in DOMAIN Required
            /\ \E f \in Required[o.table] : o.data[f] = ""

\* The schema refuses: there is no row to update, a unique key is taken, or
\* a column that must be set is null.
Refused(o, rows) ==
  IF o.op = "patch" THEN o.slug \notin DOMAIN rows
  ELSE ~Skips(o, rows) /\ (Clashes(o, rows) \/ Lacks(o))

Patched(row, data) ==
  [row EXCEPT !.data = [f \in DOMAIN @ |-> IF f \in DOMAIN data
                                           THEN data[f] ELSE @[f]]]

Written(o, rows) ==
  IF Skips(o, rows) THEN rows
  ELSE With(rows, o.slug,
            IF o.op = "patch" THEN Patched(rows[o.slug], o.data)
            ELSE [data |-> o.data, hash |-> o.data])
==============================================================================
