----------------------------- MODULE WorldPages -----------------------------
(***************************************************************************)
(* The parsers of the pages about places: locations, islands, what a       *)
(* place's level and Pokémon center need, quests, records, plants, water   *)
(* and electricity.                                                        *)
(***************************************************************************)
EXTENDS ParsePage, TLC

CONSTANT RecordCategory  \* the category of a header text of humanrecords

(* locations-index.ts *)
LocationsRow(row) ==
  LET slug == PlainToken(row.link)
  IN  IF row.head \/ ~row.cells \/ slug = "" THEN Nothing
      ELSE IF row.name = "" THEN Unexpected(slug)
      ELSE Entity([slug |-> slug, parentSlug |-> "",
                   type |-> IF slug = "cloudisland" THEN "Cloud Island"
                            ELSE "Main"])

LocationsIndexParser(doc) == OrMissing(Each(AllRows(doc), LocationsRow))

(* location-detail.ts: one entity, its slug from the URL of the page (the  *)
(* link of the only block, "" when the URL is of no location), its name    *)
(* from the first <h1>.                                                    *)
LocationDetailParser(doc) ==
  LET page == doc[1]
  IN  IF page.link = "" THEN Unexpected("")
      ELSE IF ~page.h1 THEN Issue("missing-section", page.link)
      ELSE IF page.name = "" THEN Unexpected(page.link)
      ELSE Entity([slug |-> page.link, parentSlug |-> "", type |-> "Main"])

(* dream-islands.ts: a focus cell without item or name gives no reward.    *)
IslandRewards(cells) ==
  LET read == SelectSeq(cells, LAMBDA c : c.item # "" /\ c.name # "")
  IN  [i \in DOMAIN read |->
        [rewardType |-> "item", itemSlug |-> read[i].item]]

DreamIslandsRow(row) ==
  LET key == OrElse(row.link, row.item)
  IN  IF ~IsData(row, 4) THEN Nothing
      ELSE IF key = "" \/ row.name = "" THEN Unexpected("?")
      ELSE Entity([slug |-> "island-variant-dreamisland-" \o key,
                   locationSlug |-> "dreamisland", variantKey |-> key,
                   rewards |-> IslandRewards(row.cells)])

DreamIslandsParser(doc) ==
  OrMissing(Each(RowsOf(doc, "Doll Focus"), DreamIslandsRow))

(* cloud-islands.ts: a code is reduced to its ASCII letters and digits.    *)
CloudIslandsRow(row) ==
  LET key == StripOf[row.code]
  IN  IF ~IsData(row, 3) THEN Nothing
      ELSE IF row.name = "" \/ row.code = "" THEN Unexpected("?")
      ELSE Checked([slug |-> "island-variant-cloudisland-" \o key,
                    locationSlug |-> "cloudisland", variantKey |-> key,
                    rewards |-> <<>>], key # "", key)

CloudIslandsParser(doc) ==
  OrMissing(Each(RowsOf(doc, "Picture Description Code"), CloudIslandsRow))

(* environment.ts: the location carries over from the anchor of a header.  *)
EnvironmentRow(row, location) ==
  LET type == IF row.recipe THEN "recipe" ELSE "item"
      slug == location \o "-lv" \o ToString(row.level) \o "-" \o type \o "-"
              \o row.item
  IN  IF row.tds < 3 THEN Nothing
      ELSE IF location = "" THEN Unexpected("?")
      ELSE IF row.item = "" \/ row.level \notin 1 .. 10
           THEN Unexpected(location)
      ELSE Checked([slug |-> slug, locationSlug |-> location,
                    level |-> row.level, rewardType |-> type,
                    itemSlug |-> row.item], row.name # "", slug)

EnvironmentRewardParser(doc) ==
  LET Step(acc, row) ==
        IF row.head
        THEN [acc EXCEPT !.location = OrElse(row.anchor, @)]
        ELSE [acc EXCEPT !.result = @ ++ EnvironmentRow(row, acc.location)]
  IN  OrMissing(FoldLeft(Step, [location |-> "", result |-> Nothing],
                         RowsOf(doc, "Picture Name Level")).result)

(* pokemon-center.ts: the level is read from the prose of the page (the    *)
(* first block of the doc) or is three.  A material line that cannot be    *)
(* read is an issue, and the center is given without it.                   *)
CenterMaterials(lines, at) ==
  Each(lines, LAMBDA l : IF l.qty < 1 \/ l.name = "" THEN Unexpected(at)
                         ELSE Entity([itemNameEn |-> l.name,
                                      quantity |-> l.qty]))

PokemonCenterRow(row, envLevel) ==
  LET location == StripOf[row.name]
      slug == "pokemon-center-" \o location
      materials == CenterMaterials(row.lines, slug)
  IN  IF ~IsData(row, 3) THEN Nothing
      ELSE IF row.name = "" THEN Unexpected("?")
      ELSE IF row.count < 1 THEN Unexpected(slug)
      ELSE [materials EXCEPT !.entities = <<>>]
           ++ Checked([slug |-> slug, locationSlug |-> location,
                       requiredEnvLevel |-> envLevel,
                       requiredPokemonCount |-> row.count,
                       materials |-> materials.entities],
                      location # "", slug)

PokemonCenterParser(doc) ==
  LET level == IF doc[1].level \in 1 .. 10 THEN doc[1].level ELSE 3
  IN  OrMissing(Each(RowsOf(doc, "Area Requirements Pokémon"),
                     LAMBDA row : PokemonCenterRow(row, level)))

(* quests.ts: one section per heading; the position is the sort order.  A  *)
(* quest whose text names no location is reported and given all the same.  *)
QuestSection(section, sortOrder) ==
  LET slug == "quest-" \o SlugOf[section.title]
      quest == [slug |-> slug, sortOrder |-> sortOrder,
                locationSlug |-> OrElse(section.place, "unknown")]
  IN  IF section.title = "" THEN Unexpected(ToString(sortOrder))
      ELSE (IF section.place = "" THEN Unexpected(slug) ELSE Nothing)
           ++ Entity(quest)

QuestsParser(doc) ==
  OrMissing(Each([i \in DOMAIN doc |-> i],
                 LAMBDA i : QuestSection(doc[i], i)))

(* human-records.ts: the category carries over from a header and restarts  *)
(* a number that every row after it takes, and that is part of the slug.   *)
RewardTypeOf(reward) ==
  IF reward = "" THEN "none"
  ELSE IF reward \in {"customization", "cd"} THEN reward ELSE "item"

HumanRecordsRow(row, category, seq) ==
  LET slug == "human-record-" \o category \o "-" \o ToString(seq) \o "-"
              \o SlugOf[row.name]
  IN  IF row.tds < 5 THEN Nothing
      ELSE IF category = "" THEN Unexpected("?")
      ELSE IF row.name = "" THEN Unexpected(category)
      ELSE Entity([slug |-> slug, category |-> category,
                   locationSlug |-> row.place,
                   rewardType |-> RewardTypeOf(row.reward),
                   rewardRefSlug |-> ""])

\* Variant with a bug: only the rows that give a record are numbered.
HumanRecordsCountingUsable(doc) ==
  LET Step(acc, row) ==
        LET read == HumanRecordsRow(row, acc.category, acc.seq + 1)
        IN  IF row.head
            THEN IF row.title \in DOMAIN RecordCategory
                 THEN [acc EXCEPT !.category = RecordCategory[row.title],
                                  !.seq = 0]
                 ELSE acc
            ELSE [acc EXCEPT !.seq = @ + Len(read.entities),
                             !.result = @ ++ read]
  IN  OrMissing(FoldLeft(Step,
                         [category |-> "", seq |-> 0, result |-> Nothing],
                         RowsOf(doc, "Name Rewards")).result)

HumanRecordsParser(doc) ==
  LET Step(acc, row) ==
        IF row.head
        THEN IF row.title \in DOMAIN RecordCategory
             THEN [acc EXCEPT !.category = RecordCategory[row.title],
                              !.seq = 0]
             ELSE acc
        ELSE [acc EXCEPT !.seq = @ + 1,
                         !.result = @ ++ HumanRecordsRow(row, acc.category,
                                                         acc.seq + 1)]
  IN  OrMissing(FoldLeft(Step,
                         [category |-> "", seq |-> 0, result |-> Nothing],
                         RowsOf(doc, "Name Rewards")).result)

(* gameplay.ts: one entity with the sections that have a heading.          *)
GameplayParser(doc) ==
  LET page == doc[1]
      sections == SelectSeq(page.sections, LAMBDA s : s # "")
  IN  IF page.title = "" \/ sections = <<>> THEN Issue("missing-section", "")
      ELSE Entity([slug |-> "gameplay-mechanics", sections |-> sections])

(* plants.ts: the cells of the header rows of the standard table, and the  *)
(* tables of growing stages; the first of a slug is kept.                  *)
AddPlant(result, slug, name, type) ==
  IF slug = "" \/ name = ""
     \/ \E i \in DOMAIN result.entities : result.entities[i].slug = slug
  THEN result
  ELSE result ++ Entity([slug |-> slug, type |-> type, growthDays |-> 1,
                         growthDaysWithGrow |-> 1,
                         requiresHydration |-> FALSE])

FlowersParser(doc) ==
  LET rows == SelectSeq(RowsOf(doc, "Standard Plants"),
                        LAMBDA row : row.head /\ ~row.caption)
      cells == FlattenSeq([i \in DOMAIN rows |-> rows[i].cells])
      Step(acc, cell) == AddPlant(acc, cell.link, cell.name, cell.type)
  IN  OrMissing(FoldLeft(Step, Nothing, cells))

VegetablesParser(doc) ==
  LET Step(acc, table) ==
        IF ~table.stages THEN acc
        ELSE AddPlant(acc, StripOf[table.title], table.title, "Vegetable")
  IN  OrMissing(FoldLeft(Step, Nothing, doc))

(* water.ts *)
WaterRow(row) ==
  LET slug == SlugOf[row.name]
  IN  IF ~IsData(row, 4) THEN Nothing
      ELSE IF row.name = "" THEN Unexpected("?")
      ELSE Checked([slug |-> slug, hydrates |-> row.hydrates,
                    spreadRadius |-> Nil, trenchDistance |-> Nil],
                   slug # "", slug)

WaterParser(doc) == OrMissing(Each(RowsOf(doc, "Water Name"), WaterRow))

(* electricity.ts: the slug is the image of the picture or of the name's   *)
(* link, else what is left of the name.                                    *)
ElectricityRow(row) ==
  LET slug == OrElse(OrElse(row.link, row.nameLink), SlugOf[row.name])
  IN  IF ~IsData(row, 5) THEN Nothing
      ELSE IF row.name = "" THEN Unexpected("?")
      ELSE IF row.units = <<>> \/ row.renewable = "" THEN Unexpected(slug)
      ELSE Checked([slug |-> slug, outputUnits |-> row.units[1],
                    outputUnitsAlt |-> IF Len(row.units) > 1
                                       THEN row.units[2] ELSE Nil,
                    isRenewable |-> row.renewable = "Yes"],
                   slug # "", slug)

ElectricityParser(doc) ==
  OrMissing(Each(RowsOf(doc, "Units of Electricity"), ElectricityRow))
=============================================================================
