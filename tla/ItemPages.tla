------------------------------ MODULE ItemPages ------------------------------
(***************************************************************************)
(* The parsers of the pages about items: what can be collected, built,     *)
(* crafted, cooked, traded and picked up.                                  *)
(***************************************************************************)
EXTENDS ParsePage

CONSTANTS
  ItemTags,       \* Decoration, Food, Relaxation, Road, Toy
  ItemAnchors,    \* the anchors of items.shtml that name a category
  Meals,          \* Salad, Soup, Bread, Steak
  FlavorHeaders,  \* the category headers of flavors.shtml
  SizeOf          \* the size class of an anchor of lostrelics.shtml

(* items.ts: sections by anchor; unknown anchors are skipped. *)
ItemsRow(row, category) ==
  LET slug == PlainToken(row.link)
  IN  IF ~IsData(row, 4) \/ slug = "" THEN Nothing
      ELSE IF row.name = "" THEN Unexpected(slug)
      ELSE Entity([slug |-> slug, category |-> category,
                   tags |-> ItemTags \cap row.tags, locations |-> <<>>,
                   isPaintable |-> FALSE, isPatternable |-> FALSE,
                   isMagnetRiseOnly |-> FALSE])

ItemsParser(doc) ==
  OrMissing(Each(SelectSeq(doc, LAMBDA s : s.title \in ItemAnchors),
                 LAMBDA s : Each(s.rows, LAMBDA row : ItemsRow(row, s.title))))

(* furniture.ts: the same items again, with the flags of the Colour cell. *)
FurnitureRow(row) ==
  LET slug == PlainToken(row.link)
  IN  IF ~IsData(row, 6) \/ slug = "" THEN Nothing
      ELSE IF row.name = "" THEN Unexpected(slug)
      ELSE Entity([slug |-> slug, category |-> "furniture",
                   tags |-> ItemTags \cap row.tags, locations |-> <<>>,
                   isPaintable |-> "Paint" \in row.colour,
                   isPatternable |-> "Pattern" \in row.colour,
                   isMagnetRiseOnly |-> FALSE])

FurnitureParser(doc) == OrMissing(Each(AllRows(doc), FurnitureRow))

(* crafting.ts: an ingredient without link or name is dropped silently;    *)
(* a quantity that cannot be read is one, a quantity of zero is refused.   *)
CraftingIngredients(cells) ==
  LET read == SelectSeq(cells, LAMBDA c : PlainToken(c.link) # ""
                                          /\ c.name # "")
  IN  [i \in DOMAIN read |->
        [itemSlug |-> read[i].link,
         quantity |-> IF read[i].qty = Nil THEN 1 ELSE read[i].qty]]

CraftingRow(row) ==
  LET slug == PlainToken(row.link)
      ingredients == CraftingIngredients(row.cells)
  IN  IF ~IsData(row, 4) \/ slug = "" THEN Nothing
      ELSE IF row.name = "" \/ row.unlock = "" THEN Unexpected(slug)
      ELSE Checked([resultItemSlug |-> slug, resultQuantity |-> 1,
                    unlockMethod |-> row.unlock,
                    ingredients |-> ingredients],
                   \A i \in DOMAIN ingredients : ingredients[i].quantity > 0,
                   slug)

\* Rows before the first section heading (title "") belong to no section.
CraftingParser(doc) ==
  OrMissing(Each(AllRows(SelectSeq(doc, LAMBDA s : s.title # "")),
                 CraftingRow))

(* cooking.ts: the first <h3> of each meal starts a section that lasts to  *)
(* the next one of them; another heading of the same meal does not.        *)
CookingIngredients(cells) ==
  SelectSeq(cells, LAMBDA c : c.itemSlug # "" /\ c.name # "")

CookingRow(row, meal) ==
  IF ~IsData(row, 7) \/ row.link = "" THEN Nothing
  ELSE IF row.name = "" THEN Unexpected(row.link)
  ELSE Entity([resultItemSlug |-> row.link, mealCategory |-> meal,
               bonusSpecialtyNameEn |-> row.specialty,
               ingredients |-> CookingIngredients(row.cells)])

MealSections(doc) ==
  LET Starts(i) == /\ doc[i].title \in Meals
                   /\ \A j \in 1 .. i - 1 : doc[j].title # doc[i].title
      MealAt(i) == LET starts == {j \in 1 .. i : Starts(j)}
                   IN  IF starts = {} THEN ""
                       ELSE doc[CHOOSE j \in starts :
                                  \A k \in starts : k <= j].title
  IN  [i \in DOMAIN doc |-> [title |-> MealAt(i), rows |-> doc[i].rows]]

CookingParser(doc) ==
  OrMissing(Each(SelectSeq(MealSections(doc), LAMBDA s : s.title # ""),
                 LAMBDA s : Each(s.rows,
                                 LAMBDA row : CookingRow(row, s.title))))

(* flavors.ts: the first table; a category header carries over to the rows *)
(* after it, and rows before the first category are skipped.               *)
FlavorsRow(row, flavor) ==
  IF row.tds < 3 \/ row.link = "" THEN Nothing
  ELSE IF row.name = "" THEN Unexpected(row.link)
  ELSE Entity([itemSlug |-> row.link, flavor |-> flavor,
               ppRestore |-> row.pp, moveBoost |-> row.boost])

FlavorsParser(doc) ==
  LET Step(acc, row) ==
        IF row.head /\ row.title \in FlavorHeaders
        THEN [acc EXCEPT !.flavor = row.title]
        ELSE IF row.head \/ acc.flavor = "" THEN acc
        ELSE [acc EXCEPT !.result = @ ++ FlavorsRow(row, acc.flavor)]
      rows == IF doc = <<>> THEN <<>> ELSE doc[1].rows
  IN  OrMissing(FoldLeft(Step, [flavor |-> "", result |-> Nothing],
                         rows).result)

(* lost-relics.ts: the size class carries over from a category header.     *)
LostRelicsRow(row, size) ==
  IF row.tds < 3 THEN Nothing
  ELSE IF size = "" \/ row.link = "" \/ row.name = "" THEN Unexpected("?")
  ELSE Entity([slug |-> "lost-relic-" \o row.link, itemSlug |-> row.link,
               sizeClass |-> size])

LostRelicsParser(doc) ==
  LET Step(acc, row) ==
        IF row.head
        THEN IF row.title \in DOMAIN SizeOf
             THEN [acc EXCEPT !.size = SizeOf[row.title]] ELSE acc
        ELSE [acc EXCEPT !.result = @ ++ LostRelicsRow(row, acc.size)]
  IN  OrMissing(FoldLeft(Step, [size |-> "", result |-> Nothing],
                         RowsOf(doc, "Picture Name Description")).result)

(* trade.ts, collect.ts: the source has no such table yet.  A table that   *)
(* appears is reported and not read.                                       *)
TradeParser(doc) ==
  LET tables == Each(doc, LAMBDA t : IF t.title = "Value" THEN Nothing
                                     ELSE Unexpected("unrecognized-table"))
  IN  IF doc = <<>> THEN Issue("missing-section", "no-valuation-table-yet")
      ELSE IF tables = Nothing THEN Issue("missing-section", "")
      ELSE tables

CollectParser(doc) ==
  LET recipes == Titled(doc, "Cost")
  IN  IF recipes = <<>> THEN Issue("missing-section", "no-recipe-table-yet")
      ELSE Each(recipes, LAMBDA t : Unexpected("recipe-table-found"))

(* magnet-rise.ts, building.ts: slug of the name's link, else the picture's. *)
MagnetRiseRow(row) ==
  LET slug == OrElse(row.nameLink, row.link)
  IN  IF ~IsData(row, 3) \/ slug = "" THEN Nothing
      ELSE IF row.name = "" THEN Unexpected(slug)
      ELSE Entity([slug |-> slug])

MagnetRiseParser(doc) == OrMissing(Each(AllRows(doc), MagnetRiseRow))

BuildingRow(row) ==
  LET slug == OrElse(row.nameLink, row.link)
  IN  IF ~IsData(row, 3) \/ slug = "" THEN Nothing
      ELSE IF row.name = "" THEN Unexpected(slug)
      ELSE Entity([slug |-> slug])

BuildingParser(doc) == OrMissing(Each(AllRows(doc), BuildingRow))
==============================================================================
