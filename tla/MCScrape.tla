------------------------------ MODULE MCScrape ------------------------------
(***************************************************************************)
(* Instances of ScrapeCli: a clean and a broken document for each page,    *)
(* and the schedules of runs over them.                                    *)
(***************************************************************************)
EXTENDS ScrapeCli

MCPlainTokens == {"bed", "log", "leek", "beach", "cloudisland", "dreamisland",
                  "fly"}

MCSlugOf == "" :> "" @@ "é" :> "" @@ "Hot Water" :> "hot-water"
            @@ "Sea Water" :> "sea-water" @@ "Red" :> "red"
            @@ "Pink" :> "pink" @@ "beach" :> "beach" @@ "Fly" :> "fly"
MCStripOf == "" :> "" @@ "é" :> "" @@ "Hot Water" :> "hotwater"
             @@ "Beach" :> "beach" @@ "Cliff" :> "cliff"
             @@ "X7" :> "x7" @@ "Mew" :> "mew"

MCItemTags == {"Food", "Toy"}
MCItemAnchors == {"materials", "furniture"}
MCMeals == {"Salad", "Soup"}
MCFlavorHeaders == {"Sweet", "Dry"}
MCSizeOf == "L" :> "Large" @@ "S" :> "Small"
MCLegendaryNames == <<"raikou", "mew">>
MCPlaceNames == <<"beach", "cliff">>
MCRecordCategory == "Old" :> "old" @@ "New" :> "new"
MCMosslaxFlavors == {"Dry", "Sweet"}
MCOutfitCategory == "Tops" :> "tops" @@ "Bags" :> "bags"
MCSourceGames == "Red/Blue" :> [code |-> "rb", generation |-> 1]
MCFileNameOf == "?" :> "-" @@ "Hot Water" :> "Hot-Water"
MCItemKeyOf == "Log" :> "log" @@ "Leek" :> "leek" @@ "Orb" :> "orb"
MCRewardKeyOf == "Log recipe" :> "log" @@ "Orb" :> "orb"
MCSpecialtyKeyOf == "Fly" :> "fly" @@ "Burn" :> "burn"
MCPaintKeyOf == "Red" :> "red" @@ "Pink" :> "pink" @@ "Red Paint" :> "red"
                @@ "Ink" :> "ink" @@ "Hot Water" :> "hot-water"

------------------------------------------------------------------------------
(* Documents.                                                              *)

Block(title, rows) == [title |-> title, rows |-> rows]
Table(title, rows) == <<Block(title, rows)>>
Head0 == [head |-> TRUE, title |-> "", anchor |-> ""]
HeadOf(title) == [head |-> TRUE, title |-> title, anchor |-> title]

\* A row of n cells with the fields of r.
RowOf(n, r) == [head |-> FALSE, tds |-> n] @@ r
CellsRow(link, name) ==
  [head |-> FALSE, cells |-> TRUE, link |-> link, name |-> name]

\* A document with the good rows, and one with the bad rows between them.
Pair(title, good, bad) ==
  <<Table(title, <<Head0>> \o good),
    Table(title, <<Head0, good[1]>> \o bad \o Tail(good))>>

ItemRow(link, name, tags) ==
  RowOf(4, [link |-> link, name |-> name, tags |-> tags])
FurnitureDoc(colour) ==
  Table("", <<Head0, RowOf(6, [link |-> "bed", name |-> "Bed",
                               tags |-> {"Toy"}, colour |-> colour])>>)
Picture(link, name) ==
  RowOf(3, [link |-> link, nameLink |-> "", name |-> name])
Recipe(link, name, cells) ==
  RowOf(4, [link |-> link, name |-> name, unlock |-> "shop",
            cells |-> cells])
Part(link, qty) == [link |-> link, name |-> "x", qty |-> qty]
Meal(link, name, specialty, cells) ==
  RowOf(7, [link |-> link, name |-> name, specialty |-> specialty,
            cells |-> cells])
Need(slug) == [itemSlug |-> slug, name |-> "x", quantity |-> 1]
Cost(text, qty) == [text |-> text, name |-> text, qty |-> qty]
Paint(name, lines) ==
  [head |-> FALSE, cen |-> TRUE, tds |-> 3, name |-> name, lines |-> lines]
Pattern(link, name) ==
  [head |-> FALSE, cen |-> TRUE, tds |-> 3, name |-> name, link |-> link,
   lines |-> <<Cost("Red Paint", 1)>>]
Pokemon(no, name) ==
  [head |-> FALSE, cen |-> 4, no |-> no, name |-> name,
   specialties |-> <<>>]
EventRow(no, link) ==
  [head |-> FALSE, cen |-> TRUE, tds |-> 4, no |-> no, link |-> link,
   nameLink |-> "", name |-> "x"]
Litter(no, link, item) ==
  [head |-> FALSE, cen |-> TRUE, tds |-> 5, no |-> no, link |-> link,
   nameLink |-> "", item |-> item, name |-> "x", itemName |-> "x"]
Habitat(link, name, no) ==
  RowOf(4, [link |-> link, name |-> name, no |-> no, event |-> FALSE])
Ability(link, name, unlock) ==
  RowOf(4, [link |-> link, name |-> name, unlock |-> unlock])
Island(link, name, item) ==
  RowOf(4, [link |-> link, item |-> "", name |-> name,
            cells |-> <<[item |-> item, name |-> "x"]>>])
Cloud(name, code) == RowOf(3, [name |-> name, code |-> code])
Level(item, level, recipe) ==
  RowOf(3, [item |-> item, level |-> level, recipe |-> recipe,
            name |-> "x"])
Center(name, count, lines) ==
  RowOf(3, [name |-> name, count |-> count, lines |-> lines])
Material(name, qty) == [name |-> name, text |-> name, qty |-> qty]
Record(name, place, reward) ==
  RowOf(5, [name |-> name, place |-> place, reward |-> reward])
Water(name) == RowOf(4, [name |-> name, hydrates |-> TRUE])
Power(link, name, units) ==
  RowOf(5, [link |-> link, nameLink |-> "", name |-> name, units |-> units,
            renewable |-> "Yes"])
Stamp(link, coins) ==
  RowOf(3, [link |-> link, name |-> "x", coins |-> coins])
Jump(link, qty) ==
  RowOf(4, [link |-> link, name |-> "x", qty |-> qty, jumps |-> Nil,
            method |-> TRUE])
Sneak(link, condition, qty) ==
  RowOf(4, [link |-> link, name |-> "x", condition |-> condition,
            qty |-> qty])
Milestone(count, name, recipe) ==
  RowOf(2, [count |-> count, name |-> name, recipe |-> recipe])
Stage(stage, badge, lines) ==
  RowOf(4, [stage |-> stage, badge |-> badge, lines |-> lines])
Outfit(link, name) ==
  RowOf(4, [link |-> link, name |-> name, unlock |-> "shop"])
Music(link, game) ==
  RowOf(5, [link |-> link, name |-> "x", game |-> game, number |-> 1])
Key(key) == RowOf(2, [key |-> key, text |-> "x"])
StampDoc(rows) ==
  <<[title |-> "", rows |-> <<>>, goal |-> Nil, coins |-> Nil],
    Block("Stamp Coins", <<Head0>> \o rows)>>
CenterDoc(rows) ==
  <<[title |-> "", rows |-> <<>>, level |-> 4],
    Block("Area Requirements Pokémon", <<Head0>> \o rows)>>
Place(link, h1) ==
  <<[title |-> "", rows |-> <<>>, link |-> link, h1 |-> h1, name |-> "x"]>>

\* The clean document of a page, then one with rows that cannot be read.
Docs(page) ==
  CASE page = "items" ->
         Pair("materials", <<ItemRow("log", "Log", {"Toy"}),
                             ItemRow("bed", "Bed", {"Toy", "Food"})>>,
              <<ItemRow("leek", "", {}), ItemRow("é", "x", {})>>)
    [] page = "furniture" -> <<FurnitureDoc({"Paint"}), FurnitureDoc({})>>
    [] page = "crafting" ->
         Pair("Old", <<Recipe("bed", "Bed", <<Part("log", 2)>>),
                       Recipe("log", "Log", <<Part("log", Nil)>>)>>,
              <<Recipe("leek", "Leek", <<Part("log", 0)>>),
                Recipe("leek", "Leek", <<Part("leek", 1), Part("log", 3)>>)>>)
    [] page = "cooking" ->
         Pair("Soup", <<Meal("bed", "Stew", "Fly", <<Need("log")>>),
                        Meal("log", "Broth", "", <<Need("log")>>)>>,
              <<Meal("orb", "Orb", "Burn", <<Need("leek")>>),
                Meal("bed", "", "", <<>>)>>)
    [] page = "flavors" ->
         Pair("", <<HeadOf("Dry"),
                    RowOf(3, [link |-> "log", name |-> "Log", pp |-> "some",
                              boost |-> ""]),
                    RowOf(3, [link |-> "bed", name |-> "Bed", pp |-> "some",
                              boost |-> ""])>>,
              <<RowOf(3, [link |-> "leek", name |-> "", pp |-> "",
                          boost |-> ""]),
                RowOf(3, [link |-> "bed", name |-> "Bed", pp |-> "",
                          boost |-> "Cut"])>>)
    [] page = "lostrelics" ->
         Pair("Picture Name Description",
              <<HeadOf("L"), RowOf(3, [link |-> "log", name |-> "Log"]),
                RowOf(3, [link |-> "bed", name |-> "Bed"])>>,
              <<RowOf(3, [link |-> "", name |-> "x"])>>)
    [] page = "trade" -> <<Table("Value", <<>>), Table("", <<>>)>>
    [] page = "collect" -> <<<<>>, Table("Cost", <<>>)>>
    [] page = "friendship" -> <<Table("Tier", <<>>), Table("", <<>>)>>
    [] page = "magnet-rise" ->
         Pair("", <<Picture("bed", "Bed")>>, <<Picture("orb", "Orb")>>)
    [] page = "building" ->
         Pair("", <<Picture("leek-tent", "Tent"), Picture("hut", "Hut")>>,
              <<Picture("den", "")>>)
    [] page \in {"available-pokemon", "availablepokemon"} ->
         <<Table("", <<Pokemon(1, "Bulbasaur"), Pokemon(2, "Ivysaur")>>),
           Table("", <<Pokemon(0, "x"), Pokemon(3, ""), Pokemon(2, "Ivy")>>)>>
    [] page \in {"specialty", "favorites"} ->
         Pair("", <<CellsRow("fly", "Fly"), CellsRow("leek", "Leek")>>,
              <<CellsRow("bed", "")>>)
    [] page = "locations-index" ->
         Pair("", <<CellsRow("beach", "Beach"),
                    CellsRow("cloudisland", "Cloud Island")>>,
              <<CellsRow("bed", ""), CellsRow("dreamisland", "Dream")>>)
    [] page = "uniquepokemon" ->
         <<<<[title |-> "Mew", link |-> ""]>>,
           <<[title |-> "Mew", link |-> ""], [title |-> "", link |-> ""],
             [title |-> "é", link |-> ""]>>>>
    [] page = "legendary" ->
         <<<<[title |-> "Intro", found |-> TRUE, mentions |-> {},
              places |-> {}],
             [title |-> "Storm", found |-> TRUE, mentions |-> {"raikou"},
              places |-> {"cliff", "beach"}],
             [title |-> "", found |-> FALSE, mentions |-> {"mew"},
              places |-> {}]>>,
           <<[title |-> "Intro", found |-> FALSE, mentions |-> {"mew"},
              places |-> {}]>>>>
    [] page = "eventpokedex" ->
         Pair("No. Pic Name Specialty", <<EventRow(7, "mew")>>,
              <<EventRow(Nil, "x"), EventRow(8, "")>>)
    [] page = "litter" ->
         Pair("Pic Item", <<Litter(1, "mew", "log")>>,
              <<Litter(Nil, "x", "log"), Litter(2, "x", "")>>)
    [] page = "habitats-index" ->
         Pair("", <<Habitat("tall-grass", "Grass", 1),
                    Habitat("wet[1]", "Wet", Nil)>>,
              <<Habitat("other", "Other", 1), Habitat("bad", "", 3)>>)
    [] page = "abilities" ->
         Pair("Picture Move Effect Location",
              <<HeadOf("Primary"), Ability("", "Fly", {"beach"})>>,
              <<Ability("", "é", {}), Ability("", "", {})>>)
    [] page \in LocationPages -> <<Place("beach", TRUE), Place("beach", FALSE)>>
    [] page = "dreamislands" ->
         Pair("Doll Focus", <<Island("doll", "Doll", "log"),
                              Island("orb", "Orb", "")>>,
              <<Island("", "x", "log"), Island("x", "x", "orb")>>)
    [] page = "cloudislands" ->
         Pair("Picture Description Code", <<Cloud("One", "X7")>>,
              <<Cloud("Two", "é"), Cloud("", "X7")>>)
    [] page = "environmentlevel" ->
         Pair("Picture Name Level",
              <<HeadOf("beach"), Level("log", 2, FALSE),
                Level("bed", 3, TRUE)>>, <<Level("", 4, FALSE)>>)
    [] page = "pokemon-center" ->
         <<CenterDoc(<<Center("Beach", 5, <<Material("Log", 2)>>)>>),
           CenterDoc(<<Center("Beach", 5, <<Material("Log", 2),
                                             Material("Leek", 0)>>),
                       Center("Cliff", 1, <<>>), Center("", 1, <<>>)>>)>>
    [] page = "importantrequests" ->
         <<<<[title |-> "Hot Water", place |-> "beach"],
             [title |-> "Red", place |-> "beach"]>>,
           <<[title |-> "Hot Water", place |-> "beach"],
             [title |-> "", place |-> ""],
             [title |-> "Red", place |-> ""]>>>>
    [] page = "humanrecords" ->
         Pair("Name Rewards",
              <<HeadOf("Old"), Record("Red", "beach", "log"),
                Record("Pink", "beach", "cd")>>,
              <<Record("", "beach", ""), Record("Red", "", "")>>)
    [] page = "gameplay" ->
         <<<<[title |-> "Game", sections |-> <<"a", "">>]>>,
           <<[title |-> "", sections |-> <<>>]>>>>
    [] page = "flowers" ->
         LET Cell(link) == [link |-> link, name |-> "x", type |-> "Flower"]
             Cells(cells) ==
               Table("Standard Plants",
                     <<[head |-> TRUE, caption |-> TRUE],
                       [head |-> TRUE, caption |-> FALSE, cells |-> cells]>>)
         IN  <<Cells(<<Cell("rose"), Cell("fern")>>),
               Cells(<<Cell("rose"), Cell("rose"), Cell("")>>)>>
    [] page = "vegetables" ->
         <<<<[title |-> "Beach", stages |-> TRUE]>>,
           <<[title |-> "Beach", stages |-> FALSE]>>>>
    [] page = "water" ->
         Pair("Water Name", <<Water("Sea Water"), Water("Hot Water")>>,
              <<Water(""), Water("é")>>)
    [] page = "electricity" ->
         Pair("Units of Electricity",
              <<Power("wheel", "Wheel", <<2, 4>>), Power("fan", "Fan", <<1>>)>>,
              <<Power("dam", "Dam", <<>>)>>)
    [] page \in {"paint", "paint-color"} ->
         Pair("Colour", <<Paint("Pink", <<Cost("Red Paint", 1)>>),
                          Paint("Red", <<Cost("", 1)>>)>>,
              <<Paint("é", <<>>), Paint("Hot Water", <<Cost("?", 1)>>)>>)
    [] page = "paint-pattern" ->
         Pair("Location", <<Pattern("dots", "Dots"), Pattern("bars", "Bars")>>,
              <<Pattern("", "x")>>)
    [] page \in {"stampcard", "stampcard-card", "stampcard-reward"} ->
         <<StampDoc(<<Stamp("sun", 100), Stamp("moon", 200)>>),
           StampDoc(<<Stamp("sun", 100), Stamp("", 1), Stamp("moon", 0)>>)>>
    [] page = "mosslaxboosts" ->
         <<<<Block("Food Items", <<Head0, Key(1), Key(2)>>),
             Block("Effect", <<Head0, Key("Dry"), Key("Dry")>>)>>,
           Table("Effect", <<Key("Dry")>>)>>
    [] page = "jumprope" ->
         Pair("Method", <<Jump("log", 1), Jump("bed", 2)>>, <<Jump("x", 0)>>)
    [] page = "hideandsneak" ->
         Pair("Picture Item",
              <<Sneak("log", "Red", 1), Sneak("bed", "Red", 1)>>,
              <<Sneak("x", "", 1), Sneak("orb", "Red", 0)>>)
    [] page = "pokedexcompletion" ->
         Pair("Number Reward", <<Milestone(5, "Log recipe", TRUE)>>,
              <<Milestone(0, "x", FALSE), Milestone(9, "Orb", FALSE)>>)
    [] page = "teaminitiationchallenge" ->
         Pair("Item Requirements", <<Stage(1, "", <<Material("Log", 3)>>)>>,
              <<Stage(0, "", <<>>), Stage(2, "b", <<Material("Orb", 0)>>)>>)
    [] page = "customisation" ->
         <<<<[title |-> "Tops", table |-> TRUE,
              rows |-> <<Head0, Outfit("hat", "Hat"), Outfit("cap", "Cap")>>]>>,
           <<[title |-> "Tops", table |-> TRUE,
              rows |-> <<Head0, Outfit("hat", ""), Outfit("cap", "Cap")>>],
             [title |-> "Bags", table |-> FALSE, rows |-> <<>>]>>>>
    [] page = "cds" ->
         Pair("Name Locations", <<Music("town", "Red/Blue"),
                                  Music("cave", "Red/Blue")>>,
              <<Music("lab", "Green"), Music("", "Red/Blue")>>)

------------------------------------------------------------------------------
(* Schedules.                                                              *)

MCSite == [page \in Pages |-> Docs(page)]

Dry(page, n) == [page |-> page, version |-> n, dryRun |-> TRUE,
                 useFixture |-> TRUE, limit |-> Nil]
Load(page, n) == [page |-> page, version |-> n, dryRun |-> FALSE,
                  useFixture |-> TRUE, limit |-> Nil]

\* What a page's references need: the pages to load before it.
Before(page) ==
  CASE page \in {"furniture", "crafting", "flavors", "lostrelics",
                 "magnet-rise", "hideandsneak", "pokedexcompletion",
                 "teaminitiationchallenge"} -> <<Load("items", 1)>>
    [] page = "cooking" -> <<Load("items", 1), Load("specialty", 1)>>
    [] page \in {"importantrequests", "humanrecords", "cloudislands"} ->
         <<Load("locations-index", 1)>>
    [] page = "pokemon-center" ->
         <<Load("items", 1), Load("locations-index", 1)>>
    \* the site does not list the dream island yet
    [] page = "dreamislands" ->
         <<Load("items", 1), Load("locations-index", 2)>>
    [] page = "environmentlevel" ->
         <<Load("items", 1), Load("locations-index", 1), Load("crafting", 1)>>
    [] page = "stampcard-reward" -> <<Load("stampcard", 1)>>
    [] OTHER -> <<>>

MCSchedules ==
  {<<Dry(p, n)>> : p \in Pages, n \in 1 .. 2}
  \cup {Before(p) \o <<Load(p, 1), Load(p, 1)>> : p \in LoaderPages}
  \cup {Before(p) \o <<Load(p, 2), Load(p, 1), Load(p, 1)>> :
          p \in LoaderPages}
  \cup {<<Load("collect", 1)>>, <<[Load("items", 1) EXCEPT !.page = "?"]>>,
          <<[Load("items", 1) EXCEPT !.useFixture = FALSE]>>}
  \cup {<<[Load("items", 1) EXCEPT !.limit = 1], Load("items", 1)>>}

\* The items, the flags of the magnet-rise page, and the furniture page.
FlagSchedules ==
  {<<Load("items", 1), Load("magnet-rise", 1), Load("furniture", 1)>>}
==============================================================================
