---------------------------- MODULE PageRegistry ----------------------------
(***************************************************************************)
(* The pages of the source that the command line knows: the parser of each *)
(* (index.ts), its URL, and the loader of each (loaders/registry.ts).      *)
(***************************************************************************)
EXTENDS ItemPages, PokemonPages, WorldPages, RewardPages

CONSTANTS ItemKeyOf, RewardKeyOf, SpecialtyKeyOf, PaintKeyOf

L == INSTANCE Loaders

LocationPages == {"location-bleakbeach", "location-palettetown",
                  "location-rockyridges", "location-sparklingskylands",
                  "location-witheredwastelands"}

Pages == LocationPages \cup
  {"abilities", "available-pokemon", "availablepokemon", "building", "cds",
   "cloudislands", "collect", "cooking", "crafting", "customisation",
   "dreamislands", "electricity", "environmentlevel", "eventpokedex",
   "favorites", "flavors", "flowers", "friendship", "furniture", "gameplay",
   "habitats-index", "hideandsneak", "humanrecords", "importantrequests",
   "items", "jumprope", "legendary", "litter", "locations-index",
   "lostrelics", "magnet-rise", "mosslaxboosts", "paint", "paint-color",
   "paint-pattern", "pokedexcompletion", "pokemon-center", "specialty",
   "stampcard", "stampcard-card", "stampcard-reward",
   "teaminitiationchallenge", "trade", "uniquepokemon", "vegetables", "water"}

\* Every page that has a parser has a loader but these two.
LoaderPages == Pages \ {"collect", "gameplay"}

\* The URL that a fixture claims: the name of the page, also where the
\* page of the site has another one.
SourceUrl(page) == page

\* The parser of a page applied to its document.
Parse(page, doc) ==
  CASE page = "abilities"          -> AbilitiesParser(doc)
    [] page \in {"available-pokemon", "availablepokemon"}
                                   -> AvailablePokemonParser(doc)
    [] page = "building"           -> BuildingParser(doc)
    [] page = "cds"                -> CdsParser(doc)
    [] page = "cloudislands"       -> CloudIslandsParser(doc)
    [] page = "collect"            -> CollectParser(doc)
    [] page = "cooking"            -> CookingParser(doc)
    [] page = "crafting"           -> CraftingParser(doc)
    [] page = "customisation"      -> CustomizationParser(doc)
    [] page = "dreamislands"       -> DreamIslandsParser(doc)
    [] page = "electricity"        -> ElectricityParser(doc)
    [] page = "environmentlevel"   -> EnvironmentRewardParser(doc)
    [] page = "eventpokedex"       -> EventPokedexParser(doc)
    [] page = "favorites"          -> FavoritesParser(doc)
    [] page = "flavors"            -> FlavorsParser(doc)
    [] page = "flowers"            -> FlowersParser(doc)
    [] page = "friendship"         -> FriendshipParser(doc)
    [] page = "furniture"          -> FurnitureParser(doc)
    [] page = "gameplay"           -> GameplayParser(doc)
    [] page = "habitats-index"     -> HabitatsIndexParser(doc)
    [] page = "hideandsneak"       -> HideAndSneakParser(doc)
    [] page = "humanrecords"       -> HumanRecordsParser(doc)
    [] page = "importantrequests"  -> QuestsParser(doc)
    [] page = "items"              -> ItemsParser(doc)
    [] page = "jumprope"           -> JumpropeParser(doc)
    [] page = "legendary"          -> LegendaryParser(doc)
    [] page = "litter"             -> LitterParser(doc)
    [] page \in LocationPages      -> LocationDetailParser(doc)
    [] page = "locations-index"    -> LocationsIndexParser(doc)
    [] page = "lostrelics"         -> LostRelicsParser(doc)
    [] page = "magnet-rise"        -> MagnetRiseParser(doc)
    [] page = "mosslaxboosts"      -> MosslaxParser(doc)
    [] page \in {"paint", "paint-color"} -> PaintColorParser(doc)
    [] page = "paint-pattern"      -> PaintPatternParser(doc)
    [] page = "pokedexcompletion"  -> PokedexMilestoneParser(doc)
    [] page = "pokemon-center"     -> PokemonCenterParser(doc)
    [] page = "specialty"          -> SpecialtyParser(doc)
    [] page \in {"stampcard", "stampcard-card"} -> StampCardParser(doc)
    [] page = "stampcard-reward"   -> StampRewardParser(doc)
    [] page = "teaminitiationchallenge" -> TeamChallengeParser(doc)
    [] page = "trade"              -> TradeParser(doc)
    [] page = "uniquepokemon"      -> UniquePokemonParser(doc)
    [] page = "vegetables"         -> VegetablesParser(doc)
    [] page = "water"              -> WaterParser(doc)

\* The loader of a page applied to its entities; without any, every loader
\* returns before it asks the database.
DispatchLoader(page, in, url, seen, again) ==
  CASE in = <<>>                   -> L!Once({}, <<>>)
    [] page = "abilities"          -> L!LoadDittoAbility(in, url, seen)
    [] page \in {"available-pokemon", "availablepokemon"}
                                   -> L!LoadPokemon(in, url)
    [] page = "building"           -> L!LoadBuildingKit(in, url)
    [] page = "cds"                -> L!LoadCd(in, url, again)
    [] page \in {"cloudislands", "dreamislands"}
                                   -> L!LoadIslandVariant(in, url, seen, again)
    [] page = "cooking"            -> L!LoadCookingRecipe(in, url, seen, again)
    [] page = "crafting"           -> L!LoadCraftingRecipe(in, url, seen, again)
    [] page = "customisation"      -> L!LoadCustomizationItem(in, url)
    [] page = "electricity"        -> L!LoadGenerator(in, url)
    [] page = "environmentlevel"   -> L!LoadEnvironmentReward(in, url, seen)
    [] page = "eventpokedex"       -> L!LoadEventPokemon(in, seen)
    [] page = "favorites"          -> L!LoadFavoriteCategory(in, url)
    [] page = "flavors"            -> L!LoadFood(in, seen)
    [] page \in {"flowers", "vegetables"} -> L!LoadPlant(in, url)
    [] page = "friendship"         -> L!LoadFriendshipTier(in, url)
    [] page \in {"furniture", "items"} -> L!LoadItem(in, url, again)
    [] page = "habitats-index"     -> L!LoadHabitat(in, url, seen, again)
    [] page = "hideandsneak"       -> L!LoadHideAndSneakReward(in, url, seen)
    [] page = "humanrecords"       -> L!LoadHumanRecord(in, url, seen)
    [] page = "importantrequests"  -> L!LoadQuest(in, url, seen)
    [] page = "jumprope"           -> L!LoadJumpropeTier(in, url)
    [] page = "legendary"          -> L!LoadLegendaryAcquisition(in, url, seen)
    [] page = "litter"             -> L!LoadPokemonLitterReward(in, seen)
    [] page \in LocationPages \cup {"locations-index"}
                                   -> L!LoadLocation(in, url, again)
    [] page = "lostrelics"         -> L!LoadLostRelic(in, seen)
    [] page = "magnet-rise"        -> L!LoadMagnetRise(in)
    [] page = "mosslaxboosts"      -> L!LoadMosslaxBoost(in, url)
    [] page \in {"paint", "paint-color"} -> L!LoadPaintColor(in, url, again)
    [] page = "paint-pattern"      -> L!LoadPaintPattern(in, url)
    [] page = "pokedexcompletion"  -> L!LoadPokedexMilestone(in, url, seen)
    [] page = "pokemon-center"     -> L!LoadPokemonCenter(in, url, seen, again)
    [] page = "specialty"          -> L!LoadSpecialty(in, url)
    [] page \in {"stampcard", "stampcard-card"} -> L!LoadStampCard(in, url)
    [] page = "stampcard-reward"   -> L!LoadStampReward(in, url, seen)
    [] page = "teaminitiationchallenge"
                                   -> L!LoadTeamChallenge(in, url, seen, again)
    [] page = "trade"              -> L!LoadTradeValuation(in, seen)
    [] page = "uniquepokemon"      -> L!LoadUniquePokemonPatch(in)
    [] page = "water"              -> L!LoadWaterType(in, url)
==============================================================================
