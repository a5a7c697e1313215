------------------------------- MODULE Loaders -------------------------------
(***************************************************************************)
(* The loaders of the scraper, one operator each, and the registry that    *)
(* chooses one for a page.  A loader is given the entities of a page that  *)
(* has at least one, the URL they come from, and what its lookups see:     *)
(* "seen" in the first round, "again" in the second.                       *)
(***************************************************************************)
EXTENDS LoadOps

CONSTANTS
  ItemKeyOf,       \* the slug of an item for a material's name
  RewardKeyOf,     \* the same for the name of a milestone's reward
  SpecialtyKeyOf,  \* the slug of a specialty for its name
  PaintKeyOf       \* the key of a paint for its name, "paint" left out

Slugs(in) == {in[i].slug : i \in DOMAIN in}

\* The upsert of an input whose payload is data and its source.
Row(table, i, data, url) == Upsert(table, i.slug, [url |-> url] @@ data)

\* The loaders without references: an upsert for each input.
Plain(in, table, Data(_), url) ==
  Once({}, ForEach(in, LAMBDA i : Row(table, i, Data(i), url)))

(* simple-loaders.ts, specialty-loader.ts, building-loader.ts *)
NoData(i) == <<>>

LoadFavoriteCategory(in, url) == Plain(in, "favoriteCategory", NoData, url)
LoadPaintPattern(in, url) == Plain(in, "paintPattern", NoData, url)
LoadSpecialty(in, url) == Plain(in, "specialty", NoData, url)
LoadBuildingKit(in, url) == Plain(in, "buildingKit", NoData, url)

LoadFriendshipTier(in, url) ==
  Plain(in, "friendshipTier",
        LAMBDA i : [tier |-> i.tier, requiredPoints |-> i.requiredPoints], url)

LoadGenerator(in, url) ==
  Plain(in, "generator",
        LAMBDA i : [outputUnits |-> i.outputUnits,
                    outputUnitsAlt |-> i.outputUnitsAlt,
                    isRenewable |-> i.isRenewable], url)

LoadWaterType(in, url) ==
  Plain(in, "waterType",
        LAMBDA i : [hydrates |-> i.hydrates,
                    spreadRadius |-> IF i.spreadRadius = Nil THEN 0
                                     ELSE i.spreadRadius,
                    trenchDistance |-> IF i.trenchDistance = Nil THEN 0
                                       ELSE i.trenchDistance], url)

LoadCustomizationItem(in, url) ==
  Plain(in, "customizationItem",
        LAMBDA i : [category |-> i.category, unlockMethod |-> i.unlockMethodEn,
                    unlockLocationId |-> Null], url)

LoadPlant(in, url) ==
  Plain(in, "plant",
        LAMBDA i : [type |-> i.type, growthDays |-> i.growthDays,
                    growthDaysWithGrow |-> i.growthDaysWithGrow,
                    requiresHydration |-> i.requiresHydration], url)

LoadJumpropeTier(in, url) ==
  Plain(in, "jumpropeTier",
        LAMBDA i : [tier |-> i.tier, requiredJumps |-> i.requiredJumps,
                    rewardType |-> i.rewardType, rewardRefId |-> Null], url)

LoadMosslaxBoost(in, url) ==
  Plain(in, "mosslaxBoost",
        LAMBDA i : [flavor |-> i.flavor, level |-> i.level], url)

LoadStampCard(in, url) ==
  Plain(in, "stampCard", LAMBDA i : [weekGoal |-> i.weekGoal], url)

(* pokemon-loader.ts: the slug is the last segment of the source's URL, so *)
(* every Pokémon of one page has the same.                                 *)
LoadPokemon(in, url) ==
  Once({}, ForEach(in, LAMBDA i :
    Upsert("pokemon", url,
           [url |-> url, pokedexNo |-> i.pokedexNo, isEvent |-> i.isEvent,
            isUniqueCharacter |-> i.isUniqueCharacter,
            isLegendary |-> i.isLegendary])))

(* unique-pokemon-loader.ts, magnet-rise-loader.ts *)
LoadUniquePokemonPatch(in) ==
  Once({}, ForEach(in, LAMBDA i :
    Patch("pokemon", i.slug, [isUniqueCharacter |-> TRUE])))

LoadMagnetRise(in) ==
  Once({}, ForEach(in, LAMBDA i :
    Patch("item", i.slug, [isMagnetRiseOnly |-> TRUE])))

------------------------------------------------------------------------------
(* The loaders that resolve references first and give up an input whose    *)
(* reference is not there.  The code meets these failures and those of the *)
(* operations in the order of the inputs; here those come first.           *)

Resolved(in, reads, There(_), Op(_)) ==
  Once(reads, ForEach(in, LAMBDA i : IF There(i) THEN <<>> ELSE Fail(i.slug))
              \o ForEach(in, LAMBDA i : IF There(i) THEN Op(i) ELSE <<>>))

(* quest-loader.ts, stamp-reward-loader.ts, minigame-reward-loader.ts *)
LoadQuest(in, url, seen) ==
  Resolved(in, {"location"}, LAMBDA i : Has(seen, "location", i.locationSlug),
           LAMBDA i : Row("quest", i, [locationId |-> i.locationSlug,
                                       sortOrder |-> i.sortOrder], url))

LoadStampReward(in, url, seen) ==
  Resolved(in, {"stampCard"}, LAMBDA i : Has(seen, "stampCard", i.cardSlug),
           LAMBDA i : Row("stampReward", i,
                          [cardId |-> i.cardSlug, tier |-> i.tier,
                           requiredStamps |-> i.requiredStamps,
                           coinAmount |-> i.coinAmount], url))

LoadHideAndSneakReward(in, url, seen) ==
  Resolved(in, {"item"}, LAMBDA i : Has(seen, "item", i.itemSlug),
           LAMBDA i : Row("hideAndSneakReward", i,
                          [condition |-> i.condition,
                           rewardType |-> i.rewardType,
                           rewardRefId |-> i.itemSlug], url))

(* pokedex-milestone-loader.ts *)
LoadPokedexMilestone(in, url, seen) ==
  LET Key(i) == RewardKeyOf[i.rewardItemNameEn]
  IN  Resolved(in, {"item"}, LAMBDA i : Has(seen, "item", Key(i)),
               LAMBDA i : Row("pokedexMilestone", i,
                              [requiredCount |-> i.requiredCount,
                               rewardType |-> i.rewardType,
                               rewardRefId |-> Key(i)], url))

(* legendary-loader.ts *)
LoadLegendaryAcquisition(in, url, seen) ==
  Resolved(in, {"pokemon", "location"},
           LAMBDA i : Has(seen, "pokemon", i.pokemonSlug),
           LAMBDA i : Row("legendaryAcquisition", i,
                          [pokemonId |-> i.pokemonSlug,
                           locationId |-> Ref(seen, "location",
                                              i.locationSlug)], url))

(* human-record-loader.ts: the parser names no reward, so no reward is     *)
(* ever found.                                                             *)
LoadHumanRecord(in, url, seen) ==
  LET Reward(i) == CASE i.rewardRefSlug = ""   -> Null
                     [] i.rewardType = "item"  -> Ref(seen, "item",
                                                      i.rewardRefSlug)
                     [] i.rewardType = "cd"    -> Ref(seen, "cd",
                                                      i.rewardRefSlug)
                     [] OTHER                  -> Null
  IN  Resolved(in, Asked("location", {in[i].locationSlug : i \in DOMAIN in}
                                     \ {""}),
               LAMBDA i : Has(seen, "location", i.locationSlug),
               LAMBDA i : Row("humanRecord", i,
                              [category |-> i.category,
                               locationId |-> i.locationSlug,
                               rewardType |-> i.rewardType,
                               rewardRefId |-> Reward(i)], url))

\* A reward is an item, a CD or the crafting recipe of an item.
RewardRef(seen, r) ==
  CASE r.rewardType = "item"   -> Ref(seen, "item", r.itemSlug)
    [] r.rewardType = "cd"     -> Ref(seen, "cd", r.itemSlug)
    [] r.rewardType = "recipe" -> Ref(seen, "craftingRecipe",
                                      "crafting-" \o r.itemSlug)

(* environment-reward-loader.ts: a reward that is not found is null. *)
LoadEnvironmentReward(in, url, seen) ==
  Resolved(in, {"location", "item", "craftingRecipe"},
           LAMBDA i : Has(seen, "location", i.locationSlug),
           LAMBDA i : Row("environmentReward", i,
                          [locationId |-> i.locationSlug, level |-> i.level,
                           rewardType |-> i.rewardType,
                           rewardRefId |-> RewardRef(seen, i)], url))

(* ditto-ability-loader.ts: the first Pokémon, of all there are and in the *)
(* order the database gives them, whose slug the text mentions.            *)
LoadDittoAbility(in, url, seen) ==
  LET Mentioned(i, table) == DOMAIN seen[table] \cap i.unlockTextEn
      First(i, table) == IF Mentioned(i, table) = {} THEN Null
                         ELSE CHOOSE s \in Mentioned(i, table) : TRUE
  IN  Resolved(in, {"pokemon", "location"},
               LAMBDA i : Mentioned(i, "pokemon") # {},
               LAMBDA i : Row("dittoAbility", i,
                              [type |-> i.type,
                               unlockPokemonId |-> First(i, "pokemon"),
                               unlockLocationId |-> First(i, "location")],
                              url))

------------------------------------------------------------------------------
(* The extensions of an item: a row for the item, compared on one field.   *)

Extension(in, table, Data(_), by, seen) ==
  Once({"item"}, ForEach(in, LAMBDA i :
    IF Has(seen, "item", i.itemSlug)
    THEN Compared(table, i.itemSlug, Data(i), by)
    ELSE Fail(i.itemSlug)))

LoadFood(in, seen) ==
  Extension(in, "food",
            LAMBDA i : [flavor |-> i.flavor, ppRestore |-> i.ppRestore,
                        moveBoost |-> i.moveBoost], "flavor", seen)

LoadLostRelic(in, seen) ==
  Extension(in, "lostRelic", LAMBDA i : [sizeClass |-> i.sizeClass], "never",
            seen)

LoadTradeValuation(in, seen) ==
  Extension(in, "tradeValuation",
            LAMBDA i : [baseValue |-> i.baseValue,
                        favoriteBonusMultiplier |-> i.favoriteBonusMultiplier],
            "baseValue", seen)

------------------------------------------------------------------------------
(* The loaders of two rounds: the entities first, then what hangs on them, *)
(* for the entities that are there by then.                                *)

\* The references that are there, and a failure for each that is not.
Children(slug, refs, Key(_), Data(_), table, seen, child) ==
  LET Found(r) == Has(seen, table, Key(r))
      rows == SelectSeq(refs, LAMBDA r : Found(r))
  IN  ForEach(refs, LAMBDA r : IF Found(r) THEN <<>> ELSE Fail(slug))
      \o Replace(child, slug, {Data(r) : r \in FirstOfKey(rows, Key)})

\* The second round: the inputs whose entity is there by then.
ForThose(in, again, table, Op(_)) ==
  ForEach(in, LAMBDA i : IF Has(again, table, i.slug) THEN Op(i) ELSE <<>>)

(* item-loader.ts: an item that is not there by then is a failure; the     *)
(* parsers give no locations, so those of an item are deleted.             *)
LoadItem(in, url, again) ==
  LET Data(i) == [category |-> i.category, isPaintable |-> i.isPaintable,
                  isPatternable |-> i.isPatternable,
                  isMagnetRiseOnly |-> i.isMagnetRiseOnly]
  IN  Twice({}, ForEach(in, LAMBDA i : Row("item", i, Data(i), url)),
            {"item"},
            ForEach(in, LAMBDA i :
              IF Has(again, "item", i.slug)
              THEN Replace("itemTag", i.slug, i.tags)
                   \o Replace("itemLocation", i.slug, {})
              ELSE Fail(i.slug)))

(* location-loader.ts: the parent must be among the locations of the page. *)
LoadLocation(in, url, again) ==
  LET Parent(i) ==
        IF i.parentSlug = "" THEN <<>>
        ELSE IF i.parentSlug \in Slugs(in)
                /\ Has(again, "location", i.parentSlug)
        THEN Patch("location", i.slug, [parentId |-> i.parentSlug])
        ELSE Fail(i.slug)
  IN  Twice({}, ForEach(in, LAMBDA i :
                  Row("location", i, [type |-> i.type, parentId |-> Null],
                      url)),
            {"location"}, ForEach(in, Parent))

(* habitat-loader.ts *)
LoadHabitat(in, url, seen, again) ==
  LET pokemon == UNION {ToSet(in[i].pokemonSlugs) : i \in DOMAIN in}
      Id(r) == r
  IN  Twice(Asked("pokemon", pokemon),
            ForEach(in, LAMBDA i : Row("habitat", i,
                                       [habitatNo |-> i.habitatNo,
                                        isEvent |-> i.isEvent], url)),
            {"habitat"},
            ForThose(in, again, "habitat", LAMBDA i :
              Children(i.slug, i.pokemonSlugs, Id, Id, "pokemon", seen,
                       "habitatPokemon")))

(* recipe-loader.ts: the recipe of an item is known by the item; of two    *)
(* recipes for one item the last has its ingredients loaded.               *)
RecipeLoader(in, url, seen, again, table, prefix, child, reads, Data(_)) ==
  LET Recipe(i) == [slug |-> prefix \o i.resultItemSlug, input |-> i]
      made == SelectSeq(in, LAMBDA i : Has(seen, "item", i.resultItemSlug))
      last == SelectSeq([k \in DOMAIN made |-> [at |-> k] @@ Recipe(made[k])],
                        LAMBDA r : \A k \in r.at + 1 .. Len(made) :
                                     Recipe(made[k]).slug # r.slug)
      Item(ing) == ing.itemSlug
      Made(ing) == [itemId |-> ing.itemSlug, quantity |-> ing.quantity]
  IN  Twice({"item"} \cup reads,
            ForEach(in, LAMBDA i :
              IF Has(seen, "item", i.resultItemSlug)
              THEN Row(table, Recipe(i),
                       [resultItemId |-> i.resultItemSlug] @@ Data(i), url)
              ELSE Fail(Recipe(i).slug)),
            {table},
            ForThose(last, again, table, LAMBDA r :
              Children(r.slug, r.input.ingredients, Item, Made, "item", seen,
                       child)))

LoadCookingRecipe(in, url, seen, again) ==
  LET bonus == {in[i].bonusSpecialtyNameEn : i \in DOMAIN in} \ {""}
      Bonus(i) == IF i.bonusSpecialtyNameEn = "" THEN Null
                  ELSE Ref(seen, "specialty",
                           SpecialtyKeyOf[i.bonusSpecialtyNameEn])
  IN  RecipeLoader(in, url, seen, again, "cookingRecipe", "cooking-",
                   "cookingIngredient", Asked("specialty", bonus),
                   LAMBDA i : [mealCategory |-> i.mealCategory,
                               bonusSpecialtyId |-> Bonus(i)])

LoadCraftingRecipe(in, url, seen, again) ==
  RecipeLoader(in, url, seen, again, "craftingRecipe", "crafting-",
               "craftingIngredient", {},
               LAMBDA i : [resultQuantity |-> i.resultQuantity,
                           unlockMethod |-> i.unlockMethod])

\* A material is an item known by its name.
NamedItem(m) == ItemKeyOf[m.itemNameEn]
Material(m) == [itemId |-> NamedItem(m), quantity |-> m.quantity]

(* pokemon-center-loader.ts *)
LoadPokemonCenter(in, url, seen, again) ==
  LET there == SelectSeq(in, LAMBDA i : Has(seen, "location",
                                            i.locationSlug))
      first == Resolved(in, {}, LAMBDA i : Has(seen, "location",
                                               i.locationSlug),
                        LAMBDA i : Row("pokemonCenter", i,
                          [locationId |-> i.locationSlug,
                           requiredEnvLevel |-> i.requiredEnvLevel,
                           requiredPokemonCount |-> i.requiredPokemonCount],
                          url)).first
      named == UNION {ToSet(in[i].materials) : i \in DOMAIN in}
  IN  Twice({"location"} \cup Asked("item", named), first, {"pokemonCenter"},
            ForThose(there, again, "pokemonCenter", LAMBDA i :
              Children(i.slug, i.materials, NamedItem, Material, "item", seen,
                       "pokemonCenterMaterial")))

(* team-challenge-loader.ts *)
LoadTeamChallenge(in, url, seen, again) ==
  LET named == UNION {ToSet(in[i].requirements) : i \in DOMAIN in}
  IN  Twice(Asked("item", named),
            ForEach(in, LAMBDA i :
              Row("teamChallenge", i,
                  [stage |-> i.stage,
                   badgeName |-> IF i.badgeName = "" THEN "(empty)"
                                 ELSE i.badgeName], url)),
            {"teamChallenge"},
            ForThose(in, again, "teamChallenge", LAMBDA i :
              Children(i.slug, i.requirements, NamedItem, Material, "item",
                       seen, "teamChallengeRequirement")))

(* island-variant-loader.ts: a reward's row is known by its position. *)
LoadIslandVariant(in, url, seen, again) ==
  LET there == SelectSeq(in, LAMBDA i : Has(seen, "location",
                                            i.locationSlug))
      first == Resolved(in, {}, LAMBDA i : Has(seen, "location",
                                               i.locationSlug),
                        LAMBDA i : Row("islandVariant", i,
                                       [locationId |-> i.locationSlug],
                                       url)).first
      Rewards(i) ==
        LET found == {k \in DOMAIN i.rewards :
                        RewardRef(seen, i.rewards[k]) # Null}
        IN  ForEach(i.rewards, LAMBDA r : IF RewardRef(seen, r) # Null
                                          THEN <<>> ELSE Fail(i.slug))
            \o Replace("islandReward", i.slug,
                       {[at |-> k, rewardType |-> i.rewards[k].rewardType,
                         rewardRefId |-> RewardRef(seen, i.rewards[k])]
                          : k \in found})
      rewards == UNION {ToSet(in[i].rewards) : i \in DOMAIN in}
  IN  Twice({"location"} \cup Asked("item", rewards), first,
            {"islandVariant"}, ForThose(there, again, "islandVariant", Rewards))

(* paint-color-loader.ts: an ingredient is a paint of the same page. *)
LoadPaintColor(in, url, again) ==
  LET SlugsOf(key) == SelectSeq(in, LAMBDA i : PaintKeyOf[i.nameEn] = key)
      \* of two paints with one key the last has it
      SlugAt(ing) == LET paints == SlugsOf(PaintKeyOf[ing.itemNameEn])
                     IN  IF paints = <<>> THEN "" ELSE Last(paints).slug
      Part(ing) == [ingredientColorId |-> SlugAt(ing),
                    quantity |-> ing.quantity]
  IN  Twice({}, ForEach(in, LAMBDA i : Row("paintColor", i, <<>>, url)),
            {"paintColor"},
            ForEach(in, LAMBDA i :
              IF Has(again, "paintColor", i.slug)
              THEN Children(i.slug, i.ingredients, SlugAt, Part, "paintColor",
                            again, "paintRecipe")
              ELSE Fail(i.slug)))

(* cd-loader.ts: the games first, one for each code. *)
LoadSourceGames(in, url) ==
  LET games == [i \in DOMAIN in |-> in[i].sourceGame]
      first == SelectSeq([i \in DOMAIN games |-> [at |-> i] @@ games[i]],
                         LAMBDA g : \A k \in 1 .. g.at - 1 :
                                      games[k].code # g.code)
  IN  ForEach(first, LAMBDA g : Row("sourceGame", [slug |-> g.code],
                                    [code |-> g.code,
                                     generation |-> g.generation], url))

LoadCd(in, url, again) ==
  Twice({}, LoadSourceGames(in, url), {"sourceGame"},
        Resolved(in, {}, LAMBDA i : Has(again, "sourceGame", i.sourceGame.code),
                 LAMBDA i : Row("cd", i, [sourceGameId |-> i.sourceGame.code],
                                url)).first)

(* event-loader.ts, litter-loader.ts: only children, replaced for each     *)
(* owner that an input names.                                              *)
LoadByOwner(in, reads, There(_), Owner(_), Slug(_), Child(_), child) ==
  LET there == SelectSeq(in, There)
      heads == FirstOfKey(there, Owner)
      RowsOfOwner(o) == {Child(i) : i \in {there[k] : k \in
                            {j \in DOMAIN there : Owner(there[j]) = o}}}
  IN  Once(reads,
           ForEach(in, LAMBDA i : IF There(i) THEN <<>> ELSE Fail(Slug(i)))
           \o ForEach(SetToSeq({Owner(i) : i \in heads}),
                      LAMBDA o : Replace(child, o, RowsOfOwner(o))))

LoadEventPokemon(in, seen) ==
  LoadByOwner(in, {"event", "pokemon"},
              LAMBDA i : /\ Has(seen, "event", i.eventSlug)
                         /\ Has(seen, "pokemon", i.pokemonSlug),
              LAMBDA i : i.eventSlug, LAMBDA i : i.slug,
              LAMBDA i : i.pokemonSlug, "eventPokemon")

LoadPokemonLitterReward(in, seen) ==
  LoadByOwner(in, {"pokemon", "item"},
              LAMBDA i : /\ Has(seen, "pokemon", i.pokemonSlug)
                         /\ Has(seen, "item", i.itemSlug),
              LAMBDA i : i.pokemonSlug, LAMBDA i : i.pokemonSlug,
              LAMBDA i : i.itemSlug, "pokemonLitterReward")
==============================================================================
