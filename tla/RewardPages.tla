----------------------------- MODULE RewardPages -----------------------------
(***************************************************************************)
(* The parsers of the pages about collections and their rewards: paints,   *)
(* stamps, minigames, milestones, challenges, outfits and music CDs.       *)
(***************************************************************************)
EXTENDS ParsePage, TLC

CONSTANTS
  MosslaxFlavors,  \* Bitter, Dry, Sour, Spicy, Sweet
  OutfitCategory,  \* the category of a heading of customisation.shtml
  SourceGames      \* the code and generation of a game's name

StampCard == "weekly-stamp-card"
BonusTier == 5

(* paint.ts: a cost line that cannot be read is an issue, and the paint is *)
(* given without that ingredient; an empty line is skipped.                *)
CostCell(lines, at) ==
  LET Line(l) == IF l.text = "" THEN Nothing
                 ELSE IF l.text = "?" \/ l.qty < 1 THEN Unexpected(at)
                 ELSE Entity([itemNameEn |-> l.text, quantity |-> l.qty])
  IN  Each(lines, Line)

PaintColorRow(row) ==
  LET slug == SlugOf[row.name]
      cost == CostCell(row.lines, slug)
  IN  IF row.head \/ ~row.cen \/ row.tds < 3 THEN Nothing
      ELSE IF row.name = "" THEN Unexpected("?")
      ELSE [cost EXCEPT !.entities = <<>>]
           ++ Checked([slug |-> slug, nameEn |-> row.name,
                       ingredients |-> cost.entities], slug # "", slug)

PaintColorParser(doc) == OrMissing(Each(RowsOf(doc, "Colour"), PaintColorRow))

PaintPatternRow(row) ==
  LET slug == "pattern-" \o row.link
      cost == CostCell(row.lines, slug)
  IN  IF row.head \/ ~row.cen \/ row.tds < 3 THEN Nothing
      ELSE IF row.link = "" THEN Unexpected("?")
      ELSE IF row.name = "" THEN Unexpected(slug)
      ELSE [cost EXCEPT !.entities = <<>>] ++ Entity([slug |-> slug])

PaintPatternParser(doc) ==
  OrMissing(Each(RowsOf(doc, "Location"), PaintPatternRow))

(* stamp-card.ts: the goal is read from the prose (the first block) or is  *)
(* five, so the card is given whatever the page is; the tier of a reward   *)
(* is its row, and one more reward of tier five is for the whole card.     *)
WeekGoal(doc) == IF doc[1].goal > 0 THEN doc[1].goal ELSE 5

StampCardParser(doc) == Entity([slug |-> StampCard, weekGoal |-> WeekGoal(doc)])

StampRow(row, tier) ==
  LET slug == "stamp-reward-tier" \o ToString(tier) \o "-" \o row.link
  IN  IF row.tds < 3 THEN Nothing
      ELSE IF row.name = "" \/ row.link = "" \/ row.coins < 1
           THEN Unexpected("tier" \o ToString(tier))
      ELSE Entity([slug |-> slug, cardSlug |-> StampCard, tier |-> tier,
                   requiredStamps |-> 1, coinAmount |-> row.coins])

BonusReward(doc) ==
  Entity([slug |-> "stamp-reward-tier5-bonus", cardSlug |-> StampCard,
          tier |-> BonusTier, requiredStamps |-> WeekGoal(doc),
          coinAmount |-> IF doc[1].coins > 0 THEN doc[1].coins ELSE 1500])

StampRewardParser(doc) ==
  LET rows == SelectSeq(RowsOf(doc, "Stamp Coins"), LAMBDA r : ~r.head)
  IN  IF Titled(doc, "Stamp Coins") = <<>> THEN Issue("missing-section", "")
      ELSE OrMissing(Each([i \in DOMAIN rows |-> i],
                          LAMBDA i : StampRow(rows[i], i))
                     ++ BonusReward(doc))

(* mosslax.ts: every flavor of one table with every level of another; a    *)
(* flavor or level counts once, where its first row is.                    *)
KeysOf(rows, Keys) ==
  FoldLeft(LAMBDA acc, row :
             IF IsData(row, 2) /\ row.key \in Keys \ ToSet(acc)
                /\ row.text # ""
             THEN Append(acc, row.key) ELSE acc,
           <<>>, rows)

MosslaxParser(doc) ==
  LET Missing(title) == IF Titled(doc, title) = <<>>
                        THEN Issue("missing-section", "") ELSE Nothing
      missing == Missing("Food Items") ++ Missing("Effect")
      Boost(flavor, level) ==
        [slug |-> "mosslax-" \o flavor \o "-lv" \o ToString(level),
         flavor |-> flavor, level |-> level]
      product == Each(KeysOf(RowsOf(doc, "Effect"), MosslaxFlavors),
                      LAMBDA f : Each(KeysOf(RowsOf(doc, "Food Items"), 1 .. 3),
                                      LAMBDA l : Entity(Boost(f, l))))
  IN  IF missing # Nothing THEN missing ELSE OrMissing(product)

(* jumprope.ts: every reward table in turn; a tier is the position of a    *)
(* row among the rows of all of them.                                      *)
JumpropeRow(row, tier) ==
  LET slug == "jumprope-tier" \o ToString(tier) \o "-" \o row.link
  IN  IF row.tds < 4 THEN Nothing
      ELSE IF row.link = "" \/ row.name = "" \/ row.qty < 1
           THEN Unexpected("tier" \o ToString(tier))
      ELSE Checked([slug |-> slug, tier |-> tier, rewardType |-> "item",
                    requiredJumps |-> IF row.jumps = Nil THEN 0
                                      ELSE row.jumps,
                    itemSlug |-> row.link], row.method, slug)

JumpropeParser(doc) ==
  LET tables == SelectSeq(doc, LAMBDA t : t.title \in {"Method", "Score"})
      rows == SelectSeq(AllRows(tables), LAMBDA r : ~r.head)
  IN  OrMissing(Each([i \in DOMAIN rows |-> i],
                     LAMBDA i : JumpropeRow(rows[i], i)))

(* hide-and-sneak.ts *)
HideAndSneakRow(row) ==
  LET slug == "hideandsneak-" \o SlugOf[row.condition] \o "-" \o row.link
  IN  IF ~IsData(row, 4) THEN Nothing
      ELSE IF row.link = "" \/ row.name = "" \/ row.condition = ""
           THEN Unexpected("?")
      ELSE IF row.qty < 1 THEN Unexpected(row.link)
      ELSE Entity([slug |-> slug, condition |-> row.condition,
                   rewardType |-> "item", itemSlug |-> row.link])

HideAndSneakParser(doc) ==
  OrMissing(Each(RowsOf(doc, "Picture Item"), HideAndSneakRow))

(* pokedex-milestone.ts *)
MilestoneRow(row) ==
  LET slug == "pokedex-milestone-" \o ToString(row.count)
  IN  IF ~IsData(row, 2) THEN Nothing
      ELSE IF row.count < 1 THEN Unexpected("?")
      ELSE IF row.name = "" THEN Unexpected(slug)
      ELSE Entity([slug |-> slug, requiredCount |-> row.count,
                   rewardType |-> IF row.recipe THEN "recipe" ELSE "item",
                   rewardItemNameEn |-> row.name])

PokedexMilestoneParser(doc) ==
  OrMissing(Each(RowsOf(doc, "Number Reward"), MilestoneRow))

(* team-challenge.ts: a requirement without a positive quantity is one of  *)
(* what the whole line says.                                               *)
RequirementsCell(lines) ==
  [i \in DOMAIN lines |->
    [itemNameEn |-> IF lines[i].qty > 0 THEN lines[i].name ELSE lines[i].text,
     quantity |-> IF lines[i].qty > 0 THEN lines[i].qty ELSE 1]]

TeamChallengeRow(row) ==
  LET slug == "team-challenge-stage" \o ToString(row.stage)
  IN  IF ~IsData(row, 4) THEN Nothing
      ELSE IF row.stage \notin 1 .. 9 THEN Unexpected("?")
      ELSE Entity([slug |-> slug, stage |-> row.stage,
                   badgeName |-> row.badge,
                   requirements |-> RequirementsCell(row.lines)])

TeamChallengeParser(doc) ==
  OrMissing(Each(RowsOf(doc, "Item Requirements"), TeamChallengeRow))

(* customization.ts: the table that follows a heading of a category; a     *)
(* category without one is an issue.                                       *)
CustomizationRow(row, category) ==
  LET slug == "customization-" \o category \o "-" \o row.link
  IN  IF ~IsData(row, 4) THEN Nothing
      ELSE IF row.link = "" \/ row.name = "" \/ row.unlock = ""
           THEN Unexpected(category)
      ELSE Entity([slug |-> slug, category |-> category,
                   unlockMethodEn |-> row.unlock])

CustomizationParser(doc) ==
  LET known == SelectSeq(doc, LAMBDA h : h.title \in DOMAIN OutfitCategory)
      Section(h) ==
        IF ~h.table THEN Unexpected(OutfitCategory[h.title])
        ELSE Each(h.rows, LAMBDA row :
                    CustomizationRow(row, OutfitCategory[h.title]))
  IN  OrMissing(Each(known, Section))

(* cds.ts: a CD of a game that is not in the table is refused.             *)
CdsRow(row) ==
  IF ~IsData(row, 5) THEN Nothing
  ELSE IF row.link = "" \/ row.name = "" THEN Unexpected("?")
  ELSE IF row.game \notin DOMAIN SourceGames THEN Unexpected(row.link)
  ELSE Entity([slug |-> row.link, sourceGame |-> SourceGames[row.game],
               cdNumber |-> IF row.number > 0 THEN row.number ELSE Nil])

CdsParser(doc) == OrMissing(Each(RowsOf(doc, "Name Locations"), CdsRow))
==============================================================================
