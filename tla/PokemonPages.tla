---------------------------- MODULE PokemonPages ----------------------------
(***************************************************************************)
(* The parsers of the pages about Pokémon, their habitats and abilities.   *)
(***************************************************************************)
EXTENDS ParsePage, TLC

CONSTANTS
  LegendaryNames,  \* the keywords of legendary.ts, in the order of its list
  PlaceNames       \* its location slugs, in the order of its list

\* The event that every row of eventpokedex.shtml is attributed to.
DefaultEvent == "event-eventpokedex-default"

(* available-pokemon.ts: every row of exactly four centred cells whose     *)
(* number matches.  An entity has no slug of its own.                      *)
AvailableRow(row) ==
  IF row.cen # 4 \/ row.no = Nil THEN Nothing
  ELSE IF row.name = "" THEN Unexpected(ToString(row.no))
  ELSE Checked([pokedexNo |-> row.no, nameEn |-> row.name,
                specialties |-> row.specialties, isEvent |-> FALSE,
                isUniqueCharacter |-> FALSE, isLegendary |-> FALSE],
               row.no > 0, ToString(row.no))

AvailablePokemonParser(doc) == OrMissing(Each(AllRows(doc), AvailableRow))

(* specialty.ts *)
SpecialtyRow(row) ==
  LET slug == PlainToken(row.link)
  IN  IF row.head \/ ~row.cells \/ slug = "" THEN Nothing
      ELSE IF row.name = "" THEN Unexpected(slug)
      ELSE Entity([slug |-> slug])

SpecialtyParser(doc) == OrMissing(Each(AllRows(doc), SpecialtyRow))

(* unique-pokemon.ts: one section per heading; the slug is the image of    *)
(* the next row, else what is left of the name.                            *)
UniqueSection(section) ==
  LET slug == OrElse(section.link, StripOf[section.title])
  IN  IF section.title = "" THEN Unexpected("?")
      ELSE Checked([slug |-> slug], slug # "", slug)

UniquePokemonParser(doc) == OrMissing(Each(doc, UniqueSection))

(* legendary.ts: the text between two headings that the page's text has;   *)
(* a heading that is empty or not found leaves its text to the section     *)
(* before.  The first section that mentions a legendary has it.            *)
LocatedSections(doc) ==
  LET Join(s, t) == [s EXCEPT !.mentions = @ \cup t.mentions,
                              !.places = @ \cup t.places]
      Step(acc, s) ==
        IF s.title # "" /\ s.found THEN Append(acc, s)
        ELSE IF acc = <<>> THEN acc
        ELSE [acc EXCEPT ![Len(acc)] = Join(@, s)]
  IN  FoldLeft(Step, <<>>, doc)

LegendaryParser(doc) ==
  LET sections == LocatedSections(doc)
      Place(s) == LET named == SelectSeq(PlaceNames,
                                         LAMBDA p : p \in s.places)
                  IN  IF named = <<>> THEN "" ELSE named[1]
      Earlier(i) == UNION {sections[j].mentions : j \in 1 .. i - 1}
      New(i) == SelectSeq(LegendaryNames,
                          LAMBDA p : p \in sections[i].mentions \ Earlier(i))
      Acquisition(s, p) == [slug |-> "legendary-" \o p, pokemonSlug |-> p,
                            locationSlug |-> Place(s),
                            sourceSectionEn |-> s.title]
  IN  OrMissing(Each([i \in DOMAIN sections |-> i],
                     LAMBDA i : Each(New(i), LAMBDA p :
                                  Entity(Acquisition(sections[i], p)))))

(* event-pokedex.ts: all rows belong to the one default event. *)
EventPokedexRow(row) ==
  LET slug == OrElse(row.link, row.nameLink)
  IN  IF row.head \/ ~row.cen \/ row.tds < 4 THEN Nothing
      ELSE IF row.no = Nil THEN Unexpected("?")
      ELSE IF slug = "" \/ row.name = "" THEN Unexpected(ToString(row.no))
      ELSE Checked([slug |-> "event-pokemon-eventpokedex-default-" \o slug,
                    eventSlug |-> DefaultEvent, pokemonSlug |-> slug,
                    eventPokedexNo |-> row.no], row.no > 0, slug)

EventPokedexParser(doc) ==
  OrMissing(Each(RowsOf(doc, "No. Pic Name Specialty"), EventPokedexRow))

(* litter.ts *)
LitterRow(row) ==
  LET slug == OrElse(row.link, row.nameLink)
  IN  IF row.head \/ ~row.cen \/ row.tds < 5 THEN Nothing
      ELSE IF row.no = Nil THEN Unexpected("?")
      ELSE IF \/ slug = "" \/ row.item = ""
              \/ row.name = "" \/ row.itemName = ""
           THEN Unexpected(ToString(row.no))
      ELSE Checked([slug |-> "litter-reward-" \o slug \o "-" \o row.item,
                    pokemonSlug |-> slug, itemSlug |-> row.item,
                    pokedexNo |-> row.no], row.no > 0, slug)

LitterParser(doc) == OrMissing(Each(RowsOf(doc, "Pic Item"), LitterRow))

(* habitats-index.ts: an event habitat, or one whose number does not       *)
(* match, has no number.                                                   *)
HabitatsRow(row) ==
  LET no == IF row.event THEN Nil ELSE row.no
  IN  IF ~IsData(row, 4) \/ row.link = "" THEN Nothing
      ELSE IF row.name = "" THEN Unexpected(row.link)
      ELSE Checked([slug |-> row.link, habitatNo |-> no,
                    isEvent |-> row.event, pokemonSlugs |-> <<>>],
                   no # 0, row.link)

HabitatsIndexParser(doc) == OrMissing(Each(AllRows(doc), HabitatsRow))

(* friendship.ts: the source has no such table yet. *)
FriendshipParser(doc) ==
  LET tables == Each(doc, LAMBDA t : IF t.title = "Tier" THEN Nothing
                                     ELSE Unexpected("unrecognized-table"))
  IN  IF doc = <<>> THEN Issue("missing-section", "no-tier-table-yet")
      ELSE IF tables = Nothing THEN Issue("missing-section", "")
      ELSE tables

(* favorites.ts *)
FavoritesRow(row) ==
  LET slug == PlainToken(row.link)
  IN  IF row.head \/ ~row.cells \/ slug = "" THEN Nothing
      ELSE IF row.name = "" THEN Unexpected(slug)
      ELSE Entity([slug |-> slug])

FavoritesParser(doc) == OrMissing(Each(AllRows(doc), FavoritesRow))

(* abilities.ts: Primary or Secondary carries over from a header row; the  *)
(* slug is the image, else what is left of the name.                       *)
AbilitiesRow(row, type) ==
  LET slug == OrElse(row.link, SlugOf[row.name])
  IN  IF row.tds < 4 THEN Nothing
      ELSE IF row.name = "" THEN Unexpected("?")
      ELSE IF type = "" THEN Unexpected(row.name)
      ELSE Checked([slug |-> slug, type |-> type,
                    unlockTextEn |-> row.unlock], slug # "", slug)

AbilitiesParser(doc) ==
  LET Step(acc, row) ==
        IF row.head
        THEN IF row.title \in {"Primary", "Secondary"}
             THEN [acc EXCEPT !.type = row.title] ELSE acc
        ELSE [acc EXCEPT !.result = @ ++ AbilitiesRow(row, acc.type)]
  IN  OrMissing(FoldLeft(Step, [type |-> "", result |-> Nothing],
                         RowsOf(doc, "Picture Move Effect Location")).result)
=============================================================================
