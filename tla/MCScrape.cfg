SPECIFICATION Spec
CONSTANTS
  PlainTokens <- MCPlainTokens
  SlugOf <- MCSlugOf
  StripOf <- MCStripOf
  ItemTags <- MCItemTags
  ItemAnchors <- MCItemAnchors
  Meals <- MCMeals
  FlavorHeaders <- MCFlavorHeaders
  SizeOf <- MCSizeOf
  LegendaryNames <- MCLegendaryNames
  PlaceNames <- MCPlaceNames
  RecordCategory <- MCRecordCategory
  MosslaxFlavors <- MCMosslaxFlavors
  OutfitCategory <- MCOutfitCategory
  SourceGames <- MCSourceGames
  ItemKeyOf <- MCItemKeyOf
  RewardKeyOf <- MCRewardKeyOf
  SpecialtyKeyOf <- MCSpecialtyKeyOf
  PaintKeyOf <- MCPaintKeyOf
  FileNameOf <- MCFileNameOf
  Site <- MCSite
  Schedules <- MCSchedules
  MaxFaults = 1
CHECK_DEADLOCK FALSE
INVARIANTS
  TypeOK
  RowByRow
  NothingLost
  ExitTells
  Stored
  Idempotent
PROPERTIES
  EveryJobRuns
  OneRowAtATime
