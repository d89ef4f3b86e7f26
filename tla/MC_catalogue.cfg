SPECIFICATION CatalogueSpec
CONSTANTS
  Parts = {"history", "upgrade", "pair", "adoption"}
  Watches <- AllWatches
  MaxEdits = 2
  Rollbacks = TRUE
  Legacies <- EachLegacy
  MaxPairEdits = 3
  PairRollbacks = TRUE
INVARIANTS LitForAReason HeadIsOne
PROPERTIES KeptByMigrations AdoptsOnlyExact EveryUpgradeCompletes
CHECK_DEADLOCK FALSE
