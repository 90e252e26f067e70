CONSTANTS
  None = None
  Packages <- MCPackages
  Placements <- MCPlacements
  WorkingSets <- MCWorkingSets
  Loads <- MCLoads
  LinkedPackages = {"l0"}
  WordMax = 63
  MinH12 = 1
  MinTrain = 1
  MinValidation = 1
  Ceiling = 3
  PrecisionInputs <- MCPrecisionInputs
  Registries <- MCRegistries
  Catalogs <- MCCatalogs
  Orders <- MCOrders
  Ordinals = {0, 1, 2}
  Paths <- MCPaths
  EditedPairs <- MCPairs
  MaxBlocks = 3
SPECIFICATION StudySpec
INVARIANTS
    GeneratorMeetsValidator
    AcceptedSeedsAreMatched
    AcceptedPoolIsAsFrozen
CHECK_DEADLOCK FALSE
