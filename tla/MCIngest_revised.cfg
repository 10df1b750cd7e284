SPECIFICATION Spec
CONSTANTS
  seed = seed
  embed = embed
  oldEmbed = oldEmbed
  newSeed = newSeed
  revisedSeed = revisedSeed
  Jobs = {revisedSeed}
  Embedding = {}
  Seed <- const_Seed
  Deployments <- RevisedOverSynced
PROPERTY SeedValuesWin
CHECK_DEADLOCK FALSE
