SPECIFICATION LiveSpec
CONSTANTS
  seed = seed
  embed = embed
  oldEmbed = oldEmbed
  newSeed = newSeed
  revisedSeed = revisedSeed
  Jobs = {seed, embed, oldEmbed, newSeed}
  Embedding = {embed, oldEmbed}
  Seed <- const_Seed
  Deployments <- const_Deployments
INVARIANTS
  TypeOK
  NoLockCycle
  EmbeddingIsOfText
  ZeroMeansFilled
PROPERTIES
  ImplementsCorpus
  JobsEnd
CHECK_DEADLOCK FALSE
