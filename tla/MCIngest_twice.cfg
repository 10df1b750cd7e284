SPECIFICATION Spec
CONSTANTS
  seed = seed
  embed = embed
  oldEmbed = oldEmbed
  newSeed = newSeed
  revisedSeed = revisedSeed
  Jobs = {seed, embed}
  Embedding = {}
  Seed <- const_Seed
  Deployments <- TwiceOverOldTexts
INVARIANT NoTwins
CHECK_DEADLOCK FALSE
