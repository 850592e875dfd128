SPECIFICATION FairSpec
CONSTANTS
  Policies = {"fixed", "adaptive"}
  MaximumLengths = {4}
  MinimumSurvival <- Half
  MaximumLoadRatio <- NineTenths
  Tokens <- TokenSet
  Prompt <- OnePrompt
  Models <- SomeModels
  Counts = {0, 6}
  BlockSize = 4
  Kinds = {"scripted", "replay", "persistent"}
  Verifications = {"token_major", "expert_major"}
  Costs <- BlockCosts
  BadToken = "bad"
  MaxFaults = 1
INVARIANTS TargetFollowsText DraftFollowsText
PROPERTIES ImplementsGreedyText CallReturns
CHECK_DEADLOCK FALSE
