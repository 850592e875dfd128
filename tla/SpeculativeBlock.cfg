SPECIFICATION Spec
CONSTANTS
  Policies = {"adaptive"}
  MaximumLengths = {4}
  MinimumSurvival <- Half
  MaximumLoadRatio <- NineTenths
  Tokens <- TokenSet
  Prompt <- OnePrompt
  Models <- TwoModels
  Counts = {6}
  BlockSize = 4
  Kinds = {"persistent"}
  Verifications = {"expert_major"}
  Costs <- BlockCosts
  BadToken = "bad"
  MaxFaults = 0
INVARIANT EmptyProposalIsHarmless
CHECK_DEADLOCK FALSE
