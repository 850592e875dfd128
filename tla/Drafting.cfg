SPECIFICATION DraftingSpec
CONSTANTS
  Policies = {"fixed", "adaptive"}
  MaximumLengths = {2, 4}
  MinimumSurvival <- Half
  MaximumLoadRatio <- NineTenths
  Requests = {0, 3, 4}
  ReportCosts <- TwoCosts
  MaxBlocks = 5
  Tokens <- TokenSet
  Prompt <- OnePrompt
  Kinds = {"replay", "persistent"}
  ProviderRequests = {0, 2, 4}
  MaxText = 4
  MaxThrows = 1
INVARIANTS LadderDiscipline PartsAgree
CHECK_DEADLOCK FALSE
