SPECIFICATION ScheduleSpec
CONSTANTS
  Policies = {"adaptive"}
  MaximumLengths = {4}
  MinimumSurvival <- Half
  MaximumLoadRatio <- NineTenths
  Requests = {4}
  ReportCosts <- NoCosts
  MaxBlocks = 6
INVARIANT DraftingIsNeverDisabled
CHECK_DEADLOCK FALSE
