-------------------------- MODULE MCDraftSchedule --------------------------
\* Values for the draft scheduler alone: the thresholds the code defaults to
\* and reports without expert costs.
EXTENDS DraftSchedule

Half == <<1, 2>>
NineTenths == <<9, 10>>
NoCosts == {<<0, 0>>}
============================================================================
