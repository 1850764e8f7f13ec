\* The live server alone, asked to rescore as often as need be.
SPECIFICATION FairSpec

CONSTANTS
  Modes = {TRUE}
  Jobs = {}
  MaxInterviews = 2
  MaxSilver = 0
  MaxRows = 3

PROPERTY InterviewTriggersRescore
