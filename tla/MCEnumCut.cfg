SPECIFICATION MCSpec
CONSTANTS
  Networks <- MCNetworks
  Limits = {1, 2, 3, 4}
INVARIANTS MarksAgree ZddsAgree
PROPERTIES TopDownReports BottomUpReports Finishes
CHECK_DEADLOCK FALSE
