SPECIFICATION MCSpec
CONSTANTS
  Good = {good}
  Doubtful = {}
  Bad = {bad}
  NoText = NoText
  Tags = {g1}
  Editors = {e1, e2}
  Readers = {v1}
  Attempts = 2
  CanFail = TRUE
  Fillers = {f1, f2}
  TrendsTtl = 2
  RanksTtl = 1
  MaxTime = 3
  Assets = {a1}
  Posters = {p1, p2}
  Events = {n1, n2, n3}
  Own = {n3}
  ByJob = {n2}
INVARIANTS
  ShownVideosWereCleared
  ApprovedUnlessEdited
  PagesForget
  StandingRulesAreHonoured
  ToldOncePerRun
PROPERTIES
  RefusedStaysOut
  JobsLand
CHECK_DEADLOCK FALSE
