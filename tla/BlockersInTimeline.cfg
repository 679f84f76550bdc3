SPECIFICATION FeedSpec
CONSTANTS
  Good = {good}
  Doubtful = {}
  Bad = {bad}
  NoText = NoText
  Tags = {g1}
  Editors = {}
  Attempts = 2
  CanFail = TRUE
  Readers = {v1}
INVARIANTS
  BlockersAreHidden
