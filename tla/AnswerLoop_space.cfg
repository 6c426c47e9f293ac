SPECIFICATION Spec
CONSTANTS
  Workers = {w1, w2}
  Conversations = {c1, c2}
  Questions <- MCQuestions
  Long <- MCLong
  Cut <- MCCut
  Spaces = {"default", "product"}
  Selected = {"default", "product", None}
  DefaultSpace = "default"
  Library <- MCLibrary
  Backlog <- MCBacklog
  MaxAnswers = 2
  MaxFaults = 1
  None = None
INVARIANT SelectedSpaceIsCited
CHECK_DEADLOCK FALSE
