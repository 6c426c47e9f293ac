SPECIFICATION Spec
CONSTANTS
  Workers = {w1, w2}
  Conversations = {c1, c2}
  Questions <- MCQuestions
  Long <- MCLong
  Cut <- MCCut
  Spaces = {"default", "product"}
  Selected = {"product", None}
  DefaultSpace = "default"
  Library <- MCLibrary
  Backlog <- MCBacklog
  MaxAnswers = 2
  MaxFaults = 1
  None = None
SYMMETRY Interchangeable
INVARIANTS InboxKnowsTheAnswers RecurrencesHaveAnswers
PROPERTY WeakAnswersAreFollowedUp
CHECK_DEADLOCK FALSE
