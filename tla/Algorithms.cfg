SPECIFICATION Spec
CONSTANTS
  MaxMessages = 5
  Budgets = {0, 1, 3, 4}
  None = None
  PromotionLimit = 2
  Searches <- SmallSearches
  Inboxes <- SmallInboxes
  Releases <- SmallReleases
  Trends <- SmallTrends
  Reviewed <- SmallReviewed
  Histories <- SmallHistories
  Pages <- SmallPages
  Messages <- SmallMessages
  Estimate <- CostOf
  Topics = {"knowledge", "safety"}
  Replies <- SmallReplies
  Rosters <- SmallRosters
  Runs <- SmallRuns
  Faces <- SmallFaces
INVARIANTS WindowIsLongestSuffix SearchAnswersAsked InboxPutsWorkFirst ReleaseNeedsEveryCheck TrendsAddUp ReviewsCompareLikeWithLike TurnsEndSettled
CHECK_DEADLOCK FALSE
