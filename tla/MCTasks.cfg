SPECIFICATION TasksSpec
CONSTANTS
  Client = c
  Lead = l
  Members = {m}
  Price = 3
  Opening = 9
  Amounts = {2}
  Coins = {3}
  TaskPosts = {"IN_PROGRESS", "IN_REVIEW"}
  SubtaskPosts = {"IN_PROGRESS", "COMPLETED"}
  MaxTasks = 2
  MaxSubtasks = 1
INVARIANTS
  EarnedOncePerTask
  CoinsConserved
PROPERTIES
  PriceIsShared
  LapsedReviewEnds
