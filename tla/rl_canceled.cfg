SPECIFICATION FairSpec
CONSTANTS
  Conversations = {"session"}
  Faults = {}
  Situations = {"cancel"}
  MaxRepairs = 2
  MaxAttempt = 1
  Replies = 0
  Polls = 0
  Cancels = 1
  MaxCrashes = 0
CHECK_DEADLOCK FALSE
PROPERTY TerminatedRunEndsCanceled
