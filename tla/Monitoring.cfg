SPECIFICATION FairSpec
CONSTANTS
  Clients = {c1, c2}
  Fds = {f1}
  MaxMsgs = 2
  Requests = {"NONE", "GNSS_COLD"}
INVARIANTS AnswersAreYours TakenOnce FreedUnused
PROPERTIES RequestAnswered ShutdownCompletes
CHECK_DEADLOCK FALSE
