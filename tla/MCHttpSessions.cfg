SPECIFICATION FairSessionsSpec
CONSTANTS
  r1 = r1
  r2 = r2
  r3 = r3
  Reqs <- MCReqs
  MaxSessions = 2
INVARIANTS SessionsAreAccounted
PROPERTIES SweepSparesBusySessions SessionsAreReclaimed
