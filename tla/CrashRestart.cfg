\* Two exits of one server around midnight, at most one restart per window.
CONSTANTS MaxExits = 2
          MaxTime = 2
          DayLength = 2
          StopWindow = 1
          CrashWindow = 1
          MaxRapid = 1
SPECIFICATION FairSpec
INVARIANTS TypeOK RestartsAreLimited OneStream
PROPERTIES CrashIsFollowedUp
CHECK_DEADLOCK FALSE
