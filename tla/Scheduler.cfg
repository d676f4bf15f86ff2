\* Three concurrent requests on two schedules, one of the server's own.
CONSTANTS Calls = {c1, c2, c3}
          NoCall = NoCall
          Ids = {s1, s2}
          Own = {s1}
          MaxZones = 2
          MaxJobs = 2
SYMMETRY Symmetry
SPECIFICATION Spec
INVARIANTS OrphansAreRaced QuietIsInStep
CHECK_DEADLOCK FALSE
