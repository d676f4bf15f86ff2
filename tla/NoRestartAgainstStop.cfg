\* One exit during a requested stop, away from midnight.
CONSTANTS MaxExits = 2
          MaxTime = 2
          DayLength = 2
          StopWindow = 1
          CrashWindow = 1
          MaxRapid = 1
SPECIFICATION Spec
PROPERTIES NoRestartAgainstStop
CHECK_DEADLOCK FALSE
