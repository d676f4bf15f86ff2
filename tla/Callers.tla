------------------------------- MODULE Callers -------------------------------
(* The asynchronous calls of the panel that reach one server at once: HTTP *)
(* requests, cron jobs, timers and the bridge's commands.                  *)
CONSTANTS Calls,        \* the concurrent calls
          NoCall        \* nobody

ASSUME NoCallAssumption == NoCall \notin Calls
=============================================================================
