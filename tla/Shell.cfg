SPECIFICATION Spec
CONSTANTS
  MAXJOBS = 2
  Pids = {p1, p2}
  MaxJid = 2
  MaxKeys = 2
INVARIANTS ListIsOfChildren AtMostOneFG StoppedJobsAreStopped EveryChildIsReaped
PROPERTIES BackgroundIsSpared ForegroundReturns
\* the shell may have ended, or wait for ever in waitfg
CHECK_DEADLOCK FALSE
