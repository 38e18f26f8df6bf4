\* Two runs of snmpy, with a log_processor whose thread logs.
SPECIFICATION FairSpec
CONSTANTS
  Agents = {a1, a2}
  Tailing = {a1, a2}
\* All the runs may have ended.
CHECK_DEADLOCK FALSE
PROPERTY OnlyOneRuns
