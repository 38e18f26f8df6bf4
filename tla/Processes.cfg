\* Three runs of snmpy that may overlap, one with a log_processor whose thread logs.
SPECIFICATION FairSpec
CONSTANTS
  Agents = {a1, a2, a3}
  Tailing = {a3}
\* All the runs may have ended.
CHECK_DEADLOCK FALSE
PROPERTIES PortKeepsApart TiedEnds Ends
