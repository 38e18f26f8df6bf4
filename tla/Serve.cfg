\* Two clients of one http process, of any manners.
SPECIFICATION FairSpec
CONSTANTS
  Clients = {c1, c2}
  Nobody = Nobody
\* All the clients may have been served, or the process may have ended.
CHECK_DEADLOCK FALSE
INVARIANTS TypeOK AlarmHitsItsOwn OwnAnswer
PROPERTY Answered
