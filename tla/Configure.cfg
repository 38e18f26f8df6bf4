\* Any of twelve plugin files, read in any order.
SPECIFICATION Spec
CONSTANT Files <- MCFiles
\* The agent is up, or it has refused to start.
CHECK_DEADLOCK FALSE
INVARIANTS TypeOK OutcomeByFiles OwnObjects OwnOids
