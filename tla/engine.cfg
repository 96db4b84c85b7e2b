SPECIFICATION FairSpec
CONSTANTS
    Launchers = {l1}
    Steps <- MCSteps
    Rank <- MCRank
    Undoable <- MCUndoable
    Deferred <- MCDeferred
INVARIANTS TypeOK Bookkeeping InPlanOrder NewestUndoneFirst VerdictIsHonest
PROPERTIES NoApplyAfterError EveryRunEnds
