SPECIFICATION FairSpec
CONSTANTS
    Tabs = {t1}
    Handlers = {h1, recovery}
    Recovery = recovery
    Sessions = {s1}
    Operations = {"start", "stop", "cleanup", "isolated-preflight", "profile"}
    None = None
INVARIANTS TypeOK OkMeansDone
PROPERTIES KeepsWhatWasSaved EveryRequestAnswered AbandonedRunsEnd
