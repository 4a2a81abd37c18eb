SPECIFICATION FairSpec
CONSTANTS
    Sessions = {s1, s2, s3}
    Stoppers = {t1}
    Starter = loop
    NoSession = none
INVARIANTS TypeOK ShownOfSession RunningHasWorker NoWorkerForgotten
PROPERTIES ReplacedWorkersEnd OneSessionAfterAnother
