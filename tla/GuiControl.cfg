\* Any timing at all and prompt workers, one failing kill.
SPECIFICATION Spec
CONSTANTS
    MaxWorkers = 3
    MaxKillFails = 1
    Timings <- AnyAndPrompt
INVARIANTS
    TypeOK
    RedWhenNothingRuns
    KnownWorkerIsExclusive
    NoOrphan
