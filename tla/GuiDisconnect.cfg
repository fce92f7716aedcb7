\* Slow workers, but events handled at once and no failing kill.
SPECIFICATION Spec
CONSTANTS
    MaxWorkers = 2
    MaxKillFails = 0
    Timings <- PromptEvents
PROPERTY DisconnectStopsAnnouncing
