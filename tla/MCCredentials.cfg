\* Requests, probes, upstreams that change, one restart.
SPECIFICATION FairSpec
CONSTANTS
    Callers = {"request"}
    Prober = "probe"
    MaxCrashes = 1
INVARIANTS
    TypeOK
    HealthIsFresh
PROPERTIES
    HealthConverges
