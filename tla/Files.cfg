\* Two jobs that need one asset, and a worker that sweeps the workspaces.
SPECIFICATION Spec
CONSTANTS
    j1 = j1
    j2 = j2
    Jobs <- MCJobs
    Ttl = 2
    JobTime = 1
    MaxTime = 3
SYMMETRY Symmetry
INVARIANTS
    RunningKeepsWorkspace
    SweepIsThorough
    TornByUnfinished
 
