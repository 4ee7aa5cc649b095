SPECIFICATION Spec
CONSTANTS
    Commands = {{"r", "R", "a", "p"}}
    Resumes = {TRUE}
    Faults = {"abort"}
    MaxFaults = 1
    MaxRelaunches = 1
    MaxReruns = 0
    MaxIssued = 12
INVARIANT ReportedIsRegistered
