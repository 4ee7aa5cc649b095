\* Runs of all steps, of R alone and of p alone; two faults and a relaunch.
SPECIFICATION FairSpec
CONSTANTS
    Commands = {{"r", "a", "p"}, {"r", "R", "a", "p"}, {"R"}, {"p"}}
    Resumes = {FALSE}
    Faults = {"abort", "saveFails", "torn", "expire", "poll"}
    MaxFaults = 2
    MaxRelaunches = 1
    MaxReruns = 1
    MaxIssued = 30
INVARIANT TypeOK
 
INVARIANT ReportedIsRegistered
 
