CONSTANTS
    Threads = {t1, t2, t3}
    Fds = {3, 4}
    MaxRemote = 3
SPECIFICATION FairSpec
INVARIANT TypeOK AgentMatchesTable
PROPERTY ReleasedFilesClose
