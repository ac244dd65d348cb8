CONSTANTS
    Threads = {t1, t2}
    Fds = {3, 4}
    MaxRemote = 3
SPECIFICATION Spec
INVARIANT CallsReachOwnFile
