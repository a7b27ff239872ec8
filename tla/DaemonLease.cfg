CONSTANTS
    Daemons = {d1, d2, d3}
    Inodes = {i1, i2, i3}
    NoInode = NoInode  NoDaemon = NoDaemon
SPECIFICATION Spec
INVARIANT OneDaemon
CHECK_DEADLOCK FALSE
SYMMETRY Names
