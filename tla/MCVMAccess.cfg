SPECIFICATION Spec
CONSTANTS
    Users = {u1}
    VMs = {v1, v2}
    LibvirtIDs = {l1, l2}
    Configs = {c1, c2}
    Powers = {stopped, running}
    Stopped = stopped
    Requests = {r1, r2}
    NoRow = NoRow
    MaxLeft = 2
SYMMETRY Symmetry
INVARIANT TypeOK
PROPERTIES ImplementsPromises PowerUndoneByRaceOnly
