SPECIFICATION Spec
CONSTANTS
    A = A
    B = B
    None = None
    Diskettes = {A, B}
    Operations = {"read", "screen"}
    Captured = {"read"}
    Modes = {"rw", "overlay"}
    Workloads <- MCWorkloads
    Geometries <- MCGeometries
    Volumes <- MCVolumes
    Searches <- MCSearches
    Transfers <- MCTransfers
SYMMETRY Interchangeable
INVARIANTS GuestSeesItsWrites NoOrphanWait PresentIsAttached NothingLost MediaTransfers
CHECK_DEADLOCK FALSE
