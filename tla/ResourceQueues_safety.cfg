SPECIFICATION Spec
CONSTANTS
    T1 = t1
    J1 = j1
    Tasks = {t1, t2, t3}
    Jobs = {j1}
    CurrentTask <- RunsJob
    Resources = {r1}
    Critical = {r1}
    Requests <- Plainly
    Nesters = {j1}
    Nesting = 2
INVARIANTS GrantsAreRight
PROPERTIES WaitersAreSafe
CHECK_DEADLOCK FALSE
