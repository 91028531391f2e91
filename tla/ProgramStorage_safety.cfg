CONSTANTS
    Tasks = {t1, t2}
    IplTask = t1
    Cells = {c1, c2}
    c1 = c1
    c2 = c2
    c3 = c3
    ordinary = ordinary
    overlay = overlay
    another = another
    private = private
    low = low
    high = high
    Nobody = Nobody
    Nucleus = Nucleus
    Region = Region
    Modules <- MCModules
    InPlace = {overlay, another}
    NotHashed = {private}
    Isolated = {private}
    Translated = {}
    CorePages <- MCCorePages
    Windows = {low, high}
    LoadWindow <- MCLoadWindow
    SpaceForms <- MCSpaceForms
    MaxFrames = 2
    MaxEntries = 1
    LastPage = 3
    Extents <- MCExtents
    VolumeSectors = 15
    SwapSectors = 8
    Rounds = 20
    Misplaced = FALSE
    AreaContended = FALSE
SYMMETRY Interchangeable
SPECIFICATION Spec
INVARIANTS ReferencesAreRight PagesInOnePlace StorageApart TransientHeld WorkAreasAreRight
