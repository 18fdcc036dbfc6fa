CONSTANTS
    cube = cube
    earth = earth
    All <- Catalogue
    Dependencies <- Needs
    Created = {cube, earth}
    Native = {earth}
    MaxFaults = 1
    MaxQueries = 3
SPECIFICATION Spec
INVARIANTS ExtensionUsable OpenNeedsNothing
PROPERTIES DumpReturns
CHECK_DEADLOCK FALSE
