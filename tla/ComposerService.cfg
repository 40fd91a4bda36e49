SPECIFICATION Spec
CONSTANTS
    Clients = {c1, c2}
    Displays = {d1}
    Libraries <- MCLibraries
    Kinds = {"hotplug", "mode"}
    MaxBinds = 2
    MaxLayers = 1
    MaxVBlankCbs = 2
SYMMETRY ClientSymmetry
INVARIANTS
    RequestsRunInBoundService
    LayersAreCached
    EventsReachClient
    
