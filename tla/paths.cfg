SPECIFICATION Spec
CONSTANTS
    N = 2
    MaxPaths = 2
    MaxDepth <- Depths
    MaxOcc = 2
    MaxListed = 1
    Assigns = {1}
    Sends = {1}
INVARIANTS OccIsHolds EveryPathIsOwned ExclusivesApart
PROPERTIES EndsWhenLetGo
