SPECIFICATION Spec
CONSTANTS N = 3 MaxHeaps = 2 MaxDepth = 3
INVARIANTS MainHoldsNothing
