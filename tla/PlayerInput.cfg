SPECIFICATION InputSpec
CONSTANTS
    a = a
    b = b
    Places = {a, b}
    NoPlace = NoPlace
    Enemies = {enemy}
    NPCs = {npc}
    Checkpoints = {checkpoint}
    NoActor = NoActor
    MoveTo <- MCMoveTo
    Keys = {LMB, one}
    LMB = LMB
    Channelled = {LMB}
INVARIANTS
    RunEnds
    
