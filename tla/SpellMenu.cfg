CONSTANTS
    o = o
    p = p
    q = q
    s0 = s0
    s1 = s1
    s2 = s2
    Abilities = {o, p, q}
    Passives = {p, q}
    Slots = {s0, s1, s2}
    PassiveSlots = {s1, s2}
    NoTag = NoTag
    NoSave = NoSave
    StartSlot <- StartsWith
    Requirement <- FromTwo
    Awarded <- Two
    MaxPlayerLevel = 2
    MaxDebt = 0
    MaxPending = 2
SPECIFICATION FairSpec
INVARIANTS
    TypesMatch
    
    

    
\* Nothing remains to be asked when the bounds are reached.
CHECK_DEADLOCK FALSE
