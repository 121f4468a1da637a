CONSTANTS
    o = o
    p = p
    q = q
    s0 = s0
    s1 = s1
    Abilities = {o, p, q}
    Passives = {p, q}
    Slots = {s0, s1}
    NoTag = NoTag
    NoSave = NoSave
    StartSlot <- StartsWith
    Requirement <- FromTwo
    Awarded <- Three
    MaxPlayerLevel = 3
    MaxDebt = 1
    MaxPending = 1
SPECIFICATION ServerSpec
INVARIANTS
    SlotsExclusive
    PassivesRunInSlots
    
\* Nothing remains to be done when the bounds are reached.
CHECK_DEADLOCK FALSE
