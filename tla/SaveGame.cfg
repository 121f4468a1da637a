CONSTANTS
    field = field
    cave = cave
    gate = gate
    camp = camp
    pool = pool
    door = door
    exit = exit
    ambush = ambush
    Slots = {s0, s1}
    NoSlot = NoSlot
    Maps = {field, cave}
    NoMap = NoMap
    Starts = {gate, camp, pool}
    NoTag = NoTag
    Checkpoints = {camp, pool}
    Entrances = {door, exit}
    Volumes = {ambush}
    Home <- Place
    DestinationPlayerStartTag <- LeadsTo
    DefaultPlayerStartTag = gate
    MaxProgress = 2
    NoFile = NoFile
SPECIFICATION Spec
INVARIANTS
    DeathLeadsBack
    StartInMap
PROPERTIES
    CheckpointsStayReached
    RecordedNotRespawned
    ImplementsSavedGames
