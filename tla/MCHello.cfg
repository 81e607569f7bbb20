SPECIFICATION EstateSpec
CONSTANTS
    Region = {ra, rb}
    Home = ra
    Owner = o
    Person = {m}
    Viewer = {v, c}
    SessionClient = {c}
    Waters = {20, 30}
    StartWater = 20
    MaxEstateChanges = 0
    MaxApplies = 0
CHECK_DEADLOCK FALSE
INVARIANT HelloHasTheWater
