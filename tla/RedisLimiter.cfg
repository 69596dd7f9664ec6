CONSTANTS
    NoMember = NoMember
    Instances = {i1, i2}
    Suffixes = {s1, s2}
    Limit = 2
    WindowSeconds = 2
    MaxClock = 6
SPECIFICATION RedisSpec
INVARIANTS RedisBounded RedisRemembers
