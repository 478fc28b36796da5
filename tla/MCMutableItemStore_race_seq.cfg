SPECIFICATION Spec
CONSTANTS
    k1 = k1
    k2 = k2
    k3 = k3
    Threads = {t1, t2}
    Targets <- MCTargets
    Seqs = {1, 2}
    Shards = 2
    ShardOf <- MCShardOf
    MaxItems = 1
    MaxClock = 3
    NoItem = NoItem
    NoTarget = NoTarget
PROPERTIES
    SeqNeverDrops
