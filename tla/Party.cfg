CONSTANTS
    ann = ann
    ben = ben
    cid = cid
    dan = dan
    Player = {ann, ben, cid, dan}
    Server = {"west", "east"}
    Zone = {"west", "east"}
    Host <- HostDef
    Room = 3
    Hasty = {}
    MaxMail = 1
    MaxAway = 1
    None = None
SPECIFICATION CalmSpec
SYMMETRY Symmetry
INVARIANTS TypeOK PoolsFollowParties SharedLoot MemoryFollowsRows NeverOverfull OneLeader
