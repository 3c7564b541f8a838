CONSTANTS
    ann = ann
    ben = ben
    cid = cid
    dan = dan
    Player = {ann, ben, cid}
    Server = {"west", "east"}
    Zone = {"west", "east"}
    Host <- HostDef
    Room = 3
    Hasty = {}
    MaxMail = 1
    MaxAway = 2
    None = None
SPECIFICATION Spec
SYMMETRY Symmetry
INVARIANTS KickHeard
