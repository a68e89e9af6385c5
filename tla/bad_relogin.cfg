SPECIFICATION Spec
CONSTANTS
    Account = {boss, cook, guest}
    boss = boss
    i1 = i1
    i2 = i2
    cook = cook
    guest = guest
    Kind <- Kinds
    Grants <- MCGrants
    Sid = {1, 2, 3}
    Proc = {1, 2}
    Instance = {i1, i2}
    MaxPw = 2
    None = None
    Conn = {1, 2, 3}
    MAX_CONNECTIONS_PER_USER = 1
    Psid = {1, 2}
    Imp = {1}
    Code = {k1}
    MaxVer = 2
    MaxGen = 2
    Display = {1}
    Pairing = {1, 2}
    Tablet = {1, 2}
    Mixes <- MCMixes
INVARIANT ReloginWorks
CHECK_DEADLOCK FALSE
