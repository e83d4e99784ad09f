SPECIFICATION MCSpec
CONSTANTS
    c1 = c1
    c2 = c2
    notice = notice
    mail = mail
    p = p
    q = q
    Items = {notice, mail}
    Requests = {mail}
    Calls = {c1, c2}
    Clients = 2
    RoundLimit = 1
    RefusalLimit = 2
    Configs <- MCConfigs
    MaxTrouble = 1
    Peers = {p, q}
    Drafts <- MCDrafts
    Library = {"doc"}
    Batch = 1
    MaxArrived = 3
    Scenes <- MCScenes
INVARIANTS
    ReadIsStored
    RulesKept
    ResultIsClean
    MailReachesItsOwn
    NoDeafSleeper
PROPERTIES
    NotAskedAgain
    Ends
CHECK_DEADLOCK FALSE
