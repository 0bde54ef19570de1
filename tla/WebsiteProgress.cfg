SPECIFICATION Spec
CONSTANTS
    Parts = {"desk", "view"}
    k1 = k1
    k2 = k2
    x1 = x1
    x2 = x2
    d1 = d1
    d2 = d2
    s1 = s1
    s2 = s2
    u1 = u1
    u2 = u2
    t1 = t1
    t2 = t2
    p1 = p1
    Keys = {k1}
    MaxPosts = 0
    MaxSeats = 2
    MaxActive = 1
    Texts = {x1, x2}
    NoForm = NoForm
    Trips = {d1, d2}
    MaxCount = 2
    Buses <- MCBuses
    Seats = {s1, s2}
    Anything = Anything
    Users = {u1}
    Tokens = {t1, t2}
    Plans = {p1}
    OtherTabs = FALSE
    Nobody = Nobody
    MaxPage = 1
    NoPage = NoPage
PROPERTIES
    StaleAccountCleared
    ViewCatchesUp
    PayLinkOpens
CHECK_DEADLOCK FALSE
