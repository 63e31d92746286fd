SPECIFICATION HandedOnSpec
CONSTANTS
    m1 = m1
    m2 = m2
    m3 = m3
    other = other
    s1 = s1
    s2 = s2
    slack = slack
    webhook = webhook
    reset = reset
    Messages = {m1, m2, m3, other}
    Sessions = {s1, s2}
    Routes = {slack, webhook}
    Writers = {m1, m2, m3, other, stop, reset}
    Stopper = stop
    IoFails = TRUE
    Provided = {s1}
    Streams = {slack}
    Configs <- MCConfigs
    SessionOf <- MCSessionOf
    RouteOf <- MCRouteOf
    Children = {c}
    MaxTurns = 2
    MaxItems = 1
    MaxMissed = 1
    MaxLines = 3
INVARIANTS PersistIsAtomic
CHECK_DEADLOCK FALSE
