\* Two connections of one client, a request and a worker under the fairness of the program.
SPECIFICATION FairSpec
CONSTANTS
    Clients = {k1}
    MetaUsers = {m1, m2}
    Connections = {c1, c2}
    Accounts = {a1}
    Audiences = {}
    Requests = {r1}
    Workers = {w1}
    None = None
    MaxCredentials = 2
    Attempts = 1
PROPERTY ClientsCatchUp
CHECK_DEADLOCK FALSE
