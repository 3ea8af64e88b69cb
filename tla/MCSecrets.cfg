\* Two processes, one credential, two rotations, an operator who restarts before each.
SPECIFICATION Spec
CONSTANTS
    Processes = {p1, p2}
    Leads = {l1, l2}
    Credentials = {c1}
    Persons = {u1}
    None = None
    l1 = l1
    l2 = l2
    u1 = u1
    Owner <- MCOwner
    Batches <- MCBatches
    HasAppSecret = TRUE
    RestartsFirst = TRUE
    MaxVersion = 3
SYMMETRY Symmetry
INVARIANTS TypeOK Readable ReceiptMeansErased
PROPERTY StatusIsTheTeams
CHECK_DEADLOCK FALSE
