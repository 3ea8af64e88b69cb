\* Sign-in, refresh and team management, one request at a time, with every fault.
SPECIFICATION Spec
CONSTANTS
    Users = {u1, u2}
    Orgs = {o1, o2}
    Calls = {c1}
    None = None
    Assignable = {"AGENCY_OWNER", "ACCOUNT_MANAGER"}
    MaxMembers = 3
    MaxTokens = 2
SYMMETRY Symmetry
INVARIANTS TypeOK PrivilegedRemains OneLivePerLogin
PROPERTIES OnlyManagersOfTheOrganisation KeptWhileUsable
CHECK_DEADLOCK FALSE
