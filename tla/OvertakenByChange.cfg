SPECIFICATION Spec
CONSTANTS
    Users = {u1}
    Admins = {}
    SessionIds = {s1, s2}
    Tokens = {}
    Objects = {}
    RequestIds = {r1, r2}
    Password = Password
    MaxHashes = 3
SYMMETRY Symmetry
PROPERTY PasswordsCheckedAreCurrent
CHECK_DEADLOCK FALSE
