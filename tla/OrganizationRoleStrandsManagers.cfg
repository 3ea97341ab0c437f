SPECIFICATION Spec
CONSTANTS
    a1 = a1
    u1 = u1
    u2 = u2
    Users = {u1, u2}
    Admins = {}
    Projects = {p1}
    Teams = {t1}
    Organizations = {o1}
SYMMETRY Symmetry
PROPERTY RoleRevocationKeepsManagers
