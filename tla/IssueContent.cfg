SPECIFICATION Spec
CONSTANTS
    p = p
    i1 = i1
    c1 = c1
    c2 = c2
    Containers <- ProjectContainers
    Project = p
    Issues = {i1}
    Comments = {c1, c2}
    IssueOf <- IssueOfComment
    ParentComment <- ReplyTo
    Attachments = {a1, a2}
    None = None
    RequestIds = {r1, r2, r3}
    Limit = 1
    Statuses = {open, blocked, closed}
    Open = open
    Closed = closed
    Reasons = {wontfix, resolved}
    Texts = {text}
    Null = Null
    Absent = Absent
SYMMETRY Symmetry
INVARIANTS
    LinkedAttachmentsAreStored
    UnnamedBlobsAreTransient
    SettledContentIsStored
