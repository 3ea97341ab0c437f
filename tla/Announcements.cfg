SPECIFICATION Spec
CONSTANTS
    i1 = i1
    c1 = c1
    j1 = j1
    u1 = u1
    u2 = u2
    Users = {u1, u2, u3}
    Issues = {i1}
    Comments = {c1}
    Journals = {j1}
    IssueOf <- IssueOfContainer
    None = None
    Bodies <- Texts
    RequestIds = {r1, r2}
    MaxRequests = 2
INVARIANTS
    RecordedMentionsAreTold
    JournalTextsAreAnnounced
PROPERTIES
    MentionsAreToldOnce
    OnlyReadersAreTold
    CommentsAreAnnounced
