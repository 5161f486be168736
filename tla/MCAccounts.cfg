SPECIFICATION FairSpec
CONSTANTS
    p1 = p1
    p2 = p2
    i1 = i1
    i2 = i2
    n1 = n1
    n2 = n2
    r1 = r1
    r2 = r2
    Person = {p1, p2}
    Id = {i1, i2}
    Name = {n1, n2}
    NameOf <- MCNameOf
    IdOf <- MCIdOf
    Owner = {n1}
    Admin = {n2}
    Browser = {b1, b2}
    Run = {r1, r2}
    Nobody = Nobody
    Missing = Missing
    Surveys <- MCSurveys
    MaxRequests = 2
INVARIANTS TypeOK OnlyNewInserts ErasureIsFinal NoLostUpdate
CHECK_DEADLOCK FALSE
PROPERTY RequestsAnswered
