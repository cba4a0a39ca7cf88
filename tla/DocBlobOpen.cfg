SPECIFICATION BlobSpec
CONSTANTS
    p = p
    q = q
    r = r
    m = m
    s = s
    t = t
    i = i
    Proxy = {p, q, r}
    MallocArea = {}
    ShmArea = {s, t}
    Id = {i}
    MaxKept = 1
    Careful = FALSE
    NoArea = NoArea
    Nobody = Nobody
SYMMETRY Symmetric
INVARIANTS
    BlobAlive
