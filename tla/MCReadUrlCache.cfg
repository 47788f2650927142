\* Two calls of one process for three images, of which the process keeps two.
CONSTANTS
    c1 = c1
    c2 = c2
    p1 = p1
    Keys = {k1, k2, k3}
    Processes = {p1}
    Calls = {c1, c2}
    ProcessOf <- OneProcess
    UrlTtl = 3
    CacheTtl = 1
    MaxEntries = 2
    None = None
SPECIFICATION CacheSpec
CONSTRAINT FewSets
SYMMETRY KeySymmetry
INVARIANTS
    CacheTypeOK
    LocalCacheBounded
    ServedUrlUsable
