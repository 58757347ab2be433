\* Two threads on one mapped file: what flush and drain guarantee while the
\* coin raises abortflag at wrapped drains.
SPECIFICATION Spec
CONSTANTS
    t1 = t1  t2 = t2  A = A  B = B  k1 = k1  k2 = k2  k3 = k3
    s1 = s1  s2 = s2
    Threads <- TwoThreads
    NoThread = NoThread
    Regions = {A}
    Base <- BaseA  Size <- SizeA  Kind <- KindA
    HeaderSize = 64
    Chunks = {k1, k2}
    Ranges <- OneRange
    Sites = {s1, s2}
    Api = {"pmem_map_file", "pmem_flush", "pmem_wrap_drain", "pmem_unmap"}
    DrainBeforeUnmap = FALSE
    MaxCalls = 3
    MaxVersion = 2
SYMMETRY Symmetric
INVARIANTS
    PersistedIsShadowed
    FlushedIsQueued
    ChargedOnce
PROPERTIES
    RaiseFreezesShadow
    RaiseHolds
    ShadowIsPersistentMemory
