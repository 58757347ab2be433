\* One thread, a file and a pool, every wrapped call: what a crash run
\* leaves for PmemWrap_memcpy.
SPECIFICATION Spec
CONSTANTS
    t1 = t1  t2 = t2  A = A  B = B  k1 = k1  k2 = k2  k3 = k3
    s1 = s1  s2 = s2
    Threads <- OneThread
    NoThread = NoThread
    Regions = {A, B}
    Base <- BaseAB  Size <- SizeAB  Kind <- KindAB
    HeaderSize = 64
    Chunks = {k1, k2}
    Ranges <- Everywhere
    Sites = {s1, s2}
    Api = {"pmem_map_file", "pmemobj_open", "pmem_flush", "pmem_wrap_drain",
           "pmem_wrap_persist", "pmem_wrap_msync", "pmem_wrap_unmap",
           "pmem_wrap_memcpy", "pmem_wrap_memcpy_nodrain",
           "pmem_wrap_memcpy_persist",
           "pmemobj_wrap_direct", "force_set_abortflag", "set_abort_through"}
    DrainBeforeUnmap = FALSE
    MaxCalls = 4
    MaxVersion = 1
INVARIANTS
    TypeOK
    BacktraceNamesAbort
