\* Two threads that drain and unmap through the wrappers, every step of every
\* call under weak fairness, while the coin, force_set_abortflag or
\* force_abort_drain raises abortflag.
SPECIFICATION FairSpec
CONSTANTS
    t1 = t1  t2 = t2  A = A  B = B  k1 = k1  k2 = k2  k3 = k3
    s1 = s1  s2 = s2
    Threads <- TwoThreads
    NoThread = NoThread
    Regions = {A}
    Base <- BaseA  Size <- SizeA  Kind <- KindA
    HeaderSize = 64
    Chunks = {k1}
    Ranges <- OneRange
    Sites = {s1}
    Api = {"pmem_map_file", "pmem_wrap_persist", "pmem_wrap_memcpy",
           "pmem_wrap_unmap", "force_set_abortflag", "force_abort_drain"}
    DrainBeforeUnmap = FALSE
    MaxCalls = 3
    MaxVersion = 1
PROPERTIES
    EveryCallReturns
    RaiseKeepsCopies
