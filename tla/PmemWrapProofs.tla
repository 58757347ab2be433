--------------------------- MODULE PmemWrapProofs ---------------------------
(* Types, control flow and mappings of the shim, for every set of threads, *)
(* files and calls.                                                        *)
EXTENDS PmemWrap, SequenceTheorems, TLAPS

LEMMA StepsAreOps == \A api \in DOMAIN Steps : Steps[api] \in Seq(Ops)
<1> DEFINE S == Seq(Ops)
<1>1. /\ rand_set_abortflag_plus_persistcount \in S
      /\ pmem_map_file \in S /\ pmemobj_open \in S /\ pmem_flush \in S
      /\ pmem_drain \in S /\ pmem_unmap \in S /\ force_set_abortflag \in S
      /\ set_abort_through \in S
      /\ <<"drain_if_raised">> \in S /\ <<"libpmem_memcpy">> \in S
      /\ <<"libpmem_memcpy_persist">> \in S
  BY DEF Ops, rand_set_abortflag_plus_persistcount, pmem_map_file,
     pmemobj_open, pmem_flush, pmem_drain, pmem_unmap, force_set_abortflag,
     set_abort_through
<1>2. \A s, u \in S : s \o u \in S
  BY ConcatProperties
<1> HIDE DEF S
<1>3. pmem_wrap_drain \in S /\ pmem_persist \in S
  BY <1>1, <1>2 DEF pmem_wrap_drain, pmem_persist
<1>4. /\ pmem_wrap_persist \in S /\ pmem_wrap_msync \in S
      /\ pmem_wrap_memcpy \in S /\ pmem_wrap_memcpy_persist \in S
      /\ pmem_wrap_memcpy_nodrain \in S
      /\ pmem_wrap_unmap \in S /\ pmemobj_wrap_direct \in S
      /\ force_abort_drain \in S
  BY <1>1, <1>2, <1>3 DEF pmem_wrap_persist, pmem_wrap_msync,
     pmem_wrap_memcpy, pmem_wrap_memcpy_persist, pmem_wrap_memcpy_nodrain,
     pmem_wrap_unmap, pmemobj_wrap_direct, force_abort_drain
<1>5. \A api \in DOMAIN Steps : Steps[api] \in S
  BY <1>1, <1>3, <1>4 DEF Steps
<1> QED BY <1>5 DEF S

LEMMA UnlinkType ==
    ASSUME NEW S, list \in Seq(S), NEW i \in DOMAIN list
    PROVE  Unlink(i) \in Seq(S)
BY DEF Unlink, RemoveAt

LEMMA ElementType ==
    ASSUME NEW S, NEW s \in Seq(S), NEW i \in DOMAIN s
    PROVE  s[i] \in S
OBVIOUS

LEMMA AppendType ==
    ASSUME NEW S, NEW s \in Seq(S), NEW e \in S
    PROVE  Append(s, e) \in Seq(S)
OBVIOUS

LEMMA NoCallType == NoCall \in Calls
BY RegionsAssumption, SitesAssumption DEF NoCall, Calls

LEMMA ArgumentsType == \A api : Arguments(api) \subseteq Calls
BY NoCallType, RangesAssumption DEF Arguments, Calls

LEMMA RestType ==
    ASSUME ThreadType, NEW t \in Threads, NEW op, At(t, op)
    PROVE  Rest(t) \in Seq(Ops)
BY HeadTailProperties DEF ThreadType, At, Rest

LEMMA ContinueType ==
    ASSUME ThreadType, NEW t \in Threads, NEW rest \in Seq(Ops),
           Continue(t, rest)
    PROVE  todo' \in [Threads -> Seq(Ops)] /\ call' \in [Threads -> Calls]
BY NoCallType DEF ThreadType, Continue

LEMMA PushType ==
    ASSUME NEW op \in Ops, NEW rest \in Seq(Ops)
    PROVE  <<op>> \o rest \in Seq(Ops)
BY ConcatProperties

(* A step that continues its call keeps the threads' part of the state.    *)
LEMMA ControlType ==
    ASSUME ThreadType, NEW t \in Threads, NEW rest \in Seq(Ops),
           Continue(t, rest), owner' \in Threads \cup {NoThread},
           calls' = calls, status' = status
    PROVE  ThreadType'
BY ContinueType DEF ThreadType

LEMMA TerminateType ==
    ASSUME TypeOK, NEW how \in {"exited", "failed"}, Terminate(how)
    PROVE  TypeOK'
BY DEF TypeOK, MemoryType, FlagType, ThreadType, CountType, HistoryType,
       Terminate, env, history, flags

-----------------------------------------------------------------------------
(* Every reachable state is well typed (wraplibpmem.c:6-44, the globals).  *)
THEOREM TypeCorrect == Spec => []TypeOK
<1> USE DEF TypeOK
<1>1. Init => TypeOK
  <2>1. Init => MemoryType
    <3>1. \A S : <<>> \in Seq(S)
      OBVIOUS
    <3> QED BY <3>1 DEF Init, MemoryType
  <2>2. Init => FlagType
    BY DEF Init, FlagType
  <2>3. Init => ThreadType
    BY NoCallType, BoundsAssumption DEF Init, ThreadType
  <2>4. Init => CountType
    BY DEF Init, CountType
  <2>5. Init => HistoryType
    <3>1. \A f : f = [l \in Lines |-> 0] => f \in [Lines -> Nat]
      OBVIOUS
    <3>2. \A f : f \in [Lines -> Nat] =>
             [t \in Threads |-> f] \in [Threads -> [Lines -> Nat]]
      OBVIOUS
    <3>3. Init => pending \in [Threads -> [Lines -> Nat]]
      BY <3>1, <3>2 DEF Init
    <3>4. Init => forced \in BOOLEAN
      BY DEF Init
    <3> QED BY <3>1, <3>3, <3>4 DEF Init, HistoryType
  <2> QED BY <2>1, <2>2, <2>3, <2>4, <2>5
<1>2. ASSUME TypeOK, [Next]_vars PROVE TypeOK'
  <2> USE <1>2
  <2>1. CASE UNCHANGED vars
    BY <2>1 DEF MemoryType, FlagType, ThreadType, CountType, HistoryType,
       vars, memory, flags, threads, counts, env, history
  <2>2. CASE Return
    BY <2>2, TerminateType DEF Return
  <2>3. CASE Ended
    BY <2>3, <2>1 DEF Ended
  <2>4. ASSUME NEW t \in Threads, Call(t) PROVE TypeOK'
    <3>1. PICK api \in Api : \E args \in Arguments(api) :
             /\ todo' = [todo EXCEPT ![t] = Steps[api]]
             /\ call' = [call EXCEPT ![t] = args]
             /\ region' = IF Takes(api, {"unmap"})
                          THEN [region EXCEPT ![args.reg] = "closing"] ELSE region
      BY <2>4 DEF Call
    <3>2. PICK args \in Arguments(api) :
             /\ todo' = [todo EXCEPT ![t] = Steps[api]]
             /\ call' = [call EXCEPT ![t] = args]
             /\ region' = IF Takes(api, {"unmap"})
                          THEN [region EXCEPT ![args.reg] = "closing"] ELSE region
      BY <3>1
    <3>3. Steps[api] \in Seq(Ops) /\ args \in Calls
      BY ApiAssumption, StepsAreOps, ArgumentsType
    <3>4. MemoryType'
      BY <2>4, <3>2, <3>3 DEF Call, MemoryType
    <3>5. ThreadType'
      BY <2>4, <3>2, <3>3 DEF Call, ThreadType
    <3> QED BY <2>4, <3>4, <3>5
            DEF Call, FlagType, CountType, HistoryType, flags, counts, env,
                history
  <2>5. ASSUME NEW t \in Threads, Store(t) PROVE TypeOK'
    <3>1. PICK r \in Regions : \E l \in RegionLines(r) :
             orig[l] < MaxVersion /\ orig' = [orig EXCEPT ![l] = @ + 1]
      BY <2>5 DEF Store
    <3>2. orig' \in [Lines -> Nat]
      <4>1. PICK l \in RegionLines(r) : orig' = [orig EXCEPT ![l] = @ + 1]
        BY <3>1
      <4>2. l \in Lines /\ orig \in [Lines -> Nat]
        BY <4>1 DEF Lines, MemoryType
      <4> QED BY <4>1, <4>2
    <3>3. MemoryType'
      BY <2>5, <3>2 DEF Store, MemoryType
    <3> QED BY <2>5, <3>3
            DEF Store, FlagType, ThreadType, CountType, HistoryType, flags,
                threads, counts, env, history
  <2>6. ASSUME NEW t \in Threads, Thread(t) PROVE TypeOK'
    <3>a. \A op : At(t, op) => Rest(t) \in Seq(Ops)
      BY RestType
    <3>b. \A rest \in Seq(Ops) :
             /\ Continue(t, rest) /\ owner' \in Threads \cup {NoThread}
             /\ calls' = calls /\ status' = status
             => ThreadType'
      BY ControlType
    <3>c. call[t] \in Calls
      BY DEF ThreadType
    <3>d. owner \in Threads \cup {NoThread}
      BY DEF ThreadType
    <3>e. <<>> \in Seq(Ops)
      OBVIOUS
    <3>1. CASE plus_persistcount(t)
      <4>1. ThreadType'
        BY <3>1, <3>a, <3>b, <3>d DEF plus_persistcount
      <4>2. CountType'
        BY <3>1, <3>c DEF plus_persistcount, CountType, Calls
      <4> QED
        BY <3>1, <4>1, <4>2
        DEF plus_persistcount, MemoryType, FlagType, HistoryType,
            memory, flags, threads, counts, env, history
    <3>2. CASE Gate(t)
      <4>1. ThreadType'
        BY <3>2, <3>a, <3>b, <3>d, PushType DEF Gate, Ops
      <4> QED
        BY <3>2, <4>1
        DEF Gate, MemoryType, FlagType, CountType, HistoryType,
            memory, flags, threads, counts, env, history
    <3>3. CASE Recheck(t)
      <4>1. ThreadType'
        BY <3>3, <3>a, <3>b, <3>d, PushType DEF Recheck, Ops
      <4> QED
        BY <3>3, <4>1
        DEF Recheck, MemoryType, FlagType, CountType, HistoryType,
            memory, flags, threads, counts, env, history
    <3>4. CASE Raise(t)
      <4>1. ThreadType'
        BY <3>4, <3>a, <3>b, <3>d DEF Raise
      <4>2. FlagType'
        BY <3>4 DEF Raise, FlagType, env
      <4>3. CountType'
        BY <3>4, <3>c DEF Raise, CountType, Calls
      <4> QED
        BY <3>4, <4>1, <4>2, <4>3
        DEF Raise, MemoryType, HistoryType,
            memory, flags, threads, counts, env, history
    <3>5. CASE Spare(t)
      <4>1. ThreadType'
        BY <3>5, <3>a, <3>b, <3>d DEF Spare
      <4>2. FlagType'
        BY <3>5 DEF Spare, FlagType, env
      <4> QED
        BY <3>5, <4>1, <4>2
        DEF Spare, MemoryType, CountType, HistoryType,
            memory, flags, threads, counts, env, history
    <3>6. CASE WriteBacktrace(t)
      <4>1. ThreadType'
        BY <3>6, <3>a, <3>b, <3>d DEF WriteBacktrace
      <4> QED
        BY <3>6, <4>1
        DEF WriteBacktrace, MemoryType, FlagType, CountType, HistoryType,
            memory, flags, threads, counts, env, history
    <3>7. CASE SetAbortflag(t)
      <4>1. ThreadType'
        BY <3>7, <3>a, <3>b, <3>d DEF SetAbortflag
      <4>2. FlagType'
        BY <3>7 DEF SetAbortflag, FlagType, env
      <4>3. HistoryType'
        BY <3>7 DEF SetAbortflag, HistoryType
      <4> QED
        BY <3>7, <4>1, <4>2, <4>3
        DEF SetAbortflag, MemoryType, CountType,
            memory, flags, threads, counts, env, history
    <3>8. CASE SetThrough(t)
      <4>1. ThreadType'
        BY <3>8, <3>a, <3>b, <3>d DEF SetThrough
      <4>2. FlagType'
        BY <3>8 DEF SetThrough, FlagType, env
      <4> QED
        BY <3>8, <4>1, <4>2
        DEF SetThrough, MemoryType, CountType, HistoryType,
            memory, flags, threads, counts, env, history
    <3>9. CASE MapFile(t)
      <4>1. MemoryType'
        BY <3>9, <3>c DEF MapFile, MemoryType, Calls
      <4>2. ThreadType'
        <5>1. PICK r \in Regions :
                 /\ call' = [call EXCEPT ![t].reg = r]
                 /\ todo' = [todo EXCEPT ![t] = Rest(t)]
          BY <3>9 DEF MapFile
        <5>2. Rest(t) \in Seq(Ops)
          BY <3>9, <3>a DEF MapFile
        <5>3. [call[t] EXCEPT !.reg = r] \in Calls
          BY <3>c DEF Calls
        <5>4. call' = [call EXCEPT ![t] = [call[t] EXCEPT !.reg = r]]
          BY <5>1
        <5>5. todo' \in [Threads -> Seq(Ops)] /\ call' \in [Threads -> Calls]
          BY <5>1, <5>2, <5>3, <5>4 DEF ThreadType
        <5> QED BY <3>9, <5>5 DEF MapFile, ThreadType
      <4> QED
        BY <3>9, <4>1, <4>2
        DEF MapFile, FlagType, CountType, HistoryType,
            memory, flags, threads, counts, env, history
    <3>10. CASE MapFileFails(t)
      <4>1. ThreadType'
        <5>1. CASE memcpyflag = "NO_MEMCPY"
          BY <3>10, <5>1, <3>b, <3>d, <3>e DEF MapFileFails
        <5>2. CASE memcpyflag # "NO_MEMCPY"
          BY <3>10, <5>2 DEF MapFileFails, ThreadType
        <5> QED BY <5>1, <5>2
      <4> QED
        BY <3>10, <4>1
        DEF MapFileFails, MemoryType, FlagType, CountType, HistoryType,
            memory, flags, threads, counts, env, history
    <3>11. CASE MapPool(t)
      <4>1. MemoryType'
        BY <3>11, <3>c DEF MapPool, MemoryType, Calls
      <4>2. ThreadType'
        <5>1. PICK r \in Regions :
                 /\ call' = [call EXCEPT ![t].reg = r]
                 /\ todo' = [todo EXCEPT ![t] = Rest(t)]
          BY <3>11 DEF MapPool
        <5>2. Rest(t) \in Seq(Ops)
          BY <3>11, <3>a DEF MapPool
        <5>3. [call[t] EXCEPT !.reg = r] \in Calls
          BY <3>c DEF Calls
        <5>4. call' = [call EXCEPT ![t] = [call[t] EXCEPT !.reg = r]]
          BY <5>1
        <5>5. todo' \in [Threads -> Seq(Ops)] /\ call' \in [Threads -> Calls]
          BY <5>1, <5>2, <5>3, <5>4 DEF ThreadType
        <5> QED BY <3>11, <5>5 DEF MapPool, ThreadType
      <4> QED
        BY <3>11, <4>1, <4>2
        DEF MapPool, FlagType, CountType, HistoryType,
            memory, flags, threads, counts, env, history
    <3>12. CASE MapPoolFails(t)
      <4>1. ThreadType'
        BY <3>12, <3>b, <3>d, <3>e DEF MapPoolFails
      <4> QED
        BY <3>12, <4>1
        DEF MapPoolFails, MemoryType, FlagType, CountType, HistoryType,
            memory, flags, threads, counts, env, history
    <3>13. CASE add_PMEMaddrset(t)
      <4>1. ThreadType'
        BY <3>13, <3>a, <3>b, <3>d DEF add_PMEMaddrset
      <4>2. MemoryType'
        <5>1. call[t].reg \in Regions
          BY <3>c DEF Calls
        <5>2. list' \in Seq([chunk : Chunks, reg : Regions])
          <6>1. \A k \in FreeChunks :
                   [chunk |-> k, reg |-> call[t].reg]
                      \in [chunk : Chunks, reg : Regions]
            BY <5>1 DEF FreeChunks
          <6>2. list \in Seq([chunk : Chunks, reg : Regions])
            BY DEF MemoryType
          <6>3. \A k \in FreeChunks :
                   Append(list, [chunk |-> k, reg |-> call[t].reg])
                      \in Seq([chunk : Chunks, reg : Regions])
            BY <6>1, <6>2, AppendType
          <6>4. \/ list' = list
                \/ \E k \in FreeChunks :
                      list' = Append(list, [chunk |-> k, reg |-> call[t].reg])
            BY <3>13 DEF add_PMEMaddrset
          <6> QED BY <6>2, <6>3, <6>4
        <5>3. orig \in [Lines -> Nat] /\ shadow \in [Lines -> Nat]
          BY DEF MemoryType
        <5>4. shadow' \in [Lines -> Nat]
          BY <3>13, <5>3 DEF add_PMEMaddrset
        <5> QED BY <3>13, <5>1, <5>2, <5>3, <5>4 DEF add_PMEMaddrset, MemoryType
      <4> QED
        BY <3>13, <4>1, <4>2
        DEF add_PMEMaddrset, FlagType, CountType, HistoryType,
            memory, flags, threads, counts, env, history
    <3>14. CASE AddFails(t) \/ BacktraceFails(t)
      BY <3>14, TerminateType DEF AddFails, BacktraceFails
    <3>15. CASE DrainIfRaised(t)
      <4>1. ThreadType'
        BY <3>15, <3>a, <3>b, <3>d, PushType DEF DrainIfRaised, Ops
      <4> QED
        BY <3>15, <4>1
        DEF DrainIfRaised, MemoryType, FlagType, CountType, HistoryType,
            memory, flags, threads, counts, env, history
    <3>16. CASE delete_PMEMaddrset(t)
      <4>1. ThreadType'
        BY <3>16, <3>a, <3>b, <3>d DEF delete_PMEMaddrset
      <4>2. MemoryType'
        BY <3>16, <3>c, UnlinkType DEF delete_PMEMaddrset, MemoryType, Calls
      <4> QED
        BY <3>16, <4>1, <4>2
        DEF delete_PMEMaddrset, FlagType, CountType, HistoryType,
            memory, flags, threads, counts, env, history
    <3>17. CASE Unmap(t)
      <4>1. ThreadType'
        BY <3>17, <3>a, <3>b, <3>d DEF Unmap
      <4>2. MemoryType'
        BY <3>17, <3>c DEF Unmap, MemoryType, Calls
      <4> QED
        BY <3>17, <4>1, <4>2
        DEF Unmap, FlagType, CountType, HistoryType,
            memory, flags, threads, counts, env, history
    <3>18. CASE FlushIgnored(t)
      <4>1. ThreadType'
        BY <3>18, <3>a, <3>b, <3>d DEF FlushIgnored
      <4> QED
        BY <3>18, <4>1
        DEF FlushIgnored, MemoryType, FlagType, CountType, HistoryType,
            memory, flags, threads, counts, env, history
    <3>19. CASE FlushPassesThrough(t)
      <4>1. ThreadType'
        BY <3>19, <3>a, <3>b, <3>d DEF FlushPassesThrough
      <4> QED
        BY <3>19, <4>1
        DEF FlushPassesThrough, MemoryType, FlagType, CountType, HistoryType,
            memory, flags, threads, counts, env, history
    <3>20. CASE FlushQueued(t)
      <4>1. ThreadType'
        BY <3>20, <3>a, <3>b, <3>d DEF FlushQueued
      <4>2. MemoryType'
        <5>1. PICK i \in DOMAIN list :
                 wait' = Append(wait, [rng |-> call[t].rng,
                                       set |-> list[i].chunk])
          BY <3>20 DEF FlushQueued
        <5>2. list[i] \in [chunk : Chunks, reg : Regions]
          BY ElementType DEF MemoryType
        <5>3. call[t].rng \in [addr : Nat, len : Nat]
          BY <3>c DEF Calls
        <5>4. wait' \in Seq([rng : [addr : Nat, len : Nat], set : Chunks])
          BY <5>1, <5>2, <5>3 DEF MemoryType
        <5> QED BY <3>20, <5>4 DEF FlushQueued, MemoryType
      <4>3. HistoryType'
        <5>1. orig \in [Lines -> Nat] /\ pending \in [Threads -> [Lines -> Nat]]
          BY DEF MemoryType, HistoryType
        <5>2. pending' = [pending EXCEPT ![t] = [l \in Lines |->
                 IF l \in TouchedLines(call[t].rng.addr, call[t].rng.len)
                 THEN orig[l] ELSE pending[t][l]]]
          BY <3>20 DEF FlushQueued
        <5>3. pending' \in [Threads -> [Lines -> Nat]]
          BY <5>1, <5>2
        <5> QED BY <3>20, <5>3 DEF FlushQueued, HistoryType
      <4> QED
        BY <3>20, <4>1, <4>2, <4>3
        DEF FlushQueued, FlagType, CountType,
            memory, flags, threads, counts, env, history
    <3>21. CASE FlushOverruns(t) \/ DrainFails(t)
      BY <3>21, TerminateType DEF FlushOverruns, DrainFails
    <3>22. CASE DrainStarts(t)
      <4>1. ThreadType'
        BY <3>22, <3>a, <3>b, <3>d, PushType DEF DrainStarts, Ops
      <4> QED
        BY <3>22, <4>1
        DEF DrainStarts, MemoryType, FlagType, CountType, HistoryType,
            memory, flags, threads, counts, env, history
    <3>23. CASE CopyEntry(t)
      <4>1. MemoryType'
        BY <3>23 DEF CopyEntry, MemoryType
      <4> QED
        BY <3>23, <4>1
        DEF CopyEntry, FlagType, ThreadType, CountType, HistoryType,
            memory, flags, threads, counts, env, history
    <3>24. CASE StaleEntry(t)
      <4>1. ThreadType'
        BY <3>24 DEF StaleEntry, ThreadType
      <4> QED
        BY <3>24, <4>1
        DEF StaleEntry, MemoryType, FlagType, CountType, HistoryType,
            memory, flags, threads, counts, env, history
    <3>25. CASE DrainEnds(t)
      <4>1. ThreadType'
        BY <3>25, <3>a, <3>b, <3>d DEF DrainEnds
      <4>2. HistoryType'
        <5>1. /\ durable \in [Lines -> Nat]
              /\ pending \in [Threads -> [Lines -> Nat]]
          BY DEF HistoryType
        <5>2. durable' \in [Lines -> Nat]
          BY <3>25, <5>1 DEF DrainEnds, Newer
        <5>3. pending' \in [Threads -> [Lines -> Nat]]
          BY <3>25, <5>1 DEF DrainEnds
        <5> QED BY <3>25, <5>2, <5>3 DEF DrainEnds, HistoryType
      <4> QED
        BY <3>25, <4>1, <4>2
        DEF DrainEnds, MemoryType, FlagType, CountType,
            memory, flags, threads, counts, env, history
    <3>26. CASE DrainAborts(t)
      <4>1. ThreadType'
        BY <3>26 DEF DrainAborts, ThreadType
      <4> QED
        BY <3>26, <4>1
        DEF DrainAborts, MemoryType, FlagType, CountType, HistoryType,
            memory, flags, threads, counts, env, history
    <3>27. CASE LibpmemMemcpy(t)
      <4>1. ThreadType'
        BY <3>27, <3>a, <3>b, <3>d DEF LibpmemMemcpy
      <4>2. MemoryType'
        <5>1. orig' \in [Lines -> Nat]
          BY <3>27 DEF LibpmemMemcpy, LibpmemStores, MemoryType
        <5> QED BY <3>27, <5>1 DEF LibpmemMemcpy, MemoryType
      <4> QED
        BY <3>27, <4>1, <4>2
        DEF LibpmemMemcpy, FlagType, CountType, HistoryType,
            memory, flags, threads, counts, env, history
    <3>28. CASE LibpmemMemcpyPersist(t)
      <4>1. ThreadType'
        BY <3>28, <3>a, <3>b, <3>d DEF LibpmemMemcpyPersist
      <4>2. MemoryType'
        <5>1. orig' \in [Lines -> Nat]
          BY <3>28 DEF LibpmemMemcpyPersist, LibpmemStores, MemoryType
        <5> QED BY <3>28, <5>1 DEF LibpmemMemcpyPersist, MemoryType
      <4>3. HistoryType'
        <5>1. orig' \in [Lines -> Nat]
          BY <4>2 DEF MemoryType
        <5>2. direct' \in [Lines -> Nat]
          BY <3>28, <5>1 DEF LibpmemMemcpyPersist, HistoryType
        <5> QED BY <3>28, <5>2 DEF LibpmemMemcpyPersist, HistoryType
      <4> QED
        BY <3>28, <4>1, <4>2, <4>3
        DEF LibpmemMemcpyPersist, FlagType, CountType,
            memory, flags, threads, counts, env, history
    <3> QED BY <2>6, <3>1, <3>2, <3>3, <3>4, <3>5, <3>6, <3>7, <3>8, <3>9,
    <3>10, <3>11, <3>12, <3>13, <3>14, <3>15, <3>16, <3>17, <3>18, <3>19,
    <3>20, <3>21, <3>22, <3>23, <3>24, <3>25, <3>26, <3>27, <3>28 DEF Thread
  <2> QED BY <2>1, <2>2, <2>3, <2>4, <2>5, <2>6 DEF Next
<1> QED BY <1>1, <1>2, PTL DEF Spec

-----------------------------------------------------------------------------
(* Who may do what next: the steps ahead of every thread, the mappings     *)
(* they are about to register or to unmap, and the mutex.                  *)

Maps   == {"map_file", "map_pool"}
Locked == {"coin", "copy"}

Ahead(s, ops) == s # <<>> /\ s[1] \in ops

Unmaps(s) == \E i \in 1..Len(s) : s[i] = "unmap"

(* The steps of a call that depend on the one before them.                 *)
Ordered(s) ==
    \A i \in 1..Len(s) :
        /\ s[i] \in Maps => i = 1 /\ ~Unmaps(s)
        /\ s[i] \in Locked \cup {"recheck"} => i = 1
        /\ s[i] = "gate"  => i = 1 \/ s[i - 1] = "count"
        /\ s[i] = "add"   => i = 1 \/ s[i - 1] \in Maps
        /\ s[i] = "unmap" => i = Len(s) /\ (i = 1 \/ s[i - 1] = "delete")

Begins(s) ==
    s # <<>> /\ ~Ahead(s, Locked \cup {"recheck", "gate", "add", "unmap"})

-----------------------------------------------------------------------------
(* The lists of the API functions. *)

LEMMA ConcatOrdered ==
    ASSUME NEW s \in Seq(Ops), NEW u \in Seq(Ops), Ordered(s), Ordered(u),
           Begins(s), Begins(u), ~Unmaps(s),
           ~Ahead(s, Maps), ~Ahead(u, Maps)
    PROVE  /\ s \o u \in Seq(Ops) /\ Ordered(s \o u) /\ Begins(s \o u)
           /\ ~Ahead(s \o u, Maps)
           /\ ~Unmaps(u) => ~Unmaps(s \o u)
<1> DEFINE v == s \o u
<1>1. /\ v \in Seq(Ops) /\ Len(v) = Len(s) + Len(u)
      /\ \A i \in 1..(Len(s) + Len(u)) :
            v[i] = IF i <= Len(s) THEN s[i] ELSE u[i - Len(s)]
  BY ConcatProperties
<1>2. Len(s) \in Nat \ {0} /\ Len(u) \in Nat \ {0}
  BY EmptySeq DEF Begins
<1>3. \A i \in 1..Len(v) :
         \/ i \in 1..Len(s) /\ v[i] = s[i] /\ (i > 1 => v[i - 1] = s[i - 1])
         \/ /\ i - Len(s) \in 1..Len(u) /\ v[i] = u[i - Len(s)]
            /\ i - Len(s) > 1 => v[i - 1] = u[i - Len(s) - 1]
  BY <1>1, <1>2
<1>4. v # <<>> /\ v[1] = s[1]
  BY <1>1, <1>2
<1> HIDE DEF v
<1>5. ~Unmaps(u) => ~Unmaps(v)
  BY <1>1, <1>2, <1>3 DEF Unmaps
<1>6. Ordered(v)
  <2> SUFFICES ASSUME NEW i \in 1..Len(v)
               PROVE  /\ v[i] \in Maps => i = 1 /\ ~Unmaps(v)
                      /\ v[i] \in Locked \cup {"recheck"} => i = 1
                      /\ v[i] = "gate"  => i = 1 \/ v[i - 1] = "count"
                      /\ v[i] = "add"   => i = 1 \/ v[i - 1] \in Maps
                      /\ v[i] = "unmap" =>
                            i = Len(v) /\ (i = 1 \/ v[i - 1] = "delete")
    BY DEF Ordered
  <2>1. CASE i \in 1..Len(s) /\ v[i] = s[i] /\ (i > 1 => v[i - 1] = s[i - 1])
    <3>1. v[i] \notin Maps /\ v[i] # "unmap"
      BY <2>1, <1>2 DEF Ordered, Ahead, Unmaps
    <3> QED BY <2>1, <3>1, <1>2 DEF Ordered
  <2>2. CASE /\ i - Len(s) \in 1..Len(u) /\ v[i] = u[i - Len(s)]
             /\ i - Len(s) > 1 => v[i - 1] = u[i - Len(s) - 1]
    <3> DEFINE j == i - Len(s)
    <3>1. j \in 1..Len(u) /\ v[i] = u[j] /\ (j > 1 => v[i - 1] = u[j - 1])
      BY <2>2
    <3>2. j = 1 => /\ u[j] \notin Maps
                   /\ u[j] \notin Locked \cup {"recheck", "gate", "add", "unmap"}
      BY DEF Begins, Ahead
    <3>3. j = Len(u) => i = Len(v)
      BY <1>1, <1>2
    <3> HIDE DEF j
    <3>4. /\ u[j] \in Maps => j = 1
          /\ u[j] \in Locked \cup {"recheck"} => j = 1
          /\ u[j] = "gate"  => j = 1 \/ u[j - 1] = "count"
          /\ u[j] = "add"   => j = 1 \/ u[j - 1] \in Maps
          /\ u[j] = "unmap" => j = Len(u) /\ (j = 1 \/ u[j - 1] = "delete")
      BY <3>1 DEF Ordered
    <3> QED BY <3>1, <3>2, <3>3, <3>4
  <2> QED BY <1>3, <2>1, <2>2
<1>7. Begins(v) /\ ~Ahead(v, Maps)
  BY <1>4, <1>2 DEF Begins, Ahead
<1> QED BY <1>1, <1>5, <1>6, <1>7 DEF v

(* A list that may be put before and behind others.                        *)
Plain(s) ==
    s \in Seq(Ops) /\ Ordered(s) /\ Begins(s) /\ ~Unmaps(s) /\ ~Ahead(s, Maps)

LEMMA StepsOrdered ==
    \A api \in DOMAIN Steps : Ordered(Steps[api]) /\ Begins(Steps[api])
<1>1. /\ Plain(rand_set_abortflag_plus_persistcount)
      /\ Plain(pmem_flush) /\ Plain(pmem_drain)
      /\ Plain(<<"drain_if_raised">>) /\ Plain(<<"libpmem_memcpy">>)
      /\ Plain(<<"libpmem_memcpy_persist">>)
      /\ Plain(force_set_abortflag) /\ Plain(set_abort_through)
  BY DEF Plain, Ops, Ordered, Begins, Unmaps, Ahead, Maps, Locked,
     rand_set_abortflag_plus_persistcount, pmem_flush, pmem_drain,
     force_set_abortflag, set_abort_through
<1>2. /\ pmem_unmap \in Seq(Ops) /\ Ordered(pmem_unmap)
      /\ Begins(pmem_unmap) /\ ~Ahead(pmem_unmap, Maps)
  BY DEF Ops, Ordered, Begins, Unmaps, Ahead, Maps, Locked, pmem_unmap
<1>3. /\ Ordered(pmem_map_file) /\ Begins(pmem_map_file)
      /\ Ordered(pmemobj_open) /\ Begins(pmemobj_open)
  BY DEF Ordered, Begins, Unmaps, Ahead, Maps, Locked, pmem_map_file,
     pmemobj_open
<1>4. \A s, u : Plain(s) /\ Plain(u) => Plain(s \o u)
  BY ConcatOrdered DEF Plain
<1>5. \A s : Plain(s) => Ordered(s \o pmem_unmap) /\ Begins(s \o pmem_unmap)
  BY ConcatOrdered, <1>2 DEF Plain
<1>6. \A s : Plain(s) => Ordered(s) /\ Begins(s)
  BY DEF Plain
<1>7. Plain(pmem_wrap_drain) /\ Plain(pmem_persist)
  BY <1>1, <1>4 DEF pmem_wrap_drain, pmem_persist
<1>8. /\ Plain(pmem_wrap_persist) /\ Plain(pmem_wrap_msync)
      /\ Plain(pmem_wrap_memcpy) /\ Plain(pmem_wrap_memcpy_persist)
      /\ Plain(pmem_wrap_memcpy_nodrain)
      /\ Plain(pmemobj_wrap_direct) /\ Plain(force_abort_drain)
  BY <1>1, <1>4, <1>7
     DEF pmem_wrap_persist, pmem_wrap_msync, pmem_wrap_memcpy,
         pmem_wrap_memcpy_persist, pmem_wrap_memcpy_nodrain,
         pmemobj_wrap_direct, force_abort_drain
<1>9. Ordered(pmem_wrap_unmap) /\ Begins(pmem_wrap_unmap)
  <2>1. Plain(rand_set_abortflag_plus_persistcount \o <<"drain_if_raised">>)
    BY <1>1, <1>4
  <2> QED BY <2>1, <1>5 DEF pmem_wrap_unmap
<1> QED
  BY <1>1, <1>2, <1>3, <1>6, <1>7, <1>8, <1>9 DEF Steps

Has(s, op) == \E i \in 1..Len(s) : s[i] = op

LEMMA HasConcat ==
    ASSUME NEW s \in Seq(Ops), NEW u \in Seq(Ops), NEW op
    PROVE  s \o u \in Seq(Ops) /\ (Has(s \o u, op) <=> Has(s, op) \/ Has(u, op))
<1>1. /\ s \o u \in Seq(Ops) /\ Len(s \o u) = Len(s) + Len(u)
      /\ \A i \in 1..(Len(s) + Len(u)) :
            (s \o u)[i] = IF i <= Len(s) THEN s[i] ELSE u[i - Len(s)]
      /\ Len(s) \in Nat /\ Len(u) \in Nat
  BY ConcatProperties, LenProperties
<1>2. ASSUME NEW i \in 1..Len(s \o u), (s \o u)[i] = op
      PROVE  Has(s, op) \/ Has(u, op)
  <2>1. CASE i <= Len(s)
    BY <1>1, <1>2, <2>1 DEF Has
  <2>2. CASE ~(i <= Len(s))
    <3>1. i - Len(s) \in 1..Len(u) /\ u[i - Len(s)] = op
      BY <1>1, <1>2, <2>2
    <3> QED BY <3>1 DEF Has
  <2> QED BY <2>1, <2>2
<1>3. ASSUME NEW i \in 1..Len(s), s[i] = op PROVE Has(s \o u, op)
  BY <1>1, <1>3 DEF Has
<1>4. ASSUME NEW i \in 1..Len(u), u[i] = op PROVE Has(s \o u, op)
  <2>1. i + Len(s) \in 1..Len(s \o u) /\ (s \o u)[i + Len(s)] = op
    BY <1>1, <1>4
  <2> QED BY <2>1 DEF Has
<1> QED BY <1>1, <1>2, <1>3, <1>4 DEF Has

LEMMA HasTail ==
    ASSUME NEW s \in Seq(Ops), s # <<>>, NEW op, Has(Tail(s), op)
    PROVE  Has(s, op)
<1>1. /\ Len(Tail(s)) = Len(s) - 1 /\ Len(s) \in Nat
      /\ \A i \in 1..Len(Tail(s)) : Tail(s)[i] = s[i + 1]
  BY HeadTailProperties, LenProperties
<1>2. PICK i \in 1..Len(Tail(s)) : Tail(s)[i] = op
  BY DEF Has
<1>3. i + 1 \in 1..Len(s) /\ s[i + 1] = op
  BY <1>1, <1>2
<1> QED BY <1>3 DEF Has

(* Once its delete is ahead, a call keeps the unmap behind it. *)
LEMMA UnmapStaysBehind ==
    ASSUME NEW s \in Seq(Ops), s # <<>>, Ordered(s),
           Has(Tail(s), "delete"), Has(s, "unmap")
    PROVE  Has(Tail(s), "unmap")
<1>1. /\ Len(Tail(s)) = Len(s) - 1 /\ Len(s) \in Nat
      /\ \A i \in 1..Len(Tail(s)) : Tail(s)[i] = s[i + 1]
  BY HeadTailProperties, LenProperties
<1>2. PICK i \in 1..Len(s) : s[i] = "unmap"
  BY DEF Has
<1>3. i = Len(s)
  BY <1>2 DEF Ordered
<1>4. Len(s) > 1
  <2>1. PICK j \in 1..Len(Tail(s)) : TRUE
    BY DEF Has
  <2> QED BY <2>1, <1>1
<1>5. i - 1 \in 1..Len(Tail(s)) /\ Tail(s)[i - 1] = "unmap"
  BY <1>1, <1>2, <1>3, <1>4
<1> QED BY <1>5 DEF Has

(* The functions that unmap a file take no range; only they delete a set.  *)
LEMMA UnmapFunctions ==
    \A api \in DOMAIN Steps :
        /\ Has(Steps[api], "unmap") =>
              /\ ~Has(Steps[api], "flush") /\ ~Has(Steps[api], "libpmem_memcpy")
              /\ ~Has(Steps[api], "libpmem_memcpy_persist")
        /\ Has(Steps[api], "delete") =>
              Has(Steps[api], "unmap") /\ api \in {"pmem_unmap", "pmem_wrap_unmap"}
<1> DEFINE No(s) == s \in Seq(Ops) /\ ~Has(s, "unmap") /\ ~Has(s, "delete")
<1> DEFINE Un(s) ==
      /\ s \in Seq(Ops) /\ ~Has(s, "flush") /\ ~Has(s, "libpmem_memcpy")
      /\ ~Has(s, "libpmem_memcpy_persist")
<1>1. \A s, u : /\ No(s) /\ No(u) => No(s \o u)
                /\ Un(s) /\ Un(u) => Un(s \o u)
                /\ Un(s) /\ Un(u) /\ Has(u, "unmap") => Has(s \o u, "unmap")
  BY HasConcat
<1>2. /\ No(rand_set_abortflag_plus_persistcount)
      /\ No(pmem_map_file) /\ No(pmemobj_open) /\ No(pmem_flush) /\ No(pmem_drain)
      /\ No(force_set_abortflag) /\ No(set_abort_through)
      /\ No(<<"drain_if_raised">>) /\ No(<<"libpmem_memcpy">>)
      /\ No(<<"libpmem_memcpy_persist">>)
  BY DEF Has, Ops, rand_set_abortflag_plus_persistcount, pmem_map_file,
     pmemobj_open, pmem_flush, pmem_drain, force_set_abortflag, set_abort_through
<1>3. /\ Un(rand_set_abortflag_plus_persistcount) /\ Un(<<"drain_if_raised">>)
      /\ Un(pmem_unmap)
  BY DEF Has, Ops, rand_set_abortflag_plus_persistcount, pmem_unmap
<1>4. Has(pmem_unmap, "unmap")
  <2>1. 2 \in 1..Len(pmem_unmap) /\ pmem_unmap[2] = "unmap"
    BY DEF pmem_unmap
  <2> QED BY <2>1 DEF Has
<1> HIDE DEF No, Un
<1>5. No(pmem_wrap_drain) /\ No(pmem_persist)
  BY <1>1, <1>2 DEF pmem_wrap_drain, pmem_persist
<1>6. /\ No(pmem_wrap_persist) /\ No(pmem_wrap_msync) /\ No(pmem_wrap_memcpy)
      /\ No(pmem_wrap_memcpy_persist) /\ No(pmem_wrap_memcpy_nodrain)
      /\ No(pmemobj_wrap_direct) /\ No(force_abort_drain)
  BY <1>1, <1>2, <1>5 DEF pmem_wrap_persist, pmem_wrap_msync, pmem_wrap_memcpy,
     pmem_wrap_memcpy_persist, pmem_wrap_memcpy_nodrain,
     pmemobj_wrap_direct, force_abort_drain
<1>7. Un(pmem_wrap_unmap) /\ Has(pmem_wrap_unmap, "unmap")
  BY <1>1, <1>3, <1>4 DEF pmem_wrap_unmap
<1>8. \A api \in DOMAIN Steps :
         \/ No(Steps[api])
         \/ /\ Un(Steps[api]) /\ Has(Steps[api], "unmap")
            /\ api \in {"pmem_unmap", "pmem_wrap_unmap"}
  BY <1>2, <1>3, <1>4, <1>5, <1>6, <1>7 DEF Steps
<1> QED BY <1>8 DEF No, Un

-----------------------------------------------------------------------------
(* One step of a call. *)

(* What is ahead once the first step of a list is done.                    *)
LEMMA TailOrdered ==
    ASSUME NEW s \in Seq(Ops), s # <<>>, Ordered(s)
    PROVE  /\ Ordered(Tail(s))
           /\ ~Ahead(Tail(s), Maps \cup Locked \cup {"recheck"})
           /\ Ahead(Tail(s), {"gate"})  => s[1] = "count"
           /\ Ahead(Tail(s), {"add"})   => s[1] \in Maps
           /\ Ahead(Tail(s), {"unmap"}) => s[1] = "delete"
           /\ Unmaps(Tail(s)) => Unmaps(s) /\ s[1] \notin Maps \cup {"unmap"}
<1> DEFINE u == Tail(s)
<1>1. /\ u \in Seq(Ops) /\ Len(u) = Len(s) - 1
      /\ \A i \in 1..Len(u) : u[i] = s[i + 1]
  BY HeadTailProperties
<1>2. Len(s) \in Nat \ {0}
  BY EmptySeq
<1>3. \A i \in 1..Len(u) : i + 1 \in 1..Len(s) /\ u[i] = s[i + 1]
  BY <1>1, <1>2
<1>4. u # <<>> => 1 \in 1..Len(u) /\ u[1] = s[2] /\ 2 \in 1..Len(s)
  BY <1>1, <1>2, EmptySeq
<1> HIDE DEF u
<1>5. Unmaps(u) => Unmaps(s) /\ s[1] \notin Maps \cup {"unmap"}
  <2> SUFFICES ASSUME NEW i \in 1..Len(u), u[i] = "unmap"
               PROVE  Unmaps(s) /\ s[1] \notin Maps \cup {"unmap"}
    BY DEF Unmaps
  <2>1. i + 1 \in 1..Len(s) /\ s[i + 1] = "unmap" /\ 1 \in 1..Len(s)
    BY <1>2, <1>3
  <2>2. Unmaps(s)
    BY <2>1 DEF Unmaps
  <2>3. s[1] # "unmap"
    BY <2>1, <1>2 DEF Ordered
  <2> QED BY <2>1, <2>2, <2>3 DEF Ordered
<1>6. Ordered(u)
  <2> SUFFICES ASSUME NEW i \in 1..Len(u)
               PROVE  /\ u[i] \in Maps => i = 1 /\ ~Unmaps(u)
                      /\ u[i] \in Locked \cup {"recheck"} => i = 1
                      /\ u[i] = "gate"  => i = 1 \/ u[i - 1] = "count"
                      /\ u[i] = "add"   => i = 1 \/ u[i - 1] \in Maps
                      /\ u[i] = "unmap" =>
                            i = Len(u) /\ (i = 1 \/ u[i - 1] = "delete")
    BY DEF Ordered
  <2>1. i + 1 \in 1..Len(s) /\ u[i] = s[i + 1] /\ i + 1 # 1
    BY <1>3
  <2>2. i # 1 => u[i - 1] = s[i]
    BY <1>1
  <2>3. i + 1 = Len(s) => i = Len(u)
    BY <1>1
  <2>4. (i + 1) - 1 = i
    OBVIOUS
  <2> QED BY <2>1, <2>2, <2>3, <2>4 DEF Ordered
<1>7. /\ ~Ahead(u, Maps \cup Locked \cup {"recheck"})
      /\ Ahead(u, {"gate"})  => s[1] = "count"
      /\ Ahead(u, {"add"})   => s[1] \in Maps
      /\ Ahead(u, {"unmap"}) => s[1] = "delete"
  BY <1>4 DEF Ahead, Ordered
<1> QED BY <1>5, <1>6, <1>7 DEF u

(* A step that puts another one in its place.                              *)
LEMMA PushOrdered ==
    ASSUME NEW s \in Seq(Ops), s # <<>>, Ordered(s),
           s[1] \notin Maps \cup {"count", "delete"},
           NEW op \in {"recheck", "coin", "copy", "drain"}
    PROVE  LET v == <<op>> \o Tail(s) IN
           /\ Ordered(v) /\ v # <<>> /\ v[1] = op
           /\ Unmaps(v) => Unmaps(s)
<1> DEFINE u == Tail(s)
<1> DEFINE v == <<op>> \o u
<1>1. u \in Seq(Ops) /\ Len(u) \in Nat
  BY HeadTailProperties, LenProperties
<1>2. <<op>> \in Seq(Ops) /\ Len(<<op>>) = 1 /\ <<op>>[1] = op
  BY DEF Ops
<1>3. /\ Len(v) = 1 + Len(u)
      /\ \A i \in 1..(1 + Len(u)) :
            v[i] = IF i <= 1 THEN <<op>>[i] ELSE u[i - 1]
  BY <1>1, <1>2, ConcatProperties
<1>4. v \in Seq(Ops)
  BY <1>1, <1>2, ConcatProperties
<1>5. /\ Ordered(u)
      /\ ~Ahead(u, Maps \cup Locked \cup {"recheck", "gate", "add", "unmap"})
      /\ Unmaps(u) => Unmaps(s)
  BY TailOrdered DEF Ahead
<1> HIDE DEF u, v
<1>6. v # <<>> /\ v[1] = op
  BY <1>1, <1>2, <1>3, <1>4, EmptySeq
<1>7. \A i \in 1..Len(v) : i # 1 =>
         i - 1 \in 1..Len(u) /\ v[i] = u[i - 1] /\ (i - 1 # 1 => v[i - 1] = u[i - 2])
  BY <1>1, <1>3
<1>8. u # <<>> => u[1] \notin Maps \cup Locked \cup {"recheck", "gate", "add", "unmap"}
  BY <1>5 DEF Ahead
<1>9. Unmaps(v) => Unmaps(u)
  BY <1>6, <1>7 DEF Unmaps
<1>10. Ordered(v)
  <2> SUFFICES ASSUME NEW i \in 1..Len(v)
               PROVE  /\ v[i] \in Maps => i = 1 /\ ~Unmaps(v)
                      /\ v[i] \in Locked \cup {"recheck"} => i = 1
                      /\ v[i] = "gate"  => i = 1 \/ v[i - 1] = "count"
                      /\ v[i] = "add"   => i = 1 \/ v[i - 1] \in Maps
                      /\ v[i] = "unmap" =>
                            i = Len(v) /\ (i = 1 \/ v[i - 1] = "delete")
    BY DEF Ordered
  <2>1. CASE i = 1
    BY <2>1, <1>6 DEF Maps
  <2>2. CASE i # 1
    <3> DEFINE j == i - 1
    <3>1. /\ j \in 1..Len(u) /\ v[i] = u[j]
          /\ j # 1 => v[i - 1] = u[j - 1]
          /\ j = Len(u) => i = Len(v)
      BY <2>2, <1>1, <1>3, <1>7
    <3>2. u # <<>>
      BY <3>1, <1>1, EmptySeq
    <3> HIDE DEF j
    <3>3. j = 1 => u[j] \notin Maps \cup Locked
                               \cup {"recheck", "gate", "add", "unmap"}
      BY <3>2, <1>8
    <3>4. /\ u[j] \in Maps => j = 1
          /\ u[j] \in Locked \cup {"recheck"} => j = 1
          /\ u[j] = "gate"  => j = 1 \/ u[j - 1] = "count"
          /\ u[j] = "add"   => j = 1 \/ u[j - 1] \in Maps
          /\ u[j] = "unmap" => j = Len(u) /\ (j = 1 \/ u[j - 1] = "delete")
      BY <3>1, <1>5 DEF Ordered
    <3> QED BY <3>1, <3>3, <3>4
  <2> QED BY <2>1, <2>2
<1> QED BY <1>5, <1>6, <1>9, <1>10 DEF u, v

CallsOrdered == \A t \in Threads : Ordered(todo[t])

(* What a step of thread t leaves of the calls of the others.              *)
OthersWait(t) ==
    \A u \in Threads \ {t} : todo'[u] = todo[u] /\ call'[u] = call[u]

LEMMA AtFirst ==
    ASSUME TypeOK, NEW t \in Threads, NEW op, At(t, op)
    PROVE  /\ todo[t] \in Seq(Ops) /\ todo[t] # <<>> /\ todo[t][1] = op
           /\ status = "running"
BY DEF At, TypeOK, ThreadType

LEMMA Continued ==
    ASSUME TypeOK, NEW t \in Threads, NEW rest, Continue(t, rest)
    PROVE  /\ todo'[t] = rest /\ OthersWait(t)
           /\ rest # <<>> => call'[t] = call[t]
BY DEF TypeOK, ThreadType, Continue, OthersWait

LEMMA Advance ==
    ASSUME TypeOK, CallsOrdered, NEW t \in Threads, NEW op, At(t, op),
           Continue(t, Rest(t))
    PROVE  /\ CallsOrdered' /\ OthersWait(t)
           /\ ~Ahead(todo'[t], Maps \cup Locked \cup {"recheck"})
           /\ Ahead(todo'[t], {"gate"})  => op = "count" /\ call'[t] = call[t]
           /\ Ahead(todo'[t], {"add"})   => op \in Maps /\ call'[t] = call[t]
           /\ Ahead(todo'[t], {"unmap"}) => op = "delete" /\ call'[t] = call[t]
           /\ Unmaps(todo'[t]) => /\ Unmaps(todo[t]) /\ call'[t] = call[t]
                                  /\ op \notin Maps \cup {"unmap"}
<1>1. todo[t] \in Seq(Ops) /\ todo[t] # <<>> /\ todo[t][1] = op
  BY AtFirst
<1>2. /\ todo'[t] = Tail(todo[t]) /\ OthersWait(t)
      /\ todo'[t] # <<>> => call'[t] = call[t]
  BY Continued DEF Rest
<1>3. Ordered(todo[t])
  BY DEF CallsOrdered
<1>4. Unmaps(todo'[t]) => todo'[t] # <<>>
  BY DEF Unmaps
<1>5. \A ops : Ahead(todo'[t], ops) => todo'[t] # <<>>
  BY DEF Ahead
<1>6. CallsOrdered'
  BY <1>1, <1>2, <1>3, TailOrdered DEF CallsOrdered, OthersWait
<1> QED BY <1>1, <1>2, <1>3, <1>4, <1>5, <1>6, TailOrdered

LEMMA Replace ==
    ASSUME TypeOK, CallsOrdered, NEW t \in Threads, NEW op, At(t, op),
           op \notin Maps \cup {"count", "delete"},
           NEW new \in {"recheck", "coin", "copy", "drain"},
           Continue(t, <<new>> \o Rest(t))
    PROVE  /\ CallsOrdered' /\ OthersWait(t)
           /\ Ahead(todo'[t], {new}) /\ call'[t] = call[t]
           /\ Unmaps(todo'[t]) => Unmaps(todo[t])
<1>1. todo[t] \in Seq(Ops) /\ todo[t] # <<>> /\ todo[t][1] = op
  BY AtFirst
<1>2. Ordered(todo[t])
  BY DEF CallsOrdered
<1> DEFINE v == <<new>> \o Tail(todo[t])
<1>3. Ordered(v) /\ v # <<>> /\ v[1] = new /\ (Unmaps(v) => Unmaps(todo[t]))
  BY <1>1, <1>2, PushOrdered
<1>4. todo'[t] = v /\ OthersWait(t) /\ (v # <<>> => call'[t] = call[t])
  BY Continued DEF Rest
<1> HIDE DEF v
<1>5. CallsOrdered'
  BY <1>3, <1>4 DEF CallsOrdered, OthersWait
<1> QED BY <1>3, <1>4, <1>5 DEF Ahead

LEMMA Stop ==
    ASSUME TypeOK, CallsOrdered, NEW t \in Threads, Continue(t, <<>>)
    PROVE  /\ CallsOrdered' /\ OthersWait(t) /\ todo'[t] = <<>>
           /\ \A ops : ~Ahead(todo'[t], ops)
           /\ ~Unmaps(todo'[t])
<1>1. todo'[t] = <<>> /\ OthersWait(t)
  BY Continued
<1>2. Ordered(<<>>)
  BY DEF Ordered
<1>3. CallsOrdered'
  BY <1>1, <1>2 DEF CallsOrdered, OthersWait
<1> QED BY <1>1, <1>3 DEF Ahead, Unmaps

Same(t) == todo'[t] = todo[t] /\ call'[t] = call[t]

(* Which step put what ahead of thread t.                                  *)
NewSteps(t) ==
    /\ Ahead(todo'[t], {"add"})     => MapFile(t) \/ MapPool(t)
    /\ Ahead(todo'[t], {"unmap"})   => delete_PMEMaddrset(t)
    /\ Ahead(todo'[t], {"gate"})    => plus_persistcount(t)
    /\ Ahead(todo'[t], {"recheck"}) => Gate(t)
    /\ Ahead(todo'[t], {"coin"})    => Recheck(t) /\ ~AlreadyUp
    /\ Ahead(todo'[t], {"copy"})    => DrainStarts(t)
    /\ Ahead(todo'[t], {"unmap", "gate", "recheck", "coin", "copy"}) =>
          call'[t] = call[t]
    /\ Unmaps(todo'[t]) => Unmaps(todo[t]) /\ call'[t] = call[t]

LEMMA ThreadSteps ==
    ASSUME TypeOK, CallsOrdered, NEW t \in Threads, Thread(t)
    PROVE  CallsOrdered' /\ OthersWait(t) /\ (Same(t) \/ NewSteps(t))
<1> USE DEF Ahead, Maps, Locked
<1>1. ASSUME NEW op, At(t, op), Continue(t, Rest(t)),
             op \notin Maps \cup {"count", "delete"}
      PROVE  CallsOrdered' /\ OthersWait(t) /\ NewSteps(t)
  BY <1>1, Advance DEF NewSteps
<1>2. ASSUME UNCHANGED <<todo, call>>
      PROVE  CallsOrdered' /\ OthersWait(t) /\ Same(t)
  BY <1>2 DEF CallsOrdered, OthersWait, Same
<1>3. ASSUME Continue(t, <<>>)
      PROVE  CallsOrdered' /\ OthersWait(t) /\ NewSteps(t)
  BY <1>3, Stop DEF NewSteps
<1>4. CASE plus_persistcount(t)
  BY <1>4, Advance DEF plus_persistcount, NewSteps
<1>5. CASE delete_PMEMaddrset(t)
  BY <1>5, Advance DEF delete_PMEMaddrset, NewSteps
<1>6. CASE Gate(t)
  <2>1. CASE Suppressed
    BY <1>6, <2>1, <1>1 DEF Gate
  <2>2. CASE ~Suppressed
    BY <1>6, <2>2, Replace DEF Gate, NewSteps
  <2> QED BY <2>1, <2>2
<1>7. CASE Recheck(t)
  <2>1. CASE AlreadyUp
    BY <1>7, <2>1, <1>1 DEF Recheck
  <2>2. CASE ~AlreadyUp
    BY <1>7, <2>2, Replace DEF Recheck, NewSteps
  <2> QED BY <2>1, <2>2
<1>8. CASE DrainIfRaised(t)
  <2>1. CASE abortflag # 1
    BY <1>8, <2>1, <1>1 DEF DrainIfRaised
  <2>2. CASE abortflag = 1
    BY <1>8, <2>2, Replace DEF DrainIfRaised, NewSteps
  <2> QED BY <2>1, <2>2
<1>9. CASE DrainStarts(t)
  BY <1>9, Replace DEF DrainStarts, NewSteps
<1>10. CASE \/ Raise(t) \/ Spare(t) \/ WriteBacktrace(t) \/ SetAbortflag(t)
            \/ SetThrough(t) \/ add_PMEMaddrset(t) \/ Unmap(t)
            \/ FlushIgnored(t) \/ FlushPassesThrough(t) \/ FlushQueued(t)
            \/ DrainEnds(t) \/ LibpmemMemcpy(t) \/ LibpmemMemcpyPersist(t)
  <2>1. \E op \in Ops \ (Maps \cup {"count", "delete"}) :
           At(t, op) /\ Continue(t, Rest(t))
    BY <1>10
       DEF Ops, Raise, Spare, WriteBacktrace, SetAbortflag, SetThrough,
           add_PMEMaddrset, Unmap, FlushIgnored, FlushPassesThrough,
           FlushQueued, DrainEnds, LibpmemMemcpy, LibpmemMemcpyPersist
  <2> QED BY <2>1, <1>1
<1>11. CASE AddFails(t) \/ FlushOverruns(t) \/ CopyEntry(t) \/ StaleEntry(t)
            \/ DrainAborts(t) \/ DrainFails(t) \/ BacktraceFails(t)
  BY <1>11, <1>2
     DEF AddFails, BacktraceFails, FlushOverruns, DrainFails, CopyEntry, StaleEntry,
         DrainAborts, Terminate, threads
<1>12. CASE MapFileFails(t) \/ MapPoolFails(t)
  BY <1>12, <1>2, <1>3 DEF MapFileFails, MapPoolFails
<1>13. CASE MapFile(t) \/ MapPool(t)
  <2>1. /\ todo' = [todo EXCEPT ![t] = Rest(t)]
        /\ \E r \in Regions : call' = [call EXCEPT ![t].reg = r]
        /\ At(t, "map_file") \/ At(t, "map_pool")
    BY <1>13 DEF MapFile, MapPool
  <2>2. todo[t] \in Seq(Ops) /\ todo[t] # <<>> /\ todo[t][1] \in Maps
    BY <2>1, AtFirst
  <2>3. todo'[t] = Tail(todo[t]) /\ OthersWait(t)
    BY <2>1 DEF Rest, OthersWait, TypeOK, ThreadType
  <2>4. Ordered(todo[t])
    BY DEF CallsOrdered
  <2>5. /\ Ordered(todo'[t]) /\ ~Unmaps(todo'[t])
        /\ ~Ahead(todo'[t], Maps \cup Locked \cup {"recheck", "gate", "unmap"})
    BY <2>2, <2>3, <2>4, TailOrdered
  <2>6. CallsOrdered'
    BY <2>3, <2>5 DEF CallsOrdered, OthersWait
  <2>7. NewSteps(t)
    BY <1>13, <2>5 DEF NewSteps
  <2> QED BY <2>3, <2>6, <2>7
<1> QED
  BY <1>4, <1>5, <1>6, <1>7, <1>8, <1>9, <1>10, <1>11, <1>12, <1>13 DEF Thread

-----------------------------------------------------------------------------
(* The list of mappings. *)

LEMMA UnlinkElements ==
    ASSUME NEW S, list \in Seq(S), NEW i \in 1..Len(list)
    PROVE  /\ Unlink(i) \in Seq(S) /\ Len(Unlink(i)) = Len(list) - 1
           /\ \A k \in 1..(Len(list) - 1) :
                 Unlink(i)[k] = IF k < i THEN list[k] ELSE list[k + 1]
<1> DEFINE a == SubSeq(list, 1, i - 1)
<1> DEFINE b == SubSeq(list, i + 1, Len(list))
<1>1. Len(list) \in Nat /\ \A k \in 1..Len(list) : list[k] \in S
  BY LenProperties, ElementOfSeq
<1>2. /\ a \in Seq(S) /\ Len(a) = i - 1
      /\ \A k \in 1..(i - 1) : a[k] = list[k]
  BY <1>1, SubSeqProperties
<1>3. /\ b \in Seq(S) /\ Len(b) = Len(list) - i
      /\ \A k \in 1..(Len(list) - i) : b[k] = list[i + k]
  BY <1>1, SubSeqProperties
<1>4. Unlink(i) = a \o b
  BY DEF Unlink, RemoveAt
<1> HIDE DEF a, b
<1>5. /\ a \o b \in Seq(S) /\ Len(a \o b) = Len(a) + Len(b)
      /\ \A k \in 1..(Len(a) + Len(b)) :
            (a \o b)[k] = IF k <= Len(a) THEN a[k] ELSE b[k - Len(a)]
  BY <1>2, <1>3, ConcatProperties
<1>6. ASSUME NEW k \in 1..(Len(list) - 1)
      PROVE  (a \o b)[k] = IF k < i THEN list[k] ELSE list[k + 1]
  <2>1. CASE k < i
    BY <2>1, <1>1, <1>2, <1>3, <1>5
  <2>2. CASE ~(k < i)
    <3>1. (a \o b)[k] = b[k - (i - 1)]
      BY <2>2, <1>1, <1>2, <1>3, <1>5
    <3>2. k - (i - 1) \in 1..(Len(list) - i) /\ i + (k - (i - 1)) = k + 1
      BY <2>2, <1>1
    <3> QED BY <2>2, <3>1, <3>2, <1>3
  <2> QED BY <2>1, <2>2
<1>7. Len(a) + Len(b) = Len(list) - 1
  BY <1>1, <1>2, <1>3
<1> QED BY <1>4, <1>5, <1>6, <1>7

(* No file is registered twice.                                            *)
Distinct ==
    \A i, j \in 1..Len(list) : list[i].reg = list[j].reg => i = j

(* A registered file is mapped.                                            *)
RegisteredHeld ==
    \A i \in 1..Len(list) : region[list[i].reg] \in {"held", "closing"}

(* A call that unmaps a file has it for itself, and has deleted its set    *)
(* before it unmaps.                                                       *)
Closers ==
    \A t \in Threads : Unmaps(todo[t]) =>
        /\ region[call[t].reg] = "closing"
        /\ \A u \in Threads \ {t} :
              Unmaps(todo[u]) => call[u].reg # call[t].reg
        /\ Ahead(todo[t], {"unmap"}) => call[t].reg \notin Registered

(* So has a call that is about to register a file.                         *)
Adders ==
    \A t \in Threads : Ahead(todo[t], {"add"}) =>
        /\ region[call[t].reg] = "mapping"
        /\ \A u \in Threads \ {t} :
              Ahead(todo[u], {"add"}) => call[u].reg # call[t].reg

MappingsOwned == Distinct /\ RegisteredHeld /\ Closers /\ Adders

(* Steps that put neither a registration nor an unmap in front of a call.  *)
QuietCalls ==
    \A u \in Threads :
        /\ Ahead(todo'[u], {"add"}) =>
              Ahead(todo[u], {"add"}) /\ call'[u] = call[u]
        /\ Ahead(todo'[u], {"unmap"}) => Ahead(todo[u], {"unmap"})
        /\ Unmaps(todo'[u]) => Unmaps(todo[u]) /\ call'[u] = call[u]

LEMMA QuietKeepsMappings ==
    ASSUME MappingsOwned, QuietCalls, UNCHANGED <<region, list>>
    PROVE  MappingsOwned'
<1>1. Distinct' /\ RegisteredHeld'
  BY DEF MappingsOwned, Distinct, RegisteredHeld
<1>2. Registered' = Registered
  BY DEF Registered
<1>3. Closers'
  BY <1>2 DEF MappingsOwned, Closers, QuietCalls
<1>4. Adders'
  BY DEF MappingsOwned, Adders, QuietCalls
<1> QED BY <1>1, <1>3, <1>4 DEF MappingsOwned

LEMMA ThreadQuiet ==
    ASSUME TypeOK, CallsOrdered, NEW t \in Threads, Thread(t),
           ~MapFile(t), ~MapPool(t), ~delete_PMEMaddrset(t)
    PROVE  QuietCalls
BY ThreadSteps DEF OthersWait, Same, NewSteps, QuietCalls

LEMMA ListType ==
    ASSUME TypeOK
    PROVE  /\ Len(list) \in Nat /\ DOMAIN list = 1..Len(list)
           /\ list \in Seq([chunk : Chunks, reg : Regions])
           /\ \A i \in 1..Len(list) : list[i].reg \in Regions
<1>1. list \in Seq([chunk : Chunks, reg : Regions])
  BY DEF TypeOK, MemoryType
<1>2. \A i \in 1..Len(list) : list[i] \in [chunk : Chunks, reg : Regions]
  BY <1>1, ElementOfSeq
<1> QED BY <1>1, <1>2, LenProperties

LEMMA CallType ==
    ASSUME TypeOK, NEW t \in Threads
    PROVE  call[t] \in Calls /\ call[t].reg \in Regions
BY DEF TypeOK, ThreadType, Calls

LEMMA MapsKeepMappings ==
    ASSUME TypeOK, CallsOrdered, MappingsOwned, NEW t \in Threads,
           MapFile(t) \/ MapPool(t)
    PROVE  MappingsOwned'
<1>1. PICK r \in Regions :
         /\ region[r] = "free" /\ region' = [region EXCEPT ![r] = "mapping"]
         /\ call' = [call EXCEPT ![t].reg = r]
  BY DEF MapFile, MapPool
<1>2. Thread(t) /\ UNCHANGED list /\ (At(t, "map_file") \/ At(t, "map_pool"))
  BY DEF Thread, MapFile, MapPool
<1>3. /\ region'[r] = "mapping"
      /\ \A q \in Regions \ {r} : region'[q] = region[q]
  BY <1>1 DEF TypeOK, MemoryType
<1>4. call'[t].reg = r
  BY <1>1, CallType DEF TypeOK, ThreadType, Calls
<1>5. OthersWait(t)
  BY <1>2, ThreadSteps
<1>6. ~Unmaps(todo'[t]) /\ ~Ahead(todo'[t], {"unmap"})
  <2>1. todo'[t] = Tail(todo[t])
    BY DEF MapFile, MapPool, Rest, TypeOK, ThreadType
  <2>2. todo[t] \in Seq(Ops) /\ todo[t] # <<>> /\ todo[t][1] \in Maps
    BY <1>2, AtFirst DEF Maps
  <2> QED BY <2>1, <2>2, TailOrdered DEF CallsOrdered, Maps
<1>7. \A u \in Threads : call[u].reg \in Regions
  BY CallType
<1>8. \A i \in 1..Len(list) : list[i].reg \in Regions
  BY ListType
<1>9. Distinct'
  BY <1>2 DEF MappingsOwned, Distinct
<1>10. RegisteredHeld'
  BY <1>1, <1>2, <1>3, <1>8 DEF MappingsOwned, RegisteredHeld
<1>11. Registered' = Registered
  BY <1>2 DEF Registered
<1>12. Closers'
  BY <1>1, <1>3, <1>5, <1>6, <1>7, <1>11
     DEF MappingsOwned, Closers, OthersWait
<1>13. Adders'
  BY <1>1, <1>3, <1>4, <1>5, <1>7 DEF MappingsOwned, Adders, OthersWait
<1> QED BY <1>9, <1>10, <1>12, <1>13 DEF MappingsOwned

LEMMA AddKeepsMappings ==
    ASSUME TypeOK, CallsOrdered, MappingsOwned, NEW t \in Threads,
           add_PMEMaddrset(t)
    PROVE  MappingsOwned'
<1> DEFINE r == call[t].reg
<1>1. /\ At(t, "add") /\ region' = [region EXCEPT ![r] = "held"]
      /\ \/ list' = list
         \/ \E k \in FreeChunks : list' = Append(list, [chunk |-> k, reg |-> r])
  BY DEF add_PMEMaddrset
<1>2. r \in Regions /\ \A u \in Threads : call[u].reg \in Regions
  BY CallType
<1>3. region[r] = "mapping" /\ Ahead(todo[t], {"add"})
  BY <1>1, AtFirst DEF MappingsOwned, Adders, Ahead
<1>4. /\ region'[r] = "held"
      /\ \A q \in Regions \ {r} : region'[q] = region[q]
  BY <1>1, <1>2 DEF TypeOK, MemoryType
<1>5. /\ OthersWait(t) /\ ~Ahead(todo'[t], {"add"})
      /\ ~Unmaps(todo'[t]) /\ ~Ahead(todo'[t], {"unmap"})
  <2>1. Continue(t, Rest(t))
    BY DEF add_PMEMaddrset
  <2>2. ~Unmaps(todo[t])
    BY <1>3 DEF MappingsOwned, Closers
  <2> QED BY <1>1, <2>1, <2>2, Advance DEF Ahead, Maps
<1>6. /\ Len(list) \in Nat
      /\ \A i \in 1..Len(list) : list[i].reg \in Regions /\ list[i].reg # r
  BY <1>3, ListType DEF MappingsOwned, RegisteredHeld
<1>7. /\ Len(list') \in Nat
      /\ \A i \in 1..Len(list') :
            \/ i \in 1..Len(list) /\ list'[i] = list[i]
            \/ i = Len(list) + 1 /\ list'[i].reg = r
  <2>1. CASE list' = list
    BY <2>1, <1>6
  <2>2. ASSUME NEW k \in FreeChunks,
               list' = Append(list, [chunk |-> k, reg |-> r])
        PROVE  /\ Len(list') = Len(list) + 1 /\ list'[Len(list) + 1].reg = r
               /\ \A i \in 1..Len(list) : list'[i] = list[i]
    <3>1. [chunk |-> k, reg |-> r] \in [chunk : Chunks, reg : Regions]
      BY <1>2 DEF FreeChunks
    <3> DEFINE e == [chunk |-> k, reg |-> r]
    <3>2. /\ Len(Append(list, e)) = Len(list) + 1
          /\ \A i \in 1..Len(list) : Append(list, e)[i] = list[i]
          /\ Append(list, e)[Len(list) + 1] = e
      BY <3>1, ListType, AppendProperties
    <3> QED BY <2>2, <3>2
  <2>3. CASE list' # list
    <3>1. /\ Len(list') = Len(list) + 1 /\ list'[Len(list) + 1].reg = r
          /\ \A i \in 1..Len(list) : list'[i] = list[i]
      BY <1>1, <2>2, <2>3
    <3> QED BY <1>6, <3>1
  <2> QED BY <2>1, <2>3
<1>8. Distinct'
  BY <1>6, <1>7 DEF MappingsOwned, Distinct
<1>9. RegisteredHeld'
  BY <1>4, <1>6, <1>7 DEF MappingsOwned, RegisteredHeld
<1>10. \A q : q # r /\ q \in Registered' => q \in Registered
  <2>1. DOMAIN list = 1..Len(list) /\ DOMAIN list' = 1..Len(list')
    BY <1>1, LenProperties DEF TypeOK, MemoryType
  <2> QED BY <2>1, <1>7 DEF Registered
<1>11. Closers'
  BY <1>2, <1>3, <1>4, <1>5, <1>10 DEF MappingsOwned, Closers, OthersWait
<1>12. Adders'
  BY <1>2, <1>3, <1>4, <1>5 DEF MappingsOwned, Adders, OthersWait
<1> QED BY <1>8, <1>9, <1>11, <1>12 DEF MappingsOwned

LEMMA DeleteKeepsMappings ==
    ASSUME TypeOK, CallsOrdered, MappingsOwned, NEW t \in Threads,
           delete_PMEMaddrset(t)
    PROVE  MappingsOwned'
<1> DEFINE r == call[t].reg
<1>1. /\ At(t, "delete") /\ Continue(t, Rest(t)) /\ UNCHANGED region
      /\ IF r \in Registered
         THEN \E i \in DOMAIN list : list[i].reg = r /\ list' = Unlink(i)
         ELSE UNCHANGED list
  BY DEF delete_PMEMaddrset
<1>2. /\ OthersWait(t) /\ ~Ahead(todo'[t], {"add"})
      /\ Unmaps(todo'[t]) => Unmaps(todo[t]) /\ call'[t] = call[t]
      /\ Ahead(todo'[t], {"unmap"}) => call'[t] = call[t]
  BY <1>1, Advance DEF Ahead, Maps
<1>3. /\ Len(list) \in Nat /\ DOMAIN list = 1..Len(list)
      /\ list \in Seq([chunk : Chunks, reg : Regions])
  BY ListType
<1>4. /\ Distinct' /\ RegisteredHeld' /\ r \notin Registered'
      /\ \A q \in Registered' : q \in Registered
  <2>1. CASE r \notin Registered
    BY <1>1, <2>1 DEF MappingsOwned, Distinct, RegisteredHeld, Registered
  <2>2. CASE r \in Registered
    <3>1. PICK i \in 1..Len(list) : list[i].reg = r /\ list' = Unlink(i)
      BY <1>1, <1>3, <2>2
    <3>2. /\ Len(list') = Len(list) - 1 /\ DOMAIN list' = 1..Len(list')
          /\ \A k \in 1..(Len(list) - 1) :
                list'[k] = IF k < i THEN list[k] ELSE list[k + 1]
      BY <1>3, <3>1, UnlinkElements, LenProperties
    <3> DEFINE from(k) == IF k < i THEN k ELSE k + 1
    <3>3. \A k \in 1..Len(list') :
             /\ from(k) \in 1..Len(list) /\ from(k) # i
             /\ list'[k] = list[from(k)]
      BY <1>3, <3>2
    <3>4. \A j, k \in 1..Len(list') : from(j) = from(k) => j = k
      BY <1>3, <3>2
    <3> HIDE DEF from
    <3>5. Distinct'
      BY <3>3, <3>4 DEF MappingsOwned, Distinct
    <3>6. RegisteredHeld'
      BY <1>1, <3>3 DEF MappingsOwned, RegisteredHeld
    <3>7. r \notin Registered'
      <4>1. \A k \in 1..Len(list') : list'[k].reg # r
        BY <3>1, <3>3 DEF MappingsOwned, Distinct
      <4> QED BY <4>1, <3>2 DEF Registered
    <3>8. \A q \in Registered' : q \in Registered
      BY <1>3, <3>2, <3>3 DEF Registered
    <3> QED BY <3>5, <3>6, <3>7, <3>8
  <2> QED BY <2>1, <2>2
<1>5. Closers'
  BY <1>1, <1>2, <1>4 DEF MappingsOwned, Closers, OthersWait
<1>6. Adders'
  BY <1>1, <1>2 DEF MappingsOwned, Adders, OthersWait
<1> QED BY <1>4, <1>5, <1>6 DEF MappingsOwned

LEMMA UnmapKeepsMappings ==
    ASSUME TypeOK, CallsOrdered, MappingsOwned, NEW t \in Threads, Unmap(t)
    PROVE  MappingsOwned'
<1> DEFINE r == call[t].reg
<1>1. /\ At(t, "unmap") /\ Continue(t, Rest(t)) /\ UNCHANGED list
      /\ region' = [region EXCEPT ![r] = "free"]
  BY DEF Unmap
<1>2. /\ OthersWait(t) /\ ~Ahead(todo'[t], {"add"})
      /\ ~Unmaps(todo'[t])
  BY <1>1, Advance DEF Ahead, Maps
<1>3. Ahead(todo[t], {"unmap"}) /\ Unmaps(todo[t])
  <2>1. todo[t] \in Seq(Ops) /\ todo[t] # <<>> /\ todo[t][1] = "unmap"
    BY <1>1, AtFirst
  <2>2. 1 \in 1..Len(todo[t])
    BY <2>1, EmptySeq
  <2> QED BY <2>1, <2>2 DEF Ahead, Unmaps
<1>4. region[r] = "closing" /\ r \notin Registered
  BY <1>3 DEF MappingsOwned, Closers
<1>5. /\ r \in Regions /\ \A u \in Threads : call[u].reg \in Regions
      /\ \A q \in Regions \ {r} : region'[q] = region[q]
  BY <1>1, CallType DEF TypeOK, MemoryType
<1>6. Distinct' /\ Registered' = Registered
  BY <1>1 DEF MappingsOwned, Distinct, Registered
<1>7. RegisteredHeld'
  BY <1>1, <1>4, <1>5, ListType DEF MappingsOwned, RegisteredHeld, Registered
<1>8. Closers'
  BY <1>2, <1>3, <1>5, <1>6 DEF MappingsOwned, Closers, OthersWait
<1>9. Adders'
  BY <1>2, <1>4, <1>5 DEF MappingsOwned, Adders, OthersWait
<1> QED BY <1>6, <1>7, <1>8, <1>9 DEF MappingsOwned

LEMMA CallOrdered ==
    ASSUME TypeOK, CallsOrdered, NEW t \in Threads, Call(t)
    PROVE  /\ CallsOrdered'
           /\ \A u \in Threads \ {t} : todo'[u] = todo[u] /\ call'[u] = call[u]
           /\ ~Ahead(todo'[t], Locked \cup {"recheck", "gate", "add", "unmap"})
           /\ UNCHANGED list
           /\ IF Unmaps(todo'[t])
              THEN \E r \in Regions :
                      /\ region[r] = "held" /\ call'[t].reg = r
                      /\ region' = [region EXCEPT ![r] = "closing"]
              ELSE UNCHANGED region
<1>1. PICK api \in Api : \E args \in Arguments(api) :
         /\ Legal(t, api, args)
         /\ todo' = [todo EXCEPT ![t] = Steps[api]]
         /\ call' = [call EXCEPT ![t] = args]
         /\ region' = IF Takes(api, {"unmap"})
                      THEN [region EXCEPT ![args.reg] = "closing"] ELSE region
  BY DEF Call
<1>2. PICK args \in Arguments(api) :
         /\ Legal(t, api, args)
         /\ todo' = [todo EXCEPT ![t] = Steps[api]]
         /\ call' = [call EXCEPT ![t] = args]
         /\ region' = IF Takes(api, {"unmap"})
                      THEN [region EXCEPT ![args.reg] = "closing"] ELSE region
  BY <1>1
<1>3. /\ Steps[api] \in Seq(Ops) /\ Ordered(Steps[api]) /\ Begins(Steps[api])
      /\ args \in Calls /\ args.reg \in Regions
  BY ApiAssumption, StepsAreOps, StepsOrdered, ArgumentsType DEF Calls
<1>4. /\ todo'[t] = Steps[api] /\ call'[t] = args
      /\ \A u \in Threads \ {t} : todo'[u] = todo[u] /\ call'[u] = call[u]
  BY <1>2 DEF TypeOK, ThreadType
<1>5. Unmaps(Steps[api]) <=> Takes(api, {"unmap"})
  BY <1>3, LenProperties DEF Unmaps, Takes
<1>6. CallsOrdered'
  BY <1>3, <1>4 DEF CallsOrdered
<1>7. Takes(api, {"unmap"}) => region[args.reg] = "held"
  BY <1>2 DEF Legal
<1>8. UNCHANGED list
  BY DEF Call
<1> QED BY <1>2, <1>3, <1>4, <1>5, <1>6, <1>7, <1>8 DEF Begins

LEMMA CallKeepsMappings ==
    ASSUME TypeOK, CallsOrdered, MappingsOwned, NEW t \in Threads, Call(t)
    PROVE  MappingsOwned'
<1>1. /\ \A u \in Threads \ {t} : todo'[u] = todo[u] /\ call'[u] = call[u]
      /\ ~Ahead(todo'[t], {"add"}) /\ ~Ahead(todo'[t], {"unmap"})
      /\ UNCHANGED list
  BY CallOrdered DEF Ahead
<1>2. CASE ~Unmaps(todo'[t])
  BY <1>1, <1>2, CallOrdered, QuietKeepsMappings DEF QuietCalls
<1>3. CASE Unmaps(todo'[t])
  <2>1. PICK r \in Regions :
           /\ region[r] = "held" /\ call'[t].reg = r
           /\ region' = [region EXCEPT ![r] = "closing"]
    BY <1>3, CallOrdered
  <2>2. /\ region'[r] = "closing"
        /\ \A q \in Regions \ {r} : region'[q] = region[q]
    BY <2>1 DEF TypeOK, MemoryType
  <2>3. \A u \in Threads : call[u].reg \in Regions
    BY CallType
  <2>4. Distinct' /\ Registered' = Registered
    BY <1>1 DEF MappingsOwned, Distinct, Registered
  <2>5. RegisteredHeld'
    BY <1>1, <2>2, ListType DEF MappingsOwned, RegisteredHeld
  <2>6. Closers'
    BY <1>1, <2>1, <2>2, <2>3, <2>4 DEF MappingsOwned, Closers
  <2>7. Adders'
    BY <1>1, <2>1, <2>2, <2>3 DEF MappingsOwned, Adders
  <2> QED BY <2>4, <2>5, <2>6, <2>7 DEF MappingsOwned
<1> QED BY <1>2, <1>3

LEMMA OwnedInit == Init => CallsOrdered /\ MappingsOwned
BY DEF Init, CallsOrdered, Ordered, MappingsOwned, Distinct, RegisteredHeld,
   Closers, Adders, Unmaps, Ahead

LEMMA OwnedStep ==
    ASSUME TypeOK, CallsOrdered, MappingsOwned, [Next]_vars
    PROVE  CallsOrdered' /\ MappingsOwned'
<1>1. ASSUME UNCHANGED <<todo, call, region, list>>
      PROVE  CallsOrdered' /\ MappingsOwned'
  BY <1>1, QuietKeepsMappings DEF CallsOrdered, QuietCalls
<1>2. CASE UNCHANGED vars
  BY <1>2, <1>1 DEF vars, memory, threads
<1>3. CASE Return
  BY <1>3, <1>1 DEF Return, Terminate
<1>4. CASE Ended
  BY <1>4, <1>2 DEF Ended
<1>5. ASSUME NEW t \in Threads, Call(t)
      PROVE  CallsOrdered' /\ MappingsOwned'
  BY <1>5, CallOrdered, CallKeepsMappings
<1>6. ASSUME NEW t \in Threads, Store(t)
      PROVE  CallsOrdered' /\ MappingsOwned'
  BY <1>6, <1>1 DEF Store, threads
<1>7. ASSUME NEW t \in Threads, Thread(t)
      PROVE  CallsOrdered' /\ MappingsOwned'
  <2>1. CallsOrdered'
    BY <1>7, ThreadSteps
  <2>2. CASE MapFile(t) \/ MapPool(t)
    BY <2>1, <2>2, MapsKeepMappings
  <2>3. CASE delete_PMEMaddrset(t)
    BY <2>1, <2>3, DeleteKeepsMappings
  <2>4. CASE add_PMEMaddrset(t)
    BY <2>1, <2>4, AddKeepsMappings
  <2>5. CASE Unmap(t)
    BY <2>1, <2>5, UnmapKeepsMappings
  <2>6. CASE ~(\/ MapFile(t) \/ MapPool(t) \/ delete_PMEMaddrset(t)
               \/ add_PMEMaddrset(t) \/ Unmap(t))
    <3>1. UNCHANGED <<region, list>>
      BY <1>7, <2>6
         DEF Thread, plus_persistcount, Gate, Recheck, Raise, Spare,
             WriteBacktrace, SetAbortflag, SetThrough, MapFileFails,
             MapPoolFails, AddFails, BacktraceFails, DrainIfRaised, FlushIgnored,
             FlushPassesThrough, FlushQueued, FlushOverruns, DrainFails,
             DrainStarts, CopyEntry, StaleEntry, DrainEnds, DrainAborts,
             LibpmemMemcpy, LibpmemMemcpyPersist, Terminate, memory
    <3> QED BY <1>7, <2>1, <2>6, <3>1, ThreadQuiet, QuietKeepsMappings
  <2> QED BY <2>2, <2>3, <2>4, <2>5, <2>6
<1> QED BY <1>2, <1>3, <1>4, <1>5, <1>6, <1>7 DEF Next

(* No file is registered twice and every registered file is mapped, at     *)
(* whatever point the threads are in their calls of pmem_map_file and      *)
(* pmem_unmap (wraplibpmem.c:598-683).                                     *)
THEOREM RegistryIsSound == Spec => [](CallsOrdered /\ MappingsOwned)
<1> DEFINE I == CallsOrdered /\ MappingsOwned
<1>1. Init => I
  BY OwnedInit
<1>2. TypeOK /\ I /\ [Next]_vars => I'
  BY OwnedStep
<1> QED BY <1>1, <1>2, TypeCorrect, PTL DEF Spec

=============================================================================
