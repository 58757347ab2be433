------------------------ MODULE PmemWrapRaiseProofs -------------------------
(* The raise of abortflag: who holds the mutex while the coin is in the    *)
(* air or a drain copies, and what a flag that is up keeps from happening. *)
EXTENDS PmemWrapProofs

(* Between coin and unlock, and while it copies, a thread has the mutex.   *)
LockHeld == \A t \in Threads : Ahead(todo[t], Locked) => owner = t

(* It got there with the flag down; nobody else can raise it but by force. *)
FlagDown ==
    \A t \in Threads : Ahead(todo[t], Locked) => abortflag = 0 \/ forced

(* A site is counted before the coin is thrown for it.                     *)
Counted ==
    \A t \in Threads :
        Ahead(todo[t], {"gate", "recheck", "coin"}) => count[call[t].site] > 0

Charged == {s \in Sites : aborts[s] # 0}

(* A charge is made once, by the raise, and ends the throwing of coins.    *)
Charge ==
    /\ \A s \in Charged : aborts[s] = 1 /\ count[s] > 0 /\ abortflag = 1
    /\ \A s, u \in Charged : s = u
    /\ Charged # {} => \A t \in Threads : ~Ahead(todo[t], {"coin"})
    /\ abortflag = 1 /\ ~forced => Charged # {}

(* Who aborted has written what it counted.                                *)
Reported == status = "aborted" => countfile = <<count, aborts>>

RaiseInv == LockHeld /\ FlagDown /\ Counted /\ Charge /\ Reported

-----------------------------------------------------------------------------
(* Of the steps that leave the mutex and the flag alone.                   *)
LEMMA LockQuiet ==
    ASSUME LockHeld, FlagDown, UNCHANGED owner,
           abortflag' = abortflag \/ forced', forced => forced',
           \A u \in Threads :
              Ahead(todo'[u], Locked) => Ahead(todo[u], Locked)
    PROVE  LockHeld' /\ FlagDown'
BY DEF LockHeld, FlagDown

LEMMA LockedParts ==
    \A s : Ahead(s, Locked) <=> Ahead(s, {"coin"}) \/ Ahead(s, {"copy"})
BY DEF Ahead, Locked

LEMMA LockTake ==
    ASSUME LockHeld, owner = NoThread, NEW t \in Threads, OthersWait(t),
           owner' = t, Ahead(todo'[t], Locked) => abortflag' = 0
    PROVE  LockHeld' /\ FlagDown'
BY ThreadsAssumption DEF LockHeld, FlagDown, OthersWait

LEMMA LockGive ==
    ASSUME LockHeld, NEW t \in Threads, owner = t, OthersWait(t),
           ~Ahead(todo'[t], Locked)
    PROVE  LockHeld' /\ FlagDown'
BY DEF LockHeld, FlagDown, OthersWait

LEMMA LockInit == Init => LockHeld /\ FlagDown
BY DEF Init, LockHeld, FlagDown, Ahead

LEMMA LockStep ==
    ASSUME TypeOK, CallsOrdered, LockHeld, FlagDown, [Next]_vars
    PROVE  LockHeld' /\ FlagDown'
<1>1. ASSUME UNCHANGED <<todo, owner, abortflag, forced>>
      PROVE  LockHeld' /\ FlagDown'
  BY <1>1 DEF LockHeld, FlagDown
<1>2. CASE UNCHANGED vars
  BY <1>2, <1>1 DEF vars, threads, flags, history
<1>3. CASE Return
  BY <1>3, <1>1 DEF Return, Terminate, flags, history
<1>4. CASE Ended
  BY <1>4, <1>2 DEF Ended
<1>5. ASSUME NEW t \in Threads, Call(t) PROVE LockHeld' /\ FlagDown'
  <2>1. \A u \in Threads : Ahead(todo'[u], Locked) => Ahead(todo[u], Locked)
    BY <1>5, CallOrdered DEF Ahead
  <2> QED BY <1>5, <2>1, LockQuiet DEF Call, flags, history
<1>6. ASSUME NEW t \in Threads, Store(t) PROVE LockHeld' /\ FlagDown'
  BY <1>6, <1>1 DEF Store, threads, flags, history
<1>7. ASSUME NEW t \in Threads, Thread(t) PROVE LockHeld' /\ FlagDown'
  <2>1. OthersWait(t) /\ (Same(t) \/ NewSteps(t))
    BY <1>7, ThreadSteps
  <2>2. CASE Recheck(t)
    <3>1. CASE AlreadyUp
      <4>1. ~Ahead(todo'[t], Locked)
        BY <2>2, <3>1, Advance DEF Recheck, Ahead, Maps
      <4> QED BY <2>1, <2>2, <3>1, <4>1, LockQuiet
              DEF Recheck, OthersWait, flags, history
    <3>2. CASE ~AlreadyUp
      <4>1. abortflag' = 0
        BY <2>2, <3>2 DEF Recheck, AlreadyUp, TypeOK, FlagType, flags
      <4> QED BY <2>1, <2>2, <3>2, <4>1, LockTake DEF Recheck
    <3> QED BY <3>1, <3>2
  <2>3. CASE DrainStarts(t)
    BY <2>1, <2>3, LockTake DEF DrainStarts, flags
  <2>4. CASE Raise(t) \/ Spare(t) \/ DrainEnds(t)
    <3>1. /\ owner = t /\ Continue(t, Rest(t))
          /\ At(t, "coin") \/ At(t, "copy")
      BY <2>4 DEF Raise, Spare, DrainEnds
    <3>2. ~Ahead(todo'[t], Locked)
      BY <3>1, Advance DEF Ahead, Maps
    <3> QED BY <2>1, <3>1, <3>2, LockGive
  <2>5. CASE DrainAborts(t)
    <3>1. ~Ahead(todo'[t], Locked)
      BY <2>5, AtFirst DEF DrainAborts, Ahead, Locked
    <3> QED BY <2>1, <2>5, <3>1, LockTake DEF DrainAborts
  <2>6. CASE ~(\/ Recheck(t) \/ DrainStarts(t) \/ Raise(t) \/ Spare(t)
               \/ DrainEnds(t) \/ DrainAborts(t))
    <3>1. /\ UNCHANGED owner
          /\ (abortflag' = abortflag \/ forced') /\ (forced => forced')
      BY <1>7, <2>6
         DEF Thread, plus_persistcount, Gate, WriteBacktrace, SetAbortflag,
             SetThrough, MapFile, MapFileFails, MapPool, MapPoolFails,
             add_PMEMaddrset, AddFails, BacktraceFails, DrainIfRaised, delete_PMEMaddrset,
             Unmap, FlushIgnored, FlushPassesThrough, FlushQueued,
             FlushOverruns, DrainFails, CopyEntry, StaleEntry, LibpmemMemcpy,
             LibpmemMemcpyPersist, Terminate, flags, threads, history
    <3>2. \A u \in Threads : Ahead(todo'[u], Locked) => Ahead(todo[u], Locked)
      BY <2>1, <2>6, LockedParts DEF OthersWait, Same, NewSteps
    <3> QED BY <3>1, <3>2, LockQuiet
  <2> QED BY <2>2, <2>3, <2>4, <2>5, <2>6
<1> QED BY <1>2, <1>3, <1>4, <1>5, <1>6, <1>7 DEF Next

-----------------------------------------------------------------------------
(* What is counted and charged. *)

LEMMA CountGrows ==
    ASSUME TypeOK, [Next]_vars
    PROVE  \A s \in Sites : count[s] > 0 => count'[s] > 0
<1> USE DEF TypeOK, CountType
<1>1. CASE UNCHANGED count
  BY <1>1
<1>2. ASSUME NEW t \in Threads, plus_persistcount(t)
      PROVE  \A s \in Sites : count[s] > 0 => count'[s] > 0
  BY <1>2 DEF plus_persistcount
<1>3. UNCHANGED count \/ \E t \in Threads : plus_persistcount(t)
  BY DEF Next, vars, Return, Ended, Call, Store, Thread, Gate, Recheck, Raise,
         Spare, WriteBacktrace, SetAbortflag, SetThrough, MapFile,
         MapFileFails, MapPool, MapPoolFails, add_PMEMaddrset, AddFails, BacktraceFails,
         DrainIfRaised, delete_PMEMaddrset, Unmap, FlushIgnored,
         FlushPassesThrough, FlushQueued, FlushOverruns, DrainFails,
         DrainStarts, CopyEntry, StaleEntry, DrainEnds, DrainAborts,
         LibpmemMemcpy, LibpmemMemcpyPersist, Terminate, counts
<1> QED BY <1>1, <1>2, <1>3

LEMMA CountedStep ==
    ASSUME TypeOK, CallsOrdered, Counted, [Next]_vars
    PROVE  Counted'
<1> DEFINE drawing == {"gate", "recheck", "coin"}
<1>1. \A u \in Threads : call[u].site \in Sites
  BY CallType DEF Calls
<1>2. \A s \in Sites : count[s] > 0 => count'[s] > 0
  BY CountGrows
<1>3. ASSUME \A u \in Threads : Ahead(todo'[u], drawing) =>
                Ahead(todo[u], drawing) /\ call'[u] = call[u]
      PROVE  Counted'
  BY <1>1, <1>2, <1>3 DEF Counted
<1>4. ASSUME UNCHANGED <<todo, call>> PROVE Counted'
  BY <1>3, <1>4
<1>5. CASE UNCHANGED vars \/ Return \/ Ended
  BY <1>4, <1>5 DEF vars, threads, Return, Ended, Terminate
<1>6. ASSUME NEW t \in Threads, Store(t) PROVE Counted'
  BY <1>4, <1>6 DEF Store, threads
<1>7. ASSUME NEW t \in Threads, Call(t) PROVE Counted'
  <2>1. ~Ahead(todo'[t], drawing)
    BY <1>7, CallOrdered DEF Ahead, Locked
  <2> HIDE DEF drawing
  <2> QED BY <1>3, <1>7, <2>1, CallOrdered
<1>8. ASSUME NEW t \in Threads, Thread(t) PROVE Counted'
  <2>1. OthersWait(t) /\ (Same(t) \/ NewSteps(t))
    BY <1>8, ThreadSteps
  <2>2. CASE Same(t)
    BY <1>4, <2>1, <2>2, <1>3 DEF OthersWait, Same
  <2>3. CASE plus_persistcount(t)
    <3>1. count'[call[t].site] > 0
      BY <1>1, <2>3 DEF plus_persistcount, TypeOK, CountType
    <3>2. Ahead(todo'[t], drawing) => call'[t] = call[t]
      BY <2>3, Advance DEF plus_persistcount, Ahead, Locked
    <3> HIDE DEF drawing
    <3>3. \A u \in Threads \ {t} : Ahead(todo'[u], drawing) =>
             Ahead(todo[u], drawing) /\ call'[u] = call[u]
      BY <2>1 DEF OthersWait
    <3> QED BY <1>1, <1>2, <3>1, <3>2, <3>3 DEF Counted, drawing
  <2>4. CASE NewSteps(t) /\ ~plus_persistcount(t)
    <3>1. Ahead(todo'[t], drawing) =>
             (Gate(t) \/ Recheck(t)) /\ call'[t] = call[t]
      BY <2>4 DEF NewSteps, Ahead
    <3>2. Gate(t) \/ Recheck(t) => Ahead(todo[t], drawing)
      BY AtFirst DEF Gate, Recheck, Ahead
    <3> HIDE DEF drawing
    <3> QED BY <1>3, <2>1, <3>1, <3>2 DEF OthersWait
  <2> QED BY <2>1, <2>2, <2>3, <2>4
<1> QED BY <1>5, <1>6, <1>7, <1>8 DEF Next

LEMMA ChargeQuiet ==
    ASSUME TypeOK, Charge, [Next]_vars, UNCHANGED aborts,
           Charged # {} => abortflag' = 1,
           abortflag' = 1 /\ ~forced' => abortflag = 1 /\ ~forced,
           Charged # {} => \A u \in Threads :
              Ahead(todo'[u], {"coin"}) => Ahead(todo[u], {"coin"})
    PROVE  Charge'
<1>1. Charged' = Charged
  BY DEF Charged
<1>2. \A s \in Charged : count'[s] > 0
  BY CountGrows DEF Charge, Charged
<1> QED BY <1>1, <1>2 DEF Charge

LEMMA ChargeRaise ==
    ASSUME TypeOK, CallsOrdered, LockHeld, Counted, Charge,
           NEW t \in Threads, Raise(t)
    PROVE  Charge'
<1> DEFINE site == call[t].site
<1>1. /\ At(t, "coin") /\ owner = t /\ abortflag' = 1 /\ UNCHANGED count
      /\ aborts' = [aborts EXCEPT ![site] = @ + 1] /\ Continue(t, Rest(t))
  BY DEF Raise
<1>2. Ahead(todo[t], {"coin"}) /\ Ahead(todo[t], {"gate", "recheck", "coin"})
  BY <1>1, AtFirst DEF Ahead
<1>3. site \in Sites /\ count[site] > 0
  BY <1>2, CallType DEF Calls, Counted
<1>4. Charged = {}
  BY <1>2 DEF Charge
<1>5. aborts \in [Sites -> Nat] /\ \A s \in Sites : aborts[s] = 0
  BY <1>4 DEF Charged, TypeOK, CountType
<1> HIDE DEF site
<1>6. Charged' = {site} /\ aborts'[site] = 1
  BY <1>1, <1>3, <1>5 DEF Charged
<1>7. OthersWait(t) /\ ~Ahead(todo'[t], {"coin"})
  BY <1>1, Advance DEF Ahead, Maps, Locked
<1>8. \A u \in Threads : ~Ahead(todo'[u], {"coin"})
  BY <1>1, <1>7, LockedParts DEF LockHeld, OthersWait
<1> QED BY <1>1, <1>3, <1>6, <1>8 DEF Charge

LEMMA ChargeStep ==
    ASSUME TypeOK, CallsOrdered, LockHeld, Counted, Charge, [Next]_vars
    PROVE  Charge'
<1>1. ASSUME UNCHANGED <<todo, aborts, abortflag, forced>> PROVE Charge'
  BY <1>1, ChargeQuiet DEF Charge
<1>2. CASE UNCHANGED vars \/ Return \/ Ended
  BY <1>1, <1>2
     DEF vars, threads, flags, counts, history, Return, Ended, Terminate
<1>3. ASSUME NEW t \in Threads, Store(t) PROVE Charge'
  BY <1>1, <1>3 DEF Store, threads, flags, counts, history
<1>4. ASSUME NEW t \in Threads, Call(t) PROVE Charge'
  <2>1. \A u \in Threads : Ahead(todo'[u], {"coin"}) => Ahead(todo[u], {"coin"})
    BY <1>4, CallOrdered DEF Ahead, Locked
  <2>2. UNCHANGED <<aborts, abortflag, forced>>
    BY <1>4 DEF Call, flags, counts, history
  <2> QED BY <2>1, <2>2, ChargeQuiet DEF Charge
<1>5. ASSUME NEW t \in Threads, Thread(t) PROVE Charge'
  <2>1. OthersWait(t) /\ (Same(t) \/ NewSteps(t))
    BY <1>5, ThreadSteps
  <2>2. CASE Raise(t)
    BY <2>2, ChargeRaise
  <2>3. CASE Spare(t)
    <3>1. Ahead(todo[t], {"coin"})
      BY <2>3, AtFirst DEF Spare, Ahead
    <3>2. Charged = {} /\ abortflag' = 0 /\ UNCHANGED aborts
      BY <2>3, <3>1 DEF Charge, Spare, counts
    <3> QED BY <3>2, ChargeQuiet
  <2>4. CASE Recheck(t) /\ ~AlreadyUp
    <3>1. Charged = {} /\ UNCHANGED <<aborts, abortflag, forced>>
      BY <2>4 DEF Charge, Recheck, AlreadyUp, counts, flags, history
    <3> QED BY <3>1, ChargeQuiet
  <2>5. CASE ~Raise(t) /\ ~Spare(t) /\ ~(Recheck(t) /\ ~AlreadyUp)
    <3>1. UNCHANGED aborts
      BY <1>5, <2>5
         DEF Thread, plus_persistcount, Gate, Recheck, WriteBacktrace,
             SetAbortflag, SetThrough, MapFile, MapFileFails, MapPool,
             MapPoolFails, add_PMEMaddrset, AddFails, BacktraceFails, DrainIfRaised,
             delete_PMEMaddrset, Unmap, FlushIgnored, FlushPassesThrough,
             FlushQueued, FlushOverruns, DrainFails, DrainStarts, CopyEntry,
             StaleEntry, DrainEnds, DrainAborts, LibpmemMemcpy,
             LibpmemMemcpyPersist, Terminate, counts
    <3>2. UNCHANGED <<abortflag, forced>> \/ (abortflag' = 1 /\ forced')
      BY <1>5, <2>5
         DEF Thread, plus_persistcount, Gate, Recheck, WriteBacktrace,
             SetAbortflag, SetThrough, MapFile, MapFileFails, MapPool,
             MapPoolFails, add_PMEMaddrset, AddFails, BacktraceFails, DrainIfRaised,
             delete_PMEMaddrset, Unmap, FlushIgnored, FlushPassesThrough,
             FlushQueued, FlushOverruns, DrainFails, DrainStarts, CopyEntry,
             StaleEntry, DrainEnds, DrainAborts, LibpmemMemcpy,
             LibpmemMemcpyPersist, Terminate, flags, history
    <3>3. \A u \in Threads :
             Ahead(todo'[u], {"coin"}) => Ahead(todo[u], {"coin"})
      BY <2>1, <2>5 DEF OthersWait, Same, NewSteps
    <3> QED BY <3>1, <3>2, <3>3, ChargeQuiet DEF Charge
  <2> QED BY <2>2, <2>3, <2>4, <2>5
<1> QED BY <1>2, <1>3, <1>4, <1>5 DEF Next

LEMMA ReportedStep ==
    ASSUME Reported, [Next]_vars
    PROVE  Reported'
<1>1. CASE UNCHANGED vars \/ Ended
  BY <1>1 DEF Ended, Reported, vars, threads, counts
<1>2. CASE Return \/ \E t \in Threads : Call(t) \/ Store(t)
  BY <1>2 DEF Return, Terminate, Call, Store, Reported, threads
<1>3. ASSUME NEW t \in Threads, Thread(t) PROVE Reported'
  <2>1. CASE DrainAborts(t)
    BY <2>1 DEF DrainAborts, write_persistcountfile, Reported, counts
  <2>2. CASE ~DrainAborts(t)
    <3>1. status' # "aborted"
      BY <1>3, <2>2
         DEF Thread, At, plus_persistcount, Gate, Recheck, Raise, Spare,
             WriteBacktrace, SetAbortflag, SetThrough, MapFile, MapFileFails,
             MapPool, MapPoolFails, add_PMEMaddrset, AddFails, BacktraceFails, DrainIfRaised,
             delete_PMEMaddrset, Unmap, FlushIgnored, FlushPassesThrough,
             FlushQueued, FlushOverruns, DrainFails, DrainStarts, CopyEntry,
             StaleEntry, DrainEnds, LibpmemMemcpy, LibpmemMemcpyPersist,
             Terminate, threads
    <3> QED BY <3>1 DEF Reported
  <2> QED BY <2>1, <2>2
<1> QED BY <1>1, <1>2, <1>3 DEF Next

-----------------------------------------------------------------------------
LEMMA RaiseInit == Init => RaiseInv
<1>1. Init => LockHeld /\ FlagDown
  BY LockInit
<1>2. Init => Counted /\ Reported
  BY DEF Init, Counted, Reported, Ahead
<1>3. Init => Charge
  BY DEF Init, Charge, Charged
<1> QED BY <1>1, <1>2, <1>3 DEF RaiseInv

LEMMA RaiseStep ==
    ASSUME TypeOK, CallsOrdered, RaiseInv, [Next]_vars
    PROVE  RaiseInv'
BY LockStep, CountedStep, ChargeStep, ReportedStep DEF RaiseInv

LEMMA RaiseInvariant == Spec => []RaiseInv
<1>1. TypeOK /\ CallsOrdered /\ RaiseInv /\ [Next]_vars => RaiseInv'
  BY RaiseStep
<1> QED BY RaiseInit, <1>1, TypeCorrect, RegistryIsSound, PTL DEF Spec

(* However many threads throw coins and drain at once, a run charges its   *)
(* crash to one site, which it has counted, and a process that aborted has *)
(* written that charge (wraplibpmem.c:245-290, 806-821).                   *)
THEOREM ChargedOnceHolds == Spec => []ChargedOnce
<1>1. TypeOK /\ RaiseInv => ChargedOnce
  BY DEF RaiseInv, Charge, Charged, Reported, ChargedOnce, TypeOK, FlagType
<1> QED BY <1>1, TypeCorrect, RaiseInvariant, PTL

(* A coin that comes up blank writes 0 to abortflag: it never takes back   *)
(* the raise of another thread, because no coin is in the air while a flag *)
(* that nobody forced is up (wraplibpmem.c:257-287).                       *)
THEOREM RaiseNeverTakenBack == Spec => RaiseHolds
<1>1. ASSUME TypeOK, RaiseInv, [Next]_vars, abortflag = 1, ~forced, ~forced'
      PROVE  abortflag' = 1
  <2>1. CASE UNCHANGED abortflag
    BY <1>1, <2>1
  <2>2. ASSUME NEW t \in Threads, Spare(t) PROVE FALSE
    <3>1. Ahead(todo[t], {"coin"})
      BY <1>1, <2>2, AtFirst DEF Spare, Ahead
    <3> QED BY <1>1, <3>1 DEF RaiseInv, Charge
  <2>3. \/ UNCHANGED abortflag \/ abortflag' = 1
        \/ \E t \in Threads : Spare(t)
    BY <1>1
       DEF Next, vars, Return, Ended, Call, Store, Thread, plus_persistcount,
           Gate, Recheck, Raise, WriteBacktrace, SetAbortflag, SetThrough,
           MapFile, MapFileFails, MapPool, MapPoolFails, add_PMEMaddrset,
           AddFails, BacktraceFails, DrainIfRaised, delete_PMEMaddrset, Unmap, FlushIgnored,
           FlushPassesThrough, FlushQueued, FlushOverruns, DrainFails,
           DrainStarts, CopyEntry, StaleEntry, DrainEnds, DrainAborts,
           LibpmemMemcpy, LibpmemMemcpyPersist, Terminate, flags
  <2> QED BY <2>1, <2>2, <2>3
<1>2. TypeOK /\ RaiseInv /\ [Next]_vars =>
         [abortflag = 1 /\ ~forced /\ ~forced' => abortflag' = 1]_vars
  BY <1>1
<1> QED BY <1>2, TypeCorrect, RaiseInvariant, PTL DEF Spec, RaiseHolds

-----------------------------------------------------------------------------
(* A program that unmaps through the wrappers only.                        *)

OnlyWrappers == "pmem_unmap" \notin Api

(* What a call does last before it deletes a set: see that no flag is up.  *)
Passes == {"drain_if_raised", "drain", "copy"}

Guarded(s) ==
    \A i \in 1..Len(s) : s[i] = "delete" => i = 1 \/ s[i - 1] \in Passes

LEMMA StepsGuarded ==
    \A api \in DOMAIN Steps \ {"pmem_unmap"} :
        Guarded(Steps[api]) /\ ~Ahead(Steps[api], {"delete", "copy"})
<1>1. ASSUME NEW api \in DOMAIN Steps, ~Has(Steps[api], "delete")
      PROVE  Guarded(Steps[api]) /\ ~Ahead(Steps[api], {"delete"})
  <2>1. Steps[api] \in Seq(Ops)
    BY StepsAreOps
  <2>2. Steps[api] # <<>> => 1 \in 1..Len(Steps[api])
    BY <2>1, EmptySeq
  <2> QED BY <1>1, <2>2 DEF Has, Guarded, Ahead
<1>2. Guarded(pmem_wrap_unmap) /\ ~Ahead(pmem_wrap_unmap, {"delete"})
  BY DEF pmem_wrap_unmap, rand_set_abortflag_plus_persistcount, pmem_unmap,
         Guarded, Passes, Ahead
<1>3. Steps["pmem_wrap_unmap"] = pmem_wrap_unmap
  BY DEF Steps
<1>4. \A api \in DOMAIN Steps : ~Ahead(Steps[api], {"copy"})
  BY StepsOrdered DEF Begins, Ahead, Locked
<1> QED BY <1>1, <1>2, <1>3, <1>4, UnmapFunctions DEF Ahead

LEMMA TailGuarded ==
    ASSUME NEW s \in Seq(Ops), s # <<>>, Guarded(s)
    PROVE  /\ Guarded(Tail(s))
           /\ Ahead(Tail(s), {"delete"}) => s[1] \in Passes
<1>1. /\ Tail(s) \in Seq(Ops)
      /\ Len(Tail(s)) = Len(s) - 1 /\ Len(s) \in Nat
      /\ \A i \in 1..Len(Tail(s)) : Tail(s)[i] = s[i + 1]
  BY HeadTailProperties, LenProperties
<1>2. \A i \in 1..Len(Tail(s)) : i + 1 \in 1..Len(s) /\ (i + 1) - 1 = i
  BY <1>1
<1>3. \A i \in 1..Len(Tail(s)) : Tail(s)[i] = "delete" => s[i] \in Passes
  BY <1>1, <1>2 DEF Guarded
<1>4. \A i \in 1..Len(Tail(s)) : i # 1 =>
         i - 1 \in 1..Len(Tail(s)) /\ Tail(s)[i - 1] = s[i]
  BY <1>1
<1>5. Guarded(Tail(s))
  BY <1>3, <1>4 DEF Guarded
<1>6. Tail(s) # <<>> => 1 \in 1..Len(Tail(s))
  BY <1>1, EmptySeq
<1> QED BY <1>3, <1>5, <1>6 DEF Ahead

LEMMA PushGuarded ==
    ASSUME NEW s \in Seq(Ops), s # <<>>, Guarded(s),
           NEW op \in {"recheck", "coin", "copy", "drain"},
           s[1] \in Passes => op \in Passes
    PROVE  Guarded(<<op>> \o Tail(s))
<1> DEFINE u == Tail(s)
<1> DEFINE v == <<op>> \o u
<1>1. u \in Seq(Ops) /\ Len(u) \in Nat
  BY HeadTailProperties, LenProperties
<1>2. <<op>> \in Seq(Ops) /\ Len(<<op>>) = 1 /\ <<op>>[1] = op
  BY DEF Ops
<1>3. /\ Len(v) = 1 + Len(u)
      /\ \A i \in 1..(1 + Len(u)) :
            v[i] = IF i <= 1 THEN <<op>>[i] ELSE u[i - 1]
  BY <1>1, <1>2, ConcatProperties
<1>4. Guarded(u) /\ (Ahead(u, {"delete"}) => op \in Passes)
  BY TailGuarded
<1>5. Len(u) > 0 => u # <<>>
  BY <1>1, EmptySeq
<1> HIDE DEF u, v
<1>6. /\ v[1] = op
      /\ \A i \in 1..Len(v) : i # 1 =>
            /\ i - 1 \in 1..Len(u) /\ v[i] = u[i - 1]
            /\ i - 1 # 1 => v[i - 1] = u[(i - 1) - 1]
  BY <1>1, <1>2, <1>3
<1>7. ASSUME NEW i \in 1..Len(v), v[i] = "delete", i # 1
      PROVE  v[i - 1] \in Passes
  <2>1. i - 1 \in 1..Len(u) /\ u[i - 1] = "delete"
    BY <1>6, <1>7
  <2>2. CASE i - 1 = 1
    <3>1. u[1] = "delete" /\ u # <<>>
      BY <1>1, <1>5, <2>1, <2>2
    <3> QED BY <1>4, <1>6, <2>2, <3>1 DEF Ahead
  <2>3. CASE i - 1 # 1
    <3>1. u[(i - 1) - 1] \in Passes
      BY <1>4, <2>1, <2>3 DEF Guarded
    <3> QED BY <1>6, <1>7, <2>3, <3>1
  <2> QED BY <2>2, <2>3
<1>8. Guarded(v)
  BY <1>7 DEF Guarded
<1> QED BY <1>8 DEF v, u

AllGuarded == \A t \in Threads : Guarded(todo[t])

LastSteps == {"delete", "copy"}

(* Only a look that finds the flag down brings a thread to its last steps.  *)
Looked(t) ==
    /\ Guarded(todo'[t])
    /\ Ahead(todo'[t], LastSteps) => Ahead(todo[t], LastSteps) \/ abortflag = 0

LEMMA LookStep ==
    ASSUME TypeOK, CallsOrdered, AllGuarded, NEW t \in Threads, Thread(t)
    PROVE  Looked(t)
<1> USE DEF LastSteps
<1>1. ASSUME NEW op, At(t, op), todo'[t] = Tail(todo[t]),
             op \in Passes => op = "copy" \/ abortflag = 0
      PROVE  Looked(t)
  <2>1. /\ todo[t] \in Seq(Ops) /\ todo[t] # <<>> /\ todo[t][1] = op
        /\ Guarded(todo[t]) /\ Ordered(todo[t])
    BY <1>1, AtFirst DEF AllGuarded, CallsOrdered
  <2>2. ~Ahead(Tail(todo[t]), {"copy"})
    BY <2>1, TailOrdered DEF Ahead, Locked
  <2> QED BY <1>1, <2>1, <2>2, TailGuarded DEF Ahead, Looked
<1>2. ASSUME NEW op, At(t, op), Continue(t, Rest(t)),
             op \in Passes => op = "copy" \/ abortflag = 0
      PROVE  Looked(t)
  BY <1>1, <1>2, Continued DEF Rest
<1>3. ASSUME NEW op, At(t, op), NEW new \in {"recheck", "coin", "copy", "drain"},
             Continue(t, <<new>> \o Rest(t)),
             op \in Passes => new \in Passes, new = "copy" => abortflag = 0
      PROVE  Looked(t)
  <2>1. /\ todo[t] \in Seq(Ops) /\ todo[t] # <<>> /\ todo[t][1] = op
        /\ Guarded(todo[t])
    BY <1>3, AtFirst DEF AllGuarded
  <2>2. todo'[t] = <<new>> \o Tail(todo[t])
    BY <1>3, Continued DEF Rest
  <2>3. Guarded(todo'[t])
    BY <1>3, <2>1, <2>2, PushGuarded
  <2>4. todo'[t][1] = new
    <3>1. <<new>> \in Seq(Ops) /\ Tail(todo[t]) \in Seq(Ops) /\ Len(<<new>>) = 1
      BY <2>1, HeadTailProperties DEF Ops
    <3> QED BY <2>2, <3>1, ConcatProperties, LenProperties
  <2> QED BY <1>3, <2>3, <2>4 DEF Ahead, Looked
<1>4. ASSUME UNCHANGED todo PROVE Looked(t)
  BY <1>4 DEF Looked, AllGuarded
<1>5. ASSUME Continue(t, <<>>) PROVE Looked(t)
  <2>1. todo'[t] = <<>>
    BY <1>5, Continued
  <2> QED BY <2>1 DEF Looked, Guarded, Ahead
<1>6. CASE Gate(t)
  <2>1. CASE Suppressed
    BY <1>6, <2>1, <1>2 DEF Gate, Passes
  <2>2. CASE ~Suppressed
    BY <1>6, <2>2, <1>3 DEF Gate, Passes
  <2> QED BY <2>1, <2>2
<1>7. CASE Recheck(t)
  <2>1. CASE AlreadyUp
    BY <1>7, <2>1, <1>2 DEF Recheck, Passes
  <2>2. CASE ~AlreadyUp
    BY <1>7, <2>2, <1>3 DEF Recheck, Passes
  <2> QED BY <2>1, <2>2
<1>8. CASE DrainIfRaised(t)
  <2>1. CASE abortflag = 1
    BY <1>8, <2>1, <1>3 DEF DrainIfRaised, Passes
  <2>2. CASE abortflag # 1
    BY <1>8, <2>2, <1>2 DEF DrainIfRaised, TypeOK, FlagType
  <2> QED BY <2>1, <2>2
<1>9. CASE DrainStarts(t)
  BY <1>9, <1>3 DEF DrainStarts, Passes
<1>10. CASE DrainEnds(t)
  BY <1>10, <1>2 DEF DrainEnds
<1>11. CASE \/ plus_persistcount(t) \/ Raise(t) \/ Spare(t)
            \/ WriteBacktrace(t) \/ SetAbortflag(t) \/ SetThrough(t)
            \/ add_PMEMaddrset(t) \/ delete_PMEMaddrset(t) \/ Unmap(t)
            \/ FlushIgnored(t) \/ FlushPassesThrough(t) \/ FlushQueued(t)
            \/ LibpmemMemcpy(t) \/ LibpmemMemcpyPersist(t)
  <2>1. \E op \in Ops \ Passes : At(t, op) /\ Continue(t, Rest(t))
    BY <1>11
       DEF plus_persistcount, Raise, Spare, WriteBacktrace, SetAbortflag,
           SetThrough, add_PMEMaddrset, delete_PMEMaddrset, Unmap,
           FlushIgnored, FlushPassesThrough, FlushQueued, LibpmemMemcpy,
           LibpmemMemcpyPersist, Ops, Passes
  <2> QED BY <2>1, <1>2
<1>12. CASE MapFile(t) \/ MapPool(t)
  <2>1. /\ todo' = [todo EXCEPT ![t] = Rest(t)]
        /\ \E op \in Maps : At(t, op)
    BY <1>12 DEF MapFile, MapPool, Maps
  <2>2. todo'[t] = Tail(todo[t])
    BY <2>1 DEF Rest, TypeOK, ThreadType
  <2> QED BY <2>1, <2>2, <1>1 DEF Maps, Passes
<1>13. CASE \/ AddFails(t) \/ BacktraceFails(t) \/ FlushOverruns(t)
            \/ CopyEntry(t) \/ StaleEntry(t) \/ DrainAborts(t)
            \/ DrainFails(t)
  BY <1>4, <1>13
     DEF AddFails, BacktraceFails, FlushOverruns, DrainFails, CopyEntry,
         StaleEntry, DrainAborts, Terminate, threads
<1>14. CASE MapFileFails(t) \/ MapPoolFails(t)
  BY <1>4, <1>5, <1>14 DEF MapFileFails, MapPoolFails
<1> QED BY <1>6, <1>7, <1>8, <1>9, <1>10, <1>11, <1>12, <1>13, <1>14
        DEF Thread

(* What a step of the program does to the step each thread takes next.     *)
LEMMA LookSteps ==
    ASSUME TypeOK, CallsOrdered, OnlyWrappers, AllGuarded, [Next]_vars
    PROVE  \A u \in Threads : Looked(u)
<1>1. ASSUME UNCHANGED todo PROVE \A u \in Threads : Looked(u)
  BY <1>1 DEF Looked, AllGuarded
<1>2. CASE UNCHANGED vars \/ Return \/ Ended
  BY <1>1, <1>2 DEF vars, threads, Return, Ended, Terminate
<1>3. ASSUME NEW t \in Threads, OthersWait(t), Looked(t)
      PROVE  \A u \in Threads : Looked(u)
  BY <1>3 DEF OthersWait, Looked, AllGuarded
<1>4. ASSUME NEW t \in Threads, Call(t) PROVE \A u \in Threads : Looked(u)
  <2>1. \E api \in Api : todo' = [todo EXCEPT ![t] = Steps[api]]
    BY <1>4 DEF Call
  <2>2. \E api \in DOMAIN Steps \ {"pmem_unmap"} : todo'[t] = Steps[api]
    BY <2>1, ApiAssumption DEF OnlyWrappers, TypeOK, ThreadType
  <2>3. Looked(t)
    BY <2>2, StepsGuarded DEF Looked, LastSteps
  <2>4. \A u \in Threads \ {t} : todo'[u] = todo[u]
    BY <2>1 DEF TypeOK, ThreadType
  <2> QED BY <2>3, <2>4 DEF Looked, AllGuarded
<1>5. ASSUME NEW t \in Threads, Store(t) PROVE \A u \in Threads : Looked(u)
  BY <1>1, <1>5 DEF Store, threads
<1>6. ASSUME NEW t \in Threads, Thread(t) PROVE \A u \in Threads : Looked(u)
  BY <1>3, <1>6, LookStep, ThreadSteps
<1> QED BY <1>2, <1>4, <1>5, <1>6 DEF Next

(* In a program that unmaps through the wrappers, in any number of threads,*)
(* the copy files of a run that raised its flag stay for PmemWrap_memcpy,  *)
(* except those that a thread which had looked before the raise is about   *)
(* to delete: every later unmap drains, and so aborts, before it deletes   *)
(* its set (wraplibpmem.c:628-674, 862-882).                               *)
THEOREM RaisedCopiesStay ==
    ASSUME OnlyWrappers PROVE Spec => RaiseKeepsCopies
<1>1. Init => AllGuarded
  BY DEF Init, AllGuarded, Guarded
<1>2. TypeOK /\ CallsOrdered /\ AllGuarded /\ [Next]_vars => AllGuarded'
  BY LookSteps DEF Looked, AllGuarded
<1>3. ASSUME TypeOK, TypeOK', CallsOrdered, AllGuarded, [Next]_vars,
             abortflag = 1, status' = "running", \A t \in Threads : ~Leaving(t)
      PROVE  copyfile \subseteq copyfile' /\ \A t \in Threads : ~Leaving(t)'
  <2>1. \A t \in Threads : ~Ahead(todo[t], LastSteps)
    BY <1>3 DEF Leaving, Ahead, LastSteps, TypeOK, ThreadType
  <2>2. \A t \in Threads : ~Ahead(todo'[t], LastSteps)
    BY <1>3, <2>1, LookSteps DEF Looked
  <2>4. \A t \in Threads : ~Leaving(t)'
    BY <1>3, <2>2 DEF Leaving, Ahead, LastSteps, TypeOK, ThreadType
  <2>5. ASSUME NEW t \in Threads, delete_PMEMaddrset(t) PROVE FALSE
    BY <1>3, <2>1, <2>5, AtFirst DEF delete_PMEMaddrset, Ahead, LastSteps
  <2>6. \/ copyfile \subseteq copyfile'
        \/ \E t \in Threads : delete_PMEMaddrset(t)
    BY <1>3
       DEF Next, vars, Return, Ended, Call, Store, Thread, plus_persistcount,
           Gate, Recheck, Raise, Spare, WriteBacktrace, BacktraceFails,
           SetAbortflag, SetThrough, MapFile, MapFileFails, MapPool,
           MapPoolFails, add_PMEMaddrset, AddFails, DrainIfRaised, Unmap,
           FlushIgnored, FlushPassesThrough, FlushQueued, FlushOverruns,
           DrainFails, DrainStarts, CopyEntry, StaleEntry, DrainEnds,
           DrainAborts, LibpmemMemcpy, LibpmemMemcpyPersist, Terminate, memory
  <2> QED BY <2>4, <2>5, <2>6
<1>4. TypeOK /\ TypeOK' /\ CallsOrdered /\ AllGuarded /\ [Next]_vars =>
         [abortflag = 1 /\ status' = "running"
            /\ (\A t \in Threads : ~Leaving(t))
          => copyfile \subseteq copyfile' /\ \A t \in Threads : ~Leaving(t)']_vars
  BY <1>3
<1> QED BY <1>1, <1>2, <1>4, TypeCorrect, RegistryIsSound, PTL
        DEF Spec, RaiseKeepsCopies

-----------------------------------------------------------------------------
(* From the throw of the coin to the line in backtrace.txt.                *)
Throws == {"gate", "recheck", "coin"}
Drains == {"drain", "drain_if_raised"}
Marks  == {"record", "force"}

(* A call that throws a coin writes afterwards, and drains last.           *)
HasAny(s, ops) == \E i \in 1..Len(s) : s[i] \in ops

Noted(s) ==
    /\ \A i \in 1..Len(s) :
          s[i] \in Throws => i + 1 \in 1..Len(s) /\ s[i + 1] = "record"
    /\ \A i, j \in 1..Len(s) : s[i] \in Drains /\ s[j] \in Marks => j < i

LEMMA StepsNoted ==
    \A api \in DOMAIN Steps :
        /\ Noted(Steps[api])
        /\ api \notin {"pmem_drain", "pmem_persist"} /\ HasAny(Steps[api], Drains)
           => HasAny(Steps[api], Marks)
<1> DEFINE P(s) == Noted(s) /\ (HasAny(s, Drains) => HasAny(s, Marks))
<1> USE DEF Noted, HasAny, Throws, Drains, Marks,
            rand_set_abortflag_plus_persistcount, pmem_drain, pmem_flush, pmem_unmap,
            force_set_abortflag
<1>1. P(pmem_map_file) BY DEF pmem_map_file
<1>2. P(pmemobj_open) BY DEF pmemobj_open
<1>3. P(pmem_flush) OBVIOUS
<1>4. Noted(pmem_drain) OBVIOUS
<1>5. Noted(pmem_persist) BY DEF pmem_persist
<1>6. P(pmem_wrap_drain) BY DEF pmem_wrap_drain
<1>7. P(pmem_wrap_persist) BY DEF pmem_wrap_persist, pmem_wrap_drain
<1>8. P(pmem_wrap_msync) BY DEF pmem_wrap_msync
<1>9. P(pmem_wrap_memcpy) BY DEF pmem_wrap_memcpy, pmem_wrap_memcpy_persist
<1>10. P(pmem_wrap_memcpy_persist) BY DEF pmem_wrap_memcpy_persist
<1>19. P(pmem_wrap_memcpy_nodrain) BY DEF pmem_wrap_memcpy_nodrain
<1>11. P(pmem_unmap) OBVIOUS
<1>12. P(pmem_wrap_unmap) BY DEF pmem_wrap_unmap
<1>13. P(pmemobj_wrap_direct) BY DEF pmemobj_wrap_direct
<1>14. P(force_abort_drain) BY DEF force_abort_drain
<1>15. P(force_set_abortflag) OBVIOUS
<1>16. P(set_abort_through) BY DEF set_abort_through
<1>17. \A api \in DOMAIN Steps \ {"pmem_drain", "pmem_persist"} : P(Steps[api])
  <2> HIDE DEF P, Noted, HasAny
  <2> QED
    BY <1>1, <1>2, <1>3, <1>6, <1>7, <1>8, <1>9, <1>10, <1>11, <1>12, <1>13,
       <1>14, <1>15, <1>16, <1>19 DEF Steps
<1>18. Steps["pmem_drain"] = pmem_drain /\ Steps["pmem_persist"] = pmem_persist
  BY DEF Steps
<1> QED BY <1>4, <1>5, <1>17, <1>18

LEMMA TailNoted ==
    ASSUME NEW s \in Seq(Ops), s # <<>>, Noted(s)
    PROVE  /\ Noted(Tail(s))
           /\ s[1] \in Throws => HasAny(Tail(s), {"record"})
           /\ s[1] \in Drains => ~HasAny(Tail(s), Marks)
           /\ \A ops : HasAny(Tail(s), ops) => HasAny(s, ops)
           /\ \A ops : HasAny(s, ops) => s[1] \in ops \/ HasAny(Tail(s), ops)
<1>1. /\ Len(Tail(s)) = Len(s) - 1 /\ Len(s) \in Nat \ {0}
      /\ \A i \in 1..Len(Tail(s)) : Tail(s)[i] = s[i + 1]
  BY HeadTailProperties, LenProperties, EmptySeq
<1> DEFINE u == Tail(s)
<1>2. \A i \in 1..Len(u) : i + 1 \in 1..Len(s) /\ u[i] = s[i + 1]
  BY <1>1
<1>3. \A i \in 1..Len(s) : i # 1 => i - 1 \in 1..Len(u) /\ u[i - 1] = s[i]
  BY <1>1
<1>4. 1 \in 1..Len(s)
  BY <1>1
<1> HIDE DEF u
<1>5. ASSUME NEW i \in 1..Len(u), u[i] \in Throws
      PROVE  i + 1 \in 1..Len(u) /\ u[i + 1] = "record"
  <2>1. (i + 1) + 1 \in 1..Len(s) /\ s[(i + 1) + 1] = "record"
    BY <1>2, <1>5 DEF Noted
  <2>2. (i + 1) + 1 # 1 /\ ((i + 1) + 1) - 1 = i + 1
    OBVIOUS
  <2> QED BY <1>3, <2>1, <2>2
<1>6. ASSUME NEW i \in 1..Len(u), NEW j \in 1..Len(u), u[i] \in Drains, u[j] \in Marks
      PROVE  j < i
  <2>1. j + 1 < i + 1
    BY <1>2, <1>6 DEF Noted
  <2> QED BY <2>1
<1>7. Noted(u)
  BY <1>5, <1>6 DEF Noted
<1>8. ASSUME s[1] \in Throws PROVE HasAny(u, {"record"})
  <2>1. 2 \in 1..Len(s) /\ s[2] = "record"
    BY <1>4, <1>8 DEF Noted
  <2>2. 1 \in 1..Len(u) /\ u[1] = "record"
    BY <1>3, <2>1
  <2> QED BY <2>2 DEF HasAny
<1>9. ASSUME s[1] \in Drains PROVE ~HasAny(u, Marks)
  <2>1. ASSUME NEW j \in 1..Len(u), u[j] \in Marks PROVE FALSE
    <3>1. j + 1 < 1
      BY <1>2, <1>4, <1>9, <2>1 DEF Noted
    <3> QED BY <3>1
  <2> QED BY <2>1 DEF HasAny
<1>10. \A ops : HasAny(u, ops) => HasAny(s, ops)
  BY <1>2 DEF HasAny
<1>11. \A ops : HasAny(s, ops) => s[1] \in ops \/ HasAny(u, ops)
  BY <1>3 DEF HasAny
<1> QED BY <1>7, <1>8, <1>9, <1>10, <1>11 DEF u

LEMMA PushNoted ==
    ASSUME NEW s \in Seq(Ops), s # <<>>, Noted(s),
           NEW op \in {"recheck", "coin", "copy", "drain"},
           op \in Throws => s[1] \in Throws,
           op \in Drains => s[1] \in Drains
    PROVE  /\ Noted(<<op>> \o Tail(s))
           /\ \A ops : HasAny(<<op>> \o Tail(s), ops) <=>
                         op \in ops \/ HasAny(Tail(s), ops)
<1> DEFINE u == Tail(s)
<1> DEFINE v == <<op>> \o u
<1>1. /\ Len(u) = Len(s) - 1 /\ Len(s) \in Nat \ {0}
      /\ u \in Seq(Ops)
      /\ \A i \in 1..Len(u) : u[i] = s[i + 1]
  BY HeadTailProperties, LenProperties, EmptySeq
<1>2. <<op>> \in Seq(Ops) /\ Len(<<op>>) = 1 /\ <<op>>[1] = op
  BY DEF Ops
<1>3. /\ Len(v) = 1 + Len(u)
      /\ \A i \in 1..(1 + Len(u)) :
            v[i] = IF i <= 1 THEN <<op>>[i] ELSE u[i - 1]
  BY <1>1, <1>2, ConcatProperties
<1> HIDE DEF u, v
<1>4. Len(v) = Len(s) /\ v[1] = op /\ 1 \in 1..Len(v)
  BY <1>1, <1>2, <1>3
<1>5. \A i \in 1..Len(s) : i # 1 => v[i] = s[i] /\ i - 1 \in 1..Len(u) /\ u[i - 1] = s[i]
  BY <1>1, <1>2, <1>3
<1>6. ASSUME NEW i \in 1..Len(v), v[i] \in Throws
      PROVE  i + 1 \in 1..Len(v) /\ v[i + 1] = "record"
  <2>1. s[i] \in Throws
    BY <1>4, <1>5, <1>6
  <2>2. i + 1 \in 1..Len(s) /\ s[i + 1] = "record"
    BY <1>4, <2>1 DEF Noted
  <2> QED BY <1>4, <1>5, <2>2
<1>7. ASSUME NEW i \in 1..Len(v), NEW j \in 1..Len(v), v[i] \in Drains, v[j] \in Marks
      PROVE  j < i
  <2>1. s[i] \in Drains
    BY <1>4, <1>5, <1>7
  <2>2. j # 1
    BY <1>4, <1>7 DEF Marks
  <2>3. s[j] \in Marks
    BY <1>4, <1>5, <1>7, <2>2
  <2> QED BY <1>4, <2>1, <2>3 DEF Noted
<1>8. Noted(v)
  BY <1>6, <1>7 DEF Noted
<1>9. \A ops : HasAny(v, ops) => op \in ops \/ HasAny(u, ops)
  BY <1>4, <1>5 DEF HasAny
<1>10. \A ops : op \in ops => HasAny(v, ops)
  BY <1>4 DEF HasAny
<1>11. ASSUME NEW ops, HasAny(u, ops) PROVE HasAny(v, ops)
  <2>1. PICK i \in 1..Len(u) : u[i] \in ops
    BY <1>11 DEF HasAny
  <2>2. i + 1 \in 1..Len(v) /\ v[i + 1] = u[i]
    BY <1>1, <1>3
  <2> QED BY <2>1, <2>2 DEF HasAny
<1> QED BY <1>8, <1>9, <1>10, <1>11 DEF u, v

(* Programs of one thread: no other writes backtrace.txt in between.       *)
OneThreaded == \A t, u \in Threads : t = u

(* Who is about to drain and knows the flag up has written its site down.  *)
WrittenDown(t) ==
    abortflag = 1 /\ ~forced /\ HasAny(todo[t], Drains) /\ ~HasAny(todo[t], Marks)
        => backtrace = <<call[t].site>>

BacktraceInv ==
    /\ \A t \in Threads : Noted(todo[t]) /\ (status = "running" => WrittenDown(t))
    /\ BacktraceNamesAbort

(* Every drain of the program is one of the calls that throw a coin first. *)
WrappedDrains == Api \cap {"pmem_drain", "pmem_persist"} = {}

LEMMA BacktraceStep ==
    ASSUME TypeOK, OneThreaded, WrappedDrains, BacktraceInv, [Next]_vars
    PROVE  BacktraceInv'
<1>1. CASE UNCHANGED vars \/ Ended
  BY <1>1 DEF vars, threads, flags, counts, history, Ended, BacktraceInv,
              WrittenDown, BacktraceNamesAbort
<1>2. ASSUME UNCHANGED todo, status' \notin {"running", "aborted"}
      PROVE  BacktraceInv'
  BY <1>2 DEF BacktraceInv, BacktraceNamesAbort
<1>3. ASSUME NEW t \in Threads, status' # "aborted", Noted(todo'[t]),
             WrittenDown(t)'
      PROVE  BacktraceInv'
  BY <1>3 DEF OneThreaded, BacktraceInv, BacktraceNamesAbort
<1>4. CASE Return
  BY <1>2, <1>4 DEF Return, Terminate
<1>5. ASSUME NEW t \in Threads, Call(t) PROVE BacktraceInv'
  <2>1. \E api \in Api : todo' = [todo EXCEPT ![t] = Steps[api]]
    BY <1>5 DEF Call
  <2>2. PICK api \in DOMAIN Steps \ {"pmem_drain", "pmem_persist"} :
           todo'[t] = Steps[api]
    BY <2>1, ApiAssumption DEF WrappedDrains, TypeOK, ThreadType
  <2>3. Noted(todo'[t]) /\ (HasAny(todo'[t], Drains) => HasAny(todo'[t], Marks))
    BY <2>2, StepsNoted
  <2>4. status' # "aborted"
    BY <1>5 DEF Call
  <2> QED BY <1>3, <2>3, <2>4 DEF WrittenDown
<1>6. ASSUME NEW t \in Threads, Store(t) PROVE BacktraceInv'
  BY <1>6 DEF Store, threads, flags, counts, history, BacktraceInv,
              WrittenDown, BacktraceNamesAbort
<1>7. ASSUME NEW t \in Threads, Thread(t) PROVE BacktraceInv'
  <2>1. /\ todo[t] \in Seq(Ops) /\ todo[t] # <<>> /\ status = "running"
        /\ Noted(todo[t]) /\ WrittenDown(t) /\ call \in [Threads -> Calls]
        /\ \A op : At(t, op) => todo[t][1] = op
    <3>1. \E op : At(t, op)
      BY <1>7
         DEF Thread, plus_persistcount, Gate, Recheck, Raise, Spare,
             WriteBacktrace, SetAbortflag, SetThrough, MapFile, MapFileFails,
             MapPool, MapPoolFails, add_PMEMaddrset, AddFails, BacktraceFails, DrainIfRaised,
             delete_PMEMaddrset, Unmap, FlushIgnored, FlushPassesThrough,
             FlushQueued, FlushOverruns, DrainStarts, CopyEntry, StaleEntry,
             DrainEnds, DrainAborts, DrainFails, LibpmemMemcpy,
             LibpmemMemcpyPersist
    <3> QED BY <3>1, AtFirst DEF At, BacktraceInv, TypeOK, ThreadType
  <2> DEFINE u == Tail(todo[t])
  <2>2. \A ops : HasAny(u, ops) => u # <<>>
    BY DEF HasAny
  <2>3. ASSUME NEW op, At(t, op), todo'[t] = u, status' # "aborted",
               \/ op \in Throws
               \/ op \notin Marks /\ abortflag' = abortflag
                    /\ forced' = forced /\ backtrace' = backtrace
                    /\ (u # <<>> => call'[t].site = call[t].site)
               \/ forced'
               \/ abortflag' = 1 => backtrace' = <<call[t].site>>
                    /\ (u # <<>> => call'[t].site = call[t].site)
        PROVE  BacktraceInv'
    <3>1. /\ Noted(u)
          /\ op \in Throws => HasAny(u, {"record"})
          /\ HasAny(u, Drains) => HasAny(todo[t], Drains)
          /\ HasAny(todo[t], Marks) => op \in Marks \/ HasAny(u, Marks)
      BY <2>1, <2>3, TailNoted
    <3>2. HasAny(u, {"record"}) => HasAny(u, Marks)
      BY DEF HasAny, Marks
    <3> HIDE DEF u
    <3>3. WrittenDown(t)'
      BY <2>1, <2>2, <2>3, <3>1, <3>2 DEF WrittenDown
    <3> QED BY <1>3, <2>3, <3>1, <3>3
  <2>4. ASSUME NEW op, At(t, op), Continue(t, Rest(t)), status' # "aborted",
               \/ op \in Throws
               \/ op \notin Marks /\ abortflag' = abortflag
                    /\ forced' = forced /\ backtrace' = backtrace
               \/ forced'
               \/ abortflag' = 1 => backtrace' = <<call[t].site>>
        PROVE  BacktraceInv'
    <3>1. todo'[t] = u /\ (u # <<>> => call' = call)
      BY <2>4, Continued DEF Rest, Continue
    <3> HIDE DEF u
    <3> QED BY <2>3, <2>4, <3>1
  <2>5. ASSUME NEW op, At(t, op),
               NEW new \in {"recheck", "coin", "copy", "drain"},
               Continue(t, <<new>> \o Rest(t)), status' # "aborted",
               new \in Throws => op \in Throws,
               new \in Drains => op \in Drains,
               \/ new \in Throws
               \/ abortflag' = 0
               \/ new \in Drains /\ UNCHANGED <<abortflag, forced, backtrace>>
        PROVE  BacktraceInv'
    <3> DEFINE v == <<new>> \o u
    <3>1. todo'[t] = v
      BY <2>5, Continued DEF Rest
    <3>2. /\ Noted(v)
          /\ \A ops : HasAny(v, ops) <=> new \in ops \/ HasAny(u, ops)
      BY <2>1, <2>5, PushNoted
    <3>3. v # <<>> => call' = call
      BY <2>5 DEF Continue, Rest
    <3>4. \A ops : HasAny(v, ops) => v # <<>>
      BY DEF HasAny
    <3>5. /\ op \in Throws => HasAny(u, {"record"})
          /\ HasAny(todo[t], Marks) => op \in Marks \/ HasAny(u, Marks)
          /\ op \in Drains => HasAny(todo[t], Drains)
      <4>1. 1 \in 1..Len(todo[t])
        BY <2>1, EmptySeq, LenProperties
      <4> QED BY <2>1, <2>5, <4>1, TailNoted DEF HasAny
    <3>6. HasAny(u, {"record"}) => HasAny(u, Marks)
      BY DEF HasAny, Marks
    <3> HIDE DEF u, v
    <3>7. op \in Drains => op \notin Marks
      BY DEF Drains, Marks
    <3>8. WrittenDown(t)'
      BY <2>1, <2>5, <3>1, <3>2, <3>3, <3>4, <3>5, <3>6, <3>7 DEF WrittenDown
    <3> QED BY <1>3, <2>5, <3>1, <3>2, <3>8
  <2>6. CASE Gate(t)
    <3>1. CASE Suppressed
      BY <2>1, <2>6, <3>1, <2>4 DEF Gate, Throws
    <3>2. CASE ~Suppressed
      BY <2>1, <2>6, <3>2, <2>5 DEF Gate, Throws, Drains
    <3> QED BY <3>1, <3>2
  <2>7. CASE Recheck(t)
    <3>1. CASE AlreadyUp
      BY <2>1, <2>7, <3>1, <2>4 DEF Recheck, Throws
    <3>2. CASE ~AlreadyUp
      BY <2>1, <2>7, <3>2, <2>5 DEF Recheck, Throws, Drains
    <3> QED BY <3>1, <3>2
  <2>8. CASE Raise(t) \/ Spare(t)
    BY <2>1, <2>8, <2>4 DEF Raise, Spare, Throws
  <2>9. CASE WriteBacktrace(t)
    BY <2>1, <2>9, <2>4 DEF WriteBacktrace, flags
  <2>10. CASE SetAbortflag(t)
    BY <2>1, <2>10, <2>4 DEF SetAbortflag
  <2>11. CASE DrainIfRaised(t)
    <3>1. CASE abortflag = 1
      BY <2>1, <2>11, <3>1, <2>5
         DEF DrainIfRaised, Throws, Drains, flags, counts, history
    <3>2. CASE abortflag # 1
      BY <2>1, <2>11, <3>2, <2>4
         DEF DrainIfRaised, Marks, flags, counts, history
    <3> QED BY <3>1, <3>2
  <2>12. CASE DrainStarts(t)
    BY <2>1, <2>12, <2>5 DEF DrainStarts, Throws, Drains, flags
  <2>13. CASE MapFile(t) \/ MapPool(t)
    <3>1. \E op \in Maps : At(t, op)
      BY <2>13 DEF MapFile, MapPool, Maps
    <3>2. /\ todo'[t] = u /\ call'[t].site = call[t].site /\ status' # "aborted"
          /\ UNCHANGED <<abortflag, forced, backtrace>>
      BY <2>1, <2>13
         DEF MapFile, MapPool, Rest, TypeOK, ThreadType, Calls, flags, counts,
             history
    <3> HIDE DEF u
    <3> QED BY <2>3, <3>1, <3>2 DEF Maps, Marks
  <2>14. CASE MapFileFails(t) \/ MapPoolFails(t)
    <3>1. CASE Continue(t, <<>>)
      <4>1. todo'[t] = <<>>
        BY <3>1, Continued
      <4>2. Noted(todo'[t]) /\ WrittenDown(t)'
        BY <4>1 DEF Noted, WrittenDown, HasAny
      <4>3. status' # "aborted"
        BY <2>1, <2>14 DEF MapFileFails, MapPoolFails
      <4> QED BY <1>3, <4>2, <4>3
    <3>2. CASE ~Continue(t, <<>>)
      BY <1>2, <2>14, <3>2 DEF MapFileFails, MapPoolFails
    <3> QED BY <3>1, <3>2
  <2>15. CASE \/ AddFails(t) \/ BacktraceFails(t) \/ FlushOverruns(t) \/ StaleEntry(t) \/ DrainFails(t)
    BY <1>2, <2>15 DEF AddFails, BacktraceFails, FlushOverruns, StaleEntry, DrainFails, Terminate
  <2>16. CASE CopyEntry(t)
    BY <2>1, <2>16
       DEF CopyEntry, threads, flags, counts, history, BacktraceInv,
           WrittenDown, BacktraceNamesAbort
  <2>17. CASE DrainAborts(t)
    <3>1. ~HasAny(u, Marks) /\ HasAny(todo[t], Drains)
      <4>1. 1 \in 1..Len(todo[t])
        BY <2>1, EmptySeq, LenProperties
      <4>2. todo[t][1] = "drain"
        BY <2>1, <2>17 DEF DrainAborts
      <4> QED BY <2>1, <4>1, <4>2, TailNoted DEF HasAny, Drains
    <3>2. ~HasAny(todo[t], Marks)
      <4>1. todo[t][1] \notin Marks
        BY <2>1, <2>17 DEF DrainAborts, Marks
      <4> QED BY <2>1, <3>1, <4>1, TailNoted
    <3>3. ~forced => backtrace = <<call[t].site>>
      BY <2>1, <2>17, <3>1, <3>2 DEF WrittenDown, DrainAborts
    <3> QED BY <2>17, <3>3
            DEF DrainAborts, flags, history, BacktraceInv, BacktraceNamesAbort
  <2>18. CASE \/ plus_persistcount(t) \/ SetThrough(t) \/ add_PMEMaddrset(t)
              \/ delete_PMEMaddrset(t) \/ Unmap(t) \/ FlushIgnored(t)
              \/ FlushPassesThrough(t) \/ FlushQueued(t) \/ DrainEnds(t)
              \/ LibpmemMemcpy(t) \/ LibpmemMemcpyPersist(t)
    <3>1. /\ \E op \in Ops \ Marks : At(t, op) /\ Continue(t, Rest(t))
          /\ UNCHANGED <<abortflag, forced, backtrace, status>>
      BY <2>18
         DEF plus_persistcount, SetThrough, add_PMEMaddrset,
             delete_PMEMaddrset, Unmap, FlushIgnored, FlushPassesThrough,
             FlushQueued, DrainEnds, LibpmemMemcpy, LibpmemMemcpyPersist, Ops,
             Marks, flags, counts, history
    <3> QED BY <2>1, <3>1, <2>4
  <2> QED BY <1>7, <2>6, <2>7, <2>8, <2>9, <2>10, <2>11, <2>12, <2>13, <2>14,
             <2>15, <2>16, <2>17, <2>18 DEF Thread
<1> QED BY <1>1, <1>4, <1>5, <1>6, <1>7 DEF Next

(* In a program of one thread that drains through the wrappers the site in *)
(* backtrace.txt of a run that aborts by the coin is the call that         *)
(* aborted: each wrapper writes its own site, or sees the flag down,       *)
(* between the coin and its drain (wraplibpmem.c:245-290, 440-491, 941-965)*)
THEOREM BacktraceIsOfAbort ==
    ASSUME OneThreaded, WrappedDrains PROVE Spec => []BacktraceNamesAbort
<1>1. Init => BacktraceInv
  BY DEF Init, BacktraceInv, Noted, WrittenDown, HasAny, BacktraceNamesAbort
<1>2. TypeOK /\ BacktraceInv /\ [Next]_vars => BacktraceInv'
  BY BacktraceStep
<1>3. BacktraceInv => BacktraceNamesAbort
  BY DEF BacktraceInv
<1> QED BY <1>1, <1>2, <1>3, TypeCorrect, PTL DEF Spec

=============================================================================
