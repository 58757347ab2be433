---------------------------- MODULE PersistCount ----------------------------
(***************************************************************************)
(* The persist counts of the shim, over many runs of a program: every call *)
(* of a wrapped function is counted by file, line and backtrace; a run     *)
(* reads the counts of the runs before it from countfile_plus.txt and      *)
(* writes the file anew when it ends.  A run may be killed at any moment,  *)
(* and its opens and writes may fail.                                      *)
(*                                                                         *)
(* Counting is under the mutex and a run ends once, so the threads of the  *)
(* program are one here; PmemWrap has their interleavings.                 *)
(***************************************************************************)
EXTENDS Integers, FiniteSets, SequencesExt

CONSTANTS
    Places,             \* [file, line, bt]: calls the program makes
    MAX_FILE_LENGTH, MAX_LINE_LENGTH,
    MaxRuns,            \* runs of the program
    MaxCalls,           \* calls in one of them
    MaxFails            \* kills, and opens and writes that fail

ASSUME CountAssumption ==
    /\ Places # {}
    /\ \A p \in Places : p = [file |-> p.file, line |-> p.line, bt |-> p.bt]
    /\ {MAX_FILE_LENGTH, MAX_LINE_LENGTH} \subseteq Nat \ {0}
    /\ {MaxRuns, MaxCalls, MaxFails} \subseteq Nat

VARIABLES
    pc,             \* "off", "on", "ending", "writing", or "undefined"
    again,          \* a failure leads to the destructor, which writes again
    env,            \* PMEMWRAP_WRITECOUNTFILE
    pmemwrap_abort, abortflag,
    tables,         \* file_list with persist_line_list
    file,           \* countfile_plus.txt: what each write() wrote
    out,            \* writes write_persistcountfile has left
    runs, fails,    \* runs started and operations failed, to bound them
    seen, charged,  \* history: calls and charges of this run, by place
    ledger,         \* history: what the file owes to the runs before
    torn,           \* history: what a run wrote is not all in the file,
    suspect,        \* .. or was not when this run read it
    lost            \* history: a write of this run failed unnoticed

process == <<pc, again, env, pmemwrap_abort, abortflag, tables, out>>
history == <<seen, charged, ledger, torn, suspect, lost>>
cvars   == <<process, file, runs, fails, history>>

Zero == [p \in Places |-> 0]

Calls == FoldFunction(+, 0, seen)

-----------------------------------------------------------------------------
(* The tables. *)

FileIndex(t, name)      == SelectInSeq(t, LAMBDA f : f.name = name)
LineIndex(lines, n)     == SelectInSeq(lines, LAMBDA l : l.line = n)
StackIndex(stacks, bt)  == SelectInSeq(stacks, LAMBDA s : s.bt = bt)

(* Mutant: a new backtrace is counted where it is made and once more. *)
NewStackTwice(bt) == [bt |-> bt, count |-> 2, prev |-> 0, abort |-> 0]

NewStack(bt) == [bt |-> bt, count |-> 1, prev |-> 0, abort |-> 0]

(* Mutant: only the first backtrace of a line is compared. *)
CountFirst(stacks, bt) ==
    IF stacks = <<>> \/ Head(stacks).bt # bt THEN Append(stacks, NewStack(bt))
    ELSE [stacks EXCEPT ![1].count = @ + 1]

CountStack(stacks, bt) ==
    LET i == StackIndex(stacks, bt) IN
    IF i = 0 THEN Append(stacks, NewStack(bt))
    ELSE [stacks EXCEPT ![i].count = @ + 1]

CountLine(lines, p) ==
    LET i == LineIndex(lines, p.line) IN
    IF i = 0
    THEN Append(lines, [line |-> p.line, count |-> 1, prev |-> 0, abort |-> 0,
                        stacks |-> CountStack(<<>>, p.bt)])
    ELSE [lines EXCEPT ![i].count = @ + 1, ![i].stacks = CountStack(@, p.bt)]

CountFile(t, p) ==
    LET i == FileIndex(t, p.file) IN
    IF i = 0
    THEN Append(t, [name |-> p.file, lines |-> CountLine(<<>>, p)])
    ELSE [t EXCEPT ![i].lines = CountLine(@, p)]

(* Mutant: the table takes one file too many. *)
FullButForOne(t) == Len(t) > MAX_FILE_LENGTH

FileTableFull(t) == Len(t) = MAX_FILE_LENGTH

Overflows(p) ==
    LET i == FileIndex(tables, p.file) IN
    IF i = 0 THEN FileTableFull(tables)
    ELSE /\ LineIndex(tables[i].lines, p.line) = 0
         /\ Len(tables[i].lines) = MAX_LINE_LENGTH

(* The table entry of a place, in a table that has it. *)
At(t, p) ==
    LET i == FileIndex(t, p.file)
        j == LineIndex(t[i].lines, p.line)
    IN  <<i, j, StackIndex(t[i].lines[j].stacks, p.bt)>>

StackAt(t, p) == LET a == At(t, p) IN t[a[1]].lines[a[2]].stacks[a[3]]

Charge(t, p) == LET a == At(t, p) IN
    [t EXCEPT ![a[1]].lines[a[2]].stacks[a[3]].abort = @ + 1]

-----------------------------------------------------------------------------
(* The file. *)

(* Mutant: the count of this run replaces that of the runs before. *)
LatestCount(entry) == entry.count

larger_count(entry) == IF entry.count > entry.prev THEN entry.count ELSE entry.prev

CountOut(entry) == IF env = "ADD" THEN larger_count(entry) ELSE entry.count
AbortOut(n)     == IF env = "ADD" THEN n ELSE 0

Total(stacks, field) == FoldLeft(LAMBDA n, s : n + s[field], 0, stacks)

AbortsOf(line) == Total(line.stacks, "abort")

(* One write() for a file and for a line, three for a backtrace. *)
StackOut(s) ==
    <<[kind |-> "stack", count |-> CountOut(s), abort |-> AbortOut(s.abort)],
      [kind |-> "trace", bt |-> s.bt],
      [kind |-> "end"]>>

LineOut(l) ==
    <<[kind |-> "line", line |-> l.line, count |-> CountOut(l),
       abort |-> AbortOut(AbortsOf(l))]>>
    \o FlattenSeq([i \in DOMAIN l.stacks |-> StackOut(l.stacks[i])])

FileOut(f) ==
    <<[kind |-> "file", name |-> f.name]>>
    \o FlattenSeq([i \in DOMAIN f.lines |-> LineOut(f.lines[i])])

Output(t) == FlattenSeq([i \in DOMAIN t |-> FileOut(t[i])])

(* read_persistcountfile, one piece of text at a time. *)
Take(t, r) ==
    LET i == Len(t)
        j == Len(t[i].lines)
        k == Len(t[i].lines[j].stacks)
    IN
    CASE r.kind = "file"  -> Append(t, [name |-> r.name, lines |-> <<>>])
      [] r.kind = "line"  ->
            [t EXCEPT ![i].lines = Append(@, [line |-> r.line, count |-> 0,
                prev |-> r.count, abort |-> r.abort, stacks |-> <<>>])]
      [] r.kind = "stack" ->
            [t EXCEPT ![i].lines[j].stacks = Append(@, [bt |-> "", count |-> 0,
                prev |-> r.count, abort |-> r.abort])]
      [] r.kind = "trace" -> [t EXCEPT ![i].lines[j].stacks[k].bt = r.bt]
      [] r.kind = "end"   -> t

Input(f) == FoldLeft(Take, <<>>, f)

(* A backtrace without its ';', a part of one: what atoi, strchr and strcpy *)
(* make of it depends on the text behind it, or behind the buffer.         *)
Readable(f) == \A i \in 1 .. Len(f) + 1 :
    LET before == IF i = 1 THEN "end" ELSE f[i - 1].kind
        kind   == IF i > Len(f) THEN "file" ELSE f[i].kind
    IN  CASE kind = "trace" -> before = "stack"
          [] kind = "end"   -> before = "trace"
          [] OTHER          -> before \notin {"stack", "trace"}

-----------------------------------------------------------------------------
Init ==
    /\ pc = "off" /\ again = FALSE /\ env = "YES"
    /\ pmemwrap_abort = 0 /\ abortflag = 0
    /\ tables = <<>> /\ file = <<>> /\ out = <<>>
    /\ runs = 0 /\ fails = 0
    /\ seen = Zero /\ charged = Zero
    /\ torn = FALSE /\ suspect = FALSE /\ lost = FALSE
    /\ ledger = [p \in Places |-> [count |-> 0, abort |-> 0]]

(* The constructor. *)
Start ==
    /\ pc = "off" /\ runs < MaxRuns /\ runs' = runs + 1
    /\ env' \in {"YES", "ADD", "NO"} /\ pmemwrap_abort' \in {0, 1}
    /\ abortflag' = 0
    /\ IF Readable(file) THEN pc' = "on" /\ tables' = Input(file)
                         ELSE pc' = "undefined" /\ tables' = <<>>
    /\ seen' = Zero /\ charged' = Zero /\ suspect' = torn
    /\ UNCHANGED <<again, out, file, fails, ledger, torn, lost>>

(* A prev_count or a persist_place_sum of 0 makes the quotient infinite.   *)
persist_place_sum == Cardinality(UNION {{<<f, l>> : l \in {l \in ToSet(f.lines) : l.prev # 0}} : f \in ToSet(tables)})

Certain(s) == s.prev * persist_place_sum = 0

(* plus_persistcount and rand_set_abortflag.  The probability only says    *)
(* how often; a coin that is not certain may fall either way.              *)
Call(p) ==
    LET t == CountFile(tables, p) IN
    /\ pc = "on" /\ ~Overflows(p) /\ Calls < MaxCalls
    /\ seen' = [seen EXCEPT ![p] = @ + 1]
    /\ \/ /\ pmemwrap_abort = 1 /\ abortflag = 0
          /\ abortflag' = 1 /\ tables' = Charge(t, p)
          /\ charged' = [charged EXCEPT ![p] = @ + 1]
       \/ /\ pmemwrap_abort = 1 /\ abortflag = 0 => ~Certain(StackAt(t, p))
          /\ tables' = t /\ UNCHANGED <<abortflag, charged>>
    /\ UNCHANGED <<pc, again, env, pmemwrap_abort, file, out, runs, fails, ledger,
                   torn, suspect, lost>>

(* The process is gone, and its memory with it. *)
Gone ==
    /\ pc' = "off" /\ again' = FALSE /\ env' = "YES"
    /\ pmemwrap_abort' = 0 /\ abortflag' = 0
    /\ tables' = <<>> /\ out' = <<>> /\ seen' = Zero /\ charged' = Zero
    /\ suspect' = FALSE /\ lost' = FALSE

(* It gets to write_persistcountfile. *)
Ends(aborting) ==
    /\ pc = "on" /\ pc' = "ending" /\ again' = aborting
    /\ UNCHANGED <<env, pmemwrap_abort, abortflag, tables, out, file, runs, fails,
                   history>>

(* A table is full: exit(1), and the destructor. *)
Overflow(p) == Overflows(p) /\ Ends(FALSE)

(* main returns, or pmem_drain is about to abort. *)
End == \/ Ends(FALSE)
       \/ abortflag = 1 /\ Ends(TRUE)

(* The file is truncated, unless it is not to be written. *)
Truncate ==
    /\ pc = "ending"
    /\ \/ /\ env = "NO" /\ Gone
          /\ UNCHANGED <<file, torn>>
       \/ /\ env # "NO" /\ pc' = "writing"
          /\ out' = Output(tables) /\ file' = <<>>
          /\ torn' = TRUE /\ lost' = FALSE
          /\ UNCHANGED <<again, env, pmemwrap_abort, abortflag, tables,
                         seen, charged, suspect>>
    /\ UNCHANGED <<runs, fails, ledger>>

Write ==
    /\ pc = "writing" /\ out # <<>>
    /\ file' = Append(file, Head(out)) /\ out' = Tail(out)
    /\ UNCHANGED <<pc, again, env, pmemwrap_abort, abortflag, tables, runs, fails,
                   history>>

Fails == fails < MaxFails /\ fails' = fails + 1

(* exit(1); if that was in pmem_drain the destructor tries once more.      *)
ExitOne ==
    IF again
    THEN /\ pc' = "ending" /\ again' = FALSE /\ out' = <<>>
         /\ UNCHANGED <<env, pmemwrap_abort, abortflag, tables, seen, charged,
                        suspect, lost>>
    ELSE Gone

(* One of the two opens fails, before anything is truncated.               *)
OpenFails ==
    /\ pc = "ending" /\ env # "NO"
    /\ Fails /\ ExitOne
    /\ UNCHANGED <<file, runs, ledger, torn>>

Checked(r) == r.kind \in {"file", "line"}

WriteFails ==
    /\ pc = "writing" /\ out # <<>> /\ Checked(Head(out))
    /\ Fails /\ ExitOne
    /\ UNCHANGED <<file, runs, ledger, torn>>

(* The writes of backtraces are not checked. *)
WriteIsLost ==
    /\ pc = "writing" /\ out # <<>> /\ ~Checked(Head(out))
    /\ Fails /\ out' = Tail(out) /\ lost' = TRUE
    /\ UNCHANGED <<pc, again, env, pmemwrap_abort, abortflag, tables, file, runs,
                   seen, charged, ledger, torn, suspect>>

WriteEnds ==
    /\ pc = "writing" /\ out = <<>>
    /\ torn' = (lost \/ (suspect /\ env = "ADD"))
    /\ ledger' = [p \in Places |->
            IF env = "ADD"
            THEN [count |-> IF seen[p] > ledger[p].count THEN seen[p]
                            ELSE ledger[p].count,
                  abort |-> ledger[p].abort + charged[p]]
            ELSE [count |-> seen[p], abort |-> 0]]
    /\ Gone
    /\ UNCHANGED <<file, runs, fails>>

(* A signal, a timeout or a crash of the program: no destructor runs. *)
Kill ==
    /\ pc \in {"on", "ending", "writing"} /\ ~(pc = "writing" /\ out = <<>>)
    /\ Fails /\ Gone
    /\ UNCHANGED <<file, runs, ledger, torn>>

Finished ==
    /\ \/ pc = "undefined"
       \/ pc = "off" /\ runs = MaxRuns
    /\ UNCHANGED cvars

Next ==
    \/ Start \/ End \/ Truncate \/ Write \/ WriteEnds
    \/ OpenFails \/ WriteFails \/ WriteIsLost \/ Kill \/ Finished
    \/ \E p \in Places : Call(p) \/ Overflow(p)

Spec == Init /\ [][Next]_cvars

-----------------------------------------------------------------------------
(* Properties. *)

Entry == [count : Nat, prev : Nat, abort : Nat]

CountsOf(e) == [count |-> e.count, prev |-> e.prev, abort |-> e.abort]

(* The tables fit the arrays of the code and hold counts.                  *)
CountTypeOK ==
    /\ pc \in {"off", "on", "ending", "writing", "undefined"}
    /\ {again, torn, suspect, lost} \subseteq BOOLEAN
    /\ env \in {"YES", "ADD", "NO"} /\ {pmemwrap_abort, abortflag} \subseteq {0, 1}
    /\ Len(tables) <= MAX_FILE_LENGTH
    /\ \A i \in DOMAIN tables :
        /\ Len(tables[i].lines) <= MAX_LINE_LENGTH
        /\ \A j \in DOMAIN tables[i].lines :
            LET l == tables[i].lines[j] IN
            CountsOf(l) \in Entry /\ \A k \in DOMAIN l.stacks : CountsOf(l.stacks[k]) \in Entry

Distinct(s, Key(_)) == \A i, j \in DOMAIN s : Key(s[i]) = Key(s[j]) => i = j

(* However runs begin, end and are killed, no file, line or backtrace has  *)
(* two entries: a second one would split its counts between them.          *)
NoPlaceTwice ==
    /\ Distinct(tables, LAMBDA f : f.name)
    /\ \A i \in DOMAIN tables :
        /\ Distinct(tables[i].lines, LAMBDA l : l.line)
        /\ \A j \in DOMAIN tables[i].lines :
            Distinct(tables[i].lines[j].stacks, LAMBDA s : s.bt)

Settled == pc = "off" /\ ~torn

Recorded(p) ==
    LET files  == {f \in ToSet(Input(file)) : f.name = p.file}
        lines  == {l \in UNION {ToSet(f.lines) : f \in files} : l.line = p.line}
        stacks == {s \in UNION {ToSet(l.stacks) : l \in lines} : s.bt = p.bt}
    IN  {[count |-> s.prev, abort |-> s.abort] : s \in stacks}

(* The file holds, of every place, the most calls any completed run since  *)
(* the last profile made, and every crash charged to it, whichever runs    *)
(* were killed, ran into a full table, could not open the file or wrote    *)
(* nothing in between; unless one was stopped while it wrote, or a write   *)
(* failed that the code does not check.  A crash run whose first writing   *)
(* fails has its counts written by the destructor, all of them, once.      *)
FileIsLedger ==
    Settled => \A p \in Places :
        \/ Recorded(p) = {ledger[p]}
        \/ Recorded(p) = {} /\ ledger[p] = [count |-> 0, abort |-> 0]

(* A line of the file accounts for its backtraces: it was called at least  *)
(* as often as each of them and at most as often as all, and was charged   *)
(* with all their crashes.  (It is no sum: the most calls of a line may    *)
(* come from another run than the most of a backtrace.)                    *)
LineCountsItsStacks ==
    Settled => LET t == Input(file) IN
        \A i \in DOMAIN t : \A j \in DOMAIN t[i].lines :
            LET l == t[i].lines[j] IN
            /\ \A k \in DOMAIN l.stacks : l.stacks[k].prev <= l.prev
            /\ l.prev <= Total(l.stacks, "prev")
            /\ l.abort = AbortsOf(l)

=============================================================================
