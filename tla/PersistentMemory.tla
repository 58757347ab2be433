-------------------------- MODULE PersistentMemory --------------------------
(***************************************************************************)
(* What a persistent memory promises a program, and so what the image the  *)
(* shim leaves behind must look like.  Stores change the current contents; *)
(* a line may be written back to the medium at any time, as it then is; a  *)
(* fence of a thread ends only when everything that thread flushed has     *)
(* been written back.  A crash stops everything and keeps the medium.      *)
(***************************************************************************)
EXTENDS Integers

CONSTANTS Threads, Lines

VARIABLES
    current,    \* line -> contents the program sees
    medium,     \* line -> contents that survive a crash
    attached,   \* the lines of mapped files
    flushed,    \* thread -> line -> contents it flushed and did not fence
    fenced,     \* line -> newest contents some thread flushed and fenced
    up          \* no crash yet

pmVars == <<current, medium, attached, flushed, fenced, up>>

Start ==
    /\ current \in [Lines -> Nat] /\ medium \in [Lines -> Nat]
    /\ attached = {}
    /\ flushed = [t \in Threads |-> [l \in Lines |-> 0]]
    /\ fenced = [l \in Lines |-> 0]
    /\ up = TRUE

StoreTo(L) ==
    /\ current' = [l \in Lines |-> IF l \in L THEN current[l] + 1 ELSE current[l]]
    /\ UNCHANGED <<medium, attached, flushed, fenced, up>>

(* A mapping starts with the contents of the file, all on the medium. *)
Attach(L) ==
    /\ L \cap attached = {}
    /\ attached' = attached \cup L
    /\ medium' = [l \in Lines |-> IF l \in L THEN current[l] ELSE medium[l]]
    /\ UNCHANGED <<current, flushed, fenced, up>>

Detach(L) ==
    /\ attached' = attached \ L
    /\ medium' = [l \in Lines |-> IF l \in L THEN 0 ELSE medium[l]]
    /\ UNCHANGED <<current, flushed, fenced, up>>

WriteBack(L) ==
    /\ L \subseteq attached
    /\ medium' = [l \in Lines |-> IF l \in L THEN current[l] ELSE medium[l]]
    /\ UNCHANGED <<current, attached, flushed, fenced, up>>

FlushOf(t, L) ==
    /\ flushed' = [flushed EXCEPT ![t] =
          [l \in Lines |-> IF l \in L THEN current[l] ELSE flushed[t][l]]]
    /\ UNCHANGED <<current, medium, attached, fenced, up>>

FenceOf(t) ==
    /\ \A l \in attached : flushed[t][l] <= medium[l]
    /\ fenced' = [l \in Lines |->
          IF fenced[l] < flushed[t][l] THEN flushed[t][l] ELSE fenced[l]]
    /\ flushed' = [flushed EXCEPT ![t] = [l \in Lines |-> 0]]
    /\ UNCHANGED <<current, medium, attached, up>>

Crash ==
    /\ up' = FALSE
    /\ UNCHANGED <<current, medium, attached, flushed, fenced>>

PMNext ==
    /\ up
    /\ \/ Crash
       \/ \E t \in Threads : FenceOf(t)
       \/ \E L \in SUBSET Lines :
             \/ StoreTo(L) \/ Attach(L) \/ Detach(L) \/ WriteBack(L)
             \/ \E t \in Threads : FlushOf(t, L)

PMSpec == Start /\ [][PMNext]_pmVars

(* No fenced data is lost, whenever the crash comes. *)
FencedSurvives == \A l \in attached : fenced[l] <= medium[l]

=============================================================================
