-------------------------------- MODULE Locks --------------------------------
(***************************************************************************)
(* The four locks of the plugin and the ways they are nested.  A goroutine *)
(* is a succession of critical sections, in any order; it holds nothing    *)
(* between two of them.  A section takes one lock and, while holding it,   *)
(* may take others, one after the other.                                   *)
(***************************************************************************)
EXTENDS Naturals

CONSTANTS Goroutine, Nobody

VARIABLES
    at,      \* where each goroutine is
    holder   \* the goroutine that holds each lock

lockVars == <<at, holder>>

(* App.mu, rotator.mu, priceBook.mu and the lock of the current App.       *)
Lock == {"appInst", "app", "rotator", "prices"}
Rank == [l \in Lock |-> CASE l = "appInst" -> 1 [] l = "app" -> 2 [] OTHER -> 3]

(* Flush encodes the rotator's state under the app lock.                   *)
Flush == [outer |-> "app", inner |-> {"rotator"}]

(* Report looks up prices and has the rotator report under the app lock.   *)
Report == [outer |-> "app", inner |-> {"prices", "rotator"}]

(* configure builds or changes the app under the lock of appInst: the      *)
(* configuration, the overrides, and the state a new app restores.         *)
Configure == [outer |-> "appInst", inner |-> {"app", "prices", "rotator"}]

\* Mutant: record marks the state dirty before it lets its own lock go.
RecordNested == [outer |-> "rotator", inner |-> {"app"}]

(* record, like whatever changes the rotator's state, "takes the two locks *)
(* in sequence, never nested".                                             *)
Record == [outer |-> "rotator", inner |-> {}]

(* Every other section takes one lock: markDirty, the reads of accounts    *)
(* and configuration, and HandleUsage's two;                               *)
MarkDirty == [outer |-> "app", inner |-> {}]

(* Lookup and the rest of the price book;                                  *)
PriceLookup == [outer |-> "prices", inner |-> {}]

(* and current.                                                            *)
Current == [outer |-> "appInst", inner |-> {}]

Section == {Flush, Report, Configure, Record, MarkDirty, PriceLookup, Current}
Nowhere == [step |-> "out", section |-> Current, lock |-> "appInst"]

LockTypeOK ==
    /\ at \in [Goroutine -> [step : {"out", "waiting", "in", "reaching", "deep"},
                             section : Section, lock : Lock]]
    /\ holder \in [Lock -> Goroutine \cup {Nobody}]

LockInit ==
    /\ at = [g \in Goroutine |-> Nowhere]
    /\ holder = [l \in Lock |-> Nobody]

Put(g, step, section, lock) ==
    at' = [at EXCEPT ![g] = [step |-> step, section |-> section, lock |-> lock]]

(* A goroutine comes to a section,                                         *)
Come(g) ==
    /\ at[g].step = "out"
    /\ \E s \in Section : Put(g, "waiting", s, s.outer)
    /\ UNCHANGED holder

(* reaches for another lock in it,                                         *)
Reach(g) ==
    /\ at[g].step = "in"
    /\ \E l \in at[g].section.inner : Put(g, "reaching", at[g].section, l)
    /\ UNCHANGED holder

(* gets the lock it waits for when that is free,                           *)
Take(g) ==
    /\ holder[at[g].lock] = Nobody
    /\ holder' = [holder EXCEPT ![at[g].lock] = g]
    /\ \/ at[g].step = "waiting" /\ Put(g, "in", at[g].section, at[g].lock)
       \/ at[g].step = "reaching" /\ Put(g, "deep", at[g].section, at[g].lock)

(* and lets it go.                                                         *)
Release(g) ==
    /\ holder' = [holder EXCEPT ![at[g].lock] = Nobody]
    /\ \/ at[g].step = "in" /\ Put(g, "out", at[g].section, at[g].lock)
       \/ at[g].step = "deep" /\ Put(g, "in", at[g].section, at[g].section.outer)

LockNext == \E g \in Goroutine : Come(g) \/ Reach(g) \/ Take(g) \/ Release(g)

LockSpec == LockInit /\ [][LockNext]_lockVars

-----------------------------------------------------------------------------
Blocked(g) ==
    /\ at[g].step \in {"waiting", "reaching"}
    /\ holder[at[g].lock] # Nobody

(* "reaching for the app lock while holding the rotator's would close an   *)
(* ABBA deadlock around the request path": whoever waits for a lock, some  *)
(* goroutine that holds one is not waiting.                                *)
SomeoneMoves ==
    (\E g \in Goroutine : Blocked(g)) =>
        \E g \in Goroutine : at[g].step # "out" /\ ~Blocked(g)
=============================================================================
