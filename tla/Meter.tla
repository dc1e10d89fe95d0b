-------------------------------- MODULE Meter --------------------------------
(***************************************************************************)
(* The ledger of one quota window (store.go): HandleUsage and              *)
(* observeReading fold readings of what upstream says has been used into   *)
(* it, bill what the requests cost, and conclude from the two what the     *)
(* quota is worth.  A request that failed, or whose model has no price, is *)
(* billed nothing; one answered without quota headers is no reading and    *)
(* reaches no window.                                                      *)
(*                                                                         *)
(* Upstream charges a window some units a request and reports it in whole  *)
(* percentage points of Step units, on the headers of an answer, so before *)
(* the charge of that answer.  The host calls HandleUsage when the answer  *)
(* is complete.  A tick of the clock is longer than the 120 seconds within *)
(* which the code takes two reset times for the same.                      *)
(***************************************************************************)
EXTENDS Integers

CONSTANTS
    Slot,        \* requests and looks that may be under way at once
    Step,        \* units in a percentage point
    MaxCost,     \* bound: units a request may cost
    Period,      \* length of the window, in ticks of the clock
    MaxNow,      \* bound: ticks
    MaxSpent,    \* bound: no request is made of a window that has spent as much
    ReportsReset,\* does upstream say when the window resets?
    Grants,      \* how upstream hands quota back before its time
    MaxGrant,    \* bound: how often
    MaxUnbilled, \* bound: units that a cycle's requests may cost unbilled
    MaxExternal, \* bound: charges no reading comes with
    MaxCrash     \* bound: restarts of the proxy

ASSUME MeterAssumption ==
    /\ Step \in Nat \ {0} /\ MaxCost \in Nat \ {0} /\ Period \in Nat \ {0}
    /\ MaxNow \in Nat \ {0} /\ MaxSpent \in Nat
    /\ ReportsReset \in BOOLEAN
    /\ Grants \subseteq {"inPlace", "restart"}
    /\ MaxGrant \in Nat /\ MaxUnbilled \in Nat /\ MaxExternal \in Nat /\ MaxCrash \in Nat

VARIABLES
    now,       \* the clock
    spent,     \* upstream: units charged to the window
    started,   \* upstream: has its clock been started by a request?
    reset,     \* upstream: when it resets, once started
    resets,    \* upstream: windows that have ended, early or on time
    grants,    \* upstream: those that ended early
    ledger,    \* the Window
    alarms,    \* history: times App.earlyReset was set since the start
    saved,     \* the Window in state.json
    slot,      \* what each request or look is doing
    externals, \* charges no reading came with: other clients' of the account,
               \* and of requests that were answered without quota headers
    crashes

vars == <<now, spent, started, reset, resets, grants, ledger, alarms, saved,
          slot, externals, crashes>>
upstream == <<spent, started, reset, resets, grants>>

Cost == 0 .. MaxCost    \* a request that failed may have cost nothing
Time == 0 .. MaxNow + Period
Reading == [percent : Nat, reset : Time]

(* unbilled stands for Window.Failed and ModelAgg.Unpriced: the code counts *)
(* the requests of a cycle that it bills nothing, and what they have cost  *)
(* upstream is what its ledger lacks.                                      *)
Ledger == [key : Time, covered : BOOLEAN, usd : Nat, unbilled : Nat, touched : BOOLEAN,
           percent : Nat, hasLast : BOOLEAN, pending : Nat,
           samples : [Time -> Nat], cycles : Nat, granted : Nat,
           resumed : BOOLEAN]
Job == [pc : {"idle", "answered", "charged", "looked"}, reading : Reading,
        cost : Nat, window : Nat]

TypeOK ==
    /\ now \in 0 .. MaxNow
    /\ spent \in Nat /\ started \in BOOLEAN /\ reset \in Time
    /\ resets \in Nat /\ grants \in 0 .. MaxGrant
    /\ ledger \in Ledger /\ saved \in Ledger
    /\ alarms \in Nat
    /\ slot \in [Slot -> Job]
    /\ externals \in 0 .. MaxExternal /\ crashes \in 0 .. MaxCrash

Fresh == [key |-> 0, covered |-> FALSE, usd |-> 0, unbilled |-> 0, touched |-> FALSE,
          percent |-> 0, hasLast |-> FALSE, pending |-> 0,
          samples |-> [t \in Time |-> 0], cycles |-> 0, granted |-> 0,
          resumed |-> FALSE]
Free == [pc |-> "idle", reading |-> [percent |-> 0, reset |-> 0],
         cost |-> 0, window |-> 0]

Init ==
    /\ now = 0
    /\ spent \in 0 .. Step /\ started = (spent > 0)
    /\ reset = IF started THEN Period ELSE 0
    /\ resets = 0 /\ grants = 0
    /\ ledger = Fresh /\ saved = Fresh
    /\ alarms = 0
    /\ slot = [s \in Slot |-> Free]
    /\ externals = 0 /\ crashes = 0

-----------------------------------------------------------------------------
(* advance, in its order. *)

(* A window nothing has touched ends one period from whenever it is asked. *)
Untouched(L, r) ==
    L.hasLast /\ L.percent = 0 /\ r.percent = 0 /\ ~L.touched /\ L.pending = 0

Moved(L, r) == r.reset > 0 /\ r.reset # L.key
Fell(L, r) == L.hasLast /\ r.percent < L.percent

\* Mutant: what the closed cycle had pending stays pending.
StartCycleKeepsPending(L, r, granted) ==
    [key |-> r.reset, covered |-> r.percent = 0, usd |-> 0, unbilled |-> 0, touched |-> FALSE,
     percent |-> 0, hasLast |-> FALSE, pending |-> L.pending, samples |-> L.samples,
     cycles |-> L.cycles + 1, granted |-> IF granted THEN L.granted + 1 ELSE L.granted,
     resumed |-> L.resumed]

\* Mutant: a new cycle is taken to be covered whatever its first reading.
StartCycleCovered(L, r, granted) ==
    [key |-> r.reset, covered |-> TRUE, usd |-> 0, unbilled |-> 0, touched |-> FALSE,
     percent |-> 0, hasLast |-> FALSE, pending |-> 0, samples |-> L.samples,
     cycles |-> L.cycles + 1, granted |-> IF granted THEN L.granted + 1 ELSE L.granted,
     resumed |-> L.resumed]

(* startCycle: the samples outlive the cycle, its counts do not. *)
StartCycle(L, r, granted) ==
    [key |-> r.reset, covered |-> r.percent = 0, usd |-> 0, unbilled |-> 0, touched |-> FALSE,
     percent |-> 0, hasLast |-> FALSE, pending |-> 0, samples |-> L.samples,
     cycles |-> L.cycles + 1, granted |-> IF granted THEN L.granted + 1 ELSE L.granted,
     resumed |-> L.resumed]

\* Mutant: an idle window's moving boundary is a new cycle every time.
RolledIgnoringIdle(L, r) ==
    CASE L.key = 0 \/ Moved(L, r) -> StartCycle(L, r, FALSE)
      [] L.key # 0 /\ ~Moved(L, r) /\ Fell(L, r) -> StartCycle(L, r, TRUE)
      [] OTHER -> L

(* advance's switch. *)
Rolled(L, r) ==
    CASE L.key # 0 /\ Moved(L, r) /\ Untouched(L, r) -> [L EXCEPT !.key = r.reset]
      [] L.key = 0 \/ (Moved(L, r) /\ ~Untouched(L, r)) -> StartCycle(L, r, FALSE)
      [] L.key # 0 /\ ~Moved(L, r) /\ Fell(L, r) -> StartCycle(L, r, TRUE)
      [] OTHER -> L

\* Mutant: any fall of the percentage is taken for a reset granted early.
EarlyWheneverLower(L, r) == L.key # 0 /\ Fell(L, r)

(* What advance returns. *)
Early(L, r) ==
    /\ L.key # 0 /\ Fell(L, r)
    /\ Moved(L, r) => (~Untouched(L, r) /\ L.key > now)

\* Mutant: the first reading after a restart is taken like any other.
CaughtUpBlindly(L, r) == [L EXCEPT !.resumed = FALSE]

(* The first reading after a restart. *)
CaughtUp(L, r) ==
    IF L.resumed /\ L.hasLast /\ r.percent > L.percent
    THEN [L EXCEPT !.resumed = FALSE, !.covered = FALSE, !.pending = 0,
                   !.percent = r.percent]
    ELSE [L EXCEPT !.resumed = FALSE]

\* Mutant: a sample takes the whole cycle's spend off what is pending.
CalibratedByCycle(L, r) ==
    IF L.hasLast /\ r.percent > L.percent
    THEN [L EXCEPT !.samples[L.key] = @ + L.pending, !.pending = @ - L.usd]
    ELSE L

\* Mutant: the sample is taken and the pending spend kept.
CalibratedTwice(L, r) ==
    IF L.hasLast /\ r.percent > L.percent
    THEN [L EXCEPT !.samples[L.key] = @ + L.pending]
    ELSE L

(* A step of the percentage prices the pending spend; one with nothing     *)
(* pending was somebody else's.                                            *)
Calibrated(L, r) ==
    IF L.hasLast /\ r.percent > L.percent
    THEN [L EXCEPT !.samples[L.key] = @ + L.pending, !.pending = 0]
    ELSE L

Advance(L, r) ==
    [Calibrated(CaughtUp(Rolled(L, r), r), r)
        EXCEPT !.percent = r.percent, !.hasLast = TRUE]

Bill(L, cost) ==
    [L EXCEPT !.pending = @ + cost, !.usd = @ + cost, !.touched = TRUE]

BillNothing(L, cost) == [L EXCEPT !.unbilled = @ + cost, !.touched = TRUE]

-----------------------------------------------------------------------------
(* Requests and looks. *)

Report(isStarted, end) ==
    [percent |-> spent \div Step,
     reset |-> CASE ~ReportsReset -> 0
                 [] ReportsReset /\ isStarted -> end
                 [] ReportsReset /\ ~isStarted -> now + Period]

(* Upstream begins to answer a request: its headers are a reading, and the *)
(* first request starts the window.                                        *)
Respond(s) ==
    /\ slot[s].pc = "idle" /\ spent < MaxSpent
    /\ started' = TRUE
    /\ reset' = IF started THEN reset ELSE now + Period
    /\ slot' = [slot EXCEPT ![s] = [Free EXCEPT !.pc = "answered", !.window = resets,
                                                !.reading = Report(TRUE, reset')]]
    /\ UNCHANGED <<now, spent, resets, grants, ledger, alarms, saved, externals, crashes>>

(* It has answered, and charges the window the request was made in.        *)
Charge(s) ==
    /\ slot[s].pc = "answered"
    /\ \E cost \in Cost :
          /\ slot' = [slot EXCEPT ![s].pc = "charged", ![s].cost = cost]
          /\ spent' = IF slot[s].window = resets THEN spent + cost ELSE spent
    /\ UNCHANGED <<now, started, reset, resets, grants, ledger, alarms, saved,
                   externals, crashes>>

(* Every window reported on the answer is advanced and billed, nothing if  *)
(* the request failed or its model has no price.                           *)
HandleUsage(s) ==
    /\ slot[s].pc = "charged"
    /\ LET N == Advance(ledger, slot[s].reading)
       IN  \/ ledger' = Bill(N, slot[s].cost)
           \/ /\ N.unbilled + slot[s].cost <= MaxUnbilled
              /\ ledger' = BillNothing(N, slot[s].cost)
    /\ alarms' = IF Early(ledger, slot[s].reading) THEN alarms + 1 ELSE alarms
    /\ slot' = [slot EXCEPT ![s] = Free]
    /\ UNCHANGED <<now, upstream, saved, externals, crashes>>

(* An answer without quota headers reports no window, and none is billed.  *)
HandleUsageBlind(s) ==
    /\ slot[s].pc = "charged" /\ externals < MaxExternal
    /\ externals' = externals + 1
    /\ slot' = [slot EXCEPT ![s] = Free]
    /\ UNCHANGED <<now, upstream, ledger, alarms, saved, crashes>>

(* look, and what settle does with it here. *)
Look(s) ==
    /\ slot[s].pc = "idle"
    /\ slot' = [slot EXCEPT ![s] = [Free EXCEPT !.pc = "looked",
                                                !.reading = Report(started, reset)]]
    /\ UNCHANGED <<now, upstream, ledger, alarms, saved, externals, crashes>>

ObserveReading(s) ==
    /\ slot[s].pc = "looked"
    /\ ledger' = Advance(ledger, slot[s].reading)
    /\ slot' = [slot EXCEPT ![s] = Free]
    /\ UNCHANGED <<now, upstream, alarms, saved, externals, crashes>>

-----------------------------------------------------------------------------
(* Upstream, other clients and the clock. *)

Ends(count) == spent' = 0 /\ resets' = resets + 1 /\ grants' = grants + count

Tick ==
    /\ now < MaxNow
    /\ now' = now + 1
    /\ IF started /\ reset <= now'
       THEN Ends(0) /\ started' = FALSE /\ reset' = 0
       ELSE UNCHANGED upstream
    /\ UNCHANGED <<ledger, alarms, saved, slot, externals, crashes>>

Grant ==
    /\ started /\ grants < MaxGrant
    /\ Ends(1)
    /\ \E how \in Grants :
          /\ started' = (how = "inPlace")
          /\ reset' = IF how = "inPlace" THEN reset ELSE 0
    /\ UNCHANGED <<now, ledger, alarms, saved, slot, externals, crashes>>

External ==
    /\ externals < MaxExternal /\ spent < MaxSpent
    /\ externals' = externals + 1
    /\ \E cost \in Cost \ {0} : spent' = spent + cost
    /\ started' = TRUE
    /\ reset' = IF started THEN reset ELSE now + Period
    /\ UNCHANGED <<now, resets, grants, ledger, alarms, saved, slot, crashes>>

(* Flush, and a restart from what it wrote: what was under way is lost,    *)
(* charged or not.                                                         *)
Flush ==
    /\ crashes < MaxCrash
    /\ saved' = ledger
    /\ UNCHANGED <<now, upstream, ledger, alarms, slot, externals, crashes>>

Crash ==
    /\ crashes < MaxCrash
    /\ crashes' = crashes + 1
    /\ ledger' = [saved EXCEPT !.resumed = TRUE]
    /\ alarms' = 0
    /\ slot' = [s \in Slot |-> Free]
    /\ UNCHANGED <<now, upstream, saved, externals>>

Next ==
    \/ \E s \in Slot : Respond(s) \/ Charge(s) \/ HandleUsage(s) \/ HandleUsageBlind(s)
    \/ \E s \in Slot : Look(s) \/ ObserveReading(s)
    \/ Tick
    \/ Grant
    \/ External
    \/ Flush
    \/ Crash

Spec == Init /\ [][Next]_vars

-----------------------------------------------------------------------------
(* EstimateWith: "Spend that the latest percentage reading has actually    *)
(* had a chance to account for", AttributedUSD, is never negative: what is *)
(* pending was billed in this cycle, through resets, restarts and readings *)
(* in any order.                                                           *)
PendingInCycle == ledger.pending <= ledger.usd

(* freshEvidence, "the current cycle's own samples": short of a reset that *)
(* keeps its window's boundary, the samples that carry the cycle's key     *)
(* price no dollar this cycle has not billed, and none twice.              *)
EvidenceIsOwn ==
    (grants = 0 /\ ledger.key # 0) =>
        ledger.samples[ledger.key] + ledger.pending <= ledger.usd

\* Every charge comes with a reading, and upstream keeps to its boundaries.
Alone == grants = 0 /\ externals = 0
Quiet == \A s \in Slot : slot[s].pc = "idle"
InStep == started /\ ledger.key = reset /\ ~ledger.resumed

(* startCycle: a covered cycle's first reading "showed nothing spent, so    *)
(* every dollar since then is money this plugin actually saw".  Upstream   *)
(* rounds down, so nothing spent is less than a point spent; a restart can *)
(* hide as much again before the percentage gives it away; and the cycle   *)
(* stays covered when a request is billed nothing, so all that the failed  *)
(* and unpriced requests it counts have cost may be missing besides.       *)
Unseen == spent - ledger.usd
CoverageWithinAPoint ==
    (ledger.covered /\ InStep /\ Quiet /\ Alone) =>
        Unseen <= (1 + crashes) * (Step - 1) + ledger.unbilled

(* EstimateWith, "prices the whole cycle against the whole percentage,     *)
(* with no attribution guesswork": what a covered cycle divides by its     *)
(* percentage is right to a point, a point more for each restart, and what *)
(* the cycle's failed and unpriced requests have cost.                     *)
QuotaWithinAPoint ==
    (ledger.covered /\ ledger.percent > 0 /\ ~ledger.resumed /\ Alone)
        => LET attributed == ledger.usd - ledger.pending
           IN  /\ (ledger.percent - 1 - crashes) * Step < attributed + ledger.unbilled
               /\ attributed < (ledger.percent + 1) * Step

(* advance: "Upstream granted a mid-cycle reset", and HandleUsage's        *)
(* earlyReset, which has every idle credential read again: neither is      *)
(* concluded more often than upstream has done it.                         *)
GrantsAreReal == ledger.granted <= grants /\ alarms <= grants

(* advance, "Reading an idle credential twice is not two cycles": no more  *)
(* cycles are counted than upstream has had windows, and one more for each *)
(* restart and each charge no reading came with, that hid how the window   *)
(* was started.                                                            *)
CyclesAreReal == ledger.cycles <= resets + 1 + crashes + externals
=============================================================================
