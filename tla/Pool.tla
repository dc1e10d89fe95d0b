-------------------------------- MODULE Pool --------------------------------
(***************************************************************************)
(* The rotator's decision (rotator.go: tick and everything it calls to     *)
(* judge, probe, rank, promote and retire), step by step.                  *)
(*                                                                         *)
(* A tick works from two snapshots it takes early - which credentials are  *)
(* enabled, and what is known of each - and then talks to upstream and     *)
(* writes credential files one at a time, so every probe and every write   *)
(* is a step of its own and the world may change in between.  Nothing in   *)
(* the code keeps two ticks apart: the loop's and the one POST /rotate     *)
(* runs on a request thread are two members of Ticker.                     *)
(*                                                                         *)
(* A credential's quota is one of a few standings: "ample" is above the    *)
(* floor, "low" is at or below it, "pausing" is empty with a refill due in *)
(* minutes.  Whether a probe budget, a switch gap or a day has run out is  *)
(* a flag an environment step renews, in place of the clock.               *)
(***************************************************************************)
EXTENDS Integers, FiniteSets, FiniteSetsExt

CONSTANTS
    Cred,           \* credential files of the pool's provider
    Ticker,         \* callers of tick: "loop", and possibly "rotate"
    KeepEnabled,    \* keep_enabled
    MaxChanges,     \* max_changes_per_day
    NeverEnable,    \* never_enable
    NeverDisable,   \* never_disable
    Confirm,        \* confirm_before_switch
    DisableDead,    \* disable_dead_tokens
    DryRun,         \* dry_run
    MaxDrift        \* bound: changes of the world outside the plugin, and
                    \* probes, reads and writes that fail

ASSUME PoolAssumption ==
    /\ IsFiniteSet(Cred)
    /\ Ticker \subseteq {"loop", "rotate"}
    /\ KeepEnabled \in Nat \ {0}
    /\ MaxChanges \in Nat \ {0}
    /\ NeverEnable \subseteq Cred
    /\ NeverDisable \subseteq Cred
    /\ {Confirm, DisableDead, DryRun} \subseteq BOOLEAN
    /\ MaxDrift \in Nat

VARIABLES
    disk,      \* credential files: enabled?
    host,      \* what the host's list says, which trails the files
    prio,      \* serving priority in the file
    truth,     \* what upstream would answer now
    known,     \* what derive makes of the stored readings
    asked,     \* credentials whose probe budget for this cycle is spent
    pinned,    \* refused, and noted with the token on disk (probeMemo)
    rolled,    \* credentials whose reading was rolled over by the clock
    burning,   \* samples of the last hour project it empty within the lead time
    recent,    \* disabled within the switch gap (RotatorState.Log)
    cooling,   \* is LastSwitch within the switch gap?
    dayCount,  \* RotatorState.DayCount
    reason,    \* RotatorState.LastReason, for the reasons that matter here
    tick,      \* the ticks in progress
    drift,     \* changes of the world and failures so far
    fails      \* history: the failures among them

world == <<truth, drift, fails>>
ledger == <<known, asked, pinned, rolled, burning>>
switches == <<recent, cooling, dayCount>>
books == <<switches, reason>>
files == <<disk, host, prio>>
vars == <<files, world, ledger, books, tick>>

Quota == {"ample", "low", "pausing", "empty"}
Truth == Quota \cup {"refused"}
Known == Truth \cup {"unknown"}
\* A probe that errs, and one upstream answered without any quota in it.
Result == Known \cup {"failed", "bare"}
Phase == {"idle", "resync", "confirm", "widen", "vet", "refused", "promote", "drain"}

IdleTick ==
    [pc |-> "idle", forced |-> FALSE, clear |-> FALSE, fresh |-> FALSE,
     enabled |-> {}, pool |-> {}, res |-> [c \in Cred |-> "bare"], todo |-> {},
     short |-> 0, prom |-> {}, resv |-> {}, touched |-> {}, next |-> 0,
     promoted |-> 0, live |-> 0]

TypeOK ==
    /\ disk \in [Cred -> BOOLEAN] /\ host \in [Cred -> BOOLEAN]
    /\ prio \in [Cred -> Int]
    /\ truth \in [Cred -> Truth] /\ known \in [Cred -> Known]
    /\ asked \subseteq Cred /\ pinned \subseteq Cred /\ rolled \subseteq Cred
    /\ burning \subseteq Cred /\ recent \subseteq Cred
    /\ cooling \in BOOLEAN
    /\ dayCount \in Nat
    /\ reason \in {"none", "pool_healthy", "daily_limit_reached", "nothing_serving",
                   "running_low", "no_standby", "promotion_failed", "rotated"}
    /\ tick \in [Ticker ->
          [pc : Phase, forced : BOOLEAN, clear : BOOLEAN, fresh : BOOLEAN,
           enabled : SUBSET Cred, pool : SUBSET Cred, res : [Cred -> Result],
           todo : SUBSET Cred, short : Nat, prom : SUBSET Cred,
           resv : SUBSET Cred, touched : SUBSET Cred, next : Int,
           promoted : Nat, live : Int]]
    /\ drift \in 0 .. MaxDrift /\ fails \in 0 .. drift

Init ==
    /\ disk \in [Cred -> BOOLEAN]
    /\ host = disk
    /\ prio = [c \in Cred |-> 0]
    /\ truth \in [Cred -> {"ample", "low", "empty", "refused"}]
    /\ known \in {k \in [Cred -> Known] : \A c \in Cred : k[c] \in {truth[c], "unknown"}}
    /\ asked = {} /\ pinned = {} /\ rolled = {} /\ burning = {} /\ recent = {}
    /\ cooling = FALSE /\ dayCount = 0
    /\ reason = "none"
    /\ tick = [t \in Ticker |-> IdleTick]
    /\ drift = 0 /\ fails = 0

-----------------------------------------------------------------------------
(* Judging and ranking. *)

\* Mutant: a member on its last percents does not make the pool short.
MemberStateLowIsFine(c, r) ==
    CASE r \in {"refused", "failed"} -> "dead"
      [] r = "unknown" -> "unknown"
      [] r = "empty" -> "exhausted"
      [] r = "ample" /\ c \in burning -> "draining"
      [] OTHER -> "healthy"

(* memberState: a result with an error is as dead as a refusal, one that   *)
(* carries no window is healthy; the burn rate is looked up at each call.  *)
MemberState(c, r) ==
    CASE r \in {"refused", "failed"} -> "dead"
      [] r = "unknown" -> "unknown"
      [] r = "empty" -> "exhausted"
      [] r = "low" -> "draining"
      [] r = "ample" -> IF c \in burning THEN "draining" ELSE "healthy"
      [] r \in {"pausing", "bare"} -> "healthy"

Healthy(E, res) == {c \in E : MemberState(c, res[c]) = "healthy"}
Serving(E, res) == {c \in E : MemberState(c, res[c]) \notin {"exhausted", "dead"}}
\* Mutant: a pool above its target is counted as a negative shortfall.
MissingUnclamped(S) == KeepEnabled - Cardinality(S)

Missing(S) == Max({0, KeepEnabled - Cardinality(S)})

(* poolShortfall *)
Shortfall(E, res) == Missing(Healthy(E, res))

(* unservedSlots *)
Unserved(E, res) == Missing(Serving(E, res))

(* rank: why a credential is passed over; "" when it is not.               *)
Skip(c, r) ==
    CASE c \in NeverEnable -> "excluded"
      [] c \notin NeverEnable /\ r \in {"refused", "failed"} -> "dead_token"
      [] c \notin NeverEnable /\ r = "unknown" -> "unknown"
      [] c \notin NeverEnable /\ r \in {"empty", "bare"} -> "exhausted"
      [] c \notin NeverEnable /\ r \in {"low", "pausing"} -> "too_low"
      [] OTHER -> IF c \in recent THEN "recently_rotated" ELSE ""

(* picksFrom and isReserve, for a tick's snapshots. *)
Promotable(k) == {c \in k.pool \ k.enabled : Skip(c, k.res[c]) = ""}
Reserves(k) == {c \in k.pool \ k.enabled : k.res[c] = "low" /\ c \notin NeverEnable}

(* choose: promotable candidates up to the shortfall, then reserves up to  *)
(* the slots nothing serves.  The order rank gives is not modelled.        *)
PickSets(prom, resv, short, unserved) ==
    LET n == IF Cardinality(prom) < short THEN Cardinality(prom) ELSE short
        r == Min({Cardinality(resv), Max({0, unserved - n})})
    IN  {P \cup R : P \in kSubset(n, prom), R \in kSubset(r, resv)}

(* splitPool, of the host's list. *)
HostEnabled == {c \in Cred : host[c]}
HostPool == {c \in Cred : host[c] \/ c \notin NeverEnable}

\* Mutant: the daily limit is left to the operator's patience.
MayActGapOnly(k) == k.clear /\ ~cooling

(* mayAct, by the clock as the tick read it when it began.                 *)
MayAct(k) == k.clear /\ ~cooling /\ dayCount < MaxChanges

(* credentialPriority: a file that cannot be read counts as one without a  *)
(* priority.                                                               *)
CredentialPriority(c, unread) == IF c \in unread THEN 0 ELSE prio[c]

(* backOfQueue *)
BackOfQueue(E, unread) ==
    IF E = {} THEN -1 ELSE Min({CredentialPriority(c, unread) : c \in E}) - 1

-----------------------------------------------------------------------------
(* Moving one tick along. *)

Step(t, k) == tick' = [tick EXCEPT ![t] = k]

Finish(t, why) ==
    /\ Step(t, IdleTick)
    /\ reason' = why

(* A tick reads the host's list and derives every standing; windows rolled *)
(* by the clock are queued for the resync.                                 *)
TickBegin(t) ==
    /\ tick[t].pc = "idle"
    /\ \E forced \in IF t = "rotate" THEN {TRUE} ELSE BOOLEAN :
          Step(t, [IdleTick EXCEPT
                     !.pc = "resync", !.forced = forced, !.clear = ~cooling,
                     !.fresh = (host = disk),
                     !.enabled = HostEnabled, !.pool = HostPool,
                     !.res = [c \in Cred |-> IF c \in HostPool THEN known[c] ELSE "bare"],
                     !.todo = rolled \cap HostPool])
    /\ UNCHANGED <<files, world, ledger, books>>

\* So many things fail in this step.
Failures(n) ==
    /\ drift + n <= MaxDrift
    /\ drift' = drift + n
    /\ fails' = fails + n

(* Without its refusal a credential has what was last read of it, rolled   *)
(* over by the clock since or not, if anything ever was.                   *)
Uncovered(c) ==
    \E old \in Quota \cup {"unknown"} :
       /\ known' = [known EXCEPT ![c] = old]
       /\ rolled' \in {rolled} \cup (IF old = "ample" THEN {rolled \cup {c}} ELSE {})

\* The probe answers with a reading or a refusal; a refusal is pinned.
Answered(c) ==
    /\ known' = [known EXCEPT ![c] = truth[c]]
    /\ rolled' = rolled \ {c}
    /\ IF truth[c] = "refused"
       THEN pinned' = pinned \cup {c} /\ asked' = asked \ {c}
       ELSE asked' = asked \cup {c} /\ UNCHANGED pinned

(* One without a reading leaves what is known alone, but outdates a        *)
(* refusal, unless that is of the same second; the reading under the       *)
(* refusal has a cycle of its own to ask in.                               *)
Unanswered(c) ==
    /\ UNCHANGED pinned
    /\ \/ asked' = asked \cup {c} /\ UNCHANGED <<known, rolled>>
       \/ /\ known[c] = "refused"
          /\ Uncovered(c)
          /\ asked' = IF known'[c] \in Quota THEN asked ELSE asked \cup {c}

(* probeAllowed and ask -> probe -> settle, for the next credential on the *)
(* tick's list (ProbeBudget and Refusal have each in detail).              *)
Ask(t, c) ==
    LET k == tick[t] IN
    /\ k.pc \in {"resync", "confirm", "widen", "vet"}
    /\ c \in k.todo
    /\ IF c \in NeverEnable \cup asked \cup pinned
       THEN /\ Step(t, [k EXCEPT !.todo = @ \ {c}])
            /\ UNCHANGED <<ledger, drift, fails>>
       ELSE \E a \in {truth[c], "failed", "bare"} :
            /\ Step(t, [k EXCEPT !.todo = @ \ {c}, !.res[c] = a])
            /\ IF a \in Truth THEN Answered(c) ELSE Unanswered(c)
            /\ Failures(IF a \in Truth THEN 0 ELSE 1)
            /\ UNCHANGED burning
    /\ UNCHANGED <<files, truth, books>>

(* The candidates are ranked; the unmeasured and the presumed dead are put *)
(* on the list when the promotable ones cannot fill the gap.               *)
Widen(k) ==
    LET prom == Promotable(k) IN
    [k EXCEPT !.pc = "widen",
              !.todo = IF Cardinality(prom) >= k.short THEN {}
                       ELSE {c \in k.pool : Skip(c, k.res[c]) \in {"unknown", "dead_token"}}]

(* After the resync: is the pool short, and may the rotator act?           *)
Judge(t) ==
    LET k == [tick[t] EXCEPT !.short = Shortfall(tick[t].enabled, tick[t].res)] IN
    /\ tick[t].pc = "resync" /\ tick[t].todo = {}
    /\ \/ /\ ~k.forced /\ k.short = 0
          /\ Finish(t, "pool_healthy")
       \/ /\ k.forced \/ k.short > 0
          /\ ~MayAct(k)
          /\ Finish(t, IF cooling \/ ~k.clear THEN reason ELSE "daily_limit_reached")
       \/ /\ k.forced \/ k.short > 0
          /\ MayAct(k)
          /\ Step(t, IF Confirm
                     THEN [k EXCEPT !.pc = "confirm",
                              !.todo = k.enabled \ Healthy(k.enabled, k.res)]
                     ELSE Widen(k))
          /\ UNCHANGED reason
    /\ UNCHANGED <<files, world, ledger, switches>>

(* After the incumbents were confirmed: is it still short?                 *)
Confirmed(t) ==
    LET k == [tick[t] EXCEPT !.short = Shortfall(tick[t].enabled, tick[t].res)] IN
    /\ tick[t].pc = "confirm" /\ tick[t].todo = {}
    /\ \/ /\ k.short = 0
          /\ Finish(t, "pool_healthy")
       \/ /\ k.short > 0
          /\ Step(t, Widen(k))
          /\ UNCHANGED reason
    /\ UNCHANGED <<files, world, ledger, switches>>

(* After the unknown were asked: the replacements chosen are asked too.    *)
Widened(t) ==
    LET k == tick[t] IN
    /\ k.pc = "widen" /\ k.todo = {}
    /\ \E picks \in IF Confirm
                    THEN PickSets(Promotable(k), Reserves(k), k.short,
                                 Unserved(k.enabled, k.res))
                    ELSE {{}} :
          Step(t, [k EXCEPT !.pc = "vet", !.todo = picks])
    /\ UNCHANGED <<files, world, ledger, books>>

(* The final ranking; retireRejected goes over the whole pool.             *)
Vetted(t) ==
    LET k == tick[t] IN
    /\ k.pc = "vet" /\ k.todo = {}
    /\ Step(t, [k EXCEPT
                  !.pc = "refused", !.prom = Promotable(k), !.resv = Reserves(k),
                  !.todo = IF ~DisableDead THEN {}
                           ELSE {c \in k.enabled \ NeverDisable : k.res[c] = "refused"}])
    /\ UNCHANGED <<files, world, ledger, books>>

-----------------------------------------------------------------------------
(* Writing credentials. *)

(* writeState: the attempt is booked before it is made, whether it is made *)
(* at all (dry run) and whether it succeeds.                               *)
Booked(c, disabling) ==
    /\ dayCount' = dayCount + 1
    /\ recent' = IF disabling THEN recent \cup {c} ELSE recent

(* The file itself; the host hears of it later. *)
FileWrite(c, ok, on, p) ==
    /\ Failures(IF ok THEN 0 ELSE 1)
    /\ IF ok /\ ~DryRun
       THEN /\ disk' = [disk EXCEPT ![c] = on]
            /\ prio' = [prio EXCEPT ![c] = p]
       ELSE UNCHANGED <<disk, prio>>
    /\ UNCHANGED host

(* pinRejection: the token that is on disk now is noted as the refused one,*)
(* whichever upstream refused.                                             *)
Pin(c) ==
    /\ pinned' = pinned \cup {c}
    /\ known' = [known EXCEPT ![c] = "refused"]
    /\ asked' = asked \ {c}

(* retireRejected, one credential.  Nothing is pinned when the file was    *)
(* not written, or cannot be read again.                                   *)
RetireRefused(t, c) ==
    LET k == tick[t] IN
    /\ k.pc = "refused" /\ c \in k.todo
    /\ \E ok \in {TRUE, DryRun} :
          /\ Booked(c, TRUE)
          /\ FileWrite(c, ok, FALSE, prio[c])
          /\ Step(t, [k EXCEPT !.todo = @ \ {c},
                               !.touched = IF ok THEN @ \cup {c} ELSE @])
          /\ \/ ok /\ Pin(c)
             \/ UNCHANGED <<known, asked, pinned>>
    /\ UNCHANGED <<truth, rolled, burning, cooling, reason>>

(* The recount with the ledger of this moment, then choose, from the       *)
(* candidates as they were ranked before.                                  *)
RecountOf(t, listed, lost) ==
    LET k == tick[t]
        short == Shortfall(listed, known)
        unserved == Unserved(listed, known)
    IN
    /\ k.pc = "refused" /\ k.todo = {}
    /\ \/ /\ short = 0
          /\ Finish(t, "pool_healthy")
          /\ Failures(lost)
       \/ /\ short > 0
          /\ \E picks \in PickSets(k.prom, k.resv, short, unserved) :
             \/ /\ picks = {}
                /\ Finish(t, IF unserved >= KeepEnabled THEN "nothing_serving"
                             ELSE IF unserved = 0 THEN "running_low" ELSE "no_standby")
                /\ Failures(lost)
             \/ /\ picks # {}
                /\ \E unread \in SUBSET listed :
                      /\ Step(t, [k EXCEPT !.pc = "promote", !.enabled = listed,
                                           !.todo = picks, !.short = short,
                                           !.next = BackOfQueue(listed, unread)])
                      /\ Failures(lost + Cardinality(unread))
                /\ UNCHANGED reason
    /\ UNCHANGED <<files, truth, ledger, switches>>

(* The list is fetched again; when the host does not answer, authMetadata  *)
(* returns none, and the pool counts as one without members.               *)
Recount(t) == RecountOf(t, HostEnabled, 0) \/ RecountOf(t, {}, 1)

\* Mutant: every newcomer of one rotation gets the same priority.
PromoteSamePriority(t, c) ==
    LET k == tick[t] IN
    /\ k.pc = "promote" /\ c \in k.todo
    /\ \E ok \in {TRUE, DryRun} :
          /\ Booked(c, FALSE)
          /\ FileWrite(c, ok, TRUE, k.next)
          /\ Step(t, [k EXCEPT !.todo = @ \ {c},
                               !.promoted = IF ok THEN @ + 1 ELSE @])
    /\ UNCHANGED <<truth, ledger, cooling, reason>>

(* One promotion, one priority further back whether or not it succeeds.    *)
Promote(t, c) ==
    LET k == tick[t] IN
    /\ k.pc = "promote" /\ c \in k.todo
    /\ \E ok \in {TRUE, DryRun} :
          /\ Booked(c, FALSE)
          /\ FileWrite(c, ok, TRUE, k.next)
          /\ Step(t, [k EXCEPT !.todo = @ \ {c}, !.next = @ - 1,
                               !.promoted = IF ok THEN @ + 1 ELSE @])
    /\ UNCHANGED <<truth, ledger, cooling, reason>>

(* Nothing promoted: stop.  Otherwise retireDrained counts who is live and *)
(* lists the spent members, by the readings the tick has been working from.*)
Promoted(t) ==
    LET k == tick[t] IN
    /\ k.pc = "promote" /\ k.todo = {}
    /\ \/ /\ k.promoted = 0
          /\ Finish(t, "promotion_failed")
       \/ /\ k.promoted > 0
          /\ Step(t, [k EXCEPT
                        !.pc = "drain",
                        !.live = k.promoted + Cardinality(k.enabled \ k.touched),
                        !.todo = {c \in k.enabled \ (NeverDisable \cup k.touched) :
                            MemberState(c, k.res[c]) \in {"dead", "exhausted", "draining"}}])
          /\ UNCHANGED reason
    /\ UNCHANGED <<files, world, ledger, switches>>

\* Mutant: members are retired in the order of their headroom upside down.
SeverityReversed(c, r) ==
    CASE MemberState(c, r) = "dead" -> 3
      [] MemberState(c, r) = "exhausted" -> 2
      [] r = "low" -> 1
      [] OTHER -> 0

(* retireDrained's order: dead, exhausted, then draining by headroom.      *)
Severity(c, r) ==
    CASE MemberState(c, r) = "dead" -> 0
      [] MemberState(c, r) = "exhausted" -> 1
      [] r = "low" -> 2
      [] OTHER -> 3

\* Mutant: the live count is compared the wrong side of the target.
RoomToRetireOneTooMany(k) == k.live >= KeepEnabled

RoomToRetire(k) == k.live > KeepEnabled

RetireDrained(t, c) ==
    LET k == tick[t] IN
    /\ k.pc = "drain" /\ c \in k.todo
    /\ \A d \in k.todo : Severity(c, k.res[c]) <= Severity(d, k.res[d])
    /\ RoomToRetire(k)
    /\ \E ok \in {TRUE, DryRun} :
          /\ Booked(c, TRUE)
          /\ FileWrite(c, ok, FALSE, prio[c])
          /\ Step(t, [k EXCEPT !.todo = @ \ {c}, !.live = IF ok THEN @ - 1 ELSE @])
    /\ UNCHANGED <<truth, ledger, cooling, reason>>

Rotated(t) ==
    LET k == tick[t] IN
    /\ k.pc = "drain"
    /\ k.todo = {} \/ ~RoomToRetire(k)
    /\ Finish(t, "rotated")
    /\ cooling' = TRUE
    /\ UNCHANGED <<files, world, ledger, recent, dayCount>>

-----------------------------------------------------------------------------
(* The world outside. *)

Lower(q) ==
    CASE q = "ample" -> {"ample", "low", "empty"}
      [] q = "low" -> {"pausing", "empty"}
      [] OTHER -> {q}

\* What an account can have left of what was last read of it.
LeftOf(r) ==
    CASE r \in {"empty", "pausing"} -> {r}
      [] r = "low" -> Quota \ {"ample"}
      [] OTHER -> Quota

Drift == drift < MaxDrift /\ drift' = drift + 1 /\ UNCHANGED fails

(* A request through an enabled credential: it may cost quota, many at     *)
(* once show a burn rate, and the response is a reading - or a refusal,    *)
(* which a new probe may check.                                            *)
Traffic(c) ==
    /\ Drift
    /\ host[c]
    /\ \E q \in Lower(truth[c]) :
          /\ truth' = [truth EXCEPT ![c] = q]
          /\ known' = [known EXCEPT ![c] = IF c \in pinned THEN "refused" ELSE q]
          /\ asked' = IF q = "refused" /\ known[c] # "refused" THEN asked \ {c} ELSE asked
    /\ burning' \in {burning, burning \cup {c}}
    /\ rolled' = rolled \ {c}
    /\ UNCHANGED <<files, pinned, books, tick>>

(* The account used elsewhere, or its token revoked: nobody here sees it.  *)
Elsewhere(c) ==
    /\ Drift
    /\ \E q \in Lower(truth[c]) \cup {"refused"} :
          q # truth[c] /\ truth' = [truth EXCEPT ![c] = q]
    /\ UNCHANGED <<files, ledger, books, tick>>

(* The windows reset: arithmetic (effectiveWindows) tells derive so.       *)
Reset(c) ==
    /\ Drift
    /\ truth[c] \in Quota
    /\ truth' = [truth EXCEPT ![c] = "ample"]
    /\ known' = [known EXCEPT ![c] = IF @ \in Quota THEN "ample" ELSE @]
    /\ rolled' = IF known[c] \in Quota THEN rolled \cup {c} ELSE rolled
    /\ asked' = asked \ {c}
    /\ burning' = burning \ {c}
    /\ recent' = recent \ {c}
    /\ UNCHANGED <<files, pinned, cooling, dayCount, reason, tick>>

(* A fresh login, whatever the account has left.  A refusal pinned to the  *)
(* old token goes with it, and may be asked about; one seen in traffic     *)
(* only stays until a probe outdates it.                                   *)
Login(c) ==
    /\ Drift
    /\ truth[c] = "refused" \/ c \in pinned
    /\ IF c \in pinned
       THEN Uncovered(c) /\ pinned' = pinned \ {c}
       ELSE UNCHANGED <<known, pinned, rolled>>
    /\ \E q \in LeftOf(known'[c]) :
          truth[c] \in {"refused", q} /\ truth' = [truth EXCEPT ![c] = q]
    /\ UNCHANGED <<files, asked, burning, books, tick>>

(* The file watcher catches up. *)
HostSync(c) ==
    /\ host[c] # disk[c]
    /\ host' = [host EXCEPT ![c] = disk[c]]
    /\ UNCHANGED <<disk, prio, world, ledger, books, tick>>

(* Time.  LastSwitch is when the tick that rotated began; that the gap is  *)
(* over no sooner than that tick's end, and the host's list up to date by  *)
(* then, is an assumption: the gap is minutes, the watcher's lag a moment. *)
(* A tick goes by the clock as it was when it began.                       *)
GapElapses ==
    /\ cooling
    /\ host = disk
    /\ cooling' = FALSE
    /\ tick' = [t \in Ticker |-> [tick[t] EXCEPT !.clear = FALSE]]
    /\ UNCHANGED <<files, world, ledger, recent, dayCount, reason>>

Forget(c) ==
    /\ ~cooling
    /\ c \in recent
    /\ recent' = recent \ {c}
    /\ UNCHANGED <<files, world, ledger, cooling, dayCount, reason, tick>>

(* The hour a budget without a reading is keyed to is over.                *)
HourElapses(c) ==
    /\ c \in asked
    /\ known[c] \in {"unknown", "refused"}
    /\ asked' = asked \ {c}
    /\ UNCHANGED <<files, world, known, pinned, rolled, burning, books, tick>>

(* An hour without a burst: its samples leave the horizon of the rate.     *)
Calm(c) ==
    /\ c \in burning
    /\ burning' = burning \ {c}
    /\ UNCHANGED <<files, world, known, asked, pinned, rolled, books, tick>>

(* Midnight; one in the middle of a burst is a bounded event.              *)
NewDay ==
    /\ dayCount > 0
    /\ IF burning = {} THEN UNCHANGED <<drift, fails>> ELSE Drift
    /\ dayCount' = 0
    /\ UNCHANGED <<files, truth, ledger, recent, cooling, reason, tick>>

TickStep(t) ==
    \/ \E c \in Cred : Ask(t, c)
    \/ Judge(t)
    \/ Confirmed(t)
    \/ Widened(t)
    \/ Vetted(t)
    \/ \E c \in Cred : RetireRefused(t, c)
    \/ Recount(t)
    \/ \E c \in Cred : Promote(t, c)
    \/ Promoted(t)
    \/ \E c \in Cred : RetireDrained(t, c)
    \/ Rotated(t)

Next ==
    \/ \E t \in Ticker : TickBegin(t) \/ TickStep(t)
    \/ \E c \in Cred : Traffic(c) \/ Elsewhere(c) \/ Reset(c) \/ Login(c)
                       \/ HostSync(c) \/ Forget(c) \/ HourElapses(c) \/ Calm(c)
    \/ GapElapses
    \/ NewDay

Spec == Init /\ [][Next]_vars

(***************************************************************************)
(* The ticker keeps firing and a tick returns; the host's watcher catches  *)
(* up; minutes, hours and days pass.  The world outside is free.           *)
(***************************************************************************)
Fairness ==
    /\ \A t \in Ticker : WF_vars(TickStep(t))
    /\ \A t \in Ticker \ {"rotate"} : WF_vars(TickBegin(t))
    /\ \A c \in Cred : WF_vars(HostSync(c)) /\ WF_vars(HourElapses(c))
                   /\ WF_vars(Calm(c)) /\ SF_vars(Forget(c))
    /\ SF_vars(GapElapses)
    /\ WF_vars(NewDay)

FairSpec == Spec /\ Fairness

-----------------------------------------------------------------------------
Enabled == {c \in Cred : disk[c]}

(* A step of tick t that rewrote credential c. *)
Wrote(t, c) == tick[t] # tick'[t] /\ disk'[c] # disk[c]

(* retireDrained retires "never dropping the pool below its target": after *)
(* it has switched a member off, keep_enabled files are still enabled, if  *)
(* the host's list the tick began with was up to date.                     *)
DrainKeepsTarget ==
    [][\A t \in Ticker, c \in Cred :
          (Wrote(t, c) /\ tick[t].pc = "drain" /\ tick[t].fresh) =>
              Cardinality({d \in Cred : disk'[d]}) >= KeepEnabled]_vars

(* A member that still serves is not given up while the pool keeps one the *)
(* same tick found empty or refused, was allowed to retire and could write.*)
EmptyGoesFirst ==
    [][\A t \in Ticker, c \in Cred :
          (/\ Wrote(t, c) /\ fails = 0 /\ tick[t].pc = "drain"
           /\ tick[t].res[c] \in {"low", "ample"}) =>
              \A d \in (tick[t].enabled \cap Enabled) \ (NeverDisable \cup {c}) :
                  MemberState(d, tick[t].res[d]) \notin {"dead", "exhausted"}]_vars

(* A newcomer joins the back of the queue: no enabled credential is left   *)
(* with a priority as low as the one it is given, if all could be read.    *)
NewcomerJoinsBack ==
    [][\A t \in Ticker, c \in Cred :
          (Wrote(t, c) /\ disk'[c] /\ fails = 0) =>
              \A d \in Enabled : prio'[c] < prio[d]]_vars

(* The circuit breaker bounds what one day can do: a tick let through on   *)
(* the last free change can still write each credential once, and one more *)
(* time only those whose retirement failed.                                *)
DayBudget == dayCount < MaxChanges + Cardinality(Cred) + fails

(* The pool does not stay short of members while a standby that clears the *)
(* floor is waiting.                                                       *)
Standby == {c \in Cred \ NeverEnable : ~disk[c] /\ truth[c] = "ample"
                                            /\ known[c] \in {"ample", "unknown"}}
ShortfallIsFilled ==
    (/\ Standby # {}
     /\ Cardinality({d \in Enabled : truth[d] = "ample"}) < KeepEnabled)
    ~> (\/ Cardinality({d \in Enabled : known[d] \in {"ample", "pausing"}})
              >= KeepEnabled
        \/ Standby = {})

(* A probe that "merely failed to complete" must not cost capacity:        *)
(* "retirement uses this, not alive()".                                    *)
FailureIsNotRefusal ==
    [][\A t \in Ticker, c \in Cred :
          (Wrote(t, c) /\ ~disk'[c]) => tick[t].res[c] # "failed"]_vars
=============================================================================
