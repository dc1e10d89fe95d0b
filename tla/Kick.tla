-------------------------------- MODULE Kick --------------------------------
(***************************************************************************)
(* Starting a reset window's clock (kickstart.go), for one credential.     *)
(*                                                                         *)
(* Upstream does not start a window when it is reset but at the first      *)
(* request after that, so an idle credential's window waits.  The          *)
(* rotator's tick sweeps idle credentials for such windows, queues them,   *)
(* looks again, sends a greeting, sleeps and reads the window back.  Each  *)
(* of these is a step; the panel's refresh reads the same credential from  *)
(* another goroutine, and POST /rotate runs a second tick.                 *)
(*                                                                         *)
(* A tick judges every age by the clock it read at its start, so minutes,  *)
(* hours and midnights pass between ticks.                                 *)
(***************************************************************************)
EXTENDS Integers

CONSTANTS
    Ticker,       \* callers of tick
    Refresher,    \* panel refreshes that may read this credential
    Cap,          \* kickDailyCap
    Sweeps,       \* is kickstart_sweep_minutes positive?
    MaxFail,      \* bound: looks and greetings that fail
    MaxCrash      \* bound: restarts of the proxy

ASSUME KickAssumption ==
    /\ Ticker \cap Refresher = {}
    /\ Cap \in Nat \ {0}
    /\ Sweeps \in BOOLEAN
    /\ MaxFail \in Nat /\ MaxCrash \in Nat

VARIABLES
    dryRun,    \* dry_run, as configured
    window,    \* upstream: has the longest window started?
    refused,   \* does a standing refusal keep the credential from being asked?
    due,       \* RotatorState.KickDue
    kick,      \* RotatorState.Kicks: within kickGap? how many today?
    sweepOpen, \* is the last idle sweep at least an interval old?
    early,     \* has traffic shown an early reset since the last sweep?
    seen,      \* how current the last reading is, from observedWindows
    job,       \* what each tick and refresh is doing
    saved,     \* state.json
    sent,      \* history: greetings upstream took today
    cool,      \* history: a greeting was taken within the last kickGap
    fails, crashes

vars == <<dryRun, window, refused, due, kick, sweepOpen, early, seen, job,
          saved, sent, cool, fails, crashes>>

Window == {"running", "waiting"}
Read == Window \cup {"error"}
KickMemo == [recent : BOOLEAN, today : Nat]
NoKick == [recent |-> FALSE, today |-> 0]
Persisted == [due : BOOLEAN, kick : KickMemo, sweepOpen : BOOLEAN]
Phase == {"idle", "sweep", "swept", "greet", "check", "checked", "send",
          "sent", "confirm", "refresh", "refreshed"}
Idle == [pc |-> "idle", read |-> "error", memo |-> NoKick]
\* "early": read since the early reset was noticed; "hour": within the interval.
Currency == {"early", "hour", "stale"}

TypeOK ==
    /\ window \in Window
    /\ {dryRun, refused, due, sweepOpen, early, cool} \subseteq BOOLEAN
    /\ kick \in KickMemo /\ kick.today <= Cap
    /\ seen \in Currency
    /\ job \in [Ticker \cup Refresher ->
                   [pc : Phase, read : Read, memo : KickMemo]]
    /\ saved \in Persisted
    /\ sent \in Nat
    /\ fails \in 0 .. MaxFail /\ crashes \in 0 .. MaxCrash

Init ==
    /\ dryRun \in BOOLEAN /\ window \in Window
    /\ refused = FALSE /\ due = FALSE /\ early = FALSE
    /\ sweepOpen = TRUE
    /\ seen \in {"hour", "stale"}
    /\ kick = NoKick
    /\ saved = [due |-> due, kick |-> kick, sweepOpen |-> sweepOpen]
    /\ job = [j \in Ticker \cup Refresher |-> Idle]
    /\ sent = 0 /\ cool = FALSE
    /\ fails = 0 /\ crashes = 0

-----------------------------------------------------------------------------
At(j, phase) == job[j].pc = phase
Goto(j, phase) == job' = [job EXCEPT ![j].pc = phase]
Done(j) == job' = [job EXCEPT ![j] = Idle]

(* look: what the usage endpoint says, at this moment. *)
Looked(j, phase) ==
    \E r \in {window} \cup (IF fails < MaxFail THEN {"error"} ELSE {}) :
        /\ job' = [job EXCEPT ![j].pc = phase, ![j].read = r]
        /\ fails' = IF r = "error" THEN fails + 1 ELSE fails

(* settle: a reading that shows the window reset and not started marks it, *)
(* and any reading is as current as readings get.                          *)
Settled(j) ==
    /\ due' = (due \/ job[j].read = "waiting")
    /\ seen' = IF job[j].read = "error" THEN seen ELSE "early"

upstream == <<dryRun, window, sent, cool>>
outside == <<upstream, fails>>

\* Mutant: only an early reset starts a sweep, the interval does not.
SweepDueEarlyOnly == early

(* sweepDue and the head of sweepIdle. *)
SweepDue == early \/ (Sweeps /\ sweepOpen)
Current == IF early THEN seen = "early" ELSE seen # "stale"

TickBegin(t) ==
    /\ At(t, "idle")
    /\ IF SweepDue
       THEN /\ sweepOpen' = FALSE
            /\ early' = FALSE
            /\ Goto(t, IF refused \/ Current THEN "greet" ELSE "sweep")
       ELSE /\ Goto(t, "greet")
            /\ UNCHANGED <<sweepOpen, early>>
    /\ UNCHANGED <<outside, refused, due, kick, seen, saved, crashes>>

SweepLook(t) ==
    /\ At(t, "sweep")
    /\ Looked(t, "swept")
    /\ UNCHANGED <<upstream, refused, due, kick, sweepOpen, early, seen, saved,
                   crashes>>

SweepSettle(t) ==
    /\ At(t, "swept")
    /\ Settled(t)
    /\ Goto(t, "greet")
    /\ UNCHANGED <<outside, refused, kick, sweepOpen, early, saved, crashes>>

\* Mutant: no daily cap.
GreetUncapped(t) ==
    /\ At(t, "greet")
    /\ IF due /\ ~refused /\ ~kick.recent
       THEN job' = [job EXCEPT ![t].pc = "check", ![t].memo = kick]
       ELSE Done(t)
    /\ due' = (due /\ ~refused)
    /\ UNCHANGED <<outside, refused, kick, sweepOpen, early, seen, saved,
                   crashes>>

(* greet: a refused credential is taken off the queue; one greeted within  *)
(* the gap, or Cap times today, waits.                                     *)
Greet(t) ==
    /\ At(t, "greet")
    /\ IF due /\ ~refused /\ ~kick.recent /\ kick.today < Cap
       THEN job' = [job EXCEPT ![t].pc = "check", ![t].memo = kick]
       ELSE Done(t)
    /\ due' = (due /\ ~refused)
    /\ UNCHANGED <<outside, refused, kick, sweepOpen, early, seen, saved,
                   crashes>>

CheckLook(t) ==
    /\ At(t, "check")
    /\ Looked(t, "checked")
    /\ UNCHANGED <<upstream, refused, due, kick, sweepOpen, early, seen, saved,
                   crashes>>

\* What greet and confirm write down: the memo they started from, plus one.
Kicked(t) == [recent |-> TRUE, today |-> job[t].memo.today + 1]

(* greet, after its look: on to the greeting, if the window still waits.   *)
CheckSettle(t) ==
    /\ At(t, "checked")
    /\ seen' = IF job[t].read = "error" THEN seen ELSE "early"
    /\ CASE job[t].read = "error" ->
              Done(t) /\ UNCHANGED <<due, kick>>
         [] job[t].read = "running" ->
              Done(t) /\ due' = FALSE /\ UNCHANGED kick
         [] job[t].read = "waiting" /\ dryRun ->
              Done(t) /\ due' = FALSE /\ kick' = Kicked(t)
         [] job[t].read = "waiting" /\ ~dryRun ->
              Goto(t, "send") /\ due' = TRUE /\ UNCHANGED kick
    /\ UNCHANGED <<outside, refused, sweepOpen, early, saved, crashes>>

(* greet sends; the bookkeeping of one that went out waits for confirm.    *)
SendTaken(t) ==
    /\ At(t, "send")
    /\ window' = "running"
    /\ sent' = sent + 1
    /\ cool' = TRUE
    /\ Goto(t, "sent")
    /\ UNCHANGED <<dryRun, refused, due, kick, sweepOpen, early, seen, saved,
                   fails, crashes>>

\* Mutant: a greeting that failed is not written down.
SendFailedUnsaved(t) ==
    /\ At(t, "send") /\ fails < MaxFail
    /\ fails' = fails + 1
    /\ \E took \in BOOLEAN :
          /\ window' = IF took THEN "running" ELSE window
          /\ sent' = IF took THEN sent + 1 ELSE sent
          /\ cool' = (cool \/ took)
    /\ Done(t)
    /\ UNCHANGED <<dryRun, refused, due, kick, sweepOpen, early, seen, saved,
                   crashes>>

(* greet's fail: no credential, no answer - upstream may have taken it all *)
(* the same - or not a 2xx.  Counted, and still due.                       *)
SendFailed(t) ==
    /\ At(t, "send") /\ fails < MaxFail
    /\ fails' = fails + 1
    /\ \E took \in BOOLEAN :
          /\ window' = IF took THEN "running" ELSE window
          /\ sent' = IF took THEN sent + 1 ELSE sent
          /\ cool' = (cool \/ took)
    /\ kick' = Kicked(t)
    /\ Done(t)
    /\ UNCHANGED <<dryRun, refused, due, sweepOpen, early, seen, saved,
                   crashes>>

ConfirmLook(t) ==
    /\ At(t, "sent")
    /\ Looked(t, "confirm")
    /\ UNCHANGED <<upstream, refused, due, kick, sweepOpen, early, seen, saved,
                   crashes>>

(* confirm: settled, saved whatever it says, and off the queue if started. *)
Confirm(t) ==
    /\ At(t, "confirm")
    /\ seen' = IF job[t].read = "error" THEN seen ELSE "early"
    /\ due' = CASE job[t].read = "error" -> due
                [] job[t].read = "waiting" -> TRUE
                [] job[t].read = "running" -> FALSE
    /\ kick' = Kicked(t)
    /\ Done(t)
    /\ UNCHANGED <<outside, refused, sweepOpen, early, saved, crashes>>

(* refreshAll, for this credential. *)
RefreshLook(r) ==
    /\ At(r, "idle") /\ ~refused
    /\ Looked(r, "refreshed")
    /\ UNCHANGED <<upstream, refused, due, kick, sweepOpen, early, seen, saved,
                   crashes>>

RefreshSettle(r) ==
    /\ At(r, "refreshed")
    /\ Settled(r)
    /\ Done(r)
    /\ UNCHANGED <<outside, refused, kick, sweepOpen, early, saved, crashes>>

-----------------------------------------------------------------------------
(* Upstream, traffic and the operator. *)

(* The period ends, or upstream resets the account. *)
Reset ==
    /\ window = "running"
    /\ window' = "waiting"
    /\ seen' = IF seen = "early" THEN "hour" ELSE seen
    /\ UNCHANGED <<dryRun, refused, due, kick, sweepOpen, early, job, saved,
                   sent, cool, fails, crashes>>

(* Another credential's traffic shows a reset arriving early. *)
EarlyReset ==
    /\ ~early
    /\ early' = TRUE
    /\ seen' = IF seen = "early" THEN "hour" ELSE seen
    /\ UNCHANGED <<dryRun, window, refused, due, kick, sweepOpen, job, saved,
                   sent, cool, fails, crashes>>

(* A request served through the credential starts its window. *)
Serve ==
    /\ ~refused
    /\ window' = "running"
    /\ seen' = "early"
    /\ UNCHANGED <<dryRun, refused, due, kick, sweepOpen, early, job, saved,
                   sent, cool, fails, crashes>>

Refuse ==
    /\ refused' = ~refused
    /\ UNCHANGED <<dryRun, window, due, kick, sweepOpen, early, seen, job,
                   saved, sent, cool, fails, crashes>>

BetweenTicks == \A t \in Ticker : At(t, "idle")

GapElapses ==
    /\ BetweenTicks
    /\ kick.recent \/ cool \/ saved.kick.recent
    /\ kick' = [kick EXCEPT !.recent = FALSE]
    /\ saved' = [saved EXCEPT !.kick.recent = FALSE]
    /\ cool' = FALSE
    /\ UNCHANGED <<dryRun, window, refused, due, sweepOpen, early, seen, job,
                   sent, fails, crashes>>

IntervalElapses ==
    /\ BetweenTicks
    /\ sweepOpen' = TRUE
    /\ saved' = [saved EXCEPT !.sweepOpen = TRUE]
    /\ seen' = "stale"
    /\ UNCHANGED <<dryRun, window, refused, due, kick, early, job, sent, cool,
                   fails, crashes>>

NewDay ==
    /\ BetweenTicks
    /\ kick' = [kick EXCEPT !.today = 0]
    /\ saved' = [saved EXCEPT !.kick.today = 0]
    /\ sent' = 0
    /\ UNCHANGED <<dryRun, window, refused, due, sweepOpen, early, seen, job,
                   cool, fails, crashes>>

(* Flush's snapshot, and a restart from it. *)
Flush ==
    /\ crashes < MaxCrash
    /\ saved' = [due |-> due, kick |-> kick, sweepOpen |-> sweepOpen]
    /\ UNCHANGED <<dryRun, window, refused, due, kick, sweepOpen, early, seen,
                   job, sent, cool, fails, crashes>>

Crash ==
    /\ crashes < MaxCrash
    /\ crashes' = crashes + 1
    /\ due' = saved.due /\ kick' = saved.kick /\ sweepOpen' = saved.sweepOpen
    /\ early' = FALSE
    /\ seen' = "stale"
    /\ job' = [j \in Ticker \cup Refresher |-> Idle]
    /\ UNCHANGED <<dryRun, window, refused, saved, sent, cool, fails>>

TickStep(t) ==
    \/ SweepLook(t)
    \/ SweepSettle(t)
    \/ Greet(t)
    \/ CheckLook(t)
    \/ CheckSettle(t)
    \/ SendTaken(t)
    \/ SendFailed(t)
    \/ ConfirmLook(t)
    \/ Confirm(t)

Next ==
    \/ \E t \in Ticker : TickBegin(t) \/ TickStep(t)
    \/ \E r \in Refresher : RefreshLook(r) \/ RefreshSettle(r)
    \/ Reset
    \/ EarlyReset
    \/ Serve
    \/ Refuse
    \/ GapElapses
    \/ IntervalElapses
    \/ NewDay
    \/ Flush
    \/ Crash

Spec == Init /\ [][Next]_vars

(***************************************************************************)
(* The loop's ticker fires and its ticks return; minutes, hours and days   *)
(* pass, between ticks since a tick ends.  Nothing obliges the panel,      *)
(* traffic or upstream.                                                    *)
(***************************************************************************)
Fairness ==
    /\ \A t \in Ticker : WF_vars(TickStep(t))
    /\ \A t \in Ticker \ {"rotate"} : WF_vars(TickBegin(t))
    /\ SF_vars(GapElapses) /\ SF_vars(IntervalElapses) /\ SF_vars(NewDay)

FairSpec == Spec /\ Fairness

-----------------------------------------------------------------------------
(* README: a greeting that did not take "is retried after 30 minutes, at   *)
(* most 3 times a day": no greeting reaches upstream within the gap of the *)
(* previous one, and no more than Cap do in a day, unless a restart forgot *)
(* one that no flush had written.                                          *)
GreetingsBounded ==
    [][sent' > sent => (~cool /\ sent < Cap) \/ crashes > 0]_vars

(* "kickstart_after_reset": a reset window does not wait for ever, however *)
(* it came about, as long as greetings are taken sooner or later.          *)
WaitingIsStarted ==
    window = "waiting" ~> (window = "running" \/ refused \/ dryRun)
=============================================================================
