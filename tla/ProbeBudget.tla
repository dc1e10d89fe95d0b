----------------------------- MODULE ProbeBudget -----------------------------
(***************************************************************************)
(* How often upstream is asked about one credential (rotator.go: derive,   *)
(* probeAllowed, ask, settle, refreshAll, readMany).                       *)
(*                                                                         *)
(* A tick works out the credential's windows from the newest stored        *)
(* reading, asks upstream again if the clock has passed a reset, and may   *)
(* ask at three later stages; each ask must be allowed by the memo of the  *)
(* last probe, which settle reads and writes back in two critical          *)
(* sections.  A panel refresh is a reading that books nothing.             *)
(***************************************************************************)
EXTENDS Windows

CONSTANTS
    Panel,       \* workers of a panel refresh
    Window,      \* windows of the credential
    Period,      \* the length of each
    Hour, Day,   \* their lengths
    Cap,         \* max_probes_per_day_per_credential
    Gap,         \* refreshGap
    MaxNow,      \* bound: the clock
    MaxMishaps   \* bound: asks that get no answer, tokens refused, requests served

ASSUME ProbeAssumption ==
    /\ "tick" \notin Panel
    /\ Window # {} /\ Period \in [Window -> Nat]
    /\ Hour \in Nat \ {0} /\ Day \in Nat \ {0}
    /\ Cap \in Nat \ {0} /\ Gap \in Nat
    /\ MaxNow \in Nat \ {0} /\ MaxMishaps \in Nat

VARIABLES
    now,       \* the clock; it starts at 1, as 0 stands for "never"
    ends,      \* upstream: when each window ends; it waits to start once passed
    refusing,  \* upstream: is the token on disk refused?
    probe,     \* rotator.probes: the last probe's reading
    traffic,   \* the ledger's windows: the last response's or probe's reading
    memo,      \* RotatorState.Probes
    pinned,    \* is memo's fingerprint that of the token on disk?
    barred,    \* ModelHealth: when a request was last refused, 0 if lifted
    asking,    \* the tick and the refreshes in progress
    mishaps,   \* changes of the world and failures so far
    booked,    \* history: asks of each day, but for the one a new login is due
    last,      \* history: when the tick began whose resync was last answered
    clean      \* history: has nothing been written over that should have counted?

probeVars == <<now, ends, refusing, probe, traffic, memo, pinned, barred, asking,
               mishaps, booked, last, clean>>

Actor == Panel \cup {"tick"}
Unread == [w \in {} |-> 0]
NoReading == [at |-> 0, win |-> Unread]
NoMemo == [at |-> 0, day |-> 0, count |-> 0, epoch |-> 0, rejected |-> FALSE]
Booking(m) == <<m.day, m.count, m.epoch>>
Stage == {"resync", "judge", "vet"}
Idle == [pc |-> "idle", stage |-> "resync", now |-> 0, win |-> Unread, over |-> {}]
DayOf(t) == t \div Day

Win == {Unread} \cup [Window -> Nat]
Memo == [at : Nat, day : Nat, count : Nat, epoch : Nat, rejected : BOOLEAN]
Job == [pc : {"idle", "ask"}, stage : Stage, now : Nat, win : Win,
        over : SUBSET Nat]   \* the boundaries the clock has passed
Answer == [status : {"ok", "refused", "failed"}, at : Nat, win : Win]
Asked == [pc : {"answered", "settle"}, stage : Stage, now : Nat, win : Win,
          answer : Answer, prev : Nat \X Nat \X Nat]

ProbeTypeOK ==
    /\ now \in 1 .. MaxNow
    /\ ends \in [Window -> Nat]
    /\ refusing \in BOOLEAN /\ pinned \in BOOLEAN
    /\ barred \in 0 .. MaxNow
    /\ {probe, traffic} \subseteq [at : Nat, win : Win]
    /\ memo \in Memo
    /\ asking \in [Actor -> Job \cup Asked]
    /\ mishaps \in 0 .. MaxMishaps
    /\ booked \in [0 .. DayOf(MaxNow) -> Nat]
    /\ last \in 0 .. MaxNow /\ clean \in BOOLEAN

ProbeInit ==
    /\ now = 1
    /\ ends = [w \in Window |-> 0]
    /\ refusing = FALSE
    /\ probe = NoReading
    /\ traffic = NoReading
    /\ memo = NoMemo /\ pinned = FALSE /\ barred = 0
    /\ asking = [a \in Actor |-> Idle]
    /\ mishaps = 0
    /\ booked = [d \in 0 .. DayOf(MaxNow) |-> 0]
    /\ last = 0
    /\ clean = TRUE

-----------------------------------------------------------------------------
(* rejectionStands *)
RejectionStands == memo.rejected /\ pinned

(* derive's choice between the two stored readings.                        *)
Stored ==
    IF probe.win # Unread /\ (traffic.at = 0 \/ probe.at >= traffic.at)
    THEN probe ELSE traffic

(* probeAllowed, for a tick that began at t and works from win.            *)
ProbeAllowed(win, t) ==
    \/ memo = NoMemo
    \/ memo.rejected /\ ~RejectionStands
    \/ /\ ~memo.rejected
       /\ ~(memo.day = DayOf(t) /\ memo.count >= Cap)
       /\ ~(memo.epoch > 0 /\ memo.epoch = ProbeEpoch(win, t, Hour))

Set(a, j) == asking' = [asking EXCEPT ![a] = j]
world == <<now, ends, refusing>>
readings == <<probe, traffic, memo, pinned>>
ledgers == <<readings, barred>>
history == <<booked, last, clean>>

Mishap == mishaps < MaxMishaps /\ mishaps' = mishaps + 1

(* reconcileRejections: what ends a refusal of traffic.                    *)
Reconciled ==
    \/ memo.rejected /\ ~RejectionStands
    \/ memo # NoMemo /\ ~memo.rejected /\ memo.at > barred

(* The head of tick and derive.  Refused in traffic and not reconciled, or *)
(* by a probe whose refusal stands, a credential has no windows.           *)
Derive ==
    LET win == IF RejectionStands \/ barred' # 0 THEN Unread ELSE Stored.win IN
    /\ asking["tick"].pc = "idle"
    /\ barred' = IF Reconciled THEN 0 ELSE barred
    /\ Set("tick", [Idle EXCEPT
                      !.pc = "ask", !.now = now,
                      !.win = EffectiveWindows(win, Period, now),
                      !.over = Boundaries(win, Period, now)])
    /\ UNCHANGED <<world, readings, mishaps, history>>

(* The stages of a tick: the resync asks about windows the clock has       *)
(* rolled over; a member thought spent is confirmed, or a standby nothing  *)
(* has reported on looked at; a replacement is asked before it serves.     *)
Concerns(j) == j.stage = "resync" => j.over # {}
Following(stage) == IF stage = "resync" THEN "judge" ELSE "vet"

(* A stage passes over the credential, or the tick ends: whether the pool  *)
(* needs it is the Pool module's business, but the resync always asks.     *)
Pass ==
    LET j == asking["tick"] IN
    /\ j.pc = "ask"
    /\ ~(j.stage = "resync" /\ Concerns(j) /\ ProbeAllowed(j.win, j.now))
    /\ \/ Set("tick", Idle)
       \/ /\ j.stage # "vet"
          /\ Set("tick", [j EXCEPT !.stage = Following(@)])
    /\ UNCHANGED <<world, ledgers, mishaps, history>>

(* What upstream says of its windows: one that waits for its first request *)
(* is reported with its last boundary, or with the whole period to run.    *)
Usage ==
    {u \in [Window -> 1 .. now + Max({Period[w] : w \in Window})] :
        \A w \in Window : u[w] \in IF ends[w] > now THEN {ends[w]}
                                   ELSE {ends[w], now + Period[w]}}

(* probe or look: upstream answers, refuses, or neither.                   *)
Look(a, j) ==
    \E ans \in [status : {"refused", "failed"}, at : {now}, win : {Unread}]
               \cup [status : {"ok"}, at : {now}, win : Usage] :
        /\ IF ans.status = "failed" THEN Mishap
           ELSE /\ refusing <=> ans.status = "refused"
                /\ UNCHANGED mishaps
        /\ Set(a, [pc |-> "answered", stage |-> j.stage, now |-> j.now, win |-> j.win,
                   answer |-> ans, prev |-> <<0, 0, 0>>])

Ask ==
    LET j == asking["tick"] IN
    /\ j.pc = "ask"
    /\ Concerns(j)
    /\ ProbeAllowed(j.win, j.now)
    /\ Look("tick", j)
    /\ booked' = IF memo.rejected \/ ~clean THEN booked
                 ELSE [booked EXCEPT ![DayOf(j.now)] = @ + 1]
    /\ UNCHANGED <<world, ledgers, last, clean>>

(* refreshAll: a standing refusal and a read just made are left alone, the *)
(* daily count and the cycle are not looked at.                            *)
RefreshAll(a) ==
    /\ asking[a].pc = "idle"
    /\ ~RejectionStands
    /\ memo = NoMemo \/ now - memo.at >= Gap
    /\ Look(a, [Idle EXCEPT !.now = now])
    /\ UNCHANGED <<world, ledgers, history>>

(* settle, first critical section: the memo as it is.                      *)
SettleRead(a) ==
    /\ asking[a].pc = "answered"
    /\ Set(a, [asking[a] EXCEPT !.pc = "settle", !.prev = Booking(memo)])
    /\ UNCHANGED <<world, ledgers, mishaps, history>>

\* Mutant: the reading is filed with the boundary upstream gave.
FreshRaw(j) == j.answer.win

(* settle rolls the reading before anything reads it.                      *)
Fresh(j) == EffectiveWindows(j.answer.win, Period, j.now)

(* The memo settle makes of the answer and of the memo it read.            *)
SettledMemo(a, j) ==
    [at |-> j.now,
     day |-> DayOf(j.now),
     count |-> (IF j.prev[1] = DayOf(j.now) THEN j.prev[2] ELSE 0)
               + IF a = "tick" THEN 1 ELSE 0,
     epoch |-> IF a # "tick" THEN j.prev[3]
               ELSE ProbeEpoch(IF Fresh(j) # Unread THEN Fresh(j) ELSE j.win, j.now, Hour),
     rejected |-> j.answer.status = "refused"]

(* Has the settling of a's answer gone by what it read: nobody booked an   *)
(* ask or read upstream meanwhile, or is at work on another day's count?   *)
Undisturbed(a) ==
    /\ Booking(memo) = asking[a].prev
    /\ probe.at <= asking[a].answer.at
    /\ \A b \in Actor : asking[b].pc # "idle" => DayOf(asking[b].now) = DayOf(asking[a].now)

(* settle, second critical section, and what follows it: the whole memo is *)
(* written, whatever became of the one it was made from; the ledger has    *)
(* the reading, and an answer lifts a refusal of traffic.                  *)
SettleWrite(a) ==
    LET j == asking[a] IN
    /\ j.pc = "settle"
    /\ memo' = SettledMemo(a, j)
    /\ pinned' = (j.answer.status = "refused")
    /\ barred' = IF j.answer.status = "ok" THEN 0 ELSE barred
    /\ probe' = IF j.answer.status = "failed" THEN probe
                ELSE [at |-> j.answer.at, win |-> Fresh(j)]
    /\ traffic' = IF Fresh(j) = Unread THEN traffic ELSE [at |-> j.now, win |-> Fresh(j)]
    /\ Set(a, IF a # "tick" \/ j.stage = "vet" THEN Idle
              ELSE [Idle EXCEPT !.pc = "ask", !.stage = Following(j.stage),
                                   !.now = j.now, !.win = Fresh(j)])
    /\ clean' = (clean /\ Undisturbed(a))
    /\ booked' = IF clean' THEN booked ELSE [d \in DOMAIN booked |-> 0]
    /\ last' = CASE ~clean' -> 0
                 [] clean' /\ a = "tick" /\ j.stage = "resync" /\ j.answer.status = "ok" ->
                      j.now
                 [] OTHER -> last
    /\ UNCHANGED <<world, mishaps>>

(* A request is served: a window that waited starts, the response carries  *)
(* a reading of all of them, and what was refused before is forgotten.     *)
Traffic ==
    /\ ~refusing
    /\ Mishap
    /\ ends' = [w \in Window |-> IF ends[w] > now THEN ends[w] ELSE now + Period[w]]
    /\ traffic' = [at |-> now, win |-> ends']
    /\ barred' = 0
    /\ UNCHANGED <<now, refusing, probe, memo, pinned, asking, history>>

(* A request is refused, and recordHealth notes when.                      *)
RequestRefused ==
    /\ refusing
    /\ barred' = now
    /\ UNCHANGED <<world, readings, asking, mishaps, history>>

(* Upstream stops accepting the token; the operator logs in again.         *)
Revoke ==
    /\ ~refusing
    /\ Mishap
    /\ refusing' = TRUE
    /\ UNCHANGED <<now, ends, ledgers, asking, history>>

NewLogin ==
    /\ refusing
    /\ refusing' = FALSE
    /\ pinned' = FALSE
    /\ UNCHANGED <<now, ends, probe, traffic, memo, barred, asking, mishaps, history>>

Wait ==
    /\ now < MaxNow
    /\ now' = now + 1
    /\ UNCHANGED <<ends, refusing, ledgers, asking, mishaps, history>>

ProbeNext ==
    \/ Derive \/ Pass \/ Ask
    \/ \E a \in Panel : RefreshAll(a)
    \/ \E a \in Actor : SettleRead(a) \/ SettleWrite(a)
    \/ Traffic \/ RequestRefused \/ Revoke \/ NewLogin \/ Wait

ProbeSpec == ProbeInit /\ [][ProbeNext]_probeVars

-----------------------------------------------------------------------------
(* "the budget makes it at most once per boundary": once a resync has been *)
(* answered, no other is made for a boundary that had passed by then; and  *)
(* no day sees more asks than max_probes_per_day_per_credential, apart     *)
(* from the look a new login is due; while no panel refresh and ask have   *)
(* overlapped in their books.                                              *)
ProbesBounded ==
    [][(asking["tick"].pc = "ask" /\ asking'["tick"].pc = "answered" /\ clean) =>
          LET j == asking["tick"] IN
          /\ booked'[DayOf(j.now)] <= Cap
          /\ j.stage = "resync" => \A b \in j.over : b > last]_probeVars
=============================================================================
