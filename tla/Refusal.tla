------------------------------ MODULE Refusal ------------------------------
(***************************************************************************)
(* The life of a refusal, for one credential: how a 401/403 is recorded,   *)
(* pinned to the token it was about, expired and cleared.                  *)
(*                                                                         *)
(*   health.go        recordHealth        what served traffic writes down  *)
(*   rotator_view.go  trafficRejection, clearRejection                     *)
(*   rotator.go       reconcileRejections, derive, probeAllowed, settle,   *)
(*                    retireRejected, pinRejection, rejectionStands        *)
(*   store.go         Flush and loadState, which carry both ledgers over   *)
(*                    a restart                                            *)
(*                                                                         *)
(* Tokens are numbered in the order they were issued; a fingerprint is the *)
(* number of the token it is a hash of, 0 when there is none.  A request   *)
(* and a probe meet upstream when they are sent; what they learned is      *)
(* recorded later, when anything may have happened in between.             *)
(***************************************************************************)
EXTENDS Integers, FiniteSets

CONSTANTS
    Model,         \* models the credential serves: one health record each
    Refresher,     \* concurrent panel refreshes (readMany workers)
    MaxToken,      \* bound: logins
    MaxTime,       \* bound: seconds of the clock
    MaxCrash,      \* bound: restarts of the proxy
    MaxFail,       \* bound: probes that end in neither a 2xx nor a refusal
    MaxUnread      \* bound: times the credential file could not be read

ASSUME RefusalAssumption ==
    /\ MaxToken \in Nat \ {0} /\ MaxTime \in Nat \ {0}
    /\ MaxCrash \in Nat /\ MaxFail \in Nat /\ MaxUnread \in Nat
    /\ "tick" \notin Refresher

VARIABLES
    now,        \* the clock, in the seconds both ledgers are stamped in
    token,      \* access token in the credential file
    revoked,    \* tokens upstream has stopped accepting
    enabled,    \* the credential's disabled flag, negated
    wire,       \* requests answered by upstream and not yet recorded
    health,     \* ModelHealth: Rejected and RejectedAt per model
    memo,       \* RotatorState.Probes entry
    probe,      \* probes in progress, the tick's and the refreshers'
    tick,       \* the tick in progress: step, its `now`, its verdict
    saved,      \* state.json
    crashes,    \* restarts so far
    fails,      \* probes that failed so far
    unread,     \* times the credential could not be read so far
    told,       \* history: tokens a probe was told are refused, with no other
                \* probe under way that could have the last word
    hasty       \* history: has a login come in the middle of a request, a
                \* probe or a tick, or before a refused member was retired;
                \* or a tick judged a token that it could not read?

history == <<told, hasty>>
vars == <<now, token, revoked, enabled, wire, health, memo, probe, tick,
          saved, crashes, fails, unread, history>>

Token == 1 .. MaxToken
Time == 1 .. MaxTime
Never == 0
NoPrint == 0
Prober == Refresher \cup {"tick"}

\* rejectedAt is Never while Rejected is false; about is the token refused,
\* which the code does not keep.
Health == [rejectedAt : Time \cup {Never}, about : Token \cup {NoPrint}]
Memo == [at : Time \cup {Never}, rejected : BOOLEAN, fp : Token \cup {NoPrint}]
Answer == {"served", "refused", "failed"}
Request == [model : Model, tok : Token, ok : BOOLEAN]
ProbeState == [pc : {"idle", "answered", "clearing"}, at : Time \cup {Never},
               tok : Token \cup {NoPrint}, ans : Answer]
TickState == [pc : {"idle", "judged", "asking", "decided", "pinning"},
              at : Time \cup {Never},
              verdict : {"dead", "serviceable", "failed"}]

CleanHealth == [rejectedAt |-> Never, about |-> NoPrint]
NoMemo == [at |-> Never, rejected |-> FALSE, fp |-> NoPrint]
IdleProbe == [pc |-> "idle", at |-> Never, tok |-> NoPrint, ans |-> "failed"]
IdleTick == [pc |-> "idle", at |-> Never, verdict |-> "serviceable"]

TypeOK ==
    /\ now \in Time
    /\ token \in Token
    /\ revoked \subseteq Token
    /\ enabled \in BOOLEAN
    /\ wire \subseteq Request
    /\ health \in [Model -> Health]
    /\ memo \in Memo
    /\ probe \in [Prober -> ProbeState]
    /\ tick \in TickState
    /\ saved \in [health : [Model -> Health], memo : Memo]
    /\ crashes \in 0 .. MaxCrash
    /\ fails \in 0 .. MaxFail
    /\ unread \in 0 .. MaxUnread
    /\ told \subseteq Token
    /\ hasty \in BOOLEAN

Init ==
    /\ now = 1
    /\ token = 1
    /\ revoked = {}
    /\ enabled = TRUE
    /\ wire = {}
    /\ health = [m \in Model |-> CleanHealth]
    /\ memo = NoMemo
    /\ probe = [p \in Prober |-> IdleProbe]
    /\ tick = IdleTick
    /\ saved = [health |-> health, memo |-> memo]
    /\ crashes = 0 /\ fails = 0 /\ unread = 0
    /\ told = {} /\ hasty = FALSE

-----------------------------------------------------------------------------
(* Reading the two ledgers. *)

HasMemo == memo.at # Never
Rejections(h) == {m \in Model : h[m].rejectedAt # Never}

(* trafficRejection: the newest refusal of any model, and when it was. *)
TrafficRejected(h) == Rejections(h) # {}
RejectedAt(h) ==
    CHOOSE t \in {h[m].rejectedAt : m \in Rejections(h)} :
        \A m \in Rejections(h) : h[m].rejectedAt <= t

\* Mutant: once a refusal is known it is honoured whatever token is on disk.
StandsForGood(read) == memo.rejected

(* rejectionStands: a refusal describes the token it is pinned to; without *)
(* a fingerprint, or while the token on disk cannot be read, it stands.    *)
RejectionStands(read) ==
    memo.rejected /\ (memo.fp = NoPrint \/ ~read \/ memo.fp = token)

(* probeAllowed, the clauses that concern refusals; who cannot read the    *)
(* token of a refused credential does not ask.                             *)
ProbeAllowed == ~memo.rejected \/ ~RejectionStands(TRUE)

(* clearRejection: the refusal is lifted from every model.             *)
ClearRejection(h) ==
    [m \in Model |-> CleanHealth]

(* reconcileRejections: a replaced token or a later probe ends a refusal. *)
Reconciled(h, read) ==
    IF TrafficRejected(h) /\
       \/ memo.rejected /\ ~RejectionStands(read)
       \/ HasMemo /\ ~memo.rejected /\ memo.at > RejectedAt(h)
    THEN ClearRejection(h) ELSE h

(* derive: a refusal in traffic outranks everything but a later probe that *)
(* was not itself refused; then the probe ledger's own refusal.            *)
Verdict(h, read) ==
    IF \/ /\ TrafficRejected(h)
          /\ ~HasMemo \/ memo.rejected \/ memo.at <= RejectedAt(h)
       \/ RejectionStands(read)
    THEN "dead" ELSE "serviceable"

-----------------------------------------------------------------------------
(* Traffic, upstream and the operator. *)

(* The host routes a request to an enabled credential; one per model is in *)
(* flight (bound).                                                         *)
Send(m) ==
    /\ enabled
    /\ \A r \in wire : r.model # m
    /\ wire' = wire \cup {[model |-> m, tok |-> token, ok |-> token \notin revoked]}
    /\ UNCHANGED <<now, token, revoked, enabled, health, memo, probe, tick,
                   saved, crashes, fails, unread, history>>

(* HandleUsage -> recordHealth, for an answer that arrived. *)
RecordHealth(r) ==
    /\ r \in wire
    /\ wire' = wire \ {r}
    /\ health' = [health EXCEPT ![r.model] =
            IF r.ok THEN CleanHealth ELSE [rejectedAt |-> now, about |-> r.tok]]
    /\ UNCHANGED <<now, token, revoked, enabled, memo, probe, tick, saved,
                   crashes, fails, unread, history>>

Revoke ==
    /\ token \notin revoked
    /\ revoked' = revoked \cup {token}
    /\ UNCHANGED <<now, token, enabled, wire, health, memo, probe, tick, saved,
                   crashes, fails, unread, history>>

(* A login replaces the token in the credential file, whoever is using it. *)
Login ==
    /\ token < MaxToken
    /\ token' = token + 1
    /\ hasty' = \/ hasty
                \/ tick.pc # "idle"
                \/ wire # {}
                \/ \E p \in Prober : probe[p].pc # "idle"
                \/ enabled /\ (TrafficRejected(health) \/ RejectionStands(TRUE))
    /\ UNCHANGED <<now, revoked, enabled, wire, health, memo, probe, tick,
                   saved, crashes, fails, unread, told>>

ClockTick ==
    /\ now < MaxTime
    /\ now' = now + 1
    /\ UNCHANGED <<token, revoked, enabled, wire, health, memo, probe, tick,
                   saved, crashes, fails, unread, history>>

-----------------------------------------------------------------------------
(* Probes: the request, then settle, then the clearing of a refusal. *)

\* So many readings of the credential fail in this step.
Unread(n) == unread + n <= MaxUnread /\ unread' = unread + n

AnswerTo(t) == {IF t \in revoked THEN "refused" ELSE "served"} \cup
               (IF fails < MaxFail THEN {"failed"} ELSE {})

Asked(p, at) ==
    \E a \in AnswerTo(token) :
        /\ probe' = [probe EXCEPT ![p] =
                        [pc |-> "answered", at |-> at, tok |-> token, ans |-> a]]
        /\ fails' = IF a = "failed" THEN fails + 1 ELSE fails

(* refreshAll and readMany: manual, so past the budget, but not past a     *)
(* standing refusal and not within refreshGap of the last reading.         *)
RefreshSend(p) ==
    /\ probe[p].pc = "idle"
    /\ ProbeAllowed
    /\ memo.at < now
    /\ Asked(p, now)
    /\ UNCHANGED <<now, token, revoked, enabled, wire, health, memo, tick,
                   saved, crashes, unread, history>>

\* Mutant: the fingerprint of a refusal is not written down.
MemoUnpinned(p, read) ==
    [at |-> probe[p].at, rejected |-> FALSE, fp |-> NoPrint]

\* Mutant: the memo is stamped with the end of the cycle it opens.
MemoAhead(p, read) ==
    LET refused == probe[p].ans = "refused"
    IN  [at |-> probe[p].at + 1, rejected |-> refused,
         fp |-> IF refused THEN token ELSE NoPrint]

(* settle writes a whole new memo; a refusal is pinned to the token that   *)
(* is on disk now, if it can be read.                                      *)
MemoOf(p, read) ==
    LET refused == probe[p].ans = "refused"
    IN  [at |-> probe[p].at, rejected |-> refused,
         fp |-> IF refused /\ read THEN token ELSE NoPrint]

Settle(p) ==
    /\ probe[p].pc = "answered"
    /\ \/ memo' = MemoOf(p, TRUE) /\ UNCHANGED unread
       \/ probe[p].ans = "refused" /\ memo' = MemoOf(p, FALSE) /\ Unread(1)
    /\ told' = IF /\ probe[p].ans = "refused"
                  /\ \A q \in Prober \ {p} : probe[q].pc = "idle"
               THEN told \cup {probe[p].tok} ELSE told
    /\ probe' = [probe EXCEPT ![p] =
            IF @.ans = "served" THEN [@ EXCEPT !.pc = "clearing"] ELSE IdleProbe]
    /\ tick' = IF p # "tick" THEN tick
               ELSE [tick EXCEPT !.pc = IF probe[p].ans = "served"
                                        THEN "asking" ELSE "decided",
                                 !.verdict = IF probe[p].ans = "refused"
                                             THEN "dead" ELSE "failed"]
    /\ UNCHANGED <<now, token, revoked, enabled, wire, health, saved, crashes,
                   fails, hasty>>

(* settle: only a 2xx lifts the refusal recorded by traffic. *)
SettleClear(p) ==
    /\ probe[p].pc = "clearing"
    /\ health' = ClearRejection(health)
    /\ probe' = [probe EXCEPT ![p] = IdleProbe]
    /\ tick' = IF p # "tick" THEN tick
               ELSE [tick EXCEPT !.pc = "decided", !.verdict = "serviceable"]
    /\ UNCHANGED <<now, token, revoked, enabled, wire, memo, saved, crashes,
                   fails, unread, history>>

-----------------------------------------------------------------------------
(* The tick, as far as this credential is concerned. *)

(* tick: reconcileRejections first, then derive judges what is left, each  *)
(* reading the token of a credential that was refused.                     *)
TickStart ==
    /\ tick.pc = "idle"
    /\ \E lost \in SUBSET {"reconcile", "derive"} :
          /\ lost # {} => memo.rejected
          /\ Unread(Cardinality(lost))
          /\ health' = Reconciled(health, "reconcile" \notin lost)
          /\ tick' = [pc |-> "judged", at |-> now,
                      verdict |-> Verdict(health', "derive" \notin lost)]
          /\ hasty' = (hasty \/ tick'.verdict # Verdict(health', TRUE))
    /\ UNCHANGED <<now, token, revoked, enabled, wire, memo, probe, saved,
                   crashes, fails, told>>

(* tick: a resync, a confirmation or a candidate believed dead.  Whether   *)
(* the pool gives a reason to ask is not this module's business.           *)
TickAsk ==
    /\ tick.pc = "judged"
    /\ ProbeAllowed
    /\ Asked("tick", tick.at)
    /\ tick' = [tick EXCEPT !.pc = "asking"]
    /\ UNCHANGED <<now, token, revoked, enabled, wire, health, memo, saved,
                   crashes, unread, history>>

\* Mutant: retirement goes by alive() where it should go by rejected().
RetireNotAlive ==
    /\ tick.pc \in {"judged", "decided"}
    /\ enabled
    /\ tick.verdict # "serviceable"
    /\ enabled' = FALSE
    /\ tick' = [tick EXCEPT !.pc = "pinning"]
    /\ UNCHANGED <<now, token, revoked, wire, health, memo, probe, saved,
                   crashes, fails, unread, history>>

\* Mutant: a refusal that is already pinned is taken to be already acted on.
RetireUnpinned ==
    /\ tick.pc \in {"judged", "decided"}
    /\ enabled
    /\ tick.verdict = "dead"
    /\ ~memo.rejected
    /\ enabled' = FALSE
    /\ tick' = [tick EXCEPT !.pc = "pinning"]
    /\ UNCHANGED <<now, token, revoked, wire, health, memo, probe, saved,
                   crashes, fails, unread, history>>

(* retireRejected: the credential is switched off ... *)
RetireRejected ==
    /\ tick.pc \in {"judged", "decided"}
    /\ enabled
    /\ tick.verdict = "dead"
    /\ enabled' = FALSE
    /\ tick' = [tick EXCEPT !.pc = "pinning"]
    /\ UNCHANGED <<now, token, revoked, wire, health, memo, probe, saved,
                   crashes, fails, unread, history>>

(* ... and then pinRejection records which token was refused, reading it   *)
(* from the file again; without it nothing is recorded.                    *)
PinRejection ==
    /\ tick.pc = "pinning"
    /\ \/ /\ memo' = [at |-> IF HasMemo THEN memo.at ELSE tick.at,
                       rejected |-> TRUE, fp |-> token]
          /\ UNCHANGED unread
       \/ Unread(1) /\ UNCHANGED memo
    /\ tick' = IdleTick
    /\ UNCHANGED <<now, token, revoked, enabled, wire, health, probe, saved,
                   crashes, fails, history>>

(* retireDrained and the promotion of a candidate. *)
RetireDrained ==
    /\ tick.pc \in {"judged", "decided"}
    /\ enabled
    /\ tick.verdict # "dead"
    /\ enabled' = FALSE
    /\ tick' = IdleTick
    /\ UNCHANGED <<now, token, revoked, wire, health, memo, probe, saved,
                   crashes, fails, unread, history>>

Promote ==
    /\ tick.pc \in {"judged", "decided"}
    /\ ~enabled
    /\ tick.verdict = "serviceable"
    /\ enabled' = TRUE
    /\ tick' = IdleTick
    /\ UNCHANGED <<now, token, revoked, wire, health, memo, probe, saved,
                   crashes, fails, unread, history>>

TickEnd ==
    /\ tick.pc \in {"judged", "decided"}
    /\ tick' = IdleTick
    /\ UNCHANGED <<now, token, revoked, enabled, wire, health, memo, probe,
                   saved, crashes, fails, unread, history>>

-----------------------------------------------------------------------------
(* Flush snapshots both ledgers in one go; a restart reads them back. *)
Flush ==
    /\ crashes < MaxCrash
    /\ saved' = [health |-> health, memo |-> memo]
    /\ UNCHANGED <<now, token, revoked, enabled, wire, health, memo, probe,
                   tick, crashes, fails, unread, history>>

Crash ==
    /\ crashes < MaxCrash
    /\ crashes' = crashes + 1
    /\ health' = saved.health
    /\ memo' = saved.memo
    /\ wire' = {}
    /\ probe' = [p \in Prober |-> IdleProbe]
    /\ tick' = IdleTick
    /\ told' = {}
    /\ UNCHANGED <<now, token, revoked, enabled, saved, fails, unread, hasty>>

TickStep == TickStart \/ TickAsk \/ RetireRejected \/ PinRejection
            \/ RetireDrained \/ Promote \/ TickEnd
ProbeStep(p) == Settle(p) \/ SettleClear(p)

Next ==
    \/ \E m \in Model : Send(m)
    \/ \E r \in wire : RecordHealth(r)
    \/ Revoke
    \/ Login
    \/ ClockTick
    \/ \E p \in Refresher : RefreshSend(p)
    \/ \E p \in Prober : Settle(p)
    \/ \E p \in Prober : SettleClear(p)
    \/ TickStart
    \/ TickAsk
    \/ RetireRejected
    \/ PinRejection
    \/ RetireDrained
    \/ Promote
    \/ TickEnd
    \/ Flush
    \/ Crash

Spec == Init /\ [][Next]_vars

(***************************************************************************)
(* The ticker fires, a tick runs to its end and a probe returns (it has a  *)
(* timeout).  A pool that needs this credential is short until it has it:  *)
(* every tick then gets as far as asking about a candidate believed dead,  *)
(* while asking is allowed, and retiring a member that was refused.        *)
(* Nothing obliges traffic, upstream or the operator.                      *)
(***************************************************************************)
Fairness ==
    /\ WF_vars(TickStep)
    /\ SF_vars(TickAsk) /\ SF_vars(RetireRejected)
    /\ \A p \in Prober : WF_vars(ProbeStep(p))

FairSpec == Spec /\ Fairness

-----------------------------------------------------------------------------
(* "Fingerprint identifies the access token a refusal describes": a token  *)
(* the rotator writes off is one upstream really has stopped accepting,    *)
(* unless a login changed the file between the refusal and the note, or a  *)
(* restart brought back a refusal that had already been lifted, or a tick  *)
(* took a token that it could not read for the one refused before.  A      *)
(* refusal noted while the file could not be read names none.              *)
FingerprintNamesRefused ==
    (memo.rejected /\ ~hasty /\ crashes = 0) => memo.fp \in revoked \cup {NoPrint}

(* "once a probe confirms the refusal it pins the token's fingerprint, and *)
(* nothing asks again until a fresh login changes it": no probe is sent    *)
(* with a token a probe has been refused for, unless two probes of it      *)
(* overlapped and the other one wrote its memo last.                       *)
NoReask ==
    [][\A p \in Prober :
          (probe[p].pc = "idle" /\ probe'[p].pc = "answered") => token \notin told]_vars

(* "become candidates again once a fresh login replaces the token": with a *)
(* working token in the file the credential is eventually judged by its    *)
(* readings again, unless that token is revoked or replaced first, the     *)
(* login was hasty, a restart brought the old refusal back, or a probe's   *)
(* refusal was noted without the token it was about: that one stands.      *)
ReLoginRestores ==
    \A t \in Token :
        (token = t /\ t \notin revoked) ~>
            \/ Verdict(health, TRUE) = "serviceable"
            \/ memo.rejected /\ memo.fp = NoPrint
            \/ t \in revoked \/ token # t \/ hasty \/ crashes > 0

(* "Credentials refused upstream (401/403) are disabled": a member whose   *)
(* token traffic was refused for does not stay in the pool, unless a probe *)
(* failed, a restart forgot the refusal, or the token is replaced.         *)
RefusedIsRetired ==
    (enabled /\ \E m \in Rejections(health) : health[m].about = token) ~>
        (~enabled \/ token \notin revoked \/ fails > 0 \/ crashes > 0)

(* reconcileRejections expires refusals "that have stopped describing      *)
(* anything": even where every login is orderly, it never discards one     *)
(* about the token on disk.                                                *)
LiveRefusalKept ==
    [][(tick.pc = "idle" /\ tick'.pc = "judged" /\ ~hasty) =>
          \A m \in Rejections(health) :
              health'[m].rejectedAt = Never => health[m].about # token]_vars
=============================================================================
