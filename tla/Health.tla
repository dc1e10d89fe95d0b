------------------------------- MODULE Health -------------------------------
(***************************************************************************)
(* The ledger of which credential can serve which model, as the panel      *)
(* reports it (health.go: recordHealth, cooldownFrom, state, pruneHealth,  *)
(* modelHealth), and how a refusal is lifted with no request served        *)
(* (rotator_view.go: clearRejection).  Requests are recorded one at a      *)
(* time, stamped in seconds.                                               *)
(***************************************************************************)
EXTENDS Naturals, FiniteSetsExt

CONSTANTS
    Cred,          \* credentials with an account
    Model,
    KeepFor,       \* model_health_days, in units of the clock
    MaxSecond,     \* bound: the clock
    MaxRequests    \* bound: requests recorded

ASSUME HealthAssumption ==
    KeepFor \in Nat /\ MaxSecond \in Nat \ {0} /\ MaxRequests \in Nat

VARIABLES
    second,
    disabled,   \* credentials that are switched off
    models,     \* Account.Models of each credential
    requests,   \* requests recorded so far
    word,       \* history: the last answer of each pair that says something
    token       \* history: the last that says whether the token is accepted;
                \* in both a refusal is struck out when the rotator lifts it

healthVars == <<second, disabled, models, requests, word, token>>

Never == 0
Unknown == [seen |-> Never, ok |-> Never, fail |-> Never, until |-> 0, rejected |-> FALSE]
Ledger == [seen : Nat, ok : Nat, fail : Nat, until : Nat, rejected : BOOLEAN]

HealthTypeOK ==
    /\ second \in 1 .. MaxSecond
    /\ disabled \subseteq Cred
    /\ models \in [Cred -> [Model -> Ledger]]
    /\ requests \in 0 .. MaxRequests
    /\ word \in [Cred -> [Model -> {"none", "served", "full", "refused"}]]
    /\ token \in [Cred -> [Model -> {"none", "served", "refused"}]]

HealthInit ==
    /\ second = 1
    /\ disabled \in SUBSET Cred
    /\ models = [c \in Cred |-> [m \in Model |-> Unknown]]
    /\ requests = 0
    /\ word = [c \in Cred |-> [m \in Model |-> "none"]]
    /\ token = word

-----------------------------------------------------------------------------
(* What the headers of a failed request may say: when two windows reset,   *)
(* which are full, and whether the credits have run out.                   *)
Headers ==
    [reset : {r \in [{"short", "long"} -> {0, second + 1, second + 2}] :
                r["short"] # second + 2 /\ r["long"] # second + 1},
     full : SUBSET {"short", "long"},
     credits : BOOLEAN]

(* cooldownFrom: the last reset of the full windows, or the first of any   *)
(* if the credits have run out; zero if there is nothing to go by.         *)
CooldownFrom(rl) ==
    LET full == {rl.reset[w] : w \in rl.full} \ {0}
        any == {rl.reset[w] : w \in DOMAIN rl.reset} \ {0}
    IN
    CASE full # {} -> Max(full)
      [] full = {} /\ rl.credits /\ any # {} -> Min(any)
      [] OTHER -> 0

\* Mutant: only the deadline says that a lockout is over.
StateByDeadline(h) ==
    CASE h.rejected -> "rejected"
      [] ~h.rejected /\ h.until > second -> "cooling"
      [] OTHER -> "ok"

(* ModelHealth.state                                                       *)
State(h) ==
    CASE h.rejected -> "rejected"
      [] ~h.rejected /\ h.until > second -> "cooling"
      [] ~h.rejected /\ h.until \in 1 .. second /\ h.fail > h.ok -> "recovering"
      [] OTHER -> "ok"

(* pruneHealth, after every request of the credential.                     *)
Pruned(hs) ==
    [m \in Model |-> IF hs[m].seen + KeepFor < second THEN Unknown ELSE hs[m]]

(* A request ends with the ledger h for its model.  An entry is forgotten  *)
(* with the answers it stood for.                                          *)
Recorded(c, m, h, answer) ==
    LET kept(hist, told) ==
            [n \in Model |-> IF models'[c][n] = Unknown THEN "none"
                             ELSE IF n = m /\ told THEN answer ELSE hist[n]]
    IN
    /\ requests < MaxRequests
    /\ requests' = requests + 1
    /\ models' = [models EXCEPT ![c] = Pruned([@ EXCEPT ![m] = h])]
    /\ word' = [word EXCEPT ![c] = kept(@, answer # "none")]
    /\ token' = [token EXCEPT ![c] = kept(@, answer \in {"served", "refused"})]
    /\ UNCHANGED <<second, disabled>>

(* recordHealth of a request that was served,                              *)
Served(c, m) ==
    Recorded(c, m, [models[c][m] EXCEPT
                      !.seen = second, !.ok = second, !.until = 0, !.rejected = FALSE],
             "served")

(* of one upstream refused for its token,                                  *)
Unauthorized(c, m) ==
    Recorded(c, m, [models[c][m] EXCEPT
                      !.seen = second, !.fail = second, !.until = 0, !.rejected = TRUE],
             "refused")

(* and of any other that failed, for its quota or for nothing to do with   *)
(* the credential.                                                         *)
Failed(c, m) ==
    \E deadline \in {CooldownFrom(rl) : rl \in Headers} :
        LET h == [models[c][m] EXCEPT !.seen = second] IN
        IF deadline = 0 THEN Recorded(c, m, h, "none")
        ELSE Recorded(c, m, [h EXCEPT !.fail = second, !.until = deadline], "full")

(* clearRejection: a probe was served, or the token has been replaced, so  *)
(* what was refused is refused no more, on any model.  Nothing else of an  *)
(* entry changes: a probe serves no model.                                 *)
ClearRejection(c) ==
    LET struck(hist) == [m \in Model |-> IF hist[m] = "refused" THEN "none" ELSE hist[m]] IN
    /\ \E m \in Model : models[c][m].rejected
    /\ models' = [models EXCEPT ![c] = [m \in Model |-> [@[m] EXCEPT !.rejected = FALSE]]]
    /\ word' = [word EXCEPT ![c] = struck(@)]
    /\ token' = [token EXCEPT ![c] = struck(@)]
    /\ UNCHANGED <<second, disabled, requests>>

Switch(c) ==
    /\ disabled' = IF c \in disabled THEN disabled \ {c} ELSE disabled \cup {c}
    /\ UNCHANGED <<second, models, requests, word, token>>

Clock ==
    /\ second < MaxSecond
    /\ second' = second + 1
    /\ UNCHANGED <<disabled, models, requests, word, token>>

HealthNext ==
    \/ \E c \in Cred, m \in Model : Served(c, m) \/ Unauthorized(c, m) \/ Failed(c, m)
    \/ \E c \in Cred : ClearRejection(c) \/ Switch(c)
    \/ Clock

HealthSpec == HealthInit /\ [][HealthNext]_healthVars

-----------------------------------------------------------------------------
(* modelHealth: a refusal on any model is one of the token.                *)
Refused(c) == \E m \in Model : models[c][m].rejected

Standing(c, m) ==
    CASE c \in disabled -> "disabled"
      [] c \notin disabled /\ Refused(c) -> "rejected"
      [] OTHER -> State(models[c][m])

Rows(m, states) == {c \in Cred : Standing(c, m) \in states}

(* A model is reported once any credential has been tried for it.          *)
Reported(m) == \E c \in Cred : models[c][m] # Unknown

(* The row of a model: which of the credentials that count can serve it,   *)
(* and what the panel calls that.                                          *)
ModelState(m) ==
    CASE Cred # disabled /\ Rows(m, {"ok"}) = {} -> "down"
      [] Rows(m, {"ok"}) # {} /\ Rows(m, {"cooling", "recovering"}) # {} -> "degraded"
      [] OTHER -> "ok"

(* When the first of the credentials locked out is due back.               *)
NextBack(m) ==
    LET c == Rows(m, {"cooling"}) IN IF c = {} THEN 0 ELSE Min({models[d][m].until : d \in c})

(* Answers of one pair stamped in the same second.                         *)
Tied == \E c \in Cred, m \in Model :
            models[c][m].ok = models[c][m].fail /\ models[c][m].ok # Never

(* "a refused token serves nothing", a full window locks its model out and *)
(* a request served proves the lockout over: a model is reported down just *)
(* when every credential that is switched on either was last refused for   *)
(* it, or has a token that was refused for some model and has since        *)
(* neither served a request of that model nor had the refusal lifted, by a *)
(* probe that was served or a login.  And nobody is due back at a time     *)
(* that has gone.                                                          *)
OutageReported ==
    \A m \in Model : Reported(m) /\ ~Tied =>
        /\ ModelState(m) = "down" <=>
              /\ Cred # disabled
              /\ \A c \in Cred \ disabled :
                    \/ word[c][m] \in {"full", "refused"}
                    \/ \E n \in Model : token[c][n] = "refused"
        /\ NextBack(m) = 0 \/ NextBack(m) > second
=============================================================================
