--------------------------- MODULE RefusalProofs ---------------------------
(***************************************************************************)
(* Proofs about Refusal: types, that only a token upstream has stopped     *)
(* accepting is written off, and that nothing asks again with a token a    *)
(* probe was refused for - whatever the models, the panel refreshes, the   *)
(* logins and the times.                                                   *)
(***************************************************************************)
EXTENDS Refusal, FiniteSetTheorems, TLAPS

(* A set of times that has an element has a latest one.                    *)
LEMMA LatestExists ==
    ASSUME NEW T \in SUBSET Time, T # {}
    PROVE  \E x \in T : \A y \in T : y <= x
<1> DEFINE Latest(S) == \E x \in S : \A y \in S : y <= x
           Bad == {S \in SUBSET T : S # {} /\ ~Latest(S)}
<1>1. Bad = {}
  <2>1. SUFFICES ASSUME Bad # {}
                 PROVE  FALSE
    OBVIOUS
  <2>2. IsFiniteSet(T)
    <3>1. MaxTime \in Int
      BY RefusalAssumption
    <3>2. IsFiniteSet(1 .. MaxTime)
      BY <3>1, FS_Interval
    <3> QED
      BY <3>2, FS_Subset DEF Time
  <2>3. IsWellFoundedOn(StrictSubsetOrdering(T), SUBSET T)
    BY <2>2, FS_StrictSubsetOrderingWellFounded, FS_FiniteSubsetsOfFinite
  <2>4. PICK S \in Bad : \A U \in Bad : ~(<<U, S>> \in StrictSubsetOrdering(T))
    <3>1. Bad \subseteq SUBSET T
      OBVIOUS
    <3> HIDE DEF Bad
    <3> QED
      BY <2>1, <2>3, <3>1, WFMin
  <2>5. PICK x : x \in S
    OBVIOUS
  <2> DEFINE U == S \ {x}
  <2>6. <<U, S>> \in StrictSubsetOrdering(T)
    BY <2>5 DEF StrictSubsetOrdering
  <2>7. x \in Int /\ S \subseteq Int
    BY <2>5, RefusalAssumption DEF Time
  <2>8. CASE U = {}
    <3>1. \A y \in S : y <= x
      BY <2>5, <2>7, <2>8
    <3> QED
      BY <2>5, <3>1
  <2>9. CASE Latest(U)
    <3>1. PICK m \in U : \A y \in U : y <= m
      BY <2>9
    <3>2. m \in Int
      BY <2>7
    <3>3. CASE m <= x
      <4>1. \A y \in S : y <= x
        BY <2>7, <3>1, <3>2, <3>3
      <4> QED
        BY <2>5, <4>1
    <3>4. CASE ~(m <= x)
      <4>1. \A y \in S : y <= m
        BY <2>7, <3>1, <3>2, <3>4
      <4> QED
        BY <3>1, <4>1
    <3> QED
      BY <3>3, <3>4
  <2> QED
    BY <2>4, <2>6, <2>8, <2>9
<1> QED
  BY <1>1

(* The newest refusal in traffic, when there is one.                       *)
LEMMA RejectedAtIsLatest ==
    ASSUME NEW h \in [Model -> Health], TrafficRejected(h)
    PROVE  RejectedAt(h) \in Time
<1> DEFINE T == {h[m].rejectedAt : m \in Rejections(h)}
<1>1. T \in SUBSET Time /\ T # {}
  BY DEF Rejections, TrafficRejected, Health
<1>2. PICK x \in T : \A y \in T : y <= x
  <2> HIDE DEF T
  <2> QED
    BY <1>1, LatestExists
<1>3. \A m \in Rejections(h) : h[m].rejectedAt <= x
  BY <1>2
<1>4. RejectedAt(h) \in T
  BY <1>2, <1>3 DEF RejectedAt
<1> QED
  BY <1>1, <1>4

-----------------------------------------------------------------------------
(* The inductive invariants. *)

(* As long as logins are orderly and nothing restarts, whatever could end  *)
(* in the token being written off speaks of a token that is revoked.       *)
Orderly == ~hasty /\ crashes = 0

Unnamed == memo.rejected /\ memo.fp = NoPrint

(* Requests and probes under way: a login in the middle would be hasty.    *)
(* None is sent once a refusal is noted without its token.                 *)
AnswersAreCurrent ==
    /\ \A r \in wire : r.ok \/ token \in revoked
    /\ \A p \in Prober :
          /\ probe[p].pc = "answered" /\ probe[p].ans = "refused" => token \in revoked
          /\ probe[p].pc # "idle" /\ Unnamed => token \in revoked

(* A refusal in traffic of an enabled credential is about its token.  One  *)
(* of a disabled credential may have outlived a login; then the tick has   *)
(* either discarded it or not found the credential serviceable; so with a  *)
(* refusal a probe met that was noted without its token.                   *)
MembersAreCurrent ==
    enabled /\ (TrafficRejected(health) \/ Unnamed) => token \in revoked

TickIsCurrent ==
    /\ tick.pc = "pinning" => token \in revoked
    /\ tick.pc \in {"judged", "decided"} =>
          /\ tick.verdict = "dead" /\ enabled => token \in revoked
          /\ tick.verdict = "serviceable" /\ (TrafficRejected(health) \/ Unnamed)
                => token \in revoked

CurrentInv ==
    Orderly => /\ AnswersAreCurrent
               /\ MembersAreCurrent
               /\ TickIsCurrent
               /\ memo.rejected => memo.fp \in revoked \cup {NoPrint}

(* The refusal a probe met is pinned to its token, or stands for want of   *)
(* one, and no probe is under way that could write another memo over it.   *)
SilencedInv ==
    /\ \A p \in Prober : probe[p].tok <= token
    /\ \A t \in told : t <= token
    /\ token \in told =>
          /\ memo.rejected /\ memo.fp \in {token, NoPrint}
          /\ \A p \in Prober : probe[p].pc = "idle"

-----------------------------------------------------------------------------
(* Types.  A probe that has been answered was sent with a token. *)
AnswersHaveTokens == \A p \in Prober : probe[p].pc = "answered" => probe[p].tok \in Token
TypeInv == TypeOK /\ AnswersHaveTokens

LEMMA TypeInit == Init => TypeInv
<1> SUFFICES ASSUME Init
             PROVE  TypeInv
  OBVIOUS
<1>1. CleanHealth \in Health /\ NoMemo \in Memo /\ IdleProbe \in ProbeState /\ IdleTick \in TickState
  BY DEF CleanHealth, Health, NoMemo, Memo, IdleProbe, ProbeState, Answer, IdleTick, TickState,
         Never, NoPrint
<1>2. /\ 1 \in Time /\ 1 \in Token
      /\ 0 \in 0 .. MaxCrash /\ 0 \in 0 .. MaxFail /\ 0 \in 0 .. MaxUnread
  BY RefusalAssumption DEF Time, Token
<1> QED
  BY <1>1, <1>2 DEF Init, TypeInv, AnswersHaveTokens, TypeOK, IdleProbe

LEMMA ClearedType ==
    \A h \in [Model -> Health], read \in BOOLEAN :
        ClearRejection(h) \in [Model -> Health] /\ Reconciled(h, read) \in [Model -> Health]
<1>1. CleanHealth \in Health
  BY DEF CleanHealth, Health, Never, NoPrint
<1> QED
  BY <1>1 DEF ClearRejection, Reconciled

LEMMA TypeStep ==
    ASSUME TypeInv, [Next]_vars
    PROVE  TypeInv'
<1> USE DEF TypeInv, AnswersHaveTokens, TypeOK, history
<1>0. ASSUME NEW n \in Nat, Unread(n)
      PROVE  unread' \in 0 .. MaxUnread
  BY <1>0, RefusalAssumption DEF Unread
<1>1. ASSUME NEW m \in Model, Send(m)
      PROVE  TypeInv'
  <2> DEFINE ok == token \notin revoked
  <2>1. ok \in BOOLEAN
    OBVIOUS
  <2>2. wire' = wire \cup {[model |-> m, tok |-> token, ok |-> ok]}
    BY <1>1 DEF Send
  <2> HIDE DEF ok
  <2>3. wire' \subseteq Request
    BY <2>1, <2>2 DEF Request
  <2> QED
    BY <1>1, <2>3 DEF Send
<1>2. ASSUME NEW r \in wire, RecordHealth(r)
      PROVE  TypeInv'
  <2>1. r \in Request /\ now \in Time
    OBVIOUS
  <2>2. CleanHealth \in Health /\ [rejectedAt |-> now, about |-> r.tok] \in Health
    BY <2>1 DEF CleanHealth, Health, Never, NoPrint, Request
  <2>3. health' \in [Model -> Health] /\ wire' \subseteq Request
    BY <1>2, <2>2 DEF RecordHealth
  <2> QED
    BY <1>2, <2>3 DEF RecordHealth
<1>3. CASE Revoke
  BY <1>3 DEF Revoke
<1>4. CASE Login
  <2>1. token' \in Token
    BY <1>4, RefusalAssumption DEF Login, Token
  <2>2. hasty' \in BOOLEAN
    BY <1>4 DEF Login, TrafficRejected, RejectionStands, Memo
  <2> QED
    BY <1>4, <2>1, <2>2 DEF Login
<1>5. CASE ClockTick
  BY <1>5, RefusalAssumption DEF ClockTick, Time
<1>6. ASSUME NEW p \in Prober, NEW at \in Time \cup {Never}, Asked(p, at)
      PROVE  probe' \in [Prober -> ProbeState] /\ fails' \in 0 .. MaxFail /\ AnswersHaveTokens'
  <2>1. PICK a \in AnswerTo(token) :
          /\ probe' = [probe EXCEPT ![p] =
                          [pc |-> "answered", at |-> at, tok |-> token, ans |-> a]]
          /\ fails' = IF a = "failed" THEN fails + 1 ELSE fails
    BY <1>6 DEF Asked
  <2>2. a \in Answer /\ (a = "failed" => fails < MaxFail)
    BY DEF AnswerTo, Answer
  <2>3. [pc |-> "answered", at |-> at, tok |-> token, ans |-> a] \in ProbeState
    BY <2>2 DEF ProbeState
  <2> QED
    BY <2>1, <2>2, <2>3, RefusalAssumption
<1>7. ASSUME NEW p \in Refresher, RefreshSend(p)
      PROVE  TypeInv'
  <2>1. Asked(p, now) /\ p \in Prober
    BY <1>7 DEF RefreshSend, Prober
  <2>2. probe' \in [Prober -> ProbeState] /\ fails' \in 0 .. MaxFail /\ AnswersHaveTokens'
    BY <1>6, <2>1
  <2> QED
    BY <1>7, <2>2 DEF RefreshSend
<1>8. ASSUME NEW p \in Prober, Settle(p)
      PROVE  TypeInv'
  <2>1. probe[p] \in ProbeState
    OBVIOUS
  <2>2. probe[p].tok \in Token \cup {NoPrint} /\ probe[p].at \in Time \cup {Never}
    BY <2>1 DEF ProbeState
  <2>3. memo' \in Memo /\ unread' \in 0 .. MaxUnread
    <3>1. MemoOf(p, TRUE) \in Memo /\ MemoOf(p, FALSE) \in Memo
      BY <2>2 DEF MemoOf, Memo
    <3> QED
      BY <1>0, <1>8, <3>1 DEF Settle
  <2>4. told' \subseteq Token
    <3>1. probe[p].tok \in Token
      BY <1>8 DEF Settle
    <3> QED
      BY <1>8, <2>2 DEF Settle
  <2>5. probe' \in [Prober -> ProbeState]
    <3>1. IdleProbe \in ProbeState /\ [probe[p] EXCEPT !.pc = "clearing"] \in ProbeState
      BY <2>1 DEF IdleProbe, ProbeState, Answer, Never, NoPrint
    <3> QED
      BY <1>8, <3>1 DEF Settle
  <2>6. tick' \in TickState
    BY <1>8 DEF Settle, TickState
  <2>7. AnswersHaveTokens'
    BY <1>8 DEF Settle, IdleProbe
  <2> QED
    BY <1>8, <2>3, <2>4, <2>5, <2>6, <2>7 DEF Settle
<1>9. ASSUME NEW p \in Prober, SettleClear(p)
      PROVE  TypeInv'
  <2>1. IdleProbe \in ProbeState
    BY DEF IdleProbe, ProbeState, Answer, Never, NoPrint
  <2>2. /\ health' \in [Model -> Health] /\ probe' \in [Prober -> ProbeState]
        /\ tick' \in TickState /\ AnswersHaveTokens'
    BY <1>9, <2>1, ClearedType DEF SettleClear, TickState, IdleProbe
  <2> QED
    BY <1>9, <2>2 DEF SettleClear
<1>10. CASE TickStart
  <2>1. PICK lost \in SUBSET {"reconcile", "derive"} :
          /\ Unread(Cardinality(lost))
          /\ health' = Reconciled(health, "reconcile" \notin lost)
          /\ tick' = [pc |-> "judged", at |-> now,
                      verdict |-> Verdict(health', "derive" \notin lost)]
          /\ hasty' = (hasty \/ tick'.verdict # Verdict(health', TRUE))
    BY <1>10 DEF TickStart
  <2>2. Verdict(health', "derive" \notin lost) \in {"dead", "serviceable", "failed"}
    BY DEF Verdict
  <2>3. health' \in [Model -> Health] /\ tick' \in TickState /\ hasty' \in BOOLEAN
    BY <2>1, <2>2, ClearedType DEF TickState
  <2>4. unread' \in 0 .. MaxUnread
    <3>1. IsFiniteSet({"reconcile", "derive"})
      <4>1. IsFiniteSet({"derive"})
        BY FS_Singleton
      <4>2. {"reconcile", "derive"} = {"derive"} \cup {"reconcile"}
        OBVIOUS
      <4> QED
        BY <4>1, <4>2, FS_AddElement
    <3>2. Cardinality(lost) \in Nat
      BY <3>1, FS_Subset, FS_CardinalityType
    <3> QED
      BY <1>0, <2>1, <3>2
  <2> QED
    BY <1>10, <2>3, <2>4 DEF TickStart
<1>11. CASE TickAsk
  <2>1. Asked("tick", tick.at) /\ tick.at \in Time \cup {Never} /\ "tick" \in Prober
    BY <1>11 DEF TickAsk, TickState, Prober
  <2>2. probe' \in [Prober -> ProbeState] /\ fails' \in 0 .. MaxFail /\ AnswersHaveTokens'
    BY <1>6, <2>1
  <2>3. tick' \in TickState
    BY <1>11 DEF TickAsk, TickState
  <2> QED
    BY <1>11, <2>2, <2>3 DEF TickAsk
<1>12. CASE RetireRejected
  BY <1>12 DEF RetireRejected, TickState
<1>13. IdleTick \in TickState
  BY DEF IdleTick, TickState, Never
<1>14. CASE PinRejection
  <2>1. Unread(1) => unread' \in 0 .. MaxUnread
    BY <1>0
  <2>2. [at |-> IF HasMemo THEN memo.at ELSE tick.at, rejected |-> TRUE, fp |-> token] \in Memo
    BY DEF Memo, TickState
  <2>3. memo' \in Memo /\ unread' \in 0 .. MaxUnread
    BY <1>14, <2>1, <2>2 DEF PinRejection
  <2> QED
    BY <1>13, <1>14, <2>3 DEF PinRejection
<1>15. CASE RetireDrained
  BY <1>13, <1>15 DEF RetireDrained
<1>16. CASE Promote
  BY <1>13, <1>16 DEF Promote
<1>17. CASE TickEnd
  BY <1>13, <1>17 DEF TickEnd
<1>18. CASE Flush
  BY <1>18 DEF Flush
<1>19. CASE Crash
  <2>1. IdleProbe \in ProbeState
    BY DEF IdleProbe, ProbeState, Answer, Never, NoPrint
  <2>2. crashes' \in 0 .. MaxCrash
    BY <1>19, RefusalAssumption DEF Crash
  <2> QED
    BY <1>13, <1>19, <2>1, <2>2 DEF Crash, IdleProbe
<1>20. CASE UNCHANGED vars
  BY <1>20 DEF vars
<1> QED
  BY <1>1, <1>2, <1>3, <1>4, <1>5, <1>7, <1>8, <1>9, <1>10, <1>11, <1>12, <1>14, <1>15,
     <1>16, <1>17, <1>18, <1>19, <1>20 DEF Next

(* Types, for any models, panel refreshes and bounds.                      *)
THEOREM TypeCorrect == Spec => []TypeOK
<1>1. TypeInv /\ [Next]_vars => TypeInv'
  BY TypeStep
<1>2. TypeInv => TypeOK
  BY DEF TypeInv
<1> QED
  BY <1>1, <1>2, TypeInit, PTL DEF Spec

-----------------------------------------------------------------------------
(* Nobody asks again. *)

(* While a token is known to be refused, no probe of it may be sent.       *)
LEMMA SilencedIsPinned ==
    ASSUME SilencedInv, token \in told
    PROVE  ~ProbeAllowed
  BY DEF SilencedInv, ProbeAllowed, RejectionStands

LEMMA SilencedInit == Init => SilencedInv
  BY DEF Init, SilencedInv, IdleProbe, NoPrint

LEMMA SilencedStep ==
    ASSUME TypeInv, SilencedInv, [Next]_vars
    PROVE  SilencedInv'
<1> USE DEF SilencedInv, history
<1>1. token \in Int /\ (\A p \in Prober : probe[p].tok \in Int) /\ told \subseteq Int
  BY RefusalAssumption DEF TypeInv, TypeOK, Token, ProbeState, NoPrint
<1>2. CASE UNCHANGED <<token, memo, probe, told>>
  BY <1>2
<1>3. CASE Login
  <2>1. token' \in Int /\ token' > token /\ UNCHANGED <<memo, probe, told>>
    BY <1>1, <1>3 DEF Login
  <2>2. token' \notin told'
    BY <1>1, <2>1
  <2> QED
    BY <1>1, <2>1, <2>2
<1>4. ASSUME NEW p \in Prober, NEW at, Asked(p, at), ProbeAllowed, UNCHANGED <<token, memo, told>>
      PROVE  SilencedInv'
  <2>1. token' \notin told'
    BY <1>4, SilencedIsPinned
  <2>2. \A q \in Prober : probe'[q].tok <= token
    BY <1>1, <1>4 DEF Asked, TypeInv, TypeOK
  <2> QED
    BY <1>4, <2>1, <2>2
<1>5. ASSUME NEW p \in Refresher, RefreshSend(p)
      PROVE  SilencedInv'
  BY <1>4, <1>5 DEF RefreshSend, Prober
<1>6. CASE TickAsk
  BY <1>4, <1>6 DEF TickAsk, Prober
<1>7. ASSUME NEW p \in Prober, Settle(p)
      PROVE  SilencedInv'
  <2>1. UNCHANGED token /\ token \notin told
    BY <1>7 DEF Settle
  <2>2. \A q \in Prober : probe'[q].tok <= token
    BY <1>1, <1>7, RefusalAssumption DEF Settle, IdleProbe, NoPrint, TypeInv, TypeOK, Token
  <2>3. \A t \in told' : t <= token
    BY <1>1, <1>7 DEF Settle
  <2>4. ASSUME token' \in told'
        PROVE  /\ memo'.rejected /\ memo'.fp \in {token, NoPrint}
               /\ \A q \in Prober : probe'[q].pc = "idle"
    <3>1. probe[p].ans = "refused" /\ \A q \in Prober \ {p} : probe[q].pc = "idle"
      BY <1>7, <2>1, <2>4 DEF Settle
    <3>2. memo'.rejected /\ memo'.fp \in {token, NoPrint}
      <4>1. \A read : MemoOf(p, read).rejected /\ MemoOf(p, read).fp \in {token, NoPrint}
        BY <3>1 DEF MemoOf
      <4>2. \E read : memo' = MemoOf(p, read)
        BY <1>7 DEF Settle
      <4> QED
        BY <4>1, <4>2
    <3>3. \A q \in Prober : probe'[q].pc = "idle"
      BY <1>7, <3>1 DEF Settle, IdleProbe, TypeInv, TypeOK
    <3> QED
      BY <3>2, <3>3
  <2> QED
    BY <2>1, <2>2, <2>3, <2>4
<1>8. ASSUME NEW p \in Prober, SettleClear(p)
      PROVE  SilencedInv'
  <2>1. \A q \in Prober : probe'[q] \in {probe[q], IdleProbe}
    BY <1>8 DEF SettleClear, TypeInv, TypeOK
  <2> QED
    BY <1>1, <1>8, <2>1, RefusalAssumption DEF SettleClear, IdleProbe, NoPrint, TypeInv, TypeOK, Token
<1>9. CASE PinRejection
  <2>1. /\ UNCHANGED <<token, probe, told>>
        /\ (memo'.rejected /\ memo'.fp = token) \/ UNCHANGED memo
    BY <1>9 DEF PinRejection
  <2> QED
    BY <2>1
<1>10. CASE Crash
  <2>1. told' = {} /\ UNCHANGED token /\ \A p \in Prober : probe'[p].tok = 0
    BY <1>10 DEF Crash, IdleProbe, NoPrint
  <2>2. token >= 0
    BY RefusalAssumption DEF TypeInv, TypeOK, Token
  <2> QED
    BY <1>1, <2>1, <2>2
<1> QED
  BY <1>2, <1>3, <1>5, <1>6, <1>7, <1>8, <1>9, <1>10
     DEF Next, vars, Send, RecordHealth, Revoke, ClockTick, TickStart, RetireRejected,
         RetireDrained, Promote, TickEnd, Flush

(* "nothing asks again until a fresh login changes it": for any panel      *)
(* refreshes beside the tick, no probe is sent with a token a probe has    *)
(* been refused for, unless two probes of it overlapped.                   *)
THEOREM NobodyAsksAgain == Spec => NoReask
<1>1. TypeInv /\ SilencedInv /\ [Next]_vars => TypeInv' /\ SilencedInv'
  BY TypeStep, SilencedStep
<1>2. ASSUME TypeInv, SilencedInv, [Next]_vars
      PROVE  [\A p \in Prober :
                probe[p].pc = "idle" /\ probe'[p].pc = "answered" => token \notin told]_vars
  <2> SUFFICES ASSUME NEW p \in Prober, probe[p].pc = "idle", probe'[p].pc = "answered", Next
               PROVE  token \notin told
    BY <1>2
  <2>1. CASE ProbeAllowed
    BY <1>2, <2>1, SilencedIsPinned
  <2>2. CASE ~ProbeAllowed
    <3>1. ~TickAsk /\ \A q \in Refresher : ~RefreshSend(q)
      BY <2>2 DEF TickAsk, RefreshSend
    <3>2. probe' # probe
      OBVIOUS
    <3>3. ASSUME NEW q \in Prober, Settle(q) \/ SettleClear(q)
          PROVE  probe'[p].pc # "answered"
      BY <1>2, <3>3 DEF Settle, SettleClear, IdleProbe, TypeInv, TypeOK
    <3>4. CASE Crash
      BY <3>4 DEF Crash, IdleProbe
    <3> QED
      BY <3>1, <3>2, <3>3, <3>4
         DEF Next, Send, RecordHealth, Revoke, Login, ClockTick, TickStart, RetireRejected,
             PinRejection, RetireDrained, Promote, TickEnd, Flush
  <2> QED
    BY <2>1, <2>2
<1> QED
  BY <1>1, <1>2, TypeInit, SilencedInit, PTL DEF Spec, NoReask

-----------------------------------------------------------------------------
(* Whose token is written off. *)

LEMMA CurrentInit == Init => CurrentInv
  BY DEF Init, CurrentInv, AnswersAreCurrent, MembersAreCurrent, TickIsCurrent,
         TrafficRejected, Rejections, CleanHealth, NoMemo, IdleProbe, IdleTick, Unnamed

(* Clearing the refusals of traffic leaves none.                           *)
LEMMA ClearedHasNone ==
    \A h : ~TrafficRejected(ClearRejection(h))
  BY DEF ClearRejection, TrafficRejected, Rejections, CleanHealth

(* Reconciling invents no refusal.                                         *)
LEMMA ReconciledHasNoMore ==
    ASSUME NEW h, NEW read, TrafficRejected(Reconciled(h, read))
    PROVE  TrafficRejected(h) /\ Reconciled(h, read) = h
  BY ClearedHasNone DEF Reconciled

(* What reconciling leaves of traffic's refusals makes the verdict.        *)
LEMMA RejectedIsDead ==
    ASSUME TypeOK, NEW read, NEW reread, TrafficRejected(Reconciled(health, read))
    PROVE  Verdict(Reconciled(health, read), reread) = "dead"
<1>1. Reconciled(health, read) = health /\ TrafficRejected(health)
  BY ReconciledHasNoMore
<1>2. ~(HasMemo /\ ~memo.rejected /\ memo.at > RejectedAt(health))
  BY <1>1, ClearedHasNone DEF Reconciled
<1>3. RejectedAt(health) \in Int /\ memo.at \in Int
  BY <1>1, RejectedAtIsLatest, RefusalAssumption DEF TypeOK, Memo, Time, Never
<1>4. ~HasMemo \/ memo.rejected \/ memo.at <= RejectedAt(health)
  BY <1>2, <1>3 DEF TypeOK, Memo
<1> QED
  BY <1>1, <1>4 DEF Verdict

(* Without a login or a restart, tokens stay revoked.                      *)
LEMMA CurrentStep ==
    ASSUME TypeInv, CurrentInv, [Next]_vars
    PROVE  CurrentInv'
<1> USE DEF CurrentInv, history
<1> SUFFICES ASSUME Orderly'
             PROVE  /\ AnswersAreCurrent' /\ MembersAreCurrent' /\ TickIsCurrent'
                    /\ memo'.rejected => memo'.fp \in revoked' \cup {NoPrint}
  OBVIOUS
<1>1. Orderly
  <2>1. CASE Login
    <3>1. crashes' = crashes /\ (hasty => hasty')
      BY <2>1 DEF Login, TypeInv, TypeOK
    <3> QED
      BY <3>1 DEF Orderly
  <2>2. CASE Crash
    <3>1. crashes \in Nat /\ crashes' = crashes + 1
      BY <2>2, RefusalAssumption DEF Crash, TypeInv, TypeOK
    <3> QED
      BY <3>1 DEF Orderly
  <2>3. CASE UNCHANGED <<crashes, hasty>>
    BY <2>3 DEF Orderly
  <2>4. CASE TickStart
    <3>1. crashes' = crashes /\ (hasty => hasty')
      BY <2>4 DEF TickStart, TypeInv, TypeOK
    <3> QED
      BY <3>1 DEF Orderly
  <2> QED
    BY <2>1, <2>2, <2>3, <2>4
       DEF Next, vars, Send, RecordHealth, Revoke, ClockTick, RefreshSend, Settle, SettleClear,
           TickAsk, RetireRejected, PinRejection, RetireDrained, Promote, TickEnd, Flush
<1>2. /\ AnswersAreCurrent /\ MembersAreCurrent /\ TickIsCurrent
      /\ memo.rejected => memo.fp \in revoked \cup {NoPrint}
  BY <1>1
<1> DEFINE Goal == /\ AnswersAreCurrent' /\ MembersAreCurrent' /\ TickIsCurrent'
                   /\ memo'.rejected => memo'.fp \in revoked' \cup {NoPrint}
<1> USE <1>2 DEF AnswersAreCurrent, MembersAreCurrent, TickIsCurrent, Unnamed
<1>3. ASSUME NEW m \in Model, Send(m)
      PROVE  Goal
  <2> DEFINE ok == token \notin revoked
             sent == [model |-> m, tok |-> token, ok |-> ok]
  <2>1. /\ wire' = wire \cup {sent}
        /\ UNCHANGED <<token, revoked, enabled, health, memo, probe, tick>>
    BY <1>3 DEF Send
  <2>2. sent.ok \/ token \in revoked
    OBVIOUS
  <2> HIDE DEF sent
  <2> QED
    BY <2>1, <2>2
<1>4. ASSUME NEW r \in wire, RecordHealth(r)
      PROVE  Goal
  <2>1. TrafficRejected(health') => TrafficRejected(health) \/ ~r.ok
    BY <1>4 DEF RecordHealth, TrafficRejected, Rejections, CleanHealth, TypeInv, TypeOK
  <2> QED
    BY <1>4, <2>1 DEF RecordHealth
<1>5. CASE Revoke
  BY <1>5 DEF Revoke
<1>6. CASE Login
  <2>1. /\ tick.pc = "idle" /\ wire = {} /\ (\A p \in Prober : probe[p].pc = "idle")
        /\ ~(enabled /\ (TrafficRejected(health) \/ RejectionStands(TRUE)))
        /\ UNCHANGED <<revoked, enabled, wire, health, memo, probe, tick>>
    BY <1>6 DEF Login, Orderly
  <2>2. Unnamed => RejectionStands(TRUE)
    BY DEF RejectionStands
  <2> QED
    BY <2>1, <2>2
<1>7. ASSUME NEW p \in Prober, NEW at, Asked(p, at), ProbeAllowed, UNCHANGED memo
      PROVE  /\ \A q \in Prober :
                   probe'[q].pc = "answered" /\ probe'[q].ans = "refused" => token \in revoked
             /\ ~Unnamed /\ ~Unnamed'
  <2>1. ~Unnamed /\ ~Unnamed'
    BY <1>7 DEF ProbeAllowed, RejectionStands
  <2> QED
    BY <1>7, <2>1 DEF Asked, AnswerTo, TypeInv, TypeOK
<1>8. ASSUME NEW p \in Refresher, RefreshSend(p)
      PROVE  Goal
  BY <1>7, <1>8 DEF RefreshSend, Prober
<1>9. CASE TickAsk
  BY <1>7, <1>9 DEF TickAsk, Prober, TypeInv, TypeOK, TickState
<1>10. ASSUME NEW p \in Prober, Settle(p)
       PROVE  Goal
  <2>1. probe[p].ans = "refused" => token \in revoked
    BY <1>10 DEF Settle
  <2>2. /\ memo'.rejected => memo'.fp \in revoked' \cup {NoPrint}
        /\ memo'.rejected => token \in revoked
    <3>1. PICK read \in BOOLEAN : memo' = MemoOf(p, read)
      BY <1>10 DEF Settle
    <3>2. UNCHANGED revoked
      BY <1>10 DEF Settle
    <3> QED
      BY <2>1, <3>1, <3>2 DEF MemoOf
  <2>3. AnswersAreCurrent'
    BY <1>10, <2>2 DEF Settle, IdleProbe, TypeInv, TypeOK
  <2>4. TickIsCurrent'
    BY <1>10, <2>1, <2>2 DEF Settle, TypeInv, TypeOK, TickState
  <2> QED
    BY <1>10, <2>2, <2>3, <2>4 DEF Settle
<1>11. ASSUME NEW p \in Prober, SettleClear(p)
       PROVE  Goal
  <2>1. ~TrafficRejected(health')
    BY <1>11, ClearedHasNone DEF SettleClear
  <2>2. AnswersAreCurrent'
    BY <1>11 DEF SettleClear, IdleProbe, TypeInv, TypeOK
  <2>3. TickIsCurrent'
    BY <1>11, <2>1 DEF SettleClear, TypeInv, TypeOK, TickState
  <2> QED
    BY <1>11, <2>1, <2>2, <2>3 DEF SettleClear
<1>12. CASE TickStart
  <2>1. PICK seen \in BOOLEAN, judged \in BOOLEAN :
          /\ health' = Reconciled(health, seen)
          /\ tick' = [pc |-> "judged", at |-> now,
                      verdict |-> Verdict(Reconciled(health, seen), judged)]
          /\ hasty' = (hasty \/ tick'.verdict # Verdict(Reconciled(health, seen), TRUE))
    BY <1>12 DEF TickStart
  <2> DEFINE verdict == Verdict(Reconciled(health, seen), TRUE)
  <2>2. tick'.pc = "judged" /\ tick'.verdict = verdict
    BY <2>1 DEF Orderly
  <2>3. UNCHANGED <<token, revoked, enabled, wire, memo, probe>>
    BY <1>12 DEF TickStart
  <2>4. MembersAreCurrent'
    BY <2>1, <2>3, ReconciledHasNoMore
  <2>5. verdict = "serviceable" => ~TrafficRejected(health') /\ ~Unnamed'
    <3>1. verdict = "serviceable" => ~TrafficRejected(health')
      BY <2>1, RejectedIsDead DEF TypeInv
    <3>2. Unnamed => verdict = "dead"
      BY DEF Verdict, RejectionStands
    <3> QED
      BY <2>3, <3>1, <3>2
  <2>6. verdict = "dead" => TrafficRejected(health') \/ RejectionStands(TRUE)
    BY <2>1 DEF Verdict
  <2>7. RejectionStands(TRUE) /\ enabled => token \in revoked
    BY DEF RejectionStands
  <2>8. TickIsCurrent'
    <3> HIDE DEF verdict
    <3> QED
      BY <2>2, <2>3, <2>4, <2>5, <2>6, <2>7
  <2> QED
    BY <2>3, <2>4, <2>8
<1>13. CASE RetireRejected
  BY <1>13 DEF RetireRejected, TypeInv, TypeOK, TickState
<1>14. CASE PinRejection
  BY <1>14 DEF PinRejection, IdleTick
<1>15. CASE RetireDrained
  BY <1>15 DEF RetireDrained, IdleTick
<1>16. CASE Promote
  BY <1>16 DEF Promote, IdleTick
<1>17. CASE TickEnd
  BY <1>17 DEF TickEnd, IdleTick
<1>18. ~Crash
  BY RefusalAssumption DEF Crash, Orderly, TypeInv, TypeOK
<1>19. CASE UNCHANGED <<token, revoked, enabled, wire, health, memo, probe, tick>>
  BY <1>19
<1> QED
  BY <1>3, <1>4, <1>5, <1>6, <1>8, <1>9, <1>10, <1>11, <1>12, <1>13, <1>14, <1>15, <1>16,
     <1>17, <1>18, <1>19 DEF Next, vars, ClockTick, Flush

(* "Fingerprint identifies the access token a refusal describes": for any  *)
(* models, panel refreshes, failures and orderly logins, a token that is   *)
(* written off by name is one upstream has stopped accepting.              *)
THEOREM OnlyRefusedIsPinned == Spec => []FingerprintNamesRefused
<1>1. TypeInv /\ CurrentInv /\ [Next]_vars => TypeInv' /\ CurrentInv'
  BY TypeStep, CurrentStep
<1>2. CurrentInv => FingerprintNamesRefused
  BY DEF CurrentInv, Orderly, FingerprintNamesRefused
<1> QED
  BY <1>1, <1>2, TypeInit, CurrentInit, PTL DEF Spec
=============================================================================
