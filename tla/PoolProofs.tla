------------------------------ MODULE PoolProofs ------------------------------
(***************************************************************************)
(* What a rotation guarantees for a pool of any size while ticks do not    *)
(* overlap: the day's changes are bounded, retirement keeps the target and *)
(* gives up the spent first, newcomers join the back of the queue.         *)
(*                                                                         *)
(* The argument: outside the switch gap the host's list has every enabled  *)
(* file, so the credentials a tick disables, promotes and retires are      *)
(* different ones, and what it counts as live is on disk.                  *)
(***************************************************************************)
EXTENDS Pool, FiniteSetTheorems, TLAPS

(* A finite set of integers that has an element has a least one: of its    *)
(* subsets without one, none is smallest.                                  *)
LEMMA LeastExists ==
    ASSUME NEW S \in SUBSET Int, IsFiniteSet(S), S # {}
    PROVE  Min(S) \in S /\ \A y \in S : Min(S) <= y
<1> DEFINE Least(T) == \E x \in T : \A y \in T : x <= y
           Bad == {T \in SUBSET S : T # {} /\ ~Least(T)}
<1>1. Bad = {}
  <2>1. SUFFICES ASSUME Bad # {}
                 PROVE  FALSE
    OBVIOUS
  <2>2. IsWellFoundedOn(StrictSubsetOrdering(S), SUBSET S)
    BY FS_StrictSubsetOrderingWellFounded, FS_FiniteSubsetsOfFinite
  <2>3. PICK T \in Bad : \A U \in Bad : ~(<<U, T>> \in StrictSubsetOrdering(S))
    <3> HIDE DEF Bad
    <3>1. Bad \subseteq SUBSET S
      BY DEF Bad
    <3> QED
      BY <2>1, <2>2, <3>1, WFMin
  <2>4. PICK x : x \in T
    OBVIOUS
  <2> DEFINE U == T \ {x}
  <2>5. <<U, T>> \in StrictSubsetOrdering(S)
    BY <2>4 DEF StrictSubsetOrdering
  <2>6. U = {} \/ Least(U)
    BY <2>3, <2>5
  <2>7. CASE U = {}
    <3>1. \A y \in T : x <= y
      BY <2>4, <2>7
    <3> QED
      BY <2>4, <3>1
  <2>8. CASE Least(U)
    <3>1. PICK m \in U : \A y \in U : m <= y
      BY <2>8
    <3>2. x \in Int /\ m \in Int /\ T \subseteq Int
      BY <2>4
    <3>3. CASE x <= m
      <4>1. \A y \in T : x <= y
        BY <3>1, <3>2, <3>3
      <4> QED
        BY <2>4, <4>1
    <3>4. CASE ~(x <= m)
      <4>1. \A y \in T : m <= y
        BY <3>1, <3>2, <3>4
      <4> QED
        BY <3>1, <4>1
    <3> QED
      BY <3>3, <3>4
  <2> QED
    BY <2>6, <2>7, <2>8
<1>2. Least(S)
  BY <1>1
<1> QED
  BY <1>2 DEF Min

LEMMA MissingType ==
    ASSUME NEW S \in SUBSET Cred
    PROVE  Missing(S) \in Nat
<1>1. Cardinality(S) \in Nat
  BY PoolAssumption, FS_Subset, FS_CardinalityType
<1> DEFINE n == KeepEnabled - Cardinality(S)
<1>2. n \in Int
  BY <1>1, PoolAssumption
<1>3. \E x \in {0, n} : \A y \in {0, n} : x >= y
  BY <1>2
<1>4. Max({0, n}) \in Nat
  <2> HIDE DEF n
  <2>1. Max({0, n}) \in {0, n} /\ Max({0, n}) >= 0
    BY <1>3 DEF Max
  <2> QED
    BY <1>2, <2>1
<1> QED
  BY <1>4 DEF Missing

(* backOfQueue is below every member whose priority could be read.         *)
LEMMA BackOfQueueBelow ==
    ASSUME NEW E \in SUBSET Cred, NEW unread \in SUBSET Cred, prio \in [Cred -> Int]
    PROVE  /\ BackOfQueue(E, unread) \in Int
           /\ \A c \in E \ unread : BackOfQueue(E, unread) < prio[c]
<1> DEFINE S == {CredentialPriority(c, unread) : c \in E}
<1>1. CASE E = {}
  BY <1>1 DEF BackOfQueue
<1>2. CASE E # {}
  <2>1. S \in SUBSET Int
    BY DEF CredentialPriority
  <2>2. [c \in E |-> CredentialPriority(c, unread)] \in Surjection(E, S)
    BY DEF Surjection
  <2>3. IsFiniteSet(S)
    BY <2>2, PoolAssumption, FS_Subset, FS_Surjection
  <2>4. S # {}
    BY <1>2
  <2>5. Min(S) \in S /\ \A y \in S : Min(S) <= y
    <3> HIDE DEF S
    <3> QED
      BY <2>1, <2>3, <2>4, LeastExists
  <2>6. BackOfQueue(E, unread) = Min(S) - 1
    BY <1>2 DEF BackOfQueue
  <2>7. \A c \in E \ unread : prio[c] \in S
    BY DEF CredentialPriority
  <2>8. Min(S) \in Int
    BY <2>1, <2>5
  <2> QED
    <3> HIDE DEF S
    <3> QED
      BY <2>5, <2>6, <2>7, <2>8
<1> QED
  BY <1>1, <1>2

-----------------------------------------------------------------------------
(* Types. *)

Tick ==
    [pc : Phase, forced : BOOLEAN, clear : BOOLEAN, fresh : BOOLEAN,
     enabled : SUBSET Cred, pool : SUBSET Cred, res : [Cred -> Result],
     todo : SUBSET Cred, short : Nat, prom : SUBSET Cred,
     resv : SUBSET Cred, touched : SUBSET Cred, next : Int,
     promoted : Nat, live : Int]

Reasons == {"none", "pool_healthy", "daily_limit_reached", "nothing_serving",
            "running_low", "no_standby", "promotion_failed", "rotated"}

FileTypes ==
    disk \in [Cred -> BOOLEAN] /\ host \in [Cred -> BOOLEAN] /\ prio \in [Cred -> Int]
WorldTypes == truth \in [Cred -> Truth] /\ drift \in 0 .. MaxDrift /\ fails \in 0 .. drift
LedgerTypes ==
    /\ known \in [Cred -> Known]
    /\ asked \subseteq Cred /\ pinned \subseteq Cred
    /\ rolled \subseteq Cred /\ burning \subseteq Cred
BookTypes ==
    recent \subseteq Cred /\ cooling \in BOOLEAN /\ dayCount \in Nat /\ reason \in Reasons
TickTypes == tick \in [Ticker -> Tick]

LEMMA TypesSplit ==
    /\ TypeOK <=> FileTypes /\ WorldTypes /\ LedgerTypes /\ BookTypes /\ TickTypes
    /\ TypeOK' <=> FileTypes' /\ WorldTypes' /\ LedgerTypes' /\ BookTypes' /\ TickTypes'
  BY DEF TypeOK, FileTypes, WorldTypes, LedgerTypes, BookTypes, TickTypes, Tick, Reasons

LEMMA CardinalityType ==
    ASSUME NEW S \in SUBSET Cred
    PROVE  IsFiniteSet(S) /\ Cardinality(S) \in Nat /\ Cardinality(S) <= Cardinality(Cred)
  BY PoolAssumption, FS_Subset, FS_CardinalityType

LEMMA DisjointUnion ==
    ASSUME NEW S \in SUBSET Cred, NEW T \in SUBSET Cred, S \cap T = {}
    PROVE  Cardinality(S \cup T) = Cardinality(S) + Cardinality(T)
<1>1. /\ IsFiniteSet(S) /\ Cardinality(S) \in Nat
      /\ IsFiniteSet(T) /\ Cardinality(T) \in Nat
  BY CardinalityType
<1>2. Cardinality(S \cap T) = 0
  BY FS_EmptySet
<1>3. Cardinality(S \cup T) = Cardinality(S) + Cardinality(T) - Cardinality(S \cap T)
  BY <1>1, FS_Union
<1> QED
  BY <1>1, <1>2, <1>3

LEMMA IdleType ==
    IdleTick \in Tick
  BY DEF IdleTick, Tick, Phase, Result

LEMMA StepType ==
    ASSUME TickTypes, NEW t \in Ticker, NEW k \in Tick, Step(t, k)
    PROVE  TickTypes'
  BY DEF TickTypes, Step

LEMMA FinishType ==
    ASSUME TickTypes, NEW t \in Ticker, NEW why \in Reasons, Finish(t, why)
    PROVE  TickTypes' /\ reason' \in Reasons
  BY StepType, IdleType DEF Finish

LEMMA FailuresType ==
    ASSUME WorldTypes, NEW n \in Nat, Failures(n)
    PROVE  /\ drift' \in 0 .. MaxDrift /\ fails' \in 0 .. drift'
           /\ fails' = fails + n
  BY PoolAssumption DEF WorldTypes, Failures

LEMMA ShortfallType ==
    ASSUME NEW E \in SUBSET Cred, NEW res
    PROVE  Shortfall(E, res) \in Nat
  BY MissingType DEF Shortfall, Healthy

LEMMA WidenType ==
    ASSUME NEW k \in Tick
    PROVE  Widen(k) \in Tick
  BY DEF Widen, Tick, Phase

LEMMA PicksAreCandidates ==
    ASSUME NEW prom, NEW resv, NEW short, NEW unserved,
           NEW picks \in PickSets(prom, resv, short, unserved)
    PROVE  picks \subseteq prom \cup resv
  BY DEF PickSets, kSubset

LEMMA BookedType ==
    ASSUME BookTypes, NEW c \in Cred, NEW disabling, Booked(c, disabling),
           UNCHANGED <<cooling, reason>>
    PROVE  BookTypes'
  BY DEF BookTypes, Booked

LEMMA FileWriteType ==
    ASSUME FileTypes, WorldTypes, NEW c \in Cred, NEW ok \in BOOLEAN,
           NEW on \in BOOLEAN, NEW p \in Int, FileWrite(c, ok, on, p), UNCHANGED truth
    PROVE  FileTypes' /\ WorldTypes'
<1>1. FileTypes'
  BY DEF FileTypes, FileWrite
<1>2. WorldTypes'
  BY FailuresType DEF WorldTypes, FileWrite
<1> QED
  BY <1>1, <1>2

LEMMA TypeInit ==
    ASSUME Init
    PROVE  TypeOK
<1>1. FileTypes /\ LedgerTypes /\ BookTypes
  <2>1. FileTypes
    BY DEF Init, FileTypes
  <2>2. LedgerTypes
    BY DEF Init, LedgerTypes
  <2>3. BookTypes
    BY DEF Init, BookTypes, Reasons
  <2> QED
    BY <2>1, <2>2, <2>3
<1>2. WorldTypes
  BY PoolAssumption DEF Init, WorldTypes, Truth, Quota
<1>3. TickTypes
  BY IdleType DEF Init, TickTypes
<1> QED
  BY <1>1, <1>2, <1>3, TypesSplit

LEMMA TypeBegin ==
    ASSUME TypeOK, NEW t \in Ticker, TickBegin(t)
    PROVE  TypeOK'
<1> USE TypesSplit
<1>1. FileTypes' /\ WorldTypes' /\ LedgerTypes' /\ BookTypes'
  BY DEF TickBegin, FileTypes, WorldTypes, LedgerTypes, BookTypes, files, world, ledger,
         books, switches
<1>2. PICK forced \in BOOLEAN :
        Step(t, [IdleTick EXCEPT
                     !.pc = "resync", !.forced = forced, !.clear = ~cooling,
                     !.fresh = (host = disk),
                     !.enabled = HostEnabled, !.pool = HostPool,
                     !.res = [c \in Cred |-> IF c \in HostPool THEN known[c] ELSE "bare"],
                     !.todo = rolled \cap HostPool])
  BY DEF TickBegin
<1>3. [c \in Cred |-> IF c \in HostPool THEN known[c] ELSE "bare"] \in [Cred -> Result]
  BY DEF LedgerTypes, Result
<1>4. HostEnabled \subseteq Cred /\ HostPool \subseteq Cred
  BY DEF HostEnabled, HostPool
<1>5. TickTypes'
  BY <1>2, <1>3, <1>4, IdleType, StepType DEF Tick, Phase, BookTypes
<1> QED
  BY <1>1, <1>5

LEMMA UncoveredType ==
    ASSUME LedgerTypes, NEW c \in Cred, Uncovered(c)
    PROVE  known' \in [Cred -> Known] /\ rolled' \subseteq Cred
  BY DEF Uncovered, LedgerTypes, Known, Truth, Quota

LEMMA TypeAsk ==
    ASSUME TypeOK, NEW t \in Ticker, NEW c \in Cred, Ask(t, c)
    PROVE  TypeOK'
<1> USE TypesSplit
<1>1. tick[t] \in Tick
  BY DEF TickTypes
<1>2. FileTypes' /\ BookTypes'
  BY DEF Ask, FileTypes, BookTypes, files, books, switches
<1>3. CASE c \in NeverEnable \cup asked \cup pinned
  <2>1. Step(t, [tick[t] EXCEPT !.todo = @ \ {c}]) /\ UNCHANGED <<ledger, drift, fails, truth>>
    BY <1>3 DEF Ask
  <2>2. [tick[t] EXCEPT !.todo = @ \ {c}] \in Tick
    BY <1>1 DEF Tick
  <2> QED
    BY <1>2, <2>1, <2>2, StepType DEF LedgerTypes, WorldTypes, ledger
<1>4. CASE c \notin NeverEnable \cup asked \cup pinned
  <2>1. PICK a \in {truth[c], "failed", "bare"} :
          /\ Step(t, [tick[t] EXCEPT !.todo = @ \ {c}, !.res[c] = a])
          /\ Answered(c) \/ Unanswered(c)
          /\ Failures(IF a \in Truth THEN 0 ELSE 1)
          /\ UNCHANGED <<burning, truth>>
    BY <1>4 DEF Ask
  <2>2. a \in Result
    BY DEF WorldTypes, Result, Known
  <2>3. [tick[t] EXCEPT !.todo = @ \ {c}, !.res[c] = a] \in Tick
    BY <1>1, <2>2 DEF Tick
  <2>4. LedgerTypes'
    <3>1. CASE Answered(c)
      BY <2>1, <3>1 DEF Answered, LedgerTypes, WorldTypes, Known
    <3>2. CASE Unanswered(c)
      BY <2>1, <3>2, UncoveredType DEF Unanswered, LedgerTypes
    <3> QED
      BY <2>1, <3>1, <3>2
  <2>5. WorldTypes'
    BY <2>1, FailuresType DEF WorldTypes
  <2> QED
    BY <1>2, <2>1, <2>3, <2>4, <2>5, StepType
<1> QED
  BY <1>3, <1>4

LEMMA TypeDecide ==
    ASSUME TypeOK, NEW t \in Ticker,
           Judge(t) \/ Confirmed(t) \/ Widened(t) \/ Vetted(t)
    PROVE  TypeOK'
<1> USE TypesSplit
<1>1. tick[t] \in Tick
  BY DEF TickTypes
<1> DEFINE k == [tick[t] EXCEPT !.short = Shortfall(tick[t].enabled, tick[t].res)]
<1>2. k \in Tick
  <2>1. Shortfall(tick[t].enabled, tick[t].res) \in Nat
    BY <1>1, ShortfallType DEF Tick
  <2> QED
    BY <1>1, <2>1 DEF Tick
<1>3. FileTypes' /\ WorldTypes' /\ LedgerTypes' /\ UNCHANGED switches
  BY DEF Judge, Confirmed, Widened, Vetted, FileTypes, WorldTypes, LedgerTypes, files,
         world, ledger, books
<1>4. ASSUME TickTypes', reason' \in Reasons
      PROVE  TypeOK'
  BY <1>3, <1>4 DEF BookTypes, switches
<1>5. CASE Judge(t)
  <2>1. CASE \E why \in Reasons : Finish(t, why)
    BY <1>4, <2>1, FinishType
  <2>2. CASE /\ Step(t, IF Confirm THEN [k EXCEPT !.pc = "confirm",
                                         !.todo = k.enabled \ Healthy(k.enabled, k.res)]
                        ELSE Widen(k))
             /\ UNCHANGED reason
    <3>1. [k EXCEPT !.pc = "confirm", !.todo = k.enabled \ Healthy(k.enabled, k.res)] \in Tick
      BY <1>2 DEF Tick, Phase
    <3>2. Widen(k) \in Tick
      BY <1>2, WidenType
    <3> HIDE DEF k
    <3> QED
      BY <1>4, <2>2, <3>1, <3>2, StepType DEF BookTypes
  <2>3. reason \in Reasons
    BY DEF BookTypes
  <2> QED
    BY <1>5, <2>1, <2>2, <2>3 DEF Judge, Reasons
<1>6. CASE Confirmed(t)
  <2>1. CASE Finish(t, "pool_healthy")
    BY <1>4, <2>1, FinishType DEF Reasons
  <2>2. CASE Step(t, Widen(k)) /\ UNCHANGED reason
    BY <1>2, <1>4, <2>2, WidenType, StepType DEF BookTypes
  <2> QED
    BY <1>6, <2>1, <2>2 DEF Confirmed
<1>7. CASE Widened(t)
  <2>1. PICK picks \in IF Confirm
                       THEN PickSets(Promotable(tick[t]), Reserves(tick[t]), tick[t].short,
                                     Unserved(tick[t].enabled, tick[t].res))
                       ELSE {{}} :
          Step(t, [tick[t] EXCEPT !.pc = "vet", !.todo = picks])
    BY <1>7 DEF Widened
  <2>2. picks \subseteq Cred
    <3>1. Promotable(tick[t]) \subseteq Cred /\ Reserves(tick[t]) \subseteq Cred
      BY <1>1 DEF Promotable, Reserves, Tick
    <3>2. CASE Confirm
      BY <2>1, <3>1, <3>2, PicksAreCandidates
    <3> QED
      BY <2>1, <3>2
  <2>3. [tick[t] EXCEPT !.pc = "vet", !.todo = picks] \in Tick
    BY <1>1, <2>2 DEF Tick, Phase
  <2>4. UNCHANGED reason
    BY <1>7 DEF Widened, books
  <2> QED
    BY <1>4, <2>1, <2>3, <2>4, StepType DEF BookTypes
<1>8. CASE Vetted(t)
  <2> DEFINE todo == IF ~DisableDead THEN {}
                     ELSE {c \in tick[t].enabled \ NeverDisable : tick[t].res[c] = "refused"}
             kk == [tick[t] EXCEPT
                      !.pc = "refused", !.prom = Promotable(tick[t]),
                      !.resv = Reserves(tick[t]), !.todo = todo]
  <2>1. Promotable(tick[t]) \subseteq Cred /\ Reserves(tick[t]) \subseteq Cred
    BY <1>1 DEF Promotable, Reserves, Tick
  <2>2. todo \subseteq Cred
    BY <1>1 DEF Tick
  <2>3. kk \in Tick
    BY <1>1, <2>1, <2>2 DEF Tick, Phase
  <2>4. Step(t, kk) /\ UNCHANGED reason
    BY <1>8 DEF Vetted, books
  <2> QED
    BY <1>4, <2>3, <2>4, StepType DEF BookTypes
<1> QED
  BY <1>5, <1>6, <1>7, <1>8

LEMMA TypeRetireRefused ==
    ASSUME TypeOK, NEW t \in Ticker, NEW c \in Cred, RetireRefused(t, c)
    PROVE  TypeOK'
<1> USE TypesSplit
<1>1. PICK ok \in {TRUE, DryRun} :
        /\ Booked(c, TRUE)
        /\ FileWrite(c, ok, FALSE, prio[c])
        /\ Step(t, [tick[t] EXCEPT !.todo = @ \ {c},
                                   !.touched = IF ok THEN @ \cup {c} ELSE @])
        /\ Pin(c) \/ UNCHANGED <<known, asked, pinned>>
  BY DEF RetireRefused
<1>2. UNCHANGED <<truth, rolled, burning, cooling, reason>>
  BY DEF RetireRefused
<1>3. ok \in BOOLEAN
  BY PoolAssumption
<1>4. FileTypes' /\ WorldTypes' /\ BookTypes'
  BY <1>1, <1>2, <1>3, FileWriteType, BookedType DEF FileTypes
<1>5. LedgerTypes'
  BY <1>1, <1>2 DEF LedgerTypes, Pin, Known, Truth
<1>6. TickTypes'
  <2>1. [tick[t] EXCEPT !.todo = @ \ {c}, !.touched = IF ok THEN @ \cup {c} ELSE @] \in Tick
    BY DEF TickTypes, Tick
  <2> QED
    BY <1>1, <2>1, StepType
<1> QED
  BY <1>4, <1>5, <1>6

LEMMA TypePromote ==
    ASSUME TypeOK, NEW t \in Ticker, NEW c \in Cred, Promote(t, c)
    PROVE  TypeOK'
<1> USE TypesSplit
<1>1. PICK ok \in {TRUE, DryRun} :
        /\ Booked(c, FALSE)
        /\ FileWrite(c, ok, TRUE, tick[t].next)
        /\ Step(t, [tick[t] EXCEPT !.todo = @ \ {c}, !.next = @ - 1,
                                   !.promoted = IF ok THEN @ + 1 ELSE @])
  BY DEF Promote
<1>2. UNCHANGED <<truth, ledger, cooling, reason>>
  BY DEF Promote
<1>3. ok \in BOOLEAN /\ tick[t].next \in Int
  BY PoolAssumption DEF TickTypes, Tick
<1>4. FileTypes' /\ WorldTypes' /\ BookTypes'
  BY <1>1, <1>2, <1>3, FileWriteType, BookedType
<1>5. LedgerTypes'
  BY <1>2 DEF LedgerTypes, ledger
<1>6. TickTypes'
  <2> DEFINE k == tick[t]
             kk == [k EXCEPT !.todo = @ \ {c}, !.next = @ - 1,
                             !.promoted = IF ok THEN @ + 1 ELSE @]
  <2>0. k \in Tick
    BY DEF TickTypes
  <2>1. kk \in Tick
    <3> HIDE DEF k
    <3>1. k.next - 1 \in Int /\ (IF ok THEN k.promoted + 1 ELSE k.promoted) \in Nat
      BY <2>0 DEF Tick
    <3>2. k.todo \ {c} \subseteq Cred
      BY <2>0 DEF Tick
    <3> QED
      BY <2>0, <3>1, <3>2 DEF Tick
  <2> QED
    BY <1>1, <2>1, StepType
<1> QED
  BY <1>4, <1>5, <1>6

LEMMA TypeRetireDrained ==
    ASSUME TypeOK, NEW t \in Ticker, NEW c \in Cred, RetireDrained(t, c)
    PROVE  TypeOK'
<1> USE TypesSplit
<1>1. PICK ok \in {TRUE, DryRun} :
        /\ Booked(c, TRUE)
        /\ FileWrite(c, ok, FALSE, prio[c])
        /\ Step(t, [tick[t] EXCEPT !.todo = @ \ {c}, !.live = IF ok THEN @ - 1 ELSE @])
  BY DEF RetireDrained
<1>2. UNCHANGED <<truth, ledger, cooling, reason>>
  BY DEF RetireDrained
<1>3. ok \in BOOLEAN
  BY PoolAssumption
<1>4. FileTypes' /\ WorldTypes' /\ BookTypes'
  BY <1>1, <1>2, <1>3, FileWriteType, BookedType DEF FileTypes
<1>5. LedgerTypes'
  BY <1>2 DEF LedgerTypes, ledger
<1>6. TickTypes'
  <2> DEFINE k == tick[t]
             kk == [k EXCEPT !.todo = @ \ {c}, !.live = IF ok THEN @ - 1 ELSE @]
  <2>0. k \in Tick
    BY DEF TickTypes
  <2>1. kk \in Tick
    <3> HIDE DEF k
    <3>1. (IF ok THEN k.live - 1 ELSE k.live) \in Int
      BY <2>0 DEF Tick
    <3>2. k.todo \ {c} \subseteq Cred
      BY <2>0 DEF Tick
    <3> QED
      BY <2>0, <3>1, <3>2 DEF Tick
  <2> QED
    BY <1>1, <2>1, StepType
<1> QED
  BY <1>4, <1>5, <1>6

LEMMA TypeRecount ==
    ASSUME TypeOK, NEW t \in Ticker, Recount(t)
    PROVE  TypeOK'
<1> USE TypesSplit
<1>1. PICK listed \in {HostEnabled, {}}, lost \in {0, 1} : RecountOf(t, listed, lost)
  BY DEF Recount
<1>2. listed \subseteq Cred
  BY DEF HostEnabled
<1> DEFINE short == Shortfall(listed, known)
           unserved == Unserved(listed, known)
           k == tick[t]
<1>3. FileTypes' /\ LedgerTypes' /\ UNCHANGED <<truth, switches>>
  BY <1>1 DEF RecountOf, FileTypes, LedgerTypes, files, ledger
<1>4. short \in Nat
  BY <1>2, ShortfallType
<1>5. CASE /\ \E why \in Reasons : Finish(t, why)
           /\ Failures(lost)
  <2>1. TickTypes' /\ reason' \in Reasons
    BY <1>5, FinishType
  <2>2. WorldTypes'
    BY <1>3, <1>5, FailuresType DEF WorldTypes
  <2> QED
    BY <1>3, <2>1, <2>2 DEF BookTypes, switches
<1>6. CASE \E picks \in PickSets(k.prom, k.resv, short, unserved),
              unread \in SUBSET listed :
                /\ Step(t, [k EXCEPT !.pc = "promote", !.enabled = listed,
                                     !.todo = picks, !.short = short,
                                     !.next = BackOfQueue(listed, unread)])
                /\ Failures(lost + Cardinality(unread))
                /\ UNCHANGED reason
  <2>1. PICK picks \in PickSets(k.prom, k.resv, short, unserved),
             unread \in SUBSET listed :
               /\ Step(t, [k EXCEPT !.pc = "promote", !.enabled = listed,
                                    !.todo = picks, !.short = short,
                                    !.next = BackOfQueue(listed, unread)])
               /\ Failures(lost + Cardinality(unread))
               /\ UNCHANGED reason
    BY <1>6
  <2>2. k \in Tick
    BY DEF TickTypes
  <2>3. picks \subseteq Cred
    BY <2>2, PicksAreCandidates DEF Tick
  <2>4. BackOfQueue(listed, unread) \in Int
    BY <1>2, BackOfQueueBelow DEF FileTypes
  <2>5. TickTypes'
    <3> HIDE DEF k, short
    <3>1. [k EXCEPT !.pc = "promote", !.enabled = listed, !.todo = picks,
                    !.short = short, !.next = BackOfQueue(listed, unread)] \in Tick
      BY <1>2, <1>4, <2>2, <2>3, <2>4 DEF Tick, Phase
    <3> QED
      BY <2>1, <3>1, StepType
  <2>6. lost + Cardinality(unread) \in Nat
    BY <1>2, CardinalityType
  <2>7. WorldTypes'
    BY <1>3, <2>1, <2>6, FailuresType DEF WorldTypes
  <2> QED
    BY <1>3, <2>1, <2>5, <2>7 DEF BookTypes, switches
<1>7. {"pool_healthy", "nothing_serving", "running_low", "no_standby"} \subseteq Reasons
  BY DEF Reasons
<1> HIDE DEF short, unserved
<1> QED
  BY <1>1, <1>5, <1>6, <1>7 DEF RecountOf, short, unserved

LEMMA TypeClose ==
    ASSUME TypeOK, NEW t \in Ticker, Promoted(t) \/ Rotated(t)
    PROVE  TypeOK'
<1> USE TypesSplit
<1>1. FileTypes' /\ WorldTypes' /\ LedgerTypes' /\ UNCHANGED <<recent, dayCount>>
  BY DEF Promoted, Rotated, FileTypes, WorldTypes, LedgerTypes, files, world, ledger, switches
<1>2. CASE \E why \in Reasons : Finish(t, why) /\ cooling' \in BOOLEAN
  BY <1>1, <1>2, FinishType DEF BookTypes
<1> DEFINE k == tick[t]
           kk == [k EXCEPT
                    !.pc = "drain",
                    !.live = k.promoted + Cardinality(k.enabled \ k.touched),
                    !.todo = {c \in k.enabled \ (NeverDisable \cup k.touched) :
                        MemberState(c, k.res[c]) \in {"dead", "exhausted", "draining"}}]
<1>3. CASE Step(t, kk) /\ UNCHANGED <<reason, cooling>>
  <2>1. k \in Tick
    BY DEF TickTypes
  <2>2. k.enabled \ k.touched \subseteq Cred
    BY <2>1 DEF Tick
  <2>3. k.promoted + Cardinality(k.enabled \ k.touched) \in Int
    BY <2>1, <2>2, CardinalityType DEF Tick
  <2>4. kk \in Tick
    BY <2>1, <2>2, <2>3 DEF Tick, Phase
  <2> QED
    BY <1>1, <1>3, <2>4, StepType DEF BookTypes
<1>4. CASE Promoted(t)
  BY <1>2, <1>3, <1>4 DEF Promoted, Reasons, switches, BookTypes
<1>5. CASE Rotated(t)
  BY <1>2, <1>5 DEF Rotated, Reasons
<1> QED
  BY <1>4, <1>5

LEMMA TypeOutside ==
    ASSUME TypeOK,
           \/ \E c \in Cred : \/ Traffic(c) \/ Elsewhere(c) \/ Reset(c) \/ Login(c)
                             \/ HostSync(c) \/ Forget(c) \/ HourElapses(c) \/ Calm(c)
           \/ GapElapses
           \/ NewDay
    PROVE  TypeOK'
<1> USE TypesSplit
<1>1. ASSUME Drift
      PROVE  drift' \in 0 .. MaxDrift /\ fails' \in 0 .. drift'
  BY <1>1, PoolAssumption DEF Drift, WorldTypes
<1>2. \A q \in Truth : Lower(q) \subseteq Truth
  BY DEF Lower, Truth, Quota
<1>3. ASSUME NEW c \in Cred, Traffic(c)
      PROVE  TypeOK'
  <2>1. LedgerTypes' /\ truth' \in [Cred -> Truth]
    <3>1. PICK q \in Truth :
            /\ truth' = [truth EXCEPT ![c] = q]
            /\ known' = [known EXCEPT ![c] = IF c \in pinned THEN "refused" ELSE q]
      BY <1>2, <1>3 DEF Traffic, WorldTypes
    <3>2. known' \in [Cred -> Known] /\ truth' \in [Cred -> Truth]
      BY <3>1 DEF LedgerTypes, WorldTypes, Known, Truth
    <3> QED
      BY <1>3, <3>2 DEF Traffic, LedgerTypes
  <2> QED
    BY <1>1, <1>3, <2>1 DEF Traffic, FileTypes, WorldTypes, BookTypes, TickTypes,
       files, books, switches
<1>4. ASSUME NEW c \in Cred, Elsewhere(c)
      PROVE  TypeOK'
  BY <1>1, <1>2, <1>4 DEF Elsewhere, FileTypes, WorldTypes, LedgerTypes, BookTypes, TickTypes,
         files, ledger, books, switches, Truth
<1>5. ASSUME NEW c \in Cred, Reset(c)
      PROVE  TypeOK'
  BY <1>1, <1>5 DEF Reset, FileTypes, WorldTypes, LedgerTypes, BookTypes, TickTypes,
         files, Truth, Quota, Known
<1>6. ASSUME NEW c \in Cred, Login(c)
      PROVE  TypeOK'
  <2>1. LedgerTypes'
    BY <1>6, UncoveredType DEF Login, LedgerTypes
  <2>2. truth' \in [Cred -> Truth]
    <3>1. \A r : LeftOf(r) \subseteq Truth \/ r \in {"empty", "pausing"}
      BY DEF LeftOf, Truth
    <3>2. LeftOf("empty") \subseteq Truth /\ LeftOf("pausing") \subseteq Truth
      BY DEF LeftOf, Truth, Quota
    <3> QED
      BY <1>6, <3>1, <3>2 DEF Login, WorldTypes
  <2> QED
    BY <1>1, <1>6, <2>1, <2>2 DEF Login, FileTypes, WorldTypes, BookTypes, TickTypes,
       files, books, switches
<1>7. ASSUME NEW c \in Cred,
             HostSync(c) \/ Forget(c) \/ HourElapses(c) \/ Calm(c)
      PROVE  TypeOK'
  BY <1>7 DEF HostSync, Forget, HourElapses, Calm, FileTypes, WorldTypes, LedgerTypes,
         BookTypes, TickTypes, files, world, ledger, books, switches
<1>8. CASE GapElapses
  <2>1. \A t \in Ticker : [tick[t] EXCEPT !.clear = FALSE] \in Tick
    BY DEF TickTypes, Tick
  <2> QED
    BY <1>8, <2>1 DEF GapElapses, FileTypes, WorldTypes, LedgerTypes, BookTypes, TickTypes,
         files, world, ledger
<1>9. CASE NewDay
  BY <1>1, <1>9 DEF NewDay, FileTypes, WorldTypes, LedgerTypes, BookTypes, TickTypes,
         files, ledger
<1> QED
  BY <1>3, <1>4, <1>5, <1>6, <1>7, <1>8, <1>9

LEMMA TypeStep ==
    ASSUME TypeOK, [Next]_vars
    PROVE  TypeOK'
<1>1. CASE UNCHANGED vars
  BY <1>1 DEF vars, files, world, ledger, books, switches, TypeOK
<1>2. CASE Next
  BY <1>2, TypeBegin, TypeAsk, TypeDecide, TypeRetireRefused, TypeRecount, TypePromote,
     TypeRetireDrained, TypeClose, TypeOutside DEF Next, TickStep
<1> QED
  BY <1>1, <1>2

(* Every state of the rotation is well typed, whatever the pool and however *)
(* many ticks run at once.                                                 *)
THEOREM TypeCorrect == Spec => []TypeOK
<1>1. Init => TypeOK
  BY TypeInit
<1>2. TypeOK /\ [Next]_vars => TypeOK'
  BY TypeStep
<1> QED
  BY <1>1, <1>2, PTL DEF Spec

-----------------------------------------------------------------------------
(* What one tick may rely on while no other tick runs.                     *)

Probing == {"resync", "confirm", "widen", "vet"}
Deciding == {"confirm", "widen", "vet", "refused"}
Recounting == Probing \cup {"refused"}
Acting == Deciding \cup {"promote", "drain"}

(* A tick that acts began after the switch gap, which only its own end     *)
(* starts again.                                                           *)
ActsInTheClear ==
    \A t \in Ticker :
        /\ tick[t].pc \in Acting => tick[t].clear
        /\ tick[t].pc # "idle" /\ tick[t].clear => ~cooling

(* Outside the gap the host knows of every enabled file: only a promotion  *)
(* is news to it.                                                          *)
HostKnowsEnabled ==
    \A t \in Ticker :
        /\ \/ tick[t].pc \in Recounting \cup {"idle"}
           \/ tick[t].pc = "promote" /\ tick[t].promoted = 0
        /\ ~cooling
        => \A c \in Cred : disk[c] => host[c]

(* Until the recount, nobody has joined since the tick's list.             *)
NobodyJoins ==
    \A t \in Ticker :
        tick[t].pc \in Recounting /\ tick[t].clear =>
            \A c \in Cred \ tick[t].enabled : ~host[c]

(* The tick's lists of credentials to write do not overlap.                *)
ListsApart ==
    \A t \in Ticker :
        LET k == tick[t] IN
        /\ k.pc \in Recounting => k.promoted = 0
        /\ k.pc \in Probing \cup {"idle"} => k.touched = {}
        /\ k.pc = "refused" => /\ (k.prom \cup k.resv) \cap k.enabled = {}
                               /\ k.todo \subseteq k.enabled
                               /\ k.touched \subseteq k.enabled
        /\ k.pc \in {"refused", "promote", "drain"} => k.todo \cap k.touched = {}
        /\ k.pc = "promote" => /\ k.todo \cap k.enabled = {}
                               /\ \A c \in k.todo : ~disk[c]
        /\ k.pc = "drain" => k.todo \subseteq k.enabled
        /\ \A c \in k.touched : disk[c] => DryRun

(* What the tick takes to be live is on disk, if its list was up to date.  *)
LiveIsEnabled ==
    \A t \in Ticker :
        LET k == tick[t] IN
        k.fresh =>
        /\ k.pc \in Recounting => \A c \in Cred \ k.touched : host[c] = disk[c]
        /\ k.pc = "promote" /\ ~DryRun =>
               k.promoted + Cardinality(k.enabled \ k.touched) <= Cardinality(Enabled)
        /\ k.pc = "drain" /\ ~DryRun => k.live <= Cardinality(Enabled)

(* The writes still to come fit in what is left of the day's budget.       *)
Allowance(k) ==
    CASE k.pc \in Deciding -> Cardinality(k.touched)
      [] k.pc = "promote" -> Cardinality(Cred) - Cardinality(k.todo)
                                               - Cardinality(k.enabled \ k.touched)
      [] k.pc = "drain" -> Cardinality(Cred) - Cardinality(k.todo)
      [] OTHER -> Cardinality(Cred)

WithinAllowance ==
    \A t \in Ticker : dayCount < MaxChanges + fails + Allowance(tick[t])

(* The next newcomer goes behind every enabled credential.                 *)
QueueHasABack ==
    \A t \in Ticker :
        tick[t].pc = "promote" /\ fails = 0 =>
            \A c \in Cred : disk[c] => tick[t].next < prio[c]

(* The spent members that may go and are still enabled are on the list.    *)
SpentAreListed ==
    \A t \in Ticker :
        LET k == tick[t] IN
        k.pc = "drain" /\ fails = 0 /\ ~DryRun =>
            \A c \in k.enabled \ NeverDisable :
                /\ disk[c]
                /\ MemberState(c, k.res[c]) \in {"dead", "exhausted"}
                => c \in k.todo

Alone ==
    /\ ActsInTheClear /\ HostKnowsEnabled /\ NobodyJoins /\ ListsApart
    /\ LiveIsEnabled /\ WithinAllowance /\ QueueHasABack /\ SpentAreListed

IInv == TypeOK /\ Alone

LEMMA TickType ==
    ASSUME TypeOK, NEW t \in Ticker
    PROVE  tick[t] \in Tick
  BY TypesSplit DEF TickTypes

LEMMA AllowanceBound ==
    ASSUME NEW k \in Tick
    PROVE  Allowance(k) \in Int /\ Allowance(k) <= Cardinality(Cred)
<1>1. k.touched \subseteq Cred /\ k.todo \subseteq Cred /\ k.enabled \ k.touched \subseteq Cred
  BY DEF Tick
<1>2. /\ Cardinality(k.touched) \in Nat /\ Cardinality(k.touched) <= Cardinality(Cred)
      /\ Cardinality(k.todo) \in Nat /\ Cardinality(k.enabled \ k.touched) \in Nat
      /\ Cardinality(Cred) \in Nat
  BY <1>1, CardinalityType
<1> QED
  BY <1>2 DEF Allowance

LEMMA DayIsBounded ==
    ASSUME IInv, NEW t \in Ticker
    PROVE  DayBudget
<1>1. Allowance(tick[t]) \in Int /\ Allowance(tick[t]) <= Cardinality(Cred)
  BY TickType, AllowanceBound DEF IInv
<1>2. dayCount \in Nat /\ fails \in Nat /\ MaxChanges \in Nat /\ Cardinality(Cred) \in Nat
  BY PoolAssumption, CardinalityType DEF IInv, TypeOK
<1>3. dayCount < MaxChanges + fails + Allowance(tick[t])
  BY DEF IInv, Alone, WithinAllowance
<1> QED
  BY <1>1, <1>2, <1>3 DEF DayBudget

LEMMA AloneInit ==
    ASSUME Init
    PROVE  Alone
<1>1. \A t \in Ticker : /\ tick[t] = IdleTick
                        /\ tick[t].pc = "idle" /\ ~tick[t].fresh /\ tick[t].touched = {}
  BY DEF Init, IdleTick
<1>2. dayCount < MaxChanges + fails + Cardinality(Cred)
  BY PoolAssumption, CardinalityType DEF Init
<1>3. ActsInTheClear /\ NobodyJoins /\ QueueHasABack /\ SpentAreListed
  BY <1>1 DEF ActsInTheClear, NobodyJoins, QueueHasABack, SpentAreListed, Acting, Deciding,
         Recounting, Probing
<1>4. HostKnowsEnabled
  BY DEF Init, HostKnowsEnabled
<1>5. ListsApart /\ LiveIsEnabled
  BY <1>1 DEF ListsApart, LiveIsEnabled, Recounting, Probing
<1>6. WithinAllowance
  BY <1>1, <1>2 DEF WithinAllowance, Allowance, Deciding
<1> QED
  BY <1>3, <1>4, <1>5, <1>6 DEF Alone

(* A tick that ends leaves nothing behind.                                 *)
LEMMA FinishAlone ==
    ASSUME IInv, NEW t, Ticker = {t}, TypeOK', NEW why, Finish(t, why),
           UNCHANGED <<files, dayCount>>, fails' >= fails,
           cooling' \/ \A c \in Cred : disk[c] => host[c]
    PROVE  Alone'
<1>1. /\ tick'[t] = IdleTick
      /\ tick'[t].pc = "idle" /\ ~tick'[t].fresh /\ tick'[t].touched = {}
  BY DEF Finish, Step, IInv, TypeOK, IdleTick
<1>2. /\ dayCount' < MaxChanges + fails' + Cardinality(Cred)
  <2>1. DayBudget
    BY DayIsBounded
  <2>2. {dayCount, fails, fails', MaxChanges, Cardinality(Cred)} \subseteq Nat
    BY PoolAssumption, CardinalityType DEF IInv, TypeOK
  <2> QED
    BY <2>1, <2>2 DEF DayBudget
<1>3. (ActsInTheClear /\ NobodyJoins /\ QueueHasABack /\ SpentAreListed)'
  BY <1>1 DEF ActsInTheClear, NobodyJoins, QueueHasABack, SpentAreListed, Acting, Deciding,
         Recounting, Probing
<1>4. HostKnowsEnabled'
  BY DEF HostKnowsEnabled, files
<1>5. (ListsApart /\ LiveIsEnabled)'
  BY <1>1 DEF ListsApart, LiveIsEnabled, Recounting, Probing
<1>6. WithinAllowance'
  BY <1>1, <1>2 DEF WithinAllowance, Allowance, Deciding
<1> QED
  BY <1>3, <1>4, <1>5, <1>6 DEF Alone

(* Whether a credential is spent does not depend on how fast it burns.     *)
LEMMA SpentStays ==
    ASSUME NEW c, NEW r \in Result
    PROVE  /\ MemberState(c, r) \in {"dead", "exhausted"} <=> r \in {"refused", "failed", "empty"}
           /\ (MemberState(c, r) \in {"dead", "exhausted"})'
                  <=> r \in {"refused", "failed", "empty"}
  BY DEF MemberState, Result, Known, Truth, Quota

(* What does not touch ticks, files and the gap.                           *)
LEMMA QuietAlone ==
    ASSUME IInv, TypeOK', UNCHANGED <<tick, disk, prio, cooling>>,
           dayCount' \in {dayCount, 0}, fails' >= fails,
           \A c \in Cred : host'[c] = host[c] \/ host'[c] = disk[c]
    PROVE  Alone'
<1>1. \A t \in Ticker : tick[t] \in Tick /\ Allowance(tick[t]) \in Int
  BY TickType, AllowanceBound DEF IInv
<1>2. {dayCount, dayCount', fails, fails', MaxChanges, Cardinality(Cred)} \subseteq Nat
  BY PoolAssumption, CardinalityType DEF IInv, TypeOK
<1>3. ActsInTheClear' /\ QueueHasABack'
  BY <1>2 DEF IInv, Alone, ActsInTheClear, QueueHasABack
<1>4. HostKnowsEnabled'
  BY DEF IInv, Alone, HostKnowsEnabled
<1>5. NobodyJoins'
  BY DEF IInv, Alone, NobodyJoins, HostKnowsEnabled, ActsInTheClear, Recounting, Probing
<1>6. ListsApart'
  BY DEF IInv, Alone, ListsApart
<1>7. LiveIsEnabled'
  <2>1. Enabled' = Enabled
    BY DEF Enabled
  <2>2. \A c \in Cred : host[c] = disk[c] => host'[c] = disk'[c]
    OBVIOUS
  <2> QED
    BY <2>1, <2>2 DEF IInv, Alone, LiveIsEnabled
<1>8. WithinAllowance'
  <2>1. ASSUME NEW t \in Ticker
        PROVE  dayCount' < MaxChanges + fails' + Allowance(tick[t])
    <3>1. CASE dayCount' = dayCount
      BY <1>1, <1>2, <3>1 DEF IInv, Alone, WithinAllowance
    <3>2. CASE dayCount' = 0
      BY <1>1, <1>2, <3>2 DEF IInv, Alone, WithinAllowance
    <3> QED
      BY <3>1, <3>2
  <2> QED
    BY <2>1 DEF WithinAllowance, Allowance
<1>9. SpentAreListed'
  <2>1. ASSUME NEW t \in Ticker, tick[t].pc = "drain", fails' = 0, ~DryRun,
               NEW c \in tick[t].enabled \ NeverDisable, disk[c],
               (MemberState(c, tick[t].res[c]) \in {"dead", "exhausted"})'
        PROVE  c \in tick[t].todo
    <3>1. tick[t].res[c] \in Result /\ c \in Cred
      BY <1>1, <2>1 DEF Tick
    <3>2. MemberState(c, tick[t].res[c]) \in {"dead", "exhausted"}
      BY <2>1, <3>1, SpentStays DEF MemberState
    <3> QED
      BY <1>2, <2>1, <3>2 DEF IInv, Alone, SpentAreListed
  <2> QED
    BY <2>1 DEF SpentAreListed
<1> QED
  BY <1>3, <1>4, <1>5, <1>6, <1>7, <1>8, <1>9 DEF Alone

LEMMA OutsideAlone ==
    ASSUME IInv, NEW t, Ticker = {t}, TypeOK',
           \/ \E c \in Cred : \/ Traffic(c) \/ Elsewhere(c) \/ Reset(c) \/ Login(c)
                             \/ HostSync(c) \/ Forget(c) \/ HourElapses(c) \/ Calm(c)
           \/ NewDay
    PROVE  Alone'
<1>1. fails \in Nat /\ dayCount \in Nat /\ host \in [Cred -> BOOLEAN]
  BY DEF IInv, TypeOK
<1>2. ASSUME NEW c \in Cred,
             Traffic(c) \/ Elsewhere(c) \/ Reset(c) \/ Login(c)
      PROVE  Alone'
  BY <1>1, <1>2, QuietAlone DEF Traffic, Elsewhere, Reset, Login, Drift, files, books, switches
<1>3. ASSUME NEW c \in Cred,
             HostSync(c) \/ Forget(c) \/ HourElapses(c) \/ Calm(c)
      PROVE  Alone'
  BY <1>1, <1>3, QuietAlone DEF HostSync, Forget, HourElapses, Calm, files, world, books, switches
<1>4. CASE NewDay
  BY <1>1, <1>4, QuietAlone DEF NewDay, Drift, files
<1> QED
  BY <1>2, <1>3, <1>4

LEMMA GapAlone ==
    ASSUME IInv, NEW t, Ticker = {t}, TypeOK', GapElapses
    PROVE  Alone'
<1>1. tick[t] \in Tick /\ tick'[t] = [tick[t] EXCEPT !.clear = FALSE]
  BY TickType DEF IInv, GapElapses
<1>2. cooling /\ ~cooling' /\ UNCHANGED <<files, world, recent, dayCount>> /\ host = disk
  BY DEF GapElapses
<1>3. tick[t].pc \notin Acting
  BY <1>2 DEF IInv, Alone, ActsInTheClear, Acting, Deciding
<1>4. /\ tick'[t].pc = tick[t].pc /\ ~tick'[t].clear
      /\ tick'[t].fresh = tick[t].fresh /\ tick'[t].enabled = tick[t].enabled
      /\ tick'[t].touched = tick[t].touched /\ tick'[t].promoted = tick[t].promoted
  BY <1>1 DEF Tick
<1>5. ActsInTheClear' /\ NobodyJoins' /\ QueueHasABack' /\ SpentAreListed'
  BY <1>3, <1>4 DEF ActsInTheClear, NobodyJoins, QueueHasABack, SpentAreListed, Acting, Deciding
<1>6. HostKnowsEnabled'
  BY <1>2 DEF HostKnowsEnabled, files
<1>7. ListsApart' /\ LiveIsEnabled'
  BY <1>2, <1>3, <1>4 DEF IInv, Alone, ListsApart, LiveIsEnabled, Acting, Deciding, files
<1>8. WithinAllowance'
  BY <1>2, <1>3, <1>4 DEF IInv, Alone, WithinAllowance, Allowance, Acting, Deciding, world
<1> QED
  BY <1>5, <1>6, <1>7, <1>8 DEF Alone

LEMMA BeginAlone ==
    ASSUME IInv, NEW t, Ticker = {t}, TypeOK', TickBegin(t)
    PROVE  Alone'
<1>1. tick[t].pc = "idle" /\ UNCHANGED <<files, fails, cooling, dayCount>>
  BY DEF TickBegin, world, books, switches
<1>2. /\ tick'[t].pc = "resync" /\ tick'[t].clear = ~cooling
      /\ tick'[t].fresh = (host = disk) /\ tick'[t].enabled = HostEnabled
      /\ tick'[t].touched = {} /\ tick'[t].promoted = 0
  <2>1. t \in Ticker /\ tick \in [Ticker -> Tick]
    BY TypesSplit DEF IInv, TickTypes
  <2> QED
    BY <2>1 DEF TickBegin, Step, IdleTick
<1>3. ActsInTheClear' /\ QueueHasABack' /\ SpentAreListed'
  BY <1>1, <1>2 DEF ActsInTheClear, QueueHasABack, SpentAreListed, Acting, Deciding
<1>4. HostKnowsEnabled'
  BY <1>1, <1>2 DEF IInv, Alone, HostKnowsEnabled, files
<1>5. NobodyJoins'
  BY <1>1, <1>2 DEF NobodyJoins, HostEnabled, files
<1>6. ListsApart' /\ LiveIsEnabled'
  BY <1>1, <1>2 DEF ListsApart, LiveIsEnabled, files, Probing, Recounting
<1>7. WithinAllowance'
  BY <1>1, <1>2 DEF IInv, Alone, WithinAllowance, Allowance, Deciding
<1> QED
  BY <1>3, <1>4, <1>5, <1>6, <1>7 DEF Alone

(* Probes and decisions before the recount: only the tick's record moves,  *)
(* and failures.                                                           *)
Proceeds(t) ==
    /\ tick[t].pc \in Probing /\ tick'[t].pc \in Recounting
    /\ tick'[t].clear = tick[t].clear /\ tick'[t].fresh = tick[t].fresh
    /\ tick'[t].enabled = tick[t].enabled /\ tick'[t].touched = tick[t].touched
    /\ tick'[t].promoted = tick[t].promoted
    /\ UNCHANGED <<disk, host, prio, cooling, dayCount>>
    /\ fails' >= fails
    /\ tick'[t].pc \in Deciding => \/ tick[t].pc \in Deciding
                                   \/ tick[t].clear /\ dayCount < MaxChanges
    /\ tick'[t].pc = "refused" =>
           /\ (tick'[t].prom \cup tick'[t].resv) \cap tick[t].enabled = {}
           /\ tick'[t].todo \subseteq tick[t].enabled

LEMMA ProceedsAlone ==
    ASSUME IInv, NEW t, Ticker = {t}, TypeOK', Proceeds(t)
    PROVE  Alone'
<1> USE DEF Proceeds, Acting, Deciding, Recounting, Probing
<1>1. ActsInTheClear'
  BY DEF IInv, Alone, ActsInTheClear
<1>2. QueueHasABack' /\ SpentAreListed'
  BY DEF QueueHasABack, SpentAreListed
<1>3. HostKnowsEnabled' /\ NobodyJoins'
  BY DEF IInv, Alone, HostKnowsEnabled, NobodyJoins
<1>4. tick[t].touched = {}
  BY DEF IInv, Alone, ListsApart
<1>5. ListsApart' /\ LiveIsEnabled'
  BY <1>4 DEF IInv, Alone, ListsApart, LiveIsEnabled
<1>6. WithinAllowance'
  <2>1. /\ dayCount \in Nat /\ fails \in Nat /\ fails' \in Nat /\ MaxChanges \in Nat
        /\ Cardinality(Cred) \in Nat
    BY PoolAssumption, CardinalityType DEF IInv, TypeOK
  <2>2. Cardinality({}) = 0
    BY FS_EmptySet
  <2>3. dayCount < MaxChanges + fails + Allowance(tick[t])
    BY DEF IInv, Alone, WithinAllowance
  <2>4. dayCount < MaxChanges + fails + Cardinality(Cred)
    <3>1. DayBudget
      BY DayIsBounded
    <3> QED
      BY <2>1, <3>1 DEF DayBudget
  <2>5. dayCount < MaxChanges + fails + Allowance(tick'[t])
    <3>1. CASE tick'[t].pc \in Deciding
      <4>1. Allowance(tick'[t]) = 0
        BY <1>4, <2>2, <3>1 DEF Allowance
      <4>2. tick[t].pc \in Deciding => Allowance(tick[t]) = 0
        BY <1>4, <2>2 DEF Allowance
      <4> QED
        BY <2>1, <2>3, <3>1, <4>1, <4>2
    <3>2. CASE tick'[t].pc = "resync"
      <4>1. Allowance(tick'[t]) = Cardinality(Cred)
        BY <3>2 DEF Allowance
      <4> QED
        BY <2>1, <2>4, <4>1
    <3> QED
      BY <3>1, <3>2
  <2>6. Allowance(tick'[t]) \in Int
    BY TypesSplit, AllowanceBound DEF TickTypes
  <2>7. dayCount' < MaxChanges + fails' + Allowance(tick'[t])
    BY <2>1, <2>5, <2>6
  <2> QED
    BY <2>7 DEF WithinAllowance, Allowance
<1> QED
  BY <1>1, <1>2, <1>3, <1>5, <1>6 DEF Alone

LEMMA AskAlone ==
    ASSUME IInv, NEW t, Ticker = {t}, TypeOK', NEW c \in Cred, Ask(t, c)
    PROVE  Alone'
<1>1. tick[t] \in Tick /\ tick \in [Ticker -> Tick]
  BY TypesSplit, TickType DEF IInv, TickTypes
<1>2. UNCHANGED <<files, cooling, dayCount>> /\ tick[t].pc \in Probing
  BY DEF Ask, books, switches, Probing
<1>3. fails \in Nat /\ fails' >= fails
  BY DEF Ask, Failures, IInv, TypeOK
<1>4. \E r \in [Cred -> Result] :
          tick'[t] = [tick[t] EXCEPT !.todo = @ \ {c}, !.res = r]
  <2>1. CASE c \in NeverEnable \cup asked \cup pinned
    <3>1. tick'[t] = [tick[t] EXCEPT !.todo = @ \ {c}]
      BY <1>1, <2>1 DEF Ask, Step
    <3>2. tick'[t] = [tick[t] EXCEPT !.todo = @ \ {c}, !.res = tick[t].res]
      BY <1>1, <3>1 DEF Tick
    <3>3. tick[t].res \in [Cred -> Result]
      BY <1>1 DEF Tick
    <3> QED
      BY <3>2, <3>3
  <2>2. CASE c \notin NeverEnable \cup asked \cup pinned
    <3>1. PICK a \in {truth[c], "failed", "bare"} :
            Step(t, [tick[t] EXCEPT !.todo = @ \ {c}, !.res[c] = a])
      BY <2>2 DEF Ask
    <3>2. a \in Result
      BY DEF IInv, TypeOK, Result, Known
    <3>3. [tick[t].res EXCEPT ![c] = a] \in [Cred -> Result]
      BY <1>1, <3>2 DEF Tick
    <3>4. tick'[t] = [tick[t] EXCEPT !.todo = @ \ {c}, !.res = [tick[t].res EXCEPT ![c] = a]]
      BY <1>1, <3>1 DEF Step
    <3> QED
      BY <3>3, <3>4
  <2> QED
    BY <2>1, <2>2
<1>5. /\ tick'[t].pc = tick[t].pc /\ tick'[t].clear = tick[t].clear
      /\ tick'[t].fresh = tick[t].fresh /\ tick'[t].enabled = tick[t].enabled
      /\ tick'[t].touched = tick[t].touched /\ tick'[t].promoted = tick[t].promoted
  BY <1>1, <1>4 DEF Tick
<1>6. tick'[t].pc # "refused" /\ tick'[t].pc \in Recounting
  BY <1>2, <1>5 DEF Probing, Recounting
<1>7. tick'[t].pc \in Deciding => tick[t].pc \in Deciding
  BY <1>5
<1>8. Proceeds(t)
  BY <1>2, <1>3, <1>5, <1>6, <1>7 DEF Proceeds, files
<1> QED
  BY <1>8, ProceedsAlone

LEMMA WidenKeeps ==
    ASSUME NEW k \in Tick
    PROVE  /\ Widen(k).pc = "widen" /\ Widen(k).clear = k.clear /\ Widen(k).fresh = k.fresh
           /\ Widen(k).enabled = k.enabled /\ Widen(k).touched = k.touched
           /\ Widen(k).promoted = k.promoted
  BY DEF Widen, Tick

LEMMA DecideAlone ==
    ASSUME IInv, NEW t, Ticker = {t}, TypeOK',
           Judge(t) \/ Confirmed(t) \/ Widened(t) \/ Vetted(t)
    PROVE  Alone'
<1>1. tick[t] \in Tick /\ tick \in [Ticker -> Tick]
  BY TypesSplit, TickType DEF IInv, TickTypes
<1>2. /\ UNCHANGED <<files, cooling, dayCount, fails>> /\ fails' >= fails
      /\ tick[t].pc \in Probing
  <2>1. UNCHANGED <<files, cooling, dayCount, fails>> /\ tick[t].pc \in Probing
    BY DEF Judge, Confirmed, Widened, Vetted, world, books, switches, Probing
  <2>2. fails \in Nat
    BY DEF IInv, TypeOK
  <2> QED
    BY <2>1, <2>2
<1> DEFINE k == [tick[t] EXCEPT !.short = Shortfall(tick[t].enabled, tick[t].res)]
<1>3. /\ k \in Tick
      /\ k.pc = tick[t].pc /\ k.clear = tick[t].clear /\ k.fresh = tick[t].fresh
      /\ k.enabled = tick[t].enabled /\ k.touched = tick[t].touched
      /\ k.promoted = tick[t].promoted
  <2>1. Shortfall(tick[t].enabled, tick[t].res) \in Nat
    BY <1>1, ShortfallType DEF Tick
  <2> QED
    BY <1>1, <2>1 DEF Tick
<1>4. ASSUME NEW why, Finish(t, why)
      PROVE  Alone'
  <2>1. CASE cooling
    BY <1>2, <1>4, <2>1, FinishAlone
  <2>2. CASE ~cooling
    BY <1>2, <1>4, <2>2, FinishAlone DEF IInv, Alone, HostKnowsEnabled, Recounting
  <2> QED
    BY <2>1, <2>2
<1>5. ASSUME Step(t, Widen(k)), tick[t].pc = "confirm" \/ MayAct(k)
      PROVE  Alone'
  <2>1. tick'[t] = Widen(k)
    BY <1>1, <1>5 DEF Step
  <2>2. /\ tick'[t].pc = "widen" /\ tick'[t].clear = tick[t].clear
        /\ tick'[t].fresh = tick[t].fresh /\ tick'[t].enabled = tick[t].enabled
        /\ tick'[t].touched = tick[t].touched /\ tick'[t].promoted = tick[t].promoted
    BY <1>3, <2>1, WidenKeeps
  <2>3. tick[t].pc \in Deciding \/ (tick[t].clear /\ dayCount < MaxChanges)
    BY <1>3, <1>5 DEF MayAct, Deciding
  <2>4. Proceeds(t)
    BY <1>2, <2>2, <2>3 DEF Proceeds, files, Recounting, Probing
  <2> QED
    BY <2>4, ProceedsAlone
<1>6. CASE Judge(t)
  <2>1. CASE /\ MayAct(k) /\ ~(\E why : Finish(t, why))
             /\ Step(t, IF Confirm THEN [k EXCEPT !.pc = "confirm",
                                         !.todo = k.enabled \ Healthy(k.enabled, k.res)]
                        ELSE Widen(k))
    <3>1. CASE Confirm
      <4> DEFINE kk == [k EXCEPT !.pc = "confirm",
                                 !.todo = k.enabled \ Healthy(k.enabled, k.res)]
      <4>1. tick'[t] = kk
        BY <1>1, <2>1, <3>1 DEF Step
      <4>2. /\ kk.pc = "confirm" /\ kk.clear = k.clear /\ kk.fresh = k.fresh
            /\ kk.enabled = k.enabled /\ kk.touched = k.touched /\ kk.promoted = k.promoted
        <5> HIDE DEF k
        <5> QED
          BY <1>3 DEF Tick
      <4>3. tick[t].clear /\ dayCount < MaxChanges
        BY <1>3, <2>1 DEF MayAct
      <4> HIDE DEF kk, k
      <4>4. Proceeds(t)
        BY <1>2, <1>3, <4>1, <4>2, <4>3 DEF Proceeds, files, Recounting, Probing
      <4> QED
        BY <4>4, ProceedsAlone
    <3>2. CASE ~Confirm
      BY <1>5, <2>1, <3>2
    <3> QED
      BY <3>1, <3>2
  <2> HIDE DEF k
  <2> QED
    BY <1>4, <1>6, <2>1 DEF Judge, k
<1>7. CASE Confirmed(t)
  <2> HIDE DEF k
  <2> QED
    BY <1>4, <1>5, <1>7 DEF Confirmed, k
<1>8. CASE Widened(t)
  <2>1. PICK picks : Step(t, [tick[t] EXCEPT !.pc = "vet", !.todo = picks])
    BY <1>8 DEF Widened
  <2>2. /\ tick'[t].pc = "vet" /\ tick'[t].clear = tick[t].clear
        /\ tick'[t].fresh = tick[t].fresh /\ tick'[t].enabled = tick[t].enabled
        /\ tick'[t].touched = tick[t].touched /\ tick'[t].promoted = tick[t].promoted
    BY <1>1, <2>1 DEF Step, Tick
  <2>3. tick[t].pc \in Deciding
    BY <1>8 DEF Widened, Deciding
  <2>4. Proceeds(t)
    BY <1>2, <2>2, <2>3 DEF Proceeds, files, Recounting, Probing
  <2> QED
    BY <2>4, ProceedsAlone
<1>9. CASE Vetted(t)
  <2> DEFINE todo == IF ~DisableDead THEN {}
                     ELSE {c \in tick[t].enabled \ NeverDisable : tick[t].res[c] = "refused"}
             prom == Promotable(tick[t])
             resv == Reserves(tick[t])
  <2>1. Step(t, [tick[t] EXCEPT !.pc = "refused", !.prom = prom, !.resv = resv, !.todo = todo])
    BY <1>9 DEF Vetted
  <2>2. todo \subseteq tick[t].enabled /\ (prom \cup resv) \cap tick[t].enabled = {}
    BY DEF Promotable, Reserves
  <2> HIDE DEF todo, prom, resv
  <2>3. /\ tick'[t].pc = "refused" /\ tick'[t].clear = tick[t].clear
        /\ tick'[t].fresh = tick[t].fresh /\ tick'[t].enabled = tick[t].enabled
        /\ tick'[t].touched = tick[t].touched /\ tick'[t].promoted = tick[t].promoted
        /\ tick'[t].prom = prom /\ tick'[t].resv = resv /\ tick'[t].todo = todo
    BY <1>1, <2>1 DEF Step, Tick
  <2>4. tick[t].pc \in Deciding
    BY <1>9 DEF Vetted, Deciding
  <2>5. Proceeds(t)
    BY <1>2, <2>2, <2>3, <2>4 DEF Proceeds, files, Recounting, Probing
  <2> QED
    BY <2>5, ProceedsAlone
<1> QED
  BY <1>6, <1>7, <1>8, <1>9

(* What one write may do: to c alone, and a failure is counted.            *)
LEMMA WriteEffect ==
    ASSUME TypeOK, NEW c \in Cred, NEW ok \in {TRUE, DryRun}, NEW on \in BOOLEAN, NEW p,
           NEW disabling, FileWrite(c, ok, on, p), Booked(c, disabling)
    PROVE  /\ ok \in BOOLEAN /\ ~ok => ~DryRun
           /\ \A d \in Cred \ {c} : disk'[d] = disk[d] /\ prio'[d] = prio[d]
           /\ ok /\ ~DryRun => disk'[c] = on /\ prio'[c] = p
           /\ ~ok \/ DryRun => UNCHANGED <<disk, prio>>
           /\ UNCHANGED host
           /\ fails \in Nat /\ fails' = IF ok THEN fails ELSE fails + 1
           /\ dayCount \in Nat /\ dayCount' = dayCount + 1
<1>1. ok \in BOOLEAN /\ DryRun \in BOOLEAN
  BY PoolAssumption
<1>2. ~ok => ~DryRun
  OBVIOUS
<1>3. fails \in Nat /\ dayCount \in Nat /\ disk \in [Cred -> BOOLEAN] /\ prio \in [Cred -> Int]
  BY DEF TypeOK
<1>4. fails' = IF ok THEN fails ELSE fails + 1
  BY <1>1, <1>3 DEF FileWrite, Failures
<1> QED
  BY <1>1, <1>2, <1>3, <1>4 DEF FileWrite, Booked

LEMMA RetireRefusedAlone ==
    ASSUME IInv, NEW t, Ticker = {t}, TypeOK', NEW c \in Cred, RetireRefused(t, c)
    PROVE  Alone'
<1>1. tick[t] \in Tick /\ tick \in [Ticker -> Tick] /\ t \in Ticker
  BY TypesSplit, TickType DEF IInv, TickTypes
<1>2. PICK ok \in {TRUE, DryRun} :
        /\ Booked(c, TRUE)
        /\ FileWrite(c, ok, FALSE, prio[c])
        /\ Step(t, [tick[t] EXCEPT !.todo = @ \ {c},
                                   !.touched = IF ok THEN @ \cup {c} ELSE @])
  BY DEF RetireRefused
<1>3. tick[t].pc = "refused" /\ c \in tick[t].todo /\ UNCHANGED cooling
  BY DEF RetireRefused
<1>4. /\ ok \in BOOLEAN /\ ~ok => ~DryRun
      /\ \A d \in Cred \ {c} : disk'[d] = disk[d]
      /\ ok /\ ~DryRun => disk'[c] = FALSE
      /\ ~ok \/ DryRun => UNCHANGED disk
      /\ UNCHANGED host
      /\ fails \in Nat /\ fails' = IF ok THEN fails ELSE fails + 1
      /\ dayCount \in Nat /\ dayCount' = dayCount + 1
  BY <1>2, WriteEffect DEF IInv
<1>5. /\ tick'[t].pc = "refused" /\ tick'[t].clear = tick[t].clear
      /\ tick'[t].fresh = tick[t].fresh /\ tick'[t].enabled = tick[t].enabled
      /\ tick'[t].promoted = tick[t].promoted
      /\ tick'[t].prom = tick[t].prom /\ tick'[t].resv = tick[t].resv
      /\ tick'[t].todo = tick[t].todo \ {c}
      /\ tick'[t].touched = IF ok THEN tick[t].touched \cup {c} ELSE tick[t].touched
  BY <1>1, <1>2, <1>3 DEF Step, Tick
<1>6. tick[t].touched \subseteq Cred /\ c \notin tick[t].touched
  BY <1>1, <1>3 DEF Tick, IInv, Alone, ListsApart
<1>7. ActsInTheClear' /\ NobodyJoins' /\ QueueHasABack' /\ SpentAreListed'
  BY <1>3, <1>4, <1>5 DEF IInv, Alone, ActsInTheClear, NobodyJoins, QueueHasABack, SpentAreListed
<1>8. HostKnowsEnabled'
  BY <1>3, <1>4, <1>5 DEF IInv, Alone, HostKnowsEnabled, Recounting
<1>9. ListsApart'
  <2>1. /\ tick[t].promoted = 0
        /\ (tick[t].prom \cup tick[t].resv) \cap tick[t].enabled = {}
        /\ tick[t].todo \subseteq tick[t].enabled /\ tick[t].touched \subseteq tick[t].enabled
        /\ tick[t].todo \cap tick[t].touched = {}
        /\ \A d \in tick[t].touched : disk[d] => DryRun
    BY <1>3 DEF IInv, Alone, ListsApart, Recounting
  <2>2. \A d \in tick'[t].touched : disk'[d] => DryRun
    BY <1>4, <1>5, <1>6, <2>1
  <2>3. tick'[t].todo \cap tick'[t].touched = {}
    BY <1>5, <2>1
  <2>4. tick'[t].todo \subseteq tick'[t].enabled /\ tick'[t].touched \subseteq tick'[t].enabled
    BY <1>3, <1>5, <2>1
  <2> QED
    BY <1>5, <2>1, <2>2, <2>3, <2>4 DEF ListsApart, Probing
<1>10. LiveIsEnabled'
  BY <1>3, <1>4, <1>5 DEF IInv, Alone, LiveIsEnabled, Recounting
<1>11. WithinAllowance'
  <2>1. dayCount < MaxChanges + fails + Cardinality(tick[t].touched)
    BY <1>3 DEF IInv, Alone, WithinAllowance, Allowance, Deciding
  <2>2. Cardinality(tick[t].touched) \in Nat /\ MaxChanges \in Nat
    BY <1>6, CardinalityType, PoolAssumption
  <2>3. Cardinality(tick[t].touched \cup {c}) = Cardinality(tick[t].touched) + 1
    BY <1>6, CardinalityType, FS_AddElement
  <2>4. dayCount' < MaxChanges + fails' + Cardinality(tick'[t].touched)
    BY <1>4, <1>5, <2>1, <2>2, <2>3
  <2> QED
    BY <1>5, <2>4 DEF WithinAllowance, Allowance, Deciding
<1> QED
  BY <1>7, <1>8, <1>9, <1>10, <1>11 DEF Alone

LEMMA PromoteAlone ==
    ASSUME IInv, NEW t, Ticker = {t}, TypeOK', NEW c \in Cred, Promote(t, c)
    PROVE  Alone'
<1>1. tick[t] \in Tick /\ tick \in [Ticker -> Tick] /\ t \in Ticker
  BY TypesSplit, TickType DEF IInv, TickTypes
<1>2. PICK ok \in {TRUE, DryRun} :
        /\ Booked(c, FALSE)
        /\ FileWrite(c, ok, TRUE, tick[t].next)
        /\ Step(t, [tick[t] EXCEPT !.todo = @ \ {c}, !.next = @ - 1,
                                   !.promoted = IF ok THEN @ + 1 ELSE @])
  BY DEF Promote
<1>3. tick[t].pc = "promote" /\ c \in tick[t].todo /\ UNCHANGED cooling
  BY DEF Promote
<1>4. /\ ok \in BOOLEAN /\ ~ok => ~DryRun
      /\ \A d \in Cred \ {c} : disk'[d] = disk[d] /\ prio'[d] = prio[d]
      /\ ok /\ ~DryRun => disk'[c] = TRUE /\ prio'[c] = tick[t].next
      /\ ~ok \/ DryRun => UNCHANGED <<disk, prio>>
      /\ UNCHANGED host
      /\ fails \in Nat /\ fails' = IF ok THEN fails ELSE fails + 1
      /\ dayCount \in Nat /\ dayCount' = dayCount + 1
  BY <1>2, WriteEffect DEF IInv
<1>5. /\ tick'[t].pc = "promote" /\ tick'[t].clear = tick[t].clear
      /\ tick'[t].fresh = tick[t].fresh /\ tick'[t].enabled = tick[t].enabled
      /\ tick'[t].promoted = IF ok THEN tick[t].promoted + 1 ELSE tick[t].promoted
      /\ tick'[t].todo = tick[t].todo \ {c} /\ tick'[t].touched = tick[t].touched
      /\ tick'[t].next = tick[t].next - 1
  BY <1>1, <1>2, <1>3 DEF Step, Tick
<1>6. /\ tick[t].todo \subseteq Cred /\ tick[t].enabled \ tick[t].touched \subseteq Cred
      /\ tick[t].promoted \in Nat /\ tick[t].next \in Int
  BY <1>1 DEF Tick
<1>7. ~disk[c] /\ c \notin tick[t].touched
  BY <1>3 DEF IInv, Alone, ListsApart
<1>8. ActsInTheClear' /\ NobodyJoins' /\ SpentAreListed'
  BY <1>3, <1>5 DEF IInv, Alone, ActsInTheClear, NobodyJoins, SpentAreListed, Acting,
     Recounting, Probing
<1>9. HostKnowsEnabled'
  <2>1. tick'[t].promoted = 0 => ~ok /\ tick[t].promoted = 0
    BY <1>4, <1>5, <1>6
  <2> QED
    BY <1>3, <1>4, <1>5, <2>1 DEF IInv, Alone, HostKnowsEnabled, Recounting, Probing
<1>10. ListsApart'
  <2>1. /\ tick[t].todo \cap tick[t].touched = {} /\ tick[t].todo \cap tick[t].enabled = {}
        /\ \A d \in tick[t].todo : ~disk[d]
        /\ \A d \in tick[t].touched : disk[d] => DryRun
    BY <1>3 DEF IInv, Alone, ListsApart
  <2>2. tick[t].touched \subseteq Cred
    BY <1>1 DEF Tick
  <2>3. \A d \in tick'[t].touched : disk'[d] => DryRun
    BY <1>4, <1>5, <1>7, <2>1, <2>2
  <2>4. \A d \in tick'[t].todo : ~disk'[d]
    BY <1>4, <1>5, <1>6, <2>1
  <2> QED
    BY <1>5, <2>1, <2>3, <2>4 DEF ListsApart, Recounting, Probing
<1>11. LiveIsEnabled'
  <2>1. Enabled \subseteq Cred /\ Enabled' \subseteq Cred
    BY DEF Enabled
  <2>2. CASE ok /\ ~DryRun
    <3>1. Enabled' = Enabled \cup {c} /\ c \notin Enabled
      BY <1>4, <1>7, <2>2 DEF Enabled
    <3>2. Cardinality(Enabled') = Cardinality(Enabled) + 1
      BY <2>1, <3>1, CardinalityType, FS_AddElement
    <3>3. Cardinality(Enabled) \in Nat /\ Cardinality(tick[t].enabled \ tick[t].touched) \in Nat
      BY <1>6, <2>1, CardinalityType
    <3>4. tick[t].fresh =>
            tick[t].promoted + Cardinality(tick[t].enabled \ tick[t].touched) <= Cardinality(Enabled)
      BY <1>3, <2>2 DEF IInv, Alone, LiveIsEnabled
    <3> QED
      BY <1>5, <1>6, <2>2, <3>2, <3>3, <3>4 DEF LiveIsEnabled, Recounting, Probing
  <2>3. CASE ~ok /\ ~DryRun
    <3>1. Enabled' = Enabled
      BY <1>4, <2>3 DEF Enabled
    <3> QED
      BY <1>3, <1>5, <2>3, <3>1 DEF IInv, Alone, LiveIsEnabled, Recounting, Probing
  <2>4. CASE DryRun
    BY <1>5, <2>4 DEF LiveIsEnabled, Recounting, Probing
  <2> QED
    BY <1>4, <2>2, <2>3, <2>4
<1>12. WithinAllowance'
  <2> DEFINE rest == Cardinality(tick[t].enabled \ tick[t].touched)
  <2>1. dayCount < MaxChanges + fails + (Cardinality(Cred) - Cardinality(tick[t].todo) - rest)
    BY <1>3 DEF IInv, Alone, WithinAllowance, Allowance, Deciding
  <2>2. /\ Cardinality(tick[t].todo) \in Nat /\ rest \in Nat /\ MaxChanges \in Nat
        /\ Cardinality(Cred) \in Nat
    BY <1>6, CardinalityType, PoolAssumption
  <2>3. Cardinality(tick[t].todo \ {c}) = Cardinality(tick[t].todo) - 1
    BY <1>3, <1>6, CardinalityType, FS_RemoveElement
  <2>4. dayCount' < MaxChanges + fails' + (Cardinality(Cred) - Cardinality(tick'[t].todo) - rest)
    <3> HIDE DEF rest
    <3> QED
      BY <1>4, <1>5, <2>1, <2>2, <2>3
  <2> QED
    BY <1>5, <2>4 DEF WithinAllowance, Allowance, Deciding
<1>13. QueueHasABack'
  <2>1. ASSUME fails' = 0, NEW d \in Cred, disk'[d]
        PROVE  tick[t].next - 1 < prio'[d]
    <3>1. ok /\ fails = 0
      BY <1>4, <2>1
    <3>2. prio[d] \in Int
      BY DEF IInv, TypeOK
    <3>3. CASE d = c /\ ~DryRun
      BY <1>4, <1>6, <3>1, <3>3
    <3>4. CASE d # c \/ DryRun
      <4>1. disk[d] /\ prio'[d] = prio[d]
        BY <1>4, <2>1, <3>4
      <4>2. tick[t].next < prio[d]
        BY <1>3, <3>1, <4>1 DEF IInv, Alone, QueueHasABack
      <4> QED
        BY <1>6, <3>2, <4>1, <4>2
    <3> QED
      BY <3>3, <3>4
  <2> QED
    BY <1>5, <2>1 DEF QueueHasABack
<1> QED
  BY <1>8, <1>9, <1>10, <1>11, <1>12, <1>13 DEF Alone

LEMMA RetireDrainedAlone ==
    ASSUME IInv, NEW t, Ticker = {t}, TypeOK', NEW c \in Cred, RetireDrained(t, c)
    PROVE  Alone'
<1>1. tick[t] \in Tick /\ tick \in [Ticker -> Tick] /\ t \in Ticker
  BY TypesSplit, TickType DEF IInv, TickTypes
<1>2. PICK ok \in {TRUE, DryRun} :
        /\ Booked(c, TRUE)
        /\ FileWrite(c, ok, FALSE, prio[c])
        /\ Step(t, [tick[t] EXCEPT !.todo = @ \ {c}, !.live = IF ok THEN @ - 1 ELSE @])
  BY DEF RetireDrained
<1>3. tick[t].pc = "drain" /\ c \in tick[t].todo /\ UNCHANGED cooling
  BY DEF RetireDrained
<1>4. /\ ok \in BOOLEAN /\ ~ok => ~DryRun
      /\ \A d \in Cred \ {c} : disk'[d] = disk[d]
      /\ ok /\ ~DryRun => disk'[c] = FALSE
      /\ ~ok \/ DryRun => UNCHANGED disk
      /\ fails \in Nat /\ fails' = IF ok THEN fails ELSE fails + 1
      /\ dayCount \in Nat /\ dayCount' = dayCount + 1
  BY <1>2, WriteEffect DEF IInv
<1>5. /\ tick'[t].pc = "drain" /\ tick'[t].clear = tick[t].clear
      /\ tick'[t].fresh = tick[t].fresh /\ tick'[t].enabled = tick[t].enabled
      /\ tick'[t].todo = tick[t].todo \ {c} /\ tick'[t].touched = tick[t].touched
      /\ tick'[t].res = tick[t].res
      /\ tick'[t].live = IF ok THEN tick[t].live - 1 ELSE tick[t].live
  BY <1>1, <1>2, <1>3 DEF Step, Tick
<1>6. /\ tick[t].todo \subseteq Cred /\ tick[t].live \in Int /\ tick[t].touched \subseteq Cred
      /\ tick[t].enabled \subseteq Cred /\ tick[t].res \in [Cred -> Result]
  BY <1>1 DEF Tick
<1>7. ActsInTheClear' /\ HostKnowsEnabled' /\ NobodyJoins' /\ QueueHasABack'
  BY <1>3, <1>5 DEF IInv, Alone, ActsInTheClear, HostKnowsEnabled, NobodyJoins, QueueHasABack,
     Acting, Recounting, Probing
<1>8. ListsApart'
  <2>1. /\ tick[t].todo \cap tick[t].touched = {} /\ tick[t].todo \subseteq tick[t].enabled
        /\ \A d \in tick[t].touched : disk[d] => DryRun
    BY <1>3 DEF IInv, Alone, ListsApart
  <2>2. \A d \in tick'[t].touched : disk'[d] => DryRun
    BY <1>4, <1>5, <1>6, <2>1
  <2> QED
    BY <1>5, <2>1, <2>2 DEF ListsApart, Recounting, Probing
<1>9. LiveIsEnabled'
  <2>1. Enabled \subseteq Cred
    BY DEF Enabled
  <2>2. Cardinality(Enabled) \in Nat
    BY <2>1, CardinalityType
  <2>3. CASE ok /\ ~DryRun
    <3>1. Enabled' = Enabled \ {c}
      BY <1>4, <2>3 DEF Enabled
    <3>2. Cardinality(Enabled') >= Cardinality(Enabled) - 1
      BY <2>1, <2>2, <3>1, CardinalityType, FS_RemoveElement
    <3>3. Cardinality(Enabled') \in Nat
      BY <2>1, <3>1, CardinalityType
    <3>4. tick[t].fresh => tick[t].live <= Cardinality(Enabled)
      BY <1>3, <2>3 DEF IInv, Alone, LiveIsEnabled
    <3> QED
      BY <1>5, <1>6, <2>2, <2>3, <3>2, <3>3, <3>4 DEF LiveIsEnabled, Recounting, Probing
  <2>4. CASE ~ok /\ ~DryRun
    <3>1. Enabled' = Enabled
      BY <1>4, <2>4 DEF Enabled
    <3> QED
      BY <1>3, <1>5, <2>4, <3>1 DEF IInv, Alone, LiveIsEnabled, Recounting, Probing
  <2>5. CASE DryRun
    BY <1>5, <2>5 DEF LiveIsEnabled, Recounting, Probing
  <2> QED
    BY <1>4, <2>3, <2>4, <2>5
<1>10. WithinAllowance'
  <2>1. dayCount < MaxChanges + fails + (Cardinality(Cred) - Cardinality(tick[t].todo))
    BY <1>3 DEF IInv, Alone, WithinAllowance, Allowance, Deciding
  <2>2. /\ Cardinality(tick[t].todo) \in Nat /\ MaxChanges \in Nat
        /\ Cardinality(Cred) \in Nat
    BY <1>6, CardinalityType, PoolAssumption
  <2>3. Cardinality(tick[t].todo \ {c}) = Cardinality(tick[t].todo) - 1
    BY <1>3, <1>6, CardinalityType, FS_RemoveElement
  <2>4. dayCount' < MaxChanges + fails' + (Cardinality(Cred) - Cardinality(tick'[t].todo))
    BY <1>4, <1>5, <2>1, <2>2, <2>3
  <2> QED
    BY <1>5, <2>4 DEF WithinAllowance, Allowance, Deciding
<1>11. SpentAreListed'
  <2>1. ASSUME fails' = 0, ~DryRun, NEW d \in tick[t].enabled \ NeverDisable, disk'[d],
               (MemberState(d, tick[t].res[d]) \in {"dead", "exhausted"})'
        PROVE  d \in tick[t].todo \ {c}
    <3>1. ok /\ fails = 0 /\ d # c /\ disk[d]
      BY <1>4, <1>6, <2>1
    <3>2. tick[t].res[d] \in {"refused", "failed", "empty"}
      <4>1. tick'[t].res[d] = tick[t].res[d] /\ tick[t].res[d] \in Result
        BY <1>5, <1>6
      <4> QED
        BY <2>1, <4>1, SpentStays DEF MemberState
    <3>3. MemberState(d, tick[t].res[d]) \in {"dead", "exhausted"}
      BY <3>2 DEF MemberState
    <3> QED
      BY <1>3, <2>1, <3>1, <3>3 DEF IInv, Alone, SpentAreListed
  <2> QED
    BY <1>5, <2>1 DEF SpentAreListed
<1> QED
  BY <1>7, <1>8, <1>9, <1>10, <1>11 DEF Alone

LEMMA RecountAlone ==
    ASSUME IInv, NEW t, Ticker = {t}, TypeOK', Recount(t)
    PROVE  Alone'
<1>1. tick[t] \in Tick /\ tick \in [Ticker -> Tick] /\ t \in Ticker
  BY TypesSplit, TickType DEF IInv, TickTypes
<1>2. PICK listed \in {HostEnabled, {}}, lost \in {0, 1} :
        RecountOf(t, listed, lost) /\ (lost = 0 => listed = HostEnabled)
  BY DEF Recount
<1>3. /\ tick[t].pc = "refused" /\ tick[t].todo = {}
      /\ UNCHANGED <<disk, host, prio, cooling, dayCount>> /\ UNCHANGED files
  BY <1>2 DEF RecountOf, files, switches
<1>4. listed \subseteq HostEnabled /\ listed \subseteq Cred
  BY DEF HostEnabled
<1>5. tick[t].clear /\ ~cooling /\ \A c \in Cred : disk[c] => host[c]
  BY <1>3 DEF IInv, Alone, ActsInTheClear, HostKnowsEnabled, Acting, Deciding, Recounting
<1>6. fails \in Nat /\ dayCount \in Nat
  BY DEF IInv, TypeOK
<1>7. CASE \E why : Finish(t, why) /\ Failures(lost)
  <2>1. fails' >= fails
    BY <1>6, <1>7 DEF Failures
  <2> QED
    BY <1>3, <1>5, <1>7, <2>1, FinishAlone
<1> DEFINE short == Shortfall(listed, known)
           unserved == Unserved(listed, known)
<1>8. CASE \E picks \in PickSets(tick[t].prom, tick[t].resv, short, unserved),
              unread \in SUBSET listed :
                /\ Step(t, [tick[t] EXCEPT !.pc = "promote", !.enabled = listed,
                                     !.todo = picks, !.short = short,
                                     !.next = BackOfQueue(listed, unread)])
                /\ Failures(lost + Cardinality(unread))
  <2>1. PICK picks \in PickSets(tick[t].prom, tick[t].resv, short, unserved),
             unread \in SUBSET listed :
               /\ Step(t, [tick[t] EXCEPT !.pc = "promote", !.enabled = listed,
                                    !.todo = picks, !.short = short,
                                    !.next = BackOfQueue(listed, unread)])
               /\ Failures(lost + Cardinality(unread))
    BY <1>8
  <2> HIDE DEF short, unserved
  <2>2. Cardinality(unread) \in Nat /\ IsFiniteSet(unread)
    BY <1>4, CardinalityType
  <2>3. fails' = fails + lost + Cardinality(unread) /\ fails' \in Nat
    BY <1>6, <2>1, <2>2 DEF Failures
  <2>4. /\ tick'[t].pc = "promote" /\ tick'[t].clear = tick[t].clear
        /\ tick'[t].fresh = tick[t].fresh /\ tick'[t].touched = tick[t].touched
        /\ tick'[t].promoted = tick[t].promoted /\ tick'[t].enabled = listed
        /\ tick'[t].todo = picks /\ tick'[t].next = BackOfQueue(listed, unread)
    BY <1>1, <2>1 DEF Step, Tick
  <2>5. /\ tick[t].promoted = 0
        /\ (tick[t].prom \cup tick[t].resv) \cap tick[t].enabled = {}
        /\ tick[t].touched \subseteq tick[t].enabled
        /\ \A d \in tick[t].touched : disk[d] => DryRun
    BY <1>3 DEF IInv, Alone, ListsApart, Recounting
  <2>6. \A c \in Cred \ tick[t].enabled : ~host[c]
    BY <1>3, <1>5 DEF IInv, Alone, NobodyJoins, Recounting
  <2>7. picks \subseteq Cred \ tick[t].enabled
    BY <1>1, <2>1, <2>5, PicksAreCandidates DEF Tick
  <2>8. listed \subseteq tick[t].enabled
    BY <1>4, <2>6 DEF HostEnabled
  <2>9. \A c \in picks : ~disk[c]
    BY <1>5, <2>6, <2>7
  <2>10. ActsInTheClear' /\ NobodyJoins' /\ SpentAreListed'
    BY <1>3, <1>5, <2>4 DEF ActsInTheClear, NobodyJoins, SpentAreListed, Recounting, Probing
  <2>11. HostKnowsEnabled'
    BY <1>3, <1>5 DEF HostKnowsEnabled
  <2>12. ListsApart'
    BY <1>3, <2>4, <2>5, <2>7, <2>8, <2>9 DEF ListsApart, Recounting, Probing
  <2>13. LiveIsEnabled'
    <3>1. ASSUME tick[t].fresh, ~DryRun
          PROVE  0 + Cardinality(listed \ tick[t].touched) <= Cardinality(Enabled')
      <4>1. \A c \in Cred \ tick[t].touched : host[c] = disk[c]
        BY <1>3, <3>1 DEF IInv, Alone, LiveIsEnabled, Recounting
      <4>2. listed \ tick[t].touched \subseteq Enabled' /\ Enabled' \subseteq Cred
        BY <1>3, <1>4, <4>1 DEF Enabled, HostEnabled
      <4>3. Cardinality(listed \ tick[t].touched) <= Cardinality(Enabled')
        BY <4>2, CardinalityType, FS_Subset
      <4>4. Cardinality(listed \ tick[t].touched) \in Nat
        BY <1>4, CardinalityType
      <4> QED
        BY <4>3, <4>4
    <3> QED
      BY <2>4, <2>5, <3>1 DEF LiveIsEnabled, Recounting, Probing
  <2>14. WithinAllowance'
    <3> DEFINE touched == tick[t].touched
               rest == listed \ tick[t].touched
    <3>1. dayCount < MaxChanges + fails + Cardinality(touched)
      BY <1>3 DEF IInv, Alone, WithinAllowance, Allowance, Deciding
    <3>2. touched \subseteq Cred /\ rest \subseteq Cred /\ picks \subseteq Cred
      BY <1>1, <1>4, <2>7 DEF Tick
    <3>3. touched \cap rest = {} /\ (touched \cup rest) \cap picks = {}
      BY <2>5, <2>7, <2>8
    <3> HIDE DEF touched, rest
    <3>4. Cardinality(touched \cup rest) = Cardinality(touched) + Cardinality(rest)
      BY <3>2, <3>3, DisjointUnion
    <3>5. Cardinality((touched \cup rest) \cup picks)
              = Cardinality(touched \cup rest) + Cardinality(picks)
      <4>1. touched \cup rest \subseteq Cred
        BY <3>2
      <4> QED
        BY <3>2, <3>3, <4>1, DisjointUnion
    <3>6. Cardinality((touched \cup rest) \cup picks) <= Cardinality(Cred)
      <4>1. (touched \cup rest) \cup picks \subseteq Cred
        BY <3>2
      <4> QED
        BY <4>1, CardinalityType
    <3>7. /\ Cardinality(touched) \in Nat /\ Cardinality(rest) \in Nat
          /\ Cardinality(picks) \in Nat /\ Cardinality(Cred) \in Nat /\ MaxChanges \in Nat
      BY <3>2, CardinalityType, PoolAssumption
    <3>8. dayCount' < MaxChanges + fails'
                       + (Cardinality(Cred) - Cardinality(picks) - Cardinality(rest))
      BY <1>3, <1>6, <2>2, <2>3, <3>1, <3>4, <3>5, <3>6, <3>7
    <3>9. rest = tick'[t].enabled \ tick'[t].touched
      BY <2>4 DEF rest
    <3> QED
      BY <2>4, <3>8, <3>9 DEF WithinAllowance, Allowance, Deciding
  <2>15. QueueHasABack'
    <3>1. ASSUME fails' = 0, NEW d \in Cred, disk[d]
          PROVE  BackOfQueue(listed, unread) < prio[d]
      <4>1. lost = 0 /\ Cardinality(unread) = 0
        BY <1>6, <2>2, <2>3, <3>1
      <4>2. unread = {} /\ listed = HostEnabled
        BY <1>2, <2>2, <4>1, FS_EmptySet
      <4>3. d \in listed \ unread
        BY <1>5, <3>1, <4>2 DEF HostEnabled
      <4>4. prio \in [Cred -> Int] /\ unread \in SUBSET Cred
        BY <1>4 DEF IInv, TypeOK
      <4> QED
        BY <1>4, <4>3, <4>4, BackOfQueueBelow
    <3> QED
      BY <1>3, <2>4, <3>1 DEF QueueHasABack
  <2> QED
    BY <2>10, <2>11, <2>12, <2>13, <2>14, <2>15 DEF Alone
<1> QED
  BY <1>2, <1>7, <1>8 DEF RecountOf

LEMMA PromotedAlone ==
    ASSUME IInv, NEW t, Ticker = {t}, TypeOK', Promoted(t)
    PROVE  Alone'
<1>1. tick[t] \in Tick /\ tick \in [Ticker -> Tick] /\ t \in Ticker
  BY TypesSplit, TickType DEF IInv, TickTypes
<1>2. /\ tick[t].pc = "promote" /\ tick[t].todo = {}
      /\ UNCHANGED <<disk, host, prio, cooling, dayCount, fails, burning>> /\ UNCHANGED files
  BY DEF Promoted, files, switches, world, ledger
<1>3. fails \in Nat /\ tick[t].clear /\ ~cooling
  BY <1>2 DEF IInv, Alone, ActsInTheClear, Acting, TypeOK
<1>4. CASE tick[t].promoted = 0 /\ \E why : Finish(t, why)
  <2>1. \A c \in Cred : disk[c] => host[c]
    BY <1>2, <1>3, <1>4 DEF IInv, Alone, HostKnowsEnabled
  <2> QED
    BY <1>2, <1>3, <1>4, <2>1, FinishAlone
<1> DEFINE stay == tick[t].enabled \ tick[t].touched
           todo == {c \in tick[t].enabled \ (NeverDisable \cup tick[t].touched) :
                      MemberState(c, tick[t].res[c]) \in {"dead", "exhausted", "draining"}}
           kk == [tick[t] EXCEPT !.pc = "drain",
                                 !.live = tick[t].promoted + Cardinality(stay), !.todo = todo]
<1>5. CASE Step(t, kk)
  <2>1. todo \subseteq stay /\ stay \subseteq Cred
    BY <1>1 DEF Tick
  <2>2. /\ tick'[t].pc = "drain" /\ tick'[t].clear = tick[t].clear
        /\ tick'[t].fresh = tick[t].fresh /\ tick'[t].touched = tick[t].touched
        /\ tick'[t].promoted = tick[t].promoted /\ tick'[t].enabled = tick[t].enabled
        /\ tick'[t].todo = todo /\ tick'[t].res = tick[t].res
        /\ tick'[t].live = tick[t].promoted + Cardinality(stay)
    <3> HIDE DEF todo, stay
    <3> QED
      BY <1>1, <1>5 DEF Step, Tick
  <2>3. \A d \in tick[t].touched : disk[d] => DryRun
    BY DEF IInv, Alone, ListsApart
  <2>4. ActsInTheClear' /\ HostKnowsEnabled' /\ NobodyJoins' /\ QueueHasABack'
    BY <1>2, <1>3, <2>2 DEF ActsInTheClear, HostKnowsEnabled, NobodyJoins, QueueHasABack,
       Recounting, Probing
  <2>5. ListsApart'
    BY <1>2, <2>1, <2>2, <2>3 DEF ListsApart, Recounting, Probing
  <2>6. LiveIsEnabled'
    <3>1. Enabled' = Enabled
      BY <1>2 DEF Enabled
    <3> QED
      BY <1>2, <2>2, <3>1 DEF IInv, Alone, LiveIsEnabled, Recounting, Probing
  <2>7. WithinAllowance'
    <3>1. dayCount < MaxChanges + fails
                      + (Cardinality(Cred) - Cardinality({}) - Cardinality(stay))
      BY <1>2 DEF IInv, Alone, WithinAllowance, Allowance, Deciding
    <3>2. Cardinality({}) = 0 /\ Cardinality(todo) <= Cardinality(stay)
      <4> HIDE DEF todo, stay
      <4> QED
        BY <2>1, CardinalityType, FS_EmptySet, FS_Subset
    <3>3. /\ Cardinality(todo) \in Nat /\ Cardinality(stay) \in Nat /\ Cardinality(Cred) \in Nat
          /\ MaxChanges \in Nat /\ dayCount \in Nat
      <4>1. todo \subseteq Cred /\ MaxChanges \in Nat /\ dayCount \in Nat
        BY <2>1, PoolAssumption DEF IInv, TypeOK
      <4> HIDE DEF todo, stay
      <4> QED
        BY <2>1, <4>1, CardinalityType
    <3>4. dayCount' < MaxChanges + fails' + (Cardinality(Cred) - Cardinality(tick'[t].todo))
      <4> HIDE DEF todo, stay
      <4> QED
        BY <1>2, <1>3, <2>2, <3>1, <3>2, <3>3
    <3> QED
      BY <2>2, <3>4 DEF WithinAllowance, Allowance, Deciding
  <2>8. SpentAreListed'
    <3>1. ASSUME ~DryRun, NEW d \in tick[t].enabled \ NeverDisable, disk[d],
                 MemberState(d, tick[t].res[d])' \in {"dead", "exhausted"}
          PROVE  d \in todo
      <4>1. d \notin tick[t].touched
        BY <2>3, <3>1
      <4>2. tick'[t].res[d] = tick[t].res[d] /\ tick[t].res[d] \in Result
        BY <1>1, <2>2, <3>1 DEF Tick
      <4>3. tick[t].res[d] \in {"refused", "failed", "empty"}
        BY <3>1, <4>2, SpentStays DEF MemberState
      <4>4. MemberState(d, tick[t].res[d]) \in {"dead", "exhausted"}
        BY <4>3 DEF MemberState
      <4> QED
        BY <3>1, <4>1, <4>4
    <3> QED
      BY <1>2, <2>2, <3>1 DEF SpentAreListed
  <2> QED
    BY <2>4, <2>5, <2>6, <2>7, <2>8 DEF Alone
<1> QED
  BY <1>4, <1>5 DEF Promoted

LEMMA RotatedAlone ==
    ASSUME IInv, NEW t, Ticker = {t}, TypeOK', Rotated(t)
    PROVE  Alone'
<1>1. UNCHANGED <<files, dayCount, fails>> /\ cooling' /\ Finish(t, "rotated")
  BY DEF Rotated, world
<1>2. fails' >= fails
  BY <1>1 DEF IInv, TypeOK
<1> QED
  BY <1>1, <1>2, FinishAlone

LEMMA AloneStep ==
    ASSUME IInv, NEW t, Ticker = {t}, [Next]_vars
    PROVE  IInv'
<1>1. TypeOK'
  BY TypeStep DEF IInv
<1>2. CASE UNCHANGED vars
  <2>1. UNCHANGED <<tick, disk, prio, cooling, dayCount, fails, host>> /\ fails \in Nat
    BY <1>2 DEF vars, files, world, books, switches, IInv, TypeOK
  <2>2. fails' >= fails
    BY <2>1
  <2> QED
    BY <1>1, <2>1, <2>2, QuietAlone DEF IInv
<1>3. CASE Next
  <2>1. CASE TickBegin(t) \/ TickStep(t)
    BY <1>1, <2>1, BeginAlone, AskAlone, DecideAlone, RetireRefusedAlone, RecountAlone,
       PromoteAlone, PromotedAlone, RetireDrainedAlone, RotatedAlone DEF TickStep, IInv
  <2>2. CASE GapElapses
    BY <1>1, <2>2, GapAlone DEF IInv
  <2> QED
    BY <1>1, <1>3, <2>1, <2>2, OutsideAlone DEF Next, IInv
<1> QED
  BY <1>2, <1>3

LEMMA AloneAlways ==
    ASSUME NEW t, Ticker = {t}
    PROVE  Spec => []IInv
<1>1. Init => IInv
  BY TypeInit, AloneInit DEF IInv
<1>2. IInv /\ [Next]_vars => IInv'
  BY AloneStep
<1> QED
  BY <1>1, <1>2, PTL DEF Spec

-----------------------------------------------------------------------------
(* What the circuit breaker, retirement and promotion guarantee.           *)

(* While ticks do not overlap, a day's changes stay within the limit and   *)
(* one change per credential, however large the pool (mayAct, writeState). *)
THEOREM BudgetHolds ==
    ASSUME NEW t, Ticker = {t}
    PROVE  Spec => []DayBudget
<1>1. IInv => DayBudget
  BY DayIsBounded
<1> QED
  BY <1>1, AloneAlways, PTL

LEMMA OnlyWrites ==
    ASSUME TypeOK, NEW t, Ticker = {t}, Next, NEW c \in Cred, disk'[c] # disk[c]
    PROVE  RetireRefused(t, c) \/ Promote(t, c) \/ RetireDrained(t, c)
<1>1. PICK d \in Cred : RetireRefused(t, d) \/ Promote(t, d) \/ RetireDrained(t, d)
  BY DEF Next, TickStep, TickBegin, Ask, Judge, Confirmed, Widened, Vetted, Recount,
     RecountOf, Promoted, Rotated, Traffic, Elsewhere, Reset, Login, HostSync, Forget,
     HourElapses, Calm, GapElapses, NewDay, files
<1>2. \E p, disabling : \E ok \in {TRUE, DryRun}, on \in BOOLEAN :
          FileWrite(d, ok, on, p) /\ Booked(d, disabling)
  BY <1>1 DEF RetireRefused, Promote, RetireDrained
<1>3. d = c
  BY <1>2, WriteEffect
<1> QED
  BY <1>1, <1>3

(* Retirement leaves the target enabled (retireDrained).                   *)
THEOREM TargetKept ==
    ASSUME NEW u, Ticker = {u}
    PROVE  Spec => DrainKeepsTarget
<1>1. ASSUME IInv, Next, NEW c \in Cred,
             disk'[c] # disk[c], tick[u].pc = "drain", tick[u].fresh
      PROVE  Cardinality({d \in Cred : disk'[d]}) >= KeepEnabled
  <2>1. RetireDrained(u, c)
    BY <1>1, OnlyWrites DEF IInv, RetireRefused, Promote
  <2>2. PICK ok \in {TRUE, DryRun} : FileWrite(c, ok, FALSE, prio[c]) /\ Booked(c, TRUE)
    BY <2>1 DEF RetireDrained
  <2>3. /\ ok /\ ~DryRun /\ disk'[c] = FALSE
        /\ \A d \in Cred \ {c} : disk'[d] = disk[d]
    BY <1>1, <2>2, WriteEffect DEF IInv
  <2>4. disk[c] = TRUE
    BY <1>1, <2>3 DEF IInv, TypeOK
  <2>5. {d \in Cred : disk'[d]} = Enabled \ {c} /\ c \in Enabled /\ Enabled \subseteq Cred
    BY <2>3, <2>4 DEF Enabled
  <2>6. /\ Cardinality(Enabled \ {c}) = Cardinality(Enabled) - 1
        /\ Cardinality(Enabled) \in Nat
    BY <2>5, CardinalityType, FS_RemoveElement
  <2>7. tick[u].live <= Cardinality(Enabled)
    BY <1>1, <2>3 DEF IInv, Alone, LiveIsEnabled
  <2>8. tick[u].live > KeepEnabled /\ tick[u].live \in Int /\ KeepEnabled \in Nat
    <3>1. tick[u] \in Tick
      BY <1>1, TickType DEF IInv
    <3>2. tick[u].live \in Int
      BY <3>1 DEF Tick
    <3> QED
      BY <2>1, <3>2, PoolAssumption DEF RetireDrained, RoomToRetire
  <2> QED
    BY <2>5, <2>6, <2>7, <2>8
<1>2. IInv /\ [Next]_vars =>
        [\A t \in Ticker, c \in Cred :
          (Wrote(t, c) /\ tick[t].pc = "drain" /\ tick[t].fresh) =>
              Cardinality({d \in Cred : disk'[d]}) >= KeepEnabled]_vars
  BY <1>1 DEF Wrote
<1>3. Spec => []IInv
  BY AloneAlways
<1> QED
  BY <1>2, <1>3, PTL DEF Spec, DrainKeepsTarget

(* A serving member is not given up before a spent one that could go       *)
(* (retireDrained's order).                                                *)
THEOREM SpentGoFirst ==
    ASSUME NEW u, Ticker = {u}
    PROVE  Spec => EmptyGoesFirst
<1>1. ASSUME IInv, Next, NEW c \in Cred, disk'[c] # disk[c], fails = 0,
             tick[u].pc = "drain", tick[u].res[c] \in {"low", "ample"},
             NEW d \in (tick[u].enabled \cap Enabled) \ (NeverDisable \cup {c}),
             MemberState(d, tick[u].res[d]) \in {"dead", "exhausted"}
      PROVE  FALSE
  <2>1. RetireDrained(u, c)
    BY <1>1, OnlyWrites DEF IInv, RetireRefused, Promote
  <2>2. PICK ok \in {TRUE, DryRun} : FileWrite(c, ok, FALSE, prio[c]) /\ Booked(c, TRUE)
    BY <2>1 DEF RetireDrained
  <2>3. ~DryRun
    BY <1>1, <2>2, WriteEffect DEF IInv
  <2>4. d \in tick[u].todo
    BY <1>1, <2>3 DEF IInv, Alone, SpentAreListed, Enabled
  <2>5. Severity(c, tick[u].res[c]) <= Severity(d, tick[u].res[d])
    BY <2>1, <2>4 DEF RetireDrained
  <2>6. Severity(d, tick[u].res[d]) \in {0, 1}
    <3>1. tick[u].res[d] \in Result
      BY <1>1, TickType DEF IInv, Tick
    <3>2. tick[u].res[d] \in {"refused", "failed", "empty"}
      BY <1>1, <3>1, SpentStays
    <3> QED
      BY <1>1, <3>2 DEF Severity
  <2>7. MemberState(c, tick[u].res[c]) \notin {"dead", "exhausted"}
    BY <1>1 DEF MemberState
  <2>8. Severity(c, tick[u].res[c]) \in {2, 3}
    BY <1>1, <2>7 DEF Severity
  <2> QED
    BY <2>5, <2>6, <2>8
<1>2. IInv /\ [Next]_vars =>
        [\A t \in Ticker, c \in Cred :
          (/\ Wrote(t, c) /\ fails = 0 /\ tick[t].pc = "drain"
           /\ tick[t].res[c] \in {"low", "ample"}) =>
              \A d \in (tick[t].enabled \cap Enabled) \ (NeverDisable \cup {c}) :
                  MemberState(d, tick[t].res[d]) \notin {"dead", "exhausted"}]_vars
  BY <1>1 DEF Wrote
<1>3. Spec => []IInv
  BY AloneAlways
<1> QED
  BY <1>2, <1>3, PTL DEF Spec, EmptyGoesFirst

(* A newcomer is given a priority behind every enabled credential          *)
(* (backOfQueue).                                                          *)
THEOREM NewcomersJoinBack ==
    ASSUME NEW u, Ticker = {u}
    PROVE  Spec => NewcomerJoinsBack
<1>1. ASSUME IInv, Next, NEW c \in Cred, disk'[c] # disk[c], disk'[c], fails = 0,
             NEW d \in Enabled
      PROVE  prio'[c] < prio[d]
  <2>1. Promote(u, c)
    <3>1. ASSUME NEW ok \in {TRUE, DryRun}, FileWrite(c, ok, FALSE, prio[c]), Booked(c, TRUE)
          PROVE  FALSE
      BY <1>1, <3>1, WriteEffect DEF IInv
    <3> QED
      BY <1>1, <3>1, OnlyWrites DEF IInv, RetireRefused, RetireDrained
  <2>2. PICK ok \in {TRUE, DryRun} : FileWrite(c, ok, TRUE, tick[u].next) /\ Booked(c, FALSE)
    BY <2>1 DEF Promote
  <2>3. prio'[c] = tick[u].next
    BY <1>1, <2>2, WriteEffect DEF IInv
  <2> QED
    BY <1>1, <2>1, <2>3 DEF Promote, Enabled, IInv, Alone, QueueHasABack
<1>2. IInv /\ [Next]_vars =>
        [\A t \in Ticker, c \in Cred :
          (Wrote(t, c) /\ disk'[c] /\ fails = 0) =>
              \A d \in Enabled : prio'[c] < prio[d]]_vars
  BY <1>1 DEF Wrote
<1>3. Spec => []IInv
  BY AloneAlways
<1> QED
  BY <1>2, <1>3, PTL DEF Spec, NewcomerJoinsBack
===============================================================================
