---------------------------- MODULE MeterProofs ----------------------------
(***************************************************************************)
(* What Meter's ledger keeps whatever the number of requests under way,    *)
(* the size of a percentage point, the clients of the account, the resets  *)
(* upstream grants and the restarts of the proxy.                          *)
(*                                                                         *)
(* PendingInCycle is inductive together with the same fact of the ledger   *)
(* in state.json, from which a restart continues.  The others rest on the  *)
(* order of readings and are proved for one request or look at a time: two *)
(* that overlap do report a percentage that falls though nothing was       *)
(* granted.  Common to these proofs is how far a ledger is behind upstream *)
(* (Gap, Lost, Unnoticed, Due): what advance will conclude from the next   *)
(* reading is counted together with what it has concluded already.         *)
(***************************************************************************)
EXTENDS Meter, TLAPS

(* The four stages of advance keep a ledger a ledger. *)
LEMMA RolledTyped ==
    ASSUME NEW L \in Ledger, NEW r \in Reading
    PROVE  Rolled(L, r) \in Ledger
<1>1. ASSUME NEW granted \in BOOLEAN PROVE StartCycle(L, r, granted) \in Ledger
  <2>1. (IF granted THEN L.granted + 1 ELSE L.granted) \in Nat
    BY DEF Ledger
  <2>2. (r.percent = 0) \in BOOLEAN
    OBVIOUS
  <2> QED
    BY <2>1, <2>2 DEF StartCycle, Ledger, Reading
<1>2. [L EXCEPT !.key = r.reset] \in Ledger
  BY DEF Ledger, Reading
<1> QED
  BY <1>1, <1>2 DEF Rolled, Moved, Fell

LEMMA CaughtUpTyped ==
    ASSUME NEW L \in Ledger, NEW r \in Reading
    PROVE  CaughtUp(L, r) \in Ledger
BY DEF CaughtUp, Ledger, Reading

LEMMA CalibratedTyped ==
    ASSUME NEW L \in Ledger, NEW r \in Reading
    PROVE  Calibrated(L, r) \in Ledger
<1>1. CASE L.hasLast /\ r.percent > L.percent
  <2> DEFINE S == [L.samples EXCEPT ![L.key] = @ + L.pending]
  <2>1. L.samples \in [Time -> Nat] /\ L.key \in Time /\ L.pending \in Nat
    BY DEF Ledger
  <2>2. S \in [Time -> Nat]
    BY <2>1
  <2>3. Calibrated(L, r) = [L EXCEPT !.samples = S, !.pending = 0]
    BY <1>1 DEF Calibrated, Ledger
  <2> HIDE DEF S
  <2>4. [L EXCEPT !.samples = S, !.pending = 0] \in Ledger
    BY <2>2 DEF Ledger
  <2> QED
    BY <2>3, <2>4
<1>2. CASE ~(L.hasLast /\ r.percent > L.percent)
  BY <1>2 DEF Calibrated
<1> QED
  BY <1>1, <1>2

LEMMA AdvanceTyped ==
    ASSUME NEW L \in Ledger, NEW r \in Reading
    PROVE  Advance(L, r) \in Ledger
<1> DEFINE M == Calibrated(CaughtUp(Rolled(L, r), r), r)
<1>1. M \in Ledger
  BY RolledTyped, CaughtUpTyped, CalibratedTyped
<1>2. [M EXCEPT !.percent = r.percent, !.hasLast = TRUE] \in Ledger
  BY <1>1 DEF Ledger, Reading
<1> QED
  BY <1>2 DEF Advance

LEMMA BillTyped ==
    ASSUME NEW L \in Ledger, NEW cost \in Nat
    PROVE  Bill(L, cost) \in Ledger
<1> DEFINE P == L.pending + cost
           U == L.usd + cost
<1>1. P \in Nat /\ U \in Nat
  BY DEF Ledger
<1>2. Bill(L, cost) = [L EXCEPT !.pending = P, !.usd = U, !.touched = TRUE]
  BY DEF Bill, Ledger
<1> HIDE DEF P, U
<1>3. [L EXCEPT !.pending = P, !.usd = U, !.touched = TRUE] \in Ledger
  BY <1>1 DEF Ledger
<1> QED
  BY <1>2, <1>3

LEMMA BillNothingTyped ==
    ASSUME NEW L \in Ledger, NEW cost \in Nat
    PROVE  BillNothing(L, cost) \in Ledger
<1> DEFINE U == L.unbilled + cost
<1>1. U \in Nat
  BY DEF Ledger
<1>2. BillNothing(L, cost) = [L EXCEPT !.unbilled = U, !.touched = TRUE]
  BY DEF BillNothing, Ledger
<1> HIDE DEF U
<1>3. [L EXCEPT !.unbilled = U, !.touched = TRUE] \in Ledger
  BY <1>1 DEF Ledger
<1> QED
  BY <1>2, <1>3

(* What a request leaves of the ledger its reading was folded into.        *)
Entered(L, cost) == {Bill(L, cost), BillNothing(L, cost)}

LEMMA EnteredEffect ==
    ASSUME NEW L \in Ledger, NEW cost \in Nat, NEW M \in Entered(L, cost)
    PROVE  /\ M \in Ledger /\ M.touched = TRUE
           /\ M.key = L.key /\ M.covered = L.covered /\ M.percent = L.percent
           /\ M.hasLast = L.hasLast /\ M.samples = L.samples /\ M.cycles = L.cycles
           /\ M.granted = L.granted /\ M.resumed = L.resumed
           /\ \/ /\ M.usd = L.usd + cost /\ M.pending = L.pending + cost
                 /\ M.unbilled = L.unbilled
              \/ /\ M.usd = L.usd /\ M.pending = L.pending
                 /\ M.unbilled = L.unbilled + cost
<1>1. CASE M = Bill(L, cost)
  BY <1>1, BillTyped DEF Bill, Ledger
<1>2. CASE M = BillNothing(L, cost)
  BY <1>2, BillNothingTyped DEF BillNothing, Ledger
<1> QED
  BY <1>1, <1>2 DEF Entered

LEMMA HandleUsageEnters ==
    ASSUME NEW s, HandleUsage(s)
    PROVE  ledger' \in Entered(Advance(ledger, slot[s].reading), slot[s].cost)
  BY DEF HandleUsage, Entered

(* None of them leaves pending what the cycle has not billed. *)
LEMMA AdvancePending ==
    ASSUME NEW L \in Ledger, NEW r \in Reading, L.pending <= L.usd
    PROVE  Advance(L, r).pending <= Advance(L, r).usd
<1> DEFINE A == Rolled(L, r)
           B == CaughtUp(A, r)
           C == Calibrated(B, r)
<1>1. A \in Ledger /\ B \in Ledger /\ C \in Ledger
  BY RolledTyped, CaughtUpTyped, CalibratedTyped
<1>2. A.pending <= A.usd
  <2>1. \A granted \in BOOLEAN :
           StartCycle(L, r, granted).pending = 0 /\ StartCycle(L, r, granted).usd = 0
    BY DEF StartCycle
  <2>2. /\ [L EXCEPT !.key = r.reset].pending = L.pending
        /\ [L EXCEPT !.key = r.reset].usd = L.usd
    BY DEF Ledger
  <2>3. \/ A = L
        \/ A = [L EXCEPT !.key = r.reset]
        \/ A = StartCycle(L, r, FALSE)
        \/ A = StartCycle(L, r, TRUE)
    BY DEF Rolled
  <2> HIDE DEF A
  <2>4. CASE A = [L EXCEPT !.key = r.reset]
    BY <2>2, <2>4
  <2>5. CASE A = StartCycle(L, r, FALSE) \/ A = StartCycle(L, r, TRUE)
    <3>1. A.pending = 0 /\ A.usd = 0
      BY <2>1, <2>5, Zenon
    <3> QED
      BY <3>1
  <2> QED
    BY <2>3, <2>4, <2>5
<1>3. B.pending <= B.usd
  <2> HIDE DEF A
  <2>1. B.usd = A.usd /\ (B.pending = A.pending \/ B.pending = 0)
    BY <1>1 DEF CaughtUp, Ledger
  <2> QED
    BY <1>1, <1>2, <2>1 DEF Ledger
<1>4. C.pending <= C.usd
  <2> HIDE DEF B
  <2>1. C.usd = B.usd /\ (C.pending = B.pending \/ C.pending = 0)
    BY <1>1 DEF Calibrated, Ledger
  <2> QED
    BY <1>1, <1>3, <2>1 DEF Ledger
<1>5. Advance(L, r).pending = C.pending /\ Advance(L, r).usd = C.usd
  <2> HIDE DEF C
  <2>1. LET K == [C EXCEPT !.percent = r.percent, !.hasLast = TRUE]
        IN  K.pending = C.pending /\ K.usd = C.usd
    BY <1>1 DEF Ledger
  <2> QED
    BY <2>1 DEF Advance, C
<1> QED
  BY <1>4, <1>5

LEMMA EnteredPending ==
    ASSUME NEW L \in Ledger, NEW cost \in Nat, L.pending <= L.usd,
           NEW M \in Entered(L, cost)
    PROVE  M.pending <= M.usd
<1>1. L.usd \in Nat /\ L.pending \in Nat
  BY DEF Ledger
<1>2. \/ M.usd = L.usd + cost /\ M.pending = L.pending + cost
      \/ M.usd = L.usd /\ M.pending = L.pending
  BY EnteredEffect
<1> QED
  BY <1>1, <1>2

-----------------------------------------------------------------------------
(* A reading is a reading, whoever takes it. *)
LEMMA ReportTyped ==
    ASSUME NEW isStarted \in BOOLEAN, NEW end \in Time,
           spent \in Nat, now \in 0 .. MaxNow
    PROVE  Report(isStarted, end) \in Reading
<1>1. spent \div Step \in Nat
  BY MeterAssumption
<1>2. 0 \in Time /\ now + Period \in Time
  BY MeterAssumption DEF Time
<1> QED
  BY <1>1, <1>2, MeterAssumption DEF Report, Reading

LEMMA FreshTyped == Fresh \in Ledger /\ Free \in Job
<1>1. 0 \in Time
  BY MeterAssumption DEF Time
<1> QED
  BY <1>1 DEF Fresh, Ledger, Free, Job, Reading

(* Every variable keeps its type: in particular no reading, in whatever    *)
(* order it is applied, makes an amount of the ledger negative.            *)
THEOREM TypeCorrect == Spec => []TypeOK
<1>1. Init => TypeOK
  <2>1. ASSUME Init PROVE TypeOK
    <3>1. spent \in Nat /\ started \in BOOLEAN /\ reset \in Time
      BY <2>1, MeterAssumption DEF Init, Time
    <3> QED
      BY <2>1, <3>1, FreshTyped, MeterAssumption DEF Init, TypeOK
  <2> QED
    BY <2>1
<1>2. TypeOK /\ [Next]_vars => TypeOK'
  <2> SUFFICES ASSUME TypeOK, [Next]_vars PROVE TypeOK'
    OBVIOUS
  <2> USE DEF TypeOK
  <2>1. ASSUME NEW s \in Slot, Respond(s) PROVE TypeOK'
    <3>1. reset' \in Time
      BY <2>1, MeterAssumption DEF Respond, Time
    <3>2. Report(TRUE, reset') \in Reading
      BY <3>1, ReportTyped
    <3>3. [Free EXCEPT !.pc = "answered", !.window = resets,
                       !.reading = Report(TRUE, reset')] \in Job
      BY <3>2, FreshTyped DEF Job
    <3> QED
      BY <2>1, <3>1, <3>3 DEF Respond
  <2>2. ASSUME NEW s \in Slot, Charge(s) PROVE TypeOK'
    <3> PICK cost \in Cost :
           /\ slot' = [slot EXCEPT ![s].pc = "charged", ![s].cost = cost]
           /\ spent' = IF slot[s].window = resets THEN spent + cost ELSE spent
      BY <2>2 DEF Charge
    <3>1. cost \in Nat
      BY MeterAssumption DEF Cost
    <3>2. spent' \in Nat
      BY <3>1
    <3>3. [slot[s] EXCEPT !.pc = "charged", !.cost = cost] \in Job
      BY <3>1 DEF Job
    <3>4. slot' = [slot EXCEPT ![s] = [slot[s] EXCEPT !.pc = "charged", !.cost = cost]]
      OBVIOUS
    <3>5. slot' \in [Slot -> Job]
      BY <3>3, <3>4
    <3> QED
      BY <2>2, <3>2, <3>5 DEF Charge
  <2>3. ASSUME NEW s \in Slot, HandleUsage(s) PROVE TypeOK'
    <3>1. slot[s].reading \in Reading /\ slot[s].cost \in Nat
      BY DEF Job
    <3>2. ledger' \in Ledger
      BY <2>3, <3>1, AdvanceTyped, HandleUsageEnters, EnteredEffect
    <3>3. alarms' \in Nat
      BY <2>3 DEF HandleUsage
    <3> QED
      BY <2>3, <3>2, <3>3, FreshTyped DEF HandleUsage, upstream
  <2>4. ASSUME NEW s \in Slot, Look(s) PROVE TypeOK'
    <3>1. Report(started, reset) \in Reading
      BY ReportTyped
    <3>2. [Free EXCEPT !.pc = "looked", !.reading = Report(started, reset)] \in Job
      BY <3>1, FreshTyped DEF Job
    <3> QED
      BY <2>4, <3>2 DEF Look, upstream
  <2>5. ASSUME NEW s \in Slot, ObserveReading(s) PROVE TypeOK'
    <3>1. slot[s].reading \in Reading
      BY DEF Job
    <3> QED
      BY <2>5, <3>1, AdvanceTyped, FreshTyped DEF ObserveReading, upstream
  <2>6. CASE Tick
    <3>1. now' \in 0 .. MaxNow
      BY <2>6, MeterAssumption DEF Tick
    <3>2. spent' \in Nat /\ started' \in BOOLEAN /\ resets' \in Nat /\ grants' \in 0 .. MaxGrant
      <4>1. CASE Ends(0) /\ started' = FALSE
        <5>1. started' \in BOOLEAN
          BY <4>1
        <5>2. spent' \in Nat /\ resets' \in Nat /\ grants' = grants
          BY <4>1, MeterAssumption DEF Ends
        <5> QED
          BY <5>1, <5>2
      <4>2. CASE UNCHANGED upstream
        BY <4>2 DEF upstream
      <4> QED
        BY <2>6, <4>1, <4>2 DEF Tick
    <3>3. reset' \in Time
      BY <2>6, MeterAssumption DEF Tick, upstream, Time
    <3> QED
      BY <2>6, <3>1, <3>2, <3>3 DEF Tick
  <2>7. CASE Grant
    BY <2>7, MeterAssumption DEF Grant, Ends, Time
  <2>8. CASE External
    BY <2>8, MeterAssumption DEF External, Time, Cost
  <2>9. CASE Flush
    BY <2>9 DEF Flush, upstream
  <2>10. CASE Crash
    <3>1. [saved EXCEPT !.resumed = TRUE] \in Ledger
      BY DEF Ledger
    <3>2. slot' \in [Slot -> Job]
      BY <2>10, FreshTyped DEF Crash
    <3>3. ledger' \in Ledger /\ saved' \in Ledger
      BY <2>10, <3>1 DEF Crash
    <3>4. crashes' \in 0 .. MaxCrash /\ alarms' \in Nat
      BY <2>10, MeterAssumption DEF Crash
    <3> QED
      BY <2>10, <3>2, <3>3, <3>4 DEF Crash, upstream
  <2>11. ASSUME NEW s \in Slot, HandleUsageBlind(s) PROVE TypeOK'
    <3>1. externals' \in 0 .. MaxExternal
      BY <2>11, MeterAssumption DEF HandleUsageBlind
    <3> QED
      BY <2>11, <3>1, FreshTyped DEF HandleUsageBlind, upstream
  <2>12. CASE UNCHANGED vars
    BY <2>12 DEF vars
  <2> QED
    BY <2>1, <2>2, <2>3, <2>4, <2>5, <2>6, <2>7, <2>8, <2>9, <2>10, <2>11, <2>12 DEF Next
<1> QED
  BY <1>1, <1>2, PTL DEF Spec

-----------------------------------------------------------------------------
(* The inductive form: state.json is a ledger a restart continues from. *)
PendingInv == PendingInCycle /\ saved.pending <= saved.usd

LEMMA PendingStep == TypeOK /\ PendingInv /\ [Next]_vars => PendingInv'
<1> SUFFICES ASSUME TypeOK, PendingInv, [Next]_vars PROVE PendingInv'
  OBVIOUS
<1> USE DEF TypeOK, PendingInv, PendingInCycle
<1>1. ASSUME NEW s \in Slot, Respond(s) \/ Charge(s) \/ Look(s) \/ HandleUsageBlind(s)
      PROVE  PendingInv'
  BY <1>1 DEF Respond, Charge, Look, HandleUsageBlind
<1>2. ASSUME NEW s \in Slot, HandleUsage(s) PROVE PendingInv'
  <2>1. slot[s].reading \in Reading /\ slot[s].cost \in Nat
    BY DEF Job
  <2>2. ledger'.pending <= ledger'.usd
    BY <1>2, <2>1, AdvanceTyped, AdvancePending, HandleUsageEnters, EnteredPending
  <2> QED
    BY <1>2, <2>2 DEF HandleUsage
<1>3. ASSUME NEW s \in Slot, ObserveReading(s) PROVE PendingInv'
  <2>1. slot[s].reading \in Reading
    BY DEF Job
  <2> QED
    BY <1>3, <2>1, AdvancePending DEF ObserveReading
<1>4. CASE Tick \/ Grant \/ External
  BY <1>4 DEF Tick, Grant, External
<1>5. CASE Flush
  BY <1>5 DEF Flush
<1>6. CASE Crash
  BY <1>6 DEF Crash, Ledger
<1>7. CASE UNCHANGED vars
  BY <1>7 DEF vars
<1> QED
  BY <1>1, <1>2, <1>3, <1>4, <1>5, <1>6, <1>7 DEF Next

(* What is pending was billed in this cycle: AttributedUSD, the spend the  *)
(* estimate divides by the percentage, is never negative.                  *)
THEOREM NothingPendingUnbilled == Spec => []PendingInCycle
<1>1. Init => PendingInv
  BY DEF Init, Fresh, PendingInv, PendingInCycle
<1>2. TypeOK /\ PendingInv /\ [Next]_vars => PendingInv'
  BY PendingStep
<1>3. PendingInv => PendingInCycle
  BY DEF PendingInv
<1> QED
  BY <1>1, <1>2, <1>3, TypeCorrect, PTL DEF Spec

-----------------------------------------------------------------------------
(* With one request or look at a time, and no reset granted, readings      *)
(* follow upstream's windows in order: boundaries only move forward, and   *)
(* within one the percentage only rises.                                   *)

(* The boundary upstream would name now. *)
Said == IF started THEN reset ELSE now + Period

(* A reading of this boundary and percentage may have been taken by now. *)
TakenBy(boundary, percent) ==
    boundary <= Said /\ (boundary = Said => percent <= spent \div Step)

WindowRuns ==
    /\ started => now < reset /\ reset <= now + Period
    /\ ~started => spent = 0

(* The samples of a ledger: none of a cycle to come, and the present one's *)
(* price no more than it has billed.                                       *)
OwnSamples(L) ==
    /\ \A k \in Time : k > L.key => L.samples[k] = 0
    /\ L.key # 0 => L.samples[L.key] + L.pending <= L.usd

(* A reading the ledger has not fallen behind. *)
Follows(r, L) ==
    /\ r.reset > 0 /\ L.key <= r.reset
    /\ L.key = r.reset => L.percent <= r.percent

InTurn(s) ==
    slot[s].pc # "idle" =>
        /\ TakenBy(slot[s].reading.reset, slot[s].reading.percent)
        /\ Follows(slot[s].reading, ledger)
        /\ slot[s].window <= resets
        /\ slot[s].pc # "looked" /\ slot[s].window = resets => started

(* The inductive form.  Where upstream names no boundary no cycle is named *)
(* either.                                                                 *)
OwnInv(s) ==
    /\ ~ReportsReset => ledger.key = 0 /\ saved.key = 0 /\ slot[s].reading.reset = 0
    /\ ReportsReset /\ grants = 0 =>
           /\ WindowRuns
           /\ OwnSamples(ledger) /\ TakenBy(ledger.key, ledger.percent)
           /\ OwnSamples(saved) /\ TakenBy(saved.key, saved.percent)
           /\ InTurn(s)

LEMMA PointsAreNat ==
    ASSUME NEW a \in Nat
    PROVE  a \div Step \in Nat
BY MeterAssumption

LEMMA PointsGrow ==
    ASSUME NEW a \in Nat, NEW b \in Nat, a <= b
    PROVE  a \div Step <= b \div Step
<1>1. Step \in Nat /\ Step > 0
  BY MeterAssumption
<1> QED
  BY <1>1

LEMMA RolledOwn ==
    ASSUME NEW L \in Ledger, NEW r \in Reading, OwnSamples(L), Follows(r, L)
    PROVE  /\ Rolled(L, r).key = r.reset /\ Rolled(L, r).percent <= r.percent
           /\ OwnSamples(Rolled(L, r))
<1>1. L.key \in Time /\ r.reset \in Time /\ L.percent \in Nat /\ r.percent \in Nat
  BY DEF Ledger, Reading
<1>2. CASE L.key = r.reset
  <2>1. ~Moved(L, r) /\ ~Fell(L, r) /\ L.key # 0
    BY <1>1, <1>2 DEF Moved, Fell, Follows, Time
  <2>2. Rolled(L, r) = L
    BY <2>1 DEF Rolled
  <2> QED
    BY <1>2, <2>2 DEF Follows
<1>3. CASE L.key # r.reset
  <2>1. L.key < r.reset /\ Moved(L, r)
    BY <1>1, <1>3, MeterAssumption DEF Follows, Moved, Time
  <2>2. L.samples[r.reset] = 0 /\ \A k \in Time : k > r.reset => L.samples[k] = 0
    BY <1>1, <2>1, MeterAssumption DEF OwnSamples, Time
  <2>3. CASE L.key # 0 /\ Untouched(L, r)
    <3>1. Rolled(L, r) = [L EXCEPT !.key = r.reset]
      BY <2>1, <2>3 DEF Rolled
    <3>2. L.percent = 0 /\ L.pending = 0 /\ L.usd \in Nat
      BY <2>3 DEF Untouched, Ledger
    <3> DEFINE K == [L EXCEPT !.key = r.reset]
    <3>3. /\ K.key = r.reset /\ K.percent = L.percent /\ K.samples = L.samples
          /\ K.pending = L.pending /\ K.usd = L.usd
      BY DEF Ledger
    <3> HIDE DEF K
    <3>4. OwnSamples(K)
      BY <1>1, <2>2, <3>2, <3>3 DEF OwnSamples
    <3> QED
      BY <1>1, <3>1, <3>2, <3>3, <3>4 DEF K
  <2>4. CASE ~(L.key # 0 /\ Untouched(L, r))
    <3> DEFINE K == StartCycle(L, r, FALSE)
    <3>1. Rolled(L, r) = K
      BY <2>1, <2>4 DEF Rolled
    <3>2. /\ K.key = r.reset /\ K.percent = 0 /\ K.samples = L.samples
          /\ K.pending = 0 /\ K.usd = 0
      BY DEF StartCycle
    <3> HIDE DEF K
    <3>3. OwnSamples(K)
      BY <1>1, <2>2, <3>2 DEF OwnSamples
    <3> QED
      BY <1>1, <3>1, <3>2, <3>3
  <2> QED
    BY <2>3, <2>4
<1> QED
  BY <1>2, <1>3

LEMMA CaughtUpOwn ==
    ASSUME NEW L \in Ledger, NEW r \in Reading, OwnSamples(L),
           L.key = r.reset, L.percent <= r.percent
    PROVE  /\ CaughtUp(L, r).key = r.reset /\ OwnSamples(CaughtUp(L, r))
<1> DEFINE C == CaughtUp(L, r)
<1>1. /\ C.key = L.key /\ C.samples = L.samples /\ C.usd = L.usd
      /\ C.pending = L.pending \/ C.pending = 0
  BY DEF CaughtUp, Ledger
<1>2. L.samples \in [Time -> Nat] /\ L.key \in Time /\ L.pending \in Nat /\ L.usd \in Nat
  BY DEF Ledger
<1>3. L.samples[L.key] \in Nat
  BY <1>2
<1> HIDE DEF C
<1>4. C.key # 0 => C.samples[C.key] + C.pending <= C.usd
  BY <1>1, <1>2, <1>3 DEF OwnSamples
<1>5. OwnSamples(C)
  BY <1>1, <1>4 DEF OwnSamples
<1> QED
  BY <1>1, <1>5 DEF C

LEMMA CalibratedOwn ==
    ASSUME NEW L \in Ledger, NEW r \in Reading, OwnSamples(L), L.key = r.reset
    PROVE  /\ Calibrated(L, r).key = r.reset /\ OwnSamples(Calibrated(L, r))
<1>1. L.samples \in [Time -> Nat] /\ L.key \in Time /\ L.pending \in Nat /\ L.usd \in Nat
  BY DEF Ledger
<1>2. CASE L.hasLast /\ r.percent > L.percent
  <2> DEFINE S == [L.samples EXCEPT ![L.key] = @ + L.pending]
             K == [L EXCEPT !.samples = S, !.pending = 0]
  <2>1. S[L.key] = L.samples[L.key] + L.pending
    BY <1>1
  <2>2. \A k \in Time : k # L.key => S[k] = L.samples[k]
    BY <1>1
  <2>3. Calibrated(L, r) = K
    BY <1>2 DEF Calibrated, Ledger
  <2>4. L.samples[L.key] \in Nat
    BY <1>1
  <2> HIDE DEF S
  <2>5. K.key = L.key /\ K.samples = S /\ K.pending = 0 /\ K.usd = L.usd
    BY DEF Ledger
  <2> HIDE DEF K
  <2>6. \A k \in Time : k > K.key => K.samples[k] = 0
    <3> TAKE k \in Time
    <3> HAVE k > K.key
    <3>1. k # L.key
      BY <1>1, <2>5, MeterAssumption DEF Time
    <3> QED
      BY <2>2, <2>5, <3>1 DEF OwnSamples
  <2>7. K.key # 0 => K.samples[K.key] + K.pending <= K.usd
    BY <1>1, <2>1, <2>4, <2>5 DEF OwnSamples
  <2> QED
    BY <2>3, <2>5, <2>6, <2>7 DEF OwnSamples
<1>3. CASE ~(L.hasLast /\ r.percent > L.percent)
  BY <1>3 DEF Calibrated
<1> QED
  BY <1>2, <1>3

LEMMA AdvanceOwn ==
    ASSUME NEW L \in Ledger, NEW r \in Reading, OwnSamples(L), Follows(r, L)
    PROVE  /\ Advance(L, r).key = r.reset /\ Advance(L, r).percent = r.percent
           /\ OwnSamples(Advance(L, r))
<1> DEFINE A == Rolled(L, r)
           B == CaughtUp(A, r)
           C == Calibrated(B, r)
           K == [C EXCEPT !.percent = r.percent, !.hasLast = TRUE]
<1>1. A \in Ledger /\ B \in Ledger /\ C \in Ledger
  BY RolledTyped, CaughtUpTyped, CalibratedTyped
<1>2. A.key = r.reset /\ A.percent <= r.percent /\ OwnSamples(A)
  BY RolledOwn
<1>3. B.key = r.reset /\ OwnSamples(B)
  BY <1>1, <1>2, CaughtUpOwn
<1>4. C.key = r.reset /\ OwnSamples(C)
  BY <1>1, <1>3, CalibratedOwn
<1>5. Advance(L, r) = K
  BY DEF Advance
<1> HIDE DEF C
<1>6. /\ K.key = C.key /\ K.percent = r.percent /\ K.samples = C.samples
      /\ K.pending = C.pending /\ K.usd = C.usd
  BY <1>1 DEF Ledger
<1> QED
  BY <1>4, <1>5, <1>6 DEF OwnSamples

LEMMA EnteredOwn ==
    ASSUME NEW L \in Ledger, NEW cost \in Nat, OwnSamples(L), NEW K \in Entered(L, cost)
    PROVE  K.key = L.key /\ K.percent = L.percent /\ OwnSamples(K)
<1>1. /\ K.key = L.key /\ K.percent = L.percent /\ K.samples = L.samples
      /\ \/ K.pending = L.pending + cost /\ K.usd = L.usd + cost
         \/ K.pending = L.pending /\ K.usd = L.usd
  BY EnteredEffect
<1>2. L.samples \in [Time -> Nat] /\ L.key \in Time /\ L.pending \in Nat /\ L.usd \in Nat
  BY DEF Ledger
<1>3. L.samples[L.key] \in Nat
  BY <1>2
<1>4. K.key # 0 => K.samples[K.key] + K.pending <= K.usd
  BY <1>1, <1>2, <1>3 DEF OwnSamples
<1>5. OwnSamples(K)
  BY <1>1, <1>4 DEF OwnSamples
<1> QED
  BY <1>1, <1>5

LEMMA SaidTyped == TypeOK => Said \in Nat
BY MeterAssumption DEF Said, TypeOK, Time

LEMMA LedgerTakes ==
    ASSUME NEW L \in Ledger
    PROVE  L.key \in Nat /\ L.percent \in Nat
BY MeterAssumption DEF Ledger, Time

LEMMA ReadingTakes ==
    ASSUME NEW r \in Reading
    PROVE  r.reset \in Nat /\ r.percent \in Nat
BY MeterAssumption DEF Reading, Time

(* A reading taken now follows any ledger made of earlier ones. *)
LEMMA ReportFollows ==
    ASSUME TypeOK, ReportsReset, WindowRuns, TakenBy(ledger.key, ledger.percent),
           NEW end, NEW isStarted \in BOOLEAN, started => isStarted, isStarted => end = Said
    PROVE  LET r == Report(isStarted, end)
           IN  /\ r.reset = Said /\ r.percent = spent \div Step
               /\ Follows(r, ledger) /\ TakenBy(r.reset, r.percent)
<1> DEFINE r == Report(isStarted, end)
<1>1. r.percent = spent \div Step /\ r.reset = Said
  <2>1. r.percent = spent \div Step
    BY DEF Report
  <2>2. r.reset = IF isStarted THEN end ELSE now + Period
    BY DEF Report
  <2> QED
    BY <2>1, <2>2 DEF Said
<1>2. Said \in Nat /\ Said > 0
  BY MeterAssumption DEF Said, TypeOK, Time, WindowRuns
<1>3. spent \div Step \in Nat
  BY PointsAreNat DEF TypeOK
<1> HIDE DEF r
<1> QED
  BY <1>1, <1>2, <1>3 DEF Follows, TakenBy, r

(* Upstream's part of a step. *)
Forward ==
    /\ WindowRuns' /\ Said' \in Nat /\ Said <= Said'
    /\ Said' = Said => spent <= spent'

LEMMA UpstreamMovesForward ==
    ASSUME NEW s, Slot = {s}, TypeOK, WindowRuns, InTurn(s), [Next]_vars, grants' = 0
    PROVE  Forward
<1>1. /\ now \in Nat /\ reset \in Nat /\ started \in BOOLEAN /\ spent \in Nat
      /\ Period \in Nat /\ Period > 0 /\ grants \in Nat
  BY MeterAssumption DEF TypeOK, Time
<1> HIDE DEF Said
<1>2. CASE UNCHANGED <<now, upstream>>
  <2>1. Said' = Said /\ WindowRuns' /\ spent' = spent /\ grants' = grants
    BY <1>2 DEF Said, WindowRuns, upstream
  <2> QED
    BY <1>1, <2>1, SaidTyped DEF Forward
<1>3. ASSUME NEW end, end = Said, started' = TRUE, reset' = end, now' = now,
             spent' \in Nat, spent <= spent', grants' = grants
      PROVE  Forward
  <2>1. Said' = Said
    BY <1>3 DEF Said
  <2>2. now < Said /\ Said <= now + Period
    BY <1>1 DEF Said, WindowRuns
  <2>3. WindowRuns'
    BY <1>3, <2>2 DEF WindowRuns
  <2> QED
    BY <1>3, <2>1, <2>3, SaidTyped DEF Forward
<1>4. ASSUME Respond(s) PROVE Forward
  <2>1. reset' = Said
    BY <1>4 DEF Respond, Said
  <2> QED
    BY <1>1, <1>3, <1>4, <2>1 DEF Respond
<1>5. ASSUME Charge(s) PROVE Forward
  <2>1. PICK cost \in Cost :
           spent' = IF slot[s].window = resets THEN spent + cost ELSE spent
    BY <1>5 DEF Charge
  <2>2. cost \in Nat
    BY MeterAssumption DEF Cost
  <2>3. UNCHANGED <<now, started, reset, grants>>
    BY <1>5 DEF Charge
  <2>4. CASE slot[s].window = resets
    <3>1. started
      BY <1>5, <2>4 DEF Charge, InTurn
    <3>2. spent' \in Nat /\ spent <= spent'
      BY <1>1, <2>1, <2>2, <2>4
    <3>3. started' = TRUE /\ reset' = Said
      BY <1>1, <2>3, <3>1 DEF Said
    <3> QED
      BY <1>3, <2>3, <3>2, <3>3
  <2>5. CASE slot[s].window # resets
    <3>1. spent' = spent
      BY <2>1, <2>5
    <3>2. Said' = Said /\ WindowRuns'
      BY <2>3, <3>1 DEF Said, WindowRuns
    <3> QED
      BY <1>1, <2>3, <3>1, <3>2, SaidTyped DEF Forward
  <2> QED
    BY <2>4, <2>5
<1>6. ASSUME Tick PROVE Forward
  <2>1. now' = now + 1
    BY <1>6 DEF Tick
  <2>2. CASE started /\ reset <= now + 1
    <3>1. started' = FALSE /\ spent' = 0 /\ grants' = grants
      BY <1>1, <1>6, <2>1, <2>2 DEF Tick, Ends
    <3>2. Said = reset /\ Said' = now + 1 + Period
      BY <2>1, <2>2, <3>1 DEF Said
    <3>3. WindowRuns'
      BY <3>1 DEF WindowRuns
    <3> QED
      BY <1>1, <2>2, <3>1, <3>2, <3>3 DEF Forward
  <2>3. CASE ~(started /\ reset <= now + 1)
    <3>1. UNCHANGED upstream
      BY <1>6, <2>1, <2>3 DEF Tick
    <3>2. started' = started /\ reset' = reset /\ spent' = spent /\ grants' = grants
      BY <3>1 DEF upstream
    <3>3. CASE started
      <4>1. Said = reset /\ Said' = reset
        BY <3>2, <3>3 DEF Said
      <4>2. now + 1 < reset /\ reset <= now + 1 + Period
        BY <1>1, <2>3, <3>3 DEF WindowRuns
      <4>3. WindowRuns'
        BY <2>1, <3>2, <3>3, <4>2 DEF WindowRuns
      <4> QED
        BY <1>1, <3>2, <4>1, <4>3 DEF Forward
    <3>4. CASE ~started
      <4>1. Said = now + Period /\ Said' = now + 1 + Period
        BY <2>1, <3>2, <3>4 DEF Said
      <4>2. WindowRuns'
        BY <3>2, <3>4 DEF WindowRuns
      <4> QED
        BY <1>1, <3>2, <4>1, <4>2 DEF Forward
    <3> QED
      BY <3>3, <3>4
  <2> QED
    BY <2>2, <2>3
<1>7. ASSUME Grant PROVE FALSE
  BY <1>1, <1>7 DEF Grant, Ends
<1>8. ASSUME External PROVE Forward
  <2>1. PICK cost \in Cost : spent' = spent + cost
    BY <1>8 DEF External
  <2>2. cost \in Nat
    BY MeterAssumption DEF Cost
  <2>3. reset' = Said
    BY <1>8 DEF External, Said
  <2> QED
    BY <1>1, <1>3, <1>8, <2>1, <2>2, <2>3 DEF External
<1>9. ASSUME \/ HandleUsage(s) \/ HandleUsageBlind(s) \/ Look(s) \/ ObserveReading(s)
             \/ Flush \/ Crash \/ UNCHANGED vars
      PROVE  UNCHANGED <<now, upstream>>
  BY <1>9 DEF HandleUsage, HandleUsageBlind, Look, ObserveReading, Flush, Crash, vars, upstream
<1> QED
  BY <1>2, <1>4, <1>5, <1>6, <1>7, <1>8, <1>9 DEF Next

(* What upstream names only moves forward, so what was taken stays taken. *)
LEMMA StaysTaken ==
    ASSUME TypeOK, spent' \in Nat, Forward, NEW k \in Nat, NEW p \in Nat, TakenBy(k, p)
    PROVE  TakenBy(k, p)'
<1> HIDE DEF Said
<1>1. PICK said \in Nat, used \in Nat : said = Said /\ used = spent
  BY SaidTyped, Zenon DEF TypeOK
<1>2. PICK said2 \in Nat, used2 \in Nat : said2 = Said' /\ used2 = spent'
  BY Zenon DEF Forward
<1>3. /\ said <= said2 /\ (said2 = said => used <= used2)
      /\ k <= said /\ (k = said => p <= used \div Step)
  BY <1>1, <1>2 DEF Forward, TakenBy
<1>4. k <= said2
  BY <1>3
<1>5. ASSUME k = said2 PROVE p <= used2 \div Step
  <2>1. p <= used \div Step /\ used <= used2
    BY <1>3, <1>5
  <2>2. used \div Step <= used2 \div Step
    BY <2>1, PointsGrow
  <2>3. used \div Step \in Nat /\ used2 \div Step \in Nat
    BY PointsAreNat
  <2> QED
    BY <2>1, <2>2, <2>3
<1> QED
  BY <1>2, <1>4, <1>5 DEF TakenBy

LEMMA NamelessStays ==
    ASSUME NEW L \in Ledger, NEW r \in Reading, L.key = 0, r.reset = 0
    PROVE  Advance(L, r).key = 0
<1> DEFINE A == Rolled(L, r)
           B == CaughtUp(A, r)
           C == Calibrated(B, r)
<1>1. A \in Ledger /\ B \in Ledger /\ C \in Ledger
  BY RolledTyped, CaughtUpTyped, CalibratedTyped
<1>2. A = StartCycle(L, r, FALSE)
  BY DEF Rolled
<1>3. A.key = 0
  BY <1>2 DEF StartCycle
<1> HIDE DEF A
<1>4. B.key = 0
  BY <1>1, <1>3 DEF CaughtUp, Ledger
<1> HIDE DEF B
<1>5. C.key = 0
  BY <1>1, <1>4 DEF Calibrated, Ledger
<1>6. Advance(L, r) = [C EXCEPT !.percent = r.percent, !.hasLast = TRUE]
  BY DEF Advance, A, B
<1> HIDE DEF C
<1> QED
  BY <1>1, <1>5, <1>6 DEF Ledger

(* Without boundaries there is nothing to attribute a sample to. *)
LEMMA NamelessStep ==
    ASSUME NEW s, Slot = {s}, TypeOK, [Next]_vars, ~ReportsReset,
           ledger.key = 0, saved.key = 0, slot[s].reading.reset = 0
    PROVE  (ledger.key = 0 /\ saved.key = 0 /\ slot[s].reading.reset = 0)'
<1>1. slot \in [Slot -> Job] /\ slot[s].reading \in Reading /\ slot[s].cost \in Nat
      /\ ledger \in Ledger /\ saved \in Ledger
  BY DEF TypeOK, Job
<1>2. Free.reading.reset = 0
  BY DEF Free
<1>3. ASSUME NEW isStarted, NEW end PROVE Report(isStarted, end).reset = 0
  BY DEF Report
<1>4. CASE Respond(s)
  <2>1. slot'[s] = [Free EXCEPT !.pc = "answered", !.window = resets,
                                !.reading = Report(TRUE, reset')]
    BY <1>1, <1>4 DEF Respond
  <2>2. slot'[s].reading = Report(TRUE, reset')
    BY <2>1 DEF Free
  <2> QED
    BY <1>3, <1>4, <2>2 DEF Respond
<1>5. CASE Charge(s)
  <2>1. slot'[s].reading = slot[s].reading
    BY <1>1, <1>5 DEF Charge, Job
  <2> QED
    BY <1>5, <2>1 DEF Charge
<1>6. CASE HandleUsage(s)
  <2>1. Advance(ledger, slot[s].reading) \in Ledger /\ Advance(ledger, slot[s].reading).key = 0
    BY <1>1, AdvanceTyped, NamelessStays
  <2> DEFINE M == Advance(ledger, slot[s].reading)
  <2>2. ledger' \in Entered(M, slot[s].cost)
    BY <1>6, HandleUsageEnters
  <2> HIDE DEF M
  <2>3. ledger'.key = 0
    BY <1>1, <2>1, <2>2, EnteredEffect DEF M
  <2> QED
    BY <1>1, <1>2, <1>6, <2>3 DEF HandleUsage
<1>7. CASE Look(s)
  <2>1. slot'[s] = [Free EXCEPT !.pc = "looked", !.reading = Report(started, reset)]
    BY <1>1, <1>7 DEF Look
  <2>2. slot'[s].reading = Report(started, reset)
    BY <2>1 DEF Free
  <2> QED
    BY <1>3, <1>7, <2>2 DEF Look
<1>8. CASE ObserveReading(s)
  <2>1. ledger'.key = 0
    BY <1>1, <1>8, NamelessStays DEF ObserveReading
  <2> QED
    BY <1>1, <1>2, <1>8, <2>1 DEF ObserveReading
<1>9. CASE Tick \/ Grant \/ External \/ Flush \/ UNCHANGED vars
  BY <1>9 DEF Tick, Grant, External, Flush, vars
<1>10. CASE Crash
  <2>1. [saved EXCEPT !.resumed = TRUE].key = 0
    BY <1>1 DEF Ledger
  <2> QED
    BY <1>1, <1>2, <1>10, <2>1 DEF Crash
<1>11. CASE HandleUsageBlind(s)
  BY <1>1, <1>2, <1>11 DEF HandleUsageBlind
<1> QED
  BY <1>4, <1>5, <1>6, <1>7, <1>8, <1>9, <1>10, <1>11 DEF Next

LEMMA GrantsStay == TypeOK /\ [Next]_vars /\ grants' = 0 => grants = 0
<1> SUFFICES ASSUME TypeOK, [Next]_vars, grants' = 0 PROVE grants = 0
  OBVIOUS
<1>1. grants \in Nat
  BY MeterAssumption DEF TypeOK
<1>2. ASSUME Grant PROVE FALSE
  BY <1>1, <1>2 DEF Grant, Ends
<1>3. ASSUME Tick PROVE grants' = grants
  BY <1>1, <1>3 DEF Tick, Ends, upstream
<1>4. ASSUME NEW s \in Slot,
             \/ Respond(s) \/ Charge(s) \/ HandleUsage(s) \/ HandleUsageBlind(s)
             \/ Look(s) \/ ObserveReading(s)
      PROVE  grants' = grants
  BY <1>4 DEF Respond, Charge, HandleUsage, HandleUsageBlind, Look, ObserveReading, upstream
<1>5. ASSUME External \/ Flush \/ Crash \/ UNCHANGED vars PROVE grants' = grants
  BY <1>5 DEF External, Flush, Crash, upstream, vars
<1> QED
  BY <1>2, <1>3, <1>4, <1>5 DEF Next

(* With boundaries, a reading in flight follows the ledger, and a ledger   *)
(* that follows its readings in turn keeps its samples to itself.          *)
LEMMA NamedStep ==
    ASSUME NEW s, Slot = {s}, TypeOK, TypeOK', [Next]_vars, ReportsReset, grants' = 0,
           WindowRuns, InTurn(s),
           OwnSamples(ledger), TakenBy(ledger.key, ledger.percent),
           OwnSamples(saved), TakenBy(saved.key, saved.percent)
    PROVE  /\ WindowRuns'
           /\ OwnSamples(ledger') /\ TakenBy(ledger.key, ledger.percent)'
           /\ OwnSamples(saved') /\ TakenBy(saved.key, saved.percent)'
           /\ InTurn(s)'
<1>1. /\ slot \in [Slot -> Job] /\ slot[s].reading \in Reading /\ slot[s].cost \in Nat
      /\ ledger \in Ledger /\ saved \in Ledger /\ spent' \in Nat /\ resets \in Nat
      /\ started \in BOOLEAN
  BY DEF TypeOK, Job
<1>2. Forward
  BY UpstreamMovesForward
<1>3. /\ TakenBy(ledger.key, ledger.percent)' \/ ledger' # ledger
      /\ TakenBy(saved.key, saved.percent)' \/ saved' # saved
  <2>1. /\ ledger.key \in Nat /\ ledger.percent \in Nat
        /\ saved.key \in Nat /\ saved.percent \in Nat
    BY <1>1, LedgerTakes
  <2>2. ASSUME NEW k \in Nat, NEW p \in Nat, TakenBy(k, p) PROVE k <= Said' /\ (k = Said' => p <= spent' \div Step)
    BY <1>1, <1>2, <2>2, StaysTaken DEF TakenBy
  <2> QED
    BY <2>1, <2>2 DEF TakenBy
<1>4. WindowRuns'
  BY <1>2 DEF Forward
<1>5. ASSUME ledger' = ledger, saved' = saved, InTurn(s)' PROVE
         /\ OwnSamples(ledger') /\ TakenBy(ledger.key, ledger.percent)'
         /\ OwnSamples(saved') /\ TakenBy(saved.key, saved.percent)'
         /\ InTurn(s)'
  BY <1>3, <1>5
<1>6. ASSUME NEW r \in Reading, slot'[s].pc # "idle", slot'[s].reading = r,
             TakenBy(r.reset, r.percent), Follows(r, ledger), ledger' = ledger,
             slot'[s].window <= resets',
             slot'[s].pc # "looked" /\ slot'[s].window = resets' => started'
      PROVE  InTurn(s)'
  <2>1. PICK k \in Nat, p \in Nat : k = r.reset /\ p = r.percent
    BY <1>6, ReadingTakes, Zenon
  <2>2. TakenBy(k, p)'
    BY <1>1, <1>2, <1>6, <2>1, StaysTaken
  <2> QED
    BY <1>6, <2>1, <2>2 DEF InTurn, TakenBy, Follows
<1>7. ASSUME slot' = slot, ledger' = ledger, slot[s].pc # "idle" => slot[s].window <= resets',
             slot[s].pc \notin {"idle", "looked"} /\ slot[s].window = resets' => started'
      PROVE  InTurn(s)'
  <2>1. CASE slot[s].pc = "idle"
    BY <1>7, <2>1 DEF InTurn
  <2>2. CASE slot[s].pc # "idle"
    BY <1>1, <1>6, <1>7, <2>2 DEF InTurn
  <2> QED
    BY <2>1, <2>2
<1>8. CASE Respond(s)
  <2> DEFINE r == Report(TRUE, reset')
  <2>1. reset' = Said
    BY <1>8 DEF Respond, Said
  <2>2. Follows(r, ledger) /\ TakenBy(r.reset, r.percent)
    BY <1>1, <2>1, ReportFollows
  <2>3. reset' \in Time /\ now \in 0 .. MaxNow /\ spent \in Nat
    BY DEF TypeOK
  <2>4. r \in Reading
    BY <2>3, ReportTyped
  <2> HIDE DEF r
  <2>5. slot'[s] = [Free EXCEPT !.pc = "answered", !.window = resets, !.reading = r]
    BY <1>1, <1>8 DEF Respond, r
  <2>6. slot'[s].pc = "answered" /\ slot'[s].window = resets /\ slot'[s].reading = r
    BY <2>5 DEF Free
  <2>7. started' = TRUE /\ resets' = resets /\ ledger' = ledger /\ saved' = saved
    BY <1>8 DEF Respond
  <2>8. InTurn(s)'
    BY <1>1, <1>6, <2>2, <2>4, <2>6, <2>7
  <2> QED
    BY <1>4, <1>5, <2>7, <2>8
<1>9. CASE Charge(s)
  <2>1. PICK cost \in Cost : slot' = [slot EXCEPT ![s].pc = "charged", ![s].cost = cost]
    BY <1>9 DEF Charge
  <2>2. /\ slot'[s].pc = "charged" /\ slot'[s].reading = slot[s].reading
        /\ slot'[s].window = slot[s].window
    BY <1>1, <2>1 DEF Job
  <2>3. slot[s].pc = "answered" /\ UNCHANGED <<started, resets, ledger, saved>>
    BY <1>9 DEF Charge
  <2>4. InTurn(s)'
    BY <1>1, <1>6, <2>2, <2>3 DEF InTurn
  <2> QED
    BY <1>4, <1>5, <2>3, <2>4
<1>10. ASSUME HandleUsage(s) \/ ObserveReading(s), NEW L,
              L = Advance(ledger, slot[s].reading),
              ledger' = L \/ ledger' \in Entered(L, slot[s].cost)
       PROVE  OwnSamples(ledger') /\ TakenBy(ledger.key, ledger.percent)'
  <2> DEFINE r == slot[s].reading
  <2>1. Follows(r, ledger) /\ TakenBy(r.reset, r.percent)
    BY <1>10 DEF InTurn, HandleUsage, ObserveReading
  <2>2. L \in Ledger /\ L.key = r.reset /\ L.percent = r.percent /\ OwnSamples(L)
    BY <1>1, <1>10, <2>1, AdvanceTyped, AdvanceOwn
  <2>3. ledger'.key = r.reset /\ ledger'.percent = r.percent /\ OwnSamples(ledger')
    BY <1>1, <1>10, <2>2, EnteredOwn
  <2>4. PICK k \in Nat, p \in Nat : k = r.reset /\ p = r.percent
    BY <1>1, ReadingTakes, Zenon
  <2>5. TakenBy(k, p)'
    BY <1>1, <1>2, <2>1, <2>4, StaysTaken
  <2> QED
    BY <2>3, <2>4, <2>5 DEF TakenBy
<1>11. CASE HandleUsage(s)
  <2>1. slot'[s].pc = "idle" /\ saved' = saved
    BY <1>1, <1>11 DEF HandleUsage, Free
  <2>2. OwnSamples(ledger') /\ TakenBy(ledger.key, ledger.percent)'
    BY <1>10, <1>11, HandleUsageEnters
  <2> QED
    BY <1>3, <1>4, <2>1, <2>2 DEF InTurn
<1>12. CASE ObserveReading(s)
  <2>1. slot'[s].pc = "idle" /\ saved' = saved
    BY <1>1, <1>12 DEF ObserveReading, Free
  <2>2. OwnSamples(ledger') /\ TakenBy(ledger.key, ledger.percent)'
    BY <1>10, <1>12 DEF ObserveReading
  <2> QED
    BY <1>3, <1>4, <2>1, <2>2 DEF InTurn
<1>13. CASE Look(s)
  <2> DEFINE r == Report(started, reset)
  <2>1. started => reset = Said
    BY DEF Said
  <2>2. Follows(r, ledger) /\ TakenBy(r.reset, r.percent)
    BY <1>1, <2>1, ReportFollows
  <2>3. reset \in Time /\ now \in 0 .. MaxNow /\ spent \in Nat
    BY DEF TypeOK
  <2>4. r \in Reading
    BY <1>1, <2>3, ReportTyped
  <2> HIDE DEF r
  <2>5. slot'[s] = [Free EXCEPT !.pc = "looked", !.reading = r]
    BY <1>1, <1>13 DEF Look, r
  <2>6. slot'[s].pc = "looked" /\ slot'[s].window = 0 /\ slot'[s].reading = r
    BY <2>5 DEF Free
  <2>7. resets' = resets /\ ledger' = ledger /\ saved' = saved
    BY <1>13 DEF Look, upstream
  <2>8. InTurn(s)'
    BY <1>1, <1>6, <2>2, <2>4, <2>6, <2>7
  <2> QED
    BY <1>4, <1>5, <2>7, <2>8
<1>14. CASE Tick
  <2>1. ledger' = ledger /\ saved' = saved /\ slot' = slot
    BY <1>14 DEF Tick
  <2>2. \/ resets' = resets + 1
        \/ resets' = resets /\ started' = started
    BY <1>14 DEF Tick, Ends, upstream
  <2>3. slot[s].window \in Nat
    BY <1>1 DEF Job
  <2>4. /\ slot[s].pc # "idle" => slot[s].window <= resets'
        /\ slot[s].pc \notin {"idle", "looked"} /\ slot[s].window = resets' => started'
    BY <1>1, <2>2, <2>3 DEF InTurn
  <2> QED
    BY <1>4, <1>5, <1>7, <2>1, <2>4
<1>15. ASSUME Grant PROVE FALSE
  <2>1. grants \in Nat
    BY MeterAssumption DEF TypeOK
  <2> QED
    BY <1>15, <2>1 DEF Grant, Ends
<1>16. CASE External
  <2>1. ledger' = ledger /\ saved' = saved /\ slot' = slot /\ resets' = resets /\ started' = TRUE
    BY <1>16 DEF External
  <2>2. InTurn(s)'
    BY <1>7, <2>1 DEF InTurn
  <2> QED
    BY <1>4, <1>5, <2>1, <2>2
<1>17. ASSUME ledger' = ledger, slot' = slot, resets' = resets, started' = started
       PROVE  InTurn(s)'
  BY <1>7, <1>17 DEF InTurn
<1>18. CASE Flush
  <2>1. ledger' = ledger /\ saved' = ledger /\ slot' = slot /\ UNCHANGED <<resets, started>>
    BY <1>18 DEF Flush, upstream
  <2>2. TakenBy(ledger.key, ledger.percent)' /\ TakenBy(saved.key, saved.percent)'
    BY <1>3, <2>1 DEF TakenBy
  <2> QED
    BY <1>4, <1>17, <2>1, <2>2
<1>19. CASE Crash
  <2> DEFINE K == [saved EXCEPT !.resumed = TRUE]
  <2>1. /\ K.key = saved.key /\ K.percent = saved.percent /\ K.samples = saved.samples
        /\ K.pending = saved.pending /\ K.usd = saved.usd
    BY <1>1 DEF Ledger
  <2>2. ledger' = K /\ saved' = saved /\ slot'[s].pc = "idle"
    BY <1>1, <1>19 DEF Crash, Free
  <2> HIDE DEF K
  <2>3. OwnSamples(ledger')
    BY <2>1, <2>2 DEF OwnSamples
  <2>4. TakenBy(ledger.key, ledger.percent)' /\ TakenBy(saved.key, saved.percent)'
    BY <1>3, <2>1, <2>2 DEF TakenBy
  <2> QED
    BY <1>4, <2>2, <2>3, <2>4 DEF InTurn
<1>20. CASE UNCHANGED vars
  <2>1. UNCHANGED <<ledger, saved, slot, resets, started>>
    BY <1>20 DEF vars
  <2> QED
    BY <1>4, <1>5, <1>17, <2>1
<1>21. CASE HandleUsageBlind(s)
  <2>1. /\ slot'[s].pc = "idle" /\ ledger' = ledger /\ saved' = saved
    BY <1>1, <1>21 DEF HandleUsageBlind, Free
  <2> QED
    BY <1>4, <1>5, <2>1 DEF InTurn
<1> QED
  BY <1>8, <1>9, <1>11, <1>12, <1>13, <1>14, <1>15, <1>16, <1>18, <1>19, <1>20, <1>21 DEF Next

(* freshEvidence's samples of the current cycle price no dollar it has not *)
(* billed, and none twice: for one request or look at a time, while no     *)
(* reset is granted early.                                                 *)
THEOREM EvidenceIsAlwaysOwn ==
    ASSUME NEW s, Slot = {s}
    PROVE  Spec => []EvidenceIsOwn
<1>1. Init => OwnInv(s)
  <2> SUFFICES ASSUME Init PROVE OwnInv(s)
    OBVIOUS
  <2>1. /\ slot[s].pc = "idle" /\ slot[s].reading.reset = 0
        /\ ledger = Fresh /\ saved = Fresh
    BY DEF Init, Free
  <2>2. /\ Fresh.key = 0 /\ Fresh.percent = 0
        /\ \A k \in Time : Fresh.samples[k] = 0
    BY DEF Fresh
  <2>3. /\ spent \in Nat /\ now = 0 /\ Period \in Nat /\ Period > 0
        /\ reset = IF started THEN Period ELSE 0
        /\ ~started => spent = 0
    <3>1. spent \in 0 .. Step /\ started = (spent > 0) /\ reset = IF started THEN Period ELSE 0
      BY DEF Init
    <3>2. CASE started
      BY <3>1, <3>2, MeterAssumption DEF Init
    <3>3. CASE ~started
      <4>1. ~(spent > 0)
        BY <3>1, <3>3, Zenon
      <4> QED
        BY <3>1, <3>3, <4>1, MeterAssumption DEF Init
    <3> QED
      BY <3>2, <3>3
  <2>4. WindowRuns
    BY <2>3, MeterAssumption DEF WindowRuns
  <2>5. Said \in Nat /\ Said > 0
    BY <2>3, MeterAssumption DEF Said
  <2>6. TakenBy(0, 0)
    BY <2>5 DEF TakenBy
  <2>7. OwnSamples(Fresh)
    BY <2>2 DEF OwnSamples
  <2> QED
    BY <2>1, <2>2, <2>4, <2>6, <2>7 DEF OwnInv, InTurn
<1>2. TypeOK /\ TypeOK' /\ OwnInv(s) /\ [Next]_vars => OwnInv(s)'
  <2> SUFFICES ASSUME TypeOK, TypeOK', OwnInv(s), [Next]_vars PROVE OwnInv(s)'
    OBVIOUS
  <2>1. ASSUME ~ReportsReset
        PROVE  (ledger.key = 0 /\ saved.key = 0 /\ slot[s].reading.reset = 0)'
    BY <2>1, NamelessStep DEF OwnInv
  <2>2. ASSUME ReportsReset, grants' = 0
        PROVE  /\ WindowRuns'
               /\ OwnSamples(ledger') /\ TakenBy(ledger.key, ledger.percent)'
               /\ OwnSamples(saved') /\ TakenBy(saved.key, saved.percent)'
               /\ InTurn(s)'
    BY <2>2, GrantsStay, NamedStep DEF OwnInv
  <2> QED
    BY <2>1, <2>2 DEF OwnInv
<1>3. OwnInv(s) => EvidenceIsOwn
  BY MeterAssumption DEF OwnInv, OwnSamples, EvidenceIsOwn
<1> QED
  BY <1>1, <1>2, <1>3, TypeCorrect, PTL DEF Spec
-----------------------------------------------------------------------------
(* What advance does, in one step: it starts a cycle, slides the boundary  *)
(* of an untouched one, or leaves the cycle alone; and then prices a step  *)
(* of the percentage.                                                      *)
Starts(L, r) ==
    \/ L.key = 0
    \/ Moved(L, r) /\ ~Untouched(L, r)
    \/ ~Moved(L, r) /\ Fell(L, r)

Regranted(L, r) == L.key # 0 /\ ~Moved(L, r) /\ Fell(L, r)

LEMMA StartCycleEffect ==
    ASSUME NEW L \in Ledger, NEW r \in Reading, NEW granted \in BOOLEAN
    PROVE  LET A == StartCycle(L, r, granted)
           IN  /\ A.key = r.reset
               /\ A.usd = 0 /\ A.unbilled = 0 /\ A.touched = FALSE
               /\ A.percent = 0 /\ A.hasLast = FALSE
               /\ A.pending = 0 /\ A.cycles = L.cycles + 1 /\ A.resumed = L.resumed
               /\ A.covered <=> r.percent = 0
               /\ granted => A.granted = L.granted + 1
               /\ ~granted => A.granted = L.granted
<1>1. LET A == StartCycle(L, r, granted)
      IN  /\ A.key = r.reset
          /\ A.usd = 0 /\ A.unbilled = 0 /\ A.touched = FALSE
          /\ A.percent = 0 /\ A.hasLast = FALSE
          /\ A.pending = 0 /\ A.cycles = L.cycles + 1 /\ A.resumed = L.resumed
          /\ granted => A.granted = L.granted + 1
          /\ ~granted => A.granted = L.granted
  BY DEF StartCycle
<1>2. StartCycle(L, r, granted).covered <=> r.percent = 0
  BY Zenon DEF StartCycle
<1> QED
  BY <1>1, <1>2

LEMMA RolledEffect ==
    ASSUME NEW L \in Ledger, NEW r \in Reading
    PROVE  LET A == Rolled(L, r)
           IN  /\ Starts(L, r) =>
                      /\ A.key = r.reset
                      /\ A.usd = 0 /\ A.unbilled = 0 /\ A.touched = FALSE
                      /\ A.percent = 0 /\ A.hasLast = FALSE
                      /\ A.pending = 0 /\ A.cycles = L.cycles + 1 /\ A.resumed = L.resumed
                      /\ A.covered <=> r.percent = 0
               /\ ~Starts(L, r) =>
                      /\ r.reset > 0 => A.key = r.reset
                      /\ A.usd = L.usd /\ A.unbilled = L.unbilled /\ A.touched = L.touched
                      /\ A.percent = L.percent
                      /\ A.hasLast = L.hasLast /\ A.pending = L.pending
                      /\ A.cycles = L.cycles /\ A.resumed = L.resumed
                      /\ A.covered = L.covered
               /\ Regranted(L, r) => A.granted = L.granted + 1
               /\ ~Regranted(L, r) => A.granted = L.granted
<1> DEFINE A == Rolled(L, r)
<1>1. r.reset \in Nat /\ L.key \in Nat
  BY MeterAssumption DEF Reading, Ledger, Time
<1>2. CASE Regranted(L, r)
  <2>1. Starts(L, r) /\ A = StartCycle(L, r, TRUE)
    BY <1>2 DEF Regranted, Starts, Rolled
  <2> HIDE DEF A
  <2>2. LET B == StartCycle(L, r, TRUE)
        IN  /\ B.key = r.reset
            /\ B.usd = 0 /\ B.unbilled = 0 /\ B.touched = FALSE
            /\ B.percent = 0 /\ B.hasLast = FALSE
            /\ B.pending = 0 /\ B.cycles = L.cycles + 1 /\ B.resumed = L.resumed
            /\ B.covered <=> r.percent = 0
            /\ B.granted = L.granted + 1
    BY StartCycleEffect
  <2> QED
    BY <1>2, <2>1, <2>2 DEF A
<1>3. CASE Starts(L, r) /\ ~Regranted(L, r)
  <2>1. A = StartCycle(L, r, FALSE)
    BY <1>3 DEF Regranted, Starts, Rolled
  <2> HIDE DEF A
  <2>2. LET B == StartCycle(L, r, FALSE)
        IN  /\ B.key = r.reset
            /\ B.usd = 0 /\ B.unbilled = 0 /\ B.touched = FALSE
            /\ B.percent = 0 /\ B.hasLast = FALSE
            /\ B.pending = 0 /\ B.cycles = L.cycles + 1 /\ B.resumed = L.resumed
            /\ B.covered <=> r.percent = 0
            /\ B.granted = L.granted
    BY StartCycleEffect
  <2> QED
    BY <1>3, <2>1, <2>2 DEF A
<1>4. CASE ~Starts(L, r) /\ Moved(L, r)
  <2>1. A = [L EXCEPT !.key = r.reset] /\ ~Regranted(L, r)
    BY <1>4 DEF Starts, Regranted, Rolled
  <2> HIDE DEF A
  <2>2. /\ A.key = r.reset
        /\ A.usd = L.usd /\ A.unbilled = L.unbilled /\ A.touched = L.touched
        /\ A.percent = L.percent
        /\ A.hasLast = L.hasLast /\ A.pending = L.pending
        /\ A.cycles = L.cycles /\ A.resumed = L.resumed
        /\ A.covered = L.covered /\ A.granted = L.granted
    BY <2>1 DEF Ledger
  <2> QED
    BY <1>4, <2>1, <2>2 DEF A
<1>5. CASE ~Starts(L, r) /\ ~Moved(L, r)
  <2>1. A = L /\ ~Regranted(L, r)
    BY <1>5 DEF Starts, Regranted, Rolled
  <2>2. r.reset > 0 => L.key = r.reset
    BY <1>1, <1>5 DEF Moved
  <2> QED
    BY <1>5, <2>1, <2>2
<1> QED
  BY <1>2, <1>3, <1>4, <1>5

LEMMA AdvanceEffect ==
    ASSUME NEW L \in Ledger, NEW r \in Reading
    PROVE  LET A == Rolled(L, r)
               N == Advance(L, r)
               rose == A.hasLast /\ r.percent > A.percent
           IN  /\ N.percent = r.percent /\ N.hasLast = TRUE /\ N.resumed = FALSE
               /\ N.key = A.key /\ N.usd = A.usd /\ N.unbilled = A.unbilled
               /\ N.touched = A.touched
               /\ N.cycles = A.cycles /\ N.granted = A.granted
               /\ rose => N.pending = 0
               /\ ~rose => N.pending = A.pending
               /\ rose /\ A.resumed => N.covered = FALSE
               /\ ~(rose /\ A.resumed) => N.covered = A.covered
<1> DEFINE A == Rolled(L, r)
           C == CaughtUp(A, r)
           E == Calibrated(C, r)
           N == Advance(L, r)
           rose == A.hasLast /\ r.percent > A.percent
<1>1. A \in Ledger /\ C \in Ledger /\ E \in Ledger
  BY RolledTyped, CaughtUpTyped, CalibratedTyped
<1>2. N = [E EXCEPT !.percent = r.percent, !.hasLast = TRUE]
  BY DEF Advance
<1>3. /\ C.key = A.key /\ C.usd = A.usd /\ C.unbilled = A.unbilled
      /\ C.touched = A.touched
      /\ C.cycles = A.cycles /\ C.granted = A.granted /\ C.hasLast = A.hasLast
      /\ C.resumed = FALSE
      /\ rose /\ A.resumed => C.covered = FALSE /\ C.pending = 0 /\ C.percent = r.percent
      /\ ~(rose /\ A.resumed) =>
             C.covered = A.covered /\ C.pending = A.pending /\ C.percent = A.percent
  <2> HIDE DEF A
  <2>1. CASE rose /\ A.resumed
    <3>1. C = [A EXCEPT !.resumed = FALSE, !.covered = FALSE, !.pending = 0,
                        !.percent = r.percent]
      BY <2>1 DEF CaughtUp
    <3> QED
      BY <1>1, <2>1, <3>1 DEF Ledger
  <2>2. CASE ~(rose /\ A.resumed)
    <3>1. C = [A EXCEPT !.resumed = FALSE]
      BY <2>2 DEF CaughtUp
    <3> QED
      BY <1>1, <2>2, <3>1 DEF Ledger
  <2> QED
    BY <2>1, <2>2
<1>4. /\ E.key = C.key /\ E.usd = C.usd /\ E.unbilled = C.unbilled
      /\ E.touched = C.touched
      /\ E.cycles = C.cycles /\ E.granted = C.granted
      /\ E.resumed = C.resumed /\ E.covered = C.covered
      /\ C.hasLast /\ r.percent > C.percent => E.pending = 0
      /\ ~(C.hasLast /\ r.percent > C.percent) => E.pending = C.pending
  <2> HIDE DEF C
  <2>1. CASE C.hasLast /\ r.percent > C.percent
    <3> DEFINE S == [C.samples EXCEPT ![C.key] = @ + C.pending]
    <3>1. E = [C EXCEPT !.samples = S, !.pending = 0]
      BY <1>1, <2>1 DEF Calibrated, Ledger
    <3> HIDE DEF S, E
    <3> QED
      BY <1>1, <2>1, <3>1 DEF Ledger
  <2>2. CASE ~(C.hasLast /\ r.percent > C.percent)
    BY <2>2 DEF Calibrated
  <2> QED
    BY <2>1, <2>2
<1>5. /\ N.percent = r.percent /\ N.hasLast = TRUE /\ N.resumed = E.resumed
      /\ N.key = E.key /\ N.usd = E.usd /\ N.unbilled = E.unbilled
      /\ N.touched = E.touched
      /\ N.cycles = E.cycles /\ N.granted = E.granted
      /\ N.pending = E.pending /\ N.covered = E.covered
  <2> HIDE DEF E, N
  <2> QED
    BY <1>1, <1>2 DEF Ledger
<1>6. r.percent \in Nat /\ A.percent \in Nat
  BY <1>1 DEF Reading, Ledger
<1>7. rose => N.pending = 0
  <2> HIDE DEF A, C, E, N
  <2>1. CASE A.resumed
    BY <1>3, <1>4, <1>5, <1>6, <2>1
  <2>2. CASE ~A.resumed
    BY <1>3, <1>4, <1>5, <1>6, <2>2
  <2> QED
    BY <2>1, <2>2
<1>8. ~rose => N.pending = A.pending
  <2> HIDE DEF A, C, E, N
  <2> QED
    BY <1>3, <1>4, <1>5, <1>6
<1>9. /\ rose /\ A.resumed => N.covered = FALSE
      /\ ~(rose /\ A.resumed) => N.covered = A.covered
  <2> HIDE DEF A, C, E, N
  <2> QED
    BY <1>3, <1>4, <1>5
<1> HIDE DEF A, C, E, N
<1>10. /\ N.key = A.key /\ N.usd = A.usd /\ N.unbilled = A.unbilled
       /\ N.touched = A.touched
       /\ N.cycles = A.cycles /\ N.granted = A.granted /\ N.resumed = FALSE
  BY <1>3, <1>4, <1>5
<1> QED
  BY <1>5, <1>7, <1>8, <1>9, <1>10 DEF A, N

-----------------------------------------------------------------------------
(* Upstream, whatever it grants: a window runs until its boundary or ends  *)
(* early, and a request under way was made in it or in one before it.      *)
Underway(s) ==
    slot[s].pc \in {"answered", "charged"} =>
        slot[s].window <= resets /\ (slot[s].window = resets => started)

RunInv(s) == WindowRuns /\ Underway(s)

(* What a step does to upstream: its window is used, waits, ends on time,  *)
(* or ends early.                                                          *)
Used == /\ now' = now /\ Said' = Said /\ spent' \in Nat /\ spent <= spent'
        /\ resets' = resets /\ grants' = grants
        /\ started => started' /\ reset' = reset
Waited == /\ now' = now + 1 /\ spent' = spent /\ resets' = resets /\ grants' = grants
          /\ started' = started /\ reset' = reset
          /\ started => Said' = Said
EndedOnTime == /\ now' = now + 1 /\ started /\ reset = Said /\ Said <= now'
               /\ spent' = 0 /\ ~started'
               /\ resets' = resets + 1 /\ grants' = grants
EndedEarly == /\ now' = now /\ spent' = 0 /\ resets' = resets + 1 /\ grants' = grants + 1

LEMMA UpstreamSteps ==
    ASSUME NEW s, Slot = {s}, TypeOK, RunInv(s), [Next]_vars
    PROVE  /\ WindowRuns'
           /\ Used \/ Waited \/ EndedOnTime \/ EndedEarly
<1>1. /\ now \in Nat /\ reset \in Nat /\ started \in BOOLEAN /\ spent \in Nat
      /\ Period \in Nat /\ Period > 0 /\ grants \in Nat /\ resets \in Nat
  BY MeterAssumption DEF TypeOK, Time
<1> USE DEF RunInv
<1>2. CASE UNCHANGED <<now, upstream>>
  <2>1. Said' = Said /\ WindowRuns' /\ UNCHANGED <<spent, resets, grants, started, reset>>
    BY <1>2 DEF Said, WindowRuns, upstream
  <2> QED
    BY <1>1, <1>2, <2>1 DEF Used
<1>3. ASSUME started' = TRUE, reset' = Said, now' = now, spent' \in Nat, spent <= spent',
             resets' = resets, grants' = grants
      PROVE  Used /\ WindowRuns'
  <2>1. PICK said \in Nat : said = Said
    BY SaidTyped, Zenon
  <2>2. now < said /\ said <= now + Period /\ (started => reset = said)
    BY <1>1, <2>1 DEF Said, WindowRuns
  <2>3. reset' = said
    BY <1>3, <2>1
  <2>4. Said' = said
    BY <1>3, <2>3 DEF Said
  <2>5. WindowRuns'
    BY <1>3, <2>2, <2>3 DEF WindowRuns
  <2> QED
    BY <1>3, <2>1, <2>2, <2>3, <2>4, <2>5 DEF Used
<1>4. CASE Respond(s)
  <2>1. reset' = Said
    BY <1>4 DEF Respond, Said
  <2> QED
    BY <1>1, <1>3, <1>4, <2>1 DEF Respond
<1>5. CASE Charge(s)
  <2>1. PICK cost \in Cost :
           spent' = IF slot[s].window = resets THEN spent + cost ELSE spent
    BY <1>5 DEF Charge
  <2>2. cost \in Nat
    BY MeterAssumption DEF Cost
  <2>3. UNCHANGED <<now, started, reset, resets, grants>>
    BY <1>5 DEF Charge
  <2>4. CASE slot[s].window = resets
    <3>1. started
      BY <1>5, <2>4 DEF Charge, Underway
    <3>2. spent' \in Nat /\ spent <= spent'
      BY <1>1, <2>1, <2>2, <2>4
    <3>3. started' = TRUE /\ reset' = Said
      BY <1>1, <2>3, <3>1 DEF Said
    <3> QED
      BY <1>3, <2>3, <3>2, <3>3
  <2>5. CASE slot[s].window # resets
    <3>1. spent' = spent
      BY <2>1, <2>5
    <3>2. Said' = Said /\ WindowRuns'
      BY <2>3, <3>1 DEF Said, WindowRuns
    <3> QED
      BY <1>1, <2>3, <3>1, <3>2 DEF Used
  <2> QED
    BY <2>4, <2>5
<1>6. CASE Tick
  <2>1. now' = now + 1
    BY <1>6 DEF Tick
  <2>2. CASE started /\ reset <= now + 1
    <3>1. started' = FALSE /\ spent' = 0 /\ grants' = grants /\ resets' = resets + 1
      BY <1>1, <1>6, <2>1, <2>2 DEF Tick, Ends
    <3>2. WindowRuns' /\ reset = Said
      BY <2>2, <3>1 DEF WindowRuns, Said
    <3> QED
      BY <2>1, <2>2, <3>1, <3>2 DEF EndedOnTime
  <2>3. CASE ~(started /\ reset <= now + 1)
    <3>1. UNCHANGED upstream
      BY <1>6, <2>1, <2>3 DEF Tick
    <3>2. UNCHANGED <<started, reset, spent, grants, resets>>
      BY <3>1 DEF upstream
    <3>3. started => Said' = Said
      BY <3>2 DEF Said
    <3>4. CASE started
      <4>1. now + 1 < reset /\ reset <= now + 1 + Period
        BY <1>1, <2>3, <3>4 DEF WindowRuns
      <4>2. WindowRuns'
        BY <2>1, <3>2, <3>4, <4>1 DEF WindowRuns
      <4> QED
        BY <2>1, <3>2, <3>3, <4>2 DEF Waited
    <3>5. CASE ~started
      <4>1. WindowRuns'
        BY <3>2, <3>5 DEF WindowRuns
      <4> QED
        BY <2>1, <3>2, <3>3, <4>1 DEF Waited
    <3> QED
      BY <3>4, <3>5
  <2> QED
    BY <2>2, <2>3
<1>7. CASE Grant
  <2>1. now' = now /\ spent' = 0 /\ resets' = resets + 1 /\ grants' = grants + 1 /\ started
    BY <1>7 DEF Grant, Ends
  <2>2. PICK how \in Grants : /\ started' = (how = "inPlace")
                              /\ reset' = IF how = "inPlace" THEN reset ELSE 0
    BY <1>7 DEF Grant
  <2>3. WindowRuns'
    <3>1. CASE how = "inPlace"
      <4>1. reset' = reset
        BY <2>2, <3>1
      <4> QED
        BY <2>1, <4>1 DEF WindowRuns
    <3>2. CASE how # "inPlace"
      <4>1. ~started'
        BY <2>2, <3>2, Zenon
      <4> QED
        BY <2>1, <4>1 DEF WindowRuns
    <3> QED
      BY <3>1, <3>2
  <2> QED
    BY <2>1, <2>3 DEF EndedEarly
<1>8. CASE External
  <2>1. PICK cost \in Cost : spent' = spent + cost
    BY <1>8 DEF External
  <2>2. cost \in Nat
    BY MeterAssumption DEF Cost
  <2>3. reset' = Said
    BY <1>8 DEF External, Said
  <2> QED
    BY <1>1, <1>3, <1>8, <2>1, <2>2, <2>3 DEF External
<1>9. ASSUME \/ HandleUsage(s) \/ HandleUsageBlind(s) \/ Look(s) \/ ObserveReading(s)
             \/ Flush \/ Crash \/ UNCHANGED vars
      PROVE  UNCHANGED <<now, upstream>>
  BY <1>9 DEF HandleUsage, HandleUsageBlind, Look, ObserveReading, Flush, Crash, vars, upstream
<1> QED
  BY <1>2, <1>4, <1>5, <1>6, <1>7, <1>8, <1>9 DEF Next

(* What each step of a request or look does to its slot. *)
LEMMA RespondEffect ==
    ASSUME NEW s \in Slot, TypeOK, Respond(s)
    PROVE  /\ slot[s].pc = "idle" /\ slot'[s].pc = "answered"
           /\ slot'[s].window = resets /\ slot'[s].cost = 0
           /\ slot'[s].reading \in Reading
           /\ slot'[s].reading.percent = spent \div Step
           /\ slot'[s].reading.reset = (IF ReportsReset THEN Said ELSE 0)
           /\ started' = TRUE /\ reset' = Said
           /\ UNCHANGED <<now, spent, resets, grants, ledger, saved, alarms, externals, crashes>>
<1> DEFINE r == Report(TRUE, reset')
<1>1. reset' = Said /\ started' = TRUE /\ slot[s].pc = "idle"
  BY DEF Respond, Said
<1>2. reset' \in Time
  BY MeterAssumption DEF Respond, TypeOK, Time
<1>3. r \in Reading
  BY <1>2, ReportTyped DEF TypeOK
<1>4. r.percent = spent \div Step /\ r.reset = (IF ReportsReset THEN Said ELSE 0)
  BY <1>1 DEF Report
<1>5. slot' = [slot EXCEPT ![s] = [Free EXCEPT !.pc = "answered", !.window = resets,
                                              !.reading = r]]
  BY DEF Respond
<1> HIDE DEF r
<1>6. slot'[s] = [Free EXCEPT !.pc = "answered", !.window = resets, !.reading = r]
  BY <1>5 DEF TypeOK
<1>7. /\ slot'[s].pc = "answered" /\ slot'[s].window = resets /\ slot'[s].cost = 0
      /\ slot'[s].reading = r
  BY <1>6 DEF Free
<1> QED
  BY <1>1, <1>3, <1>4, <1>7 DEF Respond

LEMMA LookEffect ==
    ASSUME NEW s \in Slot, TypeOK, Look(s)
    PROVE  /\ slot[s].pc = "idle" /\ slot'[s].pc = "looked" /\ slot'[s].cost = 0
           /\ slot'[s].reading \in Reading
           /\ slot'[s].reading.percent = spent \div Step
           /\ slot'[s].reading.reset = (IF ReportsReset THEN Said ELSE 0)
           /\ UNCHANGED <<now, upstream, ledger, saved, alarms, externals, crashes>>
<1> DEFINE r == Report(started, reset)
<1>1. r \in Reading
  BY ReportTyped DEF TypeOK
<1>2. r.percent = spent \div Step /\ r.reset = (IF ReportsReset THEN Said ELSE 0)
  BY DEF Report, Said, TypeOK
<1>3. slot' = [slot EXCEPT ![s] = [Free EXCEPT !.pc = "looked", !.reading = r]]
  BY DEF Look
<1> HIDE DEF r
<1>4. slot'[s] = [Free EXCEPT !.pc = "looked", !.reading = r]
  BY <1>3 DEF TypeOK
<1>5. slot'[s].pc = "looked" /\ slot'[s].cost = 0 /\ slot'[s].reading = r
  BY <1>4 DEF Free
<1> QED
  BY <1>1, <1>2, <1>5 DEF Look

LEMMA ChargeEffect ==
    ASSUME NEW s \in Slot, TypeOK, Charge(s)
    PROVE  /\ slot[s].pc = "answered" /\ slot'[s].pc = "charged"
           /\ slot'[s].window = slot[s].window /\ slot'[s].reading = slot[s].reading
           /\ slot'[s].cost \in Nat
           /\ slot[s].window = resets => spent' = spent + slot'[s].cost
           /\ slot[s].window # resets => spent' = spent
           /\ UNCHANGED <<now, started, reset, resets, grants, ledger, saved, alarms,
                          externals, crashes>>
<1>1. PICK cost \in Cost :
         /\ slot' = [slot EXCEPT ![s].pc = "charged", ![s].cost = cost]
         /\ spent' = IF slot[s].window = resets THEN spent + cost ELSE spent
  BY DEF Charge
<1>2. cost \in Nat
  BY MeterAssumption DEF Cost
<1>3. /\ slot'[s].pc = "charged" /\ slot'[s].reading = slot[s].reading
      /\ slot'[s].window = slot[s].window /\ slot'[s].cost = cost
  BY <1>1 DEF TypeOK, Job
<1> QED
  BY <1>1, <1>2, <1>3 DEF Charge

LEMMA HandleUsageEffect ==
    ASSUME NEW s \in Slot, TypeOK, HandleUsage(s)
    PROVE  LET L == Advance(ledger, slot[s].reading)
           IN  /\ slot[s].pc = "charged" /\ slot'[s].pc = "idle"
               /\ slot'[s].reading.reset = 0 /\ L \in Ledger
               /\ \/ /\ ledger'.usd = L.usd + slot[s].cost
                     /\ ledger'.pending = L.pending + slot[s].cost
                     /\ ledger'.unbilled = L.unbilled
                  \/ /\ ledger'.usd = L.usd /\ ledger'.pending = L.pending
                     /\ ledger'.unbilled = L.unbilled + slot[s].cost
               /\ ledger'.touched = TRUE
               /\ ledger'.key = L.key /\ ledger'.percent = L.percent
               /\ ledger'.covered = L.covered /\ ledger'.hasLast = L.hasLast
               /\ ledger'.cycles = L.cycles /\ ledger'.granted = L.granted
               /\ ledger'.resumed = L.resumed
               /\ Early(ledger, slot[s].reading) => alarms' = alarms + 1
               /\ ~Early(ledger, slot[s].reading) => alarms' = alarms
               /\ UNCHANGED <<now, upstream, saved, externals, crashes>>
<1> DEFINE L == Advance(ledger, slot[s].reading)
<1>1. slot[s].reading \in Reading /\ slot[s].cost \in Nat /\ slot \in [Slot -> Job]
  BY DEF TypeOK, Job
<1>2. L \in Ledger
  BY <1>1, AdvanceTyped DEF TypeOK
<1>3. ledger' \in Entered(L, slot[s].cost)
  BY HandleUsageEnters
<1>4. slot'[s].pc = "idle" /\ slot'[s].reading.reset = 0
  BY <1>1 DEF HandleUsage, Free
<1> HIDE DEF L
<1>5. /\ \/ /\ ledger'.usd = L.usd + slot[s].cost
            /\ ledger'.pending = L.pending + slot[s].cost
            /\ ledger'.unbilled = L.unbilled
         \/ /\ ledger'.usd = L.usd /\ ledger'.pending = L.pending
            /\ ledger'.unbilled = L.unbilled + slot[s].cost
      /\ ledger'.touched = TRUE
      /\ ledger'.key = L.key /\ ledger'.percent = L.percent
      /\ ledger'.covered = L.covered /\ ledger'.hasLast = L.hasLast
      /\ ledger'.cycles = L.cycles /\ ledger'.granted = L.granted
      /\ ledger'.resumed = L.resumed
  BY <1>1, <1>2, <1>3, EnteredEffect
<1> QED
  BY <1>2, <1>4, <1>5 DEF L, HandleUsage

LEMMA HandleUsageBlindEffect ==
    ASSUME NEW s \in Slot, TypeOK, HandleUsageBlind(s)
    PROVE  /\ slot[s].pc = "charged" /\ slot'[s].pc = "idle"
           /\ slot'[s].reading.reset = 0 /\ externals' = externals + 1
           /\ UNCHANGED <<now, upstream, ledger, alarms, saved, crashes>>
BY DEF HandleUsageBlind, Free, TypeOK

LEMMA ObserveReadingEffect ==
    ASSUME NEW s \in Slot, TypeOK, ObserveReading(s)
    PROVE  /\ slot[s].pc = "looked" /\ slot'[s].pc = "idle"
           /\ slot'[s].reading.reset = 0
           /\ ledger' = Advance(ledger, slot[s].reading) /\ ledger' \in Ledger
           /\ UNCHANGED <<now, upstream, saved, alarms, externals, crashes>>
<1>1. slot[s].reading \in Reading /\ slot \in [Slot -> Job]
  BY DEF TypeOK, Job
<1> QED
  BY <1>1, AdvanceTyped DEF ObserveReading, Free, TypeOK

LEMMA CrashEffect ==
    ASSUME NEW s \in Slot, TypeOK, Crash
    PROVE  /\ slot'[s].pc = "idle" /\ slot'[s].reading.reset = 0
           /\ crashes' = crashes + 1 /\ alarms' = 0
           /\ ledger'.resumed = TRUE
           /\ ledger'.pending = saved.pending /\ ledger'.usd = saved.usd
           /\ ledger'.unbilled = saved.unbilled
           /\ ledger'.touched = saved.touched /\ ledger'.hasLast = saved.hasLast
           /\ ledger'.key = saved.key /\ ledger'.percent = saved.percent
           /\ ledger'.covered = saved.covered
           /\ ledger'.cycles = saved.cycles /\ ledger'.granted = saved.granted
           /\ UNCHANGED <<now, upstream, saved, externals>>
<1>1. saved \in Ledger
  BY DEF TypeOK
<1> QED
  BY <1>1 DEF Crash, Free, Ledger

(* Steps of upstream, other clients and the disk leave the slot alone. *)
Aside == Tick \/ Grant \/ External \/ UNCHANGED vars

LEMMA AsideEffect ==
    ASSUME Aside
    PROVE  UNCHANGED <<ledger, saved, alarms, slot, crashes>>
BY DEF Aside, Tick, Grant, External, vars

LEMMA RunStep ==
    ASSUME NEW s, Slot = {s}, TypeOK, RunInv(s), [Next]_vars
    PROVE  RunInv(s)'
<1>1. WindowRuns' /\ (Used \/ Waited \/ EndedOnTime \/ EndedEarly)
  BY UpstreamSteps
<1>2. /\ resets \in Nat /\ started \in BOOLEAN /\ slot \in [Slot -> Job]
      /\ slot[s].window \in Nat
  BY DEF TypeOK, Job
<1>3. \/ resets' = resets /\ (started => started')
      \/ resets' = resets + 1
  BY <1>1 DEF Used, Waited, EndedOnTime, EndedEarly
<1>4. ASSUME UNCHANGED slot PROVE Underway(s)'
  BY <1>2, <1>3, <1>4 DEF RunInv, Underway
<1>5. CASE Respond(s)
  BY <1>1, <1>2, <1>5, RespondEffect DEF RunInv, Underway
<1>6. CASE Charge(s)
  BY <1>1, <1>2, <1>6, ChargeEffect DEF RunInv, Underway
<1>7. CASE HandleUsage(s)
  BY <1>1, <1>7, HandleUsageEffect DEF RunInv, Underway
<1>8. CASE Look(s)
  BY <1>1, <1>8, LookEffect DEF RunInv, Underway
<1>9. CASE ObserveReading(s)
  BY <1>1, <1>9, ObserveReadingEffect DEF RunInv, Underway
<1>10. CASE Crash
  BY <1>1, <1>10, CrashEffect DEF RunInv, Underway
<1>11. CASE Aside \/ Flush
  <2>1. UNCHANGED slot
    BY <1>11, AsideEffect DEF Flush
  <2> QED
    BY <1>1, <1>4, <2>1 DEF RunInv
<1>12. CASE HandleUsageBlind(s)
  BY <1>1, <1>12, HandleUsageBlindEffect DEF RunInv, Underway
<1> QED
  BY <1>5, <1>6, <1>7, <1>8, <1>9, <1>10, <1>11, <1>12 DEF Next, Aside

LEMMA RunInit ==
    ASSUME NEW s \in Slot, Init
    PROVE  RunInv(s)
<1>1. spent \in 0 .. Step /\ started = (spent > 0) /\ reset = (IF started THEN Period ELSE 0)
  BY DEF Init
<1>2. WindowRuns
  <2>1. CASE spent > 0
    <3>1. started
      BY <1>1, <2>1, Zenon
    <3>2. reset = Period /\ now = 0
      BY <1>1, <3>1 DEF Init
    <3> QED
      BY <3>1, <3>2, MeterAssumption DEF WindowRuns
  <2>2. CASE ~(spent > 0)
    <3>1. ~started
      BY <1>1, <2>2, Zenon
    <3> QED
      BY <1>1, <2>2, <3>1, MeterAssumption DEF WindowRuns
  <2> QED
    BY <2>1, <2>2
<1>3. slot[s].pc = "idle"
  BY DEF Init, Free
<1> QED
  BY <1>2, <1>3 DEF RunInv, Underway

-----------------------------------------------------------------------------
(* At time t, a reading of boundary k and percentage p and a later one of  *)
(* k2 and p2 with a grant between them: the percentage fell within the     *)
(* boundary, or a running window lost its boundary before its time.        *)
Gap(k, p, k2, p2, t) == p > 0 /\ IF k2 = k THEN p2 < p ELSE k > t

(* A grant since the reading of k and p, were upstream read now. *)
Lost(k, p) == Gap(k, p, Said, spent \div Step, now)

Count(b) == IF b THEN 1 ELSE 0

LEMMA CountTyped == ASSUME NEW b PROVE Count(b) \in {0, 1}
BY DEF Count

(* Gaps add up: what lies between the first and the last of three readings *)
(* lies on one side of the middle one.                                     *)
LEMMA LostThrough ==
    ASSUME NEW k \in Nat, NEW p \in Nat, NEW k2 \in Nat, NEW p2 \in Nat,
           TypeOK, WindowRuns
    PROVE  Count(Lost(k, p)) <= Count(Gap(k, p, k2, p2, now)) + Count(Lost(k2, p2))
<1>1. PICK said \in Nat, points \in Nat : said = Said /\ points = spent \div Step
  BY SaidTyped, PointsAreNat, Zenon DEF TypeOK
<1>2. now \in Nat /\ said > now
  BY <1>1, MeterAssumption DEF Said, WindowRuns, TypeOK
<1>3. Lost(k, p) => Gap(k, p, k2, p2, now) \/ Lost(k2, p2)
  BY <1>1, <1>2 DEF Gap, Lost
<1> QED
  BY <1>3 DEF Count

LEMMA SaidAhead == TypeOK /\ WindowRuns => Said \in Nat /\ now < Said
BY SaidTyped, MeterAssumption DEF TypeOK, Said, WindowRuns

(* Only a grant opens a gap. *)
LEMMA LostStays ==
    ASSUME NEW s, Slot = {s}, TypeOK, TypeOK', RunInv(s), [Next]_vars,
           NEW k \in Nat, NEW p \in Nat
    PROVE  grants' = grants + 1 \/ (grants' = grants /\ (Lost(k, p)' => Lost(k, p)))
<1>1. PICK said \in Nat, points \in Nat : said = Said /\ points = spent \div Step
  BY SaidTyped, PointsAreNat, Zenon DEF TypeOK
<1>2. WindowRuns' /\ (Used \/ Waited \/ EndedOnTime \/ EndedEarly)
  BY UpstreamSteps
<1>3. PICK said2 \in Nat, points2 \in Nat :
         said2 = Said' /\ points2 = spent' \div Step /\ now' < said2
  <2>1. (TypeOK /\ WindowRuns => Said \in Nat /\ now < Said)'
    BY SaidAhead, PTL
  <2>2. spent' \div Step \in Nat
    BY PointsAreNat DEF TypeOK
  <2> QED
    BY <1>2, <2>1, <2>2, Zenon
<1>4. now \in Nat /\ now' \in Nat /\ spent \in Nat /\ spent' \in Nat /\ started \in BOOLEAN
  BY MeterAssumption DEF TypeOK
<1>5. said2 > now'
  BY <1>3, <1>4
<1>6. /\ Lost(k, p) <=> p > 0 /\ IF said = k THEN points < p ELSE k > now
      /\ Lost(k, p)' <=> p > 0 /\ IF said2 = k THEN points2 < p ELSE k > now'
  BY <1>1, <1>3 DEF Lost, Gap
<1>7. CASE Used
  <2>1. spent \div Step <= spent' \div Step
    BY <1>4, <1>7, PointsGrow DEF Used
  <2>2. now' = now /\ said2 = said /\ points <= points2 /\ grants' = grants
    BY <1>1, <1>3, <1>7, <2>1 DEF Used
  <2> QED
    BY <1>6, <2>2
<1>8. CASE Waited
  <2>1. now' = now + 1 /\ points2 = points /\ grants' = grants
    BY <1>1, <1>3, <1>8 DEF Waited
  <2>2. CASE started
    <3>1. said2 = said
      BY <1>1, <1>3, <1>8, <2>2 DEF Waited
    <3> QED
      BY <1>4, <1>6, <2>1, <3>1
  <2>3. CASE ~started
    <3>1. spent = 0
      BY <2>3 DEF RunInv, WindowRuns
    <3>2. points = 0
      BY <1>1, <3>1, MeterAssumption
    <3> QED
      BY <1>4, <1>5, <1>6, <2>1, <3>2
  <2> QED
    BY <2>2, <2>3
<1>9. CASE EndedOnTime
  <2>1. now' = now + 1 /\ said <= now' /\ grants' = grants
    BY <1>1, <1>9 DEF EndedOnTime
  <2> QED
    BY <1>4, <1>5, <1>6, <2>1
<1>10. CASE EndedEarly
  BY <1>10 DEF EndedEarly
<1> QED
  BY <1>2, <1>7, <1>8, <1>9, <1>10

(* The grants between the ledger and upstream that no reading has shown.   *)
Unnoticed(s) ==
    IF slot[s].pc = "idle"
    THEN Count(Lost(ledger.key, ledger.percent))
    ELSE Count(Gap(ledger.key, ledger.percent,
                   slot[s].reading.reset, slot[s].reading.percent, now))
         + Count(Lost(slot[s].reading.reset, slot[s].reading.percent))

(* What has been concluded and what has yet to be seen are at most what    *)
(* upstream has granted; so is what a restart would go back to.  Where     *)
(* upstream names no boundary no cycle is named and nothing is concluded.  *)
Concluded(s) ==
    /\ slot[s].pc # "idle" => slot[s].reading.reset > 0
    /\ ledger.granted + Unnoticed(s) <= grants
    /\ alarms + Unnoticed(s) <= grants
    /\ saved.granted + Count(Lost(saved.key, saved.percent)) <= grants

Nameless(s) == ledger.key = 0 /\ saved.key = 0 /\ slot[s].reading.reset = 0

GrantInv(s) ==
    /\ RunInv(s)
    /\ ~ReportsReset =>
           Nameless(s) /\ ledger.granted = 0 /\ saved.granted = 0 /\ alarms = 0
    /\ ReportsReset => Concluded(s)

(* A reset concluded from a reading is a gap between it and the ledger. *)
LEMMA EarlyIsGap ==
    ASSUME NEW L \in Ledger, NEW r \in Reading, L.key = 0 \/ r.reset > 0
    PROVE  /\ Regranted(L, r) => Early(L, r)
           /\ Early(L, r) => Gap(L.key, L.percent, r.reset, r.percent, now)
<1>1. L.percent \in Nat /\ r.percent \in Nat /\ L.key \in Nat /\ r.reset \in Nat
  BY MeterAssumption DEF Ledger, Reading, Time
<1>2. Regranted(L, r) => Early(L, r)
  BY DEF Regranted, Early
<1>3. ASSUME Early(L, r) PROVE Gap(L.key, L.percent, r.reset, r.percent, now)
  BY <1>1, <1>3 DEF Early, Fell, Moved, Gap
<1> QED
  BY <1>2, <1>3

LEMMA NamelessGrants ==
    ASSUME NEW s, Slot = {s}, TypeOK, [Next]_vars, ~ReportsReset, Nameless(s),
           ledger.granted = 0, saved.granted = 0, alarms = 0
    PROVE  (Nameless(s) /\ ledger.granted = 0 /\ saved.granted = 0 /\ alarms = 0)'
<1>1. Nameless(s)'
  BY NamelessStep DEF Nameless
<1> DEFINE r == slot[s].reading
<1>2. r \in Reading /\ ledger \in Ledger
  BY DEF TypeOK, Job
<1>3. /\ ~Early(ledger, r)
      /\ Advance(ledger, r).granted = 0
  <2>1. ~Early(ledger, r) /\ ~Regranted(ledger, r)
    BY DEF Nameless, Early, Regranted
  <2> HIDE DEF r
  <2>2. Rolled(ledger, r).granted = ledger.granted
    BY <1>2, <2>1, RolledEffect
  <2>3. Advance(ledger, r).granted = Rolled(ledger, r).granted
    BY <1>2, AdvanceEffect
  <2> QED
    BY <2>1, <2>2, <2>3
<1>4. CASE Respond(s) \/ Charge(s) \/ Look(s)
  BY <1>1, <1>4 DEF Respond, Charge, Look
<1>5. CASE HandleUsage(s)
  BY <1>1, <1>3, <1>5, HandleUsageEffect
<1>6. CASE ObserveReading(s)
  BY <1>1, <1>3, <1>6, ObserveReadingEffect
<1>7. CASE Crash
  BY <1>1, <1>7, CrashEffect
<1>8. CASE Flush
  BY <1>1, <1>8 DEF Flush
<1>9. CASE Aside
  BY <1>1, <1>9, AsideEffect
<1>10. CASE HandleUsageBlind(s)
  BY <1>1, <1>10, HandleUsageBlindEffect
<1> QED
  BY <1>4, <1>5, <1>6, <1>7, <1>8, <1>9, <1>10 DEF Next, Aside

LEMMA ReadingOfLedger ==
    ASSUME NEW L \in Ledger, NEW r \in Reading, r.reset > 0
    PROVE  LET N == Advance(L, r)
           IN  /\ N.key = r.reset /\ N.percent = r.percent
               /\ N.granted \in Nat
               /\ N.granted <= L.granted + Count(Gap(L.key, L.percent, r.reset, r.percent, now))
<1> DEFINE N == Advance(L, r)
           A == Rolled(L, r)
           g == Gap(L.key, L.percent, r.reset, r.percent, now)
<1>1. /\ Starts(L, r) => A.key = r.reset
      /\ ~Starts(L, r) => A.key = r.reset
      /\ Regranted(L, r) => A.granted = L.granted + 1
      /\ ~Regranted(L, r) => A.granted = L.granted
  BY RolledEffect
<1>2. N.key = A.key /\ N.percent = r.percent /\ N.granted = A.granted
  BY AdvanceEffect
<1>3. Regranted(L, r) => g
  BY EarlyIsGap
<1>4. L.granted \in Nat
  BY DEF Ledger
<1> HIDE DEF N, A, g
<1>5. N.granted \in Nat /\ N.granted <= L.granted + Count(g)
  <2>1. CASE Regranted(L, r)
    BY <1>1, <1>2, <1>3, <1>4, <2>1 DEF Count
  <2>2. CASE ~Regranted(L, r)
    BY <1>1, <1>2, <1>4, <2>2 DEF Count
  <2> QED
    BY <2>1, <2>2
<1> QED
  BY <1>1, <1>2, <1>5 DEF N, g

LEMMA ConcludedStep ==
    ASSUME NEW s, Slot = {s}, TypeOK, TypeOK', [Next]_vars, ReportsReset,
           RunInv(s), Concluded(s)
    PROVE  Concluded(s)'
<1> DEFINE L == ledger
           r == slot[s].reading
<1>1. /\ r \in Reading /\ L \in Ledger /\ saved \in Ledger
      /\ L.key \in Nat /\ L.percent \in Nat /\ L.granted \in Nat
      /\ saved.key \in Nat /\ saved.percent \in Nat /\ saved.granted \in Nat
      /\ r.reset \in Nat /\ r.percent \in Nat
      /\ alarms \in Nat
  <2>1. r \in Reading /\ L \in Ledger /\ saved \in Ledger /\ alarms \in Nat
    BY DEF TypeOK, Job
  <2>2. L.granted \in Nat /\ saved.granted \in Nat
    BY <2>1 DEF Ledger
  <2> HIDE DEF L, r
  <2> QED
    BY <2>1, <2>2, LedgerTakes, ReadingTakes
<1>2. PICK said, points, t, g, said2, points2, t2, g2 :
         /\ said = Said /\ points = spent \div Step /\ t = now /\ g = grants
         /\ said2 = Said' /\ points2 = spent' \div Step /\ t2 = now' /\ g2 = grants'
  OBVIOUS
<1> DEFINE D(k, p) == Count(Gap(k, p, said, points, t))
           D2(k, p) == Count(Gap(k, p, said2, points2, t2))
           G == Count(Gap(L.key, L.percent, r.reset, r.percent, t))
<1>3. t \in Nat /\ t2 \in Nat /\ t <= t2 /\ g \in Nat /\ g2 \in Nat /\ g <= g2
  <2>1. Used \/ Waited \/ EndedOnTime \/ EndedEarly
    BY UpstreamSteps
  <2>2. grants \in Nat /\ now \in Nat
    BY MeterAssumption DEF TypeOK
  <2>3. /\ t2 = t \/ t2 = t + 1
        /\ g2 = g \/ g2 = g + 1
    BY <1>2, <2>1 DEF Used, Waited, EndedOnTime, EndedEarly
  <2> QED
    BY <1>2, <2>2, <2>3
<1>4. \A k, p \in Nat : D(k, p) \in {0, 1} /\ D2(k, p) \in {0, 1}
  BY CountTyped
<1>5. ASSUME NEW k \in Nat, NEW p \in Nat
      PROVE  D2(k, p) + g <= D(k, p) + g2
  <2>1. \/ g2 = g + 1
        \/ g2 = g /\ (Gap(k, p, said2, points2, t2) => Gap(k, p, said, points, t))
    BY <1>2, LostStays DEF Lost
  <2>2. D2(k, p) <= D(k, p) \/ g2 = g + 1
    BY <2>1 DEF Count
  <2>3. D(k, p) \in {0, 1} /\ D2(k, p) \in {0, 1}
    BY <1>4
  <2> HIDE DEF D, D2
  <2> QED
    BY <1>3, <2>1, <2>2, <2>3
<1>6. G \in {0, 1}
  BY CountTyped
<1>7. /\ saved.granted + D(saved.key, saved.percent) <= g
      /\ slot[s].pc = "idle" => /\ L.granted + D(L.key, L.percent) <= g
                                /\ alarms + D(L.key, L.percent) <= g
      /\ slot[s].pc # "idle" => /\ r.reset > 0
                                /\ L.granted + (G + D(r.reset, r.percent)) <= g
                                /\ alarms + (G + D(r.reset, r.percent)) <= g
  BY <1>2 DEF Concluded, Unnoticed, Lost
<1>8. ASSUME saved'.granted + D2(saved'.key, saved'.percent) <= g2,
             slot'[s].pc = "idle",
             ledger'.granted + D2(ledger'.key, ledger'.percent) <= g2,
             alarms' + D2(ledger'.key, ledger'.percent) <= g2
      PROVE  Concluded(s)'
  BY <1>2, <1>8 DEF Concluded, Unnoticed, Lost
<1>9. ASSUME saved'.granted + D2(saved'.key, saved'.percent) <= g2,
             slot'[s].pc # "idle", slot'[s].reading.reset > 0,
             NEW n, n = Count(Gap(ledger'.key, ledger'.percent, slot'[s].reading.reset,
                                  slot'[s].reading.percent, t2))
                        + D2(slot'[s].reading.reset, slot'[s].reading.percent),
             ledger'.granted + n <= g2, alarms' + n <= g2
      PROVE  Concluded(s)'
  BY <1>2, <1>9 DEF Concluded, Unnoticed, Lost
<1>10. ASSUME UNCHANGED <<now, upstream>>
       PROVE  /\ g2 = g /\ t2 = t
              /\ \A k, p : D2(k, p) = D(k, p)
  BY <1>2, <1>10 DEF Said, upstream
<1>11. ASSUME saved' = saved
       PROVE  saved'.granted + D2(saved'.key, saved'.percent) <= g2
  <2> HIDE DEF D, D2
  <2>1. /\ D2(saved.key, saved.percent) + g <= D(saved.key, saved.percent) + g2
        /\ D2(saved.key, saved.percent) \in {0, 1} /\ D(saved.key, saved.percent) \in {0, 1}
    BY <1>1, <1>4, <1>5
  <2> QED
    BY <1>1, <1>3, <1>7, <1>11, <2>1
<1>12. ASSUME UNCHANGED <<ledger, saved, alarms>>,
              slot'[s].pc = "idle" <=> slot[s].pc = "idle",
              slot'[s].pc # "idle" => slot'[s].reading = slot[s].reading
       PROVE  Concluded(s)'
  <2>1. CASE slot[s].pc = "idle"
    <3> HIDE DEF D, D2
    <3>1. /\ D2(L.key, L.percent) + g <= D(L.key, L.percent) + g2
          /\ D2(L.key, L.percent) \in {0, 1} /\ D(L.key, L.percent) \in {0, 1}
      BY <1>1, <1>4, <1>5
    <3>2. /\ L.granted + D2(L.key, L.percent) <= g2
          /\ alarms + D2(L.key, L.percent) <= g2
      BY <1>1, <1>3, <1>7, <2>1, <3>1
    <3> QED
      BY <1>8, <1>11, <1>12, <2>1, <3>2
  <2>2. CASE slot[s].pc # "idle"
    <3> DEFINE G2 == Count(Gap(L.key, L.percent, r.reset, r.percent, t2))
    <3>1. G2 <= G /\ G2 \in {0, 1}
      BY <1>1, <1>3 DEF Gap, Count
    <3>2. /\ D2(r.reset, r.percent) + g <= D(r.reset, r.percent) + g2
          /\ D2(r.reset, r.percent) \in {0, 1} /\ D(r.reset, r.percent) \in {0, 1}
      <4> HIDE DEF D, D2
      <4> QED
        BY <1>1, <1>4, <1>5
    <3>3. r.reset > 0 /\ slot'[s].reading = r /\ slot'[s].pc # "idle"
      BY <1>7, <1>12, <2>2
    <3>4. saved'.granted + D2(saved'.key, saved'.percent) <= g2
      BY <1>11, <1>12
    <3> DEFINE n == G2 + D2(r.reset, r.percent)
    <3>5. L.granted + n <= g2 /\ alarms + n <= g2
      <4> HIDE DEF D, D2, G, G2
      <4> QED
        BY <1>1, <1>3, <1>6, <1>7, <2>2, <3>1, <3>2
    <3> QED
      BY <1>9, <1>12, <3>3, <3>4, <3>5
  <2> QED
    BY <2>1, <2>2
<1>13. ASSUME slot[s].pc = "idle", slot'[s].pc # "idle", NEW r2 \in Reading,
              slot'[s].reading = r2, r2.reset = Said, r2.percent = spent \div Step,
              Said' = Said, UNCHANGED <<now, spent, grants, ledger, saved, alarms>>
       PROVE  Concluded(s)'
  <2>1. g2 = g /\ said2 = said /\ points2 = points /\ t2 = t
    BY <1>2, <1>13
  <2>2. /\ points \in Nat
        /\ said > 0 /\ r2.reset = said /\ r2.percent = points
    <3>1. WindowRuns
      BY DEF RunInv
    <3>2. Said \in Nat /\ now < Said /\ spent \in Nat
      BY <3>1, SaidAhead DEF TypeOK
    <3> QED
      BY <1>2, <1>3, <1>13, <3>2, PointsAreNat
  <2>3. D2(said, points) = 0
    BY <2>1, <2>2 DEF Gap, Count
  <2> DEFINE n == Count(Gap(L.key, L.percent, said, points, t2)) + D2(said, points)
  <2>4. n = D(L.key, L.percent)
    BY <2>1, <2>3, <1>4, <1>1
  <2>5. L.granted + n <= g2 /\ alarms + n <= g2
    BY <1>7, <1>13, <2>1, <2>4
  <2>6. saved'.granted + D2(saved'.key, saved'.percent) <= g2
    BY <1>11, <1>13
  <2> QED
    BY <1>9, <1>13, <2>2, <2>5, <2>6
<1>14. CASE Respond(s)
  <2>1. Said' = Said
    BY <1>14, RespondEffect DEF Said
  <2> QED
    BY <1>13, <1>14, <2>1, RespondEffect
<1>15. CASE Look(s)
  <2>1. Said' = Said /\ UNCHANGED <<spent, grants>>
    BY <1>15, LookEffect DEF Said, upstream
  <2> QED
    BY <1>13, <1>15, <2>1, LookEffect
<1>16. CASE Charge(s)
  BY <1>12, <1>16, ChargeEffect
<1>17. CASE Aside
  BY <1>12, <1>17, AsideEffect
<1>18. CASE Flush
  <2>1. saved' = ledger /\ UNCHANGED <<now, upstream, ledger, alarms, slot>>
    BY <1>18 DEF Flush
  <2>2. L.granted + D(L.key, L.percent) <= g
    <3>1. CASE slot[s].pc = "idle"
      BY <1>7, <3>1
    <3>2. CASE slot[s].pc # "idle"
      <4>1. WindowRuns
        BY DEF RunInv
      <4>2. D(L.key, L.percent) <= G + D(r.reset, r.percent)
        BY <1>1, <1>2, <4>1, LostThrough DEF Lost
      <4>3. D(r.reset, r.percent) \in {0, 1} /\ D(L.key, L.percent) \in {0, 1}
        BY <1>1, <1>4
      <4> HIDE DEF D, G
      <4> QED
        BY <1>1, <1>3, <1>6, <1>7, <3>2, <4>2, <4>3
    <3> QED
      BY <3>1, <3>2
  <2>3. saved'.granted + D2(saved'.key, saved'.percent) <= g2
    BY <1>10, <2>1, <2>2
  <2> HIDE DEF D, D2, G
  <2>4. CASE slot[s].pc = "idle"
    BY <1>7, <1>8, <1>10, <2>1, <2>3, <2>4
  <2>5. CASE slot[s].pc # "idle"
    BY <1>7, <1>9, <1>10, <2>1, <2>3, <2>5 DEF D, D2, G
  <2> QED
    BY <2>4, <2>5
<1>19. CASE Crash
  <2>1. /\ slot'[s].pc = "idle" /\ alarms' = 0 /\ saved' = saved
        /\ ledger'.key = saved.key /\ ledger'.percent = saved.percent
        /\ ledger'.granted = saved.granted /\ UNCHANGED <<now, upstream>>
    BY <1>19, CrashEffect
  <2>2. saved'.granted + D2(saved'.key, saved'.percent) <= g2
    BY <1>11, <2>1
  <2>3. 0 + D2(saved.key, saved.percent) <= g2
    <3>1. D2(saved.key, saved.percent) \in {0, 1}
      BY <1>1, <1>4
    <3> HIDE DEF D2
    <3> QED
      BY <1>1, <1>3, <2>1, <2>2, <3>1
  <2> QED
    BY <1>8, <2>1, <2>2, <2>3
<1>20. ASSUME slot[s].pc # "idle", NEW N, N = Advance(ledger, r),
              slot'[s].pc = "idle", saved' = saved, UNCHANGED <<now, upstream>>,
              ledger'.key = N.key, ledger'.percent = N.percent, ledger'.granted = N.granted,
              alarms' = alarms \/ (alarms' = alarms + 1 /\ Early(ledger, r))
       PROVE  Concluded(s)'
  <2>1. r.reset > 0
    BY <1>7, <1>20
  <2>2. /\ N.key = r.reset /\ N.percent = r.percent /\ N.granted \in Nat
        /\ N.granted <= L.granted + G
    BY <1>1, <1>2, <1>20, <2>1, ReadingOfLedger
  <2>3. alarms' <= alarms + G
    <3>1. CASE Early(ledger, r)
      <4>1. G = 1
        BY <1>1, <1>2, <2>1, <3>1, EarlyIsGap DEF Count
      <4> HIDE DEF G
      <4> QED
        BY <1>1, <1>20, <4>1
    <3>2. CASE ~Early(ledger, r)
      <4> HIDE DEF G
      <4> QED
        BY <1>1, <1>6, <1>20, <3>2
    <3> QED
      BY <3>1, <3>2
  <2>4. g2 = g /\ D2(r.reset, r.percent) = D(r.reset, r.percent)
        /\ D(r.reset, r.percent) \in {0, 1}
    BY <1>1, <1>4, <1>10, <1>20
  <2>5. saved'.granted + D2(saved'.key, saved'.percent) <= g2
    BY <1>11, <1>20
  <2>6. alarms' \in Nat
    BY <1>1, <1>20
  <2>7. /\ N.granted + D2(r.reset, r.percent) <= g2
        /\ alarms' + D2(r.reset, r.percent) <= g2
    <3> HIDE DEF D, D2, G
    <3> QED
      BY <1>1, <1>3, <1>6, <1>7, <1>20, <2>2, <2>3, <2>4, <2>6
  <2> QED
    BY <1>8, <1>20, <2>2, <2>5, <2>7
<1>21. CASE HandleUsage(s)
  BY <1>20, <1>21, HandleUsageEffect
<1>22. CASE ObserveReading(s)
  BY <1>20, <1>22, ObserveReadingEffect
<1>23. CASE HandleUsageBlind(s)
  <2>1. /\ slot[s].pc # "idle" /\ slot'[s].pc = "idle"
        /\ UNCHANGED <<now, upstream, ledger, alarms, saved>>
    BY <1>23, HandleUsageBlindEffect
  <2>2. WindowRuns
    BY DEF RunInv
  <2>3. D(L.key, L.percent) <= G + D(r.reset, r.percent)
    BY <1>1, <1>2, <2>2, LostThrough DEF Lost
  <2>4. D(r.reset, r.percent) \in {0, 1} /\ D(L.key, L.percent) \in {0, 1}
    BY <1>1, <1>4
  <2>5. L.granted + D(L.key, L.percent) <= g /\ alarms + D(L.key, L.percent) <= g
    <3> HIDE DEF D, G
    <3> QED
      BY <1>1, <1>3, <1>6, <1>7, <2>1, <2>3, <2>4
  <2>6. saved'.granted + D2(saved'.key, saved'.percent) <= g2
    BY <1>11, <2>1
  <2>7. g2 = g /\ D2(L.key, L.percent) = D(L.key, L.percent)
    BY <1>10, <2>1
  <2> QED
    BY <1>8, <2>1, <2>5, <2>6, <2>7
<1> QED
  BY <1>14, <1>15, <1>16, <1>17, <1>18, <1>19, <1>21, <1>22, <1>23 DEF Next, Aside

(* advance's "Upstream granted a mid-cycle reset" and HandleUsage's        *)
(* earlyReset are concluded no more often than upstream has granted one:   *)
(* for one request or look at a time, whatever upstream grants, other      *)
(* clients charge and restarts lose.                                       *)
THEOREM GrantsAreNeverInvented ==
    ASSUME NEW s, Slot = {s}
    PROVE  Spec => []GrantsAreReal
<1>1. Init => GrantInv(s)
  <2> SUFFICES ASSUME Init PROVE GrantInv(s)
    OBVIOUS
  <2>1. RunInv(s)
    BY RunInit
  <2>2. /\ slot[s].pc = "idle" /\ slot[s].reading.reset = 0
        /\ ledger = Fresh /\ saved = Fresh /\ alarms = 0 /\ grants = 0
    BY DEF Init, Free
  <2>3. Fresh.key = 0 /\ Fresh.percent = 0 /\ Fresh.granted = 0
    BY DEF Fresh
  <2>4. Count(Lost(0, 0)) = 0
    BY DEF Count, Lost, Gap
  <2> QED
    BY <2>1, <2>2, <2>3, <2>4 DEF GrantInv, Nameless, Concluded, Unnoticed
<1>2. TypeOK /\ TypeOK' /\ GrantInv(s) /\ [Next]_vars => GrantInv(s)'
  <2> SUFFICES ASSUME TypeOK, TypeOK', GrantInv(s), [Next]_vars PROVE GrantInv(s)'
    OBVIOUS
  <2>1. RunInv(s)'
    BY RunStep DEF GrantInv
  <2>2. ASSUME ~ReportsReset
        PROVE  (Nameless(s) /\ ledger.granted = 0 /\ saved.granted = 0 /\ alarms = 0)'
    BY <2>2, NamelessGrants DEF GrantInv
  <2>3. ASSUME ReportsReset PROVE Concluded(s)'
    BY <2>3, ConcludedStep DEF GrantInv
  <2> QED
    BY <2>1, <2>2, <2>3 DEF GrantInv
<1>3. TypeOK /\ GrantInv(s) => GrantsAreReal
  <2> SUFFICES ASSUME TypeOK, GrantInv(s) PROVE GrantsAreReal
    OBVIOUS
  <2>1. ledger.granted \in Nat /\ alarms \in Nat /\ grants \in Nat
    BY MeterAssumption DEF TypeOK, Ledger
  <2>2. Unnoticed(s) \in Nat
    BY DEF Unnoticed, Count
  <2> QED
    BY <2>1, <2>2 DEF GrantInv, Concluded, GrantsAreReal
<1> QED
  BY <1>1, <1>2, <1>3, TypeCorrect, PTL DEF Spec

-----------------------------------------------------------------------------
(* A ledger that has a cycle has read it, and has billed what it has       *)
(* pending and what it has seen spent.                                     *)
Sound(L) ==
    /\ L.key # 0 => L.hasLast
    /\ L.pending > 0 => L.touched
    /\ L.usd > 0 => L.touched

(* A ledger whose boundary is one a request has fixed. *)
Anchored(L) == L.touched \/ L.percent > 0

(* A reading of upstream, whose window runs or not, whose boundary is said *)
(* and whose percentage is points, would start a cycle after one of k and  *)
(* p.                                                                      *)
Due(anchored, k, p, running, said, points) ==
    \/ k = 0
    \/ anchored /\ ~(running /\ said = k /\ p <= points)
    \/ ~anchored /\ points > 0 /\ said # k

DueNow(anchored, k, p) == Due(anchored, k, p, started, Said, spent \div Step)

(* The windows of upstream, and what may have hidden how one started. *)
Hidden == resets + 1 + crashes + externals

Counted(s) ==
    /\ Sound(ledger) /\ Sound(saved)
    /\ saved.cycles <= Hidden
    /\ slot[s].pc = "idle" =>
           ledger.cycles + Count(DueNow(Anchored(ledger), ledger.key, ledger.percent)) <= Hidden
    /\ slot[s].pc # "idle" =>
           LET r == slot[s].reading
               N == Advance(ledger, r)
           IN  /\ r.reset > 0
               /\ N.cycles + Count(DueNow(slot[s].pc # "looked" \/ Anchored(N),
                                          r.reset, r.percent)) <= Hidden

CycleInv(s) == RunInv(s) /\ Counted(s)

LEMMA SoundAdvance ==
    ASSUME NEW L \in Ledger, NEW r \in Reading, Sound(L)
    PROVE  Sound(Advance(L, r))
<1> DEFINE A == Rolled(L, r)
           N == Advance(L, r)
<1>1. /\ Starts(L, r) => A.usd = 0 /\ A.touched = FALSE /\ A.pending = 0
      /\ ~Starts(L, r) => A.usd = L.usd /\ A.touched = L.touched /\ A.pending = L.pending
  BY RolledEffect
<1>2. N.hasLast = TRUE /\ N.usd = A.usd /\ N.touched = A.touched
      /\ (N.pending = 0 \/ N.pending = A.pending)
  BY AdvanceEffect
<1> HIDE DEF A, N
<1>3. A.usd > 0 => A.touched
  BY <1>1 DEF Sound
<1>4. A.pending > 0 => A.touched
  BY <1>1 DEF Sound
<1>5. Sound(N)
  BY <1>2, <1>3, <1>4 DEF Sound
<1> QED
  BY <1>5 DEF N

(* A reading starts a cycle only where one was due, and then none is due. *)
LEMMA StartsWhenDue ==
    ASSUME NEW L \in Ledger, NEW r \in Reading, Sound(L), r.reset > 0,
           NEW running \in BOOLEAN, ~running => r.percent = 0
    PROVE  LET N == Advance(L, r)
               due == Due(Anchored(L), L.key, L.percent, running, r.reset, r.percent)
           IN  /\ N.cycles <= L.cycles + Count(due)
               /\ N.cycles + Count(Due(Anchored(N), r.reset, r.percent,
                                       running, r.reset, r.percent))
                     <= L.cycles + Count(due)
<1> DEFINE A == Rolled(L, r)
           N == Advance(L, r)
           due == Due(Anchored(L), L.key, L.percent, running, r.reset, r.percent)
           again == Due(Anchored(N), r.reset, r.percent, running, r.reset, r.percent)
<1>1. /\ L.key \in Nat /\ L.percent \in Nat /\ r.reset \in Nat /\ r.percent \in Nat
      /\ L.cycles \in Nat /\ L.pending \in Nat /\ L.touched \in BOOLEAN
  BY LedgerTakes, ReadingTakes DEF Ledger
<1>2. Starts(L, r) => due
  <2>1. CASE L.key = 0
    BY <2>1 DEF Due
  <2>2. CASE L.key # 0 /\ Moved(L, r) /\ ~Untouched(L, r)
    <3>1. r.reset # L.key /\ L.hasLast
      BY <2>2 DEF Moved, Sound
    <3>2. CASE Anchored(L)
      BY <3>1, <3>2 DEF Due
    <3>3. CASE ~Anchored(L)
      <4>1. L.percent = 0 /\ ~L.touched /\ L.pending = 0
        BY <1>1, <3>3 DEF Anchored, Sound
      <4>2. r.percent > 0
        BY <1>1, <2>2, <3>1, <4>1 DEF Untouched
      <4> QED
        BY <3>1, <3>3, <4>2 DEF Due
    <3> QED
      BY <3>2, <3>3
  <2>3. CASE ~Moved(L, r) /\ Fell(L, r)
    <3>1. Anchored(L) /\ ~(L.percent <= r.percent)
      BY <1>1, <2>3 DEF Fell, Anchored
    <3> QED
      BY <3>1 DEF Due
  <2> QED
    BY <2>1, <2>2, <2>3 DEF Starts
<1>3. /\ Starts(L, r) => A.touched = FALSE /\ A.cycles = L.cycles + 1
      /\ ~Starts(L, r) => A.touched = L.touched /\ A.cycles = L.cycles
  BY RolledEffect
<1>4. N.percent = r.percent /\ N.touched = A.touched /\ N.cycles = A.cycles
  BY AdvanceEffect
<1>5. again => ~running /\ ~Starts(L, r) /\ due
  <2> SUFFICES ASSUME again PROVE ~running /\ ~Starts(L, r) /\ due
    OBVIOUS
  <2> HIDE DEF A, N
  <2>1. Anchored(N) /\ ~running
    BY <1>1 DEF Due
  <2>2. N.touched
    BY <1>4, <2>1 DEF Anchored
  <2>3. ~Starts(L, r) /\ L.touched
    BY <1>3, <1>4, <2>2
  <2> QED
    BY <2>1, <2>3 DEF Due, Anchored
<1> HIDE DEF A, N, due, again
<1>6. N.cycles + Count(again) <= L.cycles + Count(due) /\ N.cycles <= L.cycles + Count(due)
  <2>1. CASE Starts(L, r)
    BY <1>1, <1>2, <1>3, <1>4, <1>5, <2>1 DEF Count
  <2>2. CASE ~Starts(L, r)
    BY <1>1, <1>3, <1>4, <1>5, <2>2 DEF Count
  <2> QED
    BY <2>1, <2>2
<1> QED
  BY <1>6 DEF N, due, again

LEMMA HiddenTyped == TypeOK => Hidden \in Nat
BY MeterAssumption DEF TypeOK, Hidden

(* What hides a start pays for the cycle that falls due. *)
LEMMA DueStays ==
    ASSUME NEW s, Slot = {s}, TypeOK, TypeOK', RunInv(s), [Next]_vars,
           NEW k \in Nat, NEW p \in Nat
    PROVE  \/ Hidden' = Hidden + 1
           \/ /\ Hidden' = Hidden
              /\ DueNow(TRUE, k, p)' => DueNow(TRUE, k, p)
              /\ Charge(s) \/ (DueNow(FALSE, k, p)' => DueNow(FALSE, k, p))
<1>1. /\ spent \in Nat /\ spent' \in Nat /\ started \in BOOLEAN /\ started' \in BOOLEAN
      /\ resets \in Nat /\ crashes \in Nat /\ externals \in Nat
  BY MeterAssumption DEF TypeOK
<1>2. PICK said, points, said2, points2 :
         /\ said = Said /\ points = spent \div Step
         /\ said2 = Said' /\ points2 = spent' \div Step
  OBVIOUS
<1>3. points \in Nat /\ points2 \in Nat
  BY <1>1, <1>2, PointsAreNat
<1>4. Used \/ Waited \/ EndedOnTime \/ EndedEarly
  BY UpstreamSteps
<1>5. \/ UNCHANGED <<crashes, externals>>
      \/ Used /\ resets' = resets /\ crashes' = crashes + 1 /\ UNCHANGED externals
      \/ Used /\ resets' = resets /\ externals' = externals + 1 /\ UNCHANGED crashes
  <2>1. ASSUME UNCHANGED <<now, resets>> PROVE Used
    BY <1>1, <1>4, <2>1, MeterAssumption DEF Waited, EndedOnTime, EndedEarly, TypeOK
  <2>2. CASE Crash
    BY <2>1, <2>2 DEF Crash, upstream
  <2>3. CASE External
    BY <2>1, <2>3 DEF External
  <2>4. ASSUME NEW j \in Slot,
               Respond(j) \/ Charge(j) \/ HandleUsage(j) \/ Look(j) \/ ObserveReading(j)
        PROVE  UNCHANGED <<crashes, externals>>
    BY <2>4 DEF Respond, Charge, HandleUsage, Look, ObserveReading
  <2>5. CASE Tick \/ Grant \/ Flush \/ UNCHANGED vars
    BY <2>5 DEF Tick, Grant, Flush, vars
  <2>6. ASSUME NEW j \in Slot, HandleUsageBlind(j)
        PROVE  /\ Used /\ resets' = resets
               /\ externals' = externals + 1 /\ UNCHANGED crashes
    BY <2>1, <2>6 DEF HandleUsageBlind, upstream
  <2> QED
    BY <2>2, <2>3, <2>4, <2>5, <2>6 DEF Next
<1>6. CASE UNCHANGED <<crashes, externals>> /\ (EndedOnTime \/ EndedEarly)
  <2>1. resets' = resets + 1 /\ crashes' = crashes /\ externals' = externals
    BY <1>6 DEF EndedOnTime, EndedEarly
  <2>2. Hidden' = Hidden + 1
    BY <1>1, <2>1 DEF Hidden
  <2> QED
    BY <2>2
<1>7. CASE ~UNCHANGED <<crashes, externals>>
  <2>1. /\ resets' = resets
        /\ \/ crashes' = crashes + 1 /\ externals' = externals
           \/ crashes' = crashes /\ externals' = externals + 1
    BY <1>5, <1>7
  <2>2. Hidden' = Hidden + 1
    BY <1>1, <2>1 DEF Hidden
  <2> QED
    BY <2>2
<1>8. CASE UNCHANGED <<crashes, externals>> /\ Used
  <2>1. Hidden' = Hidden
    BY <1>8 DEF Used, Hidden
  <2>2. said2 = said /\ points <= points2 /\ (started => started')
    BY <1>1, <1>2, <1>8, PointsGrow DEF Used
  <2>3. DueNow(TRUE, k, p)' => DueNow(TRUE, k, p)
    BY <1>2, <1>3, <2>2 DEF DueNow, Due
  <2>4. Charge(s) \/ spent' = spent
    <3>1. ASSUME External PROVE FALSE
      BY <1>1, <1>8, <3>1 DEF External
    <3>2. CASE Tick
      BY <1>8, <3>2, <1>1, MeterAssumption DEF Tick, Used, TypeOK
    <3>3. CASE Grant
      BY <1>1, <1>8, <3>3 DEF Grant, Ends, Used
    <3>4. CASE Respond(s) \/ HandleUsage(s) \/ HandleUsageBlind(s) \/ Look(s)
               \/ ObserveReading(s) \/ Flush \/ Crash \/ UNCHANGED vars
      BY <3>4 DEF Respond, HandleUsage, HandleUsageBlind, Look, ObserveReading,
                  Flush, Crash, vars, upstream
    <3> QED
      BY <3>1, <3>2, <3>3, <3>4 DEF Next
  <2>5. ASSUME spent' = spent PROVE DueNow(FALSE, k, p)' => DueNow(FALSE, k, p)
    <3>1. points2 = points
      BY <1>2, <2>5
    <3> QED
      BY <1>2, <2>2, <3>1 DEF DueNow, Due
  <2> QED
    BY <2>1, <2>3, <2>4, <2>5
<1>9. CASE UNCHANGED <<crashes, externals>> /\ Waited
  <2>1. /\ Hidden' = Hidden /\ points2 = points /\ started' = started
        /\ started => said2 = said
    BY <1>2, <1>9 DEF Waited, Hidden
  <2>2. ~started => points = 0
    BY <1>2, MeterAssumption DEF RunInv, WindowRuns
  <2>3. DueNow(TRUE, k, p)' => DueNow(TRUE, k, p)
    BY <1>2, <2>1 DEF DueNow, Due
  <2>4. DueNow(FALSE, k, p)' => DueNow(FALSE, k, p)
    BY <1>2, <2>1, <2>2 DEF DueNow, Due
  <2> QED
    BY <2>1, <2>3, <2>4
<1> QED
  BY <1>4, <1>5, <1>6, <1>7, <1>8, <1>9

LEMMA CyclesGrow ==
    ASSUME NEW L \in Ledger, NEW r \in Reading
    PROVE  L.cycles <= Advance(L, r).cycles
<1> DEFINE A == Rolled(L, r)
           N == Advance(L, r)
<1>1. A.cycles = L.cycles \/ A.cycles = L.cycles + 1
  BY RolledEffect
<1>2. N.cycles = A.cycles
  BY AdvanceEffect
<1>3. L.cycles \in Nat
  BY DEF Ledger
<1> HIDE DEF A, N
<1>4. L.cycles <= N.cycles
  BY <1>1, <1>2, <1>3
<1> QED
  BY <1>4 DEF N

LEMMA CountedStep ==
    ASSUME NEW s, Slot = {s}, TypeOK, TypeOK', [Next]_vars, ReportsReset,
           RunInv(s), Counted(s)
    PROVE  Counted(s)'
<1> DEFINE L == ledger
           r == slot[s].reading
           N == Advance(L, r)
<1>1. /\ r \in Reading /\ L \in Ledger /\ saved \in Ledger
      /\ L.key \in Nat /\ L.percent \in Nat /\ L.cycles \in Nat /\ L.touched \in BOOLEAN
      /\ saved.key \in Nat /\ saved.percent \in Nat /\ saved.cycles \in Nat
      /\ r.reset \in Nat /\ r.percent \in Nat
      /\ N \in Ledger /\ N.cycles \in Nat /\ N.touched \in BOOLEAN
  <2>1. r \in Reading /\ L \in Ledger /\ saved \in Ledger
    BY DEF TypeOK, Job
  <2>2. N \in Ledger
    BY <2>1, AdvanceTyped
  <2> HIDE DEF L, r, N
  <2>3. /\ L.cycles \in Nat /\ L.touched \in BOOLEAN /\ saved.cycles \in Nat
        /\ N.cycles \in Nat /\ N.touched \in BOOLEAN
    BY <2>1, <2>2 DEF Ledger
  <2> QED
    BY <2>1, <2>2, <2>3, LedgerTakes, ReadingTakes
<1>2. PICK on, said, points, h, on2, said2, points2, h2 :
         /\ on = started /\ said = Said /\ points = spent \div Step /\ h = Hidden
         /\ on2 = started' /\ said2 = Said' /\ points2 = spent' \div Step /\ h2 = Hidden'
  OBVIOUS
<1> DEFINE D(a, k, p) == Count(Due(a, k, p, on, said, points))
           D2(a, k, p) == Count(Due(a, k, p, on2, said2, points2))
<1>3. /\ h \in Nat /\ h2 \in Nat /\ h <= h2 /\ points \in Nat
      /\ on \in BOOLEAN /\ (~on => points = 0) /\ said \in Nat /\ said > 0
  <2>1. h \in Nat
    BY <1>2, HiddenTyped
  <2>2. Hidden' = Hidden \/ Hidden' = Hidden + 1
    BY DueStays
  <2>3. points \in Nat /\ on \in BOOLEAN
    BY <1>2, PointsAreNat DEF TypeOK
  <2>4. WindowRuns /\ now \in Nat
    BY DEF RunInv, TypeOK
  <2>5. ~on => points = 0
    BY <1>2, <2>4, MeterAssumption DEF WindowRuns
  <2>6. said \in Nat /\ said > 0
    BY <1>2, <2>4, SaidAhead
  <2> QED
    BY <1>2, <2>1, <2>2, <2>3, <2>5, <2>6
<1>4. \A a, k, p : D(a, k, p) \in {0, 1} /\ D2(a, k, p) \in {0, 1}
  BY CountTyped
<1>5. ASSUME NEW k \in Nat, NEW p \in Nat, NEW a \in BOOLEAN, a \/ ~Charge(s)
      PROVE  D2(a, k, p) + h <= D(a, k, p) + h2
  <2>1. \/ h2 = h + 1
        \/ h2 = h /\ (Due(a, k, p, on2, said2, points2) => Due(a, k, p, on, said, points))
    <3>1. CASE a = TRUE
      BY <1>2, <3>1, DueStays DEF DueNow
    <3>2. CASE a = FALSE
      BY <1>2, <1>5, <3>2, DueStays DEF DueNow
    <3> QED
      BY <3>1, <3>2
  <2>2. D2(a, k, p) <= D(a, k, p) \/ h2 = h + 1
    BY <2>1 DEF Count
  <2>3. D(a, k, p) \in {0, 1} /\ D2(a, k, p) \in {0, 1}
    BY <1>4
  <2> HIDE DEF D, D2
  <2> QED
    BY <1>3, <2>1, <2>2, <2>3
<1>6. /\ Sound(L) /\ Sound(saved) /\ saved.cycles <= h
      /\ slot[s].pc = "idle" => L.cycles + D(Anchored(L), L.key, L.percent) <= h
      /\ slot[s].pc # "idle" =>
             /\ r.reset > 0
             /\ N.cycles + D(slot[s].pc # "looked" \/ Anchored(N), r.reset, r.percent) <= h
  BY <1>2 DEF Counted, DueNow
<1>7. ASSUME Sound(ledger'), Sound(saved'), saved'.cycles <= h2, slot'[s].pc = "idle",
             ledger'.cycles + D2(Anchored(ledger'), ledger'.key, ledger'.percent) <= h2
      PROVE  Counted(s)'
  BY <1>2, <1>7 DEF Counted, DueNow, Sound, Anchored
<1>8. ASSUME Sound(ledger'), Sound(saved'), saved'.cycles <= h2,
             NEW r2 \in Reading, slot'[s].reading = r2, slot'[s].pc # "idle", r2.reset > 0,
             NEW N2, N2 = Advance(ledger', r2),
             N2.cycles + D2(slot'[s].pc # "looked" \/ Anchored(N2), r2.reset, r2.percent) <= h2
      PROVE  Counted(s)'
  <2> DEFINE M == Advance(ledger', slot'[s].reading)
  <2>1. Counted(s)' <=>
           /\ Sound(ledger') /\ Sound(saved') /\ saved'.cycles <= Hidden'
           /\ slot'[s].pc = "idle" =>
                  ledger'.cycles + Count(DueNow(Anchored(ledger), ledger.key, ledger.percent)') <= Hidden'
           /\ slot'[s].pc # "idle" =>
                  /\ slot'[s].reading.reset > 0
                  /\ M.cycles + Count(Due(slot'[s].pc # "looked" \/ Anchored(M),
                                          slot'[s].reading.reset, slot'[s].reading.percent,
                                          started', Said', spent' \div Step)) <= Hidden'
    BY DEF Counted, DueNow, Sound, Anchored
  <2> QED
    BY <1>2, <1>8, <2>1
<1>9. saved' = saved => saved'.cycles <= h2 /\ Sound(saved')
  BY <1>1, <1>3, <1>6
<1>10. ASSUME UNCHANGED <<ledger, saved>>,
              slot'[s].pc = "idle" <=> slot[s].pc = "idle",
              slot'[s].pc = "looked" <=> slot[s].pc = "looked",
              slot'[s].pc # "idle" => slot'[s].reading = slot[s].reading,
              Charge(s) => slot[s].pc = "answered"
       PROVE  Counted(s)'
  <2>1. CASE slot[s].pc = "idle"
    <3> DEFINE a == Anchored(L)
    <3>1. a \in BOOLEAN
      BY DEF Anchored
    <3>2. ~Charge(s)
      BY <1>10, <2>1
    <3> HIDE DEF a
    <3>3. /\ D2(a, L.key, L.percent) + h <= D(a, L.key, L.percent) + h2
          /\ D2(a, L.key, L.percent) \in {0, 1} /\ D(a, L.key, L.percent) \in {0, 1}
      <4> HIDE DEF D, D2
      <4> QED
        BY <1>1, <1>4, <1>5, <3>1, <3>2
    <3>4. L.cycles + D(a, L.key, L.percent) <= h
      BY <1>6, <2>1 DEF a
    <3>5. L.cycles + D2(a, L.key, L.percent) <= h2
      <4> HIDE DEF D, D2
      <4> QED
        BY <1>1, <1>3, <3>3, <3>4
    <3> QED
      BY <1>6, <1>7, <1>9, <1>10, <2>1, <3>5 DEF a
  <2>2. CASE slot[s].pc # "idle"
    <3> DEFINE a == slot[s].pc # "looked" \/ Anchored(N)
    <3>1. a \in BOOLEAN /\ (a \/ ~Charge(s))
      BY <1>10, <2>2 DEF Anchored
    <3> HIDE DEF a
    <3>2. /\ D2(a, r.reset, r.percent) + h <= D(a, r.reset, r.percent) + h2
          /\ D2(a, r.reset, r.percent) \in {0, 1} /\ D(a, r.reset, r.percent) \in {0, 1}
      <4> HIDE DEF D, D2
      <4> QED
        BY <1>1, <1>4, <1>5, <3>1
    <3>3. r.reset > 0 /\ N.cycles + D(a, r.reset, r.percent) <= h
      BY <1>6, <2>2 DEF a
    <3>4. N.cycles + D2(a, r.reset, r.percent) <= h2
      <4> HIDE DEF D, D2, N
      <4> QED
        BY <1>1, <1>3, <3>2, <3>3
    <3> DEFINE a2 == slot'[s].pc # "looked" \/ Anchored(N)
    <3>5. a2 = a
      BY <1>10, Zenon DEF a
    <3>6. slot'[s].reading = r /\ slot'[s].pc # "idle" /\ N = Advance(ledger', r)
      BY <1>10, <2>2
    <3>7. N.cycles + D2(a2, r.reset, r.percent) <= h2
      BY <3>4, <3>5
    <3> QED
      BY <1>1, <1>6, <1>8, <1>9, <1>10, <3>3, <3>6, <3>7
  <2> QED
    BY <2>1, <2>2
<1>11. ASSUME slot[s].pc = "idle", slot'[s].pc # "idle", NEW r2 \in Reading,
              slot'[s].reading = r2, r2.reset = said, r2.percent = points,
              said2 = said, points2 = points, h2 = h, UNCHANGED <<ledger, saved>>,
              (slot'[s].pc = "looked" /\ on2 = on) \/ (slot'[s].pc = "answered" /\ on2 = TRUE)
       PROVE  Counted(s)'
  <2> DEFINE N2 == Advance(L, r2)
             due == Due(Anchored(L), L.key, L.percent, on, said, points)
             again == Due(Anchored(N2), said, points, on, said, points)
             left == Due(slot'[s].pc # "looked" \/ Anchored(N2), said, points,
                         on2, said, points)
  <2>1. N2.cycles <= L.cycles + Count(due) /\ N2.cycles + Count(again) <= L.cycles + Count(due)
    BY <1>1, <1>3, <1>6, <1>11, StartsWhenDue
  <2>2. L.cycles + Count(due) <= h
    BY <1>6, <1>11
  <2>3. N2 \in Ledger /\ N2.cycles \in Nat
    BY <1>1, <1>11, AdvanceTyped DEF Ledger
  <2>4. Count(left) = 0 \/ Count(left) = Count(again)
    <3>1. CASE slot'[s].pc = "looked" /\ on2 = on
      <4>1. left <=> again
        BY <3>1 DEF Due
      <4> HIDE DEF left, again
      <4> QED
        BY <4>1 DEF Count
    <3>2. CASE slot'[s].pc = "answered" /\ on2 = TRUE
      <4>1. ~left
        BY <1>3, <3>2 DEF Due
      <4> QED
        BY <4>1 DEF Count
    <3> QED
      BY <1>11, <3>1, <3>2
  <2>5. Count(left) \in {0, 1} /\ Count(again) \in {0, 1} /\ Count(due) \in {0, 1}
    BY CountTyped
  <2>6. N2.cycles + Count(left) <= h2
    <3> HIDE DEF N2, due, again, left
    <3> QED
      BY <1>1, <1>3, <1>11, <2>1, <2>2, <2>3, <2>4, <2>5
  <2>7. Sound(ledger') /\ Sound(saved') /\ saved'.cycles <= h2
    BY <1>6, <1>9, <1>11
  <2>8. /\ slot'[s].reading = r2 /\ r2.reset > 0 /\ N2 = Advance(ledger', r2)
        /\ N2.cycles + D2(slot'[s].pc # "looked" \/ Anchored(N2), r2.reset, r2.percent) <= h2
    BY <1>3, <1>11, <2>6
  <2> QED
    BY <1>8, <1>11, <2>7, <2>8
<1>12. CASE Respond(s)
  <2>1. /\ said2 = said /\ points2 = points /\ h2 = h /\ on2 = TRUE
    BY <1>2, <1>12, RespondEffect DEF Said, Hidden
  <2> QED
    BY <1>2, <1>11, <1>12, <2>1, RespondEffect
<1>13. CASE Look(s)
  <2>1. /\ said2 = said /\ points2 = points /\ h2 = h /\ on2 = on
    BY <1>2, <1>13, LookEffect DEF Said, Hidden, upstream
  <2> QED
    BY <1>2, <1>11, <1>13, <2>1, LookEffect
<1>14. CASE Charge(s)
  BY <1>10, <1>14, ChargeEffect
<1>15. CASE Aside
  <2>1. UNCHANGED <<ledger, saved, slot>>
    BY <1>15, AsideEffect
  <2>2. ~Charge(s)
    BY <2>1, ChargeEffect
  <2> QED
    BY <1>10, <2>1, <2>2
<1>16. ASSUME slot[s].pc # "idle", slot'[s].pc = "idle", saved' = saved,
              UNCHANGED <<now, upstream, crashes, externals>>,
              Sound(ledger'), ledger'.cycles = N.cycles,
              ledger'.key = r.reset, ledger'.percent = r.percent,
              Anchored(ledger') <=> (slot[s].pc # "looked" \/ Anchored(N))
       PROVE  Counted(s)'
  <2> DEFINE a == slot[s].pc # "looked" \/ Anchored(N)
  <2>1. said2 = said /\ points2 = points /\ h2 = h /\ on2 = on
    BY <1>2, <1>16 DEF Said, Hidden, upstream
  <2>2. N.cycles + D(a, r.reset, r.percent) <= h
    BY <1>6, <1>16
  <2>3. Anchored(ledger') = a
    BY <1>16 DEF Anchored
  <2>4. ledger'.cycles + D2(Anchored(ledger'), ledger'.key, ledger'.percent) <= h2
    BY <1>16, <2>1, <2>2, <2>3
  <2> QED
    BY <1>7, <1>9, <1>16, <2>4
<1>17. r.reset > 0 => N.key = r.reset /\ N.percent = r.percent /\ Sound(N)
  BY <1>1, <1>6, ReadingOfLedger, SoundAdvance
<1>18. CASE HandleUsage(s)
  <2>1. r.reset > 0 /\ slot[s].pc = "charged"
    BY <1>6, <1>18, HandleUsageEffect
  <2>2. ledger'.touched = TRUE /\ ledger'.hasLast = N.hasLast /\ ledger'.key = N.key
        /\ ledger'.percent = N.percent /\ ledger'.cycles = N.cycles
    BY <1>18, HandleUsageEffect
  <2>3. Sound(ledger') /\ Anchored(ledger')
    BY <1>17, <2>1, <2>2 DEF Sound, Anchored
  <2> HIDE DEF N
  <2> QED
    BY <1>16, <1>17, <1>18, <2>1, <2>2, <2>3, HandleUsageEffect
<1>19. CASE ObserveReading(s)
  <2>1. r.reset > 0 /\ slot[s].pc = "looked" /\ ledger' = N
    BY <1>6, <1>19, ObserveReadingEffect
  <2> QED
    BY <1>16, <1>17, <1>19, <2>1, ObserveReadingEffect
<1>20. CASE Flush
  <2>1. saved' = ledger /\ UNCHANGED <<now, upstream, ledger, slot, crashes, externals>>
    BY <1>20 DEF Flush
  <2>2. said2 = said /\ points2 = points /\ h2 = h /\ on2 = on
    BY <1>2, <2>1 DEF Said, Hidden, upstream
  <2>3. L.cycles <= h
    <3>1. CASE slot[s].pc = "idle"
      <4>1. D(Anchored(L), L.key, L.percent) \in {0, 1}
        BY <1>4
      <4>2. L.cycles + D(Anchored(L), L.key, L.percent) <= h
        BY <1>6, <3>1
      <4> HIDE DEF D
      <4> QED
        BY <1>1, <1>3, <4>1, <4>2
    <3>2. CASE slot[s].pc # "idle"
      <4>1. L.cycles <= N.cycles
        BY <1>1, CyclesGrow
      <4> DEFINE n == D(slot[s].pc # "looked" \/ Anchored(N), r.reset, r.percent)
      <4>2. n \in {0, 1}
        BY <1>4
      <4>3. N.cycles + n <= h
        BY <1>6, <3>2
      <4> HIDE DEF n, N
      <4> QED
        BY <1>1, <1>3, <4>1, <4>2, <4>3
    <3> QED
      BY <3>1, <3>2
  <2>4. CASE slot[s].pc = "idle"
    BY <1>6, <1>7, <2>1, <2>2, <2>3, <2>4
  <2>5. CASE slot[s].pc # "idle"
    BY <1>1, <1>6, <1>8, <2>1, <2>2, <2>3, <2>5
  <2> QED
    BY <2>4, <2>5
<1>21. CASE Crash
  <2>1. /\ slot'[s].pc = "idle" /\ saved' = saved /\ h2 = h + 1
        /\ ledger'.key = saved.key /\ ledger'.percent = saved.percent
        /\ ledger'.cycles = saved.cycles /\ ledger'.touched = saved.touched
        /\ ledger'.usd = saved.usd /\ ledger'.pending = saved.pending
        /\ ledger'.hasLast = saved.hasLast
    <3>1. UNCHANGED <<resets, externals>> /\ crashes' = crashes + 1
      BY <1>21, CrashEffect DEF upstream
    <3>2. h2 = h + 1
      BY <1>2, <3>1, MeterAssumption DEF Hidden, TypeOK
    <3> QED
      BY <1>21, <3>2, CrashEffect
  <2>2. Sound(ledger')
    BY <1>6, <2>1 DEF Sound
  <2> DEFINE n == D2(Anchored(ledger'), ledger'.key, ledger'.percent)
  <2>3. n \in {0, 1}
    BY <1>4
  <2>4. ledger'.cycles + n <= h2
    <3> HIDE DEF n
    <3> QED
      BY <1>1, <1>3, <1>6, <2>1, <2>3
  <2> QED
    BY <1>7, <1>9, <2>1, <2>2, <2>4
<1>22. CASE HandleUsageBlind(s)
  <2>1. /\ slot[s].pc # "idle" /\ slot'[s].pc = "idle"
        /\ UNCHANGED <<ledger, saved, resets, crashes>> /\ externals' = externals + 1
    BY <1>22, HandleUsageBlindEffect DEF upstream
  <2>2. h2 = h + 1
    BY <1>2, <2>1, MeterAssumption DEF Hidden, TypeOK
  <2>3. L.cycles <= N.cycles
    BY <1>1, CyclesGrow
  <2> DEFINE m == D(slot[s].pc # "looked" \/ Anchored(N), r.reset, r.percent)
             n == D2(Anchored(L), L.key, L.percent)
  <2>4. m \in {0, 1} /\ n \in {0, 1}
    BY <1>4
  <2>5. N.cycles + m <= h
    BY <1>6, <2>1
  <2>6. L.cycles + n <= h2
    <3> HIDE DEF m, n, N
    <3> QED
      BY <1>1, <1>3, <2>2, <2>3, <2>4, <2>5
  <2> QED
    BY <1>6, <1>7, <1>9, <2>1, <2>6
<1> QED
  BY <1>12, <1>13, <1>14, <1>15, <1>18, <1>19, <1>20, <1>21, <1>22 DEF Next, Aside

(* advance, "Reading an idle credential twice is not two cycles": no more  *)
(* cycles are counted than upstream has had windows, and one more for each *)
(* restart and each charge no reading came with that hid how one was       *)
(* started, for one request or look at a time where upstream says when a   *)
(* window resets.                                                          *)
THEOREM CyclesAreNeverInvented ==
    ASSUME NEW s, Slot = {s}, ReportsReset
    PROVE  Spec => []CyclesAreReal
<1>1. Init => CycleInv(s)
  <2> SUFFICES ASSUME Init PROVE CycleInv(s)
    OBVIOUS
  <2>1. RunInv(s)
    BY RunInit
  <2>2. /\ slot[s].pc = "idle" /\ ledger = Fresh /\ saved = Fresh
        /\ Hidden = 1
    BY DEF Init, Free, Hidden
  <2>3. /\ Fresh.key = 0 /\ Fresh.percent = 0 /\ Fresh.cycles = 0
        /\ Fresh.pending = 0 /\ Fresh.usd = 0
    BY DEF Fresh
  <2>4. Sound(Fresh)
    BY <2>3 DEF Sound
  <2>5. Count(DueNow(Anchored(Fresh), 0, 0)) \in {0, 1}
    BY CountTyped
  <2>6. Counted(s)
    BY <2>2, <2>3, <2>4, <2>5 DEF Counted
  <2> QED
    BY <2>1, <2>6 DEF CycleInv
<1>2. TypeOK /\ TypeOK' /\ CycleInv(s) /\ [Next]_vars => CycleInv(s)'
  BY RunStep, CountedStep DEF CycleInv
<1>3. TypeOK /\ CycleInv(s) => CyclesAreReal
  <2> SUFFICES ASSUME TypeOK, CycleInv(s) PROVE CyclesAreReal
    OBVIOUS
  <2> DEFINE r == slot[s].reading
             N == Advance(ledger, r)
             n == Count(DueNow(Anchored(ledger), ledger.key, ledger.percent))
             m == Count(DueNow(slot[s].pc # "looked" \/ Anchored(N), r.reset, r.percent))
  <2>1. ledger \in Ledger /\ r \in Reading /\ N \in Ledger
    BY AdvanceTyped DEF TypeOK, Job
  <2>2. ledger.cycles \in Nat /\ N.cycles \in Nat
    BY <2>1 DEF Ledger
  <2>3. Hidden \in Nat
    BY HiddenTyped
  <2>4. CASE slot[s].pc = "idle"
    <3>1. n \in {0, 1} /\ ledger.cycles + n <= Hidden
      BY <2>4, CountTyped DEF CycleInv, Counted
    <3> HIDE DEF n
    <3>2. ledger.cycles <= Hidden
      BY <2>2, <2>3, <3>1
    <3> QED
      BY <3>2 DEF CyclesAreReal, Hidden
  <2>5. CASE slot[s].pc # "idle"
    <3>1. m \in {0, 1} /\ N.cycles + m <= Hidden
      BY <2>5, CountTyped DEF CycleInv, Counted
    <3>2. ledger.cycles <= N.cycles
      BY <2>1, CyclesGrow
    <3> HIDE DEF m, N
    <3>3. ledger.cycles <= Hidden
      BY <2>2, <2>3, <3>1, <3>2
    <3> QED
      BY <3>3 DEF CyclesAreReal, Hidden
  <2> QED
    BY <2>4, <2>5
<1> QED
  BY <1>1, <1>2, <1>3, TypeCorrect, PTL DEF Spec

-----------------------------------------------------------------------------
(* What a covered cycle may have missed: the part of a point its first     *)
(* reading hid, and as much again for each restart, the last one only once *)
(* the ledger has been read since.                                         *)
Slack(n) == n * (Step - 1)

(* A covered cycle's percentage is worth the spend attributed to it, short *)
(* of what it missed or billed nothing, and no more than its next point.   *)
Priced(L, c) ==
    L.covered =>
        /\ L.percent * Step - (L.usd - L.pending)
              <= Slack(IF L.resumed THEN c ELSE c + 1) + L.unbilled
        /\ L.percent > 0 => L.usd - L.pending < (L.percent + 1) * Step

(* What a cycle of boundary k billed, upstream charged to its window.      *)
Billed(k, usd, running, said, charged) ==
    usd > 0 => k < said \/ (running /\ said = k /\ usd <= charged)

BilledNow(k, usd) == Billed(k, usd, started, Said, spent)

(* The inductive form, while the account is the plugin's alone.            *)
PricedInFlight(s) ==
    LET r == slot[s].reading
        N == Advance(ledger, r)
        usd == N.usd + slot[s].cost
    IN  /\ r.reset > 0
        /\ Priced(N, crashes)
        /\ slot[s].pc # "charged" => slot[s].cost = 0
        /\ started =>
               /\ Said = r.reset /\ usd <= spent
               /\ slot[s].pc # "looked" => slot[s].window = resets
               /\ N.covered => spent - usd <= Slack(crashes + 1) + N.unbilled
        /\ ~started /\ (slot[s].pc # "looked" \/ N.usd > 0) => r.reset < Said

PricedAtRest ==
    (ledger.covered /\ ~ledger.resumed /\ started /\ Said = ledger.key)
        => spent - ledger.usd <= Slack(crashes + 1) + ledger.unbilled

Costed(s) ==
    /\ Priced(ledger, crashes) /\ Priced(saved, crashes)
    /\ BilledNow(ledger.key, ledger.usd) /\ BilledNow(saved.key, saved.usd)
    /\ slot[s].pc = "idle" => PricedAtRest
    /\ slot[s].pc # "idle" => PricedInFlight(s)

LEMMA SlackBounds ==
    ASSUME NEW c \in Nat
    PROVE  /\ Slack(c) \in Nat /\ Slack(c + 1) \in Nat /\ Step - 1 \in Nat
           /\ Slack(c) + (Step - 1) = Slack(c + 1)
<1>1. PICK d \in Nat : d = Step - 1
  BY MeterAssumption
<1>2. c * d \in Nat /\ (c + 1) * d = c * d + d
  BY <1>1
<1>3. PICK m \in Nat : m = c * d /\ (c + 1) * d = m + d
  BY <1>2
<1>4. Slack(c) = m /\ Slack(c + 1) = m + d
  BY <1>1, <1>3 DEF Slack
<1> QED
  BY <1>1, <1>4

LEMMA PointBounds ==
    ASSUME NEW a \in Nat
    PROVE  LET q == a \div Step
           IN  q \in Nat /\ q * Step \in Nat /\ q * Step <= a /\ a < (q + 1) * Step
               /\ (q + 1) * Step = q * Step + Step /\ Step \in Nat
BY MeterAssumption

(* A reading taken now, of a ledger that is priced. *)
LEMMA ReadingPriced ==
    ASSUME NEW L \in Ledger, NEW r \in Reading, Sound(L), L.pending <= L.usd, r.reset > 0,
           NEW running \in BOOLEAN, NEW charged \in Nat, NEW c \in Nat,
           r.percent = charged \div Step, ~running => charged = 0,
           Priced(L, c), Billed(L.key, L.usd, running, r.reset, charged),
           (L.covered /\ ~L.resumed /\ running /\ r.reset = L.key)
               => charged - L.usd <= Slack(c + 1) + L.unbilled
    PROVE  LET N == Advance(L, r)
           IN  /\ N.usd <= charged
               /\ N.covered => charged - N.usd <= Slack(c + 1) + N.unbilled
               /\ Priced(N, c)
<1> DEFINE A == Rolled(L, r)
           N == Advance(L, r)
           rose == A.hasLast /\ r.percent > A.percent
<1>1. /\ L.key \in Nat /\ L.percent \in Nat /\ L.usd \in Nat /\ L.pending \in Nat
      /\ L.touched \in BOOLEAN /\ L.covered \in BOOLEAN /\ L.resumed \in BOOLEAN
      /\ L.hasLast \in BOOLEAN /\ L.unbilled \in Nat
      /\ r.reset \in Nat /\ r.percent \in Nat
  BY LedgerTakes, ReadingTakes DEF Ledger
<1>2. PICK slack \in Nat, less \in Nat, d \in Nat :
         /\ slack = Slack(c + 1) /\ less = Slack(c) /\ d = Step - 1
         /\ slack = less + d
  BY SlackBounds, Zenon
<1>3. PICK w \in Nat :
         /\ w = r.percent * Step /\ w <= charged /\ charged <= w + d
         /\ (r.percent + 1) * Step = w + d + 1
  <2>1. /\ r.percent * Step \in Nat /\ r.percent * Step <= charged
        /\ charged < (r.percent + 1) * Step
        /\ (r.percent + 1) * Step = r.percent * Step + Step /\ Step \in Nat
    BY PointBounds
  <2> QED
    BY <1>2, <2>1
<1>4. /\ Starts(L, r) =>
             /\ A.usd = 0 /\ A.unbilled = 0 /\ A.percent = 0 /\ A.hasLast = FALSE
             /\ A.pending = 0 /\ (A.covered <=> r.percent = 0)
      /\ ~Starts(L, r) =>
             /\ A.usd = L.usd /\ A.unbilled = L.unbilled
             /\ A.percent = L.percent /\ A.hasLast = L.hasLast
             /\ A.pending = L.pending /\ A.resumed = L.resumed /\ A.covered = L.covered
  BY RolledEffect
<1>5. /\ N.percent = r.percent /\ N.resumed = FALSE /\ N.usd = A.usd
      /\ N.unbilled = A.unbilled
      /\ rose => N.pending = 0
      /\ ~rose => N.pending = A.pending
      /\ rose /\ A.resumed => N.covered = FALSE
      /\ ~(rose /\ A.resumed) => N.covered = A.covered
  BY AdvanceEffect
<1>6. ASSUME NEW usd \in Nat, NEW pending \in Nat, N.usd = usd, N.pending = pending,
             NEW unbilled \in Nat, N.unbilled = unbilled,
             N.covered => w - (usd - pending) <= slack + unbilled,
             N.covered /\ r.percent > 0 => usd - pending < w + d + 1
      PROVE  Priced(N, c)
  BY <1>2, <1>3, <1>5, <1>6 DEF Priced
<1>7. Priced(L, c) <=>
         (L.covered =>
             /\ L.percent * Step - (L.usd - L.pending)
                   <= (IF L.resumed THEN less ELSE slack) + L.unbilled
             /\ L.percent > 0 => L.usd - L.pending < (L.percent + 1) * Step)
  BY <1>1, <1>2 DEF Priced
<1>8. CASE Starts(L, r)
  <2> HIDE DEF A, N
  <2>1. N.usd = 0 /\ N.pending = 0 /\ N.unbilled = 0 /\ (N.covered <=> r.percent = 0)
    BY <1>4, <1>5, <1>8
  <2>2. r.percent = 0 => w = 0
    BY <1>3, MeterAssumption
  <2>3. Priced(N, c)
    <3>1. N.covered => w - (0 - 0) <= slack + 0
      BY <1>2, <2>1, <2>2
    <3>2. N.covered => ~(r.percent > 0)
      BY <1>1, <2>1
    <3> QED
      BY <1>6, <2>1, <3>1, <3>2
  <2>4. N.covered => charged - N.usd <= slack + N.unbilled
    BY <1>2, <1>3, <2>1, <2>2
  <2> QED
    BY <1>2, <2>1, <2>3, <2>4 DEF N
<1>9. CASE ~Starts(L, r)
  <2> HIDE DEF A, N
  <2>1. L.key # 0 /\ L.hasLast
    BY <1>9 DEF Starts, Sound
  <2>2. /\ N.usd = L.usd /\ N.unbilled = L.unbilled
        /\ rose <=> r.percent > L.percent
        /\ rose => N.pending = 0
        /\ ~rose => N.pending = L.pending
        /\ N.covered => L.covered /\ ~(rose /\ L.resumed)
    BY <1>4, <1>5, <1>9, <2>1
  <2>3. CASE ~Moved(L, r)
    <3>1. L.key = r.reset /\ r.percent >= L.percent
      BY <1>1, <1>9, <2>1, <2>3 DEF Starts, Moved, Fell
    <3>2. L.usd <= charged
      BY <1>1, <3>1 DEF Billed
    <3>3. ~rose => r.percent = L.percent
      BY <1>1, <2>2, <3>1
    <3>4. N.covered => charged - L.usd <= slack + L.unbilled
      <4> SUFFICES ASSUME N.covered PROVE charged - L.usd <= slack + L.unbilled
        OBVIOUS
      <4>1. CASE ~running
        BY <1>1, <1>2, <4>1
      <4>2. CASE running /\ ~L.resumed
        BY <1>2, <2>2, <3>1, <4>2
      <4>3. CASE L.resumed
        <5>1. r.percent = L.percent /\ L.covered
          BY <2>2, <3>3, <4>3
        <5>2. w - (L.usd - L.pending) <= less + L.unbilled
          BY <1>3, <1>7, <4>3, <5>1
        <5> QED
          BY <1>1, <1>2, <1>3, <5>2
      <4> QED
        BY <4>1, <4>2, <4>3
    <3>5. Priced(N, c)
      <4>1. CASE rose
        <5>1. N.pending = 0
          BY <2>2, <4>1
        <5> QED
          BY <1>1, <1>2, <1>3, <1>6, <2>2, <3>2, <3>4, <5>1
      <4>2. CASE ~rose
        <5>1. N.pending = L.pending /\ r.percent = L.percent
          BY <2>2, <3>3, <4>2
        <5>2. L.covered => /\ w - (L.usd - L.pending)
                                 <= (IF L.resumed THEN less ELSE slack) + L.unbilled
                           /\ r.percent > 0 => L.usd - L.pending < w + d + 1
          BY <1>3, <1>7, <5>1
        <5>3. L.covered => w - (L.usd - L.pending) <= slack + L.unbilled
          BY <1>1, <1>2, <5>2
        <5> QED
          BY <1>1, <1>6, <2>2, <5>1, <5>2, <5>3
      <4> QED
        BY <4>1, <4>2
    <3> QED
      BY <1>2, <2>2, <3>2, <3>4, <3>5 DEF N
  <2>4. CASE Moved(L, r)
    <3>1. L.percent = 0 /\ r.percent = 0 /\ ~L.touched /\ L.pending = 0
      BY <1>9, <2>4 DEF Starts, Untouched
    <3>2. L.usd = 0 /\ w = 0
      BY <1>1, <1>3, <3>1, MeterAssumption DEF Sound
    <3>3. N.usd = 0 /\ N.pending = 0 /\ N.unbilled = L.unbilled
      BY <1>1, <2>2, <3>1, <3>2
    <3>4. Priced(N, c)
      <4>1. w - (0 - 0) <= slack + L.unbilled /\ ~(r.percent > 0)
        BY <1>1, <1>2, <3>1, <3>2
      <4> QED
        BY <1>1, <1>6, <3>3, <4>1
    <3>5. charged - N.usd <= slack + N.unbilled
      BY <1>1, <1>2, <1>3, <3>2, <3>3
    <3> QED
      BY <1>2, <3>3, <3>4, <3>5 DEF N
  <2> QED
    BY <2>3, <2>4
<1> QED
  BY <1>8, <1>9

(* Boundaries only move forward while the account is the plugin's alone. *)
LEMMA BilledStays ==
    ASSUME NEW s, Slot = {s}, TypeOK, TypeOK', RunInv(s), [Next]_vars, grants' = grants,
           NEW k \in Nat, NEW usd \in Nat, BilledNow(k, usd)
    PROVE  Billed(k, usd, started', Said', spent')
<1>1. /\ now \in Nat /\ now' \in Nat /\ spent \in Nat /\ spent' \in Nat
      /\ started \in BOOLEAN /\ started' \in BOOLEAN /\ grants \in Nat
  BY MeterAssumption DEF TypeOK
<1>2. WindowRuns' /\ (Used \/ Waited \/ EndedOnTime \/ EndedEarly)
  BY UpstreamSteps
<1>3. PICK said \in Nat, said2 \in Nat : said = Said /\ said2 = Said' /\ now' < said2
  <2>1. (TypeOK /\ WindowRuns => Said \in Nat /\ now < Said)'
    BY SaidAhead, PTL
  <2> QED
    BY <1>2, <2>1, SaidTyped, Zenon
<1>4. usd > 0 => k < said \/ (started /\ said = k /\ usd <= spent)
  BY <1>3 DEF BilledNow, Billed
<1>5. CASE Used
  <2>1. said2 = said /\ spent <= spent' /\ (started => started')
    BY <1>3, <1>5 DEF Used
  <2>2. usd > 0 => k < said2 \/ (started' /\ said2 = k /\ usd <= spent')
    BY <1>1, <1>4, <2>1
  <2> QED
    BY <1>3, <2>2 DEF Billed
<1>6. CASE Waited
  <2>1. /\ spent' = spent /\ started' = started /\ (started => said2 = said)
        /\ now' = now + 1
    BY <1>3, <1>6 DEF Waited
  <2>2. ~started => said <= said2
    <3>1. ASSUME ~started PROVE said = now + Period /\ said2 = now' + Period
      BY <1>3, <2>1, <3>1 DEF Said
    <3> QED
      BY <1>1, <2>1, <3>1, MeterAssumption
  <2>3. usd > 0 => k < said2 \/ (started' /\ said2 = k /\ usd <= spent')
    BY <1>4, <2>1, <2>2
  <2> QED
    BY <1>3, <2>3 DEF Billed
<1>7. CASE EndedOnTime
  <2>1. said <= now'
    BY <1>3, <1>7 DEF EndedOnTime
  <2>2. usd > 0 => k < said2
    BY <1>1, <1>3, <1>4, <2>1
  <2> QED
    BY <1>3, <2>2 DEF Billed
<1>8. CASE EndedEarly
  BY <1>1, <1>8 DEF EndedEarly
<1> QED
  BY <1>2, <1>5, <1>6, <1>7, <1>8

LEMMA AloneStays ==
    ASSUME NEW s, Slot = {s}, TypeOK, RunInv(s), [Next]_vars, Alone'
    PROVE  /\ Alone /\ grants' = grants /\ ~Grant /\ ~External
           /\ ~HandleUsageBlind(s)
<1>1. grants \in Nat /\ externals \in Nat
  BY MeterAssumption DEF TypeOK
<1>2. ~External /\ ~Grant /\ ~HandleUsageBlind(s)
  BY <1>1 DEF External, Grant, HandleUsageBlind, Ends, Alone
<1>3. Used \/ Waited \/ EndedOnTime \/ EndedEarly
  BY UpstreamSteps
<1>4. grants' = grants
  BY <1>1, <1>3 DEF Used, Waited, EndedOnTime, EndedEarly, Alone
<1>5. externals' = externals
  <2>1. ASSUME NEW j \in Slot,
               Respond(j) \/ Charge(j) \/ HandleUsage(j) \/ Look(j) \/ ObserveReading(j)
        PROVE  externals' = externals
    BY <2>1 DEF Respond, Charge, HandleUsage, Look, ObserveReading
  <2>2. CASE Tick \/ Flush \/ Crash \/ UNCHANGED vars
    BY <2>2 DEF Tick, Flush, Crash, vars
  <2> QED
    BY <1>2, <2>1, <2>2 DEF Next
<1> QED
  BY <1>2, <1>4, <1>5 DEF Alone

LEMMA CostedStep ==
    ASSUME NEW s, Slot = {s}, TypeOK, TypeOK', [Next]_vars, ReportsReset, RunInv(s),
           Sound(ledger), Sound(saved), PendingInv, Alone', Costed(s)
    PROVE  Costed(s)'
<1> DEFINE L == ledger
           j == slot[s]
           r == slot[s].reading
           N == Advance(L, r)
<1>1. /\ r \in Reading /\ L \in Ledger /\ saved \in Ledger /\ N \in Ledger
      /\ L.key \in Nat /\ L.usd \in Nat /\ L.pending \in Nat
      /\ saved.key \in Nat /\ saved.usd \in Nat /\ r.reset \in Nat /\ r.percent \in Nat
      /\ N.usd \in Nat /\ N.pending \in Nat /\ j.cost \in Nat /\ j.window \in Nat
      /\ N.unbilled \in Nat /\ L.unbilled \in Nat
  <2>1. r \in Reading /\ L \in Ledger /\ saved \in Ledger /\ j.cost \in Nat /\ j.window \in Nat
    BY DEF TypeOK, Job
  <2>2. N \in Ledger
    BY <2>1, AdvanceTyped
  <2> HIDE DEF L, r, N, j
  <2>3. /\ L.usd \in Nat /\ L.pending \in Nat /\ saved.usd \in Nat
        /\ N.usd \in Nat /\ N.pending \in Nat
        /\ N.unbilled \in Nat /\ L.unbilled \in Nat
    BY <2>1, <2>2 DEF Ledger
  <2> QED
    BY <2>1, <2>2, <2>3, LedgerTakes, ReadingTakes
<1>2. PICK on, said, sp, c, on2, said2, sp2, c2 :
         /\ on = started /\ said = Said /\ sp = spent /\ c = crashes
         /\ on2 = started' /\ said2 = Said' /\ sp2 = spent' /\ c2 = crashes'
  OBVIOUS
<1>3. /\ on \in BOOLEAN /\ on2 \in BOOLEAN /\ sp \in Nat /\ sp2 \in Nat
      /\ c \in Nat /\ c2 \in Nat /\ said \in Nat /\ said > 0 /\ (~on => sp = 0)
      /\ said2 \in Nat /\ now' < said2
  <2>1. /\ on \in BOOLEAN /\ on2 \in BOOLEAN /\ sp \in Nat /\ sp2 \in Nat
        /\ c \in Nat /\ c2 \in Nat /\ now \in Nat
    BY <1>2, MeterAssumption DEF TypeOK
  <2>2. WindowRuns
    BY DEF RunInv
  <2>3. said \in Nat /\ said > 0
    BY <1>2, <2>1, <2>2, SaidAhead
  <2>4. WindowRuns'
    BY UpstreamSteps
  <2>5. (TypeOK /\ WindowRuns => Said \in Nat /\ now < Said)'
    BY SaidAhead, PTL
  <2>6. said2 \in Nat /\ now' < said2
    BY <1>2, <2>4, <2>5
  <2> QED
    BY <1>2, <2>1, <2>2, <2>3, <2>6 DEF WindowRuns
<1>4. Alone /\ grants' = grants /\ ~Grant /\ ~External /\ ~HandleUsageBlind(s)
  BY AloneStays
<1>5. /\ Priced(L, c) /\ Priced(saved, c)
      /\ Billed(L.key, L.usd, on, said, sp) /\ Billed(saved.key, saved.usd, on, said, sp)
      /\ slot[s].pc = "idle" /\ L.covered /\ ~L.resumed /\ on /\ said = L.key
            => sp - L.usd <= Slack(c + 1) + L.unbilled
      /\ slot[s].pc # "idle" =>
            /\ r.reset > 0
            /\ Priced(N, c)
            /\ slot[s].pc # "charged" => j.cost = 0
            /\ on => /\ said = r.reset /\ N.usd + j.cost <= sp
                     /\ slot[s].pc # "looked" => j.window = resets
                     /\ N.covered => sp - (N.usd + j.cost) <= Slack(c + 1) + N.unbilled
            /\ ~on /\ (slot[s].pc # "looked" \/ N.usd > 0) => r.reset < said
  BY <1>2 DEF Costed, PricedAtRest, PricedInFlight, BilledNow
<1>6. ASSUME Priced(ledger', c2), Priced(saved', c2),
             Billed(ledger'.key, ledger'.usd, on2, said2, sp2),
             Billed(saved'.key, saved'.usd, on2, said2, sp2),
             slot'[s].pc = "idle",
             ledger'.covered /\ ~ledger'.resumed /\ on2 /\ said2 = ledger'.key
                => sp2 - ledger'.usd <= Slack(c2 + 1) + ledger'.unbilled
      PROVE  Costed(s)'
  BY <1>2, <1>6 DEF Costed, PricedAtRest, PricedInFlight, BilledNow, Priced
<1>7. ASSUME Priced(ledger', c2), Priced(saved', c2),
             Billed(ledger'.key, ledger'.usd, on2, said2, sp2),
             Billed(saved'.key, saved'.usd, on2, said2, sp2),
             NEW pc, slot'[s].pc = pc, pc # "idle",
             NEW r2, slot'[s].reading = r2, NEW cost, slot'[s].cost = cost,
             NEW N2, N2 = Advance(ledger', r2),
             r2.reset > 0, Priced(N2, c2), pc # "charged" => cost = 0,
             on2 => /\ said2 = r2.reset /\ N2.usd + cost <= sp2
                    /\ pc # "looked" => slot'[s].window = resets'
                    /\ N2.covered => sp2 - (N2.usd + cost) <= Slack(c2 + 1) + N2.unbilled,
             ~on2 /\ (pc # "looked" \/ N2.usd > 0) => r2.reset < said2
      PROVE  Costed(s)'
  <2> DEFINE M == Advance(ledger', slot'[s].reading)
             u == M.usd + slot'[s].cost
  <2>1. Costed(s)' <=>
          /\ Priced(ledger', crashes') /\ Priced(saved', crashes')
          /\ Billed(ledger'.key, ledger'.usd, started', Said', spent')
          /\ Billed(saved'.key, saved'.usd, started', Said', spent')
          /\ slot'[s].pc = "idle" => PricedAtRest'
          /\ slot'[s].pc # "idle" =>
                /\ slot'[s].reading.reset > 0
                /\ Priced(M, crashes')
                /\ slot'[s].pc # "charged" => slot'[s].cost = 0
                /\ started' =>
                       /\ Said' = slot'[s].reading.reset /\ u <= spent'
                       /\ slot'[s].pc # "looked" => slot'[s].window = resets'
                       /\ M.covered => spent' - u <= Slack(crashes' + 1) + M.unbilled
                /\ ~started' /\ (slot'[s].pc # "looked" \/ M.usd > 0)
                       => slot'[s].reading.reset < Said'
    BY DEF Costed, PricedInFlight, BilledNow, Priced
  <2> QED
    BY <1>2, <1>7, <2>1
<1>8. /\ ledger' = ledger => Billed(ledger'.key, ledger'.usd, on2, said2, sp2)
      /\ Billed(saved.key, saved.usd, on2, said2, sp2)
  <2>1. ASSUME NEW k \in Nat, NEW usd \in Nat, Billed(k, usd, on, said, sp)
        PROVE  Billed(k, usd, on2, said2, sp2)
    BY <1>2, <1>4, <2>1, BilledStays DEF BilledNow
  <2> QED
    BY <1>1, <1>5, <2>1
<1>9. L.pending <= L.usd
  BY DEF PendingInv, PendingInCycle
<1>10. ASSUME slot[s].pc = "idle", NEW r2 \in Reading, slot'[s].reading = r2,
              r2.reset = said, r2.percent = sp \div Step, slot'[s].cost = 0,
              said2 = said, sp2 = sp, c2 = c, UNCHANGED <<ledger, saved>>,
              \/ slot'[s].pc = "looked" /\ on2 = on
              \/ slot'[s].pc = "answered" /\ on2 = TRUE /\ slot'[s].window = resets'
       PROVE  Costed(s)'
  <2> DEFINE N2 == Advance(L, r2)
  <2>1. /\ N2.usd <= sp /\ Priced(N2, c)
        /\ N2.covered => sp - N2.usd <= Slack(c + 1) + N2.unbilled
    BY <1>1, <1>3, <1>5, <1>9, <1>10, ReadingPriced
  <2>2. N2 \in Ledger /\ N2.usd \in Nat
    BY <1>1, <1>10, AdvanceTyped DEF Ledger
  <2> HIDE DEF N2
  <2>3. N2.usd + 0 = N2.usd
    BY <2>2
  <2>4. ~on2 => N2.usd = 0 /\ slot'[s].pc = "looked"
    BY <1>3, <1>10, <2>1, <2>2
  <2>5. N2 = Advance(ledger', r2) /\ r2.reset > 0 /\ slot'[s].pc # "idle"
    BY <1>3, <1>10 DEF N2
  <2>6. ~(N2.usd > 0) \/ on2
    BY <2>2, <2>4
  <2>7. /\ Priced(ledger', c2) /\ Priced(saved', c2)
        /\ Billed(ledger'.key, ledger'.usd, on2, said2, sp2)
        /\ Billed(saved'.key, saved'.usd, on2, said2, sp2)
    BY <1>5, <1>8, <1>10
  <2>8. /\ Priced(N2, c2)
        /\ N2.covered => sp2 - (N2.usd + 0) <= Slack(c2 + 1) + N2.unbilled
        /\ said2 = r2.reset /\ N2.usd + 0 <= sp2
    BY <1>10, <2>1, <2>3
  <2>9. slot'[s].pc # "looked" => slot'[s].window = resets'
    BY <1>10
  <2> QED
    BY <1>7, <1>10, <2>4, <2>5, <2>6, <2>7, <2>8, <2>9
<1>11. CASE Respond(s)
  <2>1. said2 = said /\ sp2 = sp /\ c2 = c /\ on2 = TRUE /\ resets' = resets
    BY <1>2, <1>11, RespondEffect DEF Said
  <2> QED
    BY <1>2, <1>10, <1>11, <2>1, RespondEffect
<1>12. CASE Look(s)
  <2>1. said2 = said /\ sp2 = sp /\ c2 = c /\ on2 = on
    BY <1>2, <1>12, LookEffect DEF Said, upstream
  <2> QED
    BY <1>2, <1>10, <1>12, <2>1, LookEffect
<1>13. CASE Charge(s)
  <2>1. PICK cost \in Nat : cost = slot'[s].cost
    BY <1>13, ChargeEffect
  <2>2. /\ slot[s].pc = "answered" /\ slot'[s].pc = "charged"
        /\ slot'[s].window = j.window /\ slot'[s].reading = r
        /\ ledger' = ledger /\ saved' = saved /\ resets' = resets
        /\ on2 = on /\ said2 = said /\ c2 = c
        /\ j.window = resets => sp2 = sp + cost
        /\ j.window # resets => sp2 = sp
    BY <1>2, <1>13, <2>1, ChargeEffect DEF Said
  <2>3. r.reset > 0 /\ Priced(N, c) /\ j.cost = 0 /\ (~on => r.reset < said)
        /\ (on => said = r.reset /\ N.usd + 0 <= sp /\ j.window = resets
                  /\ (N.covered => sp - (N.usd + 0) <= Slack(c + 1) + N.unbilled))
    BY <1>5, <2>2
  <2>4. on2 => /\ said2 = r.reset /\ N.usd + cost <= sp2
               /\ slot'[s].window = resets'
               /\ N.covered => sp2 - (N.usd + cost) <= Slack(c2 + 1) + N.unbilled
    <3> SUFFICES ASSUME on2
                 PROVE  /\ said2 = r.reset /\ N.usd + cost <= sp2
                        /\ slot'[s].window = resets'
                        /\ N.covered =>
                              sp2 - (N.usd + cost) <= Slack(c2 + 1) + N.unbilled
      OBVIOUS
    <3>1. sp2 = sp + cost /\ on
      BY <2>2, <2>3
    <3> HIDE DEF N
    <3>2. N.usd <= sp /\ (N.covered => sp - N.usd <= Slack(c + 1) + N.unbilled)
      BY <1>1, <2>3, <3>1
    <3>3. N.usd + cost <= sp2 /\ sp2 - (N.usd + cost) = sp - N.usd
      BY <1>1, <1>3, <2>1, <3>1, <3>2
    <3> QED
      BY <2>2, <2>3, <3>1, <3>2, <3>3
  <2>5. /\ Priced(ledger', c2) /\ Priced(saved', c2)
        /\ Billed(ledger'.key, ledger'.usd, on2, said2, sp2)
        /\ Billed(saved'.key, saved'.usd, on2, said2, sp2)
    BY <1>5, <1>8, <2>2
  <2> QED
    BY <1>7, <2>1, <2>2, <2>3, <2>4, <2>5
<1>14. ASSUME slot[s].pc # "idle", slot'[s].pc = "idle", saved' = saved, c2 = c,
              UNCHANGED <<now, upstream>>,
              NEW billed \in Nat, NEW unbilled \in Nat, billed + unbilled = j.cost,
              ledger'.key = r.reset, ledger'.percent = N.percent,
              ledger'.covered = N.covered, ledger'.resumed = N.resumed,
              ledger'.usd = N.usd + billed, ledger'.pending = N.pending + billed,
              ledger'.unbilled = N.unbilled + unbilled,
              slot[s].pc = "looked" => j.cost = 0
       PROVE  Costed(s)'
  <2>1. on2 = on /\ said2 = said /\ sp2 = sp
    BY <1>2, <1>14 DEF Said, upstream
  <2> HIDE DEF N
  <2>2. Priced(ledger', c2)
    <3>1. PICK w \in Int, v \in Nat, a \in Nat, b \in Nat :
             /\ w = N.percent * Step - (N.usd - N.pending) /\ v = N.unbilled
             /\ a = Slack(c) /\ b = Slack(c + 1)
      <4>1. N.percent * Step - (N.usd - N.pending) \in Int
        <5>1. N.percent \in Nat /\ Step \in Nat
          BY <1>1, MeterAssumption DEF Ledger
        <5>2. N.percent * Step \in Nat
          BY <5>1
        <5> QED
          BY <1>1, <5>2
      <4> QED
        BY <1>1, <1>3, <4>1, SlackBounds
    <3>2. /\ ledger'.usd - ledger'.pending = N.usd - N.pending
          /\ ledger'.percent * Step - (ledger'.usd - ledger'.pending) = w
          /\ ledger'.unbilled = v + unbilled
      BY <1>1, <1>14, <3>1
    <3>3. N.covered =>
             /\ w <= (IF N.resumed THEN a ELSE b) + v
             /\ N.percent > 0 => N.usd - N.pending < (N.percent + 1) * Step
      BY <1>5, <1>14, <3>1 DEF Priced
    <3>4. N.covered => w <= (IF N.resumed THEN a ELSE b) + (v + unbilled)
      BY <1>14, <3>1, <3>3
    <3> QED
      BY <1>14, <3>1, <3>2, <3>3, <3>4 DEF Priced
  <2>3. Billed(ledger'.key, ledger'.usd, on2, said2, sp2)
    <3>1. CASE on
      <4>1. said = r.reset /\ N.usd + billed <= sp
        BY <1>1, <1>3, <1>5, <1>14, <3>1
      <4> QED
        BY <1>14, <2>1, <3>1, <4>1 DEF Billed
    <3>2. CASE ~on
      <4>1. N.usd + billed > 0 => slot[s].pc # "looked" \/ N.usd > 0
        BY <1>1, <1>14
      <4> QED
        BY <1>5, <1>14, <2>1, <3>2, <4>1 DEF Billed
    <3> QED
      BY <3>1, <3>2
  <2>4. ledger'.covered /\ ~ledger'.resumed /\ on2 /\ said2 = ledger'.key
           => sp2 - ledger'.usd <= Slack(c2 + 1) + ledger'.unbilled
    <3>1. PICK b \in Nat, v \in Nat : b = Slack(c + 1) /\ v = N.unbilled
      BY <1>1, <1>3, SlackBounds
    <3>2. N.covered /\ on => sp - (N.usd + (billed + unbilled)) <= b + v
      BY <1>5, <1>14, <3>1
    <3>3. N.covered /\ on => sp - (N.usd + billed) <= b + (v + unbilled)
      BY <1>1, <1>3, <1>14, <3>2
    <3> QED
      BY <1>14, <2>1, <3>1, <3>3
  <2>5. Priced(saved', c2) /\ Billed(saved'.key, saved'.usd, on2, said2, sp2)
    BY <1>5, <1>8, <1>14
  <2> QED
    BY <1>6, <1>14, <2>2, <2>3, <2>4, <2>5
<1>15. r.reset > 0 => N.key = r.reset
  BY <1>1, ReadingOfLedger
<1>16. CASE HandleUsage(s)
  <2>1. r.reset > 0 /\ slot[s].pc = "charged"
    BY <1>5, <1>16, HandleUsageEffect
  <2> HIDE DEF N
  <2>2. /\ slot'[s].pc = "idle" /\ saved' = saved /\ UNCHANGED <<now, upstream>>
        /\ ledger'.key = N.key /\ ledger'.percent = N.percent
        /\ ledger'.covered = N.covered /\ ledger'.resumed = N.resumed
        /\ \/ /\ ledger'.usd = N.usd + j.cost /\ ledger'.pending = N.pending + j.cost
              /\ ledger'.unbilled = N.unbilled
           \/ /\ ledger'.usd = N.usd /\ ledger'.pending = N.pending
              /\ ledger'.unbilled = N.unbilled + j.cost
        /\ crashes' = crashes
    BY <1>16, HandleUsageEffect DEF N
  <2>3. PICK billed \in Nat, unbilled \in Nat :
           /\ billed + unbilled = j.cost
           /\ ledger'.usd = N.usd + billed /\ ledger'.pending = N.pending + billed
           /\ ledger'.unbilled = N.unbilled + unbilled
    <3>1. /\ 0 + j.cost = j.cost /\ j.cost + 0 = j.cost /\ N.usd + 0 = N.usd
          /\ N.pending + 0 = N.pending /\ N.unbilled + 0 = N.unbilled
      BY <1>1
    <3> QED
      BY <1>1, <2>2, <3>1
  <2> QED
    BY <1>1, <1>2, <1>14, <1>15, <2>1, <2>2, <2>3
<1>17. CASE ObserveReading(s)
  <2>1. r.reset > 0 /\ slot[s].pc = "looked" /\ j.cost = 0
    BY <1>5, <1>17, ObserveReadingEffect
  <2>2. /\ slot'[s].pc = "idle" /\ saved' = saved /\ UNCHANGED <<now, upstream>>
        /\ ledger' = N /\ crashes' = crashes
    BY <1>17, ObserveReadingEffect
  <2> HIDE DEF N
  <2>3. /\ N.usd + 0 = N.usd /\ N.pending + 0 = N.pending
        /\ N.unbilled + 0 = N.unbilled /\ 0 + 0 = 0
    BY <1>1
  <2> QED
    BY <1>2, <1>14, <1>15, <2>1, <2>2, <2>3
<1>18. CASE Tick \/ UNCHANGED vars
  <2>1. UNCHANGED <<ledger, saved, slot, crashes, externals>> /\ c2 = c
    BY <1>2, <1>18 DEF Tick, vars
  <2>2. \/ on2 = on /\ sp2 = sp /\ (on => said2 = said) /\ said <= said2 /\ resets' = resets
        \/ ~on2 /\ (on => said < said2) /\ on
    <3>1. CASE UNCHANGED vars
      <4>1. on2 = on /\ sp2 = sp /\ said2 = said /\ resets' = resets
        BY <1>2, <3>1 DEF vars, Said
      <4> QED
        BY <1>3, <4>1
    <3>2. CASE Tick
      <4>1. now' = now + 1 /\ now \in Nat /\ now' \in Nat
        BY <3>2 DEF Tick, TypeOK
      <4>2. Waited \/ EndedOnTime
        <5>1. WindowRuns' /\ (Used \/ Waited \/ EndedOnTime \/ EndedEarly)
          BY UpstreamSteps
        <5> QED
          BY <4>1, <5>1 DEF Used, EndedEarly
      <4>3. CASE Waited
        <5>1. on2 = on /\ sp2 = sp /\ (on => said2 = said) /\ resets' = resets
          BY <1>2, <4>3 DEF Waited
        <5>2. ~on => said = now + Period /\ said2 = now' + Period
          BY <1>2, <5>1 DEF Said
        <5>3. said <= said2
          BY <1>3, <4>1, <5>1, <5>2, MeterAssumption
        <5> QED
          BY <5>1, <5>3
      <4>4. CASE EndedOnTime
        <5>1. on /\ ~on2 /\ said <= now'
          BY <1>2, <4>4 DEF EndedOnTime
        <5>2. PICK t \in Nat : t = now'
          BY <4>1
        <5>3. said <= t /\ t < said2
          BY <1>3, <5>1, <5>2
        <5>4. said < said2
          BY <1>3, <5>2, <5>3
        <5> QED
          BY <5>1, <5>4
      <4> QED
        BY <4>2, <4>3, <4>4
    <3> QED
      BY <1>18, <3>1, <3>2
  <2>3. /\ Priced(ledger', c2) /\ Priced(saved', c2)
        /\ Billed(ledger'.key, ledger'.usd, on2, said2, sp2)
        /\ Billed(saved'.key, saved'.usd, on2, said2, sp2)
    BY <1>5, <1>8, <2>1
  <2>4. CASE slot[s].pc = "idle"
    <3>1. L.covered /\ ~L.resumed /\ on2 /\ said2 = L.key
             => sp2 - L.usd <= Slack(c2 + 1) + L.unbilled
      BY <1>5, <2>1, <2>2, <2>4
    <3> QED
      BY <1>6, <2>1, <2>3, <2>4, <3>1
  <2>5. CASE slot[s].pc # "idle"
    <3> DEFINE cost == j.cost
               pc == j.pc
    <3>1. /\ r.reset > 0 /\ Priced(N, c2) /\ (pc # "charged" => cost = 0)
      BY <1>5, <2>1, <2>5
    <3>2. on2 => /\ said2 = r.reset /\ N.usd + cost <= sp2
                 /\ pc # "looked" => j.window = resets'
                 /\ N.covered => sp2 - (N.usd + cost) <= Slack(c2 + 1) + N.unbilled
      BY <1>5, <2>1, <2>2, <2>5
    <3>3. ~on2 /\ (pc # "looked" \/ N.usd > 0) => r.reset < said2
      <4> HIDE DEF N
      <4>1. CASE on
        <5>1. said = r.reset
          BY <1>5, <2>5, <4>1
        <5> QED
          BY <2>2, <4>1, <5>1
      <4>2. CASE ~on
        <5>1. pc # "looked" \/ N.usd > 0 => r.reset < said
          BY <1>5, <2>5, <4>2
        <5>2. said <= said2
          BY <2>2, <4>2
        <5> QED
          BY <1>1, <1>3, <5>1, <5>2
      <4> QED
        BY <4>1, <4>2
    <3>4. slot'[s].pc = pc /\ slot'[s].reading = r /\ slot'[s].cost = cost
          /\ slot'[s].window = j.window /\ N = Advance(ledger', r)
      BY <2>1
    <3> HIDE DEF N
    <3> QED
      BY <1>7, <2>1, <2>3, <2>5, <3>1, <3>2, <3>3, <3>4
  <2> QED
    BY <2>4, <2>5
<1>19. CASE Flush
  <2>1. saved' = ledger /\ UNCHANGED <<now, upstream, ledger, slot, crashes>>
    BY <1>19 DEF Flush
  <2>2. on2 = on /\ said2 = said /\ sp2 = sp /\ c2 = c /\ resets' = resets
    BY <1>2, <2>1 DEF Said, upstream
  <2>3. /\ Priced(ledger', c2) /\ Priced(saved', c2)
        /\ Billed(ledger'.key, ledger'.usd, on2, said2, sp2)
        /\ Billed(saved'.key, saved'.usd, on2, said2, sp2)
    BY <1>5, <2>1, <2>2
  <2>4. CASE slot[s].pc = "idle"
    BY <1>5, <1>6, <2>1, <2>2, <2>3, <2>4
  <2>5. CASE slot[s].pc # "idle"
    <3>1. slot'[s].pc = j.pc /\ slot'[s].reading = r /\ slot'[s].cost = j.cost
          /\ slot'[s].window = j.window /\ N = Advance(ledger', r)
      BY <2>1
    <3> HIDE DEF N
    <3> QED
      BY <1>5, <1>7, <2>2, <2>3, <2>5, <3>1
  <2> QED
    BY <2>4, <2>5
<1>20. CASE Crash
  <2>1. /\ slot'[s].pc = "idle" /\ saved' = saved /\ c2 = c + 1
        /\ ledger'.resumed = TRUE /\ ledger'.covered = saved.covered
        /\ ledger'.percent = saved.percent /\ ledger'.key = saved.key
        /\ ledger'.usd = saved.usd /\ ledger'.pending = saved.pending
        /\ ledger'.unbilled = saved.unbilled
    BY <1>2, <1>20, CrashEffect
  <2>2. PICK a \in Nat, b \in Nat, e \in Nat :
           a = Slack(c) /\ b = Slack(c + 1) /\ e = Slack(c + 2) /\ a <= b /\ b <= e
    <3>1. /\ Slack(c) \in Nat /\ Slack(c + 1) \in Nat /\ Step - 1 \in Nat
          /\ Slack(c) + (Step - 1) = Slack(c + 1)
      BY <1>3, SlackBounds
    <3>2. Slack(c + 1 + 1) \in Nat /\ Slack(c + 1) + (Step - 1) = Slack(c + 1 + 1)
      BY <1>3, SlackBounds
    <3>3. c + 1 + 1 = c + 2
      BY <1>3
    <3> QED
      BY <3>1, <3>2, <3>3
  <2> DEFINE x == saved.percent * Step - (saved.usd - saved.pending)
             v == saved.unbilled
  <2>3. x \in Int /\ v \in Nat
    <3>1. /\ saved.percent \in Nat /\ saved.usd \in Nat /\ saved.pending \in Nat
          /\ saved.unbilled \in Nat /\ Step \in Nat
      BY <1>1, MeterAssumption DEF Ledger
    <3>2. saved.percent * Step \in Nat
      BY <3>1
    <3> QED
      BY <3>1, <3>2
  <2>4. saved.covered =>
           /\ x <= Slack(IF saved.resumed THEN c ELSE c + 1) + v
           /\ saved.percent > 0 => saved.usd - saved.pending < (saved.percent + 1) * Step
    BY <1>5 DEF Priced
  <2>5. saved.covered => x <= b + v /\ (saved.resumed => x <= a + v)
    <3>1. CASE saved.resumed
      <4> HIDE DEF x, v
      <4> QED
        BY <2>2, <2>3, <2>4, <3>1
    <3>2. CASE ~saved.resumed
      <4> HIDE DEF x, v
      <4> QED
        BY <2>2, <2>3, <2>4, <3>2
    <3> QED
      BY <3>1, <3>2
  <2>6. Slack(c2) = b /\ Slack(c2 + 1) = e
    <3>1. c2 = c + 1 /\ c2 + 1 = c + 2
      BY <1>3, <2>1
    <3> QED
      BY <2>2, <3>1
  <2>7. Priced(ledger', c2)
    BY <2>1, <2>4, <2>5, <2>6 DEF Priced
  <2>8. Priced(saved', c2)
    <3>1. saved.covered => x <= Slack(IF saved.resumed THEN c2 ELSE c2 + 1) + v
      <4>1. CASE saved.resumed
        <5> HIDE DEF x, v
        <5> QED
          BY <2>5, <2>6, <4>1
      <4>2. CASE ~saved.resumed
        <5> HIDE DEF x, v
        <5> QED
          BY <2>2, <2>3, <2>5, <2>6, <4>2
      <4> QED
        BY <4>1, <4>2
    <3> QED
      BY <2>1, <2>4, <3>1 DEF Priced
  <2>9. /\ Billed(ledger'.key, ledger'.usd, on2, said2, sp2)
        /\ Billed(saved'.key, saved'.usd, on2, said2, sp2)
    BY <1>8, <2>1
  <2> QED
    BY <1>6, <2>1, <2>7, <2>8, <2>9
<1> QED
  BY <1>4, <1>11, <1>12, <1>13, <1>16, <1>17, <1>18, <1>19, <1>20 DEF Next

(* Where upstream names no boundary every reading starts a cycle, and one  *)
(* is covered only while its percentage is nought.                         *)
Uncovered(s) ==
    /\ Nameless(s)
    /\ ledger.covered => ledger.percent = 0
    /\ saved.covered => saved.percent = 0

LEMMA UncoveredStep ==
    ASSUME NEW s, Slot = {s}, TypeOK, [Next]_vars, ~ReportsReset, Uncovered(s)
    PROVE  Uncovered(s)'
<1>1. Nameless(s)'
  BY NamelessStep DEF Uncovered, Nameless
<1> DEFINE r == slot[s].reading
           N == Advance(ledger, r)
<1>2. r \in Reading /\ ledger \in Ledger
  BY DEF TypeOK, Job
<1>3. N.covered => N.percent = 0
  <2>1. Starts(ledger, r)
    BY DEF Uncovered, Nameless, Starts
  <2>2. Rolled(ledger, r).hasLast = FALSE /\ (Rolled(ledger, r).covered <=> r.percent = 0)
    BY <1>2, <2>1, RolledEffect
  <2>3. N.percent = r.percent /\ N.covered = Rolled(ledger, r).covered
    BY <1>2, <2>2, AdvanceEffect
  <2> QED
    BY <2>2, <2>3
<1>4. CASE Respond(s) \/ Charge(s) \/ Look(s)
  BY <1>1, <1>4 DEF Respond, Charge, Look, Uncovered
<1>5. CASE HandleUsage(s)
  BY <1>1, <1>3, <1>5, HandleUsageEffect DEF Uncovered
<1>6. CASE ObserveReading(s)
  BY <1>1, <1>3, <1>6, ObserveReadingEffect DEF Uncovered
<1>7. CASE Crash
  BY <1>1, <1>7, CrashEffect DEF Uncovered
<1>8. CASE Flush
  BY <1>1, <1>8 DEF Flush, Uncovered
<1>9. CASE Aside
  BY <1>1, <1>9, AsideEffect DEF Uncovered
<1>10. CASE HandleUsageBlind(s)
  BY <1>1, <1>10, HandleUsageBlindEffect DEF Uncovered
<1> QED
  BY <1>4, <1>5, <1>6, <1>7, <1>8, <1>9, <1>10 DEF Next, Aside

LEMMA SoundStep ==
    ASSUME NEW s, Slot = {s}, TypeOK, [Next]_vars, Sound(ledger), Sound(saved)
    PROVE  Sound(ledger') /\ Sound(saved')
<1>1. slot[s].reading \in Reading /\ ledger \in Ledger
  BY DEF TypeOK, Job
<1>2. Sound(Advance(ledger, slot[s].reading))
  BY <1>1, SoundAdvance
<1>3. CASE Respond(s) \/ Charge(s) \/ Look(s)
  BY <1>3 DEF Respond, Charge, Look
<1>4. CASE HandleUsage(s)
  BY <1>2, <1>4, HandleUsageEffect DEF Sound
<1>5. CASE ObserveReading(s)
  BY <1>2, <1>5, ObserveReadingEffect
<1>6. CASE Crash
  BY <1>6, CrashEffect DEF Sound
<1>7. CASE Flush
  BY <1>7 DEF Flush
<1>8. CASE Aside
  BY <1>8, AsideEffect
<1>9. CASE HandleUsageBlind(s)
  BY <1>9, HandleUsageBlindEffect
<1> QED
  BY <1>3, <1>4, <1>5, <1>6, <1>7, <1>8, <1>9 DEF Next, Aside

(* The inductive invariant of the two. *)
CostInv(s) ==
    /\ RunInv(s) /\ PendingInv
    /\ Sound(ledger) /\ Sound(saved)
    /\ ReportsReset /\ Alone => Costed(s)
    /\ ~ReportsReset => Uncovered(s)

LEMMA CostStarts == ASSUME NEW s, Slot = {s}, Init PROVE CostInv(s)
<1>1. /\ slot[s].pc = "idle" /\ slot[s].reading.reset = 0
      /\ ledger = Fresh /\ saved = Fresh /\ alarms = 0
  BY DEF Init, Free
<1>2. /\ Fresh.key = 0 /\ Fresh.percent = 0 /\ Fresh.covered = FALSE
      /\ Fresh.pending = 0 /\ Fresh.usd = 0 /\ Fresh.unbilled = 0 /\ Fresh.granted = 0
  BY DEF Fresh
<1>3. RunInv(s)
  BY RunInit
<1>4. PendingInv /\ Sound(ledger) /\ Sound(saved)
  BY <1>1, <1>2 DEF PendingInv, PendingInCycle, Sound
<1>5. Costed(s)
  BY <1>1, <1>2 DEF Costed, Priced, BilledNow, Billed, PricedAtRest
<1>6. ~ReportsReset => Uncovered(s)
  BY <1>1, <1>2 DEF Uncovered, Nameless
<1> QED
  BY <1>3, <1>4, <1>5, <1>6 DEF CostInv

LEMMA CostStep ==
    ASSUME NEW s, Slot = {s}, TypeOK, TypeOK', [Next]_vars, CostInv(s)
    PROVE  CostInv(s)'
<1>1. RunInv(s)'
  BY RunStep DEF CostInv
<1>2. PendingInv'
  BY PendingStep DEF CostInv
<1>3. (Sound(ledger) /\ Sound(saved))'
  <2>1. Sound(ledger') /\ Sound(saved')
    BY SoundStep DEF CostInv
  <2> QED
    BY <2>1 DEF Sound
<1>4. ASSUME ReportsReset, Alone' PROVE Costed(s)'
  <2>1. Alone
    BY <1>4, AloneStays DEF CostInv
  <2> QED
    BY <1>4, <2>1, CostedStep DEF CostInv
<1>5. ASSUME ~ReportsReset PROVE Uncovered(s)'
  BY <1>5, UncoveredStep DEF CostInv
<1> QED
  BY <1>1, <1>2, <1>3, <1>4, <1>5 DEF CostInv

LEMMA CostKept == ASSUME NEW s, Slot = {s} PROVE Spec => []CostInv(s)
<1>1. Init => CostInv(s)
  BY CostStarts
<1>2. TypeOK /\ TypeOK' /\ CostInv(s) /\ [Next]_vars => CostInv(s)'
  BY CostStep
<1> QED
  BY <1>1, <1>2, TypeCorrect, PTL DEF Spec

(* startCycle, "every dollar since then is money this plugin actually saw":*)
(* what upstream charged a covered cycle's window and the ledger has not   *)
(* billed is less than a point, and a point for each restart, beyond what  *)
(* the failed and unpriced requests that the cycle counts have cost: for   *)
(* one request or look at a time, each answered with quota headers, and    *)
(* nobody else on the account.                                             *)
THEOREM CoverageIsEarned ==
    ASSUME NEW s, Slot = {s}
    PROVE  Spec => []CoverageWithinAPoint
<1>1. TypeOK /\ CostInv(s) => CoverageWithinAPoint
  <2> SUFFICES ASSUME TypeOK, CostInv(s), ledger.covered, InStep, Quiet, Alone
               PROVE  Unseen <= (1 + crashes) * (Step - 1) + ledger.unbilled
    BY DEF CoverageWithinAPoint
  <2>1. started /\ ledger.key = reset /\ ~ledger.resumed /\ Said = reset
    BY DEF InStep, Said
  <2>2. slot[s].pc = "idle"
    BY DEF Quiet
  <2>3. ReportsReset
    <3>1. reset > 0
      BY <2>1, MeterAssumption DEF CostInv, RunInv, WindowRuns, TypeOK, Time
    <3> QED
      BY <2>1, <3>1 DEF CostInv, Uncovered, Nameless
  <2>4. spent - ledger.usd <= Slack(crashes + 1) + ledger.unbilled
    BY <2>1, <2>2, <2>3 DEF CostInv, Costed, PricedAtRest
  <2>5. crashes + 1 = 1 + crashes
    BY MeterAssumption DEF TypeOK
  <2> QED
    BY <2>4, <2>5 DEF Unseen, Slack
<1> QED
  BY <1>1, CostKept, TypeCorrect, PTL

(* EstimateWith, "no attribution guesswork": the quota a covered cycle     *)
(* divides by its percentage is right to a point, and a point more for     *)
(* each restart, beyond what the cycle's failed and unpriced requests have *)
(* cost, which it lacks: for one request or look at a time, each answered  *)
(* with quota headers, and nobody else on the account.                     *)
THEOREM QuotaIsRightToAPoint ==
    ASSUME NEW s, Slot = {s}
    PROVE  Spec => []QuotaWithinAPoint
<1>1. TypeOK /\ CostInv(s) => QuotaWithinAPoint
  <2> DEFINE attributed == ledger.usd - ledger.pending
  <2> SUFFICES ASSUME TypeOK, CostInv(s), ledger.covered, ledger.percent > 0,
                      ~ledger.resumed, Alone
               PROVE  /\ (ledger.percent - 1 - crashes) * Step < attributed + ledger.unbilled
                      /\ attributed < (ledger.percent + 1) * Step
    BY DEF QuotaWithinAPoint
  <2>1. /\ ledger.percent \in Nat /\ attributed \in Int /\ crashes \in Nat
        /\ ledger.unbilled \in Nat
        /\ Step \in Nat /\ Step > 0
    BY MeterAssumption DEF TypeOK, Ledger
  <2>2. ReportsReset
    BY <2>1 DEF CostInv, Uncovered
  <2>3. Priced(ledger, crashes)
    BY <2>2 DEF CostInv, Costed
  <2>4. /\ ledger.percent * Step - attributed
              <= (crashes + 1) * (Step - 1) + ledger.unbilled
        /\ attributed < (ledger.percent + 1) * Step
    BY <2>3 DEF Priced, Slack
  <2> HIDE DEF attributed
  <2>5. PICK w \in Nat, n \in Nat, d \in Nat :
           w = ledger.percent * Step /\ n = crashes + 1 /\ d = n * Step
    BY <2>1
  <2>6. (crashes + 1) * (Step - 1) = d - n
    BY <2>1, <2>5
  <2>7. (ledger.percent - 1 - crashes) * Step = w - d
    BY <2>1, <2>5
  <2>8. n > 0
    BY <2>1, <2>5
  <2>9. w - d < attributed + ledger.unbilled
    BY <2>1, <2>4, <2>5, <2>6, <2>8
  <2> QED
    BY <2>4, <2>7, <2>9
<1> QED
  BY <1>1, CostKept, TypeCorrect, PTL
=============================================================================
