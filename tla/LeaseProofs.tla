---------------------------- MODULE LeaseProofs ----------------------------
(***************************************************************************)
(* The safety properties of Lease for every set of instances.              *)
(*                                                                         *)
(* StandDownJustified holds with overlapping loads, failed claims and a    *)
(* vanishing lease file.  NoActAfterHandover needs claims that do not      *)
(* overlap and a file that stays: while that is so (orderly) the lease is  *)
(* never older than any claim (LeaseCurrent), because an instance that has *)
(* not claimed yet is always the newest one loaded (ClaimsInOrder).        *)
(***************************************************************************)
EXTENDS Lease, TLAPS

ClaimedOnce(i) == loop[i] \in {"settling", "ticking", "gone"}

LeaseWasClaimed == lease # NoLease => ClaimedOnce(lease)

JustifiedInv == TypeOK /\ LeaseWasClaimed /\ StandDownJustified

(* A step can put nothing into the lease file, a goroutine or a flag that  *)
(* is not meant to be there.                                               *)
LEMMA TypeStep == TypeOK /\ [Next]_vars => TypeOK'
<1> SUFFICES ASSUME TypeOK, [Next]_vars PROVE TypeOK'
  OBVIOUS
<1> USE DEF TypeOK, LoopState, TickState
<1>1. CASE \E i \in Instance : Load(i) \/ ClaimRead(i) \/ ClaimWrite(i)
                                 \/ ClaimFail(i) \/ Settled(i)
  BY <1>1 DEF Load, ClaimRead, ClaimWrite, ClaimFail, Settled
<1>2. ASSUME NEW i \in Instance, NEW t \in Caller, TickBegin(i, t)
      PROVE  TypeOK'
  <2>1. CASE HoldsLease(i)
    <3>1. tick' = [tick EXCEPT ![i][t] = "acting"] /\ UNCHANGED <<lease, loop, standDown, orderly>>
      BY <1>2, <2>1 DEF TickBegin
    <3> QED
      BY <3>1
  <2>2. CASE ~HoldsLease(i)
    <3>1. standDown' = [standDown EXCEPT ![i] = TRUE] /\ UNCHANGED <<lease, loop, tick, orderly>>
      BY <1>2, <2>2 DEF TickBegin
    <3> QED
      BY <3>1
  <2> QED
    BY <2>1, <2>2
<1>3. ASSUME NEW i \in Instance, NEW t \in Caller, TickEnd(i, t)
      PROVE  TypeOK'
  BY <1>3 DEF TickEnd
<1>4. CASE Restart
  BY <1>4 DEF Restart
<1>5. CASE Vanish
  BY <1>5 DEF Vanish
<1>6. CASE UNCHANGED vars
  BY <1>6 DEF vars
<1> QED
  BY <1>1, <1>2, <1>3, <1>4, <1>5, <1>6 DEF Next

(* Every step of Lease keeps every variable in its type.                   *)
THEOREM TypeCorrect == Spec => []TypeOK
<1>1. Init => TypeOK
  BY DEF Init, TypeOK, LoopState, TickState, NoLease
<1> QED
  BY <1>1, TypeStep, PTL DEF Spec

-----------------------------------------------------------------------------
(* One step keeps JustifiedInv: a lease in the file was put there by an    *)
(* instance that has been through its claim, and claims are never undone,  *)
(* so whoever yields to it yields to such an instance.                     *)
LEMMA JustifiedStep == TypeOK' /\ JustifiedInv /\ [Next]_vars => JustifiedInv'
<1> SUFFICES ASSUME TypeOK', JustifiedInv, [Next]_vars
             PROVE  LeaseWasClaimed' /\ StandDownJustified'
  BY DEF JustifiedInv
<1> USE StampAssumption DEF JustifiedInv, TypeOK, LoopState, TickState,
        LeaseWasClaimed, StandDownJustified, ClaimedOnce, NoLease
<1>1. ASSUME NEW i \in Instance,
             Load(i) \/ ClaimRead(i) \/ ClaimFail(i) \/ Settled(i)
      PROVE  LeaseWasClaimed' /\ StandDownJustified'
  <2>1. lease' = lease /\ standDown' = standDown
    BY <1>1 DEF Load, ClaimRead, ClaimFail, Settled
  <2>2. \A j \in Instance : ClaimedOnce(j) => ClaimedOnce(j)'
    BY <1>1 DEF Load, ClaimRead, ClaimFail, Settled
  <2> QED
    BY <2>1, <2>2
<1>2. ASSUME NEW i \in Instance, ClaimWrite(i)
      PROVE  LeaseWasClaimed' /\ StandDownJustified'
  <2>1. lease' = i /\ standDown' = standDown
    BY <1>2 DEF ClaimWrite
  <2>2. \A j \in Instance : ClaimedOnce(j) \/ j = i => ClaimedOnce(j)'
    BY <1>2 DEF ClaimWrite
  <2> QED
    BY <2>1, <2>2
<1>3. ASSUME NEW i \in Instance, NEW t \in Caller, TickBegin(i, t)
      PROVE  LeaseWasClaimed' /\ StandDownJustified'
  <2>1. lease' = lease /\ loop' = loop
    BY <1>3 DEF TickBegin
  <2>2. CASE HoldsLease(i)
    BY <1>3, <2>1, <2>2 DEF TickBegin
  <2>3. CASE ~HoldsLease(i)
    <3>1. lease \in Instance /\ lease > i
      BY <2>3 DEF HoldsLease
    <3>2. ClaimedOnce(lease)
      BY <3>1
    <3>3. standDown' = [standDown EXCEPT ![i] = TRUE]
      BY <1>3, <2>3 DEF TickBegin
    <3> QED
      BY <2>1, <3>1, <3>2, <3>3
  <2> QED
    BY <2>2, <2>3
<1>4. ASSUME NEW i \in Instance, NEW t \in Caller, TickEnd(i, t)
      PROVE  LeaseWasClaimed' /\ StandDownJustified'
  BY <1>4 DEF TickEnd
<1>5. CASE Restart
  <2>1. lease' = lease /\ standDown' = standDown
    BY <1>5 DEF Restart
  <2>2. \A j \in Instance : ClaimedOnce(j) => ClaimedOnce(j)'
    BY <1>5 DEF Restart, Running
  <2> QED
    BY <2>1, <2>2
<1>6. CASE Vanish
  BY <1>6 DEF Vanish
<1>7. CASE UNCHANGED vars
  BY <1>7 DEF vars
<1> QED
  BY <1>1, <1>2, <1>3, <1>4, <1>5, <1>6, <1>7 DEF Next

(* An instance stands down only for a newer one that has been through its  *)
(* claim, whatever loads, failed writes and lost files come in between.    *)
THEOREM NewestKeepsTheWheel == Spec => []StandDownJustified
<1>1. Init => JustifiedInv
  BY DEF Init, JustifiedInv, TypeOK, LoopState, TickState, NoLease,
         LeaseWasClaimed, StandDownJustified
<1>2. JustifiedInv => StandDownJustified
  BY DEF JustifiedInv
<1> QED
  BY <1>1, <1>2, JustifiedStep, TypeCorrect, PTL DEF Spec

-----------------------------------------------------------------------------
(* What keeping the loads apart buys: the only instance that may still     *)
(* write the lease is the newest loaded, and nothing newer has claimed.    *)
ClaimsInOrder ==
    orderly => \A i, j \in Instance : Unclaimed(i) /\ i < j => loop[j] = "absent"

LeaseCurrent == orderly => \A j \in Instance : Claimed(j) => lease >= j

LoadedInOrder ==
    \A i, j \in Instance : loop[j] # "absent" /\ i < j => loop[i] # "absent"

HandoverInv == TypeOK /\ LoadedInOrder /\ ClaimsInOrder /\ LeaseCurrent

(* One step keeps HandoverInv: a load either finds every claim made, or    *)
(* ends the order; a claim that is written is the newest instance's.       *)
LEMMA HandoverStep == TypeOK' /\ HandoverInv /\ [Next]_vars => HandoverInv'
<1> SUFFICES ASSUME TypeOK', HandoverInv, [Next]_vars
             PROVE  LoadedInOrder' /\ ClaimsInOrder' /\ LeaseCurrent'
  BY DEF HandoverInv
<1> USE StampAssumption DEF HandoverInv, TypeOK, LoopState, TickState,
        LoadedInOrder, ClaimsInOrder, LeaseCurrent, Unclaimed, Claimed, NoLease
<1>1. ASSUME NEW i \in Instance, Load(i)
      PROVE  LoadedInOrder' /\ ClaimsInOrder' /\ LeaseCurrent'
  <2>1. /\ lease' = lease
        /\ loop' = [loop EXCEPT ![i] = "starting"]
        /\ orderly' => orderly /\ \A j \in Instance : ~Unclaimed(j)
        /\ loop[i] = "absent"
        /\ \A j \in Instance : j < i => loop[j] # "absent"
    BY <1>1 DEF Load
  <2>2. \A j \in Instance : i < j => loop[j] = "absent"
    BY <2>1
  <2> QED
    BY <2>1, <2>2
<1>2. ASSUME NEW i \in Instance, ClaimRead(i)
      PROVE  LoadedInOrder' /\ ClaimsInOrder' /\ LeaseCurrent'
  <2>1. lease' = lease /\ orderly' = orderly
    BY <1>2 DEF ClaimRead
  <2>2. CASE lease > i
    BY <1>2, <2>1, <2>2 DEF ClaimRead
  <2>3. CASE ~(lease > i)
    BY <1>2, <2>1, <2>3 DEF ClaimRead
  <2> QED
    BY <2>2, <2>3
<1>3. ASSUME NEW i \in Instance, ClaimWrite(i)
      PROVE  LoadedInOrder' /\ ClaimsInOrder' /\ LeaseCurrent'
  <2>1. /\ lease' = i /\ loop' = [loop EXCEPT ![i] = "settling"]
        /\ loop[i] = "claiming" /\ orderly' = orderly
    BY <1>3 DEF ClaimWrite
  <2>2. orderly => \A j \in Instance : Claimed(j) => j <= i
    BY <2>1
  <2> QED
    BY <2>1, <2>2
<1>4. ASSUME NEW i \in Instance, Settled(i)
      PROVE  LoadedInOrder' /\ ClaimsInOrder' /\ LeaseCurrent'
  BY <1>4 DEF Settled
<1>5. ASSUME NEW i \in Instance, ClaimFail(i)
      PROVE  LoadedInOrder' /\ ClaimsInOrder' /\ LeaseCurrent'
  BY <1>5 DEF ClaimFail
<1>6. ASSUME NEW i \in Instance, NEW t \in Caller,
             TickBegin(i, t) \/ TickEnd(i, t)
      PROVE  LoadedInOrder' /\ ClaimsInOrder' /\ LeaseCurrent'
  <2>1. lease' = lease /\ loop' = loop /\ orderly' = orderly
    BY <1>6 DEF TickBegin, TickEnd
  <2> QED
    BY <2>1
<1>7. CASE Restart
  <2>1. lease' = lease /\ orderly' = orderly
    BY <1>7 DEF Restart
  <2>2. \A j \in Instance : loop'[j] = IF Running(j) THEN "gone" ELSE loop[j]
    BY <1>7 DEF Restart
  <2> QED
    BY <2>1, <2>2 DEF Running
<1>8. CASE Vanish
  BY <1>8 DEF Vanish
<1>9. CASE UNCHANGED vars
  BY <1>9 DEF vars
<1> QED
  BY <1>1, <1>2, <1>3, <1>4, <1>5, <1>6, <1>7, <1>8, <1>9 DEF Next

(* While loads do not overlap, claims are written and the file stays, no   *)
(* older instance begins a tick once a newer one has claimed.              *)
THEOREM HandoverIsFinal == Spec => NoActAfterHandover
<1>1. Init => HandoverInv
  BY DEF Init, HandoverInv, TypeOK, LoopState, TickState, NoLease,
         LoadedInOrder, ClaimsInOrder, LeaseCurrent, Unclaimed, Claimed
<1>2. ASSUME TypeOK, Next, NEW i \in Instance, NEW t \in Caller,
             tick[i][t] = "none", tick'[i][t] # "none"
      PROVE  HoldsLease(i)
  <2> USE DEF TypeOK
  <2>1. ~Restart
    BY <1>2 DEF Restart
  <2>2. ~Vanish
    BY <1>2 DEF Vanish
  <2>3. ASSUME NEW k \in Instance,
               Load(k) \/ ClaimRead(k) \/ ClaimWrite(k) \/ ClaimFail(k) \/ Settled(k)
        PROVE  FALSE
    BY <1>2, <2>3 DEF Load, ClaimRead, ClaimWrite, ClaimFail, Settled
  <2>4. ASSUME NEW k \in Instance, NEW c \in Caller, TickEnd(k, c)
        PROVE  FALSE
    BY <1>2, <2>4 DEF TickEnd
  <2>5. PICK k \in Instance, c \in Caller : TickBegin(k, c)
    BY <1>2, <2>1, <2>2, <2>3, <2>4 DEF Next
  <2> QED
    BY <1>2, <2>5 DEF TickBegin
<1>3. HandoverInv /\ [Next]_vars =>
        [\A i, j \in Instance : \A t \in Caller :
           (orderly /\ i < j /\ Claimed(j) /\ tick[i][t] = "none")
               => tick'[i][t] = "none"]_vars
  <2> SUFFICES ASSUME HandoverInv, Next, orderly,
                      NEW i \in Instance, NEW j \in Instance, NEW t \in Caller,
                      i < j, Claimed(j), tick[i][t] = "none", tick'[i][t] # "none"
               PROVE  FALSE
    BY DEF vars
  <2>1. HoldsLease(i)
    BY <1>2 DEF HandoverInv
  <2>2. lease >= j
    BY DEF HandoverInv, LeaseCurrent
  <2> QED
    BY <2>1, <2>2, StampAssumption DEF HoldsLease, HandoverInv, TypeOK, NoLease
<1> QED
  BY <1>1, <1>3, HandoverStep, TypeCorrect, PTL DEF Spec, NoActAfterHandover
=============================================================================
