------------------------------- MODULE Lease -------------------------------
(***************************************************************************)
(* The lease that decides which instance of the plugin may write           *)
(* credentials (rotator.go: rotatorLease, claimLease, holdsLease, loop and *)
(* the head of tick).                                                      *)
(*                                                                         *)
(* A hot reload starts a new instance and leaves the old one running.  An  *)
(* instance is represented by its startedAt stamp: a larger number is a    *)
(* newer instance.  The lease file holds the stamp of the instance that    *)
(* wrote it last; 0 stands for a file that is missing or unreadable.       *)
(*                                                                         *)
(* Claiming reads the file and then writes it, in two steps.  A tick       *)
(* consults the lease once, at its beginning, and may go on writing        *)
(* credentials until it ends.                                              *)
(***************************************************************************)
EXTENDS Integers

CONSTANT
    Instance        \* startedAt stamps, in the order the instances load

ASSUME StampAssumption == Instance \subseteq Nat \ {0}

NoLease == 0

\* The two callers of tick: the instance's own loop, and POST /rotate.
Caller == {"loop", "rotate"}

VARIABLES
    lease,      \* stamp in rotator.lease, or NoLease
    loop,       \* where each instance's loop goroutine is
    tick,       \* tick[i][t]: is a tick of i called by t past the lease check?
    standDown,  \* rotator.standDown
    orderly     \* history: no load has overlapped a claim, no claim has
                \* failed, and the file has stayed

vars == <<lease, loop, tick, standDown, orderly>>

LoopState == {"absent", "starting", "claiming", "settling", "ticking", "gone"}
TickState == {"none", "acting"}

TypeOK ==
    /\ lease \in Instance \cup {NoLease}
    /\ loop \in [Instance -> LoopState]
    /\ tick \in [Instance -> [Caller -> TickState]]
    /\ standDown \in [Instance -> BOOLEAN]
    /\ orderly \in BOOLEAN

Running(i) == loop[i] \notin {"absent", "gone"}
Unclaimed(i) == loop[i] \in {"starting", "claiming"}
Claimed(i) == loop[i] \in {"settling", "ticking"}
Newest(i) == \A j \in Instance : Running(j) => j <= i
Acting(i) == \E t \in Caller : tick[i][t] = "acting"

Init ==
    /\ lease = NoLease
    /\ loop = [i \in Instance |-> "absent"]
    /\ tick = [i \in Instance |-> [t \in Caller |-> "none"]]
    /\ standDown = [i \in Instance |-> FALSE]
    /\ orderly = TRUE

(* newRotator stamps the instance, App.start launches its loop. *)
Load(i) ==
    /\ loop[i] = "absent"
    /\ \A j \in Instance : j < i => loop[j] # "absent"
    /\ loop' = [loop EXCEPT ![i] = "starting"]
    /\ orderly' = (orderly /\ \A j \in Instance : ~Unclaimed(j))
    /\ UNCHANGED <<lease, tick, standDown>>

\* Mutant: a lease that exists is taken to be current, so it is never renewed.
ClaimReadSkips(i) ==
    /\ loop[i] = "starting"
    /\ loop' = [loop EXCEPT ![i] = IF lease # NoLease THEN "settling" ELSE "claiming"]
    /\ UNCHANGED <<lease, tick, standDown, orderly>>

(* claimLease, first half: a lease held by a newer instance is left alone. *)
ClaimRead(i) ==
    /\ loop[i] = "starting"
    /\ loop' = [loop EXCEPT ![i] = IF lease > i THEN "settling" ELSE "claiming"]
    /\ UNCHANGED <<lease, tick, standDown, orderly>>

\* Mutant: the lease is stamped with the time of writing, not with startedAt.
ClaimWriteNow(i) ==
    /\ loop[i] = "claiming"
    /\ \E later \in 1 .. 2 : lease' = i + later
    /\ loop' = [loop EXCEPT ![i] = "settling"]
    /\ UNCHANGED <<tick, standDown, orderly>>

(* claimLease, second half: whatever is in the file by now is replaced. *)
ClaimWrite(i) ==
    /\ loop[i] = "claiming"
    /\ lease' = i
    /\ loop' = [loop EXCEPT ![i] = "settling"]
    /\ UNCHANGED <<tick, standDown, orderly>>

(* claimLease when writeFileAtomic fails: the loop goes on all the same. *)
ClaimFail(i) ==
    /\ loop[i] = "claiming"
    /\ loop' = [loop EXCEPT ![i] = "settling"]
    /\ orderly' = FALSE
    /\ UNCHANGED <<lease, tick, standDown>>

(* loop: the 20 second sleep before the first tick. *)
Settled(i) ==
    /\ loop[i] = "settling"
    /\ loop' = [loop EXCEPT ![i] = "ticking"]
    /\ UNCHANGED <<lease, tick, standDown, orderly>>

\* Mutant: our own stamp compares as held by someone else (the tie newRotator fears).
HoldsLeaseTie(i) == lease = NoLease \/ lease < i

\* Mutant: stamps compared at a coarser resolution than they were taken.
HoldsLeaseCoarse(i) == lease \div 2 <= i \div 2

(* holdsLease: only another instance with a newer stamp outranks this one. *)
HoldsLease(i) == lease = NoLease \/ lease = i \/ lease < i

(* The host sends management requests to the newest instance only. *)
MayCall(i, t) ==
    \/ t = "loop" /\ loop[i] = "ticking"
    \/ t = "rotate" /\ Running(i) /\ Newest(i)

(* The head of tick: stand down for good, or go on to act. *)
TickBegin(i, t) ==
    /\ MayCall(i, t)
    /\ tick[i][t] = "none"
    /\ ~standDown[i]
    /\ IF HoldsLease(i)
       THEN /\ tick' = [tick EXCEPT ![i][t] = "acting"]
            /\ UNCHANGED standDown
       ELSE /\ standDown' = [standDown EXCEPT ![i] = TRUE]
            /\ UNCHANGED tick
    /\ UNCHANGED <<lease, loop, orderly>>

TickEnd(i, t) ==
    /\ tick[i][t] = "acting"
    /\ tick' = [tick EXCEPT ![i][t] = "none"]
    /\ UNCHANGED <<lease, loop, standDown, orderly>>

(* The proxy process exits: every instance in it stops, the file remains. *)
Restart ==
    /\ \E i \in Instance : Running(i)
    /\ loop' = [i \in Instance |-> IF Running(i) THEN "gone" ELSE loop[i]]
    /\ tick' = [i \in Instance |-> [t \in Caller |-> "none"]]
    /\ UNCHANGED <<lease, standDown, orderly>>

Vanish ==
    /\ lease # NoLease
    /\ lease' = NoLease
    /\ orderly' = FALSE
    /\ UNCHANGED <<loop, tick, standDown>>

Next ==
    \/ \E i \in Instance :
          \/ Load(i)
          \/ ClaimRead(i)
          \/ ClaimWrite(i)
          \/ ClaimFail(i)
          \/ Settled(i)
          \/ \E t \in Caller : TickBegin(i, t) \/ TickEnd(i, t)
    \/ Restart
    \/ Vanish

Spec == Init /\ [][Next]_vars

(***************************************************************************)
(* The goroutine of a running instance keeps being scheduled, its ticker   *)
(* keeps firing and a tick returns: every wait inside one has a timeout.   *)
(* The goroutine does one thing at a time, so it is one fair process.      *)
(* Nothing obliges anybody to load, press rotate or restart.               *)
(***************************************************************************)
LoopStep(i) ==
    \/ ClaimRead(i) \/ ClaimWrite(i) \/ ClaimFail(i) \/ Settled(i)
    \/ TickBegin(i, "loop") \/ TickEnd(i, "loop")

Fairness ==
    \A i \in Instance : WF_vars(LoopStep(i)) /\ WF_vars(TickEnd(i, "rotate"))

FairSpec == Spec /\ Fairness

-----------------------------------------------------------------------------
(* An instance gives up the wheel for good only when a newer one has been  *)
(* through its claim: in particular the newest instance never stands down, *)
(* whatever happens to the lease file, so a hot reload cannot leave the    *)
(* pool with no rotator (the tie the comment in newRotator is about).      *)
StandDownJustified ==
    \A i \in Instance : standDown[i] =>
        \E j \in Instance : j > i /\ loop[j] \in {"settling", "ticking", "gone"}

(* Once a newer instance has claimed, no older one begins a tick that gets *)
(* past the lease check, as long as the lease has never been lost or moved *)
(* back to an older stamp: overlapping claims, one that fails and a file   *)
(* that vanishes do that.                                                  *)
NoActAfterHandover ==
    [][\A i, j \in Instance : \A t \in Caller :
          (orderly /\ i < j /\ Claimed(j) /\ tick[i][t] = "none") => tick'[i][t] = "none"]_vars

(* "the newest instance takes a lease and the others stand down": an older *)
(* instance does stop, unless the process ends first - or claims overlap,  *)
(* after which an old stamp may stay in the file and both rotate for ever. *)
HandoverCompletes ==
    \A i, j \in Instance : i < j =>
        (loop[i] = "ticking" /\ loop[j] = "ticking") ~>
            (standDown[i] \/ loop[i] = "gone" \/ ~orderly)

(* "two rotators writing credentials is the one failure this component     *)
(* must not have": no two instances are past the lease check at once, even *)
(* when loads, claims and the file give no trouble.                        *)
NeverTwoWriters ==
    orderly => \A i, j \in Instance : Acting(i) /\ Acting(j) => i = j
=============================================================================
