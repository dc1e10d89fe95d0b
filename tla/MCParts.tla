------------------------------- MODULE MCParts -------------------------------
(***************************************************************************)
(* The small parts of the plugin, checked side by side.  They share no     *)
(* state, so a behaviour is one of the lease, with three generations of    *)
(* the plugin (an original and two hot reloads), or one of another part,   *)
(* the scene, while the state of the parts that are not on stays put.  The *)
(* probes stop where the books have been written over: nothing is claimed  *)
(* of what comes after.                                                    *)
(***************************************************************************)
EXTENDS Lease, Locks, CredentialStore, Pricing, Health, ProbeBudget, Integers, TLC

VARIABLE scene
allVars == <<scene, vars, lockVars, storeVars, priceVars, probeVars, healthVars>>

MCInstance == 1 .. 3

(* One rotator and the panel; the file, its successor and a spare inode.   *)
MCTicker == {"tick"}
MCReader == {"panel"}
MCInode == {1, 2}
MCPriority == {0, -1}

MCGoroutine == {"tick", "request", "flush"}

(* A model the table lists, a dated one and its efforts, and one it lacks. *)
Sol == <<"sol">>
Dated == <<"sol", "0801">>
Luna == <<"luna">>
High(n) == Append(n, "high")
MCName == {Sol, High(Sol), High(Dated), Luna}
MCEffort == {"high"}
MCBuiltin == Sol :> 1
MCOffers == {Sol :> 2, Dated :> 3, Luna :> 4 @@ Sol :> 5, NoPrices}
MCSettings == {NoPrices, Sol :> 6, Dated :> 7, High(Sol) :> 8}

(* Two credentials, two models, and health kept for one second.            *)
MCCred == {"c1", "c2"}
MCModel == {"m1", "m2"}

(* One credential with two windows; the panel refreshes while ticks ask.   *)
MCPanel == {"panel"}
MCPeriod == "short" :> 2 @@ "long" :> 3
MCWindow == DOMAIN MCPeriod

PartsInit ==
    /\ scene \in {"lease", "probes", "store", "locks", "health", "prices"}
    /\ Init /\ LockInit /\ StoreInit /\ PriceInit /\ ProbeInit /\ HealthInit
    /\ scene # "store" => path = 1 /\ ~data[1].disabled /\ data[1].priority = 0
    /\ scene # "health" => disabled = {}
    /\ scene # "prices" => overrides = NoPrices

On(part) ==
    /\ scene = part
    /\ UNCHANGED scene
    /\ part # "lease" => UNCHANGED vars
    /\ part # "probes" => UNCHANGED probeVars
    /\ part # "store" => UNCHANGED storeVars
    /\ part # "locks" => UNCHANGED lockVars
    /\ part # "health" => UNCHANGED healthVars
    /\ part # "prices" => UNCHANGED priceVars

PartsNext ==
    \/ On("lease") /\ Next
    \/ On("locks") /\ LockNext
    \/ On("store") /\ StoreNext
    \/ On("prices") /\ PriceNext
    \/ On("probes") /\ clean /\ ProbeNext
    \/ On("health") /\ HealthNext

PartsFairness ==
    \A i \in Instance :
        /\ WF_allVars(On("lease") /\ LoopStep(i))
        /\ WF_allVars(On("lease") /\ TickEnd(i, "rotate"))

PartsSpec == PartsInit /\ [][PartsNext]_allVars /\ PartsFairness

-----------------------------------------------------------------------------
(* Every part is well typed.                                               *)
PartsTypeOK ==
    TypeOK /\ LockTypeOK /\ StoreTypeOK /\ PriceTypeOK /\ ProbeTypeOK /\ HealthTypeOK
=============================================================================
