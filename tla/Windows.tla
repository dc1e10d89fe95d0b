------------------------------- MODULE Windows -------------------------------
(***************************************************************************)
(* The arithmetic of quota windows (rotator.go: effectiveWindows,          *)
(* probeEpoch).  A reading maps each window it covers to the time the      *)
(* window resets, 0 when upstream did not say; a window's period is zero   *)
(* when its length is not known.                                           *)
(***************************************************************************)
EXTENDS Integers, FiniteSetsExt

(* Has the clock passed a window's reset?                                  *)
Passed(reset, period, now) == reset > 0 /\ now >= reset /\ period > 0

(* The boundary a reset time stands for now: rolled forward "by whole      *)
(* periods" if the clock has passed it.                                    *)
Effective(reset, period, now) ==
    IF Passed(reset, period, now)
    THEN reset + ((now - reset) \div period + 1) * period
    ELSE reset

EffectiveWindows(win, period, now) ==
    [w \in DOMAIN win |-> Effective(win[w], period[w], now)]

(* The boundaries the clock has passed; the reading is "rolled" if any.    *)
Boundaries(win, period, now) ==
    {win[w] : w \in {v \in DOMAIN win : Passed(win[v], period[v], now)}}

(* probeEpoch: the soonest reset, or else the hour.                        *)
ProbeEpoch(win, now, hour) ==
    LET resets == {win[w] : w \in DOMAIN win} \ {0} IN
    IF resets = {} THEN now - (now % hour) ELSE Min(resets)
=============================================================================
