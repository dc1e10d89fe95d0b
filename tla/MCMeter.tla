------------------------------ MODULE MCMeter -------------------------------
(* One window; requests and looks one at a time, or two at once.           *)
EXTENDS Meter

OneSlot == {"s1"}
TwoSlots == {"s1", "s2"}
AnyGrant == {"inPlace", "restart"}
=============================================================================
