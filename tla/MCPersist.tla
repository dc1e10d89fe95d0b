------------------------------ MODULE MCPersist ------------------------------
(* Three instances in turn, and changes 1, 2, 3. *)
EXTENDS Persist

ThreeInstances == {1, 2, 3}
ThreeChanges == {1, 2, 3}
Files == 1 .. 4
=============================================================================
