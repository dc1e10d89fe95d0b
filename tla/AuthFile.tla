------------------------------ MODULE AuthFile ------------------------------
(***************************************************************************)
(* What the plugin promises of a credential file: it is read, changed in   *)
(* the fields the rotator decides, whether it is disabled and, when it is  *)
(* promoted, its serving priority, and replaced, whole.  A login that      *)
(* comes between the reading and the replacing is undone, and that is all  *)
(* that can happen to the tokens.                                          *)
(***************************************************************************)
EXTENDS Naturals

CONSTANTS Writer, None, Priority

VARIABLES
    file,   \* the document: its token (and all else the rotator does not
            \* decide), whether it is disabled and its serving priority
    held    \* the document each writer has read and not written back

vars == <<file, held>>

Document == [token : Nat, disabled : BOOLEAN, priority : Priority]

Init ==
    /\ file \in [token : {0}, disabled : BOOLEAN, priority : Priority]
    /\ held = [w \in Writer |-> None]

(* The host refreshes the token, or the operator logs in.                  *)
Login ==
    /\ file'.token > file.token
    /\ file' = [file EXCEPT !.token = file'.token]
    /\ UNCHANGED held

Read(w) ==
    /\ held' = [held EXCEPT ![w] = file]
    /\ UNCHANGED file

(* The priority changes only with a credential that is put in service.     *)
Replace(w) ==
    /\ held[w] # None
    /\ \/ \E off \in BOOLEAN : file' = [held[w] EXCEPT !.disabled = off]
       \/ \E p \in Priority :
             file' = [held[w] EXCEPT !.disabled = FALSE, !.priority = p]
    /\ held' = [held EXCEPT ![w] = None]

(* Writers give up, one or all of them.                                    *)
Forget ==
    /\ \E some \in SUBSET Writer :
          held' = [w \in Writer |-> IF w \in some THEN None ELSE held[w]]
    /\ UNCHANGED file

Next ==
    \/ Login \/ Forget
    \/ \E w \in Writer : Read(w) \/ Replace(w)

Spec == Init /\ [][Next]_vars
=============================================================================
