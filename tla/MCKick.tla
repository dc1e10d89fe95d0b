------------------------------- MODULE MCKick -------------------------------
(* One credential; the loop's tick alone or with POST /rotate's beside it, *)
(* and a panel refresh.                                                    *)
EXTENDS Kick

LoopOnly == {"loop"}
LoopAndRotate == {"loop", "rotate"}
OnePanel == {"panel"}
=============================================================================
