----------------------------- MODULE MCRefusal -----------------------------
(* One credential serving one model; the panel's refresh is either absent  *)
(* or one worker that runs beside the tick.                                *)
EXTENDS Refusal

CONSTANTS m1, worker

OneModel == {m1}
NoRefresher == {}
OneRefresher == {worker}
=============================================================================
