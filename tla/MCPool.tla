------------------------------- MODULE MCPool -------------------------------
(* A pool of two or three credentials, judged by the loop's tick alone or  *)
(* by the loop's and POST /rotate's at once.                               *)
EXTENDS Pool, TLC

CONSTANTS c1, c2, c3

TwoCreds == {c1, c2}
ThreeCreds == {c1, c2, c3}
LoopOnly == {"loop"}
LoopAndRotate == {"loop", "rotate"}
Nobody == {}
JustC1 == {c1}
Alike2 == Permutations(TwoCreds)
Alike3 == Permutations(ThreeCreds)
=============================================================================
