--------------------------- MODULE MCSharedCounter ---------------------------
(***************************************************************************)
(* thread-test.ava with its three threads, and fewer repetitions than the  *)
(* 11, 55 and 34 it has: the threads meet in every way they can.           *)
(***************************************************************************)
EXTENDS SharedCounter, TLC

CONSTANTS a, b, c

ABC == <<a, b, c>>

Repetitions == a :> 3 @@ b :> 5 @@ c :> 4
=============================================================================
