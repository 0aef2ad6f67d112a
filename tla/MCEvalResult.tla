---------------------------- MODULE MCEvalResult ----------------------------
(***************************************************************************)
(* Eval with a history variable: the latest result, other than NULL, of    *)
(* every chain of messages that is being dispatched.                       *)
(***************************************************************************)
EXTENDS MCEval

VARIABLE last   \* last[d]: of the chain that frame d dispatches

hvars == <<vars, last>>

LatestResult(d) ==
  LET f == frames'[d]
  IN  CASE f.fn = "avalanche" /\ f.pc = "next" /\ f.res # NULL -> f.res
        [] d > Len(frames) -> NULL
        [] OTHER -> last[d]

HSpec == /\ Init /\ last = <<NULL>>
         /\ [][Next /\ last' = [d \in 1..Len(frames') |-> LatestResult(d)]]_hvars

(* message.c:131: when the last message of a chain was ";", the value of   *)
(* the chain is the last result.                                           *)
LastResultUsed ==
  [][mode' = "return" /\ Active.fn = "avalanche" /\ Last(last) # NULL =>
       val' = Last(last)]_hvars
=============================================================================
