------------------------------- MODULE Loops --------------------------------
(***************************************************************************)
(* Loops of C as functions.  The body is a function on a set of states; a  *)
(* state is a record whose field `on' says whether the loop goes on.       *)
(***************************************************************************)

\* The state in which the loop ends that begins in s.
While(body, s) == LET run[x \in DOMAIN body] == IF x.on THEN run[body[x]] ELSE x
                  IN  run[s]
=============================================================================
