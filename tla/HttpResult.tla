----------------------------- MODULE HttpResult -----------------------------
(***************************************************************************)
(* What an HTTP call promises: the application is given the items of the   *)
(* answer one after another, success means all of them and no exception,   *)
(* an exception means that the server raised one, and comes after all that *)
(* the server sent before it, unless items are batches that were still     *)
(* being put together.                                                     *)
(***************************************************************************)
EXTENDS Naturals

VARIABLES
  promised,  \* [items, raises, batched]: what the server answers
  given,     \* items given to the application
  outcome

result == <<promised, given, outcome>>

Init == given = 0 /\ outcome = "running"

Give ==
  /\ outcome = "running" /\ given < promised.items
  /\ given' \in given + 1 .. promised.items
  /\ UNCHANGED <<promised, outcome>>

Ends(how) == outcome = "running" /\ outcome' = how /\ UNCHANGED <<promised, given>>

Succeed == given = promised.items /\ promised.raises # "always" /\ Ends("ok")

\* raises is "perhaps" where output looks just like a trailer.
Raise ==
  /\ promised.raises # "never"
  /\ promised.raises = "perhaps" \/ promised.batched \/ given = promised.items
  /\ Ends("exception")

Next == Give \/ Succeed \/ Raise \/ Ends("error") \/ Ends("left")

Spec == Init /\ [][Next]_result
=============================================================================
