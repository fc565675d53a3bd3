------------------------------ MODULE ObjectPut ------------------------------
(***************************************************************************)
(* What an upload promises to the code that asks for it: the object is     *)
(* replaced as a whole, by what the source holds, while the upload runs    *)
(* and at no other time, and an upload that returns 0 has replaced it.     *)
(* One that fails may have replaced it or not.  FdEntity takes the upload  *)
(* of a file for such a step.                                              *)
(***************************************************************************)
CONSTANT Content

VARIABLES
  source,   \* what an upload takes
  stored,   \* what the object holds
  busy,     \* an upload runs
  result    \* how the last one ended; "none" when the source has changed since

vars == <<source, stored, busy, result>>

Init == /\ source \in Content /\ stored \in Content
        /\ busy = FALSE /\ result = "none"

Change == /\ ~busy /\ source' \in Content /\ result' = "none"
          /\ UNCHANGED <<stored, busy>>

Start == /\ ~busy /\ busy' = TRUE /\ result' = "none"
         /\ UNCHANGED <<source, stored>>

Replace == /\ busy /\ stored' = source
           /\ UNCHANGED <<source, busy, result>>

\* The last step of an upload may be the one that replaces the object.
Finish == /\ busy /\ busy' = FALSE /\ result' \in {"ok", "failed"}
          /\ stored' \in {stored, source}
          /\ result' = "ok" => stored' = source
          /\ UNCHANGED source

Next == Change \/ Start \/ Replace \/ Finish

Spec == Init /\ [][Next]_vars
=============================================================================
