----------------------------- MODULE LatestValue -----------------------------
(***************************************************************************)
(* What signaling owes for one kind of extra (a setting one end has and    *)
(* the other is to know): the values the other end knows are values that   *)
(* were set, it never goes back from one to an earlier one, and the matter *)
(* is settled only when it knows the latest.  All of that as long as the   *)
(* exchange is not disturbed; what disturbs it is for the implementation   *)
(* to say.                                                                 *)
(***************************************************************************)
EXTENDS Naturals

VARIABLES
  set,        \* how many values were set: the latest has this number
  known,      \* the number of the value the other end knows, 0: none yet
  open,       \* the latest value is still being told
  disturbed

vars == <<set, known, open, disturbed>>

Init == set = 0 /\ known = 0 /\ open = FALSE /\ disturbed = FALSE

Set ==
  /\ set' = set + 1 /\ open' = TRUE
  /\ UNCHANGED <<known, disturbed>>

Learn ==
  /\ known' \in (known + 1) .. set
  /\ UNCHANGED <<set, open, disturbed>>

Settle ==
  /\ open /\ known = set
  /\ open' = FALSE
  /\ UNCHANGED <<set, known, disturbed>>

\* Once disturbed, the other end may go back and be believed to know the latest value.
Disturbed ==
  /\ disturbed'
  /\ known' \in 0 .. set /\ (open' => open)
  /\ UNCHANGED set

Next == Set \/ Learn \/ Settle \/ Disturbed

Spec == Init /\ [][Next]_vars
=============================================================================
