---------------------------- MODULE MessageQueue ----------------------------
(***************************************************************************)
(* What the message thread owes those who post: a function that was posted *)
(* is called, one at a time, and is then done with, unless it is periodic; *)
(* functions posted without a delay are called in the order they were      *)
(* posted in, whoever posted them; nothing is called that was not posted   *)
(* or that was cancelled, and nothing else than Cancel() takes away what   *)
(* was not called yet.                                                     *)
(***************************************************************************)
EXTENDS Naturals

VARIABLES
  posted,    \* how many were posted: the last has this number
  pending,   \* those to be called: [no, periodic, prompt], prompt without a delay
  calling,   \* the one being called, as a set: at most one
  cancelled  \* the numbers of those that were cancelled

vars == <<posted, pending, calling, cancelled>>

\* A timer may be there from the start.
Init ==
  /\ posted = 0 /\ calling = {} /\ cancelled = {}
  /\ pending \subseteq {[no |-> 0, periodic |-> TRUE, prompt |-> FALSE]}

Post ==
  /\ posted' = posted + 1
  /\ \E periodic, prompt \in BOOLEAN :
       pending' = pending \cup {[no |-> posted', periodic |-> periodic, prompt |-> prompt]}
  /\ UNCHANGED <<calling, cancelled>>

Cancel ==
  /\ \E gone \in SUBSET pending :
       pending' = pending \ gone /\ cancelled' = cancelled \cup {m.no : m \in gone}
  /\ UNCHANGED <<posted, calling>>

Call(m) ==
  /\ calling = {}
  /\ m.prompt => \A n \in pending : n.prompt => m.no <= n.no
  /\ pending' = pending \ {m}
  /\ calling' = {[m EXCEPT !.prompt = FALSE]}
  /\ UNCHANGED <<posted, cancelled>>

\* A periodic one is pending again, unless it cancelled itself.
Return ==
  /\ calling # {} /\ calling' = {}
  /\ \/ UNCHANGED pending
     \/ (\A m \in calling : m.periodic) /\ pending' = pending \cup calling
  /\ UNCHANGED <<posted, cancelled>>

Next == Post \/ Cancel \/ (\E m \in pending : Call(m)) \/ Return

Spec == Init /\ [][Next]_vars
=============================================================================
