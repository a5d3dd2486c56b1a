------------------------------- MODULE Pantry -------------------------------
(***************************************************************************)
(* What the pantry of internal/api promises, without rows, ids, statements *)
(* or transactions.  Each account has a shelf.  A call changes the shelf   *)
(* in one step, or not at all, and a call that shows the shelf shows it as *)
(* it was at one moment: after the change, when the call made one.  A call *)
(* that is refused has changed nothing; after a call that is lost its      *)
(* client cannot know.                                                     *)
(***************************************************************************)

CONSTANTS
    Owner,    \* accounts
    Name,     \* ingredients
    Tab,      \* clients, each with one call at a time
    None      \* no account

VARIABLES
    shelf,    \* of each account: whether an ingredient is absent, in or out of stock
    call,     \* what each tab asks for
    stage,    \* how far the call is
    view      \* the shelf that the call is showing

vars == <<shelf, call, stage, view>>

Stock == {"absent", "in", "out"}

Bare == [n \in Name |-> "absent"]

Call == [owner : Owner \cup {None}, op : {"add", "switch", "drop", "show", "other"},
         names : SUBSET Name, stock : {"in", "out"}]

NoCall == [owner |-> None, op |-> "other", names |-> {}, stock |-> "in"]

Ended == {"done", "refused", "lost"}

Init ==
    /\ shelf = [o \in Owner |-> Bare]
    /\ call = [t \in Tab |-> NoCall]
    /\ stage = [t \in Tab |-> "done"]
    /\ view = [t \in Tab |-> Bare]

Ask(t) ==
    /\ stage[t] \in Ended
    /\ call'[t] \in Call
    /\ call' = [call EXCEPT ![t] = call'[t]]
    /\ stage' = [stage EXCEPT ![t] = "called"]
    /\ UNCHANGED <<shelf, view>>

\* The ingredients called for become `stock`, all in this step.
Put(t, stock) ==
    shelf' = [shelf EXCEPT ![call[t].owner] =
                 [n \in Name |-> IF n \in call[t].names THEN stock ELSE @[n]]]

\* The call goes on.
Move(t, from, to) ==
    /\ stage[t] = from
    /\ stage' = [stage EXCEPT ![t] = to]
    /\ UNCHANGED call

Restock(t) ==
    /\ call[t].op = "add"
    /\ Move(t, "called", "changed")
    /\ Put(t, "in")
    /\ UNCHANGED view

\* Only an ingredient that is there is switched or dropped.
OnShelf(t) == \E n \in call[t].names : shelf[call[t].owner][n] # "absent"

Switch(t) ==
    /\ call[t].op = "switch" /\ OnShelf(t)
    /\ Move(t, "called", "changed")
    /\ Put(t, call[t].stock)
    /\ UNCHANGED view

Drop(t) ==
    /\ call[t].op = "drop" /\ OnShelf(t)
    /\ Move(t, "called", "changed")
    /\ Put(t, "absent")
    /\ UNCHANGED view

Show(t) ==
    /\ \/ call[t].op = "add" /\ Move(t, "changed", "shown")
       \/ call[t].op = "show" /\ Move(t, "called", "shown")
    /\ view' = [view EXCEPT ![t] = shelf[call[t].owner]]
    /\ UNCHANGED shelf

\* The calls of S end, and are forgotten.
End(S, how) ==
    /\ stage' = [t \in Tab |-> IF t \in S THEN how ELSE stage[t]]
    /\ call' = [t \in Tab |-> IF t \in S THEN NoCall ELSE call[t]]
    /\ view' = [t \in Tab |-> IF t \in S THEN Bare ELSE view[t]]
    /\ UNCHANGED shelf

\* An answer comes after what it answers for.
Answer(t) ==
    /\ \/ call[t].op \in {"add", "show"} /\ stage[t] = "shown"
       \/ call[t].op \in {"switch", "drop"} /\ stage[t] = "changed"
       \/ call[t].op = "other" /\ stage[t] = "called"
    /\ End({t}, "done")

Refuse(t) == stage[t] = "called" /\ End({t}, "refused")

Lose(S) == (\A t \in S : stage[t] \notin Ended) /\ End(S, "lost")

\* Each step of a call takes it on.
Step(t) ==
    /\ stage'[t] # stage[t]
    /\ Ask(t) \/ Restock(t) \/ Switch(t) \/ Drop(t) \/ Show(t) \/ Answer(t) \/ Refuse(t)

Next ==
    \/ \E t \in Tab : Step(t)
    \/ \E S \in (SUBSET Tab) \ {{}} : Lose(S)

Spec == Init /\ [][Next]_vars

=============================================================================
