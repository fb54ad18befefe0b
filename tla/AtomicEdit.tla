----------------------------- MODULE AtomicEdit -----------------------------
(***************************************************************************)
(* What commitChanges promises its caller: the edit happens in one step or *)
(* not at all, and the answer says which, unless it also says that the     *)
(* undoing or the cleaning up went wrong.                                  *)
(***************************************************************************)
EXTENDS EditChange

VARIABLES
  edit,    \* the changes asked for
  world,   \* the files of the workspace
  state,   \* "open", "applied" or "refused"
  told     \* what the caller was told: "nothing" yet, the state, or "unsure"

avars == <<edit, world, state, told>>

Init ==
  /\ world \in [Names -> Contents \cup {Absent}]
  /\ edit \in Seq(Change) /\ WellFormed(world, edit)
  /\ state = "open" /\ told = "nothing"

Apply ==
  /\ state = "open" /\ state' = "applied"
  /\ world' = Result(world, edit)
  /\ UNCHANGED <<edit, told>>

Refuse ==
  /\ state = "open" /\ state' = "refused"
  /\ UNCHANGED <<edit, world, told>>

Tell ==
  /\ state # "open" /\ told = "nothing"
  /\ told' \in {state, "unsure"}
  /\ UNCHANGED <<edit, world, state>>

Next == Apply \/ Refuse \/ Tell

Spec == Init /\ [][Next]_avars
=============================================================================
