------------------------ MODULE MCResponseTransform ------------------------
(* Instances of the response transform for TLC.                            *)
EXTENDS ResponseTransform, TLC

CONSTANTS h1, c1, c2, i1, i2

\* A Code Mode catalog and a native one, with automatic tool choice.
CodeMode ==
  <<[present |-> TRUE, top |-> <<Tool("exec", "custom", {"apply_patch", "exec_command"})>>,
     extra |-> <<>>], <<"auto", "">> >>
Natively ==
  <<[present |-> TRUE, top |-> <<Tool("apply_patch", "custom", {}), Tool("exec_command", "function", {})>>,
     extra |-> <<>>], <<"auto", "">> >>
BothModes == {CodeMode, Natively}

\* A shell call, a program and a function call with commentary, or an edit and
\* two recoveries.
CallTools ==
  "code" :> (h1 :> "shell" @@ c1 :> "code" @@ c2 :> "commented")
  @@ "native" :> (h1 :> "hpatch" @@ c1 :> "hpatch_recover" @@ c2 :> "hpatch_recover")

\* A program without and a program with commentary.
Programs == i1 :> "program" @@ i2 :> "commentary"
=============================================================================
