-------------------------- MODULE MCEditWorkspace --------------------------
(* A Go file name, a name of a known language and a plain one.             *)
EXTENDS EditWorkspace, TLC

CONSTANTS go, py, txt

MCNames == {go, py, txt}
MCGo == {go}
MCPlain == {txt}
MCContents == FileContents

\* Line ends: as a patch can say them, with carriage returns, and without a last
\* terminator; a Windows file and an unterminated one are on disk.
MCEndings == {LF, "crlf", Open}
MCBare == {Open}
MCEndsOf == (go :> "crlf") @@ (py :> LF) @@ (txt :> Open)
=============================================================================
