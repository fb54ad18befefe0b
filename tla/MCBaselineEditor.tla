-------------------------- MODULE MCBaselineEditor --------------------------
(* Small texts with equal lines, unterminated last lines and overlapping   *)
(* occurrences.  The hash is short: it tells lines apart by their length.  *)
EXTENDS BaselineEditor, TLC

CONSTANTS a, b, nl

MCCharacters == {a, b, nl}
MCBaselines == {<< >>, <<a, nl, a, nl>>, <<a, a, a>>, <<nl, b, nl>>}
MCValues == {<< >>, <<b>>, <<b, nl>>}
MCLiterals == {<<a>>, <<a, a>>}
MCCounts == {1, 2}
MCHash(line) == Len(line)
\* Two equal letters in a row are a syntax failure.
MCValid(text) == \A i \in 1..Len(text) - 1 : text[i] = text[i + 1] => text[i] = nl
=============================================================================
