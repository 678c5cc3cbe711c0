------------------------------- MODULE MCLexer -------------------------------
(***************************************************************************)
(* Texts for TLC: every short text over the characters that begin or end   *)
(* tokens, and longer ones of numbers, strings and names.                  *)
(***************************************************************************)
EXTENDS Rewriting

UpTo(n, alphabet) == UNION {[1..k -> alphabet] : k \in 0..n}

Characters == {"0", "1", ".", "e", "-", Quote, Escape, Double, "(", ",", Space, "<", "=", "i", "n", "#"}

NumberTexts6 == UpTo(6, {"0", "1", ".", "e", "-"})
Signed       == {<<sign, d>> \o t : sign \in Signs, d \in {"0", "1"}, t \in UpTo(4, {"0", "1", ".", "E", "+"})}
Strings      == {<<Quote>> \o s : s \in UpTo(6, {Quote, Escape, "i"})}
After        == {t \o <<"-", "1">> : t \in UpTo(3, {"i", "n", "1", ")", "(", ",", "=", Quote, Double, Space})}

MCTexts == UpTo(4, Characters) \cup NumberTexts6 \cup Signed \cup Strings \cup After
=============================================================================
