--------------------------- MODULE MCOplOperands ---------------------------
(* Token sets and statements of OplOperands for TLC.                       *)
EXTENDS OplOperands

MCStatements == LanguageStatements \cup OpxStatements

MCTokenSets ==
  { [tokens |-> {"w", "<", "=", "+", "*", "**", "AND", "NOT", "-", "%"}, size |-> 6],
    [tokens |-> {"w", "+", "-", "**", "(", ")", "ABS(", "%"}, size |-> 7],
    [tokens |-> {"w", "l", "r", "s", "+", "<", "/", "%", "AND", "ABS(", ")"}, size |-> 5] }
=============================================================================
