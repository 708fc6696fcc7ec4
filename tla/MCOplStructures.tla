-------------------------- MODULE MCOplStructures --------------------------
(* Vocabularies of OplStructures for TLC.                                  *)
EXTENDS OplStructures

W(ws) == {[w |-> x, ls |-> <<>>] : x \in ws}
L(kind, names) == {[w |-> kind, ls |-> <<l>>] : l \in names}
Vocabulary(ws, n, dbg) == [words |-> ws, size |-> n, debug |-> dbg]

MCVocabularies ==
  { Vocabulary(W({"S", "IF", "ELSEIF", "ELSE", "ENDIF", "WHILE", "ENDWH"}), 8, FALSE),
    Vocabulary(W({"S", "IF", "ENDIF", "WHILE", "ENDWH", "DO", "UNTIL", "BREAK", "CONTINUE"}), 7, FALSE),
    Vocabulary(W({"S", "IF", "ELSE", "ENDIF", "RETURN", "EOS"}) \cup L("LABEL", {"a"})
                 \cup L("GOTO", {"a"}), 6, TRUE),
    Vocabulary(W({"S", "DO", "UNTIL", "ONERR"}) \cup L("LABEL", {"a", "b"})
                 \cup L("ONERR", {"a", "b"}) \cup {[w |-> "VECTOR", ls |-> <<"a", "b">>]}, 6, FALSE) }
=============================================================================
