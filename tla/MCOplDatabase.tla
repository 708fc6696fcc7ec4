--------------------------- MODULE MCOplDatabase ---------------------------
(* Instances of OplDatabase for TLC: six kinds of program.                *)
EXTENDS OplDatabase
CONSTANTS d1, d2

MCNames == {0, 1}
Opening == {"CREATE", "CLOSE"}
Program(ks, ns, fs, r) == [keywords |-> ks, names |-> ns, files |-> fs, records |-> r]
MCPrograms ==
  { Program(Opening \cup {"OPEN", "OPENR", "USE", "DELETE", "MODIFY", "ASSIGN"}, MCNames, {d1, d2}, 0),
    Program(Opening \cup {"FIRST", "LAST", "NEXT", "BACK", "POSITION", "FIND", "FINDFIELD",
                         "APPEND", "ERASE"}, {0}, {d1}, 3),
    Program(Opening \cup {"NEXT", "BACK", "APPEND", "UPDATE", "MODIFY", "INSERT", "PUT",
                         "CANCEL", "ERASE", "ASSIGN"}, {0}, {d1}, 3),
    Program(Opening \cup {"OPEN", "USE", "FIRST", "INSERT", "PUT", "MODIFY", "ASSIGN",
                         "APPEND", "ERASE"}, MCNames, {d1}, 2),
    Program(Opening \cup {"OPEN", "USE", "NEXT", "APPEND", "ERASE", "BOOKMARK", "GOTOMARK",
                         "KILLMARK", "BEGINTRANS", "COMMITTRANS", "ROLLBACK"}, {0}, {d1}, 3),
    Program(Opening \cup {"OPEN", "USE", "INSERT", "PUT", "ERASE", "BEGINTRANS", "COMMITTRANS",
                         "ROLLBACK"}, MCNames, {d1}, 2) }
AssignPrograms ==
  { Program({"CREATE", "OPEN", "USE", "NEXT", "APPEND", "INSERT", "ASSIGN"}, MCNames, {d1}, 2) }

(* Everything but the record of the last keyword, which decides nothing.   *)
DbView == <<prog, dbms, names, iBookmarkArray, lhs>>
=============================================================================
