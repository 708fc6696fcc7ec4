----------------------------- MODULE OplKeywords -----------------------------
(***************************************************************************)
(* The commands and functions of the language as the translator takes them *)
(* (oplt/stran/OT_KYWRD.CPP, OT_RESRV.CPP and OT_CALL.CPP), for the current *)
(* target: the arguments each has, in order, and the p-code that ends it.  *)
(*                                                                         *)
(* Arguments: "w", "l", "r", "s" an expression converted to this type,     *)
(* "=w" .. "=s" one of this type, "&w" .. "&s" the left side of a variable, *)
(* "@" something passed by reference, "@w" and "@l" with its type; "flag"  *)
(* a constant word and "zero" a constant long that the translator adds.    *)
(***************************************************************************)
EXTENDS Integers, Sequences, OplHandlers

(* P-code: its kind, a type, another, a name and what follows in the code. *)
PCode(kind, t, to, name, follows) ==
  [p |-> kind, t |-> t, to |-> to, name |-> name, follows |-> follows]
Code(kind) == PCode(kind, "w", "w", "", <<>>)

(* A statement: its arguments, the p-code that ends it, what it leaves.    *)
Statement(name, args, ends, leaves) ==
  [name |-> name, args |-> args, ends |-> ends, leaves |-> leaves]

Command(keyword, args) ==
  Statement(keyword, args, <<PCode("command", "w", "w", keyword, <<>>)>>, <<>>)
Qualified(keyword, args, q) ==
  Statement(keyword, args, <<PCode("command", "w", "w", keyword, <<<<8, q>>>>)>>, <<>>)
Typed(keyword, args, t) ==
  Statement(keyword, args, <<PCode("typed", t, t, keyword, <<>>)>>, <<>>)

-----------------------------------------------------------------------------
(* KeywordL.                                                               *)

Simple(keywords, args) == {Command(keyword, args) : keyword \in keywords}

WordCommands ==
  Simple({"APPEND", "BACK", "CLOSE", "CLS", "ERASE", "FIRST", "GCLS", "IOSIGNAL", "IOYIELD",
          "LAST", "LCLOSE", "MINIT", "NEXT", "STOP", "UPDATE", "MODIFY", "INSERT", "CANCEL",
          "PUT", "BEGINTRANS", "COMMITTRANS", "ROLLBACK", "SHOWHELP", "TRAP"}, None) \cup
  Simple({"DEFAULTWIN", "GCLOSE", "GGMODE", "GGREY", "GSTYLE", "GTMODE", "GUNLOADFONT", "GUSE",
          "PAUSE", "POSITION", "RAISE", "STYLE", "GOTOMARK", "KILLMARK", "GSETPENWIDTH"}, W) \cup
  Simple({"AT", "BEEP", "DPOSITION", "GAT", "GBOX", "GINVERT", "GLINEBY", "GLINETO", "GMOVE",
          "GORDER", "POINTERFILTER"}, W \o W) \cup
  Simple({"GCOLOR", "GCOLORBACKGROUND", "GFILL"}, Times(3, W)) \cup
  Simple({"GPATT"}, Times(4, W)) \cup Simple({"GCOPY"}, Times(6, W)) \cup
  {Qualified("GCIRCLE", W \o Times(q, W), q) : q \in {0, 1}} \cup
  {Qualified("GELLIPSE", W \o W \o Times(q, W), q) : q \in {0, 1}}

LongAndStringCommands ==
  Simple({"FREEALLOC", "GFONT", "SETFLAGS", "CLEARFLAGS"}, L) \cup Simple({"FONT"}, L \o W) \cup
  {Qualified("GBUTTON", S \o Times(4, W) \o SubSeq(L \o L \o W, 1, q), q) : q \in 0 .. 3} \cup
  {Qualified("BUSY", SubSeq(S \o W \o W, 1, q), q) : q \in 0 .. 3} \cup
  {Qualified("DEDITMULTI", L \o S \o W \o W \o L \o Times(q, W), q) : q \in {0, 1}} \cup
  {Qualified("DCHOICE", Ref("w") \o S \o S \o Times(q, W), q) : q \in {0, 1}} \cup
  Simple({"COPY", "RENAME"}, S \o S) \cup
  Simple({"COMPACT", "LOADM", "LOPEN", "MKDIR", "RMDIR", "SETDOC", "SETPATH", "UNLOADM",
          "DELETE"}, S) \cup
  Simple({"DELETETABLE"}, S \o S)

(* The first field of the list is as good as all of them.                  *)
TableCommands ==
  {Statement(keyword, S, <<PCode("command", "w", "w", keyword, <<<<8, 0>>, <<FieldNames, 0>>>>)>>, <<>>)
     : keyword \in {"CREATE", "OPEN", "OPENR"}}

CursorCommands ==
  {Qualified("CURSOR", None, q) : q \in {0, 1}} \cup
  {Qualified("CURSOR", W, 2), Qualified("CURSOR", Times(4, W), 3),
   Qualified("CURSOR", Times(5, W), 4)}

(* NumericDialogItemL.                                                     *)
NumericDialogItem(t) == Ref(t) \o S \o <<t, t>>

DialogCommands ==
  {Qualified("DTEXT", S \o S \o Times(q, W), q) : q \in {0, 1}} \cup
  {Qualified("GIPRINT", S \o Times(q, W), q) : q \in {0, 1}} \cup
  Simple({"DDATE", "DLONG"}, NumericDialogItem("l")) \cup
  Simple({"DFLOAT"}, NumericDialogItem("r")) \cup
  Simple({"DTIME"}, Ref("l") \o S \o W \o L \o L) \cup Simple({"RANDOMIZE"}, L) \cup
  Simple({"DEDIT"}, Ref("s") \o S) \cup Simple({"DSEDIT"}, Ref("s") \o S \o W) \cup
  {Qualified("DXINPUT", Ref("s") \o S \o Times(q, W), q) : q \in {0, 1}} \cup
  Simple({"DFILE"}, Ref("s") \o S \o W \o L \o L \o L) \cup
  Simple({"DFILE"}, Ref("s") \o S \o W \o Times(3, <<"zero">>)) \cup
  Simple({"GXPRINT"}, S \o W) \cup Simple({"SETHELP"}, W \o S) \cup Simple({"SETHELPUID"}, L) \cup
  {Qualified("DBUTTONS", Times(q, S \o W), q) : q \in 1 .. MostItems} \cup
  {Qualified("DINIT", SubSeq(S \o W, 1, q), q) : q \in 0 .. 2}

SwitchCommands ==
  {Qualified(keyword, None, q) : keyword \in {"GVISIBLE", "ESCAPE", "LOCK"}, q \in {0, 1}} \cup
  {Qualified("GBORDER", Times(q, W), q) : q \in {1, 3}} \cup
  {Qualified("GCLOCK", None, 0)} \cup
  {Qualified("GCLOCK", SubSeq(W \o L \o S \o L \o W, 1, q - 1), q) : q \in 1 .. 6}

ReferenceCommands ==
  {Command("EDIT", Ref("s"))} \cup {Typed("INPUT", Ref(t), t) : t \in WLRS} \cup
  Simple({"GETEVENT", "GPOLY", "SCREENINFO"}, <<"@w">>) \cup
  Simple({"GETEVENTA32"}, <<"@w", "@l">>) \cup
  Simple({"GETEVENT32", "GINFO32", "GCOLORINFO"}, <<"@l">>) \cup
  Simple({"GPEEKLINE"}, Times(3, W) \o <<"@w">> \o W \o W) \cup
  Simple({"GPEEKLINE"}, Times(3, W) \o <<"@w">> \o W \o <<"flag">>)

PrintCommands ==
  {Typed(keyword, <<"=" \o t>>, t) : keyword \in {"PRINT", "LPRINT", "GPRINT"}, t \in WLRS} \cup
  Simple({"PRINTSPACE", "PRINTCRLF", "LPRINTSPACE", "LPRINTCRLF", "GPRINTSPACE"}, None) \cup
  {Qualified("GPRINTB", S \o Times(q, W), q) : q \in 1 .. 5} \cup
  {Qualified("GSAVEBIT", S \o Times(q, W \o W), q) : q \in {0, 1}} \cup
  {Qualified("GSCROLL", Times(q, W), q) : q \in {2, 6}} \cup
  {Qualified(keyword, Times(q, W), q) : keyword \in {"GSETWIN", "GXBORDER"}, q \in {2, 4}} \cup
  {Qualified("GXBORDER32", L, 0), Qualified("GXBORDER32", L \o W \o W, 3)} \cup
  {Qualified("GUPDATE", None, q) : q \in {0, 1, 255}}

MenuCommands ==
  Simple({"IOWAITSTAT"}, <<"@w">>) \cup Simple({"IOWAITSTAT32"}, <<"@l">>) \cup
  {Qualified(keyword, S \o Times(q, S \o W), q) : keyword \in {"MCARD", "MCASC"}, q \in 1 .. MostItems} \cup
  {Qualified("MCARDX", W \o W \o Times(q, S \o W), q) : q \in 1 .. MostItems} \cup
  {Command("OFF", None), Command("OFFTIME", W)} \cup
  Simple({"POKEB", "POKEW"}, L \o W) \cup Simple({"POKEL"}, L \o L) \cup
  Simple({"POKEF"}, L \o R) \cup Simple({"POKES"}, L \o S) \cup
  Simple({"SCREEN"}, W \o W) \cup Simple({"GSCREEN"}, Times(4, W)) \cup
  Simple({"DAYSTODATE"}, L \o Times(3, <<"@w">>)) \cup
  Simple({"SECSTODATE"}, L \o Times(7, <<"@w">>)) \cup {Qualified("USE", None, 0)}

(* The type of the procedure decides what RETURN takes.                    *)
Returns ==
  {Statement("RETURN", <<t>>, <<PCode("command", "w", "w", "RETURNVALUE", <<>>)>>, <<t>>) : t \in WLRS} \cup
  {Statement("RETURN", None, <<PCode("typed", t, t, "RETURNNULL", <<>>)>>, <<t>>) : t \in WLRS}

(* An assignment; the statement of a debug build.                          *)
Assignments ==
  {Statement("assign", Ref(t) \o <<t>>, <<PCode("assign", t, t, "", <<>>)>>, <<>>) : t \in WLRS}
DebugStatements ==
  {Statement("statement", None, <<PCode("statement", "w", "w", name, <<>>)>>, <<>>)
     : name \in {"Statement16", "Statement32"}}

-----------------------------------------------------------------------------
(* A function as a statement: the value it returns is dropped.             *)
Drop(t) == PCode("drop", t, t, "", <<>>)
Called(function, args, t, follows) ==
  Statement(function, <<"list">> \o args, <<PCode("call", t, t, function, follows), Drop(t)>>, <<>>)
Function(function, args, t) == Called(function, args, t, <<>>)
CountedFunction(function, args, t, q) == Called(function, args, t, <<<<8, q>>>>)
All(functions, args, t) == {Function(function, args, t) : function \in functions}

(* The tables of functions, by their first letters.  A statistical function *)
(* takes an array and the number of its elements, or reals.                *)
StatisticalFunctions(functions) ==
  {CountedFunction(function, Times(q, R), "r", q)
     : function \in functions, q \in 1 .. MostStatistics} \cup
  {CountedFunction(function, Ref("r") \o W, "r", 0) : function \in functions}

FunctionsAToF ==
  All({"ABS", "ACOS", "ASIN", "ATAN", "COS", "DEG", "EXP"}, R, "r") \cup
  All({"EVAL"}, S, "r") \cup All({"FLT"}, L, "r") \cup
  UNION {All({"ADDR"}, Ref(t), "l") : t \in WLR} \cup All({"SADDR"}, Ref("s"), "l") \cup
  All({"ADJUSTALLOC"}, Times(3, L), "l") \cup All({"ALLOC"}, L, "l") \cup
  {CountedFunction("ALERT", Times(q, S), "w", q) : q \in 1 .. 5} \cup
  All({"ASC", "EXIST", "FIND"}, S, "w") \cup
  All({"BOOKMARK", "COUNT", "DAY", "DIALOG", "EOF", "ERR"}, None, "w") \cup
  All({"CHRS", "CMDS", "DAYNAMES", "ERRS"}, W, "s") \cup All({"DATIM", "ERRXS"}, None, "s") \cup
  All({"DIRS"}, S, "s") \cup All({"FIXS"}, R \o W \o W, "s") \cup
  All({"DATETOSECS"}, Times(6, W), "l") \cup All({"DAYS"}, Times(3, W), "l") \cup
  All({"DOW"}, Times(3, W), "w") \cup All({"FINDFIELD"}, S \o Times(3, W), "w")

FunctionsGToK ==
  All({"GEN"}, R \o W, "s") \cup All({"GETS", "GETCMDS", "GETDOCS", "KEYS"}, None, "s") \cup
  All({"HEXS"}, L, "s") \cup All({"GPIXEL"}, W \o W, "l") \cup
  All({"GET", "GHEIGHT", "GIDENTITY", "GORIGINX", "GORIGINY", "GRANK", "GWIDTH", "GX", "GY",
       "HOUR", "INTRANS", "IOWAIT", "KEY", "KMOD"}, None, "w") \cup
  All({"GLOADFONT", "GTWIDTH"}, S, "w") \cup All({"GPRINTCLIP"}, S \o W, "w") \cup
  All({"GETEVENTC", "KEYC"}, <<"@w">>, "w") \cup All({"KEYA"}, <<"@w", "@w">>, "w") \cup
  All({"GCREATE"}, Times(5, W), "w") \cup All({"GCREATEGREY"}, Times(6, W), "w") \cup
  {CountedFunction("GCREATEBIT", Times(q, W), "w", q) : q \in {2, 3}} \cup
  {CountedFunction("GLOADBIT", S \o Times(q - 1, W), "w", q) : q \in 1 .. 3} \cup
  All({"IABS"}, L, "l") \cup All({"INT"}, R, "l") \cup All({"INTF"}, R, "r") \cup
  All({"IOA"}, W \o W \o <<"@w", "@", "@">>, "w") \cup All({"IOCANCEL", "IOCLOSE"}, W, "w") \cup
  {CountedFunction("IOC", W \o W \o <<"@w">> \o Times(q - 3, <<"@">>), "w", q) : q \in 3 .. 5} \cup
  All({"IOOPEN"}, <<"@w">> \o S \o W, "w") \cup All({"IOOPENX"}, <<"@w">> \o L \o W, "w") \cup
  All({"IOREAD", "IOWRITE"}, W \o L \o W, "w") \cup All({"IOSEEK"}, W \o W \o <<"@l">>, "w") \cup
  All({"IOW"}, W \o W \o <<"@", "@">>, "w")

FunctionsLToR ==
  All({"LN", "LOG", "RAD"}, R, "r") \cup All({"PEEKF"}, L, "r") \cup All({"PI", "RND"}, None, "r") \cup
  StatisticalFunctions({"MAX", "MEAN", "MIN"}) \cup
  All({"LEFTS", "REPTS", "RIGHTS"}, S \o W, "s") \cup All({"LOWERS"}, S, "s") \cup
  All({"MIDS"}, S \o W \o W, "s") \cup All({"MONTHS"}, W, "s") \cup All({"NUMS"}, R \o W, "s") \cup
  All({"PARSES"}, S \o S \o <<"@w">>, "s") \cup All({"PEEKS"}, L, "s") \cup
  All({"LENALLOC", "PEEKL"}, L, "l") \cup All({"REALLOC"}, L \o L, "l") \cup
  All({"LEN"}, S, "w") \cup All({"LOC"}, S \o S, "w") \cup All({"LOCX"}, S \o S \o W, "w") \cup
  All({"MENU", "MINUTE", "MONTH", "POS"}, None, "w") \cup All({"MENUX"}, <<"@w">>, "w") \cup
  {CountedFunction("MPOPUP", Times(3, W) \o Times(n, S \o W), "w", 3 + 2 * n) : n \in 1 .. MostItems} \cup
  All({"PEEKB", "PEEKW"}, L, "w")

FunctionsSToY ==
  All({"SIN", "SQR", "TAN"}, R, "r") \cup All({"VAL"}, S, "r") \cup
  StatisticalFunctions({"STD", "SUM", "VAR"}) \cup
  All({"SCIS"}, R \o W \o W, "s") \cup All({"UPPERS"}, S, "s") \cup All({"SPACE"}, None, "l") \cup
  All({"SECOND", "TESTEVENT", "YEAR"}, None, "w") \cup All({"SIZE"}, S, "w") \cup
  All({"UADD", "USUB"}, W \o W, "w") \cup All({"WEEK"}, Times(3, W), "w")

-----------------------------------------------------------------------------
(* Procedures: the type of each parameter is stacked after it.             *)
Parameter(t) == <<t, "type " \o t>>
Parameters == {None} \cup {Parameter(t) : t \in WLRS} \cup
              {Parameter(t) \o Parameter(u) : t, u \in WLRS}
Procedures ==
  {Statement("proc", <<"list">> \o ps, <<PCode("procedure", t, t, "", <<<<16, Len(ps) \div 2>>>>), Drop(t)>>, <<>>)
     : ps \in Parameters, t \in WLRS} \cup
  {Statement("@", S \o <<"list">> \o ps,
             <<PCode("byName", t, t, "", <<<<8, Len(ps) \div 2>>, <<8, 0>>>>), Drop(t)>>, <<>>)
     : ps \in Parameters, t \in WLRS}

LanguageStatements ==
  WordCommands \cup LongAndStringCommands \cup TableCommands \cup CursorCommands
    \cup SwitchCommands \cup DialogCommands \cup ReferenceCommands \cup PrintCommands \cup MenuCommands \cup Returns
    \cup Assignments \cup DebugStatements \cup FunctionsAToF \cup FunctionsGToK
    \cup FunctionsLToR \cup FunctionsSToY \cup Procedures
=============================================================================
