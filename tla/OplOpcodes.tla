----------------------------- MODULE OplOpcodes -----------------------------
(***************************************************************************)
(* The numbers of the q-code: the translator's (oplt/inc/OPLTOKEN.H and     *)
(* oplt/stran/OPL16GEN.CPP: five tables written by hand) and the runtime's  *)
(* dispatch tables (oplr/src/OPCODES.CPP).  An operation is called by the   *)
(* name of the runtime's handler; one the runtime has no more keeps the     *)
(* translator's name.                                                      *)
(***************************************************************************)
EXTENDS Integers, Sequences, TLC

(* The versions of an operation for a word, a long, a real and a string.   *)
Three(name) == <<name \o "Int", name \o "Long", name \o "Float">>
Four(name) == Append(Three(name), name \o "String")

(* Consecutive enumerators.                                                *)
Numbered(base, names) ==
  [n \in {names[i] : i \in DOMAIN names} |-> base + (CHOOSE i \in DOMAIN names : names[i] = n) - 1]

-----------------------------------------------------------------------------
(* The translator.                                                         *)

(* TQcode16::TCode: what expressions are made of, commands, and the second *)
(* table of opcodes.                                                       *)
ExpressionCodes ==
  Numbered(\h28, <<"Constant">>) @@
  Numbered(\h30, <<"CompareLessThan">>) @@
  Numbered(\h34, <<"CompareLessOrEqual">>) @@
  Numbered(\h38, <<"CompareGreaterThan">>) @@
  Numbered(\h3c, <<"CompareGreaterOrEqual">>) @@
  Numbered(\h40, <<"CompareEqual">>) @@
  Numbered(\h44, <<"CompareNotEqual">>) @@
  Numbered(\h48, <<"Add">>) @@
  Numbered(\h4c, <<"Subtract">>) @@
  Numbered(\h4f, <<"StackByteAsWord", "Multiply">>) @@
  Numbered(\h53, <<"RunProcedure", "Divide">>) @@
  Numbered(\h57, <<"CallFunction", "PowerOf">>) @@
  Numbered(\h5b, <<"BranchIfFalse", "And">>) @@
  Numbered(\h5f, <<"StackByteAsLong", "Or">>) @@
  Numbered(\h63, <<"StackWordAsLong", "Not">>) @@
  Numbered(\h67, <<"Statement16", "UnaryMinus">>) @@
  Numbered(\h6b, <<"CallProcByStringExpr", "PercentLessThan", "PercentGreaterThan", "PercentAdd",
    "PercentSubtract", "PercentMultiply", "PercentDivide">>) @@
  Numbered(\h74, <<"ZeroReturn">>) @@
  Numbered(\h78, <<"LongToInt", "FloatToInt", "FloatToLong", "IntToLong", "IntToFloat", "LongToFloat",
    "LongToUInt", "FloatToUInt", "Drop">>) @@
  Numbered(\h84, <<"Assign">>) @@
  Numbered(\h88, <<"Print">>) @@
  Numbered(\h8c, <<"LPrint">>) @@
  Numbered(\h90, <<"PrintSpace", "LPrintSpace", "PrintCarriageReturn", "LPrintCarriageReturn", "Input">>)

CommandCodes ==
  Numbered(\h98, <<"PokeW", "PokeL", "PokeD", "PokeStr", "PokeB", "Append", "At", "Back", "Beep", "Close",
    "Cls", "Compress", "Copy", "Create", "Cursor", "Delete", "Erase", "Escape", "First",
    "Vector", "Last", "LClose", "LoadM", "LOpen", "Next", "OnErr", "Off", "OffFor", "Open",
    "Pause", "Position", "IoSignal", "Raise", "Randomize", "Rename", "Stop", "Trap", "Update",
    "Use", "GoTo", "Return", "UnLoadM", "Edit", "Screen2", "OpenR", "gSaveBit", "gClose",
    "gUse", "gSetWin", "gVisible", "gFont", "gUnloadFont", "gGMode", "gTMode", "gStyle",
    "gOrder", "gInfo", "gCls", "gAt", "gMove", "gPrint">>) @@
  Numbered(\hd8, <<"gPrintSpace", "gPrintBoxText", "gLineBy", "gBox", "gCircle", "gEllipse", "gPoly",
    "gFill", "gPatt", "gCopy", "gScroll", "gUpdate", "GetEvent", "gLineTo", "gPeekLine",
    "Screen4", "IoWaitStat", "IoYield", "mInit", "mCard", "dInit", "dItem", "SetName",
    "StatusWin", "Busy", "Lock", "gInvert", "gXPrint", "gBorder", "gClock", "MemoryRight",
    "MemoryLeft", "MkDir", "RmDir", "SetPath", "SecsToDate", "gIPrint">>)

ExtendedCodes ==
  Numbered(\hff, <<"NextOpcodeTable", "gGrey", "DefaultWin", "DiamInit", "DiamPos", "Font", "Style",
    "UseSprite", "AppendSprite", "DrawSprite", "ChangeSprite", "PosSprite", "CloseSprite",
    "FreeAlloc", "LinkLib", "Cache", "gButton", "gXBorder", "gDrawObject", "OdbInfo",
    "CacheTidy", "ScreenInfo", "CacheHdr", "CacheRec", "dInitS", "CallOpxFunc", "Statement32",
    "Modify", "Insert", "Cancel", "Put", "DeleteTable", "GotoMark", "KillMark",
    "ReturnFromEval", "GetEvent32", "GetEventA32", "gColor", "SetFlags", "SetDoc",
    "DaysToDate", "gInfo32", "IoWaitStat32", "Compact", "BeginTrans", "CommitTrans",
    "Rollback", "ClearFlags", "PointerFilter", "mCasc", "EvalExternalRightSideRef",
    "EvalExternalLeftSideRef", "gSetPenWidth", "dEditMulti", "gColorInfo", "gColorBackground",
    "mCardX", "SetHelp", "ShowHelp", "SetHelpUid", "gXBorder32">>)

TQcode16 == ExpressionCodes @@ CommandCodes @@ ExtendedCodes

(* TOplKeyword::TCode, in order, and QcodeTable beside it; the items of a dialog *)
(* have one opcode, and the distance from EDtext says which.                     *)
KeywordCodes ==
  <<"APPEND", "APPENDSPRITE", "AT", "BACK", "BEEP", "BREAK", "BUSY", "CACHE", "CACHEHDR",
    "CACHEREC", "CACHETIDY", "CHANGESPRITE", "CLOSE", "CLOSESPRITE", "CLS", "COMPRESS",
    "CONTINUE", "COPY", "CREATE", "CURSOR", "DTEXT", "DCHOICE", "DLONG", "DFLOAT", "DTIME",
    "DDATE", "DEDIT", "DSEDIT", "DXINPUT", "DFILE", "DBUTTONS", "DPOSITION", "DEFAULTWIN",
    "DELETE", "DIAMINIT", "DIAMPOS", "DINIT", "DINITS", "DRAWSPRITE", "EDIT", "ERASE",
    "ESCAPE", "FIRST", "FONT", "FREEALLOC", "GAT", "GBORDER", "GBOX", "GBUTTON", "GCLOCK",
    "GCLOSE", "GCLS", "GCOPY", "GDRAWOBJECT", "GETEVENT", "GFILL", "GFONT", "GGMODE", "GGREY",
    "GINFO", "GINVERT", "GIPRINT", "GLINEBY", "GLINETO", "GMOVE", "GORDER", "GOTO", "GPATT",
    "GPEEKLINE", "GPOLY", "GPRINT", "GPRINTSPACE", "GPRINTB", "GSAVEBIT", "GSCROLL",
    "GSETWIN", "GSTYLE", "GTMODE", "GUNLOADFONT", "GUPDATE", "GUSE", "GVISIBLE", "GXBORDER",
    "GXPRINT", "INPUT", "IOSIGNAL", "IOWAITSTAT", "IOYIELD", "LAST", "LCLOSE", "LINKLIB",
    "LOADM", "LOCK", "LOPEN", "LPRINT", "LPRINTSPACE", "LPRINTCRLF", "MCARD", "MINIT",
    "MKDIR", "NEXT", "ODBINFO", "OFF", "OFFTIME", "ONERR", "OPEN", "OPENR", "PAUSE", "POKEB",
    "POKEF", "POKEL", "POKES", "POKEW", "POSITION", "POSSPRITE", "PRINT", "PRINTSPACE",
    "PRINTCRLF", "RAISE", "RANDOMIZE", "RENAME", "RETURNVALUE", "RETURNNULL", "RMDIR",
    "SCREEN", "GSCREEN", "SCREENINFO", "SECSTODATE", "SETNAME", "SETPATH", "STATUSWIN",
    "STOP", "STYLE", "TRAP", "UNLOADM", "UPDATE", "USE", "USESPRITE", "MODIFY", "INSERT",
    "CANCEL", "PUT", "DELETETABLE", "GCIRCLE", "GELLIPSE", "GOTOMARK", "KILLMARK",
    "RETURNFROMEVAL", "GETEVENT32", "GETEVENTA32", "GCOLOR", "SETFLAGS", "SETDOC",
    "DAYSTODATE", "GINFO32", "IOWAITSTAT32", "COMPACT", "BEGINTRANS", "COMMITTRANS",
    "ROLLBACK", "CLEARFLAGS", "POINTERFILTER", "MCASC", "GSETPENWIDTH", "DEDITMULTI",
    "GCOLORINFO", "GCOLORBACKGROUND", "MCARDX", "SETHELP", "SHOWHELP", "SETHELPUID",
    "GXBORDER32">>

QcodeTable ==
  <<"Append", "AppendSprite", "At", "Back", "Beep", "NextOpcodeTable", "Busy", "Cache",
    "CacheHdr", "CacheRec", "CacheTidy", "ChangeSprite", "Close", "CloseSprite", "Cls",
    "Compress", "NextOpcodeTable", "Copy", "Create", "Cursor", "dItem", "dItem", "dItem",
    "dItem", "dItem", "dItem", "dItem", "dItem", "dItem", "dItem", "dItem", "dItem",
    "DefaultWin", "Delete", "DiamInit", "DiamPos", "dInit", "dInitS", "DrawSprite", "Edit",
    "Erase", "Escape", "First", "Font", "FreeAlloc", "gAt", "gBorder", "gBox", "gButton",
    "gClock", "gClose", "gCls", "gCopy", "gDrawObject", "GetEvent", "gFill", "gFont",
    "gGMode", "gGrey", "gInfo", "gInvert", "gIPrint", "gLineBy", "gLineTo", "gMove", "gOrder",
    "NextOpcodeTable", "gPatt", "gPeekLine", "gPoly", "gPrint", "gPrintSpace",
    "gPrintBoxText", "gSaveBit", "gScroll", "gSetWin", "gStyle", "gTMode", "gUnloadFont",
    "gUpdate", "gUse", "gVisible", "gXBorder", "gXPrint", "Input", "IoSignal", "IoWaitStat",
    "IoYield", "Last", "LClose", "LinkLib", "LoadM", "Lock", "LOpen", "LPrint", "LPrintSpace",
    "LPrintCarriageReturn", "mCard", "mInit", "MkDir", "Next", "OdbInfo", "Off", "OffFor",
    "NextOpcodeTable", "Open", "OpenR", "Pause", "PokeB", "PokeD", "PokeL", "PokeStr",
    "PokeW", "Position", "PosSprite", "Print", "PrintSpace", "PrintCarriageReturn", "Raise",
    "Randomize", "Rename", "Return", "ZeroReturn", "RmDir", "Screen2", "Screen4",
    "ScreenInfo", "SecsToDate", "SetName", "SetPath", "StatusWin", "Stop", "Style", "Trap",
    "UnLoadM", "Update", "Use", "UseSprite", "Modify", "Insert", "Cancel", "Put",
    "DeleteTable", "gCircle", "gEllipse", "GotoMark", "KillMark", "ReturnFromEval",
    "GetEvent32", "GetEventA32", "gColor", "SetFlags", "SetDoc", "DaysToDate", "gInfo32",
    "IoWaitStat32", "Compact", "BeginTrans", "CommitTrans", "Rollback", "ClearFlags",
    "PointerFilter", "mCasc", "gSetPenWidth", "dEditMulti", "gColorInfo", "gColorBackground",
    "mCardX", "SetHelp", "ShowHelp", "SetHelpUid", "gXBorder32">>

(* TQcode16::TFuncNumber.                                                  *)
TFuncNumber ==
  Numbered(\h0, <<"Addr", "Asc", "Call", "Count", "Day", "Dow", "Eof", "Err", "Exist", "Find", "Get", "Ioa",
    "Iow", "IoOpen", "IoWrite", "IoRead", "IoClose", "IoWait", "Hour", "Key", "Len", "Loc",
    "Minute", "Month", "PeekB", "PeekW", "Pos", "RecSize", "Second", "Usr", "Year", "SAddr",
    "Week", "IoSeek", "Kmod", "KeyA", "KeyC", "IoOpenUnique", "gCreate", "gCreateBit",
    "gLoadBit", "gLoadFont", "gRank", "gIdentity", "gX", "gY", "gWidth", "gHeight",
    "gOriginX", "gOriginY", "gTWidth", "gPrintClip", "TestEvent", "Os", "Menu", "Dialog",
    "Alert", "gCreateEnhanced", "MenuWithMemory", "CreateSprite", "LoadLib", "UnloadLib",
    "FindLib", "GetLibH", "Days", "IAbs", "IntLong", "PeekL", "Space", "DateToSecs", "NewObj",
    "NewObjH", "Send", "EnterSend", "EnterSend0", "Alloc", "ReAlloc", "AdjustAlloc",
    "LenAlloc", "Ioc", "Uadd", "Usub", "IoCancel", "StatWinInfo", "FindField", "Bookmark",
    "GetEventC", "InTrans", "mPopup">>) @@
  Numbered(\h80, <<"Abs", "ACos", "ASin", "ATan", "Cos", "Deg", "Exp", "Flt", "Intf", "Ln", "Log", "PeekF",
    "Pi", "Rad", "Rnd", "Sin", "Sqr", "Tan", "Val", "Max", "Mean", "Min", "Std", "Sum", "Var",
    "Eval">>) @@
  Numbered(\hc0, <<"ChrStr", "DatimStr", "DayNameStr", "DirStr", "ErrStr", "FixStr", "GenStr", "GetStr",
    "HexStr", "KeyStr", "LeftStr", "LowerStr", "MidStr", "MonthStr", "NumStr", "PeekStr",
    "ReptStr", "RightStr", "SciStr", "UpperStr", "UserS", "WCmd", "CmdStr", "ParseStr",
    "ErrxStr", "GetDocStr", "Size", "LocWithCase", "gPixel">>)

(* TOplFunction::TNumber, in order, and FunctionTable beside it.           *)
FunctionNumbers ==
  <<"ADDR", "ASC", "CALL", "COUNT", "DAY", "DOW", "EOF", "ERR", "EXIST", "FIND", "GET", "IOA",
    "IOW", "IOOPEN", "IOWRITE", "IOREAD", "IOCLOSE", "IOWAIT", "HOUR", "KEY", "LEN", "LOC",
    "MINUTE", "MONTH", "PEEKB", "PEEKW", "POS", "RECSIZE", "SECOND", "USER", "YEAR", "WEEK",
    "IOSEEK", "KMOD", "KEYA", "KEYC", "GCREATE", "GCREATEBIT", "GLOADBIT", "GLOADFONT",
    "GRANK", "GIDENTITY", "GX", "GY", "GWIDTH", "GHEIGHT", "GORIGINX", "GORIGINY", "GTWIDTH",
    "GPRINTCLIP", "TESTEVENT", "OS", "MENU", "DIALOG", "ALERT", "CREATESPRITE", "LOADLIB",
    "UNLOADLIB", "FINDLIB", "GETLIBH", "NEWOBJ", "NEWOBJH", "SEND", "ENTERSEND", "ENTERSEND0",
    "ALLOC", "REALLOC", "ADJUSTALLOC", "LENALLOC", "IOC", "UADD", "USUB", "IOCANCEL",
    "STATWININFO", "FINDFIELD", "DAYS", "IABS", "INT", "PEEKL", "SPACE", "DATETOSECS", "ABS",
    "ACOS", "ASIN", "ATAN", "COS", "DEG", "EXP", "FLT", "INTF", "LN", "LOG", "PEEKF", "PI",
    "RAD", "RND", "SIN", "SQR", "TAN", "VAL", "MAX", "MEAN", "MIN", "STD", "SUM", "VAR",
    "EVAL", "CHRS", "DATIM", "DAYNAMES", "DIRS", "ERRS", "FIXS", "GEN", "GETS", "HEXS",
    "KEYS", "LEFTS", "LOWERS", "MIDS", "MONTHS", "NUMS", "PEEKS", "REPTS", "RIGHTS", "SCIS",
    "UPPERS", "USERS", "GETCMDS", "CMDS", "PARSES", "SADDR", "GCREATEGREY", "IOOPENX",
    "MENUX", "BOOKMARK", "GETEVENTC", "ERRXS", "INTRANS", "GETDOCS", "MPOPUP", "SIZE", "LOCX",
    "GPIXEL">>

FunctionTable ==
  <<"Addr", "Asc", "Call", "Count", "Day", "Dow", "Eof", "Err", "Exist", "Find", "Get", "Ioa",
    "Iow", "IoOpen", "IoWrite", "IoRead", "IoClose", "IoWait", "Hour", "Key", "Len", "Loc",
    "Minute", "Month", "PeekB", "PeekW", "Pos", "RecSize", "Second", "Usr", "Year", "Week",
    "IoSeek", "Kmod", "KeyA", "KeyC", "gCreate", "gCreateBit", "gLoadBit", "gLoadFont",
    "gRank", "gIdentity", "gX", "gY", "gWidth", "gHeight", "gOriginX", "gOriginY", "gTWidth",
    "gPrintClip", "TestEvent", "Os", "Menu", "Dialog", "Alert", "CreateSprite", "LoadLib",
    "UnloadLib", "FindLib", "GetLibH", "NewObj", "NewObjH", "Send", "EnterSend", "EnterSend0",
    "Alloc", "ReAlloc", "AdjustAlloc", "LenAlloc", "Ioc", "Uadd", "Usub", "IoCancel",
    "StatWinInfo", "FindField", "Days", "IAbs", "IntLong", "PeekL", "Space", "DateToSecs",
    "Abs", "ACos", "ASin", "ATan", "Cos", "Deg", "Exp", "Flt", "Intf", "Ln", "Log", "PeekF",
    "Pi", "Rad", "Rnd", "Sin", "Sqr", "Tan", "Val", "Max", "Mean", "Min", "Std", "Sum", "Var",
    "Eval", "ChrStr", "DatimStr", "DayNameStr", "DirStr", "ErrStr", "FixStr", "GenStr",
    "GetStr", "HexStr", "KeyStr", "LeftStr", "LowerStr", "MidStr", "MonthStr", "NumStr",
    "PeekStr", "ReptStr", "RightStr", "SciStr", "UpperStr", "UserS", "WCmd", "CmdStr",
    "ParseStr", "SAddr", "gCreateEnhanced", "IoOpenUnique", "MenuWithMemory", "Bookmark",
    "GetEventC", "ErrxStr", "InTrans", "GetDocStr", "mPopup", "Size", "LocWithCase", "gPixel">>

IndexOf(names, name) == CHOOSE i \in DOMAIN names : names[i] = name

-----------------------------------------------------------------------------
(* The runtime.                                                            *)

Illegal(n) == [i \in 1 .. n |-> "IllegalOpCode"]

(* OpCode::OpCodeTable: its first 256 entries, and the others.             *)
LowOpCodes ==
  Four("SimpleDirectRightSide") \o Four("SimpleDirectLeftSide") \o
  Four("SimpleInDirectRightSide") \o Four("SimpleInDirectLeftSide") \o
  Four("ArrayDirectRightSide") \o Four("ArrayDirectLeftSide") \o
  Four("ArrayInDirectRightSide") \o Four("ArrayInDirectLeftSide") \o Four("FieldRightSide") \o
  <<"FieldLeftSide", "FieldLeftSide", "FieldLeftSide", "FieldLeftSide">> \o Four("Constant") \o
  Illegal(4) \o Four("CompareLessThan") \o Four("CompareLessOrEqual") \o
  Four("CompareGreaterThan") \o Four("CompareGreaterOrEqual") \o Four("CompareEqual") \o
  Four("CompareNotEqual") \o Four("Add") \o Three("Subtract") \o <<"StackByteAsWord">> \o
  Three("Multiply") \o <<"RunProcedure">> \o Three("Divide") \o <<"CallFunction">> \o
  Three("PowerOf") \o <<"BranchIfFalse">> \o Three("And") \o <<"StackByteAsLong">> \o
  Three("Or") \o <<"StackWordAsLong">> \o Three("Not") \o <<"Statement16">> \o
  Three("UnaryMinus") \o
  <<"CallProcByStringExpr", "PercentLessThan", "PercentGreaterThan", "PercentAdd",
      "PercentSubtract", "PercentMultiply", "PercentDivide">> \o Illegal(2) \o
  Three("ZeroReturn") \o <<"NullReturnString">>

HighOpCodes ==
  <<"LongToInt", "FloatToInt", "FloatToLong", "IntToLong", "IntToFloat",
      "LongToFloat", "LongToUInt", "FloatToUInt">> \o Four("Drop") \o Four("Assign") \o
  Four("Print") \o Four("LPrint") \o
  <<"PrintSpace", "LPrintSpace", "PrintCarriageReturn", "LPrintCarriageReturn">> \o
  Four("Input") \o
  <<"PokeW", "PokeL", "PokeD", "PokeStr", "PokeB", "Append", "At", "Back", "Beep", "Close",
      "Cls">> \o Illegal(1) \o
  <<"Copy", "Create", "Cursor", "Delete", "Erase", "Escape", "First", "Vector", "Last",
      "LClose", "LoadM", "LOpen", "Next", "OnErr", "Off", "OffFor", "Open", "Pause",
      "Position", "IoSignal", "Raise", "Randomize", "Rename", "Stop", "Trap", "Update", "Use",
      "GoTo", "Return", "UnLoadM", "Edit", "Screen2", "OpenR", "gSaveBit", "gClose", "gUse",
      "gSetWin", "gVisible", "gFont", "gUnloadFont", "gGMode", "gTMode", "gStyle", "gOrder">> \o
  Illegal(1) \o <<"gCls", "gAt", "gMove", "gPrintWord", "gPrintLong", "gPrintDbl", "gPrintStr",
      "gPrintSpace", "gPrintBoxText", "gLineBy", "gBox", "gCircle", "gEllipse", "gPoly",
      "gFill", "gPatt", "gCopy", "gScroll", "gUpdate", "GetEvent", "gLineTo", "gPeekLine",
      "Screen4", "IoWaitStat", "IoYield", "mInit", "mCard", "dInit", "dItem">> \o Illegal(2) \o
  <<"Busy", "Lock", "gInvert", "gXPrint", "gBorder", "gClock">> \o Illegal(2) \o
  <<"MkDir", "RmDir", "SetPath", "SecsToDate", "gIPrint">> \o Illegal(2) \o
  <<"NextOpcodeTable">>

OpCodes == LowOpCodes \o HighOpCodes

ExtendedOpCodes ==
  <<"gGrey", "DefaultWin">> \o Illegal(2) \o <<"Font", "Style">> \o
  Illegal(6) \o <<"FreeAlloc">> \o Illegal(2) \o
  <<"gButton", "gXBorder">> \o Illegal(3) \o <<"ScreenInfo">> \o Illegal(3) \o
  <<"CallOpxFunc", "Statement32", "Modify", "Insert", "Cancel", "Put", "DeleteTable",
      "GotoMark", "KillMark", "ReturnFromEval", "GetEvent32", "GetEventA32", "gColor",
      "SetFlags", "SetDoc", "DaysToDate", "gInfo32", "IoWaitStat32", "Compact", "BeginTrans",
      "CommitTrans", "Rollback", "ClearFlags", "PointerFilter", "mCasc",
      "EvalExternalRightSideRef", "EvalExternalLeftSideRef", "gSetPenWidth", "dEditMulti",
      "gColorInfo", "gColorBackground", "mCardX", "SetHelp", "ShowHelp", "SetHelpUid",
      "gXBorder32">> \o Illegal(196)

(* FuncOpCode::FuncOpCodeTable: functions that return integers, the others. *)
WordFuncOpCodes ==
  <<"Addr", "Asc">> \o Illegal(1) \o
  <<"Count", "Day", "Dow", "Eof", "Err", "Exist", "Find", "Get", "Ioa", "Iow", "IoOpen",
      "IoWrite", "IoRead", "IoClose", "IoWait", "Hour", "Key", "Len", "Loc", "Minute",
      "Month", "PeekB", "PeekW", "Pos">> \o Illegal(1) \o <<"Second">> \o Illegal(1) \o
  <<"Year", "SAddr", "Week", "IoSeek", "Kmod", "KeyA", "KeyC", "IoOpenUnique", "gCreate",
      "gCreateBit", "gLoadBit", "gLoadFont", "gRank", "gIdentity", "gX", "gY", "gWidth",
      "gHeight", "gOriginX", "gOriginY", "gTWidth", "gPrintClip", "TestEvent">> \o
  Illegal(1) \o <<"Menu", "Dialog", "Alert", "gCreateEnhanced", "MenuWithMemory">> \o
  Illegal(5) \o <<"Days", "IAbs", "IntLong", "PeekL", "Space", "DateToSecs">> \o Illegal(5) \o
  <<"Alloc", "ReAlloc", "AdjustAlloc", "LenAlloc", "Ioc", "Uadd", "Usub", "IoCancel">> \o
  Illegal(1) \o <<"FindField", "Bookmark", "GetEventC", "InTrans", "mPopup">> \o Illegal(39)

OtherFuncOpCodes ==
  <<"Abs", "ACos", "ASin", "ATan", "Cos", "Deg", "Exp", "Flt", "Intf", "Ln", "Log", "PeekF",
      "Pi", "Rad", "Rnd", "Sin", "Sqr", "Tan", "Val", "Max", "Mean", "Min", "Std", "Sum",
      "Var", "Eval">> \o Illegal(38) \o
  <<"ChrStr", "DatimStr", "DayNameStr", "DirStr", "ErrStr", "FixStr", "GenStr", "GetStr",
      "HexStr", "KeyStr", "LeftStr", "LowerStr", "MidStr", "MonthStr", "NumStr", "PeekStr",
      "ReptStr", "RightStr", "SciStr", "UpperStr">> \o Illegal(1) \o
  <<"WCmd", "CmdStr", "ParseStr", "ErrxStr", "GetDocStr", "Size", "LocWithCase", "gPixel">> \o
  Illegal(3)

FuncOpCodes == WordFuncOpCodes \o OtherFuncOpCodes

(* The handler of an opcode and of a function.                             *)
Handler(qcode) == IF qcode < 256 THEN OpCodes[qcode + 1] ELSE ExtendedOpCodes[qcode - 255]
FunctionHandler(number) ==
  IF number < Len(FuncOpCodes) THEN FuncOpCodes[number + 1] ELSE "IllegalOpCode"
=============================================================================
