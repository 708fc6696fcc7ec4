----------------------------- MODULE OplHandlers -----------------------------
(***************************************************************************)
(* What the handlers of the runtime take from the code and from the stack  *)
(* and what they leave there (oplr/src: the functions of OpCode and        *)
(* FuncOpCode).  Each table stands for the handlers of one file.           *)
(*                                                                         *)
(* Items of the stack: "w", "l", "r", "s" a word, long, real or string;    *)
(* "&w" .. "&s" the address of a variable; "var" and "field" the word that *)
(* tells the left side of a variable from that of a field; "pw" .. "ps"    *)
(* the word that gives the type of a procedure's parameter.  What a handler *)
(* pops is listed in the order of the calls of Pop; "&" is any address and *)
(* "flag" the word of a left side.                                         *)
(***************************************************************************)
EXTENDS Integers, Sequences, TLC

W == <<"w">>
L == <<"l">>
R == <<"r">>
S == <<"s">>
Flag == <<"flag">>
Ref(t) == <<"&" \o t>>
None == <<>>

TypeNames == [w |-> "Int", l |-> "Long", r |-> "Float", s |-> "String"]

RECURSIVE Times(_, _)
Times(n, items) == IF n = 0 THEN <<>> ELSE items \o Times(n - 1, items)

(* What is read from the code besides numbers of 8 to 64 bits.             *)
Text == 1
FieldNames == 2

(* The items popped, for each value of the byte the handler reads.         *)
Effect(reads, pops, gives) == [reads |-> reads, pops |-> pops, gives |-> gives]
Always(pops) == [q \in {0} |-> pops]
Takes(pops) == Effect(<<>>, Always(pops), None)
Maps(pops, gives) == Effect(<<>>, Always(pops), gives)
Gives(gives) == Maps(None, gives)
Counted(pops, gives) == Effect(<<8>>, pops, gives)

(* The versions of a handler for several types.                            *)
ForTypes(name, types, EffectOf(_)) ==
  [n \in {name \o TypeNames[t] : t \in types} |->
     EffectOf(CHOOSE t \in types : n = name \o TypeNames[t])]
WLRS == {"w", "l", "r", "s"}
WLR == {"w", "l", "r"}
Binary(name, types) == ForTypes(name, types, LAMBDA t : Maps(<<t, t>>, <<t>>))
Unary(name, types) == ForTypes(name, types, LAMBDA t : Maps(<<t>>, <<t>>))
Comparing(name) == ForTypes(name, WLRS, LAMBDA t : Maps(<<t, t>>, W))
Popping(name) == ForTypes(name, WLRS, LAMBDA t : Takes(<<t>>))

-----------------------------------------------------------------------------
(* PUSHOC.CPP.  The left side of a string has its maximum length below it. *)
LeftSide(t) == (IF t = "s" THEN W ELSE None) \o Ref(t) \o <<"var">>

SimpleSides(side) ==
  ForTypes("Simple" \o side \o "RightSide", WLRS,
           LAMBDA t : Effect(<<16>>, Always(None), <<t>>)) @@
  ForTypes("Simple" \o side \o "LeftSide", WLRS,
           LAMBDA t : Effect(<<16>>, Always(None), LeftSide(t)))
ArraySides(side) ==
  ForTypes("Array" \o side \o "RightSide", WLRS,
           LAMBDA t : Effect(<<16>>, Always(W), <<t>>)) @@
  ForTypes("Array" \o side \o "LeftSide", WLRS,
           LAMBDA t : Effect(<<16>>, Always(W), LeftSide(t)))
Constants ==
  [ConstantInt |-> Effect(<<16>>, Always(None), W),
   ConstantLong |-> Effect(<<32>>, Always(None), L),
   ConstantFloat |-> Effect(<<64>>, Always(None), R),
   ConstantString |-> Effect(<<Text>>, Always(None), S),
   StackByteAsWord |-> Effect(<<8>>, Always(None), W),
   StackByteAsLong |-> Effect(<<8>>, Always(None), L),
   StackWordAsLong |-> Effect(<<16>>, Always(None), L)] @@
  Popping("Drop")
ZeroReturns ==
  ForTypes("ZeroReturn", WLR, LAMBDA t : Gives(<<t>>)) @@
  [NullReturnString |-> Gives(S), Return |-> Gives(None)]
Pushes ==
  SimpleSides("Direct") @@ SimpleSides("InDirect") @@ ArraySides("Direct")
    @@ ArraySides("InDirect") @@ Constants @@ ZeroReturns

(* ASSIGN.CPP, for a variable: that of a field takes the name and the logical *)
(* name, which FieldLeftSide has left, instead of the address.              *)
Assigning(t) == (IF t = "s" THEN S \o Flag \o Ref("s") \o W ELSE <<t>> \o Flag \o Ref(t))
Assign == ForTypes("Assign", WLRS, LAMBDA t : Takes(Assigning(t)))

-----------------------------------------------------------------------------
(* CONKYWD.CPP.                                                            *)
Printing == Popping("Print") @@ [PrintSpace |-> Takes(None), PrintCarriageReturn |-> Takes(None)]
Inputs ==
  ForTypes("Input", WLRS, LAMBDA t : Takes(Flag \o Ref(t) \o (IF t = "s" THEN W ELSE None))) @@
  [Edit |-> Takes(Flag \o Ref("s") \o W), ScreenInfo |-> Takes(L)]
ConsoleKeywords ==
  [Get |-> Gives(W), Key |-> Gives(W), Kmod |-> Gives(W), GetStr |-> Gives(S),
   KeyStr |-> Gives(S), At |-> Takes(W \o W), Cls |-> Takes(None),
   Screen2 |-> Takes(W \o W), Screen4 |-> Takes(Times(4, W)), Font |-> Takes(W \o L),
   Style |-> Takes(W), GetEvent |-> Takes(L), GetEvent32 |-> Takes(L),
   GetEventA32 |-> Takes(L \o L), Pause |-> Takes(W), KeyA |-> Maps(L \o L, W),
   KeyC |-> Maps(L, W), TestEvent |-> Gives(W), GetEventC |-> Maps(L, W)]

(* FILEKEY.CPP.                                                            *)
FileKeywords ==
  [ParseStr |-> Maps(L \o S \o S, S), DirStr |-> Maps(S, S), Copy |-> Takes(S \o S),
   Delete |-> Takes(S), Rename |-> Takes(S \o S), MkDir |-> Takes(S), RmDir |-> Takes(S),
   SetPath |-> Takes(S), Exist |-> Maps(S, W)]

(* LB_MISC.CPP, EN_APARC.CPP, EN_ERROR.CPP, EN_CTRL.CPP, MODULE.CPP and    *)
(* DEBUGGER.CPP.                                                           *)
OnOff == Counted([q \in {0, 1} |-> None], None)
Miscellaneous ==
  [Escape |-> OnOff, Off |-> Takes(None), OffFor |-> Takes(W), Beep |-> Takes(W \o W)]
Settings ==
  [ClearFlags |-> Takes(L), SetFlags |-> Takes(L), PointerFilter |-> Takes(W \o W),
   SetHelp |-> Takes(S \o W), ShowHelp |-> Takes(None), SetHelpUid |-> Takes(L)]
Applications ==
  [CmdStr |-> Maps(W, S), SetDoc |-> Takes(S), GetDocStr |-> Gives(S), Lock |-> OnOff,
   WCmd |-> Gives(S)]
Errors ==
  [Trap |-> Takes(None), Raise |-> Takes(W), Err |-> Gives(W), ErrStr |-> Maps(W, S),
   ErrxStr |-> Gives(S)]
Control ==
  [Stop |-> Takes(None), LoadM |-> Takes(S), UnLoadM |-> Takes(S)]
Statements ==
  [Statement16 |-> Effect(<<16>>, Always(None), None),
   Statement32 |-> Effect(<<32>>, Always(None), None)]

(* LB_DATE.CPP.                                                            *)
Dates ==
  [Day |-> Gives(W), Hour |-> Gives(W), Minute |-> Gives(W), Month |-> Gives(W),
   Second |-> Gives(W), Year |-> Gives(W), Dow |-> Maps(Times(3, W), W),
   Week |-> Maps(Times(3, W), W), Days |-> Maps(Times(3, W), L)]
DateConversions ==
  [DaysToDate |-> Takes(Times(3, L) \o L), DateToSecs |-> Maps(Times(6, W), L),
   SecsToDate |-> Takes(Times(7, L) \o L), DatimStr |-> Gives(S),
   DayNameStr |-> Maps(W, S), MonthStr |-> Maps(W, S)]

(* PEEKPOKE.CPP.                                                           *)
PeekPoke ==
  [PeekB |-> Maps(L, W), PeekW |-> Maps(L, W), PeekL |-> Maps(L, L), PeekF |-> Maps(L, R),
   PeekStr |-> Maps(L, S), PokeW |-> Takes(W \o L), PokeL |-> Takes(L \o L),
   PokeD |-> Takes(R \o L), PokeStr |-> Takes(S \o L), PokeB |-> Takes(W \o L)]
Allocation ==
  [Addr |-> Maps(Flag \o <<"&">>, L), SAddr |-> Maps(Flag \o Ref("s") \o W, L),
   Alloc |-> Maps(L, L), ReAlloc |-> Maps(L \o L, L), AdjustAlloc |-> Maps(Times(3, L), L),
   LenAlloc |-> Maps(L, L), FreeAlloc |-> Takes(L)]

(* IOKEYWRD.CPP.                                                           *)
ListPrinting ==
  Popping("LPrint") @@
  [LPrintSpace |-> Takes(None), LPrintCarriageReturn |-> Takes(None),
   LOpen |-> Takes(S), LClose |-> Takes(None), IoWaitStat |-> Takes(L),
   IoWaitStat32 |-> Takes(L), IoYield |-> Takes(None)]
InputOutput ==
  [Ioa |-> Maps(Times(3, L) \o W \o W, W), Iow |-> Maps(L \o L \o W \o W, W),
   IoOpen |-> Maps(W \o S \o L, W), IoOpenUnique |-> Maps(W \o L \o L, W),
   IoWrite |-> Maps(W \o L \o W, W), IoRead |-> Maps(W \o L \o W, W),
   IoSignal |-> Takes(None), IoSeek |-> Maps(L \o W \o W, W), IoClose |-> Maps(W, W),
   IoWait |-> Gives(W), IoCancel |-> Maps(W, W),
   Ioc |-> Counted([q \in 3 .. 5 |-> Times(q - 3, L) \o L \o W \o W], W)]

-----------------------------------------------------------------------------
(* EN_ARITH.CPP.                                                           *)
Logic ==
  Binary("And", {"w", "l"}) @@ Binary("Or", {"w", "l"}) @@ Unary("Not", {"w", "l"}) @@
  [AndFloat |-> Maps(R \o R, W), OrFloat |-> Maps(R \o R, W), NotFloat |-> Maps(R, W)] @@
  Unary("UnaryMinus", WLR) @@ [Uadd |-> Maps(W \o W, W), Usub |-> Maps(W \o W, W)]

(* EN_CMP.CPP.                                                             *)
Ordering == Comparing("CompareLessThan") @@ Comparing("CompareLessOrEqual") @@
            Comparing("CompareGreaterThan")
Equality == Comparing("CompareGreaterOrEqual") @@ Comparing("CompareEqual") @@
            Comparing("CompareNotEqual")

(* OPLCONV.CPP.                                                            *)
Casts ==
  [LongToInt |-> Maps(L, W), FloatToInt |-> Maps(R, W), FloatToLong |-> Maps(R, L),
   IntToLong |-> Maps(W, L), IntToFloat |-> Maps(W, R), LongToFloat |-> Maps(L, R),
   LongToUInt |-> Maps(L, W), FloatToUInt |-> Maps(R, W)]
Strings ==
  [LeftStr |-> Maps(W \o S, S), LowerStr |-> Maps(S, S), MidStr |-> Maps(W \o W \o S, S),
   ReptStr |-> Maps(W \o S, S), RightStr |-> Maps(W \o S, S), UpperStr |-> Maps(S, S),
   Len |-> Maps(S, W), Size |-> Maps(S, W), Asc |-> Maps(S, W), ChrStr |-> Maps(W, S),
   Loc |-> Maps(S \o S, W), LocWithCase |-> Maps(W \o S \o S, W)]

(* LB_MATHS.CPP.  A statistical function takes an array and the number of  *)
(* its elements, or as many reals as it says.                              *)
Sums ==
  Binary("Add", WLRS) @@ Binary("Subtract", WLR) @@ Binary("Multiply", WLR) @@
  Binary("Divide", WLR) @@ Binary("PowerOf", WLR) @@ [Eval |-> Maps(S, R)]
PercentHandlers ==
  {"PercentLessThan", "PercentGreaterThan", "PercentAdd", "PercentSubtract",
   "PercentMultiply", "PercentDivide"}
Percentages == [n \in PercentHandlers |-> Maps(R \o R, R)]
RealFunctions ==
  [n \in {"Abs", "ACos", "ASin", "ATan", "Cos", "Deg", "Exp", "Intf", "Ln", "Log", "Rad",
          "Sin", "Sqr", "Tan"} |-> Maps(R, R)] @@
  [IAbs |-> Maps(L, L), Flt |-> Maps(L, R), IntLong |-> Maps(R, L), Pi |-> Gives(R),
   Rnd |-> Gives(R), Val |-> Maps(S, R)]
MostStatistics == 2
Statistics ==
  [n \in {"Max", "Mean", "Min", "Std", "Sum", "Var"} |->
     Counted([q \in 0 .. MostStatistics |-> IF q = 0 THEN W \o Flag \o Ref("r") ELSE Times(q, R)], R)]
Numerals ==
  [FixStr |-> Maps(W \o W \o R, S), GenStr |-> Maps(W \o R, S), HexStr |-> Maps(L, S),
   NumStr |-> Maps(W \o R, S), SciStr |-> Maps(W \o W \o R, S), Randomize |-> Takes(L)]

-----------------------------------------------------------------------------
(* LB_DBASE.CPP.  The left side of a field leaves its name on the stack.   *)
Field(gives, pops) == Effect(<<8>>, Always(pops), gives)
FieldSides ==
  ForTypes("FieldRightSide", WLRS, LAMBDA t : Field(<<t>>, S)) @@
  [FieldLeftSide |-> Field(W \o <<"field">>, None)]
OpenTable == Effect(<<8, FieldNames>>, Always(S), None)
Tables ==
  [Create |-> OpenTable, Open |-> OpenTable, OpenR |-> OpenTable]
Rows ==
  [Use |-> Effect(<<8>>, Always(None), None), Find |-> Maps(S, W),
   FindField |-> Maps(W \o W \o W \o S, W), Count |-> Gives(W), Position |-> Takes(W),
   Pos |-> Gives(W), Eof |-> Gives(W)] @@
  [n \in {"Last", "First", "Next", "Back", "Erase", "Close"} |-> Takes(None)]
Updates ==
  [Space |-> Gives(L), Bookmark |-> Gives(W), GotoMark |-> Takes(W), KillMark |-> Takes(W),
   InTrans |-> Gives(W), Compact |-> Takes(S), DeleteTable |-> Takes(S \o S)] @@
  [n \in {"Update", "Append", "BeginTrans", "CommitTrans", "Rollback", "Modify", "Insert", "Put",
          "Cancel"} |-> Takes(None)]

-----------------------------------------------------------------------------
(* G_KEYWRD.CPP.                                                           *)
Drawing ==
  [n \in {"gAt", "gMove", "gBox", "gLineBy", "gLineTo"} |-> Takes(W \o W)] @@
  [gBorder |-> Counted([q \in {1, 3} |-> (IF q = 3 THEN W \o W ELSE None) \o W], None),
   gUse |-> Takes(W), gCls |-> Takes(None)]
Windows ==
  [gEllipse |-> Counted([q \in {0, 1} |-> Times(q, W) \o W \o W], None),
   gCircle |-> Counted([q \in {0, 1} |-> Times(q, W) \o W], None),
   gSetPenWidth |-> Takes(W), gVisible |-> OnOff,
   gSetWin |-> Counted([q \in {2, 4} |-> (IF q = 4 THEN W \o W ELSE None) \o W \o W], None),
   gOrder |-> Takes(W \o W), gClose |-> Takes(W), gPrintWord |-> Takes(W),
   gPrintLong |-> Takes(L), gPrintDbl |-> Takes(R), gPrintStr |-> Takes(S),
   gPrintSpace |-> Takes(None),
   gSaveBit |-> Counted([q \in {0, 1} |-> Times(q, W \o W) \o S], None)]
Modes ==
  [gGMode |-> Takes(W), gTMode |-> Takes(W), gFill |-> Takes(Times(3, W)), gPoly |-> Takes(L),
   gStyle |-> Takes(W), gInvert |-> Takes(W \o W)]
Cursors ==
  [gScroll |-> Counted([q \in {2, 6} |-> (IF q = 6 THEN Times(4, W) ELSE None) \o W \o W], None),
   gCopy |-> Takes(Times(6, W)),
   Cursor |-> Counted([q \in 0 .. 4 |-> Times(CASE q < 2 -> 0 [] q = 2 -> 1 [] OTHER -> q + 1, W)], None)]
Fonts ==
  [gPatt |-> Takes(Times(4, W)), gUpdate |-> Counted([q \in {0, 1, 255} |-> None], None),
   gLoadFont |-> Maps(S, W), gUnloadFont |-> Takes(W), gFont |-> Takes(L),
   DefaultWin |-> Takes(W)]
Borders ==
  [gXBorder |-> Counted([q \in {2, 4} |-> (IF q = 4 THEN W \o W ELSE None) \o W \o W], None),
   gXBorder32 |-> Counted([q \in {0, 3} |-> (IF q = 3 THEN W \o W ELSE None) \o L], None),
   gXPrint |-> Takes(W \o S)]
Drawables ==
  [gCreate |-> Maps(Times(5, W), W), gCreateEnhanced |-> Maps(Times(6, W), W),
   gCreateBit |-> Counted([q \in {2, 3} |-> Times(q, W)], W),
   gLoadBit |-> Counted([q \in 1 .. 3 |-> Times(q - 1, W) \o S], W)] @@
  [n \in {"gIdentity", "gX", "gY", "gWidth", "gHeight", "gOriginX", "gOriginY", "gRank"} |->
     Gives(W)]
Printed ==
  [gPixel |-> Maps(W \o W, L), gPrintClip |-> Maps(W \o S, W), gTWidth |-> Maps(S, W),
   gPrintBoxText |-> Counted([q \in 1 .. 5 |-> Times(q, W) \o S], None)]
Buttons ==
  [gButton |-> Counted([q \in 0 .. 3 |->
                 (IF q = 3 THEN W ELSE None) \o Times(IF q > 2 THEN 2 ELSE q, L)
                   \o Times(4, W) \o S], None),
   Busy |-> Counted([q \in 0 .. 3 |->
              IF q = 0 THEN None ELSE Times(q - 1, W) \o S], None),
   gIPrint |-> Counted([q \in {0, 1} |-> Times(q, W) \o S], None)]
Information ==
  [gInfo32 |-> Takes(L), gPeekLine |-> Takes(W \o W \o L \o Times(3, W)),
   gColor |-> Takes(Times(3, W)), gColorBackground |-> Takes(Times(3, W)), gGrey |-> Takes(W)]
Clocks ==
  [gClock |-> Counted([q \in 0 .. 6 |->
      Times(IF q >= 6 THEN 1 ELSE 0, W) \o Times(IF q >= 5 THEN 1 ELSE 0, L)
        \o Times(IF q >= 4 THEN 1 ELSE 0, S) \o Times(IF q >= 3 THEN 1 ELSE 0, L)
        \o Times(IF q >= 2 THEN 1 ELSE 0, W)], None),
   gColorInfo |-> Takes(L)]

-----------------------------------------------------------------------------
(* EIK_KEY.CPP.  doProcessItems takes the items of a menu one by one.      *)
MostItems == 2
Items(n) == Times(n, W \o S)
Menus ==
  [mPopup |-> Counted([q \in {3 + 2 * n : n \in 1 .. MostItems} |->
                Items((q - 3) \div 2) \o Times(3, W)], W),
   mInit |-> Takes(None),
   mCard |-> Counted([q \in 1 .. MostItems |-> Items(q) \o S], None),
   mCasc |-> Counted([q \in 1 .. MostItems |-> Items(q) \o S], None),
   mCardX |-> Counted([q \in 1 .. MostItems |-> Items(q) \o W \o W], None),
   Menu |-> Gives(W), MenuWithMemory |-> Maps(L, W)]
Dialogs ==
  [Dialog |-> Gives(W),
   dInit |-> Counted([q \in 0 .. 2 |-> (IF q = 2 THEN W ELSE None) \o Times(IF q > 0 THEN 1 ELSE 0, S)],
                     None)]

(* dItem reads the number of the item, and a count after some of them.     *)
DialogItemCounts == {0, 1, 8, 10}
DialogChoice(item, q) == Times(q, W) \o S \o S \o (IF item = 1 THEN Flag \o Ref("w") ELSE None)
DialogNumber(item) ==
  CASE item \in {2, 5} -> L \o L \o S \o Flag \o Ref("l")
    [] item = 3 -> R \o R \o S \o Flag \o Ref("r")
    [] item = 4 -> L \o L \o W \o S \o Flag \o Ref("l")
DialogText(item, q) ==
  (CASE item = 6 -> None [] item = 7 -> W [] item = 8 -> Times(q, W) [] item = 9 -> Times(3, L) \o W)
    \o S \o Flag \o Ref("s") \o W
DialogItem(item, q) ==
  CASE item \in {0, 1} -> DialogChoice(item, q)
    [] item \in 2 .. 5 -> DialogNumber(item)
    [] item \in 6 .. 9 -> DialogText(item, q)
    [] item = 10 -> Items(q)
    [] item = 11 -> W \o W
Editors ==
  [dEditMulti |-> Counted([q \in {0, 1} |-> Times(q, W) \o L \o W \o W \o S \o L], None),
   Alert |-> Counted([q \in 1 .. 5 |-> Times(q, S)], W)]

-----------------------------------------------------------------------------
Handlers ==
  Pushes @@ Assign @@ Printing @@ Inputs @@ ConsoleKeywords @@ FileKeywords
    @@ Miscellaneous @@ Settings @@ Applications @@ Errors @@ Control @@ Statements @@ Dates @@ DateConversions
    @@ PeekPoke @@ Allocation
    @@ ListPrinting @@ InputOutput @@ Logic @@ Ordering @@ Equality @@ Casts @@ Strings
    @@ Sums @@ Percentages @@ RealFunctions @@ Statistics @@ Numerals @@ FieldSides @@ Tables @@ Rows @@ Updates
    @@ Drawing @@ Windows @@ Modes @@ Cursors @@ Fonts @@ Borders @@ Drawables @@ Printed
    @@ Buttons @@ Information @@ Clocks @@ Menus @@ Dialogs @@ Editors
=============================================================================
