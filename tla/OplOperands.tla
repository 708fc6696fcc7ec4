----------------------------- MODULE OplOperands -----------------------------
(***************************************************************************)
(* The q-code of one statement or expression: the translator's back end    *)
(* (oplt/stran/OPL16GEN.CPP) turns p-code into numbers and bytes and keeps *)
(* an account of the stack it will take; the runtime reads the bytes, finds *)
(* a handler by the number (oplr/src/OPCODES.CPP), and the handler takes   *)
(* from the stack what it believes to be there.  Nothing but two sets of   *)
(* tables written by hand makes the two agree: a release build checks no   *)
(* type.                                                                   *)
(*                                                                         *)
(* The code is run as it is written: what comes of one p-code is run       *)
(* before the next is converted.                                           *)
(***************************************************************************)
EXTENDS OplExpressions, OplOpx, OplOpcodes

CONSTANT SomeStatements   \* the statements translated besides the expressions

VARIABLES
  statement,
  left,             \* the arguments still to come
  pcode,            \* the p-code of the present one
  qcode, type,      \* the q-code of one p-code, and the type of that
  account,          \* iStackDepth, iMaxStackDepth and iStackDepths
  stack,            \* what the runtime has on its stack
  status            \* "parse", "arguments", "ending", "done", or what went wrong

machine == <<statement, left, pcode, qcode, type, account, stack, status>>
vars == <<exprVars, machine>>

-----------------------------------------------------------------------------
(* The p-code of an argument.                                              *)

Constant(t, size) == PCode("constant", t, t, size, <<>>)
Identifier(name, t) == PCode("identifier", t, t, name, <<>>)
EvalIdentifier(name, t) == PCode("identifier", t, t, name, <<<<Text, 0>>, <<16, 0>>>>)
FieldSide(name, t) == PCode("field", t, t, name, <<<<8, 0>>>>)
Cast(t, to) == PCode("cast", t, to, "", <<>>)
List == Code("list")

Sizes == [w |-> {"byte", "word"}, l |-> {"byte", "word", "long"}, r |-> {"real"}, s |-> {"text"}]
Index == Constant("w", "byte")

(* IdentifierReferenceL, SimpleOrArrayRefL and FieldReferenceL.            *)
RightSides(t) ==
  {<<Identifier(name, t)>> : name \in {"SimpleDirectRightSide", "SimpleInDirectRightSide"}} \cup
  {<<Index, Identifier(name, t)>> : name \in {"ArrayDirectRightSide", "ArrayInDirectRightSide"}} \cup
  {<<EvalIdentifier("EvalExternalRightSideRef", t)>>, <<FieldSide("FieldRightSide", t)>>}
LeftSides(t) ==
  {<<Identifier(name, t)>> : name \in {"SimpleDirectLeftSide", "SimpleInDirectLeftSide"}} \cup
  {<<Index, Identifier(name, t)>> : name \in {"ArrayDirectLeftSide", "ArrayInDirectLeftSide"}} \cup
  {<<EvalIdentifier("EvalExternalLeftSideRef", t)>>, <<FieldSide("FieldLeftSide", t)>>}

OwnValues(t) == {<<Constant(t, size)>> : size \in Sizes[t]} \cup RightSides(t)
Values(t) ==
  OwnValues(t) \cup
  (IF t = "s" THEN {}
   ELSE {<<Identifier("SimpleDirectRightSide", u), Cast(u, t)>> : u \in WLR \ {t}})

(* ArgumentByRefL: the address of a left side, or a long after #.          *)
AddressOf(t) == PCode("call", "l", "l", IF t = "s" THEN "SADDR" ELSE "ADDR", <<>>)
References(types) ==
  UNION {{<<List>> \o side \o <<AddressOf(t)>> : side \in LeftSides(t)} : t \in types}
    \cup Values("l")

ArgumentCode ==
  [t \in WLRS |-> Values(t)] @@ [a \in {"=" \o t : t \in WLRS} |->
     OwnValues(CHOOSE t \in WLRS : a = "=" \o t)] @@
  [a \in {"&" \o t : t \in WLRS} |-> LeftSides(CHOOSE t \in WLRS : a = "&" \o t)] @@
  [a \in {"type " \o t : t \in WLRS} |->
     LET t == CHOOSE t \in WLRS : a = "type " \o t IN {<<PCode("argument", t, t, "", <<>>)>>}] @@
  ("@" :> References(WLRS)) @@ ("@w" :> References({"w"})) @@ ("@l" :> References({"l"})) @@
  ("flag" :> {<<Index>>}) @@ ("zero" :> {<<Constant("l", "byte")>>}) @@ ("list" :> {<<List>>})

(* The p-code of an expression that OplExpressions has parsed.             *)
OperatorNames ==
  [op \in {"<"} |-> "CompareLessThan"] @@ [op \in {"<="} |-> "CompareLessOrEqual"] @@
  [op \in {">"} |-> "CompareGreaterThan"] @@ [op \in {">="} |-> "CompareGreaterOrEqual"] @@
  [op \in {"="} |-> "CompareEqual"] @@ [op \in {"<>"} |-> "CompareNotEqual"] @@
  [op \in {"+"} |-> "Add"] @@ [op \in {"-"} |-> "Subtract"] @@ [op \in {"*"} |-> "Multiply"] @@
  [op \in {"/"} |-> "Divide"] @@ [op \in {"**"} |-> "PowerOf"] @@ [op \in {"AND"} |-> "And"] @@
  [op \in {"OR"} |-> "Or"] @@ [op \in {"NOT"} |-> "Not"] @@ [op \in {"U"} |-> "UnaryMinus"] @@
  [op \in {"<%"} |-> "PercentLessThan"] @@ [op \in {">%"} |-> "PercentGreaterThan"] @@
  [op \in {"+%"} |-> "PercentAdd"] @@ [op \in {"-%"} |-> "PercentSubtract"] @@
  [op \in {"*%"} |-> "PercentMultiply"] @@ [op \in {"/%"} |-> "PercentDivide"]

ExpressionPCode(item) ==
  CASE item.k = "operand" -> Identifier("SimpleDirectRightSide", item.t)
    [] item.k = "cast" -> Cast(item.t, item.to)
    [] item.k = "list" -> List
    [] item.k = "call" -> PCode("call", "r", "r", "ABS", <<>>)
    [] OTHER -> PCode(IF item.k \in {"U", "NOT"} THEN "unary" ELSE "binary",
                      item.t, item.to, OperatorNames[item.k], <<>>)

-----------------------------------------------------------------------------
(* ConvertPcodeL: the account.                                             *)

SizeOnStack == [w |-> 2, l |-> 4, r |-> 8, s |-> 0]
SizeOfLeftSideReference == 6

(* A left side is counted like its value (mutant).                         *)
SideSizeOfValue(name, t) == SizeOnStack[t]

IsLeft(name) ==
  name \in {"SimpleDirectLeftSide", "SimpleInDirectLeftSide", "ArrayDirectLeftSide",
            "ArrayInDirectLeftSide", "FieldLeftSide", "EvalExternalLeftSideRef"}
SideSize(name, t) == IF IsLeft(name) THEN SizeOfLeftSideReference ELSE SizeOnStack[t]

AddToStack(a, size) ==
  LET depth == a.depth + size IN
  [a EXCEPT !.depth = depth, !.deepest = IF depth > @ THEN depth ELSE @]
RemoveFromStack(a, t) == [a EXCEPT !.depth = @ - SizeOnStack[t]]
ZeroStack(a) == [a EXCEPT !.depth = 0]
AdjustStackForCall(a, t) ==
  AddToStack([a EXCEPT !.depth = Last(a.depths), !.depths = Front(@)], SizeOnStack[t])

IsArray(name) ==
  name \in {"ArrayDirectRightSide", "ArrayDirectLeftSide", "ArrayInDirectRightSide",
            "ArrayInDirectLeftSide"}

Accounted(a, p) ==
  CASE p.p = "constant" -> AddToStack(a, SizeOnStack[p.t])
    [] p.p = "identifier" ->
         AddToStack(IF IsArray(p.name) THEN RemoveFromStack(a, "w") ELSE a, SideSize(p.name, p.t))
    [] p.p = "field" -> AddToStack(a, SideSize(p.name, p.t))
    [] p.p = "list" -> [a EXCEPT !.depths = Append(@, a.depth)]
    [] p.p = "argument" -> AddToStack(a, SizeOnStack["w"])
    [] p.p \in {"call", "procedure", "byName", "opx"} -> AdjustStackForCall(a, p.t)
    [] p.p = "drop" -> RemoveFromStack(a, p.t)
    [] p.p = "cast" -> AddToStack(RemoveFromStack(a, p.t), SizeOnStack[p.to])
    [] p.p = "unary" -> AddToStack(RemoveFromStack(a, p.t), SizeOnStack[p.to])
    [] p.p = "binary" ->
         AddToStack(RemoveFromStack(RemoveFromStack(a, p.t), p.t), SizeOnStack[p.to])
    [] p.p \in {"assign", "command", "typed"} -> ZeroStack(a)
    [] p.p = "statement" -> a

-----------------------------------------------------------------------------
(* ConvertPcodeL: the code.  An instruction is a number, the bytes that    *)
(* follow it, each with its width, and the handler that is meant.          *)

Instruction(number, bytes, means) == [number |-> number, bytes |-> bytes, means |-> means]
Named(name, bytes) == Instruction(TQcode16[name], bytes, name)
Familiar(family, t) ==
  CASE family = "gPrint" ->
         [w |-> "gPrintWord", l |-> "gPrintLong", r |-> "gPrintDbl", s |-> "gPrintStr"][t]
    [] family = "ZeroReturn" /\ t = "s" -> "NullReturnString"
    [] OTHER -> family \o TypeNames[t]
OfFamily(family, t, bytes) ==
  Instruction(TQcode16[family] + Rank[t], bytes, Familiar(family, t))

(* A byte that is no type.                                                 *)
SomeByte == 99

ConstantInstruction(t, size) ==
  CASE t = "w" /\ size = "byte" -> Named("StackByteAsWord", <<<<8, SomeByte>>>>)
    [] t = "l" /\ size = "byte" -> Named("StackByteAsLong", <<<<8, SomeByte>>>>)
    [] t = "l" /\ size = "word" -> Named("StackWordAsLong", <<<<16, 0>>>>)
    [] OTHER -> OfFamily("Constant", t, <<<<[w |-> 16, l |-> 32, r |-> 64, s |-> Text][t], 0>>>>)

LeftSideReference == 4
ExternalReference == 8
ArrayReference == 16
IdentifierNumber(name) ==
  (IF IsLeft(name) THEN LeftSideReference ELSE 0)
  + (IF name \in {"SimpleInDirectRightSide", "SimpleInDirectLeftSide", "ArrayInDirectRightSide",
                  "ArrayInDirectLeftSide"} THEN ExternalReference ELSE 0)
  + (IF IsArray(name) THEN ArrayReference ELSE 0)

IdentifierInstruction(p) ==
  IF p.follows # <<>> THEN Named(p.name, p.follows)
  ELSE Instruction(IdentifierNumber(p.name) + Rank[p.t], <<<<16, 0>>>>, p.name \o TypeNames[p.t])

FieldCode == 32
FieldInstructions(p) ==
  <<ConstantInstruction("s", "text"),
    Instruction(FieldCode + Rank[p.t] + (IF IsLeft(p.name) THEN LeftSideReference ELSE 0),
                p.follows, IF IsLeft(p.name) THEN p.name ELSE p.name \o TypeNames[p.t])>>

CastCode(t, to) == TypeNames[t] \o "To" \o TypeNames[to]

(* StatementQcodeL: the items of a dialog share one opcode.                *)
CommandInstruction(p) ==
  LET name == QcodeTable[IndexOf(KeywordCodes, p.name)]
      item == IndexOf(KeywordCodes, p.name) - IndexOf(KeywordCodes, "DTEXT") IN
  IF name = "dItem" THEN Named(name, <<<<8, item>>>> \o p.follows) ELSE Named(name, p.follows)
TypedInstruction(p) == OfFamily(QcodeTable[IndexOf(KeywordCodes, p.name)], p.t, p.follows)

CallInstruction(p) ==
  LET name == FunctionTable[IndexOf(FunctionNumbers, p.name)] IN
  Instruction(TQcode16["CallFunction"], <<<<8, TFuncNumber[name]>>>> \o p.follows, name)

Instructions(p) ==
  CASE p.p = "constant" -> <<ConstantInstruction(p.t, p.name)>>
    [] p.p = "identifier" -> <<IdentifierInstruction(p)>>
    [] p.p = "field" -> FieldInstructions(p)
    [] p.p = "list" -> <<>>
    [] p.p = "argument" -> <<Named("StackByteAsWord", <<<<8, Rank[p.t]>>>>)>>
    [] p.p = "call" -> <<CallInstruction(p)>>
    [] p.p = "procedure" -> <<Named("RunProcedure", p.follows)>>
    [] p.p = "byName" -> <<Named("CallProcByStringExpr", p.follows)>>
    [] p.p = "opx" -> <<Named("CallOpxFunc", p.follows)>>
    [] p.p = "drop" -> <<OfFamily("Drop", p.t, <<>>)>>
    [] p.p = "assign" -> <<OfFamily("Assign", p.t, <<>>)>>
    [] p.p = "cast" -> <<Named(CastCode(p.t, p.to), <<>>)>>
    [] p.p \in {"unary", "binary"} ->
         IF p.name \in PercentHandlers THEN <<Named(p.name, <<>>)>>
         ELSE <<OfFamily(p.name, p.t, <<>>)>>
    [] p.p = "command" -> <<CommandInstruction(p)>>
    [] p.p = "typed" -> <<TypedInstruction(p)>>
    [] p.p = "statement" ->
         <<Named(p.name, <<<<IF p.name = "Statement16" THEN 16 ELSE 32, 0>>>>)>>

-----------------------------------------------------------------------------
(* The runtime.                                                            *)

(* CallFunction looks the handler up by the byte that follows.             *)
Reached(i) ==
  IF Handler(i.number) = "CallFunction" THEN FunctionHandler(i.bytes[1][2]) ELSE Handler(i.number)
BytesLeft(i) == IF Handler(i.number) = "CallFunction" THEN Tail(i.bytes) ELSE i.bytes

Widths(bytes) == [n \in DOMAIN bytes |-> bytes[n][1]]

(* RunProcedure takes as many parameters as the procedure has, and so does *)
(* CallProcByStringExpr with the name below them.                          *)
ParameterKinds == {"pw", "pl", "pr", "ps"}
ParameterType(k) == CHOOSE t \in WLRS : stack[Len(stack) - 2 * k + 2] = "p" \o t
TopParameters(n) ==
  FoldSeq(LAMBDA k, rest : <<"p" \o ParameterType(k), ParameterType(k)>> \o rest, <<>>,
          [k \in 1 .. n |-> k])
HasParameters(n) ==
  Len(stack) >= 2 * n /\ \A k \in 1 .. n : stack[Len(stack) - 2 * k + 2] \in ParameterKinds

(* What the handler reads, pops and pushes; t is the type of a procedure.  *)
EffectHere(handler, bytes, t) ==
  CASE handler = "RunProcedure" -> Effect(<<16>>, TopParameters(bytes[1][2]), <<t>>)
    [] handler = "CallProcByStringExpr" ->
         Effect(<<8, 8>>, TopParameters(bytes[1][2]) \o S, <<t>>)
    [] handler = "CallOpxFunc" -> OpxEffect(bytes[1][2], bytes[2][2])
    [] handler = "dItem" ->
         LET item == bytes[1][2] IN
         Effect(IF item \in DialogItemCounts THEN <<8, 8>> ELSE <<8>>,
                DialogItem(item, IF Len(bytes) > 1 THEN bytes[2][2] ELSE 0), <<>>)
    [] handler = "StackByteAsWord" /\ bytes[1][2] \in 0 .. 3 ->
         Effect(<<8>>, <<>>, <<"p" \o (CHOOSE u \in WLRS : Rank[u] = bytes[1][2])>>)
    [] handler = "EvalExternalRightSideRef" -> Effect(<<Text, 16>>, <<>>, <<t>>)
    [] OTHER ->
         LET e == Handlers[handler]
             q == IF e.reads = <<8>> /\ Len(bytes) = 1 THEN bytes[1][2] ELSE 0 IN
         Effect(e.reads, IF q \in DOMAIN e.pops THEN e.pops[q] ELSE e.pops[0], e.gives)

Fits(wanted, item) ==
  \/ item = wanted
  \/ wanted = "&" /\ item \in {"&w", "&l", "&r"}
  \/ wanted = "flag" /\ item = "var"
  \/ wanted \in {"@w", "@l"} /\ item = "l"

(* The handlers that look at the word of a left side before they take more. *)
KnowFields == DOMAIN Assign \cup DOMAIN Inputs

RECURSIVE Pop(_, _, _)
Pop(items, pops, handler) ==
  IF pops = <<>> THEN [end |-> "popped", stack |-> items]
  ELSE IF items = <<>> THEN [end |-> "mismatch", stack |-> items]
  ELSE IF Fits(Head(pops), Last(items)) THEN Pop(Front(items), Tail(pops), handler)
  ELSE IF Head(pops) = "flag" /\ Last(items) = "field"
  THEN IF handler \in KnowFields THEN Pop(Front(items), W \o S, handler)
       ELSE [end |-> "field taken for a variable", stack |-> items]
  ELSE IF handler \in PercentHandlers /\ Last(items) = "s"
  THEN [end |-> "string taken for a real", stack |-> items]
  ELSE [end |-> "mismatch", stack |-> items]

(* What becomes of the next instruction.                                   *)
Run ==
  LET i == Head(qcode)
      handler == Reached(i)
      bytes == BytesLeft(i)
      failed(why) == [end |-> why, stack |-> stack] IN
  IF handler # i.means THEN failed("wrong handler")
  ELSE IF handler = "EvalExternalLeftSideRef" THEN failed("error")
  ELSE IF handler = "CallOpxFunc" /\ Widths(bytes) = <<8, 16>> /\ ~OpxFound(bytes[1][2], bytes[2][2])
  THEN failed("error")
  ELSE IF handler \in {"RunProcedure", "CallProcByStringExpr"} /\ ~HasParameters(bytes[1][2])
  THEN failed("mismatch")
  ELSE LET e == EffectHere(handler, bytes, type)
           popped == Pop(stack, e.pops, handler) IN
  IF e.reads # Widths(bytes) THEN failed("astray")
  ELSE [popped EXCEPT !.stack = @ \o e.gives]

-----------------------------------------------------------------------------
Begin ==
  /\ account = [depth |-> 0, deepest |-> 0, depths |-> <<>>]
  /\ qcode = <<>> /\ type = "w"
  /\ stack = <<>>

Expression(t) == Statement("expression", <<>>, <<>>, t)

InitExpression ==
  /\ ExprInit /\ Begin
  /\ statement = Expression(<<>>)
  /\ left = <<>> /\ pcode = <<>> /\ status = "parse"

InitStatement ==
  /\ tokenSet = [tokens |-> {}, size |-> 0]
  /\ tokens = <<>> /\ phase = "none" /\ iCode = <<>> /\ iOperatorStack = <<>> /\ evaluators = <<>>
  /\ Begin
  /\ statement \in SomeStatements
  /\ left = statement.args /\ pcode = <<>> /\ status = "arguments"

Init == InitExpression \/ InitStatement

Parse ==
  /\ status = "parse"
  /\ ExprNext
  /\ UNCHANGED machine

CompileExpression ==
  /\ status = "parse" /\ phase = "accepted"
  /\ statement' = Expression(<<Evaluator.type>>)
  /\ pcode' = [n \in DOMAIN iCode |-> ExpressionPCode(iCode[n])]
  /\ status' = "ending"
  /\ tokens' = <<>> /\ phase' = "none" /\ iCode' = <<>> /\ iOperatorStack' = <<>> /\ evaluators' = <<>>
  /\ tokenSet' = [tokens |-> {}, size |-> 0]
  /\ UNCHANGED <<left, qcode, type, account, stack>>

NextArgument ==
  /\ status = "arguments" /\ pcode = <<>> /\ qcode = <<>> /\ left # <<>>
  /\ pcode' \in ArgumentCode[Head(left)]
  /\ left' = Tail(left)
  /\ UNCHANGED <<exprVars, statement, qcode, type, account, stack, status>>

EndStatement ==
  /\ status = "arguments" /\ pcode = <<>> /\ qcode = <<>> /\ left = <<>>
  /\ pcode' = statement.ends
  /\ status' = "ending"
  /\ UNCHANGED <<exprVars, statement, left, qcode, type, account, stack>>

Refused(p) == p.p = "cast" /\ "s" \in {p.t, p.to}

Converting == pcode # <<>> /\ qcode = <<>> /\ status \in {"arguments", "ending"}

TypeMismatch ==
  /\ Converting /\ Refused(Head(pcode))
  /\ status' = "refused"
  /\ UNCHANGED <<exprVars, statement, left, pcode, qcode, type, account, stack>>

(* The drop at the end of a statement: nothing else may be accounted for.  *)
ConvertPcode ==
  /\ Converting /\ ~Refused(Head(pcode))
  /\ account' = Accounted(account, Head(pcode))
  /\ qcode' = Instructions(Head(pcode))
  /\ type' = Head(pcode).t
  /\ status' = IF Head(pcode).p = "drop" /\ account'.depth # 0 THEN "panic" ELSE status
  /\ pcode' = Tail(pcode)
  /\ UNCHANGED <<exprVars, statement, left, stack>>

Executing == qcode # <<>> /\ status \in {"arguments", "ending"}

Execute ==
  /\ Executing
  /\ \E ran \in {Run} :
       /\ stack' = ran.stack
       /\ status' = IF ran.end = "popped" THEN status ELSE ran.end
  /\ qcode' = Tail(qcode)
  /\ UNCHANGED <<exprVars, statement, left, pcode, type, account>>

(* Or the handler leaves, and ErrorHandler clears the stack.               *)
HandlerLeaves ==
  /\ Executing /\ Head(qcode).means \notin DOMAIN Constants
  /\ status' = "error" /\ stack' = <<>> /\ pcode' = <<>> /\ qcode' = <<>>
  /\ UNCHANGED <<exprVars, statement, left, type, account>>

Finish ==
  /\ status = "ending" /\ pcode = <<>> /\ qcode = <<>>
  /\ status' = "done"
  /\ UNCHANGED <<exprVars, statement, left, pcode, qcode, type, account, stack>>

Next ==
  Parse \/ CompileExpression \/ NextArgument \/ EndStatement \/ TypeMismatch \/ ConvertPcode
    \/ Execute \/ HandlerLeaves \/ Finish
Spec == Init /\ [][Next]_vars

-----------------------------------------------------------------------------
(* IdentifierRefL and ArgumentByRefL take a field where they expect a      *)
(* variable, and the handler then takes its name for an address.           *)
FieldByReference == status = "field taken for a variable"

(* OutputOperatorL converts a percentage that is no number to nothing.     *)
PercentOfString == status = "string taken for a real"

(* The header of a library does not say what its function takes.           *)
OpxOtherwise ==
  /\ statement.name = "opx"
  /\ LET code == statement.ends[1].follows IN IsDeclaredOtherwise(code[1][2], code[2][2])

(* The two sides agree: for every statement of the language with every     *)
(* kind of operand, and every expression of the token sets, the runtime    *)
(* finds the handler that was meant, reads the bytes that were written for *)
(* it, pops what was pushed, and ends with the value expected and nothing  *)
(* else; but for the cases above.                                          *)
OperandsMatch ==
  /\ status \in {"parse", "refused", "arguments", "ending", "done", "error"}
       \/ FieldByReference \/ PercentOfString \/ OpxOtherwise
  /\ status = "done" => stack = statement.leaves

(* Words and addresses take four bytes of the runtime's stack.             *)
RuntimeSize(item) == CASE item = "r" -> 8 [] item = "s" -> 0 [] OTHER -> 4
BytesOn(items) == FoldSeq(LAMBDA item, n : RuntimeSize(item) + n, 0, items)

(* What RETURN leaves is for the frame of the caller, who counts the call. *)
InOwnFrame == statement.name = "RETURN" => pcode # <<>>

(* The account is never less than half of what the runtime stacks besides  *)
(* strings: no push goes uncounted, and none is taken off that is not there. *)
AccountingCovers ==
  status \in {"arguments", "ending"} /\ InOwnFrame =>
    account.depth >= 0 /\ BytesOn(stack) <= 2 * account.deepest
=============================================================================
