--------------------------- MODULE OplExpressions ---------------------------
(***************************************************************************)
(* The expression parser of the translator (oplt/stran/OT_EXPR.CPP): an     *)
(* operator-precedence parser that writes the operands as they come, keeps *)
(* the operators on a stack, and goes back into the code already written   *)
(* to convert a left operand when it learns the type of the right one.     *)
(*                                                                         *)
(* A step takes the next token or does one action of the precedence table  *)
(* for the operator found.  A function of one floating point argument      *)
(* stands for calls: its argument is a nested ExpressionL on the same      *)
(* operator stack.                                                         *)
(***************************************************************************)
EXTENDS Integers, Sequences, FiniteSets, SequencesExt

CONSTANT TokenSets   \* the tokens an expression may be made of, and their number

VARIABLES
  tokenSet,
  tokens,           \* the tokens the lexer has given
  phase,            \* "parse", "accepted" or "failed"
  iOperatorStack,   \* TStackedOperator: operator, type on its left, place in the code
  iCode,            \* the p-code
  evaluators        \* TEvaluatorState of every ExpressionL in progress

exprVars == <<tokenSet, tokens, phase, iOperatorStack, iCode, evaluators>>

(* TOplToken::TType in its order: word, long, real, string.                *)
Types == {"w", "l", "r", "s"}
Rank == [w |-> 0, l |-> 1, r |-> 2, s |-> 3]
Promotes(from, to) == Rank[from] < Rank[to]

Comparisons == {"<", "<=", ">", ">=", "=", "<>"}
BinaryOperators == Comparisons \cup {"+", "-", "*", "/", "**", "AND", "OR"}
PercentOperators == {"<", ">", "+", "-", "*", "/"}
Tokens == Types \cup BinaryOperators \cup {"NOT", "%", "(", ")", "ABS(", "EOE"}

(* What the parser has found: no operator yet.                             *)
Nothing == "none"

Item(k, t, to, place) == [k |-> k, t |-> t, to |-> to, at |-> place]
Stacked(op, t, pos, place) == [op |-> op, t |-> t, pos |-> pos, at |-> place]
NewEvaluator == [op |-> Nothing, at |-> 0, seen |-> TRUE, type |-> "w", nesting |-> 0]
StartOfExpression == Stacked("$", "w", Len(iCode) + 1, Len(tokens))

Top == Last(iOperatorStack)
Evaluator == Last(evaluators)
SetEvaluator(e) == evaluators' = Append(Front(evaluators), e)

-----------------------------------------------------------------------------
(* FindOperatorL: one token.                                               *)

Take(token) ==
  /\ tokens' = Append(tokens, token)
  /\ UNCHANGED tokenSet

Refuse(token) ==
  /\ Take(token)
  /\ phase' = "failed"
  /\ UNCHANGED <<iOperatorStack, iCode, evaluators>>

(* An identifier or a constant.                                            *)
TakeOperand(token) ==
  /\ token \in Types
  /\ IF ~Evaluator.seen
     THEN Refuse(token)
     ELSE /\ Take(token)
          /\ iCode' = Append(iCode, Item("operand", token, token, Len(tokens) + 1))
          /\ SetEvaluator([Evaluator EXCEPT !.type = token, !.seen = FALSE])
          /\ UNCHANGED <<phase, iOperatorStack>>

(* A call: the mark of its arguments, and ExpressionL for the only one.    *)
TakeCall(token) ==
  /\ token = "ABS("
  /\ IF ~Evaluator.seen
     THEN Refuse(token)
     ELSE /\ Take(token)
          /\ iOperatorStack' = Append(iOperatorStack, StartOfExpression)
          /\ evaluators' = Append(evaluators, [NewEvaluator EXCEPT !.at = Len(tokens) + 1])
          /\ iCode' = Append(iCode, Item("list", "r", "r", 0))
          /\ UNCHANGED phase

(* An operator, or punctuation that ends the expression.                   *)
OperatorFound(token) ==
  CASE token = ")" /\ Evaluator.nesting = 0 -> "EOE"
    [] token = "-" /\ Evaluator.seen -> "U"
    [] OTHER -> token

TakeOperator(token) ==
  /\ token \notin Types \cup {"ABS("}
  /\ Take(token)
  /\ LET nesting == CASE token = "(" -> Evaluator.nesting + 1
                      [] token = ")" /\ Evaluator.nesting > 0 -> Evaluator.nesting - 1
                      [] OTHER -> Evaluator.nesting IN
     SetEvaluator([Evaluator EXCEPT !.op = OperatorFound(token), !.nesting = nesting])
  /\ UNCHANGED <<phase, iOperatorStack, iCode>>

FindOperator ==
  /\ phase = "parse" /\ Evaluator.op = Nothing
  /\ \E token \in tokenSet.tokens \cup {"EOE"} :
       /\ token # "EOE" => Len(tokens) < tokenSet.size
       /\ token = "%" => ~Evaluator.seen   \* otherwise it begins a character constant
       /\ TakeOperand(token) \/ TakeCall(token) \/ TakeOperator(token)

-----------------------------------------------------------------------------
(* ActOnOperatorL: the precedence table.                                   *)

Column(op) ==
  CASE op \in Comparisons -> 2
    [] op \in {"+", "-"} -> 3
    [] op \in {"*", "/"} -> 4
    [] op = "**" -> 5
    [] op = "U" -> 6
    [] op \in {"NOT", "("} -> 7
    [] op \in {"AND", "OR"} -> 8
    [] op = "%" -> 9
    [] op = ")" -> 10
    [] op = "EOE" -> 11

(* When an operand comes last: the action for each operator on the stack,  *)
(* by the column of the operator found.                                    *)
AfterOperand(top) ==
  CASE top = "$" ->
         <<"Err", "Stk", "Stk", "Stk", "Stk", "Err", "Err", "Stk", "Err", "Err", "Acc">>
    [] top \in Comparisons \ PercentOperators ->
         <<"Err", "Red", "Stk", "Stk", "Stk", "Err", "Err", "Red", "Err", "ROB", "Red">>
    [] top \in Comparisons \cap PercentOperators ->
         <<"Err", "Red", "Stk", "Stk", "Stk", "Err", "Err", "Red", "Per", "ROB", "Red">>
    [] top \in {"+", "-"} ->
         <<"Err", "Red", "Red", "Stk", "Stk", "Err", "Err", "Red", "Per", "ROB", "Red">>
    [] top \in {"*", "/"} ->
         <<"Err", "Red", "Red", "Red", "Stk", "Err", "Err", "Red", "Per", "ROB", "Red">>
    [] top = "**" ->
         <<"Err", "Red", "Red", "Red", "Stk", "Err", "Err", "Red", "Err", "ROB", "Red">>
    [] top \in {"U", "NOT"} ->
         <<"Err", "Red", "Red", "Red", "Stk", "Err", "Err", "Red", "Red", "ROB", "Red">>
    [] top \in {"AND", "OR"} ->
         <<"Err", "Stk", "Stk", "Stk", "Stk", "Err", "Err", "Red", "Err", "ROB", "Red">>
    [] top = "(" ->
         <<"Err", "Stk", "Stk", "Stk", "Stk", "Err", "Err", "Stk", "Err", "ROB", "Mis">>

(* When an operator comes last: only what may begin an operand.            *)
AfterOperator(top, op) ==
  CASE top = "U" /\ op = "U" -> "Drp"
    [] op \in {"U", "NOT", "("} -> "Stk"
    [] OTHER -> "Err"

(* MINUS binds no tighter than PLUS does on its left (mutant).             *)
ActionRightToLeft ==
  IF Evaluator.seen THEN AfterOperator(Top.op, Evaluator.op)
  ELSE IF Top.op \in {"+", "-"} /\ Evaluator.op \in {"+", "-"} THEN "Stk"
  ELSE AfterOperand(Top.op)[Column(Evaluator.op)]

Action ==
  IF Evaluator.seen THEN AfterOperator(Top.op, Evaluator.op)
  ELSE AfterOperand(Top.op)[Column(Evaluator.op)]

Acting(action) == phase = "parse" /\ Evaluator.op # Nothing /\ Action = action

Insert(code, pos, item) == SubSeq(code, 1, pos) \o <<item>> \o SubSeq(code, pos + 1, Len(code))

(* The left operand is converted where the code ends (mutant).             *)
PromoteAtEnd(code, from, to, pos) ==
  IF Promotes(from, to) THEN [code |-> Append(code, Item("cast", from, to, 0)), t |-> to]
  ELSE [code |-> code, t |-> from]

(* PromoteL: a cast to a larger type, put where the operand's code ends.   *)
Promote(code, from, to, pos) ==
  IF Promotes(from, to) THEN [code |-> Insert(code, pos, Item("cast", from, to, 0)), t |-> to]
  ELSE [code |-> code, t |-> from]

(* OutputOperatorL: the code after the operator, the type of the result    *)
(* and whether the operator takes such operands.                           *)
UnaryResult(top, right) ==
  LET result == IF top.op = "NOT" /\ right = "r" THEN "w" ELSE right IN
  [ok |-> right # "s", type |-> result,
   code |-> Append(iCode, Item(top.op, right, result, top.at))]

PercentResult(top, right) ==
  LET l == Promote(iCode, top.t, "r", top.pos)
      r == Promote(l.code, right, "r", Len(l.code)) IN
  [ok |-> TRUE, type |-> "r", code |-> Append(r.code, Item(top.op, r.t, "r", top.at))]

BinaryResult(top, right) ==
  LET l == Promote(iCode, top.t, right, top.pos)
      r == Promote(l.code, right, l.t, Len(l.code))
      result == IF top.op \in Comparisons \/ (r.t = "r" /\ top.op \in {"AND", "OR"})
                THEN "w" ELSE r.t IN
  [ok |-> r.t = "s" => top.op \in Comparisons \cup {"+"}, type |-> result,
   code |-> Append(r.code, Item(top.op, r.t, result, top.at))]

Percent(op) == op \o "%"

Output(top) ==
  CASE top.op \in {"U", "NOT"} -> UnaryResult(top, Evaluator.type)
    [] top.op \in {Percent(op) : op \in PercentOperators} -> PercentResult(top, Evaluator.type)
    [] OTHER -> BinaryResult(top, Evaluator.type)

(* The operator on top goes to the code; e is the evaluator after it.      *)
OutputOperator(top, e) ==
  /\ IF Output(top).ok
     THEN /\ iOperatorStack' = Front(iOperatorStack)
          /\ iCode' = Output(top).code
          /\ SetEvaluator([e EXCEPT !.type = Output(top).type])
          /\ UNCHANGED phase
     ELSE phase' = "failed" /\ UNCHANGED <<iOperatorStack, iCode, evaluators>>
  /\ UNCHANGED <<tokenSet, tokens>>

SyntaxError ==
  /\ Acting("Err") \/ Acting("Mis")
  /\ phase' = "failed"
  /\ UNCHANGED <<tokenSet, tokens, iOperatorStack, iCode, evaluators>>

StackOperator ==
  /\ Acting("Stk")
  /\ iOperatorStack' =
       Append(iOperatorStack, Stacked(Evaluator.op, Evaluator.type, Len(iCode), Len(tokens)))
  /\ SetEvaluator([Evaluator EXCEPT !.op = Nothing, !.seen = TRUE])
  /\ UNCHANGED <<tokenSet, tokens, phase, iCode>>

Reduce ==
  /\ Acting("Red")
  /\ OutputOperator(Top, Evaluator)

(* The operator before a percentage becomes a percent operator, at once.   *)
PercentModify ==
  /\ Acting("Per")
  /\ OutputOperator([Top EXCEPT !.op = Percent(Top.op)], [Evaluator EXCEPT !.op = Nothing])

(* A closing bracket: everything down to the opening one.                  *)
ReduceToBracket ==
  /\ Acting("ROB")
  /\ IF Top.op # "("
     THEN OutputOperator(Top, Evaluator)
     ELSE /\ iOperatorStack' = Front(iOperatorStack)
          /\ SetEvaluator([Evaluator EXCEPT !.op = Nothing])
          /\ UNCHANGED <<tokenSet, tokens, phase, iCode>>

(* Minus meets minus.                                                      *)
DropOperator ==
  /\ Acting("Drp")
  /\ iOperatorStack' = Front(iOperatorStack)
  /\ SetEvaluator([Evaluator EXCEPT !.op = Nothing])
  /\ UNCHANGED <<tokenSet, tokens, phase, iCode>>

(* PCodeCastL to the type the expression is wanted in.                     *)
CastTo(code, from, to) == IF from = to THEN code ELSE Append(code, Item("cast", from, to, 0))

(* The end of the expression; a call goes on with what encloses it.        *)
Accept ==
  /\ Acting("Acc")
  /\ iOperatorStack' = Front(iOperatorStack)
  /\ IF Len(evaluators) = 1
     THEN /\ phase' = IF Last(tokens) = "EOE" THEN "accepted" ELSE "failed"
          /\ UNCHANGED <<iCode, evaluators>>
     ELSE IF Last(tokens) # ")" \/ Evaluator.type = "s"
     THEN phase' = "failed" /\ UNCHANGED <<iCode, evaluators>>
     ELSE /\ iCode' = Append(CastTo(iCode, Evaluator.type, "r"), Item("call", "r", "r", Evaluator.at))
          /\ LET outer == evaluators[Len(evaluators) - 1] IN
             evaluators' = Append(SubSeq(evaluators, 1, Len(evaluators) - 2),
                                  [outer EXCEPT !.type = "r", !.seen = FALSE])
          /\ UNCHANGED phase
  /\ UNCHANGED <<tokenSet, tokens>>

ActOnOperator ==
  SyntaxError \/ StackOperator \/ Reduce \/ PercentModify \/ ReduceToBracket
    \/ DropOperator \/ Accept

ExprInit ==
  /\ tokenSet \in TokenSets
  /\ tokens = <<>> /\ phase = "parse" /\ iCode = <<>>
  /\ iOperatorStack = <<Stacked("$", "w", 0, 0)>> /\ evaluators = <<NewEvaluator>>
ExprNext == FindOperator \/ ActOnOperator
ExprSpec == ExprInit /\ [][ExprNext]_exprVars

-----------------------------------------------------------------------------
(* What an expression means, read off its tokens: operators in the order   *)
(* of their precedence, and a percentage belongs to the operator before it. *)

Precedence(op) ==
  CASE op \in {"AND", "OR"} -> 1 [] op \in Comparisons -> 2 [] op \in {"+", "-"} -> 3
    [] op \in {"*", "/"} -> 4 [] op = "**" -> 5

Meant(post, next) == [post |-> post, next |-> next]
NoMeaning == Meant(<<>>, 0)
TokenAt(i) == IF i \in 1 .. Len(tokens) THEN tokens[i] ELSE "EOE"

RECURSIVE Climb(_, _), Continue(_, _), Prefix(_, _)

(* One operand; with powers, -a ** b is -(a ** b).                         *)
Prefix(i, powers) ==
  CASE TokenAt(i) \in Types -> Meant(<<<<i, FALSE>>>>, i + 1)
    [] TokenAt(i) \in {"(", "ABS("} ->
         LET e == Climb(i + 1, 1) IN
         IF e.next = 0 \/ TokenAt(e.next) # ")" THEN NoMeaning
         ELSE Meant(e.post \o (IF tokens[i] = "(" THEN <<>> ELSE <<<<i, FALSE>>>>), e.next + 1)
    [] TokenAt(i) = "-" /\ TokenAt(i + 1) = "-" -> Prefix(i + 2, powers)
    [] TokenAt(i) \in {"-", "NOT"} ->
         LET e == IF powers THEN Climb(i + 1, Precedence("**")) ELSE Prefix(i + 1, FALSE) IN
         IF e.next = 0 THEN NoMeaning ELSE Meant(e.post \o <<<<i, FALSE>>>>, e.next)
    [] OTHER -> NoMeaning

Climb(i, least) == Continue(Prefix(i, TRUE), least)

Continue(left, least) ==
  LET j == left.next
      op == TokenAt(j) IN
  IF j = 0 \/ op \notin BinaryOperators \/ Precedence(op) < least THEN left
  ELSE LET part == Prefix(j + 1, FALSE) IN
  IF op \in PercentOperators /\ part.next # 0 /\ TokenAt(part.next) = "%"
  THEN Continue(Meant(left.post \o part.post \o <<<<j, TRUE>>>>, part.next + 1), least)
  ELSE LET right == Climb(j + 1, Precedence(op) + (IF op = "**" THEN 0 ELSE 1)) IN
  IF right.next = 0 THEN NoMeaning
  ELSE Continue(Meant(left.post \o right.post \o <<<<j, FALSE>>>>, right.next), least)

Meaning == Climb(1, 1)
MeansSomething == Meaning.next # 0 /\ TokenAt(Meaning.next) = "EOE"

(* The code without its conversions and marks.                             *)
CodeOrder ==
  LET real == SelectSeq(iCode, LAMBDA i : i.k \notin {"cast", "list"}) IN
  [n \in DOMAIN real |->
     <<real[n].at, real[n].k \in {Percent(op) : op \in PercentOperators}>>]

(* The code of every expression the parser accepts computes what the       *)
(* expression means, and no complete expression that means something is    *)
(* refused for its syntax.                                                 *)
CodeMeansExpression ==
  /\ phase = "accepted" => MeansSomething /\ CodeOrder = Meaning.post
  /\ phase = "failed" /\ Evaluator.op = "EOE" /\ iOperatorStack # <<>>
       /\ Action \in {"Err", "Mis"} => ~MeansSomething
=============================================================================
