--------------------------- MODULE OplStructures ---------------------------
(***************************************************************************)
(* The control structures of OPL from source to execution: the parser      *)
(* (oplt/stran/OT_PARSE.CPP, OT_STRUC.CPP, OT_KYWRD.CPP) turns the words of *)
(* a procedure into p-code with internal labels, the back end (OPL16GEN.CPP)*)
(* turns p-code into q-code with 16-bit branch offsets, and the runtime    *)
(* (oplr/src/EN_CTRL.CPP, EN_MAIN.CPP, EN_ERROR.CPP) runs the q-code.       *)
(*                                                                         *)
(* Parsing takes one word per step: a statement without control is S, the  *)
(* expression of a condition goes with the word it follows, and EOS is the *)
(* blank statement.  ENDP converts the procedure.  Then the q-code runs in *)
(* lock-step with the words themselves, read as the OPL language describes *)
(* them; a step is the next thing the user could see.                      *)
(***************************************************************************)
EXTENDS Integers, Sequences, FiniteSets, SequencesExt

CONSTANTS Labels,             \* the labels of the source
          Vocabularies,       \* the words a procedure may use, and their number
          MaxStructureDepth,  \* KOplMaxStructureDepth
          Reach               \* branch offsets lie in -Reach .. Reach - 1

ASSUME ReachAssumption == Reach \in Nat \ {0}
ASSUME DepthAssumption == MaxStructureDepth \in Nat

Plain == {"S", "EOS", "IF", "ELSEIF", "ELSE", "ENDIF", "DO", "UNTIL", "WHILE",
          "ENDWH", "BREAK", "CONTINUE", "RETURN", "ENDP"}
(* A word of the source, with the labels it names: LABEL defines one, GOTO *)
(* goes to one, ONERR names one or is ONERR OFF.                           *)
Word ==
  LET one == {<<l>> : l \in Labels} IN
  [w : Plain, ls : {<<>>}] \cup [w : {"LABEL", "GOTO"}, ls : one]
    \cup [w : {"ONERR"}, ls : one \cup {<<>>}] \cup [w : {"VECTOR"}, ls : Seq(Labels)]

ASSUME VocabulariesAssumption ==
  \A v \in Vocabularies : v.words \subseteq Word /\ v.size \in Nat /\ v.debug \in BOOLEAN
(* A word needs at most three internal labels; a TUint holds their numbers. *)
MaxWords == 1073741824
ASSUME LabelsAssumption == \A v \in Vocabularies : v.size <= MaxWords

VARIABLES
  vocab,           \* the words available, how many, and CTextTranslator::EDebug
  words,           \* the words the lexer has given
  phase,           \* "parse", "failed", "run" or "ended"
  frames,          \* the activations of StructureL, innermost last
  iBranches,       \* TBranches: the labels in force, iNextBranch, iDepth, iLoop
  iLastWasReturn,
  iCode,           \* the p-code
  qcode,           \* the q-code: of each item that has bytes, the instruction
  ip,              \* run: address of the next instruction
  iOnErrIP,        \* run: CFrame::OnErrIP, None for NULL
  at,              \* run: the place in the source that corresponds to ip
  handler          \* run: the word ONERR named last, 0 for none

source == <<vocab, words>>
parser == <<frames, iBranches, iLastWasReturn, iCode>>
running == <<ip, iOnErrIP, at, handler>>
vars == <<source, phase, parser, qcode, running>>

None == -1

-----------------------------------------------------------------------------
(* Internal labels: TBranches and the branches a structure needs.          *)

(* The name of an internal label: a digit of four bits for every two bits  *)
(* of its number, as long as there are bits.                               *)
BranchName(n) ==
  LET branchNo[k \in 0 .. 16] == IF k = 0 THEN n ELSE branchNo[k - 1] \div 4 IN
  [k \in {i \in 1 .. 16 : branchNo[i - 1] > 0} |-> branchNo[k - 1] % 16]

Branch(b, kind) == <<"branch", BranchName(b[kind])>>
UserLabel(l) == <<"label", l>>

NoBranches == [EFalse |-> 0, EBreak |-> 0, EContinue |-> 0, EExit |-> 0,
               next |-> 0, depth |-> 0, loop |-> 0]

NeedBranch(b, kind) == [b EXCEPT ![kind] = b.next, !.next = b.next + 1]

(* The depth is not reduced (mutant).                                      *)
RestoreAllBranches(b, saved) ==
  [b EXCEPT !.EFalse = saved.EFalse, !.EBreak = saved.EBreak,
            !.EContinue = saved.EContinue, !.EExit = saved.EExit, !.depth = saved.depth - 1]

RestoreBranches(b, saved) ==
  [b EXCEPT !.EFalse = saved.EFalse, !.EBreak = saved.EBreak,
            !.EContinue = saved.EContinue, !.EExit = saved.EExit, !.depth = b.depth - 1]

LeaveLoop(b) == [b EXCEPT !.loop = b.loop - 1]

(* P-code items: what to do, the labels named, and the word it comes from. *)
Item(op, to) == [op |-> op, to |-> to, word |-> Len(words) + 1]
SetBranch(b, kind) == Item("label", <<Branch(b, kind)>>)
DoBranch(b, kind, op) == Item(op, <<Branch(b, kind)>>)
Statement == Item("stmt", <<>>)
ConditionalExpression(b) == <<Item("cond", <<>>), DoBranch(b, "EFalse", "brfalse")>>

Defined(l) == \E i \in DOMAIN iCode : iCode[i].op = "label" /\ iCode[i].to = <<l>>

-----------------------------------------------------------------------------
(* The parser.  Next word wd; the actions below are the cases of           *)
(* StatementListL and StructureL.                                          *)

Emit(wd, b, items) ==
  /\ words' = Append(words, wd)
  /\ iBranches' = b
  /\ iCode' = iCode \o items
  /\ UNCHANGED <<vocab, phase, qcode, running>>

(* User::Leave in the parser or the back end: no module is written.        *)
Fail(wd) ==
  /\ words' = Append(words, wd)
  /\ phase' = "failed"
  /\ UNCHANGED <<vocab, parser, qcode, running>>

(* DefineLabelL                                                            *)
ParseLabel(wd) ==
  /\ wd.w = "LABEL"
  /\ LET l == UserLabel(wd.ls[1]) IN
     IF Defined(l)
     THEN Fail(wd)
     ELSE /\ Emit(wd, iBranches, <<Item("label", <<l>>)>>)
          /\ UNCHANGED <<frames, iLastWasReturn>>

LabelsOf(wd) == [i \in DOMAIN wd.ls |-> UserLabel(wd.ls[i])]

(* The statements that are no structures.                                  *)
Simple(wd) ==
  CASE wd.w = "S" -> <<Item("S", <<>>)>>
    [] wd.w = "EOS" -> <<>>
    [] wd.w = "RETURN" -> <<Item("return", <<>>)>>
    [] wd.w = "GOTO" -> <<Item("goto", LabelsOf(wd))>>
    [] wd.w = "ONERR" -> <<Item("onerr", LabelsOf(wd))>>
    [] wd.w = "BREAK" -> <<DoBranch(iBranches, "EBreak", "goto")>>
    [] wd.w = "CONTINUE" -> <<DoBranch(iBranches, "EContinue", "goto")>>

(* BREAK and CONTINUE are taken outside loops (mutant).                    *)
ParseSimpleAnywhere(wd) ==
  /\ wd.w \in {"S", "EOS", "RETURN", "GOTO", "ONERR", "BREAK", "CONTINUE"}
  /\ Emit(wd, iBranches, <<Statement>> \o Simple(wd))
  /\ iLastWasReturn' = (wd.w = "RETURN")
  /\ UNCHANGED frames

ParseSimple(wd) ==
  /\ wd.w \in {"S", "EOS", "RETURN", "GOTO", "ONERR", "BREAK", "CONTINUE"}
  /\ IF wd.w \in {"BREAK", "CONTINUE"} /\ iBranches.loop = 0
     THEN Fail(wd)
     ELSE /\ Emit(wd, iBranches, <<Statement>> \o Simple(wd))
          /\ iLastWasReturn' = (wd.w = "RETURN")
          /\ UNCHANGED frames

(* VECTOR to ENDV: SaveBranchesL and RestoreBranches around the table.     *)
ParseVector(wd) ==
  /\ wd.w = "VECTOR"
  /\ IF iBranches.depth = MaxStructureDepth
     THEN Fail(wd)
     ELSE /\ Emit(wd, iBranches, <<Statement, Item("cond", <<>>), Item("vector", LabelsOf(wd))>>)
          /\ iLastWasReturn' = FALSE
          /\ UNCHANGED frames

(* A structure begins: its branches, then the code before its first list.  *)
Opened(wd) ==
  LET b == [iBranches EXCEPT !.depth = @ + 1]
      loop == [b EXCEPT !.loop = @ + 1] IN
  IF wd.w = "IF"
  THEN NeedBranch(NeedBranch(b, "EExit"), "EFalse")
  ELSE NeedBranch(NeedBranch(NeedBranch(loop, "EContinue"), "EBreak"), "EFalse")

OpeningCode(wd, b) ==
  CASE wd.w = "IF" -> ConditionalExpression(b)
    [] wd.w = "DO" -> <<SetBranch(b, "EFalse")>>
    [] wd.w = "WHILE" -> <<SetBranch(b, "EContinue")>> \o ConditionalExpression(b)

ParseOpen(wd) ==
  /\ wd.w \in {"IF", "DO", "WHILE"}
  /\ IF iBranches.depth = MaxStructureDepth
     THEN Fail(wd)
     ELSE /\ Emit(wd, Opened(wd), <<Statement>> \o OpeningCode(wd, Opened(wd)))
          /\ frames' = Append(frames, [kind |-> wd.w, saved |-> iBranches])
          /\ iLastWasReturn' = FALSE

(* The words that may end the list of statements of each kind of activation. *)
Ending(kind) ==
  CASE kind = "IF" -> {"ELSEIF", "ELSE", "ENDIF"}
    [] kind = "ELSE" -> {"ENDIF"}
    [] kind = "DO" -> {"UNTIL"}
    [] kind = "WHILE" -> {"ENDWH"}
Expected == IF frames = <<>> THEN {"ENDP"} ELSE Ending(Last(frames).kind)

(* The false label of the clause before is not renewed (mutant).           *)
ParseClauseWithoutBranch(wd) ==
  /\ wd.w \in {"ELSEIF", "ELSE"} \cap Expected
  /\ LET leave == <<DoBranch(iBranches, "EExit", "goto"), SetBranch(iBranches, "EFalse")>> IN
     IF wd.w = "ELSEIF"
     THEN Emit(wd, iBranches, leave \o ConditionalExpression(iBranches)) /\ UNCHANGED frames
     ELSE Emit(wd, iBranches, leave)
          /\ frames' = [frames EXCEPT ![Len(frames)].kind = "ELSE"]
  /\ iLastWasReturn' = FALSE

(* The next clause of an IF: leave the last one, then its false label.     *)
ParseClause(wd) ==
  /\ wd.w \in {"ELSEIF", "ELSE"} \cap Expected
  /\ LET leave == <<DoBranch(iBranches, "EExit", "goto"), SetBranch(iBranches, "EFalse")>>
         b == NeedBranch(iBranches, "EFalse") IN
     IF wd.w = "ELSEIF"
     THEN Emit(wd, b, leave \o ConditionalExpression(b)) /\ UNCHANGED frames
     ELSE Emit(wd, iBranches, leave)
          /\ frames' = [frames EXCEPT ![Len(frames)].kind = "ELSE"]
  /\ iLastWasReturn' = FALSE

(* A structure ends and StructureL returns to the list it stands in.       *)
ClosingCode(wd, b) ==
  CASE wd.w = "ENDIF" ->
         (IF Last(frames).kind = "ELSE" THEN <<>> ELSE <<SetBranch(b, "EFalse")>>)
           \o <<SetBranch(b, "EExit")>>
    [] wd.w = "UNTIL" ->
         <<SetBranch(b, "EContinue")>> \o ConditionalExpression(b) \o <<SetBranch(b, "EBreak")>>
    [] wd.w = "ENDWH" ->
         <<DoBranch(b, "EContinue", "goto"), SetBranch(b, "EBreak"), SetBranch(b, "EFalse")>>

ParseClose(wd) ==
  /\ wd.w \in {"ENDIF", "UNTIL", "ENDWH"} \cap Expected
  /\ LET b == RestoreBranches(iBranches, Last(frames).saved) IN
     Emit(wd, IF wd.w = "ENDIF" THEN b ELSE LeaveLoop(b), ClosingCode(wd, iBranches))
  /\ frames' = Front(frames)
  /\ iLastWasReturn' = FALSE

(* EErrStructure, and SyntaxErrorL in ProcL                                *)
ParseMisplaced(wd) ==
  /\ wd.w \in {"ELSEIF", "ELSE", "ENDIF", "UNTIL", "ENDWH", "ENDP"}
  /\ wd.w \notin Expected
  /\ Fail(wd)

-----------------------------------------------------------------------------
(* The back end: ConvertPcodeL, LabelReferenceL and the patches of RunL.   *)

(* Bytes of q-code of an item; a statement is marked for the debugger only. *)
Size(i) ==
  CASE i.op = "stmt" -> IF vocab.debug THEN 3 ELSE 0
    [] i.op = "label" -> 0
    [] i.op \in {"S", "return"} -> 1
    [] i.op = "cond" -> 2
    [] i.op \in {"goto", "brfalse", "onerr"} -> 3
    [] i.op = "vector" -> 3 + 2 * Len(i.to)

AddressOf(code, n) ==
  LET sum[k \in 1 .. Len(code) + 1] == IF k = 1 THEN 0 ELSE sum[k - 1] + Size(code[k - 1])
  IN sum[n]

LabelAddress(code, l) ==
  AddressOf(code, CHOOSE n \in DOMAIN code : code[n].op = "label" /\ code[n].to = <<l>>)

(* Patch16L keeps the low bits of a distance; the runtime reads them signed. *)
Patch16(distance) == ((distance + Reach) % (2 * Reach)) - Reach

References(code) ==
  UNION {Range(code[n].to) : n \in {m \in DOMAIN code : code[m].op # "label"}}
Missing(code) ==
  \E l \in References(code) :
    ~\E n \in DOMAIN code : code[n].op = "label" /\ code[n].to = <<l>>

(* One instruction: ONERR OFF has the NULL label and the offset 0.         *)
Instruction(code, n) ==
  LET i == code[n]
      base == AddressOf(code, n)
      offset(l) == Patch16(LabelAddress(code, l) - base) IN
  [at |-> base, size |-> Size(i), op |-> i.op, word |-> i.word,
   offsets |-> IF i.op = "onerr" /\ i.to = <<>> THEN <<0>>
               ELSE [k \in DOMAIN i.to |-> offset(i.to[k])]]

ConvertPcode(code) ==
  [n \in {m \in DOMAIN code : Size(code[m]) > 0} |-> Instruction(code, n)]

(* ENDP: a value is returned, the procedure goes to the back end, and the  *)
(* runtime enters it.                                                      *)
ParseEndP(wd) ==
  /\ wd.w = "ENDP" /\ frames = <<>>
  /\ LET code == iCode \o (IF iLastWasReturn THEN <<>> ELSE <<Item("return", <<>>)>>) IN
     IF Missing(code)
     THEN Fail(wd)
     ELSE /\ words' = Append(words, wd)
          /\ iCode' = code
          /\ qcode' = ConvertPcode(code)
          /\ phase' = "run"
          /\ ip' = 0 /\ iOnErrIP' = None
          /\ at' = [word |-> 1, test |-> FALSE] /\ handler' = 0
          /\ UNCHANGED <<vocab, frames, iBranches, iLastWasReturn>>

(* A bound: no word after which the procedure could not be completed.      *)
Room(wd) ==
  Len(words) + Len(frames) < vocab.size
    + (CASE wd.w \in {"IF", "DO", "WHILE"} -> -2
         [] wd.w \in {"ENDIF", "UNTIL", "ENDWH", "ENDP"} -> 0
         [] OTHER -> -1)

ParseWord ==
  /\ phase = "parse"
  /\ \E wd \in vocab.words \cup {[w |-> "ENDP", ls |-> <<>>]} :
       /\ Room(wd)
       /\ \/ ParseLabel(wd) \/ ParseSimple(wd) \/ ParseVector(wd) \/ ParseOpen(wd)
          \/ ParseClause(wd) \/ ParseClose(wd) \/ ParseMisplaced(wd) \/ ParseEndP(wd)

-----------------------------------------------------------------------------
(* The runtime: the instruction at an address; jumps and markers are not   *)
(* seen by the user.                                                       *)

Nowhere == [at |-> None, size |-> 0, op |-> "astray", word |-> 0, offsets |-> <<>>]
InstructionAt(a) ==
  IF \E k \in DOMAIN qcode : qcode[k].at = a
  THEN qcode[CHOOSE k \in DOMAIN qcode : qcode[k].at = a]
  ELSE Nowhere

DoGoto(i) == i.at + i.offsets[1]

CodeStep(a) ==
  LET i == InstructionAt(a) IN
  CASE i.op = "stmt" -> a + i.size
    [] i.op = "goto" -> DoGoto(i)
    [] OTHER -> a

(* Where the code comes to next, or an address it passes for ever.         *)
CodeNow ==
  LET size == Cardinality(DOMAIN qcode)
      f[n \in 0 .. size] == IF n = 0 THEN ip ELSE CodeStep(f[n - 1])
  IN f[size]

-----------------------------------------------------------------------------
(* The same of the source: a place is a word, reached from above or to     *)
(* evaluate its condition.                                                 *)

Openers == {"IF", "DO", "WHILE"}
Closers == {"ENDIF", "UNTIL", "ENDWH"}
Depth(n) ==
  Cardinality({k \in 1 .. n - 1 : words[k].w \in Openers})
    - Cardinality({k \in 1 .. n - 1 : words[k].w \in Closers})

LeastOf(S) == CHOOSE n \in S : \A k \in S : n <= k
GreatestOf(S) == CHOOSE n \in S : \A k \in S : n >= k

EndOf(n) == LeastOf({k \in n + 1 .. Len(words) :
                      words[k].w \in Closers /\ Depth(k) = Depth(n) + 1})
StartOf(n) == GreatestOf({k \in 1 .. n - 1 :
                           words[k].w \in Openers /\ Depth(k) = Depth(n) - 1})
ClauseAfter(n) ==
  LeastOf({k \in n + 1 .. Len(words) :
            /\ words[k].w \in {"ELSEIF", "ELSE", "ENDIF"}
            /\ Depth(k) = (IF words[n].w = "IF" THEN Depth(n) + 1 ELSE Depth(n))})
LoopAround(n) == GreatestOf({k \in 1 .. n - 1 :
                              words[k].w \in {"DO", "WHILE"} /\ EndOf(k) > n})
LabelPlace(l) == CHOOSE n \in DOMAIN words : words[n].w = "LABEL" /\ words[n].ls = <<l>>

To(n) == [word |-> n, test |-> FALSE]
Test(n) == [word |-> n, test |-> TRUE]

Continued(n) == IF words[n].w = "DO" THEN Test(EndOf(n)) ELSE Test(n)

SourceStep(p) ==
  LET n == p.word
      w == words[n].w IN
  CASE p.test \/ w \in {"S", "ONERR", "VECTOR", "RETURN", "ENDP"} -> p
    [] w \in {"LABEL", "EOS", "DO", "ENDIF"} /\ ~p.test -> To(n + 1)
    [] w \in {"IF", "WHILE", "UNTIL"} /\ ~p.test -> Test(n)
    [] w \in {"ELSEIF", "ELSE"} /\ ~p.test ->
         To(LeastOf({k \in n + 1 .. Len(words) : words[k].w = "ENDIF" /\ Depth(k) = Depth(n)}))
    [] w = "ENDWH" -> Test(StartOf(n))
    [] w = "BREAK" -> To(EndOf(LoopAround(n)) + 1)
    [] w = "CONTINUE" -> Continued(LoopAround(n))
    [] w = "GOTO" -> To(LabelPlace(words[n].ls[1]))

SourceNow ==
  LET f[n \in 0 .. 2 * Len(words)] == IF n = 0 THEN at ELSE SourceStep(f[n - 1])
  IN f[2 * Len(words)]

(* What a condition decides.                                               *)
Decided(n, outcome) ==
  CASE outcome \/ words[n].w = "VECTOR" -> To(n + 1)
    [] words[n].w = "UNTIL" /\ ~outcome -> To(StartOf(n) + 1)
    [] words[n].w = "WHILE" /\ ~outcome -> To(EndOf(n) + 1)
    [] words[n].w \in {"IF", "ELSEIF"} /\ ~outcome ->
         LET k == ClauseAfter(n) IN IF words[k].w = "ELSEIF" THEN Test(k) ELSE To(k + 1)

-----------------------------------------------------------------------------
(* What the user sees next, by the code and by the source.                 *)

CodeShows ==
  LET i == InstructionAt(CodeNow) IN
  IF i.op \in {"stmt", "goto"} THEN [op |-> "loops", word |-> 0] ELSE [op |-> i.op, word |-> i.word]

SourceShows ==
  LET p == SourceNow
      w == words[p.word].w IN
  CASE p.test \/ w = "VECTOR" -> [op |-> "cond", word |-> p.word]
    [] w = "S" /\ ~p.test -> [op |-> "S", word |-> p.word]
    [] w = "ONERR" /\ ~p.test -> [op |-> "onerr", word |-> p.word]
    [] w \in {"RETURN", "ENDP"} /\ ~p.test -> [op |-> "return", word |-> p.word]
    [] OTHER -> [op |-> "loops", word |-> 0]

Goes(a, p) == ip' = a /\ at' = p
Runs(op) == phase = "run" /\ InstructionAt(CodeNow).op = op /\ SourceShows.op = op

StepDone == UNCHANGED <<source, parser, qcode>>

(* A statement: it succeeds, or it fails and ErrorHandler looks for ONERR;  *)
(* without one the procedure is left.                                      *)
RunStatement ==
  /\ Runs("S")
  /\ \/ Goes(CodeNow + 1, To(SourceNow.word + 1)) /\ UNCHANGED phase
     \/ /\ iOnErrIP # None
        /\ Goes(iOnErrIP, IF handler = 0 THEN SourceNow ELSE To(handler))
        /\ UNCHANGED phase
     \/ iOnErrIP = None /\ phase' = "ended" /\ UNCHANGED <<ip, at>>
  /\ UNCHANGED <<iOnErrIP, handler>> /\ StepDone

(* BranchIfFalse after the expression of a condition.                      *)
RunCondition ==
  /\ Runs("cond")
  /\ LET i == InstructionAt(CodeNow + 2) IN
     /\ i.op = "brfalse"
     /\ \E outcome \in BOOLEAN :
          Goes(IF outcome THEN i.at + i.size ELSE DoGoto(i), Decided(SourceNow.word, outcome))
  /\ UNCHANGED <<phase, iOnErrIP, handler>> /\ StepDone

(* Vector: an index from the list, or one outside it.                      *)
RunVector ==
  /\ Runs("cond")
  /\ LET i == InstructionAt(CodeNow + 2)
         n == SourceNow.word IN
     /\ i.op = "vector" /\ i.word = n
     /\ \/ \E k \in DOMAIN i.offsets : Goes(i.at + i.offsets[k], To(LabelPlace(words[n].ls[k])))
        \/ Goes(i.at + i.size, To(n + 1))
  /\ UNCHANGED <<phase, iOnErrIP, handler>> /\ StepDone

(* OnErr: an offset of 0 is ONERR OFF.                                     *)
RunOnErr ==
  /\ Runs("onerr")
  /\ LET i == InstructionAt(CodeNow)
         n == SourceNow.word IN
     /\ iOnErrIP' = IF i.offsets[1] = 0 THEN None ELSE i.at + i.offsets[1]
     /\ handler' = IF words[n].ls = <<>> THEN 0 ELSE LabelPlace(words[n].ls[1])
     /\ Goes(i.at + i.size, To(n + 1))
  /\ UNCHANGED phase /\ StepDone

RunReturn ==
  /\ Runs("return")
  /\ phase' = "ended"
  /\ UNCHANGED running /\ StepDone

Init ==
  /\ vocab \in Vocabularies
  /\ words = <<>> /\ phase = "parse"
  /\ frames = <<>> /\ iBranches = NoBranches /\ iLastWasReturn = FALSE /\ iCode = <<>>
  /\ qcode = <<>> /\ ip = 0 /\ iOnErrIP = None /\ at = To(1) /\ handler = 0

Run == RunStatement \/ RunCondition \/ RunVector \/ RunOnErr \/ RunReturn
Next == ParseWord \/ Run
Spec == Init /\ [][Next]_vars

-----------------------------------------------------------------------------
(* Properties.                                                             *)

(* Types of the variables.                                                 *)
StructuresTypeOK ==
  /\ vocab \in Vocabularies
  /\ words \in Seq(Word)
  /\ phase \in {"parse", "failed", "run", "ended"}
  /\ frames \in Seq([kind : {"IF", "ELSE", "DO", "WHILE"}, saved : [DOMAIN NoBranches -> Nat]])
  /\ iBranches \in [DOMAIN NoBranches -> Nat]
  /\ iLastWasReturn \in BOOLEAN
  /\ ip \in Int /\ iOnErrIP \in Int
  /\ at \in [word : Nat, test : BOOLEAN] /\ handler \in Nat

(* Every distance the back end patched fits its 16 bits.                   *)
BranchesFit ==
  \A n \in DOMAIN iCode : \A k \in DOMAIN iCode[n].to :
    iCode[n].op = "label"
      \/ LabelAddress(iCode, iCode[n].to[k]) - AddressOf(iCode, n) \in -Reach .. Reach - 1

(* ONERR of a label that stands directly before it.                        *)
OnErrOfItself ==
  \E k \in DOMAIN qcode :
    qcode[k].op = "onerr" /\ qcode[k].offsets = <<0>> /\ words[qcode[k].word].ls # <<>>

(* RETURN, then labels and ENDP on one line.                               *)
LabelAfterReturn ==
  \E n \in 1 .. Len(words) - 2 :
    words[n].w = "RETURN" /\ \A k \in n + 1 .. Len(words) - 1 : words[k].w = "LABEL"

(* Whatever is nested in whatever, the q-code of an accepted procedure     *)
(* shows the user the same statements, conditions and returns as its       *)
(* words, errors and their handlers included.  The two exceptions named    *)
(* above are errors of the code.                                           *)
CodeFollowsSource ==
  phase = "run" /\ BranchesFit /\ ~OnErrOfItself /\ ~LabelAfterReturn =>
    CodeShows = SourceShows /\ (iOnErrIP = None <=> handler = 0)

(* What the words of a procedure must satisfy, read off the words alone.   *)
Opener(w) == CASE w = "UNTIL" -> "DO" [] w = "ENDWH" -> "WHILE" [] OTHER -> "IF"
Inside(n) == {k \in 1 .. n - 1 : words[k].w \in Openers /\ Depth(k) < Depth(n)
                /\ \A j \in k + 1 .. n : Depth(j) > Depth(k)}
WellNested ==
  \A n \in DOMAIN words :
    /\ Cardinality(Inside(n)) + (IF words[n].w \in Openers \cup {"VECTOR"} THEN 1 ELSE 0)
         <= MaxStructureDepth
    /\ words[n].w \in {"ELSEIF", "ELSE"} \cup Closers =>
         /\ Inside(n) # {}
         /\ words[GreatestOf(Inside(n))].w = Opener(words[n].w)
         /\ words[n].w \in {"ELSE", "ELSEIF"} =>
              \A k \in GreatestOf(Inside(n)) + 1 .. n - 1 :
                ~(words[k].w = "ELSE" /\ Depth(k) = Depth(n))
    /\ words[n].w \in {"BREAK", "CONTINUE"} =>
         \E k \in Inside(n) : words[k].w \in {"DO", "WHILE"}
    /\ words[n].w = "ENDP" => Inside(n) = {}
LabelsNamed ==
  \A n, m \in DOMAIN words :
    words[n].w = "LABEL" /\ words[m].w = "LABEL" /\ words[n].ls = words[m].ls => n = m
LabelsFound ==
  \A n \in DOMAIN words : words[n].w \in {"GOTO", "ONERR", "VECTOR"} =>
    \A k \in DOMAIN words[n].ls : \E m \in DOMAIN words :
      words[m].w = "LABEL" /\ words[m].ls[1] = words[n].ls[k]

(* A procedure is refused exactly when its structures do not nest, go too  *)
(* deep or lack a loop, a label is defined twice, or one is missing.       *)
AcceptsExactly ==
  /\ phase \in {"run", "ended"} => WellNested /\ LabelsNamed /\ LabelsFound
  /\ phase = "failed" =>
       ~WellNested \/ ~LabelsNamed \/ (Last(words).w = "ENDP" /\ ~LabelsFound)
=============================================================================
