--------------------------- MODULE OplProcedures ---------------------------
(***************************************************************************)
(* Procedures, errors, EVAL, callbacks and modules of the OPL runtime      *)
(* (oplr/src FRAME, PUSHOC, EN_ERROR, EN_MAIN, MODULE, GLOBTBL, OPLAPI).   *)
(*                                                                         *)
(* One thread interprets q-code.  An opcode is one action; so is each turn *)
(* of the loop of ErrorHandler and of ~COplRuntime.  Execute is recursive  *)
(* (EVAL and the callbacks of an OPX run a nested one), so the activations *)
(* of C++ code that wait for a nested Execute are the sequence `host`.     *)
(*                                                                         *)
(* The q-code is any that the translator can produce: operands are pushed, *)
(* functions replace them, a command takes them all, TRAP comes directly   *)
(* before the command it is for.  `ip.depth` is the number of operands the *)
(* translator knows to be on the stack at that point of the code, `sp` the *)
(* number of items that are there.                                         *)
(***************************************************************************)
EXTENDS Integers, Sequences, FiniteSets, SequencesExt, FiniteSetsExt

CONSTANTS
  Procs,        \* names of procedures
  Files,        \* module files on the disk
  MainFile,     \* the module the runtime starts
  Main,         \* its first procedure
  Contents,     \* Contents[m]: the procedures of file m
  Params,       \* Params[p]: how many parameters p takes
  GlobalsOf,    \* GlobalsOf[p]: the globals p declares, in order
  ExternsOf,    \* ExternsOf[p]: the variables of its callers that p uses
  Bucket,       \* Bucket[n]: the list of CGlobalsTbl that holds name n
  Opcodes,      \* the opcodes the program uses
  MaxModules,   \* KMaxModules
  MaxFrames,    \* bound: frames allocated at a time
  MaxInsts,     \* bound: modules in memory at a time
  MaxDepth,     \* bound: operands of one statement
  MaxNest       \* bound: EVALs and OPX functions in progress

VARIABLES
  mode,         \* where the C++ code is, see Modes
  ip,           \* iIP: the frame whose q-code it points into, the EVAL, operands due
  frame,        \* iFrame, None for NULL
  frames,       \* the frames that are allocated
  sp,           \* items on the evaluation stack
  trap,         \* iTrap
  inCallback,   \* KInCallback of iStateFlags
  infos,        \* iCallbackInfoArray: stack pointer at each InitCallbackL
  host,         \* EVALs and OPX functions in progress, innermost last
  module,       \* the modules in memory: file and iAccessCount
  loaded,       \* CModulesCollection::iModule
  globals,      \* CGlobalsTbl: the globals of the program, latest first
  dialog        \* InitFrame of the dialog under construction, None if there is none

frameVars  == <<frame, frames, globals, dialog>>
moduleVars == <<module, loaded>>
hostVars   == <<infos, host, inCallback>>
vars == <<mode, ip, sp, trap, frameVars, moduleVars, hostVars>>

ASSUME ProcAssumption ==
  /\ MainFile \in Files /\ Main \in Contents[MainFile]
  /\ Contents \in [Files -> SUBSET Procs]
  /\ Params \in [Procs -> Nat] /\ Params[Main] = 0
  /\ {MaxModules, MaxFrames, MaxInsts} \subseteq Nat \ {0}
  /\ {MaxDepth, MaxNest} \subseteq Nat

None   == 0
Frames == 1..MaxFrames
Insts  == 1..MaxInsts
Modes  == {"run", "leave", "exit", "opx", "closing", "ended"}
Names  == DOMAIN Bucket

ASSUME TableAssumption == GlobalsOf \in [Procs -> Seq(Names)] /\ ExternsOf \in [Procs -> SUBSET Names]

\* A point of the code of frame f, in EVAL number e (0: in the procedure itself).
Code(f, e, d) == [frame |-> f, eval |-> e, depth |-> d, trapping |-> FALSE]
Codes == [frame : Frames \cup {None}, eval : Nat, depth : Int, trapping : BOOLEAN]

----------------------------------------------------------------------------
(* Modules                                                                 *)

DecCountToZero(i)      == module' = [module EXCEPT ![i].count = @ - 1]                             \* mutant
DecCountKeepsModule(i) == module' = [module EXCEPT ![i].count = IF @ = 1 THEN 1 ELSE @ - 1]       \* mutant

\* CModule::DecCount: the last user of a module deletes it, its procedures with it.
DecCount(i) ==
  IF module[i].count = 1
    THEN module' = [j \in DOMAIN module \ {i} |-> module[j]]
    ELSE module' = [module EXCEPT ![i].count = @ - 1]

\* CModulesCollection::FindProcedure: the first loaded module that has the procedure, if any.
Having(p)        == {k \in DOMAIN loaded : p \in Contents[module[loaded[k]].file]}
FindProcedure(p) == {loaded[k] : k \in {j \in Having(p) : \A l \in Having(p) : j <= l}}

\* FindModule: files in the collection; a module still running after UNLOADM is not.
IsLoaded(m) == \E k \in DOMAIN loaded : module[loaded[k]].file = m

----------------------------------------------------------------------------
(* The table of globals                                                    *)

AddGlobalsLast(p, f) ==                                                                       \* mutant
  globals \o [k \in DOMAIN GlobalsOf[p] |-> [name |-> GlobalsOf[p][k], owner |-> f]]

\* The globals of p in its frame f, the last first.
Declared(p, f) == Reverse([k \in DOMAIN GlobalsOf[p] |-> [name |-> GlobalsOf[p][k], owner |-> f]])

\* AddGlobalsL: each goes to the front of its list.
AddGlobals(p, f) == Declared(p, f) \o globals

\* Remove(name) takes the first entry of the list of the name, whatever its own name.
DropFirst(table, n) ==
  LET SameList(g) == Bucket[g.name] = Bucket[n]
      k == SelectInSeq(table, SameList)
  IN IF k = 0 THEN table ELSE RemoveAt(table, k)

RemoveGlobals(p) == FoldLeft(DropFirst, globals, GlobalsOf[p])

OldestOwner(table, n) ==                                                                      \* mutant
  LET Named(g) == g.name = n
      k == SelectLastInSeq(table, Named)
  IN IF k = 0 THEN None ELSE table[k].owner

\* Find: the owner of the latest global of that name, None if there is none.
Owner(table, n) ==
  LET Named(g) == g.name = n
      k == SelectInSeq(table, Named)
  IN IF k = 0 THEN None ELSE table[k].owner

----------------------------------------------------------------------------
(* Frames                                                                  *)

ProcOf(f) == frames[f].def[2]

ArgumentsWithoutName(f) == Params[ProcOf(f)] + 1                                              \* mutant

\* What the call put on the stack: the parameters, their number, the name for a call by name.
Arguments(f) == Params[ProcOf(f)] + 1 + (IF frames[f].byName THEN 1 ELSE 0)

DialogStays(f)   == dialog                                                                    \* mutant
DialogWithout(f) == IF dialog = f THEN None ELSE dialog

\* ~CFrame: its dialog, its globals and its count on the module go; the caller is current.
DeleteFrame(f) ==
  /\ dialog' = DialogWithout(f)
  /\ globals' = RemoveGlobals(ProcOf(f))
  /\ DecCount(frames[f].def[1])
  /\ frame' = frames[f].prev
  /\ ip' = frames[f].ret
  /\ frames' = [g \in DOMAIN frames \ {f} |-> frames[g]]
  /\ UNCHANGED loaded

\* CFrame::ConstructL up to its end: the frame of p counts on its module, its globals are known.
ConstructFrame(f, p, prev, ret, base, byName) ==
  /\ f \in Frames \ DOMAIN frames
  /\ \A g \in Frames \ DOMAIN frames : f <= g
  /\ globals' = AddGlobals(p, f)
  /\ \E i \in FindProcedure(p) :
       /\ frames' = [g \in DOMAIN frames \cup {f} |->
                       IF g = f THEN [def |-> <<i, p>>, prev |-> prev, base |-> base, ret |-> ret,
                                      onerr |-> None, evals |-> 0, byName |-> byName,
                                      externs |-> [n \in ExternsOf[p] |-> Owner(globals', n)]]
                                ELSE frames[g]]
       /\ module' = [module EXCEPT ![i].count = @ + 1]
  /\ UNCHANGED <<loaded, dialog>>

\* GetExternsL: the frame just made finds all its externals.
Resolved(p, table) == \A n \in ExternsOf[p] : Owner(table, n) # None

----------------------------------------------------------------------------
(* Running q-code                                                          *)

\* The q-code that ip points into is in memory: that of a procedure goes with its module, that
\* of an EVAL with the EVAL.
CodeInMemory ==
  /\ ip.frame \in DOMAIN frames
  /\ ip.eval # 0 => ip.eval \in DOMAIN host /\ host[ip.eval].kind = "eval"

\* iFrame points to a frame; what happens with a dangling one is nothing the source defines
\* either (WaitersKeepFrames says that there is none).
Current == frame \in DOMAIN frames

\* The sequencer runs the opcode; what it does without code is nothing the source defines.
Executing(op) == op \in Opcodes /\ mode = "run" /\ Current /\ CodeInMemory

\* A statement, which the text of an EVAL does not have, at a depth of d operands.
Statement(op, d) == Executing(op) /\ ip.eval = 0 /\ ip.depth = d /\ ~ip.trapping

\* A command that TRAP may precede.
Command(op, d) == Executing(op) /\ ip.eval = 0 /\ ip.depth = d

To(d)  == ip' = [ip EXCEPT !.depth = d, !.trapping = FALSE]
Leaves == mode' = "leave"

Push ==
  /\ Executing("Push") /\ ~ip.trapping /\ ip.depth < MaxDepth
  /\ To(ip.depth + 1) /\ sp' = sp + 1
  /\ UNCHANGED <<mode, trap, frameVars, moduleVars, hostVars>>

\* An operator of two operands, or one of its errors.
Operator ==
  /\ Executing("Operator") /\ ~ip.trapping /\ ip.depth > 1
  /\ To(ip.depth - 1) /\ sp' = sp - 1
  /\ \/ UNCHANGED mode
     \/ Leaves
  /\ UNCHANGED <<trap, frameVars, moduleVars, hostVars>>

\* The result of a call that is a statement is dropped.
Drop ==
  /\ Statement("Drop", 1)
  /\ To(0) /\ sp' = sp - 1
  /\ UNCHANGED <<mode, trap, frameVars, moduleVars, hostVars>>

\* A command that takes the operand of its statement; RAISE is one that always leaves.
Raise ==
  /\ Command("Raise", 1)
  /\ To(0) /\ sp' = sp - 1 /\ Leaves
  /\ UNCHANGED <<trap, frameVars, moduleVars, hostVars>>

Trap ==
  /\ Executing("Trap") /\ ip.eval = 0 /\ ip.depth < 2 /\ ~ip.trapping
  /\ trap' = TRUE /\ ip' = [ip EXCEPT !.trapping = TRUE]
  /\ UNCHANGED <<mode, sp, frameVars, moduleVars, hostVars>>

\* CANCEL may leave (no file is open), IOSIGNAL does not; neither clears the trap flag.
Cancel ==
  /\ Command("Cancel", 0)
  /\ To(0)
  /\ \/ UNCHANGED mode
     \/ Leaves
  /\ UNCHANGED <<sp, trap, frameVars, moduleVars, hostVars>>

IoSignal ==
  /\ Command("IoSignal", 0)
  /\ To(0)
  /\ UNCHANGED <<mode, sp, trap, frameVars, moduleVars, hostVars>>

OnErr ==
  /\ Statement("OnErr", 0)
  /\ \E handler \in {None, ip.frame} : frames' = [frames EXCEPT ![frame].onerr = handler]
  /\ UNCHANGED <<mode, ip, sp, trap, frame, globals, dialog, moduleVars, hostVars>>

Stop ==
  /\ Statement("Stop", 0)
  /\ mode' = IF inCallback THEN "leave" ELSE "exit"
  /\ UNCHANGED <<ip, sp, trap, frameVars, moduleVars, hostVars>>

----------------------------------------------------------------------------
(* Calls and returns                                                       *)

\* A call that fails before its frame is current: no such procedure, no memory, wrong
\* parameters.  The frame begun is deleted again, with what it added and counted.
CallFails == UNCHANGED <<frameVars, moduleVars>>

\* FinishConstructionL: from here on an error is reported in the new frame.
FinishConstruction(f, p, ret) ==
  IF Resolved(p, AddGlobals(p, f))
    THEN ip' = Code(f, 0, 0) /\ mode' = "run"
    ELSE ip' = ret /\ Leaves

\* RunProcedure and CallProcByStringExpr: `taken` operands are the arguments of the call.
Call(p, taken, byName) ==
  LET ret == [ip EXCEPT !.depth = @ - taken + 1] IN
  /\ ~ip.trapping /\ ip.depth \in taken..(MaxDepth + taken - 1)
  /\ \/ Leaves /\ ip' = ret /\ sp' = sp + 1 /\ CallFails
     \/ \E f \in Frames :
          /\ ConstructFrame(f, p, frame, ret, sp + 1, byName)
          /\ FinishConstruction(f, p, ret)
          /\ frame' = f /\ sp' = sp + 1
  /\ UNCHANGED <<trap, hostVars>>

RunProcedure(p) == Executing("Call") /\ ip.eval = 0 /\ Call(p, Params[p], FALSE)
CallByName(p)   == Executing("CallByName") /\ Call(p, Params[p] + 1, TRUE)

\* RemoveFrame, then CheckExitL: the last frame of an Execute ends it.
RemoveFrame(base) ==
  /\ DeleteFrame(frame)
  /\ sp' = base - Arguments(frame) + 1
  /\ mode' = IF frames[frame].prev = None THEN "exit" ELSE "run"
  /\ UNCHANGED <<trap, hostVars>>

\* Return copies the value over the arguments, wherever the stack pointer is.
Return     == Statement("Return", 1) /\ RemoveFrame(frames[frame].base)
ZeroReturn == Statement("Return", 0) /\ RemoveFrame(sp)

----------------------------------------------------------------------------
(* ErrorHandler                                                            *)

ClearErrorKeepsStack == trap' = FALSE /\ mode' = "run" /\ UNCHANGED sp                        \* mutant
ClearErrorKeepsTrap  == sp' = frames[frame].base /\ mode' = "run" /\ UNCHANGED trap           \* mutant

\* ClearError(frame): the stack is that of a statement of the frame, TRAP is spent.
ClearError == sp' = frames[frame].base /\ trap' = FALSE /\ mode' = "run"

Trapped ==
  /\ mode = "leave" /\ trap /\ Current
  /\ ClearError
  /\ UNCHANGED <<ip, frameVars, moduleVars, hostVars>>

EvaluatesNever(f) == FALSE                                                                    \* mutant

\* EvalNestCount: the errors of an EVAL end it before they unwind the frame it belongs to.
Evaluates(f) == frames[f].evals > 0

Unwinding == mode = "leave" /\ ~trap

CatchError ==
  /\ Unwinding /\ Current
  /\ ~Evaluates(frame) /\ frames[frame].onerr # None
  /\ ClearError /\ ip' = Code(frames[frame].onerr, 0, 0)
  /\ UNCHANGED <<frameVars, moduleVars, hostVars>>

DropFrame ==
  /\ Unwinding /\ Current
  /\ ~Evaluates(frame) /\ frames[frame].onerr = None
  /\ DeleteFrame(frame)
  /\ UNCHANGED <<mode, sp, trap, hostVars>>

GivesUpAtOnce   == Unwinding                                                                  \* mutant
GivesUpAtBottom == Unwinding /\ frame = None                                                  \* mutant

\* No handler in this Execute: it returns the error.
GivesUp == Unwinding /\ (frame = None \/ (Current /\ Evaluates(frame)))

----------------------------------------------------------------------------
(* EVAL                                                                    *)

Eval ==
  /\ Executing("Eval") /\ ~ip.trapping /\ ip.depth > 0
  /\ sp' = sp - 1
  /\ \/ Leaves /\ UNCHANGED <<ip, frames, host>>
     \/ /\ Len(host) < MaxNest
        /\ host' = Append(host, [kind |-> "eval", frame |-> frame, ip |-> ip])
        /\ frames' = [frames EXCEPT ![frame].evals = @ + 1]
        /\ ip' = Code(frame, Len(host) + 1, 0)
        /\ UNCHANGED mode
  /\ UNCHANGED <<trap, frame, globals, dialog, moduleVars, infos, inCallback>>

ReturnFromEval ==
  /\ Executing("Eval") /\ ip.eval > 0 /\ ~ip.trapping /\ ip.depth = 1
  /\ mode' = "exit"
  /\ UNCHANGED <<ip, sp, trap, frameVars, moduleVars, hostVars>>

Innermost(kind) == host # <<>> /\ Last(host).kind = kind

StaysInEval == UNCHANGED ip                                                                   \* mutant
LeavesEval  == ip' = Last(host).ip

\* The nested Execute is over: the frame that EVALuates and its ip are as they were.
\* The DoConsumeEvent that ends every Execute touches events only: OplEventLoop's ExecuteEnds.
EvalEnds ==
  /\ Innermost("eval") /\ Last(host).frame \in DOMAIN frames
  /\ \/ mode = "exit" /\ mode' = "run"
     \/ GivesUp /\ UNCHANGED mode
  /\ frames' = [frames EXCEPT ![Last(host).frame].evals = @ - 1]
  /\ LeavesEval
  /\ host' = Front(host)
  /\ UNCHANGED <<sp, trap, frame, globals, dialog, moduleVars, infos, inCallback>>

----------------------------------------------------------------------------
(* OPX functions and their callbacks                                       *)

\* CallOpxFunc: the function pops its arguments and is in control.
CallOpxFunc ==
  /\ Executing("Opx") /\ ip.eval = 0 /\ ~ip.trapping /\ ip.depth > 0
  /\ Len(host) < MaxNest
  /\ host' = Append(host, [kind |-> "opx", frame |-> frame, ip |-> ip])
  /\ sp' = sp - 1 /\ mode' = "opx"
  /\ UNCHANGED <<ip, trap, frameVars, moduleVars, infos, inCallback>>

\* The function is over: it pushes its result, or leaves with an error of its own or of a callback.
OpxEnds ==
  /\ mode = "opx"
  /\ host' = Front(host)
  /\ \/ mode' = "run" /\ sp' = sp + 1
     \/ Leaves /\ UNCHANGED sp
  /\ UNCHANGED <<ip, trap, frameVars, moduleVars, infos, inCallback>>

SetsNoFlag     == UNCHANGED inCallback                                                        \* mutant
SetsInCallback == inCallback' = TRUE

\* InitCallbackL, PushParamL and CallProcedure: the name, the parameters and their number go
\* on the stack, iFrame is NULL so that errors return here, and a nested Execute starts.
CallProcedure(p) ==
  /\ mode = "opx" /\ "Callback" \in Opcodes
  /\ SetsInCallback /\ infos' = Append(infos, sp)
  /\ sp' = sp + Params[p] + 2 /\ mode' = "run"
  /\ Resolved(p, globals)
  /\ \E f \in Frames :
       /\ ConstructFrame(f, p, None, ip, sp', TRUE)
       /\ frame' = f /\ ip' = Code(f, 0, 0)
  /\ UNCHANGED <<trap, host>>

\* PushParamL leaves before CallProcedure, or DoCallProcByStringExpr in it: either has called
\* ResetStack, and the function gets the error.
CallProcedureFails ==
  /\ mode = "opx" /\ "Callback" \in Opcodes
  /\ inCallback' \in {inCallback, FALSE}
  /\ CallFails
  /\ UNCHANGED <<mode, ip, sp, trap, infos, host>>

\* It leaves in FinishConstructionL: the frame made is in nobody's hands.
CallProcedureUnresolved(p) ==
  /\ mode = "opx" /\ "Unresolved" \in Opcodes
  /\ inCallback' = FALSE
  /\ ~Resolved(p, globals)
  /\ \E f \in Frames : ConstructFrame(f, p, None, ip, sp + Params[p] + 2, TRUE)
  /\ UNCHANGED <<mode, frame, ip, sp, trap, infos, host>>

KeepsCallbackInfo   == UNCHANGED infos                                                        \* mutant
DeletesCallbackInfo == infos' = Front(infos)

\* Execute is over: the result is popped, or ResetStack undoes what was pushed.
CallbackEnds ==
  /\ Innermost("opx")
  /\ \/ mode = "exit" /\ sp' = sp - 1
     \/ GivesUp /\ sp' = Last(infos)
  /\ mode' = "opx"
  /\ frame' = Last(host).frame
  /\ DeletesCallbackInfo /\ inCallback' = FALSE
  /\ UNCHANGED <<ip, trap, frames, globals, dialog, host, moduleVars>>

----------------------------------------------------------------------------
(* LOADM, UNLOADM and dialogs                                              *)

\* LoadModuleL: a new CModule, even when one of that file is still running after an UNLOADM.
LoadM(m) ==
  /\ Command("LoadM", 1)
  /\ To(0) /\ sp' = sp - 1
  /\ \/ Leaves /\ UNCHANGED <<trap, moduleVars>>
     \/ /\ ~IsLoaded(m) /\ Len(loaded) < MaxModules
        /\ \E i \in Insts \ DOMAIN module :
             /\ \A j \in Insts \ DOMAIN module : i <= j
             /\ module' = [j \in DOMAIN module \cup {i} |->
                             IF j = i THEN [file |-> m, count |-> 1] ELSE module[j]]
             /\ loaded' = Append(loaded, i)
        /\ trap' = FALSE
        /\ UNCHANGED mode
  /\ UNCHANGED <<frameVars, hostVars>>

\* UnloadModule: out of the collection; the module lives on while its procedures run.
UnLoadM(m) ==
  /\ Command("UnLoadM", 1)
  /\ To(0) /\ sp' = sp - 1
  /\ \/ ~IsLoaded(m) /\ Leaves /\ UNCHANGED <<trap, moduleVars>>
     \/ \E k \in DOMAIN loaded :
          /\ module[loaded[k]].file = m
          /\ DecCount(loaded[k])
          /\ loaded' = RemoveAt(loaded, k)
          /\ trap' = FALSE
          /\ UNCHANGED mode
  /\ UNCHANGED <<frameVars, hostVars>>

\* dINIT replaces the dialog under construction; without memory there is none.
DInit ==
  /\ Statement("Dialog", 0)
  /\ \/ dialog' = frame /\ UNCHANGED mode
     \/ dialog' = None /\ Leaves
  /\ UNCHANGED <<ip, sp, trap, frame, frames, globals, moduleVars, hostVars>>

\* An item of the dialog: an error, or a dialog of another procedure, deletes the dialog.
DItem ==
  /\ Statement("Dialog", 1)
  /\ To(0) /\ sp' = sp - 1
  /\ \/ dialog = frame /\ UNCHANGED <<mode, dialog>>
     \/ dialog' = None /\ Leaves
  /\ UNCHANGED <<trap, frame, frames, globals, moduleVars, hostVars>>

\* DIALOG shows it, writes to the variables of the procedure and deletes it, error or not.
Dialog ==
  /\ Statement("Dialog", 0)
  /\ \/ dialog = frame /\ dialog' = None /\ sp' = sp + 1 /\ To(1) /\ UNCHANGED mode
     \/ dialog = frame /\ dialog' = None /\ Leaves /\ UNCHANGED <<sp, ip>>
     \/ dialog # frame /\ Leaves /\ UNCHANGED <<dialog, sp, ip>>
  /\ UNCHANGED <<trap, frame, frames, globals, moduleVars, hostVars>>

----------------------------------------------------------------------------
(* The end of the program                                                  *)

\* Execute returns to ExecuteD, which deletes the runtime.
ProgramEnds ==
  /\ host = <<>>
  /\ mode = "exit" \/ GivesUp
  /\ mode' = "closing"
  /\ UNCHANGED <<ip, sp, trap, frameVars, moduleVars, hostVars>>

\* ~COplRuntime: the frames, then the modules of the collection, whatever their counts.
CloseFrame ==
  /\ mode = "closing" /\ Current
  /\ DeleteFrame(frame)
  /\ UNCHANGED <<mode, sp, trap, hostVars>>

CloseModules ==
  /\ mode = "closing" /\ frame = None
  /\ mode' = "ended"
  /\ LET left == DOMAIN module \ Range(loaded)
     IN module' = [i \in left |-> module[i]]
  /\ loaded' = <<>>
  /\ UNCHANGED <<ip, sp, trap, frameVars, hostVars>>

----------------------------------------------------------------------------
(* InitializeL has loaded the module and entered its first procedure.      *)

Init ==
  /\ mode = "run" /\ ip = Code(1, 0, 0) /\ sp = 1 /\ trap = FALSE
  /\ frame = 1
  /\ frames = [f \in {1} |-> [def |-> <<1, Main>>, prev |-> None, base |-> 1,
                              ret |-> Code(None, 0, 0), onerr |-> None, evals |-> 0,
                              byName |-> FALSE, externs |-> [n \in {} |-> None]]]
  /\ globals = Declared(Main, 1)
  /\ dialog = None
  /\ module = [i \in {1} |-> [file |-> MainFile, count |-> 2]]
  /\ loaded = <<1>>
  /\ infos = <<>> /\ host = <<>> /\ inCallback = FALSE

Calls == \E p \in Procs : \/ RunProcedure(p) \/ CallByName(p) \/ CallProcedure(p)
                          \/ CallProcedureFails \/ CallProcedureUnresolved(p)

Operands  == Push \/ Operator \/ Drop \/ Raise \/ Trap \/ Cancel \/ IoSignal \/ OnErr
Ends      == Stop \/ Return \/ ZeroReturn \/ ReturnFromEval \/ EvalEnds \/ OpxEnds \/ CallbackEnds
Handling  == Trapped \/ CatchError \/ DropFrame
Loads     == \E m \in Files : LoadM(m) \/ UnLoadM(m)
Dialogs   == DInit \/ DItem \/ Dialog
Closing   == ProgramEnds \/ CloseFrame \/ CloseModules

Next == Operands \/ Calls \/ Ends \/ Handling \/ Eval \/ CallOpxFunc \/ Loads \/ Dialogs \/ Closing

Spec == Init /\ [][Next]_vars

----------------------------------------------------------------------------
(* Properties                                                              *)

FrameRecords(externs) ==
  [def : Insts \X Procs, prev : Frames \cup {None}, base : Int, ret : Codes,
   onerr : Frames \cup {None}, evals : Int, byName : BOOLEAN, externs : externs]
Hosts   == [kind : {"eval", "opx"}, frame : Frames, ip : Codes]
Modules == [file : Files, count : Nat \ {0}]

FramesTyped ==
  /\ DOMAIN frames \subseteq Frames
  /\ \A f \in DOMAIN frames : frames[f] \in FrameRecords({frames[f].externs})

ModulesTyped == DOMAIN module \subseteq Insts /\ \A i \in DOMAIN module : module[i] \in Modules

\* The types of the control state.
ControlTypes ==
  /\ mode \in Modes /\ ip \in Codes /\ sp \in Int /\ trap \in BOOLEAN /\ inCallback \in BOOLEAN
  /\ frame \in Frames \cup {None}
  /\ infos \in Seq(Int) /\ host \in Seq(Hosts)
  /\ FramesTyped /\ ModulesTyped /\ loaded \in Seq(Insts)

\* Each variable keeps the type of its C++ counterpart.
TypeOK ==
  /\ ControlTypes
  /\ globals \in Seq([name : Names, owner : Frames])
  /\ \A f \in DOMAIN frames : \A n \in DOMAIN frames[f].externs :
       n \in Names /\ frames[f].externs[n] \in Frames \cup {None}
  /\ dialog \in Frames \cup {None}

Users(i) == {f \in DOMAIN frames : frames[f].def[1] = i}

Counted ==
  /\ DOMAIN module = Range(loaded) \cup {frames[f].def[1] : f \in DOMAIN frames}
  /\ \A i \in DOMAIN module :
       module[i].count = Cardinality(Users(i)) + (IF i \in Range(loaded) THEN 1 ELSE 0)

\* A module is in memory exactly as long as something uses it: its access count is the number of
\* frames that run its procedures, plus one while it is in the collection.
CountsExact == mode # "ended" => Counted

\* The sequencer never interprets memory that was freed, and the frame whose variables the
\* opcodes use is the one the q-code belongs to.
CodeIsCurrent == mode = "run" => frame \in DOMAIN frames /\ CodeInMemory /\ ip.frame = frame

\* Where the stack pointer is when c runs as the translator meant: operands of an EVAL lie on
\* those of the statement that EVALuates.
Expected(c) ==
  LET below[e \in 0..Len(host)] ==
        IF e = 0 THEN 0
        ELSE below[host[e].ip.eval] + host[e].ip.depth - 1
  IN frames[c.frame].base + below[c.eval] + c.depth

\* Whatever was trapped, caught, EVALuated or called back, the operands on the stack are the
\* ones the q-code expects.
StackAgrees ==
  /\ mode = "run" /\ ip.frame \in DOMAIN frames => sp = Expected(ip)
  /\ mode = "opx" /\ Last(host).frame \in DOMAIN frames => sp = Expected(Last(host).ip) - 1

\* The table of globals holds the globals of the frames that exist, each frame's own, no others.
GlobalsExact ==
  mode \in {"run", "opx", "ended"} =>
    /\ \A k \in DOMAIN globals : globals[k].owner \in DOMAIN frames
    /\ \A f \in DOMAIN frames :
         LET own == Declared(ProcOf(f), f) IN
         \E d \in 0..(Len(globals) - Len(own)) : \A k \in DOMAIN globals :
           IF k - d \in DOMAIN own THEN globals[k] = own[k - d] ELSE globals[k].owner # f

\* Globals have dynamic scope: an external is the variable of the latest of the procedures in
\* progress that declares it.  Frames are allocated upwards, so callers have lower numbers.
ExternsAreCallers ==
  mode = "run" =>
    \A f \in DOMAIN frames : \A n \in DOMAIN frames[f].externs :
      LET declaring == {g \in DOMAIN frames : g <= f /\ n \in Range(GlobalsOf[ProcOf(g)])}
      IN  declaring # {} /\ frames[f].externs[n] = Max(declaring)

\* TRAP concerns its own command only: no error of a later opcode is swallowed.
TrapIsForItsCommand == trap => ip.trapping \/ mode = "leave"

\* A dialog under construction belongs to a frame that exists, never to a later one at its address.
DialogOwnerExists == dialog # None => dialog \in DOMAIN frames

\* What a program has allocated is gone when it ends.
NothingIsLeft == mode = "ended" => DOMAIN frames = {} /\ DOMAIN module = {} /\ globals = <<>>

\* Whatever unwinds, iFrame and the frames that the EVALs and OPX functions in progress return to exist,
\* and iEvalNestCount tells the error handler how many EVALs of the frame are in progress.
WaitersKeepFrames ==
  mode # "ended" /\ mode # "closing" =>
    /\ frame = None \/ Current
    /\ \A k \in DOMAIN host : host[k].frame \in DOMAIN frames
    /\ \A f \in DOMAIN frames :
         frames[f].evals = Cardinality({k \in DOMAIN host : host[k].kind = "eval" /\ host[k].frame = f})

\* ResetStack has the stack pointer of its own callback: one record for each in progress.
OpxFunctions == {k \in DOMAIN host : host[k].kind = "opx"}
CallbacksRecorded ==
  Len(infos) = Cardinality(OpxFunctions) - (IF mode = "opx" THEN 1 ELSE 0)

\* STOP is refused in a callback, which would return no result to its OPX.
StopRefusedInCallback == [][Stop /\ infos # <<>> => Leaves]_vars

\* An error finds its handler, goes to the OPX that called back, or ends the program.
ErrorsAreHandled == mode = "leave" ~> mode \in {"run", "opx", "closing"}

FairSpec == Spec /\ WF_vars(mode = "leave" /\ (Handling \/ EvalEnds \/ CallbackEnds \/ ProgramEnds))

====
