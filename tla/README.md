# A formal model of the OPL runtime and translator

This directory holds TLA+ modules that model OPL, the programming language of Symbian OS
(runtime `src/oplr`, translator `src/oplt`, tools and extension libraries), TLC configurations
that check them on small instances, and proofs checked by TLAPS. Every definition is a
translation of the code; `PROJECT.json` ("map") names the lines behind each one.

## 1. The system

| Part | State it keeps | Operations | Talks to |
|---|---|---|---|
| Event loop (`IOMAIN.CPP`) | request semaphore, event queue with its backup region and shelf-life timer, array of requests, one KEYA/GETEVENTA, suspension, signals buffered during dialogs | every keyword that waits or polls | window server, devices, interpreter loop, CONE's scheduler |
| Interpreter loop (`EN_MAIN.CPP`) | instruction pointer, opcode count | `SequencerL`: one opcode, a poll every so many opcodes | all opcodes; the event loop between opcodes |
| Procedures, frames, stack (`FRAME`, `PUSHOC`, `STACK`, `GLOBTBL`) | list of frames with globals and externals, evaluation stack, code buffers | call, return, `EVAL`, string calls | modules (reference counts), error handler |
| Error handling (`EN_ERROR.CPP`) | trap flag, ONERR address per frame, last error | leave out of an opcode, TRAP, ONERR, RAISE | frames: unwinds to the first handler |
| Modules and OPXs (`MODULE`, `OPLAPI`) | up to 8 loaded modules, a count of calls per module, loaded OPXs, the callback flag | LOADM, UNLOADM, OPX call, callback from an OPX | procedures |
| Database keywords (`LB_DBASE.CPP`) | logical names A to Z, row sets and the databases they share, current record and POS, record buffer and its mode, bookmarks, transactions | OPEN, USE, FIRST ... UPDATE, MODIFY, PUT, CLOSE | DBMS server |
| Graphics and console (`GRAPHICS`, `G_KEYWRD`, `CONSOLE`, `CONKYWD`) | table of drawables, current one, console position | gCREATE, gUSE, gCLOSE ..., PRINT, AT | window server |
| Dialogs, menus, editing (`EIK_KEY`, `HISTORY`) | dialog under construction, values to write back | DINIT, d-items, DIALOG; MENU | nested active scheduler of the event loop |
| Devices and files (`IODEV`, `OPLFILE`, `FILEKEY`) | handle table, file positions | IOOPEN, IOA, IOC, IOW, IOCLOSE, IOSEEK | event loop (completions) |
| Opcode handlers (`EN_ARITH`, `EN_CMP`, `OPLCONV`, `LB_*`, `G_KEYWRD`, `EIK_KEY` ...) | none of their own: they take operands from the stack and leave a result | some 370 opcodes and functions, found by number in `OPCODES.CPP` | stack, q-code, and the part whose keyword it is |
| Translator, front end (`oplt/stran/OT_*`) | token read-ahead, operator stack, p-code, symbol tables, branches of open structures | parsing of statements, structures and expressions | text stream, back end |
| Translator, back end (`OPL16GEN.CPP`) | account of the stack a procedure takes, addresses of labels and patches | p-code to q-code of one procedure | module file |
| Tools (`opltools`, `texted`) | command line, editor document | translation and running of programs | translator |
| OPXs (`opx`) | handles of the wrapped system service | 546 functions in nineteen libraries, declared in `.txh` headers | runtime through `OPLAPI`; the translator reads the headers |

What is hard in this code, and what each part must guarantee:

* **Event loop.** One counting semaphore serves all waits of the thread, and a signal has no
  identity: whoever takes one guesses its reason from what has completed. The code sets signals
  and events aside during a wait, gives them back at its end, takes signals it believes to be
  there ("returns straightaway") and does all that across suspension (CTRL-S/CTRL-Q), nested
  dialogs and a time-out timer. *Guarantees wanted:* signals are accounted for exactly; no wait
  that should be immediate blocks; no completion, no key and no order of keys is lost; waits end.
* **Procedures, errors, modules.** A leave can unwind any number of frames, in the middle of a
  call, out of a callback, or in `EVAL`. *Wanted:* the count of each module equals the frames
  that execute it; a module with a running procedure is not unloaded; the stack pointer and the
  trap flag after an error are the handler's own.
* **Databases.** Several logical names may share a database, each has a record buffer with two
  ways to fill it (assign, then APPEND or UPDATE; MODIFY or INSERT, then PUT), and POS is kept
  beside the cursor. *Wanted:* a file is open exactly while a name is; the cached row set is
  that of the current name; buffer and mode agree; POS is the record's number; no record is lost.
* **Structures and jumps.** Labels are saved, renewed and restored as structures nest; offsets are
  patched when the code is out. *Wanted:* the code does what the words say in every nesting.
* **Expressions.** The parser goes back into the code it has written to convert a left operand.
  *Wanted:* the code computes what the expression means, each operand once and in order.
* **Translator against runtime.** What an operation is called, what it takes and what it returns is
  written down by hand up to eight times: in the keyword or function tables, two enumerations and
  two tables of q-code, two dispatch tables and the handlers; for an OPX in the header, in `RunL`
  and in the function. A release build checks no type on the stack. *Wanted:* all of them agree.

## 2. The modules

| Module | What it is |
|---|---|
| `OplEventLoop` | the event loop: state, the keywords that use it, `WaitForEvent`, `IsEventReady`, dialogs, the environment; its properties |
| `OplTypeAhead` | what a program that is typed at may expect: the abstract specification that `OplEventLoop` implements for keys |
| `OplIocTest` | the OPL program of the runtime's own test of IOC/IOCANCEL as a client of `OplEventLoop` |
| `OplProcedures` | calls and returns, the error handler, EVAL, callbacks from OPXs, modules and their counts, the table of globals, the dialog under construction, the end of the program; its properties |
| `OplDatabase` | the database keywords: names, row sets, databases, buffers and modes, POS, bookmarks, transactions; its properties |
| `OplLogicalNames` | what logical names promise a program: the abstract specification that `OplDatabase` implements |
| `OplStructures` | control structures from the words of a procedure to the execution of its q-code |
| `OplExpressions` | the operator-precedence parser of expressions, and what an expression means |
| `OplOpcodes` | the numbers of the q-code: the translator's tables and the runtime's dispatch tables |
| `OplHandlers` | what each handler of the runtime reads, pops and pushes |
| `OplKeywords` | the statements and functions of the language: arguments and the p-code that ends them |
| `OplOpxLibraries` | nineteen OPX libraries: declarations, handlers, `RunL` |
| `OplOpx` | calls of OPX functions, from the declaration to `RunL` |
| `OplOperands` | composes the last six: p-code to q-code, the stack account, and the run of the code |
| `MC...` | values of the constants for TLC |
| `OplEventLoopProofs` | theorems about the event loop: types, signals and wake-ups; keys |
| `OplProceduresProofs`, `OplFramesProofs`, `OplStackProofs`, `OplGlobalsProofs` | theorems about procedures: counts and the trap flag; frames; the stack pointer; globals and externals |
| `OplDatabaseProofs` | theorems about databases: counts and the refinement; types, records, buffers, POS |
| `OplStructuresProofs`, `OplCodeProofs` | theorems about the translator's structures: what is accepted, the types; the q-code follows the source |

`OplEventLoop` and `OplProcedures` meet in the interpreter loop: between two opcodes `SequencerL`
polls (`OplEventLoop`), an opcode runs or leaves (`OplProcedures`). `OplDatabase` is a set of opcodes
whose errors go to `OplProcedures`. No state is shared, so they are checked apart. Translator
and runtime share the q-code: `OplStructures` composes parser, back end and the runtime's jumps,
`OplOperands` composes parser, back end and the runtime's handlers.

### How `OplEventLoop` corresponds to the code

`sem` is the thread's request semaphore: +1 where the code or a server completes a request,
-1 for each `User::WaitForAnyRequest`. The two waits of the loop in `WaitForEvent`, for an event and
at the end of a poll, are steps of their own with the guard `sem > 0`: the thread sleeps there
until a signal comes. The code comments the second "returns straightaway", so
`WaitsReturnStraightaway` asks that `sem > 0` whenever the thread is there. The other waits commented so
take their signal within a step, without a guard: a negative `sem` shows one that would block. `queue`, `backup` and `expiring` are `iQueue`, `iNumberOfEventsInBackupRegion` and
`iNumberOfExpiringEvents`; `req` is `iRequestArray`; `replace` is `iNumberOfSignalsToReplace` of
`WaitForEvent`, `outer` the local counter of IOWAITSTAT; `source` is the one additional event
source a keyword of the runtime passes (the timer of PAUSE); `keya` stands for `iStatPtr` and
`iKeysOnly`. An event is a kind (key, pointer, message) and the number of its arrival.

`pc` says where the thread is: `run` between opcodes, `enter` before the loop of `WaitForEvent`,
`wait` in it, `leave` after it, `probe_enter`/`probe` in `IsEventReady`, `dialog` in a nested
scheduler. The end of an `Execute` that ran for an EVAL or a callback is the keyword `EVAL`
(`ExecuteEnds`): its `DoConsumeEvent` probes as KEY does and throws the key away. It may come at
any time between opcodes. The end of the outermost `Execute` is left out, as nothing runs after it.
Each iteration of the loop is one action per handler (`OfferTo...`), chosen by
`Handler`, which is `SetUpArrayOfEventHandlers`. Purges take one event per step.

Abstracted: the codes of keys and the fields of events, formatting into the program's arrays;
the FEP, which may pass, eat or replace an event; events of the foreground and the brightness
key, whose handling changes nothing modelled. The history variables `plain`, `stray` and `last`
count signals without a request of their own, signals that belong to nothing, and the last
event handed to the program or soaked up.

Not modelled in this part: the escape key that ends the process; `CIOCollection`'s handle table;
`GETEVENT16`, which waits as `GETEVENT32` does; active objects of OPXs inside `WaitForEvent`.

### How `OplProcedures` corresponds to the code

One thread interprets q-code, so the hard part is not interleaving but unwinding: `Execute` is
recursive, and an error may leave frames, EVALs and OPX functions in any nesting. `mode` says
where the C++ code is: `run` in `SequencerL`, `leave` when an opcode has left and `ErrorHandler`
is at work, `exit` when it has left with 0 and `Execute` returns, `opx` in a function of an OPX,
`closing` in `~COplRuntime`, `ended`.

| Variable | In the code |
|---|---|
| `ip` | `iIP`: the frame whose q-code it points into, the number of the EVAL (0 for the procedure itself), the operands due at that point, whether TRAP was the opcode before |
| `frame`, `frames` | `iFrame` and the `CFrame`s that are allocated: module and procedure, caller, return address, base of the stack, ONERR address, `iEvalNestCount`, resolved externals |
| `sp` | items on the evaluation stack; `ip.depth` is what the translator knows to be there |
| `trap`, `inCallback` | `iTrap`, `KInCallback` |
| `host`, `infos` | the EVALs and OPX functions whose C++ code waits for a nested `Execute`; `iCallbackInfoArray` |
| `module`, `loaded` | the `CModule`s in memory with `iAccessCount`; the collection. UNLOADM of a running module takes it out of the second only |
| `globals` | `CGlobalsTbl`, its hash lists as one sequence; `Bucket` says which names share a list |
| `dialog` | the frame the dialog under construction remembers by address |

An opcode is one action with all it does, including the leave it may end in; a turn of the loop in
`ErrorHandler` (`CatchError`, `DropFrame`) and of the one in the destructor is one action each,
as is the return of a nested `Execute` (`EvalEnds`, `CallbackEnds`). A frame is numbered with the
lowest free number, so that an address is used again as soon as it can be. Opcodes with the same
effect on this state are one action (`Push` for all that push one item, `Operator` for all
operators of two operands, `DItem` for all items of a dialog). Any q-code the translator
can produce runs: operands due at a point are counted, TRAP comes directly before a command
that it may precede, a text for EVAL holds expressions only.

Where the source defines nothing (q-code of a deleted module, a dangling `iFrame`) the model has
no step, and a property says that the place is not reached (`CodeIsCurrent`,
`WaitersKeepFrames`). The functions of OPXs are external: `OpxEnds` lets one return a result or
leave with an error; callbacks go through the modelled `OplAPI`.

Abstracted or left out: types and values of stack items, the cell of a frame, jumps inside a
procedure, error texts, memory (a call, LOADM or dialog may fail for want of it at any time).

### How `OplDatabase` corresponds to the code

A keyword is one action, errors included. A table is a set of record numbers, which DBMS gives out
upwards; a cursor is a number too, so that the cursor of a deleted record stands in the gap. The
fields of `iLogNames[n]` are those of `COplRowSet`: `upd` opened for updating, `cur` the cursor, `pend`
what DBMS's own buffer is for, `pos` `iPos`, `before` the cursor to come back to, `aou`, `moi` and
`ins` `iAppendOrUpdate`, `iModifyOrInsert` and `iInsertMode`. `iOplDb` is the access count of each
`COplDb`, `iCurrOplRowSet` the manager's own copy of the current row set. `lhs` is the name that
`FieldLeftSide` has stacked for the assignment in progress. A write may fail at every place where DBMS may
refuse it. An OPEN or CREATE has three ways to fail: before anything is counted (`Leaves`); after
`CreateOrOpenDbaseL` has counted the database, when `~COplRowSet` gives the count back and closes a
database nobody else has open (`FailsCounted`); and in the `NextL` at the very end, when the name stays open
and stands before the first record. A mark beyond the array given to KILLMARK panics and is left out. DBMS itself is external (`NextOf`, `PrevOf`, `MayCopy` ...), modelled from its use. Not
modelled: the values of fields, the text of queries and field lists (what a query selects is
chosen freely), COMPACT and SPACE.

### How `OplStructures` corresponds to the code

`ParseWord` takes one word of the source; its disjuncts are the cases of `StatementListL` and
`StructureL`. `frames` are the activations of the recursive `StructureL` with what each saved,
`iBranches` is `TBranches`. ENDP runs the back end: addresses of instructions, offsets of branches
and the patches. Then the runtime executes the q-code in lock-step with the words themselves, read as
the language describes them (`SourceStep`, `Decided`); a step is the next statement, condition,
VECTOR, ONERR or RETURN the user can see. A statement may fail and go to the handler that ONERR
named. Conditions go either way. Words that are no structures are one word `S`.

### How `OplExpressions` and `OplOperands` correspond to the code

`OplExpressions` is `OT_EXPR.CPP`: `FindOperator` takes the next token of the source, `ActOnOperator` does
one action of the precedence table. `Meaning` is the reference: a recursive-descent evaluation of the
same tokens by the precedences in the language's description, with the conversion that each
operator's operands need.

`OplOperands` begins with such an expression or with any statement of `LanguageStatements` and
`OpxStatements`, and chooses for each argument every kind of operand that it may be: constants of
each size, local, global, array and field variables, `EVAL`'s names, a conversion.
`ConvertPcode` converts one p-code as `ConvertPcodeL` does and keeps the account. `Execute` then runs what
came of it: it finds the handler by its number, checks that it is the one meant, that it reads as
many bytes as follow, and that what it pops is on the stack. A handler may leave (`HandlerLeaves`).
Stack items are kinds (word, long, real, string, address of a variable, mark of a variable or
field, type of a parameter), never values. A number that is a width (8, 16, 32, 64) stands for a
literal of the code.

An OPX call goes the same way: arguments by the declaration in the library's `.txh`, the function's
number through `RunL` to the handler, which pops and pushes. What the function does for the program
between (the address book, the agenda, the sprites) is a system service's and is not modelled.

## 3. The runs

| Run | Question | Result |
|---|---|---|
| `io` | two requests of different priority, IOSIGNAL, IOCANCEL, polls, dialogs, suspension: are signals accounted for? what can put a poll to sleep? does a wait return while suspended? do IOWAIT and IOWAITSTAT notice a completed request? | holds |
| `keys` | three keys through GET, GETEVENT, KEY, TESTEVENT, KEYA, ends of EVALs and suspension: is a wake-up lost, is a key lost but to the end of an EVAL, is the event loop a type-ahead as `OplTypeAhead` has it? does a poll end? | holds |
| `events` | three kinds of events, PAUSE, dialogs, purges, the shelf-life timer, ends of EVALs, a queue that cannot grow: are immediate waits immediate (the end of a poll too), are the assertions on the backup region true? do GET and PAUSE end, also across suspensions? | holds |
| `soak` | is a key thrown away at the end of an `Execute` only when it is too late for the program? | violated |
| `ioctest` | does the runtime's own IOC test never see a stray signal? | violated |
| `proc_calls` | calls (also by name and from an OPX), TRAP, ONERR, RAISE, STOP, dialogs, LOADM and UNLOADM at every point: are module counts, globals, externals, stack, trap flag and dialog right, and is everything gone at the end? | holds |
| `proc_nested` | EVALs and OPX functions in each other, errors everywhere: does execution resume in live code of the current frame, do the frames that C++ code will return to survive, is each error handled? | holds |
| `proc_trapcancel` | is TRAP spent by every command that may follow it? | violated |
| `database` | six kinds of program over two names and two files: are access counts exact, also after opens that leave, is the current row set open, do buffers keep their mode, is POS right, is a record lost, are the promises of `OplLogicalNames` kept? | holds |
| `dbassign` | does an assignment go to the view it names? | violated |
| `structures` | every procedure over four vocabularies: is it accepted exactly when it is well-formed, does its code do what the words say? | holds |
| `operands` | every statement with every kind of operand, every function of nineteen OPXs, every expression up to five to seven tokens: do translator and runtime agree on number, bytes, operands and result, is the stack account enough, does the code mean the expression? | holds |

### Bounds

*Event loop.* `MaxEvents` (events that arrive) is 2 or 3: overtaking needs two events, and a
backup region with an event behind it three. `MaxPlain` bounds the signals the program leaves
uncollected, `MaxStray` the firings of the shelf-life timer that make strays, `MaxNest` the
dialogs (2 shows a nested one). Two requests of different priority show every branch of
`SetUpArrayOfEventHandlers`. `YieldLimit`, `CheckLimit` and `ProbeLimit` (10, 5 and 10 in the
code) are 1 or 2, so that the limit is reached. `Keywords` restricts each run to the keywords
of its question; together the runs use them all.

*Procedures.* Three frames (`MaxFrames`) give a callee, a caller and one in between, and a number
that is used again; `MaxInsts` 3 lets a file be in memory twice, unloaded but running and
loaded anew; `KMaxModules` (8 in the code) is `MaxModules` 2, so that LOADM meets the limit.
`MaxDepth` is 1 operand in a statement, 2 where operators matter. `MaxNest` is 1 in `proc_calls` and
2 in `proc_nested`: an OPX function in an EVAL, the reverse, and two of the same kind. Both
variables of the three procedures share a hash list, the case in which `Remove` could take a wrong
entry. `Opcodes` restricts the opcodes to those of the question. `proc_calls` leaves out CANCEL
and IOSIGNAL and the unresolved external in a callback, and `proc_nested` leaves out STOP,
because with them the properties fail: `proc_trapcancel` and section 4 say how.

*Databases.* Two names and two files show sharing, and names on different files; three records have a
first, a last and one between; `MaxRow` record numbers are given out, so that deleted ones leave gaps.
One bookmark. Each program has the keywords of one question.

*Structures.* Eight words hold three nested structures, the limit `MaxStructureDepth` (8 in the code)
that the run meets; each vocabulary has the words that interact. `Reach` is that of 16 bits.

*Operands.* A list of items that the code handles in a loop has one or two (`MostItems`,
`MostStatistics`); procedures have up to two parameters. Expressions have up to six tokens of
one type with operators of every level, up to seven with brackets and calls, up to five with all
types.

Deadlock is not checked: a program that waits for a key nobody presses stops, as it should, and so do a
program that has ended and a translation that is done. `database` checks it.

### Fairness

`FairSpec` of `OplEventLoop` adds `WF_vars(Loop)`: the thread's own steps. That is what a kernel
that schedules the thread gives; the program's keywords, the window server and the devices are
under no obligation. Suspension is an escape in each liveness property, and so is a user who
presses priority keys for ever (`PriorityKeysNeverEnd`), since each one is handled before anything
else. `FairSpec` of `OplProcedures` asks the same of the error handler only: its loop, and
the returns it makes, go on while an error is on its way (`mode = "leave"`). A program may loop for ever.

## 4. What the violated runs show

* `ioctest`: a key that answers KEYA during IOWAIT both signals KEYA and ends the IOWAIT.
* `soak`: `Execute` ends with "Soak up any lingering event, it's too late for the sequencer to process
  it" (`EN_MAIN.CPP:110`). But `Execute` also runs, and ends, for each EVAL and each callback from an OPX, and
  the program goes on: the oldest key it has not read yet is gone.
* `proc_trapcancel`: the translator accepts TRAP before CANCEL and IOSIGNAL, whose opcodes never
  clear the flag. The next error, of any statement, is taken for trapped: the stack is cut to that of
  a new statement and execution goes on in the middle of the old one.
* `dbassign`: after `INSERT` on A and `USE B`, an assignment to a field of A goes to the row set of B.
  `PreAssign` looks the named row set up, sees that it is in MODIFY or INSERT, and returns the
  current one.

Seen in the models, and excepted by name in the property concerned where there is one:

* `OfferEventToOplAsynchronousRequest` sets the signal of a completed request aside and leaves the
  request in the array. The dummy signal of a poll, which is there "so that we do not have to wait for
  non-completed events" (`IOMAIN.CPP:1743`), is then taken for the same request, and the poll
  sleeps until something else happens. `PollSleepsOnlyOnUncollected` says that it is the only way.
* `KInCallback` is one bit. When a callback that an OPX made inside another ends, the bit is clear and
  the outer callback may STOP; its `Execute` then returns 0 to the OPX, with no result on the stack.
  `StopRefusedInCallback` is checked with one callback at a time.
* `DoCallProcByStringExpr` gives the new frame to the runtime before it looks up the externals. When one is
  missing, `CallProcedure` traps the leave and puts the caller's frame back: the new frame, its globals
  and its count on the module stay for ever. `proc_nested`, which has the opcode, does not ask for them.
* A field passed where a variable is expected (`ADDR(A.x%)`, `KEYC(A.x%)`, `dEDIT A.n$,...`) is accepted by
  the translator, and the handler takes what `FieldLeftSide` left for an address (`FieldByReference`).
* A string in a percentage (`"a" + 5%`): `OutputOperatorL` promotes both operands to a real and has
  no conversion for a string, so the handler pops a real where a string is (`PercentOfString`).
* Five functions of OPXs disagree with their headers (`DeclaredOtherwise`): `ArrayGetSorted` and `ArrayFindL&`
  push a word for a real and for a long, `ProfileName$` and `CBSMessageInfo&` pop a word where a long is
  declared, `LcCurrencySetDecimalPlaces&` is declared without its argument. Six functions of Contact and six
  of Media are declared and refused by `RunL`.
* `lab:: ONERR lab` on one line of a release build has the offset 0, which switches the handler off
  (`OnErrOfItself`); a label between a final RETURN and ENDP on one line is the end of the code
  (`LabelAfterReturn`); a branch of 32 KB or more is patched without a check (`BranchesFit`).
* ROLLBACK, and a failed write outside a transaction, reset the other views of the database and leave their modes: a
  MODIFY or INSERT in progress there has lost its buffer. `BuffersKeepTheirMode` covers the other
  direction only, a buffer without a mode.
* `iInsertMode` survives an INSERT that a move has abandoned, and the next PUT sets POS to the number of
  records; GOTOMARK and ROLLBACK move the cursor and leave POS.
* The translator counts two bytes for a word on the stack, the runtime uses four: the maximum depth
  written to a procedure's header may be half of what it needs. `AccountingCovers` bounds it by that half.
* PAUSE with a timer puts back the event that its wait has only peeked at and left in the queue, so
  a key typed ahead is duplicated.
* A completed request of a priority above window server events (the media server OPX's), not
  collected, is the first handler of every signal, and PAUSE's timer is never looked at.
  `events` therefore has no such request.
* `PurgeAllExpiringEvents` deletes events of the backup region, whose signals are set aside, without
  shrinking the region; the signals come back with nothing to belong to (`stray`, which
  `SignalsAccounted` counts).
* STOP in a procedure that EVAL called ends that EVAL only: `Execute` returns 0 for STOP, for the
  end of the EVAL's text and for the return of a callback's last frame alike.
* A procedure that returns the null string without a statement pushes after its frame has gone;
  `CStack::Push` reads the caller's, which is NULL for a callback or the first procedure.

## 5. What is proved

Each theorem holds for every value of the constants that satisfies the assumptions below and the
hypotheses in its statement. A hypothesis on the program (`TypingOnly`, `TrapSpent`, `Resolves`,
`StopsProgram`) excludes opcodes or keywords with which the conclusion is false, for the
reason that section 4 gives.

### The event loop

`OplEventLoopProofs`:

* `TypeCorrect`: `Spec => []TypeOK`. The inductive invariant `TInv` adds to `TypeOK` that a thread
  in a dialog has a positive nesting count (`DialogInv`), without which ending a dialog could
  make `nest` negative. Lemmas on `RemoveAt`, `SubSeq` and `Append` carry the bound of `expiring`
  through the actions that change the queue.
* `SignalsKept`: `Spec => []SignalsAccounted`. `SignalsAccounted` says nothing of the places where
  a signal waits while a keyword is in progress, so the proof keeps a balance (`AInv`): signals
  in the semaphore, in the wait (`replace` and the backup region), in IOWAITSTAT's own counter
  and in the dialogs' buffer equal the queued events, the completed requests, the keyword's
  source, the poll's dummy, the plain ones and the strays. Its auxiliary conjunct `SourceInv`
  says that only PAUSE with a timer has a source and no poll has: otherwise a wait could end with
  the signal of its source still counted. Each handler of `Loop` is a lemma that moves one
  signal from one place to another; cardinalities of sets of requests are carried by
  `FiniteSetTheorems`.
* `NothingSetAside`: `Spec => []BackupEmptyBetweenWaits`, from `SetAsideInv`, which adds that the
  counts are zero in every `pc` outside a wait.
* `AwakeAfterWait`: `Spec => NoReturnWhileSuspended`, an action property, by cases on the only
  steps that leave a wait.

Its second part adds to the balance, which says how many signals there are in all, that no place
holds more than it was given (`WInv`). The signals that belong to nothing the code can find
(`Loose`: plain ones and strays) cover those that IOWAITSTAT holds, the events that a purge has
deleted from the backup region and, as long as no request has completed, those the wait has set aside.

* `ImmediateWaits`: `Spec => []WaitsReturnStraightaway`: the semaphore never becomes negative, and a poll at its
  limit finds a signal for its last wait unless a completed request is uncollected (section 4 has the case
  with one). The second half comes from `SleepsOnNothing`: with no request completed, the signals set aside
  are loose ones or belong to events, so the dummy is still in the semaphore.
* `PollsStayAwake`: `Spec => []PollSleepsOnlyOnUncollected`.
* `WakeupsKept`: `Spec => [](Completed = {} => NoLostWakeup)`. A wait that blocks (`sem = 0`) has set
  nothing aside but loose signals, so that there is nothing it could miss. The condition is what the
  poll's exception in section 4 amounts to; `NoWakeupLost` drops it for programs without IOA, the
  programs that the `keys` run checks.

Its third part, about keys, has the hypothesis `TypingOnly`: events are keys, the expiry of queued events is off,
the FEP passes or replaces keys, the queue can grow, and the program uses neither PAUSE (which puts
the key that ended it back behind the others) nor dialogs (which empty the queue). EVAL and callbacks are allowed: what their ends soak up is part
of the abstract type-ahead (`SoakUp`), which lets each end take one key, the oldest, and no more.

* `KeysAreTypeAhead`: `Spec => ImplementsTypeAhead`. The mapping takes `arrived` for the keys typed,
  `last` for those taken and `Ending` (the probe in progress is that of `ExecuteEnds`) for `ending`. `KInv` says that the queue and the server's event are consecutive numbers
  after the last key that has left (`LineInv`), and that events are set aside only by a wait that is
  suspended or does not want keys (`BackInv`): otherwise a key could pass one in the backup region.
* `NoKeyIsLost`: `Spec => []NoKeyLost`, from the same invariant: a key typed is still to be had until it is delivered
  or soaked up.

### Procedures

`OplProceduresProofs`:

* `CallbacksHaveRecords`: one saved stack pointer for each callback in progress, proved together with the
  types of the control state (`ControlTyped`). The two need each other (`PInv`): the stack pointer that
  `ResetStack` restores is a number only because the array has a record, and it has one because an
  OPX function is in control only as the innermost activation (`OpxInControl`), and
  activations are pushed and popped with their records. The step of each action is a lemma of its
  group; `DeleteFrame` and `ConstructFrame`, which many actions share, have lemmas of their own.
* `ModuleCountsExact`: `Spec => []CountsExact`, with `CInv`. That alone is not inductive: UNLOADM
  takes one entry out of the collection and counts one down, which is right only if the collection
  holds a module once (`OnlyOnce`). Each of the four ways to change a count moves the cardinality
  of the users with it; a module goes away exactly when the last user does.
* `TrapEnds`: `Spec => []TrapIsForItsCommand` for programs without CANCEL and IOSIGNAL, from
  `TrapInv`, which says exactly when the flag is up. The hypothesis is needed: without it
  `proc_trapcancel` refutes the conclusion.

`OplFramesProofs`, from `FInv`: the frames that are in progress form one stack, from the first procedure to
`iFrame`, in which each frame's caller is the one below it and each EVAL or OPX function in progress
has its place. The stack is not a variable of the code; the invariant says that one exists. An error
that unwinds deletes from its top and stops, at the latest, where the innermost waiter is. Its theorems
are about `Spec /\ StopsProgram` and assume `TrapSpent`: no CANCEL or IOSIGNAL in a program that has
TRAP (the error of a call that fails would be resumed in the frame the call has made, with `iIP` in
the caller), and STOP only in the outermost `Execute` or refused (elsewhere it leaves frames above
those that wait).

* `WaitersFramesExist`: `[]WaitersKeepFrames`. `CodeStaysCurrent`: `[]CodeIsCurrent`.
* `DialogsHaveOwners`: `Spec => []DialogOwnerExists`, without hypotheses.
* `StopsRefused`: `Spec => StopRefusedInCallback` if `MaxNest <= 1`. With deeper nesting it is false, as
  section 4 says of `KInCallback`.

`OplStackProofs`, same hypotheses: `StackIsExpected`: `[]StackAgrees`. The invariant `SInv` gives each frame
of the stack and each waiter a height: a frame begins where the operands of its caller end, the
operands of an EVAL lie on those of the statement that EVALuates (`b[e]`), and each record of
`iCallbackInfoArray` has the height of the code that called the OPX. What `Expected` sums with a
recursive function is shown to be `b` by the least number for which it is not.

`OplGlobalsProofs`:

* `TypesCorrect`: `Spec => []TypeOK`, the whole state, without hypotheses. It needs that what `DropGlobals`
  folds over a list of names is a table again, for which the least number of names that breaks it
  is considered.
* `GlobalsAreExact`: `[]GlobalsExact`. `Remove` deletes the first entry of a hash list without looking at its
  name. That it is an entry of the frame that goes follows from three facts: new entries go to the front
  of their list, the frame that is deleted is the one made last (`HighestGoes`), and a frame removes as
  many entries from each list as it has put there (`RemovesItsOwn`). `GInv` says frame by frame which
  entries of the table are whose, so the hash function does not matter.
* `ExternalsAreCallers`: `[]ExternsAreCallers`, from the order of the frames in the table and in the stack
  (`RInv`, `Ordered`, `OwnerAbove`): the first entry of a name is that of the latest procedure that
  declares it, when the externals are looked up and afterwards.
* `NothingStays`: `[]NothingIsLeft`. The destructor deletes from `iFrame` outwards; `LInv` says that no
  C++ code waits then and that the stack of frames ends in `iFrame`, so that the loop visits all.

The last three assume `TrapSpent` and `StopsProgram`, and `Resolves`: callbacks find the externals of the
procedures they call. The frame of one that does not is in nobody's hands (section 4) and keeps
its globals.

The hypothesis `StopsProgram` is an action property of the behaviour, not of the constants: STOP may be
used, in any procedure, as long as no EVAL or OPX function is in progress there.

### Databases

`OplDatabaseProofs` proves about `OplDatabase`, for any names, files, bounds and programs:

* `DatabaseCounts`: `Spec => []AccessCountsExact`. A keyword changes the count of a database together with
  the set of names open on it, and the lemmas carry the cardinality of that set; an OPEN or CREATE
  that fails changes it twice (`FailedOpenKeepsNames`).
* `CurrentAlwaysOpen`: `Spec => []CurrentIsOpen`. It needs that `iCount` is the number of open names, so
  that CLOSE finds another name exactly when there is one.
* `LogicalNamesImplemented`: `Spec => LN!Spec` under the refinement mapping of the module: the initial state
  maps to the initial state, and each keyword to OPEN, USE, CLOSE or a stutter.

The rest is about cursors, buffers and records, for tables of any size. `Inv` is `TypeOK`, what the counts
needed, `OpenInTrans`: a transaction is in progress only in a database that is open (so the close of one that
an OPEN has failed on rolls nothing back), and `Numbered`: no record, nor one kept for a rollback, has a number that has not been given out.
`Numbered` is what makes a put record new, so that UPDATE adds one before it deletes one.

* `DatabaseTypes`: `Spec => []TypeOK`. `StepOfNames` and `StepOfTables` say once what any keyword may do to the
  row sets and to the tables; a row set of another name is touched only by what a rollback resets.
* `RecordsKept`: `Spec => NoRecordLost`, from `StepKeepsRecords` and `StepKeepsToItself`. That DELETE spares
  an open table comes from the access counts, which is all the code looks at.
* `BuffersAccountable`: `Spec => BuffersKeepTheirMode`. `Tame` is the relation of the row set before to the one
  after that the moving keywords have in common: they cancel first, and a move starts nothing.
* `PosIsTheRecord`: `Spec => PosKept`. Beneath it are lemmas on cursors: `NextIndex` and `PrevIndex` (one step is
  one more or one less in the count of records up to the cursor), `StepsForward` and `StepsBack` (so k steps are k,
  or the end), `RowIndex` (the k-th record is the one with index k), `BetweenIndex` (the
  records between two cursors are the difference of their indices). `WalksArrive` is that each of
  POSITION's four walks, from the first, the last or the current record, on or back, ends where
  the other three would. The walk in a loop is a recursive function over a number: `StepsForward` and `StepsBack`
  exhibit a function that satisfies its definition, and `OneWalk` shows, by the least number at which two
  would differ, that there is no other.

### Structures

`OplStructuresProofs`:

* `AcceptsExact`: `Spec => []AcceptsExactly`, for any vocabularies, procedures of any size and any limit of the
  depth. Whether a procedure is well nested is said by its words alone, which count: the depth of a word
  is the openers less the closers before it, and it stands in the openers that no closer has answered.
  The parser decides by its activations and counters. `Accepting`, the inductive invariant, relates the two:
  - `Places` gives each activation the word that opened it, outermost first, and says whether its ELSE has
    been read. From it, the words accepted so far `Fits` exactly when each was one that the activations
    `Admits`; the lemmas on `InsideIn` and `DepthIn` say how one more word changes both sides.
  - `Labelled`: the labels of the code that are the user's are those of the words.
  - `Branched`: a label of the parser's own that the code names is already defined, or an activation in
    progress will define it (`Pending`, `Owes`). BREAK and CONTINUE name the labels of a loop some activations
    further out; `SameLoop` says that the IFs between have kept them, `Topped` that the loop's first label is
    there. Hence at ENDP, with no activation left, a label can be missing only if the user's is.

  A word carries the labels it names (`Word`): LABEL and GOTO one, ONERR one or none, VECTOR a list.
* `StructuresTyped`: `Spec => []StructuresTypeOK`. The places are what makes this a theorem: `at` is a word
  found by looking for a structure's end, beginning, next clause, innermost loop or for a label, as often
  as the procedure has words, and `ip` is an address found through an instruction's offsets. `StInv`, the
  inductive invariant, says that while the q-code runs the words are `Whole` (well nested, labels found,
  ended by ENDP and by it alone), the q-code is `GoodQcode` and the place is `Placed`: at a word, and to
  evaluate a condition only where there is one. `EndFound`, `OpenerFound`, `ClausePlace`, `LoopPlace`,
  `LabelFound` say that what a step looks up is there, from least and greatest numbers; `StepPlaced`
  that a step of the source leads to a place; the walks (`SourceWalk`, `CodeWalk`) follow by the
  least number at which they would leave the places.

`OplCodeProofs`:

* `CodeFollows`: `Spec => []CodeFollowsSource`. The q-code that parser and back end make of an accepted procedure
  shows the user the same statements, conditions and returns as the words do, and an error goes to the same
  handler, whatever is nested in whatever. The three exceptions are the property's own: branches that do not
  fit 16 bits (`BranchesFit`), ONERR naming a label directly before it (`OnErrOfItself`), and labels
  between a last RETURN and ENDP on one line (`LabelAfterReturn`). The argument:
  - `Laid`: the code of word `n` goes from `F[n]` to before `F[n + 1]`, and is a function of the word and of the labels
    in force before and after it, `H[n - 1]` and `H[n]` (`CodeOf`). Each action of the parser keeps this
    (`CodeLaid`, one lemma per action); `Saved` says what each activation will put back.
  - Every label is defined once (`OneEach`). It needs that the parser never gives a number twice
    (`Taking`: labels in force are below `iNextBranch`) and that `BranchName` gives different numbers different
    names (`NamesDiffer`, from the last shift that leaves something).
  - Which word's labels are in force where: `AllInForce` for the clauses of an IF, `LoopExits` for BREAK and
    CONTINUE, from the innermost structure of each word. So the place (`Site`) a branch goes to is
    the code of the word the source's step goes to (`UserSite`, `InternalSite`, `LabelSited`).
  - `StepTells`: a step of the source that shows nothing is a few jumps of the code (`Reaches`), or none
    and then it goes forward (`Rank`). With that, `Shown` compares the two walks, which look ahead as many
    steps as there are words or instructions: each comes to something visible within that number, or
    never does (`CodeOrbit`, `SourceOrbit`: a walk in a finite set that lasts longer repeats itself), and they do so
    together.
  - `Following`, the inductive invariant: `StInv`, `CodeLaid` while parsing, and while running that code and words
    are at corresponding places with corresponding handlers (`Keeping`).

### Assumptions, and what is only model-checked

Assumed of the constants: the set of requests is finite and does not contain the word of KEYA, priorities
and limits are naturals; the first procedure is in the first module and takes no parameters, and what a
procedure declares or uses as external are variables of the program (`TableAssumption`); logical names are
a finite set of naturals, and what stands for "none" is no name, no file and no row set (`NoneAssumption`,
`NullAssumption`); the limit of the depth is a natural, and a vocabulary is a set of words
(`VocabulariesAssumption`) of whose words a procedure has at most 2^30 (`LabelsAssumption`: a word takes
at most three labels, and `iNextBranch`, a `TUint` of 32 bits, counts them without wrapping).

Model-checked only: liveness and everything under fairness, which the prover cannot express; and the
translator's expressions and operands (`OperandsMatch`, `AccountingCovers`, `CodeMeansExpression`). `OplOperands`
and what it uses compute with recursive operators, which the prover does not take, and their properties are
about the values of tables of opcodes, which TLC evaluates.

## 6. Plan

1. `OplEventLoop` (done): types, accounting, wake-ups and the type-ahead proved; liveness stays with TLC.
2. `OplProcedures` (done): all its safety invariants proved, some under the hypotheses of section 5.
3. `OplDatabase` and `OplLogicalNames` (done): all safety properties that hold and the refinement proved.
4. `OplStructures`, `OplExpressions`, `OplOperands` (done); all the safety properties of `OplStructures`
   that hold are proved.
5. The values that handlers compute: 16- and 32-bit arithmetic and its overflow checks against a
   reference, dates, string slicing.
6. Tables of drawables, file handles and their ids.

## 7. Not modelled

The lexer's characters and the symbol tables with the layout of frames (`OT_LEX`, `OT_SYMBL`); the output
of drawing, printing and dialogs; values of expressions; the command line of the translator, the text
editor, the start-up glue of the three platforms and the debugger's interface, which have no logic of
their own beyond calls of the framework; the system services that OPXs wrap. `PROJECT.json` lists each with its
status.
