---------------------------- MODULE OplEventLoop ----------------------------
(***************************************************************************)
(* The event loop of the OPL runtime (oplr/src/IOMAIN.CPP).                *)
(*                                                                         *)
(* One thread runs the OPL program.  Everything it waits for - window      *)
(* server events, asynchronous I/O requests, priority keys, the time-out   *)
(* timer of the event queue, the timer of PAUSE - announces itself by      *)
(* adding one signal to the thread's request semaphore `sem', and the      *)
(* thread takes one signal each time it calls User::WaitForAnyRequest.     *)
(* A signal carries no identity: the code looks for what has completed and *)
(* must take exactly one signal for each thing it finds.  `sem' is an      *)
(* integer: a negative value stands for a wait the code believes immediate *)
(* ("returns straightaway") that in fact blocks.                           *)
(*                                                                         *)
(* The waits of WaitForEvent are steps of their own (pc = "wait"), so that *)
(* completions interleave with them; the code between two waits is atomic, *)
(* a completion during it being indistinguishable from one before or after.*)
(***************************************************************************)
EXTENDS Integers, Sequences, FiniteSets, SequencesExt

CONSTANTS
  Requests,       \* asynchronous requests, each with its own status word
  Prio,           \* Prio[r]: request priority relative to EActivePriorityWsEvents
  EventKinds,     \* kinds of window server events that arrive
  Keywords,       \* the OPL keywords the program uses
  MaxEvents,      \* bound: window server events that arrive; events queued when PAUSE starts
  MaxPlain,       \* bound: outstanding plain signals when a keyword adds work
  MaxStray,       \* bound: stray signals the queue's timer may have produced
  TimerFires,     \* may the shelf life of queued events run out?
  YieldLimit,     \* EMaximumNumberOfCompletedEventsToHandleInIoYield
  CheckLimit,     \* EMaximumNumberOfCompletedEventsToHandlePerEventCheck
  ProbeLimit,     \* iterations of the loop in IsEventReady
  MaxNest,        \* KMaxNestedDialogDepth
  FepMoves,       \* what the front-end processor may do with an event
  AppendOutcomes  \* may iQueue.Append succeed (TRUE), fail (FALSE)?

Kinds == {"key", "point", "msg"}
AllFepMoves == {"pass", "eat", "replace"}

ASSUME RequestsAssumption == IsFiniteSet(Requests) /\ "keya" \notin Requests
ASSUME PrioAssumption == Prio \in [Requests -> Nat]
ASSUME KindsAssumption == EventKinds \subseteq Kinds
ASSUME LimitsAssumption == YieldLimit \in Nat /\ CheckLimit \in Nat /\ ProbeLimit \in Nat
ASSUME BoundsAssumption == /\ MaxEvents \in Nat /\ MaxPlain \in Nat
                           /\ MaxStray \in Nat /\ MaxNest \in Nat
ASSUME ChoicesAssumption == /\ TimerFires \in BOOLEAN
                            /\ FepMoves \subseteq AllFepMoves
                            /\ AppendOutcomes \subseteq BOOLEAN

VARIABLES
  sem,        \* signals in the thread's request semaphore
  wserv,      \* RWsSession::EventReady request: "pending", "ready" or "idle"
  incoming,   \* the event GetEvent returns when wserv = "ready"
  arrived,    \* number of window server events so far
  queue,      \* iQueue: events set aside for later
  backup,     \* iNumberOfEventsInBackupRegion
  expiring,   \* iNumberOfExpiringEvents
  timer,      \* CTimeOutTimer: "running", "fired" or "off"
  req,        \* iRequestArray: "none", "pending" or "completed"
  word,       \* status words as the program sees them
  keya,       \* outstanding KEYA ("keys") or GETEVENTA ("any"), or "none"
  suspended,  \* iIsSuspended
  pkey,       \* completed priority key: "none", "s" (suspend), "q" (resume)
  nest,       \* iConemodeNestCount
  buffered,   \* iNumberOfBufferedSignals
  pc,         \* where the thread is
  call,       \* the keyword it executes
  target,     \* status word that IOWAITSTAT, IOCANCEL... wait for
  source,     \* additional event source of PAUSE
  handled,    \* iNumberOfCompletedEventsHandled (polls only)
  replace,    \* iNumberOfSignalsToReplace
  outer,      \* numberOfSignalsToReplace of IOWAITSTAT
  round,      \* iterations left in IsEventReady
  got,        \* event the wait returns
  plain,      \* history: outstanding signals without a request of their own
  stray,      \* history: signals that correspond to nothing
  last        \* history: number of the last event handed to the program, or soaked up
              \* at the end of an Execute

envVars  == <<wserv, incoming, arrived>>
qVars    == <<queue, backup, expiring>>
reqVars  == <<req, word, keya>>
susVars  == <<suspended, pkey>>
dlgVars  == <<nest, buffered>>
loopVars == <<source, handled, replace, outer>>
ctlVars  == <<pc, call, target, round, got>>
ghost    == <<plain, stray, last>>
vars == <<sem, timer, envVars, qVars, reqVars, susVars, dlgVars, loopVars, ctlVars, ghost>>

Words   == Requests \cup {"keya"}
NoEvent == [kind |-> "none", n |-> 0]
Events  == [kind : Kinds, n : Nat]

Polls == {"ioyield", "check"}
Waits == {"get", "getevent", "pause_key", "pause_time", "pause_both",
          "iowait", "iowaitstat", "suspended"} \cup Polls
Probes == {"key", "testevent", "keya", "consume"}

Limit(c) == IF c = "ioyield" THEN YieldLimit ELSE CheckLimit

\* The aEventsRequired argument of WaitForEvent, by caller.
KeysOnly(c) == c \in {"get", "pause_key", "pause_both", "key", "consume"}
AnyEventAlsoIoWait(c) == c \in {"getevent", "testevent", "keya", "iowait"}    \* mutant
AnyEvent(c) == c \in {"getevent", "testevent", "keya"}
WantsOplIoWaitOnly(c) == c = "iowait"    \* mutant
WantsOpl(c) == c \in {"iowait", "iowaitstat"}
Matches(c, e) == AnyEvent(c) \/ (KeysOnly(c) /\ e.kind = "key")

Completed == {r \in Requests : req[r] = "completed"}
One(b) == IF b THEN 1 ELSE 0

TypeOK ==
  /\ sem \in Int
  /\ wserv \in {"pending", "ready", "idle"}
  /\ incoming \in Events \cup {NoEvent}
  /\ (wserv = "ready") => incoming \in Events
  /\ arrived \in Nat
  /\ queue \in Seq(Events)
  /\ backup \in Nat /\ expiring \in 0..Len(queue)
  /\ timer \in {"running", "fired", "off"}
  /\ req \in [Requests -> {"none", "pending", "completed"}]
  /\ word \in [Words -> {"unset", "pending", "done", "cancelled"}]
  /\ keya \in {"none", "keys", "any"}
  /\ suspended \in BOOLEAN
  /\ pkey \in {"none", "s", "q"}
  /\ nest \in Nat /\ buffered \in Nat
  /\ pc \in {"run", "enter", "wait", "leave", "probe_enter", "probe", "dialog"}
  /\ call \in Waits \cup Probes \cup {"none"}
  /\ target \in Words
  /\ source \in {"none", "pending", "done", "consumed"}
  /\ handled \in Nat /\ replace \in Nat /\ outer \in Nat /\ round \in Nat
  /\ got \in Events \cup {NoEvent}
  /\ plain \in Nat /\ stray \in Int /\ last \in Nat

Init ==
  /\ sem = 0 /\ timer = "running"
  /\ wserv = "pending" /\ incoming = NoEvent /\ arrived = 0
  /\ queue = <<>> /\ backup = 0 /\ expiring = 0
  /\ req = [r \in Requests |-> "none"]
  /\ word = [w \in Words |-> "unset"] /\ keya = "none"
  /\ suspended = FALSE /\ pkey = "none"
  /\ nest = 0 /\ buffered = 0
  /\ pc = "run" /\ call = "none" /\ target = "keya" /\ round = 0 /\ got = NoEvent
  /\ source = "none" /\ handled = 0 /\ replace = 0 /\ outer = 0
  /\ plain = 0 /\ stray = 0 /\ last = 0

-----------------------------------------------------------------------------
(* Completions: the window server, the devices, the kernel's timers.       *)

WservEvent(k) ==
  /\ wserv = "pending" /\ arrived < MaxEvents
  /\ arrived' = arrived + 1
  /\ incoming' = [kind |-> k, n |-> arrived + 1]
  /\ wserv' = "ready" /\ sem' = sem + 1
  /\ UNCHANGED <<timer, qVars, reqVars, susVars, dlgVars, loopVars, ctlVars, ghost>>

RequestCompletes(r) ==
  /\ req[r] = "pending"
  /\ req' = [req EXCEPT ![r] = "completed"] /\ sem' = sem + 1
  /\ UNCHANGED <<timer, envVars, qVars, word, keya, susVars, dlgVars, loopVars, ctlVars, ghost>>

PriorityKey(k) ==
  /\ "CTRL" \in Keywords /\ pkey = "none"
  /\ pkey' = k /\ sem' = sem + 1
  /\ UNCHANGED <<timer, envVars, qVars, reqVars, suspended, dlgVars, loopVars, ctlVars, ghost>>

ShelfLifeExpires ==
  /\ TimerFires /\ timer = "running" /\ stray < MaxStray
  /\ timer' = "fired" /\ sem' = sem + 1
  /\ UNCHANGED <<envVars, qVars, reqVars, susVars, dlgVars, loopVars, ctlVars, ghost>>

PauseElapses ==
  /\ source = "pending" /\ source' = "done" /\ sem' = sem + 1
  /\ UNCHANGED <<timer, envVars, qVars, reqVars, susVars, dlgVars, handled, replace, outer,
                 ctlVars, ghost>>

-----------------------------------------------------------------------------
(* Keywords: one action per way an opcode enters the event handler.        *)

Keyword(k) == pc = "run" /\ ~suspended /\ k \in Keywords

StartWait(c) ==
  /\ pc' = "enter" /\ call' = c /\ got' = NoEvent
  /\ UNCHANGED round

StartProbe(c) ==
  /\ pc' = "probe_enter" /\ call' = c /\ got' = NoEvent /\ round' = ProbeLimit
  /\ UNCHANGED target

Get ==
  /\ Keyword("GET") /\ StartWait("get")
  /\ UNCHANGED <<sem, timer, envVars, qVars, reqVars, susVars, dlgVars, loopVars, target, ghost>>

GetEvent ==
  /\ Keyword("GETEVENT") /\ StartWait("getevent")
  /\ UNCHANGED <<sem, timer, envVars, qVars, reqVars, susVars, dlgVars, loopVars, target, ghost>>

\* DoPauseL: delay 0 waits for a key, a positive one for a timer, a negative one for either.
Pause(c) ==
  /\ Keyword("PAUSE") /\ Len(queue) <= MaxEvents /\ StartWait(c)
  /\ source' = IF c = "pause_key" THEN "none" ELSE "pending"
  /\ UNCHANGED <<sem, timer, envVars, qVars, reqVars, susVars, dlgVars, handled, replace, outer,
                 target, ghost>>

IoWait ==
  /\ Keyword("IOWAIT") /\ StartWait("iowait")
  /\ UNCHANGED <<sem, timer, envVars, qVars, reqVars, susVars, dlgVars, loopVars, target, ghost>>

\* A program waits for a word it has given to a request.
IoWaitStat(w) ==
  /\ Keyword("IOWAITSTAT") /\ word[w] # "unset"
  /\ StartWait("iowaitstat") /\ target' = w
  /\ UNCHANGED <<sem, timer, envVars, qVars, reqVars, susVars, dlgVars, loopVars, ghost>>

IoYield ==
  /\ Keyword("IOYIELD") /\ StartWait("ioyield")
  /\ UNCHANGED <<sem, timer, envVars, qVars, reqVars, susVars, dlgVars, loopVars, target, ghost>>

\* SequencerL calls HandleAnyCompletedEvents every so many opcodes, suspended or not.
EventCheck ==
  /\ pc = "run" /\ "CHECK" \in Keywords /\ StartWait("check")
  /\ UNCHANGED <<sem, timer, envVars, qVars, reqVars, susVars, dlgVars, loopVars, target, ghost>>

IoSignal ==
  /\ Keyword("IOSIGNAL") /\ plain < MaxPlain
  /\ sem' = sem + 1 /\ plain' = plain + 1
  /\ UNCHANGED <<timer, envVars, qVars, reqVars, susVars, dlgVars, loopVars, ctlVars, stray, last>>

\* DoIOA: a device request stays pending, a console request (handle -2) completes at once.
Ioa(r) ==
  /\ Keyword("IOA") /\ req[r] = "none" /\ plain < MaxPlain
  /\ word' = [word EXCEPT ![r] = "pending"]
  /\ req' = [req EXCEPT ![r] = IF Prio[r] = 0 THEN "completed" ELSE "pending"]
  /\ sem' = sem + One(Prio[r] = 0)
  /\ UNCHANGED <<timer, envVars, qVars, keya, susVars, dlgVars, loopVars, ctlVars, ghost>>

\* IOC whose DoIOA fails writes the error to the word and signals itself.
IocFails(r) ==
  /\ Keyword("IOC") /\ req[r] = "none" /\ plain < MaxPlain
  /\ word' = [word EXCEPT ![r] = "done"]
  /\ sem' = sem + 1 /\ plain' = plain + 1
  /\ UNCHANGED <<timer, envVars, qVars, req, keya, susVars, dlgVars, loopVars, ctlVars, stray, last>>

\* IOCANCEL: DoIow(FCANCEL) completes request r and its own request c, then waits for c.
IoCancel(r, c) ==
  /\ Keyword("IOCANCEL") /\ r # c /\ req[c] = "none" /\ req[r] # "none" /\ plain < MaxPlain
  /\ req' = [req EXCEPT ![r] = "completed", ![c] = "completed"]
  /\ word' = [word EXCEPT ![c] = "pending"]
  /\ sem' = sem + 1 + One(req[r] = "pending")
  /\ StartWait("iowaitstat") /\ target' = c
  /\ UNCHANGED <<timer, envVars, qVars, keya, susVars, dlgVars, loopVars, ghost>>

\* KEYA and GETEVENTA cancel their own outstanding request first: Signal(1) and one wait.
KeyA(k) ==
  /\ Keyword("KEYA") /\ plain < MaxPlain
  /\ word' = [word EXCEPT !["keya"] = "pending"] /\ keya' = k
  /\ StartProbe("keya")
  /\ UNCHANGED <<sem, timer, envVars, qVars, req, susVars, dlgVars, loopVars, ghost>>

\* KEYC: a program cancels a request it has made, whose signal it has not taken yet.
KeyC ==
  /\ Keyword("KEYC")
  /\ \/ /\ keya # "none"
        /\ keya' = "none" /\ word' = [word EXCEPT !["keya"] = "cancelled"]
        /\ UNCHANGED <<sem, plain>>
     \/ /\ keya = "none" /\ plain > 0
        /\ sem' = sem - 1 /\ plain' = plain - 1
        /\ UNCHANGED <<keya, word>>
  /\ UNCHANGED <<timer, envVars, qVars, req, susVars, dlgVars, loopVars, ctlVars, stray, last>>

Key ==
  /\ Keyword("KEY") /\ StartProbe("key")
  /\ UNCHANGED <<sem, timer, envVars, qVars, reqVars, susVars, dlgVars, loopVars, ghost>>

TestEvent ==
  /\ Keyword("TESTEVENT") /\ StartProbe("testevent")
  /\ UNCHANGED <<sem, timer, envVars, qVars, reqVars, susVars, dlgVars, loopVars, ghost>>

\* An Execute that ran inside another one, for EVAL or a callback, ends, after an error or not:
\* DoConsumeEvent soaks up a key and the outer program goes on.  The opcode that ended it may have
\* left the program suspended (CTRL-S in its dialog).  Nothing runs after the outermost Execute.
ExecuteEnds ==
  /\ pc = "run" /\ "EVAL" \in Keywords /\ StartProbe("consume")
  /\ UNCHANGED <<sem, timer, envVars, qVars, reqVars, susVars, dlgVars, loopVars, ghost>>

\* Between opcodes SequencerL takes a completed priority key, then waits while suspended.
TakePriorityKey ==
  /\ pc = "run" /\ pkey # "none"
  /\ suspended' = (pkey = "s") /\ pkey' = "none" /\ sem' = sem - 1
  /\ UNCHANGED <<timer, envVars, qVars, reqVars, dlgVars, loopVars, ctlVars, ghost>>

WaitWhileSuspended ==
  /\ pc = "run" /\ suspended /\ StartWait("suspended")
  /\ UNCHANGED <<sem, timer, envVars, qVars, reqVars, susVars, dlgVars, loopVars, target, ghost>>

-----------------------------------------------------------------------------
(* PurgeAllNonKeyEvents, one event at a time from the end of the queue.    *)

\* RemoveEventAdjustingNumberOfExpiringEvents.
ExpiringUnadjusted(i) == expiring    \* mutant
ExpiringAfterRemoval(i) == expiring - One(i <= expiring)

NonKeys == {i \in 1..Len(queue) : queue[i].kind # "key"}
MustPurge == KeysOnly(call) /\ NonKeys # {}

PurgeNonKey ==
  /\ pc \in {"enter", "leave", "probe_enter"} /\ MustPurge
  /\ \E i \in NonKeys :
       /\ \A j \in NonKeys : j <= i
       /\ queue' = RemoveAt(queue, i)
       /\ expiring' = ExpiringAfterRemoval(i)
  /\ sem' = sem - 1
  /\ UNCHANGED <<timer, envVars, backup, reqVars, susVars, dlgVars, loopVars, ctlVars, ghost>>

-----------------------------------------------------------------------------
(* WaitForEvent.                                                           *)

\* A poll signals a dummy event first, so as never to wait.
NoDummySignal == 0    \* mutant
DummySignal == One(call \in Polls)

EnterLoop ==
  /\ pc = "enter" /\ ~MustPurge
  /\ pc' = "wait" /\ sem' = sem + DummySignal /\ handled' = 0
  /\ UNCHANGED <<timer, envVars, qVars, reqVars, susVars, dlgVars, source, replace, outer,
                 call, target, round, got, ghost>>

\* The end of the loop: cancel the additional source, give back the signals set aside.
GivesBackRequestsOnly(src, r, b) == r - One(src = "done")    \* mutant
GivesBackEventsOnly(src, r, b) == b - One(src = "done")      \* mutant
GivenBack(src, r, b) == r + b - One(src = "done")

FinishWith(s, src, r, b) ==
  /\ sem' = s + GivenBack(src, r, b)
  /\ replace' = 0 /\ backup' = 0 /\ source' = "none" /\ handled' = 0
  /\ pc' = "leave"

\* An iteration of a poll counts towards its limit.
CountsNothing == 0    \* mutant
Counts == One(call \in Polls)

\* End of an iteration that leaves s signals, source src, r set aside and b in the backup.
EndIteration(done, s, src, r, b) ==
  \/ done /\ FinishWith(s, src, r, b)
  \/ /\ ~done
     /\ sem' = s /\ replace' = r /\ backup' = b /\ source' = src
     /\ handled' = handled + Counts
     /\ UNCHANGED pc

PollIsOver == call \in Polls /\ handled >= Limit(call)

\* A wait like any other: it sleeps while there is no signal.
PollEnds ==
  /\ pc = "wait" /\ sem > 0 /\ PollIsOver
  /\ FinishWith(sem - 1, source, replace, backup)
  /\ UNCHANGED <<timer, envVars, queue, expiring, reqVars, susVars, dlgVars, outer,
                 call, target, round, got, ghost>>

\* Every iteration writes the status words of all completed requests.
WordsOfCompleted == [w \in Words |-> IF w \in Completed THEN "done" ELSE word[w]]

Iterate == pc = "wait" /\ sem > 0 /\ ~PollIsOver

\* Resuming ends the wait if it waited for that, or for a source that has completed meanwhile;
\* otherwise it gives the wait the signals and the events of the suspension to look at again.
EndedByWaitingToResume == call = "suspended"    \* mutant
EndedByResuming == call = "suspended" \/ (suspended /\ source = "consumed")
NeverLooksAgain == FALSE    \* mutant
LooksAgain == pkey = "q" /\ suspended /\ ~EndedByResuming

OfferToPriorityKeyHandler ==
  /\ Iterate /\ pkey # "none" /\ word' = WordsOfCompleted
  /\ suspended' = (pkey = "s") /\ pkey' = "none"
  /\ IF LooksAgain
     THEN EndIteration(FALSE, sem - 1 + replace + backup, source, 0, 0)
     ELSE EndIteration(pkey = "q" /\ EndedByResuming, sem - 1, source, replace, backup)
  /\ UNCHANGED <<timer, envVars, queue, expiring, req, keya, dlgVars, outer,
                 call, target, round, got, ghost>>

\* SetUpArrayOfEventHandlers: the handler that is offered the event first and takes it.
SourcePrio  == -1    \* DoPauseL: EActivePriorityWsEvents-1
ServerReady == wserv = "ready"    \* mutant
UserReady   == Len(queue) > backup \/ wserv = "ready"
TopRequests == {r \in Completed : \A s \in Completed : Prio[s] <= Prio[r]}

Handler ==
  LET reqReady == Completed # {}
      srcReady == source = "done"
      reqPrio  == Prio[CHOOSE r \in TopRequests : TRUE]
      first    == IF reqReady /\ (srcReady => reqPrio >= SourcePrio) THEN "req" ELSE "src"
      prio     == IF first = "req" THEN reqPrio ELSE SourcePrio
      userIsFirst == IF reqReady /\ srcReady THEN prio < 0 ELSE prio <= 0
  IN CASE ~reqReady /\ ~srcReady /\ UserReady           -> "user"
       [] ~reqReady /\ ~srcReady /\ ~UserReady          -> IF timer = "fired" THEN "timer"
                                                                              ELSE "final"
       [] (reqReady \/ srcReady) /\ UserReady /\ userIsFirst -> "user"
       [] OTHER                                         -> first

Offer(h) == Iterate /\ pkey = "none" /\ Handler = h

\* Does the wait end at a completed request, rather than set its signal aside?
CollectsWhileSuspended == WantsOpl(call)    \* mutant
Collects == ~suspended /\ WantsOpl(call)

OfferToOplAsynchronousRequest(r) ==
  /\ Offer("req") /\ r \in TopRequests /\ word' = WordsOfCompleted
  /\ \/ /\ ~Collects
        /\ EndIteration(FALSE, sem - 1, source, replace + 1, backup)
        /\ UNCHANGED req
     \/ /\ Collects
        /\ EndIteration(TRUE, sem - 1, source, replace, backup)
        /\ req' = [req EXCEPT ![r] = "none"]
  /\ UNCHANGED <<timer, envVars, queue, expiring, keya, susVars, dlgVars, outer,
                 call, target, round, got, ghost>>

OfferToAdditionalSource ==
  /\ Offer("src") /\ word' = WordsOfCompleted
  /\ EndIteration(~suspended, sem - 1, "consumed", replace, backup)
  /\ UNCHANGED <<timer, envVars, queue, expiring, req, keya, susVars, dlgVars, outer,
                 call, target, round, got, ghost>>

\* CTimeOutTimer::RunL: PurgeAllExpiringEvents, which takes no signal for an event
\* in the backup region and does not shrink that region.
ExpiringInBackup == IF expiring < backup THEN expiring ELSE backup

OfferToQueueTimer ==
  /\ Offer("timer") /\ word' = WordsOfCompleted
  /\ queue' = SubSeq(queue, expiring + 1, Len(queue))
  /\ expiring' = Len(queue) - expiring
  /\ timer' = "running"
  /\ stray' = stray + ExpiringInBackup
  /\ EndIteration(FALSE, sem - 1 - (expiring - ExpiringInBackup), source, replace, backup)
  /\ UNCHANGED <<envVars, req, keya, susVars, dlgVars, outer, call, target, round, got, plain, last>>

\* FinalOfferEventFunction: a signal for which nothing has completed.
OfferToFinalFunction ==
  /\ Offer("final") /\ word' = WordsOfCompleted
  /\ EndIteration(call \in Polls \/ Collects, sem - 1, source,
                  replace + One(call \notin Polls /\ ~Collects), backup)
  /\ plain' = plain - One(Collects /\ plain > 0)
  /\ stray' = stray - One(Collects /\ plain = 0)
  /\ UNCHANGED <<timer, envVars, queue, expiring, req, keya, susVars, dlgVars, outer,
                 call, target, round, got, last>>

\* EventCompletesAnyOplAsynchronousWservRequest.
CompletesKeya(e) == \/ keya = "keys" /\ e.kind = "key"
                    \/ keya = "any" /\ e.kind # "msg"

\* A completed KEYA or GETEVENTA: its word is written and its signal sent.
AnswerKeya(completes, e) ==
  /\ keya' = IF completes THEN "none" ELSE keya
  /\ word' = IF completes THEN [WordsOfCompleted EXCEPT !["keya"] = "done"]
                          ELSE WordsOfCompleted
  /\ plain' = plain + One(completes)
  /\ last' = IF completes THEN e.n ELSE last

OfferQueuedEvent ==
  LET e         == queue[backup + 1]
      matches   == ~suspended /\ Matches(call, e)
      completes == ~suspended /\ ~matches /\ CompletesKeya(e)
  IN /\ Offer("user") /\ Len(queue) > backup
     /\ got' = IF suspended THEN got ELSE e
     /\ AnswerKeya(completes, e)
     /\ \/ /\ matches \/ completes
           /\ queue' = RemoveAt(queue, backup + 1)
           /\ expiring' = ExpiringAfterRemoval(backup + 1)
           /\ EndIteration(matches \/ WantsOpl(call), sem - 1 + One(completes), source,
                           replace, backup)
        \/ /\ ~matches /\ ~completes
           /\ sem' = sem - 1 /\ backup' = backup + 1
           /\ UNCHANGED <<queue, expiring, source, replace, handled, pc>>
     /\ UNCHANGED <<timer, envVars, req, susVars, dlgVars, outer, call, target, round, stray>>

\* GetEvent, then EventReady: the next event will complete the request again.
TakeWservEvent == wserv = "ready" /\ wserv' = "pending" /\ UNCHANGED <<incoming, arrived>>

OfferWservEvent(fep, ok) ==
  LET e         == IF fep = "replace" THEN [incoming EXCEPT !.kind = "key"] ELSE incoming
      offered   == fep = "pass" /\ ~suspended
      matches   == offered /\ Matches(call, e)
      completes == offered /\ ~matches /\ CompletesKeya(e)
      appends   == ok /\ fep # "eat" /\ ~matches /\ ~completes
  IN /\ Offer("user") /\ Len(queue) <= backup /\ TakeWservEvent
     /\ got' = incoming
     /\ AnswerKeya(completes, e)
     /\ queue' = IF appends THEN Append(queue, e) ELSE queue
     /\ EndIteration(matches \/ (completes /\ WantsOpl(call)),
                     sem - 1 + One(completes \/ appends), source, replace, backup)
     /\ UNCHANGED <<timer, expiring, req, susVars, dlgVars, outer, call, target, round, stray>>

\* Back in the keyword that called WaitForEvent.
Return(p) == /\ pc' = p /\ got' = NoEvent /\ round' = 0
             /\ IF p = "run" THEN call' = "none" /\ target' = "keya" ELSE UNCHANGED <<call, target>>

Returns == pc = "leave" /\ ~MustPurge

ReturnFromWait ==
  /\ Returns /\ call \in {"get", "iowait", "suspended"} \cup Polls
  /\ IF call = "check" /\ suspended THEN StartWait("suspended") /\ UNCHANGED target
                                    ELSE Return("run")
  /\ last' = IF call = "get" THEN got.n ELSE last
  /\ UNCHANGED <<sem, timer, envVars, qVars, reqVars, susVars, dlgVars, loopVars, plain, stray>>

\* GETEVENT waits again after a message that neither creates nor opens a file.
ReturnFromGetEvent ==
  /\ Returns /\ call = "getevent"
  /\ Return(IF got.kind = "msg" THEN "enter" ELSE "run")
  /\ last' = IF got.kind = "msg" THEN last ELSE got.n
  /\ UNCHANGED <<sem, timer, envVars, qVars, reqVars, susVars, dlgVars, loopVars, plain, stray>>

\* PAUSE puts back whatever event its wait has left in its event variable.
ReturnFromPause(ok) ==
  LET appends == got # NoEvent /\ ok
  IN /\ Returns /\ call \in {"pause_key", "pause_time", "pause_both"}
     /\ queue' = IF appends THEN Append(queue, got) ELSE queue
     /\ sem' = sem + One(appends)
     /\ Return("run")
     /\ UNCHANGED <<timer, envVars, backup, expiring, reqVars, susVars, dlgVars, loopVars, ghost>>

\* IOWAITSTAT waits again, setting a signal aside, until its word is written.
ReturnFromIoWaitStat ==
  /\ Returns /\ call = "iowaitstat"
  /\ \/ /\ word[target] = "pending"
        /\ outer' = outer + 1 /\ plain' = plain + 1 /\ Return("enter") /\ UNCHANGED sem
     \/ /\ word[target] # "pending"
        /\ outer' = 0 /\ sem' = sem + outer /\ Return("run") /\ UNCHANGED plain
  /\ UNCHANGED <<timer, envVars, qVars, reqVars, susVars, dlgVars, source, handled, replace,
                 stray, last>>

-----------------------------------------------------------------------------
(* IsEventReady: KEY and the end of an Execute take a key, TESTEVENT and   *)
(* KEYA (beside what answers it) nothing.                                  *)

TakesWhatItFinds(c) == c \in {"key", "consume"}

StartProbing ==
  /\ pc = "probe_enter" /\ ~MustPurge
  /\ pc' = "probe" /\ word' = WordsOfCompleted
  /\ UNCHANGED <<sem, timer, envVars, qVars, req, keya, susVars, dlgVars, loopVars,
                 call, target, round, got, ghost>>

ProbeQueuedEvent ==
  LET e         == queue[backup + 1]
      completes == CompletesKeya(e)
      found     == ~completes /\ Matches(call, e)
      takes     == completes \/ (found /\ TakesWhatItFinds(call))
  IN /\ pc = "probe" /\ round > 0 /\ Len(queue) > backup
     /\ keya' = IF completes THEN "none" ELSE keya
     /\ word' = IF completes THEN [word EXCEPT !["keya"] = "done"] ELSE word
     /\ plain' = plain + One(completes)
     /\ last' = IF takes THEN e.n ELSE last
     /\ queue' = IF takes THEN RemoveAt(queue, backup + 1) ELSE queue
     /\ expiring' = IF takes THEN ExpiringAfterRemoval(backup + 1) ELSE expiring
     /\ CASE completes -> UNCHANGED <<sem, backup, pc, call, target, round, got>>
          [] found     -> sem' = sem - One(takes) + backup /\ backup' = 0 /\ Return("run")
          [] OTHER     -> /\ sem' = sem - 1 /\ backup' = backup + 1
                          /\ UNCHANGED <<pc, call, target, round, got>>
     /\ UNCHANGED <<timer, envVars, req, susVars, dlgVars, loopVars, stray>>

NothingToFind == round = 0 \/ (Len(queue) <= backup /\ wserv # "ready")

ProbeForgetsBackup ==    \* mutant
  /\ pc = "probe" /\ NothingToFind
  /\ Return("run")
  /\ UNCHANGED <<sem, timer, envVars, qVars, reqVars, susVars, dlgVars, loopVars, ghost>>
ProbeFindsNothing ==
  /\ pc = "probe" /\ NothingToFind
  /\ sem' = sem + backup /\ backup' = 0 /\ Return("run")
  /\ UNCHANGED <<timer, envVars, queue, expiring, reqVars, susVars, dlgVars, loopVars, ghost>>

ProbeWservEvent(fep, ok) ==
  LET e         == IF fep = "replace" THEN [incoming EXCEPT !.kind = "key"] ELSE incoming
      completes == fep = "pass" /\ CompletesKeya(e)
      found     == fep = "pass" /\ ~completes /\ Matches(call, e)
      takes     == found /\ TakesWhatItFinds(call)
      appends   == ok /\ fep # "eat" /\ ~takes /\ ~completes
      fails     == ~ok /\ fep = "pass" /\ ~takes /\ ~completes
  IN /\ pc = "probe" /\ round > 0 /\ Len(queue) <= backup /\ TakeWservEvent
     /\ keya' = IF completes THEN "none" ELSE keya
     /\ word' = IF completes THEN [word EXCEPT !["keya"] = "done"] ELSE word
     /\ plain' = plain + One(completes)
     /\ last' = IF takes \/ completes THEN e.n ELSE last
     /\ queue' = IF appends THEN Append(queue, e) ELSE queue
     /\ sem' = sem + backup - 1 + One(appends \/ completes) /\ backup' = 0
     /\ IF found \/ fails THEN Return("run")
                          ELSE round' = round - 1 /\ UNCHANGED <<pc, call, target, got>>
     /\ UNCHANGED <<timer, expiring, req, susVars, dlgVars, loopVars, stray>>

-----------------------------------------------------------------------------
(* Dialogs and menus: a nested CActiveScheduler::Start, in cone mode.      *)

\* The outermost one empties the event queue, stops its timer and withdraws EventReady,
\* taking the signals of those that had completed.
WithdrawnButTimer == Len(queue) + One(wserv = "ready")    \* mutant
Withdrawn == Len(queue) + One(timer = "fired") + One(wserv = "ready")

StartDialog ==
  /\ "DIALOG" \in Keywords /\ nest < MaxNest
  /\ \/ /\ nest = 0 /\ pc = "run" /\ ~suspended
        /\ queue' = <<>> /\ expiring' = 0 /\ timer' = "off" /\ wserv' = "idle"
        /\ sem' = sem - Withdrawn
     \/ /\ nest > 0 /\ pc = "dialog"
        /\ UNCHANGED <<queue, expiring, timer, wserv, sem>>
  /\ nest' = nest + 1 /\ pc' = "dialog"
  /\ UNCHANGED <<incoming, arrived, backup, reqVars, susVars, buffered, loopVars, call, target,
                 round, got, ghost>>

\* CSignalBuffer has the lowest priority: it takes every signal nobody else explains.
DialogTakesSignal ==
  /\ pc = "dialog" /\ sem > 0
  /\ sem' = sem - 1
  /\ IF pkey # "none"
     THEN suspended' = (pkey = "s") /\ pkey' = "none" /\ UNCHANGED buffered
     ELSE buffered' = buffered + 1 /\ UNCHANGED susVars
  /\ UNCHANGED <<timer, envVars, qVars, reqVars, nest, loopVars, ctlVars, ghost>>

StopDialog ==
  /\ pc = "dialog" /\ nest' = nest - 1
  /\ IF nest = 1
     THEN /\ timer' = "running" /\ wserv' = "pending" /\ pc' = "run"
          /\ sem' = sem + buffered /\ buffered' = 0
     ELSE UNCHANGED <<timer, wserv, pc, sem, buffered>>
  /\ UNCHANGED <<incoming, arrived, qVars, reqVars, susVars, loopVars, call, target, round,
                 got, ghost>>

-----------------------------------------------------------------------------
Program ==
  \/ Get \/ GetEvent \/ IoWait \/ IoYield \/ EventCheck \/ IoSignal \/ KeyC \/ Key \/ TestEvent
  \/ ExecuteEnds
  \/ \E c \in {"pause_key", "pause_time", "pause_both"} : Pause(c)
  \/ \E w \in Words : IoWaitStat(w)
  \/ \E r \in Requests : Ioa(r) \/ IocFails(r)
  \/ \E r, c \in Requests : IoCancel(r, c)
  \/ \E k \in {"keys", "any"} : KeyA(k)
  \/ StartDialog \/ StopDialog

Loop ==
  \/ TakePriorityKey \/ WaitWhileSuspended
  \/ PurgeNonKey \/ EnterLoop \/ PollEnds
  \/ OfferToPriorityKeyHandler \/ OfferToAdditionalSource \/ OfferToQueueTimer
  \/ OfferToFinalFunction \/ OfferQueuedEvent
  \/ \E r \in Requests : OfferToOplAsynchronousRequest(r)
  \/ \E f \in FepMoves, ok \in AppendOutcomes : OfferWservEvent(f, ok) \/ ProbeWservEvent(f, ok)
  \/ ReturnFromWait \/ ReturnFromGetEvent \/ ReturnFromIoWaitStat
  \/ \E ok \in AppendOutcomes : ReturnFromPause(ok)
  \/ StartProbing \/ ProbeQueuedEvent \/ ProbeFindsNothing
  \/ DialogTakesSignal

Environment ==
  \/ \E k \in EventKinds : WservEvent(k)
  \/ \E r \in Requests : RequestCompletes(r)
  \/ \E k \in {"s", "q"} : PriorityKey(k)
  \/ ShelfLifeExpires \/ PauseElapses

Next == Program \/ Loop \/ Environment

Spec == Init /\ [][Next]_vars

\* The thread never stops between two waits: its own steps are weakly fair.
FairSpec == Spec /\ WF_vars(Loop)

-----------------------------------------------------------------------------
(* Properties.                                                             *)

\* Completed things whose signal is still in the semaphore, and the dummy of a poll.
Owed ==
  (Len(queue) - backup) + One(wserv = "ready") + Cardinality(Completed) + One(pkey # "none")
  + One(timer = "fired") + One(source = "done") + One(pc = "wait" /\ call \in Polls)

\* Signals are neither lost nor made up: those in the semaphore and those the code has set
\* aside are the ones of the things that have completed, the plain ones, and the strays of
\* PurgeAllExpiringEvents.
SignalsAccounted == sem + replace + outer + buffered = Owed + plain + stray

\* Every User::WaitForAnyRequest commented "returns straightaway" does: those that take a signal
\* within a step leave none owing, and the one that ends a poll at its limit finds a signal, unless
\* a completed request that the program has not collected has used up the dummy.
WaitsReturnStraightaway ==
  /\ sem >= 0
  /\ pc = "wait" /\ PollIsOver => sem > 0 \/ Completed # {}

\* The thread never sleeps on something that has completed, save for asynchronous requests
\* whose signal the current wait has set aside.
NoLostWakeup ==
  (pc = "wait" /\ sem = 0) =>
     /\ Len(queue) <= backup /\ wserv # "ready" /\ pkey = "none"
     /\ timer # "fired" /\ source # "done"

\* __ASSERT_DEBUG 20, 21, 23, 24: each wait and each round of IsEventReady finds the
\* backup region of the queue empty.
BackupEmptyBetweenWaits == pc \notin {"wait", "probe"} => backup = 0 /\ replace = 0

\* The comment on WaitForEvent: a call that is not a poll does not return while suspended.
NoReturnWhileSuspended ==
  [][pc = "wait" /\ pc' = "leave" /\ call \notin Polls => ~suspended']_vars

\* Keys that have neither been given to the program nor soaked up by the end of an Execute are
\* still to be had: none is dropped between the window server, the queue, its backup region and
\* the wait that is about to return it.
Held(n) == \/ \E i \in 1..Len(queue) : queue[i].n = n
           \/ wserv = "ready" /\ incoming.n = n
           \/ pc = "leave" /\ call \in {"get", "getevent"} /\ got.n = n
NoKeyLost == \A n \in 1..arrived : n <= last \/ Held(n)

\* The type-ahead of the program: while all that happens is that keys are typed, the queue, its
\* backup region, KEYA and the suspensions of the program together are a first-in first-out queue,
\* which loses a key only to the end of an Execute, and no more than the oldest one to each.
Ending == call = "consume"
TypeAhead == INSTANCE OplTypeAhead WITH typed <- arrived, taken <- last, ending <- Ending
ImplementsTypeAhead == TypeAhead!Spec

\* A poll that sleeps has set aside the dummy signal that was to keep it awake, and only the
\* completed request that the program has not collected makes it do so.
PollSleepsOnlyOnUncollected == (pc = "wait" /\ call \in Polls /\ sem = 0) => Completed # {}

\* The comment in Execute: the event its end soaks up is one that "it's too late for the sequencer
\* to process".  So none is taken from a program that goes on.
OnlyLateKeysSoakedUp == [][Ending /\ ~Ending' => last' = last]_vars

\* The waits below are served unless the program is suspended or priority keys never end.
PriorityKeysNeverEnd == []<>(pkey # "none")

\* GET does not miss a key: once one is queued or ready it returns.
KeyAtHand == \/ wserv = "ready" /\ incoming.kind = "key"
             \/ \E i \in 1..Len(queue) : queue[i].kind = "key"
GetReturns ==
  PriorityKeysNeverEnd \/ ((call = "get" /\ KeyAtHand) ~> (call # "get" \/ suspended))

\* A poll comes to its end whatever arrives meanwhile: the events of the queue do not swamp it.
PollReturns == (call \in Polls) ~> (call \notin Polls)

\* IOWAIT and IOWAITSTAT notice the completion of a request, whoever took its signal before.
IoWaitReturns ==
  PriorityKeysNeverEnd \/ ((call = "iowait" /\ Completed # {}) ~> (call # "iowait" \/ suspended))
IoWaitStatReturns ==
  \A r \in Requests :
     PriorityKeysNeverEnd
     \/ ((call = "iowaitstat" /\ target = r /\ r \in Completed) ~> (call # "iowaitstat" \/ suspended))

\* PAUSE ends once its time is up, also when that happened while the program was suspended.
TimedPause == call \in {"pause_time", "pause_both"}
PauseEnds ==
  PriorityKeysNeverEnd
  \/ ((TimedPause /\ source \in {"done", "consumed"}) ~> (~TimedPause \/ suspended))
=============================================================================
