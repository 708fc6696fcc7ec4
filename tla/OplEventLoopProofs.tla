------------------------- MODULE OplEventLoopProofs -------------------------
(***************************************************************************)
(* Proofs about the event loop, for any set of requests, any priorities    *)
(* and any values of the limits.                                           *)
(***************************************************************************)
EXTENDS OplEventLoop, SequenceTheorems, FiniteSetTheorems, TLAPS

-----------------------------------------------------------------------------
(* Facts about the operators of the model.                                 *)

\* Removing one event shortens the queue by one and leaves a queue of events.
LEMMA RemoveAtFact ==
  ASSUME NEW S, NEW s \in Seq(S), NEW i \in 1..Len(s)
  PROVE  RemoveAt(s, i) \in Seq(S) /\ Len(RemoveAt(s, i)) = Len(s) - 1
<1>1. Len(s) \in Nat /\ \A j \in 1..Len(s) : s[j] \in S
  BY LenProperties, ElementOfSeq
<1>2. /\ SubSeq(s, 1, i - 1) \in Seq(S)
      /\ Len(SubSeq(s, 1, i - 1)) = i - 1
  <2>1. \A j \in 1..(i - 1) : s[j] \in S
    BY <1>1
  <2> QED BY <1>1, <2>1, SubSeqProperties
<1>3. /\ SubSeq(s, i + 1, Len(s)) \in Seq(S)
      /\ Len(SubSeq(s, i + 1, Len(s))) = Len(s) - i
  <2>1. \A j \in (i + 1)..Len(s) : s[j] \in S
    BY <1>1
  <2> QED BY <1>1, <2>1, SubSeqProperties
<1> DEFINE front == SubSeq(s, 1, i - 1)
           back  == SubSeq(s, i + 1, Len(s))
<1>4. /\ front \o back \in Seq(S)
      /\ Len(front \o back) = Len(front) + Len(back)
  <2> HIDE DEF front, back
  <2> QED BY <1>2, <1>3, ConcatProperties DEF front, back
<1>5. RemoveAt(s, i) = front \o back
  BY DEF RemoveAt
<1>6. Len(front) = i - 1 /\ Len(back) = Len(s) - i
  BY <1>2, <1>3
<1> HIDE DEF front, back
<1>7. RemoveAt(s, i) \in Seq(S)
  BY <1>4, <1>5
<1>8. Len(RemoveAt(s, i)) = Len(front) + Len(back)
  BY <1>4, <1>5
<1>9. Len(front) + Len(back) = Len(s) - 1
  BY <1>1, <1>6
<1> QED BY <1>7, <1>8, <1>9

\* Cutting off a prefix shortens the queue by the prefix and leaves a queue of events.
LEMMA SuffixFact ==
  ASSUME NEW S, NEW s \in Seq(S), NEW n \in 0..Len(s)
  PROVE  /\ SubSeq(s, n + 1, Len(s)) \in Seq(S)
         /\ Len(SubSeq(s, n + 1, Len(s))) = Len(s) - n
<1>1. Len(s) \in Nat /\ \A j \in (n + 1)..Len(s) : s[j] \in S
  BY LenProperties, ElementOfSeq
<1> QED BY <1>1, SubSeqProperties

LEMMA AppendFact ==
  ASSUME NEW S, NEW s \in Seq(S), NEW e \in S
  PROVE  Append(s, e) \in Seq(S) /\ Len(Append(s, e)) = Len(s) + 1
BY AppendProperties

\* The event at the head of the visible queue, and one just fetched, are events.
LEMMA QueuedEventFact == TypeOK /\ Len(queue) > backup => queue[backup + 1] \in Events
<1> SUFFICES ASSUME TypeOK, Len(queue) > backup PROVE queue[backup + 1] \in Events
  OBVIOUS
<1>1. queue \in Seq(Events) /\ backup \in Nat
  BY DEF TypeOK
<1>2. backup + 1 \in 1..Len(queue)
  BY <1>1, LenProperties
<1> QED BY <1>1, <1>2, ElementOfSeq

LEMMA EventFact == ASSUME NEW e \in Events PROVE e.kind \in Kinds /\ e.n \in Nat
BY DEF Events

-----------------------------------------------------------------------------
(* Type correctness.                                                       *)

\* While a dialog runs, the queue's timer is stopped and EventReady withdrawn.
DialogInv == pc = "dialog" => nest > 0 /\ wserv = "idle" /\ timer = "off"

TInv == TypeOK /\ DialogInv

LEMMA InitTInv == Init => TInv
<1> SUFFICES ASSUME Init PROVE TInv
  OBVIOUS
<1>1. <<>> \in Seq(Events) /\ Len(<<>>) = 0
  BY EmptySeq
<1>2. queue \in Seq(Events) /\ expiring \in 0..Len(queue)
  BY <1>1 DEF Init
<1>3. word \in [Words -> {"unset", "pending", "done", "cancelled"}] /\ target \in Words
  BY DEF Init, Words
<1>4. req \in [Requests -> {"none", "pending", "completed"}]
  BY DEF Init
<1>5. DialogInv
  BY DEF Init, DialogInv
<1>6. sem \in Int /\ arrived \in Nat /\ backup \in Nat /\ nest \in Nat /\ buffered \in Nat /\ handled \in Nat /\ replace \in Nat /\ outer \in Nat /\ round \in Nat /\ plain \in Nat /\ stray \in Int /\ last \in Nat
  BY DEF Init
<1>7. wserv = "pending" /\ incoming \in {NoEvent} /\ got \in {NoEvent} 
  BY DEF Init
<1>8. timer = "running" /\ keya = "none" /\ suspended \in BOOLEAN /\ pkey = "none" /\ pc = "run" /\ call = "none" /\ source = "none"
  BY DEF Init
<1> QED BY <1>2, <1>3, <1>4, <1>5, <1>6, <1>7, <1>8 DEF TInv, TypeOK

LEMMA EnvironmentTInv == TInv /\ Environment => TInv'
<1> SUFFICES ASSUME TInv, Environment PROVE TInv'
  OBVIOUS
<1> USE DEF TInv, TypeOK, DialogInv, envVars, qVars, reqVars, susVars, dlgVars, loopVars, ctlVars, ghost
<1>1. ASSUME NEW k \in EventKinds, WservEvent(k) PROVE TInv'
  <2>1. k \in Kinds
    BY KindsAssumption
  <2>2. [kind |-> k, n |-> arrived + 1] \in Events
    BY <2>1 DEF Events
  <2> QED BY <1>1, <2>2 DEF WservEvent
<1>2. ASSUME NEW r \in Requests, RequestCompletes(r) PROVE TInv'
  BY <1>2 DEF RequestCompletes
<1>3. ASSUME NEW k \in {"s", "q"}, PriorityKey(k) PROVE TInv'
  BY <1>3 DEF PriorityKey
<1>4. CASE ShelfLifeExpires
  BY <1>4 DEF ShelfLifeExpires
<1>5. CASE PauseElapses
  BY <1>5 DEF PauseElapses
<1> QED BY <1>1, <1>2, <1>3, <1>4, <1>5 DEF Environment

\* The keywords.
LEMMA ProgramTInv == TInv /\ Program => TInv'
<1> SUFFICES ASSUME TInv, Program PROVE TInv'
  OBVIOUS
<1> USE DEF TInv, TypeOK, DialogInv, envVars, qVars, reqVars, susVars, dlgVars, loopVars, ctlVars, ghost
<1>1. ASSUME Get \/ GetEvent \/ IoWait \/ IoYield \/ EventCheck PROVE TInv'
  <2>1. \E c \in Waits : StartWait(c) /\ UNCHANGED <<sem, timer, envVars, qVars, reqVars, susVars,
                                                    dlgVars, loopVars, target, ghost>>
    BY <1>1 DEF Get, GetEvent, IoWait, IoYield, EventCheck, Waits, Polls
  <2> QED BY <2>1 DEF StartWait
<1>2. ASSUME Key \/ TestEvent \/ ExecuteEnds PROVE TInv'
  BY <1>2, LimitsAssumption, ZenonT(30) DEF Key, TestEvent, ExecuteEnds, StartProbe, Keyword, Probes
<1>3. ASSUME IoSignal PROVE TInv'
  BY <1>3 DEF IoSignal, Keyword
<1>4. ASSUME KeyC PROVE TInv'
  BY <1>4 DEF KeyC, Keyword, Words
<1>5. ASSUME NEW c \in {"pause_key", "pause_time", "pause_both"}, Pause(c) PROVE TInv'
  BY <1>5 DEF Pause, StartWait, Keyword, Waits
<1>6. ASSUME NEW w \in Words, IoWaitStat(w) PROVE TInv'
  BY <1>6 DEF IoWaitStat, StartWait, Keyword, Waits
<1>7. ASSUME NEW r \in Requests, Ioa(r) PROVE TInv'
  BY <1>7 DEF Ioa, Words, One
<1>8. ASSUME NEW r \in Requests, IocFails(r) PROVE TInv'
  BY <1>8 DEF IocFails, Words
<1>9. ASSUME NEW r \in Requests, NEW c \in Requests, IoCancel(r, c) PROVE TInv'
  BY <1>9 DEF IoCancel, StartWait, Keyword, Waits, Words, One
<1>10. ASSUME NEW k \in {"keys", "any"}, KeyA(k) PROVE TInv'
  BY <1>10, LimitsAssumption, ZenonT(30) DEF KeyA, StartProbe, Keyword, Probes
<1>11. ASSUME StartDialog PROVE TInv'
  <2>1. queue' \in Seq(Events) /\ expiring' \in 0..Len(queue')
    <3>1. CASE nest = 0
      BY <1>11, <3>1, EmptySeq DEF StartDialog
    <3>2. CASE nest > 0
      BY <1>11, <3>2 DEF StartDialog
    <3> QED BY <3>1, <3>2
  <2>2. sem' \in Int
    BY <1>11, LenProperties DEF StartDialog, Withdrawn, One
  <2>3. /\ nest' \in Nat /\ nest' > 0 /\ pc' = "dialog"
        /\ timer' \in {timer, "off"} /\ wserv' \in {wserv, "idle"}
        /\ wserv' = "idle" /\ timer' = "off"
    BY <1>11 DEF StartDialog
  <2> QED BY <1>11, <2>1, <2>2, <2>3 DEF StartDialog
<1>12. ASSUME StopDialog PROVE TInv'
  BY <1>12 DEF StopDialog
<1> QED BY <1>1, <1>2, <1>3, <1>4, <1>5, <1>6, <1>7, <1>8, <1>9, <1>10, <1>11, <1>12 DEF Program

\* The loop of WaitForEvent.
LEMMA OffersTInv ==
  TInv /\ (\/ PollEnds \/ OfferToPriorityKeyHandler \/ OfferToAdditionalSource
           \/ OfferToQueueTimer \/ OfferToFinalFunction
           \/ \E r \in Requests : OfferToOplAsynchronousRequest(r)) => TInv'
<1> SUFFICES ASSUME TInv PROVE
      (\/ PollEnds \/ OfferToPriorityKeyHandler \/ OfferToAdditionalSource
       \/ OfferToQueueTimer \/ OfferToFinalFunction
       \/ \E r \in Requests : OfferToOplAsynchronousRequest(r)) => TInv'
  OBVIOUS
<1> USE DEF TInv, DialogInv, envVars, qVars, reqVars, susVars, dlgVars, loopVars, ctlVars, ghost
<1>0. WordsOfCompleted \in [Words -> {"unset", "pending", "done", "cancelled"}]
  BY DEF TypeOK, WordsOfCompleted
<1>1. ASSUME PollEnds PROVE TInv'
  BY <1>1 DEF PollEnds, FinishWith, GivenBack, One, TypeOK
<1>2. ASSUME OfferToPriorityKeyHandler PROVE TInv'
  <2>1. /\ sem' \in Int /\ replace' \in Nat /\ backup' \in Nat /\ handled' \in Nat
        /\ source' \in {"none", "pending", "done", "consumed"}
        /\ pc' \in {"wait", "leave"}
    <3>1. pc = "wait" /\ sem - 1 \in Int /\ sem - 1 + replace + backup \in Int
      BY <1>2 DEF OfferToPriorityKeyHandler, Iterate, TypeOK
    <3>2. CASE LooksAgain
      BY <1>2, <3>1, <3>2 DEF EndIteration, Counts, FinishWith, GivenBack, One, OfferToPriorityKeyHandler, TypeOK
    <3>3. CASE ~LooksAgain
      BY <1>2, <3>1, <3>3 DEF EndIteration, Counts, FinishWith, GivenBack, One, OfferToPriorityKeyHandler, TypeOK, EndedByResuming
    <3> QED BY <3>2, <3>3
  <2> QED BY <1>0, <1>2, <2>1 DEF OfferToPriorityKeyHandler, TypeOK
<1>3. ASSUME NEW r \in Requests, OfferToOplAsynchronousRequest(r) PROVE TInv'
  <2>1. /\ sem' \in Int /\ replace' \in Nat /\ backup' \in Nat /\ handled' \in Nat
        /\ source' \in {"none", "pending", "done", "consumed"}
        /\ pc' \in {"wait", "leave"}
    <3>1. pc = "wait" /\ sem - 1 \in Int /\ replace + 1 \in Nat
      BY <1>3 DEF OfferToOplAsynchronousRequest, Offer, Iterate, TypeOK
    <3> QED BY <1>3, <3>1 DEF EndIteration, Counts, FinishWith, GivenBack, One, OfferToOplAsynchronousRequest, TypeOK
  <2>2. req' \in [Requests -> {"none", "pending", "completed"}]
    BY <1>3 DEF OfferToOplAsynchronousRequest, TypeOK
  <2> QED BY <1>0, <1>3, <2>1, <2>2 DEF OfferToOplAsynchronousRequest, TypeOK
<1>4. ASSUME OfferToAdditionalSource PROVE TInv'
  <2>1. pc = "wait" /\ sem - 1 \in Int
    BY <1>4 DEF OfferToAdditionalSource, Offer, Iterate, TypeOK
  <2>2. /\ sem' \in Int /\ replace' \in Nat /\ backup' \in Nat /\ handled' \in Nat
        /\ source' \in {"none", "pending", "done", "consumed"}
        /\ pc' \in {"wait", "leave"}
    BY <1>4, <2>1 DEF EndIteration, Counts, FinishWith, GivenBack, One, OfferToAdditionalSource, TypeOK
  <2> QED BY <1>0, <1>4, <2>2 DEF OfferToAdditionalSource, TypeOK
<1>5. ASSUME OfferToQueueTimer PROVE TInv'
  <2>1. /\ queue' \in Seq(Events) /\ Len(queue') = Len(queue) - expiring
        /\ Len(queue) \in Nat
    BY <1>5, SuffixFact, LenProperties DEF OfferToQueueTimer, TypeOK
  <2>2. pc = "wait" /\ sem - 1 - (expiring - ExpiringInBackup) \in Int
    BY <1>5, <2>1 DEF OfferToQueueTimer, Offer, Iterate, TypeOK, ExpiringInBackup
  <2>3. /\ sem' \in Int /\ replace' \in Nat /\ backup' \in Nat /\ handled' \in Nat
        /\ source' \in {"none", "pending", "done", "consumed"}
        /\ pc' \in {"wait", "leave"}
    BY <1>5, <2>2 DEF EndIteration, Counts, FinishWith, GivenBack, One, OfferToQueueTimer, TypeOK
  <2>4. expiring' \in 0..Len(queue') /\ stray' \in Int /\ timer' = "running"
    BY <1>5, <2>1 DEF OfferToQueueTimer, TypeOK, ExpiringInBackup
  <2> QED BY <1>0, <1>5, <2>1, <2>3, <2>4, SMTT(20) DEF OfferToQueueTimer, TypeOK
<1>6. ASSUME OfferToFinalFunction PROVE TInv'
  <2>1. pc = "wait" /\ sem - 1 \in Int /\ replace + One(call \notin Polls /\ ~Collects) \in Nat
    BY <1>6 DEF OfferToFinalFunction, Offer, Iterate, TypeOK, One
  <2>2. /\ sem' \in Int /\ replace' \in Nat /\ backup' \in Nat /\ handled' \in Nat
        /\ source' \in {"none", "pending", "done", "consumed"}
        /\ pc' \in {"wait", "leave"}
    BY <1>6, <2>1 DEF EndIteration, Counts, FinishWith, GivenBack, One, OfferToFinalFunction, TypeOK, Collects, WantsOpl
  <2>3. plain' \in Nat /\ stray' \in Int
    BY <1>6 DEF OfferToFinalFunction, TypeOK, One
  <2> QED BY <1>0, <1>6, <2>2, <2>3, SMTT(20) DEF OfferToFinalFunction, TypeOK
<1> QED BY <1>1, <1>2, <1>3, <1>4, <1>5, <1>6

\* Events offered to the wait or to IsEventReady, from the queue or from the window server.
LEMMA EventsTInv ==
  TInv /\ (\/ OfferQueuedEvent \/ ProbeQueuedEvent
           \/ \E f \in FepMoves, ok \in AppendOutcomes :
                 OfferWservEvent(f, ok) \/ ProbeWservEvent(f, ok)) => TInv'
<1> SUFFICES ASSUME TInv PROVE
      (\/ OfferQueuedEvent \/ ProbeQueuedEvent
       \/ \E f \in FepMoves, ok \in AppendOutcomes :
             OfferWservEvent(f, ok) \/ ProbeWservEvent(f, ok)) => TInv'
  OBVIOUS
<1> USE DEF TInv, DialogInv, envVars, qVars, reqVars, susVars, dlgVars, loopVars, ctlVars, ghost
<1> DEFINE Status == {"unset", "pending", "done", "cancelled"}
<1>0. /\ WordsOfCompleted \in [Words -> Status]
      /\ [WordsOfCompleted EXCEPT !["keya"] = "done"] \in [Words -> Status]
      /\ [word EXCEPT !["keya"] = "done"] \in [Words -> Status]
  BY DEF TypeOK, WordsOfCompleted, Words
<1>a. ASSUME NEW c \in BOOLEAN, NEW e \in Events, AnswerKeya(c, e)
      PROVE  /\ keya' \in {"none", "keys", "any"} /\ word' \in [Words -> Status]
             /\ plain' \in Nat /\ last' \in Nat
  BY <1>0, <1>a, EventFact DEF AnswerKeya, TypeOK, One
<1>b. queue \in Seq(Events) /\ Len(queue) \in Nat /\ expiring \in 0..Len(queue)
  BY LenProperties DEF TypeOK
<1>c. ASSUME NEW i \in 1..Len(queue)
      PROVE  /\ RemoveAt(queue, i) \in Seq(Events) /\ Len(RemoveAt(queue, i)) = Len(queue) - 1
             /\ ExpiringAfterRemoval(i) \in 0..Len(RemoveAt(queue, i))
  BY <1>b, <1>c, RemoveAtFact DEF ExpiringAfterRemoval, One
<1>d. ASSUME NEW e \in Events
      PROVE  Append(queue, e) \in Seq(Events) /\ expiring \in 0..Len(Append(queue, e))
  BY <1>b, <1>d, AppendFact
<1>1. ASSUME OfferQueuedEvent PROVE TInv'
  <2>1. pc = "wait" /\ Len(queue) > backup /\ backup + 1 \in 1..Len(queue) /\ backup \in Nat
    BY <1>1, <1>b DEF OfferQueuedEvent, Offer, Iterate, TypeOK
  <2> DEFINE e == queue[backup + 1]
  <2>2. e \in Events
    BY <1>b, <2>1, ElementOfSeq
  <2>3. \E c \in BOOLEAN : AnswerKeya(c, e)
    BY <1>1 DEF OfferQueuedEvent, CompletesKeya, Matches
  <2>4. /\ keya' \in {"none", "keys", "any"} /\ word' \in [Words -> Status]
        /\ plain' \in Nat /\ last' \in Nat
    BY <1>a, <2>2, <2>3
  <2>5. queue' \in Seq(Events) /\ expiring' \in 0..Len(queue')
    BY <1>1, <1>b, <1>c, <2>1 DEF OfferQueuedEvent
  <2>6. /\ sem' \in Int /\ replace' \in Nat /\ backup' \in Nat /\ handled' \in Nat
        /\ source' \in {"none", "pending", "done", "consumed"}
        /\ pc' \in {"wait", "leave"}
    BY <1>1, <2>1 DEF OfferQueuedEvent, EndIteration, Counts, FinishWith, GivenBack, One, TypeOK
  <2>7. got' \in Events \cup {NoEvent}
    BY <1>1, <2>2 DEF OfferQueuedEvent, TypeOK
  <2> QED BY <1>1, <2>4, <2>5, <2>6, <2>7, SMTT(20) DEF OfferQueuedEvent, TypeOK
<1>2. ASSUME NEW f \in FepMoves, NEW ok \in AppendOutcomes, OfferWservEvent(f, ok) PROVE TInv'
  <2> DEFINE e == IF f = "replace" THEN [incoming EXCEPT !.kind = "key"] ELSE incoming
  <2>1. incoming \in Events /\ e \in Events /\ pc = "wait" /\ wserv' = "pending"
    BY <1>2 DEF OfferWservEvent, TakeWservEvent, Offer, Iterate, TypeOK, Events, Kinds
  <2>3. \E c \in BOOLEAN : AnswerKeya(c, e)
    BY <1>2 DEF OfferWservEvent, CompletesKeya, Matches
  <2>4. /\ keya' \in {"none", "keys", "any"} /\ word' \in [Words -> Status]
        /\ plain' \in Nat /\ last' \in Nat
    BY <1>a, <2>1, <2>3
  <2>5. queue' \in {queue, Append(queue, e)} /\ expiring' = expiring
    BY <1>2 DEF OfferWservEvent
  <2>6. queue' \in Seq(Events) /\ expiring' \in 0..Len(queue')
    BY <1>b, <1>d, <2>1, <2>5
  <2>7. /\ sem' \in Int /\ replace' \in Nat /\ backup' \in Nat /\ handled' \in Nat
        /\ source' \in {"none", "pending", "done", "consumed"}
        /\ pc' \in {"wait", "leave"}
    <3>1. \E d \in BOOLEAN, x \in {0, 1} : EndIteration(d, sem - 1 + x, source, replace, backup)
      BY <1>2 DEF OfferWservEvent, One
    <3>2. PICK d \in BOOLEAN, x \in {0, 1} : EndIteration(d, sem - 1 + x, source, replace, backup)
      BY <3>1
    <3>3. sem - 1 + x \in Int
      BY DEF TypeOK
    <3>4. CASE FinishWith(sem - 1 + x, source, replace, backup)
      BY <3>3, <3>4 DEF FinishWith, GivenBack, One, TypeOK
    <3>5. CASE ~FinishWith(sem - 1 + x, source, replace, backup)
      <4>1. /\ sem' = sem - 1 + x /\ replace' = replace /\ backup' = backup /\ source' = source
            /\ handled' = handled + Counts /\ pc' = pc
        BY <3>2, <3>5 DEF EndIteration
      <4> QED BY <2>1, <3>3, <4>1, SMTT(20) DEF One, Counts, TypeOK
    <3> QED BY <3>4, <3>5
  <2> QED BY <1>2, <2>1, <2>4, <2>6, <2>7 DEF OfferWservEvent, TakeWservEvent, TypeOK
<1>3. ASSUME ProbeQueuedEvent PROVE TInv'
  <2>1. pc = "probe" /\ Len(queue) > backup /\ backup + 1 \in 1..Len(queue) /\ backup \in Nat
    BY <1>3, <1>b, SMTT(20) DEF ProbeQueuedEvent, TypeOK
  <2> DEFINE e == queue[backup + 1]
  <2>2. e \in Events /\ e.n \in Nat
    BY <1>b, <2>1, ElementOfSeq, EventFact
  <2>3. queue' \in Seq(Events) /\ expiring' \in 0..Len(queue')
    BY <1>3, <1>b, <1>c, <2>1 DEF ProbeQueuedEvent
  <2>4. keya' \in {"none", "keys", "any"} /\ plain' \in Nat /\ last' \in Nat
    <3>1. keya' \in {keya, "none"} /\ last' \in {last, e.n}
      BY <1>3 DEF ProbeQueuedEvent
    <3>2. plain' \in {plain, plain + 1}
      BY <1>3 DEF ProbeQueuedEvent, One, TypeOK
    <3>3. keya \in {"none", "keys", "any"} /\ plain \in Nat /\ last \in Nat
      BY DEF TypeOK
    <3> QED BY <2>2, <3>1, <3>2, <3>3
  <2>5. word' \in [Words -> Status]
    BY <1>3, <1>0 DEF ProbeQueuedEvent, TypeOK
  <2>6. /\ sem' \in Int /\ backup' \in Nat /\ round' \in Nat /\ pc' \in {"probe", "run"}
        /\ call' \in {call, "none"} /\ target' \in {target, "keya"} /\ got' \in {got, NoEvent}
    <3>1. \/ UNCHANGED <<sem, backup, pc, call, target, round, got>>
          \/ \E x \in {0, 1} : sem' = sem - x + backup /\ backup' = 0 /\ Return("run")
          \/ sem' = sem - 1 /\ backup' = backup + 1 /\ UNCHANGED <<pc, call, target, round, got>>
      BY <1>3 DEF ProbeQueuedEvent, One
    <3> QED BY <3>1, <2>1 DEF Return, TypeOK
  <2>7. UNCHANGED <<timer, envVars, req, susVars, dlgVars, loopVars, stray>>
    BY <1>3 DEF ProbeQueuedEvent
  <2>8. target' \in Words /\ got' \in Events \cup {NoEvent} /\ call' \in Waits \cup Probes \cup {"none"}
    BY <2>6 DEF TypeOK, Words
  <2> QED BY <2>1, <2>3, <2>4, <2>5, <2>6, <2>7, <2>8, SMTT(20) DEF TypeOK
<1>4. ASSUME NEW f \in FepMoves, NEW ok \in AppendOutcomes, ProbeWservEvent(f, ok) PROVE TInv'
  <2> DEFINE e == IF f = "replace" THEN [incoming EXCEPT !.kind = "key"] ELSE incoming
  <2>1. /\ incoming \in Events /\ e \in Events /\ e.n \in Nat
        /\ pc = "probe" /\ wserv' = "pending"
    BY <1>4 DEF ProbeWservEvent, TakeWservEvent, TypeOK, Events, Kinds
  <2>2. queue' \in {queue, Append(queue, e)} /\ expiring' = expiring
    BY <1>4 DEF ProbeWservEvent
  <2>3. queue' \in Seq(Events) /\ expiring' \in 0..Len(queue')
    BY <1>b, <1>d, <2>1, <2>2
  <2>4. keya' \in {"none", "keys", "any"} /\ plain' \in Nat /\ last' \in Nat
    <3>1. keya' \in {keya, "none"} /\ last' \in {last, e.n}
      BY <1>4 DEF ProbeWservEvent
    <3>2. plain' \in {plain, plain + 1}
      BY <1>4 DEF ProbeWservEvent, One, TypeOK
    <3>3. keya \in {"none", "keys", "any"} /\ plain \in Nat /\ last \in Nat
      BY DEF TypeOK
    <3> QED BY <2>1, <3>1, <3>2, <3>3
  <2>5. word' \in [Words -> Status]
    BY <1>4, <1>0 DEF ProbeWservEvent, TypeOK
  <2>6. /\ sem' \in Int /\ backup' \in Nat /\ round' \in Nat /\ pc' \in {"probe", "run"}
        /\ call' \in {call, "none"} /\ target' \in {target, "keya"} /\ got' \in {got, NoEvent}
    <3>1. \E x \in {0, 1} : sem' = sem + backup - 1 + x
      BY <1>4 DEF ProbeWservEvent, One
    <3>2. /\ backup' = 0
          /\ \/ Return("run")
             \/ round' = round - 1 /\ UNCHANGED <<pc, call, target, got>>
          /\ round > 0
      BY <1>4 DEF ProbeWservEvent
    <3>3. sem' \in Int
      BY <3>1 DEF TypeOK
    <3>4. /\ round' \in Nat /\ pc' \in {"probe", "run"}
          /\ call' \in {call, "none"} /\ target' \in {target, "keya"} /\ got' \in {got, NoEvent}
      BY <2>1, <3>2, SMTT(20) DEF Return, TypeOK
    <3> QED BY <3>2, <3>3, <3>4
  <2>7. UNCHANGED <<timer, incoming, arrived, req, susVars, dlgVars, loopVars, stray>>
    BY <1>4 DEF ProbeWservEvent, TakeWservEvent
  <2>8. target' \in Words /\ got' \in Events \cup {NoEvent} /\ call' \in Waits \cup Probes \cup {"none"}
    BY <2>6 DEF TypeOK, Words
  <2> QED BY <2>1, <2>3, <2>4, <2>5, <2>6, <2>7, <2>8 DEF TypeOK
<1> QED BY <1>1, <1>2, <1>3, <1>4

\* What surrounds the waits: entering, leaving and returning.
LEMMA RestTInv ==
  TInv /\ (\/ TakePriorityKey \/ WaitWhileSuspended \/ PurgeNonKey \/ EnterLoop
           \/ ReturnFromWait \/ ReturnFromGetEvent \/ ReturnFromIoWaitStat
           \/ \E ok \in AppendOutcomes : ReturnFromPause(ok)
           \/ StartProbing \/ ProbeFindsNothing \/ DialogTakesSignal) => TInv'
<1> SUFFICES ASSUME TInv PROVE
      (\/ TakePriorityKey \/ WaitWhileSuspended \/ PurgeNonKey \/ EnterLoop
       \/ ReturnFromWait \/ ReturnFromGetEvent \/ ReturnFromIoWaitStat
       \/ \E ok \in AppendOutcomes : ReturnFromPause(ok)
       \/ StartProbing \/ ProbeFindsNothing \/ DialogTakesSignal) => TInv'
  OBVIOUS
<1> USE DEF TInv, DialogInv, envVars, qVars, reqVars, susVars, dlgVars, loopVars, ctlVars, ghost
<1>1. ASSUME TakePriorityKey \/ DialogTakesSignal PROVE TInv'
  <2>1. suspended' \in BOOLEAN /\ pkey' \in {pkey, "none"} /\ sem' \in Int /\ buffered' \in Nat
    <3>1. CASE TakePriorityKey
      BY <3>1 DEF TakePriorityKey, TypeOK
    <3>2. CASE DialogTakesSignal /\ pkey = "none"
      BY <3>2 DEF DialogTakesSignal, TypeOK
    <3>3. CASE DialogTakesSignal /\ pkey # "none"
      BY <3>3 DEF DialogTakesSignal, TypeOK
    <3> QED BY <1>1, <3>1, <3>2, <3>3
  <2> QED BY <1>1, <2>1, ZenonT(30) DEF TakePriorityKey, DialogTakesSignal, TypeOK
<1>2. ASSUME WaitWhileSuspended PROVE TInv'
  BY <1>2 DEF WaitWhileSuspended, StartWait, TypeOK, Waits
<1>3. ASSUME PurgeNonKey PROVE TInv'
  <2>1. queue' \in Seq(Events) /\ expiring' \in 0..Len(queue') /\ Len(queue) \in Nat
    BY <1>3, RemoveAtFact, LenProperties DEF PurgeNonKey, NonKeys, ExpiringAfterRemoval, One, TypeOK
  <2> QED BY <1>3, <2>1 DEF PurgeNonKey, TypeOK
<1>4. ASSUME EnterLoop PROVE TInv'
  BY <1>4 DEF EnterLoop, DummySignal, One, TypeOK
<1>5. ASSUME ReturnFromWait PROVE TInv'
  <2>1. got.n \in Nat
    BY DEF TypeOK, Events, NoEvent
  <2>2. last' \in Nat
    BY <1>5, <2>1 DEF ReturnFromWait, TypeOK
  <2>3. /\ pc' \in {"run", "enter"} /\ call' \in {"none", "suspended"}
        /\ target' \in {target, "keya"} /\ got' = NoEvent /\ round' \in Nat
    BY <1>5 DEF ReturnFromWait, Return, StartWait, TypeOK
  <2> QED BY <1>5, <2>2, <2>3 DEF ReturnFromWait, TypeOK, Waits, Words
<1>6. ASSUME ReturnFromGetEvent PROVE TInv'
  <2>1. got.n \in Nat
    BY DEF TypeOK, Events, NoEvent
  <2>2. last' \in Nat
    BY <1>6, <2>1 DEF ReturnFromGetEvent, TypeOK
  <2>3. /\ pc' \in {"run", "enter"} /\ call' \in {call, "none"}
        /\ target' \in {target, "keya"} /\ got' = NoEvent /\ round' \in Nat
    BY <1>6 DEF ReturnFromGetEvent, Return, TypeOK
  <2> QED BY <1>6, <2>2, <2>3 DEF ReturnFromGetEvent, TypeOK, Waits, Words
<1>7. ASSUME ReturnFromIoWaitStat PROVE TInv'
  <2>1. /\ pc' \in {"run", "enter"} /\ call' \in {call, "none"}
        /\ target' \in {target, "keya"} /\ got' = NoEvent /\ round' \in Nat
    BY <1>7 DEF ReturnFromIoWaitStat, Return, TypeOK
  <2>2. sem' \in Int /\ outer' \in Nat /\ plain' \in Nat
    BY <1>7 DEF ReturnFromIoWaitStat, TypeOK
  <2> QED BY <1>7, <2>1, <2>2 DEF ReturnFromIoWaitStat, TypeOK, Waits, Words
<1>8. ASSUME NEW ok \in AppendOutcomes, ReturnFromPause(ok) PROVE TInv'
  <2>1. queue' \in Seq(Events) /\ expiring' \in 0..Len(queue')
    <3>1. CASE got # NoEvent /\ ok
      BY <1>8, <3>1, AppendFact, LenProperties DEF ReturnFromPause, TypeOK
    <3>2. CASE ~(got # NoEvent /\ ok)
      BY <1>8, <3>2 DEF ReturnFromPause, TypeOK
    <3> QED BY <3>1, <3>2
  <2>2. sem' \in Int /\ pc' = "run" /\ call' = "none" /\ target' = "keya" /\ got' = NoEvent /\ round' = 0
    BY <1>8 DEF ReturnFromPause, Return, TypeOK, One
  <2> QED BY <1>8, <2>1, <2>2 DEF ReturnFromPause, TypeOK, Waits, Words
<1>9. ASSUME StartProbing PROVE TInv'
  BY <1>9 DEF StartProbing, TypeOK, WordsOfCompleted
<1>10. ASSUME ProbeFindsNothing PROVE TInv'
  BY <1>10 DEF ProbeFindsNothing, Return, TypeOK, Words
<1> QED BY <1>1, <1>2, <1>3, <1>4, <1>5, <1>6, <1>7, <1>8, <1>9, <1>10

LEMMA NextTInv == TInv /\ [Next]_vars => TInv'
<1>1. TInv /\ Loop => TInv'
  BY OffersTInv, EventsTInv, RestTInv DEF Loop
<1>2. TInv /\ UNCHANGED vars => TInv'
  BY DEF TInv, TypeOK, DialogInv, vars, envVars, qVars, reqVars, susVars, dlgVars, loopVars,
         ctlVars, ghost
<1> QED BY <1>1, <1>2, ProgramTInv, EnvironmentTInv DEF Next

\* The variables keep their types in every behaviour: in particular no count of the code
\* (events set aside, events that expire, signals to replace, dialogs) becomes negative.
THEOREM TypeCorrect == Spec => []TypeOK
<1>1. Spec => []TInv
  BY InitTInv, NextTInv, PTL DEF Spec
<1> QED BY <1>1, PTL DEF TInv
-----------------------------------------------------------------------------
(* The accounting of signals.                                              *)

\* Only a timed PAUSE has an additional source, and only until its wait ends.
SourceInv == source # "none" => TimedPause /\ pc \in {"enter", "wait"}

\* Both sides of the account, term by term: what a wait moves about without changing the sum,
\* and the things that have completed.
InWait     == sem + replace + backup - One(source = "done")
Ready      == One(wserv = "ready") + One(pkey # "none") + One(timer = "fired")
Dummy      == One(pc = "wait" /\ call \in Polls)
Queued     == Len(queue)
NCompleted == Cardinality(Completed)

AInv == TInv /\ SourceInv /\ SignalsAccounted

LEMMA CompletedFact == TypeOK => IsFiniteSet(Completed) /\ NCompleted \in Nat
BY RequestsAssumption, FS_Subset, FS_CardinalityType DEF Completed, NCompleted

Numbers == /\ InWait \in Int /\ outer \in Int /\ buffered \in Int
           /\ Queued \in Int /\ Ready \in Int /\ NCompleted \in Int /\ Dummy \in Int
           /\ plain \in Int /\ stray \in Int

Balance == InWait + outer + buffered = Queued + Ready + NCompleted + Dummy + plain + stray

LEMMA NumbersFact == TypeOK => Numbers
<1> SUFFICES ASSUME TypeOK PROVE Numbers
  OBVIOUS
<1>1. Queued \in Int /\ NCompleted \in Int
  BY CompletedFact, LenProperties DEF TypeOK, Queued
<1>2. InWait \in Int /\ Ready \in Int /\ Dummy \in Int
  BY DEF TypeOK, InWait, Ready, Dummy, One
<1> QED BY <1>1, <1>2 DEF TypeOK, Numbers

\* SignalsAccounted is the balance of the two sides.
LEMMA BalanceFact == TypeOK => (SignalsAccounted <=> Balance)
<1> SUFFICES ASSUME TypeOK PROVE SignalsAccounted <=> Balance
  OBVIOUS
<1> DEFINE a == One(wserv = "ready")
           b == One(pkey # "none")
           c == One(timer = "fired")
           d == One(source = "done")
           e == One(pc = "wait" /\ call \in Polls)
           f == Cardinality(Completed)
           l == Len(queue)
<1>1. a \in Int /\ b \in Int /\ c \in Int /\ d \in Int /\ e \in Int /\ f \in Int /\ l \in Int
  BY CompletedFact, NumbersFact DEF One, NCompleted, Numbers, Queued
<1>2. /\ sem \in Int /\ replace \in Nat /\ backup \in Nat /\ outer \in Nat /\ buffered \in Nat
      /\ plain \in Nat /\ stray \in Int
  BY DEF TypeOK
<1>3. SignalsAccounted
      <=> (sem + replace + outer + buffered = (l - backup) + a + f + b + c + d + e + plain + stray)
  BY DEF SignalsAccounted, Owed
<1>4. Balance <=> ((sem + replace + backup - d) + outer + buffered
                   = l + (a + b + c) + f + e + plain + stray)
  BY DEF Balance, InWait, Dummy, Ready, Queued, NCompleted
<1> HIDE DEF a, b, c, d, e, f, l
<1>5. (sem + replace + outer + buffered = (l - backup) + a + f + b + c + d + e + plain + stray)
      <=> ((sem + replace + backup - d) + outer + buffered = l + (a + b + c) + f + e + plain + stray)
  BY <1>1, <1>2
<1> QED BY <1>3, <1>4, <1>5

\* What a step has to show.
Step == TInv' /\ SourceInv' /\ Balance'

LEMMA StepFact ==
  AInv => /\ TypeOK /\ TInv /\ SourceInv /\ Numbers /\ Balance
          /\ (TInv' => TypeOK' /\ Numbers')
          /\ (Step => AInv')
<1> SUFFICES ASSUME AInv PROVE /\ TypeOK /\ TInv /\ SourceInv /\ Numbers /\ Balance
                               /\ (TInv' => TypeOK' /\ Numbers')
                               /\ (Step => AInv')
  OBVIOUS
<1>1. TypeOK /\ TInv /\ SourceInv /\ Numbers /\ Balance
  BY NumbersFact, BalanceFact DEF AInv, TInv
<1>2. TInv' => TypeOK' /\ Numbers'
  BY NumbersFact, PTL DEF TInv
<1>3. (TypeOK => (SignalsAccounted <=> Balance))'
  BY BalanceFact, PTL
<1>4. Step => AInv'
  BY <1>2, <1>3 DEF Step, AInv
<1> QED BY <1>1, <1>2, <1>4

\* A step that moves nothing.
LEMMA IdleFact ==
  ASSUME AInv, TInv', SourceInv', UNCHANGED <<sem, timer, wserv, queue, backup, req, pkey, buffered,
                                   source, replace, outer, plain, stray>>,
         pc # "wait", pc' # "wait"
  PROVE  AInv'
<1>1. Balance' <=> Balance
  BY DEF Balance, InWait, Ready, Dummy, Queued, NCompleted, Completed, One
<1> QED BY <1>1, StepFact DEF Step

LEMMA InitAInv == Init => AInv
<1> SUFFICES ASSUME Init PROVE AInv
  OBVIOUS
<1>1. TInv /\ TypeOK
  BY InitTInv DEF TInv
<1>2. Completed = {} /\ NCompleted = 0
  BY FS_EmptySet DEF Init, Completed, NCompleted
<1>3. Queued = 0
  BY EmptySeq DEF Init, Queued
<1>4. InWait = 0 /\ Ready = 0 /\ Dummy = 0 /\ plain = 0 /\ stray = 0 /\ outer = 0 /\ buffered = 0
  BY DEF Init, Ready, Dummy, One, InWait
<1>5. Balance
  BY <1>2, <1>3, <1>4 DEF Balance
<1>6. SourceInv
  BY DEF Init, SourceInv
<1> QED BY <1>1, <1>5, <1>6, BalanceFact DEF AInv

\* A request that completes is one more, and one that is collected one less.
LEMMA OneMoreCompleted ==
  ASSUME TypeOK, NEW r \in Requests, r \notin Completed, Completed' = Completed \cup {r}
  PROVE  NCompleted' = NCompleted + 1
BY CompletedFact, FS_AddElement DEF NCompleted

LEMMA OneLessCompleted ==
  ASSUME TypeOK, NEW r \in Completed, Completed' = Completed \ {r}
  PROVE  NCompleted' = NCompleted - 1
BY CompletedFact, FS_RemoveElement DEF NCompleted

LEMMA EnvironmentAInv == AInv /\ Environment => AInv'
<1> SUFFICES ASSUME AInv, Environment PROVE AInv'
  OBVIOUS
<1>1. /\ TypeOK /\ TInv' /\ SourceInv /\ Numbers /\ Balance /\ Numbers'
  BY EnvironmentTInv, StepFact
<1> USE DEF envVars, qVars, reqVars, susVars, dlgVars, loopVars, ctlVars, ghost
<1>2. SourceInv'
  BY <1>1 DEF Environment, SourceInv, TimedPause, WservEvent, RequestCompletes, PriorityKey,
         ShelfLifeExpires, PauseElapses
<1>3. ASSUME (\E k \in EventKinds : WservEvent(k)) \/ (\E k \in {"s", "q"} : PriorityKey(k))
             \/ ShelfLifeExpires
      PROVE  Balance'
  <2>1. InWait' = InWait + 1 /\ Ready' = Ready + 1 /\ Dummy' = Dummy
    <3>1. CASE \E k \in EventKinds : WservEvent(k)
      BY <1>1, <3>1 DEF WservEvent, InWait, Ready, Dummy, One, TypeOK
    <3>2. CASE \E k \in {"s", "q"} : PriorityKey(k)
      BY <1>1, <3>2 DEF PriorityKey, InWait, Ready, Dummy, One, TypeOK
    <3>3. CASE ShelfLifeExpires
      BY <1>1, <3>3 DEF ShelfLifeExpires, InWait, Ready, Dummy, One, TypeOK
    <3> QED BY <1>3, <3>1, <3>2, <3>3
  <2>2. Queued' = Queued /\ NCompleted' = NCompleted
    BY <1>3 DEF WservEvent, PriorityKey, ShelfLifeExpires, Queued, NCompleted, Completed
  <2>3. outer' = outer /\ buffered' = buffered /\ plain' = plain /\ stray' = stray
    BY <1>3 DEF WservEvent, PriorityKey, ShelfLifeExpires
  <2> QED BY <1>1, <2>1, <2>2, <2>3 DEF Balance, Numbers
<1>4. ASSUME NEW r \in Requests, RequestCompletes(r) PROVE Balance'
  <2>1. InWait' = InWait + 1 /\ Ready' = Ready /\ Dummy' = Dummy
    BY <1>1, <1>4 DEF RequestCompletes, InWait, Ready, Dummy, One, TypeOK
  <2>2. r \notin Completed /\ Completed' = Completed \cup {r}
    BY <1>1, <1>4 DEF RequestCompletes, Completed, TypeOK
  <2>3. NCompleted' = NCompleted + 1
    BY <1>1, <2>2, OneMoreCompleted
  <2>4. Queued' = Queued /\ outer' = outer /\ buffered' = buffered /\ plain' = plain /\ stray' = stray
    BY <1>4 DEF RequestCompletes, Queued
  <2> QED BY <1>1, <2>1, <2>3, <2>4 DEF Balance, Numbers
<1>5. ASSUME PauseElapses PROVE Balance'
  <2>1. InWait' = InWait /\ Ready' = Ready /\ Dummy' = Dummy
    BY <1>1, <1>5 DEF PauseElapses, InWait, Ready, Dummy, One, TypeOK
  <2>2. NCompleted' = NCompleted /\ Queued' = Queued
    BY <1>5 DEF PauseElapses, Queued, NCompleted, Completed
  <2>3. outer' = outer /\ buffered' = buffered /\ plain' = plain /\ stray' = stray
    BY <1>5 DEF PauseElapses
  <2> QED BY <1>1, <2>1, <2>2, <2>3 DEF Balance, Numbers
<1>6. Balance'
  BY <1>3, <1>4, <1>5 DEF Environment
<1> QED BY <1>1, <1>2, <1>6, StepFact DEF Step

\* Keywords: most of them move nothing.
LEMMA ProgramAInv == AInv /\ Program => AInv'
<1> SUFFICES ASSUME AInv, Program PROVE AInv'
  OBVIOUS
<1>1. /\ TypeOK /\ TInv /\ TInv' /\ SourceInv /\ Numbers /\ Balance /\ Numbers'
  BY ProgramTInv, StepFact
<1> USE DEF envVars, qVars, reqVars, susVars, dlgVars, loopVars, ctlVars, ghost
<1>2. ASSUME \/ Get \/ GetEvent \/ IoWait \/ IoYield \/ EventCheck \/ Key \/ TestEvent \/ ExecuteEnds
             \/ \E w \in Words : IoWaitStat(w)
             \/ \E k \in {"keys", "any"} : KeyA(k)
      PROVE  AInv'
  <2>1. /\ UNCHANGED <<sem, timer, wserv, queue, backup, req, pkey, buffered,
                       source, replace, outer, plain, stray>>
        /\ pc = "run" /\ pc' # "wait"
    BY <1>2 DEF Get, GetEvent, IoWait, IoYield, EventCheck, Key, TestEvent, ExecuteEnds, IoWaitStat, KeyA,
                Keyword, StartWait, StartProbe
  <2>2. SourceInv'
    BY <1>1, <2>1 DEF SourceInv
  <2> QED BY <1>1, <2>1, <2>2, IdleFact
<1>3. ASSUME NEW c \in {"pause_key", "pause_time", "pause_both"}, Pause(c) PROVE AInv'
  <2>1. source = "none" /\ source' # "done" /\ pc = "run" /\ pc' = "enter"
    BY <1>1, <1>3 DEF SourceInv, Pause, Keyword, StartWait
  <2>2. InWait' = InWait /\ Ready' = Ready /\ Dummy' = Dummy
    BY <1>1, <1>3, <2>1 DEF Pause, InWait, Ready, Dummy, One, TypeOK
  <2>3. /\ Queued' = Queued /\ NCompleted' = NCompleted
        /\ outer' = outer /\ buffered' = buffered /\ plain' = plain /\ stray' = stray
    BY <1>3 DEF Pause, Queued, NCompleted, Completed
  <2>4. Balance'
    BY <1>1, <2>2, <2>3 DEF Balance, Numbers
  <2>5. SourceInv'
    BY <1>3 DEF SourceInv, TimedPause, Pause, StartWait
  <2> QED BY <1>1, <2>4, <2>5, StepFact DEF Step
<1>4. ASSUME IoSignal \/ (\E r \in Requests : IocFails(r)) PROVE AInv'
  <2>1. InWait' = InWait + 1 /\ Ready' = Ready /\ Dummy' = Dummy /\ plain' = plain + 1
    <3>1. CASE IoSignal
      BY <1>1, <3>1 DEF IoSignal, InWait, Ready, Dummy, One, TypeOK
    <3>2. CASE \E r \in Requests : IocFails(r)
      BY <1>1, <3>2 DEF IocFails, InWait, Ready, Dummy, One, TypeOK
    <3> QED BY <1>4, <3>1, <3>2
  <2>2. /\ Queued' = Queued /\ NCompleted' = NCompleted
        /\ outer' = outer /\ buffered' = buffered /\ stray' = stray
    BY <1>4 DEF IoSignal, IocFails, Queued, NCompleted, Completed
  <2>3. Balance'
    BY <1>1, <2>1, <2>2 DEF Balance, Numbers
  <2>4. SourceInv'
    BY <1>1, <1>4 DEF SourceInv, TimedPause, IoSignal, IocFails
  <2> QED BY <1>1, <2>3, <2>4, StepFact DEF Step
<1>5. ASSUME NEW r \in Requests, Ioa(r) PROVE AInv'
  <2>1. r \notin Completed /\ pc = "run" /\ req[r] = "none"
    BY <1>5 DEF Ioa, Completed, Keyword
  <2>2. /\ Ready' = Ready /\ Dummy' = Dummy /\ Queued' = Queued
        /\ outer' = outer /\ buffered' = buffered /\ plain' = plain /\ stray' = stray
    BY <1>5 DEF Ioa, Ready, Dummy, Queued, One
  <2>3. ASSUME Prio[r] = 0 PROVE Balance'
    <3>1. InWait' = InWait + 1
      BY <1>1, <1>5, <2>3 DEF Ioa, InWait, One, TypeOK
    <3>2. Completed' = Completed \cup {r}
      BY <1>1, <1>5, <2>1, <2>3 DEF Ioa, Completed, TypeOK
    <3>3. NCompleted' = NCompleted + 1
      BY <1>1, <2>1, <3>2, OneMoreCompleted
    <3> QED BY <1>1, <2>2, <3>1, <3>3 DEF Balance, Numbers
  <2>4. ASSUME Prio[r] # 0 PROVE Balance'
    <3>1. InWait' = InWait
      BY <1>1, <1>5, <2>4 DEF Ioa, InWait, One, TypeOK
    <3>2. Completed' = Completed
      BY <1>1, <1>5, <2>1, <2>4 DEF Ioa, Completed, TypeOK
    <3>3. NCompleted' = NCompleted
      BY <3>2 DEF NCompleted
    <3> QED BY <1>1, <2>2, <3>1, <3>3 DEF Balance, Numbers
  <2>5. Balance'
    BY <2>3, <2>4
  <2>6. SourceInv'
    BY <1>1, <1>5 DEF SourceInv, TimedPause, Ioa
  <2> QED BY <1>1, <2>5, <2>6, StepFact DEF Step
<1>6. ASSUME NEW r \in Requests, NEW c \in Requests, IoCancel(r, c) PROVE AInv'
  <2>1. /\ c \notin Completed /\ pc = "run" /\ pc' = "enter" /\ r # c
        /\ req[r] \in {"pending", "completed"}
    BY <1>1, <1>6 DEF IoCancel, Completed, Keyword, StartWait, TypeOK
  <2>2. /\ Ready' = Ready /\ Dummy' = Dummy /\ Queued' = Queued
        /\ outer' = outer /\ buffered' = buffered /\ plain' = plain /\ stray' = stray
    BY <1>6, <2>1 DEF IoCancel, Ready, Dummy, Queued, One
  <2>3. ASSUME req[r] = "pending" PROVE Balance'
    <3>1. InWait' = InWait + 2
      BY <1>1, <1>6, <2>3 DEF IoCancel, InWait, One, TypeOK
    <3>2. Completed' = Completed \cup {r, c} /\ r \notin Completed
      BY <1>1, <1>6, <2>1, <2>3 DEF IoCancel, Completed, TypeOK
    <3>3. NCompleted' = NCompleted + 2
      <4>1. /\ IsFiniteSet(Completed \cup {r})
            /\ Cardinality(Completed \cup {r}) = Cardinality(Completed) + 1
        BY <1>1, <3>2, CompletedFact, FS_AddElement
      <4>2. /\ c \notin Completed \cup {r}
            /\ Completed' = (Completed \cup {r}) \cup {c}
        BY <2>1, <3>2
      <4>3. Cardinality(Completed') = Cardinality(Completed \cup {r}) + 1
        BY <4>1, <4>2, FS_AddElement
      <4>4. Cardinality(Completed) \in Int
        BY <1>1 DEF Numbers, NCompleted
      <4> QED BY <4>1, <4>3, <4>4 DEF NCompleted
    <3> QED BY <1>1, <2>2, <3>1, <3>3 DEF Balance, Numbers
  <2>4. ASSUME req[r] = "completed" PROVE Balance'
    <3>1. InWait' = InWait + 1
      BY <1>1, <1>6, <2>4 DEF IoCancel, InWait, One, TypeOK
    <3>2. Completed' = Completed \cup {c}
      BY <1>1, <1>6, <2>1, <2>4 DEF IoCancel, Completed, TypeOK
    <3>3. NCompleted' = NCompleted + 1
      BY <1>1, <2>1, <3>2, OneMoreCompleted
    <3> QED BY <1>1, <2>2, <3>1, <3>3 DEF Balance, Numbers
  <2>5. Balance'
    BY <2>1, <2>3, <2>4
  <2>6. SourceInv'
    BY <1>1, <1>6, <2>1 DEF SourceInv, TimedPause, IoCancel
  <2> QED BY <1>1, <2>5, <2>6, StepFact DEF Step
<1>7. ASSUME KeyC PROVE AInv'
  <2>1. /\ Ready' = Ready /\ Dummy' = Dummy /\ Queued' = Queued /\ NCompleted' = NCompleted
        /\ outer' = outer /\ buffered' = buffered /\ stray' = stray
    BY <1>7 DEF KeyC, Ready, Dummy, Queued, One, NCompleted, Completed
  <2>2. \/ InWait' = InWait /\ plain' = plain
        \/ InWait' = InWait - 1 /\ plain' = plain - 1
    <3>1. source' = source /\ replace' = replace /\ backup' = backup
      BY <1>7 DEF KeyC
    <3>2. (sem' = sem /\ plain' = plain) \/ (sem' = sem - 1 /\ plain' = plain - 1)
      BY <1>7 DEF KeyC
    <3>3. CASE sem' = sem /\ plain' = plain
      BY <3>1, <3>3 DEF InWait
    <3>4. CASE sem' = sem - 1 /\ plain' = plain - 1
      BY <1>1, <3>1, <3>4 DEF InWait, One, TypeOK
    <3> QED BY <3>2, <3>3, <3>4
  <2>3. Balance'
    BY <1>1, <2>1, <2>2 DEF Balance, Numbers
  <2>4. SourceInv'
    BY <1>1, <1>7 DEF SourceInv, TimedPause, KeyC
  <2> QED BY <1>1, <2>3, <2>4, StepFact DEF Step
<1>8. ASSUME StartDialog PROVE AInv'
  <2>1. /\ NCompleted' = NCompleted /\ Dummy = 0 /\ Dummy' = 0
        /\ outer' = outer /\ buffered' = buffered /\ plain' = plain /\ stray' = stray
    BY <1>8 DEF StartDialog, Dummy, One, NCompleted, Completed
  <2>2. ASSUME nest = 0 /\ pc = "run" PROVE Balance'
    <3>1. Queued' = 0 /\ wserv' = "idle" /\ timer' = "off" /\ sem' = sem - Withdrawn
          /\ UNCHANGED <<pkey, backup, replace, source>>
      BY <1>8, <2>2, EmptySeq DEF StartDialog, Queued
    <3>2. Ready' = Ready - One(wserv = "ready") - One(timer = "fired")
      BY <3>1 DEF Ready, One
    <3>3. InWait' = InWait - Queued - One(timer = "fired") - One(wserv = "ready")
      <4> DEFINE t == One(timer = "fired")
                 w == One(wserv = "ready")
                 x == replace + backup - One(source = "done")
      <4>1. t \in Int /\ w \in Int /\ x \in Int /\ sem \in Int /\ Queued \in Int
        BY <1>1 DEF One, TypeOK, Numbers
      <4>2. InWait = sem + x
        BY <1>1 DEF InWait, TypeOK, One
      <4>3. InWait' = (sem - (Queued + t + w)) + x
        BY <1>1, <3>1 DEF InWait, TypeOK, One, Withdrawn, Queued
      <4> HIDE DEF t, w, x
      <4>4. InWait' = InWait - Queued - t - w
        BY <4>1, <4>2, <4>3
      <4> QED BY <4>4 DEF t, w
    <3>4. One(timer = "fired") \in Int /\ One(wserv = "ready") \in Int
      BY DEF One
    <3> QED BY <1>1, <2>1, <3>1, <3>2, <3>3, <3>4 DEF Balance, Numbers
  <2>3. ASSUME ~(nest = 0 /\ pc = "run") PROVE Balance'
    <3>1. InWait' = InWait /\ Ready' = Ready /\ Queued' = Queued
      BY <1>8, <2>3 DEF StartDialog, InWait, Ready, Queued, One
    <3> QED BY <1>1, <2>1, <3>1 DEF Balance, Numbers
  <2>4. Balance'
    BY <2>2, <2>3
  <2>5. SourceInv'
    BY <1>1, <1>8 DEF SourceInv, TimedPause, StartDialog
  <2> QED BY <1>1, <2>4, <2>5, StepFact DEF Step
<1>9. ASSUME StopDialog PROVE AInv'
  <2>1. /\ NCompleted' = NCompleted /\ Dummy = 0 /\ Dummy' = 0 /\ Queued' = Queued
        /\ outer' = outer /\ plain' = plain /\ stray' = stray
    BY <1>9 DEF StopDialog, Dummy, One, NCompleted, Completed, Queued
  <2>2. wserv = "idle" /\ timer = "off"
    BY <1>1, <1>9 DEF StopDialog, TInv, DialogInv
  <2>3. Ready' = Ready
    BY <1>9, <2>2 DEF StopDialog, Ready, One
  <2>4. \/ InWait' = InWait + buffered /\ buffered' = 0
        \/ InWait' = InWait /\ buffered' = buffered
    <3>1. source' = source /\ replace' = replace /\ backup' = backup
      BY <1>9 DEF StopDialog
    <3>2. \/ sem' = sem + buffered /\ buffered' = 0
          \/ sem' = sem /\ buffered' = buffered
      BY <1>9 DEF StopDialog
    <3> QED BY <1>1, <3>1, <3>2, SMTT(20) DEF InWait, One, TypeOK
  <2>5. Balance'
    <3> DEFINE i == InWait
               j == InWait'
               c == buffered'
    <3>1. i \in Int /\ j \in Int /\ c \in Int /\ buffered \in Int /\ outer \in Int
      BY <1>1 DEF Numbers
    <3>2. (j = i + buffered /\ c = 0) \/ (j = i /\ c = buffered)
      BY <2>4
    <3> HIDE DEF i, j, c
    <3>3. j + outer + c = i + outer + buffered
      BY <3>1, <3>2
    <3>4. InWait' + outer' + buffered' = InWait + outer + buffered
      BY <2>1, <3>3 DEF i, j, c
    <3> QED BY <1>1, <2>1, <2>3, <3>4 DEF Balance
  <2>6. SourceInv'
    BY <1>1, <1>9 DEF SourceInv, TimedPause, StopDialog
  <2> QED BY <1>1, <2>5, <2>6, StepFact DEF Step
<1> QED BY <1>2, <1>3, <1>4, <1>5, <1>6, <1>7, <1>8, <1>9 DEF Program

\* The waits: what an iteration of the loop moves about is put back where its wait ends.
LEMMA OffersAInv ==
  AInv /\ (\/ PollEnds \/ OfferToPriorityKeyHandler \/ OfferToAdditionalSource
           \/ OfferToQueueTimer \/ OfferToFinalFunction
           \/ \E r \in Requests : OfferToOplAsynchronousRequest(r)) => AInv'
<1> SUFFICES ASSUME AInv, TInv' PROVE
      (\/ PollEnds \/ OfferToPriorityKeyHandler \/ OfferToAdditionalSource
       \/ OfferToQueueTimer \/ OfferToFinalFunction
       \/ \E r \in Requests : OfferToOplAsynchronousRequest(r)) => AInv'
  BY StepFact, OffersTInv
<1>1. TypeOK /\ TInv /\ SourceInv /\ Numbers /\ Balance /\ Numbers'
  BY StepFact
<1> USE DEF envVars, qVars, reqVars, susVars, dlgVars, loopVars, ctlVars, ghost
<1>2. ASSUME PollEnds PROVE AInv'
  <2>1. InWait' = InWait - 1
    BY <1>1, <1>2 DEF PollEnds, FinishWith, GivenBack, InWait, One, TypeOK
  <2>2. Dummy = 1 /\ Dummy' = 0
    BY <1>2 DEF PollEnds, FinishWith, Dummy, One, PollIsOver
  <2>3. /\ Ready' = Ready /\ Queued' = Queued /\ NCompleted' = NCompleted
        /\ outer' = outer /\ buffered' = buffered /\ plain' = plain /\ stray' = stray
    BY <1>2 DEF PollEnds, Ready, Queued, NCompleted, Completed, One
  <2>4. Balance'
    BY <1>1, <2>1, <2>2, <2>3 DEF Balance, Numbers
  <2>5. SourceInv'
    BY <1>2 DEF PollEnds, FinishWith, SourceInv
  <2> QED BY <1>1, <2>4, <2>5, StepFact DEF Step
<1>3. ASSUME OfferToPriorityKeyHandler PROVE AInv'
  <2>1. /\ Queued' = Queued /\ NCompleted' = NCompleted
        /\ outer' = outer /\ buffered' = buffered /\ plain' = plain /\ stray' = stray
    BY <1>3 DEF OfferToPriorityKeyHandler, Queued, NCompleted, Completed
  <2>2. Ready' = Ready - 1
    BY <1>1, <1>3 DEF OfferToPriorityKeyHandler, Ready, One
  <2>3. pc = "wait" /\ call' = call
    BY <1>3 DEF OfferToPriorityKeyHandler, Iterate
  <2>4. InWait' = InWait - 1 /\ Dummy' = Dummy /\ SourceInv'
    <3>1. CASE LooksAgain
      <4>1. /\ sem' = sem - 1 + replace + backup /\ replace' = 0 /\ backup' = 0
            /\ source' = source /\ pc' = pc
        BY <1>3, <3>1 DEF OfferToPriorityKeyHandler, EndIteration
      <4> QED BY <1>1, <2>3, <4>1 DEF InWait, Dummy, One, TypeOK, SourceInv, TimedPause
    <3>2. CASE ~LooksAgain /\ ~(pkey = "q" /\ EndedByResuming)
      <4>1. /\ sem' = sem - 1 /\ replace' = replace /\ backup' = backup
            /\ source' = source /\ pc' = pc
        BY <1>3, <3>2 DEF OfferToPriorityKeyHandler, EndIteration
      <4> QED BY <1>1, <2>3, <4>1 DEF InWait, Dummy, One, TypeOK, SourceInv, TimedPause
    <3>3. CASE ~LooksAgain /\ pkey = "q" /\ EndedByResuming
      <4>1. /\ sem' = sem - 1 + (replace + backup - One(source = "done"))
            /\ replace' = 0 /\ backup' = 0 /\ source' = "none" /\ pc' = "leave"
        BY <1>3, <3>3 DEF OfferToPriorityKeyHandler, EndIteration, FinishWith, GivenBack
      <4>2. call \notin Polls
        BY <1>1, <3>3 DEF EndedByResuming, SourceInv, TimedPause, Polls
      <4> QED BY <1>1, <2>3, <4>1, <4>2 DEF InWait, Dummy, One, TypeOK, SourceInv
    <3> QED BY <3>1, <3>2, <3>3
  <2>5. Balance'
    BY <1>1, <2>1, <2>2, <2>4 DEF Balance, Numbers
  <2> QED BY <1>1, <2>4, <2>5, StepFact DEF Step
<1>4. ASSUME OfferToAdditionalSource PROVE AInv'
  <2>1. /\ Ready' = Ready /\ Queued' = Queued /\ NCompleted' = NCompleted
        /\ outer' = outer /\ buffered' = buffered /\ plain' = plain /\ stray' = stray
    BY <1>4 DEF OfferToAdditionalSource, Ready, Queued, NCompleted, Completed, One
  <2>2. source = "done" /\ pc = "wait" /\ call' = call
    BY <1>4 DEF OfferToAdditionalSource, Offer, Iterate, Handler
  <2>3. TimedPause /\ call \notin Polls
    BY <1>1, <2>2 DEF SourceInv, TimedPause, Polls
  <2>4. InWait' = InWait /\ Dummy' = Dummy /\ SourceInv'
    <3>1. CASE suspended
      <4>1. /\ sem' = sem - 1 /\ replace' = replace /\ backup' = backup
            /\ source' = "consumed" /\ pc' = pc
        BY <1>4, <3>1 DEF OfferToAdditionalSource, EndIteration
      <4> QED BY <1>1, <2>2, <2>3, <4>1 DEF InWait, Dummy, One, TypeOK, SourceInv, TimedPause
    <3>2. CASE ~suspended
      <4>1. /\ sem' = sem - 1 + (replace + backup - One("consumed" = "done"))
            /\ replace' = 0 /\ backup' = 0 /\ source' = "none" /\ pc' = "leave"
        BY <1>4, <3>2 DEF OfferToAdditionalSource, EndIteration, FinishWith, GivenBack
      <4> QED BY <1>1, <2>2, <2>3, <4>1 DEF InWait, Dummy, One, TypeOK, SourceInv
    <3> QED BY <3>1, <3>2
  <2>5. Balance'
    BY <1>1, <2>1, <2>4 DEF Balance, Numbers
  <2> QED BY <1>1, <2>4, <2>5, StepFact DEF Step
<1>5. ASSUME OfferToQueueTimer PROVE AInv'
  <2>1. /\ Queued' = Queued - expiring /\ expiring \in Nat
    BY <1>1, <1>5, SuffixFact, LenProperties DEF OfferToQueueTimer, TypeOK, Queued
  <2>2. Ready' = Ready - 1
    BY <1>1, <1>5 DEF OfferToQueueTimer, Offer, Handler, Ready, One
  <2>3. ExpiringInBackup \in Nat /\ stray' = stray + ExpiringInBackup
    BY <1>1, <1>5, <2>1 DEF OfferToQueueTimer, TypeOK, ExpiringInBackup
  <2>4. /\ sem' = sem - 1 - (expiring - ExpiringInBackup)
        /\ replace' = replace /\ backup' = backup /\ source' = source /\ pc' = pc /\ call' = call
    BY <1>5 DEF OfferToQueueTimer, EndIteration
  <2>5. InWait' = InWait - 1 - (expiring - ExpiringInBackup) /\ Dummy' = Dummy /\ SourceInv'
    BY <1>1, <2>1, <2>3, <2>4 DEF InWait, Dummy, One, TypeOK, SourceInv, TimedPause
  <2>6. /\ NCompleted' = NCompleted /\ outer' = outer /\ buffered' = buffered /\ plain' = plain
    BY <1>5 DEF OfferToQueueTimer, NCompleted, Completed
  <2>7. Balance'
    BY <1>1, <2>1, <2>2, <2>3, <2>5, <2>6 DEF Balance, Numbers
  <2> QED BY <1>1, <2>5, <2>7, StepFact DEF Step
<1>6. ASSUME OfferToFinalFunction PROVE AInv'
  <2>1. /\ Ready' = Ready /\ Queued' = Queued /\ NCompleted' = NCompleted
        /\ outer' = outer /\ buffered' = buffered
    BY <1>6 DEF OfferToFinalFunction, Ready, Queued, NCompleted, Completed, One
  <2>2. pc = "wait" /\ call' = call /\ (Collects => call \notin Polls)
    BY <1>6 DEF OfferToFinalFunction, Offer, Iterate, Collects, WantsOpl, Polls
  <2>3. ASSUME call \in Polls \/ Collects
        PROVE  /\ InWait' = InWait - 1 /\ Dummy' = 0 /\ SourceInv'
               /\ plain' + stray' = plain + stray - One(Collects)
    <3>1. /\ sem' = sem - 1 + ((replace + 0) + backup - One(source = "done"))
          /\ replace' = 0 /\ backup' = 0 /\ source' = "none" /\ pc' = "leave"
      BY <1>6, <2>2, <2>3 DEF OfferToFinalFunction, EndIteration, FinishWith, GivenBack, One
    <3>2. InWait' = InWait - 1 /\ Dummy' = 0 /\ SourceInv'
      BY <1>1, <2>2, <3>1 DEF InWait, Dummy, One, TypeOK, SourceInv
    <3>3. plain' + stray' = plain + stray - One(Collects)
      BY <1>1, <1>6 DEF OfferToFinalFunction, One, TypeOK
    <3> QED BY <3>2, <3>3
  <2>4. ASSUME ~(call \in Polls \/ Collects)
        PROVE  /\ InWait' = InWait /\ Dummy' = 0 /\ SourceInv' /\ plain' = plain /\ stray' = stray
    <3>1. /\ sem' = sem - 1 /\ replace' = replace + 1 /\ backup' = backup
          /\ source' = source /\ pc' = pc
      BY <1>6, <2>4 DEF OfferToFinalFunction, EndIteration, One
    <3>2. plain' = plain /\ stray' = stray
      BY <1>1, <1>6, <2>4 DEF OfferToFinalFunction, One, TypeOK
    <3> QED BY <1>1, <2>2, <2>4, <3>1, <3>2 DEF InWait, Dummy, One, TypeOK, SourceInv, TimedPause
  <2>5. Dummy = One(call \in Polls)
    BY <2>2 DEF Dummy, One
  <2>6. Balance'
    <3> DEFINE i == InWait
               j == InWait'
               q == Queued + Ready + NCompleted
               d == Dummy
               u == plain'
               v == stray'
    <3>1. ASSUME call \in Polls \/ Collects PROVE Balance'
      <4>1. /\ i \in Int /\ j \in Int /\ q \in Int /\ d \in Int /\ u \in Int /\ v \in Int
            /\ plain \in Int /\ stray \in Int /\ outer \in Int /\ buffered \in Int
        BY <1>1 DEF Numbers
      <4>2. j = i - 1 /\ Dummy' = 0 /\ u + v = plain + stray - One(Collects)
        BY <2>3, <3>1
      <4>3. i + outer + buffered = q + d + plain + stray
        BY <1>1 DEF Balance
      <4>4. (d = 1 /\ One(Collects) = 0) \/ (d = 0 /\ One(Collects) = 1)
        BY <2>2, <2>5, <3>1 DEF One
      <4> HIDE DEF i, j, q, d, u, v
      <4>5. j + outer + buffered = q + 0 + u + v
        BY <4>1, <4>2, <4>3, <4>4
      <4>6. Balance' <=> j + outer + buffered = q + 0 + u + v
        BY <2>1, <4>2 DEF Balance, j, q, u, v
      <4> QED BY <4>5, <4>6
    <3>3. CASE ~(call \in Polls \/ Collects)
      <4>1. Dummy = 0
        BY <2>5, <3>3 DEF One
      <4> QED BY <1>1, <2>1, <2>4, <3>3, <4>1 DEF Balance, Numbers
    <3> QED BY <3>1, <3>3
  <2> QED BY <1>1, <2>3, <2>4, <2>6, StepFact DEF Step
<1>7. ASSUME NEW r \in Requests, OfferToOplAsynchronousRequest(r) PROVE AInv'
  <2>1. /\ Ready' = Ready /\ Queued' = Queued
        /\ outer' = outer /\ buffered' = buffered /\ plain' = plain /\ stray' = stray
    BY <1>7 DEF OfferToOplAsynchronousRequest, Ready, Queued, One
  <2>2. /\ r \in Completed /\ pc = "wait" /\ call' = call /\ (Collects => call \notin Polls)
    BY <1>7 DEF OfferToOplAsynchronousRequest, Offer, Iterate, Collects, WantsOpl, Polls, TopRequests
  <2>3. ASSUME ~Collects PROVE AInv'
    <3>1. /\ sem' = sem - 1 /\ replace' = replace + 1 /\ backup' = backup
          /\ source' = source /\ pc' = pc /\ req' = req
      BY <1>7, <2>3 DEF OfferToOplAsynchronousRequest, EndIteration
    <3>2. InWait' = InWait /\ Dummy' = Dummy /\ SourceInv'
      BY <1>1, <2>2, <3>1 DEF InWait, Dummy, One, TypeOK, SourceInv, TimedPause
    <3>3. NCompleted' = NCompleted
      BY <3>1 DEF NCompleted, Completed
    <3>4. Balance'
      BY <1>1, <2>1, <3>2, <3>3 DEF Balance, Numbers
    <3> QED BY <1>1, <3>2, <3>4, StepFact DEF Step
  <2>4. ASSUME Collects PROVE AInv'
    <3>1. /\ sem' = sem - 1 + (replace + backup - One(source = "done"))
          /\ replace' = 0 /\ backup' = 0 /\ source' = "none" /\ pc' = "leave"
          /\ req' = [req EXCEPT ![r] = "none"]
      BY <1>7, <2>4 DEF OfferToOplAsynchronousRequest, EndIteration, FinishWith, GivenBack
    <3>2. InWait' = InWait - 1 /\ Dummy' = Dummy /\ SourceInv'
      BY <1>1, <2>2, <2>4, <3>1 DEF InWait, Dummy, One, TypeOK, SourceInv
    <3>3. Completed' = Completed \ {r}
      BY <1>1, <3>1 DEF Completed, TypeOK
    <3>4. NCompleted' = NCompleted - 1
      BY <1>1, <2>2, <3>3, OneLessCompleted
    <3>5. Balance'
      BY <1>1, <2>1, <3>2, <3>4 DEF Balance, Numbers
    <3> QED BY <1>1, <3>2, <3>5, StepFact DEF Step
  <2> QED BY <2>3, <2>4
<1> QED BY <1>2, <1>3, <1>4, <1>5, <1>6, <1>7

\* Events offered to a wait or to IsEventReady.
LEMMA EventsAInv ==
  AInv /\ (\/ OfferQueuedEvent \/ ProbeQueuedEvent
           \/ \E f \in FepMoves, ok \in AppendOutcomes :
                OfferWservEvent(f, ok) \/ ProbeWservEvent(f, ok)) => AInv'
<1> SUFFICES ASSUME AInv, TInv' PROVE
      (\/ OfferQueuedEvent \/ ProbeQueuedEvent
       \/ \E f \in FepMoves, ok \in AppendOutcomes :
            OfferWservEvent(f, ok) \/ ProbeWservEvent(f, ok)) => AInv'
  BY StepFact, EventsTInv
<1>1. TypeOK /\ TInv /\ SourceInv /\ Numbers /\ Balance /\ Numbers'
  BY StepFact
<1>2. queue \in Seq(Events) /\ Len(queue) \in Nat /\ backup \in Nat
  BY <1>1, LenProperties DEF TypeOK
<1> USE DEF envVars, qVars, reqVars, susVars, dlgVars, loopVars, ctlVars, ghost
<1>3. ASSUME NEW e \in Events PROVE Len(Append(queue, e)) = Queued + 1
  BY <1>2, AppendFact DEF Queued
<1>4. ASSUME Len(queue) > backup PROVE Len(RemoveAt(queue, backup + 1)) = Queued - 1
  BY <1>2, <1>4, RemoveAtFact DEF Queued
<1>5. ASSUME OfferQueuedEvent PROVE AInv'
  <2> DEFINE e         == queue[backup + 1]
             matches   == ~suspended /\ Matches(call, e)
             completes == ~suspended /\ ~matches /\ CompletesKeya(e)
  <2>1. /\ pc = "wait" /\ call' = call /\ Len(queue) > backup
        /\ Ready' = Ready /\ NCompleted' = NCompleted
        /\ outer' = outer /\ buffered' = buffered /\ stray' = stray
        /\ plain' = plain + One(completes)
    BY <1>5 DEF OfferQueuedEvent, Offer, Iterate, Ready, NCompleted, Completed, One, AnswerKeya
  <2>2. matches \/ WantsOpl(call) => call \notin Polls
    BY DEF Matches, AnyEvent, KeysOnly, WantsOpl, Polls
  <2>3. ASSUME matches \/ completes
        PROVE  /\ InWait' = InWait - 1 + One(completes) /\ Dummy' = Dummy /\ SourceInv'
               /\ Queued' = Queued - 1
    <3>1. EndIteration(matches \/ WantsOpl(call), sem - 1 + One(completes), source, replace, backup)
          /\ queue' = RemoveAt(queue, backup + 1)
      BY <1>5, <2>3 DEF OfferQueuedEvent
    <3>2. Queued' = Queued - 1
      BY <1>4, <2>1, <3>1 DEF Queued
    <3>3. One(completes) \in Int
      BY DEF One
    <3> HIDE DEF completes, matches
    <3>4. ASSUME matches \/ WantsOpl(call)
          PROVE InWait' = InWait - 1 + One(completes) /\ Dummy' = Dummy /\ SourceInv'
      <4>1. /\ sem' = (sem - 1 + One(completes)) + (replace + backup - One(source = "done"))
            /\ replace' = 0 /\ backup' = 0 /\ source' = "none" /\ pc' = "leave"
        BY <3>1, <3>4 DEF EndIteration, FinishWith, GivenBack
      <4> QED BY <1>1, <2>1, <2>2, <3>3, <3>4, <4>1 DEF InWait, Dummy, One, TypeOK, SourceInv
    <3>5. ASSUME ~(matches \/ WantsOpl(call))
          PROVE InWait' = InWait - 1 + One(completes) /\ Dummy' = Dummy /\ SourceInv'
      <4>1. /\ sem' = (sem - 1 + One(completes)) /\ replace' = replace /\ backup' = backup
            /\ source' = source /\ pc' = pc
        BY <3>1, <3>5 DEF EndIteration
      <4> QED BY <1>1, <2>1, <3>3, <4>1 DEF InWait, Dummy, One, TypeOK, SourceInv, TimedPause
    <3> QED BY <3>2, <3>4, <3>5
  <2>4. ASSUME ~(matches \/ completes)
        PROVE  /\ InWait' = InWait /\ Dummy' = Dummy /\ SourceInv' /\ Queued' = Queued
               /\ One(completes) = 0
    <3>1. sem' = sem - 1 /\ backup' = backup + 1 /\ UNCHANGED <<queue, source, replace, pc>>
      BY <1>5, <2>4 DEF OfferQueuedEvent
    <3>2. One(completes) = 0
      BY <2>4 DEF One
    <3> HIDE DEF completes, matches
    <3> QED BY <1>1, <2>1, <3>1, <3>2 DEF InWait, Dummy, One, TypeOK, SourceInv, TimedPause, Queued
  <2>5. One(completes) \in Int
    BY DEF One
  <2> HIDE DEF completes, matches, e
  <2>6. Balance'
    <3> DEFINE x == One(completes)
    <3>1. x \in Int /\ plain' = plain + x
      BY <2>1, <2>5
    <3>2. ASSUME matches \/ completes PROVE Balance'
      <4>1. InWait' = InWait - 1 + x /\ Dummy' = Dummy /\ Queued' = Queued - 1
        BY <2>3, <3>2
      <4> HIDE DEF x
      <4> QED BY <1>1, <2>1, <3>1, <4>1 DEF Balance, Numbers
    <3>3. ASSUME ~(matches \/ completes) PROVE Balance'
      <4>1. InWait' = InWait /\ Dummy' = Dummy /\ Queued' = Queued /\ x = 0
        BY <2>4, <3>3
      <4> HIDE DEF x
      <4> QED BY <1>1, <2>1, <3>1, <4>1 DEF Balance, Numbers
    <3> QED BY <3>2, <3>3
  <2> QED BY <1>1, <2>3, <2>4, <2>6, StepFact DEF Step
<1>6. ASSUME NEW f \in FepMoves, NEW ok \in AppendOutcomes, OfferWservEvent(f, ok) PROVE AInv'
  <2> DEFINE e         == IF f = "replace" THEN [incoming EXCEPT !.kind = "key"] ELSE incoming
             offered   == f = "pass" /\ ~suspended
             matches   == offered /\ Matches(call, e)
             completes == offered /\ ~matches /\ CompletesKeya(e)
             appends   == ok /\ f # "eat" /\ ~matches /\ ~completes
             done      == matches \/ (completes /\ WantsOpl(call))
             x         == One(completes \/ appends)
  <2>1. /\ incoming \in Events /\ e \in Events /\ pc = "wait" /\ call' = call
        /\ wserv = "ready" /\ wserv' = "pending" /\ UNCHANGED <<pkey, timer>>
    BY <1>1, <1>6 DEF OfferWservEvent, TakeWservEvent, Offer, Iterate, TypeOK, Events, Kinds
  <2>2. Ready' = Ready - 1
    BY <2>1 DEF Ready, One
  <2>3. /\ NCompleted' = NCompleted /\ outer' = outer /\ buffered' = buffered /\ stray' = stray
        /\ plain' = plain + One(completes)
    BY <1>6 DEF OfferWservEvent, NCompleted, Completed, AnswerKeya
  <2>4. done => call \notin Polls
    BY DEF Matches, AnyEvent, KeysOnly, WantsOpl, Polls
  <2>5. EndIteration(done, sem - 1 + x, source, replace, backup)
    BY <1>6 DEF OfferWservEvent
  <2>6. Queued' = Queued + One(appends)
    <3>1. CASE appends
      BY <1>3, <1>6, <2>1, <3>1 DEF OfferWservEvent, Queued, One
    <3>2. CASE ~appends
      BY <1>1, <1>6, <3>2 DEF OfferWservEvent, Queued, One, Numbers
    <3> QED BY <3>1, <3>2
  <2>7. /\ One(completes) \in Int /\ One(appends) \in Int /\ x \in Int
        /\ x = One(completes) + One(appends)
    BY DEF One
  <2> HIDE DEF e, offered, matches, completes, appends, done, x
  <2>8. InWait' = InWait - 1 + x /\ Dummy' = Dummy /\ SourceInv'
    <3>1. CASE done
      <4>1. /\ sem' = (sem - 1 + x) + (replace + backup - One(source = "done"))
            /\ replace' = 0 /\ backup' = 0 /\ source' = "none" /\ pc' = "leave"
        BY <2>5, <3>1 DEF EndIteration, FinishWith, GivenBack
      <4> QED BY <1>1, <2>1, <2>4, <2>7, <3>1, <4>1 DEF InWait, Dummy, One, TypeOK, SourceInv
    <3>2. CASE ~done
      <4>1. /\ sem' = (sem - 1 + x) /\ replace' = replace /\ backup' = backup
            /\ source' = source /\ pc' = pc
        BY <2>5, <3>2 DEF EndIteration
      <4> QED BY <1>1, <2>1, <2>7, <4>1 DEF InWait, Dummy, One, TypeOK, SourceInv, TimedPause
    <3> QED BY <3>1, <3>2
  <2>9. Balance'
    <3> DEFINE y == One(completes)
               z == One(appends)
    <3>1. /\ y \in Int /\ z \in Int /\ InWait' = InWait - 1 + (y + z)
          /\ Queued' = Queued + z /\ plain' = plain + y /\ Dummy' = Dummy
      BY <2>3, <2>6, <2>7, <2>8
    <3> HIDE DEF y, z
    <3> QED BY <1>1, <2>2, <2>3, <3>1 DEF Balance, Numbers
  <2> QED BY <1>1, <2>8, <2>9, StepFact DEF Step
<1>7. ASSUME ProbeQueuedEvent PROVE AInv'
  <2> DEFINE e         == queue[backup + 1]
             completes == CompletesKeya(e)
             found     == ~completes /\ Matches(call, e)
             takes     == completes \/ (found /\ TakesWhatItFinds(call))
  <2>1. /\ pc = "probe" /\ pc' # "wait" /\ Len(queue) > backup
        /\ source' = source /\ replace' = replace
        /\ Ready' = Ready /\ NCompleted' = NCompleted
        /\ outer' = outer /\ buffered' = buffered /\ stray' = stray
        /\ plain' = plain + One(completes)
    BY <1>7 DEF ProbeQueuedEvent, Ready, NCompleted, Completed, One, Return
  <2>2. Dummy = 0 /\ Dummy' = 0
    BY <2>1 DEF Dummy, One
  <2>3. Queued' = Queued - One(takes)
    <3>1. CASE takes
      BY <1>4, <1>7, <2>1, <3>1 DEF ProbeQueuedEvent, Queued, One
    <3>2. CASE ~takes
      BY <1>1, <1>7, <3>2 DEF ProbeQueuedEvent, Queued, One, Numbers
    <3> QED BY <3>1, <3>2
  <2>4. /\ \/ completes /\ UNCHANGED <<sem, backup>>
           \/ ~completes /\ found /\ sem' = sem - One(takes) + backup /\ backup' = 0
           \/ ~completes /\ ~found /\ sem' = sem - 1 /\ backup' = backup + 1
        /\ One(takes) \in {0, 1} /\ One(completes) \in {0, 1}
        /\ completes => One(takes) = 1 /\ One(completes) = 1
        /\ ~completes => One(completes) = 0
        /\ ~completes /\ ~found => One(takes) = 0
    BY <1>7 DEF ProbeQueuedEvent, One
  <2> HIDE DEF e, completes, found, takes
  <2>5. Balance'
    <3> DEFINE t == One(takes)
               c == One(completes)
    <3>1. t \in Int /\ c \in Int /\ Queued' = Queued - t /\ plain' = plain + c
      BY <2>1, <2>3, <2>4
    <3>2. \/ UNCHANGED <<sem, backup>> /\ t = 1 /\ c = 1
          \/ sem' = sem - t + backup /\ backup' = 0 /\ c = 0
          \/ sem' = sem - 1 /\ backup' = backup + 1 /\ t = 0 /\ c = 0
      BY <2>4
    <3> HIDE DEF t, c
    <3>3. InWait' = InWait - t + c
      <4> DEFINE x == replace - One(source = "done")
      <4>1. x \in Int /\ sem \in Int /\ backup \in Int
        BY <1>1 DEF TypeOK, One
      <4>2. InWait = sem + backup + x /\ InWait' = sem' + backup' + x
        <5>1. One(source = "done") \in Int /\ replace \in Int /\ sem' \in Int /\ backup' \in Int
          BY <3>1, <3>2, <4>1, <1>1 DEF TypeOK, One
        <5> QED BY <2>1, <4>1, <5>1 DEF InWait
      <4> HIDE DEF x
      <4>3. sem' + backup' + x = (sem + backup + x) - t + c
        BY <3>1, <3>2, <4>1
      <4> DEFINE i == sem + backup + x
                 j == sem' + backup' + x
      <4>4. j = i - t + c /\ InWait = i /\ InWait' = j
        BY <4>2, <4>3
      <4> HIDE DEF i, j
      <4> QED BY <4>4
    <3> QED BY <1>1, <2>1, <2>2, <3>1, <3>3 DEF Balance, Numbers
  <2>6. SourceInv'
    BY <1>1, <2>1 DEF SourceInv
  <2> QED BY <1>1, <2>5, <2>6, StepFact DEF Step
<1>8. ASSUME NEW f \in FepMoves, NEW ok \in AppendOutcomes, ProbeWservEvent(f, ok) PROVE AInv'
  <2> DEFINE e         == IF f = "replace" THEN [incoming EXCEPT !.kind = "key"] ELSE incoming
             completes == f = "pass" /\ CompletesKeya(e)
             found     == f = "pass" /\ ~completes /\ Matches(call, e)
             takes     == found /\ TakesWhatItFinds(call)
             appends   == ok /\ f # "eat" /\ ~takes /\ ~completes
  <2>1. /\ incoming \in Events /\ e \in Events /\ pc = "probe" /\ pc' # "wait"
        /\ wserv = "ready" /\ wserv' = "pending" /\ UNCHANGED <<pkey, timer, source, replace>>
    BY <1>1, <1>8 DEF ProbeWservEvent, TakeWservEvent, TypeOK, Events, Kinds, Return
  <2>2. Ready' = Ready - 1
    BY <2>1 DEF Ready, One
  <2>3. Dummy = 0 /\ Dummy' = 0
    BY <2>1 DEF Dummy, One
  <2>4. /\ NCompleted' = NCompleted /\ outer' = outer /\ buffered' = buffered /\ stray' = stray
        /\ plain' = plain + One(completes)
        /\ sem' = sem + backup - 1 + One(appends \/ completes) /\ backup' = 0
    BY <1>8 DEF ProbeWservEvent, NCompleted, Completed
  <2>5. Queued' = Queued + One(appends)
    <3>1. CASE appends
      BY <1>3, <1>8, <2>1, <3>1 DEF ProbeWservEvent, Queued, One
    <3>2. CASE ~appends
      BY <1>1, <1>8, <3>2 DEF ProbeWservEvent, Queued, One, Numbers
    <3> QED BY <3>1, <3>2
  <2>6. /\ One(completes) \in Int /\ One(appends) \in Int
        /\ One(appends \/ completes) = One(completes) + One(appends)
    BY DEF One
  <2> HIDE DEF e, completes, found, takes, appends
  <2>7. Balance'
    <3> DEFINE y == One(completes)
               z == One(appends)
    <3>1. /\ y \in Int /\ z \in Int /\ sem' = sem + backup - 1 + (y + z) /\ backup' = 0
          /\ Queued' = Queued + z /\ plain' = plain + y
      BY <2>4, <2>5, <2>6
    <3> HIDE DEF y, z
    <3>2. InWait' = InWait - 1 + (y + z)
      BY <1>1, <2>1, <3>1 DEF InWait, One, TypeOK
    <3> QED BY <1>1, <2>2, <2>3, <2>4, <3>1, <3>2 DEF Balance, Numbers
  <2>8. SourceInv'
    BY <1>1, <2>1 DEF SourceInv
  <2> QED BY <1>1, <2>7, <2>8, StepFact DEF Step
<1> QED BY <1>5, <1>6, <1>7, <1>8

\* What surrounds the waits.
LEMMA RestAInv ==
  AInv /\ (\/ TakePriorityKey \/ WaitWhileSuspended \/ PurgeNonKey \/ EnterLoop
           \/ ReturnFromWait \/ ReturnFromGetEvent \/ ReturnFromIoWaitStat
           \/ \E ok \in AppendOutcomes : ReturnFromPause(ok)
           \/ StartProbing \/ ProbeFindsNothing \/ DialogTakesSignal) => AInv'
<1> SUFFICES ASSUME AInv, TInv' PROVE
      (\/ TakePriorityKey \/ WaitWhileSuspended \/ PurgeNonKey \/ EnterLoop
       \/ ReturnFromWait \/ ReturnFromGetEvent \/ ReturnFromIoWaitStat
       \/ \E ok \in AppendOutcomes : ReturnFromPause(ok)
       \/ StartProbing \/ ProbeFindsNothing \/ DialogTakesSignal) => AInv'
  BY StepFact, RestTInv
<1>1. TypeOK /\ TInv /\ SourceInv /\ Numbers /\ Balance /\ Numbers'
  BY StepFact
<1>2. queue \in Seq(Events) /\ Len(queue) \in Nat
  BY <1>1, LenProperties DEF TypeOK
<1> USE DEF envVars, qVars, reqVars, susVars, dlgVars, loopVars, ctlVars, ghost
<1>3. ASSUME WaitWhileSuspended \/ ReturnFromWait \/ ReturnFromGetEvent \/ StartProbing PROVE AInv'
  <2>1. /\ UNCHANGED <<sem, timer, wserv, queue, backup, req, pkey, buffered,
                       source, replace, outer, plain, stray>>
        /\ pc \in {"run", "leave", "probe_enter"} /\ pc' # "wait"
    BY <1>3 DEF WaitWhileSuspended, ReturnFromWait, ReturnFromGetEvent, StartProbing,
                Returns, Return, StartWait
  <2>2. SourceInv'
    BY <1>1, <2>1 DEF SourceInv
  <2> QED BY <1>1, <2>1, <2>2, IdleFact
<1>4. ASSUME TakePriorityKey \/ (DialogTakesSignal /\ pkey # "none") PROVE AInv'
  <2>1. /\ sem' = sem - 1 /\ pkey # "none" /\ pkey' = "none"
        /\ UNCHANGED <<timer, wserv, queue, backup, req, buffered, source, replace, outer,
                       plain, stray, pc, call>>
        /\ pc \in {"run", "dialog"}
    BY <1>4 DEF TakePriorityKey, DialogTakesSignal
  <2>2. InWait' = InWait - 1 /\ Ready' = Ready - 1 /\ Dummy' = Dummy
    BY <1>1, <2>1 DEF InWait, Ready, Dummy, One, TypeOK
  <2>3. Queued' = Queued /\ NCompleted' = NCompleted
    BY <2>1 DEF Queued, NCompleted, Completed
  <2>4. Balance'
    BY <1>1, <2>1, <2>2, <2>3 DEF Balance, Numbers
  <2>5. SourceInv'
    BY <1>1, <2>1 DEF SourceInv, TimedPause
  <2> QED BY <1>1, <2>4, <2>5, StepFact DEF Step
<1>5. ASSUME DialogTakesSignal, pkey = "none" PROVE AInv'
  <2>1. /\ sem' = sem - 1 /\ buffered' = buffered + 1
        /\ UNCHANGED <<timer, wserv, queue, backup, req, pkey, source, replace, outer,
                       plain, stray, pc, call>>
    BY <1>5 DEF DialogTakesSignal
  <2>2. InWait' = InWait - 1 /\ Ready' = Ready /\ Dummy' = Dummy
    BY <1>1, <2>1 DEF InWait, Ready, Dummy, One, TypeOK
  <2>3. Queued' = Queued /\ NCompleted' = NCompleted
    BY <2>1 DEF Queued, NCompleted, Completed
  <2>4. Balance'
    BY <1>1, <2>1, <2>2, <2>3 DEF Balance, Numbers
  <2>5. SourceInv'
    BY <1>1, <2>1 DEF SourceInv, TimedPause
  <2> QED BY <1>1, <2>4, <2>5, StepFact DEF Step
<1>6. ASSUME PurgeNonKey PROVE AInv'
  <2>1. \E i \in 1..Len(queue) : queue' = RemoveAt(queue, i)
    BY <1>6 DEF PurgeNonKey, NonKeys
  <2>2. Queued' = Queued - 1
    BY <1>2, <2>1, RemoveAtFact DEF Queued
  <2>3. /\ sem' = sem - 1
        /\ UNCHANGED <<timer, wserv, backup, req, pkey, buffered, source, replace, outer,
                       plain, stray, pc, call>>
    BY <1>6 DEF PurgeNonKey
  <2>4. InWait' = InWait - 1 /\ Ready' = Ready /\ Dummy' = Dummy /\ NCompleted' = NCompleted
    BY <1>1, <2>3 DEF InWait, Ready, Dummy, One, TypeOK, NCompleted, Completed
  <2>5. Balance'
    BY <1>1, <2>2, <2>3, <2>4 DEF Balance, Numbers
  <2>6. SourceInv'
    BY <1>1, <2>3 DEF SourceInv, TimedPause
  <2> QED BY <1>1, <2>5, <2>6, StepFact DEF Step
<1>7. ASSUME EnterLoop PROVE AInv'
  <2>1. /\ UNCHANGED <<timer, wserv, queue, backup, req, pkey, buffered, source, replace, outer,
                       plain, stray, call>>
        /\ sem' = sem + One(call \in Polls) /\ pc = "enter" /\ pc' = "wait"
    BY <1>7 DEF EnterLoop, DummySignal
  <2>2. InWait' = InWait + One(call \in Polls) /\ Dummy = 0 /\ Dummy' = One(call \in Polls)
        /\ One(call \in Polls) \in Int
    BY <1>1, <2>1 DEF InWait, Dummy, One, TypeOK
  <2>3. Ready' = Ready /\ Queued' = Queued /\ NCompleted' = NCompleted
    BY <2>1 DEF Ready, Queued, NCompleted, Completed, One
  <2>4. Balance'
    BY <1>1, <2>1, <2>2, <2>3 DEF Balance, Numbers
  <2>5. SourceInv'
    BY <1>1, <2>1 DEF SourceInv, TimedPause
  <2> QED BY <1>1, <2>4, <2>5, StepFact DEF Step
<1>8. ASSUME ReturnFromIoWaitStat PROVE AInv'
  <2>1. /\ UNCHANGED <<timer, wserv, queue, backup, req, pkey, buffered, source, replace, stray>>
        /\ pc = "leave" /\ pc' \in {"enter", "run"}
        /\ \/ outer' = outer + 1 /\ plain' = plain + 1 /\ sem' = sem
           \/ outer' = 0 /\ sem' = sem + outer /\ plain' = plain
    BY <1>8 DEF ReturnFromIoWaitStat, Returns, Return
  <2>2. Dummy = 0 /\ Dummy' = 0 /\ Ready' = Ready /\ Queued' = Queued /\ NCompleted' = NCompleted
    BY <2>1 DEF Ready, Dummy, Queued, NCompleted, Completed, One
  <2>3. Balance'
    <3>1. CASE outer' = outer + 1 /\ plain' = plain + 1 /\ sem' = sem
      <4>1. InWait' = InWait
        BY <2>1, <3>1 DEF InWait
      <4> QED BY <1>1, <2>1, <2>2, <3>1, <4>1 DEF Balance, Numbers
    <3>2. CASE outer' = 0 /\ sem' = sem + outer /\ plain' = plain
      <4>1. InWait' = InWait + outer
        BY <1>1, <2>1, <3>2 DEF InWait, TypeOK, One
      <4> QED BY <1>1, <2>1, <2>2, <3>2, <4>1 DEF Balance, Numbers
    <3> QED BY <2>1, <3>1, <3>2
  <2>4. SourceInv'
    BY <1>1, <2>1 DEF SourceInv
  <2> QED BY <1>1, <2>3, <2>4, StepFact DEF Step
<1>9. ASSUME NEW ok \in AppendOutcomes, ReturnFromPause(ok) PROVE AInv'
  <2>1. /\ UNCHANGED <<timer, wserv, backup, req, pkey, buffered, source, replace, outer, plain, stray>>
        /\ pc = "leave" /\ pc' = "run"
    BY <1>9 DEF ReturnFromPause, Returns, Return
  <2>2. \/ sem' = sem + 1 /\ Queued' = Queued + 1
        \/ sem' = sem /\ Queued' = Queued
    <3>1. CASE got # NoEvent /\ ok
      BY <1>1, <1>2, <1>9, <3>1, AppendFact DEF ReturnFromPause, One, Queued, TypeOK
    <3>2. CASE ~(got # NoEvent /\ ok)
      BY <1>1, <1>9, <3>2 DEF ReturnFromPause, One, Queued, TypeOK
    <3> QED BY <3>1, <3>2
  <2>3. Dummy = 0 /\ Dummy' = 0 /\ Ready' = Ready /\ NCompleted' = NCompleted
    BY <2>1 DEF Ready, Dummy, NCompleted, Completed, One
  <2>4. \/ InWait' = InWait + 1 /\ Queued' = Queued + 1
        \/ InWait' = InWait /\ Queued' = Queued
    BY <1>1, <2>1, <2>2 DEF InWait, TypeOK, One
  <2>5. Balance'
    BY <1>1, <2>1, <2>3, <2>4 DEF Balance, Numbers
  <2>6. SourceInv'
    BY <1>1, <2>1 DEF SourceInv
  <2> QED BY <1>1, <2>5, <2>6, StepFact DEF Step
<1>10. ASSUME ProbeFindsNothing PROVE AInv'
  <2>1. /\ UNCHANGED <<timer, wserv, queue, req, pkey, buffered, source, replace, outer, plain, stray>>
        /\ sem' = sem + backup /\ backup' = 0 /\ pc = "probe" /\ pc' = "run"
    BY <1>10 DEF ProbeFindsNothing, Return
  <2>2. InWait' = InWait
    BY <1>1, <2>1 DEF InWait, TypeOK, One
  <2>3. Dummy = 0 /\ Dummy' = 0 /\ Ready' = Ready /\ NCompleted' = NCompleted /\ Queued' = Queued
    BY <2>1 DEF Ready, Dummy, Queued, NCompleted, Completed, One
  <2>4. Balance'
    BY <1>1, <2>1, <2>2, <2>3 DEF Balance, Numbers
  <2>5. SourceInv'
    BY <1>1, <2>1 DEF SourceInv
  <2> QED BY <1>1, <2>4, <2>5, StepFact DEF Step
<1> QED BY <1>3, <1>4, <1>5, <1>6, <1>7, <1>8, <1>9, <1>10

LEMMA NextAInv == AInv /\ [Next]_vars => AInv'
<1>1. AInv /\ Loop => AInv'
  BY OffersAInv, EventsAInv, RestAInv DEF Loop
<1>2. AInv /\ UNCHANGED vars => AInv'
  BY DEF AInv, TInv, TypeOK, DialogInv, SourceInv, TimedPause, SignalsAccounted, Owed, Completed,
         vars, envVars, qVars, reqVars, susVars, dlgVars, loopVars, ctlVars, ghost
<1> QED BY <1>1, <1>2, ProgramAInv, EnvironmentAInv DEF Next

\* Signals are neither lost nor made up, however completions, keywords, suspension and dialogs
\* interleave: those in the semaphore and those the code has set aside are the ones of the
\* things that have completed, the plain ones, and the strays of PurgeAllExpiringEvents.
THEOREM SignalsKept == Spec => []SignalsAccounted
<1>1. Spec => []AInv
  BY InitAInv, NextAInv, PTL DEF Spec
<1> QED BY <1>1, PTL DEF AInv

-----------------------------------------------------------------------------
(* What a wait leaves behind, and what ends it.                            *)

\* The signals and events set aside belong to the wait or the probe in progress.
SetAsideInv == /\ pc # "wait" => replace = 0
               /\ pc \notin {"wait", "probe"} => backup = 0

LEMMA NextSetAside == SetAsideInv /\ [Next]_vars => SetAsideInv'
<1> SUFFICES ASSUME SetAsideInv, [Next]_vars PROVE SetAsideInv'
  OBVIOUS
<1> USE DEF SetAsideInv, envVars, qVars, reqVars, susVars, dlgVars, loopVars, ctlVars, ghost
<1>1. CASE Environment
  BY <1>1 DEF Environment, WservEvent, RequestCompletes, PriorityKey, ShelfLifeExpires, PauseElapses
<1>2. CASE Program
  BY <1>2 DEF Program, Get, GetEvent, Pause, IoWait, IoYield, EventCheck, IoSignal, Ioa, IocFails,
    IoCancel, KeyA, KeyC, Key, TestEvent, ExecuteEnds, IoWaitStat, StartDialog, StopDialog, Keyword, StartWait,
    StartProbe
<1>3. ASSUME PollEnds \/ OfferToPriorityKeyHandler \/ OfferToAdditionalSource \/ OfferToQueueTimer
             \/ OfferToFinalFunction \/ (\E r \in Requests : OfferToOplAsynchronousRequest(r))
      PROVE  SetAsideInv'
  BY <1>3 DEF PollEnds, OfferToPriorityKeyHandler, OfferToAdditionalSource, OfferToQueueTimer,
    OfferToFinalFunction, OfferToOplAsynchronousRequest, Offer, Iterate, EndIteration, FinishWith
<1>4. ASSUME \/ OfferQueuedEvent \/ ProbeQueuedEvent
             \/ \E f \in FepMoves, ok \in AppendOutcomes :
                  OfferWservEvent(f, ok) \/ ProbeWservEvent(f, ok)
      PROVE  SetAsideInv'
  <2>1. ASSUME OfferQueuedEvent PROVE SetAsideInv'
    BY <2>1 DEF OfferQueuedEvent, Offer, Iterate, EndIteration, FinishWith
  <2>2. ASSUME ProbeQueuedEvent PROVE SetAsideInv'
    <3>1. /\ pc = "probe" /\ replace' = replace
          /\ pc' = "probe" \/ (pc' = "run" /\ backup' = 0)
      BY <2>2 DEF ProbeQueuedEvent, Return
    <3> QED BY <3>1
  <2>3. ASSUME NEW f \in FepMoves, NEW ok \in AppendOutcomes, OfferWservEvent(f, ok)
        PROVE  SetAsideInv'
    BY <2>3 DEF OfferWservEvent, Offer, Iterate, EndIteration, FinishWith
  <2>4. ASSUME NEW f \in FepMoves, NEW ok \in AppendOutcomes, ProbeWservEvent(f, ok)
        PROVE  SetAsideInv'
    <3>1. pc = "probe" /\ replace' = replace /\ backup' = 0
      BY <2>4 DEF ProbeWservEvent
    <3>2. pc' # "wait"
      BY <2>4 DEF ProbeWservEvent, Return
    <3> QED BY <3>1, <3>2
  <2> QED BY <1>4, <2>1, <2>2, <2>3, <2>4
<1>5. ASSUME \/ TakePriorityKey \/ WaitWhileSuspended \/ PurgeNonKey \/ EnterLoop
             \/ ReturnFromWait \/ ReturnFromGetEvent \/ ReturnFromIoWaitStat
             \/ \E ok \in AppendOutcomes : ReturnFromPause(ok)
             \/ StartProbing \/ ProbeFindsNothing \/ DialogTakesSignal
      PROVE  SetAsideInv'
  BY <1>5 DEF TakePriorityKey, WaitWhileSuspended, PurgeNonKey, EnterLoop, ReturnFromWait,
    ReturnFromGetEvent, ReturnFromIoWaitStat, ReturnFromPause, StartProbing, ProbeFindsNothing,
    DialogTakesSignal, Returns, Return, StartWait
<1>6. CASE Loop
  BY <1>3, <1>4, <1>5, <1>6 DEF Loop
<1>7. CASE UNCHANGED vars
  BY <1>7 DEF vars
<1> QED BY <1>1, <1>2, <1>6, <1>7 DEF Next

\* The debug assertions 20, 21, 23 and 24 of CWsEventHandler and CEventQueue hold: every wait and
\* every probe starts with nothing set aside.
THEOREM NothingSetAside == Spec => []BackupEmptyBetweenWaits
<1>1. Init => SetAsideInv
  BY DEF Init, SetAsideInv
<1>2. SetAsideInv => BackupEmptyBetweenWaits
  BY DEF SetAsideInv, BackupEmptyBetweenWaits
<1>3. Spec => []SetAsideInv
  BY <1>1, NextSetAside, PTL DEF Spec
<1> QED BY <1>2, <1>3, PTL

\* WaitForEvent does not return to the program while it is suspended, save from a poll.
EndsAwake == pc = "wait" /\ pc' = "leave" /\ call \notin Polls => ~suspended'

LEMMA NextEndsAwake == [Next]_vars => [EndsAwake]_vars
<1> SUFFICES ASSUME [Next]_vars, pc = "wait", pc' = "leave", call \notin Polls PROVE ~suspended'
  BY DEF EndsAwake
<1> USE DEF envVars, qVars, reqVars, susVars, dlgVars, loopVars, ctlVars, ghost
<1>1. ~Environment
  BY DEF Environment, WservEvent, RequestCompletes, PriorityKey, ShelfLifeExpires, PauseElapses
<1>2. ~Program
  BY DEF Program, Get, GetEvent, Pause, IoWait, IoYield, EventCheck, IoSignal, Ioa, IocFails,
    IoCancel, KeyA, KeyC, Key, TestEvent, ExecuteEnds, IoWaitStat, StartDialog, StopDialog, Keyword
<1>3. ~UNCHANGED vars
  BY DEF vars
<1>4. ASSUME PollEnds \/ OfferToPriorityKeyHandler \/ OfferToAdditionalSource \/ OfferToQueueTimer
             \/ OfferToFinalFunction \/ (\E r \in Requests : OfferToOplAsynchronousRequest(r))
      PROVE  ~suspended'
  BY <1>4 DEF PollEnds, PollIsOver, OfferToPriorityKeyHandler, OfferToAdditionalSource,
    OfferToQueueTimer, OfferToFinalFunction, OfferToOplAsynchronousRequest, EndIteration, Collects
<1>5. ASSUME OfferQueuedEvent PROVE ~suspended'
  BY <1>5 DEF OfferQueuedEvent, EndIteration
<1>6. ASSUME NEW f \in FepMoves, NEW ok \in AppendOutcomes, OfferWservEvent(f, ok)
      PROVE  ~suspended'
  BY <1>6 DEF OfferWservEvent, EndIteration
<1>7. ~\/ TakePriorityKey \/ WaitWhileSuspended \/ PurgeNonKey \/ EnterLoop
       \/ ReturnFromWait \/ ReturnFromGetEvent \/ ReturnFromIoWaitStat
       \/ \E ok \in AppendOutcomes : ReturnFromPause(ok)
       \/ StartProbing \/ ProbeFindsNothing \/ DialogTakesSignal \/ ProbeQueuedEvent
       \/ \E f \in FepMoves, ok \in AppendOutcomes : ProbeWservEvent(f, ok)
  BY DEF TakePriorityKey, WaitWhileSuspended, PurgeNonKey, EnterLoop, ReturnFromWait,
    ReturnFromGetEvent, ReturnFromIoWaitStat, ReturnFromPause, StartProbing, ProbeFindsNothing,
    DialogTakesSignal, Returns, ProbeQueuedEvent, ProbeWservEvent
<1>8. Loop
  BY <1>1, <1>2, <1>3 DEF Next
<1> QED BY <1>4, <1>5, <1>6, <1>7, <1>8 DEF Loop

\* A wait never returns to the program while it is suspended (CTRL-S), save from a poll, whichever
\* handlers, dialogs and purges the wait went through.
THEOREM AwakeAfterWait == Spec => NoReturnWhileSuspended
<1>1. [EndsAwake]_vars => [pc = "wait" /\ pc' = "leave" /\ call \notin Polls => ~suspended']_vars
  BY DEF EndsAwake
<1> QED BY NextEndsAwake, <1>1, PTL DEF Spec, NoReturnWhileSuspended

-----------------------------------------------------------------------------
(* Wake-ups: no wait of the event loop that should be immediate blocks,    *)
(* and the thread does not sleep on what has completed.                    *)
(*                                                                         *)
(* The account of signals (AInv) says how many there are in all.  What is  *)
(* added here is that none of the places where they wait holds more than   *)
(* it was given: the signals that belong to nothing the code can find      *)
(* cover the ones IOWAITSTAT holds, the events missing from the backup     *)
(* region and, while no request has completed, the ones the wait has set   *)
(* aside.                                                                  *)

\* The signals that belong to no event, request, key or timer, less those IOWAITSTAT holds.
Loose == plain + stray - outer

\* IOWAITSTAT holds signals during its own waits only, a dialog while it runs.
HoldersInv == /\ outer # 0 => call = "iowaitstat" /\ pc \in {"enter", "wait", "leave"}
              /\ buffered # 0 => pc = "dialog"

\* There are at least the loose signals that IOWAITSTAT holds and that the events purged from
\* the backup region have left behind.
LooseInv == stray >= 0 /\ Loose >= 0 /\ Loose >= backup - Len(queue)

\* Without a completed request, what a wait has set aside is loose.
AsideInv == pc = "wait" /\ Completed = {} =>
              Loose - replace >= 0 /\ Loose - replace >= backup - Len(queue)

WInv == AInv /\ SetAsideInv /\ HoldersInv /\ LooseInv /\ AsideInv /\ sem >= 0

-----------------------------------------------------------------------------
(* Consequences of the account.                                            *)

LEMMA TypesFact ==
  TypeOK => /\ sem \in Int /\ replace \in Nat /\ backup \in Nat /\ outer \in Nat /\ buffered \in Nat
            /\ plain \in Nat /\ stray \in Int /\ Len(queue) \in Nat /\ expiring \in 0..Len(queue)
            /\ NCompleted \in Nat
BY CompletedFact, LenProperties DEF TypeOK

LEMMA CompletedCount == TypeOK => (NCompleted = 0 <=> Completed = {})
BY CompletedFact, FS_EmptySet DEF NCompleted

\* Where neither a wait nor a dialog is in progress the semaphore covers all that has completed.
LEMMA SemaphoreCovers ==
  ASSUME AInv, SetAsideInv, HoldersInv, LooseInv, pc \notin {"wait", "dialog"}
  PROVE  /\ sem >= Ready + NCompleted + (Len(queue) - backup) + Loose
         /\ sem >= 0
         /\ sem >= Ready
         /\ pc # "probe" => sem >= Len(queue) + Ready
<1> DEFINE r == Ready
           d == One(source = "done")
           n == NCompleted
           l == Len(queue)
<1>1. Balance /\ TypeOK
  BY StepFact
<1>2. InWait = sem + 0 + backup - d /\ buffered = 0 /\ Dummy = 0
  BY <1>1, TypesFact DEF SetAsideInv, HoldersInv, InWait, Dummy, One
<1>3. r \in Nat /\ d \in Nat /\ n \in Nat /\ l \in Nat /\ sem \in Int /\ backup \in Nat /\ outer \in Nat
      /\ plain \in Nat /\ stray \in Int
  BY <1>1, TypesFact DEF Ready, One
<1>4. InWait + outer + buffered = l + r + n + Dummy + plain + stray
  BY <1>1 DEF Balance, Queued
<1>5. pc # "probe" => backup = 0
  BY DEF SetAsideInv
<1>6. plain + stray - outer >= 0 /\ plain + stray - outer >= backup - l
  BY DEF LooseInv, Loose
<1>7. /\ sem >= r + n + (l - backup) + (plain + stray - outer)
      /\ sem >= 0 /\ sem >= r
      /\ pc # "probe" => sem >= l + r
  <2> HIDE DEF r, d, n, l
  <2> QED BY <1>2, <1>3, <1>4, <1>5, <1>6
<1> QED BY <1>7 DEF Loose

\* In a wait that finds nothing, the signals left are loose, but for the dummy of a poll.
LEMMA NothingFound ==
  ASSUME AInv, HoldersInv, pc = "wait", Completed = {}, ~UserReady, timer # "fired", pkey = "none",
         source # "done"
  PROVE  sem + replace = (Len(queue) - backup) + One(call \in Polls) + Loose
<1> DEFINE y == One(call \in Polls)
           l == Len(queue)
<1>1. Balance /\ TypeOK
  BY StepFact
<1>2. InWait = sem + replace + backup /\ buffered = 0 /\ Dummy = y /\ Ready = 0
  BY <1>1, TypesFact DEF HoldersInv, InWait, Dummy, One, Ready, UserReady
<1>3. NCompleted = 0
  BY <1>1, CompletedCount
<1>4. InWait + outer + buffered = l + Ready + NCompleted + Dummy + plain + stray
  BY <1>1 DEF Balance, Queued
<1>5. /\ y \in Nat /\ l \in Nat /\ sem \in Int /\ backup \in Nat /\ outer \in Nat
      /\ plain \in Nat /\ stray \in Int /\ replace \in Nat
  BY <1>1, TypesFact DEF One
<1>6. sem + replace = (l - backup) + y + (plain + stray - outer)
  <2> HIDE DEF y, l
  <2> QED BY <1>2, <1>3, <1>4, <1>5
<1> QED BY <1>6 DEF Loose

\* The handlers that are offered a signal for which nothing else has completed.
LEMMA HandlerFact ==
  /\ Handler = "timer" => ~UserReady /\ Completed = {} /\ source # "done" /\ timer = "fired"
  /\ Handler = "final" => ~UserReady /\ Completed = {} /\ source # "done" /\ timer # "fired"
  /\ Handler = "user" => UserReady
BY DEF Handler

-----------------------------------------------------------------------------
(* Each step.                                                              *)

LEMMA NextHolders == HoldersInv /\ TypeOK /\ DialogInv /\ [Next]_vars => HoldersInv'
<1> SUFFICES ASSUME HoldersInv, TypeOK, DialogInv, [Next]_vars PROVE HoldersInv'
  OBVIOUS
<1> USE DEF HoldersInv, envVars, qVars, reqVars, susVars, dlgVars, loopVars, ctlVars, ghost
<1>1. CASE Environment
  BY <1>1 DEF Environment, WservEvent, RequestCompletes, PriorityKey, ShelfLifeExpires, PauseElapses
<1>2. CASE Program
  BY <1>2 DEF Program, Get, GetEvent, Pause, IoWait, IoYield, EventCheck, IoSignal, Ioa, IocFails,
    IoCancel, KeyA, KeyC, Key, TestEvent, ExecuteEnds, IoWaitStat, StartDialog, StopDialog, Keyword, StartWait,
    StartProbe
<1>3. ASSUME PollEnds \/ OfferToPriorityKeyHandler \/ OfferToAdditionalSource \/ OfferToQueueTimer
             \/ OfferToFinalFunction \/ (\E r \in Requests : OfferToOplAsynchronousRequest(r))
      PROVE  HoldersInv'
  BY <1>3 DEF PollEnds, OfferToPriorityKeyHandler, OfferToAdditionalSource, OfferToQueueTimer,
    OfferToFinalFunction, OfferToOplAsynchronousRequest, Offer, Iterate, EndIteration, FinishWith
<1>4. ASSUME OfferQueuedEvent PROVE HoldersInv'
  BY <1>4 DEF OfferQueuedEvent, Offer, Iterate, EndIteration, FinishWith
<1>5. ASSUME ProbeQueuedEvent PROVE HoldersInv'
  <2>1. pc = "probe" /\ outer' = outer /\ buffered' = buffered
    BY <1>5 DEF ProbeQueuedEvent
  <2> QED BY <2>1
<1>6. ASSUME NEW f \in FepMoves, NEW ok \in AppendOutcomes, OfferWservEvent(f, ok)
      PROVE  HoldersInv'
  BY <1>6 DEF OfferWservEvent, Offer, Iterate, EndIteration, FinishWith
<1>7. ASSUME NEW f \in FepMoves, NEW ok \in AppendOutcomes, ProbeWservEvent(f, ok)
      PROVE  HoldersInv'
  <2>1. pc = "probe" /\ outer' = outer /\ buffered' = buffered
    BY <1>7 DEF ProbeWservEvent
  <2> QED BY <2>1
<1>8. ASSUME \/ TakePriorityKey \/ WaitWhileSuspended \/ PurgeNonKey \/ EnterLoop
             \/ ReturnFromWait \/ ReturnFromGetEvent \/ ReturnFromIoWaitStat
             \/ \E ok \in AppendOutcomes : ReturnFromPause(ok)
             \/ StartProbing \/ ProbeFindsNothing \/ DialogTakesSignal
      PROVE  HoldersInv'
  BY <1>8 DEF TakePriorityKey, WaitWhileSuspended, PurgeNonKey, EnterLoop, ReturnFromWait,
    ReturnFromGetEvent, ReturnFromIoWaitStat, ReturnFromPause, StartProbing, ProbeFindsNothing,
    DialogTakesSignal, Returns, Return, StartWait, Polls
<1>9. CASE Loop
  BY <1>3, <1>4, <1>5, <1>6, <1>7, <1>8, <1>9 DEF Loop
<1>10. CASE UNCHANGED vars
  BY <1>10 DEF vars
<1> QED BY <1>1, <1>2, <1>9, <1>10 DEF Next

\* What remains to be shown of a step: outside waits and dialogs the account covers the semaphore.
Covered == LooseInv /\ AsideInv /\ (pc \in {"wait", "dialog"} => sem >= 0)

LEMMA CoveredIsEnough == AInv /\ SetAsideInv /\ HoldersInv /\ Covered => WInv
BY SemaphoreCovers DEF Covered, WInv

LEMMA EnvironmentCovered == WInv /\ Environment => Covered'
<1> SUFFICES ASSUME WInv, Environment PROVE Covered'
  OBVIOUS
<1>1. TypeOK
  BY StepFact DEF WInv
<1>2. UNCHANGED <<plain, stray, outer, backup, queue, replace, pc>> /\ sem' = sem + 1
  BY DEF Environment, WservEvent, RequestCompletes, PriorityKey, ShelfLifeExpires, PauseElapses,
    qVars, ctlVars, ghost, loopVars
<1>3. Completed' = {} => Completed = {}
  <2>1. Completed \subseteq Completed'
    BY <1>1 DEF Environment, WservEvent, RequestCompletes, PriorityKey, ShelfLifeExpires,
      PauseElapses, reqVars, Completed, TypeOK
  <2> QED BY <2>1
<1>4. sem' >= 0
  BY <1>1, <1>2, TypesFact DEF WInv
<1> QED BY <1>2, <1>3, <1>4 DEF Covered, WInv, LooseInv, AsideInv, Loose

LEMMA ProgramCovered == WInv /\ Program => Covered'
<1> SUFFICES ASSUME WInv, Program PROVE Covered'
  OBVIOUS
<1> USE DEF envVars, qVars, reqVars, susVars, dlgVars, loopVars, ctlVars, ghost
<1>1. /\ TypeOK /\ AInv /\ SetAsideInv /\ HoldersInv /\ LooseInv /\ sem >= 0
      /\ sem \in Int /\ outer \in Nat /\ plain \in Nat /\ stray \in Int /\ Len(queue) \in Nat
  BY StepFact, TypesFact DEF WInv
<1>2. ASSUME \/ Get \/ GetEvent \/ IoWait \/ IoYield \/ EventCheck \/ IoSignal \/ KeyC \/ Key \/ TestEvent
             \/ ExecuteEnds
             \/ \E c \in {"pause_key", "pause_time", "pause_both"} : Pause(c)
             \/ \E w \in Words : IoWaitStat(w)
             \/ \E r \in Requests : Ioa(r) \/ IocFails(r)
             \/ \E r, c \in Requests : IoCancel(r, c)
             \/ \E k \in {"keys", "any"} : KeyA(k)
      PROVE  Covered'
  <2>1. pc = "run" /\ UNCHANGED <<stray, outer, backup, queue>> /\ pc' \notin {"wait", "dialog"}
    BY <1>2 DEF Get, GetEvent, Pause, IoWait, IoYield, EventCheck, IoSignal, Ioa, IocFails, Keyword,
      IoCancel, KeyA, KeyC, Key, TestEvent, ExecuteEnds, IoWaitStat, StartWait, StartProbe
  <2>2. outer = 0 /\ backup = 0
    BY <1>1, <2>1 DEF HoldersInv, SetAsideInv
  <2>4. plain' \in Nat
    BY <1>1, <1>2 DEF Get, GetEvent, Pause, IoWait, IoYield, EventCheck, IoSignal, Ioa, IocFails, Keyword,
      IoCancel, KeyA, KeyC, Key, TestEvent, ExecuteEnds, IoWaitStat, StartWait, StartProbe
  <2>5. LooseInv'
    <3> DEFINE l == Len(queue)
               u == plain'
               v == stray
    <3>1. l \in Nat /\ Len(queue') = l /\ stray' = v /\ outer' = 0 /\ backup' = 0
      BY <1>1, <2>1, <2>2
    <3>2. u \in Nat /\ v \in Int /\ v >= 0
      BY <1>1, <2>4 DEF LooseInv
    <3>3. v >= 0 /\ u + v - 0 >= 0 /\ u + v - 0 >= 0 - l
      <4> HIDE DEF l, u, v
      <4> QED BY <3>1, <3>2
    <3> QED BY <3>1, <3>3 DEF LooseInv, Loose
  <2> QED BY <2>1, <2>5 DEF Covered, AsideInv
<1>3. ASSUME StartDialog, nest = 0, pc = "run" PROVE Covered'
  <2>1. /\ UNCHANGED <<plain, stray, outer, backup>> /\ pc' = "dialog" /\ backup = 0
        /\ queue' = <<>> /\ sem' = sem - Withdrawn
    BY <1>1, <1>3 DEF StartDialog, SetAsideInv
  <2>2. sem >= Len(queue) + Ready
    BY <1>1, <1>3, SemaphoreCovers
  <2>3. Withdrawn <= Len(queue) + Ready /\ Withdrawn \in Int /\ Ready \in Int
    <3> DEFINE l == Len(queue)
               a == IF timer = "fired" THEN 1 ELSE 0
               b == IF wserv = "ready" THEN 1 ELSE 0
               c == IF pkey # "none" THEN 1 ELSE 0
    <3>1. Withdrawn = l + a + b /\ Ready = b + c + a
      BY DEF Withdrawn, Ready, One
    <3>2. l \in Nat /\ a \in Nat /\ b \in Nat /\ c \in Nat
      BY <1>1
    <3> HIDE DEF l, a, b, c
    <3>3. Withdrawn <= l + Ready /\ Withdrawn \in Int /\ Ready \in Int
      BY <3>1, <3>2
    <3> QED BY <3>3 DEF l
  <2>4. sem' >= 0
    BY <1>1, <2>1, <2>2, <2>3
  <2>5. LooseInv'
    BY <1>1, <2>1, EmptySeq DEF LooseInv, Loose
  <2> QED BY <2>1, <2>4, <2>5 DEF Covered, AsideInv
<1>4. ASSUME (StartDialog /\ ~(nest = 0 /\ pc = "run")) \/ StopDialog PROVE Covered'
  <2>1. /\ UNCHANGED <<plain, stray, outer, backup, queue>>
        /\ pc' # "wait" /\ (pc' = "dialog" => sem' = sem)
    BY <1>4 DEF StartDialog, StopDialog
  <2> QED BY <1>1, <2>1 DEF Covered, AsideInv, LooseInv, Loose
<1> QED BY <1>2, <1>3, <1>4 DEF Program

\* A step that adds to the loose signals, or leaves them, and removes no event of the backup region.
LEMMA LooseKept ==
  ASSUME WInv, AInv', stray' = stray, outer' = outer, plain' \in {plain, plain + 1},
         \/ backup' = 0 \/ backup' <= Len(queue')
         \/ backup' = backup /\ Len(queue') >= Len(queue)
  PROVE  /\ LooseInv'
         /\ pc = "wait" /\ replace' \in {replace, 0} /\ (Completed' = {} => Completed = {}) => AsideInv'
<1> DEFINE p == plain
           q == plain'
           s == stray
           o == outer
           b == backup
           c == backup'
           l == Len(queue)
           m == Len(queue')
           r == replace
           t == replace'
<1>1. TypeOK /\ LooseInv /\ AsideInv
  BY StepFact DEF WInv
<1>2. TypeOK'
  BY DEF AInv, TInv
<1>3. p \in Nat /\ s \in Int /\ o \in Nat /\ b \in Nat /\ l \in Nat /\ r \in Nat
  BY <1>1, TypesFact
<1>4. q \in Nat /\ c \in Nat /\ m \in Nat /\ t \in Nat
  BY <1>2, LenProperties DEF TypeOK
<1>5. s >= 0 /\ p + s - o >= 0 /\ p + s - o >= b - l
  BY <1>1 DEF LooseInv, Loose
<1>6. q \in {p, p + 1} /\ (c = 0 \/ c <= m \/ (c = b /\ m >= l))
  OBVIOUS
<1>7. q + s - o >= 0 /\ q + s - o >= c - m
  <2> HIDE DEF p, q, s, o, b, c, l, m
  <2> QED BY <1>3, <1>4, <1>5, <1>6
<1>8. LooseInv'
  BY <1>5, <1>7 DEF LooseInv, Loose
<1>9. ASSUME pc = "wait", replace' \in {replace, 0}, Completed' = {} => Completed = {} PROVE AsideInv'
  <2>1. t = r \/ t = 0
    BY <1>9
  <2>2. Completed = {} => (p + s - o) - r >= 0 /\ (p + s - o) - r >= b - l
    BY <1>1, <1>9 DEF AsideInv, Loose
  <2>3. Completed = {} => (q + s - o) - t >= 0 /\ (q + s - o) - t >= c - m
    <3> HIDE DEF p, q, s, o, b, c, l, m, r, t
    <3> QED BY <1>3, <1>4, <1>6, <1>7, <2>1, <2>2
  <2>4. Loose' = q + s - o
    BY DEF Loose
  <2>5. Completed' = {} => Loose' - replace' >= 0 /\ Loose' - replace' >= backup' - Len(queue')
    BY <1>9, <2>3, <2>4
  <2> QED BY <2>5 DEF AsideInv
<1> QED BY <1>8, <1>9

\* A step of a wait takes one signal at most.
LEMMA WaitGoesOn == ASSUME WInv, AInv', sem > 0, sem' >= sem - 1 PROVE sem' >= 0
<1> DEFINE s == sem
           t == sem'
<1>1. s \in Int /\ t \in Int /\ s > 0 /\ t >= s - 1
  BY StepFact, TypesFact DEF WInv, AInv, TInv, TypeOK
<1>2. t >= 0
  <2> HIDE DEF s, t
  <2> QED BY <1>1
<1> QED BY <1>2

LEMMA OffersCovered ==
  WInv /\ AInv' /\ (\/ PollEnds \/ OfferToPriorityKeyHandler \/ OfferToAdditionalSource
                    \/ \E r \in Requests : OfferToOplAsynchronousRequest(r)) => Covered'
<1> SUFFICES ASSUME WInv, AInv' PROVE
      (\/ PollEnds \/ OfferToPriorityKeyHandler \/ OfferToAdditionalSource
       \/ \E r \in Requests : OfferToOplAsynchronousRequest(r)) => Covered'
  OBVIOUS
<1> USE DEF envVars, qVars, reqVars, susVars, dlgVars, loopVars, ctlVars, ghost
<1>1. /\ TypeOK /\ sem \in Int /\ replace \in Nat /\ backup \in Nat /\ Len(queue) \in Nat
  BY StepFact, TypesFact DEF WInv
<1>2. ASSUME PollEnds PROVE Covered'
  <2>1. /\ UNCHANGED <<plain, stray, outer, queue>> /\ backup' = 0 /\ pc' = "leave"
    BY <1>2 DEF PollEnds, FinishWith
  <2> QED BY <2>1, LooseKept DEF Covered, AsideInv
<1>3. ASSUME OfferToPriorityKeyHandler PROVE Covered'
  <2>1. /\ UNCHANGED <<plain, stray, outer, queue, req>> /\ pc = "wait" /\ sem > 0
        /\ pc' \in {"wait", "leave"}
        /\ backup' \in {backup, 0} /\ replace' \in {replace, 0}
    BY <1>3 DEF OfferToPriorityKeyHandler, Offer, Iterate, EndIteration, FinishWith
  <2>2. pc' = "wait" => sem' >= sem - 1
    BY <1>1, <1>3 DEF OfferToPriorityKeyHandler, EndIteration, FinishWith
  <2>3. Completed' = Completed
    BY <2>1 DEF Completed
  <2> QED BY <1>1, <2>1, <2>2, <2>3, LooseKept, WaitGoesOn DEF Covered
<1>4. ASSUME OfferToAdditionalSource PROVE Covered'
  <2>1. /\ UNCHANGED <<plain, stray, outer, queue, req>> /\ pc = "wait" /\ sem > 0
        /\ pc' \in {"wait", "leave"}
        /\ backup' \in {backup, 0} /\ replace' \in {replace, 0}
    BY <1>4 DEF OfferToAdditionalSource, Offer, Iterate, EndIteration, FinishWith
  <2>2. pc' = "wait" => sem' >= sem - 1
    BY <1>1, <1>4 DEF OfferToAdditionalSource, EndIteration, FinishWith
  <2>3. Completed' = Completed
    BY <2>1 DEF Completed
  <2> QED BY <1>1, <2>1, <2>2, <2>3, LooseKept, WaitGoesOn DEF Covered
<1>5. ASSUME NEW r \in Requests, OfferToOplAsynchronousRequest(r) PROVE Covered'
  <2>1. /\ UNCHANGED <<plain, stray, outer, queue>> /\ pc = "wait" /\ sem > 0 /\ r \in Completed
        /\ backup' \in {backup, 0}
        /\ pc' = "leave" \/ (pc' = "wait" /\ sem' = sem - 1 /\ UNCHANGED req)
    BY <1>5 DEF OfferToOplAsynchronousRequest, Offer, Iterate, EndIteration, FinishWith, TopRequests
  <2>2. pc' = "wait" => Completed' # {} /\ sem' >= sem - 1
    BY <1>1, <2>1 DEF Completed
  <2> QED BY <1>1, <2>1, <2>2, LooseKept, WaitGoesOn DEF Covered, AsideInv
<1> QED BY <1>2, <1>3, <1>4, <1>5

\* The timer of the queue fires: the signals of the events it purges from the backup region stay.
LEMMA TimerCovered == WInv /\ AInv' /\ OfferToQueueTimer => Covered'
<1> SUFFICES ASSUME WInv, AInv', OfferToQueueTimer PROVE Covered'
  OBVIOUS
<1> DEFINE p == plain
           s == stray
           o == outer
           b == backup
           l == Len(queue)
           m == Len(queue')
           r == replace
           e == expiring
           x == sem
<1>1. /\ TypeOK /\ LooseInv /\ AsideInv /\ queue \in Seq(Events) /\ expiring \in 0..Len(queue)
      /\ p \in Nat /\ s \in Int /\ o \in Nat /\ b \in Nat /\ l \in Nat /\ r \in Nat /\ e \in Nat /\ x \in Int
  BY StepFact, TypesFact DEF WInv, TypeOK
<1>2. UNCHANGED <<plain, outer, req>> /\ pc = "wait" /\ sem > 0 /\ ~UserReady
  BY HandlerFact DEF OfferToQueueTimer, Offer, Iterate
<1>3. e <= l /\ l <= b
  BY <1>1, <1>2 DEF UserReady
<1>4. m = l - e
  BY <1>1, SuffixFact DEF OfferToQueueTimer
<1>5. ExpiringInBackup = e
  BY <1>1, <1>3 DEF ExpiringInBackup
<1>6. /\ stray' = s + e /\ backup' = b /\ replace' = r /\ pc' = "wait"
      /\ sem' = x - 1 - (e - e)
  BY <1>2, <1>5 DEF OfferToQueueTimer, EndIteration
<1>7. Completed' = Completed
  BY <1>2 DEF Completed
<1>8. s >= 0 /\ p + s - o >= 0 /\ p + s - o >= b - l
  BY <1>1 DEF LooseInv, Loose
<1>9. Completed = {} => (p + s - o) - r >= 0 /\ (p + s - o) - r >= b - l
  BY <1>1, <1>2 DEF AsideInv, Loose
<1>10. /\ s + e >= 0 /\ p + (s + e) - o >= 0 /\ p + (s + e) - o >= b - m
       /\ x > 0 => x - 1 - (e - e) >= 0
       /\ Completed = {} => (p + (s + e) - o) - r >= 0 /\ (p + (s + e) - o) - r >= b - m
  <2> HIDE DEF p, s, o, b, l, m, r, e, x
  <2> QED BY <1>1, <1>3, <1>4, <1>8, <1>9
<1>11. Loose' = p + (s + e) - o
  BY <1>2, <1>6 DEF Loose
<1> QED BY <1>2, <1>6, <1>7, <1>10, <1>11 DEF Covered, LooseInv, AsideInv

\* A signal for which nothing has completed is a loose one.
LEMMA FinalCovered == WInv /\ AInv' /\ OfferToFinalFunction => Covered'
<1> SUFFICES ASSUME WInv, AInv', OfferToFinalFunction PROVE Covered'
  OBVIOUS
<1> USE DEF envVars, qVars, reqVars, susVars, dlgVars, loopVars, ctlVars, ghost
<1> DEFINE p == plain
           q == plain'
           s == stray
           t == stray'
           o == outer
           b == backup
           l == Len(queue)
           r == replace
           x == sem
           d == One(call \in Polls)
<1>1. /\ TypeOK /\ LooseInv /\ AsideInv /\ AInv /\ HoldersInv
      /\ p \in Nat /\ s \in Int /\ o \in Nat /\ b \in Nat /\ l \in Nat /\ r \in Nat /\ x \in Int
  BY StepFact, TypesFact DEF WInv
<1>2. q \in Nat /\ t \in Int /\ d \in Nat
  BY DEF AInv, TInv, TypeOK, One
<1>3. /\ UNCHANGED <<outer, queue, req>> /\ pc = "wait" /\ sem > 0 /\ pkey = "none"
      /\ ~UserReady /\ Completed = {} /\ source # "done" /\ timer # "fired"
  BY HandlerFact DEF OfferToFinalFunction, Offer, Iterate
<1>4. x + r = (l - b) + d + (p + s - o)
  BY <1>1, <1>3, NothingFound DEF Loose
<1>5. s >= 0 /\ l <= b /\ (p + s - o) - r >= b - l
  BY <1>1, <1>3 DEF LooseInv, AsideInv, Loose, UserReady
<1>6. Completed' = Completed
  BY <1>3 DEF Completed
<1>7. Loose' = q + t - o
  BY <1>3 DEF Loose
<1>8. ASSUME Collects PROVE Covered'
  <2>1. pc' = "leave" /\ backup' = 0
    BY <1>8 DEF OfferToFinalFunction, EndIteration, FinishWith
  <2>2. d = 0
    BY <1>8 DEF Collects, WantsOpl, Polls, One
  <2>3. (p > 0 /\ q = p - 1 /\ t = s) \/ (p = 0 /\ q = p /\ t = s - 1)
    BY <1>1, <1>8 DEF OfferToFinalFunction, One
  <2>4. t >= 0 /\ q + t - o >= 0 /\ q + t - o >= 0 - l
    <3> HIDE DEF p, q, s, t, o, b, l, r, x, d
    <3>1. x >= 1 /\ x \in Int
      BY <1>1, <1>3 DEF x
    <3>2. p + s >= o + 1
      BY <1>1, <1>2, <1>4, <1>5, <2>2, <3>1
    <3> QED BY <1>1, <1>2, <1>5, <2>3, <3>2
  <2> QED BY <1>3, <1>7, <2>1, <2>4 DEF Covered, LooseInv, AsideInv
<1>9. ASSUME ~Collects, call \in Polls PROVE Covered'
  <2>1. pc' = "leave" /\ backup' = 0 /\ stray' = stray /\ plain' = plain
    BY <1>1, <1>9 DEF OfferToFinalFunction, EndIteration, FinishWith, One
  <2> QED BY <1>3, <2>1, LooseKept DEF Covered, AsideInv
<1>10. ASSUME ~Collects, call \notin Polls PROVE Covered'
  <2>1. /\ pc' = "wait" /\ backup' = b /\ stray' = s /\ plain' = p
        /\ replace' = r + 1 /\ sem' = x - 1
    BY <1>1, <1>3, <1>10 DEF OfferToFinalFunction, EndIteration, One
  <2>2. d = 0
    BY <1>10 DEF One
  <2>3. (p + s - o) - (r + 1) >= 0 /\ (p + s - o) - (r + 1) >= b - l /\ x - 1 >= 0
    <3> HIDE DEF p, s, o, b, l, r, x, d
    <3>1. x >= 1
      BY <1>1, <1>3 DEF x
    <3> QED BY <1>1, <1>4, <1>5, <2>2, <3>1
  <2>4. LooseInv'
    BY <1>3, <2>1, LooseKept
  <2>5. Loose' = p + s - o
    BY <1>3, <2>1 DEF Loose
  <2>6. AsideInv'
    BY <1>3, <2>1, <2>3, <2>5 DEF AsideInv
  <2> QED BY <2>1, <2>3, <2>4, <2>6 DEF Covered
<1> QED BY <1>8, <1>9, <1>10

LEMMA EventsCovered ==
  WInv /\ AInv' /\ (\/ OfferQueuedEvent \/ ProbeQueuedEvent
                    \/ \E f \in FepMoves, ok \in AppendOutcomes :
                         OfferWservEvent(f, ok) \/ ProbeWservEvent(f, ok)) => Covered'
<1> SUFFICES ASSUME WInv, AInv' PROVE
      (\/ OfferQueuedEvent \/ ProbeQueuedEvent
       \/ \E f \in FepMoves, ok \in AppendOutcomes :
            OfferWservEvent(f, ok) \/ ProbeWservEvent(f, ok)) => Covered'
  OBVIOUS
<1> USE DEF envVars, qVars, reqVars, susVars, dlgVars, loopVars, ctlVars, ghost
<1>1. /\ TypeOK /\ queue \in Seq(Events)
      /\ sem \in Int /\ replace \in Nat /\ backup \in Nat /\ Len(queue) \in Nat /\ plain \in Nat
  BY StepFact, TypesFact DEF WInv, TypeOK
<1>2. ASSUME OfferQueuedEvent PROVE Covered'
  <2> DEFINE l == Len(queue)
             b == backup
             i == b + 1
             gone == queue' = RemoveAt(queue, i) /\ backup' \in {b, 0}
             kept == queue' = queue /\ backup' = i
  <2>1. /\ UNCHANGED <<stray, outer, req>> /\ pc = "wait" /\ sem > 0 /\ l > b
        /\ pc' \in {"wait", "leave"} /\ replace' \in {replace, 0}
        /\ gone \/ kept \/ (queue' = RemoveAt(queue, i) /\ backup' = 0)
    BY <1>2 DEF OfferQueuedEvent, Offer, Iterate, EndIteration, FinishWith
  <2>2. plain' \in {plain, plain + 1}
    BY <1>1, <1>2 DEF OfferQueuedEvent, AnswerKeya, One
  <2>3. pc' = "wait" => sem' >= sem - 1
    BY <1>1, <1>2, <2>1 DEF OfferQueuedEvent, EndIteration, FinishWith, One
  <2>4. i \in 1..l
    BY <1>1, <2>1
  <2>5. queue' = RemoveAt(queue, i) => Len(queue') = l - 1
    BY <1>1, <2>4, RemoveAtFact
  <2>6. backup' = 0 \/ backup' <= Len(queue')
    <3> DEFINE m == Len(queue')
               c == backup'
    <3>1. (c \in {b, 0} /\ m = l - 1) \/ (c = i /\ m = l)
      BY <2>1, <2>5
    <3>2. l \in Nat /\ b \in Nat /\ l > b /\ i = b + 1
      BY <1>1, <2>1
    <3>3. c = 0 \/ c <= m
      <4> HIDE DEF l, b, i, m, c
      <4> QED BY <3>1, <3>2
    <3> QED BY <3>3
  <2>7. Completed' = Completed
    BY <2>1 DEF Completed
  <2> QED BY <2>1, <2>2, <2>3, <2>6, <2>7, LooseKept, WaitGoesOn DEF Covered
<1>3. ASSUME NEW f \in FepMoves, NEW ok \in AppendOutcomes, OfferWservEvent(f, ok) PROVE Covered'
  <2>1. /\ UNCHANGED <<stray, outer, req>> /\ pc = "wait" /\ sem > 0
        /\ pc' \in {"wait", "leave"} /\ replace' \in {replace, 0} /\ backup' \in {backup, 0}
        /\ queue' = queue \/ \E e \in Events : queue' = Append(queue, e)
    <3>1. incoming \in Events /\ [incoming EXCEPT !.kind = "key"] \in Events
      BY <1>1, <1>3 DEF TypeOK, OfferWservEvent, TakeWservEvent, Events, Kinds
    <3> QED BY <1>3, <3>1 DEF OfferWservEvent, Offer, Iterate, EndIteration, FinishWith
  <2>2. plain' \in {plain, plain + 1}
    BY <1>1, <1>3 DEF OfferWservEvent, AnswerKeya, One
  <2>3. pc' = "wait" => sem' >= sem - 1
    BY <1>1, <1>3, <2>1 DEF OfferWservEvent, EndIteration, FinishWith, One
  <2>4. Len(queue') >= Len(queue)
    BY <1>1, <2>1, AppendFact
  <2>5. Completed' = Completed
    BY <2>1 DEF Completed
  <2> QED BY <2>1, <2>2, <2>3, <2>4, <2>5, LooseKept, WaitGoesOn DEF Covered
<1>4. ASSUME ProbeQueuedEvent PROVE Covered'
  <2> DEFINE l == Len(queue)
             b == backup
             i == b + 1
  <2>1. /\ UNCHANGED <<stray, outer>> /\ pc = "probe" /\ l > b /\ pc' \in {"probe", "run"}
        /\ \/ queue' = RemoveAt(queue, i) /\ backup' \in {b, 0}
           \/ queue' = queue /\ backup' \in {i, 0}
    <3>1. /\ UNCHANGED <<stray, outer>> /\ pc = "probe" /\ l > b
      BY <1>4 DEF ProbeQueuedEvent
    <3> DEFINE e == queue[b + 1]
               takes == CompletesKeya(e) \/ (~CompletesKeya(e) /\ Matches(call, e) /\ TakesWhatItFinds(call))
    <3>2. pc' \in {"probe", "run"} /\ backup' \in {b, i, 0}
      BY <1>4 DEF ProbeQueuedEvent, Return
    <3>3. queue' = IF takes THEN RemoveAt(queue, i) ELSE queue
      BY <1>4 DEF ProbeQueuedEvent
    <3>4. (takes => backup' \in {b, 0}) /\ (~takes => backup' \in {i, 0})
      <4> HIDE DEF e
      <4> QED BY <1>4 DEF ProbeQueuedEvent, e
    <3> QED BY <1>1, <3>1, <3>2, <3>3, <3>4
  <2>2. plain' \in {plain, plain + 1}
    <3>1. \E c \in BOOLEAN : plain' = plain + One(c)
      BY <1>4 DEF ProbeQueuedEvent, CompletesKeya
    <3> QED BY <1>1, <3>1 DEF One
  <2>3. i \in 1..l
    BY <1>1, <2>1
  <2>4. queue' = RemoveAt(queue, i) => Len(queue') = l - 1
    BY <1>1, <2>3, RemoveAtFact
  <2>5. backup' = 0 \/ backup' <= Len(queue')
    <3> DEFINE m == Len(queue')
               c == backup'
    <3>1. (c \in {b, 0} /\ m = l - 1) \/ (c \in {i, 0} /\ m = l)
      BY <2>1, <2>4
    <3>2. l \in Nat /\ b \in Nat /\ l > b /\ i = b + 1
      BY <1>1, <2>1
    <3>3. c = 0 \/ c <= m
      <4> HIDE DEF l, b, i, m, c
      <4> QED BY <3>1, <3>2
    <3> QED BY <3>3
  <2> QED BY <2>1, <2>2, <2>5, LooseKept DEF Covered, AsideInv
<1>5. ASSUME NEW f \in FepMoves, NEW ok \in AppendOutcomes, ProbeWservEvent(f, ok) PROVE Covered'
  <2>1. UNCHANGED <<stray, outer>> /\ pc = "probe" /\ backup' = 0
    BY <1>5 DEF ProbeWservEvent
  <2>2. pc' \in {"probe", "run"}
    BY <1>5, <2>1 DEF ProbeWservEvent, Return
  <2>3. plain' \in {plain, plain + 1}
    <3>1. \E c \in BOOLEAN : plain' = plain + One(c)
      BY <1>5 DEF ProbeWservEvent
    <3> QED BY <1>1, <3>1 DEF One
  <2> QED BY <2>1, <2>2, <2>3, LooseKept DEF Covered, AsideInv
<1> QED BY <1>2, <1>3, <1>4, <1>5

LEMMA RestCovered ==
  WInv /\ AInv' /\ (\/ TakePriorityKey \/ WaitWhileSuspended \/ PurgeNonKey \/ EnterLoop
                    \/ ReturnFromWait \/ ReturnFromGetEvent \/ ReturnFromIoWaitStat
                    \/ \E ok \in AppendOutcomes : ReturnFromPause(ok)
                    \/ StartProbing \/ ProbeFindsNothing \/ DialogTakesSignal) => Covered'
<1> SUFFICES ASSUME WInv, AInv' PROVE
      (\/ TakePriorityKey \/ WaitWhileSuspended \/ PurgeNonKey \/ EnterLoop
       \/ ReturnFromWait \/ ReturnFromGetEvent \/ ReturnFromIoWaitStat
       \/ \E ok \in AppendOutcomes : ReturnFromPause(ok)
       \/ StartProbing \/ ProbeFindsNothing \/ DialogTakesSignal) => Covered'
  OBVIOUS
<1> USE DEF envVars, qVars, reqVars, susVars, dlgVars, loopVars, ctlVars, ghost
<1>1. /\ TypeOK /\ SetAsideInv /\ HoldersInv /\ LooseInv /\ sem >= 0
      /\ sem \in Int /\ replace \in Nat /\ backup \in Nat /\ Len(queue) \in Nat /\ plain \in Nat
      /\ stray \in Int /\ outer \in Nat
  BY StepFact, TypesFact DEF WInv, TypeOK
<1>2. ASSUME \/ TakePriorityKey \/ WaitWhileSuspended \/ ReturnFromWait \/ ReturnFromGetEvent
             \/ StartProbing \/ ProbeFindsNothing
      PROVE  Covered'
  <2>1. /\ UNCHANGED <<plain, stray, outer, queue>> /\ backup' \in {backup, 0}
        /\ pc' \notin {"wait", "dialog"}
    BY <1>2 DEF TakePriorityKey, WaitWhileSuspended, ReturnFromWait, ReturnFromGetEvent, StartProbing,
      ProbeFindsNothing, StartWait, Returns, Return
  <2> QED BY <1>1, <2>1, LooseKept DEF Covered, AsideInv
<1>3. ASSUME PurgeNonKey \/ \E ok \in AppendOutcomes : ReturnFromPause(ok) PROVE Covered'
  <2>1. /\ UNCHANGED <<plain, stray, outer, backup>> /\ pc' \notin {"wait", "dialog"}
        /\ pc \notin {"wait", "probe"}
    BY <1>3 DEF PurgeNonKey, ReturnFromPause, Returns, Return
  <2>2. backup' = 0
    BY <1>1, <2>1 DEF SetAsideInv
  <2> QED BY <1>1, <2>1, <2>2, LooseKept DEF Covered, AsideInv
<1>4. ASSUME EnterLoop PROVE Covered'
  <2>1. /\ UNCHANGED <<plain, stray, outer, queue, replace, backup>> /\ pc = "enter"
        /\ sem' = sem + DummySignal
    BY <1>4 DEF EnterLoop
  <2>2. replace' = 0 /\ backup' = 0
    BY <1>1, <2>1 DEF SetAsideInv
  <2>3. LooseInv'
    BY <1>1, <2>1, <2>2, LooseKept
  <2>4. Loose' \in Int /\ Len(queue') \in Nat
    BY <1>1, <2>1 DEF Loose
  <2>5. AsideInv'
    <3> DEFINE v == Loose'
               l == Len(queue')
    <3>1. v >= 0 /\ v >= 0 - l /\ v \in Int /\ l \in Nat
      BY <2>2, <2>3, <2>4 DEF LooseInv
    <3>2. v - 0 >= 0 /\ v - 0 >= 0 - l
      <4> HIDE DEF v, l
      <4> QED BY <3>1
    <3> QED BY <2>2, <3>2 DEF AsideInv
  <2>6. sem' >= 0
    BY <1>1, <2>1 DEF DummySignal, One
  <2> QED BY <2>3, <2>5, <2>6 DEF Covered
<1>5. ASSUME ReturnFromIoWaitStat PROVE Covered'
  <2> DEFINE p == plain
             s == stray
             o == outer
             l == Len(queue)
  <2>1. /\ UNCHANGED <<stray, queue, backup>> /\ pc = "leave" /\ pc' \in {"enter", "run"}
        /\ (plain' = p + 1 /\ outer' = o + 1) \/ (plain' = p /\ outer' = 0)
    BY <1>5 DEF ReturnFromIoWaitStat, Returns, Return
  <2>2. backup' = 0
    BY <1>1, <2>1 DEF SetAsideInv
  <2>3. p \in Nat /\ s \in Int /\ o \in Nat /\ l \in Nat /\ s >= 0 /\ p + s - o >= 0
    BY <1>1 DEF LooseInv, Loose
  <2>4. /\ (p + 1) + s - (o + 1) >= 0 /\ (p + 1) + s - (o + 1) >= 0 - l
        /\ p + s - 0 >= 0 /\ p + s - 0 >= 0 - l
    <3> HIDE DEF p, s, o, l
    <3> QED BY <2>3
  <2>5. LooseInv'
    BY <2>1, <2>2, <2>3, <2>4 DEF LooseInv, Loose
  <2> QED BY <2>1, <2>5 DEF Covered, AsideInv
<1>6. ASSUME DialogTakesSignal PROVE Covered'
  <2>1. /\ UNCHANGED <<plain, stray, outer, queue, backup>> /\ pc' = "dialog" /\ sem > 0
        /\ sem' = sem - 1
    BY <1>6 DEF DialogTakesSignal
  <2> QED BY <1>1, <2>1, LooseKept DEF Covered, AsideInv
<1> QED BY <1>2, <1>3, <1>4, <1>5, <1>6

LEMMA NextWInv == WInv /\ [Next]_vars => WInv'
<1> SUFFICES ASSUME WInv, [Next]_vars PROVE WInv'
  OBVIOUS
<1>1. AInv' /\ SetAsideInv' /\ HoldersInv'
  BY NextAInv, NextSetAside, NextHolders, StepFact DEF WInv, TInv
<1>2. Loop => Covered'
  BY <1>1, OffersCovered, TimerCovered, FinalCovered, EventsCovered, RestCovered DEF Loop
<1>3. UNCHANGED vars => Covered'
  BY DEF WInv, Covered, LooseInv, AsideInv, Loose, Completed, vars, qVars, reqVars, loopVars, ctlVars, ghost
<1>4. Covered'
  BY <1>2, <1>3, ProgramCovered, EnvironmentCovered DEF Next
<1> QED BY <1>1, <1>4, CoveredIsEnough, PTL

LEMMA InitWInv == Init => WInv
<1> SUFFICES ASSUME Init PROVE WInv
  OBVIOUS
<1>1. AInv /\ Len(queue) = 0
  BY InitAInv, EmptySeq DEF Init
<1> QED BY <1>1 DEF Init, WInv, SetAsideInv, HoldersInv, LooseInv, AsideInv, Loose

LEMMA SpecKeepsWInv == Spec => []WInv
BY InitWInv, NextWInv, PTL DEF Spec

-----------------------------------------------------------------------------
(* The theorems.                                                           *)

\* A thread that sleeps with no request completed has nothing else to be woken for, and is no poll.
LEMMA SleepsOnNothing ==
  ASSUME WInv, pc = "wait", sem = 0, Completed = {}
  PROVE  /\ Len(queue) <= backup /\ wserv # "ready" /\ pkey = "none"
         /\ timer # "fired" /\ source # "done"
         /\ call \notin Polls
<1> DEFINE l == Len(queue)
           v == Loose
           d == One(source = "done")
           y == One(call \in Polls)
           r == Ready
<1>1. Balance /\ TypeOK /\ HoldersInv
  BY StepFact DEF WInv
<1>2. /\ l \in Nat /\ replace \in Nat /\ backup \in Nat /\ d \in Nat /\ y \in Nat /\ r \in Nat
      /\ v \in Int /\ plain \in Nat /\ stray \in Int /\ outer \in Nat
  BY <1>1, TypesFact DEF Loose, One, Ready
<1>3. InWait = 0 + replace + backup - d /\ buffered = 0 /\ NCompleted = 0 /\ Dummy = y
  BY <1>1, CompletedCount, TypesFact DEF InWait, HoldersInv, Dummy, One
<1>4. InWait + outer + buffered = l + r + NCompleted + Dummy + plain + stray
  BY <1>1 DEF Balance, Queued
<1>5. v - replace >= 0 /\ v - replace >= backup - l
  BY DEF WInv, AsideInv
<1>6. v = plain + stray - outer
  BY DEF Loose
<1>7. l <= backup /\ r = 0 /\ d = 0 /\ y = 0
  <2> HIDE DEF l, v, d, y, r
  <2> QED BY <1>2, <1>3, <1>4, <1>5, <1>6
<1>8. wserv # "ready" /\ pkey = "none" /\ timer # "fired"
  BY <1>7 DEF Ready, One
<1> QED BY <1>7, <1>8 DEF One

\* Every wait the code calls immediate is: those within a step leave no signal owing, and a poll
\* at its limit finds its dummy signal, or another, unless a completed request that the program has
\* not collected has used it up.
THEOREM ImmediateWaits == Spec => []WaitsReturnStraightaway
<1>1. ASSUME WInv PROVE WaitsReturnStraightaway
  <2>1. sem >= 0 /\ sem \in Int
    BY <1>1, TypesFact DEF WInv, AInv, TInv, TypeOK
  <2>2. ASSUME pc = "wait", PollIsOver, ~(sem > 0), Completed = {} PROVE FALSE
    <3>1. sem = 0
      BY <2>1, <2>2
    <3> QED BY <1>1, <2>2, <3>1, SleepsOnNothing DEF PollIsOver
  <2> QED BY <2>1, <2>2 DEF WaitsReturnStraightaway
<1> QED BY <1>1, SpecKeepsWInv, PTL

\* A poll that sleeps has met a completed request that the program has not collected: nothing else
\* can use up the dummy signal that is to keep it awake.
THEOREM PollsStayAwake == Spec => []PollSleepsOnlyOnUncollected
<1>1. WInv => PollSleepsOnlyOnUncollected
  BY SleepsOnNothing DEF PollSleepsOnlyOnUncollected
<1> QED BY <1>1, SpecKeepsWInv, PTL

\* While no request is completed and uncollected, the thread never sleeps on a queued or ready
\* event, a priority key, the queue's timer or the timer of PAUSE.
THEOREM WakeupsKept == Spec => [](Completed = {} => NoLostWakeup)
<1>1. WInv => (Completed = {} => NoLostWakeup)
  BY SleepsOnNothing DEF NoLostWakeup
<1> QED BY <1>1, SpecKeepsWInv, PTL

\* A program without IOA has no request.
NoRequests == req = [r \in Requests |-> "none"]

LEMMA NextNoRequests == "IOA" \notin Keywords /\ NoRequests /\ [Next]_vars => NoRequests'
<1> SUFFICES ASSUME "IOA" \notin Keywords, NoRequests, [Next]_vars PROVE NoRequests'
  OBVIOUS
<1> USE DEF NoRequests, reqVars
<1>1. Completed = {}
  BY DEF Completed
<1>2. Environment => UNCHANGED req
  BY DEF Environment, WservEvent, RequestCompletes, PriorityKey, ShelfLifeExpires, PauseElapses
<1>3. Program => UNCHANGED req
  BY DEF Program, Get, GetEvent, Pause, IoWait, IoYield, EventCheck, IoSignal, Ioa, IocFails, Keyword,
    IoCancel, KeyA, KeyC, Key, TestEvent, ExecuteEnds, IoWaitStat, StartDialog, StopDialog
<1>4. ~\E r \in Requests : OfferToOplAsynchronousRequest(r)
  BY <1>1 DEF OfferToOplAsynchronousRequest, TopRequests
<1>5. ASSUME OfferQueuedEvent \/ ProbeQueuedEvent PROVE UNCHANGED req
  BY <1>5 DEF OfferQueuedEvent, ProbeQueuedEvent
<1>6. Loop => UNCHANGED req
  BY <1>4, <1>5, ZenonT(30) DEF Loop, TakePriorityKey, WaitWhileSuspended, PurgeNonKey, EnterLoop, PollEnds,
    OfferToPriorityKeyHandler, OfferToAdditionalSource, OfferToQueueTimer, OfferToFinalFunction,
    OfferWservEvent, ProbeWservEvent, ReturnFromWait, ReturnFromGetEvent, ReturnFromIoWaitStat,
    ReturnFromPause, StartProbing, ProbeFindsNothing, DialogTakesSignal
<1>7. UNCHANGED vars => UNCHANGED req
  BY DEF vars
<1> QED BY <1>2, <1>3, <1>6, <1>7 DEF Next

\* No wake-up is lost in a program that makes no device request: with keys, events, KEYA, PAUSE,
\* priority keys, dialogs and the queue's timer alone, a wait sleeps only while nothing is there.
THEOREM NoWakeupLost == ASSUME "IOA" \notin Keywords PROVE Spec => []NoLostWakeup
<1>1. Init => NoRequests
  BY DEF Init, NoRequests
<1>2. NoRequests /\ [Next]_vars => NoRequests'
  BY NextNoRequests
<1>3. NoRequests => Completed = {}
  BY DEF NoRequests, Completed
<1>4. Spec => [](Completed = {})
  BY <1>1, <1>2, <1>3, PTL DEF Spec
<1> QED BY <1>4, WakeupsKept, PTL

-----------------------------------------------------------------------------
(***************************************************************************)
(* Proofs that a program that is only typed at loses no key and gets them  *)
(* in the order in which they were typed: that the event loop then         *)
(* implements OplTypeAhead, whatever waits, probes and asynchronous        *)
(* requests the program makes and whenever it is suspended.                *)
(*                                                                         *)
(* PAUSE and the dialogs are left out because they do lose the order or    *)
(* the keys: PAUSE puts the key that ended it back behind the others, a    *)
(* dialog empties the queue.  So are the expiry of queued events, a        *)
(* front-end processor that eats keys and a queue that cannot grow.        *)
(***************************************************************************)

TypingOnly == /\ EventKinds \subseteq {"key"}
              /\ ~TimerFires
              /\ FepMoves \subseteq {"pass", "replace"} /\ AppendOutcomes \subseteq {TRUE}
              /\ {"PAUSE", "DIALOG"} \cap Keywords = {}

TheKey(n) == [kind |-> "key", n |-> n]

\* A wait of GET or GETEVENT has a key in hand that it is about to return.
Hand == pc = "leave" /\ call \in {"get", "getevent"}

\* The number of the last key that has left the queue.
Before == last + One(Hand)

\* Events q, then the server's event e if it has one ready, are the keys numbered b + 1 to a.
Line(q, b, a, ready, e) == /\ \A i \in 1..Len(q) : q[i] = TheKey(b + i)
                           /\ a = b + Len(q) + One(ready)
                           /\ ready => e = TheKey(a)

LineInv == /\ Line(queue, Before, arrived, wserv = "ready", incoming)
           /\ Hand => got = TheKey(last + 1)

\* A wait sets keys aside only while the program is suspended or wants none of them; a probe
\* sets none aside.
BackInv == /\ pc = "wait" /\ ~suspended /\ backup > 0 => keya = "none" /\ ~Matches(call, TheKey(0))
           /\ pc = "probe" => backup = 0

\* Where a program can be that uses neither PAUSE nor dialogs.
CtlInv == /\ pc # "dialog" /\ source = "none" /\ timer # "fired" /\ wserv # "idle"
          /\ pc \in {"probe_enter", "probe"} <=> call \in Probes
          /\ pc \in {"enter", "wait", "leave"} =>
               call \in {"get", "getevent", "iowait", "iowaitstat", "suspended"} \cup Polls

KInv == TInv /\ SetAsideInv /\ LineInv /\ BackInv /\ CtlInv

-----------------------------------------------------------------------------
(* What may happen to the line of keys.                                    *)

LEMMA RemoveHead ==
  ASSUME NEW S, NEW s \in Seq(S), Len(s) > 0
  PROVE  /\ RemoveAt(s, 1) \in Seq(S) /\ Len(RemoveAt(s, 1)) = Len(s) - 1
         /\ \A i \in 1..(Len(s) - 1) : RemoveAt(s, 1)[i] = s[i + 1]
<1> DEFINE back == SubSeq(s, 2, Len(s))
<1>1. Len(s) \in Nat /\ \A j \in 1..Len(s) : s[j] \in S
  BY LenProperties, ElementOfSeq
<1>2. /\ back \in Seq(S) /\ Len(back) = Len(s) - 1
      /\ \A i \in 1..(Len(s) - 1) : back[i] = s[i + 1]
  <2>1. \A j \in 2..Len(s) : s[j] \in S
    BY <1>1
  <2>2. /\ back \in Seq(S)
        /\ Len(back) = IF 2 <= Len(s) THEN Len(s) - 2 + 1 ELSE 0
        /\ \A i \in 1..(Len(s) - 2 + 1) : back[i] = s[2 + i - 1]
    BY <1>1, <2>1, SubSeqProperties
  <2>3. Len(back) = Len(s) - 1
    <3> DEFINE n == Len(s)
               k == Len(back)
    <3>1. n \in Nat /\ n > 0 /\ k = IF 2 <= n THEN n - 2 + 1 ELSE 0
      BY <1>1, <2>2
    <3>2. k = n - 1
      <4> HIDE DEF n, k
      <4> QED BY <3>1
    <3> QED BY <3>2
  <2>4. ASSUME NEW i \in 1..(Len(s) - 1) PROVE back[i] = s[i + 1]
    <3>1. i \in 1..(Len(s) - 2 + 1) /\ 2 + i - 1 = i + 1
      BY <1>1
    <3> QED BY <2>2, <3>1
  <2> QED BY <2>2, <2>3, <2>4
<1>3. SubSeq(s, 1, 0) = <<>>
  BY <1>1, SubSeqEmpty
<1>4. RemoveAt(s, 1) = <<>> \o back
  BY <1>3 DEF RemoveAt
<1>5. RemoveAt(s, 1) = back
  BY <1>2, <1>4, ConcatEmptySeq
<1> QED BY <1>2, <1>5

LEMMA AppendLast ==
  ASSUME NEW S, NEW s \in Seq(S), NEW e \in S
  PROVE  /\ Append(s, e) \in Seq(S) /\ Len(Append(s, e)) = Len(s) + 1
         /\ \A i \in 1..Len(s) : Append(s, e)[i] = s[i]
         /\ Append(s, e)[Len(s) + 1] = e
BY AppendProperties

\* The program takes the first event of the queue.
LEMMA LineTakesQueued ==
  ASSUME NEW q \in Seq(Events), NEW b \in Nat, NEW a \in Nat, NEW r \in BOOLEAN, NEW e,
         Line(q, b, a, r, e), Len(q) > 0
  PROVE  /\ Line(RemoveAt(q, 1), b + 1, a, r, e)
         /\ q[1] = TheKey(b + 1) /\ b < a
<1> DEFINE l == Len(q)
           m == Len(RemoveAt(q, 1))
           o == One(r)
<1>1. l \in Nat /\ l > 0 /\ m = l - 1 /\ \A i \in 1..(l - 1) : RemoveAt(q, 1)[i] = q[i + 1]
  BY RemoveHead, LenProperties
<1>2. a = b + l + o /\ o \in Nat
  BY DEF Line, One
<1>3. a = b + 1 + m + o /\ b < a
  <2> HIDE DEF l, m, o
  <2> QED BY <1>1, <1>2
<1>4. ASSUME NEW i \in 1..m PROVE RemoveAt(q, 1)[i] = TheKey(b + 1 + i)
  <2>1. i + 1 \in 1..l /\ i \in 1..(l - 1) /\ b + (i + 1) = b + 1 + i
    BY <1>1
  <2> QED BY <1>1, <2>1 DEF Line
<1> QED BY <1>1, <1>3, <1>4 DEF Line

\* The program takes the event of the server, the queue being empty.
LEMMA LineTakesReady ==
  ASSUME NEW q \in Seq(Events), NEW b \in Nat, NEW a \in Nat, NEW e, Line(q, b, a, TRUE, e), Len(q) = 0
  PROVE  Line(q, b + 1, a, FALSE, e) /\ e = TheKey(b + 1) /\ b < a
BY DEF Line, One

\* The event of the server goes to the end of the queue.
LEMMA LineQueues ==
  ASSUME NEW q \in Seq(Events), NEW b \in Nat, NEW a \in Nat, NEW e \in Events, Line(q, b, a, TRUE, e)
  PROVE  Line(Append(q, e), b, a, FALSE, e)
<1> DEFINE l == Len(q)
<1>1. l \in Nat /\ Len(Append(q, e)) = l + 1
  BY AppendLast, LenProperties
<1>2. a = b + l + 1 /\ e = TheKey(a)
  BY DEF Line, One
<1>3. ASSUME NEW i \in 1..(l + 1) PROVE Append(q, e)[i] = TheKey(b + i)
  <2>1. CASE i = l + 1
    BY <1>1, <1>2, <2>1, AppendLast
  <2>2. CASE i \in 1..l
    BY <2>2, AppendLast DEF Line
  <2> QED BY <1>1, <2>1, <2>2
<1>4. a = b + (l + 1) + 0
  BY <1>1, <1>2
<1> QED BY <1>1, <1>3, <1>4 DEF Line, One

\* A key arrives.
LEMMA LineArrives ==
  ASSUME NEW q \in Seq(Events), NEW b \in Nat, NEW a \in Nat, NEW e, Line(q, b, a, FALSE, e)
  PROVE  Line(q, b, a + 1, TRUE, TheKey(a + 1))
BY LenProperties DEF Line, One

LEMMA HeadIsKey ==
  ASSUME NEW n, NEW c
  PROVE  /\ TheKey(n).kind = "key" /\ TheKey(n).n = n /\ [TheKey(n) EXCEPT !.kind = "key"] = TheKey(n)
         /\ Matches(c, TheKey(n)) <=> Matches(c, TheKey(0))
BY DEF TheKey, Matches
-----------------------------------------------------------------------------
(* Each step.                                                              *)

LEMMA KeyFacts ==
  ASSUME KInv
  PROVE  /\ TypeOK /\ queue \in Seq(Events) /\ Len(queue) \in Nat /\ backup \in Nat /\ last \in Nat
         /\ arrived \in Nat /\ Before \in Nat
         /\ NonKeys = {}
         /\ Line(queue, Before, arrived, wserv = "ready", incoming)
         /\ wserv = "ready" => incoming \in Events
         /\ pc \notin {"wait"} => backup = 0
         /\ ~Hand => Before = last
         /\ Hand => Before = last + 1
<1>1. /\ TypeOK /\ queue \in Seq(Events) /\ Len(queue) \in Nat /\ backup \in Nat /\ last \in Nat
      /\ arrived \in Nat /\ (wserv = "ready" => incoming \in Events)
  BY LenProperties DEF KInv, TInv, TypeOK
<1>2. Before \in Nat /\ (~Hand => Before = last) /\ (Hand => Before = last + 1)
  BY <1>1 DEF Before, One
<1>3. Line(queue, Before, arrived, wserv = "ready", incoming)
  BY DEF KInv, LineInv
<1>4. NonKeys = {}
  BY <1>3, HeadIsKey DEF NonKeys, Line
<1>5. pc \notin {"wait"} => backup = 0
  BY DEF KInv, SetAsideInv, BackInv
<1> QED BY <1>1, <1>2, <1>3, <1>4, <1>5

\* What a step does to the numbers of keys typed and taken, and to the line between them.
Orderly == LineInv' /\ [TypeAhead!Next]_<<arrived, last, Ending>>

\* A step that neither moves a key nor changes the key in hand.
LEMMA OrderKept ==
  ASSUME LineInv, UNCHANGED <<queue, last, envVars, Ending>>, Hand' <=> Hand, Hand => got' = got
  PROVE  Orderly
BY DEF Orderly, LineInv, Before, Line, TheKey, envVars, One

LEMMA EnvironmentOrderly == TypingOnly /\ KInv /\ Environment => Orderly /\ BackInv' /\ CtlInv'
<1> SUFFICES ASSUME TypingOnly, KInv PROVE Environment => Orderly /\ BackInv' /\ CtlInv'
  OBVIOUS
<1> USE DEF envVars, qVars, reqVars, susVars, dlgVars, loopVars, ctlVars, ghost
<1>1. ASSUME NEW k \in EventKinds, WservEvent(k) PROVE Orderly /\ BackInv' /\ CtlInv'
  <2>1. k = "key"
    BY DEF TypingOnly
  <2>2. /\ wserv = "pending" /\ wserv' = "ready" /\ arrived' = arrived + 1
        /\ incoming' = TheKey(arrived + 1)
        /\ UNCHANGED <<queue, last, got, pc, call, suspended, backup, keya, source, timer>>
    BY <1>1, <2>1 DEF WservEvent, TheKey
  <2>3. Line(queue, Before, arrived, FALSE, incoming)
    BY <2>2, KeyFacts
  <2>4. Line(queue, Before, arrived + 1, TRUE, TheKey(arrived + 1))
    BY <2>3, LineArrives, KeyFacts
  <2>5. LineInv'
    BY <2>2, <2>4 DEF LineInv, KInv, Before, Hand
  <2>6. TypeAhead!Next
    BY <2>2 DEF TypeAhead!Next, TypeAhead!Type, Ending
  <2> QED BY <2>2, <2>5, <2>6 DEF Orderly, KInv, BackInv, CtlInv, Matches
<1>2. ASSUME \/ \E r \in Requests : RequestCompletes(r)
             \/ \E k \in {"s", "q"} : PriorityKey(k)
      PROVE  Orderly /\ BackInv' /\ CtlInv'
  <2>1. UNCHANGED <<queue, last, envVars, got, pc, call, suspended, backup, keya, source, timer>>
    BY <1>2 DEF RequestCompletes, PriorityKey
  <2> QED BY <2>1, OrderKept DEF KInv, Hand, BackInv, CtlInv, Matches, Ending
<1>3. ~ShelfLifeExpires /\ ~PauseElapses
  BY DEF TypingOnly, ShelfLifeExpires, KInv, CtlInv, PauseElapses
<1> QED BY <1>1, <1>2, <1>3 DEF Environment

LEMMA ProgramOrderly == TypingOnly /\ KInv /\ Program => Orderly /\ BackInv' /\ CtlInv'
<1> SUFFICES ASSUME TypingOnly, KInv, Program PROVE Orderly /\ BackInv' /\ CtlInv'
  OBVIOUS
<1> USE DEF envVars, qVars, reqVars, susVars, dlgVars, loopVars, ctlVars, ghost
<1>1. ~StartDialog /\ ~StopDialog /\ \A c \in {"pause_key", "pause_time", "pause_both"} : ~Pause(c)
  BY DEF TypingOnly, StartDialog, StopDialog, Pause, Keyword, KInv, CtlInv
<1>2. /\ pc = "run" /\ pc' \in {"run", "enter", "probe_enter"}
      /\ UNCHANGED <<queue, last, wserv, arrived, incoming, source, timer, backup, suspended>>
      /\ pc' = "run" => call' = call
      /\ pc' = "enter" =>
           call' \in {"get", "getevent", "iowait", "iowaitstat", "suspended"} \cup Polls
      /\ pc' = "probe_enter" => call' \in Probes /\ (call' = "consume" <=> ExecuteEnds)
      /\ ExecuteEnds => pc' = "probe_enter"
  BY <1>1 DEF Program, Get, GetEvent, IoWait, IoYield, EventCheck, IoSignal, Ioa, IocFails, Keyword,
    IoCancel, KeyA, KeyC, Key, TestEvent, ExecuteEnds, IoWaitStat, StartWait, StartProbe, Polls, Probes
<1>3. ~Hand /\ ~Hand'
  BY <1>2 DEF Hand
<1>4. Orderly
  <2>1. ~Ending
    BY <1>2 DEF Ending, KInv, CtlInv, Probes
  <2>2. CASE ExecuteEnds
    <3>1. LineInv'
      BY <1>2, <1>3, KeyFacts DEF LineInv, KInv, Before, Hand, Line, TheKey, One
    <3>2. TypeAhead!Next
      BY <1>2, <2>1, <2>2 DEF TypeAhead!Next, TypeAhead!StartEnding, Ending
    <3> QED BY <3>1, <3>2 DEF Orderly
  <2>3. CASE ~ExecuteEnds
    <3>1. Ending' = Ending
      BY <1>2, <2>1, <2>3 DEF Ending, Polls
    <3> QED BY <1>2, <1>3, <3>1, OrderKept DEF KInv
  <2> QED BY <2>2, <2>3
<1>5. BackInv' /\ CtlInv'
  BY <1>2 DEF KInv, BackInv, CtlInv, Probes, Polls
<1> QED BY <1>4, <1>5

\* A step that takes a key from the line, or from the hand, is the next one of OplTypeAhead.
LEMMA TakeIsNext ==
  ASSUME NEW b \in Nat, b = last, last' = b + 1, b < arrived, arrived' = arrived, Ending' = Ending
  PROVE  TypeAhead!Next
BY DEF TypeAhead!Next, TypeAhead!Take

\* So is one in which the end of an Execute takes it.
LEMMA SoakIsNext ==
  ASSUME NEW b \in Nat, b = last, last' = b + 1, b < arrived, arrived' = arrived, Ending, ~Ending'
  PROVE  TypeAhead!Next
BY DEF TypeAhead!Next, TypeAhead!SoakUp

\* Handlers that look at no key, and the end of a poll.
LEMMA OffersOrderly ==
  TypingOnly /\ KInv /\ (\/ PollEnds \/ OfferToPriorityKeyHandler \/ OfferToAdditionalSource
                         \/ OfferToQueueTimer \/ OfferToFinalFunction
                         \/ \E r \in Requests : OfferToOplAsynchronousRequest(r))
    => Orderly /\ BackInv' /\ CtlInv'
<1> SUFFICES ASSUME TypingOnly, KInv PROVE
      (\/ PollEnds \/ OfferToPriorityKeyHandler \/ OfferToAdditionalSource
       \/ OfferToQueueTimer \/ OfferToFinalFunction
       \/ \E r \in Requests : OfferToOplAsynchronousRequest(r)) => Orderly /\ BackInv' /\ CtlInv'
  OBVIOUS
<1> USE DEF envVars, qVars, reqVars, susVars, dlgVars, loopVars, ctlVars, ghost
<1>1. ~OfferToAdditionalSource /\ ~OfferToQueueTimer
  BY DEF OfferToAdditionalSource, OfferToQueueTimer, Offer, Handler, KInv, CtlInv
<1>2. ASSUME \/ PollEnds \/ OfferToPriorityKeyHandler \/ OfferToFinalFunction
             \/ \E r \in Requests : OfferToOplAsynchronousRequest(r)
      PROVE  /\ pc = "wait" /\ pc' \in {"wait", "leave"}
             /\ UNCHANGED <<queue, last, envVars, timer, keya, call>>
             /\ source' \in {source, "none"}
             /\ pc' = "leave" => call \notin {"get", "getevent"}
             /\ pc' = "wait" /\ ~suspended' => backup' = 0 \/ (~suspended /\ backup' = backup)
  <2>1. pkey \in {"none", "s", "q"} /\ source = "none"
    BY DEF KInv, TInv, TypeOK, CtlInv
  <2>2. CASE PollEnds
    BY <2>2 DEF PollEnds, PollIsOver, Polls, FinishWith
  <2>3. CASE OfferToPriorityKeyHandler
    BY <2>1, <2>3 DEF OfferToPriorityKeyHandler, Iterate, LooksAgain, EndedByResuming, EndIteration,
      FinishWith
  <2>4. CASE OfferToFinalFunction
    BY <2>4 DEF OfferToFinalFunction, Offer, Iterate, Collects, WantsOpl, Polls, EndIteration, FinishWith
  <2>5. CASE \E r \in Requests : OfferToOplAsynchronousRequest(r)
    BY <2>5 DEF OfferToOplAsynchronousRequest, Offer, Iterate, Collects, WantsOpl, EndIteration, FinishWith
  <2> QED BY <1>2, <2>2, <2>3, <2>4, <2>5
<1>3. ASSUME \/ PollEnds \/ OfferToPriorityKeyHandler \/ OfferToFinalFunction
             \/ \E r \in Requests : OfferToOplAsynchronousRequest(r)
      PROVE  Orderly /\ BackInv' /\ CtlInv'
  <2>1. ~Hand /\ ~Hand'
    BY <1>2, <1>3 DEF Hand
  <2>2. Orderly
    BY <1>2, <1>3, <2>1, OrderKept DEF KInv, Ending
  <2>3. backup \in Nat
    BY KeyFacts
  <2>4. BackInv'
    BY <1>2, <1>3, <2>3 DEF KInv, BackInv, Matches
  <2>5. CtlInv'
    BY <1>2, <1>3 DEF KInv, CtlInv
  <2> QED BY <2>2, <2>4, <2>5
<1> QED BY <1>1, <1>3

LEMMA QueuedOrderly == TypingOnly /\ KInv /\ OfferQueuedEvent => Orderly /\ BackInv' /\ CtlInv'
<1> SUFFICES ASSUME TypingOnly, KInv, OfferQueuedEvent PROVE Orderly /\ BackInv' /\ CtlInv'
  OBVIOUS
<1> USE DEF envVars, qVars, reqVars, susVars, dlgVars, loopVars, ctlVars, ghost
<1> DEFINE e == queue[backup + 1]
           matches == ~suspended /\ Matches(call, e)
           completes == ~suspended /\ ~matches /\ CompletesKeya(e)
<1>1. /\ pc = "wait" /\ Len(queue) > backup
      /\ UNCHANGED <<envVars, timer, suspended, call>>
      /\ got' = IF suspended THEN got ELSE e
      /\ AnswerKeya(completes, e)
  BY DEF OfferQueuedEvent, Offer, Iterate
<1>2. /\ TypeOK /\ queue \in Seq(Events) /\ Len(queue) \in Nat /\ backup \in Nat /\ last \in Nat
      /\ arrived \in Nat /\ Before = last /\ ~Hand /\ Len(queue) > 0
      /\ Line(queue, last, arrived, wserv = "ready", incoming)
  <2>1. ~Hand
    BY <1>1 DEF Hand
  <2> QED BY <1>1, <2>1, KeyFacts
<1>3. e = TheKey(last + (backup + 1)) /\ e.kind = "key" /\ (Matches(call, e) <=> Matches(call, TheKey(0)))
  <2>1. backup + 1 \in 1..Len(queue)
    BY <1>1, <1>2
  <2>2. e = TheKey(last + (backup + 1))
    BY <1>2, <2>1 DEF Line
  <2> QED BY <2>2, HeadIsKey
<1>4. CtlInv /\ call \in {"get", "getevent", "iowait", "iowaitstat", "suspended"} \cup Polls
  BY <1>1 DEF KInv, CtlInv
<1>5. Matches(call, e) => call \in {"get", "getevent"}
  BY <1>4 DEF Matches, AnyEvent, KeysOnly, Polls
<1>6. CASE matches \/ completes
  <2>1. /\ queue' = RemoveAt(queue, backup + 1)
        /\ pc' = IF matches \/ WantsOpl(call) THEN "leave" ELSE "wait"
        /\ pc' = "wait" => backup' = backup
        /\ source' = "none"
    BY <1>1, <1>4, <1>6 DEF OfferQueuedEvent, EndIteration, FinishWith, CtlInv
  <2>2. backup = 0
    <3>1. ~suspended /\ (Matches(call, TheKey(0)) \/ keya # "none")
      BY <1>3, <1>6 DEF CompletesKeya
    <3> QED BY <1>1, <1>2, <3>1 DEF KInv, BackInv
  <2>3. /\ queue' = RemoveAt(queue, 1) /\ e = TheKey(last + 1)
        /\ Line(queue', last + 1, arrived, wserv = "ready", incoming)
        /\ last < arrived
    <3>1. backup + 1 = 1
      BY <2>2
    <3>2. Line(RemoveAt(queue, 1), last + 1, arrived, wserv = "ready", incoming) /\ last < arrived
      BY <1>2, LineTakesQueued
    <3> QED BY <1>3, <2>1, <3>1, <3>2
  <2>4. CASE matches
    <3>1. last' = last /\ Hand' /\ got' = e /\ keya' = keya /\ pc' = "leave"
      BY <1>1, <1>5, <2>1, <2>4 DEF AnswerKeya, Hand
    <3>2. Before' = last + 1
      BY <1>2, <3>1 DEF Before, One
    <3>3. LineInv'
      BY <1>1, <2>3, <3>1, <3>2 DEF LineInv
    <3> QED BY <1>1, <1>4, <2>1, <3>1, <3>3 DEF Orderly, BackInv, CtlInv, Ending
  <2>5. CASE ~matches
    <3>1. last' = last + 1 /\ keya' = "none"
      BY <1>1, <1>6, <2>3, <2>5, HeadIsKey DEF AnswerKeya
    <3>2. ~Hand'
      BY <1>1, <2>1, <2>5 DEF Hand, WantsOpl
    <3>3. Before' = last + 1
      BY <1>2, <3>1, <3>2 DEF Before, One
    <3>4. LineInv'
      BY <1>1, <2>3, <3>2, <3>3 DEF LineInv
    <3>5. TypeAhead!Next
      BY <1>1, <1>2, <2>3, <3>1, TakeIsNext DEF Ending
    <3>6. BackInv'
      BY <2>1, <2>2 DEF BackInv
    <3> QED BY <1>1, <1>4, <2>1, <3>4, <3>5, <3>6 DEF Orderly, CtlInv
  <2> QED BY <2>4, <2>5
<1>7. CASE ~matches /\ ~completes
  <2>1. UNCHANGED <<queue, source, pc, last, keya>>
    BY <1>1, <1>7 DEF OfferQueuedEvent, AnswerKeya
  <2>2. ~Hand'
    BY <1>1, <2>1 DEF Hand
  <2>3. Orderly
    BY <1>1, <1>2, <2>1, <2>2, OrderKept DEF KInv, Ending
  <2>4. ~suspended => keya = "none" /\ ~Matches(call, TheKey(0))
    <3>1. keya \in {"none", "keys", "any"}
      BY <1>2 DEF TypeOK
    <3> QED BY <1>3, <1>7, <3>1 DEF CompletesKeya
  <2>5. BackInv'
    BY <1>1, <2>1, <2>4 DEF BackInv, Matches
  <2> QED BY <1>1, <1>4, <2>1, <2>3, <2>5 DEF CtlInv
<1> QED BY <1>6, <1>7

LEMMA ServerOrderly ==
  ASSUME TypingOnly, KInv, NEW f \in FepMoves, NEW ok \in AppendOutcomes, OfferWservEvent(f, ok)
  PROVE  Orderly /\ BackInv' /\ CtlInv'
<1> USE DEF envVars, qVars, reqVars, susVars, dlgVars, loopVars, ctlVars, ghost
<1> DEFINE e == IF f = "replace" THEN [incoming EXCEPT !.kind = "key"] ELSE incoming
           offered == f = "pass" /\ ~suspended
           matches == offered /\ Matches(call, e)
           completes == offered /\ ~matches /\ CompletesKeya(e)
           appends == ok /\ f # "eat" /\ ~matches /\ ~completes
<1>1. /\ pc = "wait" /\ Len(queue) <= backup /\ wserv = "ready" /\ wserv' = "pending"
      /\ UNCHANGED <<incoming, arrived, timer, suspended, call>>
      /\ got' = incoming
      /\ AnswerKeya(completes, e)
      /\ queue' = IF appends THEN Append(queue, e) ELSE queue
      /\ EndIteration(matches \/ (completes /\ WantsOpl(call)),
                      sem - 1 + One(completes \/ appends), source, replace, backup)
  BY DEF OfferWservEvent, Offer, Iterate, TakeWservEvent
<1>2. /\ TypeOK /\ queue \in Seq(Events) /\ Len(queue) \in Nat /\ backup \in Nat /\ last \in Nat
      /\ arrived \in Nat /\ Before = last /\ ~Hand /\ incoming \in Events
      /\ Line(queue, last, arrived, TRUE, incoming)
  <2>1. ~Hand
    BY <1>1 DEF Hand
  <2> QED BY <1>1, <2>1, KeyFacts
<1>3. f \in {"pass", "replace"} /\ ok = TRUE
  BY DEF TypingOnly
<1>4. incoming = TheKey(arrived) /\ e = incoming /\ (Matches(call, e) <=> Matches(call, TheKey(0)))
  <2>1. incoming = TheKey(arrived)
    BY <1>2 DEF Line
  <2>2. e = TheKey(arrived)
    BY <2>1, HeadIsKey
  <2> QED BY <2>1, <2>2, HeadIsKey
<1>5. CtlInv /\ call \in {"get", "getevent", "iowait", "iowaitstat", "suspended"} \cup Polls
  BY <1>1 DEF KInv, CtlInv
<1>6. Matches(call, e) => call \in {"get", "getevent"}
  BY <1>5 DEF Matches, AnyEvent, KeysOnly, Polls
<1>7. /\ pc' = IF matches \/ (completes /\ WantsOpl(call)) THEN "leave" ELSE "wait"
      /\ backup' \in {backup, 0} /\ source' = "none"
  BY <1>1, <1>5 DEF EndIteration, FinishWith, CtlInv
<1>8. CASE matches \/ completes
  <2>1. ~suspended /\ (Matches(call, TheKey(0)) \/ keya # "none")
    BY <1>4, <1>8 DEF CompletesKeya
  <2>2. backup = 0 /\ Len(queue) = 0
    <3>1. backup = 0
      BY <1>1, <1>2, <2>1 DEF KInv, BackInv
    <3> QED BY <1>1, <1>2, <3>1
  <2>3. Line(queue, last + 1, arrived, FALSE, incoming) /\ incoming = TheKey(last + 1) /\ last < arrived
    BY <1>2, <2>2, LineTakesReady
  <2>4. queue' = queue
    BY <1>1, <1>8
  <2>5. BackInv'
    BY <1>7, <2>2 DEF BackInv
  <2>6. CASE matches
    <3>1. last' = last /\ Hand' /\ pc' = "leave"
      BY <1>1, <1>6, <1>7, <2>6 DEF AnswerKeya, Hand
    <3>2. Before' = last + 1
      BY <1>2, <3>1 DEF Before, One
    <3>3. LineInv'
      BY <1>1, <2>3, <2>4, <3>1, <3>2 DEF LineInv
    <3> QED BY <1>1, <1>5, <1>7, <2>5, <3>1, <3>3 DEF Orderly, CtlInv, Ending
  <2>7. CASE ~matches
    <3>1. last' = last + 1
      BY <1>1, <1>4, <1>8, <2>3, <2>7, HeadIsKey DEF AnswerKeya
    <3>2. ~Hand'
      BY <1>1, <1>7, <2>7 DEF Hand, WantsOpl
    <3>3. Before' = last + 1
      BY <1>2, <3>1, <3>2 DEF Before, One
    <3>4. LineInv'
      BY <1>1, <2>3, <2>4, <3>2, <3>3 DEF LineInv
    <3>5. TypeAhead!Next
      BY <1>1, <1>2, <2>3, <3>1, TakeIsNext DEF Ending
    <3> QED BY <1>1, <1>5, <1>7, <2>5, <3>4, <3>5 DEF Orderly, CtlInv
  <2> QED BY <2>6, <2>7
<1>9. CASE ~matches /\ ~completes
  <2>1. queue' = Append(queue, incoming) /\ UNCHANGED <<pc, last, keya>>
    BY <1>1, <1>3, <1>4, <1>7, <1>9 DEF AnswerKeya
  <2>2. ~Hand' /\ Before' = last
    BY <1>1, <1>2, <2>1 DEF Hand, Before, One
  <2>3. LineInv'
    <3>1. Line(queue', last, arrived, FALSE, incoming)
      BY <1>2, <2>1, LineQueues
    <3> QED BY <1>1, <2>2, <3>1 DEF LineInv
  <2>4. BackInv'
    BY <1>1, <1>2, <1>7, <2>1 DEF KInv, BackInv, Matches
  <2> QED BY <1>1, <1>5, <1>7, <2>1, <2>3, <2>4 DEF Orderly, CtlInv, Ending
<1> QED BY <1>8, <1>9

\* A probe takes the first key of the line, or finds it and leaves it there.
LEMMA ProbeQueuedOrderly ==
  ASSUME TypingOnly, KInv, ProbeQueuedEvent PROVE Orderly /\ BackInv' /\ CtlInv'
<1> USE DEF envVars, qVars, reqVars, susVars, dlgVars, loopVars, ctlVars, ghost
<1>1. pc = "probe" /\ Len(queue) > backup /\ UNCHANGED <<envVars, timer, source>>
  BY DEF ProbeQueuedEvent
<1>2. /\ TypeOK /\ queue \in Seq(Events) /\ Len(queue) \in Nat /\ last \in Nat
      /\ arrived \in Nat /\ Before = last /\ ~Hand /\ backup = 0
      /\ Line(queue, last, arrived, wserv = "ready", incoming)
  <2>1. ~Hand
    BY <1>1 DEF Hand
  <2> QED BY <1>1, <2>1, KeyFacts
<1> DEFINE e == queue[1]
           completes == CompletesKeya(e)
           takes == completes \/ TakesWhatItFinds(call)
<1>3. /\ Line(RemoveAt(queue, 1), last + 1, arrived, wserv = "ready", incoming)
      /\ e = TheKey(last + 1) /\ last < arrived
  <2>1. Len(queue) > 0
    BY <1>1, <1>2
  <2> QED BY <1>2, <2>1, LineTakesQueued
<1>4. CtlInv /\ call \in Probes
  BY <1>1 DEF KInv, CtlInv
<1>5. Matches(call, e)
  BY <1>3, <1>4, HeadIsKey DEF Matches, AnyEvent, KeysOnly, Probes
<1>6. queue[backup + 1] = e /\ backup + 1 = 1
  BY <1>2
<1>7. /\ last' = IF takes THEN last + 1 ELSE last
      /\ queue' = IF takes THEN RemoveAt(queue, 1) ELSE queue
      /\ backup' = 0
      /\ completes => UNCHANGED <<pc, call>>
      /\ ~completes => pc' = "run" /\ call' = "none"
  <2>1. e.n = last + 1
    BY <1>3, HeadIsKey
  <2> HIDE DEF e
  <2> QED BY <1>2, <1>5, <1>6, <2>1 DEF ProbeQueuedEvent, Return
<1>8. ~Hand'
  BY <1>1, <1>7 DEF Hand
<1>9. Before' = IF takes THEN last + 1 ELSE last
  BY <1>2, <1>7, <1>8 DEF Before, One
<1>10. LineInv'
  BY <1>1, <1>2, <1>3, <1>7, <1>8, <1>9 DEF LineInv
<1>11. [TypeAhead!Next]_<<arrived, last, Ending>>
  <2>1. CASE takes
    <3>1. last' = last + 1 /\ arrived' = arrived
      BY <1>1, <1>7, <2>1
    <3>2. CASE completes \/ ~Ending
      <4>1. Ending' = Ending
        BY <1>7, <3>2 DEF Ending
      <4> QED BY <1>2, <1>3, <3>1, <4>1, TakeIsNext
    <3>3. CASE ~completes /\ Ending
      <4>1. ~Ending'
        BY <1>7, <3>3 DEF Ending
      <4> QED BY <1>2, <1>3, <3>1, <3>3, <4>1, SoakIsNext
    <3> QED BY <3>2, <3>3
  <2>2. CASE ~takes
    <3>1. Ending' = Ending
      BY <1>7, <2>2 DEF Ending, TakesWhatItFinds
    <3> QED BY <1>1, <1>7, <2>2, <3>1
  <2> QED BY <2>1, <2>2
<1>12. BackInv' /\ CtlInv'
  BY <1>1, <1>2, <1>4, <1>7 DEF BackInv, CtlInv, Probes
<1> QED BY <1>10, <1>11, <1>12 DEF Orderly

LEMMA ProbeServerOrderly ==
  ASSUME TypingOnly, KInv, NEW f \in FepMoves, NEW ok \in AppendOutcomes, ProbeWservEvent(f, ok)
  PROVE  Orderly /\ BackInv' /\ CtlInv'
<1> USE DEF envVars, qVars, reqVars, susVars, dlgVars, loopVars, ctlVars, ghost
<1>1. /\ pc = "probe" /\ Len(queue) <= backup /\ wserv = "ready" /\ wserv' = "pending"
      /\ UNCHANGED <<incoming, arrived, timer, source>> /\ backup' = 0
  BY DEF ProbeWservEvent, TakeWservEvent
<1>2. /\ TypeOK /\ queue \in Seq(Events) /\ Len(queue) = 0 /\ last \in Nat /\ incoming \in Events
      /\ arrived \in Nat /\ Before = last /\ ~Hand
      /\ Line(queue, last, arrived, TRUE, incoming)
  <2>1. ~Hand /\ (wserv = "ready") = TRUE
    BY <1>1 DEF Hand
  <2>2. Len(queue) \in Nat /\ backup = 0
    BY <1>1, KeyFacts
  <2>3. Len(queue) = 0
    BY <1>1, <2>2
  <2> QED BY <1>1, <2>1, <2>3, KeyFacts
<1>3. f \in {"pass", "replace"} /\ ok = TRUE
  BY DEF TypingOnly
<1>4. /\ Line(queue, last + 1, arrived, FALSE, incoming) /\ incoming = TheKey(last + 1)
      /\ last < arrived /\ incoming.n = last + 1
  <2>1. Line(queue, last + 1, arrived, FALSE, incoming) /\ incoming = TheKey(last + 1) /\ last < arrived
    BY <1>2, LineTakesReady
  <2> QED BY <2>1, HeadIsKey
<1>5. CtlInv /\ call \in Probes
  BY <1>1 DEF KInv, CtlInv
<1> DEFINE e == IF f = "replace" THEN [incoming EXCEPT !.kind = "key"] ELSE incoming
           completes == f = "pass" /\ CompletesKeya(incoming)
           found == f = "pass" /\ ~completes
           takes == completes \/ (found /\ TakesWhatItFinds(call))
<1>6. e = incoming /\ Matches(call, e)
  BY <1>4, <1>5, HeadIsKey DEF Matches, AnyEvent, KeysOnly, Probes
<1>7. /\ last' = IF takes THEN last + 1 ELSE last
      /\ queue' = IF takes THEN queue ELSE Append(queue, incoming)
      /\ found => pc' = "run" /\ call' = "none"
      /\ ~found => UNCHANGED <<pc, call>>
  <2> HIDE DEF e
  <2> QED BY <1>3, <1>4, <1>6 DEF ProbeWservEvent, Return, e
<1>8. ~Hand'
  BY <1>1, <1>7 DEF Hand
<1>9. Before' = IF takes THEN last + 1 ELSE last
  BY <1>2, <1>7, <1>8 DEF Before, One
<1>10. LineInv'
  <2>1. Line(Append(queue, incoming), last, arrived, FALSE, incoming)
    BY <1>2, LineQueues
  <2> QED BY <1>1, <1>4, <1>7, <1>8, <1>9, <2>1 DEF LineInv
<1>11. [TypeAhead!Next]_<<arrived, last, Ending>>
  <2>1. CASE takes
    <3>1. last' = last + 1 /\ arrived' = arrived
      BY <1>1, <1>7, <2>1
    <3>2. CASE ~found \/ ~Ending
      <4>1. Ending' = Ending
        BY <1>7, <3>2 DEF Ending
      <4> QED BY <1>2, <1>4, <3>1, <4>1, TakeIsNext
    <3>3. CASE found /\ Ending
      <4>1. ~Ending'
        BY <1>7, <3>3 DEF Ending
      <4> QED BY <1>2, <1>4, <3>1, <3>3, <4>1, SoakIsNext
    <3> QED BY <3>2, <3>3
  <2>2. CASE ~takes
    <3>1. Ending' = Ending
      BY <1>7, <2>2 DEF Ending, TakesWhatItFinds
    <3> QED BY <1>1, <1>7, <2>2, <3>1
  <2> QED BY <2>1, <2>2
<1>12. BackInv' /\ CtlInv'
  BY <1>1, <1>5, <1>7 DEF BackInv, CtlInv, Probes
<1> QED BY <1>10, <1>11, <1>12 DEF Orderly

\* The steps outside the waits; a wait of GET or GETEVENT gives the program the key in hand.
LEMMA RestOrderly ==
  TypingOnly /\ KInv /\ (\/ TakePriorityKey \/ WaitWhileSuspended \/ PurgeNonKey \/ EnterLoop
                         \/ ReturnFromWait \/ ReturnFromGetEvent \/ ReturnFromIoWaitStat
                         \/ \E ok \in AppendOutcomes : ReturnFromPause(ok)
                         \/ StartProbing \/ ProbeFindsNothing \/ DialogTakesSignal)
    => Orderly /\ BackInv' /\ CtlInv'
<1> SUFFICES ASSUME TypingOnly, KInv PROVE
      (\/ TakePriorityKey \/ WaitWhileSuspended \/ PurgeNonKey \/ EnterLoop
       \/ ReturnFromWait \/ ReturnFromGetEvent \/ ReturnFromIoWaitStat
       \/ \E ok \in AppendOutcomes : ReturnFromPause(ok)
       \/ StartProbing \/ ProbeFindsNothing \/ DialogTakesSignal) => Orderly /\ BackInv' /\ CtlInv'
  OBVIOUS
<1> USE DEF envVars, qVars, reqVars, susVars, dlgVars, loopVars, ctlVars, ghost
<1>1. CtlInv /\ pc \notin {"dialog"} /\ NonKeys = {} /\ Len(queue) \in Nat /\ last \in Nat /\ arrived \in Nat
      /\ (pc # "wait" => backup = 0)
  BY KeyFacts DEF KInv, CtlInv
<1>2. ~(PurgeNonKey \/ DialogTakesSignal \/ \E ok \in AppendOutcomes : ReturnFromPause(ok))
  BY <1>1 DEF PurgeNonKey, MustPurge, DialogTakesSignal, ReturnFromPause, Returns, CtlInv, Polls
<1>3. ASSUME TakePriorityKey \/ WaitWhileSuspended \/ EnterLoop \/ StartProbing \/ ProbeFindsNothing
      PROVE  Orderly /\ BackInv' /\ CtlInv'
  <2>0. \/ Ending' = Ending
        \/ ProbeFindsNothing /\ Ending /\ ~Ending'
    BY <1>1, <1>3 DEF TakePriorityKey, WaitWhileSuspended, EnterLoop, StartProbing, ProbeFindsNothing,
      StartWait, Return, CtlInv, Probes, Ending
  <2>1. /\ UNCHANGED <<queue, last, envVars, source, timer>>
        /\ arrived' = arrived
        /\ pc # "leave" /\ pc' # "leave" /\ pc # "wait" /\ backup' \in {backup, 0}
        /\ CtlInv'
    BY <1>1, <1>3 DEF TakePriorityKey, WaitWhileSuspended, EnterLoop, StartProbing, ProbeFindsNothing,
      StartWait, Return, CtlInv, Probes, Polls
  <2>2. Orderly
    <3>1. ~Hand /\ ~Hand' /\ LineInv
      BY <2>1 DEF Hand, KInv
    <3>2. CASE Ending' = Ending
      BY <2>1, <3>1, <3>2, OrderKept
    <3>3. CASE Ending /\ ~Ending'
      <4>1. LineInv'
        BY <2>1 DEF LineInv, KInv, Before, Hand, Line, TheKey, One
      <4>2. TypeAhead!Next
        BY <2>1, <3>3 DEF TypeAhead!Next, TypeAhead!FindNothing, Ending
      <4> QED BY <4>1, <4>2 DEF Orderly
    <3> QED BY <2>0, <3>2, <3>3
  <2>3. BackInv'
    BY <1>1, <2>1 DEF BackInv
  <2> QED BY <2>1, <2>2, <2>3
<1>4. ASSUME \/ ReturnFromIoWaitStat
             \/ (ReturnFromWait /\ call # "get")
      PROVE  Orderly /\ BackInv' /\ CtlInv'
  <2>1. /\ UNCHANGED <<queue, last, envVars, source, timer, backup>>
        /\ pc = "leave" /\ pc' \in {"run", "enter"} /\ call \notin {"get", "getevent"}
        /\ CtlInv'
    BY <1>1, <1>4 DEF ReturnFromIoWaitStat, ReturnFromWait, Returns, Return, StartWait, CtlInv, Probes,
      Polls
  <2>2. Ending' = Ending
    BY <1>1, <2>1 DEF Ending, CtlInv, Probes
  <2>3. Orderly
    BY <2>1, <2>2, OrderKept DEF Hand, KInv
  <2> QED BY <1>1, <2>1, <2>3 DEF BackInv
<1>5. ASSUME ReturnFromGetEvent \/ (ReturnFromWait /\ call = "get") PROVE Orderly /\ BackInv' /\ CtlInv'
  <2>1. Hand
    BY <1>5 DEF ReturnFromGetEvent, ReturnFromWait, Returns, Hand
  <2>2. /\ got = TheKey(last + 1) /\ Before = last + 1
        /\ Line(queue, last + 1, arrived, wserv = "ready", incoming)
    BY <2>1, KeyFacts DEF KInv, LineInv
  <2>3. got.kind = "key" /\ got.n = last + 1
    BY <2>2, HeadIsKey
  <2>4. /\ UNCHANGED <<queue, envVars, source, timer, backup>> /\ last' = last + 1
        /\ pc' = "run" /\ call' = "none" /\ pc = "leave"
    BY <1>5, <2>3 DEF ReturnFromGetEvent, ReturnFromWait, Returns, Return
  <2>5. ~Hand' /\ Before' = last + 1
    BY <1>1, <2>4 DEF Hand, Before, One
  <2>6. LineInv'
    BY <2>2, <2>4, <2>5 DEF LineInv
  <2>7. last < arrived
    <3> DEFINE l == Len(queue)
               o == One(wserv = "ready")
    <3>1. arrived = last + 1 + l + o /\ l \in Nat /\ o \in Nat /\ last \in Nat
      BY <1>1, <2>2 DEF Line, One
    <3> HIDE DEF l, o
    <3> QED BY <3>1
  <2>8. TypeAhead!Next
    <3>1. Ending' = Ending
      BY <1>1, <2>4 DEF Ending, CtlInv, Probes
    <3> QED BY <1>1, <2>4, <2>7, <3>1, TakeIsNext
  <2>9. BackInv' /\ CtlInv'
    BY <1>1, <2>4 DEF BackInv, CtlInv, Probes
  <2> QED BY <2>6, <2>8, <2>9 DEF Orderly
<1> QED BY <1>2, <1>3, <1>4, <1>5

LEMMA NextKeys == TypingOnly /\ KInv /\ [Next]_vars => KInv' /\ [TypeAhead!Next]_<<arrived, last, Ending>>
<1> SUFFICES ASSUME TypingOnly, KInv, [Next]_vars
             PROVE  KInv' /\ [TypeAhead!Next]_<<arrived, last, Ending>>
  OBVIOUS
<1>1. TInv' /\ SetAsideInv'
  BY NextTInv, NextSetAside DEF KInv
<1>2. Loop => Orderly /\ BackInv' /\ CtlInv'
  BY OffersOrderly, QueuedOrderly, ServerOrderly, ProbeQueuedOrderly, ProbeServerOrderly, RestOrderly
  DEF Loop
<1>3. UNCHANGED vars => Orderly /\ BackInv' /\ CtlInv'
  <2> SUFFICES ASSUME UNCHANGED vars PROVE Orderly /\ BackInv' /\ CtlInv'
    OBVIOUS
  <2>1. UNCHANGED <<queue, last, envVars, got, pc, call, suspended, backup, keya, source, timer>>
    BY DEF vars, envVars, qVars, reqVars, susVars, loopVars, ctlVars, ghost
  <2>2. Orderly
    BY <2>1, OrderKept DEF KInv, Hand, Ending
  <2> QED BY <2>1, <2>2 DEF KInv, BackInv, CtlInv, Matches, envVars
<1>4. Orderly /\ BackInv' /\ CtlInv'
  BY <1>2, <1>3, EnvironmentOrderly, ProgramOrderly DEF Next
<1> QED BY <1>1, <1>4 DEF Orderly, KInv

LEMMA InitKeys == Init => KInv
<1> SUFFICES ASSUME Init PROVE KInv
  OBVIOUS
<1>1. TInv /\ Len(queue) = 0 /\ SetAsideInv
  BY InitTInv, EmptySeq DEF Init, SetAsideInv
<1>2. LineInv
  BY <1>1 DEF Init, LineInv, Line, Before, Hand, One
<1> QED BY <1>1, <1>2 DEF Init, KInv, BackInv, CtlInv, Probes

LEMMA SpecKeepsKInv == ASSUME TypingOnly PROVE Spec => []KInv
BY InitKeys, NextKeys, PTL DEF Spec

-----------------------------------------------------------------------------
(* The theorems.                                                           *)

\* While all that happens is that keys are typed, the event queue, its backup region, the waits,
\* KEY, TESTEVENT, KEYA and the suspensions of the program implement the type-ahead: every key is
\* given to the program once, in the order of typing, and none is skipped, save that the end of an
\* Execute inside another (EVAL, a callback) may soak up the oldest one that is waiting.
THEOREM KeysAreTypeAhead == ASSUME TypingOnly PROVE Spec => ImplementsTypeAhead
<1>1. Init => TypeAhead!Init
  BY DEF Init, TypeAhead!Init, Ending
<1>2. KInv /\ [Next]_vars => [TypeAhead!Next]_<<arrived, last, Ending>>
  BY NextKeys
<1> QED BY <1>1, <1>2, SpecKeepsKInv, PTL DEF Spec, ImplementsTypeAhead, TypeAhead!Spec

\* Each key that has neither been given to the program nor soaked up by the end of an Execute is in the queue, with the window server or in the hand
\* of the wait that is about to return it.
THEOREM NoKeyIsLost == ASSUME TypingOnly PROVE Spec => []NoKeyLost
<1>1. ASSUME KInv PROVE NoKeyLost
  <2> SUFFICES ASSUME NEW n \in 1..arrived, ~(n <= last) PROVE Held(n)
    BY DEF NoKeyLost
  <2> DEFINE l == Len(queue)
             b == Before
             o == One(wserv = "ready")
  <2>1. l \in Nat /\ b \in Nat /\ last \in Nat /\ arrived \in Nat /\ o \in Nat
    BY <1>1, KeyFacts DEF One
  <2>2. arrived = b + l + o /\ (b = last \/ (Hand /\ b = last + 1))
    <3>1. Line(queue, Before, arrived, wserv = "ready", incoming)
      BY <1>1, KeyFacts
    <3>2. arrived = b + l + o
      BY <3>1 DEF Line
    <3>3. b = last \/ (Hand /\ b = last + 1)
      BY <1>1, KeyFacts
    <3> QED BY <3>2, <3>3
  <2>3. CASE n <= b
    <3>1. Hand /\ n = last + 1
      BY <2>1, <2>2, <2>3
    <3> QED BY <1>1, <3>1, HeadIsKey DEF KInv, LineInv, Held, Hand
  <2>4. CASE n > b /\ n <= b + l
    <3>1. n - b \in 1..l /\ b + (n - b) = n
      <4> HIDE DEF l, b
      <4> QED BY <2>1, <2>4
    <3>2. queue[n - b] = TheKey(n)
      BY <1>1, <3>1, KeyFacts DEF Line
    <3> QED BY <3>1, <3>2, HeadIsKey DEF Held
  <2>5. CASE n > b + l
    <3>1. o = 1 /\ n = arrived
      <4>1. o \in {0, 1}
        BY DEF One
      <4> HIDE DEF l, b, o
      <4> QED BY <2>1, <2>2, <2>5, <4>1
    <3>2. wserv = "ready"
      BY <3>1 DEF One
    <3> QED BY <1>1, <3>1, <3>2, KeyFacts, HeadIsKey DEF Line, Held
  <2> QED BY <2>1, <2>3, <2>4, <2>5
<1> QED BY <1>1, SpecKeepsKInv, PTL
=============================================================================
