----------------------- MODULE OplProceduresProofs -----------------------
(***************************************************************************)
(* Proofs about procedures, callbacks and modules, for any set of          *)
(* procedures and files, any program and any values of the limits.         *)
(***************************************************************************)
EXTENDS OplProcedures, SequenceTheorems, FiniteSetTheorems, TLAPS

-----------------------------------------------------------------------------
(* Facts about sequences.                                                  *)

\* The last element of a sequence, and the sequence without it.
LEMMA FrontFact ==
  ASSUME NEW S, NEW s \in Seq(S), s # <<>>
  PROVE  /\ Len(s) \in Nat \ {0} /\ Last(s) = s[Len(s)] /\ Last(s) \in S
         /\ Front(s) \in Seq(S) /\ Len(Front(s)) = Len(s) - 1
         /\ \A i \in 1..(Len(s) - 1) : Front(s)[i] = s[i]
<1>1. Len(s) \in Nat \ {0} /\ \A i \in 1..Len(s) : s[i] \in S
  BY EmptySeq, ElementOfSeq
<1>2. \A i \in 1..(Len(s) - 1) : s[i] \in S
  BY <1>1
<1>3. /\ SubSeq(s, 1, Len(s) - 1) \in Seq(S)
      /\ Len(SubSeq(s, 1, Len(s) - 1)) = Len(s) - 1
      /\ \A i \in 1..(Len(s) - 1) : SubSeq(s, 1, Len(s) - 1)[i] = s[i]
  <2> DEFINE n == Len(s) - 1
  <2>1. n \in Nat
    BY <1>1
  <2> HIDE DEF n
  <2>4. (IF 1 <= n THEN n - 1 + 1 ELSE 0) = n /\ n - 1 + 1 = n /\ n \in Int
    BY <2>1
  <2>2. /\ SubSeq(s, 1, n) \in Seq(S) /\ Len(SubSeq(s, 1, n)) = n
        /\ \A i \in 1..n : SubSeq(s, 1, n)[i] = s[1 + i - 1]
    BY <1>2, <2>4, SubSeqProperties DEF n
  <2>3. \A i \in 1..n : 1 + i - 1 = i
    BY <2>1
  <2> QED BY <2>2, <2>3 DEF n
<1> QED BY <1>1, <1>3 DEF Front, Last

\* Removing an element that occurs once removes it from the range.
OnlyOnce(s) == \A j, k \in DOMAIN s : s[j] = s[k] => j = k

LEMMA RemoveAtFact ==
  ASSUME NEW S, NEW s \in Seq(S), NEW i \in 1..Len(s), OnlyOnce(s)
  PROVE  /\ RemoveAt(s, i) \in Seq(S) /\ Range(RemoveAt(s, i)) = Range(s) \ {s[i]}
         /\ OnlyOnce(RemoveAt(s, i))
<1> DEFINE front == SubSeq(s, 1, i - 1)
           back  == SubSeq(s, i + 1, Len(s))
<1>1. Len(s) \in Nat /\ DOMAIN s = 1..Len(s) /\ \A j \in 1..Len(s) : s[j] \in S
  BY LenProperties, ElementOfSeq
<1>2. front \in Seq(S) /\ Len(front) = i - 1 /\ \A j \in 1..(i - 1) : front[j] = s[j]
  <2>1. \A j \in 1..(i - 1) : s[j] \in S
    BY <1>1
  <2> QED BY <1>1, <2>1, SubSeqProperties
<1>3. /\ back \in Seq(S) /\ Len(back) = Len(s) - i
      /\ \A j \in 1..(Len(s) - i) : back[j] = s[i + j]
  <2>1. \A j \in (i + 1)..Len(s) : s[j] \in S
    BY <1>1
  <2>2. /\ back \in Seq(S)
        /\ Len(back) = IF i + 1 <= Len(s) THEN Len(s) - (i + 1) + 1 ELSE 0
        /\ \A j \in 1..(Len(s) - (i + 1) + 1) : back[j] = s[(i + 1) + j - 1]
    BY <1>1, <2>1, SubSeqProperties
  <2> HIDE DEF back
  <2>3. Len(back) = Len(s) - i /\ Len(s) - (i + 1) + 1 = Len(s) - i
    <3>1. ASSUME NEW n \in Nat, i <= n
          PROVE  (IF i + 1 <= n THEN n - (i + 1) + 1 ELSE 0) = n - i /\ n - (i + 1) + 1 = n - i
      BY <3>1
    <3>2. i <= Len(s)
      BY <1>1
    <3> QED BY <1>1, <2>2, <3>1, <3>2
  <2>4. \A j \in 1..(Len(s) - i) : (i + 1) + j - 1 = i + j
    BY <1>1
  <2>5. \A j \in 1..(Len(s) - i) : back[j] = s[(i + 1) + j - 1]
    BY <2>2, <2>3
  <2> QED BY <2>2, <2>3, <2>4, <2>5
<1>4. RemoveAt(s, i) = front \o back
  BY DEF RemoveAt
<1> HIDE DEF front, back
<1> DEFINE t == front \o back
<1>5. /\ t \in Seq(S) /\ Len(t) = Len(s) - 1
      /\ \A j \in 1..(Len(s) - 1) : t[j] = IF j < i THEN s[j] ELSE s[j + 1]
  <2>1. /\ t \in Seq(S) /\ Len(t) = (i - 1) + (Len(s) - i)
        /\ \A j \in 1..((i - 1) + (Len(s) - i)) : t[j] = IF j <= i - 1 THEN front[j] ELSE back[j - (i - 1)]
    <3> HIDE DEF t
    <3>1. /\ front \o back \in Seq(S) /\ Len(front \o back) = Len(front) + Len(back)
          /\ \A j \in 1..(Len(front) + Len(back)) :
               (front \o back)[j] = IF j <= Len(front) THEN front[j] ELSE back[j - Len(front)]
      BY <1>2, <1>3, ConcatProperties
    <3> QED BY <1>2, <1>3, <3>1 DEF t
  <2>2. \A j \in 1..(Len(s) - 1) : t[j] = IF j < i THEN s[j] ELSE s[j + 1]
    <3> SUFFICES ASSUME NEW j \in 1..(Len(s) - 1) PROVE t[j] = IF j < i THEN s[j] ELSE s[j + 1]
      OBVIOUS
    <3>1. t[j] = IF j <= i - 1 THEN front[j] ELSE back[j - (i - 1)]
      BY <1>1, <2>1
    <3>2. CASE j < i
      BY <1>1, <1>2, <3>1, <3>2
    <3>3. CASE ~(j < i)
      <4>1. j - (i - 1) \in 1..(Len(s) - i) /\ i + (j - (i - 1)) = j + 1
        BY <1>1, <3>3
      <4> QED BY <1>1, <1>3, <3>1, <3>3, <4>1
    <3> QED BY <3>2, <3>3
  <2> HIDE DEF t
  <2> QED BY <1>1, <2>1, <2>2
<1> HIDE DEF t
<1>6. DOMAIN t = 1..(Len(s) - 1)
  BY <1>5, LenProperties
<1>7. OnlyOnce(t)
  <2> SUFFICES ASSUME NEW j \in 1..(Len(s) - 1), NEW k \in 1..(Len(s) - 1), t[j] = t[k] PROVE j = k
    BY <1>6 DEF OnlyOnce
  <2> DEFINE at(n) == IF n < i THEN n ELSE n + 1
  <2>1. at(j) \in DOMAIN s /\ at(k) \in DOMAIN s /\ s[at(j)] = s[at(k)]
    BY <1>1, <1>5
  <2>2. at(j) = at(k)
    BY <2>1 DEF OnlyOnce
  <2> QED BY <1>1, <2>2
<1>8. Range(t) = Range(s) \ {s[i]}
  <2>1. ASSUME NEW x \in Range(t) PROVE x \in Range(s) \ {s[i]}
    <3>1. PICK j \in 1..(Len(s) - 1) : x = t[j]
      BY <1>6 DEF Range
    <3> DEFINE n == IF j < i THEN j ELSE j + 1
    <3>2. n \in DOMAIN s /\ x = s[n] /\ n # i
      BY <1>1, <1>5, <3>1
    <3> QED BY <1>1, <3>2 DEF OnlyOnce, Range
  <2>2. ASSUME NEW x \in Range(s) \ {s[i]} PROVE x \in Range(t)
    <3>1. PICK n \in 1..Len(s) : x = s[n]
      BY <1>1 DEF Range
    <3>2. n # i
      BY <3>1, <2>2
    <3> DEFINE j == IF n < i THEN n ELSE n - 1
    <3>3. j \in 1..(Len(s) - 1) /\ t[j] = x
      BY <1>1, <1>5, <3>1, <3>2
    <3> QED BY <1>6, <3>3 DEF Range
  <2> QED BY <2>1, <2>2
<1> QED BY <1>4, <1>5, <1>7, <1>8 DEF t

\* Removing any element leaves a sequence of the same type.
LEMMA RemoveAtTypes ==
  ASSUME NEW S, NEW s \in Seq(S), NEW i \in DOMAIN s
  PROVE  RemoveAt(s, i) \in Seq(S)
<1> DEFINE front == SubSeq(s, 1, i - 1)
           back  == SubSeq(s, i + 1, Len(s))
<1>1. Len(s) \in Nat /\ DOMAIN s = 1..Len(s) /\ \A j \in 1..Len(s) : s[j] \in S
  BY LenProperties, ElementOfSeq
<1>2. front \in Seq(S)
  <2>1. \A j \in 1..(i - 1) : s[j] \in S
    BY <1>1
  <2> QED BY <1>1, <2>1, SubSeqProperties
<1>3. back \in Seq(S)
  <2>1. \A j \in (i + 1)..Len(s) : s[j] \in S
    BY <1>1
  <2> QED BY <1>1, <2>1, SubSeqProperties
<1> HIDE DEF front, back
<1> QED BY <1>2, <1>3, ConcatProperties DEF RemoveAt, front, back

\* Appending an element that is new.
LEMMA AppendFact ==
  ASSUME NEW S, NEW s \in Seq(S), NEW e \in S, OnlyOnce(s), e \notin Range(s)
  PROVE  /\ Append(s, e) \in Seq(S) /\ Range(Append(s, e)) = Range(s) \cup {e}
         /\ OnlyOnce(Append(s, e))
<1> DEFINE t == Append(s, e)
<1>1. /\ t \in Seq(S) /\ Len(t) = Len(s) + 1 /\ t[Len(s) + 1] = e
      /\ \A j \in 1..Len(s) : t[j] = s[j]
  BY AppendProperties
<1>2. Len(s) \in Nat /\ DOMAIN s = 1..Len(s) /\ DOMAIN t = 1..(Len(s) + 1)
  BY <1>1, LenProperties
<1> HIDE DEF t
<1>3. \A x : x \in Range(t) <=> \E j \in 1..(Len(s) + 1) : t[j] = x
  BY <1>2 DEF Range
<1>4. \A x : x \in Range(s) <=> \E j \in 1..Len(s) : s[j] = x
  BY <1>2 DEF Range
<1>5. \A j \in 1..(Len(s) + 1) : j \in 1..Len(s) \/ j = Len(s) + 1
  BY <1>2
<1>6. 1..Len(s) \subseteq 1..(Len(s) + 1) /\ Len(s) + 1 \in 1..(Len(s) + 1)
  BY <1>2
<1>7. Range(t) = Range(s) \cup {e}
  BY <1>1, <1>3, <1>4, <1>5, <1>6
<1>8. OnlyOnce(t)
  BY <1>1, <1>2, <1>4, <1>5 DEF OnlyOnce
<1> QED BY <1>1, <1>7, <1>8 DEF t

-----------------------------------------------------------------------------
(* Types, and the callbacks in progress.                                   *)

OpxIn(h) == {k \in DOMAIN h : h[k].kind = "opx"}

\* The OPX functions among one more and one fewer activations.
LEMMA OpxInAppend ==
  ASSUME NEW h \in Seq(Hosts), NEW r \in Hosts
  PROVE  /\ Append(h, r) \in Seq(Hosts) /\ Append(h, r) # <<>> /\ Last(Append(h, r)) = r
         /\ Cardinality(OpxIn(Append(h, r))) = Cardinality(OpxIn(h)) + (IF r.kind = "opx" THEN 1 ELSE 0)
<1> DEFINE t == Append(h, r)
<1>1. /\ t \in Seq(Hosts) /\ Len(t) = Len(h) + 1 /\ t[Len(h) + 1] = r /\ t # <<>>
      /\ \A k \in 1..Len(h) : t[k] = h[k]
  BY AppendProperties
<1>2. Len(h) \in Nat /\ DOMAIN h = 1..Len(h) /\ DOMAIN t = 1..(Len(h) + 1)
  BY <1>1, LenProperties
<1> HIDE DEF t
<1>3. \A k : k \in 1..(Len(h) + 1) <=> k \in 1..Len(h) \/ k = Len(h) + 1
  BY <1>2
<1>4. OpxIn(t) = OpxIn(h) \cup (IF r.kind = "opx" THEN {Len(h) + 1} ELSE {})
  BY <1>1, <1>2, <1>3 DEF OpxIn
<1>5. Len(h) + 1 \notin OpxIn(h)
  BY <1>2 DEF OpxIn
<1>6. IsFiniteSet(OpxIn(h)) /\ Cardinality(OpxIn(h)) \in Nat
  <2>1. IsFiniteSet(1..Len(h))
    BY <1>2, FS_Interval
  <2> QED BY <1>2, <2>1, FS_Subset, FS_CardinalityType DEF OpxIn
<1>7. Cardinality(OpxIn(t)) = Cardinality(OpxIn(h)) + (IF r.kind = "opx" THEN 1 ELSE 0)
  <2>1. CASE r.kind = "opx"
    BY <1>4, <1>5, <1>6, <2>1, FS_AddElement
  <2>2. CASE r.kind # "opx"
    BY <1>4, <1>6, <2>2
  <2> QED BY <2>1, <2>2
<1>8. Last(t) = r
  BY <1>1 DEF Last
<1> QED BY <1>1, <1>7, <1>8 DEF t

LEMMA OpxInFront ==
  ASSUME NEW h \in Seq(Hosts), h # <<>>
  PROVE  /\ Front(h) \in Seq(Hosts) /\ Last(h) \in Hosts
         /\ Cardinality(OpxIn(h)) \in Nat
         /\ Last(h).kind = "opx" => Cardinality(OpxIn(h)) > 0
         /\ Cardinality(OpxIn(Front(h))) = Cardinality(OpxIn(h)) - (IF Last(h).kind = "opx" THEN 1 ELSE 0)
<1> DEFINE t == Front(h)
           n == Len(h)
<1>1. /\ n \in Nat \ {0} /\ Last(h) = h[n] /\ Last(h) \in Hosts
      /\ t \in Seq(Hosts) /\ Len(t) = n - 1 /\ \A k \in 1..(n - 1) : t[k] = h[k]
  BY FrontFact
<1>2. DOMAIN h = 1..n /\ DOMAIN t = 1..(n - 1)
  BY <1>1, LenProperties
<1> HIDE DEF t, n
<1>3. \A k : k \in 1..(n - 1) <=> k \in 1..n /\ k # n
  BY <1>1
<1>4. OpxIn(t) = OpxIn(h) \ {n}
  BY <1>1, <1>2, <1>3 DEF OpxIn
<1>5. n \in OpxIn(h) <=> Last(h).kind = "opx"
  BY <1>1, <1>2 DEF OpxIn
<1>6. IsFiniteSet(OpxIn(h)) /\ Cardinality(OpxIn(h)) \in Nat
  <2>1. IsFiniteSet(1..n)
    BY <1>1, FS_Interval
  <2> QED BY <1>2, <2>1, FS_Subset, FS_CardinalityType DEF OpxIn
<1>7. Cardinality(OpxIn(t)) = Cardinality(OpxIn(h)) - (IF Last(h).kind = "opx" THEN 1 ELSE 0)
  <2>1. CASE Last(h).kind = "opx"
    BY <1>4, <1>5, <1>6, <2>1, FS_RemoveElement
  <2>2. CASE Last(h).kind # "opx"
    <3>1. OpxIn(t) = OpxIn(h)
      BY <1>4, <1>5, <2>2
    <3> QED BY <1>6, <2>2, <3>1
  <2> QED BY <2>1, <2>2
<1>8. Last(h).kind = "opx" => Cardinality(OpxIn(h)) > 0
  BY <1>5, <1>6, FS_EmptySet
<1> QED BY <1>1, <1>6, <1>7, <1>8 DEF t

LEMMA CardinalityFact == ASSUME NEW h \in Seq(Hosts) PROVE Cardinality(OpxIn(h)) \in Nat
<1>1. CASE h = <<>>
  BY <1>1, FS_EmptySet DEF OpxIn
<1>2. CASE h # <<>>
  BY <1>2, OpxInFront
<1> QED BY <1>1, <1>2

\* An OPX function is in control only while it is the innermost activation.
OpxInControl == mode = "opx" => host # <<>> /\ Last(host).kind = "opx"

PInv == ControlTypes /\ CallbacksRecorded /\ OpxInControl

LEMMA PInvInit == Init => PInv
<1> SUFFICES ASSUME Init PROVE PInv
  OBVIOUS
<1>1. 1 \in Frames /\ 1 \in Insts /\ Main \in Procs /\ MainFile \in Files
  BY ProcAssumption DEF Frames, Insts
<1>2. OpxFunctions = {} /\ Cardinality({}) = 0 /\ Len(infos) = 0
  BY FS_EmptySet DEF Init, OpxFunctions
<1>3. ControlTypes
  <2>1. FramesTyped
    BY <1>1 DEF Init, FramesTyped, FrameRecords, Codes, Code, None
  <2>2. ModulesTyped
    BY <1>1 DEF Init, ModulesTyped, Modules
  <2>3. <<1>> \in Seq(Insts) /\ <<>> \in Seq(Int) /\ <<>> \in Seq(Hosts)
    BY <1>1
  <2>4. ip \in Codes
    BY <1>1 DEF Init, Codes, Code
  <2>5. mode = "run" /\ sp = 1 /\ trap = FALSE /\ inCallback = FALSE /\ frame = 1
    BY DEF Init
  <2>6. loaded = <<1>> /\ infos = <<>> /\ host = <<>>
    BY DEF Init
  <2>7. mode \in Modes /\ sp \in Int /\ frame \in Frames \cup {None}
    BY <1>1, <2>5 DEF Modes
  <2>8. trap \in BOOLEAN /\ inCallback \in BOOLEAN
    BY <2>5
  <2>9. infos \in Seq(Int) /\ host \in Seq(Hosts) /\ loaded \in Seq(Insts)
    BY <2>3, <2>6
  <2> QED BY <2>1, <2>2, <2>4, <2>7, <2>8, <2>9 DEF ControlTypes
<1> QED BY <1>2, <1>3 DEF Init, PInv, CallbacksRecorded, OpxInControl

\* A step that leaves frames, modules and activations alone.
LEMMA ControlStep ==
  ASSUME PInv, UNCHANGED <<frameVars, moduleVars, hostVars>>, mode # "opx",
         mode' \in Modes \ {"opx"}, ip' \in Codes, sp' \in Int, trap' \in BOOLEAN
  PROVE  PInv'
<1>1. ControlTypes'
  BY DEF PInv, ControlTypes, FramesTyped, ModulesTyped, frameVars, moduleVars, hostVars
<1>2. CallbacksRecorded' /\ OpxInControl'
  BY DEF PInv, CallbacksRecorded, OpxFunctions, OpxInControl, hostVars
<1> QED BY <1>1, <1>2 DEF PInv

LEMMA CodesFact ==
  ASSUME NEW c \in Codes, NEW d \in Int, NEW t \in BOOLEAN
  PROVE  /\ c.frame \in Frames \cup {None} /\ c.eval \in Nat /\ c.depth \in Int /\ c.trapping \in BOOLEAN
         /\ [c EXCEPT !.depth = d] \in Codes /\ [c EXCEPT !.depth = d, !.trapping = FALSE] \in Codes
         /\ [c EXCEPT !.trapping = t] \in Codes /\ [c EXCEPT !.trapping = t].trapping = t
BY DEF Codes

LEMMA PInvOperands == PInv /\ (Operands \/ Stop \/ ReturnFromEval \/ ProgramEnds \/ Trapped \/ CatchError) => PInv'
<1> SUFFICES ASSUME PInv, Operands \/ Stop \/ ReturnFromEval \/ ProgramEnds \/ Trapped \/ CatchError PROVE PInv'
  OBVIOUS
<1> USE DEF Modes, Leaves
<1>0. mode \in Modes /\ ip \in Codes /\ sp \in Int /\ trap \in BOOLEAN /\ FramesTyped /\ frame \in Frames \cup {None}
  BY DEF PInv, ControlTypes
<1>00. /\ ip.depth \in Int /\ ip.depth + 1 \in Int /\ ip.depth - 1 \in Int /\ 0 \in Int
       /\ sp + 1 \in Int /\ sp - 1 \in Int
       /\ \A d \in Int : To(d) => ip' \in Codes
  <2>1. ip.depth \in Int
    BY <1>0 DEF Codes
  <2>2. ASSUME NEW d \in Int, To(d) PROVE ip' \in Codes
    BY <1>0, <2>2 DEF To, Codes
  <2> QED BY <1>0, <2>1, <2>2
<1>1. CASE Push
  BY <1>0, <1>00, <1>1, ControlStep DEF Push, Executing
<1>2. CASE Operator
  BY <1>0, <1>00, <1>2, ControlStep DEF Operator, Executing
<1>3. CASE Drop
  BY <1>0, <1>00, <1>3, ControlStep DEF Drop, Statement, Executing
<1>4. CASE Raise
  BY <1>0, <1>00, <1>4, ControlStep DEF Raise, Command, Executing
<1>5. CASE Trap
  BY <1>0, <1>5, ControlStep, CodesFact DEF Trap, Executing
<1>6. CASE Cancel
  BY <1>0, <1>00, <1>6, ControlStep DEF Cancel, Command, Executing
<1>7. CASE IoSignal
  BY <1>0, <1>00, <1>7, ControlStep DEF IoSignal, Command, Executing
<1>8. CASE OnErr
  <2>1. FramesTyped'
    <3>1. PICK handler \in {None, ip.frame} : frames' = [frames EXCEPT ![frame].onerr = handler]
      BY <1>8 DEF OnErr
    <3>2. handler \in Frames \cup {None}
      <4>1. ip.frame \in Frames \cup {None}
        BY <1>0 DEF Codes
      <4> QED BY <4>1
    <3> QED BY <1>0, <3>1, <3>2 DEF FramesTyped, FrameRecords
  <2>2. ControlTypes'
    BY <1>8, <2>1 DEF OnErr, PInv, ControlTypes, ModulesTyped, moduleVars, hostVars
  <2>3. CallbacksRecorded' /\ OpxInControl'
    BY <1>8 DEF OnErr, PInv, CallbacksRecorded, OpxFunctions, OpxInControl, hostVars
  <2> QED BY <2>2, <2>3 DEF PInv
<1>9. CASE Stop
  BY <1>0, <1>9, ControlStep DEF Stop, Statement, Executing
<1>10. CASE ReturnFromEval
  BY <1>0, <1>10, ControlStep DEF ReturnFromEval, Executing
<1>11. CASE ProgramEnds
  BY <1>0, <1>11, ControlStep DEF ProgramEnds, GivesUp, Unwinding
<1>12. CASE Trapped
  BY <1>0, <1>12, ControlStep DEF Trapped, ClearError, Current, FramesTyped, FrameRecords
<1>13. CASE CatchError
  <2>1. frames[frame].onerr \in Frames \cup {None} /\ frames[frame].base \in Int
    BY <1>0, <1>13 DEF CatchError, Current, FramesTyped, FrameRecords
  <2>2. ip' \in Codes
    BY <1>13, <2>1 DEF CatchError, Code, Codes
  <2> QED BY <1>13, <2>1, <2>2, ControlStep DEF CatchError, Unwinding, ClearError
<1> QED BY <1>1, <1>2, <1>3, <1>4, <1>5, <1>6, <1>7, <1>8, <1>9, <1>10, <1>11, <1>12, <1>13 DEF Operands

LEMMA DecCountTypes ==
  ASSUME ModulesTyped, NEW i, DecCount(i)
  PROVE  ModulesTyped'
<1>1. CASE module[i].count = 1
  BY <1>1 DEF DecCount, ModulesTyped
<1>2. CASE module[i].count # 1
  <2>1. module' = [module EXCEPT ![i].count = @ - 1]
    BY <1>2 DEF DecCount
  <2>2. i \in DOMAIN module => module[i].count - 1 \in Nat \ {0}
    BY <1>2 DEF ModulesTyped, Modules
  <2> QED BY <2>1, <2>2 DEF ModulesTyped, Modules
<1> QED BY <1>1, <1>2

\* ~CFrame keeps the types.
LEMMA DeleteFrameTypes ==
  ASSUME PInv, NEW f \in DOMAIN frames, DeleteFrame(f)
  PROVE  /\ FramesTyped' /\ ModulesTyped' /\ loaded' \in Seq(Insts)
         /\ frame' \in Frames \cup {None} /\ ip' \in Codes
<1>1. frames[f] \in FrameRecords({frames[f].externs}) /\ FramesTyped /\ ModulesTyped /\ loaded \in Seq(Insts)
  BY DEF PInv, ControlTypes, FramesTyped
<1>2. frame' \in Frames \cup {None} /\ ip' \in Codes
  BY <1>1 DEF DeleteFrame, FrameRecords
<1>3. FramesTyped'
  BY <1>1 DEF DeleteFrame, FramesTyped
<1>4. ModulesTyped'
  BY <1>1, DecCountTypes DEF DeleteFrame
<1> QED BY <1>1, <1>2, <1>3, <1>4 DEF DeleteFrame

\* CFrame::ConstructL keeps the types.
LEMMA ConstructFrameTypes ==
  ASSUME PInv, NEW f \in Frames, NEW p \in Procs, NEW prev \in Frames \cup {None}, NEW ret \in Codes,
         NEW base \in Int, NEW byName \in BOOLEAN, ConstructFrame(f, p, prev, ret, base, byName)
  PROVE  FramesTyped' /\ ModulesTyped' /\ loaded' \in Seq(Insts)
<1>1. FramesTyped /\ ModulesTyped /\ loaded \in Seq(Insts)
  BY DEF PInv, ControlTypes
<1>2. PICK i \in FindProcedure(p) :
        /\ frames' = [g \in DOMAIN frames \cup {f} |->
                        IF g = f THEN [def |-> <<i, p>>, prev |-> prev, base |-> base, ret |-> ret,
                                       onerr |-> None, evals |-> 0, byName |-> byName,
                                       externs |-> [n \in ExternsOf[p] |-> Owner(globals', n)]]
                                 ELSE frames[g]]
        /\ module' = [module EXCEPT ![i].count = @ + 1]
  BY DEF ConstructFrame
<1>3. i \in Insts
  BY <1>1, <1>2, ElementOfSeq, LenProperties DEF FindProcedure, Having
<1>4. FramesTyped'
  <2> DEFINE externs == [n \in ExternsOf[p] |-> Owner(globals', n)]
             new == [def |-> <<i, p>>, prev |-> prev, base |-> base, ret |-> ret,
                     onerr |-> None, evals |-> 0, byName |-> byName, externs |-> externs]
  <2>1. new \in FrameRecords({new.externs})
    <3> HIDE DEF externs
    <3> QED BY <1>3 DEF FrameRecords
  <2>2. /\ DOMAIN frames' = DOMAIN frames \cup {f} /\ frames'[f] = new
        /\ \A g \in DOMAIN frames \ {f} : frames'[g] = frames[g]
    <3> HIDE DEF new
    <3>1. frames' = [g \in DOMAIN frames \cup {f} |-> IF g = f THEN new ELSE frames[g]]
      BY <1>2 DEF new
    <3> QED BY <3>1
  <2> HIDE DEF new
  <2> QED BY <1>1, <2>1, <2>2 DEF FramesTyped
<1>5. ModulesTyped'
  BY <1>1, <1>2, SMTT(20) DEF ModulesTyped, Modules
<1> QED BY <1>1, <1>4, <1>5 DEF ConstructFrame

\* A step between two points of which neither is in an OPX function.
LEMMA FrameStep ==
  ASSUME PInv, UNCHANGED hostVars, mode # "opx",
         mode' \in Modes \ {"opx"}, ip' \in Codes, sp' \in Int, trap' \in BOOLEAN,
         frame' \in Frames \cup {None}, FramesTyped', ModulesTyped', loaded' \in Seq(Insts)
  PROVE  PInv'
<1>1. ControlTypes'
  BY DEF PInv, ControlTypes, hostVars
<1>2. CallbacksRecorded' /\ OpxInControl'
  BY DEF PInv, CallbacksRecorded, OpxFunctions, OpxInControl, hostVars
<1> QED BY <1>1, <1>2 DEF PInv

LEMMA PInvCall ==
  ASSUME PInv, mode = "run", NEW p \in Procs, NEW taken \in Nat, NEW byName \in BOOLEAN, Call(p, taken, byName)
  PROVE  PInv'
<1> DEFINE ret == [ip EXCEPT !.depth = @ - taken + 1]
<1>1. /\ ip \in Codes /\ sp \in Int /\ trap \in BOOLEAN /\ frame \in Frames \cup {None}
      /\ FramesTyped /\ ModulesTyped /\ loaded \in Seq(Insts)
  BY DEF PInv, ControlTypes
<1>2. ret \in Codes
  BY <1>1 DEF Codes
<1> HIDE DEF ret
<1>3. sp + 1 \in Int /\ trap' \in BOOLEAN /\ UNCHANGED hostVars
  BY <1>1 DEF Call
<1>4. CASE Leaves /\ ip' = ret /\ sp' = sp + 1 /\ CallFails
  <2>1. FramesTyped' /\ ModulesTyped' /\ loaded' \in Seq(Insts) /\ frame' \in Frames \cup {None}
    BY <1>1, <1>4 DEF CallFails, FramesTyped, ModulesTyped, frameVars, moduleVars
  <2> QED BY <1>2, <1>3, <1>4, <2>1, FrameStep DEF Leaves, Modes
<1>5. ASSUME NEW f \in Frames,
             ConstructFrame(f, p, frame, ret, sp + 1, byName), FinishConstruction(f, p, ret), frame' = f, sp' = sp + 1
      PROVE  PInv'
  <2>1. FramesTyped' /\ ModulesTyped' /\ loaded' \in Seq(Insts)
    BY <1>1, <1>2, <1>3, <1>5, ConstructFrameTypes
  <2>2. ip' \in Codes /\ mode' \in Modes \ {"opx"}
    <3>1. Code(f, 0, 0) \in Codes
      BY DEF Codes, Code
    <3>2. \/ ip' = Code(f, 0, 0) /\ mode' = "run"
          \/ ip' = ret /\ mode' = "leave"
      BY <1>5 DEF FinishConstruction, Leaves
    <3> QED BY <1>2, <3>1, <3>2 DEF Modes
  <2> QED BY <1>3, <1>5, <2>1, <2>2, FrameStep
<1>6. \/ Leaves /\ ip' = ret /\ sp' = sp + 1 /\ CallFails
      \/ \E f \in Frames : /\ ConstructFrame(f, p, frame, ret, sp + 1, byName)
                           /\ FinishConstruction(f, p, ret) /\ frame' = f /\ sp' = sp + 1
  BY DEF Call, ret
<1> QED BY <1>4, <1>5, <1>6

LEMMA PInvReturn ==
  ASSUME PInv, mode = "run", Current, NEW base \in Int, RemoveFrame(base)
  PROVE  PInv'
<1>1. /\ FramesTyped' /\ ModulesTyped' /\ loaded' \in Seq(Insts)
      /\ frame' \in Frames \cup {None} /\ ip' \in Codes
  BY DeleteFrameTypes DEF RemoveFrame, Current
<1>2. sp' \in Int
  <2>1. frames[frame] \in FrameRecords({frames[frame].externs})
    BY DEF PInv, ControlTypes, FramesTyped, Current
  <2>2. ProcOf(frame) \in Procs
    BY <2>1 DEF FrameRecords, ProcOf
  <2>3. Arguments(frame) \in Int
    BY <2>2, ProcAssumption DEF Arguments
  <2> QED BY <2>3 DEF RemoveFrame
<1>3. mode' \in Modes \ {"opx"} /\ trap' \in BOOLEAN /\ UNCHANGED hostVars
  BY DEF RemoveFrame, Modes, PInv, ControlTypes
<1> QED BY <1>1, <1>2, <1>3, FrameStep

\* Calls and returns that are opcodes, and the unwinding of frames.
LEMMA PInvFrames ==
  ASSUME PInv, \/ \E p \in Procs : RunProcedure(p) \/ CallByName(p)
               \/ Return \/ ZeroReturn \/ DropFrame \/ CloseFrame
  PROVE  PInv'
<1>1. sp \in Int /\ trap \in BOOLEAN /\ mode \in Modes /\ FramesTyped
  BY DEF PInv, ControlTypes
<1>2. ASSUME NEW p \in Procs, RunProcedure(p) PROVE PInv'
  <2>1. Params[p] \in Nat
    BY ProcAssumption
  <2> QED BY <1>2, <2>1, PInvCall DEF RunProcedure, Executing
<1>3. ASSUME NEW p \in Procs, CallByName(p) PROVE PInv'
  <2>1. Params[p] + 1 \in Nat
    BY ProcAssumption
  <2> QED BY <1>3, <2>1, PInvCall DEF CallByName, Executing
<1>4. CASE Return
  <2>1. frames[frame].base \in Int
    BY <1>1, <1>4 DEF Return, Statement, Executing, Current, FramesTyped, FrameRecords
  <2> QED BY <1>4, <2>1, PInvReturn DEF Return, Statement, Executing
<1>5. CASE ZeroReturn
  BY <1>1, <1>5, PInvReturn DEF ZeroReturn, Statement, Executing
<1>6. CASE DropFrame \/ CloseFrame
  <2>1. Current /\ DeleteFrame(frame) /\ mode \in {"leave", "closing"} /\ UNCHANGED <<mode, sp, trap, hostVars>>
    BY <1>6 DEF DropFrame, CloseFrame, Unwinding
  <2>2. /\ FramesTyped' /\ ModulesTyped' /\ loaded' \in Seq(Insts)
        /\ frame' \in Frames \cup {None} /\ ip' \in Codes
    BY <2>1, DeleteFrameTypes DEF Current
  <2>3. mode' \in Modes \ {"opx"} /\ sp' \in Int /\ trap' \in BOOLEAN /\ mode # "opx"
    BY <1>1, <2>1 DEF Modes
  <2> QED BY <2>1, <2>2, <2>3, FrameStep
<1> QED BY <1>2, <1>3, <1>4, <1>5, <1>6

LEMMA EvalsTypes ==
  ASSUME FramesTyped, NEW f \in DOMAIN frames, NEW n \in Int, frames' = [frames EXCEPT ![f].evals = n]
  PROVE  FramesTyped'
<1> DEFINE r == frames[f]
           new == [r EXCEPT !.evals = n]
<1>1. r \in FrameRecords({r.externs})
  BY DEF FramesTyped
<1>2. ASSUME NEW X, NEW s \in FrameRecords({X})
      PROVE  [s EXCEPT !.evals = n] \in FrameRecords({X}) /\ [s EXCEPT !.evals = n].externs = X
  BY DEF FrameRecords
<1>3. new \in FrameRecords({new.externs})
  <2> HIDE DEF r
  <2> QED BY <1>1, <1>2
<1>4. /\ DOMAIN frames' = DOMAIN frames /\ frames'[f] = new
      /\ \A g \in DOMAIN frames \ {f} : frames'[g] = frames[g]
  OBVIOUS
<1> HIDE DEF r, new
<1> QED BY <1>3, <1>4 DEF FramesTyped

\* EVALs and their ends.
LEMMA PInvEval == PInv /\ (Eval \/ EvalEnds) => PInv'
<1> SUFFICES ASSUME PInv, Eval \/ EvalEnds PROVE PInv'
  OBVIOUS
<1>1. /\ mode \in Modes /\ ip \in Codes /\ sp \in Int /\ trap \in BOOLEAN /\ inCallback \in BOOLEAN
      /\ frame \in Frames \cup {None} /\ FramesTyped /\ ModulesTyped /\ loaded \in Seq(Insts)
      /\ infos \in Seq(Int) /\ host \in Seq(Hosts)
  BY DEF PInv, ControlTypes
<1>2. ASSUME UNCHANGED <<trap, frame, globals, dialog, moduleVars, infos, inCallback>>,
             mode # "opx", mode' \in Modes \ {"opx"}, sp' \in Int, ip' \in Codes, FramesTyped',
             host' \in Seq(Hosts), Cardinality(OpxIn(host')) = Cardinality(OpxIn(host))
      PROVE  PInv'
  <2>1. ControlTypes'
    BY <1>1, <1>2 DEF ControlTypes, ModulesTyped, moduleVars
  <2>2. OpxFunctions' = OpxIn(host') /\ OpxFunctions = OpxIn(host)
    BY DEF OpxFunctions, OpxIn
  <2>3. CallbacksRecorded' /\ OpxInControl'
    BY <1>2, <2>2 DEF PInv, CallbacksRecorded, OpxInControl
  <2> QED BY <2>1, <2>3 DEF PInv
<1>4. \A f \in DOMAIN frames : frames[f].evals \in Int /\ f \in Frames
  BY <1>1 DEF FramesTyped, FrameRecords
<1>5. CASE Eval
  <2>1. /\ mode = "run" /\ sp' = sp - 1 /\ frame \in DOMAIN frames
        /\ UNCHANGED <<trap, frame, globals, dialog, moduleVars, infos, inCallback>>
    BY <1>5 DEF Eval, Executing, Current
  <2>2. CASE Leaves /\ UNCHANGED <<ip, frames, host>>
    <3>1. FramesTyped'
      BY <1>1, <2>2 DEF FramesTyped
    <3> QED BY <1>1, <1>2, <2>1, <2>2, <3>1 DEF Leaves, Modes
  <2>3. CASE /\ host' = Append(host, [kind |-> "eval", frame |-> frame, ip |-> ip])
             /\ frames' = [frames EXCEPT ![frame].evals = @ + 1]
             /\ ip' = Code(frame, Len(host) + 1, 0)
             /\ UNCHANGED mode
    <3> DEFINE r == [kind |-> "eval", frame |-> frame, ip |-> ip]
    <3>1. r \in Hosts /\ r.kind # "opx"
      BY <1>1, <1>4, <2>1 DEF Hosts
    <3> HIDE DEF r
    <3>2. host' \in Seq(Hosts) /\ Cardinality(OpxIn(host')) = Cardinality(OpxIn(host))
      <4>1. Cardinality(OpxIn(host)) \in Nat
        BY <1>1, CardinalityFact
      <4>2. host' = Append(host, r)
        BY <2>3 DEF r
      <4>3. /\ Append(host, r) \in Seq(Hosts)
            /\ Cardinality(OpxIn(Append(host, r))) = Cardinality(OpxIn(host)) + (IF r.kind = "opx" THEN 1 ELSE 0)
        BY <1>1, <3>1, OpxInAppend
      <4> QED BY <3>1, <4>1, <4>2, <4>3
    <3>3. FramesTyped'
      <4>1. frames[frame].evals + 1 \in Int
        BY <1>4, <2>1
      <4>2. frames' = [frames EXCEPT ![frame].evals = frames[frame].evals + 1]
        BY <2>3
      <4> QED BY <1>1, <2>1, <4>1, <4>2, EvalsTypes
    <3>4. ip' \in Codes
      BY <1>1, <2>3, LenProperties DEF Code, Codes
    <3>5. mode # "opx" /\ mode' \in Modes \ {"opx"} /\ sp' \in Int
      <4>1. mode = "run" /\ mode' = mode /\ sp' = sp - 1
        BY <2>1, <2>3
      <4> QED BY <1>1, <4>1 DEF Modes
    <3> QED BY <1>2, <2>1, <3>2, <3>3, <3>4, <3>5
  <2> QED BY <1>5, <2>2, <2>3 DEF Eval
<1>6. CASE EvalEnds
  <2>1. /\ host # <<>> /\ Last(host).kind = "eval" /\ Last(host).frame \in DOMAIN frames
        /\ frames' = [frames EXCEPT ![Last(host).frame].evals = @ - 1]
        /\ ip' = Last(host).ip /\ host' = Front(host)
        /\ UNCHANGED <<sp, trap, frame, globals, dialog, moduleVars, infos, inCallback>>
    BY <1>6 DEF EvalEnds, Innermost, LeavesEval
  <2>2. mode # "opx" /\ mode' \in Modes \ {"opx"}
    BY <1>1, <1>6 DEF EvalEnds, GivesUp, Unwinding, Modes
  <2>3. /\ host' \in Seq(Hosts) /\ Last(host) \in Hosts
        /\ Cardinality(OpxIn(host')) = Cardinality(OpxIn(host))
    <3>1. host \in Seq(Hosts)
      BY <1>1
    <3>2. host # <<>> /\ Last(host).kind = "eval" /\ host' = Front(host)
      BY <2>1
    <3>3. /\ Front(host) \in Seq(Hosts) /\ Last(host) \in Hosts /\ Cardinality(OpxIn(host)) \in Nat
          /\ Cardinality(OpxIn(Front(host)))
               = Cardinality(OpxIn(host)) - (IF Last(host).kind = "opx" THEN 1 ELSE 0)
      BY <3>1, <3>2, OpxInFront
    <3> QED BY <3>2, <3>3
  <2>4. ip' \in Codes
    BY <2>1, <2>3 DEF Hosts
  <2>5. FramesTyped'
    <3>1. frames[Last(host).frame].evals - 1 \in Int
      BY <1>4, <2>1
    <3>2. frames' = [frames EXCEPT ![Last(host).frame].evals = frames[Last(host).frame].evals - 1]
      BY <2>1
    <3> QED BY <1>1, <2>1, <3>1, <3>2, EvalsTypes
  <2> QED BY <1>1, <1>2, <2>1, <2>2, <2>3, <2>4, <2>5
<1> QED BY <1>5, <1>6

\* OPX functions and their callbacks.
LEMMA PInvOpx == PInv /\ (CallOpxFunc \/ OpxEnds \/ CallbackEnds \/ CallProcedureFails) => PInv'
<1> SUFFICES ASSUME PInv, CallOpxFunc \/ OpxEnds \/ CallbackEnds \/ CallProcedureFails PROVE PInv'
  OBVIOUS
<1>1. /\ mode \in Modes /\ ip \in Codes /\ sp \in Int /\ trap \in BOOLEAN /\ inCallback \in BOOLEAN
      /\ frame \in Frames \cup {None} /\ FramesTyped /\ ModulesTyped /\ loaded \in Seq(Insts)
      /\ infos \in Seq(Int) /\ host \in Seq(Hosts)
  BY DEF PInv, ControlTypes
<1>2. /\ Len(infos) = Cardinality(OpxIn(host)) - (IF mode = "opx" THEN 1 ELSE 0)
      /\ CallbacksRecorded' <=> Len(infos') = Cardinality(OpxIn(host')) - (IF mode' = "opx" THEN 1 ELSE 0)
      /\ Cardinality(OpxIn(host)) \in Nat
  BY <1>1, CardinalityFact DEF PInv, CallbacksRecorded, OpxFunctions, OpxIn
<1>3. ASSUME UNCHANGED <<trap, frames, moduleVars>>, mode' \in Modes, sp' \in Int, ip' \in Codes,
             frame' \in Frames \cup {None}, inCallback' \in BOOLEAN, infos' \in Seq(Int), host' \in Seq(Hosts)
      PROVE  ControlTypes'
  BY <1>1, <1>3 DEF ControlTypes, FramesTyped, ModulesTyped, moduleVars
<1>4. CASE CallOpxFunc
  <2> DEFINE r == [kind |-> "opx", frame |-> frame, ip |-> ip]
  <2>1. /\ mode = "run" /\ mode' = "opx" /\ sp' = sp - 1 /\ host' = Append(host, r) /\ frame \in DOMAIN frames
        /\ UNCHANGED <<ip, trap, frame, frames, moduleVars, infos, inCallback>>
    BY <1>4 DEF CallOpxFunc, Executing, Current, frameVars
  <2>2. r \in Hosts /\ r.kind = "opx"
    BY <1>1, <2>1 DEF Hosts, FramesTyped
  <2> HIDE DEF r
  <2>3. /\ host' \in Seq(Hosts) /\ host' # <<>> /\ Last(host') = r
        /\ Cardinality(OpxIn(host')) = Cardinality(OpxIn(host)) + 1
    BY <1>1, <2>1, <2>2, OpxInAppend
  <2>4. ControlTypes'
    BY <1>1, <1>3, <2>1, <2>3 DEF Modes
  <2>5. CallbacksRecorded'
    BY <1>2, <2>1, <2>3
  <2> QED BY <2>2, <2>3, <2>4, <2>5 DEF PInv, OpxInControl
<1>5. CASE OpxEnds
  <2>1. /\ mode = "opx" /\ mode' \in {"run", "leave"} /\ host' = Front(host) /\ sp' \in {sp, sp + 1}
        /\ UNCHANGED <<ip, trap, frame, frames, moduleVars, infos, inCallback>>
    BY <1>5 DEF OpxEnds, Leaves, frameVars
  <2>2. host # <<>> /\ Last(host).kind = "opx"
    BY <2>1 DEF PInv, OpxInControl
  <2>3. host' \in Seq(Hosts) /\ Cardinality(OpxIn(host')) = Cardinality(OpxIn(host)) - 1
    BY <1>1, <2>1, <2>2, OpxInFront
  <2>4. ControlTypes'
    BY <1>1, <1>3, <2>1, <2>3 DEF Modes
  <2>5. CallbacksRecorded'
    BY <1>2, <2>1, <2>3
  <2> QED BY <2>1, <2>4, <2>5 DEF PInv, OpxInControl
<1>6. CASE CallbackEnds
  <2>1. /\ host # <<>> /\ Last(host).kind = "opx" /\ mode # "opx" /\ mode' = "opx"
        /\ frame' = Last(host).frame /\ infos' = Front(infos) /\ inCallback' = FALSE
        /\ sp' \in {sp - 1, Last(infos)}
        /\ UNCHANGED <<ip, trap, frames, host, moduleVars>>
    BY <1>6 DEF CallbackEnds, Innermost, DeletesCallbackInfo, GivesUp, Unwinding
  <2>2. Last(host) \in Hosts /\ Cardinality(OpxIn(host)) > 0
    BY <1>1, <2>1, OpxInFront
  <2>3. infos # <<>>
    BY <1>1, <1>2, <2>1, <2>2, EmptySeq
  <2>4. infos' \in Seq(Int) /\ Last(infos) \in Int /\ Len(infos') = Len(infos) - 1
    BY <1>1, <2>1, <2>3, FrontFact
  <2>5. ControlTypes'
    <3>1. sp' \in Int /\ frame' \in Frames \cup {None}
      BY <1>1, <2>1, <2>2, <2>4 DEF Hosts
    <3>2. mode' \in Modes /\ ip' \in Codes /\ host' \in Seq(Hosts) /\ inCallback' \in BOOLEAN
      BY <1>1, <2>1 DEF Modes
    <3> QED BY <1>3, <2>1, <2>4, <3>1, <3>2
  <2>6. CallbacksRecorded'
    BY <1>2, <2>1, <2>4
  <2> QED BY <2>1, <2>5, <2>6 DEF PInv, OpxInControl
<1>7. CASE CallProcedureFails
  <2>1. /\ UNCHANGED <<mode, ip, sp, trap, frame, frames, moduleVars, infos, host>> /\ inCallback' \in BOOLEAN
    BY <1>1, <1>7 DEF CallProcedureFails, CallFails, frameVars
  <2>2. ControlTypes'
    BY <1>1, <1>3, <2>1
  <2> QED BY <1>2, <2>1, <2>2 DEF PInv, OpxInControl
<1> QED BY <1>4, <1>5, <1>6, <1>7

LEMMA PInvCallback ==
  ASSUME PInv, NEW p \in Procs, CallProcedure(p) \/ CallProcedureUnresolved(p)
  PROVE  PInv'
<1>1. /\ mode = "opx" /\ ip \in Codes /\ sp \in Int /\ trap \in BOOLEAN
      /\ frame \in Frames \cup {None} /\ infos \in Seq(Int) /\ host \in Seq(Hosts)
  BY DEF PInv, ControlTypes, CallProcedure, CallProcedureUnresolved
<1>2. sp + Params[p] + 2 \in Int
  <2>1. Params[p] \in Nat
    BY ProcAssumption
  <2> QED BY <1>1, <2>1
<1>3. /\ Len(infos) = Cardinality(OpxIn(host)) - 1
      /\ CallbacksRecorded' <=> Len(infos') = Cardinality(OpxIn(host')) - (IF mode' = "opx" THEN 1 ELSE 0)
      /\ Cardinality(OpxIn(host)) \in Nat
  BY <1>1, CardinalityFact DEF PInv, CallbacksRecorded, OpxFunctions, OpxIn
<1>4. CASE CallProcedure(p)
  <2>1. PICK f \in Frames : /\ ConstructFrame(f, p, None, ip, sp + Params[p] + 2, TRUE)
                            /\ frame' = f /\ ip' = Code(f, 0, 0)
    BY <1>4 DEF CallProcedure
  <2>2. FramesTyped' /\ ModulesTyped' /\ loaded' \in Seq(Insts)
    BY <1>1, <1>2, <2>1, ConstructFrameTypes
  <2>3. /\ mode' = "run" /\ sp' = sp + Params[p] + 2 /\ inCallback' = TRUE /\ infos' = Append(infos, sp)
        /\ UNCHANGED <<trap, host>>
    BY <1>4 DEF CallProcedure, SetsInCallback
  <2>4. infos' \in Seq(Int) /\ Len(infos') = Len(infos) + 1
    BY <1>1, <2>3, AppendProperties
  <2>5. ip' \in Codes /\ frame' \in Frames
    BY <2>1 DEF Codes, Code
  <2>6. ControlTypes'
    <3>1. mode' \in Modes /\ sp' \in Int /\ host' \in Seq(Hosts)
      BY <1>1, <1>2, <2>3 DEF Modes
    <3>2. trap' \in BOOLEAN /\ inCallback' \in BOOLEAN
      BY <1>1, <2>3
    <3> QED BY <2>2, <2>4, <2>5, <3>1, <3>2 DEF ControlTypes
  <2>7. CallbacksRecorded'
    BY <1>3, <2>3, <2>4
  <2> QED BY <2>3, <2>6, <2>7 DEF PInv, OpxInControl
<1>5. CASE CallProcedureUnresolved(p)
  <2>1. \E f \in Frames : ConstructFrame(f, p, None, ip, sp + Params[p] + 2, TRUE)
    BY <1>5 DEF CallProcedureUnresolved
  <2>2. FramesTyped' /\ ModulesTyped' /\ loaded' \in Seq(Insts)
    BY <1>1, <1>2, <2>1, ConstructFrameTypes
  <2>3. inCallback' = FALSE /\ UNCHANGED <<mode, frame, ip, sp, trap, infos, host>>
    BY <1>5 DEF CallProcedureUnresolved
  <2>4. ControlTypes'
    BY <1>1, <2>2, <2>3 DEF ControlTypes, Modes
  <2>5. CallbacksRecorded'
    BY <1>1, <1>3, <2>3
  <2> QED BY <2>3, <2>4, <2>5 DEF PInv, OpxInControl
<1> QED BY <1>4, <1>5

\* LOADM, UNLOADM, the dialogs and the end of the runtime.
LEMMA PInvModules == PInv /\ (Loads \/ Dialogs \/ CloseModules \/ UNCHANGED vars) => PInv'
<1> SUFFICES ASSUME PInv, Loads \/ Dialogs \/ CloseModules \/ UNCHANGED vars PROVE PInv'
  OBVIOUS
<1>1. /\ mode \in Modes /\ ip \in Codes /\ sp \in Int /\ trap \in BOOLEAN /\ inCallback \in BOOLEAN
      /\ frame \in Frames \cup {None} /\ FramesTyped /\ ModulesTyped /\ loaded \in Seq(Insts)
  BY DEF PInv, ControlTypes
<1>2. /\ sp + 1 \in Int /\ sp - 1 \in Int /\ 0 \in Int /\ 1 \in Int
      /\ \A d \in Int : To(d) => ip' \in Codes
  <2>1. ASSUME NEW d \in Int, To(d) PROVE ip' \in Codes
    BY <1>1, <2>1 DEF To, Codes
  <2> QED BY <1>1, <2>1
<1>3. /\ UNCHANGED <<frame, frames>> => frame' \in Frames \cup {None} /\ FramesTyped'
      /\ UNCHANGED moduleVars => ModulesTyped' /\ loaded' \in Seq(Insts)
  BY <1>1 DEF FramesTyped, ModulesTyped, moduleVars
<1>4. ASSUME NEW m \in Files, LoadM(m) PROVE PInv'
  <2>1. mode = "run" /\ To(0) /\ sp' = sp - 1 /\ UNCHANGED <<frame, frames, hostVars>>
    BY <1>4 DEF LoadM, Command, Executing, frameVars
  <2>2. CASE Leaves /\ UNCHANGED <<trap, moduleVars>>
    <3>1. mode' \in Modes \ {"opx"} /\ trap' \in BOOLEAN
      BY <1>1, <2>2 DEF Leaves, Modes
    <3> QED BY <1>2, <1>3, <2>1, <2>2, <3>1, FrameStep
  <2>3. ASSUME NEW i \in Insts \ DOMAIN module, trap' = FALSE, UNCHANGED mode, loaded' = Append(loaded, i),
               module' = [j \in DOMAIN module \cup {i} |->
                            IF j = i THEN [file |-> m, count |-> 1] ELSE module[j]]
        PROVE  PInv'
    <3>1. ModulesTyped'
      BY <1>1, <2>3 DEF ModulesTyped, Modules
    <3>2. loaded' \in Seq(Insts)
      BY <1>1, <2>3, AppendProperties
    <3>3. mode' \in Modes \ {"opx"}
      BY <1>1, <2>1, <2>3
    <3> QED BY <1>2, <1>3, <2>1, <2>3, <3>1, <3>2, <3>3, FrameStep
  <2> QED BY <1>4, <2>2, <2>3 DEF LoadM
<1>5. ASSUME NEW m \in Files, UnLoadM(m) PROVE PInv'
  <2>1. mode = "run" /\ To(0) /\ sp' = sp - 1 /\ UNCHANGED <<frame, frames, hostVars>>
    BY <1>5 DEF UnLoadM, Command, Executing, frameVars
  <2>2. CASE Leaves /\ UNCHANGED <<trap, moduleVars>>
    <3>1. mode' \in Modes \ {"opx"} /\ trap' \in BOOLEAN
      BY <1>1, <2>2 DEF Leaves, Modes
    <3> QED BY <1>2, <1>3, <2>1, <2>2, <3>1, FrameStep
  <2>3. ASSUME NEW k \in DOMAIN loaded, DecCount(loaded[k]), loaded' = RemoveAt(loaded, k),
               trap' = FALSE, UNCHANGED mode
        PROVE  PInv'
    <3>1. ModulesTyped'
      BY <1>1, <2>3, DecCountTypes
    <3>2. loaded' \in Seq(Insts)
      BY <1>1, <2>3, RemoveAtTypes
    <3>3. mode' \in Modes \ {"opx"}
      BY <1>1, <2>1, <2>3
    <3> QED BY <1>2, <1>3, <2>1, <2>3, <3>1, <3>2, <3>3, FrameStep
  <2> QED BY <1>5, <2>2, <2>3 DEF UnLoadM
<1>6. CASE Dialogs
  <2>1. mode = "run" /\ UNCHANGED <<trap, frame, frames, moduleVars, hostVars>>
    BY <1>6 DEF Dialogs, DInit, DItem, Dialog, Statement, Executing
  <2>2. mode' \in Modes \ {"opx"} /\ sp' \in Int /\ trap' \in BOOLEAN
    BY <1>1, <1>2, <1>6, <2>1 DEF Dialogs, DInit, DItem, Dialog, Leaves, Modes
  <2>3. ip' \in Codes
    BY <1>1, <1>2, <1>6 DEF Dialogs, DInit, DItem, Dialog
  <2> QED BY <1>3, <2>1, <2>2, <2>3, FrameStep
<1>7. CASE CloseModules
  <2>1. mode = "closing" /\ mode' = "ended" /\ loaded' = <<>> /\ UNCHANGED <<ip, sp, trap, frame, frames, hostVars>>
    BY <1>7 DEF CloseModules, frameVars
  <2>2. ModulesTyped'
    BY <1>1, <1>7 DEF CloseModules, ModulesTyped
  <2>3. loaded' \in Seq(Insts)
    BY <2>1
  <2>4. mode' \in Modes \ {"opx"} /\ ip' \in Codes /\ sp' \in Int /\ trap' \in BOOLEAN
    BY <1>1, <2>1 DEF Modes
  <2> QED BY <1>3, <2>1, <2>2, <2>3, <2>4, FrameStep
<1>8. CASE UNCHANGED vars
  BY <1>8 DEF vars, frameVars, moduleVars, hostVars, PInv, ControlTypes, FramesTyped, ModulesTyped,
              CallbacksRecorded, OpxFunctions, OpxInControl
<1> QED BY <1>4, <1>5, <1>6, <1>7, <1>8 DEF Loads

LEMMA PInvNext == PInv /\ [Next]_vars => PInv'
BY PInvOperands, PInvFrames, PInvEval, PInvOpx, PInvCallback, PInvModules
   DEF Next, Calls, Ends, Handling, Closing

LEMMA SpecKeepsPInv == Spec => []PInv
BY PInvInit, PInvNext, PTL DEF Spec

\* The control state keeps the types of the C++ members: whatever unwinds, the stack pointer, the
\* frame pointers and the counts are of their kind (part of TypeOK).
THEOREM ControlTyped == Spec => []ControlTypes
<1>1. PInv => ControlTypes
  BY DEF PInv
<1> QED BY <1>1, SpecKeepsPInv, PTL

\* There is one InitCallbackL record for each callback in progress, so that ResetStack and the end
\* of a callback (OPLAPI.CPP) use their own, through errors and nested callbacks.
THEOREM CallbacksHaveRecords == Spec => []CallbacksRecorded
<1>1. PInv => CallbacksRecorded
  BY DEF PInv
<1> QED BY <1>1, SpecKeepsPInv, PTL

-----------------------------------------------------------------------------
(* The trap flag.                                                          *)

\* The flag is up between TRAP and its command, and while an error of the command is on its way.
TrapInv == trap => (mode = "run" /\ ip.trapping) \/ mode = "leave"

LEMMA TrapInvNext ==
  ASSUME {"Cancel", "IoSignal"} \cap Opcodes = {}, PInv, TrapInv, [Next]_vars
  PROVE  TrapInv'
<1>1. mode \in Modes /\ ip \in Codes /\ trap \in BOOLEAN
  BY DEF PInv, ControlTypes
<1>2. CASE Push \/ Operator \/ Drop \/ OnErr \/ Stop
  BY <1>2 DEF Push, Operator, Drop, OnErr, Stop, Statement, Executing, TrapInv
<1>3. CASE Raise
  BY <1>3 DEF Raise, Leaves, TrapInv
<1>4. CASE Trap
  <2>1. ip'.trapping = TRUE /\ mode' = "run"
    BY <1>1, <1>4 DEF Trap, Executing, Codes
  <2> QED BY <2>1 DEF TrapInv
<1>5. ASSUME Cancel \/ IoSignal PROVE FALSE
  BY <1>5 DEF Cancel, IoSignal, Command, Executing
<1>6. ASSUME Calls PROVE TrapInv'
  <2>1. ~trap /\ trap' = trap
    BY <1>1, <1>6 DEF Calls, RunProcedure, CallByName, Call, Executing, CallProcedure, CallProcedureFails,
                      CallProcedureUnresolved, TrapInv
  <2> QED BY <2>1 DEF TrapInv
<1>7. CASE Return \/ ZeroReturn
  BY <1>7 DEF Return, ZeroReturn, RemoveFrame, Statement, Executing, TrapInv
<1>8. CASE ReturnFromEval
  BY <1>8 DEF ReturnFromEval, Executing, TrapInv
<1>9. CASE EvalEnds \/ OpxEnds \/ CallbackEnds \/ ProgramEnds
  BY <1>9 DEF EvalEnds, OpxEnds, CallbackEnds, ProgramEnds, GivesUp, Unwinding, TrapInv
<1>10. CASE Handling
  BY <1>10 DEF Handling, Trapped, CatchError, DropFrame, ClearError, Unwinding, TrapInv
<1>11. CASE Eval
  BY <1>11 DEF Eval, Executing, TrapInv
<1>12. CASE CallOpxFunc
  BY <1>12 DEF CallOpxFunc, Executing, TrapInv
<1>13. CASE Loads
  BY <1>13 DEF Loads, LoadM, UnLoadM, Leaves, TrapInv
<1>14. CASE Dialogs
  BY <1>14 DEF Dialogs, DInit, DItem, Dialog, Statement, Executing, TrapInv
<1>15. CASE CloseFrame \/ CloseModules
  BY <1>15 DEF CloseFrame, CloseModules, TrapInv
<1>16. CASE UNCHANGED vars
  BY <1>16 DEF vars, TrapInv
<1> QED BY <1>2, <1>3, <1>4, <1>5, <1>6, <1>7, <1>8, <1>9, <1>10, <1>11, <1>12, <1>13, <1>14, <1>15, <1>16
        DEF Next, Operands, Ends, Closing

\* In a program that has no CANCEL and no IOSIGNAL, TRAP concerns its own command only: every other
\* command that may follow TRAP spends the flag, and the error handler spends it for the command.
THEOREM TrapEnds ==
  ASSUME {"Cancel", "IoSignal"} \cap Opcodes = {}
  PROVE  Spec => []TrapIsForItsCommand
<1>1. Init => TrapInv
  BY DEF Init, TrapInv
<1>2. PInv /\ TrapInv /\ [Next]_vars => TrapInv'
  BY TrapInvNext
<1>3. TrapInv => TrapIsForItsCommand
  BY DEF TrapInv, TrapIsForItsCommand
<1> QED BY <1>1, <1>2, <1>3, SpecKeepsPInv, PTL DEF Spec

-----------------------------------------------------------------------------
(* The access counts of the modules.                                       *)

CInv == OnlyOnce(loaded) /\ CountsExact

LEMMA UsersFact ==
  ASSUME PInv, NEW i
  PROVE  IsFiniteSet(Users(i)) /\ Cardinality(Users(i)) \in Nat /\ (Cardinality(Users(i)) = 0 <=> Users(i) = {})
<1>1. DOMAIN frames \subseteq 1..MaxFrames /\ MaxFrames \in Int
  BY ProcAssumption DEF PInv, ControlTypes, FramesTyped, Frames
<1>2. IsFiniteSet(1..MaxFrames)
  BY <1>1, FS_Interval
<1>3. Users(i) \subseteq 1..MaxFrames
  BY <1>1 DEF Users
<1>4. IsFiniteSet(Users(i))
  BY <1>2, <1>3, FS_Subset
<1> QED BY <1>4, FS_CardinalityType, FS_EmptySet

\* A step that neither makes nor deletes a frame and leaves the modules alone.
LEMMA SameUsers ==
  ASSUME Counted, UNCHANGED moduleVars, DOMAIN frames' = DOMAIN frames,
         \A f \in DOMAIN frames : frames'[f].def = frames[f].def
  PROVE  Counted'
<1>1. \A i : Users(i)' = Users(i)
  BY DEF Users
<1>2. {frames'[f].def[1] : f \in DOMAIN frames'} = {frames[f].def[1] : f \in DOMAIN frames}
  OBVIOUS
<1> QED BY <1>1, <1>2 DEF Counted, moduleVars

LEMMA SameDefs ==
  ASSUME FramesTyped, NEW f \in DOMAIN frames,
         UNCHANGED frames \/ \E n : frames' = [frames EXCEPT ![f].evals = n]
  PROVE  DOMAIN frames' = DOMAIN frames /\ \A g \in DOMAIN frames : frames'[g].def = frames[g].def
BY DEF FramesTyped, FrameRecords

LEMMA DeleteFrameCounted ==
  ASSUME PInv, Counted, NEW f \in DOMAIN frames, DeleteFrame(f)
  PROVE  Counted'
<1>0. PICK d : d = frames[f].def[1]
  OBVIOUS
<1>1. /\ frames' = [g \in DOMAIN frames \ {f} |-> frames[g]] /\ loaded' = loaded /\ DecCount(d)
  BY <1>0 DEF DeleteFrame
<1>2. \A i : Users(i)' = IF i = d THEN Users(i) \ {f} ELSE Users(i)
  BY <1>0, <1>1 DEF Users
<1>3. /\ d \in DOMAIN module /\ f \in Users(d)
      /\ DOMAIN module = Range(loaded) \cup {frames[g].def[1] : g \in DOMAIN frames}
      /\ \A i \in DOMAIN module :
           module[i].count = Cardinality(Users(i)) + (IF i \in Range(loaded) THEN 1 ELSE 0)
  BY <1>0 DEF Counted, Users
<1>4. /\ Cardinality(Users(d)) \in Nat \ {0} /\ IsFiniteSet(Users(d)')
      /\ Cardinality(Users(d)') = Cardinality(Users(d)) - 1
      /\ Cardinality(Users(d)') = 0 <=> Users(d)' = {}
  <2>1. IsFiniteSet(Users(d)) /\ Cardinality(Users(d)) \in Nat \ {0}
    BY <1>3, UsersFact
  <2>2. Users(d)' = Users(d) \ {f}
    BY <1>2
  <2>3. IsFiniteSet(Users(d)') /\ Cardinality(Users(d)') = Cardinality(Users(d)) - 1
    BY <1>3, <2>1, <2>2, FS_RemoveElement
  <2> QED BY <2>1, <2>3, FS_EmptySet
<1>5. \A i : i \in {frames'[g].def[1] : g \in DOMAIN frames'} <=> Users(i)' # {}
  BY DEF Users
<1>6. \A i : i \in {frames[g].def[1] : g \in DOMAIN frames} <=> Users(i) # {}
  BY DEF Users
<1>7. ModulesTyped
  BY DEF PInv, ControlTypes
<1>8. CASE module[d].count = 1
  <2>1. module' = [j \in DOMAIN module \ {d} |-> module[j]]
    BY <1>1, <1>8 DEF DecCount
  <2>2. d \notin Range(loaded) /\ Users(d)' = {}
    BY <1>3, <1>4, <1>8
  <2>3. DOMAIN module' = Range(loaded') \cup {frames'[g].def[1] : g \in DOMAIN frames'}
    BY <1>1, <1>2, <1>3, <1>5, <1>6, <2>1, <2>2
  <2>4. \A i \in DOMAIN module' : module'[i] = module[i] /\ Users(i)' = Users(i) /\ i \in DOMAIN module
    BY <1>2, <2>1
  <2> QED BY <1>1, <1>3, <2>3, <2>4 DEF Counted
<1>9. CASE module[d].count # 1
  <2>1. module' = [module EXCEPT ![d].count = @ - 1]
    BY <1>1, <1>9 DEF DecCount
  <2>2. /\ DOMAIN module' = DOMAIN module /\ module'[d].count = module[d].count - 1
        /\ \A i \in DOMAIN module \ {d} : module'[i] = module[i]
    BY <1>3, <1>7, <2>1 DEF ModulesTyped, Modules
  <2>3. d \in Range(loaded) \/ Users(d)' # {}
    BY <1>3, <1>4, <1>9
  <2>4. DOMAIN module' = Range(loaded') \cup {frames'[g].def[1] : g \in DOMAIN frames'}
    BY <1>1, <1>2, <1>3, <1>5, <1>6, <2>2, <2>3
  <2>5. ASSUME NEW i \in DOMAIN module'
        PROVE  module'[i].count = Cardinality(Users(i)') + (IF i \in Range(loaded') THEN 1 ELSE 0)
    <3>1. CASE i = d
      BY <1>1, <1>3, <1>4, <2>2, <3>1
    <3>2. CASE i # d
      BY <1>1, <1>2, <1>3, <2>2, <3>2
    <3> QED BY <3>1, <3>2
  <2> QED BY <2>4, <2>5 DEF Counted
<1> QED BY <1>8, <1>9

LEMMA ConstructFrameCounted ==
  ASSUME PInv, Counted, NEW f \in Frames, NEW p, NEW prev, NEW ret, NEW base, NEW byName,
         ConstructFrame(f, p, prev, ret, base, byName)
  PROVE  Counted'
<1>1. PICK d \in FindProcedure(p) :
        /\ frames' = [g \in DOMAIN frames \cup {f} |->
                        IF g = f THEN [def |-> <<d, p>>, prev |-> prev, base |-> base, ret |-> ret,
                                       onerr |-> None, evals |-> 0, byName |-> byName,
                                       externs |-> [n \in ExternsOf[p] |-> Owner(globals', n)]]
                                 ELSE frames[g]]
        /\ module' = [module EXCEPT ![d].count = @ + 1]
  BY DEF ConstructFrame
<1>2. f \notin DOMAIN frames /\ loaded' = loaded
  BY DEF ConstructFrame
<1>3. d \in Range(loaded) /\ d \in DOMAIN module
  BY <1>1 DEF FindProcedure, Having, Range, Counted
<1>4. /\ DOMAIN frames' = DOMAIN frames \cup {f} /\ frames'[f].def[1] = d
      /\ \A g \in DOMAIN frames : frames'[g] = frames[g]
  BY <1>1, <1>2
<1>5. \A i : Users(i)' = IF i = d THEN Users(i) \cup {f} ELSE Users(i)
  BY <1>2, <1>4 DEF Users
<1>6. f \notin Users(d)
  BY <1>2 DEF Users
<1>7. Cardinality(Users(d)') = Cardinality(Users(d)) + 1 /\ Cardinality(Users(d)) \in Nat
  BY <1>5, <1>6, UsersFact, FS_AddElement
<1>8. ModulesTyped
  BY DEF PInv, ControlTypes
<1>9. /\ DOMAIN module' = DOMAIN module /\ module'[d].count = module[d].count + 1
      /\ \A i \in DOMAIN module \ {d} : module'[i] = module[i]
  BY <1>1, <1>3, <1>8 DEF ModulesTyped, Modules
<1>10. DOMAIN module' = Range(loaded') \cup {frames'[g].def[1] : g \in DOMAIN frames'}
  BY <1>2, <1>3, <1>4, <1>9 DEF Counted
<1>11. ASSUME NEW i \in DOMAIN module'
       PROVE  module'[i].count = Cardinality(Users(i)') + (IF i \in Range(loaded') THEN 1 ELSE 0)
  <2>1. module[i].count = Cardinality(Users(i)) + (IF i \in Range(loaded) THEN 1 ELSE 0)
    BY <1>9 DEF Counted
  <2>2. CASE i = d
    BY <1>2, <1>3, <1>7, <1>9, <2>1, <2>2
  <2>3. CASE i # d
    BY <1>2, <1>5, <1>9, <2>1, <2>3
  <2> QED BY <2>2, <2>3
<1> QED BY <1>10, <1>11 DEF Counted

LEMMA LoadCounted ==
  ASSUME PInv, Counted, OnlyOnce(loaded), NEW m, LoadM(m)
  PROVE  OnlyOnce(loaded') /\ Counted'
<1>1. frames' = frames /\ loaded \in Seq(Insts) /\ mode = "run"
  BY DEF LoadM, frameVars, PInv, ControlTypes, Command, Executing
<1>2. CASE UNCHANGED moduleVars
  BY <1>1, <1>2, SameUsers DEF moduleVars
<1>3. ASSUME NEW i \in Insts \ DOMAIN module, loaded' = Append(loaded, i),
             module' = [j \in DOMAIN module \cup {i} |->
                          IF j = i THEN [file |-> m, count |-> 1] ELSE module[j]]
      PROVE  OnlyOnce(loaded') /\ Counted'
  <2>1. i \notin Range(loaded) /\ Users(i) = {}
    BY <1>3 DEF Counted, Users
  <2>2. OnlyOnce(loaded') /\ Range(loaded') = Range(loaded) \cup {i}
    BY <1>1, <1>3, <2>1, AppendFact
  <2>3. Cardinality(Users(i)) = 0 /\ \A j : Users(j)' = Users(j)
    BY <1>1, <2>1, FS_EmptySet DEF Users
  <2>4. DOMAIN module' = Range(loaded') \cup {frames'[g].def[1] : g \in DOMAIN frames'}
    BY <1>1, <1>3, <2>2 DEF Counted
  <2>5. ASSUME NEW j \in DOMAIN module'
        PROVE  module'[j].count = Cardinality(Users(j)') + (IF j \in Range(loaded') THEN 1 ELSE 0)
    <3>1. CASE j = i
      BY <1>3, <2>2, <2>3, <3>1
    <3>2. CASE j # i
      BY <1>3, <2>2, <2>3, <3>2 DEF Counted
    <3> QED BY <3>1, <3>2
  <2> QED BY <2>2, <2>4, <2>5 DEF Counted
<1> QED BY <1>2, <1>3 DEF LoadM

LEMMA UnLoadCounted ==
  ASSUME PInv, Counted, OnlyOnce(loaded), NEW m, UnLoadM(m)
  PROVE  OnlyOnce(loaded') /\ Counted'
<1>1. frames' = frames /\ loaded \in Seq(Insts) /\ ModulesTyped
  BY DEF UnLoadM, frameVars, PInv, ControlTypes
<1>2. CASE UNCHANGED moduleVars
  BY <1>1, <1>2, SameUsers DEF moduleVars
<1>3. ASSUME NEW k \in DOMAIN loaded, DecCount(loaded[k]), loaded' = RemoveAt(loaded, k)
      PROVE  OnlyOnce(loaded') /\ Counted'
  <2>1. PICK d : d = loaded[k]
    OBVIOUS
  <2>2. k \in 1..Len(loaded)
    BY <1>1, LenProperties
  <2>3. OnlyOnce(loaded') /\ Range(loaded') = Range(loaded) \ {d}
    BY <1>1, <1>3, <2>1, <2>2, RemoveAtFact
  <2>4. d \in Range(loaded) /\ d \in DOMAIN module /\ module[d].count = Cardinality(Users(d)) + 1
    BY <2>1 DEF Range, Counted
  <2>5. Cardinality(Users(d)) \in Nat /\ (Cardinality(Users(d)) = 0 <=> Users(d) = {})
    BY UsersFact
  <2>6. /\ \A j : Users(j)' = Users(j)
        /\ \A j : j \in {frames[g].def[1] : g \in DOMAIN frames} <=> Users(j) # {}
    BY <1>1 DEF Users
  <2>7. CASE module[d].count = 1
    <3>1. module' = [j \in DOMAIN module \ {d} |-> module[j]]
      BY <1>3, <2>1, <2>7 DEF DecCount
    <3>2. Users(d) = {}
      BY <2>4, <2>5, <2>7
    <3>3. DOMAIN module' = Range(loaded') \cup {frames'[g].def[1] : g \in DOMAIN frames'}
      BY <1>1, <2>3, <2>6, <3>1, <3>2 DEF Counted
    <3>4. \A j \in DOMAIN module' :
            module'[j].count = Cardinality(Users(j)') + (IF j \in Range(loaded') THEN 1 ELSE 0)
      BY <2>3, <2>6, <3>1 DEF Counted
    <3> QED BY <2>3, <3>3, <3>4 DEF Counted
  <2>8. CASE module[d].count # 1
    <3>1. module' = [module EXCEPT ![d].count = @ - 1]
      BY <1>3, <2>1, <2>8 DEF DecCount
    <3>2. /\ DOMAIN module' = DOMAIN module /\ module'[d].count = module[d].count - 1
          /\ \A j \in DOMAIN module \ {d} : module'[j] = module[j]
      BY <1>1, <2>4, <3>1 DEF ModulesTyped, Modules
    <3>3. Users(d) # {}
      BY <2>4, <2>5, <2>8
    <3>4. DOMAIN module' = Range(loaded') \cup {frames'[g].def[1] : g \in DOMAIN frames'}
      BY <1>1, <2>3, <2>6, <3>2, <3>3 DEF Counted
    <3>5. ASSUME NEW j \in DOMAIN module'
          PROVE  module'[j].count = Cardinality(Users(j)') + (IF j \in Range(loaded') THEN 1 ELSE 0)
      <4>1. CASE j = d
        BY <2>3, <2>4, <2>5, <2>6, <3>2, <4>1
      <4>2. CASE j # d
        BY <2>3, <2>6, <3>2, <4>2 DEF Counted
      <4> QED BY <4>1, <4>2
    <3> QED BY <2>3, <3>4, <3>5 DEF Counted
  <2> QED BY <2>7, <2>8
<1> QED BY <1>2, <1>3 DEF UnLoadM

LEMMA CInvInit == Init => CInv
<1> SUFFICES ASSUME Init PROVE CInv
  OBVIOUS
<1>1. /\ DOMAIN frames = {1} /\ frames[1].def[1] = 1 /\ loaded = <<1>>
      /\ DOMAIN module = {1} /\ module[1].count = 2
  BY DEF Init
<1>2. Users(1) = {1} /\ Cardinality({1}) = 1 /\ Range(loaded) = {1}
  <2>1. Users(1) = {1}
    BY <1>1 DEF Users
  <2>2. Range(<<1>>) = {1}
    BY DEF Range
  <2> QED BY <1>1, <2>1, <2>2, FS_Singleton
<1>3. OnlyOnce(loaded)
  BY <1>1 DEF OnlyOnce
<1> QED BY <1>1, <1>2, <1>3 DEF CInv, CountsExact, Counted

LEMMA CInvNext == PInv /\ CInv /\ [Next]_vars => CInv'
<1> SUFFICES ASSUME PInv, CInv, [Next]_vars PROVE CInv'
  OBVIOUS
<1>1. FramesTyped
  BY DEF PInv, ControlTypes
<1>2. ASSUME UNCHANGED <<frames, moduleVars>>, mode # "ended" PROVE CInv'
  BY <1>2, SameUsers DEF CInv, CountsExact, moduleVars
<1>3. ASSUME NEW f \in DOMAIN frames, DeleteFrame(f), mode # "ended" PROVE CInv'
  BY <1>3, DeleteFrameCounted DEF CInv, CountsExact, DeleteFrame
<1>4. ASSUME NEW f \in Frames, NEW p, NEW prev, NEW ret, NEW base, NEW byName,
             ConstructFrame(f, p, prev, ret, base, byName), mode # "ended"
      PROVE  CInv'
  <2>1. Counted /\ OnlyOnce(loaded)
    BY <1>4 DEF CInv, CountsExact
  <2>2. Counted'
    BY <1>4, <2>1, ConstructFrameCounted
  <2>3. loaded' = loaded
    BY <1>4 DEF ConstructFrame
  <2> QED BY <2>1, <2>2, <2>3 DEF CInv, CountsExact
<1>5. ASSUME NEW f \in DOMAIN frames, UNCHANGED moduleVars, mode # "ended",
             DOMAIN frames' = DOMAIN frames, \A g \in DOMAIN frames : frames'[g].def = frames[g].def
      PROVE  CInv'
  BY <1>5, SameUsers DEF CInv, CountsExact, moduleVars
<1>6. CASE Push \/ Operator \/ Drop \/ Raise \/ Trap \/ Cancel \/ IoSignal \/ Stop \/ ReturnFromEval
  BY <1>2, <1>6 DEF Push, Operator, Drop, Raise, Trap, Cancel, IoSignal, Stop, ReturnFromEval,
                    Statement, Command, Executing, frameVars
<1>7. CASE OnErr
  <2>1. PICK handler : frames' = [frames EXCEPT ![frame].onerr = handler]
    BY <1>7 DEF OnErr
  <2>2. /\ DOMAIN frames' = DOMAIN frames /\ frame \in DOMAIN frames /\ mode # "ended" /\ UNCHANGED moduleVars
    BY <1>7, <2>1 DEF OnErr, Statement, Executing, Current
  <2>3. \A g \in DOMAIN frames : frames'[g].def = frames[g].def
    BY <1>1, <2>1 DEF FramesTyped, FrameRecords
  <2> QED BY <1>5, <2>2, <2>3
<1>8. ASSUME NEW p, RunProcedure(p) \/ CallByName(p) PROVE CInv'
  <2>1. /\ mode = "run"
        /\ \/ UNCHANGED <<frames, moduleVars>>
           \/ \E f \in Frames : \E ret, base, byName : ConstructFrame(f, p, frame, ret, base, byName)
    BY <1>8 DEF RunProcedure, CallByName, Call, CallFails, Executing, frameVars
  <2> QED BY <1>2, <1>4, <2>1
<1>9. ASSUME NEW p, CallProcedure(p) \/ CallProcedureUnresolved(p) PROVE CInv'
  <2>1. mode = "opx" /\ \E f \in Frames : \E ret, base, byName : ConstructFrame(f, p, None, ret, base, byName)
    BY <1>9 DEF CallProcedure, CallProcedureUnresolved
  <2> QED BY <1>4, <2>1
<1>10. CASE CallProcedureFails \/ CallOpxFunc \/ OpxEnds \/ CallbackEnds \/ ProgramEnds \/ Trapped \/ CatchError
  BY <1>2, <1>10 DEF CallProcedureFails, CallFails, CallOpxFunc, Executing, OpxEnds, CallbackEnds, ProgramEnds,
                     Trapped, CatchError, GivesUp, Unwinding, frameVars
<1>11. CASE Return \/ ZeroReturn \/ DropFrame \/ CloseFrame
  BY <1>3, <1>11 DEF Return, ZeroReturn, RemoveFrame, DropFrame, CloseFrame, Statement, Executing, Unwinding, Current
<1>12. CASE Eval
  <2>1. /\ mode = "run" /\ frame \in DOMAIN frames /\ UNCHANGED moduleVars
        /\ \/ UNCHANGED frames
           \/ frames' = [frames EXCEPT ![frame].evals = @ + 1]
    BY <1>12 DEF Eval, Executing, Current
  <2>2. DOMAIN frames' = DOMAIN frames /\ \A g \in DOMAIN frames : frames'[g].def = frames[g].def
    BY <1>1, <2>1, SameDefs
  <2> QED BY <1>5, <2>1, <2>2
<1>13. CASE EvalEnds
  <2>1. /\ mode # "ended" /\ Last(host).frame \in DOMAIN frames /\ UNCHANGED moduleVars
        /\ frames' = [frames EXCEPT ![Last(host).frame].evals = @ - 1]
    BY <1>13 DEF EvalEnds, GivesUp, Unwinding
  <2>2. DOMAIN frames' = DOMAIN frames /\ \A g \in DOMAIN frames : frames'[g].def = frames[g].def
    BY <1>1, <2>1, SameDefs
  <2> QED BY <1>5, <2>1, <2>2
<1>14. ASSUME NEW m, LoadM(m) \/ UnLoadM(m) PROVE CInv'
  <2>1. mode # "ended"
    BY <1>14 DEF LoadM, UnLoadM, Command, Executing
  <2> QED BY <1>14, <2>1, LoadCounted, UnLoadCounted DEF CInv, CountsExact
<1>15. CASE Dialogs
  BY <1>2, <1>15 DEF Dialogs, DInit, DItem, Dialog, Statement, Executing
<1>16. CASE CloseModules
  BY <1>16 DEF CloseModules, CInv, CountsExact, OnlyOnce
<1>17. CASE UNCHANGED vars
  BY <1>17, SameUsers DEF vars, frameVars, moduleVars, CInv, CountsExact
<1> QED BY <1>6, <1>7, <1>8, <1>9, <1>10, <1>11, <1>12, <1>13, <1>14, <1>15, <1>16, <1>17
        DEF Next, Operands, Calls, Ends, Handling, Loads, Closing

\* Until the program has ended, the access count of every module is the number of frames that run
\* its procedures, plus one while it is in the collection, and nothing else is in memory: UNLOADM of a
\* running module, errors that unwind frames and failed callbacks neither leak nor free q-code in use.
THEOREM ModuleCountsExact == Spec => []CountsExact
<1>1. CInv => CountsExact
  BY DEF CInv
<1> QED BY <1>1, CInvInit, CInvNext, SpecKeepsPInv, PTL DEF Spec

=============================================================================
