------------------------- MODULE OplDatabaseProofs -------------------------
(***************************************************************************)
(* Proofs about logical names and the databases they share, for any set of *)
(* logical names, databases and programs: the access counts and the        *)
(* refinement of OplLogicalNames, then how cursors and record numbers go   *)
(* together, the types, the records, the record buffers and POS.           *)
(***************************************************************************)
EXTENDS OplDatabase, FiniteSetTheorems, WellFoundedInduction, TLAPS

OpenNames == {n \in Names : Open(n)}
On(d) == {n \in Names : iParentDbase[n] = d}

(* What the counts need to be inductive: the databases of the logical      *)
(* names, with the counts.                                                 *)
ViewsInv ==
  /\ iParentDbase \in [Names -> Dbs \cup {None}]
  /\ iOplDb \in [Dbs -> Nat]
  /\ iCurrLogName \in Names \cup {None}
  /\ AccessCountsExact
  /\ CurrentIsOpen

-----------------------------------------------------------------------------
(* What the keywords do to the variables of views.                         *)
Opens(n, d) ==
  /\ ~Open(n)
  /\ iParentDbase' = [iParentDbase EXCEPT ![n] = d]
  /\ iCount' = iCount + 1
  /\ iCurrLogName' = n
  /\ iCurrOplRowSet' = n
  /\ iOplDb' = [iOplDb EXCEPT ![d] = @ + 1]

Selects(n) ==
  /\ Open(n)
  /\ iCurrLogName' = n
  /\ iCurrOplRowSet' = n
  /\ UNCHANGED <<iParentDbase, iOplDb, iCount>>

Left1 == {n \in Names : Open(n)} \ {iCurrLogName}
Closes ==
  /\ iCount # 0
  /\ iCurrLogName' = (IF iCount = 1 THEN None
                      ELSE CHOOSE n \in Left1 : \A m \in Left1 : n <= m)
  /\ iCurrOplRowSet' = iCurrLogName'
  /\ iOplDb' = [iOplDb EXCEPT ![iParentDbase[iCurrOplRowSet]] = @ - 1]
  /\ iParentDbase' = [iParentDbase EXCEPT ![iCurrLogName] = None]
  /\ iCount' = iCount - 1

\* An OPEN or CREATE that fails after it has counted its database gives it
\* back and leaves the logical names as they were.
LEMMA FailedOpenKeepsNames ==
  ASSUME iOplDb \in [Dbs -> Nat], NEW kw, NEW d \in Dbs, FailsCounted(kw, d)
  PROVE  UNCHANGED <<names, iBookmarkArray, lhs>> /\ Left(kw, iCurrOplRowSet)
<1>1. iOplDb' = [Counted(d) EXCEPT ![d] = Counted(d)[d] - 1]
  BY DEF FailsCounted, CloseDbIfNotInUse
<1>2. iOplDb' = iOplDb
  BY <1>1 DEF Counted
<1> QED BY <1>2 DEF FailsCounted, names, views

\* Every step opens one name, selects one, closes the current one, or
\* leaves the logical names as they are.
LEMMA StepOfViews ==
  ASSUME ProgramsAssumption, prog \in Programs, iOplDb \in [Dbs -> Nat], [Next]_vars
  PROVE  \/ UNCHANGED views
         \/ \E n \in Names, d \in Dbs : Opens(n, d)
         \/ \E n \in Names : Selects(n)
         \/ Closes
<1>1. prog.names \subseteq Names /\ prog.files \subseteq Dbs
  BY DEF ProgramsAssumption
<1>2. CASE UNCHANGED vars
  BY <1>2 DEF vars, names
<1>3. CASE OpFirst \/ OpLast \/ OpNext \/ OpBack \/ OpPosition \/ OpFind \/ OpFindField
  BY <1>3 DEF OpFirst, OpLast, OpNext, OpBack, OpPosition, OpFind, OpFindField,
              Becomes, LeavesWith
<1>4. ASSUME NEW kw, OpenKeyword(kw)
      PROVE  UNCHANGED views \/ \E n \in Names, d \in Dbs : Opens(n, d)
  <2>1. CASE Leaves(kw)
    BY <2>1 DEF Leaves, names
  <2>2. ASSUME NEW d \in prog.files, FailsCounted(kw, d)
        PROVE  UNCHANGED views
    BY <1>1, <2>2, FailedOpenKeepsNames DEF names
  <2>3. ASSUME NEW n \in prog.names, NEW d \in prog.files, ~Open(n), AddRowSet(kw, n, d)
        PROVE  Opens(n, d)
    BY <2>3 DEF AddRowSet, Counted, Opens
  <2> QED BY <1>1, <1>4, <2>1, <2>2, <2>3 DEF OpenKeyword
<1>5. CASE OpCreate
  <2>1. CASE Leaves("CREATE")
    BY <2>1 DEF Leaves, names
  <2>2. ASSUME NEW d \in prog.files, FailsCounted("CREATE", d)
        PROVE  UNCHANGED views
    BY <1>1, <2>2, FailedOpenKeepsNames DEF names
  <2>3. ASSUME NEW n \in prog.names, NEW d \in prog.files, ~Open(n), AddRowSet("CREATE", n, d)
        PROVE  Opens(n, d)
    BY <2>3 DEF AddRowSet, Counted, Opens
  <2> QED BY <1>1, <1>5, <2>1, <2>2, <2>3 DEF OpCreate
<1>6. CASE UseLog
  BY <1>1, <1>6 DEF UseLog, Leaves, Selects, names
<1>7. CASE OpClose
  BY <1>7 DEF OpClose, NextCurrent, FirstOpen, OpenCheckL, CloseDbIfNotInUse, Closes, cdb, Left1
<1>8. CASE OpDeleteTable
  BY <1>8 DEF OpDeleteTable, Leaves, names
<1>9. CASE OpAppend
  BY <1>9 DEF OpAppend, Leaves, LeavesWith, PutFails, WriteFails, AddsRow, names
<1>10. CASE OpUpdate
  BY <1>10 DEF OpUpdate, Leaves, LeavesWith, PutFails, WriteFails, ReplacesRow, names
<1>11. CASE OpModify \/ OpInsert
  BY <1>11 DEF OpModify, OpInsert, Leaves, LeavesWith, Becomes, names
<1>12. CASE OpPut
  BY <1>12 DEF OpPut, Leaves, PutFails, WriteFails, AddsRow, Becomes, names
<1>13. CASE OpCancel \/ OpErase
  BY <1>13 DEF OpCancel, OpErase, LeavesWith, WriteFails
<1>14. CASE OpLeftSide \/ OpAssign
  BY <1>14 DEF OpLeftSide, OpAssign, Leaves, names
<1>15. CASE OpBookmark \/ OpGotoMark \/ OpKillMark
  BY <1>15 DEF OpBookmark, OpGotoMark, OpKillMark, Leaves, Becomes, names
<1>16. CASE OpBeginTrans \/ OpCommitTrans \/ OpRollback
  BY <1>16 DEF OpBeginTrans, OpCommitTrans, OpRollback, Leaves, names
<1>17. CASE NotOpen
  BY <1>17 DEF NotOpen, Leaves, names
<1> QED
  BY <1>2, <1>3, <1>4, <1>5, <1>6, <1>7, <1>8, <1>9, <1>10, <1>11, <1>12, <1>13,
     <1>14, <1>15, <1>16, <1>17 DEF Next, Keyword

-----------------------------------------------------------------------------
(* Counting.                                                               *)
\* A set of logical names is finite and has a least element.
LEMMA NamesFinite ==
  ASSUME NamesAssumption, NEW S \in SUBSET Names
  PROVE  /\ IsFiniteSet(S)
         /\ Cardinality(S) \in Nat
         /\ Cardinality(S) = 0 <=> S = {}
         /\ Cardinality(S) = 1 <=> \E n : S = {n}
BY FS_Subset, FS_CardinalityType, FS_EmptySet, FS_Singleton DEF NamesAssumption

\* FirstOpen of some names is one of them.
LEMMA LeastName ==
  ASSUME NamesAssumption, NEW S \in SUBSET Names, S # {}
  PROVE  (CHOOSE n \in S : \A m \in S : n <= m) \in S
<1>1. S \subseteq Nat
  BY DEF NamesAssumption
<1>2. PICK n \in S : \A m \in S : ~(<<m, n>> \in OpToRel(<, Nat))
  BY <1>1, NatLessThanWellFounded, WFMin
<1>3. \A m \in S : ~(m < n)
  BY <1>1, <1>2, Zenon DEF OpToRel
<1>4. \A m \in S : n <= m
  BY <1>1, <1>3
<1> QED BY <1>4

\* Opening keeps the counts.
LEMMA OpensKeeps ==
  ASSUME NamesAssumption, NoneAssumption, ViewsInv,
         NEW n \in Names, NEW d \in Dbs, Opens(n, d)
  PROVE  ViewsInv'
<1>1. iParentDbase' \in [Names -> Dbs \cup {None}] /\ iOplDb' \in [Dbs -> Nat]
  BY DEF Opens, ViewsInv
<1>2. iParentDbase[n] = None /\ iParentDbase'[n] = d /\ d # None
  BY DEF Opens, ViewsInv, Open, NoneAssumption
<1>3. \A m \in Names : m # n => iParentDbase'[m] = iParentDbase[m]
  BY DEF Opens, ViewsInv
<1>4. OpenNames' = OpenNames \cup {n} /\ n \notin OpenNames
  <2>1. OpenNames' = {m \in Names : iParentDbase'[m] # None}
    BY DEF OpenNames, Open
  <2>2. OpenNames = {m \in Names : iParentDbase[m] # None}
    BY DEF OpenNames, Open
  <2>3. iParentDbase[n] = None /\ iParentDbase'[n] # None
    BY <1>2
  <2>4. \A m \in Names : m \in OpenNames' <=> m \in OpenNames \/ m = n
    BY <1>3, <2>1, <2>2, <2>3
  <2>5. OpenNames' \subseteq Names /\ OpenNames \subseteq Names /\ n \notin OpenNames
    BY <2>1, <2>2, <2>3
  <2> HIDE DEF OpenNames
  <2> QED BY <2>4, <2>5
<1>5. \A x \in Dbs : On(x)' = (IF x = d THEN On(x) \cup {n} ELSE On(x)) /\ n \notin On(x)
  BY <1>2, <1>3, NoneAssumption DEF On, NoneAssumption
<1>6. iCount' = Cardinality(OpenNames')
  <2>1. OpenNames \in SUBSET Names
    BY DEF OpenNames
  <2>2. iCount = Cardinality(OpenNames) /\ iCount' = iCount + 1
    BY DEF ViewsInv, CurrentIsOpen, OpenNames, Opens
  <2> QED BY <1>4, <2>1, <2>2, NamesFinite, FS_AddElement
<1>7. \A x \in Dbs : iOplDb'[x] = Cardinality(On(x)')
  <2> SUFFICES ASSUME NEW x \in Dbs PROVE iOplDb'[x] = Cardinality(On(x)')
    OBVIOUS
  <2>1. On(x) \in SUBSET Names
    BY DEF On
  <2>2. iOplDb[x] = Cardinality(On(x)) /\ iOplDb'[x] = IF x = d THEN iOplDb[x] + 1 ELSE iOplDb[x]
    BY DEF ViewsInv, AccessCountsExact, On, Opens
  <2> QED BY <1>5, <2>1, <2>2, NamesFinite, FS_AddElement
<1>8. AccessCountsExact'
  BY <1>7 DEF AccessCountsExact, On
<1>9. CurrentIsOpen'
  BY <1>2, <1>6, NoneAssumption DEF CurrentIsOpen, Opens, OpenNames, Open, NoneAssumption
<1> QED BY <1>1, <1>8, <1>9 DEF ViewsInv, Opens

\* Selecting keeps them.
LEMMA SelectsKeeps ==
  ASSUME NoneAssumption, ViewsInv, NEW n \in Names, Selects(n)
  PROVE  ViewsInv'
BY DEF ViewsInv, Selects, AccessCountsExact, CurrentIsOpen, Open, NoneAssumption

\* Closing keeps them: the next current name is one that is still open.
LEMMA ClosesKeeps ==
  ASSUME NamesAssumption, NoneAssumption, ViewsInv, Closes
  PROVE  ViewsInv' /\ iCurrLogName \in Names /\ Open(iCurrLogName)
<1> DEFINE c == iCurrLogName
           d == iParentDbase[c]
<1>0. OpenNames \in SUBSET Names
  BY DEF OpenNames
<1>1. c # None
  <2>1. iCount = Cardinality(OpenNames) /\ iCount # 0
    BY DEF ViewsInv, CurrentIsOpen, OpenNames, Closes
  <2>2. OpenNames # {}
    BY <1>0, <2>1, NamesFinite
  <2> QED BY <2>2 DEF ViewsInv, CurrentIsOpen, OpenNames
<1>2. c \in Names /\ Open(c) /\ d \in Dbs /\ iCurrOplRowSet = c
  <2>1. Open(c) /\ iCurrOplRowSet = c
    BY <1>1 DEF ViewsInv, CurrentIsOpen
  <2>2. c \in Names
    BY <1>1 DEF ViewsInv, CurrentIsOpen
  <2> QED BY <2>1, <2>2 DEF ViewsInv, Open
<1>3. iParentDbase' = [iParentDbase EXCEPT ![c] = None]
      /\ iOplDb' = [iOplDb EXCEPT ![d] = @ - 1] /\ iCount' = iCount - 1
  BY <1>2 DEF Closes
<1>4. OpenNames' = OpenNames \ {c} /\ c \in OpenNames
  BY <1>2, <1>3 DEF OpenNames, Open, ViewsInv
<1>5. \A x \in Dbs : On(x)' = On(x) \ {c} /\ (c \in On(x) <=> x = d)
  BY <1>2, <1>3, NoneAssumption DEF On, ViewsInv, NoneAssumption
<1>6. iCount' = Cardinality(OpenNames')
  <2>1. iCount = Cardinality(OpenNames)
    BY DEF ViewsInv, CurrentIsOpen, OpenNames
  <2> QED BY <1>0, <1>3, <1>4, <2>1, NamesFinite, FS_RemoveElement
<1>7. \A x \in Dbs : iOplDb'[x] = Cardinality(On(x)')
  <2> SUFFICES ASSUME NEW x \in Dbs PROVE iOplDb'[x] = Cardinality(On(x)')
    OBVIOUS
  <2>1. On(x) \in SUBSET Names
    BY DEF On
  <2>2. iOplDb[x] = Cardinality(On(x)) /\ iOplDb'[x] = IF x = d THEN iOplDb[x] - 1 ELSE iOplDb[x]
    BY <1>2, <1>3 DEF ViewsInv, AccessCountsExact, On
  <2> QED BY <1>5, <2>1, <2>2, NamesFinite, FS_RemoveElement
<1>8. iParentDbase' \in [Names -> Dbs \cup {None}] /\ iOplDb' \in [Dbs -> Nat]
  <2>1. \A x \in Dbs : Cardinality(On(x)') \in Nat
    <3>1. \A x \in Dbs : On(x)' \in SUBSET Names
      BY DEF On
    <3> QED BY <3>1, NamesFinite
  <2>2. iOplDb' = [x \in Dbs |-> iOplDb'[x]]
    BY <1>2, <1>3 DEF ViewsInv
  <2> QED BY <1>3, <1>7, <2>1, <2>2 DEF ViewsInv
<1>9. iCurrLogName' = None => OpenNames' = {}
  <2>1. SUFFICES ASSUME iCurrLogName' = None PROVE OpenNames' = {}
    OBVIOUS
  <2>2. Left1 = OpenNames' /\ Left1 \in SUBSET Names
    BY <1>4 DEF Left1, OpenNames
  <2>3. CASE iCount = 1
    <3>1. iCount' = 0
      BY <1>3, <2>3
    <3> QED BY <1>6, <2>2, <3>1, NamesFinite
  <2>4. CASE iCount # 1
    <3>1. None = CHOOSE n \in Left1 : \A m \in Left1 : n <= m
      BY <2>1, <2>4 DEF Closes
    <3> QED BY <2>2, <3>1, LeastName, NoneAssumption DEF NoneAssumption
  <2> QED BY <2>3, <2>4
<1>10. iCurrLogName' # None => iCurrLogName' \in OpenNames'
  <2>1. SUFFICES ASSUME iCurrLogName' # None PROVE iCurrLogName' \in OpenNames'
    OBVIOUS
  <2>2. Left1 = OpenNames' /\ Left1 \in SUBSET Names
    BY <1>4 DEF Left1, OpenNames
  <2>3. iCount # 1 /\ iCurrLogName' = CHOOSE n \in Left1 : \A m \in Left1 : n <= m
    BY <2>1 DEF Closes
  <2>4. Left1 # {}
    <3>1. iCount \in Nat /\ iCount # 0
      BY <1>0, NamesFinite DEF Closes, ViewsInv, CurrentIsOpen, OpenNames
    <3>2. iCount' # 0
      BY <1>3, <2>3, <3>1
    <3> QED BY <1>6, <2>2, <3>2, NamesFinite
  <2> QED BY <2>2, <2>3, <2>4, LeastName
<1>11. CurrentIsOpen'
  BY <1>6, <1>9, <1>10 DEF CurrentIsOpen, Closes, OpenNames, Open
<1>12. AccessCountsExact'
  BY <1>7 DEF AccessCountsExact, On
<1>13. iCurrLogName' \in Names \cup {None}
  BY <1>10 DEF OpenNames
<1> QED BY <1>2, <1>8, <1>11, <1>12, <1>13 DEF ViewsInv

-----------------------------------------------------------------------------
(* The theorems.                                                           *)
LEMMA StartsInv ==
  ASSUME NamesAssumption, NoneAssumption, Init
  PROVE  ViewsInv
<1>1. \A d \in Dbs : {n \in Names : iParentDbase[n] = d} = {}
  BY DEF Init, NoneAssumption
<1>2. {n \in Names : iParentDbase[n] # None} = {}
  BY DEF Init
<1>3. AccessCountsExact
  BY <1>1, FS_EmptySet DEF Init, AccessCountsExact
<1>4. CurrentIsOpen
  BY <1>2, FS_EmptySet DEF Init, CurrentIsOpen, Open
<1> QED BY <1>3, <1>4 DEF Init, ViewsInv

LEMMA StepKeepsInv ==
  ASSUME NamesAssumption, NoneAssumption, ProgramsAssumption,
         prog \in Programs, ViewsInv, [Next]_vars
  PROVE  ViewsInv'
<1>1. CASE UNCHANGED views
  BY <1>1 DEF views, ViewsInv, AccessCountsExact, CurrentIsOpen, Open
<1>2. iOplDb \in [Dbs -> Nat]
  BY DEF ViewsInv
<1> QED BY <1>1, <1>2, StepOfViews, OpensKeeps, SelectsKeeps, ClosesKeeps

LEMMA ProgramKept ==
  ASSUME prog \in Programs, [Next]_vars
  PROVE  prog' \in Programs
BY DEF Next, vars

\* In every program, the invariant of the logical names always holds.
LEMMA ViewsAlways ==
  Spec => [](prog \in Programs /\ ViewsInv)
<1>1. Init => prog \in Programs /\ ViewsInv
  BY StartsInv, NamesAssumption, NoneAssumption DEF Init
<1>2. prog \in Programs /\ ViewsInv /\ [Next]_vars => (prog \in Programs /\ ViewsInv)'
  BY StepKeepsInv, ProgramKept, NamesAssumption, NoneAssumption, ProgramsAssumption
<1> QED BY <1>1, <1>2, PTL DEF Spec

\* The access count of a database is the number of logical names open on
\* it, for every program: through failed opens, closes in any order and
\* several names on one file (LB_DBASE.CPP CreateOrOpenDbaseL,
\* CloseDbIfNotInUseL).
THEOREM DatabaseCounts == Spec => []AccessCountsExact
<1>1. ViewsInv => AccessCountsExact
  BY DEF ViewsInv
<1> QED BY <1>1, ViewsAlways, PTL

\* The cached current row set is that of the current logical name, and
\* CLOSE finds an open one whenever there is any (CloseOplRowSet).
THEOREM CurrentAlwaysOpen == Spec => []CurrentIsOpen
<1>1. ViewsInv => CurrentIsOpen
  BY DEF ViewsInv
<1> QED BY <1>1, ViewsAlways, PTL

(* The files that are open are those some name is open on.                 *)
LEMMA FilesInUse ==
  ASSUME NamesAssumption, NoneAssumption, ViewsInv
  PROVE  {d \in Dbs : iOplDb[d] > 0} = {iParentDbase[n] : n \in Names} \ {None}
<1>1. \A d \in Dbs : iOplDb[d] > 0 <=> \E n \in Names : iParentDbase[n] = d
  <2> SUFFICES ASSUME NEW d \in Dbs
               PROVE  iOplDb[d] > 0 <=> \E n \in Names : iParentDbase[n] = d
    OBVIOUS
  <2>1. On(d) \in SUBSET Names /\ (On(d) = {} <=> ~\E n \in Names : iParentDbase[n] = d)
    BY DEF On
  <2>2. iOplDb[d] = Cardinality(On(d))
    BY DEF ViewsInv, AccessCountsExact, On
  <2>3. Cardinality(On(d)) \in Nat /\ (Cardinality(On(d)) = 0 <=> On(d) = {})
    BY <2>1, NamesFinite
  <2> QED BY <2>1, <2>2, <2>3
<1>2. \A n \in Names : iParentDbase[n] \in Dbs \cup {None}
  BY DEF ViewsInv
<1> QED BY <1>1, <1>2, NoneAssumption DEF NoneAssumption

\* What OplLogicalNames promises of logical names is what the keywords do,
\* for every program.
THEOREM LogicalNamesImplemented == Spec => ImplementsLogicalNames
<1>1. Init => LN!Init
  BY NamesAssumption, NoneAssumption DEF Init, LN!Init
<1>2. ASSUME prog \in Programs, ViewsInv, ViewsInv', [Next]_vars
      PROVE  [LN!Next]_(LN!vars)
  <2> USE NamesAssumption, NoneAssumption, ProgramsAssumption
  <2>1. CASE UNCHANGED views
    BY <2>1 DEF views, LN!vars
  <2>2. ASSUME NEW n \in Names, NEW d \in Dbs, Opens(n, d)
        PROVE  LN!Next
    <3>1. {x \in Dbs : iOplDb[x] > 0}' = {x \in Dbs : iOplDb[x] > 0} \cup {d}
      BY <1>2, <2>2 DEF Opens, ViewsInv
    <3>2. LN!OpenName(n, d)
      BY <2>2, <3>1 DEF LN!OpenName, Opens, Open
    <3> QED BY <3>2 DEF LN!Next
  <2>3. ASSUME NEW n \in Names, Selects(n)
        PROVE  LN!Next
    BY <2>3 DEF LN!Next, LN!UseName, Selects, Open
  <2>4. CASE Closes
    <3>1. iCurrLogName \in Names /\ Open(iCurrLogName)
      BY <1>2, <2>4, ClosesKeeps
    <3>2. iCurrLogName # None
      BY <3>1 DEF NoneAssumption
    <3>3. iParentDbase' = [iParentDbase EXCEPT ![iCurrLogName] = None]
      BY <2>4 DEF Closes
    <3>4. ({d \in Dbs : iOplDb[d] > 0})' = ({iParentDbase[n] : n \in Names} \ {None})'
      <4>1. (NamesAssumption /\ NoneAssumption /\ ViewsInv =>
               {d \in Dbs : iOplDb[d] > 0} = {iParentDbase[n] : n \in Names} \ {None})'
        BY FilesInUse, PTL
      <4> QED BY <1>2, <4>1
    <3>5. \/ iCurrLogName' \in Names /\ iParentDbase'[iCurrLogName'] # None
          \/ iCurrLogName' = None /\ \A n \in Names : iParentDbase'[n] = None
      BY <1>2 DEF ViewsInv, CurrentIsOpen, Open
    <3>6. LN!CloseName
      BY <3>2, <3>3, <3>4, <3>5 DEF LN!CloseName, LN!InUse
    <3> QED BY <3>6 DEF LN!Next
  <2>5. iOplDb \in [Dbs -> Nat]
    BY <1>2 DEF ViewsInv
  <2> QED BY <1>2, <2>1, <2>2, <2>3, <2>4, <2>5, StepOfViews
<1> QED BY <1>1, <1>2, ViewsAlways, PTL DEF Spec, ImplementsLogicalNames, LN!Spec

-----------------------------------------------------------------------------
(* Cursors: where they go, and the number of the record they stand at.     *)
Under(R, c) == {x \in R : x < c}
Upto(R, c) == {x \in R : x <= c}

\* Some naturals have a least one.
LEMMA LeastOf ==
  ASSUME NEW S \in SUBSET Nat, S # {}
  PROVE  \E n \in S : \A m \in S : n <= m
<1>1. PICK n \in S : \A m \in S : ~(<<m, n>> \in OpToRel(<, Nat))
  BY NatLessThanWellFounded, WFMin
<1>2. \A m \in S : ~(m < n)
  BY <1>1, Zenon DEF OpToRel
<1>3. \A m \in S : n <= m
  BY <1>2
<1> QED BY <1>3

\* Records are numbers between the two ends of the table.
LEMMA RowsFact ==
  ASSUME NEW R \in SUBSET (1 .. MaxRow)
  PROVE  /\ MaxRow \in Nat /\ End \in Nat /\ End = MaxRow + 1 /\ Begin = 0
         /\ \A x \in R : x \in Nat /\ Begin < x /\ x < End
         /\ \A S \in SUBSET R : /\ IsFiniteSet(S) /\ Cardinality(S) \in Nat
                                /\ Cardinality(S) <= Cardinality(R) /\ (Cardinality(S) = 0 <=> S = {})
<1>1. MaxRow \in Nat
  BY BoundsAssumption DEF BoundsAssumption
<1>2. IsFiniteSet(R)
  <2>1. IsFiniteSet(1 .. MaxRow)
    <3>1. 1 \in Int /\ MaxRow \in Int
      BY <1>1
    <3> QED BY <3>1, FS_Interval
  <2> QED BY <2>1, FS_Subset
<1>3. \A S \in SUBSET R : /\ IsFiniteSet(S) /\ Cardinality(S) \in Nat
                          /\ Cardinality(S) <= Cardinality(R) /\ (Cardinality(S) = 0 <=> S = {})
  BY <1>2, FS_Subset, FS_CardinalityType, FS_EmptySet
<1>4. End \in Nat /\ End = MaxRow + 1 /\ Begin = 0
  BY <1>1 DEF End, Begin
<1>5. \A x \in R : x \in Nat /\ Begin < x /\ x < End
  BY <1>1, <1>4
<1> QED BY <1>1, <1>3, <1>4, <1>5

\* Where RDbRowSet::NextL goes: the first record after the cursor, or End.
LEMMA NextCursor ==
  ASSUME NEW R \in SUBSET (1 .. MaxRow), NEW c \in Int
  PROVE  /\ NextOf(R, c) \in R \cup {End}
         /\ \A x \in R : x > c <=> x >= NextOf(R, c)
<1> DEFINE later == {x \in R : x > c}
           e == CHOOSE x \in later : \A y \in later : x <= y
<1>0. NextOf(R, c) = IF later = {} THEN End ELSE e
  BY DEF NextOf
<1>1. CASE later = {}
  <2>1. NextOf(R, c) = End /\ \A x \in R : ~(x > c)
    BY <1>0, <1>1
  <2>2. \A x \in R : ~(x >= End)
    BY RowsFact
  <2> QED BY <2>1, <2>2
<1>2. CASE later # {}
  <2>1. later \in SUBSET Nat
    BY RowsFact
  <2>2. e \in later /\ \A y \in later : e <= y
    <3> HIDE DEF later
    <3>1. \E x \in later : \A y \in later : x <= y
      BY <1>2, <2>1, LeastOf
    <3> QED BY <3>1
  <2>3. NextOf(R, c) = e
    BY <1>0, <1>2
  <2> HIDE DEF e
  <2>4. e \in R /\ e > c /\ e \in Nat
    BY <2>1, <2>2
  <2>5. ASSUME NEW x \in R PROVE x > c <=> x >= e
    <3>1. x \in Nat
      BY RowsFact
    <3>2. x > c => x >= e
      BY <2>2, <2>4, <3>1
    <3>3. x >= e => x > c
      BY <2>4, <3>1
    <3> QED BY <3>2, <3>3
  <2> QED BY <2>3, <2>4, <2>5
<1> QED BY <1>1, <1>2

\* Where PreviousL goes: the last record before the cursor, or Begin.
LEMMA PrevCursor ==
  ASSUME NEW R \in SUBSET (1 .. MaxRow), NEW c \in Int
  PROVE  /\ PrevOf(R, c) \in R \cup {Begin}
         /\ \A x \in R : x < c <=> x <= PrevOf(R, c)
<1> DEFINE earlier == {x \in R : x < c}
           e == CHOOSE x \in earlier : \A y \in earlier : x >= y
<1>0. PrevOf(R, c) = IF earlier = {} THEN Begin ELSE e
  BY DEF PrevOf
<1>1. CASE earlier = {}
  <2>1. PrevOf(R, c) = Begin /\ \A x \in R : ~(x < c)
    BY <1>0, <1>1
  <2>2. \A x \in R : ~(x <= Begin)
    BY RowsFact
  <2> QED BY <2>1, <2>2
<1>2. CASE earlier # {}
  <2>1. earlier \in SUBSET Nat /\ \A x \in earlier : x \in Nat /\ x < End
    BY RowsFact
  <2>2. e \in earlier /\ \A y \in earlier : e >= y
    <3> DEFINE gaps == {End - x : x \in earlier}
    <3>0. End \in Nat
      BY RowsFact
    <3>1. gaps \in SUBSET Nat /\ gaps # {}
      BY <1>2, <2>1, <3>0
    <3>2. PICK g \in gaps : \A h \in gaps : g <= h
      <4> HIDE DEF gaps
      <4> QED BY <3>1, LeastOf
    <3> HIDE DEF earlier
    <3>3. PICK x \in earlier : g = End - x
      BY <3>2
    <3>4. \A y \in earlier : End - x <= End - y
      BY <3>2, <3>3
    <3>5. \A y \in earlier : x >= y
      BY <2>1, <3>0, <3>4
    <3> QED BY <3>5
  <2>3. PrevOf(R, c) = e
    BY <1>0, <1>2
  <2> HIDE DEF e
  <2>4. e \in R /\ e < c /\ e \in Nat
    BY <2>1, <2>2
  <2>5. ASSUME NEW x \in R PROVE x < c <=> x <= e
    <3>1. x \in Nat
      BY RowsFact
    <3>2. x < c => x <= e
      BY <2>2, <2>4, <3>1
    <3>3. x <= e => x < c
      BY <2>4, <3>1
    <3> QED BY <3>2, <3>3
  <2> QED BY <2>3, <2>4, <2>5
<1> QED BY <1>1, <1>2

\* The record number after a cursor, and before it.
LEMMA UptoIndex ==
  ASSUME NEW R \in SUBSET (1 .. MaxRow), NEW c \in Int
  PROVE  /\ Index(R, c) = Cardinality(Under(R, c)) + 1
         /\ Index(R, c) \in Nat \ {0} /\ Index(R, c) <= Cardinality(R) + 1
         /\ Cardinality(Upto(R, c)) \in Nat /\ Cardinality(Upto(R, c)) <= Cardinality(R)
         /\ c \in R => Cardinality(Upto(R, c)) = Index(R, c)
         /\ c \notin R => Cardinality(Upto(R, c)) = Index(R, c) - 1
<1>1. Index(R, c) = Cardinality(Under(R, c)) + 1
  BY DEF Index, Under
<1>2. Under(R, c) \in SUBSET R /\ Upto(R, c) \in SUBSET R /\ R \in SUBSET R
  BY DEF Under, Upto
<1>3. /\ Cardinality(Under(R, c)) \in Nat /\ Cardinality(Under(R, c)) <= Cardinality(R)
      /\ Cardinality(Upto(R, c)) \in Nat /\ Cardinality(Upto(R, c)) <= Cardinality(R)
      /\ IsFiniteSet(Under(R, c)) /\ Cardinality(R) \in Nat
  BY <1>2, RowsFact
<1>4. \A x \in R : x \in Nat /\ (x <= c <=> x < c \/ x = c)
  BY RowsFact
<1>5. c \in R => Upto(R, c) = Under(R, c) \cup {c} /\ c \notin Under(R, c)
  <2> SUFFICES ASSUME c \in R PROVE Upto(R, c) = Under(R, c) \cup {c} /\ c \notin Under(R, c)
    OBVIOUS
  <2>1. c <= c /\ ~(c < c)
    OBVIOUS
  <2>2. \A x : x \in Upto(R, c) <=> x \in Under(R, c) \cup {c}
    BY <1>4, <2>1 DEF Upto, Under
  <2> QED BY <2>1, <2>2 DEF Under
<1>6. c \notin R => Upto(R, c) = Under(R, c)
  BY <1>4 DEF Upto, Under
<1>7. c \in R => Cardinality(Upto(R, c)) = Cardinality(Under(R, c)) + 1
  BY <1>3, <1>5, FS_AddElement
<1> QED BY <1>1, <1>3, <1>6, <1>7

\* The next record is one more than the records up to the cursor.
LEMMA NextIndex ==
  ASSUME NEW R \in SUBSET (1 .. MaxRow), NEW c \in Int
  PROVE  Index(R, NextOf(R, c)) = Cardinality(Upto(R, c)) + 1
<1> PICK e : e = NextOf(R, c)
  OBVIOUS
<1>1. e \in Nat /\ \A x \in R : x \in Nat /\ (x > c <=> x >= e)
  BY NextCursor, RowsFact
<1>2. Under(R, e) = Upto(R, c)
  <2>1. \A x \in R : x < e <=> x <= c
    BY <1>1
  <2> QED BY <2>1 DEF Under, Upto
<1>3. Index(R, e) = Cardinality(Under(R, e)) + 1
  BY <1>1, UptoIndex
<1> QED BY <1>2, <1>3

\* The record before is one less, and Begin comes before the first.
LEMMA PrevIndex ==
  ASSUME NEW R \in SUBSET (1 .. MaxRow), NEW c \in Int
  PROVE  /\ PrevOf(R, c) \in R => Index(R, PrevOf(R, c)) = Index(R, c) - 1
         /\ PrevOf(R, c) = Begin <=> Index(R, c) = 1
<1> PICK e : e = PrevOf(R, c)
  OBVIOUS
<1>1. e \in Nat /\ e \in R \cup {Begin} /\ \A x \in R : x \in Nat /\ (x < c <=> x <= e)
  BY PrevCursor, RowsFact, ZenonT(40)
<1>2. Upto(R, e) = Under(R, c)
  BY <1>1 DEF Under, Upto
<1>3. Begin \notin R
  BY RowsFact
<1>4. e \in R => Index(R, e) = Index(R, c) - 1
  BY <1>1, <1>2, UptoIndex
<1>5. Upto(R, e) \in SUBSET R /\ Under(R, c) \in SUBSET R
  BY DEF Upto, Under
<1>6. Index(R, c) = 1 <=> Under(R, c) = {}
  <2>1. Cardinality(Under(R, c)) \in Nat /\ (Cardinality(Under(R, c)) = 0 <=> Under(R, c) = {})
    BY <1>5, RowsFact
  <2>2. Index(R, c) = Cardinality(Under(R, c)) + 1
    BY UptoIndex
  <2> QED BY <2>1, <2>2
<1>7. e = Begin <=> Upto(R, e) = {}
  <2>1. e \in R => e \in Upto(R, e)
    BY <1>1 DEF Upto
  <2>2. e = Begin => Upto(R, e) = {}
    <3>1. \A x \in R : ~(x <= Begin)
      BY RowsFact
    <3> QED BY <3>1 DEF Upto
  <2> QED BY <1>1, <1>3, <2>1, <2>2
<1> QED BY <1>2, <1>4, <1>6, <1>7

\* The cursor at record i, which is unique; End is one after the last.
Row(R, i) == CHOOSE a \in R \cup {End} : Index(R, a) = i

\* End is one after the last record.
LEMMA EndIndex ==
  ASSUME NEW R \in SUBSET (1 .. MaxRow)
  PROVE  Index(R, End) = Cardinality(R) + 1
<1>1. End \in Int /\ \A x \in R : x < End
  <2>1. End \in Nat /\ \A x \in R : x < End
    BY RowsFact
  <2> QED BY <2>1
<1>2. Under(R, End) = R
  BY <1>1 DEF Under
<1> QED BY <1>1, <1>2, UptoIndex

\* A later record has a greater number.
LEMMA OneIndex ==
  ASSUME NEW R \in SUBSET (1 .. MaxRow), NEW a \in R \cup {End}, NEW b \in R \cup {End}, a < b
  PROVE  Index(R, a) < Index(R, b)
<1>1. a \in Nat /\ b \in Nat /\ a \in R /\ \A x \in R : x \in Nat /\ x < End
  BY RowsFact
<1>2. Upto(R, a) \subseteq Under(R, b) /\ Under(R, b) \in SUBSET R
  <2>1. \A x \in R : x <= a => x < b
    BY <1>1
  <2> QED BY <2>1 DEF Upto, Under
<1>3. IsFiniteSet(Under(R, b)) /\ Cardinality(Under(R, b)) \in Nat
  BY <1>2, RowsFact
<1>4. Cardinality(Upto(R, a)) <= Cardinality(Under(R, b))
  BY <1>2, <1>3, FS_Subset
<1>5. Cardinality(Upto(R, a)) = Index(R, a) /\ Index(R, b) = Cardinality(Under(R, b)) + 1 /\ Index(R, a) \in Nat
  BY <1>1, UptoIndex
<1> QED BY <1>3, <1>4, <1>5

\* There is one record of each number.
LEMMA RowIndex ==
  ASSUME NEW R \in SUBSET (1 .. MaxRow), NEW i \in 1 .. (Cardinality(R) + 1)
  PROVE  /\ Row(R, i) \in R \cup {End} /\ Index(R, Row(R, i)) = i
         /\ \A a \in R \cup {End} : Index(R, a) = i => a = Row(R, i)
<1> PICK n : n = Cardinality(R)
  OBVIOUS
<1>0. n \in Nat
  <2>1. R \in SUBSET R
    OBVIOUS
  <2> QED BY <2>1, RowsFact
<1> DEFINE Missing == {k \in Nat : k <= n /\ ~\E a \in R \cup {End} : Index(R, a) = n + 1 - k}
<1>1. Missing = {}
  <2> SUFFICES ASSUME Missing # {} PROVE FALSE
    OBVIOUS
  <2>1. PICK k \in Missing : \A j \in Missing : k <= j
    <3>1. Missing \in SUBSET Nat
      OBVIOUS
    <3> HIDE DEF Missing
    <3> QED BY <3>1, LeastOf
  <2>2. k \in Nat /\ k <= n /\ ~\E a \in R \cup {End} : Index(R, a) = n + 1 - k
    BY <2>1
  <2>3. k # 0
    <3>1. Index(R, End) = n + 1 /\ End \in R \cup {End}
      BY EndIndex
    <3>2. n + 1 - 0 = n + 1
      BY <1>0
    <3> QED BY <2>2, <3>1, <3>2
  <2>4. PICK j \in Nat : j = k - 1
    BY <2>2, <2>3
  <2>5. j <= n /\ j \notin Missing
    BY <1>0, <2>1, <2>2, <2>4
  <2>6. PICK a \in R \cup {End} : Index(R, a) = n + 1 - j
    BY <2>5
  <2>7. a \in Int /\ Index(R, a) # 1
    BY <1>0, <2>2, <2>4, <2>6, RowsFact
  <2>8. PrevOf(R, a) \in R /\ Index(R, PrevOf(R, a)) = Index(R, a) - 1
    BY <2>7, PrevCursor, PrevIndex
  <2>9. n + 1 - k = Index(R, a) - 1
    BY <1>0, <2>2, <2>4, <2>6
  <2> QED BY <2>2, <2>8, <2>9
<1>2. \E a \in R \cup {End} : Index(R, a) = i
  <2>1. PICK k \in Nat : k = n + 1 - i
    BY <1>0
  <2>2. k <= n /\ i = n + 1 - k
    BY <1>0, <2>1
  <2> QED BY <1>1, <2>1, <2>2
<1>3. Row(R, i) \in R \cup {End} /\ Index(R, Row(R, i)) = i
  BY <1>2 DEF Row
<1>4. ASSUME NEW a \in R \cup {End}, Index(R, a) = i PROVE a = Row(R, i)
  <2>1. a \in Nat /\ Row(R, i) \in Nat
    BY <1>3, RowsFact
  <2>2. ~(i < i)
    OBVIOUS
  <2>3. ~(a < Row(R, i))
    BY <1>3, <1>4, <2>2, OneIndex
  <2>4. ~(Row(R, i) < a)
    BY <1>3, <1>4, <2>2, OneIndex
  <2> QED BY <2>1, <2>3, <2>4
<1> QED BY <1>3, <1>4

\* a[m] is where m steps from c lead.
Walk(a, R, c, forward) ==
  /\ a = [m \in Nat |-> a[m]] /\ a[0] = c
  /\ \A m \in Nat : m # 0 =>
       a[m] = IF forward THEN NextOf(R, a[m - 1]) ELSE PrevOf(R, a[m - 1])

\* The recursive definition in Steps computes the only walk there is.
LEMMA OneWalk ==
  ASSUME NEW R, NEW c, NEW forward, NEW a, Walk(a, R, c, forward), NEW k \in Nat, k # 0
  PROVE  Steps(R, c, k, forward) = a[k]
<1>0. /\ a = [m \in Nat |-> a[m]] /\ a[0] = c
      /\ \A m \in Nat : m # 0 =>
           a[m] = IF forward THEN NextOf(R, a[m - 1]) ELSE PrevOf(R, a[m - 1])
  BY Zenon DEF Walk
<1> DEFINE F(w) == [m \in Nat |-> IF m = 0 THEN c
                                  ELSE IF forward THEN NextOf(R, w[m - 1]) ELSE PrevOf(R, w[m - 1])]
           walk == CHOOSE w : w = F(w)
<1>1. Steps(R, c, k, forward) = IF k <= 0 THEN c ELSE walk[k]
  BY Zenon DEF Steps
<1>2. a = F(a)
  <2>1. \A m \in Nat : a[m] = F(a)[m]
    BY <1>0
  <2> QED BY <1>0, <2>1
<1>3. walk = F(walk)
  <2> HIDE DEF F
  <2> QED BY <1>2
<1> HIDE DEF walk
<1> DEFINE T == {m \in Nat : walk[m] # a[m]}
<1>4. T = {}
  <2> SUFFICES ASSUME T # {} PROVE FALSE
    OBVIOUS
  <2>1. PICK m \in T : \A j \in T : m <= j
    <3>1. T \in SUBSET Nat
      OBVIOUS
    <3> HIDE DEF T
    <3> QED BY <3>1, LeastOf
  <2>2. m \in Nat /\ m # 0 /\ walk[m] # a[m]
    BY <1>2, <1>3, <2>1
  <2>3. PICK j \in Nat : j = m - 1
    BY <2>2
  <2>4. walk[j] = a[j]
    <3>1. ~(m <= j)
      BY <2>2, <2>3
    <3>2. j \notin T
      BY <2>1, <3>1
    <3> QED BY <3>2
  <2>5. walk[m] = IF forward THEN NextOf(R, walk[j]) ELSE PrevOf(R, walk[j])
    BY <1>3, <2>2, <2>3
  <2>6. a[m] = IF forward THEN NextOf(R, a[j]) ELSE PrevOf(R, a[j])
    BY <1>0, <2>2, <2>3
  <2> QED BY <2>2, <2>4, <2>5, <2>6
<1>5. walk[k] = a[k] /\ ~(k <= 0)
  BY <1>4
<1> QED BY <1>1, <1>5

\* A walk of k steps goes k records on, as far as there are any.
LEMMA StepsForward ==
  ASSUME NEW R \in SUBSET (1 .. MaxRow), NEW c \in Int, NEW k \in Nat, k # 0
  PROVE  Steps(R, c, k, TRUE)
           = Row(R, IF Cardinality(Upto(R, c)) + k <= Cardinality(R)
                    THEN Cardinality(Upto(R, c)) + k ELSE Cardinality(R) + 1)
<1> PICK n : n = Cardinality(R)
  OBVIOUS
<1> PICK u : u = Cardinality(Upto(R, c))
  OBVIOUS
<1>1. n \in Nat /\ u \in Nat /\ u <= n
  <2>1. R \in SUBSET R
    OBVIOUS
  <2>2. n \in Nat
    BY <2>1, RowsFact
  <2> QED BY <2>2, UptoIndex
<1> DEFINE i(m) == IF u + m <= n THEN u + m ELSE n + 1
           a == [m \in Nat |-> IF m = 0 THEN c ELSE Row(R, i(m))]
<1>2. ASSUME NEW x \in Int, NEW m \in Nat, m # 0,
             IF Cardinality(Upto(R, x)) + 1 <= n THEN Cardinality(Upto(R, x)) + 1 = i(m)
                                                ELSE n + 1 = i(m)
      PROVE  Row(R, i(m)) = NextOf(R, x)
  <2>1. PICK v : v = Cardinality(Upto(R, x))
    OBVIOUS
  <2>2. v \in Nat /\ v <= n
    BY <2>1, UptoIndex
  <2>3. v + 1 = i(m) /\ i(m) \in 1 .. (n + 1)
    BY <1>1, <1>2, <2>1, <2>2
  <2>4. NextOf(R, x) \in R \cup {End} /\ Index(R, NextOf(R, x)) = v + 1
    BY <2>1, NextCursor, NextIndex
  <2>5. PICK r : r = i(m)
    OBVIOUS
  <2>6. PICK p : p = NextOf(R, x)
    OBVIOUS
  <2> HIDE DEF i
  <2>7. p \in R \cup {End} /\ Index(R, p) = r /\ r \in 1 .. (Cardinality(R) + 1)
    BY <2>3, <2>4, <2>5, <2>6
  <2>8. p = Row(R, r)
    BY <2>7, RowIndex
  <2> QED BY <2>5, <2>6, <2>8
<1>3. ASSUME NEW m \in Nat, m # 0
      PROVE  a[m] = NextOf(R, a[m - 1])
  <2>1. PICK j \in Nat : j = m - 1
    BY <1>3
  <2>2. a[m] = Row(R, i(m))
    BY <1>3
  <2>3. CASE j = 0
    <3>1. a[j] = c /\ m = 1
      BY <2>1, <2>3
    <3>2. IF u + 1 <= n THEN u + 1 = i(m) ELSE n + 1 = i(m)
      BY <1>1, <3>1
    <3> HIDE DEF i, a
    <3> QED BY <1>2, <1>3, <2>1, <2>2, <3>1, <3>2
  <2>4. CASE j # 0
    <3>1. PICK y : y = Row(R, i(j))
      OBVIOUS
    <3>2. a[j] = y
      BY <2>4, <3>1
    <3>3. i(j) \in 1 .. (n + 1)
      BY <1>1, <2>4
    <3>4. y \in R \cup {End} /\ Index(R, y) = i(j) /\ End \notin R /\ End \in Nat
      <4> HIDE DEF i
      <4> QED BY <3>1, <3>3, RowIndex, RowsFact
    <3>5. y \in Int /\ Index(R, End) = n + 1
      BY <3>4, EndIndex, RowsFact
    <3>6. i(j) = n + 1 => y = End
      <4>1. n + 1 \in 1 .. (n + 1)
        BY <1>1
      <4> HIDE DEF i
      <4> QED BY <3>4, <3>5, <4>1, RowIndex
    <3>7. Cardinality(Upto(R, y)) = IF i(j) = n + 1 THEN n ELSE i(j)
      <4>1. CASE i(j) = n + 1
        <5>1. Cardinality(Upto(R, End)) = Index(R, End) - 1
          BY <3>4, UptoIndex
        <5>2. (n + 1) - 1 = n
          BY <1>1
        <5> HIDE DEF i
        <5> QED BY <3>5, <3>6, <4>1, <5>1, <5>2
      <4>2. CASE i(j) # n + 1
        <5>1. y \in R
          <6> HIDE DEF i
          <6> QED BY <3>4, <3>5, <4>2
        <5>2. Cardinality(Upto(R, y)) = Index(R, y)
          BY <3>5, <5>1, UptoIndex
        <5> HIDE DEF i
        <5> QED BY <3>4, <4>2, <5>2
      <4> QED BY <4>1, <4>2
    <3>8. PICK v : v = Cardinality(Upto(R, y))
      OBVIOUS
    <3>9. IF v + 1 <= n THEN v + 1 = i(m) ELSE n + 1 = i(m)
      BY <1>1, <2>1, <2>4, <3>7, <3>8
    <3> HIDE DEF i, a
    <3> QED BY <1>2, <1>3, <2>1, <2>2, <3>2, <3>5, <3>8, <3>9
  <2> QED BY <2>3, <2>4
<1>4. a = [m \in Nat |-> a[m]] /\ a[0] = c /\ a[k] = Row(R, i(k))
  OBVIOUS
<1>5. Steps(R, c, k, TRUE) = a[k]
  <2> HIDE DEF a
  <2>1. Walk(a, R, c, TRUE)
    BY <1>3, <1>4 DEF Walk
  <2> QED BY <2>1, OneWalk, ZenonT(40)
<1> QED BY <1>4, <1>5

\* k steps back are k records back, or Begin.
LEMMA StepsBack ==
  ASSUME NEW R \in SUBSET (1 .. MaxRow), NEW c \in Int, NEW k \in Nat, k # 0
  PROVE  Steps(R, c, k, FALSE) = IF k < Index(R, c) THEN Row(R, Index(R, c) - k) ELSE Begin
<1> PICK n : n = Cardinality(R)
  OBVIOUS
<1> PICK i : i = Index(R, c)
  OBVIOUS
<1>1. n \in Nat /\ i \in Nat /\ 0 < i /\ i <= n + 1
  <2>1. R \in SUBSET R
    OBVIOUS
  <2>2. n \in Nat
    BY <2>1, RowsFact
  <2> QED BY <2>2, UptoIndex
<1> DEFINE a == [m \in Nat |-> IF m = 0 THEN c ELSE IF m < i THEN Row(R, i - m) ELSE Begin]
<1>2. ASSUME NEW x \in Int, Index(R, x) = 1
      PROVE  PrevOf(R, x) = Begin
  BY <1>2, PrevIndex
<1>3. ASSUME NEW x \in Int, NEW r \in 1 .. n, Index(R, x) = r + 1
      PROVE  PrevOf(R, x) = Row(R, r)
  <2>1. PrevOf(R, x) # Begin
    <3>1. r + 1 # 1
      OBVIOUS
    <3> QED BY <1>3, <3>1, PrevIndex
  <2>2. PrevOf(R, x) \in R /\ Index(R, PrevOf(R, x)) = Index(R, x) - 1
    BY <2>1, PrevCursor, PrevIndex
  <2>3. (r + 1) - 1 = r /\ r \in 1 .. (n + 1)
    BY <1>1
  <2>4. PICK p : p = PrevOf(R, x)
    OBVIOUS
  <2>5. p \in R \cup {End} /\ Index(R, p) = r /\ r \in 1 .. (Cardinality(R) + 1)
    BY <1>3, <2>2, <2>3, <2>4
  <2>6. p = Row(R, r)
    BY <2>5, RowIndex
  <2> QED BY <2>4, <2>6
<1>4. ASSUME NEW m \in Nat, m # 0
      PROVE  a[m] = PrevOf(R, a[m - 1])
  <2>1. PICK j \in Nat : j = m - 1
    BY <1>4
  <2>2. a[m] = IF m < i THEN Row(R, i - m) ELSE Begin
    BY <1>4
  <2>3. ASSUME NEW x \in Int, j < i, Index(R, x) = i - j
        PROVE  a[m] = PrevOf(R, x)
    <3>1. CASE m < i
      <4>1. PICK r : r = i - m
        OBVIOUS
      <4>2. r \in 1 .. n /\ i - j = r + 1
        BY <1>1, <2>1, <3>1, <4>1
      <4> HIDE DEF a
      <4> QED BY <1>3, <2>2, <2>3, <3>1, <4>1, <4>2
    <3>2. CASE ~(m < i)
      <4>1. i - j = 1
        BY <1>1, <2>1, <2>3, <3>2
      <4> HIDE DEF a
      <4> QED BY <1>2, <2>2, <2>3, <3>2, <4>1
    <3> QED BY <3>1, <3>2
  <2>4. CASE j = 0
    <3>1. a[j] = c /\ j < i /\ i - j = i
      BY <1>1, <2>4
    <3> HIDE DEF a
    <3> QED BY <2>1, <2>3, <3>1
  <2>5. CASE j # 0 /\ j < i
    <3>1. PICK y : y = Row(R, i - j)
      OBVIOUS
    <3>2. a[j] = y /\ i - j \in 1 .. (n + 1)
      BY <1>1, <2>5, <3>1
    <3>3. y \in R \cup {End} /\ Index(R, y) = i - j
      BY <3>1, <3>2, RowIndex
    <3>4. y \in Int
      <4>1. End \in Nat /\ \A x \in R : x \in Nat
        BY RowsFact
      <4> QED BY <3>3, <4>1
    <3> HIDE DEF a
    <3> QED BY <2>1, <2>3, <2>5, <3>2, <3>3, <3>4
  <2>6. CASE ~(j < i)
    <3>1. a[j] = Begin /\ a[m] = Begin
      BY <1>1, <2>1, <2>2, <2>6
    <3>2. PrevOf(R, Begin) = Begin
      <4>1. \A x \in R : ~(x < Begin)
        BY RowsFact
      <4> QED BY <4>1 DEF PrevOf
    <3> HIDE DEF a
    <3> QED BY <2>1, <3>1, <3>2
  <2> QED BY <2>4, <2>5, <2>6
<1>5. a = [m \in Nat |-> a[m]] /\ a[0] = c /\ a[k] = IF k < i THEN Row(R, i - k) ELSE Begin
  OBVIOUS
<1>6. Steps(R, c, k, FALSE) = a[k]
  <2> HIDE DEF a
  <2>1. Walk(a, R, c, FALSE)
    BY <1>4, <1>5 DEF Walk
  <2> QED BY <2>1, OneWalk, ZenonT(40)
<1> QED BY <1>5, <1>6

-----------------------------------------------------------------------------
(* Types.                                                                  *)

\* No record has a number that has not been given out.
Numbered ==
  \A d \in Dbs : \A x \in rows[d] \cup saved[d] : x <= lastRow[d]

\* A database in a transaction of the program's is open.
OpenInTrans ==
  \A d \in Dbs : trans[d] => iOplDb[d] > 0

Inv == TypeOK /\ ViewsInv /\ Numbered /\ OpenInTrans

\* L has a row set for the names that have one.
Viewing(L) ==
  /\ L \in [Names -> RowSets \cup {None}]
  /\ \A n \in Names : L[n] = None <=> iLogNames[n] = None

\* What a keyword that needs an open logical name finds.
LEMMA CurrentFact ==
  ASSUME Inv, OpenCheckL
  PROVE  /\ iCurrOplRowSet \in Names /\ iCurrOplRowSet = iCurrLogName /\ Open(iCurrOplRowSet)
         /\ cr \in RowSets /\ cr = iLogNames[iCurrOplRowSet] /\ cr # None
         /\ cdb \in Dbs /\ cR = rows[cdb] /\ cR \in SUBSET (1 .. MaxRow) /\ Count \in Nat
         /\ Viewing(iLogNames)
<1>1. OpenNames \in SUBSET Names /\ iCount = Cardinality(OpenNames) /\ iCount # 0
  BY DEF Inv, ViewsInv, CurrentIsOpen, OpenNames, OpenCheckL
<1>2. OpenNames # {}
  BY <1>1, NamesFinite, NamesAssumption
<1>3. iCurrLogName # None
  BY <1>2 DEF Inv, ViewsInv, CurrentIsOpen, OpenNames
<1>4. iCurrOplRowSet = iCurrLogName /\ iCurrLogName \in Names /\ Open(iCurrLogName)
  BY <1>3 DEF Inv, ViewsInv, CurrentIsOpen
<1>5. /\ iLogNames \in [Names -> RowSets \cup {None}] /\ iParentDbase \in [Names -> Dbs \cup {None}]
      /\ \A n \in Names : iLogNames[n] = None <=> iParentDbase[n] = None
      /\ rows \in [Dbs -> SUBSET (1 .. MaxRow)]
  BY DEF Inv, TypeOK
<1>6. cdb \in Dbs /\ iLogNames[iCurrOplRowSet] \in RowSets
  BY <1>4, <1>5 DEF Open, cdb
<1>7. cR \in SUBSET (1 .. MaxRow)
  BY <1>5, <1>6 DEF cR
<1>8. Count \in Nat
  <2>1. cR \in SUBSET cR
    OBVIOUS
  <2> QED BY <1>7, <2>1, RowsFact DEF Count
<1> QED BY <1>4, <1>5, <1>6, <1>7, <1>8, NullAssumption DEF cr, cR, Viewing, NullAssumption

\* Nor does such an OPEN or CREATE touch a record or a transaction: if it
\* closes the file again nobody was using it.
LEMMA FailedOpen ==
  ASSUME Inv, NEW kw, NEW d \in Dbs, FailsCounted(kw, d)
  PROVE  /\ UNCHANGED <<rows, lastRow, trans, saved, names, iBookmarkArray, lhs>>
         /\ Left(kw, iCurrOplRowSet)
<1>1. /\ iOplDb \in [Dbs -> Nat] /\ trans \in [Dbs -> BOOLEAN]
      /\ rows \in [Dbs -> SUBSET (1 .. MaxRow)]
  BY DEF Inv, TypeOK
<1>2. UNCHANGED <<lastRow, saved>>
      /\ \/ UNCHANGED <<rows, trans>>
         \/ /\ Counted(d)[d] = 1
            /\ trans' = [trans EXCEPT ![d] = FALSE]
            /\ rows' = [rows EXCEPT ![d] = IF trans[d] THEN saved[d] ELSE @]
  BY DEF FailsCounted, CloseDbIfNotInUse
<1>3. CASE Counted(d)[d] = 1
  <2>1. iOplDb[d] = 0
    BY <1>1, <1>3 DEF Counted
  <2>2. trans[d] = FALSE
    BY <1>1, <2>1 DEF Inv, OpenInTrans
  <2>3. [trans EXCEPT ![d] = FALSE] = trans
    BY <1>1, <2>2
  <2>4. [rows EXCEPT ![d] = IF trans[d] THEN saved[d] ELSE @] = rows
    BY <1>1, <2>2
  <2> QED BY <1>1, <1>2, <2>3, <2>4, FailedOpenKeepsNames
<1>4. CASE Counted(d)[d] # 1
  BY <1>1, <1>2, <1>4, FailedOpenKeepsNames
<1> QED BY <1>3, <1>4

\* Where cursors can be.
LEMMA CursorFact ==
  /\ MaxRow \in Nat \ {0} /\ End \in Cursors /\ Begin \in Cursors /\ Begin = 0 /\ End = MaxRow + 1
  /\ \A c \in Cursors : c \in Int
  /\ \A R \in SUBSET (1 .. MaxRow) : \A x \in R : x \in Cursors
BY BoundsAssumption DEF BoundsAssumption, Begin, End, Cursors

LEMMA NextTyped ==
  ASSUME NEW R \in SUBSET (1 .. MaxRow), NEW c \in Int
  PROVE  NextOf(R, c) \in Cursors /\ PrevOf(R, c) \in Cursors
BY NextCursor, PrevCursor, CursorFact

LEMMA StepsTyped ==
  ASSUME NEW R \in SUBSET (1 .. MaxRow), NEW c \in Cursors, NEW k \in Int, NEW forward \in BOOLEAN
  PROVE  Steps(R, c, k, forward) \in Cursors
<1> PICK n : n = Cardinality(R)
  OBVIOUS
<1>0. c \in Int /\ R \in SUBSET R
  BY CursorFact
<1>1. n \in Nat
  BY <1>0, RowsFact
<1>2. \A i \in 1 .. (n + 1) : Row(R, i) \in Cursors
  BY RowIndex, CursorFact
<1>3. CASE k <= 0
  BY <1>3 DEF Steps
<1>4. CASE k > 0 /\ forward
  <2>0. PICK u : u = Cardinality(Upto(R, c))
    OBVIOUS
  <2>1. u \in Nat /\ u <= n
    BY <1>0, <2>0, UptoIndex
  <2>2. (IF u + k <= n THEN u + k ELSE n + 1) \in 1 .. (n + 1)
    BY <1>1, <1>4, <2>1
  <2>3. Steps(R, c, k, TRUE) = Row(R, IF u + k <= n THEN u + k ELSE n + 1)
    <3>1. k \in Nat /\ k # 0
      BY <1>4
    <3> QED BY <1>0, <2>0, <3>1, StepsForward
  <2> QED BY <1>2, <1>4, <2>2, <2>3
<1>5. CASE k > 0 /\ ~forward
  <2>0. PICK i : i = Index(R, c)
    OBVIOUS
  <2>1. i \in Nat /\ i <= n + 1
    BY <1>0, <2>0, UptoIndex
  <2>2. k < i => i - k \in 1 .. (n + 1)
    BY <1>1, <1>5, <2>1
  <2>3. Steps(R, c, k, FALSE) = IF k < i THEN Row(R, i - k) ELSE Begin
    <3>1. k \in Nat /\ k # 0
      BY <1>5
    <3> QED BY <1>0, <2>0, <3>1, StepsBack
  <2> QED BY <1>2, <1>5, <2>2, <2>3, CursorFact
<1> QED BY <1>3, <1>4, <1>5

\* Moving the cursor of a row set.
LEMMA CursorMoved ==
  ASSUME NEW r \in RowSets, NEW c \in Cursors, NEW p \in Int
  PROVE  /\ [r EXCEPT !.cur = c, !.pos = p] \in RowSets
         /\ [r EXCEPT !.cur = c, !.pos = p, !.pend = "none"] \in RowSets
BY DEF RowSets

LEMMA FieldsFact ==
  ASSUME NEW r \in RowSets
  PROVE  r.cur \in Cursors /\ r.cur \in Int /\ r.pos \in Int /\ r.before \in Cursors
BY CursorFact DEF RowSets

LEMMA EndsFact ==
  ASSUME NEW R \in SUBSET (1 .. MaxRow), NEW r \in RowSets
  PROVE  /\ NextOf(R, Begin) \in Cursors /\ PrevOf(R, End) \in Cursors /\ Cardinality(R) \in Int
         /\ NextOf(R, r.cur) \in Cursors /\ PrevOf(R, r.cur) \in Cursors
<1>1. Begin \in Int /\ End \in Int
  BY CursorFact
<1>2. Cardinality(R) \in Int
  <2>1. R \in SUBSET R
    OBVIOUS
  <2>2. Cardinality(R) \in Nat
    BY <2>1, RowsFact
  <2> QED BY <2>2
<1>3. r.cur \in Int
  BY FieldsFact
<1> QED BY <1>1, <1>2, <1>3, NextTyped

\* What FIRST, NEXT, LAST, BACK and a cancelled update make of a row set.
LEMMA MovesTyped ==
  ASSUME NEW r \in RowSets, cR \in SUBSET (1 .. MaxRow)
  PROVE  /\ CancelIfUpdate(r) \in RowSets /\ FirstL(r) \in RowSets /\ NextL(r) \in RowSets
         /\ LastL(r) \in RowSets /\ BackL(r) \in RowSets
         /\ \A R \in SUBSET (1 .. MaxRow) : LastIn(R, r) \in RowSets
<1>1. r.pos + 1 \in Int /\ r.pos - 1 \in Int
  BY FieldsFact
<1>2. CancelIfUpdate(r) \in RowSets
  BY DEF CancelIfUpdate, RowSets
<1>3. ASSUME NEW q \in RowSets PROVE FirstL(q) \in RowSets
  <2>1. PICK c : c = NextOf(cR, Begin)
    OBVIOUS
  <2>2. c \in Cursors /\ 1 \in Int
    BY <2>1, EndsFact
  <2>3. [q EXCEPT !.cur = c, !.pos = 1, !.pend = "none"] \in RowSets
    BY <2>2, CursorMoved
  <2> QED BY <2>1, <2>3 DEF FirstL
<1>4. NextL(r) \in RowSets
  <2>1. PICK c : c = NextOf(cR, r.cur)
    OBVIOUS
  <2>2. PICK p : p = r.pos + 1
    OBVIOUS
  <2>3. c \in Cursors /\ p \in Int
    BY <1>1, <2>1, <2>2, EndsFact
  <2>4. [r EXCEPT !.cur = c, !.pos = p, !.pend = "none"] \in RowSets
    BY <2>3, CursorMoved
  <2>5. NextL(r) = r \/ NextL(r) = [r EXCEPT !.cur = c, !.pos = p, !.pend = "none"]
    BY <2>1, <2>2 DEF NextL
  <2> QED BY <2>4, <2>5
<1>5. ASSUME NEW R \in SUBSET (1 .. MaxRow) PROVE LastIn(R, r) \in RowSets
  <2>1. PICK c : c = NextOf(R, Begin)
    OBVIOUS
  <2>2. PICK d : d = PrevOf(R, End)
    OBVIOUS
  <2>3. PICK n : n = Cardinality(R)
    OBVIOUS
  <2>4. c \in Cursors /\ d \in Cursors /\ n \in Int /\ 1 \in Int
    BY <2>1, <2>2, <2>3, EndsFact
  <2>5. [r EXCEPT !.cur = c, !.pos = 1] \in RowSets /\ [r EXCEPT !.cur = d, !.pos = n] \in RowSets
    BY <2>4, CursorMoved
  <2>6. LastIn(R, r) \in {[r EXCEPT !.cur = c, !.pos = 1], [r EXCEPT !.cur = d, !.pos = n]}
    BY <2>1, <2>2, <2>3 DEF LastIn
  <2> QED BY <2>5, <2>6
<1>6. BackL(r) \in RowSets
  <2>1. PICK c : c = PrevOf(cR, r.cur)
    OBVIOUS
  <2>2. PICK p : p = r.pos - 1
    OBVIOUS
  <2>3. c \in Cursors /\ p \in Int
    BY <1>1, <2>1, <2>2, EndsFact
  <2>4. [r EXCEPT !.cur = c, !.pos = p] \in RowSets
    BY <2>3, CursorMoved
  <2>5. PICK b : b = IF r.cur = Begin THEN r ELSE [r EXCEPT !.cur = c, !.pos = p]
    OBVIOUS
  <2>6. b \in RowSets
    BY <2>4, <2>5
  <2>7. BackL(r) = IF b.cur = Begin THEN FirstL(b) ELSE b
    BY <2>1, <2>2, <2>5 DEF BackL
  <2> QED BY <1>3, <2>6, <2>7
<1> QED BY <1>2, <1>3, <1>4, <1>5, <1>6 DEF LastL

\* POSITION, FIND and FINDFIELD.
LEMMA SearchesTyped ==
  ASSUME NEW r \in RowSets, cR \in SUBSET (1 .. MaxRow), NEW M
  PROVE  /\ \A wanted \in 0 .. End : PositionL(r, wanted) \in RowSets
         /\ \A forward \in BOOLEAN : Found(cR, r.cur, M, forward) \in Cursors
         /\ \A t \in Cursors : Between(cR, r.cur, t) \in Int
         /\ \A forward, fromEnd \in BOOLEAN : FindFieldL(r, M, forward, fromEnd) \in RowSets
<1> PICK R : R = cR
  OBVIOUS
<1>0. R \in SUBSET (1 .. MaxRow)
  OBVIOUS
<1>1. PICK n : n = Cardinality(R)
  OBVIOUS
<1>2. n \in Nat /\ Count = n
  <2>1. R \in SUBSET R
    OBVIOUS
  <2> QED BY <1>0, <1>1, <2>1, RowsFact DEF Count
<1>3. ASSUME NEW q \in RowSets, NEW forward \in BOOLEAN
      PROVE  Found(cR, q.cur, M, forward) \in Cursors
  <2>1. R \cap M \in SUBSET (1 .. MaxRow)
    BY <1>0
  <2>2. q.cur - 1 \in Int /\ q.cur + 1 \in Int
    BY FieldsFact
  <2>3. NextOf(R \cap M, q.cur - 1) \in Cursors /\ PrevOf(R \cap M, q.cur + 1) \in Cursors
    BY <2>1, <2>2, NextTyped
  <2> QED BY <2>3 DEF Found
<1>4. ASSUME NEW c, NEW t
      PROVE  Between(cR, c, t) \in Int
  <2>1. {x \in cR : (c < x /\ x <= t) \/ (t <= x /\ x < c)} \in SUBSET cR
    OBVIOUS
  <2>2. Between(cR, c, t) \in Nat
    BY <2>1, RowsFact DEF Between
  <2> QED BY <2>2
<1>5. ASSUME NEW wanted \in 0 .. End PROVE PositionL(r, wanted) \in RowSets
  <2>1. PICK to : to = IF wanted = 0 THEN 1 ELSE IF wanted > n + 1 THEN n + 1 ELSE wanted
    OBVIOUS
  <2>2. to \in Int /\ r.pos \in Int /\ r.cur \in Cursors
    <3>1. wanted \in Int
      BY CursorFact
    <3> QED BY <1>2, <2>1, <3>1, FieldsFact
  <2>3. PICK steps : steps = to - r.pos
    OBVIOUS
  <2>4. steps \in Int /\ -steps \in Int /\ n + 1 - r.pos - steps \in Int /\ to - 1 \in Int
    BY <1>2, <2>2, <2>3
  <2>5. PICK f : f = NextOf(R, Begin)
    OBVIOUS
  <2>6. f \in Cursors /\ End \in Cursors
    BY <1>0, <2>5, EndsFact, CursorFact
  <2>7. /\ Steps(R, r.cur, steps, TRUE) \in Cursors
        /\ Steps(R, End, n + 1 - r.pos - steps, FALSE) \in Cursors
        /\ Steps(R, r.cur, -steps, FALSE) \in Cursors
        /\ Steps(R, f, to - 1, TRUE) \in Cursors
    BY <1>0, <2>2, <2>4, <2>6, StepsTyped
  <2>8. PICK c : c = IF steps > 0
        THEN IF (n + 1 - r.pos) \div 2 > steps THEN Steps(R, r.cur, steps, TRUE)
             ELSE Steps(R, End, n + 1 - r.pos - steps, FALSE)
        ELSE IF steps < 0
        THEN IF r.pos \div 2 > -steps THEN Steps(R, r.cur, -steps, FALSE)
             ELSE Steps(R, f, to - 1, TRUE)
        ELSE r.cur
    OBVIOUS
  <2>9. c \in Cursors
    BY <2>2, <2>7, <2>8
  <2>10. [r EXCEPT !.cur = c, !.pos = to] \in RowSets
    BY <2>2, <2>9, CursorMoved
  <2>11. PositionL(r, wanted) = [r EXCEPT !.cur = c, !.pos = to]
    BY <1>2, <2>1, <2>3, <2>5, <2>8, Zenon DEF PositionL
  <2> QED BY <2>10, <2>11
<1>6. ASSUME NEW forward \in BOOLEAN, NEW fromEnd \in BOOLEAN
      PROVE  FindFieldL(r, M, forward, fromEnd) \in RowSets
  <2>1. PICK s : s = IF forward THEN IF fromEnd THEN FirstL(r) ELSE r
                     ELSE IF fromEnd \/ ~AtRow(r) THEN LastL(r) ELSE r
    OBVIOUS
  <2>2. s \in RowSets
    BY <2>1, MovesTyped
  <2>3. PICK t : t = Found(R, s.cur, M, forward)
    OBVIOUS
  <2>4. t \in Cursors
    BY <1>3, <2>2, <2>3
  <2>5. PICK p : p = s.pos + (IF forward THEN 1 ELSE -1) * Between(R, s.cur, t)
    OBVIOUS
  <2>6. p \in Int
    <3>1. PICK b : b = Between(R, s.cur, t)
      OBVIOUS
    <3>2. b \in Int /\ s.pos \in Int
      BY <1>4, <2>2, <3>1, FieldsFact
    <3>3. CASE forward
      <4>1. p = s.pos + 1 * b
        BY <2>5, <3>1, <3>3
      <4> QED BY <3>2, <4>1
    <3>4. CASE ~forward
      <4>1. p = s.pos + (-1) * b
        BY <2>5, <3>1, <3>4
      <4> QED BY <3>2, <4>1
    <3> QED BY <3>3, <3>4
  <2>7. [s EXCEPT !.pos = n + 1] \in RowSets
    <3>1. n + 1 \in Int
      BY <1>2
    <3> QED BY <2>2, <3>1 DEF RowSets
  <2>8. [s EXCEPT !.cur = End, !.pos = n + 1] \in RowSets /\ [s EXCEPT !.cur = t, !.pos = p] \in RowSets
    <3>1. n + 1 \in Int /\ End \in Cursors
      BY <1>2, CursorFact
    <3> QED BY <2>2, <2>4, <2>6, <3>1, CursorMoved
  <2>9. FirstL(s) \in RowSets
    BY <2>2, MovesTyped
  <2>10. FindFieldL(r, M, forward, fromEnd) \in
           {[s EXCEPT !.pos = n + 1], [s EXCEPT !.cur = End, !.pos = n + 1],
            FirstL(s), [s EXCEPT !.cur = t, !.pos = p]}
    <3>1. FindFieldL(r, M, forward, fromEnd) =
            IF forward /\ ~AtRow(s) THEN [s EXCEPT !.pos = Count + 1]
            ELSE IF t = End THEN [s EXCEPT !.cur = End, !.pos = Count + 1]
            ELSE IF t = Begin THEN FirstL(s)
            ELSE [s EXCEPT !.cur = t,
                           !.pos = s.pos + (IF forward THEN 1 ELSE -1) * Between(R, s.cur, t)]
      BY <2>1, <2>3, Zenon DEF FindFieldL
    <3> QED BY <1>2, <2>5, <3>1
  <2> QED BY <2>7, <2>8, <2>9, <2>10
<1>7. \A forward \in BOOLEAN : Found(cR, r.cur, M, forward) \in Cursors
  BY <1>3
<1> QED BY <1>4, <1>5, <1>6, <1>7

\* A name's row set is replaced by another.
LEMMA ViewingSet ==
  ASSUME NEW L, Viewing(L), NEW n \in Names, iLogNames[n] # None, NEW r \in RowSets
  PROVE  Viewing([L EXCEPT ![n] = r])
BY NullAssumption DEF Viewing, NullAssumption

\* Views that follow a rollback are row sets.
LEMMA ViewingReset ==
  ASSUME NEW L, Viewing(L), NEW d, NEW R \in SUBSET (1 .. MaxRow)
  PROVE  Viewing(ResetRelatedViews(L, d, R))
<1>1. ASSUME NEW r \in RowSets PROVE ResetView(r, R) \in RowSets /\ ResetView(r, R) # None
  <2>1. ResetView(r, R) \in RowSets
    <3>1. Begin \in Cursors /\ 1 \in Int
      BY CursorFact
    <3>2. [r EXCEPT !.pend = "none"] \in RowSets
      BY DEF RowSets
    <3>3. [r EXCEPT !.pend = "none", !.cur = Begin, !.pos = 1] \in RowSets
      BY <3>1 DEF RowSets
    <3> QED BY <3>2, <3>3 DEF ResetView
  <2> QED BY <2>1, NullAssumption DEF NullAssumption
<1>2. ASSUME NEW n \in Names
      PROVE  /\ ResetRelatedViews(L, d, R)[n] \in RowSets \cup {None}
             /\ ResetRelatedViews(L, d, R)[n] = None <=> iLogNames[n] = None
  <2>1. L[n] \in RowSets \cup {None} /\ (L[n] = None <=> iLogNames[n] = None)
    BY DEF Viewing
  <2>2. ResetRelatedViews(L, d, R)[n] = IF L[n] = None THEN None
                   ELSE IF iParentDbase[n] = d THEN ResetView(L[n], R) ELSE L[n]
    BY DEF ResetRelatedViews
  <2> QED BY <1>1, <2>1, <2>2
<1>3. DOMAIN ResetRelatedViews(L, d, R) = Names
      /\ ResetRelatedViews(L, d, R) = [n \in Names |-> ResetRelatedViews(L, d, R)[n]]
  BY DEF ResetRelatedViews
<1> QED BY <1>2, <1>3 DEF Viewing

LEMMA ViewingRolled ==
  ASSUME NEW L, Viewing(L), NEW d, NEW R \in SUBSET (1 .. MaxRow), NEW reset
  PROVE  Viewing(Rolled(L, d, R, reset))
BY ViewingReset DEF Rolled

LEMMA ViewingCancelled ==
  ASSUME Inv, OpenCheckL, NEW L, Viewing(L), NEW reset
  PROVE  Viewing(Cancelled(L, reset))
<1> PICK c : c = iCurrOplRowSet
  OBVIOUS
<1>1. c \in Names /\ iLogNames[c] # None /\ cR \in SUBSET (1 .. MaxRow)
  BY CurrentFact
<1>2. PICK r : r = [L[c] EXCEPT !.pend = "none"]
  OBVIOUS
<1>3. r \in RowSets
  <2>1. L[c] \in RowSets
    BY <1>1 DEF Viewing
  <2> QED BY <1>2, <2>1 DEF RowSets
<1>4. PICK M : M = Rolled([L EXCEPT ![c] = r], cdb, cR, reset)
  OBVIOUS
<1>5. Viewing(M)
  <2>1. PICK K : K = [L EXCEPT ![c] = r]
    OBVIOUS
  <2>2. Viewing(K)
    BY <1>1, <1>3, <2>1, ViewingSet
  <2> QED BY <1>1, <1>4, <2>1, <2>2, ViewingRolled
<1>6. PICK q : q = [M[c] EXCEPT !.aou = FALSE, !.moi = FALSE, !.ins = FALSE]
  OBVIOUS
<1>7. q \in RowSets
  <2>1. M[c] \in RowSets
    BY <1>1, <1>5 DEF Viewing
  <2> QED BY <1>6, <2>1 DEF RowSets
<1>8. Cancelled(L, reset) = [M EXCEPT ![c].aou = FALSE, ![c].moi = FALSE, ![c].ins = FALSE]
  BY <1>2, <1>4 DEF Cancelled
<1>9. [M EXCEPT ![c].aou = FALSE, ![c].moi = FALSE, ![c].ins = FALSE] = [M EXCEPT ![c] = q]
  BY <1>1, <1>5, <1>6 DEF Viewing
<1>10. Viewing([M EXCEPT ![c] = q])
  BY <1>1, <1>5, <1>7, ViewingSet
<1> QED BY <1>8, <1>9, <1>10

\* The current row set is replaced, and what was written rolled back.
LEMMA SetsCurrent ==
  ASSUME Inv, OpenCheckL, NEW r \in RowSets
  PROVE  /\ Viewing([iLogNames EXCEPT ![iCurrOplRowSet] = r])
         /\ \A reset : Viewing(Cancelled([iLogNames EXCEPT ![iCurrOplRowSet] = r], reset))
         /\ \A reset : \A R \in SUBSET (1 .. MaxRow) :
              Viewing(Rolled([iLogNames EXCEPT ![iCurrOplRowSet] = r], cdb, R, reset))
<1>1. PICK L : L = [iLogNames EXCEPT ![iCurrOplRowSet] = r]
  OBVIOUS
<1>2. Viewing(L)
  <2>1. iCurrOplRowSet \in Names /\ iLogNames[iCurrOplRowSet] # None /\ Viewing(iLogNames)
    BY CurrentFact DEF cr
  <2> QED BY <1>1, <2>1, ViewingSet
<1>3. \A reset : Viewing(Cancelled(L, reset))
  BY <1>2, ViewingCancelled
<1>4. \A reset : \A R \in SUBSET (1 .. MaxRow) : Viewing(Rolled(L, cdb, R, reset))
  BY <1>2, ViewingRolled
<1> QED BY <1>1, <1>2, <1>3, <1>4

\* The row sets the writing keywords work on.
LEMMA WritesTyped ==
  ASSUME NEW r \in RowSets
  PROVE  /\ Remember(r) \in RowSets /\ CopyCurrRowToEnd(r) \in RowSets
         /\ \A a, m \in BOOLEAN :
              /\ [r EXCEPT !.aou = a, !.absent = m] \in RowSets
              /\ [r EXCEPT !.aou = a, !.absent = m, !.pend = "none"] \in RowSets
              /\ [r EXCEPT !.moi = a, !.ins = m] \in RowSets
         /\ [r EXCEPT !.aou = FALSE] \in RowSets
         /\ [r EXCEPT !.moi = TRUE] \in RowSets
         /\ [r EXCEPT !.pend = "insert"] \in RowSets
         /\ [r EXCEPT !.pend = "none"] \in RowSets
         /\ [r EXCEPT !.moi = TRUE, !.pend = "update"] \in RowSets
         /\ [r EXCEPT !.moi = TRUE, !.ins = TRUE, !.pend = "insert"] \in RowSets
         /\ \A c \in Cursors : [r EXCEPT !.cur = c] \in RowSets
         /\ \A n \in Int : [r EXCEPT !.pend = "none", !.pos = n] \in RowSets
         /\ \A c \in Cursors : [r EXCEPT !.pend = "none", !.cur = c] \in RowSets
         /\ \A c \in Cursors, n \in Int : [r EXCEPT !.pend = "none", !.cur = c, !.pos = n] \in RowSets
<1>1. r.cur \in Cursors
  BY FieldsFact
<1>2. Remember(r) \in RowSets /\ CopyCurrRowToEnd(r) \in RowSets
  BY <1>1 DEF Remember, CopyCurrRowToEnd, RowSets
<1>3. \A a, m \in BOOLEAN :
              /\ [r EXCEPT !.aou = a, !.absent = m] \in RowSets
              /\ [r EXCEPT !.aou = a, !.absent = m, !.pend = "none"] \in RowSets
              /\ [r EXCEPT !.moi = a, !.ins = m] \in RowSets
  BY DEF RowSets
<1>4. /\ [r EXCEPT !.aou = FALSE] \in RowSets
      /\ [r EXCEPT !.moi = TRUE] \in RowSets
      /\ [r EXCEPT !.pend = "insert"] \in RowSets
      /\ [r EXCEPT !.pend = "none"] \in RowSets
      /\ [r EXCEPT !.moi = TRUE, !.pend = "update"] \in RowSets
      /\ [r EXCEPT !.moi = TRUE, !.ins = TRUE, !.pend = "insert"] \in RowSets
  BY DEF RowSets
<1>5. \A c \in Cursors : [r EXCEPT !.cur = c] \in RowSets
  BY DEF RowSets
<1>6. \A n \in Int : [r EXCEPT !.pend = "none", !.pos = n] \in RowSets
  BY DEF RowSets
<1>7. \A c \in Cursors : [r EXCEPT !.pend = "none", !.cur = c] \in RowSets
  BY DEF RowSets
<1>8. \A c \in Cursors, n \in Int : [r EXCEPT !.pend = "none", !.cur = c, !.pos = n] \in RowSets
  BY DEF RowSets
<1> QED BY <1>2, <1>3, <1>4, <1>5, <1>6, <1>7, <1>8

\* A record that is added has a number within the bound.
LEMMA RoomFact ==
  ASSUME Inv, NEW d \in Dbs, RoomForRow(d)
  PROVE  /\ NewRow(d) \in 1 .. MaxRow /\ NewRow(d) \in Cursors /\ lastRow[d] \in Nat
         /\ NewRow(d) = lastRow[d] + 1 /\ NewRow(d) \notin rows[d]
<1>1. lastRow[d] \in 0 .. MaxRow /\ prog.records \in 0 .. MaxRow
  BY ProgramsAssumption DEF Inv, TypeOK, ProgramsAssumption
<1>2. lastRow[d] < prog.records
  BY DEF RoomForRow
<1>3. MaxRow \in Nat
  BY BoundsAssumption DEF BoundsAssumption
<1>4. NewRow(d) = lastRow[d] + 1 /\ NewRow(d) \in 1 .. MaxRow /\ lastRow[d] \in Nat
  BY <1>1, <1>2, <1>3 DEF NewRow
<1>5. NewRow(d) \in Cursors
  BY <1>3, <1>4 DEF Cursors, Begin, End
<1>6. NewRow(d) \notin rows[d]
  <2>1. \A x \in rows[d] : x <= lastRow[d]
    BY DEF Inv, Numbered
  <2>2. ~(lastRow[d] + 1 <= lastRow[d])
    BY <1>4
  <2> QED BY <1>4, <2>1, <2>2
<1> QED BY <1>4, <1>5, <1>6

-----------------------------------------------------------------------------
(* The row sets, step by step.                                             *)
NamesStep ==
  \/ iParentDbase' = iParentDbase /\ Viewing(iLogNames')
  \/ \E n \in Names, d \in Dbs, r \in RowSets :
       /\ iLogNames' = [iLogNames EXCEPT ![n] = r]
       /\ iParentDbase' = [iParentDbase EXCEPT ![n] = d]
  \/ \E n \in Names :
       /\ iLogNames' = [iLogNames EXCEPT ![n] = None]
       /\ iParentDbase' = [iParentDbase EXCEPT ![n] = None]

\* What any keyword does to the row sets.
LEMMA StepOfNames ==
  ASSUME Inv, [Next]_vars
  PROVE  NamesStep
<1>0. prog.names \subseteq Names /\ prog.files \subseteq Dbs
  BY ProgramsAssumption DEF ProgramsAssumption, Inv, TypeOK
<1>1. Viewing(iLogNames)
  BY DEF Viewing, Inv, TypeOK
<1>2. CASE UNCHANGED <<iLogNames, iParentDbase>>
  BY <1>1, <1>2 DEF NamesStep
<1>3. CASE UNCHANGED vars
  BY <1>2, <1>3 DEF vars, names, views
<1>4. ASSUME NEW kw, Leaves(kw)
      PROVE  NamesStep
  BY <1>2, <1>4 DEF Leaves, names, views
<1>5. ASSUME OpenCheckL, NEW kw, NEW r \in RowSets, Becomes(kw, r) \/ LeavesWith(kw, r)
      PROVE  NamesStep
  BY <1>5, SetsCurrent DEF Becomes, LeavesWith, SetCurrent, NamesStep, views
<1>6. ASSUME OpenCheckL, NEW kw, NEW r \in RowSets, PutFails(kw, r)
      PROVE  NamesStep
  BY <1>6, SetsCurrent DEF PutFails, WriteFails, NamesStep, views
<1>7. ASSUME OpenCheckL, NEW kw, NEW r \in RowSets, AddsRow(kw, r)
      PROVE  NamesStep
  <2>1. PICK q : q = [r EXCEPT !.pend = "none", !.cur = NewRow(cdb), !.pos = Count + 1]
    OBVIOUS
  <2>2. NewRow(cdb) \in Cursors /\ Count + 1 \in Int
    BY <1>7, CurrentFact, RoomFact DEF AddsRow
  <2>3. q \in RowSets
    BY <2>1, <2>2, WritesTyped
  <2>4. iLogNames' = [iLogNames EXCEPT ![iCurrOplRowSet] = q] /\ iParentDbase' = iParentDbase
    BY <1>7, <2>1 DEF AddsRow, SetCurrent, views
  <2> QED BY <1>7, <2>3, <2>4, SetsCurrent DEF NamesStep
<1>8. ASSUME OpenCheckL
      PROVE  /\ CancelIfUpdate(cr) \in RowSets /\ cr \in RowSets /\ cdb \in Dbs /\ cR \in SUBSET (1 .. MaxRow)
             /\ rows[cdb] \in SUBSET (1 .. MaxRow) /\ Count \in Int /\ cR = rows[cdb]
  BY <1>8, CurrentFact, MovesTyped
<1>9. CASE OpFirst \/ OpLast \/ OpNext \/ OpBack
  <2>1. /\ FirstL(CancelIfUpdate(cr)) \in RowSets /\ LastL(CancelIfUpdate(cr)) \in RowSets
        /\ NextL(CancelIfUpdate(cr)) \in RowSets /\ BackL(CancelIfUpdate(cr)) \in RowSets
        /\ OpenCheckL
    BY <1>8, <1>9, MovesTyped DEF OpFirst, OpLast, OpNext, OpBack
  <2> QED BY <1>5, <1>9, <2>1 DEF OpFirst, OpLast, OpNext, OpBack
<1>10. CASE OpPosition
  <2>1. PICK wanted \in 0 .. End : Becomes("POSITION", PositionL(CancelIfUpdate(cr), wanted)) /\ OpenCheckL
    BY <1>10 DEF OpPosition
  <2>2. PositionL(CancelIfUpdate(cr), wanted) \in RowSets
    BY <1>8, <2>1, SearchesTyped
  <2> QED BY <1>5, <2>1, <2>2
<1>11. CASE OpFind
  <2>1. PICK r : r = CancelIfUpdate(cr)
    OBVIOUS
  <2>2. PICK M, t, p :
          /\ OpenCheckL /\ t = Found(cR, r.cur, M, TRUE) /\ p = r.pos + Between(cR, r.cur, t)
          /\ \/ Becomes("FIND", [r EXCEPT !.pos = Count + 1])
             \/ Becomes("FIND", [r EXCEPT !.cur = End, !.pos = Count + 1])
             \/ Becomes("FIND", [r EXCEPT !.cur = t, !.pos = p])
             \/ LeavesWith("FIND", r)
    BY <1>11, <2>1 DEF OpFind
  <2>3. PICK n : n = Count + 1
    OBVIOUS
  <2>4. r \in RowSets /\ n \in Int /\ End \in Cursors /\ t \in Cursors /\ p \in Int
    <3>1. r \in RowSets
      BY <1>8, <2>1, <2>2
    <3>2. t \in Cursors
      BY <1>8, <2>2, <3>1, SearchesTyped
    <3>3. Between(cR, r.cur, t) \in Int
      BY <1>8, <2>2, <3>1, <3>2, SearchesTyped
    <3>4. p \in Int /\ n \in Int
      <4>1. r.pos \in Int /\ Count \in Int
        BY <1>8, <2>2, <3>1, FieldsFact
      <4>2. PICK b : b = Between(cR, r.cur, t)
        OBVIOUS
      <4>3. p = r.pos + b
        BY <2>2, <4>2
      <4> QED BY <2>3, <3>3, <4>1, <4>2, <4>3
    <3> QED BY <3>1, <3>2, <3>4, CursorFact
  <2>5. [r EXCEPT !.cur = End, !.pos = n] \in RowSets /\ [r EXCEPT !.cur = t, !.pos = p] \in RowSets
    BY <2>4, CursorMoved
  <2>6. [r EXCEPT !.pos = n] \in RowSets
    BY <2>4 DEF RowSets
  <2> QED BY <1>5, <2>2, <2>3, <2>4, <2>5, <2>6
<1>12. CASE OpFindField
  <2>1. OpenCheckL /\ CancelIfUpdate(cr) \in RowSets /\ cR \in SUBSET (1 .. MaxRow)
    BY <1>8, <1>12 DEF OpFindField
  <2>2. CASE LeavesWith("FINDFIELD", CancelIfUpdate(cr))
    BY <1>5, <2>1, <2>2
  <2>3. CASE \E M \in SUBSET rows[cdb], forward, fromEnd \in BOOLEAN :
               Becomes("FINDFIELD", FindFieldL(CancelIfUpdate(cr), M, forward, fromEnd))
    <3>1. PICK M \in SUBSET rows[cdb], forward \in BOOLEAN, fromEnd \in BOOLEAN :
               Becomes("FINDFIELD", FindFieldL(CancelIfUpdate(cr), M, forward, fromEnd))
      BY <2>3
    <3>2. FindFieldL(CancelIfUpdate(cr), M, forward, fromEnd) \in RowSets
      BY <2>1, SearchesTyped
    <3> QED BY <1>5, <2>1, <3>1, <3>2
  <2> QED BY <1>12, <2>2, <2>3 DEF OpFindField
<1>13. ASSUME NEW kw, NEW n \in prog.names, NEW d \in prog.files, AddRowSet(kw, n, d)
       PROVE  NamesStep
  <2>1. PICK c : c = NextOf(rows[d], Begin)
    OBVIOUS
  <2>2. PICK u : u = (kw # "OPENR")
    OBVIOUS
  <2>3. c \in Cursors /\ Begin \in Cursors /\ d \in Dbs /\ n \in Names /\ u \in BOOLEAN
    <3>1. d \in Dbs /\ rows[d] \in SUBSET (1 .. MaxRow)
      BY <1>0 DEF Inv, TypeOK
    <3>2. Begin \in Int
      BY CursorFact
    <3> QED BY <1>0, <2>1, <2>2, <3>1, <3>2, NextTyped, CursorFact
  <2>4. PICK r : r = [upd |-> u, cur |-> c, pend |-> "none", pos |-> 1,
                      before |-> Begin, absent |-> FALSE, aou |-> FALSE, moi |-> FALSE, ins |-> FALSE]
    OBVIOUS
  <2>5. r \in RowSets
    BY <2>3, <2>4 DEF RowSets
  <2>6. NewRowSet(kw # "OPENR", rows[d]) = r
    BY <2>1, <2>2, <2>4 DEF NewRowSet
  <2>7. PICK q : q = [r EXCEPT !.cur = Begin, !.pos = 0]
    OBVIOUS
  <2>8. q \in RowSets
    <3>1. \A x \in Cursors, z \in Int : [r EXCEPT !.cur = x, !.pos = z] \in RowSets
      BY <2>5, CursorMoved
    <3>2. Begin \in Cursors /\ 0 \in Int
      BY <2>3
    <3>3. [r EXCEPT !.cur = Begin, !.pos = 0] \in RowSets
      BY <3>1, <3>2
    <3> QED BY <2>7, <3>3
  <2>9. iParentDbase' = [iParentDbase EXCEPT ![n] = d]
        /\ (iLogNames' = [iLogNames EXCEPT ![n] = r] \/ iLogNames' = [iLogNames EXCEPT ![n] = q])
    BY <1>13, <2>6, <2>7 DEF AddRowSet
  <2> QED BY <2>3, <2>5, <2>8, <2>9 DEF NamesStep
<1>30. ASSUME NEW kw, NEW d \in prog.files, FailsCounted(kw, d)
       PROVE  NamesStep
  BY <1>0, <1>2, <1>30, FailedOpen DEF names, views
<1>14. ASSUME NEW kw, OpenKeyword(kw)
       PROVE  NamesStep
  BY <1>4, <1>13, <1>14, <1>30 DEF OpenKeyword
<1>15. CASE OpCreate
  BY <1>4, <1>13, <1>15, <1>30 DEF OpCreate
<1>16. CASE UseLog \/ OpDeleteTable
  BY <1>2, <1>4, <1>16 DEF UseLog, OpDeleteTable, names, views
<1>17. CASE OpClose
  <2>1. iCurrLogName \in Names
    BY <1>17, CurrentFact DEF OpClose
  <2> QED BY <1>17, <2>1 DEF OpClose, NamesStep
<1>18. CASE OpAppend
  <2>0. OpenCheckL /\ cr \in RowSets
    BY <1>8, <1>18 DEF OpAppend
  <2>1. PICK r : r = [cr EXCEPT !.aou = FALSE, !.absent = FALSE]
    OBVIOUS
  <2>2. PICK s : s = [cr EXCEPT !.pend = "insert"]
    OBVIOUS
  <2>3. r \in RowSets /\ s \in RowSets /\ Remember(cr) \in RowSets /\ CopyCurrRowToEnd(cr) \in RowSets
    BY <2>0, <2>1, <2>2, WritesTyped
  <2>4. \/ Leaves("APPEND") \/ PutFails("APPEND", r) \/ AddsRow("APPEND", r)
        \/ LeavesWith("APPEND", Remember(cr)) \/ PutFails("APPEND", CopyCurrRowToEnd(cr))
        \/ AddsRow("APPEND", CopyCurrRowToEnd(cr)) \/ AddsRow("APPEND", s) \/ LeavesWith("APPEND", s)
    BY <1>18, <2>1, <2>2, Zenon DEF OpAppend
  <2> QED BY <1>4, <1>5, <1>6, <1>7, <2>0, <2>3, <2>4
<1>19. ASSUME OpenCheckL, NEW r \in RowSets, ReplacesRow(r)
       PROVE  NamesStep
  <2>1. CASE PutFails("UPDATE", r)
    BY <1>6, <1>19, <2>1
  <2>2. CASE ~PutFails("UPDATE", r)
    <3>0. PICK d : d = cdb
      OBVIOUS
    <3>1. PICK R : R = rows[d] \cup {NewRow(d)}
      OBVIOUS
    <3>2. PICK put : put = [r EXCEPT !.pend = "none", !.cur = NewRow(d)]
      OBVIOUS
    <3>3. PICK back : back = [put EXCEPT !.cur = r.before]
      OBVIOUS
    <3>4. PICK S : S = R \ {r.before}
      OBVIOUS
    <3>5. /\ RoomForRow(d) /\ iParentDbase' = iParentDbase
          /\ \/ SetCurrent(put)
             \/ \E reset \in BOOLEAN :
                   iLogNames' = Rolled([iLogNames EXCEPT ![iCurrOplRowSet] = back], d, R, reset)
             \/ SetCurrent(LastIn(S, back))
      BY <1>19, <2>2, <3>0, <3>1, <3>2, <3>3, <3>4 DEF ReplacesRow, views
    <3>6. NewRow(d) \in 1 .. MaxRow /\ NewRow(d) \in Cursors /\ d \in Dbs /\ rows[d] \in SUBSET (1 .. MaxRow)
      BY <1>8, <1>19, <3>0, <3>5, RoomFact
    <3>7. R \in SUBSET (1 .. MaxRow) /\ S \in SUBSET (1 .. MaxRow)
      BY <3>1, <3>4, <3>6
    <3>8. put \in RowSets
      BY <3>2, <3>6, WritesTyped
    <3>9. back \in RowSets
      BY <3>3, <3>8, FieldsFact, WritesTyped
    <3>10. LastIn(S, back) \in RowSets
      BY <1>8, <1>19, <3>7, <3>9, MovesTyped
    <3> QED BY <1>19, <3>0, <3>5, <3>7, <3>8, <3>9, <3>10, SetsCurrent DEF SetCurrent, NamesStep
  <2> QED BY <2>1, <2>2
<1>20. CASE OpUpdate
  <2>0. OpenCheckL /\ cr \in RowSets
    BY <1>8, <1>20 DEF OpUpdate
  <2>1. PICK r : r = [cr EXCEPT !.aou = FALSE]
    OBVIOUS
  <2>2. PICK s : s = [cr EXCEPT !.aou = FALSE, !.absent = FALSE, !.pend = "none"]
    OBVIOUS
  <2>3. r \in RowSets /\ s \in RowSets /\ Remember(cr) \in RowSets /\ CopyCurrRowToEnd(cr) \in RowSets
    BY <2>0, <2>1, <2>2, WritesTyped
  <2>4. \/ Leaves("UPDATE") \/ LeavesWith("UPDATE", s) \/ ReplacesRow(r) \/ PutFails("UPDATE", r)
        \/ LeavesWith("UPDATE", Remember(cr)) \/ ReplacesRow(CopyCurrRowToEnd(cr))
    BY <1>20, <2>1, <2>2, Zenon DEF OpUpdate
  <2> QED BY <1>4, <1>5, <1>6, <1>19, <2>0, <2>3, <2>4
<1>21. CASE OpModify \/ OpInsert
  <2>0. OpenCheckL /\ cr \in RowSets
    BY <1>8, <1>21 DEF OpModify, OpInsert
  <2>1. PICK r : r = [cr EXCEPT !.moi = TRUE, !.pend = "update"]
    OBVIOUS
  <2>2. PICK s : s = [cr EXCEPT !.moi = TRUE]
    OBVIOUS
  <2>3. PICK t : t = [cr EXCEPT !.moi = TRUE, !.ins = TRUE, !.pend = "insert"]
    OBVIOUS
  <2>4. r \in RowSets /\ s \in RowSets /\ t \in RowSets
    BY <2>0, <2>1, <2>2, <2>3, WritesTyped
  <2>5. \/ Leaves("MODIFY") \/ Becomes("MODIFY", r) \/ LeavesWith("MODIFY", s)
        \/ Leaves("INSERT") \/ Becomes("INSERT", t)
    BY <1>21, <2>1, <2>2, <2>3, Zenon DEF OpModify, OpInsert
  <2> QED BY <1>4, <1>5, <2>0, <2>4, <2>5
<1>22. CASE OpPut
  <2>0. OpenCheckL /\ cr \in RowSets
    BY <1>8, <1>22 DEF OpPut
  <2>1. PICK r : r = [cr EXCEPT !.moi = FALSE, !.ins = FALSE]
    OBVIOUS
  <2>2. PICK p : p = IF cr.ins THEN Count ELSE r.pos
    OBVIOUS
  <2>3. r \in RowSets
    BY <2>0, <2>1, WritesTyped
  <2>4. [r EXCEPT !.pend = "none", !.pos = p] \in RowSets
    <3>1. p \in Int
      BY <1>8, <2>0, <2>2, <2>3, FieldsFact
    <3> QED BY <2>3, <3>1, WritesTyped
  <2>5. \/ Leaves("PUT") \/ PutFails("PUT", cr) \/ AddsRow("PUT", r)
        \/ Becomes("PUT", [r EXCEPT !.pend = "none", !.pos = p])
    BY <1>22, <2>1, <2>2 DEF OpPut
  <2> QED BY <1>4, <1>5, <1>6, <1>7, <2>0, <2>3, <2>4, <2>5
<1>23. CASE OpCancel
  <2>1. OpenCheckL /\ iParentDbase' = iParentDbase /\ \E reset \in BOOLEAN : iLogNames' = Cancelled(iLogNames, reset)
    BY <1>23 DEF OpCancel, views
  <2> QED BY <1>1, <2>1, ViewingCancelled DEF NamesStep
<1>24. CASE OpErase
  <2>1. PICK r : r = CancelIfUpdate(cr)
    OBVIOUS
  <2>2. OpenCheckL /\ r \in RowSets
    BY <1>8, <1>24, <2>1 DEF OpErase
  <2>3. PICK R : R = rows[cdb] \ {r.cur}
    OBVIOUS
  <2>4. \/ LeavesWith("ERASE", r)
        \/ \E reset \in BOOLEAN :
             WriteFails("ERASE", Rolled([iLogNames EXCEPT ![iCurrOplRowSet] = r], cdb, rows[cdb], reset))
        \/ SetCurrent([r EXCEPT !.cur = NextOf(R, r.cur)]) /\ iParentDbase' = iParentDbase
    BY <1>24, <2>1, <2>3 DEF OpErase, views
  <2>5. PICK q : q = [r EXCEPT !.cur = NextOf(R, r.cur)]
    OBVIOUS
  <2>6. q \in RowSets
    <3>1. R \in SUBSET (1 .. MaxRow)
      BY <1>8, <2>2, <2>3
    <3>2. NextOf(R, r.cur) \in Cursors
      BY <2>2, <3>1, EndsFact
    <3> QED BY <2>2, <2>5, <3>2, WritesTyped
  <2>7. CASE LeavesWith("ERASE", r)
    BY <1>5, <2>2, <2>7
  <2>8. CASE \E reset \in BOOLEAN :
             WriteFails("ERASE", Rolled([iLogNames EXCEPT ![iCurrOplRowSet] = r], cdb, rows[cdb], reset))
    BY <1>8, <2>2, <2>8, SetsCurrent, ZenonT(40) DEF WriteFails, NamesStep, views
  <2>9. CASE SetCurrent(q) /\ iParentDbase' = iParentDbase
    BY <2>2, <2>6, <2>9, SetsCurrent DEF SetCurrent, NamesStep
  <2> QED BY <2>4, <2>5, <2>7, <2>8, <2>9
<1>25. CASE OpLeftSide
  BY <1>2, <1>4, <1>25 DEF OpLeftSide, names, views
<1>26. CASE OpAssign
  <2>1. lhs \in Names /\ iParentDbase' = iParentDbase
    BY <1>26 DEF OpAssign, views, Inv, TypeOK
  <2>2. CASE UNCHANGED iLogNames
    BY <1>2, <2>1, <2>2
  <2>3. CASE iLogNames' # iLogNames
    <3>1. PICK r : r = iLogNames[lhs]
      OBVIOUS
    <3>2. PICK R : R = rows[iParentDbase[lhs]]
      OBVIOUS
    <3>3. r # None /\ \/ iLogNames' = [iLogNames EXCEPT ![lhs] = PrepareForUpdate(r, R)]
                      \/ iLogNames' = [iLogNames EXCEPT ![lhs] = FailsToPrepare(r, R)]
      BY <1>26, <2>3, <3>1, <3>2 DEF OpAssign, PreAssign
    <3>4. r \in RowSets
      BY <2>1, <3>1, <3>3 DEF Inv, TypeOK
    <3>5. PICK b : b = (r.absent \/ R = {})
      OBVIOUS
    <3>6. PICK a : a = NotesAbsence(r, R)
      OBVIOUS
    <3>7. a \in RowSets
      <4>1. b \in BOOLEAN
        BY <3>5, Zenon
      <4>2. a = [r EXCEPT !.absent = b]
        BY <3>5, <3>6, Zenon DEF NotesAbsence
      <4> QED BY <3>4, <4>1, <4>2 DEF RowSets
    <3>8. PICK q : q = IF r.cur \in R THEN CopyCurrRowToEnd(a) ELSE [a EXCEPT !.pend = "insert"]
      OBVIOUS
    <3>9. q \in RowSets
      BY <3>7, <3>8, WritesTyped
    <3>10. [q EXCEPT !.aou = TRUE] \in RowSets
      BY <3>9 DEF RowSets
    <3>11. PrepareForUpdate(r, R) = [q EXCEPT !.aou = TRUE]
      BY <3>6, <3>8, Zenon DEF PrepareForUpdate
    <3>12. FailsToPrepare(r, R) \in RowSets
      BY <3>6, <3>7, WritesTyped DEF FailsToPrepare
    <3>13. /\ Viewing([iLogNames EXCEPT ![lhs] = PrepareForUpdate(r, R)])
           /\ Viewing([iLogNames EXCEPT ![lhs] = FailsToPrepare(r, R)])
      BY <1>1, <2>1, <3>1, <3>3, <3>10, <3>11, <3>12, ViewingSet
    <3> QED BY <2>1, <3>3, <3>13 DEF NamesStep
  <2> QED BY <2>2, <2>3
<1>27. CASE OpBookmark \/ OpKillMark \/ OpBeginTrans \/ OpCommitTrans \/ NotOpen
  BY <1>2, <1>4, <1>27 DEF OpBookmark, OpKillMark, OpBeginTrans, OpCommitTrans, NotOpen, names, views
<1>28. CASE OpGotoMark
  <2>1. OpenCheckL /\ cr \in RowSets
    BY <1>8, <1>28 DEF OpGotoMark
  <2>2. \/ Leaves("GOTOMARK")
        \/ \E i \in DOMAIN iBookmarkArray : Becomes("GOTOMARK", [cr EXCEPT !.cur = iBookmarkArray[i].at])
    BY <1>28 DEF OpGotoMark
  <2>3. \A i \in DOMAIN iBookmarkArray : iBookmarkArray[i].at \in Cursors
    <3>1. iBookmarkArray \in Seq(Marks)
      BY DEF Inv, TypeOK
    <3>2. \A i \in DOMAIN iBookmarkArray : iBookmarkArray[i] \in Marks
      BY <3>1
    <3>3. \A m \in Marks : m.at \in Cursors
      BY DEF Marks
    <3> QED BY <3>2, <3>3
  <2>4. \A c \in Cursors : [cr EXCEPT !.cur = c] \in RowSets
    BY <2>1, WritesTyped
  <2> QED BY <1>4, <1>5, <2>1, <2>2, <2>3, <2>4
<1>29. CASE OpRollback
  <2>1. \/ Leaves("ROLLBACK")
        \/ /\ OpenCheckL /\ iParentDbase' = iParentDbase
           /\ iLogNames' = ResetRelatedViews(iLogNames, cdb, saved[cdb])
    BY <1>29 DEF OpRollback, views
  <2>2. OpenCheckL => saved[cdb] \in SUBSET (1 .. MaxRow)
    BY <1>8 DEF Inv, TypeOK
  <2> QED BY <1>1, <1>4, <2>1, <2>2, ViewingReset DEF NamesStep
<1> QED
  BY <1>3, <1>9, <1>10, <1>11, <1>12, <1>14, <1>15, <1>16, <1>17, <1>18, <1>20, <1>21, <1>22,
     <1>23, <1>24, <1>25, <1>26, <1>27, <1>28, <1>29 DEF Next, Keyword

-----------------------------------------------------------------------------
(* The databases, step by step.                                            *)
DbmsOK ==
  /\ disk \in [Dbs -> {"nofile", "notable", "table"}]
  /\ rows \in [Dbs -> SUBSET (1 .. MaxRow)]
  /\ saved \in [Dbs -> SUBSET (1 .. MaxRow)]
  /\ lastRow \in [Dbs -> 0 .. MaxRow]
  /\ trans \in [Dbs -> BOOLEAN]
  /\ Numbered

\* What a step makes of a table: it takes records away and adds at most
\* one, which has the next number.
TableStep(d) ==
  \/ lastRow' = lastRow /\ \E S \in SUBSET (rows[d] \cup saved[d]) : rows' = [rows EXCEPT ![d] = S]
  \/ /\ RoomForRow(d) /\ lastRow' = [lastRow EXCEPT ![d] = NewRow(d)]
     /\ \E S \in SUBSET (rows[d] \cup {NewRow(d)}) : rows' = [rows EXCEPT ![d] = S]

\* What any keyword does to the tables.
LEMMA StepOfTables ==
  ASSUME Inv, [Next]_vars
  PROVE  /\ UNCHANGED <<rows, lastRow>> \/ \E d \in Dbs : TableStep(d)
         /\ \/ UNCHANGED saved
            \/ \E d \in Dbs : saved' = [saved EXCEPT ![d] = {}] \/ saved' = [saved EXCEPT ![d] = rows[d]]
         /\ disk' \in [Dbs -> {"nofile", "notable", "table"}]
         /\ trans' \in [Dbs -> BOOLEAN]
<1> DEFINE G == /\ UNCHANGED <<rows, lastRow>> \/ \E d \in Dbs : TableStep(d)
                /\ \/ UNCHANGED saved
                   \/ \E d \in Dbs : saved' = [saved EXCEPT ![d] = {}] \/ saved' = [saved EXCEPT ![d] = rows[d]]
                /\ disk' \in [Dbs -> {"nofile", "notable", "table"}]
                /\ trans' \in [Dbs -> BOOLEAN]
<1>0. prog.files \subseteq Dbs
  BY ProgramsAssumption DEF ProgramsAssumption, Inv, TypeOK
<1>1. CASE UNCHANGED dbms
  BY <1>1 DEF dbms, Inv, TypeOK
<1>2. CASE UNCHANGED vars
  BY <1>1, <1>2 DEF vars
<1>3. ASSUME OpenCheckL PROVE cdb \in Dbs
  BY <1>3, CurrentFact
<1>4. ASSUME NEW d \in Dbs, NEW S \in SUBSET (rows[d] \cup saved[d]),
             rows' = [rows EXCEPT ![d] = S], UNCHANGED <<lastRow, saved>>,
             disk' = disk \/ disk' = [disk EXCEPT ![d] = "notable"],
             trans' = trans \/ trans' = [trans EXCEPT ![d] = FALSE]
      PROVE  G
  <2>1. TableStep(d)
    BY <1>4 DEF TableStep
  <2>2. disk' \in [Dbs -> {"nofile", "notable", "table"}] /\ trans' \in [Dbs -> BOOLEAN]
    BY <1>4 DEF Inv, TypeOK
  <2> QED BY <1>4, <2>1, <2>2
<1>5. ASSUME NEW d \in Dbs, RoomForRow(d), lastRow' = [lastRow EXCEPT ![d] = NewRow(d)],
             NEW S \in SUBSET (rows[d] \cup {NewRow(d)}), rows' = [rows EXCEPT ![d] = S],
             UNCHANGED <<disk, trans, saved>>
      PROVE  G
  <2>1. TableStep(d)
    BY <1>5 DEF TableStep
  <2> QED BY <1>5, <2>1 DEF Inv, TypeOK
<1>6. CASE OpFirst \/ OpLast \/ OpNext \/ OpBack \/ OpPosition \/ OpFind \/ OpFindField
  BY <1>1, <1>6 DEF OpFirst, OpLast, OpNext, OpBack, OpPosition, OpFind, OpFindField,
              Becomes, LeavesWith
<1>21. ASSUME NEW kw, NEW d \in prog.files, FailsCounted(kw, d)
       PROVE  UNCHANGED <<rows, lastRow, trans, saved>>
  BY <1>0, <1>21, FailedOpen
<1>7. CASE \E kw : OpenKeyword(kw)
  BY <1>1, <1>7, <1>21 DEF OpenKeyword, AddRowSet, Leaves, dbms
<1>8. CASE OpCreate
  <2>1. CASE UNCHANGED dbms
    BY <1>1, <2>1
  <2>2. CASE ~UNCHANGED dbms
    <3>1. PICK d \in prog.files :
            /\ UNCHANGED <<rows, lastRow, trans, saved>>
            /\ \E left \in {"notable", "table"} : disk' = [disk EXCEPT ![d] = left]
      BY <1>8, <1>21, <2>2 DEF OpCreate, AddRowSet, Leaves, dbms
    <3> QED BY <1>0, <3>1 DEF Inv, TypeOK
  <2> QED BY <2>1, <2>2
<1>9. CASE UseLog \/ OpLeftSide \/ OpAssign \/ OpBookmark \/ OpGotoMark \/ OpKillMark \/ NotOpen
  BY <1>1, <1>9 DEF UseLog, OpLeftSide, OpAssign, OpBookmark, OpGotoMark, OpKillMark, NotOpen,
              Leaves, Becomes
<1>10. CASE OpClose
  <2>1. PICK d \in Dbs : d = cdb
    BY <1>3, <1>10 DEF OpClose
  <2>2. PICK S : S = IF iOplDb[d] = 1 /\ trans[d] THEN saved[d] ELSE rows[d]
    OBVIOUS
  <2>3. /\ rows' = [rows EXCEPT ![d] = S] /\ UNCHANGED <<disk, lastRow, saved>>
        /\ trans' = trans \/ trans' = [trans EXCEPT ![d] = FALSE]
    <3>1. rows \in [Dbs -> SUBSET (1 .. MaxRow)]
      BY DEF Inv, TypeOK
    <3>2. CloseDbIfNotInUse(iOplDb, d) /\ disk' = disk
      BY <1>10, <2>1 DEF OpClose
    <3> QED BY <2>2, <3>1, <3>2 DEF CloseDbIfNotInUse
  <2>4. S \in SUBSET (rows[d] \cup saved[d])
    BY <2>2
  <2> QED BY <1>4, <2>3, <2>4
<1>11. CASE OpDeleteTable
  BY <1>0, <1>1, <1>4, <1>11 DEF OpDeleteTable, Leaves
<1>12. ASSUME OpenCheckL, NEW kw, NEW r, AddsRow(kw, r)
       PROVE  G
  <2>1. PICK d \in Dbs : d = cdb
    BY <1>3, <1>12
  <2>2. PICK S : S = rows[d] \cup {NewRow(d)}
    OBVIOUS
  <2>3. /\ RoomForRow(d) /\ lastRow' = [lastRow EXCEPT ![d] = NewRow(d)]
        /\ rows' = [rows EXCEPT ![d] = S] /\ UNCHANGED <<disk, trans, saved>>
    BY <1>12, <2>1, <2>2 DEF AddsRow
  <2> QED BY <1>5, <2>2, <2>3
<1>13. CASE OpAppend
  BY <1>1, <1>12, <1>13 DEF OpAppend, Leaves, LeavesWith, PutFails, WriteFails
<1>14. ASSUME OpenCheckL, NEW r, ReplacesRow(r)
       PROVE  G
  <2>1. PICK d \in Dbs : d = cdb
    BY <1>3, <1>14
  <2>2. PICK R : R = rows[d] \cup {NewRow(d)}
    OBVIOUS
  <2>3. \/ UNCHANGED dbms
        \/ /\ RoomForRow(d) /\ lastRow' = [lastRow EXCEPT ![d] = NewRow(d)]
           /\ \/ rows' = [rows EXCEPT ![d] = R]
              \/ rows' = [rows EXCEPT ![d] = R \ {r.before}]
           /\ UNCHANGED <<disk, trans, saved>>
    BY <1>14, <2>1, <2>2 DEF ReplacesRow, PutFails, WriteFails
  <2> QED BY <1>1, <1>5, <2>2, <2>3
<1>15. CASE OpUpdate
  BY <1>1, <1>14, <1>15 DEF OpUpdate, Leaves, LeavesWith, PutFails, WriteFails
<1>16. CASE OpModify \/ OpInsert \/ OpCancel
  BY <1>1, <1>16 DEF OpModify, OpInsert, OpCancel, Leaves, LeavesWith, Becomes
<1>17. CASE OpPut
  BY <1>1, <1>12, <1>17 DEF OpPut, Leaves, PutFails, WriteFails, Becomes
<1>18. CASE OpErase
  <2>1. PICK d \in Dbs : d = cdb
    BY <1>3, <1>18 DEF OpErase
  <2>2. PICK S : S = rows[d] \ {CancelIfUpdate(cr).cur}
    OBVIOUS
  <2>3. \/ UNCHANGED dbms
        \/ rows' = [rows EXCEPT ![d] = S] /\ UNCHANGED <<disk, lastRow, trans, saved>>
    BY <1>18, <2>1, <2>2 DEF OpErase, LeavesWith, WriteFails
  <2> QED BY <1>1, <1>4, <2>2, <2>3
<1>19. CASE OpBeginTrans \/ OpCommitTrans
  <2>1. CASE UNCHANGED dbms
    BY <1>1, <2>1
  <2>2. CASE ~UNCHANGED dbms
    <3>1. PICK d \in Dbs : d = cdb
      BY <1>3, <1>19 DEF OpBeginTrans, OpCommitTrans
    <3>2. /\ UNCHANGED <<disk, rows, lastRow>>
          /\ \/ /\ trans' = [trans EXCEPT ![d] = TRUE]
                /\ saved' = [saved EXCEPT ![d] = rows[d]]
             \/ /\ trans' = [trans EXCEPT ![d] = FALSE]
                /\ saved' = [saved EXCEPT ![d] = {}]
             \/ UNCHANGED <<trans, saved>>
      BY <1>19, <2>2, <3>1 DEF OpBeginTrans, OpCommitTrans, Leaves
    <3>3. trans' \in [Dbs -> BOOLEAN]
      BY <3>2 DEF Inv, TypeOK
    <3> QED BY <3>2, <3>3 DEF Inv, TypeOK
  <2> QED BY <2>1, <2>2
<1>20. CASE OpRollback
  <2>1. CASE UNCHANGED dbms
    BY <1>1, <2>1
  <2>2. CASE ~UNCHANGED dbms
    <3>1. PICK d \in Dbs : d = cdb
      BY <1>3, <1>20 DEF OpRollback
    <3>2. /\ UNCHANGED <<disk, lastRow>>
          /\ rows' = [rows EXCEPT ![d] = saved[d]]
          /\ trans' = [trans EXCEPT ![d] = FALSE] /\ saved' = [saved EXCEPT ![d] = {}]
      BY <1>20, <2>2, <3>1 DEF OpRollback, Leaves
    <3>3. TableStep(d)
      BY <3>2 DEF TableStep
    <3>4. trans' \in [Dbs -> BOOLEAN]
      BY <3>2 DEF Inv, TypeOK
    <3> QED BY <3>2, <3>3, <3>4 DEF Inv, TypeOK
  <2> QED BY <2>1, <2>2
<1> HIDE DEF G
<1> QED
  BY <1>2, <1>6, <1>7, <1>8, <1>9, <1>10, <1>11, <1>13, <1>15, <1>16, <1>17, <1>18, <1>19, <1>20
  DEF Next, Keyword, G

\* So the tables keep their types, and records the numbers given out.
LEMMA DbmsKept ==
  ASSUME Inv, [Next]_vars
  PROVE  DbmsOK'
<1>1. /\ rows \in [Dbs -> SUBSET (1 .. MaxRow)] /\ saved \in [Dbs -> SUBSET (1 .. MaxRow)]
      /\ lastRow \in [Dbs -> 0 .. MaxRow]
      /\ \A d \in Dbs : \A x \in rows[d] \cup saved[d] : x \in Nat /\ x <= lastRow[d]
  BY BoundsAssumption DEF Inv, TypeOK, Numbered
<1>2. /\ saved' \in [Dbs -> SUBSET (1 .. MaxRow)]
      /\ \A d \in Dbs : saved'[d] \subseteq rows[d] \cup saved[d]
  BY <1>1, StepOfTables
<1> DEFINE T ==
      /\ rows' \in [Dbs -> SUBSET (1 .. MaxRow)] /\ lastRow' \in [Dbs -> 0 .. MaxRow]
      /\ \A d \in Dbs : /\ rows'[d] \subseteq rows[d] \cup saved[d] \cup {lastRow'[d]}
                        /\ lastRow[d] <= lastRow'[d]
<1>3. T
  <2>1. CASE UNCHANGED <<rows, lastRow>>
    BY <1>1, <2>1
  <2>2. ASSUME NEW d \in Dbs, TableStep(d)
        PROVE  T
    <3>1. ASSUME NEW S \in SUBSET (1 .. MaxRow), rows' = [rows EXCEPT ![d] = S],
                 NEW k \in 0 .. MaxRow, lastRow' = [lastRow EXCEPT ![d] = k], lastRow[d] <= k,
                 S \subseteq rows[d] \cup saved[d] \cup {k}
          PROVE  T
      <4>1. rows' \in [Dbs -> SUBSET (1 .. MaxRow)] /\ lastRow' \in [Dbs -> 0 .. MaxRow]
        BY <1>1, <3>1
      <4>2. ASSUME NEW e \in Dbs
            PROVE  /\ rows'[e] \subseteq rows[e] \cup saved[e] \cup {lastRow'[e]}
                   /\ lastRow[e] <= lastRow'[e]
        <5>1. CASE e = d
          BY <1>1, <3>1, <5>1
        <5>2. CASE e # d
          <6>1. rows'[e] = rows[e] /\ lastRow'[e] = lastRow[e] /\ lastRow[e] \in Int
            BY <1>1, <3>1, <5>2
          <6> QED BY <6>1
        <5> QED BY <5>1, <5>2
      <4> QED BY <4>1, <4>2
    <3>2. /\ rows[d] \in SUBSET (1 .. MaxRow) /\ saved[d] \in SUBSET (1 .. MaxRow)
          /\ lastRow[d] \in 0 .. MaxRow /\ lastRow = [lastRow EXCEPT ![d] = lastRow[d]]
          /\ lastRow[d] <= lastRow[d]
      BY <1>1
    <3> HIDE DEF T
    <3>3. CASE lastRow' = lastRow /\ \E S \in SUBSET (rows[d] \cup saved[d]) : rows' = [rows EXCEPT ![d] = S]
      <4>1. PICK S \in SUBSET (rows[d] \cup saved[d]) : rows' = [rows EXCEPT ![d] = S]
        BY <3>3
      <4>2. S \in SUBSET (1 .. MaxRow) /\ lastRow' = [lastRow EXCEPT ![d] = lastRow[d]]
        BY <3>2, <3>3
      <4> QED BY <3>1, <3>2, <4>1, <4>2
    <3>4. CASE /\ RoomForRow(d) /\ lastRow' = [lastRow EXCEPT ![d] = NewRow(d)]
               /\ \E S \in SUBSET (rows[d] \cup {NewRow(d)}) : rows' = [rows EXCEPT ![d] = S]
      <4>1. PICK S \in SUBSET (rows[d] \cup {NewRow(d)}) : rows' = [rows EXCEPT ![d] = S]
        BY <3>4
      <4>2. NewRow(d) \in 1 .. MaxRow /\ lastRow[d] <= NewRow(d) /\ NewRow(d) \in 0 .. MaxRow
        <5>1. NewRow(d) \in 1 .. MaxRow /\ NewRow(d) = lastRow[d] + 1 /\ lastRow[d] \in Nat
          BY <3>4, RoomFact
        <5> QED BY <5>1
      <4>3. S \in SUBSET (1 .. MaxRow) /\ S \subseteq rows[d] \cup saved[d] \cup {NewRow(d)}
        BY <3>2, <4>2
      <4> QED BY <3>1, <3>4, <4>1, <4>2, <4>3
    <3> QED BY <2>2, <3>3, <3>4 DEF TableStep
  <2>3. UNCHANGED <<rows, lastRow>> \/ \E d \in Dbs : TableStep(d)
    BY StepOfTables
  <2> HIDE DEF T
  <2> QED BY <2>1, <2>2, <2>3
<1>4. Numbered'
  <2> SUFFICES ASSUME NEW d \in Dbs, NEW x \in rows'[d] \cup saved'[d]
               PROVE  x <= lastRow'[d]
    BY DEF Numbered
  <2>1. x \in rows[d] \cup saved[d] \/ x = lastRow'[d]
    BY <1>2, <1>3
  <2>2. lastRow[d] <= lastRow'[d] /\ lastRow[d] \in Nat /\ lastRow'[d] \in Nat
    BY <1>1, <1>3
  <2> QED BY <1>1, <2>1, <2>2
<1> QED BY <1>2, <1>3, <1>4, StepOfTables DEF DbmsOK

-----------------------------------------------------------------------------
(* The bookmarks, the stacked name and the record of the keyword.          *)
RestOK ==
  /\ iBookmarkArray \in Seq(Marks)
  /\ lhs \in Names \cup {None}
  /\ op \in [kw : Executed, err : BOOLEAN, name : Names \cup {None}, set : Names \cup {None}]

\* Bookmarks, the stacked name and what was executed keep their types.
LEMMA RestKept ==
  ASSUME Inv, [Next]_vars
  PROVE  RestOK'
<1>0. prog.names \subseteq Names
  BY ProgramsAssumption DEF ProgramsAssumption, Inv, TypeOK
<1>1. /\ iBookmarkArray \in Seq(Marks) /\ lhs \in Names \cup {None}
      /\ iCurrOplRowSet \in Names \cup {None} /\ iCurrLogName \in Names \cup {None}
      /\ op \in [kw : Executed, err : BOOLEAN, name : Names \cup {None}, set : Names \cup {None}]
  BY DEF Inv, TypeOK
<1>2. CASE UNCHANGED vars
  BY <1>1, <1>2 DEF vars, RestOK
<1>3. ASSUME NEW kw \in Executed, NEW n \in Names \cup {None}, NEW s \in Names \cup {None},
             Done(kw, n, s) \/ Left(kw, n),
             iBookmarkArray' = iBookmarkArray, lhs' \in Names \cup {None}
      PROVE  RestOK'
  <2>1. PICK b \in BOOLEAN, t \in Names \cup {None} : op' = [kw |-> kw, err |-> b, name |-> n, set |-> t]
    BY <1>3 DEF Done, Left
  <2>2. op' \in [kw : Executed, err : BOOLEAN, name : Names \cup {None}, set : Names \cup {None}]
    BY <1>3, <2>1
  <2> QED BY <1>1, <1>3, <2>2 DEF RestOK
<1>4. ASSUME NEW kw \in Executed, Leaves(kw) PROVE RestOK'
  BY <1>1, <1>3, <1>4 DEF Leaves
<1>5. ASSUME NEW kw \in Executed, NEW r, Becomes(kw, r) \/ LeavesWith(kw, r) PROVE RestOK'
  BY <1>1, <1>3, <1>5 DEF Becomes, LeavesWith
<1>6. ASSUME NEW kw \in Executed, NEW r, PutFails(kw, r) \/ AddsRow(kw, r) PROVE RestOK'
  BY <1>1, <1>3, <1>6 DEF PutFails, WriteFails, AddsRow
<1>7. CASE OpFirst \/ OpLast \/ OpNext \/ OpBack \/ OpPosition \/ OpFind \/ OpFindField
  BY <1>5, <1>7 DEF Executed, OpFirst, OpLast, OpNext, OpBack, OpPosition, OpFind, OpFindField
<1>8. ASSUME NEW kw \in Executed, NEW n \in prog.names, NEW d, AddRowSet(kw, n, d) PROVE RestOK'
  BY <1>0, <1>1, <1>3, <1>8 DEF AddRowSet
<1>22. ASSUME NEW kw \in Executed, NEW d, FailsCounted(kw, d) PROVE RestOK'
  BY <1>1, <1>3, <1>22 DEF FailsCounted
<1>9. ASSUME NEW kw \in Executed, OpenKeyword(kw) PROVE RestOK'
  BY <1>4, <1>8, <1>9, <1>22 DEF OpenKeyword
<1>10. CASE OpCreate
  BY <1>4, <1>8, <1>10, <1>22 DEF Executed, OpCreate
<1>11. CASE UseLog \/ OpClose \/ OpDeleteTable
  <2>1. \E n \in Names \cup {None} : \E kw \in {"USE", "CLOSE", "DELETE"} :
          Leaves(kw) \/ (Done(kw, n, None) /\ iBookmarkArray' = iBookmarkArray /\ lhs' = lhs)
    BY <1>0, <1>1, <1>11 DEF UseLog, OpClose, OpDeleteTable
  <2>2. \A kw \in {"USE", "CLOSE", "DELETE"} : kw \in Executed
    BY DEF Executed
  <2> QED BY <1>1, <1>3, <1>4, <2>1, <2>2
<1>12. CASE OpAppend \/ OpPut
  BY <1>4, <1>5, <1>6, <1>12 DEF Executed, OpAppend, OpPut
<1>13. ASSUME NEW r, ReplacesRow(r) PROVE RestOK'
  BY <1>1, <1>3, <1>6, <1>13 DEF Executed, ReplacesRow
<1>14. CASE OpUpdate
  BY <1>4, <1>5, <1>6, <1>13, <1>14 DEF Executed, OpUpdate
<1>15. CASE OpModify \/ OpInsert \/ OpGotoMark \/ NotOpen
  BY <1>4, <1>5, <1>15 DEF Executed, OpModify, OpInsert, OpGotoMark, NotOpen
<1>16. CASE OpCancel \/ OpErase
  BY <1>1, <1>3, <1>5, <1>16 DEF Executed, OpCancel, OpErase, WriteFails
<1>17. CASE OpBeginTrans \/ OpCommitTrans \/ OpRollback
  <2>1. \E kw \in {"BEGINTRANS", "COMMITTRANS", "ROLLBACK"} :
          Leaves(kw) \/ (Done(kw, iCurrOplRowSet, None) /\ iBookmarkArray' = iBookmarkArray /\ lhs' = lhs)
    BY <1>17 DEF OpBeginTrans, OpCommitTrans, OpRollback
  <2>2. \A kw \in {"BEGINTRANS", "COMMITTRANS", "ROLLBACK"} : kw \in Executed
    BY DEF Executed
  <2> QED BY <1>1, <1>3, <1>4, <2>1, <2>2
<1>18. CASE OpLeftSide
  BY <1>0, <1>1, <1>3, <1>4, <1>18 DEF Executed, OpLeftSide
<1>19. CASE OpAssign
  <2>1. lhs \in Names /\ lhs' \in Names \cup {None} /\ iBookmarkArray' = iBookmarkArray
    BY <1>1, <1>19 DEF OpAssign
  <2>2. \E s \in Names \cup {None} : Done("ASSIGN", lhs, s) \/ Left("ASSIGN", lhs)
    BY <1>1, <1>19 DEF OpAssign, PreAssign
  <2> QED BY <1>3, <2>1, <2>2 DEF Executed
<1>20. CASE OpBookmark
  <2>1. PICK mark : mark = [db |-> cdb, at |-> cr.cur, alive |-> TRUE]
    OBVIOUS
  <2>2. mark \in Marks
    <3>1. cdb \in Dbs /\ cr.cur \in Cursors
      BY <1>20, CurrentFact, FieldsFact DEF OpBookmark
    <3> QED BY <2>1, <3>1 DEF Marks
  <2>3. \/ iBookmarkArray' = Append(iBookmarkArray, mark)
        \/ \E i : iBookmarkArray' = [iBookmarkArray EXCEPT ![i] = mark]
    BY <1>20, <2>1 DEF OpBookmark
  <2>4. iBookmarkArray' \in Seq(Marks)
    BY <1>1, <2>2, <2>3
  <2>5. lhs' = lhs /\ Done("BOOKMARK", iCurrOplRowSet, None)
    BY <1>20 DEF OpBookmark
  <2> QED BY <1>1, <2>4, <2>5 DEF Done, RestOK, Executed
<1>21. CASE OpKillMark
  <2>1. CASE Leaves("KILLMARK")
    BY <1>4, <2>1 DEF Executed
  <2>2. CASE ~Leaves("KILLMARK")
    <3>1. PICK i \in DOMAIN iBookmarkArray :
            iBookmarkArray' = [iBookmarkArray EXCEPT ![i].alive = FALSE]
      BY <1>21, <2>2 DEF OpKillMark
    <3>2. PICK m : m = [iBookmarkArray[i] EXCEPT !.alive = FALSE]
      OBVIOUS
    <3>3. m \in Marks
      <4>1. iBookmarkArray[i] \in Marks
        BY <1>1, <3>1
      <4> QED BY <3>2, <4>1 DEF Marks
    <3>4. iBookmarkArray' = [iBookmarkArray EXCEPT ![i] = m]
      BY <3>1, <3>2
    <3>5. iBookmarkArray' \in Seq(Marks)
      BY <1>1, <3>3, <3>4
    <3>6. lhs' = lhs /\ Done("KILLMARK", iCurrOplRowSet, None)
      BY <1>21, <2>2 DEF OpKillMark
    <3> QED BY <1>1, <3>5, <3>6 DEF Done, RestOK, Executed
  <2> QED BY <2>1, <2>2
<1> QED
  BY <1>2, <1>7, <1>9, <1>10, <1>11, <1>12, <1>14, <1>15, <1>16, <1>17, <1>18, <1>19, <1>20, <1>21
  DEF Executed, Next, Keyword

\* A name has a row set exactly while it has a database.
LEMMA NamesKept ==
  ASSUME Inv, [Next]_vars
  PROVE  /\ iLogNames' \in [Names -> RowSets \cup {None}]
         /\ \A n \in Names : iLogNames'[n] = None <=> iParentDbase'[n] = None
<1>1. /\ iLogNames \in [Names -> RowSets \cup {None}]
      /\ iParentDbase \in [Names -> Dbs \cup {None}]
      /\ \A n \in Names : iLogNames[n] = None <=> iParentDbase[n] = None
  BY DEF Inv, TypeOK
<1>2. CASE iParentDbase' = iParentDbase /\ Viewing(iLogNames')
  BY <1>1, <1>2 DEF Viewing
<1>3. ASSUME NEW n \in Names, NEW d \in Dbs, NEW r \in RowSets,
             iLogNames' = [iLogNames EXCEPT ![n] = r],
             iParentDbase' = [iParentDbase EXCEPT ![n] = d]
      PROVE  /\ iLogNames' \in [Names -> RowSets \cup {None}]
             /\ \A m \in Names : iLogNames'[m] = None <=> iParentDbase'[m] = None
  BY <1>1, <1>3, NoneAssumption, NullAssumption DEF NoneAssumption, NullAssumption
<1>4. ASSUME NEW n \in Names,
             iLogNames' = [iLogNames EXCEPT ![n] = None],
             iParentDbase' = [iParentDbase EXCEPT ![n] = None]
      PROVE  /\ iLogNames' \in [Names -> RowSets \cup {None}]
             /\ \A m \in Names : iLogNames'[m] = None <=> iParentDbase'[m] = None
  BY <1>1, <1>4
<1> QED BY <1>2, <1>3, <1>4, StepOfNames DEF NamesStep

\* What a keyword does to a transaction and to the counts: BEGINTRANS is for
\* the current row set's database, and the last CLOSE ends the transaction.
LEMMA StepKeepsTrans ==
  ASSUME Inv, [Next]_vars
  PROVE  OpenInTrans'
<1>0. /\ prog.names \subseteq Names /\ prog.files \subseteq Dbs
      /\ iOplDb \in [Dbs -> Nat] /\ trans \in [Dbs -> BOOLEAN]
      /\ \A d \in Dbs : trans[d] => iOplDb[d] > 0
  BY ProgramsAssumption DEF ProgramsAssumption, Inv, TypeOK, OpenInTrans
<1>1. CASE UNCHANGED <<trans, iOplDb>>
  BY <1>0, <1>1 DEF OpenInTrans
<1>2. CASE UNCHANGED vars
  BY <1>1, <1>2 DEF vars, dbms, names, views
<1>3. ASSUME NEW kw, Leaves(kw) PROVE OpenInTrans'
  BY <1>1, <1>3 DEF Leaves, dbms, names, views
<1>4. ASSUME NEW kw, NEW r, Becomes(kw, r) \/ LeavesWith(kw, r) \/ PutFails(kw, r) PROVE OpenInTrans'
  BY <1>1, <1>4 DEF Becomes, LeavesWith, PutFails, WriteFails, dbms, views
<1>5. ASSUME NEW kw, NEW r, AddsRow(kw, r) PROVE OpenInTrans'
  BY <1>1, <1>5 DEF AddsRow, views
<1>6. ASSUME NEW r, ReplacesRow(r) PROVE OpenInTrans'
  <2>1. CASE PutFails("UPDATE", r)
    BY <1>4, <2>1
  <2>2. CASE ~PutFails("UPDATE", r)
    BY <1>1, <1>6, <2>2 DEF ReplacesRow, views
  <2> QED BY <2>1, <2>2
<1>7. CASE OpFirst \/ OpLast \/ OpNext \/ OpBack \/ OpPosition \/ OpFind \/ OpFindField
  BY <1>4, <1>7 DEF OpFirst, OpLast, OpNext, OpBack, OpPosition, OpFind, OpFindField
<1>8. ASSUME NEW kw, NEW n \in prog.names, NEW d \in prog.files, AddRowSet(kw, n, d)
      PROVE  OpenInTrans'
  <2>1. trans' = trans /\ iOplDb' = [iOplDb EXCEPT ![d] = iOplDb[d] + 1] /\ d \in Dbs
    BY <1>0, <1>8 DEF AddRowSet, Counted
  <2>2. \A e \in Dbs : iOplDb'[e] = iOplDb[e] \/ iOplDb'[e] = iOplDb[e] + 1
    BY <1>0, <2>1
  <2> QED BY <1>0, <2>1, <2>2 DEF OpenInTrans
<1>9. ASSUME NEW kw, NEW d \in prog.files, FailsCounted(kw, d)
      PROVE  OpenInTrans'
  BY <1>0, <1>1, <1>9, FailedOpen DEF names, views
<1>10. CASE \E kw : OpenKeyword(kw)
  BY <1>3, <1>8, <1>9, <1>10 DEF OpenKeyword
<1>11. CASE OpCreate
  BY <1>3, <1>8, <1>9, <1>11 DEF OpCreate
<1>12. CASE OpClose
  <2>1. PICK d : d = cdb /\ CloseDbIfNotInUse(iOplDb, d)
    BY <1>12 DEF OpClose
  <2>2. d \in Dbs
    BY <1>12, <2>1, CurrentFact DEF OpClose
  <2>3. /\ iOplDb' = [iOplDb EXCEPT ![d] = iOplDb[d] - 1]
        /\ iOplDb[d] = 1 => trans' = [trans EXCEPT ![d] = FALSE]
        /\ iOplDb[d] # 1 => trans' = trans
    BY <2>1 DEF CloseDbIfNotInUse
  <2>4. SUFFICES ASSUME NEW e \in Dbs, trans'[e] PROVE iOplDb'[e] > 0
    BY DEF OpenInTrans
  <2>5. trans[e] /\ (e = d => iOplDb[d] # 1)
    BY <1>0, <2>2, <2>3, <2>4
  <2>6. iOplDb[e] \in Nat /\ iOplDb[e] > 0
    BY <1>0, <2>5
  <2>7. iOplDb'[e] = IF e = d THEN iOplDb[e] - 1 ELSE iOplDb[e]
    BY <1>0, <2>2, <2>3
  <2> QED BY <2>5, <2>6, <2>7
<1>13. CASE OpAppend \/ OpPut
  BY <1>3, <1>4, <1>5, <1>13 DEF OpAppend, OpPut
<1>14. CASE OpUpdate
  BY <1>3, <1>4, <1>6, <1>14 DEF OpUpdate
<1>15. CASE OpModify \/ OpInsert \/ OpGotoMark
  BY <1>3, <1>4, <1>15 DEF OpModify, OpInsert, OpGotoMark
<1>16. CASE OpCancel \/ OpErase
  BY <1>1, <1>4, <1>16 DEF OpCancel, OpErase, WriteFails, dbms, views
<1>17. CASE UseLog \/ OpDeleteTable \/ OpLeftSide \/ OpAssign \/ OpBookmark \/ OpKillMark \/ NotOpen
  BY <1>1, <1>3, <1>17 DEF UseLog, OpDeleteTable, OpLeftSide, OpAssign, OpBookmark, OpKillMark, NotOpen,
                          dbms, names, views
<1>18. CASE OpBeginTrans \/ OpCommitTrans \/ OpRollback
  <2>1. PICK d \in Dbs : d = cdb
    BY <1>18, CurrentFact DEF OpBeginTrans, OpCommitTrans, OpRollback
  <2>2. iOplDb[d] > 0
    <3>1. iCurrOplRowSet \in Names /\ iParentDbase[iCurrOplRowSet] = d
      BY <1>18, <2>1, CurrentFact DEF OpBeginTrans, OpCommitTrans, OpRollback, cdb
    <3>2. On(d) \in SUBSET Names /\ On(d) # {}
      BY <3>1 DEF On
    <3>3. iOplDb[d] = Cardinality(On(d))
      BY DEF Inv, ViewsInv, AccessCountsExact, On
    <3>4. Cardinality(On(d)) \in Nat /\ Cardinality(On(d)) # 0
      BY <3>2, NamesFinite, NamesAssumption
    <3> QED BY <3>3, <3>4
  <2>3. iOplDb' = iOplDb /\ \E b \in BOOLEAN : trans' = trans \/ trans' = [trans EXCEPT ![d] = b]
    BY <1>18, <2>1 DEF OpBeginTrans, OpCommitTrans, OpRollback, Leaves, dbms, names, views
  <2>4. \A e \in Dbs : e # d => trans'[e] = trans[e]
    BY <1>0, <2>3
  <2> QED BY <1>0, <2>2, <2>3, <2>4 DEF OpenInTrans
<1> QED
  BY <1>2, <1>7, <1>10, <1>11, <1>12, <1>13, <1>14, <1>15, <1>16, <1>17, <1>18 DEF Next, Keyword

\* Inv is inductive.
LEMMA StepKeepsTypes ==
  ASSUME Inv, [Next]_vars
  PROVE  Inv'
<1>1. prog' \in Programs /\ ViewsInv'
  BY ProgramKept, StepKeepsInv, NamesAssumption, NoneAssumption, ProgramsAssumption DEF Inv, TypeOK
<1>2. DbmsOK' /\ RestOK'
  BY DbmsKept, RestKept
<1>3. iCount' \in Nat /\ iCurrOplRowSet' \in Names \cup {None}
  <2>1. iCount' = Cardinality(OpenNames') /\ iCurrOplRowSet' = iCurrLogName'
    BY <1>1 DEF ViewsInv, CurrentIsOpen, OpenNames
  <2>2. OpenNames' \in SUBSET Names
    BY DEF OpenNames
  <2>3. Cardinality(OpenNames') \in Nat
    BY <2>2, NamesFinite, NamesAssumption
  <2> QED BY <1>1, <2>1, <2>3 DEF ViewsInv
<1> QED BY <1>1, <1>2, <1>3, NamesKept, StepKeepsTrans DEF Inv, TypeOK, ViewsInv, DbmsOK, RestOK

\* Inv holds in every reachable state of every program.
LEMMA InvAlways == Spec => []Inv
<1>1. Init => Inv
  <2>1. ASSUME Init PROVE TypeOK
    <3>1. prog \in Programs /\ iCount \in Nat /\ iCurrLogName \in Names \cup {None}
          /\ iCurrOplRowSet \in Names \cup {None} /\ lhs \in Names \cup {None}
      BY <2>1 DEF Init
    <3>2. DbmsOK
      BY <2>1, BoundsAssumption DEF Init, DbmsOK, Numbered, BoundsAssumption
    <3>3. RestOK
      BY <2>1 DEF Init, RestOK, Executed
    <3>4. /\ iLogNames \in [Names -> RowSets \cup {None}]
          /\ iParentDbase \in [Names -> Dbs \cup {None}]
          /\ \A n \in Names : iLogNames[n] = None <=> iParentDbase[n] = None
          /\ iOplDb \in [Dbs -> Nat]
      BY <2>1 DEF Init
    <3> QED BY <3>1, <3>2, <3>3, <3>4 DEF TypeOK, DbmsOK, RestOK
  <2>2. ASSUME Init PROVE Numbered /\ OpenInTrans
    BY <2>2 DEF Init, Numbered, OpenInTrans
  <2> QED BY <2>1, <2>2, StartsInv, NamesAssumption, NoneAssumption DEF Inv
<1>2. Inv /\ [Next]_vars => Inv'
  BY StepKeepsTypes
<1> QED BY <1>1, <1>2, PTL DEF Spec

\* Types, for every program: a name has a row set exactly while it has a
\* database, every cursor and every mark is a record, the beginning or the
\* end, and the records stay in their bounds, through every keyword of
\* LB_DBASE.CPP, the rollback of a transaction and the close included.
THEOREM DatabaseTypes == Spec => []TypeOK
<1>1. Inv => TypeOK
  BY DEF Inv
<1> QED BY <1>1, InvAlways, PTL

-----------------------------------------------------------------------------
(* Records.                                                                *)
KeepsRecords ==
  \A d \in Dbs :
       /\ op'.err => rows[d] \subseteq rows'[d]
       /\ ~(rows[d] \subseteq rows'[d]) =>
            op'.kw \in {"ERASE", "UPDATE", "ROLLBACK", "DELETE", "CLOSE"}
       /\ op'.kw = "UPDATE" /\ ~op'.err => Cardinality(rows'[d]) = Cardinality(rows[d])

\* Which keyword may remove records, and how many.
LEMMA StepKeepsRecords ==
  ASSUME Inv, [Next]_vars
  PROVE  KeepsRecords
<1>0. rows \in [Dbs -> SUBSET (1 .. MaxRow)]
  BY DEF Inv, TypeOK
<1>1. CASE UNCHANGED rows
  BY <1>1 DEF KeepsRecords
<1>2. CASE UNCHANGED vars
  BY <1>1, <1>2 DEF vars, dbms
<1>3. ASSUME OpenCheckL PROVE cdb \in Dbs
  BY <1>3, CurrentFact
<1>4. ASSUME NEW kw \in {"ERASE", "ROLLBACK", "DELETE", "CLOSE"}, NEW n, Done(kw, n, None)
      PROVE  KeepsRecords
  BY <1>4 DEF Done, KeepsRecords
<1>5. ASSUME NEW kw, Leaves(kw) PROVE KeepsRecords
  BY <1>1, <1>5 DEF Leaves, dbms
<1>6. ASSUME NEW kw, NEW r, Becomes(kw, r) \/ LeavesWith(kw, r) \/ PutFails(kw, r) PROVE KeepsRecords
  BY <1>1, <1>6 DEF Becomes, LeavesWith, PutFails, WriteFails, dbms
<1>7. ASSUME OpenCheckL, NEW kw \in {"APPEND", "PUT"}, NEW r, AddsRow(kw, r) PROVE KeepsRecords
  <2>1. PICK d \in Dbs : d = cdb
    BY <1>3, <1>7
  <2>2. rows' = [rows EXCEPT ![d] = rows[d] \cup {NewRow(d)}] /\ op'.kw # "UPDATE"
    BY <1>7, <2>1 DEF AddsRow, Done
  <2>3. \A e \in Dbs : rows[e] \subseteq rows'[e]
    BY <1>0, <2>2
  <2> QED BY <2>2, <2>3 DEF KeepsRecords
<1>8. CASE OpFirst \/ OpLast \/ OpNext \/ OpBack \/ OpPosition \/ OpFind \/ OpFindField
  BY <1>6, <1>8 DEF OpFirst, OpLast, OpNext, OpBack, OpPosition, OpFind, OpFindField
<1>19. ASSUME NEW kw, NEW d \in prog.files, FailsCounted(kw, d) PROVE UNCHANGED rows
  BY <1>19, FailedOpen, ProgramsAssumption DEF ProgramsAssumption, Inv, TypeOK
<1>9. CASE \E kw : OpenKeyword(kw)
  BY <1>1, <1>5, <1>9, <1>19 DEF OpenKeyword, AddRowSet
<1>10. CASE OpCreate \/ UseLog \/ OpLeftSide \/ OpAssign \/ OpBookmark \/ OpKillMark \/ NotOpen
  BY <1>1, <1>5, <1>10, <1>19 DEF OpCreate, AddRowSet, UseLog, OpLeftSide, OpAssign, OpBookmark, OpKillMark,
                    NotOpen, dbms
<1>11. CASE OpClose
  BY <1>4, <1>11 DEF OpClose
<1>12. CASE OpDeleteTable
  BY <1>4, <1>5, <1>12 DEF OpDeleteTable
<1>13. CASE OpAppend \/ OpPut
  BY <1>5, <1>6, <1>7, <1>13 DEF OpAppend, OpPut
<1>14. ASSUME OpenCheckL, NEW r, ReplacesRow(r) PROVE KeepsRecords
  <2>1. PICK d \in Dbs : d = cdb
    BY <1>3, <1>14
  <2>2. PICK R : R = rows[d] \cup {NewRow(d)}
    OBVIOUS
  <2>3. \/ PutFails("UPDATE", r)
        \/ rows' = [rows EXCEPT ![d] = R] /\ op'.err
        \/ /\ RoomForRow(d) /\ r.before \in R
           /\ rows' = [rows EXCEPT ![d] = R \ {r.before}]
           /\ op'.err = FALSE /\ op'.kw = "UPDATE"
    BY <1>14, <2>1, <2>2 DEF ReplacesRow, Done, Left
  <2>4. CASE rows' = [rows EXCEPT ![d] = R] /\ op'.err
    BY <1>0, <2>2, <2>4 DEF KeepsRecords
  <2>5. CASE /\ RoomForRow(d) /\ r.before \in R
             /\ rows' = [rows EXCEPT ![d] = R \ {r.before}]
             /\ op'.err = FALSE /\ op'.kw = "UPDATE"
    <3>1. rows[d] \in SUBSET (1 .. MaxRow) /\ rows[d] \in SUBSET rows[d]
      BY <1>0
    <3>2. NewRow(d) \notin rows[d]
      BY <2>5, RoomFact
    <3>3. IsFiniteSet(rows[d]) /\ Cardinality(rows[d]) \in Nat
      BY <3>1, RowsFact
    <3>4. Cardinality(R) = Cardinality(rows[d]) + 1 /\ IsFiniteSet(R)
      BY <2>2, <3>2, <3>3, FS_AddElement
    <3>5. Cardinality(R \ {r.before}) = Cardinality(R) - 1
      BY <2>5, <3>4, FS_RemoveElement
    <3>6. \A e \in Dbs : Cardinality(rows'[e]) = Cardinality(rows[e])
      <4>1. Cardinality(rows'[d]) = Cardinality(rows[d])
        BY <1>0, <2>5, <3>3, <3>4, <3>5
      <4>2. \A e \in Dbs : e # d => rows'[e] = rows[e]
        BY <1>0, <2>5
      <4> QED BY <4>1, <4>2
    <3> QED BY <2>5, <3>6 DEF KeepsRecords
  <2> QED BY <1>6, <2>3, <2>4, <2>5
<1>15. CASE OpUpdate
  BY <1>5, <1>6, <1>14, <1>15 DEF OpUpdate
<1>16. CASE OpModify \/ OpInsert \/ OpGotoMark
  BY <1>5, <1>6, <1>16 DEF OpModify, OpInsert, OpGotoMark
<1>17. CASE OpCancel \/ OpErase
  BY <1>1, <1>4, <1>6, <1>17 DEF OpCancel, OpErase, WriteFails, dbms
<1>18. CASE OpBeginTrans \/ OpCommitTrans \/ OpRollback
  BY <1>1, <1>4, <1>5, <1>18 DEF OpBeginTrans, OpCommitTrans, OpRollback
<1> QED
  BY <1>2, <1>8, <1>9, <1>10, <1>11, <1>12, <1>13, <1>15, <1>16, <1>17, <1>18 DEF Next, Keyword

\* The table a keyword changes is the current row set's, or one that is
\* not open.
Apart(d) ==
  rows'[d] # rows[d] =>
    \/ OpenCheckL /\ d = cdb
    \/ op'.kw = "DELETE" /\ \A n \in Names : iParentDbase[n] # d
OwnTable == \A d \in Dbs : Apart(d)

\* Which table a keyword may change.
LEMMA StepKeepsToItself ==
  ASSUME Inv, [Next]_vars
  PROVE  OwnTable
<1>0. rows \in [Dbs -> SUBSET (1 .. MaxRow)]
  BY DEF Inv, TypeOK
<1>1. CASE rows' = rows
  BY <1>1 DEF OwnTable, Apart
<1>2. CASE UNCHANGED vars
  BY <1>1, <1>2 DEF vars, dbms
<1>3. ASSUME OpenCheckL, NEW R, rows' = [rows EXCEPT ![cdb] = R] PROVE OwnTable
  <2>1. \A d \in Dbs : d # cdb => rows'[d] = rows[d]
    BY <1>0, <1>3
  <2> QED BY <1>3, <2>1 DEF OwnTable, Apart
<1>4. ASSUME NEW kw, Leaves(kw) PROVE OwnTable
  BY <1>1, <1>4 DEF Leaves, dbms
<1>5. ASSUME NEW kw, NEW r, Becomes(kw, r) \/ LeavesWith(kw, r) \/ PutFails(kw, r) PROVE OwnTable
  BY <1>1, <1>5 DEF Becomes, LeavesWith, PutFails, WriteFails, dbms
<1>6. ASSUME OpenCheckL, NEW kw, NEW r, AddsRow(kw, r) PROVE OwnTable
  BY <1>3, <1>6 DEF AddsRow
<1>7. ASSUME OpenCheckL, NEW r, ReplacesRow(r) PROVE OwnTable
  <2>1. PutFails("UPDATE", r) \/ \E R : rows' = [rows EXCEPT ![cdb] = R]
    BY <1>7 DEF ReplacesRow
  <2> QED BY <1>3, <1>5, <1>7, <2>1
<1>8. CASE OpFirst \/ OpLast \/ OpNext \/ OpBack \/ OpPosition \/ OpFind \/ OpFindField
  <2>1. \E kw, r : Becomes(kw, r) \/ LeavesWith(kw, r)
    <3>1. OpFirst \/ OpLast \/ OpNext => \E kw, r : Becomes(kw, r) \/ LeavesWith(kw, r)
      BY Zenon DEF OpFirst, OpLast, OpNext
    <3>2. OpBack \/ OpPosition => \E kw, r : Becomes(kw, r) \/ LeavesWith(kw, r)
      BY Zenon DEF OpBack, OpPosition
    <3>3. OpFind \/ OpFindField => \E kw, r : Becomes(kw, r) \/ LeavesWith(kw, r)
      BY Zenon DEF OpFind, OpFindField
    <3> QED BY <1>8, <3>1, <3>2, <3>3
  <2> QED BY <1>5, <2>1
<1>18. ASSUME NEW kw, NEW d \in prog.files, FailsCounted(kw, d) PROVE UNCHANGED rows
  BY <1>18, FailedOpen, ProgramsAssumption DEF ProgramsAssumption, Inv, TypeOK
<1>9. CASE \E kw : OpenKeyword(kw)
  BY <1>1, <1>4, <1>9, <1>18 DEF OpenKeyword, AddRowSet
<1>10. CASE OpCreate \/ UseLog \/ OpLeftSide \/ OpAssign \/ OpBookmark \/ OpKillMark \/ NotOpen
  BY <1>1, <1>4, <1>10, <1>18 DEF OpCreate, AddRowSet, UseLog, OpLeftSide, OpAssign, OpBookmark, OpKillMark,
                    NotOpen, dbms
<1>11. CASE OpClose
  BY <1>1, <1>3, <1>11 DEF OpClose, CloseDbIfNotInUse
<1>12. CASE OpDeleteTable
  <2>1. PICK d \in prog.files : \/ Leaves("DELETE")
                               \/ /\ iOplDb[d] = 0 /\ op'.kw = "DELETE"
                                  /\ rows' = [rows EXCEPT ![d] = {}]
    BY <1>12 DEF OpDeleteTable, Done
  <2>2. CASE iOplDb[d] = 0 /\ op'.kw = "DELETE" /\ rows' = [rows EXCEPT ![d] = {}]
    <3>1. d \in Dbs
      BY ProgramsAssumption DEF ProgramsAssumption, Inv, TypeOK
    <3>2. On(d) = {}
      <4>1. Cardinality(On(d)) = 0
        BY <2>2, <3>1 DEF On, Inv, ViewsInv, AccessCountsExact
      <4>2. IsFiniteSet(On(d))
        BY NamesAssumption, FS_Subset DEF On
      <4> QED BY <4>1, <4>2, FS_EmptySet
    <3>3. \A n \in Names : iParentDbase[n] # d
      BY <3>2 DEF On
    <3>4. \A e \in Dbs : e # d => rows'[e] = rows[e]
      BY <1>0, <2>2
    <3> QED BY <2>2, <3>3, <3>4 DEF OwnTable, Apart
  <2> QED BY <1>4, <2>1, <2>2
<1>13. CASE OpAppend \/ OpPut
  BY <1>4, <1>5, <1>6, <1>13 DEF OpAppend, OpPut
<1>14. CASE OpUpdate
  BY <1>4, <1>5, <1>7, <1>14 DEF OpUpdate
<1>15. CASE OpModify \/ OpInsert \/ OpGotoMark
  BY <1>4, <1>5, <1>15 DEF OpModify, OpInsert, OpGotoMark
<1>16. CASE OpCancel \/ OpErase
  BY <1>1, <1>3, <1>5, <1>16 DEF OpCancel, OpErase, WriteFails, dbms
<1>17. CASE OpBeginTrans \/ OpCommitTrans \/ OpRollback
  BY <1>1, <1>3, <1>4, <1>17 DEF OpBeginTrans, OpCommitTrans, OpRollback
<1> QED
  BY <1>2, <1>8, <1>9, <1>10, <1>11, <1>12, <1>13, <1>14, <1>15, <1>16, <1>17 DEF Next, Keyword

\* No keyword that leaves loses a record (LB_DBASE.CPP: SafelyPutL,
\* SafetyDeleteL and UpdateL put the new record before they delete the old
\* one), none touches the table of another name's database, DELETE none
\* that is open, and UPDATE keeps their number.
THEOREM RecordsKept == Spec => NoRecordLost
<1> DEFINE A ==
      \A d \in Dbs :
        /\ rows'[d] # rows[d] =>
             \/ OpenCheckL /\ d = cdb
             \/ op'.kw = "DELETE" /\ \A n \in Names : iParentDbase[n] # d
        /\ op'.err => rows[d] \subseteq rows'[d]
        /\ ~(rows[d] \subseteq rows'[d]) =>
             op'.kw \in {"ERASE", "UPDATE", "ROLLBACK", "DELETE", "CLOSE"}
        /\ op'.kw = "UPDATE" /\ ~op'.err => Cardinality(rows'[d]) = Cardinality(rows[d])
<1>1. Inv /\ [Next]_vars => [A]_vars
  BY StepKeepsRecords, StepKeepsToItself DEF KeepsRecords, OwnTable, Apart
<1> QED BY <1>1, InvAlways, PTL DEF Spec, NoRecordLost

-----------------------------------------------------------------------------
(* Record buffers.                                                         *)
\* A row set that is accountable stays so.
Tame(r, q) == q.pend = "none" \/ (q.aou # q.moi) \/ (q.pend = r.pend /\ q.aou = r.aou /\ q.moi = r.moi)
KeepsModes(L) == \A n \in Names : Accountable(iLogNames[n]) => Accountable(L[n])

\* A tame change of the current row set keeps every buffer in its mode.
LEMMA TameKeeps ==
  ASSUME Inv, OpenCheckL, NEW r \in RowSets, Tame(cr, r)
  PROVE  KeepsModes([iLogNames EXCEPT ![iCurrOplRowSet] = r])
<1>1. iLogNames \in [Names -> RowSets \cup {None}] /\ iCurrOplRowSet \in Names
      /\ cr = iLogNames[iCurrOplRowSet] /\ cr # None
  BY CurrentFact DEF Inv, TypeOK
<1>2. Accountable(cr) => Accountable(r)
  BY <1>1 DEF Accountable, Tame
<1> QED BY <1>1, <1>2 DEF KeepsModes

\* Nor does a rollback start a record in any view.
LEMMA ResetKeepsModes ==
  ASSUME NEW L, Viewing(L), KeepsModes(L), NEW d, NEW R, NEW reset
  PROVE  KeepsModes(ResetRelatedViews(L, d, R)) /\ KeepsModes(Rolled(L, d, R, reset))
<1>1. \A r \in RowSets : ResetView(r, R).pend = "none"
  BY DEF ResetView, RowSets
<1>2. \A n \in Names : ResetRelatedViews(L, d, R)[n] \in {None, L[n]}
                       \/ (L[n] # None /\ ResetRelatedViews(L, d, R)[n] = ResetView(L[n], R))
  BY DEF ResetRelatedViews
<1>3. \A n \in Names : L[n] # None => L[n] \in RowSets
  BY DEF Viewing
<1>4. KeepsModes(ResetRelatedViews(L, d, R))
  <2> SUFFICES ASSUME NEW n \in Names, Accountable(iLogNames[n])
               PROVE  Accountable(ResetRelatedViews(L, d, R)[n])
    BY DEF KeepsModes
  <2>1. Accountable(L[n]) /\ Accountable(None)
    BY DEF KeepsModes, Accountable
  <2>2. L[n] # None => Accountable(ResetView(L[n], R))
    BY <1>1, <1>3 DEF Accountable
  <2> QED BY <1>2, <2>1, <2>2
<1> QED BY <1>4 DEF Rolled

\* Nor a write that fails: Cancel() empties the buffer.
LEMMA CancelledKeepsModes ==
  ASSUME Inv, OpenCheckL, NEW r \in RowSets, NEW reset
  PROVE  /\ KeepsModes(Cancelled([iLogNames EXCEPT ![iCurrOplRowSet] = r], reset))
         /\ KeepsModes(Cancelled(iLogNames, reset))
<1> PICK c : c = iCurrOplRowSet
  OBVIOUS
<1>1. c \in Names /\ cr = iLogNames[c] /\ cr \in RowSets /\ iLogNames[c] # None /\ cR \in SUBSET (1 .. MaxRow)
      /\ Viewing(iLogNames) /\ iLogNames \in [Names -> RowSets \cup {None}]
  BY CurrentFact DEF Inv, TypeOK
<1>2. ASSUME NEW q \in RowSets, NEW L, L = [iLogNames EXCEPT ![c] = q]
      PROVE  KeepsModes(Cancelled(L, reset))
  <2>1. PICK s : s = [q EXCEPT !.pend = "none"]
    OBVIOUS
  <2>2. s \in RowSets /\ s.pend = "none"
    BY <2>1 DEF RowSets
  <2>3. PICK K : K = [iLogNames EXCEPT ![c] = s]
    OBVIOUS
  <2>4. [L EXCEPT ![c].pend = "none"] = K
    BY <1>1, <1>2, <2>1, <2>3
  <2>5. Viewing(K)
    BY <1>1, <2>2, <2>3, ViewingSet
  <2>6. KeepsModes(K) /\ K[c] = s
    <3>1. Tame(cr, s)
      BY <2>2 DEF Tame
    <3> QED BY <1>1, <2>2, <2>3, <3>1, TameKeeps
  <2>7. PICK M : M = Rolled(K, cdb, cR, reset)
    OBVIOUS
  <2>8. Viewing(M) /\ KeepsModes(M)
    BY <1>1, <2>5, <2>6, <2>7, ViewingRolled, ResetKeepsModes
  <2>9. M[c] \in RowSets /\ M[c].pend = "none"
    <3>1. M = K \/ M = ResetRelatedViews(K, cdb, cR)
      BY <2>7 DEF Rolled
    <3>2. ResetRelatedViews(K, cdb, cR)[c] \in {s, ResetView(s, cR)}
      BY <1>1, <2>2, <2>6, NullAssumption DEF ResetRelatedViews, NullAssumption
    <3>3. ResetView(s, cR).pend = "none"
      BY <2>2 DEF ResetView, RowSets
    <3>4. M[c] \in RowSets
      BY <1>1, <2>8 DEF Viewing
    <3> QED BY <2>2, <2>6, <3>1, <3>2, <3>3, <3>4
  <2>10. Cancelled(L, reset) = [M EXCEPT ![c].aou = FALSE, ![c].moi = FALSE, ![c].ins = FALSE]
    BY <2>4, <2>7 DEF Cancelled
  <2>11. PICK t : t = [M[c] EXCEPT !.aou = FALSE, !.moi = FALSE, !.ins = FALSE]
    OBVIOUS
  <2>12. Accountable(t)
    <3>1. t.pend = "none"
      BY <2>9, <2>11 DEF RowSets
    <3> QED BY <3>1 DEF Accountable
  <2>13. Cancelled(L, reset) = [M EXCEPT ![c] = t]
    BY <1>1, <2>8, <2>10, <2>11 DEF Viewing
  <2>14. \A n \in Names : [M EXCEPT ![c] = t][n] = IF n = c THEN t ELSE M[n]
    BY <1>1, <2>8 DEF Viewing
  <2> QED BY <2>8, <2>12, <2>13, <2>14 DEF KeepsModes
<1>3. iLogNames = [iLogNames EXCEPT ![c] = cr]
  BY <1>1
<1> QED BY <1>1, <1>2, <1>3

\* Moves are tame.
LEMMA MovesTame ==
  ASSUME NEW r \in RowSets, cR \in SUBSET (1 .. MaxRow)
  PROVE  /\ Tame(r, CancelIfUpdate(r)) /\ Tame(r, FirstL(r)) /\ Tame(r, NextL(r))
         /\ Tame(r, LastL(r)) /\ Tame(r, BackL(r))
         /\ \A wanted : Tame(r, PositionL(r, wanted))
         /\ \A M, forward, fromEnd : Tame(r, FindFieldL(r, M, forward, fromEnd))
         /\ \A R : LastIn(R, r).pend = r.pend /\ LastIn(R, r).aou = r.aou /\ LastIn(R, r).moi = r.moi
<1>1. Tame(r, CancelIfUpdate(r))
  BY DEF Tame, CancelIfUpdate, RowSets
<1>2. \A q \in RowSets : FirstL(q).pend = "none"
  BY DEF FirstL, RowSets
<1>3. Tame(r, NextL(r))
  BY DEF Tame, NextL, RowSets
<1>4. \A R : LastIn(R, r).pend = r.pend /\ LastIn(R, r).aou = r.aou /\ LastIn(R, r).moi = r.moi
  BY DEF LastIn, RowSets
<1>5. Tame(r, BackL(r))
  <2>1. PICK b : b = IF r.cur = Begin THEN r ELSE [r EXCEPT !.cur = PrevOf(cR, @), !.pos = @ - 1]
    OBVIOUS
  <2>2. b.pend = r.pend /\ b.aou = r.aou /\ b.moi = r.moi
    BY <2>1 DEF RowSets
  <2>3. BackL(r) = IF b.cur = Begin THEN FirstL(b) ELSE b
    BY <2>1 DEF BackL
  <2>4. FirstL(b).pend = "none"
    <3>1. b = r \/ b = [r EXCEPT !.cur = PrevOf(cR, @), !.pos = @ - 1]
      BY <2>1
    <3> QED BY <3>1 DEF FirstL, RowSets
  <2> QED BY <2>2, <2>3, <2>4 DEF Tame
<1>6. ASSUME NEW wanted PROVE Tame(r, PositionL(r, wanted))
  <2>1. \E c, p : PositionL(r, wanted) = [r EXCEPT !.cur = c, !.pos = p]
    BY Zenon DEF PositionL
  <2> QED BY <2>1 DEF Tame, RowSets
<1>7. ASSUME NEW M, NEW forward, NEW fromEnd PROVE Tame(r, FindFieldL(r, M, forward, fromEnd))
  <2>1. PICK s : s = IF forward THEN IF fromEnd THEN FirstL(r) ELSE r
                     ELSE IF fromEnd \/ ~AtRow(r) THEN LastL(r) ELSE r
    OBVIOUS
  <2>2. s \in RowSets /\ (s.pend = "none" \/ (s.pend = r.pend /\ s.aou = r.aou /\ s.moi = r.moi))
    BY <1>2, <1>4, <2>1, MovesTyped DEF LastL
  <2>3. \/ \E p : FindFieldL(r, M, forward, fromEnd) = [s EXCEPT !.pos = p]
        \/ \E c, p : FindFieldL(r, M, forward, fromEnd) = [s EXCEPT !.cur = c, !.pos = p]
        \/ FindFieldL(r, M, forward, fromEnd) = FirstL(s)
    <3>1. PICK t : t = Found(cR, s.cur, M, forward)
      OBVIOUS
    <3>2. FindFieldL(r, M, forward, fromEnd) =
            IF forward /\ ~AtRow(s) THEN [s EXCEPT !.pos = Count + 1]
            ELSE IF t = End THEN [s EXCEPT !.cur = End, !.pos = Count + 1]
            ELSE IF t = Begin THEN FirstL(s)
            ELSE [s EXCEPT !.cur = t,
                           !.pos = s.pos + (IF forward THEN 1 ELSE -1) * Between(cR, s.cur, t)]
      BY <2>1, <3>1, Zenon DEF FindFieldL
    <3> QED BY <3>2, Zenon
  <2> QED BY <1>2, <2>2, <2>3 DEF Tame, RowSets
<1> QED BY <1>1, <1>2, <1>3, <1>4, <1>5, <1>6, <1>7 DEF LastL, Tame

Excused == op'.kw = "APPEND" /\ op'.err

\* A keyword keeps every buffer in its mode, or is an APPEND that leaves.
LEMMA StepKeepsModes ==
  ASSUME Inv, [Next]_vars
  PROVE  KeepsModes(iLogNames') \/ Excused
<1> DEFINE G == KeepsModes(iLogNames') \/ Excused
<1>0. prog.names \subseteq Names
  BY ProgramsAssumption DEF ProgramsAssumption, Inv, TypeOK
<1>1. /\ iLogNames \in [Names -> RowSets \cup {None}] /\ Viewing(iLogNames) /\ KeepsModes(iLogNames)
      /\ lhs \in Names \cup {None}
  BY DEF Viewing, KeepsModes, Inv, TypeOK
<1>2. CASE UNCHANGED iLogNames
  BY <1>2 DEF KeepsModes
<1>3. CASE UNCHANGED vars
  BY <1>2, <1>3 DEF vars, names
<1>4. ASSUME NEW kw, Leaves(kw) PROVE G
  BY <1>2, <1>4 DEF Leaves, names
<1>5. ASSUME OpenCheckL, NEW r \in RowSets, Tame(cr, r), SetCurrent(r) PROVE G
  BY <1>5, TameKeeps DEF SetCurrent
<1>6. ASSUME OpenCheckL, NEW r \in RowSets, Tame(cr, r), NEW kw,
             Becomes(kw, r) \/ LeavesWith(kw, r)
      PROVE  G
  BY <1>5, <1>6 DEF Becomes, LeavesWith
<1>7. ASSUME OpenCheckL, NEW kw, NEW r \in RowSets, PutFails(kw, r) PROVE G
  BY <1>7, CancelledKeepsModes DEF PutFails, WriteFails
<1>8. ASSUME OpenCheckL
      PROVE  /\ cr \in RowSets /\ cdb \in Dbs /\ cR \in SUBSET (1 .. MaxRow) /\ cR = rows[cdb]
             /\ rows[cdb] \in SUBSET (1 .. MaxRow) /\ Count \in Int
  BY <1>8, CurrentFact
<1>9. ASSUME OpenCheckL, NEW kw, NEW r \in RowSets, AddsRow(kw, r) PROVE G
  <2>1. PICK q : q = [r EXCEPT !.pend = "none", !.cur = NewRow(cdb), !.pos = Count + 1]
    OBVIOUS
  <2>2. NewRow(cdb) \in Cursors /\ Count + 1 \in Int
    BY <1>8, <1>9, RoomFact DEF AddsRow
  <2>3. q \in RowSets
    BY <2>1, <2>2, WritesTyped
  <2>4. Tame(cr, q)
    BY <2>1 DEF Tame, RowSets
  <2> QED BY <1>5, <1>9, <2>1, <2>3, <2>4 DEF AddsRow
<1>10. ASSUME OpenCheckL, NEW r \in RowSets, Tame(CancelIfUpdate(cr), r) PROVE Tame(cr, r)
  BY <1>8, <1>10, MovesTame DEF Tame
<1>11. ASSUME OpenCheckL PROVE CancelIfUpdate(cr) \in RowSets
  BY <1>8, <1>11, MovesTyped
<1>12. CASE OpFirst \/ OpLast \/ OpNext \/ OpBack
  <2>1. PICK u : u = CancelIfUpdate(cr)
    OBVIOUS
  <2>2. OpenCheckL /\ u \in RowSets /\ cR \in SUBSET (1 .. MaxRow)
    BY <1>8, <1>11, <1>12, <2>1 DEF OpFirst, OpLast, OpNext, OpBack
  <2>3. /\ FirstL(u) \in RowSets /\ LastL(u) \in RowSets /\ NextL(u) \in RowSets /\ BackL(u) \in RowSets
        /\ Tame(u, FirstL(u)) /\ Tame(u, LastL(u)) /\ Tame(u, NextL(u)) /\ Tame(u, BackL(u))
    BY <2>2, MovesTyped, MovesTame
  <2>4. PICK kw, r : r \in {FirstL(u), LastL(u), NextL(u), BackL(u)} /\ Becomes(kw, r)
    BY <1>12, <2>1 DEF OpFirst, OpLast, OpNext, OpBack
  <2> QED BY <1>6, <1>10, <2>1, <2>2, <2>3, <2>4
<1>13. CASE OpPosition
  <2>1. PICK u : u = CancelIfUpdate(cr)
    OBVIOUS
  <2>2. PICK wanted \in 0 .. End : Becomes("POSITION", PositionL(u, wanted)) /\ OpenCheckL
    BY <1>13, <2>1 DEF OpPosition
  <2>3. u \in RowSets /\ cR \in SUBSET (1 .. MaxRow)
    BY <1>8, <1>11, <2>1, <2>2
  <2>4. PositionL(u, wanted) \in RowSets /\ Tame(u, PositionL(u, wanted))
    BY <2>2, <2>3, SearchesTyped, MovesTame
  <2> QED BY <1>6, <1>10, <2>1, <2>2, <2>4
<1>14. CASE OpFind
  <2>1. PICK r : r = CancelIfUpdate(cr)
    OBVIOUS
  <2>2. OpenCheckL /\ r \in RowSets
    BY <1>11, <1>14, <2>1 DEF OpFind
  <2>3. PICK q : /\ Becomes("FIND", q) \/ LeavesWith("FIND", q)
                 /\ q = r \/ (\E p : q = [r EXCEPT !.pos = p]) \/ (\E c, p : q = [r EXCEPT !.cur = c, !.pos = p])
    BY <1>14, <2>1, ZenonT(40) DEF OpFind
  <2>4. q.pend = r.pend /\ q.aou = r.aou /\ q.moi = r.moi
    BY <2>2, <2>3 DEF RowSets
  <2>5. Tame(cr, q)
    <3>1. Tame(cr, r)
      BY <1>8, <2>1, <2>2, MovesTame
    <3> QED BY <2>4, <3>1 DEF Tame
  <2>6. Accountable(cr) => Accountable(q)
    <3>1. cr # None
      BY <1>8, <2>2, NullAssumption DEF NullAssumption
    <3> QED BY <2>5, <3>1 DEF Tame, Accountable
  <2>7. iLogNames' = [iLogNames EXCEPT ![iCurrOplRowSet] = q] /\ iCurrOplRowSet \in Names
        /\ cr = iLogNames[iCurrOplRowSet]
    BY <2>2, <2>3, CurrentFact DEF Becomes, LeavesWith, SetCurrent
  <2> QED BY <1>1, <2>6, <2>7 DEF KeepsModes
<1>15. CASE OpFindField
  <2>1. PICK u : u = CancelIfUpdate(cr)
    OBVIOUS
  <2>2. OpenCheckL /\ u \in RowSets /\ cR \in SUBSET (1 .. MaxRow) /\ Tame(cr, u)
    BY <1>8, <1>11, <1>15, <2>1, MovesTame DEF OpFindField
  <2>3. CASE LeavesWith("FINDFIELD", u)
    BY <1>6, <2>2, <2>3
  <2>4. ASSUME NEW M, NEW forward \in BOOLEAN, NEW fromEnd \in BOOLEAN,
               Becomes("FINDFIELD", FindFieldL(u, M, forward, fromEnd))
        PROVE  G
    <3>1. FindFieldL(u, M, forward, fromEnd) \in RowSets /\ Tame(u, FindFieldL(u, M, forward, fromEnd))
      BY <2>2, SearchesTyped, MovesTame
    <3> QED BY <1>6, <1>10, <2>1, <2>2, <2>4, <3>1
  <2> QED BY <1>15, <2>1, <2>3, <2>4 DEF OpFindField
<1>16. ASSUME NEW kw, NEW n \in prog.names, NEW d, AddRowSet(kw, n, d) PROVE G
  <2>1. PICK r : r = NewRowSet(kw # "OPENR", rows[d])
    OBVIOUS
  <2>2. PICK q : q = [r EXCEPT !.cur = Begin, !.pos = 0]
    OBVIOUS
  <2>3. iLogNames' = [iLogNames EXCEPT ![n] = r] \/ iLogNames' = [iLogNames EXCEPT ![n] = q]
    BY <1>16, <2>1, <2>2 DEF AddRowSet
  <2>4. Accountable(r) /\ Accountable(q)
    BY <2>1, <2>2 DEF NewRowSet, Accountable
  <2> QED BY <1>1, <2>3, <2>4 DEF KeepsModes
<1>31. ASSUME NEW kw, NEW d, FailsCounted(kw, d) PROVE G
  BY <1>2, <1>31 DEF FailsCounted
<1>17. CASE \E kw : OpenKeyword(kw)
  BY <1>4, <1>16, <1>17, <1>31 DEF OpenKeyword
<1>18. CASE OpCreate
  BY <1>4, <1>16, <1>18, <1>31 DEF OpCreate
<1>19. CASE UseLog \/ OpDeleteTable \/ OpLeftSide \/ OpBookmark \/ OpKillMark \/ NotOpen
            \/ OpBeginTrans \/ OpCommitTrans
  BY <1>2, <1>4, <1>19 DEF UseLog, OpDeleteTable, OpLeftSide, OpBookmark, OpKillMark, NotOpen,
                          OpBeginTrans, OpCommitTrans, names
<1>20. CASE OpClose
  <2>1. iLogNames' = [iLogNames EXCEPT ![iCurrLogName] = None]
    BY <1>20 DEF OpClose
  <2> QED BY <1>1, <2>1 DEF KeepsModes, Accountable
<1>21. CASE OpAppend
  <2>0. OpenCheckL /\ cr \in RowSets
    BY <1>8, <1>21 DEF OpAppend
  <2>1. PICK r : r = [cr EXCEPT !.aou = FALSE, !.absent = FALSE]
    OBVIOUS
  <2>2. PICK s : s = [cr EXCEPT !.pend = "insert"]
    OBVIOUS
  <2>3. r \in RowSets /\ s \in RowSets /\ Remember(cr) \in RowSets /\ CopyCurrRowToEnd(cr) \in RowSets
    BY <2>0, <2>1, <2>2, WritesTyped
  <2>4. \/ Leaves("APPEND") \/ PutFails("APPEND", r) \/ AddsRow("APPEND", r)
        \/ LeavesWith("APPEND", Remember(cr)) \/ PutFails("APPEND", CopyCurrRowToEnd(cr))
        \/ AddsRow("APPEND", CopyCurrRowToEnd(cr)) \/ AddsRow("APPEND", s) \/ LeavesWith("APPEND", s)
    BY <1>21, <2>1, <2>2, Zenon DEF OpAppend
  <2>5. Tame(cr, Remember(cr))
    BY <2>0 DEF Tame, Remember, RowSets
  <2>6. LeavesWith("APPEND", s) => Excused
    BY DEF LeavesWith, Left, Excused
  <2> QED BY <1>4, <1>6, <1>7, <1>9, <2>0, <2>3, <2>4, <2>5, <2>6
<1>22. ASSUME OpenCheckL, NEW r \in RowSets, ReplacesRow(r) PROVE G
  <2>1. CASE PutFails("UPDATE", r)
    BY <1>7, <1>22, <2>1
  <2>2. CASE ~PutFails("UPDATE", r)
    <3>0. PICK d : d = cdb
      OBVIOUS
    <3>1. PICK R : R = rows[d] \cup {NewRow(d)}
      OBVIOUS
    <3>2. PICK put : put = [r EXCEPT !.pend = "none", !.cur = NewRow(d)]
      OBVIOUS
    <3>3. PICK back : back = [put EXCEPT !.cur = r.before]
      OBVIOUS
    <3>4. PICK S : S = R \ {r.before}
      OBVIOUS
    <3>5. /\ RoomForRow(d)
          /\ \/ SetCurrent(put)
             \/ \E reset \in BOOLEAN :
                   iLogNames' = Rolled([iLogNames EXCEPT ![iCurrOplRowSet] = back], d, R, reset)
             \/ SetCurrent(LastIn(S, back))
      BY <1>22, <2>2, <3>0, <3>1, <3>2, <3>3, <3>4 DEF ReplacesRow
    <3>6. NewRow(d) \in 1 .. MaxRow /\ NewRow(d) \in Cursors /\ d \in Dbs /\ rows[d] \in SUBSET (1 .. MaxRow)
      BY <1>8, <1>22, <3>0, <3>5, RoomFact
    <3>7. R \in SUBSET (1 .. MaxRow) /\ S \in SUBSET (1 .. MaxRow)
      BY <3>1, <3>4, <3>6
    <3>8. put \in RowSets
      BY <3>2, <3>6, WritesTyped
    <3>9. back \in RowSets
      BY <3>3, <3>8, FieldsFact, WritesTyped
    <3>10. LastIn(S, back) \in RowSets
      BY <1>8, <1>22, <3>7, <3>9, MovesTyped
    <3>11. put.pend = "none" /\ back.pend = "none"
      BY <3>2, <3>3 DEF RowSets
    <3>12. LastIn(S, back).pend = "none"
      BY <1>8, <1>22, <3>9, <3>11, MovesTame
    <3>13. Tame(cr, put) /\ Tame(cr, back) /\ Tame(cr, LastIn(S, back))
      BY <3>11, <3>12 DEF Tame
    <3>14. ASSUME NEW reset, iLogNames' = Rolled([iLogNames EXCEPT ![iCurrOplRowSet] = back], d, R, reset)
           PROVE  G
      <4>1. PICK K : K = [iLogNames EXCEPT ![iCurrOplRowSet] = back]
        OBVIOUS
      <4>2. Viewing(K) /\ KeepsModes(K)
        BY <1>22, <3>9, <3>13, <4>1, SetsCurrent, TameKeeps
      <4> QED BY <3>14, <4>1, <4>2, ResetKeepsModes
    <3> HIDE DEF G
    <3> QED BY <1>5, <1>22, <3>5, <3>8, <3>10, <3>13, <3>14
  <2> QED BY <2>1, <2>2
<1>23. CASE OpUpdate
  <2>0. OpenCheckL /\ cr \in RowSets
    BY <1>8, <1>23 DEF OpUpdate
  <2>1. PICK r : r = [cr EXCEPT !.aou = FALSE]
    OBVIOUS
  <2>2. PICK s : s = [cr EXCEPT !.aou = FALSE, !.absent = FALSE, !.pend = "none"]
    OBVIOUS
  <2>3. r \in RowSets /\ s \in RowSets /\ Remember(cr) \in RowSets /\ CopyCurrRowToEnd(cr) \in RowSets
    BY <2>0, <2>1, <2>2, WritesTyped
  <2>4. \/ Leaves("UPDATE") \/ LeavesWith("UPDATE", s) \/ ReplacesRow(r) \/ PutFails("UPDATE", r)
        \/ LeavesWith("UPDATE", Remember(cr)) \/ ReplacesRow(CopyCurrRowToEnd(cr))
    BY <1>23, <2>1, <2>2, Zenon DEF OpUpdate
  <2>5. Tame(cr, Remember(cr)) /\ Tame(cr, s)
    BY <2>0, <2>2 DEF Tame, Remember, RowSets
  <2> QED BY <1>4, <1>6, <1>7, <1>22, <2>0, <2>3, <2>4, <2>5
<1>24. CASE OpModify \/ OpInsert
  <2>0. OpenCheckL /\ cr \in RowSets
    BY <1>8, <1>24 DEF OpModify, OpInsert
  <2>1. PICK r : r = [cr EXCEPT !.moi = TRUE, !.pend = "update"]
    OBVIOUS
  <2>2. PICK s : s = [cr EXCEPT !.moi = TRUE]
    OBVIOUS
  <2>3. PICK t : t = [cr EXCEPT !.moi = TRUE, !.ins = TRUE, !.pend = "insert"]
    OBVIOUS
  <2>4. r \in RowSets /\ s \in RowSets /\ t \in RowSets
    BY <2>0, <2>1, <2>2, <2>3, WritesTyped
  <2>5. \/ Leaves("MODIFY") \/ Leaves("INSERT")
        \/ ~InEitherMode(cr) /\ (Becomes("MODIFY", r) \/ LeavesWith("MODIFY", s) \/ Becomes("INSERT", t))
    BY <1>24, <2>1, <2>2, <2>3, Zenon DEF OpModify, OpInsert
  <2>6. ~InEitherMode(cr) => Tame(cr, r) /\ Tame(cr, s) /\ Tame(cr, t)
    BY <2>0, <2>1, <2>2, <2>3 DEF Tame, InEitherMode, RowSets
  <2> QED BY <1>4, <1>6, <2>0, <2>4, <2>5, <2>6
<1>25. CASE OpPut
  <2>0. OpenCheckL /\ cr \in RowSets
    BY <1>8, <1>25 DEF OpPut
  <2>1. PICK r : r = [cr EXCEPT !.moi = FALSE, !.ins = FALSE]
    OBVIOUS
  <2>2. PICK p : p = IF cr.ins THEN Count ELSE r.pos
    OBVIOUS
  <2>3. r \in RowSets
    BY <2>0, <2>1, WritesTyped
  <2>4. PICK q : q = [r EXCEPT !.pend = "none", !.pos = p]
    OBVIOUS
  <2>5. q \in RowSets /\ q.pend = "none"
    <3>1. p \in Int
      BY <1>8, <2>0, <2>2, <2>3, FieldsFact
    <3>2. q \in RowSets
      BY <2>3, <2>4, <3>1, WritesTyped
    <3> QED BY <2>3, <2>4, <3>2 DEF RowSets
  <2>6. \/ Leaves("PUT") \/ PutFails("PUT", cr) \/ AddsRow("PUT", r) \/ Becomes("PUT", q)
    BY <1>25, <2>1, <2>2, <2>4 DEF OpPut
  <2> QED BY <1>4, <1>6, <1>7, <1>9, <2>0, <2>3, <2>5, <2>6 DEF Tame
<1>26. CASE OpCancel
  BY <1>8, <1>26, CancelledKeepsModes DEF OpCancel
<1>27. CASE OpErase
  <2>1. PICK r : r = CancelIfUpdate(cr)
    OBVIOUS
  <2>2. OpenCheckL /\ r \in RowSets /\ Tame(cr, r) /\ cdb \in Dbs /\ rows[cdb] \in SUBSET (1 .. MaxRow)
    BY <1>8, <1>11, <1>27, <2>1, MovesTame DEF OpErase
  <2>3. PICK R : R = rows[cdb] \ {r.cur}
    OBVIOUS
  <2>4. PICK q : q = [r EXCEPT !.cur = NextOf(R, r.cur)]
    OBVIOUS
  <2>5. \/ LeavesWith("ERASE", r)
        \/ \E reset \in BOOLEAN :
             iLogNames' = Rolled([iLogNames EXCEPT ![iCurrOplRowSet] = r], cdb, rows[cdb], reset)
        \/ SetCurrent(q)
    BY <1>27, <2>1, <2>3, <2>4 DEF OpErase, WriteFails
  <2>6. q \in RowSets
    <3>1. R \in SUBSET (1 .. MaxRow)
      BY <2>2, <2>3
    <3>2. NextOf(R, r.cur) \in Cursors
      BY <2>2, <3>1, EndsFact
    <3> QED BY <2>2, <2>4, <3>2, WritesTyped
  <2>7. Tame(cr, q)
    BY <2>2, <2>4 DEF Tame, RowSets
  <2>8. ASSUME NEW reset, iLogNames' = Rolled([iLogNames EXCEPT ![iCurrOplRowSet] = r], cdb, rows[cdb], reset)
        PROVE  G
    <3>1. PICK K : K = [iLogNames EXCEPT ![iCurrOplRowSet] = r]
      OBVIOUS
    <3>2. Viewing(K) /\ KeepsModes(K)
      BY <2>2, <3>1, SetsCurrent, TameKeeps
    <3> QED BY <2>8, <3>1, <3>2, ResetKeepsModes
  <2> QED BY <1>5, <1>6, <2>2, <2>5, <2>6, <2>7, <2>8
<1>28. CASE OpAssign
  <2>1. CASE UNCHANGED iLogNames
    BY <1>2, <2>1
  <2>2. CASE ~UNCHANGED iLogNames
    <3>1. PICK r : r = iLogNames[lhs]
      OBVIOUS
    <3>2. PICK R : R = rows[iParentDbase[lhs]]
      OBVIOUS
    <3>3. /\ r # None /\ ~r.moi /\ lhs \in Names
          /\ \/ iLogNames' = [iLogNames EXCEPT ![lhs] = PrepareForUpdate(r, R)]
             \/ iLogNames' = [iLogNames EXCEPT ![lhs] = FailsToPrepare(r, R)]
      BY <1>1, <1>28, <2>2, <3>1, <3>2 DEF OpAssign, PreAssign
    <3>4. r \in RowSets
      BY <1>1, <3>1, <3>3
    <3>5. PICK b : b = (r.absent \/ R = {})
      OBVIOUS
    <3>6. PICK a : a = [r EXCEPT !.absent = b]
      OBVIOUS
    <3>11. a = NotesAbsence(r, R)
      BY <3>5, <3>6, Zenon DEF NotesAbsence
    <3>12. Accountable(r) => Accountable(FailsToPrepare(r, R))
      <4>1. FailsToPrepare(r, R) = Remember(a) \/ FailsToPrepare(r, R) = a
        BY <3>11 DEF FailsToPrepare
      <4>2. PICK q : q = FailsToPrepare(r, R)
        OBVIOUS
      <4>3. q.pend = r.pend /\ q.aou = r.aou /\ q.moi = r.moi
        BY <3>4, <3>6, <4>1, <4>2 DEF Remember, RowSets
      <4> QED BY <3>3, <4>2, <4>3 DEF Accountable
    <3>7. PICK q : q = IF r.cur \in R THEN CopyCurrRowToEnd(a) ELSE [a EXCEPT !.pend = "insert"]
      OBVIOUS
    <3>8. PrepareForUpdate(r, R) = [q EXCEPT !.aou = TRUE]
      BY <3>7, <3>11, Zenon DEF PrepareForUpdate
    <3>9. [q EXCEPT !.aou = TRUE].aou = TRUE /\ [q EXCEPT !.aou = TRUE].moi = FALSE
      BY <3>3, <3>4, <3>6, <3>7 DEF CopyCurrRowToEnd, Remember, RowSets
    <3>10. Accountable([q EXCEPT !.aou = TRUE])
      BY <3>9 DEF Accountable
    <3> QED BY <1>1, <3>1, <3>3, <3>8, <3>10, <3>12 DEF KeepsModes
  <2> QED BY <2>1, <2>2
<1>29. CASE OpGotoMark
  <2>1. OpenCheckL /\ cr \in RowSets
    BY <1>8, <1>29 DEF OpGotoMark
  <2>2. \/ Leaves("GOTOMARK")
        \/ \E i \in DOMAIN iBookmarkArray : Becomes("GOTOMARK", [cr EXCEPT !.cur = iBookmarkArray[i].at])
    BY <1>29 DEF OpGotoMark
  <2>3. \A i \in DOMAIN iBookmarkArray : iBookmarkArray[i].at \in Cursors
    <3>1. iBookmarkArray \in Seq(Marks)
      BY DEF Inv, TypeOK
    <3>2. \A i \in DOMAIN iBookmarkArray : iBookmarkArray[i] \in Marks
      BY <3>1
    <3>3. \A m \in Marks : m.at \in Cursors
      BY DEF Marks
    <3> QED BY <3>2, <3>3
  <2>4. \A c \in Cursors : [cr EXCEPT !.cur = c] \in RowSets /\ Tame(cr, [cr EXCEPT !.cur = c])
    <3>1. \A c \in Cursors : [cr EXCEPT !.cur = c] \in RowSets
      BY <2>1, WritesTyped
    <3>2. \A c \in Cursors : Tame(cr, [cr EXCEPT !.cur = c])
      BY <2>1 DEF Tame, RowSets
    <3> QED BY <3>1, <3>2
  <2> QED BY <1>4, <1>6, <2>1, <2>2, <2>3, <2>4
<1>30. CASE OpRollback
  <2>1. \/ Leaves("ROLLBACK")
        \/ iLogNames' = ResetRelatedViews(iLogNames, cdb, saved[cdb])
    BY <1>30 DEF OpRollback
  <2> QED BY <1>1, <1>4, <2>1, ResetKeepsModes
<1> QED
  BY <1>3, <1>12, <1>13, <1>14, <1>15, <1>17, <1>18, <1>19, <1>20, <1>21, <1>23, <1>24, <1>25,
     <1>26, <1>27, <1>28, <1>29, <1>30 DEF Next, Keyword

\* No keyword leaves a half-made record behind without one of the two
\* modes that put it or cancel it (CancelIfUpdate, Cancel, PrepareForUpdate,
\* SafelyPutL), but for the APPEND whose InsertBlankL fails.
THEOREM BuffersAccountable == Spec => BuffersKeepTheirMode
<1> DEFINE A == \A n \in Names : Accountable(iLogNames[n]) =>
                  Accountable(iLogNames'[n]) \/ (op'.kw = "APPEND" /\ op'.err)
<1>1. Inv /\ [Next]_vars => [A]_vars
  BY StepKeepsModes DEF KeepsModes, Excused
<1> QED BY <1>1, InvAlways, PTL DEF Spec, BuffersKeepTheirMode

-----------------------------------------------------------------------------
(* POS.                                                                    *)
LEMMA FirstIndex ==
  ASSUME NEW R \in SUBSET (1 .. MaxRow)
  PROVE  /\ NextOf(R, Begin) \in R \cup {End} /\ Index(R, NextOf(R, Begin)) = 1
         /\ NextOf(R, Begin) = End => R = {}
<1>1. Begin \in Int /\ End \in Nat /\ \A x \in R : x \in Nat /\ Begin < x /\ x < End
  BY RowsFact, CursorFact
<1>2. Upto(R, Begin) = {}
  <2>1. \A x \in R : ~(x <= Begin)
    BY <1>1
  <2> QED BY <2>1 DEF Upto
<1>3. Cardinality(Upto(R, Begin)) = 0
  BY <1>2, FS_EmptySet
<1>4. Index(R, NextOf(R, Begin)) = 1
  BY <1>1, <1>3, NextIndex
<1>5. \A x \in R : x >= NextOf(R, Begin)
  BY <1>1, NextCursor
<1>6. NextOf(R, Begin) = End => R = {}
  BY <1>1, <1>5
<1> QED BY <1>1, <1>4, <1>6, NextCursor

\* What LAST makes of a row set on the records R.
LEMMA LastAgrees ==
  ASSUME NEW R \in SUBSET (1 .. MaxRow), NEW r \in RowSets
  PROVE  Agrees(LastIn(R, r), R) /\ (R # {} => LastIn(R, r).cur \in R)
<1> PICK f : f = NextOf(R, Begin)
  OBVIOUS
<1> PICK e : e = PrevOf(R, End)
  OBVIOUS
<1> PICK n : n = Cardinality(R)
  OBVIOUS
<1>1. LastIn(R, r) = IF e = Begin THEN [r EXCEPT !.cur = f, !.pos = 1]
                     ELSE [r EXCEPT !.cur = e, !.pos = n]
  BY Zenon DEF LastIn
<1>2. f \in R \cup {End} /\ Index(R, f) = 1
  BY FirstIndex
<1>3. n \in Nat /\ Index(R, End) = n + 1 /\ End \in Int
  <2>1. R \in SUBSET R
    OBVIOUS
  <2> QED BY <2>1, RowsFact, EndIndex, CursorFact
<1>4. e \in R \cup {Begin} /\ (e \in R => Index(R, e) = n) /\ (e = Begin <=> n = 0)
  <2>1. e \in R \cup {Begin} /\ (e \in R => Index(R, e) = Index(R, End) - 1) /\ (e = Begin <=> Index(R, End) = 1)
    BY <1>3, PrevCursor, PrevIndex
  <2>2. (n + 1) - 1 = n /\ (n + 1 = 1 <=> n = 0)
    BY <1>3
  <2> QED BY <1>3, <2>1, <2>2
<1>5. n = 0 <=> R = {}
  <2>1. R \in SUBSET R
    OBVIOUS
  <2> QED BY <2>1, RowsFact
<1>6. CASE e = Begin
  <2>1. LastIn(R, r).cur = f /\ LastIn(R, r).pos = 1
    BY <1>1, <1>6 DEF RowSets
  <2> QED BY <1>2, <1>4, <1>5, <1>6, <2>1 DEF Agrees
<1>7. CASE e # Begin
  <2>1. LastIn(R, r).cur = e /\ LastIn(R, r).pos = n
    BY <1>1, <1>7 DEF RowSets
  <2> QED BY <1>4, <1>7, <2>1 DEF Agrees
<1> QED BY <1>6, <1>7

\* FIRST, NEXT and BACK.
LEMMA FirstAgrees ==
  ASSUME cR \in SUBSET (1 .. MaxRow), NEW r \in RowSets
  PROVE  Agrees(FirstL(r), cR)
<1> PICK f : f = NextOf(cR, Begin)
  OBVIOUS
<1>1. FirstL(r).cur = f /\ FirstL(r).pos = 1
  BY DEF FirstL, RowSets
<1> QED BY <1>1, FirstIndex DEF Agrees

\* NEXT and BACK keep POS with the cursor, at both ends too.
LEMMA StepAgrees ==
  ASSUME cR \in SUBSET (1 .. MaxRow), NEW r \in RowSets, Agrees(r, cR)
  PROVE  Agrees(NextL(r), cR) /\ Agrees(BackL(r), cR)
<1> PICK R : R = cR
  OBVIOUS
<1>0. R \in SUBSET (1 .. MaxRow)
  OBVIOUS
<1>1. r.cur \in R \cup {End} /\ r.cur \in Int /\ r.pos = Index(R, r.cur) /\ r.pos \in Int
  BY FieldsFact DEF Agrees
<1>2. Agrees(NextL(r), R)
  <2>1. CASE r.cur = End
    <3>1. NextL(r) = r
      BY <2>1 DEF NextL, EOF
    <3> QED BY <3>1
  <2>2. CASE r.cur # End
    <3>1. PICK c : c = NextOf(R, r.cur)
      OBVIOUS
    <3>2. PICK p : p = r.pos + 1
      OBVIOUS
    <3>3. NextL(r) = [r EXCEPT !.cur = c, !.pos = p, !.pend = "none"]
      BY <2>2, <3>1, <3>2 DEF NextL, EOF
    <3>4. NextL(r).cur = c /\ NextL(r).pos = p
      BY <3>3 DEF RowSets
    <3>5. c \in R \cup {End} /\ Index(R, c) = Cardinality(Upto(R, r.cur)) + 1
      BY <1>0, <1>1, <3>1, NextCursor, NextIndex
    <3>6. Cardinality(Upto(R, r.cur)) = r.pos
      BY <1>0, <1>1, <2>2, UptoIndex
    <3> QED BY <3>2, <3>4, <3>5, <3>6 DEF Agrees
  <2> QED BY <2>1, <2>2
<1>3. Agrees(BackL(r), R)
  <2>1. r.cur # Begin
    <3>1. End # Begin /\ Begin \notin R
      BY <1>0, RowsFact, CursorFact
    <3> QED BY <1>1, <3>1
  <2>2. PICK c : c = PrevOf(R, r.cur)
    OBVIOUS
  <2>3. PICK p : p = r.pos - 1
    OBVIOUS
  <2>4. PICK b : b = [r EXCEPT !.cur = c, !.pos = p]
    OBVIOUS
  <2>5. BackL(r) = IF b.cur = Begin THEN FirstL(b) ELSE b
    BY <2>1, <2>2, <2>3, <2>4 DEF BackL
  <2>6. b.cur = c /\ b.pos = p
    BY <2>4 DEF RowSets
  <2>7. b \in RowSets
    <3>1. c \in Cursors /\ p \in Int
      BY <1>0, <1>1, <2>2, <2>3, EndsFact
    <3> QED BY <2>4, <3>1, CursorMoved
  <2>8. c \in R \cup {Begin} /\ (c \in R => Index(R, c) = p)
    BY <1>0, <1>1, <2>2, <2>3, PrevCursor, PrevIndex
  <2>9. c # Begin => Agrees(b, R)
    BY <2>6, <2>8 DEF Agrees
  <2> QED BY <2>5, <2>6, <2>7, <2>9, FirstAgrees
<1> QED BY <1>2, <1>3

\* Each of POSITION's four walks leads to the record it wants.
LEMMA WalksArrive ==
  ASSUME NEW R \in SUBSET (1 .. MaxRow), NEW c \in R \cup {End},
         NEW to \in 1 .. (Cardinality(R) + 1)
  PROVE  /\ Index(R, c) < to => Steps(R, c, to - Index(R, c), TRUE) = Row(R, to)
         /\ Steps(R, End, Cardinality(R) + 1 - to, FALSE) = Row(R, to)
         /\ to < Index(R, c) => Steps(R, c, Index(R, c) - to, FALSE) = Row(R, to)
         /\ Steps(R, NextOf(R, Begin), to - 1, TRUE) = Row(R, to)
         /\ Index(R, c) = to => c = Row(R, to)
<1> PICK i : i = Index(R, c)
  OBVIOUS
<1> PICK n : n = Cardinality(R)
  OBVIOUS
<1>0. c \in Int /\ Index(R, End) = n + 1 /\ End \in Int
  <2>1. End \in Int /\ \A x \in R : x \in Int
    BY RowsFact
  <2> QED BY <2>1, EndIndex
<1>1. n \in Nat /\ (n = 0 <=> R = {})
  <2>1. R \in SUBSET R
    OBVIOUS
  <2> QED BY <2>1, RowsFact
<1>2. i \in Nat /\ i # 0 /\ i <= n + 1
  BY <1>0, UptoIndex
<1>3. \A x \in R \cup {End} : Index(R, x) = to => x = Row(R, to)
  BY RowIndex
<1>4. ASSUME i < to PROVE Steps(R, c, to - i, TRUE) = Row(R, to)
  <2>1. PICK k : k = to - i
    OBVIOUS
  <2>2. i # n + 1 /\ k \in Nat /\ k # 0 /\ i + k = to
    BY <1>1, <1>2, <1>4, <2>1
  <2>3. c \in R
    BY <1>0, <2>2
  <2>4. Cardinality(Upto(R, c)) = i
    BY <1>0, <2>3, UptoIndex
  <2>5. Steps(R, c, k, TRUE) = Row(R, IF i + k <= n THEN i + k ELSE n + 1)
    BY <1>0, <2>2, <2>4, StepsForward
  <2>6. (IF i + k <= n THEN i + k ELSE n + 1) = to
    BY <1>1, <2>2
  <2> QED BY <2>1, <2>5, <2>6
<1>5. Steps(R, End, n + 1 - to, FALSE) = Row(R, to)
  <2>1. PICK k : k = n + 1 - to
    OBVIOUS
  <2>2. k \in Nat /\ k < n + 1 /\ (n + 1) - k = to
    BY <1>1, <2>1
  <2>3. CASE k = 0
    <3>1. Steps(R, End, k, FALSE) = End
      BY <2>3 DEF Steps
    <3>2. to = n + 1
      BY <1>1, <2>2, <2>3
    <3> QED BY <1>0, <1>3, <2>1, <3>1, <3>2
  <2>4. CASE k # 0
    <3>1. Steps(R, End, k, FALSE) = IF k < Index(R, End) THEN Row(R, Index(R, End) - k) ELSE Begin
      BY <1>0, <2>2, <2>4, StepsBack
    <3> QED BY <1>0, <2>1, <2>2, <3>1
  <2> QED BY <2>3, <2>4
<1>6. ASSUME to < i PROVE Steps(R, c, i - to, FALSE) = Row(R, to)
  <2>1. PICK k : k = i - to
    OBVIOUS
  <2>2. k \in Nat /\ k # 0 /\ k < i /\ i - k = to
    BY <1>1, <1>2, <1>6, <2>1
  <2>3. Steps(R, c, k, FALSE) = IF k < Index(R, c) THEN Row(R, Index(R, c) - k) ELSE Begin
    BY <1>0, <2>2, StepsBack
  <2> QED BY <2>1, <2>2, <2>3
<1>7. Steps(R, NextOf(R, Begin), to - 1, TRUE) = Row(R, to)
  <2>0. PICK f : f = NextOf(R, Begin)
    OBVIOUS
  <2>1. f \in R \cup {End} /\ Index(R, f) = 1 /\ (f = End => R = {})
    BY <2>0, FirstIndex
  <2>2. PICK k : k = to - 1
    OBVIOUS
  <2>3. k \in Nat /\ 1 + k = to
    BY <1>1, <2>2
  <2>4. CASE k = 0
    <3>1. Steps(R, f, k, TRUE) = f
      BY <2>4 DEF Steps
    <3>2. to = 1
      BY <2>3, <2>4
    <3> QED BY <1>3, <2>0, <2>1, <2>2, <3>1, <3>2
  <2>5. CASE k # 0
    <3>1. n # 0
      BY <1>1, <2>3, <2>5
    <3>2. f \in R
      BY <1>1, <2>1, <3>1
    <3>3. f \in Int
      <4>1. \A x \in R : x \in Int
        BY RowsFact
      <4> QED BY <3>2, <4>1
    <3>4. Cardinality(Upto(R, f)) = 1
      BY <2>1, <3>2, <3>3, UptoIndex
    <3>5. Steps(R, f, k, TRUE) = Row(R, IF 1 + k <= n THEN 1 + k ELSE n + 1)
      BY <2>3, <2>5, <3>3, <3>4, StepsForward
    <3>6. (IF 1 + k <= n THEN 1 + k ELSE n + 1) = to
      BY <1>1, <2>3
    <3> QED BY <2>0, <2>2, <3>5, <3>6
  <2> QED BY <2>4, <2>5
<1> QED BY <1>3, <1>4, <1>5, <1>6, <1>7

\* POSITION arrives whichever way it takes.
LEMMA PositionAgrees ==
  ASSUME cR \in SUBSET (1 .. MaxRow), NEW r \in RowSets, Agrees(r, cR), NEW wanted \in 0 .. End
  PROVE  Agrees(PositionL(r, wanted), cR)
<1>1. PICK R : R = cR
  OBVIOUS
<1>2. PICK n : n = Cardinality(R)
  OBVIOUS
<1>3. PICK i : i = r.pos
  OBVIOUS
<1>4. PICK c : c = r.cur
  OBVIOUS
<1>5. PICK to : to = IF wanted = 0 THEN 1 ELSE IF wanted > n + 1 THEN n + 1 ELSE wanted
  OBVIOUS
<1>6. PICK steps : steps = to - i
  OBVIOUS
<1>7. R \in SUBSET (1 .. MaxRow) /\ c \in R \cup {End} /\ c \in Int /\ i = Index(R, c)
  BY <1>1, <1>3, <1>4, FieldsFact DEF Agrees
<1>8. n \in Nat /\ Count = n
  <2>1. R \in SUBSET R
    OBVIOUS
  <2> QED BY <1>1, <1>2, <1>7, <2>1, RowsFact DEF Count
<1>9. i \in Nat /\ to \in 1 .. (n + 1)
  <2>1. i \in Nat
    BY <1>7, UptoIndex
  <2>2. wanted \in Nat
    BY CursorFact
  <2> QED BY <1>5, <1>8, <2>1, <2>2
<1>10. steps \in Int /\ -steps = i - to /\ n + 1 - i - steps = n + 1 - to
  BY <1>6, <1>8, <1>9
<1>11. PICK a :
        a = IF steps > 0
            THEN IF (n + 1 - i) \div 2 > steps THEN Steps(R, c, steps, TRUE)
                 ELSE Steps(R, End, n + 1 - i - steps, FALSE)
            ELSE IF steps < 0
            THEN IF i \div 2 > -steps THEN Steps(R, c, -steps, FALSE)
                 ELSE Steps(R, NextOf(R, Begin), to - 1, TRUE)
            ELSE c
  OBVIOUS
<1>12. PositionL(r, wanted) = [r EXCEPT !.cur = a, !.pos = to]
  BY <1>1, <1>3, <1>4, <1>5, <1>6, <1>8, <1>11, Zenon DEF PositionL
<1>13. /\ i < to => Steps(R, c, steps, TRUE) = Row(R, to)
       /\ Steps(R, End, n + 1 - i - steps, FALSE) = Row(R, to)
       /\ to < i => Steps(R, c, -steps, FALSE) = Row(R, to)
       /\ Steps(R, NextOf(R, Begin), to - 1, TRUE) = Row(R, to)
       /\ i = to => c = Row(R, to)
  <2>1. /\ i < to => Steps(R, c, to - i, TRUE) = Row(R, to)
        /\ Steps(R, End, n + 1 - to, FALSE) = Row(R, to)
        /\ to < i => Steps(R, c, i - to, FALSE) = Row(R, to)
        /\ Steps(R, NextOf(R, Begin), to - 1, TRUE) = Row(R, to)
        /\ i = to => c = Row(R, to)
    BY <1>2, <1>7, <1>9, WalksArrive
  <2> QED BY <1>6, <1>10, <2>1
<1>14. (steps > 0 <=> i < to) /\ (steps < 0 <=> to < i) /\ (~(steps > 0) /\ ~(steps < 0) => i = to)
  BY <1>6, <1>9
<1>15. a = Row(R, to)
  BY <1>11, <1>13, <1>14, Zenon
<1>16. a \in R \cup {End} /\ Index(R, a) = to
  BY <1>2, <1>7, <1>9, <1>15, RowIndex
<1>17. PositionL(r, wanted).cur = a /\ PositionL(r, wanted).pos = to
  BY <1>12 DEF RowSets
<1> QED BY <1>1, <1>16, <1>17 DEF Agrees

\* The records a search passes are those between its two ends.
LEMMA BetweenIndex ==
  ASSUME NEW R \in SUBSET (1 .. MaxRow), NEW a \in R, NEW b \in R, a <= b
  PROVE  /\ Index(R, b) = Index(R, a) + Between(R, a, b)
         /\ Index(R, a) = Index(R, b) - Between(R, b, a)
         /\ Between(R, a, b) \in Nat /\ Between(R, b, a) \in Nat
         /\ Index(R, a) \in Nat /\ Index(R, b) \in Nat
<1>0. /\ \A x \in R : x \in Nat
      /\ \A S \in SUBSET R : IsFiniteSet(S) /\ Cardinality(S) \in Nat
  BY RowsFact
<1> DEFINE over == {x \in R : a < x /\ x <= b}
           from == {x \in R : a <= x /\ x < b}
<1>1. Between(R, a, b) = Cardinality(over)
  <2>1. \A x \in R : ((a < x /\ x <= b) \/ (b <= x /\ x < a)) <=> (a < x /\ x <= b)
    BY <1>0
  <2>2. {x \in R : (a < x /\ x <= b) \/ (b <= x /\ x < a)} = over
    BY <2>1
  <2> QED BY <2>2 DEF Between
<1>2. Between(R, b, a) = Cardinality(from)
  <2>1. \A x \in R : ((b < x /\ x <= a) \/ (a <= x /\ x < b)) <=> (a <= x /\ x < b)
    BY <1>0
  <2>2. {x \in R : (b < x /\ x <= a) \/ (a <= x /\ x < b)} = from
    BY <2>1
  <2> QED BY <2>2 DEF Between
<1>3. Upto(R, b) = Upto(R, a) \cup over /\ Upto(R, a) \cap over = {}
  <2>1. \A x \in R : (x <= b <=> x <= a \/ (a < x /\ x <= b)) /\ ~(x <= a /\ a < x)
    BY <1>0
  <2> QED BY <2>1 DEF Upto
<1>4. Under(R, b) = Under(R, a) \cup from /\ Under(R, a) \cap from = {}
  <2>1. \A x \in R : (x < b <=> x < a \/ (a <= x /\ x < b)) /\ ~(x < a /\ a <= x)
    BY <1>0
  <2> QED BY <2>1 DEF Under
<1>5. /\ Upto(R, a) \in SUBSET R /\ Under(R, a) \in SUBSET R
      /\ over \in SUBSET R /\ from \in SUBSET R /\ {} \in SUBSET R
  BY DEF Upto, Under
<1> HIDE DEF over, from
<1>6. Cardinality({}) = 0
  BY FS_EmptySet
<1>7. Cardinality(Upto(R, b)) = Cardinality(Upto(R, a)) + Cardinality(over)
  <2>1. Cardinality(Upto(R, a) \cup over)
          = Cardinality(Upto(R, a)) + Cardinality(over) - Cardinality(Upto(R, a) \cap over)
    BY <1>0, <1>5, FS_Union
  <2> QED BY <1>0, <1>3, <1>5, <1>6, <2>1
<1>8. Cardinality(Under(R, b)) = Cardinality(Under(R, a)) + Cardinality(from)
  <2>1. Cardinality(Under(R, a) \cup from)
          = Cardinality(Under(R, a)) + Cardinality(from) - Cardinality(Under(R, a) \cap from)
    BY <1>0, <1>5, FS_Union
  <2> QED BY <1>0, <1>4, <1>5, <1>6, <2>1
<1>9. /\ Cardinality(Upto(R, a)) = Index(R, a) /\ Cardinality(Upto(R, b)) = Index(R, b)
      /\ Cardinality(Under(R, a)) + 1 = Index(R, a) /\ Cardinality(Under(R, b)) + 1 = Index(R, b)
      /\ Index(R, a) \in Nat /\ Index(R, b) \in Nat
  <2>1. a \in Int /\ b \in Int
    BY <1>0
  <2> QED BY <2>1, UptoIndex
<1>10. Cardinality(over) \in Nat /\ Cardinality(from) \in Nat
      /\ Cardinality(Under(R, a)) \in Nat /\ Cardinality(Under(R, b)) \in Nat
  <2>1. Under(R, b) \in SUBSET R
    BY DEF Under
  <2> QED BY <1>0, <1>5, <2>1
<1>11. Index(R, b) = Index(R, a) + Between(R, a, b)
  BY <1>1, <1>7, <1>9
<1>12. Index(R, a) = Index(R, b) - Between(R, b, a)
  BY <1>2, <1>8, <1>9, <1>10
<1> QED BY <1>1, <1>2, <1>9, <1>10, <1>11, <1>12

\* Where a search ends.
LEMMA FoundFact ==
  ASSUME NEW R \in SUBSET (1 .. MaxRow), NEW c \in R, NEW M
  PROVE  /\ Found(R, c, M, TRUE) \in R \cup {End}
         /\ Found(R, c, M, TRUE) \in R => c <= Found(R, c, M, TRUE)
         /\ Found(R, c, M, FALSE) \in R \cup {Begin}
         /\ Found(R, c, M, FALSE) \in R => Found(R, c, M, FALSE) <= c
<1> PICK S : S = R \cap M
  OBVIOUS
<1>1. S \in SUBSET (1 .. MaxRow) /\ S \subseteq R
  OBVIOUS
<1>2. c \in Nat /\ c - 1 \in Int /\ c + 1 \in Int /\ \A x \in R : x \in Nat /\ x < End /\ Begin < x
  <2>1. \A x \in R : x \in Nat /\ x < End /\ Begin < x
    BY RowsFact
  <2> QED BY <2>1
<1>3. PICK t : t = NextOf(S, c - 1)
  OBVIOUS
<1>4. PICK u : u = PrevOf(S, c + 1)
  OBVIOUS
<1>5. Found(R, c, M, TRUE) = t /\ Found(R, c, M, FALSE) = u
  BY <1>3, <1>4 DEF Found
<1>6. t \in S \cup {End} /\ \A x \in S : x > c - 1 <=> x >= t
  BY <1>1, <1>2, <1>3, NextCursor
<1>7. u \in S \cup {Begin} /\ \A x \in S : x < c + 1 <=> x <= u
  BY <1>1, <1>2, <1>4, PrevCursor
<1>8. t \in R => c <= t
  <2>1. SUFFICES ASSUME t \in R PROVE c <= t
    OBVIOUS
  <2>2. t \in Nat /\ t # End
    <3>1. t \in Nat /\ t < End
      BY <1>2, <2>1
    <3> QED BY <3>1
  <2>3. t \in S /\ t >= t
    BY <1>6, <2>2
  <2>4. t > c - 1
    BY <1>6, <2>3
  <2> QED BY <1>2, <2>2, <2>4
<1>9. u \in R => u <= c
  <2>1. SUFFICES ASSUME u \in R PROVE u <= c
    OBVIOUS
  <2>2. u \in Nat /\ u # Begin
    <3>1. u \in Nat /\ Begin < u
      BY <1>2, <2>1
    <3> QED BY <3>1
  <2>3. u \in S /\ u <= u
    BY <1>7, <2>2
  <2>4. u < c + 1
    BY <1>7, <2>3
  <2> QED BY <1>2, <2>2, <2>4
<1> QED BY <1>1, <1>5, <1>6, <1>7, <1>8, <1>9

\* Going to the end sets POS one after the last record.
LEMMA EndAgrees ==
  ASSUME cR \in SUBSET (1 .. MaxRow), NEW r \in RowSets
  PROVE  /\ Agrees([r EXCEPT !.cur = End, !.pos = Count + 1], cR)
         /\ Agrees(r, cR) /\ ~AtRow(r) => Agrees([r EXCEPT !.pos = Count + 1], cR)
<1>1. Index(cR, End) = Count + 1
  BY EndIndex DEF Count
<1>2. PICK n : n = Count + 1
  OBVIOUS
<1>3. [r EXCEPT !.cur = End, !.pos = n].cur = End /\ [r EXCEPT !.cur = End, !.pos = n].pos = n
      /\ [r EXCEPT !.pos = n].cur = r.cur /\ [r EXCEPT !.pos = n].pos = n
  BY DEF RowSets
<1>4. Agrees(r, cR) /\ ~AtRow(r) => r.cur = End
  BY DEF Agrees, AtRow
<1> QED BY <1>1, <1>2, <1>3, <1>4 DEF Agrees

\* A match at t, forwards and backwards.
LEMMA MatchAgrees ==
  ASSUME cR \in SUBSET (1 .. MaxRow), NEW r \in RowSets, Agrees(r, cR), AtRow(r), NEW t \in cR
  PROVE  /\ r.cur <= t => Agrees([r EXCEPT !.cur = t, !.pos = r.pos + Between(cR, r.cur, t)], cR)
         /\ t <= r.cur => Agrees([r EXCEPT !.cur = t, !.pos = r.pos - Between(cR, r.cur, t)], cR)
<1>1. r.cur \in cR /\ r.pos = Index(cR, r.cur)
  BY DEF Agrees, AtRow
<1>2. r.cur <= t => Index(cR, t) = r.pos + Between(cR, r.cur, t)
  BY <1>1, BetweenIndex
<1>3. t <= r.cur => Index(cR, t) = r.pos - Between(cR, r.cur, t)
  BY <1>1, BetweenIndex
<1>4. \A p : [r EXCEPT !.cur = t, !.pos = p].cur = t /\ [r EXCEPT !.cur = t, !.pos = p].pos = p
  BY DEF RowSets
<1> QED BY <1>2, <1>3, <1>4 DEF Agrees

\* FINDFIELD, on or back, from the cursor or an end.
LEMMA FindFieldAgrees ==
  ASSUME cR \in SUBSET (1 .. MaxRow), NEW r \in RowSets, Agrees(r, cR),
         NEW M, NEW forward \in BOOLEAN, NEW fromEnd \in BOOLEAN
  PROVE  Agrees(FindFieldL(r, M, forward, fromEnd), cR)
<1>1. PICK s : s = IF forward THEN IF fromEnd THEN FirstL(r) ELSE r
                   ELSE IF fromEnd \/ ~AtRow(r) THEN LastL(r) ELSE r
  OBVIOUS
<1>2. PICK t : t = Found(cR, s.cur, M, forward)
  OBVIOUS
<1>3. PICK p : p = s.pos + (IF forward THEN 1 ELSE -1) * Between(cR, s.cur, t)
  OBVIOUS
<1>4. FindFieldL(r, M, forward, fromEnd) =
            IF forward /\ ~AtRow(s) THEN [s EXCEPT !.pos = Count + 1]
            ELSE IF t = End THEN [s EXCEPT !.cur = End, !.pos = Count + 1]
            ELSE IF t = Begin THEN FirstL(s)
            ELSE [s EXCEPT !.cur = t, !.pos = p]
  BY <1>1, <1>2, <1>3, Zenon DEF FindFieldL
<1>5. s \in RowSets /\ Agrees(s, cR)
  BY <1>1, FirstAgrees, LastAgrees, MovesTyped DEF LastL
<1>6. ~forward /\ cR # {} => AtRow(s)
  <2>1. cR # {} => LastL(r).cur \in cR
    BY LastAgrees DEF LastL
  <2> QED BY <1>1, <2>1 DEF AtRow
<1>7. CASE AtRow(s)
  <2>1. s.cur \in cR
    BY <1>7 DEF AtRow
  <2>2. PICK b : b = Between(cR, s.cur, t)
    OBVIOUS
  <2>3. ASSUME t # End, t # Begin PROVE Agrees([s EXCEPT !.cur = t, !.pos = p], cR)
    <3>1. CASE forward
      <4>1. t \in cR /\ s.cur <= t
        BY <1>2, <2>1, <2>3, <3>1, FoundFact
      <4>2. p = s.pos + b
        <5>1. b \in Nat
          BY <2>1, <2>2, <4>1, BetweenIndex
        <5>2. p = s.pos + 1 * b
          BY <1>3, <2>2, <3>1
        <5> QED BY <5>1, <5>2
      <4> QED BY <1>5, <1>7, <2>2, <4>1, <4>2, MatchAgrees
    <3>2. CASE ~forward
      <4>1. t \in cR /\ t <= s.cur
        BY <1>2, <2>1, <2>3, <3>2, FoundFact, ZenonT(40)
      <4>2. p = s.pos - b
        <5>1. b \in Nat
          BY <2>1, <2>2, <4>1, BetweenIndex
        <5>2. p = s.pos + (-1) * b /\ s.pos \in Int
          BY <1>3, <1>5, <2>2, <3>2, FieldsFact
        <5> QED BY <5>1, <5>2
      <4> QED BY <1>5, <1>7, <2>2, <4>1, <4>2, MatchAgrees
    <3> QED BY <3>1, <3>2
  <2> QED BY <1>4, <1>5, <1>7, <2>3, EndAgrees, FirstAgrees
<1>8. CASE ~AtRow(s)
  <2>1. CASE forward
    BY <1>4, <1>5, <1>8, <2>1, EndAgrees
  <2>2. CASE ~forward
    <3>1. cR = {}
      BY <1>6, <1>8, <2>2
    <3>2. t = Begin
      <4>1. t = PrevOf({}, s.cur + 1)
        BY <1>2, <2>2, <3>1 DEF Found
      <4> QED BY <4>1 DEF PrevOf
    <3>3. FindFieldL(r, M, forward, fromEnd) \in {FirstL(s), [s EXCEPT !.cur = End, !.pos = Count + 1]}
      BY <1>4, <2>2, <3>2
    <3> QED BY <1>5, <3>3, EndAgrees, FirstAgrees
  <2> QED BY <2>1, <2>2
<1> QED BY <1>7, <1>8

\* A record that is erased, and one that is added.
LEMMA ErasedAgrees ==
  ASSUME NEW R \in SUBSET (1 .. MaxRow), NEW r \in RowSets, Agrees(r, R), r.cur \in R
  PROVE  Agrees([r EXCEPT !.cur = NextOf(R \ {r.cur}, r.cur)], R \ {r.cur})
<1>1. PICK c : c = r.cur
  OBVIOUS
<1>2. PICK S : S = R \ {c}
  OBVIOUS
<1>3. PICK t : t = NextOf(S, c)
  OBVIOUS
<1>4. S \in SUBSET (1 .. MaxRow) /\ c \in R /\ c \in Int /\ r.pos = Index(R, c)
  BY <1>1, <1>2, FieldsFact DEF Agrees
<1>5. t \in S \cup {End} /\ Index(S, t) = Cardinality(Upto(S, c)) + 1
  BY <1>3, <1>4, NextCursor, NextIndex
<1>6. Upto(S, c) = Under(R, c)
  <2>1. \A x \in R : x \in Nat
    BY RowsFact
  <2>2. \A x \in R : (x # c /\ x <= c) <=> x < c
    BY <1>4, <2>1
  <2> QED BY <1>2, <2>2 DEF Upto, Under
<1>7. Index(R, c) = Cardinality(Under(R, c)) + 1
  BY <1>4, UptoIndex
<1>8. [r EXCEPT !.cur = t].cur = t /\ [r EXCEPT !.cur = t].pos = r.pos
  BY DEF RowSets
<1> QED BY <1>1, <1>2, <1>3, <1>4, <1>5, <1>6, <1>7, <1>8 DEF Agrees

\* A record that is put is the last, and POS the number of records.
LEMMA AddedAgrees ==
  ASSUME Inv, NEW d \in Dbs, RoomForRow(d), NEW r \in RowSets
  PROVE  Agrees([r EXCEPT !.pend = "none", !.cur = NewRow(d), !.pos = Cardinality(rows[d]) + 1],
                rows[d] \cup {NewRow(d)})
<1>1. PICK R : R = rows[d]
  OBVIOUS
<1>2. PICK a : a = NewRow(d)
  OBVIOUS
<1>3. R \in SUBSET (1 .. MaxRow) /\ a \in 1 .. MaxRow /\ \A x \in R : x \in Nat /\ x < a
  <2>1. R \in SUBSET (1 .. MaxRow)
    BY <1>1 DEF Inv, TypeOK
  <2>2. \A x \in R : x \in Nat /\ x <= lastRow[d]
    BY <1>1, <2>1, RowsFact DEF Inv, Numbered
  <2>3. a \in 1 .. MaxRow /\ lastRow[d] \in Nat /\ a = lastRow[d] + 1
    BY <1>2, RoomFact
  <2> QED BY <2>1, <2>2, <2>3
<1>4. R \cup {a} \in SUBSET (1 .. MaxRow)
  BY <1>3
<1>5. Under(R \cup {a}, a) = R
  <2>1. \A x \in R \cup {a} : x < a <=> x \in R
    BY <1>3
  <2> QED BY <2>1 DEF Under
<1>6. Index(R \cup {a}, a) = Cardinality(R) + 1
  <2>1. a \in Int
    BY <1>3
  <2> QED BY <1>4, <1>5, <2>1, UptoIndex
<1>7. PICK n : n = Cardinality(R) + 1
  OBVIOUS
<1>8. PICK q : q = [r EXCEPT !.pend = "none", !.cur = a, !.pos = n]
  OBVIOUS
<1>9. q.cur = a /\ q.pos = n
  BY <1>8 DEF RowSets
<1>10. Agrees(q, R \cup {a})
  BY <1>6, <1>7, <1>9 DEF Agrees
<1> QED BY <1>1, <1>2, <1>7, <1>8, <1>10

PosStep ==
  LET c == iCurrOplRowSet IN
     (c # None /\ ~op'.err /\ op'.kw \in Moves \cup Settles \cup {"PUT"}) =>
       \/ Agrees(iLogNames'[c], rows'[cdb])
       \/ op'.kw \in Moves /\ ~Agrees(cr, rows[cdb])
       \/ op'.kw = "PUT" /\ cr.pend = "update" /\ (cr.ins \/ ~Agrees(cr, rows[cdb]))

\* POS, keyword by keyword.
LEMMA StepKeepsPos ==
  ASSUME Inv, Next
  PROVE  PosStep
<1>1. ASSUME op'.err PROVE PosStep
  BY <1>1 DEF PosStep
<1>2. ASSUME op'.kw \notin Moves \cup Settles \cup {"PUT"} PROVE PosStep
  BY <1>2 DEF PosStep
<1>3. ASSUME NEW kw, Leaves(kw) PROVE PosStep
  BY <1>1, <1>3 DEF Leaves, Left
<1>4. ASSUME NEW kw, NEW r, LeavesWith(kw, r) \/ PutFails(kw, r) PROVE PosStep
  BY <1>1, <1>4 DEF LeavesWith, PutFails, WriteFails, Left
<1>5. ASSUME NEW kw, kw \notin Moves \cup Settles \cup {"PUT"}, NEW n, NEW s, Done(kw, n, s) PROVE PosStep
  BY <1>2, <1>5 DEF Done
<1>6. ASSUME OpenCheckL
      PROVE  /\ iCurrOplRowSet \in Names /\ cr \in RowSets /\ cdb \in Dbs /\ cR \in SUBSET (1 .. MaxRow)
             /\ cR = rows[cdb] /\ iLogNames \in [Names -> RowSets \cup {None}]
             /\ cr = iLogNames[iCurrOplRowSet] /\ Count \in Int
  BY <1>6, CurrentFact DEF Inv, TypeOK
<1>7. ASSUME OpenCheckL, NEW kw, NEW r, Becomes(kw, r), Agrees(r, cR) PROVE PosStep
  <2>1. iLogNames'[iCurrOplRowSet] = r /\ rows'[cdb] = cR
    BY <1>6, <1>7 DEF Becomes, SetCurrent, dbms
  <2> QED BY <1>7, <2>1 DEF PosStep
<1>8. ASSUME OpenCheckL, NEW kw \in Moves, NEW r, Becomes(kw, r), Agrees(cr, cR) => Agrees(r, cR)
      PROVE  PosStep
  <2>1. CASE Agrees(cr, cR)
    BY <1>7, <1>8, <2>1
  <2>2. CASE ~Agrees(cr, cR)
    <3>1. op'.kw = kw
      BY <1>8 DEF Becomes, Done
    <3> QED BY <1>6, <1>8, <2>2, <3>1 DEF PosStep
  <2> QED BY <2>1, <2>2
<1>9. ASSUME OpenCheckL, NEW kw, NEW r \in RowSets, AddsRow(kw, r) PROVE PosStep
  <2>1. PICK d \in Dbs : d = cdb /\ RoomForRow(d)
    BY <1>6, <1>9 DEF AddsRow
  <2>2. PICK q : q = [r EXCEPT !.pend = "none", !.cur = NewRow(d), !.pos = Cardinality(rows[d]) + 1]
    OBVIOUS
  <2>3. iLogNames' = [iLogNames EXCEPT ![iCurrOplRowSet] = q]
        /\ rows' = [rows EXCEPT ![d] = rows[d] \cup {NewRow(d)}]
    BY <1>6, <1>9, <2>1, <2>2 DEF AddsRow, SetCurrent, Count
  <2>4. iLogNames'[iCurrOplRowSet] = q /\ rows'[cdb] = rows[d] \cup {NewRow(d)}
    <3>1. rows \in [Dbs -> SUBSET (1 .. MaxRow)]
      BY DEF Inv, TypeOK
    <3> QED BY <1>6, <1>9, <2>1, <2>3, <3>1
  <2>5. Agrees(q, rows[d] \cup {NewRow(d)})
    BY <1>9, <2>1, <2>2, AddedAgrees
  <2> QED BY <2>4, <2>5 DEF PosStep
<1>10. ASSUME OpenCheckL
       PROVE  /\ CancelIfUpdate(cr) \in RowSets
              /\ CancelIfUpdate(cr).cur = cr.cur /\ CancelIfUpdate(cr).pos = cr.pos
              /\ Agrees(cr, cR) => Agrees(CancelIfUpdate(cr), cR)
  <2>1. CancelIfUpdate(cr).cur = cr.cur /\ CancelIfUpdate(cr).pos = cr.pos
    BY <1>6, <1>10 DEF CancelIfUpdate, RowSets
  <2> QED BY <1>6, <1>10, <2>1, MovesTyped DEF Agrees
<1>11. CASE OpFirst
  BY <1>6, <1>7, <1>10, <1>11, FirstAgrees DEF OpFirst
<1>12. CASE OpLast
  BY <1>6, <1>7, <1>10, <1>12, LastAgrees DEF OpLast, LastL
<1>13. CASE OpNext
  BY <1>6, <1>8, <1>10, <1>13, StepAgrees DEF OpNext, Moves
<1>14. CASE OpBack
  BY <1>6, <1>8, <1>10, <1>14, StepAgrees DEF OpBack, Moves
<1>15. CASE OpPosition
  <2>1. PICK u : u = CancelIfUpdate(cr)
    OBVIOUS
  <2>2. PICK wanted \in 0 .. End : Becomes("POSITION", PositionL(u, wanted)) /\ OpenCheckL
    BY <1>15, <2>1 DEF OpPosition
  <2>3. Agrees(cr, cR) => Agrees(PositionL(u, wanted), cR)
    BY <1>6, <1>10, <2>1, <2>2, PositionAgrees
  <2>4. "POSITION" \in Moves
    BY DEF Moves
  <2> QED BY <1>8, <2>2, <2>3, <2>4
<1>16. CASE OpFind
  <2>1. PICK r : r = CancelIfUpdate(cr)
    OBVIOUS
  <2>2. OpenCheckL /\ r \in RowSets /\ cR \in SUBSET (1 .. MaxRow) /\ (Agrees(cr, cR) => Agrees(r, cR))
    BY <1>6, <1>10, <1>16, <2>1 DEF OpFind
  <2>3. PICK M, t :
          \/ /\ t = Found(cR, r.cur, M, TRUE)
             /\ Becomes("FIND",
               IF ~AtRow(r) THEN [r EXCEPT !.pos = Count + 1]
               ELSE IF t = End THEN [r EXCEPT !.cur = End, !.pos = Count + 1]
               ELSE [r EXCEPT !.cur = t, !.pos = r.pos + Between(cR, r.cur, t)])
          \/ LeavesWith("FIND", r)
    BY <1>16, <2>1 DEF OpFind
  <2>8. CASE LeavesWith("FIND", r)
    BY <1>4, <2>8
  <2>4. "FIND" \in Moves
    BY DEF Moves
  <2>5. CASE ~LeavesWith("FIND", r) /\ ~AtRow(r)
    <3>1. Becomes("FIND", [r EXCEPT !.pos = Count + 1])
      BY <2>3, <2>5
    <3>2. Agrees(cr, cR) => Agrees([r EXCEPT !.pos = Count + 1], cR)
      BY <2>2, <2>5, EndAgrees
    <3> QED BY <1>8, <2>2, <2>4, <3>1, <3>2
  <2>6. CASE ~LeavesWith("FIND", r) /\ AtRow(r) /\ t = End
    <3>1. Becomes("FIND", [r EXCEPT !.cur = End, !.pos = Count + 1])
      BY <2>3, <2>6
    <3>2. Agrees([r EXCEPT !.cur = End, !.pos = Count + 1], cR)
      BY <2>2, EndAgrees
    <3> QED BY <1>7, <2>2, <3>1, <3>2
  <2>7. CASE ~LeavesWith("FIND", r) /\ AtRow(r) /\ t # End
    <3>1. Becomes("FIND", [r EXCEPT !.cur = t, !.pos = r.pos + Between(cR, r.cur, t)])
      BY <2>3, <2>7
    <3>2. r.cur \in cR
      BY <2>7 DEF AtRow
    <3>5. t = Found(cR, r.cur, M, TRUE)
      BY <2>3, <2>7
    <3>3. t \in cR /\ r.cur <= t
      BY <2>2, <2>7, <3>2, <3>5, FoundFact
    <3>4. Agrees(cr, cR) => Agrees([r EXCEPT !.cur = t, !.pos = r.pos + Between(cR, r.cur, t)], cR)
      BY <2>2, <2>7, <3>3, MatchAgrees
    <3> QED BY <1>8, <2>2, <2>4, <3>1, <3>4
  <2> QED BY <2>5, <2>6, <2>7, <2>8
<1>17. CASE OpFindField
  <2>1. PICK u : u = CancelIfUpdate(cr)
    OBVIOUS
  <2>2. OpenCheckL /\ u \in RowSets /\ cR \in SUBSET (1 .. MaxRow) /\ (Agrees(cr, cR) => Agrees(u, cR))
    BY <1>6, <1>10, <1>17, <2>1 DEF OpFindField
  <2>3. ASSUME NEW M, NEW forward \in BOOLEAN, NEW fromEnd \in BOOLEAN,
               Becomes("FINDFIELD", FindFieldL(u, M, forward, fromEnd))
        PROVE  PosStep
    <3>1. Agrees(cr, cR) => Agrees(FindFieldL(u, M, forward, fromEnd), cR)
      BY <2>2, FindFieldAgrees
    <3>2. "FINDFIELD" \in Moves
      BY DEF Moves
    <3> QED BY <1>8, <2>2, <2>3, <3>1, <3>2
  <2> QED BY <1>4, <1>17, <2>1, <2>3 DEF OpFindField
<1>18. ASSUME NEW kw \in {"OPEN", "OPENR", "CREATE"}, NEW n, NEW d, AddRowSet(kw, n, d) PROVE PosStep
  BY <1>1, <1>5, <1>18 DEF AddRowSet, Left, Moves, Settles
<1>37. ASSUME NEW kw, NEW d, FailsCounted(kw, d) PROVE PosStep
  BY <1>1, <1>37 DEF FailsCounted, Left
<1>19. CASE OpenKeyword("OPEN") \/ OpenKeyword("OPENR")
  BY <1>3, <1>18, <1>19, <1>37 DEF OpenKeyword
<1>20. CASE OpCreate
  BY <1>3, <1>18, <1>20, <1>37 DEF OpCreate
<1>21. CASE UseLog
  BY <1>3, <1>5, <1>21 DEF UseLog, Moves, Settles
<1>22. CASE OpClose \/ OpDeleteTable
  BY <1>3, <1>5, <1>22 DEF OpClose, OpDeleteTable, Moves, Settles
<1>23. CASE OpLeftSide
  BY <1>3, <1>5, <1>23 DEF OpLeftSide, Moves, Settles
<1>24. CASE OpAssign
  <2>1. op'.kw = "ASSIGN"
    BY <1>24 DEF OpAssign, PreAssign, Done, Left
  <2> QED BY <1>2, <2>1 DEF Moves, Settles
<1>25. CASE OpAppend
  <2>0. OpenCheckL /\ cr \in RowSets
    BY <1>6, <1>25 DEF OpAppend
  <2>1. PICK r : r = [cr EXCEPT !.aou = FALSE, !.absent = FALSE]
    OBVIOUS
  <2>2. PICK s : s = [cr EXCEPT !.pend = "insert"]
    OBVIOUS
  <2>3. r \in RowSets /\ s \in RowSets /\ CopyCurrRowToEnd(cr) \in RowSets
    BY <2>0, <2>1, <2>2, WritesTyped
  <2>4. \/ Leaves("APPEND") \/ PutFails("APPEND", r) \/ AddsRow("APPEND", r)
        \/ LeavesWith("APPEND", Remember(cr)) \/ PutFails("APPEND", CopyCurrRowToEnd(cr))
        \/ AddsRow("APPEND", CopyCurrRowToEnd(cr)) \/ AddsRow("APPEND", s) \/ LeavesWith("APPEND", s)
    BY <1>25, <2>1, <2>2, Zenon DEF OpAppend
  <2> QED BY <1>3, <1>4, <1>9, <2>0, <2>3, <2>4
<1>26. ASSUME OpenCheckL, NEW r \in RowSets, ReplacesRow(r) PROVE PosStep
  <2>1. CASE op'.err
    BY <1>1, <2>1
  <2>2. CASE ~op'.err
    <3>0. PICK d : d = cdb
      OBVIOUS
    <3>1. PICK R : R = rows[d] \cup {NewRow(d)}
      OBVIOUS
    <3>2. PICK put : put = [r EXCEPT !.pend = "none", !.cur = NewRow(d)]
      OBVIOUS
    <3>3. PICK back : back = [put EXCEPT !.cur = r.before]
      OBVIOUS
    <3>4. PICK S : S = R \ {r.before}
      OBVIOUS
    <3>5. /\ RoomForRow(d) /\ rows' = [rows EXCEPT ![d] = S]
          /\ iLogNames' = [iLogNames EXCEPT ![iCurrOplRowSet] = LastIn(S, back)]
      BY <1>26, <2>2, <3>0, <3>1, <3>2, <3>3, <3>4
      DEF ReplacesRow, PutFails, WriteFails, Left, SetCurrent
    <3>6. NewRow(d) \in 1 .. MaxRow /\ NewRow(d) \in Cursors /\ d \in Dbs /\ rows[d] \in SUBSET (1 .. MaxRow)
      BY <1>6, <1>26, <3>0, <3>5, RoomFact
    <3>7. S \in SUBSET (1 .. MaxRow)
      BY <3>1, <3>4, <3>6
    <3>8. put \in RowSets
      BY <1>26, <3>2, <3>6, WritesTyped
    <3>9. back \in RowSets
      BY <1>26, <3>3, <3>8, FieldsFact, WritesTyped
    <3>10. Agrees(LastIn(S, back), S)
      BY <3>7, <3>9, LastAgrees
    <3>11. iLogNames'[iCurrOplRowSet] = LastIn(S, back) /\ rows'[cdb] = S
      <4>1. rows \in [Dbs -> SUBSET (1 .. MaxRow)]
        BY DEF Inv, TypeOK
      <4> QED BY <1>6, <1>26, <3>0, <3>5, <3>6, <4>1
    <3> QED BY <3>10, <3>11 DEF PosStep
  <2> QED BY <2>1, <2>2
<1>27. CASE OpUpdate
  <2>0. OpenCheckL /\ cr \in RowSets
    BY <1>6, <1>27 DEF OpUpdate
  <2>1. PICK r : r = [cr EXCEPT !.aou = FALSE]
    OBVIOUS
  <2>2. PICK s : s = [cr EXCEPT !.aou = FALSE, !.absent = FALSE, !.pend = "none"]
    OBVIOUS
  <2>3. r \in RowSets /\ CopyCurrRowToEnd(cr) \in RowSets
    BY <2>0, <2>1, WritesTyped
  <2>4. \/ Leaves("UPDATE") \/ LeavesWith("UPDATE", s) \/ ReplacesRow(r) \/ PutFails("UPDATE", r)
        \/ LeavesWith("UPDATE", Remember(cr)) \/ ReplacesRow(CopyCurrRowToEnd(cr))
    BY <1>27, <2>1, <2>2, Zenon DEF OpUpdate
  <2> QED BY <1>3, <1>4, <1>26, <2>0, <2>3, <2>4
<1>28. CASE OpModify \/ OpInsert
  <2>0. OpenCheckL /\ cr \in RowSets
    BY <1>6, <1>28 DEF OpModify, OpInsert
  <2>1. PICK r : r = [cr EXCEPT !.moi = TRUE, !.pend = "update"]
    OBVIOUS
  <2>2. PICK s : s = [cr EXCEPT !.moi = TRUE]
    OBVIOUS
  <2>3. PICK t : t = [cr EXCEPT !.moi = TRUE, !.ins = TRUE, !.pend = "insert"]
    OBVIOUS
  <2>4. \/ Leaves("MODIFY") \/ Becomes("MODIFY", r) \/ LeavesWith("MODIFY", s)
        \/ Leaves("INSERT") \/ Becomes("INSERT", t)
    BY <1>28, <2>1, <2>2, <2>3, Zenon DEF OpModify, OpInsert
  <2>5. r.cur = cr.cur /\ r.pos = cr.pos /\ t.cur = cr.cur /\ t.pos = cr.pos
    BY <2>0, <2>1, <2>3 DEF RowSets
  <2>6. (Agrees(cr, cR) => Agrees(r, cR)) /\ (Agrees(cr, cR) => Agrees(t, cR))
    BY <2>5 DEF Agrees
  <2>7. "MODIFY" \in Moves /\ "INSERT" \in Moves
    BY DEF Moves
  <2> QED BY <1>3, <1>4, <1>8, <2>0, <2>4, <2>6, <2>7
<1>29. CASE OpPut
  <2>0. OpenCheckL /\ cr \in RowSets
    BY <1>6, <1>29 DEF OpPut
  <2>1. PICK r : r = [cr EXCEPT !.moi = FALSE, !.ins = FALSE]
    OBVIOUS
  <2>2. PICK p : p = IF cr.ins THEN Count ELSE r.pos
    OBVIOUS
  <2>3. PICK q : q = [r EXCEPT !.pend = "none", !.pos = p]
    OBVIOUS
  <2>4. r \in RowSets
    BY <2>0, <2>1, WritesTyped
  <2>5. \/ Leaves("PUT") \/ PutFails("PUT", cr) \/ AddsRow("PUT", r)
        \/ cr.pend = "update" /\ Becomes("PUT", q)
    BY <1>29, <2>1, <2>2, <2>3 DEF OpPut
  <2>6. CASE cr.pend = "update" /\ Becomes("PUT", q)
    <3>1. CASE cr.ins \/ ~Agrees(cr, cR)
      <4>1. op'.kw = "PUT"
        BY <2>6 DEF Becomes, Done
      <4> QED BY <1>6, <2>0, <2>6, <3>1, <4>1 DEF PosStep
    <3>2. CASE ~cr.ins /\ Agrees(cr, cR)
      <4>1. q.cur = cr.cur /\ q.pos = cr.pos
        BY <2>0, <2>1, <2>2, <2>3, <3>2 DEF RowSets
      <4>2. Agrees(q, cR)
        BY <3>2, <4>1 DEF Agrees
      <4> QED BY <1>7, <2>0, <2>6, <4>2
    <3> QED BY <3>1, <3>2
  <2> QED BY <1>3, <1>4, <1>9, <2>0, <2>4, <2>5, <2>6
<1>30. CASE OpCancel
  <2>0. /\ OpenCheckL /\ rows' = rows /\ op'.kw = "CANCEL"
        /\ \E reset \in BOOLEAN : iLogNames' = Cancelled(iLogNames, reset)
    BY <1>30 DEF OpCancel, dbms, Done
  <2>1. CASE ~Agrees(cr, cR)
    BY <1>6, <2>0, <2>1 DEF PosStep, Moves
  <2>2. CASE Agrees(cr, cR)
    <3>1. PICK reset \in BOOLEAN : iLogNames' = Cancelled(iLogNames, reset)
      BY <2>0
    <3>2. PICK c : c = iCurrOplRowSet
      OBVIOUS
    <3>3. PICK s : s = [cr EXCEPT !.pend = "none"]
      OBVIOUS
    <3>4. PICK K : K = [iLogNames EXCEPT ![c] = s]
      OBVIOUS
    <3>5. PICK M : M = Rolled(K, cdb, cR, reset)
      OBVIOUS
    <3>6. c \in Names /\ cr = iLogNames[c] /\ cr \in RowSets /\ iLogNames \in [Names -> RowSets \cup {None}]
      BY <1>6, <2>0, <3>2
    <3>7. [iLogNames EXCEPT ![c].pend = "none"] = K
      BY <3>3, <3>4, <3>6
    <3>8. s \in RowSets /\ s.cur = cr.cur /\ s.pos = cr.pos
      BY <3>3, <3>6 DEF RowSets
    <3>9. K[c] = s /\ s # None
      BY <3>4, <3>6, <3>8, NullAssumption DEF NullAssumption
    <3>10. M[c] \in {s, ResetView(s, cR)} /\ DOMAIN M = Names
      BY <3>4, <3>5, <3>6, <3>9 DEF Rolled, ResetRelatedViews
    <3>11. s.cur \in cR \cup {Begin, End}
      BY <2>2, <3>8 DEF Agrees
    <3>12. ResetView(s, cR) = [s EXCEPT !.pend = "none"]
      BY <3>11 DEF ResetView
    <3>13. M[c] \in {s, [s EXCEPT !.pend = "none"]}
      BY <3>10, <3>12
    <3>14. PICK t : t = [M[c] EXCEPT !.aou = FALSE, !.moi = FALSE, !.ins = FALSE]
      OBVIOUS
    <3>15. t.cur = cr.cur /\ t.pos = cr.pos
      BY <3>8, <3>13, <3>14 DEF RowSets
    <3>16. iLogNames'[c] = t
      <4>1. iLogNames' = [M EXCEPT ![c].aou = FALSE, ![c].moi = FALSE, ![c].ins = FALSE]
        BY <3>1, <3>2, <3>5, <3>7 DEF Cancelled
      <4> QED BY <3>6, <3>10, <3>14, <4>1
    <3>17. Agrees(iLogNames'[c], rows'[cdb])
      BY <1>6, <2>0, <2>2, <3>15, <3>16 DEF Agrees
    <3> QED BY <3>2, <3>17 DEF PosStep
  <2> QED BY <2>1, <2>2
<1>31. CASE OpErase
  <2>1. PICK r : r = CancelIfUpdate(cr)
    OBVIOUS
  <2>2. /\ OpenCheckL /\ r \in RowSets /\ cdb \in Dbs /\ cR \in SUBSET (1 .. MaxRow) /\ cR = rows[cdb]
        /\ Agrees(cr, cR) => Agrees(r, cR)
    BY <1>6, <1>10, <1>31, <2>1 DEF OpErase
  <2>3. PICK R : R = cR \ {r.cur}
    OBVIOUS
  <2>4. PICK q : q = [r EXCEPT !.cur = NextOf(R, r.cur)]
    OBVIOUS
  <2>5. \/ op'.err
        \/ /\ AtRow(r) /\ op'.kw = "ERASE"
           /\ rows' = [rows EXCEPT ![cdb] = R]
           /\ iLogNames' = [iLogNames EXCEPT ![iCurrOplRowSet] = q]
    BY <1>31, <2>1, <2>2, <2>3, <2>4 DEF OpErase, LeavesWith, WriteFails, Left, Done, SetCurrent
  <2>6. CASE /\ AtRow(r) /\ op'.kw = "ERASE"
             /\ rows' = [rows EXCEPT ![cdb] = R]
             /\ iLogNames' = [iLogNames EXCEPT ![iCurrOplRowSet] = q]
    <3>1. r.cur \in cR
      BY <2>6 DEF AtRow
    <3>2. Agrees(cr, cR) => Agrees(q, R)
      BY <2>2, <2>3, <2>4, <3>1, ErasedAgrees
    <3>3. iLogNames'[iCurrOplRowSet] = q /\ rows'[cdb] = R
      <4>1. rows \in [Dbs -> SUBSET (1 .. MaxRow)]
        BY DEF Inv, TypeOK
      <4> QED BY <1>6, <2>2, <2>6, <4>1
    <3> QED BY <2>2, <2>6, <3>2, <3>3 DEF PosStep, Moves
  <2> QED BY <1>1, <2>5, <2>6
<1>32. CASE OpBookmark
  <2>1. OpenCheckL /\ op'.kw = "BOOKMARK" /\ iLogNames' = iLogNames /\ rows' = rows
    BY <1>32 DEF OpBookmark, Done, names, dbms
  <2> QED BY <1>6, <2>1 DEF PosStep, Moves
<1>33. CASE OpGotoMark
  <2>1. Leaves("GOTOMARK") \/ \E r : Becomes("GOTOMARK", r)
    BY <1>33, Zenon DEF OpGotoMark
  <2>2. CASE Leaves("GOTOMARK")
    BY <1>3, <2>2
  <2>3. CASE \E r : Becomes("GOTOMARK", r)
    <3>1. op'.kw = "GOTOMARK"
      BY <2>3 DEF Becomes, Done
    <3> QED BY <1>2, <3>1 DEF Moves, Settles
  <2> QED BY <2>1, <2>2, <2>3
<1>34. CASE OpKillMark
  BY <1>3, <1>5, <1>34 DEF OpKillMark, Moves, Settles
<1>35. CASE OpBeginTrans \/ OpCommitTrans \/ OpRollback
  <2>1. \/ \E kw : Leaves(kw)
        \/ \E kw \in {"BEGINTRANS", "COMMITTRANS", "ROLLBACK"} : Done(kw, iCurrOplRowSet, None)
    BY <1>35 DEF OpBeginTrans, OpCommitTrans, OpRollback
  <2>2. \A kw \in {"BEGINTRANS", "COMMITTRANS", "ROLLBACK"} : kw \notin Moves \cup Settles \cup {"PUT"}
    BY DEF Moves, Settles
  <2> QED BY <1>3, <1>5, <2>1, <2>2
<1>36. CASE NotOpen
  BY <1>3, <1>36 DEF NotOpen
<1> QED
  BY <1>11, <1>12, <1>13, <1>14, <1>15, <1>16, <1>17, <1>19, <1>20, <1>21, <1>22, <1>23, <1>24,
     <1>25, <1>27, <1>28, <1>29, <1>30, <1>31, <1>32, <1>33, <1>34, <1>35, <1>36 DEF Next, Keyword

\* POS stays the number of the current record through every keyword that
\* moves or writes and ends well (LB_DBASE.CPP: FirstL, NextL, BackL,
\* PositionL on all four of its ways, FindL, EraseL, AppendL, UpdateL).
THEOREM PosIsTheRecord == Spec => PosKept
<1>1. Inv /\ [Next]_vars => [PosStep]_vars
  BY StepKeepsPos
<1> QED BY <1>1, InvAlways, PTL DEF Spec, PosKept, PosStep
=============================================================================
