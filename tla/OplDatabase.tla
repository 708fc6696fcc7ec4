---------------------------- MODULE OplDatabase ----------------------------
(***************************************************************************)
(* The database keywords of the OPL runtime (oplr/src/LB_DBASE.CPP,        *)
(* oplr/inc/OPLDB.H, OPLDB.INL): the logical names A to Z, the row sets    *)
(* behind them, the databases they share, the record position that POS     *)
(* reports, the two ways to change a record (assign, then APPEND or        *)
(* UPDATE; MODIFY or INSERT, then PUT or CANCEL), bookmarks and            *)
(* transactions.                                                           *)
(*                                                                         *)
(* Each keyword is one action.  A record is its identity: DBMS numbers     *)
(* records upwards, so a table is a set of numbers in the order of the     *)
(* records, and a cursor is a number too, Begin before the first record,   *)
(* End after the last, or the number of a record; a cursor whose record    *)
(* was deleted stands in the gap.  A keyword that leaves with an OPL error *)
(* sets op.err; what the program does then is OplProcedures' subject.      *)
(***************************************************************************)
EXTENDS Integers, Sequences, FiniteSets

CONSTANTS Names,      \* logical names, numbered from 0 as in the q-code
          Dbs,        \* database files, one table (Table1) in each
          MaxRow,     \* bound: record numbers given out in a database
          MaxMarks,   \* bound: entries of the bookmark array
          None,       \* EDbNone, and the NULL row set
          Programs    \* what a program may use; records bounds its tables

ASSUME NamesAssumption == Names \subseteq Nat /\ IsFiniteSet(Names)
ASSUME BoundsAssumption == MaxRow \in Nat \ {0} /\ MaxMarks \in Nat
ASSUME ProgramsAssumption ==
  Programs \subseteq [keywords : SUBSET STRING, names : SUBSET Names, files : SUBSET Dbs,
               records : 0 .. MaxRow]
ASSUME NoneAssumption == None \notin Names /\ None \notin Dbs

VARIABLES
  prog,            \* the keywords, names, files and records a program uses
  disk,            \* per database: no file, a file without table, a table
  rows,            \* per database: the records of its table
  lastRow,         \* per database: the last record number given out
  trans,           \* per database: its own transaction in progress
  saved,           \* per database: the records a rollback brings back
  iOplDb,          \* COplDbCollection: access count of each open COplDb
  iLogNames,       \* CLogicalNames: logical name -> row set, None if closed
  iParentDbase,    \* the database of each row set (a field of COplRowSet)
  iCount,          \* CLogicalNames::iCount
  iCurrLogName,    \* CLogicalNames::iCurrLogName
  iCurrOplRowSet,  \* COplDbManager's cached row set, as its logical name
  iBookmarkArray,  \* COplDbManager::iBookmarkArray
  lhs,             \* logical name stacked by FieldLeftSide, None if none
  op               \* the keyword just executed and whether it left

dbms == <<disk, rows, lastRow, trans, saved>>
views == <<iParentDbase, iOplDb, iCount, iCurrLogName, iCurrOplRowSet>>
names == <<views, iLogNames>>
vars == <<prog, dbms, names, iBookmarkArray, lhs, op>>

Begin == 0
End == MaxRow + 1
Cursors == Begin .. End

RowSets ==
  [upd : BOOLEAN, cur : Cursors, pend : {"none", "insert", "update"},
   pos : Int, before : Cursors, absent : BOOLEAN, aou : BOOLEAN,
   moi : BOOLEAN, ins : BOOLEAN]

(* The NULL row set is none of them.                                       *)
ASSUME NullAssumption == None \notin RowSets

(* What op says was executed: the keywords, and what is none.              *)
Executed ==
  {"FIRST", "LAST", "NEXT", "BACK", "POSITION", "FIND", "FINDFIELD", "OPEN", "OPENR",
   "CREATE", "USE", "CLOSE", "DELETE", "APPEND", "UPDATE", "MODIFY", "INSERT", "PUT",
   "CANCEL", "ERASE", "ASSIGN", "BOOKMARK", "GOTOMARK", "KILLMARK", "BEGINTRANS",
   "COMMITTRANS", "ROLLBACK", "START", "LEFTSIDE", "CLOSED"}

Marks == [db : Dbs, at : Cursors, alive : BOOLEAN]

(* Types of the variables; iCurrLogName always names an open row set.      *)
TypeOK ==
  /\ prog \in Programs
  /\ disk \in [Dbs -> {"nofile", "notable", "table"}]
  /\ rows \in [Dbs -> SUBSET (1 .. MaxRow)]
  /\ saved \in [Dbs -> SUBSET (1 .. MaxRow)]
  /\ lastRow \in [Dbs -> 0 .. MaxRow]
  /\ trans \in [Dbs -> BOOLEAN]
  /\ iOplDb \in [Dbs -> Nat]
  /\ iLogNames \in [Names -> RowSets \cup {None}]
  /\ iParentDbase \in [Names -> Dbs \cup {None}]
  /\ \A n \in Names : iLogNames[n] = None <=> iParentDbase[n] = None
  /\ iCount \in Nat
  /\ iCurrLogName \in Names \cup {None}
  /\ iCurrOplRowSet \in Names \cup {None}
  /\ iBookmarkArray \in Seq(Marks)
  /\ lhs \in Names \cup {None}
  /\ op \in [kw : Executed, err : BOOLEAN, name : Names \cup {None},
             set : Names \cup {None}]

Init ==
  /\ prog \in Programs
  /\ disk = [d \in Dbs |-> "nofile"]
  /\ rows = [d \in Dbs |-> {}]
  /\ saved = [d \in Dbs |-> {}]
  /\ lastRow = [d \in Dbs |-> 0]
  /\ trans = [d \in Dbs |-> FALSE]
  /\ iOplDb = [d \in Dbs |-> 0]
  /\ iLogNames = [n \in Names |-> None]
  /\ iParentDbase = [n \in Names |-> None]
  /\ iCount = 0
  /\ iCurrLogName = None
  /\ iCurrOplRowSet = None
  /\ iBookmarkArray = <<>>
  /\ lhs = None
  /\ op = [kw |-> "START", err |-> FALSE, name |-> None, set |-> None]

(***************************************************************************)
(* DBMS row sets, as LB_DBASE.CPP uses them: where a cursor goes.          *)
(***************************************************************************)
NextOf(R, c) == LET later == {x \in R : x > c}
                IN IF later = {} THEN End
                   ELSE CHOOSE x \in later : \A y \in later : x <= y

PrevOf(R, c) == LET earlier == {x \in R : x < c}
                IN IF earlier = {} THEN Begin
                   ELSE CHOOSE x \in earlier : \A y \in earlier : x >= y

(* The record number a cursor stands at: what POS should say.              *)
Index(R, c) == Cardinality({x \in R : x < c}) + 1

Steps(R, c, n, forward) ==
  LET walk[k \in Nat] ==
        IF k = 0 THEN c
        ELSE IF forward THEN NextOf(R, walk[k - 1]) ELSE PrevOf(R, walk[k - 1])
  IN IF n <= 0 THEN c ELSE walk[n]

(***************************************************************************)
(* The current row set                                                     *)
(***************************************************************************)
Open(n) == iParentDbase[n] # None
cr == iLogNames[iCurrOplRowSet]          \* iCurrOplRowSet, iCurrDbRowSet
cdb == iParentDbase[iCurrOplRowSet]      \* its ParentDbase
cR == rows[cdb]                          \* its records
AtRow(r) == r.cur \in cR
Count == Cardinality(cR)
EOF(r) == r.cur = End
InEitherMode(r) == r.aou \/ r.moi

Uses(kw) == kw \in prog.keywords
Done(kw, n, set) == op' = [kw |-> kw, err |-> FALSE, name |-> n, set |-> set]
Left(kw, n) == op' = [kw |-> kw, err |-> TRUE, name |-> n, set |-> None]

(* A keyword leaves before it changes anything.                            *)
Leaves(kw) == Left(kw, iCurrOplRowSet) /\ UNCHANGED <<dbms, names, iBookmarkArray, lhs>>

(* OpenCheckL *)
OpenCheckL == iCount # 0

(* CancelIfUpdate on the current row set: iInsertMode stays as it is.      *)
CancelIfUpdateByMode(r) ==
  [r EXCEPT !.aou = FALSE, !.absent = IF r.aou THEN FALSE ELSE @, !.moi = FALSE]
CancelIfUpdate(r) ==
  IF r.aou THEN [r EXCEPT !.pend = "none", !.aou = FALSE, !.absent = FALSE, !.moi = FALSE]
  ELSE IF r.moi THEN [r EXCEPT !.pend = "none", !.moi = FALSE]
  ELSE r

SetCurrent(r) == iLogNames' = [iLogNames EXCEPT ![iCurrOplRowSet] = r]

(* The keyword changes nothing but the current row set.  A POS that is     *)
(* wrong can grow without end; it is followed as far as MaxPos.            *)
MaxPos == End + 1
Becomes(kw, r) ==
  /\ r.pos <= MaxPos
  /\ SetCurrent(r)
  /\ Done(kw, iCurrOplRowSet, None)
  /\ UNCHANGED <<dbms, views, iBookmarkArray, lhs>>

LeavesWith(kw, r) ==
  /\ SetCurrent(r)
  /\ Left(kw, iCurrOplRowSet)
  /\ UNCHANGED <<dbms, views, iBookmarkArray, lhs>>

(***************************************************************************)
(* Moving                                                                  *)
(***************************************************************************)
FirstL(r) == [r EXCEPT !.cur = NextOf(cR, Begin), !.pos = 1, !.pend = "none"]

NextL(r) == IF EOF(r) THEN r
            ELSE [r EXCEPT !.cur = NextOf(cR, @), !.pos = @ + 1, !.pend = "none"]

LastIn(R, r) ==
  LET last == PrevOf(R, End)
  IN IF last = Begin THEN [r EXCEPT !.cur = NextOf(R, Begin), !.pos = 1]
     ELSE [r EXCEPT !.cur = last, !.pos = Cardinality(R)]
LastL(r) == LastIn(cR, r)

BackWithoutReset(r) ==
  IF r.cur = Begin THEN r
  ELSE IF PrevOf(cR, r.cur) = Begin THEN [FirstL(r) EXCEPT !.pos = r.pos - 1]
  ELSE [r EXCEPT !.cur = PrevOf(cR, @), !.pos = @ - 1]
BackL(r) ==
  LET b == IF r.cur = Begin THEN r
           ELSE [r EXCEPT !.cur = PrevOf(cR, @), !.pos = @ - 1]
  IN IF b.cur = Begin THEN FirstL(b) ELSE b

(* PositionL walks from whichever of the cursor and the two ends POS says  *)
(* is nearer, then believes it has arrived.                                *)
PositionL(r, wanted) ==
  LET R == cR
      n == Count
      to == IF wanted = 0 THEN 1 ELSE IF wanted > n + 1 THEN n + 1 ELSE wanted
      steps == to - r.pos
      arrive ==
        IF steps > 0
        THEN IF (n + 1 - r.pos) \div 2 > steps THEN Steps(R, r.cur, steps, TRUE)
             ELSE Steps(R, End, n + 1 - r.pos - steps, FALSE)
        ELSE IF steps < 0
        THEN IF r.pos \div 2 > -steps THEN Steps(R, r.cur, -steps, FALSE)
             ELSE Steps(R, NextOf(R, Begin), to - 1, TRUE)
        ELSE r.cur
  IN [r EXCEPT !.cur = arrive, !.pos = to]

OpFirst == Uses("FIRST") /\ OpenCheckL /\ Becomes("FIRST", FirstL(CancelIfUpdate(cr)))
OpLast == Uses("LAST") /\ OpenCheckL /\ Becomes("LAST", LastL(CancelIfUpdate(cr)))
OpNext == Uses("NEXT") /\ OpenCheckL /\ Becomes("NEXT", NextL(CancelIfUpdate(cr)))
OpBack == Uses("BACK") /\ OpenCheckL /\ Becomes("BACK", BackL(CancelIfUpdate(cr)))

OpPosition ==
  /\ Uses("POSITION") /\ OpenCheckL
  /\ \E wanted \in 0 .. End : Becomes("POSITION", PositionL(CancelIfUpdate(cr), wanted))

(* FindL(EForwards) and FindL(EBackwards): the first match at or beyond    *)
(* the cursor; M is the set of records that match the query.               *)
Found(R, c, M, forward) ==
  IF forward THEN NextOf(R \cap M, c - 1) ELSE PrevOf(R \cap M, c + 1)

Between(R, c, t) == Cardinality({x \in R : (c < x /\ x <= t) \/ (t <= x /\ x < c)})

(* FIND: forwards from the current record, which may match itself.         *)
OpFind ==
  /\ Uses("FIND") /\ OpenCheckL
  /\ \/ \E M \in SUBSET rows[cdb] :
          LET r == CancelIfUpdate(cr)
              t == Found(cR, r.cur, M, TRUE)
          IN Becomes("FIND",
               IF ~AtRow(r) THEN [r EXCEPT !.pos = Count + 1]
               ELSE IF t = End THEN [r EXCEPT !.cur = End, !.pos = Count + 1]
               ELSE [r EXCEPT !.cur = t, !.pos = @ + Between(cR, r.cur, t)])
     \/ LeavesWith("FIND", CancelIfUpdate(cr))      \* no field is a string

(* FINDFIELD with the flags KOplFindForward and KOplFindFromAnEnd.         *)
FindFieldL(r, M, forward, fromEnd) ==
  LET R == cR
      s == IF forward THEN IF fromEnd THEN FirstL(r) ELSE r
           ELSE IF fromEnd \/ ~AtRow(r) THEN LastL(r) ELSE r
      t == Found(R, s.cur, M, forward)
  IN IF forward /\ ~AtRow(s) THEN [s EXCEPT !.pos = Count + 1]
     ELSE IF t = End THEN [s EXCEPT !.cur = End, !.pos = Count + 1]
     ELSE IF t = Begin THEN FirstL(s)
     ELSE [s EXCEPT !.cur = t,
             !.pos = @ + (IF forward THEN 1 ELSE -1) * Between(R, s.cur, t)]

OpFindField ==
  /\ Uses("FINDFIELD") /\ OpenCheckL
  /\ \/ \E M \in SUBSET rows[cdb], forward, fromEnd \in BOOLEAN :
          Becomes("FINDFIELD", FindFieldL(CancelIfUpdate(cr), M, forward, fromEnd))
     \/ LeavesWith("FINDFIELD", CancelIfUpdate(cr))      \* fields out of range

(***************************************************************************)
(* Opening, closing, choosing a logical name                               *)
(***************************************************************************)
NewRowSet(upd, R) ==
  [upd |-> upd, cur |-> NextOf(R, Begin), pend |-> "none", pos |-> 1,
   before |-> Begin, absent |-> FALSE, aou |-> FALSE, moi |-> FALSE, ins |-> FALSE]

(* CreateOrOpenDbaseL counts the view, opening the file for the first one. *)
CountedOnOpening(d) == [iOplDb EXCEPT ![d] = IF @ = 0 THEN 1 ELSE @]
Counted(d) == [iOplDb EXCEPT ![d] = @ + 1]

(* CloseDbIfNotInUseL, in ~COplRowSet, with the access counts c: the last  *)
(* row set closes the database, and a transaction that was not committed   *)
(* goes with it.                                                           *)
CloseDbIfNotInUse(c, d) ==
  /\ iOplDb' = [c EXCEPT ![d] = @ - 1]
  /\ IF c[d] = 1
     THEN /\ trans' = [trans EXCEPT ![d] = FALSE]
          /\ rows' = [rows EXCEPT ![d] = IF trans[d] THEN saved[d] ELSE @]
     ELSE UNCHANGED <<trans, rows>>
  /\ UNCHANGED <<lastRow, saved>>

(* The row set cannot be made on the database it has counted: it is        *)
(* deleted before it has a logical name.                                   *)
FailsStillCounted(kw, d) ==
  /\ iOplDb' = Counted(d)
  /\ Left(kw, iCurrOplRowSet)
  /\ UNCHANGED <<rows, lastRow, trans, saved, iParentDbase, iCount, iCurrLogName,
                 iCurrOplRowSet, iLogNames, iBookmarkArray, lhs>>
FailsCounted(kw, d) ==
  /\ CloseDbIfNotInUse(Counted(d), d)
  /\ Left(kw, iCurrOplRowSet)
  /\ UNCHANGED <<iParentDbase, iCount, iCurrLogName, iCurrOplRowSet, iLogNames,
                 iBookmarkArray, lhs>>

(* AddRowSet, SetCurrLogName, the cached copies and NextL of OpenL.  If    *)
(* NextL leaves the logical name stays open, before its first record.      *)
AddRowSet(kw, n, d) ==
  /\ LET r == NewRowSet(kw # "OPENR", rows[d])
     IN \/ Done(kw, n, None) /\ iLogNames' = [iLogNames EXCEPT ![n] = r]
        \/ /\ Left(kw, n)
           /\ iLogNames' = [iLogNames EXCEPT ![n] = [r EXCEPT !.cur = Begin, !.pos = 0]]
  /\ iParentDbase' = [iParentDbase EXCEPT ![n] = d]
  /\ iCount' = iCount + 1
  /\ iCurrLogName' = n
  /\ iCurrOplRowSet' = n
  /\ iOplDb' = Counted(d)
  /\ UNCHANGED <<rows, lastRow, trans, saved, iBookmarkArray, lhs>>

(* OPEN and OPENR: CreateOrOpenDbaseL, which leaves if it cannot have the  *)
(* file, then DoOpenL, which leaves on the query, the table or the fields. *)
OpenKeyword(kw) ==
  /\ Uses(kw)
  /\ \E n \in prog.names, d \in prog.files :
       \/ Leaves(kw)                      \* n is open, or the file not there
       \/ ~Open(n) /\ disk[d] # "nofile" /\ FailsCounted(kw, d) /\ UNCHANGED disk
       \/ ~Open(n) /\ disk[d] = "table" /\ AddRowSet(kw, n, d) /\ UNCHANGED disk

(* CREATE: the file is made when it is not there, and stays when the table *)
(* cannot be made (there may be one); the table stays when the view on it  *)
(* cannot be.                                                              *)
OpCreate ==
  /\ Uses("CREATE")
  /\ \E n \in prog.names, d \in prog.files :
       \/ Leaves("CREATE")
       \/ ~Open(n) /\ disk[d] = "table" /\ FailsCounted("CREATE", d) /\ UNCHANGED disk
       \/ /\ ~Open(n) /\ disk[d] # "table"
          /\ \E left \in {"notable", "table"} : disk' = [disk EXCEPT ![d] = left]
          /\ FailsCounted("CREATE", d)
       \/ /\ ~Open(n) /\ disk[d] # "table"
          /\ disk' = [disk EXCEPT ![d] = "table"]
          /\ AddRowSet("CREATE", n, d)

UseLog ==
  /\ Uses("USE")
  /\ \E n \in prog.names :
       \/ ~Open(n) /\ Leaves("USE")
       \/ /\ Open(n)
          /\ iCurrLogName' = n
          /\ iCurrOplRowSet' = n
          /\ Done("USE", n, None)
          /\ UNCHANGED <<dbms, iParentDbase, iOplDb, iLogNames, iCount, iBookmarkArray, lhs>>

(* Close and CloseOplRowSet: the first logical name that is still open     *)
(* becomes the current one.                                                *)
FirstOpen(S) == CHOOSE n \in S : \A m \in S : n <= m
NextCurrentTooEarly == IF iCount = 1 THEN None ELSE FirstOpen({n \in Names : Open(n)})
NextCurrent ==
  IF iCount = 1 THEN None ELSE FirstOpen({n \in Names : Open(n)} \ {iCurrLogName})

OpClose ==
  /\ Uses("CLOSE") /\ OpenCheckL
  /\ iCurrLogName' = NextCurrent
  /\ iCurrOplRowSet' = NextCurrent
  /\ CloseDbIfNotInUse(iOplDb, cdb)
  /\ iLogNames' = [iLogNames EXCEPT ![iCurrLogName] = None]
  /\ iParentDbase' = [iParentDbase EXCEPT ![iCurrLogName] = None]
  /\ iCount' = iCount - 1
  /\ Done("CLOSE", iCurrLogName, None)
  /\ UNCHANGED <<disk, iBookmarkArray, lhs>>

(* DELETE database, table: refused while the database is open; what        *)
(* DropTable returns is not looked at.                                     *)
OpDeleteTable ==
  /\ Uses("DELETE")
  /\ \E d \in prog.files :
       \/ (iOplDb[d] > 0 \/ disk[d] = "nofile") /\ Leaves("DELETE")
       \/ /\ iOplDb[d] = 0 /\ disk[d] # "nofile"
          /\ disk' = [disk EXCEPT ![d] = "notable"]
          /\ rows' = [rows EXCEPT ![d] = {}]
          /\ Done("DELETE", None, None)
          /\ UNCHANGED <<lastRow, trans, saved, names, iBookmarkArray, lhs>>

(***************************************************************************)
(* Changing records                                                        *)
(***************************************************************************)
(* ResetRelatedViews: every row set on the database is reset and put back  *)
(* at its record, or before the first one with POS 1 when that has gone.   *)
(* What it was inserting or updating is lost; its mode stays.              *)
ResetView(r, R) ==
  IF r.cur \in R \cup {Begin, End} THEN [r EXCEPT !.pend = "none"]
  ELSE [r EXCEPT !.pend = "none", !.cur = Begin, !.pos = 1]

ResetRelatedViews(L, d, R) ==
  [n \in Names |-> IF L[n] = None THEN None
                   ELSE IF iParentDbase[n] = d THEN ResetView(L[n], R) ELSE L[n]]

(* HandleAutoTransactionRollback, after a failed write outside the         *)
(* program's own transaction: DBMS may have rolled its own back.           *)
Rolled(L, d, R, reset) ==
  IF ~trans[d] /\ reset THEN ResetRelatedViews(L, d, R) ELSE L

(* Cancel() on the current row set, in the names L.                        *)
Cancelled(L, reset) ==
  LET c == iCurrOplRowSet
      M == Rolled([L EXCEPT ![c].pend = "none"], cdb, cR, reset)
  IN [M EXCEPT ![c].aou = FALSE, ![c].moi = FALSE, ![c].ins = FALSE]

WriteFails(kw, L) ==
  /\ iLogNames' = L
  /\ Left(kw, iCurrOplRowSet)
  /\ UNCHANGED <<dbms, views, iBookmarkArray, lhs>>

(* SafelyPutL fails: the row set r goes through Cancel().                  *)
PutFails(kw, r) ==
  \E reset \in BOOLEAN :
    WriteFails(kw, Cancelled([iLogNames EXCEPT ![iCurrOplRowSet] = r], reset))

(* The next record's number, within the bound.                             *)
NewRow(d) == lastRow[d] + 1
RoomForRow(d) == lastRow[d] < prog.records

(* SafelyPutL of a record inserted by r succeeds and POS is the last.      *)
AddsRow(kw, r) ==
  LET d == cdb IN
  /\ RoomForRow(d)
  /\ lastRow' = [lastRow EXCEPT ![d] = NewRow(d)]
  /\ rows' = [rows EXCEPT ![d] = @ \cup {NewRow(d)}]
  /\ SetCurrent([r EXCEPT !.pend = "none", !.cur = NewRow(d), !.pos = Count + 1])
  /\ Done(kw, iCurrOplRowSet, None)
  /\ UNCHANGED <<disk, trans, saved, views, iBookmarkArray, lhs>>

(* CopyCurrRowToEnd: InsertCopyL leaves if there is no record to copy or   *)
(* the row set is read-only, but the place has been remembered by then.    *)
Remember(r) == [r EXCEPT !.before = r.cur]
MayCopy(r) == r.upd /\ AtRow(r)
CopyCurrRowToEnd(r) == [Remember(r) EXCEPT !.pend = "insert"]

OpAppend ==
  /\ Uses("APPEND") /\ OpenCheckL
  /\ \/ cr.moi /\ Leaves("APPEND")
     \/ /\ cr.aou /\ ~cr.moi
        /\ LET r == [cr EXCEPT !.aou = FALSE, !.absent = FALSE]
           IN PutFails("APPEND", r) \/ (cr.pend = "insert" /\ AddsRow("APPEND", r))
     \/ /\ ~InEitherMode(cr) /\ ~EOF(cr)
        /\ \/ ~MayCopy(cr) /\ LeavesWith("APPEND", Remember(cr))
           \/ /\ MayCopy(cr)
              /\ PutFails("APPEND", CopyCurrRowToEnd(cr))
                   \/ AddsRow("APPEND", CopyCurrRowToEnd(cr))
     \/ /\ ~InEitherMode(cr) /\ EOF(cr)          \* InsertBlankL: a bare PutL
        /\ \/ ~cr.upd /\ Leaves("APPEND")
           \/ cr.upd /\ AddsRow("APPEND", [cr EXCEPT !.pend = "insert"])
           \/ cr.upd /\ LeavesWith("APPEND", [cr EXCEPT !.pend = "insert"])

(* The rest of UpdateL once r holds the new record: put it, go back to the *)
(* record it replaces, delete that one, go to the last.  The three writes  *)
(* are not one transaction: a failure after the first leaves both records. *)
DeletesThenFails(r) ==
  /\ rows' = [rows EXCEPT ![cdb] = @ \ {r.before}]
  /\ SetCurrent(r)
  /\ Left("UPDATE", iCurrOplRowSet)
  /\ UNCHANGED <<disk, lastRow, trans, saved, views, iBookmarkArray, lhs>>
ReplacesRow(r) ==
  LET d == cdb
      R == rows[d] \cup {NewRow(d)}
      put == [r EXCEPT !.pend = "none", !.cur = NewRow(d)]
      back == [put EXCEPT !.cur = r.before]
  IN \/ PutFails("UPDATE", r)
     \/ /\ RoomForRow(d)
        /\ lastRow' = [lastRow EXCEPT ![d] = NewRow(d)]
        /\ \/ /\ r.before \notin R                               \* GotoL leaves
              /\ rows' = [rows EXCEPT ![d] = R]
              /\ SetCurrent(put)
              /\ Left("UPDATE", iCurrOplRowSet)
           \/ /\ r.before \in R                             \* SafetyDeleteL fails
              /\ rows' = [rows EXCEPT ![d] = R]
              /\ \E reset \in BOOLEAN :
                   iLogNames' = Rolled([iLogNames EXCEPT ![iCurrOplRowSet] = back], d, R, reset)
              /\ Left("UPDATE", iCurrOplRowSet)
           \/ /\ r.before \in R
              /\ rows' = [rows EXCEPT ![d] = R \ {r.before}]
              /\ SetCurrent(LastIn(R \ {r.before}, back))
              /\ Done("UPDATE", iCurrOplRowSet, None)
        /\ UNCHANGED <<disk, trans, saved, views, iBookmarkArray, lhs>>

OpUpdate ==
  /\ Uses("UPDATE") /\ OpenCheckL
  /\ \/ cr.moi /\ Leaves("UPDATE")
     \/ /\ cr.aou /\ ~cr.moi /\ cr.absent
        /\ LeavesWith("UPDATE", [cr EXCEPT !.aou = FALSE, !.absent = FALSE, !.pend = "none"])
     \/ /\ cr.aou /\ ~cr.moi /\ ~cr.absent
        /\ LET r == [cr EXCEPT !.aou = FALSE]
           IN IF cr.pend = "insert" THEN ReplacesRow(r) ELSE PutFails("UPDATE", r)
     \/ /\ ~InEitherMode(cr)
        /\ \/ EOF(cr) /\ Leaves("UPDATE")
           \/ ~EOF(cr) /\ ~MayCopy(cr) /\ LeavesWith("UPDATE", Remember(cr))
           \/ ~EOF(cr) /\ MayCopy(cr) /\ ReplacesRow(CopyCurrRowToEnd(cr))

(* MODIFY: the mode is set before UpdateL, which leaves on a read-only row *)
(* set.                                                                    *)
OpModify ==
  /\ Uses("MODIFY") /\ OpenCheckL
  /\ \/ (~AtRow(cr) \/ InEitherMode(cr)) /\ Leaves("MODIFY")
     \/ /\ AtRow(cr) /\ ~InEitherMode(cr)
        /\ \/ cr.upd /\ Becomes("MODIFY", [cr EXCEPT !.moi = TRUE, !.pend = "update"])
           \/ ~cr.upd /\ LeavesWith("MODIFY", [cr EXCEPT !.moi = TRUE])

OpInsert ==
  /\ Uses("INSERT") /\ OpenCheckL
  /\ \/ (InEitherMode(cr) \/ ~cr.upd) /\ Leaves("INSERT")
     \/ /\ ~InEitherMode(cr) /\ cr.upd
        /\ Becomes("INSERT", [cr EXCEPT !.moi = TRUE, !.ins = TRUE, !.pend = "insert"])

(* PUT: in insert mode POS becomes the number of records.                  *)
OpPut ==
  /\ Uses("PUT") /\ OpenCheckL
  /\ \/ (~cr.moi \/ cr.aou) /\ Leaves("PUT")
     \/ /\ cr.moi /\ ~cr.aou
        /\ LET ended == [cr EXCEPT !.moi = FALSE, !.ins = FALSE]
           IN \/ PutFails("PUT", cr)
              \/ cr.pend = "insert" /\ AddsRow("PUT", ended)
              \/ /\ cr.pend = "update" /\ AtRow(cr)
                 /\ Becomes("PUT", [ended EXCEPT !.pend = "none",
                                      !.pos = IF cr.ins THEN Count ELSE @])

OpCancel ==
  /\ Uses("CANCEL") /\ OpenCheckL
  /\ \E reset \in BOOLEAN :
       /\ iLogNames' = Cancelled(iLogNames, reset)
       /\ Done("CANCEL", iCurrOplRowSet, None)
       /\ UNCHANGED <<dbms, views, iBookmarkArray, lhs>>

(* ERASE: the cursor goes on to the next record, POS stays.                *)
OpErase ==
  /\ Uses("ERASE") /\ OpenCheckL
  /\ LET r == CancelIfUpdate(cr)
         d == cdb
         R == rows[d] \ {r.cur}
     IN \/ ~AtRow(r) /\ LeavesWith("ERASE", r)
        \/ /\ AtRow(r)
           /\ \E reset \in BOOLEAN :
                WriteFails("ERASE", Rolled([iLogNames EXCEPT ![iCurrOplRowSet] = r], d, rows[d], reset))
        \/ /\ AtRow(r) /\ r.upd
           /\ rows' = [rows EXCEPT ![d] = R]
           /\ SetCurrent([r EXCEPT !.cur = NextOf(R, r.cur)])
           /\ Done("ERASE", iCurrOplRowSet, None)
           /\ UNCHANGED <<disk, lastRow, trans, saved, views, iBookmarkArray, lhs>>

(***************************************************************************)
(* Assigning to a field: FieldLeftSide stacks the logical name, the right  *)
(* side is evaluated, and may use any keyword itself, then Assign runs.    *)
(***************************************************************************)
OpLeftSide ==
  /\ Uses("ASSIGN") /\ lhs = None
  /\ \E n \in prog.names :
       \/ ~Open(n) /\ Leaves("LEFTSIDE")
       \/ /\ Open(n)
          /\ lhs' = n
          /\ Done("LEFTSIDE", n, None)
          /\ UNCHANGED <<dbms, names, iBookmarkArray>>

(* PrepareForUpdate of a row set that is in neither mode.  On a read-only  *)
(* one the insertion leaves, when the place has been remembered.           *)
NotesAbsence(r, R) == [r EXCEPT !.absent = @ \/ R = {}]
PrepareForUpdate(r, R) ==
  [(IF r.cur \in R THEN CopyCurrRowToEnd(NotesAbsence(r, R))
    ELSE [NotesAbsence(r, R) EXCEPT !.pend = "insert"])
     EXCEPT !.aou = TRUE]
FailsToPrepare(r, R) ==
  IF r.cur \in R THEN Remember(NotesAbsence(r, R)) ELSE NotesAbsence(r, R)

(* PreAssign and SetColL.  op.set is the logical name whose record buffer  *)
(* is written, None when there is no row set to look in.                   *)
PreAssign ==
  LET r == iLogNames[lhs]
      R == rows[iParentDbase[lhs]]
  IN
  IF r = None
  THEN Done("ASSIGN", lhs, None) /\ UNCHANGED iLogNames
  ELSE IF r.moi
  THEN Done("ASSIGN", lhs, iCurrOplRowSet) /\ UNCHANGED iLogNames
  ELSE IF r.aou
  THEN Done("ASSIGN", lhs, lhs) /\ UNCHANGED iLogNames
  ELSE IF r.upd
  THEN Done("ASSIGN", lhs, lhs) /\ iLogNames' = [iLogNames EXCEPT ![lhs] = PrepareForUpdate(r, R)]
  ELSE Left("ASSIGN", lhs) /\ iLogNames' = [iLogNames EXCEPT ![lhs] = FailsToPrepare(r, R)]

OpAssign ==
  /\ lhs # None
  /\ PreAssign
  /\ lhs' = None
  /\ UNCHANGED <<dbms, views, iBookmarkArray>>

(***************************************************************************)
(* Bookmarks                                                               *)
(***************************************************************************)
(* BOOKMARK takes the first dead entry, else a new one.                    *)
OpBookmark ==
  /\ Uses("BOOKMARK") /\ OpenCheckL
  /\ LET mark == [db |-> cdb, at |-> cr.cur, alive |-> TRUE]
         dead == {i \in DOMAIN iBookmarkArray : ~iBookmarkArray[i].alive}
     IN IF dead = {}
        THEN /\ Len(iBookmarkArray) < MaxMarks
             /\ iBookmarkArray' = Append(iBookmarkArray, mark)
        ELSE iBookmarkArray' = [iBookmarkArray EXCEPT
               ![CHOOSE i \in dead : \A j \in dead : i <= j] = mark]
  /\ Done("BOOKMARK", iCurrOplRowSet, None)
  /\ UNCHANGED <<dbms, names, lhs>>

(* GOTOMARK leaves POS as it was.                                          *)
OpGotoMark ==
  /\ Uses("GOTOMARK") /\ OpenCheckL
  /\ \/ Leaves("GOTOMARK")                          \* no such mark
     \/ \E i \in DOMAIN iBookmarkArray :
          LET m == iBookmarkArray[i]
          IN /\ m.alive
             /\ IF m.db = cdb /\ m.at \in rows[cdb] \cup {Begin, End}
                THEN Becomes("GOTOMARK", [cr EXCEPT !.cur = m.at])
                ELSE Leaves("GOTOMARK")

(* A mark beyond the array ends the program with a panic of the array.     *)
OpKillMark ==
  /\ Uses("KILLMARK") /\ OpenCheckL
  /\ \/ Leaves("KILLMARK")                          \* a mark below 1
     \/ \E i \in DOMAIN iBookmarkArray :
          /\ iBookmarkArray' = [iBookmarkArray EXCEPT ![i].alive = FALSE]
          /\ Done("KILLMARK", iCurrOplRowSet, None)
          /\ UNCHANGED <<dbms, names, lhs>>

(***************************************************************************)
(* Transactions                                                            *)
(***************************************************************************)
(* What store.Begin() returns is not looked at.                            *)
OpBeginTrans ==
  /\ Uses("BEGINTRANS") /\ OpenCheckL
  /\ \/ (InEitherMode(cr) \/ trans[cdb]) /\ Leaves("BEGINTRANS")
     \/ /\ ~InEitherMode(cr) /\ ~trans[cdb]
        /\ \/ /\ trans' = [trans EXCEPT ![cdb] = TRUE]
              /\ saved' = [saved EXCEPT ![cdb] = rows[cdb]]
           \/ UNCHANGED <<trans, saved>>
        /\ Done("BEGINTRANS", iCurrOplRowSet, None)
        /\ UNCHANGED <<disk, rows, lastRow, names, iBookmarkArray, lhs>>

OpCommitTrans ==
  /\ Uses("COMMITTRANS") /\ OpenCheckL
  /\ \/ Leaves("COMMITTRANS")                       \* not in one, or storage
     \/ /\ ~InEitherMode(cr) /\ trans[cdb]
        /\ trans' = [trans EXCEPT ![cdb] = FALSE]
        /\ saved' = [saved EXCEPT ![cdb] = {}]
        /\ Done("COMMITTRANS", iCurrOplRowSet, None)
        /\ UNCHANGED <<disk, rows, lastRow, names, iBookmarkArray, lhs>>

OpRollback ==
  /\ Uses("ROLLBACK") /\ OpenCheckL
  /\ \/ (InEitherMode(cr) \/ ~trans[cdb]) /\ Leaves("ROLLBACK")
     \/ /\ ~InEitherMode(cr) /\ trans[cdb]
        /\ trans' = [trans EXCEPT ![cdb] = FALSE]
        /\ rows' = [rows EXCEPT ![cdb] = saved[cdb]]
        /\ saved' = [saved EXCEPT ![cdb] = {}]
        /\ iLogNames' = ResetRelatedViews(iLogNames, cdb, saved[cdb])
        /\ Done("ROLLBACK", iCurrOplRowSet, None)
        /\ UNCHANGED <<disk, lastRow, views, iBookmarkArray, lhs>>

(* Any keyword that needs a logical name, with none open.                  *)
NotOpen == ~OpenCheckL /\ Leaves("CLOSED")

Keyword ==
  \/ OpFirst \/ OpLast \/ OpNext \/ OpBack \/ OpPosition \/ OpFind \/ OpFindField
  \/ OpenKeyword("OPEN") \/ OpenKeyword("OPENR") \/ OpCreate \/ UseLog \/ OpClose
  \/ OpDeleteTable \/ OpAppend \/ OpUpdate \/ OpModify \/ OpInsert \/ OpPut
  \/ OpCancel \/ OpErase \/ OpLeftSide \/ OpAssign
  \/ OpBookmark \/ OpGotoMark \/ OpKillMark
  \/ OpBeginTrans \/ OpCommitTrans \/ OpRollback \/ NotOpen

Next == Keyword /\ UNCHANGED prog

Spec == Init /\ [][Next]_vars

(***************************************************************************)
(* Properties                                                              *)
(***************************************************************************)
(* A database's access count is the number of logical names open on it,    *)
(* after any number of opens, failed opens and closes in any order, so the *)
(* file is closed by the last CLOSE and never under another view.          *)
AccessCountsExact ==
  \A d \in Dbs : iOplDb[d] = Cardinality({n \in Names : iParentDbase[n] = d})

(* The current row set that COplDbManager caches is the one of the current *)
(* logical name, and there is a current one whenever any is open.          *)
CurrentIsOpen ==
  /\ iCurrOplRowSet = iCurrLogName
  /\ iCurrLogName = None => \A n \in Names : ~Open(n)
  /\ iCurrLogName # None => Open(iCurrLogName)
  /\ iCount = Cardinality({n \in Names : Open(n)})

(* A row set never holds a half-made record that no keyword would put or   *)
(* cancel: one of its two modes is on.  The one way out is an APPEND at    *)
(* the end of file that fails on storage (InsertBlankL does not cancel).   *)
Accountable(r) == r = None \/ r.pend = "none" \/ (r.aou # r.moi)
BuffersKeepTheirMode ==
  [][\A n \in Names : Accountable(iLogNames[n]) =>
       Accountable(iLogNames'[n]) \/ (op'.kw = "APPEND" /\ op'.err)]_vars

(* POS is the number of the current record: each moving or writing keyword *)
(* that ends well keeps POS right if it was, whatever the way POSITION     *)
(* takes, and FIRST, LAST, APPEND and UPDATE make it right.  (PUT of a     *)
(* MODIFY does not when an INSERT was abandoned before: iInsertMode.)      *)
Agrees(r, R) == r.cur \in R \cup {End} /\ r.pos = Index(R, r.cur)
Moves == {"NEXT", "BACK", "POSITION", "FIND", "FINDFIELD", "ERASE", "INSERT",
          "MODIFY", "CANCEL", "BOOKMARK"}
Settles == {"FIRST", "LAST", "APPEND", "UPDATE"}
PosKept ==
  [][LET c == iCurrOplRowSet IN
     (c # None /\ ~op'.err /\ op'.kw \in Moves \cup Settles \cup {"PUT"}) =>
       \/ Agrees(iLogNames'[c], rows'[cdb])
       \/ op'.kw \in Moves /\ ~Agrees(cr, rows[cdb])
       \/ op'.kw = "PUT" /\ cr.pend = "update" /\ (cr.ins \/ ~Agrees(cr, rows[cdb]))]_vars

(* A keyword that leaves never loses a record, and none touches a table    *)
(* but the current row set's, except DELETE of one that no name is open    *)
(* on; only ERASE, UPDATE, ROLLBACK, DELETE and the CLOSE that ends a      *)
(* transaction remove records, UPDATE never changes their number.          *)
NoRecordLost ==
  [][\A d \in Dbs :
       /\ rows'[d] # rows[d] =>
            \/ OpenCheckL /\ d = cdb
            \/ op'.kw = "DELETE" /\ \A n \in Names : iParentDbase[n] # d
       /\ op'.err => rows[d] \subseteq rows'[d]
       /\ ~(rows[d] \subseteq rows'[d]) =>
            op'.kw \in {"ERASE", "UPDATE", "ROLLBACK", "DELETE", "CLOSE"}
       /\ op'.kw = "UPDATE" /\ ~op'.err => Cardinality(rows'[d]) = Cardinality(rows[d])]_vars

(* "NOT NECESSARILY CURRENT ROWset" (LB_DBASE.CPP:951): an assignment to a *)
(* field ends in the row set of the logical name it was written for.       *)
AssignsToItsOwn == op.kw = "ASSIGN" /\ ~op.err => op.set = op.name

(* The logical names as the program sees them.                             *)
LN == INSTANCE OplLogicalNames WITH
        open <- iParentDbase,
        current <- iCurrLogName,
        files <- {d \in Dbs : iOplDb[d] > 0}
ImplementsLogicalNames == LN!Spec
=============================================================================
