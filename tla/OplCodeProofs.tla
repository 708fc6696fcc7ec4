---------------------------- MODULE OplCodeProofs ----------------------------
(***************************************************************************)
(* Proof that the q-code of an accepted procedure does what its words say: *)
(* it shows the same statements, conditions and returns, whatever is       *)
(* nested in whatever, and goes to the same handlers, for any vocabularies, *)
(* procedures of any size and any limit of the depth.                      *)
(*                                                                         *)
(* Laid says where the p-code of each word begins (F) and which labels are *)
(* in force after it (H), so that the code of a word is a function of the  *)
(* word and of the labels around it.  Label numbers are given out once and *)
(* their names differ (NamesDiffer), so a branch has one target; which one *)
(* it must be follows from the labels in force (AllInForce, LoopExits).     *)
(* Hence a step of the source that shows nothing is a jump of the code, or *)
(* no step at all (StepTells), and the two walks come to the same thing or *)
(* both go on for ever (Shown).                                            *)
(***************************************************************************)
EXTENDS OplStructuresProofs

-----------------------------------------------------------------------------
(* Different numbers give internal labels different names.                 *)

\* What a TUint holds.
TUint == {n \in Nat : n < 65536 * 65536}

\* The number shifted two bits to the right, 0 to 16 times.
Shifting(q, n) == q = [k \in 0 .. 16 |-> IF k = 0 THEN n ELSE q[k - 1] \div 4]

\* There are the numbers that shifting by two bits gives.
LEMMA ShiftsExist ==
  ASSUME NEW n \in Nat, NEW m \in 0 .. 16
  PROVE  \E q : q = [k \in 0 .. m |-> IF k = 0 THEN n ELSE q[k - 1] \div 4]
<1> DEFINE Shifts(q, i) == q = [k \in 0 .. i |-> IF k = 0 THEN n ELSE q[k - 1] \div 4]
           T == {i \in 0 .. 16 : ~\E q : Shifts(q, i)}
<1>1. SUFFICES ASSUME T # {} PROVE FALSE
  OBVIOUS
<1>2. PICK i \in T : \A k \in T : i <= k
  <2>1. T \in SUBSET Nat
    OBVIOUS
  <2> HIDE DEF T
  <2> QED BY <1>1, <2>1, SomeLeast
<1>3. CASE i = 0
  <2>1. PICK q : q = [k \in {0} |-> n]
    OBVIOUS
  <2>2. 0 .. i = {0}
    BY <1>3
  <2>3. Shifts(q, i)
    BY <2>1, <2>2
  <2> QED BY <1>2, <2>3
<1>4. CASE i # 0
  <2>1. PICK k \in 0 .. 15 : i = k + 1
    BY <1>2, <1>4
  <2>5. k \in 0 .. 16 /\ k < i
    BY <2>1
  <2>6. k \notin T
    <3>1. ~(i <= k)
      BY <2>5
    <3> HIDE DEF T
    <3> QED BY <1>2, <3>1, Zenon
  <2>2. PICK q : Shifts(q, k)
    BY <2>5, <2>6
  <2>3. PICK r : r = [j \in 0 .. i |-> IF j = i THEN q[k] \div 4 ELSE q[j]]
    OBVIOUS
  <2>4. \A j \in 0 .. k : r[j] = q[j] /\ q[j] = IF j = 0 THEN n ELSE q[j - 1] \div 4
    <3>1. \A j \in 0 .. k : q[j] = IF j = 0 THEN n ELSE q[j - 1] \div 4
      BY <2>2
    <3> QED BY <2>1, <2>3, <3>1
  <2>9. ASSUME NEW j \in 0 .. i
        PROVE  r[j] = IF j = 0 THEN n ELSE r[j - 1] \div 4
    <3>1. CASE j = i
      <4>1. r[j] = q[k] \div 4 /\ j - 1 = k /\ r[k] = q[k]
        BY <2>1, <2>3, <2>4, <3>1
      <4> QED BY <1>4, <3>1, <4>1
    <3>2. CASE j = 0
      BY <2>1, <2>4, <3>2
    <3>3. CASE j # i /\ j # 0
      <4>1. j \in 0 .. k /\ j - 1 \in 0 .. k
        BY <2>1, <3>3
      <4>2. r[j] = q[j] /\ q[j] = q[j - 1] \div 4 /\ r[j - 1] = q[j - 1]
        BY <2>4, <3>3, <4>1
      <4> QED BY <3>3, <4>2
    <3> QED BY <3>1, <3>2, <3>3
  <2>8. r = [j \in 0 .. i |-> r[j]]
    BY <2>3
  <2>7. Shifts(r, i)
    BY <2>9, <2>8, Zenon
  <2> QED BY <1>2, <2>7
<1> QED BY <1>3, <1>4

\* The name is a digit of each shift that is not 0; a TUint has 16 of them.
LEMMA NameIs ==
  ASSUME NEW n \in TUint
  PROVE  \E q : /\ q \in [0 .. 16 -> Nat] /\ q[0] = n /\ q[16] = 0
                /\ \A k \in 0 .. 15 : q[k + 1] = q[k] \div 4
                /\ BranchName(n) = [k \in {i \in 1 .. 16 : q[i - 1] > 0} |-> q[k - 1] % 16]
<1>0. n \in Nat
  BY DEF TUint
<1> DEFINE q == CHOOSE r : r = [k \in 0 .. 16 |-> IF k = 0 THEN n ELSE r[k - 1] \div 4]
<1>2. Shifting(q, n)
  <2>1. \E r : r = [k \in 0 .. 16 |-> IF k = 0 THEN n ELSE r[k - 1] \div 4]
    BY <1>0, ShiftsExist
  <2>2. q = [k \in 0 .. 16 |-> IF k = 0 THEN n ELSE q[k - 1] \div 4]
    BY <2>1, Zenon
  <2> QED BY <2>2, Zenon DEF Shifting
<1>4. BranchName(n) = [k \in {i \in 1 .. 16 : q[i - 1] > 0} |-> q[k - 1] % 16]
  BY Zenon DEF BranchName
<1> HIDE DEF q
<1>5. \A k \in 0 .. 16 : q[k] = IF k = 0 THEN n ELSE q[k - 1] \div 4
  BY <1>2 DEF Shifting
<1>6. q[0] = n
  BY <1>5
<1>7. ASSUME NEW k \in 0 .. 15 PROVE q[k + 1] = q[k] \div 4
  <2>1. k + 1 \in 0 .. 16 /\ k + 1 # 0 /\ (k + 1) - 1 = k
    OBVIOUS
  <2> QED BY <1>5, <2>1
<1> DEFINE T == {k \in 0 .. 16 : q[k] \notin Nat}
<1>8. T = {}
  <2> SUFFICES ASSUME T # {} PROVE FALSE
    OBVIOUS
  <2>1. PICK k \in T : \A j \in T : k <= j
    <3>1. T \in SUBSET Nat
      OBVIOUS
    <3> HIDE DEF T
    <3> QED BY <3>1, SomeLeast
  <2>2. k # 0
    BY <1>6, <1>0, <2>1
  <2>3. PICK j \in 0 .. 15 : k = j + 1
    BY <2>1, <2>2
  <2>4. j \notin T /\ q[k] = q[j] \div 4
    BY <1>7, <2>1, <2>3
  <2>5. q[j] \in Nat
    BY <2>4
  <2> QED BY <2>1, <2>4, <2>5
<1>9. ASSUME NEW k \in 0 .. 12, NEW y \in Nat, q[k] < 256 * y
      PROVE  q[k + 4] < y
  <2>1. /\ q[k + 1] = q[k] \div 4 /\ q[k + 2] = q[k + 1] \div 4
        /\ q[k + 3] = q[k + 2] \div 4 /\ q[k + 4] = q[k + 3] \div 4
    <3>1. /\ k \in 0 .. 15 /\ k + 1 \in 0 .. 15 /\ k + 2 \in 0 .. 15 /\ k + 3 \in 0 .. 15
          /\ (k + 1) + 1 = k + 2 /\ (k + 2) + 1 = k + 3 /\ (k + 3) + 1 = k + 4
      OBVIOUS
    <3> QED BY <1>7, <3>1
  <2>2. /\ k \in 0 .. 16 /\ k + 1 \in 0 .. 16 /\ k + 2 \in 0 .. 16 /\ k + 3 \in 0 .. 16
    OBVIOUS
  <2>3. PICK a \in Nat, b \in Nat, c \in Nat, d \in Nat :
          a = q[k] /\ b = q[k + 1] /\ c = q[k + 2] /\ d = q[k + 3]
    BY <1>8, <2>2
  <2>4. b = a \div 4 /\ c = b \div 4 /\ d = c \div 4 /\ q[k + 4] = d \div 4 /\ a < 256 * y
    BY <1>9, <2>1, <2>3
  <2>5. ((((a \div 4) \div 4) \div 4) \div 4) < y
    BY <2>4
  <2> QED BY <2>4, <2>5
<1>10. q[0] < 256 * 16777216
  BY <1>6, SMT DEF TUint
<1>11. q[4] < 16777216
  BY <1>9, <1>10, SMT
<1>12. q[4] < 256 * 65536
  BY <1>11, SMT
<1>13. q[8] < 65536
  BY <1>9, <1>12, SMT
<1>14. q[8] < 256 * 256
  BY <1>13, SMT
<1>15. q[12] < 256
  BY <1>9, <1>14, SMT
<1>16. q[12] < 256 * 1
  BY <1>15, SMT
<1>17. q[16] < 1
  BY <1>9, <1>16, SMT
<1>19. \A k \in 0 .. 16 : q[k] \in Nat
  BY <1>8
<1>18. q \in [0 .. 16 -> Nat]
  BY <1>2, <1>19 DEF Shifting
<1>20. q[16] = 0
  BY <1>17, <1>19
<1> QED BY <1>4, <1>6, <1>7, <1>20, <1>18

\* Different numbers make different internal labels.
LEMMA NamesDiffer ==
  ASSUME NEW n \in TUint, NEW m \in TUint,
         InternalLabel(n) = InternalLabel(m)
  PROVE  n = m
<1>1. BranchName(n) = BranchName(m)
  <2>1. PICK x, y : x = BranchName(n) /\ y = BranchName(m)
    OBVIOUS
  <2>2. <<"branch", x>> = <<"branch", y>>
    BY <2>1, Zenon DEF InternalLabel
  <2> QED BY <2>1, <2>2
<1>2. PICK q : /\ q \in [0 .. 16 -> Nat] /\ q[0] = n /\ q[16] = 0
               /\ \A k \in 0 .. 15 : q[k + 1] = q[k] \div 4
               /\ BranchName(n) = [k \in {i \in 1 .. 16 : q[i - 1] > 0} |-> q[k - 1] % 16]
  BY NameIs
<1>3. PICK r : /\ r \in [0 .. 16 -> Nat] /\ r[0] = m /\ r[16] = 0
               /\ \A k \in 0 .. 15 : r[k + 1] = r[k] \div 4
               /\ BranchName(m) = [k \in {i \in 1 .. 16 : r[i - 1] > 0} |-> r[k - 1] % 16]
  BY NameIs
<1>4. [k \in {i \in 1 .. 16 : q[i - 1] > 0} |-> q[k - 1] % 16]
        = [k \in {i \in 1 .. 16 : r[i - 1] > 0} |-> r[k - 1] % 16]
  BY <1>1, <1>2, <1>3, Zenon
<1>5. \A k \in 1 .. 16 : q[k - 1] > 0 <=> r[k - 1] > 0
  BY <1>4, {i \in 1 .. 16 : q[i - 1] > 0} = {i \in 1 .. 16 : r[i - 1] > 0}
<1>6. \A k \in 1 .. 16 : q[k - 1] > 0 => q[k - 1] % 16 = r[k - 1] % 16
  BY <1>4
<1> DEFINE T == {k \in 0 .. 16 : q[16 - k] # r[16 - k]}
<1>7. T = {}
  <2> SUFFICES ASSUME T # {} PROVE FALSE
    OBVIOUS
  <2>1. PICK k \in T : \A j \in T : k <= j
    <3>1. T \in SUBSET Nat
      OBVIOUS
    <3> HIDE DEF T
    <3> QED BY <3>1, SomeLeast
  <2>2. k \in 0 .. 16 /\ k # 0
    BY <1>2, <1>3, <2>1
  <2>3. PICK j \in 0 .. 15 : k = 16 - j
    BY <2>2
  <2>4. q[j] # r[j] /\ q[j + 1] = r[j + 1]
    <3>1. k - 1 \notin T /\ k - 1 \in 0 .. 16 /\ 16 - (k - 1) = j + 1 /\ 16 - k = j
      BY <2>1, <2>2, <2>3
    <3> QED BY <2>1, <3>1
  <2>5. q[j] \div 4 = r[j] \div 4 /\ q[j] \in Nat /\ r[j] \in Nat
    BY <1>2, <1>3, <2>3, <2>4
  <2>6. (q[j] > 0 <=> r[j] > 0) /\ (q[j] > 0 => q[j] % 16 = r[j] % 16)
    <3>1. j + 1 \in 1 .. 16 /\ (j + 1) - 1 = j
      BY <2>3
    <3> QED BY <1>5, <1>6, <3>1
  <2>7. ASSUME NEW x \in Nat, NEW y \in Nat, x \div 4 = y \div 4, x % 16 = y % 16
        PROVE  x = y
    BY <2>7
  <2> QED BY <2>4, <2>5, <2>6, <2>7
<1>8. 16 \notin T
  BY <1>7
<1>9. 16 \in 0 .. 16 /\ 16 - 16 = 0
  OBVIOUS
<1>10. q[0] = r[0]
  BY <1>8, <1>9
<1> QED BY <1>2, <1>3, <1>10

-----------------------------------------------------------------------------
(* The back end: where items are, and what a branch reaches.               *)

\* An item has an address and a size.
LEMMA ItemPlace ==
  ASSUME NEW ws, NEW code, IsCode(code), GoodCode(ws, code), NEW m \in DOMAIN code
  PROVE  AddressOf(code, m) \in Nat /\ Size(code[m]) \in Nat
<1>1. DOMAIN code = 1 .. Len(code) /\ Len(code) \in Nat
  BY AddressIs
<1>2. m \in 1 .. Len(code) + 1
  BY <1>1
<1>3. AddressOf(code, m) \in Nat
  BY <1>2, AddressIsNat
<1>4. GoodItem(ws, code[m])
  BY DEF GoodCode
<1> QED BY <1>3, <1>4, SizeIsNat

\* Addresses grow along the code, and an item with bytes is where no other is.
LEMMA AddressGrows ==
  ASSUME NEW ws, NEW code, IsCode(code), GoodCode(ws, code),
         NEW m \in DOMAIN code, NEW n \in m + 1 .. Len(code) + 1
  PROVE  AddressOf(code, n) >= AddressOf(code, m) + Size(code[m])
<1>1. PICK l \in Nat : l = Len(code) /\ DOMAIN code = 1 .. l
  BY AddressIs
<1> DEFINE T == {k \in m + 1 .. l + 1 : ~(AddressOf(code, k) >= AddressOf(code, m) + Size(code[m]))}
<1>2. SUFFICES ASSUME T # {} PROVE FALSE
  BY <1>1
<1>3. PICK k \in T : \A j \in T : k <= j
  <2>1. T \in SUBSET Nat
    BY <1>1
  <2> HIDE DEF T
  <2> QED BY <1>2, <2>1, SomeLeast
<1>4. k \in m + 1 .. l + 1 /\ ~(AddressOf(code, k) >= AddressOf(code, m) + Size(code[m]))
  BY <1>3
<1>5. AddressOf(code, m + 1) = AddressOf(code, m) + Size(code[m])
  BY AddressIs
<1>6. AddressOf(code, m) \in Nat /\ Size(code[m]) \in Nat
  BY ItemPlace
<1>7. k # m + 1
  BY <1>4, <1>5, <1>6
<1>8. PICK j \in m + 1 .. l : k = j + 1
  BY <1>1, <1>4, <1>7
<1>9. AddressOf(code, j) >= AddressOf(code, m) + Size(code[m])
  <2>1. j \in m + 1 .. l + 1 /\ ~(k <= j)
    BY <1>1, <1>8
  <2>2. j \notin T
    BY <1>3, <2>1
  <2> QED BY <2>1, <2>2
<1>10. AddressOf(code, k) = AddressOf(code, j) + Size(code[j])
  BY <1>1, <1>8, AddressIs
<1>11. AddressOf(code, j) \in Nat /\ Size(code[j]) \in Nat
  BY <1>1, <1>8, ItemPlace
<1> QED BY <1>4, <1>6, <1>9, <1>10, <1>11

\* The instruction at the address of an item that has bytes is the item's.
LEMMA InstructionOf ==
  ASSUME NEW ws, NEW code, IsCode(code), GoodCode(ws, code), qcode = ConvertPcode(code),
         NEW n \in DOMAIN code, Size(code[n]) > 0
  PROVE  /\ InstructionAt(AddressOf(code, n)) = Instruction(code, n)
         /\ AddressOf(code, n) \in Nat /\ n \in DOMAIN qcode
<1>1. PICK l \in Nat : l = Len(code) /\ DOMAIN code = 1 .. l
  BY AddressIs
<1>2. PICK D : D = {m \in DOMAIN code : Size(code[m]) > 0}
  OBVIOUS
<1>3. DOMAIN qcode = D /\ \A m \in D : qcode[m] = Instruction(code, m)
  BY <1>2, Zenon DEF ConvertPcode
<1>4. \A m : Instruction(code, m).at = AddressOf(code, m)
  BY DEF Instruction
<1>5. ASSUME NEW m \in D, AddressOf(code, m) = AddressOf(code, n) PROVE m = n
  <2>1. m \in DOMAIN code /\ Size(code[m]) > 0
    BY <1>2
  <2>2. /\ AddressOf(code, m) \in Nat /\ AddressOf(code, n) \in Nat
        /\ Size(code[m]) \in Nat /\ Size(code[n]) \in Nat
    BY <2>1, ItemPlace
  <2>3. CASE m < n
    <3>1. n \in m + 1 .. Len(code) + 1
      BY <1>1, <2>1, <2>3
    <3>2. AddressOf(code, n) >= AddressOf(code, m) + Size(code[m])
      BY <2>1, <3>1, AddressGrows
    <3> QED BY <1>5, <2>1, <2>2, <3>2
  <2>4. CASE n < m
    <3>1. m \in n + 1 .. Len(code) + 1
      BY <1>1, <2>1, <2>4
    <3>2. AddressOf(code, m) >= AddressOf(code, n) + Size(code[n])
      BY <3>1, AddressGrows
    <3> QED BY <1>5, <2>2, <3>2
  <2> QED BY <1>1, <2>1, <2>3, <2>4
<1>6. n \in D
  BY <1>2
<1>7. PICK a : a = AddressOf(code, n)
  OBVIOUS
<1>8. \A k \in DOMAIN qcode : qcode[k].at = a <=> k = n
  BY <1>3, <1>4, <1>5, <1>6, <1>7
<1>9. \E k \in DOMAIN qcode : qcode[k].at = a
  BY <1>3, <1>6, <1>8
<1>10. PICK k : k = CHOOSE j \in DOMAIN qcode : qcode[j].at = a
  OBVIOUS
<1>11. k = n
  BY <1>8, <1>9, <1>10, Zenon
<1>12. InstructionAt(a) = qcode[k]
  BY <1>9, <1>10, Zenon DEF InstructionAt
<1>13. a \in Nat
  BY <1>1, <1>7, AddressIsNat
<1> QED BY <1>3, <1>6, <1>7, <1>11, <1>12, <1>13

\* Every label of the code is defined by one item.
OneEach(code) ==
  \A m, n \in DOMAIN code :
    code[m].op = "label" /\ code[n].op = "label" /\ code[m].to = code[n].to => m = n

\* Every distance fits.
Fitting(code) ==
  \A n \in DOMAIN code : \A k \in DOMAIN code[n].to :
    code[n].op = "label"
      \/ LabelAddress(code, code[n].to[k]) - AddressOf(code, n) \in -Reach .. Reach - 1

\* A label's address is that of the item that defines it.
LEMMA LabelAt ==
  ASSUME NEW code, OneEach(code), NEW l, NEW m \in DOMAIN code, Defines(code[m], l)
  PROVE  LabelAddress(code, l) = AddressOf(code, m)
<1>1. PICK k : k = CHOOSE n \in DOMAIN code : code[n].op = "label" /\ code[n].to = <<l>>
  OBVIOUS
<1>2. k \in DOMAIN code /\ code[k].op = "label" /\ code[k].to = <<l>>
  BY <1>1, Zenon DEF Defines
<1>3. k = m
  BY <1>2 DEF OneEach, Defines
<1> QED BY <1>1, <1>3, Zenon DEF LabelAddress

\* A branch of an instruction reaches the item that defines the label.
LEMMA BranchReaches ==
  ASSUME NEW ws, NEW code, IsCode(code), GoodCode(ws, code), OneEach(code), Fitting(code),
         NEW n \in DOMAIN code, code[n].op # "label", NEW k \in DOMAIN code[n].to,
         NEW m \in DOMAIN code, Defines(code[m], code[n].to[k])
  PROVE  LET i == Instruction(code, n) IN
         /\ i.at = AddressOf(code, n) /\ i.size = Size(code[n])
         /\ i.op = code[n].op /\ i.word = code[n].word
         /\ i.offsets[k] = AddressOf(code, m) - AddressOf(code, n)
         /\ DOMAIN i.offsets = DOMAIN code[n].to
<1>1. PICK l : l = code[n].to[k]
  OBVIOUS
<1>2. PICK t : t = code[n].to
  OBVIOUS
<1>3. PICK base : base = AddressOf(code, n)
  OBVIOUS
<1>4. PICK b : b = AddressOf(code, m)
  OBVIOUS
<1>5. base \in Nat /\ b \in Nat
  BY <1>3, <1>4, AddressIs, AddressIsNat
<1>6. LabelAddress(code, l) = b
  BY <1>1, <1>4, LabelAt
<1>7. b - base \in -Reach .. Reach - 1
  BY <1>1, <1>3, <1>6 DEF Fitting
<1>8. Patch16(b - base) = b - base
  <2>1. PICK d \in Int : d = b - base
    BY <1>5
  <2>2. d + Reach \in 0 .. 2 * Reach - 1 /\ Reach \in Nat \ {0}
    BY <1>7, <2>1, ReachAssumption
  <2>3. (d + Reach) % (2 * Reach) = d + Reach
    <3>1. PICK x \in Nat, y \in Nat : x = d + Reach /\ y = 2 * Reach /\ x < y
      BY <2>2
    <3>2. x % y = x
      BY <3>1
    <3> QED BY <3>1, <3>2
  <2> QED BY <2>1, <2>2, <2>3 DEF Patch16
<1>9. t # <<>>
  BY <1>2
<1>10. PICK i : i = Instruction(code, n)
  OBVIOUS
<1>11. i = [at |-> base, size |-> Size(code[n]), op |-> code[n].op, word |-> code[n].word,
            offsets |-> IF code[n].op = "onerr" /\ t = <<>> THEN <<0>>
                        ELSE [j \in DOMAIN t |-> Patch16(LabelAddress(code, t[j]) - base)]]
  BY <1>2, <1>3, <1>10, Zenon DEF Instruction
<1>12. i.offsets = [j \in DOMAIN t |-> Patch16(LabelAddress(code, t[j]) - base)]
  BY <1>9, <1>11
<1>13. i.offsets[k] = Patch16(LabelAddress(code, l) - base) /\ DOMAIN i.offsets = DOMAIN t
  BY <1>1, <1>2, <1>12
<1> QED BY <1>2, <1>3, <1>4, <1>6, <1>8, <1>10, <1>11, <1>13

-----------------------------------------------------------------------------
(* The p-code of a procedure, word by word.                                *)

Do(n, op, to) == [op |-> op, to |-> to, word |-> n]
Set(n, x) == Do(n, "label", <<InternalLabel(x)>>)
Go(n, op, x) == Do(n, op, <<InternalLabel(x)>>)
Stmt(n) == Do(n, "stmt", <<>>)
Cond(n) == Do(n, "cond", <<>>)

\* The opener of the innermost structure word n stands in; whether the
\* structure's ELSE is before n, and whether only labels are between n and a
\* RETURN.
StartIn(ws, n) == GreatestOf(InsideIn(ws, n))
AfterElse(ws, n) ==
  \E m \in 1 .. n - 1 : m > StartIn(ws, n) /\ ws[m].w = "ELSE" /\ DepthIn(ws, m) = DepthIn(ws, n)
AfterReturn(ws, n) ==
  \E m \in 1 .. n - 1 : ws[m].w = "RETURN" /\ \A k \in m + 1 .. n - 1 : ws[k].w = "LABEL"

\* What word n gives when the branches in force are b before and c after it.
JumpCode(ws, n, b) ==
  CASE ws[n].w = "LABEL" -> <<Do(n, "label", <<UserLabel(ws[n].ls[1])>>)>>
    [] ws[n].w = "S" -> <<Stmt(n), Do(n, "S", <<>>)>>
    [] ws[n].w = "EOS" -> <<Stmt(n)>>
    [] ws[n].w = "RETURN" -> <<Stmt(n), Do(n, "return", <<>>)>>
    [] ws[n].w = "GOTO" -> <<Stmt(n), Do(n, "goto", LabelsOf(ws[n]))>>
    [] ws[n].w = "ONERR" -> <<Stmt(n), Do(n, "onerr", LabelsOf(ws[n]))>>
    [] ws[n].w = "VECTOR" -> <<Stmt(n), Cond(n), Do(n, "vector", LabelsOf(ws[n]))>>
    [] ws[n].w = "BREAK" -> <<Stmt(n), Go(n, "goto", b.EBreak)>>
    [] ws[n].w = "CONTINUE" -> <<Stmt(n), Go(n, "goto", b.EContinue)>>
    [] ws[n].w = "ENDP" -> IF AfterReturn(ws, n) THEN <<>> ELSE <<Do(n, "return", <<>>)>>
StructureCode(ws, n, b, c) ==
  CASE ws[n].w = "IF" -> <<Stmt(n), Cond(n), Go(n, "brfalse", c.EFalse)>>
    [] ws[n].w = "DO" -> <<Stmt(n), Set(n, c.EFalse)>>
    [] ws[n].w = "WHILE" -> <<Stmt(n), Set(n, c.EContinue), Cond(n), Go(n, "brfalse", c.EFalse)>>
    [] ws[n].w = "ELSEIF" ->
         <<Go(n, "goto", b.EExit), Set(n, b.EFalse), Cond(n), Go(n, "brfalse", c.EFalse)>>
    [] ws[n].w = "ELSE" -> <<Go(n, "goto", b.EExit), Set(n, b.EFalse)>>
    [] ws[n].w = "ENDIF" -> IF AfterElse(ws, n) THEN <<Set(n, b.EExit)>>
                            ELSE <<Set(n, b.EFalse), Set(n, b.EExit)>>
    [] ws[n].w = "UNTIL" ->
         <<Set(n, b.EContinue), Cond(n), Go(n, "brfalse", b.EFalse), Set(n, b.EBreak)>>
    [] ws[n].w = "ENDWH" -> <<Go(n, "goto", b.EContinue), Set(n, b.EBreak), Set(n, b.EFalse)>>
Structured == Openers \cup Closers \cup {"ELSEIF", "ELSE"}
CodeOf(ws, n, b, c) ==
  IF ws[n].w \in Structured THEN StructureCode(ws, n, b, c) ELSE JumpCode(ws, n, b)

\* What the branches in force become; s are those before the structure.
SameLabels(c, b) ==
  c.EFalse = b.EFalse /\ c.EBreak = b.EBreak /\ c.EContinue = b.EContinue /\ c.EExit = b.EExit
Turn(w, b, c, s) ==
  /\ w = "IF" => /\ c.EExit = b.next /\ c.EFalse = b.next + 1 /\ c.next = b.next + 2
                 /\ c.EBreak = b.EBreak /\ c.EContinue = b.EContinue
  /\ w \in {"DO", "WHILE"} =>
       /\ c.EContinue = b.next /\ c.EBreak = b.next + 1 /\ c.EFalse = b.next + 2
       /\ c.EExit = b.EExit /\ c.next = b.next + 3
  /\ w = "ELSEIF" => /\ c.EFalse = b.next /\ c.next = b.next + 1
                     /\ c.EExit = b.EExit /\ c.EBreak = b.EBreak /\ c.EContinue = b.EContinue
  /\ w \in Closers => SameLabels(c, s) /\ c.next = b.next
  /\ w \notin Openers \cup Closers \cup {"ELSEIF"} => SameLabels(c, b) /\ c.next = b.next

\* Word n's items begin at item F[n], and H[n] are the branches after it.
Gives(ws, code, F, H, n) ==
  LET items == CodeOf(ws, n, H[n - 1], H[n]) IN
  /\ Len(items) \in Nat /\ F[n + 1] = F[n] + Len(items)
  /\ \A j \in 1 .. Len(items) : code[F[n] + j - 1] = items[j]
Laid(ws, code, F, H) ==
  /\ F \in [1 .. Len(ws) + 1 -> Nat \ {0}] /\ H \in [0 .. Len(ws) -> Branches]
  /\ F[1] = 1 /\ F[Len(ws) + 1] = Len(code) + 1 /\ \A n \in 1 .. Len(ws) : F[n] <= Len(code) + 1
  /\ H[0] = NoBranches
  /\ \A n \in 1 .. Len(ws) :
       Gives(ws, code, F, H, n) /\ Turn(ws[n].w, H[n - 1], H[n], H[StartIn(ws, n) - 1])

\* What a word gives depends on the words before it only.
LEMMA CodeOfBefore ==
  ASSUME NEW ws \in Seq(Word), NEW wd \in Word, NEW n \in 1 .. Len(ws), NEW b, NEW c
  PROVE  /\ CodeOf(Append(ws, wd), n, b, c) = CodeOf(ws, n, b, c)
         /\ StartIn(Append(ws, wd), n) = StartIn(ws, n)
         /\ Append(ws, wd)[n] = ws[n]
<1>1. PICK vs : vs = Append(ws, wd)
  OBVIOUS
<1>2. Len(ws) \in Nat /\ \A k \in 1 .. Len(ws) : vs[k] = ws[k]
  BY <1>1, Appended
<1>3. \A m \in 1 .. Len(ws) : DepthIn(vs, m) = DepthIn(ws, m) /\ InsideIn(vs, m) = InsideIn(ws, m)
  <2>1. \A m \in 1 .. Len(ws) : m \in 1 .. Len(ws) + 1
    BY <1>2
  <2> QED BY <1>1, <2>1, NextWord
<1>4. StartIn(vs, n) = StartIn(ws, n)
  BY <1>3, Zenon DEF StartIn
<1>5. AfterElse(vs, n) <=> AfterElse(ws, n)
  <2>1. \A m \in 1 .. n - 1 : m \in 1 .. Len(ws)
    BY <1>2
  <2>2. \A m \in 1 .. n - 1 : vs[m] = ws[m] /\ DepthIn(vs, m) = DepthIn(ws, m)
    BY <1>2, <1>3, <2>1
  <2>3. DepthIn(vs, n) = DepthIn(ws, n)
    BY <1>3
  <2> QED BY <1>4, <2>2, <2>3 DEF AfterElse
<1>6. AfterReturn(vs, n) <=> AfterReturn(ws, n)
  <2>1. \A m \in 1 .. n - 1 : vs[m] = ws[m]
    BY <1>2
  <2>2. \A m \in 1 .. n - 1 : \A k \in m + 1 .. n - 1 : k \in 1 .. n - 1
    OBVIOUS
  <2>3. ASSUME NEW m \in 1 .. n - 1
        PROVE  (\A k \in m + 1 .. n - 1 : vs[k].w = "LABEL") <=> \A k \in m + 1 .. n - 1 : ws[k].w = "LABEL"
    BY <2>1, <2>2, Zenon
  <2> QED BY <2>1, <2>3, Zenon DEF AfterReturn
<1>7. vs[n] = ws[n]
  BY <1>2
<1>8. JumpCode(vs, n, b) = JumpCode(ws, n, b) /\ StructureCode(vs, n, b, c) = StructureCode(ws, n, b, c)
  <2>1. JumpCode(vs, n, b) = JumpCode(ws, n, b)
    BY <1>6, <1>7 DEF JumpCode
  <2>2. StructureCode(vs, n, b, c) = StructureCode(ws, n, b, c)
    BY <1>5, <1>7 DEF StructureCode
  <2> QED BY <2>1, <2>2
<1>9. CodeOf(vs, n, b, c) = CodeOf(ws, n, b, c)
  BY <1>7, <1>8, Zenon DEF CodeOf
<1> QED BY <1>1, <1>4, <1>7, <1>9

\* The layout of one word more.
LEMMA LaidNext ==
  ASSUME NEW ws \in Seq(Word), NEW wd \in Word, NEW code, IsCode(code), NEW F, NEW H,
         Laid(ws, code, F, H), NEW c \in Branches, NEW items, IsCode(items),
         \A n \in 1 .. Len(ws) + 1 : Fits(Append(ws, wd), n),
         items = CodeOf(Append(ws, wd), Len(ws) + 1, H[Len(ws)], c),
         Turn(wd.w, H[Len(ws)], c, H[StartIn(Append(ws, wd), Len(ws) + 1) - 1])
  PROVE  \E G, K : /\ Laid(Append(ws, wd), code \o items, G, K) /\ K[Len(ws) + 1] = c
                   /\ \A k \in 0 .. Len(ws) : K[k] = H[k]
<1>1. PICK vs : vs = Append(ws, wd)
  OBVIOUS
<1>2. PICK l \in Nat : l = Len(ws)
  BY Appended
<1>3. Len(vs) = l + 1 /\ vs[l + 1] = wd /\ vs \in Seq(Word) /\ \A k \in 1 .. l : vs[k] = ws[k]
  BY <1>1, <1>2, Appended
<1>4. /\ Len(code) \in Nat /\ Len(items) \in Nat /\ Len(code \o items) = Len(code) + Len(items)
      /\ \A j \in 1 .. Len(code) : (code \o items)[j] = code[j]
      /\ \A j \in 1 .. Len(items) : (code \o items)[Len(code) + j] = items[j]
  <2>1. PICK S, T : code \in Seq(S) /\ items \in Seq(T)
    BY DEF IsCode
  <2>2. PICK U : U = S \cup T
    OBVIOUS
  <2>3. code \in Seq(U) /\ items \in Seq(U)
    BY <2>1, <2>2, WiderSeq
  <2>4. Len(code) \in Nat /\ Len(items) \in Nat
    BY <2>3, LenProperties
  <2> QED BY <2>3, <2>4, ConcatProperties
<1>5. PICK G : G = [n \in 1 .. l + 2 |-> IF n = l + 2 THEN Len(code) + Len(items) + 1 ELSE F[n]]
  OBVIOUS
<1>6. PICK K : K = [n \in 0 .. l + 1 |-> IF n = l + 1 THEN c ELSE H[n]]
  OBVIOUS
<1>7. /\ F \in [1 .. l + 1 -> Nat \ {0}] /\ H \in [0 .. l -> Branches]
      /\ F[1] = 1 /\ F[l + 1] = Len(code) + 1 /\ H[0] = NoBranches
      /\ \A n \in 1 .. l : F[n] <= Len(code) + 1
      /\ \A n \in 1 .. l : /\ Gives(ws, code, F, H, n)
                           /\ Turn(ws[n].w, H[n - 1], H[n], H[StartIn(ws, n) - 1])
  BY <1>2 DEF Laid
<1>8. /\ \A n \in 1 .. l + 1 : G[n] = F[n]
      /\ G[l + 2] = Len(code) + Len(items) + 1
      /\ \A n \in 0 .. l : K[n] = H[n]
      /\ K[l + 1] = c
  BY <1>5, <1>6
<1>9. \A n \in 1 .. l + 2 : G[n] \in Nat \ {0}
  <2> TAKE n \in 1 .. l + 2
  <2>1. CASE n = l + 2
    BY <1>4, <1>8, <2>1
  <2>2. CASE n # l + 2
    <3>1. n \in 1 .. l + 1
      BY <2>2
    <3> QED BY <1>7, <1>8, <3>1
  <2> QED BY <2>1, <2>2
<1>10. \A n \in 0 .. l + 1 : K[n] \in Branches
  <2> TAKE n \in 0 .. l + 1
  <2>1. CASE n = l + 1
    BY <1>8, <2>1
  <2>2. CASE n # l + 1
    <3>1. n \in 0 .. l
      BY <2>2
    <3> QED BY <1>7, <1>8, <3>1
  <2> QED BY <2>1, <2>2
<1>11. G \in [1 .. l + 2 -> Nat \ {0}] /\ K \in [0 .. l + 1 -> Branches]
  BY <1>5, <1>6, <1>9, <1>10
<1>12. ASSUME NEW n \in 1 .. l
       PROVE  /\ Gives(vs, code \o items, G, K, n)
              /\ Turn(vs[n].w, K[n - 1], K[n], K[StartIn(vs, n) - 1])
  <2>1. /\ Gives(ws, code, F, H, n) /\ Turn(ws[n].w, H[n - 1], H[n], H[StartIn(ws, n) - 1])
    BY <1>7
  <2>2. /\ CodeOf(vs, n, H[n - 1], H[n]) = CodeOf(ws, n, H[n - 1], H[n])
        /\ StartIn(vs, n) = StartIn(ws, n) /\ vs[n] = ws[n]
    BY <1>1, <1>2, CodeOfBefore
  <2>3. K[n - 1] = H[n - 1] /\ K[n] = H[n] /\ G[n] = F[n] /\ G[n + 1] = F[n + 1]
    BY <1>8
  <2>4. PICK its : its = CodeOf(ws, n, H[n - 1], H[n])
    OBVIOUS
  <2>5. /\ Len(its) \in Nat /\ F[n + 1] = F[n] + Len(its)
        /\ \A j \in 1 .. Len(its) : code[F[n] + j - 1] = its[j]
    BY <2>1, <2>4, Zenon DEF Gives
  <2>6. F[n] \in Nat \ {0} /\ F[n + 1] <= Len(code) + 1
    BY <1>7, n \in 1 .. l + 1, n + 1 \in 1 .. l \/ n + 1 = l + 1, <1>4
  <2>7. ASSUME NEW j \in 1 .. Len(its) PROVE (code \o items)[G[n] + j - 1] = its[j]
    <3>1. PICK f, g, k, m : f = F[n] /\ g = F[n + 1] /\ k = Len(its) /\ m = Len(code)
      OBVIOUS
    <3>2. f \in Nat \ {0} /\ k \in Nat /\ m \in Nat /\ g = f + k /\ g <= m + 1 /\ j \in 1 .. k
      BY <1>4, <2>5, <2>6, <3>1
    <3>3. f + j - 1 \in 1 .. m
      BY <3>2
    <3> QED BY <1>4, <2>3, <2>5, <3>1, <3>3
  <2>8. Gives(vs, code \o items, G, K, n)
    <3>1. its = CodeOf(vs, n, K[n - 1], K[n])
      BY <2>2, <2>3, <2>4
    <3>2. G[n + 1] = G[n] + Len(its)
      BY <2>3, <2>5
    <3> QED BY <2>5, <2>7, <3>1, <3>2, Zenon DEF Gives
  <2>9. Turn(vs[n].w, K[n - 1], K[n], K[StartIn(vs, n) - 1])
    <3>1. CASE ws[n].w \in Closers
      <4>1. StartIn(vs, n) \in 1 .. n - 1
        <5>1. Fits(vs, n) /\ n \in Nat \ {0}
          BY <1>1, <1>2
        <5> QED BY <2>2, <3>1, <5>1, OpenerFound DEF StartIn
      <4>2. K[StartIn(vs, n) - 1] = H[StartIn(ws, n) - 1]
        <5>1. PICK s \in 1 .. n - 1 : s = StartIn(vs, n)
          BY <4>1
        <5>2. s - 1 \in 0 .. l
          BY <5>1, <1>2
        <5> QED BY <1>8, <2>2, <5>1, <5>2
      <4> QED BY <2>1, <2>2, <2>3, <4>2
    <3>2. CASE ws[n].w \notin Closers
      <4>1. \A s, t : Turn(ws[n].w, H[n - 1], H[n], s) => Turn(ws[n].w, H[n - 1], H[n], t)
        BY <3>2, Zenon DEF Turn
      <4> QED BY <2>1, <2>2, <2>3, <4>1
    <3> QED BY <3>1, <3>2
  <2> QED BY <2>8, <2>9
<1>13. Gives(vs, code \o items, G, K, l + 1)
  <2>1. items = CodeOf(vs, l + 1, K[(l + 1) - 1], K[l + 1])
    <3>1. (l + 1) - 1 = l /\ K[l] = H[l] /\ K[l + 1] = c
      BY <1>8
    <3> QED BY <1>1, <1>2, <3>1
  <2>2. G[l + 1] = Len(code) + 1 /\ G[(l + 1) + 1] = G[l + 1] + Len(items)
    BY <1>4, <1>7, <1>8
  <2>3. ASSUME NEW j \in 1 .. Len(items) PROVE (code \o items)[G[l + 1] + j - 1] = items[j]
    <3>1. G[l + 1] + j - 1 = Len(code) + j
      BY <1>4, <2>2
    <3> QED BY <1>4, <3>1
  <2> QED BY <1>4, <2>1, <2>2, <2>3, Zenon DEF Gives
<1>14. Turn(vs[l + 1].w, K[(l + 1) - 1], K[l + 1], K[StartIn(vs, l + 1) - 1])
  <2>1. K[(l + 1) - 1] = H[l] /\ K[l + 1] = c
    BY <1>8
  <2>2. CASE wd.w \in Closers
    <3>1. StartIn(vs, l + 1) \in 1 .. (l + 1) - 1
      <4>1. Fits(vs, l + 1) /\ l + 1 \in Nat \ {0}
        BY <1>1, <1>2
      <4> QED BY <1>3, <2>2, <4>1, OpenerFound DEF StartIn
    <3>2. K[StartIn(vs, l + 1) - 1] = H[StartIn(vs, l + 1) - 1]
      BY <1>8, <3>1
    <3> QED BY <1>1, <1>2, <1>3, <2>1, <3>2
  <2>3. CASE wd.w \notin Closers
    <3>1. \A s, t : Turn(wd.w, H[l], c, s) => Turn(wd.w, H[l], c, t)
      BY <2>3, Zenon DEF Turn
    <3> QED BY <1>1, <1>2, <1>3, <2>1, <3>1
  <2> QED BY <2>2, <2>3
<1>15. /\ G[1] = 1 /\ K[0] = NoBranches
       /\ G[(l + 1) + 1] = Len(code \o items) + 1
       /\ \A n \in 1 .. l + 1 : G[n] <= Len(code \o items) + 1
  <2>1. G[1] = 1 /\ K[0] = NoBranches /\ G[(l + 1) + 1] = Len(code \o items) + 1
    BY <1>4, <1>7, <1>8
  <2>2. ASSUME NEW n \in 1 .. l + 1 PROVE G[n] <= Len(code \o items) + 1
    <3>1. F[n] <= Len(code) + 1 /\ F[n] \in Nat
      BY <1>4, <1>7, n \in 1 .. l \/ n = l + 1
    <3> QED BY <1>4, <1>8, <3>1
  <2> QED BY <2>1, <2>2
<1>16. ASSUME NEW n \in 1 .. l + 1
       PROVE  /\ Gives(vs, code \o items, G, K, n)
              /\ Turn(vs[n].w, K[n - 1], K[n], K[StartIn(vs, n) - 1])
  <2>1. n \in 1 .. l \/ n = l + 1
    OBVIOUS
  <2> QED BY <1>12, <1>13, <1>14, <2>1
<1>17. Laid(vs, code \o items, G, K)
  <2>1. (l + 1) + 1 = l + 2
    OBVIOUS
  <2> QED BY <1>3, <1>11, <1>15, <1>16, <2>1 DEF Laid
<1> QED BY <1>1, <1>2, <1>8, <1>17

\* An activation has saved the branches before its structure's first word.
Saved(ws, fs, b, H) ==
  /\ H[Len(ws)] = b
  /\ \A k \in InsideIn(ws, Len(ws) + 1) : fs[DepthIn(ws, k) + 1].saved = H[k - 1]

\* The structures the next word stands in have an activation each.
LEMMA InsidePlaces ==
  ASSUME NEW ws, NEW fs, NEW b, NestOK(ws, fs, b), NEW k \in InsideIn(ws, Len(ws) + 1)
  PROVE  /\ k \in 1 .. Len(ws) /\ DepthIn(ws, k) + 1 \in 1 .. Len(fs)
         /\ DepthIn(ws, k) \in Int /\ Len(fs) \in Nat /\ Len(ws) \in Nat
         /\ DepthIn(ws, Len(ws) + 1) = Len(fs)
<1>1. PICK p : Places(ws, fs, p)
  BY DEF NestOK
<1>2. Len(fs) \in Nat /\ Len(ws) \in Nat
  BY LenProperties DEF NestOK, Activations
<1>3. PICK j \in 1 .. Len(fs) : k = p[j]
  BY <1>1 DEF Places
<1>4. p[j] \in 1 .. Len(ws) /\ DepthIn(ws, p[j]) = j - 1 /\ DepthIn(ws, Len(ws) + 1) = Len(fs)
  BY <1>1 DEF Places
<1> QED BY <1>2, <1>3, <1>4

\* A word that neither opens nor closes leaves what the activations saved.
LEMMA SavedWithin ==
  ASSUME NEW ws, NEW fs, NEW b, NestOK(ws, fs, b), NEW H, Saved(ws, fs, b, H),
         NEW wd \in Word, wd.w \notin Openers \cup Closers, NEW gs,
         \A j \in 1 .. Len(fs) : gs[j].saved = fs[j].saved,
         NEW c, NEW K, K[Len(ws) + 1] = c, \A k \in 0 .. Len(ws) : K[k] = H[k]
  PROVE  Saved(Append(ws, wd), gs, c, K)
<1>1. PICK vs : vs = Append(ws, wd)
  OBVIOUS
<1>2. ws \in Seq(Word) /\ Len(ws) \in Nat
  BY LenProperties DEF NestOK
<1>3. Len(vs) = Len(ws) + 1
  BY <1>1, <1>2, Appended
<1>4. ASSUME NEW k \in InsideIn(vs, Len(vs) + 1) PROVE gs[DepthIn(vs, k) + 1].saved = K[k - 1]
  <2>1. k \in InsideIn(vs, Len(ws) + 2)
    BY <1>2, <1>3
  <2>2. k \in InsideIn(ws, Len(ws) + 1) \/ (k = Len(ws) + 1 /\ wd.w \in Openers)
    BY <1>1, <1>2, <2>1, WordAfter
  <2>3. k \in InsideIn(ws, Len(ws) + 1)
    BY <2>2
  <2>4. k \in 1 .. Len(ws) /\ DepthIn(ws, k) + 1 \in 1 .. Len(fs)
    BY <2>3, InsidePlaces
  <2>5. DepthIn(vs, k) = DepthIn(ws, k)
    BY <1>1, <1>2, <2>4, NextWord
  <2>6. fs[DepthIn(ws, k) + 1].saved = H[k - 1]
    BY <2>3 DEF Saved
  <2>7. K[k - 1] = H[k - 1]
    BY <1>2, <2>4
  <2> QED BY <2>4, <2>5, <2>6, <2>7
<1>5. K[Len(vs)] = c
  BY <1>3
<1> QED BY <1>1, <1>4, <1>5 DEF Saved

\* A word that opens a structure saves the branches in force before it.
LEMMA SavedOpened ==
  ASSUME NEW ws, NEW fs, NEW b, NestOK(ws, fs, b), NEW H, Saved(ws, fs, b, H),
         NEW wd \in Word, wd.w \in Openers,
         NEW f \in [kind : Kinds, saved : Branches], f.saved = b,
         NEW c, NEW K, K[Len(ws) + 1] = c, \A k \in 0 .. Len(ws) : K[k] = H[k]
  PROVE  Saved(Append(ws, wd), Append(fs, f), c, K)
<1>1. PICK vs : vs = Append(ws, wd)
  OBVIOUS
<1>2. ws \in Seq(Word) /\ Len(ws) \in Nat /\ fs \in Activations /\ Len(fs) \in Nat
  BY LenProperties DEF NestOK, Activations
<1>3. Len(vs) = Len(ws) + 1
  BY <1>1, <1>2, Appended
<1>4. PICK gs : gs = Append(fs, f)
  OBVIOUS
<1>5. gs[Len(fs) + 1] = f /\ \A j \in 1 .. Len(fs) : gs[j] = fs[j]
  BY <1>2, <1>4, Appended DEF Activations
<1>6. ASSUME NEW k \in InsideIn(vs, Len(vs) + 1) PROVE gs[DepthIn(vs, k) + 1].saved = K[k - 1]
  <2>1. k \in InsideIn(vs, Len(ws) + 2)
    BY <1>2, <1>3
  <2>2. k \in InsideIn(ws, Len(ws) + 1) \/ k = Len(ws) + 1
    BY <1>1, <1>2, <2>1, WordAfter
  <2>3. CASE k \in InsideIn(ws, Len(ws) + 1)
    <3>1. k \in 1 .. Len(ws) /\ DepthIn(ws, k) + 1 \in 1 .. Len(fs)
      BY <2>3, InsidePlaces
    <3>2. DepthIn(vs, k) = DepthIn(ws, k)
      BY <1>1, <1>2, <3>1, NextWord
    <3>3. fs[DepthIn(ws, k) + 1].saved = H[k - 1]
      BY <2>3 DEF Saved
    <3>4. K[k - 1] = H[k - 1]
      BY <1>2, <3>1
    <3> QED BY <1>5, <3>1, <3>2, <3>3, <3>4
  <2>4. CASE k = Len(ws) + 1
    <3>1. DepthIn(vs, k) = DepthIn(ws, k)
      BY <1>1, <1>2, <2>4, NextWord
    <3>2. DepthIn(ws, k) = Len(fs)
      BY <2>4 DEF NestOK, Places
    <3>3. K[k - 1] = b
      <4>1. k - 1 = Len(ws) /\ Len(ws) \in 0 .. Len(ws)
        BY <1>2, <2>4
      <4> QED BY <4>1 DEF Saved
    <3> QED BY <1>5, <3>1, <3>2, <3>3
  <2> QED BY <2>2, <2>3, <2>4
<1>7. K[Len(vs)] = c
  BY <1>3
<1> QED BY <1>1, <1>4, <1>6, <1>7 DEF Saved

\* A word that closes a structure leaves what the outer ones saved.
LEMMA SavedClosed ==
  ASSUME NEW ws, NEW fs, NEW b, NestOK(ws, fs, b), NEW H, Saved(ws, fs, b, H), Len(fs) # 0,
         NEW wd \in Word, wd.w \in Closers,
         NEW c, NEW K, K[Len(ws) + 1] = c, \A k \in 0 .. Len(ws) : K[k] = H[k]
  PROVE  Saved(Append(ws, wd), Front(fs), c, K)
<1>1. PICK vs : vs = Append(ws, wd)
  OBVIOUS
<1>2. ws \in Seq(Word) /\ Len(ws) \in Nat /\ fs \in Activations /\ Len(fs) \in Nat
  BY LenProperties DEF NestOK, Activations
<1>3. Len(vs) = Len(ws) + 1
  BY <1>1, <1>2, Appended
<1>4. PICK gs : gs = Front(fs)
  OBVIOUS
<1>5. \A j \in 1 .. Len(fs) - 1 : gs[j] = fs[j]
  <2>1. PICK d \in Nat : Len(fs) = d + 1
    BY <1>2
  <2>2. \A j \in 1 .. d : gs[j] = fs[j]
    BY <1>2, <1>4, <2>1, FrontOf DEF Activations
  <2> QED BY <2>1, <2>2
<1>6. ASSUME NEW k \in InsideIn(vs, Len(vs) + 1) PROVE gs[DepthIn(vs, k) + 1].saved = K[k - 1]
  <2>1. k \in InsideIn(vs, Len(ws) + 2)
    BY <1>2, <1>3
  <2>2. /\ k \in InsideIn(ws, Len(ws) + 1) \/ (k = Len(ws) + 1 /\ wd.w \in Openers)
        /\ DepthIn(ws, k) < DepthIn(vs, Len(ws) + 2)
        /\ DepthIn(vs, Len(ws) + 2) = DepthIn(ws, Len(ws) + 1) - 1
    BY <1>1, <1>2, <2>1, WordAfter
  <2>3. k \in InsideIn(ws, Len(ws) + 1)
    BY <2>2 DEF Openers, Closers
  <2>4. /\ k \in 1 .. Len(ws) /\ DepthIn(ws, k) + 1 \in 1 .. Len(fs) /\ DepthIn(ws, k) \in Int
        /\ DepthIn(ws, Len(ws) + 1) = Len(fs)
    BY <2>3, InsidePlaces
  <2>5. DepthIn(ws, k) + 1 \in 1 .. Len(fs) - 1
    BY <1>2, <2>2, <2>4
  <2>6. DepthIn(vs, k) = DepthIn(ws, k)
    BY <1>1, <1>2, <2>4, NextWord
  <2>7. fs[DepthIn(ws, k) + 1].saved = H[k - 1]
    BY <2>3 DEF Saved
  <2>8. K[k - 1] = H[k - 1]
    BY <1>2, <2>4
  <2> QED BY <1>5, <2>5, <2>6, <2>7, <2>8
<1>7. K[Len(vs)] = c
  BY <1>3
<1> QED BY <1>1, <1>4, <1>6, <1>7 DEF Saved

\* The innermost activation: its structure, what it saved, and its ELSE.
LEMMA InnermostSaved ==
  ASSUME NEW ws, NEW fs, NEW b, NestOK(ws, fs, b), NEW H, Saved(ws, fs, b, H), Len(fs) # 0,
         NEW wd \in Word
  PROVE  LET n == Len(ws) + 1
             vs == Append(ws, wd) IN
         /\ StartIn(vs, n) \in 1 .. Len(ws)
         /\ fs[Len(fs)].saved = H[StartIn(vs, n) - 1]
         /\ fs[Len(fs)].kind = "IF" => ~AfterElse(vs, n)
         /\ fs[Len(fs)].kind = "ELSE" => AfterElse(vs, n)
<1>1. PICK vs : vs = Append(ws, wd)
  OBVIOUS
<1>2. PICK p : Places(ws, fs, p)
  BY DEF NestOK
<1>3. ws \in Seq(Word) /\ Len(ws) \in Nat /\ fs \in Activations /\ Len(fs) \in Nat
  BY LenProperties DEF NestOK, Activations
<1>4. PICK g : g = p[Len(fs)]
  OBVIOUS
<1>5. g \in 1 .. Len(ws) /\ GreatestOf(InsideIn(ws, Len(ws) + 1)) = g
  BY <1>2, <1>3, <1>4, InnermostPlace
<1>6. /\ DepthIn(ws, g) = Len(fs) - 1 /\ g \in InsideIn(ws, Len(ws) + 1)
      /\ DepthIn(ws, Len(ws) + 1) = Len(fs)
      /\ fs[Len(fs)].kind = "IF" => ~ElseIn(ws, g, Len(ws), Len(fs))
      /\ fs[Len(fs)].kind = "ELSE" => ElseIn(ws, g, Len(ws), Len(fs))
  <2>1. Len(fs) \in 1 .. Len(fs)
    BY <1>3
  <2> QED BY <1>2, <1>4, <2>1 DEF Places
<1>7. \A m \in 1 .. Len(ws) + 1 : DepthIn(vs, m) = DepthIn(ws, m) /\ InsideIn(vs, m) = InsideIn(ws, m)
  BY <1>1, <1>3, NextWord
<1>8. StartIn(vs, Len(ws) + 1) = g
  <2>1. InsideIn(vs, Len(ws) + 1) = InsideIn(ws, Len(ws) + 1)
    BY <1>3, <1>7
  <2> QED BY <1>5, <2>1, Zenon DEF StartIn
<1>9. fs[Len(fs)].saved = H[g - 1]
  <2>1. DepthIn(ws, g) + 1 = Len(fs)
    BY <1>3, <1>6
  <2> QED BY <1>6, <2>1 DEF Saved
<1>10. AfterElse(vs, Len(ws) + 1) <=> ElseIn(ws, g, Len(ws), Len(fs))
  <2>1. DepthIn(vs, Len(ws) + 1) = Len(fs) /\ (Len(ws) + 1) - 1 = Len(ws)
    BY <1>3, <1>6, <1>7
  <2>2. \A m \in 1 .. Len(ws) : vs[m] = ws[m] /\ DepthIn(vs, m) = DepthIn(ws, m)
    BY <1>1, <1>3, <1>7, Appended
  <2>3. \A m : m \in g + 1 .. Len(ws) <=> m \in 1 .. Len(ws) /\ m > g
    BY <1>3, <1>5
  <2> QED BY <1>8, <2>1, <2>2, <2>3 DEF AfterElse, ElseIn
<1> QED BY <1>1, <1>5, <1>6, <1>8, <1>9, <1>10

-----------------------------------------------------------------------------
(* The parser lays the code word by word.                                  *)

\* The tuples that short pieces of code make.
LEMMA JoinedPairs ==
  ASSUME NEW a, NEW b, NEW c, NEW d
  PROVE  <<a, b>> \o <<c, d>> = <<a, b, c, d>>
<1> DEFINE S == {a, b, c, d}
<1>0. <<a, b>> \in Seq(S) /\ <<c, d>> \in Seq(S) /\ <<a, b, c, d>> \in Seq(S)
  OBVIOUS
<1> HIDE DEF S
<1>1. PICK x \in Seq(S), y \in Seq(S) : x = <<a, b>> /\ y = <<c, d>>
  BY <1>0
<1>2. PICK z : z = x \o y
  OBVIOUS
<1>3. z \in Seq(S) /\ Len(z) = 4 /\ z[1] = a /\ z[2] = b /\ z[3] = c /\ z[4] = d
  BY <1>1, <1>2
<1>4. PICK w \in Seq(S) : w = <<a, b, c, d>>
  BY <1>0
<1>5. Len(w) = 4 /\ w[1] = a /\ w[2] = b /\ w[3] = c /\ w[4] = d
  BY <1>4
<1>6. \A i \in 1 .. Len(z) : z[i] = w[i]
  <2> TAKE i \in 1 .. Len(z)
  <2>1. i = 1 \/ i = 2 \/ i = 3 \/ i = 4
    BY <1>3
  <2> QED BY <1>3, <1>5, <2>1
<1>7. z = w
  BY <1>3, <1>5, <1>6, SeqEqual
<1> QED BY <1>1, <1>4, <1>7, <1>2

\* Short sequences joined.
LEMMA JoinedThree == ASSUME NEW a, NEW b, NEW c PROVE <<a>> \o <<b, c>> = <<a, b, c>>
<1> DEFINE S == {a, b, c}
<1>1. <<a>> \in Seq(S) /\ <<b, c>> \in Seq(S) /\ <<a, b, c>> \in Seq(S)
  OBVIOUS
<1> HIDE DEF S
<1>2. PICK x \in Seq(S), y \in Seq(S) : x = <<a>> /\ y = <<b, c>>
  BY <1>1
<1>3. PICK z : z = x \o y
  OBVIOUS
<1>4. z \in Seq(S) /\ Len(z) = 3 /\ z[1] = a /\ z[2] = b /\ z[3] = c
  BY <1>2, <1>3
<1>5. PICK w \in Seq(S) : w = <<a, b, c>>
  BY <1>1
<1>6. Len(w) = 3 /\ w[1] = a /\ w[2] = b /\ w[3] = c
  BY <1>5
<1>7. \A i \in 1 .. Len(z) : z[i] = w[i]
  <2> TAKE i \in 1 .. Len(z)
  <2>1. i = 1 \/ i = 2 \/ i = 3
    BY <1>4
  <2> QED BY <1>4, <1>6, <2>1
<1>8. z = w
  BY <1>4, <1>6, <1>7, SeqEqual
<1> QED BY <1>2, <1>3, <1>5, <1>8

\* More of them.
LEMMA Joined ==
  ASSUME NEW a, NEW b, NEW c, NEW d
  PROVE  /\ <<a>> \o <<b>> = <<a, b>> /\ <<a>> \o <<b, c>> = <<a, b, c>>
         /\ <<a>> \o <<b, c, d>> = <<a, b, c, d>> /\ <<a, b>> \o <<c, d>> = <<a, b, c, d>>
         /\ <<a, b, c>> \o <<d>> = <<a, b, c, d>>
         /\ <<a>> \o <<>> = <<a>> /\ <<>> \o <<a>> = <<a>>
<1> DEFINE S == {a, b, c, d}
<1>1. /\ <<a>> \in Seq(S)
      /\ <<b>> \in Seq(S)
      /\ <<d>> \in Seq(S)
      /\ <<a, b>> \in Seq(S)
      /\ <<b, c>> \in Seq(S)
      /\ <<c, d>> \in Seq(S)
      /\ <<a, b, c>> \in Seq(S)
      /\ <<b, c, d>> \in Seq(S)
      /\ <<a, b, c, d>> \in Seq(S)
  OBVIOUS
<1> HIDE DEF S
<1>2. <<a>> \o <<b>> = <<a, b>>
  <2>1. PICK x \in Seq(S), y \in Seq(S) : x = <<a>> /\ y = <<b>>
    BY <1>1
  <2>2. PICK z : z = x \o y
    OBVIOUS
  <2>3. z \in Seq(S) /\ Len(z) = 2 /\ z[1] = a /\ z[2] = b
    BY <2>1, <2>2
  <2>4. PICK w \in Seq(S) : w = <<a, b>>
    BY <1>1
  <2>5. Len(w) = 2 /\ w[1] = a /\ w[2] = b
    BY <2>4
  <2>6. \A i \in 1 .. Len(z) : z[i] = w[i]
    <3> TAKE i \in 1 .. Len(z)
    <3>1. i = 1 \/ i = 2
      BY <2>3
    <3> QED BY <2>3, <2>5, <3>1
  <2>7. z = w
    BY <2>3, <2>5, <2>6, SeqEqual
  <2> QED BY <2>1, <2>2, <2>4, <2>7
<1>3. <<a>> \o <<b, c>> = <<a, b, c>>
  BY JoinedThree
<1>4. <<a>> \o <<b, c, d>> = <<a, b, c, d>>
  <2>1. PICK x \in Seq(S), y \in Seq(S) : x = <<a>> /\ y = <<b, c, d>>
    BY <1>1
  <2>2. PICK z : z = x \o y
    OBVIOUS
  <2>3. z \in Seq(S) /\ Len(z) = 4 /\ z[1] = a /\ z[2] = b /\ z[3] = c /\ z[4] = d
    BY <2>1, <2>2
  <2>4. PICK w \in Seq(S) : w = <<a, b, c, d>>
    BY <1>1
  <2>5. Len(w) = 4 /\ w[1] = a /\ w[2] = b /\ w[3] = c /\ w[4] = d
    BY <2>4
  <2>6. \A i \in 1 .. Len(z) : z[i] = w[i]
    <3> TAKE i \in 1 .. Len(z)
    <3>1. i = 1 \/ i = 2 \/ i = 3 \/ i = 4
      BY <2>3
    <3> QED BY <2>3, <2>5, <3>1
  <2>7. z = w
    BY <2>3, <2>5, <2>6, SeqEqual
  <2> QED BY <2>1, <2>2, <2>4, <2>7
<1>5. <<a, b>> \o <<c, d>> = <<a, b, c, d>>
  BY JoinedPairs
<1>6. <<a, b, c>> \o <<d>> = <<a, b, c, d>>
  <2>1. PICK x \in Seq(S), y \in Seq(S) : x = <<a, b, c>> /\ y = <<d>>
    BY <1>1
  <2>2. PICK z : z = x \o y
    OBVIOUS
  <2>3. z \in Seq(S) /\ Len(z) = 4 /\ z[1] = a /\ z[2] = b /\ z[3] = c /\ z[4] = d
    BY <2>1, <2>2
  <2>4. PICK w \in Seq(S) : w = <<a, b, c, d>>
    BY <1>1
  <2>5. Len(w) = 4 /\ w[1] = a /\ w[2] = b /\ w[3] = c /\ w[4] = d
    BY <2>4
  <2>6. \A i \in 1 .. Len(z) : z[i] = w[i]
    <3> TAKE i \in 1 .. Len(z)
    <3>1. i = 1 \/ i = 2 \/ i = 3 \/ i = 4
      BY <2>3
    <3> QED BY <2>3, <2>5, <3>1
  <2>7. z = w
    BY <2>3, <2>5, <2>6, SeqEqual
  <2> QED BY <2>1, <2>2, <2>4, <2>7
<1>7. <<a>> \o <<>> = <<a>> /\ <<>> \o <<a>> = <<a>>
  BY <1>1
<1> QED BY <1>2, <1>3, <1>4, <1>5, <1>6, <1>7

\* The items of the next word.
LEMMA ItemsAre ==
  ASSUME NEW n, n = Len(words) + 1
  PROVE  /\ Statement = Stmt(n)
         /\ \A op, to : Item(op, to) = Do(n, op, to)
         /\ \A b : /\ SetBranch(b, "EFalse") = Set(n, b.EFalse)
                   /\ SetBranch(b, "EBreak") = Set(n, b.EBreak)
                   /\ SetBranch(b, "EContinue") = Set(n, b.EContinue)
                   /\ SetBranch(b, "EExit") = Set(n, b.EExit)
         /\ \A b, op : /\ DoBranch(b, "EFalse", op) = Go(n, op, b.EFalse)
                       /\ DoBranch(b, "EBreak", op) = Go(n, op, b.EBreak)
                       /\ DoBranch(b, "EContinue", op) = Go(n, op, b.EContinue)
                       /\ DoBranch(b, "EExit", op) = Go(n, op, b.EExit)
         /\ \A b : ConditionalExpression(b) = <<Cond(n), Go(n, "brfalse", b.EFalse)>>
<1>1. \A op, to : Item(op, to) = Do(n, op, to)
  BY DEF Item, Do
<1>2. \A b : /\ SetBranch(b, "EFalse") = Set(n, b.EFalse)
             /\ SetBranch(b, "EBreak") = Set(n, b.EBreak)
             /\ SetBranch(b, "EContinue") = Set(n, b.EContinue)
             /\ SetBranch(b, "EExit") = Set(n, b.EExit)
  BY <1>1, LabelKinds, Zenon DEF SetBranch, Set
<1>3. \A b, op : /\ DoBranch(b, "EFalse", op) = Go(n, op, b.EFalse)
                 /\ DoBranch(b, "EBreak", op) = Go(n, op, b.EBreak)
                 /\ DoBranch(b, "EContinue", op) = Go(n, op, b.EContinue)
                 /\ DoBranch(b, "EExit", op) = Go(n, op, b.EExit)
  BY <1>1, LabelKinds, Zenon DEF DoBranch, Go
<1>4. Statement = Stmt(n)
  BY <1>1, Zenon DEF Statement, Stmt
<1>5. \A b : ConditionalExpression(b) = <<Cond(n), Go(n, "brfalse", b.EFalse)>>
  BY <1>1, <1>3, Zenon DEF ConditionalExpression, Cond
<1> QED BY <1>1, <1>2, <1>3, <1>4, <1>5

\* What a word adds to the layout.
SavesOn(wd, H) ==
  \A K : K[Len(words) + 1] = iBranches' /\ (\A k \in 0 .. Len(words) : K[k] = H[k]) =>
    Saved(Append(words, wd), frames', iBranches', K)
Adds(wd, H) ==
  /\ words' = Append(words, wd) /\ iBranches' \in Branches
  /\ \E items : /\ iCode' = iCode \o items /\ IsCode(items)
                /\ items = CodeOf(Append(words, wd), Len(words) + 1, iBranches, iBranches')
  /\ Turn(wd.w, iBranches, iBranches', H[StartIn(Append(words, wd), Len(words) + 1) - 1])
  /\ SavesOn(wd, H)
Taking(wd, F, H) ==
  /\ Parsing /\ Parsing' /\ phase = "parse" /\ phase' = "parse" /\ wd \in Word
  /\ Laid(words, iCode, F, H) /\ Saved(words, frames, iBranches, H)

\* The types of a parser that takes a word.
LEMMA TakingIs ==
  ASSUME NEW wd, NEW F, NEW H, Taking(wd, F, H)
  PROVE  /\ words \in Seq(Word) /\ Len(words) \in Nat /\ iBranches \in Branches /\ iBranches' \in Branches
         /\ Append(words, wd)[Len(words) + 1] = wd /\ frames \in Activations /\ Len(frames) \in Nat
         /\ NestOK(words, frames, iBranches)
         /\ ~Fail(wd)
<1>1. Parsing /\ Parsing' /\ wd \in Word /\ phase' = "parse"
  BY DEF Taking
<1>2. /\ words \in Seq(Word)
      /\ Len(words) \in Nat
      /\ iBranches \in Branches
      /\ frames \in Activations
      /\ Len(frames) \in Nat
  BY <1>1, ParsingTypes
<1>3. iBranches' \in Branches
  BY <1>1 DEF Parsing, NestOK
<1>4. Append(words, wd)[Len(words) + 1] = wd
  BY <1>1, <1>2, Appended
<1>5. ~Fail(wd)
  BY <1>1 DEF Fail
<1>6. NestOK(words, frames, iBranches)
  BY <1>1 DEF Parsing
<1> QED BY <1>2, <1>3, <1>4, <1>5, <1>6

\* Words that leave the activations as they are.
LEMMA SavesWithin ==
  ASSUME NEW wd, NEW F, NEW H, Taking(wd, F, H), wd.w \notin Openers \cup Closers,
         \A j \in 1 .. Len(frames) : frames'[j].saved = frames[j].saved
  PROVE  SavesOn(wd, H)
<1>1. Saved(words, frames, iBranches, H) /\ wd \in Word
  BY DEF Taking
<1>2. NestOK(words, frames, iBranches)
  BY TakingIs
<1>3. SUFFICES ASSUME NEW K, K[Len(words) + 1] = iBranches', \A k \in 0 .. Len(words) : K[k] = H[k]
               PROVE  Saved(Append(words, wd), frames', iBranches', K)
  BY Zenon DEF SavesOn
<1> QED BY <1>1, <1>2, <1>3, SavedWithin, SMT

\* A word within a structure adds the code it is laid out with.
LEMMA AddsWithin ==
  ASSUME NEW wd, NEW F, NEW H, Taking(wd, F, H), wd.w \notin Openers \cup Closers,
         words' = Append(words, wd),
         \A j \in 1 .. Len(frames) : frames'[j].saved = frames[j].saved,
         NEW items, iCode' = iCode \o items, IsCode(items),
         items = CodeOf(Append(words, wd), Len(words) + 1, iBranches, iBranches'),
         \A s : Turn(wd.w, iBranches, iBranches', s)
  PROVE  Adds(wd, H)
BY SavesWithin, TakingIs, Zenon DEF Adds

\* LABEL adds its code.
LEMMA LabelAdds ==
  ASSUME NEW wd, NEW F, NEW H, Taking(wd, F, H), ParseLabel(wd)
  PROVE  Adds(wd, H) /\ iLastWasReturn' = iLastWasReturn /\ wd.w = "LABEL"
<1> DEFINE n == Len(words) + 1
           vs == Append(words, wd)
           items == <<Item("label", <<UserLabel(wd.ls[1])>>)>>
<1>1. /\ wd.w = "LABEL" /\ Emit(wd, iBranches, items) /\ UNCHANGED <<frames, iLastWasReturn>>
  BY TakingIs, Zenon DEF ParseLabel
<1>2. words' = vs /\ iBranches' = iBranches /\ iCode' = iCode \o items
  BY <1>1, Zenon DEF Emit
<1>3. vs[n].w = "LABEL" /\ vs[n].ls = wd.ls
  BY <1>1, TakingIs
<1>4. IsCode(items)
  BY CodeOfOne
<1>5. items = CodeOf(vs, n, iBranches, iBranches')
  <2>1. items = <<Do(n, "label", <<UserLabel(wd.ls[1])>>)>>
    BY ItemsAre
  <2>2. CodeOf(vs, n, iBranches, iBranches') = JumpCode(vs, n, iBranches)
    BY <1>3 DEF CodeOf, Structured, Openers, Closers
  <2>3. JumpCode(vs, n, iBranches) = <<Do(n, "label", <<UserLabel(vs[n].ls[1])>>)>>
    BY <1>3 DEF JumpCode
  <2> QED BY <1>3, <2>1, <2>2, <2>3
<1>6. \A s : Turn(wd.w, iBranches, iBranches', s)
  BY <1>1, <1>2 DEF Turn, SameLabels, Openers, Closers
<1>7. wd.w \notin Openers \cup Closers
  BY <1>1 DEF Openers, Closers
<1>8. frames' = frames /\ iLastWasReturn' = iLastWasReturn
  BY <1>1
<1>9. Adds(wd, H)
  <2> HIDE DEF items, n, vs
  <2> QED BY <1>2, <1>4, <1>5, <1>6, <1>7, <1>8, TakingIs, AddsWithin DEF n, vs
<1> QED BY <1>1, <1>8, <1>9

\* A statement that is no structure adds its code.
LEMMA SimpleAdds ==
  ASSUME NEW wd, NEW F, NEW H, Taking(wd, F, H), ParseSimple(wd)
  PROVE  Adds(wd, H) /\ iLastWasReturn' = (wd.w = "RETURN") /\ wd.w # "LABEL"
<1> DEFINE n == Len(words) + 1
           vs == Append(words, wd)
           items == <<Statement>> \o Simple(wd)
<1>1. /\ wd.w \in {"S", "EOS", "RETURN", "GOTO", "ONERR", "BREAK", "CONTINUE"}
      /\ Emit(wd, iBranches, items) /\ iLastWasReturn' = (wd.w = "RETURN") /\ UNCHANGED frames
  BY TakingIs, Zenon DEF ParseSimple
<1>2. words' = vs /\ iBranches' = iBranches /\ iCode' = iCode \o items
  BY <1>1, Zenon DEF Emit
<1>3. vs[n] = wd
  BY <1>1, TakingIs
<1>4. IsCode(items)
  BY <1>1, StatementCode, SimpleCode, CodeAfter DEF Taking
<1>5. items = CodeOf(vs, n, iBranches, iBranches')
  <2>1. CodeOf(vs, n, iBranches, iBranches') = JumpCode(vs, n, iBranches)
    BY <1>1, <1>3 DEF CodeOf, Structured, Openers, Closers
  <2>2. Statement = Stmt(n)
    BY ItemsAre
  <2>3. CASE wd.w = "S"
    <3>1. Simple(wd) = <<Do(n, "S", <<>>)>>
      BY <2>3, ItemsAre DEF Simple
    <3>2. JumpCode(vs, n, iBranches) = <<Stmt(n), Do(n, "S", <<>>)>>
      BY <1>3, <2>3 DEF JumpCode
    <3> QED BY <2>1, <2>2, <3>1, <3>2, Joined
  <2>4. CASE wd.w = "EOS"
    <3>1. Simple(wd) = <<>>
      BY <2>4 DEF Simple
    <3>2. JumpCode(vs, n, iBranches) = <<Stmt(n)>>
      BY <1>3, <2>4 DEF JumpCode
    <3> QED BY <2>1, <2>2, <3>1, <3>2, Joined
  <2>5. CASE wd.w = "RETURN"
    <3>1. Simple(wd) = <<Do(n, "return", <<>>)>>
      BY <2>5, ItemsAre DEF Simple
    <3>2. JumpCode(vs, n, iBranches) = <<Stmt(n), Do(n, "return", <<>>)>>
      BY <1>3, <2>5 DEF JumpCode
    <3> QED BY <2>1, <2>2, <3>1, <3>2, Joined
  <2>6. CASE wd.w = "GOTO"
    <3>1. Simple(wd) = <<Do(n, "goto", LabelsOf(wd))>>
      BY <2>6, ItemsAre DEF Simple
    <3>2. JumpCode(vs, n, iBranches) = <<Stmt(n), Do(n, "goto", LabelsOf(wd))>>
      BY <1>3, <2>6 DEF JumpCode
    <3> QED BY <2>1, <2>2, <3>1, <3>2, Joined
  <2>7. CASE wd.w = "ONERR"
    <3>1. Simple(wd) = <<Do(n, "onerr", LabelsOf(wd))>>
      BY <2>7, ItemsAre DEF Simple
    <3>2. JumpCode(vs, n, iBranches) = <<Stmt(n), Do(n, "onerr", LabelsOf(wd))>>
      BY <1>3, <2>7 DEF JumpCode
    <3> QED BY <2>1, <2>2, <3>1, <3>2, Joined
  <2>8. CASE wd.w = "BREAK"
    <3>1. Simple(wd) = <<Go(n, "goto", iBranches.EBreak)>>
      BY <2>8, ItemsAre DEF Simple
    <3>2. JumpCode(vs, n, iBranches) = <<Stmt(n), Go(n, "goto", iBranches.EBreak)>>
      BY <1>3, <2>8 DEF JumpCode
    <3> QED BY <2>1, <2>2, <3>1, <3>2, Joined
  <2>9. CASE wd.w = "CONTINUE"
    <3>1. Simple(wd) = <<Go(n, "goto", iBranches.EContinue)>>
      BY <2>9, ItemsAre DEF Simple
    <3>2. JumpCode(vs, n, iBranches) = <<Stmt(n), Go(n, "goto", iBranches.EContinue)>>
      BY <1>3, <2>9 DEF JumpCode
    <3> QED BY <2>1, <2>2, <3>1, <3>2, Joined
  <2> QED BY <1>1, <2>3, <2>4, <2>5, <2>6, <2>7, <2>8, <2>9
<1>6. \A s : Turn(wd.w, iBranches, iBranches', s)
  BY <1>1, <1>2 DEF Turn, SameLabels, Openers, Closers
<1>7. wd.w \notin Openers \cup Closers /\ wd.w # "LABEL"
  BY <1>1 DEF Openers, Closers
<1>8. frames' = frames
  BY <1>1
<1>9. Adds(wd, H)
  <2> HIDE DEF items, n, vs
  <2> QED BY <1>2, <1>4, <1>5, <1>6, <1>7, <1>8, TakingIs, AddsWithin DEF n, vs
<1> QED BY <1>1, <1>7, <1>9

\* VECTOR adds its code.
LEMMA VectorAdds ==
  ASSUME NEW wd, NEW F, NEW H, Taking(wd, F, H), ParseVector(wd)
  PROVE  Adds(wd, H) /\ iLastWasReturn' = (wd.w = "RETURN") /\ wd.w # "LABEL"
<1> DEFINE n == Len(words) + 1
           vs == Append(words, wd)
           items == <<Statement, Item("cond", <<>>), Item("vector", LabelsOf(wd))>>
<1>1. /\ wd.w = "VECTOR" /\ Emit(wd, iBranches, items)
      /\ iLastWasReturn' = FALSE /\ UNCHANGED frames
  BY TakingIs, Zenon DEF ParseVector
<1>2. words' = vs /\ iBranches' = iBranches /\ iCode' = iCode \o items
  BY <1>1, Zenon DEF Emit
<1>3. vs[n] = wd
  BY <1>1, TakingIs
<1>4. IsCode(items)
  BY CodeOfThree
<1>5. items = CodeOf(vs, n, iBranches, iBranches')
  <2>1. CodeOf(vs, n, iBranches, iBranches') = JumpCode(vs, n, iBranches)
    BY <1>1, <1>3 DEF CodeOf, Structured, Openers, Closers
  <2>2. items = <<Stmt(n), Cond(n), Do(n, "vector", LabelsOf(wd))>>
    BY ItemsAre DEF Cond
  <2>3. JumpCode(vs, n, iBranches) = <<Stmt(n), Cond(n), Do(n, "vector", LabelsOf(wd))>>
    BY <1>1, <1>3 DEF JumpCode
  <2> QED BY <2>1, <2>2, <2>3
<1>6. \A s : Turn(wd.w, iBranches, iBranches', s)
  BY <1>1, <1>2 DEF Turn, SameLabels, Openers, Closers
<1>7. wd.w \notin Openers \cup Closers
  BY <1>1 DEF Openers, Closers
<1>8. frames' = frames
  BY <1>1
<1>9. Adds(wd, H)
  <2> HIDE DEF items, n, vs
  <2> QED BY <1>2, <1>4, <1>5, <1>6, <1>7, <1>8, TakingIs, AddsWithin DEF n, vs
<1> QED BY <1>1, <1>9

\* The branches of a structure that opens.
LEMMA OpenedTurn ==
  ASSUME iBranches \in Branches, NEW wd, wd.w \in Openers
  PROVE  \A s : Turn(wd.w, iBranches, Opened(wd), s)
<1>1. PICK b : b = [iBranches EXCEPT !.depth = @ + 1]
  OBVIOUS
<1>2. b \in Branches /\ SameLabels(b, iBranches) /\ b.next = iBranches.next
  BY <1>1 DEF Branches, SameLabels
<1>3. CASE wd.w = "IF"
  <2>1. Opened(wd) = NeedBranch(NeedBranch(b, "EExit"), "EFalse")
    BY <1>1, <1>3, Zenon DEF Opened
  <2>2. PICK c : c = NeedBranch(b, "EExit")
    OBVIOUS
  <2>3. /\ c \in Branches
        /\ c.EExit = b.next
        /\ c.next = b.next + 1
        /\ c.EBreak = b.EBreak
        /\ c.EContinue = b.EContinue
    BY <1>2, <2>2, NewLabel DEF NeedBranch, Branches
  <2>4. PICK d : d = NeedBranch(c, "EFalse")
    OBVIOUS
  <2>5. /\ d.EFalse = c.next /\ d.next = c.next + 1 /\ d.EExit = c.EExit
        /\ d.EBreak = c.EBreak /\ d.EContinue = c.EContinue
    BY <2>3, <2>4 DEF NeedBranch, Branches
  <2>6. iBranches.next \in Nat
    BY DEF Branches
  <2> QED BY <1>2, <1>3, <2>1, <2>2, <2>3, <2>4, <2>5, <2>6 DEF Turn, SameLabels, Closers, Openers
<1>4. CASE wd.w \in {"DO", "WHILE"}
  <2>1. PICK l : l = [b EXCEPT !.loop = @ + 1]
    OBVIOUS
  <2>2. Opened(wd) = NeedBranch(NeedBranch(NeedBranch(l, "EContinue"), "EBreak"), "EFalse")
    <3>1. wd.w # "IF"
      BY <1>4
    <3> QED BY <1>1, <2>1, <3>1, Zenon DEF Opened
  <2>3. l \in Branches /\ SameLabels(l, b) /\ l.next = b.next
    BY <1>2, <2>1 DEF Branches, SameLabels
  <2>4. PICK c : c = NeedBranch(l, "EContinue")
    OBVIOUS
  <2>5. c \in Branches /\ c.EContinue = l.next /\ c.next = l.next + 1 /\ c.EExit = l.EExit
    BY <2>3, <2>4, NewLabel DEF NeedBranch, Branches
  <2>6. PICK d : d = NeedBranch(c, "EBreak")
    OBVIOUS
  <2>7. /\ d \in Branches
        /\ d.EBreak = c.next
        /\ d.next = c.next + 1
        /\ d.EExit = c.EExit
        /\ d.EContinue = c.EContinue
    BY <2>5, <2>6, NewLabel DEF NeedBranch, Branches
  <2>8. PICK e : e = NeedBranch(d, "EFalse")
    OBVIOUS
  <2>9. /\ e.EFalse = d.next /\ e.next = d.next + 1 /\ e.EExit = d.EExit
        /\ e.EContinue = d.EContinue /\ e.EBreak = d.EBreak
    BY <2>7, <2>8 DEF NeedBranch, Branches
  <2>10. iBranches.next \in Nat
    BY DEF Branches
  <2>11. /\ e.EContinue = iBranches.next /\ e.EBreak = iBranches.next + 1 /\ e.EFalse = iBranches.next + 2
         /\ e.EExit = iBranches.EExit /\ e.next = iBranches.next + 3
    BY <1>2, <2>3, <2>5, <2>7, <2>9, <2>10 DEF SameLabels
  <2>12. e = Opened(wd)
    BY <2>2, <2>4, <2>6, <2>8
  <2> QED BY <1>4, <2>11, <2>12 DEF Turn, Closers, Openers
<1> QED BY <1>3, <1>4 DEF Openers

\* IF, DO and WHILE add their code.
LEMMA OpenAdds ==
  ASSUME NEW wd, NEW F, NEW H, Taking(wd, F, H), ParseOpen(wd)
  PROVE  Adds(wd, H) /\ iLastWasReturn' = (wd.w = "RETURN") /\ wd.w # "LABEL"
<1> DEFINE n == Len(words) + 1
           vs == Append(words, wd)
           c == Opened(wd)
           items == <<Statement>> \o OpeningCode(wd, c)
           f == [kind |-> wd.w, saved |-> iBranches]
<1>1. /\ wd.w \in {"IF", "DO", "WHILE"} /\ Emit(wd, c, items)
      /\ frames' = Append(frames, f) /\ iLastWasReturn' = FALSE
  BY TakingIs, Zenon DEF ParseOpen
<1>2. words' = vs /\ iBranches' = c /\ iCode' = iCode \o items
  BY <1>1, Zenon DEF Emit
<1>3. vs[n] = wd /\ wd.w \in Openers
  BY <1>1, TakingIs DEF Openers
<1>4. IsCode(items)
  BY <1>3, OpeningItems
<1>5. items = CodeOf(vs, n, iBranches, c)
  <2> HIDE DEF c
  <2>1. CodeOf(vs, n, iBranches, c) = StructureCode(vs, n, iBranches, c)
    BY <1>1, <1>3 DEF CodeOf, Structured, Openers, Closers
  <2>2. Statement = Stmt(n)
    BY ItemsAre
  <2>3. CASE wd.w = "IF"
    <3>1. OpeningCode(wd, c) = <<Cond(n), Go(n, "brfalse", c.EFalse)>>
      BY <2>3, ItemsAre DEF OpeningCode
    <3>2. StructureCode(vs, n, iBranches, c) = <<Stmt(n), Cond(n), Go(n, "brfalse", c.EFalse)>>
      BY <1>3, <2>3 DEF StructureCode
    <3> QED BY <2>1, <2>2, <3>1, <3>2, Joined
  <2>4. CASE wd.w = "DO"
    <3>1. OpeningCode(wd, c) = <<Set(n, c.EFalse)>>
      BY <2>4, ItemsAre DEF OpeningCode
    <3>2. StructureCode(vs, n, iBranches, c) = <<Stmt(n), Set(n, c.EFalse)>>
      BY <1>3, <2>4 DEF StructureCode
    <3> QED BY <2>1, <2>2, <3>1, <3>2, Joined
  <2>5. CASE wd.w = "WHILE"
    <3>1. OpeningCode(wd, c) = <<Set(n, c.EContinue)>> \o <<Cond(n), Go(n, "brfalse", c.EFalse)>>
      BY <2>5, ItemsAre DEF OpeningCode
    <3>2. OpeningCode(wd, c) = <<Set(n, c.EContinue), Cond(n), Go(n, "brfalse", c.EFalse)>>
      BY <3>1, Joined
    <3>3. StructureCode(vs, n, iBranches, c) = <<Stmt(n), Set(n, c.EContinue), Cond(n), Go(n, "brfalse", c.EFalse)>>
      BY <1>3, <2>5 DEF StructureCode
    <3> QED BY <2>1, <2>2, <3>2, <3>3, Joined
  <2> QED BY <1>1, <2>3, <2>4, <2>5
<1>6. \A s : Turn(wd.w, iBranches, c, s)
  BY <1>3, TakingIs, OpenedTurn
<1>7. SavesOn(wd, H)
  <2>1. Saved(words, frames, iBranches, H) /\ wd \in Word
    BY DEF Taking
  <2>2. NestOK(words, frames, iBranches)
    BY TakingIs
  <2>3. f \in [kind : Kinds, saved : Branches] /\ f.saved = iBranches
    BY <1>1, TakingIs DEF Kinds
  <2>4. SUFFICES ASSUME NEW K, K[Len(words) + 1] = iBranches', \A k \in 0 .. Len(words) : K[k] = H[k]
                 PROVE  Saved(vs, frames', iBranches', K)
    BY Zenon DEF SavesOn
  <2>5. PICK g, e : g = f /\ e = iBranches'
    OBVIOUS
  <2>6. Saved(vs, Append(frames, g), e, K)
    BY <1>3, <2>1, <2>2, <2>3, <2>4, <2>5, SavedOpened, SMT
  <2> QED BY <1>1, <2>5, <2>6
<1>8. Adds(wd, H)
  <2> HIDE DEF items, n, vs, c
  <2> QED BY <1>2, <1>4, <1>5, <1>6, <1>7, TakingIs DEF n, vs, Adds
<1> QED BY <1>1, <1>8

\* The next clause of the innermost IF.
LEMMA ClauseTaking ==
  ASSUME NEW wd, NEW F, NEW H, Taking(wd, F, H), ParseClause(wd)
  PROVE  /\ wd.w \in {"ELSEIF", "ELSE"} /\ Len(frames) # 0 /\ iLastWasReturn' = FALSE
         /\ words' = Append(words, wd)
         /\ wd.w \notin Openers \cup Closers /\ wd.w # "LABEL"
<1>1. wd.w \in {"ELSEIF", "ELSE"} /\ wd.w \in Expected /\ iLastWasReturn' = FALSE
  BY Zenon DEF ParseClause
<1>2. Admits(frames, wd)
  BY <1>1, ExpectedIs DEF Taking
<1>3. Len(frames) # 0
  BY <1>1, <1>2 DEF Admits
<1>4. words' = Append(words, wd)
  BY Zenon DEF ParseClause, Emit
<1> QED BY <1>1, <1>3, <1>4 DEF Openers, Closers

\* ELSEIF adds its code.
LEMMA ElseIfAdds ==
  ASSUME NEW wd, NEW F, NEW H, Taking(wd, F, H), ParseClause(wd), wd.w = "ELSEIF"
  PROVE  Adds(wd, H)
<1> DEFINE n == Len(words) + 1
           vs == Append(words, wd)
           c == NeedBranch(iBranches, "EFalse")
           leave == <<DoBranch(iBranches, "EExit", "goto"), SetBranch(iBranches, "EFalse")>>
           items == leave \o ConditionalExpression(c)
<1>1. Emit(wd, c, items) /\ UNCHANGED frames
  BY Zenon DEF ParseClause
<1>2. words' = vs /\ iBranches' = c /\ iCode' = iCode \o items
  BY <1>1, Zenon DEF Emit
<1>3. vs[n] = wd
  BY TakingIs
<1>4. IsCode(items)
  BY LeavingCode, ConditionCode, CodeAfter
<1>5. items = CodeOf(vs, n, iBranches, iBranches')
  <2>1. /\ leave = <<Go(n, "goto", iBranches.EExit), Set(n, iBranches.EFalse)>>
        /\ ConditionalExpression(c) = <<Cond(n), Go(n, "brfalse", c.EFalse)>>
    BY ItemsAre, Zenon
  <2>2. items = <<Go(n, "goto", iBranches.EExit), Set(n, iBranches.EFalse), Cond(n), Go(n, "brfalse", c.EFalse)>>
    <3>1. items = <<Go(n, "goto", iBranches.EExit), Set(n, iBranches.EFalse)>>
                    \o <<Cond(n), Go(n, "brfalse", c.EFalse)>>
      BY <2>1, Zenon
    <3> HIDE DEF c, n, items, leave
    <3>2. PICK p, q, r, t : /\ p = Go(n, "goto", iBranches.EExit) /\ q = Set(n, iBranches.EFalse)
                            /\ r = Cond(n) /\ t = Go(n, "brfalse", c.EFalse)
      OBVIOUS
    <3>3. <<p, q>> \o <<r, t>> = <<p, q, r, t>>
      BY JoinedPairs
    <3> QED BY <3>1, <3>2, <3>3
  <2>3. CodeOf(vs, n, iBranches, c) = StructureCode(vs, n, iBranches, c)
    <3> HIDE DEF c
    <3> QED BY <1>3 DEF CodeOf, Structured, Openers, Closers
  <2>4. StructureCode(vs, n, iBranches, c)
          = <<Go(n, "goto", iBranches.EExit), Set(n, iBranches.EFalse), Cond(n), Go(n, "brfalse", c.EFalse)>>
    <3> HIDE DEF c
    <3> QED BY <1>3 DEF StructureCode
  <2> QED BY <1>2, <2>2, <2>3, <2>4
<1>6. \A s : Turn(wd.w, iBranches, c, s)
  <2>1. iBranches \in Branches
    BY TakingIs
  <2>2. /\ c.EFalse = iBranches.next /\ c.next = iBranches.next + 1 /\ c.EExit = iBranches.EExit
        /\ c.EBreak = iBranches.EBreak /\ c.EContinue = iBranches.EContinue
    BY <2>1, NewLabel DEF NeedBranch, Branches
  <2> HIDE DEF c
  <2> QED BY <2>2 DEF Turn, Openers, Closers
<1>7. \A j \in 1 .. Len(frames) : frames'[j].saved = frames[j].saved
  BY <1>1
<1>8. wd.w \notin Openers \cup Closers
  BY ClauseTaking
<1>9. \A s : Turn(wd.w, iBranches, iBranches', s)
  BY <1>2, <1>6
<1> QED
  <2> HIDE DEF items, n, vs, c
  <2> QED BY <1>2, <1>4, <1>5, <1>7, <1>8, <1>9, AddsWithin DEF n, vs

\* ELSE adds its code.
LEMMA ElseAdds ==
  ASSUME NEW wd, NEW F, NEW H, Taking(wd, F, H), ParseClause(wd), wd.w = "ELSE"
  PROVE  Adds(wd, H)
<1> DEFINE n == Len(words) + 1
           vs == Append(words, wd)
           items == <<DoBranch(iBranches, "EExit", "goto"), SetBranch(iBranches, "EFalse")>>
<1>1. Emit(wd, iBranches, items) /\ frames' = [frames EXCEPT ![Len(frames)].kind = "ELSE"]
  BY Zenon DEF ParseClause
<1>2. words' = vs /\ iBranches' = iBranches /\ iCode' = iCode \o items
  BY <1>1, Zenon DEF Emit
<1>3. vs[n] = wd
  BY TakingIs
<1>4. IsCode(items)
  BY LeavingCode
<1>5. items = CodeOf(vs, n, iBranches, iBranches')
  <2>1. items = <<Go(n, "goto", iBranches.EExit), Set(n, iBranches.EFalse)>>
    BY ItemsAre, Zenon
  <2>2. CodeOf(vs, n, iBranches, iBranches') = StructureCode(vs, n, iBranches, iBranches')
    BY <1>3 DEF CodeOf, Structured, Openers, Closers
  <2>3. StructureCode(vs, n, iBranches, iBranches')
          = <<Go(n, "goto", iBranches.EExit), Set(n, iBranches.EFalse)>>
    BY <1>3 DEF StructureCode
  <2> QED BY <2>1, <2>2, <2>3
<1>6. \A s : Turn(wd.w, iBranches, iBranches', s)
  BY <1>2 DEF Turn, SameLabels, Openers, Closers
<1>7. \A j \in 1 .. Len(frames) : frames'[j].saved = frames[j].saved
  <2>1. frames \in Activations /\ frames' \in Activations /\ Len(frames) # 0 /\ Len(frames) \in Nat
    BY TakingIs, ClauseTaking DEF Taking, Parsing, NestOK
  <2>2. PICK gs : gs = frames'
    OBVIOUS
  <2>3. Len(gs) = Len(frames) /\ DOMAIN frames = 1 .. Len(frames)
    BY <1>1, <2>1, <2>2 DEF Activations
  <2>4. PICK m \in 1 .. Len(frames) : m = Len(frames)
    BY <2>1
  <2>5. gs = [frames EXCEPT ![m] = [frames[m] EXCEPT !.kind = "ELSE"]]
    BY <1>1, <2>2, <2>4
  <2>6. frames[m] \in [kind : Kinds, saved : Branches]
    BY <2>1, ElementOfSeq DEF Activations
  <2>7. gs[m] = [frames[m] EXCEPT !.kind = "ELSE"] /\ \A j \in 1 .. Len(frames) : j # m => gs[j] = frames[j]
    BY <2>3, <2>5
  <2>8. gs[m].saved = frames[m].saved
    BY <2>6, <2>7
  <2> QED BY <2>2, <2>7, <2>8
<1>8. wd.w \notin Openers \cup Closers
  BY ClauseTaking
<1> QED
  <2> HIDE DEF items, n, vs
  <2> QED BY <1>2, <1>4, <1>5, <1>6, <1>7, <1>8, AddsWithin DEF n, vs

\* ENDIF, UNTIL and ENDWH add their code.
LEMMA CloseAdds ==
  ASSUME NEW wd, NEW F, NEW H, Taking(wd, F, H), ParseClose(wd)
  PROVE  Adds(wd, H) /\ iLastWasReturn' = (wd.w = "RETURN") /\ wd.w # "LABEL"
<1> DEFINE n == Len(words) + 1
           vs == Append(words, wd)
           b == RestoreBranches(iBranches, Last(frames).saved)
           c == IF wd.w = "ENDIF" THEN b ELSE LeaveLoop(b)
           items == ClosingCode(wd, iBranches)
<1>1. /\ wd.w \in Closers /\ wd.w \in Expected /\ Emit(wd, c, items) /\ frames' = Front(frames)
      /\ iLastWasReturn' = FALSE
  BY DEF ParseClose, Closers
<1>2. words' = vs /\ iBranches' = c /\ iCode' = iCode \o items
  BY <1>1, Zenon DEF Emit
<1>3. vs[n] = wd
  BY TakingIs
<1>4. Admits(frames, wd)
  BY <1>1, ExpectedIs DEF Taking, Closers
<1>5. Len(frames) # 0 /\ OpenerOf(frames[Len(frames)].kind) = Opener(wd.w)
  BY <1>1, <1>4 DEF Admits
<1>6. Last(frames) = frames[Len(frames)] /\ frames[Len(frames)] \in [kind : Kinds, saved : Branches]
  <2>1. Len(frames) \in 1 .. Len(frames) /\ frames \in Activations
    BY <1>5, TakingIs
  <2>2. frames[Len(frames)] \in [kind : Kinds, saved : Branches]
    BY <2>1, ElementOfSeq DEF Activations
  <2> QED BY <2>2 DEF Last
<1>7. PICK f \in [kind : Kinds, saved : Branches] : f = frames[Len(frames)] /\ Last(frames) = f
  BY <1>6
<1>8. f.kind \in Kinds /\ f.saved \in Branches /\ OpenerOf(f.kind) = Opener(wd.w)
  BY <1>5, <1>7
<1>9. IsCode(items)
  <2>1. Last(frames).kind = f.kind
    BY <1>7
  <2> QED BY <1>1, <1>8, <2>1, ClosingItems
<1>10. /\ f.saved = H[StartIn(vs, n) - 1]
       /\ f.kind = "IF" => ~AfterElse(vs, n)
       /\ f.kind = "ELSE" => AfterElse(vs, n)
  <2>1. Saved(words, frames, iBranches, H) /\ wd \in Word /\ NestOK(words, frames, iBranches)
    BY TakingIs DEF Taking
  <2> QED BY <1>5, <1>7, <2>1, InnermostSaved
<1>11. Turn(wd.w, iBranches, c, f.saved)
  <2>1. iBranches \in Branches
    BY TakingIs
  <2>2. PICK s \in Branches : s = f.saved
    BY <1>8
  <2>3. PICK d : d = RestoreBranches(iBranches, s)
    OBVIOUS
  <2>4. SameLabels(d, s) /\ d.next = iBranches.next
    BY <2>1, <2>3 DEF RestoreBranches, Branches, SameLabels
  <2>5. PICK e : e = LeaveLoop(d)
    OBVIOUS
  <2>6. SameLabels(e, s) /\ e.next = iBranches.next
    <3>1. d = [iBranches EXCEPT !.EFalse = s.EFalse, !.EBreak = s.EBreak,
                                !.EContinue = s.EContinue, !.EExit = s.EExit, !.depth = iBranches.depth - 1]
      BY <2>3 DEF RestoreBranches
    <3>2. e = [d EXCEPT !.loop = d.loop - 1]
      BY <2>5 DEF LeaveLoop
    <3> QED BY <2>1, <2>4, <3>1, <3>2 DEF Branches, SameLabels
  <2>7. SameLabels(c, s) /\ c.next = iBranches.next
    BY <1>7, <2>2, <2>3, <2>4, <2>5, <2>6
  <2> HIDE DEF c
  <2> QED BY <1>1, <2>2, <2>7 DEF Turn, Closers, Openers
<1>12. items = CodeOf(vs, n, iBranches, c)
  <2> HIDE DEF c
  <2>1. CodeOf(vs, n, iBranches, c) = StructureCode(vs, n, iBranches, c)
    BY <1>1, <1>3 DEF CodeOf, Structured, Openers, Closers
  <2>2. CASE wd.w = "ENDIF"
    <3>1. f.kind \in {"IF", "ELSE"}
      BY <1>8, <2>2 DEF Kinds, OpenerOf, Opener
    <3>2. items = (IF f.kind = "ELSE" THEN <<>> ELSE <<Set(n, iBranches.EFalse)>>)
                    \o <<Set(n, iBranches.EExit)>>
      <4>1. items = (IF Last(frames).kind = "ELSE" THEN <<>> ELSE <<SetBranch(iBranches, "EFalse")>>)
                      \o <<SetBranch(iBranches, "EExit")>>
        BY <2>2, Zenon DEF ClosingCode
      <4> QED BY <1>7, <4>1, ItemsAre
    <3>3. CASE f.kind = "ELSE"
      <4>1. StructureCode(vs, n, iBranches, c) = <<Set(n, iBranches.EExit)>>
        BY <1>3, <1>10, <2>2, <3>3 DEF StructureCode
      <4> QED BY <2>1, <3>2, <3>3, <4>1, Joined
    <3>4. CASE f.kind = "IF"
      <4>1. StructureCode(vs, n, iBranches, c) = <<Set(n, iBranches.EFalse), Set(n, iBranches.EExit)>>
        BY <1>3, <1>10, <2>2, <3>4 DEF StructureCode
      <4>2. items = <<Set(n, iBranches.EFalse)>> \o <<Set(n, iBranches.EExit)>>
        BY <3>2, <3>4
      <4> QED BY <2>1, <4>1, <4>2, Joined
    <3> QED BY <3>1, <3>3, <3>4
  <2>3. CASE wd.w = "UNTIL"
    <3>1. items = <<Set(n, iBranches.EContinue)>> \o <<Cond(n), Go(n, "brfalse", iBranches.EFalse)>>
                    \o <<Set(n, iBranches.EBreak)>>
      <4>1. items = <<SetBranch(iBranches, "EContinue")>> \o ConditionalExpression(iBranches)
                      \o <<SetBranch(iBranches, "EBreak")>>
        BY <2>3 DEF ClosingCode
      <4> QED BY <4>1, ItemsAre
    <3>2. StructureCode(vs, n, iBranches, c)
            = <<Set(n, iBranches.EContinue), Cond(n), Go(n, "brfalse", iBranches.EFalse), Set(n, iBranches.EBreak)>>
      BY <1>3, <2>3 DEF StructureCode
    <3>3. <<Set(n, iBranches.EContinue)>> \o <<Cond(n), Go(n, "brfalse", iBranches.EFalse)>>
            = <<Set(n, iBranches.EContinue), Cond(n), Go(n, "brfalse", iBranches.EFalse)>>
      <4>1. PICK p, q, r : p = Set(n, iBranches.EContinue) /\ q = Cond(n) /\ r = Go(n, "brfalse", iBranches.EFalse)
        OBVIOUS
      <4>2. <<p>> \o <<q, r>> = <<p, q, r>>
        BY JoinedThree
      <4> QED BY <4>1, <4>2
    <3> QED BY <2>1, <3>1, <3>2, <3>3, Joined
  <2>4. CASE wd.w = "ENDWH"
    <3>1. items = <<Go(n, "goto", iBranches.EContinue), Set(n, iBranches.EBreak), Set(n, iBranches.EFalse)>>
      <4>1. items = <<DoBranch(iBranches, "EContinue", "goto"), SetBranch(iBranches, "EBreak"),
                      SetBranch(iBranches, "EFalse")>>
        BY <2>4 DEF ClosingCode
      <4> QED BY <4>1, ItemsAre
    <3>2. StructureCode(vs, n, iBranches, c)
            = <<Go(n, "goto", iBranches.EContinue), Set(n, iBranches.EBreak), Set(n, iBranches.EFalse)>>
      BY <1>3, <2>4 DEF StructureCode
    <3> QED BY <2>1, <3>1, <3>2
  <2> QED BY <1>1, <2>2, <2>3, <2>4 DEF Closers
<1>13. SavesOn(wd, H)
  <2>1. Saved(words, frames, iBranches, H) /\ wd \in Word
    BY DEF Taking
  <2>2. NestOK(words, frames, iBranches)
    BY TakingIs
  <2>3. SUFFICES ASSUME NEW K, K[Len(words) + 1] = iBranches', \A k \in 0 .. Len(words) : K[k] = H[k]
                 PROVE  Saved(vs, frames', iBranches', K)
    BY Zenon DEF SavesOn
  <2>4. PICK e : e = iBranches'
    OBVIOUS
  <2>5. Saved(vs, Front(frames), e, K)
    <3> HIDE DEF b, c, items
    <3> QED BY <1>1, <1>5, <2>1, <2>2, <2>3, <2>4, SavedClosed, SMT
  <2> QED BY <1>1, <2>4, <2>5
<1>14. Adds(wd, H)
  <2>1. Turn(wd.w, iBranches, iBranches', H[StartIn(vs, n) - 1])
    BY <1>2, <1>10, <1>11
  <2> HIDE DEF items, n, vs, b, c
  <2> QED BY <1>2, <1>9, <1>12, <1>13, <2>1, TakingIs DEF n, vs, Adds
<1> QED BY <1>1, <1>14 DEF Closers

\* The parser's code, laid out; a word more, within the size of the vocabulary.
NoEndP(ws, m) == \A n \in 1 .. m : ws[n].w # "ENDP"

CodeLaid ==
  /\ \E F, H : Laid(words, iCode, F, H) /\ Saved(words, frames, iBranches, H)
  /\ iLastWasReturn <=> AfterReturn(words, Len(words) + 1)
  /\ Len(words) <= vocab.size /\ NoEndP(words, Len(words))

\* ENDP stands nowhere before the last word.
LEMMA NoEndPNext ==
  ASSUME NEW ws \in Seq(Word), NEW wd \in Word, NoEndP(ws, Len(ws))
  PROVE  /\ Len(ws) \in Nat /\ Len(Append(ws, wd)) = Len(ws) + 1
         /\ NoEndP(Append(ws, wd), Len(ws))
         /\ wd.w # "ENDP" => NoEndP(Append(ws, wd), Len(ws) + 1)
<1>1. PICK vs : vs = Append(ws, wd)
  OBVIOUS
<1>2. PICK l \in Nat : l = Len(ws)
  BY Appended
<1>3. vs[l + 1] = wd /\ \A k \in 1 .. l : vs[k] = ws[k]
  BY <1>1, <1>2, Appended
<1>4. \A k \in 1 .. l : ws[k].w # "ENDP"
  BY <1>2 DEF NoEndP
<1>5. \A k \in 1 .. l : vs[k].w # "ENDP"
  BY <1>3, <1>4
<1>6. ASSUME wd.w # "ENDP", NEW k \in 1 .. l + 1 PROVE vs[k].w # "ENDP"
  BY <1>3, <1>5, <1>6, k = l + 1 \/ k \in 1 .. l
<1>7. Len(vs) = l + 1
  BY <1>1, <1>2, Appended
<1> QED BY <1>1, <1>2, <1>5, <1>6, <1>7 DEF NoEndP

\* iLastWasReturn says that only labels have come since RETURN.
LEMMA ReturnNext ==
  ASSUME NEW ws \in Seq(Word), NEW wd \in Word
  PROVE  /\ wd.w = "LABEL" => (AfterReturn(Append(ws, wd), Len(ws) + 2) <=> AfterReturn(ws, Len(ws) + 1))
         /\ wd.w # "LABEL" => (AfterReturn(Append(ws, wd), Len(ws) + 2) <=> wd.w = "RETURN")
<1>1. PICK vs : vs = Append(ws, wd)
  OBVIOUS
<1>2. PICK l \in Nat : l = Len(ws)
  BY Appended
<1>3. vs[l + 1] = wd /\ \A k \in 1 .. l : vs[k] = ws[k]
  BY <1>1, <1>2, Appended
<1>4. ASSUME wd.w = "LABEL" PROVE AfterReturn(vs, l + 2) <=> AfterReturn(ws, l + 1)
  <2>1. ASSUME AfterReturn(vs, l + 2) PROVE AfterReturn(ws, l + 1)
    <3>1. PICK m \in 1 .. (l + 2) - 1 : vs[m].w = "RETURN" /\ \A k \in m + 1 .. (l + 2) - 1 : vs[k].w = "LABEL"
      BY <2>1 DEF AfterReturn
    <3>2. m \in 1 .. (l + 1) - 1
      BY <1>3, <1>4, <3>1, m # l + 1
    <3>3. ws[m].w = "RETURN" /\ \A k \in m + 1 .. (l + 1) - 1 : ws[k].w = "LABEL"
      BY <1>3, <3>1, <3>2
    <3> QED BY <3>2, <3>3 DEF AfterReturn
  <2>2. ASSUME AfterReturn(ws, l + 1) PROVE AfterReturn(vs, l + 2)
    <3>1. PICK m \in 1 .. (l + 1) - 1 : ws[m].w = "RETURN" /\ \A k \in m + 1 .. (l + 1) - 1 : ws[k].w = "LABEL"
      BY <2>2 DEF AfterReturn
    <3>2. m \in 1 .. (l + 2) - 1 /\ vs[m].w = "RETURN"
      BY <1>3, <3>1
    <3>3. ASSUME NEW k \in m + 1 .. (l + 2) - 1 PROVE vs[k].w = "LABEL"
      BY <1>3, <1>4, <3>1, k = l + 1 \/ k \in m + 1 .. (l + 1) - 1
    <3> QED BY <3>2, <3>3 DEF AfterReturn
  <2> QED BY <2>1, <2>2
<1>5. ASSUME wd.w # "LABEL" PROVE AfterReturn(vs, l + 2) <=> wd.w = "RETURN"
  <2>1. ASSUME AfterReturn(vs, l + 2) PROVE wd.w = "RETURN"
    <3>1. PICK m \in 1 .. (l + 2) - 1 : vs[m].w = "RETURN" /\ \A k \in m + 1 .. (l + 2) - 1 : vs[k].w = "LABEL"
      BY <2>1 DEF AfterReturn
    <3>2. l + 1 \notin m + 1 .. (l + 2) - 1
      BY <1>3, <1>5, <3>1
    <3>3. m = l + 1
      BY <3>2
    <3> QED BY <1>3, <3>1, <3>3
  <2>2. ASSUME wd.w = "RETURN" PROVE AfterReturn(vs, l + 2)
    <3>1. l + 1 \in 1 .. (l + 2) - 1 /\ vs[l + 1].w = "RETURN" /\ (l + 1) + 1 .. (l + 2) - 1 = {}
      BY <1>3, <2>2
    <3> QED BY <3>1 DEF AfterReturn
  <2> QED BY <2>1, <2>2
<1> QED BY <1>1, <1>2, <1>4, <1>5

\* A word for which there is room stays within the bound.
LEMMA RoomLeft ==
  ASSUME Len(words) \in Nat, Len(frames) \in Nat, vocab.size \in Nat, NEW wd, Room(wd)
  PROVE  Len(words) + 1 <= vocab.size
<1>1. PICK k : k = CASE wd.w \in {"IF", "DO", "WHILE"} -> -2
                     [] wd.w \in {"ENDIF", "UNTIL", "ENDWH", "ENDP"} -> 0
                     [] OTHER -> -1
  OBVIOUS
<1>2. k \in {-2, -1, 0}
  BY <1>1
<1>3. Len(words) + Len(frames) < vocab.size + k
  BY <1>1, Zenon DEF Room
<1> QED BY <1>2, <1>3

\* Every word that the parser accepts extends the layout.
LEMMA WordLaid ==
  ASSUME Parsing, Parsing', phase = "parse", phase' = "parse", CodeLaid, vocab.size \in Nat, vocab' = vocab,
         NEW wd \in Word, Room(wd),
         \/ ParseLabel(wd) \/ ParseSimple(wd) \/ ParseVector(wd) \/ ParseOpen(wd)
         \/ ParseClause(wd) \/ ParseClose(wd) \/ ParseMisplaced(wd) \/ ParseEndP(wd)
  PROVE  CodeLaid'
<1>1. PICK F, H : Laid(words, iCode, F, H) /\ Saved(words, frames, iBranches, H)
  BY DEF CodeLaid
<1>2. Taking(wd, F, H)
  BY <1>1 DEF Taking
<1>3. /\ words \in Seq(Word) /\ Len(words) \in Nat /\ iBranches \in Branches /\ iBranches' \in Branches
      /\ Append(words, wd)[Len(words) + 1] = wd /\ Len(frames) \in Nat
      /\ NestOK(words, frames, iBranches) /\ ~Fail(wd)
  BY <1>2, TakingIs
<1>4. ~ParseMisplaced(wd) /\ ~ParseEndP(wd)
  <2>1. ~ParseMisplaced(wd)
    BY <1>3 DEF ParseMisplaced
  <2>2. ASSUME ParseEndP(wd) PROVE FALSE
    <3>1. Fail(wd) \/ phase' = "run"
      BY <2>2, Zenon DEF ParseEndP
    <3> QED BY <1>3, <3>1
  <2> QED BY <2>1, <2>2
<1>5. /\ Adds(wd, H)
      /\ \/ wd.w = "LABEL" /\ iLastWasReturn' = iLastWasReturn
         \/ wd.w # "LABEL" /\ iLastWasReturn' = (wd.w = "RETURN")
  <2>1. CASE ParseLabel(wd)
    BY <1>2, <2>1, LabelAdds
  <2>2. CASE ParseSimple(wd)
    BY <1>2, <2>2, SimpleAdds
  <2>3. CASE ParseVector(wd)
    BY <1>2, <2>3, VectorAdds
  <2>4. CASE ParseOpen(wd)
    BY <1>2, <2>4, OpenAdds
  <2>5. CASE ParseClause(wd)
    <3>1. wd.w \in {"ELSEIF", "ELSE"} /\ iLastWasReturn' = FALSE
      BY <1>2, <2>5, ClauseTaking
    <3>2. Adds(wd, H)
      BY <1>2, <2>5, <3>1, ElseIfAdds, ElseAdds
    <3> QED BY <3>1, <3>2
  <2>6. CASE ParseClose(wd)
    BY <1>2, <2>6, CloseAdds
  <2> QED BY <1>4, <2>1, <2>2, <2>3, <2>4, <2>5, <2>6
<1>6. words' = Append(words, wd)
  BY <1>5 DEF Adds
<1>7. Len(words') = Len(words) + 1
  BY <1>3, <1>6, Appended
<1>8. iLastWasReturn' <=> AfterReturn(words', Len(words') + 1)
  <2>1. Len(words') + 1 = Len(words) + 2
    BY <1>3, <1>7
  <2>2. iLastWasReturn <=> AfterReturn(words, Len(words) + 1)
    BY DEF CodeLaid
  <2>3. AfterReturn(words', Len(words') + 1) <=> AfterReturn(Append(words, wd), Len(words) + 2)
    BY <1>6, <2>1
  <2>4. /\ wd.w = "LABEL" => (AfterReturn(Append(words, wd), Len(words) + 2) <=> AfterReturn(words, Len(words) + 1))
        /\ wd.w # "LABEL" => (AfterReturn(Append(words, wd), Len(words) + 2) <=> wd.w = "RETURN")
    BY <1>3, ReturnNext
  <2>5. CASE wd.w = "LABEL"
    <3>1. iLastWasReturn' = iLastWasReturn
      BY <1>5, <2>5
    <3> QED BY <2>2, <2>3, <2>4, <2>5, <3>1
  <2>6. CASE wd.w # "LABEL"
    <3>1. iLastWasReturn' = (wd.w = "RETURN")
      BY <1>5, <2>6
    <3>2. CASE wd.w = "RETURN"
      <4>1. iLastWasReturn'
        BY <3>1, <3>2
      <4> QED BY <2>3, <2>4, <2>6, <3>2, <4>1
    <3>3. CASE wd.w # "RETURN"
      <4>1. ~iLastWasReturn'
        BY <3>1, <3>3
      <4> QED BY <2>3, <2>4, <2>6, <3>3, <4>1
    <3> QED BY <3>2, <3>3
  <2> QED BY <2>5, <2>6
<1>e. NoEndP(words', Len(words'))
  <2>1. wd.w # "ENDP"
    BY <1>4 DEF ParseLabel, ParseSimple, ParseVector, ParseOpen, ParseClause, ParseClose
  <2>2. NoEndP(words, Len(words))
    BY DEF CodeLaid
  <2> QED BY <1>3, <1>6, <1>7, <2>1, <2>2, NoEndPNext
<1>9. Len(words') <= vocab'.size
  BY <1>3, <1>7, RoomLeft
<1>10. \E G, K : Laid(words', iCode', G, K) /\ Saved(words', frames', iBranches', K)
  <2>1. PICK items : /\ iCode' = iCode \o items /\ IsCode(items)
                     /\ items = CodeOf(Append(words, wd), Len(words) + 1, iBranches, iBranches')
    BY <1>5 DEF Adds
  <2>2. PICK c : c = iBranches'
    OBVIOUS
  <2>3. H[Len(words)] = iBranches
    BY <1>1 DEF Saved
  <2>4. Turn(wd.w, iBranches, c, H[StartIn(Append(words, wd), Len(words) + 1) - 1])
    BY <1>5, <2>2 DEF Adds
  <2>5. \A n \in 1 .. Len(words) + 1 : Fits(Append(words, wd), n)
    <3>1. \A n \in 1 .. Len(words') : Fits(words', n)
      BY DEF Parsing, NestOK
    <3> QED BY <1>6, <1>7, <3>1
  <2>6. IsCode(iCode)
    BY DEF Parsing, Labelled
  <2>7. PICK ws, code : ws = words /\ code = iCode
    OBVIOUS
  <2>8. \E G, K : /\ Laid(Append(ws, wd), code \o items, G, K) /\ K[Len(ws) + 1] = c
                  /\ \A k \in 0 .. Len(ws) : K[k] = H[k]
    <3>1. /\ ws \in Seq(Word) /\ IsCode(code) /\ Laid(ws, code, F, H) /\ c \in Branches /\ IsCode(items)
          /\ \A n \in 1 .. Len(ws) + 1 : Fits(Append(ws, wd), n)
          /\ items = CodeOf(Append(ws, wd), Len(ws) + 1, H[Len(ws)], c)
          /\ Turn(wd.w, H[Len(ws)], c, H[StartIn(Append(ws, wd), Len(ws) + 1) - 1])
      BY <1>1, <1>3, <2>1, <2>2, <2>3, <2>4, <2>5, <2>6, <2>7
    <3> QED BY <3>1, LaidNext
  <2>9. PICK G, K : /\ Laid(Append(words, wd), iCode \o items, G, K) /\ K[Len(words) + 1] = c
                    /\ \A k \in 0 .. Len(words) : K[k] = H[k]
    BY <2>7, <2>8
  <2>10. Saved(Append(words, wd), frames', iBranches', K)
    <3>1. SavesOn(wd, H)
      BY <1>5 DEF Adds
    <3> QED BY <2>2, <2>9, <3>1, Zenon DEF SavesOn
  <2> QED BY <1>6, <2>1, <2>9, <2>10
<1> QED BY <1>8, <1>e, <1>9, <1>10 DEF CodeLaid

-----------------------------------------------------------------------------
(* An accepted procedure.                                                  *)

Procedure(ws, code, F, H) ==
  /\ Whole(ws) /\ NamedOnce(ws) /\ IsCode(code) /\ GoodCode(ws, code) /\ Laid(ws, code, F, H)
  /\ ~Missing(code) /\ Len(ws) <= MaxWords /\ NoEndP(ws, Len(ws) - 1)
Compiled ==
  /\ \E F, H : Procedure(words, iCode, F, H)
  /\ qcode = ConvertPcode(iCode)

\* The back end depends on the kind of translation only.
LEMMA ConvertKept ==
  ASSUME vocab' = vocab, NEW code
  PROVE  ConvertPcode(code)' = ConvertPcode(code)
BY SMT DEF ConvertPcode, Instruction, LabelAddress, AddressOf, Size

\* A compiled procedure stays what it is.
LEMMA CompiledKept ==
  ASSUME Compiled, vocab' = vocab, words' = words, iCode' = iCode, qcode' = qcode
  PROVE  Compiled'
<1>1. PICK F, H : Procedure(words, iCode, F, H)
  BY DEF Compiled
<1>2. Procedure(words', iCode', F, H)
  BY <1>1
<1>3. PICK code : code = iCode
  OBVIOUS
<1>4. qcode' = ConvertPcode(code)' /\ iCode' = code
  BY <1>3, ConvertKept DEF Compiled
<1> QED BY <1>2, <1>4 DEF Compiled

\* ENDP makes a compiled procedure and the start of its run.
LEMMA EndPCompiles ==
  ASSUME Parsing, GoodCode(words, iCode), CodeLaid, phase = "parse", vocab.size <= MaxWords,
         vocab.size \in Nat, NEW wd \in Word, Room(wd), ParseEndP(wd), phase' = "run"
  PROVE  Compiled' /\ ip' = 0 /\ iOnErrIP' = None /\ at' = To(1) /\ handler' = 0
<1>1. /\ words \in Seq(Word)
      /\ IsCode(iCode)
      /\ Len(words) \in Nat
      /\ iBranches \in Branches
      /\ Len(frames) \in Nat
  BY ParsingTypes DEF Parsing, Branched
<1>2. wd.w = "ENDP"
  BY DEF ParseEndP
<1>3. PICK items : items = IF iLastWasReturn THEN <<>> ELSE <<Item("return", <<>>)>>
  OBVIOUS
<1>4. PICK code : code = iCode \o items
  OBVIOUS
<1>5. ~Fail(wd)
  BY DEF Fail
<1>6. /\ words' = Append(words, wd) /\ iCode' = code /\ qcode' = ConvertPcode(code)
      /\ ~Missing(code)
  BY <1>3, <1>4, <1>5, Zenon DEF ParseEndP, To
<1>7. ItemsOf(wd, items)
  <2>1. ItemsOf(wd, <<Item("return", <<>>)>>)
    BY PlainItem, ItemsOfOne
  <2>2. IsCode(<<>>) /\ DOMAIN <<>> = {}
    BY NoCode
  <2> QED BY <1>3, <2>1, <2>2 DEF ItemsOf
<1>8. IsCode(code) /\ GoodCode(words', code)
  BY <1>1, <1>4, <1>6, <1>7, NextGood
<1>9. /\ words' \in Seq(Word) /\ Len(words') = Len(words) + 1 /\ words'[Len(words) + 1] = wd
  BY <1>1, <1>6, Appended
<1>10. AcceptsExactly'
  BY EndPAccepts
<1>11. WellNestedIn(words') /\ NamedOnce(words')
  <2>1. Len(words') # 0 /\ phase' \in {"run", "ended"}
    BY <1>1, <1>9
  <2> QED BY <1>9, <1>10, <2>1, AcceptsNext
<1>12. /\ Whole(words') /\ ip' = 0 /\ iOnErrIP' = None /\ at' = To(1) /\ handler' = 0
  BY EndPEnters DEF Entered
<1>13. PICK F, H : Laid(words, iCode, F, H) /\ Saved(words, frames, iBranches, H)
  BY DEF CodeLaid
<1>14. \E G, K : Laid(words', code, G, K)
  <2>1. PICK ws : ws = words
    OBVIOUS
  <2>2. PICK n : n = Len(ws) + 1
    OBVIOUS
  <2>3. PICK vs : vs = Append(ws, wd)
    OBVIOUS
  <2>4. vs[n] = wd /\ vs = words' /\ Len(vs) = Len(ws) + 1
    BY <1>6, <1>9, <2>1, <2>2, <2>3
  <2>5. PICK b : b = iBranches
    OBVIOUS
  <2>6. H[Len(ws)] = b
    BY <1>13, <2>1, <2>5 DEF Saved
  <2>7. iLastWasReturn <=> AfterReturn(vs, n)
    <3>1. iLastWasReturn <=> AfterReturn(ws, n)
      BY <2>1, <2>2 DEF CodeLaid
    <3>2. \A k \in 1 .. n - 1 : vs[k] = ws[k]
      BY <1>1, <2>1, <2>2, <2>3, Appended
    <3>3. AfterReturn(vs, n) <=> AfterReturn(ws, n)
      <4>1. \A m \in 1 .. n - 1 : \A k \in m + 1 .. n - 1 : k \in 1 .. n - 1
        BY <1>1, <2>1, <2>2
      <4>2. ASSUME NEW m \in 1 .. n - 1
            PROVE  (\A k \in m + 1 .. n - 1 : vs[k].w = "LABEL") <=> \A k \in m + 1 .. n - 1 : ws[k].w = "LABEL"
        BY <3>2, <4>1, Zenon
      <4> QED BY <3>2, <4>2, Zenon DEF AfterReturn
    <3> QED BY <3>1, <3>3
  <2>8. items = CodeOf(vs, n, b, b)
    <3>1. CodeOf(vs, n, b, b) = JumpCode(vs, n, b)
      BY <1>2, <2>4 DEF CodeOf, Structured, Openers, Closers
    <3>2. JumpCode(vs, n, b) = IF AfterReturn(vs, n) THEN <<>> ELSE <<Do(n, "return", <<>>)>>
      BY <1>2, <2>4 DEF JumpCode
    <3>3. Item("return", <<>>) = Do(n, "return", <<>>)
      BY <2>1, <2>2, ItemsAre
    <3> QED BY <1>3, <2>7, <3>1, <3>2, <3>3
  <2>9. \A s : Turn(wd.w, b, b, s)
    BY <1>2 DEF Turn, SameLabels, Openers, Closers
  <2>10. \A k \in 1 .. Len(ws) + 1 : Fits(Append(ws, wd), k)
    <3>1. \A k \in 1 .. Len(words') : Fits(words', k)
      BY <1>11 DEF WellNestedIn
    <3> QED BY <2>3, <2>4, <3>1
  <2>11. IsCode(items)
    BY <1>7 DEF ItemsOf
  <2>12. /\ ws \in Seq(Word) /\ IsCode(iCode) /\ Laid(ws, iCode, F, H) /\ b \in Branches /\ IsCode(items)
         /\ items = CodeOf(Append(ws, wd), Len(ws) + 1, H[Len(ws)], b)
         /\ Turn(wd.w, H[Len(ws)], b, H[StartIn(Append(ws, wd), Len(ws) + 1) - 1])
    BY <1>1, <1>13, <2>1, <2>2, <2>3, <2>5, <2>6, <2>8, <2>9, <2>11
  <2>13. \E G, K : Laid(Append(ws, wd), iCode \o items, G, K)
    BY <2>10, <2>12, LaidNext
  <2> QED BY <1>4, <2>3, <2>4, <2>13
<1>15. Len(words') <= MaxWords
  <2>1. Len(words) + 1 <= vocab.size
    BY <1>1, RoomLeft
  <2>2. MaxWords \in Nat
    BY SMT DEF MaxWords
  <2> QED BY <1>1, <1>9, <2>1, <2>2
<1>e. NoEndP(words', Len(words') - 1)
  <2>1. NoEndP(words, Len(words))
    BY DEF CodeLaid
  <2>2. NoEndP(words', Len(words))
    BY <1>1, <1>6, <2>1, NoEndPNext
  <2>3. Len(words') - 1 = Len(words)
    BY <1>1, <1>9
  <2> QED BY <2>2, <2>3
<1>16. Compiled'
  <2>1. \E G, K : Procedure(words', iCode', G, K)
    BY <1>6, <1>8, <1>11, <1>12, <1>14, <1>15, <1>e DEF Procedure
  <2>2. vocab' = vocab
    BY <1>5 DEF ParseEndP
  <2>3. qcode' = ConvertPcode(code)' /\ iCode' = code
    BY <1>6, <2>2, ConvertKept
  <2> QED BY <2>1, <2>3 DEF Compiled
<1> QED BY <1>12, <1>16

-----------------------------------------------------------------------------
(* Structures: where one begins and ends, and what a word is in.           *)

\* The innermost structure.
LEMMA StartIs ==
  ASSUME NEW ws, NEW n \in Nat \ {0}, InsideIn(ws, n) # {}
  PROVE  /\ StartIn(ws, n) \in InsideIn(ws, n) /\ StartIn(ws, n) \in 1 .. n - 1
         /\ ws[StartIn(ws, n)].w \in Openers
         /\ \A k \in InsideIn(ws, n) : StartIn(ws, n) >= k
<1>1. InsideIn(ws, n) \in SUBSET (1 .. n)
  BY DEF InsideIn
<1>2. PICK s : s = StartIn(ws, n)
  OBVIOUS
<1>3. s \in InsideIn(ws, n) /\ \A k \in InsideIn(ws, n) : s >= k
  BY <1>1, <1>2, SomeGreatest DEF StartIn
<1>4. s \in 1 .. n - 1 /\ ws[s].w \in Openers
  BY <1>3 DEF InsideIn
<1> QED BY <1>2, <1>3, <1>4

\* The innermost structure is the greatest one.
LEMMA StartOnly ==
  ASSUME NEW ws, NEW n \in Nat \ {0}, NEW k \in InsideIn(ws, n),
         \A j \in InsideIn(ws, n) : k >= j
  PROVE  StartIn(ws, n) = k
<1>1. InsideIn(ws, n) \in SUBSET (1 .. n)
  BY DEF InsideIn
<1>2. PICK s : s = StartIn(ws, n)
  OBVIOUS
<1>3. s \in InsideIn(ws, n) /\ \A j \in InsideIn(ws, n) : s >= j
  BY <1>1, <1>2, SomeGreatest DEF StartIn
<1>4. s >= k /\ k >= s /\ s \in Nat /\ k \in Nat
  BY <1>1, <1>3
<1> QED BY <1>2, <1>4

\* A structure whose depth is one less, with nothing back at that depth between, is innermost.
LEMMA StartAt ==
  ASSUME NEW ws, NEW n \in Nat \ {0}, NEW k \in 1 .. n - 1, ws[k].w \in Openers,
         DepthIn(ws, n) = DepthIn(ws, k) + 1,
         \A j \in k + 1 .. n : DepthIn(ws, j) > DepthIn(ws, k)
  PROVE  k \in InsideIn(ws, n) /\ StartIn(ws, n) = k
<1>1. \A j \in 1 .. n : DepthIn(ws, j) \in Int
  BY DepthStep
<1>2. k \in 1 .. n
  OBVIOUS
<1>3. k \in InsideIn(ws, n)
  BY <1>1, <1>2 DEF InsideIn
<1>4. ASSUME NEW j \in InsideIn(ws, n) PROVE k >= j
  <2>1. j \in 1 .. n - 1 /\ DepthIn(ws, j) < DepthIn(ws, n)
    BY DEF InsideIn
  <2>2. DepthIn(ws, j) \in Int /\ DepthIn(ws, k) \in Int
    BY <1>1, <1>2, <2>1
  <2>3. ~(j \in k + 1 .. n)
    BY <2>1, <2>2
  <2> QED BY <2>1, <2>3
<1> QED BY <1>3, <1>4, StartOnly

\* A structure's first word and its last one know each other.
LEMMA EndStart ==
  ASSUME NEW ws, Whole(ws), NEW k \in 1 .. Len(ws), ws[k].w \in Openers
  PROVE  StartIn(ws, EndIn(ws, k)) = k /\ k \in InsideIn(ws, EndIn(ws, k))
<1>1. PICK e : e = EndIn(ws, k)
  OBVIOUS
<1>2. PICK l \in Nat : l = Len(ws)
  BY DEF Whole
<1>3. /\ e \in k + 1 .. Len(ws) - 1 /\ DepthIn(ws, e) = DepthIn(ws, k) + 1
      /\ \A j \in k + 1 .. e : DepthIn(ws, j) > DepthIn(ws, k)
  BY <1>1, EndFound
<1>4. e \in Nat \ {0} /\ k \in 1 .. e - 1
  BY <1>2, <1>3
<1> QED BY <1>1, <1>3, <1>4, StartAt

\* The structure that a closing word ends.
LEMMA StartEnd ==
  ASSUME NEW ws, Whole(ws), NEW e \in 1 .. Len(ws), ws[e].w \in Closers
  PROVE  /\ StartIn(ws, e) \in 1 .. e - 1 /\ ws[StartIn(ws, e)].w = Opener(ws[e].w)
         /\ ws[StartIn(ws, e)].w \in Openers /\ EndIn(ws, StartIn(ws, e)) = e
<1>1. PICK k : k = StartIn(ws, e)
  OBVIOUS
<1>2. PICK l \in Nat : l = Len(ws)
  BY DEF Whole
<1>3. e \in Nat \ {0} /\ Fits(ws, e)
  BY <1>2 DEF Whole, WellNestedIn
<1>4. /\ k \in 1 .. e - 1 /\ ws[k].w = Opener(ws[e].w) /\ ws[k].w \in Openers
      /\ DepthIn(ws, e) = DepthIn(ws, k) + 1
      /\ \A j \in k + 1 .. e : DepthIn(ws, j) >= DepthIn(ws, e)
  BY <1>1, <1>3, OpenerFound DEF StartIn
<1>5. PICK f : f = EndIn(ws, k)
  OBVIOUS
<1>6. k \in 1 .. Len(ws) /\ k \in Nat \ {0}
  BY <1>2, <1>4
<1>7. f \in k + 1 .. Len(ws) - 1 /\ DepthIn(ws, f + 1) = DepthIn(ws, k)
  BY <1>4, <1>5, <1>6, EndFound
<1> DEFINE T == {j \in k + 1 .. Len(ws) : ws[j].w \in Closers /\ DepthIn(ws, j) = DepthIn(ws, k) + 1}
<1>8. f <= e
  <2>1. T \in SUBSET Nat /\ e \in T
    BY <1>2, <1>4
  <2>2. f = LeastOf(T)
    BY <1>5 DEF EndIn
  <2> HIDE DEF T
  <2> QED BY <2>1, <2>2, SomeLeast
<1>9. DepthIn(ws, k) \in Int
  BY <1>6, DepthStep
<1>10. ~(f + 1 \in k + 1 .. e)
  BY <1>4, <1>7, <1>9
<1>11. f = e
  BY <1>2, <1>4, <1>7, <1>8, <1>10
<1> QED BY <1>1, <1>4, <1>5, <1>11

\* What the next word is in.
LEMMA InsideOpened ==
  ASSUME NEW ws, NEW n \in Nat \ {0}, ws[n].w \in Openers
  PROVE  n \in InsideIn(ws, n + 1) /\ StartIn(ws, n + 1) = n
<1>1. DepthIn(ws, n) \in Int /\ DepthIn(ws, n + 1) = DepthIn(ws, n) + 1
  BY DepthStep
<1>2. \A j \in n + 1 .. n + 1 : j = n + 1
  OBVIOUS
<1>3. \A j \in n + 1 .. n + 1 : DepthIn(ws, j) > DepthIn(ws, n)
  BY <1>1, <1>2
<1>4. n + 1 \in Nat \ {0} /\ n \in 1 .. (n + 1) - 1
  OBVIOUS
<1> QED BY <1>1, <1>3, <1>4, StartAt

\* A word that neither opens nor closes leaves the structures around.
LEMMA InsideSame ==
  ASSUME NEW ws, NEW n \in Nat \ {0}, ws[n].w \notin Openers \cup Closers
  PROVE  InsideIn(ws, n + 1) = InsideIn(ws, n) /\ StartIn(ws, n + 1) = StartIn(ws, n)
<1>1. DepthIn(ws, n + 1) = DepthIn(ws, n)
  BY DepthStep
<1>2. \A k \in InsideIn(ws, n) : DepthIn(ws, k) < DepthIn(ws, n)
  BY DEF InsideIn
<1>3. \A k : k \in InsideIn(ws, n + 1) <=> k \in InsideIn(ws, n)
  BY <1>1, <1>2, InsideStep
<1>4. InsideIn(ws, n + 1) = InsideIn(ws, n)
  BY <1>3
<1> QED BY <1>4, Zenon DEF StartIn

\* What is around a structure is what is around its words, further out.
LEMMA InsideLess ==
  ASSUME NEW ws, NEW n \in Nat \ {0}, NEW s \in InsideIn(ws, n), NEW k
  PROVE  k \in InsideIn(ws, s) <=> k \in InsideIn(ws, n) /\ k < s /\ DepthIn(ws, k) < DepthIn(ws, s)
<1>1. \A j \in 1 .. n : DepthIn(ws, j) \in Int
  BY DepthStep
<1>2. /\ s \in 1 .. n - 1 /\ DepthIn(ws, s) < DepthIn(ws, n)
      /\ \A j \in s + 1 .. n : DepthIn(ws, j) > DepthIn(ws, s)
  BY DEF InsideIn
<1>3. ASSUME k \in InsideIn(ws, s)
      PROVE  k \in InsideIn(ws, n) /\ k < s /\ DepthIn(ws, k) < DepthIn(ws, s)
  <2>1. /\ k \in 1 .. s - 1 /\ ws[k].w \in Openers /\ DepthIn(ws, k) < DepthIn(ws, s)
        /\ \A j \in k + 1 .. s : DepthIn(ws, j) > DepthIn(ws, k)
    BY <1>3 DEF InsideIn
  <2>2. k \in 1 .. n - 1 /\ k < s /\ k \in 1 .. n /\ s \in 1 .. n
    BY <1>2, <2>1
  <2>3. ASSUME NEW j \in k + 1 .. n PROVE DepthIn(ws, j) > DepthIn(ws, k)
    <3>1. CASE j \in k + 1 .. s
      BY <2>1, <3>1
    <3>2. CASE j \notin k + 1 .. s
      <4>1. j \in s + 1 .. n /\ j \in 1 .. n
        BY <1>2, <2>1, <3>2
      <4> QED BY <1>1, <1>2, <2>1, <2>2, <4>1
    <3> QED BY <3>1, <3>2
  <2>4. DepthIn(ws, k) < DepthIn(ws, n)
    BY <1>1, <1>2, <2>1, <2>2
  <2> QED BY <2>1, <2>2, <2>3, <2>4 DEF InsideIn
<1>4. ASSUME k \in InsideIn(ws, n), k < s, DepthIn(ws, k) < DepthIn(ws, s)
      PROVE  k \in InsideIn(ws, s)
  <2>1. /\ k \in 1 .. n - 1 /\ ws[k].w \in Openers
        /\ \A j \in k + 1 .. n : DepthIn(ws, j) > DepthIn(ws, k)
    BY <1>4 DEF InsideIn
  <2>2. k \in 1 .. s - 1 /\ \A j \in k + 1 .. s : j \in k + 1 .. n
    BY <1>2, <1>4, <2>1
  <2> QED BY <1>4, <2>1, <2>2 DEF InsideIn
<1> QED BY <1>3, <1>4

\* Inside the innermost structure's first word is what is outside of it.
LEMMA InsideOuter ==
  ASSUME NEW ws, NEW n \in Nat \ {0}, InsideIn(ws, n) # {}, NEW k
  PROVE  k \in InsideIn(ws, StartIn(ws, n)) <=> k \in InsideIn(ws, n) /\ k # StartIn(ws, n)
<1>1. PICK s : s = StartIn(ws, n)
  OBVIOUS
<1>2. s \in InsideIn(ws, n) /\ s \in 1 .. n - 1 /\ \A j \in InsideIn(ws, n) : s >= j
  BY <1>1, StartIs
<1>3. \A j \in 1 .. n : DepthIn(ws, j) \in Int
  BY DepthStep
<1>4. k \in InsideIn(ws, s) => k \in InsideIn(ws, n) /\ k < s
  BY <1>2, InsideLess
<1>5. ASSUME k \in InsideIn(ws, n), k # s PROVE k \in InsideIn(ws, s)
  <2>1. /\ k \in 1 .. n - 1 /\ \A j \in k + 1 .. n : DepthIn(ws, j) > DepthIn(ws, k)
    BY <1>5 DEF InsideIn
  <2>2. k < s /\ s \in k + 1 .. n
    BY <1>2, <1>5, <2>1
  <2>3. DepthIn(ws, k) < DepthIn(ws, s)
    BY <1>2, <1>3, <2>1, <2>2
  <2> QED BY <1>2, <1>5, <2>2, <2>3, InsideLess
<1> QED BY <1>1, <1>2, <1>4, <1>5

\* A structure's last word leaves what its first word is in.
LEMMA InsideClosed ==
  ASSUME NEW ws, Whole(ws), NEW n \in 1 .. Len(ws), ws[n].w \in Closers
  PROVE  /\ InsideIn(ws, n + 1) = InsideIn(ws, StartIn(ws, n))
         /\ StartIn(ws, n + 1) = StartIn(ws, StartIn(ws, n))
         /\ StartIn(ws, n) \in 1 .. n - 1 /\ ws[StartIn(ws, n)].w \in Openers
         /\ \A j \in StartIn(ws, n) + 1 .. n : StartIn(ws, n) \in InsideIn(ws, j)
<1>1. PICK l \in Nat : l = Len(ws)
  BY DEF Whole
<1>2. n \in Nat \ {0} /\ Fits(ws, n)
  BY <1>1 DEF Whole, WellNestedIn
<1>3. PICK s : s = StartIn(ws, n)
  OBVIOUS
<1>4. /\ s \in 1 .. n - 1 /\ ws[s].w \in Openers /\ DepthIn(ws, n) = DepthIn(ws, s) + 1
      /\ \A j \in s + 1 .. n : DepthIn(ws, j) >= DepthIn(ws, n)
  BY <1>2, <1>3, OpenerFound DEF StartIn
<1>5. InsideIn(ws, n) # {}
  BY <1>2, Zenon DEF Fits
<1>6. s \in InsideIn(ws, n) /\ \A j \in InsideIn(ws, n) : s >= j
  BY <1>2, <1>3, <1>5, StartIs
<1>7. DepthIn(ws, n + 1) = DepthIn(ws, s) /\ \A j \in 1 .. n : DepthIn(ws, j) \in Int
  <2>1. DepthIn(ws, n + 1) = DepthIn(ws, n) - 1 /\ \A j \in 1 .. n : DepthIn(ws, j) \in Int
    BY <1>2, DepthStep
  <2>2. s \in 1 .. n
    BY <1>4
  <2>3. DepthIn(ws, s) \in Int
    BY <2>1, <2>2
  <2> QED BY <1>4, <2>1, <2>3
<1>8. ASSUME NEW k PROVE k \in InsideIn(ws, n + 1) <=> k \in InsideIn(ws, s)
  <2>1. k \in InsideIn(ws, n + 1) <=> k \in InsideIn(ws, n) /\ DepthIn(ws, k) < DepthIn(ws, s)
    <3>1. ws[n].w \notin Openers
      BY DEF Openers, Closers
    <3> QED BY <1>2, <1>7, <3>1, InsideStep
  <2>2. ASSUME k \in InsideIn(ws, n), DepthIn(ws, k) < DepthIn(ws, s) PROVE k < s
    <3>1. k \in 1 .. n - 1 /\ k <= s
      BY <1>6, <2>2 DEF InsideIn
    <3>2. k # s
      BY <1>4, <1>7, <2>2
    <3> QED BY <1>4, <3>1, <3>2
  <2>3. k \in InsideIn(ws, s) <=> k \in InsideIn(ws, n) /\ k < s /\ DepthIn(ws, k) < DepthIn(ws, s)
    BY <1>2, <1>6, InsideLess
  <2> QED BY <2>1, <2>2, <2>3
<1>9. InsideIn(ws, n + 1) = InsideIn(ws, s)
  BY <1>8
<1>10. StartIn(ws, n + 1) = StartIn(ws, s)
  BY <1>9, Zenon DEF StartIn
<1>11. ASSUME NEW j \in s + 1 .. n PROVE s \in InsideIn(ws, j)
  <2>1. \A i \in s + 1 .. j : DepthIn(ws, i) > DepthIn(ws, s)
    <3> TAKE i \in s + 1 .. j
    <3>1. i \in s + 1 .. n /\ i \in 1 .. n /\ s \in 1 .. n /\ n \in 1 .. n
      BY <1>4
    <3> QED BY <1>4, <1>7, <3>1
  <2>2. s \in 1 .. j - 1 /\ j \in s + 1 .. j
    BY <1>4
  <2>3. DepthIn(ws, s) < DepthIn(ws, j)
    <3>1. s \in 1 .. n /\ j \in 1 .. n
      BY <1>4
    <3> QED BY <1>7, <2>1, <2>2, <3>1
  <2> QED BY <1>4, <2>1, <2>2, <2>3 DEF InsideIn
<1> QED BY <1>3, <1>4, <1>9, <1>10, <1>11

-----------------------------------------------------------------------------
(* The labels in force at a word are those of the structure it stands in.  *)

\* Clause c of a structure is the last one before n.
ClauseOf(ws, c, n) ==
  c = StartIn(ws, n) \/ (ws[c].w = "ELSEIF" /\ StartIn(ws, c) = StartIn(ws, n))
LastBefore(ws, c, n) ==
  /\ c \in 1 .. n - 1 /\ ClauseOf(ws, c, n)
  /\ \A d \in c + 1 .. n - 1 : ~(ws[d].w = "ELSEIF" /\ StartIn(ws, d) = StartIn(ws, n))
SameExits(c, b) == c.EBreak = b.EBreak /\ c.EContinue = b.EContinue /\ c.EExit = b.EExit
InForce(ws, H, n) ==
  InsideIn(ws, n) # {} =>
    /\ SameExits(H[n - 1], H[StartIn(ws, n)])
    /\ \A c : LastBefore(ws, c, n) => H[n - 1].EFalse = H[c].EFalse

\* A word that goes on with a structure or ends it.
LEMMA StartOfClause ==
  ASSUME NEW ws, Whole(ws), NEW c \in 1 .. Len(ws), ws[c].w \in {"ELSEIF", "ELSE"} \cup Closers
  PROVE  /\ c \in Nat \ {0} /\ InsideIn(ws, c) # {}
         /\ StartIn(ws, c) \in 1 .. c - 1 /\ StartIn(ws, c) \in InsideIn(ws, c)
         /\ ws[StartIn(ws, c)].w = Opener(ws[c].w) /\ ws[StartIn(ws, c)].w \in Openers
         /\ DepthIn(ws, c) = DepthIn(ws, StartIn(ws, c)) + 1
         /\ \A j \in StartIn(ws, c) + 1 .. c : DepthIn(ws, j) >= DepthIn(ws, c)
<1>1. c \in Nat \ {0} /\ Fits(ws, c)
  BY DEF Whole, WellNestedIn
<1>2. InsideIn(ws, c) # {}
  BY <1>1, Zenon DEF Fits
<1>3. StartIn(ws, c) \in InsideIn(ws, c)
  BY <1>1, <1>2, StartIs
<1> QED BY <1>1, <1>2, <1>3, OpenerFound DEF StartIn

\* The labels in force after a structure has opened,
LEMMA InForceOpened ==
  ASSUME NEW ws, Whole(ws), NEW H, NEW n \in 1 .. Len(ws), ws[n].w \in Openers
  PROVE  InForce(ws, H, n + 1)
<1>1. StartIn(ws, n + 1) = n /\ n \in Nat /\ Len(ws) \in Nat
  BY InsideOpened DEF Whole
<1>2. ASSUME NEW c, LastBefore(ws, c, n + 1) PROVE c = n
  <2>1. c \in 1 .. n /\ (c = n \/ (ws[c].w = "ELSEIF" /\ StartIn(ws, c) = n))
    BY <1>1, <1>2 DEF LastBefore, ClauseOf
  <2>2. ws[c].w = "ELSEIF" => StartIn(ws, c) \in 1 .. c - 1
    <3>1. c \in 1 .. Len(ws)
      BY <1>1, <2>1
    <3> QED BY <3>1, StartOfClause
  <2> QED BY <1>1, <2>1, <2>2
<1>3. (n + 1) - 1 = n
  BY <1>1
<1>4. SameExits(H[n], H[n])
  BY DEF SameExits
<1> QED BY <1>1, <1>2, <1>3, <1>4, Zenon DEF InForce

\* after a word that changes none,
LEMMA InForceSame ==
  ASSUME NEW ws, Whole(ws), NEW H, NEW n \in 1 .. Len(ws),
         ws[n].w \notin Openers \cup Closers \cup {"ELSEIF"},
         SameLabels(H[n], H[n - 1]), InForce(ws, H, n)
  PROVE  InForce(ws, H, n + 1)
<1>1. n \in Nat \ {0} /\ Len(ws) \in Nat
  BY DEF Whole
<1>2. InsideIn(ws, n + 1) = InsideIn(ws, n) /\ StartIn(ws, n + 1) = StartIn(ws, n)
  BY <1>1, InsideSame
<1>3. SUFFICES ASSUME InsideIn(ws, n) # {}
               PROVE  /\ SameExits(H[n], H[StartIn(ws, n)])
                      /\ \A c : LastBefore(ws, c, n + 1) => H[n].EFalse = H[c].EFalse
  <2>1. (n + 1) - 1 = n
    BY <1>1
  <2> QED BY <1>2, <2>1, Zenon DEF InForce
<1>4. SameExits(H[n - 1], H[StartIn(ws, n)])
  BY <1>3 DEF InForce
<1>5. SameExits(H[n], H[StartIn(ws, n)])
  BY <1>4 DEF SameExits, SameLabels
<1>6. ASSUME NEW c, LastBefore(ws, c, n + 1) PROVE H[n].EFalse = H[c].EFalse
  <2>1. StartIn(ws, n) \in 1 .. n - 1
    BY <1>1, <1>3, StartIs
  <2>2. /\ c \in 1 .. n /\ ClauseOf(ws, c, n)
        /\ \A d \in c + 1 .. n : ~(ws[d].w = "ELSEIF" /\ StartIn(ws, d) = StartIn(ws, n))
    BY <1>1, <1>2, <1>6 DEF LastBefore, ClauseOf
  <2>3. c # n
    BY <2>1, <2>2 DEF ClauseOf
  <2>4. \A d \in c + 1 .. n - 1 : d \in c + 1 .. n
    BY <1>1
  <2>5. LastBefore(ws, c, n)
    BY <1>1, <2>2, <2>3, <2>4 DEF LastBefore
  <2>6. H[n - 1].EFalse = H[c].EFalse
    BY <1>3, <2>5 DEF InForce
  <2> QED BY <2>6 DEF SameLabels
<1> QED BY <1>5, <1>6

\* after ELSEIF,
LEMMA InForceClause ==
  ASSUME NEW ws, Whole(ws), NEW H, NEW n \in 1 .. Len(ws), ws[n].w = "ELSEIF",
         SameExits(H[n], H[n - 1]), InForce(ws, H, n)
  PROVE  InForce(ws, H, n + 1)
<1>1. n \in Nat \ {0} /\ Len(ws) \in Nat
  BY DEF Whole
<1>2. InsideIn(ws, n + 1) = InsideIn(ws, n) /\ StartIn(ws, n + 1) = StartIn(ws, n)
  BY <1>1, InsideSame DEF Openers, Closers
<1>3. SUFFICES ASSUME InsideIn(ws, n) # {}
               PROVE  /\ SameExits(H[n], H[StartIn(ws, n)])
                      /\ \A c : LastBefore(ws, c, n + 1) => H[n].EFalse = H[c].EFalse
  <2>1. (n + 1) - 1 = n
    BY <1>1
  <2> QED BY <1>2, <2>1, Zenon DEF InForce
<1>4. SameExits(H[n - 1], H[StartIn(ws, n)])
  BY <1>3 DEF InForce
<1>5. SameExits(H[n], H[StartIn(ws, n)])
  BY <1>4 DEF SameExits
<1>6. ASSUME NEW c, LastBefore(ws, c, n + 1) PROVE c = n
  <2>1. c \in 1 .. n /\ \A d \in c + 1 .. n : ~(ws[d].w = "ELSEIF" /\ StartIn(ws, d) = StartIn(ws, n))
    BY <1>1, <1>2, <1>6 DEF LastBefore
  <2>2. n \notin c + 1 .. n
    BY <2>1
  <2> QED BY <1>1, <2>1, <2>2
<1> QED BY <1>5, <1>6

\* and after a structure has closed.
LEMMA InForceClosed ==
  ASSUME NEW ws, Whole(ws), NEW H, NEW n \in 1 .. Len(ws), ws[n].w \in Closers,
         SameLabels(H[n], H[StartIn(ws, n) - 1]), InForce(ws, H, StartIn(ws, n))
  PROVE  InForce(ws, H, n + 1)
<1>1. n \in Nat \ {0} /\ Len(ws) \in Nat
  BY DEF Whole
<1>2. PICK s : s = StartIn(ws, n)
  OBVIOUS
<1>3. /\ InsideIn(ws, n + 1) = InsideIn(ws, s) /\ StartIn(ws, n + 1) = StartIn(ws, s)
      /\ s \in 1 .. n - 1 /\ ws[s].w \in Openers
      /\ \A j \in s + 1 .. n : s \in InsideIn(ws, j)
  BY <1>2, InsideClosed
<1>4. SUFFICES ASSUME InsideIn(ws, s) # {}
               PROVE  /\ SameExits(H[n], H[StartIn(ws, s)])
                      /\ \A c : LastBefore(ws, c, n + 1) => H[n].EFalse = H[c].EFalse
  <2>1. (n + 1) - 1 = n
    BY <1>1
  <2> QED BY <1>3, <2>1, Zenon DEF InForce
<1>5. SameExits(H[s - 1], H[StartIn(ws, s)])
  BY <1>2, <1>4 DEF InForce
<1>6. SameExits(H[n], H[StartIn(ws, s)])
  BY <1>2, <1>5 DEF SameExits, SameLabels
<1>7. ASSUME NEW c, LastBefore(ws, c, n + 1) PROVE H[n].EFalse = H[c].EFalse
  <2>1. StartIn(ws, s) \in 1 .. s - 1
    BY <1>1, <1>3, <1>4, StartIs
  <2>2. /\ c \in 1 .. n /\ ClauseOf(ws, c, s)
        /\ \A d \in c + 1 .. n : ~(ws[d].w = "ELSEIF" /\ StartIn(ws, d) = StartIn(ws, s))
    BY <1>1, <1>3, <1>7 DEF LastBefore, ClauseOf
  <2>3. c < s
    <3>1. CASE c = StartIn(ws, s)
      BY <1>1, <1>3, <2>1, <3>1
    <3>2. CASE ws[c].w = "ELSEIF" /\ StartIn(ws, c) = StartIn(ws, s)
      <4>1. c # s
        BY <1>3, <3>2 DEF Openers
      <4>2. ASSUME c > s PROVE FALSE
        <5>1. c \in s + 1 .. n /\ c \in Nat \ {0}
          BY <1>3, <2>2, <4>2
        <5>2. s \in InsideIn(ws, c)
          BY <1>3, <5>1
        <5>3. StartIn(ws, c) >= s
          BY <5>1, <5>2, StartIs
        <5> QED BY <1>1, <1>3, <2>1, <3>2, <5>3
      <4> QED BY <1>1, <1>3, <2>2, <4>1, <4>2
    <3> QED BY <2>2, <3>1, <3>2 DEF ClauseOf
  <2>4. c \in 1 .. s - 1 /\ \A d \in c + 1 .. s - 1 : d \in c + 1 .. n
    BY <1>3, <2>2, <2>3
  <2>5. LastBefore(ws, c, s)
    BY <2>2, <2>4 DEF LastBefore
  <2>6. H[s - 1].EFalse = H[c].EFalse
    BY <1>2, <1>4, <2>5 DEF InForce
  <2> QED BY <1>2, <2>6 DEF SameLabels
<1> QED BY <1>6, <1>7

\* At every word the labels in force are those of the structure and the clause around it.
LEMMA AllInForce ==
  ASSUME NEW ws, Whole(ws), NEW code, NEW F, NEW H, Laid(ws, code, F, H),
         NEW n \in 1 .. Len(ws) + 1
  PROVE  InForce(ws, H, n)
<1>1. PICK l \in Nat : l = Len(ws)
  BY DEF Whole
<1> DEFINE T == {k \in 1 .. l + 1 : ~InForce(ws, H, k)}
<1>2. SUFFICES ASSUME T # {} PROVE FALSE
  BY <1>1
<1>3. PICK m \in T : \A j \in T : m <= j
  <2>1. T \in SUBSET Nat
    OBVIOUS
  <2> HIDE DEF T
  <2> QED BY <1>2, <2>1, SomeLeast
<1>4. m # 1
  <2>1. InForce(ws, H, 1)
    BY DepthAtStart DEF InForce
  <2> QED BY <1>3, <2>1
<1>5. PICK k \in 1 .. l : m = k + 1
  BY <1>3, <1>4
<1>6. \A j \in 1 .. k : InForce(ws, H, j)
  <2> TAKE j \in 1 .. k
  <2>1. j \in 1 .. l + 1 /\ ~(m <= j)
    BY <1>5
  <2> QED BY <1>3, <2>1
<1>7. Turn(ws[k].w, H[k - 1], H[k], H[StartIn(ws, k) - 1])
  BY <1>1, <1>5 DEF Laid
<1>8. InForce(ws, H, k) /\ k \in 1 .. Len(ws)
  BY <1>1, <1>6
<1>9. InForce(ws, H, k + 1)
  <2>1. CASE ws[k].w \in Openers
    BY <1>8, <2>1, InForceOpened
  <2>2. CASE ws[k].w \in Closers
    <3>1. SameLabels(H[k], H[StartIn(ws, k) - 1])
      BY <1>7, <2>2, Zenon DEF Turn
    <3>2. StartIn(ws, k) \in 1 .. k
      BY <1>8, <2>2, InsideClosed
    <3>3. InForce(ws, H, StartIn(ws, k))
      BY <1>6, <3>2
    <3> QED BY <1>8, <2>2, <3>1, <3>3, InForceClosed
  <2>3. CASE ws[k].w = "ELSEIF"
    <3>1. SameExits(H[k], H[k - 1])
      BY <1>7, <2>3, Zenon DEF Turn, SameExits
    <3> QED BY <1>8, <2>3, <3>1, InForceClause
  <2>4. CASE ws[k].w \notin Openers \cup Closers \cup {"ELSEIF"}
    <3>1. SameLabels(H[k], H[k - 1])
      BY <1>7, <2>4, Zenon DEF Turn
    <3> QED BY <1>8, <2>4, <3>1, InForceSame
  <2> QED BY <2>1, <2>2, <2>3, <2>4
<1> QED BY <1>3, <1>5, <1>9

-----------------------------------------------------------------------------
(* Where the source goes: the next clause, the ENDIF, the loop around.     *)
ClauseIn(ws, n) ==
  LeastOf({k \in n + 1 .. Len(ws) :
            /\ ws[k].w \in {"ELSEIF", "ELSE", "ENDIF"}
            /\ DepthIn(ws, k) = (IF ws[n].w = "IF" THEN DepthIn(ws, n) + 1 ELSE DepthIn(ws, n))})
FinalIn(ws, n) ==
  LeastOf({k \in n + 1 .. Len(ws) : ws[k].w = "ENDIF" /\ DepthIn(ws, k) = DepthIn(ws, n)})
LoopIn(ws, n) ==
  GreatestOf({k \in 1 .. n - 1 : ws[k].w \in {"DO", "WHILE"} /\ EndIn(ws, k) > n})
LeavesClause(ws, d) == ws[d].w \in {"ELSEIF", "ELSE"} \/ (ws[d].w = "ENDIF" /\ ~AfterElse(ws, d))

\* A clause's false label is set by the next clause.
LEMMA LastClause ==
  ASSUME NEW ws, Whole(ws), NEW d \in 1 .. Len(ws), LeavesClause(ws, d)
  PROVE  \E c \in 1 .. d - 1 :
           ws[c].w \in {"IF", "ELSEIF"} /\ LastBefore(ws, c, d) /\ ClauseIn(ws, c) = d
<1>1. PICK l \in Nat : l = Len(ws)
  BY DEF Whole
<1>2. PICK k : k = StartIn(ws, d)
  OBVIOUS
<1>3. /\ ws[d].w \in {"ELSEIF", "ELSE", "ENDIF"}
      /\ ws[d].w \in {"ELSEIF", "ELSE"} \cup Closers
  BY DEF LeavesClause, Closers
<1>4. /\ d \in Nat \ {0} /\ k \in 1 .. d - 1 /\ k \in InsideIn(ws, d) /\ ws[k].w = "IF"
      /\ DepthIn(ws, d) = DepthIn(ws, k) + 1
      /\ \A j \in k + 1 .. d : DepthIn(ws, j) >= DepthIn(ws, d)
  BY <1>2, <1>3, StartOfClause DEF Opener
<1>5. \A j \in 1 .. d + 1 : DepthIn(ws, j) \in Int
  BY <1>4, DepthStep
<1> DEFINE C == {c \in 1 .. d - 1 : ClauseOf(ws, c, d)}
<1>6. k \in C /\ C \in SUBSET (1 .. d)
  BY <1>2, <1>4 DEF ClauseOf
<1>7. PICK c : c \in C /\ \A j \in C : c >= j
  <2> HIDE DEF C
  <2> QED BY <1>4, <1>6, SomeGreatest
<1>8. /\ c \in 1 .. d - 1 /\ ClauseOf(ws, c, d) /\ c >= k
      /\ ws[c].w \in {"IF", "ELSEIF"}
  BY <1>2, <1>4, <1>6, <1>7 DEF ClauseOf
<1>9. LastBefore(ws, c, d)
  <2>1. ASSUME NEW j \in c + 1 .. d - 1, ws[j].w = "ELSEIF", StartIn(ws, j) = StartIn(ws, d)
        PROVE  FALSE
    <3>1. j \in C /\ ~(c >= j)
      BY <1>8, <2>1 DEF ClauseOf
    <3> QED BY <1>7, <3>1
  <2> QED BY <1>8, <2>1 DEF LastBefore
<1>10. DepthIn(ws, d) = IF ws[c].w = "IF" THEN DepthIn(ws, c) + 1 ELSE DepthIn(ws, c)
  <2>1. CASE c = k
    BY <1>4, <2>1
  <2>2. CASE ws[c].w = "ELSEIF" /\ StartIn(ws, c) = k
    <3>1. c \in 1 .. Len(ws)
      BY <1>1, <1>8
    <3>2. DepthIn(ws, c) = DepthIn(ws, k) + 1
      BY <2>2, <3>1, StartOfClause
    <3> QED BY <1>4, <2>2, <3>2
  <2> QED BY <1>2, <1>8, <2>1, <2>2 DEF ClauseOf
<1> DEFINE T == {j \in c + 1 .. Len(ws) :
                   /\ ws[j].w \in {"ELSEIF", "ELSE", "ENDIF"}
                   /\ DepthIn(ws, j) = (IF ws[c].w = "IF" THEN DepthIn(ws, c) + 1 ELSE DepthIn(ws, c))}
<1>11. T \in SUBSET Nat /\ d \in T
  BY <1>1, <1>3, <1>8, <1>10
<1>12. PICK t : t = LeastOf(T)
  OBVIOUS
<1>13. t \in T /\ t <= d
  <2> HIDE DEF T
  <2> QED BY <1>11, <1>12, SomeLeast
<1>14. /\ t \in c + 1 .. d /\ ws[t].w \in {"ELSEIF", "ELSE", "ENDIF"}
       /\ DepthIn(ws, t) = DepthIn(ws, d)
  BY <1>1, <1>8, <1>10, <1>13
<1>15. ASSUME t # d PROVE FALSE
  <2>1. t \in c + 1 .. d - 1 /\ t \in 1 .. Len(ws) /\ t \in k + 1 .. d /\ t \in Nat \ {0}
    BY <1>1, <1>4, <1>8, <1>14, <1>15
  <2>2. CASE ws[t].w = "ELSEIF"
    <3>1. k \in 1 .. t - 1 /\ ws[k].w \in Openers /\ DepthIn(ws, t) = DepthIn(ws, k) + 1
      BY <1>4, <1>14, <2>1 DEF Openers
    <3>2. \A j \in k + 1 .. t : DepthIn(ws, j) > DepthIn(ws, k)
      <4> TAKE j \in k + 1 .. t
      <4>1. j \in k + 1 .. d /\ j \in 1 .. d + 1 /\ k \in 1 .. d + 1
        BY <1>4, <2>1
      <4> QED BY <1>4, <1>5, <4>1
    <3>3. StartIn(ws, t) = k
      BY <2>1, <3>1, <3>2, StartAt
    <3> QED BY <1>2, <1>9, <2>1, <2>2, <3>3 DEF LastBefore
  <2>3. CASE ws[t].w = "ELSE"
    <3>1. t \in 1 .. d - 1 /\ t > k /\ t \in k + 1 .. d - 1
      BY <1>4, <2>1
    <3>2. CASE ws[d].w = "ENDIF"
      <4>1. AfterElse(ws, d)
        BY <1>2, <1>14, <2>3, <3>1 DEF AfterElse
      <4> QED BY <3>2, <4>1 DEF LeavesClause
    <3>3. CASE ws[d].w \in {"ELSEIF", "ELSE"}
      <4>1. Fits(ws, d)
        BY <1>1 DEF Whole, WellNestedIn
      <4>2. k = GreatestOf(InsideIn(ws, d))
        BY <1>2 DEF StartIn
      <4>3. \A j \in k + 1 .. d - 1 : ~(ws[j].w = "ELSE" /\ DepthIn(ws, j) = DepthIn(ws, d))
        BY <3>3, <4>1, <4>2, Zenon DEF Fits
      <4> QED BY <1>14, <2>3, <3>1, <4>3
    <3> QED BY <1>3, <3>2, <3>3
  <2>4. CASE ws[t].w = "ENDIF"
    <3>1. DepthIn(ws, t + 1) = DepthIn(ws, t) - 1 /\ DepthIn(ws, t) \in Int
      BY <2>1, <2>4, DepthStep DEF Closers
    <3>2. t + 1 \in k + 1 .. d
      BY <1>4, <2>1
    <3> QED BY <1>4, <1>14, <3>1, <3>2
  <2> QED BY <1>14, <2>2, <2>3, <2>4
<1>16. ClauseIn(ws, c) = d
  BY <1>12, <1>15 DEF ClauseIn
<1> QED BY <1>8, <1>9, <1>16

\* After a clause the source goes to the ENDIF of the structure.
LEMMA FinalIs ==
  ASSUME NEW ws, Whole(ws), NEW n \in 1 .. Len(ws), ws[n].w \in {"ELSEIF", "ELSE"}
  PROVE  /\ FinalIn(ws, n) = EndIn(ws, StartIn(ws, n)) /\ ws[FinalIn(ws, n)].w = "ENDIF"
         /\ FinalIn(ws, n) \in n + 1 .. Len(ws) - 1
<1>1. PICK l \in Nat : l = Len(ws)
  BY DEF Whole
<1>2. PICK k : k = StartIn(ws, n)
  OBVIOUS
<1>3. /\ n \in Nat \ {0} /\ k \in 1 .. n - 1 /\ ws[k].w = "IF" /\ ws[k].w \in Openers
      /\ DepthIn(ws, n) = DepthIn(ws, k) + 1
      /\ \A j \in k + 1 .. n : DepthIn(ws, j) >= DepthIn(ws, n)
  BY <1>2, StartOfClause DEF Opener
<1>4. PICK e : e = EndIn(ws, k)
  OBVIOUS
<1>5. k \in 1 .. Len(ws) /\ DepthIn(ws, k) \in Int
  BY <1>1, <1>3, DepthStep
<1>6. /\ e \in k + 1 .. l - 1 /\ ws[e].w \in Closers /\ Opener(ws[e].w) = "IF"
      /\ DepthIn(ws, e) = DepthIn(ws, k) + 1 /\ DepthIn(ws, e + 1) = DepthIn(ws, k)
  BY <1>1, <1>3, <1>4, <1>5, EndFound
<1>7. ws[e].w = "ENDIF"
  BY <1>6 DEF Closers, Opener
<1>8. e \in n + 1 .. l - 1
  <2>1. ~(e + 1 \in k + 1 .. n)
    BY <1>3, <1>5, <1>6
  <2>2. e # n
    BY <1>7
  <2> QED BY <1>3, <1>6, <2>1, <2>2
<1> DEFINE T == {j \in n + 1 .. Len(ws) : ws[j].w = "ENDIF" /\ DepthIn(ws, j) = DepthIn(ws, n)}
           S == {j \in k + 1 .. Len(ws) : ws[j].w \in Closers /\ DepthIn(ws, j) = DepthIn(ws, k) + 1}
<1>9. e \in T /\ T \in SUBSET Nat /\ T \subseteq S /\ S \in SUBSET Nat
  BY <1>1, <1>3, <1>6, <1>7, <1>8 DEF Closers
<1>10. PICK t : t = LeastOf(T)
  OBVIOUS
<1>11. e = LeastOf(S)
  BY <1>4 DEF EndIn
<1>12. t \in T /\ t <= e /\ e <= t
  <2> HIDE DEF T, S
  <2> QED BY <1>9, <1>10, <1>11, SomeLeast
<1>13. t = e
  BY <1>8, <1>12
<1>14. FinalIn(ws, n) = e
  BY <1>10, <1>13 DEF FinalIn
<1> QED BY <1>1, <1>2, <1>4, <1>7, <1>8, <1>14

-----------------------------------------------------------------------------
(* The loop around a word.                                                 *)
LoopsIn(ws, n) == {k \in InsideIn(ws, n) : ws[k].w \in {"DO", "WHILE"}}

\* The loop that BREAK and CONTINUE mean is the innermost one.
LEMMA LoopsAre ==
  ASSUME NEW ws, Whole(ws), NEW n \in 1 .. Len(ws), ws[n].w \notin Closers
  PROVE  LoopIn(ws, n) = GreatestOf(LoopsIn(ws, n))
<1>1. PICK l \in Nat : l = Len(ws)
  BY DEF Whole
<1>2. ASSUME NEW k
      PROVE  k \in LoopsIn(ws, n) <=>
               k \in 1 .. n - 1 /\ ws[k].w \in {"DO", "WHILE"} /\ EndIn(ws, k) > n
  <2>1. ASSUME k \in LoopsIn(ws, n)
        PROVE  k \in 1 .. n - 1 /\ ws[k].w \in {"DO", "WHILE"} /\ EndIn(ws, k) > n
    BY <2>1, LoopEndsAfter DEF LoopsIn
  <2>2. ASSUME k \in 1 .. n - 1, ws[k].w \in {"DO", "WHILE"}, EndIn(ws, k) > n
        PROVE  k \in LoopsIn(ws, n)
    <3>1. k \in 1 .. Len(ws) /\ ws[k].w \in Openers
      BY <1>1, <2>2 DEF Openers
    <3>2. PICK e : e = EndIn(ws, k)
      OBVIOUS
    <3>3. e \in k + 1 .. Len(ws) - 1 /\ \A j \in k + 1 .. e : DepthIn(ws, j) > DepthIn(ws, k)
      BY <3>1, <3>2, EndFound
    <3>4. \A j \in k + 1 .. n : j \in k + 1 .. e
      BY <1>1, <2>2, <3>2, <3>3
    <3>5. n \in k + 1 .. n /\ DepthIn(ws, k) \in Int /\ DepthIn(ws, n) \in Int
      BY <1>1, <2>2, <3>1, DepthStep
    <3>6. \A j \in k + 1 .. n : DepthIn(ws, j) > DepthIn(ws, k)
      BY <3>3, <3>4
    <3>7. DepthIn(ws, k) < DepthIn(ws, n)
      BY <3>5, <3>6
    <3>8. k \in InsideIn(ws, n)
      BY <2>2, <3>1, <3>6, <3>7 DEF InsideIn
    <3> QED BY <2>2, <3>8 DEF LoopsIn
  <2> QED BY <2>1, <2>2
<1>3. LoopsIn(ws, n) = {k \in 1 .. n - 1 : ws[k].w \in {"DO", "WHILE"} /\ EndIn(ws, k) > n}
  BY <1>2
<1> QED BY <1>3 DEF LoopIn

\* Its labels are in force, whatever is between.
LoopInForce(ws, H, n) ==
  LoopsIn(ws, n) # {} =>
    LET k == GreatestOf(LoopsIn(ws, n)) IN
    /\ k \in 1 .. n - 1 /\ ws[k].w \in {"DO", "WHILE"}
    /\ H[n - 1].EBreak = H[k].EBreak /\ H[n - 1].EContinue = H[k].EContinue

\* The labels of BREAK and CONTINUE in force are those of that loop.
LEMMA LoopExits ==
  ASSUME NEW ws, Whole(ws), NEW code, NEW F, NEW H, Laid(ws, code, F, H),
         NEW n \in 1 .. Len(ws)
  PROVE  LoopInForce(ws, H, n)
<1>1. PICK l \in Nat : l = Len(ws)
  BY DEF Whole
<1> DEFINE T == {k \in 1 .. l : ~LoopInForce(ws, H, k)}
<1>2. SUFFICES ASSUME T # {} PROVE FALSE
  BY <1>1
<1>3. PICK m \in T : \A j \in T : m <= j
  <2>1. T \in SUBSET Nat
    OBVIOUS
  <2> HIDE DEF T
  <2> QED BY <1>2, <2>1, SomeLeast
<1>4. m \in 1 .. l /\ m \in Nat \ {0} /\ m \in 1 .. Len(ws) + 1
  BY <1>1, <1>3
<1>5. LoopsIn(ws, m) # {}
  BY <1>3, Zenon DEF LoopInForce
<1>6. InsideIn(ws, m) # {}
  BY <1>5 DEF LoopsIn
<1>7. PICK s : s = StartIn(ws, m)
  OBVIOUS
<1>8. /\ s \in InsideIn(ws, m) /\ s \in 1 .. m - 1 /\ ws[s].w \in Openers
      /\ \A k \in InsideIn(ws, m) : s >= k
  BY <1>4, <1>6, <1>7, StartIs
<1>9. H[m - 1].EBreak = H[s].EBreak /\ H[m - 1].EContinue = H[s].EContinue
  BY <1>4, <1>6, <1>7, AllInForce DEF InForce, SameExits
<1>10. LoopsIn(ws, m) \in SUBSET (1 .. m)
  BY DEF LoopsIn, InsideIn
<1>11. PICK g : g = GreatestOf(LoopsIn(ws, m))
  OBVIOUS
<1>12. g \in LoopsIn(ws, m) /\ \A k \in LoopsIn(ws, m) : g >= k
  BY <1>4, <1>5, <1>10, <1>11, SomeGreatest
<1>13. CASE ws[s].w \in {"DO", "WHILE"}
  <2>1. s \in LoopsIn(ws, m)
    BY <1>8, <1>13 DEF LoopsIn
  <2>2. g = s
    <3>1. g >= s /\ s >= g /\ g \in Nat /\ s \in Nat
      BY <1>8, <1>10, <1>12, <2>1 DEF LoopsIn
    <3> QED BY <3>1
  <2>3. LoopInForce(ws, H, m)
    BY <1>8, <1>9, <1>11, <1>13, <2>2 DEF LoopInForce
  <2> QED BY <1>3, <2>3
<1>14. CASE ws[s].w = "IF"
  <2>1. ASSUME NEW k PROVE k \in LoopsIn(ws, s) <=> k \in LoopsIn(ws, m)
    <3>1. k \in InsideIn(ws, s) <=> k \in InsideIn(ws, m) /\ k # s
      BY <1>4, <1>6, <1>7, InsideOuter
    <3> QED BY <1>14, <3>1 DEF LoopsIn
  <2>2. LoopsIn(ws, s) = LoopsIn(ws, m)
    BY <2>1
  <2>3. s \in 1 .. l /\ ~(m <= s)
    BY <1>4, <1>8
  <2>4. LoopInForce(ws, H, s)
    BY <1>3, <2>3
  <2>5. /\ g \in 1 .. s - 1 /\ ws[g].w \in {"DO", "WHILE"}
        /\ H[s - 1].EBreak = H[g].EBreak /\ H[s - 1].EContinue = H[g].EContinue
    BY <1>5, <1>11, <2>2, <2>4, Zenon DEF LoopInForce
  <2>6. Turn(ws[s].w, H[s - 1], H[s], H[StartIn(ws, s) - 1])
    BY <1>1, <2>3 DEF Laid
  <2>7. H[s].EBreak = H[s - 1].EBreak /\ H[s].EContinue = H[s - 1].EContinue
    BY <1>14, <2>6, Zenon DEF Turn
  <2>8. g \in 1 .. m - 1
    BY <1>8, <2>5
  <2>9. LoopInForce(ws, H, m)
    BY <1>9, <1>11, <2>5, <2>7, <2>8 DEF LoopInForce
  <2> QED BY <1>3, <2>9
<1> QED BY <1>8, <1>13, <1>14 DEF Openers

-----------------------------------------------------------------------------
(* Where the items of a word are, and the numbers of its labels.           *)
Needs(w) == CASE w = "IF" -> 2 [] w \in {"DO", "WHILE"} -> 3 [] w = "ELSEIF" -> 1 [] OTHER -> 0

\* A word takes as many label numbers as it needs.
LEMMA NumbersNext ==
  ASSUME NEW ws, NEW code, NEW F, NEW H, Laid(ws, code, F, H), NEW n \in 1 .. Len(ws), Len(ws) \in Nat
  PROVE  /\ H[n].next = H[n - 1].next + Needs(ws[n].w)
         /\ H[n].next \in Nat /\ H[n - 1].next \in Nat /\ Needs(ws[n].w) \in 0 .. 3
<1>1. Turn(ws[n].w, H[n - 1], H[n], H[StartIn(ws, n) - 1])
  BY DEF Laid
<1>2. n \in 0 .. Len(ws) /\ n - 1 \in 0 .. Len(ws)
  OBVIOUS
<1>3. H[n] \in Branches /\ H[n - 1] \in Branches
  BY <1>2 DEF Laid
<1>4. H[n].next \in Nat /\ H[n - 1].next \in Nat
  BY <1>3 DEF Branches
<1>5. Needs(ws[n].w) \in 0 .. 3
  BY DEF Needs
<1>6. H[n].next = H[n - 1].next + Needs(ws[n].w)
  <2>1. CASE ws[n].w \in Openers \cup {"ELSEIF"}
    BY <1>1, <2>1 DEF Turn, Needs, Openers
  <2>2. CASE ws[n].w \notin Openers \cup {"ELSEIF"}
    <3>1. Needs(ws[n].w) = 0
      BY <2>2 DEF Needs, Openers
    <3>2. H[n].next = H[n - 1].next
      BY <1>1, <2>2, Zenon DEF Turn
    <3> QED BY <1>4, <3>1, <3>2
  <2> QED BY <2>1, <2>2
<1> QED BY <1>4, <1>5, <1>6

\* Numbers are given out upwards, at most three a word.
LEMMA NumbersGrow ==
  ASSUME NEW ws, NEW code, NEW F, NEW H, Laid(ws, code, F, H), Len(ws) \in Nat,
         NEW n \in 0 .. Len(ws), NEW m \in 0 .. n
  PROVE  H[m].next \in Nat /\ H[m].next <= H[n].next /\ H[n].next <= 3 * n
<1>1. PICK l \in Nat : l = Len(ws)
  OBVIOUS
<1>2. \A k \in 0 .. l : H[k].next \in Nat
  <2> TAKE k \in 0 .. l
  <2>1. H[k] \in Branches
    BY <1>1 DEF Laid
  <2> QED BY <2>1 DEF Branches
<1> DEFINE Good(k) == H[k].next <= 3 * k /\ (m <= k => H[m].next <= H[k].next)
           T == {k \in 0 .. l : ~Good(k)}
<1>3. ASSUME T # {} PROVE FALSE
  <2>1. PICK k \in T : \A j \in T : k <= j
    <3>1. T \in SUBSET Nat
      OBVIOUS
    <3> HIDE DEF T
    <3> QED BY <1>3, <3>1, SomeLeast
  <2>2. k \in 0 .. l /\ ~Good(k)
    BY <2>1
  <2>3. k # 0
    <3>1. H[0].next = 0
      BY DEF Laid, NoBranches
    <3>2. ASSUME k = 0 PROVE Good(k)
      <4>1. m \in 0 .. n /\ (m <= 0 => m = 0)
        OBVIOUS
      <4> QED BY <3>1, <3>2, <4>1
    <3> QED BY <2>2, <3>2
  <2>4. k \in 1 .. l /\ k - 1 \in 0 .. l /\ ~(k <= k - 1)
    BY <2>2, <2>3
  <2>5. k - 1 \notin T
    BY <2>1, <2>4
  <2>6. Good(k - 1)
    BY <2>4, <2>5
  <2>7. H[k].next = H[k - 1].next + Needs(ws[k].w) /\ Needs(ws[k].w) \in 0 .. 3
    BY <1>1, <2>4, NumbersNext
  <2>8. PICK a \in Nat, b \in Nat, d \in 0 .. 3 : a = H[k - 1].next /\ b = H[k].next /\ d = Needs(ws[k].w)
    BY <1>2, <2>4, <2>7
  <2>9. PICK c \in Nat : c = H[m].next
    BY <1>1, <1>2
  <2>10. b = a + d /\ a <= 3 * (k - 1) /\ (m <= k - 1 => c <= a)
    BY <2>6, <2>7, <2>8, <2>9
  <2>11. b <= 3 * k
    BY <2>4, <2>10
  <2>12. m <= k => c <= b
    <3>1. m <= k => m = k \/ m <= k - 1
      BY <2>4
    <3>2. m = k => c = b
      BY <2>8, <2>9
    <3> QED BY <2>10, <3>1, <3>2
  <2>13. Good(k)
    BY <2>8, <2>9, <2>11, <2>12
  <2> QED BY <2>2, <2>13
<1>4. Good(n)
  BY <1>1, <1>3
<1>5. m \in 0 .. l
  BY <1>1
<1> QED BY <1>2, <1>4, <1>5

\* The numbers of two words' labels differ.
LEMMA NumbersApart ==
  ASSUME NEW ws, NEW code, NEW F, NEW H, Laid(ws, code, F, H), Len(ws) \in Nat,
         NEW a \in 1 .. Len(ws), NEW b \in 1 .. Len(ws), NEW o \in Nat, NEW p \in Nat,
         o < Needs(ws[a].w), p < Needs(ws[b].w), H[a - 1].next + o = H[b - 1].next + p
  PROVE  a = b /\ o = p
<1>1. ASSUME NEW c \in 1 .. Len(ws), NEW d \in 1 .. Len(ws), c < d
      PROVE  H[c - 1].next + Needs(ws[c].w) <= H[d - 1].next
  <2>1. H[c].next = H[c - 1].next + Needs(ws[c].w)
    BY NumbersNext
  <2>2. d - 1 \in 0 .. Len(ws) /\ c \in 0 .. d - 1
    BY <1>1
  <2>3. H[c].next <= H[d - 1].next
    BY <2>2, NumbersGrow
  <2> QED BY <2>1, <2>3
<1>2. /\ H[a - 1].next \in Nat /\ H[b - 1].next \in Nat
      /\ Needs(ws[a].w) \in 0 .. 3 /\ Needs(ws[b].w) \in 0 .. 3
  BY NumbersNext
<1>3. PICK x \in Nat, y \in Nat, u \in 0 .. 3, v \in 0 .. 3 :
        x = H[a - 1].next /\ y = H[b - 1].next /\ u = Needs(ws[a].w) /\ v = Needs(ws[b].w)
  BY <1>2
<1>4. (a < b => x + u <= y) /\ (b < a => y + v <= x)
  BY <1>1, <1>3
<1>5. x + o = y + p /\ o < u /\ p < v
  BY <1>3
<1>6. ~(a < b) /\ ~(b < a)
  BY <1>4, <1>5
<1>7. a = b
  BY <1>6
<1> QED BY <1>3, <1>5, <1>7

\* Every item is one of a word.
LEMMA ItemOwner ==
  ASSUME NEW ws, NEW code, NEW F, NEW H, Laid(ws, code, F, H), Len(ws) \in Nat, IsCode(code),
         NEW m \in DOMAIN code
  PROVE  \E n \in 1 .. Len(ws) : F[n] <= m /\ m < F[n + 1]
<1>1. PICK l \in Nat : l = Len(ws)
  OBVIOUS
<1>2. m \in 1 .. Len(code) /\ Len(code) \in Nat
  BY AddressIs
<1>3. /\ \A k \in 1 .. l + 1 : F[k] \in Nat
      /\ F[1] = 1 /\ F[l + 1] = Len(code) + 1
  BY <1>1 DEF Laid
<1> DEFINE T == {k \in 1 .. l + 1 : F[k] <= m}
<1>4. 1 \in T /\ T \in SUBSET (1 .. l + 1)
  BY <1>2, <1>3
<1>5. PICK n \in T : \A k \in T : n >= k
  <2>1. PICK h \in Nat : h = l + 1
    OBVIOUS
  <2>2. T \in SUBSET (1 .. h) /\ T # {}
    BY <1>4, <2>1
  <2> HIDE DEF T
  <2> QED BY <2>2, SomeGreatest
<1>6. n \in 1 .. l + 1 /\ F[n] <= m
  BY <1>5
<1>7. n # l + 1
  BY <1>2, <1>3, <1>6
<1>8. n + 1 \in 1 .. l + 1 /\ n + 1 \notin T
  BY <1>5, <1>6, <1>7
<1>9. m < F[n + 1]
  BY <1>2, <1>3, <1>8
<1> QED BY <1>1, <1>6, <1>7, <1>9

\* The items a word gives, one by one.
Holds(code, f, g, items) ==
  /\ Len(items) \in Nat /\ g = f + Len(items)
  /\ \A j \in 1 .. Len(items) : code[f + j - 1] = items[j]

Runs1(code, f, g, a) ==
  g = f + 1 /\ code[f] = a
Runs2(code, f, g, a, b) ==
  g = f + 2 /\ code[f] = a /\ code[f + 1] = b
Runs3(code, f, g, a, b, c) ==
  g = f + 3 /\ code[f] = a /\ code[f + 1] = b /\ code[f + 2] = c
Runs4(code, f, g, a, b, c, d) ==
  g = f + 4 /\ code[f] = a /\ code[f + 1] = b /\ code[f + 2] = c /\ code[f + 3] = d

\* A run of no items,
LEMMA HoldsNone ==
  ASSUME NEW code, NEW f \in Nat, NEW g, Holds(code, f, g, <<>>)
  PROVE  g = f
BY DEF Holds

\* of one,
LEMMA Holds1 ==
  ASSUME NEW code, NEW f \in Nat, NEW g, NEW a,
         Holds(code, f, g, <<a>>)
  PROVE  Runs1(code, f, g, a)
<1>1. PICK s : s = <<a>>
  OBVIOUS
<1>2. Len(s) = 1 /\ s[1] = a
  BY <1>1
<1>3. g = f + 1 /\ \A j \in 1 .. 1 : code[f + j - 1] = s[j]
  BY <1>1, <1>2 DEF Holds
<1>4. f + 1 - 1 = f
  OBVIOUS
<1> QED BY <1>2, <1>3, <1>4 DEF Runs1

\* of two,
LEMMA Holds2 ==
  ASSUME NEW code, NEW f \in Nat, NEW g, NEW a, NEW b,
         Holds(code, f, g, <<a, b>>)
  PROVE  Runs2(code, f, g, a, b)
<1>1. PICK s : s = <<a, b>>
  OBVIOUS
<1>2. Len(s) = 2 /\ s[1] = a /\ s[2] = b
  BY <1>1
<1>3. g = f + 2 /\ \A j \in 1 .. 2 : code[f + j - 1] = s[j]
  BY <1>1, <1>2 DEF Holds
<1>4. f + 1 - 1 = f /\ f + 2 - 1 = f + 1
  OBVIOUS
<1> QED BY <1>2, <1>3, <1>4 DEF Runs2

\* of three,
LEMMA Holds3 ==
  ASSUME NEW code, NEW f \in Nat, NEW g, NEW a, NEW b, NEW c,
         Holds(code, f, g, <<a, b, c>>)
  PROVE  Runs3(code, f, g, a, b, c)
<1>1. PICK s : s = <<a, b, c>>
  OBVIOUS
<1>2. Len(s) = 3 /\ s[1] = a /\ s[2] = b /\ s[3] = c
  BY <1>1
<1>3. g = f + 3 /\ \A j \in 1 .. 3 : code[f + j - 1] = s[j]
  BY <1>1, <1>2 DEF Holds
<1>4. f + 1 - 1 = f /\ f + 2 - 1 = f + 1 /\ f + 3 - 1 = f + 2
  OBVIOUS
<1> QED BY <1>2, <1>3, <1>4 DEF Runs3

\* and of four.
LEMMA Holds4 ==
  ASSUME NEW code, NEW f \in Nat, NEW g, NEW a, NEW b, NEW c, NEW d,
         Holds(code, f, g, <<a, b, c, d>>)
  PROVE  Runs4(code, f, g, a, b, c, d)
<1>1. PICK s : s = <<a, b, c, d>>
  OBVIOUS
<1>2. Len(s) = 4 /\ s[1] = a /\ s[2] = b /\ s[3] = c /\ s[4] = d
  BY <1>1
<1>3. g = f + 4 /\ \A j \in 1 .. 4 : code[f + j - 1] = s[j]
  BY <1>1, <1>2 DEF Holds
<1>4. f + 1 - 1 = f /\ f + 2 - 1 = f + 1 /\ f + 3 - 1 = f + 2 /\ f + 4 - 1 = f + 3
  OBVIOUS
<1> QED BY <1>2, <1>3, <1>4 DEF Runs4

\* What the code of a word is, word by word; b are the labels before it, c
\* those after it.
LEMMA JumpItems ==
  ASSUME NEW ws, NEW code, NEW F, NEW H, Laid(ws, code, F, H), Len(ws) \in Nat, NEW n \in 1 .. Len(ws)
  PROVE  LET f == F[n]
             g == F[n + 1]
             b == H[n - 1] IN
         /\ f \in Nat \ {0} /\ g \in Nat \ {0}
         /\ ws[n].w = "LABEL" => Runs1(code, f, g, Do(n, "label", <<UserLabel(ws[n].ls[1])>>))
         /\ ws[n].w = "S" => Runs2(code, f, g, Stmt(n), Do(n, "S", <<>>))
         /\ ws[n].w = "EOS" => Runs1(code, f, g, Stmt(n))
         /\ ws[n].w = "RETURN" => Runs2(code, f, g, Stmt(n), Do(n, "return", <<>>))
         /\ ws[n].w = "GOTO" => Runs2(code, f, g, Stmt(n), Do(n, "goto", LabelsOf(ws[n])))
         /\ ws[n].w = "ONERR" => Runs2(code, f, g, Stmt(n), Do(n, "onerr", LabelsOf(ws[n])))
         /\ ws[n].w = "VECTOR" =>
              Runs3(code, f, g, Stmt(n), Cond(n), Do(n, "vector", LabelsOf(ws[n])))
         /\ ws[n].w = "BREAK" => Runs2(code, f, g, Stmt(n), Go(n, "goto", b.EBreak))
         /\ ws[n].w = "CONTINUE" => Runs2(code, f, g, Stmt(n), Go(n, "goto", b.EContinue))
         /\ ws[n].w = "ENDP" /\ AfterReturn(ws, n) => g = f
         /\ ws[n].w = "ENDP" /\ ~AfterReturn(ws, n) => Runs1(code, f, g, Do(n, "return", <<>>))
<1>1. PICK f : f = F[n]
  OBVIOUS
<1>2. PICK g : g = F[n + 1]
  OBVIOUS
<1>3. PICK b : b = H[n - 1]
  OBVIOUS
<1>4. f \in Nat \ {0} /\ g \in Nat \ {0}
  <2>1. n \in 1 .. Len(ws) + 1 /\ n + 1 \in 1 .. Len(ws) + 1
    OBVIOUS
  <2>2. F \in [1 .. Len(ws) + 1 -> Nat \ {0}]
    BY DEF Laid
  <2> QED BY <1>1, <1>2, <2>1, <2>2
<1>5. Gives(ws, code, F, H, n)
  BY DEF Laid
<1>6. Holds(code, f, g, CodeOf(ws, n, b, H[n]))
  BY <1>1, <1>2, <1>3, <1>5, Zenon DEF Gives, Holds
<1>7. ASSUME ws[n].w \notin Structured PROVE Holds(code, f, g, JumpCode(ws, n, b))
  BY <1>6, <1>7, Zenon DEF CodeOf
<1>8. PICK w : w = ws[n].w
  OBVIOUS
<1>9. w \in {"LABEL", "S", "EOS", "RETURN", "GOTO", "ONERR", "VECTOR", "BREAK", "CONTINUE", "ENDP"}
        => Holds(code, f, g, JumpCode(ws, n, b))
  BY <1>7, <1>8 DEF Structured, Openers, Closers
<1>10. w = "LABEL" => Runs1(code, f, g, Do(n, "label", <<UserLabel(ws[n].ls[1])>>))
  <2> SUFFICES ASSUME w = "LABEL" PROVE Runs1(code, f, g, Do(n, "label", <<UserLabel(ws[n].ls[1])>>))
    OBVIOUS
  <2>1. JumpCode(ws, n, b) = <<Do(n, "label", <<UserLabel(ws[n].ls[1])>>)>>
    BY <1>8 DEF JumpCode
  <2>2. Holds(code, f, g, <<Do(n, "label", <<UserLabel(ws[n].ls[1])>>)>>)
    BY <1>9, <2>1
  <2> QED BY <1>4, <2>2, Holds1
<1>11. w = "S" => Runs2(code, f, g, Stmt(n), Do(n, "S", <<>>))
  <2> SUFFICES ASSUME w = "S" PROVE Runs2(code, f, g, Stmt(n), Do(n, "S", <<>>))
    OBVIOUS
  <2>1. JumpCode(ws, n, b) = <<Stmt(n), Do(n, "S", <<>>)>>
    BY <1>8 DEF JumpCode
  <2>2. Holds(code, f, g, <<Stmt(n), Do(n, "S", <<>>)>>)
    BY <1>9, <2>1
  <2> QED BY <1>4, <2>2, Holds2
<1>12. w = "EOS" => Runs1(code, f, g, Stmt(n))
  <2> SUFFICES ASSUME w = "EOS" PROVE Runs1(code, f, g, Stmt(n))
    OBVIOUS
  <2>1. JumpCode(ws, n, b) = <<Stmt(n)>>
    BY <1>8 DEF JumpCode
  <2>2. Holds(code, f, g, <<Stmt(n)>>)
    BY <1>9, <2>1
  <2> QED BY <1>4, <2>2, Holds1
<1>13. w = "RETURN" => Runs2(code, f, g, Stmt(n), Do(n, "return", <<>>))
  <2> SUFFICES ASSUME w = "RETURN" PROVE Runs2(code, f, g, Stmt(n), Do(n, "return", <<>>))
    OBVIOUS
  <2>1. JumpCode(ws, n, b) = <<Stmt(n), Do(n, "return", <<>>)>>
    BY <1>8 DEF JumpCode
  <2>2. Holds(code, f, g, <<Stmt(n), Do(n, "return", <<>>)>>)
    BY <1>9, <2>1
  <2> QED BY <1>4, <2>2, Holds2
<1>14. w = "GOTO" => Runs2(code, f, g, Stmt(n), Do(n, "goto", LabelsOf(ws[n])))
  <2> SUFFICES ASSUME w = "GOTO" PROVE Runs2(code, f, g, Stmt(n), Do(n, "goto", LabelsOf(ws[n])))
    OBVIOUS
  <2>1. JumpCode(ws, n, b) = <<Stmt(n), Do(n, "goto", LabelsOf(ws[n]))>>
    BY <1>8 DEF JumpCode
  <2>2. Holds(code, f, g, <<Stmt(n), Do(n, "goto", LabelsOf(ws[n]))>>)
    BY <1>9, <2>1
  <2> QED BY <1>4, <2>2, Holds2
<1>15. w = "ONERR" => Runs2(code, f, g, Stmt(n), Do(n, "onerr", LabelsOf(ws[n])))
  <2> SUFFICES ASSUME w = "ONERR" PROVE Runs2(code, f, g, Stmt(n), Do(n, "onerr", LabelsOf(ws[n])))
    OBVIOUS
  <2>1. JumpCode(ws, n, b) = <<Stmt(n), Do(n, "onerr", LabelsOf(ws[n]))>>
    BY <1>8 DEF JumpCode
  <2>2. Holds(code, f, g, <<Stmt(n), Do(n, "onerr", LabelsOf(ws[n]))>>)
    BY <1>9, <2>1
  <2> QED BY <1>4, <2>2, Holds2
<1>16. w = "VECTOR" => Runs3(code, f, g, Stmt(n), Cond(n), Do(n, "vector", LabelsOf(ws[n])))
  <2> SUFFICES ASSUME w = "VECTOR"
               PROVE  Runs3(code, f, g, Stmt(n), Cond(n), Do(n, "vector", LabelsOf(ws[n])))
    OBVIOUS
  <2>1. JumpCode(ws, n, b) = <<Stmt(n), Cond(n), Do(n, "vector", LabelsOf(ws[n]))>>
    BY <1>8 DEF JumpCode
  <2>2. Holds(code, f, g, <<Stmt(n), Cond(n), Do(n, "vector", LabelsOf(ws[n]))>>)
    BY <1>9, <2>1
  <2> QED BY <1>4, <2>2, Holds3
<1>17. w = "BREAK" => Runs2(code, f, g, Stmt(n), Go(n, "goto", b.EBreak))
  <2> SUFFICES ASSUME w = "BREAK" PROVE Runs2(code, f, g, Stmt(n), Go(n, "goto", b.EBreak))
    OBVIOUS
  <2>1. JumpCode(ws, n, b) = <<Stmt(n), Go(n, "goto", b.EBreak)>>
    BY <1>8 DEF JumpCode
  <2>2. Holds(code, f, g, <<Stmt(n), Go(n, "goto", b.EBreak)>>)
    BY <1>9, <2>1
  <2> QED BY <1>4, <2>2, Holds2
<1>18. w = "CONTINUE" => Runs2(code, f, g, Stmt(n), Go(n, "goto", b.EContinue))
  <2> SUFFICES ASSUME w = "CONTINUE" PROVE Runs2(code, f, g, Stmt(n), Go(n, "goto", b.EContinue))
    OBVIOUS
  <2>1. JumpCode(ws, n, b) = <<Stmt(n), Go(n, "goto", b.EContinue)>>
    BY <1>8 DEF JumpCode
  <2>2. Holds(code, f, g, <<Stmt(n), Go(n, "goto", b.EContinue)>>)
    BY <1>9, <2>1
  <2> QED BY <1>4, <2>2, Holds2
<1>19. w = "ENDP" => Holds(code, f, g, IF AfterReturn(ws, n) THEN <<>> ELSE <<Do(n, "return", <<>>)>>)
  <2> SUFFICES ASSUME w = "ENDP"
               PROVE  Holds(code, f, g, IF AfterReturn(ws, n) THEN <<>> ELSE <<Do(n, "return", <<>>)>>)
    OBVIOUS
  <2>1. JumpCode(ws, n, b) = IF AfterReturn(ws, n) THEN <<>> ELSE <<Do(n, "return", <<>>)>>
    BY <1>8 DEF JumpCode
  <2> QED BY <1>9, <2>1
<1>20. w = "ENDP" /\ AfterReturn(ws, n) => g = f
  BY <1>4, <1>19, HoldsNone
<1>21. w = "ENDP" /\ ~AfterReturn(ws, n) => Runs1(code, f, g, Do(n, "return", <<>>))
  BY <1>4, <1>19, Holds1
<1> QED
  <2>1. (w = ws[n].w /\ f = F[n] /\ g = F[n + 1] /\ b = H[n - 1])
    BY <1>1, <1>2, <1>3, <1>8
  <2> QED BY <1>4, <1>10, <1>11, <1>12, <1>13, <1>14, <1>15, <1>16, <1>17, <1>18, <1>20, <1>21, <2>1

\* The items of each word of a structure.
LEMMA StructureItems ==
  ASSUME NEW ws, NEW code, NEW F, NEW H, Laid(ws, code, F, H), Len(ws) \in Nat, NEW n \in 1 .. Len(ws)
  PROVE  LET f == F[n]
             g == F[n + 1]
             b == H[n - 1]
             c == H[n] IN
         /\ f \in Nat \ {0} /\ g \in Nat \ {0}
         /\ ws[n].w = "IF" =>
              Runs3(code, f, g, Stmt(n), Cond(n), Go(n, "brfalse", c.EFalse))
         /\ ws[n].w = "DO" =>
              Runs2(code, f, g, Stmt(n), Set(n, c.EFalse))
         /\ ws[n].w = "WHILE" =>
              Runs4(code, f, g, Stmt(n), Set(n, c.EContinue), Cond(n), Go(n, "brfalse", c.EFalse))
         /\ ws[n].w = "ELSEIF" =>
              Runs4(code, f, g, Go(n, "goto", b.EExit), Set(n, b.EFalse), Cond(n), Go(n, "brfalse", c.EFalse))
         /\ ws[n].w = "ELSE" =>
              Runs2(code, f, g, Go(n, "goto", b.EExit), Set(n, b.EFalse))
         /\ ws[n].w = "UNTIL" =>
              Runs4(code, f, g, Set(n, b.EContinue), Cond(n), Go(n, "brfalse", b.EFalse), Set(n, b.EBreak))
         /\ ws[n].w = "ENDWH" =>
              Runs3(code, f, g, Go(n, "goto", b.EContinue), Set(n, b.EBreak), Set(n, b.EFalse))
         /\ ws[n].w = "ENDIF" /\ AfterElse(ws, n) => Runs1(code, f, g, Set(n, b.EExit))
         /\ ws[n].w = "ENDIF" /\ ~AfterElse(ws, n) =>
              Runs2(code, f, g, Set(n, b.EFalse), Set(n, b.EExit))
<1>1. PICK f : f = F[n]
  OBVIOUS
<1>2. PICK g : g = F[n + 1]
  OBVIOUS
<1>3. PICK b : b = H[n - 1]
  OBVIOUS
<1>4. PICK c : c = H[n]
  OBVIOUS
<1>5. f \in Nat \ {0} /\ g \in Nat \ {0}
  BY <1>1, <1>2, JumpItems
<1>6. Gives(ws, code, F, H, n)
  BY DEF Laid
<1>7. Holds(code, f, g, CodeOf(ws, n, b, c))
  BY <1>1, <1>2, <1>3, <1>4, <1>6, Zenon DEF Gives, Holds
<1>8. ASSUME ws[n].w \in Structured PROVE Holds(code, f, g, StructureCode(ws, n, b, c))
  BY <1>7, <1>8, Zenon DEF CodeOf
<1>9. PICK w : w = ws[n].w
  OBVIOUS
<1>10. w \in Structured => Holds(code, f, g, StructureCode(ws, n, b, c))
  BY <1>8, <1>9
<1>11. w = "IF" => Runs3(code, f, g, Stmt(n), Cond(n), Go(n, "brfalse", c.EFalse))
  <2> SUFFICES ASSUME w = "IF" PROVE Runs3(code, f, g, Stmt(n), Cond(n), Go(n, "brfalse", c.EFalse))
    OBVIOUS
  <2>1. StructureCode(ws, n, b, c) = <<Stmt(n), Cond(n), Go(n, "brfalse", c.EFalse)>> /\ w \in Structured
    BY <1>9 DEF StructureCode, Structured, Openers, Closers
  <2>2. Holds(code, f, g, <<Stmt(n), Cond(n), Go(n, "brfalse", c.EFalse)>>)
    BY <1>10, <2>1
  <2> QED BY <1>5, <2>2, Holds3
<1>12. w = "DO" => Runs2(code, f, g, Stmt(n), Set(n, c.EFalse))
  <2> SUFFICES ASSUME w = "DO" PROVE Runs2(code, f, g, Stmt(n), Set(n, c.EFalse))
    OBVIOUS
  <2>1. StructureCode(ws, n, b, c) = <<Stmt(n), Set(n, c.EFalse)>> /\ w \in Structured
    BY <1>9 DEF StructureCode, Structured, Openers, Closers
  <2>2. Holds(code, f, g, <<Stmt(n), Set(n, c.EFalse)>>)
    BY <1>10, <2>1
  <2> QED BY <1>5, <2>2, Holds2
<1>13. w = "WHILE" => Runs4(code, f, g, Stmt(n), Set(n, c.EContinue), Cond(n), Go(n, "brfalse", c.EFalse))
  <2> SUFFICES ASSUME w = "WHILE"
               PROVE  Runs4(code, f, g, Stmt(n), Set(n, c.EContinue), Cond(n), Go(n, "brfalse", c.EFalse))
    OBVIOUS
  <2>1. /\ StructureCode(ws, n, b, c) = <<Stmt(n), Set(n, c.EContinue), Cond(n), Go(n, "brfalse", c.EFalse)>>
        /\ w \in Structured
    BY <1>9 DEF StructureCode, Structured, Openers, Closers
  <2>2. Holds(code, f, g, <<Stmt(n), Set(n, c.EContinue), Cond(n), Go(n, "brfalse", c.EFalse)>>)
    BY <1>10, <2>1
  <2> QED BY <1>5, <2>2, Holds4
<1>14. w = "ELSEIF" =>
         Runs4(code, f, g, Go(n, "goto", b.EExit), Set(n, b.EFalse), Cond(n), Go(n, "brfalse", c.EFalse))
  <2> SUFFICES ASSUME w = "ELSEIF"
               PROVE  Runs4(code, f, g, Go(n, "goto", b.EExit), Set(n, b.EFalse), Cond(n), Go(n, "brfalse", c.EFalse))
    OBVIOUS
  <2>1. /\ StructureCode(ws, n, b, c) = <<Go(n, "goto", b.EExit), Set(n, b.EFalse), Cond(n), Go(n, "brfalse", c.EFalse)>>
        /\ w \in Structured
    BY <1>9 DEF StructureCode, Structured, Openers, Closers
  <2>2. Holds(code, f, g, <<Go(n, "goto", b.EExit), Set(n, b.EFalse), Cond(n), Go(n, "brfalse", c.EFalse)>>)
    BY <1>10, <2>1
  <2> QED BY <1>5, <2>2, Holds4
<1>15. w = "ELSE" => Runs2(code, f, g, Go(n, "goto", b.EExit), Set(n, b.EFalse))
  <2> SUFFICES ASSUME w = "ELSE" PROVE Runs2(code, f, g, Go(n, "goto", b.EExit), Set(n, b.EFalse))
    OBVIOUS
  <2>1. StructureCode(ws, n, b, c) = <<Go(n, "goto", b.EExit), Set(n, b.EFalse)>> /\ w \in Structured
    BY <1>9 DEF StructureCode, Structured, Openers, Closers
  <2>2. Holds(code, f, g, <<Go(n, "goto", b.EExit), Set(n, b.EFalse)>>)
    BY <1>10, <2>1
  <2> QED BY <1>5, <2>2, Holds2
<1>16. w = "UNTIL" =>
         Runs4(code, f, g, Set(n, b.EContinue), Cond(n), Go(n, "brfalse", b.EFalse), Set(n, b.EBreak))
  <2> SUFFICES ASSUME w = "UNTIL"
               PROVE  Runs4(code, f, g, Set(n, b.EContinue), Cond(n), Go(n, "brfalse", b.EFalse), Set(n, b.EBreak))
    OBVIOUS
  <2>1. /\ StructureCode(ws, n, b, c) = <<Set(n, b.EContinue), Cond(n), Go(n, "brfalse", b.EFalse), Set(n, b.EBreak)>>
        /\ w \in Structured
    BY <1>9 DEF StructureCode, Structured, Openers, Closers
  <2>2. Holds(code, f, g, <<Set(n, b.EContinue), Cond(n), Go(n, "brfalse", b.EFalse), Set(n, b.EBreak)>>)
    BY <1>10, <2>1
  <2> QED BY <1>5, <2>2, Holds4
<1>17. w = "ENDWH" => Runs3(code, f, g, Go(n, "goto", b.EContinue), Set(n, b.EBreak), Set(n, b.EFalse))
  <2> SUFFICES ASSUME w = "ENDWH"
               PROVE  Runs3(code, f, g, Go(n, "goto", b.EContinue), Set(n, b.EBreak), Set(n, b.EFalse))
    OBVIOUS
  <2>1. /\ StructureCode(ws, n, b, c) = <<Go(n, "goto", b.EContinue), Set(n, b.EBreak), Set(n, b.EFalse)>>
        /\ w \in Structured
    BY <1>9 DEF StructureCode, Structured, Openers, Closers
  <2>2. Holds(code, f, g, <<Go(n, "goto", b.EContinue), Set(n, b.EBreak), Set(n, b.EFalse)>>)
    BY <1>10, <2>1
  <2> QED BY <1>5, <2>2, Holds3
<1>18. w = "ENDIF" =>
       Holds(code, f, g, IF AfterElse(ws, n) THEN <<Set(n, b.EExit)>> ELSE <<Set(n, b.EFalse), Set(n, b.EExit)>>)
  <2> SUFFICES ASSUME w = "ENDIF"
               PROVE  Holds(code, f, g, IF AfterElse(ws, n) THEN <<Set(n, b.EExit)>>
                                        ELSE <<Set(n, b.EFalse), Set(n, b.EExit)>>)
    OBVIOUS
  <2>1. StructureCode(ws, n, b, c) = (IF AfterElse(ws, n) THEN <<Set(n, b.EExit)>>
                                      ELSE <<Set(n, b.EFalse), Set(n, b.EExit)>>) /\ w \in Structured
    BY <1>9 DEF StructureCode, Structured, Openers, Closers
  <2> QED BY <1>10, <2>1
<1>19. w = "ENDIF" /\ AfterElse(ws, n) => Runs1(code, f, g, Set(n, b.EExit))
  BY <1>5, <1>18, Holds1
<1>20. w = "ENDIF" /\ ~AfterElse(ws, n) => Runs2(code, f, g, Set(n, b.EFalse), Set(n, b.EExit))
  BY <1>5, <1>18, Holds2
<1> QED BY <1>1, <1>2, <1>3, <1>4, <1>5, <1>9, <1>11, <1>12, <1>13, <1>14, <1>15, <1>16, <1>17, <1>19, <1>20, Zenon

-----------------------------------------------------------------------------
(* Where each internal label is set.                                       *)
ClauseSite(ws, F, c) ==
  IF ws[ClauseIn(ws, c)].w = "ENDIF" THEN F[ClauseIn(ws, c)] ELSE F[ClauseIn(ws, c)] + 1

\* The item that sets label o of word a.
Site(ws, F, a, o) ==
  LET e == EndIn(ws, a) IN
  CASE ws[a].w = "IF" /\ o = 0 -> (IF AfterElse(ws, e) THEN F[e] ELSE F[e] + 1)
    [] ws[a].w = "IF" /\ o = 1 -> ClauseSite(ws, F, a)
    [] ws[a].w = "ELSEIF" /\ o = 0 -> ClauseSite(ws, F, a)
    [] ws[a].w = "DO" /\ o = 0 -> F[e]
    [] ws[a].w = "DO" /\ o = 1 -> F[e] + 3
    [] ws[a].w = "DO" /\ o = 2 -> F[a] + 1
    [] ws[a].w = "WHILE" /\ o = 0 -> F[a] + 1
    [] ws[a].w = "WHILE" /\ o = 1 -> F[e] + 1
    [] ws[a].w = "WHILE" /\ o = 2 -> F[e] + 2
IsSite(ws, F, H, m, x) ==
  \E a \in 1 .. Len(ws) : \E o \in 0 .. 2 :
    o < Needs(ws[a].w) /\ x = H[a - 1].next + o /\ m = Site(ws, F, a, o)

\* The labels a structure gets.
LEMMA OwnLabels ==
  ASSUME NEW ws, NEW code, NEW F, NEW H, Laid(ws, code, F, H), Len(ws) \in Nat, NEW n \in 1 .. Len(ws)
  PROVE  LET x == H[n - 1].next IN
         /\ x \in Nat
         /\ ws[n].w = "IF" => H[n].EExit = x + 0 /\ H[n].EFalse = x + 1
         /\ ws[n].w = "ELSEIF" => H[n].EFalse = x + 0
         /\ ws[n].w \in {"DO", "WHILE"} =>
              H[n].EContinue = x + 0 /\ H[n].EBreak = x + 1 /\ H[n].EFalse = x + 2
<1>1. PICK x : x = H[n - 1].next
  OBVIOUS
<1>2. x \in Nat
  BY <1>1, NumbersNext
<1>3. x + 0 = x
  BY <1>2
<1>4. Turn(ws[n].w, H[n - 1], H[n], H[StartIn(ws, n) - 1])
  BY DEF Laid
<1> QED BY <1>1, <1>2, <1>3, <1>4, Zenon DEF Turn

\* In a loop's body, its own labels are in force.
LEMMA LoopLast ==
  ASSUME NEW ws, Whole(ws), NEW n \in 1 .. Len(ws), InsideIn(ws, n) # {},
         ws[StartIn(ws, n)].w \in {"DO", "WHILE"}
  PROVE  LastBefore(ws, StartIn(ws, n), n)
<1>1. n \in Nat \ {0} /\ Len(ws) \in Nat
  BY DEF Whole
<1>2. PICK k : k = StartIn(ws, n)
  OBVIOUS
<1>3. k \in 1 .. n - 1
  BY <1>1, <1>2, StartIs
<1>4. ASSUME NEW d \in k + 1 .. n - 1, ws[d].w = "ELSEIF", StartIn(ws, d) = k PROVE FALSE
  <2>1. d \in 1 .. Len(ws)
    BY <1>1, <1>3
  <2>2. ws[k].w = "IF"
    BY <1>4, <2>1, StartOfClause DEF Opener
  <2> QED BY <1>2, <2>2
<1> QED BY <1>2, <1>3, <1>4 DEF LastBefore, ClauseOf

\* The labels set by DO and WHILE,
LEMMA OpenedSites ==
  ASSUME NEW ws, NEW code, NEW F, NEW H, Laid(ws, code, F, H), Len(ws) \in Nat, NEW n \in 1 .. Len(ws)
  PROVE  /\ ws[n].w = "DO" => IsSite(ws, F, H, F[n] + 1, H[n].EFalse)
         /\ ws[n].w = "WHILE" => IsSite(ws, F, H, F[n] + 1, H[n].EContinue)
<1>1. ASSUME ws[n].w = "DO" PROVE IsSite(ws, F, H, F[n] + 1, H[n].EFalse)
  <2>1. H[n].EFalse = H[n - 1].next + 2
    BY <1>1, OwnLabels
  <2>2. Site(ws, F, n, 2) = F[n] + 1
    BY <1>1 DEF Site
  <2>3. 2 \in 0 .. 2 /\ 2 < Needs(ws[n].w)
    BY <1>1 DEF Needs
  <2> QED BY <2>1, <2>2, <2>3 DEF IsSite
<1>2. ASSUME ws[n].w = "WHILE" PROVE IsSite(ws, F, H, F[n] + 1, H[n].EContinue)
  <2>1. H[n].EContinue = H[n - 1].next + 0
    BY <1>2, OwnLabels
  <2>2. Site(ws, F, n, 0) = F[n] + 1
    BY <1>2 DEF Site
  <2>3. 0 \in 0 .. 2 /\ 0 < Needs(ws[n].w)
    BY <1>2 DEF Needs
  <2> QED BY <2>1, <2>2, <2>3 DEF IsSite
<1> QED BY <1>1, <1>2

\* by the words that close,
LEMMA ClosedSites ==
  ASSUME NEW ws, Whole(ws), NEW code, NEW F, NEW H, Laid(ws, code, F, H), NEW n \in 1 .. Len(ws),
         ws[n].w \in Closers
  PROVE  LET b == H[n - 1] IN
         /\ ws[n].w = "ENDIF" => IsSite(ws, F, H, IF AfterElse(ws, n) THEN F[n] ELSE F[n] + 1, b.EExit)
         /\ ws[n].w = "UNTIL" => /\ IsSite(ws, F, H, F[n], b.EContinue)
                                 /\ IsSite(ws, F, H, F[n] + 3, b.EBreak)
         /\ ws[n].w = "ENDWH" => /\ IsSite(ws, F, H, F[n] + 1, b.EBreak)
                                 /\ IsSite(ws, F, H, F[n] + 2, b.EFalse)
<1>1. Len(ws) \in Nat /\ n \in Nat \ {0} /\ n \in 1 .. Len(ws) + 1
  BY DEF Whole
<1>2. PICK k : k = StartIn(ws, n)
  OBVIOUS
<1>3. k \in 1 .. n - 1 /\ ws[k].w = Opener(ws[n].w) /\ EndIn(ws, k) = n
  BY <1>2, StartEnd
<1>4. k \in 1 .. Len(ws) /\ InsideIn(ws, n) # {}
  BY <1>1, <1>3, StartOfClause
<1>5. InForce(ws, H, n)
  BY <1>1, AllInForce
<1>6. /\ H[n - 1].EBreak = H[k].EBreak /\ H[n - 1].EContinue = H[k].EContinue
      /\ H[n - 1].EExit = H[k].EExit
  BY <1>2, <1>4, <1>5, Zenon DEF InForce, SameExits
<1>7. PICK x : x = H[k - 1].next
  OBVIOUS
<1>8. /\ ws[k].w = "IF" => H[k].EExit = x + 0
      /\ ws[k].w \in {"DO", "WHILE"} =>
           H[k].EContinue = x + 0 /\ H[k].EBreak = x + 1 /\ H[k].EFalse = x + 2
  BY <1>1, <1>4, <1>7, OwnLabels
<1>9. ASSUME NEW o \in 0 .. 2, o < Needs(ws[k].w), NEW y, y = x + o, NEW m, m = Site(ws, F, k, o)
      PROVE  IsSite(ws, F, H, m, y)
  BY <1>4, <1>7, <1>9 DEF IsSite
<1>10. 0 \in 0 .. 2 /\ 1 \in 0 .. 2 /\ 2 \in 0 .. 2
  OBVIOUS
<1>11. ASSUME ws[n].w = "ENDIF"
       PROVE  IsSite(ws, F, H, IF AfterElse(ws, n) THEN F[n] ELSE F[n] + 1, H[n - 1].EExit)
  <2>1. ws[k].w = "IF"
    BY <1>3, <1>11 DEF Opener
  <2>2. Site(ws, F, k, 0) = (IF AfterElse(ws, n) THEN F[n] ELSE F[n] + 1) /\ 0 < Needs(ws[k].w)
    BY <1>3, <2>1 DEF Site, Needs
  <2> QED BY <1>6, <1>8, <1>9, <1>10, <2>1, <2>2
<1>12. ASSUME ws[n].w = "UNTIL"
       PROVE  /\ IsSite(ws, F, H, F[n], H[n - 1].EContinue)
              /\ IsSite(ws, F, H, F[n] + 3, H[n - 1].EBreak)
  <2>1. ws[k].w = "DO"
    BY <1>3, <1>12 DEF Opener
  <2>2. Site(ws, F, k, 0) = F[n] /\ Site(ws, F, k, 1) = F[n] + 3
    BY <1>3, <2>1 DEF Site
  <2>3. 0 < Needs(ws[k].w) /\ 1 < Needs(ws[k].w)
    BY <2>1 DEF Needs
  <2> QED BY <1>6, <1>8, <1>9, <1>10, <2>1, <2>2, <2>3
<1>13. ASSUME ws[n].w = "ENDWH"
       PROVE  /\ IsSite(ws, F, H, F[n] + 1, H[n - 1].EBreak)
              /\ IsSite(ws, F, H, F[n] + 2, H[n - 1].EFalse)
  <2>1. ws[k].w = "WHILE"
    BY <1>3, <1>13 DEF Opener
  <2>2. Site(ws, F, k, 1) = F[n] + 1 /\ Site(ws, F, k, 2) = F[n] + 2
    BY <1>3, <2>1 DEF Site
  <2>3. 1 < Needs(ws[k].w) /\ 2 < Needs(ws[k].w)
    BY <2>1 DEF Needs
  <2>4. LastBefore(ws, k, n)
    BY <1>2, <1>4, <2>1, LoopLast
  <2>5. H[n - 1].EFalse = H[k].EFalse
    BY <1>4, <1>5, <2>4, Zenon DEF InForce
  <2> QED BY <1>6, <1>8, <1>9, <1>10, <2>1, <2>2, <2>3, <2>5
<1> QED BY <1>11, <1>12, <1>13

\* and where a clause ends.
LEMMA ClauseSites ==
  ASSUME NEW ws, Whole(ws), NEW code, NEW F, NEW H, Laid(ws, code, F, H), NEW n \in 1 .. Len(ws),
         LeavesClause(ws, n)
  PROVE  IsSite(ws, F, H, IF ws[n].w = "ENDIF" THEN F[n] ELSE F[n] + 1, H[n - 1].EFalse)
<1>1. Len(ws) \in Nat /\ n \in Nat \ {0} /\ n \in 1 .. Len(ws) + 1
  BY DEF Whole
<1>2. PICK c \in 1 .. n - 1 :
        ws[c].w \in {"IF", "ELSEIF"} /\ LastBefore(ws, c, n) /\ ClauseIn(ws, c) = n
  BY LastClause
<1>3. c \in 1 .. Len(ws)
  BY <1>1
<1>4. InsideIn(ws, n) # {}
  BY <1>1, StartOfClause DEF LeavesClause, Closers
<1>5. H[n - 1].EFalse = H[c].EFalse
  BY <1>1, <1>2, <1>4, AllInForce DEF InForce
<1>6. ClauseSite(ws, F, c) = IF ws[n].w = "ENDIF" THEN F[n] ELSE F[n] + 1
  BY <1>2, Zenon DEF ClauseSite
<1>7. CASE ws[c].w = "IF"
  <2>1. H[c].EFalse = H[c - 1].next + 1
    BY <1>1, <1>3, <1>7, OwnLabels
  <2>2. Site(ws, F, c, 1) = ClauseSite(ws, F, c)
    BY <1>7 DEF Site
  <2>3. 1 \in 0 .. 2 /\ 1 < Needs(ws[c].w)
    BY <1>7 DEF Needs
  <2> QED BY <1>3, <1>5, <1>6, <2>1, <2>2, <2>3 DEF IsSite
<1>8. CASE ws[c].w = "ELSEIF"
  <2>1. H[c].EFalse = H[c - 1].next + 0
    BY <1>1, <1>3, <1>8, OwnLabels
  <2>2. Site(ws, F, c, 0) = ClauseSite(ws, F, c)
    BY <1>8 DEF Site
  <2>3. 0 \in 0 .. 2 /\ 0 < Needs(ws[c].w)
    BY <1>8 DEF Needs
  <2> QED BY <1>3, <1>5, <1>6, <2>1, <2>2, <2>3 DEF IsSite
<1> QED BY <1>2, <1>7, <1>8

-----------------------------------------------------------------------------
(* Every label of the code.                                                *)
UserSite(ws, F, m, to) ==
  \E n \in 1 .. Len(ws) : ws[n].w = "LABEL" /\ m = F[n] /\ to = <<UserLabel(ws[n].ls[1])>>
InternalSite(ws, F, H, m, to) ==
  \E x : IsSite(ws, F, H, m, x) /\ to = <<InternalLabel(x)>>
LabelSited(ws, F, H, code, m) ==
  code[m].op = "label" => UserSite(ws, F, m, code[m].to) \/ InternalSite(ws, F, H, m, code[m].to)

\* Every label of the code is set at the site of its number, or is the user's.
LEMMA LabelsSited ==
  ASSUME NEW ws, Whole(ws), NEW code, IsCode(code), NEW F, NEW H, Laid(ws, code, F, H),
         NEW m \in DOMAIN code
  PROVE  LabelSited(ws, F, H, code, m)
<1>1. Len(ws) \in Nat /\ ws \in Seq(Word)
  BY DEF Whole
<1>2. PICK n \in 1 .. Len(ws) : F[n] <= m /\ m < F[n + 1]
  BY <1>1, ItemOwner
<1>3. PICK f \in Nat \ {0}, g \in Nat \ {0} : f = F[n] /\ g = F[n + 1]
  BY <1>1, JumpItems
<1>4. PICK b : b = H[n - 1]
  OBVIOUS
<1>5. PICK c : c = H[n]
  OBVIOUS
<1>6. PICK w : w = ws[n].w
  OBVIOUS
<1>7. m \in Nat /\ f <= m /\ m < g
  <2>1. m \in 1 .. Len(code) /\ Len(code) \in Nat
    BY AddressIs
  <2> QED BY <1>2, <1>3, <2>1
<1>8. /\ \A op, to : Do(n, op, to).op = op /\ Do(n, op, to).to = to
      /\ Stmt(n).op = "stmt" /\ Cond(n).op = "cond"
      /\ \A op, x : Go(n, op, x).op = op
      /\ \A x : Set(n, x).to = <<InternalLabel(x)>>
  BY DEF Do, Stmt, Cond, Go, Set
<1>9. ASSUME NEW x, code[m] = Set(n, x), IsSite(ws, F, H, m, x)
      PROVE  LabelSited(ws, F, H, code, m)
  BY <1>8, <1>9 DEF LabelSited, InternalSite
<1>10. ASSUME code[m].op # "label" PROVE LabelSited(ws, F, H, code, m)
  BY <1>10 DEF LabelSited
<1>11. CASE w = "LABEL"
  <2>1. Runs1(code, f, g, Do(n, "label", <<UserLabel(ws[n].ls[1])>>))
    BY <1>1, <1>3, <1>6, <1>11, JumpItems
  <2>2. m = f /\ code[m].to = <<UserLabel(ws[n].ls[1])>>
    BY <1>7, <1>8, <2>1 DEF Runs1
  <2> QED BY <1>3, <1>6, <1>11, <2>2 DEF LabelSited, UserSite
<1>12. CASE w \in {"S", "EOS", "RETURN", "GOTO", "ONERR", "VECTOR", "BREAK", "CONTINUE", "ENDP"}
  <2>1. code[m].op # "label"
    <3>1. CASE w = "S"
      <4>1. Runs2(code, f, g, Stmt(n), Do(n, "S", <<>>))
        BY <1>1, <1>3, <1>6, <3>1, JumpItems
      <4> QED BY <1>7, <1>8, <4>1 DEF Runs2
    <3>2. CASE w = "EOS"
      <4>1. Runs1(code, f, g, Stmt(n))
        BY <1>1, <1>3, <1>6, <3>2, JumpItems
      <4> QED BY <1>7, <1>8, <4>1 DEF Runs1
    <3>3. CASE w \in {"RETURN", "GOTO", "ONERR"}
      <4>1. \E op, to : op # "label" /\ Runs2(code, f, g, Stmt(n), Do(n, op, to))
        BY <1>1, <1>3, <1>6, <3>3, JumpItems
      <4> QED BY <1>7, <1>8, <4>1 DEF Runs2
    <3>4. CASE w = "VECTOR"
      <4>1. Runs3(code, f, g, Stmt(n), Cond(n), Do(n, "vector", LabelsOf(ws[n])))
        BY <1>1, <1>3, <1>6, <3>4, JumpItems
      <4> QED BY <1>7, <1>8, <4>1 DEF Runs3
    <3>5. CASE w \in {"BREAK", "CONTINUE"}
      <4>1. \/ Runs2(code, f, g, Stmt(n), Go(n, "goto", b.EBreak))
            \/ Runs2(code, f, g, Stmt(n), Go(n, "goto", b.EContinue))
        BY <1>1, <1>3, <1>4, <1>6, <3>5, JumpItems
      <4> QED BY <1>7, <1>8, <4>1 DEF Runs2
    <3>6. CASE w = "ENDP"
      <4>1. g = f \/ Runs1(code, f, g, Do(n, "return", <<>>))
        BY <1>1, <1>3, <1>6, <3>6, JumpItems
      <4> QED BY <1>7, <1>8, <4>1 DEF Runs1
    <3> QED BY <1>12, <3>1, <3>2, <3>3, <3>4, <3>5, <3>6
  <2> QED BY <1>10, <2>1
<1>13. CASE w = "IF"
  <2>1. Runs3(code, f, g, Stmt(n), Cond(n), Go(n, "brfalse", c.EFalse))
    BY <1>1, <1>3, <1>5, <1>6, <1>13, StructureItems
  <2>2. code[m].op # "label"
    BY <1>7, <1>8, <2>1 DEF Runs3
  <2> QED BY <1>10, <2>2
<1>14. CASE w = "DO"
  <2>1. Runs2(code, f, g, Stmt(n), Set(n, c.EFalse)) /\ IsSite(ws, F, H, f + 1, c.EFalse)
    BY <1>1, <1>3, <1>5, <1>6, <1>14, StructureItems, OpenedSites
  <2>2. code[m].op # "label" \/ (m = f + 1 /\ code[m] = Set(n, c.EFalse))
    BY <1>7, <1>8, <2>1 DEF Runs2
  <2> QED BY <1>9, <1>10, <2>1, <2>2
<1>15. CASE w = "WHILE"
  <2>1. /\ Runs4(code, f, g, Stmt(n), Set(n, c.EContinue), Cond(n), Go(n, "brfalse", c.EFalse))
        /\ IsSite(ws, F, H, f + 1, c.EContinue)
    BY <1>1, <1>3, <1>5, <1>6, <1>15, StructureItems, OpenedSites
  <2>2. code[m].op # "label" \/ (m = f + 1 /\ code[m] = Set(n, c.EContinue))
    BY <1>7, <1>8, <2>1 DEF Runs4
  <2> QED BY <1>9, <1>10, <2>1, <2>2
<1>16. CASE w \in {"ELSEIF", "ELSE"}
  <2>1. IsSite(ws, F, H, f + 1, b.EFalse)
    BY <1>3, <1>4, <1>6, <1>16, ClauseSites DEF LeavesClause
  <2>2. code[m].op # "label" \/ (m = f + 1 /\ code[m] = Set(n, b.EFalse))
    <3>1. CASE w = "ELSEIF"
      <4>1. Runs4(code, f, g, Go(n, "goto", b.EExit), Set(n, b.EFalse), Cond(n), Go(n, "brfalse", c.EFalse))
        BY <1>1, <1>3, <1>4, <1>5, <1>6, <3>1, StructureItems
      <4> QED BY <1>7, <1>8, <4>1 DEF Runs4
    <3>2. CASE w = "ELSE"
      <4>1. Runs2(code, f, g, Go(n, "goto", b.EExit), Set(n, b.EFalse))
        BY <1>1, <1>3, <1>4, <1>6, <3>2, StructureItems
      <4> QED BY <1>7, <1>8, <4>1 DEF Runs2
    <3> QED BY <1>16, <3>1, <3>2
  <2> QED BY <1>9, <1>10, <2>1, <2>2
<1>17. CASE w = "ENDIF"
  <2>1. IsSite(ws, F, H, IF AfterElse(ws, n) THEN f ELSE f + 1, b.EExit)
    BY <1>3, <1>4, <1>6, <1>17, ClosedSites DEF Closers
  <2>2. CASE AfterElse(ws, n)
    <3>1. Runs1(code, f, g, Set(n, b.EExit))
      BY <1>1, <1>3, <1>4, <1>6, <1>17, <2>2, StructureItems
    <3>2. m = f /\ code[m] = Set(n, b.EExit)
      BY <1>7, <3>1 DEF Runs1
    <3> QED BY <1>9, <2>1, <2>2, <3>2
  <2>3. CASE ~AfterElse(ws, n)
    <3>1. Runs2(code, f, g, Set(n, b.EFalse), Set(n, b.EExit))
      BY <1>1, <1>3, <1>4, <1>6, <1>17, <2>3, StructureItems
    <3>2. IsSite(ws, F, H, f, b.EFalse)
      BY <1>3, <1>4, <1>6, <1>17, <2>3, ClauseSites DEF LeavesClause
    <3>3. \/ m = f /\ code[m] = Set(n, b.EFalse)
          \/ m = f + 1 /\ code[m] = Set(n, b.EExit)
      BY <1>7, <3>1 DEF Runs2
    <3> QED BY <1>9, <2>1, <2>3, <3>2, <3>3
  <2> QED BY <2>2, <2>3
<1>18. CASE w = "UNTIL"
  <2>1. Runs4(code, f, g, Set(n, b.EContinue), Cond(n), Go(n, "brfalse", b.EFalse), Set(n, b.EBreak))
    BY <1>1, <1>3, <1>4, <1>6, <1>18, StructureItems
  <2>2. IsSite(ws, F, H, f, b.EContinue) /\ IsSite(ws, F, H, f + 3, b.EBreak)
    BY <1>3, <1>4, <1>6, <1>18, ClosedSites DEF Closers
  <2>3. \/ code[m].op # "label"
        \/ m = f /\ code[m] = Set(n, b.EContinue)
        \/ m = f + 3 /\ code[m] = Set(n, b.EBreak)
    BY <1>7, <1>8, <2>1 DEF Runs4
  <2> QED BY <1>9, <1>10, <2>2, <2>3
<1>19. CASE w = "ENDWH"
  <2>1. Runs3(code, f, g, Go(n, "goto", b.EContinue), Set(n, b.EBreak), Set(n, b.EFalse))
    BY <1>1, <1>3, <1>4, <1>6, <1>19, StructureItems
  <2>2. IsSite(ws, F, H, f + 1, b.EBreak) /\ IsSite(ws, F, H, f + 2, b.EFalse)
    BY <1>3, <1>4, <1>6, <1>19, ClosedSites DEF Closers
  <2>3. \/ code[m].op # "label"
        \/ m = f + 1 /\ code[m] = Set(n, b.EBreak)
        \/ m = f + 2 /\ code[m] = Set(n, b.EFalse)
    BY <1>7, <1>8, <2>1 DEF Runs3
  <2> QED BY <1>9, <1>10, <2>2, <2>3
<1>20. w \in Plain \cup {"LABEL", "GOTO", "ONERR", "VECTOR"}
  <2>1. ws[n] \in Word
    BY <1>1
  <2> QED BY <1>6, <2>1 DEF Word
<1> QED BY <1>11, <1>12, <1>13, <1>14, <1>15, <1>16, <1>17, <1>18, <1>19, <1>20 DEF Plain

-----------------------------------------------------------------------------
(* Every label of the code is set by one item.                             *)
LEMMA SiteNumber ==
  ASSUME NEW ws, NEW code, NEW F, NEW H, Laid(ws, code, F, H), Len(ws) \in Nat, Len(ws) <= MaxWords,
         NEW m, NEW x, IsSite(ws, F, H, m, x)
  PROVE  x \in TUint
<1>1. PICK a \in 1 .. Len(ws), o \in 0 .. 2 : o < Needs(ws[a].w) /\ x = H[a - 1].next + o
  BY DEF IsSite
<1>2. /\ H[a].next = H[a - 1].next + Needs(ws[a].w)
      /\ H[a].next \in Nat /\ H[a - 1].next \in Nat /\ Needs(ws[a].w) \in 0 .. 3
  BY NumbersNext
<1>3. H[a].next <= 3 * a
  <2>1. a \in 0 .. Len(ws) /\ a \in 0 .. a
    OBVIOUS
  <2> QED BY <2>1, NumbersGrow
<1>4. PICK y \in Nat, z \in Nat, u \in 0 .. 3 : y = H[a - 1].next /\ z = H[a].next /\ u = Needs(ws[a].w)
  BY <1>2
<1>5. x = y + o /\ o < u /\ z = y + u /\ z <= 3 * a
  BY <1>1, <1>2, <1>3, <1>4
<1>6. x \in Nat /\ x < 3 * a /\ a <= Len(ws)
  BY <1>5
<1>7. x < 3 * 1073741824
  BY <1>6, SMT DEF MaxWords
<1> QED BY <1>6, <1>7, SMT DEF TUint

\* A number has one site.
LEMMA SitesOne ==
  ASSUME NEW ws, NEW code, NEW F, NEW H, Laid(ws, code, F, H), Len(ws) \in Nat,
         NEW m, NEW n, NEW x, IsSite(ws, F, H, m, x), IsSite(ws, F, H, n, x)
  PROVE  m = n
<1>1. PICK a \in 1 .. Len(ws), o \in 0 .. 2 :
        o < Needs(ws[a].w) /\ x = H[a - 1].next + o /\ m = Site(ws, F, a, o)
  BY DEF IsSite
<1>2. PICK b \in 1 .. Len(ws), p \in 0 .. 2 :
        p < Needs(ws[b].w) /\ x = H[b - 1].next + p /\ n = Site(ws, F, b, p)
  BY DEF IsSite
<1>3. a = b /\ o = p
  <2>1. o \in Nat /\ p \in Nat /\ H[a - 1].next + o = H[b - 1].next + p
    BY <1>1, <1>2
  <2> QED BY <1>1, <1>2, <2>1, NumbersApart
<1> QED BY <1>1, <1>2, <1>3

\* Two items with the internal label x.
LEMMA InternalOne ==
  ASSUME NEW ws, NEW code, NEW F, NEW H, Laid(ws, code, F, H), Len(ws) \in Nat, Len(ws) <= MaxWords,
         NEW m, NEW n, NEW x, NEW y, IsSite(ws, F, H, m, x), IsSite(ws, F, H, n, y),
         InternalLabel(x) = InternalLabel(y)
  PROVE  m = n
<1>1. x \in TUint /\ y \in TUint
  BY SiteNumber
<1>2. x = y
  BY <1>1, NamesDiffer
<1> QED BY <1>2, SitesOne

\* No label is set twice.
LEMMA LabelsOnce ==
  ASSUME NEW ws, NEW code, NEW F, NEW H, Procedure(ws, code, F, H)
  PROVE  OneEach(code)
<1>1. /\ Whole(ws) /\ NamedOnce(ws) /\ IsCode(code) /\ Laid(ws, code, F, H) /\ Len(ws) <= MaxWords
      /\ Len(ws) \in Nat /\ ws \in Seq(Word)
  BY DEF Procedure, Whole
<1>2. ASSUME NEW m \in DOMAIN code, NEW n \in DOMAIN code, code[m].op = "label", code[n].op = "label",
             code[m].to = code[n].to
      PROVE  m = n
  <2>1. PICK t : t = code[m].to
    OBVIOUS
  <2>2. /\ UserSite(ws, F, m, t) \/ InternalSite(ws, F, H, m, t)
        /\ UserSite(ws, F, n, t) \/ InternalSite(ws, F, H, n, t)
    BY <1>1, <1>2, <2>1, LabelsSited DEF LabelSited
  <2>3. ASSUME UserSite(ws, F, m, t), UserSite(ws, F, n, t) PROVE m = n
    <3>1. PICK i \in 1 .. Len(ws) : ws[i].w = "LABEL" /\ m = F[i] /\ t = <<UserLabel(ws[i].ls[1])>>
      BY <2>3 DEF UserSite
    <3>2. PICK j \in 1 .. Len(ws) : ws[j].w = "LABEL" /\ n = F[j] /\ t = <<UserLabel(ws[j].ls[1])>>
      BY <2>3 DEF UserSite
    <3>3. UserLabel(ws[i].ls[1]) = UserLabel(ws[j].ls[1])
      BY <3>1, <3>2
    <3>4. ws[i].ls[1] = ws[j].ls[1]
      BY <3>3, LabelKinds
    <3>5. ws[i] \in Word /\ ws[j] \in Word
      BY <1>1
    <3>6. ws[i].ls = <<ws[i].ls[1]>> /\ ws[j].ls = <<ws[j].ls[1]>>
      BY <3>1, <3>2, <3>5, LabelWords
    <3>7. ws[i].ls = ws[j].ls
      BY <3>4, <3>6
    <3>8. i = j
      BY <1>1, <3>1, <3>2, <3>7 DEF NamedOnce
    <3> QED BY <3>1, <3>2, <3>8
  <2>4. ~(UserSite(ws, F, m, t) /\ InternalSite(ws, F, H, n, t))
    BY LabelKinds DEF UserSite, InternalSite
  <2>5. ~(UserSite(ws, F, n, t) /\ InternalSite(ws, F, H, m, t))
    BY LabelKinds DEF UserSite, InternalSite
  <2>6. ASSUME InternalSite(ws, F, H, m, t), InternalSite(ws, F, H, n, t) PROVE m = n
    <3>1. PICK x : IsSite(ws, F, H, m, x) /\ t = <<InternalLabel(x)>>
      BY <2>6 DEF InternalSite
    <3>2. PICK y : IsSite(ws, F, H, n, y) /\ t = <<InternalLabel(y)>>
      BY <2>6 DEF InternalSite
    <3>3. InternalLabel(x) = InternalLabel(y)
      BY <3>1, <3>2
    <3> QED BY <1>1, <3>1, <3>2, <3>3, InternalOne
  <2> QED BY <2>2, <2>3, <2>4, <2>5, <2>6
<1> QED BY <1>2 DEF OneEach

\* An internal label that an item names is set where its site is.
LEMMA InternalSet ==
  ASSUME NEW ws, NEW code, NEW F, NEW H, Procedure(ws, code, F, H), NEW i \in DOMAIN code,
         NEW op, op # "label", NEW n, NEW x, code[i] = Go(n, op, x), NEW m, IsSite(ws, F, H, m, x)
  PROVE  m \in DOMAIN code /\ Defines(code[m], InternalLabel(x))
<1>1. /\ Whole(ws) /\ IsCode(code) /\ Laid(ws, code, F, H) /\ ~Missing(code) /\ Len(ws) <= MaxWords
      /\ Len(ws) \in Nat
  BY DEF Procedure, Whole
<1>2. Names(code[i], InternalLabel(x))
  BY DEF Go, Do, Names
<1>3. PICK j \in DOMAIN code : Defines(code[j], InternalLabel(x))
  <2>1. NamedIn(code, InternalLabel(x))
    BY <1>2 DEF NamedIn
  <2>2. DefinedIn(code, InternalLabel(x))
    BY <1>1, <2>1, MissingIs
  <2> QED BY <2>2 DEF DefinedIn
<1>4. code[j].op = "label" /\ code[j].to = <<InternalLabel(x)>>
  BY <1>3 DEF Defines
<1>5. UserSite(ws, F, j, code[j].to) \/ InternalSite(ws, F, H, j, code[j].to)
  BY <1>1, <1>4, LabelsSited DEF LabelSited
<1>6. ~UserSite(ws, F, j, code[j].to)
  BY <1>4, LabelKinds DEF UserSite
<1>7. PICK y : IsSite(ws, F, H, j, y) /\ code[j].to = <<InternalLabel(y)>>
  BY <1>5, <1>6 DEF InternalSite
<1>8. InternalLabel(x) = InternalLabel(y)
  BY <1>4, <1>7
<1>9. j = m
  BY <1>1, <1>7, <1>8, InternalOne
<1> QED BY <1>3, <1>9

\* A label of the source is set by its word.
LEMMA UserSet ==
  ASSUME NEW ws, NEW code, NEW F, NEW H, Procedure(ws, code, F, H), NEW n \in 1 .. Len(ws),
         ws[n].w = "LABEL"
  PROVE  F[n] \in DOMAIN code /\ Defines(code[F[n]], UserLabel(ws[n].ls[1]))
<1>1. /\ Whole(ws) /\ IsCode(code) /\ Laid(ws, code, F, H) /\ Len(ws) \in Nat
  BY DEF Procedure, Whole
<1>2. PICK f \in Nat \ {0}, g \in Nat \ {0} : f = F[n] /\ g = F[n + 1]
  BY <1>1, JumpItems
<1>3. Runs1(code, f, g, Do(n, "label", <<UserLabel(ws[n].ls[1])>>))
  BY <1>1, <1>2, JumpItems
<1>4. g <= Len(code) + 1
  <2>1. \A k \in 1 .. Len(ws) : F[k] <= Len(code) + 1
    BY <1>1 DEF Laid
  <2>2. F[Len(ws) + 1] = Len(code) + 1 /\ Len(code) \in Nat
    BY <1>1, AddressIs DEF Laid
  <2>3. n + 1 \in 1 .. Len(ws) \/ n + 1 = Len(ws) + 1
    BY <1>1
  <2> QED BY <1>2, <2>1, <2>2, <2>3
<1>5. DOMAIN code = 1 .. Len(code) /\ Len(code) \in Nat
  BY <1>1, AddressIs
<1> QED BY <1>2, <1>3, <1>4, <1>5 DEF Runs1, Do, Defines

-----------------------------------------------------------------------------
(* Running the code of a procedure whose distances fit.                    *)
Ready(F, H) ==
  /\ Procedure(words, iCode, F, H) /\ qcode = ConvertPcode(iCode) /\ Fitting(iCode)
  /\ ~LabelAfterReturn
Adr(m) == AddressOf(iCode, m)
Jumps(a) == InstructionAt(a).op \in {"stmt", "goto"}
Passes(a, b) == Jumps(a) /\ CodeStep(a) = b
Slides(a, b) == a = b \/ Passes(a, b)
Reaches(a, b) == Passes(a, b) \/ \E c : Passes(a, c) /\ Passes(c, b)

\* What is known of a procedure ready to run.
LEMMA ReadyTypes ==
  ASSUME NEW F, NEW H, Ready(F, H)
  PROVE  /\ Whole(words) /\ NamedOnce(words) /\ IsCode(iCode) /\ GoodCode(words, iCode)
         /\ Laid(words, iCode, F, H) /\ OneEach(iCode) /\ Fitting(iCode)
         /\ qcode = ConvertPcode(iCode) /\ Len(words) \in Nat \ {0} /\ words \in Seq(Word)
         /\ DOMAIN iCode = 1 .. Len(iCode) /\ Len(iCode) \in Nat
         /\ DOMAIN words = 1 .. Len(words) /\ words[Len(words)].w = "ENDP"
         /\ GoodQcode(words, qcode)
<1>1. /\ Whole(words) /\ NamedOnce(words) /\ IsCode(iCode) /\ GoodCode(words, iCode)
      /\ Laid(words, iCode, F, H) /\ Procedure(words, iCode, F, H) /\ ~Missing(iCode)
      /\ Fitting(iCode) /\ qcode = ConvertPcode(iCode)
  BY DEF Ready, Procedure
<1>2. OneEach(iCode)
  BY <1>1, LabelsOnce
<1>3. GoodQcode(words, qcode)
  BY <1>1, ConvertedGood
<1>4. DOMAIN iCode = 1 .. Len(iCode) /\ Len(iCode) \in Nat
  BY <1>1, AddressIs
<1>5. /\ Len(words) \in Nat \ {0}
      /\ words \in Seq(Word)
      /\ DOMAIN words = 1 .. Len(words)
      /\ words[Len(words)].w = "ENDP"
  BY <1>1 DEF Whole
<1> QED BY <1>1, <1>2, <1>3, <1>4, <1>5

\* The address after an item.
LEMMA AdrNext ==
  ASSUME NEW F, NEW H, Ready(F, H), NEW m \in DOMAIN iCode
  PROVE  /\ Adr(m) \in Nat /\ Adr(m + 1) \in Nat /\ Adr(m + 1) = Adr(m) + Size(iCode[m])
         /\ m \in Nat \ {0}
<1>1. IsCode(iCode) /\ GoodCode(words, iCode) /\ DOMAIN iCode = 1 .. Len(iCode) /\ Len(iCode) \in Nat
  BY ReadyTypes
<1>2. m \in 1 .. Len(iCode) + 1 /\ m + 1 \in 1 .. Len(iCode) + 1
  BY <1>1
<1> QED BY <1>1, <1>2, AddressIs, AddressIsNat DEF Adr

\* An item with bytes.
LEMMA ItemRuns ==
  ASSUME NEW F, NEW H, Ready(F, H), NEW m \in DOMAIN iCode,
         iCode[m].op \in {"S", "return", "cond", "goto", "brfalse", "onerr"}
  PROVE  LET i == InstructionAt(Adr(m)) IN
         /\ i = Instruction(iCode, m) /\ i.at = Adr(m) /\ i.op = iCode[m].op
         /\ i.word = iCode[m].word /\ i.size = Size(iCode[m])
         /\ Adr(m + 1) = Adr(m) + i.size
         /\ i.op \in {"S", "return"} => i.size = 1
         /\ i.op = "cond" => i.size = 2
<1>1. /\ IsCode(iCode) /\ GoodCode(words, iCode) /\ qcode = ConvertPcode(iCode)
  BY ReadyTypes
<1>2. /\ Size(iCode[m]) > 0 /\ iCode[m].op \in {"S", "return"} => Size(iCode[m]) = 1
      /\ iCode[m].op = "cond" => Size(iCode[m]) = 2
  BY DEF Size
<1>3. InstructionAt(AddressOf(iCode, m)) = Instruction(iCode, m)
  <2>1. Size(iCode[m]) > 0
    BY DEF Size
  <2> QED BY <1>1, <2>1, InstructionOf
<1>4. PICK i : i = Instruction(iCode, m)
  OBVIOUS
<1>5. /\ i.at = AddressOf(iCode, m) /\ i.size = Size(iCode[m]) /\ i.op = iCode[m].op
      /\ i.word = iCode[m].word
  BY <1>4 DEF Instruction
<1>6. Adr(m + 1) = Adr(m) + Size(iCode[m])
  BY AdrNext
<1>7. /\ iCode[m].op \in {"S", "return"} => Size(iCode[m]) = 1
      /\ iCode[m].op = "cond" => Size(iCode[m]) = 2
  BY DEF Size
<1> QED BY <1>3, <1>4, <1>5, <1>6, <1>7 DEF Adr

\* A label has no bytes; a statement has none or is passed.
LEMMA LabelSlides ==
  ASSUME NEW F, NEW H, Ready(F, H), NEW m \in DOMAIN iCode, iCode[m].op = "label"
  PROVE  Adr(m + 1) = Adr(m)
<1>1. Size(iCode[m]) = 0
  BY DEF Size
<1> QED BY <1>1, AdrNext

\* A statement mark is passed, or is not there.
LEMMA StatementSlides ==
  ASSUME NEW F, NEW H, Ready(F, H), NEW m \in DOMAIN iCode, iCode[m].op = "stmt"
  PROVE  Slides(Adr(m), Adr(m + 1))
<1>1. CASE ~vocab.debug
  <2>1. Size(iCode[m]) = 0
    BY <1>1 DEF Size
  <2>2. Adr(m + 1) = Adr(m)
    BY <2>1, AdrNext
  <2> QED BY <2>2 DEF Slides
<1>2. CASE vocab.debug
  <2>1. Size(iCode[m]) = 3
    BY <1>2 DEF Size
  <2>2. /\ IsCode(iCode) /\ GoodCode(words, iCode) /\ qcode = ConvertPcode(iCode)
    BY ReadyTypes
  <2>3. InstructionAt(AddressOf(iCode, m)) = Instruction(iCode, m)
    <3>1. Size(iCode[m]) > 0
      BY <2>1
    <3> QED BY <2>2, <3>1, InstructionOf
  <2>4. PICK i : i = Instruction(iCode, m)
    OBVIOUS
  <2>5. i.size = 3 /\ i.op = "stmt"
    BY <2>1, <2>4 DEF Instruction
  <2>6. Adr(m + 1) = Adr(m) + 3
    BY <2>1, AdrNext
  <2>7. PICK a : a = Adr(m)
    OBVIOUS
  <2>8. InstructionAt(a) = i
    BY <2>3, <2>4, <2>7 DEF Adr
  <2>9. CodeStep(a) = a + 3
    BY <2>5, <2>8 DEF CodeStep
  <2> QED BY <2>5, <2>6, <2>7, <2>8, <2>9 DEF Slides, Passes, Jumps
<1> QED BY <1>1, <1>2

\* A jump to a label reaches the item that sets it.
LEMMA BranchGoes ==
  ASSUME NEW F, NEW H, Ready(F, H), NEW m \in DOMAIN iCode,
         iCode[m].op \in {"goto", "brfalse"}, NEW l, iCode[m].to = <<l>>,
         NEW j \in DOMAIN iCode, Defines(iCode[j], l)
  PROVE  /\ InstructionAt(Adr(m)).op = iCode[m].op /\ DoGoto(InstructionAt(Adr(m))) = Adr(j)
         /\ iCode[m].op = "goto" => Passes(Adr(m), Adr(j))
<1>1. PICK i : i = Instruction(iCode, m)
  OBVIOUS
<1>2. PICK a \in Nat : a = Adr(m)
  BY AdrNext
<1>3. PICK b \in Nat : b = Adr(j)
  BY AdrNext
<1>4. InstructionAt(a) = i /\ i.op = iCode[m].op /\ i.at = a
  BY <1>1, <1>2, ItemRuns
<1>5. /\ IsCode(iCode) /\ GoodCode(words, iCode) /\ OneEach(iCode) /\ Fitting(iCode)
  BY ReadyTypes
<1>6. 1 \in DOMAIN iCode[m].to /\ iCode[m].to[1] = l /\ iCode[m].op # "label"
  OBVIOUS
<1>7. i.offsets[1] = AddressOf(iCode, j) - AddressOf(iCode, m)
  BY <1>1, <1>5, <1>6, BranchReaches
<1>8. i.offsets[1] = b - a
  BY <1>2, <1>3, <1>7 DEF Adr
<1>9. DoGoto(i) = b
  BY <1>4, <1>8 DEF DoGoto
<1>10. iCode[m].op = "goto" => CodeStep(a) = b
  BY <1>4, <1>9 DEF CodeStep
<1> QED BY <1>2, <1>3, <1>4, <1>9, <1>10 DEF Passes, Jumps

\* The same for a jump to an internal label.
LEMMA BranchToSite ==
  ASSUME NEW F, NEW H, Ready(F, H), NEW m \in DOMAIN iCode, NEW n, NEW x,
         NEW op \in {"goto", "brfalse"}, iCode[m] = Go(n, op, x), NEW j, IsSite(words, F, H, j, x)
  PROVE  /\ j \in DOMAIN iCode /\ iCode[j].op = "label"
         /\ InstructionAt(Adr(m)).op = op /\ DoGoto(InstructionAt(Adr(m))) = Adr(j)
         /\ op = "goto" => Passes(Adr(m), Adr(j))
<1>1. Procedure(words, iCode, F, H)
  BY DEF Ready
<1>2. op # "label"
  OBVIOUS
<1>3. j \in DOMAIN iCode /\ Defines(iCode[j], InternalLabel(x))
  BY <1>1, <1>2, InternalSet
<1>4. iCode[m].op = op /\ iCode[m].to = <<InternalLabel(x)>>
  BY DEF Go, Do
<1> QED BY <1>3, <1>4, BranchGoes DEF Defines

\* A slide and a jump.
LEMMA SlideAndPass ==
  ASSUME NEW a, NEW b, NEW c, Slides(a, b), Passes(b, c)
  PROVE  Reaches(a, c)
BY DEF Slides, Reaches

-----------------------------------------------------------------------------
(* A place in the source and the item that corresponds to it.               *)
Spot(F, p) ==
  IF ~p.test THEN F[p.word]
  ELSE IF words[p.word].w \in {"IF", "UNTIL"} THEN F[p.word] + 1 ELSE F[p.word] + 2
Rank(p) == 2 * p.word + (IF p.test THEN 1 ELSE 0)
Live(p) == Placed(p) /\ (p.word = Len(words) => ~AfterReturn(words, Len(words)))

(* The code keeps its address while the source goes forward, or it jumps.   *)
Tells(F, p, q) ==
  \/ Adr(Spot(F, p)) = Adr(Spot(F, q)) /\ Rank(p) < Rank(q)
  \/ Reaches(Adr(Spot(F, p)), Adr(Spot(F, q)))

\* Where the code of a place begins.
LEMMA SpotIs ==
  ASSUME NEW F, NEW n \in Nat
  PROVE  /\ Spot(F, To(n)) = F[n]
         /\ words[n].w \in {"IF", "UNTIL"} => Spot(F, Test(n)) = F[n] + 1
         /\ words[n].w \in {"WHILE", "ELSEIF"} => Spot(F, Test(n)) = F[n] + 2
         /\ Rank(To(n)) = 2 * n /\ Rank(Test(n)) = 2 * n + 1 
<1>1. /\ To(n).word = n /\ To(n).test = FALSE /\ Test(n).word = n /\ Test(n).test = TRUE
  BY DEF To, Test
<1>2. Rank(To(n)) = 2 * n + 0
  BY <1>1 DEF Rank
<1> QED BY <1>1, <1>2 DEF Spot, Rank

\* The items of a word are items of the code.
LEMMA ItemWithin ==
  ASSUME NEW F, NEW H, Ready(F, H), NEW n \in 1 .. Len(words), NEW j \in Nat,
         F[n] <= j, j < F[n + 1]
  PROVE  j \in DOMAIN iCode
<1>1. /\ Laid(words, iCode, F, H) /\ Len(words) \in Nat /\ DOMAIN iCode = 1 .. Len(iCode) /\ Len(iCode) \in Nat
  BY ReadyTypes
<1>2. F[n] \in Nat \ {0} /\ F[n + 1] \in Nat \ {0}
  BY <1>1, JumpItems
<1>3. F[n + 1] <= Len(iCode) + 1
  <2>1. PICK N \in Nat : N = Len(words)
    BY <1>1
  <2>2. PICK M \in Nat : M = Len(iCode)
    BY <1>1
  <2>3. F[N + 1] = M + 1 /\ \A k \in 1 .. N : F[k] <= M + 1
    BY <1>1, <2>1, <2>2 DEF Laid
  <2>4. n + 1 = N + 1 \/ n + 1 \in 1 .. N
    BY <2>1
  <2>5. F[n + 1] <= M + 1
    BY <1>2, <2>3, <2>4
  <2> QED BY <2>2, <2>5
<1> QED BY <1>1, <1>2, <1>3

\* The items of a word are passed one by one.
Passing(F, n, j) ==
  /\ j \in DOMAIN iCode
  /\ \A x : iCode[j] = Set(n, x) => Adr(j + 1) = Adr(j)
  /\ iCode[j] = Stmt(n) => Slides(Adr(j), Adr(j + 1))
  /\ \A to : iCode[j] = Do(n, "label", to) => Adr(j + 1) = Adr(j)

\* Marks and labels among the items of a word are passed.
LEMMA ItemPasses ==
  ASSUME NEW F, NEW H, Ready(F, H), NEW n \in 1 .. Len(words), NEW j \in Nat,
         F[n] <= j, j < F[n + 1]
  PROVE  Passing(F, n, j)
<1>1. j \in DOMAIN iCode
  BY ItemWithin
<1>2. ASSUME NEW x, iCode[j] = Set(n, x)
      PROVE  Adr(j + 1) = Adr(j)
  <2>1. iCode[j].op = "label"
    BY <1>2 DEF Set, Do
  <2> QED BY <1>1, <2>1, LabelSlides
<1>3. ASSUME iCode[j] = Stmt(n)
      PROVE  Slides(Adr(j), Adr(j + 1))
  <2>1. iCode[j].op = "stmt"
    BY <1>3 DEF Stmt, Do
  <2> QED BY <1>1, <2>1, StatementSlides
<1>4. ASSUME NEW to, iCode[j] = Do(n, "label", to)
      PROVE  Adr(j + 1) = Adr(j)
  <2>1. iCode[j].op = "label"
    BY <1>4 DEF Do
  <2> QED BY <1>1, <2>1, LabelSlides
<1> QED BY <1>1, <1>2, <1>3, <1>4 DEF Passing

\* At most four items of a word, at f and after it, are passed one by one.
LEMMA ItemsPass ==
  ASSUME NEW F, NEW H, Ready(F, H), NEW n \in 1 .. Len(words), NEW f \in Nat, F[n] = f
  PROVE  /\ F[n + 1] \in {f + 1, f + 2, f + 3, f + 4} => Passing(F, n, f)
         /\ F[n + 1] \in {f + 2, f + 3, f + 4} => Passing(F, n, f + 1)
         /\ F[n + 1] \in {f + 3, f + 4} => Passing(F, n, f + 2)
         /\ F[n + 1] = f + 4 => Passing(F, n, f + 3)
<1>1. PICK a, b : a = F[n] /\ b = F[n + 1]
  OBVIOUS
<1>2. ASSUME NEW j \in {f, f + 1, f + 2, f + 3}, b \in Int, j < b
      PROVE  Passing(F, n, j)
  <2>1. j \in Nat /\ a <= j
    BY <1>1
  <2> QED BY <1>1, <1>2, <2>1, ItemPasses, Zenon
<1>3. b \in {f + 1, f + 2, f + 3, f + 4} => Passing(F, n, f)
  <2> SUFFICES ASSUME b \in {f + 1, f + 2, f + 3, f + 4} PROVE Passing(F, n, f)
    OBVIOUS
  <2>1. b \in Int /\ f < b
    OBVIOUS
  <2> QED BY <1>2, <2>1
<1>4. b \in {f + 2, f + 3, f + 4} => Passing(F, n, f + 1)
  <2> SUFFICES ASSUME b \in {f + 2, f + 3, f + 4} PROVE Passing(F, n, f + 1)
    OBVIOUS
  <2>1. b \in Int /\ f + 1 < b
    OBVIOUS
  <2> QED BY <1>2, <2>1
<1>5. b \in {f + 3, f + 4} => Passing(F, n, f + 2)
  <2> SUFFICES ASSUME b \in {f + 3, f + 4} PROVE Passing(F, n, f + 2)
    OBVIOUS
  <2>1. b \in Int /\ f + 2 < b
    OBVIOUS
  <2> QED BY <1>2, <2>1
<1>6. b = f + 4 => Passing(F, n, f + 3)
  <2> SUFFICES ASSUME b = f + 4 PROVE Passing(F, n, f + 3)
    OBVIOUS
  <2>1. b \in Int /\ f + 3 < b
    OBVIOUS
  <2> QED BY <1>2, <2>1
<1> QED BY <1>1, <1>3, <1>4, <1>5, <1>6, Zenon

\* Where the items of each word stand.
LEMMA IfLaid ==
  ASSUME NEW F, NEW H, Ready(F, H), NEW n \in 1 .. Len(words), words[n].w = "IF"
  PROVE  /\ F[n] \in Nat \ {0} /\ F[n + 1] = F[n] + 3
         /\ iCode[F[n]] = Stmt(n) /\ F[n] \in DOMAIN iCode
         /\ Slides(Adr(F[n]), Adr(F[n] + 1))
         /\ iCode[F[n] + 1] = Cond(n) /\ F[n] + 1 \in DOMAIN iCode
         /\ iCode[F[n] + 2] = Go(n, "brfalse", H[n].EFalse) /\ F[n] + 2 \in DOMAIN iCode
<1>1. Laid(words, iCode, F, H) /\ Len(words) \in Nat
  BY ReadyTypes
<1>2. F[n] \in Nat \ {0} /\ F[n + 1] \in Nat \ {0}
  BY <1>1, JumpItems
<1>3. PICK c : c = iCode
  OBVIOUS
<1>4. PICK f \in Nat \ {0} : f = F[n]
  BY <1>2
<1>5. Runs3(iCode, F[n], F[n + 1], Stmt(n), Cond(n), Go(n, "brfalse", H[n].EFalse))
  BY <1>1, StructureItems
<1>6. F[n + 1] = f + 3 /\ c[f] = Stmt(n) /\ c[f + 1] = Cond(n) /\ c[f + 2] = Go(n, "brfalse", H[n].EFalse)
  BY <1>3, <1>4, <1>5 DEF Runs3
<1>7. F[n + 1] = f + 3
  BY <1>6
<1>8. Passing(F, n, f) /\ Passing(F, n, f + 1) /\ Passing(F, n, f + 2)
  BY <1>4, <1>7, ItemsPass
<1>9. (f + 1) + 1 = f + 2 /\ (f + 2) + 1 = f + 3
  OBVIOUS
<1> QED BY <1>3, <1>4, <1>6, <1>8, <1>9 DEF Passing

\* The code of DO,
LEMMA DoLaid ==
  ASSUME NEW F, NEW H, Ready(F, H), NEW n \in 1 .. Len(words), words[n].w = "DO"
  PROVE  /\ F[n] \in Nat \ {0} /\ F[n + 1] = F[n] + 2
         /\ iCode[F[n]] = Stmt(n) /\ F[n] \in DOMAIN iCode
         /\ Slides(Adr(F[n]), Adr(F[n] + 1))
         /\ iCode[F[n] + 1] = Set(n, H[n].EFalse) /\ F[n] + 1 \in DOMAIN iCode
         /\ Adr(F[n] + 2) = Adr(F[n] + 1)
<1>1. Laid(words, iCode, F, H) /\ Len(words) \in Nat
  BY ReadyTypes
<1>2. F[n] \in Nat \ {0} /\ F[n + 1] \in Nat \ {0}
  BY <1>1, JumpItems
<1>3. PICK c : c = iCode
  OBVIOUS
<1>4. PICK f \in Nat \ {0} : f = F[n]
  BY <1>2
<1>5. Runs2(iCode, F[n], F[n + 1], Stmt(n), Set(n, H[n].EFalse))
  BY <1>1, StructureItems
<1>6. F[n + 1] = f + 2 /\ c[f] = Stmt(n) /\ c[f + 1] = Set(n, H[n].EFalse)
  BY <1>3, <1>4, <1>5 DEF Runs2
<1>7. F[n + 1] = f + 2
  BY <1>6
<1>8. Passing(F, n, f) /\ Passing(F, n, f + 1)
  BY <1>4, <1>7, ItemsPass
<1>9. (f + 1) + 1 = f + 2
  OBVIOUS
<1> QED BY <1>3, <1>4, <1>6, <1>8, <1>9 DEF Passing

\* of WHILE,
LEMMA WhileLaid ==
  ASSUME NEW F, NEW H, Ready(F, H), NEW n \in 1 .. Len(words), words[n].w = "WHILE"
  PROVE  /\ F[n] \in Nat \ {0} /\ F[n + 1] = F[n] + 4
         /\ iCode[F[n]] = Stmt(n) /\ F[n] \in DOMAIN iCode
         /\ Slides(Adr(F[n]), Adr(F[n] + 1))
         /\ iCode[F[n] + 1] = Set(n, H[n].EContinue) /\ F[n] + 1 \in DOMAIN iCode
         /\ Adr(F[n] + 2) = Adr(F[n] + 1)
         /\ iCode[F[n] + 2] = Cond(n) /\ F[n] + 2 \in DOMAIN iCode
         /\ iCode[F[n] + 3] = Go(n, "brfalse", H[n].EFalse) /\ F[n] + 3 \in DOMAIN iCode
<1>1. Laid(words, iCode, F, H) /\ Len(words) \in Nat
  BY ReadyTypes
<1>2. F[n] \in Nat \ {0} /\ F[n + 1] \in Nat \ {0}
  BY <1>1, JumpItems
<1>3. PICK c : c = iCode
  OBVIOUS
<1>4. PICK f \in Nat \ {0} : f = F[n]
  BY <1>2
<1>5. Runs4(iCode, F[n], F[n + 1], Stmt(n), Set(n, H[n].EContinue), Cond(n), Go(n, "brfalse", H[n].EFalse))
  BY <1>1, StructureItems
<1>6. /\ F[n + 1] = f + 4
      /\ c[f] = Stmt(n)
      /\ c[f + 1] = Set(n, H[n].EContinue)
      /\ c[f + 2] = Cond(n)
      /\ c[f + 3] = Go(n, "brfalse", H[n].EFalse)
  BY <1>3, <1>4, <1>5 DEF Runs4
<1>7. F[n + 1] = f + 4
  BY <1>6
<1>8. Passing(F, n, f) /\ Passing(F, n, f + 1) /\ Passing(F, n, f + 2) /\ Passing(F, n, f + 3)
  BY <1>4, <1>7, ItemsPass
<1>9. (f + 1) + 1 = f + 2 /\ (f + 2) + 1 = f + 3 /\ (f + 3) + 1 = f + 4
  OBVIOUS
<1> QED BY <1>3, <1>4, <1>6, <1>8, <1>9 DEF Passing

\* of ELSEIF,
LEMMA ElseIfLaid ==
  ASSUME NEW F, NEW H, Ready(F, H), NEW n \in 1 .. Len(words), words[n].w = "ELSEIF"
  PROVE  /\ F[n] \in Nat \ {0} /\ F[n + 1] = F[n] + 4
         /\ iCode[F[n]] = Go(n, "goto", H[n - 1].EExit) /\ F[n] \in DOMAIN iCode
         /\ iCode[F[n] + 1] = Set(n, H[n - 1].EFalse) /\ F[n] + 1 \in DOMAIN iCode
         /\ Adr(F[n] + 2) = Adr(F[n] + 1)
         /\ iCode[F[n] + 2] = Cond(n) /\ F[n] + 2 \in DOMAIN iCode
         /\ iCode[F[n] + 3] = Go(n, "brfalse", H[n].EFalse) /\ F[n] + 3 \in DOMAIN iCode
<1>1. Laid(words, iCode, F, H) /\ Len(words) \in Nat
  BY ReadyTypes
<1>2. F[n] \in Nat \ {0} /\ F[n + 1] \in Nat \ {0}
  BY <1>1, JumpItems
<1>3. PICK c : c = iCode
  OBVIOUS
<1>4. PICK f \in Nat \ {0} : f = F[n]
  BY <1>2
<1>5. Runs4(iCode, F[n], F[n + 1], Go(n, "goto", H[n - 1].EExit), Set(n, H[n - 1].EFalse), Cond(n), Go(n, "brfalse", H[n].EFalse))
  BY <1>1, StructureItems
<1>6. /\ F[n + 1] = f + 4
      /\ c[f] = Go(n, "goto", H[n - 1].EExit)
      /\ c[f + 1] = Set(n, H[n - 1].EFalse)
      /\ c[f + 2] = Cond(n)
      /\ c[f + 3] = Go(n, "brfalse", H[n].EFalse)
  BY <1>3, <1>4, <1>5 DEF Runs4
<1>7. F[n + 1] = f + 4
  BY <1>6
<1>8. Passing(F, n, f) /\ Passing(F, n, f + 1) /\ Passing(F, n, f + 2) /\ Passing(F, n, f + 3)
  BY <1>4, <1>7, ItemsPass
<1>9. (f + 1) + 1 = f + 2 /\ (f + 2) + 1 = f + 3 /\ (f + 3) + 1 = f + 4
  OBVIOUS
<1> QED BY <1>3, <1>4, <1>6, <1>8, <1>9 DEF Passing

\* of ELSE,
LEMMA ElseLaid ==
  ASSUME NEW F, NEW H, Ready(F, H), NEW n \in 1 .. Len(words), words[n].w = "ELSE"
  PROVE  /\ F[n] \in Nat \ {0} /\ F[n + 1] = F[n] + 2
         /\ iCode[F[n]] = Go(n, "goto", H[n - 1].EExit) /\ F[n] \in DOMAIN iCode
         /\ iCode[F[n] + 1] = Set(n, H[n - 1].EFalse) /\ F[n] + 1 \in DOMAIN iCode
         /\ Adr(F[n] + 2) = Adr(F[n] + 1)
<1>1. Laid(words, iCode, F, H) /\ Len(words) \in Nat
  BY ReadyTypes
<1>2. F[n] \in Nat \ {0} /\ F[n + 1] \in Nat \ {0}
  BY <1>1, JumpItems
<1>3. PICK c : c = iCode
  OBVIOUS
<1>4. PICK f \in Nat \ {0} : f = F[n]
  BY <1>2
<1>5. Runs2(iCode, F[n], F[n + 1], Go(n, "goto", H[n - 1].EExit), Set(n, H[n - 1].EFalse))
  BY <1>1, StructureItems
<1>6. F[n + 1] = f + 2 /\ c[f] = Go(n, "goto", H[n - 1].EExit) /\ c[f + 1] = Set(n, H[n - 1].EFalse)
  BY <1>3, <1>4, <1>5 DEF Runs2
<1>7. F[n + 1] = f + 2
  BY <1>6
<1>8. Passing(F, n, f) /\ Passing(F, n, f + 1)
  BY <1>4, <1>7, ItemsPass
<1>9. (f + 1) + 1 = f + 2
  OBVIOUS
<1> QED BY <1>3, <1>4, <1>6, <1>8, <1>9 DEF Passing

\* of UNTIL,
LEMMA UntilLaid ==
  ASSUME NEW F, NEW H, Ready(F, H), NEW n \in 1 .. Len(words), words[n].w = "UNTIL"
  PROVE  /\ F[n] \in Nat \ {0} /\ F[n + 1] = F[n] + 4
         /\ iCode[F[n]] = Set(n, H[n - 1].EContinue) /\ F[n] \in DOMAIN iCode
         /\ Adr(F[n] + 1) = Adr(F[n])
         /\ iCode[F[n] + 1] = Cond(n) /\ F[n] + 1 \in DOMAIN iCode
         /\ iCode[F[n] + 2] = Go(n, "brfalse", H[n - 1].EFalse) /\ F[n] + 2 \in DOMAIN iCode
         /\ iCode[F[n] + 3] = Set(n, H[n - 1].EBreak) /\ F[n] + 3 \in DOMAIN iCode
         /\ Adr(F[n] + 4) = Adr(F[n] + 3)
<1>1. Laid(words, iCode, F, H) /\ Len(words) \in Nat
  BY ReadyTypes
<1>2. F[n] \in Nat \ {0} /\ F[n + 1] \in Nat \ {0}
  BY <1>1, JumpItems
<1>3. PICK c : c = iCode
  OBVIOUS
<1>4. PICK f \in Nat \ {0} : f = F[n]
  BY <1>2
<1>5. Runs4(iCode, F[n], F[n + 1], Set(n, H[n - 1].EContinue), Cond(n), Go(n, "brfalse", H[n - 1].EFalse), Set(n, H[n - 1].EBreak))
  BY <1>1, StructureItems
<1>6. /\ F[n + 1] = f + 4
      /\ c[f] = Set(n, H[n - 1].EContinue)
      /\ c[f + 1] = Cond(n)
      /\ c[f + 2] = Go(n, "brfalse", H[n - 1].EFalse)
      /\ c[f + 3] = Set(n, H[n - 1].EBreak)
  BY <1>3, <1>4, <1>5 DEF Runs4
<1>7. F[n + 1] = f + 4
  BY <1>6
<1>8. Passing(F, n, f) /\ Passing(F, n, f + 1) /\ Passing(F, n, f + 2) /\ Passing(F, n, f + 3)
  BY <1>4, <1>7, ItemsPass
<1>9. (f + 1) + 1 = f + 2 /\ (f + 2) + 1 = f + 3 /\ (f + 3) + 1 = f + 4
  OBVIOUS
<1> QED BY <1>3, <1>4, <1>6, <1>8, <1>9 DEF Passing

\* of ENDWH,
LEMMA EndWhLaid ==
  ASSUME NEW F, NEW H, Ready(F, H), NEW n \in 1 .. Len(words), words[n].w = "ENDWH"
  PROVE  /\ F[n] \in Nat \ {0} /\ F[n + 1] = F[n] + 3
         /\ iCode[F[n]] = Go(n, "goto", H[n - 1].EContinue) /\ F[n] \in DOMAIN iCode
         /\ iCode[F[n] + 1] = Set(n, H[n - 1].EBreak) /\ F[n] + 1 \in DOMAIN iCode
         /\ Adr(F[n] + 2) = Adr(F[n] + 1)
         /\ iCode[F[n] + 2] = Set(n, H[n - 1].EFalse) /\ F[n] + 2 \in DOMAIN iCode
         /\ Adr(F[n] + 3) = Adr(F[n] + 2)
<1>1. Laid(words, iCode, F, H) /\ Len(words) \in Nat
  BY ReadyTypes
<1>2. F[n] \in Nat \ {0} /\ F[n + 1] \in Nat \ {0}
  BY <1>1, JumpItems
<1>3. PICK c : c = iCode
  OBVIOUS
<1>4. PICK f \in Nat \ {0} : f = F[n]
  BY <1>2
<1>5. Runs3(iCode, F[n], F[n + 1], Go(n, "goto", H[n - 1].EContinue), Set(n, H[n - 1].EBreak), Set(n, H[n - 1].EFalse))
  BY <1>1, StructureItems
<1>6. /\ F[n + 1] = f + 3
      /\ c[f] = Go(n, "goto", H[n - 1].EContinue)
      /\ c[f + 1] = Set(n, H[n - 1].EBreak)
      /\ c[f + 2] = Set(n, H[n - 1].EFalse)
  BY <1>3, <1>4, <1>5 DEF Runs3
<1>7. F[n + 1] = f + 3
  BY <1>6
<1>8. Passing(F, n, f) /\ Passing(F, n, f + 1) /\ Passing(F, n, f + 2)
  BY <1>4, <1>7, ItemsPass
<1>9. (f + 1) + 1 = f + 2 /\ (f + 2) + 1 = f + 3
  OBVIOUS
<1> QED BY <1>3, <1>4, <1>6, <1>8, <1>9 DEF Passing

\* of ENDIF after ELSE,
LEMMA EndIfElseLaid ==
  ASSUME NEW F, NEW H, Ready(F, H), NEW n \in 1 .. Len(words), words[n].w = "ENDIF", AfterElse(words, n)
  PROVE  /\ F[n] \in Nat \ {0} /\ F[n + 1] = F[n] + 1
         /\ iCode[F[n]] = Set(n, H[n - 1].EExit) /\ F[n] \in DOMAIN iCode
         /\ Adr(F[n] + 1) = Adr(F[n])
<1>1. Laid(words, iCode, F, H) /\ Len(words) \in Nat
  BY ReadyTypes
<1>2. F[n] \in Nat \ {0} /\ F[n + 1] \in Nat \ {0}
  BY <1>1, JumpItems
<1>3. PICK c : c = iCode
  OBVIOUS
<1>4. PICK f \in Nat \ {0} : f = F[n]
  BY <1>2
<1>5. Runs1(iCode, F[n], F[n + 1], Set(n, H[n - 1].EExit))
  BY <1>1, StructureItems
<1>6. F[n + 1] = f + 1 /\ c[f] = Set(n, H[n - 1].EExit)
  BY <1>3, <1>4, <1>5 DEF Runs1
<1>7. F[n + 1] = f + 1
  BY <1>6
<1>8. Passing(F, n, f)
  BY <1>4, <1>7, ItemsPass
<1> QED BY <1>3, <1>4, <1>6, <1>8 DEF Passing

\* of ENDIF without ELSE,
LEMMA EndIfLaid ==
  ASSUME NEW F, NEW H, Ready(F, H), NEW n \in 1 .. Len(words), words[n].w = "ENDIF", ~AfterElse(words, n)
  PROVE  /\ F[n] \in Nat \ {0} /\ F[n + 1] = F[n] + 2
         /\ iCode[F[n]] = Set(n, H[n - 1].EFalse) /\ F[n] \in DOMAIN iCode
         /\ Adr(F[n] + 1) = Adr(F[n])
         /\ iCode[F[n] + 1] = Set(n, H[n - 1].EExit) /\ F[n] + 1 \in DOMAIN iCode
         /\ Adr(F[n] + 2) = Adr(F[n] + 1)
<1>1. Laid(words, iCode, F, H) /\ Len(words) \in Nat
  BY ReadyTypes
<1>2. F[n] \in Nat \ {0} /\ F[n + 1] \in Nat \ {0}
  BY <1>1, JumpItems
<1>3. PICK c : c = iCode
  OBVIOUS
<1>4. PICK f \in Nat \ {0} : f = F[n]
  BY <1>2
<1>5. Runs2(iCode, F[n], F[n + 1], Set(n, H[n - 1].EFalse), Set(n, H[n - 1].EExit))
  BY <1>1, StructureItems
<1>6. F[n + 1] = f + 2 /\ c[f] = Set(n, H[n - 1].EFalse) /\ c[f + 1] = Set(n, H[n - 1].EExit)
  BY <1>3, <1>4, <1>5 DEF Runs2
<1>7. F[n + 1] = f + 2
  BY <1>6
<1>8. Passing(F, n, f) /\ Passing(F, n, f + 1)
  BY <1>4, <1>7, ItemsPass
<1>9. (f + 1) + 1 = f + 2
  OBVIOUS
<1> QED BY <1>3, <1>4, <1>6, <1>8, <1>9 DEF Passing

\* of a label,
LEMMA LabelLaid ==
  ASSUME NEW F, NEW H, Ready(F, H), NEW n \in 1 .. Len(words), words[n].w = "LABEL"
  PROVE  /\ F[n] \in Nat \ {0} /\ F[n + 1] = F[n] + 1
         /\ iCode[F[n]] = Do(n, "label", <<UserLabel(words[n].ls[1])>>) /\ F[n] \in DOMAIN iCode
         /\ Adr(F[n] + 1) = Adr(F[n])
<1>1. Laid(words, iCode, F, H) /\ Len(words) \in Nat
  BY ReadyTypes
<1>2. F[n] \in Nat \ {0} /\ F[n + 1] \in Nat \ {0}
  BY <1>1, JumpItems
<1>3. PICK c : c = iCode
  OBVIOUS
<1>4. PICK f \in Nat \ {0} : f = F[n]
  BY <1>2
<1>5. Runs1(iCode, F[n], F[n + 1], Do(n, "label", <<UserLabel(words[n].ls[1])>>))
  BY <1>1, JumpItems
<1>6. F[n + 1] = f + 1 /\ c[f] = Do(n, "label", <<UserLabel(words[n].ls[1])>>)
  BY <1>3, <1>4, <1>5 DEF Runs1
<1>7. F[n + 1] = f + 1
  BY <1>6
<1>8. Passing(F, n, f)
  BY <1>4, <1>7, ItemsPass
<1> QED BY <1>3, <1>4, <1>6, <1>8 DEF Passing

\* of a statement,
LEMMA SLaid ==
  ASSUME NEW F, NEW H, Ready(F, H), NEW n \in 1 .. Len(words), words[n].w = "S"
  PROVE  /\ F[n] \in Nat \ {0} /\ F[n + 1] = F[n] + 2
         /\ iCode[F[n]] = Stmt(n) /\ F[n] \in DOMAIN iCode
         /\ Slides(Adr(F[n]), Adr(F[n] + 1))
         /\ iCode[F[n] + 1] = Do(n, "S", <<>>) /\ F[n] + 1 \in DOMAIN iCode
<1>1. Laid(words, iCode, F, H) /\ Len(words) \in Nat
  BY ReadyTypes
<1>2. F[n] \in Nat \ {0} /\ F[n + 1] \in Nat \ {0}
  BY <1>1, JumpItems
<1>3. PICK c : c = iCode
  OBVIOUS
<1>4. PICK f \in Nat \ {0} : f = F[n]
  BY <1>2
<1>5. Runs2(iCode, F[n], F[n + 1], Stmt(n), Do(n, "S", <<>>))
  BY <1>1, JumpItems
<1>6. F[n + 1] = f + 2 /\ c[f] = Stmt(n) /\ c[f + 1] = Do(n, "S", <<>>)
  BY <1>3, <1>4, <1>5 DEF Runs2
<1>7. F[n + 1] = f + 2
  BY <1>6
<1>8. Passing(F, n, f) /\ Passing(F, n, f + 1)
  BY <1>4, <1>7, ItemsPass
<1>9. (f + 1) + 1 = f + 2
  OBVIOUS
<1> QED BY <1>3, <1>4, <1>6, <1>8, <1>9 DEF Passing

\* of a blank statement,
LEMMA EosLaid ==
  ASSUME NEW F, NEW H, Ready(F, H), NEW n \in 1 .. Len(words), words[n].w = "EOS"
  PROVE  /\ F[n] \in Nat \ {0} /\ F[n + 1] = F[n] + 1
         /\ iCode[F[n]] = Stmt(n) /\ F[n] \in DOMAIN iCode
         /\ Slides(Adr(F[n]), Adr(F[n] + 1))
<1>1. Laid(words, iCode, F, H) /\ Len(words) \in Nat
  BY ReadyTypes
<1>2. F[n] \in Nat \ {0} /\ F[n + 1] \in Nat \ {0}
  BY <1>1, JumpItems
<1>3. PICK c : c = iCode
  OBVIOUS
<1>4. PICK f \in Nat \ {0} : f = F[n]
  BY <1>2
<1>5. Runs1(iCode, F[n], F[n + 1], Stmt(n))
  BY <1>1, JumpItems
<1>6. F[n + 1] = f + 1 /\ c[f] = Stmt(n)
  BY <1>3, <1>4, <1>5 DEF Runs1
<1>7. F[n + 1] = f + 1
  BY <1>6
<1>8. Passing(F, n, f)
  BY <1>4, <1>7, ItemsPass
<1> QED BY <1>3, <1>4, <1>6, <1>8 DEF Passing

\* of RETURN,
LEMMA ReturnLaid ==
  ASSUME NEW F, NEW H, Ready(F, H), NEW n \in 1 .. Len(words), words[n].w = "RETURN"
  PROVE  /\ F[n] \in Nat \ {0} /\ F[n + 1] = F[n] + 2
         /\ iCode[F[n]] = Stmt(n) /\ F[n] \in DOMAIN iCode
         /\ Slides(Adr(F[n]), Adr(F[n] + 1))
         /\ iCode[F[n] + 1] = Do(n, "return", <<>>) /\ F[n] + 1 \in DOMAIN iCode
<1>1. Laid(words, iCode, F, H) /\ Len(words) \in Nat
  BY ReadyTypes
<1>2. F[n] \in Nat \ {0} /\ F[n + 1] \in Nat \ {0}
  BY <1>1, JumpItems
<1>3. PICK c : c = iCode
  OBVIOUS
<1>4. PICK f \in Nat \ {0} : f = F[n]
  BY <1>2
<1>5. Runs2(iCode, F[n], F[n + 1], Stmt(n), Do(n, "return", <<>>))
  BY <1>1, JumpItems
<1>6. F[n + 1] = f + 2 /\ c[f] = Stmt(n) /\ c[f + 1] = Do(n, "return", <<>>)
  BY <1>3, <1>4, <1>5 DEF Runs2
<1>7. F[n + 1] = f + 2
  BY <1>6
<1>8. Passing(F, n, f) /\ Passing(F, n, f + 1)
  BY <1>4, <1>7, ItemsPass
<1>9. (f + 1) + 1 = f + 2
  OBVIOUS
<1> QED BY <1>3, <1>4, <1>6, <1>8, <1>9 DEF Passing

\* of GOTO,
LEMMA GotoLaid ==
  ASSUME NEW F, NEW H, Ready(F, H), NEW n \in 1 .. Len(words), words[n].w = "GOTO"
  PROVE  /\ F[n] \in Nat \ {0} /\ F[n + 1] = F[n] + 2
         /\ iCode[F[n]] = Stmt(n) /\ F[n] \in DOMAIN iCode
         /\ Slides(Adr(F[n]), Adr(F[n] + 1))
         /\ iCode[F[n] + 1] = Do(n, "goto", LabelsOf(words[n])) /\ F[n] + 1 \in DOMAIN iCode
<1>1. Laid(words, iCode, F, H) /\ Len(words) \in Nat
  BY ReadyTypes
<1>2. F[n] \in Nat \ {0} /\ F[n + 1] \in Nat \ {0}
  BY <1>1, JumpItems
<1>3. PICK c : c = iCode
  OBVIOUS
<1>4. PICK f \in Nat \ {0} : f = F[n]
  BY <1>2
<1>5. Runs2(iCode, F[n], F[n + 1], Stmt(n), Do(n, "goto", LabelsOf(words[n])))
  BY <1>1, JumpItems
<1>6. F[n + 1] = f + 2 /\ c[f] = Stmt(n) /\ c[f + 1] = Do(n, "goto", LabelsOf(words[n]))
  BY <1>3, <1>4, <1>5 DEF Runs2
<1>7. F[n + 1] = f + 2
  BY <1>6
<1>8. Passing(F, n, f) /\ Passing(F, n, f + 1)
  BY <1>4, <1>7, ItemsPass
<1>9. (f + 1) + 1 = f + 2
  OBVIOUS
<1> QED BY <1>3, <1>4, <1>6, <1>8, <1>9 DEF Passing

\* of ONERR,
LEMMA OnErrLaid ==
  ASSUME NEW F, NEW H, Ready(F, H), NEW n \in 1 .. Len(words), words[n].w = "ONERR"
  PROVE  /\ F[n] \in Nat \ {0} /\ F[n + 1] = F[n] + 2
         /\ iCode[F[n]] = Stmt(n) /\ F[n] \in DOMAIN iCode
         /\ Slides(Adr(F[n]), Adr(F[n] + 1))
         /\ iCode[F[n] + 1] = Do(n, "onerr", LabelsOf(words[n])) /\ F[n] + 1 \in DOMAIN iCode
<1>1. Laid(words, iCode, F, H) /\ Len(words) \in Nat
  BY ReadyTypes
<1>2. F[n] \in Nat \ {0} /\ F[n + 1] \in Nat \ {0}
  BY <1>1, JumpItems
<1>3. PICK c : c = iCode
  OBVIOUS
<1>4. PICK f \in Nat \ {0} : f = F[n]
  BY <1>2
<1>5. Runs2(iCode, F[n], F[n + 1], Stmt(n), Do(n, "onerr", LabelsOf(words[n])))
  BY <1>1, JumpItems
<1>6. F[n + 1] = f + 2 /\ c[f] = Stmt(n) /\ c[f + 1] = Do(n, "onerr", LabelsOf(words[n]))
  BY <1>3, <1>4, <1>5 DEF Runs2
<1>7. F[n + 1] = f + 2
  BY <1>6
<1>8. Passing(F, n, f) /\ Passing(F, n, f + 1)
  BY <1>4, <1>7, ItemsPass
<1>9. (f + 1) + 1 = f + 2
  OBVIOUS
<1> QED BY <1>3, <1>4, <1>6, <1>8, <1>9 DEF Passing

\* of VECTOR,
LEMMA VectorLaid ==
  ASSUME NEW F, NEW H, Ready(F, H), NEW n \in 1 .. Len(words), words[n].w = "VECTOR"
  PROVE  /\ F[n] \in Nat \ {0} /\ F[n + 1] = F[n] + 3
         /\ iCode[F[n]] = Stmt(n) /\ F[n] \in DOMAIN iCode
         /\ Slides(Adr(F[n]), Adr(F[n] + 1))
         /\ iCode[F[n] + 1] = Cond(n) /\ F[n] + 1 \in DOMAIN iCode
         /\ iCode[F[n] + 2] = Do(n, "vector", LabelsOf(words[n])) /\ F[n] + 2 \in DOMAIN iCode
<1>1. Laid(words, iCode, F, H) /\ Len(words) \in Nat
  BY ReadyTypes
<1>2. F[n] \in Nat \ {0} /\ F[n + 1] \in Nat \ {0}
  BY <1>1, JumpItems
<1>3. PICK c : c = iCode
  OBVIOUS
<1>4. PICK f \in Nat \ {0} : f = F[n]
  BY <1>2
<1>5. Runs3(iCode, F[n], F[n + 1], Stmt(n), Cond(n), Do(n, "vector", LabelsOf(words[n])))
  BY <1>1, JumpItems
<1>6. /\ F[n + 1] = f + 3
      /\ c[f] = Stmt(n)
      /\ c[f + 1] = Cond(n)
      /\ c[f + 2] = Do(n, "vector", LabelsOf(words[n]))
  BY <1>3, <1>4, <1>5 DEF Runs3
<1>7. F[n + 1] = f + 3
  BY <1>6
<1>8. Passing(F, n, f) /\ Passing(F, n, f + 1) /\ Passing(F, n, f + 2)
  BY <1>4, <1>7, ItemsPass
<1>9. (f + 1) + 1 = f + 2 /\ (f + 2) + 1 = f + 3
  OBVIOUS
<1> QED BY <1>3, <1>4, <1>6, <1>8, <1>9 DEF Passing

\* of BREAK,
LEMMA BreakLaid ==
  ASSUME NEW F, NEW H, Ready(F, H), NEW n \in 1 .. Len(words), words[n].w = "BREAK"
  PROVE  /\ F[n] \in Nat \ {0} /\ F[n + 1] = F[n] + 2
         /\ iCode[F[n]] = Stmt(n) /\ F[n] \in DOMAIN iCode
         /\ Slides(Adr(F[n]), Adr(F[n] + 1))
         /\ iCode[F[n] + 1] = Go(n, "goto", H[n - 1].EBreak) /\ F[n] + 1 \in DOMAIN iCode
<1>1. Laid(words, iCode, F, H) /\ Len(words) \in Nat
  BY ReadyTypes
<1>2. F[n] \in Nat \ {0} /\ F[n + 1] \in Nat \ {0}
  BY <1>1, JumpItems
<1>3. PICK c : c = iCode
  OBVIOUS
<1>4. PICK f \in Nat \ {0} : f = F[n]
  BY <1>2
<1>5. Runs2(iCode, F[n], F[n + 1], Stmt(n), Go(n, "goto", H[n - 1].EBreak))
  BY <1>1, JumpItems
<1>6. F[n + 1] = f + 2 /\ c[f] = Stmt(n) /\ c[f + 1] = Go(n, "goto", H[n - 1].EBreak)
  BY <1>3, <1>4, <1>5 DEF Runs2
<1>7. F[n + 1] = f + 2
  BY <1>6
<1>8. Passing(F, n, f) /\ Passing(F, n, f + 1)
  BY <1>4, <1>7, ItemsPass
<1>9. (f + 1) + 1 = f + 2
  OBVIOUS
<1> QED BY <1>3, <1>4, <1>6, <1>8, <1>9 DEF Passing

\* of CONTINUE,
LEMMA ContinueLaid ==
  ASSUME NEW F, NEW H, Ready(F, H), NEW n \in 1 .. Len(words), words[n].w = "CONTINUE"
  PROVE  /\ F[n] \in Nat \ {0} /\ F[n + 1] = F[n] + 2
         /\ iCode[F[n]] = Stmt(n) /\ F[n] \in DOMAIN iCode
         /\ Slides(Adr(F[n]), Adr(F[n] + 1))
         /\ iCode[F[n] + 1] = Go(n, "goto", H[n - 1].EContinue) /\ F[n] + 1 \in DOMAIN iCode
<1>1. Laid(words, iCode, F, H) /\ Len(words) \in Nat
  BY ReadyTypes
<1>2. F[n] \in Nat \ {0} /\ F[n + 1] \in Nat \ {0}
  BY <1>1, JumpItems
<1>3. PICK c : c = iCode
  OBVIOUS
<1>4. PICK f \in Nat \ {0} : f = F[n]
  BY <1>2
<1>5. Runs2(iCode, F[n], F[n + 1], Stmt(n), Go(n, "goto", H[n - 1].EContinue))
  BY <1>1, JumpItems
<1>6. F[n + 1] = f + 2 /\ c[f] = Stmt(n) /\ c[f + 1] = Go(n, "goto", H[n - 1].EContinue)
  BY <1>3, <1>4, <1>5 DEF Runs2
<1>7. F[n + 1] = f + 2
  BY <1>6
<1>8. Passing(F, n, f) /\ Passing(F, n, f + 1)
  BY <1>4, <1>7, ItemsPass
<1>9. (f + 1) + 1 = f + 2
  OBVIOUS
<1> QED BY <1>3, <1>4, <1>6, <1>8, <1>9 DEF Passing

\* and of ENDP.
LEMMA EndPLaid ==
  ASSUME NEW F, NEW H, Ready(F, H), NEW n \in 1 .. Len(words), words[n].w = "ENDP", ~AfterReturn(words, n)
  PROVE  /\ F[n] \in Nat \ {0} /\ F[n + 1] = F[n] + 1
         /\ iCode[F[n]] = Do(n, "return", <<>>) /\ F[n] \in DOMAIN iCode
<1>1. Laid(words, iCode, F, H) /\ Len(words) \in Nat
  BY ReadyTypes
<1>2. F[n] \in Nat \ {0} /\ F[n + 1] \in Nat \ {0}
  BY <1>1, JumpItems
<1>3. PICK c : c = iCode
  OBVIOUS
<1>4. PICK f \in Nat \ {0} : f = F[n]
  BY <1>2
<1>5. Runs1(iCode, F[n], F[n + 1], Do(n, "return", <<>>))
  BY <1>1, JumpItems
<1>6. F[n + 1] = f + 1 /\ c[f] = Do(n, "return", <<>>)
  BY <1>3, <1>4, <1>5 DEF Runs1
<1>7. F[n + 1] = f + 1
  BY <1>6
<1>8. Passing(F, n, f)
  BY <1>4, <1>7, ItemsPass
<1> QED BY <1>3, <1>4, <1>6, <1>8 DEF Passing

\* The place after a word, and those before the end.
LEMMA LiveAfter ==
  ASSUME NEW F, NEW H, Ready(F, H), NEW n \in 1 .. Len(words), words[n].w \notin {"ENDP", "RETURN"}
  PROVE  Live(To(n + 1)) /\ n + 1 \in 1 .. Len(words)
<1>1. Whole(words) /\ Len(words) \in Nat /\ words[Len(words)].w = "ENDP" /\ ~LabelAfterReturn
  BY ReadyTypes DEF Ready
<1>2. Placed(To(n + 1)) /\ n + 1 \in 1 .. Len(words)
  BY <1>1, PlaceAfter
<1>3. SUFFICES ASSUME n + 1 = Len(words), AfterReturn(words, Len(words))
               PROVE  FALSE
  BY <1>2 DEF Live, To
<1>4. PICK m \in 1 .. Len(words) - 1 : words[m].w = "RETURN" /\ \A k \in m + 1 .. Len(words) - 1 : words[k].w = "LABEL"
  BY <1>3 DEF AfterReturn
<1>5. m # n
  BY <1>4
<1>6. m \in 1 .. Len(words) - 2
  BY <1>1, <1>3, <1>4, <1>5
<1> QED BY <1>1, <1>4, <1>6 DEF LabelAfterReturn

\* Places before ENDP are live.
LEMMA LiveBefore ==
  ASSUME NEW p, Placed(p), words[Len(words)].w = "ENDP",
         words[p.word].w # "ENDP" \/ p.test
  PROVE  Live(p)
BY DEF Live, Placed, Conditions

\* A slide to a later place tells the same.
LEMMA TellsSlide ==
  ASSUME NEW F, NEW p, NEW q, Slides(Adr(Spot(F, p)), Adr(Spot(F, q))), Rank(p) < Rank(q)
  PROVE  Tells(F, p, q)
BY DEF Slides, Tells, Reaches

-----------------------------------------------------------------------------
(* The steps of the source that the user does not see.                      *)

\* LABEL, EOS, DO and ENDIF.
LEMMA DownTells ==
  ASSUME NEW F, NEW H, Ready(F, H), NEW n \in 1 .. Len(words),
         words[n].w \in {"LABEL", "EOS", "DO", "ENDIF"}
  PROVE  Tells(F, To(n), To(n + 1)) /\ Live(To(n + 1))
<1>1. /\ Laid(words, iCode, F, H) /\ Len(words) \in Nat
  BY ReadyTypes
<1>2. /\ Live(To(n + 1)) /\ Rank(To(n)) < Rank(To(n + 1))
      /\ Spot(F, To(n)) = F[n] /\ Spot(F, To(n + 1)) = F[n + 1]
  <2>1. n \in Nat /\ n + 1 \in Nat
    BY <1>1
  <2> QED BY <2>1, LiveAfter, SpotIs
<1>3. F[n] \in Nat \ {0} /\ F[n + 1] \in Nat \ {0}
  BY <1>1, JumpItems
<1>4. Slides(Adr(F[n]), Adr(F[n + 1]))
  <2>1. CASE words[n].w = "LABEL"
    BY <2>1, LabelLaid DEF Slides
  <2>2. CASE words[n].w = "EOS"
    BY <2>2, EosLaid
  <2>3. CASE words[n].w = "DO"
    BY <2>3, DoLaid
  <2>4. CASE words[n].w = "ENDIF" /\ AfterElse(words, n)
    BY <2>4, EndIfElseLaid DEF Slides
  <2>5. CASE words[n].w = "ENDIF" /\ ~AfterElse(words, n)
    BY <2>5, EndIfLaid DEF Slides
  <2> QED BY <2>1, <2>2, <2>3, <2>4, <2>5
<1> QED BY <1>2, <1>4, TellsSlide

\* IF, WHILE and UNTIL come to their condition.
LEMMA ConditionTells ==
  ASSUME NEW F, NEW H, Ready(F, H), NEW n \in 1 .. Len(words),
         words[n].w \in {"IF", "WHILE", "UNTIL"}
  PROVE  Tells(F, To(n), Test(n)) /\ Live(Test(n))
<1>1. /\ Laid(words, iCode, F, H) /\ Len(words) \in Nat /\ words[Len(words)].w = "ENDP"
  BY ReadyTypes
<1>2. Placed(Test(n))
  BY PlaceOfTest DEF Conditions
<1>3. Live(Test(n))
  BY <1>1, <1>2, LiveBefore DEF Test
<1>4. /\ Rank(To(n)) < Rank(Test(n)) /\ Spot(F, To(n)) = F[n]
      /\ words[n].w \in {"IF", "UNTIL"} => Spot(F, Test(n)) = F[n] + 1
      /\ words[n].w = "WHILE" => Spot(F, Test(n)) = F[n] + 2
  <2>1. n \in Nat
    BY <1>1
  <2> QED BY <2>1, SpotIs
<1>5. F[n] \in Nat \ {0} /\ F[n + 1] \in Nat \ {0}
  BY <1>1, JumpItems
<1>6. Slides(Adr(F[n]), Adr(Spot(F, Test(n))))
  <2>1. CASE words[n].w = "IF"
    BY <1>4, <2>1, IfLaid
  <2>2. CASE words[n].w = "UNTIL"
    BY <1>4, <2>2, UntilLaid DEF Slides
  <2>3. CASE words[n].w = "WHILE"
    BY <1>4, <2>3, WhileLaid
  <2> QED BY <2>1, <2>2, <2>3
<1> QED BY <1>3, <1>4, <1>6, TellsSlide

-----------------------------------------------------------------------------
(* Where the jumps of a structure lead.                                     *)
LEMMA Aims ==
  /\ \A n : ClauseAfter(n) = ClauseIn(words, n)
  /\ \A n : LoopAround(n) = LoopIn(words, n)
  /\ \A n : LeastOf({k \in n + 1 .. Len(words) : words[k].w = "ENDIF" /\ Depth(k) = Depth(n)})
              = FinalIn(words, n)
<1>1. \A n : Depth(n) = DepthIn(words, n)
  BY DepthIs
<1>2. \A n : EndOf(n) = EndIn(words, n)
  BY EndOfIs
<1>3. ASSUME NEW n
      PROVE  ClauseAfter(n) = ClauseIn(words, n)
  <2>1. {k \in n + 1 .. Len(words) :
            /\ words[k].w \in {"ELSEIF", "ELSE", "ENDIF"}
            /\ Depth(k) = (IF words[n].w = "IF" THEN Depth(n) + 1 ELSE Depth(n))}
          = {k \in n + 1 .. Len(words) :
              /\ words[k].w \in {"ELSEIF", "ELSE", "ENDIF"}
              /\ DepthIn(words, k) = (IF words[n].w = "IF" THEN DepthIn(words, n) + 1 ELSE DepthIn(words, n))}
    BY <1>1, Zenon
  <2> QED BY <2>1, Zenon DEF ClauseAfter, ClauseIn
<1>4. ASSUME NEW n
      PROVE  LoopAround(n) = LoopIn(words, n)
  <2>1. {k \in 1 .. n - 1 : words[k].w \in {"DO", "WHILE"} /\ EndOf(k) > n}
          = {k \in 1 .. n - 1 : words[k].w \in {"DO", "WHILE"} /\ EndIn(words, k) > n}
    BY <1>2, Zenon
  <2> QED BY <2>1, Zenon DEF LoopAround, LoopIn
<1>5. ASSUME NEW n
      PROVE  LeastOf({k \in n + 1 .. Len(words) : words[k].w = "ENDIF" /\ Depth(k) = Depth(n)})
               = FinalIn(words, n)
  <2>1. {k \in n + 1 .. Len(words) : words[k].w = "ENDIF" /\ Depth(k) = Depth(n)}
          = {k \in n + 1 .. Len(words) : words[k].w = "ENDIF" /\ DepthIn(words, k) = DepthIn(words, n)}
    BY <1>1, Zenon
  <2> QED BY <2>1, Zenon DEF FinalIn
<1> QED BY <1>3, <1>4, <1>5

\* The start of a structure, as the source and the words have it.
LEMMA StartAims ==
  ASSUME Whole(words), NEW n \in 1 .. Len(words), words[n].w \in Closers
  PROVE  StartOf(n) = StartIn(words, n)
<1>1. n \in Nat \ {0} /\ Fits(words, n)
  BY DEF Whole, WellNestedIn
<1>2. GreatestOf({k \in 1 .. n - 1 : words[k].w \in Openers /\ DepthIn(words, k) = DepthIn(words, n) - 1})
        = GreatestOf(InsideIn(words, n))
  BY <1>1, StartFound
<1>3. {k \in 1 .. n - 1 : words[k].w \in Openers /\ Depth(k) = Depth(n) - 1}
        = {k \in 1 .. n - 1 : words[k].w \in Openers /\ DepthIn(words, k) = DepthIn(words, n) - 1}
  BY DepthIs, Zenon
<1> QED BY <1>2, <1>3, Zenon DEF StartOf, StartIn

\* A jump to a label that the structure opened at a (or an ELSEIF) owns.
LEMMA OwnSite ==
  ASSUME NEW F, NEW H, Ready(F, H), NEW a \in 1 .. Len(words), NEW o \in 0 .. 2,
         o < Needs(words[a].w), NEW x, x = H[a - 1].next + o,
         NEW m \in DOMAIN iCode, NEW n, NEW op \in {"goto", "brfalse"}, iCode[m] = Go(n, op, x)
  PROVE  LET j == Site(words, F, a, o) IN
         /\ InstructionAt(Adr(m)).op = op /\ DoGoto(InstructionAt(Adr(m))) = Adr(j)
         /\ op = "goto" => Passes(Adr(m), Adr(j))
<1>1. PICK j : j = Site(words, F, a, o)
  OBVIOUS
<1>2. IsSite(words, F, H, j, x)
  BY <1>1 DEF IsSite
<1> QED BY <1>1, <1>2, BranchToSite

\* A jump to a label of a known word arrives at its site.
LEMMA OwnGoto ==
  ASSUME NEW F, NEW H, Ready(F, H), NEW a \in 1 .. Len(words), NEW o \in 0 .. 2,
         o < Needs(words[a].w), NEW x, x = H[a - 1].next + o,
         NEW m \in DOMAIN iCode, NEW n, iCode[m] = Go(n, "goto", x)
  PROVE  Passes(Adr(m), Adr(Site(words, F, a, o)))
<1>1. PICK op : op = "goto"
  OBVIOUS
<1>2. op \in {"goto", "brfalse"} /\ iCode[m] = Go(n, op, x)
  BY <1>1
<1>3. PICK j : j = Site(words, F, a, o)
  OBVIOUS
<1>4. IsSite(words, F, H, j, x)
  BY <1>3 DEF IsSite
<1>5. op = "goto" => Passes(Adr(m), Adr(j))
  BY <1>2, <1>4, BranchToSite
<1> QED BY <1>1, <1>3, <1>5

\* What the loop or clause around a word has fixed.
LEMMA AroundClause ==
  ASSUME NEW F, NEW H, Ready(F, H), NEW n \in 1 .. Len(words),
         words[n].w \in {"ELSEIF", "ELSE"} \cup Closers
  PROVE  LET k == StartIn(words, n) IN
         /\ k \in 1 .. n - 1 /\ k \in 1 .. Len(words)
         /\ words[k].w = Opener(words[n].w) /\ SameExits(H[n - 1], H[k])
         /\ words[k].w = "IF" => H[n - 1].EExit = H[k - 1].next + 0
         /\ words[k].w \in {"DO", "WHILE"} => /\ H[n - 1].EContinue = H[k - 1].next + 0
                                              /\ H[n - 1].EBreak = H[k - 1].next + 1
<1>1. Whole(words) /\ Laid(words, iCode, F, H) /\ Len(words) \in Nat
  BY ReadyTypes
<1>2. PICK k : k = StartIn(words, n)
  OBVIOUS
<1>3. /\ InsideIn(words, n) # {} /\ k \in 1 .. n - 1 /\ words[k].w = Opener(words[n].w)
  BY <1>1, <1>2, StartOfClause
<1>4. k \in 1 .. Len(words) /\ n \in 1 .. Len(words) + 1
  BY <1>1, <1>3
<1>5. InForce(words, H, n)
  BY <1>1, <1>4, AllInForce
<1>6. SameExits(H[n - 1], H[k])
  BY <1>2, <1>3, <1>5 DEF InForce
<1>7. /\ words[k].w = "IF" => H[k].EExit = H[k - 1].next + 0
      /\ words[k].w \in {"DO", "WHILE"} =>
           H[k].EContinue = H[k - 1].next + 0 /\ H[k].EBreak = H[k - 1].next + 1
  BY <1>1, <1>4, OwnLabels
<1>8. words[k].w = "IF" => H[n - 1].EExit = H[k - 1].next + 0
  BY <1>6, <1>7 DEF SameExits
<1>9. words[k].w \in {"DO", "WHILE"} =>
        H[n - 1].EContinue = H[k - 1].next + 0 /\ H[n - 1].EBreak = H[k - 1].next + 1
  BY <1>6, <1>7 DEF SameExits
<1> QED BY <1>2, <1>3, <1>4, <1>6, <1>8, <1>9

\* ELSEIF and ELSE, reached from above, leave the IF.
LEMMA LeaveTells ==
  ASSUME NEW F, NEW H, Ready(F, H), NEW n \in 1 .. Len(words), words[n].w \in {"ELSEIF", "ELSE"}
  PROVE  Tells(F, To(n), To(FinalIn(words, n))) /\ Live(To(FinalIn(words, n)))
<1>1. Whole(words) /\ Laid(words, iCode, F, H) /\ Len(words) \in Nat /\ words[Len(words)].w = "ENDP"
  BY ReadyTypes
<1>2. PICK k : k = StartIn(words, n)
  OBVIOUS
<1>3. PICK e : e = FinalIn(words, n)
  OBVIOUS
<1>4. words[n].w \in {"ELSEIF", "ELSE"} \cup Closers /\ Opener(words[n].w) = "IF"
  BY DEF Opener
<1>5. k \in 1 .. Len(words) /\ words[k].w = "IF" /\ H[n - 1].EExit = H[k - 1].next + 0
  BY <1>2, <1>4, AroundClause
<1>6. e = EndIn(words, k) /\ words[e].w = "ENDIF" /\ e \in n + 1 .. Len(words) - 1
  BY <1>1, <1>2, <1>3, FinalIs
<1>7. e \in 1 .. Len(words) /\ e \in Nat /\ n \in Nat /\ e # Len(words)
  BY <1>1, <1>6
<1>8. iCode[F[n]] = Go(n, "goto", H[n - 1].EExit) /\ F[n] \in DOMAIN iCode
  <2>1. CASE words[n].w = "ELSEIF"
    BY <2>1, ElseIfLaid
  <2>2. CASE words[n].w = "ELSE"
    BY <2>2, ElseLaid
  <2> QED BY <2>1, <2>2
<1>9. 0 < Needs(words[k].w) /\ 0 \in 0 .. 2
  BY <1>5 DEF Needs
<1>10. Passes(Adr(F[n]), Adr(Site(words, F, k, 0)))
  BY <1>5, <1>8, <1>9, OwnGoto, Zenon
<1>11. Site(words, F, k, 0) = IF AfterElse(words, e) THEN F[e] ELSE F[e] + 1
  BY <1>5, <1>6 DEF Site
<1>12. Adr(Site(words, F, k, 0)) = Adr(F[e])
  <2>1. CASE AfterElse(words, e)
    BY <1>11, <2>1
  <2>2. CASE ~AfterElse(words, e)
    BY <1>6, <1>7, <1>11, <2>2, EndIfLaid
  <2> QED BY <2>1, <2>2
<1>13. Spot(F, To(n)) = F[n] /\ Spot(F, To(e)) = F[e]
  BY <1>7, SpotIs
<1>14. Live(To(e))
  BY <1>7 DEF Live, Placed, To
<1> QED BY <1>3, <1>10, <1>12, <1>13, <1>14 DEF Tells, Reaches

\* ENDWH returns to the condition.
LEMMA AgainTells ==
  ASSUME NEW F, NEW H, Ready(F, H), NEW n \in 1 .. Len(words), words[n].w = "ENDWH"
  PROVE  Tells(F, To(n), Test(StartIn(words, n))) /\ Live(Test(StartIn(words, n)))
<1>1. Whole(words) /\ Laid(words, iCode, F, H) /\ Len(words) \in Nat /\ words[Len(words)].w = "ENDP"
  BY ReadyTypes
<1>2. PICK k : k = StartIn(words, n)
  OBVIOUS
<1>4. words[n].w \in {"ELSEIF", "ELSE"} \cup Closers /\ Opener(words[n].w) = "WHILE"
  BY DEF Opener, Closers
<1>5. k \in 1 .. Len(words) /\ words[k].w = "WHILE" /\ H[n - 1].EContinue = H[k - 1].next + 0
  BY <1>2, <1>4, AroundClause
<1>7. k \in Nat /\ n \in Nat /\ k # Len(words)
  BY <1>1, <1>5
<1>8. iCode[F[n]] = Go(n, "goto", H[n - 1].EContinue) /\ F[n] \in DOMAIN iCode
  BY EndWhLaid
<1>9. 0 < Needs(words[k].w) /\ 0 \in 0 .. 2
  BY <1>5 DEF Needs
<1>10. Passes(Adr(F[n]), Adr(Site(words, F, k, 0)))
  BY <1>5, <1>8, <1>9, OwnGoto, Zenon
<1>11. Site(words, F, k, 0) = F[k] + 1
  BY <1>5 DEF Site
<1>12. Adr(F[k] + 2) = Adr(F[k] + 1)
  BY <1>5, WhileLaid
<1>13. Spot(F, To(n)) = F[n] /\ Spot(F, Test(k)) = F[k] + 2
  BY <1>5, <1>7, SpotIs
<1>14. Live(Test(k))
  BY <1>5, <1>7 DEF Live, Placed, Test, Conditions
<1> QED BY <1>2, <1>10, <1>11, <1>12, <1>13, <1>14 DEF Tells, Reaches

\* A loop has the labels that BREAK and CONTINUE take.
LEMMA AroundLoop ==
  ASSUME NEW F, NEW H, Ready(F, H), NEW n \in 1 .. Len(words), words[n].w \in {"BREAK", "CONTINUE"}
  PROVE  LET k == LoopIn(words, n) IN
         /\ k \in 1 .. Len(words) /\ words[k].w \in {"DO", "WHILE"}
         /\ H[n - 1].EContinue = H[k - 1].next + 0 /\ H[n - 1].EBreak = H[k - 1].next + 1
<1>1. Whole(words) /\ Laid(words, iCode, F, H) /\ Len(words) \in Nat
  BY ReadyTypes
<1>2. words[n].w \notin Closers
  BY DEF Closers
<1>3. PICK k : k = GreatestOf(LoopsIn(words, n)) /\ k = LoopIn(words, n)
  BY <1>1, <1>2, LoopsAre
<1>4. Fits(words, n)
  BY <1>1 DEF Whole, WellNestedIn
<1>5. LoopsIn(words, n) # {}
  BY <1>4 DEF Fits, LoopsIn
<1>6. LoopInForce(words, H, n)
  BY <1>1, LoopExits
<1>7. /\ k \in 1 .. n - 1 /\ words[k].w \in {"DO", "WHILE"}
      /\ H[n - 1].EBreak = H[k].EBreak /\ H[n - 1].EContinue = H[k].EContinue
  BY <1>3, <1>5, <1>6 DEF LoopInForce
<1>8. k \in 1 .. Len(words)
  BY <1>1, <1>7
<1>9. H[k].EContinue = H[k - 1].next + 0 /\ H[k].EBreak = H[k - 1].next + 1
  BY <1>1, <1>7, <1>8, OwnLabels
<1> QED BY <1>3, <1>7, <1>8, <1>9

\* BREAK goes behind the loop.
LEMMA BreakTells ==
  ASSUME NEW F, NEW H, Ready(F, H), NEW n \in 1 .. Len(words), words[n].w = "BREAK"
  PROVE  LET q == To(EndIn(words, LoopIn(words, n)) + 1) IN Tells(F, To(n), q) /\ Live(q)
<1>1. Whole(words) /\ Laid(words, iCode, F, H) /\ Len(words) \in Nat /\ words[Len(words)].w = "ENDP"
  BY ReadyTypes
<1>2. PICK k : k = LoopIn(words, n)
  OBVIOUS
<1>3. PICK e : e = EndIn(words, k)
  OBVIOUS
<1>4. k \in 1 .. Len(words) /\ words[k].w \in {"DO", "WHILE"} /\ H[n - 1].EBreak = H[k - 1].next + 1
  BY <1>2, AroundLoop
<1>5. words[k].w \in Openers
  BY <1>4 DEF Openers
<1>6. e \in k + 1 .. Len(words) - 1 /\ words[e].w \in Closers /\ Opener(words[e].w) = words[k].w
  BY <1>1, <1>3, <1>4, <1>5, EndFound
<1>7. /\ words[k].w = "DO" => words[e].w = "UNTIL"
      /\ words[k].w = "WHILE" => words[e].w = "ENDWH"
  BY <1>6 DEF Opener, Closers
<1>8. e \in 1 .. Len(words) /\ e \in Nat /\ n \in Nat /\ e + 1 \in Nat
  BY <1>1, <1>4, <1>6
<1>9. /\ iCode[F[n] + 1] = Go(n, "goto", H[n - 1].EBreak) /\ F[n] + 1 \in DOMAIN iCode
      /\ Slides(Adr(F[n]), Adr(F[n] + 1))
  BY BreakLaid
<1>10. 1 < Needs(words[k].w) /\ 1 \in 0 .. 2
  BY <1>4 DEF Needs
<1>11. Passes(Adr(F[n] + 1), Adr(Site(words, F, k, 1)))
  BY <1>4, <1>9, <1>10, OwnGoto, Zenon
<1>12. Adr(Site(words, F, k, 1)) = Adr(F[e + 1])
  <2>1. CASE words[k].w = "DO"
    <3>1. Site(words, F, k, 1) = F[e] + 3
      BY <1>3, <2>1 DEF Site
    <3> QED BY <1>7, <1>8, <2>1, <3>1, UntilLaid
  <2>2. CASE words[k].w = "WHILE"
    <3>1. Site(words, F, k, 1) = F[e] + 1
      BY <1>3, <2>2 DEF Site
    <3> QED BY <1>7, <1>8, <2>2, <3>1, EndWhLaid
  <2> QED BY <1>4, <2>1, <2>2
<1>13. Spot(F, To(n)) = F[n] /\ Spot(F, To(e + 1)) = F[e + 1]
  BY <1>8, SpotIs
<1>14. Live(To(e + 1))
  BY <1>4, <1>7, <1>8, LiveAfter
<1>15. Reaches(Adr(F[n]), Adr(F[e + 1]))
  BY <1>9, <1>11, <1>12, SlideAndPass
<1> QED BY <1>2, <1>3, <1>13, <1>14, <1>15 DEF Tells

\* CONTINUE goes to the condition of the loop.
LEMMA ContinueTells ==
  ASSUME NEW F, NEW H, Ready(F, H), NEW n \in 1 .. Len(words), words[n].w = "CONTINUE"
  PROVE  Tells(F, To(n), Continued(LoopIn(words, n))) /\ Live(Continued(LoopIn(words, n)))
<1>1. Whole(words) /\ Laid(words, iCode, F, H) /\ Len(words) \in Nat /\ words[Len(words)].w = "ENDP"
  BY ReadyTypes
<1>2. PICK k : k = LoopIn(words, n)
  OBVIOUS
<1>3. PICK e : e = EndIn(words, k)
  OBVIOUS
<1>4. k \in 1 .. Len(words) /\ words[k].w \in {"DO", "WHILE"} /\ H[n - 1].EContinue = H[k - 1].next + 0
  BY <1>2, AroundLoop
<1>5. words[k].w \in Openers
  BY <1>4 DEF Openers
<1>6. e \in k + 1 .. Len(words) - 1 /\ words[e].w \in Closers /\ Opener(words[e].w) = words[k].w
  BY <1>1, <1>3, <1>4, <1>5, EndFound
<1>7. words[k].w = "DO" => words[e].w = "UNTIL"
  BY <1>6 DEF Opener, Closers
<1>8. e \in 1 .. Len(words) /\ e \in Nat /\ n \in Nat /\ k \in Nat
  BY <1>1, <1>4, <1>6
<1>9. /\ iCode[F[n] + 1] = Go(n, "goto", H[n - 1].EContinue) /\ F[n] + 1 \in DOMAIN iCode
      /\ Slides(Adr(F[n]), Adr(F[n] + 1))
  BY ContinueLaid
<1>10. 0 < Needs(words[k].w) /\ 0 \in 0 .. 2
  BY <1>4 DEF Needs
<1>11. Passes(Adr(F[n] + 1), Adr(Site(words, F, k, 0)))
  BY <1>4, <1>9, <1>10, OwnGoto, Zenon
<1>12. Spot(F, To(n)) = F[n]
  BY <1>8, SpotIs
<1>13. \E c : c = Continued(k) /\ Live(c) /\ Adr(Site(words, F, k, 0)) = Adr(Spot(F, c))
  <2>1. CASE words[k].w = "DO"
    <3>1. Site(words, F, k, 0) = F[e]
      BY <1>3, <2>1 DEF Site
    <3>2. Continued(k) = Test(e)
      BY <1>3, <2>1, EndOfIs DEF Continued
    <3>3. Spot(F, Test(e)) = F[e] + 1
      BY <1>7, <1>8, <2>1, SpotIs
    <3>4. Adr(F[e] + 1) = Adr(F[e])
      BY <1>7, <1>8, <2>1, UntilLaid
    <3>5. Live(Test(e))
      BY <1>1, <1>7, <1>8, <2>1 DEF Live, Placed, Test, Conditions
    <3> QED BY <3>1, <3>2, <3>3, <3>4, <3>5
  <2>2. CASE words[k].w = "WHILE"
    <3>1. Site(words, F, k, 0) = F[k] + 1
      BY <1>3, <2>2 DEF Site
    <3>2. Continued(k) = Test(k)
      BY <2>2 DEF Continued
    <3>3. Spot(F, Test(k)) = F[k] + 2
      BY <1>8, <2>2, SpotIs
    <3>4. Adr(F[k] + 2) = Adr(F[k] + 1)
      BY <1>4, <2>2, WhileLaid
    <3>5. Live(Test(k))
      BY <1>1, <1>4, <2>2 DEF Live, Placed, Test, Conditions
    <3> QED BY <3>1, <3>2, <3>3, <3>4, <3>5
  <2> QED BY <1>4, <2>1, <2>2
<1>14. PICK c : c = Continued(k) /\ Live(c) /\ Adr(Site(words, F, k, 0)) = Adr(Spot(F, c))
  BY <1>13
<1>15. Reaches(Adr(F[n]), Adr(Spot(F, c)))
  BY <1>9, <1>11, <1>14, SlideAndPass
<1> QED BY <1>2, <1>12, <1>14, <1>15 DEF Tells

\* The label that a word names.
LEMMA LabelStands ==
  ASSUME NEW F, NEW H, Ready(F, H), NEW n \in 1 .. Len(words),
         words[n].w \in {"GOTO", "ONERR", "VECTOR"}, NEW k \in DOMAIN words[n].ls
  PROVE  LET m == LabelPlace(words[n].ls[k]) IN
         /\ m \in 1 .. Len(words) /\ words[m].w = "LABEL"
         /\ F[m] \in DOMAIN iCode /\ Defines(iCode[F[m]], UserLabel(words[n].ls[k]))
         /\ Live(To(m)) /\ Spot(F, To(m)) = F[m]
<1>1. Whole(words) /\ Procedure(words, iCode, F, H) /\ Len(words) \in Nat /\ words[Len(words)].w = "ENDP"
      /\ words \in Seq(Word) /\ DOMAIN words = 1 .. Len(words)
  BY ReadyTypes DEF Ready
<1>2. PICK l : l = words[n].ls[k]
  OBVIOUS
<1>3. \E m \in DOMAIN words : words[m].w = "LABEL" /\ words[m].ls = <<l>>
  <2>1. \E m \in 1 .. Len(words) : words[m].w = "LABEL" /\ words[m].ls[1] = l
    BY <1>1, <1>2 DEF Whole, FoundIn, LabelOf
  <2>2. PICK m \in 1 .. Len(words) : words[m].w = "LABEL" /\ words[m].ls[1] = l
    BY <2>1
  <2>3. words[m] \in Word
    BY <1>1
  <2>4. words[m].ls = <<words[m].ls[1]>>
    BY <2>2, <2>3, LabelWords
  <2> QED BY <1>1, <2>2, <2>4
<1>4. PICK m : m = LabelPlace(l)
  OBVIOUS
<1>5. m \in DOMAIN words /\ words[m].w = "LABEL" /\ words[m].ls = <<l>>
  BY <1>3, <1>4 DEF LabelPlace
<1>6. m \in 1 .. Len(words) /\ m \in Nat /\ words[m].ls[1] = l /\ m # Len(words)
  BY <1>1, <1>5
<1>7. F[m] \in DOMAIN iCode /\ Defines(iCode[F[m]], UserLabel(l))
  BY <1>1, <1>5, <1>6, UserSet
<1>8. Live(To(m))
  BY <1>6 DEF Live, Placed, To
<1>9. Spot(F, To(m)) = F[m]
  BY <1>6, SpotIs
<1> QED BY <1>2, <1>4, <1>5, <1>6, <1>7, <1>8, <1>9

\* GOTO goes to its label.
LEMMA GotoTells ==
  ASSUME NEW F, NEW H, Ready(F, H), NEW n \in 1 .. Len(words), words[n].w = "GOTO"
  PROVE  LET q == To(LabelPlace(words[n].ls[1])) IN Tells(F, To(n), q) /\ Live(q)
<1>1. words \in Seq(Word) /\ Len(words) \in Nat
  BY ReadyTypes
<1>2. words[n] \in Word
  BY <1>1
<1>3. PICK ls : ls = words[n].ls
  OBVIOUS
<1>4. ls = <<ls[1]>>
  BY <1>2, <1>3, LabelWords
<1>5. 1 \in DOMAIN ls
  BY <1>4
<1>6. LabelsOf(words[n]) = <<UserLabel(ls[1])>>
  <2>1. PICK l : l = ls[1]
    OBVIOUS
  <2>2. words[n].ls = <<l>>
    BY <1>3, <1>4, <2>1
  <2> QED BY <2>1, <2>2 DEF LabelsOf
<1>7. PICK m : m = LabelPlace(ls[1])
  OBVIOUS
<1>8. /\ F[m] \in DOMAIN iCode /\ Defines(iCode[F[m]], UserLabel(ls[1]))
      /\ Live(To(m)) /\ Spot(F, To(m)) = F[m]
  BY <1>3, <1>5, <1>7, LabelStands
<1>9. /\ iCode[F[n] + 1] = Do(n, "goto", LabelsOf(words[n])) /\ F[n] + 1 \in DOMAIN iCode
      /\ Slides(Adr(F[n]), Adr(F[n] + 1))
  BY GotoLaid
<1>10. iCode[F[n] + 1].op = "goto" /\ iCode[F[n] + 1].to = <<UserLabel(ls[1])>>
  BY <1>6, <1>9 DEF Do
<1>11. Passes(Adr(F[n] + 1), Adr(F[m]))
  BY <1>8, <1>9, <1>10, BranchGoes
<1>12. Spot(F, To(n)) = F[n]
  <2>1. n \in Nat
    BY <1>1
  <2> QED BY <2>1, SpotIs
<1>13. Reaches(Adr(F[n]), Adr(F[m]))
  BY <1>9, <1>11, SlideAndPass
<1> QED BY <1>3, <1>7, <1>8, <1>12, <1>13 DEF Tells

-----------------------------------------------------------------------------
\* ENDP is the last word.
LEMMA EndPLast ==
  ASSUME NEW F, NEW H, Ready(F, H), NEW n \in 1 .. Len(words), words[n].w = "ENDP"
  PROVE  n = Len(words)
<1>1. NoEndP(words, Len(words) - 1) /\ Len(words) \in Nat \ {0}
  BY ReadyTypes DEF Ready, Procedure
<1>2. n \notin 1 .. Len(words) - 1
  BY <1>1 DEF NoEndP
<1> QED BY <1>1, <1>2

(* A step of the source: the user sees where it stands, or the code follows. *)
Visible(p) == p.test \/ words[p.word].w \in {"S", "ONERR", "VECTOR", "RETURN", "ENDP"}
ShownSpot(F, p) ==
  IF p.test THEN Spot(F, p) ELSE IF words[p.word].w = "ENDP" THEN F[p.word] ELSE F[p.word] + 1
ShownAt(p) ==
  LET w == words[p.word].w IN
  CASE p.test \/ w = "VECTOR" -> [op |-> "cond", word |-> p.word]
    [] w = "S" /\ ~p.test -> [op |-> "S", word |-> p.word]
    [] w = "ONERR" /\ ~p.test -> [op |-> "onerr", word |-> p.word]
    [] w \in {"RETURN", "ENDP"} /\ ~p.test -> [op |-> "return", word |-> p.word]
    [] OTHER -> [op |-> "loops", word |-> 0]

\* What the source shows is what its place shows.
LEMMA ShowsNow == SourceShows = ShownAt(SourceNow)
BY Zenon DEF SourceShows, ShownAt

\* The words there are.
LEMMA WordNames ==
  ASSUME NEW wd \in Word
  PROVE  wd.w \in {"S", "EOS", "IF", "ELSEIF", "ELSE", "ENDIF", "DO", "UNTIL", "WHILE", "ENDWH",
                   "BREAK", "CONTINUE", "RETURN", "ENDP", "LABEL", "GOTO", "ONERR", "VECTOR"}
BY DEF Word, Plain

\* A place is a word or its condition.
LEMMA PlaceIs ==
  ASSUME NEW p, Placed(p)
  PROVE  /\ p.word \in 1 .. Len(words) /\ p.test \in BOOLEAN
         /\ ~p.test => p = To(p.word)
         /\ p.test => p = Test(p.word) /\ words[p.word].w \in Conditions
BY DEF Placed, To, Test

\* Where the source goes from a word that is not seen.
LEMMA StepIs ==
  ASSUME NEW n
  PROVE  LET w == words[n].w
             q == SourceStep(To(n)) IN
         /\ w \in {"LABEL", "EOS", "DO", "ENDIF"} => q = To(n + 1)
         /\ w \in {"IF", "WHILE", "UNTIL"} => q = Test(n)
         /\ w \in {"ELSEIF", "ELSE"} => q = To(FinalIn(words, n))
         /\ w = "ENDWH" => q = Test(StartOf(n))
         /\ w = "BREAK" => q = To(EndIn(words, LoopIn(words, n)) + 1)
         /\ w = "CONTINUE" => q = Continued(LoopIn(words, n))
         /\ w = "GOTO" => q = To(LabelPlace(words[n].ls[1]))
<1>1. To(n).word = n /\ To(n).test = FALSE
  BY DEF To
<1>2. PICK a : a = LeastOf({k \in n + 1 .. Len(words) : words[k].w = "ENDIF" /\ Depth(k) = Depth(n)})
  OBVIOUS
<1>3. PICK b : b = To(EndOf(LoopAround(n)) + 1)
  OBVIOUS
<1>4. PICK c : c = Continued(LoopAround(n))
  OBVIOUS
<1>5. a = FinalIn(words, n) /\ b = To(EndIn(words, LoopIn(words, n)) + 1) /\ c = Continued(LoopIn(words, n))
  BY <1>2, <1>3, <1>4, Aims, EndOfIs
<1>6. PICK w : w = words[n].w
  OBVIOUS
<1>7. PICK g : g = To(LabelPlace(words[n].ls[1]))
  OBVIOUS
<1>8. SourceStep(To(n)) =
        CASE FALSE \/ w \in {"S", "ONERR", "VECTOR", "RETURN", "ENDP"} -> To(n)
          [] w \in {"LABEL", "EOS", "DO", "ENDIF"} /\ ~FALSE -> To(n + 1)
          [] w \in {"IF", "WHILE", "UNTIL"} /\ ~FALSE -> Test(n)
          [] w \in {"ELSEIF", "ELSE"} /\ ~FALSE -> To(a)
          [] w = "ENDWH" -> Test(StartOf(n))
          [] w = "BREAK" -> b
          [] w = "CONTINUE" -> c
          [] w = "GOTO" -> g
  BY <1>1, <1>2, <1>3, <1>4, <1>6, <1>7, Zenon DEF SourceStep
<1>9. /\ w \in {"LABEL", "EOS", "DO", "ENDIF"} => SourceStep(To(n)) = To(n + 1)
      /\ w \in {"IF", "WHILE", "UNTIL"} => SourceStep(To(n)) = Test(n)
      /\ w \in {"ELSEIF", "ELSE"} => SourceStep(To(n)) = To(a)
      /\ w = "ENDWH" => SourceStep(To(n)) = Test(StartOf(n))
      /\ w = "BREAK" => SourceStep(To(n)) = b
      /\ w = "CONTINUE" => SourceStep(To(n)) = c
      /\ w = "GOTO" => SourceStep(To(n)) = g
  BY <1>8
<1> QED BY <1>5, <1>6, <1>7, <1>9

\* A step of the source that shows nothing is made by the code too.
LEMMA StepTells ==
  ASSUME NEW F, NEW H, Ready(F, H), NEW p, Live(p), ~Visible(p)
  PROVE  Tells(F, p, SourceStep(p)) /\ Live(SourceStep(p))
<1>1. Whole(words) /\ words \in Seq(Word) /\ Len(words) \in Nat
  BY ReadyTypes
<1>2. PICK n \in 1 .. Len(words) : n = p.word
  BY PlaceIs DEF Live
<1>3. p = To(n) /\ p.test = FALSE
  BY <1>2, PlaceIs DEF Live, Visible
<1>4. words[n] \in Word
  BY <1>1
<1>5. words[n].w \in {"EOS", "IF", "ELSEIF", "ELSE", "ENDIF", "DO", "UNTIL", "WHILE", "ENDWH",
                      "BREAK", "CONTINUE", "LABEL", "GOTO"}
  BY <1>2, <1>4, WordNames DEF Visible
<1>6. PICK q : q = SourceStep(To(n))
  OBVIOUS
<1>7. Tells(F, To(n), q) /\ Live(q)
  <2>1. CASE words[n].w \in {"LABEL", "EOS", "DO", "ENDIF"}
    <3>1. q = To(n + 1)
      BY <1>6, <2>1, StepIs
    <3> QED BY <2>1, <3>1, DownTells
  <2>2. CASE words[n].w \in {"IF", "WHILE", "UNTIL"}
    <3>1. q = Test(n)
      BY <1>6, <2>2, StepIs
    <3> QED BY <2>2, <3>1, ConditionTells
  <2>3. CASE words[n].w \in {"ELSEIF", "ELSE"}
    <3>1. q = To(FinalIn(words, n))
      BY <1>6, <2>3, StepIs
    <3> QED BY <2>3, <3>1, LeaveTells
  <2>4. CASE words[n].w = "ENDWH"
    <3>1. q = Test(StartOf(n))
      BY <1>6, <2>4, StepIs
    <3>2. StartOf(n) = StartIn(words, n)
      BY <1>1, <2>4, StartAims DEF Closers
    <3> QED BY <2>4, <3>1, <3>2, AgainTells
  <2>5. CASE words[n].w = "BREAK"
    <3>1. q = To(EndIn(words, LoopIn(words, n)) + 1)
      BY <1>6, <2>5, StepIs
    <3> QED BY <2>5, <3>1, BreakTells
  <2>6. CASE words[n].w = "CONTINUE"
    <3>1. q = Continued(LoopIn(words, n))
      BY <1>6, <2>6, StepIs
    <3> QED BY <2>6, <3>1, ContinueTells
  <2>7. CASE words[n].w = "GOTO"
    <3>1. q = To(LabelPlace(words[n].ls[1]))
      BY <1>6, <2>7, StepIs
    <3> QED BY <2>7, <3>1, GotoTells
  <2> QED BY <1>5, <2>1, <2>2, <2>3, <2>4, <2>5, <2>6, <2>7
<1> QED BY <1>3, <1>6, <1>7

\* A place with something to show is not left.
LEMMA VisibleStays ==
  ASSUME NEW p, Placed(p), Visible(p)
  PROVE  SourceStep(p) = p
<1>1. p.test => words[p.word].w \in Conditions
  BY PlaceIs
<1>2. PICK n, w : n = p.word /\ w = words[n].w
  OBVIOUS
<1>3. PICK a : a = LeastOf({k \in n + 1 .. Len(words) : words[k].w = "ENDIF" /\ Depth(k) = Depth(n)})
  OBVIOUS
<1>4. SourceStep(p) =
        CASE p.test \/ w \in {"S", "ONERR", "VECTOR", "RETURN", "ENDP"} -> p
          [] w \in {"LABEL", "EOS", "DO", "ENDIF"} /\ ~p.test -> To(n + 1)
          [] w \in {"IF", "WHILE", "UNTIL"} /\ ~p.test -> Test(n)
          [] w \in {"ELSEIF", "ELSE"} /\ ~p.test -> To(a)
          [] w = "ENDWH" -> Test(StartOf(n))
          [] w = "BREAK" -> To(EndOf(LoopAround(n)) + 1)
          [] w = "CONTINUE" -> Continued(LoopAround(n))
          [] w = "GOTO" -> To(LabelPlace(words[n].ls[1]))
  BY <1>2, <1>3, Zenon DEF SourceStep
<1>5. CASE p.test
  <2>1. w \in {"IF", "ELSEIF", "WHILE", "UNTIL"}
    BY <1>1, <1>2, <1>5 DEF Conditions
  <2> QED BY <1>4, <1>5, <2>1
<1>6. CASE ~p.test
  <2>1. w \in {"S", "ONERR", "VECTOR", "RETURN", "ENDP"}
    BY <1>2, <1>6 DEF Visible
  <2> QED BY <1>4, <1>6, <2>1
<1> QED BY <1>5, <1>6

-----------------------------------------------------------------------------
(* What the user sees at a place is what the code there shows.              *)
Shows(F, p) ==
  LET s == ShownSpot(F, p) IN
  /\ s \in DOMAIN iCode /\ Slides(Adr(Spot(F, p)), Adr(s))
  /\ iCode[s].op \in {"S", "return", "cond", "onerr"} /\ iCode[s].word = p.word
  /\ ShownAt(p) = [op |-> iCode[s].op, word |-> p.word]

\* At a condition the code is about to show the condition.
LEMMA TestShows ==
  ASSUME NEW F, NEW H, Ready(F, H), NEW n \in 1 .. Len(words), words[n].w \in Conditions
  PROVE  Shows(F, Test(n)) /\ iCode[Spot(F, Test(n))] = Cond(n) /\ ShownSpot(F, Test(n)) = Spot(F, Test(n))
<1>1. Test(n).word = n /\ Test(n).test = TRUE /\ n \in Nat
  BY ReadyTypes DEF Test
<1>2. PICK s : s = Spot(F, Test(n))
  OBVIOUS
<1>3. ShownSpot(F, Test(n)) = s
  BY <1>1, <1>2 DEF ShownSpot
<1>4. s \in DOMAIN iCode /\ iCode[s] = Cond(n)
  <2>1. CASE words[n].w = "IF"
    <3>1. s = F[n] + 1
      BY <1>1, <1>2, <2>1, SpotIs
    <3> QED BY <2>1, <3>1, IfLaid
  <2>2. CASE words[n].w = "UNTIL"
    <3>1. s = F[n] + 1
      BY <1>1, <1>2, <2>2, SpotIs
    <3> QED BY <2>2, <3>1, UntilLaid
  <2>3. CASE words[n].w = "WHILE"
    <3>1. s = F[n] + 2
      BY <1>1, <1>2, <2>3, SpotIs
    <3> QED BY <2>3, <3>1, WhileLaid
  <2>4. CASE words[n].w = "ELSEIF"
    <3>1. s = F[n] + 2
      BY <1>1, <1>2, <2>4, SpotIs
    <3> QED BY <2>4, <3>1, ElseIfLaid
  <2> QED BY <2>1, <2>2, <2>3, <2>4 DEF Conditions
<1>5. iCode[s].op = "cond" /\ iCode[s].word = n
  BY <1>4 DEF Cond, Do
<1>6. ShownAt(Test(n)) = [op |-> "cond", word |-> n]
  BY <1>1 DEF ShownAt
<1>7. Shows(F, Test(n))
  <2>1. Slides(Adr(s), Adr(s))
    BY DEF Slides
  <2> QED BY <1>1, <1>2, <1>3, <1>4, <1>5, <1>6, <2>1 DEF Shows
<1> QED BY <1>2, <1>3, <1>4, <1>7

\* At a word with something to show the code comes to show it.
LEMMA ToShows ==
  ASSUME NEW F, NEW H, Ready(F, H), NEW n \in 1 .. Len(words), Live(To(n)), Visible(To(n))
  PROVE  Shows(F, To(n))
<1>1. To(n).word = n /\ To(n).test = FALSE /\ n \in Nat
  BY ReadyTypes DEF To
<1>2. words[n].w \in {"S", "ONERR", "VECTOR", "RETURN", "ENDP"}
  BY <1>1 DEF Visible
<1>3. PICK s : s = ShownSpot(F, To(n))
  OBVIOUS
<1>4. Spot(F, To(n)) = F[n]
  BY <1>1, SpotIs
<1>5. CASE words[n].w = "ENDP"
  <2>1. s = F[n]
    BY <1>1, <1>3, <1>5 DEF ShownSpot
  <2>2. n = Len(words)
    BY <1>5, EndPLast
  <2>3. ~AfterReturn(words, n)
    BY <1>1, <2>2 DEF Live
  <2>4. iCode[s] = Do(n, "return", <<>>) /\ s \in DOMAIN iCode
    BY <1>5, <2>1, <2>3, EndPLaid
  <2>5. iCode[s].op = "return" /\ iCode[s].word = n
    BY <2>4 DEF Do
  <2>6. ShownAt(To(n)) = [op |-> "return", word |-> n]
    BY <1>1, <1>5 DEF ShownAt
  <2>7. Slides(Adr(F[n]), Adr(s))
    BY <2>1 DEF Slides
  <2> QED BY <1>1, <1>3, <1>4, <2>4, <2>5, <2>6, <2>7 DEF Shows
<1>6. CASE words[n].w # "ENDP"
  <2>1. s = F[n] + 1
    BY <1>1, <1>3, <1>6 DEF ShownSpot
  <2>2. s \in DOMAIN iCode /\ Slides(Adr(F[n]), Adr(s))
    BY <1>2, <1>6, <2>1, SLaid, OnErrLaid, VectorLaid, ReturnLaid
  <2>3. /\ words[n].w = "S" => iCode[s] = Do(n, "S", <<>>)
        /\ words[n].w = "ONERR" => iCode[s] = Do(n, "onerr", LabelsOf(words[n]))
        /\ words[n].w = "VECTOR" => iCode[s] = Cond(n)
        /\ words[n].w = "RETURN" => iCode[s] = Do(n, "return", <<>>)
    BY <2>1, SLaid, OnErrLaid, VectorLaid, ReturnLaid
  <2>4. /\ iCode[s].op \in {"S", "return", "cond", "onerr"} /\ iCode[s].word = n
        /\ words[n].w = "S" => iCode[s].op = "S"
        /\ words[n].w = "ONERR" => iCode[s].op = "onerr"
        /\ words[n].w = "VECTOR" => iCode[s].op = "cond"
        /\ words[n].w = "RETURN" => iCode[s].op = "return"
    BY <1>2, <1>6, <2>3 DEF Do, Cond
  <2>5. ShownAt(To(n)) = [op |-> iCode[s].op, word |-> n]
    BY <1>1, <1>2, <1>6, <2>4 DEF ShownAt
  <2> QED BY <1>1, <1>3, <1>4, <2>2, <2>4, <2>5 DEF Shows
<1> QED BY <1>5, <1>6

-----------------------------------------------------------------------------
(* A walk of so many steps that it comes back to where it was.              *)
Walks(f, G, n) == \A i \in 0 .. n - 1 : f[i + 1] = G[f[i]]

\* A walk stays in a set that its steps do not leave.
LEMMA WalkInto ==
  ASSUME NEW n \in Nat, NEW f, NEW X, f[0] \in X,
         \A i \in 0 .. n - 1 : f[i] \in X => f[i + 1] \in X
  PROVE  \A i \in 0 .. n : f[i] \in X
<1> DEFINE T == {k \in 0 .. n : f[k] \notin X}
<1>1. SUFFICES ASSUME T # {} PROVE FALSE
  OBVIOUS
<1>2. PICK m \in T : \A k \in T : m <= k
  <2>1. T \in SUBSET Nat
    OBVIOUS
  <2> HIDE DEF T
  <2> QED BY <1>1, <2>1, SomeLeast
<1>3. m # 0 /\ m - 1 \in 0 .. n - 1
  BY <1>2
<1>4. m - 1 \notin T
  BY <1>2, <1>3
<1>5. f[m - 1] \in X
  BY <1>3, <1>4
<1>6. f[(m - 1) + 1] \in X /\ (m - 1) + 1 = m
  BY <1>3, <1>5
<1> QED BY <1>2, <1>6

\* After a repetition a walk meets nothing new.
LEMMA WalkRepeats ==
  ASSUME NEW n \in Nat, NEW f, NEW i \in 0 .. n, NEW j \in 0 .. n, i < j, f[i] = f[j],
         NEW G, Walks(f, G, n)
  PROVE  \A m \in 0 .. n : \E k \in 0 .. n - 1 : f[m] = f[k]
<1> DEFINE T == {m \in j .. n : ~\E k \in i .. j - 1 : f[m] = f[k]}
<1>1. T = {}
  <2>1. SUFFICES ASSUME T # {} PROVE FALSE
    OBVIOUS
  <2>2. PICK m \in T : \A k \in T : m <= k
    <3>1. T \in SUBSET Nat
      OBVIOUS
    <3> HIDE DEF T
    <3> QED BY <2>1, <3>1, SomeLeast
  <2>3. m # j
    <3>1. i \in i .. j - 1
      OBVIOUS
    <3> QED BY <2>2, <3>1
  <2>4. m - 1 \in j .. n /\ m - 1 \notin T /\ m - 1 \in 0 .. n - 1 /\ (m - 1) + 1 = m
    BY <2>2, <2>3
  <2>5. PICK k \in i .. j - 1 : f[m - 1] = f[k]
    BY <2>4
  <2>6. k \in 0 .. n - 1
    OBVIOUS
  <2>7. f[m] = f[k + 1]
    <3>1. f[k + 1] = G[f[k]]
      BY <2>6 DEF Walks
    <3>2. f[(m - 1) + 1] = G[f[m - 1]]
      BY <2>4 DEF Walks
    <3> QED BY <2>4, <2>5, <3>1, <3>2
  <2>8. CASE k + 1 = j
    <3>1. i \in i .. j - 1 /\ f[m] = f[i]
      BY <2>7, <2>8
    <3> QED BY <2>2, <3>1
  <2>9. CASE k + 1 # j
    <3>1. k + 1 \in i .. j - 1
      BY <2>9
    <3> QED BY <2>2, <2>7, <3>1
  <2> QED BY <2>8, <2>9
<1>2. TAKE m \in 0 .. n
<1>3. CASE m \in j .. n
  <2>1. \E k \in i .. j - 1 : f[m] = f[k]
    BY <1>1, <1>3
  <2>2. \A k \in i .. j - 1 : k \in 0 .. n - 1
    OBVIOUS
  <2> QED BY <2>1, <2>2
<1>4. CASE m \notin j .. n
  <2>1. m \in 0 .. n - 1
    BY <1>4
  <2> QED BY <2>1
<1> QED BY <1>3, <1>4

\* A walk longer than there are places repeats one.
LEMMA Pigeons ==
  ASSUME NEW n \in Nat, NEW T, IsFiniteSet(T), Cardinality(T) <= n, NEW g \in [0 .. n -> T]
  PROVE  \E i, j \in 0 .. n : i < j /\ g[i] = g[j]
<1>1. IsFiniteSet(0 .. n) /\ Cardinality(0 .. n) = n + 1
  <2>1. 0 \in Int /\ n \in Int
    OBVIOUS
  <2>2. IsFiniteSet(0 .. n) /\ Cardinality(0 .. n) = IF 0 > n THEN 0 ELSE n - 0 + 1
    BY <2>1, FS_Interval
  <2> QED BY <2>2
<1>2. Cardinality(T) < Cardinality(0 .. n)
  <2>1. Cardinality(T) \in Nat
    BY FS_CardinalityType
  <2> QED BY <1>1, <2>1
<1>3. PICK x, y \in 0 .. n : x # y /\ g[x] = g[y]
  BY <1>1, <1>2, FS_PigeonHole
<1>4. x < y \/ y < x
  BY <1>3
<1> QED BY <1>3, <1>4

\* The places of a walk are closed once it repeats one or stops at the end.
LEMMA WalkClosed ==
  ASSUME NEW n \in Nat, NEW f, NEW G, Walks(f, G, n),
         \/ \E i, j \in 0 .. n : i < j /\ f[i] = f[j]
         \/ G[f[n]] = f[n]
  PROVE  \A m \in 0 .. n : \E k \in 0 .. n : G[f[m]] = f[k]
<1>1. \A m \in 0 .. n - 1 : m + 1 \in 0 .. n /\ G[f[m]] = f[m + 1]
  BY DEF Walks
<1>2. CASE G[f[n]] = f[n]
  <2>1. \A m \in 0 .. n : m = n \/ m \in 0 .. n - 1
    OBVIOUS
  <2> QED BY <1>1, <1>2, <2>1
<1>3. CASE \E i, j \in 0 .. n : i < j /\ f[i] = f[j]
  <2>1. PICK i \in 0 .. n, j \in 0 .. n : i < j /\ f[i] = f[j]
    BY <1>3
  <2>2. \A m \in 0 .. n : \E k \in 0 .. n - 1 : f[m] = f[k]
    BY <2>1, WalkRepeats
  <2>3. TAKE m \in 0 .. n
  <2>4. PICK k \in 0 .. n - 1 : f[m] = f[k]
    BY <2>2
  <2>5. G[f[m]] = f[k + 1] /\ k + 1 \in 0 .. n
    BY <1>1, <2>4
  <2> QED BY <2>5
<1> QED BY <1>2, <1>3

\* A walk stays where it comes to rest.
LEMMA WalkRests ==
  ASSUME NEW n \in Nat, NEW f, NEW G, Walks(f, G, n),
         NEW m \in 0 .. n, G[f[m]] = f[m]
  PROVE  f[n] = f[m]
<1> DEFINE T == {k \in m .. n : f[k] # f[m]}
<1>1. SUFFICES ASSUME T # {} PROVE FALSE
  OBVIOUS
<1>2. PICK k \in T : \A j \in T : k <= j
  <2>1. T \in SUBSET Nat
    OBVIOUS
  <2> HIDE DEF T
  <2> QED BY <1>1, <2>1, SomeLeast
<1>3. k # m
  BY <1>2
<1>4. k - 1 \in m .. n /\ k - 1 \notin T /\ k - 1 \in 0 .. n - 1 /\ (k - 1) + 1 = k
  BY <1>2, <1>3
<1>5. f[k - 1] = f[m] /\ f[k] = G[f[k - 1]]
  BY <1>4 DEF Walks
<1> QED BY <1>2, <1>5

-----------------------------------------------------------------------------
(* The addresses the code passes, and the places of the source.             *)
CodeOrbit(R) ==
  /\ ip \in R /\ CodeNow \in R /\ \A a \in R : CodeStep(a) \in R
  /\ \A a \in R : CodeStep(a) = a => CodeNow = a
  /\ \A X : ip \in X /\ (\A a \in X : CodeStep(a) \in X) => R \subseteq X
SourceOrbit(R) ==
  /\ at \in R /\ SourceNow \in R /\ \A p \in R : SourceStep(p) \in R
  /\ \A p \in R : SourceStep(p) = p => SourceNow = p
  /\ \A X : at \in X /\ (\A p \in X : SourceStep(p) \in X) => R \subseteq X

\* The walk of the code has an orbit,
LEMMA CodeComes ==
  ASSUME IsFiniteSet(DOMAIN qcode)
  PROVE  \E R : CodeOrbit(R)
<1>1. PICK n \in Nat : n = Cardinality(DOMAIN qcode)
  BY FS_CardinalityType
<1>2. PICK f : f = CHOOSE g : CodeWalk(g, n)
  OBVIOUS
<1>3. CodeWalk(f, n)
  BY <1>2, CodeWalkExists
<1>4. CodeNow = f[n]
  BY <1>1, <1>2, Zenon DEF CodeNow, CodeWalk
<1>5. \A i \in 0 .. n : f[i] = IF i = 0 THEN ip ELSE CodeStep(f[i - 1])
  BY <1>3 DEF CodeWalk
<1>6. f[0] = ip
  BY <1>5
<1>7. \A i \in 0 .. n - 1 : f[i + 1] = CodeStep(f[i])
  <2>1. TAKE i \in 0 .. n - 1
  <2>2. i + 1 \in 0 .. n /\ i + 1 # 0 /\ (i + 1) - 1 = i
    OBVIOUS
  <2> QED BY <1>5, <2>2
<1>8. PICK R : R = {f[i] : i \in 0 .. n}
  OBVIOUS
<1>9. \A i \in 0 .. n : f[i] \in R
  BY <1>8
<1>10. PICK G : G = [a \in R |-> CodeStep(a)]
  OBVIOUS
<1>11. \A i \in 0 .. n : G[f[i]] = CodeStep(f[i])
  BY <1>9, <1>10
<1>12. Walks(f, G, n)
  BY <1>7, <1>11 DEF Walks
<1>13. \/ \E i, j \in 0 .. n : i < j /\ f[i] = f[j]
       \/ G[f[n]] = f[n]
  <2>1. CASE \A i \in 0 .. n : \E k \in DOMAIN qcode : qcode[k].at = f[i]
    <3>1. PICK g : g = [i \in 0 .. n |-> CHOOSE k \in DOMAIN qcode : qcode[k].at = f[i]]
      OBVIOUS
    <3>2. \A i \in 0 .. n : g[i] \in DOMAIN qcode /\ qcode[g[i]].at = f[i]
      BY <2>1, <3>1
    <3>3. g \in [0 .. n -> DOMAIN qcode]
      BY <3>1, <3>2
    <3>4. PICK i, j \in 0 .. n : i < j /\ g[i] = g[j]
      BY <1>1, <3>3, Pigeons
    <3> QED BY <3>2, <3>4
  <2>2. CASE ~\A i \in 0 .. n : \E k \in DOMAIN qcode : qcode[k].at = f[i]
    <3>1. PICK i \in 0 .. n : ~\E k \in DOMAIN qcode : qcode[k].at = f[i]
      BY <2>2
    <3>2. CodeStep(f[i]) = f[i]
      <4>1. InstructionAt(f[i]) = Nowhere
        BY <3>1, Zenon DEF InstructionAt
      <4>2. Nowhere.op = "astray"
        BY DEF Nowhere
      <4> QED BY <4>1, <4>2 DEF CodeStep
    <3>3. G[f[i]] = f[i]
      BY <1>11, <3>2
    <3>4. f[n] = f[i]
      BY <1>12, <3>3, WalkRests
    <3> QED BY <3>3, <3>4
  <2> QED BY <2>1, <2>2
<1>14. \A m \in 0 .. n : \E k \in 0 .. n : G[f[m]] = f[k]
  BY <1>12, <1>13, WalkClosed
<1>15. \A a \in R : CodeStep(a) \in R
  BY <1>8, <1>11, <1>14
<1>16. ASSUME NEW a \in R, CodeStep(a) = a PROVE CodeNow = a
  <2>1. PICK m \in 0 .. n : a = f[m]
    BY <1>8
  <2>2. G[f[m]] = f[m]
    BY <1>11, <1>16, <2>1
  <2> QED BY <1>4, <1>12, <2>1, <2>2, WalkRests
<1>17. ASSUME NEW X, ip \in X, \A a \in X : CodeStep(a) \in X PROVE R \subseteq X
  <2>1. \A i \in 0 .. n - 1 : f[i] \in X => f[i + 1] \in X
    BY <1>7, <1>17
  <2>2. \A i \in 0 .. n : f[i] \in X
    BY <1>6, <1>17, <2>1, WalkInto
  <2> QED BY <1>8, <2>2
<1>18. ip \in R /\ CodeNow \in R
  BY <1>4, <1>6, <1>9
<1> QED BY <1>15, <1>16, <1>17, <1>18 DEF CodeOrbit

\* and so has the walk of the source.
LEMMA SourceComes ==
  ASSUME Whole(words), Placed(at)
  PROVE  \E R : SourceOrbit(R) /\ \A p \in R : Placed(p)
<1>1. PICK N \in Nat : N = Len(words)
  BY DEF Whole
<1>2. PICK n \in Nat : n = 2 * N
  OBVIOUS
<1>3. PICK f : f = CHOOSE g : SourceWalk(g, n)
  OBVIOUS
<1>4. SourceWalk(f, n)
  BY <1>3, SourceWalkExists
<1>5. SourceNow = f[n]
  BY <1>1, <1>2, <1>3, Zenon DEF SourceNow, SourceWalk
<1>6. \A i \in 0 .. n : f[i] = IF i = 0 THEN at ELSE SourceStep(f[i - 1])
  BY <1>4 DEF SourceWalk
<1>7. f[0] = at
  BY <1>6
<1>8. \A i \in 0 .. n - 1 : f[i + 1] = SourceStep(f[i])
  <2>1. TAKE i \in 0 .. n - 1
  <2>2. i + 1 \in 0 .. n /\ i + 1 # 0 /\ (i + 1) - 1 = i
    OBVIOUS
  <2> QED BY <1>6, <2>2
<1>9. PICK R : R = {f[i] : i \in 0 .. n}
  OBVIOUS
<1>10. \A i \in 0 .. n : f[i] \in R
  BY <1>9
<1>11. PICK G : G = [p \in R |-> SourceStep(p)]
  OBVIOUS
<1>12. \A i \in 0 .. n : G[f[i]] = SourceStep(f[i])
  BY <1>10, <1>11
<1>13. Walks(f, G, n)
  BY <1>8, <1>12 DEF Walks
<1>14. \A i \in 0 .. n : Placed(f[i])
  <2>1. PICK X : X = {p \in [word : 1 .. Len(words), test : BOOLEAN] : Placed(p)}
    OBVIOUS
  <2>2. \A p : p \in X <=> Placed(p)
    BY <2>1 DEF Placed
  <2>3. f[0] \in X
    BY <1>7, <2>2
  <2>4. \A i \in 0 .. n - 1 : f[i] \in X => f[i + 1] \in X
    BY <1>8, <2>2, StepPlaced
  <2>5. \A i \in 0 .. n : f[i] \in X
    BY <2>3, <2>4, WalkInto
  <2> QED BY <2>2, <2>5
<1>15. \E i, j \in 0 .. n : i < j /\ f[i] = f[j]
  <2>1. PICK g : g = [i \in 0 .. n |-> 2 * f[i].word - (IF f[i].test THEN 0 ELSE 1)]
    OBVIOUS
  <2>2. \A i \in 0 .. n : f[i] \in [word : 1 .. N, test : BOOLEAN]
    BY <1>1, <1>14 DEF Placed
  <2>3. \A i \in 0 .. n : g[i] \in 1 .. n
    <3>1. TAKE i \in 0 .. n
    <3>2. f[i].word \in 1 .. N
      BY <2>2
    <3>3. PICK w \in 1 .. N : w = f[i].word
      BY <3>2
    <3>4. PICK d : d = IF f[i].test THEN 0 ELSE 1
      OBVIOUS
    <3>5. d \in {0, 1}
      BY <3>4
    <3>6. g[i] = 2 * w - d
      BY <2>1, <3>3, <3>4
    <3> QED BY <1>2, <3>5, <3>6
  <2>4. g \in [0 .. n -> 1 .. n]
    BY <2>1, <2>3
  <2>5. IsFiniteSet(1 .. n) /\ Cardinality(1 .. n) <= n
    <3>1. 1 \in Int /\ n \in Int
      OBVIOUS
    <3>2. IsFiniteSet(1 .. n) /\ Cardinality(1 .. n) = IF 1 > n THEN 0 ELSE n - 1 + 1
      BY <3>1, FS_Interval
    <3> QED BY <3>2
  <2>6. PICK i, j \in 0 .. n : i < j /\ g[i] = g[j]
    BY <2>4, <2>5, Pigeons
  <2>7. f[i] = f[j]
    <3>1. PICK p, q \in [word : 1 .. N, test : BOOLEAN] : p = f[i] /\ q = f[j]
      BY <2>2
    <3>2. 2 * p.word - (IF p.test THEN 0 ELSE 1) = 2 * q.word - (IF q.test THEN 0 ELSE 1)
      BY <2>1, <2>6, <3>1
    <3>3. PICK v \in Nat, w \in Nat : v = p.word /\ w = q.word
      OBVIOUS
    <3>4. CASE p.test = TRUE /\ q.test = TRUE
      <4>1. 2 * v - 0 = 2 * w - 0
        BY <3>2, <3>3, <3>4
      <4>2. p.word = q.word /\ p.test = q.test
        BY <3>3, <3>4, <4>1
      <4> QED BY <3>1, <4>2
    <3>5. CASE p.test = FALSE /\ q.test = FALSE
      <4>1. 2 * v - 1 = 2 * w - 1
        BY <3>2, <3>3, <3>5
      <4>2. p.word = q.word /\ p.test = q.test
        BY <3>3, <3>5, <4>1
      <4> QED BY <3>1, <4>2
    <3>6. CASE p.test = TRUE /\ q.test = FALSE
      <4>1. 2 * v - 0 = 2 * w - 1
        BY <3>2, <3>3, <3>6
      <4> QED BY <4>1
    <3>7. CASE p.test = FALSE /\ q.test = TRUE
      <4>1. 2 * v - 1 = 2 * w - 0
        BY <3>2, <3>3, <3>7
      <4> QED BY <4>1
    <3>8. p.test \in BOOLEAN /\ q.test \in BOOLEAN
      OBVIOUS
    <3> QED BY <3>4, <3>5, <3>6, <3>7, <3>8
  <2> QED BY <2>6, <2>7
<1>16. \A m \in 0 .. n : \E k \in 0 .. n : G[f[m]] = f[k]
  BY <1>13, <1>15, WalkClosed
<1>17. \A p \in R : SourceStep(p) \in R
  BY <1>9, <1>12, <1>16
<1>18. ASSUME NEW p \in R, SourceStep(p) = p PROVE SourceNow = p
  <2>1. PICK m \in 0 .. n : p = f[m]
    BY <1>9
  <2>2. G[f[m]] = f[m]
    BY <1>12, <1>18, <2>1
  <2> QED BY <1>5, <1>13, <2>1, <2>2, WalkRests
<1>19. ASSUME NEW X, at \in X, \A p \in X : SourceStep(p) \in X PROVE R \subseteq X
  <2>1. \A i \in 0 .. n - 1 : f[i] \in X => f[i + 1] \in X
    BY <1>8, <1>19
  <2>2. \A i \in 0 .. n : f[i] \in X
    BY <1>7, <1>19, <2>1, WalkInto
  <2> QED BY <1>9, <2>2
<1>20. at \in R /\ SourceNow \in R /\ \A p \in R : Placed(p)
  BY <1>5, <1>7, <1>9, <1>10, <1>14
<1> QED BY <1>17, <1>18, <1>19, <1>20 DEF SourceOrbit

-----------------------------------------------------------------------------
(* The walk of the code and the walk of the source.                         *)
Alike(F) == Live(at) /\ ip = Adr(Spot(F, at))

\* What the code reaches from its orbit is in it.
LEMMA ReachesIn ==
  ASSUME NEW R, CodeOrbit(R), NEW a \in R, NEW b, Reaches(a, b) \/ Slides(a, b)
  PROVE  b \in R
<1>1. \A c \in R : \A d : Passes(c, d) => d \in R
  BY DEF CodeOrbit, Passes
<1> QED BY <1>1 DEF Reaches, Slides

\* The code stays where it shows something, and shows it.
LEMMA ShownStays ==
  ASSUME NEW F, NEW H, Ready(F, H), NEW p, Shows(F, p)
  PROVE  LET a == Adr(ShownSpot(F, p)) IN
         CodeStep(a) = a /\ (CodeNow = a => CodeShows = ShownAt(p))
<1>1. PICK s : s = ShownSpot(F, p)
  OBVIOUS
<1>2. /\ s \in DOMAIN iCode /\ iCode[s].op \in {"S", "return", "cond", "onerr"}
      /\ iCode[s].word = p.word /\ ShownAt(p) = [op |-> iCode[s].op, word |-> p.word]
  BY <1>1 DEF Shows
<1>3. InstructionAt(Adr(s)).op = iCode[s].op /\ InstructionAt(Adr(s)).word = iCode[s].word
  BY <1>2, ItemRuns
<1>4. PICK i : i = InstructionAt(Adr(s))
  OBVIOUS
<1>5. CodeStep(Adr(s)) = Adr(s)
  <2>1. i.op \notin {"stmt", "goto"}
    BY <1>2, <1>3, <1>4
  <2>2. CodeStep(Adr(s)) = CASE i.op = "stmt" -> Adr(s) + i.size
                             [] i.op = "goto" -> DoGoto(i) [] OTHER -> Adr(s)
    BY <1>4, Zenon DEF CodeStep
  <2> QED BY <2>1, <2>2
<1>6. ASSUME CodeNow = Adr(s) PROVE CodeShows = ShownAt(p)
  <2>1. CodeShows = IF i.op \in {"stmt", "goto"} THEN [op |-> "loops", word |-> 0]
                    ELSE [op |-> i.op, word |-> i.word]
    BY <1>4, <1>6, Zenon DEF CodeShows
  <2> QED BY <1>2, <1>3, <1>4, <2>1
<1> QED BY <1>1, <1>5, <1>6

\* Where the source has something to show, so has the code.
LEMMA VisibleShows ==
  ASSUME NEW F, NEW H, Ready(F, H), NEW p, Live(p), Visible(p)
  PROVE  Shows(F, p)
<1>1. p.word \in 1 .. Len(words) /\ p.test \in BOOLEAN
      /\ (~p.test => p = To(p.word))
      /\ (p.test => p = Test(p.word) /\ words[p.word].w \in Conditions)
  BY PlaceIs DEF Live
<1>2. CASE p.test = TRUE
  BY <1>1, <1>2, TestShows
<1>3. CASE p.test = FALSE
  BY <1>1, <1>3, ToShows
<1> QED BY <1>1, <1>2, <1>3

\* Wherever the source comes, the code comes.
LEMMA OrbitFollows ==
  ASSUME NEW F, NEW H, Ready(F, H), NEW C, CodeOrbit(C), NEW S, SourceOrbit(S), Alike(F)
  PROVE  \A p \in S : Live(p) /\ Adr(Spot(F, p)) \in C
<1> DEFINE X == {p \in S : Live(p) /\ Adr(Spot(F, p)) \in C}
<1>1. at \in X
  BY DEF SourceOrbit, CodeOrbit, Alike
<1>2. ASSUME NEW p \in X PROVE SourceStep(p) \in X
  <2>1. SourceStep(p) \in S
    BY DEF SourceOrbit
  <2>2. CASE Visible(p)
    <3>1. SourceStep(p) = p
      BY <2>2, VisibleStays DEF Live
    <3> QED BY <3>1
  <2>3. CASE ~Visible(p)
    <3>1. PICK q : q = SourceStep(p)
      OBVIOUS
    <3>2. Tells(F, p, q) /\ Live(q)
      BY <2>3, <3>1, StepTells
    <3>3. Adr(Spot(F, q)) \in C
      <4>1. PICK a, b : a = Adr(Spot(F, p)) /\ b = Adr(Spot(F, q))
        OBVIOUS
      <4>2. a \in C /\ (a = b \/ Reaches(a, b))
        BY <3>2, <4>1 DEF Tells
      <4>3. b \in C
        BY <4>2, ReachesIn
      <4> QED BY <4>1, <4>3
    <3> QED BY <2>1, <3>1, <3>2, <3>3
  <2> QED BY <2>2, <2>3
<1>3. S \subseteq X
  <2> HIDE DEF X
  <2> QED BY <1>1, <1>2 DEF SourceOrbit
<1> QED BY <1>3

\* Of the places at one address one is last in the source.
LEMMA FarthestAlike ==
  ASSUME NEW F, NEW S, \A p \in S : Placed(p), NEW o \in S, Len(words) \in Nat
  PROVE  \E p \in S : /\ Adr(Spot(F, p)) = Adr(Spot(F, o))
                      /\ \A q \in S : Adr(Spot(F, q)) = Adr(Spot(F, o)) => Rank(q) <= Rank(p)
<1> DEFINE T == {Rank(p) : p \in {r \in S : Adr(Spot(F, r)) = Adr(Spot(F, o))}}
<1>1. \A p \in S : Rank(p) \in Nat \ {0} /\ Rank(p) <= 2 * Len(words) + 1
  <2>1. SUFFICES ASSUME NEW p \in S
                 PROVE  Rank(p) \in Nat \ {0} /\ Rank(p) <= 2 * Len(words) + 1
    OBVIOUS
  <2>2. p.word \in 1 .. Len(words)
    BY PlaceIs
  <2>3. PICK n \in 1 .. Len(words) : n = p.word
    BY <2>2
  <2> QED BY <2>3 DEF Rank
<1>2. PICK b \in Nat : b = 2 * Len(words) + 1
  OBVIOUS
<1>3. T \in SUBSET (1 .. b) /\ T \subseteq Nat /\ T # {}
  BY <1>1, <1>2
<1>4. PICK m \in T : \A k \in T : m >= k
  <2> HIDE DEF T
  <2> QED BY <1>3, SomeGreatest
<1>5. PICK p \in S : Rank(p) = m /\ Adr(Spot(F, p)) = Adr(Spot(F, o))
  OBVIOUS
<1>6. ASSUME NEW q \in S, Adr(Spot(F, q)) = Adr(Spot(F, o)) PROVE Rank(q) <= Rank(p)
  <2>1. Rank(q) \in T
    BY <1>6
  <2>2. m >= Rank(q) /\ m \in Nat /\ Rank(q) \in Nat
    BY <1>1, <1>3, <1>4, <2>1
  <2> QED BY <1>5, <2>2
<1> QED BY <1>5, <1>6

\* If the source shows nothing, the code jumps on from each address the source is at.
LEMMA Onward ==
  ASSUME NEW F, NEW H, Ready(F, H), NEW S, \A p \in S : Live(p) /\ ~Visible(p),
         \A p \in S : SourceStep(p) \in S, NEW o \in S
  PROVE  \E q \in S : Reaches(Adr(Spot(F, o)), Adr(Spot(F, q)))
<1>1. Len(words) \in Nat
  BY ReadyTypes
<1>2. PICK p \in S : /\ Adr(Spot(F, p)) = Adr(Spot(F, o))
                     /\ \A q \in S : Adr(Spot(F, q)) = Adr(Spot(F, o)) => Rank(q) <= Rank(p)
  BY <1>1, FarthestAlike DEF Live
<1>3. PICK q \in S : q = SourceStep(p)
  OBVIOUS
<1>4. Tells(F, p, q)
  BY <1>3, StepTells
<1>5. Rank(p) \in Int /\ Rank(q) \in Int
  <2>1. PICK n \in 1 .. Len(words) : n = p.word
    BY PlaceIs DEF Live
  <2>2. PICK m \in 1 .. Len(words) : m = q.word
    BY PlaceIs DEF Live
  <2> QED BY <1>1, <2>1, <2>2 DEF Rank
<1>6. ~(Adr(Spot(F, p)) = Adr(Spot(F, q)) /\ Rank(p) < Rank(q))
  BY <1>2, <1>5
<1> QED BY <1>2, <1>4, <1>6 DEF Tells

\* A code that jumps on from each of them never comes to rest.
LEMMA LoopsOn ==
  ASSUME NEW C, CodeOrbit(C), NEW A, A \subseteq C, ip \in A,
         \A a \in A : \E b \in A : Reaches(a, b)
  PROVE  Jumps(CodeNow)
<1> DEFINE On(a) == Jumps(a) /\ (CodeStep(a) \in A \/ (Jumps(CodeStep(a)) /\ CodeStep(CodeStep(a)) \in A))
           B == {a \in C : On(a)}
<1>1. A \subseteq B
  <2>1. SUFFICES ASSUME NEW a \in A PROVE On(a)
    OBVIOUS
  <2>2. PICK b \in A : Reaches(a, b)
    OBVIOUS
  <2>3. CASE Passes(a, b)
    BY <2>3 DEF Passes
  <2>4. CASE \E c : Passes(a, c) /\ Passes(c, b)
    BY <2>4 DEF Passes
  <2> QED BY <2>2, <2>3, <2>4 DEF Reaches
<1>2. ASSUME NEW a \in B PROVE CodeStep(a) \in B
  <2>1. CodeStep(a) \in C
    BY DEF CodeOrbit
  <2> QED BY <1>1, <2>1
<1>3. ip \in B
  BY <1>1
<1>4. C \subseteq B
  <2> HIDE DEF B
  <2> QED BY <1>2, <1>3 DEF CodeOrbit
<1> QED BY <1>4 DEF CodeOrbit

\* A place with nothing to show is passed for ever.
LEMMA HiddenShown ==
  ASSUME NEW p, ~Visible(p)
  PROVE  ShownAt(p) = [op |-> "loops", word |-> 0]
<1>1. PICK w : w = words[p.word].w
  OBVIOUS
<1>2. ~p.test /\ w \notin {"S", "ONERR", "VECTOR", "RETURN", "ENDP"}
  BY <1>1 DEF Visible
<1>3. ShownAt(p) = CASE p.test \/ w = "VECTOR" -> [op |-> "cond", word |-> p.word]
    [] w = "S" /\ ~p.test -> [op |-> "S", word |-> p.word]
    [] w = "ONERR" /\ ~p.test -> [op |-> "onerr", word |-> p.word]
    [] w \in {"RETURN", "ENDP"} /\ ~p.test -> [op |-> "return", word |-> p.word]
    [] OTHER -> [op |-> "loops", word |-> 0]
  BY <1>1, Zenon DEF ShownAt
<1> QED BY <1>2, <1>3

-----------------------------------------------------------------------------
(* From where code and source stand at the same place, they come to the      *)
(* same thing to show.                                                       *)
ShownSame(F) ==
  /\ CodeShows = SourceShows /\ Live(SourceNow)
  /\ Visible(SourceNow) => CodeNow = Adr(ShownSpot(F, SourceNow)) /\ Shows(F, SourceNow)
  /\ ~Visible(SourceNow) => SourceShows = [op |-> "loops", word |-> 0]

\* From the same place, code and source come to show the same.
LEMMA Shown ==
  ASSUME NEW F, NEW H, Ready(F, H), Alike(F)
  PROVE  ShownSame(F)
<1>1. Whole(words) /\ GoodQcode(words, qcode)
  BY ReadyTypes
<1>2. PICK C : CodeOrbit(C)
  BY <1>1, CodeComes DEF GoodQcode
<1>3. PICK S : SourceOrbit(S)
  BY <1>1, SourceComes DEF Alike, Live
<1>4. \A p \in S : Live(p) /\ Adr(Spot(F, p)) \in C
  BY <1>2, <1>3, OrbitFollows
<1>5. SourceNow \in S /\ at \in S /\ \A p \in S : SourceStep(p) \in S
  BY <1>3 DEF SourceOrbit
<1>6. SourceShows = ShownAt(SourceNow)
  BY ShowsNow
<1>7. CASE Visible(SourceNow)
  <2>1. PICK p \in S : p = SourceNow
    BY <1>5
  <2>2. Shows(F, p)
    BY <1>4, <1>7, <2>1, VisibleShows
  <2>3. PICK a : a = Adr(ShownSpot(F, p))
    OBVIOUS
  <2>4. a \in C
    BY <1>2, <1>4, <2>2, <2>3, ReachesIn DEF Shows
  <2>5. CodeStep(a) = a /\ (CodeNow = a => CodeShows = ShownAt(p))
    BY <2>2, <2>3, ShownStays
  <2>6. CodeNow = a
    BY <1>2, <2>4, <2>5 DEF CodeOrbit
  <2> QED BY <1>4, <1>6, <1>7, <2>1, <2>2, <2>3, <2>5, <2>6 DEF ShownSame
<1>8. CASE ~Visible(SourceNow)
  <2>1. \A p \in S : ~Visible(p)
    <3>1. SUFFICES ASSUME NEW p \in S, Visible(p) PROVE FALSE
      OBVIOUS
    <3>2. SourceStep(p) = p
      BY <1>4, <3>1, VisibleStays DEF Live
    <3>3. SourceNow = p
      BY <1>3, <3>2 DEF SourceOrbit
    <3> QED BY <1>8, <3>1, <3>3
  <2> DEFINE A == {Adr(Spot(F, p)) : p \in S}
  <2>2. \A a \in A : \E b \in A : Reaches(a, b)
    <3>1. \A o \in S : \E q \in S : Reaches(Adr(Spot(F, o)), Adr(Spot(F, q)))
      BY <1>4, <1>5, <2>1, Onward
    <3> QED BY <3>1
  <2>3. A \subseteq C /\ ip \in A
    BY <1>4, <1>5 DEF Alike
  <2>4. Jumps(CodeNow)
    <3> HIDE DEF A
    <3> QED BY <1>2, <2>2, <2>3, LoopsOn
  <2>5. CodeShows = [op |-> "loops", word |-> 0]
    BY <2>4, Zenon DEF Jumps, CodeShows
  <2>6. SourceShows = [op |-> "loops", word |-> 0]
    BY <1>6, <1>8, HiddenShown
  <2> QED BY <1>4, <1>5, <1>8, <2>5, <2>6 DEF ShownSame
<1> QED BY <1>7, <1>8

-----------------------------------------------------------------------------
(* The run keeps code and source together.                                  *)
Handled(F) ==
  /\ handler = 0 <=> iOnErrIP = None
  /\ handler # 0 => /\ handler \in 1 .. Len(words) /\ words[handler].w = "LABEL"
                    /\ iOnErrIP = Adr(F[handler])
Together(F) == Alike(F) /\ Handled(F)
Excused == ~Fitting(iCode) \/ OnErrOfItself \/ LabelAfterReturn
Steady == UNCHANGED <<vocab, words, iCode, qcode>>

\* The run changes no code.
LEMMA SteadyCode ==
  ASSUME Steady
  PROVE  /\ \A n : Adr(n)' = Adr(n)
         /\ Excused' = Excused
         /\ Len(words') = Len(words) /\ words' = words /\ iCode' = iCode
<1>1. vocab' = vocab /\ words' = words /\ iCode' = iCode /\ qcode' = qcode
  BY DEF Steady
<1>2. \A n : Adr(n)' = Adr(n)
  BY <1>1, SMT DEF Adr, AddressOf, Size
<1>3. Fitting(iCode)' = Fitting(iCode)
  BY <1>1, SMT DEF Fitting, LabelAddress, AddressOf, Size
<1>4. OnErrOfItself' = OnErrOfItself
  BY <1>1, Zenon DEF OnErrOfItself
<1>5. LabelAfterReturn' = LabelAfterReturn
  BY <1>1, Zenon DEF LabelAfterReturn
<1> QED BY <1>1, <1>2, <1>3, <1>4, <1>5 DEF Excused

\* Going on at the same place,
LEMMA AlikeNext ==
  ASSUME Steady, NEW F, NEW p, Live(p), Goes(Adr(Spot(F, p)), p)
  PROVE  Alike(F)'
<1>1. at' = p /\ ip' = Adr(Spot(F, p)) /\ words' = words
  BY SteadyCode DEF Goes
<1>2. Live(at)'
  <2>1. Live(p)' = Live(p)
    BY <1>1, Zenon DEF Live, Placed, AfterReturn
  <2> QED BY <1>1, <2>1 DEF Live, Placed, AfterReturn
<1>3. ip' = Adr(Spot(F, at))'
  <2>1. Spot(F, at)' = Spot(F, p)
    BY <1>1, Zenon DEF Spot
  <2>2. Adr(Spot(F, at))' = Adr(Spot(F, p))
    BY <2>1, SteadyCode
  <2> QED BY <1>1, <2>2
<1> QED BY <1>2, <1>3 DEF Alike

\* with the same handler.
LEMMA HandledNext ==
  ASSUME Steady, NEW F, Handled(F), handler' = handler, iOnErrIP' = iOnErrIP
  PROVE  Handled(F)'
<1>1. words' = words /\ \A n : Adr(n)' = Adr(n)
  BY SteadyCode
<1> QED BY <1>1, Zenon DEF Handled, None

-----------------------------------------------------------------------------
(* What stands where the code is about to show something.                    *)
LEMMA ShownAs ==
  ASSUME NEW F, NEW H, Ready(F, H), ShownSame(F), NEW n, n = SourceNow.word
  PROVE  /\ n \in 1 .. Len(words)
         /\ Runs("S") => words[n].w = "S" /\ SourceNow = To(n) /\ CodeNow = Adr(F[n] + 1)
         /\ Runs("onerr") => words[n].w = "ONERR" /\ SourceNow = To(n) /\ CodeNow = Adr(F[n] + 1)
         /\ Runs("cond") =>
              \/ words[n].w \in Conditions /\ SourceNow = Test(n) /\ CodeNow = Adr(Spot(F, Test(n)))
              \/ words[n].w = "VECTOR" /\ SourceNow = To(n) /\ CodeNow = Adr(F[n] + 1)
<1>1. PICK q : q = SourceNow
  OBVIOUS
<1>2. /\ n = q.word /\ Live(q) /\ SourceShows = ShownAt(q)
      /\ (Visible(q) => CodeNow = Adr(ShownSpot(F, q)))
      /\ (~Visible(q) => SourceShows = [op |-> "loops", word |-> 0])
  BY <1>1, ShowsNow DEF ShownSame
<1>3. /\ n \in 1 .. Len(words) /\ q.test \in BOOLEAN
      /\ (~q.test => q = To(n))
      /\ (q.test => q = Test(n) /\ words[n].w \in Conditions)
  BY <1>2, PlaceIs DEF Live
<1>4. PICK w : w = words[n].w
  OBVIOUS
<1>5. ShownAt(q) = CASE q.test \/ w = "VECTOR" -> [op |-> "cond", word |-> n]
    [] w = "S" /\ ~q.test -> [op |-> "S", word |-> n]
    [] w = "ONERR" /\ ~q.test -> [op |-> "onerr", word |-> n]
    [] w \in {"RETURN", "ENDP"} /\ ~q.test -> [op |-> "return", word |-> n]
    [] OTHER -> [op |-> "loops", word |-> 0]
  BY <1>2, <1>4, Zenon DEF ShownAt
<1>6. ASSUME SourceShows.op \in {"S", "onerr", "cond"} PROVE Visible(q)
  BY <1>2, <1>6
<1>7. ASSUME Runs("S") PROVE words[n].w = "S" /\ q = To(n) /\ CodeNow = Adr(F[n] + 1)
  <2>1. SourceShows.op = "S"
    BY <1>7 DEF Runs
  <2>2. w = "S" /\ q.test = FALSE
    <3>1. CASE q.test = TRUE
      BY <1>2, <1>5, <2>1, <3>1
    <3>2. CASE q.test = FALSE
      BY <1>2, <1>5, <2>1, <3>2
    <3> QED BY <1>3, <3>1, <3>2
  <2>3. ShownSpot(F, q) = F[n] + 1
    BY <1>2, <1>4, <2>2 DEF ShownSpot
  <2> QED BY <1>2, <1>3, <1>4, <1>6, <2>1, <2>2, <2>3
<1>8. ASSUME Runs("onerr") PROVE words[n].w = "ONERR" /\ q = To(n) /\ CodeNow = Adr(F[n] + 1)
  <2>1. SourceShows.op = "onerr"
    BY <1>8 DEF Runs
  <2>2. w = "ONERR" /\ q.test = FALSE
    <3>1. CASE q.test = TRUE
      BY <1>2, <1>5, <2>1, <3>1
    <3>2. CASE q.test = FALSE
      BY <1>2, <1>5, <2>1, <3>2
    <3> QED BY <1>3, <3>1, <3>2
  <2>3. ShownSpot(F, q) = F[n] + 1
    BY <1>2, <1>4, <2>2 DEF ShownSpot
  <2> QED BY <1>2, <1>3, <1>4, <1>6, <2>1, <2>2, <2>3
<1>9. ASSUME Runs("cond")
      PROVE  \/ words[n].w \in Conditions /\ q = Test(n) /\ CodeNow = Adr(Spot(F, Test(n)))
             \/ words[n].w = "VECTOR" /\ q = To(n) /\ CodeNow = Adr(F[n] + 1)
  <2>1. SourceShows.op = "cond"
    BY <1>9 DEF Runs
  <2>2. CASE q.test = TRUE
    <3>1. q = Test(n) /\ words[n].w \in Conditions
      BY <1>3, <2>2
    <3>2. ShownSpot(F, q) = Spot(F, q)
      BY <2>2 DEF ShownSpot
    <3> QED BY <1>2, <1>6, <2>1, <3>1, <3>2
  <2>3. CASE q.test = FALSE
    <3>1. w = "VECTOR"
      BY <1>2, <1>5, <2>1, <2>3
    <3>2. ShownSpot(F, q) = F[n] + 1
      BY <1>2, <1>4, <2>3, <3>1 DEF ShownSpot
    <3> QED BY <1>2, <1>3, <1>4, <1>6, <2>1, <2>3, <3>1, <3>2
  <2> QED BY <1>3, <2>2, <2>3
<1> QED BY <1>1, <1>3, <1>7, <1>8, <1>9

\* A place that the code has reached is the one where the run goes on.
Onto(F, p) == Live(p) /\ Goes(Adr(Spot(F, p)), p)

\* A statement goes on with the next word or at the handler.
LEMMA StatementGoes ==
  ASSUME NEW F, NEW H, Ready(F, H), Together(F), RunStatement, phase' = "run"
  PROVE  (\E p : Onto(F, p)) /\ handler' = handler /\ iOnErrIP' = iOnErrIP
<1>1. ShownSame(F)
  BY Shown DEF Together
<1>2. Runs("S") /\ phase = "run" /\ handler' = handler /\ iOnErrIP' = iOnErrIP
  BY DEF RunStatement, Runs
<1>3. PICK n : n = SourceNow.word
  OBVIOUS
<1>4. n \in 1 .. Len(words) /\ words[n].w = "S" /\ SourceNow = To(n) /\ CodeNow = Adr(F[n] + 1)
  BY <1>1, <1>2, <1>3, ShownAs
<1>5. CASE Goes(CodeNow + 1, To(n + 1))
  <2>1. PICK j : j = F[n] + 1
    OBVIOUS
  <2>2. F[n] \in Nat /\ F[n + 1] = j + 1 /\ iCode[j] = Do(n, "S", <<>>) /\ j \in DOMAIN iCode
    BY <1>4, <2>1, SLaid
  <2>3. iCode[j].op = "S"
    BY <2>2 DEF Do
  <2>4. Adr(j + 1) = Adr(j) + 1
    BY <2>2, <2>3, ItemRuns
  <2>5. Spot(F, To(n + 1)) = j + 1
    BY <1>4, <2>2, SpotIs, ReadyTypes
  <2>6. Live(To(n + 1))
    BY <1>4, LiveAfter
  <2> QED BY <1>2, <1>4, <1>5, <2>1, <2>4, <2>5, <2>6 DEF Onto
<1>6. CASE iOnErrIP # None /\ Goes(iOnErrIP, IF handler = 0 THEN SourceNow ELSE To(handler))
  <2>1. /\ handler # 0 /\ handler \in 1 .. Len(words) /\ words[handler].w = "LABEL"
        /\ iOnErrIP = Adr(F[handler])
    BY <1>6 DEF Together, Handled
  <2>2. Spot(F, To(handler)) = F[handler]
    BY <2>1, SpotIs, ReadyTypes
  <2>3. Live(To(handler))
    <3>1. To(handler).word = handler /\ To(handler).test = FALSE
      BY DEF To
    <3>2. Placed(To(handler))
      BY <2>1 DEF Placed, To
    <3>3. words[Len(words)].w = "ENDP"
      BY ReadyTypes
    <3> QED BY <2>1, <3>1, <3>2, <3>3, LiveBefore
  <2> QED BY <1>2, <1>6, <2>1, <2>2, <2>3 DEF Onto
<1>7. Goes(CodeNow + 1, To(n + 1)) \/ (iOnErrIP # None /\ Goes(iOnErrIP, IF handler = 0 THEN SourceNow ELSE To(handler)))
  BY <1>3 DEF RunStatement
<1> QED BY <1>2, <1>5, <1>6, <1>7

-----------------------------------------------------------------------------
(* The branch after a condition.                                            *)
FalseOf(H, n) == IF words[n].w = "UNTIL" THEN H[n - 1].EFalse ELSE H[n].EFalse

\* The items of a condition: it and the branch after it.
LEMMA TestItems ==
  ASSUME NEW F, NEW H, Ready(F, H), NEW n \in 1 .. Len(words), words[n].w \in Conditions,
         NEW s, s = Spot(F, Test(n))
  PROVE  /\ s \in Nat /\ s \in DOMAIN iCode /\ s + 1 \in DOMAIN iCode /\ iCode[s] = Cond(n)
         /\ iCode[s + 1] = Go(n, "brfalse", FalseOf(H, n))
         /\ Adr(s + 2) = Adr(F[n + 1])
<1>1. n \in Nat
  BY ReadyTypes
<1>2. CASE words[n].w = "IF"
  <2>1. PICK f : f = F[n]
    OBVIOUS
  <2>2. s = f + 1 /\ FalseOf(H, n) = H[n].EFalse
    BY <1>1, <1>2, <2>1, SpotIs DEF FalseOf
  <2>3. /\ f \in Nat \ {0} /\ F[n + 1] = f + 3 /\ iCode[f + 1] = Cond(n) /\ f + 1 \in DOMAIN iCode
        /\ iCode[f + 2] = Go(n, "brfalse", H[n].EFalse) /\ f + 2 \in DOMAIN iCode
    BY <1>2, <2>1, IfLaid
  <2>4. s + 1 = f + 2 /\ s + 2 = f + 3 /\ s \in Nat
    BY <2>2, <2>3
  <2> QED BY <2>2, <2>3, <2>4
<1>3. CASE words[n].w = "WHILE"
  <2>1. PICK f : f = F[n]
    OBVIOUS
  <2>2. s = f + 2 /\ FalseOf(H, n) = H[n].EFalse
    BY <1>1, <1>3, <2>1, SpotIs DEF FalseOf
  <2>3. /\ f \in Nat \ {0} /\ F[n + 1] = f + 4 /\ iCode[f + 2] = Cond(n) /\ f + 2 \in DOMAIN iCode
        /\ iCode[f + 3] = Go(n, "brfalse", H[n].EFalse) /\ f + 3 \in DOMAIN iCode
    BY <1>3, <2>1, WhileLaid
  <2>4. s + 1 = f + 3 /\ s + 2 = f + 4 /\ s \in Nat
    BY <2>2, <2>3
  <2> QED BY <2>2, <2>3, <2>4
<1>4. CASE words[n].w = "ELSEIF"
  <2>1. PICK f : f = F[n]
    OBVIOUS
  <2>2. s = f + 2 /\ FalseOf(H, n) = H[n].EFalse
    BY <1>1, <1>4, <2>1, SpotIs DEF FalseOf
  <2>3. /\ f \in Nat \ {0} /\ F[n + 1] = f + 4 /\ iCode[f + 2] = Cond(n) /\ f + 2 \in DOMAIN iCode
        /\ iCode[f + 3] = Go(n, "brfalse", H[n].EFalse) /\ f + 3 \in DOMAIN iCode
    BY <1>4, <2>1, ElseIfLaid
  <2>4. s + 1 = f + 3 /\ s + 2 = f + 4 /\ s \in Nat
    BY <2>2, <2>3
  <2> QED BY <2>2, <2>3, <2>4
<1>5. CASE words[n].w = "UNTIL"
  <2>1. PICK f : f = F[n]
    OBVIOUS
  <2>2. s = f + 1 /\ FalseOf(H, n) = H[n - 1].EFalse
    BY <1>1, <1>5, <2>1, SpotIs DEF FalseOf
  <2>3. /\ f \in Nat \ {0} /\ F[n + 1] = f + 4 /\ iCode[f + 1] = Cond(n) /\ f + 1 \in DOMAIN iCode
        /\ iCode[f + 2] = Go(n, "brfalse", H[n - 1].EFalse) /\ f + 2 \in DOMAIN iCode
        /\ Adr(f + 4) = Adr(f + 3)
    BY <1>5, <2>1, UntilLaid
  <2>4. s + 1 = f + 2 /\ s + 2 = f + 3 /\ s \in Nat
    BY <2>2, <2>3
  <2> QED BY <2>2, <2>3, <2>4
<1> QED BY <1>2, <1>3, <1>4, <1>5 DEF Conditions

\* A condition that holds goes on after its branch.
LEMMA TestRuns ==
  ASSUME NEW F, NEW H, Ready(F, H), NEW n \in 1 .. Len(words), words[n].w \in Conditions,
         NEW i, i = InstructionAt(Adr(Spot(F, Test(n))) + 2)
  PROVE  i.op = "brfalse" /\ i.at + i.size = Adr(F[n + 1])
<1>1. PICK s : s = Spot(F, Test(n))
  OBVIOUS
<1>2. /\ s \in Nat /\ s \in DOMAIN iCode /\ s + 1 \in DOMAIN iCode /\ iCode[s] = Cond(n)
      /\ iCode[s + 1] = Go(n, "brfalse", FalseOf(H, n))
      /\ Adr(s + 2) = Adr(F[n + 1])
  BY <1>1, TestItems
<1>3. iCode[s].op = "cond" /\ iCode[s + 1].op = "brfalse"
  BY <1>2 DEF Cond, Go, Do
<1>4. Adr(s + 1) = Adr(s) + 2
  BY <1>2, <1>3, ItemRuns
<1>5. PICK t : t = s + 1
  OBVIOUS
<1>6. i = InstructionAt(Adr(t)) /\ t \in DOMAIN iCode /\ iCode[t].op = "brfalse" /\ t + 1 = s + 2
  BY <1>1, <1>2, <1>3, <1>4, <1>5
<1>7. i.op = "brfalse" /\ i.at = Adr(t) /\ Adr(t + 1) = Adr(t) + i.size
  BY <1>6, ItemRuns
<1> QED BY <1>2, <1>6, <1>7

\* A condition that does not hold goes to the site of the label in force.
LEMMA FalseGoes ==
  ASSUME NEW F, NEW H, Ready(F, H), NEW n \in 1 .. Len(words), words[n].w \in Conditions,
         NEW a \in 1 .. Len(words), NEW o \in 0 .. 2, o < Needs(words[a].w),
         FalseOf(H, n) = H[a - 1].next + o
  PROVE  DoGoto(InstructionAt(Adr(Spot(F, Test(n))) + 2)) = Adr(Site(words, F, a, o))
<1>1. PICK s : s = Spot(F, Test(n))
  OBVIOUS
<1>2. /\ s \in Nat /\ s \in DOMAIN iCode /\ s + 1 \in DOMAIN iCode /\ iCode[s] = Cond(n)
      /\ iCode[s + 1] = Go(n, "brfalse", FalseOf(H, n))
  BY <1>1, TestItems
<1>3. iCode[s].op = "cond"
  BY <1>2 DEF Cond, Do
<1>4. Adr(s + 1) = Adr(s) + 2
  BY <1>2, <1>3, ItemRuns
<1>5. PICK x : x = FalseOf(H, n)
  OBVIOUS
<1>6. PICK t : t = s + 1
  OBVIOUS
<1>7. t \in DOMAIN iCode /\ iCode[t] = Go(n, "brfalse", x) /\ x = H[a - 1].next + o
  BY <1>2, <1>5, <1>6
<1>8. PICK op : op = "brfalse"
  OBVIOUS
<1>9. DoGoto(InstructionAt(Adr(t))) = Adr(Site(words, F, a, o))
  <2>1. op \in {"goto", "brfalse"} /\ iCode[t] = Go(n, op, x)
    BY <1>7, <1>8
  <2>2. PICK j : j = Site(words, F, a, o)
    OBVIOUS
  <2>3. IsSite(words, F, H, j, x)
    BY <1>7, <2>2 DEF IsSite
  <2>4. DoGoto(InstructionAt(Adr(t))) = Adr(j)
    BY <1>7, <2>1, <2>3, BranchToSite
  <2> QED BY <2>2, <2>4
<1> QED BY <1>1, <1>4, <1>6, <1>9

\* That of IF and ELSEIF is where the next clause begins.
LEMMA ClauseGoes ==
  ASSUME NEW F, NEW H, Ready(F, H), NEW n \in 1 .. Len(words), words[n].w \in {"IF", "ELSEIF"}
  PROVE  LET p == Decided(n, FALSE) IN
         Live(p) /\ Adr(ClauseSite(words, F, n)) = Adr(Spot(F, p))
<1>1. PICK k : k = ClauseIn(words, n)
  OBVIOUS
<1>2. Whole(words) /\ words[Len(words)].w = "ENDP"
  BY ReadyTypes
<1>3. k \in 1 .. Len(words) /\ words[k].w \in {"ELSEIF", "ELSE", "ENDIF"}
  BY <1>1, <1>2, ClausePlace, Aims
<1>4. Decided(n, FALSE) = IF words[k].w = "ELSEIF" THEN Test(k) ELSE To(k + 1)
  <2>1. ClauseAfter(n) = k
    BY <1>1, Aims
  <2> QED BY <2>1 DEF Decided
<1>5. k \in Nat /\ k + 1 \in Nat
  BY <1>2, <1>3 DEF Whole
<1>6. CASE words[k].w = "ELSEIF"
  <2>1. ClauseSite(words, F, n) = F[k] + 1
    BY <1>1, <1>6 DEF ClauseSite
  <2>2. Spot(F, Test(k)) = F[k] + 2
    BY <1>5, <1>6, SpotIs
  <2>3. Adr(F[k] + 2) = Adr(F[k] + 1)
    BY <1>3, <1>6, ElseIfLaid
  <2>4. Live(Test(k))
    <3>1. Placed(Test(k)) /\ Test(k).test
      BY <1>3, <1>6, PlaceOfTest DEF Conditions, Test
    <3> QED BY <1>2, <3>1, LiveBefore
  <2> QED BY <1>4, <1>6, <2>1, <2>2, <2>3, <2>4
<1>7. CASE words[k].w = "ELSE"
  <2>1. ClauseSite(words, F, n) = F[k] + 1
    BY <1>1, <1>7 DEF ClauseSite
  <2>2. Spot(F, To(k + 1)) = F[k] + 2 /\ Adr(F[k] + 2) = Adr(F[k] + 1)
    <3>1. Spot(F, To(k + 1)) = F[k + 1]
      BY <1>5, SpotIs
    <3>2. F[k + 1] = F[k] + 2 /\ Adr(F[k] + 2) = Adr(F[k] + 1)
      BY <1>3, <1>7, ElseLaid
    <3> QED BY <3>1, <3>2
  <2>3. Live(To(k + 1))
    BY <1>3, <1>7, LiveAfter
  <2> QED BY <1>4, <1>7, <2>1, <2>2, <2>3
<1>8. CASE words[k].w = "ENDIF"
  <2>1. ClauseSite(words, F, n) = F[k]
    BY <1>1, <1>8 DEF ClauseSite
  <2>2. Spot(F, To(k + 1)) = F[k + 1]
    BY <1>5, SpotIs
  <2>3. Adr(F[k + 1]) = Adr(F[k])
    <3>1. CASE AfterElse(words, k)
      BY <1>3, <1>8, <3>1, EndIfElseLaid
    <3>2. CASE ~AfterElse(words, k)
      BY <1>3, <1>8, <3>2, EndIfLaid
    <3> QED BY <3>1, <3>2
  <2>4. Live(To(k + 1))
    BY <1>3, <1>8, LiveAfter
  <2> QED BY <1>4, <1>8, <2>1, <2>2, <2>3, <2>4
<1> QED BY <1>3, <1>6, <1>7, <1>8

\* A condition that does not hold goes where the source goes.
LEMMA DecidedGoes ==
  ASSUME NEW F, NEW H, Ready(F, H), NEW n \in 1 .. Len(words), words[n].w \in Conditions
  PROVE  LET p == Decided(n, FALSE) IN
         Live(p) /\ DoGoto(InstructionAt(Adr(Spot(F, Test(n))) + 2)) = Adr(Spot(F, p))
<1>1. Whole(words) /\ Laid(words, iCode, F, H) /\ Len(words) \in Nat /\ n \in Nat
  BY ReadyTypes
<1>2. CASE words[n].w = "IF"
  <2>1. FalseOf(H, n) = H[n - 1].next + 1
    BY <1>1, <1>2, OwnLabels DEF FalseOf
  <2>2. 1 < Needs(words[n].w) /\ 1 \in 0 .. 2
    BY <1>2 DEF Needs
  <2>3. Site(words, F, n, 1) = ClauseSite(words, F, n)
    BY <1>2 DEF Site
  <2> QED BY <1>2, <2>1, <2>2, <2>3, FalseGoes, ClauseGoes
<1>3. CASE words[n].w = "ELSEIF"
  <2>1. FalseOf(H, n) = H[n - 1].next + 0
    BY <1>1, <1>3, OwnLabels DEF FalseOf
  <2>2. 0 < Needs(words[n].w) /\ 0 \in 0 .. 2
    BY <1>3 DEF Needs
  <2>3. Site(words, F, n, 0) = ClauseSite(words, F, n)
    BY <1>3 DEF Site
  <2> QED BY <1>3, <2>1, <2>2, <2>3, FalseGoes, ClauseGoes
<1>4. CASE words[n].w = "WHILE"
  <2>1. FalseOf(H, n) = H[n - 1].next + 2
    BY <1>1, <1>4, OwnLabels DEF FalseOf
  <2>2. 2 < Needs(words[n].w) /\ 2 \in 0 .. 2
    BY <1>4 DEF Needs
  <2>3. PICK e : e = EndIn(words, n)
    OBVIOUS
  <2>4. Site(words, F, n, 2) = F[e] + 2
    BY <1>4, <2>3 DEF Site
  <2>5. e \in 1 .. Len(words) /\ words[e].w = "ENDWH"
    <3>1. words[n].w \in Openers
      BY <1>4 DEF Openers
    <3>2. e \in n + 1 .. Len(words) - 1 /\ words[e].w \in Closers /\ Opener(words[e].w) = "WHILE"
      BY <1>1, <1>4, <2>3, <3>1, EndFound
    <3> QED BY <1>1, <3>2 DEF Closers, Opener
  <2>6. Decided(n, FALSE) = To(e + 1)
    BY <1>4, <2>3, EndOfIs DEF Decided
  <2>7. Spot(F, To(e + 1)) = F[e] + 3 /\ Adr(F[e] + 3) = Adr(F[e] + 2)
    <3>1. e + 1 \in Nat
      BY <1>1, <2>5
    <3>2. Spot(F, To(e + 1)) = F[e + 1]
      BY <3>1, SpotIs
    <3>3. F[e + 1] = F[e] + 3 /\ Adr(F[e] + 3) = Adr(F[e] + 2)
      BY <2>5, EndWhLaid
    <3> QED BY <3>2, <3>3
  <2>8. Live(To(e + 1))
    BY <2>5, LiveAfter
  <2> QED BY <2>1, <1>4, <2>2, <2>4, <2>6, <2>7, <2>8, FalseGoes
<1>5. CASE words[n].w = "UNTIL"
  <2>1. PICK k : k = StartIn(words, n)
    OBVIOUS
  <2>2. k \in 1 .. Len(words) /\ words[k].w = "DO"
    BY <1>5, <2>1, AroundClause DEF Closers, Opener
  <2>3. FalseOf(H, n) = H[k - 1].next + 2
    <3>1. H[k].EFalse = H[k - 1].next + 2
      BY <1>1, <2>2, OwnLabels
    <3>2. InsideIn(words, n) # {}
      BY <1>1, <1>5, StartOfClause DEF Closers
    <3>3. LastBefore(words, k, n)
      BY <1>1, <2>1, <2>2, <3>2, LoopLast
    <3>4. H[n - 1].EFalse = H[k].EFalse
      <4>1. InForce(words, H, n)
        BY <1>1, AllInForce
      <4> QED BY <3>2, <3>3, <4>1 DEF InForce
    <3> QED BY <1>5, <3>1, <3>4 DEF FalseOf
  <2>4. 2 < Needs(words[k].w) /\ 2 \in 0 .. 2
    BY <2>2 DEF Needs
  <2>5. Site(words, F, k, 2) = F[k] + 1
    BY <2>2 DEF Site
  <2>6. Decided(n, FALSE) = To(k + 1)
    <3>1. StartOf(n) = k
      BY <1>1, <1>5, <2>1, StartAims DEF Closers
    <3> QED BY <1>5, <3>1 DEF Decided
  <2>7. Spot(F, To(k + 1)) = F[k] + 2 /\ Adr(F[k] + 2) = Adr(F[k] + 1)
    <3>1. k + 1 \in Nat
      BY <1>1, <2>2
    <3>2. Spot(F, To(k + 1)) = F[k + 1]
      BY <3>1, SpotIs
    <3>3. F[k + 1] = F[k] + 2 /\ Adr(F[k] + 2) = Adr(F[k] + 1)
      BY <2>2, DoLaid
    <3> QED BY <3>2, <3>3
  <2>8. Live(To(k + 1))
    BY <2>2, LiveAfter
  <2>9. DoGoto(InstructionAt(Adr(Spot(F, Test(n))) + 2)) = Adr(Site(words, F, k, 2))
    BY <2>2, <2>3, <2>4, FalseGoes
  <2> QED BY <2>5, <2>6, <2>7, <2>8, <2>9
<1> QED BY <1>2, <1>3, <1>4, <1>5 DEF Conditions

-----------------------------------------------------------------------------
\* The instruction after the index of VECTOR, and the places of its labels.
LEMMA VectorRuns ==
  ASSUME NEW F, NEW H, Ready(F, H), NEW n \in 1 .. Len(words), words[n].w = "VECTOR",
         NEW i, i = InstructionAt(Adr(F[n] + 1) + 2)
  PROVE  /\ i.op = "vector" /\ i.at + i.size = Adr(F[n + 1])
         /\ DOMAIN i.offsets = DOMAIN words[n].ls
         /\ \A k \in DOMAIN words[n].ls :
              i.at + i.offsets[k] = Adr(F[LabelPlace(words[n].ls[k])])
<1>1. PICK f : f = F[n]
  OBVIOUS
<1>2. /\ f \in Nat \ {0} /\ F[n + 1] = f + 3 /\ iCode[f + 1] = Cond(n) /\ f + 1 \in DOMAIN iCode
      /\ iCode[f + 2] = Do(n, "vector", LabelsOf(words[n])) /\ f + 2 \in DOMAIN iCode
  BY <1>1, VectorLaid
<1>3. PICK s, t : s = f + 1 /\ t = f + 2
  OBVIOUS
<1>4. s \in DOMAIN iCode /\ t \in DOMAIN iCode /\ s + 1 = t /\ t + 1 = f + 3 /\ F[n + 1] = t + 1
  BY <1>2, <1>3
<1>5. iCode[s].op = "cond" /\ iCode[t].op = "vector" /\ iCode[t].to = LabelsOf(words[n])
  BY <1>2, <1>3 DEF Cond, Do
<1>6. Adr(t) = Adr(s) + 2
  BY <1>4, <1>5, ItemRuns
<1>7. i = InstructionAt(Adr(t))
  BY <1>1, <1>3, <1>6
<1>8. /\ IsCode(iCode) /\ GoodCode(words, iCode) /\ OneEach(iCode) /\ Fitting(iCode)
      /\ qcode = ConvertPcode(iCode)
  BY ReadyTypes
<1>9. Size(iCode[t]) > 0
  <2>1. GoodItem(words, iCode[t])
    BY <1>4, <1>8 DEF GoodCode
  <2>2. Len(iCode[t].to) \in Nat
    BY <1>5, <2>1 DEF GoodItem
  <2>3. Size(iCode[t]) = 3 + 2 * Len(iCode[t].to)
    BY <1>5 DEF Size
  <2> QED BY <2>2, <2>3
<1>10. i = Instruction(iCode, t)
  BY <1>4, <1>7, <1>8, <1>9, InstructionOf DEF Adr
<1>11. i.at = Adr(t) /\ i.size = Size(iCode[t]) /\ i.op = "vector"
       /\ DOMAIN i.offsets = DOMAIN iCode[t].to
  <2>1. Instruction(iCode, t) =
          [at |-> Adr(t), size |-> Size(iCode[t]), op |-> iCode[t].op, word |-> iCode[t].word,
           offsets |-> IF iCode[t].op = "onerr" /\ iCode[t].to = <<>> THEN <<0>>
                       ELSE [k \in DOMAIN iCode[t].to |-> Patch16(LabelAddress(iCode, iCode[t].to[k]) - Adr(t))]]
    BY Zenon DEF Instruction, Adr
  <2> QED BY <1>5, <1>10, <2>1
<1>12. DOMAIN iCode[t].to = DOMAIN words[n].ls
       /\ \A k \in DOMAIN words[n].ls : iCode[t].to[k] = UserLabel(words[n].ls[k])
  BY <1>5 DEF LabelsOf
<1>13. Adr(t + 1) = Adr(t) + Size(iCode[t])
  BY <1>4, AdrNext
<1>14. ASSUME NEW k \in DOMAIN words[n].ls
       PROVE  i.at + i.offsets[k] = Adr(F[LabelPlace(words[n].ls[k])])
  <2>1. PICK m : m = F[LabelPlace(words[n].ls[k])]
    OBVIOUS
  <2>2. m \in DOMAIN iCode /\ Defines(iCode[m], UserLabel(words[n].ls[k]))
    BY <2>1, LabelStands
  <2>3. k \in DOMAIN iCode[t].to /\ Defines(iCode[m], iCode[t].to[k]) /\ iCode[t].op # "label"
    BY <1>5, <1>12, <2>2
  <2>4. Instruction(iCode, t).offsets[k] = AddressOf(iCode, m) - AddressOf(iCode, t)
    BY <1>4, <1>8, <2>2, <2>3, BranchReaches
  <2>5. i.offsets[k] = Adr(m) - Adr(t)
    BY <1>10, <2>4 DEF Adr
  <2>6. Adr(m) \in Nat /\ Adr(t) \in Nat
    BY <1>4, <2>2, AdrNext
  <2> QED BY <1>11, <2>1, <2>5, <2>6
<1> QED BY <1>4, <1>11, <1>12, <1>13, <1>14

\* What ONERR sets.
LEMMA OnErrRuns ==
  ASSUME NEW F, NEW H, Ready(F, H), NEW n \in 1 .. Len(words), words[n].w = "ONERR",
         NEW i, i = InstructionAt(Adr(F[n] + 1)), ~OnErrOfItself
  PROVE  /\ i.at + i.size = Adr(F[n + 1])
         /\ words[n].ls = <<>> => i.offsets[1] = 0
         /\ words[n].ls # <<>> =>
              /\ 1 \in DOMAIN words[n].ls
              /\ i.offsets[1] # 0 /\ i.at + i.offsets[1] = Adr(F[LabelPlace(words[n].ls[1])])
<1>1. PICK f : f = F[n]
  OBVIOUS
<1>2. /\ f \in Nat \ {0} /\ F[n + 1] = f + 2
      /\ iCode[f + 1] = Do(n, "onerr", LabelsOf(words[n])) /\ f + 1 \in DOMAIN iCode
  BY <1>1, OnErrLaid
<1>3. PICK t : t = f + 1
  OBVIOUS
<1>4. t \in DOMAIN iCode /\ F[n + 1] = t + 1
  BY <1>2, <1>3
<1>5. iCode[t].op = "onerr" /\ iCode[t].to = LabelsOf(words[n]) /\ iCode[t].word = n
  BY <1>2, <1>3 DEF Do
<1>6. /\ i = Instruction(iCode, t) /\ i.at = Adr(t) /\ i.op = "onerr" /\ i.word = n
      /\ Adr(t + 1) = Adr(t) + i.size
  BY <1>1, <1>3, <1>4, <1>5, ItemRuns
<1>7. /\ IsCode(iCode) /\ GoodCode(words, iCode) /\ OneEach(iCode) /\ Fitting(iCode)
      /\ qcode = ConvertPcode(iCode) /\ words \in Seq(Word)
  BY ReadyTypes
<1>8. i.offsets = IF iCode[t].to = <<>> THEN <<0>>
                  ELSE [k \in DOMAIN iCode[t].to |-> Patch16(LabelAddress(iCode, iCode[t].to[k]) - Adr(t))]
  <2>1. Instruction(iCode, t) =
          [at |-> Adr(t), size |-> Size(iCode[t]), op |-> iCode[t].op, word |-> iCode[t].word,
           offsets |-> IF iCode[t].op = "onerr" /\ iCode[t].to = <<>> THEN <<0>>
                       ELSE [k \in DOMAIN iCode[t].to |-> Patch16(LabelAddress(iCode, iCode[t].to[k]) - Adr(t))]]
    BY Zenon DEF Instruction, Adr
  <2> QED BY <1>5, <1>6, <2>1
<1>9. words[n].ls = <<>> \/ \E l : words[n].ls = <<l>>
  <2>1. words[n] \in Word
    BY <1>7
  <2> QED BY <2>1 DEF Word, Plain
<1>10. CASE words[n].ls = <<>>
  <2>1. iCode[t].to = <<>>
    BY <1>5, <1>10 DEF LabelsOf
  <2>2. i.offsets = <<0>>
    BY <1>8, <2>1
  <2> QED BY <1>4, <1>6, <1>10, <2>2
<1>11. CASE words[n].ls # <<>>
  <2>1. PICK l : words[n].ls = <<l>>
    BY <1>9, <1>11
  <2>2. 1 \in DOMAIN words[n].ls /\ words[n].ls[1] = l /\ DOMAIN words[n].ls = {1}
    BY <2>1
  <2>3. DOMAIN iCode[t].to = {1} /\ iCode[t].to[1] = UserLabel(l)
    BY <1>5, <2>2 DEF LabelsOf
  <2>4. iCode[t].to # <<>>
    <3>1. DOMAIN <<>> = {}
      OBVIOUS
    <3> QED BY <2>3, <3>1
  <2>5. i.offsets = [k \in {1} |-> Patch16(LabelAddress(iCode, iCode[t].to[k]) - Adr(t))]
    BY <1>8, <2>3, <2>4
  <2>6. PICK m : m = F[LabelPlace(l)]
    OBVIOUS
  <2>7. m \in DOMAIN iCode /\ Defines(iCode[m], UserLabel(l))
    BY <2>2, <2>6, LabelStands
  <2>8. Instruction(iCode, t).offsets[1] = AddressOf(iCode, m) - AddressOf(iCode, t)
    <3>1. 1 \in DOMAIN iCode[t].to /\ Defines(iCode[m], iCode[t].to[1]) /\ iCode[t].op # "label"
      BY <1>5, <2>3, <2>7
    <3> QED BY <1>4, <1>7, <2>7, <3>1, BranchReaches
  <2>9. i.offsets[1] = Adr(m) - Adr(t)
    BY <1>6, <2>8 DEF Adr
  <2>10. Adr(m) \in Nat /\ Adr(t) \in Nat
    BY <1>4, <2>7, AdrNext
  <2>11. i.at + i.offsets[1] = Adr(m)
    BY <1>6, <2>9, <2>10
  <2>12. i.offsets[1] # 0
    <3>1. SUFFICES ASSUME i.offsets[1] = 0 PROVE FALSE
      OBVIOUS
    <3>2. i.offsets = <<0>>
      <4>1. \A k \in {1} : i.offsets[k] = 0
        BY <3>1
      <4>2. i.offsets = [k \in {1} |-> i.offsets[k]]
        BY <2>5
      <4>3. <<0>> = [k \in {1} |-> 0]
        OBVIOUS
      <4> QED BY <4>1, <4>2, <4>3
    <3>3. Size(iCode[t]) > 0
      BY <1>5 DEF Size
    <3>4. t \in DOMAIN qcode
      BY <1>4, <1>7, <3>3, InstructionOf
    <3>5. qcode[t] = Instruction(iCode, t)
      BY <1>4, <1>7, <3>3 DEF ConvertPcode
    <3>6. qcode[t].op = "onerr" /\ qcode[t].offsets = <<0>> /\ words[qcode[t].word].ls # <<>>
      BY <1>6, <1>11, <3>2, <3>5
    <3> QED BY <3>4, <3>6 DEF OnErrOfItself
  <2> QED BY <1>4, <1>6, <1>11, <2>2, <2>6, <2>11, <2>12
<1> QED BY <1>10, <1>11

\* On to the next word.
LEMMA OntoNext ==
  ASSUME NEW F, NEW H, Ready(F, H), NEW n \in 1 .. Len(words), words[n].w \notin {"ENDP", "RETURN"},
         Goes(Adr(F[n + 1]), To(n + 1))
  PROVE  \E p : Onto(F, p)
<1>1. Live(To(n + 1))
  BY LiveAfter
<1>2. n + 1 \in Nat
  BY ReadyTypes
<1>3. Spot(F, To(n + 1)) = F[n + 1]
  BY <1>2, SpotIs
<1> QED BY <1>1, <1>3 DEF Onto

\* A condition leads code and source to the same place,
LEMMA ConditionGoes ==
  ASSUME NEW F, NEW H, Ready(F, H), Together(F), RunCondition
  PROVE  (\E p : Onto(F, p)) /\ handler' = handler /\ iOnErrIP' = iOnErrIP
<1>1. ShownSame(F)
  BY Shown DEF Together
<1>2. Runs("cond") /\ handler' = handler /\ iOnErrIP' = iOnErrIP
  BY DEF RunCondition
<1>3. PICK n : n = SourceNow.word
  OBVIOUS
<1>4. PICK i : i = InstructionAt(CodeNow + 2)
  OBVIOUS
<1>5. PICK outcome \in BOOLEAN :
        Goes(IF outcome THEN i.at + i.size ELSE DoGoto(i), Decided(n, outcome))
  BY <1>3, <1>4 DEF RunCondition
<1>6. i.op = "brfalse"
  BY <1>4 DEF RunCondition
<1>7. n \in 1 .. Len(words) /\ words[n].w \in Conditions /\ CodeNow = Adr(Spot(F, Test(n)))
  <2>1. /\ n \in 1 .. Len(words)
        /\ \/ words[n].w \in Conditions /\ CodeNow = Adr(Spot(F, Test(n)))
           \/ words[n].w = "VECTOR" /\ CodeNow = Adr(F[n] + 1)
    BY <1>1, <1>2, <1>3, ShownAs
  <2>2. CASE words[n].w = "VECTOR" /\ CodeNow = Adr(F[n] + 1)
    <3>1. i.op = "vector"
      BY <1>4, <2>1, <2>2, VectorRuns
    <3> QED BY <1>6, <3>1
  <2> QED BY <2>1, <2>2
<1>8. CASE outcome = TRUE
  <2>1. Goes(i.at + i.size, To(n + 1))
    <3>1. Decided(n, TRUE) = To(n + 1)
      BY DEF Decided
    <3> QED BY <1>5, <1>8, <3>1
  <2>2. i.at + i.size = Adr(F[n + 1])
    BY <1>4, <1>7, TestRuns
  <2> QED BY <1>2, <1>7, <2>1, <2>2, OntoNext DEF Conditions
<1>9. CASE outcome = FALSE
  <2>1. PICK p : p = Decided(n, FALSE)
    OBVIOUS
  <2>2. Goes(DoGoto(i), p)
    BY <1>5, <1>9, <2>1
  <2>3. Live(p) /\ DoGoto(i) = Adr(Spot(F, p))
    BY <1>4, <1>7, <2>1, DecidedGoes
  <2> QED BY <1>2, <2>2, <2>3 DEF Onto
<1> QED BY <1>8, <1>9

\* so does VECTOR,
LEMMA VectorGoes ==
  ASSUME NEW F, NEW H, Ready(F, H), Together(F), RunVector
  PROVE  (\E p : Onto(F, p)) /\ handler' = handler /\ iOnErrIP' = iOnErrIP
<1>1. ShownSame(F)
  BY Shown DEF Together
<1>2. Runs("cond") /\ handler' = handler /\ iOnErrIP' = iOnErrIP
  BY DEF RunVector
<1>3. PICK n : n = SourceNow.word
  OBVIOUS
<1>4. PICK i : i = InstructionAt(CodeNow + 2)
  OBVIOUS
<1>5. /\ i.op = "vector"
      /\ \/ \E k \in DOMAIN i.offsets : Goes(i.at + i.offsets[k], To(LabelPlace(words[n].ls[k])))
         \/ Goes(i.at + i.size, To(n + 1))
  BY <1>3, <1>4 DEF RunVector
<1>6. n \in 1 .. Len(words) /\ words[n].w = "VECTOR" /\ CodeNow = Adr(F[n] + 1)
  <2>1. /\ n \in 1 .. Len(words)
        /\ \/ words[n].w \in Conditions /\ CodeNow = Adr(Spot(F, Test(n)))
           \/ words[n].w = "VECTOR" /\ CodeNow = Adr(F[n] + 1)
    BY <1>1, <1>2, <1>3, ShownAs
  <2>2. CASE words[n].w \in Conditions /\ CodeNow = Adr(Spot(F, Test(n)))
    <3>1. i.op = "brfalse"
      BY <1>4, <2>1, <2>2, TestRuns
    <3> QED BY <1>5, <3>1
  <2> QED BY <2>1, <2>2
<1>7. /\ i.at + i.size = Adr(F[n + 1]) /\ DOMAIN i.offsets = DOMAIN words[n].ls
      /\ \A k \in DOMAIN words[n].ls : i.at + i.offsets[k] = Adr(F[LabelPlace(words[n].ls[k])])
  BY <1>4, <1>6, VectorRuns
<1>8. CASE Goes(i.at + i.size, To(n + 1))
  BY <1>2, <1>6, <1>7, <1>8, OntoNext
<1>9. CASE \E k \in DOMAIN i.offsets : Goes(i.at + i.offsets[k], To(LabelPlace(words[n].ls[k])))
  <2>1. PICK k \in DOMAIN words[n].ls :
          Goes(i.at + i.offsets[k], To(LabelPlace(words[n].ls[k])))
    BY <1>7, <1>9
  <2>2. PICK m : m = LabelPlace(words[n].ls[k])
    OBVIOUS
  <2>3. Live(To(m)) /\ Spot(F, To(m)) = F[m]
    BY <1>6, <2>2, LabelStands
  <2>4. i.at + i.offsets[k] = Adr(F[m])
    BY <1>7, <2>2
  <2> QED BY <1>2, <2>1, <2>2, <2>3, <2>4 DEF Onto
<1> QED BY <1>5, <1>8, <1>9

\* and ONERR goes on and names the same handler.
LEMMA OnErrGoes ==
  ASSUME NEW F, NEW H, Ready(F, H), Together(F), ~OnErrOfItself, RunOnErr
  PROVE  /\ \E p : Onto(F, p)
         /\ \/ handler' = 0 /\ iOnErrIP' = None
            \/ /\ handler' \in 1 .. Len(words) /\ words[handler'].w = "LABEL"
               /\ iOnErrIP' = Adr(F[handler']) /\ F[handler'] \in DOMAIN iCode
<1>1. ShownSame(F)
  BY Shown DEF Together
<1>2. Runs("onerr")
  BY DEF RunOnErr
<1>3. PICK n : n = SourceNow.word
  OBVIOUS
<1>4. PICK i : i = InstructionAt(CodeNow)
  OBVIOUS
<1>5. n \in 1 .. Len(words) /\ words[n].w = "ONERR" /\ CodeNow = Adr(F[n] + 1)
  BY <1>1, <1>2, <1>3, ShownAs
<1>6. /\ iOnErrIP' = IF i.offsets[1] = 0 THEN None ELSE i.at + i.offsets[1]
      /\ handler' = IF words[n].ls = <<>> THEN 0 ELSE LabelPlace(words[n].ls[1])
      /\ Goes(i.at + i.size, To(n + 1))
  BY <1>3, <1>4 DEF RunOnErr
<1>7. /\ i.at + i.size = Adr(F[n + 1])
      /\ words[n].ls = <<>> => i.offsets[1] = 0
      /\ words[n].ls # <<>> =>
           /\ 1 \in DOMAIN words[n].ls
           /\ i.offsets[1] # 0 /\ i.at + i.offsets[1] = Adr(F[LabelPlace(words[n].ls[1])])
  BY <1>4, <1>5, OnErrRuns
<1>8. \E p : Onto(F, p)
  BY <1>5, <1>6, <1>7, OntoNext
<1>9. CASE words[n].ls = <<>>
  BY <1>6, <1>7, <1>8, <1>9
<1>10. CASE words[n].ls # <<>>
  <2>1. PICK m : m = LabelPlace(words[n].ls[1])
    OBVIOUS
  <2>2. m \in 1 .. Len(words) /\ words[m].w = "LABEL" /\ F[m] \in DOMAIN iCode
    BY <1>5, <1>7, <1>10, <2>1, LabelStands
  <2> QED BY <1>6, <1>7, <1>8, <1>10, <2>1, <2>2
<1> QED BY <1>9, <1>10

-----------------------------------------------------------------------------
(* What the steps of the run keep.                                          *)
Keeping ==
  \E F, H : /\ Procedure(words, iCode, F, H) /\ qcode = ConvertPcode(iCode)
            /\ ~Excused => Together(F)

\* A step that keeps code and source together keeps the invariant.
LEMMA KeptBy ==
  ASSUME NEW F, NEW H, Procedure(words, iCode, F, H), qcode = ConvertPcode(iCode), Steady,
         Excused \/ Together(F)'
  PROVE  Keeping'
<1>1. Procedure(words, iCode, F, H)'
  <2>1. words' = words /\ iCode' = iCode
    BY SteadyCode
  <2>2. Procedure(words', iCode', F, H)
    BY <2>1
  <2> QED BY <2>2
<1>2. (qcode = ConvertPcode(iCode))'
  <2>1. vocab' = vocab /\ iCode' = iCode /\ qcode' = qcode
    BY DEF Steady
  <2>2. PICK code : code = iCode
    OBVIOUS
  <2> QED BY <2>1, <2>2, ConvertKept
<1>3. (~Excused => Together(F))'
  BY SteadyCode
<1> QED BY <1>1, <1>2, <1>3 DEF Keeping

\* Code and source that go on at the same place are together.
LEMMA OntoAlike ==
  ASSUME Steady, NEW F, \E p : Onto(F, p)
  PROVE  Alike(F)'
<1>1. PICK p : Onto(F, p)
  OBVIOUS
<1> QED BY <1>1, AlikeNext DEF Onto

\* A handler that is set or cleared in both.
LEMMA HandlerSet ==
  ASSUME Steady, NEW F, NEW H, Ready(F, H),
         \/ handler' = 0 /\ iOnErrIP' = None
         \/ /\ handler' \in 1 .. Len(words) /\ words[handler'].w = "LABEL"
            /\ iOnErrIP' = Adr(F[handler']) /\ F[handler'] \in DOMAIN iCode
  PROVE  Handled(F)'
<1>1. PICK h : h = handler'
  OBVIOUS
<1>2. words' = words /\ Adr(F[h])' = Adr(F[h])
  BY SteadyCode
<1>3. CASE h = 0 /\ iOnErrIP' = None
  BY <1>1, <1>3 DEF Handled, None
<1>4. CASE h \in 1 .. Len(words) /\ words[h].w = "LABEL" /\ iOnErrIP' = Adr(F[h]) /\ F[h] \in DOMAIN iCode
  <2>1. Adr(F[h]) \in Nat /\ h # 0
    BY <1>4, AdrNext, ReadyTypes
  <2>2. iOnErrIP' # None
    BY <1>4, <2>1 DEF None
  <2>3. Adr(F[handler])' = Adr(F[h])
    BY <1>1, <1>2
  <2> QED BY <1>1, <1>2, <1>4, <2>1, <2>2, <2>3 DEF Handled, None
<1> QED BY <1>1, <1>3, <1>4

\* Every step of the run keeps code and source together.
LEMMA RunKeeps ==
  ASSUME Keeping, Run, phase' = "run"
  PROVE  Keeping'
<1>1. PICK F, H : /\ Procedure(words, iCode, F, H) /\ qcode = ConvertPcode(iCode)
                  /\ ~Excused => Together(F)
  BY DEF Keeping
<1>2. Steady
  BY DEF Run, RunStatement, RunCondition, RunVector, RunOnErr, RunReturn, StepDone, Steady, source, parser
<1>3. CASE Excused
  BY <1>1, <1>2, <1>3, KeptBy
<1>4. CASE ~Excused
  <2>1. Ready(F, H) /\ Together(F) /\ ~OnErrOfItself
    BY <1>1, <1>4 DEF Ready, Excused
  <2>2. Alike(F)' /\ Handled(F)'
    <3>1. CASE RunStatement
      <4>1. (\E p : Onto(F, p)) /\ handler' = handler /\ iOnErrIP' = iOnErrIP
        BY <2>1, <3>1, StatementGoes
      <4> QED BY <1>2, <2>1, <4>1, OntoAlike, HandledNext DEF Together
    <3>2. CASE RunCondition
      <4>1. (\E p : Onto(F, p)) /\ handler' = handler /\ iOnErrIP' = iOnErrIP
        BY <2>1, <3>2, ConditionGoes
      <4> QED BY <1>2, <2>1, <4>1, OntoAlike, HandledNext DEF Together
    <3>3. CASE RunVector
      <4>1. (\E p : Onto(F, p)) /\ handler' = handler /\ iOnErrIP' = iOnErrIP
        BY <2>1, <3>3, VectorGoes
      <4> QED BY <1>2, <2>1, <4>1, OntoAlike, HandledNext DEF Together
    <3>4. CASE RunOnErr
      <4>1. /\ \E p : Onto(F, p)
            /\ \/ handler' = 0 /\ iOnErrIP' = None
               \/ /\ handler' \in 1 .. Len(words) /\ words[handler'].w = "LABEL"
                  /\ iOnErrIP' = Adr(F[handler']) /\ F[handler'] \in DOMAIN iCode
        BY <2>1, <3>4, OnErrGoes
      <4> QED BY <1>2, <2>1, <4>1, OntoAlike, HandlerSet
    <3>5. CASE RunReturn
      BY <3>5 DEF RunReturn
    <3> QED BY <3>1, <3>2, <3>3, <3>4, <3>5 DEF Run
  <2> QED BY <1>1, <1>2, <2>2, KeptBy DEF Together
<1> QED BY <1>3, <1>4

-----------------------------------------------------------------------------
\* A run starts with code and source together,
LEMMA KeepingStart ==
  Compiled /\ ip = 0 /\ iOnErrIP = None /\ at = To(1) /\ handler = 0 => Keeping
<1> SUFFICES ASSUME Compiled, ip = 0, iOnErrIP = None, at = To(1), handler = 0 PROVE Keeping
  OBVIOUS
<1>1. PICK F, H : Procedure(words, iCode, F, H) /\ qcode = ConvertPcode(iCode)
  BY DEF Compiled
<1>2. Whole(words) /\ Laid(words, iCode, F, H) /\ IsCode(iCode)
  BY <1>1 DEF Procedure
<1>3. Len(words) \in Nat \ {0} /\ 1 \in 1 .. Len(words)
  BY <1>2 DEF Whole
<1>4. at.word = 1 /\ at.test = FALSE
  BY DEF To
<1>5. Live(at)
  <2>1. Placed(at)
    BY <1>3, <1>4 DEF Placed, To
  <2>2. ~AfterReturn(words, 1)
    BY DEF AfterReturn
  <2> QED BY <1>4, <2>1, <2>2 DEF Live
<1>6. ip = Adr(Spot(F, at))
  <2>1. Spot(F, To(1)) = F[1]
    BY SpotIs
  <2>2. F[1] = 1
    BY <1>2 DEF Laid
  <2>3. AddressOf(iCode, 1) = 0
    BY <1>2, AddressIs
  <2> QED BY <2>1, <2>2, <2>3 DEF Adr
<1> QED BY <1>1, <1>5, <1>6 DEF Keeping, Together, Alike, Handled

\* in the next state too.
LEMMA KeepingStarts ==
  ASSUME Compiled', ip' = 0, iOnErrIP' = None, at' = To(1), handler' = 0
  PROVE  Keeping'
<1>1. (Compiled /\ ip = 0 /\ iOnErrIP = None /\ at = To(1) /\ handler = 0 => Keeping)'
  BY KeepingStart, PTL
<1>2. To(1)' = To(1)
  BY DEF To
<1> QED BY <1>1, <1>2 DEF None

\* Before the first word nothing is laid out.
LEMMA NothingLaid == Init => CodeLaid
<1> SUFFICES ASSUME Init PROVE CodeLaid
  OBVIOUS
<1>1. words = <<>> /\ iCode = <<>> /\ frames = <<>> /\ iBranches = NoBranches /\ iLastWasReturn = FALSE
      /\ vocab \in Vocabularies
  BY DEF Init
<1>2. Len(words) = 0 /\ Len(iCode) = 0
  BY <1>1
<1>3. PICK F, H : F = [n \in 1 .. 1 |-> 1] /\ H = [n \in 0 .. 0 |-> NoBranches]
  OBVIOUS
<1>4. NoBranches \in Branches
  BY DEF NoBranches, Branches
<1>5. Laid(words, iCode, F, H)
  <2>1. F \in [1 .. 1 -> Nat \ {0}] /\ F[1] = 1 /\ H \in [0 .. 0 -> Branches] /\ H[0] = NoBranches
    BY <1>3, <1>4
  <2>2. Len(words) + 1 = 1 /\ Len(iCode) + 1 = 1 /\ 1 .. Len(words) = {}
    BY <1>2
  <2> QED BY <1>2, <2>1, <2>2 DEF Laid
<1>6. Saved(words, frames, iBranches, H)
  <2>1. InsideIn(words, 1) = {}
    BY DEF InsideIn
  <2>2. H[Len(words)] = iBranches /\ Len(words) + 1 = 1
    BY <1>1, <1>2, <1>3
  <2> QED BY <2>1, <2>2 DEF Saved
<1>7. ~AfterReturn(words, Len(words) + 1)
  <2>1. Len(words) + 1 = 1
    BY <1>2
  <2> QED BY <2>1 DEF AfterReturn
<1>8. Len(words) <= vocab.size
  BY <1>1, <1>2, VocabulariesAssumption
<1>9. NoEndP(words, Len(words))
  BY <1>2 DEF NoEndP
<1> QED BY <1>1, <1>5, <1>6, <1>7, <1>8, <1>9 DEF CodeLaid

Following ==
  /\ StInv
  /\ phase = "parse" => CodeLaid
  /\ phase = "run" => Keeping

\* The invariant holds at first,
LEMMA FollowingStart == Init => Following
BY StInvStart, NothingLaid DEF Following, Init

\* and every step keeps it.
LEMMA FollowingKept == Following /\ [Next]_vars => Following'
<1> SUFFICES ASSUME Following, [Next]_vars PROVE Following'
  OBVIOUS
<1>1. StInv /\ StInv'
  BY StInvKept DEF Following
<1>2. CASE UNCHANGED vars
  <2>1. /\ words' = words /\ phase' = phase /\ frames' = frames /\ iBranches' = iBranches /\ vocab' = vocab
        /\ iLastWasReturn' = iLastWasReturn /\ iCode' = iCode /\ qcode' = qcode
        /\ ip' = ip /\ iOnErrIP' = iOnErrIP /\ at' = at /\ handler' = handler
    BY <1>2 DEF vars, source, parser, running
  <2>2. phase = "parse" => CodeLaid'
    <3> HAVE phase = "parse"
    <3>1. CodeLaid
      BY DEF Following
    <3>2. \E F, H : Laid(words', iCode', F, H) /\ Saved(words', frames', iBranches', H)
      BY <2>1, <3>1 DEF CodeLaid
    <3>3. iLastWasReturn' <=> AfterReturn(words', Len(words') + 1)
      BY <2>1, <3>1 DEF CodeLaid
    <3>4. Len(words') <= vocab'.size /\ NoEndP(words', Len(words'))
      BY <2>1, <3>1 DEF CodeLaid
    <3> QED BY <3>2, <3>3, <3>4 DEF CodeLaid
  <2>3. phase = "run" => Keeping'
    <3> HAVE phase = "run"
    <3>1. PICK F, H : /\ Procedure(words, iCode, F, H) /\ qcode = ConvertPcode(iCode)
                      /\ ~Excused => Together(F)
      BY DEF Following, Keeping
    <3>2. Steady
      BY <2>1 DEF Steady
    <3>3. CASE Excused
      BY <3>1, <3>2, <3>3, KeptBy
    <3>4. CASE ~Excused
      <4>1. Live(at) /\ Goes(Adr(Spot(F, at)), at) /\ Handled(F)
        BY <2>1, <3>1, <3>4 DEF Together, Alike, Goes
      <4>2. PICK p : p = at
        OBVIOUS
      <4>3. Live(p) /\ Goes(Adr(Spot(F, p)), p)
        BY <4>1, <4>2
      <4>4. Alike(F)' /\ Handled(F)'
        BY <2>1, <3>2, <4>1, <4>3, AlikeNext, HandledNext
      <4> QED BY <3>1, <3>2, <4>4, KeptBy DEF Together
    <3> QED BY <3>3, <3>4
  <2> QED BY <1>1, <2>1, <2>2, <2>3 DEF Following
<1>3. CASE ParseWord
  <2>1. PICK wd \in vocab.words \cup {[w |-> "ENDP", ls |-> <<>>]} :
          /\ Room(wd)
          /\ \/ ParseLabel(wd) \/ ParseSimple(wd) \/ ParseVector(wd) \/ ParseOpen(wd)
             \/ ParseClause(wd) \/ ParseClose(wd) \/ ParseMisplaced(wd) \/ ParseEndP(wd)
    BY <1>3 DEF ParseWord
  <2>2. phase = "parse" /\ Parsing /\ GoodCode(words, iCode) /\ CodeLaid /\ vocab \in Vocabularies
        /\ (phase' = "parse" => Parsing')
    BY <1>1, <1>3 DEF ParseWord, StInv, Accepting, Following
  <2>3. wd \in Word /\ vocab.size \in Nat /\ vocab.size <= MaxWords
    <3>1. [w |-> "ENDP", ls |-> <<>>] \in [w : Plain, ls : {<<>>}]
      BY DEF Plain
    <3>2. [w |-> "ENDP", ls |-> <<>>] \in Word
      BY <3>1 DEF Word
    <3> QED BY <2>1, <2>2, <3>2, VocabulariesAssumption, LabelsAssumption
  <2>4. phase' \in {"parse", "failed", "run"} /\ (phase' = "run" => ParseEndP(wd)) /\ vocab' = vocab
    BY <2>1, <2>2 DEF ParseLabel, ParseSimple, ParseVector, ParseOpen, ParseClause, ParseClose,
                      ParseMisplaced, ParseEndP, Emit, Fail
  <2>5. CASE phase' = "parse"
    <3>1. CodeLaid'
      BY <2>1, <2>2, <2>3, <2>4, <2>5, WordLaid
    <3> QED BY <1>1, <2>5, <3>1 DEF Following
  <2>6. CASE phase' = "failed"
    BY <1>1, <2>6 DEF Following
  <2>7. CASE phase' = "run"
    <3>1. Compiled' /\ ip' = 0 /\ iOnErrIP' = None /\ at' = To(1) /\ handler' = 0
      BY <2>1, <2>2, <2>3, <2>4, <2>7, EndPCompiles
    <3>2. Keeping'
      BY <3>1, KeepingStarts
    <3> QED BY <1>1, <2>7, <3>2 DEF Following
  <2> QED BY <2>4, <2>5, <2>6, <2>7
<1>4. CASE Run
  <2>1. phase = "run" /\ phase' \in {"run", "ended"}
    BY <1>4 DEF Run, RunStatement, RunCondition, RunVector, RunOnErr, RunReturn, Runs
  <2>2. phase' = "run" => Keeping'
    BY <1>4, <2>1, RunKeeps DEF Following
  <2> QED BY <1>1, <2>1, <2>2 DEF Following
<1> QED BY <1>2, <1>3, <1>4 DEF Next

\* The q-code of an accepted procedure shows the user what its words say, errors
\* and their handlers included, if its branches fit 16 bits and it has neither an
\* ONERR of the label directly before it nor labels between a last RETURN and ENDP
\* on one line.
THEOREM CodeFollows == Spec => []CodeFollowsSource
<1>1. Following => CodeFollowsSource
  <2> SUFFICES ASSUME Following, phase = "run", BranchesFit, ~OnErrOfItself, ~LabelAfterReturn
               PROVE  CodeShows = SourceShows /\ (iOnErrIP = None <=> handler = 0)
    BY DEF CodeFollowsSource
  <2>1. PICK F, H : /\ Procedure(words, iCode, F, H) /\ qcode = ConvertPcode(iCode)
                    /\ ~Excused => Together(F)
    BY DEF Following, Keeping
  <2>2. Fitting(iCode)
    BY DEF BranchesFit, Fitting
  <2>3. Ready(F, H) /\ Alike(F) /\ Handled(F)
    BY <2>1, <2>2 DEF Excused, Ready, Together
  <2>4. CodeShows = SourceShows
    BY <2>3, Shown DEF ShownSame
  <2> QED BY <2>3, <2>4 DEF Handled
<1> QED BY <1>1, FollowingStart, FollowingKept, PTL DEF Spec
==============================================================================
