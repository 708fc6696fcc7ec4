--------------------------- MODULE OplGlobalsProofs ---------------------------
(***************************************************************************)
(* Proofs about the table of globals: it holds the globals of the frames   *)
(* in progress, an external is the variable of the latest caller that      *)
(* declares it, and nothing is left when the program has ended.  The       *)
(* programs are those of OplFramesProofs whose callbacks find their        *)
(* externals: the frame that a callback without one leaves behind keeps    *)
(* its globals (Resolves below).                                           *)
(*                                                                         *)
(* ~CFrame removes globals by name, in the order they were added, and      *)
(* Remove takes the first entry of the list of a name whatever it is       *)
(* called.  One such step may take the wrong entry; all of them together   *)
(* take the entries of the frame, because these are the first of the table *)
(* and there are as many of each list as are removed from it.              *)
(***************************************************************************)
EXTENDS OplStackProofs

Entries == [name : Names, owner : Frames]

-----------------------------------------------------------------------------
(* Removing from the front part of a table.                                *)

LEMMA ConcatFact ==
  ASSUME NEW S, NEW u \in Seq(S), NEW v \in Seq(S)
  PROVE  /\ u \o v \in Seq(S) /\ Len(u \o v) = Len(u) + Len(v)
         /\ \A i \in 1..Len(u) : (u \o v)[i] = u[i]
         /\ \A i \in (Len(u) + 1)..(Len(u) + Len(v)) : (u \o v)[i] = v[i - Len(u)]
<1>4. PICK m \in Nat : m = Len(u)
  BY LenProperties
<1>5. PICK n \in Nat : n = Len(v)
  BY LenProperties
<1>1. /\ u \o v \in Seq(S) /\ Len(u \o v) = m + n
      /\ \A i \in 1..(m + n) : (u \o v)[i] = IF i <= m THEN u[i] ELSE v[i - m]
  BY <1>4, <1>5, ConcatProperties
<1>2. \A i \in 1..m : i \in 1..(m + n) /\ i <= m
  OBVIOUS
<1>3. \A i \in (m + 1)..(m + n) : i \in 1..(m + n) /\ ~(i <= m)
  OBVIOUS
<1> QED BY <1>1, <1>2, <1>3, <1>4, <1>5

LEMMA RemoveAtEntries ==
  ASSUME NEW S, NEW s \in Seq(S), NEW r \in 1..Len(s)
  PROVE  /\ RemoveAt(s, r) \in Seq(S) /\ Len(RemoveAt(s, r)) = Len(s) - 1
         /\ \A i \in 1..(Len(s) - 1) : RemoveAt(s, r)[i] = IF i < r THEN s[i] ELSE s[i + 1]
<1>0. PICK m \in Nat : m = Len(s)
  BY LenProperties
<1> r \in 1..m
  BY <1>0
<1>1. \A i \in 1..m : s[i] \in S
  BY <1>0, ElementOfSeq
<1>2. PICK front : front = SubSeq(s, 1, r - 1)
  OBVIOUS
<1>3. PICK back : back = SubSeq(s, r + 1, m)
  OBVIOUS
<1>4. front \in Seq(S) /\ Len(front) = r - 1 /\ \A j \in 1..(r - 1) : front[j] = s[j]
  <2>1. \A j \in 1..(r - 1) : s[j] \in S
    BY <1>1
  <2> QED BY <1>2, <2>1, SubSeqProperties
<1>5. back \in Seq(S) /\ Len(back) = m - r /\ \A j \in 1..(m - r) : back[j] = s[r + j]
  <2>1. \A j \in (r + 1)..m : s[j] \in S
    BY <1>1
  <2>5. r + 1 \in Int /\ m \in Int
    OBVIOUS
  <2>2. /\ SubSeq(s, r + 1, m) \in Seq(S) /\ Len(SubSeq(s, r + 1, m)) = IF r + 1 <= m THEN m - (r + 1) + 1 ELSE 0
        /\ \A j \in 1..(m - (r + 1) + 1) : SubSeq(s, r + 1, m)[j] = s[r + 1 + j - 1]
    BY <2>1, <2>5, SubSeqProperties
  <2>3. (IF r + 1 <= m THEN m - (r + 1) + 1 ELSE 0) = m - r /\ m - (r + 1) + 1 = m - r
    OBVIOUS
  <2>4. \A j \in 1..(m - r) : r + 1 + j - 1 = r + j
    OBVIOUS
  <2> QED BY <1>3, <2>2, <2>3, <2>4
<1>11. PICK a \in Nat : a = r - 1
  OBVIOUS
<1>12. PICK b : b = m - r
  OBVIOUS
<1>13. b \in Nat
  BY <1>12
<1>14. front \in Seq(S) /\ back \in Seq(S) /\ a = Len(front) /\ b = Len(back)
  BY <1>4, <1>5, <1>11, <1>12
<1>6. a = r - 1 /\ b = m - r
  BY <1>11, <1>12
<1>7. /\ front \o back \in Seq(S) /\ Len(front \o back) = a + b
      /\ \A i \in 1..a : (front \o back)[i] = front[i]
      /\ \A i \in (a + 1)..(a + b) : (front \o back)[i] = back[i - a]
  BY <1>13, <1>14, ConcatFact
<1>8. a + b = m - 1
  BY <1>6, <1>13
<1>9. ASSUME NEW i \in 1..(m - 1) PROVE (front \o back)[i] = IF i < r THEN s[i] ELSE s[i + 1]
  <2>1. CASE i < r
    <3>1. i \in 1..a /\ i \in 1..(r - 1)
      BY <1>6, <1>13, <2>1
    <3> QED BY <1>4, <1>7, <2>1, <3>1
  <2>2. CASE ~(i < r)
    <3>1. i \in (a + 1)..(a + b) /\ i - a \in 1..(m - r) /\ r + (i - a) = i + 1
      BY <1>6, <1>13, <2>2
    <3> QED BY <1>5, <1>7, <2>2, <3>1
  <2> QED BY <2>1, <2>2
<1>10. RemoveAt(s, r) = front \o back
  BY <1>0, <1>2, <1>3 DEF RemoveAt
<1> QED BY <1>0, <1>7, <1>8, <1>9, <1>10

\* Removing an entry of the front part leaves the rest.
LEMMA RemoveAtFront ==
  ASSUME NEW S, NEW u \in Seq(S), NEW v \in Seq(S), NEW r \in 1..Len(u)
  PROVE  RemoveAt(u \o v, r) = RemoveAt(u, r) \o v
<1>0. PICK m \in Nat : m = Len(u)
  BY LenProperties
<1>1. PICK n \in Nat : n = Len(v)
  BY LenProperties
<1> r \in 1..m
  BY <1>0
<1>2. PICK k \in Nat : k = m - 1
  OBVIOUS
<1>3. PICK t : t = u \o v
  OBVIOUS
<1>4. PICK w : w = RemoveAt(u, r)
  OBVIOUS
<1>5. PICK q \in Nat : q = m + n
  OBVIOUS
<1>6. t \in Seq(S) /\ Len(t) = q
  BY <1>0, <1>1, <1>3, <1>5, ConcatFact
<1>15. (\A i \in 1..m : t[i] = u[i]) /\ (\A i \in (m + 1)..(m + n) : t[i] = v[i - m])
  BY <1>0, <1>1, <1>3, <1>5, ConcatFact
<1>7. w \in Seq(S) /\ Len(w) = k
  <2>1. RemoveAt(u, r) \in Seq(S) /\ Len(RemoveAt(u, r)) = m - 1
    BY <1>0, RemoveAtEntries
  <2> QED BY <1>2, <1>4, <2>1
<1>14. \A i \in 1..k : w[i] = IF i < r THEN u[i] ELSE u[i + 1]
  <2>1. \A i \in 1..(m - 1) : RemoveAt(u, r)[i] = IF i < r THEN u[i] ELSE u[i + 1]
    BY <1>0, RemoveAtEntries
  <2> QED BY <1>2, <1>4, <2>1
<1>8. r \in 1..q
  BY <1>1, <1>5
<1>9. /\ RemoveAt(t, r) \in Seq(S) /\ Len(RemoveAt(t, r)) = q - 1
      /\ \A i \in 1..(q - 1) : RemoveAt(t, r)[i] = IF i < r THEN t[i] ELSE t[i + 1]
  <2>1. RemoveAt(t, r) \in Seq(S) /\ Len(RemoveAt(t, r)) = q - 1
    BY <1>6, <1>8, RemoveAtEntries
  <2>2. \A i \in 1..(q - 1) : RemoveAt(t, r)[i] = IF i < r THEN t[i] ELSE t[i + 1]
    BY <1>6, <1>8, RemoveAtEntries
  <2> QED BY <2>1, <2>2
<1>10. /\ w \o v \in Seq(S) /\ Len(w \o v) = k + n
       /\ \A i \in 1..k : (w \o v)[i] = w[i]
       /\ \A i \in (k + 1)..(k + n) : (w \o v)[i] = v[i - k]
  BY <1>1, <1>7, ConcatFact, ZenonT(30)
<1>11. q - 1 = k + n
  BY <1>1, <1>2, <1>5
<1>12. ASSUME NEW i \in 1..(q - 1) PROVE RemoveAt(t, r)[i] = (w \o v)[i]
  <2>1. CASE i < r
    <3>1. i \in 1..k /\ i \in 1..m
      BY <1>2, <2>1
    <3> QED BY <1>9, <1>10, <1>14, <1>15, <2>1, <3>1
  <2>2. CASE ~(i < r) /\ i <= k
    <3>1. i \in 1..k /\ i + 1 \in 1..m
      BY <1>2, <2>2
    <3> QED BY <1>9, <1>10, <1>14, <1>15, <2>2, <3>1
  <2>3. CASE i > k
    <3>1. i \in (k + 1)..(k + n) /\ i + 1 \in (m + 1)..(m + n) /\ i + 1 - m = i - k /\ ~(i < r)
      BY <1>1, <1>2, <1>11, <2>3
    <3>2. t[i + 1] = v[i + 1 - m]
      BY <1>15, <3>1
    <3>3. (w \o v)[i] = v[i - k]
      BY <1>10, <3>1
    <3> QED BY <1>9, <3>1, <3>2, <3>3
  <2>4. i \in Int
    BY <1>5
  <2>5. i <= k \/ i > k
    BY <2>4
  <2> QED BY <2>1, <2>2, <2>3, <2>5
<1>13. RemoveAt(t, r) = w \o v
  BY <1>9, <1>10, <1>11, <1>12, SeqEqual
<1> QED BY <1>3, <1>4, <1>13

\* The first entry of a list of the hash table.
LEMMA FirstOfList ==
  ASSUME NEW t \in Seq(Entries), NEW n \in Names, NEW j \in 1..Len(t), Bucket[t[j].name] = Bucket[n]
  PROVE  \E r \in 1..Len(t) : r <= j /\ Bucket[t[r].name] = Bucket[n] /\ DropFirst(t, n) = RemoveAt(t, r)
<1>0. PICK N \in Nat : N = Len(t)
  BY LenProperties
<1>1. PICK I : I = {i \in 1..N : Bucket[t[i].name] = Bucket[n]}
  OBVIOUS
<1>2. I \in SUBSET Nat /\ j \in I
  BY <1>0, <1>1
<1>3. PICK r \in I : \A i \in I : r <= i
  BY <1>2, LeastNat
<1>4. Min(I) = r
  <2>1. \A x \in I : (\A y \in I : x <= y) => x = r
    BY <1>2, <1>3
  <2> QED BY <1>3, <2>1 DEF Min
<1>5. DropFirst(t, n) = RemoveAt(t, r)
  <2>1. r # 0 /\ I # {}
    BY <1>1, <1>2, <1>3
  <2>2. DropFirst(t, n) = LET k == IF I # {} THEN Min(I) ELSE 0 IN IF k = 0 THEN t ELSE RemoveAt(t, k)
    BY <1>0, <1>1 DEF DropFirst, SelectInSeq
  <2> QED BY <1>4, <2>1, <2>2
<1> QED BY <1>0, <1>1, <1>2, <1>3, <1>5

\* u has as many entries of each list as there are names in g after the first k: h pairs them.
Paired(u, g, k, h) ==
  /\ u \in Seq(Entries) /\ Len(u) = Len(g) - k
  /\ h \in [(k + 1)..Len(g) -> 1..Len(u)]
  /\ \A i, j \in (k + 1)..Len(g) : h[i] = h[j] => i = j
  /\ \A j \in (k + 1)..Len(g) : Bucket[u[h[j]].name] = Bucket[g[j]]

\* Removing the name that is next in g takes an entry of u, of the same list.
Shrinks(u, g, k, rest) == \E u2, h2 : Paired(u2, g, k + 1, h2) /\ DropFirst(u \o rest, g[k + 1]) = u2 \o rest

LEMMA DropsOne ==
  ASSUME NEW g \in Seq(Names), NEW k \in Nat, k < Len(g), NEW u, NEW h, Paired(u, g, k, h), NEW rest \in Seq(Entries)
  PROVE  Shrinks(u, g, k, rest)
<1>1. PICK m \in Nat : m = Len(g)
  BY LenProperties
<1>2. PICK l : l = m - k
  OBVIOUS
<1>3. PICK s : s = k + 1
  OBVIOUS
<1>4. l \in Nat /\ l > 0 /\ s \in Nat /\ s \in s..m /\ k < m
  BY <1>1, <1>2, <1>3
<1>5. /\ u \in Seq(Entries) /\ Len(u) = l /\ h \in [s..m -> 1..l]
      /\ \A i, j \in s..m : h[i] = h[j] => i = j
      /\ \A j \in s..m : Bucket[u[h[j]].name] = Bucket[g[j]]
  BY <1>1, <1>2, <1>3 DEF Paired
<1>6. PICK x : x = h[s]
  OBVIOUS
<1>7. x \in 1..l /\ Bucket[u[x].name] = Bucket[g[s]] /\ g[s] \in Names
  <2>1. s \in 1..Len(g)
    BY <1>1, <1>3, <1>4
  <2>2. g[s] \in Names
    BY <2>1, ElementOfSeq
  <2> QED BY <1>4, <1>5, <1>6, <2>2
<1>8. PICK t : t = u \o rest
  OBVIOUS
<1>9. PICK N \in Nat : N = Len(t) /\ l <= N /\ t \in Seq(Entries) /\ \A i \in 1..l : t[i] = u[i]
  <2>5. u \in Seq(Entries)
    BY <1>5
  <2>1. t \in Seq(Entries) /\ Len(t) = Len(u) + Len(rest) /\ \A i \in 1..Len(u) : t[i] = u[i]
    BY <1>8, <2>5, ConcatFact
  <2>2. Len(rest) \in Nat
    BY LenProperties
  <2>3. PICK z : z = Len(t)
    OBVIOUS
  <2>4. z \in Nat /\ l <= z
    BY <1>4, <1>5, <2>1, <2>2, <2>3
  <2> QED BY <1>5, <2>1, <2>3, <2>4
<1>10. PICK r \in 1..N : r <= x /\ Bucket[t[r].name] = Bucket[g[s]] /\ DropFirst(t, g[s]) = RemoveAt(t, r)
  <2>1. x \in 1..N /\ t[x] = u[x]
    BY <1>4, <1>7, <1>9
  <2>2. \E r \in 1..Len(t) : r <= x /\ Bucket[t[r].name] = Bucket[g[s]] /\ DropFirst(t, g[s]) = RemoveAt(t, r)
    <3>1. t \in Seq(Entries) /\ g[s] \in Names /\ x \in 1..Len(t) /\ Bucket[t[x].name] = Bucket[g[s]]
      BY <1>7, <1>9, <2>1
    <3> QED BY <3>1, FirstOfList
  <2> QED BY <1>9, <2>2
<1>11. r \in 1..l /\ Bucket[u[r].name] = Bucket[g[s]]
  <2>1. r \in 1..l
    BY <1>4, <1>7, <1>9, <1>10
  <2> QED BY <1>9, <1>10, <2>1
<1>12. PICK u2 : u2 = RemoveAt(u, r)
  OBVIOUS
<1>13. DropFirst(t, g[s]) = u2 \o rest
  <2>1. u \in Seq(Entries) /\ r \in 1..Len(u)
    BY <1>5, <1>11
  <2>2. RemoveAt(u \o rest, r) = RemoveAt(u, r) \o rest
    BY <2>1, RemoveAtFront
  <2> QED BY <1>8, <1>10, <1>12, <2>2
<1>14. u2 \in Seq(Entries) /\ Len(u2) = l - 1 /\ \A i \in 1..(l - 1) : u2[i] = IF i < r THEN u[i] ELSE u[i + 1]
  BY <1>5, <1>11, <1>12, RemoveAtEntries, SMTT(20)
\* The entry that took the place of r, if r was another's; then all above r move down.
<1>15. PICK p : p = [j \in (s + 1)..m |-> IF h[j] = r THEN x ELSE h[j]]
  OBVIOUS
<1>16. \A j \in (s + 1)..m : j \in s..m /\ j # s
  BY <1>4
<1>17. \A j \in (s + 1)..m : p[j] \in 1..l /\ p[j] # r /\ Bucket[u[p[j]].name] = Bucket[g[j]]
  <2> SUFFICES ASSUME NEW j \in (s + 1)..m PROVE p[j] \in 1..l /\ p[j] # r /\ Bucket[u[p[j]].name] = Bucket[g[j]]
    OBVIOUS
  <2>1. j \in s..m /\ j # s /\ h[j] \in 1..l /\ h[j] # x /\ Bucket[u[h[j]].name] = Bucket[g[j]]
    BY <1>4, <1>5, <1>6, <1>16
  <2>2. CASE h[j] = r
    BY <1>7, <1>11, <1>15, <2>1, <2>2
  <2>3. CASE h[j] # r
    BY <1>15, <2>1, <2>3
  <2> QED BY <2>2, <2>3
<1>18. \A i, j \in (s + 1)..m : p[i] = p[j] => i = j
  <2> SUFFICES ASSUME NEW i \in (s + 1)..m, NEW j \in (s + 1)..m, p[i] = p[j] PROVE i = j
    OBVIOUS
  <2>1. i \in s..m /\ j \in s..m /\ h[i] # x /\ h[j] # x
    BY <1>4, <1>5, <1>6, <1>16
  <2>2. h[i] = h[j]
    BY <1>15, <2>1
  <2> QED BY <1>5, <2>1, <2>2
<1>19. PICK h2 : h2 = [j \in (s + 1)..m |-> IF p[j] < r THEN p[j] ELSE p[j] - 1]
  OBVIOUS
<1>20. \A j \in (s + 1)..m : h2[j] \in 1..(l - 1) /\ Bucket[u2[h2[j]].name] = Bucket[g[j]]
  <2> SUFFICES ASSUME NEW j \in (s + 1)..m PROVE h2[j] \in 1..(l - 1) /\ Bucket[u2[h2[j]].name] = Bucket[g[j]]
    OBVIOUS
  <2>1. PICK y : y = p[j]
    OBVIOUS
  <2>2. y \in 1..l /\ y # r /\ Bucket[u[y].name] = Bucket[g[j]]
    BY <1>17, <2>1
  <2>3. CASE y < r
    <3>1. y \in 1..(l - 1)
      BY <1>4, <1>11, <2>2, <2>3
    <3> QED BY <1>14, <1>19, <2>1, <2>2, <2>3, <3>1
  <2>4. CASE ~(y < r)
    <3>1. y - 1 \in 1..(l - 1) /\ ~(y - 1 < r) /\ y - 1 + 1 = y
      BY <1>4, <1>11, <2>2, <2>4
    <3> QED BY <1>14, <1>19, <2>1, <2>2, <2>4, <3>1
  <2> QED BY <2>3, <2>4
<1>21. \A i, j \in (s + 1)..m : h2[i] = h2[j] => i = j
  <2> SUFFICES ASSUME NEW i \in (s + 1)..m, NEW j \in (s + 1)..m, h2[i] = h2[j] PROVE p[i] = p[j]
    BY <1>18
  <2>1. p[i] \in 1..l /\ p[i] # r /\ p[j] \in 1..l /\ p[j] # r
    BY <1>17
  <2>2. PICK a \in Int : a = p[i]
    BY <2>1
  <2>3. PICK b \in Int : b = p[j]
    BY <2>1
  <2>4. (IF a < r THEN a ELSE a - 1) = (IF b < r THEN b ELSE b - 1)
    BY <1>19, <2>2, <2>3
  <2>5. a = b
    BY <1>11, <2>1, <2>2, <2>3, <2>4
  <2> QED BY <2>2, <2>3, <2>5
<1>22. Paired(u2, g, s, h2)
  <2>1. h2 \in [(s + 1)..m -> 1..(l - 1)]
    BY <1>19, <1>20
  <2>2. m - s = l - 1
    BY <1>2, <1>3
  <2> QED BY <1>1, <1>14, <1>20, <1>21, <2>1, <2>2 DEF Paired
<1> QED BY <1>3, <1>8, <1>13, <1>22 DEF Shrinks

-----------------------------------------------------------------------------
(* ~CFrame removes the globals of its procedure one by one.                *)

\* I[1..k] is what is left of the table after the first k names of g.
Folding(I, table, g, m) ==
  I = [s \in SUBSET (1..m) |-> IF s = {} THEN table ELSE DropFirst(I[s \ {Max(s)}], g[Max(s)])]

LEMMA TopOfSet ==
  ASSUME NEW m \in Nat, NEW s \in SUBSET (1..m), m \in s
  PROVE  Max(s) = m
<1>1. \A y \in s : m >= y
  OBVIOUS
<1>2. \A x \in s : (\A y \in s : x >= y) => x = m
  BY <1>1
<1> QED BY <1>1, <1>2 DEF Max

LEMMA FoldLonger ==
  ASSUME NEW table, NEW g, NEW k \in Nat, NEW I, Folding(I, table, g, k), NEW m, m = k + 1
  PROVE  \E J : Folding(J, table, g, m)
<1> m \in Nat
  OBVIOUS
<1>1. PICK J : J = [s \in SUBSET (1..m) |-> IF m \in s THEN DropFirst(I[s \ {m}], g[m]) ELSE I[s]]
  OBVIOUS
<1>2. \A s \in SUBSET (1..m) : m \notin s => s \in SUBSET (1..k)
  OBVIOUS
<1>3. \A s \in SUBSET (1..k) : J[s] = I[s] /\ s \in SUBSET (1..m)
  <2>1. \A s \in SUBSET (1..k) : m \notin s /\ s \in SUBSET (1..m)
    OBVIOUS
  <2> QED BY <1>1, <2>1
<1>4. ASSUME NEW s \in SUBSET (1..m)
      PROVE  J[s] = IF s = {} THEN table ELSE DropFirst(J[s \ {Max(s)}], g[Max(s)])
  <2>1. CASE m \in s
    <3>1. Max(s) = m
      BY <2>1, TopOfSet
    <3>2. s \ {m} \in SUBSET (1..k)
      BY <1>2
    <3>3. J[s] = DropFirst(I[s \ {m}], g[m])
      BY <1>1, <2>1
    <3> QED BY <1>3, <2>1, <3>1, <3>2, <3>3
  <2>2. CASE m \notin s
    <3>1. s \in SUBSET (1..k) /\ s \ {Max(s)} \in SUBSET (1..k)
      BY <1>2, <2>2
    <3>2. I[s] = IF s = {} THEN table ELSE DropFirst(I[s \ {Max(s)}], g[Max(s)])
      BY <3>1 DEF Folding
    <3> QED BY <1>3, <3>1, <3>2
  <2> QED BY <2>1, <2>2
<1>5. J = [s \in SUBSET (1..m) |-> J[s]]
  BY <1>1
<1>6. J = [s \in SUBSET (1..m) |-> IF s = {} THEN table ELSE DropFirst(J[s \ {Max(s)}], g[Max(s)])]
  BY <1>4, <1>5, Zenon
<1>7. Folding(J, table, g, m)
  BY <1>6 DEF Folding
<1> QED BY <1>7

LEMMA FoldExists ==
  ASSUME NEW table, NEW g, NEW m \in Nat
  PROVE  \E I : Folding(I, table, g, m)
<1> DEFINE T == {k \in Nat : ~\E I : Folding(I, table, g, k)}
<1>1. SUFFICES ASSUME T # {} PROVE FALSE
  OBVIOUS
<1>2. PICK n \in T : \A k \in T : n <= k
  <2>1. T \in SUBSET Nat
    OBVIOUS
  <2> HIDE DEF T
  <2> QED BY <1>1, <2>1, LeastNat
<1>3. CASE n = 0
  <2>1. PICK I : I = [s \in {{}} |-> table]
    OBVIOUS
  <2>2. SUBSET (1..0) = {{}}
    OBVIOUS
  <2>3. I = [s \in SUBSET (1..0) |-> IF s = {} THEN table ELSE DropFirst(I[s \ {Max(s)}], g[Max(s)])]
    BY <2>1, <2>2
  <2> QED BY <1>3, <2>3 DEF Folding
<1>4. CASE n # 0
  <2>1. PICK k \in Nat : n = k + 1
    BY <1>2, <1>4
  <2>2. k \notin T
    BY <1>2, <2>1
  <2>3. PICK I : Folding(I, table, g, k)
    BY <2>2
  <2>4. \E J : Folding(J, table, g, n)
    BY <2>1, <2>3, FoldLonger
  <2> QED BY <1>2, <2>4
<1> QED BY <1>3, <1>4

Without(table, g) == FoldLeft(DropFirst, table, g)

Stages(I, table, g) ==
  /\ Without(table, g) = I[1..Len(g)]
  /\ I[{}] = table
  /\ \A k \in 1..Len(g) : I[1..k] = DropFirst(I[1..(k - 1)], g[k])

LEMMA FoldedNames ==
  ASSUME NEW table, NEW g \in Seq(Names)
  PROVE  \E I : Stages(I, table, g)
<1>1. PICK m \in Nat : m = Len(g) /\ DOMAIN g = 1..m
  BY LenProperties
<1>2. PICK I : I = CHOOSE J : Folding(J, table, g, m)
  OBVIOUS
<1>3. Folding(I, table, g, m)
  BY <1>2, FoldExists
<1>4. Without(table, g) = I[1..m]
  BY <1>1, <1>2 DEF Without, FoldLeft, MapThenFoldSet, Folding
<1>5. I[{}] = table
  BY <1>3 DEF Folding
<1>6. ASSUME NEW k \in 1..m PROVE I[1..k] = DropFirst(I[1..(k - 1)], g[k])
  <2>1. 1..k \in SUBSET (1..m) /\ k \in 1..k /\ k \in Nat /\ (1..k) \ {k} = 1..(k - 1)
    OBVIOUS
  <2>2. Max(1..k) = k
    BY <2>1, TopOfSet
  <2>3. I[1..k] = DropFirst(I[(1..k) \ {Max(1..k)}], g[Max(1..k)])
    BY <1>3, <2>1 DEF Folding
  <2> QED BY <2>1, <2>2, <2>3
<1> QED BY <1>1, <1>4, <1>5, <1>6 DEF Stages

LEMMA DeclaredFact ==
  ASSUME NEW p \in Procs, NEW f \in Frames
  PROVE  /\ GlobalsOf[p] \in Seq(Names) /\ Len(GlobalsOf[p]) \in Nat /\ DOMAIN GlobalsOf[p] = 1..Len(GlobalsOf[p])
         /\ Declared(p, f) \in Seq(Entries) /\ Len(Declared(p, f)) = Len(GlobalsOf[p])
         /\ \A k \in 1..Len(GlobalsOf[p]) :
              Declared(p, f)[k] = [name |-> GlobalsOf[p][Len(GlobalsOf[p]) - k + 1], owner |-> f]
<1>1. GlobalsOf[p] \in Seq(Names)
  BY TableAssumption
<1>2. PICK g \in Seq(Names) : g = GlobalsOf[p]
  BY <1>1
<1>3. PICK m \in Nat : m = Len(g) /\ DOMAIN g = 1..m
  BY LenProperties
<1>4. \A k \in 1..m : g[k] \in Names
  BY <1>3, ElementOfSeq
<1>5. PICK own : own = [k \in 1..m |-> [name |-> g[k], owner |-> f]]
  OBVIOUS
<1>6. own \in [1..m -> Entries]
  BY <1>4, <1>5 DEF Entries
<1>7. own \in Seq(Entries) /\ Len(own) = m
  BY <1>6
<1>8. Declared(p, f) = [i \in 1..m |-> own[m - i + 1]]
  BY <1>2, <1>3, <1>5, <1>7 DEF Declared, Reverse
<1>9. \A k \in 1..m : m - k + 1 \in 1..m
  OBVIOUS
<1>10. Declared(p, f) \in [1..m -> Entries]
  BY <1>6, <1>8, <1>9
<1>11. Declared(p, f) \in Seq(Entries) /\ Len(Declared(p, f)) = m
  BY <1>10
<1>12. \A k \in 1..m : Declared(p, f)[k] = [name |-> g[m - k + 1], owner |-> f]
  BY <1>5, <1>8, <1>9
<1> QED BY <1>2, <1>3, <1>11, <1>12

\* The globals of the frame pair with the names that ~CFrame removes.
LEMMA PairedAtFirst ==
  ASSUME NEW p \in Procs, NEW f \in Frames
  PROVE  \E h : Paired(Declared(p, f), GlobalsOf[p], 0, h)
<1>1. PICK g : g = GlobalsOf[p]
  OBVIOUS
<1>2. PICK m \in Nat : m = Len(g)
  BY <1>1, DeclaredFact
<1>3. PICK u : u = Declared(p, f)
  OBVIOUS
<1>4. u \in Seq(Entries) /\ Len(u) = m /\ \A k \in 1..m : u[k] = [name |-> g[m - k + 1], owner |-> f]
  BY <1>1, <1>2, <1>3, DeclaredFact
<1>5. PICK h : h = [j \in 1..m |-> m - j + 1]
  OBVIOUS
<1>6. \A j \in 1..m : h[j] \in 1..m /\ m - h[j] + 1 = j
  BY <1>5
<1>7. \A j \in 1..m : u[h[j]].name = g[j]
  BY <1>4, <1>6
<1>8. h \in [1..m -> 1..m] /\ \A i, j \in 1..m : h[i] = h[j] => i = j
  BY <1>5, <1>6
<1>9. m - 0 = m /\ 0 + 1 = 1
  OBVIOUS
<1>10. Paired(u, g, 0, h)
  BY <1>2, <1>4, <1>7, <1>8, <1>9 DEF Paired
<1> QED BY <1>1, <1>3, <1>10

\* Removing the globals of the frame made last leaves the table as it was before the frame.
LEMMA RemovesItsOwn ==
  ASSUME NEW p \in Procs, NEW f \in Frames, NEW rest \in Seq(Entries), globals = Declared(p, f) \o rest
  PROVE  RemoveGlobals(p) = rest
<1>1. PICK g \in Seq(Names) : g = GlobalsOf[p]
  BY DeclaredFact
<1>2. PICK m \in Nat : m = Len(g)
  BY LenProperties
<1>8. PICK I : Stages(I, globals, g)
  BY FoldedNames
<1>3. /\ Without(globals, g) = I[1..m]
      /\ I[{}] = globals
      /\ \A k \in 1..m : I[1..k] = DropFirst(I[1..(k - 1)], g[k])
  BY <1>2, <1>8 DEF Stages
<1> DEFINE Left(k) == \E u, h : Paired(u, g, k, h) /\ I[1..k] = u \o rest
           T == {k \in Nat : k <= m /\ ~Left(k)}
<1>4. T = {}
  <2>1. SUFFICES ASSUME T # {} PROVE FALSE
    OBVIOUS
  <2>2. PICK n \in T : \A k \in T : n <= k
    <3>1. T \in SUBSET Nat
      OBVIOUS
    <3> HIDE DEF T
    <3> QED BY <2>1, <3>1, LeastNat
  <2>3. CASE n = 0
    <3>1. 1..0 = {}
      OBVIOUS
    <3>2. PICK h : Paired(Declared(p, f), g, 0, h)
      BY <1>1, PairedAtFirst
    <3> QED BY <1>3, <2>2, <2>3, <3>1, <3>2
  <2>4. CASE n # 0
    <3>1. PICK k \in Nat : n = k + 1
      BY <2>2, <2>4
    <3>7. n <= m /\ ~(n <= k)
      BY <2>2, <3>1
    <3>8. k \notin T
      BY <2>2, <3>7
    <3>2. k < m /\ k <= m
      BY <3>1, <3>7
    <3>9. Left(k)
      <4> HIDE DEF Left
      <4> QED BY <3>2, <3>8
    <3>3. PICK u, h : Paired(u, g, k, h) /\ I[1..k] = u \o rest
      BY <3>9
    <3>4. PICK u2, h2 : Paired(u2, g, k + 1, h2) /\ DropFirst(u \o rest, g[k + 1]) = u2 \o rest
      <4>1. k < Len(g) /\ Paired(u, g, k, h)
        BY <1>2, <3>2, <3>3
      <4>2. Shrinks(u, g, k, rest)
        BY <4>1, DropsOne
      <4> QED BY <4>2 DEF Shrinks
    <3>5. I[1..n] = DropFirst(I[1..k], g[n])
      <4>1. n \in 1..m /\ n - 1 = k
        BY <2>2, <3>1, <3>2
      <4> QED BY <1>3, <4>1
    <3>6. Paired(u2, g, n, h2) /\ I[1..n] = u2 \o rest
      BY <3>1, <3>3, <3>4, <3>5
    <3> QED BY <2>2, <3>6
  <2> QED BY <2>3, <2>4
<1>5. PICK u, h : Paired(u, g, m, h) /\ I[1..m] = u \o rest
  <2>1. Left(m)
    <3> HIDE DEF Left
    <3>1. m <= m
      OBVIOUS
    <3> QED BY <1>4, <3>1
  <2> QED BY <2>1
<1>6. u = <<>>
  <2>1. u \in Seq(Entries) /\ Len(u) = m - m
    BY <1>2, <1>5 DEF Paired
  <2> QED BY <2>1, EmptySeq
<1>7. <<>> \o rest = rest
  BY ConcatEmptySeq
<1> QED BY <1>1, <1>3, <1>5, <1>6, <1>7 DEF RemoveGlobals, Without


-----------------------------------------------------------------------------
(* Types: whatever the programs do.                                        *)

LEMMA OwnerFact ==
  ASSUME NEW t \in Seq(Entries), NEW n
  PROVE  /\ Owner(t, n) \in Frames \cup {None}
         /\ (\A i \in 1..Len(t) : t[i].name # n) => Owner(t, n) = None
         /\ \A j \in 1..Len(t) : t[j].name = n =>
              \E r \in 1..Len(t) : /\ t[r].name = n /\ Owner(t, n) = t[r].owner
                                   /\ \A i \in 1..Len(t) : t[i].name = n => r <= i
<1>0. PICK N \in Nat : N = Len(t)
  BY LenProperties
<1>1. PICK I : I = {i \in 1..N : t[i].name = n}
  OBVIOUS
<1>2. I \in SUBSET Nat /\ 0 \notin I
  BY <1>1
<1>3. Owner(t, n) = LET k == IF I # {} THEN Min(I) ELSE 0 IN IF k = 0 THEN None ELSE t[k].owner
  BY <1>0, <1>1 DEF Owner, SelectInSeq
<1>4. CASE I = {}
  <2>1. Owner(t, n) = None
    BY <1>3, <1>4
  <2> QED BY <1>0, <1>1, <1>4, <2>1
<1>5. CASE I # {}
  <2>1. PICK r \in I : \A i \in I : r <= i
    BY <1>2, <1>5, LeastNat
  <2>2. Min(I) = r
    <3>1. \A x \in I : (\A y \in I : x <= y) => x = r
      BY <1>2, <2>1
    <3> QED BY <2>1, <3>1 DEF Min
  <2>3. Owner(t, n) = t[r].owner
    BY <1>2, <1>3, <1>5, <2>1, <2>2
  <2>4. r \in 1..N /\ t[r].name = n
    BY <1>1, <2>1
  <2>5. t[r] \in Entries
    BY <1>0, <2>4, ElementOfSeq
  <2>6. Owner(t, n) \in Frames
    BY <2>3, <2>5 DEF Entries
  <2> QED BY <1>0, <1>1, <2>1, <2>3, <2>4, <2>6
<1> QED BY <1>4, <1>5

LEMMA DropFirstTypes ==
  ASSUME NEW t \in Seq(Entries), NEW n
  PROVE  DropFirst(t, n) \in Seq(Entries)
<1>0. PICK N \in Nat : N = Len(t)
  BY LenProperties
<1>1. PICK I : I = {i \in 1..N : Bucket[t[i].name] = Bucket[n]}
  OBVIOUS
<1>2. I \in SUBSET Nat /\ 0 \notin I
  BY <1>1
<1>3. DropFirst(t, n) = LET k == IF I # {} THEN Min(I) ELSE 0 IN IF k = 0 THEN t ELSE RemoveAt(t, k)
  BY <1>0, <1>1 DEF DropFirst, SelectInSeq
<1>4. CASE I = {}
  BY <1>3, <1>4
<1>5. CASE I # {}
  <2>1. PICK r \in I : \A i \in I : r <= i
    BY <1>2, <1>5, LeastNat
  <2>2. Min(I) = r
    <3>1. \A x \in I : (\A y \in I : x <= y) => x = r
      BY <1>2, <2>1
    <3> QED BY <2>1, <3>1 DEF Min
  <2>3. DropFirst(t, n) = RemoveAt(t, r)
    BY <1>2, <1>3, <1>5, <2>1, <2>2
  <2>4. r \in 1..Len(t)
    BY <1>0, <1>1, <2>1
  <2>5. RemoveAt(t, r) \in Seq(Entries)
    BY <2>4, RemoveAtEntries
  <2> QED BY <2>3, <2>5
<1> QED BY <1>4, <1>5

LEMMA RemoveGlobalsTypes ==
  ASSUME globals \in Seq(Entries), NEW p \in Procs
  PROVE  RemoveGlobals(p) \in Seq(Entries)
<1>1. PICK g \in Seq(Names) : g = GlobalsOf[p]
  BY DeclaredFact, TableAssumption
<1>2. PICK m \in Nat : m = Len(g)
  BY LenProperties
<1>8. PICK I : Stages(I, globals, g)
  BY FoldedNames
<1>3. /\ Without(globals, g) = I[1..m]
      /\ I[{}] = globals
      /\ \A k \in 1..m : I[1..k] = DropFirst(I[1..(k - 1)], g[k])
  BY <1>2, <1>8 DEF Stages
<1> DEFINE T == {k \in Nat : k <= m /\ I[1..k] \notin Seq(Entries)}
<1>4. T = {}
  <2>1. SUFFICES ASSUME T # {} PROVE FALSE
    OBVIOUS
  <2>2. PICK n \in T : \A k \in T : n <= k
    <3>1. T \in SUBSET Nat
      OBVIOUS
    <3> HIDE DEF T
    <3> QED BY <2>1, <3>1, LeastNat
  <2>3. CASE n = 0
    <3>1. 1..0 = {}
      OBVIOUS
    <3> QED BY <1>3, <2>2, <2>3, <3>1
  <2>4. CASE n # 0
    <3>1. PICK k \in Nat : k = n - 1
      BY <2>2, <2>4
    <3>2. k <= m /\ ~(n <= k) /\ n \in 1..m
      BY <2>2, <2>4, <3>1
    <3>3. I[1..k] \in Seq(Entries)
      BY <2>2, <3>2
    <3>4. I[1..n] = DropFirst(I[1..k], g[n])
      BY <1>3, <3>1, <3>2
    <3>5. I[1..n] \in Seq(Entries)
      BY <3>3, <3>4, DropFirstTypes
    <3> QED BY <2>2, <3>5
  <2> QED BY <2>3, <2>4
<1>5. I[1..m] \in Seq(Entries)
  <2>1. m \notin T /\ m <= m
    BY <1>4
  <2> QED BY <2>1
<1> QED BY <1>1, <1>3, <1>5 DEF RemoveGlobals, Without


ExternsTyped(f) ==
  \A n \in DOMAIN frames[f].externs : n \in Names /\ frames[f].externs[n] \in Frames \cup {None}

TInv ==
  /\ globals \in Seq(Entries)
  /\ \A f \in DOMAIN frames : ExternsTyped(f)
  /\ dialog \in Frames \cup {None}

\* The frame that is made, and what becomes of the others.
LEMMA ConstructsTables ==
  ASSUME NEW f, NEW p, NEW prev, NEW ret, NEW base, NEW byName, ConstructFrame(f, p, prev, ret, base, byName)
  PROVE  /\ f \in Frames /\ f \notin DOMAIN frames /\ \A g \in Frames \ DOMAIN frames : f <= g
         /\ DOMAIN frames' = DOMAIN frames \cup {f}
         /\ \A g \in DOMAIN frames : frames'[g] = frames[g]
         /\ ProcOf(f)' = p /\ globals' = Declared(p, f) \o globals /\ UNCHANGED dialog
         /\ DOMAIN frames'[f].externs = ExternsOf[p]
         /\ \A n \in ExternsOf[p] : frames'[f].externs[n] = Owner(globals', n)
<1>1. PICK i \in FindProcedure(p) :
        frames' = [g \in DOMAIN frames \cup {f} |->
                     IF g = f THEN [def |-> <<i, p>>, prev |-> prev, base |-> base, ret |-> ret,
                                    onerr |-> None, evals |-> 0, byName |-> byName,
                                    externs |-> [n \in ExternsOf[p] |-> Owner(globals', n)]]
                              ELSE frames[g]]
  BY DEF ConstructFrame
<1>2. PICK x : x = [n \in ExternsOf[p] |-> Owner(globals', n)]
  OBVIOUS
<1>3. /\ DOMAIN frames' = DOMAIN frames \cup {f} /\ frames'[f].def = <<i, p>> /\ frames'[f].externs = x
      /\ \A g \in DOMAIN frames : g # f => frames'[g] = frames[g]
  BY <1>1, <1>2
<1>4. /\ f \in Frames /\ f \notin DOMAIN frames /\ \A g \in Frames \ DOMAIN frames : f <= g
      /\ globals' = Declared(p, f) \o globals /\ UNCHANGED dialog
  BY DEF ConstructFrame, AddGlobals
<1>5. ProcOf(f)' = p
  BY <1>3 DEF ProcOf
<1>6. DOMAIN x = ExternsOf[p] /\ \A n \in ExternsOf[p] : x[n] = Owner(globals', n)
  BY <1>2
<1> QED BY <1>3, <1>4, <1>5, <1>6

\* Opcodes that change a frame change its handler or its count of EVALs.
KeepsTables ==
  /\ DOMAIN frames' = DOMAIN frames /\ UNCHANGED globals
  /\ \A f \in DOMAIN frames : frames'[f].def = frames[f].def /\ frames'[f].externs = frames[f].externs

LEMMA ChangesNoTable ==
  ASSUME FramesTyped, NEW f \in DOMAIN frames, UNCHANGED globals,
         (\E x : frames' = [frames EXCEPT ![f].onerr = x]) \/ (\E x : frames' = [frames EXCEPT ![f].evals = x])
  PROVE  KeepsTables
<1>1. \A g \in DOMAIN frames : frames[g] \in FrameRecords({frames[g].externs})
  BY DEF FramesTyped
<1> QED BY <1>1 DEF KeepsTables, FrameRecords

\* A step that is not a call keeps the frames and the table of globals, or deletes the current frame.
LEMMA OtherSteps ==
  ASSUME PInv, [Next]_vars, ~Calls
  PROVE  KeepsTables \/ (Current /\ DeleteFrame(frame) /\ mode # "opx")
<1>1. FramesTyped
  BY DEF PInv, ControlTypes
<1>2. ASSUME UNCHANGED <<frames, globals>> PROVE KeepsTables
  BY <1>2 DEF KeepsTables
<1>3. CASE Push \/ Operator \/ Drop \/ Raise \/ Trap \/ Cancel \/ IoSignal \/ Stop \/ ReturnFromEval \/ Loads \/ UNCHANGED vars
  BY <1>2, <1>3 DEF Push, Operator, Drop, Raise, Trap, Cancel, IoSignal, Stop, ReturnFromEval, Loads, LoadM, UnLoadM,
                    frameVars, vars
<1>4. CASE OnErr
  BY <1>1, <1>4, ChangesNoTable DEF OnErr, Statement, Executing, Current
<1>5. CASE CallOpxFunc \/ OpxEnds \/ CallbackEnds \/ ProgramEnds \/ CloseModules \/ Trapped \/ CatchError
  BY <1>2, <1>5 DEF CallOpxFunc, OpxEnds, CallbackEnds, ProgramEnds, CloseModules, Trapped, CatchError, frameVars
<1>6. CASE Return \/ ZeroReturn \/ DropFrame \/ CloseFrame
  BY <1>6 DEF Return, ZeroReturn, RemoveFrame, DropFrame, CloseFrame, Statement, Executing, Unwinding
<1>7. CASE Eval
  <2>1. Current /\ UNCHANGED globals /\ (UNCHANGED frames \/ frames' = [frames EXCEPT ![frame].evals = @ + 1])
    BY <1>7 DEF Eval, Executing
  <2> QED BY <1>1, <1>2, <2>1, ChangesNoTable DEF Current
<1>8. CASE EvalEnds
  <2>1. /\ UNCHANGED globals /\ Last(host).frame \in DOMAIN frames
        /\ frames' = [frames EXCEPT ![Last(host).frame].evals = @ - 1]
    BY <1>8 DEF EvalEnds
  <2> QED BY <1>1, <2>1, ChangesNoTable
<1>9. CASE Dialogs
  BY <1>2, <1>9 DEF Dialogs, DInit, DItem, Dialog
<1> QED BY <1>3, <1>4, <1>5, <1>6, <1>7, <1>8, <1>9 DEF Next, Operands, Ends, Handling, Closing

\* A call makes a frame or changes nothing of the frames.
LEMMA TableSteps ==
  ASSUME PInv, [Next]_vars
  PROVE  \/ KeepsTables
         \/ \E p \in Procs : \E f \in Frames : \E prev, ret, base, byName : ConstructFrame(f, p, prev, ret, base, byName)
         \/ Current /\ DeleteFrame(frame) /\ mode # "opx"
<1>1. ASSUME UNCHANGED <<frames, globals>> PROVE KeepsTables
  BY <1>1 DEF KeepsTables
<1>2. ASSUME NEW p \in Procs, RunProcedure(p) \/ CallByName(p)
      PROVE  \/ UNCHANGED <<frames, globals>>
             \/ \E f \in Frames : \E ret, base, byName : ConstructFrame(f, p, frame, ret, base, byName)
  BY <1>2 DEF RunProcedure, CallByName, Call, CallFails, frameVars
<1>3. ASSUME NEW p \in Procs, CallProcedure(p) \/ CallProcedureUnresolved(p)
      PROVE  \E f \in Frames : \E ret, base, byName : ConstructFrame(f, p, None, ret, base, byName)
  BY <1>3 DEF CallProcedure, CallProcedureUnresolved
<1>4. CallProcedureFails => UNCHANGED <<frames, globals>>
  BY DEF CallProcedureFails, CallFails, frameVars
<1> QED BY <1>1, <1>2, <1>3, <1>4, OtherSteps DEF Calls

LEMMA DialogTypes ==
  ASSUME PInv, dialog \in Frames \cup {None}, [Next]_vars
  PROVE  dialog' \in Frames \cup {None}
<1>1. frame \in Frames \cup {None}
  BY DEF PInv, ControlTypes
<1>2. \A f : DeleteFrame(f) => dialog' \in {dialog, None}
  BY DEF DeleteFrame, DialogWithout
<1>3. \A f, p, prev, ret, base, byName : ConstructFrame(f, p, prev, ret, base, byName) => UNCHANGED dialog
  BY DEF ConstructFrame
<1>4. CASE Operands \/ Stop \/ ReturnFromEval \/ EvalEnds \/ OpxEnds \/ CallbackEnds \/ Trapped \/ CatchError
           \/ Eval \/ CallOpxFunc \/ Loads \/ ProgramEnds \/ CloseModules \/ UNCHANGED vars
  BY <1>4 DEF Operands, Push, Operator, Drop, Raise, Trap, Cancel, IoSignal, OnErr, Stop, ReturnFromEval, EvalEnds, OpxEnds,
              CallbackEnds, Trapped, CatchError, Eval, CallOpxFunc, Loads, LoadM, UnLoadM, ProgramEnds, CloseModules,
              frameVars, vars
<1>5. CASE Calls
  BY <1>3, <1>5 DEF Calls, RunProcedure, CallByName, Call, CallFails, CallProcedure, CallProcedureFails,
                    CallProcedureUnresolved, frameVars
<1>6. CASE Return \/ ZeroReturn \/ DropFrame \/ CloseFrame
  BY <1>2, <1>6 DEF Return, ZeroReturn, RemoveFrame, DropFrame, CloseFrame
<1>7. CASE Dialogs
  BY <1>1, <1>7 DEF Dialogs, DInit, DItem, Dialog
<1> QED BY <1>4, <1>5, <1>6, <1>7 DEF Next, Ends, Handling, Closing

LEMMA TInvInit == Init => TInv
<1> SUFFICES ASSUME Init PROVE TInv
  OBVIOUS
<1>1. 1 \in Frames /\ Main \in Procs
  BY ProcAssumption DEF Frames
<1>2. globals \in Seq(Entries)
  BY <1>1, DeclaredFact DEF Init
<1>3. DOMAIN frames = {1} /\ DOMAIN frames[1].externs = {}
  BY DEF Init
<1> QED BY <1>2, <1>3 DEF Init, TInv, ExternsTyped

LEMMA TInvNext == PInv /\ TInv /\ [Next]_vars => TInv'
<1> SUFFICES ASSUME PInv, TInv, [Next]_vars PROVE TInv'
  OBVIOUS
<1>1. dialog' \in Frames \cup {None}
  BY DialogTypes DEF TInv
<1>2. CASE KeepsTables
  BY <1>1, <1>2 DEF KeepsTables, TInv, ExternsTyped
<1>3. ASSUME NEW p \in Procs, NEW f \in Frames, NEW prev, NEW ret, NEW base, NEW byName,
             ConstructFrame(f, p, prev, ret, base, byName)
      PROVE  TInv'
  <2>1. /\ DOMAIN frames' = DOMAIN frames \cup {f} /\ globals' = Declared(p, f) \o globals
        /\ \A g \in DOMAIN frames : frames'[g] = frames[g]
        /\ DOMAIN frames'[f].externs = ExternsOf[p]
        /\ \A n \in ExternsOf[p] : frames'[f].externs[n] = Owner(globals', n)
    BY <1>3, ConstructsTables
  <2>2. globals' \in Seq(Entries)
    <3>1. Declared(p, f) \in Seq(Entries) /\ globals \in Seq(Entries)
      BY DeclaredFact DEF TInv
    <3> QED BY <2>1, <3>1, ConcatFact
  <2>3. \A n : Owner(globals', n) \in Frames \cup {None}
    BY <2>2, OwnerFact
  <2>4. ExternsTyped(f)'
    BY <2>1, <2>3, TableAssumption DEF ExternsTyped
  <2>5. \A g \in DOMAIN frames : ExternsTyped(g)'
    BY <2>1 DEF ExternsTyped, TInv
  <2> QED BY <1>1, <2>1, <2>2, <2>4, <2>5 DEF TInv
<1>4. CASE Current /\ DeleteFrame(frame)
  <2>1. /\ DOMAIN frames' = DOMAIN frames \ {frame} /\ globals' = RemoveGlobals(ProcOf(frame))
        /\ \A g \in DOMAIN frames' : frames'[g] = frames[g]
    BY <1>4 DEF DeleteFrame
  <2>2. ProcOf(frame) \in Procs
    BY <1>4 DEF PInv, ControlTypes, FramesTyped, FrameRecords, ProcOf, Current
  <2>3. globals' \in Seq(Entries)
    BY <2>1, <2>2, RemoveGlobalsTypes DEF TInv
  <2>4. \A g \in DOMAIN frames' : ExternsTyped(g)'
    BY <2>1 DEF ExternsTyped, TInv
  <2> QED BY <1>1, <2>3, <2>4 DEF TInv
<1> QED BY <1>2, <1>3, <1>4, TableSteps

LEMMA TablesTyped == Spec => []TInv
BY TInvInit, TInvNext, SpecKeepsPInv, PTL DEF Spec

\* Every variable of the interpreter keeps the type of its C++ counterpart, in any program: ~CFrame
\* leaves a table of globals whatever it removes (GLOBTBL.CPP), an external is the variable of a frame
\* or unknown, and the dialog under construction belongs to a frame (FRAME.CPP, PUSHOC.CPP).
THEOREM TypesCorrect == Spec => []TypeOK
<1>1. PInv /\ TInv => TypeOK
  BY DEF PInv, TInv, TypeOK, ExternsTyped, Entries
<1> QED BY <1>1, TablesTyped, SpecKeepsPInv, PTL


-----------------------------------------------------------------------------
(* The end of the program: ~COplRuntime deletes the frames from the top.   *)

\* iFrame is the highest of the frames, which are all in the stack.
ClosingShape == \E n, st, pos : Shape(n, st, pos) /\ frame = IF n = 0 THEN None ELSE st[n]

LInv ==
  /\ mode = "closing" => host = <<>> /\ ClosingShape
  /\ mode = "ended" => DOMAIN frames = {} /\ DOMAIN module = {}

LEMMA ClosingSteps ==
  ASSUME [Next]_vars
  PROVE  \/ mode \notin {"closing", "ended"} /\ mode' \notin {"closing", "ended"}
         \/ ProgramEnds \/ CloseFrame \/ CloseModules \/ UNCHANGED vars
<1>1. CASE Operands \/ Eval \/ CallOpxFunc \/ Loads \/ Dialogs
  BY <1>1 DEF Operands, Push, Operator, Drop, Raise, Trap, Cancel, IoSignal, OnErr, Eval, CallOpxFunc, Loads, LoadM, UnLoadM,
              Dialogs, DInit, DItem, Dialog, Statement, Command, Executing, Leaves
<1>2. CASE Calls
  BY <1>2 DEF Calls, RunProcedure, CallByName, Call, FinishConstruction, CallProcedure, CallProcedureFails,
              CallProcedureUnresolved, Executing, Leaves
<1>3. CASE Ends \/ Handling
  BY <1>3 DEF Ends, Stop, Return, ZeroReturn, RemoveFrame, ReturnFromEval, EvalEnds, OpxEnds, CallbackEnds, Handling, Trapped,
              CatchError, DropFrame, ClearError, GivesUp, Unwinding, Statement, Executing, Leaves
<1> QED BY <1>1, <1>2, <1>3 DEF Next, Closing

LEMMA HighestOfStack ==
  ASSUME "Unresolved" \notin Opcodes, NEW n, NEW st, NEW pos, Shape(n, st, pos)
  PROVE  /\ n = 0 => DOMAIN frames = {}
         /\ n # 0 => n > 0 /\ n \in 1..n /\ st[n] \in DOMAIN frames /\ st[n] # None
         /\ n # 0 => \A g \in DOMAIN frames : g <= st[n]
<1>1. n \in Nat /\ st \in [1..n -> Frames] /\ \A i, j \in 1..n : i < j => st[i] < st[j]
  BY DEF Shape, Ascending
<1>2. \A g \in DOMAIN frames : \E i \in 1..n : st[i] = g
  BY DEF Shape, Covering
<1>3. \A i \in 1..n : st[i] \in DOMAIN frames /\ st[i] # None
  BY StackedAllocated DEF Shape
<1>4. \A i \in 1..n : n \in 1..n /\ st[i] <= st[n]
  <2> SUFFICES ASSUME NEW i \in 1..n PROVE n \in 1..n /\ st[i] <= st[n]
    OBVIOUS
  <2>1. n \in 1..n /\ (i = n \/ i < n)
    BY <1>1
  <2>2. st[i] \in Nat /\ st[n] \in Nat
    BY <1>1, <2>1 DEF Frames
  <2>3. CASE i < n
    BY <1>1, <2>1, <2>2, <2>3
  <2>4. CASE i = n
    BY <2>2, <2>4
  <2> QED BY <2>1, <2>3, <2>4
<1>5. n = 0 => 1..n = {}
  BY <1>1
<1>6. n # 0 => n > 0 /\ n \in 1..n
  BY <1>1
<1> QED BY <1>2, <1>3, <1>4, <1>5, <1>6

\* A frame that is deleted is the one made last.
LEMMA HighestGoes ==
  ASSUME "Unresolved" \notin Opcodes, PInv, FInv, LInv, Current, mode # "opx"
  PROVE  \A g \in DOMAIN frames : g <= frame
<1>1. CASE mode \notin {"closing", "ended"}
  <2>1. PICK n, st, pos : Shape(n, st, pos) /\ Control(n, st, pos)
    BY <1>1 DEF FInv, Stacked, At
  <2>2. EvalsCounted
    BY <1>1 DEF FInv
  <2>3. n \in Nat /\ n > 0 /\ frame = st[n]
    BY <2>1, <2>2, OnTop
  <2>4. n # 0
    BY <2>3
  <2> QED BY <2>1, <2>3, <2>4, HighestOfStack
<1>2. CASE mode = "closing"
  <2>1. PICK n, st, pos : Shape(n, st, pos) /\ frame = IF n = 0 THEN None ELSE st[n]
    BY <1>2 DEF LInv, ClosingShape
  <2>2. frame # None
    BY DEF PInv, ControlTypes, FramesTyped, Current, Frames, None
  <2> QED BY <2>1, <2>2, HighestOfStack
<1>3. CASE mode = "ended"
  BY <1>3 DEF LInv
<1> QED BY <1>1, <1>2, <1>3

LEMMA LInvNext ==
  ASSUME "Unresolved" \notin Opcodes, PInv, CInv, FInv, LInv, [Next]_vars
  PROVE  LInv'
<1>1. CASE mode' \notin {"closing", "ended"}
  BY <1>1 DEF LInv
<1>2. CASE ProgramEnds
  <2>1. /\ mode \notin {"closing", "ended"} /\ host = <<>> /\ mode' = "closing"
        /\ mode = "exit" \/ mode = "leave"
    BY <1>2 DEF ProgramEnds, GivesUp, Unwinding, frameVars, hostVars
  <2>5. UNCHANGED <<frame, frames, host>>
    BY <1>2 DEF ProgramEnds, frameVars, hostVars
  <2>2. PICK n, st, pos : Shape(n, st, pos) /\ Control(n, st, pos)
    BY <2>1 DEF FInv, Stacked, At
  <2>3. frame = IF n = 0 THEN None ELSE st[n]
    <3>1. Len(host) = 0
      BY <2>1
    <3>2. AtBottom(n, pos) <=> n = 0
      BY <3>1 DEF AtBottom
    <3> QED BY <2>1, <2>2, <3>2 DEF Control
  <2>4. Shape(n, st, pos)'
    <3>1. SameFrames
      BY <2>5 DEF SameFrames
    <3> QED BY <2>2, <2>5, <3>1, ShapeKept
  <2>6. ClosingShape'
    <3>1. Shape(n, st, pos)' /\ frame' = IF n = 0 THEN None ELSE st[n]
      BY <2>3, <2>4, <2>5
    <3> QED BY <3>1 DEF ClosingShape
  <2> QED BY <2>1, <2>5, <2>6 DEF LInv
<1>3. CASE CloseFrame
  <2>1. /\ mode = "closing" /\ mode' = "closing" /\ UNCHANGED host /\ host = <<>> /\ Current /\ DeleteFrame(frame)
        /\ host \in Seq(Hosts) /\ frame # None
    BY <1>3 DEF CloseFrame, hostVars, LInv, PInv, ControlTypes, FramesTyped, Current, Frames, None
  <2>2. PICK n, st, pos : Shape(n, st, pos) /\ frame = IF n = 0 THEN None ELSE st[n]
    BY <2>1 DEF LInv, ClosingShape
  <2>3. n # 0 /\ n > 0 /\ frame = st[n]
    BY <2>1, <2>2, HighestOfStack
  <2>4. PICK m, s2 : Lower(n, st, m, s2)
    BY DEF Lower
  <2>5. Len(host) = 0 /\ \A k \in 1..Len(host) : pos[k] # n
    BY <2>1
  <2>6. DeleteFrame(st[n])
    BY <2>1, <2>3
  <2>7. m \in Nat /\ Shape(m, s2, pos)' /\ frame' = IF AtBottom(m, pos) THEN None ELSE st[m]
    BY <2>1, <2>2, <2>3, <2>4, <2>5, <2>6, FramePopped
  <2>8. AtBottom(m, pos) <=> m = 0
    BY <2>5 DEF AtBottom
  <2>9. m # 0 => s2[m] = st[m]
    <3>1. m # 0 => m \in 1..m
      BY <2>7
    <3> QED BY <2>4, <3>1 DEF Lower
  <2>10. ClosingShape'
    <3>1. Shape(m, s2, pos)' /\ frame' = IF m = 0 THEN None ELSE s2[m]
      BY <2>7, <2>8, <2>9
    <3> QED BY <3>1 DEF ClosingShape
  <2> QED BY <2>1, <2>10 DEF LInv
<1>4. CASE CloseModules
  <2>1. mode = "closing" /\ frame = None /\ mode' = "ended" /\ UNCHANGED frames
    BY <1>4 DEF CloseModules, frameVars
  <2>2. PICK n, st, pos : Shape(n, st, pos) /\ frame = IF n = 0 THEN None ELSE st[n]
    BY <2>1 DEF LInv, ClosingShape
  <2>3. DOMAIN frames = {}
    BY <2>1, <2>2, HighestOfStack
  <2>4. DOMAIN module \ Range(loaded) = {}
    BY <2>1, <2>3 DEF CInv, CountsExact, Counted
  <2>5. DOMAIN module' = {}
    BY <1>4, <2>4 DEF CloseModules
  <2> QED BY <2>1, <2>3, <2>5 DEF LInv
<1>5. CASE UNCHANGED vars
  <2>1. UNCHANGED <<mode, frame, frames, module, host>>
    BY <1>5 DEF vars, frameVars, moduleVars, hostVars
  <2>2. ASSUME ClosingShape PROVE ClosingShape'
    <3>1. PICK n, st, pos : Shape(n, st, pos) /\ frame = IF n = 0 THEN None ELSE st[n]
      BY <2>2 DEF ClosingShape
    <3>2. SameFrames
      BY <2>1 DEF SameFrames
    <3>3. Shape(n, st, pos)' /\ frame' = IF n = 0 THEN None ELSE st[n]
      BY <2>1, <3>1, <3>2, ShapeKept
    <3> QED BY <3>3 DEF ClosingShape
  <2> QED BY <2>1, <2>2 DEF LInv
<1> QED BY <1>1, <1>2, <1>3, <1>4, <1>5, ClosingSteps


-----------------------------------------------------------------------------
(* The table of globals, frame by frame.                                   *)

\* t[f] is the table as frames 1 to f made it: the globals of f are in front of those of its callers.
Tables(top, t) ==
  /\ top \in Nat /\ DOMAIN frames = 1..top
  /\ t \in [0..top -> Seq(Entries)] /\ t[0] = <<>> /\ globals = t[top]
  /\ \A f \in 1..top : /\ t[f] = Declared(ProcOf(f), f) \o t[f - 1]
                       /\ \A n \in DOMAIN frames[f].externs : frames[f].externs[n] = Owner(t[f], n)

GInv == \E top, t : Tables(top, t)

LEMMA GInvInit == Init => GInv
<1> SUFFICES ASSUME Init PROVE GInv
  OBVIOUS
<1>1. 1 \in Frames /\ Main \in Procs
  BY ProcAssumption DEF Frames
<1>2. DOMAIN frames = {1} /\ DOMAIN frames[1].externs = {} /\ ProcOf(1) = Main /\ globals = Declared(Main, 1)
  BY DEF Init, ProcOf
<1>3. globals \in Seq(Entries)
  BY <1>1, <1>2, DeclaredFact
<1>4. PICK t : t = [k \in 0..1 |-> IF k = 0 THEN <<>> ELSE globals]
  OBVIOUS
<1>5. t \in [0..1 -> Seq(Entries)] /\ t[0] = <<>> /\ t[1] = globals
  BY <1>3, <1>4
<1>6. Declared(Main, 1) \o <<>> = Declared(Main, 1)
  BY <1>2, <1>3, ConcatEmptySeq
<1>7. 1..1 = {1} /\ 1 - 1 = 0 /\ 1 \in Nat
  OBVIOUS
<1>8. Tables(1, t)
  BY <1>2, <1>5, <1>6, <1>7 DEF Tables
<1> QED BY <1>8 DEF GInv

LEMMA TablesKept ==
  ASSUME NEW top, NEW t, Tables(top, t), KeepsTables
  PROVE  Tables(top, t)'
<1>1. \A f \in DOMAIN frames : ProcOf(f)' = ProcOf(f)
  BY DEF KeepsTables, ProcOf
<1> QED BY <1>1, ZenonT(30) DEF Tables, KeepsTables

LEMMA TablesGrow ==
  ASSUME PInv, NEW top, NEW t, Tables(top, t), NEW p \in Procs, NEW f \in Frames, NEW prev, NEW ret, NEW base, NEW byName,
         ConstructFrame(f, p, prev, ret, base, byName)
  PROVE  GInv'
<1>1. /\ f \notin DOMAIN frames /\ \A g \in Frames \ DOMAIN frames : f <= g
      /\ DOMAIN frames' = DOMAIN frames \cup {f} /\ \A g \in DOMAIN frames : frames'[g] = frames[g]
      /\ ProcOf(f)' = p /\ globals' = Declared(p, f) \o globals
      /\ DOMAIN frames'[f].externs = ExternsOf[p] /\ \A n \in ExternsOf[p] : frames'[f].externs[n] = Owner(globals', n)
  BY ConstructsTables
<1>2. /\ top \in Nat /\ DOMAIN frames = 1..top
      /\ t \in [0..top -> Seq(Entries)] /\ t[0] = <<>> /\ globals = t[top]
      /\ \A g \in 1..top : /\ t[g] = Declared(ProcOf(g), g) \o t[g - 1]
                           /\ \A n \in DOMAIN frames[g].externs : frames[g].externs[n] = Owner(t[g], n)
  BY DEF Tables
<1>3. f = top + 1
  <2>1. f > top
    BY <1>1, <1>2 DEF Frames
  <2>2. top + 1 \in Frames
    BY <1>2, <2>1, ProcAssumption DEF Frames
  <2>3. top + 1 \notin DOMAIN frames
    BY <1>2
  <2>4. f <= top + 1
    BY <1>1, <2>2, <2>3
  <2> QED BY <1>2, <2>1, <2>4 DEF Frames
<1>4. PICK new : new = globals'
  OBVIOUS
<1>5. new \in Seq(Entries)
  <2>1. Declared(p, f) \in Seq(Entries) /\ globals \in Seq(Entries)
    BY <1>2, DeclaredFact
  <2> QED BY <1>1, <1>4, <2>1, ConcatFact
<1>6. PICK w : w = [k \in 0..f |-> IF k = f THEN new ELSE t[k]]
  OBVIOUS
<1>7. /\ f \in Nat /\ 0 # f /\ f - 1 = top
      /\ \A k \in 0..f : k = f \/ k \in 0..top
      /\ \A k \in 0..top : k # f /\ k \in 0..f
      /\ \A k : k \in 1..f <=> k \in 1..top \/ k = f
      /\ \A k \in 1..top : k - 1 \in 0..top /\ k \in 0..top
      /\ 0 \in 0..top /\ top \in 0..top /\ f \in 0..f
  BY <1>2, <1>3
<1>8. w \in [0..f -> Seq(Entries)] /\ w[0] = <<>> /\ w[f] = new /\ \A k \in 0..top : w[k] = t[k]
  BY <1>2, <1>5, <1>6, <1>7
<1>9. DOMAIN frames' = 1..f
  BY <1>1, <1>2, <1>7
<1>10. ASSUME NEW g \in 1..f
       PROVE  /\ w[g] = Declared(ProcOf(g)', g) \o w[g - 1]
              /\ \A n \in DOMAIN frames'[g].externs : frames'[g].externs[n] = Owner(w[g], n)
  <2>1. CASE g = f
    <3>1. w[g - 1] = globals
      BY <1>2, <1>7, <1>8, <2>1
    <3> QED BY <1>1, <1>4, <1>8, <2>1, <3>1
  <2>2. CASE g # f
    <3>1. g \in 1..top /\ g \in 0..top /\ g - 1 \in 0..top
      BY <1>7, <2>2
    <3>2. frames'[g] = frames[g] /\ ProcOf(g)' = ProcOf(g)
      BY <1>1, <1>2, <3>1 DEF ProcOf
    <3> QED BY <1>2, <1>8, <3>1, <3>2
  <2> QED BY <2>1, <2>2
<1>11. Tables(f, w)'
  <2>1. \A g : Declared(ProcOf(g), g)' = Declared(ProcOf(g)', g)
    BY DEF Declared
  <2>2. \A table, n : Owner(table, n)' = Owner(table, n)
    BY DEF Owner, SelectInSeq
  <2> QED BY <1>4, <1>7, <1>8, <1>9, <1>10, <2>1, <2>2 DEF Tables
<1> QED BY <1>11 DEF GInv

LEMMA TablesShrink ==
  ASSUME PInv, NEW top, NEW t, Tables(top, t), Current, DeleteFrame(frame), \A g \in DOMAIN frames : g <= frame
  PROVE  GInv'
<1>1. /\ DOMAIN frames' = DOMAIN frames \ {frame} /\ \A g \in DOMAIN frames' : frames'[g] = frames[g]
      /\ globals' = RemoveGlobals(ProcOf(frame))
  BY DEF DeleteFrame
<1>2. /\ top \in Nat /\ DOMAIN frames = 1..top
      /\ t \in [0..top -> Seq(Entries)] /\ t[0] = <<>> /\ globals = t[top]
      /\ \A g \in 1..top : /\ t[g] = Declared(ProcOf(g), g) \o t[g - 1]
                           /\ \A n \in DOMAIN frames[g].externs : frames[g].externs[n] = Owner(t[g], n)
  BY DEF Tables
<1>3. frame = top /\ top \in 1..top
  <2>1. frame \in 1..top
    BY <1>2 DEF Current
  <2>2. top \in 1..top
    BY <1>2, <2>1
  <2>3. top <= frame
    BY <1>2, <2>2
  <2> QED BY <1>2, <2>1, <2>2, <2>3
<1>4. PICK m : m = top - 1
  OBVIOUS
<1>5. /\ m \in Nat /\ 0 \in 0..m /\ m \in 0..m /\ m \in 0..top
      /\ \A k \in 0..m : k \in 0..top
      /\ \A k : k \in 1..m <=> k \in 1..top /\ k # top
      /\ \A k \in 1..m : k \in 0..m /\ k - 1 \in 0..m
  <2>1. top \in Nat /\ 1 <= top
    BY <1>2, <1>3
  <2>2. m \in Nat /\ m <= top /\ top = m + 1
    BY <1>4, <2>1
  <2>3. 0 \in 0..m /\ m \in 0..m /\ m \in 0..top
    BY <2>1, <2>2
  <2>4. \A k \in 0..m : k \in 0..top
    BY <2>1, <2>2
  <2>5. \A k : k \in 1..m <=> k \in 1..top /\ k # top
    BY <2>1, <2>2
  <2>6. \A k \in 1..m : k \in 0..m /\ k - 1 \in 0..m
    BY <2>2
  <2> QED BY <2>2, <2>3, <2>4, <2>5, <2>6
<1>6. globals' = t[m]
  <2>1. ProcOf(top) \in Procs /\ top \in Frames
    BY <1>3 DEF PInv, ControlTypes, FramesTyped, FrameRecords, ProcOf, Current
  <2>2. t[m] \in Seq(Entries) /\ globals = Declared(ProcOf(top), top) \o t[m]
    BY <1>2, <1>3, <1>4, <1>5
  <2> QED BY <1>1, <1>3, <2>1, <2>2, RemovesItsOwn
<1>7. PICK w : w = [k \in 0..m |-> t[k]]
  OBVIOUS
<1>8. w \in [0..m -> Seq(Entries)] /\ \A k \in 0..m : w[k] = t[k]
  BY <1>2, <1>5, <1>7
<1>9. DOMAIN frames' = 1..m
  BY <1>1, <1>2, <1>3, <1>5
<1>10. ASSUME NEW g \in 1..m
       PROVE  /\ w[g] = Declared(ProcOf(g)', g) \o w[g - 1]
              /\ \A n \in DOMAIN frames'[g].externs : frames'[g].externs[n] = Owner(w[g], n)
  <2>1. g \in 1..top /\ g \in 0..m /\ g - 1 \in 0..m
    BY <1>5
  <2>2. frames'[g] = frames[g] /\ ProcOf(g)' = ProcOf(g)
    BY <1>1, <1>9 DEF ProcOf
  <2> QED BY <1>2, <1>8, <2>1, <2>2
<1>11. Tables(m, w)'
  <2>1. \A g : Declared(ProcOf(g), g)' = Declared(ProcOf(g)', g)
    BY DEF Declared
  <2>2. \A table, n : Owner(table, n)' = Owner(table, n)
    BY DEF Owner, SelectInSeq
  <2> QED BY <1>2, <1>5, <1>6, <1>8, <1>9, <1>10, <2>1, <2>2 DEF Tables
<1> QED BY <1>11 DEF GInv

LEMMA GInvNext ==
  ASSUME "Unresolved" \notin Opcodes, PInv, FInv, LInv, GInv, [Next]_vars
  PROVE  GInv'
<1>1. PICK top, t : Tables(top, t)
  BY DEF GInv
<1>2. CASE KeepsTables
  <2>1. Tables(top, t)'
    BY <1>1, <1>2, TablesKept
  <2> QED BY <2>1 DEF GInv
<1>3. ASSUME NEW p \in Procs, NEW f \in Frames, NEW prev, NEW ret, NEW base, NEW byName,
             ConstructFrame(f, p, prev, ret, base, byName)
      PROVE  GInv'
  BY <1>1, <1>3, TablesGrow
<1>4. CASE Current /\ DeleteFrame(frame) /\ mode # "opx"
  <2>1. \A g \in DOMAIN frames : g <= frame
    BY <1>4, HighestGoes
  <2> QED BY <1>1, <1>4, <2>1, TablesShrink
<1> QED BY <1>2, <1>3, <1>4, TableSteps


\* The entries of f are together in table s.
Apart(s, own, f) ==
  \E d \in 0..(Len(s) - Len(own)) : \A k \in 1..Len(s) :
    IF k - d \in 1..Len(own) THEN s[k] = own[k - d] ELSE s[k].owner # f

LEMMA ApartInOwn ==
  ASSUME NEW own \in Seq(Entries), NEW v \in Seq(Entries), NEW f, \A k \in 1..Len(v) : v[k].owner # f
  PROVE  Apart(own \o v, own, f)
<1>1. PICK m \in Nat : m = Len(own)
  BY LenProperties
<1>2. PICK n \in Nat : n = Len(v)
  BY LenProperties
<1>3. PICK s : s = own \o v
  OBVIOUS
<1>4. /\ Len(s) = m + n /\ \A i \in 1..m : s[i] = own[i]
      /\ \A i \in (m + 1)..(m + n) : s[i] = v[i - m]
  BY <1>1, <1>2, <1>3, ConcatFact
<1>5. \A k \in 1..(m + n) : k - 0 = k /\ (k \notin 1..m => k \in (m + 1)..(m + n) /\ k - m \in 1..n)
  OBVIOUS
<1>6. \A k \in 1..(m + n) : IF k - 0 \in 1..m THEN s[k] = own[k - 0] ELSE s[k].owner # f
  BY <1>2, <1>4, <1>5
<1>7. 0 \in 0..(m + n - m)
  OBVIOUS
<1>8. PICK d : d = 0
  OBVIOUS
<1>9. d \in 0..(Len(s) - Len(own)) /\ \A k \in 1..Len(s) : IF k - d \in 1..Len(own) THEN s[k] = own[k - d] ELSE s[k].owner # f
  BY <1>1, <1>4, <1>6, <1>7, <1>8
<1>10. Apart(s, own, f)
  BY <1>9, Zenon DEF Apart
<1> QED BY <1>3, <1>10

LEMMA ApartBelow ==
  ASSUME NEW u \in Seq(Entries), NEW v \in Seq(Entries), NEW own \in Seq(Entries), NEW f,
         \A k \in 1..Len(u) : u[k].owner # f, Apart(v, own, f)
  PROVE  Apart(u \o v, own, f)
<1>1. PICK m \in Nat : m = Len(u)
  BY LenProperties
<1>2. PICK n \in Nat : n = Len(v)
  BY LenProperties
<1>8. PICK l \in Nat : l = Len(own)
  BY LenProperties
<1>3. PICK s : s = u \o v
  OBVIOUS
<1>4. /\ Len(s) = m + n /\ \A i \in 1..m : s[i] = u[i]
      /\ \A i \in (m + 1)..(m + n) : s[i] = v[i - m]
  BY <1>1, <1>2, <1>3, ConcatFact
<1>5. PICK d \in 0..(n - l) : \A k \in 1..n : IF k - d \in 1..l THEN v[k] = own[k - d] ELSE v[k].owner # f
  BY <1>2, <1>8 DEF Apart
<1>6. PICK e : e = m + d
  OBVIOUS
<1>7. e \in 0..(m + n - l)
  BY <1>5, <1>6
<1>9. ASSUME NEW k \in 1..(m + n) PROVE IF k - e \in 1..l THEN s[k] = own[k - e] ELSE s[k].owner # f
  <2>1. CASE k \in 1..m
    <3>1. k - e \notin 1..l
      BY <1>5, <1>6, <2>1
    <3> QED BY <1>1, <1>4, <2>1, <3>1
  <2>2. CASE k \notin 1..m
    <3>1. PICK i : i = k - m
      OBVIOUS
    <3>2. k \in (m + 1)..(m + n) /\ i \in 1..n /\ k - e = i - d
      BY <1>5, <1>6, <2>2, <3>1
    <3>3. s[k] = v[i]
      BY <1>4, <3>1, <3>2
    <3> QED BY <1>5, <3>2, <3>3
  <2> QED BY <2>1, <2>2
<1>10. e \in 0..(Len(s) - Len(own)) /\ \A k \in 1..Len(s) : IF k - e \in 1..Len(own) THEN s[k] = own[k - e] ELSE s[k].owner # f
  BY <1>4, <1>7, <1>8, <1>9
<1>11. Apart(s, own, f)
  BY <1>10, Zenon DEF Apart
<1> QED BY <1>3, <1>11

\* Owners are the frames up to f, and what each of them declares is together.
Ordered(f, s) ==
  /\ \A k \in 1..Len(s) : s[k].owner \in 1..f
  /\ \A g \in 1..f : Apart(s, Declared(ProcOf(g), g), g)

LEMMA OrderedNext ==
  ASSUME NEW f \in Nat, NEW v \in Seq(Entries), Ordered(f, v), NEW g, g = f + 1, NEW own \in Seq(Entries),
         own = Declared(ProcOf(g), g), \A k \in 1..Len(own) : own[k].owner = g,
         \A h \in 1..f : Declared(ProcOf(h), h) \in Seq(Entries)
  PROVE  Ordered(g, own \o v)
<1>1. \A h \in 1..g : h = g \/ h \in 1..f
  OBVIOUS
<1>2. \A h \in 1..f : h # g /\ h \in 1..g
  OBVIOUS
<1>3. g \in 1..g
  OBVIOUS
<1>4. \A k \in 1..Len(v) : v[k].owner \in 1..f
  BY DEF Ordered
<1>5. \A k \in 1..Len(v) : v[k].owner # g
  BY <1>2, <1>4
<1>6. Apart(own \o v, own, g)
  BY <1>5, ApartInOwn
<1>7. ASSUME NEW h \in 1..f PROVE Apart(own \o v, Declared(ProcOf(h), h), h)
  <2>1. \A k \in 1..Len(own) : own[k].owner # h
    BY <1>2
  <2>2. Apart(v, Declared(ProcOf(h), h), h) /\ Declared(ProcOf(h), h) \in Seq(Entries)
    BY DEF Ordered
  <2>3. PICK w \in Seq(Entries) : w = Declared(ProcOf(h), h)
    BY <2>2
  <2>4. Apart(v, w, h)
    BY <2>2, <2>3
  <2>5. Apart(own \o v, w, h)
    BY <2>1, <2>4, ApartBelow
  <2> QED BY <2>3, <2>5
<1>8. ASSUME NEW k \in 1..Len(own \o v) PROVE (own \o v)[k].owner \in 1..g
  <2>1. PICK m \in Nat : m = Len(own)
    BY LenProperties
  <2>2. PICK n \in Nat : n = Len(v)
    BY LenProperties
  <2>3. PICK s : s = own \o v
    OBVIOUS
  <2>4. /\ Len(s) = m + n /\ \A i \in 1..m : s[i] = own[i]
        /\ \A i \in (m + 1)..(m + n) : s[i] = v[i - m]
    BY <2>1, <2>2, <2>3, ConcatFact
  <2>5. k \in 1..m \/ (k \in (m + 1)..(m + n) /\ k - m \in 1..n)
    BY <2>3, <2>4
  <2> QED BY <1>2, <1>3, <1>4, <2>1, <2>2, <2>3, <2>4, <2>5
<1> QED BY <1>1, <1>6, <1>7, <1>8 DEF Ordered

LEMMA TablesOrdered ==
  ASSUME FramesTyped, NEW top, NEW t, Tables(top, t)
  PROVE  \A f \in 0..top : Ordered(f, t[f])
<1>1. /\ top \in Nat /\ DOMAIN frames = 1..top
      /\ t \in [0..top -> Seq(Entries)] /\ t[0] = <<>>
      /\ \A g \in 1..top : t[g] = Declared(ProcOf(g), g) \o t[g - 1]
  BY DEF Tables
<1>2. \A g \in 1..top : g \in Frames /\ ProcOf(g) \in Procs
  BY <1>1 DEF FramesTyped, FrameRecords, ProcOf
<1>3. ASSUME NEW g \in 1..top
      PROVE  /\ Declared(ProcOf(g), g) \in Seq(Entries)
             /\ \A k \in 1..Len(Declared(ProcOf(g), g)) : Declared(ProcOf(g), g)[k].owner = g
  <2>1. PICK p \in Procs : p = ProcOf(g)
    BY <1>2
  <2>2. g \in Frames
    BY <1>2
  <2>3. Declared(p, g) \in Seq(Entries) /\ Len(Declared(p, g)) = Len(GlobalsOf[p])
    BY <2>2, DeclaredFact
  <2>4. \A k \in 1..Len(GlobalsOf[p]) : Declared(p, g)[k] = [name |-> GlobalsOf[p][Len(GlobalsOf[p]) - k + 1], owner |-> g]
    BY <2>2, DeclaredFact
  <2>5. ASSUME NEW k \in 1..Len(Declared(p, g)) PROVE Declared(p, g)[k].owner = g
    <3>1. PICK x : x = GlobalsOf[p][Len(GlobalsOf[p]) - k + 1]
      OBVIOUS
    <3>2. Declared(p, g)[k] = [name |-> x, owner |-> g]
      BY <2>3, <2>4, <3>1
    <3> QED BY <3>2
  <2> QED BY <2>1, <2>3, <2>5
<1> DEFINE T == {f \in Nat : f <= top /\ ~Ordered(f, t[f])}
<1>4. SUFFICES ASSUME T # {} PROVE FALSE
  <2>1. \A f \in 0..top : f \in Nat /\ f <= top
    BY <1>1
  <2>2. T = {} => \A f \in 0..top : Ordered(f, t[f])
    BY <2>1
  <2> QED BY <2>2
<1>5. PICK g \in T : \A f \in T : g <= f
  <2>1. T \in SUBSET Nat
    OBVIOUS
  <2> HIDE DEF T
  <2> QED BY <1>4, <2>1, LeastNat
<1>6. CASE g = 0
  <2>1. Len(t[0]) = 0
    BY <1>1
  <2>2. 1..0 = {}
    OBVIOUS
  <2>3. Ordered(0, t[0])
    BY <2>1, <2>2 DEF Ordered
  <2> QED BY <1>5, <1>6, <2>3
<1>7. CASE g # 0
  <2>1. PICK f \in Nat : f = g - 1
    BY <1>5, <1>7
  <2>2. f <= top /\ ~(g <= f) /\ g \in 1..top /\ f \in 0..top /\ g = f + 1 /\ \A h \in 1..f : h \in 1..top
    BY <1>1, <1>5, <1>7, <2>1
  <2>3. Ordered(f, t[f])
    BY <1>5, <2>2
  <2>4. t[g] = Declared(ProcOf(g), g) \o t[f]
    BY <1>1, <2>1, <2>2
  <2>5. t[f] \in Seq(Entries)
    BY <1>1, <2>2
  <2>6. PICK own \in Seq(Entries) : own = Declared(ProcOf(g), g)
    BY <1>3, <2>2
  <2>7. \A k \in 1..Len(own) : own[k].owner = g
    BY <1>3, <2>2, <2>6
  <2>8. \A h \in 1..f : Declared(ProcOf(h), h) \in Seq(Entries)
    BY <1>3, <2>2
  <2>9. Ordered(g, own \o t[f])
    BY <2>2, <2>3, <2>5, <2>6, <2>7, <2>8, OrderedNext
  <2> QED BY <1>5, <2>4, <2>6, <2>9
<1> QED BY <1>6, <1>7

LEMMA TablesAreExact == PInv /\ GInv => GlobalsExact
<1> SUFFICES ASSUME PInv, GInv PROVE GlobalsExact
  OBVIOUS
<1>1. PICK top, t : Tables(top, t)
  BY DEF GInv
<1>2. FramesTyped
  BY DEF PInv, ControlTypes
<1>3. top \in Nat /\ DOMAIN frames = 1..top /\ globals = t[top] /\ globals \in Seq(Entries)
  <2>1. top \in Nat /\ t \in [0..top -> Seq(Entries)] /\ DOMAIN frames = 1..top /\ globals = t[top]
    BY <1>1 DEF Tables
  <2>2. top \in 0..top
    BY <2>1
  <2> QED BY <2>1, <2>2
<1>4. Ordered(top, globals)
  <2>1. top \in 0..top
    BY <1>3
  <2> QED BY <1>1, <1>2, <1>3, <2>1, TablesOrdered
<1>5. DOMAIN globals = 1..Len(globals)
  BY <1>3, LenProperties
<1>6. ASSUME NEW f \in DOMAIN frames
      PROVE  LET own == Declared(ProcOf(f), f) IN
             \E d \in 0..(Len(globals) - Len(own)) : \A k \in DOMAIN globals :
               IF k - d \in DOMAIN own THEN globals[k] = own[k - d] ELSE globals[k].owner # f
  <2>1. f \in Frames /\ ProcOf(f) \in Procs
    BY <1>2 DEF FramesTyped, FrameRecords, ProcOf
  <2>2. PICK own : own = Declared(ProcOf(f), f)
    OBVIOUS
  <2>3. own \in Seq(Entries)
    BY <2>1, <2>2, DeclaredFact
  <2>4. DOMAIN own = 1..Len(own)
    BY <2>3, LenProperties
  <2>5. Apart(globals, own, f)
    BY <1>3, <1>4, <2>2 DEF Ordered
  <2> QED BY <1>5, <2>2, <2>4, <2>5 DEF Apart
<1> QED BY <1>3, <1>4, <1>5, <1>6 DEF GlobalsExact, Ordered


-----------------------------------------------------------------------------
(* Externals.                                                              *)

\* Looking a name up in the table of a frame and its callers.
LEMMA OwnerAbove ==
  ASSUME NEW p \in Procs, NEW f \in Frames, NEW v \in Seq(Entries), NEW n
  PROVE  Owner(Declared(p, f) \o v, n) = IF n \in Range(GlobalsOf[p]) THEN f ELSE Owner(v, n)
<1>1. PICK g : g = GlobalsOf[p]
  OBVIOUS
<1>2. PICK u : u = Declared(p, f)
  OBVIOUS
<1>3. PICK m \in Nat : m = Len(g)
  BY <1>1, DeclaredFact
<1>4. u \in Seq(Entries) /\ Len(u) = m /\ DOMAIN g = 1..m /\ \A k \in 1..m : u[k] = [name |-> g[m - k + 1], owner |-> f]
  BY <1>1, <1>2, <1>3, DeclaredFact
<1>5. \A k \in 1..m : m - k + 1 \in 1..m /\ m - (m - k + 1) + 1 = k
  OBVIOUS
<1>6. \A k \in 1..m : u[k].name = g[m - k + 1] /\ u[k].owner = f
  BY <1>4
<1>7. PICK l \in Nat : l = Len(v)
  BY LenProperties
<1>8. PICK s : s = u \o v
  OBVIOUS
<1>9. /\ s \in Seq(Entries) /\ Len(s) = m + l
      /\ \A i \in 1..m : s[i] = u[i]
      /\ \A i \in (m + 1)..(m + l) : s[i] = v[i - m]
  <2>1. u \in Seq(Entries) /\ Len(u) = m
    BY <1>4
  <2> QED BY <1>7, <1>8, <2>1, ConcatFact
<1>10. n \in Range(g) <=> \E k \in 1..m : u[k].name = n
  <2>1. n \in Range(g) <=> \E j \in 1..m : g[j] = n
    BY <1>4 DEF Range
  <2>2. ASSUME NEW j \in 1..m, g[j] = n PROVE \E k \in 1..m : u[k].name = n
    <3>1. PICK k : k = m - j + 1
      OBVIOUS
    <3>2. k \in 1..m /\ m - k + 1 = j
      BY <1>5, <3>1
    <3> QED BY <1>6, <2>2, <3>2
  <2>3. ASSUME NEW k \in 1..m, u[k].name = n PROVE \E j \in 1..m : g[j] = n
    BY <1>5, <1>6, <2>3
  <2> QED BY <2>1, <2>2, <2>3
<1>11. \A i \in 1..(m + l) : i \in 1..m \/ (i \in (m + 1)..(m + l) /\ i - m \in 1..l)
  OBVIOUS
<1>12. CASE n \in Range(g)
  <2>1. PICK k \in 1..m : u[k].name = n
    BY <1>10, <1>12
  <2>2. k \in 1..Len(s) /\ s[k].name = n
    BY <1>9, <2>1
  <2>3. PICK r \in 1..Len(s) : s[r].name = n /\ Owner(s, n) = s[r].owner /\ \A i \in 1..Len(s) : s[i].name = n => r <= i
    BY <1>9, <2>2, OwnerFact
  <2>4. r <= k
    BY <2>2, <2>3
  <2>5. r \in 1..m
    BY <1>9, <2>1, <2>4
  <2>6. Owner(s, n) = f
    BY <1>6, <1>9, <2>3, <2>5
  <2> QED BY <1>1, <1>2, <1>8, <1>12, <2>6
<1>13. CASE n \notin Range(g)
  <2>1. \A i \in 1..m : s[i].name # n
    BY <1>9, <1>10, <1>13
  <2>2. CASE \A i \in 1..l : v[i].name # n
    <3>1. Owner(v, n) = None
      BY <1>7, <2>2, OwnerFact
    <3>2. \A i \in 1..Len(s) : s[i].name # n
      BY <1>9, <1>11, <2>1, <2>2
    <3>3. Owner(s, n) = None
      BY <1>9, <3>2, OwnerFact
    <3> QED BY <1>1, <1>2, <1>8, <1>13, <3>1, <3>3
  <2>3. CASE \E i \in 1..l : v[i].name = n
    <3>1. PICK q \in 1..Len(v) : v[q].name = n /\ Owner(v, n) = v[q].owner /\ \A i \in 1..Len(v) : v[i].name = n => q <= i
      BY <1>7, <2>3, OwnerFact
    <3>2. PICK z : z = m + q
      OBVIOUS
    <3>3. q \in 1..l /\ z \in (m + 1)..(m + l) /\ z - m = q /\ z \in 1..(m + l)
      BY <1>7, <3>1, <3>2
    <3>4. s[z] = v[q]
      BY <1>9, <3>3
    <3>5. z \in 1..Len(s) /\ s[z].name = n
      BY <1>9, <3>1, <3>3, <3>4
    <3>6. PICK r \in 1..Len(s) : s[r].name = n /\ Owner(s, n) = s[r].owner /\ \A i \in 1..Len(s) : s[i].name = n => r <= i
      BY <1>9, <3>5, OwnerFact
    <3>7. r <= z
      BY <3>5, <3>6
    <3>8. r \in (m + 1)..(m + l) /\ r - m \in 1..l
      BY <1>9, <1>11, <2>1, <3>6
    <3>9. s[r] = v[r - m]
      BY <1>9, <3>8
    <3>10. q <= r - m
      BY <1>7, <3>1, <3>6, <3>8, <3>9
    <3>11. r = z
      BY <3>2, <3>3, <3>7, <3>8, <3>10
    <3> QED BY <1>1, <1>2, <1>8, <1>13, <3>1, <3>4, <3>6, <3>11
  <2> QED BY <2>2, <2>3
<1> QED BY <1>1, <1>12, <1>13

\* The frames up to f that declare n.
Declaring(f, n) == {g \in DOMAIN frames : g <= f /\ n \in Range(GlobalsOf[ProcOf(g)])}

Latest(f, n, owner) == owner = IF Declaring(f, n) = {} THEN None ELSE Max(Declaring(f, n))

LEMMA TablesFindLatest ==
  ASSUME FramesTyped, NEW top, NEW t, Tables(top, t), NEW n
  PROVE  \A f \in 0..top : Latest(f, n, Owner(t[f], n))
<1>1. /\ top \in Nat /\ DOMAIN frames = 1..top
      /\ t \in [0..top -> Seq(Entries)] /\ t[0] = <<>>
      /\ \A g \in 1..top : t[g] = Declared(ProcOf(g), g) \o t[g - 1]
  BY DEF Tables
<1>2. \A g \in 1..top : g \in Frames /\ ProcOf(g) \in Procs
  BY <1>1 DEF FramesTyped, FrameRecords, ProcOf
<1> DEFINE T == {f \in Nat : f <= top /\ ~Latest(f, n, Owner(t[f], n))}
<1>4. SUFFICES ASSUME T # {} PROVE FALSE
  <2>1. \A f \in 0..top : f \in Nat /\ f <= top
    BY <1>1
  <2>2. T = {} => \A f \in 0..top : Latest(f, n, Owner(t[f], n))
    BY <2>1
  <2> QED BY <2>2
<1>5. PICK f \in T : \A g \in T : f <= g
  <2>1. T \in SUBSET Nat
    OBVIOUS
  <2> HIDE DEF T
  <2> QED BY <1>4, <2>1, LeastNat
<1>6. CASE f = 0
  <2>1. t[0] \in Seq(Entries) /\ Len(t[0]) = 0
    BY <1>1
  <2>2. 1..0 = {}
    OBVIOUS
  <2>3. Owner(t[0], n) = None
    BY <2>1, <2>2, OwnerFact
  <2>4. \A g \in 1..top : ~(g <= 0)
    OBVIOUS
  <2>5. Declaring(0, n) = {}
    BY <1>1, <2>4 DEF Declaring
  <2> QED BY <1>5, <1>6, <2>3, <2>5 DEF Latest
<1>7. CASE f # 0
  <2>1. PICK e \in Nat : e = f - 1
    BY <1>5, <1>7
  <2>2. e <= top /\ ~(f <= e) /\ f \in 1..top /\ e \in 0..top
    BY <1>1, <1>5, <1>7, <2>1
  <2>3. Latest(e, n, Owner(t[e], n))
    BY <1>5, <2>2
  <2>4. Owner(t[f], n) = IF n \in Range(GlobalsOf[ProcOf(f)]) THEN f ELSE Owner(t[e], n)
    <3>1. t[f] = Declared(ProcOf(f), f) \o t[e] /\ t[e] \in Seq(Entries)
      BY <1>1, <2>1, <2>2
    <3>2. f \in Frames /\ ProcOf(f) \in Procs
      BY <1>2, <2>2
    <3> QED BY <3>1, <3>2, OwnerAbove
  <2>5. \A g \in 1..top : g <= f <=> (g <= e \/ g = f)
    BY <2>1, <2>2
  <2>6. CASE n \in Range(GlobalsOf[ProcOf(f)])
    <3>1. f \in Declaring(f, n) /\ \A g \in Declaring(f, n) : f >= g
      BY <1>1, <2>2, <2>6 DEF Declaring
    <3>2. \A x \in Declaring(f, n) : x \in Nat
      BY <1>1 DEF Declaring
    <3>3. Max(Declaring(f, n)) = f
      <4>1. \A x \in Declaring(f, n) : (\A y \in Declaring(f, n) : x >= y) => x = f
        BY <2>2, <3>1, <3>2
      <4> QED BY <3>1, <4>1 DEF Max
    <3> QED BY <1>5, <2>4, <2>6, <3>1, <3>3 DEF Latest
  <2>7. CASE n \notin Range(GlobalsOf[ProcOf(f)])
    <3>1. Declaring(f, n) = Declaring(e, n)
      BY <1>1, <2>5, <2>7 DEF Declaring
    <3> QED BY <1>5, <2>3, <2>4, <2>7, <3>1 DEF Latest
  <2> QED BY <2>6, <2>7
<1> QED BY <1>6, <1>7

Knows(f) == \A n \in DOMAIN frames[f].externs : frames[f].externs[n] # None

\* Frames know their externals, but for the one that a call has just failed to enter.
RInv == mode \notin {"closing", "ended"} => \A f \in DOMAIN frames : Knows(f) \/ (f = frame /\ Unresolved(f))

LEMMA UnresolvedGoes ==
  ASSUME PInv, Current, Unresolved(frame), [Next]_vars
  PROVE  DropFrame \/ UNCHANGED vars
<1>1. mode = "leave" /\ ~trap /\ frame # None /\ ~Evaluates(frame) /\ frames[frame].onerr = None
  BY DEF Unresolved, PInv, ControlTypes, FramesTyped, Current, Frames, None, Evaluates
<1>2. ~(Operands \/ Eval \/ CallOpxFunc \/ Loads \/ Dialogs)
  BY <1>1 DEF Operands, Push, Operator, Drop, Raise, Trap, Cancel, IoSignal, OnErr, Eval, CallOpxFunc, Loads, LoadM, UnLoadM,
              Dialogs, DInit, DItem, Dialog, Statement, Command, Executing
<1>3. ~Calls
  BY <1>1 DEF Calls, RunProcedure, CallByName, CallProcedure, CallProcedureFails, CallProcedureUnresolved, Executing
<1>4. ~(Ends \/ Trapped \/ CatchError \/ Closing)
  BY <1>1 DEF Ends, Stop, Return, ZeroReturn, ReturnFromEval, EvalEnds, OpxEnds, CallbackEnds, Trapped, CatchError, Closing,
              ProgramEnds, CloseFrame, CloseModules, GivesUp, Unwinding, Statement, Executing
<1> QED BY <1>2, <1>3, <1>4 DEF Next, Handling

LEMMA RInvNext ==
  ASSUME "Unresolved" \notin Opcodes, PInv, TInv, TrapInv, RInv, [Next]_vars
  PROVE  RInv'
<1>1. CASE mode' \in {"closing", "ended"}
  BY <1>1 DEF RInv
<1>2. CASE mode \in {"closing", "ended"}
  BY <1>1, <1>2, ClosingEnds
<1>3. CASE mode \notin {"closing", "ended"} /\ \E f \in DOMAIN frames : ~Knows(f)
  <2>1. Current /\ Unresolved(frame) /\ \A f \in DOMAIN frames : f # frame => Knows(f)
    BY <1>3 DEF RInv, Current
  <2>2. CASE DropFrame
    <3>1. DOMAIN frames' = DOMAIN frames \ {frame} /\ \A f \in DOMAIN frames' : frames'[f] = frames[f]
      BY <2>2 DEF DropFrame, DeleteFrame
    <3>2. \A f \in DOMAIN frames' : Knows(f)'
      BY <2>1, <3>1 DEF Knows
    <3> QED BY <3>2 DEF RInv
  <2>3. CASE UNCHANGED vars
    <3>1. UNCHANGED <<mode, trap, frame, frames>>
      BY <2>3 DEF vars, frameVars
    <3> QED BY <3>1 DEF RInv, Knows, Unresolved
  <2> QED BY <2>1, <2>2, <2>3, UnresolvedGoes
<1>4. CASE mode \notin {"closing", "ended"} /\ \A f \in DOMAIN frames : Knows(f)
  <2>1. CASE KeepsTables
    <3>1. \A f \in DOMAIN frames' : Knows(f)'
      BY <1>4, <2>1 DEF Knows, KeepsTables
    <3> QED BY <3>1 DEF RInv
  <2>2. CASE Current /\ DeleteFrame(frame)
    <3>1. DOMAIN frames' = DOMAIN frames \ {frame} /\ \A f \in DOMAIN frames' : frames'[f] = frames[f]
      BY <2>2 DEF DeleteFrame
    <3>2. \A f \in DOMAIN frames' : Knows(f)'
      BY <1>4, <3>1 DEF Knows
    <3> QED BY <3>2 DEF RInv
  <2>3. ASSUME NEW p \in Procs, NEW f \in Frames, NEW prev, NEW ret, NEW base, NEW byName,
               ConstructFrame(f, p, prev, ret, base, byName),
               Resolved(p, Declared(p, f) \o globals) \/ (frame' = f /\ mode' = "leave" /\ ~trap')
        PROVE  RInv'
    <3>1. /\ DOMAIN frames' = DOMAIN frames \cup {f} /\ globals' = Declared(p, f) \o globals
          /\ \A g \in DOMAIN frames : frames'[g] = frames[g]
          /\ DOMAIN frames'[f].externs = ExternsOf[p]
          /\ \A n \in ExternsOf[p] : frames'[f].externs[n] = Owner(globals', n)
      BY <2>3, ConstructsTables
    <3>2. \A g \in DOMAIN frames : Knows(g)'
      BY <1>4, <3>1 DEF Knows
    <3>3. CASE Resolved(p, Declared(p, f) \o globals)
      <4>1. Knows(f)'
        BY <3>1, <3>3 DEF Knows, Resolved
      <4> QED BY <3>1, <3>2, <4>1 DEF RInv
    <3>4. CASE frame' = f /\ mode' = "leave" /\ ~trap'
      <4>1. frames'[f].onerr = None /\ frames'[f].evals = 0
        BY <2>3 DEF ConstructFrame
      <4>2. Unresolved(f)'
        BY <3>4, <4>1 DEF Unresolved
      <4> QED BY <3>1, <3>2, <3>4, <4>2 DEF RInv
    <3> QED BY <2>3, <3>3, <3>4
  <2>4. ASSUME NEW p \in Procs, RunProcedure(p) \/ CallByName(p) PROVE RInv'
    <3>1. PICK taken, byName : mode = "run" /\ Call(p, taken, byName)
      BY <2>4 DEF RunProcedure, CallByName, Executing
    <3>2. ~trap'
      BY <3>1 DEF Call, TrapInv
    <3>3. CASE CallFails
      <4>1. KeepsTables
        BY <3>3 DEF CallFails, frameVars, KeepsTables
      <4> QED BY <2>1, <4>1
    <3>4. ASSUME NEW f \in Frames, NEW ret, ConstructFrame(f, p, frame, ret, sp + 1, byName),
                 FinishConstruction(f, p, ret), frame' = f
          PROVE  RInv'
      <4>1. Resolved(p, Declared(p, f) \o globals) \/ (frame' = f /\ mode' = "leave" /\ ~trap')
        BY <3>2, <3>4 DEF FinishConstruction, AddGlobals, Leaves
      <4> QED BY <2>3, <3>4, <4>1
    <3> QED BY <3>1, <3>3, <3>4 DEF Call
  <2>5. ASSUME NEW p \in Procs, CallProcedure(p) PROVE RInv'
    <3>1. PICK f \in Frames : ConstructFrame(f, p, None, ip, sp', TRUE)
      BY <2>5 DEF CallProcedure
    <3>2. PICK base : base = sp'
      OBVIOUS
    <3>3. Resolved(p, Declared(p, f) \o globals)
      <4>1. \A n \in ExternsOf[p] : Owner(globals, n) # None
        BY <2>5 DEF CallProcedure, Resolved
      <4>2. globals \in Seq(Entries)
        BY DEF TInv
      <4>3. \A n : Owner(Declared(p, f) \o globals, n) = IF n \in Range(GlobalsOf[p]) THEN f ELSE Owner(globals, n)
        BY <4>2, OwnerAbove
      <4>4. f # None
        BY DEF Frames, None
      <4> QED BY <4>1, <4>3, <4>4 DEF Resolved
    <3> QED BY <2>3, <3>1, <3>2, <3>3
  <2>6. ASSUME NEW p \in Procs, CallProcedureUnresolved(p) PROVE RInv'
    BY <2>6 DEF CallProcedureUnresolved
  <2>7. CASE CallProcedureFails
    <3>1. KeepsTables
      BY <2>7 DEF CallProcedureFails, CallFails, frameVars, KeepsTables
    <3> QED BY <2>1, <3>1
  <2>8. Calls => RInv'
    BY <2>4, <2>5, <2>6, <2>7 DEF Calls
  <2>9. CASE ~Calls
    BY <2>1, <2>2, <2>9, OtherSteps
  <2> QED BY <2>8, <2>9
<1> QED BY <1>1, <1>2, <1>3, <1>4


LEMMA TablesFindCallers == PInv /\ GInv /\ RInv => ExternsAreCallers
<1> SUFFICES ASSUME PInv, GInv, RInv, mode = "run", NEW f \in DOMAIN frames, NEW n \in DOMAIN frames[f].externs
             PROVE  LET declaring == {g \in DOMAIN frames : g <= f /\ n \in Range(GlobalsOf[ProcOf(g)])}
                    IN  declaring # {} /\ frames[f].externs[n] = Max(declaring)
  BY DEF ExternsAreCallers
<1>1. PICK top, t : Tables(top, t)
  BY DEF GInv
<1>2. FramesTyped
  BY DEF PInv, ControlTypes
<1>3. f \in 0..top /\ frames[f].externs[n] = Owner(t[f], n)
  <2>1. top \in Nat /\ DOMAIN frames = 1..top
    BY <1>1 DEF Tables
  <2>2. f \in 1..top /\ f \in 0..top
    BY <2>1
  <2> QED BY <1>1, <2>2 DEF Tables
<1>4. Latest(f, n, Owner(t[f], n))
  BY <1>1, <1>2, <1>3, TablesFindLatest
<1>5. frames[f].externs[n] # None
  BY DEF RInv, Knows, Unresolved
<1>6. Declaring(f, n) # {} /\ frames[f].externs[n] = Max(Declaring(f, n))
  BY <1>3, <1>4, <1>5 DEF Latest
<1> QED BY <1>6 DEF Declaring

LEMMA TablesGone == GInv /\ LInv => NothingIsLeft
<1> SUFFICES ASSUME GInv, LInv, mode = "ended" PROVE DOMAIN frames = {} /\ DOMAIN module = {} /\ globals = <<>>
  BY DEF NothingIsLeft
<1>1. PICK top, t : Tables(top, t)
  BY DEF GInv
<1>2. DOMAIN frames = {} /\ DOMAIN module = {}
  BY DEF LInv
<1>3. top = 0
  <2>1. top \in Nat /\ 1..top = {}
    BY <1>1, <1>2 DEF Tables
  <2>2. top # 0 => 1 \in 1..top
    BY <2>1
  <2> QED BY <2>1, <2>2
<1>4. globals = <<>>
  BY <1>1, <1>3 DEF Tables
<1> QED BY <1>2, <1>4

\* Callbacks find the externals of their procedures: the frame of one that does not is in nobody's
\* hands (OPLAPI.CPP), and it keeps its globals until the program has ended.
Resolves == "Unresolved" \notin Opcodes

LEMMA TablesAreKept ==
  ASSUME TrapSpent, Resolves
  PROVE  Spec /\ StopsProgram => [](GInv /\ LInv /\ RInv)
<1> DEFINE IInv == FInv /\ TrapInv /\ ("Trap" \notin Opcodes => ~trap) /\ GInv /\ LInv /\ RInv
<1>1. Init => IInv
  <2>1. Init => TrapInv /\ ("Trap" \notin Opcodes => ~trap)
    BY DEF Init, TrapInv
  <2>2. Init => LInv
    BY DEF Init, LInv
  <2>3. Init => RInv
    BY DEF Init, RInv, Knows
  <2> QED BY <2>1, <2>2, <2>3, FInvInit, GInvInit
<1>2. PInv /\ CInv /\ TInv /\ IInv /\ [Next]_vars /\ [Stop => host = <<>> \/ Leaves]_vars => IInv'
  <2> SUFFICES ASSUME PInv, CInv, TInv, IInv, [Next]_vars, [Stop => host = <<>> \/ Leaves]_vars PROVE IInv'
    OBVIOUS
  <2>1. FInv' /\ TrapInv' /\ ("Trap" \notin Opcodes => ~trap')
    BY FInvNext, TrapKept, StopsAreSteps
  <2>2. GInv' /\ LInv' /\ RInv'
    BY GInvNext, LInvNext, RInvNext DEF Resolves
  <2> QED BY <2>1, <2>2
<1>3. IInv => GInv /\ LInv /\ RInv
  OBVIOUS
<1>4. Spec => []CInv
  BY CInvInit, CInvNext, SpecKeepsPInv, PTL DEF Spec
<1> HIDE DEF IInv
<1> QED BY <1>1, <1>2, <1>3, <1>4, TablesTyped, SpecKeepsPInv, PTL DEF Spec, StopsProgram

\* The table of globals holds the globals of the frames that exist, each frame's own and in order, and
\* no others, however long the lists of its hash table: ~CFrame calls Remove by name (FRAME.CPP,
\* GLOBTBL.CPP) and yet takes its own, also for frames that errors unwind or failed calls began.
THEOREM GlobalsAreExact ==
  ASSUME TrapSpent, Resolves
  PROVE  Spec /\ StopsProgram => []GlobalsExact
<1>1. Spec /\ StopsProgram => [](GInv /\ LInv /\ RInv)
  BY TablesAreKept
<1> QED BY <1>1, TablesAreExact, SpecKeepsPInv, PTL

\* Globals have dynamic scope: every external of a procedure in progress is the variable of the latest
\* of the procedures in progress that declares it (GetExternsL and Find, FRAME.CPP and GLOBTBL.CPP).
THEOREM ExternalsAreCallers ==
  ASSUME TrapSpent, Resolves
  PROVE  Spec /\ StopsProgram => []ExternsAreCallers
<1>1. Spec /\ StopsProgram => [](GInv /\ LInv /\ RInv)
  BY TablesAreKept
<1> QED BY <1>1, TablesFindCallers, SpecKeepsPInv, PTL

\* What a program has allocated is gone when it ends, wherever STOP or an error ended it: ~COplRuntime
\* deletes the frames from the top, their counts release the modules and their globals leave the table.
THEOREM NothingStays ==
  ASSUME TrapSpent, Resolves
  PROVE  Spec /\ StopsProgram => []NothingIsLeft
<1>1. Spec /\ StopsProgram => [](GInv /\ LInv /\ RInv)
  BY TablesAreKept
<1> QED BY <1>1, TablesGone, PTL

=============================================================================
