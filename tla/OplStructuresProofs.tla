------------------------- MODULE OplStructuresProofs -------------------------
(***************************************************************************)
(* Proofs that the parser and the back end refuse exactly the procedures   *)
(* whose structures do not nest, go too deep or lack a loop, or whose      *)
(* labels are defined twice or missing, for any vocabularies, procedures   *)
(* of any size and any limit of the depth.                                 *)
(*                                                                         *)
(* The words decide by counting: a word's depth is the openers less the    *)
(* closers before it, and it stands in the openers that no closer has      *)
(* answered.  The parser decides by its activations and counters.  The     *)
(* proof relates the two word by word (Places), and keeps, for every label *)
(* the code names, whose it is: the user's, one already defined, or one    *)
(* that an activation in progress will define (Pending).                   *)
(*                                                                         *)
(* The run is typed because what is looked up is there: a structure of a   *)
(* whole procedure has its end, its beginning and its next clause, a label *)
(* its word, a branch its address.                                         *)
(***************************************************************************)
EXTENDS OplStructures, SequenceTheorems, FiniteSetTheorems, WellFoundedInduction, TLAPS

-----------------------------------------------------------------------------
(* How deep a word of a procedure stands, and in which structures.         *)
WordsTo(ws, P, n) == {k \in 1 .. n - 1 : ws[k].w \in P}
DepthIn(ws, n) == Cardinality(WordsTo(ws, Openers, n)) - Cardinality(WordsTo(ws, Closers, n))
InsideIn(ws, n) ==
  {k \in 1 .. n - 1 : /\ ws[k].w \in Openers /\ DepthIn(ws, k) < DepthIn(ws, n)
                      /\ \A j \in k + 1 .. n : DepthIn(ws, j) > DepthIn(ws, k)}

\* A part of an interval is finite.
LEMMA PartOfInterval ==
  ASSUME NEW n \in Nat, NEW S, S \subseteq 1 .. n
  PROVE  IsFiniteSet(S)
<1>1. IsFiniteSet(1 .. n)
  BY FS_Interval
<1> QED BY <1>1, FS_Subset

\* One more word of P is one more in the count.
LEMMA CountStep ==
  ASSUME NEW n \in Nat \ {0}, NEW ws, NEW P
  PROVE  /\ IsFiniteSet(WordsTo(ws, P, n)) /\ Cardinality(WordsTo(ws, P, n)) \in Nat
         /\ ws[n].w \in P => Cardinality(WordsTo(ws, P, n + 1)) = Cardinality(WordsTo(ws, P, n)) + 1
         /\ ws[n].w \notin P => Cardinality(WordsTo(ws, P, n + 1)) = Cardinality(WordsTo(ws, P, n))
<1> DEFINE S == WordsTo(ws, P, n)
<1>1. S \subseteq 1 .. n - 1
  BY DEF WordsTo
<1>2. IsFiniteSet(1 .. n - 1)
  BY FS_Interval
<1>3. IsFiniteSet(S) /\ Cardinality(S) \in Nat
  BY <1>1, <1>2, FS_Subset, FS_CardinalityType
<1>4. n \notin S
  BY DEF WordsTo
<1>5. ws[n].w \in P => WordsTo(ws, P, n + 1) = S \cup {n}
  BY DEF WordsTo
<1>6. ws[n].w \notin P => WordsTo(ws, P, n + 1) = S
  BY DEF WordsTo
<1>7. Cardinality(S \cup {n}) = Cardinality(S) + 1
  <2> HIDE DEF S
  <2> QED BY <1>3, <1>4, FS_AddElement
<1> QED BY <1>3, <1>5, <1>6, <1>7

\* The depth changes with the words that open or close a structure.
LEMMA DepthStep ==
  ASSUME NEW ws, NEW n \in Nat \ {0}
  PROVE  /\ DepthIn(ws, n) \in Int
         /\ ws[n].w \in Openers => DepthIn(ws, n + 1) = DepthIn(ws, n) + 1
         /\ ws[n].w \in Closers => DepthIn(ws, n + 1) = DepthIn(ws, n) - 1
         /\ ws[n].w \notin Openers \cup Closers => DepthIn(ws, n + 1) = DepthIn(ws, n)
<1> DEFINE o(m) == Cardinality(WordsTo(ws, Openers, m))
           c(m) == Cardinality(WordsTo(ws, Closers, m))
<1>1. /\ o(n) \in Nat
      /\ ws[n].w \in Openers => o(n + 1) = o(n) + 1
      /\ ws[n].w \notin Openers => o(n + 1) = o(n)
  BY CountStep
<1>2. /\ c(n) \in Nat
      /\ ws[n].w \in Closers => c(n + 1) = c(n) + 1
      /\ ws[n].w \notin Closers => c(n + 1) = c(n)
  BY CountStep
<1>3. ~(ws[n].w \in Openers /\ ws[n].w \in Closers)
  BY DEF Openers, Closers
<1> QED BY <1>1, <1>2, <1>3 DEF DepthIn

\* The first word stands in nothing.
LEMMA DepthAtStart ==
  ASSUME NEW ws
  PROVE  DepthIn(ws, 1) = 0 /\ InsideIn(ws, 1) = {}
<1>1. WordsTo(ws, Openers, 1) = {} /\ WordsTo(ws, Closers, 1) = {} /\ InsideIn(ws, 1) = {}
  BY DEF WordsTo, InsideIn
<1> QED BY <1>1, FS_EmptySet DEF DepthIn

\* Both are of the words before, whatever comes after.
LEMMA DepthOfPrefix ==
  ASSUME NEW ws, NEW vs, NEW n \in Nat, \A k \in 1 .. n - 1 : vs[k] = ws[k], NEW m \in 1 .. n
  PROVE  DepthIn(vs, m) = DepthIn(ws, m) /\ InsideIn(vs, m) = InsideIn(ws, m)
<1>1. \A j \in 1 .. n : DepthIn(vs, j) = DepthIn(ws, j)
  <2>1. ASSUME NEW j \in 1 .. n, NEW P PROVE WordsTo(vs, P, j) = WordsTo(ws, P, j)
    <3>1. \A k \in 1 .. j - 1 : vs[k] = ws[k]
      OBVIOUS
    <3> QED BY <3>1 DEF WordsTo
  <2> QED BY <2>1 DEF DepthIn
<1>2. ASSUME NEW k \in 1 .. m - 1
      PROVE  k \in InsideIn(vs, m) <=> k \in InsideIn(ws, m)
  <2>1. vs[k].w = ws[k].w /\ DepthIn(vs, k) = DepthIn(ws, k) /\ DepthIn(vs, m) = DepthIn(ws, m)
    BY <1>1
  <2>2. \A j \in k + 1 .. m : DepthIn(vs, j) = DepthIn(ws, j)
    BY <1>1
  <2> QED BY <2>1, <2>2 DEF InsideIn
<1>3. InsideIn(vs, m) \subseteq 1 .. m - 1 /\ InsideIn(ws, m) \subseteq 1 .. m - 1
  BY DEF InsideIn
<1> QED BY <1>1, <1>2, <1>3

\* The next word stands in the same structures, in the one just opened too,
\* and no more in one that is as deep.
LEMMA InsideStep ==
  ASSUME NEW ws, NEW n \in Nat \ {0}, NEW k
  PROVE  k \in InsideIn(ws, n + 1) <=>
           /\ k \in InsideIn(ws, n) \/ (k = n /\ ws[n].w \in Openers)
           /\ DepthIn(ws, k) < DepthIn(ws, n + 1)
<1>1. CASE k = n
  <2>1. n \notin InsideIn(ws, n)
    BY DEF InsideIn
  <2>2. n \in InsideIn(ws, n + 1) <=> ws[n].w \in Openers /\ DepthIn(ws, n) < DepthIn(ws, n + 1)
    <3>1. n \in 1 .. (n + 1) - 1 /\ (n + 1) .. (n + 1) = {n + 1}
      OBVIOUS
    <3> QED BY <3>1, DepthStep DEF InsideIn
  <2> QED BY <1>1, <2>1, <2>2
<1>2. CASE k \in 1 .. n - 1
  <2>1. \A j \in k + 1 .. n + 1 : j = n + 1 \/ j \in k + 1 .. n
    BY <1>2
  <2>2. n \in k + 1 .. n /\ n + 1 \in k + 1 .. n + 1 /\ \A j \in k + 1 .. n : j \in k + 1 .. n + 1
    BY <1>2
  <2>3. DepthIn(ws, k) \in Int /\ DepthIn(ws, n) \in Int /\ DepthIn(ws, n + 1) \in Int
    BY <1>2, DepthStep
  <2>4. k \in 1 .. (n + 1) - 1 /\ k # n
    BY <1>2
  <2> QED BY <1>2, <2>1, <2>2, <2>3, <2>4 DEF InsideIn
<1>3. CASE k \notin 1 .. n
  <2>1. k \notin 1 .. n - 1 /\ k \notin 1 .. (n + 1) - 1 /\ k # n
    BY <1>3
  <2> QED BY <2>1 DEF InsideIn
<1>4. k \in 1 .. n => k = n \/ k \in 1 .. n - 1
  OBVIOUS
<1> QED BY <1>1, <1>2, <1>3, <1>4

-----------------------------------------------------------------------------
(* The activations of StructureL and the words they stand for.             *)
Kinds == {"IF", "ELSE", "DO", "WHILE"}
Branches == [EFalse : Nat, EBreak : Nat, EContinue : Nat, EExit : Nat,
             next : Nat, depth : Nat, loop : Nat]
Activations == Seq([kind : Kinds, saved : Branches])
OpenerOf(kind) == IF kind = "ELSE" THEN "IF" ELSE kind

\* An ELSE stands between word k and word n, at depth d.
ElseIn(ws, k, n, d) == \E m \in k + 1 .. n : ws[m].w = "ELSE" /\ DepthIn(ws, m) = d

\* The activations fs, from the outermost, were opened by the words at p.
Places(ws, fs, p) ==
  /\ p \in [1 .. Len(fs) -> 1 .. Len(ws)]
  /\ \A i, j \in 1 .. Len(fs) : i < j => p[i] < p[j]
  /\ \A k : k \in InsideIn(ws, Len(ws) + 1) <=> \E j \in 1 .. Len(fs) : k = p[j]
  /\ Cardinality(InsideIn(ws, Len(ws) + 1)) = Len(fs)
  /\ DepthIn(ws, Len(ws) + 1) = Len(fs)
  /\ \A j \in 1 .. Len(fs) :
       /\ DepthIn(ws, p[j]) = j - 1 /\ ws[p[j]].w = OpenerOf(fs[j].kind)
       /\ fs[j].kind = "IF" => ~ElseIn(ws, p[j], Len(ws), j)
       /\ fs[j].kind = "ELSE" => ElseIn(ws, p[j], Len(ws), j)

\* A sequence with one more element.
LEMMA Appended ==
  ASSUME NEW S, NEW s \in Seq(S), NEW x \in S
  PROVE  /\ Append(s, x) \in Seq(S) /\ Len(Append(s, x)) = Len(s) + 1
         /\ Append(s, x)[Len(s) + 1] = x /\ Len(s) \in Nat
         /\ \A k \in 1 .. Len(s) : Append(s, x)[k] = s[k]
BY AppendProperties, LenProperties

\* A word more does not change what is said of those before.
LEMMA NextWord ==
  ASSUME NEW ws \in Seq(Word), NEW wd \in Word
  PROVE  /\ \A m \in 1 .. Len(ws) + 1 : /\ DepthIn(Append(ws, wd), m) = DepthIn(ws, m)
                                        /\ InsideIn(Append(ws, wd), m) = InsideIn(ws, m)
         /\ \A k, d : k \in 1 .. Len(ws) =>
              (ElseIn(Append(ws, wd), k, Len(ws) + 1, d) <=>
                 \/ ElseIn(ws, k, Len(ws), d)
                 \/ wd.w = "ELSE" /\ DepthIn(ws, Len(ws) + 1) = d)
<1>1. PICK n \in Nat : n = Len(ws)
  BY LenProperties
<1>2. PICK vs : vs = Append(ws, wd)
  OBVIOUS
<1>3. vs[n + 1] = wd /\ \A k \in 1 .. n : vs[k] = ws[k]
  BY <1>1, <1>2, Appended
<1>4. \A m \in 1 .. n + 1 : DepthIn(vs, m) = DepthIn(ws, m) /\ InsideIn(vs, m) = InsideIn(ws, m)
  <2>1. n + 1 \in Nat /\ \A k \in 1 .. (n + 1) - 1 : vs[k] = ws[k]
    BY <1>3
  <2> QED BY <2>1, DepthOfPrefix
<1>5. ASSUME NEW k \in 1 .. n, NEW d
      PROVE  ElseIn(vs, k, n + 1, d) <=>
               ElseIn(ws, k, n, d) \/ (wd.w = "ELSE" /\ DepthIn(ws, n + 1) = d)
  <2>1. \A m : m \in k + 1 .. n + 1 <=> m = n + 1 \/ m \in k + 1 .. n
    OBVIOUS
  <2>2. \A m \in k + 1 .. n : vs[m] = ws[m] /\ DepthIn(vs, m) = DepthIn(ws, m)
    BY <1>3, <1>4
  <2>3. vs[n + 1] = wd /\ DepthIn(vs, n + 1) = DepthIn(ws, n + 1)
    BY <1>3, <1>4
  <2> QED BY <2>1, <2>2, <2>3 DEF ElseIn
<1> QED BY <1>1, <1>2, <1>4, <1>5

\* Where the word after the next stands.
LEMMA WordAfter ==
  ASSUME NEW ws \in Seq(Word), NEW wd \in Word
  PROVE  /\ \A k : k \in InsideIn(Append(ws, wd), Len(ws) + 2) <=>
              /\ k \in InsideIn(ws, Len(ws) + 1) \/ (k = Len(ws) + 1 /\ wd.w \in Openers)
              /\ DepthIn(ws, k) < DepthIn(Append(ws, wd), Len(ws) + 2)
         /\ DepthIn(ws, Len(ws) + 1) \in Int
         /\ wd.w \in Openers => DepthIn(Append(ws, wd), Len(ws) + 2) = DepthIn(ws, Len(ws) + 1) + 1
         /\ wd.w \in Closers => DepthIn(Append(ws, wd), Len(ws) + 2) = DepthIn(ws, Len(ws) + 1) - 1
         /\ wd.w \notin Openers \cup Closers =>
              DepthIn(Append(ws, wd), Len(ws) + 2) = DepthIn(ws, Len(ws) + 1)
<1>1. PICK n \in Nat \ {0} : n = Len(ws) + 1
  BY LenProperties
<1>2. PICK vs : vs = Append(ws, wd)
  OBVIOUS
<1>3. n + 1 = Len(ws) + 2
  BY <1>1, LenProperties
<1>4. vs[n] = wd
  BY <1>1, <1>2, Appended
<1>5. \A m \in 1 .. n : DepthIn(vs, m) = DepthIn(ws, m) /\ InsideIn(vs, m) = InsideIn(ws, m)
  BY <1>1, <1>2, NextWord
<1>6. DepthIn(vs, n) = DepthIn(ws, n) /\ InsideIn(vs, n) = InsideIn(ws, n) /\ DepthIn(ws, n) \in Int
  BY <1>5, DepthStep
<1>7. \A k : k \in InsideIn(ws, n) \/ k = n => k \in 1 .. n
  BY DEF InsideIn
<1>8. ASSUME NEW k
      PROVE  k \in InsideIn(vs, n + 1) <=>
               /\ k \in InsideIn(ws, n) \/ (k = n /\ wd.w \in Openers)
               /\ DepthIn(ws, k) < DepthIn(vs, n + 1)
  <2>1. k \in InsideIn(vs, n + 1) <=>
          /\ k \in InsideIn(vs, n) \/ (k = n /\ vs[n].w \in Openers)
          /\ DepthIn(vs, k) < DepthIn(vs, n + 1)
    BY InsideStep
  <2> QED BY <1>4, <1>5, <1>6, <1>7, <2>1
<1>9. /\ wd.w \in Openers => DepthIn(vs, n + 1) = DepthIn(vs, n) + 1
      /\ wd.w \in Closers => DepthIn(vs, n + 1) = DepthIn(vs, n) - 1
      /\ wd.w \notin Openers \cup Closers => DepthIn(vs, n + 1) = DepthIn(vs, n)
  BY <1>4, DepthStep
<1> QED BY <1>1, <1>2, <1>3, <1>6, <1>8, <1>9

\* A word that is neither a structure's first nor its last.
LEMMA PlaceWithin ==
  ASSUME NEW ws \in Seq(Word), NEW wd \in Word, wd.w \notin Openers \cup Closers \cup {"ELSE"},
         NEW fs \in Activations, NEW p, Places(ws, fs, p)
  PROVE  Places(Append(ws, wd), fs, p)
<1>1. PICK n \in Nat : n = Len(ws)
  BY LenProperties
<1>2. PICK d \in Nat : d = Len(fs)
  BY LenProperties DEF Activations
<1>3. PICK vs : vs = Append(ws, wd)
  OBVIOUS
<1>4. Len(vs) = n + 1 /\ \A k \in 1 .. n : vs[k] = ws[k]
  BY <1>1, <1>3, Appended
<1>5. n + 2 = (n + 1) + 1
  OBVIOUS
<1>6. /\ p \in [1 .. d -> 1 .. n] /\ \A i, j \in 1 .. d : i < j => p[i] < p[j]
      /\ \A k : k \in InsideIn(ws, n + 1) <=> \E j \in 1 .. d : k = p[j]
      /\ Cardinality(InsideIn(ws, n + 1)) = d /\ DepthIn(ws, n + 1) = d
      /\ \A j \in 1 .. d :
           /\ DepthIn(ws, p[j]) = j - 1 /\ ws[p[j]].w = OpenerOf(fs[j].kind)
           /\ fs[j].kind = "IF" => ~ElseIn(ws, p[j], n, j)
           /\ fs[j].kind = "ELSE" => ElseIn(ws, p[j], n, j)
  BY <1>1, <1>2 DEF Places
<1>7. /\ \A k : k \in InsideIn(vs, n + 2) <=>
           k \in InsideIn(ws, n + 1) /\ DepthIn(ws, k) < DepthIn(vs, n + 2)
      /\ DepthIn(vs, n + 2) = DepthIn(ws, n + 1)
  BY <1>1, <1>3, WordAfter
<1>8. InsideIn(vs, n + 2) = InsideIn(ws, n + 1)
  BY <1>7 DEF InsideIn
<1>9. ASSUME NEW j \in 1 .. d
      PROVE  /\ p[j] \in 1 .. n /\ p[j] \in 1 .. n + 1
             /\ DepthIn(vs, p[j]) = DepthIn(ws, p[j]) /\ vs[p[j]] = ws[p[j]]
             /\ ElseIn(vs, p[j], n + 1, j) <=> ElseIn(ws, p[j], n, j)
  <2>1. p[j] \in 1 .. n /\ p[j] \in 1 .. n + 1
    BY <1>6
  <2>2. /\ \A m \in 1 .. n + 1 : DepthIn(vs, m) = DepthIn(ws, m)
        /\ \A k, e : k \in 1 .. n => (ElseIn(vs, k, n + 1, e) <=>
                                     ElseIn(ws, k, n, e) \/ (wd.w = "ELSE" /\ DepthIn(ws, n + 1) = e))
    BY <1>1, <1>3, NextWord
  <2> QED BY <1>4, <2>1, <2>2
<1>10. p \in [1 .. d -> 1 .. n + 1]
  BY <1>6
<1>11. \A j \in 1 .. d : /\ DepthIn(vs, p[j]) = j - 1 /\ vs[p[j]].w = OpenerOf(fs[j].kind)
                         /\ fs[j].kind = "IF" => ~ElseIn(vs, p[j], n + 1, j)
                         /\ fs[j].kind = "ELSE" => ElseIn(vs, p[j], n + 1, j)
  BY <1>6, <1>9
<1>12. Places(vs, fs, p)
  BY <1>2, <1>4, <1>5, <1>6, <1>7, <1>8, <1>10, <1>11 DEF Places
<1> QED BY <1>3, <1>12

\* ELSE: the innermost structure is an IF without one.
LEMMA PlaceElse ==
  ASSUME NEW ws \in Seq(Word), NEW wd \in Word, wd.w = "ELSE",
         NEW fs \in Activations, NEW p, Places(ws, fs, p), Len(fs) # 0, fs[Len(fs)].kind = "IF"
  PROVE  Places(Append(ws, wd), [fs EXCEPT ![Len(fs)].kind = "ELSE"], p)
<1>1. PICK n \in Nat : n = Len(ws)
  BY LenProperties
<1>2. PICK d \in Nat : d = Len(fs) /\ d \in 1 .. d
  BY LenProperties DEF Activations
<1>3. PICK vs : vs = Append(ws, wd)
  OBVIOUS
<1>4. Len(vs) = n + 1 /\ \A k \in 1 .. n : vs[k] = ws[k]
  BY <1>1, <1>3, Appended
<1>5. n + 2 = (n + 1) + 1
  OBVIOUS
<1>6. /\ p \in [1 .. d -> 1 .. n] /\ \A i, j \in 1 .. d : i < j => p[i] < p[j]
      /\ \A k : k \in InsideIn(ws, n + 1) <=> \E j \in 1 .. d : k = p[j]
      /\ Cardinality(InsideIn(ws, n + 1)) = d /\ DepthIn(ws, n + 1) = d
      /\ \A j \in 1 .. d :
           /\ DepthIn(ws, p[j]) = j - 1 /\ ws[p[j]].w = OpenerOf(fs[j].kind)
           /\ fs[j].kind = "IF" => ~ElseIn(ws, p[j], n, j)
           /\ fs[j].kind = "ELSE" => ElseIn(ws, p[j], n, j)
  BY <1>1, <1>2 DEF Places
<1>7. /\ \A k : k \in InsideIn(vs, n + 2) <=>
           k \in InsideIn(ws, n + 1) /\ DepthIn(ws, k) < DepthIn(vs, n + 2)
      /\ DepthIn(vs, n + 2) = DepthIn(ws, n + 1)
  <2>1. wd.w \notin Openers \cup Closers
    BY DEF Openers, Closers
  <2>2. wd.w \notin Openers /\ wd.w \notin Closers
    BY <2>1
  <2> QED BY <1>1, <1>3, <2>1, <2>2, WordAfter
<1>8. InsideIn(vs, n + 2) = InsideIn(ws, n + 1)
  BY <1>7 DEF InsideIn
<1>9. ASSUME NEW j \in 1 .. d
      PROVE  /\ p[j] \in 1 .. n /\ p[j] \in 1 .. n + 1
             /\ DepthIn(vs, p[j]) = DepthIn(ws, p[j]) /\ vs[p[j]] = ws[p[j]]
             /\ ElseIn(vs, p[j], n + 1, j) <=> ElseIn(ws, p[j], n, j) \/ j = d
  <2>1. p[j] \in 1 .. n /\ p[j] \in 1 .. n + 1
    BY <1>6
  <2>2. /\ \A m \in 1 .. n + 1 : DepthIn(vs, m) = DepthIn(ws, m)
        /\ \A k, e : k \in 1 .. n => (ElseIn(vs, k, n + 1, e) <=>
                                     ElseIn(ws, k, n, e) \/ (wd.w = "ELSE" /\ DepthIn(ws, n + 1) = e))
    BY <1>1, <1>3, NextWord
  <2> QED BY <1>4, <1>6, <2>1, <2>2
<1>10. p \in [1 .. d -> 1 .. n + 1]
  BY <1>6
<1>11. PICK gs : gs = [fs EXCEPT ![d].kind = "ELSE"]
  OBVIOUS
<1>12. Len(gs) = d /\ \A j \in 1 .. d : gs[j].kind = IF j = d THEN "ELSE" ELSE fs[j].kind
  BY <1>2, <1>11 DEF Activations
<1>13. ASSUME NEW j \in 1 .. d
       PROVE  /\ DepthIn(vs, p[j]) = j - 1 /\ vs[p[j]].w = OpenerOf(gs[j].kind)
              /\ gs[j].kind = "IF" => ~ElseIn(vs, p[j], n + 1, j)
              /\ gs[j].kind = "ELSE" => ElseIn(vs, p[j], n + 1, j)
  <2>1. CASE j = d
    <3>1. ws[p[d]].w = "IF" /\ gs[d].kind = "ELSE"
      BY <1>2, <1>6, <1>12 DEF OpenerOf
    <3> QED BY <1>6, <1>9, <2>1, <3>1 DEF OpenerOf
  <2>2. CASE j # d
    BY <1>6, <1>9, <1>12, <2>2
  <2> QED BY <2>1, <2>2
<1>14. Places(vs, gs, p)
  BY <1>4, <1>5, <1>6, <1>7, <1>8, <1>10, <1>12, <1>13 DEF Places
<1> QED BY <1>2, <1>3, <1>11, <1>14

\* A structure opens.
LEMMA PlaceOpened ==
  ASSUME NEW ws \in Seq(Word), NEW wd \in Word, wd.w \in Openers,
         NEW fs \in Activations, NEW p, Places(ws, fs, p),
         NEW f \in [kind : Kinds, saved : Branches], f.kind = wd.w
  PROVE  \E q : Places(Append(ws, wd), Append(fs, f), q)
<1>1. PICK n \in Nat : n = Len(ws)
  BY LenProperties
<1>2. PICK d \in Nat : d = Len(fs)
  BY LenProperties DEF Activations
<1>3. PICK vs : vs = Append(ws, wd)
  OBVIOUS
<1>4. Len(vs) = n + 1 /\ vs[n + 1] = wd /\ \A k \in 1 .. n : vs[k] = ws[k]
  BY <1>1, <1>3, Appended
<1>5. n + 2 = (n + 1) + 1
  OBVIOUS
<1>6. /\ p \in [1 .. d -> 1 .. n] /\ \A i, j \in 1 .. d : i < j => p[i] < p[j]
      /\ \A k : k \in InsideIn(ws, n + 1) <=> \E j \in 1 .. d : k = p[j]
      /\ Cardinality(InsideIn(ws, n + 1)) = d /\ DepthIn(ws, n + 1) = d
      /\ \A j \in 1 .. d :
           /\ DepthIn(ws, p[j]) = j - 1 /\ ws[p[j]].w = OpenerOf(fs[j].kind)
           /\ fs[j].kind = "IF" => ~ElseIn(ws, p[j], n, j)
           /\ fs[j].kind = "ELSE" => ElseIn(ws, p[j], n, j)
  BY <1>1, <1>2 DEF Places
<1>7. /\ \A k : k \in InsideIn(vs, n + 2) <=>
           (k \in InsideIn(ws, n + 1) \/ k = n + 1) /\ DepthIn(ws, k) < DepthIn(vs, n + 2)
      /\ DepthIn(vs, n + 2) = d + 1
  BY <1>1, <1>3, <1>6, WordAfter
<1>8. InsideIn(vs, n + 2) = InsideIn(ws, n + 1) \cup {n + 1}
  <2>1. \A k \in InsideIn(ws, n + 1) : DepthIn(ws, k) < d + 1
    <3>1. \A j \in 1 .. d : j - 1 < d + 1
      OBVIOUS
    <3> QED BY <1>6, <3>1
  <2>2. DepthIn(ws, n + 1) < d + 1
    BY <1>6
  <2> QED BY <1>7, <2>1, <2>2
<1>9. Cardinality(InsideIn(vs, n + 2)) = d + 1
  <2>1. InsideIn(ws, n + 1) \subseteq 1 .. n /\ n + 1 \notin InsideIn(ws, n + 1)
    BY DEF InsideIn
  <2>2. IsFiniteSet(InsideIn(ws, n + 1))
    BY <2>1, PartOfInterval
  <2>3. Cardinality(InsideIn(ws, n + 1)) = d
    BY <1>6
  <2>4. Cardinality(InsideIn(ws, n + 1) \cup {n + 1}) = Cardinality(InsideIn(ws, n + 1)) + 1
    BY <2>1, <2>2, FS_AddElement
  <2> QED BY <1>8, <2>3, <2>4
<1>10. PICK gs : gs = Append(fs, f)
  OBVIOUS
<1>11. Len(gs) = d + 1 /\ gs[d + 1] = f /\ \A j \in 1 .. d : gs[j] = fs[j]
  BY <1>2, <1>10, Appended DEF Activations
<1>12. PICK q : q = [j \in 1 .. d + 1 |-> IF j = d + 1 THEN n + 1 ELSE p[j]]
  OBVIOUS
<1>13. q[d + 1] = n + 1 /\ (\A j \in 1 .. d : q[j] = p[j] /\ p[j] \in 1 .. n)
  BY <1>6, <1>12
<1>14. \A j \in 1 .. d + 1 : j = d + 1 \/ j \in 1 .. d
  OBVIOUS
<1>15. q \in [1 .. d + 1 -> 1 .. n + 1] /\ \A i, j \in 1 .. d + 1 : i < j => q[i] < q[j]
  <2>1. \A j \in 1 .. d + 1 : q[j] \in 1 .. n + 1
    BY <1>13, <1>14
  <2>2. q \in [1 .. d + 1 -> 1 .. n + 1]
    BY <1>12, <2>1
  <2>3. ASSUME NEW i \in 1 .. d + 1, NEW j \in 1 .. d + 1, i < j PROVE q[i] < q[j]
    <3>1. i \in 1 .. d
      BY <2>3
    <3>2. q[i] = p[i] /\ p[i] \in 1 .. n
      BY <1>13, <3>1
    <3>3. CASE j = d + 1
      BY <1>13, <3>2, <3>3
    <3>4. CASE j \in 1 .. d
      BY <1>6, <1>13, <2>3, <3>1, <3>4
    <3> QED BY <1>14, <3>3, <3>4
  <2> QED BY <2>2, <2>3
<1>16. \A k : k \in InsideIn(vs, n + 2) <=> \E j \in 1 .. d + 1 : k = q[j]
  <2>1. d + 1 \in 1 .. d + 1 /\ \A j \in 1 .. d : j \in 1 .. d + 1
    OBVIOUS
  <2>2. ASSUME NEW k, k \in InsideIn(ws, n + 1) PROVE \E j \in 1 .. d + 1 : k = q[j]
    <3>1. PICK j \in 1 .. d : k = p[j]
      BY <1>6, <2>2
    <3> QED BY <1>13, <2>1, <3>1
  <2>3. ASSUME NEW j \in 1 .. d + 1 PROVE q[j] \in InsideIn(ws, n + 1) \cup {n + 1}
    <3>1. CASE j \in 1 .. d
      <4>1. q[j] = p[j] /\ p[j] \in InsideIn(ws, n + 1)
        BY <1>6, <1>13, <3>1
      <4> QED BY <4>1
    <3>2. CASE j = d + 1
      BY <1>13, <3>2
    <3> QED BY <1>14, <3>1, <3>2
  <2> QED BY <1>8, <1>13, <2>1, <2>2, <2>3
<1>17. /\ \A m \in 1 .. n + 1 : DepthIn(vs, m) = DepthIn(ws, m)
       /\ \A k, e : k \in 1 .. n => (ElseIn(vs, k, n + 1, e) <=>
                                    ElseIn(ws, k, n, e) \/ (wd.w = "ELSE" /\ DepthIn(ws, n + 1) = e))
  <2>1. \A m \in 1 .. n + 1 : DepthIn(vs, m) = DepthIn(ws, m)
    BY <1>1, <1>3, NextWord
  <2>2. \A k, e : k \in 1 .. n => (ElseIn(vs, k, n + 1, e) <=>
                                   ElseIn(ws, k, n, e) \/ (wd.w = "ELSE" /\ DepthIn(ws, n + 1) = e))
    BY <1>1, <1>3, NextWord, SMTT(40)
  <2> QED BY <2>1, <2>2
<1>18. wd.w # "ELSE" /\ OpenerOf(wd.w) = wd.w
  BY DEF Openers, OpenerOf
<1>19. ASSUME NEW j \in 1 .. d + 1
       PROVE  /\ DepthIn(vs, q[j]) = j - 1 /\ vs[q[j]].w = OpenerOf(gs[j].kind)
              /\ gs[j].kind = "IF" => ~ElseIn(vs, q[j], n + 1, j)
              /\ gs[j].kind = "ELSE" => ElseIn(vs, q[j], n + 1, j)
  <2>1. CASE j = d + 1
    <3>1. DepthIn(vs, n + 1) = d
      BY <1>6, <1>17
    <3>2. ~ElseIn(vs, n + 1, n + 1, d + 1)
      BY DEF ElseIn
    <3> QED BY <1>4, <1>11, <1>13, <1>18, <2>1, <3>1, <3>2
  <2>2. CASE j \in 1 .. d
    <3>1. q[j] = p[j] /\ p[j] \in 1 .. n /\ gs[j] = fs[j]
      BY <1>11, <1>13, <2>2
    <3>2. DepthIn(vs, p[j]) = DepthIn(ws, p[j]) /\ vs[p[j]] = ws[p[j]]
      BY <1>4, <1>17, <3>1
    <3>3. ElseIn(vs, p[j], n + 1, j) <=> ElseIn(ws, p[j], n, j)
      BY <1>17, <1>18, <3>1
    <3> QED BY <1>6, <2>2, <3>1, <3>2, <3>3
  <2> QED BY <1>14, <2>1, <2>2
<1>20. Places(vs, gs, q)
  <2>1. Len(vs) = n + 1 /\ Len(gs) = d + 1 /\ Len(vs) + 1 = n + 2
    BY <1>4, <1>5, <1>11
  <2> QED BY <1>7, <1>9, <1>15, <1>16, <1>19, <2>1, SMTT(30) DEF Places
<1> QED BY <1>3, <1>10, <1>20

\* The innermost structure ends.
LEMMA PlaceClosed ==
  ASSUME NEW ws \in Seq(Word), NEW wd \in Word, wd.w \in Closers,
         NEW fs \in Activations, NEW p, Places(ws, fs, p), Len(fs) # 0
  PROVE  \E q : Places(Append(ws, wd), Front(fs), q)
<1>1. PICK n \in Nat : n = Len(ws)
  BY LenProperties
<1>2. PICK d \in Nat : d + 1 = Len(fs)
  <2>1. Len(fs) \in Nat /\ Len(fs) # 0
    BY LenProperties DEF Activations
  <2>2. Len(fs) - 1 \in Nat /\ (Len(fs) - 1) + 1 = Len(fs)
    BY <2>1
  <2> QED BY <2>2
<1>3. PICK vs : vs = Append(ws, wd)
  OBVIOUS
<1>4. Len(vs) = n + 1 /\ \A k \in 1 .. n : vs[k] = ws[k]
  BY <1>1, <1>3, Appended
<1>5. n + 2 = (n + 1) + 1
  OBVIOUS
<1>6. /\ p \in [1 .. d + 1 -> 1 .. n] /\ \A i, j \in 1 .. d + 1 : i < j => p[i] < p[j]
      /\ \A k : k \in InsideIn(ws, n + 1) <=> \E j \in 1 .. d + 1 : k = p[j]
      /\ Cardinality(InsideIn(ws, n + 1)) = d + 1 /\ DepthIn(ws, n + 1) = d + 1
      /\ \A j \in 1 .. d + 1 :
           /\ DepthIn(ws, p[j]) = j - 1 /\ ws[p[j]].w = OpenerOf(fs[j].kind)
           /\ fs[j].kind = "IF" => ~ElseIn(ws, p[j], n, j)
           /\ fs[j].kind = "ELSE" => ElseIn(ws, p[j], n, j)
  BY <1>1, <1>2 DEF Places
<1>7. /\ \A k : k \in InsideIn(vs, n + 2) <=>
           k \in InsideIn(ws, n + 1) /\ DepthIn(ws, k) < DepthIn(vs, n + 2)
      /\ DepthIn(vs, n + 2) = d
  <2>1. wd.w \notin Openers
    BY DEF Openers, Closers
  <2>2. DepthIn(vs, n + 2) = (d + 1) - 1
    BY <1>1, <1>3, <1>6, WordAfter
  <2> QED BY <1>1, <1>3, <2>1, <2>2, WordAfter
<1>8. PICK gs : gs = Front(fs)
  OBVIOUS
<1>9. Len(gs) = d /\ \A j \in 1 .. d : gs[j] = fs[j]
  <2>1. gs = SubSeq(fs, 1, d)
    <3>1. Len(fs) - 1 = d
      BY <1>2
    <3> QED BY <1>8, <3>1 DEF Front
  <2> QED BY <1>2, <2>1, SubSeqProperties DEF Activations
<1>10. PICK q : q = [j \in 1 .. d |-> p[j]]
  OBVIOUS
<1>11. \A j \in 1 .. d : j \in 1 .. d + 1 /\ q[j] = p[j] /\ p[j] \in 1 .. n
  BY <1>6, <1>10
<1>12. q \in [1 .. d -> 1 .. n + 1] /\ \A i, j \in 1 .. d : i < j => q[i] < q[j]
  <2>1. q \in [1 .. d -> 1 .. n + 1]
    BY <1>10, <1>11
  <2> QED BY <1>6, <1>11, <2>1
<1>13. \A j \in 1 .. d + 1 : DepthIn(ws, p[j]) < d <=> j \in 1 .. d
  BY <1>6
<1>14. \A k : k \in InsideIn(vs, n + 2) <=> \E j \in 1 .. d : k = q[j]
  <2>1. \A k : k \in InsideIn(ws, n + 1) <=> \E j \in 1 .. d + 1 : k = p[j]
    BY <1>6
  <2>2. \A k : k \in InsideIn(vs, n + 2) <=> k \in InsideIn(ws, n + 1) /\ DepthIn(ws, k) < d
    BY <1>7
  <2>3. \A j \in 1 .. d : j \in 1 .. d + 1 /\ q[j] = p[j]
    BY <1>11
  <2> QED BY <1>13, <2>1, <2>2, <2>3, Zenon
<1>15. Cardinality(InsideIn(vs, n + 2)) = d
  <2>1. InsideIn(ws, n + 1) \subseteq 1 .. n
    BY DEF InsideIn
  <2>2. IsFiniteSet(InsideIn(ws, n + 1))
    BY <2>1, PartOfInterval
  <2>3. d + 1 \in 1 .. d + 1
    OBVIOUS
  <2>4. p[d + 1] \in InsideIn(ws, n + 1)
    BY <1>6, <2>3
  <2>5. \A j \in 1 .. d : p[j] < p[d + 1] /\ p[j] # p[d + 1]
    <3>1. \A j \in 1 .. d : j \in 1 .. d + 1 /\ j < d + 1
      OBVIOUS
    <3>2. \A j \in 1 .. d + 1 : p[j] \in 1 .. n
      BY <1>6
    <3>3. \A j \in 1 .. d : p[j] < p[d + 1]
      BY <1>6, <2>3, <3>1
    <3> QED BY <2>3, <3>1, <3>2, <3>3
  <2>6. \A j \in 1 .. d + 1 : j \in 1 .. d \/ j = d + 1
    OBVIOUS
  <2>7. InsideIn(vs, n + 2) = InsideIn(ws, n + 1) \ {p[d + 1]}
    <3>1. \A k : k \in InsideIn(ws, n + 1) <=> \E j \in 1 .. d + 1 : k = p[j]
      BY <1>6
    <3>2. \A j \in 1 .. d : j \in 1 .. d + 1 /\ q[j] = p[j]
      BY <1>11
    <3>3. \A k : k \in InsideIn(vs, n + 2) <=> k \in InsideIn(ws, n + 1) /\ k # p[d + 1]
      <4>1. ASSUME NEW k \in InsideIn(vs, n + 2) PROVE k \in InsideIn(ws, n + 1) /\ k # p[d + 1]
        <5>1. PICK j \in 1 .. d : k = q[j]
          BY <1>14, <4>1
        <5> QED BY <2>5, <3>1, <3>2, <5>1
      <4>2. ASSUME NEW k \in InsideIn(ws, n + 1), k # p[d + 1] PROVE k \in InsideIn(vs, n + 2)
        <5>1. PICK j \in 1 .. d + 1 : k = p[j]
          BY <3>1, <4>2
        <5>2. j \in 1 .. d
          BY <2>6, <4>2, <5>1
        <5> QED BY <1>14, <3>2, <5>1, <5>2
      <4> QED BY <4>1, <4>2
    <3> QED BY <3>3
  <2>8. Cardinality(InsideIn(ws, n + 1)) = d + 1
    BY <1>6
  <2>9. Cardinality(InsideIn(ws, n + 1) \ {p[d + 1]}) = Cardinality(InsideIn(ws, n + 1)) - 1
    BY <2>2, <2>4, FS_RemoveElement
  <2>10. (d + 1) - 1 = d
    OBVIOUS
  <2> QED BY <2>7, <2>8, <2>9, <2>10
<1>16. /\ \A m \in 1 .. n + 1 : DepthIn(vs, m) = DepthIn(ws, m)
       /\ \A k, e : k \in 1 .. n => (ElseIn(vs, k, n + 1, e) <=>
                                    ElseIn(ws, k, n, e) \/ (wd.w = "ELSE" /\ DepthIn(ws, n + 1) = e))
  BY <1>1, <1>3, NextWord
<1>17. wd.w # "ELSE"
  BY DEF Closers
<1>18. ASSUME NEW j \in 1 .. d
       PROVE  /\ DepthIn(vs, q[j]) = j - 1 /\ vs[q[j]].w = OpenerOf(gs[j].kind)
              /\ gs[j].kind = "IF" => ~ElseIn(vs, q[j], n + 1, j)
              /\ gs[j].kind = "ELSE" => ElseIn(vs, q[j], n + 1, j)
  <2>1. q[j] = p[j] /\ p[j] \in 1 .. n /\ p[j] \in 1 .. n + 1 /\ gs[j] = fs[j] /\ j \in 1 .. d + 1
    BY <1>9, <1>11
  <2>2. DepthIn(vs, p[j]) = DepthIn(ws, p[j]) /\ vs[p[j]] = ws[p[j]]
    BY <1>4, <1>16, <2>1
  <2>3. ElseIn(vs, p[j], n + 1, j) <=> ElseIn(ws, p[j], n, j)
    BY <1>16, <1>17, <2>1
  <2> QED BY <1>6, <2>1, <2>2, <2>3
<1>19. Places(vs, gs, q)
  BY <1>4, <1>5, <1>7, <1>9, <1>12, <1>14, <1>15, <1>18 DEF Places
<1> QED BY <1>3, <1>8, <1>19

-----------------------------------------------------------------------------
(* What each word of a well nested procedure satisfies.                    *)
Fits(ws, n) ==
  /\ Cardinality(InsideIn(ws, n)) + (IF ws[n].w \in Openers \cup {"VECTOR"} THEN 1 ELSE 0)
       <= MaxStructureDepth
  /\ ws[n].w \in {"ELSEIF", "ELSE"} \cup Closers =>
       /\ InsideIn(ws, n) # {}
       /\ ws[GreatestOf(InsideIn(ws, n))].w = Opener(ws[n].w)
       /\ ws[n].w \in {"ELSE", "ELSEIF"} =>
            \A k \in GreatestOf(InsideIn(ws, n)) + 1 .. n - 1 :
              ~(ws[k].w = "ELSE" /\ DepthIn(ws, k) = DepthIn(ws, n))
  /\ ws[n].w \in {"BREAK", "CONTINUE"} =>
       \E k \in InsideIn(ws, n) : ws[k].w \in {"DO", "WHILE"}
  /\ ws[n].w = "ENDP" => InsideIn(ws, n) = {}

\* What a word must be for the activations fs to take it.
Admits(fs, wd) ==
  /\ Len(fs) + (IF wd.w \in Openers \cup {"VECTOR"} THEN 1 ELSE 0) <= MaxStructureDepth
  /\ wd.w \in {"ELSEIF", "ELSE"} \cup Closers =>
       /\ Len(fs) # 0 /\ OpenerOf(fs[Len(fs)].kind) = Opener(wd.w)
       /\ wd.w \in {"ELSE", "ELSEIF"} => fs[Len(fs)].kind = "IF"
  /\ wd.w \in {"BREAK", "CONTINUE"} => \E j \in 1 .. Len(fs) : fs[j].kind \in {"DO", "WHILE"}
  /\ wd.w = "ENDP" => Len(fs) = 0

\* A set of numbers up to n has a greatest.
LEMMA SomeGreatest ==
  ASSUME NEW n \in Nat, NEW S \in SUBSET (1 .. n), S # {}
  PROVE  GreatestOf(S) \in S /\ \A k \in S : GreatestOf(S) >= k
<1> DEFINE U == {m \in Nat : \A k \in S : k <= m}
<1>1. n \in U
  OBVIOUS
<1>2. PICK m \in U : \A j \in U : ~(<<j, m>> \in OpToRel(<, Nat))
  <2>1. U \in SUBSET Nat /\ U # {}
    BY <1>1
  <2> HIDE DEF U
  <2> QED BY <2>1, NatLessThanWellFounded, WFMin
<1>3. m \in Nat /\ \A k \in S : k <= m
  OBVIOUS
<1>4. \A j \in U : ~(j < m)
  <2>1. \A j \in U : j \in Nat
    OBVIOUS
  <2> HIDE DEF U
  <2> QED BY <1>2, <1>3, <2>1 DEF OpToRel
<1>5. m \in S
  <2> SUFFICES ASSUME m \notin S PROVE FALSE
    OBVIOUS
  <2>1. \A k \in S : k \in Nat /\ 1 <= k /\ k <= m /\ k # m
    BY <1>3
  <2>2. m # 0
    <3>1. PICK k \in S : TRUE
      OBVIOUS
    <3>2. k \in Nat /\ 1 <= k /\ k <= m
      BY <2>1, <3>1
    <3> QED BY <1>3, <3>2
  <2>3. m - 1 \in U
    BY <1>3, <2>1, <2>2
  <2> QED BY <1>3, <1>4, <2>3
<1>6. \E k \in S : \A j \in S : k >= j
  BY <1>3, <1>5
<1> QED BY <1>6 DEF GreatestOf

\* The innermost structure a word stands in is the one opened last.
LEMMA InnermostPlace ==
  ASSUME NEW ws, NEW fs \in Activations, NEW p, Places(ws, fs, p), Len(fs) # 0, Len(ws) \in Nat
  PROVE  /\ p[Len(fs)] \in 1 .. Len(ws) /\ GreatestOf(InsideIn(ws, Len(ws) + 1)) = p[Len(fs)]
<1>1. PICK d \in Nat : d = Len(fs) /\ d \in 1 .. d
  BY LenProperties DEF Activations
<1>2. PICK n \in Nat : n = Len(ws)
  OBVIOUS
<1>3. /\ p \in [1 .. d -> 1 .. n] /\ \A i, j \in 1 .. d : i < j => p[i] < p[j]
      /\ \A k : k \in InsideIn(ws, n + 1) <=> \E j \in 1 .. d : k = p[j]
  BY <1>1, <1>2 DEF Places
<1>4. \A j \in 1 .. d : p[j] \in 1 .. n /\ p[j] \in InsideIn(ws, n + 1)
  BY <1>3
<1>5. InsideIn(ws, n + 1) \in SUBSET (1 .. n) /\ InsideIn(ws, n + 1) # {}
  BY <1>1, <1>4 DEF InsideIn
<1>6. PICK g : g = GreatestOf(InsideIn(ws, n + 1))
  OBVIOUS
<1>7. g \in InsideIn(ws, n + 1) /\ g >= p[d]
  BY <1>1, <1>4, <1>5, <1>6, SomeGreatest
<1>8. PICK j \in 1 .. d : g = p[j]
  BY <1>3, <1>7
<1>9. j = d
  <2>1. j < d => p[j] < p[d]
    BY <1>1, <1>3
  <2> QED BY <1>1, <1>4, <1>7, <1>8, <2>1
<1> QED BY <1>1, <1>2, <1>4, <1>6, <1>8, <1>9

\* The words before are as well nested with one more.
LEMMA FitsBefore ==
  ASSUME NEW ws \in Seq(Word), NEW wd \in Word, NEW m \in 1 .. Len(ws)
  PROVE  Fits(Append(ws, wd), m) <=> Fits(ws, m)
<1>1. PICK n \in Nat : n = Len(ws)
  BY LenProperties
<1>2. PICK vs : vs = Append(ws, wd)
  OBVIOUS
<1>3. PICK S : S = InsideIn(ws, m)
  OBVIOUS
<1>4. \A k \in 1 .. n : vs[k] = ws[k]
  BY <1>1, <1>2, Appended
<1>5. \A k \in 1 .. n : DepthIn(vs, k) = DepthIn(ws, k) /\ InsideIn(vs, k) = InsideIn(ws, k)
  <2>1. \A k \in 1 .. n + 1 : DepthIn(vs, k) = DepthIn(ws, k) /\ InsideIn(vs, k) = InsideIn(ws, k)
    BY <1>1, <1>2, NextWord
  <2> QED BY <2>1
<1>6. m \in 1 .. n /\ S \subseteq 1 .. m - 1 /\ \A k \in S : k \in 1 .. n
  BY <1>1, <1>3 DEF InsideIn
<1>7. S # {} => GreatestOf(S) \in 1 .. n
  BY <1>6, SomeGreatest
<1>8. /\ InsideIn(vs, m) = S /\ vs[m] = ws[m] /\ DepthIn(vs, m) = DepthIn(ws, m)
      /\ S # {} => vs[GreatestOf(S)] = ws[GreatestOf(S)]
      /\ \A k \in S : vs[k] = ws[k]
  BY <1>3, <1>4, <1>5, <1>6, <1>7
<1>9. S # {} => \A k \in GreatestOf(S) + 1 .. m - 1 :
                  vs[k] = ws[k] /\ DepthIn(vs, k) = DepthIn(ws, k)
  <2>1. S # {} => \A k \in GreatestOf(S) + 1 .. m - 1 : k \in 1 .. n
    BY <1>6, <1>7
  <2> QED BY <1>4, <1>5, <2>1
<1>10. Fits(vs, m) <=> Fits(ws, m)
  BY <1>3, <1>8, <1>9, Zenon DEF Fits
<1> QED BY <1>2, <1>10

\* The next word fits exactly when the activations take it.
LEMMA FitsNext ==
  ASSUME NEW ws \in Seq(Word), NEW wd \in Word, NEW fs \in Activations, NEW p, Places(ws, fs, p)
  PROVE  Fits(Append(ws, wd), Len(ws) + 1) <=> Admits(fs, wd)
<1>1. PICK n \in Nat : n = Len(ws)
  BY LenProperties
<1>2. PICK d \in Nat : d = Len(fs)
  BY LenProperties DEF Activations
<1>3. PICK vs : vs = Append(ws, wd)
  OBVIOUS
<1>4. vs[n + 1] = wd /\ \A k \in 1 .. n : vs[k] = ws[k]
  BY <1>1, <1>3, Appended
<1>5. PICK S : S = InsideIn(ws, n + 1)
  OBVIOUS
<1>6. /\ p \in [1 .. d -> 1 .. n] /\ \A k : k \in S <=> \E j \in 1 .. d : k = p[j]
      /\ Cardinality(S) = d /\ DepthIn(ws, n + 1) = d
      /\ \A j \in 1 .. d :
           /\ ws[p[j]].w = OpenerOf(fs[j].kind)
           /\ fs[j].kind = "IF" => ~ElseIn(ws, p[j], n, j)
           /\ fs[j].kind = "ELSE" => ElseIn(ws, p[j], n, j)
  BY <1>1, <1>2, <1>5 DEF Places
<1>7. \A k \in 1 .. n + 1 : DepthIn(vs, k) = DepthIn(ws, k) /\ InsideIn(vs, k) = InsideIn(ws, k)
  BY <1>1, <1>3, NextWord
<1>8. InsideIn(vs, n + 1) = S /\ DepthIn(vs, n + 1) = d
  BY <1>5, <1>6, <1>7
<1>9. d # 0 => d \in 1 .. d /\ p[d] \in 1 .. n /\ GreatestOf(S) = p[d] /\ vs[p[d]] = ws[p[d]]
  BY <1>1, <1>2, <1>4, <1>5, InnermostPlace
<1>10. \A j \in 1 .. d : p[j] \in 1 .. n /\ p[j] \in S /\ vs[p[j]] = ws[p[j]]
  BY <1>4, <1>6
<1>11. S = {} <=> d = 0
  <2>1. d # 0 => d \in 1 .. d
    OBVIOUS
  <2>2. S # {} => \E j \in 1 .. d : TRUE
    BY <1>6
  <2>3. (\E j \in 1 .. d : TRUE) => d # 0
    OBVIOUS
  <2> QED BY <1>10, <2>1, <2>2, <2>3
<1>12. d # 0 => ((\A k \in p[d] + 1 .. n : ~(vs[k].w = "ELSE" /\ DepthIn(vs, k) = d))
                   <=> ~ElseIn(ws, p[d], n, d))
  <2>1. d # 0 => \A k \in p[d] + 1 .. n : k \in 1 .. n /\ k \in 1 .. n + 1
    BY <1>9
  <2> QED BY <1>4, <1>7, <2>1 DEF ElseIn
<1>13. \A j \in 1 .. d : fs[j].kind \in Kinds /\ (OpenerOf(fs[j].kind) \in {"DO", "WHILE"}
                                                   <=> fs[j].kind \in {"DO", "WHILE"})
  <2>1. ASSUME NEW j \in 1 .. d PROVE fs[j].kind \in Kinds
    <3>1. fs[j] \in [kind : Kinds, saved : Branches]
      BY <1>2, ElementOfSeq DEF Activations
    <3> QED BY <3>1
  <2>2. \A k \in Kinds : OpenerOf(k) \in {"DO", "WHILE"} <=> k \in {"DO", "WHILE"}
    BY DEF Kinds, OpenerOf
  <2> QED BY <2>1, <2>2
<1>14. (\E k \in S : vs[k].w \in {"DO", "WHILE"}) <=> \E j \in 1 .. d : fs[j].kind \in {"DO", "WHILE"}
  <2>1. \A j \in 1 .. d : p[j] \in S /\ (vs[p[j]].w \in {"DO", "WHILE"} <=> fs[j].kind \in {"DO", "WHILE"})
    BY <1>6, <1>10, <1>13
  <2> QED BY <1>6, <2>1
<1>15. wd.w \in {"ELSE", "ELSEIF"} /\ d # 0 /\ OpenerOf(fs[d].kind) = Opener(wd.w) =>
         (~ElseIn(ws, p[d], n, d) <=> fs[d].kind = "IF")
  <2>1. wd.w \in {"ELSE", "ELSEIF"} => Opener(wd.w) = "IF"
    BY DEF Opener
  <2>2. d # 0 /\ OpenerOf(fs[d].kind) = "IF" => fs[d].kind \in {"IF", "ELSE"}
    BY DEF OpenerOf
  <2>3. d # 0 => /\ fs[d].kind = "IF" => ~ElseIn(ws, p[d], n, d)
                 /\ fs[d].kind = "ELSE" => ElseIn(ws, p[d], n, d)
    BY <1>6, <1>9
  <2> QED BY <2>1, <2>2, <2>3
<1>16. d # 0 => vs[p[d]].w = OpenerOf(fs[d].kind)
  BY <1>6, <1>9
<1>17. (n + 1) - 1 = n
  OBVIOUS
<1>18. Fits(vs, n + 1) <=> Admits(fs, wd)
  <2>1. Fits(vs, n + 1) <=>
          /\ d + (IF wd.w \in Openers \cup {"VECTOR"} THEN 1 ELSE 0) <= MaxStructureDepth
          /\ wd.w \in {"ELSEIF", "ELSE"} \cup Closers =>
               /\ S # {}
               /\ vs[GreatestOf(S)].w = Opener(wd.w)
               /\ wd.w \in {"ELSE", "ELSEIF"} =>
                    \A k \in GreatestOf(S) + 1 .. n : ~(vs[k].w = "ELSE" /\ DepthIn(vs, k) = d)
          /\ wd.w \in {"BREAK", "CONTINUE"} => \E k \in S : vs[k].w \in {"DO", "WHILE"}
          /\ wd.w = "ENDP" => S = {}
    BY <1>4, <1>6, <1>8, <1>17, Zenon DEF Fits
  <2>2. d # 0 => (vs[GreatestOf(S)].w = OpenerOf(fs[d].kind)
                  /\ ((\A k \in GreatestOf(S) + 1 .. n : ~(vs[k].w = "ELSE" /\ DepthIn(vs, k) = d))
                        <=> ~ElseIn(ws, p[d], n, d)))
    BY <1>9, <1>12, <1>16
  <2> QED BY <1>2, <1>11, <1>14, <1>15, <2>1, <2>2, Zenon DEF Admits
<1> QED BY <1>1, <1>3, <1>18

-----------------------------------------------------------------------------
(* The parser's own account of the nesting, word by word.                  *)
LoopsOf(fs) == {j \in 1 .. Len(fs) : fs[j].kind \in {"DO", "WHILE"}}

NestOK(ws, fs, b) ==
  /\ ws \in Seq(Word) /\ fs \in Activations /\ b \in Branches
  /\ b.depth = Len(fs) /\ b.loop = Cardinality(LoopsOf(fs))
  /\ \E p : Places(ws, fs, p)
  /\ \A n \in 1 .. Len(ws) : Fits(ws, n)

\* A word the activations take fits, and so do all before it.
LEMMA AllFit ==
  ASSUME NEW ws, NEW fs, NEW b, NestOK(ws, fs, b), NEW wd \in Word, Admits(fs, wd)
  PROVE  /\ Append(ws, wd) \in Seq(Word)
         /\ \A n \in 1 .. Len(Append(ws, wd)) : Fits(Append(ws, wd), n)
<1>1. ws \in Seq(Word) /\ fs \in Activations
  BY DEF NestOK
<1>2. Append(ws, wd) \in Seq(Word) /\ Len(Append(ws, wd)) = Len(ws) + 1 /\ Len(ws) \in Nat
  BY <1>1, Appended
<1>3. Fits(Append(ws, wd), Len(ws) + 1)
  <2>1. PICK p : Places(ws, fs, p)
    BY DEF NestOK
  <2> QED BY <1>1, <2>1, FitsNext
<1>4. \A n \in 1 .. Len(ws) : Fits(Append(ws, wd), n)
  BY <1>1, FitsBefore DEF NestOK
<1>5. \A n \in 1 .. Len(ws) + 1 : n = Len(ws) + 1 \/ n \in 1 .. Len(ws)
  BY <1>2
<1> QED BY <1>2, <1>3, <1>4, <1>5

\* All but the last of d + 1.
LEMMA FrontOf ==
  ASSUME NEW S, NEW s \in Seq(S), NEW d \in Nat, Len(s) = d + 1
  PROVE  Front(s) \in Seq(S) /\ Len(Front(s)) = d /\ \A j \in 1 .. d : Front(s)[j] = s[j]
<1>1. Front(s) = SubSeq(s, 1, d)
  <2>1. Len(s) - 1 = d
    OBVIOUS
  <2> QED BY <2>1 DEF Front
<1>2. 1 \in 1 .. Len(s) + 1 /\ d \in 1 - 1 .. Len(s) /\ (1 <= d => d - 1 + 1 = d)
  OBVIOUS
<1>3. /\ SubSeq(s, 1, d) \in Seq(S)
      /\ Len(SubSeq(s, 1, d)) = IF 1 <= d THEN d - 1 + 1 ELSE 0
      /\ \A i \in 1 .. d - 1 + 1 : SubSeq(s, 1, d)[i] = s[1 + i - 1]
  BY <1>2, SubSeqProperties
<1>4. d - 1 + 1 = d /\ \A i \in 1 .. d : 1 + i - 1 = i
  OBVIOUS
<1>5. Len(SubSeq(s, 1, d)) = d
  BY <1>3
<1>6. \A i \in 1 .. d : SubSeq(s, 1, d)[i] = s[i]
  BY <1>3, <1>4
<1> QED BY <1>1, <1>3, <1>5, <1>6

\* The account is kept by a word within a list, by ELSE, and by a word that
\* opens or closes a structure.
LEMMA NestWithin ==
  ASSUME NEW ws, NEW fs, NEW b, NestOK(ws, fs, b), NEW wd \in Word, Admits(fs, wd),
         wd.w \notin Openers \cup Closers \cup {"ELSE"},
         NEW c \in Branches, c.depth = b.depth, c.loop = b.loop
  PROVE  NestOK(Append(ws, wd), fs, c)
<1>1. ws \in Seq(Word) /\ fs \in Activations /\ c.depth = Len(fs) /\ c.loop = Cardinality(LoopsOf(fs))
  BY DEF NestOK
<1>2. \E p : Places(Append(ws, wd), fs, p)
  <2>1. PICK p : Places(ws, fs, p)
    BY DEF NestOK
  <2> QED BY <1>1, <2>1, PlaceWithin
<1> QED BY <1>1, <1>2, AllFit DEF NestOK

LEMMA NestElse ==
  ASSUME NEW ws, NEW fs, NEW b, NestOK(ws, fs, b), NEW wd \in Word, Admits(fs, wd), wd.w = "ELSE"
  PROVE  NestOK(Append(ws, wd), [fs EXCEPT ![Len(fs)].kind = "ELSE"], b)
<1>1. ws \in Seq(Word) /\ fs \in Activations /\ b \in Branches
      /\ b.depth = Len(fs) /\ b.loop = Cardinality(LoopsOf(fs))
  BY DEF NestOK
<1>2. PICK gs : gs = [fs EXCEPT ![Len(fs)].kind = "ELSE"]
  OBVIOUS
<1>3. Len(fs) # 0 /\ fs[Len(fs)].kind = "IF"
  BY DEF Admits
<1>4. \E p : Places(Append(ws, wd), gs, p)
  <2>1. PICK p : Places(ws, fs, p)
    BY DEF NestOK
  <2> QED BY <1>1, <1>2, <1>3, <2>1, PlaceElse
<1>5. Len(fs) \in Nat /\ Len(fs) \in 1 .. Len(fs)
  BY <1>1, <1>3, LenProperties DEF Activations
<1>6. gs \in Activations /\ Len(gs) = Len(fs)
  <2>1. PICK k \in 1 .. Len(fs) : k = Len(fs)
    BY <1>5
  <2>2. PICK g : g = [fs[k] EXCEPT !.kind = "ELSE"]
    OBVIOUS
  <2>3. fs[k] \in [kind : Kinds, saved : Branches]
    BY <1>1, ElementOfSeq DEF Activations
  <2>4. g \in [kind : Kinds, saved : Branches]
    BY <2>2, <2>3 DEF Kinds
  <2>5. gs = [fs EXCEPT ![k] = g]
    BY <1>2, <2>1, <2>2
  <2> QED BY <1>1, <2>4, <2>5, ExceptSeq DEF Activations
<1>7. \A j \in 1 .. Len(fs) : gs[j].kind \in {"DO", "WHILE"} <=> fs[j].kind \in {"DO", "WHILE"}
  BY <1>1, <1>2, <1>3, <1>5 DEF Activations
<1>8. LoopsOf(gs) = LoopsOf(fs)
  BY <1>6, <1>7 DEF LoopsOf
<1> QED BY <1>1, <1>2, <1>4, <1>6, <1>8, AllFit DEF NestOK

LEMMA NestOpened ==
  ASSUME NEW ws, NEW fs, NEW b, NestOK(ws, fs, b), NEW wd \in Word, Admits(fs, wd),
         wd.w \in Openers, NEW f \in [kind : Kinds, saved : Branches], f.kind = wd.w,
         NEW c \in Branches, c.depth = b.depth + 1,
         c.loop = IF wd.w = "IF" THEN b.loop ELSE b.loop + 1
  PROVE  NestOK(Append(ws, wd), Append(fs, f), c)
<1>1. ws \in Seq(Word) /\ fs \in Activations /\ b \in Branches
      /\ b.depth = Len(fs) /\ b.loop = Cardinality(LoopsOf(fs))
  BY DEF NestOK
<1>2. PICK gs : gs = Append(fs, f)
  OBVIOUS
<1>3. \E p : Places(Append(ws, wd), gs, p)
  <2>1. PICK p : Places(ws, fs, p)
    BY DEF NestOK
  <2> QED BY <1>1, <1>2, <2>1, PlaceOpened
<1>4. PICK d \in Nat : d = Len(fs)
  BY <1>1, LenProperties DEF Activations
<1>5. gs \in Activations /\ Len(gs) = d + 1 /\ gs[d + 1] = f /\ \A j \in 1 .. d : gs[j] = fs[j]
  BY <1>1, <1>2, <1>4, Appended DEF Activations
<1>6. wd.w = "IF" \/ wd.w \in {"DO", "WHILE"}
  BY DEF Openers
<1>7. \A j \in 1 .. d + 1 : j = d + 1 \/ j \in 1 .. d
  OBVIOUS
<1>8. \A j \in 1 .. d : j \in 1 .. d + 1
  OBVIOUS
<1>9. LoopsOf(fs) \subseteq 1 .. d /\ d + 1 \notin LoopsOf(fs)
  BY <1>4 DEF LoopsOf
<1>10. IsFiniteSet(LoopsOf(fs))
  BY <1>9, PartOfInterval
<1>11. CASE wd.w = "IF"
  <2>1. LoopsOf(gs) = LoopsOf(fs)
    BY <1>4, <1>5, <1>7, <1>8, <1>11 DEF LoopsOf
  <2> QED BY <1>1, <1>2, <1>3, <1>4, <1>5, <1>11, <2>1, AllFit DEF NestOK
<1>12. CASE wd.w \in {"DO", "WHILE"}
  <2>1. LoopsOf(gs) = LoopsOf(fs) \cup {d + 1}
    <3>1. d + 1 \in 1 .. d + 1
      OBVIOUS
    <3> QED BY <1>4, <1>5, <1>7, <1>8, <1>12, <3>1 DEF LoopsOf
  <2>2. Cardinality(LoopsOf(fs) \cup {d + 1}) = Cardinality(LoopsOf(fs)) + 1
    BY <1>9, <1>10, FS_AddElement
  <2>3. c.loop = Cardinality(LoopsOf(gs))
    BY <1>1, <1>12, <2>1, <2>2
  <2> QED BY <1>1, <1>2, <1>3, <1>4, <1>5, <2>3, AllFit DEF NestOK
<1> QED BY <1>6, <1>11, <1>12

LEMMA NestClosed ==
  ASSUME NEW ws, NEW fs, NEW b, NestOK(ws, fs, b), NEW wd \in Word, Admits(fs, wd),
         wd.w \in Closers, NEW c \in Branches, c.depth = b.depth - 1,
         c.loop = IF wd.w = "ENDIF" THEN b.loop ELSE b.loop - 1
  PROVE  NestOK(Append(ws, wd), Front(fs), c)
<1>1. ws \in Seq(Word) /\ fs \in Activations /\ b \in Branches
      /\ b.depth = Len(fs) /\ b.loop = Cardinality(LoopsOf(fs))
  BY DEF NestOK
<1>2. Len(fs) # 0 /\ OpenerOf(fs[Len(fs)].kind) = Opener(wd.w)
  BY DEF Admits
<1>3. PICK d \in Nat : d + 1 = Len(fs)
  <2>1. Len(fs) \in Nat /\ Len(fs) # 0
    BY <1>1, <1>2, LenProperties DEF Activations
  <2>2. Len(fs) - 1 \in Nat /\ (Len(fs) - 1) + 1 = Len(fs)
    BY <2>1
  <2> QED BY <2>2
<1>4. PICK gs : gs = Front(fs)
  OBVIOUS
<1>5. \E p : Places(Append(ws, wd), gs, p)
  <2>1. PICK p : Places(ws, fs, p)
    BY DEF NestOK
  <2> QED BY <1>1, <1>2, <1>4, <2>1, PlaceClosed
<1>6. gs \in Activations /\ Len(gs) = d /\ \A j \in 1 .. d : gs[j] = fs[j]
  <2>1. fs \in Seq([kind : Kinds, saved : Branches]) /\ Len(fs) = d + 1
    BY <1>1, <1>3 DEF Activations
  <2>2. /\ Front(fs) \in Seq([kind : Kinds, saved : Branches])
        /\ Len(Front(fs)) = d /\ \A j \in 1 .. d : Front(fs)[j] = fs[j]
    BY <2>1, FrontOf
  <2> QED BY <1>4, <2>2 DEF Activations
<1>7. \A j \in 1 .. d + 1 : j = d + 1 \/ j \in 1 .. d
  OBVIOUS
<1>8. d + 1 \in 1 .. d + 1 /\ \A j \in 1 .. d : j \in 1 .. d + 1 /\ j # d + 1
  OBVIOUS
<1>9. LoopsOf(fs) \subseteq 1 .. d + 1
  BY <1>3 DEF LoopsOf
<1>10. IsFiniteSet(LoopsOf(fs))
  BY <1>9, PartOfInterval
<1>11. wd.w \in Closers /\ (wd.w = "ENDIF" => Opener(wd.w) = "IF")
       /\ (wd.w # "ENDIF" => Opener(wd.w) \in {"DO", "WHILE"})
  BY DEF Closers, Opener
<1>12. CASE wd.w = "ENDIF"
  <2>1. fs[d + 1].kind \notin {"DO", "WHILE"}
    BY <1>2, <1>3, <1>11, <1>12 DEF OpenerOf
  <2>2. LoopsOf(gs) = LoopsOf(fs)
    BY <1>3, <1>6, <1>7, <1>8, <2>1 DEF LoopsOf
  <2>3. c.depth = d
    BY <1>1, <1>3
  <2> QED BY <1>1, <1>4, <1>5, <1>6, <1>12, <2>2, <2>3, AllFit DEF NestOK
<1>13. CASE wd.w # "ENDIF"
  <2>1. fs[d + 1].kind \in {"DO", "WHILE"}
    BY <1>2, <1>3, <1>11, <1>13 DEF OpenerOf
  <2>2. LoopsOf(gs) = LoopsOf(fs) \ {d + 1} /\ d + 1 \in LoopsOf(fs)
    BY <1>3, <1>6, <1>7, <1>8, <2>1 DEF LoopsOf
  <2>3. Cardinality(LoopsOf(fs) \ {d + 1}) = Cardinality(LoopsOf(fs)) - 1
    BY <1>10, <2>2, FS_RemoveElement
  <2>4. c.loop = Cardinality(LoopsOf(gs)) /\ c.depth = d
    BY <1>1, <1>3, <1>13, <2>2, <2>3
  <2> QED BY <1>1, <1>4, <1>5, <1>6, <2>4, AllFit DEF NestOK
<1> QED BY <1>12, <1>13

-----------------------------------------------------------------------------
(* The labels p-code defines and names.                                    *)
IsCode(c) == \E S : c \in Seq(S)
Defines(i, l) == i.op = "label" /\ i.to = <<l>>
Names(i, l) == i.op # "label" /\ \E k \in DOMAIN i.to : i.to[k] = l
DefinedIn(code, l) == \E n \in DOMAIN code : Defines(code[n], l)
NamedIn(code, l) == \E n \in DOMAIN code : Names(code[n], l)
InternalLabel(n) == <<"branch", BranchName(n)>>

\* A sequence over S is one over a larger set.
LEMMA WiderSeq ==
  ASSUME NEW S, NEW T, NEW s \in Seq(S), S \subseteq T
  PROVE  s \in Seq(T)
<1>1. /\ Len(s) \in Nat /\ DOMAIN s = 1 .. Len(s) /\ \A i \in 1 .. Len(s) : s[i] \in S
      /\ s = [i \in 1 .. Len(s) |-> s[i]]
  BY LenProperties, ElementOfSeq
<1>2. s \in [1 .. Len(s) -> T]
  BY <1>1
<1> QED BY <1>1, <1>2, SeqDef

\* Code followed by code.
LEMMA CodeAfter ==
  ASSUME NEW c, NEW d, IsCode(c), IsCode(d)
  PROVE  /\ IsCode(c \o d)
         /\ \A l : DefinedIn(c \o d, l) <=> DefinedIn(c, l) \/ DefinedIn(d, l)
         /\ \A l : NamedIn(c \o d, l) <=> NamedIn(c, l) \/ NamedIn(d, l)
<1>1. PICK S : c \in Seq(S)
  BY DEF IsCode
<1>2. PICK T : d \in Seq(T)
  BY DEF IsCode
<1>3. c \in Seq(S \cup T) /\ d \in Seq(S \cup T)
  BY <1>1, <1>2, WiderSeq
<1>4. PICK e : e = c \o d
  OBVIOUS
<1>5. PICK m, n \in Nat : m = Len(c) /\ n = Len(d)
  BY <1>3, LenProperties
<1>6. /\ e \in Seq(S \cup T) /\ Len(e) = m + n
      /\ \A i \in 1 .. m + n : e[i] = IF i <= m THEN c[i] ELSE d[i - m]
  BY <1>3, <1>4, <1>5, ConcatProperties
<1>7. DOMAIN e = 1 .. m + n /\ DOMAIN c = 1 .. m /\ DOMAIN d = 1 .. n
  BY <1>3, <1>5, <1>6, LenProperties
<1>8. \A i \in 1 .. m : i \in 1 .. m + n /\ e[i] = c[i]
  BY <1>6
<1>9. \A i \in 1 .. n : m + i \in 1 .. m + n /\ e[m + i] = d[i]
  BY <1>6
<1>10. \A i \in 1 .. m + n : \/ i \in 1 .. m /\ e[i] = c[i]
                             \/ i - m \in 1 .. n /\ e[i] = d[i - m]
  BY <1>6
<1>11. ASSUME NEW l PROVE DefinedIn(e, l) <=> DefinedIn(c, l) \/ DefinedIn(d, l)
  BY <1>7, <1>8, <1>9, <1>10 DEF DefinedIn
<1>12. ASSUME NEW l PROVE NamedIn(e, l) <=> NamedIn(c, l) \/ NamedIn(d, l)
  BY <1>7, <1>8, <1>9, <1>10 DEF NamedIn
<1> QED BY <1>4, <1>6, <1>11, <1>12 DEF IsCode

\* The labels of no item, of one, of two and of three.
LEMMA NoCode == IsCode(<<>>) /\ \A l : ~DefinedIn(<<>>, l) /\ ~NamedIn(<<>>, l)
<1>1. <<>> \in Seq({}) /\ DOMAIN <<>> = {}
  OBVIOUS
<1> QED BY <1>1 DEF IsCode, DefinedIn, NamedIn

LEMMA CodeOfOne ==
  ASSUME NEW i
  PROVE  /\ IsCode(<<i>>)
         /\ \A l : DefinedIn(<<i>>, l) <=> Defines(i, l)
         /\ \A l : NamedIn(<<i>>, l) <=> Names(i, l)
<1>1. <<i>> \in Seq({i}) /\ DOMAIN <<i>> = {1} /\ <<i>>[1] = i
  OBVIOUS
<1> QED BY <1>1 DEF IsCode, DefinedIn, NamedIn

LEMMA CodeOfTwo ==
  ASSUME NEW i, NEW j
  PROVE  /\ IsCode(<<i, j>>)
         /\ \A l : DefinedIn(<<i, j>>, l) <=> Defines(i, l) \/ Defines(j, l)
         /\ \A l : NamedIn(<<i, j>>, l) <=> Names(i, l) \/ Names(j, l)
<1>1. <<i, j>> \in Seq({i, j}) /\ DOMAIN <<i, j>> = {1, 2} /\ <<i, j>>[1] = i /\ <<i, j>>[2] = j
  OBVIOUS
<1> QED BY <1>1 DEF IsCode, DefinedIn, NamedIn

LEMMA CodeOfThree ==
  ASSUME NEW i, NEW j, NEW k
  PROVE  /\ IsCode(<<i, j, k>>)
         /\ \A l : DefinedIn(<<i, j, k>>, l) <=> Defines(i, l) \/ Defines(j, l) \/ Defines(k, l)
         /\ \A l : NamedIn(<<i, j, k>>, l) <=> Names(i, l) \/ Names(j, l) \/ Names(k, l)
<1>1. /\ <<i, j, k>> \in Seq({i, j, k}) /\ DOMAIN <<i, j, k>> = {1, 2, 3}
      /\ <<i, j, k>>[1] = i /\ <<i, j, k>>[2] = j /\ <<i, j, k>>[3] = k
  OBVIOUS
<1> QED BY <1>1 DEF IsCode, DefinedIn, NamedIn

\* An item that names nothing, one label, or that defines one.
LEMMA OneItem ==
  ASSUME NEW op, NEW a, NEW l
  PROVE  /\ ~Names(Item(op, <<>>), l)
         /\ Defines(Item("label", <<a>>), l) <=> l = a
         /\ ~Names(Item("label", <<a>>), l)
         /\ op # "label" => (Names(Item(op, <<a>>), l) <=> l = a)
<1>1. DOMAIN <<>> = {} /\ DOMAIN <<a>> = {1} /\ <<a>>[1] = a /\ (<<a>> = <<l>> <=> l = a)
  OBVIOUS
<1>2. \A t : Item(op, t).op = op /\ Item(op, t).to = t
  BY DEF Item
<1>3. \A t : Item("label", t).op = "label" /\ Item("label", t).to = t
  BY DEF Item
<1> QED BY <1>1, <1>2, <1>3 DEF Defines, Names

\* Only a label item defines.
LEMMA NotDefining ==
  ASSUME NEW op, NEW t, NEW l, op # "label"
  PROVE  ~Defines(Item(op, t), l)
BY DEF Defines, Item

\* Internal labels and those of the source.
LEMMA LabelKinds ==
  /\ \A n : \A x : InternalLabel(n) # UserLabel(x)
  /\ \A x, y : UserLabel(x) = UserLabel(y) <=> x = y
  /\ \A b : /\ Branch(b, "EFalse") = InternalLabel(b.EFalse)
            /\ Branch(b, "EBreak") = InternalLabel(b.EBreak)
            /\ Branch(b, "EContinue") = InternalLabel(b.EContinue)
            /\ Branch(b, "EExit") = InternalLabel(b.EExit)
<1>1. ASSUME NEW n, NEW x PROVE InternalLabel(n) # UserLabel(x)
  BY SMT DEF InternalLabel, UserLabel
<1>2. ASSUME NEW x, NEW y PROVE UserLabel(x) = UserLabel(y) <=> x = y
  BY SMT DEF UserLabel
<1>3. ASSUME NEW b
      PROVE  /\ Branch(b, "EFalse") = InternalLabel(b.EFalse)
             /\ Branch(b, "EBreak") = InternalLabel(b.EBreak)
             /\ Branch(b, "EContinue") = InternalLabel(b.EContinue)
             /\ Branch(b, "EExit") = InternalLabel(b.EExit)
  BY Zenon DEF Branch, InternalLabel
<1> QED BY <1>1, <1>2, <1>3

-----------------------------------------------------------------------------
(* TBranches: new labels, and the old ones restored.                       *)
LEMMA NewLabel ==
  ASSUME NEW b \in Branches
  PROVE  /\ LET c == NeedBranch(b, "EFalse") IN
              /\ c \in Branches /\ c.depth = b.depth /\ c.loop = b.loop
              /\ c.EBreak = b.EBreak /\ c.EContinue = b.EContinue /\ c.EExit = b.EExit
         /\ LET c == NeedBranch(b, "EExit") IN
              /\ c \in Branches /\ c.depth = b.depth /\ c.loop = b.loop
              /\ c.EBreak = b.EBreak /\ c.EContinue = b.EContinue /\ c.EFalse = b.EFalse
         /\ LET c == NeedBranch(b, "EBreak") IN
              c \in Branches /\ c.depth = b.depth /\ c.loop = b.loop
         /\ LET c == NeedBranch(b, "EContinue") IN
              c \in Branches /\ c.depth = b.depth /\ c.loop = b.loop
<1>1. b.next \in Nat
  BY DEF Branches
<1>2. PICK x, y \in Nat : x = b.next /\ y = b.next + 1
  BY <1>1
<1>3. /\ NeedBranch(b, "EFalse") = [b EXCEPT !.EFalse = x, !.next = y]
      /\ NeedBranch(b, "EExit") = [b EXCEPT !.EExit = x, !.next = y]
      /\ NeedBranch(b, "EBreak") = [b EXCEPT !.EBreak = x, !.next = y]
      /\ NeedBranch(b, "EContinue") = [b EXCEPT !.EContinue = x, !.next = y]
  BY <1>2, Zenon DEF NeedBranch
<1>4. LET c == [b EXCEPT !.EFalse = x, !.next = y] IN
        /\ c \in Branches /\ c.depth = b.depth /\ c.loop = b.loop
        /\ c.EBreak = b.EBreak /\ c.EContinue = b.EContinue /\ c.EExit = b.EExit
  BY DEF Branches
<1>5. LET c == [b EXCEPT !.EExit = x, !.next = y] IN
        /\ c \in Branches /\ c.depth = b.depth /\ c.loop = b.loop
        /\ c.EBreak = b.EBreak /\ c.EContinue = b.EContinue /\ c.EFalse = b.EFalse
  BY DEF Branches
<1>6. LET c == [b EXCEPT !.EBreak = x, !.next = y] IN
        c \in Branches /\ c.depth = b.depth /\ c.loop = b.loop
  BY DEF Branches
<1>7. LET c == [b EXCEPT !.EContinue = x, !.next = y] IN
        c \in Branches /\ c.depth = b.depth /\ c.loop = b.loop
  BY DEF Branches
<1> QED BY <1>3, <1>4, <1>5, <1>6, <1>7

\* SaveBranchesL and what StructureL then needs.
LEMMA OpenedBranches ==
  ASSUME iBranches \in Branches, NEW wd
  PROVE  /\ Opened(wd) \in Branches /\ Opened(wd).depth = iBranches.depth + 1
         /\ Opened(wd).loop = IF wd.w = "IF" THEN iBranches.loop ELSE iBranches.loop + 1
         /\ wd.w = "IF" => /\ Opened(wd).EBreak = iBranches.EBreak
                           /\ Opened(wd).EContinue = iBranches.EContinue
<1>1. PICK b : b = [iBranches EXCEPT !.depth = @ + 1]
  OBVIOUS
<1>2. PICK c : c = [b EXCEPT !.loop = @ + 1]
  OBVIOUS
<1>3. /\ b \in Branches /\ b.depth = iBranches.depth + 1 /\ b.loop = iBranches.loop
      /\ b.EBreak = iBranches.EBreak /\ b.EContinue = iBranches.EContinue
  BY <1>1 DEF Branches
<1>4. c \in Branches /\ c.depth = b.depth /\ c.loop = b.loop + 1
  BY <1>2, <1>3 DEF Branches
<1>5. Opened(wd) = IF wd.w = "IF" THEN NeedBranch(NeedBranch(b, "EExit"), "EFalse")
                   ELSE NeedBranch(NeedBranch(NeedBranch(c, "EContinue"), "EBreak"), "EFalse")
  BY <1>1, <1>2 DEF Opened
<1>6. CASE wd.w = "IF"
  <2>1. PICK e : e = NeedBranch(b, "EExit")
    OBVIOUS
  <2>2. /\ e \in Branches /\ e.depth = b.depth /\ e.loop = b.loop
        /\ e.EBreak = b.EBreak /\ e.EContinue = b.EContinue
    BY <1>3, <2>1, NewLabel
  <2>3. PICK f : f = NeedBranch(e, "EFalse")
    OBVIOUS
  <2>4. /\ f \in Branches /\ f.depth = e.depth /\ f.loop = e.loop
        /\ f.EBreak = e.EBreak /\ f.EContinue = e.EContinue
    BY <2>2, <2>3, NewLabel
  <2>5. Opened(wd) = f
    BY <1>5, <1>6, <2>1, <2>3
  <2> QED BY <1>3, <1>6, <2>2, <2>4, <2>5
<1>7. CASE wd.w # "IF"
  <2>1. PICK e : e = NeedBranch(c, "EContinue")
    OBVIOUS
  <2>2. e \in Branches /\ e.depth = c.depth /\ e.loop = c.loop
    BY <1>4, <2>1, NewLabel
  <2>3. PICK f : f = NeedBranch(e, "EBreak")
    OBVIOUS
  <2>4. f \in Branches /\ f.depth = e.depth /\ f.loop = e.loop
    BY <2>2, <2>3, NewLabel
  <2>5. PICK g : g = NeedBranch(f, "EFalse")
    OBVIOUS
  <2>6. g \in Branches /\ g.depth = f.depth /\ g.loop = f.loop
    BY <2>4, <2>5, NewLabel
  <2>7. Opened(wd) = g
    BY <1>5, <1>7, <2>1, <2>3, <2>5
  <2> QED BY <1>3, <1>4, <1>7, <2>2, <2>4, <2>6, <2>7
<1> QED BY <1>6, <1>7

\* RestoreBranches and LeaveLoop at the end of a structure.
LEMMA ClosedBranches ==
  ASSUME NEW b \in Branches, NEW saved \in Branches, b.depth # 0
  PROVE  /\ LET c == RestoreBranches(b, saved) IN
              /\ c \in Branches /\ c.depth = b.depth - 1 /\ c.loop = b.loop
              /\ c.EFalse = saved.EFalse /\ c.EBreak = saved.EBreak
              /\ c.EContinue = saved.EContinue /\ c.EExit = saved.EExit
         /\ b.loop # 0 =>
              LET c == LeaveLoop(RestoreBranches(b, saved)) IN
              /\ c \in Branches /\ c.depth = b.depth - 1 /\ c.loop = b.loop - 1
              /\ c.EFalse = saved.EFalse /\ c.EBreak = saved.EBreak
              /\ c.EContinue = saved.EContinue /\ c.EExit = saved.EExit
<1>1. PICK c : c = RestoreBranches(b, saved)
  OBVIOUS
<1>2. b.depth \in Nat /\ b.depth - 1 \in Nat
  BY DEF Branches
<1>3. /\ c \in Branches /\ c.depth = b.depth - 1 /\ c.loop = b.loop
      /\ c.EFalse = saved.EFalse /\ c.EBreak = saved.EBreak
      /\ c.EContinue = saved.EContinue /\ c.EExit = saved.EExit
  BY <1>1, <1>2 DEF RestoreBranches, Branches
<1>4. ASSUME b.loop # 0
      PROVE  LET e == LeaveLoop(c) IN
             /\ e \in Branches /\ e.depth = c.depth /\ e.loop = c.loop - 1
             /\ e.EFalse = c.EFalse /\ e.EBreak = c.EBreak
             /\ e.EContinue = c.EContinue /\ e.EExit = c.EExit
  <2>1. PICK n \in Nat : n = c.loop - 1
    BY <1>3, <1>4 DEF Branches
  <2>2. LeaveLoop(c) = [c EXCEPT !.loop = n]
    BY <2>1 DEF LeaveLoop
  <2> QED BY <1>3, <2>1, <2>2 DEF Branches
<1> QED BY <1>1, <1>3, <1>4

-----------------------------------------------------------------------------
(* The labels of the source and the p-code.                                *)
LabelOf(wd, x) == wd.w = "LABEL" /\ wd.ls[1] = x
JumpTo(wd, x) == wd.w \in {"GOTO", "ONERR", "VECTOR"} /\ \E k \in DOMAIN wd.ls : wd.ls[k] = x

Labelled(ws, code) ==
  /\ IsCode(code)
  /\ \A x : DefinedIn(code, UserLabel(x)) <=> \E n \in 1 .. Len(ws) : LabelOf(ws[n], x)
  /\ \A x : NamedIn(code, UserLabel(x)) <=> \E n \in 1 .. Len(ws) : JumpTo(ws[n], x)
  /\ \A n, m \in 1 .. Len(ws) :
       ws[n].w = "LABEL" /\ ws[m].w = "LABEL" /\ ws[n].ls = ws[m].ls => n = m

\* A label of the source is the one it defines.
LEMMA LabelWords ==
  ASSUME NEW wd \in Word
  PROVE  /\ wd.w = "LABEL" => wd.ls = <<wd.ls[1]>>
         /\ wd.w = "GOTO" => wd.ls = <<wd.ls[1]>>
         /\ wd.w = "ONERR" => wd.ls = <<>> \/ wd.ls = <<wd.ls[1]>>
         /\ wd.w = "VECTOR" => wd.ls \in Seq(Labels)
<1>1. \A l : <<l>>[1] = l
  OBVIOUS
<1>2. PICK one : one = {<<l>> : l \in Labels}
  OBVIOUS
<1>3. \A s \in one : s = <<s[1]>>
  BY <1>1, <1>2
<1>4. \/ wd \in [w : Plain, ls : {<<>>}]
      \/ wd \in [w : {"LABEL", "GOTO"}, ls : one]
      \/ wd \in [w : {"ONERR"}, ls : one \cup {<<>>}]
      \/ wd \in [w : {"VECTOR"}, ls : Seq(Labels)]
  BY <1>2 DEF Word
<1>5. wd \in [w : Plain, ls : {<<>>}] => wd.w \notin {"LABEL", "GOTO", "ONERR", "VECTOR"}
  BY DEF Plain
<1> QED BY <1>3, <1>4, <1>5

\* A word whose items define and name the labels it does, none of them twice.
LEMMA LabelledNext ==
  ASSUME NEW ws \in Seq(Word), NEW wd \in Word, NEW code, Labelled(ws, code),
         NEW items, IsCode(items),
         \A x : DefinedIn(items, UserLabel(x)) <=> LabelOf(wd, x),
         \A x : NamedIn(items, UserLabel(x)) <=> JumpTo(wd, x),
         wd.w = "LABEL" => ~DefinedIn(code, UserLabel(wd.ls[1]))
  PROVE  Labelled(Append(ws, wd), code \o items)
<1>1. PICK n \in Nat : n = Len(ws)
  BY LenProperties
<1>2. PICK vs : vs = Append(ws, wd)
  OBVIOUS
<1>3. Len(vs) = n + 1 /\ vs[n + 1] = wd /\ \A k \in 1 .. n : vs[k] = ws[k]
  BY <1>1, <1>2, Appended
<1>4. \A k \in 1 .. n + 1 : k = n + 1 \/ k \in 1 .. n
  OBVIOUS
<1>5. n + 1 \in 1 .. n + 1 /\ \A k \in 1 .. n : k \in 1 .. n + 1
  OBVIOUS
<1>6. /\ IsCode(code) /\ IsCode(code \o items)
      /\ \A l : DefinedIn(code \o items, l) <=> DefinedIn(code, l) \/ DefinedIn(items, l)
      /\ \A l : NamedIn(code \o items, l) <=> NamedIn(code, l) \/ NamedIn(items, l)
  BY CodeAfter DEF Labelled
<1>7. /\ \A x : DefinedIn(code, UserLabel(x)) <=> \E k \in 1 .. n : LabelOf(ws[k], x)
      /\ \A x : NamedIn(code, UserLabel(x)) <=> \E k \in 1 .. n : JumpTo(ws[k], x)
      /\ \A k, m \in 1 .. n : ws[k].w = "LABEL" /\ ws[m].w = "LABEL" /\ ws[k].ls = ws[m].ls => k = m
  BY <1>1, Zenon DEF Labelled
<1>8. ASSUME NEW x
      PROVE  DefinedIn(code \o items, UserLabel(x)) <=> \E k \in 1 .. n + 1 : LabelOf(vs[k], x)
  <2>1. DefinedIn(code \o items, UserLabel(x)) <=> (\E k \in 1 .. n : LabelOf(ws[k], x)) \/ LabelOf(wd, x)
    BY <1>6, <1>7, Zenon
  <2>2. (\E k \in 1 .. n + 1 : LabelOf(vs[k], x)) <=> (\E k \in 1 .. n : LabelOf(ws[k], x)) \/ LabelOf(wd, x)
    BY <1>3, <1>4, <1>5, Zenon
  <2> QED BY <2>1, <2>2
<1>9. ASSUME NEW x
      PROVE  NamedIn(code \o items, UserLabel(x)) <=> \E k \in 1 .. n + 1 : JumpTo(vs[k], x)
  <2>1. NamedIn(code \o items, UserLabel(x)) <=> (\E k \in 1 .. n : JumpTo(ws[k], x)) \/ JumpTo(wd, x)
    BY <1>6, <1>7, Zenon
  <2>2. (\E k \in 1 .. n + 1 : JumpTo(vs[k], x)) <=> (\E k \in 1 .. n : JumpTo(ws[k], x)) \/ JumpTo(wd, x)
    BY <1>3, <1>4, <1>5, Zenon
  <2> QED BY <2>1, <2>2
<1>10. ASSUME NEW k \in 1 .. n, wd.w = "LABEL", ws[k].w = "LABEL", ws[k].ls = wd.ls PROVE FALSE
  <2>1. LabelOf(ws[k], wd.ls[1])
    BY <1>10 DEF LabelOf
  <2> QED BY <1>7, <1>10, <2>1
<1>11. ASSUME NEW k \in 1 .. n + 1, NEW m \in 1 .. n + 1,
              vs[k].w = "LABEL", vs[m].w = "LABEL", vs[k].ls = vs[m].ls
       PROVE  k = m
  <2>1. CASE k \in 1 .. n /\ m \in 1 .. n
    BY <1>3, <1>7, <1>11, <2>1
  <2>2. CASE k = n + 1 /\ m \in 1 .. n
    BY <1>3, <1>10, <1>11, <2>2
  <2>3. CASE k \in 1 .. n /\ m = n + 1
    BY <1>3, <1>10, <1>11, <2>3
  <2> QED BY <1>4, <1>11, <2>1, <2>2, <2>3
<1> QED BY <1>2, <1>3, <1>6, <1>8, <1>9, <1>11, Zenon DEF Labelled

\* A word that is no label and names none.
LEMMA LabelledAside ==
  ASSUME NEW ws \in Seq(Word), NEW wd \in Word, NEW code, Labelled(ws, code),
         NEW items, IsCode(items), wd.w \notin {"LABEL", "GOTO", "ONERR", "VECTOR"},
         \A x : ~DefinedIn(items, UserLabel(x)) /\ ~NamedIn(items, UserLabel(x))
  PROVE  Labelled(Append(ws, wd), code \o items)
<1>1. \A x : ~LabelOf(wd, x) /\ ~JumpTo(wd, x)
  BY DEF LabelOf, JumpTo
<1> QED BY <1>1, LabelledNext

-----------------------------------------------------------------------------
(* The internal labels: every one named is defined, or will be by the      *)
(* activation that holds it.                                               *)

\* The branches of activation j: the parser's own for the innermost, what
\* the next one saved for the others.
BranchesOf(fs, b, j) == IF j = Len(fs) THEN b ELSE fs[j + 1].saved

\* The labels an activation with branches e defines when it ends.
Owes(kind, e, l) ==
  \/ kind \in {"IF", "ELSE"} /\ l = InternalLabel(e.EExit)
  \/ kind \in {"IF", "WHILE"} /\ l = InternalLabel(e.EFalse)
  \/ kind \in {"DO", "WHILE"} /\ l = InternalLabel(e.EBreak)
  \/ kind = "DO" /\ l = InternalLabel(e.EContinue)

\* The labels a loop with branches e has defined at its top.
Topped(kind, e, code) ==
  /\ kind = "WHILE" => DefinedIn(code, InternalLabel(e.EContinue))
  /\ kind = "DO" => DefinedIn(code, InternalLabel(e.EFalse))

Pending(fs, b, l) == \E j \in 1 .. Len(fs) : Owes(fs[j].kind, BranchesOf(fs, b, j), l)

SameLoop(c, b) == c.EBreak = b.EBreak /\ c.EContinue = b.EContinue

Branched(fs, b, code) ==
  /\ IsCode(code)
  /\ \A l : NamedIn(code, l) => \/ \E x : l = UserLabel(x)
                                \/ DefinedIn(code, l)
                                \/ Pending(fs, b, l)
  /\ \A i, m \in 1 .. Len(fs) :
       i <= m /\ (\A k \in i + 1 .. m : fs[k].kind \in {"IF", "ELSE"}) =>
         SameLoop(BranchesOf(fs, b, m), BranchesOf(fs, b, i))
  /\ \A j \in 1 .. Len(fs) : Topped(fs[j].kind, BranchesOf(fs, b, j), code)

\* Code that names nothing new keeps what the code before named.
LEMMA MoreCode ==
  ASSUME NEW fs, NEW gs, NEW b, NEW c, NEW code, NEW items, Branched(fs, b, code), IsCode(items),
         \A l : NamedIn(items, l) => \/ \E x : l = UserLabel(x)
                                     \/ DefinedIn(code \o items, l)
                                     \/ Pending(gs, c, l),
         \A l : Pending(fs, b, l) => Pending(gs, c, l) \/ DefinedIn(items, l)
  PROVE  /\ IsCode(code \o items)
         /\ \A l : NamedIn(code \o items, l) => \/ \E x : l = UserLabel(x)
                                                \/ DefinedIn(code \o items, l)
                                                \/ Pending(gs, c, l)
         /\ \A kind, e : Topped(kind, e, code) => Topped(kind, e, code \o items)
<1>1. /\ IsCode(code \o items)
      /\ \A l : DefinedIn(code \o items, l) <=> DefinedIn(code, l) \/ DefinedIn(items, l)
      /\ \A l : NamedIn(code \o items, l) <=> NamedIn(code, l) \/ NamedIn(items, l)
  BY CodeAfter DEF Branched
<1>2. ASSUME NEW l, NamedIn(code \o items, l)
      PROVE  \/ \E x : l = UserLabel(x)
             \/ DefinedIn(code \o items, l)
             \/ Pending(gs, c, l)
  <2>1. NamedIn(code, l) => \/ \E x : l = UserLabel(x)
                            \/ DefinedIn(code, l)
                            \/ Pending(fs, b, l)
    BY Zenon DEF Branched
  <2> QED BY <1>1, <1>2, <2>1, Zenon
<1>3. ASSUME NEW kind, NEW e, Topped(kind, e, code) PROVE Topped(kind, e, code \o items)
  BY <1>1, <1>3, Zenon DEF Topped
<1> QED BY <1>1, <1>2, <1>3, Zenon

\* A word of the list of the innermost activation; ELSEIF renews EFalse.
LEMMA BranchedWithin ==
  ASSUME NEW fs \in Activations, NEW b, NEW c, NEW code, NEW items, Branched(fs, b, code), IsCode(items),
         c.EExit = b.EExit, SameLoop(c, b),
         \/ c.EFalse = b.EFalse
         \/ /\ Len(fs) # 0 /\ fs[Len(fs)].kind = "IF"
            /\ DefinedIn(items, InternalLabel(b.EFalse)),
         \A l : NamedIn(items, l) => \/ \E x : l = UserLabel(x)
                                     \/ DefinedIn(code \o items, l)
                                     \/ Pending(fs, c, l)
  PROVE  Branched(fs, c, code \o items)
<1>1. PICK d \in Nat : d = Len(fs)
  BY LenProperties DEF Activations
<1>2. \A j \in 1 .. d : \/ BranchesOf(fs, c, j) = BranchesOf(fs, b, j)
                        \/ j = d /\ BranchesOf(fs, c, j) = c /\ BranchesOf(fs, b, j) = b
  BY <1>1 DEF BranchesOf
<1>3. ASSUME NEW l, Pending(fs, b, l) PROVE Pending(fs, c, l) \/ DefinedIn(items, l)
  <2>1. PICK j \in 1 .. d : Owes(fs[j].kind, BranchesOf(fs, b, j), l)
    BY <1>1, <1>3 DEF Pending
  <2>2. Owes(fs[j].kind, BranchesOf(fs, c, j), l) \/ DefinedIn(items, l)
    <3>1. CASE BranchesOf(fs, c, j) = BranchesOf(fs, b, j)
      BY <2>1, <3>1
    <3>2. CASE j = d /\ BranchesOf(fs, c, j) = c /\ BranchesOf(fs, b, j) = b
      <4>1. Owes(fs[j].kind, b, l)
        BY <2>1, <3>2
      <4>2. c.EFalse = b.EFalse \/ (fs[j].kind = "IF" /\ DefinedIn(items, InternalLabel(b.EFalse)))
        BY <1>1, <3>2
      <4>3. Owes(fs[j].kind, c, l) \/ DefinedIn(items, l)
        BY <4>1, <4>2 DEF Owes, SameLoop
      <4> QED BY <3>2, <4>3
    <3> QED BY <1>2, <3>1, <3>2
  <2> QED BY <1>1, <2>2 DEF Pending
<1>4. /\ IsCode(code \o items)
      /\ \A l : NamedIn(code \o items, l) => \/ \E x : l = UserLabel(x)
                                             \/ DefinedIn(code \o items, l)
                                             \/ Pending(fs, c, l)
      /\ \A kind, e : Topped(kind, e, code) => Topped(kind, e, code \o items)
  BY <1>3, MoreCode, Zenon
<1>5. \A j \in 1 .. d : SameLoop(BranchesOf(fs, c, j), BranchesOf(fs, b, j))
  BY <1>2 DEF SameLoop
<1>6. ASSUME NEW i \in 1 .. d, NEW m \in 1 .. d, i <= m,
             \A k \in i + 1 .. m : fs[k].kind \in {"IF", "ELSE"}
      PROVE  SameLoop(BranchesOf(fs, c, m), BranchesOf(fs, c, i))
  <2>1. SameLoop(BranchesOf(fs, b, m), BranchesOf(fs, b, i))
    BY <1>1, <1>6 DEF Branched
  <2>2. /\ SameLoop(BranchesOf(fs, c, m), BranchesOf(fs, b, m))
        /\ SameLoop(BranchesOf(fs, c, i), BranchesOf(fs, b, i))
    BY <1>5
  <2> QED BY <2>1, <2>2 DEF SameLoop
<1>7. ASSUME NEW j \in 1 .. d PROVE Topped(fs[j].kind, BranchesOf(fs, c, j), code \o items)
  <2>1. Topped(fs[j].kind, BranchesOf(fs, b, j), code)
    BY <1>1 DEF Branched
  <2>2. Topped(fs[j].kind, BranchesOf(fs, c, j), code)
    <3>1. CASE BranchesOf(fs, c, j) = BranchesOf(fs, b, j)
      BY <2>1, <3>1
    <3>2. CASE j = d /\ BranchesOf(fs, c, j) = c /\ BranchesOf(fs, b, j) = b
      <4>1. Topped(fs[j].kind, b, code)
        BY <2>1, <3>2
      <4>2. c.EFalse = b.EFalse \/ fs[j].kind = "IF"
        BY <1>1, <3>2
      <4>3. Topped(fs[j].kind, c, code)
        BY <4>1, <4>2 DEF Topped, SameLoop
      <4> QED BY <3>2, <4>3
    <3> QED BY <1>2, <3>1, <3>2
  <2> QED BY <1>4, <2>2
<1> QED BY <1>1, <1>4, <1>6, <1>7, Zenon DEF Branched

\* The labels of the loop a word stands in.
LEMMA LoopLabels ==
  ASSUME NEW fs \in Activations, NEW b, NEW code, Branched(fs, b, code),
         NEW i \in 1 .. Len(fs), fs[i].kind \in {"DO", "WHILE"}
  PROVE  /\ Pending(fs, b, InternalLabel(b.EBreak))
         /\ Pending(fs, b, InternalLabel(b.EContinue)) \/ DefinedIn(code, InternalLabel(b.EContinue))
<1>1. PICK d \in Nat : d = Len(fs)
  BY LenProperties DEF Activations
<1>2. LoopsOf(fs) \in SUBSET (1 .. d) /\ LoopsOf(fs) # {}
  BY <1>1 DEF LoopsOf
<1>3. PICK g : g = GreatestOf(LoopsOf(fs))
  OBVIOUS
<1>4. g \in LoopsOf(fs) /\ \A k \in LoopsOf(fs) : g >= k
  BY <1>2, <1>3, SomeGreatest
<1>5. g \in 1 .. d /\ fs[g].kind \in {"DO", "WHILE"} /\ d \in 1 .. d /\ g <= d
  BY <1>1, <1>4 DEF LoopsOf
<1>6. ASSUME NEW k \in g + 1 .. d PROVE fs[k].kind \in {"IF", "ELSE"}
  <2>1. k \in 1 .. d /\ ~(g >= k)
    BY <1>5
  <2>2. fs[k].kind \notin {"DO", "WHILE"}
    BY <1>1, <1>4, <2>1 DEF LoopsOf
  <2>3. fs[k] \in [kind : Kinds, saved : Branches]
    BY <1>1, <2>1, ElementOfSeq DEF Activations
  <2> QED BY <2>2, <2>3 DEF Kinds
<1>7. PICK e : e = BranchesOf(fs, b, g)
  OBVIOUS
<1>8. BranchesOf(fs, b, d) = b
  BY <1>1 DEF BranchesOf
<1>9. SameLoop(b, e) /\ Topped(fs[g].kind, e, code)
  <2>1. SameLoop(BranchesOf(fs, b, d), BranchesOf(fs, b, g))
    BY <1>1, <1>5, <1>6 DEF Branched
  <2>2. Topped(fs[g].kind, BranchesOf(fs, b, g), code)
    BY <1>1, <1>5 DEF Branched
  <2> QED BY <1>7, <1>8, <2>1, <2>2
<1>10. Owes(fs[g].kind, e, InternalLabel(b.EBreak))
  BY <1>5, <1>9 DEF Owes, SameLoop
<1>11. Owes(fs[g].kind, e, InternalLabel(b.EContinue)) \/ DefinedIn(code, InternalLabel(b.EContinue))
  BY <1>5, <1>9 DEF Owes, SameLoop, Topped
<1> QED BY <1>1, <1>5, <1>7, <1>10, <1>11 DEF Pending

\* ELSE keeps the innermost activation, which no longer owes EFalse.
LEMMA BranchedElse ==
  ASSUME NEW fs \in Activations, NEW b, NEW code, NEW items, Branched(fs, b, code), IsCode(items),
         NEW gs, gs \in Activations, Len(gs) = Len(fs), Len(fs) # 0,
         fs[Len(fs)].kind = "IF", gs[Len(fs)].kind = "ELSE",
         \A j \in 1 .. Len(fs) : gs[j].saved = fs[j].saved /\ (j # Len(fs) => gs[j].kind = fs[j].kind),
         DefinedIn(items, InternalLabel(b.EFalse)),
         \A l : NamedIn(items, l) => l = InternalLabel(b.EExit)
  PROVE  Branched(gs, b, code \o items)
<1>1. PICK d \in Nat : d = Len(fs) /\ d = Len(gs) /\ d \in 1 .. d
  BY LenProperties DEF Activations
<1>2. \A j \in 1 .. d : BranchesOf(gs, b, j) = BranchesOf(fs, b, j)
  <2>1. \A j \in 1 .. d : j # d => j + 1 \in 1 .. d
    BY <1>1
  <2> QED BY <1>1, <2>1 DEF BranchesOf
<1>3. BranchesOf(fs, b, d) = b
  BY <1>1 DEF BranchesOf
<1>4. ASSUME NEW l, Pending(fs, b, l) PROVE Pending(gs, b, l) \/ DefinedIn(items, l)
  <2>1. PICK j \in 1 .. d : Owes(fs[j].kind, BranchesOf(fs, b, j), l)
    BY <1>1, <1>4 DEF Pending
  <2>2. Owes(gs[j].kind, BranchesOf(gs, b, j), l) \/ DefinedIn(items, l)
    <3>1. CASE j # d
      BY <1>1, <1>2, <2>1, <3>1
    <3>2. CASE j = d
      <4>1. Owes("IF", b, l)
        BY <1>1, <1>3, <2>1, <3>2
      <4>2. Owes("ELSE", b, l) \/ DefinedIn(items, l)
        BY <4>1 DEF Owes
      <4> QED BY <1>1, <1>2, <1>3, <3>2, <4>2
    <3> QED BY <3>1, <3>2
  <2> QED BY <1>1, <2>2 DEF Pending
<1>5. Pending(gs, b, InternalLabel(b.EExit))
  <2>1. Owes(gs[d].kind, BranchesOf(gs, b, d), InternalLabel(b.EExit))
    BY <1>1, <1>2, <1>3 DEF Owes
  <2> QED BY <1>1, <2>1 DEF Pending
<1>6. /\ IsCode(code \o items)
      /\ \A l : NamedIn(code \o items, l) => \/ \E x : l = UserLabel(x)
                                             \/ DefinedIn(code \o items, l)
                                             \/ Pending(gs, b, l)
      /\ \A kind, e : Topped(kind, e, code) => Topped(kind, e, code \o items)
  BY <1>4, <1>5, MoreCode, ZenonT(40)
<1>7. \A k \in 1 .. d : gs[k].kind \in {"IF", "ELSE"} => fs[k].kind \in {"IF", "ELSE"}
  BY <1>1
<1>8. ASSUME NEW i \in 1 .. d, NEW m \in 1 .. d, i <= m,
             \A k \in i + 1 .. m : gs[k].kind \in {"IF", "ELSE"}
      PROVE  SameLoop(BranchesOf(gs, b, m), BranchesOf(gs, b, i))
  <2>1. \A k \in i + 1 .. m : fs[k].kind \in {"IF", "ELSE"}
    <3>1. \A k \in i + 1 .. m : k \in 1 .. d
      OBVIOUS
    <3> QED BY <1>7, <1>8, <3>1
  <2>2. SameLoop(BranchesOf(fs, b, m), BranchesOf(fs, b, i))
    BY <1>1, <1>8, <2>1 DEF Branched
  <2> QED BY <1>2, <2>2
<1>9. ASSUME NEW j \in 1 .. d PROVE Topped(gs[j].kind, BranchesOf(gs, b, j), code \o items)
  <2>1. Topped(fs[j].kind, BranchesOf(fs, b, j), code)
    BY <1>1 DEF Branched
  <2>2. gs[j].kind = fs[j].kind \/ gs[j].kind = "ELSE"
    BY <1>1
  <2>3. Topped(gs[j].kind, BranchesOf(gs, b, j), code)
    <3>1. CASE gs[j].kind = "ELSE"
      BY <3>1 DEF Topped
    <3> QED BY <1>2, <2>1, <2>2, <3>1
  <2> QED BY <1>6, <2>3
<1> QED BY <1>1, <1>6, <1>8, <1>9, Zenon DEF Branched

\* A structure begins: the branches before are those saved.
LEMMA BranchedOpened ==
  ASSUME NEW fs \in Activations, NEW b, NEW c, NEW code, NEW items, Branched(fs, b, code), IsCode(items),
         NEW f \in [kind : Kinds, saved : Branches], f.saved = b,
         f.kind = "IF" => SameLoop(c, b), f.kind # "ELSE",
         Topped(f.kind, c, code \o items),
         \A l : NamedIn(items, l) => Owes(f.kind, c, l)
  PROVE  Branched(Append(fs, f), c, code \o items)
<1>1. PICK d \in Nat : d = Len(fs)
  BY LenProperties DEF Activations
<1>2. PICK gs : gs = Append(fs, f)
  OBVIOUS
<1>3. Len(gs) = d + 1 /\ gs[d + 1] = f /\ \A j \in 1 .. d : gs[j] = fs[j]
  BY <1>1, <1>2, Appended DEF Activations
<1>4. \A j \in 1 .. d + 1 : j = d + 1 \/ j \in 1 .. d
  OBVIOUS
<1>5. d + 1 \in 1 .. d + 1 /\ \A j \in 1 .. d : j \in 1 .. d + 1 /\ j # d + 1
  OBVIOUS
<1>6. BranchesOf(gs, c, d + 1) = c /\ \A j \in 1 .. d : BranchesOf(gs, c, j) = BranchesOf(fs, b, j)
  <2>1. \A j \in 1 .. d : j # d => j + 1 \in 1 .. d
    BY <1>1
  <2>2. ASSUME NEW j \in 1 .. d PROVE BranchesOf(gs, c, j) = BranchesOf(fs, b, j)
    <3>1. CASE j = d
      BY <1>1, <1>3, <1>5, <3>1 DEF BranchesOf
    <3>2. CASE j # d
      BY <1>1, <1>3, <1>5, <2>1, <3>2 DEF BranchesOf
    <3> QED BY <3>1, <3>2
  <2>3. BranchesOf(gs, c, d + 1) = c
    BY <1>3 DEF BranchesOf
  <2> QED BY <2>2, <2>3
<1>7. ASSUME NEW l, Pending(fs, b, l) PROVE Pending(gs, c, l)
  <2>1. PICK j \in 1 .. d : Owes(fs[j].kind, BranchesOf(fs, b, j), l)
    BY <1>1, <1>7 DEF Pending
  <2>2. Owes(gs[j].kind, BranchesOf(gs, c, j), l)
    BY <1>3, <1>6, <2>1
  <2> QED BY <1>3, <1>5, <2>2 DEF Pending
<1>8. ASSUME NEW l, NamedIn(items, l) PROVE Pending(gs, c, l)
  <2>1. Owes(gs[d + 1].kind, BranchesOf(gs, c, d + 1), l)
    BY <1>3, <1>6, <1>8
  <2> QED BY <1>3, <1>5, <2>1 DEF Pending
<1>9. /\ IsCode(code \o items)
      /\ \A l : NamedIn(code \o items, l) => \/ \E x : l = UserLabel(x)
                                             \/ DefinedIn(code \o items, l)
                                             \/ Pending(gs, c, l)
      /\ \A kind, e : Topped(kind, e, code) => Topped(kind, e, code \o items)
  BY <1>7, <1>8, MoreCode, Zenon
<1>10. ASSUME NEW i \in 1 .. d + 1, NEW m \in 1 .. d + 1, i <= m,
              \A k \in i + 1 .. m : gs[k].kind \in {"IF", "ELSE"}
       PROVE  SameLoop(BranchesOf(gs, c, m), BranchesOf(gs, c, i))
  <2>1. CASE m \in 1 .. d
    <3>1. i \in 1 .. d /\ \A k \in i + 1 .. m : k \in 1 .. d
      BY <1>10, <2>1
    <3>2. \A k \in i + 1 .. m : fs[k].kind \in {"IF", "ELSE"}
      BY <1>3, <1>10, <3>1
    <3>3. SameLoop(BranchesOf(fs, b, m), BranchesOf(fs, b, i))
      BY <1>1, <1>10, <2>1, <3>1, <3>2 DEF Branched
    <3> QED BY <1>6, <2>1, <3>1, <3>3
  <2>2. CASE m = d + 1 /\ i = d + 1
    BY <2>2 DEF SameLoop
  <2>3. CASE m = d + 1 /\ i \in 1 .. d
    <3>1. d \in 1 .. d /\ i <= d /\ d + 1 \in i + 1 .. m
      BY <2>3
    <3>2. \A k \in i + 1 .. d : k \in 1 .. d /\ k \in i + 1 .. m
      BY <2>3
    <3>3. \A k \in i + 1 .. d : fs[k].kind \in {"IF", "ELSE"}
      BY <1>3, <1>10, <3>2
    <3>4. SameLoop(BranchesOf(fs, b, d), BranchesOf(fs, b, i))
      BY <1>1, <2>3, <3>1, <3>3 DEF Branched
    <3>5. BranchesOf(fs, b, d) = b
      BY <1>1 DEF BranchesOf
    <3>6. SameLoop(c, b)
      BY <1>3, <1>10, <3>1
    <3> QED BY <1>6, <2>3, <3>4, <3>5, <3>6 DEF SameLoop
  <2> QED BY <1>4, <2>1, <2>2, <2>3
<1>11. ASSUME NEW j \in 1 .. d + 1 PROVE Topped(gs[j].kind, BranchesOf(gs, c, j), code \o items)
  <2>1. CASE j = d + 1
    BY <1>3, <1>6, <2>1
  <2>2. CASE j \in 1 .. d
    <3>1. Topped(fs[j].kind, BranchesOf(fs, b, j), code)
      BY <1>1, <2>2 DEF Branched
    <3> QED BY <1>3, <1>6, <1>9, <2>2, <3>1
  <2> QED BY <1>4, <2>1, <2>2
<1> QED BY <1>2, <1>3, <1>9, <1>10, <1>11, Zenon DEF Branched

\* A structure ends and defines what it owes; the branches are those saved.
LEMMA BranchedClosed ==
  ASSUME NEW fs \in Activations, NEW b, NEW c, NEW code, NEW items, Branched(fs, b, code), IsCode(items),
         NEW d \in Nat, Len(fs) = d + 1, SameLoop(c, fs[d + 1].saved),
         c.EExit = fs[d + 1].saved.EExit, c.EFalse = fs[d + 1].saved.EFalse,
         \A l : Owes(fs[d + 1].kind, b, l) => DefinedIn(items, l),
         \A l : NamedIn(items, l) => DefinedIn(code \o items, l)
  PROVE  Branched(Front(fs), c, code \o items)
<1>1. PICK gs : gs = Front(fs)
  OBVIOUS
<1>2. Len(gs) = d /\ \A j \in 1 .. d : gs[j] = fs[j]
  BY <1>1, FrontOf DEF Activations
<1>3. \A j \in 1 .. d + 1 : j = d + 1 \/ j \in 1 .. d
  OBVIOUS
<1>4. d + 1 \in 1 .. d + 1 /\ \A j \in 1 .. d : j \in 1 .. d + 1 /\ j # d + 1
  OBVIOUS
<1>5. BranchesOf(fs, b, d + 1) = b
  BY DEF BranchesOf
<1>6. \A j \in 1 .. d : \/ BranchesOf(gs, c, j) = BranchesOf(fs, b, j)
                        \/ /\ BranchesOf(gs, c, j) = c
                           /\ BranchesOf(fs, b, j) = fs[d + 1].saved
  <2>1. \A j \in 1 .. d : j # d => j + 1 \in 1 .. d
    OBVIOUS
  <2> QED BY <1>2, <1>4, <2>1 DEF BranchesOf
<1>7. \A kind, l : Owes(kind, c, l) <=> Owes(kind, fs[d + 1].saved, l)
  BY DEF Owes, SameLoop
<1>8. ASSUME NEW kind PROVE Topped(kind, c, code) <=> Topped(kind, fs[d + 1].saved, code)
  BY DEF Topped, SameLoop
<1>9. ASSUME NEW l, Pending(fs, b, l) PROVE Pending(gs, c, l) \/ DefinedIn(items, l)
  <2>1. PICK j \in 1 .. d + 1 : Owes(fs[j].kind, BranchesOf(fs, b, j), l)
    BY <1>9 DEF Pending
  <2>2. CASE j = d + 1
    BY <1>5, <2>1, <2>2
  <2>3. CASE j \in 1 .. d
    <3>1. Owes(gs[j].kind, BranchesOf(gs, c, j), l)
      BY <1>2, <1>6, <1>7, <2>1, <2>3
    <3> QED BY <1>2, <2>3, <3>1 DEF Pending
  <2> QED BY <1>3, <2>2, <2>3
<1>10. /\ IsCode(code \o items)
       /\ \A l : NamedIn(code \o items, l) => \/ \E x : l = UserLabel(x)
                                              \/ DefinedIn(code \o items, l)
                                              \/ Pending(gs, c, l)
       /\ \A kind, e : Topped(kind, e, code) => Topped(kind, e, code \o items)
  BY <1>9, MoreCode, Zenon
<1>11. \A j \in 1 .. d : SameLoop(BranchesOf(gs, c, j), BranchesOf(fs, b, j))
  BY <1>6 DEF SameLoop
<1>12. ASSUME NEW i \in 1 .. d, NEW m \in 1 .. d, i <= m,
              \A k \in i + 1 .. m : gs[k].kind \in {"IF", "ELSE"}
       PROVE  SameLoop(BranchesOf(gs, c, m), BranchesOf(gs, c, i))
  <2>1. \A k \in i + 1 .. m : k \in 1 .. d
    OBVIOUS
  <2>2. \A k \in i + 1 .. m : fs[k].kind \in {"IF", "ELSE"}
    BY <1>2, <1>12, <2>1
  <2>3. SameLoop(BranchesOf(fs, b, m), BranchesOf(fs, b, i))
    BY <1>4, <1>12, <2>2 DEF Branched
  <2>4. /\ SameLoop(BranchesOf(gs, c, m), BranchesOf(fs, b, m))
        /\ SameLoop(BranchesOf(gs, c, i), BranchesOf(fs, b, i))
    BY <1>11
  <2> QED BY <2>3, <2>4 DEF SameLoop
<1>13. ASSUME NEW j \in 1 .. d PROVE Topped(gs[j].kind, BranchesOf(gs, c, j), code \o items)
  <2>1. Topped(fs[j].kind, BranchesOf(fs, b, j), code)
    BY <1>4 DEF Branched
  <2>2. Topped(gs[j].kind, BranchesOf(gs, c, j), code)
    BY <1>2, <1>6, <1>8, <2>1
  <2> QED BY <1>10, <2>2
<1> QED BY <1>1, <1>2, <1>10, <1>12, <1>13, Zenon DEF Branched

-----------------------------------------------------------------------------
(* The words accepted, of any sequence of words.                           *)
WellNestedIn(ws) == \A n \in 1 .. Len(ws) : Fits(ws, n)
NamedOnce(ws) ==
  \A n, m \in 1 .. Len(ws) :
    ws[n].w = "LABEL" /\ ws[m].w = "LABEL" /\ ws[n].ls = ws[m].ls => n = m
FoundIn(ws) ==
  \A n \in 1 .. Len(ws) : ws[n].w \in {"GOTO", "ONERR", "VECTOR"} =>
    \A k \in DOMAIN ws[n].ls : \E m \in 1 .. Len(ws) : LabelOf(ws[m], ws[n].ls[k])

\* WellNested is that every word fits; so after a step.
LEMMA WellNestedIs == ASSUME words \in Seq(Word) PROVE WellNested <=> WellNestedIn(words)
<1>1. DOMAIN words = 1 .. Len(words)
  BY LenProperties
<1>2. \A n : Depth(n) = DepthIn(words, n)
  BY Zenon DEF Depth, DepthIn, WordsTo
<1>3. \A n : Inside(n) = InsideIn(words, n)
  BY <1>2, Zenon DEF Inside, InsideIn
<1>4. ASSUME NEW n \in 1 .. Len(words)
      PROVE  Fits(words, n) <=>
        /\ Cardinality(Inside(n)) + (IF words[n].w \in Openers \cup {"VECTOR"} THEN 1 ELSE 0)
             <= MaxStructureDepth
        /\ words[n].w \in {"ELSEIF", "ELSE"} \cup Closers =>
             /\ Inside(n) # {}
             /\ words[GreatestOf(Inside(n))].w = Opener(words[n].w)
             /\ words[n].w \in {"ELSE", "ELSEIF"} =>
                  \A k \in GreatestOf(Inside(n)) + 1 .. n - 1 :
                    ~(words[k].w = "ELSE" /\ Depth(k) = Depth(n))
        /\ words[n].w \in {"BREAK", "CONTINUE"} =>
             \E k \in Inside(n) : words[k].w \in {"DO", "WHILE"}
        /\ words[n].w = "ENDP" => Inside(n) = {}
  BY <1>2, <1>3, Zenon DEF Fits
<1> QED BY <1>1, <1>4, Zenon DEF WellNested, WellNestedIn

LEMMA WellNestedNext == ASSUME words' \in Seq(Word) PROVE WellNested' <=> WellNestedIn(words')
<1>1. DOMAIN words' = 1 .. Len(words')
  BY LenProperties
<1>2. \A n : Depth(n)' = DepthIn(words', n)
  BY Zenon DEF Depth, DepthIn, WordsTo
<1>3. \A n : Inside(n)' = InsideIn(words', n)
  BY <1>2, Zenon DEF Inside, InsideIn
<1>4. ASSUME NEW n \in 1 .. Len(words')
      PROVE  Fits(words', n) <=>
        /\ Cardinality(Inside(n)') + (IF words'[n].w \in Openers \cup {"VECTOR"} THEN 1 ELSE 0)
             <= MaxStructureDepth
        /\ words'[n].w \in {"ELSEIF", "ELSE"} \cup Closers =>
             /\ Inside(n)' # {}
             /\ words'[GreatestOf(Inside(n)')].w = Opener(words'[n].w)
             /\ words'[n].w \in {"ELSE", "ELSEIF"} =>
                  \A k \in GreatestOf(Inside(n)') + 1 .. n - 1 :
                    ~(words'[k].w = "ELSE" /\ Depth(k)' = Depth(n)')
        /\ words'[n].w \in {"BREAK", "CONTINUE"} =>
             \E k \in Inside(n)' : words'[k].w \in {"DO", "WHILE"}
        /\ words'[n].w = "ENDP" => Inside(n)' = {}
  BY <1>2, <1>3, Zenon DEF Fits
<1> QED BY <1>1, <1>4, Zenon DEF WellNested, WellNestedIn

\* What AcceptsExactly says after a step.
LEMMA AcceptsNext ==
  ASSUME words' \in Seq(Word), Len(words') # 0
  PROVE  AcceptsExactly' <=>
           /\ phase' \in {"run", "ended"} =>
                WellNestedIn(words') /\ NamedOnce(words') /\ FoundIn(words')
           /\ phase' = "failed" =>
                \/ ~WellNestedIn(words') \/ ~NamedOnce(words')
                \/ words'[Len(words')].w = "ENDP" /\ ~FoundIn(words')
<1>1. DOMAIN words' = 1 .. Len(words')
  BY LenProperties
<1>2. WellNested' <=> WellNestedIn(words')
  BY WellNestedNext
<1>3. LabelsNamed' <=> NamedOnce(words')
  BY <1>1, Zenon DEF LabelsNamed, NamedOnce
<1>4. LabelsFound' <=> FoundIn(words')
  <2>1. ASSUME NEW x
        PROVE  (\E m \in 1 .. Len(words') : LabelOf(words'[m], x))
                 <=> \E m \in DOMAIN words' : words'[m].w = "LABEL" /\ words'[m].ls[1] = x
    BY <1>1, Zenon DEF LabelOf
  <2>2. ASSUME NEW n
        PROVE  (\A k \in DOMAIN words'[n].ls : \E m \in 1 .. Len(words') : LabelOf(words'[m], words'[n].ls[k]))
                 <=> \A k \in DOMAIN words'[n].ls : \E m \in DOMAIN words' :
                       words'[m].w = "LABEL" /\ words'[m].ls[1] = words'[n].ls[k]
    BY <2>1, Zenon
  <2> QED BY <1>1, <2>2 DEF LabelsFound, FoundIn
<1>5. Last(words)' = words'[Len(words')]
  BY DEF Last
<1> QED BY <1>2, <1>3, <1>4, <1>5 DEF AcceptsExactly

\* What it says now.
LEMMA AcceptsNow ==
  ASSUME words \in Seq(Word), Len(words) # 0
  PROVE  AcceptsExactly <=>
           /\ phase \in {"run", "ended"} =>
                WellNestedIn(words) /\ NamedOnce(words) /\ FoundIn(words)
           /\ phase = "failed" =>
                \/ ~WellNestedIn(words) \/ ~NamedOnce(words)
                \/ words[Len(words)].w = "ENDP" /\ ~FoundIn(words)
<1>1. DOMAIN words = 1 .. Len(words)
  BY LenProperties
<1>2. WellNested <=> WellNestedIn(words)
  BY WellNestedIs
<1>3. LabelsNamed <=> NamedOnce(words)
  BY <1>1, Zenon DEF LabelsNamed, NamedOnce
<1>4. LabelsFound <=> FoundIn(words)
  <2>1. ASSUME NEW x
        PROVE  (\E m \in 1 .. Len(words) : LabelOf(words[m], x))
                 <=> \E m \in DOMAIN words : words[m].w = "LABEL" /\ words[m].ls[1] = x
    BY <1>1, Zenon DEF LabelOf
  <2>2. ASSUME NEW n
        PROVE  (\A k \in DOMAIN words[n].ls : \E m \in 1 .. Len(words) : LabelOf(words[m], words[n].ls[k]))
                 <=> \A k \in DOMAIN words[n].ls : \E m \in DOMAIN words :
                       words[m].w = "LABEL" /\ words[m].ls[1] = words[n].ls[k]
    BY <2>1, Zenon
  <2> QED BY <1>1, <2>2 DEF LabelsFound, FoundIn
<1>5. Last(words) = words[Len(words)]
  BY DEF Last
<1> QED BY <1>2, <1>3, <1>4, <1>5 DEF AcceptsExactly

\* The words StructureL takes at the end of a list.
LEMMA EndingIs ==
  ASSUME NEW kind \in Kinds, NEW w \in {"ELSEIF", "ELSE", "ENDIF", "UNTIL", "ENDWH", "ENDP"}
  PROVE  w \in Ending(kind) <=> /\ w # "ENDP" /\ OpenerOf(kind) = Opener(w)
                                /\ w \in {"ELSE", "ELSEIF"} => kind = "IF"
<1>1. CASE kind = "IF"
  <2>1. Ending(kind) = {"ELSEIF", "ELSE", "ENDIF"} /\ OpenerOf(kind) = "IF"
    BY <1>1 DEF Ending, OpenerOf
  <2> QED BY <1>1, <2>1 DEF Opener
<1>2. CASE kind = "ELSE"
  <2>1. Ending(kind) = {"ENDIF"} /\ OpenerOf(kind) = "IF"
    BY <1>2 DEF Ending, OpenerOf
  <2> QED BY <1>2, <2>1 DEF Opener
<1>3. CASE kind = "DO"
  <2>1. Ending(kind) = {"UNTIL"} /\ OpenerOf(kind) = "DO"
    BY <1>3 DEF Ending, OpenerOf
  <2> QED BY <1>3, <2>1 DEF Opener
<1>4. CASE kind = "WHILE"
  <2>1. Ending(kind) = {"ENDWH"} /\ OpenerOf(kind) = "WHILE"
    BY <1>4 DEF Ending, OpenerOf
  <2> QED BY <1>4, <2>1 DEF Opener
<1> QED BY <1>1, <1>2, <1>3, <1>4 DEF Kinds

\* The labels the back end looks for.
LEMMA MissingIs ==
  ASSUME NEW code
  PROVE  Missing(code) <=> \E l : NamedIn(code, l) /\ ~DefinedIn(code, l)
<1>1. ASSUME NEW l PROVE l \in References(code) <=> NamedIn(code, l)
  <2>1. \A n : l \in Range(code[n].to) <=> \E k \in DOMAIN code[n].to : code[n].to[k] = l
    BY Zenon DEF Range
  <2>2. l \in References(code) <=> \E n \in DOMAIN code : code[n].op # "label" /\ l \in Range(code[n].to)
    BY Zenon DEF References
  <2> QED BY <2>1, <2>2, Zenon DEF NamedIn, Names
<1> QED BY <1>1, Zenon DEF Missing, DefinedIn, Defines

\* At the end of a procedure they are those of the source.
LEMMA MissingAtEnd ==
  ASSUME NEW ws, NEW fs, NEW b, NEW code, Labelled(ws, code), Branched(fs, b, code), Len(fs) = 0
  PROVE  Missing(code) <=> ~FoundIn(ws)
<1>1. \A l : ~Pending(fs, b, l)
  BY DEF Pending
<1>2. \A l : NamedIn(code, l) /\ ~DefinedIn(code, l) => \E x : l = UserLabel(x)
  BY <1>1, Zenon DEF Branched
<1>3. Missing(code) <=> \E x : NamedIn(code, UserLabel(x)) /\ ~DefinedIn(code, UserLabel(x))
  BY <1>2, MissingIs, Zenon
<1>4. \A x : DefinedIn(code, UserLabel(x)) <=> \E n \in 1 .. Len(ws) : LabelOf(ws[n], x)
  BY Zenon DEF Labelled
<1>5. \A x : NamedIn(code, UserLabel(x)) <=> \E n \in 1 .. Len(ws) : JumpTo(ws[n], x)
  BY Zenon DEF Labelled
<1>6. Missing(code) <=> \E x : /\ \E n \in 1 .. Len(ws) : JumpTo(ws[n], x)
                               /\ ~\E n \in 1 .. Len(ws) : LabelOf(ws[n], x)
  BY <1>3, <1>4, <1>5, Zenon
<1> QED BY <1>6, Zenon DEF FoundIn, JumpTo

-----------------------------------------------------------------------------
(* The parser, one word at a time.                                         *)
Parsing ==
  /\ NestOK(words, frames, iBranches)
  /\ iBranches.depth <= MaxStructureDepth
  /\ Labelled(words, iCode)
  /\ Branched(frames, iBranches, iCode)

\* The next word is taken, or the procedure is refused for it.
Taken == \/ phase' = "parse" /\ Parsing'
         \/ phase' = "failed" /\ AcceptsExactly'

\* Types, and what the counters of TBranches stand for.
LEMMA ParsingTypes ==
  ASSUME Parsing
  PROVE  /\ words \in Seq(Word) /\ frames \in Activations /\ iBranches \in Branches
         /\ iBranches.depth = Len(frames) /\ Len(frames) <= MaxStructureDepth
         /\ Len(frames) \in Nat /\ Len(words) \in Nat
         /\ iBranches.loop = 0 <=> LoopsOf(frames) = {}
<1>1. /\ words \in Seq(Word) /\ frames \in Activations /\ iBranches \in Branches
      /\ iBranches.depth = Len(frames) /\ iBranches.loop = Cardinality(LoopsOf(frames))
      /\ iBranches.depth <= MaxStructureDepth
  BY Zenon DEF Parsing, NestOK
<1>2. Len(frames) \in Nat /\ Len(words) \in Nat
  BY <1>1, LenProperties DEF Activations
<1>3. LoopsOf(frames) \subseteq 1 .. Len(frames)
  BY DEF LoopsOf
<1>4. IsFiniteSet(LoopsOf(frames))
  <2>1. PICK n \in Nat : n = Len(frames)
    BY <1>2
  <2>2. IsFiniteSet(1 .. n) /\ LoopsOf(frames) \subseteq 1 .. n
    BY <1>3, <2>1, FS_Interval
  <2> QED BY <2>2, FS_Subset
<1>5. Cardinality(LoopsOf(frames)) = 0 <=> LoopsOf(frames) = {}
  BY <1>4, FS_EmptySet
<1> QED BY <1>1, <1>2, <1>5

\* A word that does not fit is refused rightly.
LEMMA RefusedWord ==
  ASSUME Parsing, NEW wd \in Word, Fail(wd), ~Admits(frames, wd)
  PROVE  Taken
<1>1. words' = Append(words, wd) /\ phase' = "failed"
  BY DEF Fail
<1>2. words \in Seq(Word) /\ frames \in Activations /\ Len(words) \in Nat
  BY ParsingTypes
<1>3. words' \in Seq(Word) /\ Len(words') = Len(words) + 1
  BY <1>1, <1>2, Appended
<1>4. ~Fits(words', Len(words) + 1)
  <2>1. PICK p : Places(words, frames, p)
    BY DEF Parsing, NestOK
  <2> QED BY <1>1, <1>2, <2>1, FitsNext
<1>5. ~WellNestedIn(words')
  <2>1. Len(words) + 1 \in 1 .. Len(words')
    BY <1>2, <1>3
  <2> QED BY <1>4, <2>1 DEF WellNestedIn
<1>6. AcceptsExactly'
  <2>1. Len(words') # 0 /\ phase' \notin {"run", "ended"}
    BY <1>1, <1>2, <1>3
  <2> QED BY <1>3, <1>5, <2>1, AcceptsNext
<1> QED BY <1>1, <1>6 DEF Taken

\* A word that stays in the list of the innermost activation is taken when
\* its code keeps the labels.
LEMMA TakenWithin ==
  ASSUME Parsing, NEW wd \in Word, Admits(frames, wd),
         wd.w \notin Openers \cup Closers \cup {"ELSE"}, phase' = "parse",
         words' = Append(words, wd), frames' = frames,
         NEW c, iBranches' = c, c \in Branches, c.depth = iBranches.depth, c.loop = iBranches.loop,
         NEW items, iCode' = iCode \o items,
         Labelled(Append(words, wd), iCode \o items), Branched(frames, c, iCode \o items)
  PROVE  Taken
<1>1. NestOK(words, frames, iBranches) /\ iBranches.depth <= MaxStructureDepth
  BY DEF Parsing
<1>2. NestOK(Append(words, wd), frames, c)
  BY <1>1, NestWithin
<1>3. Parsing'
  BY <1>1, <1>2 DEF Parsing
<1> QED BY <1>3 DEF Taken

\* A label is defined, or refused because it has been before.
LEMMA LabelTaken ==
  ASSUME Parsing, phase = "parse", NEW wd \in Word, ParseLabel(wd)
  PROVE  Taken
<1>1. wd.w = "LABEL" /\ wd.ls = <<wd.ls[1]>>
  BY LabelWords DEF ParseLabel
<1>2. PICK x : x = wd.ls[1]
  OBVIOUS
<1>3. /\ words \in Seq(Word) /\ frames \in Activations /\ iBranches \in Branches
      /\ Len(frames) <= MaxStructureDepth /\ Len(frames) \in Nat /\ Len(words) \in Nat
  BY ParsingTypes
<1>4. Defined(UserLabel(x)) <=> DefinedIn(iCode, UserLabel(x))
  BY Zenon DEF Defined, DefinedIn, Defines
<1>5. Labelled(words, iCode) /\ Branched(frames, iBranches, iCode)
  BY DEF Parsing
<1>6. CASE Defined(UserLabel(x))
  <2>1. Fail(wd)
    BY <1>2, <1>6 DEF ParseLabel
  <2>2. words' = Append(words, wd) /\ phase' = "failed"
    BY <2>1 DEF Fail
  <2>3. /\ words' \in Seq(Word) /\ Len(words') = Len(words) + 1 /\ words'[Len(words) + 1] = wd
        /\ \A k \in 1 .. Len(words) : words'[k] = words[k]
    BY <1>3, <2>2, Appended
  <2>4. PICK n \in 1 .. Len(words) : LabelOf(words[n], x)
    BY <1>4, <1>5, <1>6 DEF Labelled
  <2>5. words[n] \in Word /\ words[n].w = "LABEL" /\ words[n].ls[1] = x
    BY <1>3, <2>4, ElementOfSeq DEF LabelOf
  <2>6. words[n].ls = wd.ls
    BY <1>1, <1>2, <2>5, LabelWords
  <2>7. ~NamedOnce(words')
    <3>1. n \in 1 .. Len(words') /\ Len(words) + 1 \in 1 .. Len(words') /\ n # Len(words) + 1
      BY <1>3, <2>3
    <3>2. words'[n] = words[n]
      BY <2>3
    <3> QED BY <1>1, <2>3, <2>5, <2>6, <3>1, <3>2 DEF NamedOnce
  <2>8. AcceptsExactly'
    <3>1. Len(words') # 0 /\ phase' \notin {"run", "ended"}
      BY <1>3, <2>2, <2>3
    <3> QED BY <2>3, <2>7, <3>1, AcceptsNext
  <2> QED BY <2>2, <2>8 DEF Taken
<1>7. CASE ~Defined(UserLabel(x))
  <2>1. PICK items : items = <<Item("label", <<UserLabel(x)>>)>>
    OBVIOUS
  <2>2. Emit(wd, iBranches, items) /\ frames' = frames
    BY <1>2, <1>7, <2>1 DEF ParseLabel
  <2>3. words' = Append(words, wd) /\ iBranches' = iBranches /\ iCode' = iCode \o items /\ phase' = "parse"
    BY <2>2 DEF Emit
  <2>4. /\ IsCode(items) /\ \A l : DefinedIn(items, l) <=> l = UserLabel(x)
        /\ \A l : ~NamedIn(items, l)
    <3>1. /\ IsCode(items)
          /\ \A l : DefinedIn(items, l) <=> Defines(Item("label", <<UserLabel(x)>>), l)
          /\ \A l : NamedIn(items, l) <=> Names(Item("label", <<UserLabel(x)>>), l)
      BY <2>1, CodeOfOne
    <3> QED BY <3>1, OneItem
  <2>5. \A y : (DefinedIn(items, UserLabel(y)) <=> LabelOf(wd, y)) /\ (NamedIn(items, UserLabel(y)) <=> JumpTo(wd, y))
    BY <1>1, <1>2, <2>4, LabelKinds DEF LabelOf, JumpTo
  <2>6. Labelled(Append(words, wd), iCode \o items)
    BY <1>2, <1>3, <1>4, <1>5, <1>7, <2>4, <2>5, LabelledNext
  <2>7. Branched(frames, iBranches, iCode \o items)
    <3>1. SameLoop(iBranches, iBranches)
      BY DEF SameLoop
    <3> QED BY <1>3, <1>5, <2>4, <3>1, BranchedWithin
  <2>8. wd.w \notin Openers \cup Closers \cup {"ELSE"} /\ Admits(frames, wd)
    BY <1>1, <1>3, DepthAssumption DEF Admits, Openers, Closers
  <2> QED BY <1>3, <2>2, <2>3, <2>6, <2>7, <2>8, TakenWithin
<1> QED BY <1>6, <1>7

\* The labels a statement names.
LEMMA NamesOfWord ==
  ASSUME NEW wd, NEW op, op # "label", NEW l
  PROVE  Names(Item(op, LabelsOf(wd)), l) <=> \E k \in DOMAIN wd.ls : l = UserLabel(wd.ls[k])
<1>1. DOMAIN LabelsOf(wd) = DOMAIN wd.ls /\ \A k \in DOMAIN wd.ls : LabelsOf(wd)[k] = UserLabel(wd.ls[k])
  BY DEF LabelsOf
<1>2. Item(op, LabelsOf(wd)).op = op /\ Item(op, LabelsOf(wd)).to = LabelsOf(wd)
  BY DEF Item
<1> QED BY <1>1, <1>2 DEF Names

\* The items of a statement.
LEMMA SimpleCode ==
  ASSUME NEW wd \in Word, wd.w \in {"S", "EOS", "RETURN", "GOTO", "ONERR", "BREAK", "CONTINUE"}
  PROVE  /\ IsCode(Simple(wd)) /\ \A l : ~DefinedIn(Simple(wd), l)
         /\ \A l : NamedIn(Simple(wd), l) <=>
              \/ wd.w \in {"GOTO", "ONERR"} /\ \E k \in DOMAIN wd.ls : l = UserLabel(wd.ls[k])
              \/ wd.w = "BREAK" /\ l = InternalLabel(iBranches.EBreak)
              \/ wd.w = "CONTINUE" /\ l = InternalLabel(iBranches.EContinue)
<1>1. CASE wd.w = "EOS"
  <2>1. Simple(wd) = <<>>
    BY <1>1 DEF Simple
  <2> QED BY <1>1, <2>1, NoCode
<1>2. CASE wd.w \in {"S", "RETURN"}
  <2>1. PICK op : op \in {"S", "return"} /\ Simple(wd) = <<Item(op, <<>>)>>
    BY <1>2 DEF Simple
  <2>2. op # "label"
    BY <2>1
  <2>3. \A l : ~Names(Item(op, <<>>), l) /\ ~Defines(Item(op, <<>>), l)
    BY <2>2, OneItem, NotDefining
  <2> QED BY <1>2, <2>1, <2>3, CodeOfOne
<1>3. CASE wd.w \in {"GOTO", "ONERR"}
  <2>1. PICK op : op \in {"goto", "onerr"} /\ Simple(wd) = <<Item(op, LabelsOf(wd))>>
    BY <1>3 DEF Simple
  <2>2. op # "label"
    BY <2>1
  <2>3. \A l : ~Defines(Item(op, LabelsOf(wd)), l)
    BY <2>2, NotDefining
  <2>4. \A l : Names(Item(op, LabelsOf(wd)), l) <=> \E k \in DOMAIN wd.ls : l = UserLabel(wd.ls[k])
    BY <2>2, NamesOfWord
  <2>5. /\ IsCode(Simple(wd)) /\ \A l : DefinedIn(Simple(wd), l) <=> Defines(Item(op, LabelsOf(wd)), l)
        /\ \A l : NamedIn(Simple(wd), l) <=> Names(Item(op, LabelsOf(wd)), l)
    BY <2>1, CodeOfOne
  <2>6. wd.w # "BREAK" /\ wd.w # "CONTINUE"
    BY <1>3
  <2> QED BY <1>3, <2>3, <2>4, <2>5, <2>6, Zenon
<1>4. CASE wd.w \in {"BREAK", "CONTINUE"}
  <2>1. PICK a : a = IF wd.w = "BREAK" THEN InternalLabel(iBranches.EBreak)
                     ELSE InternalLabel(iBranches.EContinue)
    OBVIOUS
  <2>2. Simple(wd) = <<Item("goto", <<a>>)>>
    BY <1>4, <2>1, LabelKinds DEF Simple, DoBranch
  <2>3. \A l : ~Defines(Item("goto", <<a>>), l) /\ (Names(Item("goto", <<a>>), l) <=> l = a)
    BY OneItem, NotDefining
  <2>4. /\ IsCode(Simple(wd)) /\ \A l : DefinedIn(Simple(wd), l) <=> Defines(Item("goto", <<a>>), l)
        /\ \A l : NamedIn(Simple(wd), l) <=> Names(Item("goto", <<a>>), l)
    BY <2>2, CodeOfOne
  <2> QED BY <1>4, <2>1, <2>3, <2>4
<1> QED BY <1>1, <1>2, <1>3, <1>4

LEMMA StatementCode ==
  IsCode(<<Statement>>) /\ \A l : ~DefinedIn(<<Statement>>, l) /\ ~NamedIn(<<Statement>>, l)
<1>1. \A l : ~Names(Item("stmt", <<>>), l) /\ ~Defines(Item("stmt", <<>>), l)
  BY OneItem, NotDefining
<1> QED BY <1>1, CodeOfOne DEF Statement

\* BREAK and CONTINUE are refused outside loops only.
LEMMA SimpleTaken ==
  ASSUME Parsing, phase = "parse", NEW wd \in Word, ParseSimple(wd)
  PROVE  Taken
<1>1. wd.w \in {"S", "EOS", "RETURN", "GOTO", "ONERR", "BREAK", "CONTINUE"}
  BY DEF ParseSimple
<1>2. /\ words \in Seq(Word) /\ frames \in Activations /\ iBranches \in Branches
      /\ Len(frames) <= MaxStructureDepth /\ Len(frames) \in Nat /\ Len(words) \in Nat
      /\ iBranches.loop = 0 <=> LoopsOf(frames) = {}
  BY ParsingTypes
<1>3. Labelled(words, iCode) /\ Branched(frames, iBranches, iCode)
  BY DEF Parsing
<1>4. Admits(frames, wd) <=> ~(wd.w \in {"BREAK", "CONTINUE"} /\ LoopsOf(frames) = {})
  <2>1. LoopsOf(frames) = {} <=> ~\E j \in 1 .. Len(frames) : frames[j].kind \in {"DO", "WHILE"}
    BY DEF LoopsOf
  <2>2. wd.w \notin Openers \cup {"VECTOR"} /\ wd.w \notin {"ELSEIF", "ELSE"} \cup Closers /\ wd.w # "ENDP"
    BY <1>1 DEF Openers, Closers
  <2>3. Len(frames) + 0 <= MaxStructureDepth
    BY <1>2, DepthAssumption
  <2> QED BY <2>1, <2>2, <2>3, Zenon DEF Admits
<1>5. CASE wd.w \in {"BREAK", "CONTINUE"} /\ iBranches.loop = 0
  <2>1. Fail(wd)
    BY <1>5 DEF ParseSimple
  <2> QED BY <1>2, <1>4, <1>5, <2>1, RefusedWord
<1>6. CASE ~(wd.w \in {"BREAK", "CONTINUE"} /\ iBranches.loop = 0)
  <2>1. PICK items : items = <<Statement>> \o Simple(wd)
    OBVIOUS
  <2>2. Emit(wd, iBranches, items) /\ frames' = frames
    BY <1>6, <2>1 DEF ParseSimple
  <2>3. words' = Append(words, wd) /\ iBranches' = iBranches /\ iCode' = iCode \o items /\ phase' = "parse"
    BY <2>2 DEF Emit
  <2>4. /\ IsCode(Simple(wd)) /\ \A l : ~DefinedIn(Simple(wd), l)
        /\ \A l : NamedIn(Simple(wd), l) <=>
             \/ wd.w \in {"GOTO", "ONERR"} /\ \E k \in DOMAIN wd.ls : l = UserLabel(wd.ls[k])
             \/ wd.w = "BREAK" /\ l = InternalLabel(iBranches.EBreak)
             \/ wd.w = "CONTINUE" /\ l = InternalLabel(iBranches.EContinue)
    BY <1>1, SimpleCode
  <2>5. /\ IsCode(items) /\ \A l : ~DefinedIn(items, l)
        /\ \A l : NamedIn(items, l) <=> NamedIn(Simple(wd), l)
    BY <2>1, <2>4, StatementCode, CodeAfter
  <2>6. ASSUME NEW x
        PROVE  ~LabelOf(wd, x) /\ (NamedIn(items, UserLabel(x)) <=> JumpTo(wd, x))
    <3>1. UserLabel(x) # InternalLabel(iBranches.EBreak) /\ UserLabel(x) # InternalLabel(iBranches.EContinue)
      BY LabelKinds
    <3>2. NamedIn(items, UserLabel(x)) <=>
            wd.w \in {"GOTO", "ONERR"} /\ \E k \in DOMAIN wd.ls : UserLabel(x) = UserLabel(wd.ls[k])
      BY <2>4, <2>5, <3>1, Zenon
    <3>3. \A k : UserLabel(x) = UserLabel(wd.ls[k]) <=> wd.ls[k] = x
      BY LabelKinds
    <3>4. NamedIn(items, UserLabel(x)) <=>
            wd.w \in {"GOTO", "ONERR"} /\ \E k \in DOMAIN wd.ls : wd.ls[k] = x
      BY <3>2, <3>3, Zenon
    <3> QED BY <1>1, <3>4 DEF LabelOf, JumpTo
  <2>7. Labelled(Append(words, wd), iCode \o items)
    <3>1. wd.w # "LABEL"
      BY <1>1
    <3> QED BY <1>2, <1>3, <2>5, <2>6, <3>1, LabelledNext
  <2>8. ASSUME NEW l, NamedIn(items, l)
        PROVE  \/ \E x : l = UserLabel(x)
               \/ DefinedIn(iCode \o items, l)
               \/ Pending(frames, iBranches, l)
    <3>1. CASE wd.w \in {"GOTO", "ONERR"} /\ \E k \in DOMAIN wd.ls : l = UserLabel(wd.ls[k])
      BY <3>1
    <3>2. CASE wd.w \in {"BREAK", "CONTINUE"}
      <4>1. LoopsOf(frames) # {}
        BY <1>2, <1>6, <3>2
      <4>2. PICK i \in 1 .. Len(frames) : frames[i].kind \in {"DO", "WHILE"}
        BY <4>1 DEF LoopsOf
      <4>3. /\ Pending(frames, iBranches, InternalLabel(iBranches.EBreak))
            /\ \/ Pending(frames, iBranches, InternalLabel(iBranches.EContinue))
               \/ DefinedIn(iCode, InternalLabel(iBranches.EContinue))
        BY <1>2, <1>3, <4>2, LoopLabels
      <4>4. IsCode(iCode) /\ (DefinedIn(iCode, l) => DefinedIn(iCode \o items, l))
        BY <1>3, <2>5, CodeAfter DEF Branched
      <4>5. l = InternalLabel(iBranches.EBreak) \/ l = InternalLabel(iBranches.EContinue)
        BY <2>4, <2>5, <2>8, <3>2
      <4> QED BY <4>3, <4>4, <4>5
    <3> QED BY <2>4, <2>5, <2>8, <3>1, <3>2
  <2>9. Branched(frames, iBranches, iCode \o items)
    <3>1. SameLoop(iBranches, iBranches)
      BY DEF SameLoop
    <3> QED BY <1>2, <1>3, <2>5, <2>8, <3>1, BranchedWithin
  <2>10. wd.w \notin Openers \cup Closers \cup {"ELSE"} /\ Admits(frames, wd)
    BY <1>1, <1>2, <1>4, <1>6 DEF Openers, Closers
  <2> QED BY <1>2, <2>2, <2>3, <2>7, <2>9, <2>10, TakenWithin
<1> QED BY <1>5, <1>6

\* VECTOR counts as a structure, as deep as it stands.
LEMMA VectorTaken ==
  ASSUME Parsing, phase = "parse", NEW wd \in Word, ParseVector(wd)
  PROVE  Taken
<1>1. wd.w = "VECTOR"
  BY DEF ParseVector
<1>2. /\ words \in Seq(Word) /\ frames \in Activations /\ iBranches \in Branches
      /\ Len(frames) <= MaxStructureDepth /\ Len(frames) \in Nat /\ Len(words) \in Nat
      /\ iBranches.depth = Len(frames)
  BY ParsingTypes
<1>3. Labelled(words, iCode) /\ Branched(frames, iBranches, iCode)
  BY DEF Parsing
<1>4. Admits(frames, wd) <=> Len(frames) # MaxStructureDepth
  <2>1. /\ wd.w \in Openers \cup {"VECTOR"} /\ wd.w \notin {"ELSEIF", "ELSE"} \cup Closers
        /\ wd.w # "ENDP" /\ wd.w \notin {"BREAK", "CONTINUE"}
    BY <1>1 DEF Openers, Closers
  <2>2. Len(frames) + 1 <= MaxStructureDepth <=> Len(frames) # MaxStructureDepth
    BY <1>2, DepthAssumption
  <2> QED BY <2>1, <2>2, Zenon DEF Admits
<1>5. CASE iBranches.depth = MaxStructureDepth
  <2>1. Fail(wd)
    BY <1>5 DEF ParseVector
  <2> QED BY <1>2, <1>4, <1>5, <2>1, RefusedWord
<1>6. CASE iBranches.depth # MaxStructureDepth
  <2>1. PICK items : items = <<Statement, Item("cond", <<>>), Item("vector", LabelsOf(wd))>>
    OBVIOUS
  <2>2. Emit(wd, iBranches, items) /\ frames' = frames
    BY <1>6, <2>1 DEF ParseVector
  <2>3. words' = Append(words, wd) /\ iBranches' = iBranches /\ iCode' = iCode \o items /\ phase' = "parse"
    BY <2>2 DEF Emit
  <2>4. ASSUME NEW l
        PROVE  /\ ~Defines(Statement, l) /\ ~Names(Statement, l)
               /\ ~Defines(Item("cond", <<>>), l) /\ ~Names(Item("cond", <<>>), l)
               /\ ~Defines(Item("vector", LabelsOf(wd)), l)
               /\ Names(Item("vector", LabelsOf(wd)), l) <=> \E k \in DOMAIN wd.ls : l = UserLabel(wd.ls[k])
    BY OneItem, NotDefining, NamesOfWord DEF Statement
  <2>5. /\ IsCode(items) /\ \A l : ~DefinedIn(items, l)
        /\ \A l : NamedIn(items, l) <=> \E k \in DOMAIN wd.ls : l = UserLabel(wd.ls[k])
    <3>1. /\ IsCode(items)
          /\ \A l : DefinedIn(items, l) <=> \/ Defines(Statement, l) \/ Defines(Item("cond", <<>>), l)
                                            \/ Defines(Item("vector", LabelsOf(wd)), l)
          /\ \A l : NamedIn(items, l) <=> \/ Names(Statement, l) \/ Names(Item("cond", <<>>), l)
                                          \/ Names(Item("vector", LabelsOf(wd)), l)
      BY <2>1, CodeOfThree
    <3> QED BY <2>4, <3>1, Zenon
  <2>6. ASSUME NEW x
        PROVE  ~LabelOf(wd, x) /\ (NamedIn(items, UserLabel(x)) <=> JumpTo(wd, x))
    <3>1. \A k : UserLabel(x) = UserLabel(wd.ls[k]) <=> wd.ls[k] = x
      BY LabelKinds
    <3>2. NamedIn(items, UserLabel(x)) <=> \E k \in DOMAIN wd.ls : wd.ls[k] = x
      BY <2>5, <3>1, Zenon
    <3> QED BY <1>1, <3>2 DEF LabelOf, JumpTo
  <2>7. Labelled(Append(words, wd), iCode \o items)
    <3>1. wd.w # "LABEL"
      BY <1>1
    <3> QED BY <1>2, <1>3, <2>5, <2>6, <3>1, LabelledNext
  <2>8. Branched(frames, iBranches, iCode \o items)
    <3>1. SameLoop(iBranches, iBranches)
      BY DEF SameLoop
    <3>2. \A l : NamedIn(items, l) => \E x : l = UserLabel(x)
      BY <2>5, Zenon
    <3> QED BY <1>2, <1>3, <2>5, <3>1, <3>2, BranchedWithin
  <2>9. wd.w \notin Openers \cup Closers \cup {"ELSE"} /\ Admits(frames, wd)
    BY <1>1, <1>2, <1>4, <1>6 DEF Openers, Closers
  <2> QED BY <1>2, <2>2, <2>3, <2>7, <2>8, <2>9, TakenWithin
<1> QED BY <1>5, <1>6

\* The code of a condition, of a label and of a branch.
LEMMA ConditionCode ==
  ASSUME NEW b
  PROVE  /\ IsCode(ConditionalExpression(b))
         /\ \A l : ~DefinedIn(ConditionalExpression(b), l)
         /\ \A l : NamedIn(ConditionalExpression(b), l) <=> l = InternalLabel(b.EFalse)
<1>1. PICK a : a = InternalLabel(b.EFalse)
  OBVIOUS
<1>2. ConditionalExpression(b) = <<Item("cond", <<>>), Item("brfalse", <<a>>)>>
  BY <1>1, LabelKinds DEF ConditionalExpression, DoBranch
<1>3. ASSUME NEW l
      PROVE  /\ ~Defines(Item("cond", <<>>), l) /\ ~Names(Item("cond", <<>>), l)
             /\ ~Defines(Item("brfalse", <<a>>), l)
             /\ Names(Item("brfalse", <<a>>), l) <=> l = a
  BY OneItem, NotDefining
<1> QED BY <1>1, <1>2, <1>3, CodeOfTwo

LEMMA SetCode ==
  ASSUME NEW b, NEW kind
  PROVE  /\ IsCode(<<SetBranch(b, kind)>>)
         /\ \A l : DefinedIn(<<SetBranch(b, kind)>>, l) <=> l = Branch(b, kind)
         /\ \A l : ~NamedIn(<<SetBranch(b, kind)>>, l)
<1>1. ASSUME NEW l
      PROVE  (Defines(SetBranch(b, kind), l) <=> l = Branch(b, kind)) /\ ~Names(SetBranch(b, kind), l)
  BY OneItem DEF SetBranch
<1> QED BY <1>1, CodeOfOne

\* A structure begins.
LEMMA OpeningItems ==
  ASSUME NEW wd, wd.w \in Openers, NEW b
  PROVE  /\ IsCode(<<Statement>> \o OpeningCode(wd, b))
         /\ \A l : DefinedIn(<<Statement>> \o OpeningCode(wd, b), l) <=>
              \/ wd.w = "DO" /\ l = InternalLabel(b.EFalse)
              \/ wd.w = "WHILE" /\ l = InternalLabel(b.EContinue)
         /\ \A l : NamedIn(<<Statement>> \o OpeningCode(wd, b), l) <=>
              wd.w \in {"IF", "WHILE"} /\ l = InternalLabel(b.EFalse)
<1>1. PICK code : code = OpeningCode(wd, b)
  OBVIOUS
<1>2. /\ IsCode(code)
      /\ \A l : DefinedIn(code, l) <=> \/ wd.w = "DO" /\ l = InternalLabel(b.EFalse)
                                       \/ wd.w = "WHILE" /\ l = InternalLabel(b.EContinue)
      /\ \A l : NamedIn(code, l) <=> wd.w \in {"IF", "WHILE"} /\ l = InternalLabel(b.EFalse)
  <2>1. CASE wd.w = "IF"
    <3>1. code = ConditionalExpression(b)
      BY <1>1, <2>1 DEF OpeningCode
    <3> QED BY <2>1, <3>1, ConditionCode
  <2>2. CASE wd.w = "DO"
    <3>1. code = <<SetBranch(b, "EFalse")>>
      BY <1>1, <2>2 DEF OpeningCode
    <3> QED BY <2>2, <3>1, SetCode, LabelKinds
  <2>3. CASE wd.w = "WHILE"
    <3>1. code = <<SetBranch(b, "EContinue")>> \o ConditionalExpression(b)
      BY <1>1, <2>3 DEF OpeningCode
    <3>2. PICK c, d : c = <<SetBranch(b, "EContinue")>> /\ d = ConditionalExpression(b)
      OBVIOUS
    <3>3. /\ IsCode(c) /\ \A l : DefinedIn(c, l) <=> l = InternalLabel(b.EContinue)
          /\ \A l : ~NamedIn(c, l)
      BY <3>2, SetCode, LabelKinds
    <3>4. /\ IsCode(d) /\ \A l : ~DefinedIn(d, l)
          /\ \A l : NamedIn(d, l) <=> l = InternalLabel(b.EFalse)
      BY <3>2, ConditionCode
    <3>5. code = c \o d
      BY <3>1, <3>2
    <3> QED BY <2>3, <3>3, <3>4, <3>5, CodeAfter
  <2> QED BY <2>1, <2>2, <2>3 DEF Openers
<1> QED BY <1>1, <1>2, StatementCode, CodeAfter

\* IF, DO and WHILE are refused at the limit of the depth only.
LEMMA OpenTaken ==
  ASSUME Parsing, phase = "parse", NEW wd \in Word, ParseOpen(wd)
  PROVE  Taken
<1>1. wd.w \in Openers /\ wd.w \in {"IF", "DO", "WHILE"}
  BY DEF ParseOpen, Openers
<1>2. /\ words \in Seq(Word) /\ frames \in Activations /\ iBranches \in Branches
      /\ Len(frames) <= MaxStructureDepth /\ Len(frames) \in Nat /\ Len(words) \in Nat
      /\ iBranches.depth = Len(frames)
  BY ParsingTypes
<1>3. Labelled(words, iCode) /\ Branched(frames, iBranches, iCode) /\ NestOK(words, frames, iBranches)
  BY DEF Parsing
<1>4. Admits(frames, wd) <=> Len(frames) # MaxStructureDepth
  <2>1. /\ wd.w \in Openers \cup {"VECTOR"} /\ wd.w \notin {"ELSEIF", "ELSE"} \cup Closers
        /\ wd.w # "ENDP" /\ wd.w \notin {"BREAK", "CONTINUE"}
    BY <1>1 DEF Closers
  <2>2. Len(frames) + 1 <= MaxStructureDepth <=> Len(frames) # MaxStructureDepth
    BY <1>2, DepthAssumption
  <2> QED BY <2>1, <2>2, Zenon DEF Admits
<1>5. CASE iBranches.depth = MaxStructureDepth
  <2>1. Fail(wd)
    BY <1>5 DEF ParseOpen
  <2> QED BY <1>2, <1>4, <1>5, <2>1, RefusedWord
<1>6. CASE iBranches.depth # MaxStructureDepth
  <2>1. PICK c : c = Opened(wd)
    OBVIOUS
  <2>2. PICK items : items = <<Statement>> \o OpeningCode(wd, c)
    OBVIOUS
  <2>3. PICK f : f = [kind |-> wd.w, saved |-> iBranches]
    OBVIOUS
  <2>4. Emit(wd, c, items) /\ frames' = Append(frames, f)
    BY <1>6, <2>1, <2>2, <2>3 DEF ParseOpen
  <2>5. words' = Append(words, wd) /\ iBranches' = c /\ iCode' = iCode \o items /\ phase' = "parse"
    BY <2>4 DEF Emit
  <2>6. f \in [kind : Kinds, saved : Branches] /\ f.kind = wd.w /\ f.saved = iBranches
    BY <1>1, <1>2, <2>3 DEF Kinds
  <2>7. /\ c \in Branches /\ c.depth = iBranches.depth + 1
        /\ c.loop = IF wd.w = "IF" THEN iBranches.loop ELSE iBranches.loop + 1
        /\ wd.w = "IF" => SameLoop(c, iBranches)
    BY <1>2, <2>1, OpenedBranches DEF SameLoop
  <2>8. /\ IsCode(items)
        /\ \A l : DefinedIn(items, l) <=> \/ wd.w = "DO" /\ l = InternalLabel(c.EFalse)
                                          \/ wd.w = "WHILE" /\ l = InternalLabel(c.EContinue)
        /\ \A l : NamedIn(items, l) <=> wd.w \in {"IF", "WHILE"} /\ l = InternalLabel(c.EFalse)
    BY <1>1, <2>2, OpeningItems
  <2>9. NestOK(words', frames', iBranches')
    <3>1. Admits(frames, wd)
      BY <1>2, <1>4, <1>6
    <3> QED BY <1>1, <1>3, <2>4, <2>5, <2>6, <2>7, <3>1, NestOpened
  <2>10. Labelled(words', iCode')
    <3>1. \A x : ~DefinedIn(items, UserLabel(x)) /\ ~NamedIn(items, UserLabel(x))
      BY <2>8, LabelKinds
    <3>2. wd.w \notin {"LABEL", "GOTO", "ONERR", "VECTOR"}
      BY <1>1
    <3> QED BY <1>2, <1>3, <2>5, <2>8, <3>1, <3>2, LabelledAside
  <2>11. Branched(frames', iBranches', iCode')
    <3>1. f.kind = "IF" => SameLoop(c, iBranches)
      BY <2>6, <2>7
    <3>2. f.kind # "ELSE"
      BY <1>1, <2>6
    <3>3. Topped(f.kind, c, iCode \o items)
      <4>1. IsCode(iCode) /\ \A l : DefinedIn(items, l) => DefinedIn(iCode \o items, l)
        BY <1>3, <2>8, CodeAfter DEF Branched
      <4> QED BY <2>6, <2>8, <4>1 DEF Topped
    <3>4. \A l : NamedIn(items, l) => Owes(f.kind, c, l)
      BY <2>6, <2>8 DEF Owes
    <3> QED BY <1>2, <1>3, <2>4, <2>5, <2>6, <2>8, <3>1, <3>2, <3>3, <3>4, BranchedOpened
  <2>12. iBranches'.depth <= MaxStructureDepth
    BY <1>2, <1>6, <2>5, <2>7, DepthAssumption
  <2> QED BY <2>5, <2>9, <2>10, <2>11, <2>12 DEF Taken, Parsing
<1> QED BY <1>5, <1>6

\* The words StructureL takes are those that fit.
LEMMA ExpectedIs ==
  ASSUME Parsing, NEW wd \in Word, wd.w \in {"ELSEIF", "ELSE", "ENDIF", "UNTIL", "ENDWH", "ENDP"}
  PROVE  /\ wd.w \in Expected <=> Admits(frames, wd)
         /\ Len(frames) = 0 <=> frames = <<>>
         /\ Len(frames) # 0 => /\ Len(frames) \in 1 .. Len(frames)
                               /\ frames[Len(frames)] \in [kind : Kinds, saved : Branches]
<1>1. frames \in Activations /\ Len(frames) <= MaxStructureDepth /\ Len(frames) \in Nat
  BY ParsingTypes
<1>2. Len(frames) = 0 <=> frames = <<>>
  BY <1>1, EmptySeq DEF Activations
<1>3. Len(frames) # 0 => /\ Len(frames) \in 1 .. Len(frames)
                         /\ frames[Len(frames)] \in [kind : Kinds, saved : Branches]
  <2>1. Len(frames) # 0 => Len(frames) \in 1 .. Len(frames)
    BY <1>1
  <2>2. \A j \in 1 .. Len(frames) : frames[j] \in [kind : Kinds, saved : Branches]
    BY <1>1, ElementOfSeq DEF Activations
  <2> QED BY <2>1, <2>2
<1>4. Len(frames) # 0 => frames[Len(frames)].kind \in Kinds
  BY <1>3
<1>5. Expected = IF Len(frames) = 0 THEN {"ENDP"} ELSE Ending(frames[Len(frames)].kind)
  BY <1>2 DEF Expected, Last
<1>6. Len(frames) # 0 =>
        (wd.w \in Expected <=> /\ wd.w # "ENDP" /\ OpenerOf(frames[Len(frames)].kind) = Opener(wd.w)
                               /\ wd.w \in {"ELSE", "ELSEIF"} => frames[Len(frames)].kind = "IF")
  BY <1>4, <1>5, EndingIs
<1>7. /\ wd.w \notin Openers \cup {"VECTOR"} /\ wd.w \notin {"BREAK", "CONTINUE"}
      /\ wd.w \in {"ELSEIF", "ELSE"} \cup Closers <=> wd.w # "ENDP"
      /\ Len(frames) + 0 <= MaxStructureDepth
  BY <1>1, DepthAssumption DEF Openers, Closers
<1>8. Admits(frames, wd) <=>
        /\ wd.w # "ENDP" => /\ Len(frames) # 0 /\ OpenerOf(frames[Len(frames)].kind) = Opener(wd.w)
                            /\ wd.w \in {"ELSE", "ELSEIF"} => frames[Len(frames)].kind = "IF"
        /\ wd.w = "ENDP" => Len(frames) = 0
  BY <1>7, Zenon DEF Admits
<1>9. Len(frames) = 0 => (wd.w \in Expected <=> wd.w = "ENDP")
  BY <1>5
<1> QED BY <1>2, <1>3, <1>6, <1>8, <1>9, Zenon

\* A word that ends another structure, or none, is refused.
LEMMA MisplacedTaken ==
  ASSUME Parsing, phase = "parse", NEW wd \in Word, ParseMisplaced(wd)
  PROVE  Taken
<1>1. /\ wd.w \in {"ELSEIF", "ELSE", "ENDIF", "UNTIL", "ENDWH", "ENDP"}
      /\ wd.w \notin Expected /\ Fail(wd)
  BY DEF ParseMisplaced
<1>2. ~Admits(frames, wd)
  BY <1>1, ExpectedIs
<1> QED BY <1>1, <1>2, RefusedWord

\* What the innermost activation owes is pending.
LEMMA TopOwes ==
  ASSUME NEW fs, Len(fs) \in 1 .. Len(fs), NEW b, NEW l, Owes(fs[Len(fs)].kind, b, l)
  PROVE  Pending(fs, b, l)
<1>1. BranchesOf(fs, b, Len(fs)) = b
  BY DEF BranchesOf
<1> QED BY <1>1 DEF Pending

\* The end of a clause of an IF.
LEMMA LeavingCode ==
  ASSUME NEW b
  PROVE  LET leave == <<DoBranch(b, "EExit", "goto"), SetBranch(b, "EFalse")>> IN
         /\ IsCode(leave)
         /\ \A l : DefinedIn(leave, l) <=> l = InternalLabel(b.EFalse)
         /\ \A l : NamedIn(leave, l) <=> l = InternalLabel(b.EExit)
<1>1. PICK x, y : x = InternalLabel(b.EExit) /\ y = InternalLabel(b.EFalse)
  OBVIOUS
<1>2. DoBranch(b, "EExit", "goto") = Item("goto", <<x>>) /\ SetBranch(b, "EFalse") = Item("label", <<y>>)
  BY <1>1, LabelKinds DEF DoBranch, SetBranch
<1>3. ASSUME NEW l
      PROVE  /\ ~Defines(Item("goto", <<x>>), l) /\ (Names(Item("goto", <<x>>), l) <=> l = x)
             /\ (Defines(Item("label", <<y>>), l) <=> l = y) /\ ~Names(Item("label", <<y>>), l)
  BY OneItem, NotDefining
<1>4. PICK leave : leave = <<Item("goto", <<x>>), Item("label", <<y>>)>>
  OBVIOUS
<1>5. /\ IsCode(leave) /\ \A l : DefinedIn(leave, l) <=> l = y
      /\ \A l : NamedIn(leave, l) <=> l = x
  BY <1>3, <1>4, CodeOfTwo
<1> QED BY <1>1, <1>2, <1>4, <1>5

\* The next clause of an IF.
LEMMA ElseIfTaken ==
  ASSUME Parsing, phase = "parse", NEW wd \in Word, ParseClause(wd), wd.w = "ELSEIF"
  PROVE  Taken
<1>1. /\ words \in Seq(Word) /\ frames \in Activations /\ iBranches \in Branches
      /\ Len(frames) <= MaxStructureDepth /\ Len(frames) \in Nat /\ Len(words) \in Nat
  BY ParsingTypes
<1>2. Labelled(words, iCode) /\ Branched(frames, iBranches, iCode)
  BY DEF Parsing
<1>3. wd.w \in Expected
  BY DEF ParseClause
<1>4. Admits(frames, wd)
  BY <1>3, ExpectedIs
<1>5. Len(frames) # 0 /\ Len(frames) \in 1 .. Len(frames) /\ frames[Len(frames)].kind = "IF"
  BY <1>1, <1>4 DEF Admits
<1>6. PICK c : c = NeedBranch(iBranches, "EFalse")
  OBVIOUS
<1>7. /\ c \in Branches /\ c.depth = iBranches.depth /\ c.loop = iBranches.loop
      /\ SameLoop(c, iBranches) /\ c.EExit = iBranches.EExit
  BY <1>1, <1>6, NewLabel DEF SameLoop
<1>8. PICK leave : leave = <<DoBranch(iBranches, "EExit", "goto"), SetBranch(iBranches, "EFalse")>>
  OBVIOUS
<1>9. PICK items : items = leave \o ConditionalExpression(c)
  OBVIOUS
<1>10. Emit(wd, c, items) /\ frames' = frames
  BY <1>6, <1>8, <1>9 DEF ParseClause
<1>11. words' = Append(words, wd) /\ iBranches' = c /\ iCode' = iCode \o items /\ phase' = "parse"
  BY <1>10 DEF Emit
<1>12. /\ IsCode(items)
       /\ \A l : DefinedIn(items, l) <=> l = InternalLabel(iBranches.EFalse)
       /\ \A l : NamedIn(items, l) <=> l = InternalLabel(iBranches.EExit) \/ l = InternalLabel(c.EFalse)
  <2>1. /\ IsCode(leave)
        /\ \A l : DefinedIn(leave, l) <=> l = InternalLabel(iBranches.EFalse)
        /\ \A l : NamedIn(leave, l) <=> l = InternalLabel(iBranches.EExit)
    BY <1>8, LeavingCode
  <2>2. PICK e : e = ConditionalExpression(c)
    OBVIOUS
  <2>3. /\ IsCode(e) /\ \A l : ~DefinedIn(e, l)
        /\ \A l : NamedIn(e, l) <=> l = InternalLabel(c.EFalse)
    BY <2>2, ConditionCode
  <2>4. items = leave \o e
    BY <1>9, <2>2
  <2> QED BY <2>1, <2>3, <2>4, CodeAfter
<1>13. Labelled(Append(words, wd), iCode \o items)
  <2>1. \A x : ~DefinedIn(items, UserLabel(x)) /\ ~NamedIn(items, UserLabel(x))
    BY <1>12, LabelKinds
  <2> QED BY <1>1, <1>2, <1>12, <2>1, LabelledAside
<1>14. Branched(frames, c, iCode \o items)
  <2>1. ASSUME NEW l, NamedIn(items, l) PROVE Pending(frames, c, l)
    <3>1. l = InternalLabel(c.EExit) \/ l = InternalLabel(c.EFalse)
      BY <1>7, <1>12, <2>1
    <3>2. Owes(frames[Len(frames)].kind, c, l)
      BY <1>5, <3>1 DEF Owes
    <3> QED BY <1>5, <3>2, TopOwes
  <2> QED BY <1>1, <1>2, <1>5, <1>7, <1>12, <2>1, BranchedWithin
<1>15. wd.w \notin Openers \cup Closers \cup {"ELSE"}
  BY DEF Openers, Closers
<1> QED BY <1>4, <1>7, <1>10, <1>11, <1>13, <1>14, <1>15, TakenWithin

LEMMA ElseTaken ==
  ASSUME Parsing, phase = "parse", NEW wd \in Word, ParseClause(wd), wd.w = "ELSE"
  PROVE  Taken
<1>1. /\ words \in Seq(Word) /\ frames \in Activations /\ iBranches \in Branches
      /\ Len(frames) <= MaxStructureDepth /\ Len(frames) \in Nat /\ Len(words) \in Nat
      /\ iBranches.depth = Len(frames)
  BY ParsingTypes
<1>2. Labelled(words, iCode) /\ Branched(frames, iBranches, iCode) /\ NestOK(words, frames, iBranches)
  BY DEF Parsing
<1>3. wd.w \in Expected
  BY DEF ParseClause
<1>4. Admits(frames, wd)
  BY <1>3, ExpectedIs
<1>5. Len(frames) # 0 /\ Len(frames) \in 1 .. Len(frames) /\ frames[Len(frames)].kind = "IF"
  BY <1>1, <1>4 DEF Admits
<1>6. PICK gs : gs = [frames EXCEPT ![Len(frames)].kind = "ELSE"]
  OBVIOUS
<1>7. PICK items : items = <<DoBranch(iBranches, "EExit", "goto"), SetBranch(iBranches, "EFalse")>>
  OBVIOUS
<1>8. Emit(wd, iBranches, items) /\ frames' = gs
  BY <1>6, <1>7 DEF ParseClause
<1>9. words' = Append(words, wd) /\ iBranches' = iBranches /\ iCode' = iCode \o items /\ phase' = "parse"
  BY <1>8 DEF Emit
<1>10. /\ IsCode(items)
       /\ \A l : DefinedIn(items, l) <=> l = InternalLabel(iBranches.EFalse)
       /\ \A l : NamedIn(items, l) <=> l = InternalLabel(iBranches.EExit)
  BY <1>7, LeavingCode
<1>11. NestOK(words', gs, iBranches)
  BY <1>2, <1>4, <1>6, <1>9, NestElse
<1>12. Labelled(words', iCode')
  <2>1. \A x : ~DefinedIn(items, UserLabel(x)) /\ ~NamedIn(items, UserLabel(x))
    BY <1>10, LabelKinds
  <2> QED BY <1>1, <1>2, <1>9, <1>10, <2>1, LabelledAside
<1>13. /\ gs \in Activations /\ Len(gs) = Len(frames)
       /\ gs[Len(frames)].kind = "ELSE"
       /\ \A j \in 1 .. Len(frames) : gs[j].saved = frames[j].saved
                                      /\ (j # Len(frames) => gs[j].kind = frames[j].kind)
  <2>1. gs \in Activations
    BY <1>11 DEF NestOK
  <2>2. Len(gs) = Len(frames) /\ DOMAIN frames = 1 .. Len(frames)
    BY <1>1, <1>6, <2>1 DEF Activations
  <2>3. PICK n \in 1 .. Len(frames) : n = Len(frames)
    BY <1>5
  <2>4. gs = [frames EXCEPT ![n] = [frames[n] EXCEPT !.kind = "ELSE"]]
    BY <1>6, <2>3
  <2>5. frames[n] \in [kind : Kinds, saved : Branches]
    BY <1>1, ElementOfSeq DEF Activations
  <2>6. gs[n] = [frames[n] EXCEPT !.kind = "ELSE"] /\ \A j \in 1 .. Len(frames) : j # n => gs[j] = frames[j]
    BY <2>2, <2>4
  <2>7. gs[n].kind = "ELSE" /\ gs[n].saved = frames[n].saved
    BY <2>5, <2>6
  <2> QED BY <2>1, <2>2, <2>3, <2>6, <2>7
<1>14. Branched(gs, iBranches, iCode \o items)
  BY <1>1, <1>2, <1>5, <1>10, <1>13, BranchedElse
<1>15. iBranches.depth <= MaxStructureDepth
  BY <1>1
<1> QED BY <1>8, <1>9, <1>11, <1>12, <1>14, <1>15 DEF Taken, Parsing

\* The end of a structure defines what its activation owes.
LEMMA ClosingItems ==
  ASSUME NEW wd, NEW kind \in Kinds, wd.w \in Closers, OpenerOf(kind) = Opener(wd.w),
         Last(frames).kind = kind, NEW b
  PROVE  /\ IsCode(ClosingCode(wd, b))
         /\ \A l : Owes(kind, b, l) => DefinedIn(ClosingCode(wd, b), l)
         /\ \A l : NamedIn(ClosingCode(wd, b), l) =>
              \/ kind = "DO" /\ l = InternalLabel(b.EFalse)
              \/ kind = "WHILE" /\ l = InternalLabel(b.EContinue)
         /\ \A x : ~DefinedIn(ClosingCode(wd, b), UserLabel(x))
<1>1. PICK code : code = ClosingCode(wd, b)
  OBVIOUS
<1>2. CASE wd.w = "ENDIF"
  <2>1. kind \in {"IF", "ELSE"}
    BY <1>2 DEF OpenerOf, Opener, Kinds
  <2>2. PICK d : d = <<SetBranch(b, "EExit")>>
    OBVIOUS
  <2>3. /\ IsCode(d) /\ \A l : DefinedIn(d, l) <=> l = InternalLabel(b.EExit)
        /\ \A l : ~NamedIn(d, l)
    BY <2>2, SetCode, LabelKinds
  <2>4. CASE kind = "ELSE"
    <3>1. code = <<>> \o d
      BY <1>1, <1>2, <2>2, <2>4 DEF ClosingCode
    <3>2. /\ IsCode(code) /\ \A l : DefinedIn(code, l) <=> l = InternalLabel(b.EExit)
          /\ \A l : ~NamedIn(code, l)
      BY <2>3, <3>1, NoCode, CodeAfter
    <3>3. \A l : Owes(kind, b, l) => l = InternalLabel(b.EExit)
      BY <2>4 DEF Owes
    <3>4. \A x : ~DefinedIn(code, UserLabel(x))
      BY <3>2, LabelKinds
    <3> QED BY <1>1, <3>2, <3>3, <3>4
  <2>5. CASE kind = "IF"
    <3>1. PICK c : c = <<SetBranch(b, "EFalse")>>
      OBVIOUS
    <3>2. code = c \o d
      BY <1>1, <1>2, <2>2, <2>5, <3>1 DEF ClosingCode
    <3>3. /\ IsCode(c) /\ \A l : DefinedIn(c, l) <=> l = InternalLabel(b.EFalse)
          /\ \A l : ~NamedIn(c, l)
      BY <3>1, SetCode, LabelKinds
    <3>4. /\ IsCode(code)
          /\ \A l : DefinedIn(code, l) <=> l = InternalLabel(b.EFalse) \/ l = InternalLabel(b.EExit)
          /\ \A l : ~NamedIn(code, l)
      BY <2>3, <3>2, <3>3, CodeAfter
    <3>5. \A l : Owes(kind, b, l) => l = InternalLabel(b.EFalse) \/ l = InternalLabel(b.EExit)
      BY <2>5 DEF Owes
    <3>6. \A x : ~DefinedIn(code, UserLabel(x))
      BY <3>4, LabelKinds
    <3> QED BY <1>1, <3>4, <3>5, <3>6
  <2> QED BY <2>1, <2>4, <2>5
<1>3. CASE wd.w = "UNTIL"
  <2>1. kind = "DO"
    BY <1>3 DEF OpenerOf, Opener, Kinds
  <2>2. PICK c, d, e : /\ c = <<SetBranch(b, "EContinue")>> /\ d = ConditionalExpression(b)
                       /\ e = <<SetBranch(b, "EBreak")>>
    OBVIOUS
  <2>3. code = (c \o d) \o e
    BY <1>1, <1>3, <2>2 DEF ClosingCode
  <2>4. /\ IsCode(c) /\ \A l : DefinedIn(c, l) <=> l = InternalLabel(b.EContinue)
        /\ \A l : ~NamedIn(c, l)
    BY <2>2, SetCode, LabelKinds
  <2>5. /\ IsCode(d) /\ \A l : ~DefinedIn(d, l)
        /\ \A l : NamedIn(d, l) <=> l = InternalLabel(b.EFalse)
    BY <2>2, ConditionCode
  <2>6. /\ IsCode(e) /\ \A l : DefinedIn(e, l) <=> l = InternalLabel(b.EBreak)
        /\ \A l : ~NamedIn(e, l)
    BY <2>2, SetCode, LabelKinds
  <2>7. /\ IsCode(c \o d) /\ \A l : DefinedIn(c \o d, l) <=> l = InternalLabel(b.EContinue)
        /\ \A l : NamedIn(c \o d, l) <=> l = InternalLabel(b.EFalse)
    BY <2>4, <2>5, CodeAfter
  <2>8. /\ IsCode(code)
        /\ \A l : DefinedIn(code, l) <=> l = InternalLabel(b.EContinue) \/ l = InternalLabel(b.EBreak)
        /\ \A l : NamedIn(code, l) <=> l = InternalLabel(b.EFalse)
    BY <2>3, <2>6, <2>7, CodeAfter
  <2>9. \A l : Owes(kind, b, l) => l = InternalLabel(b.EContinue) \/ l = InternalLabel(b.EBreak)
    BY <2>1 DEF Owes
  <2>10. \A x : ~DefinedIn(code, UserLabel(x))
    BY <2>8, LabelKinds
  <2> QED BY <1>1, <2>1, <2>8, <2>9, <2>10
<1>4. CASE wd.w = "ENDWH"
  <2>1. kind = "WHILE"
    BY <1>4 DEF OpenerOf, Opener, Kinds
  <2>2. PICK x, y, z : /\ x = InternalLabel(b.EContinue) /\ y = InternalLabel(b.EBreak)
                       /\ z = InternalLabel(b.EFalse)
    OBVIOUS
  <2>3. code = <<Item("goto", <<x>>), Item("label", <<y>>), Item("label", <<z>>)>>
    BY <1>1, <1>4, <2>2, LabelKinds DEF ClosingCode, DoBranch, SetBranch
  <2>4. ASSUME NEW l
        PROVE  /\ ~Defines(Item("goto", <<x>>), l) /\ (Names(Item("goto", <<x>>), l) <=> l = x)
               /\ (Defines(Item("label", <<y>>), l) <=> l = y) /\ ~Names(Item("label", <<y>>), l)
               /\ (Defines(Item("label", <<z>>), l) <=> l = z) /\ ~Names(Item("label", <<z>>), l)
    BY OneItem, NotDefining
  <2>5. /\ IsCode(code) /\ \A l : DefinedIn(code, l) <=> l = y \/ l = z
        /\ \A l : NamedIn(code, l) <=> l = x
    BY <2>3, <2>4, CodeOfThree
  <2>6. \A l : Owes(kind, b, l) => l = y \/ l = z
    BY <2>1, <2>2 DEF Owes
  <2>7. \A u : ~DefinedIn(code, UserLabel(u))
    BY <2>2, <2>5, LabelKinds
  <2> QED BY <1>1, <2>1, <2>2, <2>5, <2>6, <2>7
<1> QED BY <1>2, <1>3, <1>4 DEF Closers

\* The end of a structure.
LEMMA CloseTaken ==
  ASSUME Parsing, phase = "parse", NEW wd \in Word, ParseClose(wd)
  PROVE  Taken
<1>1. /\ words \in Seq(Word) /\ frames \in Activations /\ iBranches \in Branches
      /\ Len(frames) <= MaxStructureDepth /\ Len(frames) \in Nat /\ Len(words) \in Nat
      /\ iBranches.depth = Len(frames)
      /\ iBranches.loop = 0 <=> LoopsOf(frames) = {}
  BY ParsingTypes
<1>2. Labelled(words, iCode) /\ Branched(frames, iBranches, iCode) /\ NestOK(words, frames, iBranches)
  BY DEF Parsing
<1>3. wd.w \in Expected /\ wd.w \in Closers
  BY DEF ParseClose, Closers
<1>4. Admits(frames, wd)
  BY <1>3, ExpectedIs DEF Closers
<1>5. Len(frames) # 0 /\ OpenerOf(frames[Len(frames)].kind) = Opener(wd.w)
  BY <1>3, <1>4 DEF Admits
<1>6. PICK d \in Nat : Len(frames) = d + 1
  <2>1. Len(frames) - 1 \in Nat /\ Len(frames) = (Len(frames) - 1) + 1
    BY <1>1, <1>5
  <2> QED BY <2>1
<1>7. PICK f : f = frames[d + 1]
  OBVIOUS
<1>8. /\ f \in [kind : Kinds, saved : Branches] /\ Last(frames) = f
      /\ OpenerOf(f.kind) = Opener(wd.w)
  <2>1. d + 1 \in 1 .. Len(frames)
    BY <1>6
  <2>2. f \in [kind : Kinds, saved : Branches]
    BY <1>1, <1>7, <2>1, ElementOfSeq DEF Activations
  <2> QED BY <1>5, <1>6, <1>7, <2>2 DEF Last
<1>9. f.kind \in Kinds /\ f.saved \in Branches
  BY <1>8
<1>10. wd.w # "ENDIF" => iBranches.loop # 0
  <2>1. wd.w # "ENDIF" => Opener(wd.w) \in {"DO", "WHILE"}
    BY <1>3 DEF Opener, Closers
  <2>2. wd.w # "ENDIF" => f.kind \in {"DO", "WHILE"}
    BY <1>8, <2>1 DEF OpenerOf
  <2>3. wd.w # "ENDIF" => d + 1 \in LoopsOf(frames)
    BY <1>6, <1>7, <2>2 DEF LoopsOf
  <2> QED BY <1>1, <2>3
<1>11. PICK c : c = IF wd.w = "ENDIF" THEN RestoreBranches(iBranches, f.saved)
                    ELSE LeaveLoop(RestoreBranches(iBranches, f.saved))
  OBVIOUS
<1>12. /\ c \in Branches /\ c.depth = iBranches.depth - 1
       /\ c.loop = IF wd.w = "ENDIF" THEN iBranches.loop ELSE iBranches.loop - 1
       /\ SameLoop(c, f.saved) /\ c.EExit = f.saved.EExit /\ c.EFalse = f.saved.EFalse
  BY <1>1, <1>5, <1>9, <1>10, <1>11, ClosedBranches DEF SameLoop
<1>13. PICK items : items = ClosingCode(wd, iBranches)
  OBVIOUS
<1>14. Emit(wd, c, items) /\ frames' = Front(frames)
  BY <1>8, <1>11, <1>13 DEF ParseClose
<1>15. words' = Append(words, wd) /\ iBranches' = c /\ iCode' = iCode \o items /\ phase' = "parse"
  BY <1>14 DEF Emit
<1>16. /\ IsCode(items)
       /\ \A l : Owes(f.kind, iBranches, l) => DefinedIn(items, l)
       /\ \A l : NamedIn(items, l) => \/ f.kind = "DO" /\ l = InternalLabel(iBranches.EFalse)
                                      \/ f.kind = "WHILE" /\ l = InternalLabel(iBranches.EContinue)
       /\ \A x : ~DefinedIn(items, UserLabel(x))
  <2>1. Last(frames).kind = f.kind
    BY <1>8
  <2> QED BY <1>3, <1>8, <1>9, <1>13, <2>1, ClosingItems
<1>17. NestOK(words', frames', iBranches')
  BY <1>2, <1>3, <1>4, <1>12, <1>14, <1>15, NestClosed
<1>18. Labelled(words', iCode')
  <2>1. \A x : ~DefinedIn(items, UserLabel(x)) /\ ~NamedIn(items, UserLabel(x))
    BY <1>16, LabelKinds
  <2>2. wd.w \notin {"LABEL", "GOTO", "ONERR", "VECTOR"}
    BY <1>3 DEF Closers
  <2> QED BY <1>1, <1>2, <1>15, <1>16, <2>1, <2>2, LabelledAside
<1>19. Branched(frames', iBranches', iCode')
  <2>1. Topped(f.kind, iBranches, iCode)
    <3>1. BranchesOf(frames, iBranches, d + 1) = iBranches /\ d + 1 \in 1 .. Len(frames)
      BY <1>6 DEF BranchesOf
    <3>2. Topped(frames[d + 1].kind, BranchesOf(frames, iBranches, d + 1), iCode)
      BY <1>2, <3>1 DEF Branched
    <3> QED BY <1>7, <3>1, <3>2
  <2>2. IsCode(iCode) /\ \A l : DefinedIn(iCode, l) => DefinedIn(iCode \o items, l)
    BY <1>2, <1>16, CodeAfter DEF Branched
  <2>3. \A l : NamedIn(items, l) => DefinedIn(iCode \o items, l)
    BY <1>16, <2>1, <2>2 DEF Topped
  <2> QED BY <1>1, <1>2, <1>6, <1>7, <1>12, <1>14, <1>15, <1>16, <2>3, BranchedClosed
<1>20. iBranches'.depth <= MaxStructureDepth
  BY <1>1, <1>6, <1>12, <1>15, DepthAssumption
<1> QED BY <1>15, <1>17, <1>18, <1>19, <1>20 DEF Taken, Parsing

-----------------------------------------------------------------------------
(* The end of a procedure, and the theorem.                                *)

Accepting ==
  /\ vocab \in Vocabularies
  /\ words \in Seq(Word)
  /\ phase \in {"parse", "failed", "run", "ended"}
  /\ phase = "parse" => Parsing
  /\ phase # "parse" => Len(words) # 0
  /\ AcceptsExactly

\* ENDP: the back end accepts the procedure if every label is found.
LEMMA EndPAccepts ==
  ASSUME Parsing, phase = "parse", NEW wd \in Word, ParseEndP(wd)
  PROVE  phase' \in {"failed", "run"} /\ AcceptsExactly'
<1>1. /\ words \in Seq(Word) /\ frames \in Activations /\ iBranches \in Branches
      /\ Len(frames) <= MaxStructureDepth /\ Len(frames) \in Nat /\ Len(words) \in Nat
  BY ParsingTypes
<1>2. wd.w = "ENDP" /\ frames = <<>>
  BY DEF ParseEndP
<1>3. Labelled(words, iCode) /\ Branched(frames, iBranches, iCode) /\ NestOK(words, frames, iBranches)
  BY DEF Parsing
<1>4. Len(frames) = 0
  BY <1>2
<1>5. Admits(frames, wd)
  BY <1>2, <1>4, DepthAssumption DEF Admits, Openers, Closers
<1>6. PICK ws : ws = Append(words, wd)
  OBVIOUS
<1>7. ws \in Seq(Word) /\ Len(ws) = Len(words) + 1 /\ ws[Len(words) + 1] = wd
  BY <1>1, <1>6, Appended
<1>8. WellNestedIn(ws)
  BY <1>3, <1>5, <1>6, AllFit DEF WellNestedIn
<1>9. PICK items : items = IF iLastWasReturn THEN <<>> ELSE <<Item("return", <<>>)>>
  OBVIOUS
<1>10. IsCode(items) /\ \A l : ~DefinedIn(items, l) /\ ~NamedIn(items, l)
  <2>1. \A l : ~Names(Item("return", <<>>), l) /\ ~Defines(Item("return", <<>>), l)
    BY OneItem, NotDefining
  <2>2. IsCode(<<Item("return", <<>>)>>) /\ \A l : /\ ~DefinedIn(<<Item("return", <<>>)>>, l)
                                                   /\ ~NamedIn(<<Item("return", <<>>)>>, l)
    BY <2>1, CodeOfOne
  <2> QED BY <1>9, <2>2, NoCode
<1>11. Labelled(ws, iCode \o items)
  <2>1. wd.w \notin {"LABEL", "GOTO", "ONERR", "VECTOR"}
    BY <1>2
  <2> QED BY <1>1, <1>3, <1>6, <1>10, <2>1, LabelledAside
<1>12. Branched(frames, iBranches, iCode \o items)
  <2>1. SameLoop(iBranches, iBranches)
    BY DEF SameLoop
  <2> QED BY <1>1, <1>3, <1>10, <2>1, BranchedWithin
<1>13. Missing(iCode \o items) <=> ~FoundIn(ws)
  BY <1>4, <1>11, <1>12, MissingAtEnd
<1>14. NamedOnce(ws)
  BY <1>11 DEF Labelled, NamedOnce
<1>15. words' = ws /\ phase' = IF Missing(iCode \o items) THEN "failed" ELSE "run"
  <2>1. CASE Missing(iCode \o items)
    BY <1>6, <1>9, <2>1 DEF ParseEndP, Fail
  <2>2. CASE ~Missing(iCode \o items)
    BY <1>6, <1>9, <2>2 DEF ParseEndP
  <2> QED BY <2>1, <2>2
<1>16. Len(words') # 0 /\ words'[Len(words')].w = "ENDP" /\ words' \in Seq(Word)
  BY <1>1, <1>2, <1>7, <1>15
<1>17. AcceptsExactly' <=>
         /\ phase' \in {"run", "ended"} =>
              WellNestedIn(words') /\ NamedOnce(words') /\ FoundIn(words')
         /\ phase' = "failed" =>
              \/ ~WellNestedIn(words') \/ ~NamedOnce(words')
              \/ words'[Len(words')].w = "ENDP" /\ ~FoundIn(words')
  BY <1>16, AcceptsNext
<1> QED BY <1>8, <1>13, <1>14, <1>15, <1>16, <1>17

\* The invariant is true at the start and every step keeps it.
LEMMA AcceptingStart == Init => Accepting
<1> SUFFICES ASSUME Init PROVE Accepting
  OBVIOUS
<1>1. /\ vocab \in Vocabularies /\ words = <<>> /\ phase = "parse" /\ frames = <<>>
      /\ iBranches = NoBranches /\ iCode = <<>>
  BY DEF Init
<1>2. words \in Seq(Word) /\ frames \in Activations /\ Len(words) = 0 /\ Len(frames) = 0
  BY <1>1 DEF Activations
<1>3. /\ iBranches \in Branches /\ iBranches.depth = 0 /\ iBranches.loop = 0
  BY <1>1 DEF NoBranches, Branches
<1>4. NestOK(words, frames, iBranches)
  <2>1. LoopsOf(frames) = {}
    BY <1>2 DEF LoopsOf
  <2>2. Cardinality({}) = 0
    BY FS_EmptySet
  <2>3. \E p : Places(words, frames, p)
    <3>1. PICK p : p = [j \in {} |-> 0]
      OBVIOUS
    <3>2. 1 .. 0 = {}
      OBVIOUS
    <3>3. DepthIn(words, 1) = 0 /\ InsideIn(words, 1) = {}
      BY DepthAtStart
    <3>4. Len(words) + 1 = 1 /\ 1 .. Len(frames) = {} /\ 1 .. Len(words) = {}
      BY <1>2, <3>2
    <3>5. p \in [{} -> {}]
      BY <3>1
    <3>6. Places(words, frames, p)
      BY <1>2, <2>2, <3>3, <3>4, <3>5 DEF Places
    <3> QED BY <3>6
  <2> QED BY <1>2, <1>3, <2>1, <2>2, <2>3 DEF NestOK
<1>5. Labelled(words, iCode)
  BY <1>1, <1>2, NoCode DEF Labelled
<1>6. Branched(frames, iBranches, iCode)
  BY <1>1, <1>2, NoCode DEF Branched
<1>7. AcceptsExactly
  BY <1>1 DEF AcceptsExactly
<1> QED BY <1>1, <1>2, <1>3, <1>4, <1>5, <1>6, <1>7, DepthAssumption DEF Accepting, Parsing

\* A step that adds no word, and goes no further than from run to ended,
\* keeps what is accepted.
LEMMA AcceptsKept ==
  ASSUME words \in Seq(Word), phase # "parse" => Len(words) # 0, AcceptsExactly, words' = words,
         phase' = phase \/ (phase = "run" /\ phase' \in {"run", "ended"})
  PROVE  AcceptsExactly'
<1>1. CASE phase = "parse"
  <2>1. phase' = "parse"
    BY <1>1
  <2> QED BY <2>1 DEF AcceptsExactly
<1>2. CASE phase # "parse"
  BY <1>2, AcceptsNow, AcceptsNext
<1> QED BY <1>1, <1>2

LEMMA AcceptingKept == Accepting /\ [Next]_vars => Accepting'
<1> SUFFICES ASSUME Accepting, [Next]_vars PROVE Accepting'
  OBVIOUS
<1>1. /\ vocab \in Vocabularies /\ words \in Seq(Word)
      /\ phase \in {"parse", "failed", "run", "ended"}
      /\ (phase = "parse" => Parsing) /\ (phase # "parse" => Len(words) # 0) /\ AcceptsExactly
  BY DEF Accepting
<1>2. CASE UNCHANGED vars
  <2>1. /\ vocab' = vocab /\ words' = words /\ phase' = phase /\ frames' = frames
        /\ iBranches' = iBranches /\ iCode' = iCode
    BY <1>2 DEF vars, source, parser
  <2>2. Parsing' <=> Parsing
    BY <2>1 DEF Parsing
  <2> QED BY <1>1, <2>1, <2>2, AcceptsKept DEF Accepting
<1>3. CASE ParseWord
  <2>1. PICK wd \in vocab.words \cup {[w |-> "ENDP", ls |-> <<>>]} :
          \/ ParseLabel(wd) \/ ParseSimple(wd) \/ ParseVector(wd) \/ ParseOpen(wd)
          \/ ParseClause(wd) \/ ParseClose(wd) \/ ParseMisplaced(wd) \/ ParseEndP(wd)
    BY <1>3 DEF ParseWord
  <2>2. phase = "parse" /\ Parsing
    BY <1>1, <1>3 DEF ParseWord
  <2>3. wd \in Word
    <3>1. [w |-> "ENDP", ls |-> <<>>] \in [w : Plain, ls : {<<>>}]
      BY DEF Plain
    <3>2. [w |-> "ENDP", ls |-> <<>>] \in Word
      BY <3>1 DEF Word
    <3> QED BY <1>1, <2>1, <3>2, VocabulariesAssumption
  <2>4. vocab' = vocab /\ words' = Append(words, wd)
    BY <2>1 DEF ParseLabel, ParseSimple, ParseVector, ParseOpen, ParseClause, ParseClose,
                ParseMisplaced, ParseEndP, Emit, Fail
  <2>5. words' \in Seq(Word) /\ Len(words') # 0
    <3>1. words' \in Seq(Word) /\ Len(words') = Len(words) + 1 /\ Len(words) \in Nat
      BY <1>1, <2>3, <2>4, Appended
    <3> QED BY <3>1
  <2>6. CASE ParseEndP(wd)
    <3>1. phase' \in {"failed", "run"} /\ AcceptsExactly'
      BY <2>2, <2>3, <2>6, EndPAccepts
    <3> QED BY <1>1, <2>4, <2>5, <3>1 DEF Accepting
  <2>7. CASE ~ParseEndP(wd)
    <3>1. ParseClause(wd) => wd.w = "ELSEIF" \/ wd.w = "ELSE"
      BY DEF ParseClause
    <3>2. Taken
      BY <2>1, <2>2, <2>3, <2>7, <3>1, LabelTaken, SimpleTaken, VectorTaken, OpenTaken,
         ElseIfTaken, ElseTaken, CloseTaken, MisplacedTaken
    <3>3. phase' = "parse" => AcceptsExactly'
      BY DEF AcceptsExactly
    <3> QED BY <1>1, <2>4, <2>5, <3>2, <3>3 DEF Accepting, Taken
  <2> QED BY <2>6, <2>7
<1>4. CASE Run
  <2>1. /\ vocab' = vocab /\ words' = words /\ phase = "run" /\ phase' \in {"run", "ended"}
    BY <1>4 DEF Run, RunStatement, RunCondition, RunVector, RunOnErr, RunReturn, Runs,
                StepDone, source
  <2> QED BY <1>1, <2>1, AcceptsKept DEF Accepting
<1> QED BY <1>2, <1>3, <1>4 DEF Next

\* A procedure is refused exactly when its structures do not nest, go deeper
\* than KOplMaxStructureDepth or lack a loop for BREAK or CONTINUE, when a
\* label is defined twice, or, at ENDP, when one is missing.
THEOREM AcceptsExact == Spec => []AcceptsExactly
<1>1. Accepting => AcceptsExactly
  BY DEF Accepting
<1> QED BY <1>1, AcceptingStart, AcceptingKept, PTL DEF Spec

-----------------------------------------------------------------------------
(* Where a structure of a well nested procedure begins and ends.           *)

\* A set of numbers has a least.
LEMMA SomeLeast ==
  ASSUME NEW S \in SUBSET Nat, S # {}
  PROVE  LeastOf(S) \in S /\ \A k \in S : LeastOf(S) <= k
<1>1. PICK m \in S : \A j \in S : ~(<<j, m>> \in OpToRel(<, Nat))
  BY NatLessThanWellFounded, WFMin
<1>2. \A j \in S : ~(j < m)
  BY <1>1 DEF OpToRel
<1>3. \E n \in S : \A k \in S : n <= k
  BY <1>2
<1> QED BY <1>3 DEF LeastOf

\* The word that begins the structure that word n ends or continues.
LEMMA OpenerFound ==
  ASSUME NEW ws, NEW n \in Nat \ {0}, ws[n].w \in {"ELSEIF", "ELSE"} \cup Closers, Fits(ws, n)
  PROVE  LET g == GreatestOf(InsideIn(ws, n)) IN
         /\ g \in 1 .. n - 1 /\ ws[g].w = Opener(ws[n].w) /\ ws[g].w \in Openers
         /\ DepthIn(ws, n) = DepthIn(ws, g) + 1
         /\ \A j \in g + 1 .. n : DepthIn(ws, j) >= DepthIn(ws, n)
<1>1. PICK g : g = GreatestOf(InsideIn(ws, n))
  OBVIOUS
<1>2. InsideIn(ws, n) # {} /\ ws[g].w = Opener(ws[n].w)
  BY <1>1, Zenon DEF Fits
<1>3. InsideIn(ws, n) \in SUBSET (1 .. n)
  BY DEF InsideIn
<1>4. g \in InsideIn(ws, n) /\ \A k \in InsideIn(ws, n) : g >= k
  BY <1>1, <1>2, <1>3, SomeGreatest
<1>5. /\ g \in 1 .. n - 1 /\ ws[g].w \in Openers /\ DepthIn(ws, g) < DepthIn(ws, n)
      /\ \A j \in g + 1 .. n : DepthIn(ws, j) > DepthIn(ws, g)
  BY <1>4 DEF InsideIn
<1>6. DepthIn(ws, g + 1) = DepthIn(ws, g) + 1
  BY <1>5, DepthStep
<1>7. \A j \in 1 .. n : DepthIn(ws, j) \in Int
  BY DepthStep
<1> DEFINE L == {j \in g + 1 .. n : DepthIn(ws, j) <= DepthIn(ws, g) + 1}
<1>8. L \in SUBSET (1 .. n) /\ g + 1 \in L
  BY <1>5, <1>6, <1>7
<1>9. PICK t : t = GreatestOf(L)
  OBVIOUS
<1>10. t \in L /\ \A k \in L : t >= k
  <2> HIDE DEF L
  <2> QED BY <1>8, <1>9, SomeGreatest
<1>11. t \in g + 1 .. n /\ DepthIn(ws, t) = DepthIn(ws, g) + 1
  BY <1>5, <1>7, <1>10
<1>12. t = n
  <2> SUFFICES ASSUME t # n PROVE FALSE
    OBVIOUS
  <2>1. \A j \in t + 1 .. n : DepthIn(ws, j) > DepthIn(ws, t)
    <3> SUFFICES ASSUME NEW j \in t + 1 .. n, ~(DepthIn(ws, j) > DepthIn(ws, t)) PROVE FALSE
      OBVIOUS
    <3>1. j \in L
      BY <1>5, <1>7, <1>11
    <3> QED BY <1>5, <1>10, <1>11, <3>1
  <2>2. t + 1 \in t + 1 .. n /\ n \in t + 1 .. n /\ t \in Nat \ {0}
    BY <1>5, <1>11
  <2>3. ws[t].w \in Openers
    BY <1>7, <1>11, <2>1, <2>2, DepthStep
  <2>4. t \in InsideIn(ws, n)
    BY <1>5, <1>11, <2>1, <2>2, <2>3 DEF InsideIn
  <2> QED BY <1>4, <1>5, <1>11, <2>4
<1>13. DepthIn(ws, n) = DepthIn(ws, g) + 1
  BY <1>11, <1>12
<1>14. \A j \in g + 1 .. n : DepthIn(ws, j) >= DepthIn(ws, n)
  BY <1>5, <1>7, <1>13
<1> QED BY <1>1, <1>2, <1>5, <1>13, <1>14

\* It is what the source goes back to.
LEMMA StartFound ==
  ASSUME NEW ws, NEW n \in Nat \ {0}, ws[n].w \in Closers, Fits(ws, n)
  PROVE  GreatestOf({k \in 1 .. n - 1 : ws[k].w \in Openers /\ DepthIn(ws, k) = DepthIn(ws, n) - 1})
           = GreatestOf(InsideIn(ws, n))
<1> DEFINE S == {k \in 1 .. n - 1 : ws[k].w \in Openers /\ DepthIn(ws, k) = DepthIn(ws, n) - 1}
<1>1. PICK g : g = GreatestOf(InsideIn(ws, n))
  OBVIOUS
<1>2. /\ g \in 1 .. n - 1 /\ ws[g].w \in Openers /\ DepthIn(ws, n) = DepthIn(ws, g) + 1
      /\ \A j \in g + 1 .. n : DepthIn(ws, j) >= DepthIn(ws, n)
  BY <1>1, OpenerFound
<1>3. \A j \in 1 .. n : DepthIn(ws, j) \in Int
  BY DepthStep
<1>4. g \in S /\ S \in SUBSET (1 .. n)
  BY <1>2, <1>3
<1>5. PICK t : t = GreatestOf(S)
  OBVIOUS
<1>6. t \in S /\ t >= g
  <2> HIDE DEF S
  <2> QED BY <1>4, <1>5, SomeGreatest
<1>7. t = g
  BY <1>2, <1>3, <1>6
<1> QED BY <1>1, <1>5, <1>7

\* The word at which the depth is again what it was at word n.
EndIn(ws, n) == LeastOf({k \in n + 1 .. Len(ws) :
                          ws[k].w \in Closers /\ DepthIn(ws, k) = DepthIn(ws, n) + 1})

\* A whole procedure: well nested, and ended by ENDP.
Whole(ws) ==
  /\ ws \in Seq(Word) /\ Len(ws) \in Nat \ {0} /\ DOMAIN ws = 1 .. Len(ws)
  /\ ws[Len(ws)].w = "ENDP" /\ WellNestedIn(ws) /\ FoundIn(ws)

\* A structure of a whole procedure ends, with the word for it.
LEMMA EndFound ==
  ASSUME NEW ws, Whole(ws), NEW n \in 1 .. Len(ws), ws[n].w \in Openers
  PROVE  LET e == EndIn(ws, n) IN
         /\ e \in n + 1 .. Len(ws) - 1 /\ ws[e].w \in Closers /\ Opener(ws[e].w) = ws[n].w
         /\ DepthIn(ws, e) = DepthIn(ws, n) + 1 /\ DepthIn(ws, e + 1) = DepthIn(ws, n)
         /\ \A j \in n + 1 .. e : DepthIn(ws, j) > DepthIn(ws, n)
<1> DEFINE D(m) == DepthIn(ws, m)
           l == Len(ws)
<1>1. l \in Nat \ {0} /\ ws[l].w = "ENDP" /\ Fits(ws, l) /\ n \in Nat \ {0}
  BY DEF Whole, WellNestedIn
<1>2. \A j \in 1 .. l + 1 : D(j) \in Int
  BY <1>1, DepthStep
<1>3. n < l
  <2>1. ws[n].w # "ENDP"
    BY DEF Openers
  <2> QED BY <1>1, <2>1
<1>4. D(n + 1) = D(n) + 1
  BY <1>1, DepthStep
<1> DEFINE S == {j \in n + 1 .. l : D(j) <= D(n)}
<1>5. S # {}
  <2> SUFFICES ASSUME S = {} PROVE FALSE
    OBVIOUS
  <2>1. \A j \in n + 1 .. l : D(j) > D(n)
    <3> SUFFICES ASSUME NEW j \in n + 1 .. l, ~(D(j) > D(n)) PROVE FALSE
      OBVIOUS
    <3>1. D(j) \in Int /\ D(n) \in Int
      BY <1>1, <1>2
    <3>2. j \in S
      BY <3>1
    <3> QED BY <3>2
  <2>2. n \in InsideIn(ws, l)
    <3>1. n \in 1 .. l - 1 /\ l \in n + 1 .. l
      BY <1>1, <1>3
    <3>2. D(n) < D(l)
      BY <1>1, <1>2, <2>1, <3>1
    <3> QED BY <2>1, <3>1, <3>2 DEF InsideIn
  <2>3. InsideIn(ws, l) = {}
    BY <1>1 DEF Fits
  <2> QED BY <2>2, <2>3
<1>6. PICK t : t = LeastOf(S)
  OBVIOUS
<1>7. t \in S /\ \A k \in S : t <= k
  <2>1. S \in SUBSET Nat
    BY <1>1
  <2> HIDE DEF S
  <2> QED BY <1>5, <1>6, <2>1, SomeLeast
<1>8. /\ t \in n + 1 .. l /\ D(t) <= D(n) /\ t # n + 1
  BY <1>1, <1>2, <1>4, <1>7
<1>9. PICK e \in Nat : t = e + 1
  BY <1>1, <1>8
<1>10. e \in n + 1 .. l - 1 /\ e \in Nat \ {0}
  BY <1>1, <1>8, <1>9
<1>11. \A j \in n + 1 .. e : D(j) > D(n)
  <2> SUFFICES ASSUME NEW j \in n + 1 .. e, ~(D(j) > D(n)) PROVE FALSE
    OBVIOUS
  <2>1. D(j) \in Int /\ D(n) \in Int /\ j \in n + 1 .. l
    BY <1>1, <1>2, <1>10
  <2>2. j \in S
    BY <2>1
  <2> QED BY <1>7, <1>9, <2>2
<1>12. ws[e].w \in Closers /\ D(e) = D(n) + 1 /\ D(e + 1) = D(n)
  <2>1. D(e) > D(n) /\ D(e + 1) <= D(n) /\ D(e) \in Int /\ D(n) \in Int
    BY <1>1, <1>2, <1>8, <1>9, <1>10, <1>11
  <2>2. CASE ws[e].w \in Closers
    <3>1. D(e + 1) = D(e) - 1
      BY <1>10, <2>2, DepthStep
    <3> HIDE DEF D
    <3> QED BY <2>1, <2>2, <3>1
  <2>3. CASE ws[e].w \notin Closers
    <3>1. D(e + 1) = D(e) + 1 \/ D(e + 1) = D(e)
      BY <1>10, <2>3, DepthStep
    <3> HIDE DEF D
    <3> QED BY <2>1, <3>1
  <2> QED BY <2>2, <2>3
<1> DEFINE C == {k \in n + 1 .. l : ws[k].w \in Closers /\ D(k) = D(n) + 1}
<1>13. e = LeastOf(C)
  <2>1. e \in C /\ C \in SUBSET Nat
    BY <1>1, <1>10, <1>12
  <2>2. PICK c : c = LeastOf(C)
    OBVIOUS
  <2>3. c \in C /\ c <= e
    <3> HIDE DEF C
    <3> QED BY <2>1, <2>2, SomeLeast
  <2>4. c \in n + 1 .. l /\ ws[c].w \in Closers /\ D(c) = D(n) + 1 /\ c # l /\ c \in Nat \ {0}
    BY <1>1, <2>3 DEF Closers
  <2>5. D(c + 1) = D(n) /\ c + 1 \in n + 1 .. l
    <3>1. D(c + 1) = D(c) - 1
      BY <2>4, DepthStep
    <3>2. D(n) \in Int
      BY <1>1, <1>2
    <3> HIDE DEF D
    <3> QED BY <1>1, <2>4, <3>1, <3>2
  <2>6. c + 1 \in S
    BY <1>1, <1>2, <2>5
  <2> QED BY <1>7, <1>9, <1>10, <2>2, <2>3, <2>4, <2>6
<1>14. e = EndIn(ws, n)
  BY <1>13 DEF EndIn
<1>15. Opener(ws[e].w) = ws[n].w
  <2>1. Fits(ws, e)
    BY <1>1, <1>10 DEF Whole, WellNestedIn
  <2>2. PICK g : g = GreatestOf(InsideIn(ws, e))
    OBVIOUS
  <2>3. /\ g \in 1 .. e - 1 /\ ws[g].w = Opener(ws[e].w) /\ D(e) = D(g) + 1
        /\ \A j \in g + 1 .. e : D(j) >= D(e)
    BY <1>10, <1>12, <2>1, <2>2, OpenerFound
  <2>4. InsideIn(ws, e) \in SUBSET (1 .. e)
    BY DEF InsideIn
  <2>5. n \in InsideIn(ws, e)
    <3>1. n \in 1 .. e - 1 /\ D(n) < D(e)
      BY <1>1, <1>2, <1>10, <1>12
    <3> QED BY <1>11, <3>1 DEF InsideIn
  <2>6. g >= n
    BY <1>10, <2>2, <2>4, <2>5, SomeGreatest
  <2>7. D(g) = D(n) /\ (g > n => D(g) > D(n))
    <3>1. D(g) \in Int /\ D(n) \in Int
      BY <1>1, <1>2, <1>10, <2>3
    <3>2. g > n => g \in n + 1 .. e
      BY <1>10, <2>3
    <3> QED BY <1>11, <1>12, <2>3, <3>1, <3>2
  <2>8. g = n
    BY <1>1, <1>2, <1>10, <2>3, <2>6, <2>7
  <2> QED BY <2>3, <2>8
<1>16. e \in n + 1 .. Len(ws) - 1 /\ DepthIn(ws, e) = DepthIn(ws, n) + 1 /\ DepthIn(ws, e + 1) = DepthIn(ws, n)
  BY <1>1, <1>10, <1>12
<1>17. \A j \in n + 1 .. e : DepthIn(ws, j) > DepthIn(ws, n)
  BY <1>11
<1> HIDE DEF D, C, S, l
<1> QED BY <1>12, <1>14, <1>15, <1>16, <1>17, Zenon

\* A loop that a word is in ends after it.
LEMMA LoopEndsAfter ==
  ASSUME NEW ws, Whole(ws), NEW n \in 1 .. Len(ws), NEW k \in InsideIn(ws, n), ws[n].w \notin Closers
  PROVE  k \in 1 .. n - 1 /\ EndIn(ws, k) > n
<1>1. n \in Nat /\ Len(ws) \in Nat
  BY DEF Whole
<1>2. /\ k \in 1 .. n - 1 /\ ws[k].w \in Openers
      /\ \A j \in k + 1 .. n : DepthIn(ws, j) > DepthIn(ws, k)
  BY DEF InsideIn
<1>3. PICK e : e = EndIn(ws, k)
  OBVIOUS
<1>4. /\ e \in k + 1 .. Len(ws) - 1 /\ ws[e].w \in Closers
      /\ DepthIn(ws, e + 1) = DepthIn(ws, k)
  BY <1>1, <1>2, <1>3, EndFound
<1>5. DepthIn(ws, k) \in Int
  BY <1>1, <1>2, DepthStep
<1>6. ~(e + 1 \in k + 1 .. n)
  BY <1>2, <1>4, <1>5
<1> QED BY <1>1, <1>2, <1>3, <1>4, <1>6

-----------------------------------------------------------------------------
(* The source's place stays in the procedure.                              *)
Conditions == {"IF", "ELSEIF", "WHILE", "UNTIL"}
Placed(p) ==
  /\ p \in [word : 1 .. Len(words), test : BOOLEAN]
  /\ p.test => words[p.word].w \in Conditions

LEMMA DepthIs == \A n : Depth(n) = DepthIn(words, n)
BY Zenon DEF Depth, DepthIn, WordsTo

LEMMA EndOfIs == \A n : EndOf(n) = EndIn(words, n)
BY DepthIs, Zenon DEF EndOf, EndIn

\* A place after a word that is not the last one, and a condition.
LEMMA PlaceAfter ==
  ASSUME Whole(words), NEW n \in 1 .. Len(words), words[n].w # "ENDP"
  PROVE  Placed(To(n + 1)) /\ n + 1 \in 1 .. Len(words)
<1>1. Len(words) \in Nat \ {0} /\ words[Len(words)].w = "ENDP"
  BY DEF Whole
<1>2. n + 1 \in 1 .. Len(words)
  BY <1>1
<1> QED BY <1>2 DEF Placed, To

LEMMA PlaceOfTest ==
  ASSUME NEW n \in 1 .. Len(words), words[n].w \in Conditions
  PROVE  Placed(Test(n))
BY DEF Placed, Test

\* The end of a structure, and the word after it.
LEMMA EndPlace ==
  ASSUME Whole(words), NEW n \in 1 .. Len(words), words[n].w \in Openers
  PROVE  /\ EndOf(n) \in 1 .. Len(words) /\ EndOf(n) > n
         /\ Placed(To(EndOf(n) + 1))
         /\ words[n].w = "DO" => words[EndOf(n)].w = "UNTIL"
         /\ words[n].w = "IF" => words[EndOf(n)].w = "ENDIF"
         /\ Depth(EndOf(n)) = Depth(n) + 1
<1>1. PICK e : e = EndOf(n)
  OBVIOUS
<1>2. /\ e \in n + 1 .. Len(words) - 1 /\ words[e].w \in Closers /\ Opener(words[e].w) = words[n].w
      /\ DepthIn(words, e) = DepthIn(words, n) + 1
  BY <1>1, EndFound, EndOfIs
<1>3. Len(words) \in Nat
  BY DEF Whole
<1>4. e \in 1 .. Len(words) /\ e > n
  BY <1>2, <1>3
<1>5. Placed(To(e + 1))
  BY <1>2, <1>4, PlaceAfter DEF Closers
<1>6. words[n].w = "DO" => words[e].w = "UNTIL"
  BY <1>2 DEF Closers, Opener
<1>7. words[n].w = "IF" => words[e].w = "ENDIF"
  BY <1>2 DEF Closers, Opener
<1> QED BY <1>1, <1>2, <1>4, <1>5, <1>6, <1>7, DepthIs

\* The start of a loop, from its end.
LEMMA StartPlace ==
  ASSUME Whole(words), NEW n \in 1 .. Len(words), words[n].w \in {"UNTIL", "ENDWH"}
  PROVE  /\ StartOf(n) \in 1 .. Len(words) /\ Placed(To(StartOf(n) + 1))
         /\ words[n].w = "ENDWH" => words[StartOf(n)].w = "WHILE"
<1>1. n \in Nat \ {0} /\ words[n].w \in Closers /\ Fits(words, n) /\ Len(words) \in Nat
  BY DEF Whole, WellNestedIn, Closers
<1>2. PICK g : g = GreatestOf(InsideIn(words, n))
  OBVIOUS
<1>3. g \in 1 .. n - 1 /\ words[g].w = Opener(words[n].w) /\ words[g].w \in Openers
  BY <1>1, <1>2, OpenerFound
<1>4. StartOf(n) = g
  <2>1. StartOf(n) = GreatestOf({k \in 1 .. n - 1 :
          words[k].w \in Openers /\ DepthIn(words, k) = DepthIn(words, n) - 1})
    BY DepthIs, Zenon DEF StartOf
  <2> QED BY <1>1, <1>2, <2>1, StartFound
<1>5. g \in 1 .. Len(words)
  BY <1>1, <1>3
<1>6. words[n].w = "ENDWH" => words[g].w = "WHILE"
  BY <1>3 DEF Opener
<1>7. Placed(To(g + 1))
  BY <1>3, <1>5, PlaceAfter DEF Openers
<1> QED BY <1>4, <1>5, <1>6, <1>7

\* The loop that BREAK and CONTINUE are about.
LEMMA LoopPlace ==
  ASSUME Whole(words), NEW n \in 1 .. Len(words), words[n].w \in {"BREAK", "CONTINUE"}
  PROVE  LoopAround(n) \in 1 .. Len(words) /\ words[LoopAround(n)].w \in {"DO", "WHILE"}
<1>1. n \in Nat \ {0} /\ Fits(words, n) /\ Len(words) \in Nat
  BY DEF Whole, WellNestedIn
<1>2. PICK k \in InsideIn(words, n) : words[k].w \in {"DO", "WHILE"}
  BY <1>1 DEF Fits
<1>3. words[n].w \notin Closers
  BY DEF Closers
<1>4. k \in 1 .. n - 1 /\ EndOf(k) > n
  BY <1>2, <1>3, LoopEndsAfter, EndOfIs
<1> DEFINE S == {m \in 1 .. n - 1 : words[m].w \in {"DO", "WHILE"} /\ EndOf(m) > n}
<1>5. k \in S /\ S \in SUBSET (1 .. n)
  BY <1>1, <1>2, <1>4
<1>6. LoopAround(n) \in S
  <2>1. LoopAround(n) = GreatestOf(S)
    BY Zenon DEF LoopAround
  <2> HIDE DEF S
  <2> QED BY <1>1, <1>5, <2>1, SomeGreatest
<1> QED BY <1>1, <1>6

\* The clause after a condition that is false, and the end of the clauses.
LEMMA ClausePlace ==
  ASSUME Whole(words), NEW n \in 1 .. Len(words), words[n].w \in {"IF", "ELSEIF", "ELSE"}
  PROVE  /\ words[n].w # "ELSE" =>
              ClauseAfter(n) \in 1 .. Len(words) /\ words[ClauseAfter(n)].w \in {"ELSEIF", "ELSE", "ENDIF"}
         /\ words[n].w # "IF" =>
              Placed(To(LeastOf({k \in n + 1 .. Len(words) :
                                  words[k].w = "ENDIF" /\ Depth(k) = Depth(n)})))
<1>1. n \in Nat \ {0} /\ Fits(words, n) /\ Len(words) \in Nat
  BY DEF Whole, WellNestedIn
<1>2. \E e \in n + 1 .. Len(words) :
        /\ words[e].w = "ENDIF"
        /\ Depth(e) = IF words[n].w = "IF" THEN Depth(n) + 1 ELSE Depth(n)
  <2>1. CASE words[n].w = "IF"
    <3>1. words[n].w \in Openers
      BY <2>1 DEF Openers
    <3>2. EndOf(n) \in n + 1 .. Len(words)
      BY <1>1, <3>1, EndPlace
    <3> QED BY <2>1, <3>1, <3>2, EndPlace
  <2>2. CASE words[n].w # "IF"
    <3>1. PICK g : g = GreatestOf(InsideIn(words, n))
      OBVIOUS
    <3>2. /\ g \in 1 .. n - 1 /\ words[g].w = Opener(words[n].w) /\ words[g].w \in Openers
          /\ DepthIn(words, n) = DepthIn(words, g) + 1
      BY <1>1, <2>2, <3>1, OpenerFound
    <3>3. words[g].w = "IF"
      BY <2>2, <3>2 DEF Opener
    <3>4. g \in InsideIn(words, n)
      <4>1. InsideIn(words, n) \in SUBSET (1 .. n)
        BY DEF InsideIn
      <4>2. InsideIn(words, n) # {}
        BY <1>1, <2>2, Zenon DEF Fits
      <4> QED BY <1>1, <3>1, <4>1, <4>2, SomeGreatest
    <3>5. words[n].w \notin Closers
      BY DEF Closers
    <3>6. EndOf(g) > n
      BY <3>4, <3>5, LoopEndsAfter, EndOfIs
    <3>7. g \in 1 .. Len(words)
      BY <1>1, <3>2
    <3>8. EndOf(g) \in 1 .. Len(words) /\ words[EndOf(g)].w = "ENDIF" /\ Depth(EndOf(g)) = Depth(g) + 1
      BY <3>2, <3>3, <3>7, EndPlace
    <3>9. EndOf(g) \in n + 1 .. Len(words) /\ Depth(EndOf(g)) = Depth(n)
      BY <1>1, <3>2, <3>6, <3>8, DepthIs
    <3> QED BY <2>2, <3>8, <3>9
  <2> QED BY <2>1, <2>2
<1>3. PICK e \in n + 1 .. Len(words) :
        /\ words[e].w = "ENDIF"
        /\ Depth(e) = IF words[n].w = "IF" THEN Depth(n) + 1 ELSE Depth(n)
  BY <1>2
<1>4. ASSUME words[n].w # "ELSE"
      PROVE  ClauseAfter(n) \in 1 .. Len(words) /\ words[ClauseAfter(n)].w \in {"ELSEIF", "ELSE", "ENDIF"}
  <2> DEFINE S == {k \in n + 1 .. Len(words) :
                    /\ words[k].w \in {"ELSEIF", "ELSE", "ENDIF"}
                    /\ Depth(k) = (IF words[n].w = "IF" THEN Depth(n) + 1 ELSE Depth(n))}
  <2>1. e \in S
    BY <1>3
  <2>2. S \in SUBSET Nat
    BY <1>1
  <2>3. ClauseAfter(n) = LeastOf(S)
    BY Zenon DEF ClauseAfter
  <2>4. ClauseAfter(n) \in S
    <3> HIDE DEF S
    <3> QED BY <2>1, <2>2, <2>3, SomeLeast
  <2> QED BY <1>1, <2>4
<1>5. ASSUME words[n].w # "IF"
      PROVE  Placed(To(LeastOf({k \in n + 1 .. Len(words) :
                                 words[k].w = "ENDIF" /\ Depth(k) = Depth(n)})))
  <2> DEFINE S == {k \in n + 1 .. Len(words) : words[k].w = "ENDIF" /\ Depth(k) = Depth(n)}
  <2>1. e \in S
    BY <1>3, <1>5
  <2>2. S \in SUBSET Nat
    BY <1>1
  <2>3. LeastOf(S) \in S
    <3> HIDE DEF S
    <3> QED BY <2>1, <2>2, SomeLeast
  <2>4. LeastOf(S) \in 1 .. Len(words)
    BY <1>1, <2>3
  <2> QED BY <2>4 DEF Placed, To
<1> QED BY <1>4, <1>5

\* A label that a word names is at a word.
LEMMA LabelFound ==
  ASSUME Whole(words), NEW n \in 1 .. Len(words), words[n].w \in {"GOTO", "ONERR", "VECTOR"},
         NEW k \in DOMAIN words[n].ls
  PROVE  LabelPlace(words[n].ls[k]) \in 1 .. Len(words)
<1>1. PICK l : l = words[n].ls[k]
  OBVIOUS
<1>2. PICK m \in 1 .. Len(words) : words[m].w = "LABEL" /\ words[m].ls[1] = l
  BY <1>1, Zenon DEF Whole, FoundIn, LabelOf
<1>3. words[m] \in Word
  BY <1>2, ElementOfSeq DEF Whole
<1>4. words[m].ls = <<l>>
  BY <1>2, <1>3 DEF Word, Plain
<1>5. \E j \in DOMAIN words : words[j].w = "LABEL" /\ words[j].ls = <<l>>
  BY <1>2, <1>4 DEF Whole
<1>6. LabelPlace(l) \in DOMAIN words
  BY <1>5 DEF LabelPlace
<1> QED BY <1>1, <1>6 DEF Whole

\* One word further, or to where the word goes.
LEMMA StepPlaced ==
  ASSUME Whole(words), NEW p, Placed(p)
  PROVE  Placed(SourceStep(p))
<1>1. PICK n \in 1 .. Len(words) : n = p.word
  BY DEF Placed
<1>2. words[n] \in Word
  BY ElementOfSeq DEF Whole
<1>3. PICK w : w = words[n].w
  OBVIOUS
<1>4. w \in Plain \cup {"LABEL", "GOTO", "ONERR", "VECTOR"}
  BY <1>2, <1>3 DEF Word
<1>5. p.test \in BOOLEAN /\ (p.test => w \in Conditions)
  BY <1>1, <1>3 DEF Placed
<1>6. CASE p.test \/ w \in {"S", "ONERR", "VECTOR", "RETURN", "ENDP"}
  <2>1. SourceStep(p) = p
    BY <1>1, <1>3, <1>5, <1>6 DEF SourceStep, Conditions
  <2> QED BY <2>1
<1>7. CASE ~p.test /\ w \in {"LABEL", "EOS", "DO", "ENDIF"}
  <2>1. SourceStep(p) = To(n + 1)
    BY <1>1, <1>3, <1>7 DEF SourceStep
  <2> QED BY <1>3, <1>7, <2>1, PlaceAfter
<1>8. CASE ~p.test /\ w \in {"IF", "WHILE", "UNTIL"}
  <2>1. SourceStep(p) = Test(n)
    BY <1>1, <1>3, <1>8 DEF SourceStep
  <2> QED BY <1>3, <1>8, <2>1, PlaceOfTest DEF Conditions
<1>9. CASE ~p.test /\ w \in {"ELSEIF", "ELSE"}
  <2>1. SourceStep(p) = To(LeastOf({k \in n + 1 .. Len(words) :
                                     words[k].w = "ENDIF" /\ Depth(k) = Depth(n)}))
    BY <1>1, <1>3, <1>9 DEF SourceStep
  <2>2. w # "IF"
    BY <1>9
  <2> QED BY <1>3, <1>9, <2>1, <2>2, ClausePlace
<1>10. CASE ~p.test /\ w = "ENDWH"
  <2>1. SourceStep(p) = Test(StartOf(n))
    BY <1>1, <1>3, <1>10 DEF SourceStep
  <2>2. StartOf(n) \in 1 .. Len(words) /\ words[StartOf(n)].w = "WHILE"
    BY <1>3, <1>10, StartPlace
  <2> QED BY <2>1, <2>2, PlaceOfTest DEF Conditions
<1>11. CASE ~p.test /\ w \in {"BREAK", "CONTINUE"}
  <2>1. PICK k : k = LoopAround(n)
    OBVIOUS
  <2>2. k \in 1 .. Len(words) /\ words[k].w \in {"DO", "WHILE"}
    BY <1>3, <1>11, <2>1, LoopPlace
  <2>3. words[k].w \in Openers
    BY <2>2 DEF Openers
  <2>4. CASE w = "BREAK"
    <3>1. SourceStep(p) = To(EndOf(k) + 1)
      BY <1>1, <1>3, <1>11, <2>1, <2>4 DEF SourceStep
    <3> QED BY <2>2, <2>3, <3>1, EndPlace
  <2>5. CASE w = "CONTINUE"
    <3>1. SourceStep(p) = Continued(k)
      BY <1>1, <1>3, <1>11, <2>1, <2>5 DEF SourceStep
    <3>2. CASE words[k].w = "DO"
      <4>1. Continued(k) = Test(EndOf(k))
        BY <3>2 DEF Continued
      <4>2. EndOf(k) \in 1 .. Len(words) /\ words[EndOf(k)].w = "UNTIL"
        BY <2>2, <2>3, <3>2, EndPlace
      <4> QED BY <3>1, <4>1, <4>2, PlaceOfTest DEF Conditions
    <3>3. CASE words[k].w = "WHILE"
      <4>1. Continued(k) = Test(k)
        BY <3>3 DEF Continued
      <4> QED BY <2>2, <3>1, <3>3, <4>1, PlaceOfTest DEF Conditions
    <3> QED BY <2>2, <3>2, <3>3
  <2> QED BY <1>11, <2>4, <2>5
<1>12. CASE ~p.test /\ w = "GOTO"
  <2>1. SourceStep(p) = To(LabelPlace(words[n].ls[1]))
    BY <1>1, <1>3, <1>12 DEF SourceStep
  <2>2. 1 \in DOMAIN words[n].ls
    <3>1. PICK l : words[n].ls = <<l>>
      BY <1>2, <1>3, <1>12 DEF Word, Plain
    <3> QED BY <3>1
  <2>3. LabelPlace(words[n].ls[1]) \in 1 .. Len(words)
    BY <1>3, <1>12, <2>2, LabelFound
  <2> QED BY <2>1, <2>3 DEF Placed, To
<1> QED BY <1>4, <1>5, <1>6, <1>7, <1>8, <1>9, <1>10, <1>11, <1>12 DEF Plain

\* What a condition decides.
LEMMA DecidedPlaced ==
  ASSUME Whole(words), NEW n \in 1 .. Len(words), words[n].w \in Conditions \cup {"VECTOR"},
         NEW outcome \in BOOLEAN
  PROVE  Placed(Decided(n, outcome))
<1>1. PICK w : w = words[n].w
  OBVIOUS
<1>2. w \in {"IF", "ELSEIF", "WHILE", "UNTIL", "VECTOR"}
  BY <1>1 DEF Conditions
<1>3. CASE outcome \/ w = "VECTOR"
  <2>1. Decided(n, outcome) = To(n + 1)
    BY <1>1, <1>3 DEF Decided
  <2> QED BY <1>1, <1>2, <2>1, PlaceAfter
<1>4. CASE ~outcome /\ w = "UNTIL"
  <2>1. Decided(n, outcome) = To(StartOf(n) + 1)
    BY <1>1, <1>4 DEF Decided
  <2> QED BY <1>1, <1>4, <2>1, StartPlace
<1>5. CASE ~outcome /\ w = "WHILE"
  <2>1. Decided(n, outcome) = To(EndOf(n) + 1)
    BY <1>1, <1>5 DEF Decided
  <2>2. words[n].w \in Openers
    BY <1>1, <1>5 DEF Openers
  <2> QED BY <2>1, <2>2, EndPlace
<1>6. CASE ~outcome /\ w \in {"IF", "ELSEIF"}
  <2>1. PICK k : k = ClauseAfter(n)
    OBVIOUS
  <2>2. Decided(n, outcome) = IF words[k].w = "ELSEIF" THEN Test(k) ELSE To(k + 1)
    BY <1>1, <1>6, <2>1 DEF Decided
  <2>3. k \in 1 .. Len(words) /\ words[k].w \in {"ELSEIF", "ELSE", "ENDIF"}
    <3>1. words[n].w # "ELSE" /\ words[n].w \in {"IF", "ELSEIF", "ELSE"}
      BY <1>1, <1>6
    <3> QED BY <2>1, <3>1, ClausePlace
  <2>4. CASE words[k].w = "ELSEIF"
    BY <2>2, <2>3, <2>4, PlaceOfTest DEF Conditions
  <2>5. CASE words[k].w # "ELSEIF"
    BY <2>2, <2>3, <2>5, PlaceAfter
  <2> QED BY <2>4, <2>5
<1> QED BY <1>2, <1>3, <1>4, <1>5, <1>6

-----------------------------------------------------------------------------
(* What comes next in the source.                                          *)

\* The places of the source from at.
SourceWalk(f, m) ==
  f = [n \in 0 .. m |-> IF n = 0 THEN at ELSE SourceStep(f[n - 1])]

LEMMA SourceWalkExists == ASSUME NEW m \in Nat PROVE \E f : SourceWalk(f, m)
<1> DEFINE T == {k \in Nat : ~\E f : SourceWalk(f, k)}
<1>1. SUFFICES ASSUME T # {} PROVE FALSE
  OBVIOUS
<1>2. PICK n \in T : \A k \in T : n <= k
  <2>1. T \in SUBSET Nat
    OBVIOUS
  <2> HIDE DEF T
  <2> QED BY <1>1, <2>1, SomeLeast
<1>3. CASE n = 0
  <2>1. PICK f : f = [k \in {0} |-> at]
    OBVIOUS
  <2>2. 0 .. 0 = {0}
    OBVIOUS
  <2>3. f = [k \in 0 .. 0 |-> IF k = 0 THEN at ELSE SourceStep(f[k - 1])]
    BY <2>1, <2>2
  <2> QED BY <1>2, <1>3, <2>3 DEF SourceWalk
<1>4. CASE n # 0
  <2>1. PICK k \in Nat : n = k + 1
    BY <1>2, <1>4
  <2>2. PICK f : SourceWalk(f, k)
    BY <1>2, <2>1
  <2>3. PICK g : g = [j \in 0 .. n |-> IF j = n THEN SourceStep(f[k]) ELSE f[j]]
    OBVIOUS
  <2>4. \A j \in 0 .. k : g[j] = f[j] /\ f[j] = IF j = 0 THEN at ELSE SourceStep(f[j - 1])
    <3>1. \A j \in 0 .. k : f[j] = IF j = 0 THEN at ELSE SourceStep(f[j - 1])
      BY <2>2 DEF SourceWalk
    <3> QED BY <2>1, <2>3, <3>1
  <2>5. ASSUME NEW j \in 0 .. n
        PROVE  g[j] = IF j = 0 THEN at ELSE SourceStep(g[j - 1])
    <3>1. CASE j = n
      <4>1. g[j] = SourceStep(f[k]) /\ j - 1 = k /\ g[k] = f[k]
        BY <2>1, <2>3, <2>4, <3>1
      <4> QED BY <1>4, <3>1, <4>1
    <3>2. CASE j = 0
      BY <2>1, <2>4, <3>2
    <3>3. CASE j # n /\ j # 0
      <4>1. j \in 0 .. k /\ j - 1 \in 0 .. k
        BY <2>1, <3>3
      <4>2. g[j] = f[j] /\ f[j] = SourceStep(f[j - 1]) /\ g[j - 1] = f[j - 1]
        BY <2>4, <3>3, <4>1
      <4> QED BY <3>3, <4>2
    <3> QED BY <3>1, <3>2, <3>3
  <2>6. g = [j \in 0 .. n |-> g[j]]
    BY <2>3
  <2>7. g = [j \in 0 .. n |-> IF j = 0 THEN at ELSE SourceStep(g[j - 1])]
    BY <2>5, <2>6, Zenon
  <2> QED BY <1>2, <2>7 DEF SourceWalk
<1> QED BY <1>3, <1>4

LEMMA SourceNowPlaced ==
  ASSUME Whole(words), Placed(at)
  PROVE  Placed(SourceNow)
<1>1. PICK m \in Nat : m = 2 * Len(words)
  BY DEF Whole
<1>2. PICK f : f = CHOOSE g : SourceWalk(g, m)
  OBVIOUS
<1>3. SourceWalk(f, m)
  BY <1>2, SourceWalkExists
<1>4. SourceNow = f[m]
  BY <1>1, <1>2, Zenon DEF SourceNow, SourceWalk
<1>5. \A n \in 0 .. m : f[n] = IF n = 0 THEN at ELSE SourceStep(f[n - 1])
  BY <1>3 DEF SourceWalk
<1> DEFINE T == {k \in 0 .. m : ~Placed(f[k])}
<1>6. T = {}
  <2> SUFFICES ASSUME T # {} PROVE FALSE
    OBVIOUS
  <2>1. PICK n \in T : \A k \in T : n <= k
    <3>1. T \in SUBSET Nat
      OBVIOUS
    <3> HIDE DEF T
    <3> QED BY <3>1, SomeLeast
  <2>2. n # 0
    BY <1>5, <2>1
  <2>3. n - 1 \in 0 .. m /\ n - 1 \notin T
    BY <2>1, <2>2
  <2>4. Placed(f[n - 1]) /\ f[n] = SourceStep(f[n - 1])
    BY <1>5, <2>1, <2>2, <2>3
  <2> QED BY <2>1, <2>4, StepPlaced
<1> QED BY <1>4, <1>6

\* What the source shows says which word it is at.
LEMMA ShownWord ==
  ASSUME Whole(words), Placed(SourceNow)
  PROVE  LET n == SourceNow.word IN
         /\ n \in 1 .. Len(words) /\ Placed(To(n))
         /\ SourceShows.op = "S" => words[n].w = "S"
         /\ SourceShows.op = "onerr" => words[n].w = "ONERR"
         /\ SourceShows.op = "cond" => words[n].w \in Conditions \cup {"VECTOR"}
<1>1. PICK p : p = SourceNow
  OBVIOUS
<1>2. PICK w : w = words[p.word].w
  OBVIOUS
<1>3. p.word \in 1 .. Len(words) /\ p.test \in BOOLEAN /\ (p.test => w \in Conditions)
  BY <1>1, <1>2 DEF Placed
<1>4. SourceShows =
        CASE p.test \/ w = "VECTOR" -> [op |-> "cond", word |-> p.word]
          [] w = "S" /\ ~p.test -> [op |-> "S", word |-> p.word]
          [] w = "ONERR" /\ ~p.test -> [op |-> "onerr", word |-> p.word]
          [] w \in {"RETURN", "ENDP"} /\ ~p.test -> [op |-> "return", word |-> p.word]
          [] OTHER -> [op |-> "loops", word |-> 0]
  BY <1>1, <1>2 DEF SourceShows
<1>5. CASE p.test \/ w = "VECTOR"
  <2>1. SourceShows.op = "cond"
    BY <1>3, <1>4, <1>5 DEF Conditions
  <2> QED BY <1>1, <1>2, <1>3, <1>5, <2>1 DEF Placed, To
<1>6. CASE ~p.test /\ w # "VECTOR"
  <2>1. /\ SourceShows.op # "cond"
        /\ SourceShows.op = "S" => w = "S"
        /\ SourceShows.op = "onerr" => w = "ONERR"
    BY <1>3, <1>4, <1>6
  <2> QED BY <1>1, <1>2, <1>3, <2>1 DEF Placed, To
<1> QED BY <1>5, <1>6

-----------------------------------------------------------------------------
(* The back end: sizes and addresses are numbers.                          *)

\* What the p-code of the words ws is made of.
Ops == {"stmt", "label", "S", "return", "cond", "goto", "brfalse", "onerr", "vector"}
GoodItem(ws, i) ==
  /\ i.op \in Ops
  /\ i.op \in {"goto", "brfalse"} => 1 \in DOMAIN i.to
  /\ i.op = "onerr" => i.to = <<>> \/ 1 \in DOMAIN i.to
  /\ i.op = "vector" => /\ Len(i.to) \in Nat /\ i.word \in 1 .. Len(ws)
                        /\ ws[i.word].w = "VECTOR" /\ DOMAIN i.to = DOMAIN ws[i.word].ls
GoodCode(ws, code) == \A n \in DOMAIN code : GoodItem(ws, code[n])

LEMMA SizeIsNat == ASSUME NEW ws, NEW i, GoodItem(ws, i) PROVE Size(i) \in Nat
<1>1. CASE i.op = "stmt"
  BY <1>1 DEF Size
<1>2. CASE i.op = "label"
  BY <1>2 DEF Size
<1>3. CASE i.op \in {"S", "return"}
  BY <1>3 DEF Size
<1>4. CASE i.op = "cond"
  BY <1>4 DEF Size
<1>5. CASE i.op \in {"goto", "brfalse", "onerr"}
  BY <1>5 DEF Size
<1>6. CASE i.op = "vector"
  <2>1. Size(i) = 3 + 2 * Len(i.to) /\ Len(i.to) \in Nat
    BY <1>6 DEF Size, GoodItem
  <2> QED BY <2>1
<1> QED BY <1>1, <1>2, <1>3, <1>4, <1>5, <1>6 DEF GoodItem, Ops

\* The addresses of the items of a code, up to item n: the sizes before.
Summing(f, code, m) ==
  f = [k \in 1 .. m |-> IF k = 1 THEN 0 ELSE f[k - 1] + Size(code[k - 1])]

LEMMA SumExists == ASSUME NEW code, NEW m \in Nat PROVE \E f : Summing(f, code, m + 1)
<1> DEFINE T == {k \in Nat : ~\E f : Summing(f, code, k + 1)}
<1>1. SUFFICES ASSUME T # {} PROVE FALSE
  OBVIOUS
<1>2. PICK n \in T : \A k \in T : n <= k
  <2>1. T \in SUBSET Nat
    OBVIOUS
  <2> HIDE DEF T
  <2> QED BY <1>1, <2>1, SomeLeast
<1>3. CASE n = 0
  <2>1. PICK f : f = [k \in {1} |-> 0]
    OBVIOUS
  <2>2. 1 .. n + 1 = {1}
    BY <1>3
  <2>3. f = [k \in 1 .. n + 1 |-> IF k = 1 THEN 0 ELSE f[k - 1] + Size(code[k - 1])]
    BY <2>1, <2>2
  <2> QED BY <1>2, <2>3 DEF Summing
<1>4. CASE n # 0
  <2>1. PICK k \in Nat : n = k + 1
    BY <1>2, <1>4
  <2>2. PICK f : Summing(f, code, n)
    BY <1>2, <2>1
  <2>3. PICK g : g = [j \in 1 .. n + 1 |-> IF j = n + 1 THEN f[n] + Size(code[n]) ELSE f[j]]
    OBVIOUS
  <2>4. \A j \in 1 .. n : /\ g[j] = f[j]
                          /\ f[j] = IF j = 1 THEN 0 ELSE f[j - 1] + Size(code[j - 1])
    <3>1. \A j \in 1 .. n : f[j] = IF j = 1 THEN 0 ELSE f[j - 1] + Size(code[j - 1])
      BY <2>2 DEF Summing
    <3> QED BY <2>1, <2>3, <3>1
  <2>5. ASSUME NEW j \in 1 .. n + 1
        PROVE  g[j] = IF j = 1 THEN 0 ELSE g[j - 1] + Size(code[j - 1])
    <3>1. CASE j = n + 1
      <4>1. g[j] = f[n] + Size(code[n]) /\ j - 1 = n /\ g[n] = f[n] /\ j # 1
        BY <2>1, <2>3, <2>4, <3>1
      <4> QED BY <4>1
    <3>2. CASE j = 1
      BY <2>1, <2>4, <3>2
    <3>3. CASE j # n + 1 /\ j # 1
      <4>1. j \in 1 .. n /\ j - 1 \in 1 .. n
        BY <2>1, <3>3
      <4>2. g[j] = f[j] /\ f[j] = f[j - 1] + Size(code[j - 1]) /\ g[j - 1] = f[j - 1]
        BY <2>4, <3>3, <4>1
      <4> QED BY <3>3, <4>2
    <3> QED BY <3>1, <3>2, <3>3
  <2>6. g = [j \in 1 .. n + 1 |-> g[j]]
    BY <2>3
  <2>7. g = [j \in 1 .. n + 1 |-> IF j = 1 THEN 0 ELSE g[j - 1] + Size(code[j - 1])]
    BY <2>5, <2>6, Zenon
  <2> QED BY <1>2, <2>7 DEF Summing
<1> QED BY <1>3, <1>4

\* An item stands after those before it.
LEMMA AddressIs ==
  ASSUME NEW code, IsCode(code)
  PROVE  /\ Len(code) \in Nat /\ DOMAIN code = 1 .. Len(code)
         /\ AddressOf(code, 1) = 0
         /\ \A n \in DOMAIN code : AddressOf(code, n + 1) = AddressOf(code, n) + Size(code[n])
<1>1. Len(code) \in Nat /\ DOMAIN code = 1 .. Len(code)
  BY LenProperties DEF IsCode
<1>2. PICK l \in Nat : l = Len(code)
  BY <1>1
<1>3. PICK f : f = CHOOSE g : Summing(g, code, l + 1)
  OBVIOUS
<1>4. Summing(f, code, l + 1)
  BY <1>3, SumExists
<1>5. f = CHOOSE g : g = [k \in 1 .. Len(code) + 1 |-> IF k = 1 THEN 0 ELSE g[k - 1] + Size(code[k - 1])]
  BY <1>2, <1>3, Zenon DEF Summing
<1>6. \A n : AddressOf(code, n) = f[n]
  BY <1>5, Zenon DEF AddressOf
<1>7. \A n \in 1 .. l + 1 : f[n] = IF n = 1 THEN 0 ELSE f[n - 1] + Size(code[n - 1])
  BY <1>4 DEF Summing
<1>8. ASSUME NEW n \in 1 .. l PROVE f[n + 1] = f[n] + Size(code[n])
  <2>1. n + 1 \in 1 .. l + 1 /\ n + 1 # 1 /\ (n + 1) - 1 = n
    OBVIOUS
  <2> QED BY <1>7, <2>1
<1>9. f[1] = 0
  BY <1>7
<1> QED BY <1>1, <1>2, <1>6, <1>8, <1>9

LEMMA AddressIsNat ==
  ASSUME NEW ws, NEW code, IsCode(code), GoodCode(ws, code), NEW n \in 1 .. Len(code) + 1
  PROVE  AddressOf(code, n) \in Nat
<1>1. PICK l \in Nat : l = Len(code) /\ DOMAIN code = 1 .. l
  BY AddressIs
<1> DEFINE T == {k \in 1 .. l + 1 : AddressOf(code, k) \notin Nat}
<1>2. SUFFICES ASSUME T # {} PROVE FALSE
  BY <1>1
<1>3. PICK m \in T : \A k \in T : m <= k
  <2>1. T \in SUBSET Nat
    OBVIOUS
  <2> HIDE DEF T
  <2> QED BY <1>2, <2>1, SomeLeast
<1>4. m \in 1 .. l + 1 /\ AddressOf(code, m) \notin Nat
  BY <1>3
<1>5. m # 1
  BY <1>4, AddressIs
<1>6. PICK j \in 1 .. l : m = j + 1
  BY <1>4, <1>5
<1>7. AddressOf(code, j) \in Nat
  BY <1>3, <1>6
<1>8. Size(code[j]) \in Nat
  BY <1>1, SizeIsNat DEF GoodCode
<1>9. AddressOf(code, m) = AddressOf(code, j) + Size(code[j])
  BY <1>1, <1>6, AddressIs
<1> QED BY <1>4, <1>7, <1>8, <1>9

\* The q-code of the words ws.
GoodInstruction(ws, q) ==
  /\ q.at \in Nat /\ q.size \in Nat
  /\ \A k \in DOMAIN q.offsets : q.offsets[k] \in Int
  /\ q.op \in {"goto", "brfalse", "onerr"} => 1 \in DOMAIN q.offsets
  /\ q.op = "vector" => /\ q.word \in 1 .. Len(ws) /\ ws[q.word].w = "VECTOR"
                        /\ DOMAIN q.offsets = DOMAIN ws[q.word].ls
GoodQcode(ws, q) == IsFiniteSet(DOMAIN q) /\ \A k \in DOMAIN q : GoodInstruction(ws, q[k])

LEMMA InstructionGood ==
  ASSUME NEW ws, NEW code, IsCode(code), GoodCode(ws, code), ~Missing(code),
         NEW n \in DOMAIN code, Size(code[n]) > 0
  PROVE  GoodInstruction(ws, Instruction(code, n))
<1>1. PICK i : i = code[n]
  OBVIOUS
<1>2. GoodItem(ws, i) /\ Size(i) \in Nat /\ AddressOf(code, n) \in Nat
  <2>1. GoodItem(ws, i)
    BY <1>1 DEF GoodCode
  <2>2. Size(i) \in Nat
    BY <2>1, SizeIsNat
  <2>3. n \in 1 .. Len(code) + 1
    BY AddressIs
  <2>4. AddressOf(code, n) \in Nat
    BY <2>3, AddressIsNat
  <2> QED BY <2>1, <2>2, <2>4
<1>3. i.op # "label"
  <2> SUFFICES ASSUME i.op = "label" PROVE FALSE
    OBVIOUS
  <2>1. Size(i) = 0
    BY DEF Size
  <2> QED BY <1>1, <2>1
<1>4. PICK base \in Nat : base = AddressOf(code, n)
  BY <1>2
<1>5. ASSUME NEW k \in DOMAIN i.to PROVE Patch16(LabelAddress(code, i.to[k]) - base) \in Int
  <2>1. NamedIn(code, i.to[k])
    BY <1>1, <1>3 DEF NamedIn, Names
  <2>2. DefinedIn(code, i.to[k])
    BY <2>1, MissingIs
  <2>3. LabelAddress(code, i.to[k]) \in Nat
    <3>1. PICK m : m = CHOOSE j \in DOMAIN code : code[j].op = "label" /\ code[j].to = <<i.to[k]>>
      OBVIOUS
    <3>2. m \in DOMAIN code
      BY <2>2, <3>1, Zenon DEF DefinedIn, Defines
    <3>3. AddressOf(code, m) \in Nat
      BY <3>2, AddressIs, AddressIsNat
    <3> QED BY <3>1, <3>3, Zenon DEF LabelAddress
  <2>4. PICK d \in Int : d = LabelAddress(code, i.to[k]) - base
    BY <2>3
  <2>5. (d + Reach) % (2 * Reach) \in Int
    BY ReachAssumption
  <2> QED BY <2>4, <2>5, ReachAssumption DEF Patch16
<1>6. PICK q : q = Instruction(code, n)
  OBVIOUS
<1>7. q = [at |-> base, size |-> Size(i), op |-> i.op, word |-> i.word,
           offsets |-> IF i.op = "onerr" /\ i.to = <<>> THEN <<0>>
                       ELSE [k \in DOMAIN i.to |-> Patch16(LabelAddress(code, i.to[k]) - base)]]
  BY <1>1, <1>4, <1>6, Zenon DEF Instruction
<1>8. q.at \in Nat /\ q.size \in Nat /\ q.op = i.op /\ q.word = i.word
  BY <1>2, <1>7
<1>9. CASE i.op = "onerr" /\ i.to = <<>>
  <2>1. q.offsets = <<0>>
    BY <1>7, <1>9
  <2>2. DOMAIN q.offsets = {1} /\ q.offsets[1] = 0
    BY <2>1
  <2> QED BY <1>6, <1>8, <1>9, <2>2 DEF GoodInstruction
<1>10. CASE ~(i.op = "onerr" /\ i.to = <<>>)
  <2>1. PICK o : o = [k \in DOMAIN i.to |-> Patch16(LabelAddress(code, i.to[k]) - base)]
    OBVIOUS
  <2>2. q.offsets = o
    BY <1>7, <1>10, <2>1, Zenon
  <2>3. DOMAIN o = DOMAIN i.to /\ \A k \in DOMAIN o : o[k] \in Int
    BY <1>5, <2>1
  <2> QED BY <1>2, <1>6, <1>8, <1>10, <2>2, <2>3 DEF GoodInstruction, GoodItem
<1> QED BY <1>9, <1>10

LEMMA ConvertedGood ==
  ASSUME NEW ws, NEW code, IsCode(code), GoodCode(ws, code), ~Missing(code)
  PROVE  GoodQcode(ws, ConvertPcode(code))
<1>1. PICK S : code \in Seq(S)
  BY DEF IsCode
<1>2. IsFiniteSet(DOMAIN code)
  <2>1. PICK l \in Nat : l = Len(code) /\ DOMAIN code = 1 .. l
    BY <1>1, LenProperties
  <2> QED BY <2>1, FS_Interval
<1>3. PICK N : N = {m \in DOMAIN code : Size(code[m]) > 0}
  OBVIOUS
<1>4. N \subseteq DOMAIN code /\ ConvertPcode(code) = [n \in N |-> Instruction(code, n)]
  BY <1>3, Zenon DEF ConvertPcode
<1>5. IsFiniteSet(N)
  BY <1>2, <1>4, FS_Subset
<1>6. \A n \in N : GoodInstruction(ws, Instruction(code, n))
  BY <1>3, InstructionGood
<1> QED BY <1>4, <1>5, <1>6, Zenon DEF GoodQcode

-----------------------------------------------------------------------------
(* What comes next in the code.                                            *)
LEMMA InstructionFound ==
  ASSUME NEW ws, GoodQcode(ws, qcode), NEW a, InstructionAt(a).op # "astray"
  PROVE  GoodInstruction(ws, InstructionAt(a))
<1>1. CASE \E k \in DOMAIN qcode : qcode[k].at = a
  <2>1. PICK k \in DOMAIN qcode : InstructionAt(a) = qcode[k]
    BY <1>1 DEF InstructionAt
  <2> QED BY <2>1 DEF GoodQcode
<1>2. CASE ~\E k \in DOMAIN qcode : qcode[k].at = a
  <2>1. InstructionAt(a) = Nowhere
    BY <1>2 DEF InstructionAt
  <2> QED BY <2>1 DEF Nowhere
<1> QED BY <1>1, <1>2

LEMMA CodeStepIsInt ==
  ASSUME NEW ws, GoodQcode(ws, qcode), NEW a \in Int
  PROVE  CodeStep(a) \in Int
<1>1. PICK i : i = InstructionAt(a)
  OBVIOUS
<1>2. CASE i.op = "stmt"
  <2>1. CodeStep(a) = a + i.size /\ i.size \in Nat
    BY <1>1, <1>2, InstructionFound DEF CodeStep, GoodInstruction
  <2> QED BY <2>1
<1>3. CASE i.op = "goto"
  <2>1. CodeStep(a) = i.at + i.offsets[1]
    BY <1>1, <1>3 DEF CodeStep, DoGoto
  <2>2. GoodInstruction(ws, i)
    BY <1>1, <1>3, InstructionFound
  <2>3. i.at \in Nat /\ i.offsets[1] \in Int
    BY <1>3, <2>2 DEF GoodInstruction
  <2> QED BY <2>1, <2>3
<1>4. CASE i.op \notin {"stmt", "goto"}
  <2>1. CodeStep(a) = a
    BY <1>1, <1>4 DEF CodeStep
  <2> QED BY <2>1
<1> QED BY <1>2, <1>3, <1>4

\* The addresses of the code from ip.
CodeWalk(f, m) ==
  f = [n \in 0 .. m |-> IF n = 0 THEN ip ELSE CodeStep(f[n - 1])]

LEMMA CodeWalkExists == ASSUME NEW m \in Nat PROVE \E f : CodeWalk(f, m)
<1> DEFINE T == {k \in Nat : ~\E f : CodeWalk(f, k)}
<1>1. SUFFICES ASSUME T # {} PROVE FALSE
  OBVIOUS
<1>2. PICK n \in T : \A k \in T : n <= k
  <2>1. T \in SUBSET Nat
    OBVIOUS
  <2> HIDE DEF T
  <2> QED BY <1>1, <2>1, SomeLeast
<1>3. CASE n = 0
  <2>1. PICK f : f = [k \in {0} |-> ip]
    OBVIOUS
  <2>2. 0 .. 0 = {0}
    OBVIOUS
  <2>3. f = [k \in 0 .. 0 |-> IF k = 0 THEN ip ELSE CodeStep(f[k - 1])]
    BY <2>1, <2>2
  <2> QED BY <1>2, <1>3, <2>3 DEF CodeWalk
<1>4. CASE n # 0
  <2>1. PICK k \in Nat : n = k + 1
    BY <1>2, <1>4
  <2>2. PICK f : CodeWalk(f, k)
    BY <1>2, <2>1
  <2>3. PICK g : g = [j \in 0 .. n |-> IF j = n THEN CodeStep(f[k]) ELSE f[j]]
    OBVIOUS
  <2>4. \A j \in 0 .. k : g[j] = f[j] /\ f[j] = IF j = 0 THEN ip ELSE CodeStep(f[j - 1])
    <3>1. \A j \in 0 .. k : f[j] = IF j = 0 THEN ip ELSE CodeStep(f[j - 1])
      BY <2>2 DEF CodeWalk
    <3> QED BY <2>1, <2>3, <3>1
  <2>5. ASSUME NEW j \in 0 .. n
        PROVE  g[j] = IF j = 0 THEN ip ELSE CodeStep(g[j - 1])
    <3>1. CASE j = n
      <4>1. g[j] = CodeStep(f[k]) /\ j - 1 = k /\ g[k] = f[k]
        BY <2>1, <2>3, <2>4, <3>1
      <4> QED BY <1>4, <3>1, <4>1
    <3>2. CASE j = 0
      BY <2>1, <2>4, <3>2
    <3>3. CASE j # n /\ j # 0
      <4>1. j \in 0 .. k /\ j - 1 \in 0 .. k
        BY <2>1, <3>3
      <4>2. g[j] = f[j] /\ f[j] = CodeStep(f[j - 1]) /\ g[j - 1] = f[j - 1]
        BY <2>4, <3>3, <4>1
      <4> QED BY <3>3, <4>2
    <3> QED BY <3>1, <3>2, <3>3
  <2>6. g = [j \in 0 .. n |-> g[j]]
    BY <2>3
  <2>7. g = [j \in 0 .. n |-> IF j = 0 THEN ip ELSE CodeStep(g[j - 1])]
    BY <2>5, <2>6, Zenon
  <2> QED BY <1>2, <2>7 DEF CodeWalk
<1> QED BY <1>3, <1>4

LEMMA CodeNowIsInt ==
  ASSUME NEW ws, GoodQcode(ws, qcode), ip \in Int
  PROVE  CodeNow \in Int
<1>1. PICK m \in Nat : m = Cardinality(DOMAIN qcode)
  BY FS_CardinalityType DEF GoodQcode
<1>2. PICK f : f = CHOOSE g : CodeWalk(g, m)
  OBVIOUS
<1>3. CodeWalk(f, m)
  BY <1>2, CodeWalkExists
<1>4. CodeNow = f[m]
  BY <1>1, <1>2, Zenon DEF CodeNow, CodeWalk
<1>5. \A n \in 0 .. m : f[n] = IF n = 0 THEN ip ELSE CodeStep(f[n - 1])
  BY <1>3 DEF CodeWalk
<1> DEFINE T == {k \in 0 .. m : f[k] \notin Int}
<1>6. T = {}
  <2> SUFFICES ASSUME T # {} PROVE FALSE
    OBVIOUS
  <2>1. PICK n \in T : \A k \in T : n <= k
    <3>1. T \in SUBSET Nat
      OBVIOUS
    <3> HIDE DEF T
    <3> QED BY <3>1, SomeLeast
  <2>2. n # 0
    BY <1>5, <2>1
  <2>3. n - 1 \in 0 .. m /\ n - 1 \notin T
    BY <2>1, <2>2
  <2>4. f[n - 1] \in Int /\ f[n] = CodeStep(f[n - 1])
    BY <1>5, <2>1, <2>2, <2>3
  <2> QED BY <2>1, <2>4, CodeStepIsInt
<1> QED BY <1>4, <1>6

-----------------------------------------------------------------------------
(* The items each word gives.                                              *)
ItemOf(wd, i) ==
  /\ i.op \in Ops /\ i.word = Len(words) + 1
  /\ i.op \in {"goto", "brfalse"} => 1 \in DOMAIN i.to
  /\ i.op = "onerr" => i.to = <<>> \/ 1 \in DOMAIN i.to
  /\ i.op = "vector" => Len(i.to) \in Nat /\ wd.w = "VECTOR" /\ DOMAIN i.to = DOMAIN wd.ls
ItemsOf(wd, c) == IsCode(c) /\ \A n \in DOMAIN c : ItemOf(wd, c[n])

LEMMA ItemsAfter ==
  ASSUME NEW wd, NEW c, NEW d, ItemsOf(wd, c), ItemsOf(wd, d)
  PROVE  ItemsOf(wd, c \o d)
<1>1. IsCode(c) /\ IsCode(d) /\ IsCode(c \o d)
  BY CodeAfter DEF ItemsOf
<1>2. PICK S, T : c \in Seq(S) /\ d \in Seq(T)
  BY <1>1 DEF IsCode
<1>3. c \in Seq(S \cup T) /\ d \in Seq(S \cup T)
  BY <1>2, WiderSeq
<1>4. PICK m, n \in Nat : m = Len(c) /\ n = Len(d)
  BY <1>3, LenProperties
<1>5. PICK e : e = c \o d
  OBVIOUS
<1>6. /\ e \in Seq(S \cup T) /\ Len(e) = m + n
      /\ \A i \in 1 .. m + n : e[i] = IF i <= m THEN c[i] ELSE d[i - m]
  BY <1>3, <1>4, <1>5, ConcatProperties
<1>7. DOMAIN e = 1 .. m + n /\ DOMAIN c = 1 .. m /\ DOMAIN d = 1 .. n
  BY <1>3, <1>4, <1>6, LenProperties
<1>8. ASSUME NEW i \in DOMAIN e PROVE ItemOf(wd, e[i])
  <2>1. CASE i <= m
    BY <1>6, <1>7, <2>1 DEF ItemsOf
  <2>2. CASE i > m
    <3>1. i - m \in DOMAIN d /\ e[i] = d[i - m]
      BY <1>6, <1>7, <2>2
    <3> QED BY <3>1 DEF ItemsOf
  <2> QED BY <1>7, <2>1, <2>2
<1> QED BY <1>1, <1>5, <1>8 DEF ItemsOf

LEMMA ItemsOfOne == ASSUME NEW wd, NEW i, ItemOf(wd, i) PROVE ItemsOf(wd, <<i>>)
<1>1. IsCode(<<i>>) /\ DOMAIN <<i>> = {1} /\ <<i>>[1] = i
  BY CodeOfOne
<1> QED BY <1>1 DEF ItemsOf

\* Items that name nothing, one label, or the labels of the word.
LEMMA PlainItem ==
  ASSUME NEW wd, NEW op \in {"stmt", "label", "S", "return", "cond"}, NEW to
  PROVE  ItemOf(wd, Item(op, to))
BY DEF ItemOf, Item, Ops

LEMMA JumpItem ==
  ASSUME NEW wd, NEW op \in {"goto", "brfalse"}, NEW a
  PROVE  ItemOf(wd, Item(op, <<a>>))
<1>1. 1 \in DOMAIN <<a>>
  OBVIOUS
<1> QED BY <1>1 DEF ItemOf, Item, Ops

LEMMA LabelsItem ==
  ASSUME NEW wd \in Word, NEW op,
         <<op, wd.w>> \in {<<"goto", "GOTO">>, <<"onerr", "ONERR">>, <<"vector", "VECTOR">>}
  PROVE  ItemOf(wd, Item(op, LabelsOf(wd)))
<1>1. PICK ls : ls = LabelsOf(wd)
  OBVIOUS
<1>2. ls = [i \in DOMAIN wd.ls |-> UserLabel(wd.ls[i])] /\ DOMAIN ls = DOMAIN wd.ls
  BY <1>1 DEF LabelsOf
<1>3. wd.ls \in Seq(Labels)
  <2>1. wd.ls \in Seq(Labels) \/ wd.ls = <<>> \/ (\E l \in Labels : wd.ls = <<l>>)
    BY DEF Word
  <2>2. <<>> \in Seq(Labels) /\ \A l \in Labels : <<l>> \in Seq(Labels)
    OBVIOUS
  <2> QED BY <2>1, <2>2
<1>4. PICK l \in Nat : DOMAIN ls = 1 .. l /\ Len(wd.ls) = l
  BY <1>2, <1>3, LenProperties
<1>5. PICK S : S = {UserLabel(wd.ls[i]) : i \in 1 .. l}
  OBVIOUS
<1>6. ls \in [1 .. l -> S]
  BY <1>2, <1>4, <1>5
<1>7. ls \in Seq(S)
  BY <1>6, SeqDef
<1>8. Len(ls) = l
  BY <1>4, <1>7, LenProperties
<1>9. wd.w = "GOTO" => 1 \in DOMAIN ls
  <2> HAVE wd.w = "GOTO"
  <2>1. PICK x : wd.ls = <<x>>
    BY DEF Word, Plain
  <2> QED BY <1>2, <2>1
<1>10. wd.w = "ONERR" => ls = <<>> \/ 1 \in DOMAIN ls
  <2> HAVE wd.w = "ONERR"
  <2>1. l = 0 => ls = <<>>
    BY <1>7, <1>8, EmptySeq
  <2> QED BY <1>4, <2>1
<1> QED BY <1>1, <1>2, <1>4, <1>8, <1>9, <1>10 DEF ItemOf, Item, Ops

LEMMA ConditionItems == ASSUME NEW wd, NEW b PROVE ItemsOf(wd, ConditionalExpression(b))
<1>1. ItemOf(wd, Item("cond", <<>>)) /\ ItemOf(wd, DoBranch(b, "EFalse", "brfalse"))
  BY PlainItem, JumpItem DEF DoBranch
<1>2. PICK i, j : i = Item("cond", <<>>) /\ j = DoBranch(b, "EFalse", "brfalse")
  OBVIOUS
<1>3. IsCode(<<i, j>>) /\ DOMAIN <<i, j>> = {1, 2} /\ <<i, j>>[1] = i /\ <<i, j>>[2] = j
  BY CodeOfTwo
<1> QED BY <1>1, <1>2, <1>3 DEF ItemsOf, ConditionalExpression

LEMMA BranchItems ==
  ASSUME NEW wd, NEW b, NEW kind
  PROVE  /\ ItemsOf(wd, <<Statement>>) /\ ItemsOf(wd, <<SetBranch(b, kind)>>)
         /\ ItemsOf(wd, <<DoBranch(b, kind, "goto")>>)
<1>1. /\ ItemOf(wd, Statement) /\ ItemOf(wd, SetBranch(b, kind))
      /\ ItemOf(wd, DoBranch(b, kind, "goto"))
  BY PlainItem, JumpItem DEF Statement, SetBranch, DoBranch
<1> QED BY <1>1, ItemsOfOne

\* Each word's items, statement by statement.
LEMMA SimpleItems ==
  ASSUME NEW wd \in Word, wd.w \in {"S", "EOS", "RETURN", "GOTO", "ONERR", "BREAK", "CONTINUE"}
  PROVE  ItemsOf(wd, <<Statement>> \o Simple(wd))
<1>1. ItemsOf(wd, Simple(wd))
  <2>1. CASE wd.w = "S"
    <3>1. Simple(wd) = <<Item("S", <<>>)>>
      BY <2>1 DEF Simple
    <3> QED BY <3>1, PlainItem, ItemsOfOne
  <2>2. CASE wd.w = "EOS"
    <3>1. Simple(wd) = <<>>
      BY <2>2 DEF Simple
    <3>2. IsCode(<<>>) /\ DOMAIN <<>> = {}
      BY NoCode
    <3> QED BY <3>1, <3>2 DEF ItemsOf
  <2>3. CASE wd.w = "RETURN"
    <3>1. Simple(wd) = <<Item("return", <<>>)>>
      BY <2>3 DEF Simple
    <3> QED BY <3>1, PlainItem, ItemsOfOne
  <2>4. CASE wd.w = "GOTO"
    <3>1. Simple(wd) = <<Item("goto", LabelsOf(wd))>>
      BY <2>4 DEF Simple
    <3>2. ItemOf(wd, Item("goto", LabelsOf(wd)))
      BY <2>4, LabelsItem
    <3> QED BY <3>1, <3>2, ItemsOfOne
  <2>5. CASE wd.w = "ONERR"
    <3>1. Simple(wd) = <<Item("onerr", LabelsOf(wd))>>
      BY <2>5 DEF Simple
    <3>2. ItemOf(wd, Item("onerr", LabelsOf(wd)))
      BY <2>5, LabelsItem
    <3> QED BY <3>1, <3>2, ItemsOfOne
  <2>6. CASE wd.w = "BREAK"
    <3>1. Simple(wd) = <<DoBranch(iBranches, "EBreak", "goto")>>
      BY <2>6 DEF Simple
    <3> QED BY <3>1, BranchItems
  <2>7. CASE wd.w = "CONTINUE"
    <3>1. Simple(wd) = <<DoBranch(iBranches, "EContinue", "goto")>>
      BY <2>7 DEF Simple
    <3> QED BY <3>1, BranchItems
  <2> QED BY <2>1, <2>2, <2>3, <2>4, <2>5, <2>6, <2>7
<1> QED BY <1>1, BranchItems, ItemsAfter

LEMMA VectorItems ==
  ASSUME NEW wd \in Word, wd.w = "VECTOR"
  PROVE  ItemsOf(wd, <<Statement, Item("cond", <<>>), Item("vector", LabelsOf(wd))>>)
<1>1. PICK i, j, k : i = Statement /\ j = Item("cond", <<>>) /\ k = Item("vector", LabelsOf(wd))
  OBVIOUS
<1>2. ItemOf(wd, i) /\ ItemOf(wd, j)
  BY <1>1, PlainItem DEF Statement
<1>3. ItemOf(wd, k)
  <2>1. ItemOf(wd, Item("vector", LabelsOf(wd)))
    BY LabelsItem
  <2> QED BY <1>1, <2>1
<1>4. /\ IsCode(<<i, j, k>>) /\ DOMAIN <<i, j, k>> = {1, 2, 3}
      /\ <<i, j, k>>[1] = i /\ <<i, j, k>>[2] = j /\ <<i, j, k>>[3] = k
  BY CodeOfThree
<1> QED BY <1>1, <1>2, <1>3, <1>4 DEF ItemsOf

LEMMA OpenItems ==
  ASSUME NEW wd, wd.w \in {"IF", "DO", "WHILE"}, NEW b
  PROVE  ItemsOf(wd, <<Statement>> \o OpeningCode(wd, b))
<1>1. ItemsOf(wd, OpeningCode(wd, b))
  <2>1. CASE wd.w = "IF"
    <3>1. OpeningCode(wd, b) = ConditionalExpression(b)
      BY <2>1 DEF OpeningCode
    <3> QED BY <3>1, ConditionItems
  <2>2. CASE wd.w = "DO"
    <3>1. OpeningCode(wd, b) = <<SetBranch(b, "EFalse")>>
      BY <2>2 DEF OpeningCode
    <3> QED BY <3>1, BranchItems
  <2>3. CASE wd.w = "WHILE"
    <3>1. OpeningCode(wd, b) = <<SetBranch(b, "EContinue")>> \o ConditionalExpression(b)
      BY <2>3 DEF OpeningCode
    <3> QED BY <3>1, BranchItems, ConditionItems, ItemsAfter
  <2> QED BY <2>1, <2>2, <2>3
<1> QED BY <1>1, BranchItems, ItemsAfter

LEMMA LeaveItems ==
  ASSUME NEW wd, NEW b, NEW k1, NEW k2
  PROVE  ItemsOf(wd, <<DoBranch(b, k1, "goto"), SetBranch(b, k2)>>)
<1>1. ItemOf(wd, DoBranch(b, k1, "goto")) /\ ItemOf(wd, SetBranch(b, k2))
  BY PlainItem, JumpItem DEF DoBranch, SetBranch
<1>2. PICK i, j : i = DoBranch(b, k1, "goto") /\ j = SetBranch(b, k2)
  OBVIOUS
<1>3. IsCode(<<i, j>>) /\ DOMAIN <<i, j>> = {1, 2} /\ <<i, j>>[1] = i /\ <<i, j>>[2] = j
  BY CodeOfTwo
<1> QED BY <1>1, <1>2, <1>3 DEF ItemsOf

LEMMA CloseItems ==
  ASSUME NEW wd, wd.w \in {"ENDIF", "UNTIL", "ENDWH"}, NEW b
  PROVE  ItemsOf(wd, ClosingCode(wd, b))
<1>1. CASE wd.w = "ENDIF"
  <2>1. PICK c : c = IF Last(frames).kind = "ELSE" THEN <<>> ELSE <<SetBranch(b, "EFalse")>>
    OBVIOUS
  <2>2. ClosingCode(wd, b) = c \o <<SetBranch(b, "EExit")>>
    BY <1>1, <2>1 DEF ClosingCode
  <2>3. IsCode(<<>>) /\ DOMAIN <<>> = {}
    BY NoCode
  <2>4. ItemsOf(wd, <<>>) /\ ItemsOf(wd, <<SetBranch(b, "EFalse")>>)
    BY <2>3, BranchItems DEF ItemsOf
  <2>5. ItemsOf(wd, c)
    BY <2>1, <2>4
  <2> QED BY <2>2, <2>5, BranchItems, ItemsAfter
<1>2. CASE wd.w = "UNTIL"
  <2>1. PICK c, d, e : /\ c = <<SetBranch(b, "EContinue")>> /\ d = ConditionalExpression(b)
                       /\ e = <<SetBranch(b, "EBreak")>>
    OBVIOUS
  <2>2. ItemsOf(wd, c) /\ ItemsOf(wd, d) /\ ItemsOf(wd, e)
    BY <2>1, BranchItems, ConditionItems
  <2>3. ClosingCode(wd, b) = c \o d \o e
    BY <1>2, <2>1 DEF ClosingCode
  <2>4. ItemsOf(wd, c \o d)
    BY <2>2, ItemsAfter
  <2> QED BY <2>2, <2>3, <2>4, ItemsAfter
<1>3. CASE wd.w = "ENDWH"
  <2>1. PICK i, j, k : i = DoBranch(b, "EContinue", "goto") /\ j = SetBranch(b, "EBreak")
                       /\ k = SetBranch(b, "EFalse")
    OBVIOUS
  <2>2. ItemOf(wd, i) /\ ItemOf(wd, j) /\ ItemOf(wd, k)
    BY <2>1, PlainItem, JumpItem DEF DoBranch, SetBranch
  <2>3. /\ IsCode(<<i, j, k>>) /\ DOMAIN <<i, j, k>> = {1, 2, 3}
        /\ <<i, j, k>>[1] = i /\ <<i, j, k>>[2] = j /\ <<i, j, k>>[3] = k
    BY CodeOfThree
  <2>4. ClosingCode(wd, b) = <<i, j, k>>
    BY <1>3, <2>1 DEF ClosingCode
  <2> QED BY <2>2, <2>3, <2>4 DEF ItemsOf
<1> QED BY <1>1, <1>2, <1>3

\* The p-code of one word more.
LEMMA NextGood ==
  ASSUME words \in Seq(Word), IsCode(iCode), GoodCode(words, iCode), NEW wd \in Word,
         words' = Append(words, wd), NEW items, ItemsOf(wd, items)
  PROVE  IsCode(iCode \o items) /\ GoodCode(words', iCode \o items)
<1>1. IsCode(items) /\ IsCode(iCode \o items)
  BY CodeAfter DEF ItemsOf
<1>2. PICK S, T : iCode \in Seq(S) /\ items \in Seq(T)
  BY <1>1 DEF IsCode
<1>3. iCode \in Seq(S \cup T) /\ items \in Seq(S \cup T)
  BY <1>2, WiderSeq
<1>4. PICK m, n \in Nat : m = Len(iCode) /\ n = Len(items)
  BY <1>3, LenProperties
<1>5. PICK e : e = iCode \o items
  OBVIOUS
<1>6. /\ e \in Seq(S \cup T) /\ Len(e) = m + n
      /\ \A i \in 1 .. m + n : e[i] = IF i <= m THEN iCode[i] ELSE items[i - m]
  BY <1>3, <1>4, <1>5, ConcatProperties
<1>7. DOMAIN e = 1 .. m + n /\ DOMAIN iCode = 1 .. m /\ DOMAIN items = 1 .. n
  BY <1>3, <1>4, <1>6, LenProperties
<1>8. PICK l \in Nat : l = Len(words) /\ Len(words') = l + 1 /\ words'[l + 1] = wd
                       /\ \A k \in 1 .. l : words'[k] = words[k]
  BY Appended
<1>9. ASSUME NEW i, GoodItem(words, i) PROVE GoodItem(words', i)
  <2>1. CASE i.op = "vector"
    <3>1. i.word \in 1 .. l
      BY <1>8, <1>9, <2>1 DEF GoodItem
    <3>2. i.word \in 1 .. Len(words') /\ words'[i.word] = words[i.word]
      BY <1>8, <3>1
    <3> QED BY <1>9, <3>2 DEF GoodItem
  <2>2. CASE i.op # "vector"
    BY <1>9, <2>2 DEF GoodItem
  <2> QED BY <2>1, <2>2
<1>10. ASSUME NEW i, ItemOf(wd, i) PROVE GoodItem(words', i)
  <2>1. i.word = l + 1 /\ i.word \in 1 .. Len(words') /\ words'[i.word] = wd
    BY <1>8, <1>10 DEF ItemOf
  <2> QED BY <1>10, <2>1 DEF ItemOf, GoodItem
<1>11. ASSUME NEW i \in DOMAIN e PROVE GoodItem(words', e[i])
  <2>1. CASE i <= m
    <3>1. i \in DOMAIN iCode /\ e[i] = iCode[i]
      BY <1>6, <1>7, <2>1
    <3> QED BY <1>9, <3>1 DEF GoodCode
  <2>2. CASE i > m
    <3>1. i - m \in DOMAIN items /\ e[i] = items[i - m]
      BY <1>6, <1>7, <2>2
    <3> QED BY <1>10, <3>1 DEF ItemsOf
  <2> QED BY <1>7, <2>1, <2>2
<1> QED BY <1>1, <1>5, <1>11 DEF GoodCode

\* A word that the parser takes, but ENDP.
LEMMA WordGood ==
  ASSUME Parsing, GoodCode(words, iCode), NEW wd \in Word, phase = "parse", phase' = "parse",
         \/ ParseLabel(wd) \/ ParseSimple(wd) \/ ParseVector(wd) \/ ParseOpen(wd)
         \/ ParseClause(wd) \/ ParseClose(wd) \/ ParseMisplaced(wd) \/ ParseEndP(wd)
  PROVE  GoodCode(words', iCode') /\ UNCHANGED <<qcode, running>>
<1>1. words \in Seq(Word) /\ IsCode(iCode)
  BY ParsingTypes DEF Parsing, Branched
<1>2. ~Fail(wd)
  BY DEF Fail
<1>3. SUFFICES ASSUME NEW items, NEW b, Emit(wd, b, items), ItemsOf(wd, items)
               PROVE  GoodCode(words', iCode') /\ UNCHANGED <<qcode, running>>
  <2>1. CASE ParseLabel(wd)
    <3>1. PICK l : Emit(wd, iBranches, <<Item("label", <<l>>)>>)
      BY <1>2, <2>1, Zenon DEF ParseLabel
    <3>2. ItemsOf(wd, <<Item("label", <<l>>)>>)
      BY PlainItem, ItemsOfOne
    <3> QED BY <1>3, <3>1, <3>2
  <2>2. CASE ParseSimple(wd)
    <3>1. /\ wd.w \in {"S", "EOS", "RETURN", "GOTO", "ONERR", "BREAK", "CONTINUE"}
          /\ Emit(wd, iBranches, <<Statement>> \o Simple(wd))
      BY <1>2, <2>2, Zenon DEF ParseSimple
    <3> QED BY <1>3, <3>1, SimpleItems
  <2>3. CASE ParseVector(wd)
    <3>1. /\ wd.w = "VECTOR"
          /\ Emit(wd, iBranches, <<Statement, Item("cond", <<>>), Item("vector", LabelsOf(wd))>>)
      BY <1>2, <2>3, Zenon DEF ParseVector
    <3> QED BY <1>3, <3>1, VectorItems
  <2>4. CASE ParseOpen(wd)
    <3>1. /\ wd.w \in {"IF", "DO", "WHILE"}
          /\ Emit(wd, Opened(wd), <<Statement>> \o OpeningCode(wd, Opened(wd)))
      BY <1>2, <2>4, Zenon DEF ParseOpen
    <3> QED BY <1>3, <3>1, OpenItems
  <2>5. CASE ParseClause(wd)
    <3>1. PICK leave : leave = <<DoBranch(iBranches, "EExit", "goto"), SetBranch(iBranches, "EFalse")>>
      OBVIOUS
    <3>2. PICK c : c = NeedBranch(iBranches, "EFalse")
      OBVIOUS
    <3>3. \/ Emit(wd, c, leave \o ConditionalExpression(c))
          \/ Emit(wd, iBranches, leave)
      BY <2>5, <3>1, <3>2, Zenon DEF ParseClause
    <3>4. ItemsOf(wd, leave) /\ ItemsOf(wd, leave \o ConditionalExpression(c))
      BY <3>1, LeaveItems, ConditionItems, ItemsAfter
    <3> QED BY <1>3, <3>3, <3>4
  <2>6. CASE ParseClose(wd)
    <3>1. wd.w \in {"ENDIF", "UNTIL", "ENDWH"} /\ \E b : Emit(wd, b, ClosingCode(wd, iBranches))
      BY <2>6, Zenon DEF ParseClose
    <3> QED BY <1>3, <3>1, CloseItems
  <2>7. CASE ParseMisplaced(wd)
    BY <1>2, <2>7 DEF ParseMisplaced
  <2>8. CASE ParseEndP(wd)
    <3>1. phase' = "failed" \/ phase' = "run"
      BY <2>8 DEF ParseEndP, Fail
    <3> QED BY <3>1
  <2> QED BY <2>1, <2>2, <2>3, <2>4, <2>5, <2>6, <2>7, <2>8
<1>4. words' = Append(words, wd) /\ iCode' = iCode \o items /\ UNCHANGED <<qcode, running>>
  BY <1>3 DEF Emit
<1> QED BY <1>1, <1>3, <1>4, NextGood

-----------------------------------------------------------------------------
(* The types of the whole state.                                           *)
Entered ==
  /\ Whole(words) /\ GoodQcode(words, qcode)
  /\ Placed(at) /\ handler \in 0 .. Len(words)

StInv ==
  /\ Accepting
  /\ frames \in Activations /\ iBranches \in Branches /\ iLastWasReturn \in BOOLEAN
  /\ phase = "parse" => GoodCode(words, iCode)
  /\ ip \in Int /\ iOnErrIP \in Int /\ at \in [word : Nat, test : BOOLEAN] /\ handler \in Nat
  /\ phase \in {"run", "ended"} => Entered

LEMMA StInvStart == Init => StInv
<1> SUFFICES ASSUME Init PROVE StInv
  OBVIOUS
<1>1. Accepting
  BY AcceptingStart
<1>2. phase = "parse" /\ iCode = <<>> /\ iLastWasReturn = FALSE /\ ip = 0 /\ iOnErrIP = None
      /\ at = To(1) /\ handler = 0
  BY DEF Init
<1>3. frames \in Activations /\ iBranches \in Branches
  BY <1>1, <1>2, ParsingTypes DEF Accepting
<1>4. GoodCode(words, iCode)
  BY <1>2, NoCode DEF GoodCode
<1>5. None \in Int /\ To(1) \in [word : Nat, test : BOOLEAN]
  BY DEF None, To
<1>6. ip \in Int /\ iOnErrIP \in Int /\ handler \in Nat /\ at \in [word : Nat, test : BOOLEAN]
  BY <1>2, <1>5
<1>7. ~(phase \in {"run", "ended"}) /\ iLastWasReturn \in BOOLEAN
  BY <1>2
<1> QED BY <1>1, <1>3, <1>4, <1>6, <1>7, Zenon DEF StInv

\* What a step of the run leaves alone, and where it may go.
LEMMA EnteredKept ==
  ASSUME Entered, words' = words, qcode' = qcode, Placed(at'), handler' \in 0 .. Len(words)
  PROVE  Entered'
<1>1. Placed(at)'
  BY DEF Placed
<1> QED BY <1>1 DEF Entered

LEMMA StatementTyped ==
  ASSUME Entered, ip \in Int, iOnErrIP \in Int, RunStatement
  PROVE  ip' \in Int /\ iOnErrIP' \in Int /\ Entered'
<1>1. /\ Whole(words) /\ GoodQcode(words, qcode) /\ Placed(at) /\ handler \in 0 .. Len(words)
      /\ Len(words) \in Nat
  BY DEF Entered, Whole
<1>2. Placed(SourceNow) /\ CodeNow \in Int
  BY <1>1, SourceNowPlaced, CodeNowIsInt
<1>3. PICK n : n = SourceNow.word
  OBVIOUS
<1>4. n \in 1 .. Len(words) /\ words[n].w = "S"
  <2>1. SourceShows.op = "S"
    BY DEF RunStatement, Runs
  <2> QED BY <1>1, <1>2, <1>3, <2>1, ShownWord
<1>5. Placed(To(n + 1))
  BY <1>1, <1>4, PlaceAfter
<1>6. /\ words' = words /\ qcode' = qcode /\ iOnErrIP' = iOnErrIP /\ handler' = handler
  BY DEF RunStatement, StepDone, source
<1>7. \/ ip' = CodeNow + 1 /\ at' = To(n + 1)
      \/ ip' = iOnErrIP /\ at' = (IF handler = 0 THEN SourceNow ELSE To(handler))
      \/ ip' = ip /\ at' = at
  BY <1>3 DEF RunStatement, Goes
<1>8. ip' \in Int
  BY <1>2, <1>7
<1>9. handler # 0 => Placed(To(handler))
  BY <1>1 DEF Placed, To
<1>10. Placed(at')
  BY <1>1, <1>2, <1>5, <1>7, <1>9
<1> QED BY <1>1, <1>6, <1>8, <1>10, EnteredKept

LEMMA ConditionTyped ==
  ASSUME Entered, ip \in Int, iOnErrIP \in Int, RunCondition
  PROVE  ip' \in Int /\ iOnErrIP' \in Int /\ Entered'
<1>1. /\ Whole(words) /\ GoodQcode(words, qcode) /\ Placed(at) /\ handler \in 0 .. Len(words)
  BY DEF Entered
<1>2. Placed(SourceNow)
  BY <1>1, SourceNowPlaced
<1>3. PICK n : n = SourceNow.word
  OBVIOUS
<1>4. n \in 1 .. Len(words) /\ words[n].w \in Conditions \cup {"VECTOR"}
  <2>1. SourceShows.op = "cond"
    BY DEF RunCondition, Runs
  <2> QED BY <1>1, <1>2, <1>3, <2>1, ShownWord
<1>5. /\ words' = words /\ qcode' = qcode /\ iOnErrIP' = iOnErrIP /\ handler' = handler
  BY DEF RunCondition, StepDone, source
<1>6. PICK i : i = InstructionAt(CodeNow + 2)
  OBVIOUS
<1>7. i.op = "brfalse"
  BY <1>6 DEF RunCondition
<1>8. GoodInstruction(words, i)
  BY <1>1, <1>6, <1>7, InstructionFound
<1>9. PICK outcome \in BOOLEAN : /\ ip' = IF outcome THEN i.at + i.size ELSE i.at + i.offsets[1]
                                 /\ at' = Decided(n, outcome)
  BY <1>3, <1>6, Zenon DEF RunCondition, Goes, DoGoto
<1>10. i.at \in Nat /\ i.size \in Nat /\ i.offsets[1] \in Int
  BY <1>7, <1>8 DEF GoodInstruction
<1>11. ip' \in Int
  BY <1>9, <1>10
<1>12. Placed(at')
  BY <1>1, <1>4, <1>9, DecidedPlaced
<1> QED BY <1>1, <1>5, <1>11, <1>12, EnteredKept

LEMMA VectorTyped ==
  ASSUME Entered, ip \in Int, iOnErrIP \in Int, RunVector
  PROVE  ip' \in Int /\ iOnErrIP' \in Int /\ Entered'
<1>1. /\ Whole(words) /\ GoodQcode(words, qcode) /\ Placed(at) /\ handler \in 0 .. Len(words)
  BY DEF Entered
<1>2. PICK n, i : n = SourceNow.word /\ i = InstructionAt(CodeNow + 2)
  OBVIOUS
<1>3. /\ words' = words /\ qcode' = qcode /\ iOnErrIP' = iOnErrIP /\ handler' = handler
  BY DEF RunVector, StepDone, source
<1>4. i.op = "vector" /\ i.word = n
  BY <1>2 DEF RunVector
<1>5. GoodInstruction(words, i)
  BY <1>1, <1>2, <1>4, InstructionFound
<1>6. /\ i.at \in Nat /\ i.size \in Nat /\ \A k \in DOMAIN i.offsets : i.offsets[k] \in Int
      /\ n \in 1 .. Len(words) /\ words[n].w = "VECTOR" /\ DOMAIN i.offsets = DOMAIN words[n].ls
  BY <1>4, <1>5 DEF GoodInstruction
<1>7. \/ \E k \in DOMAIN i.offsets : ip' = i.at + i.offsets[k] /\ at' = To(LabelPlace(words[n].ls[k]))
      \/ ip' = i.at + i.size /\ at' = To(n + 1)
  BY <1>2, Zenon DEF RunVector, Goes
<1>8. CASE \E k \in DOMAIN i.offsets : ip' = i.at + i.offsets[k] /\ at' = To(LabelPlace(words[n].ls[k]))
  <2>1. PICK k \in DOMAIN i.offsets : ip' = i.at + i.offsets[k] /\ at' = To(LabelPlace(words[n].ls[k]))
    BY <1>8
  <2>2. ip' \in Int
    BY <1>6, <2>1
  <2>3. LabelPlace(words[n].ls[k]) \in 1 .. Len(words)
    BY <1>1, <1>6, LabelFound
  <2>4. Placed(at')
    BY <2>1, <2>3 DEF Placed, To
  <2> QED BY <1>1, <1>3, <2>2, <2>4, EnteredKept
<1>9. CASE ip' = i.at + i.size /\ at' = To(n + 1)
  <2>1. Placed(at')
    BY <1>1, <1>6, <1>9, PlaceAfter
  <2> QED BY <1>1, <1>3, <1>6, <1>9, <2>1, EnteredKept
<1> QED BY <1>7, <1>8, <1>9

LEMMA OnErrTyped ==
  ASSUME Entered, ip \in Int, iOnErrIP \in Int, RunOnErr
  PROVE  ip' \in Int /\ iOnErrIP' \in Int /\ Entered'
<1>1. /\ Whole(words) /\ GoodQcode(words, qcode) /\ Placed(at) /\ Len(words) \in Nat
  BY DEF Entered, Whole
<1>2. Placed(SourceNow)
  BY <1>1, SourceNowPlaced
<1>3. PICK n, i : n = SourceNow.word /\ i = InstructionAt(CodeNow)
  OBVIOUS
<1>4. n \in 1 .. Len(words) /\ words[n].w = "ONERR" /\ i.op = "onerr"
  <2>1. SourceShows.op = "onerr" /\ InstructionAt(CodeNow).op = "onerr"
    BY DEF RunOnErr, Runs
  <2> QED BY <1>1, <1>2, <1>3, <2>1, ShownWord
<1>5. GoodInstruction(words, i)
  BY <1>1, <1>3, <1>4, InstructionFound
<1>6. i.at \in Nat /\ i.size \in Nat /\ i.offsets[1] \in Int
  BY <1>4, <1>5 DEF GoodInstruction
<1>7. /\ words' = words /\ qcode' = qcode
      /\ iOnErrIP' = IF i.offsets[1] = 0 THEN None ELSE i.at + i.offsets[1]
      /\ handler' = IF words[n].ls = <<>> THEN 0 ELSE LabelPlace(words[n].ls[1])
      /\ ip' = i.at + i.size /\ at' = To(n + 1)
  BY <1>3, Zenon DEF RunOnErr, StepDone, source, Goes
<1>8. ip' \in Int /\ iOnErrIP' \in Int
  BY <1>6, <1>7 DEF None
<1>9. Placed(at')
  BY <1>1, <1>4, <1>7, PlaceAfter
<1>10. handler' \in 0 .. Len(words)
  <2>1. words[n] \in Word
    BY <1>1, <1>4, ElementOfSeq DEF Whole
  <2>2. words[n].ls = <<>> \/ \E l : words[n].ls = <<l>>
    BY <1>4, <2>1 DEF Word, Plain
  <2>3. ASSUME NEW l, words[n].ls = <<l>> PROVE LabelPlace(words[n].ls[1]) \in 1 .. Len(words)
    <3>1. 1 \in DOMAIN words[n].ls
      BY <2>3
    <3> QED BY <1>1, <1>4, <3>1, LabelFound
  <2>4. CASE words[n].ls = <<>>
    BY <1>1, <1>7, <2>4
  <2>5. CASE words[n].ls # <<>>
    <3>1. LabelPlace(words[n].ls[1]) \in 1 .. Len(words)
      BY <2>2, <2>3, <2>5
    <3>2. handler' = LabelPlace(words[n].ls[1])
      BY <1>7, <2>5
    <3> QED BY <1>1, <3>1, <3>2
  <2> QED BY <2>4, <2>5
<1> QED BY <1>7, <1>8, <1>9, <1>10, EnteredKept

\* ENDP: the back end's code is good, and the run begins at the first word.
LEMMA EndPEnters ==
  ASSUME Parsing, GoodCode(words, iCode), phase = "parse", NEW wd \in Word, ParseEndP(wd),
         phase' = "run"
  PROVE  /\ Entered' /\ ip' = 0 /\ iOnErrIP' = None /\ at' = To(1) /\ handler' = 0
         /\ UNCHANGED <<frames, iBranches, iLastWasReturn>>
<1>1. words \in Seq(Word) /\ IsCode(iCode) /\ Len(words) \in Nat
  BY ParsingTypes DEF Parsing, Branched
<1>2. wd.w = "ENDP"
  BY DEF ParseEndP
<1>3. PICK items : items = IF iLastWasReturn THEN <<>> ELSE <<Item("return", <<>>)>>
  OBVIOUS
<1>4. PICK code : code = iCode \o items
  OBVIOUS
<1>5. ~Fail(wd)
  BY DEF Fail
<1>6. /\ ~Missing(code) /\ words' = Append(words, wd) /\ iCode' = code /\ qcode' = ConvertPcode(code)
      /\ ip' = 0 /\ iOnErrIP' = None /\ at' = To(1) /\ handler' = 0
      /\ UNCHANGED <<frames, iBranches, iLastWasReturn>>
  BY <1>3, <1>4, <1>5, Zenon DEF ParseEndP, To
<1>7. ItemsOf(wd, items)
  <2>1. ItemsOf(wd, <<Item("return", <<>>)>>)
    BY PlainItem, ItemsOfOne
  <2>2. IsCode(<<>>) /\ DOMAIN <<>> = {}
    BY NoCode
  <2> QED BY <1>3, <2>1, <2>2 DEF ItemsOf
<1>8. IsCode(code) /\ GoodCode(words', code)
  BY <1>1, <1>4, <1>6, <1>7, NextGood
<1>9. GoodQcode(words', qcode')
  BY <1>6, <1>8, ConvertedGood
<1>10. /\ words' \in Seq(Word) /\ Len(words') = Len(words) + 1 /\ words'[Len(words) + 1] = wd
  BY <1>1, <1>6, Appended
<1>11. AcceptsExactly'
  BY EndPAccepts
<1>12. WellNestedIn(words') /\ FoundIn(words')
  <2>1. Len(words') # 0 /\ phase' \in {"run", "ended"}
    BY <1>1, <1>10
  <2> QED BY <1>10, <1>11, <2>1, AcceptsNext
<1>13. Whole(words')
  <2>1. DOMAIN words' = 1 .. Len(words') /\ Len(words') \in Nat \ {0}
    BY <1>1, <1>10, LenProperties
  <2> QED BY <1>2, <1>10, <1>12, <2>1 DEF Whole
<1>14. 1 \in 1 .. Len(words') /\ 0 \in 0 .. Len(words')
  BY <1>1, <1>10
<1>15. Placed(at)'
  <2>1. at' = [word |-> 1, test |-> FALSE]
    BY <1>6 DEF To
  <2>2. at' \in [word : 1 .. Len(words'), test : BOOLEAN] /\ at'.test = FALSE
    BY <1>14, <2>1
  <2> QED BY <2>2 DEF Placed
<1>16. Entered'
  BY <1>6, <1>9, <1>13, <1>14, <1>15 DEF Entered
<1> QED BY <1>6, <1>16

LEMMA StInvKept == StInv /\ [Next]_vars => StInv'
<1> SUFFICES ASSUME StInv, [Next]_vars PROVE StInv'
  OBVIOUS
<1>1. /\ Accepting /\ Accepting' /\ vocab \in Vocabularies
      /\ phase \in {"parse", "failed", "run", "ended"}
      /\ phase' \in {"parse", "failed", "run", "ended"} /\ (phase = "parse" => Parsing)
      /\ (phase' = "parse" => Parsing')
  BY AcceptingKept DEF StInv, Accepting
<1>2. /\ frames \in Activations /\ iBranches \in Branches /\ iLastWasReturn \in BOOLEAN
      /\ (phase = "parse" => GoodCode(words, iCode))
      /\ ip \in Int /\ iOnErrIP \in Int /\ at \in [word : Nat, test : BOOLEAN] /\ handler \in Nat
      /\ (phase \in {"run", "ended"} => Entered)
  BY DEF StInv
<1>3. None \in Int /\ To(1) \in [word : Nat, test : BOOLEAN]
  BY DEF None, To
<1>4. ASSUME Entered' PROVE at' \in [word : Nat, test : BOOLEAN] /\ handler' \in Nat
  <2>1. Placed(at)' /\ handler' \in 0 .. Len(words') /\ Len(words') \in Nat
    BY <1>4 DEF Entered, Whole
  <2>2. at' \in [word : 1 .. Len(words'), test : BOOLEAN]
    BY <2>1 DEF Placed
  <2> QED BY <2>1, <2>2
<1>5. CASE UNCHANGED vars
  <2>1. /\ words' = words /\ phase' = phase /\ frames' = frames /\ iBranches' = iBranches
        /\ iLastWasReturn' = iLastWasReturn /\ iCode' = iCode /\ qcode' = qcode
        /\ ip' = ip /\ iOnErrIP' = iOnErrIP /\ at' = at /\ handler' = handler
    BY <1>5 DEF vars, source, parser, running
  <2>2. Entered => Entered'
    <3> HAVE Entered
    <3>1. Placed(at') /\ handler' \in 0 .. Len(words)
      BY <2>1 DEF Entered
    <3> QED BY <2>1, <3>1, EnteredKept
  <2> QED BY <1>1, <1>2, <2>1, <2>2 DEF StInv
<1>6. CASE ParseWord
  <2>1. PICK wd \in vocab.words \cup {[w |-> "ENDP", ls |-> <<>>]} :
          \/ ParseLabel(wd) \/ ParseSimple(wd) \/ ParseVector(wd) \/ ParseOpen(wd)
          \/ ParseClause(wd) \/ ParseClose(wd) \/ ParseMisplaced(wd) \/ ParseEndP(wd)
    BY <1>6 DEF ParseWord
  <2>2. phase = "parse" /\ Parsing /\ GoodCode(words, iCode)
    BY <1>1, <1>2, <1>6 DEF ParseWord
  <2>3. wd \in Word
    <3>1. [w |-> "ENDP", ls |-> <<>>] \in [w : Plain, ls : {<<>>}]
      BY DEF Plain
    <3>2. [w |-> "ENDP", ls |-> <<>>] \in Word
      BY <3>1 DEF Word
    <3> QED BY <1>1, <2>1, <3>2, VocabulariesAssumption
  <2>4. phase' \in {"parse", "failed", "run"} /\ (phase' = "run" => ParseEndP(wd))
    BY <2>1, <2>2 DEF ParseLabel, ParseSimple, ParseVector, ParseOpen, ParseClause, ParseClose,
                      ParseMisplaced, ParseEndP, Emit, Fail
  <2>5. CASE phase' = "parse"
    <3>1. GoodCode(words', iCode') /\ UNCHANGED <<qcode, running>>
      BY <2>1, <2>2, <2>3, <2>5, WordGood
    <3>2. frames' \in Activations /\ iBranches' \in Branches
      <4>1. NestOK(words', frames', iBranches')
        BY <1>1, <2>5 DEF Parsing
      <4> QED BY <4>1 DEF NestOK
    <3>3. iLastWasReturn' \in BOOLEAN
      BY <1>2, <2>1, <2>5 DEF ParseLabel, ParseSimple, ParseVector, ParseOpen, ParseClause,
           ParseClose, ParseMisplaced, ParseEndP, Emit, Fail
    <3>4. ip' = ip /\ iOnErrIP' = iOnErrIP /\ at' = at /\ handler' = handler
      BY <3>1 DEF running
    <3>5. ~(phase' \in {"run", "ended"})
      BY <2>5
    <3> QED BY <1>1, <1>2, <3>1, <3>2, <3>3, <3>4, <3>5 DEF StInv
  <2>6. CASE phase' = "failed"
    <3>1. UNCHANGED <<parser, running>>
      BY <2>1, <2>2, <2>6 DEF ParseLabel, ParseSimple, ParseVector, ParseOpen, ParseClause,
           ParseClose, ParseMisplaced, ParseEndP, Emit, Fail
    <3>2. /\ frames' = frames /\ iBranches' = iBranches /\ iLastWasReturn' = iLastWasReturn
          /\ ip' = ip /\ iOnErrIP' = iOnErrIP /\ at' = at /\ handler' = handler
      BY <3>1 DEF parser, running
    <3> QED BY <1>1, <1>2, <2>6, <3>2 DEF StInv
  <2>7. CASE phase' = "run"
    <3>1. /\ Entered' /\ ip' = 0 /\ iOnErrIP' = None /\ at' = To(1) /\ handler' = 0
          /\ frames' = frames /\ iBranches' = iBranches /\ iLastWasReturn' = iLastWasReturn
      BY <2>2, <2>3, <2>4, <2>7, EndPEnters
    <3>2. phase' # "parse"
      BY <2>7
    <3> QED BY <1>1, <1>2, <1>3, <3>1, <3>2 DEF StInv
  <2> QED BY <2>4, <2>5, <2>6, <2>7
<1>7. CASE Run
  <2>1. /\ phase = "run" /\ phase' \in {"run", "ended"}
        /\ frames' = frames /\ iBranches' = iBranches /\ iLastWasReturn' = iLastWasReturn
    BY <1>7 DEF Run, RunStatement, RunCondition, RunVector, RunOnErr, RunReturn, Runs,
                StepDone, parser
  <2>2. Entered
    BY <1>2, <2>1
  <2>3. ip' \in Int /\ iOnErrIP' \in Int /\ Entered'
    <3>1. CASE RunReturn
      <4>1. /\ words' = words /\ qcode' = qcode
            /\ ip' = ip /\ iOnErrIP' = iOnErrIP /\ at' = at /\ handler' = handler
        BY <3>1 DEF RunReturn, StepDone, source, running
      <4>2. Placed(at') /\ handler' \in 0 .. Len(words)
        BY <2>2, <4>1 DEF Entered
      <4> QED BY <1>2, <2>2, <4>1, <4>2, EnteredKept
    <3> QED BY <1>2, <1>7, <2>2, <3>1, StatementTyped, ConditionTyped, VectorTyped, OnErrTyped DEF Run
  <2>4. phase' # "parse"
    BY <2>1
  <2> QED BY <1>1, <1>2, <1>4, <2>1, <2>3, <2>4 DEF StInv
<1> QED BY <1>5, <1>6, <1>7 DEF Next

\* The parser's activations and branches, the addresses of the run and the
\* place in the source that goes with them have their types: no jump of the
\* q-code and no step of the source leads outside the procedure.
THEOREM StructuresTyped == Spec => []StructuresTypeOK
<1>1. StInv => StructuresTypeOK
  <2> SUFFICES ASSUME StInv PROVE StructuresTypeOK
    OBVIOUS
  <2>1. /\ vocab \in Vocabularies /\ words \in Seq(Word) /\ phase \in {"parse", "failed", "run", "ended"}
        /\ frames \in Activations /\ iBranches \in Branches /\ iLastWasReturn \in BOOLEAN
        /\ ip \in Int /\ iOnErrIP \in Int /\ at \in [word : Nat, test : BOOLEAN] /\ handler \in Nat
    BY DEF StInv, Accepting
  <2>2. Branches = [DOMAIN NoBranches -> Nat]
    <3>1. DOMAIN NoBranches = {"EFalse", "EBreak", "EContinue", "EExit", "next", "depth", "loop"}
      BY DEF NoBranches
    <3> QED BY <3>1 DEF Branches
  <2>3. frames \in Seq([kind : {"IF", "ELSE", "DO", "WHILE"}, saved : [DOMAIN NoBranches -> Nat]])
    BY <2>1, <2>2 DEF Activations, Kinds
  <2> QED BY <2>1, <2>2, <2>3 DEF StructuresTypeOK
<1> QED BY <1>1, StInvStart, StInvKept, PTL DEF Spec
=============================================================================
