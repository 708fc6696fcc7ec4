--------------------------- MODULE OplFramesProofs ---------------------------
(***************************************************************************)
(* Proofs that the interpreter never runs freed q-code: iFrame, the frames *)
(* that EVALs and OPX functions return to and the q-code iIP points into   *)
(* exist, for any procedures and any values of the limits.  Two kinds of   *)
(* programs are excepted, for which the code does not keep it so: those    *)
(* with CANCEL or IOSIGNAL after TRAP, and those that STOP while another   *)
(* Execute waits (TrapSpent and StopsProgram below).                       *)
(*                                                                         *)
(* The frames of the procedures in progress form a stack: they are         *)
(* allocated upwards, each links to the one below, and each EVAL or OPX    *)
(* function in progress belongs to one of them.  iIP, the return addresses *)
(* and what the EVALs and OPX functions remember all fit this stack.  A    *)
(* frame that a failed callback left behind is not in it.                  *)
(***************************************************************************)
EXTENDS OplProceduresProofs

\* Frames st[1] to st[n] are stacked.  Addresses below them are all in use: the next frame
\* to be allocated has a higher one.
Ascending(n, st) ==
  /\ n \in Nat /\ st \in [1..n -> Frames]
  /\ \A i \in 1..n : \A g \in Frames : g <= st[i] => g \in DOMAIN frames
  /\ \A i, j \in 1..n : i < j => st[i] < st[j]

\* Unless a failed callback left one behind, no other frame is allocated.
Covering(n, st) == "Unresolved" \notin Opcodes => \A g \in DOMAIN frames : \E i \in 1..n : st[i] = g

IsOpx(k)  == host[k].kind = "opx"
IsEval(k) == host[k].kind = "eval"

\* The k-th EVAL or OPX function in progress belongs to the frame st[pos[k]], the later ones to
\* that frame or higher ones; those that came after an OPX function to higher ones.
Placed(n, st, pos) ==
  /\ pos \in [1..Len(host) -> 1..n]
  /\ \A k \in 1..Len(host) : host[k].frame = st[pos[k]]
  /\ \A j, k \in 1..Len(host) : j < k => pos[j] <= pos[k] /\ (IsOpx(j) => pos[j] < pos[k])

\* The frame above i was made by a callback.
Callback(i, pos) == \E k \in 1..Len(host) : IsOpx(k) /\ pos[k] = i

Linked(n, st, pos) ==
  /\ n > 0 => frames[st[1]].prev = None
  /\ \A i \in 1..n : i + 1 <= n =>
       frames[st[i + 1]].prev = IF Callback(i, pos) THEN None ELSE st[i]
  /\ \A i \in 1..n : frames[st[i]].onerr \in {None, st[i]}

\* e is the latest EVAL of frame i among the first m hosts, 0 if it has none.
LatestEval(e, i, m, pos) ==
  /\ e \in 0..m
  /\ e # 0 => IsEval(e) /\ pos[e] = i
  /\ \A k \in 1..m : k > e => ~(IsEval(k) /\ pos[k] = i)

\* c is a point of the code that frame i runs while the first m hosts are in progress.
Fits(c, i, m, st, pos) == c.frame = st[i] /\ LatestEval(c.eval, i, m, pos)

Fitting(n, st, pos) ==
  /\ \A i \in 1..n : i + 1 <= n => Fits(frames[st[i + 1]].ret, i, Len(host), st, pos)
  /\ \A k \in 1..Len(host) : Fits(host[k].ip, pos[k], k - 1, st, pos)

Shape(n, st, pos) ==
  Ascending(n, st) /\ Covering(n, st) /\ Placed(n, st, pos) /\ Linked(n, st, pos) /\ Fitting(n, st, pos)

\* All the frames of the innermost callback, or of the program, are gone, or an OPX function runs.
AtBottom(n, pos) == n = 0 \/ (Len(host) > 0 /\ IsOpx(Len(host)) /\ pos[Len(host)] = n)

\* A frame that has just been made by a call that fails.
Unresolved(f) == mode = "leave" /\ ~trap /\ frames[f].onerr = None /\ frames[f].evals = 0

\* Where iFrame and iIP point.
Control(n, st, pos) ==
  /\ frame = IF AtBottom(n, pos) /\ mode # "opx" THEN None ELSE st[n]
  /\ mode = "opx" => n > 0 /\ AtBottom(n, pos)
  /\ mode = "run" => ~AtBottom(n, pos)
  /\ mode = "exit" =>
       AtBottom(n, pos) \/ Len(host) = 0 \/ (IsEval(Len(host)) /\ pos[Len(host)] = n)
  /\ n > 0 => Fits(ip, n, Len(host), st, pos) \/ (~AtBottom(n, pos) /\ Unresolved(st[n]))

EvalsAt(f) == {k \in DOMAIN host : host[k].kind = "eval" /\ host[k].frame = f}
EvalsCounted == \A f \in DOMAIN frames : frames[f].evals = Cardinality(EvalsAt(f))

\* The frames in progress are st[1] to st[n], the EVALs and OPX functions placed by pos.
At(n, st, pos) == Shape(n, st, pos) /\ Control(n, st, pos)

Stacked == \E n, st, pos : At(n, st, pos)

FInv == mode \notin {"closing", "ended"} => EvalsCounted /\ Stacked

-----------------------------------------------------------------------------
(* The EVALs of a frame.                                                   *)

EvalsIn(h, f) == {k \in DOMAIN h : h[k].kind = "eval" /\ h[k].frame = f}

LEMMA EvalsInFact ==
  ASSUME NEW h \in Seq(Hosts), NEW f
  PROVE  /\ IsFiniteSet(EvalsIn(h, f)) /\ Cardinality(EvalsIn(h, f)) \in Nat
         /\ Cardinality(EvalsIn(h, f)) = 0 <=> EvalsIn(h, f) = {}
<1>1. DOMAIN h = 1..Len(h) /\ Len(h) \in Nat
  BY LenProperties
<1>2. IsFiniteSet(1..Len(h))
  BY <1>1, FS_Interval
<1>3. IsFiniteSet(EvalsIn(h, f))
  BY <1>1, <1>2, FS_Subset DEF EvalsIn
<1> QED BY <1>3, FS_CardinalityType, FS_EmptySet

LEMMA EvalsInAppend ==
  ASSUME NEW h \in Seq(Hosts), NEW r \in Hosts, NEW f
  PROVE  Cardinality(EvalsIn(Append(h, r), f)) =
           Cardinality(EvalsIn(h, f)) + (IF r.kind = "eval" /\ r.frame = f THEN 1 ELSE 0)
<1> DEFINE t == Append(h, r)
<1>1. /\ t \in Seq(Hosts) /\ Len(t) = Len(h) + 1 /\ t[Len(h) + 1] = r
      /\ \A k \in 1..Len(h) : t[k] = h[k]
  BY AppendProperties
<1>2. Len(h) \in Nat /\ DOMAIN h = 1..Len(h) /\ DOMAIN t = 1..(Len(h) + 1)
  BY <1>1, LenProperties
<1> HIDE DEF t
<1>3. \A k : k \in 1..(Len(h) + 1) <=> k \in 1..Len(h) \/ k = Len(h) + 1
  BY <1>2
<1>4. EvalsIn(t, f) = EvalsIn(h, f) \cup (IF r.kind = "eval" /\ r.frame = f THEN {Len(h) + 1} ELSE {})
  BY <1>1, <1>2, <1>3 DEF EvalsIn
<1>5. Len(h) + 1 \notin EvalsIn(h, f)
  BY <1>2 DEF EvalsIn
<1>6. IsFiniteSet(EvalsIn(h, f)) /\ Cardinality(EvalsIn(h, f)) \in Nat
  BY EvalsInFact
<1>7. CASE r.kind = "eval" /\ r.frame = f
  BY <1>4, <1>5, <1>6, <1>7, FS_AddElement DEF t
<1>8. CASE ~(r.kind = "eval" /\ r.frame = f)
  <2>1. EvalsIn(t, f) = EvalsIn(h, f)
    BY <1>4, <1>8
  <2> QED BY <1>6, <1>8, <2>1 DEF t
<1> QED BY <1>7, <1>8

LEMMA EvalsInFront ==
  ASSUME NEW h \in Seq(Hosts), h # <<>>, NEW f
  PROVE  Cardinality(EvalsIn(Front(h), f)) =
           Cardinality(EvalsIn(h, f)) - (IF Last(h).kind = "eval" /\ Last(h).frame = f THEN 1 ELSE 0)
<1> DEFINE t == Front(h)
           n == Len(h)
<1>1. /\ n \in Nat \ {0} /\ Last(h) = h[n] /\ Last(h) \in Hosts
      /\ t \in Seq(Hosts) /\ Len(t) = n - 1 /\ \A k \in 1..(n - 1) : t[k] = h[k]
  BY FrontFact
<1>2. DOMAIN h = 1..n /\ DOMAIN t = 1..(n - 1)
  BY <1>1, LenProperties
<1> HIDE DEF t, n
<1>3. \A k : k \in 1..(n - 1) <=> k \in 1..n /\ k # n
  BY <1>1
<1>4. EvalsIn(t, f) = EvalsIn(h, f) \ {n}
  BY <1>1, <1>2, <1>3 DEF EvalsIn
<1>5. n \in EvalsIn(h, f) <=> Last(h).kind = "eval" /\ Last(h).frame = f
  BY <1>1, <1>2 DEF EvalsIn
<1>6. IsFiniteSet(EvalsIn(h, f)) /\ Cardinality(EvalsIn(h, f)) \in Nat
  BY EvalsInFact
<1>7. CASE n \in EvalsIn(h, f)
  BY <1>4, <1>5, <1>6, <1>7, FS_RemoveElement DEF t
<1>8. CASE n \notin EvalsIn(h, f)
  <2>1. EvalsIn(t, f) = EvalsIn(h, f)
    BY <1>4, <1>8
  <2> QED BY <1>5, <1>6, <1>8, <2>1 DEF t
<1> QED BY <1>7, <1>8

LEMMA EvalsAtIn == \A f : EvalsAt(f) = EvalsIn(host, f)
BY DEF EvalsAt, EvalsIn

-----------------------------------------------------------------------------
(* How the stack of frames changes.                                        *)

LEMMA HostFact ==
  ASSUME host \in Seq(Hosts)
  PROVE  /\ Len(host) \in Nat /\ DOMAIN host = 1..Len(host)
         /\ \A k \in 1..Len(host) : host[k] \in Hosts /\ host[k].kind \in {"eval", "opx"}
         /\ host = <<>> <=> Len(host) = 0
<1>1. Len(host) \in Nat /\ DOMAIN host = 1..Len(host) /\ \A k \in 1..Len(host) : host[k] \in Hosts
  BY LenProperties, ElementOfSeq
<1>2. host = <<>> <=> Len(host) = 0
  BY EmptySeq
<1> QED BY <1>1, <1>2 DEF Hosts

\* Frames keep their links, whatever else of them changes.
SameFrames ==
  /\ DOMAIN frames \subseteq DOMAIN frames'
  /\ "Unresolved" \notin Opcodes => DOMAIN frames' = DOMAIN frames
  /\ \A f \in DOMAIN frames :
       /\ frames'[f].prev = frames[f].prev /\ frames'[f].ret = frames[f].ret
       /\ frames'[f].onerr \in {frames[f].onerr, None, f}
       /\ frames'[f].base = frames[f].base /\ frames'[f].def = frames[f].def
       /\ frames'[f].byName = frames[f].byName

LEMMA StackedAllocated ==
  ASSUME NEW n, NEW st, Ascending(n, st)
  PROVE  \A i \in 1..n : st[i] \in Frames /\ st[i] \in DOMAIN frames /\ st[i] # None
BY DEF Ascending, Frames, None

LEMMA ShapeKept ==
  ASSUME NEW n, NEW st, NEW pos, Shape(n, st, pos), SameFrames, UNCHANGED host
  PROVE  Shape(n, st, pos)'
<1>1. Ascending(n, st)' /\ Covering(n, st)'
  BY DEF Shape, Ascending, Covering, SameFrames
<1>2. Placed(n, st, pos)'
  BY DEF Shape, Placed, IsOpx
<1>3. \A i \in 1..n : st[i] \in DOMAIN frames
  BY StackedAllocated DEF Shape
<1>4. n \in Nat /\ \A i \in 1..n : i + 1 <= n => i + 1 \in 1..n
  BY DEF Shape, Ascending
<1>5. Linked(n, st, pos)'
  <2>1. n > 0 => 1 \in 1..n
    BY <1>4
  <2>2. \A i : Callback(i, pos)' <=> Callback(i, pos)
    BY DEF Callback, IsOpx
  <2> QED BY <1>3, <1>4, <2>1, <2>2 DEF Shape, Linked, SameFrames
<1>6. Fitting(n, st, pos)'
  <2>1. \A e, i, m : LatestEval(e, i, m, pos)' <=> LatestEval(e, i, m, pos)
    BY DEF LatestEval, IsEval
  <2> QED BY <1>3, <1>4, <2>1 DEF Shape, Fitting, Fits, SameFrames
<1> QED BY <1>1, <1>2, <1>5, <1>6 DEF Shape

\* ConstructL makes frame f, at the lowest free address.
Made(f, prev, ret) ==
  /\ f \in Frames /\ f \notin DOMAIN frames /\ \A g \in Frames : g < f => g \in DOMAIN frames
  /\ DOMAIN frames' = DOMAIN frames \cup {f}
  /\ \A g \in DOMAIN frames : frames'[g] = frames[g]
  /\ frames'[f].prev = prev /\ frames'[f].ret = ret /\ frames'[f].onerr = None /\ frames'[f].evals = 0

LEMMA ConstructMakes ==
  ASSUME NEW f \in Frames, NEW p, NEW prev, NEW ret, NEW base, NEW byName,
         ConstructFrame(f, p, prev, ret, base, byName)
  PROVE  Made(f, prev, ret)
BY DEF ConstructFrame, Frames, Made

\* m and s2 are the stack n, st with f on top, or without its top.
Higher(n, st, f, m, s2) == m = n + 1 /\ s2 = [i \in 1..m |-> IF i <= n THEN st[i] ELSE f]
Lower(n, st, m, s2)     == m = n - 1 /\ s2 = [i \in 1..m |-> st[i]]

\* p2 places one more EVAL or OPX function, in frame n, or all but the last.
Longer(n, pos, p2) == p2 = [k \in 1..(Len(host) + 1) |-> IF k <= Len(host) THEN pos[k] ELSE n]
Shorter(pos, p2)   == p2 = [k \in 1..(Len(host) - 1) |-> pos[k]]

\* A frame is made by the frame on top of the stack, or by the OPX function that runs there.
LEMMA FramePushed ==
  ASSUME NEW n, NEW st, NEW pos, Shape(n, st, pos), n > 0, host \in Seq(Hosts), UNCHANGED host,
         NEW f, NEW prev, NEW ret, Made(f, prev, ret),
         Callback(n, pos) => prev = None, ~Callback(n, pos) => prev = st[n],
         Fits(ret, n, Len(host), st, pos),
         NEW m, NEW s2, Higher(n, st, f, m, s2)
  PROVE  Shape(m, s2, pos)'
<1> m = n + 1 /\ s2 = [i \in 1..(n + 1) |-> IF i <= n THEN st[i] ELSE f]
  BY DEF Higher
<1> DEFINE N == Len(host)
<1>1. /\ f \in Frames /\ f \notin DOMAIN frames /\ \A g \in Frames : g < f => g \in DOMAIN frames
      /\ DOMAIN frames' = DOMAIN frames \cup {f}
      /\ \A g \in DOMAIN frames : frames'[g] = frames[g]
      /\ frames'[f].prev = prev /\ frames'[f].ret = ret /\ frames'[f].onerr = None
      /\ frames'[f].evals = 0
  BY DEF Made
<1>2. n \in Nat /\ st \in [1..n -> Frames] /\ \A i \in 1..n : st[i] \in DOMAIN frames
  BY StackedAllocated DEF Shape, Ascending
<1>3. /\ s2 \in [1..(n + 1) -> Frames]
      /\ \A i \in 1..n : s2[i] = st[i]
      /\ s2[n + 1] = f
  BY <1>1, <1>2
<1>4. N \in Nat /\ N' = N
  BY HostFact
<1>5. \A i \in 1..(n + 1) : i \in 1..n \/ i = n + 1
  BY <1>2
<1>6. n + 1 \in Nat /\ n \in 1..n /\ 1 \in 1..n
  BY <1>2
<1>7. \A i \in 1..n : st[i] < f
  <2> SUFFICES ASSUME NEW i \in 1..n PROVE st[i] < f
    OBVIOUS
  <2>1. ~(f <= st[i])
    BY <1>1 DEF Shape, Ascending
  <2> QED BY <1>1, <1>2, <2>1 DEF Frames
<1>8. Ascending(n + 1, s2)'
  <2>1. ASSUME NEW i \in 1..(n + 1), NEW g \in Frames, g <= s2[i] PROVE g \in DOMAIN frames'
    <3>1. CASE i \in 1..n
      BY <1>1, <1>3, <2>1, <3>1 DEF Shape, Ascending
    <3>2. CASE i = n + 1
      BY <1>1, <1>3, <2>1, <3>2 DEF Frames
    <3> QED BY <1>5, <3>1, <3>2
  <2>2. ASSUME NEW i \in 1..(n + 1), NEW j \in 1..(n + 1), i < j PROVE s2[i] < s2[j]
    <3>1. i \in 1..n
      BY <1>2, <2>2
    <3>2. CASE j \in 1..n
      BY <1>3, <2>2, <3>1, <3>2 DEF Shape, Ascending
    <3>3. CASE j = n + 1
      BY <1>3, <1>7, <3>1, <3>3
    <3> QED BY <1>5, <3>2, <3>3
  <2> QED BY <1>3, <1>6, <2>1, <2>2 DEF Ascending
<1>9. /\ pos \in [1..N -> 1..n]
      /\ \A k \in 1..N : pos[k] \in 1..n /\ host[k].frame = st[pos[k]]
  BY DEF Shape, Placed
<1>10. Placed(n + 1, s2, pos)'
  <2>1. pos \in [1..N -> 1..(n + 1)]
    BY <1>2, <1>9
  <2>2. \A k \in 1..N : host[k].frame = s2[pos[k]]
    BY <1>3, <1>9
  <2> QED BY <1>4, <2>1, <2>2 DEF Shape, Placed, IsOpx
<1>11. \A i : Callback(i, pos)' <=> Callback(i, pos)
  BY DEF Callback, IsOpx
<1>12. Linked(n + 1, s2, pos)'
  <2>1. frames'[s2[1]].prev = None
    BY <1>1, <1>2, <1>3, <1>6 DEF Shape, Linked
  <2>2. ASSUME NEW i \in 1..(n + 1), i + 1 <= n + 1
        PROVE  frames'[s2[i + 1]].prev = IF Callback(i, pos)' THEN None ELSE s2[i]
    <3>1. i \in 1..n
      BY <1>2, <2>2
    <3>2. CASE i = n
      BY <1>1, <1>3, <1>6, <1>11, <3>2
    <3>3. CASE i # n
      <4>1. i + 1 \in 1..n /\ i + 1 <= n
        BY <1>2, <3>1, <3>3
      <4> QED BY <1>1, <1>2, <1>3, <1>11, <3>1, <4>1 DEF Shape, Linked
    <3> QED BY <3>2, <3>3
  <2>3. \A i \in 1..(n + 1) : frames'[s2[i]].onerr \in {None, s2[i]}
    BY <1>1, <1>2, <1>3, <1>5 DEF Shape, Linked
  <2> QED BY <2>1, <2>2, <2>3 DEF Linked
<1>13. Fitting(n + 1, s2, pos)'
  <2>1. ASSUME NEW i \in 1..(n + 1), i + 1 <= n + 1
        PROVE  /\ frames'[s2[i + 1]].ret.frame = s2[i]
               /\ LatestEval(frames'[s2[i + 1]].ret.eval, i, N, pos)
    <3>1. i \in 1..n
      BY <1>2, <2>1
    <3>2. Fits(frames'[s2[i + 1]].ret, i, N, st, pos)
      <4>1. CASE i = n
        BY <1>1, <1>3, <4>1
      <4>2. CASE i # n
        <5>1. i + 1 \in 1..n /\ i + 1 <= n
          BY <1>2, <3>1, <4>2
        <5> QED BY <1>1, <1>2, <1>3, <3>1, <5>1 DEF Shape, Fitting
      <4> QED BY <4>1, <4>2
    <3> QED BY <1>3, <3>1, <3>2 DEF Fits
  <2>2. \A k \in 1..N : host[k].ip.frame = s2[pos[k]] /\ LatestEval(host[k].ip.eval, pos[k], k - 1, pos)
    BY <1>3, <1>9 DEF Shape, Fitting, Fits
  <2>3. \A e, i, l : LatestEval(e, i, l, pos)' <=> LatestEval(e, i, l, pos)
    BY DEF LatestEval, IsEval
  <2> QED BY <1>4, <2>1, <2>2, <2>3 DEF Fitting, Fits
<1>14. Covering(n + 1, s2)'
  <2>1. \A g \in DOMAIN frames' : g \in DOMAIN frames \/ g = s2[n + 1]
    BY <1>1, <1>3
  <2>2. \A i \in 1..n : i \in 1..(n + 1) /\ s2[i] = st[i]
    BY <1>2, <1>3
  <2>3. n + 1 \in 1..(n + 1)
    BY <1>2
  <2> QED BY <2>1, <2>2, <2>3 DEF Covering, Shape
<1> QED BY <1>8, <1>10, <1>12, <1>13, <1>14 DEF Shape

\* No OPX function in progress is above the frames in progress: AtBottom looks at the innermost.
LEMMA OpxBelow ==
  ASSUME NEW n, NEW st, NEW pos, Shape(n, st, pos), host \in Seq(Hosts), NEW i \in Nat,
         \A k \in 1..Len(host) : pos[k] <= i, i > 0
  PROVE  Callback(i, pos) <=> AtBottom(i, pos)
<1> DEFINE N == Len(host)
<1>1. N \in Nat /\ pos \in [1..N -> 1..n] /\ n \in Nat
  BY HostFact DEF Shape, Placed, Ascending
<1>2. ASSUME NEW k \in 1..N, IsOpx(k), pos[k] = i PROVE k = N
  <2> SUFFICES ASSUME k # N PROVE FALSE
    OBVIOUS
  <2>1. N \in 1..N /\ k < N
    BY <1>1
  <2>2. pos[k] < pos[N] /\ pos[N] <= i
    BY <1>2, <2>1 DEF Shape, Placed
  <2>3. pos[N] \in Int /\ pos[k] \in Int
    BY <1>1, <2>1
  <2> QED BY <1>2, <2>2, <2>3
<1>3. N > 0 => N \in 1..N
  BY <1>1
<1> QED BY <1>1, <1>2, <1>3 DEF Callback, AtBottom

\* The frame on top of the stack goes: nothing in progress belongs to it.
LEMMA FramePopped ==
  ASSUME NEW n, NEW st, NEW pos, Shape(n, st, pos), n > 0, host \in Seq(Hosts), UNCHANGED host,
         \A k \in 1..Len(host) : pos[k] # n, DeleteFrame(st[n]),
         NEW m, NEW s2, Lower(n, st, m, s2)
  PROVE  /\ m \in Nat
         /\ Shape(m, s2, pos)'
         /\ AtBottom(m, pos)' <=> AtBottom(m, pos)
         /\ frame' = IF AtBottom(m, pos) THEN None ELSE st[m]
         /\ m > 0 => Fits(ip', m, Len(host), st, pos)
         /\ DOMAIN frames' = DOMAIN frames \ {st[n]}
         /\ \A g \in DOMAIN frames' : frames'[g] = frames[g]
<1> m = n - 1 /\ s2 = [i \in 1..m |-> st[i]]
  BY DEF Lower
<1> DEFINE N == Len(host)
<1>1. /\ DOMAIN frames' = DOMAIN frames \ {st[n]}
      /\ \A g \in DOMAIN frames \ {st[n]} : frames'[g] = frames[g]
      /\ frame' = frames[st[n]].prev /\ ip' = frames[st[n]].ret
  BY DEF DeleteFrame
<1>2. n \in Nat /\ st \in [1..n -> Frames] /\ \A i \in 1..n : st[i] \in DOMAIN frames /\ st[i] \in Nat
  BY StackedAllocated DEF Shape, Ascending, Frames
<1>3. /\ m \in Nat /\ m + 1 = n /\ n \in 1..n
      /\ \A i \in 1..m : i \in 1..n /\ i < n
  BY <1>2
<1>4. s2 \in [1..m -> Frames] /\ \A i \in 1..m : s2[i] = st[i]
  BY <1>2, <1>3
<1>5. N \in Nat /\ N' = N
  BY HostFact
<1>6. \A i \in 1..m : st[i] < st[n] /\ st[i] \in DOMAIN frames' /\ frames'[st[i]] = frames[st[i]]
  <2> SUFFICES ASSUME NEW i \in 1..m PROVE st[i] < st[n] /\ st[i] \in DOMAIN frames' /\ frames'[st[i]] = frames[st[i]]
    OBVIOUS
  <2>1. st[i] < st[n]
    BY <1>3 DEF Shape, Ascending
  <2>2. st[i] # st[n]
    BY <1>2, <1>3, <2>1
  <2> QED BY <1>1, <1>2, <1>3, <2>1, <2>2
<1>7. Ascending(m, s2)'
  <2>1. ASSUME NEW i \in 1..m, NEW g \in Frames, g <= s2[i] PROVE g \in DOMAIN frames'
    <3>1. g \in DOMAIN frames
      BY <1>3, <1>4, <2>1 DEF Shape, Ascending
    <3>2. g # st[n]
      BY <1>2, <1>3, <1>4, <1>6, <2>1 DEF Frames
    <3> QED BY <1>1, <3>1, <3>2
  <2>2. \A i, j \in 1..m : i < j => s2[i] < s2[j]
    BY <1>3, <1>4 DEF Shape, Ascending
  <2> QED BY <1>3, <1>4, <2>1, <2>2 DEF Ascending
<1>8. /\ pos \in [1..N -> 1..m]
      /\ \A k \in 1..N : pos[k] \in 1..m /\ host[k].frame = st[pos[k]]
  <2>1. \A k \in 1..N : pos[k] \in 1..n /\ host[k].frame = st[pos[k]]
    BY DEF Shape, Placed
  <2>2. \A k \in 1..N : pos[k] \in 1..m
    BY <1>2, <1>3, <2>1
  <2>3. pos \in [1..N -> 1..n]
    BY DEF Shape, Placed
  <2> QED BY <2>1, <2>2, <2>3
<1>9. Placed(m, s2, pos)'
  <2>1. \A k \in 1..N : host[k].frame = s2[pos[k]]
    BY <1>4, <1>8
  <2> QED BY <1>5, <1>8, <2>1 DEF Shape, Placed, IsOpx
<1>10. /\ \A i : Callback(i, pos)' <=> Callback(i, pos)
       /\ \A e, i, l : LatestEval(e, i, l, pos)' <=> LatestEval(e, i, l, pos)
  BY DEF Callback, IsOpx, LatestEval, IsEval
<1>11. Linked(m, s2, pos)'
  <2>1. m > 0 => frames'[s2[1]].prev = None
    <3> SUFFICES ASSUME m > 0 PROVE frames'[s2[1]].prev = None
      OBVIOUS
    <3>1. 1 \in 1..m /\ n > 0
      BY <1>3
    <3> QED BY <1>4, <1>6, <3>1 DEF Shape, Linked
  <2>2. ASSUME NEW i \in 1..m, i + 1 <= m
        PROVE  frames'[s2[i + 1]].prev = IF Callback(i, pos)' THEN None ELSE s2[i]
    <3>1. i + 1 \in 1..m /\ i \in 1..n /\ i + 1 <= n
      BY <1>2, <1>3, <2>2
    <3> QED BY <1>4, <1>6, <1>10, <3>1 DEF Shape, Linked
  <2>3. \A i \in 1..m : frames'[s2[i]].onerr \in {None, s2[i]}
    BY <1>3, <1>4, <1>6 DEF Shape, Linked
  <2> QED BY <2>1, <2>2, <2>3 DEF Linked
<1>12. Fitting(m, s2, pos)'
  <2>1. ASSUME NEW i \in 1..m, i + 1 <= m
        PROVE  frames'[s2[i + 1]].ret.frame = s2[i] /\ LatestEval(frames'[s2[i + 1]].ret.eval, i, N, pos)
    <3>1. i + 1 \in 1..m /\ i \in 1..n /\ i + 1 <= n
      BY <1>2, <1>3, <2>1
    <3> QED BY <1>4, <1>6, <3>1 DEF Shape, Fitting, Fits
  <2>2. \A k \in 1..N : host[k].ip.frame = s2[pos[k]] /\ LatestEval(host[k].ip.eval, pos[k], k - 1, pos)
    BY <1>4, <1>8 DEF Shape, Fitting, Fits
  <2> QED BY <1>5, <1>10, <2>1, <2>2 DEF Fitting, Fits
<1>13. m > 0 => (Callback(m, pos) <=> AtBottom(m, pos))
  <2>1. \A k \in 1..N : pos[k] <= m
    BY <1>3, <1>8
  <2> QED BY <1>3, <2>1, OpxBelow
<1>14. frame' = (IF AtBottom(m, pos) THEN None ELSE st[m]) /\ (m > 0 => Fits(ip', m, N, st, pos))
  <2>1. CASE m = 0
    <3>1. n = 1
      BY <1>3, <2>1
    <3> QED BY <1>1, <2>1, <3>1 DEF Shape, Linked, AtBottom
  <2>2. CASE m > 0
    <3>1. m \in 1..n /\ m + 1 <= n
      BY <1>2, <1>3, <2>2
    <3>2. frames[st[n]].prev = IF Callback(m, pos) THEN None ELSE st[m]
      BY <1>3, <3>1 DEF Shape, Linked
    <3>3. Fits(frames[st[n]].ret, m, N, st, pos)
      BY <1>3, <3>1 DEF Shape, Fitting
    <3> QED BY <1>1, <1>13, <2>2, <3>2, <3>3
  <2> QED BY <1>3, <2>1, <2>2
<1>15. AtBottom(m, pos)' <=> AtBottom(m, pos)
  BY DEF AtBottom, IsOpx
<1>16. \A g \in DOMAIN frames' : frames'[g] = frames[g]
  BY <1>1
<1>17. Covering(m, s2)'
  <2>1. \A i \in 1..n : i = n \/ i \in 1..m
    BY <1>2, <1>3
  <2> QED BY <1>1, <1>4, <2>1 DEF Covering, Shape
<1> QED BY <1>1, <1>3, <1>7, <1>9, <1>11, <1>12, <1>14, <1>15, <1>16, <1>17 DEF Shape

\* An EVAL or an OPX function starts in the frame on top of the stack.
LEMMA HostPushed ==
  ASSUME NEW n, NEW st, NEW pos, Shape(n, st, pos), n > 0, ~AtBottom(n, pos), host \in Seq(Hosts),
         NEW r \in Hosts, host' = Append(host, r), SameFrames,
         r.frame = st[n], Fits(r.ip, n, Len(host), st, pos),
         NEW p2, Longer(n, pos, p2)
  PROVE  /\ Shape(n, st, p2)'
         /\ Len(host) \in Nat /\ Len(host') = Len(host) + 1 /\ Last(host') = r
         /\ AtBottom(n, p2)' <=> r.kind = "opx"
         /\ r.kind = "eval" => LatestEval(Len(host), n, Len(host), p2)'
         /\ \A e : r.kind = "opx" /\ LatestEval(e, n, Len(host), pos) => LatestEval(e, n, Len(host), p2)'
<1> PICK N : N = Len(host) /\ p2 = [k \in 1..(N + 1) |-> IF k <= N THEN pos[k] ELSE n]
  BY DEF Longer
<1> DEFINE M == N + 1
           Later(e, i, m) == /\ e \in 0..m /\ (e # 0 => host'[e].kind = "eval" /\ p2[e] = i)
                             /\ \A k \in 1..m : k > e => ~(host'[k].kind = "eval" /\ p2[k] = i)
<1>1. N \in Nat /\ M \in Nat /\ \A k \in 1..N : k \in 1..M /\ k < M /\ k # M
  BY HostFact
<1>2. M \in 1..M /\ \A k \in 1..M : k \in 1..N \/ k = M
  BY <1>1
<1>3. Len(host') = M /\ host'[M] = r /\ \A k \in 1..N : host'[k] = host[k]
  BY AppendProperties
<1>4. n \in Nat /\ n \in 1..n /\ pos \in [1..N -> 1..n] /\ \A k \in 1..N : pos[k] \in 1..n /\ pos[k] <= n
    <2>1. n \in Nat /\ pos \in [1..N -> 1..n]
    BY DEF Shape, Ascending, Placed
  <2>2. ASSUME NEW k \in 1..N PROVE pos[k] \in 1..n /\ pos[k] <= n
    BY <2>1
  <2>3. n \in 1..n
    BY <2>1
  <2> QED BY <2>1, <2>2, <2>3
<1>5. /\ p2 \in [1..M -> 1..n] /\ p2[M] = n
      /\ \A k \in 1..N : p2[k] = pos[k]
  BY <1>1, <1>4
<1>6. \A k \in 1..N : (IsOpx(k)' <=> IsOpx(k)) /\ (IsEval(k)' <=> IsEval(k))
  BY <1>3 DEF IsOpx, IsEval
<1>7. \A k \in 1..N : IsOpx(k) => pos[k] < n
  <2> SUFFICES ASSUME NEW k \in 1..N, IsOpx(k) PROVE pos[k] < n
    OBVIOUS
  <2>1. N \in 1..N /\ N > 0 /\ (k = N \/ k < N)
    BY <1>1
  <2>2. CASE k = N
    <3>1. pos[N] # n
      BY <2>1, <2>2 DEF AtBottom
    <3> QED BY <1>4, <2>1, <2>2, <3>1
  <2>3. CASE k < N
    <3>1. pos[k] < pos[N]
      BY <2>1, <2>3 DEF Shape, Placed
    <3> QED BY <1>4, <2>1, <3>1
  <2> QED BY <2>1, <2>2, <2>3
<1>8. Ascending(n, st)' /\ Covering(n, st)'
  BY DEF Shape, Ascending, Covering, SameFrames
<1>9. Placed(n, st, p2)'
  <2>1. \A k \in 1..M : host'[k].frame = st[p2[k]]
    BY <1>2, <1>3, <1>5 DEF Shape, Placed
  <2>2. ASSUME NEW j \in 1..M, NEW k \in 1..M, j < k
        PROVE  p2[j] <= p2[k] /\ (IsOpx(j)' => p2[j] < p2[k])
    <3>1. j \in 1..N
      BY <1>1, <2>2
    <3>2. CASE k \in 1..N
      BY <1>5, <1>6, <2>2, <3>1, <3>2 DEF Shape, Placed
    <3>3. CASE k = M
      BY <1>4, <1>5, <1>6, <1>7, <3>1, <3>3
    <3> QED BY <1>2, <3>2, <3>3
  <2> QED BY <1>3, <1>5, <2>1, <2>2 DEF Placed
<1>10. \A i \in Nat : i < n => (Callback(i, p2)' <=> Callback(i, pos))
  <2> SUFFICES ASSUME NEW i \in Nat, i < n PROVE Callback(i, p2)' <=> Callback(i, pos)
    OBVIOUS
  <2>1. p2[M] # i
    BY <1>4, <1>5
  <2> QED BY <1>1, <1>2, <1>3, <1>5, <1>6, <2>1 DEF Callback
<1>11. \A i \in 1..n : st[i] \in DOMAIN frames
  BY StackedAllocated DEF Shape
<1>12. Linked(n, st, p2)'
  <2>1. 1 \in 1..n /\ \A i \in 1..n : i + 1 <= n => i \in Nat /\ i < n /\ i + 1 \in 1..n
    BY <1>4
  <2>2. \A i \in 1..n : frames'[st[i]].prev = frames[st[i]].prev /\ frames'[st[i]].onerr \in {frames[st[i]].onerr, None, st[i]}
    BY <1>11 DEF SameFrames
  <2>3. Linked(n, st, pos)
    BY DEF Shape
  <2>4. n > 0 => frames'[st[1]].prev = None
    BY <2>1, <2>2, <2>3 DEF Linked
  <2>5. ASSUME NEW i \in 1..n, i + 1 <= n
        PROVE  frames'[st[i + 1]].prev = IF Callback(i, p2)' THEN None ELSE st[i]
    <3>1. frames[st[i + 1]].prev = IF Callback(i, pos) THEN None ELSE st[i]
      BY <2>3, <2>5 DEF Linked
    <3>2. Callback(i, p2)' <=> Callback(i, pos)
      BY <1>10, <2>1, <2>5
    <3>3. frames'[st[i + 1]].prev = frames[st[i + 1]].prev
      BY <2>1, <2>2, <2>5
    <3> QED BY <3>1, <3>2, <3>3
  <2>6. \A i \in 1..n : frames'[st[i]].onerr \in {None, st[i]}
    BY <2>2, <2>3 DEF Linked
  <2> QED BY <2>4, <2>5, <2>6 DEF Linked
<1>13. ASSUME NEW e, NEW i, NEW m \in 0..N, LatestEval(e, i, m, pos) PROVE Later(e, i, m)
  <2>1. e \in 0..m /\ \A k \in 1..m : k \in 1..N
    BY <1>1, <1>13 DEF LatestEval
  <2>2. e # 0 => e \in 1..N
    BY <1>1, <2>1
  <2> QED BY <1>3, <1>5, <1>13, <2>1, <2>2 DEF LatestEval, IsEval
<1>14. ASSUME NEW e, NEW i, LatestEval(e, i, N, pos), i # n \/ r.kind = "opx" PROVE Later(e, i, M)
  <2>1. Later(e, i, N)
    <3>1. N \in 0..N
      BY <1>1
    <3> HIDE DEF Later
    <3> QED BY <1>13, <1>14, <3>1
  <2>2. ~(host'[M].kind = "eval" /\ p2[M] = i)
    BY <1>3, <1>5, <1>14
  <2>3. e \in 0..M
    BY <1>1, <2>1
  <2> QED BY <1>2, <2>1, <2>2, <2>3
<1>15. r.kind = "eval" => LatestEval(M, n, M, p2)'
  <2>1. M \in 0..M /\ ~\E k \in 1..M : k > M
    BY <1>1
  <2> QED BY <1>3, <1>5, <2>1 DEF LatestEval, IsEval
<1>16. Fitting(n, st, p2)'
  <2> HIDE DEF Later
  <2>1. ASSUME NEW i \in 1..n, i + 1 <= n
        PROVE  frames'[st[i + 1]].ret.frame = st[i] /\ Later(frames'[st[i + 1]].ret.eval, i, M)
    <3>1. i + 1 \in 1..n /\ i # n
      BY <1>4, <2>1
    <3>2. Fits(frames[st[i + 1]].ret, i, N, st, pos)
      BY <2>1 DEF Shape, Fitting
    <3>3. frames'[st[i + 1]].ret = frames[st[i + 1]].ret
      BY <1>11, <3>1 DEF SameFrames
    <3> QED BY <1>14, <3>1, <3>2, <3>3 DEF Fits
  <2>2. ASSUME NEW k \in 1..M
        PROVE  host'[k].ip.frame = st[p2[k]] /\ Later(host'[k].ip.eval, p2[k], k - 1)
    <3>1. CASE k \in 1..N
      <4>1. k - 1 \in 0..N
        BY <1>1, <3>1
      <4>2. Fits(host[k].ip, pos[k], k - 1, st, pos)
        BY <3>1 DEF Shape, Fitting
      <4> QED BY <1>3, <1>5, <1>13, <3>1, <4>1, <4>2 DEF Fits
    <3>2. CASE k = M
      <4>1. k - 1 = N /\ N \in 0..N
        BY <1>1, <3>2
      <4> QED BY <1>3, <1>5, <1>13, <3>2, <4>1 DEF Fits
    <3> QED BY <1>2, <3>1, <3>2
  <2> USE DEF Later
  <2> QED BY <1>3, <2>1, <2>2 DEF Fitting, Fits, LatestEval, IsEval
<1>17. Shape(n, st, p2)'
  BY <1>8, <1>9, <1>12, <1>16 DEF Shape
<1>18. \A e : r.kind = "opx" /\ LatestEval(e, n, N, pos) => LatestEval(e, n, M, p2)'
  BY <1>14 DEF LatestEval, IsEval
<1>19. Last(host') = r
  <2>1. host' \in Seq(Hosts) /\ host' # <<>>
    BY AppendProperties
  <2> QED BY <1>3, <2>1, FrontFact
<1>20. AtBottom(n, p2)' <=> r.kind = "opx"
  <2>1. AtBottom(n, p2)' <=> n = 0 \/ (M > 0 /\ host'[M].kind = "opx" /\ p2[M] = n)
    BY <1>3 DEF AtBottom, IsOpx
  <2> QED BY <1>1, <1>3, <1>4, <1>5, <2>1
<1>21. r.kind = "eval" => LatestEval(Len(host), n, Len(host), p2)'
  BY <1>3, <1>15 DEF LatestEval, IsEval
<1>22. \A e : r.kind = "opx" /\ LatestEval(e, n, N, pos) => LatestEval(e, n, Len(host), p2)'
  BY <1>3, <1>18 DEF LatestEval, IsEval
<1> QED BY <1>1, <1>3, <1>17, <1>19, <1>20, <1>21, <1>22

\* The innermost EVAL or OPX function ends, in the frame on top of the stack.
LEMMA HostPopped ==
  ASSUME NEW n, NEW st, NEW pos, Shape(n, st, pos), host \in Seq(Hosts),
         host # <<>>, pos[Len(host)] = n, host' = Front(host), SameFrames,
         NEW p2, Shorter(pos, p2)
  PROVE  /\ Shape(n, st, p2)' /\ ~AtBottom(n, p2)' /\ n > 0
         /\ Last(host) = host[Len(host)] /\ host[Len(host)].frame = st[n]
         /\ \A e : LatestEval(e, n, Len(host) - 1, pos) => LatestEval(e, n, Len(host), p2)'
         /\ \A e : IsOpx(Len(host)) /\ LatestEval(e, n, Len(host), pos) => LatestEval(e, n, Len(host), p2)'
<1> PICK N : N = Len(host) /\ p2 = [k \in 1..(N - 1) |-> pos[k]]
  BY DEF Shorter
<1>0. PICK M : M = N - 1
  OBVIOUS
<1> DEFINE Later(e, i, m) == /\ e \in 0..m /\ (e # 0 => host'[e].kind = "eval" /\ p2[e] = i)
                             /\ \A k \in 1..m : k > e => ~(host'[k].kind = "eval" /\ p2[k] = i)
<1>1. /\ Last(host) = host[N] /\ N \in Nat \ {0} /\ Len(host') = M
      /\ \A k \in 1..M : host'[k] = host[k]
  BY <1>0, FrontFact
<1>2. M \in Nat /\ N \in 1..N /\ \A k \in 1..M : k \in 1..N /\ k < N
  BY <1>0, <1>1
<1>3. n \in Nat /\ pos \in [1..N -> 1..n] /\ host[N].frame = st[n] /\ n \in 1..n /\ n > 0
  <2>1. n \in Nat /\ pos \in [1..N -> 1..n] /\ host[N].frame = st[n]
    BY <1>2 DEF Shape, Ascending, Placed
  <2>2. n \in 1..n
    BY <1>2, <2>1
  <2> QED BY <2>1, <2>2
<1>4. p2 \in [1..M -> 1..n] /\ \A k \in 1..M : p2[k] = pos[k]
  BY <1>0, <1>2, <1>3
<1>5. \A k \in 1..M : (IsOpx(k)' <=> IsOpx(k)) /\ (IsEval(k)' <=> IsEval(k))
  BY <1>1 DEF IsOpx, IsEval
<1>6. \A k \in 1..M : IsOpx(k) => pos[k] < n
  BY <1>2 DEF Shape, Placed
<1>7. Ascending(n, st)' /\ Covering(n, st)'
  BY DEF Shape, Ascending, Covering, SameFrames
<1>8. Placed(n, st, p2)'
  <2>1. \A k \in 1..M : host'[k].frame = st[p2[k]]
    BY <1>1, <1>2, <1>4 DEF Shape, Placed
  <2>2. \A j, k \in 1..M : j < k => p2[j] <= p2[k] /\ (IsOpx(j)' => p2[j] < p2[k])
    BY <1>2, <1>4, <1>5 DEF Shape, Placed
  <2> QED BY <1>1, <1>4, <2>1, <2>2 DEF Placed
<1>9. \A i \in Nat : i < n => (Callback(i, p2)' <=> Callback(i, pos))
  <2> SUFFICES ASSUME NEW i \in Nat, i < n PROVE Callback(i, p2)' <=> Callback(i, pos)
    OBVIOUS
  <2>1. pos[N] # i /\ \A k \in 1..N : k \in 1..M \/ k = N
    BY <1>0, <1>1, <1>3
  <2> QED BY <1>1, <1>2, <1>4, <1>5, <2>1 DEF Callback
<1>10. \A i \in 1..n : st[i] \in DOMAIN frames
  BY StackedAllocated DEF Shape
<1>11. Linked(n, st, p2)'
  <2>1. 1 \in 1..n /\ \A i \in 1..n : i + 1 <= n => i \in Nat /\ i < n /\ i + 1 \in 1..n
    BY <1>3
  <2>2. \A i \in 1..n : frames'[st[i]].prev = frames[st[i]].prev /\ frames'[st[i]].onerr \in {frames[st[i]].onerr, None, st[i]}
    BY <1>10 DEF SameFrames
  <2>3. Linked(n, st, pos)
    BY DEF Shape
  <2>4. n > 0 => frames'[st[1]].prev = None
    BY <2>1, <2>2, <2>3 DEF Linked
  <2>5. ASSUME NEW i \in 1..n, i + 1 <= n
        PROVE  frames'[st[i + 1]].prev = IF Callback(i, p2)' THEN None ELSE st[i]
    <3>1. frames[st[i + 1]].prev = IF Callback(i, pos) THEN None ELSE st[i]
      BY <2>3, <2>5 DEF Linked
    <3>2. Callback(i, p2)' <=> Callback(i, pos)
      BY <1>9, <2>1, <2>5
    <3>3. frames'[st[i + 1]].prev = frames[st[i + 1]].prev
      BY <2>1, <2>2, <2>5
    <3> QED BY <3>1, <3>2, <3>3
  <2>6. \A i \in 1..n : frames'[st[i]].onerr \in {None, st[i]}
    BY <2>2, <2>3 DEF Linked
  <2> QED BY <2>4, <2>5, <2>6 DEF Linked
<1>12. ASSUME NEW e, NEW i, NEW m \in 0..M, LatestEval(e, i, m, pos) PROVE Later(e, i, m)
  <2>1. e \in 0..m /\ \A k \in 1..m : k \in 1..M
    BY <1>2, <1>12 DEF LatestEval
  <2>2. e # 0 => e \in 1..M
    BY <1>2, <2>1
  <2> QED BY <1>1, <1>4, <1>12, <2>1, <2>2 DEF LatestEval, IsEval
<1>13. ASSUME NEW e, NEW i, LatestEval(e, i, N, pos), i # n \/ IsOpx(N) PROVE LatestEval(e, i, M, pos)
  <2>1. e # N
    BY <1>1, <1>13 DEF LatestEval, IsEval, IsOpx
  <2>2. e \in 0..M
    BY <1>0, <1>1, <1>13, <2>1 DEF LatestEval
  <2> QED BY <1>2, <1>13, <2>2 DEF LatestEval
<1>14. M \in 0..M
  BY <1>2
<1>15. Fitting(n, st, p2)'
  <2> HIDE DEF Later
  <2>1. ASSUME NEW i \in 1..n, i + 1 <= n
        PROVE  frames'[st[i + 1]].ret.frame = st[i] /\ Later(frames'[st[i + 1]].ret.eval, i, M)
    <3>1. i + 1 \in 1..n /\ i # n
      BY <1>3, <2>1
    <3>2. Fits(frames[st[i + 1]].ret, i, N, st, pos)
      BY <2>1 DEF Shape, Fitting
    <3>3. frames'[st[i + 1]].ret = frames[st[i + 1]].ret
      BY <1>10, <3>1 DEF SameFrames
    <3> QED BY <1>12, <1>13, <1>14, <3>1, <3>2, <3>3 DEF Fits
  <2>2. ASSUME NEW k \in 1..M
        PROVE  host'[k].ip.frame = st[p2[k]] /\ Later(host'[k].ip.eval, p2[k], k - 1)
    <3>1. k - 1 \in 0..M /\ k \in 1..N
      BY <1>2
    <3>2. Fits(host[k].ip, pos[k], k - 1, st, pos)
      BY <3>1 DEF Shape, Fitting
    <3> QED BY <1>1, <1>4, <1>12, <3>1, <3>2 DEF Fits
  <2> USE DEF Later
  <2>3. \A i \in 1..n : i + 1 <= n => Fits(frames[st[i + 1]].ret, i, Len(host), st, p2)'
    BY <1>1, <2>1 DEF Fits, LatestEval, IsEval
  <2>4. \A k \in 1..M : Fits(host[k].ip, p2[k], k - 1, st, p2)'
    BY <1>1, <2>2 DEF Fits, LatestEval, IsEval
  <2> QED BY <1>1, <2>3, <2>4 DEF Fitting
<1>16. Shape(n, st, p2)'
  BY <1>7, <1>8, <1>11, <1>15 DEF Shape
<1>17. ~AtBottom(n, p2)'
  <2>1. M > 0 => M \in 1..M
    BY <1>2
  <2>2. M > 0 /\ host'[M].kind = "opx" => p2[M] # n
    BY <1>1, <1>2, <1>3, <1>4, <1>6, <2>1 DEF IsOpx
  <2>3. AtBottom(n, p2)' <=> n = 0 \/ (M > 0 /\ host'[M].kind = "opx" /\ p2[M] = n)
    BY <1>1 DEF AtBottom, IsOpx
  <2> QED BY <1>3, <2>2, <2>3
<1>18. \A e : LatestEval(e, n, M, pos) => LatestEval(e, n, M, p2)'
  <2> SUFFICES ASSUME NEW e, LatestEval(e, n, M, pos) PROVE LatestEval(e, n, M, p2)'
    OBVIOUS
  <2>1. Later(e, n, M)
    <3> HIDE DEF Later
    <3> QED BY <1>12, <1>14
  <2> QED BY <2>1 DEF LatestEval, IsEval
<1>19. \A e : LatestEval(e, n, M, pos) => LatestEval(e, n, Len(host), p2)'
  BY <1>1, <1>18 DEF LatestEval, IsEval
<1> QED BY <1>0, <1>1, <1>3, <1>13, <1>16, <1>17, <1>19

-----------------------------------------------------------------------------
(* What is on top of the stack.                                            *)

\* The innermost EVAL or OPX function of the top frame is the innermost of all.
LEMMA EvalOnTop ==
  ASSUME NEW n, NEW st, NEW pos, Shape(n, st, pos), n > 0, ~AtBottom(n, pos), host \in Seq(Hosts)
  PROVE  /\ \A k \in 1..Len(host) : IsEval(k) /\ pos[k] = n =>
              host # <<>> /\ pos[Len(host)] = n /\ IsEval(Len(host))
         /\ (\A k \in 1..Len(host) : ~(IsEval(k) /\ pos[k] = n)) => \A k \in 1..Len(host) : pos[k] # n
<1>1. PICK N : N = Len(host)
  OBVIOUS
<1>2. N \in Nat /\ (host = <<>> <=> N = 0) /\ \A k \in 1..N : IsEval(k) \/ IsOpx(k)
  BY <1>1, HostFact DEF IsEval, IsOpx
<1>3. n \in Nat /\ \A k \in 1..N : pos[k] \in 1..n
  BY <1>1 DEF Shape, Ascending, Placed
<1>4. ASSUME NEW k \in 1..N, pos[k] = n PROVE N > 0 /\ pos[N] = n /\ IsEval(N)
  <2>1. N \in 1..N /\ N > 0 /\ (k = N \/ k < N)
    BY <1>2
  <2>2. pos[N] = n
    <3>1. CASE k < N
      <4>1. pos[k] <= pos[N]
        BY <1>1, <2>1, <3>1 DEF Shape, Placed
      <4> QED BY <1>3, <1>4, <2>1, <4>1
    <3> QED BY <1>4, <2>1, <3>1
  <2>3. ~IsOpx(N)
    BY <1>1, <2>1, <2>2 DEF AtBottom
  <2> QED BY <1>2, <2>1, <2>2, <2>3
<1>5. \A k \in 1..N : pos[k] = n => N \in 1..N
  BY <1>2
<1> QED BY <1>1, <1>2, <1>4, <1>5

\* A step while an opcode runs, or an error is handled, in the current frame.
LEMMA OnTop ==
  ASSUME PInv, EvalsCounted, NEW n, NEW st, NEW pos, Shape(n, st, pos), Control(n, st, pos), Current, mode # "opx"
  PROVE  /\ n \in Nat /\ n > 0 /\ n \in 1..n /\ ~AtBottom(n, pos) /\ frame = st[n]
         /\ mode = "run" \/ trap => Fits(ip, n, Len(host), st, pos)
         /\ frames[frame].evals = 0 => \A k \in 1..Len(host) : pos[k] # n
         /\ Evaluates(frame) => host # <<>> /\ pos[Len(host)] = n /\ IsEval(Len(host))
<1>1. host \in Seq(Hosts) /\ FramesTyped
  BY DEF PInv, ControlTypes
<1>2. frame # None
  BY <1>1 DEF FramesTyped, Current, Frames, None
<1>3. n \in Nat /\ n > 0 /\ ~AtBottom(n, pos) /\ frame = st[n]
  <2>1. ~AtBottom(n, pos) /\ frame = st[n]
    BY <1>2 DEF Control
  <2>2. n \in Nat /\ n # 0
    BY <2>1 DEF Shape, Ascending, AtBottom
  <2> QED BY <2>1, <2>2
<1>4. n \in 1..n
  BY <1>3
<1>5. mode = "run" \/ trap => Fits(ip, n, Len(host), st, pos)
  BY <1>3 DEF Control, Unresolved
<1>6. \A k \in 1..Len(host) : pos[k] \in 1..n /\ host[k].frame = st[pos[k]] /\ k \in DOMAIN host
  BY <1>1, HostFact DEF Shape, Placed
<1>7. \A k \in DOMAIN host : k \in 1..Len(host)
  BY <1>1, HostFact
<1>8. \A k \in 1..Len(host) : host[k].frame = frame <=> pos[k] = n
  <2> SUFFICES ASSUME NEW k \in 1..Len(host), st[pos[k]] = st[n] PROVE pos[k] = n
    BY <1>3, <1>6
  <2>1. CASE pos[k] < n
    <3>1. st[pos[k]] < st[n] /\ st[n] \in Nat
      BY <1>4, <1>6, <2>1 DEF Shape, Ascending, Frames
    <3> QED BY <3>1
  <2> QED BY <1>3, <1>6, <2>1
<1>9. frames[frame].evals = Cardinality(EvalsIn(host, frame))
  BY EvalsAtIn DEF EvalsCounted, Current
<1>10. Cardinality(EvalsIn(host, frame)) \in Nat /\ (Cardinality(EvalsIn(host, frame)) = 0 <=> EvalsIn(host, frame) = {})
  BY <1>1, EvalsInFact
<1>11. frames[frame].evals = 0 => \A k \in 1..Len(host) : ~(IsEval(k) /\ pos[k] = n)
  BY <1>6, <1>8, <1>9, <1>10 DEF EvalsIn, IsEval
<1>12. Evaluates(frame) => \E k \in 1..Len(host) : IsEval(k) /\ pos[k] = n
  <2>1. Evaluates(frame) => EvalsIn(host, frame) # {}
    BY <1>9, <1>10 DEF Evaluates
  <2> QED BY <1>7, <1>8, <2>1 DEF EvalsIn, IsEval
<1> QED BY <1>1, <1>3, <1>4, <1>5, <1>11, <1>12, EvalOnTop

LEMMA StackedNext ==
  ASSUME NEW n, NEW st, NEW pos, At(n, st, pos)', EvalsCounted'
  PROVE  FInv'
BY DEF FInv, Stacked

\* Steps that keep the frames, the EVALs and the OPX functions.
LEMMA KeptCounts ==
  ASSUME EvalsCounted, UNCHANGED host, DOMAIN frames' = DOMAIN frames,
         \A f \in DOMAIN frames : frames'[f].evals = frames[f].evals
  PROVE  EvalsCounted'
BY DEF EvalsCounted, EvalsAt

LEMMA Stays ==
  ASSUME PInv, EvalsCounted, NEW n, NEW st, NEW pos, At(n, st, pos),
         UNCHANGED <<frame, host>>, SameFrames, DOMAIN frames' = DOMAIN frames,
         \A f \in DOMAIN frames : frames'[f].evals = frames[f].evals,
         mode = "run" \/ (mode = "leave" /\ trap), Current,
         ip'.frame = ip.frame, ip'.eval = ip.eval,
         mode' \in {"run", "leave"} \/ (mode = "run" /\ mode' = "exit" /\ (host = <<>> \/ ip.eval > 0))
  PROVE  At(n, st, pos)' /\ EvalsCounted'
<1>1. EvalsCounted /\ EvalsCounted' /\ host \in Seq(Hosts) /\ ip \in Codes
  BY KeptCounts DEF PInv, ControlTypes
<1>2. Shape(n, st, pos) /\ Control(n, st, pos)
  BY DEF At
<1>3. n > 0 /\ n \in Nat /\ ~AtBottom(n, pos) /\ frame = st[n] /\ Fits(ip, n, Len(host), st, pos)
  BY <1>1, <1>2, OnTop
<1>4. Shape(n, st, pos)'
  BY <1>2, ShapeKept
<1>5. ~AtBottom(n, pos)' /\ Fits(ip, n, Len(host), st, pos)'
  BY <1>3 DEF AtBottom, Fits, LatestEval, IsOpx, IsEval
<1>6. mode' = "exit" => host = <<>> \/ (IsEval(Len(host)) /\ pos[Len(host)] = n)
  <2> SUFFICES ASSUME ip.eval > 0, ip.eval \in Nat PROVE IsEval(Len(host)) /\ pos[Len(host)] = n
    BY <1>1 DEF Codes
  <2>1. ip.eval \in 0..Len(host) /\ IsEval(ip.eval) /\ pos[ip.eval] = n
    BY <1>3 DEF Fits, LatestEval
  <2>2. ip.eval \in 1..Len(host)
    BY <2>1
  <2> QED BY <1>1, <1>2, <1>3, <2>1, <2>2, EvalOnTop
<1>7. Control(n, st, pos)'
  <2>1. mode' = "exit" => Len(host) = 0 \/ (IsEval(Len(host)) /\ pos[Len(host)] = n)
    BY <1>1, <1>6, HostFact
  <2>2. mode' # "opx" /\ frame' = st[n]
    BY <1>3
  <2> QED BY <1>5, <2>1, <2>2 DEF Control, IsEval
<1> QED BY <1>1, <1>4, <1>7 DEF At

-----------------------------------------------------------------------------
(* Each action keeps the stack of frames.                                  *)

\* RETURN, or an error without a handler: the frame has no EVAL in progress.
LEMMA FrameGoes ==
  ASSUME PInv, EvalsCounted, NEW n, NEW st, NEW pos, At(n, st, pos), Current, mode = "run" \/ Unwinding, DeleteFrame(frame), UNCHANGED host,
         (mode = "run" /\ ip.eval = 0) \/ ~Evaluates(frame),
         mode' = "leave" \/ mode' = IF frames[frame].prev = None THEN "exit" ELSE "run",
         NEW m, NEW s2, Lower(n, st, m, s2)
  PROVE  /\ At(m, s2, pos)' /\ EvalsCounted'
         /\ n > 0 /\ n \in 1..n /\ m \in Nat /\ ~AtBottom(n, pos) /\ frame = st[n]
         /\ \A k \in 1..Len(host) : pos[k] # n
         /\ AtBottom(m, pos)' <=> AtBottom(m, pos)
         /\ frame' = IF AtBottom(m, pos) THEN None ELSE st[m]
<1>1. EvalsCounted /\ host \in Seq(Hosts) /\ FramesTyped
  BY DEF PInv, ControlTypes, Unwinding
<1>2. Shape(n, st, pos) /\ Control(n, st, pos)
  BY DEF At
<1>3. /\ n > 0 /\ n \in Nat /\ n \in 1..n /\ ~AtBottom(n, pos) /\ frame = st[n]
      /\ mode = "run" => Fits(ip, n, Len(host), st, pos)
  BY <1>1, <1>2, OnTop DEF Unwinding
<1>4. \A k \in 1..Len(host) : pos[k] # n
  <2>1. CASE mode = "run" /\ ip.eval = 0
    <3>1. \A k \in 1..Len(host) : k > 0
      BY <1>1, HostFact
    <3>2. \A k \in 1..Len(host) : ~(IsEval(k) /\ pos[k] = n)
      BY <1>3, <2>1, <3>1 DEF Fits, LatestEval
    <3> QED BY <1>1, <1>2, <1>3, <3>2, EvalOnTop
  <2>2. CASE ~Evaluates(frame)
    <3>1. frames[frame].evals = Cardinality(EvalsIn(host, frame)) /\ Cardinality(EvalsIn(host, frame)) \in Nat
      BY <1>1, EvalsAtIn, EvalsInFact DEF EvalsCounted, Current
    <3>2. frames[frame].evals = 0
      BY <2>2, <3>1 DEF Evaluates
    <3> QED BY <1>1, <1>2, <3>2, OnTop DEF Unwinding
  <2> QED BY <2>1, <2>2
<1>7. /\ m \in Nat /\ Shape(m, s2, pos)' /\ (AtBottom(m, pos)' <=> AtBottom(m, pos))
      /\ frame' = IF AtBottom(m, pos) THEN None ELSE st[m]
      /\ m > 0 => Fits(ip', m, Len(host), st, pos)
      /\ DOMAIN frames' \subseteq DOMAIN frames /\ \A g \in DOMAIN frames' : frames'[g] = frames[g]
  <2>1. DeleteFrame(st[n])
    BY <1>3
  <2>2. Shape(m, s2, pos)' /\ m \in Nat
    BY <1>1, <1>2, <1>3, <1>4, <2>1, FramePopped
  <2>3. /\ AtBottom(m, pos)' <=> AtBottom(m, pos)
        /\ frame' = IF AtBottom(m, pos) THEN None ELSE st[m]
        /\ m > 0 => Fits(ip', m, Len(host), st, pos)
    BY <1>1, <1>2, <1>3, <1>4, <2>1, FramePopped
  <2>4. DOMAIN frames' = DOMAIN frames \ {st[n]} /\ \A g \in DOMAIN frames' : frames'[g] = frames[g]
    BY <1>1, <1>2, <1>3, <1>4, <2>1, FramePopped
  <2> QED BY <2>2, <2>3, <2>4
<1>8. EvalsCounted'
  BY <1>1, <1>7 DEF EvalsCounted, EvalsAt
<1>9. m > 0 => m \in 1..m /\ s2[m] = st[m] /\ st[m] # None
  <2>1. m > 0 => m \in 1..m /\ m \in 1..n /\ s2[m] = st[m]
    BY <1>3, <1>7 DEF Lower
  <2> QED BY <1>2, <2>1, StackedAllocated DEF Shape
<1>10. mode' \in {"leave", "run", "exit"} /\ (mode' = "run" => frame' # None) /\ (mode' = "exit" => frame' = None)
  BY DEF DeleteFrame
<1>11. ~AtBottom(m, pos) => m > 0
  <2>1. m \in Nat
    BY <1>7
  <2> QED BY <2>1 DEF AtBottom
<1>12. Control(m, s2, pos)'
  <2>1. m > 0 => ip'.frame = s2[m] /\ LatestEval(ip'.eval, m, Len(host), pos)
    BY <1>7, <1>9 DEF Fits
  <2>2. m > 0 => Fits(ip, m, Len(host), s2, pos)'
    BY <2>1 DEF Fits, LatestEval, IsEval
  <2>3. frame' = IF AtBottom(m, pos)' /\ mode' # "opx" THEN None ELSE s2[m]
    BY <1>7, <1>9, <1>10, <1>11
  <2>4. (mode' = "run" => ~AtBottom(m, pos)') /\ (mode' = "exit" => AtBottom(m, pos)')
    BY <1>7, <1>9, <1>10, <1>11
  <2> QED BY <1>10, <2>2, <2>3, <2>4 DEF Control
<1> QED BY <1>3, <1>4, <1>7, <1>8, <1>12 DEF At

\* The count of a frame's EVALs changes with the EVALs in progress.
LEMMA EvalsChange ==
  ASSUME PInv, NEW f \in DOMAIN frames, NEW d \in {1, -1}, frames' = [frames EXCEPT ![f].evals = @ + d],
         EvalsCounted,
         \A g : Cardinality(EvalsIn(host', g)) = Cardinality(EvalsIn(host, g)) + (IF g = f THEN d ELSE 0)
  PROVE  SameFrames /\ EvalsCounted'
<1>1. FramesTyped /\ host \in Seq(Hosts)
  BY DEF PInv, ControlTypes
<1>2. /\ DOMAIN frames' = DOMAIN frames /\ frames'[f].evals = frames[f].evals + d
      /\ \A g \in DOMAIN frames : g # f => frames'[g].evals = frames[g].evals
      /\ \A g \in DOMAIN frames : /\ frames'[g].prev = frames[g].prev /\ frames'[g].ret = frames[g].ret
                                  /\ frames'[g].onerr = frames[g].onerr /\ frames'[g].base = frames[g].base
                                  /\ frames'[g].def = frames[g].def /\ frames'[g].byName = frames[g].byName
  BY <1>1 DEF FramesTyped, FrameRecords
<1>3. EvalsCounted'
  <2> SUFFICES ASSUME NEW g \in DOMAIN frames PROVE frames'[g].evals = Cardinality(EvalsIn(host', g))
    BY <1>2 DEF EvalsCounted, EvalsAt, EvalsIn
  <2>1. frames[g].evals = Cardinality(EvalsIn(host, g)) /\ Cardinality(EvalsIn(host, g)) \in Nat
    BY <1>1, EvalsAtIn, EvalsInFact DEF EvalsCounted
  <2> QED BY <1>2, <2>1
<1> QED BY <1>2, <1>3 DEF SameFrames

\* An EVAL starts.
LEMMA EvalStarts ==
  ASSUME PInv, EvalsCounted, NEW n, NEW st, NEW pos, At(n, st, pos), mode = "run", Current, UNCHANGED <<mode, frame>>,
         NEW r \in Hosts, r.kind = "eval", r.frame = frame, r.ip = ip, host' = Append(host, r),
         SameFrames, EvalsCounted', ip' = Code(frame, Len(host) + 1, 0),
         NEW p2, Longer(n, pos, p2)
  PROVE  At(n, st, p2)' /\ EvalsCounted'
<1>1. EvalsCounted /\ host \in Seq(Hosts) /\ FramesTyped /\ ip \in Codes /\ frame \in Frames
  BY DEF PInv, ControlTypes, FramesTyped, Current
<1>2. Shape(n, st, pos) /\ Control(n, st, pos)
  BY DEF At
<1>3. n > 0 /\ n \in Nat /\ ~AtBottom(n, pos) /\ frame = st[n] /\ Fits(ip, n, Len(host), st, pos)
  BY <1>1, <1>2, OnTop
<1>4. Shape(n, st, pos) /\ Fits(r.ip, n, Len(host), st, pos) /\ r.frame = st[n]
  BY <1>2, <1>3
<1>5. Shape(n, st, p2)' /\ ~AtBottom(n, p2)'
  BY <1>1, <1>3, <1>4, HostPushed
<1>6. Len(host') = Len(host) + 1 /\ LatestEval(Len(host), n, Len(host), p2)'
  BY <1>1, <1>3, <1>4, HostPushed
<1>7. Fits(ip, n, Len(host), st, p2)'
  <2>1. ip'.frame = st[n] /\ ip'.eval = Len(host')
    BY <1>3, <1>6 DEF Code
  <2> QED BY <1>6, <2>1 DEF Fits, LatestEval, IsEval
<1>8. Control(n, st, p2)'
  BY <1>3, <1>5, <1>7 DEF Control
<1> QED BY <1>5, <1>8 DEF At

\* An OPX function starts.
LEMMA OpxStarts ==
  ASSUME PInv, EvalsCounted, NEW n, NEW st, NEW pos, At(n, st, pos), mode = "run", Current, mode' = "opx", UNCHANGED <<ip, frame, frames>>,
         host' = Append(host, [kind |-> "opx", frame |-> frame, ip |-> ip]),
         NEW p2, Longer(n, pos, p2)
  PROVE  At(n, st, p2)' /\ EvalsCounted'
<1>1. EvalsCounted /\ host \in Seq(Hosts) /\ FramesTyped /\ ip \in Codes /\ frame \in Frames
  BY DEF PInv, ControlTypes, FramesTyped, Current
<1>2. Shape(n, st, pos) /\ Control(n, st, pos)
  BY DEF At
<1>3. n > 0 /\ n \in Nat /\ ~AtBottom(n, pos) /\ frame = st[n] /\ Fits(ip, n, Len(host), st, pos)
  BY <1>1, <1>2, OnTop
<1>4. PICK r : r = [kind |-> "opx", frame |-> frame, ip |-> ip]
  OBVIOUS
<1>5. r \in Hosts /\ r.kind = "opx" /\ r.frame = frame /\ r.ip = ip
  BY <1>1, <1>4 DEF Hosts
<1>6. EvalsCounted'
  <2> SUFFICES ASSUME NEW f \in DOMAIN frames PROVE frames[f].evals = Cardinality(EvalsIn(host', f))
    BY EvalsAtIn DEF EvalsCounted, EvalsAt, EvalsIn
  <2>1. Cardinality(EvalsIn(host', f)) = Cardinality(EvalsIn(host, f)) + 0
    BY <1>1, <1>4, <1>5, EvalsInAppend
  <2>2. frames[f].evals = Cardinality(EvalsIn(host, f)) /\ Cardinality(EvalsIn(host, f)) \in Nat
    BY <1>1, EvalsAtIn, EvalsInFact DEF EvalsCounted
  <2> QED BY <2>1, <2>2
<1>7. SameFrames
  BY DEF SameFrames
<1>8. Shape(n, st, pos) /\ Fits(r.ip, n, Len(host), st, pos) /\ r.frame = st[n] /\ host' = Append(host, r)
  BY <1>2, <1>3, <1>4, <1>5
<1>9. Shape(n, st, p2)' /\ AtBottom(n, p2)'
  BY <1>1, <1>3, <1>5, <1>7, <1>8, HostPushed
<1>10. LatestEval(ip.eval, n, Len(host), pos)
  BY <1>3 DEF Fits
<1>11. Fits(ip, n, Len(host), st, p2)'
  <2>1. PICK e : e = ip.eval
    OBVIOUS
  <2>2. LatestEval(e, n, Len(host), p2)'
    BY <1>1, <1>3, <1>5, <1>7, <1>8, <1>10, <2>1, HostPushed
  <2>3. ip'.frame = st[n] /\ ip'.eval = e
    BY <1>3, <2>1 DEF Fits
  <2> QED BY <2>2, <2>3 DEF Fits, LatestEval, IsEval
<1>12. Control(n, st, p2)'
  BY <1>3, <1>9, <1>11 DEF Control
<1> QED BY <1>6, <1>9, <1>12 DEF At

\* An EVAL ends: nothing runs above the frame that EVALuates.
LEMMA EvalStops ==
  ASSUME PInv, EvalsCounted, NEW n, NEW st, NEW pos, At(n, st, pos), Innermost("eval"), mode = "exit" \/ GivesUp, mode' \in {"run", "leave"}, UNCHANGED frame,
         host' = Front(host), NEW c, c = Last(host).ip, ip' = c, SameFrames, EvalsCounted',
         NEW p2, Shorter(pos, p2)
  PROVE  At(n, st, p2)' /\ EvalsCounted' /\ n > 0 /\ n \in 1..n /\ pos[Len(host)] = n /\ ~AtBottom(n, pos) /\ frame = st[n]
<1>1. EvalsCounted /\ host \in Seq(Hosts) /\ FramesTyped /\ mode # "opx"
  BY DEF PInv, ControlTypes, GivesUp, Unwinding
<1>2. Shape(n, st, pos) /\ Control(n, st, pos)
  BY DEF At
<1>3. PICK N : N = Len(host)
  OBVIOUS
<1>4. N \in Nat /\ N > 0 /\ N \in 1..N /\ Last(host) = host[N] /\ host # <<>> /\ IsEval(N) /\ ~IsOpx(N)
  BY <1>1, <1>3, FrontFact DEF Innermost, IsEval, IsOpx
<1>5. n \in Nat /\ n > 0 /\ n \in 1..n /\ pos[N] \in 1..n
  <2>1. n \in Nat /\ pos[N] \in 1..n
    BY <1>2, <1>3, <1>4 DEF Shape, Ascending, Placed
  <2> QED BY <2>1
<1>6. ~AtBottom(n, pos) /\ frame = st[n] /\ st[n] # None
  BY <1>1, <1>2, <1>3, <1>4, <1>5, StackedAllocated DEF AtBottom, Control, Shape
<1>7. pos[N] = n
  <2>1. CASE mode = "exit"
    BY <1>2, <1>3, <1>4, <1>6, <2>1 DEF Control
  <2>2. CASE GivesUp
    BY <1>1, <1>2, <1>3, <1>4, <1>6, <2>2, OnTop DEF GivesUp
  <2> QED BY <2>1, <2>2
<1>8. Shape(n, st, pos) /\ host \in Seq(Hosts) /\ host # <<>> /\ pos[Len(host)] = n
  BY <1>1, <1>2, <1>3, <1>4, <1>7
<1>9. Shape(n, st, p2)' /\ ~AtBottom(n, p2)'
  BY <1>8, HostPopped
<1>10. Fits(ip, n, Len(host), st, p2)'
  <2>1. Fits(host[N].ip, n, N - 1, st, pos)
    BY <1>2, <1>3, <1>4, <1>7 DEF Shape, Fitting
  <2>2. LatestEval(c.eval, n, Len(host) - 1, pos) /\ c.frame = st[n]
    BY <1>3, <1>4, <2>1 DEF Fits
  <2>3. PICK e : e = c.eval
    OBVIOUS
  <2>4. LatestEval(e, n, Len(host), p2)'
    BY <1>8, <2>2, <2>3, HostPopped
  <2> QED BY <2>2, <2>3, <2>4 DEF Fits, LatestEval, IsEval
<1>11. Control(n, st, p2)'
  BY <1>6, <1>9, <1>10 DEF Control
<1> QED BY <1>3, <1>5, <1>6, <1>7, <1>9, <1>11 DEF At

\* An OPX function in control belongs to the frame on top of the stack.
LEMMA OpxOnTop ==
  ASSUME PInv, NEW n, NEW st, NEW pos, Shape(n, st, pos), host # <<>>, IsOpx(Len(host)), AtBottom(n, pos)
  PROVE  /\ n \in Nat /\ n > 0 /\ n \in 1..n /\ pos[Len(host)] = n /\ Callback(n, pos)
         /\ Len(host) \in Nat /\ Len(host) > 0 /\ Last(host) = host[Len(host)] /\ host[Len(host)].frame = st[n]
<1>1. host \in Seq(Hosts)
  BY DEF PInv, ControlTypes
<1>2. PICK N : N = Len(host)
  OBVIOUS
<1>3. N \in Nat /\ N > 0 /\ N \in 1..N /\ Last(host) = host[N]
  <2>1. N \in Nat \ {0} /\ Last(host) = host[N]
    BY <1>1, <1>2, FrontFact
  <2> QED BY <2>1
<1>4. n \in Nat /\ pos[N] \in 1..n /\ host[N].frame = st[pos[N]]
  BY <1>2, <1>3 DEF Shape, Ascending, Placed
<1>5. pos[N] = n /\ n > 0 /\ n \in 1..n
  <2>1. n > 0
    BY <1>4
  <2>2. pos[N] = n
    BY <1>2, <2>1 DEF AtBottom
  <2> QED BY <1>4, <2>1, <2>2
<1> QED BY <1>2, <1>3, <1>4, <1>5 DEF Callback

\* While an OPX function is in control, or when its callback ends.
LEMMA OpxInFrame ==
  ASSUME PInv, EvalsCounted, NEW n, NEW st, NEW pos, At(n, st, pos),
         mode = "opx" \/ (Innermost("opx") /\ (mode = "exit" \/ GivesUp))
  PROVE  /\ Shape(n, st, pos) /\ host # <<>> /\ IsOpx(Len(host)) /\ AtBottom(n, pos)
         /\ mode = "opx" => frame = st[n]
         /\ Fits(ip, n, Len(host), st, pos)
<1>1. EvalsCounted /\ host \in Seq(Hosts)
  BY DEF PInv, ControlTypes, GivesUp, Unwinding
<1>2. Shape(n, st, pos) /\ Control(n, st, pos)
  BY DEF At
<1>3. host # <<>> /\ Last(host).kind = "opx"
  BY DEF PInv, OpxInControl, Innermost
<1>4. PICK N : N = Len(host)
  OBVIOUS
<1>5. N \in Nat /\ N > 0 /\ N \in 1..N /\ Last(host) = host[N] /\ IsOpx(N) /\ ~IsEval(N)
  <2>1. N \in Nat \ {0} /\ Last(host) = host[N]
    BY <1>1, <1>3, <1>4, FrontFact
  <2> QED BY <1>3, <2>1 DEF IsOpx, IsEval
<1>6. n \in Nat /\ n > 0 /\ n \in 1..n
  <2>1. n \in Nat /\ pos[N] \in 1..n
    BY <1>2, <1>4, <1>5 DEF Shape, Ascending, Placed
  <2> QED BY <2>1
<1>7. AtBottom(n, pos)
  <2>1. CASE mode = "opx"
    BY <1>2, <2>1 DEF Control
  <2>2. CASE mode = "exit"
    BY <1>2, <1>4, <1>5, <2>2 DEF Control
  <2>3. CASE GivesUp
    <3>1. mode = "leave"
      BY <2>3 DEF GivesUp, Unwinding
    <3>2. st[n] # None
      BY <1>2, <1>6, StackedAllocated DEF Shape
    <3>3. CASE frame = None
      BY <1>2, <3>2, <3>3 DEF Control
    <3>4. CASE Current /\ Evaluates(frame)
      BY <1>1, <1>2, <1>4, <1>5, <3>1, <3>4, OnTop
    <3> QED BY <2>3, <3>3, <3>4 DEF GivesUp
  <2> QED BY <2>1, <2>2, <2>3
<1> QED BY <1>2, <1>3, <1>4, <1>5, <1>6, <1>7 DEF Control

\* An OPX function ends.
LEMMA OpxStops ==
  ASSUME PInv, EvalsCounted, NEW n, NEW st, NEW pos, At(n, st, pos), mode = "opx", mode' \in {"run", "leave"}, UNCHANGED <<ip, frame, frames>>, host' = Front(host),
         NEW p2, Shorter(pos, p2)
  PROVE  At(n, st, p2)' /\ EvalsCounted' /\ pos[Len(host)] = n /\ n > 0
<1>1. EvalsCounted /\ host \in Seq(Hosts)
  BY DEF PInv, ControlTypes
<1>2. /\ Shape(n, st, pos) /\ host # <<>> /\ IsOpx(Len(host)) /\ AtBottom(n, pos)
                        /\ frame = st[n] /\ Fits(ip, n, Len(host), st, pos)
  BY OpxInFrame
<1>3. n \in Nat /\ n > 0 /\ pos[Len(host)] = n /\ Last(host).kind = "opx"
  BY <1>2, OpxOnTop DEF IsOpx
<1>4. EvalsCounted'
  <2> SUFFICES ASSUME NEW f \in DOMAIN frames PROVE frames[f].evals = Cardinality(EvalsIn(host', f))
    BY DEF EvalsCounted, EvalsAt, EvalsIn
  <2>1. Cardinality(EvalsIn(host', f)) = Cardinality(EvalsIn(host, f)) - 0
    BY <1>1, <1>2, <1>3, EvalsInFront
  <2>2. frames[f].evals = Cardinality(EvalsIn(host, f)) /\ Cardinality(EvalsIn(host, f)) \in Nat
    BY <1>1, EvalsAtIn, EvalsInFact DEF EvalsCounted
  <2> QED BY <2>1, <2>2
<1>5. SameFrames
  BY DEF SameFrames
<1>6. Shape(n, st, p2)' /\ ~AtBottom(n, p2)'
  BY <1>1, <1>2, <1>3, <1>5, HostPopped
<1>7. Fits(ip, n, Len(host), st, p2)'
  <2>1. PICK e : e = ip.eval
    OBVIOUS
  <2>2. LatestEval(e, n, Len(host), pos) /\ ip.frame = st[n]
    BY <1>2, <2>1 DEF Fits
  <2>3. LatestEval(e, n, Len(host), p2)'
    BY <1>1, <1>2, <1>3, <1>5, <2>2, HostPopped
  <2> QED BY <2>1, <2>2, <2>3 DEF Fits, LatestEval, IsEval
<1>8. Control(n, st, p2)'
  BY <1>2, <1>6, <1>7 DEF Control
<1> QED BY <1>3, <1>4, <1>6, <1>8 DEF At

\* A callback ends: the frame that called the OPX function is current again.
LEMMA CallbackStops ==
  ASSUME PInv, EvalsCounted, NEW n, NEW st, NEW pos, At(n, st, pos), Innermost("opx"), mode = "exit" \/ GivesUp, mode' = "opx", frame' = Last(host).frame,
         UNCHANGED <<ip, frames, host>>
  PROVE  At(n, st, pos)' /\ EvalsCounted'
<1>1. EvalsCounted'
  BY KeptCounts
<1>2. /\ Shape(n, st, pos) /\ host # <<>> /\ IsOpx(Len(host)) /\ AtBottom(n, pos)
                        /\ Fits(ip, n, Len(host), st, pos)
  BY OpxInFrame
<1>3. n > 0 /\ Last(host).frame = st[n]
  BY <1>2, OpxOnTop
<1>4. Shape(n, st, pos)'
  <2>1. SameFrames
    BY DEF SameFrames
  <2> QED BY <1>2, <2>1, ShapeKept
<1>5. AtBottom(n, pos)' /\ Fits(ip, n, Len(host), st, pos)'
  BY <1>2 DEF AtBottom, IsOpx, Fits, LatestEval, IsEval
<1>6. Control(n, st, pos)'
  BY <1>3, <1>5 DEF Control
<1> QED BY <1>1, <1>4, <1>6 DEF At

\* How the frame just made is entered.
Entered(f) == frame = f /\ mode \in {"run", "leave"} /\ (ip = Code(f, 0, 0) \/ Unresolved(f))

\* A frame is made on top of the stack, by a call or by an OPX function, and becomes current.
LEMMA FrameComes ==
  ASSUME PInv, EvalsCounted, NEW n, NEW st, NEW pos, Shape(n, st, pos), n > 0, UNCHANGED host,
         NEW f, NEW prev, NEW ret, Made(f, prev, ret),
         Callback(n, pos) => prev = None, ~Callback(n, pos) => prev = st[n],
         Fits(ret, n, Len(host), st, pos), Entered(f)',
         NEW m, NEW s2, Higher(n, st, f, m, s2)
  PROVE  At(m, s2, pos)' /\ EvalsCounted'
<1>1. host \in Seq(Hosts) /\ FramesTyped
  BY DEF PInv, ControlTypes
<1>4. /\ Shape(m, s2, pos)'
      /\ f \notin DOMAIN frames
      /\ DOMAIN frames' = DOMAIN frames \cup {f} /\ frames'[f].evals = 0
      /\ \A g \in DOMAIN frames : frames'[g] = frames[g]
  <2>1. Shape(m, s2, pos)'
    BY <1>1, FramePushed
  <2> QED BY <2>1 DEF Made
<1>5. /\ n \in Nat /\ m \in Nat /\ m > n /\ m > 0 /\ s2[m] = f
      /\ \A k \in 1..Len(host) : pos[k] \in 1..n /\ pos[k] # m
      /\ \A k \in 1..Len(host) : host[k].frame = st[pos[k]]
  <2>1. n \in Nat /\ \A k \in 1..Len(host) : pos[k] \in 1..n /\ host[k].frame = st[pos[k]]
    BY DEF Shape, Ascending, Placed
  <2>2. m = n + 1 /\ s2 = [i \in 1..m |-> IF i <= n THEN st[i] ELSE f]
    BY DEF Higher
  <2>3. m \in Nat /\ m > n /\ m > 0 /\ m \in 1..m /\ ~(m <= n)
    BY <2>1, <2>2
  <2> QED BY <2>1, <2>2, <2>3
<1>6. Len(host) \in Nat /\ DOMAIN host = 1..Len(host) /\ \A k \in 1..Len(host) : host[k].frame \in DOMAIN frames
  <2>1. Len(host) \in Nat /\ DOMAIN host = 1..Len(host)
    BY <1>1, HostFact
  <2>2. \A k \in 1..Len(host) : st[pos[k]] \in DOMAIN frames
    BY <1>5, StackedAllocated DEF Shape
  <2> QED BY <1>5, <2>1, <2>2
<1>7. EvalsCounted'
  <2>1. EvalsAt(f)' = {} /\ \A g \in DOMAIN frames : EvalsAt(g)' = EvalsAt(g)
    BY <1>4, <1>6 DEF EvalsAt
  <2> QED BY <1>4, <2>1, FS_EmptySet DEF EvalsCounted
<1>8. ~AtBottom(m, pos)'
  BY <1>5, <1>6 DEF AtBottom
<1>9. Fits(ip, m, Len(host), s2, pos)' \/ Unresolved(s2[m])'
  <2>1. CASE ip' = Code(f, 0, 0)
    <3>1. ip'.frame = s2[m] /\ ip'.eval = 0 /\ 0 \in 0..Len(host)
      BY <1>5, <1>6, <2>1 DEF Code
    <3>2. Fits(ip, m, Len(host), s2, pos)'
      BY <1>5, <3>1 DEF Fits, LatestEval
    <3> QED BY <3>2
  <2>2. CASE Unresolved(f)'
    BY <1>5, <2>2 DEF Unresolved
  <2> QED BY <2>1, <2>2 DEF Entered
<1>10. Control(m, s2, pos)'
  BY <1>5, <1>8, <1>9 DEF Control, Entered
<1> QED BY <1>4, <1>7, <1>10 DEF At

\* A call makes a frame and enters it, or leaves in it.
LEMMA CallMade ==
  ASSUME PInv, EvalsCounted, NEW n, NEW st, NEW pos, At(n, st, pos),
         TrapInv, mode = "run", Current, ~ip.trapping, UNCHANGED <<trap, host>>,
         NEW ret, ret.frame = ip.frame, ret.eval = ip.eval, NEW p, NEW base, NEW byName,
         NEW f \in Frames, ConstructFrame(f, p, frame, ret, base, byName), FinishConstruction(f, p, ret), frame' = f,
         NEW m, NEW s2, Higher(n, st, f, m, s2)
  PROVE  At(m, s2, pos)' /\ EvalsCounted'
<1>1. Shape(n, st, pos) /\ Control(n, st, pos) /\ host \in Seq(Hosts) /\ ~trap
  BY DEF At, PInv, ControlTypes, TrapInv
<1>2. n > 0 /\ n \in Nat /\ n \in 1..n /\ ~AtBottom(n, pos) /\ frame = st[n] /\ Fits(ip, n, Len(host), st, pos)
  BY <1>1, OnTop
<1>3. ~Callback(n, pos)
  <2>1. \A k \in 1..Len(host) : pos[k] <= n
    <3>1. \A k \in 1..Len(host) : pos[k] \in 1..n
      BY <1>1 DEF Shape, Placed
    <3> QED BY <1>2, <3>1
  <2> QED BY <1>1, <1>2, <2>1, OpxBelow
<1>4. Fits(ret, n, Len(host), st, pos)
  BY <1>2 DEF Fits
<1>5. \/ ip' = Code(f, 0, 0) /\ mode' = "run"
      \/ mode' = "leave"
  BY DEF FinishConstruction, Leaves
<1>6. Entered(f)'
  BY <1>1, <1>5 DEF Entered, Unresolved, ConstructFrame
<1>7. Made(f, frame, ret)
  BY ConstructMakes
<1> QED BY <1>1, <1>2, <1>3, <1>4, <1>6, <1>7, FrameComes

\* An OPX function calls a procedure back.
LEMMA CallbackMade ==
  ASSUME PInv, EvalsCounted, NEW n, NEW st, NEW pos, At(n, st, pos),
         mode = "opx", mode' = "run", UNCHANGED host, NEW p, NEW base,
         NEW f \in Frames, ConstructFrame(f, p, None, ip, base, TRUE), frame' = f, ip' = Code(f, 0, 0),
         NEW m, NEW s2, Higher(n, st, f, m, s2)
  PROVE  At(m, s2, pos)' /\ EvalsCounted'
<1>1. /\ Shape(n, st, pos) /\ host # <<>> /\ IsOpx(Len(host)) /\ AtBottom(n, pos)
      /\ Fits(ip, n, Len(host), st, pos)
  BY OpxInFrame
<1>2. n > 0 /\ Callback(n, pos)
  BY <1>1, OpxOnTop
<1>3. Entered(f)'
  BY DEF Entered
<1>4. Made(f, None, ip)
  BY ConstructMakes
<1> QED BY <1>1, <1>2, <1>3, <1>4, FrameComes

\* A callback fails when the frame is made: it stays, outside the stack.
LEMMA Orphaned ==
  ASSUME PInv, EvalsCounted, NEW n, NEW st, NEW pos, At(n, st, pos), NEW p, CallProcedureUnresolved(p)
  PROVE  At(n, st, pos)' /\ EvalsCounted'
<1>1. EvalsCounted /\ mode = "opx" /\ UNCHANGED <<mode, frame, ip, trap, host>> /\ host \in Seq(Hosts)
  BY DEF FInv, CallProcedureUnresolved, PInv, ControlTypes
<1>2. PICK f \in Frames : ConstructFrame(f, p, None, ip, sp + Params[p] + 2, TRUE)
  BY DEF CallProcedureUnresolved
<1>3. /\ f \notin DOMAIN frames /\ DOMAIN frames' = DOMAIN frames \cup {f} /\ frames'[f].evals = 0
      /\ \A g \in DOMAIN frames : frames'[g] = frames[g]
  BY <1>2 DEF ConstructFrame
<1>4. Shape(n, st, pos) /\ Control(n, st, pos)
  BY DEF At
<1>5. Shape(n, st, pos)'
  <2>1. SameFrames
    BY <1>3 DEF SameFrames, CallProcedureUnresolved
  <2> QED BY <1>1, <1>4, <2>1, ShapeKept
<1>6. \A k \in DOMAIN host : host[k].frame \in DOMAIN frames
  <2>1. DOMAIN host = 1..Len(host)
    BY <1>1, HostFact
  <2>2. \A k \in 1..Len(host) : pos[k] \in 1..n /\ host[k].frame = st[pos[k]]
    BY <1>4 DEF Shape, Placed
  <2> QED BY <1>4, <2>1, <2>2, StackedAllocated DEF Shape
<1>7. EvalsCounted'
  <2>1. EvalsAt(f)' = {} /\ \A g \in DOMAIN frames : EvalsAt(g)' = EvalsAt(g)
    BY <1>1, <1>3, <1>6 DEF EvalsAt
  <2> QED BY <1>1, <1>3, <2>1, FS_EmptySet DEF EvalsCounted
<1>8. AtBottom(n, pos) /\ n > 0 /\ frame = st[n] /\ Fits(ip, n, Len(host), st, pos)
  BY <1>1, <1>4 DEF Control
<1>9. AtBottom(n, pos)' /\ Fits(ip, n, Len(host), st, pos)'
  BY <1>1, <1>8 DEF AtBottom, IsOpx, Fits, LatestEval, IsEval
<1>10. Control(n, st, pos)'
  BY <1>1, <1>8, <1>9 DEF Control
<1> QED BY <1>5, <1>7, <1>10 DEF At

-----------------------------------------------------------------------------
(* The programs for which the stack of frames is kept.                     *)

\* CANCEL and IOSIGNAL do not spend the trap flag: a later call that fails would be resumed in
\* the frame it made, with iIP in the code of the caller.
TrapSpent == "Trap" \notin Opcodes \/ {"Cancel", "IoSignal"} \cap Opcodes = {}

\* STOP ends the innermost Execute only, wherever it runs: in an EVAL, or after an inner callback
\* has reset KInCallback, the frames of that Execute would stay above those that wait for it.
StopsProgram == [][Stop => host = <<>> \/ Leaves]_vars

LEMMA TrapStaysDown ==
  ASSUME "Trap" \notin Opcodes, ~trap, [Next]_vars
  PROVE  ~trap'
<1>1. ~Trap
  BY DEF Trap, Executing
<1>2. CASE Push \/ Operator \/ Drop \/ Raise \/ Cancel \/ IoSignal \/ OnErr
  BY <1>2 DEF Push, Operator, Drop, Raise, Cancel, IoSignal, OnErr
<1>3. CASE Calls
  BY <1>3 DEF Calls, RunProcedure, CallByName, Call, CallProcedure, CallProcedureFails, CallProcedureUnresolved
<1>4. CASE Ends \/ Handling
  BY <1>4 DEF Ends, Handling, Stop, Return, ZeroReturn, RemoveFrame, ReturnFromEval, EvalEnds, OpxEnds, CallbackEnds,
              Trapped, CatchError, DropFrame, ClearError
<1>5. CASE Eval \/ CallOpxFunc \/ Loads \/ Dialogs \/ Closing
  BY <1>5 DEF Eval, CallOpxFunc, Loads, LoadM, UnLoadM, Dialogs, DInit, DItem, Dialog, Closing, ProgramEnds,
              CloseFrame, CloseModules
<1>6. CASE UNCHANGED vars
  BY <1>6 DEF vars
<1> QED BY <1>1, <1>2, <1>3, <1>4, <1>5, <1>6 DEF Next, Operands

LEMMA TrapKept ==
  ASSUME TrapSpent, PInv, TrapInv, "Trap" \notin Opcodes => ~trap, [Next]_vars
  PROVE  TrapInv' /\ ("Trap" \notin Opcodes => ~trap')
<1>1. CASE {"Cancel", "IoSignal"} \cap Opcodes = {}
  <2>1. TrapInv'
    BY <1>1, TrapInvNext
  <2>2. ASSUME "Trap" \notin Opcodes PROVE ~trap'
    <3>1. ~trap
      BY <2>2
    <3> QED BY <2>2, <3>1, TrapStaysDown
  <2> QED BY <2>1, <2>2
<1>2. CASE "Trap" \notin Opcodes
  BY <1>2, TrapStaysDown DEF TrapInv
<1> QED BY <1>1, <1>2 DEF TrapSpent

LEMMA FInvInit == Init => FInv
<1> SUFFICES ASSUME Init PROVE FInv
  OBVIOUS
<1>1. /\ host = <<>> /\ Len(host) = 0 /\ DOMAIN host = {} /\ mode = "run" /\ frame = 1 /\ ip.frame = 1 /\ ip.eval = 0
      /\ DOMAIN frames = {1} /\ frames[1].prev = None /\ frames[1].onerr = None /\ frames[1].evals = 0
  BY DEF Init, Code
<1>2. 1 \in Frames
  BY ProcAssumption DEF Frames
<1>3. EvalsCounted
  BY <1>1, FS_EmptySet DEF EvalsCounted, EvalsAt
<1>4. PICK st : st = [i \in 1..1 |-> 1]
  OBVIOUS
<1>5. PICK pos : pos = [k \in 1..0 |-> 1]
  OBVIOUS
<1>6. 1..0 = {} /\ \A i \in 1..1 : i = 1 /\ ~(i + 1 <= 1) /\ st[i] = 1
  BY <1>4
<1>7. Ascending(1, st)
  <2>1. st \in [1..1 -> Frames]
    BY <1>2, <1>4
  <2>2. \A g \in Frames : g <= 1 => g = 1
    BY DEF Frames
  <2> QED BY <1>1, <1>6, <2>1, <2>2 DEF Ascending
<1>8. Placed(1, st, pos)
  BY <1>1, <1>5, <1>6 DEF Placed
<1>9. Linked(1, st, pos)
  BY <1>1, <1>4, <1>6 DEF Linked
<1>10. Fitting(1, st, pos)
  BY <1>1, <1>6 DEF Fitting
<1>11. ~AtBottom(1, pos)
  BY <1>1 DEF AtBottom
<1>12. Fits(ip, 1, Len(host), st, pos)
  BY <1>1, <1>4, <1>6 DEF Fits, LatestEval
<1>13. Control(1, st, pos)
  BY <1>1, <1>4, <1>11, <1>12 DEF Control
<1>14. Covering(1, st)
  BY <1>1, <1>6 DEF Covering
<1> QED BY <1>3, <1>7, <1>8, <1>9, <1>10, <1>13, <1>14 DEF FInv, Stacked, At, Shape

\* An opcode that moves only iIP, the stack pointer and what does not concern frames.
LEMMA OpcodeStays ==
  ASSUME PInv, EvalsCounted, NEW n, NEW st, NEW pos, At(n, st, pos),
         mode = "run" \/ (mode = "leave" /\ trap), Current, UNCHANGED <<frame, frames, host>>,
         ip'.frame = ip.frame, ip'.eval = ip.eval,
         mode' \in {"run", "leave"} \/ (mode = "run" /\ mode' = "exit" /\ (host = <<>> \/ ip.eval > 0))
  PROVE  At(n, st, pos)' /\ EvalsCounted'
<1>1. SameFrames
  BY DEF SameFrames
<1> QED BY <1>1, Stays

\* ONERR sets the handler of its frame, which is in its own code.
LEMMA HandlerSet ==
  ASSUME PInv, ip.frame = frame, OnErr
  PROVE  /\ SameFrames /\ DOMAIN frames' = DOMAIN frames
         /\ \A f \in DOMAIN frames : frames'[f].evals = frames[f].evals
<1>1. ip \in Codes /\ FramesTyped /\ Current
  BY DEF PInv, ControlTypes, OnErr, Statement, Executing
<1>2. PICK handler \in {None, ip.frame} : frames' = [frames EXCEPT ![frame].onerr = handler]
  BY DEF OnErr
<1>3. /\ DOMAIN frames' = DOMAIN frames
      /\ \A f \in DOMAIN frames :
           /\ frames'[f].prev = frames[f].prev /\ frames'[f].ret = frames[f].ret
           /\ frames'[f].evals = frames[f].evals
           /\ frames'[f].onerr \in {frames[f].onerr, None, f}
           /\ frames'[f].base = frames[f].base /\ frames'[f].def = frames[f].def
           /\ frames'[f].byName = frames[f].byName
  BY <1>1, <1>2 DEF FramesTyped, FrameRecords, Current
<1> QED BY <1>3 DEF SameFrames

LEMMA OpcodesStay ==
  ASSUME PInv, EvalsCounted, NEW n, NEW st, NEW pos, At(n, st, pos),
         Operands \/ ReturnFromEval \/ (Stop /\ (host = <<>> \/ Leaves)) \/ Trapped \/ Loads \/ Dialogs
  PROVE  At(n, st, pos)' /\ EvalsCounted'
<1>1. ip \in Codes /\ FramesTyped
  BY DEF PInv, ControlTypes
<1>2. ASSUME NEW d, To(d) PROVE ip'.frame = ip.frame /\ ip'.eval = ip.eval
  BY <1>1, <1>2 DEF To, Codes
<1> USE DEF Leaves
<1>3. CASE Push \/ Operator \/ Drop \/ Raise \/ Cancel \/ IoSignal
  <2>1. mode = "run" /\ Current /\ mode' \in {"run", "leave"} /\ UNCHANGED <<frame, frames, host>>
    BY <1>3 DEF Push, Operator, Drop, Raise, Cancel, IoSignal, Statement, Command, Executing, frameVars, hostVars
  <2>2. \E d : To(d)
    BY <1>3 DEF Push, Operator, Drop, Raise, Cancel, IoSignal
  <2> QED BY <1>2, <2>1, <2>2, OpcodeStays
<1>4. CASE Trap
  <2>1. mode = "run" /\ Current /\ mode' = "run" /\ UNCHANGED <<frame, frames, host>>
    BY <1>4 DEF Trap, Executing, frameVars, hostVars
  <2>2. ip'.frame = ip.frame /\ ip'.eval = ip.eval
    BY <1>1, <1>4 DEF Trap, Codes
  <2> QED BY <2>1, <2>2, OpcodeStays
<1>5. CASE OnErr
  <2>1. mode = "run" /\ Current /\ mode' = "run" /\ UNCHANGED <<ip, frame, host>> /\ ip.frame = frame
    <3>1. mode = "run" /\ Current /\ mode' = "run" /\ UNCHANGED <<ip, frame, host>>
      BY <1>5 DEF OnErr, Statement, Executing, hostVars
    <3>2. Shape(n, st, pos) /\ Control(n, st, pos)
      BY DEF At
    <3>3. frame = st[n] /\ Fits(ip, n, Len(host), st, pos)
      BY <3>1, <3>2, OnTop
    <3> QED BY <3>1, <3>3 DEF Fits
  <2>2. /\ SameFrames /\ DOMAIN frames' = DOMAIN frames
        /\ \A f \in DOMAIN frames : frames'[f].evals = frames[f].evals
    BY <1>5, <2>1, HandlerSet
  <2> QED BY <2>1, <2>2, Stays
<1>6. CASE ReturnFromEval
  BY <1>6, OpcodeStays DEF ReturnFromEval, Executing, frameVars, hostVars
<1>7. CASE Stop /\ (host = <<>> \/ Leaves)
  <2>1. mode = "run" /\ Current /\ mode' \in {"leave", "exit"} /\ UNCHANGED <<ip, frame, frames, host>>
    BY <1>7 DEF Stop, Statement, Executing, frameVars, hostVars
  <2> QED BY <1>7, <2>1, OpcodeStays
<1>8. CASE Trapped
  BY <1>8, OpcodeStays DEF Trapped, ClearError, frameVars, hostVars
<1>9. CASE Loads
  <2>1. PICK m : LoadM(m) \/ UnLoadM(m)
    BY <1>9 DEF Loads
  <2>2. mode = "run" /\ Current /\ mode' \in {"run", "leave"} /\ UNCHANGED <<frame, frames, host>> /\ To(0)
    BY <2>1 DEF LoadM, UnLoadM, Command, Executing, frameVars, hostVars
  <2> QED BY <1>2, <2>2, OpcodeStays
<1>10. CASE Dialogs
  <2>1. mode = "run" /\ Current /\ mode' \in {"run", "leave"} /\ UNCHANGED <<frame, frames, host>>
    BY <1>10 DEF Dialogs, DInit, DItem, Dialog, Statement, Executing, hostVars
  <2>2. UNCHANGED ip \/ \E d : To(d)
    BY <1>10 DEF Dialogs, DInit, DItem, Dialog
  <2> QED BY <1>2, <2>1, <2>2, OpcodeStays
<1> QED BY <1>3, <1>4, <1>5, <1>6, <1>7, <1>8, <1>9, <1>10 DEF Operands

\* An error finds the handler of its frame, in which no EVAL is in progress.
LEMMA Caught ==
  ASSUME PInv, EvalsCounted, NEW n, NEW st, NEW pos, At(n, st, pos), CatchError
  PROVE  At(n, st, pos)' /\ EvalsCounted' /\ n > 0 /\ n \in 1..n /\ frame = st[n] /\ ip'.frame = st[n] /\ ip'.eval = 0
<1>1. EvalsCounted /\ Current /\ mode = "leave" /\ host \in Seq(Hosts) /\ UNCHANGED <<frame, frames, host>>
  BY DEF PInv, ControlTypes, CatchError, Unwinding, frameVars, hostVars
<1>2. Shape(n, st, pos) /\ Control(n, st, pos)
  BY DEF At
<1>3. n > 0 /\ n \in 1..n /\ ~AtBottom(n, pos) /\ frame = st[n]
  BY <1>1, <1>2, OnTop
<1>4. \A k \in 1..Len(host) : pos[k] # n
  <2>1. ~Evaluates(frame)
    BY DEF CatchError
  <2>2. frames[frame].evals = Cardinality(EvalsIn(host, frame)) /\ Cardinality(EvalsIn(host, frame)) \in Nat
    BY <1>1, EvalsAtIn, EvalsInFact DEF EvalsCounted, Current
  <2>3. frames[frame].evals = 0
    BY <2>1, <2>2 DEF Evaluates
  <2> QED BY <1>1, <1>2, <2>3, OnTop
<1>5. ip'.frame = st[n] /\ ip'.eval = 0 /\ mode' = "run"
  <2>1. frames[frame].onerr = frame
    BY <1>2, <1>3 DEF CatchError, Shape, Linked
  <2> QED BY <1>3, <2>1 DEF CatchError, ClearError, Code
<1>6. Shape(n, st, pos)' /\ EvalsCounted'
  <2>1. SameFrames
    BY <1>1 DEF SameFrames
  <2> QED BY <1>1, <1>2, <2>1, ShapeKept, KeptCounts
<1>7. ~AtBottom(n, pos)' /\ Fits(ip, n, Len(host), st, pos)'
  <2>1. 0 \in 0..Len(host)
    BY <1>1, HostFact
  <2> QED BY <1>1, <1>3, <1>4, <1>5, <2>1 DEF AtBottom, IsOpx, Fits, LatestEval
<1>8. Control(n, st, pos)'
  BY <1>1, <1>3, <1>5, <1>7 DEF Control
<1> QED BY <1>3, <1>5, <1>6, <1>8 DEF At

\* A step that concerns neither frames nor the code that runs.
LEMMA NothingMoves ==
  ASSUME PInv, EvalsCounted, NEW n, NEW st, NEW pos, At(n, st, pos), UNCHANGED <<mode, ip, frame, frames, trap, host>>
  PROVE  At(n, st, pos)' /\ EvalsCounted'
<1>1. SameFrames
  BY DEF SameFrames
<1>2. Shape(n, st, pos)'
  BY <1>1, ShapeKept DEF At
<1>3. Control(n, st, pos)'
  BY DEF At, Control, AtBottom, IsOpx, IsEval, Unresolved, Fits, LatestEval
<1> QED BY <1>2, <1>3, KeptCounts DEF At

\* A program that closes does not run again.
LEMMA ClosingEnds ==
  ASSUME [Next]_vars, mode \in {"closing", "ended"}
  PROVE  mode' \in {"closing", "ended"}
<1>1. ~(Operands \/ Calls \/ Ends \/ Handling \/ Eval \/ CallOpxFunc \/ Loads \/ Dialogs)
  <2>1. ~(Operands \/ Eval \/ CallOpxFunc \/ Loads \/ Dialogs)
    BY DEF Operands, Push, Operator, Drop, Raise, Trap, Cancel, IoSignal, OnErr, Eval, CallOpxFunc, Loads, LoadM, UnLoadM,
           Dialogs, DInit, DItem, Dialog, Statement, Command, Executing
  <2>2. ~Calls
    BY DEF Calls, RunProcedure, CallByName, CallProcedure, CallProcedureFails, CallProcedureUnresolved, Executing
  <2>3. ~(Ends \/ Handling)
    BY DEF Ends, Stop, Return, ZeroReturn, ReturnFromEval, EvalEnds, OpxEnds, CallbackEnds, Handling, Trapped, CatchError,
           DropFrame, GivesUp, Unwinding, Statement, Executing
  <2> QED BY <2>1, <2>2, <2>3
<1> QED BY <1>1 DEF Next, Closing, ProgramEnds, CloseFrame, CloseModules, GivesUp, Unwinding, vars

LEMMA EvalStarted ==
  ASSUME PInv, EvalsCounted, NEW n, NEW st, NEW pos, At(n, st, pos),
         mode = "run", Current, UNCHANGED <<mode, frame>>,
         host' = Append(host, [kind |-> "eval", frame |-> frame, ip |-> ip]),
         frames' = [frames EXCEPT ![frame].evals = @ + 1], ip' = Code(frame, Len(host) + 1, 0),
         NEW p2, Longer(n, pos, p2)
  PROVE  SameFrames /\ At(n, st, p2)' /\ EvalsCounted'
<1>1. FramesTyped /\ host \in Seq(Hosts) /\ ip \in Codes
  BY DEF PInv, ControlTypes
<1>2. PICK r : r = [kind |-> "eval", frame |-> frame, ip |-> ip]
  OBVIOUS
<1>3. frame \in DOMAIN frames /\ frame \in Frames
  BY <1>1 DEF Current, FramesTyped
<1>4. r \in Hosts /\ r.kind = "eval" /\ r.frame = frame /\ r.ip = ip /\ host' = Append(host, r)
  BY <1>1, <1>2, <1>3 DEF Hosts
<1>5. \A g : Cardinality(EvalsIn(host', g)) = Cardinality(EvalsIn(host, g)) + (IF g = frame THEN 1 ELSE 0)
  BY <1>1, <1>4, EvalsInAppend
<1>6. SameFrames /\ EvalsCounted'
  BY <1>3, <1>5, EvalsChange
<1> QED BY <1>4, <1>6, EvalStarts

LEMMA EvalEnded ==
  ASSUME PInv, EvalsCounted, NEW n, NEW st, NEW pos, At(n, st, pos), EvalEnds,
         NEW p2, Shorter(pos, p2)
  PROVE  /\ SameFrames /\ At(n, st, p2)' /\ EvalsCounted'
         /\ n > 0 /\ n \in 1..n /\ pos[Len(host)] = n /\ ~AtBottom(n, pos) /\ frame = st[n]
<1>1. FramesTyped /\ host \in Seq(Hosts)
  BY DEF PInv, ControlTypes
<1>2. /\ Innermost("eval") /\ host # <<>> /\ Last(host).kind = "eval" /\ Last(host).frame \in DOMAIN frames
      /\ mode = "exit" \/ GivesUp
      /\ mode' \in {"run", "leave"}
      /\ frames' = [frames EXCEPT ![Last(host).frame].evals = @ - 1]
      /\ ip' = Last(host).ip /\ host' = Front(host) /\ UNCHANGED frame
  BY DEF EvalEnds, Innermost, LeavesEval, GivesUp, Unwinding
<1>3. PICK f \in DOMAIN frames : f = Last(host).frame
  BY <1>2
<1>4. \A g : Cardinality(EvalsIn(host', g)) = Cardinality(EvalsIn(host, g)) + (IF g = f THEN -1 ELSE 0)
  <2> SUFFICES ASSUME NEW g
               PROVE  Cardinality(EvalsIn(host', g)) = Cardinality(EvalsIn(host, g)) + (IF g = f THEN -1 ELSE 0)
    OBVIOUS
  <2>1. Cardinality(EvalsIn(Front(host), g)) = Cardinality(EvalsIn(host, g)) - (IF f = g THEN 1 ELSE 0)
    BY <1>1, <1>2, <1>3, EvalsInFront
  <2>2. Cardinality(EvalsIn(host, g)) \in Nat
    BY <1>1, EvalsInFact
  <2> QED BY <1>2, <2>1, <2>2
<1>5. frames' = [frames EXCEPT ![f].evals = @ + (-1)]
  <2>1. frames[f].evals \in Int
    BY <1>1 DEF FramesTyped, FrameRecords
  <2>2. frames[f].evals - 1 = frames[f].evals + (-1)
    BY <2>1
  <2> QED BY <1>2, <1>3, <2>2
<1>6. SameFrames /\ EvalsCounted'
  BY <1>3, <1>4, <1>5, EvalsChange
<1>7. PICK c : c = Last(host).ip
  OBVIOUS
<1> QED BY <1>2, <1>6, <1>7, EvalStops

LEMMA FInvNext ==
  ASSUME PInv, FInv, TrapInv, [Next]_vars, Stop => host = <<>> \/ Leaves
  PROVE  FInv'
<1> SUFFICES ASSUME mode \notin {"closing", "ended"} PROVE FInv'
  <2>1. CASE mode \in {"closing", "ended"}
    <3>1. mode' \in {"closing", "ended"}
      BY <2>1, ClosingEnds
    <3> QED BY <3>1 DEF FInv
  <2> QED BY <2>1
<1>1. EvalsCounted /\ host \in Seq(Hosts) /\ ip \in Codes
  BY DEF FInv, PInv, ControlTypes
<1>2. PICK n, st, pos : At(n, st, pos)
  BY DEF FInv, Stacked
<1>4. PICK p1 : Longer(n, pos, p1)
  BY DEF Longer
<1>5. PICK p2 : Shorter(pos, p2)
  BY DEF Shorter
<1>6. CASE Operands \/ ReturnFromEval \/ Stop \/ Trapped \/ Loads \/ Dialogs
  BY <1>1, <1>2, <1>6, OpcodesStay, StackedNext
<1>7. ASSUME NEW p \in Procs, RunProcedure(p) \/ CallByName(p) PROVE FInv'
  <2>1. mode = "run" /\ Current /\ \E taken, byName : Call(p, taken, byName)
    BY <1>7 DEF RunProcedure, CallByName, Executing
  <2>2. PICK taken, byName : Call(p, taken, byName)
    BY <2>1
  <2>3. PICK ret : ret = [ip EXCEPT !.depth = @ - taken + 1]
    OBVIOUS
  <2>4. ret.frame = ip.frame /\ ret.eval = ip.eval
    BY <1>1, <2>3 DEF Codes
  <2>5. ~ip.trapping /\ UNCHANGED <<trap, host>>
    BY <2>2 DEF Call, hostVars
  <2>6. CASE Leaves /\ ip' = ret /\ CallFails
    <3>1. UNCHANGED <<frame, frames>> /\ mode' = "leave"
      BY <2>6 DEF CallFails, frameVars, Leaves
    <3> QED BY <1>1, <1>2, <2>1, <2>4, <2>5, <2>6, <3>1, OpcodeStays, StackedNext
  <2>7. ASSUME NEW f \in Frames, ConstructFrame(f, p, frame, ret, sp + 1, byName), FinishConstruction(f, p, ret), frame' = f
        PROVE  FInv'
    <3>1. PICK m, s2 : Higher(n, st, f, m, s2)
      BY DEF Higher
    <3>2. At(m, s2, pos)' /\ EvalsCounted'
      BY <1>1, <1>2, <2>1, <2>4, <2>5, <2>7, <3>1, CallMade
    <3> QED BY <3>2, StackedNext
  <2> QED BY <2>2, <2>3, <2>6, <2>7 DEF Call
<1>8. ASSUME NEW p \in Procs, CallProcedure(p) PROVE FInv'
  <2>1. /\ mode = "opx" /\ mode' = "run" /\ UNCHANGED host
        /\ \E f \in Frames : ConstructFrame(f, p, None, ip, sp', TRUE) /\ frame' = f /\ ip' = Code(f, 0, 0)
    BY <1>8 DEF CallProcedure
  <2>2. PICK f \in Frames : ConstructFrame(f, p, None, ip, sp', TRUE) /\ frame' = f /\ ip' = Code(f, 0, 0)
    BY <2>1
  <2>3. PICK base : base = sp'
    OBVIOUS
  <2>4. PICK m, s2 : Higher(n, st, f, m, s2)
    BY DEF Higher
  <2>5. At(m, s2, pos)' /\ EvalsCounted'
    <3>1. ConstructFrame(f, p, None, ip, base, TRUE)
      BY <2>2, <2>3
    <3>2. frame' = f /\ ip' = Code(f, 0, 0)
      BY <2>2
    <3> QED BY <1>1, <1>2, <2>1, <2>4, <3>1, <3>2, CallbackMade
  <2> QED BY <2>5, StackedNext
<1>9. ASSUME NEW p \in Procs, CallProcedureUnresolved(p) PROVE FInv'
  BY <1>1, <1>2, <1>9, Orphaned, StackedNext
<1>10. CASE CallProcedureFails \/ UNCHANGED vars
  BY <1>1, <1>2, <1>10, NothingMoves, StackedNext DEF CallProcedureFails, CallFails, frameVars, vars, hostVars
<1>11. CASE Return \/ ZeroReturn \/ DropFrame
  <2>1. PICK m, s2 : Lower(n, st, m, s2)
    BY DEF Lower
  <2>2. At(m, s2, pos)' /\ EvalsCounted'
    <3>1. CASE Return \/ ZeroReturn
      <4>1. mode = "run" /\ ip.eval = 0 /\ Current /\ \E base : RemoveFrame(base)
        BY <3>1 DEF Return, ZeroReturn, Statement, Executing
      <4>2. DeleteFrame(frame) /\ UNCHANGED host /\ mode' = IF frames[frame].prev = None THEN "exit" ELSE "run"
        BY <4>1 DEF RemoveFrame, hostVars
      <4> QED BY <1>1, <1>2, <2>1, <4>1, <4>2, FrameGoes
    <3>2. CASE DropFrame
      <4>1. Current /\ Unwinding /\ DeleteFrame(frame) /\ UNCHANGED host /\ ~Evaluates(frame) /\ mode' = "leave"
        BY <3>2 DEF DropFrame, Unwinding, hostVars
      <4> QED BY <1>1, <1>2, <2>1, <4>1, FrameGoes
    <3> QED BY <1>11, <3>1, <3>2
  <2> QED BY <2>2, StackedNext
<1>12. CASE CatchError
  BY <1>1, <1>2, <1>12, Caught, StackedNext
<1>13. CASE Eval
  <2>1. mode = "run" /\ Current /\ UNCHANGED frame
    BY <1>13 DEF Eval, Executing
  <2>2. CASE Leaves /\ UNCHANGED <<ip, frames, host>>
    BY <1>1, <1>2, <2>1, <2>2, OpcodeStays, StackedNext DEF Leaves
  <2>3. CASE /\ host' = Append(host, [kind |-> "eval", frame |-> frame, ip |-> ip])
             /\ frames' = [frames EXCEPT ![frame].evals = @ + 1]
             /\ ip' = Code(frame, Len(host) + 1, 0) /\ UNCHANGED mode
    BY <1>1, <1>2, <1>4, <2>1, <2>3, EvalStarted, StackedNext
  <2> QED BY <1>13, <2>2, <2>3 DEF Eval
<1>14. CASE EvalEnds
  BY <1>1, <1>2, <1>5, <1>14, EvalEnded, StackedNext
<1>15. CASE CallOpxFunc
  <2>1. /\ mode = "run" /\ Current /\ mode' = "opx" /\ UNCHANGED <<ip, frame, frames>>
        /\ host' = Append(host, [kind |-> "opx", frame |-> frame, ip |-> ip])
    BY <1>15 DEF CallOpxFunc, Executing, frameVars
  <2> QED BY <1>1, <1>2, <1>4, <2>1, OpxStarts, StackedNext
<1>16. CASE OpxEnds
  <2>1. mode = "opx" /\ mode' \in {"run", "leave"} /\ UNCHANGED <<ip, frame, frames>> /\ host' = Front(host)
    BY <1>16 DEF OpxEnds, Leaves, frameVars
  <2> QED BY <1>1, <1>2, <1>5, <2>1, OpxStops, StackedNext
<1>17. CASE CallbackEnds
  BY <1>1, <1>2, <1>17, CallbackStops, StackedNext DEF CallbackEnds
<1>18. CASE Closing
  BY <1>18 DEF Closing, ProgramEnds, CloseFrame, CloseModules, FInv
<1> QED BY <1>6, <1>7, <1>8, <1>9, <1>10, <1>11, <1>12, <1>13, <1>14, <1>15, <1>16, <1>17, <1>18
        DEF Next, Calls, Ends, Handling

LEMMA StopsAreSteps == [Stop => host = <<>> \/ Leaves]_vars => (Stop => host = <<>> \/ Leaves)
BY DEF Stop, Statement, Executing, vars, Leaves

LEMMA FramesKept == ASSUME TrapSpent PROVE Spec /\ StopsProgram => []FInv
<1> DEFINE IInv == FInv /\ TrapInv /\ ("Trap" \notin Opcodes => ~trap)
<1>1. Init => IInv
  <2>1. Init => TrapInv /\ ("Trap" \notin Opcodes => ~trap)
    BY DEF Init, TrapInv
  <2> QED BY <2>1, FInvInit
<1>2. PInv /\ IInv /\ [Next]_vars /\ [Stop => host = <<>> \/ Leaves]_vars => IInv'
  BY FInvNext, TrapKept, StopsAreSteps
<1>3. IInv => FInv
  OBVIOUS
<1> HIDE DEF IInv
<1> QED BY <1>1, <1>2, <1>3, SpecKeepsPInv, PTL DEF Spec, StopsProgram

LEMMA FramesExist == PInv /\ FInv => WaitersKeepFrames
<1> SUFFICES ASSUME PInv, FInv, mode \notin {"closing", "ended"} PROVE WaitersKeepFrames
  BY DEF WaitersKeepFrames
<1>1. PICK n, st, pos : Shape(n, st, pos) /\ Control(n, st, pos)
  BY DEF FInv, Stacked, At
<1>2. \A i \in 1..n : st[i] \in DOMAIN frames
  BY <1>1, StackedAllocated DEF Shape
<1>3. frame = None \/ Current
  <2> SUFFICES ASSUME frame # None PROVE Current
    OBVIOUS
  <2>1. frame = st[n]
    BY <1>1 DEF Control
  <2>2. n > 0
    <3>1. CASE mode = "opx"
      BY <1>1, <3>1 DEF Control
    <3>2. CASE mode # "opx"
      <4>1. ~AtBottom(n, pos)
        BY <1>1, <3>2 DEF Control
      <4> QED BY <1>1, <4>1 DEF AtBottom, Shape, Ascending
    <3> QED BY <3>1, <3>2
  <2>3. n \in 1..n
    BY <1>1, <2>2 DEF Shape, Ascending
  <2> QED BY <1>2, <2>1, <2>3 DEF Current
<1>4. \A k \in DOMAIN host : host[k].frame \in DOMAIN frames
  <2>1. DOMAIN host = 1..Len(host)
    BY HostFact DEF PInv, ControlTypes
  <2>2. \A k \in 1..Len(host) : pos[k] \in 1..n /\ host[k].frame = st[pos[k]]
    BY <1>1 DEF Shape, Placed
  <2> QED BY <1>2, <2>1, <2>2
<1>5. EvalsCounted
  BY DEF FInv
<1> QED BY <1>3, <1>4, <1>5 DEF WaitersKeepFrames, EvalsCounted, EvalsAt

LEMMA CodeExists == PInv /\ FInv => CodeIsCurrent
<1> SUFFICES ASSUME PInv, FInv, mode = "run" PROVE CodeIsCurrent
  BY DEF CodeIsCurrent
<1>1. PICK n, st, pos : Shape(n, st, pos) /\ Control(n, st, pos)
  BY DEF FInv, Stacked, At
<1>2. ~AtBottom(n, pos) /\ frame = st[n]
  BY <1>1 DEF Control
<1>3. n \in 1..n /\ n > 0
  BY <1>1, <1>2 DEF AtBottom, Shape, Ascending
<1>4. frame \in DOMAIN frames
  BY <1>1, <1>2, <1>3, StackedAllocated DEF Shape
<1>5. Fits(ip, n, Len(host), st, pos)
  BY <1>1, <1>3 DEF Control, Unresolved
<1>6. ip.eval # 0 => ip.eval \in DOMAIN host /\ host[ip.eval].kind = "eval"
  <2>1. DOMAIN host = 1..Len(host) /\ Len(host) \in Nat
    BY HostFact DEF PInv, ControlTypes
  <2>2. ip.eval \in 0..Len(host) /\ (ip.eval # 0 => IsEval(ip.eval))
    BY <1>5 DEF Fits, LatestEval
  <2> QED BY <2>1, <2>2 DEF IsEval
<1> QED BY <1>2, <1>4, <1>5, <1>6 DEF CodeIsCurrent, CodeInMemory, Fits

\* In a program in which no CANCEL or IOSIGNAL follows TRAP and STOP ends the program, whatever errors
\* unwind: iFrame and the frames that EVALs and OPX functions in progress return to exist, and the
\* error handler's iEvalNestCount counts the EVALs of the frame (FRAME, EN_ERROR, OPLAPI.CPP).
THEOREM WaitersFramesExist ==
  ASSUME TrapSpent
  PROVE  Spec /\ StopsProgram => []WaitersKeepFrames
<1>1. Spec /\ StopsProgram => []FInv
  BY FramesKept
<1> QED BY <1>1, FramesExist, SpecKeepsPInv, PTL

\* In such a program the sequencer never runs q-code that was freed, and the frame whose variables an
\* opcode uses is the one its q-code belongs to.
THEOREM CodeStaysCurrent ==
  ASSUME TrapSpent
  PROVE  Spec /\ StopsProgram => []CodeIsCurrent
<1>1. Spec /\ StopsProgram => []FInv
  BY FramesKept
<1> QED BY <1>1, CodeExists, SpecKeepsPInv, PTL

-----------------------------------------------------------------------------
(* Dialogs, and STOP in a callback.                                        *)

LEMMA DialogNext == PInv /\ DialogOwnerExists /\ [Next]_vars => DialogOwnerExists'
<1> SUFFICES ASSUME PInv, DialogOwnerExists, [Next]_vars PROVE DialogOwnerExists'
  OBVIOUS
<1>1. FramesTyped
  BY DEF PInv, ControlTypes
<1>2. ASSUME DOMAIN frames \subseteq DOMAIN frames', dialog' \in {dialog, None} \/ (dialog' = frame /\ Current)
      PROVE  DialogOwnerExists'
  BY <1>2 DEF DialogOwnerExists, Current
<1>3. ASSUME NEW f, DeleteFrame(f) PROVE DialogOwnerExists'
  <2>1. DOMAIN frames' = DOMAIN frames \ {f} /\ dialog' = IF dialog = f THEN None ELSE dialog
    BY <1>3 DEF DeleteFrame, DialogWithout
  <2> QED BY <2>1 DEF DialogOwnerExists
<1>4. ASSUME NEW f, NEW p, NEW prev, NEW ret, NEW base, NEW byName, ConstructFrame(f, p, prev, ret, base, byName)
      PROVE  DialogOwnerExists'
  <2>1. DOMAIN frames' = DOMAIN frames \cup {f} /\ UNCHANGED dialog
    BY <1>4 DEF ConstructFrame
  <2> QED BY <1>2, <2>1
<1>5. ASSUME UNCHANGED <<frames, dialog>> PROVE DialogOwnerExists'
  BY <1>5 DEF DialogOwnerExists
<1>6. CASE Push \/ Operator \/ Drop \/ Raise \/ Trap \/ Cancel \/ IoSignal \/ Stop \/ ReturnFromEval \/ Loads
  BY <1>5, <1>6 DEF Push, Operator, Drop, Raise, Trap, Cancel, IoSignal, Stop, ReturnFromEval, Loads, LoadM, UnLoadM,
                    frameVars
<1>7. CASE OnErr
  <2>1. DOMAIN frames' = DOMAIN frames /\ UNCHANGED dialog
    BY <1>7 DEF OnErr
  <2> QED BY <1>2, <2>1
<1>8. ASSUME NEW p, RunProcedure(p) \/ CallByName(p) PROVE DialogOwnerExists'
  <2>1. \/ UNCHANGED <<frames, dialog>>
        \/ \E f, ret, base, byName : ConstructFrame(f, p, frame, ret, base, byName)
    BY <1>8 DEF RunProcedure, CallByName, Call, CallFails, frameVars
  <2> QED BY <1>4, <1>5, <2>1
<1>9. ASSUME NEW p, CallProcedure(p) \/ CallProcedureUnresolved(p) PROVE DialogOwnerExists'
  <2>1. \E f, ret, base, byName : ConstructFrame(f, p, None, ret, base, byName)
    BY <1>9 DEF CallProcedure, CallProcedureUnresolved
  <2> QED BY <1>4, <2>1
<1>10. CASE CallProcedureFails \/ CallOpxFunc \/ OpxEnds \/ CallbackEnds \/ ProgramEnds \/ CloseModules \/ Trapped \/ CatchError
  BY <1>5, <1>10 DEF CallProcedureFails, CallFails, CallOpxFunc, OpxEnds, CallbackEnds, ProgramEnds, CloseModules,
                     Trapped, CatchError, frameVars
<1>11. CASE Return \/ ZeroReturn \/ DropFrame \/ CloseFrame
  BY <1>3, <1>11 DEF Return, ZeroReturn, RemoveFrame, DropFrame, CloseFrame
<1>12. CASE Eval \/ EvalEnds
  <2>1. DOMAIN frames' = DOMAIN frames /\ UNCHANGED dialog
    BY <1>12 DEF Eval, EvalEnds
  <2> QED BY <1>2, <2>1
<1>13. CASE Dialogs
  <2>1. UNCHANGED frames /\ Current
    BY <1>13 DEF Dialogs, DInit, DItem, Dialog, Statement, Executing
  <2>2. dialog' \in {dialog, None} \/ dialog' = frame
    BY <1>13 DEF Dialogs, DInit, DItem, Dialog
  <2> QED BY <1>2, <2>1, <2>2
<1>14. CASE UNCHANGED vars
  BY <1>5, <1>14 DEF vars, frameVars
<1> QED BY <1>6, <1>7, <1>8, <1>9, <1>10, <1>11, <1>12, <1>13, <1>14
        DEF Next, Operands, Calls, Ends, Handling, Closing

\* A dialog under construction belongs to a frame that exists, in any program: ~CFrame deletes it
\* (FRAME.CPP), so that a later frame at the same address never finds it.
THEOREM DialogsHaveOwners == Spec => []DialogOwnerExists
<1>1. Init => DialogOwnerExists
  BY DEF Init, DialogOwnerExists
<1> QED BY <1>1, DialogNext, SpecKeepsPInv, PTL DEF Spec

\* With one EVAL or OPX function in progress at a time, KInCallback says that a callback is in progress.
FlagInv ==
  /\ infos # <<>> /\ mode # "opx" => inCallback
  /\ Len(host) <= 1

LEMMA FlagNext == ASSUME MaxNest <= 1 PROVE PInv /\ FlagInv /\ [Next]_vars => FlagInv'
<1> SUFFICES ASSUME PInv, FlagInv, [Next]_vars PROVE FlagInv'
  OBVIOUS
<1>1. MaxNest \in Nat /\ host \in Seq(Hosts) /\ infos \in Seq(Int)
  BY ProcAssumption DEF PInv, ControlTypes
<1>2. ASSUME UNCHANGED <<infos, host, inCallback>>, mode # "opx" \/ infos = <<>> PROVE FlagInv'
  BY <1>2 DEF FlagInv
<1>3. ASSUME mode = "opx" PROVE infos = <<>>
  <2>1. Len(infos) = Cardinality(OpxIn(host)) - 1
    BY <1>3 DEF PInv, CallbacksRecorded, OpxFunctions, OpxIn
  <2>2. OpxIn(host) \subseteq {1}
    <3>1. DOMAIN host = 1..Len(host) /\ Len(host) \in Nat /\ Len(host) <= 1
      BY <1>1, HostFact DEF FlagInv
    <3>2. \A k \in DOMAIN host : k = 1
      BY <3>1
    <3> QED BY <3>2 DEF OpxIn
  <2>3. OpxIn(host) = {} \/ OpxIn(host) = {1}
    BY <2>2
  <2>4. Cardinality({}) = 0 /\ Cardinality({1}) = 1
    BY FS_EmptySet, FS_Singleton
  <2>5. Len(infos) \in Nat /\ (infos = <<>> <=> Len(infos) = 0)
    BY <1>1, EmptySeq, LenProperties
  <2>6. Cardinality(OpxIn(host)) \in {0, 1}
    BY <2>3, <2>4
  <2>7. Len(infos) = 0
    BY <2>1, <2>5, <2>6
  <2> QED BY <2>5, <2>7
<1>4. \A r \in Hosts : Len(Append(host, r)) = Len(host) + 1
  BY <1>1, AppendProperties
<1>5. host # <<>> => Len(Front(host)) <= 1
  <2>1. host # <<>> => Len(Front(host)) = Len(host) - 1 /\ Len(host) \in Nat
    BY <1>1, FrontFact
  <2> QED BY <2>1 DEF FlagInv
<1>6. CASE Operands \/ Stop \/ Return \/ ZeroReturn \/ ReturnFromEval \/ Handling \/ Loads \/ Dialogs \/ ProgramEnds \/ CloseFrame \/ CloseModules
  BY <1>2, <1>6 DEF Operands, Push, Operator, Drop, Raise, Trap, Cancel, IoSignal, OnErr, Stop, Return, ZeroReturn,
                    RemoveFrame, ReturnFromEval, Handling, Trapped, CatchError, DropFrame, Loads, LoadM, UnLoadM, Dialogs,
                    DInit, DItem, Dialog, ProgramEnds, CloseFrame, CloseModules, Statement, Command, Executing,
                    GivesUp, Unwinding, hostVars
<1>7. CASE \E p \in Procs : RunProcedure(p) \/ CallByName(p)
  BY <1>2, <1>7 DEF RunProcedure, CallByName, Call, Executing, hostVars
<1>8. CASE \E p \in Procs : CallProcedure(p)
  BY <1>8 DEF CallProcedure, SetsInCallback, FlagInv
<1>9. CASE CallProcedureFails \/ \E p \in Procs : CallProcedureUnresolved(p)
  BY <1>3, <1>9 DEF CallProcedureFails, CallProcedureUnresolved, FlagInv
<1>10. CASE Eval
  <2>1. mode = "run" /\ UNCHANGED <<infos, inCallback>>
    BY <1>10 DEF Eval, Executing
  <2>2. CASE UNCHANGED host
    BY <1>2, <2>1, <2>2
  <2>3. CASE Len(host) < MaxNest /\ host' = Append(host, [kind |-> "eval", frame |-> frame, ip |-> ip])
    <3>1. Len(host') <= 1
      <4>1. Len(host') = Len(host) + 1
        <5>1. [kind |-> "eval", frame |-> frame, ip |-> ip] \in Hosts
          BY <1>10 DEF Eval, Executing, Current, PInv, ControlTypes, FramesTyped, Hosts
        <5> QED BY <1>4, <2>3, <5>1
      <4>2. Len(host) \in Nat
        BY <1>1, HostFact
      <4> QED BY <1>1, <2>3, <4>1, <4>2
    <3> QED BY <2>1, <3>1 DEF FlagInv
  <2> QED BY <1>10, <2>2, <2>3 DEF Eval
<1>11. CASE CallOpxFunc
  <2>1. [kind |-> "opx", frame |-> frame, ip |-> ip] \in Hosts
    BY <1>11 DEF CallOpxFunc, Executing, Current, PInv, ControlTypes, FramesTyped, Hosts
  <2>2. Len(host') = Len(host) + 1
    BY <1>4, <1>11, <2>1 DEF CallOpxFunc
  <2>3. Len(host) \in Nat /\ Len(host) < MaxNest /\ mode' = "opx"
    BY <1>1, <1>11, HostFact DEF CallOpxFunc
  <2> QED BY <1>1, <2>2, <2>3 DEF FlagInv
<1>12. CASE EvalEnds
  BY <1>5, <1>12 DEF EvalEnds, Innermost, GivesUp, Unwinding, FlagInv
<1>13. CASE OpxEnds
  BY <1>3, <1>5, <1>13 DEF OpxEnds, PInv, OpxInControl, FlagInv
<1>14. CASE CallbackEnds
  BY <1>14 DEF CallbackEnds, FlagInv
<1>15. CASE UNCHANGED vars
  BY <1>15 DEF vars, hostVars, FlagInv
<1> QED BY <1>6, <1>7, <1>8, <1>9, <1>10, <1>11, <1>12, <1>13, <1>14, <1>15 DEF Next, Calls, Ends, Closing

\* Without EVALs or OPX functions inside one another STOP is refused in a callback (its OPX would get
\* no result). The callback of a callback resets KInCallback (OPLAPI.CPP) while the outer is in progress.
THEOREM StopsRefused == ASSUME MaxNest <= 1 PROVE Spec => StopRefusedInCallback
<1>1. Init => FlagInv
  <2>1. Init => infos = <<>> /\ Len(host) = 0
    BY DEF Init
  <2> QED BY <2>1 DEF FlagInv
<1>2. PInv /\ FlagInv /\ [Next]_vars => FlagInv'
  BY FlagNext
<1>3. FlagInv => (Stop /\ infos # <<>> => Leaves)
  BY DEF FlagInv, Stop, Statement, Executing, Leaves
<1> QED BY <1>1, <1>2, <1>3, SpecKeepsPInv, PTL DEF Spec, StopRefusedInCallback
=============================================================================
