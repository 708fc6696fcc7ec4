---------------------------- MODULE OplStackProofs ----------------------------
(***************************************************************************)
(* Proofs that the evaluation stack is what the q-code expects, whatever   *)
(* was trapped, caught, EVALuated or called back: ErrorHandler cuts it     *)
(* back, ResetStack has the stack pointer of its callback, and each frame  *)
(* knows where the operands of its caller end.  The programs are those of  *)
(* OplFramesProofs, whose stack of frames the argument measures.           *)
(***************************************************************************)
EXTENDS OplFramesProofs, WellFoundedInduction

\* b[e] operands lie between the base of the frame and the operands of its EVAL number e: those of
\* the statement that EVALuates, but for the text it took.
Below(b) ==
  /\ b \in [0..Len(host) -> Int] /\ b[0] = 0
  /\ \A e \in 1..Len(host) : b[e] = b[host[e].ip.eval] + host[e].ip.depth - 1

\* Where the stack pointer is when c runs.
Height(b, c) == frames[c.frame].base + b[c.eval] + c.depth

\* What a frame was called with lies on the operands of its caller, where the result goes.
Callers(n, st, b) ==
  \A i \in 1..n : i + 1 <= n =>
    frames[st[i + 1]].base - Arguments(st[i + 1]) + 1 = Height(b, frames[st[i + 1]].ret)

\* A callback returns to the code that called the OPX function.
Callbacks(n, st, pos) ==
  \A k \in 1..Len(host) : IsOpx(k) /\ pos[k] + 1 <= n => frames[st[pos[k] + 1]].ret = host[k].ip

\* r[k] of the first k EVALs and OPX functions in progress are OPX functions.
Ranked(r) ==
  /\ r \in [0..Len(host) -> Nat] /\ r[0] = 0
  /\ \A k \in 1..Len(host) : r[k] = r[k - 1] + (IF IsOpx(k) THEN 1 ELSE 0)
  /\ \A j, k \in 0..Len(host) : j <= k => r[j] <= r[k]

\* iCallbackInfoArray has the stack pointer of each OPX function that called back.
Recorded(b, r) ==
  /\ Len(infos) = r[Len(host)] - (IF mode = "opx" THEN 1 ELSE 0)
  /\ \A k \in 1..Len(host) : IsOpx(k) /\ (k < Len(host) \/ mode # "opx") =>
       infos[r[k]] = Height(b, host[k].ip) - 1

\* The stack pointer now, and the code to go on with.
Now(n, pos, b) ==
  /\ mode \in {"run", "exit"} /\ n > 0 => sp = Height(b, ip)
  /\ mode = "opx" => sp = Height(b, host[Len(host)].ip) - 1
  /\ mode = "exit" /\ Len(host) > 0 /\ IsEval(Len(host)) => ip.depth = 1
  /\ AtBottom(n, pos) /\ n > 0 => ip = host[Len(host)].ip
  /\ trap => ip.eval = 0 /\ (mode = "leave" => ip.depth = 0)

Heights(n, st, pos, b, r) ==
  Below(b) /\ Callers(n, st, b) /\ Callbacks(n, st, pos) /\ Ranked(r) /\ Recorded(b, r) /\ Now(n, pos, b)

Measured == \E n, st, pos, b, r : At(n, st, pos) /\ Heights(n, st, pos, b, r)

SInv == mode \notin {"closing", "ended"} => EvalsCounted /\ Measured

-----------------------------------------------------------------------------
(* What an expected stack pointer is.                                      *)

LEMMA LeastNat ==
  ASSUME NEW T \in SUBSET Nat, T # {}
  PROVE  \E n \in T : \A m \in T : n <= m
<1> DEFINE Up(n) == 1..n
           U == {Up(n) : n \in T}
<1>1. \A n \in T : Up(n) \in FiniteSubsetsOf(Nat)
  <2>1. \A n \in T : IsFiniteSet(1..n)
    BY FS_Interval
  <2> QED BY <2>1 DEF FiniteSubsetsOf
<1>2. U \subseteq FiniteSubsetsOf(Nat) /\ U # {}
  BY <1>1
<1>3. IsWellFoundedOn(StrictSubsetOrdering(Nat), FiniteSubsetsOf(Nat))
  BY FS_StrictSubsetOrderingWellFounded
<1>4. PICK x \in U : \A y \in U : ~(<<y, x>> \in StrictSubsetOrdering(Nat))
  <2> HIDE DEF U
  <2> QED BY <1>2, <1>3, WFMin
<1>5. PICK n \in T : x = Up(n)
  OBVIOUS
<1>6. ASSUME NEW m \in T, m < n PROVE FALSE
  <2>1. Up(m) \in U /\ Up(m) \in SUBSET Nat /\ Up(n) \in SUBSET Nat
    OBVIOUS
  <2>2. Up(m) \subseteq Up(n)
    BY <1>6
  <2>3. n \in Up(n) /\ n \notin Up(m)
    BY <1>6
  <2> HIDE DEF Up, U
  <2>4. <<Up(m), Up(n)>> \in StrictSubsetOrdering(Nat)
    BY <2>1, <2>2, <2>3 DEF StrictSubsetOrdering
  <2> QED BY <1>4, <1>5, <2>1, <2>4
<1> QED BY <1>6

\* The recursive definition of Expected computes b, the only function that is Below: an EVAL is in the
\* code of an earlier one.
LEMMA ExpectedIsHeight ==
  ASSUME host \in Seq(Hosts), NEW b, Below(b),
         \A e \in 1..Len(host) : host[e].ip.eval \in 0..(e - 1),
         NEW c, c.eval \in 0..Len(host)
  PROVE  Expected(c) = Height(b, c)
<1> PICK N : N = Len(host)
  OBVIOUS
<1> DEFINE F(g) == [e \in 0..N |-> IF e = 0 THEN 0 ELSE g[host[e].ip.eval] + host[e].ip.depth - 1]
           below == CHOOSE g : g = F(g)
<1>1. Expected(c) = frames[c.frame].base + below[c.eval] + c.depth
  BY Zenon DEF Expected
<1>2. N \in Nat
  BY HostFact
<1>3. \A e \in 0..N : e # 0 => e \in 1..N
  BY <1>2
<1>4. b = F(b)
  BY <1>3 DEF Below
<1>5. below = F(below)
  <2> HIDE DEF F
  <2> QED BY <1>4
<1> HIDE DEF below
<1> DEFINE T == {e \in 0..N : below[e] # b[e]}
<1>6. T = {}
  <2> SUFFICES ASSUME T # {} PROVE FALSE
    OBVIOUS
  <2>1. PICK e \in T : \A d \in T : e <= d
    <3>1. T \in SUBSET Nat
      BY <1>2
    <3> HIDE DEF T
    <3> QED BY <3>1, LeastNat
  <2>2. e \in 0..N /\ e # 0
    BY <1>2, <1>4, <1>5
  <2>3. host[e].ip.eval \in 0..(e - 1) /\ host[e].ip.eval \in 0..N
    BY <1>2, <1>3, <2>2
  <2>4. below[host[e].ip.eval] = b[host[e].ip.eval]
    BY <1>2, <2>1, <2>2, <2>3
  <2>5. below[e] = below[host[e].ip.eval] + host[e].ip.depth - 1
    BY <1>5, <2>2
  <2>6. b[e] = b[host[e].ip.eval] + host[e].ip.depth - 1
    BY <1>3, <2>2 DEF Below
  <2> QED BY <2>4, <2>5, <2>6
<1> QED BY <1>1, <1>6 DEF Height

-----------------------------------------------------------------------------
(* Steps that keep the frames in progress.                                 *)

\* Each return address, and what each EVAL and OPX function returns to, has a height.
LEMMA PlacesFact ==
  ASSUME PInv, NEW n, NEW st, NEW pos, Shape(n, st, pos)
  PROVE  /\ n \in Nat /\ Len(host) \in Nat
         /\ \A i \in 1..n : st[i] \in DOMAIN frames
         /\ \A i \in 1..n : i + 1 <= n => i + 1 \in 1..n /\ frames[st[i + 1]].ret.frame = st[i]
                                         /\ frames[st[i + 1]].ret.eval \in 0..Len(host)
         /\ \A k \in 1..Len(host) : /\ pos[k] \in 1..n /\ host[k].ip.frame = st[pos[k]]
                                    /\ host[k].ip.eval \in 0..(k - 1) /\ host[k].ip.eval \in 0..Len(host)
                                    /\ host[k].ip.depth \in Int /\ host[k].frame = st[pos[k]]
<1>1. host \in Seq(Hosts)
  BY DEF PInv, ControlTypes
<1>2. Len(host) \in Nat /\ \A k \in 1..Len(host) : host[k] \in Hosts
  BY <1>1, HostFact
<1>3. n \in Nat /\ \A i \in 1..n : st[i] \in DOMAIN frames
  BY StackedAllocated DEF Shape, Ascending
<1>4. ASSUME NEW k \in 1..Len(host)
      PROVE  /\ pos[k] \in 1..n /\ host[k].ip.frame = st[pos[k]] /\ host[k].frame = st[pos[k]]
             /\ host[k].ip.eval \in 0..(k - 1) /\ host[k].ip.depth \in Int
  BY <1>2, <1>4 DEF Shape, Placed, Fitting, Fits, LatestEval, Hosts, Codes
<1>5. \A k \in 1..Len(host) : \A e \in 0..(k - 1) : e \in 0..Len(host)
  BY <1>2
<1>6. \A i \in 1..n : i + 1 <= n => i + 1 \in 1..n
  BY <1>3
<1>7. \A i \in 1..n : i + 1 <= n => /\ frames[st[i + 1]].ret.frame = st[i]
                                    /\ frames[st[i + 1]].ret.eval \in 0..Len(host)
  BY DEF Shape, Fitting, Fits, LatestEval
<1> QED BY <1>2, <1>3, <1>4, <1>5, <1>6, <1>7

\* Frames st[1] to st[m] keep what they were called with.
Same(m, st) ==
  \A i \in 1..m : LET f == st[i] IN
    /\ frames'[f].ret = frames[f].ret /\ frames'[f].base = frames[f].base
    /\ frames'[f].def = frames[f].def /\ frames'[f].byName = frames[f].byName

LEMMA SameFramesFact ==
  ASSUME NEW n, NEW st, NEW pos, Shape(n, st, pos), SameFrames
  PROVE  Same(n, st)
BY StackedAllocated DEF Shape, Same, SameFrames

Within(m, pos) == \A k \in 1..Len(host) : pos[k] <= m

\* The frames in progress, or all but the last, stay.
LEMMA PlacesKept ==
  ASSUME PInv, NEW n, NEW st, NEW pos, NEW b, NEW r, Shape(n, st, pos),
         Below(b), Callers(n, st, b), Callbacks(n, st, pos), Ranked(r), UNCHANGED host,
         NEW m \in Nat, m <= n, Within(m, pos), Same(m, st)
  PROVE  /\ Below(b)' /\ Callers(m, st, b)' /\ Callbacks(m, st, pos)' /\ Ranked(r)'
         /\ \A i \in 1..m : \A c : c.frame = st[i] =>
              frames'[c.frame].base + b[c.eval] + c.depth = Height(b, c)
<1>0. /\ \A i \in 1..m : st[i] \in DOMAIN frames /\ i \in 1..n
      /\ \A i \in 1..m : i + 1 <= m => i + 1 \in 1..m /\ i + 1 <= n /\ frames[st[i + 1]].ret.frame = st[i]
  <2>1. n \in Nat /\ \A i \in 1..m : i \in 1..n /\ (i + 1 <= m => i + 1 \in 1..m /\ i + 1 <= n)
    BY PlacesFact
  <2>2. \A i \in 1..n : st[i] \in DOMAIN frames /\ (i + 1 <= n => frames[st[i + 1]].ret.frame = st[i])
    BY PlacesFact
  <2> QED BY <2>1, <2>2
<1>1. Below(b)'
  BY DEF Below
<1>2. Ranked(r)'
  BY DEF Ranked, IsOpx
<1>3. ASSUME NEW i \in 1..m, i + 1 <= m
      PROVE  (frames[st[i + 1]].base - Arguments(st[i + 1]) + 1 = Height(b, frames[st[i + 1]].ret))'
  <2>1. i + 1 \in 1..m /\ frames[st[i + 1]].ret.frame = st[i]
    BY <1>0, <1>3
  <2>2. frames'[st[i + 1]].base = frames[st[i + 1]].base /\ frames'[st[i + 1]].ret = frames[st[i + 1]].ret
    BY <2>1 DEF Same
  <2>3. Arguments(st[i + 1])' = Arguments(st[i + 1])
    BY <2>1 DEF Same, Arguments, ProcOf
  <2>4. frames'[st[i]].base = frames[st[i]].base
    BY <2>1 DEF Same
  <2>5. Height(b, frames[st[i + 1]].ret)' = Height(b, frames[st[i + 1]].ret)
    BY <2>1, <2>2, <2>4 DEF Height
  <2>6. frames[st[i + 1]].base - Arguments(st[i + 1]) + 1 = Height(b, frames[st[i + 1]].ret)
    BY <1>0, <1>3 DEF Callers
  <2> QED BY <2>2, <2>3, <2>5, <2>6
<1>4. Callers(m, st, b)'
  BY <1>3 DEF Callers
<1>5. Callbacks(m, st, pos)'
  <2> SUFFICES ASSUME NEW k \in 1..Len(host), IsOpx(k), pos[k] + 1 <= m
               PROVE  frames'[st[pos[k] + 1]].ret = host[k].ip
    BY DEF Callbacks, IsOpx
  <2>1. pos[k] \in 1..n /\ n \in Nat
    BY PlacesFact
  <2>2. pos[k] + 1 \in 1..m /\ pos[k] + 1 <= n
    BY <2>1 DEF Within
  <2> QED BY <2>2 DEF Callbacks, Same
<1>6. \A i \in 1..m : \A c : c.frame = st[i] => frames'[c.frame].base + b[c.eval] + c.depth = Height(b, c)
  BY DEF Same, Height
<1> QED BY <1>1, <1>2, <1>4, <1>5, <1>6

LEMMA WaitersHeights ==
  ASSUME PInv, NEW n, NEW st, NEW pos, NEW b, Shape(n, st, pos), UNCHANGED host,
         NEW m \in Nat, Within(m, pos), Same(m, st)
  PROVE  \A k \in 1..Len(host) : Height(b, host[k].ip)' = Height(b, host[k].ip)
<1> SUFFICES ASSUME NEW k \in 1..Len(host) PROVE Height(b, host[k].ip)' = Height(b, host[k].ip)
  OBVIOUS
<1>1. pos[k] \in 1..n /\ n \in Nat /\ host[k].ip.frame = st[pos[k]]
  BY PlacesFact
<1>2. pos[k] \in 1..m
  BY <1>1 DEF Within
<1> QED BY <1>1, <1>2 DEF Height, Same

LEMMA RecordKept ==
  ASSUME PInv, NEW n, NEW st, NEW pos, NEW b, NEW r, Shape(n, st, pos), Recorded(b, r),
         UNCHANGED <<host, infos>>, mode = "opx" <=> mode' = "opx",
         NEW m \in Nat, Within(m, pos), Same(m, st)
  PROVE  Recorded(b, r)'
<1>1. \A k \in 1..Len(host) : Height(b, host[k].ip)' = Height(b, host[k].ip)
  BY WaitersHeights, ZenonT(30)
<1> QED BY <1>1 DEF Recorded, IsOpx

LEMMA HeightsKept ==
  ASSUME PInv, NEW n, NEW st, NEW pos, NEW b, NEW r, At(n, st, pos), Heights(n, st, pos, b, r),
         SameFrames, UNCHANGED <<host, infos>>, mode = "opx" <=> mode' = "opx", Now(n, pos, b)'
  PROVE  Heights(n, st, pos, b, r)'
<1>1. Shape(n, st, pos) /\ Same(n, st)
  BY SameFramesFact DEF At
<1>2. n \in Nat /\ n <= n /\ Within(n, pos)
  BY <1>1, PlacesFact DEF Within
<1>3. Below(b)' /\ Callers(n, st, b)' /\ Callbacks(n, st, pos)' /\ Ranked(r)'
  BY <1>1, <1>2, PlacesKept DEF Heights
<1>4. Recorded(b, r)'
  BY <1>1, <1>2, RecordKept DEF Heights
<1> QED BY <1>3, <1>4 DEF Heights

\* An opcode that moves the stack pointer as the code expects, or leaves.
LEMMA StackMoves ==
  ASSUME PInv, EvalsCounted, NEW n, NEW st, NEW pos, NEW b, NEW r, At(n, st, pos), Heights(n, st, pos, b, r),
         SameFrames, UNCHANGED <<host, infos>>, mode = "run", Current, mode' \in {"run", "leave", "exit"},
         mode' # "leave" => sp' - ip'.depth = sp - ip.depth /\ ip'.eval = ip.eval /\ ip'.frame = ip.frame,
         mode' = "exit" => host = <<>> \/ ip'.depth = 1,
         sp' \in Int, ip' \in Codes, trap' => ip'.eval = 0 /\ (mode' = "leave" => ip'.depth = 0)
  PROVE  Heights(n, st, pos, b, r)'
<1>1. host \in Seq(Hosts) /\ ip \in Codes /\ sp \in Int /\ FramesTyped
  BY DEF PInv, ControlTypes
<1>2. n \in Nat /\ n > 0 /\ n \in 1..n /\ ~AtBottom(n, pos) /\ frame = st[n] /\ Fits(ip, n, Len(host), st, pos)
  BY OnTop DEF At
<1>3. sp = Height(b, ip)
  BY <1>2 DEF Heights, Now
<1>4. PICK c : c = ip'
  OBVIOUS
<1>5. mode' # "leave" => sp' = Height(b, ip)'
  <2> SUFFICES ASSUME mode' # "leave" PROVE sp' = frames'[c.frame].base + b[c.eval] + c.depth
    BY <1>4 DEF Height
  <2>1. c.frame = st[n] /\ st[n] \in DOMAIN frames /\ c.eval = ip.eval /\ c.frame = ip.frame
    BY <1>2, <1>4, PlacesFact DEF At, Fits
  <2>2. frames'[c.frame].base = frames[c.frame].base /\ frames[c.frame].base \in Int
    BY <1>1, <2>1 DEF SameFrames, FramesTyped, FrameRecords
  <2>3. b[c.eval] \in Int
    <3>1. ip.eval \in 0..Len(host)
      BY <1>2 DEF Fits, LatestEval
    <3> QED BY <2>1, <3>1 DEF Heights, Below
  <2>4. sp' - c.depth = sp - ip.depth /\ c.depth \in Int /\ ip.depth \in Int
    BY <1>1, <1>4 DEF Codes
  <2>5. sp = frames[c.frame].base + b[c.eval] + ip.depth
    BY <1>3, <2>1 DEF Height
  <2> QED BY <1>1, <2>2, <2>3, <2>4, <2>5
<1>6. ~AtBottom(n, pos)'
  BY <1>2 DEF AtBottom, IsOpx
<1>7. mode' = "exit" /\ Len(host) > 0 => ip'.depth = 1
  BY <1>1, HostFact
<1>8. Now(n, pos, b)'
  BY <1>5, <1>6, <1>7 DEF Now
<1> QED BY <1>8, HeightsKept

\* The opcodes of a statement's operands, and those that end a statement in the same frame.
LEMMA OpcodesMeasured ==
  ASSUME PInv, PInv', EvalsCounted, TrapInv, NEW n, NEW st, NEW pos, NEW b, NEW r,
         At(n, st, pos), Heights(n, st, pos, b, r),
         Operands \/ ReturnFromEval \/ (Stop /\ (host = <<>> \/ Leaves)) \/ Loads \/ Dialogs
  PROVE  Heights(n, st, pos, b, r)'
<1>1. ip \in Codes /\ sp \in Int /\ ip' \in Codes /\ sp' \in Int
  BY DEF PInv, ControlTypes
<1>2. ASSUME NEW d \in Int, To(d) PROVE ip'.frame = ip.frame /\ ip'.eval = ip.eval /\ ip'.depth = d
  BY <1>1, <1>2 DEF To, Codes
<1>3. ASSUME SameFrames, UNCHANGED <<host, infos>>, mode = "run", Current, mode' \in {"run", "leave", "exit"},
             mode' # "leave" => sp' - ip'.depth = sp - ip.depth /\ ip'.eval = ip.eval /\ ip'.frame = ip.frame,
             mode' = "exit" => host = <<>> \/ ip'.depth = 1,
             trap' => ip'.eval = 0 /\ (mode' = "leave" => ip'.depth = 0)
      PROVE  Heights(n, st, pos, b, r)'
  BY <1>1, <1>3, StackMoves
<1>4. mode = "run" /\ ~ip.trapping => ~trap
  BY DEF TrapInv
<1>5. UNCHANGED frames => SameFrames
  BY DEF SameFrames
<1>6. ip.depth \in Int /\ ip.depth + 1 \in Int /\ ip.depth - 1 \in Int
  BY <1>1 DEF Codes
<1>7. CASE Push
  <2>1. mode = "run" /\ Current /\ mode' = "run" /\ UNCHANGED <<frames, host, infos>> /\ ~trap' /\ To(ip.depth + 1) /\ sp' = sp + 1
    BY <1>4, <1>7 DEF Push, Executing, frameVars, hostVars
  <2>2. ip'.frame = ip.frame /\ ip'.eval = ip.eval /\ ip'.depth = ip.depth + 1
    BY <1>2, <1>6, <2>1
  <2>3. sp' - ip'.depth = sp - ip.depth
    BY <1>1, <1>6, <2>1, <2>2
  <2> QED BY <1>3, <1>5, <2>1, <2>2, <2>3
<1>8. CASE Operator
  <2>1. /\ mode = "run" /\ Current /\ mode' \in {"run", "leave"} /\ UNCHANGED <<frames, host, infos>> /\ ~trap'
        /\ To(ip.depth - 1) /\ sp' = sp - 1
    BY <1>4, <1>8 DEF Operator, Executing, Leaves, frameVars, hostVars
  <2>2. ip'.frame = ip.frame /\ ip'.eval = ip.eval /\ ip'.depth = ip.depth - 1
    BY <1>2, <1>6, <2>1
  <2>3. sp' - ip'.depth = sp - ip.depth
    BY <1>1, <1>6, <2>1, <2>2
  <2> QED BY <1>3, <1>5, <2>1, <2>2, <2>3
<1>9. CASE Drop \/ Raise \/ Cancel \/ IoSignal \/ Loads
  <2>1. /\ mode = "run" /\ Current /\ mode' \in {"run", "leave"} /\ UNCHANGED <<frames, host, infos>> /\ To(0)
        /\ ((ip.depth = 1 /\ sp' = sp - 1) \/ (ip.depth = 0 /\ sp' = sp))
        /\ ip.eval = 0
    BY <1>9 DEF Drop, Raise, Cancel, IoSignal, Loads, LoadM, UnLoadM, Statement, Command, Executing, Leaves, frameVars, hostVars
  <2>2. ip'.frame = ip.frame /\ ip'.eval = ip.eval /\ ip'.depth = 0
    BY <1>2, <2>1
  <2>3. sp' - ip'.depth = sp - ip.depth
    BY <1>1, <2>1, <2>2
  <2> QED BY <1>3, <1>5, <2>1, <2>2, <2>3
<1>10. CASE Trap
  <2>1. /\ mode = "run" /\ Current /\ mode' = "run" /\ UNCHANGED <<frames, host, infos, sp>> /\ ip.eval = 0
        /\ ip'.frame = ip.frame /\ ip'.eval = ip.eval /\ ip'.depth = ip.depth
    BY <1>1, <1>10 DEF Trap, Executing, frameVars, hostVars, Codes
  <2> QED BY <1>3, <1>5, <2>1
<1>11. CASE OnErr
  <2>1. mode = "run" /\ Current /\ mode' = "run" /\ UNCHANGED <<host, infos, sp, ip>> /\ ~trap'
    BY <1>4, <1>11 DEF OnErr, Statement, Executing, hostVars
  <2>2. frame = st[n] /\ Fits(ip, n, Len(host), st, pos)
    BY <2>1, OnTop DEF At
  <2>3. SameFrames
    BY <1>11, <2>2, HandlerSet DEF Fits
  <2> QED BY <1>3, <2>1, <2>3
<1>12. CASE ReturnFromEval
  <2>1. mode = "run" /\ Current /\ mode' = "exit" /\ UNCHANGED <<frames, host, infos, sp, ip>> /\ ~trap' /\ ip.depth = 1
    BY <1>4, <1>12 DEF ReturnFromEval, Executing, frameVars, hostVars
  <2> QED BY <1>3, <1>5, <2>1
<1>13. CASE Stop /\ (host = <<>> \/ Leaves)
  <2>1. /\ mode = "run" /\ Current /\ mode' \in {"leave", "exit"} /\ UNCHANGED <<frames, host, infos, sp, ip>> /\ ~trap'
        /\ host = <<>> \/ mode' = "leave"
    BY <1>4, <1>13 DEF Stop, Statement, Executing, Leaves, frameVars, hostVars
  <2> QED BY <1>3, <1>5, <2>1
<1>14. CASE Dialogs
  <2>1. mode = "run" /\ Current /\ mode' \in {"run", "leave"} /\ UNCHANGED <<frames, host, infos>> /\ ~trap'
    BY <1>4, <1>14 DEF Dialogs, DInit, DItem, Dialog, Statement, Executing, Leaves, hostVars
  <2>2. \/ UNCHANGED <<ip, sp>>
        \/ ip.depth = 1 /\ To(0) /\ sp' = sp - 1
        \/ ip.depth = 0 /\ To(1) /\ sp' = sp + 1
    BY <1>14 DEF Dialogs, DInit, DItem, Dialog, Statement
  <2>3. ip'.frame = ip.frame /\ ip'.eval = ip.eval /\ sp' - ip'.depth = sp - ip.depth
    <3>1. CASE ip.depth = 1 /\ To(0) /\ sp' = sp - 1
      BY <1>1, <1>2, <3>1
    <3>2. CASE ip.depth = 0 /\ To(1) /\ sp' = sp + 1
      BY <1>1, <1>2, <3>2
    <3> QED BY <2>2, <3>1, <3>2
  <2> QED BY <1>3, <1>5, <2>1, <2>3
<1> QED BY <1>7, <1>8, <1>9, <1>10, <1>11, <1>12, <1>13, <1>14 DEF Operands

\* An error that TRAP, or the handler of the frame, takes: the stack is that of a statement.
LEMMA ErrorsMeasured ==
  ASSUME PInv, EvalsCounted, NEW n, NEW st, NEW pos, NEW b, NEW r,
         At(n, st, pos), Heights(n, st, pos, b, r), Trapped \/ CatchError
  PROVE  Heights(n, st, pos, b, r)'
<1>1. /\ mode = "leave" /\ Current /\ mode' = "run" /\ ~trap' /\ UNCHANGED <<frame, frames, host, infos>>
      /\ sp' = frames[frame].base
  BY DEF Trapped, CatchError, Unwinding, ClearError, frameVars, hostVars
<1>2. n \in Nat /\ n > 0 /\ n \in 1..n /\ ~AtBottom(n, pos) /\ frame = st[n] /\ (trap => Fits(ip, n, Len(host), st, pos))
  BY <1>1, OnTop DEF At
<1>3. ip'.frame = st[n] /\ ip'.eval = 0 /\ ip'.depth = 0
  <2>1. CASE Trapped
    BY <1>1, <1>2, <2>1 DEF Trapped, Heights, Now, Fits
  <2>2. CASE CatchError
    <3>1. frames[frame].onerr = frame
      BY <1>2, <2>2 DEF CatchError, At, Shape, Linked
    <3> QED BY <1>2, <2>2, <3>1 DEF CatchError, Code
  <2> QED BY <2>1, <2>2
<1>4. b[0] = 0 /\ frames[frame].base \in Int
  <2>1. FramesTyped
    BY DEF PInv, ControlTypes
  <2> QED BY <1>1, <2>1 DEF Heights, Below, FramesTyped, FrameRecords, Current
<1>5. sp' = Height(b, ip)'
  BY <1>1, <1>2, <1>3, <1>4 DEF Height
<1>6. ~AtBottom(n, pos)'
  BY <1>1, <1>2 DEF AtBottom, IsOpx
<1>7. Now(n, pos, b)'
  BY <1>1, <1>5, <1>6 DEF Now
<1>8. SameFrames
  BY <1>1 DEF SameFrames
<1> QED BY <1>1, <1>7, <1>8, HeightsKept

-----------------------------------------------------------------------------
(* Frames that come and go.                                                *)

\* p is called with its arguments above the operands of ret.
Takes(p, byName, base, b, ret) ==
  base - (Params[p] + 1 + (IF byName THEN 1 ELSE 0)) + 1 = Height(b, ret)

\* ret is the code that called the OPX functions of frame n.
Returns(ret, n, pos) == \A k \in 1..Len(host) : IsOpx(k) /\ pos[k] = n => ret = host[k].ip

\* A frame is made on top of the stack, called with what its procedure takes.
LEMMA PlacesPushed ==
  ASSUME PInv, NEW n, NEW st, NEW pos, NEW b, NEW r, Shape(n, st, pos), n > 0,
         Below(b), Callers(n, st, b), Callbacks(n, st, pos), Ranked(r), UNCHANGED host,
         NEW f \in Frames, NEW p, NEW prev, NEW ret, NEW base, NEW byName,
         ConstructFrame(f, p, prev, ret, base, byName), ret.frame = st[n],
         Takes(p, byName, base, b, ret), Returns(ret, n, pos),
         NEW m, NEW s2, Higher(n, st, f, m, s2)
  PROVE  /\ Below(b)' /\ Callers(m, s2, b)' /\ Callbacks(m, s2, pos)' /\ Ranked(r)' /\ Same(n, st)
<1>1. /\ n \in Nat /\ n \in 1..n /\ \A i \in 1..n : st[i] \in DOMAIN frames
      /\ \A k \in 1..Len(host) : pos[k] \in 1..n
  <2>1. n \in Nat /\ \A i \in 1..n : st[i] \in DOMAIN frames
    BY PlacesFact
  <2>2. \A k \in 1..Len(host) : pos[k] \in 1..n
    BY PlacesFact
  <2> QED BY <2>1, <2>2
<1>2. /\ frames'[f].base = base /\ frames'[f].ret = ret /\ ProcOf(f)' = p /\ frames'[f].byName = byName
      /\ f \in DOMAIN frames' /\ f \notin DOMAIN frames /\ \A g \in DOMAIN frames : frames'[g] = frames[g]
  BY DEF ConstructFrame, ProcOf
<1>3. Arguments(f)' = Params[p] + 1 + (IF byName THEN 1 ELSE 0)
  BY <1>2 DEF Arguments
<1>4. Same(n, st)
  BY <1>1, <1>2 DEF Same
<1>5. /\ m = n + 1 /\ s2[m] = f /\ \A i \in 1..n : s2[i] = st[i]
  <2>1. m = n + 1 /\ s2 = [i \in 1..m |-> IF i <= n THEN st[i] ELSE f]
    BY DEF Higher
  <2>2. m \in 1..m /\ ~(m <= n) /\ \A i \in 1..n : i \in 1..m /\ i <= n
    BY <1>1, <2>1
  <2> QED BY <2>1, <2>2
<1>6. Below(b)' /\ Callers(n, st, b)' /\ Callbacks(n, st, pos)' /\ Ranked(r)'
  <2>1. n <= n /\ Within(n, pos)
    BY <1>1 DEF Within
  <2> QED BY <1>1, <1>4, <2>1, PlacesKept
<1>7. Height(b, ret) = frames'[ret.frame].base + b[ret.eval] + ret.depth
  BY <1>1, <1>2 DEF Height
<1>8. Callers(m, s2, b)'
  <2> SUFFICES ASSUME NEW i \in 1..m, i + 1 <= m
               PROVE  (frames[s2[i + 1]].base - Arguments(s2[i + 1]) + 1 = Height(b, frames[s2[i + 1]].ret))'
    BY DEF Callers
  <2>1. i \in 1..n /\ (i = n \/ (i + 1 \in 1..n /\ i + 1 <= n))
    BY <1>1, <1>5
  <2>2. CASE i = n
    <3>1. s2[i + 1] = f
      BY <1>5, <2>2
    <3>2. frames'[f].base - Arguments(f)' + 1 = Height(b, ret)
      BY <1>2, <1>3 DEF Takes
    <3>3. Height(b, frames[f].ret)' = Height(b, ret)
      BY <1>2, <1>7 DEF Height
    <3> QED BY <3>1, <3>2, <3>3
  <2>3. CASE i + 1 \in 1..n /\ i + 1 <= n
    <3>1. s2[i + 1] = st[i + 1]
      BY <1>5, <2>3
    <3>2. (frames[st[i + 1]].base - Arguments(st[i + 1]) + 1 = Height(b, frames[st[i + 1]].ret))'
      BY <1>6, <2>1, <2>3 DEF Callers
    <3> QED BY <3>1, <3>2
  <2> QED BY <2>1, <2>2, <2>3
<1>9. Callbacks(m, s2, pos)'
  <2> SUFFICES ASSUME NEW k \in 1..Len(host), IsOpx(k) PROVE frames'[s2[pos[k] + 1]].ret = host[k].ip
    BY DEF Callbacks, IsOpx
  <2>1. pos[k] = n \/ (pos[k] + 1 \in 1..n /\ pos[k] + 1 <= n)
    BY <1>1
  <2>2. CASE pos[k] = n
    BY <1>2, <1>5, <2>2 DEF Returns
  <2>3. CASE pos[k] + 1 \in 1..n /\ pos[k] + 1 <= n
    BY <1>5, <1>6, <2>3 DEF Callbacks, IsOpx
  <2> QED BY <2>1, <2>2, <2>3
<1> QED BY <1>1, <1>2, <1>4, <1>6, <1>8, <1>9

LEMMA PlacesPopped ==
  ASSUME PInv, NEW n, NEW st, NEW pos, NEW b, NEW r, Shape(n, st, pos), n > 0,
         Below(b), Callers(n, st, b), Callbacks(n, st, pos), Ranked(r), UNCHANGED host,
         \A k \in 1..Len(host) : pos[k] # n, DeleteFrame(st[n]), NEW m, NEW s2, Lower(n, st, m, s2)
  PROVE  /\ Below(b)' /\ Callers(m, s2, b)' /\ Callbacks(m, s2, pos)' /\ Ranked(r)' /\ Same(m, st)
         /\ m \in Nat /\ m + 1 = n /\ Within(m, pos)
<1>1. n \in Nat /\ m \in Nat /\ m + 1 = n /\ m <= n /\ \A i \in 1..m : i \in 1..n /\ i < n
  <2>1. n \in Nat /\ m = n - 1
    BY PlacesFact DEF Lower
  <2> QED BY <2>1
<1>2. Within(m, pos)
  <2>1. \A k \in 1..Len(host) : pos[k] \in 1..n
    BY PlacesFact
  <2> QED BY <1>1, <2>1 DEF Within
<1>3. \A i \in 1..m : st[i] \in DOMAIN frames /\ st[i] # st[n]
  <2>1. \A i \in 1..n : st[i] \in DOMAIN frames /\ st[i] \in Nat
    BY StackedAllocated DEF Shape, Frames
  <2>2. \A i \in 1..m : st[i] < st[n] /\ n \in 1..n
    BY <1>1 DEF Shape, Ascending
  <2> QED BY <1>1, <2>1, <2>2
<1>4. Same(m, st)
  BY <1>3 DEF Same, DeleteFrame
<1>5. Below(b)' /\ Callers(m, st, b)' /\ Callbacks(m, st, pos)' /\ Ranked(r)'
  BY <1>1, <1>2, <1>4, PlacesKept
<1>6. \A i \in 1..m : s2[i] = st[i]
  BY DEF Lower
<1>7. Callers(m, s2, b)'
  <2>1. \A i \in 1..m : i + 1 <= m => s2[i + 1] = st[i + 1]
    BY <1>1, <1>6
  <2> QED BY <1>5, <2>1 DEF Callers
<1>8. Callbacks(m, s2, pos)'
  <2>1. \A k \in 1..Len(host) : pos[k] \in 1..n
    BY PlacesFact
  <2>2. \A k \in 1..Len(host) : pos[k] + 1 <= m => s2[pos[k] + 1] = st[pos[k] + 1]
    BY <1>1, <1>6, <2>1
  <2> QED BY <1>5, <2>2 DEF Callbacks
<1> QED BY <1>1, <1>2, <1>4, <1>5, <1>7, <1>8

-----------------------------------------------------------------------------
(* Calls, callbacks and returns.                                           *)

LEMMA CallMeasured ==
  ASSUME PInv, EvalsCounted, TrapInv, NEW n, NEW st, NEW pos, NEW b, NEW r,
         At(n, st, pos), Heights(n, st, pos, b, r),
         mode = "run", Current, ~ip.trapping, UNCHANGED <<trap, infos, host>>,
         NEW p \in Procs, NEW byName \in BOOLEAN, NEW taken, taken = Params[p] + (IF byName THEN 1 ELSE 0),
         NEW ret, ret = [ip EXCEPT !.depth = @ - taken + 1],
         NEW f \in Frames, ConstructFrame(f, p, frame, ret, sp + 1, byName), FinishConstruction(f, p, ret), sp' = sp + 1,
         NEW m, NEW s2, Higher(n, st, f, m, s2)
  PROVE  Heights(m, s2, pos, b, r)'
<1>1. Shape(n, st, pos) /\ host \in Seq(Hosts) /\ ~trap /\ sp \in Int /\ ip \in Codes /\ FramesTyped
  BY DEF At, PInv, ControlTypes, TrapInv
<1>2. n > 0 /\ n \in Nat /\ n \in 1..n /\ ~AtBottom(n, pos) /\ frame = st[n] /\ Fits(ip, n, Len(host), st, pos)
  BY OnTop DEF At
<1>3. Params[p] \in Nat /\ taken \in Nat
  BY ProcAssumption
<1>4. ret.frame = st[n] /\ ret.eval = ip.eval /\ ret.depth = ip.depth - taken + 1 /\ ip.depth \in Int
  BY <1>1, <1>2 DEF Codes, Fits
<1>5. PICK base : base = sp + 1
  OBVIOUS
<1>6. Takes(p, byName, base, b, ret)
  <2>1. sp = frames[st[n]].base + b[ip.eval] + ip.depth
    BY <1>2 DEF Heights, Now, Height, Fits
  <2>2. frames[st[n]].base \in Int /\ b[ip.eval] \in Int
    <3>1. ip.eval \in 0..Len(host)
      BY <1>2 DEF Fits, LatestEval
    <3>2. st[n] \in DOMAIN frames
      BY <1>1, <1>2, PlacesFact
    <3> QED BY <1>1, <3>1, <3>2 DEF Heights, Below, FramesTyped, FrameRecords
  <2>3. Height(b, ret) = frames[st[n]].base + b[ip.eval] + (ip.depth - taken + 1)
    BY <1>4 DEF Height
  <2>4. PICK x \in {0, 1} : x = IF byName THEN 1 ELSE 0
    OBVIOUS
  <2>5. PICK h \in Int : h = frames[st[n]].base + b[ip.eval]
    BY <2>2
  <2>6. PICK q \in Nat : q = Params[p]
    BY <1>3
  <2>7. PICK d \in Int : d = ip.depth
    BY <1>4
  <2>8. sp = h + d /\ Height(b, ret) = h + (d - (q + x) + 1)
    BY <2>1, <2>3, <2>4, <2>5, <2>6, <2>7
  <2>9. base - (q + 1 + x) + 1 = Height(b, ret)
    BY <1>5, <2>4, <2>5, <2>6, <2>7, <2>8
  <2> QED BY <2>4, <2>6, <2>9 DEF Takes
<1>7. Returns(ret, n, pos)
  <2>1. \A k \in 1..Len(host) : pos[k] <= n
    <3>1. \A k \in 1..Len(host) : pos[k] \in 1..n
      BY <1>1, PlacesFact
    <3> QED BY <1>2, <3>1
  <2>2. ~Callback(n, pos)
    BY <1>1, <1>2, <2>1, OpxBelow
  <2> QED BY <2>2 DEF Callback, Returns
<1>8. /\ Below(b)' /\ Callers(m, s2, b)' /\ Callbacks(m, s2, pos)' /\ Ranked(r)' /\ Same(n, st)
      /\ frames'[f].base = base /\ n \in Nat /\ \A k \in 1..Len(host) : pos[k] \in 1..n
  <2>1. PICK prev : prev = frame
    OBVIOUS
  <2>4. ConstructFrame(f, p, prev, ret, base, byName) /\ UNCHANGED host
    BY <1>5, <2>1
  <2>2. Below(b) /\ Callers(n, st, b) /\ Callbacks(n, st, pos) /\ Ranked(r)
    BY DEF Heights
  <2>3. ret.frame = st[n] /\ Shape(n, st, pos) /\ n > 0
    BY <1>1, <1>2, <1>4
  <2>5. Below(b)' /\ Callers(m, s2, b)'
    BY <1>6, <1>7, <2>2, <2>3, <2>4, PlacesPushed
  <2>6. Callbacks(m, s2, pos)' /\ Ranked(r)'
    BY <1>6, <1>7, <2>2, <2>3, <2>4, PlacesPushed
  <2>7. Same(n, st)
    BY <1>6, <1>7, <2>2, <2>3, <2>4, PlacesPushed
  <2>9. frames'[f].base = base
    BY <2>4 DEF ConstructFrame
  <2>8. \A k \in 1..Len(host) : pos[k] \in 1..n
    BY <2>3, PlacesFact
  <2> QED BY <1>2, <2>5, <2>6, <2>7, <2>8, <2>9
<1>9. mode' \in {"run", "leave"} /\ (mode' = "run" => ip' = Code(f, 0, 0))
  BY DEF FinishConstruction, Leaves
<1>10. Recorded(b, r)'
  <2>1. Within(n, pos)
    BY <1>8 DEF Within
  <2>2. Shape(n, st, pos) /\ n \in Nat /\ Same(n, st) /\ Recorded(b, r)
    BY <1>1, <1>2, <1>8 DEF Heights
  <2> QED BY <1>9, <2>1, <2>2, RecordKept
<1>11. Now(m, pos, b)'
  <2>1. mode' = "run" => sp' = Height(b, ip)'
    <3>1. mode' = "run" => ip'.frame = f /\ ip'.eval = 0 /\ ip'.depth = 0
      BY <1>9 DEF Code
    <3>2. b[0] = 0 /\ base \in Int
      BY <1>1, <1>5 DEF Heights, Below
    <3> QED BY <1>5, <1>8, <3>1, <3>2 DEF Height
  <2>2. ~AtBottom(m, pos)'
    <3>1. m = n + 1
      BY DEF Higher
    <3>2. m # 0 /\ \A k \in 1..Len(host) : pos[k] # m
      BY <1>8, <3>1
    <3>3. Len(host) \in Nat
      BY <1>1, HostFact
    <3> QED BY <3>2, <3>3 DEF AtBottom
  <2> QED BY <1>1, <1>9, <2>1, <2>2 DEF Now
<1> QED BY <1>8, <1>10, <1>11 DEF Heights

LEMMA CallbackMeasured ==
  ASSUME PInv, EvalsCounted, NEW n, NEW st, NEW pos, NEW b, NEW r,
         At(n, st, pos), Heights(n, st, pos, b, r),
         mode = "opx", mode' = "run", UNCHANGED <<trap, host>>, ~trap, infos' = Append(infos, sp),
         NEW p \in Procs, NEW base, base = sp + Params[p] + 2, sp' = base,
         NEW f \in Frames, ConstructFrame(f, p, None, ip, base, TRUE), ip' = Code(f, 0, 0),
         NEW m, NEW s2, Higher(n, st, f, m, s2)
  PROVE  Heights(m, s2, pos, b, r)'
<1>1. host \in Seq(Hosts) /\ sp \in Int /\ infos \in Seq(Int) /\ Params[p] \in Nat
  BY ProcAssumption DEF PInv, ControlTypes
<1>2. /\ Shape(n, st, pos) /\ host # <<>> /\ IsOpx(Len(host)) /\ AtBottom(n, pos)
      /\ Fits(ip, n, Len(host), st, pos)
  BY OpxInFrame
<1>3. PICK N : N = Len(host)
  OBVIOUS
<1>4. n \in Nat /\ n > 0 /\ pos[N] = n /\ N \in Nat /\ N > 0 /\ N \in 1..N
  <2>1. n \in Nat /\ n > 0 /\ pos[N] = n /\ N \in Nat /\ N > 0
    BY <1>2, <1>3, OpxOnTop
  <2> QED BY <2>1
<1>5. ip = host[N].ip /\ sp = Height(b, ip) - 1
  BY <1>2, <1>3, <1>4 DEF Heights, Now
<1>6. Height(b, host[N].ip) \in Int
  <2>1. frames[host[N].ip.frame].base \in Int
    <3>1. host[N].ip.frame = st[n] /\ st[n] \in DOMAIN frames
      BY <1>2, <1>3, <1>4, PlacesFact
    <3> QED BY <3>1 DEF PInv, ControlTypes, FramesTyped, FrameRecords
  <2>2. host[N].ip.eval \in 0..Len(host) /\ host[N].ip.depth \in Int
    BY <1>2, <1>3, <1>4, PlacesFact
  <2>3. b[host[N].ip.eval] \in Int
    BY <2>2 DEF Heights, Below
  <2> QED BY <2>1, <2>2, <2>3 DEF Height
<1>7. base - (Params[p] + 1 + 1) + 1 = Height(b, ip)
  <2>1. PICK q \in Nat : q = Params[p]
    BY <1>1
  <2>2. PICK h \in Int : h = Height(b, ip)
    BY <1>5, <1>6
  <2>3. PICK s \in Int : s = sp
    BY <1>1
  <2>4. s = h - 1 /\ base = s + q + 2
    BY <1>5, <2>1, <2>2, <2>3
  <2>5. base - (q + 1 + 1) + 1 = h
    BY <2>4
  <2> QED BY <2>1, <2>2, <2>5
<1>8. \A k \in 1..Len(host) : IsOpx(k) /\ pos[k] = n => ip = host[k].ip
  <2> SUFFICES ASSUME NEW k \in 1..N, IsOpx(k), pos[k] = n, k # N PROVE FALSE
    BY <1>3, <1>5
  <2>1. k < N
    BY <1>4
  <2>2. pos[k] < pos[N]
    BY <1>2, <1>3, <1>4, <2>1 DEF Shape, Placed
  <2> QED BY <1>4, <2>2
<1>9. /\ Below(b)' /\ Callers(m, s2, b)' /\ Callbacks(m, s2, pos)' /\ Ranked(r)' /\ Same(n, st)
      /\ frames'[f].base = base /\ \A k \in 1..Len(host) : pos[k] \in 1..n
  <2>1. ip.frame = st[n]
    BY <1>2 DEF Fits
  <2>2. PICK ret : ret = ip
    OBVIOUS
  <2>3. ret.frame = st[n] /\ Shape(n, st, pos) /\ n > 0 /\ ConstructFrame(f, p, None, ret, base, TRUE)
    BY <1>2, <1>4, <2>1, <2>2
  <2>4. Below(b) /\ Callers(n, st, b) /\ Callbacks(n, st, pos) /\ Ranked(r)
    BY DEF Heights
  <2>5. Takes(p, TRUE, base, b, ret) /\ Returns(ret, n, pos)
    BY <1>7, <1>8, <2>2 DEF Takes, Returns
  <2>6. Below(b)' /\ Callers(m, s2, b)'
    BY <2>3, <2>4, <2>5, PlacesPushed
  <2>7. Callbacks(m, s2, pos)' /\ Ranked(r)'
    BY <2>3, <2>4, <2>5, PlacesPushed
  <2>8. Same(n, st)
    BY <2>3, <2>4, <2>5, PlacesPushed
  <2>10. frames'[f].base = base
    BY <2>3 DEF ConstructFrame
  <2>9. \A k \in 1..Len(host) : pos[k] \in 1..n
    BY <2>3, PlacesFact
  <2> QED BY <2>6, <2>7, <2>8, <2>9, <2>10
<1>10. \A k \in 1..N : Height(b, host[k].ip)' = Height(b, host[k].ip)
  <2>1. Within(n, pos)
    BY <1>4, <1>9 DEF Within
  <2>2. Shape(n, st, pos) /\ n \in Nat /\ Same(n, st)
    BY <1>2, <1>4, <1>9
  <2> QED BY <1>3, <2>1, <2>2, WaitersHeights, ZenonT(30)
<1>11. Recorded(b, r)'
  <2>1. Len(infos) = r[N] - 1 /\ Ranked(r)
    BY <1>3 DEF Heights, Recorded
  <2>2. \A k \in 1..N : k \in 0..N /\ k - 1 \in 0..N /\ (k < N => k <= N - 1)
    BY <1>4
  <2>3. \A k \in 1..N : r[k] \in Nat /\ r[k - 1] \in Nat /\ (IsOpx(k) => r[k] = r[k - 1] + 1)
    BY <1>3, <2>1, <2>2 DEF Ranked
  <2>4. \A k \in 1..N : k < N => r[k] <= r[N - 1]
    BY <1>3, <1>4, <2>1, <2>2 DEF Ranked
  <2>5. r[N] = r[N - 1] + 1 /\ r[N - 1] \in Nat
    BY <1>2, <1>3, <1>4, <2>3
  <2>6. \A k \in 1..N : k < N /\ IsOpx(k) => r[k] \in 1..Len(infos)
    BY <2>1, <2>3, <2>4, <2>5
  <2>7. /\ Len(infos') = Len(infos) + 1 /\ infos'[Len(infos) + 1] = sp
        /\ \A i \in 1..Len(infos) : infos'[i] = infos[i]
    BY <1>1, AppendProperties
  <2>8. ASSUME NEW k \in 1..N, IsOpx(k) PROVE infos'[r[k]] = Height(b, host[k].ip) - 1
    <3>1. CASE k = N
      <4>1. r[N] = Len(infos) + 1
        BY <2>1, <2>5
      <4> QED BY <1>5, <2>7, <3>1, <4>1
    <3>2. CASE k # N
      <4>1. k < N
        BY <1>4, <3>2
      <4>2. infos[r[k]] = Height(b, host[k].ip) - 1
        BY <1>3, <2>8, <4>1 DEF Heights, Recorded
      <4> QED BY <2>6, <2>7, <2>8, <4>1, <4>2
    <3> QED BY <3>1, <3>2
  <2>9. Len(infos') = r[N] - 0
    BY <2>1, <2>5, <2>7
  <2> QED BY <1>3, <1>10, <2>8, <2>9 DEF Recorded, IsOpx
<1>12. Now(m, pos, b)'
  <2>1. sp' = Height(b, ip)'
    <3>1. ip'.frame = f /\ ip'.eval = 0 /\ ip'.depth = 0
      BY DEF Code
    <3>2. b[0] = 0 /\ base \in Int
      BY <1>1 DEF Heights, Below
    <3> QED BY <1>9, <3>1, <3>2 DEF Height
  <2>2. ~AtBottom(m, pos)'
    <3>1. m = n + 1
      BY DEF Higher
    <3>2. m # 0 /\ \A k \in 1..Len(host) : pos[k] # m
      BY <1>4, <1>9, <3>1
    <3> QED BY <1>3, <1>4, <3>2 DEF AtBottom
  <2> QED BY <2>1, <2>2 DEF Now
<1> QED BY <1>9, <1>11, <1>12 DEF Heights

\* A step after which iIP and the stack pointer are where they were.
LEMMA StillMeasured ==
  ASSUME PInv, NEW n, NEW st, NEW pos, NEW b, NEW r, At(n, st, pos), Heights(n, st, pos, b, r),
         SameFrames, UNCHANGED <<mode, ip, sp, trap, infos, host>>
  PROVE  Heights(n, st, pos, b, r)'
<1>1. Shape(n, st, pos) /\ Same(n, st) /\ Control(n, st, pos)
  BY SameFramesFact DEF At
<1>2. n \in Nat /\ Len(host) \in Nat /\ Within(n, pos) /\ \A i \in 1..n : st[i] \in DOMAIN frames
  <2>1. n \in Nat /\ Len(host) \in Nat /\ \A i \in 1..n : st[i] \in DOMAIN frames
    BY <1>1, PlacesFact
  <2>2. \A k \in 1..Len(host) : pos[k] \in 1..n
    BY <1>1, PlacesFact
  <2> QED BY <2>1, <2>2 DEF Within
<1>3. \A k \in 1..Len(host) : Height(b, host[k].ip)' = Height(b, host[k].ip)
  BY <1>1, <1>2, WaitersHeights, ZenonT(30)
<1>4. mode \in {"run", "exit"} /\ n > 0 => Height(b, ip)' = Height(b, ip)
  <2> SUFFICES ASSUME mode \in {"run", "exit"}, n > 0 PROVE Height(b, ip)' = Height(b, ip)
    OBVIOUS
  <2>1. ip.frame = st[n] /\ n \in 1..n
    BY <1>1, <1>2 DEF Control, Unresolved, Fits
  <2>2. frames'[st[n]].base = frames[st[n]].base
    BY <1>1, <2>1 DEF Same
  <2> QED BY <2>1, <2>2 DEF Height
<1>5. mode = "opx" => Len(host) \in 1..Len(host)
  BY <1>1, <1>2 DEF Control, AtBottom
<1>6. AtBottom(n, pos)' <=> AtBottom(n, pos)
  BY DEF AtBottom, IsOpx
<1>7. Now(n, pos, b)'
  BY <1>3, <1>4, <1>5, <1>6 DEF Heights, Now, IsEval
<1> QED BY <1>7, HeightsKept

\* RETURN leaves the result where the arguments were; an error only drops the frame.
LEMMA ReturnMeasured ==
  ASSUME PInv, EvalsCounted, NEW n, NEW st, NEW pos, NEW b, NEW r, At(n, st, pos), Heights(n, st, pos, b, r),
         mode = "run" \/ Unwinding, DeleteFrame(st[n]), UNCHANGED <<host, infos>>, ~trap',
         n > 0, frame = st[n], \A k \in 1..Len(host) : pos[k] # n,
         \/ mode' = "leave"
         \/ /\ mode' = IF frames[st[n]].prev = None THEN "exit" ELSE "run"
            /\ sp' = frames[st[n]].base - Arguments(st[n]) + 1,
         NEW m, NEW s2, Lower(n, st, m, s2), AtBottom(m, pos)' <=> AtBottom(m, pos),
         frame' = IF AtBottom(m, pos) THEN None ELSE st[m]
  PROVE  Heights(m, s2, pos, b, r)'
<1>1. Shape(n, st, pos) /\ host \in Seq(Hosts)
  BY DEF At, PInv, ControlTypes
<1>2. Below(b)' /\ Callers(m, s2, b)' /\ Callbacks(m, s2, pos)' /\ Ranked(r)'
  <2>1. Below(b) /\ Callers(n, st, b) /\ Callbacks(n, st, pos) /\ Ranked(r)
    BY DEF Heights
  <2> QED BY <1>1, <2>1, PlacesPopped
<1>3. Same(m, st) /\ m \in Nat /\ m + 1 = n /\ Within(m, pos)
  <2>1. Below(b) /\ Callers(n, st, b) /\ Callbacks(n, st, pos) /\ Ranked(r)
    BY DEF Heights
  <2> QED BY <1>1, <2>1, PlacesPopped
<1>4. Len(host) \in Nat /\ \A k \in 1..Len(host) : pos[k] \in 1..n /\ pos[k] <= m
  BY <1>1, <1>3, PlacesFact DEF Within
<1>5. Recorded(b, r)'
  <2>1. mode # "opx" /\ mode' # "opx"
    BY DEF Unwinding
  <2>2. Recorded(b, r)
    BY DEF Heights
  <2> QED BY <1>1, <1>3, <2>1, <2>2, RecordKept
<1>6. ip' = frames[st[n]].ret /\ frame' = frames[st[n]].prev
  BY DEF DeleteFrame
<1>7. m > 0 => /\ frames[st[n]].base - Arguments(st[n]) + 1 = Height(b, frames[st[n]].ret)
               /\ frames[st[n]].ret.frame = st[m] /\ m \in 1..m /\ st[m] \in DOMAIN frames
  <2> SUFFICES ASSUME m > 0 PROVE /\ frames[st[n]].base - Arguments(st[n]) + 1 = Height(b, frames[st[n]].ret)
                                  /\ frames[st[n]].ret.frame = st[m] /\ m \in 1..m /\ st[m] \in DOMAIN frames
    OBVIOUS
  <2>1. m \in 1..n /\ m \in 1..m /\ m + 1 <= n
    BY <1>3
  <2>2. frames[st[m + 1]].base - Arguments(st[m + 1]) + 1 = Height(b, frames[st[m + 1]].ret)
    BY <2>1 DEF Heights, Callers
  <2>3. frames[st[m + 1]].ret.frame = st[m] /\ st[m] \in DOMAIN frames
    BY <1>1, <2>1, PlacesFact
  <2> QED BY <1>3, <2>1, <2>2, <2>3
<1>8. mode' \in {"run", "exit"} /\ m > 0 => sp' = Height(b, ip)'
  <2> SUFFICES ASSUME mode' \in {"run", "exit"}, m > 0 PROVE sp' = Height(b, ip)'
    OBVIOUS
  <2>1. sp' = Height(b, frames[st[n]].ret)
    BY <1>7
  <2>2. frames'[st[m]].base = frames[st[m]].base
    BY <1>3, <1>7 DEF Same
  <2> QED BY <1>6, <1>7, <2>1, <2>2 DEF Height
<1>9. mode' = "exit" => AtBottom(m, pos)
  <2>1. mode' = "exit" => frame' = None
    BY <1>6
  <2>2. m > 0 => st[m] # None
    BY <1>1, <1>3, StackedAllocated DEF Shape
  <2> QED BY <1>3, <2>1, <2>2 DEF AtBottom
<1>10. mode' = "exit" /\ Len(host) > 0 => ~IsEval(Len(host))
  <2> SUFFICES ASSUME AtBottom(m, pos), Len(host) > 0 PROVE ~IsEval(Len(host))
    BY <1>9
  <2>1. Len(host) \in 1..Len(host)
    BY <1>4
  <2>2. m # 0
    BY <1>4, <2>1
  <2> QED BY <2>2 DEF AtBottom, IsOpx, IsEval
<1>11. AtBottom(m, pos) /\ m > 0 => ip' = host[Len(host)].ip
  <2> SUFFICES ASSUME AtBottom(m, pos), m > 0 PROVE frames[st[n]].ret = host[Len(host)].ip
    BY <1>6
  <2>1. Len(host) \in 1..Len(host) /\ IsOpx(Len(host)) /\ pos[Len(host)] + 1 = n /\ n \in Nat
    BY <1>3, <1>4 DEF AtBottom
  <2> QED BY <2>1 DEF Heights, Callbacks
<1>12. mode' # "opx"
  OBVIOUS
<1>13. Now(m, pos, b)'
  BY <1>8, <1>10, <1>11, <1>12 DEF Now, IsEval
<1> QED BY <1>2, <1>5, <1>13 DEF Heights

-----------------------------------------------------------------------------
(* EVALs and OPX functions that start and end.                             *)

\* The operands of the statement that runs are below those of the EVAL or OPX function that starts.
Deeper(b, b2) ==
  b2 = [e \in 0..(Len(host) + 1) |-> IF e <= Len(host) THEN b[e] ELSE b[ip.eval] + ip.depth - 1]

OneMore(r, kind, r2) ==
  r2 = [k \in 0..(Len(host) + 1) |-> IF k <= Len(host) THEN r[k]
                                     ELSE r[Len(host)] + (IF kind = "opx" THEN 1 ELSE 0)]

LEMMA HostGrown ==
  ASSUME PInv, EvalsCounted, NEW n, NEW st, NEW pos, NEW b, NEW r, At(n, st, pos), Heights(n, st, pos, b, r),
         mode = "run", Current, ~trap', SameFrames, UNCHANGED infos, sp' = sp - 1,
         NEW rec \in Hosts, rec.ip = ip, host' = Append(host, rec),
         NEW p2, Longer(n, pos, p2), At(n, st, p2)', NEW b2, Deeper(b, b2), NEW r2, OneMore(r, rec.kind, r2),
         \/ rec.kind = "eval" /\ mode' = "run" /\ ip' = Code(frame, Len(host) + 1, 0)
         \/ rec.kind = "opx" /\ mode' = "opx" /\ UNCHANGED ip
  PROVE  Heights(n, st, p2, b2, r2)'
<1>1. Shape(n, st, pos) /\ host \in Seq(Hosts) /\ ip \in Codes /\ sp \in Int /\ FramesTyped
  BY DEF At, PInv, ControlTypes
<1>2. n \in Nat /\ n > 0 /\ n \in 1..n /\ frame = st[n] /\ Fits(ip, n, Len(host), st, pos)
  BY OnTop DEF At
<1>3. PICK N : N = Len(host)
  OBVIOUS
<1>4. /\ N \in Nat /\ N + 1 \in Nat /\ N + 1 \in 1..(N + 1) /\ Len(host') = N + 1
      /\ host'[N + 1] = rec /\ \A k \in 1..N : host'[k] = host[k]
  BY <1>1, <1>3, HostFact, AppendProperties
<1>5. \A k : k \in 1..(N + 1) <=> k \in 1..N \/ k = N + 1
  BY <1>4
<1>6. \A k : k \in 0..(N + 1) <=> k \in 0..N \/ k = N + 1
  BY <1>4
<1>7. /\ b2 = [e \in 0..(N + 1) |-> IF e <= N THEN b[e] ELSE b[ip.eval] + ip.depth - 1]
      /\ r2 = [k \in 0..(N + 1) |-> IF k <= N THEN r[k] ELSE r[N] + (IF rec.kind = "opx" THEN 1 ELSE 0)]
      /\ p2 = [k \in 1..(N + 1) |-> IF k <= N THEN pos[k] ELSE n]
  BY <1>3 DEF Deeper, OneMore, Longer
<1>8. ip.eval \in 0..N /\ ip.depth \in Int /\ ip.frame = st[n] /\ b[ip.eval] \in Int
  BY <1>1, <1>2, <1>3 DEF Fits, LatestEval, Codes, Heights, Below
<1>9. /\ \A e \in 0..N : b2[e] = b[e]
      /\ b2[N + 1] = b[ip.eval] + ip.depth - 1
  <2>1. ~(N + 1 <= N) /\ N + 1 \in 0..(N + 1) /\ \A e \in 0..N : e <= N
    BY <1>4
  <2> QED BY <1>6, <1>7, <2>1
<1>10. \A k \in 1..N : host[k].ip.eval \in 0..N /\ host[k].ip.frame = st[pos[k]] /\ pos[k] \in 1..n
  BY <1>1, <1>3, PlacesFact
<1>11. Below(b2)'
  <2>1. b2 \in [0..(N + 1) -> Int]
    <3>1. \A e \in 0..N : b[e] \in Int
      BY <1>3 DEF Heights, Below
    <3> QED BY <1>6, <1>7, <1>8, <3>1
  <2>2. b2[0] = 0
    BY <1>4, <1>9 DEF Heights, Below
  <2>3. ASSUME NEW e \in 1..(N + 1) PROVE b2[e] = b2[host'[e].ip.eval] + host'[e].ip.depth - 1
    <3>1. CASE e \in 1..N
      <4>1. e \in 0..N /\ b[e] = b[host[e].ip.eval] + host[e].ip.depth - 1
        BY <1>3, <1>4, <3>1 DEF Heights, Below
      <4> QED BY <1>4, <1>9, <1>10, <3>1, <4>1
    <3>2. CASE e = N + 1
      BY <1>4, <1>8, <1>9, <3>2
    <3> QED BY <1>5, <3>1, <3>2
  <2> QED BY <1>4, <2>1, <2>2, <2>3 DEF Below
<1>12. \A i \in 1..n : st[i] \in DOMAIN frames /\ frames'[st[i]].base = frames[st[i]].base
  BY <1>1, PlacesFact DEF SameFrames
<1>13. \A c : c.eval \in 0..N => \A i \in 1..n : c.frame = st[i] =>
         frames'[c.frame].base + b2[c.eval] + c.depth = Height(b, c)
  BY <1>9, <1>12 DEF Height
<1>14. Callers(n, st, b2)'
  <2> SUFFICES ASSUME NEW i \in 1..n, i + 1 <= n
               PROVE  (frames[st[i + 1]].base - Arguments(st[i + 1]) + 1 = Height(b2, frames[st[i + 1]].ret))'
    BY DEF Callers
  <2>1. i + 1 \in 1..n /\ frames[st[i + 1]].ret.frame = st[i] /\ frames[st[i + 1]].ret.eval \in 0..N
    BY <1>1, <1>3, PlacesFact
  <2>2. st[i + 1] \in DOMAIN frames
    BY <1>12, <2>1
  <2>3. frames'[st[i + 1]].ret = frames[st[i + 1]].ret /\ frames'[st[i + 1]].base = frames[st[i + 1]].base
    BY <2>2 DEF SameFrames
  <2>4. Arguments(st[i + 1])' = Arguments(st[i + 1])
    BY <2>2 DEF SameFrames, Arguments, ProcOf
  <2>5. Height(b2, frames[st[i + 1]].ret)' = Height(b, frames[st[i + 1]].ret)
    BY <1>13, <2>1, <2>3 DEF Height
  <2>6. frames[st[i + 1]].base - Arguments(st[i + 1]) + 1 = Height(b, frames[st[i + 1]].ret)
    BY DEF Heights, Callers
  <2> QED BY <2>3, <2>4, <2>5, <2>6
<1>15. \A k \in 1..N : (IsOpx(k)' <=> IsOpx(k)) /\ p2[k] = pos[k]
  BY <1>4, <1>5, <1>7 DEF IsOpx
<1>16. (IsOpx(N + 1)' <=> rec.kind = "opx") /\ (IsEval(N + 1)' <=> rec.kind = "eval") /\ p2[N + 1] = n
  <2>1. ~(N + 1 <= N)
    BY <1>4
  <2> QED BY <1>4, <1>7, <2>1 DEF IsOpx, IsEval
<1>17. Callbacks(n, st, p2)'
  <2> SUFFICES ASSUME NEW k \in 1..(N + 1), IsOpx(k)', p2[k] + 1 <= n PROVE frames'[st[p2[k] + 1]].ret = host'[k].ip
    BY <1>4 DEF Callbacks
  <2>1. CASE k = N + 1
    BY <1>2, <1>16, <2>1
  <2>2. CASE k \in 1..N
    <3>1. p2[k] = pos[k] /\ IsOpx(k) /\ pos[k] \in 1..n /\ pos[k] + 1 <= n
      BY <1>10, <1>15, <2>2
    <3>2. pos[k] + 1 \in 1..n
      BY <1>2, <3>1
    <3>3. frames[st[pos[k] + 1]].ret = host[k].ip
      BY <1>3, <2>2, <3>1 DEF Heights, Callbacks
    <3>4. frames'[st[pos[k] + 1]].ret = frames[st[pos[k] + 1]].ret
      BY <1>12, <3>2 DEF SameFrames
    <3> QED BY <1>4, <2>2, <3>1, <3>3, <3>4
  <2> QED BY <1>5, <2>1, <2>2
<1>18. /\ \A k \in 0..N : r2[k] = r[k] /\ r[k] \in Nat
       /\ r2[N + 1] = r[N] + (IF rec.kind = "opx" THEN 1 ELSE 0) /\ N \in 0..N
  <2>1. ~(N + 1 <= N) /\ N + 1 \in 0..(N + 1) /\ \A k \in 0..N : k <= N
    BY <1>4
  <2>2. \A k \in 0..N : r[k] \in Nat
    BY <1>3 DEF Heights, Ranked
  <2> QED BY <1>4, <1>6, <1>7, <2>1, <2>2
<1>19. Ranked(r2)'
  <2>1. r2 \in [0..(N + 1) -> Nat]
    <3>1. r[N] \in Nat /\ r[N] + (IF rec.kind = "opx" THEN 1 ELSE 0) \in Nat
      BY <1>18
    <3>2. \A k \in 0..(N + 1) : (IF k <= N THEN r[k] ELSE r[N] + (IF rec.kind = "opx" THEN 1 ELSE 0)) \in Nat
      <4>1. \A k \in 0..(N + 1) : k \in 0..N \/ ~(k <= N)
        BY <1>4, <1>6
      <4> QED BY <1>18, <3>1, <4>1
    <3> QED BY <1>7, <3>2
  <2>2. r2[0] = 0
    BY <1>4, <1>18 DEF Heights, Ranked
  <2>3. ASSUME NEW k \in 1..(N + 1) PROVE r2[k] = r2[k - 1] + (IF IsOpx(k)' THEN 1 ELSE 0)
    <3>1. CASE k \in 1..N
      <4>1. k \in 0..N /\ k - 1 \in 0..N
        BY <1>4, <3>1
      <4>2. r[k] = r[k - 1] + (IF IsOpx(k) THEN 1 ELSE 0)
        BY <1>3, <3>1 DEF Heights, Ranked
      <4> QED BY <1>15, <1>18, <3>1, <4>1, <4>2
    <3>2. CASE k = N + 1
      <4>1. k - 1 = N
        BY <1>4, <3>2
      <4> QED BY <1>16, <1>18, <3>2, <4>1
    <3> QED BY <1>5, <3>1, <3>2
  <2>4. ASSUME NEW j \in 0..(N + 1), NEW k \in 0..(N + 1), j <= k PROVE r2[j] <= r2[k]
    <3>1. \A i \in 0..N : r[i] <= r[N]
      BY <1>3, <1>4, <1>18 DEF Heights, Ranked
    <3>2. r[N] <= r2[N + 1] /\ r[N] \in Nat /\ r2[N + 1] \in Nat
      BY <1>18
    <3>3. CASE k \in 0..N
      <4>1. j \in 0..N
        BY <1>4, <2>4, <3>3
      <4> QED BY <1>3, <1>18, <2>4, <3>3, <4>1 DEF Heights, Ranked
    <3>4. CASE k = N + 1 /\ j \in 0..N
      <4>1. r2[j] = r[j] /\ r[j] \in Nat /\ r[j] <= r[N]
        BY <1>18, <3>1, <3>4
      <4> QED BY <3>2, <3>4, <4>1
    <3>5. CASE k = N + 1 /\ j = N + 1
      BY <3>2, <3>5
    <3> QED BY <1>6, <3>3, <3>4, <3>5
  <2> QED BY <1>4, <2>1, <2>2, <2>3, <2>4 DEF Ranked
<1>20. Recorded(b2, r2)'
  <2>1. Len(infos) = r[N] - 0 /\ \A k \in 1..N : IsOpx(k) => infos[r[k]] = Height(b, host[k].ip) - 1
    BY <1>3 DEF Heights, Recorded
  <2>2. Len(infos) = r2[N + 1] - (IF mode' = "opx" THEN 1 ELSE 0)
    BY <1>18, <2>1
  <2>3. ASSUME NEW k \in 1..(N + 1), IsOpx(k)', k < N + 1 \/ mode' # "opx"
        PROVE  infos[r2[k]] = Height(b2, host[k].ip)' - 1
    <3>1. k \in 1..N
      BY <1>5, <1>16, <2>3
    <3>2. r2[k] = r[k] /\ host'[k] = host[k] /\ IsOpx(k)
      BY <1>4, <1>15, <1>18, <2>3, <3>1
    <3>3. Height(b2, host[k].ip)' = Height(b, host[k].ip)
      BY <1>10, <1>13, <3>1, <3>2 DEF Height
    <3> QED BY <2>1, <3>1, <3>2, <3>3
  <2> QED BY <1>4, <2>2, <2>3 DEF Recorded
<1>21. Now(n, p2, b2)'
  <2>1. sp = frames[st[n]].base + b[ip.eval] + ip.depth /\ frames[st[n]].base \in Int
    BY <1>1, <1>2, <1>8, <1>12 DEF Heights, Now, Height, FramesTyped, FrameRecords
  <2>2. sp' = frames'[st[n]].base + b2[N + 1]
    BY <1>1, <1>2, <1>8, <1>9, <1>12, <2>1, SMTT(20)
  <2>3. CASE rec.kind = "eval" /\ mode' = "run" /\ ip' = Code(frame, Len(host) + 1, 0)
    <3>1. ip'.frame = st[n] /\ ip'.eval = N + 1 /\ ip'.depth = 0
      BY <1>2, <1>3, <2>3 DEF Code
    <3>2. sp' = Height(b2, ip)'
      <4>1. frames'[st[n]].base \in Int /\ b2[N + 1] \in Int
        <5>1. PICK x \in Int, d \in Int : x = b[ip.eval] /\ d = ip.depth
          BY <1>8
        <5>2. b2[N + 1] = x + d - 1
          BY <1>9, <5>1
        <5>3. frames'[st[n]].base = frames[st[n]].base
          BY <1>2, <1>12
        <5> QED BY <2>1, <5>2, <5>3
      <4> QED BY <2>2, <3>1, <4>1 DEF Height
    <3>3. ~AtBottom(n, p2)'
      BY <2>3 DEF At, Control
    <3> QED BY <2>3, <3>2, <3>3 DEF Now
  <2>4. CASE rec.kind = "opx" /\ mode' = "opx" /\ UNCHANGED ip
    <3>1. host'[Len(host')].ip = ip
      BY <1>4
    <3>2. Height(b2, host[Len(host)].ip)' = Height(b, ip)
      BY <1>2, <1>8, <1>9, <1>12, <3>1 DEF Height
    <3>3. sp' = Height(b, ip) - 1
      BY <1>2 DEF Heights, Now
    <3>4. sp' = Height(b2, host[Len(host)].ip)' - 1
      BY <3>2, <3>3
    <3> QED BY <2>4, <3>1, <3>4 DEF Now
  <2> QED BY <2>3, <2>4
<1> QED BY <1>11, <1>14, <1>17, <1>19, <1>20, <1>21 DEF Heights

\* All but the last of what is known of the EVALs and OPX functions.
Fewer(g, g2) == g2 = [k \in 0..(Len(host) - 1) |-> g[k]]

LEMMA HostShrunk ==
  ASSUME PInv, NEW n, NEW st, NEW pos, NEW b, NEW r, At(n, st, pos), Heights(n, st, pos, b, r),
         host # <<>>, n > 0, pos[Len(host)] = n, host' = Front(host), SameFrames, UNCHANGED infos, ~trap',
         NEW p2, Shorter(pos, p2), ~AtBottom(n, p2)', NEW b2, Fewer(b, b2), NEW r2, Fewer(r, r2),
         Len(infos) = r[Len(host) - 1], mode' \in {"run", "leave"},
         mode' = "run" => ip' = host[Len(host)].ip /\ sp' = Height(b, host[Len(host)].ip)
  PROVE  Heights(n, st, p2, b2, r2)'
<1>1. Shape(n, st, pos) /\ host \in Seq(Hosts)
  BY DEF At, PInv, ControlTypes
<1>2. PICK N : N = Len(host)
  OBVIOUS
<1>0. PICK M : M = N - 1
  OBVIOUS
<1>3. /\ M \in Nat /\ N = M + 1 /\ N \in 1..N /\ Len(host') = M
      /\ \A k \in 1..M : host'[k] = host[k]
  BY <1>0, <1>1, <1>2, FrontFact, SMTT(20)
<1>4. /\ \A k : k \in 1..M => k \in 1..N /\ k < N /\ k \in 0..M /\ k - 1 \in 0..M
      /\ \A k : k \in 0..M => k \in 0..N
      /\ \A k : k \in 0..N => k \in 0..M \/ k = N
      /\ \A k \in 1..N : \A e : e \in 0..(k - 1) => e \in 0..M
  BY <1>3
<1>5. b2 = [e \in 0..M |-> b[e]] /\ r2 = [k \in 0..M |-> r[k]] /\ p2 = [k \in 1..M |-> pos[k]]
  BY <1>0, <1>2 DEF Fewer, Shorter
<1>6. /\ n \in Nat /\ \A i \in 1..n : st[i] \in DOMAIN frames /\ frames'[st[i]].base = frames[st[i]].base
      /\ \A k \in 1..N : host[k].ip.eval \in 0..M /\ host[k].ip.frame = st[pos[k]] /\ pos[k] \in 1..n
  <2>1. n \in Nat /\ \A i \in 1..n : st[i] \in DOMAIN frames
    BY <1>1, PlacesFact
  <2>2. \A k \in 1..N : host[k].ip.eval \in 0..(k - 1) /\ host[k].ip.frame = st[pos[k]] /\ pos[k] \in 1..n
    BY <1>1, <1>2, PlacesFact
  <2> QED BY <1>4, <2>1, <2>2 DEF SameFrames
<1>7. \A c : c.eval \in 0..M => \A i \in 1..n : c.frame = st[i] =>
        frames'[c.frame].base + b2[c.eval] + c.depth = Height(b, c)
  BY <1>5, <1>6 DEF Height
<1>8. Below(b2)'
  <2>1. b2 \in [0..M -> Int] /\ b2[0] = 0
    BY <1>2, <1>3, <1>4, <1>5 DEF Heights, Below
  <2>2. ASSUME NEW e \in 1..M PROVE b2[e] = b2[host'[e].ip.eval] + host'[e].ip.depth - 1
    <3>1. b[e] = b[host[e].ip.eval] + host[e].ip.depth - 1
      BY <1>2, <1>4 DEF Heights, Below
    <3> QED BY <1>3, <1>4, <1>5, <1>6, <3>1
  <2> QED BY <1>3, <2>1, <2>2 DEF Below
<1>9. Callers(n, st, b2)'
  <2> SUFFICES ASSUME NEW i \in 1..n, i + 1 <= n
               PROVE  (frames[st[i + 1]].base - Arguments(st[i + 1]) + 1 = Height(b2, frames[st[i + 1]].ret))'
    BY DEF Callers
  <2>1. i + 1 \in 1..n /\ frames[st[i + 1]].ret.frame = st[i] /\ frames[st[i + 1]].ret.eval \in 0..N
    BY <1>1, <1>2, PlacesFact
  <2>2. frames[st[i + 1]].ret.eval \in 0..M
    <3>1. frames[st[i + 1]].ret.eval = N => pos[N] = i
      BY <1>1, <1>2, <1>3 DEF Shape, Fitting, Fits, LatestEval
    <3>2. pos[N] # i
      BY <1>2, <1>6
    <3> QED BY <1>4, <2>1, <3>1, <3>2
  <2>3. st[i + 1] \in DOMAIN frames
    BY <1>6, <2>1
  <2>4. frames'[st[i + 1]].ret = frames[st[i + 1]].ret /\ frames'[st[i + 1]].base = frames[st[i + 1]].base
    BY <2>3 DEF SameFrames
  <2>5. Arguments(st[i + 1])' = Arguments(st[i + 1])
    BY <2>3 DEF SameFrames, Arguments, ProcOf
  <2>6. Height(b2, frames[st[i + 1]].ret)' = Height(b, frames[st[i + 1]].ret)
    BY <1>7, <2>1, <2>2, <2>4 DEF Height
  <2>7. frames[st[i + 1]].base - Arguments(st[i + 1]) + 1 = Height(b, frames[st[i + 1]].ret)
    BY DEF Heights, Callers
  <2> QED BY <2>4, <2>5, <2>6, <2>7
<1>10. \A k \in 1..M : (IsOpx(k)' <=> IsOpx(k)) /\ p2[k] = pos[k]
  BY <1>3, <1>5 DEF IsOpx
<1>11. Callbacks(n, st, p2)'
  <2> SUFFICES ASSUME NEW k \in 1..M, IsOpx(k)', p2[k] + 1 <= n PROVE frames'[st[p2[k] + 1]].ret = host'[k].ip
    BY <1>3 DEF Callbacks
  <2>1. p2[k] = pos[k] /\ IsOpx(k) /\ pos[k] \in 1..n /\ k \in 1..N
    BY <1>4, <1>6, <1>10
  <2>2. pos[k] + 1 \in 1..n
    BY <1>6, <2>1
  <2>3. frames[st[pos[k] + 1]].ret = host[k].ip
    BY <1>2, <2>1 DEF Heights, Callbacks
  <2>4. frames'[st[pos[k] + 1]].ret = frames[st[pos[k] + 1]].ret
    BY <1>6, <2>2 DEF SameFrames
  <2> QED BY <1>3, <2>1, <2>3, <2>4
<1>12. Ranked(r2)'
  <2>1. r2 \in [0..M -> Nat] /\ r2[0] = 0
    BY <1>2, <1>3, <1>4, <1>5 DEF Heights, Ranked
  <2>2. ASSUME NEW k \in 1..M PROVE r2[k] = r2[k - 1] + (IF IsOpx(k)' THEN 1 ELSE 0)
    <3>1. r[k] = r[k - 1] + (IF IsOpx(k) THEN 1 ELSE 0)
      BY <1>2, <1>4 DEF Heights, Ranked
    <3>2. r2[k] = r[k] /\ r2[k - 1] = r[k - 1]
      BY <1>4, <1>5
    <3> QED BY <1>10, <3>1, <3>2
  <2>3. \A j, k \in 0..M : j <= k => r2[j] <= r2[k]
    BY <1>2, <1>4, <1>5 DEF Heights, Ranked
  <2> QED BY <1>3, <2>1, <2>2, <2>3 DEF Ranked
<1>13. Recorded(b2, r2)'
  <2>1. \A k \in 1..N : k < N /\ IsOpx(k) => infos[r[k]] = Height(b, host[k].ip) - 1
    BY <1>2 DEF Heights, Recorded
  <2>2. Len(infos) = r2[M] - 0
    <3>1. M \in 0..M /\ r[M] \in Nat
      BY <1>2, <1>3, <1>4 DEF Heights, Ranked
    <3> QED BY <1>0, <1>2, <1>5, <3>1
  <2>3. ASSUME NEW k \in 1..M, IsOpx(k)' PROVE infos[r2[k]] = Height(b2, host[k].ip)' - 1
    <3>1. k \in 1..N /\ k < N /\ IsOpx(k) /\ r2[k] = r[k] /\ host'[k] = host[k]
      BY <1>3, <1>4, <1>5, <1>10, <2>3
    <3>2. Height(b2, host[k].ip)' = Height(b, host[k].ip)
      BY <1>6, <1>7, <3>1 DEF Height
    <3> QED BY <2>1, <3>1, <3>2
  <2>4. mode' # "opx"
    OBVIOUS
  <2> QED BY <1>3, <2>2, <2>3, <2>4 DEF Recorded
<1>14. Now(n, p2, b2)'
  <2>1. mode' = "run" => sp' = Height(b2, ip)'
    <3>1. PICK c : c = host[N].ip
      OBVIOUS
    <3>2. c.eval \in 0..M /\ c.frame = st[pos[N]] /\ pos[N] \in 1..n
      BY <1>3, <1>6, <3>1
    <3>3. frames'[c.frame].base + b2[c.eval] + c.depth = Height(b, c)
      BY <1>7, <3>2
    <3> QED BY <1>2, <3>1, <3>3 DEF Height
  <2> QED BY <2>1 DEF Now
<1> QED BY <1>8, <1>9, <1>11, <1>12, <1>13, <1>14 DEF Heights

\* The latest EVAL or OPX function counts.
LEMMA RankOfLast ==
  ASSUME host \in Seq(Hosts), host # <<>>, NEW r, Ranked(r)
  PROVE  /\ r[Len(host) - 1] \in Nat /\ r[Len(host)] \in Nat
         /\ r[Len(host)] = r[Len(host) - 1] + (IF IsOpx(Len(host)) THEN 1 ELSE 0)
         /\ \A k \in 1..Len(host) : k < Len(host) => r[k] <= r[Len(host) - 1]
         /\ \A k \in 1..Len(host) : IsOpx(k) => r[k] \in Nat /\ r[k] > 0
<1>1. PICK N : N = Len(host)
  OBVIOUS
<1>2. N \in Nat \ {0}
  BY <1>1, FrontFact
<1>3. /\ N \in 1..N /\ N \in 0..N /\ N - 1 \in 0..N
      /\ \A k \in 1..N : k \in 0..N /\ k - 1 \in 0..N /\ (k < N => k <= N - 1)
  BY <1>2
<1>4. \A k \in 0..N : r[k] \in Nat
  BY <1>1 DEF Ranked
<1>5. \A k \in 1..N : IsOpx(k) => r[k] = r[k - 1] + 1 /\ r[k - 1] \in Nat
  BY <1>1, <1>3, <1>4 DEF Ranked
<1>6. \A k \in 1..N : k < N => r[k] <= r[N - 1]
  BY <1>1, <1>3 DEF Ranked
<1>7. r[N] = r[N - 1] + (IF IsOpx(N) THEN 1 ELSE 0)
  BY <1>1, <1>3 DEF Ranked
<1>8. \A k \in 1..N : IsOpx(k) => r[k] \in Nat /\ r[k] > 0
  BY <1>5
<1> QED BY <1>1, <1>3, <1>4, <1>6, <1>7, <1>8

\* The result of an EVAL, alone above the operands of the statement that EVALuates, replaces the text.
LEMMA EvalMeasured ==
  ASSUME PInv, EvalsCounted, TrapInv, NEW n, NEW st, NEW pos, NEW b, NEW r,
         At(n, st, pos), Heights(n, st, pos, b, r), EvalEnds,
         NEW p2, Shorter(pos, p2), NEW b2, Fewer(b, b2), NEW r2, Fewer(r, r2)
  PROVE  Heights(n, st, p2, b2, r2)'
<1>1. Shape(n, st, pos) /\ host \in Seq(Hosts) /\ FramesTyped /\ ip \in Codes
  BY DEF At, PInv, ControlTypes
<1>2. /\ host # <<>> /\ Last(host).kind = "eval" /\ ip' = Last(host).ip /\ host' = Front(host)
      /\ UNCHANGED <<infos, sp, trap, frame>>
      /\ (mode = "exit" /\ mode' = "run") \/ (GivesUp /\ mode' = "leave")
  BY DEF EvalEnds, Innermost, LeavesEval, GivesUp, Unwinding
<1>3. SameFrames /\ n > 0 /\ n \in 1..n /\ pos[Len(host)] = n /\ frame = st[n]
  BY EvalEnded
<1>4. At(n, st, p2)'
  BY EvalEnded
<1>5. PICK N : N = Len(host)
  OBVIOUS
<1>6. N \in Nat /\ N > 0 /\ N \in 1..N /\ Last(host) = host[N] /\ IsEval(N) /\ ~IsOpx(N)
  <2>1. N \in Nat \ {0} /\ Last(host) = host[N]
    BY <1>1, <1>2, <1>5, FrontFact
  <2> QED BY <1>2, <2>1 DEF IsEval, IsOpx
<1>7. ~AtBottom(n, p2)'
  <2>1. st[n] # None
    BY <1>1, <1>3, StackedAllocated DEF Shape
  <2>2. mode' # "opx" /\ frame' = st[n]
    BY <1>2, <1>3
  <2> QED BY <1>4, <2>1, <2>2 DEF At, Control
<1>8. ~trap'
  BY <1>2 DEF TrapInv, GivesUp, Unwinding
<1>9. Len(infos) = r[Len(host) - 1]
  <2>1. mode # "opx"
    BY <1>2 DEF GivesUp, Unwinding
  <2>2. Len(infos) = r[Len(host)] - 0 /\ Ranked(r)
    BY <2>1 DEF Heights, Recorded
  <2>3. r[Len(host) - 1] \in Nat /\ r[Len(host)] = r[Len(host) - 1] + (IF IsOpx(Len(host)) THEN 1 ELSE 0)
    BY <1>1, <1>2, <2>2, RankOfLast
  <2> QED BY <1>5, <1>6, <2>2, <2>3
<1>10. mode' = "run" => sp' = Height(b, host[Len(host)].ip)
  <2> SUFFICES ASSUME mode = "exit" PROVE sp = Height(b, host[N].ip)
    BY <1>2, <1>5 DEF GivesUp, Unwinding
  <2>1. Fits(ip, n, N, st, pos)
    BY <1>3, <1>5 DEF At, Control, Unresolved
  <2>2. ip.eval = N
    BY <1>3, <1>5, <1>6, <2>1 DEF Fits, LatestEval
  <2>3. sp = frames[st[n]].base + b[N] + 1
    BY <1>3, <1>5, <1>6, <2>1, <2>2 DEF Heights, Now, Height, Fits
  <2>4. b[N] = b[host[N].ip.eval] + host[N].ip.depth - 1
    BY <1>5, <1>6 DEF Heights, Below
  <2>5. host[N].ip.frame = st[n] /\ host[N].ip.eval \in 0..Len(host) /\ host[N].ip.depth \in Int
    BY <1>1, <1>3, <1>5, <1>6, PlacesFact
  <2>6. b[host[N].ip.eval] \in Int /\ frames[st[n]].base \in Int
    <3>1. st[n] \in DOMAIN frames
      BY <1>1, <1>3, PlacesFact
    <3> QED BY <1>1, <2>5, <3>1 DEF Heights, Below, FramesTyped, FrameRecords
  <2>7. PICK x \in Int, d \in Int, y \in Int :
          x = b[host[N].ip.eval] /\ d = host[N].ip.depth /\ y = frames[st[n]].base
    BY <2>5, <2>6
  <2>8. sp = y + x + d
    <3>1. PICK z : z = b[N]
      OBVIOUS
    <3>2. z = x + d - 1 /\ sp = y + z + 1
      BY <2>3, <2>4, <2>7, <3>1
    <3> QED BY <2>7, <3>2
  <2> QED BY <2>5, <2>7, <2>8 DEF Height
<1>11. mode' \in {"run", "leave"} /\ ip' = host[Len(host)].ip
  BY <1>2, <1>5, <1>6
<1> QED BY <1>2, <1>3, <1>7, <1>8, <1>9, <1>10, <1>11, HostShrunk

\* The OPX function has taken its arguments and pushes its result.
LEMMA OpxMeasured ==
  ASSUME PInv, EvalsCounted, TrapInv, NEW n, NEW st, NEW pos, NEW b, NEW r,
         At(n, st, pos), Heights(n, st, pos, b, r), OpxEnds,
         NEW p2, Shorter(pos, p2), NEW b2, Fewer(b, b2), NEW r2, Fewer(r, r2)
  PROVE  Heights(n, st, p2, b2, r2)'
<1>1. host \in Seq(Hosts) /\ FramesTyped /\ sp \in Int
  BY DEF PInv, ControlTypes
<1>2. /\ mode = "opx" /\ host' = Front(host) /\ UNCHANGED <<ip, infos, trap, frame, frames>>
      /\ (mode' = "run" /\ sp' = sp + 1) \/ mode' = "leave"
  BY DEF OpxEnds, Leaves, frameVars
<1>3. Shape(n, st, pos) /\ host # <<>> /\ IsOpx(Len(host)) /\ AtBottom(n, pos) /\ frame = st[n]
  BY <1>2, OpxInFrame
<1>4. /\ n \in Nat /\ n > 0 /\ n \in 1..n /\ pos[Len(host)] = n
      /\ Len(host) \in Nat /\ Len(host) > 0
  BY <1>3, OpxOnTop
<1>5. SameFrames
  BY <1>2 DEF SameFrames
<1>6. ~AtBottom(n, p2)'
  BY <1>1, <1>3, <1>4, <1>5, <1>2, HostPopped
<1>7. ~trap'
  BY <1>2 DEF TrapInv
<1>8. Len(infos) = r[Len(host) - 1]
  <2>1. Len(infos) = r[Len(host)] - 1 /\ Ranked(r)
    BY <1>2 DEF Heights, Recorded
  <2>2. r[Len(host) - 1] \in Nat /\ r[Len(host)] = r[Len(host) - 1] + (IF IsOpx(Len(host)) THEN 1 ELSE 0)
    BY <1>1, <1>3, <2>1, RankOfLast
  <2> QED BY <1>3, <2>1, <2>2
<1>9. ip' = host[Len(host)].ip
  BY <1>2, <1>3, <1>4 DEF Heights, Now
<1>10. mode' = "run" => sp' = Height(b, host[Len(host)].ip)
  <2>1. sp = Height(b, host[Len(host)].ip) - 1
    BY <1>2 DEF Heights, Now
  <2>2. Height(b, host[Len(host)].ip) \in Int
    <3>1. PICK N : N = Len(host) /\ N \in 1..N
      BY <1>4
    <3>2. host[N].ip.frame = st[n] /\ host[N].ip.eval \in 0..Len(host) /\ host[N].ip.depth \in Int
      BY <1>3, <1>4, <3>1, PlacesFact
    <3>3. st[n] \in DOMAIN frames
      BY <1>3, <1>4, PlacesFact
    <3>4. frames[st[n]].base \in Int /\ b[host[N].ip.eval] \in Int
      BY <1>1, <3>2, <3>3 DEF Heights, Below, FramesTyped, FrameRecords
    <3> QED BY <3>1, <3>2, <3>4 DEF Height
  <2> QED BY <1>2, <2>1, <2>2
<1>11. mode' \in {"run", "leave"}
  BY <1>2
<1> QED BY <1>2, <1>3, <1>4, <1>5, <1>6, <1>7, <1>8, <1>9, <1>10, <1>11, HostShrunk

\* The callback is over: its OPX function finds the stack as it was.
LEMMA CallbackReturns ==
  ASSUME PInv, EvalsCounted, TrapInv, NEW n, NEW st, NEW pos, NEW b, NEW r,
         At(n, st, pos), Heights(n, st, pos, b, r), CallbackEnds
  PROVE  Heights(n, st, pos, b, r)'
<1>1. host \in Seq(Hosts) /\ FramesTyped /\ infos \in Seq(Int)
  BY DEF PInv, ControlTypes
<1>2. /\ Innermost("opx") /\ mode' = "opx" /\ infos' = Front(infos) /\ UNCHANGED <<ip, trap, frames, host>>
      /\ (mode = "exit" /\ sp' = sp - 1) \/ (GivesUp /\ sp' = Last(infos))
  BY DEF CallbackEnds, DeletesCallbackInfo
<1>3. Shape(n, st, pos) /\ host # <<>> /\ IsOpx(Len(host)) /\ AtBottom(n, pos)
  <2>1. mode = "exit" \/ GivesUp
    BY <1>2
  <2> QED BY <1>2, <2>1, OpxInFrame
<1>4. PICK N : N = Len(host)
  OBVIOUS
<1>5. n \in Nat /\ n > 0 /\ n \in 1..n /\ pos[N] = n /\ N \in Nat /\ N > 0
  BY <1>3, <1>4, OpxOnTop
<1>6. Same(n, st) /\ Within(n, pos)
  <2>1. SameFrames
    BY <1>2 DEF SameFrames
  <2>2. \A k \in 1..Len(host) : pos[k] \in 1..n
    BY <1>3, PlacesFact
  <2> QED BY <1>3, <1>5, <2>1, <2>2, SameFramesFact DEF Within
<1>7. Below(b)' /\ Callers(n, st, b)' /\ Callbacks(n, st, pos)' /\ Ranked(r)'
  <2>1. Below(b) /\ Callers(n, st, b) /\ Callbacks(n, st, pos) /\ Ranked(r) /\ n <= n
    BY <1>5 DEF Heights
  <2> QED BY <1>2, <1>3, <1>5, <1>6, <2>1, PlacesKept
<1>8. \A k \in 1..N : Height(b, host[k].ip)' = Height(b, host[k].ip)
  <2>1. Shape(n, st, pos) /\ n \in Nat /\ UNCHANGED host
    BY <1>2, <1>3, <1>5
  <2> QED BY <1>4, <1>6, <2>1, WaitersHeights, ZenonT(30)
<1>9. mode # "opx" /\ ~trap
  BY <1>2 DEF GivesUp, Unwinding, TrapInv
<1>10. Len(infos) = r[N] - 0 /\ \A k \in 1..N : IsOpx(k) => infos[r[k]] = Height(b, host[k].ip) - 1
  BY <1>4, <1>9 DEF Heights, Recorded
<1>11. /\ r[N] \in Nat /\ r[N - 1] \in Nat /\ r[N] = r[N - 1] + 1
       /\ \A k \in 1..N : k < N /\ IsOpx(k) => r[k] \in Nat /\ r[k] > 0 /\ r[k] <= r[N - 1]
  <2>1. Ranked(r)
    BY DEF Heights
  <2>2. /\ r[N - 1] \in Nat /\ r[N] \in Nat /\ r[N] = r[N - 1] + (IF IsOpx(N) THEN 1 ELSE 0)
        /\ \A k \in 1..N : k < N => r[k] <= r[N - 1]
        /\ \A k \in 1..N : IsOpx(k) => r[k] \in Nat /\ r[k] > 0
    BY <1>1, <1>3, <1>4, <2>1, RankOfLast
  <2> QED BY <1>3, <1>4, <2>2
<1>12. infos # <<>>
  BY <1>10, <1>11
<1>13. /\ Last(infos) = infos[r[N]] /\ Len(infos') = r[N] - 1
       /\ \A i \in 1..(r[N] - 1) : infos'[i] = infos[i]
  <2>1. /\ Last(infos) = infos[Len(infos)] /\ Len(infos') = Len(infos) - 1
        /\ \A i \in 1..(Len(infos) - 1) : infos'[i] = infos[i]
    BY <1>1, <1>2, <1>12, FrontFact
  <2>2. Len(infos) = r[N]
    BY <1>10, <1>11
  <2> QED BY <2>1, <2>2
<1>14. Recorded(b, r)'
  <2>1. ASSUME NEW k \in 1..N, IsOpx(k), k < N PROVE infos'[r[k]] = Height(b, host[k].ip)' - 1
    <3>1. r[k] \in 1..(r[N] - 1)
      BY <1>11, <2>1
    <3> QED BY <1>8, <1>10, <1>13, <2>1, <3>1
  <2> QED BY <1>2, <1>4, <1>13, <2>1 DEF Recorded, IsOpx
<1>15. Now(n, pos, b)'
  <2>1. ip = host[N].ip /\ N \in 1..N
    BY <1>3, <1>4, <1>5 DEF Heights, Now
  <2>2. sp' = Height(b, host[N].ip) - 1
    <3>1. CASE mode = "exit" /\ sp' = sp - 1
      <4>1. sp = Height(b, ip)
        BY <1>5, <3>1 DEF Heights, Now
      <4> QED BY <2>1, <3>1, <4>1
    <3>2. CASE sp' = Last(infos)
      BY <1>3, <1>4, <1>10, <1>13, <2>1, <3>2
    <3> QED BY <1>2, <3>1, <3>2
  <2> QED BY <1>2, <1>4, <1>8, <1>9, <2>1, <2>2 DEF Now
<1> QED BY <1>7, <1>14, <1>15 DEF Heights

-----------------------------------------------------------------------------
(* Each action keeps the heights.                                          *)

LEMMA MeasuredNext ==
  ASSUME NEW n, NEW st, NEW pos, NEW b, NEW r, At(n, st, pos)', EvalsCounted', Heights(n, st, pos, b, r)'
  PROVE  SInv'
BY DEF SInv, Measured

LEMMA SInvInit == Init => SInv
<1> SUFFICES ASSUME Init PROVE SInv
  OBVIOUS
<1>1. EvalsCounted /\ Stacked
  BY FInvInit DEF Init, FInv
<1>2. PICK n, st, pos : At(n, st, pos)
  BY <1>1 DEF Stacked
<1>3. /\ host = <<>> /\ Len(host) = 0 /\ infos = <<>> /\ Len(infos) = 0 /\ mode = "run" /\ frame = 1 /\ ~trap
      /\ sp = 1 /\ ip.frame = 1 /\ ip.eval = 0 /\ ip.depth = 0 /\ DOMAIN frames = {1} /\ frames[1].base = 1
  BY DEF Init, Code
<1>4. n \in Nat /\ ~AtBottom(n, pos) /\ Ascending(n, st)
  BY <1>2, <1>3 DEF At, Control, Shape, Ascending
<1>5. \A i \in 1..n : ~(i + 1 <= n)
  <2> SUFFICES ASSUME NEW i \in 1..n, i + 1 <= n PROVE FALSE
    OBVIOUS
  <2>1. i + 1 \in 1..n /\ i < i + 1
    BY <1>4
  <2>2. st[i] = 1 /\ st[i + 1] = 1
    BY <1>3, <1>4, <2>1, StackedAllocated
  <2>3. st[i] < st[i + 1]
    BY <1>4, <2>1 DEF Ascending
  <2> QED BY <2>2, <2>3
<1>6. PICK b : b = [e \in 0..0 |-> 0]
  OBVIOUS
<1>7. 1..0 = {} /\ 0..0 = {0}
  OBVIOUS
<1>8. Below(b) /\ Ranked(b)
  BY <1>3, <1>6, <1>7 DEF Below, Ranked
<1>9. Callers(n, st, b) /\ Callbacks(n, st, pos)
  BY <1>3, <1>5, <1>7 DEF Callers, Callbacks
<1>10. Recorded(b, b)
  BY <1>3, <1>6, <1>7 DEF Recorded
<1>11. Now(n, pos, b)
  <2>1. sp = Height(b, ip)
    BY <1>3, <1>6, <1>7 DEF Height
  <2> QED BY <1>3, <1>4, <2>1 DEF Now
<1> QED BY <1>1, <1>2, <1>8, <1>9, <1>10, <1>11 DEF SInv, Measured, Heights

\* A call enters a frame, or leaves in the caller or in the new frame.
LEMMA CallsMeasured ==
  ASSUME PInv, PInv', EvalsCounted, TrapInv, NEW n, NEW st, NEW pos, NEW b, NEW r,
         At(n, st, pos), Heights(n, st, pos, b, r), NEW p \in Procs, RunProcedure(p) \/ CallByName(p)
  PROVE  SInv'
<1>1. ip \in Codes /\ sp' \in Int /\ ip' \in Codes
  BY DEF PInv, ControlTypes
<1>2. PICK byName, taken : byName \in BOOLEAN /\ taken = Params[p] + (IF byName THEN 1 ELSE 0) /\ Call(p, taken, byName)
  <2>1. PICK q \in Nat : q = Params[p]
    BY ProcAssumption
  <2>2. CASE RunProcedure(p)
    <3>1. q = Params[p] + (IF FALSE THEN 1 ELSE 0)
      BY <2>1
    <3>2. Call(p, q, FALSE)
      BY <2>1, <2>2 DEF RunProcedure
    <3> QED BY <3>1, <3>2
  <2>3. CASE CallByName(p)
    BY <2>3 DEF CallByName
  <2> QED BY <2>2, <2>3
<1>3. mode = "run" /\ Current
  BY DEF RunProcedure, CallByName, Executing
<1>5. PICK ret : ret = [ip EXCEPT !.depth = @ - taken + 1]
  OBVIOUS
<1>6. ~ip.trapping /\ UNCHANGED <<trap, infos, host>>
  BY <1>2 DEF Call, hostVars
<1>7. ret.frame = ip.frame /\ ret.eval = ip.eval /\ ~trap
  BY <1>1, <1>3, <1>5, <1>6 DEF Codes, TrapInv
<1>8. CASE Leaves /\ ip' = ret /\ CallFails
  <2>1. UNCHANGED <<frame, frames>> /\ mode' = "leave"
    BY <1>8 DEF CallFails, frameVars, Leaves
  <2>2. SameFrames
    BY <2>1 DEF SameFrames
  <2>3. At(n, st, pos)' /\ EvalsCounted'
    BY <1>3, <1>6, <1>7, <1>8, <2>1, OpcodeStays
  <2>4. Heights(n, st, pos, b, r)'
    BY <1>1, <1>3, <1>6, <1>7, <2>1, <2>2, StackMoves
  <2> QED BY <2>3, <2>4, MeasuredNext
<1>9. ASSUME NEW f \in Frames, ConstructFrame(f, p, frame, ret, sp + 1, byName), FinishConstruction(f, p, ret),
             frame' = f, sp' = sp + 1
      PROVE  SInv'
  <2>1. PICK m, s2 : Higher(n, st, f, m, s2)
    BY DEF Higher
  <2>2. At(m, s2, pos)' /\ EvalsCounted'
    BY <1>3, <1>6, <1>7, <1>9, <2>1, CallMade
  <2>3. Heights(m, s2, pos, b, r)'
    BY <1>2, <1>3, <1>5, <1>6, <1>9, <2>1, CallMeasured
  <2> QED BY <2>2, <2>3, MeasuredNext
<1> QED BY <1>2, <1>5, <1>8, <1>9 DEF Call

\* A callback enters its frame, fails before, or leaves its frame behind.
LEMMA CallbacksMeasured ==
  ASSUME PInv, EvalsCounted, TrapInv, NEW n, NEW st, NEW pos, NEW b, NEW r,
         At(n, st, pos), Heights(n, st, pos, b, r),
         NEW p \in Procs, CallProcedure(p) \/ CallProcedureUnresolved(p)
  PROVE  SInv'
<1>1. CASE CallProcedure(p)
  <2>1. PICK base : base = sp + Params[p] + 2
    OBVIOUS
  <2>2. /\ mode = "opx" /\ mode' = "run" /\ UNCHANGED <<trap, host>> /\ infos' = Append(infos, sp) /\ sp' = base
        /\ \E f \in Frames : ConstructFrame(f, p, None, ip, base, TRUE) /\ frame' = f /\ ip' = Code(f, 0, 0)
    BY <1>1, <2>1 DEF CallProcedure
  <2>3. PICK f \in Frames : ConstructFrame(f, p, None, ip, base, TRUE) /\ frame' = f /\ ip' = Code(f, 0, 0)
    BY <2>2
  <2>4. PICK m, s2 : Higher(n, st, f, m, s2)
    BY DEF Higher
  <2>5. ~trap
    BY <2>2 DEF TrapInv
  <2>6. ConstructFrame(f, p, None, ip, base, TRUE)
    BY <2>3
  <2>7. frame' = f /\ ip' = Code(f, 0, 0)
    BY <2>3
  <2>8. At(m, s2, pos)' /\ EvalsCounted'
    BY <2>2, <2>4, <2>6, <2>7, CallbackMade
  <2>9. Heights(m, s2, pos, b, r)'
    BY <2>1, <2>2, <2>4, <2>5, <2>6, <2>7, CallbackMeasured
  <2> QED BY <2>8, <2>9, MeasuredNext
<1>2. CASE CallProcedureUnresolved(p)
  <2>1. UNCHANGED <<mode, ip, sp, trap, infos, host>>
    BY <1>2 DEF CallProcedureUnresolved
  <2>2. SameFrames
    <3>1. PICK f \in Frames : ConstructFrame(f, p, None, ip, sp + Params[p] + 2, TRUE)
      BY <1>2 DEF CallProcedureUnresolved
    <3>2. DOMAIN frames' = DOMAIN frames \cup {f} /\ \A g \in DOMAIN frames : frames'[g] = frames[g]
      BY <3>1 DEF ConstructFrame
    <3> QED BY <1>2, <3>2 DEF SameFrames, CallProcedureUnresolved
  <2>3. At(n, st, pos)' /\ EvalsCounted'
    BY <1>2, Orphaned
  <2>4. Heights(n, st, pos, b, r)'
    BY <2>1, <2>2, StillMeasured
  <2> QED BY <2>3, <2>4, MeasuredNext
<1> QED BY <1>1, <1>2

\* RETURN, and an error without a handler, delete the frame.
LEMMA ReturnsMeasured ==
  ASSUME PInv, EvalsCounted, TrapInv, NEW n, NEW st, NEW pos, NEW b, NEW r,
         At(n, st, pos), Heights(n, st, pos, b, r), Return \/ ZeroReturn \/ DropFrame
  PROVE  SInv'
<1>1. PICK m, s2 : Lower(n, st, m, s2)
  BY DEF Lower
<1>2. /\ Current /\ DeleteFrame(frame) /\ UNCHANGED <<host, infos, trap>> /\ ~trap
      /\ (mode = "run" /\ ip.eval = 0) \/ (Unwinding /\ ~Evaluates(frame))
  <2>1. ASSUME mode = "run", ~ip.trapping PROVE ~trap
    BY <2>1 DEF TrapInv
  <2> QED BY <2>1 DEF Return, ZeroReturn, DropFrame, RemoveFrame, Statement, Executing, Unwinding, hostVars
<1>3. \/ Unwinding /\ mode' = "leave"
      \/ /\ mode = "run" /\ mode' = IF frames[frame].prev = None THEN "exit" ELSE "run"
         /\ \/ sp' = frames[frame].base - Arguments(frame) + 1
            \/ ZeroReturn /\ sp' = sp - Arguments(frame) + 1
  BY DEF Return, ZeroReturn, DropFrame, RemoveFrame, Statement, Executing, Unwinding
<1>4. /\ n > 0 /\ n \in 1..n /\ m \in Nat /\ ~AtBottom(n, pos) /\ frame = st[n] /\ \A k \in 1..Len(host) : pos[k] # n
      /\ AtBottom(m, pos)' <=> AtBottom(m, pos)
      /\ frame' = IF AtBottom(m, pos) THEN None ELSE st[m]
  BY <1>1, <1>2, <1>3, FrameGoes
<1>5. At(m, s2, pos)' /\ EvalsCounted'
  BY <1>1, <1>2, <1>3, FrameGoes
<1>6. ZeroReturn => sp = frames[frame].base
  <2> SUFFICES ASSUME ZeroReturn PROVE sp = frames[frame].base
    OBVIOUS
  <2>1. mode = "run" /\ ip.eval = 0 /\ ip.depth = 0
    BY DEF ZeroReturn, Statement, Executing
  <2>2. Fits(ip, n, Len(host), st, pos)
    BY <1>2, <2>1, OnTop DEF At
  <2>3. b[0] = 0 /\ frames[frame].base \in Int
    BY <1>2 DEF Heights, Below, Current, PInv, ControlTypes, FramesTyped, FrameRecords
  <2>4. sp = frames[frame].base + b[0] + 0
    BY <1>4, <2>1, <2>2 DEF Heights, Now, Height, Fits
  <2> QED BY <2>3, <2>4
<1>7. \/ mode' = "leave"
      \/ /\ mode' = IF frames[st[n]].prev = None THEN "exit" ELSE "run"
         /\ sp' = frames[st[n]].base - Arguments(st[n]) + 1
  BY <1>3, <1>4, <1>6
<1>8. Heights(m, s2, pos, b, r)'
  <2>1. DeleteFrame(st[n]) /\ ~trap' /\ (mode = "run" \/ Unwinding)
    BY <1>2, <1>4
  <2> QED BY <1>1, <1>2, <1>4, <1>7, <2>1, ReturnMeasured
<1> QED BY <1>5, <1>8, MeasuredNext

\* An EVAL, or an OPX function, starts above the operands of its statement.
LEMMA StartsMeasured ==
  ASSUME PInv, PInv', EvalsCounted, TrapInv, NEW n, NEW st, NEW pos, NEW b, NEW r,
         At(n, st, pos), Heights(n, st, pos, b, r), Eval \/ CallOpxFunc
  PROVE  SInv'
<1>1. PICK p2 : Longer(n, pos, p2)
  BY DEF Longer
<1>2. PICK b2 : Deeper(b, b2)
  BY DEF Deeper
<1>3. ip \in Codes /\ FramesTyped /\ sp' \in Int /\ ip' \in Codes
  BY DEF PInv, ControlTypes
<1>4. mode = "run" /\ Current /\ ~ip.trapping /\ UNCHANGED <<trap, infos, frame>> /\ sp' = sp - 1
  BY DEF Eval, CallOpxFunc, Executing, frameVars
<1>5. ~trap /\ ~trap' /\ frame \in Frames
  BY <1>3, <1>4 DEF TrapInv, Current, FramesTyped
<1>6. CASE Leaves /\ UNCHANGED <<ip, frames, host>>
  <2>1. SameFrames /\ mode' = "leave"
    BY <1>6 DEF SameFrames, Leaves
  <2>2. At(n, st, pos)' /\ EvalsCounted'
    BY <1>4, <1>6, <2>1, OpcodeStays
  <2>3. Heights(n, st, pos, b, r)'
    BY <1>3, <1>4, <1>5, <1>6, <2>1, StackMoves
  <2> QED BY <2>2, <2>3, MeasuredNext
<1>7. CASE /\ host' = Append(host, [kind |-> "eval", frame |-> frame, ip |-> ip])
           /\ frames' = [frames EXCEPT ![frame].evals = @ + 1]
           /\ ip' = Code(frame, Len(host) + 1, 0) /\ UNCHANGED mode
  <2>1. PICK rec : rec = [kind |-> "eval", frame |-> frame, ip |-> ip]
    OBVIOUS
  <2>2. rec \in Hosts /\ rec.ip = ip /\ rec.kind = "eval" /\ host' = Append(host, rec)
    BY <1>3, <1>5, <1>7, <2>1 DEF Hosts
  <2>3. PICK r2 : OneMore(r, rec.kind, r2)
    BY DEF OneMore
  <2>4. SameFrames /\ At(n, st, p2)' /\ EvalsCounted'
    BY <1>1, <1>4, <1>7, EvalStarted
  <2>5. Heights(n, st, p2, b2, r2)'
    BY <1>1, <1>2, <1>4, <1>5, <1>7, <2>2, <2>3, <2>4, HostGrown
  <2> QED BY <2>4, <2>5, MeasuredNext
<1>8. CASE /\ host' = Append(host, [kind |-> "opx", frame |-> frame, ip |-> ip])
           /\ mode' = "opx" /\ UNCHANGED <<ip, frames>>
  <2>1. PICK rec : rec = [kind |-> "opx", frame |-> frame, ip |-> ip]
    OBVIOUS
  <2>2. rec \in Hosts /\ rec.ip = ip /\ rec.kind = "opx" /\ host' = Append(host, rec)
    BY <1>3, <1>5, <1>8, <2>1 DEF Hosts
  <2>3. PICK r2 : OneMore(r, rec.kind, r2)
    BY DEF OneMore
  <2>4. At(n, st, p2)' /\ EvalsCounted'
    BY <1>1, <1>4, <1>8, OpxStarts
  <2>5. SameFrames
    BY <1>8 DEF SameFrames
  <2>6. Heights(n, st, p2, b2, r2)'
    BY <1>1, <1>2, <1>4, <1>5, <1>8, <2>2, <2>3, <2>4, <2>5, HostGrown
  <2> QED BY <2>4, <2>6, MeasuredNext
<1> QED BY <1>6, <1>7, <1>8 DEF Eval, CallOpxFunc, frameVars

\* An EVAL, an OPX function or a callback ends.
LEMMA EndsMeasured ==
  ASSUME PInv, EvalsCounted, TrapInv, NEW n, NEW st, NEW pos, NEW b, NEW r,
         At(n, st, pos), Heights(n, st, pos, b, r), EvalEnds \/ OpxEnds \/ CallbackEnds
  PROVE  SInv'
<1>1. PICK p2 : Shorter(pos, p2)
  BY DEF Shorter
<1>2. PICK b2 : Fewer(b, b2)
  BY DEF Fewer
<1>3. PICK r2 : Fewer(r, r2)
  BY DEF Fewer
<1>4. CASE EvalEnds
  BY <1>1, <1>2, <1>3, <1>4, EvalEnded, EvalMeasured, MeasuredNext
<1>5. CASE OpxEnds
  <2>1. mode = "opx" /\ mode' \in {"run", "leave"} /\ UNCHANGED <<ip, frame, frames>> /\ host' = Front(host)
    BY <1>5 DEF OpxEnds, Leaves, frameVars
  <2> QED BY <1>1, <1>2, <1>3, <1>5, <2>1, OpxStops, OpxMeasured, MeasuredNext
<1>6. CASE CallbackEnds
  <2>1. /\ Innermost("opx") /\ (mode = "exit" \/ GivesUp) /\ mode' = "opx" /\ frame' = Last(host).frame
        /\ UNCHANGED <<ip, frames, host>>
    BY <1>6 DEF CallbackEnds
  <2>2. At(n, st, pos)' /\ EvalsCounted'
    BY <2>1, CallbackStops
  <2> QED BY <1>6, <2>2, CallbackReturns, MeasuredNext
<1> QED BY <1>4, <1>5, <1>6

LEMMA SInvNext ==
  ASSUME PInv, PInv', SInv, TrapInv, [Next]_vars, Stop => host = <<>> \/ Leaves
  PROVE  SInv'
<1> SUFFICES ASSUME mode \notin {"closing", "ended"} PROVE SInv'
  <2>1. CASE mode \in {"closing", "ended"}
    <3>1. mode' \in {"closing", "ended"}
      BY <2>1, ClosingEnds
    <3> QED BY <3>1 DEF SInv
  <2> QED BY <2>1
<1>1. PICK n, st, pos, b, r : At(n, st, pos) /\ Heights(n, st, pos, b, r)
  BY DEF SInv, Measured
<1>2. EvalsCounted
  BY DEF SInv
<1>3. CASE Operands \/ ReturnFromEval \/ Stop \/ Loads \/ Dialogs
  <2>1. At(n, st, pos)' /\ EvalsCounted'
    BY <1>1, <1>2, <1>3, OpcodesStay
  <2>2. Heights(n, st, pos, b, r)'
    BY <1>1, <1>2, <1>3, OpcodesMeasured
  <2> QED BY <2>1, <2>2, MeasuredNext
<1>4. CASE Trapped \/ CatchError
  <2>1. At(n, st, pos)' /\ EvalsCounted'
    BY <1>1, <1>2, <1>4, OpcodesStay, Caught
  <2>2. Heights(n, st, pos, b, r)'
    BY <1>1, <1>2, <1>4, ErrorsMeasured
  <2> QED BY <2>1, <2>2, MeasuredNext
<1>5. ASSUME NEW p \in Procs, RunProcedure(p) \/ CallByName(p) PROVE SInv'
  BY <1>1, <1>2, <1>5, CallsMeasured
<1>6. ASSUME NEW p \in Procs, CallProcedure(p) \/ CallProcedureUnresolved(p) PROVE SInv'
  BY <1>1, <1>2, <1>6, CallbacksMeasured
<1>7. CASE CallProcedureFails \/ UNCHANGED vars
  <2>1. UNCHANGED <<mode, ip, sp, frame, frames, trap, infos, host>>
    BY <1>7 DEF CallProcedureFails, CallFails, frameVars, vars, hostVars
  <2>2. At(n, st, pos)' /\ EvalsCounted'
    BY <1>1, <1>2, <2>1, NothingMoves
  <2>3. SameFrames
    BY <2>1 DEF SameFrames
  <2>4. Heights(n, st, pos, b, r)'
    BY <1>1, <2>1, <2>3, StillMeasured
  <2> QED BY <2>2, <2>4, MeasuredNext
<1>8. CASE Return \/ ZeroReturn \/ DropFrame
  BY <1>1, <1>2, <1>8, ReturnsMeasured
<1>9. CASE Eval \/ CallOpxFunc
  BY <1>1, <1>2, <1>9, StartsMeasured
<1>10. CASE EvalEnds \/ OpxEnds \/ CallbackEnds
  BY <1>1, <1>2, <1>10, EndsMeasured
<1>11. CASE Closing
  BY <1>11 DEF Closing, ProgramEnds, CloseFrame, CloseModules, SInv
<1> QED BY <1>3, <1>4, <1>5, <1>6, <1>7, <1>8, <1>9, <1>10, <1>11 DEF Next, Calls, Ends, Handling

LEMMA HeightsAreKept == ASSUME TrapSpent PROVE Spec /\ StopsProgram => []SInv
<1> DEFINE IInv == SInv /\ TrapInv /\ ("Trap" \notin Opcodes => ~trap)
<1>1. Init => IInv
  <2>1. Init => TrapInv /\ ("Trap" \notin Opcodes => ~trap)
    BY DEF Init, TrapInv
  <2> QED BY <2>1, SInvInit
<1>2. PInv /\ PInv' /\ IInv /\ [Next]_vars /\ [Stop => host = <<>> \/ Leaves]_vars => IInv'
  BY SInvNext, TrapKept, StopsAreSteps
<1>3. IInv => SInv
  OBVIOUS
<1> HIDE DEF IInv
<1> QED BY <1>1, <1>2, <1>3, SpecKeepsPInv, PTL DEF Spec, StopsProgram

LEMMA HeightsFit == PInv /\ SInv => StackAgrees
<1> SUFFICES ASSUME PInv, SInv, mode \in {"run", "opx"} PROVE StackAgrees
  BY DEF StackAgrees
<1>1. PICK n, st, pos, b, r : At(n, st, pos) /\ Heights(n, st, pos, b, r)
  BY DEF SInv, Measured
<1>2. EvalsCounted /\ host \in Seq(Hosts) /\ Shape(n, st, pos) /\ Control(n, st, pos)
  BY <1>1 DEF SInv, PInv, ControlTypes, At
<1>3. \A k \in 1..Len(host) : host[k].ip.eval \in 0..(k - 1) /\ host[k].ip.eval \in 0..Len(host)
  BY <1>2, PlacesFact
<1>4. \A c : c.eval \in 0..Len(host) => Expected(c) = Height(b, c)
  BY <1>1, <1>2, <1>3, ExpectedIsHeight DEF Heights
<1>5. CASE mode = "run"
  <2>1. n > 0
    <3>1. n \in Nat /\ ~AtBottom(n, pos)
      BY <1>2, <1>5 DEF Control, Shape, Ascending
    <3> QED BY <3>1 DEF AtBottom
  <2>2. ip.eval \in 0..Len(host)
    BY <1>2, <1>5, <2>1 DEF Control, Unresolved, Fits, LatestEval
  <2>3. sp = Height(b, ip)
    BY <1>1, <1>5, <2>1 DEF Heights, Now
  <2> QED BY <1>4, <1>5, <2>2, <2>3 DEF StackAgrees
<1>6. CASE mode = "opx"
  <2>1. Len(host) \in 1..Len(host) /\ Last(host) = host[Len(host)]
    <3>1. host # <<>> /\ IsOpx(Len(host)) /\ AtBottom(n, pos)
      BY <1>1, <1>2, <1>6, OpxInFrame
    <3> QED BY <1>2, <3>1, OpxOnTop
  <2>2. sp = Height(b, host[Len(host)].ip) - 1
    BY <1>1, <1>6 DEF Heights, Now
  <2> QED BY <1>3, <1>4, <1>6, <2>1, <2>2 DEF StackAgrees
<1> QED BY <1>5, <1>6

\* In a program in which no CANCEL or IOSIGNAL follows TRAP and STOP ends the program, the stack pointer
\* is where the q-code expects it, for any procedures, any depth of EVALs and callbacks in one another
\* and whatever errors were trapped, caught or unwound: ClearError's CStack::Reset, ResetStack and
\* RemoveFrame restore what was there (EN_ERROR, OPLAPI, FRAME.CPP).
THEOREM StackIsExpected ==
  ASSUME TrapSpent
  PROVE  Spec /\ StopsProgram => []StackAgrees
<1>1. Spec /\ StopsProgram => []SInv
  BY HeightsAreKept
<1> QED BY <1>1, HeightsFit, SpecKeepsPInv, PTL
=============================================================================
