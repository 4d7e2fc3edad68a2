------------------------------ MODULE PathProofs ------------------------------
(***************************************************************************)
(* What the spelling of a path means, for every path: the recursive        *)
(* functions of StorePaths, by induction over the length of a path.        *)
(***************************************************************************)
EXTENDS StorePaths, TLAPS, WellFoundedInduction, SequenceTheorems, FiniteSetTheorems

(* Induction, for a set of numbers: its complement has no least member.    *)
LEMMA Induction ==
  ASSUME NEW S, 0 \in S, \A n \in Nat : n \in S => n + 1 \in S
  PROVE  Nat \subseteq S
<1> DEFINE T == Nat \ S
<1>1. SUFFICES ASSUME T # {} PROVE FALSE
  OBVIOUS
<1>2. PICK x \in T : \A y \in T : ~(<<y, x>> \in OpToRel(<, Nat))
  <2>1. T \subseteq Nat
    OBVIOUS
  <2> HIDE DEF T
  <2>2. QED
    BY <1>1, <2>1, NatLessThanWellFounded, WFMin
<1>3. \A y \in T : ~(y < x)
  BY <1>2 DEF OpToRel
<1>4. x # 0 /\ x - 1 \in Nat /\ x - 1 < x
  OBVIOUS
<1>5. QED
  BY <1>3, <1>4

(* A function may be defined step by step.                                 *)
Stepwise(f, N, X, b, step) ==
    /\ f \in [0 .. N -> X]
    /\ f[0] = b
    /\ \A i \in 1 .. N : f[i] = step[<<i, f[i - 1]>>]

LEMMA StepByStep ==
  ASSUME NEW N \in Nat, NEW X, NEW b \in X, NEW step \in [(1 .. N) \X X -> X]
  PROVE  \E f : Stepwise(f, N, X, b, step)
<1> DEFINE Upto(f, k) == f[0] = b /\ \A i \in 1 .. k : f[i] = step[<<i, f[i - 1]>>]
           S == {k \in Nat : k <= N => \E f \in [0 .. k -> X] : Upto(f, k)}
<1>1. 0 \in S
  <2>1. [i \in 0 .. 0 |-> b] \in [0 .. 0 -> X] /\ Upto([i \in 0 .. 0 |-> b], 0)
    OBVIOUS
  <2>2. QED
    BY <2>1
<1>2. ASSUME NEW n \in Nat, n \in S PROVE n + 1 \in S
  <2>1. SUFFICES ASSUME n + 1 <= N PROVE \E f \in [0 .. n + 1 -> X] : Upto(f, n + 1)
    OBVIOUS
  <2>2. PICK g \in [0 .. n -> X] : Upto(g, n)
    BY <1>2, <2>1
  <2> DEFINE f == [i \in 0 .. n + 1 |-> IF i <= n THEN g[i] ELSE step[<<n + 1, g[n]>>]]
  <2>3. g[n] \in X /\ n + 1 \in 1 .. N
    BY <2>1
  <2>4. f \in [0 .. n + 1 -> X]
    BY <2>3
  <2>5. Upto(f, n + 1)
    <3>1. f[0] = b
      BY <2>2
    <3>2. ASSUME NEW i \in 1 .. n + 1 PROVE f[i] = step[<<i, f[i - 1]>>]
      <4>1. CASE i <= n
        BY <4>1, <2>2
      <4>2. CASE i = n + 1
        <5>1. f[n + 1] = step[<<n + 1, g[n]>>] /\ f[n] = g[n] /\ i - 1 = n
          BY <4>2
        <5> HIDE DEF f
        <5>2. QED
          BY <4>2, <5>1
      <4>3. QED
        BY <4>1, <4>2
    <3>3. QED
      BY <3>1, <3>2
  <2>6. QED
    BY <2>4, <2>5
<1>3. N \in S
  <2> HIDE DEF S
  <2>1. QED
    BY <1>1, <1>2, Induction
<1>4. QED
  BY <1>3 DEF Stepwise

(* A function that goes on so from b stays in X.                           *)
GoesOn(f, N, X, b, step) ==
    f[0] = b /\ \A i \in 1 .. N : f[i - 1] \in X => f[i] = step[<<i, f[i - 1]>>]

LEMMA StepsStayIn ==
  ASSUME NEW N \in Nat, NEW X, NEW b \in X, NEW step \in [(1 .. N) \X X -> X], NEW F,
         GoesOn(F, N, X, b, step)
  PROVE  \A i \in 0 .. N : F[i] \in X
<1> USE DEF GoesOn
<1> DEFINE S == {k \in Nat : k <= N => F[k] \in X}
<1>1. 0 \in S
  OBVIOUS
<1>2. ASSUME NEW n \in Nat, n \in S PROVE n + 1 \in S
  <2>1. SUFFICES ASSUME n + 1 <= N PROVE F[n + 1] \in X
    OBVIOUS
  <2>2. F[n] \in X /\ n + 1 \in 1 .. N /\ (n + 1) - 1 = n
    BY <1>2, <2>1
  <2>3. F[n + 1] = step[<<n + 1, F[n]>>]
    BY <2>2
  <2>4. QED
    BY <2>2, <2>3
<1>3. Nat \subseteq S
  <2> HIDE DEF S
  <2>1. QED
    BY <1>1, <1>2, Induction
<1>4. QED
  BY <1>3

-----------------------------------------------------------------------------
(* Walk and NamesOf, as functions that satisfy their definitions.          *)
LEMMA EnterType ==
  ASSUME NEW loc \in Seq(STRING), NEW s \in STRING
  PROVE  Enter(loc, s) \in Seq(STRING) /\ Keep(loc, s) \in Seq(STRING)
<1>1. SubSeq(loc, 1, Len(loc) - 1) \in Seq(STRING)
  BY SubSeqProperties, LenProperties
<1>2. Append(loc, s) \in Seq(STRING)
  BY AppendProperties
<1>3. QED
  BY <1>1, <1>2, Zenon DEF Enter, Keep

Walks(f, loc, segs) ==
    /\ f \in [0 .. Len(segs) -> Seq(STRING)]
    /\ f[0] = loc
    /\ \A i \in 1 .. Len(segs) : f[i] = Enter(f[i - 1], segs[i])

LEMMA WalkDefined ==
  ASSUME NEW loc \in Seq(STRING), NEW segs \in Seq(STRING)
  PROVE  \E f : Walks(f, loc, segs) /\ Walk(loc, segs) = f[Len(segs)]
<1> DEFINE N == Len(segs)
           step == [x \in (1 .. N) \X Seq(STRING) |-> Enter(x[2], segs[x[1]])]
           Eq(f) == f = [i \in 0 .. N |-> IF i = 0 THEN loc ELSE Enter(f[i - 1], segs[i])]
           F == CHOOSE f : Eq(f)
<1>1. N \in Nat /\ \A i \in 1 .. N : segs[i] \in STRING
  OBVIOUS
<1>2. loc \in Seq(STRING) /\ step \in [(1 .. N) \X Seq(STRING) -> Seq(STRING)]
  BY <1>1, EnterType
<1>3. \A i \in 1 .. N : \A x \in Seq(STRING) : step[<<i, x>>] = Enter(x, segs[i])
  OBVIOUS
<1> HIDE DEF step
<1>4. PICK g : Stepwise(g, N, Seq(STRING), loc, step)
  <2> HIDE DEF N
  <2>1. QED
    BY <1>1, <1>2, StepByStep
<1>5. Eq(g)
  <2>1. ASSUME NEW i \in 1 .. N PROVE g[i] = Enter(g[i - 1], segs[i])
    <3>1. g[i - 1] \in Seq(STRING)
      BY <1>1, <1>4 DEF Stepwise
    <3>2. g[i] = step[<<i, g[i - 1]>>]
      BY <1>4 DEF Stepwise
    <3>3. QED
      BY <1>3, <3>1, <3>2
  <2>2. QED
    BY <1>4, <2>1 DEF Stepwise
<1>6. Walk(loc, segs) = F[N] /\ Eq(F)
  BY <1>5 DEF Walk
<1>7. F = [i \in 0 .. N |-> IF i = 0 THEN loc ELSE Enter(F[i - 1], segs[i])]
  <2> HIDE DEF F
  <2>1. QED
    BY <1>6
<1> HIDE DEF F, N, Eq
<1>8. F[0] = loc /\ \A i \in 1 .. N : F[i] = Enter(F[i - 1], segs[i])
  BY <1>1, <1>7
<1>9. \A i \in 0 .. N : F[i] \in Seq(STRING)
  <2>1. GoesOn(F, N, Seq(STRING), loc, step)
    BY <1>3, <1>8 DEF GoesOn
  <2>2. QED
    BY <1>1, <1>2, <2>1, StepsStayIn
<1>10. Walks(F, loc, segs)
  BY <1>1, <1>7, <1>8, <1>9 DEF Walks, N
<1>11. QED
  BY <1>6, <1>10 DEF N

Keeps(f, segs) ==
    /\ f \in [0 .. Len(segs) -> Seq(STRING)]
    /\ f[0] = <<>>
    /\ \A i \in 1 .. Len(segs) : f[i] = Keep(f[i - 1], segs[i])

LEMMA NamesDefined ==
  ASSUME NEW segs \in Seq(STRING)
  PROVE  \E f : Keeps(f, segs) /\ NamesOf(segs) = f[Len(segs)]
<1> DEFINE N == Len(segs)
           step == [x \in (1 .. N) \X Seq(STRING) |-> Keep(x[2], segs[x[1]])]
           Eq(f) == f = [i \in 0 .. N |-> IF i = 0 THEN <<>> ELSE Keep(f[i - 1], segs[i])]
           F == CHOOSE f : Eq(f)
<1>1. N \in Nat /\ \A i \in 1 .. N : segs[i] \in STRING
  OBVIOUS
<1>2. <<>> \in Seq(STRING) /\ step \in [(1 .. N) \X Seq(STRING) -> Seq(STRING)]
  <2>1. <<>> \in Seq(STRING)
    OBVIOUS
  <2>2. QED
    BY <1>1, <2>1, EnterType
<1>3. \A i \in 1 .. N : \A x \in Seq(STRING) : step[<<i, x>>] = Keep(x, segs[i])
  OBVIOUS
<1> HIDE DEF step
<1>4. PICK g : Stepwise(g, N, Seq(STRING), <<>>, step)
  <2> HIDE DEF N
  <2>1. QED
    BY <1>1, <1>2, StepByStep
<1>5. Eq(g)
  <2>1. ASSUME NEW i \in 1 .. N PROVE g[i] = Keep(g[i - 1], segs[i])
    <3>1. g[i - 1] \in Seq(STRING)
      BY <1>1, <1>4 DEF Stepwise
    <3>2. g[i] = step[<<i, g[i - 1]>>]
      BY <1>4 DEF Stepwise
    <3>3. QED
      BY <1>3, <3>1, <3>2
  <2>2. QED
    BY <1>4, <2>1 DEF Stepwise
<1>6. NamesOf(segs) = F[N] /\ Eq(F)
  BY <1>5 DEF NamesOf
<1>7. F = [i \in 0 .. N |-> IF i = 0 THEN <<>> ELSE Keep(F[i - 1], segs[i])]
  <2> HIDE DEF F
  <2>1. QED
    BY <1>6
<1> HIDE DEF F, N, Eq
<1>8. F[0] = <<>> /\ \A i \in 1 .. N : F[i] = Keep(F[i - 1], segs[i])
  BY <1>1, <1>7
<1>9. \A i \in 0 .. N : F[i] \in Seq(STRING)
  <2>1. GoesOn(F, N, Seq(STRING), <<>>, step)
    BY <1>3, <1>8 DEF GoesOn
  <2>2. QED
    BY <1>1, <1>2, <2>1, StepsStayIn
<1>10. Keeps(F, segs)
  BY <1>1, <1>7, <1>8, <1>9 DEF Keeps, N
<1>11. QED
  BY <1>6, <1>10 DEF N

(* What they make of one more segment.                                     *)
LEMMA NoWalk ==
  ASSUME NEW loc \in Seq(STRING)
  PROVE  Walk(loc, <<>>) = loc
<1>1. PICK h : Walks(h, loc, <<>>) /\ Walk(loc, <<>>) = h[Len(<<>>)]
  BY WalkDefined, EmptySeq
<1>2. QED
  BY <1>1 DEF Walks

LEMMA WalkOn ==
  ASSUME NEW loc \in Seq(STRING), NEW segs \in Seq(STRING), NEW s \in STRING
  PROVE  /\ Walk(loc, segs) \in Seq(STRING)
         /\ Walk(loc, Append(segs, s)) = Enter(Walk(loc, segs), s)
<1>1. PICK f : Walks(f, loc, segs) /\ Walk(loc, segs) = f[Len(segs)]
  BY WalkDefined
<1>2. Append(segs, s) \in Seq(STRING) /\ Len(Append(segs, s)) = Len(segs) + 1
      /\ Len(segs) \in Nat
      /\ (\A i \in 1 .. Len(segs) : Append(segs, s)[i] = segs[i])
      /\ Append(segs, s)[Len(segs) + 1] = s
  <2>1. Len(segs) \in Nat
    BY LenProperties
  <2>2. Append(segs, s) \in Seq(STRING) /\ Len(Append(segs, s)) = Len(segs) + 1
    BY AppendProperties
  <2>3. \A i \in 1 .. Len(segs) : Append(segs, s)[i] = segs[i]
    BY AppendProperties
  <2>4. Append(segs, s)[Len(segs) + 1] = s
    BY AppendProperties
  <2>5. QED
    BY <2>1, <2>2, <2>3, <2>4
<1>3. PICK g : Walks(g, loc, Append(segs, s)) /\ Walk(loc, Append(segs, s)) = g[Len(segs) + 1]
  BY <1>2, WalkDefined
<1> DEFINE S == {k \in Nat : k <= Len(segs) => f[k] = g[k]}
<1>4. 0 \in S
  BY <1>1, <1>3 DEF Walks
<1>5. ASSUME NEW n \in Nat, n \in S PROVE n + 1 \in S
  <2>1. SUFFICES ASSUME n + 1 <= Len(segs) PROVE f[n + 1] = g[n + 1]
    OBVIOUS
  <2>2. f[n] = g[n] /\ n + 1 \in 1 .. Len(segs) /\ n + 1 \in 1 .. Len(segs) + 1
        /\ (n + 1) - 1 = n
    BY <1>2, <1>5, <2>1
  <2>3. f[n + 1] = Enter(f[n], segs[n + 1])
    BY <1>1, <2>2 DEF Walks
  <2>4. g[n + 1] = Enter(g[n], segs[n + 1])
    BY <1>2, <1>3, <2>2 DEF Walks
  <2>5. QED
    BY <2>2, <2>3, <2>4
<1>6. f[Len(segs)] = g[Len(segs)]
  <2>1. Nat \subseteq S
    <3> HIDE DEF S
    <3>1. QED
      BY <1>4, <1>5, Induction
  <2>2. QED
    BY <1>2, <2>1
<1>7. g[Len(segs) + 1] = Enter(g[Len(segs)], s)
  <2>1. Len(segs) + 1 \in 1 .. Len(segs) + 1 /\ (Len(segs) + 1) - 1 = Len(segs)
    BY <1>2
  <2>2. QED
    BY <1>2, <1>3, <2>1 DEF Walks
<1>8. Walk(loc, segs) \in Seq(STRING)
  BY <1>1, <1>2 DEF Walks
<1>9. QED
  BY <1>1, <1>2, <1>3, <1>6, <1>7, <1>8

LEMMA NoNames ==
  NamesOf(<<>>) = <<>>
<1>1. PICK h : Keeps(h, <<>>) /\ NamesOf(<<>>) = h[Len(<<>>)]
  BY NamesDefined, EmptySeq
<1>2. QED
  BY <1>1 DEF Keeps

LEMMA NamesOn ==
  ASSUME NEW segs \in Seq(STRING), NEW s \in STRING
  PROVE  /\ NamesOf(segs) \in Seq(STRING)
         /\ NamesOf(Append(segs, s)) = Keep(NamesOf(segs), s)
<1>1. PICK f : Keeps(f, segs) /\ NamesOf(segs) = f[Len(segs)]
  BY NamesDefined
<1>2. Append(segs, s) \in Seq(STRING) /\ Len(Append(segs, s)) = Len(segs) + 1
      /\ Len(segs) \in Nat
      /\ (\A i \in 1 .. Len(segs) : Append(segs, s)[i] = segs[i])
      /\ Append(segs, s)[Len(segs) + 1] = s
  <2>1. Len(segs) \in Nat
    BY LenProperties
  <2>2. Append(segs, s) \in Seq(STRING) /\ Len(Append(segs, s)) = Len(segs) + 1
    BY AppendProperties
  <2>3. \A i \in 1 .. Len(segs) : Append(segs, s)[i] = segs[i]
    BY AppendProperties
  <2>4. Append(segs, s)[Len(segs) + 1] = s
    BY AppendProperties
  <2>5. QED
    BY <2>1, <2>2, <2>3, <2>4
<1>3. PICK g : Keeps(g, Append(segs, s)) /\ NamesOf(Append(segs, s)) = g[Len(segs) + 1]
  BY <1>2, NamesDefined
<1> DEFINE S == {k \in Nat : k <= Len(segs) => f[k] = g[k]}
<1>4. 0 \in S
  BY <1>1, <1>3 DEF Keeps
<1>5. ASSUME NEW n \in Nat, n \in S PROVE n + 1 \in S
  <2>1. SUFFICES ASSUME n + 1 <= Len(segs) PROVE f[n + 1] = g[n + 1]
    OBVIOUS
  <2>2. f[n] = g[n] /\ n + 1 \in 1 .. Len(segs) /\ n + 1 \in 1 .. Len(segs) + 1
        /\ (n + 1) - 1 = n
    BY <1>2, <1>5, <2>1
  <2>3. f[n + 1] = Keep(f[n], segs[n + 1])
    BY <1>1, <2>2 DEF Keeps
  <2>4. g[n + 1] = Keep(g[n], segs[n + 1])
    BY <1>2, <1>3, <2>2 DEF Keeps
  <2>5. QED
    BY <2>2, <2>3, <2>4
<1>6. f[Len(segs)] = g[Len(segs)]
  <2>1. Nat \subseteq S
    <3> HIDE DEF S
    <3>1. QED
      BY <1>4, <1>5, Induction
  <2>2. QED
    BY <1>2, <2>1
<1>7. g[Len(segs) + 1] = Keep(g[Len(segs)], s)
  <2>1. Len(segs) + 1 \in 1 .. Len(segs) + 1 /\ (Len(segs) + 1) - 1 = Len(segs)
    BY <1>2
  <2>2. QED
    BY <1>2, <1>3, <2>1 DEF Keeps
<1>8. NamesOf(segs) \in Seq(STRING)
  BY <1>1, <1>2 DEF Keeps
<1>9. QED
  BY <1>1, <1>2, <1>3, <1>6, <1>7, <1>8

-----------------------------------------------------------------------------
(* Induction over the segments of a path.                                  *)
LEMMA SegmentInduction ==
  ASSUME NEW A, NEW S, <<>> \in S, \A t \in Seq(A) : t \in S => \A x \in A : Append(t, x) \in S
  PROVE  Seq(A) \subseteq S
<1> DEFINE L == {n \in Nat : \A t \in Seq(A) : Len(t) = n => t \in S}
<1>1. 0 \in L
  BY EmptySeq, LenProperties
<1>2. ASSUME NEW n \in Nat, n \in L PROVE n + 1 \in L
  <2>1. SUFFICES ASSUME NEW t \in Seq(A), Len(t) = n + 1 PROVE t \in S
    OBVIOUS
  <2>2. t # <<>>
    BY <2>1, EmptySeq
  <2>3. PICK u \in Seq(A), x \in A : t = Append(u, x)
    BY <2>2, SequenceEmptyOrAppend
  <2>4. Len(u) = n
    BY <2>1, <2>3, AppendProperties, LenProperties
  <2>5. QED
    BY <1>2, <2>3, <2>4
<1>3. Nat \subseteq L
  <2> HIDE DEF L
  <2>1. QED
    BY <1>1, <1>2, Induction
<1>4. QED
  BY <1>3, LenProperties

(* The kernel comes to the same place without the segments that say        *)
(* nothing.                                                                *)
LEMMA NamesLeadThere ==
  ASSUME NEW loc \in Seq(STRING), NEW segs \in Seq(STRING)
  PROVE  Walk(loc, NamesOf(segs)) = Walk(loc, segs)
<1> DEFINE S == {t \in Seq(STRING) : Walk(loc, NamesOf(t)) = Walk(loc, t)}
<1>1. <<>> \in S
  BY NoNames, NoWalk, EmptySeq
<1>2. ASSUME NEW t \in Seq(STRING), t \in S, NEW x \in STRING PROVE Append(t, x) \in S
  <2>1. /\ Append(t, x) \in Seq(STRING) /\ NamesOf(t) \in Seq(STRING)
        /\ NamesOf(Append(t, x)) = Keep(NamesOf(t), x)
        /\ Walk(loc, Append(t, x)) = Enter(Walk(loc, t), x)
        /\ Walk(loc, Append(NamesOf(t), x)) = Enter(Walk(loc, NamesOf(t)), x)
    <3>1. Append(t, x) \in Seq(STRING)
      BY AppendProperties
    <3>2. NamesOf(t) \in Seq(STRING) /\ NamesOf(Append(t, x)) = Keep(NamesOf(t), x)
      BY NamesOn
    <3>3. QED
      BY <3>1, <3>2, WalkOn
  <2>2. CASE IsName(x)
    BY <1>2, <2>1, <2>2 DEF Keep
  <2>3. CASE ~IsName(x)
    BY <1>2, <2>1, <2>3 DEF Keep, Enter
  <2>4. QED
    BY <2>2, <2>3
<1>3. Seq(STRING) \subseteq S
  <2> HIDE DEF S
  <2>1. QED
    BY <1>1, <1>2, SegmentInduction
<1>4. QED
  BY <1>3

(* Without a "..", the place is spelled by the names.                      *)
LEMMA PlainWalk ==
  ASSUME NEW segs \in Seq(STRING), \A i \in 1 .. Len(segs) : segs[i] # ".."
  PROVE  Walk(<<>>, segs) = NamesOf(segs)
<1> DEFINE Plain(t) == \A i \in 1 .. Len(t) : t[i] # ".."
           S == {t \in Seq(STRING) : Plain(t) => Walk(<<>>, t) = NamesOf(t)}
<1>1. <<>> \in S
  BY NoNames, NoWalk, EmptySeq
<1>2. ASSUME NEW t \in Seq(STRING), t \in S, NEW x \in STRING PROVE Append(t, x) \in S
  <2>1. /\ Append(t, x) \in Seq(STRING) /\ Len(t) \in Nat /\ Len(Append(t, x)) = Len(t) + 1
        /\ Append(t, x)[Len(t) + 1] = x
    BY AppendProperties, LenProperties
  <2>2. \A i \in 1 .. Len(t) : Append(t, x)[i] = t[i]
    BY AppendProperties
  <2>3. NamesOf(Append(t, x)) = Keep(NamesOf(t), x)
        /\ Walk(<<>>, Append(t, x)) = Enter(Walk(<<>>, t), x)
    BY NamesOn, WalkOn, EmptySeq
  <2>4. SUFFICES ASSUME Plain(Append(t, x))
                 PROVE  Walk(<<>>, Append(t, x)) = NamesOf(Append(t, x))
    BY <2>1
  <2>5. Plain(t) /\ x # ".."
    BY <2>1, <2>2, <2>4
  <2>6. QED
    BY <1>2, <2>3, <2>5 DEF Keep, Enter
<1>3. Seq(STRING) \subseteq S
  <2> HIDE DEF S
  <2>1. QED
    BY <1>1, <1>2, SegmentInduction
<1>4. QED
  BY <1>3

(* A sequence of names is its names.                                       *)
LEMMA NamesOfNames ==
  ASSUME NEW A \in SUBSET STRING, \A x \in A : IsName(x), NEW segs \in Seq(A)
  PROVE  NamesOf(segs) = segs
<1> DEFINE S == {t \in Seq(A) : NamesOf(t) = t}
<1>1. <<>> \in S
  BY NoNames, NoWalk, EmptySeq
<1>2. ASSUME NEW t \in Seq(A), t \in S, NEW x \in A PROVE Append(t, x) \in S
  <2>1. t \in Seq(STRING)
    BY SeqMonotonic
  <2>2. Append(t, x) \in Seq(A)
    BY AppendProperties
  <2>3. NamesOf(Append(t, x)) = Keep(NamesOf(t), x)
    BY <2>1, NamesOn
  <2>4. QED
    BY <1>2, <2>2, <2>3 DEF Keep
<1>3. Seq(A) \subseteq S
  <2> HIDE DEF S
  <2>1. QED
    BY <1>1, <1>2, SegmentInduction
<1>4. QED
  BY <1>3

-----------------------------------------------------------------------------
(* What fix_dir_trailing_slash makes of an absolute path is a path to the  *)
(* same place.                                                             *)
LEMMA FixedLeadsThere ==
  ASSUME NEW p \in Paths, p.root
  PROVE  /\ Fixed(p) = Canonical(NamesOf(p.segs))
         /\ Location(Fixed(p)) = Location(p)
<1>1. p.segs \in Seq(STRING) /\ <<>> \in Seq(STRING)
  BY EmptySeq DEF Paths
<1>2. Fixed(p) = Canonical(NamesOf(p.segs))
  BY DEF Fixed, Components, Canonical
<1>3. Location(Canonical(NamesOf(p.segs))) = Walk(<<>>, NamesOf(p.segs))
  BY DEF Location, Canonical
<1>4. QED
  BY <1>1, <1>2, <1>3, NamesLeadThere DEF Location

(* Without a "..", it is the one that builds register.                     *)
LEMMA FixedIsCanonical ==
  ASSUME NEW p \in Paths, p.root, \A i \in 1 .. Len(p.segs) : p.segs[i] # ".."
  PROVE  Fixed(p) = Canonical(Location(p))
<1>1. p.segs \in Seq(STRING)
  BY DEF Paths
<1>2. Walk(<<>>, p.segs) = NamesOf(p.segs)
  BY <1>1, PlainWalk
<1>3. QED
  BY <1>2, FixedLeadsThere DEF Location

LEMMA CanonicalLeadsThere ==
  ASSUME NEW loc \in StoreLocations
  PROVE  Location(Canonical(loc)) = loc
<1> DEFINE A == {s \in STRING : IsName(s) /\ s # ".."}
<1>1. A \in SUBSET STRING /\ (\A x \in A : IsName(x) /\ x # "..") /\ loc \in Seq(A)
  BY PathsAssumption
<1> HIDE DEF A
<1>2. loc \in Seq(STRING)
  BY <1>1, SeqMonotonic
<1>3. \A i \in 1 .. Len(loc) : loc[i] # ".."
  BY <1>1, ElementOfSeq
<1>4. Walk(<<>>, loc) = NamesOf(loc)
  BY <1>2, <1>3, PlainWalk
<1>5. NamesOf(loc) = loc
  BY <1>1, NamesOfNames
<1>6. QED
  BY <1>4, <1>5 DEF Location, Canonical
-----------------------------------------------------------------------------
(* Where links lead to.                                                    *)
Follow(e, ends, l) == IF e[l].kind = "link" THEN ends[e[l].to] ELSE l

Follows(f, e) ==
    /\ f \in [0 .. Cardinality(Locations) -> [Locations -> Locations]]
    /\ \A l \in Locations : f[0][l] = l
    /\ \A i \in 1 .. Cardinality(Locations), l \in Locations :
          f[i][l] = Follow(e, f[i - 1], l)

LEMMA EndsDefined ==
  ASSUME NEW e \in [Locations -> Entries]
  PROVE  \E f : Follows(f, e) /\ Ends(e) = f[Cardinality(Locations)]
<1> DEFINE N == Cardinality(Locations)
           X == [Locations -> Locations]
           b == [l \in Locations |-> l]
           Next1(h) == [l \in Locations |-> IF e[l].kind = "link" THEN h[e[l].to] ELSE l]
           step == [x \in (1 .. N) \X X |-> Next1(x[2])]
           Eq(f) == f = [i \in 0 .. N |-> IF i = 0 THEN b ELSE Next1(f[i - 1])]
           F == CHOOSE f : Eq(f)
<1>1. N \in Nat
  BY PathsAssumption, FS_CardinalityType
<1>2. \A h \in X : Next1(h) \in X
  <2>1. SUFFICES ASSUME NEW h \in X, NEW l \in Locations, e[l].kind = "link"
                 PROVE  h[e[l].to] \in Locations
    OBVIOUS
  <2>2. e[l] \in Entries
    OBVIOUS
  <2>3. e[l].to \in StoreLocations
    BY <2>1, <2>2 DEF Entries, Nothing
  <2>4. QED
    BY <2>3 DEF Locations
<1>3. b \in X /\ step \in [(1 .. N) \X X -> X]
  BY <1>2
<1>4. \A i \in 1 .. N : \A x \in X : step[<<i, x>>] = Next1(x)
  OBVIOUS
<1> HIDE DEF step, X, b, Next1
<1>5. PICK g : Stepwise(g, N, X, b, step)
  <2> HIDE DEF N
  <2>1. QED
    BY <1>1, <1>3, StepByStep
<1>6. Eq(g)
  <2>1. ASSUME NEW i \in 1 .. N PROVE g[i] = Next1(g[i - 1])
    <3>1. g[i - 1] \in X
      BY <1>1, <1>5 DEF Stepwise
    <3>2. g[i] = step[<<i, g[i - 1]>>]
      BY <1>5 DEF Stepwise
    <3>3. QED
      BY <1>4, <3>1, <3>2
  <2>2. QED
    BY <1>5, <2>1 DEF Stepwise
<1>7. Ends(e) = F[N] /\ Eq(F)
  BY <1>6 DEF Ends, Next1, b
<1>8. F = [i \in 0 .. N |-> IF i = 0 THEN b ELSE Next1(F[i - 1])]
  <2> HIDE DEF F
  <2>1. QED
    BY <1>7
<1> HIDE DEF F, N, Eq
<1>9. F[0] = b /\ \A i \in 1 .. N : F[i] = Next1(F[i - 1])
  BY <1>1, <1>8
<1>10. \A i \in 0 .. N : F[i] \in X
  <2>1. GoesOn(F, N, X, b, step)
    BY <1>4, <1>9 DEF GoesOn
  <2>2. QED
    BY <1>1, <1>3, <2>1, StepsStayIn
<1>11. F \in [0 .. N -> X]
  BY <1>8, <1>10
<1>12. \A l \in Locations : F[0][l] = l
  BY <1>9 DEF b
<1>13. ASSUME NEW i \in 1 .. N, NEW l \in Locations
       PROVE  F[i][l] = Follow(e, F[i - 1], l)
  <2>1. F[i] = Next1(F[i - 1])
    BY <1>9
  <2>2. Next1(F[i - 1])[l] = Follow(e, F[i - 1], l)
    BY DEF Next1, Follow
  <2>3. QED
    BY <2>1, <2>2
<1>14. Follows(F, e)
  BY <1>11, <1>12, <1>13 DEF X, N, Follows
<1>15. QED
  BY <1>7, <1>14 DEF N

(* A path that is no link is where it leads to, and what leads nowhere     *)
(* leads nowhere when something else has been removed.                     *)
LEMMA EndsFacts ==
  ASSUME NEW e \in [Locations -> Entries], NEW l \in Locations
  PROVE  /\ Ends(e)[l] \in Locations
         /\ e[l].kind # "link" => Ends(e)[l] = l
<1> DEFINE N == Cardinality(Locations)
<1>1. N \in Nat
  BY PathsAssumption, FS_CardinalityType
<1>2. PICK f : Follows(f, e) /\ Ends(e) = f[N]
  BY EndsDefined
<1>3. /\ f \in [0 .. N -> [Locations -> Locations]] /\ f[0][l] = l
      /\ \A i \in 1 .. N : f[i][l] = Follow(e, f[i - 1], l)
  BY <1>2 DEF Follows
<1> HIDE DEF N
<1>4. CASE N = 0
  BY <1>1, <1>2, <1>3, <1>4
<1>5. CASE N \in 1 .. N
  BY <1>1, <1>2, <1>3, <1>5 DEF Follow
<1>6. QED
  BY <1>1, <1>4, <1>5

\* d is e without what is at r, and from l the links of e lead nowhere.
Clears(d, e, r) == d = [e EXCEPT ![r] = Nothing]
Nowhere(e, l) == e[Ends(e)[l]].kind = "absent"

LEMMA NowhereStays ==
  ASSUME NEW e \in [Locations -> Entries], NEW r \in Locations, NEW l \in Locations,
         NEW d, Clears(d, e, r), Nowhere(e, l)
  PROVE  Nowhere(d, l)
<1> USE DEF Clears, Nowhere
<1> DEFINE N == Cardinality(Locations)
<1>1. N \in Nat
  BY PathsAssumption, FS_CardinalityType
<1>2. d \in [Locations -> Entries]
  BY DEF Entries
<1>3. PICK f : Follows(f, e) /\ Ends(e) = f[N]
  BY EndsDefined
<1>4. PICK g : Follows(g, d) /\ Ends(d) = g[N]
  BY <1>2, EndsDefined
<1>5. \A k \in Locations : IF k = r THEN d[k].kind = "absent" ELSE d[k] = e[k]
  BY DEF Nothing
<1>6. \A k \in Locations : e[k].kind = "link" => e[k].to \in Locations
  <2>1. SUFFICES ASSUME NEW k \in Locations, e[k].kind = "link" PROVE e[k].to \in Locations
    OBVIOUS
  <2>2. e[k] \in Entries
    OBVIOUS
  <2>3. QED
    BY <2>1, <2>2 DEF Entries, Nothing, Locations
<1> HIDE DEF N
<1> DEFINE S == {n \in Nat : n <= N => \A k \in Locations :
                    e[f[n][k]].kind = "absent" => d[g[n][k]].kind = "absent"}
<1>7. 0 \in S
  <2>1. \A k \in Locations : f[0][k] = k /\ g[0][k] = k
    BY <1>3, <1>4 DEF Follows
  <2>2. QED
    BY <1>1, <1>5, <2>1
<1>8. ASSUME NEW n \in Nat, n \in S PROVE n + 1 \in S
  <2>1. SUFFICES ASSUME n + 1 <= N, NEW k \in Locations, e[f[n + 1][k]].kind = "absent"
                 PROVE  d[g[n + 1][k]].kind = "absent"
    OBVIOUS
  <2>2. n + 1 \in 1 .. N /\ (n + 1) - 1 = n /\ n <= N
    BY <1>1, <2>1
  <2>3. f[n + 1][k] = Follow(e, f[n], k) /\ g[n + 1][k] = Follow(d, g[n], k)
    <3>1. /\ f[n + 1][k] = Follow(e, f[(n + 1) - 1], k)
          /\ g[n + 1][k] = Follow(d, g[(n + 1) - 1], k)
      BY <1>3, <1>4, <2>2 DEF Follows, N
    <3>2. QED
      BY <2>2, <3>1
  <2>4. CASE k = r
    BY <1>5, <2>3, <2>4 DEF Follow
  <2>5. CASE k # r /\ e[k].kind = "link"
    <3>1. e[k].to \in Locations /\ e[f[n][e[k].to]].kind = "absent"
      BY <1>6, <2>1, <2>3, <2>5 DEF Follow
    <3>2. d[g[n][e[k].to]].kind = "absent"
      BY <1>8, <2>2, <3>1
    <3>3. QED
      BY <1>5, <2>3, <2>5, <3>2 DEF Follow
  <2>6. CASE k # r /\ e[k].kind # "link"
    BY <1>5, <2>1, <2>3, <2>6 DEF Follow
  <2>7. QED
    BY <2>4, <2>5, <2>6
<1>9. N \in S
  <2> HIDE DEF S
  <2>1. QED
    BY <1>1, <1>7, <1>8, Induction
<1>10. QED
  BY <1>1, <1>3, <1>4, <1>9

-----------------------------------------------------------------------------
(* What the commands do to rows and entries.                               *)
LEMMA RowsAreSomewhere ==
  ASSUME PathTypeOK, NEW r \in rows
  PROVE  Location(r) \in Locations
<1>1. CASE r \in {Fixed(p) : p \in Spellings}
  BY <1>1, PathsAssumption
<1>2. CASE r \in {Canonical(loc) : loc \in StoreLocations}
  BY <1>2, CanonicalLeadsThere DEF Locations
<1>3. QED
  BY <1>1, <1>2 DEF PathTypeOK

LEMMA AbsentIsFree ==
  ASSUME entry \in [Locations -> Entries], NEW loc \in Locations, Metadata(loc) = "absent"
  PROVE  Freed(loc)
<1>1. CASE entry[loc].kind = "link"
  BY <1>1 DEF Freed, Dangling
<1>2. CASE entry[loc].kind # "link"
  <2>1. Target(loc) = loc
    BY <1>2, EndsFacts DEF Target
  <2>2. entry[loc].kind = "absent" /\ entry[loc] \in Entries
    BY <2>1 DEF Metadata
  <2>3. QED
    BY <2>2 DEF Freed, Entries
<1>3. QED
  BY <1>1, <1>2

(* What is free stays free while something is removed.                     *)
LEMMA FreedStays ==
  ASSUME entry \in [Locations -> Entries], NEW r \in Locations, NEW loc \in Locations,
         entry' = [entry EXCEPT ![r] = Nothing], Freed(loc)
  PROVE  Freed(loc)'
<1>1. CASE loc = r
  BY <1>1 DEF Freed
<1>2. CASE loc # r /\ entry[loc] = Nothing
  BY <1>2 DEF Freed
<1>3. CASE loc # r /\ Dangling(loc)
  <2>1. Nowhere(entry, loc) /\ Clears(entry', entry, r)
    BY <1>3 DEF Dangling, Metadata, Target, Nowhere, Clears
  <2>2. Nowhere(entry', loc)
    BY <2>1, NowhereStays
  <2>3. entry'[loc].kind = "link"
    BY <1>3 DEF Dangling
  <2>4. QED
    BY <2>2, <2>3 DEF Freed, Dangling, Metadata, Target, Nowhere
<1>4. QED
  BY <1>1, <1>2, <1>3 DEF Freed

LEMMA RemovesFacts ==
  ASSUME PathTypeOK, NEW text, Location(text) \in Locations, Removes(text)
  PROVE  /\ entry' \in [Locations -> Entries]
         /\ rows' = IF Cleanable(Location(text)) THEN rows \ {text} ELSE rows
         /\ \A loc \in Locations : loc # Location(text) => entry'[loc] = entry[loc]
         /\ \A loc \in Locations : Freed(loc) => Freed(loc)'
         /\ Cleanable(Location(text)) => Freed(Location(text))'
<1> DEFINE there == Location(text)
<1>1. there \in Locations /\ entry \in [Locations -> Entries]
  BY DEF PathTypeOK
<1>2. entry' = entry => \A loc \in Locations : Freed(loc) => Freed(loc)'
  BY DEF Freed, Dangling, Metadata, Target
<1>3. CASE entry' = entry
  <2>1. Cleanable(there) => Freed(there)
    <3>1. Cleanable(there) => Metadata(there) = "absent" \/ entry' = [entry EXCEPT ![there] = Nothing]
      BY DEF Removes, Cleaned
    <3>2. entry' = [entry EXCEPT ![there] = Nothing] => entry[there] = Nothing
      BY <1>1, <1>3
    <3>3. QED
      BY <1>1, <3>1, <3>2, AbsentIsFree DEF Freed
  <2>2. QED
    BY <1>1, <1>2, <1>3, <2>1 DEF Removes
<1>4. CASE Cleanable(there) /\ entry' = [entry EXCEPT ![there] = Nothing]
  <2>1. entry' \in [Locations -> Entries] /\ entry'[there] = Nothing
        /\ \A loc \in Locations : loc # there => entry'[loc] = entry[loc]
    BY <1>1, <1>4 DEF Entries
  <2>2. \A loc \in Locations : Freed(loc) => Freed(loc)'
    BY <1>1, <1>4, FreedStays
  <2>3. rows' = rows \ {text} /\ Freed(there)'
    BY <1>4, <2>1 DEF Removes, Freed
  <2>4. QED
    BY <1>4, <2>1, <2>2, <2>3
<1>5. QED
  BY <1>3, <1>4 DEF Removes, Cleaned

-----------------------------------------------------------------------------
(* The steps of StorePaths preserve PathInv.                               *)
LEMMA PathInitial == PathInit => PathInv
<1> SUFFICES ASSUME PathInit PROVE PathInv
  OBVIOUS
<1>1. entry \in [Locations -> Entries]
  BY DEF PathInit, Entries, Nothing, Regular
<1>2. QED
  BY <1>1 DEF PathInit, PathInv, PathTypeOK, WipeGoesOn, RemovedIsGone

LEMMA BuildKeepsPaths ==
  ASSUME PathInv, wiping = {}, NEW loc \in StoreLocations, Build(loc)
  PROVE  PathInv'
<1>1. loc \in Locations /\ entry \in [Locations -> Entries]
  BY DEF Locations, PathInv, PathTypeOK
<1>2. Target(loc) \in Locations
  BY <1>1, EndsFacts DEF Target
<1>3. Outputs(loc) \cup {Nothing} \subseteq Entries /\ Regular \in Entries /\ Nothing \in Entries
  BY DEF Outputs, Entries, Regular
<1>4. Cleaned(loc) \in [Locations -> Entries]
  BY <1>1, <1>3 DEF Cleaned
<1>5. entry' \in [Locations -> Entries]
  BY <1>1, <1>2, <1>3, <1>4 DEF Build, Written
<1>6. rows' \subseteq rows \cup {Canonical(loc)}
  BY DEF Build
<1>7. wiping' = {} /\ last' \in [cmd : {"build"}, locs : {{loc}}, ok : BOOLEAN]
  BY DEF Build, Did
<1>8. PathTypeOK'
  BY <1>1, <1>5, <1>6, <1>7 DEF PathInv, PathTypeOK
<1>9. QED
  BY <1>7, <1>8 DEF PathInv, WipeGoesOn, RemovedIsGone

LEMMA AddKeepsPaths ==
  ASSUME PathInv, wiping = {}, NEW p \in Spellings, StoreAdd(p) \/ StoreIsPath(p)
  PROVE  PathInv'
<1>1. Location(p) \in Locations
  BY PathsAssumption
<1>2. /\ entry' = entry /\ wiping' = {} /\ rows' \subseteq rows \cup {Fixed(p)}
      /\ last' \in [cmd : {"add", "is-path"}, locs : {{Location(p)}}, ok : BOOLEAN]
  <2>1. CASE StoreAdd(p)
    BY <2>1 DEF StoreAdd, Did
  <2>2. CASE StoreIsPath(p)
    <3>1. (Fixed(p) \in rows) \in BOOLEAN
      OBVIOUS
    <3>2. QED
      BY <2>2, <3>1 DEF StoreIsPath, Did
  <2>3. QED
    BY <2>1, <2>2
<1>3. PathTypeOK'
  BY <1>1, <1>2 DEF PathInv, PathTypeOK
<1>4. QED
  BY <1>2, <1>3 DEF PathInv, WipeGoesOn, RemovedIsGone

LEMMA RemoveKeepsPaths ==
  ASSUME PathInv, wiping = {}, NEW p \in Spellings, p.root, StoreRemove(p)
  PROVE  PathInv'
<1>1. Location(p) \in Locations /\ p \in Paths
  BY PathsAssumption
<1>2. Location(Fixed(p)) = Location(p)
  BY <1>1, FixedLeadsThere
<1>3. PathTypeOK /\ Removes(Fixed(p))
  BY DEF PathInv, StoreRemove
<1>4. /\ entry' \in [Locations -> Entries] /\ rows' \subseteq rows
      /\ Cleanable(Location(p)) => Freed(Location(p))'
  BY <1>1, <1>2, <1>3, RemovesFacts
<1>5. wiping' = {} /\ last' = [cmd |-> "rm", locs |-> {Location(p)}, ok |-> Cleanable(Location(p))]
  BY <1>2 DEF StoreRemove, Did
<1>6. PathTypeOK'
  <2>1. Cleanable(Location(p)) \in BOOLEAN
    BY DEF Cleanable
  <2>2. last' \in [cmd : {"rm"}, locs : SUBSET Locations, ok : BOOLEAN]
    BY <1>1, <1>5, <2>1
  <2>3. QED
    BY <1>3, <1>4, <1>5, <2>2 DEF PathTypeOK
<1>7. QED
  BY <1>4, <1>5, <1>6 DEF PathInv, WipeGoesOn, RemovedIsGone

LEMMA WipeStartKeepsPaths ==
  ASSUME PathInv, WipeStart
  PROVE  PathInv'
<1>1. {Location(r) : r \in rows} \subseteq Locations
  BY RowsAreSomewhere DEF PathInv
<1>2. /\ rows' = rows /\ entry' = entry /\ wiping' = rows
      /\ last' = [cmd |-> "rm --all", locs |-> {Location(r) : r \in rows}, ok |-> FALSE]
  BY DEF WipeStart, Did
<1>3. PathTypeOK'
  BY <1>1, <1>2 DEF PathInv, PathTypeOK
<1>4. QED
  BY <1>2, <1>3 DEF PathInv, WipeGoesOn, RemovedIsGone

(* The last removal that succeeds leaves none of the paths to be freed.    *)
LEMMA WipeOneKeepsPaths ==
  ASSUME PathInv, NEW r \in wiping, WipeOne(r)
  PROVE  PathInv'
<1> DEFINE there == Location(r)
<1>1. PathTypeOK /\ Removes(r) /\ r \in rows
  BY DEF PathInv, PathTypeOK, WipeOne
<1>2. there \in Locations
  BY <1>1, RowsAreSomewhere
<1>3. /\ entry' \in [Locations -> Entries]
      /\ rows' = IF Cleanable(there) THEN rows \ {r} ELSE rows
      /\ \A loc \in Locations : Freed(loc) => Freed(loc)'
      /\ Cleanable(there) => Freed(there)'
  BY <1>1, <1>2, RemovesFacts
<1>4. /\ last.cmd = "rm --all" /\ last.locs \subseteq Locations
      /\ \A q \in wiping : Location(q) \in last.locs
      /\ \A loc \in last.locs : Freed(loc) \/ \E q \in wiping : Location(q) = loc
  BY DEF PathInv, WipeGoesOn, PathTypeOK
<1>5. /\ wiping' = IF Cleanable(there) THEN wiping \ {r} ELSE {}
      /\ last' = [cmd |-> "rm --all", locs |-> last.locs,
                  ok |-> Cleanable(there) /\ wiping = {r}]
  BY DEF WipeOne, Did
<1>6. PathTypeOK'
  BY <1>1, <1>3, <1>4, <1>5 DEF PathTypeOK, Cleanable
<1>7. ASSUME Cleanable(there), NEW loc \in last.locs
      PROVE  Freed(loc)' \/ \E q \in wiping \ {r} : Location(q) = loc
  BY <1>3, <1>4, <1>7
<1>8. WipeGoesOn'
  BY <1>4, <1>5, <1>7 DEF WipeGoesOn
<1>9. RemovedIsGone'
  BY <1>5, <1>7 DEF RemovedIsGone
<1>10. QED
  BY <1>6, <1>8, <1>9 DEF PathInv

LEMMA StopKeepsPaths ==
  ASSUME PathInv, WipeStops \/ UNCHANGED pathVars
  PROVE  PathInv'
<1>1. rows' = rows /\ entry' = entry /\ last' = last /\ wiping' \in {{}, wiping}
  BY DEF WipeStops, pathVars
<1>2. \A loc \in last.locs : Freed(loc)' = Freed(loc)
  BY <1>1 DEF Freed, Dangling, Metadata, Target
<1>3. PathTypeOK'
  BY <1>1 DEF PathInv, PathTypeOK
<1>4. WipeGoesOn' /\ RemovedIsGone'
  BY <1>1, <1>2 DEF PathInv, WipeGoesOn, RemovedIsGone
<1>5. QED
  BY <1>3, <1>4 DEF PathInv

(* With AllAbsolute, whatever a command removes was at a path it was given. *)
LEMMA OnlyNamed ==
  ASSUME PathInv, NEW loc \in Locations, entry'[loc] # entry[loc], last'.cmd # "build",
         AllAbsolute, StoreCommand \/ WipeStart \/ (\E r \in wiping : WipeOne(r)) \/ WipeStops
  PROVE  loc \in last'.locs
<1>1. PathTypeOK
  BY DEF PathInv
<1>2. CASE \E l \in StoreLocations : Build(l)
  BY <1>2 DEF Build, Did
<1>3. ASSUME NEW p \in Spellings, StoreRemove(p) PROVE loc \in last'.locs
  <2>1. Location(p) \in Locations /\ Location(Fixed(p)) = Location(p)
    BY PathsAssumption, FixedLeadsThere DEF AllAbsolute
  <2>2. Removes(Fixed(p)) /\ last'.locs = {Location(p)}
    BY <1>3 DEF StoreRemove, Did
  <2>3. loc = Location(p)
    BY <1>1, <2>1, <2>2, RemovesFacts
  <2>4. QED
    BY <2>2, <2>3
<1>4. ASSUME NEW r \in wiping, WipeOne(r) PROVE loc \in last'.locs
  <2>1. Removes(r) /\ r \in rows /\ last'.locs = last.locs /\ Location(r) \in last.locs
    BY <1>4 DEF PathInv, PathTypeOK, WipeGoesOn, WipeOne, Did
  <2>2. Location(r) \in Locations
    BY <1>1, <2>1, RowsAreSomewhere
  <2>3. loc = Location(r)
    BY <1>1, <2>1, <2>2, RemovesFacts
  <2>4. QED
    BY <2>1, <2>3
<1>5. QED
  BY <1>2, <1>3, <1>4 DEF StoreCommand, StoreAdd, StoreIsPath, WipeStart, WipeStops

(* A spelling without ".." is stored as the location that it leads to.     *)
LEMMA AnswersAgreeAlways ==
  ASSUME AllAbsolute
  PROVE  AnswersAgree
<1>1. ASSUME NEW p \in Spellings, ".." \notin {p.segs[i] : i \in 1 .. Len(p.segs)}
      PROVE  Fixed(p) = Canonical(Location(p))
  <2>1. p \in Paths /\ p.root /\ \A i \in 1 .. Len(p.segs) : p.segs[i] # ".."
    BY <1>1, PathsAssumption DEF AllAbsolute
  <2>2. QED
    BY <2>1, FixedIsCanonical
<1>2. QED
  BY <1>1 DEF AnswersAgree
=============================================================================
