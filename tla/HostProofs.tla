------------------------------ MODULE HostProofs ------------------------------
(***************************************************************************)
(* Proofs about Host: what its list and expansion operators compute for    *)
(* every list and command, and what one command or event can do to the     *)
(* registries.  LoaderProofs builds on it.                                 *)
(***************************************************************************)
EXTENDS Host, TLAPS, SequenceTheorems, WellFoundedInduction

(***************************************************************************)
(* Induction, with a set of numbers or of sequences for the property.      *)
(***************************************************************************)

LEMMA EveryNumber ==
    ASSUME NEW P, 0 \in P, \A n \in Nat : n \in P => n + 1 \in P
    PROVE  Nat \subseteq P
<1> DEFINE T == {n \in Nat : n \notin P}
<1> SUFFICES ASSUME T # {} PROVE FALSE
  OBVIOUS
<1>1. PICK x \in T : \A y \in T : <<y, x>> \notin OpToRel(<, Nat)
  <2>1. T \subseteq Nat
    OBVIOUS
  <2> HIDE DEF T
  <2> QED BY <2>1, NatLessThanWellFounded, WFMin
<1>2. \A y \in T : ~(y < x)
  BY <1>1 DEF OpToRel
<1>3. x \in Nat \ {0}
  OBVIOUS
<1>4. x - 1 \notin T /\ x - 1 \in Nat
  BY <1>2, <1>3
<1> QED BY <1>3, <1>4

LEMMA EverySequence ==
    ASSUME NEW V, NEW P, <<>> \in P,
           \A q \in Seq(V), x \in V : q \in P => Append(q, x) \in P
    PROVE  Seq(V) \subseteq P
<1> DEFINE N == {n \in Nat : \A q \in Seq(V) : Len(q) = n => q \in P}
<1>1. 0 \in N
  <2>1. \A q \in Seq(V) : Len(q) = 0 => q = <<>>
    BY EmptySeq
  <2> QED BY <2>1
<1>2. ASSUME NEW n \in Nat, n \in N PROVE n + 1 \in N
  <2> SUFFICES ASSUME NEW q \in Seq(V), Len(q) = n + 1 PROVE q \in P
    OBVIOUS
  <2>1. q # <<>>
    BY EmptySeq
  <2>2. PICK r \in Seq(V), x \in V : q = Append(r, x)
    BY <2>1, SequenceEmptyOrAppend
  <2>3. Len(r) = n
    BY <2>2, AppendProperties, LenProperties
  <2> QED BY <1>2, <2>2, <2>3
<1>3. Nat \subseteq N
  <2> HIDE DEF N
  <2> QED BY <1>1, <1>2, EveryNumber
<1> QED BY <1>3

(***************************************************************************)
(* A function on 0 .. n defined by its first value and by each from the    *)
(* one before it exists.                                                   *)
(***************************************************************************)
Recursive(g, n, first, step) ==
    /\ g[0] = first
    /\ \A i \in 1 .. n : g[i] = step[<<i, g[i - 1]>>]

LEMMA RecursionExists ==
    ASSUME NEW X, NEW first \in X, NEW m \in Nat, NEW step \in [(1 .. m) \X X -> X]
    PROVE  \E g \in [0 .. m -> X] : Recursive(g, m, first, step)
<1> DEFINE P == {n \in Nat : n <= m => \E g \in [0 .. n -> X] : Recursive(g, n, first, step)}
<1>1. 0 \in P
  <2>1. [i \in 0 .. 0 |-> first] \in [0 .. 0 -> X]
    OBVIOUS
  <2>2. Recursive([i \in 0 .. 0 |-> first], 0, first, step)
    BY DEF Recursive
  <2> QED BY <2>1, <2>2
<1>2. ASSUME NEW n \in Nat, n \in P PROVE n + 1 \in P
  <2> SUFFICES ASSUME n + 1 <= m
               PROVE  \E g \in [0 .. (n + 1) -> X] : Recursive(g, n + 1, first, step)
    OBVIOUS
  <2>1. PICK g \in [0 .. n -> X] : Recursive(g, n, first, step)
    BY <1>2
  <2> DEFINE new == step[<<n + 1, g[n]>>]
             h == [i \in 0 .. (n + 1) |-> IF i = n + 1 THEN new ELSE g[i]]
  <2>2. new \in X
    OBVIOUS
  <2>3. h \in [0 .. (n + 1) -> X]
    BY <2>2
  <2>4. h[0] = first /\ h[n + 1] = step[<<n + 1, h[n]>>]
    BY <2>1 DEF Recursive
  <2>5. ASSUME NEW i \in 1 .. n PROVE h[i] = step[<<i, h[i - 1]>>]
    <3>1. h[i] = g[i] /\ h[i - 1] = g[i - 1]
      OBVIOUS
    <3> QED BY <2>1, <3>1 DEF Recursive
  <2> HIDE DEF h
  <2>6. \A i \in 1 .. (n + 1) : h[i] = step[<<i, h[i - 1]>>]
    <3>1. \A i \in 1 .. (n + 1) : i \in 1 .. n \/ i = n + 1
      OBVIOUS
    <3>2. (n + 1) - 1 = n
      OBVIOUS
    <3> QED BY <2>4, <2>5, <3>1, <3>2
  <2>7. Recursive(h, n + 1, first, step)
    BY <2>4, <2>6 DEF Recursive
  <2> QED BY <2>3, <2>7
<1>3. Nat \subseteq P
  <2> HIDE DEF P
  <2> QED BY <1>1, <1>2, EveryNumber
<1> QED BY <1>3

(***************************************************************************)
(* Kept is such a function of the length of the list.                      *)
(***************************************************************************)
KeepStep(V, q, S) ==
    [x \in (1 .. Len(q)) \X Seq(V) |->
        IF q[x[1]] \in S THEN Append(x[2], q[x[1]]) ELSE x[2]]

KeptBy(g, q, S) ==
    /\ g = [n \in 0 .. Len(q) |-> g[n]]
    /\ g[0] = <<>>
    /\ \A n \in 1 .. Len(q) :
          g[n] = IF q[n] \in S THEN Append(g[n - 1], q[n]) ELSE g[n - 1]

LEMMA KeptByExists ==
    ASSUME NEW V, NEW q \in Seq(V), NEW S
    PROVE  \E g : KeptBy(g, q, S)
<1>1. Len(q) \in Nat /\ <<>> \in Seq(V)
  OBVIOUS
<1> DEFINE step == KeepStep(V, q, S)
<1>2. \A i \in 1 .. Len(q), r \in Seq(V) :
         /\ step[<<i, r>>] = IF q[i] \in S THEN Append(r, q[i]) ELSE r
         /\ (IF q[i] \in S THEN Append(r, q[i]) ELSE r) \in Seq(V)
  BY ElementOfSeq, AppendProperties DEF KeepStep
<1>3. step \in [(1 .. Len(q)) \X Seq(V) -> Seq(V)]
  BY <1>2 DEF KeepStep
<1> HIDE DEF step
<1>4. PICK g \in [0 .. Len(q) -> Seq(V)] : Recursive(g, Len(q), <<>>, step)
  BY <1>1, <1>3, RecursionExists
<1>5. \A i \in 1 .. Len(q) : i - 1 \in 0 .. Len(q)
  BY <1>1
<1>6. ASSUME NEW i \in 1 .. Len(q)
      PROVE  g[i] = IF q[i] \in S THEN Append(g[i - 1], q[i]) ELSE g[i - 1]
  <2>1. g[i - 1] \in Seq(V)
    BY <1>5
  <2>2. g[i] = step[<<i, g[i - 1]>>]
    BY <1>4 DEF Recursive
  <2> QED BY <1>2, <2>1, <2>2
<1>7. g = [n \in 0 .. Len(q) |-> g[n]]
  OBVIOUS
<1> QED BY <1>4, <1>6, <1>7 DEF Recursive, KeptBy

\* What Kept computes is what the recursion gives at the end of the list.
LEMMA KeptIsRecursive ==
    ASSUME NEW V, NEW q \in Seq(V), NEW S
    PROVE  \E g : KeptBy(g, q, S) /\ Kept(q, S) = g[Len(q)]
<1> DEFINE body(g) == [n \in 0 .. Len(q) |->
                         IF n = 0 THEN <<>>
                         ELSE IF q[n] \in S THEN Append(g[n - 1], q[n])
                         ELSE g[n - 1]]
           kept == CHOOSE g : g = body(g)
<1>1. Len(q) \in Nat
  OBVIOUS
<1>2. ASSUME NEW g PROVE KeptBy(g, q, S) <=> g = body(g)
  <2>1. /\ 0 \in 0 .. Len(q) /\ \A n \in 1 .. Len(q) : n \in 0 .. Len(q) /\ n # 0
        /\ \A n \in 0 .. Len(q) : n = 0 \/ n \in 1 .. Len(q)
    BY <1>1
  <2> DEFINE b == body(g)
  <2>2. /\ b = [n \in 0 .. Len(q) |-> b[n]]
        /\ b[0] = <<>>
        /\ \A n \in 1 .. Len(q) :
              b[n] = IF q[n] \in S THEN Append(g[n - 1], q[n]) ELSE g[n - 1]
    BY <2>1
  <2> HIDE DEF b
  <2>3. ASSUME KeptBy(g, q, S) PROVE g = b
    <3>1. \A n \in 0 .. Len(q) : g[n] = b[n]
      BY <2>1, <2>2, <2>3 DEF KeptBy
    <3> QED BY <2>2, <2>3, <3>1 DEF KeptBy
  <2>4. ASSUME g = b PROVE KeptBy(g, q, S)
    BY <2>2, <2>4 DEF KeptBy
  <2> QED BY <2>3, <2>4 DEF b
<1>3. KeptBy(kept, q, S)
  BY <1>2, KeptByExists
<1>4. Kept(q, S) = kept[Len(q)]
  BY DEF Kept
<1> QED BY <1>3, <1>4

LEMMA KeptEmpty == \A S : Kept(<<>>, S) = <<>>
<1> TAKE S
<1>1. <<>> \in Seq({}) /\ Len(<<>>) = 0
  OBVIOUS
<1>2. PICK g : KeptBy(g, <<>>, S) /\ Kept(<<>>, S) = g[Len(<<>>)]
  BY <1>1, KeptIsRecursive
<1> QED BY <1>1, <1>2 DEF KeptBy

LEMMA KeptAppend ==
    ASSUME NEW V, NEW q \in Seq(V), NEW x \in V, NEW S
    PROVE  Kept(Append(q, x), S) =
               IF x \in S THEN Append(Kept(q, S), x) ELSE Kept(q, S)
<1> DEFINE r == Append(q, x)
           n == Len(q)
<1>1. /\ r \in Seq(V) /\ n \in Nat /\ Len(r) = n + 1 /\ r[n + 1] = x
      /\ \A i \in 1 .. n : r[i] = q[i]
  BY AppendProperties
<1> HIDE DEF r
<1>2. PICK g : KeptBy(g, q, S) /\ Kept(q, S) = g[n]
  BY KeptIsRecursive
<1>3. PICK h : KeptBy(h, r, S) /\ Kept(r, S) = h[n + 1]
  BY <1>1, KeptIsRecursive
<1> HIDE DEF n
<1> DEFINE P == {i \in Nat : i <= n => g[i] = h[i]}
<1>4. 0 \in P
  BY <1>2, <1>3 DEF KeptBy
<1>5. ASSUME NEW i \in Nat, i \in P PROVE i + 1 \in P
  <2> SUFFICES ASSUME i + 1 <= n PROVE g[i + 1] = h[i + 1]
    OBVIOUS
  <2>1. i + 1 \in 1 .. n /\ i + 1 \in 1 .. (n + 1) /\ (i + 1) - 1 = i /\ g[i] = h[i]
    BY <1>1, <1>5
  <2>2. g[i + 1] = IF q[i + 1] \in S THEN Append(g[i], q[i + 1]) ELSE g[i]
    BY <1>2, <2>1 DEF KeptBy, n
  <2>3. h[i + 1] = IF r[i + 1] \in S THEN Append(h[i], r[i + 1]) ELSE h[i]
    BY <1>1, <1>3, <2>1 DEF KeptBy
  <2> QED BY <1>1, <2>1, <2>2, <2>3
<1>6. Nat \subseteq P
  <2> HIDE DEF P
  <2> QED BY <1>4, <1>5, EveryNumber
<1>7. g[n] = h[n]
  BY <1>1, <1>6
<1>8. n + 1 \in 1 .. (n + 1) /\ (n + 1) - 1 = n
  BY <1>1
<1>9. h[n + 1] = IF x \in S THEN Append(h[n], x) ELSE h[n]
  BY <1>1, <1>3, <1>8 DEF KeptBy
<1> QED BY <1>2, <1>3, <1>7, <1>9 DEF r

(***************************************************************************)
(* Lists and their members.                                                *)
(***************************************************************************)
LEMMA MembersFacts ==
    ASSUME NEW V
    PROVE  /\ Members(<<>>) = {}
           /\ \A q \in Seq(V), x \in V : Members(Append(q, x)) = Members(q) \cup {x}
           /\ \A q \in Seq(V), r \in Seq(V) : Members(q \o r) = Members(q) \cup Members(r)
           /\ \A q \in Seq(V) : Members(q) \subseteq V
<1>1. Members(<<>>) = {}
  BY DEF Members
<1>2. ASSUME NEW q \in Seq(V), NEW x \in V
      PROVE  Members(Append(q, x)) = Members(q) \cup {x}
  <2>1. /\ Len(q) \in Nat /\ Len(Append(q, x)) = Len(q) + 1
        /\ \A i \in 1 .. Len(q) : Append(q, x)[i] = q[i]
        /\ Append(q, x)[Len(q) + 1] = x
    BY AppendProperties
  <2>2. \A i : i \in 1 .. (Len(q) + 1) <=> i \in 1 .. Len(q) \/ i = Len(q) + 1
    BY <2>1
  <2> QED BY <2>1, <2>2 DEF Members
<1>3. ASSUME NEW q \in Seq(V), NEW r \in Seq(V)
      PROVE  Members(q \o r) = Members(q) \cup Members(r)
  <2>1. /\ Len(q) \in Nat /\ Len(r) \in Nat /\ Len(q \o r) = Len(q) + Len(r)
        /\ \A i \in 1 .. (Len(q) + Len(r)) :
              (q \o r)[i] = IF i <= Len(q) THEN q[i] ELSE r[i - Len(q)]
    BY ConcatProperties
  <2>2. ASSUME NEW x \in Members(q \o r) PROVE x \in Members(q) \cup Members(r)
    <3>1. PICK i \in 1 .. (Len(q) + Len(r)) : x = (q \o r)[i]
      BY <2>1 DEF Members
    <3>2. i <= Len(q) => i \in 1 .. Len(q)
      BY <2>1
    <3>3. ~(i <= Len(q)) => i - Len(q) \in 1 .. Len(r)
      BY <2>1
    <3> QED BY <2>1, <3>1, <3>2, <3>3 DEF Members
  <2>3. ASSUME NEW x \in Members(q) PROVE x \in Members(q \o r)
    <3>1. PICK i \in 1 .. Len(q) : x = q[i]
      BY DEF Members
    <3>2. i \in 1 .. (Len(q) + Len(r)) /\ i <= Len(q)
      BY <2>1
    <3> QED BY <2>1, <3>1, <3>2 DEF Members
  <2>4. ASSUME NEW x \in Members(r) PROVE x \in Members(q \o r)
    <3>1. PICK i \in 1 .. Len(r) : x = r[i]
      BY DEF Members
    <3>2. /\ i + Len(q) \in 1 .. (Len(q) + Len(r)) /\ ~(i + Len(q) <= Len(q))
          /\ (i + Len(q)) - Len(q) = i
      BY <2>1
    <3> QED BY <2>1, <3>1, <3>2 DEF Members
  <2> QED BY <2>2, <2>3, <2>4
<1>4. ASSUME NEW q \in Seq(V) PROVE Members(q) \subseteq V
  BY ElementOfSeq DEF Members
<1> QED BY <1>1, <1>2, <1>3, <1>4

LEMMA KeptMembers ==
    ASSUME NEW V, NEW S
    PROVE  \A q \in Seq(V) : /\ Kept(q, S) \in Seq(V)
                             /\ Members(Kept(q, S)) = Members(q) \cap S
<1> DEFINE P == {q \in Seq(V) : /\ Kept(q, S) \in Seq(V)
                               /\ Members(Kept(q, S)) = Members(q) \cap S}
<1>1. <<>> \in P
  <2>1. /\ Kept(<<>>, S) = <<>> /\ <<>> \in Seq(V)
        /\ Members(<<>>) = {}
    BY KeptEmpty, MembersFacts, EmptySeq
  <2> QED BY <2>1
<1>2. ASSUME NEW q \in Seq(V), NEW x \in V, q \in P PROVE Append(q, x) \in P
  <2>1. Kept(Append(q, x), S) = IF x \in S THEN Append(Kept(q, S), x) ELSE Kept(q, S)
    BY KeptAppend
  <2>2. Append(q, x) \in Seq(V)
    BY AppendProperties
  <2>3. Members(Append(q, x)) = Members(q) \cup {x}
    BY MembersFacts
  <2>4. CASE x \in S
    <3>1. /\ Append(Kept(q, S), x) \in Seq(V)
          /\ Members(Append(Kept(q, S), x)) = Members(Kept(q, S)) \cup {x}
      BY <1>2, AppendProperties, MembersFacts
    <3> QED BY <1>2, <2>1, <2>2, <2>3, <2>4, <3>1
  <2>5. CASE x \notin S
    BY <1>2, <2>1, <2>2, <2>3, <2>5
  <2> QED BY <2>4, <2>5
<1> HIDE DEF P
<1>3. Seq(V) \subseteq P
  BY <1>1, <1>2, EverySequence
<1> QED BY <1>3 DEF P

LEMMA KeptAllOf ==
    ASSUME NEW V, NEW S
    PROVE  \A q \in Seq(V) : Members(q) \subseteq S => Kept(q, S) = q
<1> DEFINE P == {q \in Seq(V) : Members(q) \subseteq S => Kept(q, S) = q}
<1>1. <<>> \in P
  BY KeptEmpty, EmptySeq
<1>2. ASSUME NEW q \in Seq(V), NEW x \in V, q \in P PROVE Append(q, x) \in P
  <2>1. /\ Members(Append(q, x)) = Members(q) \cup {x} /\ Append(q, x) \in Seq(V)
        /\ Kept(Append(q, x), S) = IF x \in S THEN Append(Kept(q, S), x) ELSE Kept(q, S)
    BY MembersFacts, AppendProperties, KeptAppend
  <2> SUFFICES ASSUME Members(Append(q, x)) \subseteq S
               PROVE  Kept(Append(q, x), S) = Append(q, x)
    BY <2>1
  <2>2. x \in S /\ Members(q) \subseteq S
    BY <2>1
  <2> QED BY <1>2, <2>1, <2>2
<1> HIDE DEF P
<1>3. Seq(V) \subseteq P
  BY <1>1, <1>2, EverySequence
<1> QED BY <1>3 DEF P

LEMMA KeptNoneOf ==
    ASSUME NEW V, NEW S, NEW q \in Seq(V), Members(q) \cap S = {}
    PROVE  Kept(q, S) = <<>>
<1>1. Kept(q, S) \in Seq(V) /\ Members(Kept(q, S)) = {}
  BY KeptMembers
<1>2. Len(Kept(q, S)) \in Nat
  BY <1>1
<1>3. Len(Kept(q, S)) = 0
  <2>1. 1 \notin 1 .. Len(Kept(q, S))
    <3>1. \A i \in 1 .. Len(Kept(q, S)) : Kept(q, S)[i] \in Members(Kept(q, S))
      BY DEF Members
    <3> QED BY <1>1, <3>1
  <2> QED BY <1>2, <2>1
<1> QED BY <1>1, <1>3, EmptySeq

LEMMA KeptOfKept ==
    ASSUME NEW V, NEW S, NEW T
    PROVE  \A q \in Seq(V) : Kept(Kept(q, S), T) = Kept(q, S \cap T)
<1> DEFINE P == {q \in Seq(V) : Kept(Kept(q, S), T) = Kept(q, S \cap T)}
<1>1. <<>> \in P
  BY KeptEmpty, EmptySeq
<1>2. ASSUME NEW q \in Seq(V), NEW x \in V, q \in P PROVE Append(q, x) \in P
  <2>1. Append(q, x) \in Seq(V) /\ Kept(q, S) \in Seq(V)
    BY AppendProperties, KeptMembers
  <2>2. Kept(Append(q, x), S) = IF x \in S THEN Append(Kept(q, S), x) ELSE Kept(q, S)
    BY KeptAppend
  <2>3. Kept(Append(q, x), S \cap T) =
            IF x \in S \cap T THEN Append(Kept(q, S \cap T), x) ELSE Kept(q, S \cap T)
    BY KeptAppend
  <2>4. Kept(Append(Kept(q, S), x), T) =
            IF x \in T THEN Append(Kept(Kept(q, S), T), x) ELSE Kept(Kept(q, S), T)
    BY <2>1, KeptAppend
  <2>5. Kept(Kept(Append(q, x), S), T) = Kept(Append(q, x), S \cap T)
    <3>1. Kept(Kept(q, S), T) = Kept(q, S \cap T)
      BY <1>2
    <3>2. CASE x \in S
      <4>1. Kept(Append(q, x), S) = Append(Kept(q, S), x)
        BY <2>2, <3>2
      <4>2. x \in S \cap T <=> x \in T
        BY <3>2
      <4>3. CASE x \in T
        BY <2>3, <2>4, <3>1, <4>1, <4>2, <4>3
      <4>4. CASE x \notin T
        BY <2>3, <2>4, <3>1, <4>1, <4>2, <4>4
      <4> QED BY <4>3, <4>4
    <3>3. CASE x \notin S
      BY <2>2, <2>3, <3>1, <3>3
    <3> QED BY <3>2, <3>3
  <2> QED BY <2>1, <2>5
<1> HIDE DEF P
<1>3. Seq(V) \subseteq P
  BY <1>1, <1>2, EverySequence
<1> QED BY <1>3 DEF P

LEMMA KeptOfConcat ==
    ASSUME NEW V, NEW S, NEW q \in Seq(V)
    PROVE  \A r \in Seq(V) : Kept(q \o r, S) = Kept(q, S) \o Kept(r, S)
<1> DEFINE P == {r \in Seq(V) : Kept(q \o r, S) = Kept(q, S) \o Kept(r, S)}
<1>1. <<>> \in P
  BY KeptEmpty, KeptMembers, ConcatEmptySeq, EmptySeq
<1>2. ASSUME NEW r \in Seq(V), NEW x \in V, r \in P PROVE Append(r, x) \in P
  <2>1. /\ Append(r, x) \in Seq(V) /\ q \o r \in Seq(V)
        /\ Kept(q, S) \in Seq(V) /\ Kept(r, S) \in Seq(V)
    BY AppendProperties, ConcatProperties, KeptMembers
  <2>2. \A s \in Seq(V), t \in Seq(V) : s \o Append(t, x) = Append(s \o t, x)
    <3> SUFFICES ASSUME NEW s \in Seq(V), NEW t \in Seq(V)
                 PROVE  s \o Append(t, x) = Append(s \o t, x)
      OBVIOUS
    <3>1. <<x>> \in Seq(V) /\ s \o t \in Seq(V)
      BY ConcatProperties
    <3>2. Append(t, x) = t \o <<x>> /\ Append(s \o t, x) = (s \o t) \o <<x>>
      BY <3>1, AppendIsConcat
    <3> QED BY <3>1, <3>2, ConcatAssociative
  <2>3. Kept(Append(q \o r, x), S) =
            IF x \in S THEN Append(Kept(q \o r, S), x) ELSE Kept(q \o r, S)
    BY <2>1, KeptAppend
  <2>4. Kept(Append(r, x), S) = IF x \in S THEN Append(Kept(r, S), x) ELSE Kept(r, S)
    BY KeptAppend
  <2>5. Kept(q \o Append(r, x), S) = Kept(q, S) \o Kept(Append(r, x), S)
    <3>1. /\ Kept(q \o r, S) = Kept(q, S) \o Kept(r, S)
          /\ q \o Append(r, x) = Append(q \o r, x)
          /\ Kept(q, S) \o Append(Kept(r, S), x) = Append(Kept(q, S) \o Kept(r, S), x)
      BY <1>2, <2>1, <2>2
    <3>2. CASE x \in S
      BY <2>3, <2>4, <3>1, <3>2
    <3>3. CASE x \notin S
      BY <2>3, <2>4, <3>1, <3>3
    <3> QED BY <3>2, <3>3
  <2> QED BY <2>1, <2>5
<1> HIDE DEF P
<1>3. Seq(V) \subseteq P
  BY <1>1, <1>2, EverySequence
<1> QED BY <1>3 DEF P

(***************************************************************************)
(* Lists of handlers in the order of their ids.                            *)
(***************************************************************************)
InOrder(list) ==
    \A i \in 1 .. Len(list) : \A j \in 1 .. (i - 1) : list[j].id < list[i].id

LEMMA InOrderAppend ==
    ASSUME NEW V, NEW q \in Seq(V), NEW x \in V
    PROVE  InOrder(Append(q, x)) <=> InOrder(q) /\ \A h \in Members(q) : h.id < x.id
<1> DEFINE r == Append(q, x)
           n == Len(q)
<1>1. /\ n \in Nat /\ Len(r) = n + 1 /\ r[n + 1] = x
      /\ \A i \in 1 .. n : r[i] = q[i]
  BY AppendProperties
<1>2. /\ \A i : i \in 1 .. (n + 1) <=> i \in 1 .. n \/ i = n + 1
      /\ \A i \in 1 .. n : \A j \in 1 .. (i - 1) : j \in 1 .. n
      /\ (n + 1) - 1 = n
  BY <1>1
<1>3. Members(q) = {q[i] : i \in 1 .. n}
  BY DEF Members
<1> HIDE DEF r, n
<1>4. ASSUME InOrder(r) PROVE InOrder(q) /\ \A h \in Members(q) : h.id < x.id
  <2>1. InOrder(q)
    BY <1>1, <1>2, <1>4 DEF InOrder, n
  <2>2. ASSUME NEW i \in 1 .. n PROVE q[i].id < x.id
    BY <1>1, <1>2, <1>4 DEF InOrder
  <2> QED BY <1>3, <2>1, <2>2
<1>5. ASSUME InOrder(q), \A h \in Members(q) : h.id < x.id PROVE InOrder(r)
  <2> SUFFICES ASSUME NEW i \in 1 .. (n + 1), NEW j \in 1 .. (i - 1)
               PROVE  r[j].id < r[i].id
    BY <1>1 DEF InOrder
  <2>1. CASE i \in 1 .. n
    BY <1>1, <1>2, <1>5, <2>1 DEF InOrder, n
  <2>2. CASE i = n + 1
    BY <1>1, <1>2, <1>3, <1>5, <2>2
  <2> QED BY <1>2, <2>1, <2>2
<1> QED BY <1>4, <1>5 DEF r

LEMMA InOrderKept ==
    ASSUME NEW V, NEW S
    PROVE  \A q \in Seq(V) : InOrder(q) => InOrder(Kept(q, S))
<1> DEFINE P == {q \in Seq(V) : InOrder(q) => InOrder(Kept(q, S))}
<1>1. <<>> \in P
  BY KeptEmpty, EmptySeq
<1>2. ASSUME NEW q \in Seq(V), NEW x \in V, q \in P PROVE Append(q, x) \in P
  <2> SUFFICES ASSUME InOrder(Append(q, x)) PROVE InOrder(Kept(Append(q, x), S))
    BY AppendProperties
  <2>1. InOrder(q) /\ \A h \in Members(q) : h.id < x.id
    BY InOrderAppend
  <2>2. /\ Kept(q, S) \in Seq(V) /\ InOrder(Kept(q, S))
        /\ \A h \in Members(Kept(q, S)) : h.id < x.id
    BY <1>2, <2>1, KeptMembers
  <2>3. InOrder(Append(Kept(q, S), x))
    BY <2>2, InOrderAppend
  <2> QED BY <2>2, <2>3, KeptAppend
<1> HIDE DEF P
<1>3. Seq(V) \subseteq P
  BY <1>1, <1>2, EverySequence
<1> QED BY <1>3 DEF P

LEMMA InOrderConcat ==
    ASSUME NEW V, NEW q \in Seq(V), NEW r \in Seq(V), InOrder(q), InOrder(r),
           \A h \in Members(q), k \in Members(r) : h.id < k.id
    PROVE  InOrder(q \o r)
<1> DEFINE n == Len(q)
           m == Len(r)
<1>1. /\ n \in Nat /\ m \in Nat /\ Len(q \o r) = n + m
      /\ \A i \in 1 .. (n + m) : (q \o r)[i] = IF i <= n THEN q[i] ELSE r[i - n]
  BY ConcatProperties
<1>2. \A i \in 1 .. n, j \in 1 .. m : q[i].id < r[j].id
  BY DEF Members
<1> SUFFICES ASSUME NEW i \in 1 .. (n + m), NEW j \in 1 .. (i - 1)
             PROVE  (q \o r)[j].id < (q \o r)[i].id
  BY <1>1 DEF InOrder
<1>3. \A k \in 1 .. n : \A l \in 1 .. (k - 1) : q[l].id < q[k].id
  BY DEF InOrder
<1>4. \A k \in 1 .. m : \A l \in 1 .. (k - 1) : r[l].id < r[k].id
  BY DEF InOrder
<1> HIDE DEF n, m
<1>5. CASE i <= n
  <2>1. i \in 1 .. n /\ j \in 1 .. (n + m) /\ j <= n
    BY <1>1, <1>5
  <2> QED BY <1>1, <1>3, <1>5, <2>1
<1>6. CASE ~(i <= n) /\ j <= n
  <2>1. j \in 1 .. n /\ j \in 1 .. (n + m) /\ i - n \in 1 .. m
    BY <1>1, <1>6
  <2> QED BY <1>1, <1>2, <1>6, <2>1
<1>7. CASE ~(i <= n) /\ ~(j <= n)
  <2>1. j \in 1 .. (n + m) /\ i - n \in 1 .. m /\ j - n \in 1 .. ((i - n) - 1)
    BY <1>1, <1>7
  <2> QED BY <1>1, <1>4, <1>7, <2>1
<1> QED BY <1>5, <1>6, <1>7

LEMMA InOrderDistinct ==
    ASSUME NEW q, Len(q) \in Nat, InOrder(q), \A h \in Members(q) : h.id \in Nat
    PROVE  \A i, j \in 1 .. Len(q) : q[i].id = q[j].id => i = j
<1> SUFFICES ASSUME NEW i \in 1 .. Len(q), NEW j \in 1 .. Len(q), i # j
             PROVE  q[i].id # q[j].id
  OBVIOUS
<1>1. i \in 1 .. (j - 1) \/ j \in 1 .. (i - 1)
  OBVIOUS
<1>2. q[i].id \in Nat /\ q[j].id \in Nat
  BY DEF Members
<1>3. q[i].id < q[j].id \/ q[j].id < q[i].id
  BY <1>1 DEF InOrder
<1> QED BY <1>2, <1>3

(***************************************************************************)
(* The handlers.  An id is in one list only, and the ids handed out with   *)
(* ++once handlers are in none.                                            *)
(***************************************************************************)
SoundHandlers(lists, next) ==
    /\ next \in Nat
    /\ lists \in [Events -> Seq(Handler)]
    /\ \A e \in Events : /\ InOrder(lists[e])
                         /\ \A h \in Members(lists[e]) : h.id < next
    /\ \A e, f \in Events : \A h \in Members(lists[e]), k \in Members(lists[f]) :
          h.id = k.id => e = f

UsedUp(lists, next, used) ==
    /\ used \in Seq(Nat)
    /\ \A i, j \in 1 .. Len(used) : used[i] = used[j] => i = j
    /\ \A x \in Members(used) :
          x < next /\ \A e \in Events : \A h \in Members(lists[e]) : h.id # x

LEMMA HandlerFacts == \A h \in Handler : h.id \in Nat
BY DEF Handler

\* Lists from which handlers have been taken.
LEMMA ThinnedIsSound ==
    ASSUME NEW lists, NEW next, SoundHandlers(lists, next),
           NEW fewer, fewer = [e \in Events |-> fewer[e]],
           \A e \in Events : \E S : fewer[e] = Kept(lists[e], S)
    PROVE  /\ SoundHandlers(fewer, next)
           /\ \A e \in Events : Members(fewer[e]) \subseteq Members(lists[e])
<1>1. ASSUME NEW e \in Events
      PROVE  /\ fewer[e] \in Seq(Handler)
             /\ Members(fewer[e]) \subseteq Members(lists[e])
             /\ InOrder(fewer[e])
  <2>1. lists[e] \in Seq(Handler) /\ InOrder(lists[e])
    BY DEF SoundHandlers
  <2>2. PICK S : fewer[e] = Kept(lists[e], S)
    OBVIOUS
  <2> QED BY <2>1, <2>2, KeptMembers, InOrderKept
<1>2. fewer \in [Events -> Seq(Handler)]
  BY <1>1
<1> QED BY <1>1, <1>2 DEF SoundHandlers

LEMMA ThinnedUsesNoMore ==
    ASSUME NEW lists, NEW next, NEW used, UsedUp(lists, next, used), NEW fewer,
           \A e \in Events : Members(fewer[e]) \subseteq Members(lists[e])
    PROVE  UsedUp(fewer, next, used)
BY DEF UsedUp

LEMMA ClearedFacts ==
    ASSUME NEW c, SoundHandlers(handlers, next_event_handler_id)
    PROVE  /\ SoundHandlers(Cleared(c), next_event_handler_id)
           /\ \A e \in Events : Members(Cleared(c)[e]) \subseteq Members(handlers[e])
<1> DEFINE none == [e \in Events |-> <<>>]
<1>1. handlers \in [Events -> Seq(Handler)]
  BY DEF SoundHandlers
<1>2. Cleared(c) = [e \in Events |-> Cleared(c)[e]]
  BY <1>1 DEF Cleared, WithoutGroup
<1>3. ASSUME NEW e \in Events PROVE \E S : Cleared(c)[e] = Kept(handlers[e], S)
  <2>0. handlers[e] \in Seq(Handler)
    BY <1>1
  <2>1. CASE ~c.bang
    <3>1. Kept(handlers[e], Handler) = handlers[e]
      BY <2>0, KeptAllOf, MembersFacts
    <3> QED BY <2>1, <3>1 DEF Cleared
  <2>2. CASE c.bang /\ current_augroup = NoGroup
    <3>1. Kept(handlers[e], {}) = <<>>
      BY <2>0, KeptNoneOf
    <3> QED BY <2>2, <3>1 DEF Cleared
  <2>3. CASE c.bang /\ current_augroup # NoGroup
    BY <2>3 DEF Cleared, WithoutGroup, OutsideGroup
  <2> QED BY <2>1, <2>2, <2>3
<1> QED BY <1>2, <1>3, ThinnedIsSound

\* The handlers of one :autocmd, which Registered gives ids in one row.
GivenHandlers(c, owner) == [i \in 1 .. Len(c.args.events) |-> NewHandler(c, owner, i)]
GivenFor(c, owner, e) ==
    {NewHandler(c, owner, i) : i \in {j \in 1 .. Len(c.args.events) : c.args.events[j] = e}}
NewIds(c) == next_event_handler_id .. (HandlerIds(c) - 1)

LEMMA RegisteredIs ==
    ASSUME NEW c, NEW owner, c.args.events \in Seq(Events)
    PROVE  Registered(c, owner) =
               [e \in Events |->
                   Kept(Cleared(c)[e], {h \in Members(Cleared(c)[e]) : h.id \notin NewIds(c)})
                     \o Kept(GivenHandlers(c, owner), GivenFor(c, owner, e))]
<1>1. \A e \in Events :
         {GivenHandlers(c, owner)[i] :
             i \in {j \in DOMAIN GivenHandlers(c, owner) : c.args.events[j] = e}}
           = GivenFor(c, owner, e)
  BY DEF GivenHandlers, GivenFor
<1> QED BY <1>1 DEF Registered, GivenHandlers, NewIds

LEMMA GivenFacts ==
    ASSUME NEW c, NEW owner \in Owners, IsCommand(c), c.name = "autocmd",
           next_event_handler_id \in Nat, current_augroup \in Groups \cup {NoGroup}
    PROVE  /\ GivenHandlers(c, owner) \in Seq(Handler)
           /\ InOrder(GivenHandlers(c, owner))
           /\ HandlerIds(c) \in Nat /\ next_event_handler_id <= HandlerIds(c)
           /\ \A i \in 1 .. Len(c.args.events) :
                 NewHandler(c, owner, i).id = next_event_handler_id + i - 1
           /\ \A h \in Members(GivenHandlers(c, owner)) :
                 h.id \in NewIds(c) /\ h.group = current_augroup
<1> DEFINE n == Len(c.args.events)
<1>1. n \in Nat /\ c.args.patterns \subseteq Patterns /\ c.args.once \in BOOLEAN
  BY DEF IsCommand
<1> HIDE DEF n
<1>2. ASSUME NEW i \in 1 .. n
      PROVE  /\ NewHandler(c, owner, i) \in Handler
             /\ NewHandler(c, owner, i).id = next_event_handler_id + i - 1
             /\ NewHandler(c, owner, i).group = current_augroup
             /\ NewHandler(c, owner, i).id \in next_event_handler_id ..
                                                 (next_event_handler_id + n - 1)
  BY <1>1 DEF NewHandler, Handler
<1>3. /\ GivenHandlers(c, owner) = [i \in 1 .. n |-> NewHandler(c, owner, i)]
      /\ HandlerIds(c) = next_event_handler_id + n
  BY DEF GivenHandlers, HandlerIds, n
<1>4. GivenHandlers(c, owner) \in Seq(Handler) /\ Len(GivenHandlers(c, owner)) = n
  BY <1>1, <1>2, <1>3
<1>5. InOrder(GivenHandlers(c, owner))
  BY <1>1, <1>2, <1>3, <1>4 DEF InOrder
<1>6. \A h \in Members(GivenHandlers(c, owner)) :
         h.id \in NewIds(c) /\ h.group = current_augroup
  <2> SUFFICES ASSUME NEW i \in 1 .. n
               PROVE  /\ GivenHandlers(c, owner)[i].id \in NewIds(c)
                      /\ GivenHandlers(c, owner)[i].group = current_augroup
    BY <1>4 DEF Members
  <2>1. GivenHandlers(c, owner)[i] = NewHandler(c, owner, i)
    BY <1>3
  <2>2. NewIds(c) = next_event_handler_id .. (next_event_handler_id + n - 1)
    BY <1>1, <1>3 DEF NewIds
  <2> QED BY <1>2, <2>1, <2>2
<1> QED BY <1>1, <1>2, <1>3, <1>4, <1>5, <1>6 DEF n

LEMMA RegisteredFacts ==
    ASSUME NEW c, NEW owner \in Owners, IsCommand(c), c.name = "autocmd",
           SoundHandlers(handlers, next_event_handler_id),
           current_augroup \in Groups \cup {NoGroup}
    PROVE  /\ SoundHandlers(Registered(c, owner), HandlerIds(c))
           /\ \A e \in Events :
                 /\ Registered(c, owner)[e] =
                        Cleared(c)[e] \o Kept(GivenHandlers(c, owner), GivenFor(c, owner, e))
                 /\ Members(Registered(c, owner)[e]) =
                        Members(Cleared(c)[e])
                          \cup (Members(GivenHandlers(c, owner)) \cap GivenFor(c, owner, e))
<1> DEFINE old == Cleared(c)
           given == GivenHandlers(c, owner)
           of(e) == GivenFor(c, owner, e)
           next == next_event_handler_id
<1>1. c.args.events \in Seq(Events) /\ next \in Nat
  BY DEF IsCommand, SoundHandlers
<1>2. /\ given \in Seq(Handler) /\ InOrder(given)
      /\ HandlerIds(c) \in Nat /\ next <= HandlerIds(c)
      /\ \A i \in 1 .. Len(c.args.events) : NewHandler(c, owner, i).id = next + i - 1
      /\ \A h \in Members(given) : h.id \in next .. (HandlerIds(c) - 1)
  BY <1>1, GivenFacts DEF NewIds
<1>3. SoundHandlers(old, next)
  BY ClearedFacts
<1>4. ASSUME NEW e \in Events
      PROVE  /\ Registered(c, owner)[e] = old[e] \o Kept(given, of(e))
             /\ Registered(c, owner)[e] \in Seq(Handler)
             /\ Members(Registered(c, owner)[e]) =
                    Members(old[e]) \cup (Members(given) \cap of(e))
             /\ InOrder(Registered(c, owner)[e])
             /\ \A h \in Members(Registered(c, owner)[e]) : h.id < HandlerIds(c)
  <2>1. /\ old[e] \in Seq(Handler) /\ InOrder(old[e])
        /\ \A h \in Members(old[e]) : h.id < next /\ h.id \in Nat
    BY <1>3, MembersFacts, HandlerFacts DEF SoundHandlers
  <2>2. Kept(old[e], {h \in Members(old[e]) : h.id \notin NewIds(c)}) = old[e]
    <3>1. Members(old[e]) \subseteq {h \in Members(old[e]) : h.id \notin NewIds(c)}
      BY <1>1, <2>1 DEF NewIds
    <3> QED BY <2>1, <3>1, KeptAllOf
  <2>3. Registered(c, owner)[e] = old[e] \o Kept(given, of(e))
    <3>1. Registered(c, owner) =
              [g \in Events |->
                  Kept(old[g], {h \in Members(old[g]) : h.id \notin NewIds(c)})
                    \o Kept(given, of(g))]
      BY <1>1, RegisteredIs
    <3> QED BY <2>2, <3>1
  <2>4. /\ Kept(given, of(e)) \in Seq(Handler)
        /\ Members(Kept(given, of(e))) = Members(given) \cap of(e)
        /\ InOrder(Kept(given, of(e)))
    BY <1>2, KeptMembers, InOrderKept
  <2> HIDE DEF old, given, of
  <2>5. \A h \in Members(given) : next <= h.id /\ h.id < HandlerIds(c) /\ h.id \in Nat
    BY <1>1, <1>2
  <2>6. InOrder(old[e] \o Kept(given, of(e)))
    <3>1. \A h \in Members(old[e]), k \in Members(Kept(given, of(e))) : h.id < k.id
      BY <1>1, <2>1, <2>4, <2>5
    <3> QED BY <2>1, <2>4, <3>1, InOrderConcat
  <2>7. old[e] \o Kept(given, of(e)) \in Seq(Handler)
    BY <2>1, <2>4, ConcatProperties
  <2>8. Members(old[e] \o Kept(given, of(e))) =
            Members(old[e]) \cup Members(Kept(given, of(e)))
    BY <2>1, <2>4, MembersFacts
  <2>9. \A h \in Members(old[e]) : h.id < HandlerIds(c)
    BY <1>1, <1>2, <2>1
  <2> QED BY <2>3, <2>4, <2>5, <2>6, <2>7, <2>8, <2>9
<1>5. Registered(c, owner) = [e \in Events |-> Registered(c, owner)[e]]
  BY <1>1, RegisteredIs
<1>6. ASSUME NEW e \in Events, NEW f \in Events,
             NEW h \in Members(Registered(c, owner)[e]),
             NEW k \in Members(Registered(c, owner)[f]), h.id = k.id
      PROVE  e = f
  <2>1. \A g \in Events : \A x \in Members(old[g]) : x.id < next /\ x.id \in Nat
    BY <1>3, MembersFacts, HandlerFacts DEF SoundHandlers
  <2>2. \A x \in Members(given) : next <= x.id /\ x.id \in Nat
    BY <1>1, <1>2
  <2>3. CASE h \in Members(old[e]) /\ k \in Members(old[f])
    BY <1>3, <1>6, <2>3 DEF SoundHandlers
  <2>4. CASE h \in of(e) /\ k \in of(f)
    <3>1. PICK i \in 1 .. Len(c.args.events) :
              h = NewHandler(c, owner, i) /\ c.args.events[i] = e
      BY <2>4 DEF GivenFor
    <3>2. PICK j \in 1 .. Len(c.args.events) :
              k = NewHandler(c, owner, j) /\ c.args.events[j] = f
      BY <2>4 DEF GivenFor
    <3>3. i = j
      BY <1>1, <1>2, <1>6, <3>1, <3>2
    <3> QED BY <3>1, <3>2, <3>3
  <2> HIDE DEF old, given, of, next
  <2>5. CASE h \in Members(old[e]) /\ k \in Members(given)
    BY <1>1, <1>6, <2>1, <2>2, <2>5
  <2>6. CASE h \in Members(given) /\ k \in Members(old[f])
    BY <1>1, <1>6, <2>1, <2>2, <2>6
  <2> QED BY <1>4, <1>6, <2>3, <2>4, <2>5, <2>6
<1>7. Registered(c, owner) \in [Events -> Seq(Handler)]
  <2>1. \A e \in Events : Registered(c, owner)[e] \in Seq(Handler)
    BY <1>4
  <2> QED BY <1>5, <2>1
<1>8. SoundHandlers(Registered(c, owner), HandlerIds(c))
  <2>1. \A e \in Events : /\ InOrder(Registered(c, owner)[e])
                         /\ \A h \in Members(Registered(c, owner)[e]) : h.id < HandlerIds(c)
    BY <1>4
  <2> QED BY <1>2, <1>6, <1>7, <2>1 DEF SoundHandlers
<1> QED BY <1>4, <1>8

LEMMA RegisteredUsesNoMore ==
    ASSUME NEW c, NEW owner \in Owners, IsCommand(c), c.name = "autocmd",
           SoundHandlers(handlers, next_event_handler_id),
           current_augroup \in Groups \cup {NoGroup},
           UsedUp(handlers, next_event_handler_id, consumed)
    PROVE  UsedUp(Registered(c, owner), HandlerIds(c), consumed)
<1>1. /\ next_event_handler_id \in Nat /\ consumed \in Seq(Nat)
      /\ \A x \in Members(consumed) : x \in Nat
  BY MembersFacts DEF SoundHandlers, UsedUp
<1>2. /\ HandlerIds(c) \in Nat /\ next_event_handler_id <= HandlerIds(c)
      /\ \A h \in Members(GivenHandlers(c, owner)) :
            h.id \in next_event_handler_id .. (HandlerIds(c) - 1)
  BY <1>1, GivenFacts DEF NewIds
<1>3. \A e \in Events :
         Members(Registered(c, owner)[e])
           \subseteq Members(handlers[e]) \cup Members(GivenHandlers(c, owner))
  <2>1. \A e \in Events : Members(Cleared(c)[e]) \subseteq Members(handlers[e])
    BY ClearedFacts
  <2>2. \A e \in Events :
           Members(Registered(c, owner)[e]) =
               Members(Cleared(c)[e])
                 \cup (Members(GivenHandlers(c, owner)) \cap GivenFor(c, owner, e))
    BY RegisteredFacts
  <2> QED BY <2>1, <2>2
<1>4. ASSUME NEW x \in Members(consumed)
      PROVE  /\ x < HandlerIds(c)
             /\ \A e \in Events : \A h \in Members(Registered(c, owner)[e]) : h.id # x
  <2>1. x < next_event_handler_id /\ x \in Nat
    BY <1>1 DEF UsedUp
  <2>2. ASSUME NEW e \in Events, NEW h \in Members(Registered(c, owner)[e])
        PROVE  h.id # x
    <3>1. CASE h \in Members(handlers[e])
      BY <3>1 DEF UsedUp
    <3>2. CASE h \in Members(GivenHandlers(c, owner))
      BY <1>1, <1>2, <2>1, <3>2
    <3> QED BY <1>3, <3>1, <3>2
  <2> QED BY <1>1, <1>2, <2>1, <2>2
<1> QED BY <1>4 DEF UsedUp

\* In a group, neither clearing nor registering touches another group's
\* handlers.
LEMMA OtherGroupsKept ==
    ASSUME NEW c, NEW owner \in Owners, IsCommand(c), c.name = "autocmd",
           SoundHandlers(handlers, next_event_handler_id),
           current_augroup \in Groups, current_augroup # NoGroup, NEW e \in Events
    PROVE  /\ OutsideGroup(Cleared(c)[e], current_augroup)
                = OutsideGroup(handlers[e], current_augroup)
           /\ OutsideGroup(Registered(c, owner)[e], current_augroup)
                = OutsideGroup(handlers[e], current_augroup)
<1> DEFINE g == current_augroup
           others(list) == {h \in Members(list) : h.group # g}
           list == handlers[e]
           old == Cleared(c)[e]
           new == Kept(GivenHandlers(c, owner), GivenFor(c, owner, e))
<1>1. list \in Seq(Handler) /\ next_event_handler_id \in Nat
  BY DEF SoundHandlers
<1>2. /\ old \in Seq(Handler)
      /\ Registered(c, owner)[e] = old \o new
  <2>1. SoundHandlers(Cleared(c), next_event_handler_id)
    BY ClearedFacts
  <2>2. Registered(c, owner)[e] =
            Cleared(c)[e] \o Kept(GivenHandlers(c, owner), GivenFor(c, owner, e))
    BY RegisteredFacts
  <2> QED BY <2>1, <2>2 DEF SoundHandlers
<1>3. /\ GivenHandlers(c, owner) \in Seq(Handler)
      /\ \A h \in Members(GivenHandlers(c, owner)) : h.group = g
  BY <1>1, GivenFacts
<1>4. /\ new \in Seq(Handler)
      /\ \A h \in Members(new) : h.group = g
  BY <1>3, KeptMembers
<1>5. OutsideGroup(old, g) = OutsideGroup(list, g)
  <2>1. CASE ~c.bang
    BY <2>1 DEF Cleared
  <2>2. CASE c.bang
    <3>1. old = Kept(list, others(list))
      BY <2>2 DEF Cleared, WithoutGroup, OutsideGroup
    <3>2. Members(old) = others(list)
      BY <1>1, <3>1, KeptMembers
    <3>3. Kept(old, others(old)) = Kept(list, others(list) \cap others(old))
      <4>1. Kept(Kept(list, others(list)), others(old)) =
                Kept(list, others(list) \cap others(old))
        <5> HIDE DEF list, others, old
        <5> QED BY <1>1, KeptOfKept
      <4> QED BY <3>1, <4>1
    <3>4. others(list) \cap others(old) = others(list)
      BY <3>2
    <3> QED BY <3>3, <3>4 DEF OutsideGroup
  <2> QED BY <2>1, <2>2
<1>6. OutsideGroup(old \o new, g) = OutsideGroup(old, g)
  <2>1. Members(old \o new) = Members(old) \cup Members(new)
    BY <1>2, <1>4, MembersFacts
  <2>2. others(old \o new) = others(old)
    BY <1>4, <2>1
  <2>3. Kept(old \o new, others(old)) = Kept(old, others(old)) \o Kept(new, others(old))
    BY <1>2, <1>4, KeptOfConcat
  <2>4. Kept(new, others(old)) = <<>>
    <3>1. Members(new) \cap others(old) = {}
      BY <1>4
    <3> QED BY <1>4, <3>1, KeptNoneOf
  <2>5. Kept(old, others(old)) \in Seq(Handler)
    BY <1>2, KeptMembers
  <2>6. Kept(old, others(old)) \o <<>> = Kept(old, others(old))
    BY <2>5, ConcatEmptySeq
  <2> QED BY <2>2, <2>3, <2>4, <2>6 DEF OutsideGroup
<1> QED BY <1>2, <1>5, <1>6

\* What a command of a script or of the embedding program does to the handlers.
LEMMA CommandHandles ==
    ASSUME NEW c, NEW owner \in Owners, NEW buffer, IsCommand(c),
           Command(c, owner, buffer),
           SoundHandlers(handlers, next_event_handler_id),
           current_augroup \in Groups \cup {NoGroup}
    PROVE  /\ SoundHandlers(handlers', next_event_handler_id')
           /\ UNCHANGED consumed
           /\ UsedUp(handlers, next_event_handler_id, consumed)
                => UsedUp(handlers', next_event_handler_id', consumed)
           /\ current_augroup # NoGroup =>
                \A e \in Events : OutsideGroup(handlers'[e], current_augroup)
                                   = OutsideGroup(handlers[e], current_augroup)
<1>1. CASE UNCHANGED <<handlers, next_event_handler_id, consumed>>
  BY <1>1
<1>2. CASE c.name = "autocmd" /\ Autocmd(c, owner)
  <2>1. UNCHANGED consumed
    BY <1>2 DEF Autocmd
  <2>2. CASE c.args.given = "all"
    <3>1. handlers' = Registered(c, owner) /\ next_event_handler_id' = HandlerIds(c)
      BY <1>2, <2>2 DEF Autocmd
    <3>2. current_augroup # NoGroup => current_augroup \in Groups
      OBVIOUS
    <3> QED BY <1>2, <2>1, <3>1, <3>2, RegisteredFacts, RegisteredUsesNoMore,
               OtherGroupsKept
  <2>3. CASE c.args.given # "all"
    <3>1. handlers' = Cleared(c) /\ next_event_handler_id' = next_event_handler_id
      BY <1>2, <2>3 DEF Autocmd
    <3>2. current_augroup # NoGroup => current_augroup \in Groups
      OBVIOUS
    <3> QED BY <1>2, <2>1, <3>1, <3>2, ClearedFacts, ThinnedUsesNoMore, OtherGroupsKept
  <2> QED BY <2>2, <2>3
<1>3. CASE ~Autocmd(c, owner)
  <2>1. UNCHANGED <<handlers, next_event_handler_id, consumed>>
    BY <1>3 DEF Command, DefineUserCommand, DeleteUserCommand, Augroup, MapKeys,
       RunCommand, CallFunction, AccessOption, Refuse, registries
  <2> QED BY <1>1, <2>1
<1> QED BY <1>2, <1>3 DEF Autocmd

\* A firing takes the ++once handlers it hands out.
LEMMA FireHandles ==
    ASSUME NEW e \in Events, NEW subject \in Subjects, FireEvent(e, subject),
           SoundHandlers(handlers, next_event_handler_id),
           UsedUp(handlers, next_event_handler_id, consumed)
    PROVE  /\ SoundHandlers(handlers', next_event_handler_id')
           /\ UsedUp(handlers', next_event_handler_id', consumed')
<1> DEFINE list  == handlers[e]
           given == Handed(e, subject)
           once  == Kept(given, {h \in Members(given) : h.once})
           ids   == [i \in 1 .. Len(once) |-> once[i].id]
           next  == next_event_handler_id
<1>1. /\ handlers' = [handlers EXCEPT ![e] = Retained(e, subject)]
      /\ consumed' = consumed \o ids
      /\ next_event_handler_id' = next
  BY DEF FireEvent
<1>2. /\ handlers \in [Events -> Seq(Handler)] /\ list \in Seq(Handler)
      /\ InOrder(list) /\ next \in Nat /\ consumed \in Seq(Nat)
      /\ \A h \in Members(list) : h.id < next /\ h.id \in Nat
  BY MembersFacts, HandlerFacts DEF SoundHandlers, UsedUp
<1>3. /\ handlers' = [f \in Events |-> handlers'[f]]
      /\ \A f \in Events : handlers'[f] = IF f = e THEN Retained(e, subject) ELSE handlers[f]
  BY <1>1, <1>2
<1>4. ASSUME NEW f \in Events PROVE \E S : handlers'[f] = Kept(handlers[f], S)
  <2>1. CASE f = e
    BY <1>3, <2>1 DEF Retained
  <2>2. CASE f # e
    <3>1. Members(handlers[f]) \subseteq Handler /\ handlers[f] \in Seq(Handler)
      BY <1>2, MembersFacts
    <3>2. Kept(handlers[f], Handler) = handlers[f]
      BY <3>1, KeptAllOf
    <3> QED BY <1>3, <2>2, <3>2
  <2> QED BY <2>1, <2>2
<1>5. /\ SoundHandlers(handlers', next)
      /\ \A f \in Events : Members(handlers'[f]) \subseteq Members(handlers[f])
  <2> DEFINE fewer == handlers'
  <2>1. fewer = [f \in Events |-> fewer[f]] /\ \A f \in Events : \E S : fewer[f] = Kept(handlers[f], S)
    BY <1>3, <1>4
  <2> HIDE DEF fewer
  <2>2. /\ SoundHandlers(fewer, next)
        /\ \A f \in Events : Members(fewer[f]) \subseteq Members(handlers[f])
    BY <2>1, ThinnedIsSound
  <2> QED BY <2>2 DEF fewer
<1>6. /\ given \in Seq(Handler) /\ InOrder(given)
      /\ Members(given) = Members(list) \cap Affected(e, subject)
  BY <1>2, KeptMembers, InOrderKept DEF Handed
<1>7. /\ once \in Seq(Handler) /\ InOrder(once)
      /\ Members(once) = Members(given) \cap {h \in Members(given) : h.once}
  BY <1>6, KeptMembers, InOrderKept
<1>8. \A h \in Members(once) :
         h \in Members(list) /\ h \in Affected(e, subject) /\ h.once /\ h.id < next /\ h.id \in Nat
  BY <1>2, <1>6, <1>7
<1>9. Members(handlers'[e]) =
          Members(list) \cap {h \in Members(list) : ~(h.once /\ h \in Affected(e, subject))}
  BY <1>2, <1>3, KeptMembers DEF Retained
<1>10. ASSUME NEW h \in Members(list), NEW k \in Members(list), h.id = k.id PROVE h = k
  <2>1. PICK i \in 1 .. Len(list) : h = list[i]
    BY DEF Members
  <2>2. PICK j \in 1 .. Len(list) : k = list[j]
    BY DEF Members
  <2>3. i = j
    BY <1>2, <1>10, <2>1, <2>2, InOrderDistinct
  <2> QED BY <2>1, <2>2, <2>3
<1>11. /\ Len(once) \in Nat
       /\ \A i \in 1 .. Len(once) : once[i] \in Members(once)
       /\ \A i, j \in 1 .. Len(once) : once[i].id = once[j].id => i = j
  <2>1. Len(once) \in Nat
    BY <1>7, LenProperties
  <2> QED BY <1>7, <1>8, <2>1, InOrderDistinct DEF Members
<1> HIDE DEF list, given, once
<1>12. /\ ids \in Seq(Nat) /\ Len(ids) = Len(once)
       /\ \A i \in 1 .. Len(once) : ids[i] = once[i].id
  BY <1>8, <1>11
<1>13. \A x \in Members(ids) : \E h \in Members(once) : x = h.id
  BY <1>11, <1>12 DEF Members
<1> HIDE DEF ids, next
<1>14. \A x \in Members(consumed) : \A h \in Members(list) : h.id # x
  BY DEF UsedUp, list
<1>15. ASSUME NEW h \in Members(once), NEW f \in Events, NEW k \in Members(handlers'[f])
       PROVE  k.id # h.id
  <2>1. CASE f = e
    BY <1>8, <1>9, <1>10, <2>1
  <2>2. CASE f # e
    <3>1. h \in Members(handlers[e]) /\ k \in Members(handlers[f])
      BY <1>5, <1>8 DEF list
    <3> QED BY <2>2, <3>1 DEF SoundHandlers
  <2> QED BY <2>1, <2>2
<1>16. UsedUp(handlers', next, consumed')
  <2>1. consumed' \in Seq(Nat) /\ Members(consumed') = Members(consumed) \cup Members(ids)
    BY <1>1, <1>2, <1>12, ConcatProperties, MembersFacts
  <2>2. ASSUME NEW x \in Members(consumed')
        PROVE  x < next /\ \A f \in Events : \A k \in Members(handlers'[f]) : k.id # x
    <3>1. CASE x \in Members(consumed)
      BY <1>5, <3>1 DEF UsedUp, next
    <3>2. CASE x \in Members(ids)
      BY <1>8, <1>13, <1>15, <3>2
    <3> QED BY <2>1, <3>1, <3>2
  <2>3. ASSUME NEW i \in 1 .. Len(consumed'), NEW j \in 1 .. Len(consumed'),
               consumed'[i] = consumed'[j]
        PROVE  i = j
    <3> DEFINE n == Len(consumed)
               m == Len(ids)
    <3>1. /\ n \in Nat /\ m \in Nat /\ Len(consumed') = n + m
          /\ \A k \in 1 .. (n + m) :
                consumed'[k] = IF k <= n THEN consumed[k] ELSE ids[k - n]
      <4>1. consumed \in Seq(Nat) /\ ids \in Seq(Nat) /\ consumed' = consumed \o ids
        BY <1>1, <1>2, <1>12
      <4>2. /\ Len(consumed \o ids) = Len(consumed) + Len(ids)
            /\ \A k \in 1 .. Len(consumed) + Len(ids) :
                  (consumed \o ids)[k] =
                      IF k <= Len(consumed) THEN consumed[k] ELSE ids[k - Len(consumed)]
        BY <4>1, ConcatProperties
      <4>3. n \in Nat /\ m \in Nat
        BY <4>1, LenProperties
      <4> QED BY <4>1, <4>2, <4>3
    <3>2. \A k \in 1 .. n : consumed[k] \in Members(consumed)
      BY DEF Members
    <3>3. \A k \in 1 .. n, l \in 1 .. m : consumed[k] # ids[l]
      BY <1>8, <1>11, <1>12, <1>14, <3>2
    <3>4. \A k, l \in 1 .. n : consumed[k] = consumed[l] => k = l
      BY DEF UsedUp
    <3>5. \A k, l \in 1 .. m : ids[k] = ids[l] => k = l
      BY <1>11, <1>12
    <3> HIDE DEF n, m
    <3>6. \A k \in 1 .. (n + m) : (k \in 1 .. n /\ k <= n) \/ (k - n \in 1 .. m /\ ~(k <= n))
      BY <3>1
    <3>7. i \in 1 .. (n + m) /\ j \in 1 .. (n + m)
      BY <3>1
    <3> QED BY <2>3, <3>1, <3>3, <3>4, <3>5, <3>6, <3>7
  <2> QED BY <2>1, <2>2, <2>3 DEF UsedUp
<1> QED BY <1>1, <1>5, <1>16

(***************************************************************************)
(* Commands and their expansion.                                           *)
(***************************************************************************)
CommandsByName == [UserNames -> UserCommand \cup {NoCommand}]

Expansion(prev) ==
    IF prev = Unexpandable \/ ~IsUserCommand(prev.name) THEN prev
    ELSE IF Expandable(user_commands[prev.name], prev)
    THEN Expanded(user_commands[prev.name], prev)
    ELSE Unexpandable

\* What comes of a command: itself, a native's or user command's invocation
\* from a template, or none.
Invocations(c) ==
    {c, Unexpandable} \cup [name : STRING, bang : BOOLEAN, args : {c.args} \cup Nat]

LEMMA ExpansionType ==
    ASSUME user_commands \in CommandsByName, NEW c, c.bang \in BOOLEAN
    PROVE  \A x \in Invocations(c) : Expansion(x) \in Invocations(c)
<1> SUFFICES ASSUME NEW x \in Invocations(c), x # Unexpandable, IsUserCommand(x.name)
             PROVE  Expanded(user_commands[x.name], x) \in Invocations(c)
  BY DEF Expansion, Invocations
<1> DEFINE d == user_commands[x.name]
<1>1. d \in UserCommand
  BY DEF IsUserCommand, CommandsByName
<1>2. x.bang \in BOOLEAN /\ x.args \in {c.args} \cup Nat
  BY DEF Invocations
<1>3. d.runs \in STRING /\ d.passes_bang \in BOOLEAN /\ d.args \in Nat
  BY <1>1 DEF UserCommand
<1> HIDE DEF d
<1>4. (d.passes_bang /\ x.bang) \in BOOLEAN
  BY <1>2, <1>3
<1>5. (IF d.passes_args THEN x.args ELSE d.args) \in {c.args} \cup Nat
  BY <1>2, <1>3
<1>6. Expanded(d, x) \in [name : STRING, bang : BOOLEAN, args : {c.args} \cup Nat]
  BY <1>3, <1>4, <1>5 DEF Expanded
<1> QED BY <1>6 DEF Invocations, d

LEMMA PreparedType ==
    ASSUME user_commands \in CommandsByName, NEW c, c.bang \in BOOLEAN
    PROVE  Prepared(c) \in Invocations(c)
<1> DEFINE m == MaxExpansions - 1
           body(g) == [n \in 0 .. (MaxExpansions - 1) |->
                         IF n = 0 THEN c
                         ELSE LET prev == g[n - 1] IN
                              IF prev = Unexpandable \/ ~IsUserCommand(prev.name) THEN prev
                              ELSE IF Expandable(user_commands[prev.name], prev)
                              THEN Expanded(user_commands[prev.name], prev)
                              ELSE Unexpandable]
           after == CHOOSE g : g = body(g)
           X == Invocations(c)
           step == [x \in (1 .. m) \X X |-> Expansion(x[2])]
<1>1. m \in Nat /\ c \in X /\ Unexpandable \in X
  BY HostAssumption DEF Invocations
<1>2. \A i \in 1 .. m, x \in X : step[<<i, x>>] = Expansion(x) /\ Expansion(x) \in X
  BY ExpansionType
<1>3. step \in [(1 .. m) \X X -> X]
  BY <1>2
<1>4. \A g : body(g) = [n \in 0 .. m |-> IF n = 0 THEN c ELSE Expansion(g[n - 1])]
  BY DEF Expansion
<1>5. Prepared(c) = IF IsUserCommand(after[m].name) THEN Unexpandable ELSE after[m]
  BY DEF Prepared
<1> HIDE DEF m, X, step
<1>6. PICK g \in [0 .. m -> X] : Recursive(g, m, c, step)
  BY <1>1, <1>3, RecursionExists
<1>7. g = body(g)
  <2> DEFINE b == [n \in 0 .. m |-> IF n = 0 THEN c ELSE Expansion(g[n - 1])]
  <2>1. ASSUME NEW n \in 0 .. m PROVE g[n] = b[n]
    <3>1. CASE n = 0
      BY <1>6, <3>1 DEF Recursive
    <3>2. CASE n # 0
      <4>1. n \in 1 .. m /\ n - 1 \in 0 .. m /\ g[n - 1] \in X
        BY <1>1, <3>2
      <4>2. g[n] = step[<<n, g[n - 1]>>]
        BY <1>6, <4>1 DEF Recursive
      <4> QED BY <1>2, <3>2, <4>1, <4>2
    <3> QED BY <3>1, <3>2
  <2>2. g = b
    <3>1. DOMAIN b = 0 .. m /\ b = [n \in 0 .. m |-> b[n]] /\ g = [n \in 0 .. m |-> g[n]]
      OBVIOUS
    <3> HIDE DEF b
    <3> QED BY <2>1, <3>1
  <2> QED BY <1>4, <2>2
<1> HIDE DEF body
<1>8. after = body(after)
  BY <1>7
<1> HIDE DEF after
<1>9. after = [n \in 0 .. m |-> IF n = 0 THEN c ELSE Expansion(after[n - 1])]
  BY <1>4, <1>8
<1> DEFINE P == {n \in Nat : n <= m => after[n] \in X}
<1>10. 0 \in P
  BY <1>1, <1>9
<1>11. ASSUME NEW n \in Nat, n \in P PROVE n + 1 \in P
  <2> SUFFICES ASSUME n + 1 <= m PROVE after[n + 1] \in X
    OBVIOUS
  <2>1. n + 1 \in 0 .. m /\ n + 1 # 0 /\ (n + 1) - 1 = n /\ after[n] \in X
    BY <1>1, <1>11
  <2>2. after[n + 1] = Expansion(after[n])
    BY <1>9, <2>1
  <2> QED BY <2>1, <2>2, ExpansionType DEF X
<1>12. Nat \subseteq P
  <2> HIDE DEF P
  <2> QED BY <1>10, <1>11, EveryNumber
<1>13. after[m] \in X
  BY <1>1, <1>12
<1> QED BY <1>1, <1>5, <1>13 DEF X

\* The types of what the handlers' lemmas leave out.
Keymaps == [(Buffers \cup {NoBuffer}) \X Modes \X Keys -> Mapping \cup {NoMapping}]

TypedRegistries ==
    /\ user_commands \in CommandsByName
    /\ keymaps \in Keymaps
    /\ current_augroup \in Groups \cup {NoGroup}
    /\ next_mapping_id \in Nat

TypedAnswers ==
    /\ sent \subseteq [name : STRING, bang : BOOLEAN]
    /\ answer \in {"none", "waiting", "ok", "error"}

LEMMA CommandTypes ==
    ASSUME NEW c, NEW owner \in Owners, NEW buffer, IsCommand(c),
           Command(c, owner, buffer), TypedRegistries, TypedAnswers
    PROVE  TypedRegistries' /\ TypedAnswers'
<1>1. CASE Refuse
  BY <1>1 DEF Refuse, registries, TypedRegistries, TypedAnswers
<1>2. CASE DefineUserCommand(c, owner) /\ ~Refuse
  <2>1. /\ c.args.definition \in Definition
        /\ user_commands' = [user_commands EXCEPT ![c.args.defines] =
                                 Owned(c.args.definition, owner)]
        /\ answer' = "ok"
        /\ UNCHANGED <<keymaps, current_augroup, next_mapping_id, sent>>
    BY <1>2 DEF DefineUserCommand, Definable, IsCommand
  <2>2. Owned(c.args.definition, owner) \in UserCommand
    BY <2>1 DEF Owned, UserCommand, Definition
  <2>3. user_commands' \in CommandsByName
    BY <2>1, <2>2 DEF CommandsByName, TypedRegistries
  <2> QED BY <2>1, <2>3 DEF TypedRegistries, TypedAnswers
<1>3. CASE DeleteUserCommand(c) /\ ~Refuse
  <2>1. /\ user_commands' = [user_commands EXCEPT ![c.args.deletes] = NoCommand]
        /\ answer' = "ok"
        /\ UNCHANGED <<keymaps, current_augroup, next_mapping_id, sent>>
    BY <1>3 DEF DeleteUserCommand
  <2>2. user_commands' \in CommandsByName
    BY <2>1 DEF CommandsByName, TypedRegistries
  <2> QED BY <2>1, <2>2 DEF TypedRegistries, TypedAnswers
<1>4. CASE Augroup(c) /\ ~Refuse
  <2>1. /\ c.args \in Groups \cup {"END"}
        /\ current_augroup' = IF c.args = "END" THEN NoGroup ELSE c.args
        /\ answer' = "ok"
        /\ UNCHANGED <<user_commands, keymaps, next_mapping_id, sent>>
    BY <1>4 DEF Augroup, IsCommand
  <2> QED BY <2>1 DEF TypedRegistries, TypedAnswers
<1>5. CASE Autocmd(c, owner)
  BY <1>5 DEF Autocmd, TypedRegistries, TypedAnswers
<1>6. CASE MapKeys(c, owner, buffer) /\ ~Refuse
  <2> DEFINE target == IF c.args.local THEN buffer ELSE NoBuffer
             cells == {target} \X ModesOf(c.args.prefix) \X {c.args.lhs}
             new == [owner |-> owner, id |-> next_mapping_id]
  <2>1. /\ keymaps' = [k \in DOMAIN keymaps |-> IF k \in cells THEN new ELSE keymaps[k]]
        /\ next_mapping_id' = next_mapping_id + 1
        /\ answer' = "ok"
        /\ UNCHANGED <<user_commands, current_augroup, sent>>
    BY <1>6 DEF MapKeys
  <2>2. new \in Mapping
    BY DEF Mapping, TypedRegistries
  <2> HIDE DEF cells, new
  <2>3. keymaps' \in Keymaps
    BY <2>1, <2>2 DEF Keymaps, TypedRegistries
  <2> QED BY <2>1, <2>3 DEF TypedRegistries, TypedAnswers
<1>7. CASE RunCommand(c) /\ ~Refuse
  <2>1. /\ Prepared(c) # Unexpandable /\ Accepted(Prepared(c))
        /\ sent' = sent \cup {[name |-> CHOOSE n \in Resolved(Prepared(c).name) : TRUE,
                              bang |-> Prepared(c).bang]}
        /\ answer' = "waiting"
        /\ UNCHANGED registries
    BY <1>7 DEF RunCommand
  <2>2. PICK n \in Natives : Resolved(Prepared(c).name) = {n}
    BY <2>1 DEF Accepted
  <2>3. (CHOOSE m \in {n} : TRUE) = n
    OBVIOUS
  <2>4. Prepared(c).bang \in BOOLEAN
    <3>1. c.bang \in BOOLEAN /\ user_commands \in CommandsByName
      BY DEF IsCommand, TypedRegistries
    <3>2. Prepared(c) \in Invocations(c)
      BY <3>1, PreparedType
    <3> QED BY <2>1, <3>1, <3>2 DEF Invocations
  <2>5. n \in STRING
    BY HostAssumption
  <2>6. sent' = sent \cup {[name |-> n, bang |-> Prepared(c).bang]}
    BY <2>1, <2>2, <2>3
  <2>7. [name |-> n, bang |-> Prepared(c).bang] \in [name : STRING, bang : BOOLEAN]
    BY <2>4, <2>5
  <2> QED BY <2>1, <2>6, <2>7 DEF registries, TypedRegistries, TypedAnswers
<1>8. CASE CallFunction(c) /\ ~Refuse
  <2>1. /\ c.args.function \in STRING
        /\ sent' = sent \cup {[name |-> c.args.function, bang |-> FALSE]}
        /\ answer' = "waiting"
        /\ UNCHANGED registries
    BY <1>8, HostAssumption DEF CallFunction, Callable
  <2>2. [name |-> c.args.function, bang |-> FALSE] \in [name : STRING, bang : BOOLEAN]
    BY <2>1
  <2> QED BY <2>1, <2>2 DEF registries, TypedRegistries, TypedAnswers
<1>9. CASE AccessOption(c) /\ ~Refuse
  <2>1. /\ Option \in Permitted
        /\ sent' = sent \cup {[name |-> Option, bang |-> FALSE]}
        /\ answer' = "waiting"
        /\ UNCHANGED registries
    BY <1>9 DEF AccessOption
  <2>2. [name |-> Option, bang |-> FALSE] \in [name : STRING, bang : BOOLEAN]
    <3>1. Option \in STRING
      BY HostAssumption
    <3> QED BY <3>1
  <2> QED BY <2>1, <2>2 DEF registries, TypedRegistries, TypedAnswers
<1> QED
  BY <1>1, <1>2, <1>3, <1>4, <1>5, <1>6, <1>7, <1>8, <1>9 DEF Command

(***************************************************************************)
(* Whose registrations there are.                                          *)
(***************************************************************************)
OwnersOf(commands, maps, lists) ==
    {commands[u].owner : u \in UserNames}
      \cup {maps[k].owner : k \in DOMAIN maps}
      \cup UNION {{h.owner : h \in Members(lists[e])} : e \in Events}

LEMMA CommandLeaves ==
    ASSUME NEW c, NEW owner \in Owners, NEW buffer, IsCommand(c),
           Command(c, owner, buffer), TypedRegistries,
           SoundHandlers(handlers, next_event_handler_id)
    PROVE  OwnersOf(user_commands', keymaps', handlers')
             \subseteq OwnersOf(user_commands, keymaps, handlers) \cup {owner, "nobody"}
<1> DEFINE names(f) == {f[u].owner : u \in UserNames}
           keys(f)  == {f[k].owner : k \in DOMAIN f}
           lists(f) == UNION {{h.owner : h \in Members(f[e])} : e \in Events}
           more == {owner, "nobody"}
<1>1. ASSUME names(user_commands') \subseteq names(user_commands) \cup more,
             keys(keymaps') \subseteq keys(keymaps) \cup more,
             lists(handlers') \subseteq lists(handlers) \cup more
      PROVE  OwnersOf(user_commands', keymaps', handlers')
               \subseteq OwnersOf(user_commands, keymaps, handlers) \cup more
  BY <1>1 DEF OwnersOf
<1> HIDE DEF names, keys, lists
<1>2. CASE UNCHANGED <<user_commands, keymaps, handlers>>
  BY <1>1, <1>2
<1>3. ASSUME \A v \in UserNames : \/ user_commands'[v] = user_commands[v]
                                   \/ user_commands'[v].owner \in more
      PROVE  names(user_commands') \subseteq names(user_commands) \cup more
  BY <1>3 DEF names
<1>4. CASE DefineUserCommand(c, owner) /\ ~UNCHANGED user_commands
  <2>1. /\ user_commands' = [user_commands EXCEPT ![c.args.defines] =
                                 Owned(c.args.definition, owner)]
        /\ c.args.defines \in UserNames
        /\ UNCHANGED <<keymaps, handlers>>
    BY <1>4 DEF DefineUserCommand, Refuse, registries, Definable, IsCommand
  <2>2. Owned(c.args.definition, owner).owner \in more
    BY DEF Owned
  <2>3. names(user_commands') \subseteq names(user_commands) \cup more
    <3> DEFINE new == Owned(c.args.definition, owner)
    <3>1. user_commands' = [user_commands EXCEPT ![c.args.defines] = new] /\ new.owner \in more
      BY <2>1, <2>2
    <3> HIDE DEF new, more
    <3>2. \A v \in UserNames :
             user_commands'[v] = IF v = c.args.defines THEN new ELSE user_commands[v]
      BY <3>1 DEF TypedRegistries, CommandsByName
    <3> QED BY <1>3, <3>1, <3>2
  <2>4. keys(keymaps') = keys(keymaps) /\ lists(handlers') = lists(handlers)
    BY <2>1
  <2> QED BY <1>1, <2>3, <2>4
<1>5. CASE DeleteUserCommand(c) /\ ~UNCHANGED user_commands
  <2>1. /\ user_commands' = [user_commands EXCEPT ![c.args.deletes] = NoCommand]
        /\ c.args.deletes \in UserNames
        /\ UNCHANGED <<keymaps, handlers>>
    BY <1>5 DEF DeleteUserCommand, Refuse, registries, IsCommand
  <2>2. NoCommand.owner \in more
    BY DEF NoCommand
  <2>3. names(user_commands') \subseteq names(user_commands) \cup more
    <3> DEFINE new == NoCommand
    <3>1. user_commands' = [user_commands EXCEPT ![c.args.deletes] = new] /\ new.owner \in more
      BY <2>1, <2>2
    <3> HIDE DEF new, more
    <3>2. \A v \in UserNames :
             user_commands'[v] = IF v = c.args.deletes THEN new ELSE user_commands[v]
      BY <3>1 DEF TypedRegistries, CommandsByName
    <3> QED BY <1>3, <3>1, <3>2
  <2>4. keys(keymaps') = keys(keymaps) /\ lists(handlers') = lists(handlers)
    BY <2>1
  <2> QED BY <1>1, <2>3, <2>4
<1>6. CASE Autocmd(c, owner)
  <2>1. UNCHANGED <<user_commands, keymaps>> /\ c.name = "autocmd"
    BY <1>6 DEF Autocmd
  <2>2. \A e \in Events : Members(Cleared(c)[e]) \subseteq Members(handlers[e])
    BY ClearedFacts
  <2>3. ASSUME NEW e \in Events, NEW h \in Members(handlers'[e])
        PROVE  h \in Members(handlers[e]) \/ h.owner = owner
    <3>1. CASE handlers' = Cleared(c)
      BY <2>2, <2>3, <3>1
    <3>2. CASE handlers' = Registered(c, owner)
      <4>1. Members(Registered(c, owner)[e]) =
                Members(Cleared(c)[e])
                  \cup (Members(GivenHandlers(c, owner)) \cap GivenFor(c, owner, e))
        BY <2>1, RegisteredFacts DEF TypedRegistries
      <4>2. \A k \in GivenFor(c, owner, e) : k.owner = owner
        BY DEF GivenFor, NewHandler
      <4> QED BY <2>2, <2>3, <3>2, <4>1, <4>2
    <3> QED BY <1>6, <3>1, <3>2 DEF Autocmd
  <2>4. lists(handlers') \subseteq lists(handlers) \cup more
    BY <2>3 DEF lists
  <2> QED BY <1>1, <2>1, <2>4
<1>7. CASE MapKeys(c, owner, buffer) /\ ~UNCHANGED keymaps
  <2> DEFINE target == IF c.args.local THEN buffer ELSE NoBuffer
             cells == {target} \X ModesOf(c.args.prefix) \X {c.args.lhs}
             new == [owner |-> owner, id |-> next_mapping_id]
  <2>1. /\ keymaps' = [k \in DOMAIN keymaps |-> IF k \in cells THEN new ELSE keymaps[k]]
        /\ UNCHANGED <<user_commands, handlers>>
    BY <1>7 DEF MapKeys, Refuse, registries
  <2>2. new.owner = owner
    OBVIOUS
  <2> HIDE DEF cells, new
  <2>3. keys(keymaps') \subseteq keys(keymaps) \cup more
    BY <2>1, <2>2 DEF keys
  <2> QED BY <1>1, <2>1, <2>3
<1>8. CASE Augroup(c) \/ RunCommand(c) \/ CallFunction(c) \/ AccessOption(c)
  <2>1. UNCHANGED <<user_commands, keymaps, handlers>>
    BY <1>8 DEF Augroup, RunCommand, CallFunction, AccessOption, Refuse, registries
  <2> QED BY <1>2, <2>1
<1>9. ASSUME DefineUserCommand(c, owner) \/ DeleteUserCommand(c), UNCHANGED user_commands
      PROVE  UNCHANGED <<user_commands, keymaps, handlers>>
  BY <1>9 DEF DefineUserCommand, DeleteUserCommand, Refuse, registries
<1>10. ASSUME MapKeys(c, owner, buffer), UNCHANGED keymaps
       PROVE  UNCHANGED <<user_commands, keymaps, handlers>>
  BY <1>10 DEF MapKeys, Refuse, registries
<1> QED BY <1>2, <1>4, <1>5, <1>6, <1>7, <1>8, <1>9, <1>10 DEF Command

LEMMA FireLeaves ==
    ASSUME NEW e \in Events, NEW subject \in Subjects, FireEvent(e, subject),
           SoundHandlers(handlers, next_event_handler_id)
    PROVE  OwnersOf(user_commands', keymaps', handlers')
             \subseteq OwnersOf(user_commands, keymaps, handlers)
<1>1. /\ handlers' = [handlers EXCEPT ![e] = Retained(e, subject)]
      /\ UNCHANGED <<user_commands, keymaps>>
  BY DEF FireEvent
<1>2. handlers \in [Events -> Seq(Handler)]
  BY DEF SoundHandlers
<1>3. Members(Retained(e, subject)) \subseteq Members(handlers[e])
  BY <1>2, KeptMembers DEF Retained
<1>4. \A f \in Events : handlers'[f] = IF f = e THEN Retained(e, subject) ELSE handlers[f]
  BY <1>1, <1>2
<1>5. \A f \in Events : Members(handlers'[f]) \subseteq Members(handlers[f])
  BY <1>3, <1>4
<1> QED BY <1>1, <1>5 DEF OwnersOf

LEMMA UnmapLeaves ==
    ASSUME NEW mode, NEW lhs, NEW buffer, Unmap(mode, lhs, buffer)
    PROVE  OwnersOf(user_commands', keymaps', handlers')
             \subseteq OwnersOf(user_commands, keymaps, handlers) \cup {"nobody"}
<1> DEFINE cell == <<buffer, mode, lhs>>
<1>1. /\ keymaps' = [keymaps EXCEPT ![cell] = NoMapping]
      /\ UNCHANGED <<user_commands, handlers>>
  BY DEF Unmap
<1>2. NoMapping.owner = "nobody"
  BY DEF NoMapping
<1> HIDE DEF cell
<1>3. /\ DOMAIN keymaps' = DOMAIN keymaps
      /\ \A k \in DOMAIN keymaps : keymaps'[k] = IF k = cell THEN NoMapping ELSE keymaps[k]
  BY <1>1
<1> QED BY <1>1, <1>2, <1>3 DEF OwnersOf
===============================================================================
