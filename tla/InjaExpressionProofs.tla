------------------------ MODULE InjaExpressionProofs ------------------------
(***************************************************************************)
(* Proofs about InjaExpression: types, and that a compiled expression      *)
(* prints what was written, for expressions of any length.                 *)
(***************************************************************************)
EXTENDS InjaExpression, SequenceTheorems, FiniteSetTheorems, TLAPS

(***************************************************************************)
(* Sequences of whatever elements                                          *)
(***************************************************************************)

IsSeq(s) == Len(s) \in Nat /\ s = [k \in 1..Len(s) |-> s[k]]

LEMMA SeqTyped ==
  ASSUME NEW s, IsSeq(s), NEW S, \A k \in 1..Len(s) : s[k] \in S
  PROVE  s \in Seq(S)
<1>1. Len(s) \in Nat /\ s \in [1..Len(s) -> S]
  BY DEF IsSeq
<1> QED  BY <1>1, SeqDef

LEMMA SeqUntyped ==
  ASSUME NEW S, NEW s \in Seq(S)
  PROVE  IsSeq(s)
BY LenProperties DEF IsSeq

LEMMA SeqDomain ==
  ASSUME NEW s, IsSeq(s)
  PROVE  DOMAIN s = 1..Len(s) /\ Len(s) \in Nat
BY DEF IsSeq

LEMMA SeqListed ==
  ASSUME NEW n \in Nat, NEW f, f = [k \in 1..n |-> f[k]]
  PROVE  IsSeq(f) /\ Len(f) = n
<1> DEFINE S == {f[k] : k \in 1..n}
<1>1. f \in [1..n -> S]
  OBVIOUS
<1>2. f \in Seq(S)
  BY <1>1, SeqDef
<1>3. Len(f) \in Nat /\ DOMAIN f = 1..Len(f) /\ DOMAIN f = 1..n
  BY <1>1, <1>2, LenProperties
<1>4. Len(f) = n
  <2>1. \A m \in Nat : 1..m = 1..n => m = n
    <3> SUFFICES ASSUME NEW m \in Nat, 1..m = 1..n, m # n
                 PROVE  FALSE
      OBVIOUS
    <3>1. CASE m < n
      <4>1. n \in 1..n /\ n \notin 1..m
        BY <3>1
      <4> QED  BY <4>1
    <3>2. CASE n < m
      <4>1. m \in 1..m /\ m \notin 1..n
        BY <3>2
      <4> QED  BY <4>1
    <3> QED  BY <3>1, <3>2
  <2> QED  BY <2>1, <1>3
<1> QED  BY <1>2, <1>4, SeqUntyped

LEMMA SeqSame ==
  ASSUME NEW s, IsSeq(s), NEW t, IsSeq(t), Len(s) = Len(t),
         \A k \in 1..Len(s) : s[k] = t[k]
  PROVE  s = t
BY DEF IsSeq

LEMMA SeqEmpty ==
  /\ IsSeq(<<>>) /\ Len(<<>>) = 0
  /\ \A s : IsSeq(s) => (s = <<>> <=> Len(s) = 0)
<1>1. <<>> \in Seq({}) /\ Len(<<>>) = 0
  BY EmptySeq
<1>2. IsSeq(<<>>)
  BY <1>1, SeqUntyped
<1>3. ASSUME NEW s, IsSeq(s), Len(s) = 0
      PROVE  s = <<>>
  <2>1. \A k \in 1..Len(s) : s[k] = <<>>[k]
    BY <1>3
  <2> QED  BY <2>1, <1>1, <1>2, <1>3, SeqSame
<1> QED  BY <1>1, <1>2, <1>3

LEMMA SeqAppend ==
  ASSUME NEW s, IsSeq(s), NEW x
  PROVE  /\ IsSeq(Append(s, x)) /\ Len(Append(s, x)) = Len(s) + 1
         /\ \A k \in 1..Len(s) : Append(s, x)[k] = s[k]
         /\ Append(s, x)[Len(s) + 1] = x
         /\ Append(s, x) # <<>>
<1> DEFINE S == {s[k] : k \in 1..Len(s)} \cup {x}
<1>1. s \in Seq(S) /\ x \in S
  BY SeqTyped
<1> HIDE DEF S
<1>2. /\ Append(s, x) \in Seq(S) /\ Len(Append(s, x)) = Len(s) + 1
      /\ \A k \in 1..Len(s) : Append(s, x)[k] = s[k]
      /\ Append(s, x)[Len(s) + 1] = x /\ Append(s, x) # <<>>
  BY <1>1, AppendProperties
<1> QED  BY <1>2, SeqUntyped

LEMMA SeqPart ==
  ASSUME NEW s, IsSeq(s), NEW m \in Int, NEW n \in Int,
         1 <= m, m <= n + 1, n <= Len(s)
  PROVE  /\ IsSeq(SubSeq(s, m, n)) /\ Len(SubSeq(s, m, n)) = n - m + 1
         /\ \A k \in 1..(n - m + 1) : SubSeq(s, m, n)[k] = s[m + k - 1]
<1> DEFINE S == {s[k] : k \in 1..Len(s)}
<1>1. \A k \in m..n : s[k] \in S
  <2>1. Len(s) \in Nat
    BY SeqDomain
  <2>2. \A k \in m..n : k \in 1..Len(s)
    BY <2>1
  <2> QED  BY <2>2
<1> HIDE DEF S
<1>2. /\ SubSeq(s, m, n) \in Seq(S)
      /\ Len(SubSeq(s, m, n)) = IF m <= n THEN n - m + 1 ELSE 0
      /\ \A k \in 1..(n - m + 1) : SubSeq(s, m, n)[k] = s[m + k - 1]
  BY <1>1, SubSeqProperties
<1>3. (IF m <= n THEN n - m + 1 ELSE 0) = n - m + 1
  <2>1. CASE m <= n
    BY <2>1
  <2>2. CASE m = n + 1
    BY <2>2
  <2> QED  BY <2>1, <2>2
<1> QED  BY <1>2, <1>3, SeqUntyped

LEMMA SeqStart ==
  ASSUME NEW s, IsSeq(s), NEW n \in Nat, n <= Len(s)
  PROVE  IsSeq(SubSeq(s, 1, n)) /\ Len(SubSeq(s, 1, n)) = n /\ \A k \in 1..n : SubSeq(s, 1, n)[k] = s[k]
<1>1. /\ n \in Int /\ 1 \in Int /\ 1 <= 1 /\ 1 <= n + 1
      /\ n - 1 + 1 = n /\ \A k \in 1..n : 1 + k - 1 = k
  OBVIOUS
<1>2. /\ IsSeq(SubSeq(s, 1, n)) /\ Len(SubSeq(s, 1, n)) = n - 1 + 1
      /\ \A k \in 1..(n - 1 + 1) : SubSeq(s, 1, n)[k] = s[1 + k - 1]
  BY <1>1, SeqPart
<1> QED  BY <1>1, <1>2

LEMMA SeqJoin ==
  ASSUME NEW s, IsSeq(s), NEW t, IsSeq(t)
  PROVE  /\ IsSeq(s \o t) /\ Len(s \o t) = Len(s) + Len(t)
         /\ \A k \in 1..Len(s) : (s \o t)[k] = s[k]
         /\ \A k \in 1..Len(t) : (s \o t)[Len(s) + k] = t[k]
<1> DEFINE S == {s[k] : k \in 1..Len(s)} \cup {t[k] : k \in 1..Len(t)}
<1>1. s \in Seq(S) /\ t \in Seq(S)
  BY SeqTyped
<1> HIDE DEF S
<1>2. Len(s) \in Nat /\ Len(t) \in Nat
  BY SeqDomain
<1>3. /\ s \o t \in Seq(S) /\ Len(s \o t) = Len(s) + Len(t)
      /\ \A k \in 1..(Len(s) + Len(t)) :
           (s \o t)[k] = IF k <= Len(s) THEN s[k] ELSE t[k - Len(s)]
  BY <1>1, ConcatProperties
<1>4. ASSUME NEW k \in 1..Len(s) PROVE (s \o t)[k] = s[k]
  <2>1. k \in 1..(Len(s) + Len(t)) /\ k <= Len(s)
    BY <1>2
  <2> QED  BY <2>1, <1>3
<1>5. ASSUME NEW k \in 1..Len(t) PROVE (s \o t)[Len(s) + k] = t[k]
  <2>1. Len(s) + k \in 1..(Len(s) + Len(t)) /\ ~(Len(s) + k <= Len(s)) /\ (Len(s) + k) - Len(s) = k
    BY <1>2
  <2> QED  BY <2>1, <1>3
<1> QED  BY <1>3, <1>4, <1>5, SeqUntyped

(* A sequence and its last element *)
LEMMA SeqFront ==
  ASSUME NEW s, IsSeq(s), s # <<>>
  PROVE  /\ Len(s) \in Nat \ {0}
         /\ IsSeq(Front(s)) /\ Len(Front(s)) = Len(s) - 1
         /\ \A k \in 1..(Len(s) - 1) : Front(s)[k] = s[k]
         /\ Last(s) = s[Len(s)]
         /\ Append(Front(s), Last(s)) = s
<1>1. Len(s) \in Nat \ {0}
  BY SeqEmpty, SeqDomain
<1>2. /\ IsSeq(Front(s)) /\ Len(Front(s)) = (Len(s) - 1) - 1 + 1
      /\ \A k \in 1..((Len(s) - 1) - 1 + 1) : Front(s)[k] = s[1 + k - 1]
  <2>1. /\ Len(s) - 1 \in Int /\ 1 \in Int
        /\ 1 <= 1 /\ 1 <= (Len(s) - 1) + 1 /\ Len(s) - 1 <= Len(s)
    BY <1>1
  <2> QED  BY <2>1, SeqPart DEF Front
<1>3. (Len(s) - 1) - 1 + 1 = Len(s) - 1 /\ \A k \in 1..(Len(s) - 1) : 1 + k - 1 = k
  BY <1>1
<1>4. Len(Front(s)) = Len(s) - 1 /\ \A k \in 1..(Len(s) - 1) : Front(s)[k] = s[k]
  BY <1>2, <1>3
<1>5. Append(Front(s), Last(s)) = s
  <2> DEFINE t == Append(Front(s), Last(s))
  <2>1. /\ IsSeq(t) /\ Len(t) = Len(s) - 1 + 1 /\ t[Len(s) - 1 + 1] = Last(s)
        /\ \A k \in 1..(Len(s) - 1) : t[k] = s[k]
    BY <1>2, <1>4, SeqAppend
  <2>2. Len(s) - 1 + 1 = Len(s) /\ \A k \in 1..Len(s) : k = Len(s) \/ k \in 1..(Len(s) - 1)
    BY <1>1
  <2>3. \A k \in 1..Len(t) : t[k] = s[k]
    BY <2>1, <2>2 DEF Last
  <2> QED  BY <2>1, <2>2, <2>3, SeqSame
<1> QED  BY <1>1, <1>2, <1>4, <1>5 DEF Last

LEMMA SeqOfAppended ==
  ASSUME NEW s, IsSeq(s), NEW x
  PROVE  Front(Append(s, x)) = s /\ Last(Append(s, x)) = x
<1> DEFINE a == Append(s, x)
<1>1. /\ IsSeq(a) /\ Len(a) = Len(s) + 1 /\ a # <<>> /\ a[Len(s) + 1] = x
      /\ \A k \in 1..Len(s) : a[k] = s[k]
  BY SeqAppend
<1> HIDE DEF a
<1>2. /\ IsSeq(Front(a)) /\ Len(Front(a)) = Len(a) - 1 /\ Last(a) = a[Len(a)]
      /\ \A k \in 1..(Len(a) - 1) : Front(a)[k] = a[k]
  BY <1>1, SeqFront
<1>3. Len(s) \in Nat /\ Len(a) - 1 = Len(s)
  BY <1>1, SeqDomain
<1>4. Front(a) = s
  BY <1>1, <1>2, <1>3, SeqSame
<1> QED  BY <1>1, <1>2, <1>4 DEF a

LEMMA SeqReplaced ==
  ASSUME NEW s, IsSeq(s), s # <<>>, NEW x
  PROVE  ReplaceAt(s, Len(s), x) = Append(Front(s), x)
<1> DEFINE r == ReplaceAt(s, Len(s), x)
           a == Append(Front(s), x)
<1>1. /\ Len(s) \in Nat \ {0}
      /\ IsSeq(Front(s)) /\ Len(Front(s)) = Len(s) - 1
      /\ \A k \in 1..(Len(s) - 1) : Front(s)[k] = s[k]
  BY SeqFront
<1>2. r = [s EXCEPT ![Len(s)] = x]
  BY DEF ReplaceAt
<1>3. s = [k \in 1..Len(s) |-> s[k]]
  BY DEF IsSeq
<1>4. r = [k \in 1..Len(s) |-> r[k]]
  BY <1>2, <1>3
<1>5. IsSeq(r) /\ Len(r) = Len(s)
  BY <1>1, <1>4, SeqListed
<1>6. \A k \in 1..Len(s) : r[k] = IF k = Len(s) THEN x ELSE s[k]
  BY <1>2, <1>3
<1>7. /\ IsSeq(a) /\ Len(a) = Len(s) - 1 + 1 /\ a[Len(s) - 1 + 1] = x
      /\ \A k \in 1..(Len(s) - 1) : a[k] = s[k]
  BY <1>1, SeqAppend
<1>8. Len(s) - 1 + 1 = Len(s) /\ \A k \in 1..Len(s) : k = Len(s) \/ k \in 1..(Len(s) - 1)
  BY <1>1
<1>9. \A k \in 1..Len(s) : r[k] = a[k]
  <2> SUFFICES ASSUME NEW k \in 1..Len(s) PROVE r[k] = a[k]
    OBVIOUS
  <2>1. CASE k = Len(s)
    BY <2>1, <1>6, <1>7, <1>8
  <2>2. CASE k # Len(s)
    BY <2>2, <1>6, <1>7, <1>8
  <2> QED  BY <2>1, <2>2
<1> QED  BY <1>5, <1>7, <1>8, <1>9, SeqSame

LEMMA SeqPair ==
  ASSUME NEW x, NEW y
  PROVE  /\ IsSeq(<<x, y>>) /\ Len(<<x, y>>) = 2
         /\ \A s : IsSeq(s) => s \o <<x, y>> = Append(Append(s, x), y)
<1>1. <<x, y>> \in Seq({x, y}) /\ Len(<<x, y>>) = 2
  OBVIOUS
<1>2. IsSeq(<<x, y>>)
  BY <1>1, SeqUntyped
<1>3. ASSUME NEW s, IsSeq(s)
      PROVE  s \o <<x, y>> = Append(Append(s, x), y)
  <2> DEFINE t == <<x, y>>
             j == s \o t
             a == Append(s, x)
             p == Append(a, y)
  <2>1. t[1] = x /\ t[2] = y /\ Len(t) = 2
    OBVIOUS
  <2>2. IsSeq(t)
    BY <1>2
  <2> HIDE DEF t
  <2>3. /\ IsSeq(j) /\ Len(j) = Len(s) + 2
        /\ \A k \in 1..Len(s) : j[k] = s[k]
        /\ \A k \in 1..2 : j[Len(s) + k] = t[k]
    <3>1. /\ IsSeq(j) /\ Len(j) = Len(s) + Len(t)
          /\ \A k \in 1..Len(s) : j[k] = s[k]
          /\ \A k \in 1..Len(t) : j[Len(s) + k] = t[k]
      BY <1>3, <2>2, SeqJoin
    <3> QED  BY <2>1, <3>1
  <2>4. /\ IsSeq(a) /\ Len(a) = Len(s) + 1 /\ a[Len(s) + 1] = x
        /\ \A k \in 1..Len(s) : a[k] = s[k]
    BY <1>3, SeqAppend
  <2>5. /\ IsSeq(p) /\ Len(p) = Len(a) + 1 /\ p[Len(a) + 1] = y
        /\ \A k \in 1..Len(a) : p[k] = a[k]
    BY <2>4, SeqAppend
  <2>6. /\ Len(s) \in Nat /\ Len(s) + 1 + 1 = Len(s) + 2
        /\ \A k \in 1..(Len(s) + 2) : k \in 1..Len(s) \/ k = Len(s) + 1 \/ k = Len(s) + 2
        /\ Len(s) + 1 \in 1..(Len(s) + 1)
        /\ \A k \in 1..Len(s) : k \in 1..(Len(s) + 1)
    BY <1>3, SeqDomain
  <2>7. j[Len(s) + 1] = x /\ j[Len(s) + 2] = y
    BY <2>1, <2>3
  <2>8. p[Len(s) + 1] = x /\ p[Len(s) + 2] = y
    BY <2>4, <2>5, <2>6
  <2>9. \A k \in 1..Len(s) : p[k] = j[k]
    BY <2>3, <2>4, <2>5, <2>6
  <2>10. \A k \in 1..Len(j) : j[k] = p[k]
    BY <2>3, <2>6, <2>7, <2>8, <2>9
  <2> QED  BY <2>3, <2>4, <2>5, <2>6, <2>10, SeqSame DEF t
<1> QED  BY <1>1, <1>2, <1>3

(***************************************************************************)
(* The parse functions it is in, and how many of the terms they wait with  *)
(***************************************************************************)

Frame ==
  {c \in [function : {"or", "and", "not", "comparison", "paren", "call"},
          op : Tokens \cup {""}, n : Nat] :
     IsBinary(c.function) => c.op \in {"", "or", "and"} \cup Comparisons}

CallsOK(c, r) == c \in Seq(Frame) /\ \A k \in 1..Len(c) : c[k].n < r

(* the terms a function has read and not yet used *)
Held(c) ==
  IF c.function = "call" THEN c.n
  ELSE IF IsBinary(c.function) /\ c.op # "" THEN 1 ELSE 0

(* the functions in c hold n terms *)
Holds(c, n) ==
  \E d \in [1..(Len(c) + 1) -> Nat] :
     /\ d[1] = 0 /\ d[Len(c) + 1] = n
     /\ \A k \in 1..Len(c) : d[k + 1] = d[k] + Held(c[k])

LEMMA HeldIsNat == \A c \in Frame : Held(c) \in Nat
BY DEF Frame, Held

LEMMA EmptyHolds ==
  /\ Holds(<<>>, 0)
  /\ \A n : Holds(<<>>, n) => n = 0
<1>1. Len(<<>>) = 0
  BY SeqEmpty
<1>2. Holds(<<>>, 0)
  <2> DEFINE d == [k \in 1..(Len(<<>>) + 1) |-> 0]
  <2>1. d \in [1..(Len(<<>>) + 1) -> Nat] /\ d[1] = 0 /\ d[Len(<<>>) + 1] = 0
    BY <1>1
  <2>2. \A k \in 1..Len(<<>>) : d[k + 1] = d[k] + Held(<<>>[k])
    BY <1>1
  <2> QED  BY <2>1, <2>2 DEF Holds
<1>3. \A n : Holds(<<>>, n) => n = 0
  BY <1>1 DEF Holds
<1> QED  BY <1>2, <1>3

LEMMA CallsPush ==
  ASSUME NEW c, NEW r \in Nat, CallsOK(c, r), NEW f \in Frame, f.n < r
  PROVE  /\ CallsOK(Append(c, f), r)
         /\ \A n \in Nat : Holds(c, n) => Holds(Append(c, f), n + Held(f))
<1> DEFINE a == Append(c, f)
<1>1. c \in Seq(Frame) /\ IsSeq(c) /\ Len(c) \in Nat
  BY SeqUntyped, SeqDomain DEF CallsOK
<1>2. /\ a \in Seq(Frame) /\ Len(a) = Len(c) + 1 /\ a[Len(c) + 1] = f
      /\ \A k \in 1..Len(c) : a[k] = c[k]
  BY <1>1, AppendProperties
<1> HIDE DEF a
<1>3. \A k \in 1..(Len(c) + 1) : k \in 1..Len(c) \/ k = Len(c) + 1
  BY <1>1
<1>4. CallsOK(a, r)
  BY <1>2, <1>3 DEF CallsOK
<1>5. ASSUME NEW n \in Nat, Holds(c, n)
      PROVE  Holds(a, n + Held(f))
  <2>1. PICK d \in [1..(Len(c) + 1) -> Nat] :
             /\ d[1] = 0 /\ d[Len(c) + 1] = n
             /\ \A k \in 1..Len(c) : d[k + 1] = d[k] + Held(c[k])
    BY <1>5 DEF Holds
  <2> DEFINE m == n + Held(f)
             e == [k \in 1..(Len(c) + 2) |-> IF k = Len(c) + 2 THEN m ELSE d[k]]
  <2>2. Held(f) \in Nat /\ m \in Nat
    BY HeldIsNat
  <2> HIDE DEF m
  <2>3. Len(a) + 1 = Len(c) + 2
    BY <1>1, <1>2
  <2>4. \A k \in 1..(Len(c) + 2) : k # Len(c) + 2 => k \in 1..(Len(c) + 1)
    BY <1>1
  <2>5. e \in [1..(Len(a) + 1) -> Nat]
    BY <2>2, <2>3, <2>4
  <2>6. \A k \in 1..(Len(c) + 1) : e[k] = d[k]
    BY <1>1
  <2>7. e[Len(c) + 2] = m
    BY <1>1
  <2> HIDE DEF e
  <2>8. e[1] = 0
    <3>1. 1 \in 1..(Len(c) + 1)
      BY <1>1
    <3> QED  BY <3>1, <2>1, <2>6
  <2>9. ASSUME NEW k \in 1..Len(a)
        PROVE  e[k + 1] = e[k] + Held(a[k])
    <3>1. CASE k \in 1..Len(c)
      <4>1. k \in 1..(Len(c) + 1) /\ k + 1 \in 1..(Len(c) + 1)
        BY <3>1, <1>1
      <4> QED  BY <4>1, <3>1, <1>2, <2>1, <2>6
    <3>2. CASE k = Len(c) + 1
      <4>1. k + 1 = Len(c) + 2 /\ k \in 1..(Len(c) + 1)
        BY <3>2, <1>1
      <4>2. e[k] = n /\ a[k] = f
        BY <4>1, <3>2, <1>2, <2>1, <2>6
      <4> QED  BY <4>1, <4>2, <2>7 DEF m
    <3> QED  BY <3>1, <3>2, <1>2, <1>3
  <2>10. e[Len(a) + 1] = m
    BY <2>3, <2>7
  <2> QED  BY <2>5, <2>8, <2>9, <2>10 DEF Holds, m
<1> QED  BY <1>4, <1>5 DEF a

LEMMA CallsPop ==
  ASSUME NEW c, NEW r \in Nat, CallsOK(c, r), c # <<>>
  PROVE  /\ CallsOK(Front(c), r) /\ Last(c) \in Frame /\ Last(c).n < r
         /\ \A n \in Nat : Holds(c, n) =>
              n - Held(Last(c)) \in Nat /\ Holds(Front(c), n - Held(Last(c)))
<1> DEFINE f == Front(c)
<1>1. c \in Seq(Frame) /\ IsSeq(c)
  BY SeqUntyped DEF CallsOK
<1>2. /\ Len(c) \in Nat \ {0} /\ IsSeq(f) /\ Len(f) = Len(c) - 1
      /\ \A k \in 1..(Len(c) - 1) : f[k] = c[k]
      /\ Last(c) = c[Len(c)]
  BY <1>1, SeqFront
<1> HIDE DEF f
<1>3. \A k \in 1..(Len(c) - 1) : k \in 1..Len(c)
  BY <1>2
<1>4. Len(c) \in 1..Len(c)
  BY <1>2
<1>5. \A k \in 1..Len(c) : c[k] \in Frame /\ c[k].n < r
  BY <1>1, ElementOfSeq DEF CallsOK
<1>6. f \in Seq(Frame)
  <2>1. \A k \in 1..Len(f) : f[k] \in Frame
    BY <1>2, <1>3, <1>5
  <2> QED  BY <2>1, <1>2, SeqTyped
<1>7. CallsOK(f, r)
  BY <1>2, <1>3, <1>5, <1>6 DEF CallsOK
<1>8. ASSUME NEW n \in Nat, Holds(c, n)
      PROVE  n - Held(Last(c)) \in Nat /\ Holds(f, n - Held(Last(c)))
  <2>1. PICK d \in [1..(Len(c) + 1) -> Nat] :
             /\ d[1] = 0 /\ d[Len(c) + 1] = n
             /\ \A k \in 1..Len(c) : d[k + 1] = d[k] + Held(c[k])
    BY <1>8 DEF Holds
  <2> DEFINE e == [k \in 1..Len(c) |-> d[k]]
  <2>2. \A k \in 1..Len(c) : k \in 1..(Len(c) + 1)
    BY <1>2
  <2>3. e \in [1..Len(c) -> Nat] /\ \A k \in 1..Len(c) : e[k] = d[k]
    BY <2>2
  <2> HIDE DEF e
  <2>4. Len(f) + 1 = Len(c) /\ 1 \in 1..Len(c)
    BY <1>2
  <2>5. e[1] = 0
    BY <2>1, <2>3, <2>4
  <2>6. \A k \in 1..(Len(c) - 1) : k + 1 \in 1..Len(c)
    BY <1>2
  <2>7. \A k \in 1..Len(f) : e[k + 1] = e[k] + Held(f[k])
    BY <1>2, <1>3, <2>1, <2>3, <2>6
  <2>8. d[Len(c)] \in Nat /\ Held(c[Len(c)]) \in Nat /\ n = d[Len(c)] + Held(c[Len(c)])
    BY <1>4, <1>5, <2>1, <2>2, HeldIsNat
  <2>9. n - Held(Last(c)) = d[Len(c)]
    BY <2>8, <1>2
  <2>10. e[Len(f) + 1] = n - Held(Last(c))
    BY <1>4, <2>3, <2>4, <2>9
  <2>11. e \in [1..(Len(f) + 1) -> Nat]
    BY <2>3, <2>4
  <2> QED  BY <2>5, <2>7, <2>8, <2>9, <2>10, <2>11 DEF Holds
<1> QED  BY <1>2, <1>4, <1>5, <1>7, <1>8 DEF f

LEMMA CallsLater ==
  ASSUME NEW c, NEW r \in Nat, NEW s \in Nat, r <= s, CallsOK(c, r)
  PROVE  CallsOK(c, s)
<1>1. ASSUME NEW k \in 1..Len(c)
      PROVE  c[k].n \in Nat /\ c[k].n < r
  <2>1. c[k] \in Frame
    BY ElementOfSeq DEF CallsOK
  <2> QED  BY <2>1 DEF CallsOK, Frame
<1>2. \A n \in Nat : n < r => n < s
  OBVIOUS
<1> QED  BY <1>1, <1>2 DEF CallsOK

LEMMA NoCalls == \A r : CallsOK(<<>>, r)
<1>1. Len(<<>>) = 0 /\ <<>> \in Seq(Frame)
  BY EmptySeq
<1> QED  BY <1>1 DEF CallsOK

LEMMA CallIs ==
  ASSUME NEW function \in {"or", "and", "not", "comparison", "paren", "call"}
  PROVE  /\ Call(function) \in Frame /\ Call(function).n = 0
         /\ Held(Call(function)) = 0
BY DEF Call, Frame, Held, IsBinary

(* one function is entered *)
LEMMA CallsEnter ==
  ASSUME NEW c, NEW r \in Nat \ {0}, CallsOK(c, r),
         NEW function \in {"or", "and", "not", "comparison", "paren", "call"}
  PROVE  /\ CallsOK(Append(c, Call(function)), r)
         /\ \A n \in Nat : Holds(c, n) => Holds(Append(c, Call(function)), n)
<1>1. Call(function) \in Frame /\ Call(function).n < r /\ Held(Call(function)) = 0
  BY CallIs
<1>2. \A n \in Nat : n + Held(Call(function)) = n
  BY <1>1
<1> QED  BY <1>1, <1>2, CallsPush

(* a whole expression is entered *)
LEMMA CallsExpression ==
  ASSUME NEW c, NEW r \in Nat \ {0}, CallsOK(c, r)
  PROVE  /\ CallsOK(c \o Expression, r)
         /\ \A n \in Nat : Holds(c, n) => Holds(c \o Expression, n)
<1> DEFINE a == Append(c, Call("or"))
<1>1. IsSeq(c)
  BY SeqUntyped DEF CallsOK
<1>2. c \o Expression = Append(a, Call("and"))
  BY <1>1, SeqPair DEF Expression
<1>3. CallsOK(a, r) /\ \A n \in Nat : Holds(c, n) => Holds(a, n)
  BY CallsEnter
<1> HIDE DEF a
<1>4. /\ CallsOK(Append(a, Call("and")), r)
      /\ \A n \in Nat : Holds(a, n) => Holds(Append(a, Call("and")), n)
  BY <1>3, CallsEnter
<1> QED  BY <1>2, <1>3, <1>4

(***************************************************************************)
(* Programs and terms                                                      *)
(***************************************************************************)

CodeOK(b) == IsSeq(b) /\ \A k \in 1..Len(b) : b[k].args \in 0..MaxTokens

WrittenOn(t, fn, name, n) ==
  Append(SubSeq(t, 1, Len(t) - n), CallTerm(fn, name, SubSeq(t, Len(t) - n + 1, Len(t))))

LEMMA MergedIs ==
  ASSUME NEW b, IsSeq(b), b # <<>>, NEW op, NEW name, NEW n
  PROVE  Merged(b, op, name, n) = Append(Front(b), Code(op, name, n, Last(b).imm))
BY SeqReplaced DEF Merged

LEMMA SwappedIs ==
  ASSUME NEW b, IsSeq(b), 2 <= Len(b)
  PROVE  /\ IsSeq(SubSeq(b, 1, Len(b) - 2)) /\ Len(SubSeq(b, 1, Len(b) - 2)) = Len(b) - 2
         /\ \A k \in 1..(Len(b) - 2) : SubSeq(b, 1, Len(b) - 2)[k] = b[k]
         /\ swapped(b) = Append(Append(SubSeq(b, 1, Len(b) - 2), b[Len(b)]), b[Len(b) - 1])
<1>1. /\ Len(b) - 2 \in Int /\ 1 \in Int /\ 1 <= 1
      /\ 1 <= (Len(b) - 2) + 1 /\ Len(b) - 2 <= Len(b)
      /\ (Len(b) - 2) - 1 + 1 = Len(b) - 2
      /\ \A k \in 1..(Len(b) - 2) : 1 + k - 1 = k
  BY SeqDomain
<1>2. /\ IsSeq(SubSeq(b, 1, Len(b) - 2))
      /\ Len(SubSeq(b, 1, Len(b) - 2)) = (Len(b) - 2) - 1 + 1
      /\ \A k \in 1..((Len(b) - 2) - 1 + 1) : SubSeq(b, 1, Len(b) - 2)[k] = b[1 + k - 1]
  BY <1>1, SeqPart
<1> QED  BY <1>1, <1>2, SeqPair DEF swapped

LEMMA CodeAppend ==
  ASSUME NEW b, CodeOK(b), NEW c, c.args \in 0..MaxTokens
  PROVE  CodeOK(Append(b, c))
<1>1. /\ IsSeq(Append(b, c)) /\ Len(Append(b, c)) = Len(b) + 1
      /\ Append(b, c)[Len(b) + 1] = c
      /\ \A k \in 1..Len(b) : Append(b, c)[k] = b[k]
  BY SeqAppend DEF CodeOK
<1>2. \A k \in 1..(Len(b) + 1) : k \in 1..Len(b) \/ k = Len(b) + 1
  BY SeqDomain DEF CodeOK
<1> QED  BY <1>1, <1>2 DEF CodeOK

LEMMA CodeFront ==
  ASSUME NEW b, CodeOK(b), b # <<>>
  PROVE  CodeOK(Front(b))
<1>1. /\ Len(b) \in Nat \ {0} /\ IsSeq(Front(b)) /\ Len(Front(b)) = Len(b) - 1
      /\ \A k \in 1..(Len(b) - 1) : Front(b)[k] = b[k]
  BY SeqFront DEF CodeOK
<1>2. \A k \in 1..(Len(b) - 1) : k \in 1..Len(b)
  BY <1>1
<1> QED  BY <1>1, <1>2 DEF CodeOK

LEMMA CodeMerged ==
  ASSUME NEW b, CodeOK(b), b # <<>>, NEW op, NEW name, NEW n \in 0..MaxTokens
  PROVE  CodeOK(Merged(b, op, name, n))
<1>1. CodeOK(Front(b))
  BY CodeFront
<1>2. Code(op, name, n, Last(b).imm).args \in 0..MaxTokens
  BY DEF Code
<1>3. CodeOK(Append(Front(b), Code(op, name, n, Last(b).imm)))
  BY <1>1, <1>2, CodeAppend
<1> QED  BY <1>3, MergedIs DEF CodeOK

LEMMA CodeFunction ==
  ASSUME NEW b, CodeOK(b), NEW op, NEW name, NEW n \in 0..MaxTokens
  PROVE  CodeOK(append_function(b, op, n)) /\ CodeOK(append_callback(b, name, n))
<1>1. \A o, m : CodeOK(Append(b, Code(o, m, n, None)))
  <2> TAKE o, m
  <2>1. Code(o, m, n, None).args \in 0..MaxTokens
    BY DEF Code
  <2> QED  BY <2>1, CodeAppend
<1>2. b # <<>> => \A o, m : CodeOK(Merged(b, o, m, n))
  BY CodeMerged
<1> QED  BY <1>1, <1>2 DEF append_function, append_callback

LEMMA CodeSwapped ==
  ASSUME NEW b, CodeOK(b), 2 <= Len(b)
  PROVE  CodeOK(swapped(b))
<1> DEFINE s == SubSeq(b, 1, Len(b) - 2)
<1>1. IsSeq(b) /\ Len(b) \in Nat
  BY SeqDomain DEF CodeOK
<1>2. /\ IsSeq(s) /\ Len(s) = Len(b) - 2
      /\ \A k \in 1..(Len(b) - 2) : s[k] = b[k]
      /\ swapped(b) = Append(Append(s, b[Len(b)]), b[Len(b) - 1])
  BY <1>1, SwappedIs
<1> HIDE DEF s
<1>3. /\ \A k \in 1..(Len(b) - 2) : k \in 1..Len(b)
      /\ Len(b) \in 1..Len(b) /\ Len(b) - 1 \in 1..Len(b)
  BY <1>1
<1>4. CodeOK(s)
  BY <1>2, <1>3 DEF CodeOK
<1>5. b[Len(b)].args \in 0..MaxTokens /\ b[Len(b) - 1].args \in 0..MaxTokens
  BY <1>3 DEF CodeOK
<1>6. CodeOK(Append(s, b[Len(b)]))
  BY <1>4, <1>5, CodeAppend
<1> QED  BY <1>2, <1>5, <1>6, CodeAppend

LEMMA WrittenIs ==
  ASSUME NEW t, IsSeq(t), NEW n \in Nat, n <= Len(t), NEW fn, NEW name
  PROVE  LET w == WrittenOn(t, fn, name, n)
             args == SubSeq(t, Len(t) - n + 1, Len(t))
         IN  /\ IsSeq(w) /\ Len(w) = Len(t) - n + 1
             /\ \A k \in 1..(Len(t) - n) : w[k] = t[k]
             /\ w[Len(t) - n + 1] = CallTerm(fn, name, args)
             /\ IsSeq(args) /\ Len(args) = n
             /\ \A k \in 1..n : args[k] = t[Len(t) - n + k]
<1> DEFINE m == Len(t) - n
           s == SubSeq(t, 1, m)
           args == SubSeq(t, m + 1, Len(t))
           w == WrittenOn(t, fn, name, n)
<1>1. Len(t) \in Nat
  BY SeqDomain
<1>2. m \in Nat /\ m <= Len(t)
  BY <1>1
<1>3. IsSeq(s) /\ Len(s) = m /\ \A k \in 1..m : s[k] = t[k]
  <2>1. IsSeq(t)
    OBVIOUS
  <2> HIDE DEF m
  <2> QED  BY ONLY <1>2, <2>1, SeqStart
<1>4. /\ m + 1 \in Int /\ Len(t) \in Int /\ 1 <= m + 1 /\ m + 1 <= Len(t) + 1
      /\ Len(t) <= Len(t)
      /\ Len(t) - (m + 1) + 1 = n /\ \A k \in 1..n : (m + 1) + k - 1 = m + k
  BY <1>1
<1>5. /\ IsSeq(args) /\ Len(args) = Len(t) - (m + 1) + 1
      /\ \A k \in 1..(Len(t) - (m + 1) + 1) : args[k] = t[(m + 1) + k - 1]
  BY <1>4, SeqPart
<1>6. IsSeq(args) /\ Len(args) = n /\ \A k \in 1..n : args[k] = t[m + k]
  BY <1>4, <1>5
<1>7. w = Append(s, CallTerm(fn, name, args))
  BY DEF WrittenOn
<1> HIDE DEF s, args, w
<1>8. /\ IsSeq(w) /\ Len(w) = m + 1 /\ \A k \in 1..m : w[k] = s[k]
      /\ w[m + 1] = CallTerm(fn, name, args)
  BY <1>3, <1>7, SeqAppend
<1> QED  BY <1>3, <1>6, <1>8 DEF s, args, w

LEMMA WrittenStep ==
  ASSUME NEW fn, NEW name, NEW n, Written(fn, name, n)
  PROVE  terms' = WrittenOn(terms, fn, name, n)
BY DEF Written, WrittenOn

(* default() is found with two arguments, and nothing without.              *)
LEMMA BuiltinIs ==
  ASSUME NEW name, NEW n
  PROVE  /\ find_builtin(name, n) # "Nop" => n \in {1, 2} /\ find_builtin(name, n) = name
         /\ find_builtin(name, n) = "default" => n = 2 /\ name = "default"
         /\ find_builtin(name, n) \notin {"Push", "Callback", "PrintValue", "thrown"}
BY DEF find_builtin, Builtins

(***************************************************************************)
(* The structural invariant                                                *)
(***************************************************************************)

Parsing == at \in {"not", "datum", "return"}
Before(b) == b \in {<<>>, <<Push(Leaf("literal", "", 0))>>}

JsonOK == json.level \in Nat /\ json.level < read /\ json.prev \in Tokens \cup {""}

(* the functions entered hold every term, except the one they are returned *)
Arity ==
  /\ at \in {"not", "datum"} => Holds(calls, Len(terms))
  /\ at = "return" => Len(terms) \in Nat \ {0} /\ Holds(calls, Len(terms) - 1)
  /\ at \in {"accepted", "rejected"} => calls = <<>>
  /\ at = "accepted" => Len(terms) = 1

Rendering ==
  /\ run \in {"ready", "running", "done", "missing", "refused", "undefined"}
  /\ run # "ready" => at = "accepted"
  /\ run = "ready" => i = 1 /\ m_stack = <<>> /\ printed = None
  /\ i \in 1..(Len(bytecodes) + 1)

Structure ==
  /\ tok \in Tokens /\ read \in Nat \ {0}
  /\ at \in {"not", "datum", "return", "accepted", "rejected", "undefined"}
  /\ CallsOK(calls, read)
  /\ JsonOK
  /\ CodeOK(bytecodes) /\ IsSeq(terms) /\ Before(before)
  /\ Arity
  /\ Rendering

SInv == Structure /\ read <= MaxTokens

LEMMA NoJsonIs == NoJson.level = 0 /\ NoJson.prev = ""
BY DEF NoJson

LEMMA InitStructure == Init => SInv
<1> SUFFICES ASSUME Init PROVE SInv
  OBVIOUS
<1> DEFINE l == Leaf("literal", "", 0)
<1>1. tok \in Tokens /\ before \in {<<>>, <<Push(l)>>} /\ read = Len(before) + 1
  BY DEF Init
<1>2. Len(<<>>) = 0 /\ IsSeq(<<>>)
  BY SeqEmpty
<1>3. <<Push(l)>> = Append(<<>>, Push(l)) /\ Push(l).args = 0
  BY DEF Push, Code
<1> HIDE DEF l
<1>4. 2 <= MaxTokens /\ MaxTokens \in Nat
  BY TokensAssumption
<1>5. CodeOK(<<>>)
  BY <1>2 DEF CodeOK
<1>6. CodeOK(<<Push(l)>>) /\ Len(<<Push(l)>>) = 1
  <2>1. Push(l).args \in 0..MaxTokens
    BY <1>3, <1>4
  <2>2. CodeOK(Append(<<>>, Push(l)))
    BY <2>1, <1>5, CodeAppend
  <2>3. Len(Append(<<>>, Push(l))) = Len(<<>>) + 1
    BY <1>2, SeqAppend
  <2> QED  BY <2>2, <2>3, <1>2, <1>3
<1>7. CodeOK(before) /\ read \in {1, 2} /\ Len(before) \in Nat
  <2>1. CASE before = <<>>
    <3>1. Len(before) = 0
      BY <2>1, <1>2
    <3>2. read = 0 + 1
      BY <3>1, <1>1
    <3> QED  BY <3>1, <3>2, <2>1, <1>5
  <2>2. CASE before = <<Push(l)>>
    <3>1. Len(before) = 1
      BY <2>2, <1>6
    <3>2. read = 1 + 1
      BY <3>1, <1>1
    <3> QED  BY <3>1, <3>2, <2>2, <1>6
  <2> QED  BY <2>1, <2>2, <1>1
<1>8. read \in Nat \ {0} /\ read <= MaxTokens
  BY <1>4, <1>7
<1>9. CallsOK(calls, read)
  <2>1. CallsOK(<<>>, read)
    BY NoCalls
  <2>2. CallsOK(<<>> \o Expression, read)
    BY <2>1, <1>8, CallsExpression
  <2>3. <<>> \o Expression = Expression
    BY DEF Expression
  <2> QED  BY <2>2, <2>3 DEF Init
<1>10. Holds(calls, 0)
  <2>1. CallsOK(<<>>, read) /\ Holds(<<>>, 0)
    BY NoCalls, EmptyHolds
  <2>2. Holds(<<>> \o Expression, 0)
    BY <2>1, <1>8, CallsExpression
  <2>3. <<>> \o Expression = Expression
    BY DEF Expression
  <2> QED  BY <2>2, <2>3 DEF Init
<1>11. JsonOK
  <2>1. json = NoJson
    BY DEF Init
  <2>2. json.level = 0
    BY <2>1, NoJsonIs
  <2>3. json.level \in Nat /\ json.level < read
    BY <2>2, <1>8
  <2>4. json.prev \in Tokens \cup {""}
    BY <2>1, NoJsonIs
  <2> QED  BY <2>3, <2>4 DEF JsonOK
<1>12. at = "not" /\ terms = <<>> /\ bytecodes = before /\ run = "ready" /\ i = 1
       /\ m_stack = <<>> /\ printed = None
  BY DEF Init
<1>13. Arity
  BY <1>2, <1>10, <1>12 DEF Arity
<1>14. Rendering
  BY <1>7, <1>12 DEF Rendering
<1> QED  BY <1>1, <1>2, <1>7, <1>8, <1>9, <1>11, <1>12, <1>13, <1>14
         DEF SInv, Structure, Before, l

LEMMA Facts ==
  ASSUME SInv, Parsing
  PROVE  /\ tok \in Tokens /\ read \in Nat \ {0} /\ read <= MaxTokens /\ MaxTokens \in Nat
         /\ CallsOK(calls, read) /\ IsSeq(calls) /\ Len(calls) \in Nat
         /\ CodeOK(bytecodes) /\ IsSeq(bytecodes) /\ Len(bytecodes) \in Nat
         /\ IsSeq(terms) /\ Len(terms) \in Nat
         /\ run = "ready"
<1>1. CallsOK(calls, read) /\ CodeOK(bytecodes) /\ IsSeq(terms)
  BY DEF SInv, Structure
<1>2. IsSeq(calls) /\ IsSeq(bytecodes)
  BY <1>1, SeqUntyped DEF CallsOK, CodeOK
<1>3. run = "ready"
  BY DEF SInv, Structure, Rendering, Parsing
<1> QED  BY <1>1, <1>2, <1>3, SeqDomain, TokensAssumption DEF SInv, Structure

(* what a step of the parser has to show *)
LEMMA StructureStep ==
  ASSUME SInv, Parsing, tok' \in Tokens, read' \in Nat, read <= read',
         before' = before, UNCHANGED renderer,
         at' \in {"not", "datum", "return", "accepted", "rejected", "undefined"},
         CallsOK(calls', read'), CodeOK(bytecodes'), IsSeq(terms'),
         json' = json \/ json' = NoJson \/ JsonOK',
         Arity'
  PROVE  Structure'
<1>1. read' \in Nat \ {0}
  BY Facts
<1>2. JsonOK'
  <2>1. CASE json' = json
    <3>1. JsonOK /\ read \in Nat
      BY DEF SInv, Structure
    <3>2. \A l \in Nat : l < read => l < read'
      BY <3>1
    <3> QED  BY <2>1, <3>1, <3>2 DEF JsonOK
  <2>2. CASE json' = NoJson
    <3>1. json'.level = 0
      BY <2>2, NoJsonIs
    <3>2. json'.level \in Nat /\ json'.level < read'
      BY <3>1, <1>1
    <3>3. json'.prev \in Tokens \cup {""}
      BY <2>2, NoJsonIs
    <3> QED  BY <3>2, <3>3 DEF JsonOK
  <2> QED  BY <2>1, <2>2
<1>3. Rendering'
  <2>1. Len(bytecodes') \in Nat
    BY SeqDomain DEF CodeOK
  <2>2. run' = "ready" /\ i' = 1 /\ m_stack' = <<>> /\ printed' = None
    BY Facts DEF SInv, Structure, Rendering, renderer
  <2> QED  BY <2>1, <2>2 DEF Rendering
<1>4. Before(before')
  BY DEF SInv, Structure
<1> QED  BY <1>1, <1>2, <1>3, <1>4 DEF Structure

LEMMA BridgedIs == \A l : Bridged(l).level = l /\ Bridged(l).prev = tok
BY DEF Bridged

(* Actions that write nothing.                                             *)
LEMMA KeepsStructure ==
  ASSUME SInv, Parsing, tok' \in Tokens, read' \in {read, read + 1, read + 2},
         UNCHANGED <<before, bytecodes, terms, renderer>>,
         at' \in {"not", "datum", "return"},
         CallsOK(calls', read'),
         json' = json \/ json' = NoJson \/ JsonOK',
         Arity'
  PROVE  Structure'
<1>1. read' \in Nat /\ read <= read'
  BY Facts
<1>2. CodeOK(bytecodes') /\ IsSeq(terms')
  BY Facts
<1> QED  BY <1>1, <1>2, StructureStep

LEMMA NotStructure == SInv /\ Not => Structure'
<1> SUFFICES ASSUME SInv, Not PROVE Structure'
  OBVIOUS
<1>1. Parsing /\ at = "not"
  BY DEF Not, Parsing
<1>2. read' = read + 1 /\ tok' \in Tokens /\ calls' = Append(calls, Call("not"))
      /\ at' = "not" /\ json' = json /\ UNCHANGED <<before, bytecodes, terms, renderer>>
  BY DEF Not, Reads
<1>3. read \in Nat \ {0} /\ read' \in Nat \ {0} /\ read <= read' /\ CallsOK(calls, read) /\ Len(terms) \in Nat
  BY <1>1, <1>2, Facts
<1>4. CallsOK(calls, read')
  BY <1>3, CallsLater
<1>5. CallsOK(calls', read') /\ \A n \in Nat : Holds(calls, n) => Holds(calls', n)
  BY <1>2, <1>3, <1>4, CallsEnter
<1>6. Holds(calls, Len(terms))
  BY <1>1 DEF SInv, Structure, Arity
<1>7. Arity'
  BY <1>2, <1>3, <1>5, <1>6 DEF Arity
<1> QED  BY <1>1, <1>2, <1>5, <1>7, KeepsStructure

LEMMA ComparisonStructure == SInv /\ Comparison => Structure'
<1> SUFFICES ASSUME SInv, Comparison PROVE Structure'
  OBVIOUS
<1>1. Parsing /\ at = "not"
  BY DEF Comparison, Parsing
<1>2. read' = read /\ tok' = tok /\ calls' = Append(calls, Call("comparison"))
      /\ at' = "datum" /\ json' = json /\ UNCHANGED <<before, bytecodes, terms, renderer>>
  BY DEF Comparison
<1>3. tok \in Tokens /\ read \in Nat \ {0} /\ CallsOK(calls, read) /\ Len(terms) \in Nat
  BY <1>1, Facts
<1>4. CallsOK(calls', read') /\ \A n \in Nat : Holds(calls, n) => Holds(calls', n)
  BY <1>2, <1>3, CallsEnter
<1>5. Holds(calls, Len(terms))
  BY <1>1 DEF SInv, Structure, Arity
<1>6. Arity'
  BY <1>2, <1>3, <1>4, <1>5 DEF Arity
<1> QED  BY <1>1, <1>2, <1>3, <1>4, <1>6, KeepsStructure

LEMMA LeftParenStructure == SInv /\ LeftParen => Structure'
<1> SUFFICES ASSUME SInv, LeftParen PROVE Structure'
  OBVIOUS
<1> DEFINE c == Append(calls, Call("paren"))
<1>1. Parsing /\ at = "datum"
  BY DEF LeftParen, Parsing
<1>2. read' = read + 1 /\ tok' \in Tokens /\ calls' = c \o Expression
      /\ at' = "not" /\ json' = NoJson /\ UNCHANGED <<before, bytecodes, terms, renderer>>
  BY DEF LeftParen, Reads
<1>3. read \in Nat \ {0} /\ read' \in Nat \ {0} /\ read <= read' /\ CallsOK(calls, read) /\ Len(terms) \in Nat
  BY <1>1, <1>2, Facts
<1>4. CallsOK(calls, read')
  BY <1>3, CallsLater
<1>5. CallsOK(c, read') /\ \A n \in Nat : Holds(calls, n) => Holds(c, n)
  BY <1>3, <1>4, CallsEnter
<1> HIDE DEF c
<1>6. CallsOK(calls', read') /\ \A n \in Nat : Holds(c, n) => Holds(calls', n)
  BY <1>2, <1>3, <1>5, CallsExpression
<1>7. Holds(calls, Len(terms))
  BY <1>1 DEF SInv, Structure, Arity
<1>8. Holds(calls', Len(terms))
  BY <1>3, <1>5, <1>6, <1>7
<1>9. Arity'
  BY <1>2, <1>8 DEF Arity
<1> QED  BY <1>1, <1>2, <1>6, <1>9, KeepsStructure

LEMMA CallWithArgumentsStructure == SInv /\ CallWithArguments => Structure'
<1> SUFFICES ASSUME SInv, CallWithArguments PROVE Structure'
  OBVIOUS
<1> DEFINE f == [Call("call") EXCEPT !.op = tok]
           c == Append(calls, f)
<1>1. Parsing /\ at = "datum"
  BY DEF CallWithArguments, Parsing
<1>2. read' = read + 2 /\ tok' \in Tokens /\ calls' = c \o Expression
      /\ at' = "not" /\ json' = NoJson /\ UNCHANGED <<before, bytecodes, terms, renderer>>
  BY DEF CallWithArguments, Reads
<1>3. tok \in Tokens /\ read \in Nat \ {0} /\ read' \in Nat \ {0} /\ read <= read'
      /\ CallsOK(calls, read) /\ Len(terms) \in Nat
  BY <1>1, <1>2, Facts
<1>4. CallsOK(calls, read')
  BY <1>3, CallsLater
<1>5. f \in Frame /\ f.n = 0 /\ Held(f) = 0
  BY <1>3 DEF Call, Frame, Held, IsBinary
<1> HIDE DEF f
<1>6. f.n < read'
  BY <1>3, <1>5
<1>7. CallsOK(c, read') /\ \A n \in Nat : Holds(calls, n) => Holds(c, n + 0)
  BY <1>3, <1>4, <1>5, <1>6, CallsPush
<1>8. \A n \in Nat : Holds(calls, n) => Holds(c, n)
  <2>1. \A n \in Nat : n + 0 = n
    OBVIOUS
  <2> QED  BY <2>1, <1>7
<1> HIDE DEF c
<1>9. CallsOK(calls', read') /\ \A n \in Nat : Holds(c, n) => Holds(calls', n)
  BY <1>2, <1>3, <1>7, CallsExpression
<1>10. Holds(calls, Len(terms))
  BY <1>1 DEF SInv, Structure, Arity
<1>11. Holds(calls', Len(terms))
  BY <1>3, <1>8, <1>9, <1>10
<1>12. Arity'
  BY <1>2, <1>11 DEF Arity
<1> QED  BY <1>1, <1>2, <1>9, <1>12, KeepsStructure

LEMMA PassthroughStructure == SInv /\ Passthrough => Structure'
<1> SUFFICES ASSUME SInv, Passthrough PROVE Structure'
  OBVIOUS
<1>1. Parsing /\ at = "datum"
  BY DEF Passthrough, Parsing
<1>2. read' = read + 1 /\ tok' \in Tokens /\ calls' = calls /\ at' = at
      /\ UNCHANGED <<before, bytecodes, terms, renderer>>
  BY DEF Passthrough, Reads
<1>3. tok \in Tokens /\ read \in Nat \ {0} /\ read' \in Nat \ {0} /\ read <= read'
      /\ CallsOK(calls, read)
  BY <1>1, <1>2, Facts
<1>4. CallsOK(calls', read')
  BY <1>2, <1>3, CallsLater
<1>5. json.level \in Nat /\ json.level < read
  BY DEF SInv, Structure, JsonOK
<1>6. PICK l : json' = Bridged(l) /\ l \in Nat /\ l <= json.level + 1
  <2>1. CASE json' = Bridged(json.level + 1)
    BY <2>1, <1>5
  <2>2. CASE json' = Bridged(json.level)
    BY <2>2, <1>5
  <2>3. CASE json.level > 1 /\ json' = Bridged(json.level - 1)
    <3>1. json.level - 1 \in Nat /\ json.level - 1 <= json.level + 1
      BY <2>3, <1>5
    <3> QED  BY <2>3, <3>1
  <2> QED  BY <2>1, <2>2, <2>3 DEF Passthrough
<1>7. json'.level = l /\ l < read'
  BY <1>2, <1>3, <1>5, <1>6, BridgedIs
<1>8. json'.prev = tok
  BY <1>6, BridgedIs
<1>9. json'.prev \in Tokens \cup {""}
  BY <1>3, <1>8
<1>10. JsonOK'
  BY <1>6, <1>7, <1>9 DEF JsonOK
<1>11. Holds(calls, Len(terms))
  BY <1>1 DEF SInv, Structure, Arity
<1>12. Arity'
  BY <1>1, <1>2, <1>11 DEF Arity
<1> QED  BY <1>1, <1>2, <1>4, <1>10, <1>12, KeepsStructure

(* Actions of a function that is returned to.                              *)
LEMMA SeqOne ==
  ASSUME NEW s, IsSeq(s)
  PROVE  s \o <<>> = s /\ \A x : s \o <<x>> = Append(s, x)
<1>1. s \o <<>> = s
  <2>1. s \in Seq({s[k] : k \in 1..Len(s)})
    BY SeqTyped
  <2> QED  BY <2>1, ConcatEmptySeq
<1>2. ASSUME NEW x PROVE s \o <<x>> = Append(s, x)
  <2> DEFINE S == {s[k] : k \in 1..Len(s)} \cup {x}
  <2>1. s \in Seq(S) /\ x \in S
    BY SeqTyped
  <2> HIDE DEF S
  <2> QED  BY <2>1, AppendIsConcat
<1> QED  BY <1>1, <1>2

LEMMA ReturnedFacts ==
  ASSUME SInv, returned
  PROVE  /\ Parsing
         /\ caller \in Frame /\ caller.n \in Nat /\ caller.n < read
         /\ CallsOK(Front(calls), read)
         /\ Len(terms) \in Nat \ {0} /\ Held(caller) \in Nat
         /\ (Len(terms) - 1) - Held(caller) \in Nat
         /\ Holds(Front(calls), (Len(terms) - 1) - Held(caller))
<1>1. Parsing /\ at = "return" /\ calls # <<>>
  BY DEF returned, Parsing
<1>2. read \in Nat /\ CallsOK(calls, read)
  BY <1>1, Facts
<1>3. Len(terms) \in Nat \ {0} /\ Holds(calls, Len(terms) - 1)
  BY <1>1 DEF SInv, Structure, Arity
<1>4. Len(terms) - 1 \in Nat
  BY <1>3
<1>5. CallsOK(Front(calls), read) /\ caller \in Frame /\ caller.n < read
  BY <1>1, <1>2, CallsPop DEF caller
<1>6. /\ (Len(terms) - 1) - Held(caller) \in Nat
      /\ Holds(Front(calls), (Len(terms) - 1) - Held(caller))
  BY <1>1, <1>2, <1>3, <1>4, CallsPop DEF caller
<1>7. caller.n \in Nat /\ Held(caller) \in Nat
  BY <1>5, HeldIsNat DEF Frame
<1> QED  BY <1>1, <1>3, <1>5, <1>6, <1>7

LEMMA ReplacedCaller ==
  ASSUME SInv, returned, NEW f
  PROVE  ReplaceAt(calls, Len(calls), f) = Append(Front(calls), f)
<1>1. IsSeq(calls) /\ calls # <<>>
  BY ReturnedFacts, Facts DEF returned
<1> QED  BY <1>1, SeqReplaced

LEMMA OperatorFrame ==
  ASSUME SInv, returned, IsBinary(caller.function), caller.op = "",
         tok \in operators(caller.function)
  PROVE  LET f == [caller EXCEPT !.op = tok]
         IN  f \in Frame /\ f.n = caller.n /\ Held(f) = 1 /\ Held(caller) = 0
<1>1. caller \in Frame /\ tok \in Tokens
  BY ReturnedFacts, Facts
<1>2. tok \in {"or", "and"} \cup Comparisons /\ tok # ""
  BY DEF operators, IsBinary, Comparisons
<1>3. caller.function # "call"
  BY DEF IsBinary
<1> QED  BY <1>1, <1>2, <1>3 DEF Frame, Held

LEMMA OperatorStructure == SInv /\ Operator => Structure'
<1> SUFFICES ASSUME SInv, Operator PROVE Structure'
  OBVIOUS
<1> DEFINE f == [caller EXCEPT !.op = tok]
           c == Append(Front(calls), f)
           m == (Len(terms) - 1) - Held(caller)
<1>1. returned /\ IsBinary(caller.function) /\ caller.op = "" /\ tok \in operators(caller.function)
  BY DEF Operator
<1>2. read' = read + 1 /\ tok' \in Tokens /\ json' = json
      /\ at' \in {"datum", "not"} /\ UNCHANGED <<before, bytecodes, terms, renderer>>
  BY DEF Operator, Reads
<1>3. calls' = ReplaceAt(calls, Len(calls), f) \o
                 (IF caller.function = "or" THEN <<Call("and")>> ELSE <<>>)
  BY DEF Operator
<1>4. ReplaceAt(calls, Len(calls), f) = c
  BY <1>1, ReplacedCaller
<1>5. f \in Frame /\ f.n = caller.n /\ Held(f) = 1 /\ Held(caller) = 0
  BY <1>1, OperatorFrame
<1>6. Parsing /\ caller.n \in Nat /\ caller.n < read /\ CallsOK(Front(calls), read)
      /\ Len(terms) \in Nat \ {0} /\ m \in Nat /\ Holds(Front(calls), m)
  BY <1>1, ReturnedFacts
<1>7. m + 1 = Len(terms)
  BY <1>5, <1>6
<1>8. read \in Nat \ {0} /\ read' \in Nat \ {0} /\ read <= read'
  BY <1>2, <1>6, Facts
<1> HIDE DEF f, m
<1>9. CallsOK(c, read) /\ Holds(c, m + 1)
  BY <1>5, <1>6, <1>8, CallsPush
<1> HIDE DEF c
<1>10. CallsOK(c, read') /\ Holds(c, Len(terms)) /\ IsSeq(c)
  BY <1>7, <1>8, <1>9, CallsLater, SeqUntyped DEF CallsOK
<1>11. CallsOK(calls', read') /\ Holds(calls', Len(terms))
  <2>1. CASE caller.function = "or"
    <3>1. calls' = Append(c, Call("and"))
      BY <2>1, <1>3, <1>4, <1>10, SeqOne
    <3>2. Len(terms) \in Nat
      BY <1>6
    <3> QED  BY <3>1, <3>2, <1>8, <1>10, CallsEnter
  <2>2. CASE caller.function # "or"
    <3>1. calls' = c
      BY <2>2, <1>3, <1>4, <1>10, SeqOne
    <3> QED  BY <3>1, <1>10
  <2> QED  BY <2>1, <2>2
<1>12. Arity'
  BY <1>2, <1>11 DEF Arity
<1> QED  BY <1>2, <1>6, <1>11, <1>12, KeepsStructure

(* returning what was returned *)
LEMMA PassesOn ==
  ASSUME SInv, returned, Returns, tok' \in Tokens, read' \in {read, read + 1}, json' = json,
         UNCHANGED <<before, bytecodes, terms, renderer>>, Held(caller) = 0
  PROVE  Structure'
<1>1. Parsing /\ CallsOK(Front(calls), read) /\ Len(terms) \in Nat \ {0}
      /\ Holds(Front(calls), (Len(terms) - 1) - 0)
  BY ReturnedFacts
<1>2. (Len(terms) - 1) - 0 = Len(terms) - 1
  BY <1>1
<1>3. read \in Nat /\ read' \in Nat /\ read <= read'
  BY <1>1, Facts
<1>4. CallsOK(calls', read')
  BY <1>1, <1>3, CallsLater DEF Returns
<1>5. Arity'
  BY <1>1, <1>2 DEF Arity, Returns
<1> QED  BY <1>1, <1>4, <1>5, KeepsStructure DEF Returns

LEMMA NoOperatorStructure == SInv /\ NoOperator => Structure'
<1> SUFFICES ASSUME SInv, NoOperator PROVE Structure'
  OBVIOUS
<1>1. returned /\ IsBinary(caller.function) /\ caller.op = "" /\ Returns
      /\ UNCHANGED <<tok, read, json, before, bytecodes, terms, renderer>>
  BY DEF NoOperator
<1>2. Held(caller) = 0
  BY <1>1 DEF Held, IsBinary
<1>3. tok \in Tokens
  BY <1>1, ReturnedFacts, Facts
<1> QED  BY <1>1, <1>2, <1>3, PassesOn

LEMMA RightParenStructure == SInv /\ RightParen => Structure'
<1> SUFFICES ASSUME SInv, RightParen PROVE Structure'
  OBVIOUS
<1>1. returned /\ caller.function = "paren" /\ Returns /\ tok' \in Tokens /\ read' = read + 1
      /\ UNCHANGED <<json, before, bytecodes, terms, renderer>>
  BY DEF RightParen, Reads
<1>2. Held(caller) = 0
  BY <1>1 DEF Held, IsBinary
<1> QED  BY <1>1, <1>2, PassesOn

LEMMA NextArgumentStructure == SInv /\ NextArgument => Structure'
<1> SUFFICES ASSUME SInv, NextArgument PROVE Structure'
  OBVIOUS
<1> DEFINE f == [caller EXCEPT !.n = @ + 1]
           c == Append(Front(calls), f)
           m == (Len(terms) - 1) - Held(caller)
<1>1. returned /\ caller.function = "call" /\ read' = read + 1 /\ tok' \in Tokens /\ json' = json
      /\ at' = "not" /\ UNCHANGED <<before, bytecodes, terms, renderer>>
  BY DEF NextArgument, Reads
<1>2. calls' = ReplaceAt(calls, Len(calls), f) \o Expression
  BY DEF NextArgument
<1>3. ReplaceAt(calls, Len(calls), f) = c
  BY <1>1, ReplacedCaller
<1>4. Parsing /\ caller \in Frame /\ caller.n \in Nat /\ caller.n < read /\ CallsOK(Front(calls), read)
      /\ Len(terms) \in Nat \ {0} /\ m \in Nat /\ Holds(Front(calls), m)
  BY <1>1, ReturnedFacts
<1>5. f \in Frame /\ f.n = caller.n + 1 /\ Held(f) = caller.n + 1 /\ Held(caller) = caller.n
  <2>1. f = [caller EXCEPT !.n = caller.n + 1] /\ caller.n + 1 \in Nat
    BY <1>4
  <2>2. caller \in [function : {"or", "and", "not", "comparison", "paren", "call"},
                    op : Tokens \cup {""}, n : Nat]
    BY <1>4 DEF Frame
  <2> HIDE DEF f
  <2>3. f \in [function : {"or", "and", "not", "comparison", "paren", "call"},
               op : Tokens \cup {""}, n : Nat]
    BY <2>1, <2>2
  <2>4. f.n = caller.n + 1
    BY <2>1, <2>2
  <2>5. f.function = "call"
    BY <2>1, <2>2, <1>1
  <2>6. f \in Frame
    BY <2>3, <2>5 DEF Frame, IsBinary
  <2>7. Held(f) = f.n /\ Held(caller) = caller.n
    BY <2>5, <1>1 DEF Held
  <2> QED  BY <2>4, <2>6, <2>7
<1>6. read \in Nat \ {0} /\ read' \in Nat \ {0} /\ read <= read' /\ f.n < read'
  BY <1>1, <1>4, <1>5, Facts
<1>7. m + (caller.n + 1) = Len(terms)
  BY <1>4, <1>5
<1> HIDE DEF f, m
<1>8. CallsOK(Front(calls), read')
  BY <1>4, <1>6, CallsLater
<1>9. CallsOK(c, read') /\ Holds(c, Len(terms))
  BY <1>4, <1>5, <1>6, <1>7, <1>8, CallsPush
<1> HIDE DEF c
<1>10. CallsOK(calls', read') /\ Holds(calls', Len(terms))
  BY <1>2, <1>3, <1>4, <1>6, <1>9, CallsExpression
<1>11. Arity'
  BY <1>1, <1>10 DEF Arity
<1> QED  BY <1>1, <1>4, <1>10, <1>11, KeepsStructure

(* Actions that write.                                                     *)
LEMMA PushStructure ==
  ASSUME SInv, at = "datum", NEW l, Pushes(l), tok' \in Tokens, read' \in {read, read + 1},
         at' = "return", UNCHANGED <<calls, before, renderer>>,
         json' = json \/ json' = NoJson
  PROVE  Structure'
<1>1. Parsing
  BY DEF Parsing
<1>2. /\ read \in Nat /\ CallsOK(calls, read) /\ CodeOK(bytecodes) /\ IsSeq(terms)
      /\ Len(terms) \in Nat /\ MaxTokens \in Nat
  BY <1>1, Facts
<1>3. bytecodes' = Append(bytecodes, Push(l)) /\ terms' = Append(terms, LeafTerm(l))
  BY DEF Pushes
<1>4. read' \in Nat /\ read <= read'
  BY <1>2
<1>5. CallsOK(calls', read')
  BY <1>2, <1>4, CallsLater
<1>6. CodeOK(bytecodes')
  <2>1. Push(l).args \in 0..MaxTokens
    BY <1>2 DEF Push, Code
  <2> QED  BY <2>1, <1>2, <1>3, CodeAppend
<1>7. IsSeq(terms') /\ Len(terms') = Len(terms) + 1
  BY <1>2, <1>3, SeqAppend
<1>8. Holds(calls, Len(terms))
  BY DEF SInv, Structure, Arity
<1>9. Len(terms') \in Nat \ {0} /\ Len(terms') - 1 = Len(terms)
  BY <1>2, <1>7
<1>10. Arity'
  BY <1>8, <1>9 DEF Arity
<1> QED  BY <1>1, <1>4, <1>5, <1>6, <1>7, <1>10, StructureStep

LEMMA VariableStructure == SInv /\ Variable => Structure'
<1> SUFFICES ASSUME SInv, Variable PROVE Structure'
  OBVIOUS
<1>1. at = "datum" /\ Pushes(Leaf("lookup", tok, read)) /\ tok' \in Tokens /\ read' = read + 1
      /\ at' = "return" /\ UNCHANGED <<calls, before, renderer>> /\ json' = NoJson
  BY DEF Variable, Reads
<1> QED  BY <1>1, PushStructure

LEMMA LiteralStructure == SInv /\ Literal => Structure'
<1> SUFFICES ASSUME SInv, Literal PROVE Structure'
  OBVIOUS
<1>1. at = "datum" /\ Pushes(Leaf("literal", "", read)) /\ tok' \in Tokens /\ read' = read + 1
      /\ at' = "return" /\ UNCHANGED <<calls, before, renderer>> /\ json' = json
  BY DEF Literal, Reads
<1> QED  BY <1>1, PushStructure

LEMMA LastBracketStructure == SInv /\ LastBracket => Structure'
<1> SUFFICES ASSUME SInv, LastBracket PROVE Structure'
  OBVIOUS
<1>1. at = "datum" /\ Pushes(Leaf("literal", "", json.position)) /\ tok' \in Tokens
      /\ read' = read + 1
      /\ at' = "return" /\ UNCHANGED <<calls, before, renderer>> /\ json' = NoJson
  BY DEF LastBracket, Reads
<1> QED  BY <1>1, PushStructure

(* n terms become one *)
LEMMA WrittenArity ==
  ASSUME SInv, Parsing, NEW n \in Nat, n <= Len(terms), NEW fn, NEW name, Written(fn, name, n)
  PROVE  IsSeq(terms') /\ Len(terms') \in Nat \ {0} /\ Len(terms') - 1 = Len(terms) - n
<1>1. IsSeq(terms) /\ Len(terms) \in Nat
  BY Facts
<1>2. terms' = WrittenOn(terms, fn, name, n)
  BY WrittenStep
<1>3. IsSeq(terms') /\ Len(terms') = Len(terms) - n + 1
  BY <1>1, <1>2, WrittenIs
<1> QED  BY <1>1, <1>3

LEMMA CalledStructure ==
  ASSUME SInv, Parsing, NEW n \in 0..MaxTokens, n <= Len(terms), NEW name, Called(name, n)
  PROVE  /\ CodeOK(bytecodes')
         /\ IsSeq(terms') /\ Len(terms') \in Nat \ {0} /\ Len(terms') - 1 = Len(terms) - n
         /\ at' \in {"undefined", "return"}
<1>1. CodeOK(bytecodes) /\ IsSeq(bytecodes) /\ Len(bytecodes) \in Nat /\ MaxTokens \in Nat
  BY Facts
<1>2. n \in Nat
  BY <1>1
<1>3. at' \in {"undefined", "return"}
  BY DEF Called
<1>4. \E fn, m : Written(fn, m, n)
  BY DEF Called
<1>5. IsSeq(terms') /\ Len(terms') \in Nat \ {0} /\ Len(terms') - 1 = Len(terms) - n
  BY <1>2, <1>4, WrittenArity
<1>6. CodeOK(bytecodes')
  <2>1. CASE bytecodes' = append_function(bytecodes, name, n)
    BY <2>1, <1>1, CodeFunction
  <2>2. CASE bytecodes' = IF Len(bytecodes) < 2 THEN bytecodes
                          ELSE append_function(swapped(bytecodes), name, n)
    <3>1. CASE Len(bytecodes) < 2
      BY <2>2, <3>1, <1>1
    <3>2. CASE ~(Len(bytecodes) < 2)
      <4>1. CodeOK(swapped(bytecodes))
        BY <3>2, <1>1, CodeSwapped
      <4>2. CodeOK(append_function(swapped(bytecodes), name, n))
        BY <4>1, CodeFunction
      <4> QED  BY <2>2, <3>2, <4>2
    <3> QED  BY <3>1, <3>2
  <2>3. CASE bytecodes' = append_callback(bytecodes, name, n)
    BY <2>3, <1>1, CodeFunction
  <2> QED  BY <2>1, <2>2, <2>3 DEF Called
<1> QED  BY <1>3, <1>5, <1>6

LEMMA CallWithoutArgumentsStructure == SInv /\ CallWithoutArguments => Structure'
<1> SUFFICES ASSUME SInv, CallWithoutArguments PROVE Structure'
  OBVIOUS
<1>1. at = "datum" /\ Called(tok, 0) /\ tok' \in Tokens /\ read' = read + 3
      /\ UNCHANGED <<calls, before, renderer>> /\ json' = NoJson
  BY DEF CallWithoutArguments, Reads
<1>2. Parsing
  BY <1>1 DEF Parsing
<1>3. read \in Nat /\ CallsOK(calls, read) /\ Len(terms) \in Nat /\ MaxTokens \in Nat
  BY <1>2, Facts
<1>4. 0 \in 0..MaxTokens /\ 0 <= Len(terms) /\ Len(terms) - 0 = Len(terms)
  BY <1>3
<1>5. /\ CodeOK(bytecodes') /\ IsSeq(terms')
      /\ Len(terms') \in Nat \ {0} /\ Len(terms') - 1 = Len(terms) - 0
      /\ at' \in {"undefined", "return"}
  BY <1>1, <1>2, <1>4, CalledStructure
<1>6. read' \in Nat /\ read <= read'
  BY <1>1, <1>3
<1>7. CallsOK(calls', read')
  BY <1>1, <1>3, <1>6, CallsLater
<1>8. Holds(calls, Len(terms))
  BY <1>1 DEF SInv, Structure, Arity
<1>9. Arity'
  BY <1>1, <1>4, <1>5, <1>8 DEF Arity
<1> QED  BY <1>1, <1>2, <1>5, <1>6, <1>7, <1>9, StructureStep

LEMMA LastArgumentStructure == SInv /\ LastArgument => Structure'
<1> SUFFICES ASSUME SInv, LastArgument PROVE Structure'
  OBVIOUS
<1> DEFINE n == caller.n + 1
           m == (Len(terms) - 1) - Held(caller)
<1>1. returned /\ caller.function = "call" /\ Called(caller.op, n) /\ tok' \in Tokens
      /\ read' = read + 1 /\ calls' = Front(calls) /\ UNCHANGED <<json, before, renderer>>
  BY DEF LastArgument, Reads
<1>2. Parsing /\ caller.n \in Nat /\ caller.n < read /\ CallsOK(Front(calls), read)
      /\ Len(terms) \in Nat \ {0} /\ m \in Nat /\ Holds(Front(calls), m)
  BY <1>1, ReturnedFacts
<1>3. Held(caller) = caller.n
  BY <1>1 DEF Held
<1>4. read \in Nat /\ read <= MaxTokens /\ MaxTokens \in Nat
  BY <1>2, Facts
<1>5. n \in 0..MaxTokens /\ n <= Len(terms) /\ Len(terms) - n = m
  BY <1>2, <1>3, <1>4
<1> HIDE DEF n, m
<1>6. /\ CodeOK(bytecodes') /\ IsSeq(terms')
      /\ Len(terms') \in Nat \ {0} /\ Len(terms') - 1 = Len(terms) - n
      /\ at' \in {"undefined", "return"}
  BY <1>1, <1>2, <1>5, CalledStructure
<1>7. read' \in Nat /\ read <= read'
  BY <1>1, <1>4
<1>8. CallsOK(calls', read')
  BY <1>1, <1>2, <1>4, <1>7, CallsLater
<1>9. Arity'
  BY <1>1, <1>2, <1>5, <1>6 DEF Arity
<1> QED  BY <1>1, <1>2, <1>6, <1>7, <1>8, <1>9, StructureStep

(* an operator with n operands, n - 1 of them held *)
LEMMA OperandStructure ==
  ASSUME SInv, returned, NEW n \in Nat, n <= 2, Held(caller) + 1 = n, NEW op, NEW name,
         bytecodes' = append_function(bytecodes, op, n), Written(op, name, n), Returns,
         tok' = tok, read' = read, json' = json, before' = before, UNCHANGED renderer
  PROVE  Structure'
<1> DEFINE m == (Len(terms) - 1) - Held(caller)
<1>1. Parsing /\ CallsOK(Front(calls), read)
      /\ Len(terms) \in Nat \ {0} /\ m \in Nat /\ Holds(Front(calls), m)
      /\ Held(caller) \in Nat
  BY ReturnedFacts
<1>2. tok \in Tokens /\ read \in Nat /\ CodeOK(bytecodes) /\ n \in 0..MaxTokens
  <2>1. MaxTokens \in Nat /\ 2 <= MaxTokens
    BY TokensAssumption
  <2> QED  BY <2>1, <1>1, Facts
<1>3. n \in Nat /\ n <= Len(terms) /\ Len(terms) - n = m
  <2>1. \A L, h \in Nat : (L - 1) - h \in Nat => h + 1 <= L /\ L - (h + 1) = (L - 1) - h
    OBVIOUS
  <2>2. Len(terms) \in Nat /\ (Len(terms) - 1) - Held(caller) \in Nat
    BY <1>1
  <2> QED  BY <2>1, <2>2, <1>1
<1> HIDE DEF m
<1>4. IsSeq(terms') /\ Len(terms') \in Nat \ {0} /\ Len(terms') - 1 = m
  BY <1>1, <1>3, WrittenArity
<1>5. CodeOK(bytecodes')
  BY <1>2, CodeFunction
<1>6. calls' = Front(calls) /\ at' = "return" /\ read' = read /\ tok' = tok
  BY DEF Returns
<1>7. Arity'
  BY <1>1, <1>4, <1>6 DEF Arity
<1>8. read' \in Nat /\ read <= read' /\ tok' \in Tokens /\ CallsOK(calls', read')
  BY <1>1, <1>2, <1>6
<1> QED  BY <1>1, <1>4, <1>5, <1>6, <1>7, <1>8, StructureStep

LEMMA SecondOperandStructure == SInv /\ SecondOperand => Structure'
<1> SUFFICES ASSUME SInv, SecondOperand PROVE Structure'
  OBVIOUS
<1>1. returned /\ IsBinary(caller.function) /\ caller.op # ""
      /\ bytecodes' = append_function(bytecodes, caller.op, 2) /\ Written(caller.op, "", 2)
      /\ Returns /\ UNCHANGED <<tok, read, json, before, renderer>>
  BY DEF SecondOperand
<1>2. Held(caller) = 1
  BY <1>1 DEF Held, IsBinary
<1>3. 2 \in Nat /\ 2 <= 2 /\ Held(caller) + 1 = 2
  BY <1>2
<1> QED  BY <1>1, <1>3, OperandStructure

LEMMA NegationStructure == SInv /\ Negation => Structure'
<1> SUFFICES ASSUME SInv, Negation PROVE Structure'
  OBVIOUS
<1>1. returned /\ caller.function = "not"
      /\ bytecodes' = append_function(bytecodes, "not", 1) /\ Written("not", "", 1)
      /\ Returns /\ UNCHANGED <<tok, read, json, before, renderer>>
  BY DEF Negation
<1>2. Held(caller) = 0
  BY <1>1 DEF Held, IsBinary
<1>3. 1 \in Nat /\ 1 <= 2 /\ Held(caller) + 1 = 1
  BY <1>2
<1> QED  BY <1>1, <1>3, OperandStructure

LEMMA RejectStructure == SInv /\ Reject => Structure'
<1> SUFFICES ASSUME SInv, Reject PROVE Structure'
  OBVIOUS
<1>1. Parsing
  BY DEF Reject, Unexpected, returned, Parsing
<1>2. UNCHANGED <<tok, read, before, renderer>> /\ at' = "rejected"
      /\ calls' = <<>> /\ bytecodes' = <<>> /\ terms' = <<>> /\ json' = NoJson
  BY DEF Reject
<1>3. CodeOK(<<>>) /\ IsSeq(<<>>) /\ CallsOK(<<>>, read')
  BY SeqEmpty, NoCalls DEF CodeOK
<1>4. Arity'
  BY <1>2 DEF Arity
<1>5. tok' \in Tokens /\ read' \in Nat /\ read <= read'
  BY <1>1, <1>2, Facts
<1> QED  BY <1>1, <1>2, <1>3, <1>4, <1>5, StructureStep

LEMMA ExpressionCloseStructure == SInv /\ ExpressionClose => Structure'
<1> SUFFICES ASSUME SInv, ExpressionClose PROVE Structure'
  OBVIOUS
<1>1. at = "return" /\ calls = <<>> /\ bytecodes' = append_function(bytecodes, "PrintValue", 1)
      /\ at' = "accepted" /\ UNCHANGED <<tok, read, calls, json, before, terms, renderer>>
  BY DEF ExpressionClose
<1>2. Parsing
  BY <1>1 DEF Parsing
<1>3. tok \in Tokens /\ read \in Nat /\ CodeOK(bytecodes) /\ IsSeq(terms) /\ CallsOK(calls, read)
  BY <1>2, Facts
<1>4. Len(terms) \in Nat \ {0} /\ Holds(<<>>, Len(terms) - 1)
  BY <1>1 DEF SInv, Structure, Arity
<1>5. Len(terms) = 1
  BY <1>4, EmptyHolds
<1>6. Arity'
  BY <1>1, <1>5 DEF Arity
<1>7. CodeOK(bytecodes')
  <2>1. 1 \in 0..MaxTokens
    BY TokensAssumption
  <2> QED  BY <2>1, <1>1, <1>3, CodeFunction
<1>8. tok' \in Tokens /\ read' \in Nat /\ read <= read'
  BY <1>1, <1>3
<1> QED  BY <1>1, <1>2, <1>3, <1>6, <1>7, <1>8, StructureStep

LEMMA ParseStructure == SInv /\ ParseStep => Structure'
<1> SUFFICES ASSUME SInv, ParseStep PROVE Structure'
  OBVIOUS
<1>1. CASE Not  BY <1>1, NotStructure
<1>2. CASE Comparison  BY <1>2, ComparisonStructure
<1>3. CASE LeftParen  BY <1>3, LeftParenStructure
<1>4. CASE Variable  BY <1>4, VariableStructure
<1>5. CASE CallWithoutArguments  BY <1>5, CallWithoutArgumentsStructure
<1>6. CASE CallWithArguments  BY <1>6, CallWithArgumentsStructure
<1>7. CASE Literal  BY <1>7, LiteralStructure
<1>8. CASE Passthrough  BY <1>8, PassthroughStructure
<1>9. CASE LastBracket  BY <1>9, LastBracketStructure
<1>10. CASE Operator  BY <1>10, OperatorStructure
<1>11. CASE NoOperator  BY <1>11, NoOperatorStructure
<1>12. CASE SecondOperand  BY <1>12, SecondOperandStructure
<1>13. CASE Negation  BY <1>13, NegationStructure
<1>14. CASE RightParen  BY <1>14, RightParenStructure
<1>15. CASE NextArgument  BY <1>15, NextArgumentStructure
<1>16. CASE LastArgument  BY <1>16, LastArgumentStructure
<1>17. CASE Reject  BY <1>17, RejectStructure
<1>18. CASE ExpressionClose  BY <1>18, ExpressionCloseStructure
<1> QED
  BY <1>1, <1>2, <1>3, <1>4, <1>5, <1>6, <1>7, <1>8, <1>9, <1>10, <1>11, <1>12,
     <1>13, <1>14, <1>15, <1>16, <1>17, <1>18 DEF ParseStep

LEMMA OpenIsNat == ASSUME CallsOK(calls, read) PROVE Open \in Nat
<1> DEFINE S == {k \in DOMAIN calls : calls[k].function \in {"paren", "call"}}
<1>1. DOMAIN calls = 1..Len(calls) /\ Len(calls) \in Nat
  BY LenProperties DEF CallsOK
<1>2. IsFiniteSet(DOMAIN calls)
  BY <1>1, FS_Interval
<1>3. S \subseteq DOMAIN calls
  OBVIOUS
<1> HIDE DEF S
<1>4. IsFiniteSet(S)
  BY <1>2, <1>3, FS_Subset
<1>5. Cardinality(S) \in Nat
  BY <1>4, FS_CardinalityType
<1> QED  BY <1>5 DEF Open, S

LEMMA BoundedReads == Structure /\ Bounded => read <= MaxTokens
<1> SUFFICES ASSUME Structure, Bounded PROVE read <= MaxTokens
  OBVIOUS
<1>1. Open \in Nat /\ read \in Nat /\ MaxTokens \in Nat
  BY OpenIsNat, TokensAssumption DEF Structure
<1> QED  BY <1>1 DEF Bounded

LEMMA RenderStep ==
  ASSUME SInv, UNCHANGED parser, Rendering'
  PROVE  SInv'
<1>1. /\ tok' = tok /\ read' = read /\ at' = at /\ calls' = calls /\ json' = json
      /\ before' = before /\ bytecodes' = bytecodes /\ terms' = terms
  BY DEF parser
<1>2. Arity'
  BY <1>1 DEF SInv, Structure, Arity
<1>3. JsonOK'
  BY <1>1 DEF SInv, Structure, JsonOK
<1> QED  BY <1>1, <1>2, <1>3 DEF SInv, Structure

LEMMA RenderStructure == SInv /\ Render => SInv'
<1> SUFFICES ASSUME SInv, Render PROVE SInv'
  OBVIOUS
<1>1. /\ run \in {"ready", "running", "done", "missing", "refused", "undefined"}
      /\ run # "ready" => at = "accepted"
      /\ i \in 1..(Len(bytecodes) + 1)
      /\ Len(bytecodes) \in Nat
  BY SeqDomain DEF SInv, Structure, Rendering, CodeOK
<1>2. UNCHANGED parser
  BY DEF Render, Start, RunPush, RunFunction, RunCallback, RunDefault, RunPrint, Missing, Refused,
         Undefined, Finish, Ends
<1>3. at' = at /\ bytecodes' = bytecodes
  BY <1>2 DEF parser
<1>4. Rendering'
  <2>1. CASE Start
    BY <2>1, <1>1, <1>3 DEF Start, Rendering
  <2>2. CASE RunPush \/ RunFunction \/ RunCallback \/ RunDefault \/ RunPrint
    <3>1. run = "running" /\ run' = run /\ i <= Len(bytecodes) /\ i' = i + 1
      BY <2>2 DEF RunPush, RunFunction, RunCallback, RunDefault, RunPrint, Stepping
    <3>2. i' \in 1..(Len(bytecodes') + 1)
      BY <3>1, <1>1, <1>3
    <3> QED  BY <3>1, <3>2, <1>1, <1>3 DEF Rendering
  <2>3. CASE Missing \/ Refused \/ Undefined \/ Finish
    <3>1. run = "running" /\ i' = i /\ run' \in {"missing", "refused", "undefined", "done"}
      BY <2>3 DEF Missing, Refused, Undefined, Finish, Ends, Stepping
    <3> QED  BY <3>1, <1>1, <1>3 DEF Rendering
  <2> QED  BY <2>1, <2>2, <2>3 DEF Render
<1> QED  BY <1>2, <1>4, RenderStep

LEMMA NextStructure == SInv /\ [Next]_vars => SInv'
<1> SUFFICES ASSUME SInv, [Next]_vars PROVE SInv'
  OBVIOUS
<1>1. CASE Parse
  <2>1. Structure' /\ Bounded'
    BY <1>1, ParseStructure DEF Parse
  <2>2. (read <= MaxTokens)'
    BY <2>1, BoundedReads, PTL
  <2> QED  BY <2>1, <2>2 DEF SInv
<1>2. CASE Render
  BY <1>2, RenderStructure
<1>3. CASE UNCHANGED vars
  <2>1. UNCHANGED parser /\ UNCHANGED renderer
    BY <1>3 DEF vars
  <2>2. Rendering'
    BY <2>1 DEF parser, renderer, SInv, Structure, Rendering
  <2> QED  BY <2>1, <2>2, RenderStep
<1> QED  BY <1>1, <1>2, <1>3 DEF Next

LEMMA StructureHolds == Spec => []SInv
<1> QED  BY InitStructure, NextStructure, PTL DEF Spec

(* Types: the parse functions, the program and the next bytecode are those  *)
(* of a compiler and an interpreter that do not lose count.                 *)
THEOREM TypeCorrect == Spec => []TypeOK
<1>1. SInv => TypeOK
  <2> SUFFICES ASSUME SInv PROVE TypeOK
    OBVIOUS
  <2>1. /\ tok \in Tokens /\ read \in 1..MaxTokens /\ MaxTokens \in Nat
        /\ at \in {"not", "datum", "return", "accepted", "rejected", "undefined"}
    BY TokensAssumption DEF SInv, Structure
  <2>2. ASSUME NEW k \in DOMAIN calls
        PROVE  /\ calls[k].function \in {"or", "and", "not", "comparison", "paren", "call"}
               /\ calls[k].op \in Tokens \cup {""} /\ calls[k].n \in 0..MaxTokens
    <3>1. CallsOK(calls, read)
      BY DEF SInv, Structure
    <3>2. DOMAIN calls = 1..Len(calls) /\ calls[k] \in Frame
      BY <3>1, LenProperties, ElementOfSeq DEF CallsOK
    <3>3. calls[k].n \in Nat /\ calls[k].n < read
      BY <3>1, <3>2 DEF CallsOK, Frame
    <3>4. calls[k].n \in 0..MaxTokens
      BY <3>3, <2>1
    <3> QED  BY <3>2, <3>4 DEF Frame
  <2>3. json.level \in 0..MaxTokens
    <3>1. json.level \in Nat /\ json.level < read
      BY DEF SInv, Structure, JsonOK
    <3> QED  BY <3>1, <2>1
  <2>4. json.prev \in Tokens \cup {""}
    BY DEF SInv, Structure, JsonOK
  <2>5. \A k \in DOMAIN bytecodes : bytecodes[k].args \in 0..MaxTokens
    <3>1. CodeOK(bytecodes)
      BY DEF SInv, Structure
    <3> QED  BY <3>1, SeqDomain DEF CodeOK
  <2>6. /\ at = "accepted" => Len(terms) = 1
        /\ i \in 1..(Len(bytecodes) + 1)
        /\ run \in {"ready", "running", "done", "missing", "refused", "undefined"}
    BY DEF SInv, Structure, Arity, Rendering
  <2> QED  BY <2>1, <2>2, <2>3, <2>4, <2>5, <2>6 DEF TypeOK
<1> QED  BY <1>1, StructureHolds, PTL

(***************************************************************************)
(* What a program leaves on the stack                                      *)
(***************************************************************************)

V(leaf) == LeafTerm(leaf).value

(* what the bytecode c does to the stack S, where a missing name leaves     *)
(* Thrown                                                                   *)
Imms(c) == IF c.imm # None THEN 1 ELSE 0
Pops(c) == c.args - Imms(c)
Below(c, S) == SubSeq(S, 1, Len(S) - Pops(c))
Args(c, S) ==
  SubSeq(S, Len(S) - Pops(c) + 1, Len(S)) \o (IF c.imm # None THEN <<V(c.imm)>> ELSE <<>>)

Chosen(x, y) == IF x = Thrown \/ y = Thrown THEN y ELSE x

Effect(c, S) ==
  IF c.op = "Push" THEN Append(S, V(c.imm))
  ELSE IF c.op = "default" THEN Append(Front(S), Chosen(V(c.imm), Last(S)))
  ELSE Append(Below(c, S), Meaning(c.op, c.name, Args(c, S)))

(* and when what it does is defined *)
PlainOp(op) == op \notin {"Push", "default", "PrintValue", "thrown"} \cup Unchecked
Ordinary(op, name) == PlainOp(op) /\ (op # "Callback" => name = "")
Names(leaf) == leaf.fn \in {"literal", "lookup"}
Fine(c, S) ==
  /\ c.args \in Nat
  /\ c.imm # None => Names(c.imm)
  /\ \/ c.op = "Push" /\ c.imm # None
     \/ c.op = "default" /\ c.imm # None /\ S # <<>>
     \/ Ordinary(c.op, c.name) /\ Pops(c) \in 0..Len(S)

Tainted(S) == \E k \in 1..Len(S) : S[k] = Thrown

(* r is what the program b leaves on the stack, bytecode by bytecode *)
Runs(b, r) ==
  /\ r[1] = <<>>
  /\ \A k \in 1..(Len(b) + 1) : IsSeq(r[k])
  /\ \A k \in 1..Len(b) : Fine(b[k], r[k]) /\ r[k + 1] = Effect(b[k], r[k])
  /\ \A k, l \in 1..(Len(b) + 1) : k <= l /\ Tainted(r[k]) => Tainted(r[l])

Reaches(b, S) == \E r : Runs(b, r) /\ r[Len(b) + 1] = S

LEMMA ArgsAre ==
  ASSUME NEW c, NEW S, IsSeq(S), Pops(c) \in 0..Len(S)
  PROVE  /\ IsSeq(Args(c, S)) /\ Len(Args(c, S)) = Pops(c) + Imms(c)
         /\ \A k \in 1..Pops(c) : Args(c, S)[k] = S[Len(S) - Pops(c) + k]
         /\ c.imm # None => Args(c, S)[Pops(c) + 1] = V(c.imm)
         /\ IsSeq(Below(c, S)) /\ Len(Below(c, S)) = Len(S) - Pops(c)
         /\ \A k \in 1..(Len(S) - Pops(c)) : Below(c, S)[k] = S[k]
<1> DEFINE p == Pops(c)
           m == Len(S) - p
           u == SubSeq(S, m + 1, Len(S))
           w == SubSeq(S, 1, m)
           a == Args(c, S)
<1>1. Len(S) \in Nat /\ p \in Nat /\ p <= Len(S) /\ m \in Int
  BY SeqDomain
<1> HIDE DEF p
<1>2. /\ 1 \in Int /\ 1 <= 1 /\ 1 <= m + 1 /\ m <= Len(S)
      /\ m - 1 + 1 = m /\ \A k \in 1..m : 1 + k - 1 = k
      /\ m + 1 \in Int /\ Len(S) \in Int /\ m + 1 <= Len(S) + 1 /\ Len(S) <= Len(S)
      /\ Len(S) - (m + 1) + 1 = p /\ \A k \in 1..p : (m + 1) + k - 1 = m + k
  BY <1>1
<1>3. IsSeq(w) /\ Len(w) = m - 1 + 1 /\ \A k \in 1..(m - 1 + 1) : w[k] = S[1 + k - 1]
  BY <1>2, SeqPart
<1>4. IsSeq(w) /\ Len(w) = m /\ \A k \in 1..m : w[k] = S[k]
  BY <1>2, <1>3
<1>5. /\ IsSeq(u) /\ Len(u) = Len(S) - (m + 1) + 1
      /\ \A k \in 1..(Len(S) - (m + 1) + 1) : u[k] = S[(m + 1) + k - 1]
  BY <1>2, SeqPart
<1>6. IsSeq(u) /\ Len(u) = p /\ \A k \in 1..p : u[k] = S[m + k]
  BY <1>2, <1>5
<1>7. a = IF c.imm # None THEN u \o <<V(c.imm)>> ELSE u \o <<>>
  BY DEF Args, p
<1>8. w = Below(c, S)
  BY DEF Below, p
<1> HIDE DEF u, w, a
<1>9. /\ IsSeq(a) /\ Len(a) = p + Imms(c) /\ \A k \in 1..p : a[k] = u[k]
      /\ c.imm # None => a[p + 1] = V(c.imm)
  <2>1. CASE c.imm # None
    <3>1. a = Append(u, V(c.imm)) /\ Imms(c) = 1
      BY <2>1, <1>6, <1>7, SeqOne DEF Imms
    <3> QED  BY <3>1, <1>6, SeqAppend
  <2>2. CASE c.imm = None
    <3>1. a = u /\ Imms(c) = 0
      BY <2>2, <1>6, <1>7, SeqOne DEF Imms
    <3>2. p + 0 = p
      BY <1>1
    <3> QED  BY <3>1, <3>2, <2>2, <1>6
  <2> QED  BY <2>1, <2>2
<1>10. /\ IsSeq(a) /\ Len(a) = p + Imms(c) /\ \A k \in 1..p : a[k] = S[m + k]
       /\ c.imm # None => a[p + 1] = V(c.imm)
  BY <1>6, <1>9
<1> QED  BY <1>4, <1>8, <1>10 DEF a, p

LEMMA MeaningOfThrown ==
  ASSUME NEW fn, fn # "default", NEW name, NEW values, NEW k \in DOMAIN values, values[k] = Thrown
  PROVE  Meaning(fn, name, values) = Thrown
BY DEF Meaning

LEMMA TaintAppend ==
  ASSUME NEW S, IsSeq(S), NEW x
  PROVE  Tainted(Append(S, x)) <=> Tainted(S) \/ x = Thrown
<1>1. /\ IsSeq(Append(S, x)) /\ Len(Append(S, x)) = Len(S) + 1
      /\ Append(S, x)[Len(S) + 1] = x
      /\ \A k \in 1..Len(S) : Append(S, x)[k] = S[k]
  BY SeqAppend
<1>2. /\ \A k \in 1..(Len(S) + 1) : k \in 1..Len(S) \/ k = Len(S) + 1
      /\ \A k \in 1..Len(S) : k \in 1..(Len(S) + 1)
      /\ Len(S) + 1 \in 1..(Len(S) + 1)
  BY SeqDomain
<1> QED  BY <1>1, <1>2 DEF Tainted

LEMMA EffectIs ==
  ASSUME NEW c, NEW S, IsSeq(S), Fine(c, S)
  PROVE  /\ IsSeq(Effect(c, S)) /\ Effect(c, S) # <<>>
         /\ Tainted(S) => Tainted(Effect(c, S))
<1>1. CASE c.op = "Push"
  <2>1. Effect(c, S) = Append(S, V(c.imm))
    BY <1>1 DEF Effect
  <2> QED  BY <2>1, SeqAppend, TaintAppend
<1>2. CASE c.op = "default"
  <2>1. S # <<>>
    BY <1>2 DEF Fine, Ordinary, PlainOp
  <2>2. IsSeq(Front(S)) /\ S = Append(Front(S), Last(S))
    BY <2>1, SeqFront
  <2>3. Effect(c, S) = Append(Front(S), Chosen(V(c.imm), Last(S)))
    BY <1>2 DEF Effect
  <2>4. IsSeq(Effect(c, S)) /\ Effect(c, S) # <<>>
    BY <2>2, <2>3, SeqAppend
  <2>5. ASSUME Tainted(S) PROVE Tainted(Effect(c, S))
    <3>1. Tainted(Front(S)) \/ Last(S) = Thrown
      BY <2>2, <2>5, TaintAppend
    <3>2. Last(S) = Thrown => Chosen(V(c.imm), Last(S)) = Thrown
      BY DEF Chosen
    <3> QED  BY <3>1, <3>2, <2>2, <2>3, TaintAppend
  <2> QED  BY <2>4, <2>5
<1>3. CASE c.op # "Push" /\ c.op # "default"
  <2> DEFINE p == Pops(c)
             a == Args(c, S)
             w == Below(c, S)
             x == Meaning(c.op, c.name, a)
  <2>1. p \in 0..Len(S)
    BY <1>3 DEF Fine
  <2>2. /\ IsSeq(a) /\ Len(a) = p + Imms(c)
        /\ \A k \in 1..p : a[k] = S[Len(S) - p + k]
        /\ IsSeq(w) /\ Len(w) = Len(S) - p
        /\ \A k \in 1..(Len(S) - p) : w[k] = S[k]
    BY <2>1, ArgsAre
  <2>3. Effect(c, S) = Append(w, x)
    BY <1>3 DEF Effect
  <2> HIDE DEF a, w, p
  <2>4. IsSeq(Effect(c, S)) /\ Effect(c, S) # <<>>
    BY <2>2, <2>3, SeqAppend
  <2>5. ASSUME Tainted(S) PROVE Tainted(Effect(c, S))
    <3>1. PICK k \in 1..Len(S) : S[k] = Thrown
      BY <2>5 DEF Tainted
    <3>2. Len(S) \in Nat /\ p \in Nat /\ p <= Len(S) /\ Imms(c) \in {0, 1}
      BY <2>1, SeqDomain DEF Imms
    <3>3. CASE k \in 1..(Len(S) - p)
      <4>1. Tainted(w)
        BY <3>1, <3>3, <2>2 DEF Tainted
      <4> QED  BY <4>1, <2>2, <2>3, TaintAppend
    <3>4. CASE k \notin 1..(Len(S) - p)
      <4> DEFINE j == k - (Len(S) - p)
      <4>1. j \in 1..p /\ Len(S) - p + j = k /\ j \in 1..(p + Imms(c))
        BY <3>2, <3>4
      <4> HIDE DEF j
      <4>2. a[j] = Thrown /\ j \in DOMAIN a
        BY <4>1, <3>1, <2>2, SeqDomain
      <4>3. x = Thrown
        BY <4>2, <1>3, MeaningOfThrown
      <4> QED  BY <4>3, <2>2, <2>3, TaintAppend
    <3> QED  BY <3>3, <3>4
  <2> QED  BY <2>4, <2>5
<1> QED  BY <1>1, <1>2, <1>3

LEMMA RunsAppend ==
  ASSUME NEW b, IsSeq(b), NEW r, Runs(b, r), NEW c, Fine(c, r[Len(b) + 1])
  PROVE  \E q : /\ Runs(Append(b, c), q) /\ q[Len(b) + 2] = Effect(c, r[Len(b) + 1])
                /\ \A k \in 1..(Len(b) + 1) : q[k] = r[k]
<1> DEFINE n == Len(b)
           a == Append(b, c)
           e == Effect(c, r[n + 1])
           q == [k \in 1..(n + 2) |-> IF k = n + 2 THEN e ELSE r[k]]
<1>1. n \in Nat /\ IsSeq(a) /\ Len(a) = n + 1 /\ a[n + 1] = c /\ \A k \in 1..n : a[k] = b[k]
  BY SeqDomain, SeqAppend
<1>2. n + 1 \in 1..(n + 1)
  BY <1>1
<1>3. IsSeq(r[n + 1])
  BY <1>2 DEF Runs
<1>4. IsSeq(e) /\ (Tainted(r[n + 1]) => Tainted(e))
  BY <1>3, EffectIs
<1>5. q[n + 2] = e /\ \A k \in 1..(n + 1) : q[k] = r[k]
  BY <1>1
<1> HIDE DEF q, a, e
<1>6. /\ \A k \in 1..(n + 2) : k \in 1..(n + 1) \/ k = n + 2
      /\ \A k \in 1..(n + 1) : k \in 1..n \/ k = n + 1
      /\ \A k \in 1..n : k \in 1..(n + 1) /\ k + 1 \in 1..(n + 1)
      /\ n + 1 + 1 = n + 2 /\ n + 1 \in 1..(n + 1) /\ 1 \in 1..(n + 1)
      /\ \A k \in 1..(n + 1) : k <= n + 1 /\ ~(n + 2 <= k)
  BY <1>1
<1>7. q[1] = <<>>
  BY <1>5, <1>6 DEF Runs
<1>8. \A k \in 1..(n + 2) : IsSeq(q[k])
  <2>1. \A k \in 1..(n + 1) : IsSeq(r[k])
    BY DEF Runs
  <2> QED  BY <2>1, <1>4, <1>5, <1>6
<1>9. ASSUME NEW k \in 1..(n + 1)
      PROVE  Fine(a[k], q[k]) /\ q[k + 1] = Effect(a[k], q[k])
  <2>1. CASE k \in 1..n
    <3>1. Fine(b[k], r[k]) /\ r[k + 1] = Effect(b[k], r[k])
      BY <2>1 DEF Runs
    <3>2. q[k] = r[k] /\ q[k + 1] = r[k + 1] /\ a[k] = b[k]
      BY <2>1, <1>1, <1>5, <1>6
    <3> QED  BY <3>1, <3>2
  <2>2. CASE k = n + 1
    <3>1. q[k] = r[n + 1] /\ q[k + 1] = e /\ a[k] = c
      BY <2>2, <1>1, <1>5, <1>6
    <3> QED  BY <3>1, <2>2 DEF e
  <2> QED  BY <2>1, <2>2, <1>6
<1>10. ASSUME NEW k \in 1..(n + 2), NEW l \in 1..(n + 2), k <= l, Tainted(q[k])
       PROVE  Tainted(q[l])
  <2>1. \A x, y \in 1..(n + 1) : x <= y /\ Tainted(r[x]) => Tainted(r[y])
    BY DEF Runs
  <2>2. CASE l \in 1..(n + 1)
    <3>1. k \in 1..(n + 1)
      BY <2>2, <1>6, <1>10
    <3> QED  BY <3>1, <2>1, <2>2, <1>5, <1>10
  <2>3. CASE l = n + 2
    <3>1. CASE k = n + 2
      BY <2>3, <3>1, <1>10
    <3>2. CASE k \in 1..(n + 1)
      <4>1. Tainted(r[k]) /\ k <= n + 1
        BY <3>2, <1>5, <1>6, <1>10
      <4>2. Tainted(r[n + 1])
        BY <4>1, <3>2, <2>1, <1>6
      <4> QED  BY <4>2, <2>3, <1>4, <1>5
    <3> QED  BY <3>1, <3>2, <1>6
  <2> QED  BY <2>2, <2>3, <1>6
<1>11. Len(a) + 1 = n + 2
  BY <1>1
<1>12. Runs(a, q)
  BY <1>1, <1>7, <1>8, <1>9, <1>10, <1>11 DEF Runs
<1> QED  BY <1>5, <1>12 DEF a, e

LEMMA ReachesAppend ==
  ASSUME NEW b, IsSeq(b), NEW S, Reaches(b, S), NEW c, Fine(c, S)
  PROVE  Reaches(Append(b, c), Effect(c, S))
<1>1. PICK r : Runs(b, r) /\ r[Len(b) + 1] = S
  BY DEF Reaches
<1>2. PICK q : Runs(Append(b, c), q) /\ q[Len(b) + 2] = Effect(c, S)
  BY <1>1, RunsAppend
<1>3. Len(b) \in Nat /\ Len(Append(b, c)) = Len(b) + 1
  BY SeqDomain, SeqAppend
<1>4. Len(Append(b, c)) + 1 = Len(b) + 2
  BY <1>3
<1> QED  BY <1>2, <1>4 DEF Reaches

LEMMA ReachesIsSeq ==
  ASSUME NEW b, IsSeq(b), NEW S, Reaches(b, S)
  PROVE  IsSeq(S)
<1>1. Len(b) + 1 \in 1..(Len(b) + 1)
  BY SeqDomain
<1> QED  BY <1>1 DEF Reaches, Runs

LEMMA ReachesFront ==
  ASSUME NEW b, IsSeq(b), b # <<>>, NEW S, Reaches(b, S)
  PROVE  \E T : Reaches(Front(b), T) /\ IsSeq(T) /\ Fine(Last(b), T) /\ S = Effect(Last(b), T)
<1> DEFINE n == Len(b)
           f == Front(b)
<1>1. PICK r : Runs(b, r) /\ r[n + 1] = S
  BY DEF Reaches
<1>2. /\ n \in Nat \ {0} /\ IsSeq(f) /\ Len(f) = n - 1 /\ Last(b) = b[n]
      /\ \A k \in 1..(n - 1) : f[k] = b[k]
  BY SeqFront
<1> HIDE DEF f
<1>3. /\ n - 1 + 1 = n /\ n \in 1..n /\ \A k \in 1..n : k \in 1..(n + 1)
      /\ \A k \in 1..(n - 1) : k \in 1..n
  BY <1>2
<1>4. Len(f) + 1 = n
  BY <1>2, <1>3
<1>5. Runs(f, r)
  BY <1>1, <1>2, <1>3, <1>4 DEF Runs
<1>6. Reaches(f, r[n])
  BY <1>4, <1>5 DEF Reaches
<1>7. IsSeq(r[n]) /\ Fine(b[n], r[n]) /\ r[n + 1] = Effect(b[n], r[n])
  BY <1>1, <1>3 DEF Runs
<1> QED  BY <1>1, <1>2, <1>6, <1>7 DEF f

LEMMA ReachesEmpty == Reaches(<<>>, <<>>)
<1> DEFINE r == [k \in 1..1 |-> <<>>]
<1>1. Len(<<>>) = 0 /\ IsSeq(<<>>) /\ r[1] = <<>>
  BY SeqEmpty
<1> HIDE DEF r
<1>2. \A k \in 1..(Len(<<>>) + 1) : k = 1
  BY <1>1
<1>3. \A k \in 1..Len(<<>>) : FALSE
  BY <1>1
<1>4. Runs(<<>>, r) /\ r[Len(<<>>) + 1] = <<>>
  BY <1>1, <1>2, <1>3 DEF Runs
<1> QED  BY <1>4 DEF Reaches

(* A function or a callback takes n values for one.                         *)
Outcome(fn, name, n, S) ==
  Append(SubSeq(S, 1, Len(S) - n), Meaning(fn, name, SubSeq(S, Len(S) - n + 1, Len(S))))

LEMMA AppendedCall ==
  ASSUME NEW b, IsSeq(b), NEW S, Reaches(b, S), NEW op, NEW name, Ordinary(op, name),
         NEW n \in Nat, n <= Len(S)
  PROVE  Reaches(Append(b, Code(op, name, n, None)), Outcome(op, name, n, S))
<1> DEFINE c == Code(op, name, n, None)
           u == SubSeq(S, Len(S) - n + 1, Len(S))
<1>1. c.op = op /\ c.name = name /\ c.args = n /\ c.imm = None
  BY DEF Code
<1>2. IsSeq(S) /\ Len(S) \in Nat
  BY ReachesIsSeq, SeqDomain
<1> HIDE DEF c
<1>3. Imms(c) = 0 /\ Pops(c) = n /\ Pops(c) \in 0..Len(S)
  BY <1>1, <1>2 DEF Imms, Pops
<1>4. Fine(c, S)
  BY <1>1, <1>3 DEF Fine
<1>5. Args(c, S) = u
  <2>1. /\ Len(S) - n + 1 \in Int /\ Len(S) \in Int /\ 1 <= Len(S) - n + 1
        /\ Len(S) - n + 1 <= Len(S) + 1 /\ Len(S) <= Len(S)
    BY <1>2
  <2>2. IsSeq(u)
    BY <1>2, <2>1, SeqPart
  <2>3. Args(c, S) = u \o <<>>
    BY <1>1, <1>3 DEF Args
  <2> QED  BY <2>2, <2>3, SeqOne
<1>6. Effect(c, S) = Outcome(op, name, n, S)
  BY <1>1, <1>3, <1>5 DEF Effect, Ordinary, PlainOp, Below, Outcome
<1> QED  BY <1>4, <1>6, ReachesAppend DEF c

LEMMA MergedCall ==
  ASSUME NEW b, IsSeq(b), NEW S, Reaches(b, S), NEW op, NEW name, Ordinary(op, name),
         NEW n \in Nat \ {0}, n <= Len(S), b # <<>>, Last(b).op = "Push"
  PROVE  Reaches(Merged(b, op, name, n), Outcome(op, name, n, S))
<1> DEFINE f == Front(b)
           l == Last(b).imm
           c == Code(op, name, n, l)
<1>1. PICK T : Reaches(f, T) /\ IsSeq(T) /\ Fine(Last(b), T) /\ S = Effect(Last(b), T)
  BY ReachesFront
<1>2. l # None /\ Names(l) /\ S = Append(T, V(l))
  BY <1>1 DEF Fine, Effect, Ordinary, PlainOp
<1>3. IsSeq(f) /\ Merged(b, op, name, n) = Append(f, c)
  BY SeqFront, MergedIs
<1>4. c.op = op /\ c.name = name /\ c.args = n /\ c.imm = l
  BY DEF Code
<1> HIDE DEF f, l, c
<1>5. /\ IsSeq(S) /\ Len(S) = Len(T) + 1 /\ S[Len(T) + 1] = V(l)
      /\ \A k \in 1..Len(T) : S[k] = T[k]
  BY <1>1, <1>2, SeqAppend
<1>6. Len(T) \in Nat /\ n - 1 \in 0..Len(T) /\ Len(S) \in Nat
  BY <1>1, <1>5, SeqDomain
<1>7. Imms(c) = 1 /\ Pops(c) = n - 1 /\ Pops(c) \in 0..Len(T)
  BY <1>2, <1>4, <1>6 DEF Imms, Pops
<1>8. Fine(c, T)
  BY <1>2, <1>4, <1>7 DEF Fine
<1> DEFINE m == Len(S) - n
           u == SubSeq(S, m + 1, Len(S))
           w == SubSeq(S, 1, m)
<1>9. /\ 1 \in Int /\ 1 <= 1 /\ m \in Int /\ 1 <= m + 1 /\ m <= Len(S)
      /\ m - 1 + 1 = m /\ \A k \in 1..m : 1 + k - 1 = k
      /\ m + 1 \in Int /\ Len(S) \in Int /\ m + 1 <= Len(S) + 1 /\ Len(S) <= Len(S)
      /\ Len(S) - (m + 1) + 1 = n /\ \A k \in 1..n : (m + 1) + k - 1 = m + k
  BY <1>6
<1>10. IsSeq(w) /\ Len(w) = m /\ \A k \in 1..m : w[k] = S[k]
  <2>1. IsSeq(w) /\ Len(w) = m - 1 + 1 /\ \A k \in 1..(m - 1 + 1) : w[k] = S[1 + k - 1]
    BY <1>5, <1>9, SeqPart
  <2> QED  BY <2>1, <1>9
<1>11. IsSeq(u) /\ Len(u) = n /\ \A k \in 1..n : u[k] = S[m + k]
  <2>1. /\ IsSeq(u) /\ Len(u) = Len(S) - (m + 1) + 1
        /\ \A k \in 1..(Len(S) - (m + 1) + 1) : u[k] = S[(m + 1) + k - 1]
    BY <1>5, <1>9, SeqPart
  <2> QED  BY <2>1, <1>9
<1>12. Outcome(op, name, n, S) = Append(w, Meaning(op, name, u))
  BY DEF Outcome
<1>13. Len(T) - (n - 1) = m
  BY <1>5, <1>6
<1> HIDE DEF u, w, m
<1>14. /\ IsSeq(Args(c, T)) /\ Len(Args(c, T)) = (n - 1) + 1
       /\ \A k \in 1..(n - 1) : Args(c, T)[k] = T[m + k]
       /\ Args(c, T)[(n - 1) + 1] = V(l)
       /\ IsSeq(Below(c, T)) /\ Len(Below(c, T)) = m
       /\ \A k \in 1..m : Below(c, T)[k] = T[k]
  <2>1. /\ IsSeq(Args(c, T)) /\ Len(Args(c, T)) = Pops(c) + Imms(c)
        /\ \A k \in 1..Pops(c) : Args(c, T)[k] = T[Len(T) - Pops(c) + k]
        /\ c.imm # None => Args(c, T)[Pops(c) + 1] = V(c.imm)
        /\ IsSeq(Below(c, T)) /\ Len(Below(c, T)) = Len(T) - Pops(c)
        /\ \A k \in 1..(Len(T) - Pops(c)) : Below(c, T)[k] = T[k]
    <3>1. IsSeq(T)
      BY <1>1
    <3>2. Pops(c) \in 0..Len(T)
      BY <1>7
    <3> QED  BY ONLY <3>1, <3>2, ArgsAre
  <2>2. Pops(c) = n - 1 /\ Imms(c) = 1 /\ c.imm = l /\ c.imm # None
    BY <1>2, <1>4, <1>7
  <2>3. Len(T) - Pops(c) = m
    BY <2>2, <1>13
  <2> QED  BY <2>1, <2>2, <2>3
<1>15. /\ (n - 1) + 1 = n /\ m + n = Len(T) + 1
       /\ \A k \in 1..n : k \in 1..(n - 1) \/ k = n
       /\ \A k \in 1..(n - 1) : m + k \in 1..Len(T)
       /\ \A k \in 1..m : k \in 1..Len(T)
  <2>1. m = Len(T) + 1 - n /\ m \in Nat
    BY <1>5, <1>6 DEF m
  <2> QED  BY <2>1, <1>6
<1>16. \A k \in 1..n : Args(c, T)[k] = u[k]
  <2> SUFFICES ASSUME NEW k \in 1..n PROVE Args(c, T)[k] = u[k]
    OBVIOUS
  <2>1. CASE k \in 1..(n - 1)
    <3>1. Args(c, T)[k] = T[m + k] /\ u[k] = S[m + k] /\ S[m + k] = T[m + k]
      BY <2>1, <1>5, <1>11, <1>14, <1>15
    <3> QED  BY <3>1
  <2>2. CASE k = n
    <3>1. Args(c, T)[n] = V(l)
      BY <1>14, <1>15
    <3>2. u[n] = S[m + n] /\ S[m + n] = V(l)
      BY <2>2, <1>5, <1>11, <1>15
    <3> QED  BY <2>2, <3>1, <3>2
  <2> QED  BY <2>1, <2>2, <1>15
<1>17. Args(c, T) = u
  BY <1>11, <1>14, <1>15, <1>16, SeqSame
<1>18. Below(c, T) = w
  <2>1. \A k \in 1..m : Below(c, T)[k] = w[k]
    BY <1>5, <1>10, <1>14, <1>15
  <2> QED  BY <2>1, <1>10, <1>14, SeqSame
<1>19. Effect(c, T) = Outcome(op, name, n, S)
  BY <1>4, <1>12, <1>17, <1>18 DEF Effect, Ordinary, PlainOp
<1>20. Reaches(Append(f, c), Effect(c, T))
  BY <1>1, <1>3, <1>8, ReachesAppend
<1> QED  BY <1>3, <1>19, <1>20

(* The swap of default(): its second argument is one bytecode, which takes  *)
(* nothing from the stack.                                                  *)
Alone(c) == c.op = "Push" \/ (c.op \notin {"default", "PrintValue"} /\ Pops(c) = 0)
Adds(c) == IF c.op = "Push" THEN V(c.imm) ELSE Meaning(c.op, c.name, Args(c, <<>>))

LEMMA AloneAdds ==
  ASSUME NEW c, Alone(c), NEW S, IsSeq(S), Fine(c, S)
  PROVE  /\ Effect(c, S) = Append(S, Adds(c))
         /\ \A T : IsSeq(T) => Fine(c, T) /\ Effect(c, T) = Append(T, Adds(c))
<1>1. CASE c.op = "Push"
  BY <1>1 DEF Effect, Adds, Fine, Ordinary, PlainOp
<1>2. CASE c.op # "Push"
  <2>1. c.op # "default" /\ Pops(c) = 0 /\ Ordinary(c.op, c.name)
    BY <1>2 DEF Alone, Fine
  <2>2. ASSUME NEW T, IsSeq(T)
        PROVE  Fine(c, T) /\ Args(c, T) = Args(c, <<>>) /\ Below(c, T) = T
    <3>1. IsSeq(<<>>) /\ Len(<<>>) = 0
      BY SeqEmpty
    <3>2. Len(T) \in Nat /\ Len(T) - 0 = Len(T) /\ Pops(c) \in 0..Len(T) /\ Pops(c) \in 0..Len(<<>>)
      BY <2>1, <2>2, <3>1, SeqDomain
    <3>3. Fine(c, T)
      BY <2>1, <3>2 DEF Fine
    <3>4. /\ IsSeq(Args(c, T)) /\ Len(Args(c, T)) = Pops(c) + Imms(c)
          /\ c.imm # None => Args(c, T)[Pops(c) + 1] = V(c.imm)
          /\ IsSeq(Below(c, T)) /\ Len(Below(c, T)) = Len(T) - Pops(c)
          /\ \A k \in 1..(Len(T) - Pops(c)) : Below(c, T)[k] = T[k]
      BY ONLY <2>2, <3>2, ArgsAre
    <3>5. /\ IsSeq(Args(c, <<>>)) /\ Len(Args(c, <<>>)) = Pops(c) + Imms(c)
          /\ c.imm # None => Args(c, <<>>)[Pops(c) + 1] = V(c.imm)
      BY ONLY <3>1, <3>2, ArgsAre
    <3>6. Below(c, T) = T
      BY <2>1, <2>2, <3>2, <3>4, SeqSame
    <3>7. Pops(c) + Imms(c) = Imms(c) /\ Pops(c) + 1 = 1
      BY <2>1 DEF Imms
    <3>8. \A k \in 1..Imms(c) : k = 1 /\ c.imm # None
      BY DEF Imms
    <3>9. \A k \in 1..Imms(c) : Args(c, T)[k] = Args(c, <<>>)[k]
      BY <3>4, <3>5, <3>7, <3>8
    <3>10. Args(c, T) = Args(c, <<>>)
      BY <3>4, <3>5, <3>7, <3>9, SeqSame
    <3> QED  BY <3>3, <3>6, <3>10
  <2>3. ASSUME NEW T, IsSeq(T)
        PROVE  Fine(c, T) /\ Effect(c, T) = Append(T, Adds(c))
    BY <1>2, <2>1, <2>2, <2>3 DEF Effect, Adds
  <2> QED  BY <2>3
<1> QED  BY <1>1, <1>2

LEMMA PushIs ==
  ASSUME NEW l
  PROVE  /\ Push(l).op = "Push" /\ Push(l).imm = l /\ Push(l).args = 0
         /\ Names(l) => l # None
<1>1. Push(l).op = "Push" /\ Push(l).imm = l
  BY DEF Push, Code
<1>2. Push(l).args = 0
  BY DEF Push, Code
<1>3. None.fn = "none"
  BY DEF None, Leaf
<1>4. Names(l) => l # None
  BY <1>3 DEF Names
<1> QED  BY <1>1, <1>2, <1>4

LEMMA DefaultCall ==
  ASSUME NEW b, IsSeq(b), NEW S, Reaches(b, S), 2 <= Len(b), NEW l, Names(l),
         b[Len(b) - 1] = Push(l), Alone(b[Len(b)])
  PROVE  /\ 2 <= Len(S)
         /\ Reaches(append_function(swapped(b), "default", 2),
                    Append(SubSeq(S, 1, Len(S) - 2), Chosen(S[Len(S) - 1], S[Len(S)])))
<1> DEFINE n == Len(b)
           f == Front(b)
           g == SubSeq(b, 1, n - 2)
           e == b[n]
           d == Code("default", "", 2, l)
<1>1. n \in Nat /\ b # <<>>
  <2>1. n \in Nat
    BY SeqDomain
  <2>2. n # 0
    BY <2>1
  <2> QED  BY <2>1, <2>2, SeqEmpty
<1>2. IsSeq(f) /\ Len(f) = n - 1 /\ Last(b) = e /\ \A k \in 1..(n - 1) : f[k] = b[k]
  BY <1>1, SeqFront
<1>3. f # <<>>
  BY <1>1, <1>2, SeqEmpty
<1>4. /\ IsSeq(Front(f)) /\ Len(Front(f)) = Len(f) - 1 /\ Last(f) = f[Len(f)]
      /\ \A k \in 1..(Len(f) - 1) : Front(f)[k] = f[k]
  BY <1>2, <1>3, SeqFront
<1>5. /\ IsSeq(g) /\ Len(g) = n - 2 /\ \A k \in 1..(n - 2) : g[k] = b[k]
      /\ swapped(b) = Append(Append(g, e), b[n - 1])
  BY SwappedIs
<1> HIDE DEF f, g
<1>6. /\ Len(f) - 1 = n - 2 /\ \A k \in 1..(n - 2) : k \in 1..(n - 1)
      /\ n - 1 \in 1..(n - 1)
  BY <1>1, <1>2
<1>7. Front(f) = g
  <2>1. \A k \in 1..(n - 2) : Front(f)[k] = g[k]
    BY <1>2, <1>4, <1>5, <1>6
  <2> QED  BY <2>1, <1>4, <1>5, <1>6, SeqSame
<1>8. Last(f) = Push(l)
  BY <1>2, <1>4, <1>6
<1>9. PICK T : Reaches(f, T) /\ IsSeq(T) /\ Fine(e, T) /\ S = Effect(e, T)
  BY <1>1, <1>2, ReachesFront DEF f
<1>10. PICK U : Reaches(g, U) /\ IsSeq(U) /\ T = Effect(Push(l), U)
  BY <1>2, <1>3, <1>7, <1>8, <1>9, ReachesFront
<1> DEFINE x == V(l)
           y == Adds(e)
<1>11. T = Append(U, x)
  BY <1>10, PushIs DEF Effect
<1>12. /\ S = Append(T, y)
       /\ \A W : IsSeq(W) => Fine(e, W) /\ Effect(e, W) = Append(W, y)
  BY <1>9, AloneAdds
<1> HIDE DEF x, y, e
<1>13. Reaches(Append(g, e), Append(U, y))
  <2>1. Fine(e, U) /\ Effect(e, U) = Append(U, y)
    BY <1>10, <1>12
  <2>2. IsSeq(g) /\ Reaches(g, U)
    BY <1>5, <1>10
  <2>3. Reaches(Append(g, e), Effect(e, U))
    BY ONLY <2>1, <2>2, ReachesAppend
  <2> QED  BY <2>1, <2>3
<1>14. IsSeq(Append(g, e)) /\ IsSeq(Append(U, y)) /\ Append(U, y) # <<>>
  BY <1>5, <1>10, SeqAppend
<1>15. d.op = "default" /\ d.imm = l
  BY DEF Code
<1>16. Fine(d, Append(U, y)) /\ Effect(d, Append(U, y)) = Append(U, Chosen(x, y))
  <2>1. l # None
    BY PushIs
  <2>2. d.args \in Nat
    BY DEF Code
  <2>3. Fine(d, Append(U, y))
    BY <2>1, <2>2, <1>14, <1>15 DEF Fine
  <2>4. Front(Append(U, y)) = U /\ Last(Append(U, y)) = y
    BY <1>10, SeqOfAppended
  <2>5. Effect(d, Append(U, y)) = Append(U, Chosen(x, y))
    BY <2>4, <1>15 DEF Effect, x
  <2> QED  BY <2>3, <2>5
<1>17. Reaches(Append(Append(g, e), d), Append(U, Chosen(x, y)))
  BY <1>13, <1>14, <1>16, ReachesAppend
<1>18. append_function(swapped(b), "default", 2) = Append(Append(g, e), d)
  <2> DEFINE s == swapped(b)
  <2>1. s = Append(Append(g, e), Push(l))
    BY <1>5
  <2> HIDE DEF s
  <2>2. IsSeq(s) /\ s # <<>> /\ Front(s) = Append(g, e) /\ Last(s) = Push(l)
    BY <2>1, <1>14, SeqAppend, SeqOfAppended
  <2>3. Last(s).op = "Push" /\ Last(s).imm = l
    BY <2>2, PushIs
  <2>4. append_function(s, "default", 2) = Merged(s, "default", "", 2)
    BY <2>2, <2>3 DEF append_function
  <2>5. Merged(s, "default", "", 2) = Append(Front(s), Code("default", "", 2, Last(s).imm))
    BY <2>2, MergedIs
  <2> QED  BY <2>2, <2>3, <2>4, <2>5 DEF s
<1>19. /\ 2 <= Len(S) /\ S[Len(S) - 1] = x /\ S[Len(S)] = y
       /\ SubSeq(S, 1, Len(S) - 2) = U
  <2>1. /\ IsSeq(T) /\ Len(T) = Len(U) + 1 /\ T[Len(U) + 1] = x
        /\ \A k \in 1..Len(U) : T[k] = U[k]
    BY <1>10, <1>11, SeqAppend
  <2>2. /\ IsSeq(S) /\ Len(S) = Len(T) + 1 /\ S[Len(T) + 1] = y
        /\ \A k \in 1..Len(T) : S[k] = T[k]
    BY <2>1, <1>12, SeqAppend
  <2>3. /\ Len(U) \in Nat /\ Len(S) = Len(U) + 2 /\ Len(S) - 2 = Len(U) /\ Len(S) - 1 = Len(U) + 1
        /\ Len(T) + 1 = Len(S)
        /\ Len(U) + 1 \in 1..Len(T) /\ \A k \in 1..Len(U) : k \in 1..Len(T)
    BY <2>1, <2>2, <1>10, SeqDomain
  <2>4. S[Len(S) - 1] = x /\ S[Len(S)] = y
    BY <2>1, <2>2, <2>3
  <2>5. \A k \in 1..Len(U) : S[k] = U[k]
    BY <2>1, <2>2, <2>3
  <2>6. /\ 1 \in Int /\ Len(U) \in Int /\ 1 <= 1 /\ 1 <= Len(U) + 1 /\ Len(U) <= Len(S)
        /\ Len(U) - 1 + 1 = Len(U) /\ \A k \in 1..Len(U) : 1 + k - 1 = k
        /\ 2 <= Len(S)
    BY <2>3
  <2> DEFINE w == SubSeq(S, 1, Len(U))
  <2>7. IsSeq(w) /\ Len(w) = Len(U) - 1 + 1 /\ \A k \in 1..(Len(U) - 1 + 1) : w[k] = S[1 + k - 1]
    BY <2>2, <2>6, SeqPart
  <2> HIDE DEF w
  <2>8. w = U
    <3>1. Len(w) = Len(U) /\ \A k \in 1..Len(U) : w[k] = U[k]
      BY <2>5, <2>6, <2>7
    <3> QED  BY <3>1, <2>7, <1>10, SeqSame
  <2> QED  BY <2>3, <2>4, <2>6, <2>8 DEF w
<1> QED  BY <1>17, <1>18, <1>19

(***************************************************************************)
(* The stack that stands for the terms                                     *)
(***************************************************************************)

Base(bf) == [k \in 1..Len(bf) |-> V(bf[k].imm)]
Values(t) == [k \in 1..Len(t) |-> t[k].value]
StackOf(bf, t) == Base(bf) \o Values(t)

IsStack(s, bf, t) ==
  /\ IsSeq(s) /\ Len(s) = Len(bf) + Len(t)
  /\ \A k \in 1..Len(bf) : s[k] = V(bf[k].imm)
  /\ \A k \in 1..Len(t) : s[Len(bf) + k] = t[k].value

LEMMA StackIs ==
  ASSUME NEW bf, IsSeq(bf), NEW t, IsSeq(t)
  PROVE  IsStack(StackOf(bf, t), bf, t)
<1> DEFINE u == Base(bf)
           w == Values(t)
<1>1. Len(bf) \in Nat /\ Len(t) \in Nat
  BY SeqDomain
<1>2. u = [k \in 1..Len(bf) |-> u[k]] /\ \A k \in 1..Len(bf) : u[k] = V(bf[k].imm)
  BY DEF Base
<1>3. w = [k \in 1..Len(t) |-> w[k]] /\ \A k \in 1..Len(t) : w[k] = t[k].value
  BY DEF Values
<1> HIDE DEF u, w
<1>4. IsSeq(u) /\ Len(u) = Len(bf) /\ IsSeq(w) /\ Len(w) = Len(t)
  BY <1>1, <1>2, <1>3, SeqListed
<1>5. /\ IsSeq(u \o w) /\ Len(u \o w) = Len(u) + Len(w)
      /\ \A k \in 1..Len(u) : (u \o w)[k] = u[k]
      /\ \A k \in 1..Len(w) : (u \o w)[Len(u) + k] = w[k]
  <2>1. IsSeq(u)
    BY <1>4
  <2>2. IsSeq(w)
    BY <1>4
  <2> QED  BY ONLY <2>1, <2>2, SeqJoin
<1> QED  BY <1>2, <1>3, <1>4, <1>5 DEF StackOf, IsStack, u, w

LEMMA StackAppend ==
  ASSUME NEW bf, IsSeq(bf), NEW t, IsSeq(t), NEW u
  PROVE  StackOf(bf, Append(t, u)) = Append(StackOf(bf, t), u.value)
<1> DEFINE a == Append(t, u)
           s == StackOf(bf, t)
           x == StackOf(bf, a)
           y == Append(s, u.value)
<1>1. /\ IsSeq(a) /\ Len(a) = Len(t) + 1 /\ a[Len(t) + 1] = u
      /\ \A k \in 1..Len(t) : a[k] = t[k]
  BY SeqAppend
<1>2. /\ IsSeq(s) /\ Len(s) = Len(bf) + Len(t)
      /\ \A k \in 1..Len(bf) : s[k] = V(bf[k].imm)
      /\ \A k \in 1..Len(t) : s[Len(bf) + k] = t[k].value
  <2>1. IsStack(s, bf, t)
    BY StackIs
  <2> HIDE DEF s
  <2> QED  BY ONLY <2>1 DEF IsStack
<1> HIDE DEF a, s
<1>3. /\ IsSeq(x) /\ Len(x) = Len(bf) + Len(a)
      /\ \A k \in 1..Len(bf) : x[k] = V(bf[k].imm)
      /\ \A k \in 1..Len(a) : x[Len(bf) + k] = a[k].value
  <2>1. IsSeq(a)
    BY <1>1
  <2>2. IsStack(x, bf, a)
    BY <2>1, StackIs
  <2> HIDE DEF x
  <2> QED  BY ONLY <2>2 DEF IsStack
<1>4. /\ IsSeq(y) /\ Len(y) = Len(s) + 1 /\ y[Len(s) + 1] = u.value
      /\ \A k \in 1..Len(s) : y[k] = s[k]
  BY <1>2, SeqAppend
<1> HIDE DEF x, y
<1>5. Len(bf) \in Nat /\ Len(t) \in Nat
  BY SeqDomain
<1>6. ASSUME NEW k \in 1..Len(x)
      PROVE  x[k] = y[k]
  <2>1. CASE k \in 1..Len(bf)
    <3>1. k \in 1..Len(s)
      BY <2>1, <1>2, <1>5
    <3> QED  BY <2>1, <3>1, <1>2, <1>3, <1>4
  <2>2. CASE k \notin 1..Len(bf)
    <3> DEFINE j == k - Len(bf)
    <3>1. k = Len(bf) + j /\ j \in 1..(Len(t) + 1)
      BY <2>2, <1>1, <1>3, <1>5
    <3> HIDE DEF j
    <3>2. CASE j \in 1..Len(t)
      <4>1. k \in 1..Len(s) /\ j \in 1..Len(a)
        BY <3>1, <3>2, <1>1, <1>2, <1>5
      <4> QED  BY <3>1, <3>2, <4>1, <1>1, <1>2, <1>3, <1>4
    <3>3. CASE j = Len(t) + 1
      <4>1. k = Len(s) + 1 /\ j \in 1..Len(a)
        BY <3>1, <3>3, <1>1, <1>2, <1>5
      <4>2. x[k] = a[j].value
        BY <3>1, <4>1, <1>3
      <4> QED  BY <4>1, <4>2, <3>3, <1>1, <1>4
    <3> QED  BY <3>1, <3>2, <3>3, <1>5
  <2> QED  BY <2>1, <2>2
<1>7. Len(x) = Len(y)
  BY <1>1, <1>2, <1>3, <1>4, <1>5
<1> QED  BY <1>3, <1>4, <1>6, <1>7, SeqSame DEF x, y, a, s

LEMMA CallTermIs ==
  ASSUME NEW fn, NEW name, NEW args
  PROVE  /\ CallTerm(fn, name, args).leaf = None
         /\ CallTerm(fn, name, args).value =
              Meaning(fn, name, [k \in DOMAIN args |-> args[k].value])
BY DEF CallTerm

LEMMA StackWritten ==
  ASSUME NEW bf, IsSeq(bf), NEW t, IsSeq(t), NEW n \in Nat, n <= Len(t), NEW fn, NEW name
  PROVE  Outcome(fn, name, n, StackOf(bf, t)) = StackOf(bf, WrittenOn(t, fn, name, n))
<1> DEFINE m == Len(t) - n
           s == StackOf(bf, t)
           args == SubSeq(t, m + 1, Len(t))
           front == SubSeq(t, 1, m)
           v == [k \in DOMAIN args |-> args[k].value]
           w == SubSeq(s, 1, Len(s) - n)
           u == SubSeq(s, Len(s) - n + 1, Len(s))
           x == Meaning(fn, name, v)
<1>1. Len(bf) \in Nat /\ Len(t) \in Nat /\ m \in Nat
  BY SeqDomain
<1>2. /\ IsSeq(s) /\ Len(s) = Len(bf) + Len(t)
      /\ \A k \in 1..Len(bf) : s[k] = V(bf[k].imm)
      /\ \A k \in 1..Len(t) : s[Len(bf) + k] = t[k].value
  <2>1. IsStack(s, bf, t)
    BY StackIs
  <2> HIDE DEF s
  <2> QED  BY ONLY <2>1 DEF IsStack
<1>3. /\ IsSeq(args) /\ Len(args) = n /\ \A k \in 1..n : args[k] = t[m + k]
  BY WrittenIs
<1>4. WrittenOn(t, fn, name, n) = Append(front, CallTerm(fn, name, args))
  BY DEF WrittenOn
<1>5. IsSeq(front) /\ Len(front) = m /\ \A k \in 1..m : front[k] = t[k]
  <2>1. IsSeq(t) /\ m \in Nat /\ m <= Len(t)
    BY <1>1
  <2> HIDE DEF m
  <2> QED  BY ONLY <2>1, SeqStart
<1> HIDE DEF s, args, front
<1>6. IsSeq(v) /\ Len(v) = n /\ \A k \in 1..n : v[k] = t[m + k].value
  <2>1. DOMAIN args = 1..n
    BY <1>3, SeqDomain
  <2>2. v = [k \in 1..n |-> v[k]]
    BY <2>1
  <2>3. IsSeq(v) /\ Len(v) = n
    BY <2>2, SeqListed
  <2> QED  BY <2>1, <2>3, <1>3
<1> HIDE DEF v
<1> DEFINE q == Len(s) - n
<1>7. /\ q = Len(bf) + m /\ q \in Int /\ 1 \in Int /\ 1 <= 1 /\ 1 <= q + 1 /\ q <= Len(s)
      /\ q - 1 + 1 = q /\ \A k \in 1..q : 1 + k - 1 = k
      /\ q + 1 \in Int /\ Len(s) \in Int /\ q + 1 <= Len(s) + 1 /\ Len(s) <= Len(s)
      /\ Len(s) - (q + 1) + 1 = n /\ \A k \in 1..n : (q + 1) + k - 1 = Len(bf) + (m + k)
      /\ \A k \in 1..n : m + k \in 1..Len(t)
  BY <1>1, <1>2
<1>8. u = v
  <2>1. /\ IsSeq(u) /\ Len(u) = Len(s) - (q + 1) + 1
        /\ \A k \in 1..(Len(s) - (q + 1) + 1) : u[k] = s[(q + 1) + k - 1]
    BY <1>2, <1>7, SeqPart
  <2> HIDE DEF u
  <2>2. Len(u) = n /\ \A k \in 1..n : u[k] = s[Len(bf) + (m + k)]
    BY <2>1, <1>7
  <2>3. \A k \in 1..n : u[k] = v[k]
    BY <2>2, <1>2, <1>6, <1>7
  <2> QED  BY <2>1, <2>2, <2>3, <1>6, SeqSame
<1>9. IsSeq(w) /\ Len(w) = q /\ \A k \in 1..q : w[k] = s[k]
  <2>1. IsSeq(w) /\ Len(w) = q - 1 + 1 /\ \A k \in 1..(q - 1 + 1) : w[k] = s[1 + k - 1]
    BY <1>2, <1>7, SeqPart
  <2> QED  BY <2>1, <1>7
<1>10. w = StackOf(bf, front)
  <2> DEFINE z == StackOf(bf, front)
  <2>1. /\ IsSeq(z) /\ Len(z) = Len(bf) + Len(front)
        /\ \A k \in 1..Len(bf) : z[k] = V(bf[k].imm)
        /\ \A k \in 1..Len(front) : z[Len(bf) + k] = front[k].value
    <3>1. IsSeq(front)
      BY <1>5
    <3>2. IsStack(z, bf, front)
      BY <3>1, StackIs
    <3> HIDE DEF z
    <3> QED  BY ONLY <3>2 DEF IsStack
  <2> HIDE DEF z, w
  <2>2. Len(z) = Len(w) /\ \A k \in 1..Len(bf) : k \in 1..q
    BY <2>1, <1>1, <1>5, <1>7, <1>9
  <2>3. ASSUME NEW k \in 1..q
        PROVE  z[k] = w[k]
    <3>1. CASE k \in 1..Len(bf)
      BY <3>1, <2>1, <2>2, <1>2, <1>9
    <3>2. CASE k \notin 1..Len(bf)
      <4> DEFINE j == k - Len(bf)
      <4>1. k = Len(bf) + j /\ j \in 1..m /\ j \in 1..Len(t) /\ j \in 1..Len(front)
        BY <3>2, <1>1, <1>5, <1>7
      <4> HIDE DEF j
      <4>2. z[k] = t[j].value /\ s[k] = t[j].value
        BY <4>1, <2>1, <1>2, <1>5
      <4> QED  BY <4>2, <1>9
    <3> QED  BY <3>1, <3>2
  <2> QED  BY <2>1, <2>2, <2>3, <1>9, SeqSame DEF z
<1>11. Outcome(fn, name, n, s) = Append(w, x)
  BY <1>8 DEF Outcome
<1>12. CallTerm(fn, name, args).value = x
  BY CallTermIs DEF v
<1>13. StackOf(bf, WrittenOn(t, fn, name, n)) = Append(StackOf(bf, front), x)
  <2> HIDE DEF x
  <2>1. StackOf(bf, Append(front, CallTerm(fn, name, args)))
          = Append(StackOf(bf, front), CallTerm(fn, name, args).value)
    <3>1. IsSeq(bf) /\ IsSeq(front)
      BY <1>5
    <3>2. \A z : StackOf(bf, Append(front, z)) = Append(StackOf(bf, front), z.value)
      BY ONLY <3>1, StackAppend
    <3> QED  BY ONLY <3>2, Zenon
  <2> QED  BY <2>1, <1>4, <1>12
<1> QED  BY <1>10, <1>11, <1>13 DEF s

(***************************************************************************)
(* The program expresses the terms                                         *)
(***************************************************************************)

LEMMA CallTermAttributes ==
  ASSUME NEW fn, NEW name, NEW args
  PROVE  LET c == CallTerm(fn, name, args)
         IN  /\ c.startsEmptyCall <=> args = <<>> \/ args[1].startsEmptyCall
             /\ c.single => \/ args = <<>>
                            \/ /\ Len(args) = 1 /\ IsLeaf(args[1])
                               /\ fn = "Callback" => IsLiteral(args[1])
             /\ c.regular => /\ \A k \in DOMAIN args : args[k].regular
                             /\ \A k \in 2..Len(args) :
                                  IsLiteral(args[k - 1]) => ~args[k].startsEmptyCall
                             /\ fn = "default" => IsLeaf(args[1]) /\ args[2].single
                             /\ fn \notin Unchecked
BY DEF CallTerm

LEMMA LeafTermAttributes ==
  ASSUME NEW l, l # None
  PROVE  LET c == LeafTerm(l)
         IN  c.leaf = l /\ IsLeaf(c) /\ ~c.startsEmptyCall /\ c.single /\ c.regular
BY DEF LeafTerm, IsLeaf

(* what is behind a literal must not start with an empty call: it would be  *)
(* merged with it                                                           *)
AfterLiteral(bf, t, k) == IF k = 1 THEN bf # <<>> ELSE IsLiteral(t[k - 1])
Clean(bf, t) ==
  \A k \in 1..Len(t) : t[k].regular /\ (AfterLiteral(bf, t, k) => ~t[k].startsEmptyCall)

LeavesAre(t) ==
  \A k \in 1..Len(t) : IsLeaf(t[k]) => t[k] = LeafTerm(t[k].leaf) /\ Names(t[k].leaf)

(* the last term, if it is a leaf, is the last bytecode *)
LastIs(b, t) ==
  Len(t) >= 1 =>
    /\ b # <<>>
    /\ IsLeaf(t[Len(t)]) => Last(b) = Push(t[Len(t)].leaf)
    /\ ~IsLeaf(t[Len(t)]) => Last(b).op # "Push"

(* so is a leaf before a term of one bytecode *)
TwoAre(b, t) ==
  /\ Len(t) >= 2 /\ IsLeaf(t[Len(t) - 1]) /\ t[Len(t)].single
  /\ IsLiteral(t[Len(t) - 1]) => ~t[Len(t)].startsEmptyCall
  => Len(b) >= 2 /\ b[Len(b) - 1] = Push(t[Len(t) - 1].leaf) /\ Alone(b[Len(b)])

Expresses(bf, b, t) ==
  /\ Before(bf) /\ IsSeq(b) /\ IsSeq(t)
  /\ LeavesAre(t)
  /\ Len(t) = 0 => b = bf
  /\ LastIs(b, t) /\ TwoAre(b, t)
  /\ Clean(bf, t) => Reaches(b, StackOf(bf, t))

LEMMA SeqSingle ==
  ASSUME NEW x
  PROVE  IsSeq(<<x>>) /\ Len(<<x>>) = 1 /\ <<x>>[1] = x /\ Append(<<>>, x) = <<x>>
<1>1. <<x>> \in Seq({x})
  OBVIOUS
<1>2. Len(<<x>>) = 1 /\ <<x>>[1] = x /\ Append(<<>>, x) = <<x>>
  OBVIOUS
<1> QED  BY <1>1, <1>2, SeqUntyped

LEMMA BeforeIs ==
  ASSUME NEW bf, Before(bf)
  PROVE  IsSeq(bf) /\ Reaches(bf, StackOf(bf, <<>>)) /\ ~Tainted(Base(bf))
         /\ StackOf(bf, <<>>) = Base(bf) /\ IsSeq(Base(bf)) /\ Len(Base(bf)) = Len(bf)
<1> DEFINE l == Leaf("literal", "", 0)
<1>1. l.fn = "literal"
  BY DEF Leaf
<1>2. Names(l) /\ V(l) = l /\ l # Thrown
  <2>1. Thrown.fn = "thrown"
    BY DEF Thrown, Leaf
  <2>2. V(l) = l
    BY <1>1 DEF V, LeafTerm, IsFound, ValueOf
  <2> HIDE DEF l
  <2> QED  BY <1>1, <2>1, <2>2 DEF Names
<1>3. bf = <<>> \/ bf = <<Push(l)>>
  BY DEF Before
<1> HIDE DEF l
<1>4. IsSeq(<<>>) /\ Len(<<>>) = 0
  BY SeqEmpty
<1>5. <<Push(l)>> = Append(<<>>, Push(l))
  BY SeqSingle
<1>6. /\ IsSeq(<<Push(l)>>) /\ Len(<<Push(l)>>) = 1 /\ <<Push(l)>>[1] = Push(l)
  BY SeqSingle
<1>7. IsSeq(bf) /\ Len(bf) \in Nat
  BY <1>3, <1>4, <1>6
<1>8. Base(bf) = [k \in 1..Len(bf) |-> Base(bf)[k]] /\ \A k \in 1..Len(bf) : Base(bf)[k] = V(bf[k].imm)
  BY DEF Base
<1>9. IsSeq(Base(bf)) /\ Len(Base(bf)) = Len(bf)
  BY <1>7, <1>8, SeqListed
<1>10. StackOf(bf, <<>>) = Base(bf)
  <2>1. IsStack(StackOf(bf, <<>>), bf, <<>>)
    BY <1>4, <1>7, StackIs
  <2>2. /\ IsSeq(StackOf(bf, <<>>)) /\ Len(StackOf(bf, <<>>)) = Len(bf)
        /\ \A k \in 1..Len(bf) : StackOf(bf, <<>>)[k] = V(bf[k].imm)
    BY <1>4, <1>7, <2>1 DEF IsStack
  <2> QED  BY <2>2, <1>8, <1>9, SeqSame
<1>11. CASE bf = <<>>
  <2>1. Base(bf) = <<>>
    BY <1>4, <1>9, <1>11, SeqEmpty
  <2>2. ~Tainted(<<>>)
    BY <1>4 DEF Tainted
  <2> QED  BY <2>1, <2>2, <1>7, <1>9, <1>10, <1>11, ReachesEmpty
<1>12. CASE bf = <<Push(l)>>
  <2>1. Len(Base(bf)) = 1 /\ Base(bf)[1] = l
    BY <1>2, <1>6, <1>8, <1>9, <1>12, PushIs
  <2>2. Base(bf) = Append(<<>>, l)
    <3>1. IsSeq(Append(<<>>, l)) /\ Len(Append(<<>>, l)) = 1 /\ Append(<<>>, l)[1] = l
      BY SeqSingle
    <3>2. \A k \in 1..Len(Base(bf)) : Base(bf)[k] = Append(<<>>, l)[k]
      BY <2>1, <3>1
    <3> QED  BY <2>1, <3>1, <3>2, <1>9, SeqSame
  <2>3. ~Tainted(Base(bf))
    BY <1>2, <2>1 DEF Tainted
  <2>4. Fine(Push(l), <<>>)
    <3>1. Push(l).args \in Nat
      BY PushIs
    <3> QED  BY <3>1, <1>2, PushIs DEF Fine
  <2>5. Effect(Push(l), <<>>) = Append(<<>>, l)
    BY <1>2, PushIs DEF Effect
  <2>6. Reaches(bf, Base(bf))
    BY <2>2, <2>4, <2>5, <1>4, <1>5, <1>12, ReachesEmpty, ReachesAppend
  <2> QED  BY <2>3, <2>6, <1>7, <1>9, <1>10
<1> QED  BY <1>3, <1>11, <1>12

LEMMA ExpressesNothing ==
  ASSUME NEW bf, Before(bf)
  PROVE  Expresses(bf, bf, <<>>)
<1>1. Len(<<>>) = 0 /\ IsSeq(<<>>)
  BY SeqEmpty
<1>2. IsSeq(bf) /\ Reaches(bf, StackOf(bf, <<>>))
  BY BeforeIs
<1>3. LeavesAre(<<>>) /\ LastIs(bf, <<>>) /\ TwoAre(bf, <<>>)
  BY <1>1 DEF LeavesAre, LastIs, TwoAre
<1> QED  BY <1>1, <1>2, <1>3 DEF Expresses

(* A name or a literal is pushed.                                          *)
LEMMA ExpressesPush ==
  ASSUME NEW bf, NEW b, NEW t, Expresses(bf, b, t), NEW l, Names(l)
  PROVE  Expresses(bf, Append(b, Push(l)), Append(t, LeafTerm(l)))
<1> DEFINE c == Append(b, Push(l))
           u == LeafTerm(l)
           w == Append(t, u)
<1>1. IsSeq(bf) /\ IsSeq(b) /\ IsSeq(t) /\ Len(b) \in Nat /\ Len(t) \in Nat /\ Before(bf)
  BY BeforeIs, SeqDomain DEF Expresses
<1>2. l # None /\ Push(l).op = "Push" /\ Push(l).imm = l
  BY PushIs
<1>3. u.leaf = l /\ IsLeaf(u) /\ ~u.startsEmptyCall /\ u.single /\ u.regular /\ u.value = V(l)
  BY <1>2, LeafTermAttributes DEF V
<1>4. /\ IsSeq(c) /\ Len(c) = Len(b) + 1 /\ c # <<>> /\ c[Len(b) + 1] = Push(l)
      /\ \A k \in 1..Len(b) : c[k] = b[k]
  BY <1>1, SeqAppend
<1>5. Last(c) = Push(l)
  BY <1>1, SeqOfAppended
<1>6. /\ IsSeq(w) /\ Len(w) = Len(t) + 1 /\ w[Len(t) + 1] = u
      /\ \A k \in 1..Len(t) : w[k] = t[k]
  BY <1>1, SeqAppend
<1>7. u = LeafTerm(u.leaf)
  BY <1>3
<1>8. /\ \A k \in 1..(Len(t) + 1) : k \in 1..Len(t) \/ k = Len(t) + 1
      /\ \A k \in 1..Len(t) : k \in 1..(Len(t) + 1) /\ (k # 1 => k - 1 \in 1..Len(t))
  BY <1>1
<1>9. LeavesAre(w)
  <2> HIDE DEF u, w
  <2> QED  BY <1>3, <1>6, <1>7, <1>8 DEF LeavesAre, Expresses
<1>10. LastIs(c, w)
  <2> HIDE DEF u, w, c
  <2> QED  BY <1>3, <1>4, <1>5, <1>6 DEF LastIs
<1>11. TwoAre(c, w)
  <2> SUFFICES ASSUME Len(w) >= 2, IsLeaf(w[Len(w) - 1])
               PROVE  Len(c) >= 2 /\ c[Len(c) - 1] = Push(w[Len(w) - 1].leaf) /\ Alone(c[Len(c)])
    BY DEF TwoAre
  <2> HIDE DEF u, w, c
  <2>1. Len(t) >= 1 /\ Len(w) - 1 = Len(t) /\ Len(t) \in 1..Len(t)
    BY <1>1, <1>6
  <2>2. b # <<>> /\ Last(b) = Push(t[Len(t)].leaf)
    BY <2>1, <1>6 DEF LastIs, Expresses
  <2>3. Len(b) \in Nat \ {0} /\ Last(b) = b[Len(b)]
    BY <2>2, <1>1, SeqFront
  <2>4. Len(c) >= 2 /\ Len(c) - 1 = Len(b) /\ Len(b) \in 1..Len(b)
    BY <2>3, <1>4
  <2>5. c[Len(c) - 1] = Push(w[Len(w) - 1].leaf)
    BY <2>1, <2>2, <2>3, <2>4, <1>4, <1>6
  <2>6. Alone(c[Len(c)])
    BY <1>2, <1>4 DEF Alone
  <2> QED  BY <2>4, <2>5, <2>6
<1>12. ASSUME Clean(bf, w)
       PROVE  Reaches(c, StackOf(bf, w))
  <2>1. Clean(bf, t)
    <3> SUFFICES ASSUME NEW k \in 1..Len(t)
                 PROVE  t[k].regular /\ (AfterLiteral(bf, t, k) => ~t[k].startsEmptyCall)
      BY DEF Clean
    <3> HIDE DEF u, w
    <3>1. w[k] = t[k] /\ w[k].regular /\ (AfterLiteral(bf, w, k) => ~w[k].startsEmptyCall)
      BY <1>6, <1>8, <1>12 DEF Clean
    <3>2. AfterLiteral(bf, w, k) <=> AfterLiteral(bf, t, k)
      BY <1>6, <1>8 DEF AfterLiteral
    <3> QED  BY <3>1, <3>2
  <2>2. Reaches(b, StackOf(bf, t))
    BY <2>1 DEF Expresses
  <2>3. Fine(Push(l), StackOf(bf, t))
    <3>1. Push(l).args \in Nat
      BY PushIs
    <3> QED  BY <3>1, <1>2 DEF Fine
  <2>4. Effect(Push(l), StackOf(bf, t)) = Append(StackOf(bf, t), V(l))
    BY <1>2 DEF Effect
  <2>5. StackOf(bf, w) = Append(StackOf(bf, t), V(l))
    <3>1. \A z : StackOf(bf, Append(t, z)) = Append(StackOf(bf, t), z.value)
      BY ONLY <1>1, StackAppend
    <3>2. StackOf(bf, Append(t, u)) = Append(StackOf(bf, t), u.value)
      BY ONLY <3>1, Zenon
    <3> QED  BY <3>2, <1>3
  <2>6. Reaches(c, Append(StackOf(bf, t), V(l)))
    BY <2>2, <2>3, <2>4, <1>1, ReachesAppend
  <2> QED  BY <2>5, <2>6
<1>13. Len(w) # 0
  BY <1>1, <1>6
<1> QED  BY <1>1, <1>4, <1>6, <1>9, <1>10, <1>11, <1>12, <1>13 DEF Expresses

(* A call takes n terms for one.                                           *)
ArgsOf(t, n) == SubSeq(t, Len(t) - n + 1, Len(t))

LEMMA WrittenShape ==
  ASSUME NEW t, IsSeq(t), NEW n \in Nat, n <= Len(t), NEW fn, NEW name
  PROVE  LET w == WrittenOn(t, fn, name, n)
             args == ArgsOf(t, n)
             c == CallTerm(fn, name, args)
             m == Len(t) - n
         IN  /\ IsSeq(w) /\ Len(w) = m + 1 /\ w[m + 1] = c /\ m \in Nat /\ Len(t) = m + n
             /\ \A k \in 1..m : w[k] = t[k]
             /\ IsSeq(args) /\ Len(args) = n /\ \A k \in 1..n : args[k] = t[m + k]
             /\ ~IsLeaf(c)
<1>1. Len(t) \in Nat
  BY SeqDomain
<1>2. Len(t) - n \in Nat /\ Len(t) = (Len(t) - n) + n
  BY <1>1
<1>3. ~IsLeaf(CallTerm(fn, name, ArgsOf(t, n)))
  BY CallTermIs DEF IsLeaf
<1> DEFINE w == WrittenOn(t, fn, name, n)
           args == SubSeq(t, Len(t) - n + 1, Len(t))
<1>4. args = ArgsOf(t, n)
  BY DEF ArgsOf
<1>5. /\ IsSeq(w) /\ Len(w) = Len(t) - n + 1
      /\ \A k \in 1..(Len(t) - n) : w[k] = t[k]
      /\ w[Len(t) - n + 1] = CallTerm(fn, name, args)
      /\ IsSeq(args) /\ Len(args) = n
      /\ \A k \in 1..n : args[k] = t[Len(t) - n + k]
  BY WrittenIs, Zenon
<1> HIDE DEF w, args
<1> QED  BY <1>2, <1>3, <1>4, <1>5 DEF w

LEMMA WrittenClean ==
  ASSUME NEW bf, NEW t, IsSeq(t), NEW n \in Nat, n <= Len(t), NEW fn, NEW name,
         Clean(bf, WrittenOn(t, fn, name, n))
  PROVE  /\ Clean(bf, t)
         /\ CallTerm(fn, name, ArgsOf(t, n)).regular
         /\ AfterLiteral(bf, t, Len(t) - n + 1) => ~CallTerm(fn, name, ArgsOf(t, n)).startsEmptyCall
<1> DEFINE w == WrittenOn(t, fn, name, n)
           args == ArgsOf(t, n)
           c == CallTerm(fn, name, args)
           m == Len(t) - n
<1>1. /\ IsSeq(w) /\ Len(w) = m + 1 /\ w[m + 1] = c /\ m \in Nat /\ Len(t) = m + n
      /\ \A k \in 1..m : w[k] = t[k]
      /\ IsSeq(args) /\ Len(args) = n /\ \A k \in 1..n : args[k] = t[m + k]
  BY WrittenShape
<1>2. c.regular => /\ \A k \in DOMAIN args : args[k].regular
                   /\ \A k \in 2..Len(args) :
                        IsLiteral(args[k - 1]) => ~args[k].startsEmptyCall
  BY CallTermAttributes
<1>3. c.startsEmptyCall <=> args = <<>> \/ args[1].startsEmptyCall
  BY CallTermAttributes
<1>4. \A k \in 1..Len(w) : w[k].regular /\ (AfterLiteral(bf, w, k) => ~w[k].startsEmptyCall)
  BY DEF Clean
<1> HIDE DEF w, args, c, m
<1>5. DOMAIN args = 1..n
  BY <1>1, SeqDomain
<1>6. /\ \A k \in 1..m : k \in 1..Len(w) /\ (k # 1 => k - 1 \in 1..m)
      /\ m + 1 \in 1..Len(w) /\ (m + 1 # 1 => m \in 1..m) /\ m + 1 - 1 = m
  BY <1>1
<1>7. \A k \in 1..m : AfterLiteral(bf, w, k) <=> AfterLiteral(bf, t, k)
  BY <1>1, <1>6 DEF AfterLiteral
<1>8. AfterLiteral(bf, w, m + 1) <=> AfterLiteral(bf, t, m + 1)
  BY <1>1, <1>6 DEF AfterLiteral
<1>9. c.regular /\ (AfterLiteral(bf, t, m + 1) => ~c.startsEmptyCall)
  BY <1>1, <1>4, <1>6, <1>8
<1>10. ASSUME NEW k \in 1..Len(t)
       PROVE  t[k].regular /\ (AfterLiteral(bf, t, k) => ~t[k].startsEmptyCall)
  <2>1. CASE k \in 1..m
    BY <2>1, <1>1, <1>4, <1>6, <1>7
  <2>2. CASE k = m + 1
    <3>1. 1 \in 1..n
      BY <2>2, <1>1
    <3>2. args[1] = t[k]
      BY <2>2, <3>1, <1>1
    <3> QED  BY <2>2, <3>1, <3>2, <1>2, <1>3, <1>5, <1>9
  <2>3. CASE k \notin 1..(m + 1)
    <3> DEFINE j == k - m
    <3>1. k = m + j /\ j \in 2..n /\ j - 1 \in 1..n /\ m + (j - 1) = k - 1 /\ j \in 1..n
      BY <2>3, <1>1
    <3> HIDE DEF j
    <3>2. args[j] = t[k] /\ args[j - 1] = t[k - 1]
      BY <3>1, <1>1
    <3>3. args[j].regular /\ (IsLiteral(args[j - 1]) => ~args[j].startsEmptyCall)
      BY <3>1, <1>1, <1>2, <1>5, <1>9
    <3>4. AfterLiteral(bf, t, k) => IsLiteral(t[k - 1])
      BY <2>3, <1>1 DEF AfterLiteral
    <3> QED  BY <3>2, <3>3, <3>4
  <2>4. k \in 1..m \/ k = m + 1 \/ k \notin 1..(m + 1)
    BY <1>1
  <2> QED  BY <2>1, <2>2, <2>3, <2>4
<1>11. Clean(bf, t)
  BY <1>10 DEF Clean
<1> QED  BY <1>9, <1>11 DEF c, args, m

LEMMA WrittenLeaves ==
  ASSUME NEW t, IsSeq(t), LeavesAre(t), NEW n \in Nat, n <= Len(t), NEW fn, NEW name
  PROVE  LeavesAre(WrittenOn(t, fn, name, n))
<1> DEFINE w == WrittenOn(t, fn, name, n)
           c == CallTerm(fn, name, ArgsOf(t, n))
           m == Len(t) - n
<1>1. /\ Len(w) = m + 1 /\ w[m + 1] = c /\ m \in Nat /\ Len(t) = m + n
      /\ \A k \in 1..m : w[k] = t[k]
      /\ ~IsLeaf(c)
  BY WrittenShape
<1> HIDE DEF w, c, m
<1>2. \A k \in 1..(m + 1) : (k \in 1..m /\ k \in 1..Len(t)) \/ k = m + 1
  BY <1>1
<1>3. LeavesAre(w)
  BY <1>1, <1>2 DEF LeavesAre
<1> QED  BY <1>3 DEF w

(* what a call has to show *)
LEMMA ExpressesCall ==
  ASSUME NEW bf, NEW b, NEW t, Expresses(bf, b, t), NEW n \in Nat, n <= Len(t), NEW fn, NEW name,
         NEW c, IsSeq(c), c # <<>>, Last(c).op # "Push",
         TwoAre(c, WrittenOn(t, fn, name, n)),
         Clean(bf, WrittenOn(t, fn, name, n)) =>
           Reaches(c, Outcome(fn, name, n, StackOf(bf, t)))
  PROVE  Expresses(bf, c, WrittenOn(t, fn, name, n))
<1> DEFINE w == WrittenOn(t, fn, name, n)
<1>1. IsSeq(bf) /\ IsSeq(t) /\ Before(bf) /\ LeavesAre(t)
  BY BeforeIs DEF Expresses
<1>2. IsSeq(w) /\ Len(w) = Len(t) - n + 1 /\ ~IsLeaf(w[Len(t) - n + 1]) /\ Len(t) - n \in Nat
  BY <1>1, WrittenShape
<1>3. LeavesAre(w)
  BY <1>1, WrittenLeaves
<1>4. Outcome(fn, name, n, StackOf(bf, t)) = StackOf(bf, w)
  BY <1>1, StackWritten
<1>5. Clean(bf, w) => Reaches(c, StackOf(bf, w))
  BY <1>4
<1>6. TwoAre(c, w)
  OBVIOUS
<1> HIDE DEF w
<1>7. ~IsLeaf(w[Len(w)]) /\ Len(w) # 0
  BY <1>2
<1>8. LastIs(c, w)
  BY <1>7 DEF LastIs
<1>9. Expresses(bf, c, w)
  BY <1>1, <1>2, <1>3, <1>5, <1>6, <1>7, <1>8 DEF Expresses
<1> QED  BY <1>9 DEF w

LEMMA StackHasTerms ==
  ASSUME NEW bf, NEW b, NEW t, Expresses(bf, b, t)
  PROVE  /\ IsSeq(bf) /\ IsSeq(b) /\ IsSeq(t) /\ Len(bf) \in Nat /\ Len(b) \in Nat /\ Len(t) \in Nat
         /\ IsSeq(StackOf(bf, t)) /\ Len(StackOf(bf, t)) \in Nat /\ Len(t) <= Len(StackOf(bf, t))
<1>1. IsSeq(bf) /\ IsSeq(b) /\ IsSeq(t)
  BY BeforeIs DEF Expresses
<1>2. Len(bf) \in Nat /\ Len(b) \in Nat /\ Len(t) \in Nat
  BY <1>1, SeqDomain
<1>3. IsStack(StackOf(bf, t), bf, t)
  BY <1>1, StackIs
<1>4. IsSeq(StackOf(bf, t)) /\ Len(StackOf(bf, t)) = Len(bf) + Len(t)
  BY <1>3 DEF IsStack
<1> QED  BY <1>1, <1>2, <1>4

LEMMA CodeIs ==
  ASSUME NEW op, NEW name, NEW n, NEW l
  PROVE  /\ Code(op, name, n, l).op = op /\ Code(op, name, n, l).name = name
         /\ Code(op, name, n, l).args = n /\ Code(op, name, n, l).imm = l
BY DEF Code

LEMMA CallShape ==
  ASSUME NEW b, IsSeq(b), NEW op, NEW name, NEW n, NEW c,
         \/ b # <<>> /\ c = Merged(b, op, name, n)
         \/ c = Append(b, Code(op, name, n, None))
  PROVE  IsSeq(c) /\ c # <<>> /\ Last(c).op = op
<1>1. CASE b # <<>> /\ c = Merged(b, op, name, n)
  <2>1. IsSeq(Front(b))
    BY <1>1, SeqFront
  <2>2. c = Append(Front(b), Code(op, name, n, Last(b).imm))
    BY <1>1, MergedIs
  <2>3. IsSeq(c) /\ c # <<>> /\ Last(c) = Code(op, name, n, Last(b).imm)
    BY <2>1, <2>2, SeqAppend, SeqOfAppended
  <2> QED  BY <2>3, CodeIs
<1>2. CASE c = Append(b, Code(op, name, n, None))
  <2>1. IsSeq(c) /\ c # <<>> /\ Last(c) = Code(op, name, n, None)
    BY <1>2, SeqAppend, SeqOfAppended
  <2> QED  BY <2>1, CodeIs
<1> QED  BY <1>1, <1>2

CallOp(op) == op \notin {"Push", "default", "PrintValue", "thrown"}
NoName == ""
Named(op, name) == op # "Callback" => name = NoName
(* append_function and append_callback                                      *)
Merges(b, op) ==
  b # <<>> /\ Last(b).op = "Push" /\ (op = "Callback" => Last(b).imm.fn = "literal")
CallOn(b, op, name, n) ==
  IF Merges(b, op) THEN Merged(b, op, name, n) ELSE Append(b, Code(op, name, n, None))

LEMMA CallsAre ==
  /\ \A b, name, n : append_callback(b, name, n) = CallOn(b, "Callback", name, n)
  /\ \A b, op, n : op # "Callback" => append_function(b, op, n) = CallOn(b, op, NoName, n)
<1>1. \A b, name, n : append_callback(b, name, n) = CallOn(b, "Callback", name, n)
  BY DEF append_callback, CallOn, Merges
<1>2. \A b, op, n : op # "Callback" => append_function(b, op, n) = CallOn(b, op, NoName, n)
  BY DEF append_function, CallOn, Merges, NoName
<1> QED  BY <1>1, <1>2

(* a call of one leaf, merged with it, is one bytecode behind what was      *)
(* before the leaf                                                          *)
LEMMA MergedLeaf ==
  ASSUME NEW bf, NEW b, NEW t, Expresses(bf, b, t), NEW op, NEW name,
         CallOp(op),
         Len(t) >= 2, IsLeaf(t[Len(t)]), IsLeaf(t[Len(t) - 1])
  PROVE  LET c == Merged(b, op, name, 1)
         IN  Len(c) >= 2 /\ c[Len(c) - 1] = Push(t[Len(t) - 1].leaf) /\ Alone(c[Len(c)])
<1> DEFINE c == Merged(b, op, name, 1)
           L == Len(t)
           l == t[L].leaf
           d == Code(op, name, 1, l)
<1>1. IsSeq(b) /\ IsSeq(t) /\ L \in Nat /\ Len(b) \in Nat /\ LeavesAre(t) /\ TwoAre(b, t) /\ LastIs(b, t)
  BY StackHasTerms DEF Expresses
<1>2. t[L] = LeafTerm(l) /\ Names(l)
  BY <1>1 DEF LeavesAre
<1>3. t[L].single /\ ~t[L].startsEmptyCall
  BY <1>2, PushIs, LeafTermAttributes
<1>4. Len(b) >= 2 /\ b[Len(b) - 1] = Push(t[L - 1].leaf)
  BY <1>3, <1>1 DEF TwoAre
<1>5. b # <<>> /\ Last(b) = Push(l)
  BY <1>1 DEF LastIs
<1>6. IsSeq(Front(b)) /\ Len(Front(b)) = Len(b) - 1 /\ \A k \in 1..(Len(b) - 1) : Front(b)[k] = b[k]
  BY <1>1, <1>5, SeqFront
<1>7. c = Append(Front(b), d)
  BY <1>1, <1>5, MergedIs, PushIs
<1> HIDE DEF c, d, l
<1>8. /\ Len(c) = Len(Front(b)) + 1 /\ c[Len(Front(b)) + 1] = d
      /\ \A k \in 1..Len(Front(b)) : c[k] = Front(b)[k]
  BY <1>6, <1>7, SeqAppend
<1>9. Len(c) = Len(b) /\ Len(b) - 1 \in 1..Len(Front(b)) /\ Len(Front(b)) + 1 = Len(b)
      /\ Len(b) - 1 \in 1..(Len(b) - 1)
  BY <1>1, <1>4, <1>6, <1>8
<1>10. c[Len(c) - 1] = b[Len(b) - 1] /\ c[Len(c)] = d
  BY <1>6, <1>8, <1>9
<1>11. Alone(d)
  <2>1. d.op = op /\ d.imm = l
    BY CodeIs DEF d
  <2>2. d.args = 1
    BY CodeIs DEF d
  <2>3. l # None
    BY <1>2, PushIs
  <2>4. Imms(d) = 1
    BY <2>1, <2>3 DEF Imms
  <2>5. Pops(d) = 0
    BY <2>2, <2>4 DEF Pops
  <2> QED  BY <2>1, <2>5 DEF Alone, CallOp
<1> QED  BY <1>4, <1>9, <1>10, <1>11 DEF c


(* the call without arguments that would be merged is not clean             *)
LEMMA EmptyCallMerges ==
  ASSUME NEW bf, NEW b, NEW t, Expresses(bf, b, t), Merges(b, "Callback"),
         AfterLiteral(bf, t, Len(t) + 1) => FALSE
  PROVE  FALSE
<1>1. Len(t) \in Nat
  BY StackHasTerms
<1>2. b # <<>> /\ Last(b).op = "Push" /\ Last(b).imm.fn = "literal"
  BY DEF Merges
<1>3. CASE Len(t) = 0
  <2>1. b = bf
    BY <1>3 DEF Expresses
  <2>2. Len(t) + 1 = 1
    BY <1>3
  <2> QED  BY <2>1, <2>2, <1>2 DEF AfterLiteral
<1>4. CASE Len(t) # 0
  <2>1. Len(t) >= 1 /\ Len(t) + 1 # 1 /\ Len(t) + 1 - 1 = Len(t)
    BY <1>1, <1>4
  <2>2. /\ IsLeaf(t[Len(t)]) => Last(b) = Push(t[Len(t)].leaf)
        /\ ~IsLeaf(t[Len(t)]) => Last(b).op # "Push"
    BY <2>1 DEF Expresses, LastIs
  <2>3. Last(b).imm = t[Len(t)].leaf
    BY <1>2, <2>2, PushIs
  <2>4. IsLiteral(t[Len(t)])
    BY <1>2, <2>3 DEF IsLiteral
  <2> QED  BY <2>1, <2>4 DEF AfterLiteral
<1> QED  BY <1>3, <1>4

(* a call without arguments behind a leaf it is not merged with             *)
LEMMA EmptyCallAlone ==
  ASSUME NEW bf, NEW b, NEW t, Expresses(bf, b, t), NEW op, CallOp(op), NEW name,
         Len(t) >= 1, IsLeaf(t[Len(t)])
  PROVE  LET c == Append(b, Code(op, name, 0, None))
         IN  Len(c) >= 2 /\ c[Len(c) - 1] = Push(t[Len(t)].leaf) /\ Alone(c[Len(c)])
<1> DEFINE d == Code(op, name, 0, None)
           c == Append(b, d)
<1>1. IsSeq(b) /\ Len(b) \in Nat
  BY StackHasTerms
<1>2. b # <<>> /\ Last(b) = Push(t[Len(t)].leaf)
  BY DEF Expresses, LastIs
<1>3. Last(b) = b[Len(b)] /\ Len(b) \in Nat \ {0}
  BY <1>1, <1>2, SeqFront
<1>4. Alone(d)
  <2>1. d.op = op /\ d.imm = None
    BY CodeIs
  <2>2. d.args = 0
    BY CodeIs
  <2>3. Imms(d) = 0
    BY <2>1 DEF Imms
  <2>4. Pops(d) = 0
    BY <2>2, <2>3 DEF Pops
  <2> QED  BY <2>1, <2>4 DEF Alone, CallOp
<1> HIDE DEF d
<1>5. Len(c) = Len(b) + 1 /\ c[Len(b) + 1] = d /\ \A k \in 1..Len(b) : c[k] = b[k]
  BY <1>1, SeqAppend
<1> HIDE DEF c
<1>6. Len(c) >= 2 /\ Len(c) - 1 = Len(b) /\ Len(b) \in 1..Len(b)
  BY <1>3, <1>5
<1>7. c[Len(c) - 1] = Push(t[Len(t)].leaf) /\ c[Len(c)] = d
  BY <1>2, <1>3, <1>5, <1>6
<1> QED  BY <1>4, <1>6, <1>7 DEF c, d

LEMMA CallTwo ==
  ASSUME NEW bf, NEW b, NEW t, Expresses(bf, b, t), NEW n \in Nat, n <= Len(t),
         NEW op, CallOp(op), NEW name, n = 0 => op = "Callback"
  PROVE  TwoAre(CallOn(b, op, name, n), WrittenOn(t, op, name, n))
<1> DEFINE c == CallOn(b, op, name, n)
           w == WrittenOn(t, op, name, n)
           L == Len(t)
           args == ArgsOf(t, n)
           a == CallTerm(op, name, args)
<1>1. IsSeq(t) /\ L \in Nat
  BY StackHasTerms
<1>2. /\ IsSeq(w) /\ Len(w) = (L - n) + 1 /\ w[(L - n) + 1] = a /\ L - n \in Nat
      /\ \A k \in 1..(L - n) : w[k] = t[k]
      /\ IsSeq(args) /\ Len(args) = n /\ \A k \in 1..n : args[k] = t[(L - n) + k]
  BY <1>1, WrittenShape
<1>3. /\ a.single => \/ args = <<>>
                     \/ /\ Len(args) = 1 /\ IsLeaf(args[1])
                        /\ op = "Callback" => IsLiteral(args[1])
      /\ a.startsEmptyCall <=> args = <<>> \/ args[1].startsEmptyCall
  BY ONLY CallTermAttributes
<1>4. /\ Merges(b, op) => c = Merged(b, op, name, n)
      /\ ~Merges(b, op) => c = Append(b, Code(op, name, n, None))
  BY DEF CallOn
<1>5. LastIs(b, t)
  BY DEF Expresses
<1> HIDE DEF c, w, args, a
<1>6. SUFFICES ASSUME Len(w) >= 2, IsLeaf(w[Len(w) - 1]), a.single,
                      IsLiteral(w[Len(w) - 1]) => ~a.startsEmptyCall
               PROVE  Len(c) >= 2 /\ c[Len(c) - 1] = Push(w[Len(w) - 1].leaf) /\ Alone(c[Len(c)])
  <2>1. w[Len(w)] = a
    BY ONLY <1>2
  <2> QED  BY <2>1 DEF TwoAre, c, w
<1>7. CASE n = 0
  <2>1. args = <<>> /\ L - n = L /\ Len(w) - 1 = L /\ L >= 1 /\ L \in 1..(L - n)
    <3>1. args = <<>>
      BY ONLY <1>2, <1>7, SeqEmpty
    <3>2. L - n = L /\ Len(w) - 1 = L /\ L >= 1 /\ L \in 1..(L - n)
      BY ONLY <1>1, <1>2, <1>6, <1>7
    <3> QED  BY ONLY <3>1, <3>2
  <2>2. w[Len(w) - 1] = t[L]
    BY ONLY <2>1, <1>2
  <2>3. IsLeaf(t[L]) /\ ~IsLiteral(t[L])
    BY ONLY <2>1, <2>2, <1>3, <1>6
  <2>4. Last(b) = Push(t[L].leaf)
    BY ONLY <2>1, <2>3, <1>5 DEF LastIs
  <2>5. Last(b).imm = t[L].leaf
    BY ONLY <2>4, PushIs
  <2>6. ~Merges(b, op)
    BY <2>3, <2>5, <1>7 DEF Merges, IsLiteral
  <2>7. c = Append(b, Code(op, name, 0, None))
    BY <2>6, <1>4, <1>7
  <2> QED  BY <2>1, <2>2, <2>3, <2>7, EmptyCallAlone
<1>8. CASE n # 0
  <2>1. args # <<>>
    BY ONLY <1>2, <1>8, SeqEmpty
  <2>2. n = 1 /\ IsLeaf(args[1]) /\ (op = "Callback" => IsLiteral(args[1]))
    BY ONLY <1>2, <1>3, <1>6, <2>1
  <2>3. n = 1
    BY ONLY <2>2
  <2>4. L - n = L - 1 /\ (L - n) + 1 = L /\ L >= 2 /\ Len(w) = L /\ L - 1 \in 1..(L - n) /\ 1 \in 1..n
    BY ONLY <1>1, <1>2, <1>6, <2>3
  <2>5. args[1] = t[L] /\ w[Len(w) - 1] = t[L - 1]
    BY ONLY <1>2, <2>4
  <2>6. IsLeaf(t[L]) /\ IsLeaf(t[L - 1]) /\ (op = "Callback" => IsLiteral(t[L]))
    BY ONLY <1>6, <2>2, <2>5
  <2>7. b # <<>> /\ Last(b) = Push(t[L].leaf)
    <3>1. L >= 1
      BY ONLY <2>4, <1>1
    <3> QED  BY ONLY <3>1, <2>6, <1>5 DEF LastIs
  <2>8. Last(b).op = "Push" /\ Last(b).imm = t[L].leaf
    BY ONLY <2>7, PushIs
  <2>9. Merges(b, op)
    BY ONLY <2>6, <2>7, <2>8 DEF Merges, IsLiteral
  <2>10. c = Merged(b, op, name, 1)
    BY ONLY <2>3, <2>9, <1>4
  <2>11. L >= 2
    BY ONLY <2>4
  <2>12. Len(c) >= 2 /\ c[Len(c) - 1] = Push(t[L - 1].leaf) /\ Alone(c[Len(c)])
    BY <2>6, <2>10, <2>11, MergedLeaf
  <2> QED  BY ONLY <2>5, <2>12
<1> QED  BY <1>7, <1>8

LEMMA CallKeeps ==
  ASSUME NEW bf, NEW b, NEW t, Expresses(bf, b, t), NEW n \in Nat, n <= Len(t),
         NEW op, CallOp(op), NEW name, Named(op, name), n = 0 => op = "Callback"
  PROVE  Expresses(bf, CallOn(b, op, name, n), WrittenOn(t, op, name, n))
<1> DEFINE c == CallOn(b, op, name, n)
           w == WrittenOn(t, op, name, n)
           s == StackOf(bf, t)
           a == CallTerm(op, name, ArgsOf(t, n))
<1>1. /\ IsSeq(bf) /\ IsSeq(b) /\ IsSeq(t) /\ Len(b) \in Nat /\ Len(t) \in Nat
      /\ IsSeq(s) /\ Len(s) \in Nat /\ Len(t) <= Len(s)
  BY StackHasTerms
<1>2. /\ Merges(b, op) => c = Merged(b, op, name, n)
      /\ ~Merges(b, op) => c = Append(b, Code(op, name, n, None))
  BY DEF CallOn
<1>3. TwoAre(c, w)
  BY CallTwo
<1>4. Merges(b, op) => b # <<>> /\ Last(b).op = "Push"
  BY DEF Merges
<1> HIDE DEF c
<1>5. IsSeq(c) /\ c # <<>> /\ Last(c).op = op
  <2>1. \/ b # <<>> /\ c = Merged(b, op, name, n)
        \/ c = Append(b, Code(op, name, n, None))
    BY <1>2, <1>4
  <2>2. IsSeq(b)
    BY <1>1
  <2> QED  BY ONLY <2>1, <2>2, CallShape
<1>6. ASSUME Clean(bf, w)
      PROVE  Reaches(c, Outcome(op, name, n, s))
  <2>1. /\ Clean(bf, t) /\ a.regular
        /\ AfterLiteral(bf, t, Len(t) - n + 1) => ~a.startsEmptyCall
    BY <1>1, <1>6, WrittenClean
  <2>2. op \notin Unchecked
    BY ONLY <2>1, CallTermAttributes
  <2>3. Ordinary(op, name)
    BY <2>2 DEF Ordinary, PlainOp, CallOp, Named, NoName
  <2>4. Reaches(b, s)
    BY <2>1 DEF Expresses
  <2>5. n <= Len(s) /\ n \in Nat
    BY <1>1
  <2>6. CASE Merges(b, op)
    <3>1. n # 0
      <4> SUFFICES ASSUME n = 0 PROVE FALSE
        OBVIOUS
      <4>1. Len(t) - n + 1 = Len(t) + 1
        BY <1>1
      <4>2. ArgsOf(t, n) = <<>>
        <5>1. IsSeq(ArgsOf(t, n)) /\ Len(ArgsOf(t, n)) = n
          BY ONLY <1>1, n \in Nat, n <= Len(t), WrittenShape
        <5> QED  BY <5>1, SeqEmpty
      <4>3. a.startsEmptyCall
        BY ONLY <4>2, CallTermAttributes
      <4>4. AfterLiteral(bf, t, Len(t) + 1) => FALSE
        BY <2>1, <4>1, <4>3
      <4>5. Merges(b, "Callback")
        BY <2>6
      <4> QED  BY <4>4, <4>5, EmptyCallMerges
    <3>2. c = Merged(b, op, name, n) /\ b # <<>> /\ Last(b).op = "Push" /\ n \in Nat \ {0} /\ IsSeq(b)
      BY <2>6, <1>1, <1>2, <1>4, <3>1
    <3> HIDE DEF s
    <3>3. Reaches(Merged(b, op, name, n), Outcome(op, name, n, s))
      BY ONLY <2>3, <2>4, <2>5, <3>2, MergedCall
    <3> QED  BY <3>2, <3>3
  <2>7. CASE ~Merges(b, op)
    <3>1. c = Append(b, Code(op, name, n, None)) /\ IsSeq(b)
      BY <2>7, <1>1, <1>2
    <3> HIDE DEF s
    <3>2. Reaches(Append(b, Code(op, name, n, None)), Outcome(op, name, n, s))
      BY ONLY <2>3, <2>4, <2>5, <3>1, AppendedCall
    <3> QED  BY <3>1, <3>2
  <2> QED  BY <2>6, <2>7
<1>7. Last(c).op # "Push"
  BY <1>5 DEF CallOp
<1> QED  BY <1>3, <1>5, <1>6, <1>7, ExpressesCall DEF c

LEMMA FunctionKeeps ==
  ASSUME NEW bf, NEW b, NEW t, Expresses(bf, b, t), NEW n \in Nat \ {0}, n <= Len(t),
         NEW op, CallOp(op), op # "Callback"
  PROVE  Expresses(bf, append_function(b, op, n), WrittenOn(t, op, NoName, n))
<1>1. Named(op, NoName)
  BY DEF Named
<1>2. Expresses(bf, CallOn(b, op, NoName, n), WrittenOn(t, op, NoName, n))
  BY <1>1, CallKeeps
<1> QED  BY <1>2, CallsAre

LEMMA CallbackKeeps ==
  ASSUME NEW bf, NEW b, NEW t, Expresses(bf, b, t), NEW n \in Nat, n <= Len(t), NEW name
  PROVE  Expresses(bf, append_callback(b, name, n), WrittenOn(t, "Callback", name, n))
<1>1. CallOp("Callback") /\ Named("Callback", name)
  BY DEF CallOp, Named
<1>2. Expresses(bf, CallOn(b, "Callback", name, n), WrittenOn(t, "Callback", name, n))
  BY <1>1, CallKeeps
<1> QED  BY <1>2, CallsAre

LEMMA TwoShape ==
  ASSUME NEW t, IsSeq(t), 2 <= Len(t), NEW fn, NEW name
  PROVE  LET w == WrittenOn(t, fn, name, 2)
             args == ArgsOf(t, 2)
         IN  /\ IsSeq(w) /\ Len(w) = (Len(t) - 2) + 1
             /\ w[(Len(t) - 2) + 1] = CallTerm(fn, name, args)
             /\ IsSeq(args) /\ Len(args) = 2 /\ \A k \in 1..2 : args[k] = t[(Len(t) - 2) + k]
<1>1. ASSUME NEW n \in Nat, n <= Len(t)
      PROVE  LET w == WrittenOn(t, fn, name, n)
                 args == ArgsOf(t, n)
             IN  /\ IsSeq(w) /\ Len(w) = (Len(t) - n) + 1
                 /\ w[(Len(t) - n) + 1] = CallTerm(fn, name, args)
                 /\ IsSeq(args) /\ Len(args) = n /\ \A k \in 1..n : args[k] = t[(Len(t) - n) + k]
  BY <1>1, WrittenShape
<1>2. 2 \in Nat
  OBVIOUS
<1> QED  BY ONLY <1>1, <1>2, 2 <= Len(t), Zenon

(* the bytecodes of the arguments of a default() that is regular            *)
LEMMA DefaultArguments ==
  ASSUME NEW bf, NEW b, NEW t, Expresses(bf, b, t), 2 <= Len(t), NEW name,
         CallTerm("default", name, ArgsOf(t, 2)).regular
  PROVE  /\ 2 <= Len(b) /\ Alone(b[Len(b)])
         /\ b[Len(b) - 1] = Push(t[Len(t) - 1].leaf) /\ Names(t[Len(t) - 1].leaf)
<1> DEFINE L == Len(t)
           args == ArgsOf(t, 2)
<1>1. IsSeq(t) /\ L \in Nat /\ LeavesAre(t) /\ TwoAre(b, t)
  BY StackHasTerms DEF Expresses
<1>2. Len(args) = 2 /\ \A k \in 1..2 : args[k] = t[(L - 2) + k]
  BY <1>1, TwoShape
<1>3. /\ IsLeaf(args[1]) /\ args[2].single
      /\ \A k \in 2..Len(args) : IsLiteral(args[k - 1]) => ~args[k].startsEmptyCall
  BY CallTermAttributes
<1> HIDE DEF args
<1>4. /\ 1 \in 1..2 /\ 2 \in 1..2 /\ 2 \in 2..Len(args) /\ 2 - 1 = 1 /\ (L - 2) + 1 = L - 1
      /\ (L - 2) + 2 = L /\ L - 1 \in 1..L
  BY <1>1, <1>2
<1>5. args[1] = t[L - 1] /\ args[2] = t[L]
  BY <1>2, <1>4
<1>6. IsLiteral(args[1]) => ~args[2].startsEmptyCall
  BY <1>3, <1>4
<1>7. IsLeaf(t[L - 1]) /\ t[L].single /\ (IsLiteral(t[L - 1]) => ~t[L].startsEmptyCall)
  BY <1>3, <1>5, <1>6
<1>8. Len(b) >= 2 /\ b[Len(b) - 1] = Push(t[L - 1].leaf) /\ Alone(b[Len(b)])
  BY <1>1, <1>7 DEF TwoAre
<1>9. Names(t[L - 1].leaf)
  BY <1>1, <1>4, <1>7 DEF LeavesAre
<1>10. Len(b) \in Nat
  BY StackHasTerms
<1> QED  BY <1>8, <1>9, <1>10

LEMMA DefaultMeans ==
  ASSUME NEW name, NEW s, IsSeq(s), 2 <= Len(s)
  PROVE  Outcome("default", name, 2, s)
           = Append(SubSeq(s, 1, Len(s) - 2), Chosen(s[Len(s) - 1], s[Len(s)]))
<1> DEFINE n == Len(s)
           u == SubSeq(s, n - 2 + 1, n)
<1>1. n \in Nat
  BY SeqDomain
<1>2. /\ n - 2 + 1 \in Int /\ n \in Int /\ 1 <= n - 2 + 1 /\ n - 2 + 1 <= n + 1 /\ n <= n
      /\ n - (n - 2 + 1) + 1 = 2 /\ (n - 2 + 1) + 1 - 1 = n - 1 /\ (n - 2 + 1) + 2 - 1 = n
      /\ 1 \in 1..2 /\ 2 \in 1..2
  BY <1>1
<1>3. \A k \in 1..(n - (n - 2 + 1) + 1) : u[k] = s[(n - 2 + 1) + k - 1]
  BY <1>2, SeqPart
<1> HIDE DEF u
<1>4. u[1] = s[n - 1] /\ u[2] = s[n]
  BY <1>2, <1>3
<1>5. Meaning("default", name, u) = Chosen(u[1], u[2])
  BY DEF Meaning, Chosen
<1>6. Outcome("default", name, 2, s) = Append(SubSeq(s, 1, n - 2), Meaning("default", name, u))
  BY DEF Outcome, u
<1> QED  BY <1>4, <1>5, <1>6

LEMMA DefaultKeeps ==
  ASSUME NEW bf, NEW b, NEW t, Expresses(bf, b, t), 2 <= Len(t), 2 <= Len(b), NEW name
  PROVE  Expresses(bf, append_function(swapped(b), "default", 2), WrittenOn(t, "default", name, 2))
<1> DEFINE c == append_function(swapped(b), "default", 2)
           w == WrittenOn(t, "default", name, 2)
           s == StackOf(bf, t)
           a == CallTerm("default", name, ArgsOf(t, 2))
<1>1. /\ IsSeq(bf) /\ IsSeq(b) /\ IsSeq(t) /\ Len(b) \in Nat /\ Len(t) \in Nat
      /\ IsSeq(s) /\ Len(s) \in Nat /\ Len(t) <= Len(s)
  BY StackHasTerms
<1>2. IsSeq(swapped(b))
  <2>1. IsSeq(SubSeq(b, 1, Len(b) - 2))
    BY <1>1, SwappedIs
  <2>2. IsSeq(Append(SubSeq(b, 1, Len(b) - 2), b[Len(b)]))
    BY ONLY <2>1, SeqAppend
  <2>3. IsSeq(Append(Append(SubSeq(b, 1, Len(b) - 2), b[Len(b)]), b[Len(b) - 1]))
    BY ONLY <2>2, SeqAppend
  <2> QED  BY <2>3, <1>1, SwappedIs
<1>3. c = CallOn(swapped(b), "default", NoName, 2)
  BY CallsAre
<1>4. IsSeq(c) /\ c # <<>> /\ Last(c).op = "default"
  <2> DEFINE e == swapped(b)
  <2> HIDE DEF e, c
  <2>1. \/ e # <<>> /\ c = Merged(e, "default", NoName, 2)
        \/ c = Append(e, Code("default", NoName, 2, None))
    BY <1>3 DEF CallOn, Merges, e
  <2>2. IsSeq(e)
    BY <1>2 DEF e
  <2> QED  BY ONLY <2>1, <2>2, CallShape
<1>5. TwoAre(c, w)
  <2>1. /\ Len(w) = (Len(t) - 2) + 1 /\ w[(Len(t) - 2) + 1] = a
        /\ IsSeq(ArgsOf(t, 2)) /\ Len(ArgsOf(t, 2)) = 2
    BY <1>1, TwoShape
  <2>2. ArgsOf(t, 2) # <<>>
    BY ONLY <2>1, SeqEmpty
  <2>3. ~a.single
    BY ONLY <2>1, <2>2, CallTermAttributes
  <2> HIDE DEF w, a, c
  <2>4. ~w[Len(w)].single
    BY ONLY <2>1, <2>3
  <2>5. TwoAre(c, w)
    BY ONLY <2>4 DEF TwoAre
  <2> QED  BY <2>5
<1>6. ASSUME Clean(bf, w)
      PROVE  Reaches(c, Outcome("default", name, 2, s))
  <2>1. Clean(bf, t) /\ a.regular
    BY <1>1, <1>6, WrittenClean
  <2>2. /\ Alone(b[Len(b)])
        /\ b[Len(b) - 1] = Push(t[Len(t) - 1].leaf) /\ Names(t[Len(t) - 1].leaf)
    BY <2>1, DefaultArguments
  <2>3. Reaches(b, s)
    BY <2>1 DEF Expresses
  <2>4. Reaches(c, Append(SubSeq(s, 1, Len(s) - 2), Chosen(s[Len(s) - 1], s[Len(s)])))
    BY <1>1, <2>2, <2>3, DefaultCall
  <2>5. 2 <= Len(s)
    BY <1>1
  <2> HIDE DEF s, c
  <2> QED  BY <1>1, <2>4, <2>5, DefaultMeans
<1>7. Last(c).op # "Push"
  BY <1>4
<1> HIDE DEF c
<1> QED  BY <1>4, <1>5, <1>6, <1>7, ExpressesCall DEF c

(* a default() whose arguments are one bytecode is not regular              *)
LEMMA DefaultOfOne ==
  ASSUME NEW bf, NEW b, NEW t, Expresses(bf, b, t), 2 <= Len(t), ~(2 <= Len(b)), NEW name
  PROVE  ~Last(WrittenOn(t, "default", name, 2)).regular
<1> DEFINE w == WrittenOn(t, "default", name, 2)
           c == CallTerm("default", name, ArgsOf(t, 2))
<1>1. ~c.regular
  BY DefaultArguments
<1>2. IsSeq(t) /\ Len(t) \in Nat
  BY StackHasTerms
<1>3. IsSeq(w) /\ Len(w) = (Len(t) - 2) + 1 /\ w[(Len(t) - 2) + 1] = c
  BY <1>2, TwoShape
<1> HIDE DEF w, c
<1>4. w # <<>> /\ w[Len(w)] = c
  BY <1>2, <1>3, SeqEmpty
<1>5. Last(w) = c
  BY <1>3, <1>4, SeqFront
<1> QED  BY <1>1, <1>5 DEF w

(***************************************************************************)
(* The program of the whole expression                                     *)
(***************************************************************************)

(* p prints v from the stack T and leaves base *)
Prints(p, T, v, base) ==
  /\ p.op = "PrintValue" /\ Pops(p) \in 0..Len(T)
  /\ p.imm # None => Names(p.imm) /\ V(p.imm) = v
  /\ Args(p, T)[1] = v /\ Below(p, T) = base

(* the program c prints v, where nothing it comes by is without value       *)
ProgramOf(c, v, base, r) ==
  /\ IsSeq(c) /\ Len(c) \in Nat \ {0}
  /\ r[1] = <<>> /\ \A k \in 1..Len(c) : IsSeq(r[k])
  /\ \A k \in 1..(Len(c) - 1) : Fine(c[k], r[k]) /\ r[k + 1] = Effect(c[k], r[k])
  /\ \A k \in 1..Len(c) : Tainted(r[k]) => v = Thrown
  /\ Prints(c[Len(c)], r[Len(c)], v, base)

LEMMA ProgramIs ==
  ASSUME NEW f, IsSeq(f), NEW r, Runs(f, r), NEW d, NEW v, NEW base,
         Prints(d, r[Len(f) + 1], v, base), Tainted(r[Len(f) + 1]) => v = Thrown
  PROVE  ProgramOf(Append(f, d), v, base, r)
<1> DEFINE n == Len(f)
           c == Append(f, d)
<1>1. n \in Nat /\ IsSeq(c) /\ Len(c) = n + 1 /\ c[n + 1] = d /\ \A k \in 1..n : c[k] = f[k]
  BY SeqDomain, SeqAppend
<1> HIDE DEF c
<1>2. Len(c) \in Nat \ {0} /\ Len(c) - 1 = n /\ n + 1 \in 1..(n + 1)
      /\ \A k \in 1..(n + 1) : k <= n + 1
  BY <1>1
<1>3. /\ r[1] = <<>>
      /\ \A k \in 1..(n + 1) : IsSeq(r[k])
      /\ \A k \in 1..n : Fine(f[k], r[k]) /\ r[k + 1] = Effect(f[k], r[k])
      /\ \A k, l \in 1..(n + 1) : k <= l /\ Tainted(r[k]) => Tainted(r[l])
  BY DEF Runs
<1>4. \A k \in 1..(Len(c) - 1) : Fine(c[k], r[k]) /\ r[k + 1] = Effect(c[k], r[k])
  BY <1>1, <1>2, <1>3
<1>5. \A k \in 1..Len(c) : IsSeq(r[k])
  BY <1>1, <1>3
<1>6. \A k \in 1..Len(c) : Tainted(r[k]) => v = Thrown
  BY <1>1, <1>2, <1>3
<1>7. Prints(c[Len(c)], r[Len(c)], v, base)
  BY <1>1
<1> QED  BY <1>1, <1>2, <1>3, <1>4, <1>5, <1>6, <1>7 DEF ProgramOf, c

(* PrintValue behind a value, and merged with its push                      *)
LEMMA PrintBehind ==
  ASSUME NEW base, IsSeq(base), NEW v, NEW name
  PROVE  Prints(Code("PrintValue", name, 1, None), Append(base, v), v, base)
<1> DEFINE d == Code("PrintValue", name, 1, None)
           T == Append(base, v)
<1>1. d.op = "PrintValue" /\ d.imm = None
  BY CodeIs
<1>2. d.args = 1
  BY CodeIs
<1> HIDE DEF d
<1>3. Imms(d) = 0
  BY <1>1 DEF Imms
<1>4. Pops(d) = 1
  BY <1>2, <1>3 DEF Pops
<1>5. /\ Len(base) \in Nat /\ IsSeq(T) /\ Len(T) = Len(base) + 1 /\ T[Len(base) + 1] = v
      /\ \A k \in 1..Len(base) : T[k] = base[k]
  BY SeqAppend, SeqDomain
<1> HIDE DEF T
<1>6. Pops(d) \in 0..Len(T) /\ Len(T) - Pops(d) = Len(base) /\ 1 \in 1..Pops(d)
  BY <1>4, <1>5
<1>7. /\ \A k \in 1..Pops(d) : Args(d, T)[k] = T[Len(T) - Pops(d) + k]
      /\ IsSeq(Below(d, T)) /\ Len(Below(d, T)) = Len(T) - Pops(d)
      /\ \A k \in 1..(Len(T) - Pops(d)) : Below(d, T)[k] = T[k]
  BY <1>5, <1>6, ArgsAre
<1>8. Args(d, T)[1] = v
  BY <1>5, <1>6, <1>7
<1>9. Below(d, T) = base
  BY <1>5, <1>6, <1>7, SeqSame
<1>10. Prints(d, T, v, base)
  BY <1>1, <1>6, <1>8, <1>9 DEF Prints
<1> QED  BY <1>10 DEF d, T

LEMMA PrintMerged ==
  ASSUME NEW base, IsSeq(base), NEW l, Names(l), NEW name
  PROVE  Prints(Code("PrintValue", name, 1, l), base, V(l), base)
<1> DEFINE d == Code("PrintValue", name, 1, l)
<1>1. d.op = "PrintValue" /\ d.imm = l /\ l # None
  BY CodeIs, PushIs
<1>2. d.args = 1
  BY CodeIs
<1> HIDE DEF d
<1>3. Imms(d) = 1
  BY <1>1 DEF Imms
<1>4. Pops(d) = 0 /\ Len(base) \in Nat
  BY <1>2, <1>3, SeqDomain DEF Pops
<1>5. Pops(d) \in 0..Len(base) /\ Len(base) - Pops(d) = Len(base) /\ Pops(d) + 1 = 1
  BY <1>4
<1>6. /\ d.imm # None => Args(d, base)[Pops(d) + 1] = V(d.imm)
      /\ IsSeq(Below(d, base)) /\ Len(Below(d, base)) = Len(base) - Pops(d)
      /\ \A k \in 1..(Len(base) - Pops(d)) : Below(d, base)[k] = base[k]
  BY <1>5, ArgsAre
<1>7. Args(d, base)[1] = V(l)
  BY <1>1, <1>5, <1>6
<1>8. Below(d, base) = base
  BY <1>5, <1>6, SeqSame
<1>9. Prints(d, base, V(l), base)
  BY <1>1, <1>5, <1>7, <1>8 DEF Prints
<1> QED  BY <1>9 DEF d

LEMMA SameAppended ==
  ASSUME NEW s, IsSeq(s), NEW u, IsSeq(u), NEW x, NEW y, Append(s, x) = Append(u, y)
  PROVE  s = u /\ x = y
<1> DEFINE a == Append(s, x)
<1>1. Len(s) \in Nat /\ Len(u) \in Nat
  BY SeqDomain
<1>2. Len(a) = Len(s) + 1 /\ a[Len(s) + 1] = x /\ \A k \in 1..Len(s) : a[k] = s[k]
  BY SeqAppend
<1>3. Len(a) = Len(u) + 1 /\ a[Len(u) + 1] = y /\ \A k \in 1..Len(u) : a[k] = u[k]
  BY SeqAppend
<1> HIDE DEF a
<1>4. Len(s) = Len(u)
  BY <1>1, <1>2, <1>3
<1>5. x = y /\ \A k \in 1..Len(s) : s[k] = u[k]
  BY <1>2, <1>3, <1>4
<1> QED  BY <1>4, <1>5, SeqSame

(* What is compiled for one term prints its value.                          *)
LEMMA Printable ==
  ASSUME NEW bf, NEW b, NEW t, Expresses(bf, b, t), Len(t) = 1, Clean(bf, t)
  PROVE  \E r : ProgramOf(append_function(b, "PrintValue", 1), t[1].value, Base(bf), r)
<1> DEFINE s == StackOf(bf, t)
           v == t[1].value
           base == Base(bf)
           c == append_function(b, "PrintValue", 1)
<1>1. IsSeq(bf) /\ IsSeq(b) /\ IsSeq(t) /\ Len(b) \in Nat /\ Before(bf)
  BY StackHasTerms DEF Expresses
<1>2. StackOf(bf, <<>>) = base /\ IsSeq(base) /\ ~Tainted(base)
  BY <1>1, BeforeIs
<1>3. s = Append(base, v)
  <2>1. IsSeq(Append(<<>>, t[1])) /\ Len(Append(<<>>, t[1])) = 1 /\ Append(<<>>, t[1])[1] = t[1]
    BY SeqSingle
  <2>2. \A k \in 1..Len(t) : t[k] = Append(<<>>, t[1])[k]
    BY <2>1
  <2>3. t = Append(<<>>, t[1])
    BY <2>1, <2>2, <1>1, SeqSame
  <2>4. IsSeq(<<>>)
    BY SeqEmpty
  <2>5. \A z : StackOf(bf, Append(<<>>, z)) = Append(StackOf(bf, <<>>), z.value)
    BY ONLY <2>4, <1>1, StackAppend
  <2>6. StackOf(bf, Append(<<>>, t[1])) = Append(StackOf(bf, <<>>), t[1].value)
    BY ONLY <2>5, Zenon
  <2> QED  BY <2>3, <2>6, <1>2
<1>4. Reaches(b, s)
  BY DEF Expresses
<1>5. c = CallOn(b, "PrintValue", NoName, 1)
  BY CallsAre
<1> HIDE DEF c, s, v, base
<1>6. CASE Merges(b, "PrintValue")
  <2> DEFINE f == Front(b)
             l == Last(b).imm
             d == Code("PrintValue", NoName, 1, l)
  <2>1. b # <<>> /\ Last(b).op = "Push"
    BY <1>6 DEF Merges
  <2>2. c = Merged(b, "PrintValue", NoName, 1)
    BY <1>5, <1>6 DEF CallOn
  <2>3. c = Append(f, d)
    BY <2>1, <2>2, <1>1, MergedIs
  <2>4. IsSeq(f)
    BY <2>1, <1>1, SeqFront
  <2>5. PICK T : Reaches(f, T) /\ IsSeq(T) /\ Fine(Last(b), T) /\ s = Effect(Last(b), T)
    BY ONLY <1>1, <1>4, <2>1, ReachesFront
  <2>6. Names(l)
    BY <2>1, <2>5 DEF Fine, Ordinary, PlainOp
  <2>7. s = Append(T, V(l))
    BY <2>1, <2>5 DEF Effect
  <2> HIDE DEF f, l, d
  <2>8. T = base /\ V(l) = v
    <3>1. IsSeq(T) /\ IsSeq(base) /\ Append(T, V(l)) = Append(base, v)
      BY ONLY <1>2, <1>3, <2>5, <2>7
    <3> QED  BY ONLY <3>1, SameAppended
  <2>9. PICK r : Runs(f, r) /\ r[Len(f) + 1] = base
    BY <2>5, <2>8 DEF Reaches
  <2>10. Prints(d, base, v, base)
    <3>1. Prints(d, base, V(l), base)
      BY <2>6, <1>2, PrintMerged DEF d
    <3> QED  BY <3>1, <2>8
  <2>11. ProgramOf(Append(f, d), v, base, r)
    BY <2>4, <2>9, <2>10, <1>2, ProgramIs
  <2> QED  BY <2>3, <2>11 DEF c, v, base
<1>7. CASE ~Merges(b, "PrintValue")
  <2> DEFINE d == Code("PrintValue", NoName, 1, None)
  <2>1. c = Append(b, d)
    BY <1>5, <1>7 DEF CallOn
  <2>2. PICK r : Runs(b, r) /\ r[Len(b) + 1] = s
    BY <1>4 DEF Reaches
  <2>3. Prints(d, s, v, base)
    BY <1>2, <1>3, PrintBehind
  <2>4. Tainted(s) => v = Thrown
    BY <1>2, <1>3, TaintAppend
  <2> HIDE DEF d
  <2>5. ProgramOf(Append(b, d), v, base, r)
    BY <2>2, <2>3, <2>4, <1>1, ProgramIs
  <2> QED  BY <2>1, <2>5 DEF c, v, base
<1> QED  BY <1>6, <1>7

(***************************************************************************)
(* What a bytecode does to a stack of values                               *)
(***************************************************************************)

LEMMA Immediate ==
  ASSUME NEW l, Names(l)
  PROVE  /\ IsFound(l) => V(l) = ValueOf(l) /\ V(l) # Thrown
         /\ ~IsFound(l) => V(l) = Thrown
<1>1. Thrown.fn = "thrown"
  BY DEF Thrown, Leaf
<1>2. Node("Callback", l.name, <<>>).fn = "Callback"
  BY DEF Node
<1>3. ValueOf(l) # Thrown
  BY <1>1, <1>2 DEF ValueOf, Names
<1> QED  BY <1>3 DEF V, LeafTerm

LEMMA NodeIsNotThrown ==
  ASSUME NEW op, op # "thrown", NEW name, NEW args
  PROVE  Node(op, name, args) # Thrown
<1>1. Thrown.fn = "thrown"
  BY DEF Thrown, Leaf
<1>2. Node(op, name, args).fn = op
  BY DEF Node
<1> QED  BY <1>1, <1>2

(* the arguments have values                                                *)
LEMMA ArgumentsHaveValues ==
  ASSUME NEW c, NEW S, IsSeq(S), ~Tainted(S), Pops(c) \in 0..Len(S),
         c.imm # None => Names(c.imm) /\ IsFound(c.imm)
  PROVE  /\ IsSeq(Args(c, S)) /\ Len(Args(c, S)) = Pops(c) + Imms(c)
         /\ \A k \in DOMAIN Args(c, S) : Args(c, S)[k] # Thrown
         /\ IsSeq(Below(c, S)) /\ ~Tainted(Below(c, S))
<1>1. /\ IsSeq(Args(c, S)) /\ Len(Args(c, S)) = Pops(c) + Imms(c)
      /\ \A k \in 1..Pops(c) : Args(c, S)[k] = S[Len(S) - Pops(c) + k]
      /\ c.imm # None => Args(c, S)[Pops(c) + 1] = V(c.imm)
      /\ IsSeq(Below(c, S)) /\ Len(Below(c, S)) = Len(S) - Pops(c)
      /\ \A k \in 1..(Len(S) - Pops(c)) : Below(c, S)[k] = S[k]
  BY ArgsAre
<1>2. Len(S) \in Nat /\ DOMAIN Args(c, S) = 1..Len(Args(c, S))
  BY <1>1, SeqDomain
<1>3. \A k \in 1..Len(S) : S[k] # Thrown
  BY DEF Tainted
<1>4. c.imm # None => V(c.imm) # Thrown
  BY Immediate
<1>5. /\ \A k \in 1..Pops(c) : Len(S) - Pops(c) + k \in 1..Len(S)
      /\ \A k \in 1..(Len(S) - Pops(c)) : k \in 1..Len(S)
  BY <1>2
<1>6. \A k \in 1..(Pops(c) + Imms(c)) : k \in 1..Pops(c) \/ (k = Pops(c) + 1 /\ c.imm # None)
  BY DEF Imms
<1>7. \A k \in 1..(Pops(c) + Imms(c)) : Args(c, S)[k] # Thrown
  BY <1>1, <1>3, <1>4, <1>5, <1>6
<1>8. ~Tainted(Below(c, S))
  BY <1>1, <1>3, <1>5 DEF Tainted
<1> QED  BY <1>1, <1>2, <1>7, <1>8

(* a function or a callback that is found                                   *)
LEMMA CallRuns ==
  ASSUME NEW c, NEW S, IsSeq(S), ~Tainted(S), Pops(c) \in 0..Len(S),
         c.imm # None => Names(c.imm) /\ IsFound(c.imm),
         PlainOp(c.op), c.args \in Nat, c.op = "Callback" => find_callback(c.name, c.args)
  PROVE  /\ Effect(c, S) = Append(Below(c, S), Node(c.op, c.name, Args(c, S)))
         /\ ~Tainted(Effect(c, S))
<1> DEFINE a == Args(c, S)
           u == Below(c, S)
           x == Node(c.op, c.name, a)
<1>1. IsSeq(a) /\ Len(a) = Pops(c) + Imms(c) /\ IsSeq(u) /\ ~Tainted(u)
  BY ArgumentsHaveValues
<1>2. \A k \in DOMAIN a : a[k] # Thrown
  BY ArgumentsHaveValues
<1> HIDE DEF a, u
<1>3. Len(a) = c.args
  <2>1. Imms(c) \in Int
    BY DEF Imms
  <2> QED  BY <2>1, <1>1 DEF Pops
<1>4. c.op \notin {"Push", "default", "thrown"}
  BY DEF PlainOp
<1>5. c.op # "default" /\ (c.op = "Callback" => find_callback(c.name, Len(a)))
  BY <1>3, <1>4
<1>6. Meaning(c.op, c.name, a) = x
  BY <1>2, <1>5, Zenon DEF Meaning, x
<1>7. Effect(c, S) = Append(u, x)
  BY <1>4, <1>6, Zenon DEF Effect, a, u
<1>8. x # Thrown
  BY <1>4, NodeIsNotThrown
<1> HIDE DEF x
<1>9. ~Tainted(Append(u, x))
  BY <1>1, <1>8, TaintAppend
<1> QED  BY <1>7, <1>9 DEF a, u, x

(* a name without value                                                     *)
LEMMA MissingTaints ==
  ASSUME NEW c, NEW S, IsSeq(S), Fine(c, S),
         \/ c.op = "Callback" /\ ~find_callback(c.name, c.args)
         \/ c.op # "default" /\ c.imm # None /\ ~IsFound(c.imm)
  PROVE  Tainted(Effect(c, S))
<1>1. c.imm # None => Names(c.imm)
  BY DEF Fine
<1>2. CASE c.op = "Push"
  <2>1. V(c.imm) = Thrown
    BY <1>1, <1>2, Immediate
  <2>2. Effect(c, S) = Append(S, V(c.imm))
    BY <1>2 DEF Effect
  <2> QED  BY <2>1, <2>2, TaintAppend
<1>3. CASE c.op # "Push"
  <2>1. c.op # "default" /\ Pops(c) \in 0..Len(S)
    BY <1>3 DEF Fine
  <2>2. /\ IsSeq(Args(c, S)) /\ Len(Args(c, S)) = Pops(c) + Imms(c)
        /\ c.imm # None => Args(c, S)[Pops(c) + 1] = V(c.imm)
        /\ IsSeq(Below(c, S))
    BY <2>1, ArgsAre
  <2>3. Effect(c, S) = Append(Below(c, S), Meaning(c.op, c.name, Args(c, S)))
    BY <1>3, <2>1, Zenon DEF Effect
  <2>4. Meaning(c.op, c.name, Args(c, S)) = Thrown
    <3>1. CASE c.op = "Callback" /\ ~find_callback(c.name, c.args)
      <4>1. Imms(c) \in Int /\ c.args \in Int
        BY DEF Imms, Fine
      <4>2. Len(Args(c, S)) = c.args
        BY <4>1, <2>2 DEF Pops
      <4> QED  BY <4>2, <3>1 DEF Meaning
    <3>2. CASE c.imm # None /\ ~IsFound(c.imm)
      <4>1. Args(c, S)[Pops(c) + 1] = Thrown
        BY <3>2, <1>1, <2>2, Immediate
      <4>2. Pops(c) + 1 \in DOMAIN Args(c, S)
        <5>1. Imms(c) = 1
          BY <3>2 DEF Imms
        <5>2. Pops(c) + 1 \in 1..Len(Args(c, S))
          BY <5>1, <2>1, <2>2
        <5> QED  BY <5>2, <2>2, SeqDomain
      <4> QED  BY <4>1, <4>2, <2>1, MeaningOfThrown
    <3> QED  BY <3>1, <3>2
  <2> QED  BY <2>2, <2>3, <2>4, TaintAppend
<1> QED  BY <1>2, <1>3

(***************************************************************************)
(* The invariant of the meaning                                            *)
(***************************************************************************)

Compiled == Parsing => Expresses(before, bytecodes, terms)
Swapped == at = "undefined" => ~Last(terms).regular

(* the interpreter is where r says, and has met no name without value       *)
Executing(r) ==
  /\ ProgramOf(bytecodes, terms[1].value, Base(before), r)
  /\ run \in {"ready", "running"} /\ i <= Len(bytecodes) => m_stack = r[i] /\ ~Tainted(m_stack)
  /\ run \in {"running", "done"} /\ i > Len(bytecodes) =>
       m_stack = Base(before) /\ printed = terms[1].value
  /\ run = "done" => i > Len(bytecodes)
  /\ run = "missing" => terms[1].value = Thrown
  /\ run # "undefined"
Accepted == at = "accepted" /\ WrittenIsRegular => \E r : Executing(r)

EInv == Compiled /\ Swapped /\ Accepted

LEMMA InitMeaning == Init => EInv
<1> SUFFICES ASSUME Init PROVE EInv
  OBVIOUS
<1>1. at = "not" /\ bytecodes = before /\ terms = <<>> /\ Before(before)
  BY DEF Init, Before
<1>2. Expresses(before, bytecodes, terms)
  <2>1. Expresses(before, before, <<>>)
    BY ONLY <1>1, ExpressesNothing
  <2> QED  BY <1>1, <2>1
<1> QED  BY <1>1, <1>2 DEF EInv, Compiled, Swapped, Accepted

(* the parser goes on *)
LEMMA ParserStep ==
  ASSUME at' \in {"not", "datum", "return"}, Expresses(before', bytecodes', terms')
  PROVE  EInv'
BY DEF EInv, Compiled, Swapped, Accepted

LEMMA KeptMeaning ==
  ASSUME EInv, Parsing, UNCHANGED <<before, bytecodes, terms>>, at' \in {"not", "datum", "return"}
  PROVE  EInv'
<1>1. Expresses(before', bytecodes', terms')
  BY DEF EInv, Compiled
<1> QED  BY <1>1, ParserStep

LEMMA PushMeaning ==
  ASSUME EInv, Parsing, NEW l, Names(l), Pushes(l), before' = before, at' = "return"
  PROVE  EInv'
<1>1. Expresses(before, bytecodes, terms)
  BY DEF EInv, Compiled
<1>2. bytecodes' = Append(bytecodes, Push(l)) /\ terms' = Append(terms, LeafTerm(l))
  BY DEF Pushes
<1>3. Expresses(before, Append(bytecodes, Push(l)), Append(terms, LeafTerm(l)))
  BY ONLY <1>1, Names(l), ExpressesPush
<1>4. Expresses(before', bytecodes', terms')
  BY <1>2, <1>3
<1> QED  BY <1>4, ParserStep

LEMMA FunctionMeaning ==
  ASSUME EInv, Parsing, NEW n \in Nat \ {0}, n <= Len(terms), NEW op, CallOp(op), op # "Callback",
         bytecodes' = append_function(bytecodes, op, n), Written(op, NoName, n),
         before' = before, at' = "return"
  PROVE  EInv'
<1>1. Expresses(before, bytecodes, terms)
  BY DEF EInv, Compiled
<1>2. terms' = WrittenOn(terms, op, NoName, n)
  BY WrittenStep
<1>3. Expresses(before, append_function(bytecodes, op, n), WrittenOn(terms, op, NoName, n))
  BY <1>1, FunctionKeeps
<1>4. Expresses(before', bytecodes', terms')
  BY <1>2, <1>3
<1> QED  BY <1>4, ParserStep

LEMMA CalledMeaning ==
  ASSUME EInv, Parsing, NEW n \in Nat, n <= Len(terms), NEW name, Called(name, n),
         before' = before
  PROVE  EInv'
<1>1. Expresses(before, bytecodes, terms)
  BY DEF EInv, Compiled
<1>2. CASE find_builtin(name, n) \notin {"Nop", "default"}
  <2>1. /\ bytecodes' = append_function(bytecodes, name, n) /\ Written(name, NoName, n)
        /\ at' = "return"
    BY <1>2, Zenon DEF Called, NoName
  <2>2. n \in {1, 2} /\ find_builtin(name, n) = name
    BY <1>2, BuiltinIs
  <2>3. find_builtin(name, n) \notin {"Push", "Callback", "PrintValue", "thrown"}
    BY BuiltinIs
  <2>4. CallOp(name) /\ name # "Callback"
    BY <1>2, <2>2, <2>3 DEF CallOp
  <2>5. n \in Nat \ {0}
    BY <2>2
  <2> QED  BY <2>1, <2>4, <2>5, FunctionMeaning
<1>3. CASE find_builtin(name, n) = "default"
  <2>1. n = 2 /\ name = "default"
    BY <1>3, BuiltinIs
  <2>2. Written("default", NoName, 2)
    BY <1>3, <2>1, Zenon DEF Called, NoName
  <2>3. terms' = WrittenOn(terms, "default", NoName, 2)
    BY <2>2, WrittenStep
  <2>4. 2 <= Len(terms) /\ Len(bytecodes) \in Nat
    BY <1>1, <2>1, StackHasTerms
  <2>5. CASE Len(bytecodes) < 2
    <3>1. at' = "undefined"
      BY <1>3, <2>5, Zenon DEF Called
    <3>2. ~(2 <= Len(bytecodes))
      BY <2>4, <2>5
    <3>3. ~Last(WrittenOn(terms, "default", NoName, 2)).regular
      BY <1>1, <2>4, <3>2, DefaultOfOne
    <3>4. ~Last(terms').regular
      BY <2>3, <3>3
    <3> QED  BY <3>1, <3>4 DEF EInv, Compiled, Swapped, Accepted, Parsing
  <2>6. CASE ~(Len(bytecodes) < 2)
    <3>1. at' = "return" /\ bytecodes' = append_function(swapped(bytecodes), "default", 2)
      BY <1>3, <2>1, <2>6, Zenon DEF Called
    <3>2. 2 <= Len(bytecodes)
      BY <2>4, <2>6
    <3>3. Expresses(before, append_function(swapped(bytecodes), "default", 2),
                    WrittenOn(terms, "default", NoName, 2))
      BY <1>1, <2>4, <3>2, DefaultKeeps
    <3>4. Expresses(before', bytecodes', terms')
      BY <2>3, <3>1, <3>3
    <3> QED  BY <3>1, <3>4, ParserStep
  <2> QED  BY <2>5, <2>6
<1>4. CASE find_builtin(name, n) = "Nop"
  <2>1. /\ bytecodes' = append_callback(bytecodes, name, n) /\ Written("Callback", name, n)
        /\ at' = "return"
    BY <1>4, Zenon DEF Called
  <2>2. terms' = WrittenOn(terms, "Callback", name, n)
    BY <2>1, WrittenStep
  <2>3. Expresses(before, append_callback(bytecodes, name, n),
                  WrittenOn(terms, "Callback", name, n))
    BY <1>1, CallbackKeeps
  <2>4. Expresses(before', bytecodes', terms')
    BY <2>1, <2>2, <2>3
  <2> QED  BY <2>1, <2>4, ParserStep
<1> QED  BY <1>2, <1>3, <1>4

(* an operator with its operands *)
LEMMA OperandMeaning ==
  ASSUME SInv, EInv, returned, NEW n \in Nat, Held(caller) + 1 = n, NEW op,
         CallOp(op), op # "Callback",
         bytecodes' = append_function(bytecodes, op, n), Written(op, NoName, n), Returns,
         before' = before
  PROVE  EInv'
<1>1. /\ Parsing /\ Len(terms) \in Nat \ {0} /\ Held(caller) \in Nat
      /\ (Len(terms) - 1) - Held(caller) \in Nat
  BY ReturnedFacts
<1>2. n \in Nat \ {0} /\ n <= Len(terms)
  <2>1. \A L, h \in Nat : (L - 1) - h \in Nat => h + 1 <= L /\ h + 1 \in Nat \ {0}
    OBVIOUS
  <2>2. Len(terms) \in Nat
    BY <1>1
  <2> QED  BY <2>1, <2>2, <1>1
<1>3. at' = "return"
  BY DEF Returns
<1> QED  BY <1>1, <1>2, <1>3, FunctionMeaning

(* the last token prints *)
LEMMA CloseMeaning == SInv /\ EInv /\ ExpressionClose => EInv'
<1> SUFFICES ASSUME SInv, EInv, ExpressionClose PROVE EInv'
  OBVIOUS
<1>1. /\ at = "return" /\ calls = <<>> /\ bytecodes' = append_function(bytecodes, "PrintValue", 1)
      /\ at' = "accepted" /\ UNCHANGED <<before, terms, i, m_stack, printed, run>>
  BY DEF ExpressionClose, renderer
<1>2. Parsing /\ at' \notin {"not", "datum", "return", "undefined"}
  BY <1>1 DEF Parsing
<1>3. Expresses(before, bytecodes, terms) /\ run = "ready"
  BY <1>2, Facts DEF EInv, Compiled
<1>4. Len(terms) = 1
  <2>1. Len(terms) \in Nat \ {0} /\ Holds(<<>>, Len(terms) - 1)
    BY <1>1 DEF SInv, Structure, Arity
  <2>2. Len(terms) - 1 = 0
    BY <2>1, EmptyHolds
  <2> QED  BY ONLY <2>1, <2>2
<1>5. ASSUME WrittenIsRegular'
      PROVE  \E r : Executing(r)'
  <2>1. terms[1].regular /\ (before # <<>> => ~terms[1].startsEmptyCall)
    BY <1>1, <1>5 DEF WrittenIsRegular
  <2>2. Clean(before, terms)
    BY <2>1, <1>4 DEF Clean, AfterLiteral
  <2>3. PICK r : ProgramOf(append_function(bytecodes, "PrintValue", 1), terms[1].value, Base(before), r)
    BY <1>3, <1>4, <2>2, Printable
  <2>4. ProgramOf(bytecodes', terms'[1].value, Base(before'), r)
    BY <1>1, <2>3
  <2>5. run' = "ready" /\ i' = 1 /\ m_stack' = <<>>
    BY <1>1, <1>3 DEF SInv, Structure, Rendering
  <2>6. r[1] = <<>> /\ Len(bytecodes') \in Nat \ {0}
    BY <2>4 DEF ProgramOf
  <2>7. ~Tainted(<<>>)
    BY SeqEmpty DEF Tainted
  <2> QED  BY <2>4, <2>5, <2>6, <2>7 DEF Executing
<1> QED  BY <1>1, <1>2, <1>5 DEF EInv, Compiled, Swapped, Accepted, Parsing

LEMMA ParseMeaning == SInv /\ EInv /\ ParseStep => EInv'
<1> SUFFICES ASSUME SInv, EInv, ParseStep PROVE EInv'
  OBVIOUS
<1>1. CASE \/ Not \/ Comparison \/ LeftParen \/ CallWithArguments \/ Passthrough
           \/ Operator \/ NoOperator \/ RightParen \/ NextArgument
  <2>1. Parsing
    BY <1>1 DEF Not, Comparison, LeftParen, CallWithArguments, Passthrough, Operator, NoOperator,
                RightParen, NextArgument, returned, Parsing
  <2>2. UNCHANGED <<before, bytecodes, terms>>
    BY <1>1 DEF Not, Comparison, LeftParen, CallWithArguments, Passthrough, Operator, NoOperator,
                RightParen, NextArgument
  <2>3. at' \in {"not", "datum", "return"}
    BY <1>1, <2>1 DEF Not, Comparison, LeftParen, CallWithArguments, Passthrough, Operator,
                NoOperator, RightParen, NextArgument, Returns, Parsing
  <2> QED  BY <2>1, <2>2, <2>3, KeptMeaning
<1>2. CASE Variable \/ Literal \/ LastBracket
  <2>1. at = "datum" /\ at' = "return" /\ before' = before
    BY <1>2 DEF Variable, Literal, LastBracket
  <2>2. \E l : Names(l) /\ Pushes(l)
    <3>1. \A name, position : Names(Leaf("lookup", name, position))
      BY DEF Names, Leaf
    <3>2. \A name, position : Names(Leaf("literal", name, position))
      BY DEF Names, Leaf
    <3>3. CASE Variable
      BY <3>1, <3>3 DEF Variable
    <3>4. CASE Literal
      BY <3>2, <3>4, Zenon DEF Literal
    <3>5. CASE LastBracket
      BY <3>2, <3>5, Zenon DEF LastBracket
    <3> QED  BY <1>2, <3>3, <3>4, <3>5
  <2>3. Parsing
    BY <2>1 DEF Parsing
  <2> QED  BY <2>1, <2>2, <2>3, PushMeaning
<1>3. CASE CallWithoutArguments
  <2>1. at = "datum" /\ Called(tok, 0) /\ before' = before
    BY <1>3 DEF CallWithoutArguments
  <2>2. Parsing
    BY <2>1 DEF Parsing
  <2>3. 0 \in Nat /\ 0 <= Len(terms)
    BY <2>2, Facts
  <2> QED  BY <2>1, <2>2, <2>3, CalledMeaning
<1>4. CASE LastArgument
  <2> DEFINE n == caller.n + 1
  <2>1. returned /\ caller.function = "call" /\ Called(caller.op, n) /\ before' = before
    BY <1>4 DEF LastArgument
  <2>2. Parsing /\ caller.n \in Nat /\ Len(terms) \in Nat \ {0}
        /\ (Len(terms) - 1) - Held(caller) \in Nat
    BY <2>1, ReturnedFacts
  <2>3. Held(caller) = caller.n
    BY <2>1 DEF Held
  <2>4. n \in Nat /\ n <= Len(terms)
    BY <2>2, <2>3
  <2> HIDE DEF n
  <2> QED  BY <2>1, <2>2, <2>4, CalledMeaning
<1>5. CASE SecondOperand
  <2>1. /\ returned /\ IsBinary(caller.function) /\ caller.op # NoName
        /\ bytecodes' = append_function(bytecodes, caller.op, 2) /\ Written(caller.op, NoName, 2)
        /\ Returns /\ before' = before
    BY <1>5, Zenon DEF SecondOperand, NoName
  <2>2. Held(caller) = 1
    BY <2>1, Zenon DEF Held, IsBinary, NoName
  <2>3. 2 \in Nat /\ Held(caller) + 1 = 2
    BY <2>2
  <2>4. caller \in Frame
    BY <2>1, ReturnedFacts
  <2>5. caller.op \in {"or", "and"} \cup Comparisons
    BY <2>1, <2>4, Zenon DEF Frame, NoName
  <2>6. CallOp(caller.op) /\ caller.op # "Callback"
    BY <2>5 DEF CallOp, Comparisons
  <2> QED  BY <2>1, <2>3, <2>6, OperandMeaning
<1>6. CASE Negation
  <2>1. /\ returned /\ caller.function = "not"
        /\ bytecodes' = append_function(bytecodes, "not", 1) /\ Written("not", NoName, 1)
        /\ Returns /\ before' = before
    BY <1>6, Zenon DEF Negation, NoName
  <2>2. Held(caller) = 0
    BY <2>1, Zenon DEF Held, IsBinary
  <2>3. 1 \in Nat /\ Held(caller) + 1 = 1
    BY <2>2
  <2>4. CallOp("not")
    BY DEF CallOp
  <2> QED  BY <2>1, <2>3, <2>4, OperandMeaning
<1>7. CASE Reject
  <2>1. at' = "rejected"
    BY <1>7 DEF Reject
  <2> QED  BY <2>1 DEF EInv, Compiled, Swapped, Accepted, Parsing
<1>8. CASE ExpressionClose
  BY <1>8, CloseMeaning
<1> QED  BY <1>1, <1>2, <1>3, <1>4, <1>5, <1>6, <1>7, <1>8, Zenon DEF ParseStep

(***************************************************************************)
(* The interpreter                                                         *)
(***************************************************************************)

LEMMA Current ==
  ASSUME SInv, NEW r, Executing(r), run = "running", i <= Len(bytecodes)
  PROVE  /\ i \in Nat \ {0} /\ Len(bytecodes) \in Nat
         /\ m_stack = r[i] /\ IsSeq(m_stack) /\ ~Tainted(m_stack)
         /\ bc.imm # None => Names(bc.imm)
         /\ i < Len(bytecodes) => /\ Fine(bc, m_stack) /\ r[i + 1] = Effect(bc, m_stack)
                                  /\ Tainted(r[i + 1]) => terms[1].value = Thrown
         /\ i = Len(bytecodes) => Prints(bc, m_stack, terms[1].value, Base(before))
<1> DEFINE n == Len(bytecodes)
           c == bytecodes
           v == terms[1].value
<1>1. i \in 1..(n + 1) /\ n \in Nat
  BY SeqDomain DEF SInv, Structure, Rendering, CodeOK
<1>2. ProgramOf(c, v, Base(before), r) /\ m_stack = r[i] /\ ~Tainted(m_stack)
  BY DEF Executing
<1>3. /\ \A k \in 1..n : IsSeq(r[k])
      /\ \A k \in 1..(n - 1) : Fine(c[k], r[k]) /\ r[k + 1] = Effect(c[k], r[k])
      /\ \A k \in 1..n : Tainted(r[k]) => v = Thrown
      /\ Prints(c[n], r[n], v, Base(before))
  BY <1>2 DEF ProgramOf
<1> HIDE DEF n, c, v
<1>4. i \in Nat \ {0} /\ i \in 1..n
  BY <1>1 DEF n
<1>5. IsSeq(m_stack)
  BY <1>2, <1>3, <1>4
<1>6. bc = c[i]
  BY DEF bc, c
<1>7. i < n => i \in 1..(n - 1) /\ i + 1 \in 1..n
  BY <1>1, <1>4
<1>8. i < n => /\ Fine(bc, m_stack) /\ r[i + 1] = Effect(bc, m_stack)
               /\ Tainted(r[i + 1]) => v = Thrown
  BY <1>2, <1>3, <1>6, <1>7
<1>9. i = n => Prints(bc, m_stack, v, Base(before))
  BY <1>2, <1>3, <1>6
<1>10. bc.imm # None => Names(bc.imm)
  <2>1. i < n \/ i = n
    BY <1>1, <1>4
  <2> QED  BY <2>1, <1>8, <1>9 DEF Fine, Prints
<1> QED  BY <1>1, <1>2, <1>4, <1>5, <1>8, <1>9, <1>10 DEF n, v

LEMMA StepExecutes ==
  ASSUME SInv, NEW r, Executing(r), run = "running", i < Len(bytecodes), UNCHANGED parser,
         m_stack' = Effect(bc, m_stack), ~Tainted(Effect(bc, m_stack)), i' = i + 1,
         UNCHANGED <<printed, run>>
  PROVE  Executing(r)'
<1>1. /\ bytecodes' = bytecodes /\ terms' = terms /\ before' = before
      /\ run' = "running" /\ i' = i + 1
  BY DEF parser
<1>2. i \in Nat /\ Len(bytecodes) \in Nat
  BY SeqDomain DEF SInv, Structure, Rendering, CodeOK
<1>3. m_stack' = r[i'] /\ ~Tainted(m_stack')
  BY <1>1, <1>2, Current
<1>4. ~(i' > Len(bytecodes'))
  BY <1>1, <1>2
<1>5. ProgramOf(bytecodes', terms'[1].value, Base(before'), r)
  BY <1>1 DEF Executing
<1> QED  BY <1>1, <1>3, <1>4, <1>5 DEF Executing

LEMMA EndExecutes ==
  ASSUME SInv, NEW r, Executing(r), NEW how, Ends(how), how \in {"missing", "refused"},
         how = "missing" => terms[1].value = Thrown
  PROVE  Executing(r)'
<1>1. bytecodes' = bytecodes /\ terms' = terms /\ before' = before /\ run' = how
  BY DEF Ends, parser
<1>2. ProgramOf(bytecodes', terms'[1].value, Base(before'), r)
  BY <1>1 DEF Executing
<1> QED  BY <1>1, <1>2 DEF Executing

(* the arguments the interpreter takes *)
LEMMA Taken ==
  ASSUME bc.imm # None => Names(bc.imm), ImmIsFound
  PROVE  /\ bc.imm # None => Names(bc.imm) /\ IsFound(bc.imm) /\ ValueOf(bc.imm) = V(bc.imm)
         /\ StackAfterPop = Below(bc, m_stack) /\ arguments = Args(bc, m_stack)
<1>1. bc.imm # None => Names(bc.imm) /\ IsFound(bc.imm)
  BY DEF ImmIsFound, HasImm
<1>2. bc.imm # None => ValueOf(bc.imm) = V(bc.imm)
  BY <1>1, Immediate
<1>3. popped = Pops(bc)
  BY DEF popped, Pops, Imms, HasImm
<1>4. StackAfterPop = Below(bc, m_stack)
  BY <1>3 DEF StackAfterPop, Below
<1>5. arguments = Args(bc, m_stack)
  <2>1. CASE bc.imm # None
    BY <2>1, <1>2, <1>3 DEF arguments, Args, HasImm
  <2>2. CASE bc.imm = None
    BY <2>2, <1>3 DEF arguments, Args, HasImm
  <2> QED  BY <2>1, <2>2
<1> QED  BY <1>1, <1>2, <1>4, <1>5

LEMMA PushExecutes ==
  ASSUME SInv, NEW r, Executing(r), RunPush
  PROVE  Executing(r)'
<1>1. /\ run = "running" /\ i <= Len(bytecodes) /\ bc.op = "Push" /\ ImmIsFound
      /\ m_stack' = Append(m_stack, ValueOf(bc.imm)) /\ i' = i + 1
      /\ UNCHANGED parser /\ UNCHANGED <<printed, run>>
  BY DEF RunPush, Stepping
<1>2. i < Len(bytecodes) /\ IsSeq(m_stack) /\ ~Tainted(m_stack) /\ Fine(bc, m_stack)
  <2>1. i # Len(bytecodes)
    BY <1>1, Current DEF Prints
  <2>2. i < Len(bytecodes)
    BY <2>1, <1>1, Current
  <2> QED  BY <2>2, <1>1, Current
<1>3. bc.imm # None /\ Names(bc.imm)
  BY <1>1, <1>2 DEF Fine, Ordinary, PlainOp
<1>4. IsFound(bc.imm) /\ ValueOf(bc.imm) = V(bc.imm) /\ V(bc.imm) # Thrown
  BY <1>1, <1>3, Taken, Immediate
<1>5. m_stack' = Effect(bc, m_stack) /\ Effect(bc, m_stack) = Append(m_stack, V(bc.imm))
  BY <1>1, <1>4 DEF Effect
<1>6. ~Tainted(Effect(bc, m_stack))
  BY <1>2, <1>4, <1>5, TaintAppend
<1> QED  BY <1>1, <1>2, <1>5, <1>6, StepExecutes

LEMMA FunctionExecutes ==
  ASSUME SInv, NEW r, Executing(r), RunFunction \/ RunCallback
  PROVE  Executing(r)'
<1>1. /\ run = "running" /\ i <= Len(bytecodes) /\ bc.op \notin {"Push", "default", "PrintValue"}
      /\ ImmIsFound /\ i' = i + 1 /\ UNCHANGED parser /\ UNCHANGED <<printed, run>>
  BY DEF RunFunction, RunCallback, Stepping
<1>2. i < Len(bytecodes) /\ IsSeq(m_stack) /\ ~Tainted(m_stack) /\ Fine(bc, m_stack)
      /\ (bc.imm # None => Names(bc.imm))
  <2>1. i # Len(bytecodes)
    BY <1>1, Current DEF Prints
  <2>2. i < Len(bytecodes)
    BY <2>1, <1>1, Current
  <2> QED  BY <2>2, <1>1, Current
<1>3. Ordinary(bc.op, bc.name) /\ Pops(bc) \in 0..Len(m_stack) /\ bc.args \in Nat
  BY <1>1, <1>2 DEF Fine
<1>4. PlainOp(bc.op)
  BY <1>3 DEF Ordinary
<1>5. /\ bc.imm # None => Names(bc.imm) /\ IsFound(bc.imm)
      /\ StackAfterPop = Below(bc, m_stack) /\ arguments = Args(bc, m_stack)
  BY <1>1, <1>2, Taken
<1>6. /\ m_stack' = Append(Below(bc, m_stack), Node(bc.op, bc.name, Args(bc, m_stack)))
      /\ bc.op = "Callback" => find_callback(bc.name, bc.args)
  <2>1. CASE RunFunction
    <3>1. /\ bc.op # "Callback" /\ m_stack' = Append(StackAfterPop, Node(bc.op, NoName, arguments))
      BY <2>1, Zenon DEF RunFunction, NoName
    <3>2. bc.name = NoName
      BY <3>1, <1>3, Zenon DEF Ordinary, NoName
    <3> QED  BY <3>1, <3>2, <1>5
  <2>2. CASE RunCallback
    <3>1. /\ bc.op = "Callback" /\ find_callback(bc.name, bc.args)
          /\ m_stack' = Append(StackAfterPop, Node("Callback", bc.name, arguments))
      BY <2>2 DEF RunCallback, Stepping
    <3> QED  BY <3>1, <1>5
  <2> QED  BY <2>1, <2>2
<1>7. /\ Effect(bc, m_stack) = Append(Below(bc, m_stack), Node(bc.op, bc.name, Args(bc, m_stack)))
      /\ ~Tainted(Effect(bc, m_stack))
  BY <1>2, <1>3, <1>4, <1>5, <1>6, CallRuns
<1>8. m_stack' = Effect(bc, m_stack)
  BY <1>6, <1>7
<1> QED  BY <1>1, <1>2, <1>7, <1>8, StepExecutes

(* default() of values that are there *)
LEMMA ChosenIs ==
  ASSUME NEW c, c.op = "default", NEW S, IsSeq(S), S # <<>>, ~Tainted(S), Names(c.imm)
  PROVE  /\ IsFound(c.imm) => Effect(c, S) = Append(Front(S), ValueOf(c.imm))
         /\ ~IsFound(c.imm) => Effect(c, S) = S
         /\ ~Tainted(Effect(c, S))
<1> DEFINE f == Front(S)
           y == Last(S)
           n == Len(S)
<1>1. n \in Nat \ {0} /\ IsSeq(f) /\ Len(f) = n - 1 /\ y = S[n] /\ \A k \in 1..(n - 1) : f[k] = S[k]
  BY SeqFront
<1>2. y # Thrown
  BY <1>1 DEF Tainted
<1>3. Effect(c, S) = Append(f, Chosen(V(c.imm), y))
  BY DEF Effect
<1> HIDE DEF f, y
<1>4. ~Tainted(f)
  <2>1. \A k \in 1..(n - 1) : k \in 1..n
    BY <1>1
  <2> QED  BY <1>1, <2>1 DEF Tainted
<1>5. CASE IsFound(c.imm)
  <2>1. V(c.imm) = ValueOf(c.imm) /\ V(c.imm) # Thrown
    BY <1>5, Immediate
  <2>2. Effect(c, S) = Append(f, ValueOf(c.imm))
    BY <2>1, <1>2, <1>3 DEF Chosen
  <2>3. ~Tainted(Append(f, ValueOf(c.imm)))
    BY <2>1, <1>1, <1>4, TaintAppend
  <2> QED  BY <1>5, <2>2, <2>3 DEF f
<1>6. CASE ~IsFound(c.imm)
  <2>1. V(c.imm) = Thrown
    BY <1>6, Immediate
  <2>2. Effect(c, S) = Append(f, y)
    BY <2>1, <1>3 DEF Chosen
  <2>3. /\ IsSeq(Append(f, y)) /\ Len(Append(f, y)) = Len(f) + 1 /\ Append(f, y)[Len(f) + 1] = y
        /\ \A k \in 1..Len(f) : Append(f, y)[k] = f[k]
    BY <1>1, SeqAppend
  <2>4. Len(f) + 1 = n /\ \A k \in 1..n : k \in 1..(n - 1) \/ k = n
    BY <1>1
  <2>5. \A k \in 1..n : Append(f, y)[k] = S[k]
    BY <1>1, <2>3, <2>4
  <2>6. Append(f, y) = S
    BY <2>3, <2>4, <2>5, SeqSame
  <2> QED  BY <1>6, <2>2, <2>6
<1> QED  BY <1>5, <1>6

LEMMA DefaultExecutes ==
  ASSUME SInv, NEW r, Executing(r), RunDefault
  PROVE  Executing(r)'
<1>1. /\ run = "running" /\ i <= Len(bytecodes) /\ bc.op = "default" /\ bc.imm # None
      /\ m_stack # <<>>
      /\ m_stack' = IF IsFound(bc.imm) THEN Append(Front(m_stack), ValueOf(bc.imm)) ELSE m_stack
      /\ i' = i + 1 /\ UNCHANGED parser /\ UNCHANGED <<printed, run>>
  BY DEF RunDefault, Stepping, HasImm
<1>2. i < Len(bytecodes) /\ IsSeq(m_stack) /\ ~Tainted(m_stack) /\ Names(bc.imm)
  <2>1. i # Len(bytecodes)
    BY <1>1, Current DEF Prints
  <2>2. i < Len(bytecodes)
    BY <2>1, <1>1, Current
  <2> QED  BY <2>2, <1>1, Current
<1>3. /\ IsFound(bc.imm) => Effect(bc, m_stack) = Append(Front(m_stack), ValueOf(bc.imm))
      /\ ~IsFound(bc.imm) => Effect(bc, m_stack) = m_stack
      /\ ~Tainted(Effect(bc, m_stack))
  BY <1>1, <1>2, ChosenIs
<1>4. m_stack' = Effect(bc, m_stack)
  BY <1>1, <1>3
<1> QED  BY <1>1, <1>2, <1>3, <1>4, StepExecutes

LEMMA PrintExecutes ==
  ASSUME SInv, NEW r, Executing(r), RunPrint
  PROVE  Executing(r)'
<1>1. /\ run = "running" /\ i <= Len(bytecodes) /\ bc.op = "PrintValue" /\ ImmIsFound
      /\ printed' = arguments[1] /\ m_stack' = StackAfterPop
      /\ i' = i + 1 /\ UNCHANGED parser /\ run' = run
  BY DEF RunPrint, Stepping
<1>2. ~Fine(bc, m_stack)
  BY <1>1 DEF Fine, Ordinary, PlainOp
<1>3. i = Len(bytecodes) /\ i \in Nat
  BY <1>1, <1>2, Current
<1>4. Prints(bc, m_stack, terms[1].value, Base(before)) /\ (bc.imm # None => Names(bc.imm))
  BY <1>1, <1>3, Current
<1>5. printed' = terms[1].value /\ m_stack' = Base(before)
  BY <1>1, <1>4, Taken DEF Prints
<1>6. bytecodes' = bytecodes /\ terms' = terms /\ before' = before /\ run' = "running"
  BY <1>1 DEF parser
<1>7. ~(i' <= Len(bytecodes'))
  BY <1>1, <1>3, <1>6
<1>8. ProgramOf(bytecodes', terms'[1].value, Base(before'), r)
  BY <1>6 DEF Executing
<1> QED  BY <1>5, <1>6, <1>7, <1>8 DEF Executing

LEMMA MissingExecutes ==
  ASSUME SInv, NEW r, Executing(r), Missing
  PROVE  Executing(r)'
<1>1. /\ run = "running" /\ i <= Len(bytecodes) /\ Ends("missing")
      /\ \/ bc.op = "Callback" /\ ~find_callback(bc.name, bc.args)
         \/ bc.op # "default" /\ bc.imm # None /\ ~IsFound(bc.imm)
  BY DEF Missing, Stepping, ImmIsFound, HasImm
<1>2. terms[1].value = Thrown
  <2>1. CASE i = Len(bytecodes)
    <3>1. Prints(bc, m_stack, terms[1].value, Base(before))
      BY <2>1, <1>1, Current
    <3>2. bc.imm # None /\ ~IsFound(bc.imm)
      BY <1>1, <3>1 DEF Prints
    <3> QED  BY <3>1, <3>2, Immediate DEF Prints
  <2>2. CASE i # Len(bytecodes)
    <3>1. i < Len(bytecodes)
      BY <2>2, <1>1, Current
    <3>2. /\ Fine(bc, m_stack) /\ r[i + 1] = Effect(bc, m_stack) /\ IsSeq(m_stack)
          /\ Tainted(r[i + 1]) => terms[1].value = Thrown
      BY <3>1, <1>1, Current
    <3>3. Tainted(Effect(bc, m_stack))
      BY <1>1, <3>2, MissingTaints
    <3> QED  BY <3>2, <3>3
  <2> QED  BY <2>1, <2>2
<1> QED  BY <1>1, <1>2, EndExecutes

LEMMA NothingUndefined ==
  ASSUME SInv, NEW r, Executing(r), Undefined
  PROVE  FALSE
<1>1. /\ run = "running" /\ i <= Len(bytecodes)
      /\ \/ bc.op = "default" /\ (bc.imm = None \/ m_stack = <<>>)
         \/ /\ bc.op \notin {"Push", "default"}
            /\ Underflow \/ bc.op \in Unchecked
  BY DEF Undefined, Stepping, HasImm
<1>2. i < Len(bytecodes) \/ i = Len(bytecodes)
  BY <1>1, Current
<1>3. \/ Fine(bc, m_stack) /\ i < Len(bytecodes)
      \/ Prints(bc, m_stack, terms[1].value, Base(before)) /\ i = Len(bytecodes)
  BY <1>1, <1>2, Current
<1>4. bc.op # "default" \/ (bc.imm # None /\ m_stack # <<>>)
  BY <1>3 DEF Fine, Prints, Ordinary, PlainOp
<1>5. bc.op \notin {"Push", "default"}
  BY <1>1, <1>4
<1>6. Pops(bc) \in 0..Len(m_stack) /\ bc.op \notin Unchecked
  <2>1. "PrintValue" \notin Unchecked
    BY DEF Unchecked
  <2> QED  BY <2>1, <1>3, <1>5 DEF Fine, Prints, Ordinary, PlainOp
<1>7. Underflow
  BY <1>1, <1>5, <1>6
<1>8. popped = Pops(bc)
  BY DEF popped, Pops, Imms, HasImm
<1>9. Len(m_stack) \in Nat
  BY <1>1, Current, SeqDomain
<1> QED  BY <1>6, <1>7, <1>8, <1>9 DEF Underflow

LEMMA RenderMeaning == SInv /\ EInv /\ Render => EInv'
<1> SUFFICES ASSUME SInv, EInv, Render PROVE EInv'
  OBVIOUS
<1>1. UNCHANGED parser
  BY DEF Render, Start, RunPush, RunFunction, RunCallback, RunDefault, RunPrint, Missing, Refused,
         Undefined, Finish, Ends
<1>2. at' = at /\ bytecodes' = bytecodes /\ terms' = terms /\ before' = before
  BY <1>1 DEF parser
<1>3. Compiled' /\ Swapped'
  BY <1>2 DEF EInv, Compiled, Swapped, Parsing
<1>4. ASSUME at = "accepted", WrittenIsRegular
      PROVE  \E r : Executing(r)'
  <2>1. PICK r : Executing(r)
    BY <1>4 DEF EInv, Accepted
  <2>2. CASE Start
    <3>1. run = "ready" /\ run' = "running" /\ i' = i /\ m_stack' = m_stack /\ printed' = printed
      BY <2>2 DEF Start
    <3>2. i = 1 /\ Len(bytecodes) \in Nat \ {0}
      BY <2>1, <3>1 DEF SInv, Structure, Rendering, Executing, ProgramOf
    <3>3. i <= Len(bytecodes) /\ ~(i > Len(bytecodes))
      BY <3>2
    <3>4. ProgramOf(bytecodes', terms'[1].value, Base(before'), r)
      BY <1>2, <2>1 DEF Executing
    <3>5. m_stack' = r[i'] /\ ~Tainted(m_stack')
      BY <2>1, <3>1, <3>3 DEF Executing
    <3>6. ~(i' > Len(bytecodes'))
      BY <1>2, <3>1, <3>3
    <3> QED  BY <3>1, <3>4, <3>5, <3>6 DEF Executing
  <2>3. CASE RunPush
    BY <2>1, <2>3, PushExecutes
  <2>4. CASE RunFunction \/ RunCallback
    BY <2>1, <2>4, FunctionExecutes
  <2>5. CASE RunDefault
    BY <2>1, <2>5, DefaultExecutes
  <2>6. CASE RunPrint
    BY <2>1, <2>6, PrintExecutes
  <2>7. CASE Missing
    BY <2>1, <2>7, MissingExecutes
  <2>8. CASE Refused
    <3>1. Ends("refused")
      BY <2>8 DEF Refused
    <3> QED  BY <2>1, <3>1, EndExecutes
  <2>9. CASE Undefined
    BY <2>1, <2>9, NothingUndefined
  <2>10. CASE Finish
    <3>1. run = "running" /\ i > Len(bytecodes) /\ run' = "done" /\ i' = i /\ m_stack' = m_stack
          /\ printed' = printed
      BY <2>10 DEF Finish, Ends
    <3>2. ProgramOf(bytecodes', terms'[1].value, Base(before'), r)
      BY <1>2, <2>1 DEF Executing
    <3>3. m_stack' = Base(before') /\ printed' = terms'[1].value
      BY <1>2, <2>1, <3>1 DEF Executing
    <3> QED  BY <1>2, <3>1, <3>2, <3>3 DEF Executing
  <2> QED  BY <2>2, <2>3, <2>4, <2>5, <2>6, <2>7, <2>8, <2>9, <2>10, Zenon DEF Render
<1>5. Accepted'
  BY <1>2, <1>4 DEF Accepted, WrittenIsRegular
<1> QED  BY <1>3, <1>5 DEF EInv

LEMMA NextMeaning == SInv /\ EInv /\ [Next]_vars => EInv'
<1> SUFFICES ASSUME SInv, EInv, [Next]_vars PROVE EInv'
  OBVIOUS
<1>1. CASE Parse
  BY <1>1, ParseMeaning DEF Parse
<1>2. CASE Render
  BY <1>2, RenderMeaning
<1>3. CASE UNCHANGED vars
  <2>1. /\ at' = at /\ before' = before /\ bytecodes' = bytecodes /\ terms' = terms
        /\ i' = i /\ m_stack' = m_stack /\ printed' = printed /\ run' = run
    BY <1>3 DEF vars, parser, renderer
  <2>2. Compiled' /\ Swapped'
    BY <2>1 DEF EInv, Compiled, Swapped, Parsing
  <2>3. \A r : Executing(r) => Executing(r)'
    BY <2>1 DEF Executing
  <2>4. Accepted'
    BY <2>1, <2>3 DEF EInv, Accepted, WrittenIsRegular
  <2> QED  BY <2>2, <2>4 DEF EInv
<1> QED  BY <1>1, <1>2, <1>3 DEF Next

LEMMA MeaningHolds == Spec => [](SInv /\ EInv)
<1>1. Init => SInv /\ EInv
  BY InitStructure, InitMeaning
<1>2. SInv /\ EInv /\ [Next]_vars => (SInv /\ EInv)'
  BY NextStructure, NextMeaning
<1> QED  BY <1>1, <1>2, PTL DEF Spec

(* What is printed is the value of the expression that was written, and the *)
(* stack is left as the expression found it; a name is missed only where    *)
(* the expression has no value.  The merges of append_function and          *)
(* append_callback, the swap of default() and the interpreter's get_args    *)
(* and pop_args agree, for expressions of any length and depth.             *)
THEOREM WrittenIsPrinted == Spec => []PrintsTheWritten
<1>1. SInv /\ EInv => PrintsTheWritten
  <2> SUFFICES ASSUME SInv, EInv, at = "accepted", WrittenIsRegular
               PROVE  /\ run = "done" => printed = terms[1].value /\ Len(m_stack) = Len(before)
                      /\ run = "missing" => terms[1].value = Thrown
    BY DEF PrintsTheWritten
  <2>1. PICK r : Executing(r)
    BY DEF EInv, Accepted
  <2>2. Len(Base(before)) = Len(before)
    BY BeforeIs DEF SInv, Structure
  <2>3. run = "done" => printed = terms[1].value /\ m_stack = Base(before)
    BY <2>1 DEF Executing
  <2>4. run = "missing" => terms[1].value = Thrown
    BY <2>1 DEF Executing
  <2> QED  BY <2>2, <2>3, <2>4
<1> QED  BY <1>1, MeaningHolds, PTL

(* Nothing below the value stack is read, no null immediate is              *)
(* dereferenced and no bytecode before the first is swapped, for any        *)
(* expression that is regular.                                              *)
THEOREM RegularIsDefined == Spec => []DefinedForTheRegular
<1>1. EInv => DefinedForTheRegular
  <2> SUFFICES ASSUME EInv PROVE DefinedForTheRegular
    OBVIOUS
  <2>1. at = "accepted" /\ WrittenIsRegular => run # "undefined"
    BY DEF EInv, Accepted, Executing
  <2>2. at = "undefined" => ~Last(terms).regular
    BY DEF EInv, Swapped
  <2> QED  BY <2>1, <2>2 DEF DefinedForTheRegular
<1> QED  BY <1>1, MeaningHolds, PTL
=============================================================================
