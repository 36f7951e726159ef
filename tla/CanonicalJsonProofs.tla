------------------------ MODULE CanonicalJsonProofs ------------------------
(* Theorems about JsonDocument and CanonicalJson, for every value of their *)
(* constants: documents of any size, their values nested to any depth.     *)
EXTENDS CanonicalJson, SequenceTheorems, WellFoundedInduction, TLAPS

-----------------------------------------------------------------------------
(* Induction and recursion *)

\* Sets of numbers are what inductions are over here: of those for which a claim
\* fails there is a least.
LEMMA LeastNat ==
    ASSUME NEW S \in SUBSET Nat, S # {}
    PROVE  \E n \in S : \A m \in S : n <= m
  <1>1. PICK n \in S : \A m \in S : <<m, n>> \notin OpToRel(<, Nat)
    BY NatLessThanWellFounded, WFMin
  <1>2. \A m \in S : ~ (m < n)
    BY <1>1 DEF OpToRel
  <1> QED BY <1>2

\* Induction along a rank: Good is closed upwards, so everything is in it.
LEMMA RankInduction ==
    ASSUME NEW V, NEW rank \in [V -> Nat], NEW Good,
           \A v \in V : (\A w \in V : rank[w] < rank[v] => w \in Good) => v \in Good
    PROVE  \A v \in V : v \in Good
  <1> DEFINE Bad == {k \in Nat : \E v \in V : rank[v] = k /\ v \notin Good}
  <1>1. Bad = {}
    <2> SUFFICES ASSUME Bad # {} PROVE FALSE
      OBVIOUS
    <2>1. PICK k \in Bad : \A j \in Bad : k <= j
      BY LeastNat
    <2>2. PICK v \in V : rank[v] = k /\ v \notin Good
      BY <2>1
    <2>3. ASSUME NEW w \in V, rank[w] < rank[v] PROVE w \in Good
      BY <2>1, <2>2, <2>3
    <2> QED BY <2>2, <2>3
  <1> QED BY <1>1

\* The functions that solve a recursive equation up to rank n.
Solves(f, V, rank, step, n) ==
    \A v \in V : rank[v] < n => f[v] = step[<<v, f>>]

\* A step that looks only at values of a lower rank.
LooksDown(V, T, rank, step) ==
    \A v \in V, f, g \in [V -> T] :
        (\A w \in V : rank[w] < rank[v] => f[w] = g[w]) => step[<<v, f>>] = step[<<v, g>>]

LEMMA SolutionsAgree ==
    ASSUME NEW V, NEW T, NEW rank \in [V -> Nat], NEW step, LooksDown(V, T, rank, step),
           NEW m \in Nat, NEW n \in Nat, m <= n,
           NEW f \in [V -> T], Solves(f, V, rank, step, m),
           NEW g \in [V -> T], Solves(g, V, rank, step, n)
    PROVE  \A v \in V : rank[v] < m => f[v] = g[v]
  <1> DEFINE Good == {v \in V : rank[v] < m => f[v] = g[v]}
  <1>1. ASSUME NEW v \in V, \A w \in V : rank[w] < rank[v] => w \in Good
        PROVE  v \in Good
    <2> SUFFICES ASSUME rank[v] < m PROVE f[v] = g[v]
      OBVIOUS
    <2>1. \A w \in V : rank[w] < rank[v] => f[w] = g[w]
      BY <1>1
    <2>2. step[<<v, f>>] = step[<<v, g>>]
      BY <2>1 DEF LooksDown
    <2>3. f[v] = step[<<v, f>>] /\ g[v] = step[<<v, g>>]
      BY DEF Solves
    <2> QED BY <2>2, <2>3
  <1> HIDE DEF Good
  <1>2. \A v \in V : v \in Good
    BY <1>1, RankInduction
  <1> QED BY <1>2 DEF Good

LEMMA SolutionUpTo ==
    ASSUME NEW V, NEW T, T # {}, NEW rank \in [V -> Nat], NEW step \in [V \X [V -> T] -> T],
           LooksDown(V, T, rank, step)
    PROVE  \A n \in Nat : \E f \in [V -> T] : Solves(f, V, rank, step, n)
  <1> DEFINE Unsolved == {n \in Nat : ~ \E f \in [V -> T] : Solves(f, V, rank, step, n)}
  <1>1. Unsolved = {}
    <2> SUFFICES ASSUME Unsolved # {} PROVE FALSE
      OBVIOUS
    <2>1. PICK n \in Unsolved : \A j \in Unsolved : n <= j
      BY LeastNat
    <2>2. n # 0
      <3>1. PICK t \in T : TRUE
        OBVIOUS
      <3> DEFINE f == [v \in V |-> t]
      <3>2. f \in [V -> T] /\ Solves(f, V, rank, step, 0)
        BY DEF Solves
      <3> QED BY <2>1, <3>2
    <2>3. n \in Nat /\ n - 1 \in Nat /\ n - 1 \notin Unsolved
      BY <2>1, <2>2
    <2>4. PICK f \in [V -> T] : Solves(f, V, rank, step, n - 1)
      BY <2>3
    <2> DEFINE g == [v \in V |-> IF rank[v] < n - 1 THEN f[v] ELSE step[<<v, f>>]]
    <2>5. g \in [V -> T]
      OBVIOUS
    <2>6. \A w \in V : rank[w] < n - 1 => f[w] = g[w]
      OBVIOUS
    <2>7. \A v \in V : g[v] = step[<<v, f>>]
      BY <2>4 DEF Solves
    <2> HIDE DEF g
    <2>8. ASSUME NEW v \in V, rank[v] < n PROVE step[<<v, f>>] = step[<<v, g>>]
      <3>1. \A w \in V : rank[w] < rank[v] => f[w] = g[w]
        BY <2>3, <2>6, <2>8
      <3> QED BY <2>5, <3>1 DEF LooksDown
    <2>9. Solves(g, V, rank, step, n)
      BY <2>7, <2>8 DEF Solves
    <2> QED BY <2>1, <2>5, <2>9
  <1> QED BY <1>1

Solvable(V, T, step) == \E f \in [V -> T] : \A v \in V : f[v] = step[<<v, f>>]

\* What a recursive definition whose every call is to a lower rank rests on: there
\* is a function that satisfies its equation.
LEMMA RecursionTheorem ==
    ASSUME NEW V, NEW T, T # {}, NEW rank \in [V -> Nat], NEW step \in [V \X [V -> T] -> T],
           LooksDown(V, T, rank, step)
    PROVE  Solvable(V, T, step)
  <1> DEFINE F == [n \in Nat |-> CHOOSE f \in [V -> T] : Solves(f, V, rank, step, n)]
             h == [v \in V |-> F[rank[v] + 1][v]]
  <1>1. ASSUME NEW n \in Nat
        PROVE  F[n] \in [V -> T] /\ Solves(F[n], V, rank, step, n)
    <2>1. \E f \in [V -> T] : Solves(f, V, rank, step, n)
      BY SolutionUpTo
    <2> QED BY <2>1
  <1> HIDE DEF F
  <1>2. h \in [V -> T]
    BY <1>1
  <1>3. \A v \in V : h[v] = F[rank[v] + 1][v]
    OBVIOUS
  <1> HIDE DEF h
  <1>4. ASSUME NEW v \in V PROVE h[v] = step[<<v, h>>]
    <2> DEFINE f == F[rank[v] + 1]
    <2>1. rank[v] \in Nat /\ rank[v] + 1 \in Nat
      OBVIOUS
    <2>2. f \in [V -> T] /\ Solves(f, V, rank, step, rank[v] + 1)
      BY <1>1, <2>1
    <2>3. ASSUME NEW w \in V, rank[w] < rank[v] PROVE f[w] = h[w]
      <3>1. rank[w] + 1 \in Nat /\ rank[w] + 1 <= rank[v] + 1 /\ rank[w] < rank[w] + 1
        BY <2>1, <2>3
      <3> DEFINE g == F[rank[w] + 1]
      <3>2. g \in [V -> T] /\ Solves(g, V, rank, step, rank[w] + 1)
        BY <1>1, <3>1
      <3> HIDE DEF g, f
      <3>3. g[w] = f[w]
        BY <2>1, <2>2, <3>1, <3>2, SolutionsAgree
      <3> QED BY <1>3, <3>3 DEF g
    <2> HIDE DEF f
    <2>4. f[v] = step[<<v, f>>]
      BY <2>1, <2>2 DEF Solves
    <2>5. step[<<v, f>>] = step[<<v, h>>]
      BY <1>2, <2>2, <2>3 DEF LooksDown
    <2> QED BY <1>3, <2>4, <2>5 DEF f
  <1> QED BY <1>2, <1>4 DEF Solvable

-----------------------------------------------------------------------------
(* Parts in a row *)

Texts == Seq(Char)

Then(x, y) == x \o y

LEMMA ShortTexts == <<>> \in Texts /\ \A c \in Char : <<c>> \in Texts
  BY DEF Texts

LEMMA ThenInTexts == \A x, y \in Texts : Then(x, y) \in Texts
  BY ConcatProperties DEF Texts, Then

LEMMA ThenRegroups == \A x, y, z \in Texts : Then(Then(x, y), z) = Then(x, Then(y, z))
  BY ConcatAssociative DEF Texts, Then

LEMMA ThenCancels == \A x, y, z \in Texts : Then(x, y) = Then(x, z) => y = z
  BY ConcatSimplifications DEF Texts, Then

LEMMA ThenEmpty == \A x \in Texts : Then(<<>>, x) = x /\ Then(x, <<>>) = x
  BY ConcatEmptySeq DEF Texts, Then

LEMMA ThenFirst ==
    \A x, y \in Texts : x # <<>> => Then(x, y) # <<>> /\ Then(x, y)[1] = x[1]
  BY DEF Texts, Then

LEMMA CancelPrefix ==
    ASSUME NEW o \in Texts, NEW u \in Texts, NEW w \in Texts, NEW x \in Texts, NEW y \in Texts,
           Then(Then(o, u), x) = Then(Then(o, w), y)
    PROVE  Then(u, x) = Then(w, y)
  BY ThenInTexts, ThenRegroups, ThenCancels

\* What Enclosed writes from its nth part on.
RestOf(rest, parts, separator, close) ==
    /\ rest \in [1..(Len(parts) + 1) -> Texts]
    /\ rest[Len(parts) + 1] = <<close>>
    /\ \A n \in 1..Len(parts) :
          rest[n] = Then(IF n = 1 THEN <<>> ELSE separator, Then(parts[n], rest[n + 1]))

LEMMA EnclosedRest ==
    ASSUME NEW open, NEW close \in Char, NEW separator \in Texts, NEW parts \in Seq(Texts)
    PROVE  \E rest : /\ RestOf(rest, parts, separator, close)
                     /\ Enclosed(open, parts, separator, close) = Then(<<open>>, rest[1])
  <1> DEFINE V == 1..(Len(parts) + 1)
             Rest(g, n) == IF n > Len(parts) THEN <<close>>
                           ELSE (IF n = 1 THEN <<>> ELSE separator) \o parts[n] \o g[n + 1]
             P(g) == g = [n \in V |-> Rest(g, n)]
             rank == [n \in V |-> Len(parts) + 1 - n]
             step == [x \in V \X [V -> Texts] |-> Rest(x[2], x[1])]
  <1>1. Len(parts) \in Nat /\ \A n \in 1..Len(parts) : parts[n] \in Texts
    BY LenProperties, ElementOfSeq
  <1>2. rank \in [V -> Nat]
    BY <1>1
  <1>3. ASSUME NEW n \in V, NEW g \in [V -> Texts] PROVE Rest(g, n) \in Texts
    <2>1. CASE n > Len(parts)
      <3>1. <<close>> \in Texts
        BY DEF Texts
      <3> QED BY <2>1, <3>1
    <2>2. CASE ~ (n > Len(parts))
      <3>1. n \in 1..Len(parts) /\ n + 1 \in V
        BY <1>1, <2>2
      <3>2. <<>> \in Texts
        BY DEF Texts
      <3> DEFINE sep == IF n = 1 THEN <<>> ELSE separator
      <3>3. sep \in Texts
        BY <3>2
      <3>4. parts[n] \in Texts /\ g[n + 1] \in Texts
        BY <1>1, <3>1
      <3> HIDE DEF sep, V
      <3>5. sep \o parts[n] \in Texts
        BY <3>3, <3>4, ConcatProperties DEF Texts
      <3>6. sep \o parts[n] \o g[n + 1] \in Texts
        BY <3>4, <3>5, ConcatProperties DEF Texts
      <3> QED BY <2>2, <3>6 DEF sep
    <2> QED BY <2>1, <2>2
  <1>4. \A n \in V, g \in [V -> Texts] : step[<<n, g>>] = Rest(g, n)
    OBVIOUS
  <1>5. step \in [V \X [V -> Texts] -> Texts]
    BY <1>3
  <1>6. LooksDown(V, Texts, rank, step)
    <2>1. ASSUME NEW n \in V, NEW f \in [V -> Texts], NEW g \in [V -> Texts],
                 \A w \in V : rank[w] < rank[n] => f[w] = g[w]
          PROVE  Rest(f, n) = Rest(g, n)
      <3>1. ASSUME ~ (n > Len(parts)) PROVE f[n + 1] = g[n + 1]
        <4>1. n + 1 \in V /\ rank[n + 1] < rank[n]
          BY <1>1, <3>1
        <4> HIDE DEF V, rank
        <4> QED BY <2>1, <4>1
      <3> QED BY <3>1
    <2> HIDE DEF V, rank, step, Rest
    <2> QED BY <1>4, <2>1 DEF LooksDown
  <1> HIDE DEF rank, step
  <1>7. PICK f \in [V -> Texts] : \A n \in V : f[n] = step[<<n, f>>]
    <2>1. Texts # {}
      BY DEF Texts
    <2> HIDE DEF V, Rest, P
    <2>2. Solvable(V, Texts, step)
      BY <1>2, <1>5, <1>6, <2>1, RecursionTheorem
    <2> QED BY <2>2 DEF Solvable
  <1>8. P(f)
    BY <1>4, <1>7, ZenonT(60)
  <1>9. Enclosed(open, parts, separator, close) = <<open>> \o (CHOOSE g : P(g))[1]
    BY DEF Enclosed
  <1>10. \E g : P(g)
    BY <1>8
  <1> DEFINE rest == CHOOSE g : P(g)
  <1>11. P(rest)
    <2> HIDE DEF P
    <2> QED BY <1>10, Zenon
  <1> HIDE DEF rest
  <1>12. rest = [n \in V |-> Rest(rest, n)]
    BY <1>11
  <1>13. Enclosed(open, parts, separator, close) = <<open>> \o rest[1]
    BY <1>9 DEF rest
  <1> HIDE DEF P, Rest
  <1>14. \A n \in V : rest[n] = Rest(rest, n) /\ f[n] = Rest(f, n)
    BY <1>4, <1>7, <1>12
  <1> DEFINE Good == {n \in V : rest[n] = f[n]}
  <1>15. ASSUME NEW n \in V, \A m \in V : rank[m] < rank[n] => m \in Good
         PROVE  n \in Good
    <2>1. ASSUME ~ (n > Len(parts)) PROVE rest[n + 1] = f[n + 1]
      <3>1. n + 1 \in V /\ rank[n + 1] < rank[n]
        BY <1>1, <2>1 DEF rank
      <3> HIDE DEF V
      <3> QED BY <1>15, <3>1
    <2>2. Rest(rest, n) = Rest(f, n)
      BY <2>1 DEF Rest
    <2> QED BY <1>14, <2>2
  <1>16. rest \in [V -> Texts]
    <2> HIDE DEF V, Good
    <2>1. \A n \in V : n \in Good
      BY <1>2, <1>15, RankInduction
    <2>2. \A n \in V : rest[n] = f[n]
      BY <2>1 DEF Good
    <2> QED BY <1>7, <1>12, <2>2
  <1>17. rest[Len(parts) + 1] = <<close>>
    <2>1. Len(parts) + 1 \in V /\ Len(parts) + 1 > Len(parts)
      BY <1>1
    <2> HIDE DEF V
    <2> QED BY <1>14, <2>1 DEF Rest
  <1>18. ASSUME NEW n \in 1..Len(parts)
         PROVE  rest[n] = Then(IF n = 1 THEN <<>> ELSE separator, Then(parts[n], rest[n + 1]))
    <2> DEFINE sep == IF n = 1 THEN <<>> ELSE separator
    <2>1. n \in V /\ n + 1 \in V /\ ~ (n > Len(parts))
      BY <1>1
    <2>2. rest[n] = sep \o parts[n] \o rest[n + 1]
      <3> HIDE DEF V
      <3> QED BY <1>14, <2>1 DEF Rest
    <2>3. <<>> \in Texts
      BY DEF Texts
    <2>4. sep \in Texts
      BY <2>3
    <2>5. parts[n] \in Texts /\ rest[n + 1] \in Texts
      <3> HIDE DEF V
      <3> QED BY <1>1, <1>16, <2>1
    <2> HIDE DEF sep
    <2>6. Then(Then(sep, parts[n]), rest[n + 1]) = Then(sep, Then(parts[n], rest[n + 1]))
      BY <2>4, <2>5, ThenRegroups
    <2> QED BY <2>2, <2>6 DEF sep, Then
  <1> QED BY <1>13, <1>16, <1>17, <1>18 DEF RestOf, Then

\* A part is written so that it is not taken for the closing sign.
LEMMA RestStarts ==
    ASSUME NEW close \in Char, NEW separator \in Texts, NEW parts \in Seq(Texts), NEW rest,
           RestOf(rest, parts, separator, close),
           separator = <<>> \/ separator[1] # close,
           NEW n \in 1..Len(parts), parts[n] # <<>>, parts[n][1] # close
    PROVE  rest[n] # <<>> /\ rest[n][1] # close
  <1> DEFINE sep == IF n = 1 THEN <<>> ELSE separator
             part == parts[n]
             after == rest[n + 1]
  <1>1. Len(parts) \in Nat /\ n + 1 \in 1..(Len(parts) + 1) /\ part \in Texts
    BY LenProperties, ElementOfSeq
  <1>2. after \in Texts
    BY <1>1 DEF RestOf
  <1>3. rest[n] = Then(sep, Then(part, after))
    BY DEF RestOf
  <1>4. sep \in Texts /\ (sep = <<>> \/ sep[1] # close)
    BY ShortTexts
  <1>5. part # <<>> /\ part[1] # close
    OBVIOUS
  <1> HIDE DEF sep, part, after
  <1>6. Then(part, after) \in Texts /\ Then(part, after) # <<>> /\ Then(part, after)[1] # close
    BY <1>1, <1>2, <1>5, ThenFirst, ThenInTexts
  <1>7. CASE sep = <<>>
    <2>1. rest[n] = Then(part, after)
      BY <1>3, <1>6, <1>7, ThenEmpty
    <2> QED BY <1>6, <2>1
  <1>8. CASE sep # <<>>
    BY <1>3, <1>4, <1>6, <1>8, ThenFirst
  <1> QED BY <1>7, <1>8

\* No part can be taken for the closing sign, and each of p, whatever follows, is
\* told from that of q at its place.
Open(p, close) == \A n \in 1..Len(p) : p[n] # <<>> /\ p[n][1] # close
Told(p, q) ==
    \A n \in 1..Len(p) : n <= Len(q) =>
        \A u, w \in Texts : Then(p[n], u) = Then(q[n], w) => p[n] = q[n]

\* A text of parts in a row is told, whatever follows it: when each part is, the
\* parts are.
LEMMA EnclosedTold ==
    ASSUME NEW open \in Char, NEW close \in Char, NEW separator \in Texts,
           separator = <<>> \/ separator[1] # close,
           NEW p \in Seq(Texts), NEW q \in Seq(Texts), NEW x \in Texts, NEW y \in Texts,
           Open(p, close), Open(q, close), Told(p, q),
           Then(Enclosed(open, p, separator, close), x) =
           Then(Enclosed(open, q, separator, close), y)
    PROVE  p = q
  <1>1. PICK rp : /\ RestOf(rp, p, separator, close)
                  /\ Enclosed(open, p, separator, close) = Then(<<open>>, rp[1])
    BY EnclosedRest
  <1>2. PICK rq : /\ RestOf(rq, q, separator, close)
                  /\ Enclosed(open, q, separator, close) = Then(<<open>>, rq[1])
    BY EnclosedRest
  <1>3. /\ Len(p) \in Nat /\ \A n \in 1..Len(p) : p[n] \in Texts
        /\ Len(q) \in Nat /\ \A n \in 1..Len(q) : q[n] \in Texts
    BY LenProperties, ElementOfSeq
  <1>4. /\ \A n \in 1..(Len(p) + 1) : rp[n] \in Texts
        /\ \A n \in 1..(Len(q) + 1) : rq[n] \in Texts
    BY <1>1, <1>2 DEF RestOf
  <1>5. <<close>> \in Texts /\ <<close>> # <<>> /\ <<close>>[1] = close
    BY ShortTexts
  <1>6. /\ \A n \in 1..Len(p) : rp[n] # <<>> /\ rp[n][1] # close
        /\ \A n \in 1..Len(q) : rq[n] # <<>> /\ rq[n][1] # close
    BY <1>1, <1>2, RestStarts, SMTT(40) DEF Open
  <1>7. rp[Len(p) + 1] = <<close>> /\ rq[Len(q) + 1] = <<close>>
    BY <1>1, <1>2 DEF RestOf
  <1> DEFINE Same(n) == /\ n \in 1..(Len(p) + 1) /\ n \in 1..(Len(q) + 1)
                        /\ Then(rp[n], x) = Then(rq[n], y)
  \* Where one has a part, so has the other.
  <1>8. ASSUME NEW n, Same(n) PROVE n = Len(p) + 1 <=> n = Len(q) + 1
    <2>1. rp[n] \in Texts /\ rq[n] \in Texts
      BY <1>4, <1>8
    <2>2. rp[n] # <<>> /\ rq[n] # <<>>
      <3>1. n \in 1..Len(p) \/ n = Len(p) + 1
        BY <1>3, <1>8
      <3>2. n \in 1..Len(q) \/ n = Len(q) + 1
        BY <1>3, <1>8
      <3> QED BY <1>5, <1>6, <1>7, <3>1, <3>2
    <2>3. rp[n][1] = rq[n][1]
      BY <1>8, <2>1, <2>2, ThenFirst
    <2>4. n = Len(p) + 1 <=> rp[n][1] = close
      <3>1. n # Len(p) + 1 => n \in 1..Len(p)
        BY <1>3, <1>8
      <3> QED BY <1>5, <1>6, <1>7, <3>1
    <2>5. n = Len(q) + 1 <=> rq[n][1] = close
      <3>1. n # Len(q) + 1 => n \in 1..Len(q)
        BY <1>3, <1>8
      <3> QED BY <1>5, <1>6, <1>7, <3>1
    <2> QED BY <2>3, <2>4, <2>5
  <1>9. ASSUME NEW n, Same(n), n # Len(p) + 1
        PROVE  p[n] = q[n] /\ Same(n + 1)
    <2>1. n \in 1..Len(p) /\ n \in 1..Len(q) /\ n + 1 \in 1..(Len(p) + 1) /\ n + 1 \in 1..(Len(q) + 1)
      <3>1. n # Len(q) + 1
        BY <1>8, <1>9
      <3> QED BY <1>3, <1>9, <3>1
    <2> DEFINE sep == IF n = 1 THEN <<>> ELSE separator
               s == p[n]
               t == q[n]
               u == rp[n + 1]
               w == rq[n + 1]
    <2>2. sep \in Texts
      BY ShortTexts
    <2>3. s \in Texts /\ t \in Texts /\ u \in Texts /\ w \in Texts
      BY <1>3, <1>4, <2>1
    <2>4. rp[n] = Then(sep, Then(s, u)) /\ rq[n] = Then(sep, Then(t, w))
      BY <1>1, <1>2, <2>1 DEF RestOf
    <2>5. Then(Then(sep, Then(s, u)), x) = Then(Then(sep, Then(t, w)), y)
      BY <1>9, <2>4
    <2>6. \A a, b \in Texts : Then(s, a) = Then(t, b) => s = t
      <3>1. n \in 1..Len(p) /\ n <= Len(q)
        BY <1>3, <2>1
      <3> QED BY <3>1 DEF Told
    <2> HIDE DEF sep, s, t, u, w
    <2>7. Then(s, Then(u, x)) = Then(t, Then(w, y))
      <3>1. Then(s, u) \in Texts /\ Then(t, w) \in Texts
        BY <2>3, ThenInTexts
      <3>2. Then(Then(s, u), x) = Then(Then(t, w), y)
        BY <2>2, <2>5, <3>1, CancelPrefix
      <3> QED BY <2>3, <3>1, <3>2, ThenRegroups
    <2> DEFINE ux == Then(u, x)
               wy == Then(w, y)
    <2>8. ux \in Texts /\ wy \in Texts /\ Then(s, ux) = Then(t, wy)
      BY <2>3, <2>7, ThenInTexts
    <2> HIDE DEF ux, wy
    <2>9. s = t
      BY <2>6, <2>8
    <2>10. ux = wy
      BY <2>3, <2>8, <2>9, ThenCancels
    <2> QED BY <2>1, <2>9, <2>10 DEF s, t, u, w, ux, wy
  <1>10. Same(1)
    <2>1. 1 \in 1..(Len(p) + 1) /\ 1 \in 1..(Len(q) + 1)
      BY <1>3
    <2> DEFINE u == rp[1]
               w == rq[1]
               o == <<open>>
    <2>2. u \in Texts /\ w \in Texts /\ o \in Texts
      BY <1>4, <2>1, ShortTexts
    <2>3. Then(Then(o, u), x) = Then(Then(o, w), y)
      BY <1>1, <1>2
    <2> HIDE DEF u, w, o
    <2>4. Then(u, x) = Then(w, y)
      BY <2>2, <2>3, CancelPrefix
    <2> QED BY <2>1, <2>4 DEF u, w
  <1> HIDE DEF Same
  <1> DEFINE Apart == {n \in Nat : n \in 1..(Len(p) + 1) /\ ~ Same(n)}
  <1>11. Apart = {}
    <2> SUFFICES ASSUME Apart # {} PROVE FALSE
      OBVIOUS
    <2>1. PICK n \in Apart : \A m \in Apart : n <= m
      BY LeastNat
    <2>2. n \in 2..(Len(p) + 1) /\ n - 1 \in Nat
      BY <1>3, <1>10, <2>1
    <2>3. Same(n - 1) /\ n - 1 # Len(p) + 1
      BY <1>3, <2>1, <2>2
    <2>4. Same(n - 1 + 1)
      BY <1>9, <2>3
    <2> QED BY <2>1, <2>2, <2>4
  <1>12. \A n \in 1..(Len(p) + 1) : Same(n)
    BY <1>3, <1>11
  <1>13. Len(p) = Len(q)
    <2>1. Same(Len(p) + 1)
      BY <1>3, <1>12
    <2>2. Len(p) + 1 = Len(q) + 1
      BY <1>8, <2>1
    <2> QED BY <1>3, <2>2
  <1>14. \A n \in 1..Len(p) : p[n] = q[n]
    BY <1>3, <1>9, <1>12
  <1> QED BY <1>13, <1>14, SeqEqual

-----------------------------------------------------------------------------
(* The order of keys *)

\* Each SDK's order is strict and total, whatever the keys are.
LEMMA BeforeIsOrder ==
    ASSUME NEW sdk \in Sdk, NEW j \in Key, NEW k \in Key
    PROVE  /\ ~ (Before(sdk, j, k) /\ Before(sdk, k, j))
           /\ ~ Before(sdk, j, j)
           /\ j # k => Before(sdk, j, k) \/ Before(sdk, k, j)
  <1>1. CASE sdk # "ts"
    BY <1>1, KeyAssumption DEF Before
  <1>2. CASE sdk = "ts"
    BY <1>2, KeyAssumption DEF Before, BeforeTs
  <1> QED BY <1>1, <1>2

\* Portable keys have one order.
LEMMA BeforeAgrees ==
    ASSUME NEW s \in Sdk, NEW r \in Sdk, NEW keys \in SUBSET Key, PortableKeys(keys),
           NEW j \in keys, NEW k \in keys
    PROVE  Before(s, j, k) <=> Before(r, j, k)
  <1>1. j \in Key /\ k \in Key /\ {j, k} \cap DOMAIN ArrayIndex = {}
    BY DEF PortableKeys
  <1>2. BeforeTs(j, k) <=> Utf16Rank[j] < Utf16Rank[k]
    BY <1>1 DEF BeforeTs
  <1>3. CodePointRank[j] < CodePointRank[k] <=> Utf16Rank[j] < Utf16Rank[k]
    <2>1. ~ (j \in Astral /\ k \in HighBmp) /\ ~ (j \in HighBmp /\ k \in Astral)
      BY DEF PortableKeys
    <2> QED BY <1>1, <2>1, KeyAssumption
  <1> QED BY <1>2, <1>3 DEF Before

LEMMA BeforeIsTransitive ==
    ASSUME NEW sdk \in Sdk, NEW i \in Key, NEW j \in Key, NEW k \in Key,
           Before(sdk, i, j), Before(sdk, j, k)
    PROVE  Before(sdk, i, k)
  <1>1. CASE sdk # "ts"
    BY <1>1, KeyAssumption DEF Before
  <1>2. CASE sdk = "ts"
    BY <1>2, KeyAssumption DEF Before, BeforeTs
  <1> QED BY <1>1, <1>2

\* f with one more, in order.
Extended(sdk, n, E, f, e) ==
    \E g \in [1..(n + 1) -> E \cup {e}] :
        /\ InOrder(sdk, g)
        /\ \A i \in 1..n : \E m \in 1..(n + 1) : g[m] = f[i]
        /\ \E m \in 1..(n + 1) : g[m] = e

\* A row of entries in order has a place for one more.
LEMMA Insertion ==
    ASSUME NEW sdk \in Sdk, NEW n \in Nat, NEW E, NEW f \in [1..n -> E], InOrder(sdk, f),
           NEW e, e[1] \in Key, \A d \in E : d[1] \in Key /\ d[1] # e[1]
    PROVE  Extended(sdk, n, E, f, e)
  <1> DEFINE After == {i \in Nat : i \in 1..(n + 1) /\ (i <= n => Before(sdk, e[1], f[i][1]))}
  <1>1. n + 1 \in After
    OBVIOUS
  <1>2. PICK p \in After : \A i \in After : p <= i
    BY <1>1, LeastNat
  <1>3. p \in 1..(n + 1)
    BY <1>2
  <1>4. \A i \in 1..n : f[i][1] \in Key /\ f[i][1] # e[1]
    OBVIOUS
  <1>5. \A i \in 1..n : i < p => Before(sdk, f[i][1], e[1])
    BY <1>2, <1>3, <1>4, BeforeIsOrder
  <1>6. \A i, j \in 1..n : i < j => Before(sdk, f[i][1], f[j][1])
    BY DEF InOrder
  <1>7. p <= n => Before(sdk, e[1], f[p][1])
    BY <1>2
  <1>8. \A i \in 1..n : p <= i => Before(sdk, e[1], f[i][1])
    BY <1>3, <1>4, <1>6, <1>7, BeforeIsTransitive
  <1> HIDE DEF After
  <1> DEFINE g == [i \in 1..(n + 1) |-> IF i < p THEN f[i] ELSE IF i = p THEN e ELSE f[i - 1]]
  <1>9. g \in [1..(n + 1) -> E \cup {e}]
    BY <1>3
  <1>10. /\ \A i \in 1..n : i < p => g[i] = f[i]
         /\ g[p] = e
         /\ \A i \in 1..n : p <= i => g[i + 1] = f[i]
    BY <1>3
  <1> HIDE DEF g
  <1>11. \A i \in 1..n : \E m \in 1..(n + 1) : g[m] = f[i]
    BY <1>3, <1>10
  <1>12. \E m \in 1..(n + 1) : g[m] = e
    BY <1>3, <1>10
  <1>13. ASSUME NEW i \in 1..(n + 1), NEW j \in 1..(n + 1), i < j
         PROVE  Before(sdk, g[i][1], g[j][1])
    <2>1. CASE j < p
      BY <1>3, <1>6, <1>10, <1>13, <2>1
    <2>2. CASE j = p
      BY <1>3, <1>5, <1>10, <1>13, <2>2
    <2>3. CASE p < j
      <3>1. j - 1 \in 1..n /\ p <= j - 1 /\ g[j] = f[j - 1]
        BY <1>3, <1>10, <2>3
      <3>2. CASE i < p
        BY <1>3, <1>6, <1>10, <1>13, <2>3, <3>1, <3>2
      <3>3. CASE i = p
        BY <1>8, <1>10, <3>1, <3>3
      <3>4. CASE p < i
        <4>1. i - 1 \in 1..n /\ p <= i - 1 /\ g[i] = f[i - 1] /\ i - 1 < j - 1
          BY <1>3, <1>10, <1>13, <3>4
        <4> QED BY <1>6, <3>1, <4>1
      <3> QED BY <1>3, <3>2, <3>3, <3>4
    <2> QED BY <1>3, <2>1, <2>2, <2>3
  <1>14. InOrder(sdk, g)
    BY <1>9, <1>13 DEF InOrder
  <1> QED BY <1>9, <1>11, <1>12, <1>14 DEF Extended

-----------------------------------------------------------------------------
(* Values *)

LEMMA NodeShape ==
    ASSUME NEW v \in Node
    PROVE  /\ v.form \in {"text", "atom", "list"} \cup ObjectForms
           /\ v.form = "text" => v.chars \in Seq(Char) /\ Components(v) = {}
           /\ v.form = "atom" => v.atom \in Char /\ Components(v) = {}
           /\ v.form = "list" =>
                 /\ v.values \in Seq(Value)
                 /\ Components(v) = {v.values[n] : n \in DOMAIN v.values}
           /\ v.form \in ObjectForms =>
                 /\ v.entries \in Seq(Key \X Value)
                 /\ Components(v) = {v.entries[n][2] : n \in DOMAIN v.entries}
  <1>1. CASE v \in [form: {"text"}, chars: Seq(Char)]
    BY <1>1 DEF Components, ObjectForms
  <1>2. CASE v \in [form: {"atom"}, atom: Char]
    BY <1>2 DEF Components, ObjectForms
  <1>3. CASE v \in [form: {"list"}, values: Seq(Value)]
    BY <1>3 DEF Components, ObjectForms
  <1>4. CASE v \in [form: ObjectForms, entries: Seq(Key \X Value)]
    BY <1>4 DEF Components, ObjectForms
  <1> QED BY <1>1, <1>2, <1>3, <1>4 DEF Node

LEMMA ComponentsAreValues ==
    ASSUME NEW v \in Node
    PROVE  Components(v) \subseteq Value
  <1>1. CASE v.form = "list"
    <2>1. v.values \in Seq(Value) /\ Components(v) = {v.values[n] : n \in DOMAIN v.values}
      BY <1>1, NodeShape
    <2> QED BY <2>1
  <1>2. CASE v.form \in ObjectForms
    <2>1. /\ v.entries \in Seq(Key \X Value)
          /\ Components(v) = {v.entries[n][2] : n \in DOMAIN v.entries}
      BY <1>2, NodeShape
    <2> QED BY <2>1
  <1>3. CASE v.form \in {"text", "atom"}
    BY <1>3, NodeShape
  <1> QED BY <1>1, <1>2, <1>3, NodeShape

\* An object that the keys of name each entry once has its entries in order, each
\* of them in one place.
IsObject(v) ==
    /\ v.form \in ObjectForms
    /\ v.entries \in Seq(Key \X Value)
    /\ \A m, n \in DOMAIN v.entries : v.entries[m][1] = v.entries[n][1] => m = n

LEMMA SortedIs ==
    ASSUME NEW sdk \in Sdk, NEW v, IsObject(v)
    PROVE  /\ Sorted(sdk, v) \in [1..Len(v.entries) -> EntriesOf(v)]
           /\ InOrder(sdk, Sorted(sdk, v))
           /\ EntriesOf(v) = {Sorted(sdk, v)[n] : n \in 1..Len(v.entries)}
  <1> DEFINE es == v.entries
             Row(n, f) == /\ f \in [1..n -> {es[i] : i \in 1..n}]
                          /\ InOrder(sdk, f)
                          /\ \A i \in 1..n : \E m \in 1..n : f[m] = es[i]
             Bad == {n \in Nat : n <= Len(es) /\ ~ \E f : Row(n, f)}
  <1>1. /\ es \in Seq(Key \X Value) /\ Len(es) \in Nat /\ DOMAIN es = 1..Len(es)
        /\ \A m, n \in 1..Len(es) : es[m][1] = es[n][1] => m = n
        /\ \A n \in 1..Len(es) : es[n][1] \in Key
    BY DEF IsObject
  <1> HIDE DEF es, Row
  <1>2. Bad = {}
    <2> SUFFICES ASSUME Bad # {} PROVE FALSE
      OBVIOUS
    <2>1. PICK n \in Bad : \A m \in Bad : n <= m
      BY LeastNat
    <2>2. n \in Nat /\ n <= Len(es) /\ ~ \E f : Row(n, f)
      BY <2>1
    <2>3. n # 0
      <3>1. Row(0, <<>>)
        BY DEF InOrder, Row
      <3> QED BY <2>2, <3>1
    <2>4. n - 1 \in Nat /\ n - 1 <= Len(es) /\ n - 1 < n /\ n \in 1..Len(es)
      BY <1>1, <2>2, <2>3
    <2>5. n - 1 \notin Bad
      BY <2>1, <2>4
    <2>6. PICK f : Row(n - 1, f)
      BY <2>4, <2>5
    <2> HIDE DEF Bad
    <2> DEFINE k == n - 1
               E == {es[i] : i \in 1..k}
    <2>7. \A d \in E : d[1] \in Key /\ d[1] # es[n][1]
      BY <1>1, <2>4
    <2>8. /\ f \in [1..k -> E] /\ InOrder(sdk, f)
          /\ \A i \in 1..k : \E m \in 1..k : f[m] = es[i]
      BY <2>6 DEF Row
    <2>9. es[n][1] \in Key /\ k \in Nat /\ n = k + 1
      BY <1>1, <2>4
    <2>10. E \cup {es[n]} = {es[i] : i \in 1..n}
      BY <2>9
    <2> HIDE DEF E, k
    <2>11. Extended(sdk, k, E, f, es[n])
      BY <2>7, <2>8, <2>9, Insertion
    <2>12. PICK g \in [1..n -> {es[i] : i \in 1..n}] :
              /\ InOrder(sdk, g)
              /\ \A i \in 1..k : \E m \in 1..n : g[m] = f[i]
              /\ \E m \in 1..n : g[m] = es[n]
      BY <2>9, <2>10, <2>11 DEF Extended
    <2>13. ASSUME NEW i \in 1..n PROVE \E m \in 1..n : g[m] = es[i]
      <3>1. CASE i = n
        BY <2>12, <3>1
      <3>2. CASE i # n
        <4>1. i \in 1..k
          BY <2>9, <3>2
        <4>2. PICK m \in 1..k : f[m] = es[i]
          BY <2>8, <4>1
        <4> QED BY <2>12, <4>2
      <3> QED BY <3>1, <3>2
    <2>14. Row(n, g)
      BY <2>12, <2>13 DEF Row
    <2> QED BY <2>2, <2>14
  <1>3. PICK f : Row(Len(es), f)
    BY <1>1, <1>2
  <1> DEFINE Is(f_) == InOrder(sdk, f_) /\ {f_[n] : n \in DOMAIN f_} = EntriesOf(v)
  <1>4. EntriesOf(v) = {es[i] : i \in 1..Len(es)}
    BY <1>1 DEF EntriesOf, es
  <1>5. f \in [1..Len(es) -> EntriesOf(v)] /\ Is(f)
    <2>1. f \in [1..Len(es) -> EntriesOf(v)] /\ InOrder(sdk, f)
      BY <1>3, <1>4 DEF Row
    <2>2. \A i \in 1..Len(es) : \E m \in 1..Len(es) : f[m] = es[i]
      BY <1>3 DEF Row
    <2>3. {f[n] : n \in DOMAIN f} = EntriesOf(v)
      BY <1>4, <2>1, <2>2
    <2> QED BY <2>1, <2>3
  <1>6. Sorted(sdk, v) = CHOOSE f_ \in [1..Len(es) -> EntriesOf(v)] : Is(f_)
    BY <1>1 DEF Sorted, es
  <1>7. Sorted(sdk, v) \in [1..Len(es) -> EntriesOf(v)] /\ Is(Sorted(sdk, v))
    <2> HIDE DEF Is
    <2> QED BY <1>5, <1>6
  <1> QED BY <1>7 DEF es

-----------------------------------------------------------------------------
(* Texts of values *)

LEMMA ObjectIs ==
    ASSUME NEW v \in Node, WellFormed(v), v.form \in ObjectForms
    PROVE  IsObject(v)
  BY NodeShape DEF WellFormed, IsObject

\* Sorted or as declared, the entries of an object are all there.
LEMMA OrderedIs ==
    ASSUME NEW sdk \in Sdk, NEW v, IsObject(v)
    PROVE  /\ Ordered(sdk, v) \in Seq(Key \X Value)
           /\ Len(Ordered(sdk, v)) = Len(v.entries)
           /\ EntriesOf(v) = {Ordered(sdk, v)[n] : n \in 1..Len(v.entries)}
           /\ EntriesOf(v) \subseteq Key \X Value
  <1>1. /\ v.entries \in Seq(Key \X Value)
        /\ Len(v.entries) \in Nat /\ DOMAIN v.entries = 1..Len(v.entries)
    BY DEF IsObject
  <1>2. EntriesOf(v) = {v.entries[n] : n \in 1..Len(v.entries)}
    BY <1>1 DEF EntriesOf
  <1>3. EntriesOf(v) \subseteq Key \X Value
    BY <1>1, <1>2
  <1>4. CASE Ordered(sdk, v) = v.entries
    BY <1>1, <1>2, <1>3, <1>4
  <1>5. CASE Ordered(sdk, v) = Sorted(sdk, v)
    <2> DEFINE es == Sorted(sdk, v)
    <2>1. /\ es \in [1..Len(v.entries) -> EntriesOf(v)]
          /\ EntriesOf(v) = {es[n] : n \in 1..Len(v.entries)}
      BY SortedIs
    <2> HIDE DEF es
    <2> DEFINE N == Len(v.entries)
               S == Key \X Value
    <2>2. N \in Nat /\ es \in [1..N -> S]
      BY <1>1, <1>3, <2>1
    <2> HIDE DEF N, S
    <2>3. es \in Seq(S) /\ Len(es) = N
      BY <2>2
    <2> QED BY <1>3, <1>5, <2>1, <2>3 DEF es, N, S
  <1> QED BY <1>4, <1>5 DEF Ordered

LEMMA EnclosedInTexts ==
    ASSUME NEW open \in Char, NEW close \in Char, NEW separator \in Texts, NEW parts \in Seq(Texts)
    PROVE  Enclosed(open, parts, separator, close) \in Texts
  <1>1. PICK rest : /\ RestOf(rest, parts, separator, close)
                    /\ Enclosed(open, parts, separator, close) = Then(<<open>>, rest[1])
    BY EnclosedRest
  <1>2. 1 \in 1..(Len(parts) + 1)
    BY LenProperties
  <1>3. rest[1] \in Texts
    BY <1>1, <1>2 DEF RestOf
  <1> QED BY <1>1, <1>3, ShortTexts, ThenInTexts

\* Writings, by SDK and whether Go escapes HTML.
Way == Sdk \X BOOLEAN
Writings == [Way -> Texts]

\* The parts that each form of value is put together from.
Escapes(sdk, html, chars) == [n \in DOMAIN chars |-> Escape(sdk, html, chars[n])]
ListParts(texts, sdk, html, v) ==
    [n \in DOMAIN v.values |-> texts[v.values[n]][<<sdk, html>>]]
ObjectParts(texts, sdk, html, v) ==
    [n \in DOMAIN Ordered(sdk, v) |->
        Member(sdk, InnerHtml(html, v), Ordered(sdk, v)[n][1],
               texts[Ordered(sdk, v)[n][2]][<<sdk, InnerHtml(html, v)>>])]

Quote == "\""
Colon == <<":">>

LEMMA QuotedIs ==
    ASSUME NEW sdk, NEW html, NEW chars
    PROVE  Quoted(sdk, html, chars) = Enclosed(Quote, Escapes(sdk, html, chars), <<>>, Quote)
  BY DEF Quote, Quoted, Escapes

LEMMA EncodeText ==
    ASSUME NEW texts, NEW sdk, NEW html, NEW v, v.form = "text"
    PROVE  Encode(texts, sdk, html, v) = Quoted(sdk, html, v.chars)
  BY DEF Encode, ObjectForms

LEMMA EncodeAtom ==
    ASSUME NEW texts, NEW sdk, NEW html, NEW v, v.form = "atom"
    PROVE  Encode(texts, sdk, html, v) = <<v.atom>>
  BY DEF Encode, ObjectForms

LEMMA EncodeList ==
    ASSUME NEW texts, NEW sdk, NEW html, NEW v, v.form = "list"
    PROVE  Encode(texts, sdk, html, v) =
              Enclosed("[", ListParts(texts, sdk, html, v), <<",">>, "]")
  BY DEF Encode, ListParts, ObjectForms

LEMMA EncodeObject ==
    ASSUME NEW texts, NEW sdk, NEW html, NEW v, v.form \in ObjectForms
    PROVE  Encode(texts, sdk, html, v) =
              Enclosed("{", ObjectParts(texts, sdk, html, v), <<",">>, "}")
  BY DEF Encode, ObjectParts, ObjectForms

LEMMA SignsAreChars ==
    /\ \A c \in Signs \cup Escaped : c \in Char
    /\ <<",">> \in Texts /\ <<>> \in Texts
  <1>1. \A c \in Signs \cup Escaped : c \in Char
    BY ValueAssumption
  <1> QED BY <1>1, ShortTexts DEF Signs

LEMMA EscapeInTexts ==
    ASSUME NEW sdk, NEW html, NEW c \in Char
    PROVE  Escape(sdk, html, c) \in Texts
  <1>1. "\\" \in Char /\ "\\u" \in Char
    BY SignsAreChars DEF Signs, Escaped
  <1>2. \A b \in Char : <<b, c>> \in Texts /\ <<c>> \in Texts
    BY DEF Texts
  <1> QED BY <1>1, <1>2 DEF Escape

LEMMA EscapesIn ==
    ASSUME NEW chars \in Seq(Char), NEW sdk, NEW html
    PROVE  /\ Escapes(sdk, html, chars) \in Seq(Texts)
           /\ Len(Escapes(sdk, html, chars)) = Len(chars)
           /\ \A n \in 1..Len(chars) :
                 /\ chars[n] \in Char
                 /\ Escapes(sdk, html, chars)[n] = Escape(sdk, html, chars[n])
  <1> DEFINE N == Len(chars)
             parts == Escapes(sdk, html, chars)
  <1>1. N \in Nat /\ DOMAIN chars = 1..N /\ \A n \in 1..N : chars[n] \in Char
    BY LenProperties, ElementOfSeq
  <1>2. parts = [n \in 1..N |-> Escape(sdk, html, chars[n])]
    BY <1>1 DEF Escapes
  <1>3. \A n \in 1..N : Escape(sdk, html, chars[n]) \in Texts
    BY <1>1, EscapeInTexts
  <1> HIDE DEF N, parts
  <1>4. parts \in [1..N -> Texts]
    BY <1>2, <1>3
  <1>5. parts \in Seq(Texts) /\ Len(parts) = N
    BY <1>1, <1>4
  <1>6. \A n \in 1..N : parts[n] = Escape(sdk, html, chars[n])
    BY <1>2
  <1> QED BY <1>1, <1>5, <1>6 DEF N, parts

LEMMA EnclosedStarts ==
    ASSUME NEW open \in Char, NEW close \in Char, NEW separator \in Texts,
           NEW parts \in Seq(Texts)
    PROVE  /\ Enclosed(open, parts, separator, close) # <<>>
           /\ Enclosed(open, parts, separator, close)[1] = open
  <1>1. PICK rest : /\ RestOf(rest, parts, separator, close)
                    /\ Enclosed(open, parts, separator, close) = Then(<<open>>, rest[1])
    BY EnclosedRest
  <1>2. 1 \in 1..(Len(parts) + 1)
    BY LenProperties
  <1>3. rest[1] \in Texts
    BY <1>1, <1>2 DEF RestOf
  <1>4. <<open>> \in Texts /\ <<open>> # <<>> /\ <<open>>[1] = open
    BY ShortTexts
  <1> QED BY <1>1, <1>3, <1>4, ThenFirst

LEMMA QuotedInTexts ==
    ASSUME NEW chars \in Seq(Char), NEW sdk, NEW html
    PROVE  /\ Quoted(sdk, html, chars) \in Texts
           /\ Quoted(sdk, html, chars) # <<>>
           /\ Quoted(sdk, html, chars)[1] = Quote
  <1>1. Quote \in Char /\ <<>> \in Texts
    BY SignsAreChars DEF Signs, Quote
  <1>2. Escapes(sdk, html, chars) \in Seq(Texts)
    BY EscapesIn
  <1>3. Enclosed(Quote, Escapes(sdk, html, chars), <<>>, Quote) \in Texts
    BY <1>1, <1>2, EnclosedInTexts
  <1>4. /\ Enclosed(Quote, Escapes(sdk, html, chars), <<>>, Quote) # <<>>
        /\ Enclosed(Quote, Escapes(sdk, html, chars), <<>>, Quote)[1] = Quote
    BY <1>1, <1>2, EnclosedStarts
  <1> QED BY <1>3, <1>4, QuotedIs

LEMMA KeySpelling ==
    ASSUME NEW k \in Key
    PROVE  Spelling[k] \in Seq(Char) /\ \A n \in DOMAIN Spelling[k] : Spelling[k][n] # "\\u"
  BY SpellingAssumption

\* An entry is its key, a colon and the text of its value.
LEMMA MemberInTexts ==
    ASSUME NEW sdk, NEW html, NEW k \in Key, NEW text \in Texts
    PROVE  /\ Colon \in Texts
           /\ Quoted(sdk, html, Spelling[k]) \in Texts
           /\ Member(sdk, html, k, text) =
                 Then(Quoted(sdk, html, Spelling[k]), Then(Colon, text))
           /\ Member(sdk, html, k, text) \in Texts
           /\ Member(sdk, html, k, text) # <<>>
           /\ Member(sdk, html, k, text)[1] = Quote
  <1> DEFINE q == Quoted(sdk, html, Spelling[k])
             m == Member(sdk, html, k, text)
  <1>1. ":" \in Char
    BY SignsAreChars DEF Signs
  <1>2. Colon \in Texts
    BY <1>1, ShortTexts DEF Colon
  <1>3. q \in Texts /\ q # <<>> /\ q[1] = Quote
    BY KeySpelling, QuotedInTexts
  <1>4. m = Then(Then(q, Colon), text)
    BY DEF Member, Then, Colon
  <1> HIDE DEF q, m
  <1>5. m = Then(q, Then(Colon, text))
    BY <1>2, <1>3, <1>4, ThenRegroups
  <1>6. Then(Colon, text) \in Texts
    BY <1>2, ThenInTexts
  <1>7. m \in Texts
    BY <1>3, <1>5, <1>6, ThenInTexts
  <1>8. m # <<>> /\ m[1] = Quote
    BY <1>3, <1>5, <1>6, ThenFirst
  <1> QED BY <1>2, <1>3, <1>5, <1>7, <1>8 DEF q, m

\* The parts of a value are texts, when its components have texts.
HasTexts(texts, v) == \A w \in Components(v) : texts[w] \in Writings

LEMMA ListPartsIn ==
    ASSUME NEW v \in Node, v.form = "list", NEW sdk \in Sdk, NEW html \in BOOLEAN,
           NEW texts, HasTexts(texts, v)
    PROVE  /\ ListParts(texts, sdk, html, v) \in Seq(Texts)
           /\ Len(ListParts(texts, sdk, html, v)) = Len(v.values)
           /\ \A n \in 1..Len(v.values) :
                 /\ v.values[n] \in Components(v)
                 /\ ListParts(texts, sdk, html, v)[n] = texts[v.values[n]][<<sdk, html>>]
  <1> DEFINE N == Len(v.values)
             parts == ListParts(texts, sdk, html, v)
  <1>1. N \in Nat /\ DOMAIN v.values = 1..N /\ \A n \in 1..N : v.values[n] \in Components(v)
    BY NodeShape
  <1>2. parts = [n \in 1..N |-> texts[v.values[n]][<<sdk, html>>]]
    BY <1>1 DEF ListParts
  <1>3. <<sdk, html>> \in Way
    BY DEF Way
  <1>4. \A n \in 1..N : texts[v.values[n]][<<sdk, html>>] \in Texts
    BY <1>1, <1>3 DEF HasTexts, Writings
  <1> HIDE DEF N, parts
  <1>5. parts \in [1..N -> Texts]
    BY <1>2, <1>4
  <1>6. parts \in Seq(Texts) /\ Len(parts) = N
    BY <1>1, <1>5
  <1>7. \A n \in 1..N : parts[n] = texts[v.values[n]][<<sdk, html>>]
    BY <1>2
  <1> QED BY <1>1, <1>6, <1>7 DEF N, parts

LEMMA ObjectPartsIn ==
    ASSUME NEW v \in Node, WellFormed(v), v.form \in ObjectForms,
           NEW sdk \in Sdk, NEW html \in BOOLEAN, NEW texts, HasTexts(texts, v)
    PROVE  LET es == Ordered(sdk, v)
               parts == ObjectParts(texts, sdk, html, v)
           IN  /\ parts \in Seq(Texts)
               /\ Len(parts) = Len(es)
               /\ \A n \in 1..Len(es) :
                     /\ es[n][1] \in Key /\ es[n][2] \in Components(v)
                     /\ texts[es[n][2]][<<sdk, InnerHtml(html, v)>>] \in Texts
                     /\ parts[n] = Member(sdk, InnerHtml(html, v), es[n][1],
                                          texts[es[n][2]][<<sdk, InnerHtml(html, v)>>])
  <1> DEFINE es == Ordered(sdk, v)
             N == Len(es)
             parts == ObjectParts(texts, sdk, html, v)
             inner == InnerHtml(html, v)
             way == <<sdk, inner>>
  <1>1. IsObject(v)
    BY ObjectIs
  <1>2. /\ es \in Seq(Key \X Value)
        /\ N = Len(v.entries)
        /\ EntriesOf(v) = {es[n] : n \in 1..N}
    BY <1>1, OrderedIs
  <1>3. Components(v) = {v.entries[n][2] : n \in DOMAIN v.entries}
    BY NodeShape
  <1>4. way \in Way
    BY DEF Way, InnerHtml
  <1>5. parts = [n \in DOMAIN es |-> Member(sdk, inner, es[n][1], texts[es[n][2]][way])]
    BY DEF ObjectParts
  <1> HIDE DEF es, way, inner
  <1>6. N \in Nat /\ DOMAIN es = 1..N /\ \A n \in 1..N : es[n][1] \in Key
    BY <1>2
  <1> HIDE DEF parts, N
  <1>7. ASSUME NEW n \in 1..N PROVE es[n][2] \in Components(v)
    <2>1. es[n] \in EntriesOf(v)
      BY <1>2
    <2>2. PICK m \in DOMAIN v.entries : es[n] = v.entries[m]
      BY <2>1 DEF EntriesOf
    <2> QED BY <1>3, <2>2
  <1>8. \A n \in 1..N : texts[es[n][2]][way] \in Texts
    BY <1>4, <1>7 DEF HasTexts, Writings
  <1>9. \A n \in 1..N : Member(sdk, inner, es[n][1], texts[es[n][2]][way]) \in Texts
    BY <1>6, <1>8, MemberInTexts
  <1>10. parts \in [1..N -> Texts]
    BY <1>5, <1>6, <1>9
  <1>11. parts \in Seq(Texts) /\ Len(parts) = N
    BY <1>6, <1>10
  <1>12. \A n \in 1..N : parts[n] = Member(sdk, inner, es[n][1], texts[es[n][2]][way])
    BY <1>5, <1>6
  <1> QED BY <1>6, <1>7, <1>8, <1>11, <1>12 DEF N, parts, es, way, inner

LEMMA EncodeInTexts ==
    ASSUME NEW v \in Node, WellFormed(v), NEW sdk \in Sdk, NEW html \in BOOLEAN,
           NEW texts, HasTexts(texts, v)
    PROVE  Encode(texts, sdk, html, v) \in Texts
  <1>1. \A c \in Signs : c \in Char
    BY SignsAreChars
  <1>2. /\ "[" \in Char /\ "]" \in Char /\ "{" \in Char /\ "}" \in Char
        /\ <<",">> \in Texts
    BY <1>1, SignsAreChars DEF Signs
  <1>3. CASE v.form = "text"
    <2>1. v.chars \in Seq(Char)
      BY <1>3, NodeShape
    <2> QED BY <1>3, <2>1, QuotedInTexts, EncodeText
  <1>4. CASE v.form = "atom"
    <2>1. <<v.atom>> \in Texts
      BY <1>4, NodeShape, ShortTexts
    <2> QED BY <1>4, <2>1, EncodeAtom
  <1>5. CASE v.form = "list"
    <2>1. ListParts(texts, sdk, html, v) \in Seq(Texts)
      BY <1>5, ListPartsIn
    <2>2. Enclosed("[", ListParts(texts, sdk, html, v), <<",">>, "]") \in Texts
      BY <1>2, <2>1, EnclosedInTexts
    <2> QED BY <1>5, <2>2, EncodeList
  <1>6. CASE v.form \in ObjectForms
    <2>1. ObjectParts(texts, sdk, html, v) \in Seq(Texts)
      BY <1>6, ObjectPartsIn
    <2>2. Enclosed("{", ObjectParts(texts, sdk, html, v), <<",">>, "}") \in Texts
      BY <1>2, <2>1, EnclosedInTexts
    <2> QED BY <1>6, <2>2, EncodeObject
  <1> QED BY <1>3, <1>4, <1>5, <1>6, NodeShape

\* A text depends on those of the components only.
LEMMA EncodeLooksDown ==
    ASSUME NEW v \in Node, WellFormed(v), NEW sdk \in Sdk, NEW html, NEW f, NEW g,
           \A w \in Components(v) : f[w] = g[w]
    PROVE  Encode(f, sdk, html, v) = Encode(g, sdk, html, v)
  <1>1. CASE v.form = "text"
    BY <1>1, EncodeText
  <1>4. CASE v.form = "atom"
    BY <1>4, EncodeAtom
  <1>2. CASE v.form = "list"
    <2>1. \A n \in DOMAIN v.values : v.values[n] \in Components(v)
      BY <1>2, NodeShape
    <2>2. ListParts(f, sdk, html, v) = ListParts(g, sdk, html, v)
      BY <2>1 DEF ListParts
    <2> QED BY <1>2, <2>2, EncodeList
  <1>3. CASE v.form \in ObjectForms
    <2> DEFINE es == Ordered(sdk, v)
    <2>1. IsObject(v) /\ Components(v) = {v.entries[n][2] : n \in DOMAIN v.entries}
      BY <1>3, ObjectIs, NodeShape
    <2>2. /\ DOMAIN es = 1..Len(v.entries)
          /\ EntriesOf(v) = {es[n] : n \in 1..Len(v.entries)}
      BY <2>1, OrderedIs, LenProperties
    <2> HIDE DEF es
    <2>3. ASSUME NEW n \in DOMAIN es PROVE es[n][2] \in Components(v)
      <3>1. es[n] \in EntriesOf(v)
        BY <2>2
      <3>2. PICK m \in DOMAIN v.entries : es[n] = v.entries[m]
        BY <3>1 DEF EntriesOf
      <3> QED BY <2>1, <3>2
    <2>4. ObjectParts(f, sdk, html, v) = ObjectParts(g, sdk, html, v)
      BY <2>3 DEF ObjectParts, es
    <2> QED BY <1>3, <2>4, EncodeObject
  <1> QED BY <1>1, <1>2, <1>3, <1>4, NodeShape

-----------------------------------------------------------------------------
(* The functions that are recursive on values *)

LEMMA ValueIs ==
    ASSUME NEW v \in Value
    PROVE  /\ v \in Node /\ WellFormed(v) /\ Components(v) \subseteq Value
           /\ \A w \in Components(v) : Depth[w] < Depth[v]
  BY ValueAssumption, ComponentsAreValues

LEMMA TextsOfIs ==
    \A v \in Value :
        /\ TextsOf[v] \in Writings
        /\ TextsOf[v] = [x \in Way |-> Encode(TextsOf, x[1], x[2], v)]
  <1> DEFINE Written(g, v) == [x \in Way |-> Encode(g, x[1], x[2], v)]
             P(g) == g = [v \in Value |-> Written(g, v)]
             step == [y \in Value \X [Value -> Writings] |-> Written(y[2], y[1])]
  <1>1. Depth \in [Value -> Nat]
    BY ValueAssumption
  <1>2. ASSUME NEW v \in Value, NEW g \in [Value -> Writings] PROVE Written(g, v) \in Writings
    <2>1. v \in Node /\ WellFormed(v) /\ HasTexts(g, v)
      BY ValueIs DEF HasTexts
    <2>2. ASSUME NEW x \in Way PROVE Encode(g, x[1], x[2], v) \in Texts
      <3>1. x[1] \in Sdk /\ x[2] \in BOOLEAN
        BY DEF Way
      <3> QED BY <2>1, <3>1, EncodeInTexts
    <2> QED BY <2>2 DEF Writings
  <1>3. ASSUME NEW v \in Value, NEW f, NEW g, \A w \in Components(v) : f[w] = g[w]
        PROVE  Written(f, v) = Written(g, v)
    <2>1. ASSUME NEW x \in Way PROVE Encode(f, x[1], x[2], v) = Encode(g, x[1], x[2], v)
      <3>1. x[1] \in Sdk
        BY DEF Way
      <3> QED BY <1>3, <3>1, ValueIs, EncodeLooksDown
    <2> QED BY <2>1
  <1>4. \A v \in Value, g \in [Value -> Writings] : step[<<v, g>>] = Written(g, v)
    OBVIOUS
  <1>5. step \in [Value \X [Value -> Writings] -> Writings]
    BY <1>2
  <1> HIDE DEF Written, step
  <1>6. LooksDown(Value, Writings, Depth, step)
    BY <1>3, <1>4, ValueIs DEF LooksDown
  <1>7. Writings # {}
    <2>1. [x \in Way |-> <<>>] \in Writings
      BY ShortTexts DEF Writings
    <2> QED BY <2>1
  <1>8. Solvable(Value, Writings, step)
    BY <1>1, <1>5, <1>6, <1>7, RecursionTheorem
  <1>9. PICK f \in [Value -> Writings] : \A v \in Value : f[v] = Written(f, v)
    BY <1>4, <1>8 DEF Solvable
  <1>10. \E g : P(g)
    <2>1. f = [v \in Value |-> Written(f, v)]
      BY <1>9
    <2> QED BY <2>1
  <1>11. TextsOf = CHOOSE g : P(g)
    BY DEF TextsOf, Written, Way
  <1>12. P(TextsOf)
    <2> HIDE DEF P
    <2> QED BY <1>10, <1>11, Zenon
  <1>13. \A v \in Value : TextsOf[v] = Written(TextsOf, v)
    <2> DEFINE t == TextsOf
    <2>1. t = [v \in Value |-> Written(t, v)]
      BY <1>12
    <2> HIDE DEF t
    <2>2. \A v \in Value : t[v] = Written(t, v)
      BY <2>1
    <2> QED BY <2>2 DEF t
  <1> DEFINE Good == {v \in Value : TextsOf[v] = f[v]}
  <1>14. ASSUME NEW v \in Value, \A w \in Value : Depth[w] < Depth[v] => w \in Good
         PROVE  v \in Good
    <2>1. \A w \in Components(v) : TextsOf[w] = f[w]
      BY <1>14, ValueIs
    <2>2. Written(TextsOf, v) = Written(f, v)
      BY <1>3, <2>1
    <2> QED BY <1>9, <1>13, <2>2
  <1> HIDE DEF Good
  <1>15. \A v \in Value : v \in Good
    BY <1>1, <1>14, RankInduction
  <1>16. \A v \in Value : TextsOf[v] \in Writings
    BY <1>9, <1>15 DEF Good
  <1> QED BY <1>13, <1>16 DEF Written

LEMMA PartsOfIs ==
    \A v \in Value : PartsOf[v] = Parts(v)
  <1> DEFINE Within(g, v) == {v} \cup UNION {g[w] : w \in Components(v)}
             P(g) == g = [v \in Value |-> Within(g, v)]
             step == [y \in Value \X [Value -> SUBSET Value] |-> Within(y[2], y[1])]
  <1>1. Depth \in [Value -> Nat]
    BY ValueAssumption
  <1>2. ASSUME NEW v \in Value, NEW g \in [Value -> SUBSET Value]
        PROVE  Within(g, v) \in SUBSET Value
    BY ValueIs
  <1>3. ASSUME NEW v \in Value, NEW f, NEW g, \A w \in Components(v) : f[w] = g[w]
        PROVE  Within(f, v) = Within(g, v)
    <2>1. {f[w] : w \in Components(v)} = {g[w] : w \in Components(v)}
      BY <1>3
    <2> QED BY <2>1
  <1>4. \A v \in Value, g \in [Value -> SUBSET Value] : step[<<v, g>>] = Within(g, v)
    OBVIOUS
  <1>5. step \in [Value \X [Value -> SUBSET Value] -> SUBSET Value]
    BY <1>2
  <1> HIDE DEF Within, step
  <1> DEFINE T == SUBSET Value
  <1>6. LooksDown(Value, T, Depth, step)
    BY <1>3, <1>4, ValueIs DEF LooksDown
  <1>7. T # {}
    OBVIOUS
  <1> HIDE DEF T
  <1>8. Solvable(Value, T, step)
    <2>1. step \in [Value \X [Value -> T] -> T]
      BY <1>5 DEF T
    <2> QED BY <1>1, <1>6, <1>7, <2>1, RecursionTheorem
  <1>9. PICK f \in [Value -> T] : \A v \in Value : f[v] = Within(f, v)
    BY <1>4, <1>8 DEF Solvable, T
  <1>10. \E g : P(g)
    <2>1. f = [v \in Value |-> Within(f, v)]
      BY <1>9
    <2> QED BY <2>1
  <1>11. PartsOf = CHOOSE g : P(g)
    BY DEF PartsOf, Within
  <1>12. P(PartsOf)
    <2> HIDE DEF P
    <2> QED BY <1>10, <1>11, Zenon
  <1>13. ASSUME NEW v \in Value PROVE PartsOf[v] = Within(PartsOf, v)
    <2> DEFINE t == PartsOf
    <2>1. t = [u \in Value |-> Within(t, u)]
      BY <1>12
    <2> HIDE DEF t
    <2>2. t[v] = Within(t, v)
      BY <2>1
    <2> QED BY <2>2 DEF t
  <1> QED BY <1>13 DEF Within, Parts

LEMMA AlikeLooksDown ==
    ASSUME NEW v \in Node, NEW w, NEW f, NEW g, \A c \in Components(v) : f[c] = g[c]
    PROVE  Alike(f, v, w) <=> Alike(g, v, w)
  <1>1. CASE v.form = "list"
    <2>1. \A n \in DOMAIN v.values : f[v.values[n]] = g[v.values[n]]
      BY <1>1, NodeShape
    <2> QED BY <1>1, <2>1 DEF Alike, ObjectForms
  <1>2. CASE v.form \in ObjectForms
    <2>1. \A d \in EntriesOf(v) : f[d[2]] = g[d[2]]
      BY <1>2, NodeShape DEF EntriesOf
    <2> QED BY <1>2, <2>1 DEF Alike, ObjectForms
  <1>3. CASE v.form \in {"text", "atom"}
    BY <1>3 DEF Alike, ObjectForms
  <1> QED BY <1>1, <1>2, <1>3, NodeShape

LEMMA SameAsIs ==
    \A v \in Value : SameAs[v] = {w \in Value : SaysTheSame(v, w)}
  <1> DEFINE Same(g, v) == {w \in Value : Alike(g, v, w)}
             P(g) == g = [v \in Value |-> Same(g, v)]
             step == [y \in Value \X [Value -> SUBSET Value] |-> Same(y[2], y[1])]
  <1>1. Depth \in [Value -> Nat]
    BY ValueAssumption
  <1>3. ASSUME NEW v \in Value, NEW f, NEW g, \A w \in Components(v) : f[w] = g[w]
        PROVE  Same(f, v) = Same(g, v)
    <2>1. \A w : Alike(f, v, w) <=> Alike(g, v, w)
      BY <1>3, ValueIs, AlikeLooksDown
    <2> QED BY <2>1
  <1>4. \A v \in Value, g \in [Value -> SUBSET Value] : step[<<v, g>>] = Same(g, v)
    OBVIOUS
  <1>5. step \in [Value \X [Value -> SUBSET Value] -> SUBSET Value]
    OBVIOUS
  <1> HIDE DEF Same, step
  <1> DEFINE T == SUBSET Value
  <1>6. LooksDown(Value, T, Depth, step)
    BY <1>3, <1>4, ValueIs DEF LooksDown
  <1>7. T # {}
    OBVIOUS
  <1> HIDE DEF T
  <1>8. Solvable(Value, T, step)
    <2>1. step \in [Value \X [Value -> T] -> T]
      BY <1>5 DEF T
    <2> QED BY <1>1, <1>6, <1>7, <2>1, RecursionTheorem
  <1>9. PICK f \in [Value -> T] : \A v \in Value : f[v] = Same(f, v)
    BY <1>4, <1>8 DEF Solvable, T
  <1>10. \E g : P(g)
    <2>1. f = [v \in Value |-> Same(f, v)]
      BY <1>9
    <2> QED BY <2>1
  <1>11. SameAs = CHOOSE g : P(g)
    BY DEF SameAs, Same
  <1>12. P(SameAs)
    <2> HIDE DEF P
    <2> QED BY <1>10, <1>11, Zenon
  <1>13. ASSUME NEW v \in Value PROVE SameAs[v] = Same(SameAs, v)
    <2> DEFINE t == SameAs
    <2>1. t = [u \in Value |-> Same(t, u)]
      BY <1>12
    <2> HIDE DEF t
    <2>2. t[v] = Same(t, v)
      BY <2>1
    <2> QED BY <2>2 DEF t
  <1> QED BY <1>13 DEF Same, SaysTheSame

-----------------------------------------------------------------------------
(* Escapes *)

\* What stands for a character ends in it, and its first sign tells its length.
Width(first) == IF first \in {"\\", "\\u"} THEN 2 ELSE 1
StandsFor(text, c) ==
    text # <<>> /\ text[1] # "\"" /\ text[Len(text)] = c /\ Len(text) = Width(text[1])

LEMMA EscapeStandsFor ==
    ASSUME NEW sdk \in Sdk, NEW html \in BOOLEAN, NEW c \in Char, c # "\\u"
    PROVE  StandsFor(Escape(sdk, html, c), c)
  <1> DEFINE w == Escape(sdk, html, c)
  <1>1. CASE c \in Escaped
    <2>1. w = <<"\\", c>>
      BY <1>1 DEF Escape
    <2> HIDE DEF w
    <2> QED BY <2>1 DEF w, StandsFor, Width
  <1>2. CASE c \notin Escaped /\ w = <<"\\u", c>>
    <2> HIDE DEF w
    <2> QED BY <1>2 DEF w, StandsFor, Width
  <1>3. CASE c \notin Escaped /\ w # <<"\\u", c>>
    <2>1. w = <<c>> /\ c \notin {"\"", "\\", "\\u"}
      BY <1>3 DEF Escape, Escaped
    <2> HIDE DEF w
    <2>2. Len(w) = 1 /\ w[1] = c
      BY <2>1
    <2>3. Width(c) = 1 /\ c # "\""
      BY <2>1 DEF Width
    <2>4. w # <<>> /\ w[Len(w)] = c
      BY <2>1, <2>2
    <2>5. StandsFor(w, c)
      BY <2>2, <2>3, <2>4 DEF StandsFor
    <2> QED BY <2>5 DEF w
  <1> QED BY <1>1, <1>2, <1>3

\* What an encoder writes for a character (contracts.go:83-90, JSON.stringify,
\* json.dumps) tells the character, whichever SDK wrote it and whether or not it
\* escapes HTML there.  It never starts with a bare quote, so no value reads like
\* the end of its entry, and its first sign tells its length, so a text falls into
\* its characters in one way.
THEOREM EscapedCharactersAreTold ==
    ASSUME NEW s \in Sdk, NEW r \in Sdk, NEW g \in BOOLEAN, NEW h \in BOOLEAN,
           NEW c \in Char, NEW d \in Char, c # "\\u", d # "\\u"
    PROVE  /\ Escape(s, g, c)[1] # "\""
           /\ Escape(s, g, c) = Escape(r, h, d) => c = d
           /\ Escape(s, g, c)[1] = Escape(r, h, d)[1] =>
                 Len(Escape(s, g, c)) = Len(Escape(r, h, d))
  <1> DEFINE e == Escape(s, g, c)
             f == Escape(r, h, d)
  <1>1. StandsFor(e, c) /\ StandsFor(f, d)
    BY EscapeStandsFor
  <1> HIDE DEF e, f
  <1>2. e[1] # "\""
    BY <1>1 DEF StandsFor
  <1>3. e = f => c = d
    BY <1>1 DEF StandsFor
  <1>4. e[1] = f[1] => Len(e) = Len(f)
    BY <1>1 DEF StandsFor
  <1> QED BY <1>2, <1>3, <1>4 DEF e, f

LEMMA EscapeStarts ==
    ASSUME NEW s \in Sdk, NEW g \in BOOLEAN, NEW c \in Char, c # "\\u"
    PROVE  Escape(s, g, c) # <<>> /\ Escape(s, g, c)[1] # Quote
  BY EscapeStandsFor DEF StandsFor, Quote

-----------------------------------------------------------------------------
(* One document per text *)

LEMMA SamePrefix ==
    ASSUME NEW x \in Texts, NEW y \in Texts, NEW u \in Texts, NEW w \in Texts,
           Then(x, u) = Then(y, w), Len(x) = Len(y)
    PROVE  x = y
  <1>1. ASSUME NEW n \in 1..Len(x) PROVE x[n] = y[n]
    <2>1. (x \o u)[n] = x[n]
      BY ConcatProperties, LenProperties DEF Texts
    <2>2. (y \o w)[n] = y[n]
      BY ConcatProperties, LenProperties DEF Texts
    <2> QED BY <2>1, <2>2 DEF Then
  <1> QED BY <1>1, SeqEqual DEF Texts

\* The first sign of a text tells the form of its value, and no value starts like
\* the end of what holds it.
Starts(v, text) ==
    /\ text \in Texts /\ text # <<>>
    /\ v.form = "text" => text[1] = Quote
    /\ v.form = "atom" => text[1] = v.atom /\ v.atom \notin Signs
    /\ v.form = "list" => text[1] = "["
    /\ v.form \in ObjectForms => text[1] = "{"
    /\ text[1] # "]" /\ text[1] # "}"

LEMMA FirstSign ==
    ASSUME NEW v \in Node, WellFormed(v), NEW sdk \in Sdk, NEW html \in BOOLEAN,
           NEW texts, HasTexts(texts, v)
    PROVE  Starts(v, Encode(texts, sdk, html, v))
  <1> DEFINE text == Encode(texts, sdk, html, v)
  <1>1. /\ "[" \in Char /\ "]" \in Char /\ "{" \in Char /\ "}" \in Char
        /\ <<",">> \in Texts
    BY SignsAreChars DEF Signs
  <1>3. text \in Texts
    BY EncodeInTexts
  <1>4. CASE v.form = "text"
    <2>1. v.chars \in Seq(Char)
      BY <1>4, NodeShape
    <2>2. text # <<>> /\ text[1] = Quote
      BY <1>4, <2>1, EncodeText, QuotedInTexts
    <2> QED BY <1>3, <1>4, <2>2 DEF Starts, Quote, ObjectForms
  <1>5. CASE v.form = "atom"
    <2>1. text = <<v.atom>>
      BY <1>5, EncodeAtom
    <2>2. text # <<>> /\ text[1] = v.atom
      BY <2>1
    <2>3. v.atom \notin Signs
      BY <1>5 DEF WellFormed
    <2> QED BY <1>3, <1>5, <2>2, <2>3 DEF Starts, Signs, ObjectForms
  <1>6. CASE v.form = "list"
    <2>1. ListParts(texts, sdk, html, v) \in Seq(Texts)
      BY <1>6, ListPartsIn
    <2>2. text = Enclosed("[", ListParts(texts, sdk, html, v), <<",">>, "]")
      BY <1>6, EncodeList
    <2>3. text # <<>> /\ text[1] = "["
      <3> DEFINE open == "["
                 close == "]"
                 separator == <<",">>
                 parts == ListParts(texts, sdk, html, v)
      <3>1. /\ open \in Char /\ close \in Char /\ separator \in Texts /\ parts \in Seq(Texts)
            /\ text = Enclosed(open, parts, separator, close)
        BY <1>1, <2>1, <2>2
      <3> HIDE DEF open, close, separator, parts, text
      <3>2. text # <<>> /\ text[1] = open
        BY <3>1, EnclosedStarts
      <3> QED BY <3>2 DEF open
    <2> QED BY <1>3, <1>6, <2>3 DEF Starts, ObjectForms
  <1>7. CASE v.form \in ObjectForms
    <2>1. ObjectParts(texts, sdk, html, v) \in Seq(Texts)
      BY <1>7, ObjectPartsIn
    <2>2. text = Enclosed("{", ObjectParts(texts, sdk, html, v), <<",">>, "}")
      BY <1>7, EncodeObject
    <2>3. text # <<>> /\ text[1] = "{"
      <3> DEFINE open == "{"
                 close == "}"
                 separator == <<",">>
                 parts == ObjectParts(texts, sdk, html, v)
      <3>1. /\ open \in Char /\ close \in Char /\ separator \in Texts /\ parts \in Seq(Texts)
            /\ text = Enclosed(open, parts, separator, close)
        BY <1>1, <2>1, <2>2
      <3> HIDE DEF open, close, separator, parts, text
      <3>2. text # <<>> /\ text[1] = open
        BY <3>1, EnclosedStarts
      <3> QED BY <3>2 DEF open
    <2> QED BY <1>3, <1>7, <2>3 DEF Starts, ObjectForms
  <1> QED BY <1>4, <1>5, <1>6, <1>7, NodeShape

\* The values whose texts are told from those of any other, whatever follows.
Tells(v, w, i, j) ==
    \A x, y \in Texts :
        Then(TextsOf[v][i], x) = Then(TextsOf[w][j], y) =>
            TextsOf[v][i] = TextsOf[w][j] /\ SaysTheSame(v, w)
Telling == {v \in Value : \A w \in Value, i, j \in Way : Tells(v, w, i, j)}

LEMMA TextsOfNode ==
    ASSUME NEW v \in Node
    PROVE  /\ HasTexts(TextsOf, v)
           /\ \A w \in Components(v) : w \in Value /\ \A i \in Way : TextsOf[w][i] \in Texts
  BY ComponentsAreValues, TextsOfIs DEF HasTexts, Writings

LEMMA TextOfValue ==
    ASSUME NEW v \in Value, NEW sdk \in Sdk, NEW html \in BOOLEAN
    PROVE  TextsOf[v][<<sdk, html>>] = Encode(TextsOf, sdk, html, v)
  <1> DEFINE i == <<sdk, html>>
  <1>1. i \in Way /\ i[1] = sdk /\ i[2] = html
    BY DEF Way
  <1> HIDE DEF i
  <1>2. TextsOf[v][i] = Encode(TextsOf, i[1], i[2], v)
    BY <1>1, TextsOfIs
  <1>3. TextsOf[v][i] = Encode(TextsOf, sdk, html, v)
    BY <1>1, <1>2
  <1> QED BY <1>3 DEF i

LEMMA ValueText ==
    ASSUME NEW v \in Value, NEW i \in Way
    PROVE  /\ TextsOf[v][i] \in Texts /\ TextsOf[v][i] # <<>>
           /\ TextsOf[v][i][1] # "]" /\ TextsOf[v][i][1] # "}"
  <1>1. PICK sdk \in Sdk, html \in BOOLEAN : i = <<sdk, html>>
    BY DEF Way
  <1>2. TextsOf[v][i] = Encode(TextsOf, sdk, html, v)
    BY <1>1, TextOfValue
  <1>3. v \in Node /\ WellFormed(v) /\ HasTexts(TextsOf, v)
    BY ValueIs, TextsOfNode
  <1> QED BY <1>2, <1>3, FirstSign, ZenonT(40) DEF Starts

\* A quoted text is told from any other, whatever follows.
LEMMA QuotedTold ==
    ASSUME NEW v \in Seq(Char), \A n \in DOMAIN v : v[n] # "\\u",
           NEW w \in Seq(Char), \A n \in DOMAIN w : w[n] # "\\u",
           NEW s \in Sdk, NEW g \in BOOLEAN, NEW r \in Sdk, NEW h \in BOOLEAN,
           NEW x \in Texts, NEW y \in Texts,
           Then(Quoted(s, g, v), x) = Then(Quoted(r, h, w), y)
    PROVE  Quoted(s, g, v) = Quoted(r, h, w) /\ v = w
  <1> DEFINE p == Escapes(s, g, v)
             q == Escapes(r, h, w)
  <1>1. /\ p \in Seq(Texts) /\ Len(p) = Len(v)
        /\ \A n \in 1..Len(p) : v[n] \in Char /\ p[n] = Escape(s, g, v[n])
    BY EscapesIn
  <1>2. /\ q \in Seq(Texts) /\ Len(q) = Len(w)
        /\ \A n \in 1..Len(q) : w[n] \in Char /\ q[n] = Escape(r, h, w[n])
    BY EscapesIn
  <1>3. /\ \A n \in 1..Len(p) : v[n] # "\\u"
        /\ \A n \in 1..Len(q) : w[n] # "\\u"
    BY <1>1, <1>2, LenProperties
  <1>4. /\ Quoted(s, g, v) = Enclosed(Quote, p, <<>>, Quote)
        /\ Quoted(r, h, w) = Enclosed(Quote, q, <<>>, Quote)
    BY QuotedIs
  <1> HIDE DEF p, q
  <1>5. Open(p, Quote) /\ Open(q, Quote)
    BY <1>1, <1>2, <1>3, EscapeStarts DEF Open
  <1>6. ASSUME NEW n \in 1..Len(p), n <= Len(q), NEW a \in Texts, NEW b \in Texts,
               Then(p[n], a) = Then(q[n], b)
        PROVE  p[n] = q[n] /\ v[n] = w[n]
    <2>1. n \in 1..Len(q)
      BY <1>2, <1>6, LenProperties
    <2> DEFINE c == v[n]
               d == w[n]
    <2>2. c \in Char /\ d \in Char /\ c # "\\u" /\ d # "\\u"
      BY <1>1, <1>2, <1>3, <2>1
    <2>3. StandsFor(p[n], c) /\ StandsFor(q[n], d)
      BY <1>1, <1>2, <2>1, <2>2, EscapeStandsFor
    <2>4. p[n] \in Texts /\ q[n] \in Texts /\ p[n] # <<>> /\ q[n] # <<>>
      BY <1>1, <1>2, <1>5, <2>1, ElementOfSeq DEF Open
    <2> HIDE DEF c, d
    <2>5. p[n][1] = q[n][1]
      BY <1>6, <2>4, ThenFirst
    <2>6. Len(p[n]) = Len(q[n])
      BY <2>3, <2>5 DEF StandsFor
    <2>7. p[n] = q[n]
      BY <1>6, <2>4, <2>6, SamePrefix
    <2>8. c = d
      BY <2>3, <2>7 DEF StandsFor
    <2> QED BY <2>7, <2>8 DEF c, d
  <1>7. Told(p, q)
    BY <1>6 DEF Told
  <1>8. p = q
    <2>1. Quote \in Char /\ <<>> \in Texts
      BY SignsAreChars DEF Signs, Quote
    <2>2. Then(Enclosed(Quote, p, <<>>, Quote), x) = Then(Enclosed(Quote, q, <<>>, Quote), y)
      BY <1>4
    <2> QED BY <1>1, <1>2, <1>5, <1>7, <2>1, <2>2, EnclosedTold
  <1>9. \A n \in 1..Len(p) : v[n] = w[n]
    <2> TAKE n \in 1..Len(p)
    <2>1. n <= Len(q) /\ <<>> \in Texts
      BY <1>1, <1>8, LenProperties, ShortTexts
    <2>2. Then(p[n], <<>>) = Then(q[n], <<>>)
      BY <1>8
    <2> QED BY <1>6, <2>1, <2>2
  <1>10. v = w
    BY <1>1, <1>2, <1>8, <1>9, SeqEqual
  <1> QED BY <1>4, <1>8, <1>10

LEMMA TextTold ==
    ASSUME NEW v \in Node, WellFormed(v), v.form = "text",
           NEW w \in Node, WellFormed(w), w.form = "text",
           NEW s \in Sdk, NEW g \in BOOLEAN, NEW r \in Sdk, NEW h \in BOOLEAN,
           NEW x \in Texts, NEW y \in Texts,
           Then(Encode(TextsOf, s, g, v), x) = Then(Encode(TextsOf, r, h, w), y)
    PROVE  Encode(TextsOf, s, g, v) = Encode(TextsOf, r, h, w) /\ SaysTheSame(v, w)
  <1>1. /\ v.chars \in Seq(Char) /\ \A n \in DOMAIN v.chars : v.chars[n] # "\\u"
        /\ w.chars \in Seq(Char) /\ \A n \in DOMAIN w.chars : w.chars[n] # "\\u"
    BY NodeShape DEF WellFormed
  <1>2. /\ Encode(TextsOf, s, g, v) = Quoted(s, g, v.chars)
        /\ Encode(TextsOf, r, h, w) = Quoted(r, h, w.chars)
    BY EncodeText
  <1>3. Quoted(s, g, v.chars) = Quoted(r, h, w.chars) /\ v.chars = w.chars
    BY <1>1, <1>2, QuotedTold
  <1> QED BY <1>2, <1>3 DEF SaysTheSame, Alike

\* So is an entry told by its key; what is left starts with its value.
EntriesTold(s, g, r, h) ==
    \A k, l \in Key, t, u, a, b \in Texts :
        Then(Member(s, g, k, t), a) = Then(Member(r, h, l, u), b) =>
            /\ k = l /\ Quoted(s, g, Spelling[k]) = Quoted(r, h, Spelling[l])
            /\ Then(t, a) = Then(u, b)

LEMMA MemberTold ==
    ASSUME NEW s \in Sdk, NEW g \in BOOLEAN, NEW r \in Sdk, NEW h \in BOOLEAN
    PROVE  EntriesTold(s, g, r, h)
  <1> SUFFICES ASSUME NEW k \in Key, NEW l \in Key, NEW t \in Texts, NEW u \in Texts,
                      NEW a \in Texts, NEW b \in Texts,
                      Then(Member(s, g, k, t), a) = Then(Member(r, h, l, u), b)
               PROVE  /\ k = l /\ Quoted(s, g, Spelling[k]) = Quoted(r, h, Spelling[l])
                      /\ Then(t, a) = Then(u, b)
    BY DEF EntriesTold
  <1> DEFINE p == Quoted(s, g, Spelling[k])
             q == Quoted(r, h, Spelling[l])
  <1>1. /\ Colon \in Texts /\ p \in Texts /\ q \in Texts
        /\ Member(s, g, k, t) = Then(p, Then(Colon, t))
        /\ Member(r, h, l, u) = Then(q, Then(Colon, u))
    BY MemberInTexts
  <1>2. ASSUME NEW c \in Texts, NEW d \in Texts, Then(p, c) = Then(q, d)
        PROVE  p = q /\ Spelling[k] = Spelling[l]
    BY <1>2, KeySpelling, QuotedTold
  <1> HIDE DEF p, q
  <1>3. Then(Colon, t) \in Texts /\ Then(Colon, u) \in Texts
    BY <1>1, ThenInTexts
  <1>4. Then(p, Then(Then(Colon, t), a)) = Then(q, Then(Then(Colon, u), b))
    BY <1>1, <1>3, ThenRegroups
  <1>5. Then(Then(Colon, t), a) \in Texts /\ Then(Then(Colon, u), b) \in Texts
    BY <1>3, ThenInTexts
  <1>6. p = q /\ Spelling[k] = Spelling[l]
    BY <1>2, <1>4, <1>5
  <1>7. k = l
    BY <1>6, SpellingAssumption
  <1>8. Then(Then(Colon, t), a) = Then(Then(Colon, u), b)
    BY <1>1, <1>4, <1>5, <1>6, ThenCancels
  <1>9. Then(t, a) = Then(u, b)
    BY <1>1, <1>8, CancelPrefix
  <1> QED BY <1>6, <1>7, <1>9 DEF p, q

LEMMA ListTold ==
    ASSUME NEW v \in Node, WellFormed(v), v.form = "list",
           NEW w \in Node, WellFormed(w), w.form = "list",
           NEW s \in Sdk, NEW g \in BOOLEAN, NEW r \in Sdk, NEW h \in BOOLEAN,
           NEW x \in Texts, NEW y \in Texts, Components(v) \subseteq Telling,
           Then(Encode(TextsOf, s, g, v), x) = Then(Encode(TextsOf, r, h, w), y)
    PROVE  Encode(TextsOf, s, g, v) = Encode(TextsOf, r, h, w) /\ SaysTheSame(v, w)
  <1> DEFINE p == ListParts(TextsOf, s, g, v)
             q == ListParts(TextsOf, r, h, w)
             i == <<s, g>>
             j == <<r, h>>
  <1>1. /\ p \in Seq(Texts) /\ Len(p) = Len(v.values)
        /\ \A n \in 1..Len(p) : v.values[n] \in Components(v) /\ p[n] = TextsOf[v.values[n]][i]
    BY TextsOfNode, ListPartsIn
  <1>2. /\ q \in Seq(Texts) /\ Len(q) = Len(w.values)
        /\ \A n \in 1..Len(q) : w.values[n] \in Components(w) /\ q[n] = TextsOf[w.values[n]][j]
    BY TextsOfNode, ListPartsIn
  <1>3. /\ Encode(TextsOf, s, g, v) = Enclosed("[", p, <<",">>, "]")
        /\ Encode(TextsOf, r, h, w) = Enclosed("[", q, <<",">>, "]")
    BY EncodeList
  <1>4. i \in Way /\ j \in Way
    BY DEF Way
  <1> HIDE DEF p, q, i, j
  <1>5. /\ \A n \in 1..Len(p) : v.values[n] \in Value
        /\ \A n \in 1..Len(q) : w.values[n] \in Value
    BY <1>1, <1>2, TextsOfNode
  <1>6. Open(p, "]") /\ Open(q, "]")
    BY <1>1, <1>2, <1>4, <1>5, ValueText DEF Open
  <1>7. ASSUME NEW n \in 1..Len(p), n <= Len(q), NEW a \in Texts, NEW b \in Texts,
               Then(p[n], a) = Then(q[n], b)
        PROVE  p[n] = q[n] /\ SaysTheSame(v.values[n], w.values[n])
    <2>1. n \in 1..Len(q)
      BY <1>2, <1>7, LenProperties
    <2>2. Tells(v.values[n], w.values[n], i, j)
      BY <1>1, <1>4, <1>5, <2>1 DEF Telling
    <2>3. p[n] = TextsOf[v.values[n]][i] /\ q[n] = TextsOf[w.values[n]][j]
      BY <1>1, <1>2, <2>1
    <2> QED BY <1>7, <2>2, <2>3 DEF Tells
  <1>8. Told(p, q)
    BY <1>7 DEF Told
  <1>9. p = q
    <2> DEFINE open == "["
               close == "]"
               separator == <<",">>
    <2>1. open \in Char /\ close \in Char /\ separator \in Texts /\ separator[1] # close
      BY SignsAreChars DEF Signs
    <2>2. Then(Enclosed(open, p, separator, close), x) = Then(Enclosed(open, q, separator, close), y)
      BY <1>3
    <2>3. Open(p, close) /\ Open(q, close)
      BY <1>6
    <2> HIDE DEF open, close, separator
    <2> QED BY <1>1, <1>2, <1>8, <2>1, <2>2, <2>3, EnclosedTold
  <1>10. \A n \in 1..Len(p) : SaysTheSame(v.values[n], w.values[n])
    <2> TAKE n \in 1..Len(p)
    <2>1. n <= Len(q) /\ <<>> \in Texts
      BY <1>1, <1>9, LenProperties, ShortTexts
    <2>2. Then(p[n], <<>>) = Then(q[n], <<>>)
      BY <1>9
    <2> QED BY <1>7, <2>1, <2>2
  <1>11. \A n \in 1..Len(p) : w.values[n] \in SameAs[v.values[n]]
    BY <1>5, <1>9, <1>10, SameAsIs
  <1>12. Len(v.values) = Len(w.values) /\ DOMAIN v.values = 1..Len(p)
    BY <1>1, <1>2, <1>9, NodeShape, LenProperties
  <1>13. SaysTheSame(v, w)
    BY <1>11, <1>12 DEF SaysTheSame, Alike
  <1> QED BY <1>3, <1>9, <1>13

LEMMA ObjectTold ==
    ASSUME NEW v \in Node, WellFormed(v), v.form \in ObjectForms,
           NEW w \in Node, WellFormed(w), w.form \in ObjectForms,
           NEW s \in Sdk, NEW g \in BOOLEAN, NEW r \in Sdk, NEW h \in BOOLEAN,
           NEW x \in Texts, NEW y \in Texts, Components(v) \subseteq Telling,
           Then(Encode(TextsOf, s, g, v), x) = Then(Encode(TextsOf, r, h, w), y)
    PROVE  Encode(TextsOf, s, g, v) = Encode(TextsOf, r, h, w) /\ SaysTheSame(v, w)
  <1> DEFINE es == Ordered(s, v)
             fs == Ordered(r, w)
             p == ObjectParts(TextsOf, s, g, v)
             q == ObjectParts(TextsOf, r, h, w)
             gv == InnerHtml(g, v)
             hw == InnerHtml(h, w)
             i == <<s, gv>>
             j == <<r, hw>>
  <1>1. /\ p \in Seq(Texts) /\ Len(p) = Len(es)
        /\ \A n \in 1..Len(p) :
              /\ es[n][1] \in Key /\ es[n][2] \in Components(v) /\ TextsOf[es[n][2]][i] \in Texts
              /\ p[n] = Member(s, gv, es[n][1], TextsOf[es[n][2]][i])
    BY TextsOfNode, ObjectPartsIn
  <1>2. /\ q \in Seq(Texts) /\ Len(q) = Len(fs)
        /\ \A n \in 1..Len(q) :
              /\ fs[n][1] \in Key /\ fs[n][2] \in Components(w) /\ TextsOf[fs[n][2]][j] \in Texts
              /\ q[n] = Member(r, hw, fs[n][1], TextsOf[fs[n][2]][j])
    BY TextsOfNode, ObjectPartsIn
  <1>3. /\ Encode(TextsOf, s, g, v) = Enclosed("{", p, <<",">>, "}")
        /\ Encode(TextsOf, r, h, w) = Enclosed("{", q, <<",">>, "}")
    BY EncodeObject
  <1>4. gv \in BOOLEAN /\ hw \in BOOLEAN /\ i \in Way /\ j \in Way
    BY DEF Way, InnerHtml
  <1>5. /\ EntriesOf(v) = {es[n] : n \in 1..Len(es)}
        /\ EntriesOf(w) = {fs[n] : n \in 1..Len(fs)}
    BY ObjectIs, OrderedIs
  <1> HIDE DEF es, fs, p, q, i, j, gv, hw
  <1>8. /\ \A n \in 1..Len(p) : es[n][2] \in Value
        /\ \A n \in 1..Len(q) : fs[n][2] \in Value
    BY <1>1, <1>2, TextsOfNode
  <1>9. Open(p, "}") /\ Open(q, "}")
    <2>2. Quote # "}"
      BY DEF Quote
    <2>3. \A n \in 1..Len(p) : p[n] # <<>> /\ p[n][1] = Quote
      BY <1>1, MemberInTexts
    <2>4. \A n \in 1..Len(q) : q[n] # <<>> /\ q[n][1] = Quote
      BY <1>2, MemberInTexts
    <2> DEFINE close == "}"
    <2>5. close # Quote
      BY <2>2
    <2> HIDE DEF close
    <2>6. Open(p, close) /\ Open(q, close)
      BY <2>3, <2>4, <2>5 DEF Open
    <2> QED BY <2>6 DEF close
  <1>10. ASSUME NEW n \in 1..Len(p), n <= Len(q), NEW a \in Texts, NEW b \in Texts,
                Then(p[n], a) = Then(q[n], b)
         PROVE  /\ p[n] = q[n] /\ es[n][1] = fs[n][1]
                /\ SaysTheSame(es[n][2], fs[n][2])
    <2>1. n \in 1..Len(q)
      BY <1>2, <1>10, LenProperties
    <2> DEFINE k == es[n][1]
               l == fs[n][1]
               t == TextsOf[es[n][2]][i]
               u == TextsOf[fs[n][2]][j]
    <2>2. k \in Key /\ l \in Key /\ t \in Texts /\ u \in Texts
      BY <1>1, <1>2, <2>1
    <2>3. p[n] = Member(s, gv, k, t) /\ q[n] = Member(r, hw, l, u)
      BY <1>1, <1>2, <2>1
    <2>4. Tells(es[n][2], fs[n][2], i, j)
      BY <1>1, <1>4, <1>8, <2>1 DEF Telling
    <2>5. \A c, d \in Texts : Then(t, c) = Then(u, d) => t = u /\ SaysTheSame(es[n][2], fs[n][2])
      BY <2>4 DEF Tells
    <2> HIDE DEF k, l, t, u
    <2>6. Then(Member(s, gv, k, t), a) = Then(Member(r, hw, l, u), b)
      BY <1>10, <2>3
    <2>7. /\ k = l /\ Quoted(s, gv, Spelling[k]) = Quoted(r, hw, Spelling[l])
          /\ Then(t, a) = Then(u, b)
      <3>1. EntriesTold(s, gv, r, hw)
        BY <1>4, MemberTold
      <3> QED BY <2>2, <2>6, <3>1 DEF EntriesTold
    <2>8. t = u /\ SaysTheSame(es[n][2], fs[n][2])
      BY <2>5, <2>7
    <2>9. Member(s, gv, k, t) = Member(r, hw, l, u)
      <3>1. Member(s, gv, k, t) = Then(Quoted(s, gv, Spelling[k]), Then(Colon, t))
        BY <2>2, MemberInTexts
      <3>2. Member(r, hw, l, u) = Then(Quoted(r, hw, Spelling[l]), Then(Colon, u))
        BY <2>2, MemberInTexts
      <3> QED BY <2>7, <2>8, <3>1, <3>2
    <2> QED BY <2>3, <2>7, <2>8, <2>9 DEF k, l
  <1>11. Told(p, q)
    BY <1>10 DEF Told
  <1>12. p = q
    <2> DEFINE open == "{"
               close == "}"
               separator == <<",">>
    <2>1. open \in Char /\ close \in Char /\ separator \in Texts /\ separator[1] # close
      BY SignsAreChars DEF Signs
    <2>2. Then(Enclosed(open, p, separator, close), x) = Then(Enclosed(open, q, separator, close), y)
      BY <1>3
    <2>3. Open(p, close) /\ Open(q, close)
      BY <1>9
    <2> HIDE DEF open, close, separator
    <2> QED BY <1>1, <1>2, <1>11, <2>1, <2>2, <2>3, EnclosedTold
  <1>13. \A n \in 1..Len(p) : es[n][1] = fs[n][1] /\ SaysTheSame(es[n][2], fs[n][2])
    <2> TAKE n \in 1..Len(p)
    <2>1. n <= Len(q) /\ <<>> \in Texts
      BY <1>1, <1>12, LenProperties, ShortTexts
    <2>2. Then(p[n], <<>>) = Then(q[n], <<>>)
      BY <1>12
    <2> QED BY <1>10, <2>1, <2>2
  <1>14. \A n \in 1..Len(p) : fs[n][2] \in SameAs[es[n][2]]
    BY <1>8, <1>12, <1>13, SameAsIs
  <1>15. Len(es) = Len(p) /\ Len(fs) = Len(p)
    BY <1>1, <1>2, <1>12
  <1>16. \A d \in EntriesOf(v) : \E e \in EntriesOf(w) : d[1] = e[1] /\ e[2] \in SameAs[d[2]]
    BY <1>5, <1>13, <1>14, <1>15
  <1>17. \A e \in EntriesOf(w) : \E d \in EntriesOf(v) : d[1] = e[1] /\ e[2] \in SameAs[d[2]]
    BY <1>5, <1>13, <1>14, <1>15
  <1>18. SaysTheSame(v, w)
    BY <1>16, <1>17 DEF SaysTheSame, Alike
  <1> QED BY <1>3, <1>12, <1>18

LEMMA NodeTold ==
    ASSUME NEW v \in Node, WellFormed(v), NEW w \in Node, WellFormed(w),
           NEW s \in Sdk, NEW g \in BOOLEAN, NEW r \in Sdk, NEW h \in BOOLEAN,
           NEW x \in Texts, NEW y \in Texts, Components(v) \subseteq Telling,
           Then(Encode(TextsOf, s, g, v), x) = Then(Encode(TextsOf, r, h, w), y)
    PROVE  Encode(TextsOf, s, g, v) = Encode(TextsOf, r, h, w) /\ SaysTheSame(v, w)
  <1> DEFINE e == Encode(TextsOf, s, g, v)
             f == Encode(TextsOf, r, h, w)
  <1>1. Starts(v, e)
    BY FirstSign, TextsOfNode
  <1>2. Starts(w, f)
    BY FirstSign, TextsOfNode
  <1>3. e[1] = f[1]
    <2>1. Then(e, x) = Then(f, y)
      OBVIOUS
    <2> HIDE DEF e, f
    <2>2. e \in Texts /\ f \in Texts /\ e # <<>> /\ f # <<>>
      BY <1>1, <1>2 DEF Starts
    <2>3. Then(e, x)[1] = e[1]
      BY <2>2, ThenFirst
    <2>4. Then(f, y)[1] = f[1]
      BY <2>2, ThenFirst
    <2> QED BY <2>1, <2>3, <2>4
  <1>4. \/ v.form = "text" /\ w.form = "text"
        \/ v.form = "atom" /\ w.form = "atom"
        \/ v.form = "list" /\ w.form = "list"
        \/ v.form \in ObjectForms /\ w.form \in ObjectForms
    <2> HIDE DEF e, f
    <2> QED BY <1>1, <1>2, <1>3, NodeShape DEF Starts, Signs, Quote, ObjectForms
  <1>5. CASE v.form = "text" /\ w.form = "text"
    BY <1>5, TextTold
  <1>6. CASE v.form = "atom" /\ w.form = "atom"
    <2>1. v.atom = w.atom
      BY <1>1, <1>2, <1>3, <1>6 DEF Starts
    <2>2. e = <<v.atom>> /\ f = <<w.atom>>
      BY <1>6, EncodeAtom
    <2> QED BY <1>6, <2>1, <2>2 DEF SaysTheSame, Alike
  <1>7. CASE v.form = "list" /\ w.form = "list"
    BY <1>7, ListTold
  <1>8. CASE v.form \in ObjectForms /\ w.form \in ObjectForms
    BY <1>8, ObjectTold
  <1> QED BY <1>4, <1>5, <1>6, <1>7, <1>8

\* Every value is told by its text.
LEMMA ValuesTell == Value \subseteq Telling
  <1>1. Depth \in [Value -> Nat]
    BY ValueAssumption
  <1>2. ASSUME NEW v \in Value, \A c \in Value : Depth[c] < Depth[v] => c \in Telling
        PROVE  v \in Telling
    <2>1. v \in Node /\ WellFormed(v) /\ Components(v) \subseteq Telling
      BY <1>2, ValueIs
    <2>2. ASSUME NEW w \in Value, NEW i \in Way, NEW j \in Way, NEW x \in Texts, NEW y \in Texts,
                 Then(TextsOf[v][i], x) = Then(TextsOf[w][j], y)
          PROVE  TextsOf[v][i] = TextsOf[w][j] /\ SaysTheSame(v, w)
      <3>1. PICK s \in Sdk, g \in BOOLEAN : i = <<s, g>>
        BY DEF Way
      <3>2. PICK r \in Sdk, h \in BOOLEAN : j = <<r, h>>
        BY DEF Way
      <3>3. /\ TextsOf[v][i] = Encode(TextsOf, s, g, v)
            /\ TextsOf[w][j] = Encode(TextsOf, r, h, w)
        BY <3>1, <3>2, TextOfValue
      <3>4. w \in Node /\ WellFormed(w)
        BY ValueIs
      <3>5. Then(Encode(TextsOf, s, g, v), x) = Then(Encode(TextsOf, r, h, w), y)
        BY <2>2, <3>3
      <3> QED BY <2>1, <3>3, <3>4, <3>5, NodeTold
    <2> QED BY <2>2 DEF Telling, Tells
  <1> QED BY <1>1, <1>2, RankInduction

-----------------------------------------------------------------------------
(* Documents *)

LEMMA InitTypeOK == Init => TypeOK
  <1> SUFFICES ASSUME Init PROVE TypeOK
    OBVIOUS
  <1>1. \A a \in Author : doc[a] = [form |-> "map", entries |-> <<>>]
    BY DEF Init, Object
  <1>2. doc \in [Author -> [form: {"map"}, entries: Seq(Input)]]
    BY <1>1 DEF Init, Object
  <1>3. ASSUME NEW a \in Author PROVE Len(doc[a].entries) <= MaxKeys /\ WellFormed(doc[a])
    <2>1. doc[a].form = "map" /\ doc[a].entries = <<>>
      BY <1>1
    <2> QED BY <2>1, InputAssumption DEF WellFormed, ObjectForms
  <1> QED BY <1>2, <1>3 DEF TypeOK

\* Writing a key that is there keeps its place, and no key is there twice.
LEMMA PutTypeOK ==
    ASSUME TypeOK, NEW a \in Author, NEW i \in Input, Put(a, i[1], i[2])
    PROVE  TypeOK'
  <1> DEFINE es == doc[a].entries
             k == i[1]
             replaced == [n \in DOMAIN es |-> IF es[n][1] = k THEN i ELSE es[n]]
  <1>1. /\ i = <<k, i[2]>>
        /\ doc \in [Author -> [form: {"map"}, entries: Seq(Input)]]
        /\ es \in Seq(Input) /\ Len(es) \in Nat /\ DOMAIN es = 1..Len(es)
        /\ Len(es) <= MaxKeys /\ MaxKeys \in Nat
        /\ \A m, n \in DOMAIN es : es[m][1] = es[n][1] => m = n
    <2>1. /\ doc[a] \in [form: {"map"}, entries: Seq(Input)]
          /\ Len(es) <= MaxKeys /\ WellFormed(doc[a])
      BY DEF TypeOK
    <2>2. \A m, n \in DOMAIN es : es[m][1] = es[n][1] => m = n
      BY <2>1 DEF WellFormed, ObjectForms
    <2>3. i = <<k, i[2]>>
      BY InputAssumption
    <2> QED BY <2>1, <2>2, <2>3, InputAssumption DEF TypeOK
  <1>2. ASSUME NEW fs \in Seq(Input), Len(fs) <= MaxKeys,
               \A m, n \in DOMAIN fs : fs[m][1] = fs[n][1] => m = n,
               doc' = [doc EXCEPT ![a].entries = fs]
        PROVE  TypeOK'
    <2>1. doc' \in [Author -> [form: {"map"}, entries: Seq(Input)]]
      <3> DEFINE d == [doc[a] EXCEPT !.entries = fs]
      <3>1. d \in [form: {"map"}, entries: Seq(Input)]
        BY <1>1, <1>2, ZenonT(60)
      <3>2. doc' = [doc EXCEPT ![a] = d]
        BY <1>2
      <3> HIDE DEF d
      <3> QED BY <1>1, <3>1, <3>2
    <2>2. ASSUME NEW b \in Author
          PROVE  Len(doc'[b].entries) <= MaxKeys /\ WellFormed(doc'[b])
      <3>1. CASE b = a
        <4>1. doc'[b].entries = fs /\ doc'[b].form = "map"
          BY <1>1, <1>2, <2>1, <3>1
        <4> QED BY <1>2, <4>1 DEF WellFormed
      <3>2. CASE b # a
        <4>1. doc'[b] = doc[b]
          BY <1>1, <1>2, <3>2
        <4> QED BY <4>1 DEF TypeOK
      <3> QED BY <3>1, <3>2
    <2> QED BY <2>1, <2>2 DEF TypeOK
  <1>3. CASE k \in KeysOf(doc[a])
    <2>1. doc' = [doc EXCEPT ![a].entries = replaced]
      BY <1>1, <1>3 DEF Put
    <2>2. replaced \in Seq(Input) /\ Len(replaced) = Len(es)
      BY <1>1
    <2>3. \A n \in DOMAIN es : replaced[n][1] = es[n][1]
      OBVIOUS
    <2>4. \A m, n \in DOMAIN replaced : replaced[m][1] = replaced[n][1] => m = n
      BY <1>1, <2>3
    <2> HIDE DEF replaced
    <2> QED BY <1>1, <1>2, <2>1, <2>2, <2>4
  <1>4. CASE k \notin KeysOf(doc[a])
    <2> DEFINE fs == Append(es, i)
    <2>1. Len(es) < MaxKeys /\ doc' = [doc EXCEPT ![a].entries = fs]
      BY <1>1, <1>4 DEF Put
    <2>2. /\ fs \in Seq(Input) /\ Len(fs) = Len(es) + 1 /\ DOMAIN fs = 1..(Len(es) + 1)
          /\ fs[Len(es) + 1] = i
          /\ \A n \in 1..Len(es) : fs[n] = es[n]
      BY <1>1
    <2>3. \A n \in 1..Len(es) : es[n][1] # k
      BY <1>1, <1>4 DEF KeysOf
    <2> HIDE DEF fs
    <2>4. \A m, n \in DOMAIN fs : fs[m][1] = fs[n][1] => m = n
      BY <1>1, <2>2, <2>3, SMTT(40)
    <2>5. Len(fs) <= MaxKeys
      BY <1>1, <2>1, <2>2
    <2> QED BY <1>2, <2>1, <2>2, <2>4, <2>5
  <1> QED BY <1>3, <1>4

\* However a document is built, it is a map that has a key at most once: what
\* lets a set of entries stand for it.
THEOREM TypeCorrect == Spec => []TypeOK
  <1>1. TypeOK /\ [Next]_doc => TypeOK'
    <2>1. TypeOK /\ UNCHANGED doc => TypeOK'
      BY DEF TypeOK
    <2> QED BY <2>1, PutTypeOK DEF Next
  <1> QED BY InitTypeOK, <1>1, PTL DEF Spec

LEMMA DocumentIs ==
    ASSUME TypeOK, NEW a \in Author
    PROVE  /\ doc[a] \in Node /\ WellFormed(doc[a]) /\ Components(doc[a]) \subseteq Value
           /\ doc[a].form = "map"
  <1>1. doc[a] \in [form: {"map"}, entries: Seq(Input)] /\ WellFormed(doc[a])
    BY DEF TypeOK
  <1>2. doc[a].entries \in Seq(Key \X Value)
    BY <1>1, InputAssumption
  <1>3. doc[a] \in [form: ObjectForms, entries: Seq(Key \X Value)]
    BY <1>1, <1>2 DEF ObjectForms
  <1> QED BY <1>1, <1>3, ComponentsAreValues DEF Node

\* A digest stands for one document, whichever SDKs computed and compare it: from
\* the canonical text of a document (contracts.go:78-90, canonicalJSON,
\* canonical_json) follow its values at every depth.
THEOREM OneDocumentPerTextHolds == Spec => []OneDocumentPerText
  <1>1. TypeOK => OneDocumentPerText
    <2> SUFFICES ASSUME TypeOK, NEW a \in Author, NEW b \in Author, NEW s \in Sdk, NEW r \in Sdk,
                        CanonicalJSON(s, doc[a]) = CanonicalJSON(r, doc[b])
                 PROVE  SaysTheSame(doc[a], doc[b])
      BY DEF OneDocumentPerText, CanonicalTexts
    <2>1. /\ doc[a] \in Node /\ WellFormed(doc[a]) /\ Components(doc[a]) \subseteq Telling
          /\ doc[b] \in Node /\ WellFormed(doc[b])
      BY DocumentIs, ValuesTell
    <2> DEFINE v == doc[a]
               w == doc[b]
               html == FALSE
               nothing == <<>>
    <2>2. nothing \in Texts /\ html \in BOOLEAN
      BY ShortTexts
    <2>3. Then(Encode(TextsOf, s, html, v), nothing) = Then(Encode(TextsOf, r, html, w), nothing)
      BY DEF CanonicalJSON
    <2> HIDE DEF v, w, html, nothing
    <2>4. SaysTheSame(v, w)
      BY <2>1, <2>2, <2>3, NodeTold DEF v, w
    <2> QED BY <2>4 DEF v, w
  <1> QED BY <1>1, TypeCorrect, PTL

-----------------------------------------------------------------------------
(* One text per document *)

\* Keys stand in an order in one way.
LEMMA OneOrderOfKeys ==
    ASSUME NEW s \in Sdk, NEW r \in Sdk,
           NEW js \in Seq(Key), NEW ks \in Seq(Key),
           \A m, n \in DOMAIN js : m < n => Before(s, js[m], js[n]),
           \A m, n \in DOMAIN ks : m < n => Before(r, ks[m], ks[n]),
           {js[n] : n \in DOMAIN js} = {ks[n] : n \in DOMAIN ks},
           s = r \/ PortableKeys({js[n] : n \in DOMAIN js})
    PROVE  js = ks
  <1> DEFINE keys == {js[n] : n \in DOMAIN js}
  <1>1. /\ Len(js) \in Nat /\ DOMAIN js = 1..Len(js) /\ js = [n \in 1..Len(js) |-> js[n]]
        /\ Len(ks) \in Nat /\ DOMAIN ks = 1..Len(ks) /\ ks = [n \in 1..Len(ks) |-> ks[n]]
    OBVIOUS
  <1>2. /\ \A n \in DOMAIN js : js[n] \in Key
        /\ \A n \in DOMAIN ks : ks[n] \in Key
    OBVIOUS
  <1>3. /\ \A n \in DOMAIN js : \E m \in DOMAIN ks : ks[m] = js[n]
        /\ \A n \in DOMAIN ks : \E m \in DOMAIN js : js[m] = ks[n]
    OBVIOUS
  <1>4. \A n \in DOMAIN ks : ks[n] \in keys
    BY <1>3
  <1>5. \A m, n \in DOMAIN ks : m < n => Before(s, ks[m], ks[n])
    <2>1. CASE s = r
      BY <2>1
    <2>2. CASE PortableKeys(keys)
      <3>1. keys \subseteq Key
        BY <1>2
      <3> HIDE DEF keys
      <3> QED BY <1>4, <2>2, <3>1, BeforeAgrees
    <2> QED BY <2>1, <2>2
  <1>6. \A m, n \in DOMAIN js : m < n => Before(s, js[m], js[n])
    OBVIOUS
  <1> HIDE DEF keys
  <1>7. /\ \A m, n \in DOMAIN js : m < n => js[m] # js[n]
        /\ \A m, n \in DOMAIN ks : m < n => ks[m] # ks[n]
    BY <1>2, <1>5, <1>6, BeforeIsOrder
  <1> DEFINE Apart == {n \in Nat : /\ n \in DOMAIN js \cup DOMAIN ks
                                   /\ ~ (n \in DOMAIN js /\ n \in DOMAIN ks
                                         /\ js[n] = ks[n])}
  <1>8. Apart = {}
    <2> SUFFICES ASSUME Apart # {} PROVE FALSE
      OBVIOUS
    <2>1. PICK n \in Apart : \A m \in Apart : n <= m
      BY LeastNat
    <2>2. \A m \in 1..(n - 1) : m \in DOMAIN js /\ m \in DOMAIN ks /\ js[m] = ks[m]
      BY <1>1, <2>1
    <2>3. ASSUME n \in DOMAIN js PROVE \E m \in DOMAIN ks : m > n /\ ks[m] = js[n]
      <3>1. PICK m \in DOMAIN ks : ks[m] = js[n]
        BY <1>3, <2>3
      <3>2. ~ (m < n)
        BY <1>1, <1>7, <2>2, <2>3, <3>1
      <3>3. m # n
        BY <2>1, <2>3, <3>1
      <3> QED BY <1>1, <3>1, <3>2, <3>3
    <2>4. ASSUME n \in DOMAIN ks PROVE \E m \in DOMAIN js : m > n /\ js[m] = ks[n]
      <3>1. PICK m \in DOMAIN js : js[m] = ks[n]
        BY <1>3, <2>4
      <3>2. ~ (m < n)
        BY <1>1, <1>7, <2>2, <2>4, <3>1
      <3>3. m # n
        BY <2>1, <2>4, <3>1
      <3> QED BY <1>1, <3>1, <3>2, <3>3
    <2>5. n \in DOMAIN js /\ n \in DOMAIN ks
      BY <1>1, <2>1, <2>3, <2>4
    <2>6. Before(s, ks[n], js[n]) /\ Before(s, js[n], ks[n])
      BY <1>1, <1>5, <1>6, <2>3, <2>4, <2>5
    <2> QED BY <1>2, <2>5, <2>6, BeforeIsOrder
  <1>9. DOMAIN js = DOMAIN ks /\ \A n \in DOMAIN js : js[n] = ks[n]
    <2>1. ASSUME NEW n \in DOMAIN js \cup DOMAIN ks
          PROVE  n \in DOMAIN js /\ n \in DOMAIN ks /\ js[n] = ks[n]
      <3>1. n \in Nat /\ n \notin Apart
        BY <1>1, <1>8
      <3> QED BY <3>1
    <2> QED BY <2>1
  <1> QED BY <1>1, <1>9

\* A canonical text lists the entries of an object in one order only, however
\* they were inserted (contracts.go:78-90, sortKeys, sort_keys=True): one per SDK,
\* and one for all three if the keys are portable.
THEOREM OneOrderPerObject ==
    ASSUME NEW s \in Sdk, NEW r \in Sdk,
           NEW es \in Seq(Key \X Value), NEW fs \in Seq(Key \X Value),
           InOrder(s, es), InOrder(r, fs),
           {es[n] : n \in DOMAIN es} = {fs[n] : n \in DOMAIN fs},
           s = r \/ PortableKeys({es[n][1] : n \in DOMAIN es})
    PROVE  es = fs
  <1> DEFINE js == [n \in DOMAIN es |-> es[n][1]]
             ks == [n \in DOMAIN fs |-> fs[n][1]]
  <1>1. /\ Len(es) \in Nat /\ DOMAIN es = 1..Len(es) /\ \A n \in DOMAIN es : es[n] \in Key \X Value
        /\ Len(fs) \in Nat /\ DOMAIN fs = 1..Len(fs) /\ \A n \in DOMAIN fs : fs[n] \in Key \X Value
    OBVIOUS
  <1>2. /\ js \in Seq(Key) /\ DOMAIN js = DOMAIN es /\ Len(js) = Len(es)
        /\ ks \in Seq(Key) /\ DOMAIN ks = DOMAIN fs /\ Len(ks) = Len(fs)
    BY <1>1
  <1>3. /\ \A n \in DOMAIN es : js[n] = es[n][1]
        /\ \A n \in DOMAIN fs : ks[n] = fs[n][1]
    OBVIOUS
  <1> HIDE DEF js, ks
  <1>4. /\ \A m, n \in DOMAIN js : m < n => Before(s, js[m], js[n])
        /\ \A m, n \in DOMAIN ks : m < n => Before(r, ks[m], ks[n])
    BY <1>2, <1>3, SMTT(40) DEF InOrder
  <1>5. /\ \A n \in DOMAIN es : \E m \in DOMAIN fs : fs[m] = es[n]
        /\ \A n \in DOMAIN fs : \E m \in DOMAIN es : es[m] = fs[n]
    OBVIOUS
  <1>6. {js[n] : n \in DOMAIN js} = {ks[n] : n \in DOMAIN ks}
    BY <1>2, <1>3, <1>5
  <1>7. {js[n] : n \in DOMAIN js} = {es[n][1] : n \in DOMAIN es}
    BY <1>2, <1>3
  <1>8. s = r \/ PortableKeys({js[n] : n \in DOMAIN js})
    BY <1>7
  <1>9. js = ks
    BY <1>2, <1>4, <1>6, <1>8, OneOrderOfKeys
  <1>10. DOMAIN es = DOMAIN fs
    BY <1>2, <1>9
  <1>11. ASSUME NEW n \in DOMAIN es PROVE es[n] = fs[n]
    <2>1. PICK m \in DOMAIN fs : fs[m] = es[n]
      BY <1>5
    <2>2. js[n] = js[m] /\ n \in DOMAIN js /\ m \in DOMAIN js /\ js[n] \in Key
      BY <1>2, <1>3, <1>9, <1>10, <2>1
    <2>3. n = m
      <3>1. ~ (n < m) /\ ~ (m < n)
        BY <1>4, <2>2, BeforeIsOrder
      <3> QED BY <1>1, <1>10, <3>1
    <2> QED BY <2>1, <2>3
  <1>12. Len(es) = Len(fs)
    BY <1>2, <1>9
  <1> QED BY <1>1, <1>11, <1>12, SeqEqual


\* A document that an encoder writes like the map it says: no Go struct, and no
\* HTML in texts and keys where Go escapes it.
Plain(sdk, html, v) == sdk = "go" => MapLike(v) /\ (html => CharsOf(v) \cap Html = {})
Concordant(s, r, v, w) == s = r \/ (Portable(v) /\ Portable(w))

LEMMA ComponentParts ==
    ASSUME NEW v \in Node, NEW c \in Components(v)
    PROVE  /\ Parts(c) \subseteq Parts(v)
           /\ Objects(c) \subseteq Objects(v)
           /\ CharsOf(c) \subseteq CharsOf(v)
  <1>1. c \in Value
    BY ComponentsAreValues
  <1>2. Parts(c) \subseteq Parts(v)
    BY <1>1, PartsOfIs DEF Parts
  <1>3. Objects(c) \subseteq Objects(v)
    BY <1>2 DEF Objects
  <1>4. CharsOf(c) \subseteq CharsOf(v)
    BY <1>2 DEF CharsOf
  <1> QED BY <1>2, <1>3, <1>4

\* A node is part of itself, and so are its characters, or those of its keys.
LEMMA SelfIsPart ==
    ASSUME NEW v
    PROVE  /\ v.form \in ObjectForms => v \in Objects(v)
           /\ \A t \in TextsIn(v) : \A n \in DOMAIN t : t[n] \in CharsOf(v)
           /\ v.form = "text" => v.chars \in TextsIn(v)
           /\ v.form \in ObjectForms => \A k \in KeysOf(v) : Spelling[k] \in TextsIn(v)
  <1>1. v \in Parts(v)
    BY DEF Parts
  <1>2. v.form \in ObjectForms => v \in Objects(v)
    BY <1>1 DEF Objects
  <1>3. ASSUME NEW t \in TextsIn(v), NEW n \in DOMAIN t
        PROVE  t[n] \in CharsOf(v)
    BY <1>1 DEF CharsOf
  <1>4. v.form = "text" => v.chars \in TextsIn(v)
    BY DEF TextsIn, ObjectForms
  <1>5. v.form \in ObjectForms => \A k \in KeysOf(v) : Spelling[k] \in TextsIn(v)
    BY DEF TextsIn, ObjectForms
  <1> QED BY <1>2, <1>3, <1>4, <1>5

LEMMA MapLikeBelow ==
    ASSUME NEW v \in Node, NEW c \in Components(v), MapLike(v)
    PROVE  MapLike(c)
  BY ComponentParts DEF MapLike

\* What holds a value leaves it plain, a reference too, which turns HTML on.
LEMMA PlainBelow ==
    ASSUME NEW v \in Node, NEW c \in Components(v), NEW sdk, NEW html \in BOOLEAN,
           Plain(sdk, html, v)
    PROVE  Plain(sdk, html, c) /\ Plain(sdk, InnerHtml(html, v), c)
  <1> SUFFICES ASSUME sdk = "go"
               PROVE  /\ MapLike(c)
                      /\ html => CharsOf(c) \cap Html = {}
                      /\ v.form = "reference" => CharsOf(c) \cap Html = {}
    BY DEF Plain, InnerHtml
  <1>1. MapLike(v) /\ (html => CharsOf(v) \cap Html = {})
    BY DEF Plain
  <1>2. MapLike(c)
    BY <1>1, MapLikeBelow
  <1>3. CharsOf(c) \subseteq CharsOf(v)
    BY ComponentParts
  <1>4. v.form = "reference" => CharsOf(v) \cap Html = {}
    BY <1>1, SelfIsPart DEF MapLike, ObjectForms
  <1> QED BY <1>1, <1>2, <1>3, <1>4

LEMMA ConcordantBelow ==
    ASSUME NEW v \in Node, NEW c \in Components(v), NEW w \in Node, NEW d \in Components(w),
           NEW s, NEW r, Concordant(s, r, v, w)
    PROVE  Concordant(s, r, c, d)
  <1>1. ASSUME NEW u \in Node, NEW e \in Components(u), Portable(u) PROVE Portable(e)
    <2>1. MapLike(e)
      BY <1>1, MapLikeBelow DEF Portable
    <2>2. CharsOf(e) \subseteq CharsOf(u) /\ Objects(e) \subseteq Objects(u)
      BY <1>1, ComponentParts
    <2> QED BY <1>1, <2>1, <2>2 DEF Portable
  <1> QED BY <1>1 DEF Concordant

LEMMA EscapeAgrees ==
    ASSUME NEW s, NEW r, NEW g \in BOOLEAN, NEW h \in BOOLEAN, NEW c,
           s = "go" /\ g => c \notin Html, r = "go" /\ h => c \notin Html,
           s = r \/ c \notin LineSep
    PROVE  Escape(s, g, c) = Escape(r, h, c)
  BY DEF Escape

\* The values whose text is that of any other that says the same.
Agrees(v, w, s, g, r, h) ==
    /\ SaysTheSame(v, w)
    /\ Plain(s, g, v) /\ Plain(r, h, w) /\ Concordant(s, r, v, w)
    => TextsOf[v][<<s, g>>] = TextsOf[w][<<r, h>>]
Agreeing ==
    {v \in Value : \A w \in Value, s, r \in Sdk, g, h \in BOOLEAN : Agrees(v, w, s, g, r, h)}

\* What is quoted in two nodes is written the same, where both are plain.
LEMMA QuotedAgrees ==
    ASSUME NEW v, NEW w, NEW chars, chars \in TextsIn(v), chars \in TextsIn(w),
           NEW s \in Sdk, NEW g \in BOOLEAN, NEW r \in Sdk, NEW h \in BOOLEAN,
           Plain(s, g, v), Plain(r, h, w), Concordant(s, r, v, w)
    PROVE  Quoted(s, g, chars) = Quoted(r, h, chars)
  <1>1. ASSUME NEW n \in DOMAIN chars
        PROVE  Escape(s, g, chars[n]) = Escape(r, h, chars[n])
    <2> DEFINE c == chars[n]
    <2>1. c \in CharsOf(v)
      BY SelfIsPart
    <2>2. c \in CharsOf(w)
      BY SelfIsPart
    <2> HIDE DEF c
    <2>3. s = "go" /\ g => c \notin Html
      BY <2>1 DEF Plain
    <2>4. r = "go" /\ h => c \notin Html
      BY <2>2 DEF Plain
    <2>5. s = r \/ c \notin LineSep
      BY <2>1 DEF Concordant, Portable
    <2>6. Escape(s, g, c) = Escape(r, h, c)
      BY <2>3, <2>4, <2>5, EscapeAgrees
    <2> QED BY <2>6 DEF c
  <1>2. Escapes(s, g, chars) = Escapes(r, h, chars)
    BY <1>1 DEF Escapes
  <1> QED BY <1>2, QuotedIs

LEMMA TextAgrees ==
    ASSUME NEW v \in Node, v.form = "text", NEW w \in Node, w.form = "text",
           NEW s \in Sdk, NEW g \in BOOLEAN, NEW r \in Sdk, NEW h \in BOOLEAN,
           v.chars = w.chars, Plain(s, g, v), Plain(r, h, w), Concordant(s, r, v, w)
    PROVE  Encode(TextsOf, s, g, v) = Encode(TextsOf, r, h, w)
  <1> DEFINE chars == v.chars
  <1>1. chars \in TextsIn(v) /\ chars \in TextsIn(w)
    BY SelfIsPart
  <1>2. Encode(TextsOf, s, g, v) = Quoted(s, g, chars)
    BY EncodeText
  <1>3. Encode(TextsOf, r, h, w) = Quoted(r, h, chars)
    BY EncodeText
  <1> HIDE DEF chars
  <1>4. Quoted(s, g, chars) = Quoted(r, h, chars)
    BY <1>1, QuotedAgrees
  <1> QED BY <1>2, <1>3, <1>4

\* An object's own keys are plain when it is, in a reference too.
LEMMA PlainInside ==
    ASSUME NEW v, v.form \in ObjectForms, NEW sdk, NEW html \in BOOLEAN, Plain(sdk, html, v)
    PROVE  Plain(sdk, InnerHtml(html, v), v)
  <1>1. sdk = "go" /\ v.form = "reference" => CharsOf(v) \cap Html = {}
    BY SelfIsPart DEF Plain, MapLike
  <1> QED BY <1>1 DEF Plain, InnerHtml

\* What a component says again in another value is written the same there.
LEMMA ComponentAgrees ==
    ASSUME NEW v \in Node, NEW c \in Components(v), c \in Agreeing,
           NEW w \in Node, NEW d \in Components(w), d \in SameAs[c],
           NEW s \in Sdk, NEW g \in BOOLEAN, NEW r \in Sdk, NEW h \in BOOLEAN,
           Plain(s, g, c), Plain(r, h, d), Concordant(s, r, v, w)
    PROVE  TextsOf[c][<<s, g>>] = TextsOf[d][<<r, h>>]
  <1>1. c \in Value /\ d \in Value
    BY ComponentsAreValues
  <1>2. SaysTheSame(c, d)
    BY <1>1, SameAsIs
  <1>3. Concordant(s, r, c, d)
    BY ConcordantBelow
  <1>4. Agrees(c, d, s, g, r, h)
    BY <1>1 DEF Agreeing
  <1> QED BY <1>2, <1>3, <1>4 DEF Agrees

LEMMA ListAgrees ==
    ASSUME NEW v \in Node, v.form = "list", Components(v) \subseteq Agreeing,
           NEW w \in Node, w.form = "list",
           NEW s \in Sdk, NEW g \in BOOLEAN, NEW r \in Sdk, NEW h \in BOOLEAN,
           Len(v.values) = Len(w.values),
           \A n \in DOMAIN v.values : w.values[n] \in SameAs[v.values[n]],
           Plain(s, g, v), Plain(r, h, w), Concordant(s, r, v, w)
    PROVE  Encode(TextsOf, s, g, v) = Encode(TextsOf, r, h, w)
  <1>1. /\ DOMAIN v.values = DOMAIN w.values
        /\ \A n \in DOMAIN v.values : v.values[n] \in Components(v)
        /\ \A n \in DOMAIN w.values : w.values[n] \in Components(w)
    BY NodeShape
  <1>2. ASSUME NEW n \in DOMAIN v.values
        PROVE  TextsOf[v.values[n]][<<s, g>>] = TextsOf[w.values[n]][<<r, h>>]
    <2> DEFINE c == v.values[n]
               d == w.values[n]
    <2>1. c \in Components(v) /\ c \in Agreeing /\ d \in Components(w) /\ d \in SameAs[c]
      BY <1>1
    <2> HIDE DEF c, d
    <2>2. Plain(s, g, c)
      BY <2>1, PlainBelow
    <2>3. Plain(r, h, d)
      BY <2>1, PlainBelow
    <2>4. TextsOf[c][<<s, g>>] = TextsOf[d][<<r, h>>]
      BY <2>1, <2>2, <2>3, ComponentAgrees
    <2> QED BY <2>4 DEF c, d
  <1>3. ListParts(TextsOf, s, g, v) = ListParts(TextsOf, r, h, w)
    BY <1>1, <1>2 DEF ListParts
  <1> QED BY <1>3, EncodeList
\* Entries in order that say the same stand at the same places.
Matched(es, fs) ==
    \A d \in {es[n] : n \in 1..Len(es)} : \E e \in {fs[n] : n \in 1..Len(fs)} :
        d[1] = e[1] /\ e[2] \in SameAs[d[2]]
MatchedBack(es, fs) ==
    \A e \in {fs[n] : n \in 1..Len(fs)} : \E d \in {es[n] : n \in 1..Len(es)} :
        d[1] = e[1] /\ e[2] \in SameAs[d[2]]
Paired(es, fs) ==
    /\ Len(es) = Len(fs)
    /\ \A n \in 1..Len(es) : es[n][1] = fs[n][1] /\ fs[n][2] \in SameAs[es[n][2]]

LEMMA EntriesPaired ==
    ASSUME NEW s \in Sdk, NEW r \in Sdk,
           NEW es \in Seq(Key \X Value), NEW fs \in Seq(Key \X Value),
           InOrder(s, es), InOrder(r, fs), Matched(es, fs), MatchedBack(es, fs),
           s = r \/ PortableKeys({es[n][1] : n \in 1..Len(es)})
    PROVE  Paired(es, fs)
  <1> DEFINE js == [n \in DOMAIN es |-> es[n][1]]
             ks == [n \in DOMAIN fs |-> fs[n][1]]
  <1>1. /\ Len(es) \in Nat /\ DOMAIN es = 1..Len(es) /\ \A n \in DOMAIN es : es[n] \in Key \X Value
        /\ Len(fs) \in Nat /\ DOMAIN fs = 1..Len(fs) /\ \A n \in DOMAIN fs : fs[n] \in Key \X Value
    OBVIOUS
  <1>2. /\ js \in Seq(Key) /\ DOMAIN js = 1..Len(es) /\ Len(js) = Len(es)
        /\ ks \in Seq(Key) /\ DOMAIN ks = 1..Len(fs) /\ Len(ks) = Len(fs)
    BY <1>1
  <1>3. /\ \A n \in 1..Len(es) : js[n] = es[n][1]
        /\ \A n \in 1..Len(fs) : ks[n] = fs[n][1]
    BY <1>1
  <1> HIDE DEF js, ks
  <1>4. /\ \A m, n \in DOMAIN js : m < n => Before(s, js[m], js[n])
        /\ \A m, n \in DOMAIN ks : m < n => Before(r, ks[m], ks[n])
    BY <1>1, <1>2, <1>3 DEF InOrder
  <1>5. /\ \A n \in 1..Len(es) : \E m \in 1..Len(fs) :
              fs[m][1] = es[n][1] /\ fs[m][2] \in SameAs[es[n][2]]
        /\ \A n \in 1..Len(fs) : \E m \in 1..Len(es) : es[m][1] = fs[n][1]
    <2>1. ASSUME NEW n \in 1..Len(es)
          PROVE  \E m \in 1..Len(fs) : fs[m][1] = es[n][1] /\ fs[m][2] \in SameAs[es[n][2]]
      <3>1. es[n] \in {es[i] : i \in 1..Len(es)}
        OBVIOUS
      <3>2. PICK e \in {fs[m] : m \in 1..Len(fs)} : es[n][1] = e[1] /\ e[2] \in SameAs[es[n][2]]
        BY <3>1 DEF Matched
      <3>3. PICK m \in 1..Len(fs) : e = fs[m]
        BY <3>2
      <3> QED BY <3>2, <3>3
    <2>2. ASSUME NEW n \in 1..Len(fs)
          PROVE  \E m \in 1..Len(es) : es[m][1] = fs[n][1]
      <3>1. fs[n] \in {fs[i] : i \in 1..Len(fs)}
        OBVIOUS
      <3>2. PICK d \in {es[m] : m \in 1..Len(es)} : d[1] = fs[n][1]
        BY <3>1 DEF MatchedBack
      <3>3. PICK m \in 1..Len(es) : d = es[m]
        BY <3>2
      <3> QED BY <3>2, <3>3
    <2> QED BY <2>1, <2>2
  <1>6. {js[n] : n \in DOMAIN js} = {ks[n] : n \in DOMAIN ks}
    <2>1. ASSUME NEW n \in DOMAIN js PROVE js[n] \in {ks[m] : m \in DOMAIN ks}
      <3>1. PICK m \in 1..Len(fs) : fs[m][1] = es[n][1]
        BY <1>2, <1>5
      <3>2. js[n] = es[n][1] /\ ks[m] = fs[m][1] /\ m \in DOMAIN ks
        BY <1>2, <1>3
      <3> QED BY <3>1, <3>2
    <2>2. ASSUME NEW n \in DOMAIN ks PROVE ks[n] \in {js[m] : m \in DOMAIN js}
      <3>1. PICK m \in 1..Len(es) : es[m][1] = fs[n][1]
        BY <1>2, <1>5
      <3>2. ks[n] = fs[n][1] /\ js[m] = es[m][1] /\ m \in DOMAIN js
        BY <1>2, <1>3
      <3> QED BY <3>1, <3>2
    <2> QED BY <2>1, <2>2
  <1>7. {js[n] : n \in DOMAIN js} = {es[n][1] : n \in 1..Len(es)}
    BY <1>2, <1>3, SMTT(40)
  <1>8. s = r \/ PortableKeys({js[n] : n \in DOMAIN js})
    BY <1>7
  <1>9. js = ks
    BY <1>2, <1>4, <1>6, <1>8, OneOrderOfKeys
  <1>10. Len(es) = Len(fs)
    BY <1>2, <1>9
  <1>11. ASSUME NEW n \in 1..Len(es)
         PROVE  es[n][1] = fs[n][1] /\ fs[n][2] \in SameAs[es[n][2]]
    <2>1. PICK m \in 1..Len(fs) : fs[m][1] = es[n][1] /\ fs[m][2] \in SameAs[es[n][2]]
      BY <1>5
    <2>2. ks[n] = js[n] /\ ks[m] = js[n] /\ ks[n] \in Key /\ n \in DOMAIN ks /\ m \in DOMAIN ks
      BY <1>2, <1>3, <1>9, <1>10, <2>1
    <2>3. ~ (n < m) /\ ~ (m < n)
      BY <1>4, <2>2, BeforeIsOrder
    <2>4. n = m
      BY <1>1, <1>10, <2>3
    <2> QED BY <2>1, <2>4
  <1> QED BY <1>10, <1>11 DEF Paired

\* Plain objects are sorted.
LEMMA PlainIsSorted ==
    ASSUME NEW sdk \in Sdk, NEW v, IsObject(v), NEW html, Plain(sdk, html, v)
    PROVE  Ordered(sdk, v) = Sorted(sdk, v) /\ InOrder(sdk, Ordered(sdk, v))
  <1>1. sdk = "go" => v.form # "struct"
    BY SelfIsPart DEF Plain, MapLike, IsObject
  <1> QED BY <1>1, SortedIs DEF Ordered

LEMMA ObjectAgrees ==
    ASSUME NEW v \in Node, WellFormed(v), v.form \in ObjectForms,
           Components(v) \subseteq Agreeing,
           NEW w \in Node, WellFormed(w), w.form \in ObjectForms,
           NEW s \in Sdk, NEW g \in BOOLEAN, NEW r \in Sdk, NEW h \in BOOLEAN,
           SaysTheSame(v, w), Plain(s, g, v), Plain(r, h, w), Concordant(s, r, v, w)
    PROVE  Encode(TextsOf, s, g, v) = Encode(TextsOf, r, h, w)
  <1> DEFINE es == Ordered(s, v)
             fs == Ordered(r, w)
             gv == InnerHtml(g, v)
             hw == InnerHtml(h, w)
  <1>1. IsObject(v) /\ IsObject(w)
    BY ObjectIs
  <1>2. es \in Seq(Key \X Value) /\ EntriesOf(v) = {es[n] : n \in 1..Len(es)}
    BY <1>1, OrderedIs
  <1>3. fs \in Seq(Key \X Value) /\ EntriesOf(w) = {fs[n] : n \in 1..Len(fs)}
    BY <1>1, OrderedIs
  <1>4. InOrder(s, es) /\ InOrder(r, fs)
    BY <1>1, PlainIsSorted
  <1>5. Components(v) = {d[2] : d \in EntriesOf(v)} /\ KeysOf(v) = {d[1] : d \in EntriesOf(v)}
    BY NodeShape DEF EntriesOf, KeysOf
  <1>6. Components(w) = {e[2] : e \in EntriesOf(w)} /\ KeysOf(w) = {e[1] : e \in EntriesOf(w)}
    BY NodeShape DEF EntriesOf, KeysOf
  <1>7. /\ \A d \in EntriesOf(v) : \E e \in EntriesOf(w) : d[1] = e[1] /\ e[2] \in SameAs[d[2]]
        /\ \A e \in EntriesOf(w) : \E d \in EntriesOf(v) : d[1] = e[1] /\ e[2] \in SameAs[d[2]]
    BY DEF SaysTheSame, Alike, ObjectForms
  <1>8. s = r \/ PortableKeys(KeysOf(v))
    BY SelfIsPart DEF Concordant, Portable
  <1>9. gv \in BOOLEAN /\ hw \in BOOLEAN
    BY DEF InnerHtml
  <1>10. /\ \A c \in Components(v) : Plain(s, gv, c)
         /\ \A d \in Components(w) : Plain(r, hw, d)
         /\ Plain(s, gv, v) /\ Plain(r, hw, w)
    BY PlainBelow, PlainInside
  <1>11. /\ ObjectParts(TextsOf, s, g, v) =
               [n \in DOMAIN es |-> Member(s, gv, es[n][1], TextsOf[es[n][2]][<<s, gv>>])]
         /\ ObjectParts(TextsOf, r, h, w) =
               [n \in DOMAIN fs |-> Member(r, hw, fs[n][1], TextsOf[fs[n][2]][<<r, hw>>])]
    BY DEF ObjectParts
  <1> HIDE DEF es, fs, gv, hw
  <1>12. Matched(es, fs)
    BY <1>2, <1>3, <1>7 DEF Matched
  <1>13. MatchedBack(es, fs)
    BY <1>2, <1>3, <1>7 DEF MatchedBack
  <1>14. s = r \/ PortableKeys({es[n][1] : n \in 1..Len(es)})
    <2>1. {es[n][1] : n \in 1..Len(es)} = KeysOf(v)
      BY <1>2, <1>5
    <2> QED BY <1>8, <2>1
  <1>15. Paired(es, fs)
    BY <1>2, <1>3, <1>4, <1>12, <1>13, <1>14, EntriesPaired
  <1>16. DOMAIN es = 1..Len(es) /\ DOMAIN fs = 1..Len(fs) /\ Len(es) = Len(fs)
    BY <1>2, <1>3, <1>15, LenProperties DEF Paired
  <1>17. ASSUME NEW n \in 1..Len(es)
         PROVE  Member(s, gv, es[n][1], TextsOf[es[n][2]][<<s, gv>>]) =
                Member(r, hw, fs[n][1], TextsOf[fs[n][2]][<<r, hw>>])
    <2> DEFINE c == es[n][2]
               d == fs[n][2]
    <2>1. es[n][1] = fs[n][1] /\ d \in SameAs[c]
      BY <1>15 DEF Paired
    <2>2. c \in Components(v) /\ d \in Components(w)
      BY <1>2, <1>3, <1>5, <1>6, <1>16
    <2> HIDE DEF c, d
    <2>3. c \in Agreeing /\ Plain(s, gv, c) /\ Plain(r, hw, d)
      BY <1>10, <2>2
    <2>4. TextsOf[c][<<s, gv>>] = TextsOf[d][<<r, hw>>]
      BY <1>9, <2>1, <2>2, <2>3, ComponentAgrees
    <2> DEFINE k == es[n][1]
    <2>5. k \in KeysOf(v) /\ k \in KeysOf(w) /\ k \in Key
      BY <1>2, <1>3, <1>5, <1>6, <1>16, <2>1
    <2>6. Spelling[k] \in TextsIn(v) /\ Spelling[k] \in TextsIn(w)
      BY <2>5, SelfIsPart
    <2> HIDE DEF k
    <2>7. Quoted(s, gv, Spelling[k]) = Quoted(r, hw, Spelling[k])
      BY <1>9, <1>10, <2>6, QuotedAgrees
    <2>8. ASSUME NEW t
          PROVE  Member(s, gv, k, t) = Member(r, hw, k, t)
      BY <2>7 DEF Member
    <2> QED BY <2>1, <2>4, <2>8 DEF c, d, k
  <1>18. ObjectParts(TextsOf, s, g, v) = ObjectParts(TextsOf, r, h, w)
    BY <1>11, <1>16, <1>17
  <1> QED BY <1>18, EncodeObject
LEMMA NodeAgrees ==
    ASSUME NEW v \in Node, WellFormed(v), Components(v) \subseteq Agreeing,
           NEW w \in Node, WellFormed(w),
           NEW s \in Sdk, NEW g \in BOOLEAN, NEW r \in Sdk, NEW h \in BOOLEAN,
           SaysTheSame(v, w), Plain(s, g, v), Plain(r, h, w), Concordant(s, r, v, w)
    PROVE  Encode(TextsOf, s, g, v) = Encode(TextsOf, r, h, w)
  <1>1. CASE v.form = "text"
    <2>1. w.form = "text" /\ v.chars = w.chars
      BY <1>1 DEF SaysTheSame, Alike, ObjectForms
    <2> QED BY <1>1, <2>1, TextAgrees
  <1>2. CASE v.form = "atom"
    <2>1. w.form = "atom" /\ v.atom = w.atom
      BY <1>2 DEF SaysTheSame, Alike, ObjectForms
    <2> QED BY <1>2, <2>1, EncodeAtom
  <1>3. CASE v.form = "list"
    <2>1. /\ w.form = "list" /\ Len(v.values) = Len(w.values)
          /\ \A n \in DOMAIN v.values : w.values[n] \in SameAs[v.values[n]]
      BY <1>3 DEF SaysTheSame, Alike, ObjectForms
    <2> QED BY <1>3, <2>1, ListAgrees
  <1>4. CASE v.form \in ObjectForms
    <2>1. w.form \in ObjectForms
      BY <1>4 DEF SaysTheSame, Alike, ObjectForms
    <2> QED BY <1>4, <2>1, ObjectAgrees
  <1> QED BY <1>1, <1>2, <1>3, <1>4, NodeShape

\* Values that say the same have one text, at every depth.
LEMMA ValuesAgree == Value \subseteq Agreeing
  <1>1. Depth \in [Value -> Nat]
    BY ValueAssumption
  <1>2. ASSUME NEW v \in Value, \A c \in Value : Depth[c] < Depth[v] => c \in Agreeing
        PROVE  v \in Agreeing
    <2>1. v \in Node /\ WellFormed(v) /\ Components(v) \subseteq Agreeing
      BY <1>2, ValueIs
    <2>2. ASSUME NEW w \in Value, NEW s \in Sdk, NEW r \in Sdk, NEW g \in BOOLEAN, NEW h \in BOOLEAN
          PROVE  Agrees(v, w, s, g, r, h)
      <3> SUFFICES ASSUME SaysTheSame(v, w), Plain(s, g, v), Plain(r, h, w),
                          Concordant(s, r, v, w)
                   PROVE  TextsOf[v][<<s, g>>] = TextsOf[w][<<r, h>>]
        BY DEF Agrees
      <3>1. w \in Node /\ WellFormed(w)
        BY ValueIs
      <3>2. Encode(TextsOf, s, g, v) = Encode(TextsOf, r, h, w)
        BY <2>1, <3>1, NodeAgrees
      <3>3. TextsOf[v][<<s, g>>] = Encode(TextsOf, s, g, v)
        BY TextOfValue
      <3>4. TextsOf[w][<<r, h>>] = Encode(TextsOf, r, h, w)
        BY TextOfValue
      <3> QED BY <3>2, <3>3, <3>4
    <2> QED BY <2>2 DEF Agreeing
  <1> QED BY <1>1, <1>2, RankInduction

LEMMA DocumentsAgree ==
    ASSUME TypeOK, NEW a \in Author, NEW b \in Author, NEW s \in Sdk, NEW r \in Sdk,
           SaysTheSame(doc[a], doc[b]), Concordant(s, r, doc[a], doc[b]),
           s = "go" => MapLike(doc[a]), r = "go" => MapLike(doc[b])
    PROVE  CanonicalJSON(s, doc[a]) = CanonicalJSON(r, doc[b])
  <1> DEFINE v == doc[a]
             w == doc[b]
             html == FALSE
  <1>1. /\ v \in Node /\ WellFormed(v) /\ Components(v) \subseteq Agreeing
        /\ w \in Node /\ WellFormed(w)
    BY DocumentIs, ValuesAgree
  <1>2. html \in BOOLEAN /\ Plain(s, html, v) /\ Plain(r, html, w)
    BY DEF Plain
  <1>3. /\ CanonicalJSON(s, v) = Encode(TextsOf, s, html, v)
        /\ CanonicalJSON(r, w) = Encode(TextsOf, r, html, w)
    BY DEF CanonicalJSON
  <1>4. SaysTheSame(v, w) /\ Concordant(s, r, v, w)
    OBVIOUS
  <1> HIDE DEF v, w, html
  <1>5. Encode(TextsOf, s, html, v) = Encode(TextsOf, r, html, w)
    BY <1>1, <1>2, <1>4, NodeAgrees
  <1>6. CanonicalJSON(s, v) = CanonicalJSON(r, w)
    BY <1>3, <1>5
  <1> QED BY <1>6 DEF v, w

\* A document has one canonical text in an SDK (contracts.go:78-90,
\* canonicalJSON, canonical_json), however deep the order its keys were written in
\* goes: sorting leaves nothing of it.
THEOREM OneTextPerDocumentHolds == Spec => []OneTextPerDocument
  <1>1. TypeOK => OneTextPerDocument
    <2> SUFFICES ASSUME TypeOK, NEW a \in Author, NEW b \in Author, NEW sdk \in Sdk,
                        SaysTheSame(doc[a], doc[b]),
                        sdk = "go" => MapLike(doc[a]) /\ MapLike(doc[b])
                 PROVE  CanonicalJSON(sdk, doc[a]) = CanonicalJSON(sdk, doc[b])
      BY DEF OneTextPerDocument
    <2>1. Concordant(sdk, sdk, doc[a], doc[b])
      BY DEF Concordant
    <2> QED BY <2>1, DocumentsAgree
  <1> QED BY <1>1, TypeCorrect, PTL

\* The SDKs write one text for a portable document, whatever the order each of
\* them sorts in and whatever its texts and keys have to escape (contracts.go:83-90),
\* each of its Go references included (contracts.go:39-48).
THEOREM PortableSameTextHolds == Spec => []PortableSameText
  <1>1. TypeOK => PortableSameText
    <2> SUFFICES ASSUME TypeOK, NEW a \in Author, NEW b \in Author,
                        SaysTheSame(doc[a], doc[b]), Portable(doc[a]), Portable(doc[b])
                 PROVE  \A t, u \in CanonicalTexts(doc[a]) \cup CanonicalTexts(doc[b]) : t = u
      BY DEF PortableSameText
    <2>1. MapLike(doc[a]) /\ MapLike(doc[b])
      BY DEF Portable
    <2>2. ASSUME NEW s \in Sdk, NEW r \in Sdk
          PROVE  CanonicalJSON(s, doc[a]) = CanonicalJSON(r, doc[b])
      <3>1. Concordant(s, r, doc[a], doc[b])
        BY DEF Concordant
      <3> QED BY <2>1, <3>1, DocumentsAgree
    <2>3. "go" \in Sdk
      BY DEF Sdk
    <2> DEFINE go == CanonicalJSON("go", doc[a])
    <2>4. \A s \in Sdk : CanonicalJSON(s, doc[b]) = go
      BY <2>2, <2>3
    <2>5. \A s \in Sdk : CanonicalJSON(s, doc[a]) = go
      BY <2>2, <2>3, <2>4
    <2> HIDE DEF go
    <2>6. \A t \in CanonicalTexts(doc[a]) \cup CanonicalTexts(doc[b]) : t = go
      BY <2>4, <2>5 DEF CanonicalTexts
    <2> QED BY <2>6
  <1> QED BY <1>1, TypeCorrect, PTL
=============================================================================
