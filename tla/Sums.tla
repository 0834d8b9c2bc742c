-------------------------------- MODULE Sums --------------------------------
(***************************************************************************)
(* Sums over finite sets, as the folds of the community modules compute    *)
(* them: a recursive function on the subsets of a set picks an element,    *)
(* adds its value and goes on with the others.  The lemmas say that such a *)
(* function exists and that its sums do not depend on the order; the       *)
(* proofs about totals of lines, refunds and ledgers cite them.            *)
(***************************************************************************)
EXTENDS Integers, FiniteSetsExt, FiniteSetTheorems, TLAPS

\* f[s] is the sum of val over s, for every s within S.
Sums(f, S, pick, val) ==
  f = [s \in SUBSET S |-> IF s = {} THEN 0 ELSE val[pick[s]] + f[s \ {pick[s]}]]

Picks(pick, S) == \A s \in SUBSET S : s # {} => pick[s] \in s

Values(val, S) == \A x \in S : val[x] \in Int
Counts(val, S) == \A x \in S : val[x] \in Nat

\* Among some subsets of a finite set there is a least one.
LEMMA LeastSet ==
  ASSUME NEW S, IsFiniteSet(S), NEW Bad \in SUBSET SUBSET S, Bad # {}
  PROVE  \E T \in Bad : \A U \in SUBSET T : U # T => U \notin Bad
<1>1. Bad \subseteq FiniteSubsetsOf(S)
  BY FS_Subset DEF FiniteSubsetsOf
<1>2. \E T \in Bad : \A U \in Bad : ~(<<U, T>> \in StrictSubsetOrdering(S))
  BY <1>1, FS_StrictSubsetOrderingWellFounded, WFMin
<1>3. PICK T \in Bad : \A U \in Bad : ~(<<U, T>> \in StrictSubsetOrdering(S))
  BY <1>2
<1>4. ASSUME NEW U \in SUBSET T, U # T, U \in Bad PROVE FALSE
  <2>1. U \in SUBSET S /\ T \in SUBSET S
    BY <1>4
  <2>2. <<U, T>> \in StrictSubsetOrdering(S)
    BY <1>4, <2>1 DEF StrictSubsetOrdering
  <2> QED
    BY <1>3, <1>4, <2>2
<1> QED
  BY <1>4

LEMMA SumUnfolds ==
  ASSUME NEW f, NEW S, NEW pick, NEW val, Sums(f, S, pick, val), NEW T \in SUBSET S
  PROVE  f[T] = IF T = {} THEN 0 ELSE val[pick[T]] + f[T \ {pick[T]}]
BY DEF Sums

\* Sums over integers are integers.
LEMMA SumTyped ==
  ASSUME NEW f, NEW S, NEW pick, NEW val, IsFiniteSet(S), Picks(pick, S), Values(val, S),
         Sums(f, S, pick, val), NEW T \in SUBSET S
  PROVE  f[T] \in Int
<1> DEFINE Bad == {U \in SUBSET S : f[U] \notin Int}
<1>1. SUFFICES ASSUME Bad # {} PROVE FALSE
  OBVIOUS
<1>2. PICK U \in SUBSET S : U \in Bad /\ \A V \in SUBSET U : V # U => V \notin Bad
  <2>1. Bad \in SUBSET SUBSET S
    OBVIOUS
  <2> HIDE DEF Bad
  <2> QED
    BY <1>1, <2>1, LeastSet
<1>0. f[U] = IF U = {} THEN 0 ELSE val[pick[U]] + f[U \ {pick[U]}]
  BY SumUnfolds
<1>3. CASE U = {}
  BY <1>0, <1>2, <1>3
<1>4. CASE U # {}
  <2>1. pick[U] \in U
    BY <1>4 DEF Picks
  <2>2. f[U \ {pick[U]}] \in Int
    BY <1>2, <2>1
  <2>3. val[pick[U]] \in Int
    BY <2>1 DEF Values
  <2> QED
    BY <1>0, <1>2, <1>4, <2>2, <2>3
<1> QED
  BY <1>3, <1>4

\* Sums over naturals are naturals.
LEMMA SumNatural ==
  ASSUME NEW f, NEW S, NEW pick, NEW val, IsFiniteSet(S), Picks(pick, S),
         Counts(val, S), Sums(f, S, pick, val), NEW T \in SUBSET S
  PROVE  f[T] \in Nat
<1> DEFINE Bad == {U \in SUBSET S : f[U] \notin Nat}
<1>1. SUFFICES ASSUME Bad # {} PROVE FALSE
  OBVIOUS
<1>2. PICK U \in SUBSET S : U \in Bad /\ \A V \in SUBSET U : V # U => V \notin Bad
  <2>1. Bad \in SUBSET SUBSET S
    OBVIOUS
  <2> HIDE DEF Bad
  <2> QED
    BY <1>1, <2>1, LeastSet
<1>3. f[U] = IF U = {} THEN 0 ELSE val[pick[U]] + f[U \ {pick[U]}]
  BY SumUnfolds
<1>4. CASE U = {}
  BY <1>2, <1>3, <1>4
<1>5. CASE U # {}
  <2>1. pick[U] \in U
    BY <1>5 DEF Picks
  <2>2. f[U \ {pick[U]}] \in Nat
    BY <1>2, <2>1
  <2>3. val[pick[U]] \in Nat
    BY <2>1 DEF Counts
  <2> QED
    BY <1>2, <1>3, <1>5, <2>2, <2>3
<1> QED
  BY <1>4, <1>5

\* Whatever element is taken first.
LEMMA SumRemove ==
  ASSUME NEW f, NEW S, NEW pick, NEW val, IsFiniteSet(S), Picks(pick, S), Values(val, S),
         Sums(f, S, pick, val), NEW T \in SUBSET S, NEW z \in T
  PROVE  f[T] = f[T \ {z}] + val[z]
<1> DEFINE Bad == {U \in SUBSET S : \E x \in U : f[U] # f[U \ {x}] + val[x]}
<1>1. SUFFICES ASSUME Bad # {} PROVE FALSE
  OBVIOUS
<1>2. PICK U \in SUBSET S : U \in Bad /\ \A V \in SUBSET U : V # U => V \notin Bad
  <2>1. Bad \in SUBSET SUBSET S
    OBVIOUS
  <2> HIDE DEF Bad
  <2> QED
    BY <1>1, <2>1, LeastSet
<1>3. PICK x \in U : f[U] # f[U \ {x}] + val[x]
  BY <1>2
<1> DEFINE y == pick[U]
<1>4. y \in U /\ f[U] = f[U \ {y}] + val[y]
  <2>1. f[U] = IF U = {} THEN 0 ELSE val[pick[U]] + f[U \ {pick[U]}]
    BY SumUnfolds
  <2>2. y \in U
    BY <1>3 DEF Picks
  <2>3. f[U \ {y}] \in Int /\ val[y] \in Int
    BY <2>2, SumTyped DEF Values
  <2> QED
    BY <2>1, <2>2, <2>3
<1>5. x # y
  BY <1>3, <1>4
<1>6. f[U \ {y}] = f[(U \ {y}) \ {x}] + val[x]
  BY <1>2, <1>4, <1>5
<1>7. f[U \ {x}] = f[(U \ {x}) \ {y}] + val[y]
  BY <1>2, <1>3, <1>4, <1>5
<1>8. (U \ {y}) \ {x} = (U \ {x}) \ {y}
  OBVIOUS
<1> DEFINE rest == f[(U \ {y}) \ {x}]
<1>9. rest \in Int /\ val[x] \in Int /\ val[y] \in Int
  BY <1>3, <1>4, SumTyped DEF Values
<1>10. f[U] = (rest + val[x]) + val[y]
  BY <1>4, <1>6
<1>11. f[U \ {x}] = rest + val[y]
  BY <1>7, <1>8
<1> HIDE DEF y, rest
<1> QED
  BY <1>3, <1>9, <1>10, <1>11

\* Two sums over the same values are the same, in whatever order they are taken.
LEMMA SumsAgree ==
  ASSUME NEW f, NEW A, NEW p, NEW v, IsFiniteSet(A), Picks(p, A), Values(v, A), Sums(f, A, p, v),
         NEW g, NEW B, NEW q, NEW w, IsFiniteSet(B), Picks(q, B), Values(w, B), Sums(g, B, q, w),
         NEW T \in SUBSET (A \cap B), \A x \in T : v[x] = w[x]
  PROVE  f[T] = g[T]
<1> DEFINE Bad == {U \in SUBSET T : f[U] # g[U]}
<1>1. SUFFICES ASSUME Bad # {} PROVE FALSE
  OBVIOUS
<1>2. IsFiniteSet(T)
  BY FS_Subset
<1>3. PICK U \in SUBSET T : U \in Bad /\ \A V \in SUBSET U : V # U => V \notin Bad
  <2>1. Bad \in SUBSET SUBSET T
    OBVIOUS
  <2> HIDE DEF Bad
  <2> QED
    BY <1>1, <1>2, <2>1, LeastSet
<1>4. CASE U = {}
  BY <1>3, <1>4, SumUnfolds
<1>5. CASE U # {}
  <2>1. PICK x \in U : TRUE
    BY <1>5
  <2>2. f[U \ {x}] = g[U \ {x}]
    BY <1>3, <2>1
  <2>3. f[U] = f[U \ {x}] + v[x]
    BY <2>1, SumRemove
  <2>4. g[U] = g[U \ {x}] + w[x]
    BY <2>1, SumRemove
  <2> QED
    BY <1>3, <2>2, <2>3, <2>4
<1> QED
  BY <1>4, <1>5

\* There is a sum.
LEMMA SumExists ==
  ASSUME NEW S, NEW pick, NEW val, IsFiniteSet(S), Picks(pick, S), Values(val, S)
  PROVE  \E f : Sums(f, S, pick, val)
<1> DEFINE Bad == {U \in SUBSET S : ~ \E f : Sums(f, U, pick, val)}
<1>1. SUFFICES ASSUME Bad # {} PROVE FALSE
  OBVIOUS
<1>2. PICK T \in SUBSET S : T \in Bad /\ \A U \in SUBSET T : U # T => U \notin Bad
  <2>1. Bad \in SUBSET SUBSET S
    OBVIOUS
  <2> HIDE DEF Bad
  <2> QED
    BY <1>1, <2>1, LeastSet
<1>3. \A U \in SUBSET T : IsFiniteSet(U) /\ Picks(pick, U) /\ Values(val, U)
  BY FS_Subset DEF Picks, Values
<1> DEFINE h(U) == CHOOSE f : Sums(f, U, pick, val)
           rest(U) == U \ {pick[U]}
           g == [s \in SUBSET T |-> IF s = {} THEN 0 ELSE val[pick[s]] + h(rest(s))[rest(s)]]
<1>4. ASSUME NEW U \in SUBSET T, U # T PROVE Sums(h(U), U, pick, val)
  BY <1>2, <1>4
<1>5. ASSUME NEW s \in SUBSET T, s # {}
      PROVE  /\ rest(s) \in SUBSET T /\ rest(s) # T
             /\ h(rest(s))[rest(s)] = g[rest(s)]
  <2>1. pick[s] \in s
    BY <1>5 DEF Picks
  <2>2. rest(s) \in SUBSET T /\ rest(s) # T
    BY <2>1
  <2> DEFINE r == rest(s)
  <2>3. Sums(h(r), r, pick, val)
    BY <1>4, <2>2
  <2>4. h(r)[r] = IF r = {} THEN 0 ELSE val[pick[r]] + h(r)[rest(r)]
    <3> HIDE DEF h, r
    <3> QED
      BY <2>3, SumUnfolds
  <2>5. CASE r = {}
    BY <2>2, <2>4, <2>5
  <2>6. CASE r # {}
    <3>1. pick[r] \in r
      BY <2>2, <2>6 DEF Picks
    <3>2. rest(r) \in SUBSET r /\ rest(r) \in SUBSET T /\ rest(r) # T
      BY <2>2, <3>1
    <3>3. Sums(h(rest(r)), rest(r), pick, val)
      BY <1>4, <3>2
    <3>4. h(r)[rest(r)] = h(rest(r))[rest(r)]
      BY <1>3, <2>2, <2>3, <3>2, <3>3, SumsAgree
    <3> QED
      BY <2>2, <2>4, <2>6, <3>4
  <2> QED
    BY <2>2, <2>5, <2>6
<1>6. Sums(g, T, pick, val)
  <2>1. ASSUME NEW s \in SUBSET T
        PROVE  g[s] = IF s = {} THEN 0 ELSE val[pick[s]] + g[s \ {pick[s]}]
    <3> HIDE DEF h
    <3> QED
      BY <1>5, <2>1
  <2>2. g = [s \in SUBSET T |-> g[s]]
    OBVIOUS
  <2> HIDE DEF g
  <2> QED
    BY <2>1, <2>2 DEF Sums
<1> QED
  BY <1>2, <1>6
-----------------------------------------------------------------------------
(***************************************************************************)
(* SumsTo: t is what the values of the elements of S sum to                *)
(***************************************************************************)
SumsTo(t, S, val) ==
  /\ IsFiniteSet(S) /\ Values(val, S)
  /\ \E pick, f : Picks(pick, S) /\ Sums(f, S, pick, val) /\ t = f[S]

LEMMA TotalTyped ==
  ASSUME NEW t, NEW S, NEW val, SumsTo(t, S, val)
  PROVE  t \in Int /\ (Counts(val, S) => t \in Nat)
<1>1. PICK pick, f : Picks(pick, S) /\ Sums(f, S, pick, val) /\ t = f[S]
  BY DEF SumsTo
<1> QED
  BY <1>1, SumTyped, SumNatural DEF SumsTo

LEMMA TotalNone ==
  ASSUME NEW t, NEW val, SumsTo(t, {}, val)
  PROVE  t = 0
<1>1. PICK pick, f : Picks(pick, {}) /\ Sums(f, {}, pick, val) /\ t = f[{}]
  BY DEF SumsTo
<1> QED
  BY <1>1, SumUnfolds

\* A total depends on the values only.
LEMMA TotalSame ==
  ASSUME NEW t, NEW u, NEW S, NEW v, NEW w, SumsTo(t, S, v), SumsTo(u, S, w),
         \A x \in S : v[x] = w[x]
  PROVE  t = u
<1>1. PICK p, f : Picks(p, S) /\ Sums(f, S, p, v) /\ t = f[S]
  BY DEF SumsTo
<1>2. PICK q, g : Picks(q, S) /\ Sums(g, S, q, w) /\ u = g[S]
  BY DEF SumsTo
<1>3. IsFiniteSet(S) /\ Values(v, S) /\ Values(w, S) /\ S \in SUBSET (S \cap S)
  BY DEF SumsTo
<1>4. f[S] = g[S]
  BY <1>1, <1>2, <1>3, SumsAgree
<1> QED
  BY <1>1, <1>2, <1>4

\* S has the values v, that of z among them; R has all of these but that of z.
Less(R, w, S, v, z) == z \in S /\ R = S \ {z} /\ \A x \in R : v[x] = w[x]

\* One element less, one value less.
LEMMA TotalLess ==
  ASSUME NEW t, NEW u, NEW S, NEW R, NEW z, NEW v, NEW w, Less(R, w, S, v, z),
         SumsTo(t, S, v), SumsTo(u, R, w)
  PROVE  t = u + v[z]
<1>1. PICK p, f : Picks(p, S) /\ Sums(f, S, p, v) /\ t = f[S]
  BY DEF SumsTo
<1>2. PICK q, g : Picks(q, R) /\ Sums(g, R, q, w) /\ u = g[R]
  BY DEF SumsTo
<1>3. /\ IsFiniteSet(S) /\ Values(v, S) /\ IsFiniteSet(R) /\ Values(w, R)
      /\ z \in S /\ S \in SUBSET S /\ R = S \ {z} /\ R \in SUBSET (S \cap R)
      /\ \A x \in R : v[x] = w[x]
  BY DEF SumsTo, Less
<1>4. f[S] = f[R] + v[z]
  BY <1>1, <1>3, SumRemove
<1>5. f[R] = g[R]
  BY <1>1, <1>2, <1>3, SumsAgree
<1> QED
  BY <1>1, <1>2, <1>4, <1>5

\* More to count is not less in all.
LEMMA TotalMore ==
  ASSUME NEW t, NEW u, NEW S, NEW R, NEW v, NEW w, SumsTo(t, S, v), SumsTo(u, R, w),
         R \subseteq S, Counts(v, S), \A x \in R : v[x] = w[x]
  PROVE  u <= t
<1>1. PICK p, f : Picks(p, S) /\ Sums(f, S, p, v) /\ t = f[S]
  BY DEF SumsTo
<1>2. PICK q, g : Picks(q, R) /\ Sums(g, R, q, w) /\ u = g[R]
  BY DEF SumsTo
<1>3. /\ IsFiniteSet(S) /\ Values(v, S) /\ IsFiniteSet(R) /\ Values(w, R)
      /\ R \in SUBSET (S \cap R)
  BY DEF SumsTo
<1>4. f[R] = g[R]
  BY <1>1, <1>2, <1>3, SumsAgree
<1> DEFINE Bad == {U \in SUBSET S : R \subseteq U /\ ~(f[R] <= f[U])}
<1>5. SUFFICES ASSUME Bad # {} PROVE FALSE
  BY <1>1, <1>2, <1>4
<1>6. PICK U \in SUBSET S : U \in Bad /\ \A V \in SUBSET U : V # U => V \notin Bad
  <2>1. Bad \in SUBSET SUBSET S
    OBVIOUS
  <2> HIDE DEF Bad
  <2> QED
    BY <1>3, <1>5, <2>1, LeastSet
<1>7. f[R] \in Int /\ \A V \in SUBSET S : f[V] \in Int
  BY <1>1, <1>3, SumTyped
<1>8. PICK z \in U : z \notin R
  <2>1. R \subseteq U /\ U # R
    BY <1>6, <1>7
  <2> QED
    BY <2>1
<1>9. f[R] <= f[U \ {z}]
  BY <1>6, <1>8
<1>10. f[U] = f[U \ {z}] + v[z] /\ v[z] \in Nat
  BY <1>1, <1>3, <1>6, <1>8, SumRemove DEF Counts
<1> QED
  BY <1>6, <1>7, <1>9, <1>10
\* Every finite set has a total.
LEMMA TotalExists ==
  ASSUME NEW S, NEW val, IsFiniteSet(S), Values(val, S)
  PROVE  \E t : SumsTo(t, S, val)
<1> DEFINE pick == [s \in SUBSET S |-> CHOOSE x \in s : TRUE]
<1>1. Picks(pick, S)
  BY DEF Picks
<1> HIDE DEF pick
<1>2. PICK f : Sums(f, S, pick, val)
  BY <1>1, SumExists
<1> QED
  BY <1>1, <1>2 DEF SumsTo

\* A value that is put in the place of another, or added, adds no more than itself.
Put(val, S, r, x) == [k \in S \cup {r} |-> IF k = r THEN x ELSE val[k]]

LEMMA TotalPut ==
  ASSUME NEW u, NEW S, NEW val, SumsTo(u, S, val), Counts(val, S), NEW r, NEW x \in Nat
  PROVE  /\ Counts(Put(val, S, r, x), S \cup {r})
         /\ \E v : SumsTo(v, S \cup {r}, Put(val, S, r, x)) /\ v <= u + x
<1> DEFINE T == S \cup {r}
           put == Put(val, S, r, x)
           R == T \ {r}
<1>1. IsFiniteSet(S) /\ u \in Int
  BY TotalTyped DEF SumsTo
<1>2. IsFiniteSet(T) /\ IsFiniteSet(R)
  <2>1. IsFiniteSet(T)
    BY <1>1, FS_AddElement
  <2> QED
    BY <2>1, FS_Subset
<1>3. /\ Counts(put, T) /\ Values(put, T) /\ Values(val, R)
      /\ R \subseteq S /\ r \in T /\ put[r] = x /\ \A k \in R : put[k] = val[k]
  BY DEF Counts, Values, Put
<1> HIDE DEF put
<1>4. PICK v : SumsTo(v, T, put)
  BY <1>2, <1>3, TotalExists
<1>5. PICK v2 : SumsTo(v2, R, val)
  BY <1>2, <1>3, TotalExists
<1>6. v = v2 + x
  <2>1. Less(R, val, T, put, r)
    BY <1>3 DEF Less
  <2> HIDE DEF T, R
  <2>2. v = v2 + put[r]
    BY <1>4, <1>5, <2>1, TotalLess
  <2> QED
    BY <1>3, <2>2
<1>7. v2 <= u /\ v2 \in Int
  BY <1>3, <1>5, TotalMore, TotalTyped
<1>8. v <= u + x
  BY <1>1, <1>6, <1>7
<1> QED
  BY <1>3, <1>4, <1>8 DEF put
-----------------------------------------------------------------------------
(***************************************************************************)
(* How many pieces the lines S of a table, or of a sequence, are for       *)
(***************************************************************************)
Pieces(table, S) == MapThenSumSet(LAMBDA i : table[i].qty, S)

Quantified(table, S) == IsFiniteSet(S) /\ \A i \in S : table[i].qty \in Nat

Qty(table, S) == [i \in S |-> table[i].qty]

LEMMA PiecesTotal ==
  ASSUME NEW table, NEW S, Quantified(table, S)
  PROVE  SumsTo(Pieces(table, S), S, Qty(table, S)) /\ Counts(Qty(table, S), S)
<1> DEFINE pick == [s \in SUBSET S |-> CHOOSE x \in s : TRUE]
           val == Qty(table, S)
           Iter(f) == f = [s \in SUBSET S |->
                            IF s = {} THEN 0
                            ELSE table[CHOOSE x \in s : TRUE].qty
                                 + f[s \ {CHOOSE x \in s : TRUE}]]
<1>1. Picks(pick, S) /\ Values(val, S) /\ Counts(val, S) /\ IsFiniteSet(S)
  BY DEF Picks, Values, Counts, Qty, Quantified
<1>2. ASSUME NEW f PROVE Sums(f, S, pick, val) <=> Iter(f)
  <2>1. ASSUME NEW s \in SUBSET S, s # {}
        PROVE  val[pick[s]] + f[s \ {pick[s]}]
                = table[CHOOSE x \in s : TRUE].qty + f[s \ {CHOOSE x \in s : TRUE}]
    BY <2>1 DEF Qty
  <2> HIDE DEF pick, val
  <2> QED
    BY <2>1 DEF Sums
<1>3. \E f : Iter(f)
  <2> HIDE DEF Iter, pick, val
  <2> QED
    BY <1>1, <1>2, SumExists
<1>4. Pieces(table, S) = (CHOOSE f : Iter(f))[S]
  BY DEF Pieces, MapThenSumSet, MapThenFoldSet
<1> HIDE DEF Iter, pick, val
<1>5. Iter(CHOOSE f : Iter(f))
  BY <1>3
<1>6. SumsTo(Pieces(table, S), S, val)
  BY <1>1, <1>2, <1>4, <1>5 DEF SumsTo
<1> QED
  BY <1>1, <1>6 DEF val

\* Pieces are naturals; no line is for none; a line is for its quantity; only the
\* quantities of the lines count.
LEMMA PiecesTyped ==
  ASSUME NEW table, NEW S, Quantified(table, S)
  PROVE  Pieces(table, S) \in Nat
BY PiecesTotal, TotalTyped

LEMMA PiecesNone ==
  ASSUME NEW table
  PROVE  Pieces(table, {}) = 0
<1>1. Quantified(table, {})
  BY FS_EmptySet DEF Quantified
<1> QED
  BY <1>1, PiecesTotal, TotalNone

LEMMA PiecesSplit ==
  ASSUME NEW table, NEW S, Quantified(table, S), NEW z \in S
  PROVE  Pieces(table, S) = Pieces(table, S \ {z}) + table[z].qty
<1> DEFINE R == S \ {z}
<1>1. Quantified(table, R)
  BY FS_Subset DEF Quantified
<1>2. Less(R, Qty(table, R), S, Qty(table, S), z) /\ Qty(table, S)[z] = table[z].qty
  BY DEF Less, Qty
<1> HIDE DEF R
<1>3. Pieces(table, S) = Pieces(table, R) + Qty(table, S)[z]
  BY <1>1, <1>2, PiecesTotal, TotalLess
<1> QED
  BY <1>2, <1>3 DEF R

LEMMA PiecesSame ==
  ASSUME NEW t, NEW u, NEW S, Quantified(t, S), \A i \in S : t[i].qty = u[i].qty
  PROVE  Pieces(t, S) = Pieces(u, S)
<1>1. Quantified(u, S)
  BY DEF Quantified
<1>2. \A x \in S : Qty(t, S)[x] = Qty(u, S)[x]
  BY DEF Qty
<1> QED
  BY <1>1, <1>2, PiecesTotal, TotalSame
-----------------------------------------------------------------------------
(***************************************************************************)
(* What the rows S of a table are for in all                                *)
(***************************************************************************)
Money(table, S) == MapThenSumSet(LAMBDA i : table[i].amount, S)

Priced(table, S) == IsFiniteSet(S) /\ \A i \in S : table[i].amount \in Nat

Amount(table, S) == [i \in S |-> table[i].amount]

LEMMA MoneyTotal ==
  ASSUME NEW table, NEW S, Priced(table, S)
  PROVE  SumsTo(Money(table, S), S, Amount(table, S)) /\ Counts(Amount(table, S), S)
<1> DEFINE pick == [s \in SUBSET S |-> CHOOSE x \in s : TRUE]
           val == Amount(table, S)
           Iter(f) == f = [s \in SUBSET S |->
                            IF s = {} THEN 0
                            ELSE table[CHOOSE x \in s : TRUE].amount
                                 + f[s \ {CHOOSE x \in s : TRUE}]]
<1>1. Picks(pick, S) /\ Values(val, S) /\ Counts(val, S) /\ IsFiniteSet(S)
  BY DEF Picks, Values, Counts, Amount, Priced
<1>2. ASSUME NEW f PROVE Sums(f, S, pick, val) <=> Iter(f)
  <2>1. ASSUME NEW s \in SUBSET S, s # {}
        PROVE  val[pick[s]] + f[s \ {pick[s]}]
                = table[CHOOSE x \in s : TRUE].amount + f[s \ {CHOOSE x \in s : TRUE}]
    BY <2>1 DEF Amount
  <2> HIDE DEF pick, val
  <2> QED
    BY <2>1 DEF Sums
<1>3. \E f : Iter(f)
  <2> HIDE DEF Iter, pick, val
  <2> QED
    BY <1>1, <1>2, SumExists
<1>4. Money(table, S) = (CHOOSE f : Iter(f))[S]
  BY DEF Money, MapThenSumSet, MapThenFoldSet
<1> HIDE DEF Iter, pick, val
<1>5. Iter(CHOOSE f : Iter(f))
  BY <1>3
<1>6. SumsTo(Money(table, S), S, val)
  BY <1>1, <1>2, <1>4, <1>5 DEF SumsTo
<1> QED
  BY <1>1, <1>6 DEF val

\* No row is for nothing, a single one for its amount.
LEMMA MoneyNone ==
  ASSUME NEW table
  PROVE  Money(table, {}) = 0
<1>1. Priced(table, {})
  BY FS_EmptySet DEF Priced
<1> QED
  BY <1>1, MoneyTotal, TotalNone

LEMMA MoneyOne ==
  ASSUME NEW table, NEW z, table[z].amount \in Nat
  PROVE  Money(table, {z}) = table[z].amount
<1>1. IsFiniteSet({z}) /\ IsFiniteSet({})
  BY FS_Singleton, FS_EmptySet
<1>2. Priced(table, {z}) /\ Priced(table, {})
  BY <1>1 DEF Priced
<1>3. SumsTo(Money(table, {z}), {z}, Amount(table, {z}))
  BY <1>2, MoneyTotal
<1>4. Money(table, {z}) = 0 + Amount(table, {z})[z]
  <2>1. Less({}, Amount(table, {}), {z}, Amount(table, {z}), z)
    BY DEF Less
  <2>2. SumsTo(0, {}, Amount(table, {}))
    BY <1>2, MoneyTotal, MoneyNone
  <2> QED
    BY <1>3, <2>1, <2>2, TotalLess
<1> QED
  BY <1>4 DEF Amount
-----------------------------------------------------------------------------
\* The greatest of some numbers up to a bound, as Max of the community modules
\* chooses it.
LEMMA MaxIs ==
  ASSUME NEW n \in Nat, NEW S \in SUBSET (1..n), S # {}
  PROVE  Max(S) \in S /\ \A y \in S : y <= Max(S)
<1> DEFINE From(m) == {y \in S : m <= y}
           Tails == {From(m) : m \in S}
<1>1. IsFiniteSet(S)
  <2>1. IsFiniteSet(1..n)
    BY FS_Interval
  <2> QED
    BY <2>1, FS_Subset
<1>2. PICK T \in Tails : \A U \in SUBSET T : U # T => U \notin Tails
  <2>1. Tails \in SUBSET SUBSET S /\ Tails # {}
    OBVIOUS
  <2> HIDE DEF Tails
  <2> QED
    BY <1>1, <2>1, LeastSet
<1>3. PICK m \in S : T = From(m)
  OBVIOUS
<1>4. ASSUME NEW y \in S, ~(y <= m) PROVE FALSE
  <2>1. y \in Int /\ m \in Int /\ m < y /\ \A z \in S : z \in Int
    BY <1>4
  <2>2. From(y) \in SUBSET T
    <3>1. \A z \in S : y <= z => m <= z
      BY <2>1
    <3> QED
      BY <1>3, <3>1
  <2>3. m \in T /\ m \notin From(y)
    BY <1>3, <2>1
  <2>4. From(y) # T
    BY <2>3
  <2>5. From(y) \in Tails
    OBVIOUS
  <2> HIDE DEF From, Tails
  <2> QED
    BY <1>2, <2>2, <2>4, <2>5
<1>5. \E z \in S : \A y \in S : z >= y
  BY <1>4
<1> QED
  BY <1>5 DEF Max

\* One more, greater than the others, is the greatest.
LEMMA MaxOfMore ==
  ASSUME NEW n \in Nat, NEW S \in SUBSET (1..n)
  PROVE  Max(S \cup {n + 1}) = n + 1
<1>1. S \cup {n + 1} \in SUBSET (1..(n + 1)) /\ S \cup {n + 1} # {} /\ n + 1 \in Nat
  OBVIOUS
<1>2. /\ Max(S \cup {n + 1}) \in S \cup {n + 1}
      /\ \A y \in S \cup {n + 1} : y <= Max(S \cup {n + 1})
  BY <1>1, MaxIs
<1> DEFINE m == Max(S \cup {n + 1})
<1>3. m \in S \cup {n + 1} /\ n + 1 <= m /\ \A y \in S : y <= n
  BY <1>2
<1> HIDE DEF m
<1>4. m = n + 1
  BY <1>3
<1> QED
  BY <1>4 DEF m
-----------------------------------------------------------------------------
(***************************************************************************)
(* What the log rows S of a handler say a stock changed by                  *)
(***************************************************************************)
Moves(table, S) == MapThenSumSet(LAMBDA i : table[i].quantity_change, S)

Moved(table, S) == IsFiniteSet(S) /\ \A i \in S : table[i].quantity_change \in Int

Move(table, S) == [i \in S |-> table[i].quantity_change]

LEMMA MovesTotal ==
  ASSUME NEW table, NEW S, Moved(table, S)
  PROVE  SumsTo(Moves(table, S), S, Move(table, S))
<1> DEFINE pick == [s \in SUBSET S |-> CHOOSE x \in s : TRUE]
           val == Move(table, S)
           Iter(f) == f = [s \in SUBSET S |->
                            IF s = {} THEN 0
                            ELSE table[CHOOSE x \in s : TRUE].quantity_change
                                 + f[s \ {CHOOSE x \in s : TRUE}]]
<1>1. Picks(pick, S) /\ Values(val, S) /\ IsFiniteSet(S)
  BY DEF Picks, Values, Move, Moved
<1>2. ASSUME NEW f PROVE Sums(f, S, pick, val) <=> Iter(f)
  <2>1. ASSUME NEW s \in SUBSET S, s # {}
        PROVE  val[pick[s]] + f[s \ {pick[s]}]
                = table[CHOOSE x \in s : TRUE].quantity_change + f[s \ {CHOOSE x \in s : TRUE}]
    BY <2>1 DEF Move
  <2> HIDE DEF pick, val
  <2> QED
    BY <2>1 DEF Sums
<1>3. \E f : Iter(f)
  <2> HIDE DEF Iter, pick, val
  <2> QED
    BY <1>1, <1>2, SumExists
<1>4. Moves(table, S) = (CHOOSE f : Iter(f))[S]
  BY DEF Moves, MapThenSumSet, MapThenFoldSet
<1> HIDE DEF Iter, pick, val
<1>5. Iter(CHOOSE f : Iter(f))
  BY <1>3
<1>6. SumsTo(Moves(table, S), S, val)
  BY <1>1, <1>2, <1>4, <1>5 DEF SumsTo
<1> QED
  BY <1>6 DEF val

\* No row says nothing changed; a row more, its change more.
LEMMA MovesNone ==
  ASSUME NEW table
  PROVE  Moves(table, {}) = 0
<1>1. Moved(table, {})
  BY FS_EmptySet DEF Moved
<1> QED
  BY <1>1, MovesTotal, TotalNone

LEMMA MovesMore ==
  ASSUME NEW t, NEW u, NEW S, Moved(t, S), NEW z \in S, \A i \in S \ {z} : t[i] = u[i]
  PROVE  /\ Moves(t, S) = Moves(u, S \ {z}) + t[z].quantity_change
         /\ Moves(u, S \ {z}) \in Int
<1> DEFINE R == S \ {z}
<1>1. Moved(u, R)
  BY FS_Subset DEF Moved
<1>2. Less(R, Move(u, R), S, Move(t, S), z) /\ Move(t, S)[z] = t[z].quantity_change
  BY DEF Less, Move
<1> HIDE DEF R
<1>3. Moves(t, S) = Moves(u, R) + Move(t, S)[z]
  BY <1>1, <1>2, MovesTotal, TotalLess
<1>4. Moves(u, R) \in Int
  BY <1>1, MovesTotal, TotalTyped
<1> QED
  BY <1>2, <1>3, <1>4 DEF R
=============================================================================
