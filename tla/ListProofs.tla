---------------------------- MODULE ListProofs ------------------------------
(***************************************************************************)
(* What Kept and FlattenSeq compute for every sequence, and Sorted and     *)
(* Arranged for every finite set; and, for any recursive function of the   *)
(* position, that it exists and what holds all along it.  They go by       *)
(* induction over the naturals.  The induction rule is derived here from   *)
(* the well-foundedness of <, with a set in the place of the predicate, a  *)
(* form that every backend handles.                                        *)
(***************************************************************************)
EXTENDS Lists, SequencesExt, SequenceTheorems, FiniteSetTheorems, WellFoundedInduction, TLAPS

Smaller == {p \in Nat \X Nat : p[1] < p[2]}

\* < is well founded on the naturals.
LEMMA SmallerWellFounded == IsWellFoundedOn(Smaller, Nat)
BY NatLessThanWellFounded DEF OpToRel, Smaller

\* A set of naturals that is not empty has a least element.
LEMMA LeastElement ==
    ASSUME NEW T, T \subseteq Nat, T # {} PROVE \E m \in T : \A n \in T : m <= n
<1>1. PICK m \in T : \A n \in T : ~(<<n, m>> \in Smaller)
  BY SmallerWellFounded, WFMin
<1>2. \A n \in T : ~(n < m)
  BY <1>1 DEF Smaller
<1> QED BY <1>2

\* Induction: a set with 0 and with the successor of each of its naturals
\* holds every natural.
LEMMA SetInduction ==
    ASSUME NEW S, 0 \in S, \A n \in S \cap Nat : n + 1 \in S PROVE Nat \subseteq S
<1> DEFINE T == Nat \ S
<1> SUFFICES ASSUME T # {} PROVE FALSE
  OBVIOUS
<1>1. PICK m \in T : \A n \in T : m <= n
  BY LeastElement
<1>2. m - 1 \in S \cap Nat
  BY <1>1
<1> QED BY <1>2

-----------------------------------------------------------------------------
\* f is the function by which Kept(s, S) goes through the first n elements.
Keeps(f, n, s, S) ==
    f = [i \in 0..n |-> IF i = 0 THEN << >>
                        ELSE IF s[i] \in S THEN Append(f[i - 1], s[i]) ELSE f[i - 1]]

\* There is such a function for every length.
LEMMA KeepsExists == ASSUME NEW s, NEW S PROVE \A n \in Nat : \E f : Keeps(f, n, s, S)
<1> DEFINE G == {n \in Nat : \E f : Keeps(f, n, s, S)}
<1>1. 0 \in G
  <2> DEFINE g == [i \in 0..0 |-> << >>]
  <2>1. Keeps(g, 0, s, S)
    BY DEF Keeps
  <2> QED BY <2>1
<1>2. ASSUME NEW n \in G PROVE n + 1 \in G
  <2>1. PICK f : Keeps(f, n, s, S)
    BY <1>2
  <2> DEFINE e == IF s[n + 1] \in S THEN Append(f[n], s[n + 1]) ELSE f[n]
             g == [i \in 0..(n + 1) |-> IF i = n + 1 THEN e ELSE f[i]]
  <2>2. (\A i \in 0..n : g[i] = f[i]) /\ g[n + 1] = e
    OBVIOUS
  <2>3. \A i \in 0..n : f[i] = IF i = 0 THEN << >>
                               ELSE IF s[i] \in S THEN Append(f[i - 1], s[i]) ELSE f[i - 1]
    BY <2>1 DEF Keeps
  <2>4. g = [i \in 0..(n + 1) |-> g[i]]
    OBVIOUS
  <2> HIDE DEF g
  <2>5. \A i \in 0..(n + 1) :
           g[i] = IF i = 0 THEN << >>
                  ELSE IF s[i] \in S THEN Append(g[i - 1], s[i]) ELSE g[i - 1]
    BY <2>2, <2>3
  <2>6. Keeps(g, n + 1, s, S)
    BY <2>4, <2>5 DEF Keeps
  <2> QED BY <2>6
<1> HIDE DEF G
<1>3. Nat \subseteq G
  BY <1>1, <1>2, SetInduction
<1> QED BY <1>3 DEF G

\* Kept is the last value of that function.
LEMMA KeptIsLast ==
    ASSUME NEW s, Len(s) \in Nat, NEW S
    PROVE  \E f : Keeps(f, Len(s), s, S) /\ Kept(s, S) = f[Len(s)]
<1> DEFINE g == CHOOSE f : Keeps(f, Len(s), s, S)
<1>1. \E f : Keeps(f, Len(s), s, S)
  BY KeepsExists
<1>2. Keeps(g, Len(s), s, S)
  BY <1>1, Zenon
<1>3. Kept(s, S) = g[Len(s)]
  BY DEF Kept, Keeps
<1> QED BY <1>2, <1>3

\* Kept returns a sequence of the same kind, and its elements are those of
\* the given sequence that are in S: none is lost, none is added.
LEMMA KeptElements ==
    ASSUME NEW T, NEW s \in Seq(T), NEW S
    PROVE  /\ Kept(s, S) \in Seq(T)
           /\ ToSet(Kept(s, S)) = ToSet(s) \cap S
<1>l. Len(s) \in Nat /\ DOMAIN s = 1..Len(s) /\ \A i \in 1..Len(s) : s[i] \in T
  OBVIOUS
<1>1. PICK f : Keeps(f, Len(s), s, S) /\ Kept(s, S) = f[Len(s)]
  BY <1>l, KeptIsLast
<1>2. \A i \in 0..Len(s) :
         f[i] = IF i = 0 THEN << >>
                ELSE IF s[i] \in S THEN Append(f[i - 1], s[i]) ELSE f[i - 1]
  BY <1>1 DEF Keeps
<1> DEFINE Upto(i) == {s[j] : j \in 1..i} \cap S
           G == {n \in Nat : n <= Len(s) => f[n] \in Seq(T) /\ ToSet(f[n]) = Upto(n)}
<1>3. 0 \in G
  <2>1. f[0] = << >>
    BY <1>2, <1>l
  <2>2. << >> \in Seq(T) /\ ToSet(<< >>) = {}
    BY DEF ToSet
  <2>3. 1..0 = {}
    OBVIOUS
  <2>4. Upto(0) = {}
    BY <2>3
  <2> QED BY <2>1, <2>2, <2>4
<1>4. ASSUME NEW n \in G \cap Nat PROVE n + 1 \in G
  <2> SUFFICES ASSUME n + 1 <= Len(s)
               PROVE  f[n + 1] \in Seq(T) /\ ToSet(f[n + 1]) = Upto(n + 1)
    BY <1>4
  <2>1. f[n] \in Seq(T) /\ ToSet(f[n]) = Upto(n) /\ s[n + 1] \in T
    BY <1>4, <1>l
  <2>2. f[n + 1] = IF s[n + 1] \in S THEN Append(f[n], s[n + 1]) ELSE f[n]
    BY <1>2, <1>l
  <2>3. {s[j] : j \in 1..(n + 1)} = {s[j] : j \in 1..n} \cup {s[n + 1]}
    <3>1. 1..(n + 1) = (1..n) \cup {n + 1}
      OBVIOUS
    <3> QED BY <3>1
  <2>4. CASE s[n + 1] \in S
    <3>1. f[n + 1] = Append(f[n], s[n + 1])
      BY <2>2, <2>4
    <3>2. ToSet(Append(f[n], s[n + 1])) = ToSet(f[n]) \cup {s[n + 1]}
      <4> DEFINE u == Append(f[n], s[n + 1])
      <4>1. /\ DOMAIN u = (DOMAIN f[n]) \cup {Len(f[n]) + 1}
            /\ \A j \in DOMAIN f[n] : u[j] = f[n][j]
            /\ u[Len(f[n]) + 1] = s[n + 1]
        BY <2>1
      <4> QED BY <4>1 DEF ToSet
    <3> QED BY <2>1, <2>3, <2>4, <3>1, <3>2
  <2>5. CASE s[n + 1] \notin S
    BY <2>1, <2>2, <2>3, <2>5
  <2> QED BY <2>4, <2>5
<1> HIDE DEF G
<1>5. Len(s) \in G
  BY <1>l, <1>3, <1>4, SetInduction
<1>6. Kept(s, S) \in Seq(T) /\ ToSet(Kept(s, S)) = Upto(Len(s))
  BY <1>1, <1>5 DEF G
<1>7. ToSet(s) = {s[j] : j \in 1..Len(s)}
  BY <1>l DEF ToSet
<1> QED BY <1>6, <1>7

\* Two such functions, along lists that begin alike, agree on that beginning.
LEMMA KeepsAgree ==
    ASSUME NEW s, NEW t, NEW S
    PROVE  \A n, m \in Nat : \A f, g :
              /\ n <= m /\ Keeps(f, n, s, S) /\ Keeps(g, m, t, S)
              /\ \A i \in 1..n : s[i] = t[i]
              => f[n] = g[n]
<1> SUFFICES ASSUME NEW n \in Nat, NEW m \in Nat, NEW f, NEW g, n <= m,
                    Keeps(f, n, s, S), Keeps(g, m, t, S), \A i \in 1..n : s[i] = t[i]
             PROVE  f[n] = g[n]
  OBVIOUS
<1>1. \A i \in 0..n : f[i] = IF i = 0 THEN << >>
                             ELSE IF s[i] \in S THEN Append(f[i - 1], s[i]) ELSE f[i - 1]
  BY DEF Keeps
<1>2. \A i \in 0..m : g[i] = IF i = 0 THEN << >>
                             ELSE IF t[i] \in S THEN Append(g[i - 1], t[i]) ELSE g[i - 1]
  BY DEF Keeps
<1> DEFINE G == {k \in Nat : k <= n => f[k] = g[k]}
<1>3. 0 \in G
  BY <1>1, <1>2
<1>4. ASSUME NEW k \in G \cap Nat PROVE k + 1 \in G
  <2> SUFFICES ASSUME k + 1 <= n PROVE f[k + 1] = g[k + 1]
    OBVIOUS
  <2>1. f[k] = g[k] /\ s[k + 1] = t[k + 1]
    BY <1>4
  <2>2. f[k + 1] = IF s[k + 1] \in S THEN Append(f[k], s[k + 1]) ELSE f[k]
    BY <1>1
  <2>3. g[k + 1] = IF t[k + 1] \in S THEN Append(g[k], t[k + 1]) ELSE g[k]
    BY <1>2
  <2> QED BY <2>1, <2>2, <2>3
<1> HIDE DEF G
<1>5. n \in G
  BY <1>3, <1>4, SetInduction
<1> QED BY <1>5 DEF G

\* What is kept of an empty list.
LEMMA KeptEmpty == ASSUME NEW S PROVE Kept(<< >>, S) = << >>
<1>1. PICK f : Keeps(f, Len(<< >>), << >>, S) /\ Kept(<< >>, S) = f[Len(<< >>)]
  BY KeptIsLast
<1>2. Len(<< >>) = 0
  OBVIOUS
<1> QED BY <1>1, <1>2 DEF Keeps

\* What is kept of a list with one more element.
LEMMA KeptAppend ==
    ASSUME NEW T, NEW s \in Seq(T), NEW e \in T, NEW S
    PROVE  Kept(Append(s, e), S) = IF e \in S THEN Append(Kept(s, S), e) ELSE Kept(s, S)
<1>1. PICK u, n, m : u = Append(s, e) /\ n = Len(s) /\ m = n + 1
  OBVIOUS
<1>2. /\ n \in Nat /\ m \in Nat /\ n <= m /\ m \in 0..m /\ m # 0 /\ m - 1 = n
      /\ Len(u) = m /\ u[m] = e /\ \A i \in 1..n : s[i] = u[i]
  BY <1>1
<1>3. PICK f : Keeps(f, n, s, S) /\ Kept(s, S) = f[n]
  BY <1>1, <1>2, KeptIsLast
<1>4. PICK g : Keeps(g, m, u, S) /\ Kept(u, S) = g[m]
  BY <1>2, KeptIsLast
<1>5. f[n] = g[n]
  <2>1. n \in Nat /\ m \in Nat /\ n <= m /\ \A i \in 1..n : s[i] = u[i]
    BY <1>2
  <2>2. Keeps(f, n, s, S) /\ Keeps(g, m, u, S)
    BY <1>3, <1>4
  <2>3. \A a, b \in Nat : \A h, k :
           /\ a <= b /\ Keeps(h, a, s, S) /\ Keeps(k, b, u, S)
           /\ \A i \in 1..a : s[i] = u[i]
           => h[a] = k[a]
    BY KeepsAgree
  <2> QED BY <2>1, <2>2, <2>3
<1>6. \A i \in 0..m : g[i] = IF i = 0 THEN << >>
                             ELSE IF u[i] \in S THEN Append(g[i - 1], u[i]) ELSE g[i - 1]
  BY <1>4 DEF Keeps
<1>7. g[m] = IF e \in S THEN Append(g[n], e) ELSE g[n]
  BY <1>2, <1>6
<1> QED BY <1>1, <1>3, <1>4, <1>5, <1>7

\* What is kept of two lists, one behind the other.
LEMMA KeptConcat ==
    ASSUME NEW T, NEW s \in Seq(T), NEW t \in Seq(T), NEW S
    PROVE  Kept(s \o t, S) = Kept(s, S) \o Kept(t, S)
<1>0. Kept(s, S) \in Seq(T)
  BY KeptElements
<1> DEFINE G == {n \in Nat : \A v \in Seq(T) : Len(v) = n => Kept(s \o v, S) = Kept(s, S) \o Kept(v, S)}
<1>1. 0 \in G
  <2> SUFFICES ASSUME NEW v \in Seq(T), Len(v) = 0 PROVE Kept(s \o v, S) = Kept(s, S) \o Kept(v, S)
    OBVIOUS
  <2>1. v = << >> /\ s \o v = s
    OBVIOUS
  <2>2. Kept(v, S) = << >>
    BY <2>1, KeptEmpty
  <2> QED BY <1>0, <2>1, <2>2
<1>2. ASSUME NEW n \in G \cap Nat PROVE n + 1 \in G
  <2> SUFFICES ASSUME NEW v \in Seq(T), Len(v) = n + 1 PROVE Kept(s \o v, S) = Kept(s, S) \o Kept(v, S)
    OBVIOUS
  <2>1. PICK w, e : w = SubSeq(v, 1, n) /\ e = v[n + 1]
    OBVIOUS
  <2>2. w \in Seq(T) /\ Len(w) = n /\ e \in T /\ v = Append(w, e)
    <3>1. w \in Seq(T) /\ Len(w) = n /\ e \in T /\ \A i \in 1..n : w[i] = v[i]
      BY <2>1
    <3>2. Append(w, e) \in Seq(T) /\ Len(Append(w, e)) = Len(v)
          /\ \A i \in 1..Len(v) : Append(w, e)[i] = v[i]
      BY <2>1, <3>1
    <3> QED BY <3>1, <3>2, SeqEqual
  <2>3. PICK x : x = s \o w
    OBVIOUS
  <2>4. x \in Seq(T) /\ s \o v = Append(x, e)
    BY <2>2, <2>3
  <2>5. Kept(x, S) = Kept(s, S) \o Kept(w, S)
    BY <1>2, <2>2, <2>3
  <2>6. Kept(Append(x, e), S) = IF e \in S THEN Append(Kept(x, S), e) ELSE Kept(x, S)
    <3>1. x \in Seq(T) /\ e \in T
      BY <2>2, <2>4
    <3> QED BY <3>1, KeptAppend
  <2>9. Kept(Append(w, e), S) = IF e \in S THEN Append(Kept(w, S), e) ELSE Kept(w, S)
    <3>1. w \in Seq(T) /\ e \in T
      BY <2>2
    <3> QED BY <3>1, KeptAppend
  <2>7. PICK a, b : a = Kept(s, S) /\ b = Kept(w, S)
    OBVIOUS
  <2>8. a \in Seq(T) /\ b \in Seq(T) /\ a \o Append(b, e) = Append(a \o b, e)
    BY <1>0, <2>2, <2>7, KeptElements
  <2> QED BY <2>2, <2>4, <2>5, <2>6, <2>7, <2>8, <2>9
<1> HIDE DEF G
<1>3. Len(t) \in G
  BY <1>1, <1>2, SetInduction
<1> QED BY <1>3 DEF G

\* An element appended, or another list behind it.
LEMMA ListElements ==
    ASSUME NEW T, NEW s \in Seq(T), NEW t \in Seq(T), NEW e \in T
    PROVE  /\ ToSet(Append(s, e)) = ToSet(s) \cup {e}
           /\ ToSet(s \o t) = ToSet(s) \cup ToSet(t)
           /\ s # << >> => Head(s) \in ToSet(s)
<1>1. ToSet(Append(s, e)) = ToSet(s) \cup {e}
  <2> DEFINE u == Append(s, e)
  <2>1. /\ DOMAIN u = (DOMAIN s) \cup {Len(s) + 1} /\ u[Len(s) + 1] = e
        /\ \A j \in DOMAIN s : u[j] = s[j]
    OBVIOUS
  <2> QED BY <2>1 DEF ToSet
<1>2. ToSet(s \o t) = ToSet(s) \cup ToSet(t)
  <2> DEFINE u == s \o t
  <2>1. /\ DOMAIN u = 1..(Len(s) + Len(t))
        /\ \A j \in 1..(Len(s) + Len(t)) : u[j] = IF j <= Len(s) THEN s[j] ELSE t[j - Len(s)]
        /\ DOMAIN s = 1..Len(s) /\ DOMAIN t = 1..Len(t) /\ Len(s) \in Nat /\ Len(t) \in Nat
    OBVIOUS
  <2> HIDE DEF u
  <2>2. ToSet(u) \subseteq ToSet(s) \cup ToSet(t)
    <3> SUFFICES ASSUME NEW j \in DOMAIN u PROVE u[j] \in ToSet(s) \cup ToSet(t)
      BY DEF ToSet
    <3>1. CASE j <= Len(s)
      BY <2>1, <3>1 DEF ToSet
    <3>2. CASE ~(j <= Len(s))
      <4>1. j - Len(s) \in DOMAIN t /\ u[j] = t[j - Len(s)]
        BY <2>1, <3>2
      <4> QED BY <4>1 DEF ToSet
    <3> QED BY <3>1, <3>2
  <2>3. ToSet(s) \subseteq ToSet(u)
    BY <2>1 DEF ToSet
  <2>4. ToSet(t) \subseteq ToSet(u)
    <3> SUFFICES ASSUME NEW j \in DOMAIN t PROVE t[j] \in ToSet(u)
      BY DEF ToSet
    <3>1. j + Len(s) \in DOMAIN u /\ u[j + Len(s)] = t[j]
      BY <2>1
    <3> QED BY <3>1 DEF ToSet
  <2> QED BY <2>2, <2>3, <2>4 DEF u
<1>3. s # << >> => Head(s) \in ToSet(s)
  <2> SUFFICES ASSUME s # << >> PROVE Head(s) \in ToSet(s)
    OBVIOUS
  <2>1. Head(s) = s[1] /\ 1 \in DOMAIN s
    OBVIOUS
  <2> QED BY <2>1 DEF ToSet
<1> QED BY <1>1, <1>2, <1>3

\* Two lists, one behind the other.
LEMMA ConcatParts ==
    ASSUME NEW T, NEW x \in Seq(T), NEW y \in Seq(T)
    PROVE  /\ x \o y \in Seq(T) /\ Len(x \o y) = Len(x) + Len(y)
           /\ \A i \in 1..(Len(x) + Len(y)) :
                 (x \o y)[i] = IF i <= Len(x) THEN x[i] ELSE y[i - Len(x)]
OBVIOUS

-----------------------------------------------------------------------------
\* f is the function by which FlattenSeq(ss) goes through the first n lists.
Flattens(f, n, ss) ==
    f = [i \in 1..n |-> IF i = 1 THEN ss[i] ELSE f[i - 1] \o ss[i]]

\* There is such a function for every length.
LEMMA FlattensExists == ASSUME NEW ss PROVE \A n \in Nat : \E f : Flattens(f, n, ss)
<1> DEFINE G == {n \in Nat : \E f : Flattens(f, n, ss)}
<1>1. 0 \in G
  <2>1. PICK g : g = [i \in 1..0 |-> << >>]
    OBVIOUS
  <2>2. g = [i \in 1..0 |-> IF i = 1 THEN ss[i] ELSE g[i - 1] \o ss[i]]
    BY <2>1
  <2> QED BY <2>2 DEF Flattens
<1>2. ASSUME NEW n \in G PROVE n + 1 \in G
  <2>1. PICK f : Flattens(f, n, ss)
    BY <1>2
  <2> DEFINE e == IF n = 0 THEN ss[1] ELSE f[n] \o ss[n + 1]
             g == [i \in 1..(n + 1) |-> IF i = n + 1 THEN e ELSE f[i]]
  <2>2. (\A i \in 1..n : g[i] = f[i]) /\ g[n + 1] = e
    <3>1. n + 1 \in 1..(n + 1) /\ \A i \in 1..n : i \in 1..(n + 1) /\ i # n + 1
      OBVIOUS
    <3> HIDE DEF e
    <3> QED BY <3>1
  <2>3. \A i \in 1..n : f[i] = IF i = 1 THEN ss[i] ELSE f[i - 1] \o ss[i]
    BY <2>1 DEF Flattens
  <2>4. g = [i \in 1..(n + 1) |-> g[i]]
    OBVIOUS
  <2> HIDE DEF g
  <2>5. \A i \in 1..(n + 1) : g[i] = IF i = 1 THEN ss[i] ELSE g[i - 1] \o ss[i]
    <3> SUFFICES ASSUME NEW i \in 1..(n + 1) PROVE g[i] = IF i = 1 THEN ss[i] ELSE g[i - 1] \o ss[i]
      OBVIOUS
    <3>1. CASE i <= n
      <4>1. i \in 1..n /\ (i # 1 => i - 1 \in 1..n)
        BY <3>1
      <4> QED BY <4>1, <2>2, <2>3
    <3>2. CASE i = n + 1
      <4>1. n # 0 => n \in 1..n
        OBVIOUS
      <4> QED BY <4>1, <3>2, <2>2
    <3> QED BY <3>1, <3>2
  <2>6. Flattens(g, n + 1, ss)
    BY <2>4, <2>5 DEF Flattens
  <2> QED BY <2>6
<1> HIDE DEF G
<1>3. Nat \subseteq G
  BY <1>1, <1>2, SetInduction
<1> QED BY <1>3 DEF G

\* FlattenSeq is the last value of that function.
LEMMA FlattenIsLast ==
    ASSUME NEW ss, Len(ss) \in Nat, Len(ss) # 0
    PROVE  \E f : Flattens(f, Len(ss), ss) /\ FlattenSeq(ss) = f[Len(ss)]
<1> DEFINE g == CHOOSE f : Flattens(f, Len(ss), ss)
<1>1. \E f : Flattens(f, Len(ss), ss)
  BY FlattensExists
<1>2. Flattens(g, Len(ss), ss)
  BY <1>1, Zenon
<1>3. FlattenSeq(ss) = g[Len(ss)]
  BY DEF FlattenSeq, Flattens
<1> QED BY <1>2, <1>3

\* Two such functions, along lists that begin alike, agree on that beginning.
LEMMA FlattensAgree ==
    ASSUME NEW s, NEW t
    PROVE  \A n, m \in Nat : \A f, g :
              /\ n # 0 /\ n <= m /\ Flattens(f, n, s) /\ Flattens(g, m, t)
              /\ \A i \in 1..n : s[i] = t[i]
              => f[n] = g[n]
<1> SUFFICES ASSUME NEW n \in Nat, NEW m \in Nat, NEW f, NEW g, n # 0, n <= m,
                    Flattens(f, n, s), Flattens(g, m, t), \A i \in 1..n : s[i] = t[i]
             PROVE  f[n] = g[n]
  OBVIOUS
<1>1. \A i \in 1..n : f[i] = IF i = 1 THEN s[i] ELSE f[i - 1] \o s[i]
  BY DEF Flattens
<1>2. \A i \in 1..m : g[i] = IF i = 1 THEN t[i] ELSE g[i - 1] \o t[i]
  BY DEF Flattens
<1> DEFINE G == {k \in Nat : k \in 1..n => f[k] = g[k]}
<1>3. 0 \in G
  OBVIOUS
<1>4. ASSUME NEW k \in G \cap Nat PROVE k + 1 \in G
  <2> SUFFICES ASSUME k + 1 \in 1..n PROVE f[k + 1] = g[k + 1]
    OBVIOUS
  <2>1. s[k + 1] = t[k + 1] /\ (k # 0 => f[k] = g[k])
    BY <1>4
  <2>2. f[k + 1] = IF k = 0 THEN s[1] ELSE f[k] \o s[k + 1]
    BY <1>1
  <2>3. g[k + 1] = IF k = 0 THEN t[1] ELSE g[k] \o t[k + 1]
    BY <1>2
  <2> QED BY <2>1, <2>2, <2>3
<1> HIDE DEF G
<1>5. n \in G
  BY <1>3, <1>4, SetInduction
<1>6. n \in 1..n
  OBVIOUS
<1> QED BY <1>5, <1>6 DEF G

\* Flattening nothing, and a list of lists with one more.
LEMMA FlattenEmpty == FlattenSeq(<< >>) = << >>
BY DEF FlattenSeq

\* A list of lists with one more.
LEMMA FlattenAppend ==
    ASSUME NEW T, NEW ss \in Seq(Seq(T)), NEW x \in Seq(T), FlattenSeq(ss) \in Seq(T)
    PROVE  FlattenSeq(Append(ss, x)) = FlattenSeq(ss) \o x
<1>1. PICK u, n, m : u = Append(ss, x) /\ n = Len(ss) /\ m = n + 1
  OBVIOUS
<1>2. /\ n \in Nat /\ m \in Nat /\ n <= m /\ m # 0 /\ m - 1 = n
      /\ Len(u) = m /\ u[m] = x /\ \A i \in 1..n : ss[i] = u[i]
  BY <1>1
<1>3. PICK g : Flattens(g, m, u) /\ FlattenSeq(u) = g[m]
  BY <1>2, FlattenIsLast
<1>4. g[m] = IF m = 1 THEN u[m] ELSE g[m - 1] \o u[m]
  <2>1. m \in 1..m
    BY <1>2
  <2>2. g = [i \in 1..m |-> IF i = 1 THEN u[i] ELSE g[i - 1] \o u[i]]
    BY <1>3 DEF Flattens
  <2>3. \A i \in 1..m : g[i] = IF i = 1 THEN u[i] ELSE g[i - 1] \o u[i]
    BY <2>2
  <2> QED BY <2>1, <2>3
<1>5. CASE n = 0
  <2>1. ss = << >>
    <3>1. Len(ss) = 0 /\ ss \in Seq(Seq(T))
      BY <1>1, <1>5
    <3>2. PICK U : U = Seq(T)
      OBVIOUS
    <3> QED BY <3>1, <3>2
  <2>2. FlattenSeq(ss) = << >> /\ << >> \o x = x
    BY <2>1, FlattenEmpty
  <2> QED BY <1>1, <1>2, <1>3, <1>4, <1>5, <2>2
<1>6. CASE n # 0
  <2>1. PICK f : Flattens(f, n, ss) /\ FlattenSeq(ss) = f[n]
    BY <1>1, <1>2, <1>6, FlattenIsLast
  <2>2. f[n] = g[n]
    <3>1. /\ n \in Nat /\ m \in Nat /\ n # 0 /\ n <= m /\ \A i \in 1..n : ss[i] = u[i]
          /\ Flattens(f, n, ss) /\ Flattens(g, m, u)
      BY <1>2, <1>3, <1>6, <2>1
    <3> QED BY <3>1, FlattensAgree
  <2> QED BY <1>1, <1>2, <1>3, <1>4, <1>6, <2>1, <2>2
<1> QED BY <1>2, <1>5, <1>6

\* What a sequence with an element is made of.
LEMMA LastApart ==
    ASSUME NEW T
    PROVE  \A n \in Nat, v \in Seq(T) : Len(v) = n + 1 =>
              \E w \in Seq(T), e \in T : Len(w) = n /\ v = Append(w, e) /\ \A i \in 1..n : w[i] = v[i]
<1> SUFFICES ASSUME NEW n \in Nat, NEW v \in Seq(T), Len(v) = n + 1
             PROVE  \E w \in Seq(T), e \in T : Len(w) = n /\ v = Append(w, e) /\ \A i \in 1..n : w[i] = v[i]
  OBVIOUS
<1>1. PICK w, e : w = SubSeq(v, 1, n) /\ e = v[n + 1]
  OBVIOUS
<1>2. w \in Seq(T) /\ Len(w) = n /\ e \in T /\ \A i \in 1..n : w[i] = v[i]
  BY <1>1
<1>3. Append(w, e) \in Seq(T) /\ Len(Append(w, e)) = Len(v)
      /\ \A i \in 1..Len(v) : Append(w, e)[i] = v[i]
  BY <1>1, <1>2
<1>4. v = Append(w, e)
  BY <1>3, SeqEqual
<1> QED BY <1>2, <1>4

\* Flattening gives a list of the same elements.
LEMMA FlattenType == ASSUME NEW T, NEW ss \in Seq(Seq(T)) PROVE FlattenSeq(ss) \in Seq(T)
<1> DEFINE G == {n \in Nat : \A v \in Seq(Seq(T)) : Len(v) = n => FlattenSeq(v) \in Seq(T)}
<1>1. 0 \in G
  <2> SUFFICES ASSUME NEW v \in Seq(Seq(T)), Len(v) = 0 PROVE FlattenSeq(v) \in Seq(T)
    OBVIOUS
  <2>1. v = << >>
    OBVIOUS
  <2>2. FlattenSeq(v) = << >>
    BY <2>1, FlattenEmpty
  <2> QED BY <2>2
<1>2. ASSUME NEW n \in G \cap Nat PROVE n + 1 \in G
  <2> SUFFICES ASSUME NEW v \in Seq(Seq(T)), Len(v) = n + 1 PROVE FlattenSeq(v) \in Seq(T)
    OBVIOUS
  <2>1. PICK w \in Seq(Seq(T)), e \in Seq(T) : Len(w) = n /\ v = Append(w, e) /\ \A i \in 1..n : w[i] = v[i]
    BY LastApart
  <2>2. FlattenSeq(w) \in Seq(T)
    BY <1>2, <2>1
  <2>3. FlattenSeq(v) = FlattenSeq(w) \o e
    BY <2>1, <2>2, FlattenAppend
  <2> QED BY <2>2, <2>3
<1> HIDE DEF G
<1>3. Len(ss) \in G
  BY <1>1, <1>2, SetInduction
<1> QED BY <1>3 DEF G

\* Concatenation is associative.
LEMMA Associative ==
    ASSUME NEW T PROVE \A p, q, r \in Seq(T) : (p \o q) \o r = p \o (q \o r)
BY ConcatAssociative, SMTT(40)

\* Two lists of lists, one behind the other.
LEMMA FlattenConcat ==
    ASSUME NEW T, NEW s \in Seq(Seq(T)), NEW t \in Seq(Seq(T))
    PROVE  FlattenSeq(s \o t) = FlattenSeq(s) \o FlattenSeq(t)
<1>0. FlattenSeq(s) \in Seq(T)
  BY FlattenType
<1>a. \A p, q, r \in Seq(T) : (p \o q) \o r = p \o (q \o r)
  BY Associative, SMTT(40)
<1> DEFINE G == {n \in Nat : \A v \in Seq(Seq(T)) :
                    Len(v) = n => FlattenSeq(s \o v) = FlattenSeq(s) \o FlattenSeq(v)}
<1>1. 0 \in G
  <2> SUFFICES ASSUME NEW v \in Seq(Seq(T)), Len(v) = 0
               PROVE  FlattenSeq(s \o v) = FlattenSeq(s) \o FlattenSeq(v)
    OBVIOUS
  <2>1. v = << >> /\ s \o v = s
    OBVIOUS
  <2>2. FlattenSeq(v) = << >>
    BY <2>1, FlattenEmpty
  <2> QED BY <1>0, <2>1, <2>2
<1>2. ASSUME NEW n \in G \cap Nat PROVE n + 1 \in G
  <2> SUFFICES ASSUME NEW v \in Seq(Seq(T)), Len(v) = n + 1
               PROVE  FlattenSeq(s \o v) = FlattenSeq(s) \o FlattenSeq(v)
    OBVIOUS
  <2>1. PICK w \in Seq(Seq(T)), e \in Seq(T) : Len(w) = n /\ v = Append(w, e) /\ \A i \in 1..n : w[i] = v[i]
    BY LastApart
  <2>2. PICK x : x = s \o w
    OBVIOUS
  <2>3. x \in Seq(Seq(T)) /\ s \o v = Append(x, e)
    BY <2>1, <2>2, SMTT(40)
  <2>4. FlattenSeq(x) = FlattenSeq(s) \o FlattenSeq(w)
    BY <1>2, <2>1, <2>2
  <2>5. FlattenSeq(Append(x, e)) = FlattenSeq(x) \o e /\ FlattenSeq(Append(w, e)) = FlattenSeq(w) \o e
    <3>1. FlattenSeq(x) \in Seq(T) /\ FlattenSeq(w) \in Seq(T)
      BY <2>1, <2>3, FlattenType
    <3> QED BY <3>1, <2>1, <2>3, FlattenAppend
  <2>6. PICK a, b : a = FlattenSeq(s) /\ b = FlattenSeq(w)
    OBVIOUS
  <2>7. a \in Seq(T) /\ b \in Seq(T)
    BY <1>0, <2>1, <2>6, FlattenType
  <2>8. (a \o b) \o e = a \o (b \o e)
    <3>1. e \in Seq(T)
      BY <2>1
    <3> QED BY <1>a, <2>7, <3>1
  <2> QED BY <2>1, <2>3, <2>4, <2>5, <2>6, <2>8
<1> HIDE DEF G
<1>3. Len(t) \in G
  BY <1>1, <1>2, SetInduction
<1> QED BY <1>3 DEF G

\* Lists of one element each.
LEMMA FlattenOnes ==
    ASSUME NEW T
    PROVE  \A x \in Seq(T), ss \in Seq(Seq(T)) :
              Len(ss) = Len(x) /\ (\A i \in 1..Len(x) : ss[i] = << x[i] >>) => FlattenSeq(ss) = x
<1> DEFINE Ones(v, y, n) == Len(v) = n /\ Len(y) = n /\ \A i \in 1..n : v[i] = << y[i] >>
           G == {n \in Nat : \A v \in Seq(Seq(T)), y \in Seq(T) : Ones(v, y, n) => FlattenSeq(v) = y}
<1>1. 0 \in G
  <2> SUFFICES ASSUME NEW v \in Seq(Seq(T)), NEW y \in Seq(T), Len(v) = 0, Len(y) = 0
               PROVE  FlattenSeq(v) = y
    OBVIOUS
  <2>1. v = << >> /\ y = << >>
    OBVIOUS
  <2> QED BY <2>1, FlattenEmpty
<1>2. ASSUME NEW n \in G \cap Nat, NEW v \in Seq(Seq(T)), NEW y \in Seq(T), Ones(v, y, n + 1)
      PROVE  FlattenSeq(v) = y
  <2>0. \A p \in Seq(Seq(T)), q \in Seq(T) : Ones(p, q, n) => FlattenSeq(p) = q
    OBVIOUS
  <2>a. n \in Nat /\ Len(v) = n + 1 /\ Len(y) = n + 1 /\ \A i \in 1..(n + 1) : v[i] = << y[i] >>
    BY <1>2
  <2> HIDE DEF G
  <2>1. PICK w \in Seq(Seq(T)), e \in Seq(T) : Len(w) = n /\ v = Append(w, e) /\ \A i \in 1..n : w[i] = v[i]
    BY <2>a, LastApart
  <2>2. PICK z \in Seq(T), c \in T : Len(z) = n /\ y = Append(z, c) /\ \A i \in 1..n : z[i] = y[i]
    BY <2>a, LastApart
  <2>3. ASSUME NEW i \in 1..n PROVE w[i] = << z[i] >>
    <3>1. i \in 1..(n + 1)
      BY <2>a
    <3>2. w[i] = v[i] /\ z[i] = y[i] /\ v[i] = << y[i] >>
      BY <2>a, <2>1, <2>2, <3>1
    <3> QED BY <3>2
  <2>4. FlattenSeq(w) = z
    BY <2>0, <2>1, <2>2, <2>3
  <2>5. e = << c >>
    <3>1. v[n + 1] = e /\ y[n + 1] = c /\ v[n + 1] = << y[n + 1] >>
      BY <2>a, <2>1, <2>2
    <3> QED BY <3>1
  <2>6. FlattenSeq(v) = z \o e
    BY <2>1, <2>2, <2>4, FlattenAppend
  <2>7. z \o << c >> = Append(z, c)
    BY <2>2
  <2> QED BY <2>2, <2>5, <2>6, <2>7
<1>3. ASSUME NEW n \in G \cap Nat PROVE n + 1 \in G
  <2>1. \A v \in Seq(Seq(T)), y \in Seq(T) : Ones(v, y, n + 1) => FlattenSeq(v) = y
    <3> HIDE DEF G, Ones
    <3> QED BY <1>2
  <2> HIDE DEF Ones
  <2> QED BY <2>1
<1>4. ASSUME NEW x \in Seq(T), NEW ss \in Seq(Seq(T)), Len(ss) = Len(x),
             \A i \in 1..Len(x) : ss[i] = << x[i] >>
      PROVE  FlattenSeq(ss) = x
  <2>1. Ones(ss, x, Len(x)) /\ Len(x) \in Nat
    BY <1>4
  <2>2. Len(x) \in G
    <3> HIDE DEF G
    <3> QED BY <2>1, <1>1, <1>3, SetInduction
  <2> QED BY <2>1, <2>2
<1> QED BY <1>4

\* Lists without an element.
LEMMA FlattenEmpties ==
    ASSUME NEW T, NEW ss \in Seq(Seq(T)), \A i \in 1..Len(ss) : ss[i] = << >>
    PROVE  FlattenSeq(ss) = << >>
<1> DEFINE G == {n \in Nat : \A v \in Seq(Seq(T)) :
                    Len(v) = n /\ (\A i \in 1..n : v[i] = << >>) => FlattenSeq(v) = << >>}
<1>1. 0 \in G
  <2> SUFFICES ASSUME NEW v \in Seq(Seq(T)), Len(v) = 0 PROVE FlattenSeq(v) = << >>
    OBVIOUS
  <2>1. v = << >>
    OBVIOUS
  <2> QED BY <2>1, FlattenEmpty
<1>2. ASSUME NEW n \in G \cap Nat PROVE n + 1 \in G
  <2> SUFFICES ASSUME NEW v \in Seq(Seq(T)), Len(v) = n + 1, \A i \in 1..(n + 1) : v[i] = << >>
               PROVE  FlattenSeq(v) = << >>
    OBVIOUS
  <2>1. PICK w \in Seq(Seq(T)), e \in Seq(T) : Len(w) = n /\ v = Append(w, e) /\ \A i \in 1..n : w[i] = v[i]
    BY LastApart
  <2>2. FlattenSeq(w) = << >> /\ e = << >>
    BY <1>2, <2>1, SMTT(40)
  <2>3. FlattenSeq(v) = << >> \o << >>
    BY <2>1, <2>2, FlattenAppend
  <2> QED BY <2>3
<1> HIDE DEF G
<1>3. Len(ss) \in G
  BY <1>1, <1>2, SetInduction
<1> QED BY <1>3 DEF G

-----------------------------------------------------------------------------
\* R is a strict total order on S.
StrictOrder(R, S) ==
    /\ \A x \in S : <<x, x>> \notin R
    /\ \A x, y, z \in S : <<x, y>> \in R /\ <<y, z>> \in R => <<x, z>> \in R
    /\ \A x, y \in S : x # y => <<x, y>> \in R \/ <<y, x>> \in R

\* How many elements of S come before x, and those themselves.
Earlier(x, S, R) == {y \in S : <<y, x>> \in R}
RankIn(x, S, R) == Cardinality(Earlier(x, S, R))

\* A rank is a number below the number of elements, and grows along the order.
LEMMA RankBounds ==
    ASSUME NEW S, IsFiniteSet(S), NEW R, StrictOrder(R, S)
    PROVE  /\ \A x \in S : RankIn(x, S, R) \in Nat /\ RankIn(x, S, R) < Cardinality(S)
           /\ \A x, y \in S : <<x, y>> \in R => RankIn(x, S, R) < RankIn(y, S, R)
<1>1. PICK c : c = Cardinality(S) /\ c \in Nat
  BY FS_CardinalityType
<1>2. \A x : IsFiniteSet(Earlier(x, S, R)) /\ RankIn(x, S, R) \in Nat
  <2> TAKE x
  <2>1. Earlier(x, S, R) \in SUBSET S
    BY DEF Earlier
  <2>2. IsFiniteSet(Earlier(x, S, R))
    BY <2>1, FS_Subset
  <2> QED BY <2>2, FS_CardinalityType DEF RankIn
<1>3. ASSUME NEW x \in S PROVE RankIn(x, S, R) < c
  <2>1. Earlier(x, S, R) \in SUBSET S /\ x \notin Earlier(x, S, R)
    BY DEF Earlier, StrictOrder
  <2>2. RankIn(x, S, R) <= c /\ c # RankIn(x, S, R)
    BY <1>1, <2>1, FS_Subset DEF RankIn
  <2> QED BY <1>1, <1>2, <2>2
<1>4. ASSUME NEW x \in S, NEW y \in S, <<x, y>> \in R PROVE RankIn(x, S, R) < RankIn(y, S, R)
  <2>1. /\ Earlier(x, S, R) \in SUBSET Earlier(y, S, R)
        /\ x \in Earlier(y, S, R) /\ x \notin Earlier(x, S, R)
    BY <1>4 DEF Earlier, StrictOrder
  <2>2. /\ RankIn(x, S, R) <= RankIn(y, S, R)
        /\ RankIn(y, S, R) # RankIn(x, S, R)
    BY <1>2, <2>1, FS_Subset DEF RankIn
  <2> QED BY <1>2, <2>2
<1> QED BY <1>1, <1>2, <1>3, <1>4

\* Every number below the number of elements is the rank of just one.
LEMMA RanksNumber ==
    ASSUME NEW S, IsFiniteSet(S), NEW R, StrictOrder(R, S)
    PROVE  /\ \A x, y \in S : RankIn(x, S, R) = RankIn(y, S, R) => x = y
           /\ \A n \in 0..(Cardinality(S) - 1) : \E x \in S : RankIn(x, S, R) = n
<1>1. PICK c : c = Cardinality(S) /\ c \in Nat
  BY FS_CardinalityType
<1>2. ASSUME NEW x \in S, NEW y \in S, RankIn(x, S, R) = RankIn(y, S, R) PROVE x = y
  <2> SUFFICES ASSUME x # y PROVE FALSE
    OBVIOUS
  <2>1. <<x, y>> \in R \/ <<y, x>> \in R
    BY DEF StrictOrder
  <2>2. RankIn(x, S, R) < RankIn(y, S, R) \/ RankIn(y, S, R) < RankIn(x, S, R)
    BY <2>1, RankBounds
  <2>3. RankIn(x, S, R) \in Nat /\ RankIn(y, S, R) \in Nat
    BY RankBounds
  <2> QED BY <1>2, <2>2, <2>3
<1>3. PICK N : N = 0..(c - 1)
  OBVIOUS
<1>4. IsFiniteSet(N) /\ Cardinality(N) = c
  BY <1>1, <1>3, FS_Interval
<1>5. PICK f : f = [x \in S |-> RankIn(x, S, R)]
  OBVIOUS
<1>6. \A x \in S : RankIn(x, S, R) \in N
  BY <1>1, <1>3, RankBounds
<1>7. f \in Injection(S, N)
  BY <1>2, <1>5, <1>6 DEF Injection, IsInjective
<1>8. f \in Surjection(S, N)
  BY <1>1, <1>4, <1>7, FS_Injection
<1>9. \A n \in N : \E x \in S : RankIn(x, S, R) = n
  BY <1>5, <1>8 DEF Surjection
<1> QED BY <1>1, <1>2, <1>3, <1>9

\* What Sorted returns: each element once, and in the order.
LEMMA SortedElements ==
    ASSUME NEW S, IsFiniteSet(S), NEW R, StrictOrder(R, S)
    PROVE  /\ Sorted(S, R) \in Seq(S) /\ Len(Sorted(S, R)) = Cardinality(S)
           /\ ToSet(Sorted(S, R)) = S
           /\ \A i, j \in DOMAIN Sorted(S, R) : i < j => <<Sorted(S, R)[i], Sorted(S, R)[j]>> \in R
<1>1. PICK c : c = Cardinality(S) /\ c \in Nat
  BY FS_CardinalityType
<1>2. PICK s : s = Sorted(S, R)
  OBVIOUS
<1>3. DOMAIN s = 1..c /\ \A n \in 1..c : s[n] = CHOOSE x \in S : RankIn(x, S, R) = n - 1
  BY <1>1, <1>2 DEF Sorted, RankIn, Earlier
<1>4. \A n \in 1..c : s[n] \in S /\ RankIn(s[n], S, R) = n - 1
  <2> SUFFICES ASSUME NEW n \in 1..c PROVE s[n] \in S /\ RankIn(s[n], S, R) = n - 1
    OBVIOUS
  <2>1. n - 1 \in 0..(c - 1)
    BY <1>1
  <2>2. \E x \in S : RankIn(x, S, R) = n - 1
    BY <1>1, <2>1, RanksNumber
  <2> QED BY <1>3, <2>2
<1>5. s = [n \in 1..c |-> s[n]]
  BY <1>1, <1>2, <1>3 DEF Sorted
<1>6. s \in Seq(S) /\ Len(s) = c
  BY <1>1, <1>3, <1>4, <1>5
<1>7. ToSet(s) = S
  <2>1. ASSUME NEW x \in S PROVE \E n \in 1..c : s[n] = x
    <3>1. RankIn(x, S, R) \in Nat /\ RankIn(x, S, R) < c
      BY <1>1, RankBounds
    <3>2. PICK n : n = RankIn(x, S, R) + 1
      OBVIOUS
    <3>3. n \in 1..c /\ n - 1 = RankIn(x, S, R)
      BY <1>1, <3>1, <3>2
    <3>4. s[n] \in S /\ RankIn(s[n], S, R) = RankIn(x, S, R)
      BY <1>4, <3>3
    <3>5. s[n] = x
      BY <3>4, RanksNumber
    <3> QED BY <3>3, <3>5
  <2> QED BY <1>3, <1>4, <2>1 DEF ToSet
<1>8. ASSUME NEW i \in 1..c, NEW j \in 1..c, i < j PROVE <<s[i], s[j]>> \in R
  <2>1. /\ s[i] \in S /\ s[j] \in S
        /\ RankIn(s[i], S, R) = i - 1 /\ RankIn(s[j], S, R) = j - 1
    BY <1>4
  <2>2. s[i] # s[j] /\ ~(RankIn(s[j], S, R) < RankIn(s[i], S, R))
    BY <1>1, <1>8, <2>1
  <2>3. <<s[i], s[j]>> \in R \/ <<s[j], s[i]>> \in R
    BY <2>1, <2>2 DEF StrictOrder
  <2> QED BY <2>1, <2>2, <2>3, RankBounds
<1> QED BY <1>1, <1>2, <1>3, <1>6, <1>7, <1>8

\* A list in the order R of its positions: the same elements, each once.
LEMMA ArrangedElements ==
    ASSUME NEW T, NEW s \in Seq(T), NEW R, StrictOrder(R, DOMAIN s)
    PROVE  \E order \in [1..Len(s) -> 1..Len(s)] :
              /\ Arranged(s, R) \in Seq(T) /\ Len(Arranged(s, R)) = Len(s)
              /\ \A k \in 1..Len(s) : Arranged(s, R)[k] = s[order[k]]
              /\ \A j \in 1..Len(s) : \E k \in 1..Len(s) : order[k] = j
              /\ \A k, m \in 1..Len(s) : k < m => order[k] # order[m] /\ <<order[k], order[m]>> \in R
<1>1. PICK n, D : n = Len(s) /\ D = DOMAIN s
  OBVIOUS
<1>2. n \in Nat /\ D = 1..n /\ \A k \in D : s[k] \in T
  BY <1>1
<1>3. IsFiniteSet(D) /\ Cardinality(D) = n
  BY <1>2, FS_Interval
<1>4. PICK order : order = Sorted(D, R)
  OBVIOUS
<1>5. /\ order \in Seq(D) /\ Len(order) = n /\ ToSet(order) = D
      /\ \A k, m \in DOMAIN order : k < m => <<order[k], order[m]>> \in R
  BY <1>1, <1>3, <1>4, SortedElements
<1>6. DOMAIN order = D /\ order \in [1..n -> 1..n]
  BY <1>2, <1>5
<1>7. PICK t : t = [k \in D |-> s[order[k]]]
  OBVIOUS
<1>8. t \in Seq(T) /\ Len(t) = n
  BY <1>2, <1>6, <1>7
<1>9. Arranged(s, R) = t
  <2>1. Arranged(s, R) = SubSeq(t, 1, n)
    BY <1>1, <1>4, <1>7 DEF Arranged
  <2> QED BY <2>1, <1>8, SubSeqFull
<1>10. \A j \in 1..n : \E k \in 1..n : order[k] = j
  BY <1>2, <1>5, <1>6 DEF ToSet
<1>11. \A k, m \in 1..n : k < m => order[k] # order[m] /\ <<order[k], order[m]>> \in R
  <2> SUFFICES ASSUME NEW k \in 1..n, NEW m \in 1..n, k < m
               PROVE  order[k] # order[m] /\ <<order[k], order[m]>> \in R
    OBVIOUS
  <2>1. <<order[k], order[m]>> \in R
    BY <1>2, <1>5, <1>6
  <2>2. order[k] \in D
    BY <1>2, <1>6
  <2>3. <<order[k], order[k]>> \notin R
    BY <1>1, <2>2 DEF StrictOrder
  <2> QED BY <2>1, <2>3
<1>12. \A k \in 1..n : t[k] = s[order[k]]
  BY <1>2, <1>7
<1>13. order \in [1..Len(s) -> 1..Len(s)]
  BY <1>1, <1>6
<1> WITNESS order \in [1..Len(s) -> 1..Len(s)]
<1> QED BY <1>1, <1>8, <1>9, <1>10, <1>11, <1>12

-----------------------------------------------------------------------------
\* u is what is computed along a list of length m: b before its first element,
\* and the value at i from the one at i - 1 by g.
Recursion(u, b, g, m) == u = [i \in 0..m |-> IF i = 0 THEN b ELSE g[<<u[i - 1], i>>]]

\* It exists.
LEMMA RecursionExists ==
    ASSUME NEW b, NEW g, NEW m \in Nat PROVE \E u : Recursion(u, b, g, m)
<1> DEFINE Steps(u, n) == Recursion(u, b, g, n)
           G == {n \in Nat : \E u : Steps(u, n)}
<1>1. 0 \in G
  <2>1. PICK u : u = [i \in 0..0 |-> b]
    OBVIOUS
  <2>2. Steps(u, 0)
    BY <2>1 DEF Recursion
  <2> QED BY <2>2
<1>2. ASSUME NEW n \in G \cap Nat PROVE n + 1 \in G
  <2>1. PICK f : Steps(f, n)
    BY <1>2
  <2>2. PICK e : e = g[<<f[n], n + 1>>]
    OBVIOUS
  <2>3. PICK u : u = [i \in 0..(n + 1) |-> IF i = n + 1 THEN e ELSE f[i]]
    OBVIOUS
  <2>4. (\A i \in 0..n : u[i] = f[i]) /\ u[n + 1] = e
    <3>1. n + 1 \in 0..(n + 1) /\ \A i \in 0..n : i \in 0..(n + 1) /\ i # n + 1
      OBVIOUS
    <3> QED BY <2>3, <3>1
  <2>5. \A i \in 0..n : f[i] = IF i = 0 THEN b ELSE g[<<f[i - 1], i>>]
    BY <2>1 DEF Recursion
  <2>6. ASSUME NEW i \in 0..(n + 1) PROVE u[i] = IF i = 0 THEN b ELSE g[<<u[i - 1], i>>]
    <3>1. CASE i \in 0..n
      <4>1. i # 0 => i - 1 \in 0..n
        BY <3>1
      <4>2. u[i] = IF i = 0 THEN b ELSE g[<<f[i - 1], i>>]
        BY <2>4, <2>5, <3>1
      <4> QED BY <2>4, <4>1, <4>2
    <3>2. CASE i = n + 1
      <4>1. i # 0 /\ i - 1 = n /\ n \in 0..n
        BY <3>2
      <4>2. u[i] = g[<<u[i - 1], i>>]
        BY <2>2, <2>4, <3>2, <4>1
      <4> QED BY <4>1, <4>2
    <3> QED BY <3>1, <3>2
  <2>7. u = [i \in 0..(n + 1) |-> u[i]]
    BY <2>3
  <2>8. Steps(u, n + 1)
    BY <2>6, <2>7 DEF Recursion
  <2> HIDE DEF Steps
  <2> QED BY <2>8
<1> HIDE DEF G
<1>3. m \in G
  BY <1>1, <1>2, SetInduction
<1> QED BY <1>3 DEF G

\* What holds before the first element and is kept by each holds at the end.
LEMMA AlongList ==
    ASSUME NEW m \in Nat, NEW S, 0 \in S, \A i \in 1..m : i - 1 \in S => i \in S
    PROVE  \A i \in 0..m : i \in S
<1> DEFINE G == {n \in Nat : n <= m => n \in S}
<1>1. 0 \in G
  OBVIOUS
<1>2. ASSUME NEW n \in G \cap Nat PROVE n + 1 \in G
  <2> SUFFICES ASSUME n + 1 <= m PROVE n + 1 \in S
    OBVIOUS
  <2>1. n \in S /\ n + 1 \in 1..m /\ (n + 1) - 1 = n
    OBVIOUS
  <2> QED BY <2>1
<1>3. Nat \subseteq G
  <2> HIDE DEF G
  <2> QED BY <1>1, <1>2, SetInduction
<1> QED BY <1>3

\* What is kept of a list whose elements are pairwise in R, in this order, are
\* so too.
LEMMA KeptInOrder ==
    ASSUME NEW T, NEW s \in Seq(T), NEW S, NEW R,
           \A i, j \in 1..Len(s) : i < j => <<s[i], s[j]>> \in R
    PROVE  \A i, j \in 1..Len(Kept(s, S)) : i < j => <<Kept(s, S)[i], Kept(s, S)[j]>> \in R
<1>l. Len(s) \in Nat /\ \A i \in 1..Len(s) : s[i] \in T
  OBVIOUS
<1>1. PICK f : Keeps(f, Len(s), s, S) /\ Kept(s, S) = f[Len(s)]
  BY <1>l, KeptIsLast
<1>2. \A i \in 0..Len(s) :
         f[i] = IF i = 0 THEN << >>
                ELSE IF s[i] \in S THEN Append(f[i - 1], s[i]) ELSE f[i - 1]
  BY <1>1 DEF Keeps
<1> DEFINE Fine(n) == /\ f[n] \in Seq(T)
                      /\ \A i \in 1..Len(f[n]) : \E j \in 1..n : f[n][i] = s[j]
                      /\ \A i, j \in 1..Len(f[n]) : i < j => <<f[n][i], f[n][j]>> \in R
           G == {n \in Nat : n <= Len(s) => Fine(n)}
<1>3. 0 \in G
  <2>1. f[0] = << >>
    BY <1>2, <1>l
  <2>2. f[0] \in Seq(T) /\ Len(f[0]) = 0
    BY <2>1
  <2>3. \A k : ~(k \in 1..Len(f[0]))
    BY <2>2
  <2>4. Fine(0)
    BY <2>2, <2>3
  <2> QED BY <2>4
<1>4. ASSUME NEW n \in G \cap Nat PROVE n + 1 \in G
  <2>0. n + 1 \in Nat
    OBVIOUS
  <2> SUFFICES ASSUME n + 1 <= Len(s) PROVE Fine(n + 1)
    BY <2>0, Zenon
  <2>1. Fine(n) /\ s[n + 1] \in T /\ n \in Nat
    BY <1>4, <1>l
  <2>2. f[n + 1] = IF s[n + 1] \in S THEN Append(f[n], s[n + 1]) ELSE f[n]
    BY <1>2, <1>l
  <2>3. CASE s[n + 1] \in S
    <3>1. PICK g, h, e : g = f[n] /\ h = f[n + 1] /\ e = s[n + 1]
      OBVIOUS
    <3>2. /\ g \in Seq(T) /\ e \in T /\ h = Append(g, e)
          /\ \A i \in 1..Len(g) : \E j \in 1..n : g[i] = s[j]
          /\ \A i, j \in 1..Len(g) : i < j => <<g[i], g[j]>> \in R
      BY <2>1, <2>2, <2>3, <3>1
    <3>3. /\ h \in Seq(T) /\ Len(h) = Len(g) + 1 /\ h[Len(g) + 1] = e
          /\ \A i \in 1..Len(g) : h[i] = g[i]
      BY <3>2
    <3>4. \A i \in 1..Len(h) : i \in 1..Len(g) \/ i = Len(g) + 1
      BY <3>2, <3>3
    <3>5. \A i \in 1..Len(h) : \E j \in 1..(n + 1) : h[i] = s[j]
      <4> SUFFICES ASSUME NEW i \in 1..Len(h) PROVE \E j \in 1..(n + 1) : h[i] = s[j]
        OBVIOUS
      <4>1. CASE i \in 1..Len(g)
        <5>1. PICK j \in 1..n : g[i] = s[j]
          BY <3>2, <4>1
        <5>2. j \in 1..(n + 1)
          BY <2>1
        <5> QED BY <3>3, <4>1, <5>1, <5>2
      <4>2. CASE i = Len(g) + 1
        <5>1. n + 1 \in 1..(n + 1)
          BY <2>1
        <5> QED BY <3>1, <3>3, <4>2, <5>1
      <4> QED BY <3>4, <4>1, <4>2
    <3>6. ASSUME NEW i \in 1..Len(h), NEW j \in 1..Len(h), i < j PROVE <<h[i], h[j]>> \in R
      <4>1. i \in 1..Len(g)
        BY <3>2, <3>3, <3>6
      <4>2. CASE j \in 1..Len(g)
        BY <3>2, <3>3, <3>6, <4>1, <4>2
      <4>3. CASE j = Len(g) + 1
        <5>1. PICK k \in 1..n : g[i] = s[k]
          BY <3>2, <4>1
        <5>2. k \in 1..Len(s) /\ n + 1 \in 1..Len(s) /\ k < n + 1
          BY <1>l, <2>1
        <5>3. <<s[k], s[n + 1]>> \in R
          BY <5>2
        <5> QED BY <3>1, <3>3, <4>1, <4>3, <5>1, <5>3
      <4> QED BY <3>4, <4>2, <4>3
    <3> QED BY <3>1, <3>3, <3>5, <3>6
  <2>4. CASE s[n + 1] \notin S
    <3>1. f[n + 1] = f[n]
      BY <2>2, <2>4
    <3>2. \A j \in 1..n : j \in 1..(n + 1)
      BY <2>1
    <3> QED BY <2>1, <3>1, <3>2
  <2> QED BY <2>3, <2>4
<1> HIDE DEF G
<1>5. Len(s) \in G
  BY <1>l, <1>3, <1>4, SetInduction
<1>6. Fine(Len(s))
  BY <1>l, <1>5 DEF G
<1> QED BY <1>1, <1>6

-----------------------------------------------------------------------------
\* u is the function by which SumFunction adds what f has for the elements of a
\* subset of S, one after the other.
Sums(u, f, S) ==
    u = [s \in SUBSET S |->
            IF s = {} THEN 0 ELSE f[CHOOSE x \in s : TRUE] + u[s \ {CHOOSE x \in s : TRUE}]]

\* A finite set without one of its elements.
LEMMA OneLess ==
    ASSUME NEW s, IsFiniteSet(s), s # {}
    PROVE  LET c == CHOOSE x \in s : TRUE
           IN  /\ c \in s /\ IsFiniteSet(s \ {c}) /\ Cardinality(s) \in Nat
               /\ Cardinality(s \ {c}) = Cardinality(s) - 1
<1>1. PICK c : c = CHOOSE x \in s : TRUE
  OBVIOUS
<1>2. c \in s
  BY <1>1
<1>3. IsFiniteSet(s \ {c}) /\ Cardinality(s \ {c}) = Cardinality(s) - 1
  BY <1>2, FS_RemoveElement
<1>4. Cardinality(s) \in Nat
  BY FS_CardinalityType
<1> QED BY <1>1, <1>2, <1>3, <1>4

\* It exists.
LEMMA SumsExist == ASSUME NEW f, NEW S, IsFiniteSet(S) PROVE \E u : Sums(u, f, S)
<1> DEFINE c(s) == CHOOSE x \in s : TRUE
           Small(n) == {s \in SUBSET S : Cardinality(s) <= n}
           Adds(u, n) == u = [s \in Small(n) |-> IF s = {} THEN 0 ELSE f[c(s)] + u[s \ {c(s)}]]
           G == {n \in Nat : \E u : Adds(u, n)}
<1>f. \A s \in SUBSET S : IsFiniteSet(s) /\ Cardinality(s) \in Nat /\ Cardinality(s) <= Cardinality(S)
  BY FS_Subset, FS_CardinalityType
<1>c. \A s \in SUBSET S : s # {} =>
         c(s) \in s /\ s \ {c(s)} \in SUBSET S /\ Cardinality(s \ {c(s)}) = Cardinality(s) - 1
  <2> TAKE s \in SUBSET S
  <2> HAVE s # {}
  <2>1. IsFiniteSet(s)
    BY <1>f
  <2> QED BY <2>1, OneLess
<1>e. Cardinality({}) = 0
  BY FS_EmptySet
<1> HIDE DEF c
<1>1. 0 \in G
  <2>1. PICK u : u = [s \in Small(0) |-> 0]
    OBVIOUS
  <2>2. \A s \in Small(0) : s = {}
    <3> SUFFICES ASSUME NEW s \in Small(0), s # {} PROVE FALSE
      OBVIOUS
    <3>1. s \in SUBSET S /\ Cardinality(s) <= 0
      OBVIOUS
    <3>2. Cardinality(s \ {c(s)}) = Cardinality(s) - 1 /\ s \ {c(s)} \in SUBSET S
      BY <1>c, <3>1
    <3>3. Cardinality(s \ {c(s)}) \in Nat /\ Cardinality(s) \in Nat
      BY <1>f, <3>1, <3>2
    <3> QED BY <3>1, <3>2, <3>3
  <2>3. Adds(u, 0)
    <3> HIDE DEF Small
    <3> QED BY <2>1, <2>2
  <2> QED BY <2>3
<1>2. ASSUME NEW n \in G \cap Nat PROVE n + 1 \in G
  <2>1. PICK u : Adds(u, n)
    BY <1>2
  <2>2. PICK w : w = [s \in Small(n + 1) |->
                        IF s \in Small(n) THEN u[s] ELSE f[c(s)] + u[s \ {c(s)}]]
    OBVIOUS
  <2>3. \A s \in Small(n + 1) : s # {} => s \ {c(s)} \in Small(n) /\ s \ {c(s)} \in Small(n + 1)
    <3> TAKE s \in Small(n + 1)
    <3> HAVE s # {}
    <3>1. s \in SUBSET S /\ Cardinality(s) <= n + 1 /\ Cardinality(s) \in Nat
      BY <1>f
    <3>2. s \ {c(s)} \in SUBSET S /\ Cardinality(s \ {c(s)}) = Cardinality(s) - 1
      BY <1>c, <3>1
    <3>3. Cardinality(s \ {c(s)}) <= n /\ Cardinality(s \ {c(s)}) <= n + 1
      BY <3>1, <3>2
    <3> QED BY <3>2, <3>3
  <2>4. {} \in Small(n) /\ \A s \in Small(n) : s \in Small(n + 1)
    <3>1. \A s \in SUBSET S : Cardinality(s) <= n => Cardinality(s) <= n + 1
      BY <1>f
    <3> QED BY <1>e, <3>1
  <2>5. \A s \in Small(n) : u[s] = IF s = {} THEN 0 ELSE f[c(s)] + u[s \ {c(s)}]
    <3> HIDE DEF Small
    <3> QED BY <2>1
  <2>6. ASSUME NEW s \in Small(n + 1)
        PROVE  w[s] = IF s = {} THEN 0 ELSE f[c(s)] + w[s \ {c(s)}]
    <3> HIDE DEF Small
    <3>1. s # {} => w[s \ {c(s)}] = u[s \ {c(s)}]
      BY <2>2, <2>3
    <3>2. CASE s \in Small(n)
      <4>1. w[s] = u[s]
        BY <2>2, <3>2
      <4> QED BY <2>5, <3>1, <3>2, <4>1
    <3>3. CASE s \notin Small(n)
      <4>1. w[s] = f[c(s)] + u[s \ {c(s)}] /\ s # {}
        BY <2>2, <2>4, <3>3
      <4> QED BY <3>1, <4>1
    <3> QED BY <3>2, <3>3
  <2>7. Adds(w, n + 1)
    <3> HIDE DEF Small
    <3> QED BY <2>2, <2>6
  <2>8. n + 1 \in Nat /\ \E v : Adds(v, n + 1)
    <3> HIDE DEF Adds
    <3> QED BY <1>2, <2>7
  <2> QED BY <2>8
<1>3. Nat \subseteq G
  <2> HIDE DEF G
  <2> QED BY <1>1, <1>2, SetInduction
<1>4. Cardinality(S) \in G
  BY <1>3, FS_CardinalityType
<1>5. PICK u : Adds(u, Cardinality(S))
  BY <1>4
<1>6. Small(Cardinality(S)) = SUBSET S
  BY <1>f
<1>7. u = [s \in SUBSET S |-> IF s = {} THEN 0 ELSE f[c(s)] + u[s \ {c(s)}]]
  <2> HIDE DEF Small
  <2> QED BY <1>5, <1>6
<1> QED BY <1>7 DEF Sums, c

\* What SumFunction computes.
LEMMA SumIsLast ==
    ASSUME NEW f, IsFiniteSet(DOMAIN f)
    PROVE  \E u : Sums(u, f, DOMAIN f) /\ SumFunction(f) = u[DOMAIN f]
<1> DEFINE g == CHOOSE u : Sums(u, f, DOMAIN f)
<1>1. \E u : Sums(u, f, DOMAIN f)
  BY SumsExist
<1>2. Sums(g, f, DOMAIN f)
  BY <1>1, Zenon
<1>3. SumFunction(f) = g[DOMAIN f]
  BY Zenon DEF SumFunction, SumFunctionOnSet, FoldFunctionOnSet, MapThenFoldSet, Sums
<1> QED BY <1>2, <1>3

\* Two sums over one set of what is equal on it.
LEMMA SumsAgree ==
    ASSUME NEW f, NEW g, NEW S, NEW T, NEW u, NEW w, Sums(u, f, S), Sums(w, g, T),
           NEW s, IsFiniteSet(s), s \subseteq S, s \subseteq T, \A x \in s : f[x] = g[x]
    PROVE  u[s] = w[s]
<1> DEFINE c(t) == CHOOSE x \in t : TRUE
           G == {n \in Nat : \A t \in SUBSET s : Cardinality(t) = n => u[t] = w[t]}
<1>f. \A t \in SUBSET s : IsFiniteSet(t) /\ Cardinality(t) \in Nat /\ t \in SUBSET S /\ t \in SUBSET T
  BY FS_Subset, FS_CardinalityType
<1>c. \A t \in SUBSET s : t # {} =>
         c(t) \in t /\ t \ {c(t)} \in SUBSET s /\ Cardinality(t \ {c(t)}) = Cardinality(t) - 1
  <2> TAKE t \in SUBSET s
  <2> HAVE t # {}
  <2>1. IsFiniteSet(t)
    BY <1>f
  <2> QED BY <2>1, OneLess
<1>u. /\ \A t \in SUBSET S : u[t] = IF t = {} THEN 0 ELSE f[c(t)] + u[t \ {c(t)}]
      /\ \A t \in SUBSET T : w[t] = IF t = {} THEN 0 ELSE g[c(t)] + w[t \ {c(t)}]
  BY DEF Sums
<1>e. Cardinality({}) = 0
  BY FS_EmptySet
<1> HIDE DEF c
<1>1. 0 \in G
  <2> SUFFICES ASSUME NEW t \in SUBSET s, Cardinality(t) = 0 PROVE u[t] = w[t]
    OBVIOUS
  <2>1. t = {}
    <3> SUFFICES ASSUME t # {} PROVE FALSE
      OBVIOUS
    <3>1. Cardinality(t \ {c(t)}) = 0 - 1 /\ t \ {c(t)} \in SUBSET s
      BY <1>c
    <3>2. Cardinality(t \ {c(t)}) \in Nat
      BY <1>f, <3>1
    <3> QED BY <3>1, <3>2
  <2> QED BY <1>f, <1>u, <2>1
<1>2. ASSUME NEW n \in G \cap Nat PROVE n + 1 \in G
  <2> SUFFICES ASSUME NEW t \in SUBSET s, Cardinality(t) = n + 1 PROVE u[t] = w[t]
    OBVIOUS
  <2>1. t # {}
    <3>1. n \in Nat /\ n + 1 # 0
      BY <1>2
    <3> QED BY <1>e, <3>1
  <2>2. c(t) \in t /\ t \ {c(t)} \in SUBSET s /\ Cardinality(t \ {c(t)}) = n
    BY <1>c, <2>1
  <2>3. u[t \ {c(t)}] = w[t \ {c(t)}]
    BY <1>2, <2>2
  <2>4. f[c(t)] = g[c(t)]
    BY <2>2
  <2>5. u[t] = f[c(t)] + u[t \ {c(t)}] /\ w[t] = g[c(t)] + w[t \ {c(t)}]
    BY <1>f, <1>u, <2>1
  <2> QED BY <2>3, <2>4, <2>5
<1>3. Nat \subseteq G
  <2> HIDE DEF G
  <2> QED BY <1>1, <1>2, SetInduction
<1>4. Cardinality(s) \in G
  BY <1>3, FS_CardinalityType
<1> QED BY <1>4

\* Whichever element of the set is taken first.
LEMMA SumsRemove ==
    ASSUME NEW f, NEW S, IsFiniteSet(S), \A x \in S : f[x] \in Nat, NEW u, Sums(u, f, S)
    PROVE  /\ \A s \in SUBSET S : u[s] \in Nat
           /\ \A s \in SUBSET S : \A d \in s : u[s] = f[d] + u[s \ {d}]
<1> DEFINE c(t) == CHOOSE x \in t : TRUE
           G == {n \in Nat : \A t \in SUBSET S : Cardinality(t) <= n =>
                    u[t] \in Nat /\ \A d \in t : u[t] = f[d] + u[t \ {d}]}
<1>f. \A t \in SUBSET S : IsFiniteSet(t) /\ Cardinality(t) \in Nat
  BY FS_Subset, FS_CardinalityType
<1>r. \A t \in SUBSET S : \A d \in t : t \ {d} \in SUBSET S /\ Cardinality(t \ {d}) = Cardinality(t) - 1
  <2> TAKE t \in SUBSET S
  <2> TAKE d \in t
  <2>1. IsFiniteSet(t)
    BY <1>f
  <2> QED BY <2>1, FS_RemoveElement
<1>c. \A t \in SUBSET S : t # {} => c(t) \in t
  OBVIOUS
<1>u. \A t \in SUBSET S : u[t] = IF t = {} THEN 0 ELSE f[c(t)] + u[t \ {c(t)}]
  BY DEF Sums
<1>e. Cardinality({}) = 0
  BY FS_EmptySet
<1> HIDE DEF c
<1>1. 0 \in G
  <2> SUFFICES ASSUME NEW t \in SUBSET S, Cardinality(t) <= 0
               PROVE  u[t] \in Nat /\ \A d \in t : u[t] = f[d] + u[t \ {d}]
    OBVIOUS
  <2>1. t = {}
    BY <1>f, FS_EmptySet
  <2> QED BY <1>u, <2>1
<1>2. ASSUME NEW n \in G \cap Nat PROVE n + 1 \in G
  <2> SUFFICES ASSUME NEW t \in SUBSET S, Cardinality(t) <= n + 1, t # {}
               PROVE  u[t] \in Nat /\ \A d \in t : u[t] = f[d] + u[t \ {d}]
    <3>1. u[{}] \in Nat /\ n + 1 \in Nat
      BY <1>u
    <3> QED BY <3>1
  <2>2. c(t) \in t /\ t \ {c(t)} \in SUBSET S /\ Cardinality(t \ {c(t)}) <= n
    BY <1>c, <1>f, <1>r
  <2>3. u[t] = f[c(t)] + u[t \ {c(t)}]
    BY <1>u
  <2>4. u[t \ {c(t)}] \in Nat /\ \A d \in t \ {c(t)} : u[t \ {c(t)}] = f[d] + u[(t \ {c(t)}) \ {d}]
    BY <1>2, <2>2
  <2>5. f[c(t)] \in Nat
    BY <2>2
  <2>6. u[t] \in Nat
    BY <2>3, <2>4, <2>5
  <2>7. ASSUME NEW d \in t PROVE u[t] = f[d] + u[t \ {d}]
    <3>1. CASE d = c(t)
      BY <2>3, <3>1
    <3>2. CASE d # c(t)
      <4>1. t \ {d} \in SUBSET S /\ Cardinality(t \ {d}) <= n
        BY <1>f, <1>r
      <4>2. c(t) \in t \ {d}
        BY <2>2, <3>2
      <4>3. u[t \ {d}] = f[c(t)] + u[(t \ {d}) \ {c(t)}]
        BY <1>2, <4>1, <4>2
      <4>4. u[t \ {c(t)}] = f[d] + u[(t \ {c(t)}) \ {d}]
        BY <2>4, <3>2
      <4>5. (t \ {d}) \ {c(t)} = (t \ {c(t)}) \ {d}
        OBVIOUS
      <4>6. PICK r : r = u[(t \ {c(t)}) \ {d}]
        OBVIOUS
      <4>7. (t \ {c(t)}) \ {d} \in SUBSET S /\ Cardinality((t \ {c(t)}) \ {d}) <= n
        <5>1. Cardinality(t \ {c(t)}) \in Nat
          BY <1>f, <2>2
        <5> QED BY <1>r, <2>2, <3>2, <5>1
      <4>8. r \in Nat /\ f[d] \in Nat
        BY <1>2, <4>6, <4>7
      <4>9. u[t] = f[c(t)] + (f[d] + r)
        BY <2>3, <4>4, <4>6
      <4>10. u[t \ {d}] = f[c(t)] + r
        BY <4>3, <4>5, <4>6
      <4> QED BY <2>5, <4>8, <4>9, <4>10
    <3> QED BY <3>1, <3>2
  <2> QED BY <2>6, <2>7
<1>3. Nat \subseteq G
  <2> HIDE DEF G
  <2> QED BY <1>1, <1>2, SetInduction
<1>4. \A s \in SUBSET S : Cardinality(s) \in G
  BY <1>3, <1>f
<1> QED BY <1>4

\* The sum of nothing.
LEMMA SumOfNothing == ASSUME NEW f, DOMAIN f = {} PROVE SumFunction(f) = 0
<1>1. IsFiniteSet(DOMAIN f)
  BY FS_EmptySet
<1>2. PICK u : Sums(u, f, DOMAIN f) /\ SumFunction(f) = u[DOMAIN f]
  BY <1>1, SumIsLast
<1> QED BY <1>2 DEF Sums

\* What SumFunction adds up, element by element.
LEMMA SumByElement ==
    ASSUME NEW f, IsFiniteSet(DOMAIN f), \A x \in DOMAIN f : f[x] \in Nat
    PROVE  \E u : /\ Sums(u, f, DOMAIN f) /\ SumFunction(f) = u[DOMAIN f]
                  /\ \A s \in SUBSET DOMAIN f : u[s] \in Nat
                  /\ \A s \in SUBSET DOMAIN f : \A d \in s : u[s] = f[d] + u[s \ {d}]
<1>1. PICK u : Sums(u, f, DOMAIN f) /\ SumFunction(f) = u[DOMAIN f]
  BY SumIsLast
<1>2. \A s \in SUBSET DOMAIN f : u[s] \in Nat
  BY <1>1, SumsRemove
<1>3. \A s \in SUBSET DOMAIN f : \A d \in s : u[s] = f[d] + u[s \ {d}]
  <2> TAKE s \in SUBSET DOMAIN f
  <2> TAKE d \in s
  <2> QED BY <1>1, SumsRemove
<1> QED BY <1>1, <1>2, <1>3

\* The sum of a function in which one element is added or has grown.
LEMMA SumGrown ==
    ASSUME NEW f, NEW g, NEW h, NEW d \in Nat, IsFiniteSet(DOMAIN f),
           \A x \in DOMAIN f : f[x] \in Nat,
           DOMAIN g = DOMAIN f \cup {h},
           \A x \in DOMAIN f \ {h} : g[x] = f[x],
           g[h] = (IF h \in DOMAIN f THEN f[h] ELSE 0) + d
    PROVE  SumFunction(g) = SumFunction(f) + d
<1>1. PICK S, T : S = DOMAIN f /\ T = S \cup {h}
  OBVIOUS
<1>2. DOMAIN g = T /\ IsFiniteSet(S) /\ IsFiniteSet(T)
  BY <1>1, FS_AddElement
<1>3. /\ \A x \in S : f[x] \in Nat
      /\ \A x \in S \ {h} : g[x] = f[x]
  BY <1>1
<1>4. g[h] = (IF h \in S THEN f[h] ELSE 0) + d
  BY <1>1
<1>t. \A x \in T : g[x] \in Nat
  <2> TAKE x \in T
  <2>1. CASE x = h
    BY <1>3, <1>4, <2>1
  <2>2. CASE x # h
    BY <1>1, <1>3, <2>2
  <2> QED BY <2>1, <2>2
<1>5. PICK u : /\ Sums(u, f, DOMAIN f) /\ SumFunction(f) = u[DOMAIN f]
               /\ \A s \in SUBSET DOMAIN f : u[s] \in Nat
               /\ \A s \in SUBSET DOMAIN f : \A x \in s : u[s] = f[x] + u[s \ {x}]
  BY SumByElement
<1>6. PICK w : /\ Sums(w, g, DOMAIN g) /\ SumFunction(g) = w[DOMAIN g]
               /\ \A s \in SUBSET DOMAIN g : w[s] \in Nat
               /\ \A s \in SUBSET DOMAIN g : \A x \in s : w[s] = g[x] + w[s \ {x}]
  <2>1. IsFiniteSet(DOMAIN g)
    BY <1>2
  <2>2. \A x \in DOMAIN g : g[x] \in Nat
    BY <1>2, <1>t
  <2> QED BY <2>1, <2>2, SumByElement
<1>7. /\ Sums(u, f, S) /\ SumFunction(f) = u[S]
      /\ \A s \in SUBSET S : u[s] \in Nat
      /\ \A s \in SUBSET S : \A x \in s : u[s] = f[x] + u[s \ {x}]
  BY <1>1, <1>5
<1>8. /\ Sums(w, g, T) /\ SumFunction(g) = w[T]
      /\ \A s \in SUBSET T : w[s] \in Nat
      /\ \A s \in SUBSET T : \A x \in s : w[s] = g[x] + w[s \ {x}]
  BY <1>2, <1>6
<1>9. T \ {h} = S \ {h} /\ S \ {h} \in SUBSET S /\ S \ {h} \in SUBSET T
  BY <1>1
<1>10. w[T] = g[h] + w[S \ {h}]
  BY <1>1, <1>8, <1>9
<1>11. w[S \ {h}] = u[S \ {h}]
  <2>1. IsFiniteSet(S \ {h})
    BY <1>2, <1>9, FS_Subset
  <2>2. \A x \in S \ {h} : f[x] = g[x]
    BY <1>3
  <2> QED BY <1>7, <1>8, <1>9, <2>1, <2>2, SumsAgree
<1>12. u[S \ {h}] \in Nat
  BY <1>7, <1>9
<1>b. SumFunction(f) = u[S] /\ SumFunction(g) = w[T]
  BY <1>7, <1>8
<1>13. CASE h \in S
  <2>1. u[S] = f[h] + u[S \ {h}] /\ g[h] = f[h] + d /\ f[h] \in Nat
    BY <1>3, <1>4, <1>7, <1>13
  <2> QED BY <1>b, <1>10, <1>11, <1>12, <2>1
<1>14. CASE h \notin S
  <2>1. S \ {h} = S
    BY <1>14
  <2>2. g[h] = d
    BY <1>4, <1>14
  <2>3. u[S] \in Nat /\ w[T] = d + u[S]
    BY <1>10, <1>11, <1>12, <2>1, <2>2
  <2> QED BY <1>b, <2>3
<1> QED BY <1>13, <1>14
=============================================================================
