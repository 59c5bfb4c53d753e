----------------------------- MODULE FoldProofs -----------------------------
(***************************************************************************)
(* What FoldLeft of SequencesExt computes, for any operator: the value at  *)
(* the end of a run that starts with the base and takes in one element     *)
(* after the other. FoldLeft is defined through a function on the sets of  *)
(* positions, chosen by its recursion; that there is one, and only one, is *)
(* proved here.                                                            *)
(*                                                                         *)
(* A theorem with an operator as a parameter cannot be used by the provers.*)
(* Here the operator is a constant of the module, and every INSTANCE gives *)
(* first-order theorems about one fold.                                    *)
(***************************************************************************)
EXTENDS Integers, SequenceTheorems, SumProofs

CONSTANT Op(_, _)

\* The table FoldLeft is defined by.
Top(t) == CHOOSE x \in t : \A y \in t : x >= y
IsTable(k, b, s, n) ==
  k = [t \in SUBSET (1..n) |->
         IF t = {} THEN b ELSE Op(k[t \ {Top(t)}], s[Top(t)])]

\* The run of the fold: r[i] is the value after i elements.
IsRun(r, b, s) ==
  /\ r[0] = b
  /\ \A i \in 1..Len(s) : r[i] = Op(r[i - 1], s[i])

Value(b, s) == CHOOSE v : \E r : IsRun(r, b, s) /\ v = r[Len(s)]

\* The largest of a set of positions that has n + 1 is n + 1.
LEMMA TopOf ==
  ASSUME NEW n \in Nat, NEW t \in SUBSET (1..n + 1), n + 1 \in t
  PROVE  Top(t) = n + 1
<1>1. \A y \in t : y \in Nat /\ n + 1 >= y
  OBVIOUS
<1>2. \A x \in t : (\A y \in t : x >= y) => x = n + 1
  BY <1>1
<1>3. \E x \in t : \A y \in t : x >= y
  BY <1>1
<1> QED BY <1>2, <1>3 DEF Top

\* There is a table for every number of elements.
LEMMA TableExists ==
  ASSUME NEW b, NEW s, NEW n \in Nat
  PROVE  \E k : IsTable(k, b, s, n)
<1> DEFINE G == {m \in Nat : \E k : IsTable(k, b, s, m)}
<1>1. 0 \in G
  <2>1. IsTable([t \in SUBSET (1..0) |-> b], b, s, 0)
    <3>1. 1..0 = {} /\ \A t \in SUBSET (1..0) : t = {}
      OBVIOUS
    <3> QED BY <3>1 DEF IsTable
  <2> QED BY <2>1
<1>2. ASSUME NEW m \in Nat, m \in G PROVE m + 1 \in G
  <2>1. PICK k : IsTable(k, b, s, m)
    BY <1>2
  <2> DEFINE g == [t \in SUBSET (1..m + 1) |->
                     IF m + 1 \in t THEN Op(k[t \ {m + 1}], s[m + 1]) ELSE k[t]]
             h == [t \in SUBSET (1..m + 1) |->
                     IF t = {} THEN b ELSE Op(g[t \ {Top(t)}], s[Top(t)])]
  <2>2. \A t \in SUBSET (1..m) : k[t] = IF t = {} THEN b ELSE Op(k[t \ {Top(t)}], s[Top(t)])
    BY <2>1 DEF IsTable
  <2>3. ASSUME NEW t \in SUBSET (1..m + 1) PROVE g[t] = h[t]
    <3>1. CASE m + 1 \in t
      <4>1. Top(t) = m + 1 /\ t # {}
        BY <3>1, TopOf
      <4>2. t \ {m + 1} \in SUBSET (1..m + 1) /\ m + 1 \notin t \ {m + 1}
        OBVIOUS
      <4>3. g[t \ {m + 1}] = k[t \ {m + 1}]
        BY <4>2
      <4>4. g[t] = Op(k[t \ {m + 1}], s[m + 1])
        BY <3>1
      <4>5. h[t] = Op(g[t \ {Top(t)}], s[Top(t)])
        BY <4>1
      <4> HIDE DEF g, h
      <4> QED BY <4>1, <4>3, <4>4, <4>5
    <3>2. CASE m + 1 \notin t
      <4>1. t \in SUBSET (1..m)
        BY <3>2
      <4>2. t \ {Top(t)} \in SUBSET (1..m + 1) /\ m + 1 \notin t \ {Top(t)}
        BY <3>2
      <4>3. g[t \ {Top(t)}] = k[t \ {Top(t)}] /\ g[t] = k[t]
        BY <4>2, <3>2
      <4>4. h[t] = IF t = {} THEN b ELSE Op(g[t \ {Top(t)}], s[Top(t)])
        OBVIOUS
      <4> HIDE DEF g, h
      <4> QED BY <2>2, <4>1, <4>3, <4>4
    <3> QED BY <3>1, <3>2
  <2>4. g = h
    BY <2>3
  <2>5. IsTable(g, b, s, m + 1)
    <3> HIDE DEF g
    <3> QED BY <2>4 DEF IsTable
  <2> HIDE DEF g
  <2> QED BY <2>5
<1> HIDE DEF G
<1>3. n \in G
  BY <1>1, <1>2, NaturalInduction
<1> QED BY <1>3 DEF G

\* A table holds a run.
LEMMA TableRun ==
  ASSUME NEW S, NEW b, NEW s \in Seq(S), NEW k, IsTable(k, b, s, Len(s))
  PROVE  \E r : IsRun(r, b, s) /\ r[Len(s)] = k[1..Len(s)]
<1>0. Len(s) \in Nat
  BY LenProperties
<1> DEFINE r == [i \in 0..Len(s) |-> k[1..i]]
<1>1. \A t \in SUBSET (1..Len(s)) :
        k[t] = IF t = {} THEN b ELSE Op(k[t \ {Top(t)}], s[Top(t)])
  BY DEF IsTable
<1>2. r[0] = b
  <2>1. 1..0 = {} /\ 0 \in 0..Len(s)
    BY <1>0
  <2> QED BY <1>1, <2>1
<1>3. ASSUME NEW i \in 1..Len(s) PROVE r[i] = Op(r[i - 1], s[i])
  <2>1. i - 1 \in Nat /\ (i - 1) + 1 = i /\ i - 1 \in 0..Len(s) /\ i \in 0..Len(s)
    BY <1>0
  <2>2. 1..i \in SUBSET (1..Len(s)) /\ 1..i # {} /\ i \in 1..i
    <3>1. i \in Nat /\ i <= Len(s) /\ i \in 1..i
      BY <1>0
    <3>2. \A j \in 1..i : j \in 1..Len(s)
      BY <1>0, <3>1
    <3> QED BY <3>1, <3>2
  <2>3. Top(1..i) = i
    <3>1. 1..i \in SUBSET (1..(i - 1) + 1) /\ (i - 1) + 1 \in 1..i
      BY <2>1
    <3> QED BY <2>1, <3>1, TopOf
  <2>4. (1..i) \ {i} = 1..(i - 1)
    BY <2>1
  <2>5. k[1..i] = Op(k[1..(i - 1)], s[i])
    BY <1>1, <2>2, <2>3, <2>4
  <2> QED BY <2>1, <2>5
<1>4. r[Len(s)] = k[1..Len(s)]
  BY <1>0
<1> HIDE DEF r
<1>5. IsRun(r, b, s)
  BY <1>2, <1>3 DEF IsRun
<1> QED BY <1>4, <1>5

\* Runs over sequences that begin alike begin alike.
LEMMA RunsAgree ==
  ASSUME NEW S, NEW b, NEW s \in Seq(S), NEW u \in Seq(S), NEW r, NEW q,
         IsRun(r, b, s), IsRun(q, b, u), NEW n \in 0..Len(s), n <= Len(u),
         \A i \in 1..n : s[i] = u[i]
  PROVE  r[n] = q[n]
<1>0. Len(s) \in Nat /\ Len(u) \in Nat /\ n \in Nat
  BY LenProperties
<1> DEFINE G == {m \in Nat : m <= n => r[m] = q[m]}
<1>1. 0 \in G
  BY DEF IsRun
<1>2. ASSUME NEW m \in Nat, m \in G PROVE m + 1 \in G
  <2> SUFFICES ASSUME m + 1 <= n PROVE r[m + 1] = q[m + 1]
    OBVIOUS
  <2>1. m <= n /\ m + 1 \in 1..Len(s) /\ m + 1 \in 1..Len(u) /\ m + 1 \in 1..n /\ (m + 1) - 1 = m
    BY <1>0
  <2>2. r[m + 1] = Op(r[m], s[m + 1]) /\ q[m + 1] = Op(q[m], u[m + 1])
    BY <2>1 DEF IsRun
  <2> QED BY <1>2, <2>1, <2>2
<1> HIDE DEF G
<1>3. n \in G
  BY <1>0, <1>1, <1>2, NaturalInduction
<1> QED BY <1>0, <1>3 DEF G

\* Every sequence has a run, and all its runs end with the value.
LEMMA RunValue ==
  ASSUME NEW S, NEW b, NEW s \in Seq(S)
  PROVE  /\ \E r : IsRun(r, b, s)
         /\ \A r : IsRun(r, b, s) => Value(b, s) = r[Len(s)]
<1>0. Len(s) \in Nat
  BY LenProperties
<1>1. PICK k : IsTable(k, b, s, Len(s))
  BY <1>0, TableExists
<1>2. PICK r : IsRun(r, b, s)
  BY <1>1, TableRun
<1>3. ASSUME NEW p, NEW q, IsRun(p, b, s), IsRun(q, b, s) PROVE p[Len(s)] = q[Len(s)]
  <2>1. Len(s) \in 0..Len(s) /\ Len(s) <= Len(s)
    BY <1>0
  <2> QED BY <1>3, <2>1, RunsAgree
<1>4. \E v : \E p : IsRun(p, b, s) /\ v = p[Len(s)]
  BY <1>2
<1>5. PICK p : IsRun(p, b, s) /\ Value(b, s) = p[Len(s)]
  BY <1>4 DEF Value
<1> QED BY <1>2, <1>3, <1>5

\* The value FoldLeft has.
LEMMA TableValue ==
  ASSUME NEW S, NEW b, NEW s \in Seq(S), NEW k, IsTable(k, b, s, Len(s))
  PROVE  k[1..Len(s)] = Value(b, s)
BY TableRun, RunValue

\* Nothing taken in.
LEMMA ValueEmpty == ASSUME NEW b PROVE Value(b, <<>>) = b
<1>1. <<>> \in Seq({}) /\ Len(<<>>) = 0
  OBVIOUS
<1>2. PICK r : IsRun(r, b, <<>>)
  BY <1>1, RunValue
<1>3. Value(b, <<>>) = r[0]
  BY <1>1, <1>2, RunValue
<1> QED BY <1>2, <1>3 DEF IsRun

\* One sequence after another.
LEMMA ValueConcat ==
  ASSUME NEW S, NEW b, NEW s \in Seq(S), NEW u \in Seq(S)
  PROVE  Value(b, s \o u) = Value(Value(b, s), u)
<1>0. /\ Len(s) \in Nat /\ Len(u) \in Nat /\ s \o u \in Seq(S) /\ Len(s \o u) = Len(s) + Len(u)
      /\ \A i \in 1..Len(s) : (s \o u)[i] = s[i]
      /\ \A i \in 1..Len(u) : (s \o u)[Len(s) + i] = u[i]
  BY LenProperties, ConcatProperties
<1>1. PICK r : IsRun(r, b, s)
  BY RunValue
<1>2. Value(b, s) = r[Len(s)]
  BY <1>1, RunValue
<1>3. PICK q : IsRun(q, Value(b, s), u)
  BY RunValue
<1>4. Value(Value(b, s), u) = q[Len(u)]
  BY <1>3, RunValue
<1> DEFINE p == [i \in 0..Len(s) + Len(u) |-> IF i <= Len(s) THEN r[i] ELSE q[i - Len(s)]]
<1>5. q[0] = r[Len(s)] /\ r[0] = b
  BY <1>1, <1>2, <1>3 DEF IsRun
<1>6. \A i \in 0..Len(u) : p[Len(s) + i] = q[i]
  <2> TAKE i \in 0..Len(u)
  <2>1. /\ Len(s) + i \in 0..Len(s) + Len(u) /\ (Len(s) + i) - Len(s) = i
        /\ i = 0 => Len(s) + i = Len(s)
        /\ Len(s) + i <= Len(s) <=> i = 0
    BY <1>0
  <2> QED BY <2>1, <1>5
<1>7. \A i \in 0..Len(s) : p[i] = r[i]
  BY <1>0
<1> HIDE DEF p
<1>8. ASSUME NEW i \in 1..Len(s \o u) PROVE p[i] = Op(p[i - 1], (s \o u)[i])
  <2>1. CASE i <= Len(s)
    <3>1. i \in 1..Len(s) /\ i \in 0..Len(s) /\ i - 1 \in 0..Len(s)
      BY <2>1, <1>0
    <3>2. r[i] = Op(r[i - 1], s[i])
      BY <1>1, <3>1 DEF IsRun
    <3> QED BY <3>1, <3>2, <1>0, <1>7
  <2>2. CASE i > Len(s)
    <3> DEFINE j == i - Len(s)
    <3>1. /\ j \in 1..Len(u) /\ j \in 0..Len(u) /\ j - 1 \in 0..Len(u)
          /\ i = Len(s) + j /\ i - 1 = Len(s) + (j - 1)
      BY <2>2, <1>0
    <3> HIDE DEF j
    <3>2. q[j] = Op(q[j - 1], u[j])
      BY <1>3, <3>1 DEF IsRun
    <3>3. p[i] = q[j] /\ p[i - 1] = q[j - 1] /\ (s \o u)[i] = u[j]
      BY <3>1, <1>0, <1>6
    <3> QED BY <3>2, <3>3
  <2> QED BY <2>1, <2>2, <1>0
<1>9. IsRun(p, b, s \o u)
  <2>1. p[0] = b
    BY <1>0, <1>5, <1>7
  <2> QED BY <2>1, <1>8 DEF IsRun
<1>10. Value(b, s \o u) = p[Len(s) + Len(u)]
  <2> DEFINE w == s \o u
  <2>1. w \in Seq(S) /\ IsRun(p, b, w) /\ Len(w) = Len(s) + Len(u)
    BY <1>0, <1>9
  <2> HIDE DEF w
  <2>2. Value(b, w) = p[Len(w)]
    BY <2>1, RunValue
  <2> QED BY <2>1, <2>2 DEF w
<1>11. Len(u) \in 0..Len(u)
  BY <1>0
<1> QED BY <1>4, <1>6, <1>10, <1>11

\* One element.
LEMMA ValueOne == ASSUME NEW b, NEW x PROVE Value(b, <<x>>) = Op(b, x)
<1>1. <<x>> \in Seq({x}) /\ Len(<<x>>) = 1 /\ <<x>>[1] = x
  OBVIOUS
<1>2. PICK r : IsRun(r, b, <<x>>)
  BY <1>1, RunValue
<1>3. Value(b, <<x>>) = r[1]
  BY <1>1, <1>2, RunValue
<1>4. r[0] = b /\ r[1] = Op(r[1 - 1], <<x>>[1])
  <2>1. 1 \in 1..Len(<<x>>)
    BY <1>1
  <2> QED BY <1>2, <2>1 DEF IsRun
<1>5. 1 - 1 = 0
  OBVIOUS
<1> QED BY <1>1, <1>3, <1>4, <1>5

\* One more element.
LEMMA ValueAppend ==
  ASSUME NEW S, NEW b, NEW s \in Seq(S), NEW x \in S
  PROVE  Value(b, Append(s, x)) = Op(Value(b, s), x)
<1> DEFINE u == <<x>>
<1>1. Append(s, x) = s \o u /\ u \in Seq(S)
  BY AppendIsConcat
<1>2. Value(Value(b, s), u) = Op(Value(b, s), x)
  BY ValueOne
<1> HIDE DEF u
<1>3. Value(b, s \o u) = Value(Value(b, s), u)
  BY <1>1, ValueConcat
<1> QED BY <1>1, <1>2, <1>3
=============================================================================
