---------------------------- MODULE StreamProofs ----------------------------
(***************************************************************************)
(* What a streamed turn makes of a provider's answer, for every set of     *)
(* answers upstream may give, every cut of their bytes into network        *)
(* chunks, every buffer limit and every content limit: StreamSound.        *)
(*                                                                         *)
(* The model folds over lines (the decoder), over chunks (the adapter),    *)
(* over events (the turn) and over fragments (the accumulator). Each       *)
(* fold is unrolled with an instance of FoldProofs: what it makes of       *)
(* <<>>, and what one more element changes. From that come, one element    *)
(* at a time, what is carried of the fragments sent so far (Carried,       *)
(* Tracks: the ids given out, arguments held back until there is one,      *)
(* and the deltas shown) and what the accumulator has gathered of them     *)
(* (Gathers).                                                              *)
(*                                                                         *)
(* LineInv says what the decoder, the adapter and the answer are after     *)
(* the whole lines read so far, all of them good; EndInv what they are     *)
(* after a line that ends the stream. A step reads some more lines and     *)
(* may stop within one, so StreamInv states LineInv of the lines that      *)
(* are in the bytes received, and of a round that goes on that it has      *)
(* all of the lines that count (Complete), the trailing one included.      *)
(***************************************************************************)
EXTENDS ProviderStream, SequenceTheorems, FiniteSetTheorems, SumProofs

(* Folds *)

PlusBytes(sum, line) == sum + line.bytes
Joined(a, b) == a \o b

LineFold == INSTANCE FoldProofs WITH Op <- handle_sse_line

\* FoldLeft, for the decoder over lines.
LEMMA LineFoldValue ==
  ASSUME NEW S, NEW b, NEW s \in Seq(S)
  PROVE  FoldLeft(handle_sse_line, b, s) = LineFold!Value(b, s)
<1>0. Len(s) \in Nat /\ DOMAIN s = 1..Len(s)
  BY LenProperties
<1> DEFINE Fits(k) == k = [t \in SUBSET DOMAIN s |->
              IF t = {} THEN b ELSE handle_sse_line(k[t \ {Max(t)}], s[Max(t)])]
<1>1. \E k : Fits(k)
  <2>1. PICK k : LineFold!IsTable(k, b, s, Len(s))
    BY <1>0, LineFold!TableExists
  <2>2. Fits(k)
    BY <2>1, <1>0 DEF LineFold!IsTable, LineFold!Top, Max
  <2> QED BY <2>2
<1>2. PICK k : Fits(k) /\ FoldLeft(handle_sse_line, b, s) = k[DOMAIN s]
  BY <1>1, Zenon DEF FoldLeft, MapThenFoldSet
<1>3. LineFold!IsTable(k, b, s, Len(s))
  BY <1>2, <1>0 DEF LineFold!IsTable, LineFold!Top, Max
<1> QED BY <1>0, <1>2, <1>3, LineFold!TableValue

AdaptFold == INSTANCE FoldProofs WITH Op <- adapt

\* FoldLeft, for the adapter over chunks.
LEMMA AdaptFoldValue ==
  ASSUME NEW S, NEW b, NEW s \in Seq(S)
  PROVE  FoldLeft(adapt, b, s) = AdaptFold!Value(b, s)
<1>0. Len(s) \in Nat /\ DOMAIN s = 1..Len(s)
  BY LenProperties
<1> DEFINE Fits(k) == k = [t \in SUBSET DOMAIN s |->
              IF t = {} THEN b ELSE adapt(k[t \ {Max(t)}], s[Max(t)])]
<1>1. \E k : Fits(k)
  <2>1. PICK k : AdaptFold!IsTable(k, b, s, Len(s))
    BY <1>0, AdaptFold!TableExists
  <2>2. Fits(k)
    BY <2>1, <1>0 DEF AdaptFold!IsTable, AdaptFold!Top, Max
  <2> QED BY <2>2
<1>2. PICK k : Fits(k) /\ FoldLeft(adapt, b, s) = k[DOMAIN s]
  BY <1>1, Zenon DEF FoldLeft, MapThenFoldSet
<1>3. AdaptFold!IsTable(k, b, s, Len(s))
  BY <1>2, <1>0 DEF AdaptFold!IsTable, AdaptFold!Top, Max
<1> QED BY <1>0, <1>2, <1>3, AdaptFold!TableValue

TakeFold == INSTANCE FoldProofs WITH Op <- Takes

\* FoldLeft, for the turn over events.
LEMMA TakeFoldValue ==
  ASSUME NEW S, NEW b, NEW s \in Seq(S)
  PROVE  FoldLeft(Takes, b, s) = TakeFold!Value(b, s)
<1>0. Len(s) \in Nat /\ DOMAIN s = 1..Len(s)
  BY LenProperties
<1> DEFINE Fits(k) == k = [t \in SUBSET DOMAIN s |->
              IF t = {} THEN b ELSE Takes(k[t \ {Max(t)}], s[Max(t)])]
<1>1. \E k : Fits(k)
  <2>1. PICK k : TakeFold!IsTable(k, b, s, Len(s))
    BY <1>0, TakeFold!TableExists
  <2>2. Fits(k)
    BY <2>1, <1>0 DEF TakeFold!IsTable, TakeFold!Top, Max
  <2> QED BY <2>2
<1>2. PICK k : Fits(k) /\ FoldLeft(Takes, b, s) = k[DOMAIN s]
  BY <1>1, Zenon DEF FoldLeft, MapThenFoldSet
<1>3. TakeFold!IsTable(k, b, s, Len(s))
  BY <1>2, <1>0 DEF TakeFold!IsTable, TakeFold!Top, Max
<1> QED BY <1>0, <1>2, <1>3, TakeFold!TableValue

IngestFold == INSTANCE FoldProofs WITH Op <- ingest

\* FoldLeft, for the accumulator over fragments.
LEMMA IngestFoldValue ==
  ASSUME NEW S, NEW b, NEW s \in Seq(S)
  PROVE  FoldLeft(ingest, b, s) = IngestFold!Value(b, s)
<1>0. Len(s) \in Nat /\ DOMAIN s = 1..Len(s)
  BY LenProperties
<1> DEFINE Fits(k) == k = [t \in SUBSET DOMAIN s |->
              IF t = {} THEN b ELSE ingest(k[t \ {Max(t)}], s[Max(t)])]
<1>1. \E k : Fits(k)
  <2>1. PICK k : IngestFold!IsTable(k, b, s, Len(s))
    BY <1>0, IngestFold!TableExists
  <2>2. Fits(k)
    BY <2>1, <1>0 DEF IngestFold!IsTable, IngestFold!Top, Max
  <2> QED BY <2>2
<1>2. PICK k : Fits(k) /\ FoldLeft(ingest, b, s) = k[DOMAIN s]
  BY <1>1, Zenon DEF FoldLeft, MapThenFoldSet
<1>3. IngestFold!IsTable(k, b, s, Len(s))
  BY <1>2, <1>0 DEF IngestFold!IsTable, IngestFold!Top, Max
<1> QED BY <1>0, <1>2, <1>3, IngestFold!TableValue

ByteFold == INSTANCE FoldProofs WITH Op <- PlusBytes

\* FoldLeft, for bytes of lines.
LEMMA ByteFoldValue ==
  ASSUME NEW S, NEW b, NEW s \in Seq(S)
  PROVE  FoldLeft(PlusBytes, b, s) = ByteFold!Value(b, s)
<1>0. Len(s) \in Nat /\ DOMAIN s = 1..Len(s)
  BY LenProperties
<1> DEFINE Fits(k) == k = [t \in SUBSET DOMAIN s |->
              IF t = {} THEN b ELSE PlusBytes(k[t \ {Max(t)}], s[Max(t)])]
<1>1. \E k : Fits(k)
  <2>1. PICK k : ByteFold!IsTable(k, b, s, Len(s))
    BY <1>0, ByteFold!TableExists
  <2>2. Fits(k)
    BY <2>1, <1>0 DEF ByteFold!IsTable, ByteFold!Top, Max
  <2> QED BY <2>2
<1>2. PICK k : Fits(k) /\ FoldLeft(PlusBytes, b, s) = k[DOMAIN s]
  BY <1>1, Zenon DEF FoldLeft, MapThenFoldSet
<1>3. ByteFold!IsTable(k, b, s, Len(s))
  BY <1>2, <1>0 DEF ByteFold!IsTable, ByteFold!Top, Max
<1> QED BY <1>0, <1>2, <1>3, ByteFold!TableValue

JoinFold == INSTANCE FoldProofs WITH Op <- Joined

\* FoldLeft, for sequences joined.
LEMMA JoinFoldValue ==
  ASSUME NEW S, NEW b, NEW s \in Seq(S)
  PROVE  FoldLeft(Joined, b, s) = JoinFold!Value(b, s)
<1>0. Len(s) \in Nat /\ DOMAIN s = 1..Len(s)
  BY LenProperties
<1> DEFINE Fits(k) == k = [t \in SUBSET DOMAIN s |->
              IF t = {} THEN b ELSE Joined(k[t \ {Max(t)}], s[Max(t)])]
<1>1. \E k : Fits(k)
  <2>1. PICK k : JoinFold!IsTable(k, b, s, Len(s))
    BY <1>0, JoinFold!TableExists
  <2>2. Fits(k)
    BY <2>1, <1>0 DEF JoinFold!IsTable, JoinFold!Top, Max
  <2> QED BY <2>2
<1>2. PICK k : Fits(k) /\ FoldLeft(Joined, b, s) = k[DOMAIN s]
  BY <1>1, Zenon DEF FoldLeft, MapThenFoldSet
<1>3. JoinFold!IsTable(k, b, s, Len(s))
  BY <1>2, <1>0 DEF JoinFold!IsTable, JoinFold!Top, Max
<1> QED BY <1>0, <1>2, <1>3, JoinFold!TableValue
-----------------------------------------------------------------------------
(* The folds of the model, element by element *)

Decoded(st, ls) == FoldLeft(handle_sse_line, st, ls)
Adapted(as, p) == FoldLeft(adapt, as, p)
Took(an, es) == FoldLeft(Takes, an, es)
Ingested(acc, ds) == FoldLeft(ingest, acc, ds)
Summed(sum, ls) == FoldLeft(PlusBytes, sum, ls)
Linked(a, ss) == FoldLeft(Joined, a, ss)

\* Lines: none, and one more.
LEMMA DecodedEmpty == ASSUME NEW b PROVE Decoded(b, <<>>) = b
<1>1. <<>> \in Seq({})
  OBVIOUS
<1> QED BY <1>1, LineFoldValue, LineFold!ValueEmpty DEF Decoded

LEMMA DecodedAppend ==
  ASSUME NEW S, NEW b, NEW s \in Seq(S), NEW x \in S
  PROVE  Decoded(b, Append(s, x)) = handle_sse_line(Decoded(b, s), x)
<1> DEFINE t == Append(s, x)
<1>1. t \in Seq(S)
  BY AppendProperties
<1>2. LineFold!Value(b, t) = handle_sse_line(LineFold!Value(b, s), x)
  BY LineFold!ValueAppend
<1> HIDE DEF t
<1>3. Decoded(b, t) = LineFold!Value(b, t) /\ Decoded(b, s) = LineFold!Value(b, s)
  BY <1>1, LineFoldValue DEF Decoded
<1> QED BY <1>2, <1>3 DEF t

\* Chunks: none, and one more.
LEMMA AdaptedEmpty == ASSUME NEW b PROVE Adapted(b, <<>>) = b
<1>1. <<>> \in Seq({})
  OBVIOUS
<1> QED BY <1>1, AdaptFoldValue, AdaptFold!ValueEmpty DEF Adapted

LEMMA AdaptedAppend ==
  ASSUME NEW S, NEW b, NEW s \in Seq(S), NEW x \in S
  PROVE  Adapted(b, Append(s, x)) = adapt(Adapted(b, s), x)
<1> DEFINE t == Append(s, x)
<1>1. t \in Seq(S)
  BY AppendProperties
<1>2. AdaptFold!Value(b, t) = adapt(AdaptFold!Value(b, s), x)
  BY AdaptFold!ValueAppend
<1> HIDE DEF t
<1>3. Adapted(b, t) = AdaptFold!Value(b, t) /\ Adapted(b, s) = AdaptFold!Value(b, s)
  BY <1>1, AdaptFoldValue DEF Adapted
<1> QED BY <1>2, <1>3 DEF t

\* Events: none, and one more.
LEMMA TookEmpty == ASSUME NEW b PROVE Took(b, <<>>) = b
<1>1. <<>> \in Seq({})
  OBVIOUS
<1> QED BY <1>1, TakeFoldValue, TakeFold!ValueEmpty DEF Took

LEMMA TookAppend ==
  ASSUME NEW S, NEW b, NEW s \in Seq(S), NEW x \in S
  PROVE  Took(b, Append(s, x)) = Takes(Took(b, s), x)
<1> DEFINE t == Append(s, x)
<1>1. t \in Seq(S)
  BY AppendProperties
<1>2. TakeFold!Value(b, t) = Takes(TakeFold!Value(b, s), x)
  BY TakeFold!ValueAppend
<1> HIDE DEF t
<1>3. Took(b, t) = TakeFold!Value(b, t) /\ Took(b, s) = TakeFold!Value(b, s)
  BY <1>1, TakeFoldValue DEF Took
<1> QED BY <1>2, <1>3 DEF t

\* Fragments: none, and one more.
LEMMA IngestedEmpty == ASSUME NEW b PROVE Ingested(b, <<>>) = b
<1>1. <<>> \in Seq({})
  OBVIOUS
<1> QED BY <1>1, IngestFoldValue, IngestFold!ValueEmpty DEF Ingested

LEMMA IngestedAppend ==
  ASSUME NEW S, NEW b, NEW s \in Seq(S), NEW x \in S
  PROVE  Ingested(b, Append(s, x)) = ingest(Ingested(b, s), x)
<1> DEFINE t == Append(s, x)
<1>1. t \in Seq(S)
  BY AppendProperties
<1>2. IngestFold!Value(b, t) = ingest(IngestFold!Value(b, s), x)
  BY IngestFold!ValueAppend
<1> HIDE DEF t
<1>3. Ingested(b, t) = IngestFold!Value(b, t) /\ Ingested(b, s) = IngestFold!Value(b, s)
  BY <1>1, IngestFoldValue DEF Ingested
<1> QED BY <1>2, <1>3 DEF t

\* The bytes of lines: none, and one more.
LEMMA SummedEmpty == ASSUME NEW b PROVE Summed(b, <<>>) = b
<1>1. <<>> \in Seq({})
  OBVIOUS
<1> QED BY <1>1, ByteFoldValue, ByteFold!ValueEmpty DEF Summed

LEMMA SummedAppend ==
  ASSUME NEW S, NEW b, NEW s \in Seq(S), NEW x \in S
  PROVE  Summed(b, Append(s, x)) = Summed(b, s) + x.bytes
<1> DEFINE t == Append(s, x)
<1>1. t \in Seq(S)
  BY AppendProperties
<1>2. ByteFold!Value(b, t) = ByteFold!Value(b, s) + x.bytes
  BY ByteFold!ValueAppend DEF PlusBytes
<1> HIDE DEF t
<1>3. Summed(b, t) = ByteFold!Value(b, t) /\ Summed(b, s) = ByteFold!Value(b, s)
  BY <1>1, ByteFoldValue DEF Summed
<1> QED BY <1>2, <1>3 DEF t

\* Sequences to be joined: none, and one more.
LEMMA LinkedEmpty == ASSUME NEW b PROVE Linked(b, <<>>) = b
<1>1. <<>> \in Seq({})
  OBVIOUS
<1> QED BY <1>1, JoinFoldValue, JoinFold!ValueEmpty DEF Linked

LEMMA LinkedAppend ==
  ASSUME NEW S, NEW b, NEW s \in Seq(S), NEW x \in S
  PROVE  Linked(b, Append(s, x)) = Linked(b, s) \o x
<1> DEFINE t == Append(s, x)
<1>1. t \in Seq(S)
  BY AppendProperties
<1>2. JoinFold!Value(b, t) = JoinFold!Value(b, s) \o x
  BY JoinFold!ValueAppend DEF Joined
<1> HIDE DEF t
<1>3. Linked(b, t) = JoinFold!Value(b, t) /\ Linked(b, s) = JoinFold!Value(b, s)
  BY <1>1, JoinFoldValue DEF Linked
<1> QED BY <1>2, <1>3 DEF t

\* Events after events.
LEMMA TookConcat ==
  ASSUME NEW S, NEW b, NEW s \in Seq(S), NEW u \in Seq(S)
  PROVE  Took(b, s \o u) = Took(Took(b, s), u)
<1> DEFINE t == s \o u
<1>1. t \in Seq(S)
  BY ConcatProperties
<1>2. TakeFold!Value(b, t) = TakeFold!Value(TakeFold!Value(b, s), u)
  BY TakeFold!ValueConcat
<1> HIDE DEF t
<1>3. Took(b, t) = TakeFold!Value(b, t) /\ Took(b, s) = TakeFold!Value(b, s)
  BY <1>1, TakeFoldValue DEF Took
<1>4. Took(Took(b, s), u) = TakeFold!Value(Took(b, s), u)
  BY TakeFoldValue DEF Took
<1> QED BY <1>2, <1>3, <1>4 DEF t

\* Fragments after fragments.
LEMMA IngestedConcat ==
  ASSUME NEW S, NEW b, NEW s \in Seq(S), NEW u \in Seq(S)
  PROVE  Ingested(b, s \o u) = Ingested(Ingested(b, s), u)
<1> DEFINE t == s \o u
<1>1. t \in Seq(S)
  BY ConcatProperties
<1>2. IngestFold!Value(b, t) = IngestFold!Value(IngestFold!Value(b, s), u)
  BY IngestFold!ValueConcat
<1> HIDE DEF t
<1>3. Ingested(b, t) = IngestFold!Value(b, t) /\ Ingested(b, s) = IngestFold!Value(b, s)
  BY <1>1, IngestFoldValue DEF Ingested
<1>4. Ingested(Ingested(b, s), u) = IngestFold!Value(Ingested(b, s), u)
  BY IngestFoldValue DEF Ingested
<1> QED BY <1>2, <1>3, <1>4 DEF t

\* The sums and the texts of the model are these.
LEMMA FoldNames ==
  /\ \A k : EndOf(k) = Summed(0, SubSeq(wire, 1, k))
  /\ \A ss : Concat(ss) = Linked(<<>>, ss)
<1>1. ASSUME NEW k PROVE EndOf(k) = Summed(0, SubSeq(wire, 1, k))
  BY Zenon DEF EndOf, BytesOf, Summed, PlusBytes, FoldLeft, MapThenFoldSet
<1>2. ASSUME NEW ss PROVE Concat(ss) = Linked(<<>>, ss)
  BY Zenon DEF Concat, Linked, Joined, FoldLeft, MapThenFoldSet
<1> QED BY <1>1, <1>2

-----------------------------------------------------------------------------
(* Texts, fragments and events put together from sequences *)

\* Induction over sequences, with the claim given as the set G it holds for.
LEMMA SeqInduction ==
  ASSUME NEW S, NEW G, <<>> \in G, \A s \in Seq(S), x \in S : s \in G => Append(s, x) \in G
  PROVE  Seq(S) \subseteq G
<1> DEFINE H == {n \in Nat : \A s \in Seq(S) : Len(s) = n => s \in G}
<1>1. 0 \in H
  BY EmptySeq
<1>2. ASSUME NEW n \in Nat, n \in H PROVE n + 1 \in H
  <2>1. ASSUME NEW s \in Seq(S), Len(s) = n + 1 PROVE s \in G
    <3>1. s # <<>>
      BY <2>1
    <3>2. PICK u \in Seq(S), x \in S : s = Append(u, x)
      BY <3>1, SequenceEmptyOrAppend
    <3>3. Len(u) = n
      <4>1. Len(s) = Len(u) + 1 /\ Len(u) \in Nat
        BY <3>2, AppendProperties, LenProperties
      <4> QED BY <2>1, <4>1
    <3> QED BY <1>2, <3>2, <3>3
  <2> QED BY <2>1
<1> HIDE DEF H
<1>3. Nat \subseteq H
  BY <1>1, <1>2, NaturalInduction
<1>4. ASSUME NEW s \in Seq(S) PROVE s \in G
  <2>1. Len(s) \in Nat
    BY LenProperties
  <2> QED BY <1>3, <2>1 DEF H
<1> QED BY <1>4

\* Sequences of sequences.
LEMMA ConcatSteps ==
  ASSUME NEW S
  PROVE  /\ Concat(<<>>) = <<>>
         /\ \A ss \in Seq(S), x \in S : Concat(Append(ss, x)) = Concat(ss) \o x
<1> DEFINE e == <<>>
<1>1. \A ss : Concat(ss) = Linked(e, ss)
  BY FoldNames
<1> HIDE DEF e
<1>2. /\ Linked(e, <<>>) = e
      /\ \A ss \in Seq(S), x \in S : Linked(e, Append(ss, x)) = Linked(e, ss) \o x
  BY LinkedEmpty, LinkedAppend
<1>3. Concat(<<>>) = e
  BY <1>1, <1>2, Zenon
<1>4. ASSUME NEW ss \in Seq(S), NEW x \in S PROVE Concat(Append(ss, x)) = Concat(ss) \o x
  BY <1>1, <1>2, Zenon
<1> QED BY <1>3, <1>4 DEF e

\* Joining gives a sequence.
LEMMA ConcatType ==
  ASSUME NEW T, NEW ss \in Seq(Seq(T))
  PROVE  Concat(ss) \in Seq(T)
<1> DEFINE G == {u \in Seq(Seq(T)) : Concat(u) \in Seq(T)}
<1>1. <<>> \in G
  <2>1. Concat(<<>>) = <<>>
    BY ConcatSteps
  <2>2. <<>> \in Seq(Seq(T)) /\ <<>> \in Seq(T)
    BY EmptySeq
  <2> QED BY <2>1, <2>2
<1>2. ASSUME NEW u \in Seq(Seq(T)), NEW x \in Seq(T), u \in G PROVE Append(u, x) \in G
  <2>1. Append(u, x) \in Seq(Seq(T))
    BY AppendProperties
  <2>2. Concat(Append(u, x)) = Concat(u) \o x
    BY ConcatSteps
  <2>3. Concat(u) \o x \in Seq(T)
    BY <1>2, ConcatProperties
  <2> QED BY <2>1, <2>2, <2>3
<1> HIDE DEF G
<1>3. Seq(Seq(T)) \subseteq G
  BY <1>1, <1>2, SeqInduction
<1> QED BY <1>3 DEF G

\* A part of every element.
Mapped(g, s) == [k \in 1..Len(s) |-> g[s[k]]]

LEMMA MappedType ==
  ASSUME NEW S, NEW T, NEW g \in [S -> T], NEW s \in Seq(S)
  PROVE  Mapped(g, s) \in Seq(T) /\ Len(Mapped(g, s)) = Len(s)
<1>1. Len(s) \in Nat /\ \A k \in 1..Len(s) : g[s[k]] \in T
  BY LenProperties, ElementOfSeq
<1> QED BY <1>1, IsASeq DEF Mapped

\* One more element.
LEMMA MappedAppend ==
  ASSUME NEW S, NEW T, NEW g \in [S -> T], NEW s \in Seq(S), NEW x \in S
  PROVE  Mapped(g, Append(s, x)) = Append(Mapped(g, s), g[x])
<1> DEFINE t == Append(s, x)
           m == Mapped(g, s)
           v == Append(m, g[x])
           w == Mapped(g, t)
<1>1. /\ t \in Seq(S) /\ Len(t) = Len(s) + 1 /\ Len(s) \in Nat
      /\ t[Len(s) + 1] = x /\ \A i \in 1..Len(s) : t[i] = s[i]
  BY AppendProperties, LenProperties
<1>2. m \in Seq(T) /\ Len(m) = Len(s) /\ \A i \in 1..Len(s) : m[i] = g[s[i]]
  BY MappedType DEF Mapped
<1>3. g[x] \in T
  OBVIOUS
<1> HIDE DEF m, t
<1>4. /\ v \in Seq(T) /\ Len(v) = Len(s) + 1
      /\ v[Len(s) + 1] = g[x] /\ \A i \in 1..Len(s) : v[i] = g[s[i]]
  BY <1>2, <1>3, AppendProperties
<1>5. /\ w \in Seq(T) /\ Len(w) = Len(s) + 1 /\ \A i \in 1..Len(s) + 1 : w[i] = g[t[i]]
  BY <1>1, MappedType DEF Mapped
<1> HIDE DEF v, w
<1>6. ASSUME NEW i \in 1..Len(w) PROVE w[i] = v[i]
  <2>1. i \in 1..Len(s) \/ i = Len(s) + 1
    BY <1>1, <1>5
  <2> QED BY <2>1, <1>1, <1>4, <1>5
<1>7. w = v
  BY <1>4, <1>5, <1>6, SeqEqual
<1> QED BY <1>7 DEF v, w, m, t

Gathered(g, s) == Concat(Mapped(g, s))

\* What the elements have, one after the other.
LEMMA GatheredSteps ==
  ASSUME NEW S, NEW T, NEW g \in [S -> Seq(T)]
  PROVE  /\ Gathered(g, <<>>) = <<>>
         /\ \A s \in Seq(S) : Gathered(g, s) \in Seq(T)
         /\ \A s \in Seq(S), x \in S : Gathered(g, Append(s, x)) = Gathered(g, s) \o g[x]
<1>1. Gathered(g, <<>>) = <<>>
  <2>1. Mapped(g, <<>>) = <<>>
    BY DEF Mapped
  <2> QED BY <2>1, ConcatSteps DEF Gathered
<1>2. ASSUME NEW s \in Seq(S) PROVE Gathered(g, s) \in Seq(T)
  <2>1. Mapped(g, s) \in Seq(Seq(T))
    BY MappedType
  <2> QED BY <2>1, ConcatType DEF Gathered
<1>3. ASSUME NEW s \in Seq(S), NEW x \in S
      PROVE  Gathered(g, Append(s, x)) = Gathered(g, s) \o g[x]
  <2> DEFINE m == Mapped(g, s)
             y == g[x]
  <2>a. g[x] \in Seq(T)
    OBVIOUS
  <2>b. Mapped(g, s) \in Seq(Seq(T))
    BY MappedType
  <2>c. \A v \in Seq(S), z \in S : Mapped(g, Append(v, z)) = Append(Mapped(g, v), g[z])
    BY MappedAppend
  <2>1. m \in Seq(Seq(T)) /\ y \in Seq(T) /\ Mapped(g, Append(s, x)) = Append(m, y)
    BY <2>a, <2>b, <2>c, Zenon
  <2> HIDE DEF m, y
  <2>2. Concat(Append(m, y)) = Concat(m) \o y
    BY <2>1, ConcatSteps
  <2>3. Concat(Mapped(g, Append(s, x))) = Concat(m) \o y
    BY <2>1, <2>2, Zenon
  <2> QED BY <2>3, Zenon DEF Gathered, m, y
<1> QED BY <1>1, <1>2, <1>3


\* What events may carry.
Pieces == STRING \cup {"null"}
ToolCalls == [id : Texts, name : Texts, arguments : Seq(Pieces)]
Finishes == [reason : {"Stop", "MaxTokens", "ToolUse", "Error"}, calls : Seq(ToolCalls)]
Datas == Seq(STRING) \cup CallFragments \cup Nat \cup STRING \cup Finishes
Evs == [kind : {"content", "call", "usage", "done", "error", "start", "delta"},
        id : Texts, data : Datas]

\* The text and the deltas, as functions of what they are read from.
TextIn(lines) == Concat([k \in 1..Len(lines) |-> lines[k].content])
DeltasIn(es, id) ==
  Concat([k \in 1..Len(es) |->
            IF es[k].kind = "delta" /\ es[k].id = id THEN <<es[k].data>> ELSE <<>>])

\* Lines have texts and fragments, ...
LEMMA LinesGather ==
  /\ TextIn(<<>>) = <<>> /\ FragmentsIn(<<>>) = <<>>
  /\ \A ls \in Seq(WireLines) :
       TextIn(ls) \in Seq(STRING) /\ FragmentsIn(ls) \in Seq(CallFragments)
  /\ \A ls \in Seq(WireLines), l \in WireLines :
       /\ TextIn(Append(ls, l)) = TextIn(ls) \o l.content
       /\ FragmentsIn(Append(ls, l)) = FragmentsIn(ls) \o l.calls
<1> DEFINE g == [l \in WireLines |-> l.content]
           h == [l \in WireLines |-> l.calls]
<1>0. g \in [WireLines -> Seq(STRING)] /\ h \in [WireLines -> Seq(CallFragments)]
  BY DEF WireLines
<1>1. ASSUME NEW ls \in Seq(WireLines)
      PROVE  TextIn(ls) = Gathered(g, ls) /\ FragmentsIn(ls) = Gathered(h, ls)
  <2>1. \A k \in 1..Len(ls) : ls[k] \in WireLines
    BY ElementOfSeq
  <2>2. [k \in 1..Len(ls) |-> ls[k].content] = [k \in 1..Len(ls) |-> g[ls[k]]]
    BY <2>1
  <2>3. [k \in 1..Len(ls) |-> ls[k].calls] = [k \in 1..Len(ls) |-> h[ls[k]]]
    BY <2>1
  <2> QED BY <2>2, <2>3, Zenon DEF TextIn, FragmentsIn, Gathered, Mapped
<1>2. ASSUME NEW l \in WireLines PROVE g[l] = l.content /\ h[l] = l.calls
  OBVIOUS
<1> HIDE DEF g, h
<1>3. <<>> \in Seq(WireLines)
  BY EmptySeq
<1>4. TextIn(<<>>) = <<>> /\ FragmentsIn(<<>>) = <<>>
  <2>1. Gathered(g, <<>>) = <<>> /\ Gathered(h, <<>>) = <<>>
    BY <1>0, GatheredSteps, Zenon
  <2> QED BY <1>1, <1>3, <2>1, Zenon
<1>5. ASSUME NEW ls \in Seq(WireLines)
      PROVE  TextIn(ls) \in Seq(STRING) /\ FragmentsIn(ls) \in Seq(CallFragments)
  <2>1. Gathered(g, ls) \in Seq(STRING) /\ Gathered(h, ls) \in Seq(CallFragments)
    BY <1>0, GatheredSteps, Zenon
  <2> QED BY <1>1, <2>1, Zenon
<1>6. ASSUME NEW ls \in Seq(WireLines), NEW l \in WireLines
      PROVE  /\ TextIn(Append(ls, l)) = TextIn(ls) \o l.content
             /\ FragmentsIn(Append(ls, l)) = FragmentsIn(ls) \o l.calls
  <2>1. Append(ls, l) \in Seq(WireLines)
    BY AppendProperties
  <2>2. \A v \in Seq(WireLines), z \in WireLines :
          Gathered(g, Append(v, z)) = Gathered(g, v) \o g[z]
    BY <1>0, GatheredSteps, Zenon
  <2>3. \A v \in Seq(WireLines), z \in WireLines :
          Gathered(h, Append(v, z)) = Gathered(h, v) \o h[z]
    BY <1>0, GatheredSteps, Zenon
  <2> QED BY <1>1, <1>2, <2>1, <2>2, <2>3, Zenon
<1> QED BY <1>4, <1>5, <1>6

\* ... fragments have arguments, ...
LEMMA ArgumentsGather ==
  ASSUME NEW i \in Nat
  PROVE  /\ ArgumentsOf(<<>>, i) = <<>>
         /\ \A ds \in Seq(CallFragments) : ArgumentsOf(ds, i) \in Seq(STRING)
         /\ \A ds \in Seq(CallFragments), d \in CallFragments :
              ArgumentsOf(Append(ds, d), i)
                = ArgumentsOf(ds, i) \o (IF d.index = i THEN d.arguments ELSE <<>>)
<1> DEFINE g == [d \in CallFragments |-> IF d.index = i THEN d.arguments ELSE <<>>]
<1>0. g \in [CallFragments -> Seq(STRING)]
  <2>1. <<>> \in Seq(STRING)
    BY EmptySeq
  <2> QED BY <2>1 DEF CallFragments
<1>1. ASSUME NEW ds \in Seq(CallFragments) PROVE ArgumentsOf(ds, i) = Gathered(g, ds)
  <2>1. \A k \in 1..Len(ds) : ds[k] \in CallFragments
    BY ElementOfSeq
  <2>2. [k \in 1..Len(ds) |-> IF ds[k].index = i THEN ds[k].arguments ELSE <<>>]
          = [k \in 1..Len(ds) |-> g[ds[k]]]
    BY <2>1
  <2> QED BY <2>2, Zenon DEF ArgumentsOf, Gathered, Mapped
<1>2. ASSUME NEW d \in CallFragments PROVE g[d] = IF d.index = i THEN d.arguments ELSE <<>>
  OBVIOUS
<1> HIDE DEF g
<1>3. <<>> \in Seq(CallFragments)
  BY EmptySeq
<1>4. ArgumentsOf(<<>>, i) = <<>>
  <2>1. Gathered(g, <<>>) = <<>>
    BY <1>0, GatheredSteps, Zenon
  <2> QED BY <1>1, <1>3, <2>1, Zenon
<1>5. ASSUME NEW ds \in Seq(CallFragments) PROVE ArgumentsOf(ds, i) \in Seq(STRING)
  <2>1. Gathered(g, ds) \in Seq(STRING)
    BY <1>0, GatheredSteps, Zenon
  <2> QED BY <1>1, <2>1, Zenon
<1>6. ASSUME NEW ds \in Seq(CallFragments), NEW d \in CallFragments
      PROVE  ArgumentsOf(Append(ds, d), i)
               = ArgumentsOf(ds, i) \o (IF d.index = i THEN d.arguments ELSE <<>>)
  <2>1. Append(ds, d) \in Seq(CallFragments)
    BY AppendProperties
  <2>2. Gathered(g, Append(ds, d)) = Gathered(g, ds) \o g[d]
    <3> HIDE DEF g
    <3>1. \A s \in Seq(CallFragments), x \in CallFragments :
            Gathered(g, Append(s, x)) = Gathered(g, s) \o g[x]
      BY <1>0, GatheredSteps
    <3> QED BY <3>1
  <2> QED BY <1>1, <1>2, <2>1, <2>2, Zenon
<1> QED BY <1>4, <1>5, <1>6

\* ... and events have deltas.
LEMMA DeltasGather ==
  ASSUME NEW id
  PROVE  /\ DeltasIn(<<>>, id) = <<>>
         /\ \A es \in Seq(Evs) : DeltasIn(es, id) \in Seq(Datas)
         /\ \A es \in Seq(Evs), e \in Evs :
              DeltasIn(Append(es, e), id)
                = DeltasIn(es, id)
                    \o (IF e.kind = "delta" /\ e.id = id THEN <<e.data>> ELSE <<>>)
<1> DEFINE g == [e \in Evs |-> IF e.kind = "delta" /\ e.id = id THEN <<e.data>> ELSE <<>>]
<1>0. g \in [Evs -> Seq(Datas)]
  <2>1. <<>> \in Seq(Datas) /\ \A e \in Evs : e.data \in Datas
    BY EmptySeq DEF Evs
  <2>2. \A x \in Datas : <<x>> \in Seq(Datas)
    OBVIOUS
  <2> QED BY <2>1, <2>2
<1>1. ASSUME NEW es \in Seq(Evs) PROVE DeltasIn(es, id) = Gathered(g, es)
  <2>1. \A k \in 1..Len(es) : es[k] \in Evs
    BY ElementOfSeq
  <2>2. [k \in 1..Len(es) |-> IF es[k].kind = "delta" /\ es[k].id = id THEN <<es[k].data>> ELSE <<>>]
          = [k \in 1..Len(es) |-> g[es[k]]]
    BY <2>1
  <2> QED BY <2>2, Zenon DEF DeltasIn, Gathered, Mapped
<1>2. ASSUME NEW e \in Evs
      PROVE  g[e] = IF e.kind = "delta" /\ e.id = id THEN <<e.data>> ELSE <<>>
  OBVIOUS
<1> HIDE DEF g
<1>3. <<>> \in Seq(Evs)
  BY EmptySeq
<1>4. DeltasIn(<<>>, id) = <<>>
  <2>1. Gathered(g, <<>>) = <<>>
    BY <1>0, GatheredSteps, Zenon
  <2> QED BY <1>1, <1>3, <2>1, Zenon
<1>5. ASSUME NEW es \in Seq(Evs) PROVE DeltasIn(es, id) \in Seq(Datas)
  <2>1. Gathered(g, es) \in Seq(Datas)
    BY <1>0, GatheredSteps, Zenon
  <2> QED BY <1>1, <2>1, Zenon
<1>6. ASSUME NEW es \in Seq(Evs), NEW e \in Evs
      PROVE  DeltasIn(Append(es, e), id)
               = DeltasIn(es, id)
                    \o (IF e.kind = "delta" /\ e.id = id THEN <<e.data>> ELSE <<>>)
  <2>1. Append(es, e) \in Seq(Evs)
    BY AppendProperties
  <2>2. Gathered(g, Append(es, e)) = Gathered(g, es) \o g[e]
    BY <1>0, GatheredSteps, Zenon
  <2> QED BY <1>1, <1>2, <2>1, <2>2, Zenon
<1> QED BY <1>4, <1>5, <1>6

-----------------------------------------------------------------------------
(* Announcing a call and passing on its fragments *)

DeltaEvents(x, f) == [k \in 1..Len(f) |-> Event("delta", x, f[k])]
StartsIn(es, id) == {k \in 1..Len(es) : es[k].kind = "start" /\ es[k].id = id}

\* Fragments of a known call, one event each.
LEMMA DeltasPushed ==
  ASSUME NEW E \in Seq(Evs), NEW x \in STRING, NEW f \in Seq(STRING)
  PROVE  LET E2 == E \o DeltaEvents(x, f) IN
         /\ DeltaEvents(x, f) \in Seq(Evs) /\ E2 \in Seq(Evs) /\ Len(E2) >= Len(E)
         /\ DeltasIn(E2, x) = DeltasIn(E, x) \o f
         /\ \A y : y # x => DeltasIn(E2, y) = DeltasIn(E, y)
         /\ \A k \in 1..Len(E) : E2[k] = E[k]
         /\ \A k \in 1..Len(E2) : k > Len(E) => E2[k].kind = "delta" /\ E2[k].id = x
<1> DEFINE Good(D, g) ==
             /\ D \in Seq(Evs) /\ E \o D \in Seq(Evs) /\ Len(E \o D) >= Len(E)
             /\ DeltasIn(E \o D, x) = DeltasIn(E, x) \o g
             /\ \A y : y # x => DeltasIn(E \o D, y) = DeltasIn(E, y)
             /\ \A k \in 1..Len(E) : (E \o D)[k] = E[k]
             /\ \A k \in 1..Len(E \o D) :
                  k > Len(E) => (E \o D)[k].kind = "delta" /\ (E \o D)[k].id = x
           G == {g \in Seq(STRING) : Good(DeltaEvents(x, g), g)}
<1>0. Len(E) \in Nat /\ DeltasIn(E, x) \in Seq(Datas)
  BY LenProperties, DeltasGather
<1>s. Seq(STRING) \subseteq Seq(Datas)
  <2>1. STRING \subseteq Datas
    BY DEF Datas
  <2> QED BY <2>1, SeqMonotonic
<1>1. <<>> \in G
  <2>1. DeltaEvents(x, <<>>) = <<>> /\ <<>> \in Seq(STRING) /\ <<>> \in Seq(Evs)
    BY EmptySeq DEF DeltaEvents
  <2>2. E \o <<>> = E /\ DeltasIn(E, x) \o <<>> = DeltasIn(E, x)
    BY <1>0, ConcatEmptySeq
  <2>3. Good(<<>>, <<>>)
    BY <1>0, <2>1, <2>2
  <2> QED BY <2>1, <2>3
<1>2. ASSUME NEW g \in Seq(STRING), NEW z \in STRING, g \in G PROVE Append(g, z) \in G
  <2> DEFINE D == DeltaEvents(x, g)
             e == Event("delta", x, z)
             W == E \o D
  <2>1. DeltaEvents(x, Append(g, z)) = Append(D, e)
    <3> DEFINE h == [y \in STRING |-> Event("delta", x, y)]
    <3>1. h \in [STRING -> {Event("delta", x, y) : y \in STRING}]
      OBVIOUS
    <3>2. ASSUME NEW u \in Seq(STRING) PROVE DeltaEvents(x, u) = Mapped(h, u)
      <4>1. \A k \in 1..Len(u) : u[k] \in STRING
        BY ElementOfSeq
      <4> QED BY <4>1 DEF DeltaEvents, Mapped
    <3>3. h[z] = e
      OBVIOUS
    <3> HIDE DEF h
    <3>4. Mapped(h, Append(g, z)) = Append(Mapped(h, g), h[z])
      BY <3>1, MappedAppend
    <3>5. Append(g, z) \in Seq(STRING)
      BY AppendProperties
    <3> QED BY <3>2, <3>3, <3>4, <3>5, Zenon
  <2>2. e \in Evs /\ e.kind = "delta" /\ e.id = x /\ e.data = z
    BY DEF Evs, Event, Datas, Texts
  <2>3. Good(D, g)
    BY <1>2
  <2> HIDE DEF D, e
  <2>4. E \o Append(D, e) = Append(W, e) /\ Append(D, e) \in Seq(Evs)
    BY <2>2, <2>3, ConcatSimplifications, AppendProperties
  <2>5. /\ W \in Seq(Evs) /\ DeltasIn(W, x) = DeltasIn(E, x) \o g
        /\ \A y : y # x => DeltasIn(W, y) = DeltasIn(E, y)
        /\ \A k \in 1..Len(E) : W[k] = E[k]
        /\ Len(W) \in Nat /\ Len(W) >= Len(E)
        /\ \A k \in 1..Len(W) : k > Len(E) => W[k].kind = "delta" /\ W[k].id = x
    BY <2>3, LenProperties
  <2> HIDE DEF W
  <2> DEFINE V == Append(W, e)
  <2>6. /\ V \in Seq(Evs) /\ Len(V) = Len(W) + 1 /\ V[Len(W) + 1] = e
        /\ \A k \in 1..Len(W) : V[k] = W[k]
    BY <2>2, <2>5, AppendProperties
  <2>7. DeltasIn(V, x) = (DeltasIn(E, x) \o g) \o <<z>>
    BY <2>2, <2>5, DeltasGather
  <2>8. (DeltasIn(E, x) \o g) \o <<z>> = DeltasIn(E, x) \o Append(g, z)
    <3> DEFINE w == DeltasIn(E, x)
    <3> HIDE DEF w
    <3>1. w \in Seq(Datas) /\ g \in Seq(Datas) /\ z \in Datas
      BY <1>0, <1>s DEF w, Datas
    <3>2. (w \o g) \o <<z>> = w \o Append(g, z)
      <4>0. \A y \in Datas : <<y>> \in Seq(Datas)
        OBVIOUS
      <4>1. <<z>> \in Seq(Datas)
        BY <3>1, <4>0
      <4>2. Append(g, z) = g \o <<z>>
        BY AppendIsConcat
      <4>3. (w \o g) \o <<z>> = w \o (g \o <<z>>)
        BY <3>1, <4>1, ConcatAssociative
      <4> QED BY <4>2, <4>3, Zenon
    <3> QED BY <3>2 DEF w
  <2>9. ASSUME NEW y, y # x PROVE DeltasIn(V, y) = DeltasIn(E, y)
    <3>1. DeltasIn(V, y) = DeltasIn(W, y) \o <<>>
      BY <2>2, <2>5, <2>9, DeltasGather
    <3>2. DeltasIn(W, y) \in Seq(Datas)
      BY <2>5, DeltasGather
    <3>3. DeltasIn(W, y) \o <<>> = DeltasIn(W, y)
      BY <3>2, ConcatEmptySeq
    <3> QED BY <2>5, <2>9, <3>1, <3>3
  <2>10. ASSUME NEW k \in 1..Len(V), k > Len(E) PROVE V[k].kind = "delta" /\ V[k].id = x
    <3>1. k \in 1..Len(W) \/ k = Len(W) + 1
      BY <2>5, <2>6
    <3> QED BY <3>1, <2>2, <2>5, <2>6, <2>10
  <2>11. \A k \in 1..Len(E) : V[k] = E[k]
    BY <1>0, <2>5, <2>6
  <2>12. Len(V) >= Len(E)
    BY <1>0, <2>5, <2>6
  <2> HIDE DEF V
  <2>13. E \o Append(D, e) = V
    BY <2>4 DEF V
  <2>14. Good(Append(D, e), Append(g, z))
    BY <2>4, <2>6, <2>7, <2>8, <2>9, <2>10, <2>11, <2>12, <2>13
  <2>15. Append(g, z) \in Seq(STRING)
    BY AppendProperties
  <2> HIDE DEF Good
  <2> QED BY <2>1, <2>14, <2>15 DEF D
<1> HIDE DEF G
<1>3. f \in G
  BY <1>1, <1>2, SeqInduction
<1> QED BY <1>3 DEF G


\* The adapter: what it knows an id of and what it holds back.
AdapterOK(ad) ==
  /\ ad = [ids |-> ad.ids, held |-> ad.held]
  /\ DOMAIN ad.ids \subseteq Nat /\ \A i \in DOMAIN ad.ids : ad.ids[i] \in STRING /\ ad.ids[i] # Absent
  /\ DOMAIN ad.held \subseteq Nat /\ \A i \in DOMAIN ad.held : ad.held[i] \in Seq(STRING)
  /\ \A i \in DOMAIN ad.held : ad.held[i] # <<>> => i \notin DOMAIN ad.ids

Starting(ad, d) == d.id # Absent /\ d.index \notin DOMAIN ad.ids
Before(ad, d) == IF d.index \in DOMAIN ad.held THEN ad.held[d.index] ELSE <<>>
IdOf(ad, d) == IF Starting(ad, d) THEN d.id ELSE ad.ids[d.index]
Known(ad, d) == Starting(ad, d) \/ d.index \in DOMAIN ad.ids
Let(ad, d) == IF Starting(ad, d) THEN Before(ad, d) \o d.arguments ELSE d.arguments

\* What the adapter makes of a fragment.
LEMMA AdaptCall ==
  ASSUME NEW ad, AdapterOK(ad), NEW d \in CallFragments
  PROVE  LET a == adapt_tool_call(ad, d)
             n == a.adapter
         IN /\ AdapterOK(n)
            /\ DOMAIN n.ids = IF Starting(ad, d) THEN DOMAIN ad.ids \cup {d.index} ELSE DOMAIN ad.ids
            /\ \A i \in DOMAIN ad.ids : n.ids[i] = ad.ids[i]
            /\ Starting(ad, d) => n.ids[d.index] = d.id
            /\ DOMAIN n.held = DOMAIN ad.held \cup {d.index}
            /\ \A i \in DOMAIN ad.held : i # d.index => n.held[i] = ad.held[i]
            /\ n.held[d.index] = IF Known(ad, d) THEN <<>> ELSE Before(ad, d) \o d.arguments
            /\ Before(ad, d) \in Seq(STRING) /\ Let(ad, d) \in Seq(STRING)
            /\ Known(ad, d) => IdOf(ad, d) \in STRING /\ IdOf(ad, d) = n.ids[d.index]
            /\ a.out = (IF Starting(ad, d) THEN <<Event("start", d.id, d.name)>> ELSE <<>>)
                         \o (IF Known(ad, d) THEN DeltaEvents(IdOf(ad, d), Let(ad, d)) ELSE <<>>)
<1> DEFINE a == adapt_tool_call(ad, d)
           n == a.adapter
           starts == Starting(ad, d)
           before == Before(ad, d)
           ids == IF starts THEN Put(ad.ids, d.index, d.id) ELSE ad.ids
           known == d.index \in DOMAIN ids
           frags == (IF starts THEN before ELSE <<>>) \o d.arguments
           held == Put(ad.held, d.index, IF known THEN <<>> ELSE before \o d.arguments)
<1>d. d.index \in Nat /\ d.id \in STRING /\ d.name \in STRING /\ d.arguments \in Seq(STRING)
  BY DEF CallFragments
<1>e. <<>> \in Seq(STRING)
  BY EmptySeq
<1>1. a.adapter = [ids |-> ids, held |-> held]
  BY Zenon DEF adapt_tool_call, Starting, Before
<1>2. a.out = (IF starts THEN <<Event("start", d.id, d.name)>> ELSE <<>>)
              \o (IF ~known THEN <<>>
                  ELSE [k \in 1..Len(frags) |-> Event("delta", ids[d.index], frags[k])])
  BY Zenon DEF adapt_tool_call, Starting, Before
<1>3. before \in Seq(STRING) /\ before \o d.arguments \in Seq(STRING)
  <2>1. before \in Seq(STRING)
    BY <1>e DEF Before, AdapterOK
  <2> HIDE DEF before
  <2> QED BY <1>d, <2>1, ConcatProperties
<1>4. /\ DOMAIN ids = IF starts THEN DOMAIN ad.ids \cup {d.index} ELSE DOMAIN ad.ids
      /\ starts => ids[d.index] = d.id
      /\ \A i \in DOMAIN ad.ids : ids[i] = ad.ids[i]
  BY DEF Put, Starting
<1>5. known <=> Known(ad, d)
  BY <1>4 DEF Known, Starting
<1>6. /\ DOMAIN held = DOMAIN ad.held \cup {d.index}
      /\ held[d.index] = IF known THEN <<>> ELSE before \o d.arguments
      /\ \A i \in DOMAIN ad.held : i # d.index => held[i] = ad.held[i]
  <2> DEFINE x == IF known THEN <<>> ELSE before \o d.arguments
  <2> HIDE DEF x
  <2>1. /\ DOMAIN Put(ad.held, d.index, x) = DOMAIN ad.held \cup {d.index}
        /\ Put(ad.held, d.index, x)[d.index] = x
        /\ \A i \in DOMAIN ad.held : i # d.index => Put(ad.held, d.index, x)[i] = ad.held[i]
    BY DEF Put
  <2> QED BY <2>1 DEF x
<1>7. frags = Let(ad, d) /\ Let(ad, d) \in Seq(STRING)
  <2>1. <<>> \o d.arguments = d.arguments
    BY <1>d, ConcatEmptySeq
  <2>2. CASE starts
    BY <2>2, <1>3 DEF Let
  <2>3. CASE ~starts
    BY <2>1, <2>3, <1>d DEF Let
  <2> QED BY <2>2, <2>3
<1>8. known => ids[d.index] = IdOf(ad, d) /\ IdOf(ad, d) \in STRING
  BY <1>4, <1>d DEF IdOf, Starting, AdapterOK
<1>9. a.out = (IF starts THEN <<Event("start", d.id, d.name)>> ELSE <<>>)
              \o (IF Known(ad, d) THEN DeltaEvents(IdOf(ad, d), Let(ad, d)) ELSE <<>>)
  <2>1. ASSUME known PROVE [k \in 1..Len(frags) |-> Event("delta", ids[d.index], frags[k])]
                             = DeltaEvents(IdOf(ad, d), Let(ad, d))
    BY <1>7, <1>8, <2>1, Zenon DEF DeltaEvents
  <2> HIDE DEF known, frags, ids
  <2> QED BY <1>2, <1>5, <2>1, Zenon
<1> HIDE DEF ids, held, before, known, frags, starts, a
<1>10. n.ids = ids /\ n.held = held /\ n = [ids |-> n.ids, held |-> n.held]
  BY <1>1
<1>11. AdapterOK(n)
  <2>1. \A i \in DOMAIN ids : i \in Nat /\ ids[i] \in STRING /\ ids[i] # Absent
    BY <1>4, <1>d DEF AdapterOK, Starting, starts
  <2>2. \A i \in DOMAIN held : i \in Nat /\ held[i] \in Seq(STRING)
    BY <1>3, <1>6, <1>d, <1>e DEF AdapterOK
  <2>3. ASSUME NEW i \in DOMAIN held, held[i] # <<>> PROVE i \notin DOMAIN ids
    <3>1. CASE i = d.index
      BY <3>1, <2>3, <1>6 DEF known
    <3>2. CASE i # d.index
      BY <3>2, <2>3, <1>4, <1>6 DEF AdapterOK
    <3> QED BY <3>1, <3>2
  <2> HIDE DEF n
  <2> QED BY <1>10, <2>1, <2>2, <2>3 DEF AdapterOK
<1> HIDE DEF n
<1>12. /\ AdapterOK(n)
       /\ DOMAIN n.ids = IF Starting(ad, d) THEN DOMAIN ad.ids \cup {d.index} ELSE DOMAIN ad.ids
       /\ \A i \in DOMAIN ad.ids : n.ids[i] = ad.ids[i]
       /\ Starting(ad, d) => n.ids[d.index] = d.id
       /\ DOMAIN n.held = DOMAIN ad.held \cup {d.index}
       /\ \A i \in DOMAIN ad.held : i # d.index => n.held[i] = ad.held[i]
       /\ n.held[d.index] = IF Known(ad, d) THEN <<>> ELSE Before(ad, d) \o d.arguments
       /\ Known(ad, d) => IdOf(ad, d) \in STRING /\ IdOf(ad, d) = n.ids[d.index]
  BY <1>4, <1>5, <1>6, <1>8, <1>10, <1>11 DEF starts, before
<1> QED BY <1>3, <1>7, <1>9, <1>12 DEF n, a, starts, before

\* An id is announced before anything else is said of it.
Announced(ad, E) ==
  /\ E \in Seq(Evs)
  /\ \A i \in DOMAIN ad.ids :
       \E k \in 1..Len(E) : E[k].kind = "start" /\ E[k].id = ad.ids[i]
  /\ \A k \in 1..Len(E) : E[k].kind = "delta" =>
       \E j \in 1..(k - 1) : E[j].kind = "start" /\ E[j].id = E[k].id
  /\ \A k \in 1..Len(E) : E[k].kind \in {"start", "delta"} =>
       \E i \in DOMAIN ad.ids : E[k].id = ad.ids[i]

HasId(C, i) == \E j \in 1..Len(C) : C[j].index = i /\ C[j].id # Absent

\* Of every call that was announced the events have all its fragments so far, and
\* of every other one the adapter holds them.
Carried(ad, E, C, i) ==
  /\ \E j \in 1..Len(C) : C[j].index = i /\ C[j].id = ad.ids[i]
  /\ DeltasIn(E, ad.ids[i]) = ArgumentsOf(C, i)
  /\ \E k \in 1..Len(E) : StartsIn(E, ad.ids[i]) = {k}
Tracks(ad, E, C) ==
  /\ DOMAIN ad.ids \subseteq Indices(C) /\ DOMAIN ad.held \subseteq Indices(C)
  /\ \A i \in Indices(C) :
       IF i \in DOMAIN ad.ids THEN Carried(ad, E, C, i)
       ELSE ~HasId(C, i) /\ i \in DOMAIN ad.held /\ ad.held[i] = ArgumentsOf(C, i)

\* Fragments, one more.
LEMMA FragmentAdded ==
  ASSUME NEW C \in Seq(CallFragments), NEW d \in CallFragments
  PROVE  LET C2 == Append(C, d) IN
         /\ C2 \in Seq(CallFragments) /\ Len(C2) = Len(C) + 1 /\ Len(C) \in Nat
         /\ C2[Len(C) + 1] = d /\ \A j \in 1..Len(C) : C2[j] = C[j] /\ j \in 1..Len(C2)
         /\ Len(C) + 1 \in 1..Len(C2)
         /\ \A j \in 1..Len(C2) : j \in 1..Len(C) \/ j = Len(C) + 1
         /\ Indices(C2) = Indices(C) \cup {d.index}
         /\ \A i : HasId(C2, i) <=> HasId(C, i) \/ (d.index = i /\ d.id # Absent)
         /\ OneIdEach(C2) => OneIdEach(C)
<1> DEFINE C2 == Append(C, d)
<1>1. /\ C2 \in Seq(CallFragments) /\ Len(C2) = Len(C) + 1 /\ Len(C) \in Nat
      /\ C2[Len(C) + 1] = d /\ \A j \in 1..Len(C) : C2[j] = C[j]
  BY AppendProperties, LenProperties
<1> HIDE DEF C2
<1>2. /\ Len(C) + 1 \in 1..Len(C2) /\ \A j \in 1..Len(C) : j \in 1..Len(C2)
      /\ \A j \in 1..Len(C2) : j \in 1..Len(C) \/ j = Len(C) + 1
  BY <1>1
<1>3. Indices(C2) = Indices(C) \cup {d.index}
  BY <1>1, <1>2 DEF Indices
<1>4. ASSUME NEW i PROVE HasId(C2, i) <=> HasId(C, i) \/ (d.index = i /\ d.id # Absent)
  BY <1>1, <1>2 DEF HasId
<1>5. OneIdEach(C2) => OneIdEach(C)
  BY <1>1, <1>2 DEF OneIdEach
<1> QED BY <1>1, <1>2, <1>3, <1>4, <1>5 DEF C2

\* Of an index that does not occur there are no arguments, ...
LEMMA NoArguments ==
  ASSUME NEW C \in Seq(CallFragments), NEW i \in Nat, i \notin Indices(C)
  PROVE  ArgumentsOf(C, i) = <<>>
<1> DEFINE G == {s \in Seq(CallFragments) : i \notin Indices(s) => ArgumentsOf(s, i) = <<>>}
<1>1. <<>> \in G
  BY EmptySeq, ArgumentsGather
<1>2. ASSUME NEW s \in Seq(CallFragments), NEW d \in CallFragments, s \in G
      PROVE  Append(s, d) \in G
  <2> DEFINE t == Append(s, d)
  <2>1. t \in Seq(CallFragments) /\ Indices(t) = Indices(s) \cup {d.index}
    BY FragmentAdded
  <2>2. ArgumentsOf(t, i) = ArgumentsOf(s, i) \o (IF d.index = i THEN d.arguments ELSE <<>>)
    BY ArgumentsGather
  <2>3. <<>> \o <<>> = <<>>
    OBVIOUS
  <2> HIDE DEF t
  <2>4. ASSUME i \notin Indices(t) PROVE ArgumentsOf(t, i) = <<>>
    <3>1. d.index # i /\ ArgumentsOf(s, i) = <<>>
      BY <1>2, <2>1, <2>4
    <3> QED BY <3>1, <2>2, <2>3
  <2>5. t \in G
    BY <2>1, <2>4
  <2> QED BY <2>5 DEF t
<1> HIDE DEF G
<1>3. C \in G
  BY <1>1, <1>2, SeqInduction
<1> QED BY <1>3 DEF G

\* ... and of an id that does not occur no deltas.
LEMMA NoDeltas ==
  ASSUME NEW E \in Seq(Evs), NEW id,
         \A k \in 1..Len(E) : E[k].kind = "delta" => E[k].id # id
  PROVE  DeltasIn(E, id) = <<>>
<1> DEFINE G == {s \in Seq(Evs) :
                   (\A k \in 1..Len(s) : s[k].kind = "delta" => s[k].id # id)
                     => DeltasIn(s, id) = <<>>}
<1>1. <<>> \in G
  BY EmptySeq, DeltasGather
<1>2. ASSUME NEW s \in Seq(Evs), NEW e \in Evs, s \in G PROVE Append(s, e) \in G
  <2> DEFINE t == Append(s, e)
  <2>1. /\ t \in Seq(Evs) /\ Len(t) = Len(s) + 1 /\ Len(s) \in Nat
        /\ t[Len(s) + 1] = e /\ \A j \in 1..Len(s) : t[j] = s[j]
    BY AppendProperties, LenProperties
  <2>2. DeltasIn(t, id) = DeltasIn(s, id) \o (IF e.kind = "delta" /\ e.id = id THEN <<e.data>> ELSE <<>>)
    BY DeltasGather
  <2>3. <<>> \o <<>> = <<>>
    OBVIOUS
  <2> HIDE DEF t
  <2>4. ASSUME \A k \in 1..Len(t) : t[k].kind = "delta" => t[k].id # id
        PROVE  DeltasIn(t, id) = <<>>
    <3>1. \A k \in 1..Len(s) : k \in 1..Len(t)
      BY <2>1
    <3>2. Len(s) + 1 \in 1..Len(t)
      BY <2>1
    <3>3. ~(e.kind = "delta" /\ e.id = id) /\ DeltasIn(s, id) = <<>>
      BY <1>2, <2>1, <2>4, <3>1, <3>2
    <3> QED BY <3>3, <2>2, <2>3
  <2>5. t \in G
    BY <2>1, <2>4
  <2> QED BY <2>5 DEF t
<1> HIDE DEF G
<1>3. E \in G
  BY <1>1, <1>2, SeqInduction
<1> QED BY <1>3 DEF G

StartOf(d) == Event("start", d.id, d.name)
WithStart(ad, E, d) == IF Starting(ad, d) THEN Append(E, StartOf(d)) ELSE E

\* The events a fragment gives rise to: an announcement, then deltas.
LEMMA CallOut ==
  ASSUME NEW ad, AdapterOK(ad), NEW d \in CallFragments, NEW E \in Seq(Evs)
  PROVE  LET out == adapt_tool_call(ad, d).out
             E1 == WithStart(ad, E, d)
         IN /\ out \in Seq(Evs) /\ \A k \in 1..Len(out) : out[k].kind \in {"start", "delta"}
            /\ E1 \in Seq(Evs)
            /\ E \o out = IF Known(ad, d) THEN E1 \o DeltaEvents(IdOf(ad, d), Let(ad, d)) ELSE E1
<1> DEFINE out == adapt_tool_call(ad, d).out
           s == StartOf(d)
           D == DeltaEvents(IdOf(ad, d), Let(ad, d))
           e == <<>>
<1>s. s \in Evs /\ s.kind = "start"
  BY DEF StartOf, Event, Evs, Datas, Texts, CallFragments
<1>a. out = (IF Starting(ad, d) THEN <<s>> ELSE e) \o (IF Known(ad, d) THEN D ELSE e)
  BY AdaptCall DEF StartOf
<1>b. Known(ad, d) => IdOf(ad, d) \in STRING /\ Let(ad, d) \in Seq(STRING)
  BY AdaptCall
<1>c. ASSUME Known(ad, d)
      PROVE  D \in Seq(Evs) /\ \A k \in 1..Len(D) : D[k].kind = "delta"
  <2>1. D \in Seq(Evs) /\ Len(Let(ad, d)) \in Nat
    BY <1>b, <1>c, DeltasPushed, LenProperties
  <2>2. Len(D) = Len(Let(ad, d)) /\ \A k \in 1..Len(D) : D[k].kind = "delta"
    BY <2>1 DEF DeltaEvents, Event
  <2> QED BY <2>1, <2>2
<1>e. e \in Seq(Evs) /\ \A u \in Seq(Evs) : u \o e = u /\ e \o u = u
  BY EmptySeq, ConcatEmptySeq
<1>f. Starting(ad, d) => Known(ad, d)
  BY DEF Known
<1> HIDE DEF s, D, out
<1>t. <<s>> \in Seq(Evs) /\ Len(<<s>>) = 1 /\ <<s>>[1] = s
  <2>1. \A x \in Evs : <<x>> \in Seq(Evs)
    OBVIOUS
  <2> QED BY <2>1, <1>s
<1>1. CASE Starting(ad, d)
  <2> DEFINE u == <<s>>
  <2>0. u \in Seq(Evs) /\ Len(u) = 1 /\ u[1] = s /\ Append(E, s) = E \o u
    BY <1>s, <1>t, AppendIsConcat
  <2> HIDE DEF u
  <2>1. out = u \o D /\ D \in Seq(Evs) /\ Known(ad, d)
    BY <1>1, <1>a, <1>c, <1>f DEF u
  <2>2. /\ out \in Seq(Evs) /\ Len(out) = 1 + Len(D) /\ Len(D) \in Nat
        /\ out[1] = s /\ \A k \in 1..Len(D) : out[1 + k] = D[k]
    BY <2>0, <2>1, ConcatProperties, LenProperties
  <2>3. ASSUME NEW k \in 1..Len(out) PROVE out[k].kind \in {"start", "delta"}
    <3>1. CASE k = 1
      BY <3>1, <2>2, <1>s
    <3>2. CASE k # 1
      <4>1. k - 1 \in 1..Len(D) /\ k = 1 + (k - 1)
        BY <3>2, <2>2
      <4>2. out[k] = D[k - 1] /\ D[k - 1].kind = "delta"
        BY <4>1, <2>1, <2>2, <1>c
      <4> QED BY <4>2
    <3> QED BY <3>1, <3>2
  <2>4. E \o out = Append(E, s) \o D /\ Append(E, s) \in Seq(Evs)
    <3>1. E \o (u \o D) = (E \o u) \o D
      BY <2>0, <2>1, ConcatAssociative
    <3>2. E \o u \in Seq(Evs)
      BY <2>0, ConcatProperties
    <3> QED BY <3>1, <3>2, <2>0, <2>1
  <2> QED BY <1>1, <2>1, <2>2, <2>3, <2>4 DEF WithStart, s, D, out
<1>2. CASE ~Starting(ad, d) /\ Known(ad, d)
  <2>1. out = D /\ D \in Seq(Evs) /\ \A k \in 1..Len(D) : D[k].kind = "delta"
    BY <1>2, <1>a, <1>c, <1>e
  <2> QED BY <1>2, <2>1 DEF WithStart, D, out
<1>3. CASE ~Starting(ad, d) /\ ~Known(ad, d)
  <2>1. out = <<>> /\ E \o <<>> = E
    BY <1>3, <1>a, <1>e
  <2>2. <<>> \in Seq(Evs) /\ \A k \in 1..Len(<<>>) : FALSE
    BY EmptySeq
  <2> QED BY <1>3, <2>1, <2>2 DEF WithStart, out
<1> QED BY <1>1, <1>2, <1>3

\* The events with a start: nothing else is said.
LEMMA StartPushed ==
  ASSUME NEW E \in Seq(Evs), NEW s \in Evs, s.kind # "delta"
  PROVE  LET E1 == Append(E, s) IN
         /\ E1 \in Seq(Evs) /\ Len(E1) = Len(E) + 1 /\ Len(E) \in Nat
         /\ E1[Len(E) + 1] = s /\ \A k \in 1..Len(E) : E1[k] = E[k]
         /\ \A y : DeltasIn(E1, y) = DeltasIn(E, y)
<1> DEFINE E1 == Append(E, s)
<1>1. /\ E1 \in Seq(Evs) /\ Len(E1) = Len(E) + 1 /\ Len(E) \in Nat
      /\ E1[Len(E) + 1] = s /\ \A k \in 1..Len(E) : E1[k] = E[k]
  BY AppendProperties, LenProperties
<1>2. ASSUME NEW y PROVE DeltasIn(E1, y) = DeltasIn(E, y)
  <2>1. DeltasIn(E1, y) = DeltasIn(E, y) \o <<>>
    BY DeltasGather
  <2>2. DeltasIn(E, y) \in Seq(Datas)
    BY DeltasGather
  <2>3. DeltasIn(E, y) \o <<>> = DeltasIn(E, y)
    BY <2>2, ConcatEmptySeq
  <2> QED BY <2>1, <2>3
<1> QED BY <1>1, <1>2

\* The events of a fragment, against the ones before.
LEMMA CallEvents ==
  ASSUME NEW ad, AdapterOK(ad), NEW d \in CallFragments, NEW E \in Seq(Evs)
  PROVE  LET E2 == E \o adapt_tool_call(ad, d).out
             x == IdOf(ad, d)
         IN /\ E2 \in Seq(Evs) /\ Len(E) \in Nat /\ Len(E2) \in Nat /\ Len(E2) >= Len(E)
            /\ \A k \in 1..Len(E) : E2[k] = E[k]
            /\ \A k \in 1..Len(E2) : k > Len(E) =>
                 Known(ad, d) /\ E2[k].id = x /\ E2[k].kind \in {"start", "delta"}
            /\ Starting(ad, d) => Len(E2) > Len(E) /\ E2[Len(E) + 1].kind = "start"
            /\ \A k \in 1..Len(E2) :
                 k > Len(E) => (E2[k].kind = "start" <=> Starting(ad, d) /\ k = Len(E) + 1)
            /\ Known(ad, d) => DeltasIn(E2, x) = DeltasIn(E, x) \o Let(ad, d)
            /\ \A y : ~Known(ad, d) \/ y # x => DeltasIn(E2, y) = DeltasIn(E, y)
<1> DEFINE out == adapt_tool_call(ad, d).out
           E1 == WithStart(ad, E, d)
           E2 == E \o out
           x == IdOf(ad, d)
           f == Let(ad, d)
           s == StartOf(d)
<1>0. /\ E1 \in Seq(Evs)
      /\ E2 = IF Known(ad, d) THEN E1 \o DeltaEvents(x, f) ELSE E1
  BY CallOut
<1>1. s \in Evs /\ s.kind = "start" /\ s.id = d.id
  BY DEF StartOf, Event, Evs, Datas, Texts, CallFragments
<1>2. f \in Seq(STRING) /\ (Known(ad, d) => x \in STRING)
  BY AdaptCall
<1>3. Starting(ad, d) => Known(ad, d) /\ x = d.id
  BY DEF Known, IdOf
<1> HIDE DEF out, f, s, x
<1>4. /\ Len(E1) \in Nat /\ Len(E) \in Nat
      /\ Starting(ad, d) => Len(E1) = Len(E) + 1 /\ E1[Len(E) + 1] = s
      /\ ~Starting(ad, d) => E1 = E
      /\ \A k \in 1..Len(E) : E1[k] = E[k]
      /\ \A y : DeltasIn(E1, y) = DeltasIn(E, y)
  BY <1>0, <1>1, StartPushed, LenProperties DEF WithStart, s
<1> HIDE DEF E1
<1>5. CASE ~Known(ad, d)
  <2>1. E2 = E /\ ~Starting(ad, d)
    BY <1>5, <1>0, <1>3, <1>4
  <2>2. \A k \in 1..Len(E) : ~(k > Len(E))
    BY <1>4
  <2> HIDE DEF E2
  <2> QED BY <1>4, <1>5, <2>1, <2>2 DEF E2, out, x, f
<1>6. CASE Known(ad, d)
  <2>1. E2 = E1 \o DeltaEvents(x, f)
    BY <1>0, <1>6
  <2> HIDE DEF E2
  <2>2. /\ E2 \in Seq(Evs) /\ Len(E2) >= Len(E1)
        /\ DeltasIn(E2, x) = DeltasIn(E1, x) \o f
        /\ \A y : y # x => DeltasIn(E2, y) = DeltasIn(E1, y)
        /\ \A k \in 1..Len(E1) : E2[k] = E1[k]
        /\ \A k \in 1..Len(E2) : k > Len(E1) => E2[k].kind = "delta" /\ E2[k].id = x
    <3> DEFINE D == DeltaEvents(x, f)
               W == E1 \o D
    <3>1. /\ W \in Seq(Evs) /\ Len(W) >= Len(E1)
          /\ DeltasIn(W, x) = DeltasIn(E1, x) \o f
          /\ \A y : y # x => DeltasIn(W, y) = DeltasIn(E1, y)
          /\ \A k \in 1..Len(E1) : W[k] = E1[k]
          /\ \A k \in 1..Len(W) : k > Len(E1) => W[k].kind = "delta" /\ W[k].id = x
      <4>1. x \in STRING
        BY <1>2, <1>6
      <4> QED BY <1>0, <1>2, <4>1, DeltasPushed
    <3>2. E2 = W
      BY <2>1
    <3> HIDE DEF W
    <3> QED BY <3>1, <3>2
  <2>3. Len(E2) \in Nat
    BY <2>2, LenProperties
  <2>4. Len(E1) >= Len(E) /\ \A k \in 1..Len(E) : k \in 1..Len(E1)
    BY <1>4
  <2>5. \A k \in 1..Len(E) : E2[k] = E[k]
    BY <1>4, <2>2, <2>4
  <2>6. ASSUME NEW k \in 1..Len(E2), k > Len(E)
        PROVE  /\ E2[k].id = x /\ E2[k].kind \in {"start", "delta"}
               /\ E2[k].kind = "start" <=> Starting(ad, d) /\ k = Len(E) + 1
    <3>1. CASE k > Len(E1)
      <4>1. E2[k].kind = "delta" /\ E2[k].id = x
        BY <3>1, <2>2
      <4>2. ~(Starting(ad, d) /\ k = Len(E) + 1)
        BY <3>1, <1>4, <2>3
      <4> QED BY <4>1, <4>2
    <3>2. CASE ~(k > Len(E1))
      <4>1. Starting(ad, d) /\ k = Len(E) + 1 /\ k \in 1..Len(E1)
        BY <3>2, <2>6, <1>4, <2>3
      <4>2. E2[k] = s
        BY <4>1, <1>4, <2>2
      <4> QED BY <4>1, <4>2, <1>1, <1>3
    <3> QED BY <3>1, <3>2
  <2>7. Starting(ad, d) => Len(E2) > Len(E) /\ E2[Len(E) + 1].kind = "start"
    <3> SUFFICES ASSUME Starting(ad, d) PROVE Len(E2) > Len(E) /\ E2[Len(E) + 1].kind = "start"
      OBVIOUS
    <3>1. Len(E) + 1 \in 1..Len(E1) /\ Len(E2) > Len(E)
      BY <1>4, <2>2, <2>3
    <3> QED BY <3>1, <1>4, <1>1, <2>2
  <2>8. Len(E2) >= Len(E)
    BY <1>4, <2>2, <2>3, <2>4
  <2> QED BY <1>4, <1>6, <2>2, <2>3, <2>5, <2>6, <2>7, <2>8 DEF E2, out, x, f
<1> QED BY <1>5, <1>6

\* A fragment leaves every call announced before its deltas.
LEMMA AnnouncedCall ==
  ASSUME NEW ad, AdapterOK(ad), NEW d \in CallFragments, NEW E, Announced(ad, E)
  PROVE  Announced(adapt_tool_call(ad, d).adapter, E \o adapt_tool_call(ad, d).out)
<1> DEFINE n == adapt_tool_call(ad, d).adapter
           E2 == E \o adapt_tool_call(ad, d).out
           x == IdOf(ad, d)
<1>0. E \in Seq(Evs)
  BY DEF Announced
<1>1. /\ E2 \in Seq(Evs) /\ Len(E) \in Nat /\ Len(E2) \in Nat /\ Len(E2) >= Len(E)
      /\ \A k \in 1..Len(E) : E2[k] = E[k]
      /\ \A k \in 1..Len(E2) : k > Len(E) =>
           Known(ad, d) /\ E2[k].id = x /\ E2[k].kind \in {"start", "delta"}
      /\ Starting(ad, d) => Len(E2) > Len(E) /\ E2[Len(E) + 1].kind = "start"
      /\ \A k \in 1..Len(E2) :
           k > Len(E) => (E2[k].kind = "start" <=> Starting(ad, d) /\ k = Len(E) + 1)
  BY <1>0, CallEvents
<1>2. /\ DOMAIN n.ids = IF Starting(ad, d) THEN DOMAIN ad.ids \cup {d.index} ELSE DOMAIN ad.ids
      /\ \A i \in DOMAIN ad.ids : n.ids[i] = ad.ids[i]
      /\ Known(ad, d) => x = n.ids[d.index]
  BY AdaptCall
<1>3. Known(ad, d) => d.index \in DOMAIN n.ids
  BY <1>2 DEF Known
<1>4. Starting(ad, d) => Known(ad, d) /\ d.index \notin DOMAIN ad.ids
  BY Zenon DEF Known, Starting
<1>5. Known(ad, d) /\ ~Starting(ad, d) => d.index \in DOMAIN ad.ids
  BY Zenon DEF Known
<1> HIDE DEF n, E2, x
<1>6. \A k \in 1..Len(E) : k \in 1..Len(E2)
  BY <1>1
<1>7. ASSUME NEW i \in DOMAIN n.ids
      PROVE  \E k \in 1..Len(E2) : E2[k].kind = "start" /\ E2[k].id = n.ids[i]
  <2>1. CASE i \in DOMAIN ad.ids
    <3>1. PICK k \in 1..Len(E) : E[k].kind = "start" /\ E[k].id = ad.ids[i]
      BY <2>1 DEF Announced
    <3> QED BY <3>1, <2>1, <1>1, <1>2, <1>6
  <2>2. CASE i \notin DOMAIN ad.ids
    <3>1. Starting(ad, d) /\ i = d.index
      BY <2>2, <1>2
    <3>2. Len(E) + 1 \in 1..Len(E2) /\ Len(E) + 1 > Len(E)
      BY <3>1, <1>1
    <3>3. E2[Len(E) + 1].kind = "start" /\ E2[Len(E) + 1].id = n.ids[i]
      BY <3>1, <3>2, <1>1, <1>2, <1>4
    <3> QED BY <3>2, <3>3
  <2> QED BY <2>1, <2>2
<1>8. ASSUME NEW k \in 1..Len(E2), E2[k].kind = "delta"
      PROVE  \E j \in 1..(k - 1) : E2[j].kind = "start" /\ E2[j].id = E2[k].id
  <2>1. CASE k \in 1..Len(E)
    <3>1. E[k].kind = "delta" /\ E2[k] = E[k]
      BY <2>1, <1>8, <1>1
    <3>2. PICK j \in 1..(k - 1) : E[j].kind = "start" /\ E[j].id = E[k].id
      BY <2>1, <3>1 DEF Announced
    <3>3. j \in 1..Len(E)
      BY <2>1, <1>1
    <3> QED BY <3>1, <3>2, <3>3, <1>1
  <2>2. CASE k \notin 1..Len(E)
    <3>1. k > Len(E)
      BY <2>2, <1>1
    <3>2. Known(ad, d) /\ E2[k].id = x /\ x = n.ids[d.index]
      BY <3>1, <1>1, <1>2
    <3>3. CASE Starting(ad, d)
      <4>1. k # Len(E) + 1
        <5>1. E2[k].kind # "start"
          BY <1>8
        <5> QED BY <3>1, <3>3, <5>1, <1>1
      <4>2. Len(E) + 1 \in 1..(k - 1) /\ Len(E) + 1 \in 1..Len(E2) /\ Len(E) + 1 > Len(E)
        BY <3>1, <4>1, <1>1
      <4>3. E2[Len(E) + 1].kind = "start" /\ E2[Len(E) + 1].id = x
        BY <3>3, <4>2, <1>1
      <4> QED BY <4>2, <4>3, <3>2
    <3>4. CASE ~Starting(ad, d)
      <4>1. d.index \in DOMAIN ad.ids /\ n.ids[d.index] = ad.ids[d.index]
        BY <3>2, <3>4, <1>2, <1>5
      <4>2. PICK j \in 1..Len(E) : E[j].kind = "start" /\ E[j].id = ad.ids[d.index]
        BY <4>1 DEF Announced
      <4>3. j \in 1..(k - 1)
        BY <3>1, <1>1
      <4> QED BY <3>2, <4>1, <4>2, <4>3, <1>1
    <3> QED BY <3>3, <3>4
  <2> QED BY <2>1, <2>2
<1>9. ASSUME NEW k \in 1..Len(E2), E2[k].kind \in {"start", "delta"}
      PROVE  \E i \in DOMAIN n.ids : E2[k].id = n.ids[i]
  <2>1. CASE k \in 1..Len(E)
    <3>1. PICK i \in DOMAIN ad.ids : E[k].id = ad.ids[i]
      BY <2>1, <1>9, <1>1 DEF Announced
    <3>2. i \in DOMAIN n.ids
      BY <1>2
    <3> QED BY <3>1, <3>2, <2>1, <1>1, <1>2
  <2>2. CASE k \notin 1..Len(E)
    <3>1. k > Len(E)
      BY <2>2, <1>1
    <3> QED BY <3>1, <1>1, <1>2, <1>3
  <2> QED BY <2>1, <2>2
<1> QED BY <1>1, <1>7, <1>8, <1>9 DEF Announced, n, E2

\* Fragments of a call that is not announced are held back, all of them.
LEMMA HeldBefore ==
  ASSUME NEW ad, AdapterOK(ad), NEW d \in CallFragments, NEW C \in Seq(CallFragments),
         NEW E, Tracks(ad, E, C), d.index \notin DOMAIN ad.ids
  PROVE  Before(ad, d) = ArgumentsOf(C, d.index) /\ ~HasId(C, d.index)
<1>0. d.index \in Nat
  BY DEF CallFragments
<1>1. CASE d.index \in Indices(C)
  BY <1>1 DEF Tracks, Before
<1>2. CASE d.index \notin Indices(C)
  <2>1. Before(ad, d) = <<>>
    BY <1>2 DEF Tracks, Before
  <2>2. ~HasId(C, d.index)
    BY <1>2 DEF HasId, Indices
  <2> QED BY <1>0, <1>2, <2>1, <2>2, NoArguments
<1> QED BY <1>1, <1>2

\* A fragment is passed on or held back with those before it.
LEMMA TracksCall ==
  ASSUME NEW ad, AdapterOK(ad), NEW d \in CallFragments, NEW E, Announced(ad, E),
         NEW C \in Seq(CallFragments), Tracks(ad, E, C), OneIdEach(Append(C, d))
  PROVE  Tracks(adapt_tool_call(ad, d).adapter, E \o adapt_tool_call(ad, d).out, Append(C, d))
<1> DEFINE n == adapt_tool_call(ad, d).adapter
           E2 == E \o adapt_tool_call(ad, d).out
           x == IdOf(ad, d)
           C2 == Append(C, d)
           i0 == d.index
<1>0. E \in Seq(Evs) /\ i0 \in Nat /\ d.arguments \in Seq(STRING)
  BY DEF Announced, CallFragments
<1>1. /\ E2 \in Seq(Evs) /\ Len(E) \in Nat /\ Len(E2) \in Nat /\ Len(E2) >= Len(E)
      /\ \A k \in 1..Len(E) : E2[k] = E[k]
      /\ \A k \in 1..Len(E2) : k > Len(E) =>
           Known(ad, d) /\ E2[k].id = x /\ E2[k].kind \in {"start", "delta"}
      /\ Starting(ad, d) => Len(E2) > Len(E) /\ E2[Len(E) + 1].kind = "start"
      /\ \A k \in 1..Len(E2) :
           k > Len(E) => (E2[k].kind = "start" <=> Starting(ad, d) /\ k = Len(E) + 1)
  BY <1>0, CallEvents, SMTT(60)
<1>d. /\ Known(ad, d) => DeltasIn(E2, x) = DeltasIn(E, x) \o Let(ad, d)
      /\ \A y : ~Known(ad, d) \/ y # x => DeltasIn(E2, y) = DeltasIn(E, y)
  BY <1>0, CallEvents, SMTT(60)
<1>2. /\ DOMAIN n.ids = IF Starting(ad, d) THEN DOMAIN ad.ids \cup {i0} ELSE DOMAIN ad.ids
      /\ \A i \in DOMAIN ad.ids : n.ids[i] = ad.ids[i]
      /\ Known(ad, d) => x = n.ids[i0]
      /\ DOMAIN n.held = DOMAIN ad.held \cup {i0}
      /\ \A i \in DOMAIN ad.held : i # i0 => n.held[i] = ad.held[i]
      /\ n.held[i0] = IF Known(ad, d) THEN <<>> ELSE Before(ad, d) \o d.arguments
  BY AdaptCall
<1>3. /\ C2 \in Seq(CallFragments) /\ Len(C2) = Len(C) + 1 /\ Len(C) \in Nat
      /\ C2[Len(C) + 1] = d /\ \A j \in 1..Len(C) : C2[j] = C[j] /\ j \in 1..Len(C2)
      /\ Len(C) + 1 \in 1..Len(C2)
      /\ \A j \in 1..Len(C2) : j \in 1..Len(C) \/ j = Len(C) + 1
      /\ Indices(C2) = Indices(C) \cup {i0}
      /\ \A i : HasId(C2, i) <=> HasId(C, i) \/ (i0 = i /\ d.id # Absent)
  BY FragmentAdded
<1>4. \A i \in Nat : /\ ArgumentsOf(C, i) \in Seq(STRING)
                     /\ ArgumentsOf(C2, i)
                          = ArgumentsOf(C, i) \o (IF i0 = i THEN d.arguments ELSE <<>>)
  BY ArgumentsGather
<1>5. /\ Starting(ad, d) <=> d.id # Absent /\ i0 \notin DOMAIN ad.ids
      /\ Known(ad, d) <=> Starting(ad, d) \/ i0 \in DOMAIN ad.ids
      /\ x = IF Starting(ad, d) THEN d.id ELSE ad.ids[i0]
      /\ Let(ad, d) = IF Starting(ad, d) THEN Before(ad, d) \o d.arguments ELSE d.arguments
  BY Zenon DEF Starting, Known, IdOf, Let
<1>6. OneIdEach(C2)
  OBVIOUS
<1>7. i0 \notin DOMAIN ad.ids => Before(ad, d) = ArgumentsOf(C, i0) /\ ~HasId(C, i0)
  BY HeldBefore
<1>8. /\ DOMAIN ad.ids \subseteq Indices(C) /\ DOMAIN ad.held \subseteq Indices(C)
      /\ \A i \in Indices(C) : i \in Nat
      /\ \A i \in DOMAIN ad.ids : ad.ids[i] # Absent /\ Carried(ad, E, C, i)
      /\ \A i \in Indices(C) : i \notin DOMAIN ad.ids =>
           ~HasId(C, i) /\ i \in DOMAIN ad.held /\ ad.held[i] = ArgumentsOf(C, i)
  <2>1. \A i \in Indices(C) : i \in Nat
    <3>1. \A j \in 1..Len(C) : C[j] \in CallFragments
      BY ElementOfSeq
    <3> QED BY <3>1 DEF Indices, CallFragments
  <2> QED BY <2>1 DEF Tracks, AdapterOK
<1> HIDE DEF n, E2, x, C2, i0
\* The id of this fragment's call is no other call's.
<1>9. ASSUME NEW i \in DOMAIN ad.ids, i # i0, Known(ad, d) PROVE ad.ids[i] # x
  <2>1. PICK j \in 1..Len(C) : C[j].index = i /\ C[j].id = ad.ids[i]
    BY <1>8, <1>9 DEF Carried
  <2>2. \E k \in 1..Len(C2) : C2[k].index = i0 /\ C2[k].id = x /\ x # Absent
    <3>1. CASE Starting(ad, d)
      BY <3>1, <1>3, <1>5 DEF i0
    <3>2. CASE ~Starting(ad, d)
      <4>1. i0 \in DOMAIN ad.ids /\ x = ad.ids[i0] /\ x # Absent
        BY <3>2, <1>5, <1>8, <1>9
      <4>2. PICK k \in 1..Len(C) : C[k].index = i0 /\ C[k].id = x
        BY <4>1, <1>8 DEF Carried
      <4> QED BY <4>1, <4>2, <1>3
    <3> QED BY <3>1, <3>2
  <2>3. PICK k \in 1..Len(C2) : C2[k].index = i0 /\ C2[k].id = x /\ x # Absent
    BY <2>2
  <2>4. j \in 1..Len(C2) /\ C2[j].index = i /\ C2[j].id = ad.ids[i] /\ ad.ids[i] # Absent
    BY <2>1, <1>3, <1>8
  <2>5. ASSUME ad.ids[i] = x PROVE FALSE
    <3>1. j = k
      BY <2>3, <2>4, <2>5, <1>6 DEF OneIdEach
    <3> QED BY <3>1, <2>3, <2>4, <1>9
  <2> QED BY <2>5
\* The starts of another id.
<1>10. ASSUME NEW y, ~Starting(ad, d) \/ y # x PROVE StartsIn(E2, y) = StartsIn(E, y)
  <2>1. ASSUME NEW k \in 1..Len(E2), E2[k].kind = "start", E2[k].id = y PROVE k \in 1..Len(E)
    <3>1. ~(k > Len(E))
      BY <2>1, <1>1, <1>10
    <3> QED BY <3>1, <1>1
  <2>2. \A k \in 1..Len(E) : k \in 1..Len(E2)
    BY <1>1
  <2> QED BY <2>1, <2>2, <1>1 DEF StartsIn
<1>11. ASSUME NEW i \in Indices(C2), i # i0
       PROVE  IF i \in DOMAIN n.ids THEN Carried(n, E2, C2, i)
              ELSE ~HasId(C2, i) /\ i \in DOMAIN n.held /\ n.held[i] = ArgumentsOf(C2, i)
  <2>1. i \in Indices(C) /\ i \in Nat
    BY <1>11, <1>3, <1>8
  <2>2. ArgumentsOf(C2, i) = ArgumentsOf(C, i)
    <3> DEFINE u == ArgumentsOf(C, i)
    <3>1. u \in Seq(STRING) /\ ArgumentsOf(C2, i) = u \o <<>>
      BY <2>1, <1>4, <1>11
    <3> HIDE DEF u
    <3>2. u \o <<>> = u
      BY <3>1, ConcatEmptySeq
    <3> QED BY <3>1, <3>2 DEF u
  <2>3. CASE i \in DOMAIN ad.ids
    <3>1. i \in DOMAIN n.ids /\ n.ids[i] = ad.ids[i]
      BY <2>3, <1>2
    <3>2. Known(ad, d) => ad.ids[i] # x
      BY <2>3, <1>9, <1>11
    <3>3. DeltasIn(E2, ad.ids[i]) = DeltasIn(E, ad.ids[i])
      BY <3>2, <1>d
    <3>4. StartsIn(E2, ad.ids[i]) = StartsIn(E, ad.ids[i])
      BY <3>2, <1>5, <1>10
    <3>5. /\ \E j \in 1..Len(C) : C[j].index = i /\ C[j].id = ad.ids[i]
          /\ DeltasIn(E, ad.ids[i]) = ArgumentsOf(C, i)
          /\ \E k \in 1..Len(E) : StartsIn(E, ad.ids[i]) = {k}
      BY <2>3, <1>8 DEF Carried
    <3>6. \E j \in 1..Len(C2) : C2[j].index = i /\ C2[j].id = ad.ids[i]
      BY <3>5, <1>3
    <3>7. \E k \in 1..Len(E2) : StartsIn(E2, ad.ids[i]) = {k}
      <4>1. \A k \in 1..Len(E) : k \in 1..Len(E2)
        BY <1>1
      <4> QED BY <3>4, <3>5, <4>1
    <3> QED BY <2>2, <3>1, <3>3, <3>5, <3>6, <3>7 DEF Carried
  <2>4. CASE i \notin DOMAIN ad.ids
    <3>1. i \notin DOMAIN n.ids
      BY <2>4, <1>2, <1>11
    <3>2. ~HasId(C, i) /\ i \in DOMAIN ad.held /\ ad.held[i] = ArgumentsOf(C, i)
      BY <2>1, <2>4, <1>8
    <3> QED BY <2>2, <3>1, <3>2, <1>2, <1>3, <1>11
  <2> QED BY <2>3, <2>4
<1>12. ArgumentsOf(C2, i0) = ArgumentsOf(C, i0) \o d.arguments
  BY <1>0, <1>4
<1>13. CASE Starting(ad, d)
  <2>1. i0 \in DOMAIN n.ids /\ n.ids[i0] = x /\ x = d.id /\ Known(ad, d) /\ i0 \notin DOMAIN ad.ids
    BY <1>13, <1>2, <1>5
  <2>2. ASSUME NEW i \in DOMAIN ad.ids PROVE ad.ids[i] # x
    <3>1. i # i0
      BY <2>1
    <3> QED BY <3>1, <2>1, <1>9
  <2>3. \A k \in 1..Len(E) : E[k].kind \in {"start", "delta"} => E[k].id # x
    BY <2>2 DEF Announced
  <2>4. DeltasIn(E, x) = <<>>
    BY <2>3, <1>0, NoDeltas
  <2>5. DeltasIn(E2, x) = ArgumentsOf(C2, i0)
    <3> DEFINE u == Before(ad, d) \o d.arguments
    <3>1. DeltasIn(E2, x) = <<>> \o u
      BY <1>13, <2>1, <2>4, <1>d, <1>5
    <3>2. u = ArgumentsOf(C2, i0) /\ u \in Seq(STRING)
      <4>1. u = ArgumentsOf(C, i0) \o d.arguments
        BY <2>1, <1>7
      <4>2. ArgumentsOf(C, i0) \in Seq(STRING)
        BY <1>0, <1>4
      <4>3. ArgumentsOf(C, i0) \o d.arguments \in Seq(STRING)
        BY <1>0, <4>2, ConcatProperties
      <4> QED BY <4>1, <4>3, <1>12
    <3> HIDE DEF u
    <3>3. <<>> \o u = u
      BY <3>2, ConcatEmptySeq
    <3> QED BY <3>1, <3>2, <3>3
  <2>6. StartsIn(E2, x) = {Len(E) + 1} /\ Len(E) + 1 \in 1..Len(E2)
    <3>1. Len(E) + 1 \in 1..Len(E2) /\ Len(E) + 1 > Len(E)
      BY <1>13, <1>1
    <3>2. E2[Len(E) + 1].kind = "start" /\ E2[Len(E) + 1].id = x
      BY <1>13, <3>1, <1>1
    <3>3. ASSUME NEW k \in 1..Len(E2), E2[k].kind = "start", E2[k].id = x PROVE k = Len(E) + 1
      <4>1. k \notin 1..Len(E)
        BY <2>3, <3>3, <1>1
      <4>2. k > Len(E)
        BY <4>1, <1>1
      <4> QED BY <4>2, <3>3, <1>1
    <3> QED BY <3>1, <3>2, <3>3 DEF StartsIn
  <2>7. \E j \in 1..Len(C2) : C2[j].index = i0 /\ C2[j].id = x
    BY <2>1, <1>3 DEF i0
  <2>8. Carried(n, E2, C2, i0)
    BY <2>1, <2>5, <2>6, <2>7 DEF Carried
  <2>9. DOMAIN n.ids \subseteq Indices(C2) /\ DOMAIN n.held \subseteq Indices(C2)
    BY <1>2, <1>3, <1>8
  <2> QED BY <1>11, <2>1, <2>8, <2>9 DEF Tracks, n, E2, C2
<1>14. CASE ~Starting(ad, d) /\ Known(ad, d)
  <2>1. i0 \in DOMAIN ad.ids /\ x = ad.ids[i0] /\ i0 \in DOMAIN n.ids /\ n.ids[i0] = x
    BY <1>14, <1>2, <1>5
  <2>2. /\ \E j \in 1..Len(C) : C[j].index = i0 /\ C[j].id = x
        /\ DeltasIn(E, x) = ArgumentsOf(C, i0)
        /\ \E k \in 1..Len(E) : StartsIn(E, x) = {k}
    BY <2>1, <1>8 DEF Carried
  <2>3. DeltasIn(E2, x) = ArgumentsOf(C2, i0)
    BY <1>14, <2>2, <1>d, <1>5, <1>12
  <2>4. \E k \in 1..Len(E2) : StartsIn(E2, x) = {k}
    <3>1. \A k \in 1..Len(E) : k \in 1..Len(E2)
      BY <1>1
    <3>2. StartsIn(E2, x) = StartsIn(E, x)
      BY <1>14, <1>10
    <3> QED BY <2>2, <3>1, <3>2
  <2>5. \E j \in 1..Len(C2) : C2[j].index = i0 /\ C2[j].id = x
    BY <2>2, <1>3
  <2>6. Carried(n, E2, C2, i0)
    BY <2>1, <2>3, <2>4, <2>5 DEF Carried
  <2>7. DOMAIN n.ids \subseteq Indices(C2) /\ DOMAIN n.held \subseteq Indices(C2)
    BY <1>2, <1>3, <1>8
  <2> QED BY <1>11, <2>1, <2>6, <2>7 DEF Tracks, n, E2, C2
<1>15. CASE ~Known(ad, d)
  <2>1. i0 \notin DOMAIN ad.ids /\ i0 \notin DOMAIN n.ids /\ d.id = Absent /\ ~Starting(ad, d)
    BY <1>15, <1>2, <1>5
  <2>2. n.held[i0] = ArgumentsOf(C2, i0) /\ i0 \in DOMAIN n.held
    BY <1>15, <2>1, <1>2, <1>7, <1>12
  <2>3. ~HasId(C2, i0)
    BY <2>1, <1>3, <1>7
  <2>4. DOMAIN n.ids \subseteq Indices(C2) /\ DOMAIN n.held \subseteq Indices(C2)
    BY <1>2, <1>3, <1>8
  <2> QED BY <1>11, <2>1, <2>2, <2>3, <2>4 DEF Tracks, n, E2, C2
<1> QED BY <1>13, <1>14, <1>15

-----------------------------------------------------------------------------
(* One chunk through the adapter and into the turn *)

Answers == [content : Seq(STRING), usage : Nat, finish : Finishes,
            outcome : {"open", "ok", "error", "over_cap"}]

\* What the decoder passes on.
Chunks ==
  {e \in Evs :
     /\ e.kind \in {"content", "call", "usage", "done", "error"}
     /\ e.kind = "content" => e.data \in Seq(STRING)
     /\ e.kind = "call" => e.data \in CallFragments
     /\ e.kind = "usage" => e.data \in Nat
     /\ e.kind = "done" => e.data \in Finishes}

\* The adapter, the events and the answer, with one more chunk pending, ...
Push(x, e) ==
  IF x.over THEN x
  ELSE IF e.kind = "call"
         THEN LET a == adapt_tool_call(x.ad, e.data)
              IN [ad |-> a.adapter, es |-> x.es \o a.out, an |-> Took(x.an, a.out), over |-> FALSE]
         ELSE [ad |-> x.ad, es |-> Append(x.es, e), an |-> Takes(x.an, e),
               over |-> e.kind = "error"]

\* ... and after a poll.
Start(ad) == [adapter |-> ad, out |-> <<>>, over |-> FALSE]
Polled(ad, es, an, P) ==
  LET as == Adapted(Start(ad), P)
  IN [ad |-> as.adapter, es |-> es \o as.out, an |-> Took(an, as.out), over |-> as.over]

\* What the adapter's loop works on.
Adapting(as) ==
  /\ as = [adapter |-> as.adapter, out |-> as.out, over |-> as.over]
  /\ AdapterOK(as.adapter) /\ as.out \in Seq(Evs) /\ as.over \in BOOLEAN

\* One turn of that loop.
LEMMA AdaptStep ==
  ASSUME NEW as, Adapting(as), NEW e \in Chunks
  PROVE  /\ Adapting(adapt(as, e))
         /\ as.over => adapt(as, e) = as
         /\ ~as.over /\ e.kind = "call" =>
              LET a == adapt_tool_call(as.adapter, e.data)
              IN /\ adapt(as, e).adapter = a.adapter /\ adapt(as, e).out = as.out \o a.out
                 /\ adapt(as, e).over = FALSE /\ a.out \in Seq(Evs)
         /\ ~as.over /\ e.kind # "call" =>
              /\ adapt(as, e).adapter = as.adapter /\ adapt(as, e).out = Append(as.out, e)
              /\ adapt(as, e).over = (e.kind = "error")
<1>0. e \in Evs /\ (e.kind = "call" => e.data \in CallFragments)
  BY DEF Chunks
<1>r. /\ as = [adapter |-> as.adapter, out |-> as.out, over |-> as.over]
      /\ AdapterOK(as.adapter) /\ as.out \in Seq(Evs) /\ as.over \in BOOLEAN
  BY DEF Adapting
<1>1. CASE as.over
  <2>1. adapt(as, e) = as
    BY <1>1 DEF adapt
  <2> QED BY <1>1, <2>1
<1>2. CASE ~as.over /\ e.kind = "call"
  <2> DEFINE a == adapt_tool_call(as.adapter, e.data)
  <2>1. AdapterOK(a.adapter)
    BY <1>0, <1>2, <1>r, AdaptCall
  <2>2. a.out \in Seq(Evs)
    BY <1>0, <1>2, <1>r, CallOut
  <2> HIDE DEF a
  <2>3. adapt(as, e) = [as EXCEPT !.adapter = a.adapter, !.out = @ \o a.out]
    BY <1>2, Zenon DEF adapt, a
  <2>4. as.out \o a.out \in Seq(Evs)
    BY <2>2, <1>r, ConcatProperties
  <2> DEFINE o == as.out \o a.out
             b == adapt(as, e)
  <2>5. b = [adapter |-> a.adapter, out |-> o, over |-> as.over]
    <3> HIDE DEF o
    <3>1. b = [as EXCEPT !.adapter = a.adapter, !.out = o]
      BY <2>3 DEF o
    <3> HIDE DEF b
    <3> QED BY <3>1, <1>r
  <2> HIDE DEF b
  <2>6. b.adapter = a.adapter /\ b.out = o /\ b.over = FALSE
    BY <2>5, <1>2, <1>r
  <2>7. Adapting(b)
    <3> HIDE DEF o
    <3>1. o \in Seq(Evs)
      BY <2>4 DEF o
    <3> QED BY <2>1, <2>5, <2>6, <3>1, <1>2, <1>r DEF Adapting
  <2> QED BY <1>2, <2>2, <2>6, <2>7 DEF a, b
<1>3. CASE ~as.over /\ e.kind # "call"
  <2> DEFINE o == Append(as.out, e)
             b == adapt(as, e)
             v == e.kind = "error"
  <2>1. o \in Seq(Evs) /\ v \in BOOLEAN
    BY <1>0, <1>r, AppendProperties
  <2>2. b = [as EXCEPT !.out = o, !.over = v]
    BY <1>3, Zenon DEF adapt
  <2> HIDE DEF b, o, v
  <2>3. b = [adapter |-> as.adapter, out |-> o, over |-> v]
    BY <2>2, <1>r
  <2>4. b.adapter = as.adapter /\ b.out = o /\ b.over = v
    BY <2>3
  <2>5. Adapting(b)
    BY <2>1, <2>3, <2>4, <1>r DEF Adapting
  <2> QED BY <1>3, <2>4, <2>5 DEF b, o, v
<1> QED BY <1>1, <1>2, <1>3, <1>r

\* The adapter's loop over pending chunks.
LEMMA AdaptedType ==
  ASSUME NEW ad, AdapterOK(ad), NEW P \in Seq(Chunks)
  PROVE  Adapting(Adapted(Start(ad), P))
<1> DEFINE b == Start(ad)
           G == {p \in Seq(Chunks) : Adapting(Adapted(b, p))}
<1>0. Adapting(b)
  BY EmptySeq DEF Adapting, Start
<1> HIDE DEF b
<1>1. <<>> \in G
  <2>1. Adapted(b, <<>>) = b
    BY AdaptedEmpty
  <2> QED BY <1>0, <2>1, EmptySeq
<1>2. ASSUME NEW p \in Seq(Chunks), NEW e \in Chunks, p \in G PROVE Append(p, e) \in G
  <2>1. Adapted(b, Append(p, e)) = adapt(Adapted(b, p), e)
    BY AdaptedAppend
  <2>2. Append(p, e) \in Seq(Chunks)
    BY AppendProperties
  <2>3. Adapting(adapt(Adapted(b, p), e))
    BY <1>2, AdaptStep
  <2> QED BY <2>1, <2>2, <2>3
<1> HIDE DEF G
<1>3. P \in G
  BY <1>1, <1>2, SeqInduction
<1> QED BY <1>3 DEF G, b

\* A poll takes the pending chunks one after the other.
LEMMA PolledSteps ==
  ASSUME NEW ad, AdapterOK(ad), NEW es \in Seq(Evs), NEW an
  PROVE  /\ Polled(ad, es, an, <<>>) = [ad |-> ad, es |-> es, an |-> an, over |-> FALSE]
         /\ \A P \in Seq(Chunks), e \in Chunks :
              Polled(ad, es, an, Append(P, e)) = Push(Polled(ad, es, an, P), e)
<1> DEFINE b == Start(ad)
<1>0. b.adapter = ad /\ b.out = <<>> /\ b.over = FALSE
  BY DEF Start
<1>1. Polled(ad, es, an, <<>>) = [ad |-> ad, es |-> es, an |-> an, over |-> FALSE]
  <2>1. Adapted(b, <<>>) = b
    BY AdaptedEmpty
  <2>2. es \o <<>> = es
    BY ConcatEmptySeq
  <2>3. Took(an, <<>>) = an
    BY TookEmpty
  <2> DEFINE e == <<>>
             q == Adapted(b, e)
  <2>4. q.adapter = ad /\ q.out = e /\ q.over = FALSE
    BY <1>0, <2>1
  <2>5. es \o q.out = es /\ Took(an, q.out) = an
    BY <2>2, <2>3, <2>4
  <2> HIDE DEF q, e
  <2>6. Polled(ad, es, an, e) = [ad |-> q.adapter, es |-> es \o q.out, an |-> Took(an, q.out), over |-> q.over]
    BY Zenon DEF Polled, q
  <2> QED BY <2>4, <2>5, <2>6 DEF e
<1>2. ASSUME NEW P \in Seq(Chunks), NEW e \in Chunks
      PROVE  Polled(ad, es, an, Append(P, e)) = Push(Polled(ad, es, an, P), e)
  <2> DEFINE as == Adapted(b, P)
             n == Adapted(b, Append(P, e))
             x == Polled(ad, es, an, P)
             y == Polled(ad, es, an, Append(P, e))
  <2>1. Adapting(as)
    BY AdaptedType
  <2>2. n = adapt(as, e)
    BY AdaptedAppend
  <2>3. /\ x = [ad |-> as.adapter, es |-> es \o as.out, an |-> Took(an, as.out), over |-> as.over]
        /\ y = [ad |-> n.adapter, es |-> es \o n.out, an |-> Took(an, n.out), over |-> n.over]
    BY Zenon DEF Polled
  <2>4. e \in Evs /\ as.out \in Seq(Evs) /\ as.over \in BOOLEAN
    BY <2>1 DEF Chunks, Adapting
  <2> HIDE DEF b, as, n, x, y
  <2>t. /\ \A s \in Seq(Evs), c \in Evs : Took(an, Append(s, c)) = Takes(Took(an, s), c)
        /\ \A s \in Seq(Evs), u \in Seq(Evs) : Took(an, s \o u) = Took(Took(an, s), u)
    BY TookAppend, TookConcat
  <2>c. \A s \in Seq(Evs), u \in Seq(Evs) : es \o (s \o u) = (es \o s) \o u
    BY ConcatAssociative
  <2>d. \A s \in Seq(Evs), c \in Evs : es \o Append(s, c) = Append(es \o s, c)
    BY ConcatSimplifications
  <2>x. x.ad = as.adapter /\ x.es = es \o as.out /\ x.an = Took(an, as.out) /\ x.over = as.over
    BY <2>3
  <2>5. CASE as.over
    <3>1. n = as
      BY <2>5, <2>1, <2>2, AdaptStep
    <3>2. y = x
      BY <2>3, <3>1
    <3>3. Push(x, e) = x
      BY <2>5, <2>x DEF Push
    <3> QED BY <3>2, <3>3 DEF x, y
  <2>6. CASE ~as.over /\ e.kind = "call"
    <3> DEFINE a == adapt_tool_call(as.adapter, e.data)
               o == a.out
    <3>1. n.adapter = a.adapter /\ n.out = as.out \o o /\ n.over = FALSE /\ o \in Seq(Evs)
      BY <2>6, <2>1, <2>2, AdaptStep
    <3>2. Push(x, e) = [ad |-> a.adapter, es |-> x.es \o o, an |-> Took(x.an, o), over |-> FALSE]
      BY <2>6, <2>x, Zenon DEF Push
    <3> HIDE DEF o, a
    <3>3. es \o (as.out \o o) = (es \o as.out) \o o
      BY <2>4, <2>c, <3>1, Zenon
    <3>4. Took(an, as.out \o o) = Took(Took(an, as.out), o)
      BY <2>4, <2>t, <3>1, Zenon
    <3>5. y = [ad |-> a.adapter, es |-> x.es \o o, an |-> Took(x.an, o), over |-> FALSE]
      BY <2>3, <2>x, <3>1, <3>3, <3>4
    <3> QED BY <3>2, <3>5 DEF x, y
  <2>7. CASE ~as.over /\ e.kind # "call"
    <3>1. n.adapter = as.adapter /\ n.out = Append(as.out, e) /\ n.over = (e.kind = "error")
      BY <2>7, <2>1, <2>2, AdaptStep
    <3>2. Push(x, e) = [ad |-> x.ad, es |-> Append(x.es, e), an |-> Takes(x.an, e),
                        over |-> e.kind = "error"]
      BY <2>7, <2>x, Zenon DEF Push
    <3>3. es \o Append(as.out, e) = Append(es \o as.out, e)
      BY <2>4, <2>d, Zenon
    <3>4. Took(an, Append(as.out, e)) = Takes(Took(an, as.out), e)
      BY <2>4, <2>t, Zenon
    <3>5. y = [ad |-> x.ad, es |-> Append(x.es, e), an |-> Takes(x.an, e), over |-> e.kind = "error"]
      BY <2>3, <2>x, <3>1, <3>3, <3>4
    <3> QED BY <3>2, <3>5 DEF x, y
  <2> QED BY <2>4, <2>5, <2>6, <2>7
<1> QED BY <1>1, <1>2

\* Announcements and deltas leave the answer as it is.
LEMMA TookCalls ==
  ASSUME NEW an, NEW out \in Seq(Evs), \A k \in 1..Len(out) : out[k].kind \in {"start", "delta"}
  PROVE  Took(an, out) = an
<1> DEFINE D == {e \in Evs : e.kind \in {"start", "delta"}}
           G == {s \in Seq(D) : Took(an, s) = an}
<1>1. <<>> \in G
  BY TookEmpty, EmptySeq
<1>2. ASSUME NEW s \in Seq(D), NEW e \in D, s \in G PROVE Append(s, e) \in G
  <2>1. Took(an, Append(s, e)) = Takes(Took(an, s), e)
    BY TookAppend
  <2>2. Took(an, s) = an
    BY <1>2
  <2>3. Takes(an, e) = an
    BY <1>2 DEF Takes
  <2>4. Append(s, e) \in Seq(D)
    BY AppendProperties
  <2> HIDE DEF D
  <2> QED BY <2>1, <2>2, <2>3, <2>4
<1>3. out \in Seq(D)
  <2>1. Len(out) \in Nat /\ DOMAIN out = 1..Len(out) /\ \A k \in 1..Len(out) : out[k] \in D
    BY LenProperties, ElementOfSeq
  <2> QED BY <2>1, SeqDef
<1> HIDE DEF G, D
<1>4. Seq(D) \subseteq G
  BY <1>1, <1>2, SeqInduction
<1> QED BY <1>3, <1>4 DEF G

\* Usage is never after a finish reason.
HasDone(es) == \E k \in 1..Len(es) : es[k].kind = "done"
Ordered(es) ==
  \A k \in 1..Len(es) : es[k].kind = "usage" => \A j \in 1..(k - 1) : es[j].kind # "done"

\* More events in order, ...
LEMMA OrderKept ==
  ASSUME NEW E \in Seq(Evs), NEW E2 \in Seq(Evs), Len(E2) >= Len(E),
         \A k \in 1..Len(E) : E2[k] = E[k],
         \A k \in 1..Len(E2) : k > Len(E) /\ E2[k].kind = "usage" => ~HasDone(E) /\ k = Len(E) + 1
  PROVE  Ordered(E) => Ordered(E2)
<1>0. Len(E) \in Nat /\ Len(E2) \in Nat
  BY LenProperties
<1> SUFFICES ASSUME Ordered(E), NEW k \in 1..Len(E2), E2[k].kind = "usage", NEW j \in 1..(k - 1)
             PROVE  E2[j].kind # "done"
  BY DEF Ordered
<1>1. CASE k \in 1..Len(E)
  <2>1. j \in 1..Len(E)
    BY <1>0, <1>1
  <2> QED BY <1>1, <2>1 DEF Ordered
<1>2. CASE k \notin 1..Len(E)
  <2>1. k > Len(E)
    BY <1>0, <1>2
  <2>2. ~HasDone(E) /\ k = Len(E) + 1
    BY <2>1
  <2>3. j \in 1..Len(E)
    BY <1>0, <2>2
  <2> QED BY <2>2, <2>3 DEF HasDone
<1> QED BY <1>1, <1>2

\* ... and what makes a finish reason appear.
LEMMA DoneKept ==
  ASSUME NEW E \in Seq(Evs), NEW E2 \in Seq(Evs), Len(E2) >= Len(E),
         \A k \in 1..Len(E) : E2[k] = E[k],
         \A k \in 1..Len(E2) : k > Len(E) => E2[k].kind # "done"
  PROVE  HasDone(E2) => HasDone(E)
<1>0. Len(E) \in Nat /\ Len(E2) \in Nat
  BY LenProperties
<1>1. ASSUME NEW k \in 1..Len(E2), E2[k].kind = "done" PROVE HasDone(E)
  <2>1. ~(k > Len(E))
    BY <1>1
  <2>2. k \in 1..Len(E)
    BY <1>0, <2>1
  <2> QED BY <1>1, <2>2 DEF HasDone
<1> QED BY <1>1 DEF HasDone

\* Other events say nothing of calls.
LEMMA OtherEvent ==
  ASSUME NEW ad, NEW E, Announced(ad, E), NEW e \in Evs, e.kind \notin {"start", "delta"}
  PROVE  /\ Announced(ad, Append(E, e))
         /\ \A C : Tracks(ad, E, C) => Tracks(ad, Append(E, e), C)
<1> DEFINE E2 == Append(E, e)
<1>0. E \in Seq(Evs)
  BY DEF Announced
<1>1. /\ E2 \in Seq(Evs) /\ Len(E2) = Len(E) + 1 /\ Len(E) \in Nat
      /\ E2[Len(E) + 1] = e /\ \A k \in 1..Len(E) : E2[k] = E[k]
      /\ \A y : DeltasIn(E2, y) = DeltasIn(E, y)
  BY <1>0, StartPushed
<1> HIDE DEF E2
<1>2. \A k \in 1..Len(E) : k \in 1..Len(E2)
  BY <1>1
<1>3. ASSUME NEW k \in 1..Len(E2), E2[k].kind \in {"start", "delta"}
      PROVE  k \in 1..Len(E) /\ E2[k] = E[k]
  <2>1. k # Len(E) + 1
    BY <1>1, <1>3
  <2>2. k \in 1..Len(E)
    BY <1>1, <2>1
  <2> QED BY <1>1, <2>2
<1>4. Announced(ad, E2)
  <2>1. ASSUME NEW i \in DOMAIN ad.ids
        PROVE  \E k \in 1..Len(E2) : E2[k].kind = "start" /\ E2[k].id = ad.ids[i]
    <3>1. PICK k \in 1..Len(E) : E[k].kind = "start" /\ E[k].id = ad.ids[i]
      BY DEF Announced
    <3> QED BY <3>1, <1>1, <1>2
  <2>2. ASSUME NEW k \in 1..Len(E2), E2[k].kind = "delta"
        PROVE  \E j \in 1..(k - 1) : E2[j].kind = "start" /\ E2[j].id = E2[k].id
    <3>1. k \in 1..Len(E) /\ E2[k] = E[k]
      BY <1>3, <2>2
    <3>2. PICK j \in 1..(k - 1) : E[j].kind = "start" /\ E[j].id = E[k].id
      BY <2>2, <3>1 DEF Announced
    <3>3. j \in 1..Len(E)
      BY <3>1, <1>1
    <3> QED BY <3>1, <3>2, <3>3, <1>1
  <2>3. ASSUME NEW k \in 1..Len(E2), E2[k].kind \in {"start", "delta"}
        PROVE  \E i \in DOMAIN ad.ids : E2[k].id = ad.ids[i]
    BY <1>3, <2>3 DEF Announced
  <2> QED BY <1>1, <2>1, <2>2, <2>3 DEF Announced
<1>5. ASSUME NEW y PROVE StartsIn(E2, y) = StartsIn(E, y)
  <2>1. \A k \in 1..Len(E2) : E2[k].kind = "start" => k \in 1..Len(E) /\ E2[k] = E[k]
    BY <1>3
  <2> QED BY <1>1, <1>2, <2>1 DEF StartsIn
<1>6. ASSUME NEW C, Tracks(ad, E, C) PROVE Tracks(ad, E2, C)
  <2>1. ASSUME NEW i, Carried(ad, E, C, i) PROVE Carried(ad, E2, C, i)
    <3> DEFINE y == ad.ids[i]
    <3> HIDE DEF y
    <3>1. /\ \E j \in 1..Len(C) : C[j].index = i /\ C[j].id = y
          /\ DeltasIn(E, y) = ArgumentsOf(C, i)
          /\ \E k \in 1..Len(E) : StartsIn(E, y) = {k}
      BY <2>1 DEF Carried, y
    <3>2. \E k \in 1..Len(E2) : StartsIn(E2, y) = {k}
      BY <3>1, <1>2, <1>5
    <3>3. DeltasIn(E2, y) = ArgumentsOf(C, i)
      BY <3>1, <1>1
    <3> QED BY <3>1, <3>2, <3>3 DEF Carried, y
  <2> QED BY <1>6, <2>1 DEF Tracks
<1> QED BY <1>4, <1>6 DEF E2

\* What the adapter, the events and the answer have of fragments C, text T, usage U
\* and finish reason V.
Carries(x, C, T, U, V) ==
  /\ AdapterOK(x.ad) /\ Announced(x.ad, x.es)
  /\ x.an \in Answers /\ x.an.outcome # "ok"
  /\ x.over \in BOOLEAN /\ (x.over => x.an.outcome # "open")
  /\ ~x.over /\ OneIdEach(C) => Tracks(x.ad, x.es, C)
  /\ x.an.outcome = "open" =>
       /\ x.an.content = T /\ Len(T) <= ContentMax
       /\ x.an.usage = U /\ x.an.finish = V

CallsAfter(C, e) == IF e.kind = "call" THEN Append(C, e.data) ELSE C
TextAfter(T, e) == IF e.kind = "content" THEN T \o e.data ELSE T
UsageAfter(U, e) == IF e.kind = "usage" THEN e.data ELSE U
FinishAfter(V, e) == IF e.kind = "done" THEN e.data ELSE V

\* The answer takes an event.
LEMMA TakesStep ==
  ASSUME NEW an \in Answers, NEW e \in Chunks, an.outcome # "ok", ContentMax \in Nat
  PROVE  /\ Takes(an, e) \in Answers /\ Takes(an, e).outcome # "ok"
         /\ Takes(an, e).outcome = "open" =>
              /\ an.outcome = "open" /\ e.kind # "error"
              /\ Takes(an, e).content = TextAfter(an.content, e)
              /\ e.kind = "content" => Len(Takes(an, e).content) <= ContentMax
              /\ Takes(an, e).usage = UsageAfter(an.usage, e)
              /\ Takes(an, e).finish = FinishAfter(an.finish, e)
<1> DEFINE n == Takes(an, e)
<1>0. /\ an.content \in Seq(STRING) /\ an.usage \in Nat /\ an.finish \in Finishes
      /\ an.outcome \in {"open", "ok", "error", "over_cap"}
  BY DEF Answers
<1>1. CASE an.outcome # "open"
  BY <1>1 DEF Takes
<1>2. CASE an.outcome = "open" /\ e.kind = "content"
  <2> DEFINE c == an.content \o e.data
  <2>1. c \in Seq(STRING) /\ Len(c) \in Nat
    BY <1>0, <1>2, ConcatProperties, LenProperties DEF Chunks
  <2>2. n = [an EXCEPT !.content = c, !.outcome = IF Len(c) > ContentMax THEN "over_cap" ELSE @]
    BY <1>2, Zenon DEF Takes, TakesContent
  <2>t. TextAfter(an.content, e) = c /\ UsageAfter(an.usage, e) = an.usage
        /\ FinishAfter(an.finish, e) = an.finish
    BY <1>2 DEF TextAfter, UsageAfter, FinishAfter
  <2> HIDE DEF c, n
  <2>3. n \in Answers /\ n.content = c /\ n.usage = an.usage /\ n.finish = an.finish
        /\ n.outcome = IF Len(c) > ContentMax THEN "over_cap" ELSE "open"
    BY <2>1, <2>2, <1>0, <1>2 DEF Answers
  <2>4. n.outcome = "open" => Len(c) <= ContentMax
    BY <2>1, <2>3
  <2>5. n.outcome # "ok" /\ e.kind # "error"
    BY <1>2, <2>3
  <2> QED BY <1>2, <2>3, <2>4, <2>5, <2>t DEF n
<1>3. CASE an.outcome = "open" /\ e.kind = "usage"
  <2>1. n = [an EXCEPT !.usage = e.data] /\ e.data \in Nat
    BY <1>3 DEF Takes, Chunks
  <2>t. TextAfter(an.content, e) = an.content /\ UsageAfter(an.usage, e) = e.data
        /\ FinishAfter(an.finish, e) = an.finish
    BY <1>3 DEF TextAfter, UsageAfter, FinishAfter
  <2> HIDE DEF n
  <2>2. n \in Answers /\ n.content = an.content /\ n.usage = e.data /\ n.finish = an.finish
        /\ n.outcome = "open"
    BY <2>1, <1>3 DEF Answers
  <2> QED BY <1>3, <2>2, <2>t DEF n
<1>4. CASE an.outcome = "open" /\ e.kind = "done"
  <2>1. n = [an EXCEPT !.finish = e.data] /\ e.data \in Finishes
    BY <1>4 DEF Takes, Chunks
  <2>t. TextAfter(an.content, e) = an.content /\ UsageAfter(an.usage, e) = an.usage
        /\ FinishAfter(an.finish, e) = e.data
    BY <1>4 DEF TextAfter, UsageAfter, FinishAfter
  <2> HIDE DEF n
  <2>2. n \in Answers /\ n.content = an.content /\ n.usage = an.usage /\ n.finish = e.data
        /\ n.outcome = "open"
    BY <2>1, <1>4 DEF Answers
  <2> QED BY <1>4, <2>2, <2>t DEF n
<1>5. CASE an.outcome = "open" /\ e.kind = "error"
  <2>1. n = [an EXCEPT !.outcome = "error"]
    BY <1>5 DEF Takes
  <2> HIDE DEF n
  <2>2. n \in Answers /\ n.outcome = "error"
    BY <2>1 DEF Answers
  <2> QED BY <2>2 DEF n
<1>6. CASE an.outcome = "open" /\ e.kind = "call"
  <2>1. n = an
    BY <1>6 DEF Takes
  <2>t. TextAfter(an.content, e) = an.content /\ UsageAfter(an.usage, e) = an.usage
        /\ FinishAfter(an.finish, e) = an.finish
    BY <1>6 DEF TextAfter, UsageAfter, FinishAfter
  <2> HIDE DEF n
  <2> QED BY <1>6, <2>1, <2>t DEF n
<1> QED BY <1>0, <1>1, <1>2, <1>3, <1>4, <1>5, <1>6 DEF Chunks

\* One more chunk is carried.
LEMMA PushCarries ==
  ASSUME NEW x, NEW C \in Seq(CallFragments), NEW T \in Seq(STRING), NEW U, NEW V,
         Carries(x, C, T, U, V), NEW e \in Chunks, ContentMax \in Nat
  PROVE  /\ Carries(Push(x, e), CallsAfter(C, e), TextAfter(T, e), UsageAfter(U, e),
                    FinishAfter(V, e))
         /\ e.kind = "error" => Push(x, e).an.outcome # "open"
         /\ Push(x, e).an.outcome = "open" => x.an.outcome = "open"
         /\ HasDone(Push(x, e).es) => HasDone(x.es) \/ e.kind = "done"
         /\ Ordered(x.es) /\ (e.kind = "usage" => ~HasDone(x.es)) => Ordered(Push(x, e).es)
<1> DEFINE y == Push(x, e)
<1>0. /\ AdapterOK(x.ad) /\ Announced(x.ad, x.es) /\ x.es \in Seq(Evs)
      /\ x.an \in Answers /\ x.an.outcome # "ok"
      /\ x.over \in BOOLEAN /\ (x.over => x.an.outcome # "open")
      /\ ~x.over /\ OneIdEach(C) => Tracks(x.ad, x.es, C)
      /\ x.an.outcome = "open" =>
           /\ x.an.content = T /\ Len(T) <= ContentMax
           /\ x.an.usage = U /\ x.an.finish = V
  BY DEF Carries, Announced
<1>e. e \in Evs /\ e.kind \notin {"start", "delta"}
  BY DEF Chunks
<1>c. CallsAfter(C, e) \in Seq(CallFragments) /\ (OneIdEach(CallsAfter(C, e)) => OneIdEach(C))
  <2>1. CASE e.kind = "call"
    <3>1. e.data \in CallFragments
      BY <2>1 DEF Chunks
    <3> QED BY <2>1, <3>1, FragmentAdded DEF CallsAfter
  <2>2. CASE e.kind # "call"
    BY <2>2 DEF CallsAfter
  <2> QED BY <2>1, <2>2
<1>1. CASE x.over
  <2>1. y = x
    BY <1>1 DEF Push
  <2>2. x.an.outcome # "open"
    BY <1>0, <1>1
  <2> HIDE DEF y
  <2>3. Carries(y, CallsAfter(C, e), TextAfter(T, e), UsageAfter(U, e), FinishAfter(V, e))
    BY <1>0, <1>1, <2>1, <2>2 DEF Carries
  <2> QED BY <2>1, <2>2, <2>3 DEF y
<1>2. CASE ~x.over /\ e.kind = "call"
  <2> DEFINE d == e.data
             a == adapt_tool_call(x.ad, d)
             E2 == x.es \o a.out
  <2>1. d \in CallFragments
    BY <1>2 DEF Chunks
  <2>2. AdapterOK(a.adapter) /\ Announced(a.adapter, E2)
    BY <1>0, <2>1, AdaptCall, AnnouncedCall
  <2>3. a.out \in Seq(Evs) /\ \A k \in 1..Len(a.out) : a.out[k].kind \in {"start", "delta"}
    BY <1>0, <2>1, CallOut
  <2>4. Took(x.an, a.out) = x.an
    BY <2>3, TookCalls
  <2>5. /\ E2 \in Seq(Evs) /\ Len(E2) >= Len(x.es)
        /\ \A k \in 1..Len(x.es) : E2[k] = x.es[k]
        /\ \A k \in 1..Len(E2) : k > Len(x.es) => E2[k].kind \in {"start", "delta"}
    <3> DEFINE E == x.es
               ad == x.ad
    <3> HIDE DEF E, ad, d
    <3>1. E \in Seq(Evs) /\ AdapterOK(ad) /\ d \in CallFragments
      BY <1>0, <2>1 DEF E, ad
    <3> DEFINE W == E \o adapt_tool_call(ad, d).out
    <3>2. /\ W \in Seq(Evs) /\ Len(E) \in Nat /\ Len(W) \in Nat /\ Len(W) >= Len(E)
          /\ \A k \in 1..Len(E) : W[k] = E[k]
          /\ \A k \in 1..Len(W) : k > Len(E) =>
               Known(ad, d) /\ W[k].id = IdOf(ad, d) /\ W[k].kind \in {"start", "delta"}
      BY <3>1, CallEvents
    <3>3. W = E2
      BY DEF E, ad
    <3> HIDE DEF W, E2
    <3> QED BY <3>2, <3>3 DEF E
  <2>6. OneIdEach(Append(C, d)) => Tracks(a.adapter, E2, Append(C, d))
    <3>1. OneIdEach(Append(C, d)) => OneIdEach(C)
      BY <2>1, FragmentAdded
    <3>2. ASSUME OneIdEach(Append(C, d)) PROVE Tracks(a.adapter, E2, Append(C, d))
      <4>1. Tracks(x.ad, x.es, C)
        BY <3>1, <3>2, <1>0, <1>2
      <4> QED BY <3>2, <4>1, <1>0, <2>1, TracksCall
    <3> QED BY <3>2
  <2>7. y = [ad |-> a.adapter, es |-> E2, an |-> Took(x.an, a.out), over |-> FALSE]
    BY <1>2, Zenon DEF Push
  <2>8. /\ CallsAfter(C, e) = Append(C, d) /\ TextAfter(T, e) = T
        /\ UsageAfter(U, e) = U /\ FinishAfter(V, e) = V
    BY <1>2 DEF CallsAfter, TextAfter, UsageAfter, FinishAfter
  <2> HIDE DEF y, a, E2, d
  <2>9. y.ad = a.adapter /\ y.es = E2 /\ y.an = x.an /\ y.over = FALSE
    BY <2>4, <2>7
  <2>10. Carries(y, CallsAfter(C, e), TextAfter(T, e), UsageAfter(U, e), FinishAfter(V, e))
    BY <1>0, <2>2, <2>6, <2>8, <2>9 DEF Carries
  <2>11. HasDone(E2) => HasDone(x.es)
    BY <1>0, <2>5, DoneKept
  <2>12. Ordered(x.es) => Ordered(E2)
    BY <1>0, <2>5, OrderKept
  <2> QED BY <1>2, <2>9, <2>10, <2>11, <2>12 DEF y
<1>3. CASE ~x.over /\ e.kind # "call"
  <2> DEFINE E2 == Append(x.es, e)
             n == Takes(x.an, e)
             v == e.kind = "error"
  <2>1. Announced(x.ad, E2) /\ \A D : Tracks(x.ad, x.es, D) => Tracks(x.ad, E2, D)
    BY <1>0, <1>e, OtherEvent
  <2>2. /\ n \in Answers /\ n.outcome # "ok"
        /\ n.outcome = "open" =>
             /\ x.an.outcome = "open" /\ e.kind # "error"
             /\ n.content = TextAfter(x.an.content, e)
             /\ e.kind = "content" => Len(n.content) <= ContentMax
             /\ n.usage = UsageAfter(x.an.usage, e)
             /\ n.finish = FinishAfter(x.an.finish, e)
    BY <1>0, TakesStep
  <2>3. /\ E2 \in Seq(Evs) /\ Len(E2) = Len(x.es) + 1 /\ Len(x.es) \in Nat
        /\ E2[Len(x.es) + 1] = e /\ \A k \in 1..Len(x.es) : E2[k] = x.es[k]
    BY <1>0, <1>e, AppendProperties, LenProperties
  <2>4. y = [ad |-> x.ad, es |-> E2, an |-> n, over |-> v]
    BY <1>3, Zenon DEF Push
  <2>v. v \in BOOLEAN
    OBVIOUS
  <2>5. CallsAfter(C, e) = C
    BY <1>3 DEF CallsAfter
  <2>6. n.outcome = "open" => Len(TextAfter(T, e)) <= ContentMax
    <3>1. CASE e.kind = "content"
      BY <3>1, <1>0, <2>2
    <3>2. CASE e.kind # "content"
      BY <3>2, <1>0, <2>2 DEF TextAfter
    <3> QED BY <3>1, <3>2
  <2> HIDE DEF y, E2, n
  <2>7. y.ad = x.ad /\ y.es = E2 /\ y.an = n /\ y.over = (e.kind = "error")
    BY <2>4
  <2>8. y.over \in BOOLEAN /\ (y.over => n.outcome # "open")
    BY <2>2, <2>7
  <2>9. Carries(y, C, TextAfter(T, e), UsageAfter(U, e), FinishAfter(V, e))
    <3>1. n.outcome = "open" =>
            /\ n.content = TextAfter(T, e) /\ Len(TextAfter(T, e)) <= ContentMax
            /\ n.usage = UsageAfter(U, e) /\ n.finish = FinishAfter(V, e)
      BY <1>0, <2>2, <2>6
    <3>2. OneIdEach(C) => Tracks(x.ad, E2, C)
      BY <1>0, <1>3, <2>1
    <3> QED BY <1>0, <2>1, <2>2, <2>7, <2>8, <3>1, <3>2 DEF Carries
  <2>10. ASSUME HasDone(E2) PROVE HasDone(x.es) \/ e.kind = "done"
    <3>1. PICK k \in 1..Len(E2) : E2[k].kind = "done"
      BY <2>10 DEF HasDone
    <3>2. CASE k = Len(x.es) + 1
      BY <3>1, <3>2, <2>3
    <3>3. CASE k # Len(x.es) + 1
      <4>1. k \in 1..Len(x.es)
        BY <3>3, <2>3
      <4> QED BY <3>1, <4>1, <2>3 DEF HasDone
    <3> QED BY <3>2, <3>3
  <2>11. ASSUME Ordered(x.es), e.kind = "usage" => ~HasDone(x.es) PROVE Ordered(E2)
    <3>1. Len(E2) >= Len(x.es)
      BY <2>3
    <3>2. ASSUME NEW k \in 1..Len(E2), k > Len(x.es), E2[k].kind = "usage"
          PROVE  ~HasDone(x.es) /\ k = Len(x.es) + 1
      <4>1. k = Len(x.es) + 1
        BY <3>2, <2>3
      <4> QED BY <3>2, <4>1, <2>3, <2>11
    <3> QED BY <3>1, <3>2, <1>0, <2>3, <2>11, OrderKept
  <2>12. e.kind = "error" => n.outcome # "open"
    BY <2>2
  <2>13. n.outcome = "open" => x.an.outcome = "open"
    BY <2>2
  <2> QED BY <2>5, <2>7, <2>9, <2>10, <2>11, <2>12, <2>13 DEF y
<1> QED BY <1>0, <1>1, <1>2, <1>3

-----------------------------------------------------------------------------
(* What lines amount to *)

\* The last of some positions, or 0.
LastIn(S) == IF S = {} THEN 0 ELSE CHOOSE k \in S : \A j \in S : j <= k

\* There is a last one, and ...
LEMMA LastFacts ==
  ASSUME NEW n \in Nat, NEW S \in SUBSET (1..n)
  PROVE  /\ S = {} => LastIn(S) = 0
         /\ S # {} => LastIn(S) \in S /\ \A j \in S : j <= LastIn(S)
<1> DEFINE G == {m \in Nat : \A Z \in SUBSET (1..m) : Z # {} => \E k \in Z : \A j \in Z : j <= k}
<1>1. 0 \in G
  <2>1. \A Z \in SUBSET (1..0) : Z = {}
    OBVIOUS
  <2> QED BY <2>1
<1>2. ASSUME NEW m \in Nat, m \in G PROVE m + 1 \in G
  <2>1. ASSUME NEW Z \in SUBSET (1..m + 1), Z # {} PROVE \E k \in Z : \A j \in Z : j <= k
    <3>1. CASE m + 1 \in Z
      <4>1. \A j \in Z : j <= m + 1
        OBVIOUS
      <4> QED BY <3>1, <4>1
    <3>2. CASE m + 1 \notin Z
      <4>1. Z \in SUBSET (1..m)
        BY <3>2
      <4> QED BY <1>2, <2>1, <4>1
    <3> QED BY <3>1, <3>2
  <2> QED BY <2>1
<1> HIDE DEF G
<1>3. n \in G
  BY <1>1, <1>2, NaturalInduction
<1>4. S # {} => \E k \in S : \A j \in S : j <= k
  BY <1>3 DEF G
<1> QED BY <1>4 DEF LastIn

\* ... one more that comes last is it.
LEMMA LastAdded ==
  ASSUME NEW n \in Nat, NEW S \in SUBSET (1..n)
  PROVE  LastIn(S \cup {n + 1}) = n + 1
<1> DEFINE Z == S \cup {n + 1}
<1>1. Z \in SUBSET (1..n + 1) /\ Z # {} /\ n + 1 \in Z
  <2>1. \A j \in 1..n : j \in 1..n + 1
    OBVIOUS
  <2> QED BY <2>1
<1> HIDE DEF Z
<1>2. LastIn(Z) \in Z /\ \A j \in Z : j <= LastIn(Z)
  <2> DEFINE m == n + 1
  <2>1. m \in Nat /\ Z \in SUBSET (1..m)
    BY <1>1
  <2> HIDE DEF m
  <2> QED BY <1>1, <2>1, LastFacts
<1>3. n + 1 <= LastIn(Z) /\ LastIn(Z) \in 1..n + 1
  BY <1>1, <1>2
<1> QED BY <1>3 DEF Z

UsageLines(K) == {k \in 1..Len(K) : K[k].usage # 0}
FinishLines(K) == {k \in 1..Len(K) : K[k].finish # Absent}

UsageOf(K) == IF LastIn(UsageLines(K)) = 0 THEN 0 ELSE K[LastIn(UsageLines(K))].usage
Sent(K) == Ingested(<<>>, FragmentsIn(K))
FinishOf(K) ==
  LET f == LastIn(FinishLines(K))
  IN IF f = 0 THEN Finish("Stop", <<>>)
     ELSE map_stream_finish_reason(K[f].finish, Sent(SubSeq(K, 1, f)))

\* Beginnings of a sequence.
LEMMA Beginnings ==
  ASSUME NEW S, NEW K \in Seq(S), NEW l \in S
  PROVE  /\ Append(K, l) \in Seq(S) /\ Len(Append(K, l)) = Len(K) + 1 /\ Len(K) \in Nat
         /\ Append(K, l)[Len(K) + 1] = l /\ \A k \in 1..Len(K) : Append(K, l)[k] = K[k]
         /\ \A f \in 0..Len(K) : SubSeq(Append(K, l), 1, f) = SubSeq(K, 1, f)
         /\ SubSeq(Append(K, l), 1, Len(K) + 1) = Append(K, l)
<1> DEFINE K2 == Append(K, l)
<1>1. /\ K2 \in Seq(S) /\ Len(K2) = Len(K) + 1 /\ Len(K) \in Nat
      /\ K2[Len(K) + 1] = l /\ \A k \in 1..Len(K) : K2[k] = K[k]
  BY AppendProperties, LenProperties
<1> HIDE DEF K2
<1>2. ASSUME NEW f \in 0..Len(K) PROVE SubSeq(K2, 1, f) = SubSeq(K, 1, f)
  <2>1. f \in Int /\ 1 \in Int /\ \A i \in 1..f : K[i] \in S /\ K2[i] = K[i] /\ K2[i] \in S
    <3>1. \A i \in 1..f : i \in 1..Len(K)
      BY <1>1
    <3>2. \A i \in 1..Len(K) : K[i] \in S
      BY ElementOfSeq
    <3> QED BY <3>1, <3>2, <1>1
  <2> DEFINE a == SubSeq(K2, 1, f)
             b == SubSeq(K, 1, f)
  <2>2. /\ a \in Seq(S) /\ Len(a) = (IF 1 <= f THEN f - 1 + 1 ELSE 0)
        /\ \A i \in 1..f - 1 + 1 : a[i] = K2[1 + i - 1]
    BY <2>1, SubSeqProperties
  <2>3. /\ b \in Seq(S) /\ Len(b) = (IF 1 <= f THEN f - 1 + 1 ELSE 0)
        /\ \A i \in 1..f - 1 + 1 : b[i] = K[1 + i - 1]
    BY <2>1, SubSeqProperties
  <2> HIDE DEF a, b
  <2>4. Len(a) = f /\ Len(b) = f
    BY <2>2, <2>3
  <2>5. ASSUME NEW i \in 1..f PROVE a[i] = b[i]
    <3>1. i \in 1..f - 1 + 1 /\ 1 + i - 1 = i
      OBVIOUS
    <3> QED BY <3>1, <2>1, <2>2, <2>3
  <2>6. a = b
    BY <2>2, <2>3, <2>4, <2>5, SeqEqual
  <2> QED BY <2>6 DEF a, b
<1>3. SubSeq(K2, 1, Len(K) + 1) = K2
  <2>1. SubSeq(K2, 1, Len(K2)) = K2
    BY <1>1, SubSeqFull
  <2> QED BY <2>1, <1>1
<1> QED BY <1>1, <1>2, <1>3 DEF K2

\* One more line: usage, ...
LEMMA UsageStep ==
  /\ UsageOf(<<>>) = 0
  /\ \A K \in Seq(WireLines), l \in WireLines :
       UsageOf(Append(K, l)) = IF l.usage = 0 THEN UsageOf(K) ELSE l.usage
<1>1. UsageOf(<<>>) = 0
  <2>1. UsageLines(<<>>) = {}
    BY DEF UsageLines
  <2> QED BY <2>1 DEF UsageOf, LastIn
<1>2. ASSUME NEW K \in Seq(WireLines), NEW l \in WireLines
      PROVE  UsageOf(Append(K, l)) = IF l.usage = 0 THEN UsageOf(K) ELSE l.usage
  <2> DEFINE K2 == Append(K, l)
  <2>1. /\ Len(K2) = Len(K) + 1 /\ Len(K) \in Nat
        /\ K2[Len(K) + 1] = l /\ \A k \in 1..Len(K) : K2[k] = K[k]
    BY Beginnings
  <2> HIDE DEF K2
  <2>2. UsageLines(K) \in SUBSET (1..Len(K))
    BY DEF UsageLines
  <2>3. CASE l.usage = 0
    <3>1. UsageLines(K2) = UsageLines(K)
      BY <2>1, <2>3 DEF UsageLines
    <3>2. LastIn(UsageLines(K)) # 0 => LastIn(UsageLines(K)) \in 1..Len(K)
      BY <2>1, <2>2, LastFacts
    <3>3. UsageOf(K2) = UsageOf(K)
      BY <3>1, <3>2, <2>1 DEF UsageOf
    <3> QED BY <2>3, <3>3 DEF K2
  <2>4. CASE l.usage # 0
    <3>1. UsageLines(K2) = UsageLines(K) \cup {Len(K) + 1}
      BY <2>1, <2>4 DEF UsageLines
    <3>2. LastIn(UsageLines(K2)) = Len(K) + 1
      BY <3>1, <2>1, <2>2, LastAdded
    <3>3. Len(K) + 1 # 0
      BY <2>1
    <3>4. UsageOf(K2) = l.usage
      BY <3>2, <3>3, <2>1 DEF UsageOf
    <3> QED BY <2>4, <3>4 DEF K2
  <2> QED BY <2>3, <2>4
<1> QED BY <1>1, <1>2

\* ... and the finish reason.
LEMMA FinishStep ==
  /\ FinishOf(<<>>) = Finish("Stop", <<>>)
  /\ \A K \in Seq(WireLines), l \in WireLines :
       FinishOf(Append(K, l)) = IF l.finish = Absent THEN FinishOf(K)
                                ELSE map_stream_finish_reason(l.finish, Sent(Append(K, l)))
<1>1. FinishOf(<<>>) = Finish("Stop", <<>>)
  <2>1. FinishLines(<<>>) = {}
    BY DEF FinishLines
  <2> QED BY <2>1 DEF FinishOf, LastIn
<1>2. ASSUME NEW K \in Seq(WireLines), NEW l \in WireLines
      PROVE  FinishOf(Append(K, l)) = IF l.finish = Absent THEN FinishOf(K)
                                      ELSE map_stream_finish_reason(l.finish, Sent(Append(K, l)))
  <2> DEFINE K2 == Append(K, l)
             n == Len(K)
  <2>1. /\ Len(K2) = n + 1 /\ n \in Nat
        /\ K2[n + 1] = l /\ \A k \in 1..n : K2[k] = K[k]
        /\ \A f \in 0..n : SubSeq(K2, 1, f) = SubSeq(K, 1, f)
        /\ SubSeq(K2, 1, n + 1) = K2
    BY Beginnings
  <2> HIDE DEF K2
  <2>2. FinishLines(K) \in SUBSET (1..n)
    BY DEF FinishLines
  <2> DEFINE f == LastIn(FinishLines(K))
             g == LastIn(FinishLines(K2))
  <2>5. /\ FinishOf(K) = IF f = 0 THEN Finish("Stop", <<>>)
                         ELSE map_stream_finish_reason(K[f].finish, Sent(SubSeq(K, 1, f)))
        /\ FinishOf(K2) = IF g = 0 THEN Finish("Stop", <<>>)
                          ELSE map_stream_finish_reason(K2[g].finish, Sent(SubSeq(K2, 1, g)))
    BY Zenon DEF FinishOf
  <2>3. CASE l.finish = Absent
    <3>1. FinishLines(K2) = FinishLines(K)
      BY <2>1, <2>3 DEF FinishLines
    <3>2. f # 0 => f \in 1..n
      BY <2>1, <2>2, LastFacts
    <3>3. f # 0 => f \in 0..n
      BY <2>1, <3>2
    <3>4. g = f
      BY <3>1
    <3>5. f # 0 => K2[f] = K[f] /\ SubSeq(K2, 1, f) = SubSeq(K, 1, f)
      BY <2>1, <3>2, <3>3
    <3> HIDE DEF f, g
    <3>6. FinishOf(K2) = FinishOf(K)
      <4>1. CASE f = 0
        BY <2>5, <3>4, <4>1
      <4>2. CASE f # 0
        <5>1. FinishOf(K) = map_stream_finish_reason(K[f].finish, Sent(SubSeq(K, 1, f)))
          BY <2>5, <4>2
        <5>2. FinishOf(K2) = map_stream_finish_reason(K2[f].finish, Sent(SubSeq(K2, 1, f)))
          BY <2>5, <3>4, <4>2
        <5> QED BY <3>5, <4>2, <5>1, <5>2
      <4> QED BY <4>1, <4>2
    <3> QED BY <2>3, <3>6 DEF K2
  <2>4. CASE l.finish # Absent
    <3>1. FinishLines(K2) = FinishLines(K) \cup {n + 1}
      BY <2>1, <2>4 DEF FinishLines
    <3>2. g = n + 1
      BY <3>1, <2>1, <2>2, LastAdded
    <3>3. n + 1 # 0
      BY <2>1
    <3> HIDE DEF f, g, n
    <3>4. FinishOf(K2) = map_stream_finish_reason(l.finish, Sent(K2))
      BY <3>2, <3>3, <2>1, <2>5
    <3> QED BY <2>4, <3>4 DEF K2
  <2> QED BY <2>3, <2>4
<1> QED BY <1>1, <1>2

\* What the accumulator has of fragments C.
Gathers(acc, C) ==
  /\ DOMAIN acc = Indices(C) /\ IsFiniteSet(Indices(C)) /\ Indices(C) \subseteq Nat
  /\ \A i \in Indices(C) : acc[i] \in ToolCalls /\ acc[i].arguments = ArgumentsOf(C, i)
  /\ OneIdEach(C) =>
       \A j \in 1..Len(C) : C[j].id # Absent => acc[C[j].index].id = C[j].id

\* One more fragment ...
LEMMA IngestStep ==
  ASSUME NEW acc, NEW C \in Seq(CallFragments), Gathers(acc, C), NEW d \in CallFragments
  PROVE  Gathers(ingest(acc, d), Append(C, d))
<1> DEFINE C2 == Append(C, d)
           i0 == d.index
           old == IF i0 \in DOMAIN acc THEN acc[i0]
                  ELSE [id |-> Absent, name |-> Absent, arguments |-> <<>>]
           r == [id |-> IF d.id # Absent THEN d.id ELSE old.id,
                 name |-> IF d.name # Absent THEN d.name ELSE old.name,
                 arguments |-> old.arguments \o d.arguments]
           n == ingest(acc, d)
<1>d. i0 \in Nat /\ d.id \in STRING /\ d.name \in STRING /\ d.arguments \in Seq(STRING)
  BY DEF CallFragments
<1>1. n = Put(acc, i0, r)
  BY Zenon DEF ingest
<1>2. /\ C2 \in Seq(CallFragments) /\ Len(C2) = Len(C) + 1 /\ Len(C) \in Nat
      /\ C2[Len(C) + 1] = d /\ \A j \in 1..Len(C) : C2[j] = C[j] /\ j \in 1..Len(C2)
      /\ Len(C) + 1 \in 1..Len(C2)
      /\ \A j \in 1..Len(C2) : j \in 1..Len(C) \/ j = Len(C) + 1
      /\ Indices(C2) = Indices(C) \cup {i0}
      /\ OneIdEach(C2) => OneIdEach(C)
  BY FragmentAdded
<1>3. \A i \in Nat : /\ ArgumentsOf(C, i) \in Seq(STRING)
                     /\ ArgumentsOf(C2, i)
                          = ArgumentsOf(C, i) \o (IF i0 = i THEN d.arguments ELSE <<>>)
  BY ArgumentsGather
<1>4. old.id \in Texts /\ old.name \in Texts /\ old.arguments = ArgumentsOf(C, i0)
  <2>1. CASE i0 \in DOMAIN acc
    <3>1. old = acc[i0] /\ i0 \in Indices(C)
      BY <2>1 DEF Gathers
    <3> HIDE DEF old
    <3> QED BY <3>1 DEF Gathers, ToolCalls
  <2>2. CASE i0 \notin DOMAIN acc
    <3>1. i0 \notin Indices(C) /\ ArgumentsOf(C, i0) = <<>>
      BY <2>2, <1>d, NoArguments DEF Gathers
    <3>2. old = [id |-> Absent, name |-> Absent, arguments |-> <<>>]
      BY <2>2
    <3> HIDE DEF old
    <3> QED BY <3>1, <3>2 DEF Texts
  <2> QED BY <2>1, <2>2
<1>o. i0 \in DOMAIN acc => old = acc[i0]
  OBVIOUS
<1> HIDE DEF old
<1>5. r.arguments = ArgumentsOf(C2, i0) /\ r \in ToolCalls
  <2>1. ArgumentsOf(C, i0) \in Seq(STRING) /\ ArgumentsOf(C2, i0) = ArgumentsOf(C, i0) \o d.arguments
    BY <1>d, <1>3
  <2> DEFINE w == old.arguments \o d.arguments
  <2>2. w \in Seq(STRING) /\ w = ArgumentsOf(C2, i0)
    <3>1. ArgumentsOf(C, i0) \o d.arguments \in Seq(STRING)
      BY <1>d, <2>1, ConcatProperties
    <3> QED BY <2>1, <3>1, <1>4
  <2> HIDE DEF w
  <2>p. w \in Seq(Pieces)
    <3>1. STRING \subseteq Pieces
      BY DEF Pieces
    <3> QED BY <2>2, <3>1, SeqMonotonic
  <2>3. /\ (IF d.id # Absent THEN d.id ELSE old.id) \in Texts
        /\ (IF d.name # Absent THEN d.name ELSE old.name) \in Texts
    BY <1>4, <1>d DEF Texts
  <2>4. r = [id |-> IF d.id # Absent THEN d.id ELSE old.id,
             name |-> IF d.name # Absent THEN d.name ELSE old.name, arguments |-> w]
    BY DEF w
  <2> QED BY <2>2, <2>3, <2>4, <2>p DEF ToolCalls
<1>6. r.id = IF d.id # Absent THEN d.id ELSE old.id
  OBVIOUS
<1> HIDE DEF r, n
<1>7. /\ DOMAIN n = DOMAIN acc \cup {i0} /\ n[i0] = r
      /\ \A i \in DOMAIN acc : i # i0 => n[i] = acc[i]
  BY <1>1 DEF Put
<1> HIDE DEF C2, i0
<1>8. DOMAIN n = Indices(C2) /\ IsFiniteSet(Indices(C2)) /\ Indices(C2) \subseteq Nat
  <2>1. IsFiniteSet(Indices(C) \cup {i0})
    BY FS_AddElement DEF Gathers
  <2> QED BY <2>1, <1>2, <1>7, <1>d DEF Gathers
<1>9. ASSUME NEW i \in Indices(C2) PROVE n[i] \in ToolCalls /\ n[i].arguments = ArgumentsOf(C2, i)
  <2>1. CASE i = i0
    BY <2>1, <1>5, <1>7
  <2>2. CASE i # i0
    <3>1. i \in Indices(C) /\ i \in Nat /\ i \in DOMAIN acc
      BY <2>2, <1>2 DEF Gathers
    <3>2. n[i] \in ToolCalls /\ n[i].arguments = ArgumentsOf(C, i)
      BY <2>2, <3>1, <1>7 DEF Gathers
    <3> DEFINE u == ArgumentsOf(C, i)
    <3>3. u \in Seq(STRING) /\ ArgumentsOf(C2, i) = u \o <<>>
      BY <2>2, <3>1, <1>3
    <3> HIDE DEF u
    <3>4. u \o <<>> = u
      BY <3>3, ConcatEmptySeq
    <3> QED BY <3>2, <3>3, <3>4 DEF u
  <2> QED BY <2>1, <2>2
<1>10. ASSUME OneIdEach(C2), NEW j \in 1..Len(C2), C2[j].id # Absent
       PROVE  n[C2[j].index].id = C2[j].id
  <2>1. CASE j = Len(C) + 1
    <3>1. C2[j].index = i0 /\ d.id # Absent /\ C2[j].id = d.id
      BY <2>1, <1>2, <1>10 DEF i0
    <3> QED BY <3>1, <1>6, <1>7
  <2>2. CASE j \in 1..Len(C)
    <3>1. C2[j] = C[j] /\ C[j].index \in Indices(C) /\ C[j].index \in DOMAIN acc
      BY <2>2, <1>2 DEF Indices, Gathers
    <3>2. acc[C[j].index].id = C[j].id
      BY <2>2, <3>1, <1>2, <1>10 DEF Gathers
    <3>3. CASE C[j].index = i0
      <4>1. d.id = Absent
        <5>1. ASSUME d.id # Absent PROVE FALSE
          <6>1. Len(C) + 1 \in 1..Len(C2) /\ C2[Len(C) + 1].id # Absent
                /\ C2[Len(C) + 1].index = C2[j].index
            BY <3>1, <3>3, <5>1, <1>2 DEF i0
          <6>2. Len(C) + 1 = j
            BY <6>1, <1>10 DEF OneIdEach
          <6> QED BY <6>2, <2>2, <1>2
        <5> QED BY <5>1
      <4>2. old = acc[i0]
        BY <3>1, <3>3, <1>o
      <4> QED BY <3>1, <3>2, <3>3, <4>1, <4>2, <1>6, <1>7
    <3>4. CASE C[j].index # i0
      BY <3>1, <3>2, <3>4, <1>7
    <3> QED BY <3>3, <3>4
  <2> QED BY <2>1, <2>2, <1>2
<1> QED BY <1>8, <1>9, <1>10 DEF Gathers, C2, n

\* ... and so all of them.
LEMMA IngestedGathers ==
  ASSUME NEW C \in Seq(CallFragments)
  PROVE  Gathers(Ingested(<<>>, C), C)
<1> DEFINE b == <<>>
           G == {c \in Seq(CallFragments) : Gathers(Ingested(b, c), c)}
<1>1. <<>> \in G
  <2>1. Ingested(b, <<>>) = b
    BY IngestedEmpty
  <2>2. Indices(<<>>) = {} /\ Len(<<>>) = 0 /\ DOMAIN b = {} /\ <<>> \in Seq(CallFragments)
    BY EmptySeq DEF Indices
  <2>3. IsFiniteSet({})
    BY FS_EmptySet
  <2>4. Gathers(b, <<>>)
    <3>1. DOMAIN b = Indices(<<>>) /\ IsFiniteSet(Indices(<<>>)) /\ Indices(<<>>) \subseteq Nat
      BY <2>2, <2>3
    <3>2. \A i \in Indices(<<>>) : FALSE
      BY <2>2
    <3>3. \A j \in 1..Len(<<>>) : FALSE
      BY <2>2
    <3> HIDE DEF b
    <3> QED BY <3>1, <3>2, <3>3, Zenon DEF Gathers
  <2> QED BY <2>1, <2>2, <2>4
<1> HIDE DEF b
<1>2. ASSUME NEW c \in Seq(CallFragments), NEW d \in CallFragments, c \in G PROVE Append(c, d) \in G
  <2>1. Ingested(b, Append(c, d)) = ingest(Ingested(b, c), d)
    BY IngestedAppend
  <2>2. Append(c, d) \in Seq(CallFragments)
    BY AppendProperties
  <2>3. Gathers(ingest(Ingested(b, c), d), Append(c, d))
    BY <1>2, IngestStep
  <2> QED BY <2>1, <2>2, <2>3
<1> HIDE DEF G
<1>3. C \in G
  BY <1>1, <1>2, SeqInduction
<1> QED BY <1>3 DEF G, b

\* The calls to run, in the order of their index.
LEMMA FinalizeFacts ==
  ASSUME NEW acc, NEW C \in Seq(CallFragments), Gathers(acc, C)
  PROVE  LET order == Listed(Indices(C))
             calls == finalize(acc)
         IN /\ Len(order) \in Nat /\ calls \in Seq(ToolCalls) /\ Len(calls) = Len(order)
            /\ \A k \in 1..Len(order) :
                 /\ order[k] \in Indices(C)
                 /\ calls[k].id = acc[order[k]].id
                 /\ calls[k].arguments = ParsedArguments(ArgumentsOf(C, order[k]))
<1> DEFINE S == Indices(C)
           order == Listed(S)
           calls == finalize(acc)
<1>0. S \subseteq Nat /\ IsFiniteSet(S) /\ DOMAIN acc = S
  BY DEF Gathers
<1>1. Cardinality(S) \in Nat /\ \A n \in 1..Cardinality(S) : \E i \in S : Rank(S, i) = n
  BY <1>0, RankFacts
<1>2. Len(order) = Cardinality(S)
  <2>1. order \in Seq(S)
    BY <1>1, IsASeq DEF Listed
  <2> QED BY <1>1, <2>1, LenProperties DEF Listed
<1>3. \A k \in 1..Len(order) : order[k] \in S
  BY <1>1, <1>2 DEF Listed
<1>4. calls = [k \in 1..Len(order) |-> [acc[order[k]] EXCEPT !.arguments = ParsedArguments(@)]]
  BY <1>0, Zenon DEF finalize
<1> HIDE DEF order, S
<1>5. ASSUME NEW k \in 1..Len(order)
      PROVE  LET c == [acc[order[k]] EXCEPT !.arguments = ParsedArguments(@)]
             IN /\ c \in ToolCalls /\ c.id = acc[order[k]].id
                /\ c.arguments = ParsedArguments(ArgumentsOf(C, order[k]))
  <2> DEFINE a == acc[order[k]]
             p == ParsedArguments(a.arguments)
  <2>1. a \in ToolCalls /\ a.arguments = ArgumentsOf(C, order[k])
    BY <1>3 DEF Gathers, S
  <2>2. p \in Seq(Pieces)
    <3>1. a.arguments \in Seq(Pieces)
      BY <2>1 DEF ToolCalls
    <3>2. ASSUME NEW Z, NEW v \in Z PROVE <<v>> \in Seq(Z)
      OBVIOUS
    <3>3. <<"null">> \in Seq(Pieces)
      <4>1. "null" \in Pieces
        BY DEF Pieces
      <4> QED BY <3>2, <4>1
    <3> QED BY <3>1, <3>3 DEF ParsedArguments
  <2> HIDE DEF a, p
  <2>3. /\ [a EXCEPT !.arguments = p] \in ToolCalls
        /\ [a EXCEPT !.arguments = p].id = a.id
        /\ [a EXCEPT !.arguments = p].arguments = p
    BY <2>1, <2>2 DEF ToolCalls
  <2> QED BY <2>1, <2>3 DEF a, p
<1>6. calls \in Seq(ToolCalls) /\ Len(calls) = Len(order)
  <2>1. Len(order) \in Nat
    BY <1>1, <1>2
  <2> DEFINE g == [k \in 1..Len(order) |-> [acc[order[k]] EXCEPT !.arguments = ParsedArguments(@)]]
  <2>2. \A k \in 1..Len(order) : g[k] \in ToolCalls
    BY <1>5
  <2>3. DOMAIN g = 1..Len(order)
    OBVIOUS
  <2>4. g = [k \in 1..Len(order) |-> g[k]]
    OBVIOUS
  <2> HIDE DEF g
  <2>5. g \in Seq(ToolCalls)
    BY <2>1, <2>2, <2>4, IsASeq
  <2>6. Len(g) = Len(order)
    BY <2>1, <2>3, <2>5, LenProperties
  <2> QED BY <1>4, <2>5, <2>6 DEF g
<1>7. \A k \in 1..Len(order) : /\ calls[k].id = acc[order[k]].id
                               /\ calls[k].arguments = ParsedArguments(ArgumentsOf(C, order[k]))
  BY <1>4, <1>5
<1> QED BY <1>1, <1>2, <1>3, <1>6, <1>7 DEF order, S

\* A finish reason.
LEMMA FinishType ==
  ASSUME NEW acc, NEW C \in Seq(CallFragments), Gathers(acc, C), NEW reason
  PROVE  map_stream_finish_reason(reason, acc) \in Finishes
<1>1. finalize(acc) \in Seq(ToolCalls) /\ <<>> \in Seq(ToolCalls)
  BY FinalizeFacts, EmptySeq
<1>2. \A c \in Seq(ToolCalls) : /\ Finish("Stop", c) \in Finishes /\ Finish("MaxTokens", c) \in Finishes
                            /\ Finish("ToolUse", c) \in Finishes /\ Finish("Error", c) \in Finishes
  BY DEF Finish, Finishes
<1> QED BY <1>1, <1>2 DEF map_stream_finish_reason

-----------------------------------------------------------------------------
(* Lines through the decoder *)

\* What the decoder passes on is well formed.
LEMMA ChunkEvents ==
  /\ \A t \in Seq(STRING) : Event("content", Absent, t) \in Chunks
  /\ \A d \in CallFragments : Event("call", Absent, d) \in Chunks
  /\ \A u \in Nat : Event("usage", Absent, u) \in Chunks
  /\ \A v \in Finishes : Event("done", Absent, v) \in Chunks
  /\ Event("error", Absent, <<>>) \in Chunks
<1>0. <<>> \in Seq(STRING)
  BY EmptySeq
<1>1. /\ Absent \in Texts /\ Seq(STRING) \subseteq Datas /\ CallFragments \subseteq Datas
      /\ Nat \subseteq Datas /\ Finishes \subseteq Datas
  BY DEF Texts, Datas
<1> QED BY <1>0, <1>1 DEF Chunks, Evs, Event

\* What may not get worse.
Keeps(x, y) ==
  /\ y.an.outcome = "open" => x.an.outcome = "open"
  /\ HasDone(y.es) => HasDone(x.es)
  /\ Ordered(x.es) => Ordered(y.es)

\* A chunk's text, ...
LEMMA ContentStage ==
  ASSUME NEW ad, AdapterOK(ad), NEW es \in Seq(Evs), NEW an, ContentMax \in Nat,
         NEW P \in Seq(Chunks), NEW C \in Seq(CallFragments), NEW T \in Seq(STRING), NEW U, NEW V,
         Carries(Polled(ad, es, an, P), C, T, U, V), NEW text \in Seq(STRING)
  PROVE  LET P1 == P \o (IF text = <<>> THEN <<>> ELSE <<Event("content", Absent, text)>>)
         IN /\ P1 \in Seq(Chunks) /\ T \o text \in Seq(STRING)
            /\ Carries(Polled(ad, es, an, P1), C, T \o text, U, V)
            /\ Keeps(Polled(ad, es, an, P), Polled(ad, es, an, P1))
<1> DEFINE e == Event("content", Absent, text)
           x == Polled(ad, es, an, P)
<1>0. T \o text \in Seq(STRING)
  BY ConcatProperties
<1>1. CASE text = <<>>
  <2>1. P \o <<>> = P /\ T \o <<>> = T
    BY ConcatEmptySeq
  <2> HIDE DEF x
  <2>2. Keeps(x, x)
    BY DEF Keeps
  <2> QED BY <1>0, <1>1, <2>1, <2>2 DEF x
<1>2. CASE text # <<>>
  <2>1. e \in Chunks /\ e.kind = "content" /\ e.data = text
    BY ChunkEvents DEF Event
  <2> HIDE DEF e
  <2> DEFINE P1 == Append(P, e)
  <2>2. P1 \in Seq(Chunks) /\ P \o <<e>> = P1
    BY <2>1, AppendProperties, AppendIsConcat
  <2>3. Polled(ad, es, an, P1) = Push(x, e)
    BY <2>1, PolledSteps
  <2>4. CallsAfter(C, e) = C /\ TextAfter(T, e) = T \o text /\ UsageAfter(U, e) = U /\ FinishAfter(V, e) = V
    BY <2>1 DEF CallsAfter, TextAfter, UsageAfter, FinishAfter
  <2> HIDE DEF x, P1
  <2>5. /\ Carries(Push(x, e), C, T \o text, U, V)
        /\ Push(x, e).an.outcome = "open" => x.an.outcome = "open"
        /\ HasDone(Push(x, e).es) => HasDone(x.es) \/ e.kind = "done"
        /\ Ordered(x.es) /\ (e.kind = "usage" => ~HasDone(x.es)) => Ordered(Push(x, e).es)
    <3>1. Carries(x, C, T, U, V)
      BY DEF x
    <3> QED BY <2>1, <2>4, <3>1, PushCarries
  <2>6. Keeps(x, Push(x, e))
    BY <2>1, <2>5 DEF Keeps
  <2> QED BY <1>0, <1>2, <2>2, <2>3, <2>5, <2>6 DEF x, e
<1> QED BY <1>1, <1>2

CallChunks(ds) == [k \in 1..Len(ds) |-> Event("call", Absent, ds[k])]

\* ... its fragments, ...
LEMMA CallStage ==
  ASSUME NEW ad, AdapterOK(ad), NEW es \in Seq(Evs), NEW an, ContentMax \in Nat,
         NEW P \in Seq(Chunks), NEW C \in Seq(CallFragments), NEW T \in Seq(STRING), NEW U, NEW V,
         Carries(Polled(ad, es, an, P), C, T, U, V), NEW ds \in Seq(CallFragments)
  PROVE  /\ P \o CallChunks(ds) \in Seq(Chunks) /\ C \o ds \in Seq(CallFragments)
         /\ Carries(Polled(ad, es, an, P \o CallChunks(ds)), C \o ds, T, U, V)
         /\ Keeps(Polled(ad, es, an, P), Polled(ad, es, an, P \o CallChunks(ds)))
<1> DEFINE h == [d \in CallFragments |-> Event("call", Absent, d)]
           x == Polled(ad, es, an, P)
           Good(Q, c) ==
             /\ Q \in Seq(Chunks) /\ P \o Q \in Seq(Chunks) /\ C \o c \in Seq(CallFragments)
             /\ Carries(Polled(ad, es, an, P \o Q), C \o c, T, U, V)
             /\ Keeps(x, Polled(ad, es, an, P \o Q))
           G == {c \in Seq(CallFragments) : Good(CallChunks(c), c)}
<1>h. h \in [CallFragments -> Chunks]
  BY ChunkEvents
<1>m. ASSUME NEW c \in Seq(CallFragments) PROVE CallChunks(c) = Mapped(h, c)
  <2>1. \A k \in 1..Len(c) : c[k] \in CallFragments
    BY ElementOfSeq
  <2> QED BY <2>1 DEF CallChunks, Mapped
<1>1. <<>> \in G
  <2>1. CallChunks(<<>>) = <<>> /\ <<>> \in Seq(CallFragments) /\ <<>> \in Seq(Chunks)
    BY EmptySeq DEF CallChunks
  <2>2. P \o <<>> = P /\ C \o <<>> = C
    BY ConcatEmptySeq
  <2>3. Keeps(x, x)
    BY DEF Keeps
  <2> HIDE DEF h
  <2>4. Good(<<>>, <<>>)
    BY <2>1, <2>2, <2>3
  <2> QED BY <2>1, <2>4
<1>2. ASSUME NEW c \in Seq(CallFragments), NEW d \in CallFragments, c \in G PROVE Append(c, d) \in G
  <2> DEFINE e == Event("call", Absent, d)
             Q == CallChunks(c)
             W == P \o Q
             D == C \o c
             c2 == Append(c, d)
  <2>1. e \in Chunks /\ e.kind = "call" /\ e.data = d
    BY ChunkEvents DEF Event
  <2>2. CallChunks(c2) = Append(Q, e) /\ c2 \in Seq(CallFragments)
    <3>1. h[d] = e
      OBVIOUS
    <3> HIDE DEF h, e
    <3>2. Mapped(h, Append(c, d)) = Append(Mapped(h, c), h[d])
      BY <1>h, MappedAppend
    <3>3. c2 \in Seq(CallFragments)
      BY AppendProperties
    <3> QED BY <3>1, <3>2, <3>3, <1>m, Zenon
  <2>3. Good(Q, c)
    BY <1>2
  <2> HIDE DEF e, h
  <2>4. P \o Append(Q, e) = Append(W, e) /\ Append(Q, e) \in Seq(Chunks)
    BY <2>1, <2>3, ConcatSimplifications, AppendProperties
  <2>5. C \o c2 = Append(D, d)
    BY ConcatSimplifications
  <2> HIDE DEF W, D, c2, Q, x
  <2>6. W \in Seq(Chunks) /\ D \in Seq(CallFragments) /\ Carries(Polled(ad, es, an, W), D, T, U, V)
        /\ Keeps(x, Polled(ad, es, an, W))
    BY <2>3 DEF W, D
  <2> DEFINE y == Polled(ad, es, an, W)
  <2>7. Polled(ad, es, an, Append(W, e)) = Push(y, e)
    BY <2>1, <2>6, PolledSteps
  <2>8. CallsAfter(D, e) = Append(D, d) /\ TextAfter(T, e) = T /\ UsageAfter(U, e) = U /\ FinishAfter(V, e) = V
    BY <2>1 DEF CallsAfter, TextAfter, UsageAfter, FinishAfter
  <2> HIDE DEF y
  <2>9. /\ Carries(Push(y, e), Append(D, d), T, U, V)
        /\ Push(y, e).an.outcome = "open" => y.an.outcome = "open"
        /\ HasDone(Push(y, e).es) => HasDone(y.es) \/ e.kind = "done"
        /\ Ordered(y.es) /\ (e.kind = "usage" => ~HasDone(y.es)) => Ordered(Push(y, e).es)
    <3>1. Carries(y, D, T, U, V)
      BY <2>6 DEF y
    <3> QED BY <2>1, <2>6, <2>8, <3>1, PushCarries
  <2>10. Keeps(x, Push(y, e))
    <3>1. Keeps(x, y)
      BY <2>6 DEF y
    <3> QED BY <2>1, <2>9, <3>1 DEF Keeps
  <2>11. Append(W, e) \in Seq(Chunks) /\ Append(D, d) \in Seq(CallFragments)
    BY <2>1, <2>6, AppendProperties
  <2>12. Good(Append(Q, e), c2)
    BY <2>4, <2>5, <2>7, <2>9, <2>10, <2>11
  <2> HIDE DEF Good
  <2>13. c2 \in G
    BY <2>2, <2>12
  <2> QED BY <2>13 DEF c2
<1> HIDE DEF G
<1>3. ds \in G
  BY <1>1, <1>2, SeqInduction
<1> QED BY <1>3 DEF G

\* ... and a finish reason held back so far.
LEMMA FlushStage ==
  ASSUME NEW ad, AdapterOK(ad), NEW es \in Seq(Evs), NEW an, ContentMax \in Nat,
         NEW P \in Seq(Chunks), NEW C \in Seq(CallFragments), NEW T \in Seq(STRING), NEW U, NEW V,
         Carries(Polled(ad, es, an, P), C, T, U, V), NEW v \in Finishes, NEW h,
         (h = <<>> /\ V = v) \/ h = <<v>>
  PROVE  LET P1 == P \o [k \in 1..Len(h) |-> Event("done", Absent, h[k])]
             x == Polled(ad, es, an, P)
             y == Polled(ad, es, an, P1)
         IN /\ P1 \in Seq(Chunks) /\ Carries(y, C, T, U, v)
            /\ y.an.outcome = "open" => x.an.outcome = "open"
            /\ Ordered(x.es) => Ordered(y.es)
<1> DEFINE e == Event("done", Absent, v)
           x == Polled(ad, es, an, P)
           D == [k \in 1..Len(h) |-> Event("done", Absent, h[k])]
<1>1. CASE h = <<>> /\ V = v
  <2>1. D = <<>> /\ P \o <<>> = P
    BY <1>1, ConcatEmptySeq
  <2> HIDE DEF D, x
  <2>2. P \o D = P
    BY <2>1
  <2> QED BY <1>1, <2>2 DEF D, x
<1>2. CASE h = <<v>>
  <2>1. e \in Chunks /\ e.kind = "done" /\ e.data = v
    BY ChunkEvents DEF Event
  <2>d. D = <<e>>
    BY <1>2
  <2> HIDE DEF e, D
  <2> DEFINE P1 == Append(P, e)
  <2>2. P1 \in Seq(Chunks) /\ P \o D = P1
    BY <2>1, <2>d, AppendProperties, AppendIsConcat
  <2>3. Polled(ad, es, an, P1) = Push(x, e)
    BY <2>1, PolledSteps
  <2>4. CallsAfter(C, e) = C /\ TextAfter(T, e) = T /\ UsageAfter(U, e) = U /\ FinishAfter(V, e) = v
    BY <2>1 DEF CallsAfter, TextAfter, UsageAfter, FinishAfter
  <2> HIDE DEF x, P1
  <2>5. /\ Carries(Push(x, e), C, T, U, v)
        /\ Push(x, e).an.outcome = "open" => x.an.outcome = "open"
        /\ Ordered(x.es) /\ (e.kind = "usage" => ~HasDone(x.es)) => Ordered(Push(x, e).es)
    <3>1. Carries(x, C, T, U, V)
      BY DEF x
    <3> QED BY <2>1, <2>4, <3>1, PushCarries
  <2> QED BY <2>1, <2>2, <2>3, <2>5 DEF x, D
<1> QED BY <1>1, <1>2

\* There is always a finish reason to pass on.
LEMMA FinishOfType ==
  ASSUME NEW K \in Seq(WireLines)
  PROVE  FinishOf(K) \in Finishes
<1> DEFINE G == {w \in Seq(WireLines) : FinishOf(w) \in Finishes}
<1>1. <<>> \in G
  <2>1. <<>> \in Seq(ToolCalls) /\ <<>> \in Seq(WireLines)
    BY EmptySeq
  <2>2. Finish("Stop", <<>>) \in Finishes
    BY <2>1 DEF Finish, Finishes
  <2> QED BY <2>1, <2>2, FinishStep
<1>2. ASSUME NEW w \in Seq(WireLines), NEW l \in WireLines, w \in G PROVE Append(w, l) \in G
  <2>1. Append(w, l) \in Seq(WireLines)
    BY AppendProperties
  <2>2. FragmentsIn(Append(w, l)) \in Seq(CallFragments)
    BY <2>1, LinesGather
  <2>3. Gathers(Sent(Append(w, l)), FragmentsIn(Append(w, l)))
    BY <2>2, IngestedGathers DEF Sent
  <2>4. map_stream_finish_reason(l.finish, Sent(Append(w, l))) \in Finishes
    BY <2>2, <2>3, FinishType
  <2>5. FinishOf(Append(w, l)) = IF l.finish = Absent THEN FinishOf(w)
                                ELSE map_stream_finish_reason(l.finish, Sent(Append(w, l)))
    BY FinishStep
  <2> QED BY <1>2, <2>1, <2>4, <2>5
<1> HIDE DEF G
<1>3. K \in G
  BY <1>1, <1>2, SeqInduction
<1> QED BY <1>3 DEF G

OnceUsage(K) == \A j, k \in 1..Len(K) : K[j].usage # 0 /\ K[k].usage # 0 => j = k
Clean(K) == \A k \in 1..Len(K) : K[k].kind # "bad"

\* A line that is no chunk carries nothing.
CleanLines ==
  {l \in WireLines :
     l.kind # "chunk" => /\ l.content = <<>> /\ l.calls = <<>>
                         /\ l.finish = Absent /\ l.usage = 0}

\* What one more line adds.
LEMMA LineAdded ==
  ASSUME NEW K \in Seq(WireLines), NEW l \in WireLines
  PROVE  LET L == Append(K, l) IN
         /\ L \in Seq(WireLines)
         /\ TextIn(L) = TextIn(K) \o l.content
         /\ FragmentsIn(L) = FragmentsIn(K) \o l.calls
         /\ UsageOf(L) = IF l.usage = 0 THEN UsageOf(K) ELSE l.usage
         /\ Sent(L) = Ingested(Sent(K), l.calls)
         /\ FinishOf(L) = IF l.finish = Absent THEN FinishOf(K)
                          ELSE map_stream_finish_reason(l.finish, Sent(L))
         /\ Clean(L) <=> Clean(K) /\ l.kind # "bad"
         /\ OnceUsage(L) => OnceUsage(K) /\ (l.usage # 0 => UsageLines(K) = {})
         /\ UsageLines(K) # {} => UsageLines(L) # {}
         /\ l.usage # 0 => UsageLines(L) # {}
<1> DEFINE L == Append(K, l)
<1>1. /\ L \in Seq(WireLines) /\ Len(L) = Len(K) + 1 /\ Len(K) \in Nat
      /\ L[Len(K) + 1] = l /\ \A k \in 1..Len(K) : L[k] = K[k]
  BY Beginnings
<1>2. TextIn(L) = TextIn(K) \o l.content /\ FragmentsIn(L) = FragmentsIn(K) \o l.calls
  BY LinesGather
<1>3. /\ UsageOf(L) = IF l.usage = 0 THEN UsageOf(K) ELSE l.usage
      /\ FinishOf(L) = IF l.finish = Absent THEN FinishOf(K)
                       ELSE map_stream_finish_reason(l.finish, Sent(L))
  BY UsageStep, FinishStep
<1>4. Sent(L) = Ingested(Sent(K), l.calls)
  <2>1. FragmentsIn(K) \in Seq(CallFragments) /\ l.calls \in Seq(CallFragments)
    BY LinesGather DEF WireLines
  <2> QED BY <1>2, <2>1, IngestedConcat DEF Sent
<1> HIDE DEF L
<1>5. \A k : k \in 1..Len(L) <=> k \in 1..Len(K) \/ k = Len(K) + 1
  BY <1>1
<1>6. Clean(L) <=> Clean(K) /\ l.kind # "bad"
  BY <1>1, <1>5 DEF Clean
<1>7. OnceUsage(L) => OnceUsage(K) /\ (l.usage # 0 => UsageLines(K) = {})
  <2> SUFFICES ASSUME OnceUsage(L) PROVE OnceUsage(K) /\ (l.usage # 0 => UsageLines(K) = {})
    OBVIOUS
  <2>1. OnceUsage(K)
    BY <1>1, <1>5 DEF OnceUsage
  <2>2. ASSUME l.usage # 0, NEW k \in UsageLines(K) PROVE FALSE
    <3>1. k \in 1..Len(K) /\ K[k].usage # 0
      BY <2>2 DEF UsageLines
    <3>2. L[k].usage # 0 /\ L[Len(K) + 1].usage # 0
      BY <3>1, <2>2, <1>1
    <3>3. k = Len(K) + 1
      BY <3>1, <3>2, <1>5 DEF OnceUsage
    <3> QED BY <3>1, <3>3, <1>1
  <2> QED BY <2>1, <2>2
<1>8. (UsageLines(K) # {} => UsageLines(L) # {}) /\ (l.usage # 0 => UsageLines(L) # {})
  BY <1>1, <1>5 DEF UsageLines
<1> QED BY <1>1, <1>2, <1>3, <1>4, <1>6, <1>7, <1>8 DEF L

\* The decoder after the lines K, none of them [DONE], with what is pending in x.
LineInv(K, st, x) ==
  /\ K \in Seq(WireLines) /\ st.pending \in Seq(Chunks)
  /\ st = [pending |-> st.pending, acc |-> Sent(K), finish |-> st.finish, finished |-> FALSE]
  /\ st.finish = <<>> \/ st.finish = <<FinishOf(K)>>
  /\ Carries(x, FragmentsIn(K), TextIn(K), UsageOf(K),
             IF st.finish = <<>> THEN FinishOf(K) ELSE x.an.finish)
  /\ x.an.outcome = "open" => Clean(K)
  /\ HasDone(x.es) => UsageLines(K) # {}
  /\ OnceUsage(K) => Ordered(x.es)

\* The decoder once it has finished with them.
EndInv(K, st, x) ==
  /\ K \in Seq(WireLines) /\ st.pending \in Seq(Chunks)
  /\ st = [pending |-> st.pending, acc |-> st.acc, finish |-> <<>>, finished |-> TRUE]
  /\ Carries(x, FragmentsIn(K), TextIn(K), UsageOf(K), FinishOf(K))
  /\ x.an.outcome = "open" => Clean(K)
  /\ OnceUsage(K) => Ordered(x.es)

\* A line that carries nothing changes nothing, ...
LEMMA QuietLine ==
  ASSUME NEW K \in Seq(WireLines), NEW l \in CleanLines, l.kind # "chunk"
  PROVE  LET L == Append(K, l) IN
         /\ TextIn(L) = TextIn(K) /\ FragmentsIn(L) = FragmentsIn(K) /\ Sent(L) = Sent(K)
         /\ UsageOf(L) = UsageOf(K) /\ FinishOf(L) = FinishOf(K)
<1> DEFINE L == Append(K, l)
<1>0. l \in WireLines /\ l.content = <<>> /\ l.calls = <<>> /\ l.finish = Absent /\ l.usage = 0
  BY DEF CleanLines
<1>1. /\ TextIn(L) = TextIn(K) \o l.content
      /\ FragmentsIn(L) = FragmentsIn(K) \o l.calls
      /\ UsageOf(L) = IF l.usage = 0 THEN UsageOf(K) ELSE l.usage
      /\ Sent(L) = Ingested(Sent(K), l.calls)
      /\ FinishOf(L) = IF l.finish = Absent THEN FinishOf(K)
                       ELSE map_stream_finish_reason(l.finish, Sent(L))
  BY <1>0, LineAdded
<1>2. TextIn(K) \in Seq(STRING) /\ FragmentsIn(K) \in Seq(CallFragments)
  BY LinesGather
<1> HIDE DEF L
<1>3. TextIn(K) \o <<>> = TextIn(K) /\ FragmentsIn(K) \o <<>> = FragmentsIn(K)
  BY <1>2, ConcatEmptySeq
<1>4. Ingested(Sent(K), <<>>) = Sent(K)
  BY IngestedEmpty
<1> QED BY <1>0, <1>1, <1>3, <1>4 DEF L

\* ... neither before the end ...
LEMMA SkipStep ==
  ASSUME NEW K, NEW st, NEW x, LineInv(K, st, x), NEW l \in CleanLines, l.kind = "skip"
  PROVE  LineInv(Append(K, l), st, x)
<1> DEFINE L == Append(K, l)
<1>0. K \in Seq(WireLines) /\ l \in WireLines
  BY DEF LineInv, CleanLines
<1>1. /\ TextIn(L) = TextIn(K) /\ FragmentsIn(L) = FragmentsIn(K) /\ Sent(L) = Sent(K)
      /\ UsageOf(L) = UsageOf(K) /\ FinishOf(L) = FinishOf(K)
  BY <1>0, QuietLine
<1>2. /\ L \in Seq(WireLines)
      /\ Clean(L) <=> Clean(K) /\ l.kind # "bad"
      /\ OnceUsage(L) => OnceUsage(K)
      /\ UsageLines(K) # {} => UsageLines(L) # {}
  BY <1>0, LineAdded
<1> HIDE DEF L
<1>3. LineInv(L, st, x)
  <2>1. st = [pending |-> st.pending, acc |-> Sent(L), finish |-> st.finish, finished |-> FALSE]
    BY <1>1, Zenon DEF LineInv
  <2> QED BY <2>1, <1>1, <1>2 DEF LineInv
<1> QED BY <1>3 DEF L

\* ... nor after it.
LEMMA SkipEnd ==
  ASSUME NEW K, NEW st, NEW x, EndInv(K, st, x), NEW l \in CleanLines, l.kind = "skip"
  PROVE  EndInv(Append(K, l), st, x)
<1> DEFINE L == Append(K, l)
<1>0. K \in Seq(WireLines) /\ l \in WireLines
  BY DEF EndInv, CleanLines
<1>1. /\ TextIn(L) = TextIn(K) /\ FragmentsIn(L) = FragmentsIn(K)
      /\ UsageOf(L) = UsageOf(K) /\ FinishOf(L) = FinishOf(K)
  BY <1>0, QuietLine
<1>2. /\ L \in Seq(WireLines)
      /\ Clean(L) <=> Clean(K) /\ l.kind # "bad"
      /\ OnceUsage(L) => OnceUsage(K)
  BY <1>0, LineAdded
<1> HIDE DEF L
<1>3. EndInv(L, st, x)
  BY <1>1, <1>2 DEF EndInv
<1> QED BY <1>3 DEF L

\* A failure is passed on last: nothing is open any more.
LEMMA FailStage ==
  ASSUME NEW ad, AdapterOK(ad), NEW es \in Seq(Evs), NEW an, ContentMax \in Nat,
         NEW P \in Seq(Chunks), NEW C \in Seq(CallFragments), NEW T \in Seq(STRING), NEW U, NEW V,
         Carries(Polled(ad, es, an, P), C, T, U, V)
  PROVE  LET P1 == Append(P, Event("error", Absent, <<>>))
             x == Polled(ad, es, an, P)
             y == Polled(ad, es, an, P1)
         IN /\ P1 \in Seq(Chunks) /\ y.an.outcome # "open" /\ y.an.outcome # "ok"
            /\ \A v : Carries(y, C, T, U, v)
            /\ HasDone(y.es) => HasDone(x.es)
            /\ Ordered(x.es) => Ordered(y.es)
<1> DEFINE e == Event("error", Absent, <<>>)
           x == Polled(ad, es, an, P)
<1>1. e \in Chunks /\ e.kind = "error"
  BY ChunkEvents DEF Event
<1> HIDE DEF e
<1> DEFINE P1 == Append(P, e)
<1>2. P1 \in Seq(Chunks)
  BY <1>1, AppendProperties
<1>3. Polled(ad, es, an, P1) = Push(x, e)
  BY <1>1, PolledSteps
<1>4. CallsAfter(C, e) = C /\ TextAfter(T, e) = T /\ UsageAfter(U, e) = U /\ FinishAfter(V, e) = V
  BY <1>1 DEF CallsAfter, TextAfter, UsageAfter, FinishAfter
<1> HIDE DEF x, P1
<1>5. /\ Carries(Push(x, e), C, T, U, V) /\ Push(x, e).an.outcome # "open"
      /\ HasDone(Push(x, e).es) => HasDone(x.es) \/ e.kind = "done"
      /\ Ordered(x.es) /\ (e.kind = "usage" => ~HasDone(x.es)) => Ordered(Push(x, e).es)
  <2>1. Carries(x, C, T, U, V)
    BY DEF x
  <2> QED BY <1>1, <1>4, <2>1, PushCarries
<1>6. \A v : Carries(Push(x, e), C, T, U, v)
  BY <1>5 DEF Carries
<1>7. Push(x, e).an.outcome # "ok"
  BY <1>5 DEF Carries
<1> QED BY <1>1, <1>2, <1>3, <1>5, <1>6, <1>7 DEF x, e, P1

Decoder(p, a, h) == [pending |-> p, acc |-> a, finish |-> h, finished |-> FALSE]
Finished(p, a, h) == [pending |-> p, acc |-> a, finish |-> h, finished |-> TRUE]
DoneEvents(h) == [k \in 1..Len(h) |-> Event("done", Absent, h[k])]

\* What is done to a decoder, field by field.
LEMMA DecoderForms ==
  ASSUME NEW p, NEW a, NEW h
  PROVE  /\ Failed(Decoder(p, a, h)) = Decoder(Append(p, Event("error", Absent, <<>>)), a, h)
         /\ Ended(Decoder(p, a, h)) = Finished(p, a, h)
         /\ flush_pending_finish(Decoder(p, a, h)) = Decoder(p \o DoneEvents(h), a, <<>>)
         /\ Ended(Finished(p, a, h)) = Finished(p, a, h)
         /\ flush_pending_finish(Finished(p, a, h)) = Finished(p \o DoneEvents(h), a, <<>>)
<1> DEFINE D(f) == [pending |-> p, acc |-> a, finish |-> h, finished |-> f]
           e == Event("error", Absent, <<>>)
           Q == DoneEvents(h)
<1>2. ASSUME NEW f, NEW t PROVE [D(f) EXCEPT !.finished = t] = D(t)
  OBVIOUS
<1>3. ASSUME NEW f PROVE Failed(D(f)) = [pending |-> Append(p, e), acc |-> a, finish |-> h, finished |-> f]
  <2>1. Failed(D(f)) = [D(f) EXCEPT !.pending = Append(@, e)]
    BY Zenon DEF Failed
  <2> HIDE DEF e
  <2> QED BY <2>1
<1>4. ASSUME NEW f
      PROVE  flush_pending_finish(D(f)) = [pending |-> p \o Q, acc |-> a, finish |-> <<>>, finished |-> f]
  <2> DEFINE st == D(f)
  <2>0. st.finish = h
    OBVIOUS
  <2>1. flush_pending_finish(st) = [st EXCEPT !.pending = @ \o DoneEvents(st.finish), !.finish = <<>>]
    BY Zenon DEF flush_pending_finish, DoneEvents
  <2>2. DoneEvents(st.finish) = Q
    BY <2>0
  <2> HIDE DEF Q
  <2>3. flush_pending_finish(st) = [st EXCEPT !.pending = @ \o Q, !.finish = <<>>]
    BY <2>1, <2>2
  <2> QED BY <2>3
<1> DEFINE no == FALSE
           yes == TRUE
<1>5. Decoder(p, a, h) = D(no) /\ Finished(p, a, h) = D(yes)
  BY DEF Decoder, Finished
<1>6. /\ Ended(D(no)) = [D(no) EXCEPT !.finished = yes]
      /\ Ended(D(yes)) = [D(yes) EXCEPT !.finished = yes]
  BY Zenon DEF Ended
<1>7. \A q, g : /\ Decoder(q, a, g) = [pending |-> q, acc |-> a, finish |-> g, finished |-> no]
                /\ Finished(q, a, g) = [pending |-> q, acc |-> a, finish |-> g, finished |-> yes]
  BY DEF Decoder, Finished
<1> HIDE DEF no, yes
<1>8. Failed(D(no)) = [pending |-> Append(p, e), acc |-> a, finish |-> h, finished |-> no]
  BY <1>3
<1>9. /\ flush_pending_finish(D(no)) = [pending |-> p \o Q, acc |-> a, finish |-> <<>>, finished |-> no]
      /\ flush_pending_finish(D(yes)) = [pending |-> p \o Q, acc |-> a, finish |-> <<>>, finished |-> yes]
  BY <1>4
<1>10. [D(no) EXCEPT !.finished = yes] = D(yes) /\ [D(yes) EXCEPT !.finished = yes] = D(yes)
  BY <1>2
<1> HIDE DEF D, e, Q
<1> QED BY <1>5, <1>6, <1>7, <1>8, <1>9, <1>10, Zenon DEF e, Q

\* The pieces of a state the stages are about.
LEMMA LineTypes ==
  ASSUME NEW K, NEW st, NEW x, LineInv(K, st, x)
  PROVE  /\ K \in Seq(WireLines) /\ st.pending \in Seq(Chunks)
         /\ FragmentsIn(K) \in Seq(CallFragments) /\ TextIn(K) \in Seq(STRING)
         /\ FinishOf(K) \in Finishes
         /\ Carries(x, FragmentsIn(K), TextIn(K), UsageOf(K),
                    IF st.finish = <<>> THEN FinishOf(K) ELSE x.an.finish)
<1>1. K \in Seq(WireLines)
  BY DEF LineInv
<1>2. FragmentsIn(K) \in Seq(CallFragments) /\ TextIn(K) \in Seq(STRING)
  BY <1>1, LinesGather
<1>3. FinishOf(K) \in Finishes
  BY <1>1, FinishOfType
<1> QED BY <1>1, <1>2, <1>3 DEF LineInv

\* Data that is no chunk fails the stream.
LEMMA BadStep ==
  ASSUME NEW ad, AdapterOK(ad), NEW es \in Seq(Evs), NEW an, ContentMax \in Nat,
         NEW K, NEW st, LineInv(K, st, Polled(ad, es, an, st.pending)),
         NEW l \in CleanLines, l.kind = "bad"
  PROVE  LineInv(Append(K, l), Failed(st), Polled(ad, es, an, Failed(st).pending))
<1> DEFINE L == Append(K, l)
           P == st.pending
           e == Event("error", Absent, <<>>)
           P1 == Append(P, e)
           x == Polled(ad, es, an, P)
           y == Polled(ad, es, an, P1)
           V == IF st.finish = <<>> THEN FinishOf(K) ELSE x.an.finish
           T == TextIn(K)
           C == FragmentsIn(K)
<1>0. /\ K \in Seq(WireLines) /\ l \in WireLines /\ P \in Seq(Chunks)
      /\ C \in Seq(CallFragments) /\ T \in Seq(STRING) /\ Carries(x, C, T, UsageOf(K), V)
  BY LineTypes DEF CleanLines
<1>1. /\ TextIn(L) = TextIn(K) /\ FragmentsIn(L) = FragmentsIn(K) /\ Sent(L) = Sent(K)
      /\ UsageOf(L) = UsageOf(K) /\ FinishOf(L) = FinishOf(K)
  BY <1>0, QuietLine
<1>2. /\ L \in Seq(WireLines)
      /\ OnceUsage(L) => OnceUsage(K)
      /\ UsageLines(K) # {} => UsageLines(L) # {}
  BY <1>0, LineAdded
<1>g. st = Decoder(P, Sent(K), st.finish)
  BY DEF LineInv, Decoder
<1>f. Failed(st) = Decoder(P1, Sent(K), st.finish)
  <2> HIDE DEF P, e
  <2>1. Failed(Decoder(P, Sent(K), st.finish)) = Decoder(P1, Sent(K), st.finish)
    BY DecoderForms DEF e
  <2> QED BY <2>1, <1>g
<1> HIDE DEF L, e, V, T, C
<1>3. /\ P1 \in Seq(Chunks) /\ y.an.outcome # "open"
      /\ \A v : Carries(y, C, T, UsageOf(K), v)
      /\ HasDone(y.es) => HasDone(x.es)
      /\ Ordered(x.es) => Ordered(y.es)
  BY <1>0, FailStage DEF e
<1>4. /\ HasDone(x.es) => UsageLines(K) # {}
      /\ OnceUsage(K) => Ordered(x.es)
      /\ st.finish = <<>> \/ st.finish = <<FinishOf(K)>>
  BY DEF LineInv
<1> DEFINE st2 == Decoder(P1, Sent(K), st.finish)
<1> HIDE DEF x, y, P, P1
<1>5. LineInv(L, st2, y)
  BY <1>1, <1>2, <1>3, <1>4 DEF LineInv, C, T, Decoder
<1>6. Failed(st).pending = P1
  BY <1>f DEF Decoder
<1> QED BY <1>5, <1>6, <1>f DEF y, L

\* A failure that ends the stream, ...
LEMMA FailEnd ==
  ASSUME NEW ad, AdapterOK(ad), NEW es \in Seq(Evs), NEW an, ContentMax \in Nat,
         NEW K, NEW st, LineInv(K, st, Polled(ad, es, an, st.pending))
  PROVE  LET y == Polled(ad, es, an, Append(st.pending, Event("error", Absent, <<>>)))
         IN /\ Append(st.pending, Event("error", Absent, <<>>)) \in Seq(Chunks)
            /\ AdapterOK(y.ad) /\ Announced(y.ad, y.es) /\ y.an \in Answers
            /\ y.an.outcome # "open" /\ y.an.outcome # "ok"
            /\ OnceUsage(K) => Ordered(y.es)
<1> DEFINE P == st.pending
           x == Polled(ad, es, an, P)
           V == IF st.finish = <<>> THEN FinishOf(K) ELSE x.an.finish
           T == TextIn(K)
           C == FragmentsIn(K)
           e == Event("error", Absent, <<>>)
           P1 == Append(P, e)
           y == Polled(ad, es, an, P1)
<1>0. P \in Seq(Chunks) /\ C \in Seq(CallFragments) /\ T \in Seq(STRING) /\ Carries(x, C, T, UsageOf(K), V)
  BY LineTypes
<1> HIDE DEF e, V, T, C
<1>3. /\ P1 \in Seq(Chunks) /\ y.an.outcome # "open" /\ y.an.outcome # "ok"
      /\ \A v : Carries(y, C, T, UsageOf(K), v)
      /\ Ordered(x.es) => Ordered(y.es)
  BY <1>0, FailStage DEF e
<1>4. OnceUsage(K) => Ordered(x.es)
  BY DEF LineInv
<1> HIDE DEF x, y, P1
<1>5. AdapterOK(y.ad) /\ Announced(y.ad, y.es) /\ y.an \in Answers
  BY <1>3 DEF Carries
<1> QED BY <1>3, <1>4, <1>5 DEF y, P1, e, P

\* ... and the end upstream sends, or makes by closing.
LEMMA CloseEnd ==
  ASSUME NEW ad, AdapterOK(ad), NEW es \in Seq(Evs), NEW an, ContentMax \in Nat,
         NEW K, NEW st, LineInv(K, st, Polled(ad, es, an, st.pending))
  PROVE  LET st2 == Ended(flush_pending_finish(st))
         IN EndInv(K, st2, Polled(ad, es, an, st2.pending))
<1> DEFINE P == st.pending
           h == st.finish
           x == Polled(ad, es, an, P)
           v == FinishOf(K)
           V == IF h = <<>> THEN v ELSE x.an.finish
           T == TextIn(K)
           C == FragmentsIn(K)
           P1 == P \o DoneEvents(h)
           y == Polled(ad, es, an, P1)
           st2 == Finished(P1, Sent(K), <<>>)
<1>0. /\ K \in Seq(WireLines) /\ P \in Seq(Chunks) /\ v \in Finishes
      /\ C \in Seq(CallFragments) /\ T \in Seq(STRING) /\ Carries(x, C, T, UsageOf(K), V)
  BY LineTypes
<1>1. (h = <<>> /\ V = v) \/ h = <<v>>
  BY DEF LineInv
<1>f. Ended(flush_pending_finish(st)) = st2
  <2>1. st = Decoder(P, Sent(K), h)
    BY DEF LineInv, Decoder
  <2> HIDE DEF P, h
  <2>2. flush_pending_finish(Decoder(P, Sent(K), h)) = Decoder(P1, Sent(K), <<>>)
    BY DecoderForms
  <2>3. Ended(Decoder(P1, Sent(K), <<>>)) = st2
    BY DecoderForms
  <2> QED BY <2>1, <2>2, <2>3
<1>4. (x.an.outcome = "open" => Clean(K)) /\ (OnceUsage(K) => Ordered(x.es))
  BY DEF LineInv
<1> HIDE DEF V, T, C, v, h
<1>3. /\ P1 \in Seq(Chunks) /\ Carries(y, C, T, UsageOf(K), v)
      /\ y.an.outcome = "open" => x.an.outcome = "open"
      /\ Ordered(x.es) => Ordered(y.es)
  BY <1>0, <1>1, FlushStage, SMTT(60) DEF DoneEvents
<1> HIDE DEF x, y, P1
<1>5. EndInv(K, st2, y)
  BY <1>0, <1>3, <1>4 DEF EndInv, C, T, v, Finished
<1>6. st2.pending = P1
  BY DEF Finished
<1> HIDE DEF st2
<1> QED BY <1>5, <1>6, <1>f DEF y

ContentChunks(t) == IF t = <<>> THEN <<>> ELSE <<Event("content", Absent, t)>>
HeldFinish(h, a, l) == IF l.finish = Absent THEN h ELSE <<map_stream_finish_reason(l.finish, a)>>

\* A chunk, field by field.
LEMMA ChunkForms ==
  ASSUME NEW p, NEW a, NEW h, NEW l \in WireLines
  PROVE  LET p2 == (p \o ContentChunks(l.content)) \o CallChunks(l.calls)
             a2 == Ingested(a, l.calls)
             h2 == HeldFinish(h, a2, l)
             u == Event("usage", Absent, l.usage)
         IN process_chunk(Decoder(p, a, h), l)
              = IF l.usage = 0 THEN Decoder(p2, a2, h2)
                ELSE Decoder(Append(p2, u) \o DoneEvents(h2), a2, <<>>)
<1> DEFINE st == Decoder(p, a, h)
           c1 == ContentChunks(l.content)
           c2 == CallChunks(l.calls)
           p2 == (p \o c1) \o c2
           a2 == Ingested(a, l.calls)
           h2 == HeldFinish(h, a2, l)
           u == Event("usage", Absent, l.usage)
           read == [st EXCEPT !.pending = (@ \o c1) \o c2, !.acc = a2, !.finish = PendingFinish(st, a2, l)]
<1>0. st.acc = a /\ st.finish = h
  BY DEF Decoder
<1>1. process_chunk(st, l) = IF l.usage = 0 THEN read
                             ELSE flush_pending_finish([read EXCEPT !.pending = Append(@, u)])
  <2>1. FoldLeft(ingest, st.acc, l.calls) = a2
    BY <1>0, Zenon DEF Ingested
  <2> HIDE DEF a2, st
  <2>2. process_chunk(st, l) =
          LET r == [st EXCEPT
                !.pending = @ \o (IF l.content = <<>> THEN <<>>
                                  ELSE <<Event("content", Absent, l.content)>>)
                              \o [k \in 1..Len(l.calls) |-> Event("call", Absent, l.calls[k])],
                !.acc = FoldLeft(ingest, st.acc, l.calls),
                !.finish = PendingFinish(st, FoldLeft(ingest, st.acc, l.calls), l)]
          IN IF l.usage = 0 THEN r ELSE flush_pending_finish([r EXCEPT !.pending = Append(@, u)])
    BY DEF process_chunk
  <2>3. process_chunk(st, l) =
          LET r == [st EXCEPT !.pending = @ \o c1 \o c2, !.acc = a2, !.finish = PendingFinish(st, a2, l)]
          IN IF l.usage = 0 THEN r ELSE flush_pending_finish([r EXCEPT !.pending = Append(@, u)])
    BY <2>1, <2>2 DEF ContentChunks, CallChunks
  <2> QED BY <2>3
<1>2. PendingFinish(st, a2, l) = h2
  BY <1>0 DEF PendingFinish, HeldFinish
<1> DEFINE no == FALSE
<1>n. \A q, b, g : Decoder(q, b, g) = [pending |-> q, acc |-> b, finish |-> g, finished |-> no]
  BY DEF Decoder
<1> HIDE DEF c1, c2, a2, h2, u, no
<1>3. read = Decoder(p2, a2, h2)
  <2>1. read = [st EXCEPT !.pending = (@ \o c1) \o c2, !.acc = a2, !.finish = h2]
    BY <1>2
  <2>2. st = [pending |-> p, acc |-> a, finish |-> h, finished |-> no]
    BY <1>n
  <2> HIDE DEF read
  <2>3. read = [[pending |-> p, acc |-> a, finish |-> h, finished |-> no]
                  EXCEPT !.pending = (@ \o c1) \o c2, !.acc = a2, !.finish = h2]
    BY <2>1, <2>2
  <2>4. read = [pending |-> p2, acc |-> a2, finish |-> h2, finished |-> no]
    BY <2>3
  <2> QED BY <2>4, <1>n
<1> HIDE DEF p2, read
<1>4. [read EXCEPT !.pending = Append(@, u)] = Decoder(Append(p2, u), a2, h2)
  <2>1. read = [pending |-> p2, acc |-> a2, finish |-> h2, finished |-> no]
    BY <1>3, <1>n
  <2>2. [read EXCEPT !.pending = Append(@, u)]
          = [pending |-> Append(p2, u), acc |-> a2, finish |-> h2, finished |-> no]
    BY <2>1
  <2> QED BY <2>2, <1>n
<1>5. flush_pending_finish(Decoder(Append(p2, u), a2, h2)) = Decoder(Append(p2, u) \o DoneEvents(h2), a2, <<>>)
  BY DecoderForms
<1> HIDE DEF st
<1>6. process_chunk(st, l) = IF l.usage = 0 THEN Decoder(p2, a2, h2)
                ELSE Decoder(Append(p2, u) \o DoneEvents(h2), a2, <<>>)
  BY <1>1, <1>3, <1>4, <1>5, Zenon
<1> QED BY <1>6, Zenon DEF st, c1, c2, p2, a2, h2, u

\* A chunk's usage.
LEMMA UsageStage ==
  ASSUME NEW ad, AdapterOK(ad), NEW es \in Seq(Evs), NEW an, ContentMax \in Nat,
         NEW P \in Seq(Chunks), NEW C \in Seq(CallFragments), NEW T \in Seq(STRING), NEW U, NEW V,
         Carries(Polled(ad, es, an, P), C, T, U, V), NEW n \in Nat
  PROVE  LET P1 == Append(P, Event("usage", Absent, n))
             x == Polled(ad, es, an, P)
             y == Polled(ad, es, an, P1)
         IN /\ P1 \in Seq(Chunks) /\ Carries(y, C, T, n, V)
            /\ y.an.outcome = "open" => x.an.outcome = "open"
            /\ Ordered(x.es) /\ ~HasDone(x.es) => Ordered(y.es)
<1> DEFINE e == Event("usage", Absent, n)
           x == Polled(ad, es, an, P)
<1>1. e \in Chunks /\ e.kind = "usage" /\ e.data = n
  BY ChunkEvents DEF Event
<1> HIDE DEF e
<1> DEFINE P1 == Append(P, e)
<1>2. P1 \in Seq(Chunks)
  BY <1>1, AppendProperties
<1>3. Polled(ad, es, an, P1) = Push(x, e)
  BY <1>1, PolledSteps
<1>4. CallsAfter(C, e) = C /\ TextAfter(T, e) = T /\ UsageAfter(U, e) = n /\ FinishAfter(V, e) = V
  BY <1>1 DEF CallsAfter, TextAfter, UsageAfter, FinishAfter
<1> HIDE DEF x, P1
<1>5. /\ Carries(Push(x, e), C, T, n, V)
      /\ Push(x, e).an.outcome = "open" => x.an.outcome = "open"
      /\ Ordered(x.es) /\ (e.kind = "usage" => ~HasDone(x.es)) => Ordered(Push(x, e).es)
  <2>1. Carries(x, C, T, U, V)
    BY DEF x
  <2> QED BY <1>1, <1>4, <2>1, PushCarries
<1> QED BY <1>1, <1>2, <1>3, <1>5 DEF x, e, P1

\* A chunk: its text, its fragments, its finish reason and its usage.
LEMMA ChunkStep ==
  ASSUME NEW ad, AdapterOK(ad), NEW es \in Seq(Evs), NEW an, ContentMax \in Nat,
         NEW K, NEW st, LineInv(K, st, Polled(ad, es, an, st.pending)),
         NEW l \in WireLines, l.kind = "chunk"
  PROVE  LET st2 == process_chunk(st, l)
         IN LineInv(Append(K, l), st2, Polled(ad, es, an, st2.pending))
<1> DEFINE L == Append(K, l)
           h == st.finish
           P0 == st.pending
           x0 == Polled(ad, es, an, P0)
           V0 == IF h = <<>> THEN FinishOf(K) ELSE x0.an.finish
           C == FragmentsIn(K)
           T == TextIn(K)
           U == UsageOf(K)
           P1 == P0 \o ContentChunks(l.content)
           x1 == Polled(ad, es, an, P1)
           P2 == P1 \o CallChunks(l.calls)
           x2 == Polled(ad, es, an, P2)
           a2 == Ingested(Sent(K), l.calls)
           h2 == HeldFinish(h, a2, l)
           e == Event("usage", Absent, l.usage)
           P3 == Append(P2, e)
           x3 == Polled(ad, es, an, P3)
           P4 == P3 \o DoneEvents(h2)
           x4 == Polled(ad, es, an, P4)
           v == FinishOf(L)
           V == IF h2 = <<>> THEN v ELSE x2.an.finish
<1>0. /\ K \in Seq(WireLines) /\ P0 \in Seq(Chunks) /\ FinishOf(K) \in Finishes
      /\ C \in Seq(CallFragments) /\ T \in Seq(STRING) /\ Carries(x0, C, T, U, V0)
  BY LineTypes
<1>l. l.content \in Seq(STRING) /\ l.calls \in Seq(CallFragments) /\ l.usage \in Nat
  BY DEF WireLines
<1>s. st = Decoder(P0, Sent(K), h)
  BY DEF LineInv, Decoder
<1>i. /\ h = <<>> \/ h = <<FinishOf(K)>>
      /\ x0.an.outcome = "open" => Clean(K)
      /\ HasDone(x0.es) => UsageLines(K) # {}
      /\ OnceUsage(K) => Ordered(x0.es)
  BY DEF LineInv
<1>a. /\ L \in Seq(WireLines)
      /\ TextIn(L) = T \o l.content
      /\ FragmentsIn(L) = C \o l.calls
      /\ UsageOf(L) = IF l.usage = 0 THEN U ELSE l.usage
      /\ Sent(L) = a2
      /\ v = IF l.finish = Absent THEN FinishOf(K) ELSE map_stream_finish_reason(l.finish, a2)
      /\ Clean(L) <=> Clean(K) /\ l.kind # "bad"
      /\ OnceUsage(L) => OnceUsage(K) /\ (l.usage # 0 => UsageLines(K) = {})
      /\ UsageLines(K) # {} => UsageLines(L) # {}
      /\ l.usage # 0 => UsageLines(L) # {}
  BY <1>0, LineAdded
<1>v. v \in Finishes
  BY <1>a, FinishOfType
<1>p. process_chunk(st, l) = IF l.usage = 0 THEN Decoder(P2, a2, h2) ELSE Decoder(P4, a2, <<>>)
  <2> HIDE DEF P0, h
  <2> QED BY <1>s, ChunkForms
<1> HIDE DEF L, h, V0, C, T, U, v
<1>1. /\ P1 \in Seq(Chunks) /\ T \o l.content \in Seq(STRING)
      /\ Carries(x1, C, T \o l.content, U, V0) /\ Keeps(x0, x1)
  BY <1>0, <1>l, ContentStage DEF ContentChunks
<1> HIDE DEF P0, P1
<1> DEFINE T2 == T \o l.content
           C2 == C \o l.calls
<1> HIDE DEF T2
<1>t. T2 \in Seq(STRING) /\ Carries(x1, C, T2, U, V0)
  BY <1>1 DEF T2
<1>2. /\ P2 \in Seq(Chunks) /\ C2 \in Seq(CallFragments)
      /\ Carries(x2, C2, T2, U, V0) /\ Keeps(x1, x2)
  <2> DEFINE ds == l.calls
  <2>1. ds \in Seq(CallFragments)
    BY <1>l
  <2>2. P2 = P1 \o CallChunks(ds) /\ C2 = C \o ds /\ P1 \in Seq(Chunks)
    BY <1>1
  <2> HIDE DEF ds, P2, C2
  <2>3. /\ P1 \o CallChunks(ds) \in Seq(Chunks) /\ C \o ds \in Seq(CallFragments)
        /\ Carries(Polled(ad, es, an, P1 \o CallChunks(ds)), C \o ds, T2, U, V0)
        /\ Keeps(Polled(ad, es, an, P1), Polled(ad, es, an, P1 \o CallChunks(ds)))
    BY <1>0, <1>t, <2>1, <2>2, CallStage
  <2> QED BY <2>2, <2>3
<1> HIDE DEF x0, x1, C2
<1>3. Keeps(x0, x2)
  BY <1>1, <1>2 DEF Keeps
<1>h. (h2 = <<>> /\ V = v) \/ h2 = <<v>>
  BY <1>a, <1>i DEF HeldFinish, h
<1>4. Carries(x2, C2, T2, U, V)
  <2>1. Carries(x2, C2, T2, U, x2.an.finish)
    BY <1>2 DEF Carries
  <2>2. CASE h2 = <<>>
    <3>1. V = v /\ h = <<>> /\ l.finish = Absent
      BY <2>2 DEF HeldFinish
    <3>2. V0 = v
      BY <3>1, <1>a DEF V0
    <3> QED BY <3>1, <3>2, <1>2
  <2>3. CASE h2 # <<>>
    BY <2>1, <2>3
  <2> QED BY <2>2, <2>3
<1>5. CASE l.usage = 0
  <2> DEFINE st2 == Decoder(P2, a2, h2)
  <2> HIDE DEF P2, x2, a2, h2
  <2>1. st2.pending = P2 /\ st2.finish = h2 /\ st2.acc = a2
    BY DEF Decoder
  <2>2. st2 = [pending |-> P2, acc |-> a2, finish |-> h2, finished |-> FALSE]
    BY DEF Decoder
  <2> HIDE DEF st2
  <2>3. /\ Carries(x2, FragmentsIn(L), TextIn(L), UsageOf(L), IF st2.finish = <<>> THEN FinishOf(L) ELSE x2.an.finish)
        /\ st2.finish = <<>> \/ st2.finish = <<FinishOf(L)>>
    BY <1>4, <1>5, <1>a, <1>h, <2>1 DEF C2, T2, v
  <2>4. /\ x2.an.outcome = "open" => Clean(L)
        /\ HasDone(x2.es) => UsageLines(L) # {}
        /\ OnceUsage(L) => Ordered(x2.es)
    BY <1>3, <1>a, <1>i DEF Keeps
  <2>5. LineInv(L, st2, x2)
    BY <1>2, <1>a, <2>1, <2>2, <2>3, <2>4 DEF LineInv
  <2>6. process_chunk(st, l) = st2
    BY <1>5, <1>p DEF st2
  <2> QED BY <2>1, <2>5, <2>6 DEF x2, L
<1>6. CASE l.usage # 0
  <2> DEFINE st2 == Decoder(P4, a2, <<>>)
             n == l.usage
  <2> HIDE DEF P2, a2, h2, V
  <2>0. n \in Nat
    BY <1>l
  <2>1. /\ P3 \in Seq(Chunks) /\ Carries(x3, C2, T2, n, V)
        /\ x3.an.outcome = "open" => x2.an.outcome = "open"
        /\ Ordered(x2.es) /\ ~HasDone(x2.es) => Ordered(x3.es)
    <3> HIDE DEF n
    <3>1. e = Event("usage", Absent, n)
      BY DEF n
    <3> HIDE DEF e
    <3> QED BY <1>2, <1>4, <1>t, <2>0, <3>1, UsageStage, SMTT(60)
  <2> HIDE DEF P3, x2, n, e
  <2>2. /\ P4 \in Seq(Chunks) /\ Carries(x4, C2, T2, n, v)
        /\ x4.an.outcome = "open" => x3.an.outcome = "open"
        /\ Ordered(x3.es) => Ordered(x4.es)
    <3>1. T2 \in Seq(STRING)
      BY <1>t
    <3>2. (h2 = <<>> /\ V = v) \/ h2 = <<v>>
      BY <1>h
    <3> QED BY <1>2, <1>v, <2>1, <3>1, <3>2, FlushStage, SMTT(60) DEF DoneEvents
  <2> HIDE DEF P4, x3, x4
  <2>3. st2.pending = P4 /\ st2.finish = <<>> /\ st2.acc = a2
    BY DEF Decoder
  <2>4. st2 = [pending |-> P4, acc |-> a2, finish |-> <<>>, finished |-> FALSE]
    BY DEF Decoder
  <2> HIDE DEF st2
  <2>5. Carries(x4, FragmentsIn(L), TextIn(L), UsageOf(L), FinishOf(L))
    BY <2>2, <1>6, <1>a DEF C2, T2, v, n
  <2>6. /\ x4.an.outcome = "open" => Clean(L)
        /\ HasDone(x4.es) => UsageLines(L) # {}
        /\ OnceUsage(L) => Ordered(x4.es)
    BY <1>3, <1>6, <1>a, <1>i, <2>1, <2>2 DEF Keeps
  <2>7. LineInv(L, st2, x4)
    BY <1>a, <2>2, <2>3, <2>4, <2>5, <2>6 DEF LineInv
  <2>8. process_chunk(st, l) = st2
    BY <1>6, <1>p DEF st2
  <2> QED BY <2>3, <2>7, <2>8 DEF x4, L
<1> QED BY <1>5, <1>6

\* The lines up to [DONE].
Dones(w) == {k \in 1..Len(w) : w[k].kind = "done"}
HasEnd(w) == Dones(w) # {}
Cut(w) ==
  LET upto == IF Dones(w) = {} THEN Len(w)
              ELSE (CHOOSE k \in Dones(w) : \A j \in Dones(w) : k <= j) - 1
  IN SubSeq(w, 1, upto)

\* There is a first [DONE], if any.
LEMMA FirstDone ==
  ASSUME NEW w \in Seq(WireLines), HasEnd(w)
  PROVE  LET d == CHOOSE k \in Dones(w) : \A j \in Dones(w) : k <= j
         IN d \in Dones(w) /\ \A j \in Dones(w) : d <= j
<1>1. Dones(w) \subseteq Nat /\ Dones(w) # {}
  BY DEF Dones, HasEnd
<1>2. \E k \in Dones(w) : \A j \in Dones(w) : k <= j
  BY <1>1, LeastOf
<1> QED BY <1>2

\* One more line before [DONE], [DONE] itself, and one more after it.
LEMMA CutSteps ==
  ASSUME NEW w \in Seq(WireLines), NEW l \in WireLines
  PROVE  LET L == Append(w, l) IN
         /\ ~HasEnd(w) => Cut(w) = w
         /\ HasEnd(L) <=> HasEnd(w) \/ l.kind = "done"
         /\ HasEnd(w) => Cut(L) = Cut(w)
         /\ ~HasEnd(w) /\ l.kind = "done" => Cut(L) = w
<1> DEFINE L == Append(w, l)
           n == Len(w)
<1>1. /\ L \in Seq(WireLines) /\ Len(L) = n + 1 /\ n \in Nat
      /\ L[n + 1] = l /\ \A k \in 1..n : L[k] = w[k]
      /\ \A f \in 0..n : SubSeq(L, 1, f) = SubSeq(w, 1, f)
  BY Beginnings
<1>2. SubSeq(w, 1, n) = w
  BY SubSeqFull
<1> HIDE DEF L
<1>3. Dones(L) = Dones(w) \cup (IF l.kind = "done" THEN {n + 1} ELSE {})
  BY <1>1 DEF Dones
<1>d. Dones(w) \subseteq 1..n
  BY DEF Dones
<1>4. ~HasEnd(w) => Cut(w) = w
  BY <1>2 DEF HasEnd, Cut
<1>5. HasEnd(L) <=> HasEnd(w) \/ l.kind = "done"
  BY <1>3 DEF HasEnd
<1>6. ASSUME HasEnd(w) PROVE Cut(L) = Cut(w)
  <2> DEFINE d == CHOOSE k \in Dones(w) : \A j \in Dones(w) : k <= j
             d2 == CHOOSE k \in Dones(L) : \A j \in Dones(L) : k <= j
  <2>1. d \in Dones(w) /\ \A j \in Dones(w) : d <= j
    BY <1>6, FirstDone
  <2>2. d2 \in Dones(L) /\ \A j \in Dones(L) : d2 <= j
    BY <1>6, <1>5, <1>1, FirstDone
  <2>c. Cut(L) = SubSeq(L, 1, d2 - 1) /\ Cut(w) = SubSeq(w, 1, d - 1)
    BY <1>6, <1>5 DEF HasEnd, Cut
  <2> HIDE DEF d, d2
  <2>3. d = d2
    BY <2>1, <2>2, <1>3, <1>1, <1>d
  <2>4. d - 1 \in 0..n
    BY <2>1, <1>d, <1>1
  <2> QED BY <2>c, <2>3, <2>4, <1>1
<1>7. ASSUME ~HasEnd(w), l.kind = "done" PROVE Cut(L) = w
  <2> DEFINE d2 == CHOOSE k \in Dones(L) : \A j \in Dones(L) : k <= j
  <2>1. Dones(L) = {n + 1}
    BY <1>3, <1>7 DEF HasEnd
  <2>2. d2 = n + 1
    BY <2>1
  <2>3. Cut(L) = SubSeq(L, 1, d2 - 1)
    BY <2>1 DEF Cut
  <2> HIDE DEF d2
  <2>4. d2 - 1 = n /\ n \in 0..n
    BY <2>2, <1>1
  <2> QED BY <2>3, <2>4, <1>1, <1>2
<1> QED BY <1>4, <1>5, <1>6, <1>7 DEF L

\* The decoder after the lines w.
Flow(w, st, x) ==
  /\ w \in Seq(WireLines)
  /\ st.finished => HasEnd(w) /\ EndInv(Cut(w), st, x)
  /\ ~st.finished => ~HasEnd(w) /\ LineInv(w, st, x)

\* One more line.
LEMMA FlowStep ==
  ASSUME NEW ad, AdapterOK(ad), NEW es \in Seq(Evs), NEW an, ContentMax \in Nat,
         NEW w, NEW st, Flow(w, st, Polled(ad, es, an, st.pending)), NEW l \in CleanLines
  PROVE  LET st2 == handle_sse_line(st, l)
         IN Flow(Append(w, l), st2, Polled(ad, es, an, st2.pending))
<1> DEFINE L == Append(w, l)
           st2 == handle_sse_line(st, l)
           X(s) == Polled(ad, es, an, s.pending)
<1>0. w \in Seq(WireLines) /\ l \in WireLines /\ L \in Seq(WireLines)
  BY AppendProperties DEF Flow, CleanLines
<1>1. /\ ~HasEnd(w) => Cut(w) = w
      /\ HasEnd(L) <=> HasEnd(w) \/ l.kind = "done"
      /\ HasEnd(w) => Cut(L) = Cut(w)
      /\ ~HasEnd(w) /\ l.kind = "done" => Cut(L) = w
  BY <1>0, CutSteps
<1>k. l.kind \in {"skip", "bad", "done", "chunk"}
  BY <1>0 DEF WireLines
<1>2. CASE st.finished
  <2>1. st2 = st
    BY <1>2 DEF handle_sse_line
  <2>2. HasEnd(w) /\ EndInv(Cut(w), st, X(st))
    BY <1>2 DEF Flow
  <2> HIDE DEF L, st2
  <2>3. Flow(L, st, X(st))
    BY <1>0, <1>1, <1>2, <2>2 DEF Flow
  <2>4. Flow(L, st2, X(st2))
    BY <2>1, <2>3
  <2> QED BY <2>4 DEF L, st2
<1>3. CASE ~st.finished
  <2>0. ~HasEnd(w) /\ LineInv(w, st, X(st))
    BY <1>3 DEF Flow
  <2>f. \A z, y : LineInv(z, y, X(y)) => ~y.finished
    BY DEF LineInv
  <2>e. \A z, y : EndInv(z, y, X(y)) => y.finished
    BY DEF EndInv
  <2>1. CASE l.kind = "skip"
    <3>1. st2 = st
      BY <2>1 DEF handle_sse_line
    <3>2. LineInv(L, st, X(st))
      BY <2>0, <2>1, SkipStep
    <3> HIDE DEF L, st2
    <3>3. Flow(L, st, X(st))
      BY <1>0, <1>1, <1>3, <2>0, <2>1, <3>2 DEF Flow
    <3>4. Flow(L, st2, X(st2))
      BY <3>1, <3>3
    <3> QED BY <3>4 DEF L, st2
  <2>2. CASE l.kind = "bad"
    <3>1. st2 = Failed(st)
      BY <2>2, <1>3 DEF handle_sse_line
    <3>2. LineInv(L, Failed(st), X(Failed(st)))
      BY <2>0, <2>2, BadStep
    <3> HIDE DEF L, st2
    <3>3. Flow(L, st2, X(st2))
      BY <1>0, <1>1, <2>f, <2>0, <2>2, <3>1, <3>2 DEF Flow
    <3> QED BY <3>3 DEF L, st2
  <2>3. CASE l.kind = "done"
    <3>1. st2 = Ended(flush_pending_finish(st))
      BY <2>3, <1>3 DEF handle_sse_line
    <3>2. EndInv(w, st2, X(st2))
      BY <2>0, <3>1, CloseEnd
    <3> HIDE DEF L, st2
    <3>3. Flow(L, st2, X(st2))
      BY <1>0, <1>1, <2>e, <2>0, <2>3, <3>2 DEF Flow
    <3> QED BY <3>3 DEF L, st2
  <2>4. CASE l.kind = "chunk"
    <3>1. st2 = process_chunk(st, l)
      BY <2>4, <1>3 DEF handle_sse_line
    <3>2. LineInv(L, st2, X(st2))
      BY <1>0, <2>0, <2>4, <3>1, ChunkStep
    <3> HIDE DEF L, st2
    <3>3. Flow(L, st2, X(st2))
      BY <1>0, <1>1, <2>f, <2>0, <2>4, <3>2 DEF Flow
    <3> QED BY <3>3 DEF L, st2
  <2> QED BY <2>1, <2>2, <2>3, <2>4, <1>k
<1> QED BY <1>2, <1>3

\* All the lines a network chunk completes.
LEMMA DecodedFlow ==
  ASSUME NEW ad, AdapterOK(ad), NEW es \in Seq(Evs), NEW an, ContentMax \in Nat,
         NEW w, NEW st, Flow(w, st, Polled(ad, es, an, st.pending)), NEW ls \in Seq(CleanLines)
  PROVE  LET st2 == Decoded(st, ls)
         IN Flow(w \o ls, st2, Polled(ad, es, an, st2.pending))
<1> DEFINE X(s) == Polled(ad, es, an, s.pending)
           G == {u \in Seq(CleanLines) : Flow(w \o u, Decoded(st, u), X(Decoded(st, u)))}
<1>0. w \in Seq(WireLines) /\ CleanLines \subseteq WireLines
  BY DEF Flow, CleanLines
<1>1. <<>> \in G
  <2>1. Decoded(st, <<>>) = st /\ w \o <<>> = w /\ <<>> \in Seq(CleanLines)
    BY <1>0, DecodedEmpty, ConcatEmptySeq, EmptySeq
  <2> QED BY <2>1
<1>2. ASSUME NEW u \in Seq(CleanLines), NEW l \in CleanLines, u \in G PROVE Append(u, l) \in G
  <2> DEFINE su == Decoded(st, u)
             st2 == handle_sse_line(su, l)
  <2>1. Decoded(st, Append(u, l)) = st2
    BY DecodedAppend
  <2>2. Append(u, l) \in Seq(CleanLines)
    BY AppendProperties
  <2>3. w \o Append(u, l) = Append(w \o u, l)
    <3>1. u \in Seq(WireLines) /\ l \in WireLines
      BY <1>0, SeqMonotonic
    <3> QED BY <1>0, <3>1, ConcatSimplifications
  <2>4. Flow(w \o u, su, X(su))
    BY <1>2
  <2> HIDE DEF su
  <2> DEFINE v == w \o u
  <2> HIDE DEF v
  <2>5. Flow(v, su, X(su))
    BY <2>4 DEF v
  <2>6. Flow(Append(v, l), st2, X(st2))
    BY <2>5, FlowStep
  <2> HIDE DEF st2
  <2>7. Flow(w \o Append(u, l), Decoded(st, Append(u, l)), X(Decoded(st, Append(u, l))))
    BY <2>1, <2>3, <2>6 DEF v
  <2> QED BY <2>2, <2>7
<1> HIDE DEF G
<1>3. ls \in G
  BY <1>1, <1>2, SeqInduction
<1> QED BY <1>3 DEF G

-----------------------------------------------------------------------------
(* Bytes and lines *)

\* What upstream sends is lines.
LEMMA WireFacts ==
  ASSUME StreamAssumption, wire \in Wires
  PROVE  /\ wire \in Seq(CleanLines) /\ wire \in Seq(WireLines) /\ Len(wire) \in Nat
         /\ \A k \in 1..Len(wire) : /\ wire[k] \in CleanLines /\ wire[k].bytes \in Nat
                                    /\ wire[k].bytes > 0
                                    /\ wire[k].bytes = 1 => wire[k].kind = "skip"
<1>1. /\ wire \in Seq(WireLines)
      /\ \A k \in 1..Len(wire) :
           /\ wire[k].bytes > 0 /\ (wire[k].bytes = 1 => wire[k].kind = "skip")
           /\ wire[k].kind # "chunk" => /\ wire[k].content = <<>> /\ wire[k].calls = <<>>
                                        /\ wire[k].finish = Absent /\ wire[k].usage = 0
  BY DEF StreamAssumption
<1>2. Len(wire) \in Nat /\ \A k \in 1..Len(wire) : wire[k] \in WireLines
  BY <1>1, LenProperties, ElementOfSeq
<1>3. \A k \in 1..Len(wire) : wire[k] \in CleanLines /\ wire[k].bytes \in Nat
  BY <1>1, <1>2 DEF CleanLines, WireLines
<1>4. wire = [k \in 1..Len(wire) |-> wire[k]]
  BY <1>1, LenProperties
<1>5. wire \in Seq(CleanLines)
  BY <1>2, <1>3, <1>4, IsASeq
<1> QED BY <1>1, <1>2, <1>3, <1>5

\* The first lines, one more of them, and those between.
LEMMA Firsts ==
  ASSUME NEW S, NEW s \in Seq(S)
  PROVE  /\ SubSeq(s, 1, 0) = <<>>
         /\ \A k \in 0..Len(s) : SubSeq(s, 1, k) \in Seq(S) /\ Len(SubSeq(s, 1, k)) = k
                                 /\ \A i \in 1..k : SubSeq(s, 1, k)[i] = s[i]
         /\ \A k \in 0..Len(s) : k < Len(s) =>
              SubSeq(s, 1, k + 1) = Append(SubSeq(s, 1, k), s[k + 1])
         /\ \A j, k \in 0..Len(s) : j <= k =>
              /\ SubSeq(s, j + 1, k) \in Seq(S)
              /\ SubSeq(s, 1, j) \o SubSeq(s, j + 1, k) = SubSeq(s, 1, k)
<1>0. Len(s) \in Nat /\ \A k \in 1..Len(s) : s[k] \in S
  BY LenProperties, ElementOfSeq
<1>1. SubSeq(s, 1, 0) = <<>>
  BY SubSeqEmpty
<1>2. ASSUME NEW k \in 0..Len(s)
      PROVE  /\ SubSeq(s, 1, k) \in Seq(S) /\ Len(SubSeq(s, 1, k)) = k
             /\ \A i \in 1..k : SubSeq(s, 1, k)[i] = s[i]
  <2>1. 1 \in Int /\ k \in Int /\ \A i \in 1..k : s[i] \in S
    BY <1>0
  <2>2. /\ SubSeq(s, 1, k) \in Seq(S)
        /\ Len(SubSeq(s, 1, k)) = IF 1 <= k THEN k - 1 + 1 ELSE 0
        /\ \A i \in 1..(k - 1 + 1) : SubSeq(s, 1, k)[i] = s[1 + i - 1]
    BY <2>1, SubSeqProperties
  <2>3. Len(SubSeq(s, 1, k)) = k /\ k - 1 + 1 = k /\ \A i \in 1..k : 1 + i - 1 = i
    BY <2>2, <1>0
  <2> QED BY <2>2, <2>3
<1>3. ASSUME NEW j \in 0..Len(s), NEW k \in 0..Len(s), j <= k
      PROVE  /\ SubSeq(s, j + 1, k) \in Seq(S)
             /\ SubSeq(s, 1, j) \o SubSeq(s, j + 1, k) = SubSeq(s, 1, k)
  <2>1. j + 1 \in Int /\ k \in Int /\ \A i \in (j + 1)..k : s[i] \in S
    BY <1>0
  <2>2. SubSeq(s, j + 1, k) \in Seq(S)
    BY <2>1, SubSeqProperties
  <2>3. 1 \in 1..Len(s) + 1 /\ j \in 1 - 1..Len(s) /\ k \in j..Len(s)
    BY <1>0, <1>3
  <2>4. SubSeq(s, 1, j) \o SubSeq(s, j + 1, k) = SubSeq(s, 1, k)
    BY <2>3, ConcatAdjacentSubSeq
  <2> QED BY <2>2, <2>4
<1>4. ASSUME NEW k \in 0..Len(s), k < Len(s)
      PROVE  SubSeq(s, 1, k + 1) = Append(SubSeq(s, 1, k), s[k + 1])
  <2>1. 1 \in 1..Len(s) /\ k + 1 \in 1..Len(s) /\ k + 1 - 1 = k
    BY <1>0, <1>4
  <2>2. SubSeq(s, 1, k + 1) = SubSeq(s, 1, k + 1 - 1) \o <<s[k + 1]>>
    BY <2>1, SubSeqRecursiveSecond
  <2>3. SubSeq(s, 1, k) \in Seq(S) /\ s[k + 1] \in S
    BY <1>0, <1>2, <2>1
  <2> DEFINE p == SubSeq(s, 1, k)
  <2> HIDE DEF p
  <2>4. p \o <<s[k + 1]>> = Append(p, s[k + 1])
    BY <2>3, AppendIsConcat DEF p
  <2> QED BY <2>1, <2>2, <2>4 DEF p
<1> QED BY <1>1, <1>2, <1>3, <1>4

\* Where lines end.
LEMMA LineEnds ==
  ASSUME StreamAssumption, wire \in Wires
  PROVE  /\ EndOf(0) = 0
         /\ \A k \in 0..Len(wire) : EndOf(k) \in Nat
         /\ \A k \in 0..Len(wire) : k < Len(wire) => EndOf(k + 1) = EndOf(k) + wire[k + 1].bytes
         /\ \A j, k \in 0..Len(wire) : j <= k => EndOf(j) <= EndOf(k)
<1> DEFINE N == Len(wire)
<1>0. /\ N \in Nat /\ wire \in Seq(WireLines)
      /\ \A k \in 1..N : wire[k] \in CleanLines /\ wire[k].bytes \in Nat /\ wire[k].bytes > 0
  BY WireFacts
<1>n. \A k : EndOf(k) = Summed(0, SubSeq(wire, 1, k))
  BY FoldNames
<1>1. EndOf(0) = 0
  <2>1. SubSeq(wire, 1, 0) = <<>>
    BY <1>0, Firsts
  <2> QED BY <1>n, <2>1, SummedEmpty
<1>2. ASSUME NEW k \in 0..N, k < N PROVE EndOf(k + 1) = EndOf(k) + wire[k + 1].bytes
  <2> DEFINE p == SubSeq(wire, 1, k)
  <2>1. p \in Seq(WireLines) /\ SubSeq(wire, 1, k + 1) = Append(p, wire[k + 1])
    BY <1>0, <1>2, Firsts
  <2>2. wire[k + 1] \in WireLines
    BY <1>0, <1>2 DEF CleanLines
  <2> HIDE DEF p
  <2>3. Summed(0, Append(p, wire[k + 1])) = Summed(0, p) + wire[k + 1].bytes
    BY <2>1, <2>2, SummedAppend
  <2> QED BY <1>n, <2>1, <2>3 DEF p
<1> DEFINE G == {m \in Nat : m <= N => \A j \in 0..m : EndOf(j) \in Nat /\ EndOf(j) <= EndOf(m)}
<1>3. 0 \in G
  BY <1>1
<1>4. ASSUME NEW m \in Nat, m \in G PROVE m + 1 \in G
  <2> SUFFICES ASSUME m + 1 <= N, NEW j \in 0..m + 1
               PROVE  EndOf(j) \in Nat /\ EndOf(j) <= EndOf(m + 1)
    BY <1>4
  <2>1. m \in 0..N /\ m < N /\ m + 1 \in 1..N /\ m \in 0..m
    BY <1>0
  <2> DEFINE b == EndOf(m)
             c == EndOf(m + 1)
  <2>2. c = b + wire[m + 1].bytes /\ wire[m + 1].bytes \in Nat
    BY <2>1, <1>0, <1>2
  <2>3. \A i \in 0..m : EndOf(i) \in Nat /\ EndOf(i) <= b
    BY <1>4, <2>1
  <2>4. j = m + 1 \/ j \in 0..m
    OBVIOUS
  <2> DEFINE a == EndOf(j)
  <2>5. b \in Nat /\ (j \in 0..m => a \in Nat /\ a <= b) /\ (j = m + 1 => a = c)
    BY <2>1, <2>3
  <2> HIDE DEF a, b, c
  <2>6. a \in Nat /\ a <= c
    BY <2>2, <2>4, <2>5
  <2> QED BY <2>6 DEF a, c
<1> HIDE DEF G
<1>5. \A m \in Nat : m \in G
  BY <1>3, <1>4, NaturalInduction
<1>6. \A k \in 0..N : EndOf(k) \in Nat /\ \A j \in 0..k : EndOf(j) <= EndOf(k)
  <2>1. ASSUME NEW k \in 0..N PROVE \A j \in 0..k : EndOf(j) \in Nat /\ EndOf(j) <= EndOf(k)
    <3>1. k \in Nat /\ k <= N
      BY <1>0
    <3> QED BY <3>1, <1>5 DEF G
  <2>2. \A k \in 0..N : k \in 0..k
    BY <1>0
  <2> QED BY <2>1, <2>2
<1>7. ASSUME NEW j \in 0..N, NEW k \in 0..N, j <= k PROVE EndOf(j) <= EndOf(k)
  <2>1. j \in 0..k
    BY <1>7
  <2> QED BY <2>1, <1>6
<1> QED BY <1>1, <1>2, <1>6, <1>7

\* The lines within the first n bytes, ...
LEMMA LinesAt ==
  ASSUME StreamAssumption, wire \in Wires, NEW n \in 0..EndOf(Len(wire))
  PROVE  /\ LinesIn(n) \in 0..Len(wire) /\ EndOf(LinesIn(n)) <= n
         /\ LinesIn(n) = Len(wire) \/ n < EndOf(LinesIn(n) + 1)
<1> DEFINE N == Len(wire)
           S == {k \in 0..N : k = N \/ n < EndOf(k + 1)}
<1>0. N \in Nat /\ EndOf(0) = 0 /\ \A k \in 0..N : EndOf(k) \in Nat
  BY WireFacts, LineEnds
<1>1. S \subseteq Nat /\ N \in S
  BY <1>0
<1>2. PICK k \in S : \A j \in S : k <= j
  BY <1>1, LeastOf
<1>3. k \in 0..N /\ (k = N \/ n < EndOf(k + 1))
  BY <1>2
<1>4. EndOf(k) <= n
  <2>1. CASE k = 0
    BY <2>1, <1>0
  <2>2. CASE k # 0
    <3>1. k - 1 \in 0..N /\ k - 1 # N /\ k - 1 + 1 = k /\ ~(k <= k - 1)
      BY <2>2, <1>3, <1>0
    <3>2. k - 1 \notin S
      BY <1>2, <3>1
    <3>3. ~(n < EndOf(k))
      BY <3>1, <3>2
    <3> QED BY <3>3, <1>0, <1>3
  <2> QED BY <2>1, <2>2
<1>5. \E z \in 0..N : EndOf(z) <= n /\ (z = N \/ n < EndOf(z + 1))
  BY <1>3, <1>4
<1> HIDE DEF S
<1> QED BY <1>5 DEF LinesIn

\* ... and more of them within more bytes.
LEMMA LinesGrow ==
  ASSUME StreamAssumption, wire \in Wires,
         NEW m \in 0..EndOf(Len(wire)), NEW n \in 0..EndOf(Len(wire)), m <= n
  PROVE  LinesIn(m) <= LinesIn(n)
<1> DEFINE N == Len(wire)
           a == LinesIn(m)
           b == LinesIn(n)
<1>0. N \in Nat /\ \A k \in 0..N : EndOf(k) \in Nat
  BY WireFacts, LineEnds
<1>1. a \in 0..N /\ EndOf(a) <= m
  BY LinesAt
<1>2. b \in 0..N /\ (b = N \/ n < EndOf(b + 1))
  BY LinesAt
<1> HIDE DEF a, b
<1>3. ASSUME b < a PROVE FALSE
  <2>1. b # N /\ b + 1 \in 0..N /\ b + 1 <= a
    BY <1>0, <1>1, <1>2, <1>3
  <2>2. EndOf(b + 1) <= EndOf(a)
    BY <2>1, <1>1, LineEnds
  <2>3. EndOf(b + 1) \in Nat /\ EndOf(a) \in Nat /\ n < EndOf(b + 1) /\ EndOf(a) <= m
    BY <2>1, <1>0, <1>1, <1>2
  <2> QED BY <2>2, <2>3
<1> QED BY <1>1, <1>2, <1>3, <1>0 DEF a, b

-----------------------------------------------------------------------------
(* The stream's invariant *)

\* What is fixed by the lines alone.
LEMMA Unmoved ==
  ASSUME wire' = wire
  PROVE  /\ \A k : EndOf(k)' = EndOf(k)
         /\ \A n : LinesIn(n)' = LinesIn(n)
<1>1. \A k : EndOf(k)' = EndOf(k)
  BY DEF EndOf
<1>2. \A n : LinesIn(n)' = LinesIn(n)
  <2> TAKE n
  <2>1. LinesIn(n)' = CHOOSE k \in 0..Len(wire') :
                EndOf(k)' <= n /\ (k = Len(wire') \/ n < EndOf(k + 1)')
    BY DEF LinesIn
  <2> QED BY <1>1, <2>1 DEF LinesIn
<1> QED BY <1>1, <1>2

Now == [ad |-> adapter, es |-> events, an |-> answer, over |-> FALSE]
Lines(n) == SubSeq(wire, 1, LinesIn(n))

\* A round that goes on has all of the lines K.
Complete(K, x) ==
  /\ K \in Seq(WireLines) /\ Clean(K)
  /\ x.an.content = TextIn(K) /\ Len(TextIn(K)) <= ContentMax
  /\ x.an.usage = UsageOf(K) /\ x.an.finish = FinishOf(K)
  /\ OneIdEach(FragmentsIn(K)) => Tracks(x.ad, x.es, FragmentsIn(K))

StreamInv ==
  /\ wire \in Wires /\ got \in 0..EndOf(Len(wire))
  /\ decoder = [pending |-> <<>>, acc |-> decoder.acc, finish |-> decoder.finish,
                finished |-> decoder.finished]
  /\ decoder.finished \in BOOLEAN
  /\ AdapterOK(adapter) /\ Announced(adapter, events) /\ answer \in Answers
  /\ OnceUsage(wire) => Ordered(events)
  /\ Reading => ~HasEnd(Lines(got)) /\ LineInv(Lines(got), decoder, Now)
  /\ answer.outcome = "ok" => decoder.finished /\ Complete(Counted, Now)

\* A poll, in one.
LEMMA PollForms ==
  ASSUME NEW st, Polls(st)
  PROVE  LET x == Polled(adapter, events, answer, st.pending)
         IN /\ decoder' = [st EXCEPT !.pending = <<>>] /\ adapter' = x.ad /\ events' = x.es
            /\ answer' = Assembled(x.an, st)
<1> DEFINE as == Adapted(Start(adapter), st.pending)
           x == Polled(adapter, events, answer, st.pending)
<1>1. /\ decoder' = [st EXCEPT !.pending = <<>>]
      /\ adapter' = as.adapter
      /\ events' = events \o as.out
      /\ answer' = Assembled(Took(answer, as.out), st)
  BY Zenon DEF Polls, Adapted, Took, Start
<1> HIDE DEF as
<1>2. x = [ad |-> as.adapter, es |-> events \o as.out, an |-> Took(answer, as.out), over |-> as.over]
  BY Zenon DEF Polled, as
<1> HIDE DEF x
<1>3. x.ad = as.adapter /\ x.es = events \o as.out /\ x.an = Took(answer, as.out)
  BY <1>2
<1> QED BY <1>1, <1>3, Zenon DEF x

\* What is pending in a poll is well formed: what it does to an answer that does
\* not end, ...
LEMMA PollOpen ==
  ASSUME NEW K, NEW st, NEW x, LineInv(K, st, x)
  PROVE  LET d == [st EXCEPT !.pending = <<>>]
             y == [ad |-> x.ad, es |-> x.es, an |-> x.an, over |-> FALSE]
         IN /\ d = [pending |-> <<>>, acc |-> d.acc, finish |-> d.finish, finished |-> d.finished]
            /\ d.finished = FALSE /\ Assembled(x.an, st) = x.an
            /\ AdapterOK(x.ad) /\ Announced(x.ad, x.es) /\ x.an \in Answers
            /\ x.an.outcome # "ok"
            /\ OnceUsage(K) => Ordered(x.es)
            /\ x.an.outcome = "open" => LineInv(K, d, y)
<1> DEFINE d == [st EXCEPT !.pending = <<>>]
           y == [ad |-> x.ad, es |-> x.es, an |-> x.an, over |-> FALSE]
           a == Sent(K)
           h == st.finish
           no == FALSE
<1>1. st = [pending |-> st.pending, acc |-> a, finish |-> h, finished |-> no]
  BY DEF LineInv
<1> HIDE DEF a, h, no
<1>2. d = [pending |-> <<>>, acc |-> a, finish |-> h, finished |-> no]
  BY <1>1
<1>3. st.finished = no
  BY <1>1
<1> HIDE DEF d
<1>4. d = [pending |-> <<>>, acc |-> d.acc, finish |-> d.finish, finished |-> d.finished]
      /\ d.finished = FALSE /\ d.finish = h /\ d.acc = a /\ d.pending = <<>> /\ d.finished = no
  BY <1>2 DEF no
<1>5. Assembled(x.an, st) = x.an
  BY <1>3 DEF Assembled, no
<1> DEFINE V == IF h = <<>> THEN FinishOf(K) ELSE x.an.finish
           C == FragmentsIn(K)
           T == TextIn(K)
<1>6. Carries(x, C, T, UsageOf(K), V)
  BY DEF LineInv, h
<1>7. /\ AdapterOK(x.ad) /\ Announced(x.ad, x.es) /\ x.an \in Answers /\ x.an.outcome # "ok"
  BY <1>6 DEF Carries
<1>8. OnceUsage(K) => Ordered(x.es)
  BY DEF LineInv
<1>9. ASSUME x.an.outcome = "open" PROVE LineInv(K, d, y)
  <2>1. y.ad = x.ad /\ y.es = x.es /\ y.an = x.an /\ y.over = FALSE
    OBVIOUS
  <2> HIDE DEF y, C, T, V
  <2>2. Carries(y, C, T, UsageOf(K), V)
    BY <1>6, <1>9, <2>1 DEF Carries
  <2>3. /\ K \in Seq(WireLines)
        /\ h = <<>> \/ h = <<FinishOf(K)>>
        /\ x.an.outcome = "open" => Clean(K)
        /\ HasDone(x.es) => UsageLines(K) # {}
    BY DEF LineInv, h
  <2>4. d.pending \in Seq(Chunks) /\ V = (IF d.finish = <<>> THEN FinishOf(K) ELSE y.an.finish)
    BY <1>4, <2>1, EmptySeq DEF V
  <2>5. d = [pending |-> d.pending, acc |-> Sent(K), finish |-> d.finish, finished |-> FALSE]
    BY <1>2, <1>4 DEF a, no
  <2> QED BY <1>4, <1>8, <2>1, <2>2, <2>3, <2>4, <2>5 DEF LineInv, C, T
<1> QED BY <1>4, <1>5, <1>7, <1>8, <1>9 DEF d

\* ... and to one that does.
LEMMA PollEnd ==
  ASSUME NEW K, NEW st, NEW x, EndInv(K, st, x)
  PROVE  LET d == [st EXCEPT !.pending = <<>>]
             b == Assembled(x.an, st)
             y == [ad |-> x.ad, es |-> x.es, an |-> b, over |-> FALSE]
         IN /\ d = [pending |-> <<>>, acc |-> d.acc, finish |-> d.finish, finished |-> d.finished]
            /\ d.finished = TRUE
            /\ AdapterOK(x.ad) /\ Announced(x.ad, x.es) /\ b \in Answers
            /\ OnceUsage(K) => Ordered(x.es)
            /\ b.outcome = "ok" => Complete(K, y)
<1> DEFINE d == [st EXCEPT !.pending = <<>>]
           b == Assembled(x.an, st)
           y == [ad |-> x.ad, es |-> x.es, an |-> b, over |-> FALSE]
           a == st.acc
           yes == TRUE
           C == FragmentsIn(K)
           T == TextIn(K)
<1>1. st = [pending |-> st.pending, acc |-> a, finish |-> <<>>, finished |-> yes]
  BY DEF EndInv
<1> HIDE DEF a, yes
<1>2. d = [pending |-> <<>>, acc |-> a, finish |-> <<>>, finished |-> yes] /\ st.finished = yes
  BY <1>1
<1> HIDE DEF d
<1>4. d = [pending |-> <<>>, acc |-> d.acc, finish |-> d.finish, finished |-> d.finished]
      /\ d.finished = TRUE
  BY <1>2 DEF yes
<1>5. b = IF x.an.outcome = "open" THEN [x.an EXCEPT !.outcome = "ok"] ELSE x.an
  BY <1>2 DEF Assembled, yes
<1>6. K \in Seq(WireLines) /\ Carries(x, C, T, UsageOf(K), FinishOf(K))
      /\ (x.an.outcome = "open" => Clean(K)) /\ (OnceUsage(K) => Ordered(x.es))
  BY DEF EndInv
<1>7. /\ AdapterOK(x.ad) /\ Announced(x.ad, x.es) /\ x.an \in Answers /\ x.an.outcome # "ok"
  BY <1>6 DEF Carries
<1> HIDE DEF b
<1>8. b \in Answers
  BY <1>5, <1>7 DEF Answers
<1>9. ASSUME b.outcome = "ok" PROVE Complete(K, y)
  <2>1. x.an.outcome = "open"
    BY <1>5, <1>7, <1>9
  <2>2. b.content = x.an.content /\ b.usage = x.an.usage /\ b.finish = x.an.finish
    BY <1>5, <1>7, <2>1 DEF Answers
  <2>3. y.ad = x.ad /\ y.es = x.es /\ y.an = b
    OBVIOUS
  <2> HIDE DEF y, C, T
  <2>4. /\ x.an.content = T /\ Len(T) <= ContentMax /\ x.an.usage = UsageOf(K) /\ x.an.finish = FinishOf(K)
        /\ OneIdEach(C) => Tracks(x.ad, x.es, C)
    BY <1>6, <2>1 DEF Carries
  <2> QED BY <1>6, <2>1, <2>2, <2>3, <2>4 DEF Complete, C, T
<1> QED BY <1>4, <1>6, <1>7, <1>8, <1>9 DEF d, b

\* The lines after a step.
Whole(n, over) ==
  LET k == LinesIn(n) IN
  IF k < Len(wire) /\ over /\ n = EndOf(k + 1) - 1 THEN SubSeq(wire, 1, k + 1)
  ELSE SubSeq(wire, 1, k)

LEMMA LinesAfter ==
  ASSUME wire' = wire, NEW n, got' = n
  PROVE  /\ Lines(got)' = Lines(n)
         /\ decoder'.finished = TRUE => Counted' = Cut(Whole(n, TRUE))
         /\ EndOf(Len(wire))' = EndOf(Len(wire))
<1> DEFINE k == LinesIn(n)
<1>1. /\ \A j : EndOf(j)' = EndOf(j)
      /\ \A m : LinesIn(m)' = LinesIn(m)
  BY Unmoved
<1>2. LinesIn(got)' = k
  <2>1. LinesIn(got)' = CHOOSE j \in 0..Len(wire') :
                EndOf(j)' <= got' /\ (j = Len(wire') \/ got' < EndOf(j + 1)')
    BY DEF LinesIn
  <2> QED BY <1>1, <2>1 DEF LinesIn
<1>3. Lines(got)' = Lines(n)
  <2>1. Lines(got)' = SubSeq(wire', 1, LinesIn(got)')
    BY DEF Lines
  <2> QED BY <1>2, <2>1 DEF Lines
<1>4. EndOf(Len(wire))' = EndOf(Len(wire))
  BY DEF EndOf
<1>5. ASSUME decoder'.finished = TRUE PROVE WholeLines' = Whole(n, TRUE)
  <2>1. WholeLines' = LET j == LinesIn(got)' IN
            IF j < Len(wire') /\ decoder'.finished /\ got' = EndOf(LinesIn(got) + 1)' - 1
            THEN SubSeq(wire', 1, j + 1) ELSE SubSeq(wire', 1, j)
    BY DEF WholeLines
  <2>2. EndOf(LinesIn(got) + 1)' = EndOf(k + 1)
    <3>1. EndOf(LinesIn(got) + 1)' = BytesOf(SubSeq(wire', 1, LinesIn(got)' + 1))
      BY DEF EndOf
    <3> QED BY <1>2, <3>1 DEF EndOf
  <2> HIDE DEF k
  <2>3. WholeLines' = IF k < Len(wire) /\ n = EndOf(k + 1) - 1
                      THEN SubSeq(wire, 1, k + 1) ELSE SubSeq(wire, 1, k)
    BY <1>2, <1>5, <2>1, <2>2
  <2> QED BY <2>3 DEF Whole, k
<1>6. Counted' = Cut(WholeLines')
  BY Zenon DEF Counted, Cut, Dones
<1> QED BY <1>3, <1>4, <1>5, <1>6

\* A poll that leaves the stream open, ...
LEMMA OpenStep ==
  ASSUME StreamAssumption, StreamInv, wire' = wire, NEW n \in 0..EndOf(Len(wire)), got' = n,
         NEW st, Polls(st), ~HasEnd(Lines(n)), OnceUsage(wire) => OnceUsage(Lines(n)),
         LineInv(Lines(n), st, Polled(adapter, events, answer, st.pending))
  PROVE  StreamInv'
<1> DEFINE x == Polled(adapter, events, answer, st.pending)
           d == [st EXCEPT !.pending = <<>>]
           K == Lines(n)
           y == [ad |-> x.ad, es |-> x.es, an |-> x.an, over |-> FALSE]
<1>1. decoder' = d /\ adapter' = x.ad /\ events' = x.es /\ answer' = Assembled(x.an, st)
  BY PollForms
<1>2. Lines(got)' = K /\ EndOf(Len(wire))' = EndOf(Len(wire))
  BY LinesAfter
<1> HIDE DEF x, K
<1>3. LineInv(K, st, x)
  BY DEF x, K
<1>4. /\ d = [pending |-> <<>>, acc |-> d.acc, finish |-> d.finish, finished |-> d.finished]
      /\ d.finished = FALSE /\ Assembled(x.an, st) = x.an
      /\ AdapterOK(x.ad) /\ Announced(x.ad, x.es) /\ x.an \in Answers
      /\ x.an.outcome # "ok"
      /\ OnceUsage(K) => Ordered(x.es)
      /\ x.an.outcome = "open" => LineInv(K, d, y)
  BY <1>3, PollOpen
<1> HIDE DEF d
<1>5. wire' \in Wires /\ got' \in 0..EndOf(Len(wire))'
  BY <1>2 DEF StreamInv
<1>6. /\ decoder' = [pending |-> <<>>, acc |-> decoder'.acc, finish |-> decoder'.finish,
                     finished |-> decoder'.finished]
      /\ decoder'.finished \in BOOLEAN
  BY <1>1, <1>4
<1>7. answer' = x.an /\ answer' \in Answers /\ AdapterOK(adapter') /\ Announced(adapter', events')
  BY <1>1, <1>4
<1>8. OnceUsage(wire') => Ordered(events')
  BY <1>1, <1>4 DEF K
<1>9. Reading' => ~HasEnd(K) /\ LineInv(K, decoder', Now')
  <2>1. Now' = y
    BY <1>1, <1>7 DEF Now
  <2>2. Reading' => x.an.outcome = "open"
    BY <1>7 DEF Reading
  <2> QED BY <2>1, <2>2, <1>1, <1>4 DEF K
<1>10. answer'.outcome # "ok"
  BY <1>4, <1>7
<1>11. (Reading => ~HasEnd(Lines(got)) /\ LineInv(Lines(got), decoder, Now))'
  BY <1>2, <1>9
<1> QED BY <1>5, <1>6, <1>7, <1>8, <1>10, <1>11 DEF StreamInv

\* ... one that ends it, ...
LEMMA EndStep ==
  ASSUME StreamAssumption, StreamInv, wire' = wire, NEW n \in 0..EndOf(Len(wire)), got' = n,
         NEW st, Polls(st), NEW K, OnceUsage(wire) => OnceUsage(K), K = Cut(Whole(n, TRUE)),
         EndInv(K, st, Polled(adapter, events, answer, st.pending))
  PROVE  StreamInv'
<1> DEFINE x == Polled(adapter, events, answer, st.pending)
           d == [st EXCEPT !.pending = <<>>]
           b == Assembled(x.an, st)
           y == [ad |-> x.ad, es |-> x.es, an |-> b, over |-> FALSE]
<1>1. decoder' = d /\ adapter' = x.ad /\ events' = x.es /\ answer' = b
  BY PollForms
<1>2. EndOf(Len(wire))' = EndOf(Len(wire)) /\ (decoder'.finished = TRUE => Counted' = K)
  BY LinesAfter
<1> HIDE DEF x
<1>3. EndInv(K, st, x)
  BY DEF x
<1>4. /\ d = [pending |-> <<>>, acc |-> d.acc, finish |-> d.finish, finished |-> d.finished]
      /\ d.finished = TRUE
      /\ AdapterOK(x.ad) /\ Announced(x.ad, x.es) /\ b \in Answers
      /\ OnceUsage(K) => Ordered(x.es)
      /\ b.outcome = "ok" => Complete(K, y)
  BY <1>3, PollEnd
<1> HIDE DEF d, b
<1>5. wire' \in Wires /\ got' \in 0..EndOf(Len(wire))'
  BY <1>2 DEF StreamInv
<1>6. /\ decoder' = [pending |-> <<>>, acc |-> decoder'.acc, finish |-> decoder'.finish,
                     finished |-> decoder'.finished]
      /\ decoder'.finished \in BOOLEAN /\ decoder'.finished
  BY <1>1, <1>4
<1>7. answer' \in Answers /\ AdapterOK(adapter') /\ Announced(adapter', events')
  BY <1>1, <1>4
<1>8. OnceUsage(wire') => Ordered(events')
  BY <1>1, <1>4
<1>9. ~Reading'
  BY <1>6 DEF Reading
<1>10. answer'.outcome = "ok" => Complete(Counted', Now')
  <2>1. Now' = y /\ Counted' = K
    BY <1>1, <1>2, <1>4 DEF Now
  <2> QED BY <2>1, <1>1, <1>4
<1> QED BY <1>5, <1>6, <1>7, <1>8, <1>9, <1>10 DEF StreamInv

\* ... and one that fails it.
LEMMA FailStep ==
  ASSUME StreamAssumption, StreamInv, wire' = wire, NEW n \in 0..EndOf(Len(wire)), got' = n,
         NEW st, Polls(Ended(Failed(st))), NEW K, OnceUsage(wire) => OnceUsage(K),
         LineInv(K, st, Polled(adapter, events, answer, st.pending))
  PROVE  StreamInv'
<1> DEFINE P1 == Append(st.pending, Event("error", Absent, <<>>))
           a == Sent(K)
           h == st.finish
           st2 == Finished(P1, a, h)
           x == Polled(adapter, events, answer, P1)
           d == [st2 EXCEPT !.pending = <<>>]
<1>0. Ended(Failed(st)) = st2
  <2>1. st = Decoder(st.pending, a, h)
    BY DEF LineInv, Decoder
  <2> HIDE DEF a, h
  <2> DEFINE p == st.pending
  <2> HIDE DEF p
  <2>2. Failed(Decoder(p, a, h)) = Decoder(Append(p, Event("error", Absent, <<>>)), a, h)
    BY DecoderForms
  <2>3. \A q : Ended(Decoder(q, a, h)) = Finished(q, a, h)
    BY DecoderForms
  <2> QED BY <2>1, <2>2, <2>3, Zenon DEF p
<1>s. AdapterOK(adapter) /\ events \in Seq(Evs) /\ ContentMax \in Nat
  BY DEF StreamInv, Announced, StreamAssumption
<1>3. /\ AdapterOK(x.ad) /\ Announced(x.ad, x.es) /\ x.an \in Answers
      /\ x.an.outcome # "open" /\ x.an.outcome # "ok"
      /\ OnceUsage(K) => Ordered(x.es)
  BY <1>s, FailEnd
<1> DEFINE yes == TRUE
<1>4. st2 = [pending |-> P1, acc |-> a, finish |-> h, finished |-> yes]
  BY DEF Finished
<1> HIDE DEF P1, a, h, st2, yes
<1>5. st2.pending = P1 /\ d = [pending |-> <<>>, acc |-> a, finish |-> h, finished |-> yes]
  BY <1>4
<1>6. Polls(st2)
  BY <1>0
<1>1. decoder' = d /\ adapter' = x.ad /\ events' = x.es /\ answer' = Assembled(x.an, st2)
  BY <1>5, <1>6, PollForms
<1> HIDE DEF x, d
<1>7. answer' = x.an
  BY <1>1, <1>3 DEF Assembled
<1>2. EndOf(Len(wire))' = EndOf(Len(wire))
  BY LinesAfter
<1>8. wire' \in Wires /\ got' \in 0..EndOf(Len(wire))'
  BY <1>2 DEF StreamInv
<1>9. /\ decoder' = [pending |-> <<>>, acc |-> decoder'.acc, finish |-> decoder'.finish,
                     finished |-> decoder'.finished]
      /\ decoder'.finished = yes
  BY <1>1, <1>5
<1>10. decoder'.finished \in BOOLEAN
  BY <1>9 DEF yes
<1>11. answer' \in Answers /\ AdapterOK(adapter') /\ Announced(adapter', events')
  BY <1>1, <1>3, <1>7
<1>12. OnceUsage(wire') => Ordered(events')
  BY <1>1, <1>3
<1>13. ~Reading' /\ answer'.outcome # "ok"
  BY <1>3, <1>7 DEF Reading
<1> QED BY <1>8, <1>9, <1>10, <1>11, <1>12, <1>13 DEF StreamInv

\* Fewer lines report usage no more often.
LEMMA OnceFewer ==
  ASSUME NEW S, NEW s \in Seq(S), NEW m \in 0..Len(s), OnceUsage(s)
  PROVE  OnceUsage(SubSeq(s, 1, m))
<1> DEFINE p == SubSeq(s, 1, m)
<1>0. Len(s) \in Nat
  BY LenProperties
<1>1. Len(p) = m /\ \A i \in 1..m : p[i] = s[i]
  BY Firsts
<1> HIDE DEF p
<1>2. \A i \in 1..Len(p) : i \in 1..Len(s) /\ p[i] = s[i]
  BY <1>0, <1>1
<1>3. OnceUsage(p)
  BY <1>2 DEF OnceUsage
<1> QED BY <1>3 DEF p

\* The lines up to [DONE] come first.
LEMMA CutFirst ==
  ASSUME NEW w \in Seq(WireLines)
  PROVE  \E m \in 0..Len(w) : Cut(w) = SubSeq(w, 1, m)
<1>0. Len(w) \in Nat
  BY LenProperties
<1>1. CASE ~HasEnd(w)
  BY <1>0, <1>1 DEF HasEnd, Cut
<1>2. CASE HasEnd(w)
  <2> DEFINE d == CHOOSE k \in Dones(w) : \A j \in Dones(w) : k <= j
  <2>1. d \in Dones(w)
    BY <1>2, FirstDone
  <2>2. Cut(w) = SubSeq(w, 1, d - 1)
    BY <1>2 DEF Cut, HasEnd
  <2> HIDE DEF d
  <2>3. d - 1 \in 0..Len(w)
    BY <1>0, <2>1 DEF Dones
  <2> QED BY <2>2, <2>3
<1> QED BY <1>1, <1>2

\* While the stream is read, it is at the end of some lines.
LEMMA ReadingFlow ==
  ASSUME StreamAssumption, StreamInv, Reading
  PROVE  /\ Lines(got) \in Seq(WireLines) /\ ~HasEnd(Lines(got)) /\ ~decoder.finished
         /\ LineInv(Lines(got), decoder, Polled(adapter, events, answer, decoder.pending))
         /\ Flow(Lines(got), decoder, Polled(adapter, events, answer, decoder.pending))
         /\ AdapterOK(adapter) /\ events \in Seq(Evs) /\ ContentMax \in Nat
         /\ OnceUsage(wire) => OnceUsage(Lines(got))
<1>0. AdapterOK(adapter) /\ events \in Seq(Evs) /\ ContentMax \in Nat
  BY DEF StreamInv, Announced, StreamAssumption
<1>1. decoder.pending = <<>> /\ ~decoder.finished
  <2> DEFINE a == decoder.acc
             h == decoder.finish
             f == decoder.finished
  <2>1. decoder = [pending |-> <<>>, acc |-> a, finish |-> h, finished |-> f]
    BY DEF StreamInv
  <2> HIDE DEF a, h, f
  <2>2. decoder.pending = <<>>
    BY <2>1
  <2> QED BY <2>2 DEF Reading
<1>2. Polled(adapter, events, answer, decoder.pending) = Now
  BY <1>0, <1>1, PolledSteps DEF Now
<1>3. ~HasEnd(Lines(got)) /\ LineInv(Lines(got), decoder, Now)
  BY DEF StreamInv
<1>4. Lines(got) \in Seq(WireLines)
  BY <1>3 DEF LineInv
<1>5. OnceUsage(wire) => OnceUsage(Lines(got))
  <2>1. wire \in Wires /\ got \in 0..EndOf(Len(wire))
    BY DEF StreamInv
  <2>2. wire \in Seq(WireLines) /\ LinesIn(got) \in 0..Len(wire)
    BY <2>1, WireFacts, LinesAt
  <2> QED BY <2>2, OnceFewer DEF Lines
<1> QED BY <1>0, <1>1, <1>2, <1>3, <1>4, <1>5 DEF Flow

\* A network chunk.
LEMMA InvReceives ==
  ASSUME StreamAssumption, StreamInv, NEW n \in Nat, Receives(n)
  PROVE  StreamInv'
<1> DEFINE g == got + n
           a == LinesIn(got)
           b == LinesIn(g)
           ls == SubSeq(wire, a + 1, b)
           read == Decoded(decoder, ls)
           X(s) == Polled(adapter, events, answer, s.pending)
<1>0. /\ Reading /\ n > 0 /\ g <= EndOf(Len(wire)) /\ got' = g /\ wire' = wire
      /\ Polls(drain_lines(decoder, g))
  BY DEF Receives
<1>1. wire \in Wires /\ got \in 0..EndOf(Len(wire))
  BY DEF StreamInv
<1>2. wire \in Seq(CleanLines) /\ wire \in Seq(WireLines) /\ Len(wire) \in Nat /\ EndOf(Len(wire)) \in Nat
  BY <1>1, WireFacts, LineEnds
<1>3. g \in 0..EndOf(Len(wire)) /\ got <= g
  BY <1>0, <1>1, <1>2
<1>4. a \in 0..Len(wire) /\ b \in 0..Len(wire) /\ a <= b
  BY <1>1, <1>3, LinesAt, LinesGrow
<1>d. drain_lines(decoder, g) = IF ~read.finished /\ g - EndOf(b) > MaxLineBytes
                                THEN Ended(Failed(read)) ELSE read
  BY Zenon DEF drain_lines, Decoded
<1> HIDE DEF g, a, b
<1>5. ls \in Seq(CleanLines) /\ SubSeq(wire, 1, a) \o ls = SubSeq(wire, 1, b)
  BY <1>2, <1>4, Firsts
<1>6. /\ ~HasEnd(Lines(got)) /\ AdapterOK(adapter) /\ events \in Seq(Evs) /\ ContentMax \in Nat
      /\ Flow(Lines(got), decoder, X(decoder))
  BY <1>0, ReadingFlow
<1>7. Lines(got) \o ls = Lines(g)
  BY <1>5 DEF Lines, a, b
<1> HIDE DEF ls
<1>8. Flow(Lines(g), read, X(read))
  <2>1. Flow(Lines(got) \o ls, read, X(read))
    BY <1>5, <1>6, DecodedFlow
  <2> QED BY <1>7, <2>1
<1> HIDE DEF read
<1>9. Lines(g) \in Seq(WireLines) /\ (OnceUsage(wire) => OnceUsage(Lines(g)))
  <2>1. Lines(g) \in Seq(WireLines)
    BY <1>8 DEF Flow
  <2> QED BY <2>1, <1>2, <1>4, OnceFewer DEF Lines, b
<1>10. CASE ~read.finished
  <2>1. ~HasEnd(Lines(g)) /\ LineInv(Lines(g), read, X(read))
    BY <1>8, <1>10 DEF Flow
  <2>2. CASE g - EndOf(b) > MaxLineBytes
    <3>1. Polls(Ended(Failed(read)))
      BY <1>0, <1>10, <1>d, <2>2
    <3> QED BY <1>0, <1>3, <1>9, <2>1, <3>1, FailStep
  <2>3. CASE ~(g - EndOf(b) > MaxLineBytes)
    <3>1. Polls(read)
      BY <1>0, <1>10, <1>d, <2>3
    <3> QED BY <1>0, <1>3, <1>9, <2>1, <3>1, OpenStep
  <2> QED BY <2>2, <2>3
<1>11. CASE read.finished
  <2> DEFINE K == Cut(Lines(g))
  <2>1. HasEnd(Lines(g)) /\ EndInv(K, read, X(read))
    BY <1>8, <1>11 DEF Flow
  <2>2. Polls(read)
    BY <1>0, <1>11, <1>d
  <2>3. K = Cut(Whole(g, TRUE))
    <3>1. CASE b < Len(wire) /\ g = EndOf(b + 1) - 1
      <4>1. Whole(g, TRUE) = SubSeq(wire, 1, b + 1)
        BY <3>1 DEF Whole, b
      <4>2. SubSeq(wire, 1, b + 1) = Append(Lines(g), wire[b + 1])
        BY <1>2, <1>4, <3>1, Firsts DEF Lines, b
      <4>3. wire[b + 1] \in WireLines
        <5>1. b + 1 \in 1..Len(wire)
          BY <1>2, <1>4, <3>1
        <5> QED BY <1>2, <5>1, ElementOfSeq
      <4>4. Cut(Append(Lines(g), wire[b + 1])) = Cut(Lines(g))
        BY <1>9, <2>1, <4>3, CutSteps
      <4> QED BY <4>1, <4>2, <4>4
    <3>2. CASE ~(b < Len(wire) /\ g = EndOf(b + 1) - 1)
      <4>1. Whole(g, TRUE) = SubSeq(wire, 1, b)
        BY <3>2 DEF Whole, b
      <4> QED BY <4>1 DEF Lines, b
    <3> QED BY <3>1, <3>2
  <2>4. OnceUsage(wire) => OnceUsage(K)
    <3>1. PICK m \in 0..Len(Lines(g)) : K = SubSeq(Lines(g), 1, m)
      BY <1>9, CutFirst
    <3> QED BY <1>9, <3>1, OnceFewer
  <2> HIDE DEF K
  <2> QED BY <1>0, <1>3, <2>1, <2>2, <2>3, <2>4, EndStep
<1> QED BY <1>10, <1>11

\* The connection breaks.
LEMMA InvBreaks ==
  ASSUME StreamAssumption, StreamInv, ConnectionBreaks
  PROVE  StreamInv'
<1>1. Reading /\ Polls(Ended(Failed(decoder))) /\ wire' = wire /\ got' = got
  BY DEF ConnectionBreaks
<1>2. /\ LineInv(Lines(got), decoder, Polled(adapter, events, answer, decoder.pending))
      /\ OnceUsage(wire) => OnceUsage(Lines(got))
  BY <1>1, ReadingFlow
<1>3. got \in 0..EndOf(Len(wire))
  BY DEF StreamInv
<1> QED BY <1>1, <1>2, <1>3, FailStep

\* The end upstream makes by closing, after [DONE] or without one.
LEMMA CloseFlow ==
  ASSUME NEW ad, AdapterOK(ad), NEW es \in Seq(Evs), NEW an, ContentMax \in Nat,
         NEW L \in Seq(WireLines), NEW st, Flow(L, st, Polled(ad, es, an, st.pending))
  PROVE  LET st2 == Ended(flush_pending_finish(st))
         IN EndInv(Cut(L), st2, Polled(ad, es, an, st2.pending))
<1> DEFINE st2 == Ended(flush_pending_finish(st))
<1>1. CASE ~st.finished
  <2>1. ~HasEnd(L) /\ LineInv(L, st, Polled(ad, es, an, st.pending))
    BY <1>1 DEF Flow
  <2>2. Cut(L) = L
    <3>1. SubSeq(L, 1, Len(L)) = L
      BY SubSeqFull
    <3> QED BY <2>1, <3>1 DEF Cut, HasEnd
  <2>3. EndInv(L, st2, Polled(ad, es, an, st2.pending))
    BY <2>1, CloseEnd
  <2> QED BY <2>2, <2>3
<1>2. CASE st.finished
  <2>1. EndInv(Cut(L), st, Polled(ad, es, an, st.pending))
    BY <1>2 DEF Flow
  <2> DEFINE p == st.pending
             a == st.acc
  <2>2. p \in Seq(Chunks) /\ st = Finished(p, a, <<>>)
    BY <2>1 DEF EndInv, Finished
  <2> HIDE DEF p, a
  <2>3. flush_pending_finish(Finished(p, a, <<>>)) = Finished(p \o DoneEvents(<<>>), a, <<>>)
    BY DecoderForms
  <2>4. p \o DoneEvents(<<>>) = p
    <3>1. DoneEvents(<<>>) = <<>>
      BY DEF DoneEvents
    <3> QED BY <2>2, <3>1, ConcatEmptySeq
  <2>5. Ended(Finished(p, a, <<>>)) = Finished(p, a, <<>>)
    BY DecoderForms
  <2>6. st2 = st
    BY <2>2, <2>3, <2>4, <2>5, Zenon
  <2> HIDE DEF st2
  <2>7. EndInv(Cut(L), st2, Polled(ad, es, an, st2.pending))
    BY <2>1, <2>6
  <2> QED BY <2>7 DEF st2
<1> QED BY <1>1, <1>2

\* Less than a line says nothing.
LEMMA DropQuiet ==
  ASSUME NEW K \in Seq(WireLines), NEW st, NEW x, NEW l \in CleanLines, l.kind # "chunk",
         EndInv(Append(K, l), st, x)
  PROVE  EndInv(K, st, x)
<1> DEFINE L == Append(K, l)
<1>0. l \in WireLines /\ l.usage = 0
  BY DEF CleanLines
<1>1. /\ TextIn(L) = TextIn(K) /\ FragmentsIn(L) = FragmentsIn(K)
      /\ UsageOf(L) = UsageOf(K) /\ FinishOf(L) = FinishOf(K)
  BY QuietLine
<1>2. Clean(L) <=> Clean(K) /\ l.kind # "bad"
  BY <1>0, LineAdded
<1>3. /\ Len(L) = Len(K) + 1 /\ Len(K) \in Nat
      /\ L[Len(K) + 1] = l /\ \A k \in 1..Len(K) : L[k] = K[k]
  BY <1>0, Beginnings
<1> HIDE DEF L
<1>4. OnceUsage(K) => OnceUsage(L)
  <2> SUFFICES ASSUME OnceUsage(K), NEW j \in 1..Len(L), NEW k \in 1..Len(L),
                      L[j].usage # 0, L[k].usage # 0
               PROVE  j = k
    BY DEF OnceUsage
  <2>1. j # Len(K) + 1 /\ k # Len(K) + 1
    BY <1>0, <1>3
  <2>2. j \in 1..Len(K) /\ k \in 1..Len(K)
    BY <1>3, <2>1
  <2> QED BY <1>3, <2>2 DEF OnceUsage
<1>5. EndInv(L, st, x)
  BY DEF L
<1> QED BY <1>1, <1>2, <1>4, <1>5 DEF EndInv

\* Upstream closes.
LEMMA InvCloses ==
  ASSUME StreamAssumption, StreamInv, UpstreamCloses
  PROVE  StreamInv'
<1>0. Reading /\ wire' = wire /\ got' = got
  BY DEF UpstreamCloses
<1>l. PICK line \in Trailing : Polls(Ended(flush_pending_finish(handle_sse_line(decoder, line))))
  BY DEF UpstreamCloses
<1> DEFINE k == LinesIn(got)
           rest == got - EndOf(k)
           K == Lines(got)
           N == Len(wire)
           X(s) == Polled(adapter, events, answer, s.pending)
           st1 == handle_sse_line(decoder, line)
           st2 == Ended(flush_pending_finish(st1))
<1>1. wire \in Wires /\ got \in 0..EndOf(N)
  BY DEF StreamInv
<1>2. wire \in Seq(CleanLines) /\ wire \in Seq(WireLines) /\ N \in Nat
      /\ \A j \in 1..N : /\ wire[j] \in CleanLines /\ wire[j].bytes \in Nat /\ wire[j].bytes > 0
                         /\ wire[j].bytes = 1 => wire[j].kind = "skip"
  BY <1>1, WireFacts
<1>3. k \in 0..N /\ EndOf(k) <= got /\ (k = N \/ got < EndOf(k + 1))
  BY <1>1, LinesAt
<1>4. /\ \A j \in 0..N : EndOf(j) \in Nat
      /\ k < N => EndOf(k + 1) = EndOf(k) + wire[k + 1].bytes
  BY <1>1, <1>3, LineEnds
<1>5. /\ K \in Seq(WireLines) /\ ~HasEnd(K) /\ AdapterOK(adapter) /\ events \in Seq(Evs)
      /\ ContentMax \in Nat /\ Flow(K, decoder, X(decoder)) /\ (OnceUsage(wire) => OnceUsage(K))
  BY <1>0, ReadingFlow
<1>t. Trailing = IF rest = 0 THEN {WireLine("skip", 0, <<>>, <<>>, Absent, 0)}
                 ELSE IF rest = wire[k + 1].bytes - 1 THEN {wire[k + 1]}
                 ELSE {WireLine(kind, rest, <<>>, <<>>, Absent, 0) :
                         kind \in IF wire[k + 1].kind = "skip" THEN {"skip"} ELSE {"skip", "bad"}}
  BY Zenon DEF Trailing
<1>w. /\ k < N /\ got = EndOf(k + 1) - 1 => Whole(got, TRUE) = SubSeq(wire, 1, k + 1)
      /\ ~(k < N /\ got = EndOf(k + 1) - 1) => Whole(got, TRUE) = K
  BY DEF Whole, Lines
<1>a. k < N => SubSeq(wire, 1, k + 1) = Append(K, wire[k + 1]) /\ wire[k + 1] \in CleanLines
               /\ k + 1 \in 1..N
  BY <1>2, <1>3, Firsts DEF Lines
<1>n. /\ EndOf(k) \in Nat
      /\ k < N => wire[k + 1].bytes \in Nat /\ wire[k + 1].bytes > 0
  BY <1>2, <1>3, <1>4, <1>a
<1> HIDE DEF K, k, N
<1>6. rest \in Nat /\ (rest # 0 => k < N)
  BY <1>1, <1>2, <1>3, <1>4
<1>7. got = EndOf(k) + rest
  BY <1>1, <1>3, <1>4
<1> HIDE DEF rest
<1>8. \A kind \in {"skip", "bad"}, r \in Nat :
        WireLine(kind, r, <<>>, <<>>, Absent, 0) \in {l \in CleanLines : l.kind = kind}
  <2> TAKE kind \in {"skip", "bad"}, r \in Nat
  <2>1. <<>> \in Seq(STRING) /\ <<>> \in Seq(CallFragments)
    BY EmptySeq
  <2>2. Absent \in Texts /\ 0 \in Nat
    BY DEF Texts
  <2> QED BY <2>1, <2>2 DEF WireLine, CleanLines, WireLines
<1>9. CASE rest # 0 /\ rest = wire[k + 1].bytes - 1
  <2>1. line = wire[k + 1] /\ line \in CleanLines /\ k < N
    BY <1>9, <1>t, <1>a, <1>6, <1>l
  <2>2. got = EndOf(k + 1) - 1
    <3> DEFINE e0 == EndOf(k)
               e1 == EndOf(k + 1)
               z == wire[k + 1].bytes
    <3>1. e0 \in Nat /\ z \in Nat /\ e1 = e0 + z /\ got = e0 + rest /\ rest = z - 1
      BY <1>9, <1>4, <1>7, <1>n, <2>1
    <3> HIDE DEF e0, e1, z
    <3>2. got = e1 - 1
      BY <3>1
    <3> QED BY <3>2 DEF e1
  <2> DEFINE L == Append(K, line)
  <2>3. Whole(got, TRUE) = L
    BY <2>1, <2>2, <1>w, <1>a
  <2>4. L \in Seq(WireLines)
    BY <2>1, <1>5, AppendProperties DEF CleanLines
  <2>5. Flow(L, st1, X(st1))
    BY <1>5, <2>1, FlowStep
  <2> HIDE DEF L, st1
  <2>6. EndInv(Cut(L), st2, X(st2))
    BY <1>5, <2>4, <2>5, CloseFlow
  <2>7. OnceUsage(wire) => OnceUsage(Cut(L))
    <3>1. L = SubSeq(wire, 1, k + 1) /\ k + 1 \in 0..Len(wire)
      <4>1. k + 1 \in 1..N /\ L = SubSeq(wire, 1, k + 1)
        BY <1>a, <2>1 DEF L
      <4>2. k + 1 \in 0..N
        BY <4>1, <1>2
      <4> QED BY <4>1, <4>2 DEF N
    <3>2. OnceUsage(wire) => OnceUsage(L)
      BY <1>2, <3>1, OnceFewer
    <3>3. PICK m \in 0..Len(L) : Cut(L) = SubSeq(L, 1, m)
      BY <2>4, CutFirst
    <3> QED BY <2>4, <3>2, <3>3, OnceFewer
  <2>8. Polls(st2)
    BY <1>l DEF st1
  <2> HIDE DEF st2
  <2> QED BY <1>0, <1>1, <2>3, <2>6, <2>7, <2>8, EndStep DEF N
<1>10. CASE ~(rest # 0 /\ rest = wire[k + 1].bytes - 1)
  <2>1. line \in CleanLines /\ line.kind \in {"skip", "bad"} /\ line.kind # "chunk"
    BY <1>10, <1>t, <1>6, <1>8, <1>l
  <2> DEFINE L == Append(K, line)
  <2>2. L \in Seq(WireLines) /\ line \in WireLines
    BY <2>1, <1>5, AppendProperties DEF CleanLines
  <2>3. Flow(L, st1, X(st1))
    BY <1>5, <2>1, FlowStep
  <2>4. ~HasEnd(L)
    BY <1>5, <2>1, <2>2, CutSteps
  <2> HIDE DEF L, st1
  <2>5. EndInv(Cut(L), st2, X(st2))
    BY <1>5, <2>2, <2>3, CloseFlow
  <2>6. Cut(L) = L
    <3>1. SubSeq(L, 1, Len(L)) = L
      BY <2>2, SubSeqFull
    <3> QED BY <2>4, <3>1 DEF Cut, HasEnd
  <2>7. Polls(st2)
    BY <1>l DEF st1
  <2> HIDE DEF st2
  <2>8. EndInv(K, st2, X(st2))
    BY <1>5, <2>1, <2>5, <2>6, DropQuiet DEF L
  <2>9. CASE k < N /\ got = EndOf(k + 1) - 1
    <3> DEFINE l2 == wire[k + 1]
               L2 == Append(K, l2)
    <3>1. l2 \in CleanLines /\ l2.kind = "skip" /\ l2 \in WireLines
      <4>1. rest = 0 /\ l2.bytes = 1
        <5> DEFINE e0 == EndOf(k)
                   e1 == EndOf(k + 1)
                   z == wire[k + 1].bytes
        <5>1. e0 \in Nat /\ z \in Nat /\ e1 = e0 + z /\ got = e0 + rest /\ got = e1 - 1 /\ rest \in Nat
          BY <2>9, <1>4, <1>6, <1>7, <1>n
        <5>2. ~(rest # 0 /\ rest = z - 1)
          BY <1>10
        <5> HIDE DEF e0, e1, z
        <5>3. rest = 0 /\ z = 1
          BY <5>1, <5>2
        <5> QED BY <5>3 DEF z
      <4> QED BY <4>1, <2>9, <1>2, <1>a DEF CleanLines
    <3> HIDE DEF l2
    <3>2. EndInv(L2, st2, X(st2))
      BY <2>8, <3>1, SkipEnd
    <3>3. ~HasEnd(L2) /\ L2 \in Seq(WireLines)
      <4>1. HasEnd(L2) <=> HasEnd(K) \/ l2.kind = "done"
        BY <1>5, <3>1, CutSteps
      <4> QED BY <1>5, <3>1, <4>1, AppendProperties
    <3>4. Whole(got, TRUE) = L2 /\ L2 = SubSeq(wire, 1, k + 1) /\ k + 1 \in 0..Len(wire)
      <4>1. k + 1 \in 1..N /\ L2 = SubSeq(wire, 1, k + 1) /\ Whole(got, TRUE) = L2
        BY <2>9, <1>w, <1>a DEF l2
      <4>2. k + 1 \in 0..N
        BY <4>1, <1>2
      <4> QED BY <4>1, <4>2 DEF N
    <3> HIDE DEF L2
    <3>5. Cut(L2) = L2
      <4>1. SubSeq(L2, 1, Len(L2)) = L2
        BY <3>3, SubSeqFull
      <4> QED BY <3>3, <4>1 DEF Cut, HasEnd
    <3>6. OnceUsage(wire) => OnceUsage(L2)
      BY <1>2, <3>4, OnceFewer
    <3> QED BY <1>0, <1>1, <2>7, <3>2, <3>4, <3>5, <3>6, EndStep DEF N
  <2>10. CASE ~(k < N /\ got = EndOf(k + 1) - 1)
    <3>1. Whole(got, TRUE) = K
      BY <2>10, <1>w
    <3>2. Cut(K) = K
      <4>1. SubSeq(K, 1, Len(K)) = K
        BY <1>5, SubSeqFull
      <4> QED BY <1>5, <4>1 DEF Cut, HasEnd
    <3> QED BY <1>0, <1>1, <1>5, <2>7, <2>8, <3>1, <3>2, EndStep DEF N
  <2> QED BY <2>9, <2>10
<1> QED BY <1>9, <1>10

\* No stream yet.
LEMMA StreamInitInv == ASSUME StreamAssumption PROVE StreamInit => StreamInv
<1> SUFFICES ASSUME StreamInit PROVE StreamInv
  OBVIOUS
<1>0. /\ wire \in Wires /\ got = 0 /\ events = <<>>
      /\ decoder = [pending |-> <<>>, acc |-> <<>>, finish |-> <<>>, finished |-> FALSE]
      /\ adapter = [ids |-> <<>>, held |-> <<>>]
      /\ answer = [content |-> <<>>, usage |-> 0, finish |-> Finish("Stop", <<>>), outcome |-> "open"]
  BY DEF StreamInit
<1>1. EndOf(Len(wire)) \in Nat /\ Len(wire) \in Nat /\ EndOf(0) = 0
      /\ \A k \in 0..Len(wire) : EndOf(k) \in Nat
  BY <1>0, WireFacts, LineEnds
<1>2. got \in 0..EndOf(Len(wire))
  BY <1>0, <1>1
<1>3. LinesIn(got) = 0
  <2> DEFINE k == LinesIn(got)
  <2>1. k \in 0..Len(wire) /\ EndOf(k) <= got
    BY <1>0, <1>2, LinesAt
  <2> HIDE DEF k
  <2>2. ASSUME k # 0 PROVE FALSE
    <3>1. 1 \in 0..Len(wire) /\ 0 \in 0..Len(wire) /\ 0 < Len(wire) /\ 1 <= k /\ 1 \in 1..Len(wire)
      BY <2>1, <2>2, <1>1
    <3>2. EndOf(1) <= EndOf(k) /\ EndOf(0 + 1) = EndOf(0) + wire[0 + 1].bytes
      BY <1>0, <2>1, <3>1, LineEnds
    <3>3. wire[1].bytes \in Nat /\ wire[1].bytes > 0
      BY <1>0, <3>1, WireFacts
    <3>4. EndOf(k) \in Nat /\ EndOf(1) = wire[1].bytes
      BY <1>1, <2>1, <3>2, <3>3
    <3> QED BY <1>0, <2>1, <3>2, <3>3, <3>4
  <2> QED BY <2>2 DEF k
<1>4. Lines(got) = <<>>
  BY <1>3, SubSeqEmpty DEF Lines
<1>5. Len(<<>>) = 0 /\ \A S : <<>> \in Seq(S)
  BY EmptySeq
<1>6. /\ FragmentsIn(<<>>) = <<>> /\ TextIn(<<>>) = <<>> /\ UsageOf(<<>>) = 0
      /\ FinishOf(<<>>) = Finish("Stop", <<>>)
  BY LinesGather, UsageStep, FinishStep
<1>7. Sent(<<>>) = <<>>
  BY <1>6, IngestedEmpty DEF Sent
<1>8. Finish("Stop", <<>>) \in Finishes
  BY <1>5 DEF Finish, Finishes
<1> DEFINE v == Finish("Stop", <<>>)
<1> HIDE DEF v
<1>9. answer \in Answers /\ answer.content = <<>> /\ answer.usage = 0 /\ answer.finish = v
      /\ answer.outcome = "open"
  BY <1>0, <1>5, <1>8 DEF Answers, v
<1>10. AdapterOK(adapter)
  <2>1. adapter.ids = <<>> /\ adapter.held = <<>> /\ DOMAIN <<>> = {}
    BY <1>0
  <2>2. adapter = [ids |-> adapter.ids, held |-> adapter.held]
    BY <1>0
  <2> QED BY <2>1, <2>2 DEF AdapterOK
<1>11. Announced(adapter, events)
  <2>1. adapter.ids = <<>> /\ DOMAIN <<>> = {}
    BY <1>0
  <2> QED BY <1>0, <1>5, <2>1 DEF Announced
<1>12. Ordered(events) /\ ~HasDone(events) /\ Clean(<<>>) /\ ~HasEnd(<<>>)
  BY <1>0, <1>5 DEF Ordered, HasDone, Clean, HasEnd, Dones
<1>13. Tracks(adapter, events, <<>>)
  <2>1. adapter.ids = <<>> /\ adapter.held = <<>> /\ DOMAIN <<>> = {} /\ Indices(<<>>) = {}
    BY <1>0, <1>5 DEF Indices
  <2> QED BY <2>1 DEF Tracks
<1>14. Carries(Now, <<>>, <<>>, 0, v)
  <2>1. Now.ad = adapter /\ Now.es = events /\ Now.an = answer /\ Now.over = FALSE
    BY DEF Now
  <2>2. ContentMax \in Nat
    BY DEF StreamAssumption
  <2> DEFINE z == <<>>
  <2>3. answer \in Answers /\ answer.outcome = "open" /\ answer.content = z /\ Len(z) = 0
        /\ answer.usage = 0 /\ answer.finish = v /\ Tracks(adapter, events, z)
    BY <1>5, <1>9, <1>13
  <2> HIDE DEF z
  <2>4. Len(z) <= ContentMax
    BY <2>2, <2>3
  <2>5. Carries(Now, z, z, 0, v)
    BY <1>10, <1>11, <2>1, <2>3, <2>4 DEF Carries
  <2> QED BY <2>5 DEF z
<1>15. LineInv(<<>>, decoder, Now)
  <2>1. Now.es = events
    BY DEF Now
  <2>2. decoder.pending = <<>> /\ decoder.finish = <<>>
    BY <1>0
  <2>3. decoder = [pending |-> decoder.pending, acc |-> Sent(<<>>), finish |-> decoder.finish, finished |-> FALSE]
    BY <1>0, <1>7, <2>2
  <2> QED BY <1>5, <1>6, <1>12, <1>14, <2>1, <2>2, <2>3 DEF LineInv, v
<1>16. /\ decoder = [pending |-> <<>>, acc |-> decoder.acc, finish |-> decoder.finish,
                     finished |-> decoder.finished]
       /\ decoder.finished \in BOOLEAN
  BY <1>0
<1> QED BY <1>0, <1>2, <1>4, <1>9, <1>10, <1>11, <1>12, <1>15, <1>16 DEF StreamInv

\* Nothing happens.
LEMMA StreamStutters == ASSUME StreamInv, UNCHANGED streamVars PROVE StreamInv'
<1>0. wire' = wire /\ got' = got /\ decoder' = decoder /\ adapter' = adapter /\ events' = events
      /\ answer' = answer
  BY DEF streamVars
<1>1. /\ Lines(got)' = Lines(got) /\ EndOf(Len(wire))' = EndOf(Len(wire))
      /\ decoder'.finished = TRUE => Counted' = Cut(Whole(got, TRUE))
  BY <1>0, LinesAfter
<1>2. decoder.finished => Counted = Cut(Whole(got, TRUE))
  <2>1. decoder.finished => WholeLines = Whole(got, TRUE)
    BY DEF WholeLines, Whole
  <2>2. Counted = Cut(WholeLines)
    BY Zenon DEF Counted, Cut, Dones
  <2> QED BY <2>1, <2>2
<1>3. decoder.finished \in BOOLEAN
  BY DEF StreamInv
<1>4. answer.outcome = "ok" => decoder.finished /\ Counted' = Counted
  BY <1>0, <1>1, <1>2, <1>3 DEF StreamInv
<1>5. Now' = Now /\ (Reading' <=> Reading)
  BY <1>0 DEF Now, Reading
<1> QED BY <1>0, <1>1, <1>4, <1>5 DEF StreamInv

\* The invariant holds of every step.
LEMMA StreamStepInv ==
  ASSUME StreamAssumption, StreamInv, [StreamNext]_streamVars
  PROVE  StreamInv'
<1>1. ASSUME NEW n \in 1..EndOf(Len(wire)), Receives(n) PROVE StreamInv'
  <2>1. n \in Nat
    OBVIOUS
  <2> QED BY <1>1, <2>1, InvReceives
<1>2. CASE ConnectionBreaks
  BY <1>2, InvBreaks
<1>3. CASE UpstreamCloses
  BY <1>3, InvCloses
<1>4. CASE UNCHANGED streamVars
  BY <1>4, StreamStutters
<1> QED BY <1>1, <1>2, <1>3, <1>4 DEF StreamNext

-----------------------------------------------------------------------------
(* What the invariant says *)

\* Lines without fragments at the end.
LEMMA QuietTail ==
  ASSUME NEW K \in Seq(WireLines), NEW f \in 0..Len(K),
         \A k \in 1..Len(K) : k > f => K[k].calls = <<>>
  PROVE  FragmentsIn(K) = FragmentsIn(SubSeq(K, 1, f))
<1> DEFINE N == Len(K)
           B(m) == FragmentsIn(SubSeq(K, 1, m))
           G == {m \in Nat : f + m <= N => B(f + m) = B(f)}
<1>0. N \in Nat /\ f \in Nat /\ f <= N
  BY LenProperties
<1>1. 0 \in G
  BY <1>0
<1>2. ASSUME NEW m \in Nat, m \in G PROVE m + 1 \in G
  <2> SUFFICES ASSUME f + (m + 1) <= N PROVE B(f + (m + 1)) = B(f)
    BY <1>2
  <2> DEFINE j == f + m
             p == SubSeq(K, 1, j)
             l == K[j + 1]
  <2>1. j \in 0..N /\ j < N /\ j + 1 \in 1..N /\ j + 1 > f /\ f + (m + 1) = j + 1 /\ f + m <= N
    BY <1>0
  <2>2. p \in Seq(WireLines) /\ SubSeq(K, 1, j + 1) = Append(p, l)
    BY <2>1, Firsts
  <2>3. l \in WireLines /\ l.calls = <<>>
    BY <2>1, ElementOfSeq
  <2>4. B(j) = B(f)
    BY <1>2, <2>1
  <2> HIDE DEF p, l
  <2>5. FragmentsIn(Append(p, l)) = FragmentsIn(p) \o l.calls /\ FragmentsIn(p) \in Seq(CallFragments)
    BY <2>2, <2>3, LinesGather
  <2>6. FragmentsIn(p) \o <<>> = FragmentsIn(p)
    BY <2>5, ConcatEmptySeq
  <2>7. FragmentsIn(Append(p, l)) = FragmentsIn(p)
    BY <2>3, <2>5, <2>6
  <2> QED BY <2>1, <2>2, <2>4, <2>7 DEF p
<1> HIDE DEF G
<1>3. N - f \in G
  <2>1. N - f \in Nat
    BY <1>0
  <2> QED BY <1>1, <1>2, <2>1, NaturalInduction
<1>4. B(N) = B(f)
  <2>1. f + (N - f) = N /\ N <= N
    BY <1>0
  <2> QED BY <1>3, <2>1 DEF G
<1>5. SubSeq(K, 1, N) = K
  BY SubSeqFull
<1> QED BY <1>4, <1>5

\* The finish reason of some lines.
LEMMA LastFinish ==
  ASSUME NEW K \in Seq(WireLines)
  PROVE  LET f == LastIn(FinishLines(K))
             S == SubSeq(K, 1, f)
         IN /\ f = 0 => FinishOf(K) = Finish("Stop", <<>>)
            /\ f # 0 => /\ f \in 1..Len(K) /\ K[f].finish # Absent
                        /\ FinishOf(K) = map_stream_finish_reason(K[f].finish, Sent(S))
                        /\ FragmentsIn(S) \in Seq(CallFragments)
                        /\ Gathers(Sent(S), FragmentsIn(S))
<1> DEFINE f == LastIn(FinishLines(K))
           S == SubSeq(K, 1, f)
<1>0. Len(K) \in Nat
  BY LenProperties
<1>1. FinishLines(K) \in SUBSET (1..Len(K))
  BY DEF FinishLines
<1>2. /\ FinishLines(K) = {} => f = 0
      /\ FinishLines(K) # {} => f \in FinishLines(K)
  BY <1>0, <1>1, LastFacts
<1>3. FinishOf(K) = IF f = 0 THEN Finish("Stop", <<>>)
                    ELSE map_stream_finish_reason(K[f].finish, Sent(S))
  BY Zenon DEF FinishOf
<1> HIDE DEF f
<1>4. ASSUME f # 0
      PROVE  /\ f \in 1..Len(K) /\ K[f].finish # Absent
             /\ FragmentsIn(S) \in Seq(CallFragments) /\ Gathers(Sent(S), FragmentsIn(S))
  <2>1. f \in 1..Len(K) /\ K[f].finish # Absent
    BY <1>2, <1>4 DEF FinishLines
  <2>2. f \in 0..Len(K)
    BY <1>0, <2>1
  <2>3. S \in Seq(WireLines)
    BY <2>2, Firsts
  <2> HIDE DEF S
  <2>4. FragmentsIn(S) \in Seq(CallFragments)
    BY <2>3, LinesGather
  <2>5. Gathers(Sent(S), FragmentsIn(S))
    BY <2>4, IngestedGathers DEF Sent
  <2> QED BY <2>1, <2>4, <2>5
<1> QED BY <1>3, <1>4 DEF f

\* The reason, and what a call has to do with it.
LEMMA ReasonFacts ==
  ASSUME NEW acc, NEW r
  PROVE  /\ r = "tool_calls" => map_stream_finish_reason(r, acc) = Finish("ToolUse", finalize(acc))
         /\ map_stream_finish_reason(r, acc).reason = "ToolUse" => r = "tool_calls"
         /\ map_stream_finish_reason(r, acc).reason = ReasonFor(r)
         /\ Finish("Stop", <<>>).reason = "Stop"
         /\ \A c : Finish("ToolUse", c).calls = c
<1>1. r = "tool_calls" => map_stream_finish_reason(r, acc) = Finish("ToolUse", finalize(acc))
  BY DEF map_stream_finish_reason
<1>2. \A c : /\ Finish("Stop", c).reason = "Stop" /\ Finish("MaxTokens", c).reason = "MaxTokens"
             /\ Finish("Error", c).reason = "Error" /\ Finish("ToolUse", c).calls = c
             /\ Finish("ToolUse", c).reason = "ToolUse"
  BY DEF Finish
<1>3. ASSUME r # "tool_calls" PROVE map_stream_finish_reason(r, acc).reason # "ToolUse"
  <2>1. map_stream_finish_reason(r, acc) \in {Finish("Stop", <<>>), Finish("MaxTokens", <<>>), Finish("Error", <<>>)}
    BY <1>3 DEF map_stream_finish_reason
  <2> QED BY <1>2, <2>1
<1>4. map_stream_finish_reason(r, acc).reason = ReasonFor(r)
  <2>1. CASE r = "stop"
    BY <1>2, <2>1 DEF map_stream_finish_reason, ReasonFor
  <2>2. CASE r = "length"
    BY <1>2, <2>2 DEF map_stream_finish_reason, ReasonFor
  <2>3. CASE r = "tool_calls"
    BY <1>1, <1>2, <2>3 DEF ReasonFor
  <2>4. CASE r \notin {"stop", "length", "tool_calls"}
    BY <1>2, <2>4 DEF map_stream_finish_reason, ReasonFor
  <2> QED BY <2>1, <2>2, <2>3, <2>4
<1> QED BY <1>1, <1>2, <1>3, <1>4

\* The lines that count are the first ones.
LEMMA CountedFirst ==
  ASSUME StreamAssumption, StreamInv
  PROVE  \E m \in 0..Len(wire) : Counted = SubSeq(wire, 1, m)
<1>0. wire \in Wires /\ got \in 0..EndOf(Len(wire))
  BY DEF StreamInv
<1>1. wire \in Seq(WireLines) /\ Len(wire) \in Nat /\ LinesIn(got) \in 0..Len(wire)
  BY <1>0, WireFacts, LinesAt
<1>2. PICK j \in 0..Len(wire) : WholeLines = SubSeq(wire, 1, j)
  <2> DEFINE k == LinesIn(got)
  <2>1. WholeLines = SubSeq(wire, 1, k) \/ (k < Len(wire) /\ WholeLines = SubSeq(wire, 1, k + 1))
    BY DEF WholeLines
  <2>2. k \in 0..Len(wire) /\ (k < Len(wire) => k + 1 \in 0..Len(wire))
    BY <1>1
  <2> QED BY <2>1, <2>2
<1> DEFINE w == SubSeq(wire, 1, j)
<1>3. w \in Seq(WireLines) /\ Len(w) = j /\ \A i \in 1..j : w[i] = wire[i]
  BY <1>1, Firsts
<1>4. Counted = Cut(w)
  <2>1. Counted = Cut(WholeLines)
    BY Zenon DEF Counted, Cut, Dones
  <2> QED BY <1>2, <2>1
<1> HIDE DEF w
<1>5. PICK m \in 0..Len(w) : Cut(w) = SubSeq(w, 1, m)
  BY <1>3, CutFirst
<1>6. m \in 0..Len(wire) /\ m <= j
  BY <1>1, <1>3, <1>5
<1>7. SubSeq(w, 1, m) = SubSeq(wire, 1, m)
  <2> DEFINE a == SubSeq(w, 1, m)
             b == SubSeq(wire, 1, m)
  <2>1. a \in Seq(WireLines) /\ Len(a) = m /\ \A i \in 1..m : a[i] = w[i]
    BY <1>3, <1>5, Firsts
  <2>2. b \in Seq(WireLines) /\ Len(b) = m /\ \A i \in 1..m : b[i] = wire[i]
    BY <1>1, <1>6, Firsts
  <2> HIDE DEF a, b
  <2>3. \A i \in 1..m : a[i] = b[i]
    BY <1>3, <1>6, <2>1, <2>2
  <2>4. a = b
    BY <2>1, <2>2, <2>3, SeqEqual
  <2> QED BY <2>4 DEF a, b
<1> QED BY <1>4, <1>5, <1>6, <1>7

\* A round that goes on has what the lines that count have.
LEMMA AnswerSound == ASSUME StreamAssumption, StreamInv PROVE AnswerIsWire
<1> SUFFICES ASSUME answer.outcome = "ok" PROVE AnswerIsWire
  BY DEF AnswerIsWire
<1> DEFINE K == Counted
           u == LastIn(UsageLines(K))
           f == LastIn(FinishLines(K))
           S == SubSeq(K, 1, f)
           sent == FragmentsIn(S)
           order == Listed(Indices(sent))
<1>1. Complete(K, Now) /\ Now.an = answer
  BY DEF StreamInv, Now
<1>2. /\ LastWhere(K, LAMBDA l : l.usage # 0) = u
      /\ LastWhere(K, LAMBDA l : l.finish # Absent) = f
  BY Zenon DEF LastWhere, LastIn, UsageLines, FinishLines
<1> HIDE DEF K
<1>3. /\ K \in Seq(WireLines) /\ Clean(K)
      /\ answer.content = TextIn(K) /\ Len(TextIn(K)) <= ContentMax
      /\ answer.usage = UsageOf(K) /\ answer.finish = FinishOf(K)
  BY <1>1 DEF Complete
<1>4. /\ f = 0 => FinishOf(K) = Finish("Stop", <<>>)
      /\ f # 0 => /\ FinishOf(K) = map_stream_finish_reason(K[f].finish, Sent(S))
                  /\ sent \in Seq(CallFragments) /\ Gathers(Sent(S), sent)
  BY <1>3, LastFinish
<1>5. answer.usage = IF u = 0 THEN 0 ELSE K[u].usage
  BY <1>3 DEF UsageOf
<1> HIDE DEF f, u
<1>6. /\ f = 0 => answer.finish.reason = "Stop"
      /\ f # 0 => answer.finish.reason = ReasonFor(K[f].finish)
  BY <1>3, <1>4, ReasonFacts
<1>7. ASSUME f # 0, K[f].finish = "tool_calls"
      PROVE  /\ Len(answer.finish.calls) = Len(order)
             /\ \A k \in 1..Len(order) :
                  answer.finish.calls[k].arguments = ParsedArguments(ArgumentsOf(sent, order[k]))
  <2> HIDE DEF S
  <2>1. answer.finish.calls = finalize(Sent(S))
    BY <1>3, <1>4, <1>7, ReasonFacts
  <2>2. sent \in Seq(CallFragments) /\ Gathers(Sent(S), sent)
    BY <1>4, <1>7
  <2> HIDE DEF sent
  <2>3. /\ Len(finalize(Sent(S))) = Len(order)
        /\ \A k \in 1..Len(order) :
             finalize(Sent(S))[k].arguments = ParsedArguments(ArgumentsOf(sent, order[k]))
    BY <2>2, FinalizeFacts
  <2> QED BY <2>1, <2>3
<1>8. \A k \in 1..Len(K) : K[k].kind # "bad"
  BY <1>3 DEF Clean
<1>9. TextIn(K) = Concat([k \in 1..Len(K) |-> K[k].content])
  BY DEF TextIn
<1>10. /\ answer.content = Concat([k \in 1..Len(K) |-> K[k].content])
       /\ Len(answer.content) <= ContentMax
  BY <1>3, <1>9
<1> QED BY <1>2, <1>5, <1>6, <1>7, <1>8, <1>10, Zenon DEF AnswerIsWire, K

\* What is shown of a call is what is run.
LEMMA ShownSound == ASSUME StreamAssumption, StreamInv PROVE ShownIsRun
<1>1. \A k \in 1..Len(events) : events[k].kind = "delta" =>
         \E j \in 1..(k - 1) : events[j].kind = "start" /\ events[j].id = events[k].id
  BY DEF StreamInv, Announced
<1>2. ASSUME answer.outcome = "ok", answer.finish.reason = "ToolUse", CallsInOrder,
             NEW c \in 1..Len(answer.finish.calls)
      PROVE  LET call == answer.finish.calls[c]
             IN /\ \E j \in 1..Len(events) : StartsOf(call.id) = {j}
                /\ call.arguments = ParsedArguments(DeltasOf(call.id))
  <2> DEFINE K == Counted
             f == LastIn(FinishLines(K))
             S == SubSeq(K, 1, f)
             C == FragmentsIn(S)
             acc == Sent(S)
             order == Listed(Indices(C))
  <2>0. Complete(K, Now) /\ Now.an = answer /\ Now.ad = adapter /\ Now.es = events
    BY <1>2 DEF StreamInv, Now
  <2>w. wire \in Seq(WireLines) /\ Len(wire) \in Nat
    BY WireFacts DEF StreamInv
  <2>m. PICK m \in 0..Len(wire) : K = SubSeq(wire, 1, m)
    BY CountedFirst
  <2> HIDE DEF K
  <2>1. /\ K \in Seq(WireLines) /\ answer.finish = FinishOf(K)
        /\ OneIdEach(FragmentsIn(K)) => Tracks(adapter, events, FragmentsIn(K))
    BY <2>0 DEF Complete
  <2>2. /\ f = 0 => FinishOf(K) = Finish("Stop", <<>>)
        /\ f # 0 => /\ f \in 1..Len(K) /\ K[f].finish # Absent
                    /\ FinishOf(K) = map_stream_finish_reason(K[f].finish, acc)
                    /\ C \in Seq(CallFragments) /\ Gathers(acc, C)
    BY <2>1, LastFinish
  <2> HIDE DEF f
  <2>3. f # 0
    BY <1>2, <2>1, <2>2, ReasonFacts
  <2>4. f \in 1..Len(K) /\ K[f].finish # Absent /\ C \in Seq(CallFragments) /\ Gathers(acc, C)
        /\ answer.finish = map_stream_finish_reason(K[f].finish, acc)
    BY <2>1, <2>2, <2>3
  <2>5. answer.finish.calls = finalize(acc)
    <3> HIDE DEF acc
    <3>1. K[f].finish = "tool_calls"
      BY <1>2, <2>4, ReasonFacts
    <3> QED BY <2>4, <3>1, ReasonFacts
  <2>6. Len(K) = m /\ (\A i \in 1..m : K[i] = wire[i]) /\ f \in 1..Len(wire) /\ f \in 0..Len(wire)
        /\ f \in 0..Len(K) /\ wire[f].finish # Absent /\ f <= m
    <3>1. Len(K) = m /\ \A i \in 1..m : K[i] = wire[i]
      BY <2>m, <2>w, Firsts
    <3>2. f \in 1..m
      BY <3>1, <2>4
    <3> QED BY <3>1, <3>2, <2>4, <2>w
  <2>7. \A k \in 1..Len(wire) : k > f => wire[k].calls = <<>>
    BY <1>2, <2>6 DEF CallsInOrder
  <2>8. S = SubSeq(wire, 1, f)
    <3> DEFINE a == SubSeq(K, 1, f)
               b == SubSeq(wire, 1, f)
    <3>1. a \in Seq(WireLines) /\ Len(a) = f /\ \A i \in 1..f : a[i] = K[i]
      BY <2>1, <2>6, Firsts
    <3>2. b \in Seq(WireLines) /\ Len(b) = f /\ \A i \in 1..f : b[i] = wire[i]
      BY <2>w, <2>6, Firsts
    <3> HIDE DEF a, b
    <3>3. \A i \in 1..f : a[i] = b[i]
      BY <2>6, <2>w, <3>1, <3>2
    <3>4. a = b
      BY <3>1, <3>2, <3>3, SeqEqual
    <3> QED BY <3>4 DEF a, b
  <2>9. FragmentsIn(wire) = C
    BY <2>6, <2>7, <2>8, <2>w, QuietTail
  <2>10. FragmentsIn(K) = C
    <3>1. \A k \in 1..Len(K) : k > f => K[k].calls = <<>>
      BY <2>6, <2>7, <2>w
    <3> QED BY <2>1, <2>6, <3>1, QuietTail
  <2> HIDE DEF C, acc, S
  <2>11. OneIdEach(C) /\ \A i \in Indices(C) : HasId(C, i)
    BY <1>2, <2>9 DEF CallsInOrder, HasId
  <2>12. Tracks(adapter, events, C)
    BY <2>1, <2>10, <2>11
  <2>13. LET calls == finalize(acc)
         IN /\ Len(order) \in Nat /\ Len(calls) = Len(order)
            /\ \A k \in 1..Len(order) :
                 /\ order[k] \in Indices(C)
                 /\ calls[k].id = acc[order[k]].id
                 /\ calls[k].arguments = ParsedArguments(ArgumentsOf(C, order[k]))
    BY <2>4, FinalizeFacts
  <2> DEFINE call == answer.finish.calls[c]
             i == order[c]
  <2>14. /\ i \in Indices(C) /\ call.id = acc[i].id
         /\ call.arguments = ParsedArguments(ArgumentsOf(C, i))
    BY <1>2, <2>5, <2>13
  <2> HIDE DEF call, i, order
  <2>15. Carried(adapter, events, C, i)
    BY <2>11, <2>12, <2>14 DEF Tracks
  <2>16. PICK j \in 1..Len(C) : C[j].index = i /\ C[j].id = adapter.ids[i]
    BY <2>15 DEF Carried
  <2>17. adapter.ids[i] # Absent
    <3>1. i \in DOMAIN adapter.ids
      BY <2>11, <2>12, <2>14 DEF Tracks
    <3> QED BY <3>1 DEF StreamInv, AdapterOK
  <2>18. call.id = adapter.ids[i]
    BY <2>4, <2>11, <2>14, <2>16, <2>17 DEF Gathers
  <2>19. DeltasOf(call.id) = DeltasIn(events, call.id) /\ StartsOf(call.id) = StartsIn(events, call.id)
    BY Zenon DEF DeltasOf, DeltasIn, StartsOf, StartsIn
  <2>20. /\ DeltasIn(events, call.id) = ArgumentsOf(C, i)
         /\ \E k \in 1..Len(events) : StartsIn(events, call.id) = {k}
    BY <2>15, <2>18 DEF Carried
  <2>21. /\ \E k \in 1..Len(events) : StartsOf(call.id) = {k}
         /\ call.arguments = ParsedArguments(DeltasOf(call.id))
    BY <2>14, <2>19, <2>20
  <2> QED BY <2>21 DEF call
<1> QED BY <1>1, <1>2, Zenon DEF ShownIsRun

\* What the invariant says of a state.
LEMMA StreamInvSays ==
  ASSUME StreamAssumption, StreamInv
  PROVE  StreamTypeOK /\ StreamSound
<1>1. AnswerIsWire /\ ShownIsRun
  BY AnswerSound, ShownSound
<1>2. UsageBeforeFinish
  BY DEF StreamInv, UsageBeforeFinish, OnceUsage, Ordered
<1>3. StreamTypeOK
  <2>1. answer.outcome \in {"open", "ok", "error", "over_cap"}
    BY DEF StreamInv, Answers
  <2>2. \A i \in DOMAIN adapter.held : adapter.held[i] # <<>> => i \notin DOMAIN adapter.ids
    BY DEF StreamInv, AdapterOK
  <2>3. decoder.pending = <<>>
    <3> DEFINE a == decoder.acc
               h == decoder.finish
               f == decoder.finished
    <3>1. decoder = [pending |-> <<>>, acc |-> a, finish |-> h, finished |-> f]
      BY DEF StreamInv
    <3> HIDE DEF a, h, f
    <3> QED BY <3>1
  <2> QED BY <2>1, <2>2, <2>3 DEF StreamInv, StreamTypeOK
<1> QED BY <1>1, <1>2, <1>3 DEF StreamSound

\* However upstream's bytes are cut into chunks and wherever they stop, a round that
\* goes on has the text, the usage, the finish reason and the calls of the lines it was
\* sent (stream_inner, StreamState and EventAdapter), for every set of answers upstream
\* may give, every buffer limit and every content limit.
THEOREM StreamIsSound == StreamSpec => [](StreamTypeOK /\ StreamSound)
<1>0. StreamAssumption
  BY StreamAssumption
<1>1. StreamInit => StreamInv
  BY <1>0, StreamInitInv
<1>2. StreamInv /\ [StreamNext]_streamVars => StreamInv'
  BY <1>0, StreamStepInv
<1>3. StreamInv => StreamTypeOK /\ StreamSound
  BY <1>0, StreamInvSays
<1> QED BY <1>1, <1>2, <1>3, PTL DEF StreamSpec
=============================================================================
