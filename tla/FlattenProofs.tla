--------------------------- MODULE FlattenProofs ---------------------------
(***************************************************************************)
(* Lemmas about sequences of sequences written one after the other, which  *)
(* Argv uses for the arguments of a command line.  What FlattenSeq returns *)
(* follows from there being one recursive function of its definition; what *)
(* holds of sequences of any length, from there being a least length at    *)
(* which it would not.                                                     *)
(***************************************************************************)
EXTENDS Naturals, Sequences, SequencesExt, SequenceTheorems, WellFoundedInduction, TLAPS

LEMMA LeastNumber ==
    ASSUME NEW T, T \subseteq Nat, T # {}
    PROVE \E x \in T : \A y \in T : x <= y
PROOF
<1>1. PICK x \in T : \A y \in T : <<y, x>> \notin OpToRel(<, Nat)
      BY NatLessThanWellFounded, WFMin
<1>2. \A y \in Nat : <<y, x>> \in OpToRel(<, Nat) <=> y < x
      BY DEF OpToRel
<1>3. \A y \in T : y \in Nat /\ ~(y < x)
      BY <1>1, <1>2
<1>4. QED
      BY <1>3

LEMMA Induction ==
    ASSUME NEW N \in Nat, NEW T, 0 \in T, \A n \in 0 .. N - 1 : n \in T => n + 1 \in T
    PROVE \A n \in 0 .. N : n \in T
PROOF
<1> DEFINE Rest == 0 .. N \ T
<1>1. SUFFICES ASSUME Rest # {} PROVE FALSE
      OBVIOUS
<1>2. PICK x \in Rest : \A y \in Rest : x <= y
  <2>1. Rest \subseteq Nat
        OBVIOUS
  <2>2. QED
        BY <1>1, <2>1, LeastNumber
<1>3. x \in 1 .. N
      BY <1>2
<1>4. x - 1 \in T
      BY <1>2, <1>3
<1>5. QED
      BY <1>2, <1>3, <1>4

-----------------------------------------------------------------------------
(* What FlattenSeq computes from left to right.                            *)
IsFlattening(f, ss) ==
    f = [i \in 1 .. Len(ss) |-> IF i = 1 THEN ss[i] ELSE f[i - 1] \o ss[i]]

LEMMA OneFlattening ==
    ASSUME NEW ss, Len(ss) \in Nat, NEW f, NEW g, IsFlattening(f, ss), IsFlattening(g, ss)
    PROVE f = g
PROOF
<1> DEFINE T == {i \in 0 .. Len(ss) : i = 0 \/ f[i] = g[i]}
<1>1. \A i \in 1 .. Len(ss) : /\ f[i] = IF i = 1 THEN ss[i] ELSE f[i - 1] \o ss[i]
                             /\ g[i] = IF i = 1 THEN ss[i] ELSE g[i - 1] \o ss[i]
      BY DEF IsFlattening
<1>2. 0 \in T /\ \A i \in 0 .. Len(ss) - 1 : i \in T => i + 1 \in T
      BY <1>1
<1> HIDE DEF T
<1>3. \A i \in 0 .. Len(ss) : i \in T
      BY <1>2, Induction
<1>4. \A i \in 1 .. Len(ss) : f[i] = g[i]
      BY <1>3 DEF T
<1>5. f = [i \in 1 .. Len(ss) |-> f[i]] /\ g = [i \in 1 .. Len(ss) |-> g[i]]
      BY DEF IsFlattening
<1>6. QED
      BY <1>4, <1>5

LEMMA FlatteningExists ==
    ASSUME NEW S, NEW ss \in Seq(Seq(S))
    PROVE \E f \in [1 .. Len(ss) -> Seq(S)] : IsFlattening(f, ss)
PROOF
<1> DEFINE Fits(f, n) == \A i \in 1 .. n : f[i] = IF i = 1 THEN ss[i] ELSE f[i - 1] \o ss[i]
           Upto(n) == \E f \in [1 .. n -> Seq(S)] : Fits(f, n)
           T == {n \in 0 .. Len(ss) : Upto(n)}
<1>1. Upto(0)
  <2>1. [i \in 1 .. 0 |-> <<>>] \in [1 .. 0 -> Seq(S)] /\ 1 .. 0 = {}
        OBVIOUS
  <2>2. QED
        BY <2>1
<1>2. ASSUME NEW n \in 0 .. Len(ss) - 1, Upto(n)
      PROVE Upto(n + 1)
  <2>1. PICK f \in [1 .. n -> Seq(S)] : Fits(f, n)
        BY <1>2
  <2> DEFINE last == IF n + 1 = 1 THEN ss[n + 1] ELSE f[n] \o ss[n + 1]
             g == [i \in 1 .. n + 1 |-> IF i = n + 1 THEN last ELSE f[i]]
  <2>2. last \in Seq(S)
    <3>1. ss[n + 1] \in Seq(S)
          OBVIOUS
    <3>2. n + 1 = 1 \/ f[n] \in Seq(S)
          OBVIOUS
    <3>3. QED
          BY <3>1, <3>2
  <2> HIDE DEF last
  <2>3. g \in [1 .. n + 1 -> Seq(S)]
        BY <2>2
  <2>4. \A i \in 1 .. n : g[i] = f[i] /\ (i # 1 => g[i - 1] = f[i - 1])
        OBVIOUS
  <2>5. g[n + 1] = IF n + 1 = 1 THEN ss[n + 1] ELSE g[n] \o ss[n + 1]
        BY DEF last
  <2> HIDE DEF g
  <2>6. ASSUME NEW i \in 1 .. n + 1
        PROVE g[i] = IF i = 1 THEN ss[i] ELSE g[i - 1] \o ss[i]
    <3>1. CASE i = n + 1
          BY <2>5, <3>1
    <3>2. CASE i \in 1 .. n
          BY <2>1, <2>4, <3>2
    <3>3. QED
          BY <3>1, <3>2
  <2>7. QED
        BY <2>3, <2>6, Zenon
<1> HIDE DEF Upto
<1>3. 0 \in T /\ \A n \in 0 .. Len(ss) - 1 : n \in T => n + 1 \in T
      BY <1>1, <1>2
<1> HIDE DEF T
<1>4. Len(ss) \in T
  <2>1. Len(ss) \in Nat /\ Len(ss) \in 0 .. Len(ss)
        OBVIOUS
  <2>2. QED
        BY <1>3, <2>1, Induction
<1>5. PICK f \in [1 .. Len(ss) -> Seq(S)] : Fits(f, Len(ss))
      BY <1>4 DEF T, Upto
<1>6. IsFlattening(f, ss)
      BY <1>5 DEF IsFlattening
<1>7. QED
      BY <1>6

LEMMA FlattenSeqIs ==
    ASSUME NEW S, NEW ss \in Seq(Seq(S)), Len(ss) # 0
    PROVE \E f \in [1 .. Len(ss) -> Seq(S)] : IsFlattening(f, ss) /\ FlattenSeq(ss) = f[Len(ss)]
PROOF
<1> DEFINE f == CHOOSE f : IsFlattening(f, ss)
<1>1. PICK g \in [1 .. Len(ss) -> Seq(S)] : IsFlattening(g, ss)
      BY FlatteningExists
<1>2. IsFlattening(f, ss)
      BY <1>1
<1>3. FlattenSeq(ss) = f[Len(ss)]
      BY DEF FlattenSeq, IsFlattening
<1>4. f = g
      BY <1>1, <1>2, OneFlattening
<1>5. QED
      BY <1>2, <1>3, <1>4

-----------------------------------------------------------------------------
LEMMA FlattenEmpty == FlattenSeq(<<>>) = <<>>
PROOF BY DEF FlattenSeq

LEMMA FlattenTyped ==
    ASSUME NEW S, NEW ss \in Seq(Seq(S))
    PROVE FlattenSeq(ss) \in Seq(S)
PROOF
<1>1. CASE Len(ss) = 0
      BY <1>1, EmptySeq, FlattenEmpty
<1>2. CASE Len(ss) # 0
  <2>1. PICK f \in [1 .. Len(ss) -> Seq(S)] : FlattenSeq(ss) = f[Len(ss)]
        BY <1>2, FlattenSeqIs
  <2>2. Len(ss) \in 1 .. Len(ss)
        BY <1>2
  <2>3. QED
        BY <2>1, <2>2
<1>3. QED
      BY <1>1, <1>2

(* The last sequence is the end of all of them put together.               *)
LEMMA FlattenLast ==
    ASSUME NEW S, NEW ss \in Seq(Seq(S)), NEW s \in Seq(S)
    PROVE FlattenSeq(Append(ss, s)) = FlattenSeq(ss) \o s
PROOF
<1> DEFINE tt == Append(ss, s)
           n == Len(ss)
<1>1. /\ tt \in Seq(Seq(S)) /\ Len(tt) = n + 1 /\ n \in Nat
      /\ tt[n + 1] = s /\ \A i \in 1 .. n : tt[i] = ss[i]
      OBVIOUS
<1> HIDE DEF tt
<1>2. PICK g \in [1 .. n + 1 -> Seq(S)] : IsFlattening(g, tt) /\ FlattenSeq(tt) = g[n + 1]
  <2>1. Len(tt) # 0
        BY <1>1
  <2>2. PICK g \in [1 .. Len(tt) -> Seq(S)] : IsFlattening(g, tt) /\ FlattenSeq(tt) = g[Len(tt)]
        BY <1>1, <2>1, FlattenSeqIs
  <2>3. QED
        BY <1>1, <2>2
<1>3. \A i \in 1 .. n + 1 : g[i] = IF i = 1 THEN tt[i] ELSE g[i - 1] \o tt[i]
      BY <1>1, <1>2 DEF IsFlattening
<1>4. CASE n = 0
  <2>1. ss = <<>> /\ FlattenSeq(ss) = <<>>
        BY <1>4, EmptySeq, FlattenEmpty
  <2>2. FlattenSeq(tt) = s
        BY <1>1, <1>2, <1>3, <1>4
  <2>3. QED
        BY <2>1, <2>2, ConcatEmptySeq DEF tt
<1>5. CASE n # 0
  <2>1. PICK f \in [1 .. n -> Seq(S)] : IsFlattening(f, ss) /\ FlattenSeq(ss) = f[n]
        BY <1>5, FlattenSeqIs
  <2> DEFINE h == [i \in 1 .. n |-> g[i]]
  <2>2. IsFlattening(h, ss)
    <3>1. \A i \in 1 .. n : i \in 1 .. n + 1 /\ (i = 1 \/ i - 1 \in 1 .. n)
          BY <1>1
    <3>2. \A i \in 1 .. n : h[i] = IF i = 1 THEN ss[i] ELSE h[i - 1] \o ss[i]
          BY <1>1, <1>3, <3>1
    <3>3. h = [i \in 1 .. n |-> h[i]]
          OBVIOUS
    <3> HIDE DEF h
    <3>4. QED
          BY <3>2, <3>3 DEF IsFlattening
  <2>3. h = f
        BY <1>1, <2>1, <2>2, OneFlattening
  <2>4. g[n] = f[n]
        BY <1>1, <1>5, <2>3
  <2>5. g[n + 1] = g[n] \o s
    <3>1. n + 1 \in 1 .. n + 1 /\ n + 1 # 1 /\ (n + 1) - 1 = n
          BY <1>1, <1>5
    <3>2. QED
          BY <1>1, <1>3, <3>1
  <2>6. QED
        BY <1>2, <2>1, <2>4, <2>5 DEF tt
<1>6. QED
      BY <1>4, <1>5

LEMMA SequenceInduction ==
    ASSUME NEW S, NEW T, <<>> \in T, \A s \in Seq(S) \cap T, c \in S : Append(s, c) \in T
    PROVE Seq(S) \subseteq T
PROOF
<1> DEFINE U == {n \in Nat : \A s \in Seq(S) : Len(s) = n => s \in T}
<1>1. 0 \in U
      BY EmptySeq
<1>2. ASSUME NEW n \in Nat, n \in U, NEW s \in Seq(S), Len(s) = n + 1 PROVE s \in T
  <2> DEFINE r == SubSeq(s, 1, n)
  <2>1. r \in Seq(S) /\ Len(r) = n /\ s[n + 1] \in S /\ s = Append(r, s[n + 1])
        BY <1>2
  <2>2. r \in T
        BY <1>2, <2>1
  <2>3. QED
        BY <2>1, <2>2
<1>3. \A n \in Nat : n \in U => n + 1 \in U
      BY <1>2
<1> HIDE DEF U
<1>4. ASSUME NEW s \in Seq(S) PROVE Len(s) \in U
  <2>1. Len(s) \in Nat /\ Len(s) \in 0 .. Len(s) /\ 0 .. Len(s) - 1 \subseteq Nat
        OBVIOUS
  <2>2. \A n \in 0 .. Len(s) - 1 : n \in U => n + 1 \in U
        BY <1>3, <2>1
  <2>3. QED
        BY <1>1, <2>1, <2>2, Induction
<1>5. QED
      BY <1>4 DEF U

LEMMA Within ==
    ASSUME NEW m \in Nat, NEW n \in Nat, NEW all \in Nat, m + n <= all, NEW i \in 1 .. n
    PROVE m + i \in 1 .. all
PROOF OBVIOUS

LEMMA FlattenConcat ==
    ASSUME NEW S, NEW ss \in Seq(Seq(S)), NEW tt \in Seq(Seq(S))
    PROVE FlattenSeq(ss \o tt) = FlattenSeq(ss) \o FlattenSeq(tt)
PROOF
<1> DEFINE T == {uu \in Seq(Seq(S)) : FlattenSeq(ss \o uu) = FlattenSeq(ss) \o FlattenSeq(uu)}
<1>1. FlattenSeq(ss) \in Seq(S)
      BY FlattenTyped
<1>2. <<>> \in T
      BY <1>1, FlattenEmpty, EmptySeq, ConcatEmptySeq
<1>3. ASSUME NEW uu \in Seq(Seq(S)), uu \in T, NEW s \in Seq(S) PROVE Append(uu, s) \in T
  <2>1. ss \o Append(uu, s) = Append(ss \o uu, s)
        OBVIOUS
  <2>2. ss \o uu \in Seq(Seq(S)) /\ Append(uu, s) \in Seq(Seq(S))
        OBVIOUS
  <2>3. FlattenSeq(Append(ss \o uu, s)) = (FlattenSeq(ss) \o FlattenSeq(uu)) \o s
        BY <1>3, <2>2, FlattenLast
  <2>4. FlattenSeq(uu) \in Seq(S) /\ FlattenSeq(Append(uu, s)) = FlattenSeq(uu) \o s
        BY FlattenTyped, FlattenLast
  <2>5. FlattenSeq(ss) \o (FlattenSeq(uu) \o s) = (FlattenSeq(ss) \o FlattenSeq(uu)) \o s
    <3>1. FlattenSeq(uu) \in Seq(S)
          BY <2>4
    <3>2. QED
          BY <1>1, <3>1, SMTT(30)
  <2>6. QED
        BY <2>1, <2>2, <2>3, <2>4, <2>5
<1>4. \A uu \in Seq(Seq(S)) \cap T, s \in Seq(S) : Append(uu, s) \in T
      BY <1>3
<1> HIDE DEF T
<1>5. Seq(Seq(S)) \subseteq T
      BY <1>2, <1>4, SequenceInduction
<1>6. QED
      BY <1>5 DEF T

(* Where each of the sequences is found in all of them put together: the   *)
(* k-th one is at p[k - 1] + 1 .. p[k].                                    *)
Places(p, ss) ==
    /\ p \in [0 .. Len(ss) -> Nat]
    /\ p[0] = 0 /\ p[Len(ss)] = Len(FlattenSeq(ss))
    /\ \A k \in 1 .. Len(ss) :
          /\ p[k] = p[k - 1] + Len(ss[k]) /\ p[k] <= p[Len(ss)]
          /\ \A i \in 1 .. Len(ss[k]) : FlattenSeq(ss)[p[k - 1] + i] = ss[k][i]

LEMMA FlattenPlaces ==
    ASSUME NEW S, NEW ss \in Seq(Seq(S))
    PROVE \E p : Places(p, ss)
PROOF
<1> DEFINE Placed(tt) == \E p : Places(p, tt)
           T == {tt \in Seq(Seq(S)) : Placed(tt)}
<1>1. Placed(<<>>)
  <2>1. Len(<<>>) = 0 /\ FlattenSeq(<<>>) = <<>> /\ 1 .. 0 = {} /\ 0 \in 0 .. 0
        BY FlattenEmpty
  <2>2. Places([k \in 0 .. 0 |-> 0], <<>>)
        BY <2>1 DEF Places
  <2>3. QED
        BY <2>2
<1>2. ASSUME NEW tt \in Seq(Seq(S)), Placed(tt), NEW s \in Seq(S) PROVE Placed(Append(tt, s))
  <2> DEFINE n == Len(tt)
             uu == Append(tt, s)
             flat == FlattenSeq(tt)
             more == FlattenSeq(uu)
  <2>1. PICK p : Places(p, tt)
        BY <1>2
  <2>2. /\ n \in Nat /\ Len(uu) = n + 1 /\ uu[n + 1] = s /\ Len(s) \in Nat
        /\ \A k \in 1 .. n : uu[k] = tt[k] /\ Len(tt[k]) \in Nat
        OBVIOUS
  <2>3. flat \in Seq(S) /\ more = flat \o s
        BY FlattenTyped, FlattenLast
  <2>4. /\ Len(more) = Len(flat) + Len(s) /\ Len(flat) \in Nat
        /\ \A i \in 1 .. Len(flat) : more[i] = flat[i]
        /\ \A i \in 1 .. Len(s) : more[Len(flat) + i] = s[i]
        BY <2>3
  <2> DEFINE q == [k \in 0 .. n + 1 |-> IF k = n + 1 THEN Len(flat) + Len(s) ELSE p[k]]
  <2>5. /\ p \in [0 .. n -> Nat] /\ p[0] = 0 /\ p[n] = Len(flat)
        /\ \A k \in 1 .. n : p[k] = p[k - 1] + Len(tt[k]) /\ p[k] <= p[n]
        BY <2>1 DEF Places
  <2>6. \A k \in 1 .. n : \A i \in 1 .. Len(tt[k]) : flat[p[k - 1] + i] = tt[k][i]
        BY <2>1 DEF Places
  <2> HIDE DEF uu, flat, more
  <2>7. q \in [0 .. n + 1 -> Nat]
        BY <2>2, <2>4, <2>5
  <2>8. q[0] = 0 /\ q[n + 1] = Len(more) /\ q[n] = Len(flat)
        BY <2>2, <2>4, <2>5
  <2>9. \A k \in 1 .. n : q[k] = p[k] /\ q[k - 1] = p[k - 1]
        BY <2>2
  <2> HIDE DEF q
  <2>10. ASSUME NEW k \in 1 .. n + 1
         PROVE /\ q[k] = q[k - 1] + Len(uu[k]) /\ q[k] <= q[n + 1]
               /\ \A i \in 1 .. Len(uu[k]) : more[q[k - 1] + i] = uu[k][i]
    <3>1. CASE k = n + 1
      <4>1. uu[k] = s /\ q[k] = Len(flat) + Len(s) /\ q[k - 1] = Len(flat) /\ q[k] = q[n + 1]
            BY <2>2, <2>4, <2>8, <3>1
      <4>2. QED
            BY <2>2, <2>4, <4>1
    <3>2. CASE k \in 1 .. n
      <4>1. q[k] = p[k] /\ q[k - 1] = p[k - 1] /\ uu[k] = tt[k]
            BY <2>2, <2>9, <3>2
      <4>2. /\ p[k - 1] \in Nat /\ Len(tt[k]) \in Nat
            /\ p[k] = p[k - 1] + Len(tt[k]) /\ p[k] <= Len(flat)
        <5>1. k - 1 \in 0 .. n
              BY <2>2, <3>2
        <5>2. QED
              BY <2>2, <2>5, <3>2, <5>1
      <4>3. \A i \in 1 .. Len(tt[k]) : p[k - 1] + i \in 1 .. Len(flat)
        <5>1. Len(flat) \in Nat
              BY <2>4
        <5>2. QED
              BY <4>2, <5>1, Within
      <4>4. \A i \in 1 .. Len(tt[k]) : more[p[k - 1] + i] = tt[k][i]
            BY <2>4, <2>6, <3>2, <4>3
      <4>5. QED
            BY <2>4, <2>8, <4>1, <4>2, <4>4
    <3>3. QED
          BY <2>2, <3>1, <3>2
  <2>11. Places(q, uu)
         BY <2>2, <2>7, <2>8, <2>10 DEF Places, more
  <2>12. QED
         BY <2>11 DEF uu
<1> HIDE DEF Placed
<1>3. <<>> \in T /\ \A tt \in Seq(Seq(S)) \cap T, s \in Seq(S) : Append(tt, s) \in T
  <2>1. <<>> \in Seq(Seq(S))
        BY EmptySeq
  <2>2. QED
        BY <1>1, <1>2, <2>1
<1> HIDE DEF T
<1>4. Seq(Seq(S)) \subseteq T
      BY <1>3, SequenceInduction
<1>5. QED
      BY <1>4 DEF T, Placed
=============================================================================
