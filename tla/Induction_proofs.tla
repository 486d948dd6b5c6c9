-------------------------- MODULE Induction_proofs --------------------------
(***************************************************************************)
(* Induction on the naturals, stated with sets, from the well-foundedness  *)
(* of <: what a recursive function is at every argument follows from it.   *)
(***************************************************************************)
EXTENDS Chains, WellFoundedInduction, SequenceTheorems, TLAPS

(* Every set of naturals that is not empty has a least element.            *)
LEMMA Least ==
    ASSUME NEW T \in SUBSET Nat, T # {}
    PROVE  \E x \in T : \A y \in T : x <= y
  <1> DEFINE R == OpToRel(<, Nat)
  <1>1. IsWellFoundedOn(R, Nat)
      BY NatLessThanWellFounded
  <1>2. \A x, y \in Nat : y < x => <<y, x>> \in R
      BY DEF OpToRel
  <1> HIDE DEF R
  <1>3. PICK x \in T : \A y \in T : ~(<<y, x>> \in R)
      BY <1>1, WFMin
  <1>4. \A y \in T : ~(y < x)
      BY <1>2, <1>3
  <1>5. \A y \in T : x <= y
      BY <1>4
  <1> QED
      BY <1>5

(* A set that holds zero and the successors of what it holds is Nat.      *)
LEMMA Induction ==
    ASSUME NEW S \in SUBSET Nat, 0 \in S, \A n \in S : n + 1 \in S
    PROVE  S = Nat
  <1>1. ASSUME Nat \ S # {} PROVE FALSE
    <2>1. PICK x \in Nat \ S : \A y \in Nat \ S : x <= y
        BY <1>1, Least
    <2> QED
        BY <2>1, x - 1 \notin Nat \ S \/ x = 0
  <1> QED
      BY <1>1
-----------------------------------------------------------------------------
(* Sequences strung together *)

LEMMA StrungIs ==
    ASSUME NEW ss, Len(ss) \in Nat
    PROVE  /\ Strung(ss)[0] = <<>>
           /\ \A i \in 1 .. Len(ss) : Strung(ss)[i] = Strung(ss)[i - 1] \o ss[i]
    <1> DEFINE Upto(k, g) == g = [i \in 0 .. k |-> IF i = 0 THEN <<>> ELSE g[i - 1] \o ss[i]]
               S == {k \in Nat : \E g : Upto(k, g)}
    <1>1. 0 \in S
        <2>1. Upto(0, [i \in 0 .. 0 |-> <<>>])
            OBVIOUS
        <2> QED
            BY <2>1
    <1>2. ASSUME NEW n \in S PROVE n + 1 \in S
        <2>1. PICK g : Upto(n, g)
            OBVIOUS
        <2> DEFINE h == [i \in 0 .. (n + 1) |-> IF i = n + 1 THEN g[n] \o ss[n + 1] ELSE g[i]]
        <2>2. ASSUME NEW i \in 0 .. (n + 1)
              PROVE  h[i] = IF i = 0 THEN <<>> ELSE h[i - 1] \o ss[i]
            <3>1. CASE i = n + 1
                BY <3>1
            <3>2. CASE i # n + 1
                <4>1. i \in 0 .. n /\ h[i] = g[i] /\ (i # 0 => i - 1 \in 0 .. n /\ h[i - 1] = g[i - 1])
                    BY <3>2
                <4> QED
                    BY <2>1, <4>1
            <3> QED
                BY <3>1, <3>2
        <2>3. Upto(n + 1, h)
            BY <2>2
        <2> HIDE DEF h
        <2>4. \E f : Upto(n + 1, f)
            BY <2>3
        <2> HIDE DEF Upto
        <2> QED
            BY <2>4
    <1>3. S = Nat
        BY <1>1, <1>2, Induction
    <1>4. \E g : Upto(Len(ss), g)
        BY <1>3
    <1>5. Upto(Len(ss), Strung(ss))
        BY <1>4 DEF Strung
    <1> DEFINE whole == Strung(ss)
    <1>6. whole = [i \in 0 .. Len(ss) |-> IF i = 0 THEN <<>> ELSE whole[i - 1] \o ss[i]]
        BY <1>5
    <1> HIDE DEF whole
    <1>7. whole[0] = <<>>
        BY <1>6
    <1>8. ASSUME NEW i \in 1 .. Len(ss) PROVE whole[i] = whole[i - 1] \o ss[i]
        <2>1. i \in 0 .. Len(ss) /\ i # 0
            OBVIOUS
        <2> QED
            BY <1>6, <2>1
    <1> QED
        BY <1>7, <1>8 DEF whole

LEMMA StrungNext ==
    ASSUME NEW ss, Len(ss) \in Nat, NEW k \in Nat, k < Len(ss)
    PROVE  Strung(ss)[k + 1] = Strung(ss)[k] \o ss[k + 1]
    <1> DEFINE j == k + 1
    <1>1. j \in 1 .. Len(ss) /\ j - 1 = k
        OBVIOUS
    <1>2. \A i \in 1 .. Len(ss) : Strung(ss)[i] = Strung(ss)[i - 1] \o ss[i]
        BY StrungIs, Zenon
    <1> HIDE DEF j
    <1>3. Strung(ss)[j] = Strung(ss)[j - 1] \o ss[j]
        BY <1>1, <1>2, Zenon
    <1>4. Strung(ss)[j] = Strung(ss)[k] \o ss[j]
        BY <1>1, <1>3, Zenon
    <1> QED
        BY <1>4, Zenon DEF j

LEMMA StrungStart ==
    ASSUME NEW ss, Len(ss) \in Nat
    PROVE  Strung(ss)[0] = <<>>
    BY StrungIs

LEMMA StrungSame ==
    ASSUME NEW ss, NEW tt, Len(ss) \in Nat, Len(tt) \in Nat, NEW n \in Nat,
           n <= Len(ss), n <= Len(tt), \A i \in 1 .. n : ss[i] = tt[i]
    PROVE  Strung(ss)[n] = Strung(tt)[n]
    <1> DEFINE S == {k \in Nat : k <= n => Strung(ss)[k] = Strung(tt)[k]}
    <1>1. 0 \in S
        BY StrungStart
    <1>2. ASSUME NEW k \in S PROVE k + 1 \in S
        <2> SUFFICES ASSUME k + 1 <= n PROVE Strung(ss)[k + 1] = Strung(tt)[k + 1]
            OBVIOUS
        <2>1. k \in Nat /\ k < Len(ss) /\ k < Len(tt) /\ k + 1 \in 1 .. n
            OBVIOUS
        <2>2. Strung(ss)[k + 1] = Strung(ss)[k] \o ss[k + 1]
            BY <2>1, StrungNext
        <2>3. Strung(tt)[k + 1] = Strung(tt)[k] \o tt[k + 1]
            BY <2>1, StrungNext
        <2>4. Strung(ss)[k] = Strung(tt)[k] /\ ss[k + 1] = tt[k + 1]
            BY <2>1
        <2> QED
            BY <2>2, <2>3, <2>4, Zenon
    <1>3. S = Nat
        BY <1>1, <1>2, Induction
    <1> QED
        BY <1>3

LEMMA StrungType ==
    ASSUME NEW T, NEW ss, Len(ss) \in Nat, \A i \in 1 .. Len(ss) : ss[i] \in Seq(T)
    PROVE  \A n \in 0 .. Len(ss) : Strung(ss)[n] \in Seq(T)
    <1> DEFINE S == {k \in Nat : k <= Len(ss) => Strung(ss)[k] \in Seq(T)}
    <1>1. 0 \in S
        <2>1. Strung(ss)[0] = <<>>
            BY StrungStart
        <2>2. <<>> \in Seq(T)
            OBVIOUS
        <2> QED
            BY <2>1, <2>2
    <1>2. ASSUME NEW k \in S PROVE k + 1 \in S
        <2> SUFFICES ASSUME k + 1 <= Len(ss) PROVE Strung(ss)[k + 1] \in Seq(T)
            OBVIOUS
        <2>1. k \in Nat /\ k < Len(ss) /\ k + 1 \in 1 .. Len(ss)
            OBVIOUS
        <2>2. Strung(ss)[k + 1] = Strung(ss)[k] \o ss[k + 1]
            BY <2>1, StrungNext
        <2>3. Strung(ss)[k] \in Seq(T) /\ ss[k + 1] \in Seq(T)
            BY <2>1
        <2> QED
            BY <2>2, <2>3, ConcatProperties
    <1>3. S = Nat
        BY <1>1, <1>2, Induction
    <1> HIDE DEF S
    <1>4. \A n \in 0 .. Len(ss) : n \in S
        BY <1>3
    <1> QED
        BY <1>4 DEF S

\* The sequences all are the sequences ss, then the sequences tt.
Adjoined(T, ss, tt, all) ==
    /\ Len(ss) \in Nat /\ Len(tt) \in Nat /\ Len(all) = Len(ss) + Len(tt)
    /\ \A i \in 1 .. Len(all) : all[i] \in Seq(T)
    /\ \A i \in 1 .. Len(ss) : all[i] = ss[i]
    /\ \A i \in 1 .. Len(tt) : all[Len(ss) + i] = tt[i]

\* One whole is the other two, one after the other.
Spliced(ss, tt, all) == Strung(all)[Len(all)] = Strung(ss)[Len(ss)] \o Strung(tt)[Len(tt)]

LEMMA StrungConcat ==
    ASSUME NEW T, NEW ss, NEW tt, NEW all, Adjoined(T, ss, tt, all)
    PROVE  Spliced(ss, tt, all)
    <1> USE DEF Adjoined
    <1> DEFINE n == Len(ss)
               first == Strung(ss)[n]
               whole == Strung(all)
               rest == Strung(tt)
               Joint(k) == whole[n + k] = first \o rest[k]
               S == {k \in Nat : k <= Len(tt) => Joint(k)}
    <1>1. Len(all) \in Nat /\ n \in Nat /\ n <= Len(all) /\ n <= Len(ss)
        OBVIOUS
    <1>2. \A i \in 1 .. Len(ss) : ss[i] \in Seq(T)
        <2>1. \A i \in 1 .. Len(ss) : i \in 1 .. Len(all)
            OBVIOUS
        <2> QED
            BY <2>1
    <1>3. \A i \in 1 .. Len(tt) : tt[i] \in Seq(T)
        <2>1. \A i \in 1 .. Len(tt) : Len(ss) + i \in 1 .. Len(all)
            OBVIOUS
        <2> QED
            BY <2>1
    <1>4. Strung(ss)[n] \in Seq(T)
        <2>1. n \in 0 .. Len(ss)
            OBVIOUS
        <2> QED
            BY <1>2, <2>1, StrungType
    <1>5. \A k \in 0 .. Len(tt) : Strung(tt)[k] \in Seq(T)
        BY <1>3, StrungType
    <1>6. Strung(all)[n] = Strung(ss)[n]
        <2>1. \A i \in 1 .. n : all[i] = ss[i]
            OBVIOUS
        <2> HIDE DEF n
        <2> QED
            BY <1>1, <2>1, StrungSame
    <1> HIDE DEF n, Joint
    <1>7. 0 \in S
        <2>1. n + 0 = n
            BY <1>1
        <2>2. Strung(tt)[0] = <<>>
            BY StrungStart
        <2>3. Strung(ss)[n] \o <<>> = Strung(ss)[n]
            BY <1>4, ConcatEmptySeq
        <2>4. Joint(0)
            BY <1>6, <2>1, <2>2, <2>3 DEF Joint
        <2> QED
            BY <2>4
    <1>8. ASSUME NEW k \in S PROVE k + 1 \in S
        <2> SUFFICES ASSUME k + 1 <= Len(tt)
                     PROVE  Joint(k + 1)
            OBVIOUS
        <2>1. k \in Nat /\ k < Len(tt) /\ k + 1 \in 1 .. Len(tt) /\ k \in 0 .. Len(tt)
            OBVIOUS
        <2> DEFINE j == n + k
        <2>2. j \in Nat /\ j < Len(all) /\ j + 1 = n + (k + 1)
            BY <1>1, <2>1 DEF n
        <2>9. Joint(k)
            BY <2>1
        <2>3. Strung(all)[j] = Strung(ss)[n] \o Strung(tt)[k]
            BY <2>9 DEF Joint
        <2> HIDE DEF j
        <2>4. Strung(all)[j + 1] = Strung(all)[j] \o all[j + 1]
            BY <1>1, <2>2, StrungNext
        <2>5. Strung(tt)[k + 1] = Strung(tt)[k] \o tt[k + 1]
            BY <2>1, StrungNext
        <2>6. all[j + 1] = tt[k + 1]
            BY <2>1, <2>2 DEF n
        <2>7. Strung(tt)[k] \in Seq(T) /\ tt[k + 1] \in Seq(T)
            BY <1>3, <1>5, <2>1
        <2>8. (Strung(ss)[n] \o Strung(tt)[k]) \o tt[k + 1]
              = Strung(ss)[n] \o (Strung(tt)[k] \o tt[k + 1])
            <3> DEFINE x == Strung(ss)[n]
                       y == Strung(tt)[k]
                       z == tt[k + 1]
            <3>1. x \in Seq(T) /\ y \in Seq(T) /\ z \in Seq(T)
                BY <1>4, <2>7
            <3> HIDE DEF x, y, z
            <3>2. (x \o y) \o z = x \o (y \o z)
                BY <3>1, ConcatAssociative
            <3> QED
                BY <3>2 DEF x, y, z
        <2> QED
            BY <2>2, <2>3, <2>4, <2>5, <2>6, <2>8 DEF Joint
    <1>9. S = Nat
        BY <1>7, <1>8, Induction
    <1>10. Joint(Len(tt))
        BY <1>9
    <1> QED
        BY <1>10 DEF Joint, n, Spliced
=============================================================================
