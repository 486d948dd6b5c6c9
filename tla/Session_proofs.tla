--------------------------- MODULE Session_proofs ---------------------------
(***************************************************************************)
(* The undo history keeps its promise for every document, every set of     *)
(* commands and every depth: it implements UndoLog, step by step, and the  *)
(* dirty flag it carries along never denies an edit (module History).      *)
(* The session built on it (module Session) keeps, for every set of        *)
(* project files and every drawing the disk may hold, one run in flight, a *)
(* bar that shows it, and a program tagged with the dialect of now.        *)
(***************************************************************************)
EXTENDS Session, Induction_proofs, SequenceTheorems, TLAPS

-----------------------------------------------------------------------------
(* The documents a sequence of patches shows                               *)

(* Shown is what its recursive definition says.                            *)
LEMMA ShownIs ==
    ASSUME NEW d, NEW ps, Len(ps) \in Nat
    PROVE  /\ Shown(d, ps)[0] = d
           /\ \A i \in 1..Len(ps) : Shown(d, ps)[i] = Patched(Shown(d, ps)[i - 1], ps[i])
  <1> DEFINE Upto(k, g) == g = [i \in 0..k |-> IF i = 0 THEN d ELSE Patched(g[i - 1], ps[i])]
             S == {k \in Nat : \E g : Upto(k, g)}
  <1>1. 0 \in S
    <2>1. Upto(0, [i \in 0..0 |-> d])
        OBVIOUS
    <2> QED
        BY <2>1
  <1>2. ASSUME NEW n \in S PROVE n + 1 \in S
    <2>1. PICK g : Upto(n, g)
        OBVIOUS
    <2> DEFINE h == [i \in 0..(n + 1) |-> IF i = n + 1 THEN Patched(g[n], ps[n + 1]) ELSE g[i]]
    <2>2. ASSUME NEW i \in 0..(n + 1)
          PROVE  h[i] = IF i = 0 THEN d ELSE Patched(h[i - 1], ps[i])
      <3>1. CASE i = n + 1
          BY <3>1
      <3>2. CASE i # n + 1
        <4>1. i \in 0..n /\ h[i] = g[i] /\ (i # 0 => i - 1 \in 0..n /\ h[i - 1] = g[i - 1])
            BY <3>2
        <4> QED
            BY <2>1, <4>1
      <3> QED
          BY <3>1, <3>2
    <2>3. Upto(n + 1, h)
        BY <2>2
    <2> HIDE DEF h
    <2>4. \E f : Upto(n + 1, f)
        BY <2>3
    <2> HIDE DEF Upto
    <2> QED
        BY <2>4
  <1>3. S = Nat
      BY <1>1, <1>2, Induction
  <1>4. \E g : Upto(Len(ps), g)
      BY <1>3
  <1>5. Upto(Len(ps), Shown(d, ps))
      BY <1>4 DEF Shown
  <1> QED
      BY <1>5

(* A sequence that lacks the first patch (k = 1) or the last (k = 0) shows *)
(* the same documents, begun after the first or at the start.              *)
Shifted(ps, qs, k) ==
    Len(qs) \in Nat /\ Len(ps) = Len(qs) + 1 /\ \A i \in 1..Len(qs) : qs[i] = ps[i + k]

ShowsFrom(d, ps, qs, k) ==
    \A i \in 0..Len(qs) : Shown(Shown(d, ps)[k], qs)[i] = Shown(d, ps)[i + k]

LEMMA ShownShift ==
    ASSUME NEW d, NEW ps, NEW qs, NEW k \in {0, 1}, Shifted(ps, qs, k)
    PROVE  ShowsFrom(d, ps, qs, k)
  <1> USE DEF Shifted, ShowsFrom
  <1> DEFINE e == Shown(d, ps)[k]
             S == {i \in Nat : i <= Len(qs) => Shown(e, qs)[i] = Shown(d, ps)[i + k]}
  <1>1. 0 \in S
      BY ShownIs
  <1>2. ASSUME NEW n \in S PROVE n + 1 \in S
    <2> SUFFICES ASSUME n + 1 <= Len(qs) PROVE Shown(e, qs)[n + 1] = Shown(d, ps)[n + 1 + k]
        OBVIOUS
    <2>1. n + 1 \in 1..Len(qs) /\ n + 1 + k \in 1..Len(ps)
        OBVIOUS
    <2>2. Shown(e, qs)[n + 1] = Patched(Shown(e, qs)[n], qs[n + 1])
        BY <2>1, ShownIs, n + 1 - 1 = n
    <2>3. Shown(d, ps)[n + 1 + k] = Patched(Shown(d, ps)[n + k], ps[n + 1 + k])
        BY <2>1, ShownIs, n + 1 + k - 1 = n + k
    <2> QED
        BY <2>2, <2>3
  <1>3. S = Nat
      BY <1>1, <1>2, Induction
  <1> HIDE DEF S
  <1>4. \A i \in 0..Len(qs) : i \in S
      BY <1>3
  <1> QED
      BY <1>4 DEF S

-----------------------------------------------------------------------------
(* Stacks, and the documents undo and redo read off them.  A document      *)
(* agrees with a patch that would not change it.                           *)

Agrees(d, p) == \A f \in DOMAIN p : d[f] = p[f]

PastOf(d, s) == [i \in 1..Len(s) |-> Shown(d, Undoes(s))[Len(s) + 1 - i]]
FutureOf(d, s) == [i \in 1..Len(s) |-> Shown(d, Redoes(s))[i]]

(* Each entry's apply, and each entry's revert, is done at the document it *)
(* leads to.                                                               *)
Applied(d, s) ==
    \A i \in 1..Len(s) : Agrees(Shown(d, Undoes(s))[i - 1], s[Len(s) + 1 - i].sets)
Reverted(d, s) ==
    \A i \in 1..Len(s) : Agrees(Shown(d, Redoes(s))[i - 1], s[Len(s) + 1 - i].undoes)

LEMMA PatchesAre ==
    ASSUME NEW s, Len(s) \in Nat
    PROVE  /\ Len(Undoes(s)) = Len(s) /\ Len(Redoes(s)) = Len(s)
           /\ \A i \in 1..Len(s) : /\ Undoes(s)[i] = s[Len(s) + 1 - i].undoes
                                   /\ Redoes(s)[i] = s[Len(s) + 1 - i].sets
  BY DEF Undoes, Redoes

LEMMA ShownOfStack ==
    ASSUME NEW s, Len(s) \in Nat, NEW d
    PROVE  /\ Shown(d, Undoes(s))[0] = d /\ Shown(d, Redoes(s))[0] = d
           /\ \A i \in 1..Len(s) :
                /\ Shown(d, Undoes(s))[i] =
                     Patched(Shown(d, Undoes(s))[i - 1], s[Len(s) + 1 - i].undoes)
                /\ Shown(d, Redoes(s))[i] =
                     Patched(Shown(d, Redoes(s))[i - 1], s[Len(s) + 1 - i].sets)
  BY PatchesAre, ShownIs

LEMMA NoStack ==
    ASSUME NEW d
    PROVE  PastOf(d, <<>>) = <<>> /\ FutureOf(d, <<>>) = <<>>
           /\ Applied(d, <<>>) /\ Reverted(d, <<>>)
  BY DEF PastOf, FutureOf, Applied, Reverted

(* A stack with an entry more on top: the documents of the stack below are *)
(* those of the stack on its own, from the document the entry leads to.    *)
LEMMA OneMore ==
    ASSUME NEW S, NEW s \in Seq(S), NEW e \in S, NEW d
    PROVE  LET t == Append(s, e)
               back == Patched(d, e.undoes)
               ahead == Patched(d, e.sets)
           IN  /\ Len(t) = Len(s) + 1
               /\ Shown(d, Undoes(t))[0] = d /\ Shown(d, Redoes(t))[0] = d
               /\ \A i \in 0..Len(s) : /\ Shown(d, Undoes(t))[i + 1] = Shown(back, Undoes(s))[i]
                                       /\ Shown(d, Redoes(t))[i + 1] = Shown(ahead, Redoes(s))[i]
  <1> DEFINE t == Append(s, e)
             back == Patched(d, e.undoes)
             ahead == Patched(d, e.sets)
  <1>1. /\ Len(s) \in Nat /\ Len(t) \in Nat /\ Len(t) = Len(s) + 1
        /\ t[Len(t)] = e /\ \A i \in 1..Len(s) : t[i] = s[i]
      OBVIOUS
  <1> HIDE DEF t
  <1>2. /\ Shown(d, Undoes(t))[0] = d /\ Shown(d, Undoes(t))[1] = back
        /\ Shown(d, Redoes(t))[0] = d /\ Shown(d, Redoes(t))[1] = ahead
    <2>1. 1 \in 1..Len(t) /\ Len(t) + 1 - 1 = Len(t) /\ 1 - 1 = 0
        BY <1>1
    <2> QED
        BY <1>1, <2>1, ShownOfStack
  <1>3. \A i \in 1..Len(s) : Undoes(s)[i] = Undoes(t)[i + 1] /\ Redoes(s)[i] = Redoes(t)[i + 1]
    <2>1. ASSUME NEW i \in 1..Len(s)
          PROVE  Undoes(s)[i] = Undoes(t)[i + 1] /\ Redoes(s)[i] = Redoes(t)[i + 1]
      <3>1. i + 1 \in 1..Len(t) /\ Len(t) + 1 - (i + 1) = Len(s) + 1 - i
            /\ Len(s) + 1 - i \in 1..Len(s)
          BY <1>1
      <3>2. /\ Undoes(s)[i] = s[Len(s) + 1 - i].undoes
            /\ Redoes(s)[i] = s[Len(s) + 1 - i].sets
          BY <1>1, PatchesAre
      <3>3. /\ Undoes(t)[i + 1] = t[Len(t) + 1 - (i + 1)].undoes
            /\ Redoes(t)[i + 1] = t[Len(t) + 1 - (i + 1)].sets
          BY <1>1, <3>1, PatchesAre
      <3> QED
          BY <1>1, <3>1, <3>2, <3>3
    <2> QED
        BY <2>1
  <1>4. Len(Undoes(s)) = Len(s) /\ Len(Undoes(t)) = Len(t)
        /\ Len(Redoes(s)) = Len(s) /\ Len(Redoes(t)) = Len(t)
      BY <1>1, PatchesAre
  <1>5. \A i \in 0..Len(s) : Shown(back, Undoes(s))[i] = Shown(d, Undoes(t))[i + 1]
    <2> DEFINE ps == Undoes(t)
               qs == Undoes(s)
    <2>1. Len(qs) = Len(s) /\ back = Shown(d, ps)[1] /\ Shifted(ps, qs, 1)
        BY <1>1, <1>2, <1>3, <1>4 DEF Shifted
    <2> HIDE DEF back, ps, qs
    <2>2. \A i \in 0..Len(qs) : Shown(Shown(d, ps)[1], qs)[i] = Shown(d, ps)[i + 1]
        BY <2>1, ShownShift DEF ShowsFrom
    <2> QED
        BY <2>1, <2>2 DEF ps, qs
  <1>6. \A i \in 0..Len(s) : Shown(ahead, Redoes(s))[i] = Shown(d, Redoes(t))[i + 1]
    <2> DEFINE ps == Redoes(t)
               qs == Redoes(s)
    <2>1. Len(qs) = Len(s) /\ ahead = Shown(d, ps)[1] /\ Shifted(ps, qs, 1)
        BY <1>1, <1>2, <1>3, <1>4 DEF Shifted
    <2> HIDE DEF ahead, ps, qs
    <2>2. \A i \in 0..Len(qs) : Shown(Shown(d, ps)[1], qs)[i] = Shown(d, ps)[i + 1]
        BY <2>1, ShownShift DEF ShowsFrom
    <2> QED
        BY <2>1, <2>2 DEF ps, qs
  <1>7. /\ Len(t) = Len(s) + 1
        /\ Shown(d, Undoes(t))[0] = d /\ Shown(d, Redoes(t))[0] = d
        /\ \A i \in 0..Len(s) : /\ Shown(d, Undoes(t))[i + 1] = Shown(back, Undoes(s))[i]
                                /\ Shown(d, Redoes(t))[i + 1] = Shown(ahead, Redoes(s))[i]
      BY <1>1, <1>2, <1>5, <1>6
  <1> QED
      BY <1>7 DEF t

LEMMA OneMoreToUndo ==
    ASSUME NEW S, NEW s \in Seq(S), NEW e \in S, NEW d
    PROVE  LET back == Patched(d, e.undoes)
           IN  /\ Applied(d, Append(s, e)) <=> Agrees(d, e.sets) /\ Applied(back, s)
               /\ PastOf(d, Append(s, e)) = Append(PastOf(back, s), back)
  <1> DEFINE t == Append(s, e)
             back == Patched(d, e.undoes)
  <1>1. /\ Len(s) \in Nat /\ Len(t) = Len(s) + 1
        /\ t[Len(t)] = e /\ \A i \in 1..Len(s) : t[i] = s[i]
      OBVIOUS
  <1>2. /\ Shown(d, Undoes(t))[0] = d
        /\ \A i \in 0..Len(s) : Shown(d, Undoes(t))[i + 1] = Shown(back, Undoes(s))[i]
      BY OneMore
  <1>3. Shown(back, Undoes(s))[0] = back
      BY <1>1, ShownOfStack
  <1> HIDE DEF t, back
  <1>4. Applied(d, t) <=> Agrees(d, e.sets) /\ Applied(back, s)
    <2>1. ASSUME Applied(d, t) PROVE Agrees(d, e.sets) /\ Applied(back, s)
      <3>1. Agrees(Shown(d, Undoes(t))[1 - 1], t[Len(t) + 1 - 1].sets)
          BY <1>1, <2>1 DEF Applied
      <3>2. ASSUME NEW i \in 1..Len(s)
            PROVE  Agrees(Shown(back, Undoes(s))[i - 1], s[Len(s) + 1 - i].sets)
        <4>1. i + 1 \in 1..Len(t) /\ i + 1 - 1 = i - 1 + 1 /\ i - 1 \in 0..Len(s)
              /\ Len(t) + 1 - (i + 1) = Len(s) + 1 - i /\ Len(s) + 1 - i \in 1..Len(s)
            BY <1>1
        <4>2. Agrees(Shown(d, Undoes(t))[i + 1 - 1], t[Len(t) + 1 - (i + 1)].sets)
            BY <2>1, <4>1 DEF Applied
        <4> QED
            BY <1>1, <1>2, <4>1, <4>2
      <3> QED
          BY <1>1, <1>2, <3>1, <3>2 DEF Applied
    <2>2. ASSUME Agrees(d, e.sets), Applied(back, s) PROVE Applied(d, t)
      <3> SUFFICES ASSUME NEW i \in 1..Len(t)
                   PROVE  Agrees(Shown(d, Undoes(t))[i - 1], t[Len(t) + 1 - i].sets)
          BY DEF Applied
      <3>1. CASE i = 1
          BY <1>1, <1>2, <2>2, <3>1
      <3>2. CASE i # 1
        <4>1. i - 1 \in 1..Len(s) /\ i - 2 \in 0..Len(s) /\ i - 1 = i - 2 + 1
              /\ i - 1 - 1 = i - 2
              /\ Len(s) + 1 - (i - 1) = Len(t) + 1 - i /\ Len(t) + 1 - i \in 1..Len(s)
            BY <1>1, <3>2
        <4>2. Agrees(Shown(back, Undoes(s))[i - 1 - 1], s[Len(s) + 1 - (i - 1)].sets)
            BY <2>2, <4>1 DEF Applied
        <4> QED
            BY <1>1, <1>2, <4>1, <4>2
      <3> QED
          BY <3>1, <3>2
    <2> QED
        BY <2>1, <2>2
  <1>5. PastOf(d, t) = Append(PastOf(back, s), back)
    <2>1. Len(PastOf(back, s)) = Len(s)
          /\ PastOf(back, s) = [i \in 1..Len(s) |-> Shown(back, Undoes(s))[Len(s) + 1 - i]]
        BY <1>1 DEF PastOf
    <2>2. Append(PastOf(back, s), back) =
             [i \in 1..(Len(s) + 1) |-> IF i = Len(s) + 1 THEN back
                                        ELSE Shown(back, Undoes(s))[Len(s) + 1 - i]]
        BY <1>1, <2>1
    <2>3. ASSUME NEW i \in 1..(Len(s) + 1)
          PROVE  Shown(d, Undoes(t))[Len(t) + 1 - i] =
                   IF i = Len(s) + 1 THEN back ELSE Shown(back, Undoes(s))[Len(s) + 1 - i]
      <3>1. Len(s) + 1 - i \in 0..Len(s) /\ Len(t) + 1 - i = Len(s) + 1 - i + 1
          BY <1>1
      <3> QED
          BY <1>1, <1>2, <1>3, <3>1
    <2> QED
        BY <1>1, <2>2, <2>3 DEF PastOf
  <1> QED
      BY <1>4, <1>5 DEF t, back

LEMMA OneMoreToRedo ==
    ASSUME NEW S, NEW s \in Seq(S), NEW e \in S, NEW d
    PROVE  LET ahead == Patched(d, e.sets)
           IN  /\ Reverted(d, Append(s, e)) <=> Agrees(d, e.undoes) /\ Reverted(ahead, s)
               /\ FutureOf(d, Append(s, e)) = <<ahead>> \o FutureOf(ahead, s)
  <1> DEFINE t == Append(s, e)
             ahead == Patched(d, e.sets)
  <1>1. /\ Len(s) \in Nat /\ Len(t) = Len(s) + 1
        /\ t[Len(t)] = e /\ \A i \in 1..Len(s) : t[i] = s[i]
      OBVIOUS
  <1>2. /\ Shown(d, Redoes(t))[0] = d
        /\ \A i \in 0..Len(s) : Shown(d, Redoes(t))[i + 1] = Shown(ahead, Redoes(s))[i]
      BY OneMore
  <1>3. Shown(ahead, Redoes(s))[0] = ahead
      BY <1>1, ShownOfStack
  <1> HIDE DEF t, ahead
  <1>4. Reverted(d, t) <=> Agrees(d, e.undoes) /\ Reverted(ahead, s)
    <2>1. ASSUME Reverted(d, t) PROVE Agrees(d, e.undoes) /\ Reverted(ahead, s)
      <3>1. Agrees(Shown(d, Redoes(t))[1 - 1], t[Len(t) + 1 - 1].undoes)
          BY <1>1, <2>1 DEF Reverted
      <3>2. ASSUME NEW i \in 1..Len(s)
            PROVE  Agrees(Shown(ahead, Redoes(s))[i - 1], s[Len(s) + 1 - i].undoes)
        <4>1. i + 1 \in 1..Len(t) /\ i + 1 - 1 = i - 1 + 1 /\ i - 1 \in 0..Len(s)
              /\ Len(t) + 1 - (i + 1) = Len(s) + 1 - i /\ Len(s) + 1 - i \in 1..Len(s)
            BY <1>1
        <4>2. Agrees(Shown(d, Redoes(t))[i + 1 - 1], t[Len(t) + 1 - (i + 1)].undoes)
            BY <2>1, <4>1 DEF Reverted
        <4> QED
            BY <1>1, <1>2, <4>1, <4>2
      <3> QED
          BY <1>1, <1>2, <3>1, <3>2 DEF Reverted
    <2>2. ASSUME Agrees(d, e.undoes), Reverted(ahead, s) PROVE Reverted(d, t)
      <3> SUFFICES ASSUME NEW i \in 1..Len(t)
                   PROVE  Agrees(Shown(d, Redoes(t))[i - 1], t[Len(t) + 1 - i].undoes)
          BY DEF Reverted
      <3>1. CASE i = 1
          BY <1>1, <1>2, <2>2, <3>1
      <3>2. CASE i # 1
        <4>1. i - 1 \in 1..Len(s) /\ i - 2 \in 0..Len(s) /\ i - 1 = i - 2 + 1
              /\ i - 1 - 1 = i - 2
              /\ Len(s) + 1 - (i - 1) = Len(t) + 1 - i /\ Len(t) + 1 - i \in 1..Len(s)
            BY <1>1, <3>2
        <4>2. Agrees(Shown(ahead, Redoes(s))[i - 1 - 1], s[Len(s) + 1 - (i - 1)].undoes)
            BY <2>2, <4>1 DEF Reverted
        <4> QED
            BY <1>1, <1>2, <4>1, <4>2
      <3> QED
          BY <3>1, <3>2
    <2> QED
        BY <2>1, <2>2
  <1>5. FutureOf(d, t) = <<ahead>> \o FutureOf(ahead, s)
    <2>1. Len(FutureOf(ahead, s)) = Len(s)
          /\ FutureOf(ahead, s) = [i \in 1..Len(s) |-> Shown(ahead, Redoes(s))[i]]
        BY <1>1 DEF FutureOf
    <2>2. <<ahead>> \o FutureOf(ahead, s) =
             [i \in 1..(Len(s) + 1) |-> IF i = 1 THEN ahead ELSE Shown(ahead, Redoes(s))[i - 1]]
        BY <1>1, <2>1
    <2>3. ASSUME NEW i \in 1..(Len(s) + 1)
          PROVE  Shown(d, Redoes(t))[i] =
                   IF i = 1 THEN ahead ELSE Shown(ahead, Redoes(s))[i - 1]
      <3>1. i - 1 \in 0..Len(s) /\ i = i - 1 + 1
          BY <1>1
      <3> QED
          BY <1>2, <1>3, <3>1
    <2> QED
        BY <1>1, <2>2, <2>3 DEF FutureOf
  <1> QED
      BY <1>4, <1>5 DEF t, ahead

(* The oldest entry falls off.                                             *)
LEMMA OneLess ==
    ASSUME NEW S, NEW s \in Seq(S), s # <<>>, NEW d, Applied(d, s)
    PROVE  Applied(d, Tail(s)) /\ PastOf(d, Tail(s)) = Tail(PastOf(d, s))
  <1> DEFINE t == Tail(s)
             ps == Undoes(s)
             qs == Undoes(t)
  <1>1. /\ Len(s) \in Nat /\ Len(t) \in Nat /\ Len(s) = Len(t) + 1
        /\ \A i \in 1..Len(t) : t[i] = s[i + 1]
      OBVIOUS
  <1> HIDE DEF t
  <1>2. Len(ps) = Len(s) /\ Len(qs) = Len(t)
      BY <1>1, PatchesAre
  <1>3. ASSUME NEW i \in 1..Len(t) PROVE t[Len(t) + 1 - i] = s[Len(s) + 1 - i] /\ qs[i] = ps[i]
    <2>1. /\ Len(t) + 1 - i \in 1..Len(t) /\ Len(t) + 1 - i + 1 = Len(s) + 1 - i
          /\ i \in 1..Len(s)
        BY <1>1
    <2>2. t[Len(t) + 1 - i] = s[Len(s) + 1 - i]
        BY <1>1, <2>1
    <2>3. qs[i] = t[Len(t) + 1 - i].undoes /\ ps[i] = s[Len(s) + 1 - i].undoes
        BY <1>1, <2>1, PatchesAre
    <2> QED
        BY <2>2, <2>3
  <1>4. Shifted(ps, qs, 0)
      BY <1>1, <1>2, <1>3 DEF Shifted
  <1>5. Shown(d, ps)[0] = d
      BY <1>1, ShownOfStack
  <1> HIDE DEF ps, qs
  <1>6. ShowsFrom(d, ps, qs, 0)
      BY <1>4, ShownShift
  <1>7. \A i \in 0..Len(t) : Shown(d, qs)[i] = Shown(d, ps)[i]
      BY <1>1, <1>2, <1>5, <1>6 DEF ShowsFrom
  <1>8. Applied(d, t)
    <2>1. ASSUME NEW i \in 1..Len(t)
          PROVE  Agrees(Shown(d, qs)[i - 1], t[Len(t) + 1 - i].sets)
      <3>1. i \in 1..Len(s) /\ i - 1 \in 0..Len(t)
          BY <1>1
      <3>2. Agrees(Shown(d, ps)[i - 1], s[Len(s) + 1 - i].sets)
          BY <3>1 DEF Applied, ps
      <3> QED
          BY <1>3, <1>7, <3>1, <3>2
    <2> QED
        BY <2>1 DEF Applied, qs
  <1>9. PastOf(d, t) = Tail(PastOf(d, s))
    <2>1. PastOf(d, s) = [i \in 1..Len(s) |-> Shown(d, ps)[Len(s) + 1 - i]]
        BY DEF PastOf, ps
    <2>2. Tail(PastOf(d, s)) = [i \in 1..Len(t) |-> Shown(d, ps)[Len(s) + 1 - (i + 1)]]
        BY <1>1, <2>1
    <2>3. PastOf(d, t) = [i \in 1..Len(t) |-> Shown(d, qs)[Len(t) + 1 - i]]
        BY DEF PastOf, qs
    <2>4. ASSUME NEW i \in 1..Len(t)
          PROVE  Shown(d, qs)[Len(t) + 1 - i] = Shown(d, ps)[Len(s) + 1 - (i + 1)]
      <3>1. Len(t) + 1 - i \in 0..Len(t) /\ Len(s) + 1 - (i + 1) = Len(t) + 1 - i
          BY <1>1
      <3> QED
          BY <1>7, <3>1
    <2> QED
        BY <2>2, <2>3, <2>4
  <1> QED
      BY <1>8, <1>9 DEF t

(* The documents depend on the patches alone.                              *)
LEMMA SamePatches ==
    ASSUME NEW s, NEW t, Len(s) \in Nat, Len(t) = Len(s),
           \A i \in 1..Len(s) : t[i].sets = s[i].sets /\ t[i].undoes = s[i].undoes,
           NEW d
    PROVE  /\ PastOf(d, t) = PastOf(d, s) /\ FutureOf(d, t) = FutureOf(d, s)
           /\ Applied(d, s) => Applied(d, t)
           /\ Reverted(d, s) => Reverted(d, t)
  <1>1. \A i \in 1..Len(s) : Len(s) + 1 - i \in 1..Len(s)
      OBVIOUS
  <1>2. Undoes(t) = Undoes(s) /\ Redoes(t) = Redoes(s)
      BY <1>1 DEF Undoes, Redoes
  <1>3. PastOf(d, t) = PastOf(d, s) /\ FutureOf(d, t) = FutureOf(d, s)
      BY <1>2 DEF PastOf, FutureOf
  <1>4. Applied(d, s) => Applied(d, t)
      BY <1>1, <1>2 DEF Applied
  <1>5. Reverted(d, s) => Reverted(d, t)
      BY <1>1, <1>2 DEF Reverted
  <1> QED
      BY <1>3, <1>4, <1>5

LEMMA Elements == ASSUME NEW S, NEW s \in Seq(S) PROVE \A i \in DOMAIN s : s[i] \in S
  OBVIOUS

LEMMA TopOfStack ==
    ASSUME NEW S, NEW s \in Seq(S), s # <<>>
    PROVE  Front(s) \in Seq(S) /\ Last(s) \in S /\ s = Append(Front(s), Last(s))
  <1>1. Len(s) \in Nat \ {0} /\ Last(s) \in S
      BY DEF Last
  <1>2. Front(s) \in Seq(S) /\ Len(Front(s)) = Len(s) - 1
        /\ \A i \in 1..(Len(s) - 1) : Front(s)[i] = s[i]
    <2> DEFINE n == Len(s) - 1
    <2>1. n \in Nat /\ n <= Len(s) /\ \A i \in 1..n : s[i] \in S
        BY <1>1
    <2>2. Front(s) = SubSeq(s, 1, n)
        BY DEF Front
    <2> HIDE DEF n
    <2>3. 1 \in Int /\ n \in Int
        BY <2>1
    <2>4. /\ SubSeq(s, 1, n) \in Seq(S)
          /\ Len(SubSeq(s, 1, n)) = IF 1 <= n THEN n - 1 + 1 ELSE 0
          /\ \A i \in 1..(n - 1 + 1) : SubSeq(s, 1, n)[i] = s[1 + i - 1]
        BY <2>1, <2>3, SubSeqProperties
    <2>5. n - 1 + 1 = n /\ Len(SubSeq(s, 1, n)) = n
        BY <2>1, <2>4
    <2>6. ASSUME NEW i \in 1..n PROVE SubSeq(s, 1, n)[i] = s[i]
      <3>1. 1 + i - 1 = i /\ i \in 1..(n - 1 + 1)
          BY <2>1
      <3> QED
          BY <2>4, <3>1
    <2> QED
        BY <2>2, <2>4, <2>5, <2>6 DEF n
  <1> QED
      BY <1>1, <1>2 DEF Last

LEMMA SwapTop ==
    ASSUME NEW S, NEW s \in Seq(S), NEW e \in S, NEW w \in S, NEW t, t = Append(s, e)
    PROVE  Append(s, w) = [t EXCEPT ![Len(t)] = w]
  <1> DEFINE n == Len(s) + 1
  <1>1. /\ Append(s, e) \in Seq(S) /\ Len(Append(s, e)) = n /\ n \in 1..n /\ n \in Nat
        /\ \A i \in 1..Len(s) : Append(s, e)[i] = s[i]
      OBVIOUS
  <1>2. /\ Append(s, w) \in Seq(S) /\ Len(Append(s, w)) = n /\ Append(s, w)[n] = w
        /\ \A i \in 1..Len(s) : Append(s, w)[i] = s[i]
      OBVIOUS
  <1>3. \A i \in 1..n : i = n \/ i \in 1..Len(s)
      OBVIOUS
  <1>4. /\ t \in [1..n -> S] /\ Len(t) = n /\ Append(s, w) \in [1..n -> S]
        /\ \A i \in 1..Len(s) : t[i] = s[i]
      BY <1>1, <1>2, LenProperties
  <1> HIDE DEF n
  <1> QED
      BY <1>1, <1>2, <1>3, <1>4

(* The commands of one entry after another, as one patch.                  *)
LEMMA PatchOver ==
    ASSUME NEW p, NEW q
    PROVE  /\ DOMAIN Over(p, q) = DOMAIN p \cup DOMAIN q
           /\ \A f \in DOMAIN p : Over(p, q)[f] = p[f]
           /\ \A f \in DOMAIN q \ DOMAIN p : Over(p, q)[f] = q[f]
  BY DEF Over

LEMMA PatchesAreFunctions ==
    ASSUME NEW p
    PROVE  p \in Patches <=> /\ DOMAIN p \subseteq Fields /\ p = [f \in DOMAIN p |-> p[f]]
                             /\ \A f \in DOMAIN p : p[f] \in Values
  <1>1. ASSUME p \in Patches
        PROVE  /\ DOMAIN p \subseteq Fields /\ p = [f \in DOMAIN p |-> p[f]]
               /\ \A f \in DOMAIN p : p[f] \in Values
    <2>1. PICK fs \in SUBSET Fields : p \in [fs -> Values]
        BY <1>1 DEF Patches
    <2> QED
        BY <2>1
  <1>2. ASSUME DOMAIN p \subseteq Fields, p = [f \in DOMAIN p |-> p[f]],
               \A f \in DOMAIN p : p[f] \in Values
        PROVE  p \in Patches
    <2>1. p \in [DOMAIN p -> Values]
        BY <1>2
    <2> QED
        BY <1>2, <2>1 DEF Patches
  <1> QED
      BY <1>1, <1>2

LEMMA PatchOverIsPatch ==
    ASSUME NEW p \in Patches, NEW q \in Patches
    PROVE  Over(p, q) \in Patches
  <1>1. Over(p, q) = [f \in DOMAIN Over(p, q) |-> Over(p, q)[f]]
      BY DEF Over
  <1>2. /\ DOMAIN p \subseteq Fields /\ DOMAIN q \subseteq Fields
        /\ \A f \in DOMAIN p : p[f] \in Values
        /\ \A f \in DOMAIN q : q[f] \in Values
      BY PatchesAreFunctions
  <1>3. DOMAIN Over(p, q) \subseteq Fields /\ \A f \in DOMAIN Over(p, q) : Over(p, q)[f] \in Values
    <2>1. /\ DOMAIN Over(p, q) = DOMAIN p \cup DOMAIN q
          /\ \A f \in DOMAIN p : Over(p, q)[f] = p[f]
          /\ \A f \in DOMAIN q \ DOMAIN p : Over(p, q)[f] = q[f]
        BY DEF Over
    <2> QED
        BY <1>2, <2>1
  <1> QED
      BY <1>1, <1>3, PatchesAreFunctions

LEMMA TakenIsPatch ==
    ASSUME NEW d \in Docs, NEW fs \in SUBSET Fields
    PROVE  Taken(d, fs) \in Patches /\ DOMAIN Taken(d, fs) = fs
           /\ \A f \in fs : Taken(d, fs)[f] = d[f]
  BY DEF Taken, Docs, Patches

LEMMA PatchedIsDoc ==
    ASSUME NEW d \in Docs, NEW p \in Patches
    PROVE  Patched(d, p) \in Docs /\ DOMAIN p \subseteq Fields
           /\ \A f \in Fields : Patched(d, p)[f] = IF f \in DOMAIN p THEN p[f] ELSE d[f]
  BY PatchesAreFunctions DEF Patched, Docs

LEMMA EqualDocs ==
    ASSUME NEW d \in Docs, NEW e \in Docs, \A f \in Fields : d[f] = e[f]
    PROVE  d = e
  BY DEF Docs

-----------------------------------------------------------------------------
(* The invariant                                                           *)

HistoryTypes ==
    /\ doc \in Docs /\ dirty \in BOOLEAN
    /\ undoStack \in Seq(Entry) /\ redoStack \in Seq(Entry)
    /\ transaction \in Entry \cup {NoTransaction}
    /\ sinceCommand \in 0..CoalesceMs

(* Apply and revert of an entry write the same fields; an entry that may   *)
(* grow is one of a command with its key.                                  *)
Shaped(e) ==
    /\ DOMAIN e.undoes = DOMAIN e.sets
    /\ e.captures \subseteq DOMAIN e.sets
    /\ e.key # NoKey => \E c \in Commands : c.key = e.key /\ DOMAIN c.sets = DOMAIN e.sets

EntriesAreShaped ==
    /\ \A i \in DOMAIN undoStack : Shaped(undoStack[i])
    /\ \A i \in DOMAIN redoStack : Shaped(redoStack[i])
    /\ transaction # NoTransaction => Shaped(transaction) /\ transaction.key = NoKey

(* What was applied is applied, what was reverted is reverted.             *)
StacksFitTheDoc ==
    /\ Applied(Steady, undoStack)
    /\ Reverted(Steady, redoStack)
    /\ transaction # NoTransaction => Agrees(doc, transaction.sets)

HistoryInv == HistoryTypes /\ EntriesAreShaped /\ StacksFitTheDoc

(* Steady, Back and Ahead in the words of the lemmas above.                *)
LEMMA LogIs == Log!log = <<Steady, PastOf(Steady, undoStack), FutureOf(Steady, redoStack)>>
  BY DEF Log!log, PastOf, FutureOf, Back, Ahead

LEMMA CommandIs ==
    ASSUME NEW c \in Commands
    PROVE  /\ c.sets \in Patches /\ DOMAIN c.sets \subseteq Fields /\ DOMAIN c.sets # {}
           /\ c.marks \in BOOLEAN /\ c.snapshot \in BOOLEAN
  BY HistoryAssumption, PatchesAreFunctions

LEMMA WrappedIs ==
    ASSUME HistoryInv, NEW c \in Commands
    PROVE  /\ Wrapped(c) \in Entry /\ Shaped(Wrapped(c))
           /\ Patched(doc, c.sets) \in Docs
           /\ Agrees(Patched(doc, c.sets), c.sets)
           /\ Patched(Patched(doc, c.sets), Wrapped(c).undoes) = doc
  <1> DEFINE fs == DOMAIN c.sets
             d == Patched(doc, c.sets)
  <1>1. /\ c.sets \in Patches /\ fs \in SUBSET Fields
        /\ c.marks \in BOOLEAN /\ c.snapshot \in BOOLEAN
      BY CommandIs
  <1>2. doc \in Docs /\ dirty \in BOOLEAN
      BY DEF HistoryInv, HistoryTypes
  <1>3. Taken(doc, fs) \in Patches /\ DOMAIN Taken(doc, fs) = fs
        /\ \A f \in fs : Taken(doc, fs)[f] = doc[f]
      BY <1>1, <1>2, TakenIsPatch
  <1>4. d \in Docs /\ \A f \in Fields : d[f] = IF f \in fs THEN c.sets[f] ELSE doc[f]
      BY <1>1, <1>2, PatchedIsDoc
  <1>5. /\ Wrapped(c).sets = c.sets /\ Wrapped(c).undoes = Taken(doc, fs)
        /\ Wrapped(c).captures \subseteq fs /\ Wrapped(c).key = c.key
      BY DEF Wrapped
  <1>6. Wrapped(c) \in Entry
    <2>1. 0 \in 0..CoalesceMs
        BY HistoryAssumption
    <2> QED
        BY <1>1, <1>2, <1>3, <2>1 DEF Wrapped, Entry
  <1>7. Shaped(Wrapped(c))
      BY <1>3, <1>5 DEF Shaped
  <1>8. Patched(d, Taken(doc, fs)) = doc
    <2> HIDE DEF d, fs
    <2>1. /\ Patched(d, Taken(doc, fs)) \in Docs
          /\ \A f \in Fields : Patched(d, Taken(doc, fs))[f] =
                IF f \in fs THEN Taken(doc, fs)[f] ELSE d[f]
        BY <1>3, <1>4, PatchedIsDoc
    <2> QED
        BY <1>2, <1>3, <1>4, <2>1, EqualDocs
  <1>9. Agrees(d, c.sets)
      BY <1>1, <1>4 DEF Agrees
  <1> QED
      BY <1>4, <1>5, <1>6, <1>7, <1>8, <1>9

(* One more command in a transaction: the document under it stands still.  *)
LEMMA JoinedIs ==
    ASSUME HistoryInv, NEW c \in Commands, transaction # NoTransaction
    PROVE  LET t == Joined(transaction, Wrapped(c))
               d == Patched(doc, c.sets)
           IN  /\ t \in Entry /\ Shaped(t) /\ t.key = NoKey
               /\ Agrees(d, t.sets)
               /\ Patched(d, t.undoes) = Patched(doc, transaction.undoes)
  <1> DEFINE w == Wrapped(c)
             t == Joined(transaction, w)
             d == Patched(doc, c.sets)
  <1>1. w \in Entry /\ Shaped(w) /\ d \in Docs
      BY WrappedIs
  <1>2. transaction \in Entry /\ Shaped(transaction) /\ doc \in Docs
        /\ Agrees(doc, transaction.sets)
      BY DEF HistoryInv, HistoryTypes, EntriesAreShaped, StacksFitTheDoc
  <1>3. w.sets = c.sets /\ w.undoes = Taken(doc, DOMAIN c.sets)
      BY DEF Wrapped
  <1>4. /\ c.sets \in Patches /\ DOMAIN c.sets \subseteq Fields
        /\ DOMAIN w.undoes = DOMAIN c.sets
        /\ \A f \in DOMAIN c.sets : w.undoes[f] = doc[f]
      BY <1>2, <1>3, CommandIs, TakenIsPatch
  <1>5. \A f \in Fields : d[f] = IF f \in DOMAIN c.sets THEN c.sets[f] ELSE doc[f]
      BY <1>2, <1>4, PatchedIsDoc
  <1>6. /\ t.sets = Over(w.sets, transaction.sets)
        /\ t.undoes = Over(transaction.undoes, w.undoes)
        /\ t.captures \subseteq transaction.captures \cup w.captures
        /\ t.key = NoKey /\ t.age = 0
        /\ t.marks = (transaction.marks \/ w.marks)
        /\ t.prevDirty = IF transaction.marks THEN transaction.prevDirty ELSE w.prevDirty
      BY DEF Joined
  <1>7. /\ w.sets \in Patches /\ w.undoes \in Patches
        /\ transaction.sets \in Patches /\ transaction.undoes \in Patches
        /\ transaction.captures \subseteq Fields /\ w.captures \subseteq Fields
        /\ transaction.prevDirty \in BOOLEAN /\ w.prevDirty \in BOOLEAN
      BY <1>1, <1>2 DEF Entry
  <1>8. t.sets \in Patches /\ t.undoes \in Patches
      BY <1>6, <1>7, PatchOverIsPatch
  <1>9. /\ DOMAIN t.sets = DOMAIN c.sets \cup DOMAIN transaction.sets
        /\ DOMAIN t.undoes = DOMAIN transaction.sets \cup DOMAIN c.sets
        /\ \A f \in DOMAIN c.sets : t.sets[f] = c.sets[f]
        /\ \A f \in DOMAIN transaction.sets \ DOMAIN c.sets : t.sets[f] = transaction.sets[f]
        /\ \A f \in DOMAIN transaction.undoes : t.undoes[f] = transaction.undoes[f]
        /\ \A f \in DOMAIN c.sets \ DOMAIN transaction.undoes : t.undoes[f] = doc[f]
    <2>1. DOMAIN transaction.undoes = DOMAIN transaction.sets
        BY <1>2 DEF Shaped
    <2> QED
        BY <1>3, <1>4, <1>6, <2>1 DEF Over
  <1>10. t \in Entry
    <2>1. 0 \in 0..CoalesceMs
        BY HistoryAssumption
    <2>2. (transaction.marks \/ w.marks) \in BOOLEAN
        OBVIOUS
    <2>3. (IF transaction.marks THEN transaction.prevDirty ELSE w.prevDirty) \in BOOLEAN
        BY <1>7
    <2>4. transaction.captures \cup (w.captures \ DOMAIN transaction.undoes) \in SUBSET Fields
        BY <1>7
    <2> QED
        BY <1>6, <1>8, <2>1, <2>2, <2>3, <2>4 DEF Joined, Entry
  <1>11. Shaped(t)
      BY <1>1, <1>2, <1>3, <1>6, <1>9 DEF Shaped
  <1> HIDE DEF w, t, d
  <1>12. Agrees(d, t.sets)
      BY <1>2, <1>4, <1>5, <1>7, <1>9, PatchesAreFunctions DEF Agrees
  <1>13. Patched(d, t.undoes) = Patched(doc, transaction.undoes)
    <2>1. /\ Patched(d, t.undoes) \in Docs /\ Patched(doc, transaction.undoes) \in Docs
          /\ \A f \in Fields : Patched(d, t.undoes)[f] =
                IF f \in DOMAIN t.undoes THEN t.undoes[f] ELSE d[f]
          /\ \A f \in Fields : Patched(doc, transaction.undoes)[f] =
                IF f \in DOMAIN transaction.undoes THEN transaction.undoes[f] ELSE doc[f]
        BY <1>1, <1>2, <1>7, <1>8, PatchedIsDoc DEF d
    <2>2. DOMAIN transaction.undoes = DOMAIN transaction.sets
        BY <1>2 DEF Shaped
    <2>3. \A f \in Fields : Patched(d, t.undoes)[f] = Patched(doc, transaction.undoes)[f]
        BY <1>5, <1>9, <2>1, <2>2
    <2> QED
        BY <2>1, <2>3, EqualDocs
  <1> QED
      BY <1>6, <1>10, <1>11, <1>12, <1>13 DEF w, t, d

-----------------------------------------------------------------------------
(* The actions: each keeps the invariant and does to the documents what    *)
(* one action of UndoLog does.                                             *)

Past == PastOf(Steady, undoStack)
Future == FutureOf(Steady, redoStack)

LEMMA SteadyIsDoc == HistoryTypes => Steady \in Docs
  <1>1. \A e \in Entry : e.undoes \in Patches
      BY DEF Entry
  <1> QED
      BY <1>1, PatchedIsDoc DEF HistoryTypes, Steady

(* An entry goes onto the undo stack, and the oldest may fall off.         *)
LEMMA PushIs ==
    ASSUME HistoryInv, NEW e \in Entry, Shaped(e),
           NEW d, Agrees(d, e.sets), Patched(d, e.undoes) = Steady
    PROVE  /\ Pushed(e) \in Seq(Entry)
           /\ \A i \in DOMAIN Pushed(e) : Shaped(Pushed(e)[i])
           /\ Applied(d, Pushed(e))
           /\ PastOf(d, Pushed(e)) = Log!Newest(Append(Past, Steady))
  <1> DEFINE t == Append(undoStack, e)
  <1>1. undoStack \in Seq(Entry) /\ Applied(Steady, undoStack)
        /\ \A i \in DOMAIN undoStack : Shaped(undoStack[i])
      BY DEF HistoryInv, HistoryTypes, EntriesAreShaped, StacksFitTheDoc
  <1>2. Applied(d, t) /\ PastOf(d, t) = Append(Past, Steady)
      BY <1>1, OneMoreToUndo DEF Past
  <1>3. t \in Seq(Entry) /\ Len(t) \in Nat /\ t # <<>> /\ \A i \in DOMAIN t : Shaped(t[i])
      BY <1>1
  <1>4. Len(PastOf(d, t)) = Len(t)
      BY <1>3 DEF PastOf
  <1>5. /\ Tail(t) \in Seq(Entry)
        /\ \A i \in DOMAIN Tail(t) : i + 1 \in DOMAIN t /\ Tail(t)[i] = t[i + 1]
      BY <1>3
  <1>6. Applied(d, Tail(t)) /\ PastOf(d, Tail(t)) = Tail(PastOf(d, t))
      BY <1>2, <1>3, OneLess
  <1>7. Pushed(e) = IF Len(t) > MaxDepth THEN Tail(t) ELSE t
      BY DEF Pushed, Trimmed
  <1>8. Log!Newest(Append(Past, Steady)) =
           IF Len(t) > MaxDepth THEN Tail(PastOf(d, t)) ELSE PastOf(d, t)
      BY <1>2, <1>4 DEF Log!Newest
  <1> HIDE DEF t
  <1> QED
      BY <1>2, <1>3, <1>5, <1>6, <1>7, <1>8

LEMMA ExecPushedIs ==
    ASSUME HistoryInv, NEW c \in Commands, ExecPushed(c)
    PROVE  /\ HistoryInv'
           /\ Past' = Log!Newest(Append(Past, Steady)) /\ Future' = <<>>
  <1> DEFINE w == Wrapped(c)
             d == Patched(doc, c.sets)
  <1>1. /\ transaction = NoTransaction /\ transaction' = NoTransaction
        /\ doc' = d /\ dirty' = (dirty \/ c.marks)
        /\ undoStack' = Pushed(w) /\ redoStack' = <<>> /\ sinceCommand' = 0
      BY DEF ExecPushed, Does
  <1>2. Steady = doc /\ Steady' = d
      BY <1>1 DEF Steady
  <1>3. /\ w \in Entry /\ Shaped(w) /\ d \in Docs /\ Agrees(d, w.sets)
        /\ Patched(d, w.undoes) = Steady
    <2>1. w.sets = c.sets
        BY DEF Wrapped
    <2> QED
        BY <1>2, <2>1, WrappedIs
  <1> HIDE DEF w, d
  <1>4. /\ Pushed(w) \in Seq(Entry) /\ \A i \in DOMAIN Pushed(w) : Shaped(Pushed(w)[i])
        /\ Applied(d, Pushed(w))
        /\ PastOf(d, Pushed(w)) = Log!Newest(Append(Past, Steady))
      BY <1>3, PushIs
  <1>5. HistoryTypes'
      BY <1>1, <1>3, <1>4, CommandIs, HistoryAssumption DEF HistoryTypes
  <1>6. EntriesAreShaped'
      BY <1>1, <1>4 DEF EntriesAreShaped
  <1>7. StacksFitTheDoc'
      BY <1>1, <1>2, <1>4, NoStack DEF StacksFitTheDoc
  <1> QED
      BY <1>1, <1>2, <1>4, <1>5, <1>6, <1>7, NoStack DEF HistoryInv, Past, Future

(* One more edit of a run: undo still leads where it led.                  *)
LEMMA ExecCoalescedIs ==
    ASSUME HistoryInv, NEW c \in Commands, ExecCoalesced(c)
    PROVE  HistoryInv' /\ Past # <<>> /\ Past' = Past /\ Future' = <<>>
  <1> DEFINE e == Last(undoStack)
             s == Front(undoStack)
             w == [e EXCEPT !.sets = c.sets, !.captures = {}, !.age = 0]
             d == Patched(doc, c.sets)
  <1>1. /\ transaction = NoTransaction /\ transaction' = NoTransaction
        /\ undoStack # <<>> /\ c.key # NoKey /\ e.key = c.key
        /\ doc' = d /\ dirty' = (dirty \/ c.marks)
        /\ redoStack' = <<>> /\ sinceCommand' = 0
      BY DEF ExecCoalesced, Coalesces, Does
  <1>2. Steady = doc /\ Steady' = d
      BY <1>1 DEF Steady
  <1>3. /\ undoStack \in Seq(Entry) /\ doc \in Docs /\ Applied(doc, undoStack)
        /\ \A i \in DOMAIN undoStack : Shaped(undoStack[i])
      BY <1>2 DEF HistoryInv, HistoryTypes, EntriesAreShaped, StacksFitTheDoc
  <1>4. s \in Seq(Entry) /\ e \in Entry /\ undoStack = Append(s, e)
      BY <1>1, <1>3, TopOfStack
  <1>5. Shaped(e) /\ \A i \in DOMAIN s : Shaped(s[i])
    <2>1. Len(undoStack) \in DOMAIN undoStack /\ e = undoStack[Len(undoStack)]
        BY <1>1, <1>3 DEF Last
    <2>2. \A i \in DOMAIN s : i \in DOMAIN Append(s, e) /\ Append(s, e)[i] = s[i]
        BY <1>4
    <2> QED
        BY <1>3, <1>4, <2>1, <2>2
  <1>6. /\ w \in Entry /\ w.undoes = e.undoes /\ w.sets = c.sets /\ w.captures = {}
        /\ w.key = c.key
    <2>1. 0 \in 0..CoalesceMs /\ c.sets \in Patches
        BY HistoryAssumption, CommandIs
    <2> QED
        BY <1>1, <1>4, <2>1 DEF Entry
  <1>7. undoStack' = Append(s, w)
    <2>1. undoStack' = [undoStack EXCEPT ![Len(undoStack)] = w]
        BY <1>1, <1>3 DEF ExecCoalesced, Last
    <2>2. Append(s, w) = [undoStack EXCEPT ![Len(undoStack)] = w]
        BY <1>4, <1>6, SwapTop
    <2> QED
        BY <1>4, <2>1, <2>2
  <1>8. DOMAIN e.undoes = DOMAIN c.sets
    <2>1. PICK k \in Commands : k.key = e.key /\ DOMAIN k.sets = DOMAIN e.sets
        BY <1>1, <1>5 DEF Shaped
    <2> QED
        BY <1>1, <1>5, <2>1, HistoryAssumption DEF Shaped
  <1>9. Shaped(w)
      BY <1>6, <1>8 DEF Shaped
  <1>10. d \in Docs /\ Agrees(d, c.sets)
      BY WrappedIs
  <1>11. Patched(d, e.undoes) = Patched(doc, e.undoes)
      BY <1>8 DEF Patched
  <1> HIDE DEF e, s, w, d
  <1> DEFINE back == Patched(doc, e.undoes)
  <1>12. Applied(back, s) /\ Past = Append(PastOf(back, s), back)
      BY <1>2, <1>3, <1>4, OneMoreToUndo DEF Past
  <1>13. Applied(d, Append(s, w)) /\ PastOf(d, Append(s, w)) = Append(PastOf(back, s), back)
      BY <1>4, <1>6, <1>10, <1>11, <1>12, OneMoreToUndo
  <1>14. Past' = Past /\ Future' = <<>>
      BY <1>1, <1>2, <1>7, <1>12, <1>13, NoStack DEF Past, Future
  <1>15. Past # <<>>
    <2>1. Len(PastOf(back, s)) = Len(s) /\ Len(s) \in Nat
          /\ PastOf(back, s) = [i \in 1..Len(s) |-> Shown(back, Undoes(s))[Len(s) + 1 - i]]
        BY <1>4 DEF PastOf
    <2>2. Append(PastOf(back, s), back) # <<>>
        BY <2>1
    <2> QED
        BY <1>12, <2>2
  <1>16. HistoryTypes'
      BY <1>1, <1>4, <1>7, <1>6, <1>10, CommandIs, HistoryAssumption
      DEF HistoryInv, HistoryTypes
  <1>17. EntriesAreShaped'
      BY <1>1, <1>4, <1>5, <1>7, <1>6, <1>9 DEF EntriesAreShaped
  <1>18. StacksFitTheDoc'
      BY <1>1, <1>2, <1>7, <1>13, NoStack DEF StacksFitTheDoc
  <1> QED
      BY <1>14, <1>15, <1>16, <1>17, <1>18 DEF HistoryInv

LEMMA ExecBufferedIs ==
    ASSUME HistoryInv, NEW c \in Commands, ExecBuffered(c)
    PROVE  HistoryInv' /\ Steady' = Steady /\ Past' = Past /\ Future' = Future
  <1> DEFINE t == Joined(transaction, Wrapped(c))
             d == Patched(doc, c.sets)
  <1>1. /\ transaction # NoTransaction /\ transaction' = t
        /\ doc' = d /\ dirty' = (dirty \/ c.marks)
        /\ UNCHANGED <<undoStack, redoStack, sinceCommand>>
      BY DEF ExecBuffered, Does
  <1>2. /\ t \in Entry /\ Shaped(t) /\ t.key = NoKey
        /\ Agrees(d, t.sets)
        /\ Patched(d, t.undoes) = Patched(doc, transaction.undoes)
      BY <1>1, JoinedIs
  <1>3. d \in Docs
      BY WrappedIs
  <1> HIDE DEF t, d
  <1>4. t # NoTransaction
      BY <1>2, HistoryAssumption
  <1>5. Steady' = Steady
      BY <1>1, <1>2, <1>4 DEF Steady
  <1>6. HistoryTypes'
      BY <1>1, <1>2, <1>3 DEF HistoryInv, HistoryTypes
  <1>7. EntriesAreShaped'
      BY <1>1, <1>2 DEF HistoryInv, EntriesAreShaped
  <1>8. StacksFitTheDoc'
      BY <1>1, <1>2, <1>5 DEF HistoryInv, StacksFitTheDoc
  <1> QED
      BY <1>1, <1>5, <1>6, <1>7, <1>8 DEF HistoryInv, Past, Future

LEMMA UndoIs ==
    ASSUME HistoryInv, Undo
    PROVE  /\ HistoryInv' /\ Past # <<>> /\ Steady' = Last(Past)
           /\ Past' = Front(Past) /\ Future' = <<Steady>> \o Future
  <1> DEFINE e == Last(undoStack)
             s == Front(undoStack)
             d == Patched(doc, e.undoes)
  <1>1. /\ transaction = NoTransaction /\ transaction' = NoTransaction
        /\ undoStack # <<>> /\ sinceCommand' = sinceCommand
        /\ doc' = d /\ dirty' = IF e.marks THEN e.prevDirty ELSE dirty
        /\ undoStack' = s /\ redoStack' = Append(redoStack, e)
      BY DEF Undo
  <1>2. Steady = doc /\ Steady' = d
      BY <1>1 DEF Steady
  <1>3. /\ undoStack \in Seq(Entry) /\ redoStack \in Seq(Entry) /\ doc \in Docs
        /\ Applied(doc, undoStack) /\ Reverted(doc, redoStack)
        /\ \A i \in DOMAIN undoStack : Shaped(undoStack[i])
        /\ \A i \in DOMAIN redoStack : Shaped(redoStack[i])
      BY <1>2 DEF HistoryInv, HistoryTypes, EntriesAreShaped, StacksFitTheDoc
  <1>4. s \in Seq(Entry) /\ e \in Entry /\ undoStack = Append(s, e)
      BY <1>1, <1>3, TopOfStack
  <1>5. Shaped(e) /\ \A i \in DOMAIN s : Shaped(s[i])
    <2>1. Len(undoStack) \in DOMAIN undoStack /\ e = undoStack[Len(undoStack)]
        BY <1>1, <1>3 DEF Last
    <2>2. \A i \in DOMAIN s : i \in DOMAIN Append(s, e) /\ Append(s, e)[i] = s[i]
        BY <1>4
    <2> QED
        BY <1>3, <1>4, <2>1, <2>2
  <1>6. e.undoes \in Patches /\ e.sets \in Patches /\ DOMAIN e.sets = DOMAIN e.undoes
        /\ e.marks \in BOOLEAN /\ e.prevDirty \in BOOLEAN
      BY <1>4, <1>5 DEF Entry, Shaped
  <1> HIDE DEF e, s
  <1>7. Agrees(doc, e.sets) /\ Applied(d, s) /\ Past = Append(PastOf(d, s), d)
      BY <1>2, <1>3, <1>4, OneMoreToUndo DEF Past
  <1>8. d \in Docs /\ \A f \in Fields : d[f] = IF f \in DOMAIN e.undoes THEN e.undoes[f] ELSE doc[f]
      BY <1>3, <1>6, PatchedIsDoc
  <1>9. Agrees(d, e.undoes)
      BY <1>6, <1>8, PatchesAreFunctions DEF Agrees
  <1>10. Patched(d, e.sets) = doc
    <2>1. /\ Patched(d, e.sets) \in Docs
          /\ \A f \in Fields : Patched(d, e.sets)[f] = IF f \in DOMAIN e.sets THEN e.sets[f] ELSE d[f]
        BY <1>6, <1>8, PatchedIsDoc
    <2>2. \A f \in Fields : Patched(d, e.sets)[f] = doc[f]
        BY <1>6, <1>7, <1>8, <2>1 DEF Agrees
    <2> QED
        BY <1>3, <2>1, <2>2, EqualDocs
  <1> HIDE DEF d
  <1>11. /\ Reverted(d, Append(redoStack, e))
         /\ FutureOf(d, Append(redoStack, e)) = <<doc>> \o FutureOf(doc, redoStack)
      BY <1>3, <1>4, <1>9, <1>10, OneMoreToRedo
  <1>12. Past # <<>> /\ Last(Past) = d /\ Front(Past) = PastOf(d, s)
    <2> DEFINE p == PastOf(d, s)
               D == {p[i] : i \in 1..Len(s)} \cup {d}
    <2>1. p \in Seq(D) /\ Len(p) = Len(s) /\ Len(s) \in Nat
        BY <1>4 DEF PastOf
    <2>2. d \in D
        OBVIOUS
    <2> HIDE DEF p, D
    <2>3. /\ Append(p, d) \in Seq(D) /\ Append(p, d) # <<>> /\ Len(Append(p, d)) = Len(p) + 1
          /\ Append(p, d)[Len(p) + 1] = d /\ \A i \in 1..Len(p) : Append(p, d)[i] = p[i]
        BY <2>1, <2>2
    <2>4. Front(Append(p, d)) \in Seq(D) /\ Append(p, d) = Append(Front(Append(p, d)), Last(Append(p, d)))
        BY <2>3, TopOfStack
    <2>5. Last(Append(p, d)) = d
        BY <2>3 DEF Last
    <2>6. Front(Append(p, d)) = p
        BY <2>1, <2>2, <2>4, <2>5, AppendInjective
    <2> QED
        BY <1>7, <2>3, <2>5, <2>6 DEF p
  <1>13. HistoryTypes'
      BY <1>1, <1>3, <1>4, <1>6, <1>8 DEF HistoryInv, HistoryTypes
  <1>14. EntriesAreShaped'
      BY <1>1, <1>3, <1>4, <1>5 DEF EntriesAreShaped
  <1>15. StacksFitTheDoc'
      BY <1>1, <1>2, <1>7, <1>11 DEF StacksFitTheDoc
  <1> QED
      BY <1>1, <1>2, <1>11, <1>12, <1>13, <1>14, <1>15 DEF HistoryInv, Past, Future

LEMMA RedoIs ==
    ASSUME HistoryInv, Redo
    PROVE  /\ HistoryInv' /\ Future # <<>> /\ Steady' = Head(Future)
           /\ Past' = Append(Past, Steady) /\ Future' = Tail(Future)
  <1> DEFINE e == Last(redoStack)
             s == Front(redoStack)
             w == [e EXCEPT !.undoes = Over(Taken(doc, e.captures), e.undoes)]
             d == Patched(doc, e.sets)
  <1>1. /\ transaction = NoTransaction /\ transaction' = NoTransaction
        /\ redoStack # <<>> /\ sinceCommand' = sinceCommand
        /\ doc' = d /\ dirty' = (dirty \/ e.marks)
        /\ redoStack' = s /\ undoStack' = Append(undoStack, w)
      BY DEF Redo
  <1>2. Steady = doc /\ Steady' = d
      BY <1>1 DEF Steady
  <1>3. /\ undoStack \in Seq(Entry) /\ redoStack \in Seq(Entry) /\ doc \in Docs
        /\ Applied(doc, undoStack) /\ Reverted(doc, redoStack)
        /\ \A i \in DOMAIN undoStack : Shaped(undoStack[i])
        /\ \A i \in DOMAIN redoStack : Shaped(redoStack[i])
      BY <1>2 DEF HistoryInv, HistoryTypes, EntriesAreShaped, StacksFitTheDoc
  <1>4. s \in Seq(Entry) /\ e \in Entry /\ redoStack = Append(s, e)
      BY <1>1, <1>3, TopOfStack
  <1>5. Shaped(e) /\ \A i \in DOMAIN s : Shaped(s[i])
    <2>1. Len(redoStack) \in DOMAIN redoStack /\ e = redoStack[Len(redoStack)]
        BY <1>1, <1>3 DEF Last
    <2>2. \A i \in DOMAIN s : i \in DOMAIN Append(s, e) /\ Append(s, e)[i] = s[i]
        BY <1>4
    <2> QED
        BY <1>3, <1>4, <2>1, <2>2
  <1>6. /\ e.undoes \in Patches /\ e.sets \in Patches /\ DOMAIN e.sets = DOMAIN e.undoes
        /\ e.captures \in SUBSET Fields /\ e.captures \subseteq DOMAIN e.undoes
        /\ e.marks \in BOOLEAN /\ e.prevDirty \in BOOLEAN
      BY <1>4, <1>5 DEF Entry, Shaped
  <1>7. Agrees(doc, e.undoes) /\ Reverted(d, s) /\ Future = <<d>> \o FutureOf(d, s)
      BY <1>2, <1>3, <1>4, OneMoreToRedo DEF Future
  <1> DEFINE p == Over(Taken(doc, e.captures), e.undoes)
  <1>8. p \in Patches /\ DOMAIN p = DOMAIN e.undoes /\ Agrees(doc, p)
    <2>1. /\ Taken(doc, e.captures) \in Patches /\ DOMAIN Taken(doc, e.captures) = e.captures
          /\ \A f \in e.captures : Taken(doc, e.captures)[f] = doc[f]
        BY <1>3, <1>6, TakenIsPatch
    <2>2. p \in Patches
        BY <1>6, <2>1, PatchOverIsPatch
    <2>3. DOMAIN p = DOMAIN e.undoes
          /\ \A f \in DOMAIN p : p[f] = IF f \in e.captures THEN doc[f] ELSE e.undoes[f]
        BY <1>6, <2>1 DEF Over
    <2> QED
        BY <1>7, <2>2, <2>3 DEF Agrees
  <1> HIDE DEF p
  <1>9. w \in Entry /\ w.undoes = p /\ w.sets = e.sets /\ w.captures = e.captures
        /\ w.key = e.key /\ w.marks = e.marks
      BY <1>4, <1>8 DEF Entry, p
  <1>10. Shaped(w)
      BY <1>5, <1>6, <1>8, <1>9 DEF Shaped
  <1> HIDE DEF e, s, w
  <1>11. d \in Docs /\ \A f \in Fields : d[f] = IF f \in DOMAIN e.sets THEN e.sets[f] ELSE doc[f]
      BY <1>3, <1>6, PatchedIsDoc
  <1>12. Agrees(d, e.sets)
      BY <1>6, <1>11, PatchesAreFunctions DEF Agrees
  <1>13. Patched(d, p) = doc
    <2>1. /\ Patched(d, p) \in Docs
          /\ \A f \in Fields : Patched(d, p)[f] = IF f \in DOMAIN p THEN p[f] ELSE d[f]
        BY <1>8, <1>11, PatchedIsDoc
    <2>2. \A f \in Fields : Patched(d, p)[f] = doc[f]
        BY <1>6, <1>8, <1>11, <2>1 DEF Agrees
    <2> QED
        BY <1>3, <2>1, <2>2, EqualDocs
  <1> HIDE DEF d
  <1>14. /\ Applied(d, Append(undoStack, w))
         /\ PastOf(d, Append(undoStack, w)) = Append(PastOf(doc, undoStack), doc)
      BY <1>3, <1>9, <1>12, <1>13, OneMoreToUndo
  <1>15. Future # <<>> /\ Head(Future) = d /\ Tail(Future) = FutureOf(d, s)
    <2> DEFINE q == FutureOf(d, s)
               D == {q[i] : i \in 1..Len(s)} \cup {d}
    <2>1. q \in Seq(D) /\ d \in D
        BY <1>4 DEF FutureOf
    <2> HIDE DEF q, D
    <2>2. <<d>> \o q # <<>> /\ Head(<<d>> \o q) = d /\ Tail(<<d>> \o q) = q
        BY <2>1
    <2> QED
        BY <1>7, <2>2 DEF q
  <1>16. HistoryTypes'
      BY <1>1, <1>3, <1>4, <1>9, <1>11 DEF HistoryInv, HistoryTypes
  <1>17. EntriesAreShaped'
      BY <1>1, <1>3, <1>4, <1>5, <1>9, <1>10 DEF EntriesAreShaped
  <1>18. StacksFitTheDoc'
      BY <1>1, <1>2, <1>7, <1>14 DEF StacksFitTheDoc
  <1> QED
      BY <1>1, <1>2, <1>14, <1>15, <1>16, <1>17, <1>18 DEF HistoryInv, Past, Future

LEMMA BeginIs ==
    ASSUME HistoryInv, BeginTransaction
    PROVE  HistoryInv' /\ Steady' = Steady /\ Past' = Past /\ Future' = Future
  <1>1. /\ transaction = NoTransaction /\ transaction' = NothingBuffered
        /\ UNCHANGED <<doc, dirty, undoStack, redoStack, sinceCommand>>
      BY DEF BeginTransaction
  <1>2. <<>> \in Patches /\ DOMAIN <<>> = {}
    <2>1. DOMAIN <<>> = {} /\ <<>> = [f \in {} |-> {}]
        OBVIOUS
    <2>2. [f \in {} |-> {}] \in [{} -> Values]
        OBVIOUS
    <2>3. {} \in SUBSET Fields
        OBVIOUS
    <2> QED
        BY <2>1, <2>2, <2>3 DEF Patches
  <1>3. /\ NothingBuffered \in Entry /\ Shaped(NothingBuffered)
        /\ NothingBuffered.key = NoKey /\ NothingBuffered.sets = <<>>
        /\ NothingBuffered.undoes = <<>>
      BY <1>2, HistoryAssumption DEF NothingBuffered, Entry, Shaped
  <1>4. doc \in Docs
      BY DEF HistoryInv, HistoryTypes
  <1>5. Patched(doc, <<>>) = doc
    <2>1. Patched(doc, <<>>) \in Docs /\ \A f \in Fields : Patched(doc, <<>>)[f] = doc[f]
        BY <1>2, <1>4, PatchedIsDoc
    <2> QED
        BY <1>4, <2>1, EqualDocs
  <1>6. Steady' = Steady
      BY <1>1, <1>3, <1>5 DEF Steady
  <1>7. HistoryTypes' /\ EntriesAreShaped'
      BY <1>1, <1>3 DEF HistoryInv, HistoryTypes, EntriesAreShaped
  <1>8. StacksFitTheDoc'
      BY <1>1, <1>2, <1>3, <1>6 DEF HistoryInv, StacksFitTheDoc, Agrees
  <1> QED
      BY <1>1, <1>6, <1>7, <1>8 DEF HistoryInv, Past, Future

(* Nothing buffered: nothing happens.  Else the transaction is one edit.   *)
LEMMA CommitIs ==
    ASSUME HistoryInv, CommitTransaction
    PROVE  /\ HistoryInv'
           /\ \/ Steady' = Steady /\ Past' = Past /\ Future' = Future
              \/ Past' = Log!Newest(Append(Past, Steady)) /\ Future' = <<>>
  <1>1. /\ transaction # NoTransaction /\ transaction' = NoTransaction
        /\ UNCHANGED <<doc, dirty>>
      BY DEF CommitTransaction
  <1>2. /\ transaction \in Entry /\ Shaped(transaction) /\ Agrees(doc, transaction.sets)
        /\ doc \in Docs
      BY <1>1 DEF HistoryInv, HistoryTypes, EntriesAreShaped, StacksFitTheDoc
  <1>3. transaction.undoes \in Patches
      BY <1>2 DEF Entry
  <1>4. Steady = Patched(doc, transaction.undoes) /\ Steady' = doc
      BY <1>1 DEF Steady
  <1>5. CASE DOMAIN transaction.sets = {}
    <2>1. UNCHANGED <<undoStack, redoStack, sinceCommand>>
        BY <1>5 DEF CommitTransaction
    <2>2. DOMAIN transaction.undoes = {}
        BY <1>2, <1>5 DEF Shaped
    <2>3. Patched(doc, transaction.undoes) \in Docs
          /\ \A f \in Fields : Patched(doc, transaction.undoes)[f] = doc[f]
        BY <1>2, <1>3, <2>2, PatchedIsDoc
    <2>4. Steady' = Steady
        BY <1>2, <1>4, <2>3, EqualDocs
    <2>5. HistoryTypes' /\ EntriesAreShaped' /\ StacksFitTheDoc'
        BY <1>1, <2>1, <2>4 DEF HistoryInv, HistoryTypes, EntriesAreShaped, StacksFitTheDoc
    <2> QED
        BY <2>1, <2>4, <2>5 DEF HistoryInv, Past, Future
  <1>6. CASE DOMAIN transaction.sets # {}
    <2>1. undoStack' = Pushed(transaction) /\ redoStack' = <<>> /\ sinceCommand' = 0
        BY <1>6 DEF CommitTransaction
    <2>2. /\ Pushed(transaction) \in Seq(Entry)
          /\ \A i \in DOMAIN Pushed(transaction) : Shaped(Pushed(transaction)[i])
          /\ Applied(doc, Pushed(transaction))
          /\ PastOf(doc, Pushed(transaction)) = Log!Newest(Append(Past, Steady))
        BY <1>2, <1>4, PushIs
    <2>3. HistoryTypes'
        BY <1>1, <2>1, <2>2, HistoryAssumption DEF HistoryInv, HistoryTypes
    <2>4. EntriesAreShaped' /\ StacksFitTheDoc'
        BY <1>1, <1>4, <2>1, <2>2, NoStack DEF EntriesAreShaped, StacksFitTheDoc
    <2> QED
        BY <1>4, <2>1, <2>2, <2>3, <2>4, NoStack DEF HistoryInv, Past, Future
  <1> QED
      BY <1>5, <1>6

LEMMA CancelIs ==
    ASSUME HistoryInv, CancelTransaction
    PROVE  HistoryInv' /\ Steady' = Steady /\ Past' = Past /\ Future' = Future
  <1>1. /\ transaction # NoTransaction /\ transaction' = NoTransaction
        /\ doc' = Patched(doc, transaction.undoes)
        /\ dirty' = IF transaction.marks THEN transaction.prevDirty ELSE dirty
        /\ UNCHANGED <<undoStack, redoStack, sinceCommand>>
      BY DEF CancelTransaction
  <1>2. transaction \in Entry
      BY <1>1 DEF HistoryInv, HistoryTypes
  <1>3. Steady' = Steady /\ Steady' = doc'
      BY <1>1 DEF Steady
  <1>4. HistoryTypes'
    <2>1. transaction.prevDirty \in BOOLEAN
        BY <1>2 DEF Entry
    <2>2. doc' \in Docs
        BY <1>3, SteadyIsDoc DEF HistoryInv
    <2> QED
        BY <1>1, <2>1, <2>2 DEF HistoryInv, HistoryTypes
  <1>5. EntriesAreShaped' /\ StacksFitTheDoc'
      BY <1>1, <1>3 DEF HistoryInv, EntriesAreShaped, StacksFitTheDoc
  <1> QED
      BY <1>1, <1>3, <1>4, <1>5 DEF HistoryInv, Past, Future

LEMMA ClearIs ==
    ASSUME HistoryInv, Clear
    PROVE  HistoryInv' /\ Past' = <<>> /\ Future' = <<>>
  <1>1. /\ doc' \in Docs /\ dirty' = FALSE /\ undoStack' = <<>> /\ redoStack' = <<>>
        /\ sinceCommand' = CoalesceMs /\ transaction' = NoTransaction
      BY DEF Clear, ClearsHistory
  <1>2. <<>> \in Seq(Entry) /\ DOMAIN <<>> = {} /\ CoalesceMs \in 0..CoalesceMs
      BY HistoryAssumption
  <1>3. HistoryTypes'
      BY <1>1, <1>2 DEF HistoryTypes
  <1>4. EntriesAreShaped'
      BY <1>1, <1>2 DEF EntriesAreShaped
  <1>5. StacksFitTheDoc'
      BY <1>1, NoStack DEF StacksFitTheDoc
  <1> QED
      BY <1>1, <1>3, <1>4, <1>5, NoStack DEF HistoryInv, Past, Future

LEMMA TickIs ==
    ASSUME HistoryInv, Tick
    PROVE  HistoryInv' /\ Steady' = Steady /\ Past' = Past /\ Future' = Future
  <1> DEFINE Older(t) == IF t < CoalesceMs THEN t + 1 ELSE t
             Aged(stack) == [i \in DOMAIN stack |-> [stack[i] EXCEPT !.age = Older(@)]]
  <1>1. /\ UNCHANGED <<doc, dirty, transaction>>
        /\ sinceCommand' = Older(sinceCommand)
        /\ undoStack' = Aged(undoStack) /\ redoStack' = Aged(redoStack)
      BY DEF Tick
  <1>2. \A t \in 0..CoalesceMs : Older(t) \in 0..CoalesceMs
      BY HistoryAssumption
  <1>3. /\ sinceCommand \in 0..CoalesceMs
        /\ undoStack \in Seq(Entry) /\ redoStack \in Seq(Entry)
      BY DEF HistoryInv, HistoryTypes
  <1> HIDE DEF Older
  <1>4. ASSUME NEW s \in Seq(Entry)
        PROVE  /\ Aged(s) \in Seq(Entry) /\ Len(Aged(s)) = Len(s)
               /\ DOMAIN Aged(s) = DOMAIN s /\ Len(s) \in Nat
               /\ \A i \in DOMAIN s :
                    /\ Aged(s)[i].sets = s[i].sets /\ Aged(s)[i].undoes = s[i].undoes
                    /\ Aged(s)[i].captures = s[i].captures /\ Aged(s)[i].key = s[i].key
    <2>1. ASSUME NEW i \in DOMAIN s
          PROVE  /\ Aged(s)[i] \in Entry
                 /\ Aged(s)[i].sets = s[i].sets /\ Aged(s)[i].undoes = s[i].undoes
                 /\ Aged(s)[i].captures = s[i].captures /\ Aged(s)[i].key = s[i].key
      <3>1. s[i] \in Entry
          BY Elements
      <3>2. Older(s[i].age) \in 0..CoalesceMs
          BY <1>2, <3>1 DEF Entry
      <3> QED
          BY <3>1, <3>2 DEF Entry
    <2>2. /\ DOMAIN s = 1..Len(s) /\ Len(s) \in Nat /\ DOMAIN Aged(s) = DOMAIN s
          /\ Aged(s) = [i \in 1..Len(s) |-> Aged(s)[i]]
        OBVIOUS
    <2> HIDE DEF Aged
    <2>3. Aged(s) \in [1..Len(s) -> Entry]
        BY <2>1, <2>2
    <2>4. Aged(s) \in Seq(Entry) /\ Len(Aged(s)) = Len(s)
        BY <2>2, <2>3
    <2> QED
        BY <2>1, <2>2, <2>4
  <1> HIDE DEF Aged
  <1>5. Steady' = Steady
      BY <1>1 DEF Steady
  <1>6. HistoryTypes'
      BY <1>1, <1>2, <1>3, <1>4 DEF HistoryInv, HistoryTypes
  <1>7. EntriesAreShaped'
      BY <1>1, <1>3, <1>4 DEF HistoryInv, EntriesAreShaped, Shaped
  <1>8. /\ Past' = Past /\ Applied(Steady, Aged(undoStack))
        /\ Future' = Future /\ Reverted(Steady, Aged(redoStack))
    <2>1. /\ \A i \in 1..Len(undoStack) : /\ Aged(undoStack)[i].sets = undoStack[i].sets
                                          /\ Aged(undoStack)[i].undoes = undoStack[i].undoes
          /\ \A i \in 1..Len(redoStack) : /\ Aged(redoStack)[i].sets = redoStack[i].sets
                                          /\ Aged(redoStack)[i].undoes = redoStack[i].undoes
        BY <1>3, <1>4
    <2>2. Applied(Steady, undoStack) /\ Reverted(Steady, redoStack)
        BY DEF HistoryInv, StacksFitTheDoc
    <2>3. /\ PastOf(Steady, Aged(undoStack)) = PastOf(Steady, undoStack)
          /\ Applied(Steady, Aged(undoStack))
        BY <1>3, <1>4, <2>1, <2>2, SamePatches
    <2>4. /\ FutureOf(Steady, Aged(redoStack)) = FutureOf(Steady, redoStack)
          /\ Reverted(Steady, Aged(redoStack))
        BY <1>3, <1>4, <2>1, <2>2, SamePatches
    <2> QED
        BY <1>1, <1>5, <2>3, <2>4 DEF Past, Future
  <1>9. StacksFitTheDoc'
      BY <1>1, <1>5, <1>8 DEF HistoryInv, StacksFitTheDoc
  <1> QED
      BY <1>5, <1>6, <1>7, <1>8, <1>9 DEF HistoryInv

LEMMA HistoryInit == Init => HistoryInv
  <1> SUFFICES ASSUME Init PROVE HistoryInv
      OBVIOUS
  <1>1. /\ doc \in Docs /\ dirty = FALSE /\ undoStack = <<>> /\ redoStack = <<>>
        /\ sinceCommand = CoalesceMs /\ transaction = NoTransaction
      BY DEF Init
  <1>2. <<>> \in Seq(Entry) /\ DOMAIN <<>> = {} /\ CoalesceMs \in 0..CoalesceMs
      BY HistoryAssumption
  <1>3. HistoryTypes
      BY <1>1, <1>2 DEF HistoryTypes
  <1>4. EntriesAreShaped
      BY <1>1, <1>2 DEF EntriesAreShaped
  <1>5. StacksFitTheDoc
      BY <1>1, NoStack DEF StacksFitTheDoc
  <1> QED
      BY <1>3, <1>4, <1>5 DEF HistoryInv

(* Every step of the history keeps the invariant and is one of the log's,  *)
(* or changes no document undo or redo could show.                         *)
LEMMA LogStep ==
    HistoryInv /\ [Next]_vars => HistoryInv' /\ [Log!Next]_(Log!log)
  <1> SUFFICES ASSUME HistoryInv, [Next]_vars PROVE HistoryInv' /\ [Log!Next]_(Log!log)
      OBVIOUS
  <1>1. Log!log = <<Steady, Past, Future>>
      BY LogIs DEF Past, Future
  <1>2. ASSUME HistoryInv' PROVE Steady' \in Docs
    <2>1. HistoryTypes'
        BY <1>2 DEF HistoryInv
    <2>2. (HistoryTypes => Steady \in Docs)'
        BY SteadyIsDoc, PTL
    <2> QED
        BY <2>1, <2>2
  <1>3. Steady' = Steady /\ Past' = Past /\ Future' = Future => UNCHANGED Log!log
      BY DEF Log!log, Past, Future, PastOf, FutureOf, Back, Ahead
  <1>4. Steady' \in Docs /\ Past' = Log!Newest(Append(Past, Steady)) /\ Future' = <<>> => Log!Edit
      BY DEF Log!Edit, Past, Future, PastOf, FutureOf, Back, Ahead
  <1>5. ASSUME NEW c \in Commands, Exec(c) PROVE HistoryInv' /\ [Log!Next]_(Log!log)
    <2>1. CASE ExecBuffered(c)
        BY <1>3, <2>1, ExecBufferedIs
    <2>2. CASE ExecCoalesced(c)
      <3>1. HistoryInv' /\ Past # <<>> /\ Past' = Past /\ Future' = <<>>
          BY <2>2, ExecCoalescedIs
      <3>2. Log!Amend
          BY <1>2, <3>1 DEF Log!Amend, Past, Future, PastOf, FutureOf, Back, Ahead
      <3> QED
          BY <3>1, <3>2 DEF Log!Next
    <2>3. CASE ExecPushed(c)
        BY <1>2, <1>4, <2>3, ExecPushedIs DEF Log!Next
    <2> QED
        BY <1>5, <2>1, <2>2, <2>3 DEF Exec
  <1>6. ASSUME Undo PROVE HistoryInv' /\ [Log!Next]_(Log!log)
    <2>1. /\ HistoryInv' /\ Past # <<>> /\ Steady' = Last(Past)
          /\ Past' = Front(Past) /\ Future' = <<Steady>> \o Future
        BY <1>6, UndoIs
    <2>2. Log!Undo
        BY <2>1 DEF Log!Undo, Log!Last, Log!Front, Last, Front, Past, Future, PastOf, FutureOf, Back, Ahead
    <2> QED
        BY <2>1, <2>2 DEF Log!Next
  <1>7. ASSUME Redo PROVE HistoryInv' /\ [Log!Next]_(Log!log)
    <2>1. /\ HistoryInv' /\ Future # <<>> /\ Steady' = Head(Future)
          /\ Past' = Append(Past, Steady) /\ Future' = Tail(Future)
        BY <1>7, RedoIs
    <2>2. Log!Redo
        BY <2>1 DEF Log!Redo, Past, Future, PastOf, FutureOf, Back, Ahead
    <2> QED
        BY <2>1, <2>2 DEF Log!Next
  <1>8. ASSUME BeginTransaction \/ CancelTransaction \/ Tick
        PROVE  HistoryInv' /\ [Log!Next]_(Log!log)
      BY <1>3, <1>8, BeginIs, CancelIs, TickIs
  <1>9. ASSUME CommitTransaction PROVE HistoryInv' /\ [Log!Next]_(Log!log)
    <2>1. /\ HistoryInv'
          /\ \/ Steady' = Steady /\ Past' = Past /\ Future' = Future
             \/ Past' = Log!Newest(Append(Past, Steady)) /\ Future' = <<>>
        BY <1>9, CommitIs
    <2> QED
        BY <1>2, <1>3, <1>4, <2>1 DEF Log!Next
  <1>10. ASSUME Clear PROVE HistoryInv' /\ [Log!Next]_(Log!log)
    <2>1. HistoryInv' /\ Past' = <<>> /\ Future' = <<>>
        BY <1>10, ClearIs
    <2>2. Log!Forget
        BY <1>2, <2>1 DEF Log!Forget, Past, Future, PastOf, FutureOf, Back, Ahead
    <2> QED
        BY <2>1, <2>2 DEF Log!Next
  <1>11. ASSUME UNCHANGED vars PROVE HistoryInv' /\ [Log!Next]_(Log!log)
    <2>1. UNCHANGED <<doc, dirty, undoStack, redoStack, sinceCommand, transaction>>
        BY <1>11 DEF vars, history
    <2>2. Steady' = Steady
        BY <2>1 DEF Steady
    <2>3. HistoryTypes' /\ EntriesAreShaped' /\ StacksFitTheDoc'
        BY <2>1, <2>2 DEF HistoryInv, HistoryTypes, EntriesAreShaped, StacksFitTheDoc
    <2>4. Past' = Past /\ Future' = Future
        BY <2>1, <2>2 DEF Past, Future
    <2> QED
        BY <1>3, <2>2, <2>3, <2>4 DEF HistoryInv
  <1> QED
      BY <1>5, <1>6, <1>7, <1>8, <1>9, <1>10, <1>11 DEF Next

(* The history of commands implements the log of documents: undo goes back *)
(* one entry at a time through the documents there were, redo forward      *)
(* again through those undo left, whatever was coalesced (history.ts exec),*)
(* bundled in a transaction, trimmed at MAX_DEPTH or captured anew by a    *)
(* redo in between.                                                        *)
THEOREM HistoryKeepsDocuments == Spec => ImplementsUndoLog
  <1>1. HistoryInv => Steady \in Docs
      BY SteadyIsDoc DEF HistoryInv
  <1>2. Init => Log!Init
    <2> SUFFICES ASSUME Init PROVE Log!Init
        OBVIOUS
    <2>1. undoStack = <<>> /\ redoStack = <<>> /\ Steady \in Docs
        BY <1>1, HistoryInit DEF Init
    <2>2. PastOf(Steady, undoStack) = <<>> /\ FutureOf(Steady, redoStack) = <<>>
        BY <2>1, NoStack
    <2> QED
        BY <2>1, <2>2 DEF Log!Init, PastOf, FutureOf, Back, Ahead
  <1> QED
      BY <1>2, HistoryInit, LogStep, PTL DEF Spec, ImplementsUndoLog, Log!Spec

-----------------------------------------------------------------------------
(* The dirty flag.  Along the edits that are applied, oldest first, then   *)
(* those redo would apply, each marking one but the first remembers a      *)
(* document that already counted as edited; so taking one back leaves the  *)
(* flag up as long as another one stays.                                   *)

Marks(s) == {i \in 1..Len(s) : s[i].marks}
InTransaction == transaction # NoTransaction /\ transaction.marks

UndoMarks == \A i \in Marks(undoStack) : dirty
UndoRemembers == \A i, j \in Marks(undoStack) : i < j => undoStack[j].prevDirty
UndoThenRedo == \A i \in Marks(undoStack), j \in Marks(redoStack) : redoStack[j].prevDirty
RedoRemembers == \A j, k \in Marks(redoStack) : j < k => redoStack[j].prevDirty
TransactionMarks ==
    InTransaction => dirty /\ (Marks(undoStack) # {} => transaction.prevDirty)

FlagInv == UndoMarks /\ UndoRemembers /\ UndoThenRedo /\ RedoRemembers /\ TransactionMarks

(* The marks of a stack with an entry more, an entry less, or the oldest   *)
(* one trimmed.                                                            *)
LEMMA MarksAppended ==
    ASSUME NEW s \in Seq(Entry), NEW e \in Entry
    PROVE  /\ \A i \in Marks(s) : i \in Marks(Append(s, e)) /\ i < Len(s) + 1
           /\ \A i \in Marks(Append(s, e)) :
                i \in 1..(Len(s) + 1)
                /\ \/ i \in Marks(s) /\ Append(s, e)[i] = s[i]
                   \/ i = Len(s) + 1 /\ Append(s, e)[i] = e /\ e.marks
  BY DEF Marks

LEMMA MarksTrimmed ==
    ASSUME NEW s \in Seq(Entry), s # <<>>
    PROVE  \A i \in Marks(Trimmed(s)) :
             /\ i \in Nat
             /\ \E k \in {0, 1} : i + k \in Marks(s) /\ Trimmed(s)[i] = s[i + k]
                                  /\ \A j \in Marks(Trimmed(s)) :
                                       j + k \in Marks(s) /\ Trimmed(s)[j] = s[j + k]
  <1>1. CASE Trimmed(s) = s
      BY <1>1 DEF Marks
  <1>2. CASE Trimmed(s) = Tail(s)
    <2>1. Len(Tail(s)) = Len(s) - 1 /\ \A i \in 1..(Len(s) - 1) : Tail(s)[i] = s[i + 1]
        OBVIOUS
    <2>2. \A i \in Marks(Trimmed(s)) : i \in Nat /\ i + 1 \in Marks(s) /\ Trimmed(s)[i] = s[i + 1]
        BY <1>2, <2>1 DEF Marks
    <2> QED
        BY <2>2
  <1> QED
      BY <1>1, <1>2 DEF Trimmed

(* A new entry that remembers a flag no lower than the edits below it.     *)
LEMMA MarksPushed ==
    ASSUME HistoryTypes, UndoRemembers, NEW e \in Entry,
           e.marks /\ Marks(undoStack) # {} => e.prevDirty
    PROVE  /\ \A i, j \in Marks(Pushed(e)) : i < j => Pushed(e)[j].prevDirty
           /\ Marks(Pushed(e)) # {} => Marks(undoStack) # {} \/ e.marks
  <1> DEFINE t == Append(undoStack, e)
  <1>1. undoStack \in Seq(Entry) /\ t \in Seq(Entry) /\ t # <<>> /\ Pushed(e) = Trimmed(t)
      BY DEF HistoryTypes, Pushed
  <1>2. \A i \in Marks(t) : i \in Nat
      BY DEF Marks
  <1>3. \A i, j \in Marks(t) : i < j => t[j].prevDirty
      BY <1>1, <1>2, MarksAppended DEF UndoRemembers, Marks
  <1>4. Marks(t) # {} => Marks(undoStack) # {} \/ e.marks
      BY <1>1, MarksAppended
  <1> HIDE DEF t
  <1>5. \A i, j \in Marks(Trimmed(t)) : i < j => Trimmed(t)[j].prevDirty
    <2>1. SUFFICES ASSUME NEW i \in Marks(Trimmed(t)), NEW j \in Marks(Trimmed(t)), i < j
                   PROVE  Trimmed(t)[j].prevDirty
        OBVIOUS
    <2>2. PICK k \in {0, 1} : /\ i + k \in Marks(t)
                              /\ j + k \in Marks(t) /\ Trimmed(t)[j] = t[j + k]
        BY <1>1, MarksTrimmed
    <2>3. i \in Nat /\ j \in Nat
        BY <1>1, MarksTrimmed
    <2>4. i + k < j + k
        BY <2>1, <2>2, <2>3
    <2> QED
        BY <1>3, <2>2, <2>4
  <1>6. Marks(Trimmed(t)) # {} => Marks(t) # {}
      BY <1>1, MarksTrimmed
  <1> QED
      BY <1>1, <1>4, <1>5, <1>6

LEMMA FlagInit == Init => FlagInv
  BY DEF Init, FlagInv, UndoMarks, UndoRemembers, UndoThenRedo, RedoRemembers,
         TransactionMarks, InTransaction, Marks

LEMMA FlagStep == HistoryInv /\ FlagInv /\ [Next]_vars => FlagInv'
  <1> SUFFICES ASSUME HistoryInv, FlagInv, [Next]_vars PROVE FlagInv'
      OBVIOUS
  <1> USE DEF FlagInv
  <1>1. /\ undoStack \in Seq(Entry) /\ redoStack \in Seq(Entry) /\ dirty \in BOOLEAN
        /\ transaction # NoTransaction => transaction \in Entry
        /\ HistoryTypes
      BY DEF HistoryInv, HistoryTypes
  <1>2. Marks(<<>>) = {}
      BY DEF Marks
  <1>3. ASSUME NEW c \in Commands, ExecBuffered(c) PROVE FlagInv'
    <2>1. /\ transaction # NoTransaction /\ transaction' = Joined(transaction, Wrapped(c))
          /\ dirty' = (dirty \/ c.marks) /\ UNCHANGED <<undoStack, redoStack>>
        BY <1>3 DEF ExecBuffered, Does
    <2>2. /\ transaction'.marks = (transaction.marks \/ c.marks)
          /\ transaction'.prevDirty = IF transaction.marks THEN transaction.prevDirty ELSE dirty
        BY <2>1 DEF Joined, Wrapped
    <2>3. UndoMarks' /\ UndoRemembers' /\ UndoThenRedo' /\ RedoRemembers'
        BY <2>1 DEF UndoMarks, UndoRemembers, UndoThenRedo, RedoRemembers
    <2>4. TransactionMarks'
        BY <2>1, <2>2 DEF TransactionMarks, InTransaction, UndoMarks
    <2> QED
        BY <2>3, <2>4
  <1>4. ASSUME NEW c \in Commands, ExecCoalesced(c) PROVE FlagInv'
    <2>1. /\ undoStack # <<>> /\ redoStack' = <<>> /\ transaction' = NoTransaction
          /\ dirty' = (dirty \/ c.marks)
          /\ undoStack' = [undoStack EXCEPT ![Len(undoStack)].sets = c.sets,
                                            ![Len(undoStack)].captures = {},
                                            ![Len(undoStack)].age = 0]
        BY <1>4 DEF ExecCoalesced, Coalesces, Does
    <2>2. /\ Len(undoStack') = Len(undoStack)
          /\ \A i \in 1..Len(undoStack) : /\ undoStack'[i].marks = undoStack[i].marks
                                          /\ undoStack'[i].prevDirty = undoStack[i].prevDirty
      <3>1. \A i \in 1..Len(undoStack) : undoStack[i] \in Entry
          BY <1>1
      <3> QED
          BY <1>1, <2>1, <3>1 DEF Entry
    <2>3. Marks(undoStack') = Marks(undoStack) /\ Marks(redoStack') = {}
        BY <1>2, <2>1, <2>2 DEF Marks
    <2>4. UndoRemembers'
        BY <2>2, <2>3 DEF UndoRemembers, Marks
    <2>5. UndoMarks' /\ UndoThenRedo' /\ RedoRemembers' /\ TransactionMarks'
        BY <2>1, <2>3
        DEF UndoMarks, UndoThenRedo, RedoRemembers, TransactionMarks, InTransaction
    <2> QED
        BY <2>4, <2>5
  <1>5. ASSUME NEW c \in Commands, ExecPushed(c) PROVE FlagInv'
    <2> DEFINE w == Wrapped(c)
    <2>1. /\ undoStack' = Pushed(w) /\ redoStack' = <<>> /\ transaction' = NoTransaction
          /\ dirty' = (dirty \/ c.marks)
        BY <1>5 DEF ExecPushed, Does
    <2>2. w \in Entry /\ w.marks = c.marks /\ w.prevDirty = dirty
        BY WrappedIs DEF Wrapped
    <2> HIDE DEF w
    <2>3. /\ \A i, j \in Marks(Pushed(w)) : i < j => Pushed(w)[j].prevDirty
          /\ Marks(Pushed(w)) # {} => Marks(undoStack) # {} \/ w.marks
        BY <1>1, <2>2, MarksPushed DEF UndoMarks
    <2>4. UndoMarks' /\ UndoRemembers'
        BY <2>1, <2>2, <2>3 DEF UndoMarks, UndoRemembers
    <2>5. UndoThenRedo' /\ RedoRemembers' /\ TransactionMarks'
        BY <1>2, <2>1 DEF UndoThenRedo, RedoRemembers, TransactionMarks, InTransaction
    <2> QED
        BY <2>4, <2>5
  <1>6. ASSUME Undo PROVE FlagInv'
    <2> DEFINE e == Last(undoStack)
               s == Front(undoStack)
    <2>1. /\ undoStack # <<>> /\ undoStack' = s /\ redoStack' = Append(redoStack, e)
          /\ dirty' = IF e.marks THEN e.prevDirty ELSE dirty
          /\ transaction' = NoTransaction
        BY <1>6 DEF Undo
    <2>2. s \in Seq(Entry) /\ e \in Entry /\ undoStack = Append(s, e)
        BY <1>1, <2>1, TopOfStack
    <2> HIDE DEF e, s
    <2>3. /\ \A i \in Marks(s) : i \in Marks(undoStack) /\ undoStack[i] = s[i]
          /\ e.marks => Len(s) + 1 \in Marks(undoStack) /\ \A i \in Marks(s) : i < Len(s) + 1
          /\ undoStack[Len(s) + 1] = e
        BY <2>2, MarksAppended DEF Marks
    <2>4. \A i \in Marks(s) : e.marks => e.prevDirty
        BY <2>3 DEF UndoRemembers
    <2>5. UndoMarks' /\ UndoRemembers'
        BY <2>1, <2>3, <2>4 DEF UndoMarks, UndoRemembers
    <2>6. UndoThenRedo'
        BY <1>1, <2>1, <2>2, <2>3, <2>4, MarksAppended DEF UndoThenRedo
    <2>7. RedoRemembers'
      <3> DEFINE r == Append(redoStack, e)
      <3>1. \A i \in Marks(r) :
              /\ i \in 1..(Len(redoStack) + 1)
              /\ \/ i \in Marks(redoStack) /\ r[i] = redoStack[i]
                 \/ i = Len(redoStack) + 1 /\ r[i] = e /\ e.marks
          BY <1>1, <2>2, MarksAppended
      <3>2. Len(redoStack) \in Nat
          BY <1>1
      <3> HIDE DEF r
      <3>3. SUFFICES ASSUME NEW j \in Marks(r), NEW k \in Marks(r), j < k
                     PROVE  r[j].prevDirty
          BY <2>1 DEF RedoRemembers, r
      <3>4. j \in Marks(redoStack) /\ r[j] = redoStack[j]
          BY <3>1, <3>2, <3>3
      <3>5. CASE k \in Marks(redoStack)
          BY <3>3, <3>4, <3>5 DEF RedoRemembers
      <3>6. CASE e.marks
          BY <2>3, <3>4, <3>6 DEF UndoThenRedo
      <3> QED
          BY <3>1, <3>5, <3>6
    <2> QED
        BY <2>1, <2>5, <2>6, <2>7 DEF TransactionMarks, InTransaction
  <1>7. ASSUME Redo PROVE FlagInv'
    <2> DEFINE e == Last(redoStack)
               s == Front(redoStack)
               w == [e EXCEPT !.undoes = Over(Taken(doc, e.captures), e.undoes)]
    <2>1. /\ redoStack # <<>> /\ redoStack' = s /\ undoStack' = Append(undoStack, w)
          /\ dirty' = (dirty \/ e.marks) /\ transaction' = NoTransaction
        BY <1>7 DEF Redo
    <2>2. s \in Seq(Entry) /\ e \in Entry /\ redoStack = Append(s, e)
        BY <1>1, <2>1, TopOfStack
    <2>3. w.marks = e.marks /\ w.prevDirty = e.prevDirty
        BY <2>2 DEF Entry
    <2> HIDE DEF e, s, w
    <2>4. /\ \A i \in Marks(s) : i \in Marks(redoStack) /\ redoStack[i] = s[i]
          /\ e.marks => Len(s) + 1 \in Marks(redoStack) /\ \A i \in Marks(s) : i < Len(s) + 1
          /\ redoStack[Len(s) + 1] = e
        BY <2>2, MarksAppended DEF Marks
    <2>5. /\ \A i \in Marks(undoStack') :
               /\ i \in 1..(Len(undoStack) + 1)
               /\ \/ i \in Marks(undoStack) /\ undoStack'[i] = undoStack[i]
                  \/ i = Len(undoStack) + 1 /\ undoStack'[i] = w /\ w.marks
        BY <1>1, <2>1 DEF Marks
    <2>6. \A i \in Marks(undoStack) : e.marks => e.prevDirty
        BY <2>4 DEF UndoThenRedo
    <2>7. UndoMarks'
        BY <2>1, <2>3, <2>5 DEF UndoMarks
    <2>8. UndoRemembers'
      <3>1. SUFFICES ASSUME NEW i \in Marks(undoStack'), NEW j \in Marks(undoStack'), i < j
                     PROVE  undoStack'[j].prevDirty
          BY DEF UndoRemembers
      <3>2. i \in Marks(undoStack) /\ undoStack'[i] = undoStack[i]
          BY <1>1, <2>5, <3>1
      <3>3. CASE j \in Marks(undoStack) /\ undoStack'[j] = undoStack[j]
          BY <3>1, <3>2, <3>3 DEF UndoRemembers
      <3>4. CASE undoStack'[j] = w /\ w.marks
          BY <2>3, <2>6, <3>2, <3>4
      <3> QED
          BY <2>5, <3>3, <3>4
    <2>9. UndoThenRedo'
      <3>1. SUFFICES ASSUME NEW i \in Marks(undoStack'), NEW j \in Marks(s)
                     PROVE  s[j].prevDirty
          BY <2>1 DEF UndoThenRedo
      <3>2. CASE i \in Marks(undoStack)
          BY <2>4, <3>1, <3>2 DEF UndoThenRedo
      <3>3. CASE w.marks
          BY <2>3, <2>4, <3>1, <3>3 DEF RedoRemembers
      <3> QED
          BY <2>5, <3>2, <3>3
    <2>10. RedoRemembers'
        BY <2>1, <2>4 DEF RedoRemembers
    <2> QED
        BY <2>1, <2>7, <2>8, <2>9, <2>10 DEF TransactionMarks, InTransaction
  <1>8. ASSUME BeginTransaction PROVE FlagInv'
    <2>1. UNCHANGED <<dirty, undoStack, redoStack>> /\ ~transaction'.marks
        BY <1>8 DEF BeginTransaction, NothingBuffered
    <2> QED
        BY <2>1
        DEF UndoMarks, UndoRemembers, UndoThenRedo, RedoRemembers, TransactionMarks, InTransaction
  <1>9. ASSUME CommitTransaction PROVE FlagInv'
    <2>1. transaction # NoTransaction /\ transaction' = NoTransaction /\ UNCHANGED dirty
        BY <1>9 DEF CommitTransaction
    <2>2. TransactionMarks'
        BY <2>1 DEF TransactionMarks, InTransaction
    <2>3. CASE DOMAIN transaction.sets = {}
      <3>1. UNCHANGED <<undoStack, redoStack>>
          BY <1>9, <2>3 DEF CommitTransaction
      <3> QED
          BY <2>1, <2>2, <3>1 DEF UndoMarks, UndoRemembers, UndoThenRedo, RedoRemembers
    <2>4. CASE DOMAIN transaction.sets # {}
      <3>1. undoStack' = Pushed(transaction) /\ redoStack' = <<>>
          BY <1>9, <2>4 DEF CommitTransaction
      <3>2. /\ \A i, j \in Marks(Pushed(transaction)) : i < j => Pushed(transaction)[j].prevDirty
            /\ Marks(Pushed(transaction)) # {} => Marks(undoStack) # {} \/ transaction.marks
          BY <1>1, <2>1, MarksPushed DEF TransactionMarks, InTransaction
      <3>3. UndoMarks' /\ UndoRemembers'
          BY <2>1, <3>1, <3>2
          DEF UndoMarks, UndoRemembers, TransactionMarks, InTransaction
      <3> QED
          BY <1>2, <2>2, <3>1, <3>3 DEF UndoThenRedo, RedoRemembers
    <2> QED
        BY <2>3, <2>4
  <1>10. ASSUME CancelTransaction PROVE FlagInv'
    <2>1. /\ transaction # NoTransaction /\ transaction' = NoTransaction
          /\ dirty' = IF transaction.marks THEN transaction.prevDirty ELSE dirty
          /\ UNCHANGED <<undoStack, redoStack>>
        BY <1>10 DEF CancelTransaction
    <2> QED
        BY <2>1
        DEF UndoMarks, UndoRemembers, UndoThenRedo, RedoRemembers, TransactionMarks, InTransaction
  <1>11. ASSUME Clear PROVE FlagInv'
    <2>1. undoStack' = <<>> /\ redoStack' = <<>> /\ transaction' = NoTransaction
        BY <1>11 DEF Clear, ClearsHistory
    <2> QED
        BY <1>2, <2>1
        DEF UndoMarks, UndoRemembers, UndoThenRedo, RedoRemembers, TransactionMarks, InTransaction
  <1>12. ASSUME Tick PROVE FlagInv'
    <2> DEFINE Older(t) == IF t < CoalesceMs THEN t + 1 ELSE t
               Aged(stack) == [i \in DOMAIN stack |-> [stack[i] EXCEPT !.age = Older(@)]]
    <2>1. /\ UNCHANGED <<dirty, transaction>>
          /\ undoStack' = Aged(undoStack) /\ redoStack' = Aged(redoStack)
        BY <1>12 DEF Tick
    <2> HIDE DEF Older
    <2>2. ASSUME NEW s \in Seq(Entry)
          PROVE  /\ Marks(Aged(s)) = Marks(s)
                 /\ \A i \in Marks(s) : Aged(s)[i].prevDirty = s[i].prevDirty
      <3>1. DOMAIN s = 1..Len(s) /\ Len(s) \in Nat
          OBVIOUS
      <3>2. \A i \in 1..Len(s) : s[i] \in Entry
          BY Elements, <3>1
      <3>3. \A i \in 1..Len(s) : Aged(s)[i].marks = s[i].marks /\ Aged(s)[i].prevDirty = s[i].prevDirty
          BY <3>1, <3>2 DEF Entry
      <3>4. DOMAIN Aged(s) = 1..Len(s)
          BY <3>1
      <3> HIDE DEF Aged
      <3>5. Len(Aged(s)) = Len(s)
          BY <3>1, <3>4
      <3> QED
          BY <3>3, <3>5 DEF Marks
    <2> HIDE DEF Aged
    <2>3. /\ Marks(undoStack') = Marks(undoStack) /\ Marks(redoStack') = Marks(redoStack)
          /\ \A i \in Marks(undoStack) : undoStack'[i].prevDirty = undoStack[i].prevDirty
          /\ \A i \in Marks(redoStack) : redoStack'[i].prevDirty = redoStack[i].prevDirty
        BY <1>1, <2>1, <2>2
    <2> QED
        BY <2>1, <2>3
        DEF UndoMarks, UndoRemembers, UndoThenRedo, RedoRemembers, TransactionMarks, InTransaction
  <1>13. ASSUME UNCHANGED vars PROVE FlagInv'
      BY <1>13
      DEF vars, history, UndoMarks, UndoRemembers, UndoThenRedo, RedoRemembers, TransactionMarks,
          InTransaction
  <1> QED
      BY <1>3, <1>4, <1>5, <1>6, <1>7, <1>8, <1>9, <1>10, <1>11, <1>12, <1>13 DEF Next, Exec

(* While an edit that counts is applied, the project counts as edited      *)
(* (history.ts wrapWithDirty), however many undos, redos, coalesced edits  *)
(* and cancelled transactions lie in between.                              *)
THEOREM EditsStayDirty == Spec => []EditedIsDirty
  <1>1. FlagInv => EditedIsDirty
      BY DEF FlagInv, UndoMarks, TransactionMarks, InTransaction, Marks, EditedIsDirty
  <1>2. HistoryInv /\ [Next]_vars => HistoryInv'
      BY LogStep
  <1> QED
      BY <1>1, <1>2, HistoryInit, FlagInit, FlagStep, PTL DEF Spec

-----------------------------------------------------------------------------
(* One run at a time.  The guards of the three ways into run() read        *)
(* different variables; they agree because each of the variables tells     *)
(* whether a request is in flight.                                         *)

RunInv ==
    /\ runs = <<>> \/ \E d : runs = <<d>>
    /\ generating <=> runs # <<>>
    /\ Running <=> runs # <<>>

LEMMA RunInit == SessionInit => RunInv
  BY DEF SessionInit, RunInv, Running

LEMMA RunEnds ==
    ASSUME RunInv, NEW i \in DOMAIN runs, Finished(i) \/ Failed(i)
    PROVE  runs' = <<>>
  <1>1. PICK d : runs = <<d>>
      BY DEF RunInv
  <1>2. i = 1
      BY <1>1
  <1>3. runs' = RemoveAt(runs, i)
      BY DEF Finished, Failed, Answered
  <1> QED
      BY <1>1, <1>2, <1>3 DEF RemoveAt

LEMMA RunStep == RunInv /\ [SessionNext]_session => RunInv'
  <1> SUFFICES ASSUME RunInv, [SessionNext]_session PROVE RunInv'
      OBVIOUS
  <1>1. ASSUME UNCHANGED <<pipelineState, generating, runs>> PROVE RunInv'
      BY <1>1 DEF RunInv, Running
  <1>2. ASSUME Run, runs = <<>> PROVE RunInv'
    <2>1. runs' = <<doc>> /\ pipelineState' = "running" /\ generating' = TRUE
        BY <1>2 DEF Run
    <2> QED
        BY <2>1 DEF RunInv, Running
  <1>3. ASSUME GenerateButton \/ GenerateRequest \/ AutoRun PROVE RunInv'
      BY <1>2, <1>3 DEF GenerateButton, GenerateRequest, AutoRun, RunInv, Running
  <1>4. ASSUME CancelRun PROVE RunInv'
    <2>1. /\ pipelineState = "running" /\ pipelineState' = "cancelling"
          /\ UNCHANGED <<generating, runs>>
        BY <1>4 DEF CancelRun
    <2> QED
        BY <2>1 DEF RunInv, Running
  <1>5. ASSUME NEW i \in DOMAIN runs, Finished(i) \/ Failed(i) PROVE RunInv'
    <2>1. runs' = <<>> /\ generating' = FALSE
        BY <1>5, RunEnds DEF Finished, Failed, Answered
    <2>2. pipelineState' \in {"completed", "idle"}
        BY <1>5 DEF Finished, Failed
    <2> QED
        BY <2>1, <2>2 DEF RunInv, Running
  <1>6. ASSUME ResetState PROVE RunInv'
    <2>1. /\ pipelineState' = IF pipelineState = "completed" THEN "idle" ELSE pipelineState
          /\ UNCHANGED <<generating, runs>>
        BY <1>6 DEF ResetState
    <2> QED
        BY <2>1 DEF RunInv, Running
  <1>7. ASSUME Edit \/ UndoEdit \/ RedoEdit PROVE RunInv'
      BY <1>1, <1>7 DEF Edit, UndoEdit, RedoEdit, Edits
  <1>8. ASSUME SaveOrLoad PROVE RunInv'
    <2>1. UNCHANGED <<pipelineState, generating, runs>>
        BY <1>8
        DEF SaveOrLoad, BeginSave, Saved, SaveFailed, BeginLoad, ClearForLoad, LoadFinished,
            LoadFailed, gen
    <2> QED
        BY <1>1, <2>1
  <1>9. ASSUME Reload PROVE RunInv'
      BY <1>1, <1>9 DEF Reload, BeginReload, Reloaded, ReloadFailed, gen
  <1>10. ASSUME UNCHANGED session PROVE RunInv'
      BY <1>1, <1>10 DEF session, gen
  <1> QED
      BY <1>3, <1>4, <1>5, <1>6, <1>7, <1>8, <1>9, <1>10 DEF SessionNext, Generate, Answer

(* GenerateBar.svelte's button, its bus and its automatic re-run, each     *)
(* behind a guard of its own, never have two runs in flight together.      *)
THEOREM OneRunInFlight == SessionSpec => []OneRunAtATime
  <1>1. RunInv => OneRunAtATime
    <2>1. ASSUME NEW d, runs = <<d>> PROVE Len(runs) <= 1
        BY <2>1
    <2>2. runs = <<>> => Len(runs) <= 1
        OBVIOUS
    <2> QED
        BY <2>1, <2>2 DEF RunInv, OneRunAtATime
  <1> QED
      BY <1>1, RunInit, RunStep, PTL DEF SessionSpec

(* The bar shows a running pipeline exactly while a request is in flight,  *)
(* however runs end and timers of earlier runs fire (generated.svelte.ts). *)
THEOREM BarShowsTheRun == SessionSpec => []BusyWhileRunning
  <1>1. RunInv => BusyWhileRunning
      BY DEF RunInv, BusyWhileRunning
  <1> QED
      BY <1>1, RunInit, RunStep, PTL DEF SessionSpec

-----------------------------------------------------------------------------
(* The dialect of the program on screen.  Its tag is compared with the      *)
(* project's dialect whenever either changes, so a document must always have a     *)
(* dialect: the one on screen, those on disk or on their way there, and    *)
(* those undo and redo would bring back.  A drawing may be read again with *)
(* any content, so a document in memory is not one of Docs.  What a run    *)
(* brings is in the dialect its document was sent with: unless the dialect *)
(* was switched since, the project's.                                      *)

IsProject(d) == d = [f \in Fields |-> d[f]] /\ d["post"] \in Values

HasDialect(p) == "post" \in DOMAIN p => p["post"] \in Values

IsEntry(e) ==
    /\ e = [sets |-> e.sets, undoes |-> e.undoes, captures |-> e.captures,
            key |-> e.key, marks |-> e.marks, prevDirty |-> e.prevDirty, age |-> e.age]
    /\ HasDialect(e.sets) /\ HasDialect(e.undoes)

IsStack(s) == \E E : s \in Seq(E) /\ \A e \in E : IsEntry(e)

MemoryInv ==
    /\ IsProject(doc)
    /\ IsStack(undoStack) /\ IsStack(redoStack) /\ transaction = NoTransaction

DiskInv ==
    /\ file # None => IsProject(file)
    /\ saving # None => IsProject(saving)
    /\ loading # None => loading = [reads |-> loading.reads, cleared |-> loading.cleared]
                         /\ IsProject(loading.reads)

SentInDialect ==
    /\ switched \in BOOLEAN
    /\ \A i \in DOMAIN runs : switched \/ runs[i]["post"] = doc["post"]

DialectInv == MemoryInv /\ DiskInv /\ RunInv /\ SentInDialect /\ DialectIsCurrent

LEMMA EmptyStack == IsStack(<<>>)
  <1> DEFINE E == {}
  <1>1. <<>> \in Seq(E) /\ \A e \in E : IsEntry(e)
      OBVIOUS
  <1> HIDE DEF E
  <1> QED
      BY <1>1 DEF IsStack

LEMMA StackAppended ==
    ASSUME NEW s, IsStack(s), NEW e, IsEntry(e)
    PROVE  IsStack(Append(s, e)) /\ IsStack(Trimmed(Append(s, e)))
  <1>1. PICK E : s \in Seq(E) /\ \A x \in E : IsEntry(x)
      BY DEF IsStack
  <1> DEFINE F == E \cup {e}
             t == Append(s, e)
  <1>2. \A x \in F : IsEntry(x)
      BY <1>1
  <1>3. t \in Seq(F) /\ t # <<>>
    <2>1. s \in Seq(F) /\ e \in F
        BY <1>1
    <2> HIDE DEF F
    <2> QED
        BY <2>1, AppendProperties
  <1>4. Tail(t) \in Seq(F)
      BY <1>3
  <1> HIDE DEF F, t
  <1> QED
      BY <1>2, <1>3, <1>4 DEF IsStack, Trimmed, t

LEMMA StackPopped ==
    ASSUME NEW s, IsStack(s), s # <<>>
    PROVE  IsStack(Front(s)) /\ IsEntry(Last(s))
  <1>1. PICK E : s \in Seq(E) /\ \A x \in E : IsEntry(x)
      BY DEF IsStack
  <1> QED
      BY <1>1, TopOfStack DEF IsStack

LEMMA CommandHasDialect ==
    ASSUME NEW c \in Commands
    PROVE  HasDialect(c.sets)
  BY CommandIs, PatchesAreFunctions DEF HasDialect, Patches

LEMMA PostIsField == "post" \in Fields
  BY SessionAssumption

LEMMA PatchedIsProject ==
    ASSUME NEW d, IsProject(d), NEW p, HasDialect(p)
    PROVE  IsProject(Patched(d, p))
  BY PostIsField DEF IsProject, HasDialect, Patched

LEMMA WrappedIsEntry ==
    ASSUME IsProject(doc), NEW c \in Commands
    PROVE  IsEntry(Wrapped(c))
  <1>1. HasDialect(c.sets)
      BY CommandHasDialect
  <1>2. HasDialect(Taken(doc, DOMAIN c.sets))
      BY DEF HasDialect, Taken, IsProject
  <1> QED
      BY <1>1, <1>2 DEF IsEntry, Wrapped

LEMMA EditKeepsMemory ==
    ASSUME MemoryInv, NEW c \in Commands, Exec(c)
    PROVE  MemoryInv'
  <1>1. transaction = NoTransaction /\ IsProject(doc) /\ IsStack(undoStack)
      BY DEF MemoryInv
  <1>2. ~ExecBuffered(c)
      BY <1>1 DEF ExecBuffered
  <1>3. doc' = Patched(doc, c.sets) /\ redoStack' = <<>> /\ transaction' = NoTransaction
      BY <1>1, <1>2 DEF Exec, ExecCoalesced, ExecPushed, Does
  <1>4. IsProject(doc')
      BY <1>1, <1>3, CommandHasDialect, PatchedIsProject
  <1>5. IsStack(undoStack')
    <2>1. CASE ExecPushed(c)
        BY <1>1, <2>1, WrappedIsEntry, StackAppended DEF ExecPushed, Pushed
    <2>2. CASE ExecCoalesced(c)
      <3> DEFINE e == Last(undoStack)
                 w == [e EXCEPT !.sets = c.sets, !.captures = {}, !.age = 0]
      <3>1. undoStack # <<>>
            /\ undoStack' = [undoStack EXCEPT ![Len(undoStack)].sets = c.sets,
                                              ![Len(undoStack)].captures = {},
                                              ![Len(undoStack)].age = 0]
          BY <2>2 DEF ExecCoalesced, Coalesces
      <3>2. PICK E : undoStack \in Seq(E) /\ \A x \in E : IsEntry(x)
          BY <1>1 DEF IsStack
      <3>3. Len(undoStack) \in DOMAIN undoStack /\ e = undoStack[Len(undoStack)] /\ e \in E
          BY <3>1, <3>2 DEF Last
      <3>4. undoStack' = [undoStack EXCEPT ![Len(undoStack)] = w]
          BY <3>1, <3>2, <3>3
      <3>5. IsEntry(w)
        <4>1. IsEntry(e)
            BY <3>2, <3>3
        <4> HIDE DEF e
        <4>2. w = [sets |-> c.sets, undoes |-> e.undoes, captures |-> {}, key |-> e.key,
                   marks |-> e.marks, prevDirty |-> e.prevDirty, age |-> 0]
          <5>1. e = [sets |-> e.sets, undoes |-> e.undoes, captures |-> e.captures, key |-> e.key,
                     marks |-> e.marks, prevDirty |-> e.prevDirty, age |-> e.age]
              BY <4>1 DEF IsEntry
          <5> HIDE DEF w
          <5>2. w = [[sets |-> e.sets, undoes |-> e.undoes, captures |-> e.captures, key |-> e.key,
                      marks |-> e.marks, prevDirty |-> e.prevDirty, age |-> e.age]
                        EXCEPT !.sets = c.sets, !.captures = {}, !.age = 0]
              BY <5>1 DEF w
          <5> QED
              BY <5>2
        <4> QED
            BY <4>1, <4>2, CommandHasDialect DEF IsEntry
      <3> HIDE DEF w
      <3>6. undoStack' \in Seq(E \cup {w})
          BY <3>2, <3>3, <3>4
      <3> QED
          BY <3>2, <3>5, <3>6 DEF IsStack
    <2> QED
        BY <1>2, <2>1, <2>2 DEF Exec
  <1> QED
      BY <1>3, <1>4, <1>5, EmptyStack DEF MemoryInv

LEMMA UndoKeepsMemory == ASSUME MemoryInv, Undo PROVE MemoryInv'
  <1> DEFINE e == Last(undoStack)
  <1>1. /\ undoStack # <<>> /\ doc' = Patched(doc, e.undoes)
        /\ undoStack' = Front(undoStack) /\ redoStack' = Append(redoStack, e)
        /\ transaction' = NoTransaction
      BY DEF Undo
  <1>2. IsStack(Front(undoStack)) /\ IsEntry(e) /\ IsProject(doc) /\ IsStack(redoStack)
      BY <1>1, StackPopped DEF MemoryInv
  <1>3. IsStack(Append(redoStack, e))
      BY <1>2, StackAppended
  <1>4. IsProject(Patched(doc, e.undoes))
      BY <1>2, PatchedIsProject DEF IsEntry
  <1> QED
      BY <1>1, <1>2, <1>3, <1>4 DEF MemoryInv

LEMMA RedoKeepsMemory == ASSUME MemoryInv, Redo PROVE MemoryInv'
  <1> DEFINE e == Last(redoStack)
             p == Over(Taken(doc, e.captures), e.undoes)
             w == [e EXCEPT !.undoes = p]
  <1>1. /\ redoStack # <<>> /\ doc' = Patched(doc, e.sets)
        /\ redoStack' = Front(redoStack) /\ undoStack' = Append(undoStack, w)
        /\ transaction' = NoTransaction
      BY DEF Redo
  <1>2. IsStack(Front(redoStack)) /\ IsEntry(e) /\ IsProject(doc) /\ IsStack(undoStack)
      BY <1>1, StackPopped DEF MemoryInv
  <1> HIDE DEF e
  <1>3. HasDialect(p)
      BY <1>2 DEF HasDialect, Over, Taken, IsProject, IsEntry
  <1> HIDE DEF p
  <1>4. w = [sets |-> e.sets, undoes |-> p, captures |-> e.captures, key |-> e.key,
             marks |-> e.marks, prevDirty |-> e.prevDirty, age |-> e.age]
      BY <1>2 DEF IsEntry
  <1>5. IsEntry(w)
      BY <1>2, <1>3, <1>4 DEF IsEntry
  <1> HIDE DEF w
  <1>6. IsStack(Append(undoStack, w))
      BY <1>2, <1>5, StackAppended
  <1>7. IsProject(Patched(doc, e.sets))
      BY <1>2, PatchedIsProject DEF IsEntry
  <1> QED
      BY <1>1, <1>2, <1>6, <1>7 DEF MemoryInv

(* The effects that watch the dialect drop a program, or leave it with a   *)
(* tag that is the dialect.                                                *)
LEMMA ShownIsTagged ==
    ASSUME NEW shown, NEW tag, NEW post, shown # None => tag # None,
           ShowFor(shown, tag, post), generated' # None
    PROVE  generated' = shown /\ generatedPost' = tag /\ tag = post
  BY DEF ShowFor

(* A step that starts and ends no run notes a switch of the dialect.       *)
LEMMA SwitchIsNoted ==
    ASSUME SentInDialect, Switches, UNCHANGED runs
    PROVE  SentInDialect'
  <1>1. switched' \in BOOLEAN
      BY DEF Switches
  <1>2. ASSUME NEW i \in DOMAIN runs, ~switched' PROVE runs[i]["post"] = doc'["post"]
    <2>1. runs # <<>>
        BY <1>2
    <2>2. ~switched /\ doc'["post"] = doc["post"]
        BY <1>2, <2>1 DEF Switches
    <2> QED
        BY <2>2 DEF SentInDialect
  <1> QED
      BY <1>1, <1>2 DEF SentInDialect

LEMMA EditKeepsDialect ==
    ASSUME DialectInv, NEW A, Edits(A), MemoryInv', RunInv'
    PROVE  DialectInv'
  <1>1. /\ ShowFor(generated, generatedPost, doc'["post"])
        /\ Switches /\ UNCHANGED <<runs, mixed, files>>
      BY DEF Edits
  <1>2. generated # None => generatedPost # None
      BY SessionAssumption DEF DialectInv, DialectIsCurrent, MemoryInv, IsProject
  <1>3. DialectIsCurrent'
    <2>1. ASSUME generated' # None
          PROVE  generated' = generated /\ generatedPost' = generatedPost
                 /\ generatedPost = doc'["post"]
        BY <1>1, <1>2, <2>1, ShownIsTagged
    <2> QED
        BY <1>1, <2>1 DEF DialectInv, DialectIsCurrent
  <1>4. DiskInv'
      BY <1>1 DEF files, DialectInv, DiskInv
  <1>5. SentInDialect'
      BY <1>1, SwitchIsNoted DEF DialectInv
  <1> QED
      BY <1>3, <1>4, <1>5 DEF DialectInv

LEMMA DialectInit == SessionInit => DialectInv
  <1> SUFFICES ASSUME SessionInit PROVE DialectInv
      OBVIOUS
  <1>1. \A d \in ProjectFiles : IsProject(d)
      BY SessionAssumption, PostIsField DEF IsProject, Docs
  <1>2. /\ doc \in ProjectFiles /\ file = doc /\ generated = None /\ saving = None
        /\ loading = None
        /\ undoStack = <<>> /\ redoStack = <<>> /\ transaction = NoTransaction
        /\ runs = <<>> /\ switched = FALSE
      BY DEF SessionInit, Init
  <1>3. SentInDialect
    <2>1. switched \in BOOLEAN
        BY <1>2
    <2>2. DOMAIN runs = {}
      <3>1. runs = <<>>
          BY <1>2
      <3> QED
          BY <3>1
    <2> QED
        BY <2>1, <2>2 DEF SentInDialect
  <1> QED
      BY <1>1, <1>2, <1>3, EmptyStack, RunInit
      DEF DialectInv, MemoryInv, DiskInv, DialectIsCurrent

LEMMA DialectStep == DialectInv /\ [SessionNext]_session => DialectInv'
  <1> SUFFICES ASSUME DialectInv, [SessionNext]_session PROVE DialectInv'
      OBVIOUS
  <1>1. \A d \in ProjectFiles : IsProject(d)
      BY SessionAssumption, PostIsField DEF IsProject, Docs
  <1>2. MemoryInv /\ DiskInv /\ RunInv /\ SentInDialect /\ DialectIsCurrent
      BY DEF DialectInv
  <1>r. RunInv'
      BY <1>2, RunStep
  <1>3. ASSUME UNCHANGED <<doc, history>> PROVE MemoryInv'
      BY <1>2, <1>3 DEF MemoryInv, history
  <1>4. ASSUME UNCHANGED <<file, saving, loading>> PROVE DiskInv'
      BY <1>2, <1>4 DEF DiskInv
  <1>5. ASSUME UNCHANGED <<doc, generated, generatedPost, mixed>> PROVE DialectIsCurrent'
      BY <1>2, <1>5 DEF DialectIsCurrent
  <1>s. ASSUME UNCHANGED <<doc, runs, switched>> PROVE SentInDialect'
      BY <1>2, <1>s DEF SentInDialect
  <1>6. ASSUME Edit \/ UndoEdit \/ RedoEdit PROVE DialectInv'
    <2>1. ASSUME NEW c \in Commands, Edits(Exec(c)) PROVE DialectInv'
        BY <1>2, <1>r, <2>1, EditKeepsMemory, EditKeepsDialect DEF Edits
    <2>2. ASSUME Edits(Undo) PROVE DialectInv'
        BY <1>2, <1>r, <2>2, UndoKeepsMemory, EditKeepsDialect DEF Edits
    <2>3. ASSUME Edits(Redo) PROVE DialectInv'
        BY <1>2, <1>r, <2>3, RedoKeepsMemory, EditKeepsDialect DEF Edits
    <2> QED
        BY <1>6, <2>1, <2>2, <2>3 DEF Edit, UndoEdit, RedoEdit
  <1>7. ASSUME NEW i \in DOMAIN runs, Finished(i) PROVE DialectInv'
    <2>1. /\ UNCHANGED <<doc, history, switched, files>>
          /\ ShowFor(runs[i], doc["post"], doc["post"]) /\ mixed' = switched
        BY <1>7 DEF Finished, Answered, SetGenerated
    <2>2. doc["post"] # None
        BY <1>2, SessionAssumption DEF MemoryInv, IsProject
    <2>3. DialectIsCurrent'
      <3>1. ASSUME generated' # None
            PROVE  generated' = runs[i] /\ generatedPost' = doc["post"]
          BY <2>1, <2>2, <3>1, ShownIsTagged
      <3>2. switched \/ runs[i]["post"] = doc["post"]
          BY <1>2 DEF SentInDialect
      <3> QED
          BY <2>1, <3>1, <3>2 DEF DialectIsCurrent
    <2>4. runs' = <<>>
        BY <1>7, RunEnds, <1>2
    <2>5. SentInDialect'
        BY <1>2, <2>1, <2>4 DEF SentInDialect
    <2> QED
        BY <1>r, <1>3, <1>4, <2>1, <2>3, <2>5 DEF DialectInv, files
  <1>8. ASSUME NEW i \in DOMAIN runs, Failed(i) PROVE DialectInv'
    <2>1. UNCHANGED <<doc, history, switched, files, generated, generatedPost, mixed>>
        BY <1>8 DEF Failed, Answered
    <2>2. runs' = <<>>
        BY <1>8, RunEnds, <1>2
    <2>3. SentInDialect'
        BY <1>2, <2>1, <2>2 DEF SentInDialect
    <2> QED
        BY <1>r, <1>3, <1>4, <1>5, <2>1, <2>3 DEF DialectInv, files
  <1>9. ASSUME GenerateButton \/ GenerateRequest \/ AutoRun PROVE DialectInv'
    <2>1. /\ UNCHANGED <<doc, history, files, generated, generatedPost, mixed>>
          /\ runs' = Append(runs, doc) /\ switched' = (runs # <<>> /\ switched)
        BY <1>9 DEF GenerateButton, GenerateRequest, AutoRun, Run, vars
    <2>2. runs = <<>>
        BY <1>2, <1>9 DEF RunInv, GenerateButton, GenerateRequest, AutoRun, Running
    <2>3. runs' = <<doc>>
        BY <2>1, <2>2
    <2>4. switched' = FALSE
        BY <2>1, <2>2
    <2>5. \A i \in DOMAIN runs' : runs'[i] = doc
        BY <2>3
    <2>6. SentInDialect'
        BY <2>1, <2>4, <2>5 DEF SentInDialect
    <2> QED
        BY <1>r, <1>3, <1>4, <1>5, <2>1, <2>6 DEF DialectInv, files
  <1>18. ASSUME CancelRun \/ ResetState PROVE DialectInv'
    <2>1. UNCHANGED <<doc, history, runs, switched, files, generated, generatedPost, mixed>>
        BY <1>18 DEF CancelRun, ResetState, vars, dialects
    <2> QED
        BY <1>r, <1>s, <1>3, <1>4, <1>5, <2>1 DEF DialectInv, files
  <1>10. ASSUME BeginSave \/ Saved \/ SaveFailed PROVE DialectInv'
    <2>1. UNCHANGED <<doc, history, loading, generated, generatedPost, runs, switched, mixed>>
        BY <1>10 DEF BeginSave, Saved, SaveFailed, vars, gen, dialects
    <2>2. \/ saving' \in {doc, None} /\ file' = file
          \/ saving # None /\ file' = saving /\ saving' = None
        BY <1>10 DEF BeginSave, Saved, SaveFailed
    <2>3. DiskInv'
        BY <1>2, <2>1, <2>2 DEF DiskInv, MemoryInv
    <2> QED
        BY <1>r, <1>s, <1>3, <1>5, <2>1, <2>3 DEF DialectInv
  <1>11. ASSUME BeginLoad PROVE DialectInv'
    <2>1. UNCHANGED <<doc, history, file, saving, generated, generatedPost, runs, switched, mixed>>
        BY <1>11 DEF BeginLoad, vars, gen, dialects
    <2>2. PICK d \in ProjectFiles \cup ({file} \ {None}) :
            loading' = [reads |-> d, cleared |-> FALSE]
        BY <1>11 DEF BeginLoad
    <2>3. IsProject(d)
        BY <1>1, <1>2, <2>2 DEF DiskInv
    <2>4. DiskInv'
        BY <1>2, <2>1, <2>2, <2>3 DEF DiskInv
    <2> QED
        BY <1>r, <1>s, <1>3, <1>5, <2>1, <2>4 DEF DialectInv
  <1>12. ASSUME ClearForLoad PROVE DialectInv'
    <2>1. /\ doc' = [doc EXCEPT !["imports"] = <<>>]
          /\ loading # None /\ loading' = [loading EXCEPT !.cleared = TRUE]
          /\ file' = None /\ saving' = saving /\ generated' = None
          /\ undoStack' = <<>> /\ redoStack' = <<>> /\ transaction' = NoTransaction
          /\ UNCHANGED <<runs, switched>>
        BY <1>12 DEF ClearForLoad, ClearsHistory, ForgetGenerated, dialects
    <2>2. IsProject(doc') /\ doc'["post"] = doc["post"]
        BY <1>2, <2>1, PostIsField DEF MemoryInv, IsProject
    <2>3. loading' = [reads |-> loading.reads, cleared |-> TRUE] /\ IsProject(loading.reads)
        BY <1>2, <2>1 DEF DiskInv
    <2>4. MemoryInv'
        BY <2>1, <2>2, EmptyStack DEF MemoryInv
    <2>5. DiskInv'
        BY <1>2, <2>1, <2>3 DEF DiskInv
    <2>6. DialectIsCurrent'
        BY <2>1 DEF DialectIsCurrent
    <2>7. SentInDialect'
        BY <1>2, <2>1, <2>2 DEF SentInDialect
    <2> QED
        BY <1>r, <2>4, <2>5, <2>6, <2>7 DEF DialectInv
  <1>13. ASSUME LoadFinished PROVE DialectInv'
    <2>1. /\ loading # None /\ loading' = None
          /\ doc' = Restored(loading.reads) /\ file' = loading.reads /\ saving' = saving
          /\ undoStack' = <<>> /\ redoStack' = <<>> /\ transaction' = NoTransaction
          /\ ShowFor(generated, generatedPost, doc'["post"]) \/ generated' = None
          /\ Switches /\ UNCHANGED <<runs, mixed>>
        BY <1>13 DEF LoadFinished, ClearsHistory, ForgetGenerated
    <2>2. IsProject(loading.reads)
        BY <1>2, <2>1 DEF DiskInv
    <2>3. IsProject(doc')
        BY <2>1, <2>2, PostIsField DEF Restored, IsProject
    <2>4. MemoryInv'
        BY <2>1, <2>3, EmptyStack DEF MemoryInv
    <2>5. DiskInv'
        BY <1>2, <2>1, <2>2 DEF DiskInv
    <2>6. generated # None => generatedPost # None
        BY <1>2, SessionAssumption DEF DialectIsCurrent, MemoryInv, IsProject
    <2>7. DialectIsCurrent'
      <3>1. ASSUME generated' # None
            PROVE  generated' = generated /\ generatedPost' = generatedPost
                   /\ generatedPost = doc'["post"]
          BY <2>1, <2>6, <3>1, ShownIsTagged
      <3> QED
          BY <1>2, <2>1, <3>1 DEF DialectIsCurrent
    <2>8. SentInDialect'
        BY <1>2, <2>1, SwitchIsNoted
    <2> QED
        BY <1>r, <2>4, <2>5, <2>7, <2>8 DEF DialectInv
  <1>14. ASSUME LoadFailed PROVE DialectInv'
    <2>1. /\ UNCHANGED <<doc, history, file, saving, generated, generatedPost>>
          /\ UNCHANGED <<runs, switched, mixed>> /\ loading' = None
        BY <1>14 DEF LoadFailed, vars, gen, dialects
    <2>2. DiskInv'
        BY <1>2, <2>1 DEF DiskInv
    <2> QED
        BY <1>r, <1>s, <1>3, <1>5, <2>1, <2>2 DEF DialectInv
  <1>15. ASSUME BeginReload \/ ReloadFailed PROVE DialectInv'
    <2>1. /\ UNCHANGED <<doc, history, file, saving, loading, generated, generatedPost>>
          /\ UNCHANGED <<runs, switched, mixed>>
        BY <1>15 DEF BeginReload, ReloadFailed, vars, gen, dialects
    <2> QED
        BY <1>r, <1>s, <1>3, <1>4, <1>5, <2>1 DEF DialectInv
  <1>16. ASSUME Reloaded PROVE DialectInv'
    <2>1. /\ UNCHANGED <<history, file, saving, loading, generated, generatedPost>>
          /\ UNCHANGED <<runs, switched, mixed>>
        BY <1>16 DEF Reloaded, gen, dialects
    <2>2. PICK x : doc' = [doc EXCEPT !["imports"] = x]
        BY <1>16 DEF Reloaded
    <2>3. IsProject(doc') /\ doc'["post"] = doc["post"]
        BY <1>2, <2>2, PostIsField DEF MemoryInv, IsProject
    <2>4. MemoryInv'
        BY <1>2, <2>1, <2>3 DEF MemoryInv, history
    <2>5. DialectIsCurrent'
        BY <1>2, <2>1, <2>3 DEF DialectIsCurrent
    <2>6. SentInDialect'
        BY <1>2, <2>1, <2>3 DEF SentInDialect
    <2> QED
        BY <1>r, <1>4, <2>1, <2>4, <2>5, <2>6 DEF DialectInv
  <1>17. ASSUME UNCHANGED session PROVE DialectInv'
    <2>1. /\ UNCHANGED <<doc, history, file, saving, loading, generated, generatedPost>>
          /\ UNCHANGED <<runs, switched, mixed>>
        BY <1>17 DEF session, vars, gen, files, dialects
    <2> QED
        BY <1>r, <1>s, <1>3, <1>4, <1>5, <2>1 DEF DialectInv
  <1> QED
      BY <1>6, <1>7, <1>8, <1>9, <1>18, <1>10, <1>11, <1>12, <1>13, <1>14, <1>15, <1>16, <1>17
      DEF SessionNext, Generate, SaveOrLoad, Reload, Answer

(* The program on screen is tagged with the project's dialect and in it    *)
(* (GenerateBar.svelte's effects), through every edit, undo, redo, answer, *)
(* save, Open and reload, whatever the drawings hold. Excepted is the text *)
(* of a program whose run was out while the dialect was switched.          *)
THEOREM ProgramSpeaksTheDialect == SessionSpec => []DialectIsCurrent
  <1>1. DialectInv => DialectIsCurrent
      BY DEF DialectInv
  <1> QED
      BY <1>1, DialectInit, DialectStep, PTL DEF SessionSpec

=============================================================================
