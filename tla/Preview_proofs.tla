--------------------------- MODULE Preview_proofs ---------------------------
(***************************************************************************)
(* The machine makes the moves its operations planned, for every set of    *)
(* machine profiles and operations outside the disagreements the README    *)
(* lists, every length of program and every number of Generates over one   *)
(* op cache (module Preview).                                              *)
(***************************************************************************)
EXTENDS Preview, Induction_proofs, SequenceTheorems, TLAPS

-----------------------------------------------------------------------------
(* What the three parties and the posts work on *)

Setup == [post : {"linuxcnc", "grbl", "hpgl"}, sep : {".", ","},
          numbered : BOOLEAN, inch : BOOLEAN, cache : BOOLEAN]

\* The even places a program's calls name.
Near == {2 * k : k \in -10 .. 10}
Place == Near \cup {Unknown}
PostSet == [x : Place, z : Place, rate : Nat, pen : BOOLEAN]

Offsets == {-4, -2, 2, 4}
CallSet ==
    {MoveTo(x, z) : x \in Place, z \in Place}
    \cup {Linear(x, z) : x \in Place, z \in Place}
    \cup {Arc(x, z, i) : x \in Near, z \in Place, i \in Offsets}
    \cup {Drill(x, z, q, v, p) : x \in Near, z \in Near, q \in Nat, v \in Nat, p \in Nat}
    \cup {Feedrate(v) : v \in Nat}
    \cup {Dwell(p) : p \in Nat}
    \cup {Station, Home, ApplyProbed}
    \cup {ProbeZ(v) : v \in Nat}
    \cup {SetZ(z) : z \in Near}
    \cup {Marker(id) : id \in Kinds}
    \cup {Raw(g, x, z, v) : g \in {"G0", "G1"}, x \in Place, z \in Place, v \in Nat}

Digits == -40 .. 40
Codes == {"none", "G0", "G1", "G2", "G81", "G4", "G53", "G28", "G38.2", "G43.1", "G92", "OP",
          "PU", "PD", "PA", "VS"}
Tags == Kinds \cup {"none"}
LineSet == [g : Codes, x : Digits \cup {Unknown}, z : Digits \cup {Unknown}, i : Digits,
            r : Digits, f : Nat, p : Nat, id : Tags]

MoveKinds == {"rapid", "cut", "plunge", "retract", "arc", "probe"}
MoveSet == [kind : MoveKinds, from : Int \X Int, to : Int \X Int, i : Int, feed : Nat, op : Tags]

Tool == [x : Int, z : Int, feed : Nat, pen : BOOLEAN]
View == [x : -80 .. 80, z : -80 .. 80, g : {"G0", "G1", "G2"}, op : Tags, feed : Nat]

Outcome(A) == [moves : Seq(MoveSet), at : A, dwell : Nat]

-----------------------------------------------------------------------------
(* Reading and writing, item by item *)

LEMMA DidType ==
    ASSUME NEW A, NEW ms \in Seq(MoveSet), NEW m \in A, NEW n \in Nat
    PROVE  Did(ms, m, n) \in Outcome(A)
    BY DEF Did, Outcome

LEMMA TaggedType ==
    ASSUME NEW op \in Tags, NEW kind \in MoveKinds, NEW from \in Int \X Int,
           NEW to \in Int \X Int, NEW i \in Int, NEW feed \in Nat
    PROVE  Tagged(op, kind, from, to, i, feed) \in Seq(MoveSet)
    <1> DEFINE one == [kind |-> kind, from |-> from, to |-> to, i |-> i, feed |-> feed,
                       op |-> op]
    <1>1. one \in MoveSet
        BY DEF MoveSet
    <1> HIDE DEF one
    <1>2. <<one>> \in Seq(MoveSet) /\ <<>> \in Seq(MoveSet)
        BY <1>1
    <1> QED
        BY <1>2 DEF Tagged, one

LEMMA AndThenType ==
    ASSUME NEW A, NEW d \in Outcome(A), NEW n \in Outcome(A)
    PROVE  AndThen(d, n) \in Outcome(A)
    <1>1. /\ d.moves \in Seq(MoveSet) /\ n.moves \in Seq(MoveSet)
          /\ n.at \in A /\ d.dwell \in Nat /\ n.dwell \in Nat
        BY DEF Outcome
    <1>2. d.moves \o n.moves \in Seq(MoveSet) /\ d.dwell + n.dwell \in Nat
        BY <1>1, ConcatProperties
    <1> QED
        BY <1>1, <1>2, DidType DEF AndThen

LEMMA AndThenIs ==
    ASSUME NEW d, NEW n
    PROVE  /\ AndThen(d, n).moves = d.moves \o n.moves
           /\ AndThen(d, n).at = n.at
           /\ AndThen(d, n).dwell = d.dwell + n.dwell
    BY DEF AndThen, Did

LEMMA AndThenAssociates ==
    ASSUME NEW A, NEW a \in Outcome(A), NEW b \in Outcome(A), NEW c \in Outcome(A)
    PROVE  AndThen(AndThen(a, b), c) = AndThen(a, AndThen(b, c))
    <1>1. /\ a.moves \in Seq(MoveSet) /\ b.moves \in Seq(MoveSet) /\ c.moves \in Seq(MoveSet)
          /\ a.dwell \in Nat /\ b.dwell \in Nat /\ c.dwell \in Nat
        BY DEF Outcome
    <1>2. (a.moves \o b.moves) \o c.moves = a.moves \o (b.moves \o c.moves)
        <2> DEFINE x == a.moves
                   y == b.moves
                   z == c.moves
        <2>1. x \in Seq(MoveSet) /\ y \in Seq(MoveSet) /\ z \in Seq(MoveSet)
            BY <1>1
        <2> HIDE DEF x, y, z
        <2>2. (x \o y) \o z = x \o (y \o z)
            BY <2>1, ConcatAssociative
        <2> QED
            BY <2>2 DEF x, y, z
    <1>3. (a.dwell + b.dwell) + c.dwell = a.dwell + (b.dwell + c.dwell)
        BY <1>1
    <1> QED
        BY <1>2, <1>3, AndThenIs DEF AndThen

LEMMA AndThenNothing ==
    ASSUME NEW A, NEW d \in Outcome(A)
    PROVE  /\ AndThen(d, Did(<<>>, d.at, 0)) = d
           /\ \A m : AndThen(Did(<<>>, m, 0), d) = d
    <1>1. d.moves \in Seq(MoveSet) /\ d.dwell \in Nat /\ d = Did(d.moves, d.at, d.dwell)
        BY DEF Outcome, Did
    <1>2. d.moves \o <<>> = d.moves /\ <<>> \o d.moves = d.moves
        BY <1>1, ConcatEmptySeq
    <1>3. d.dwell + 0 = d.dwell /\ 0 + d.dwell = d.dwell
        BY <1>1
    <1> QED
        BY <1>1, <1>2, <1>3 DEF AndThen, Did

(* Read is what its recursive definition says.                             *)
LEMMA ReadIs ==
    ASSUME NEW party, NEW s, NEW m, NEW items, Len(items) \in Nat
    PROVE  /\ Read(party, s, m, items)[0] = Did(<<>>, m, 0)
           /\ \A i \in 1 .. Len(items) :
                 Read(party, s, m, items)[i] =
                     AndThen(Read(party, s, m, items)[i - 1],
                             Made(party, s, Read(party, s, m, items)[i - 1].at, items[i]))
    <1> DEFINE Next1(d, i) == AndThen(d, Made(party, s, d.at, items[i]))
               Upto(k, g) == g = [i \in 0 .. k |-> IF i = 0 THEN Did(<<>>, m, 0)
                                                   ELSE Next1(g[i - 1], i)]
               S == {k \in Nat : \E g : Upto(k, g)}
    <1> HIDE DEF Next1
    <1>1. 0 \in S
        <2>1. Upto(0, [i \in 0 .. 0 |-> Did(<<>>, m, 0)])
            OBVIOUS
        <2> QED
            BY <2>1
    <1>2. ASSUME NEW n \in S PROVE n + 1 \in S
        <2>1. PICK g : Upto(n, g)
            OBVIOUS
        <2> DEFINE h == [i \in 0 .. (n + 1) |-> IF i = n + 1 THEN Next1(g[n], n + 1) ELSE g[i]]
        <2>2. ASSUME NEW i \in 0 .. (n + 1)
              PROVE  h[i] = IF i = 0 THEN Did(<<>>, m, 0) ELSE Next1(h[i - 1], i)
            <3>1. CASE i = n + 1
                BY <3>1
            <3>2. CASE i # n + 1
                <4>1. i \in 0 .. n /\ h[i] = g[i] /\ (i # 0 => i - 1 \in 0 .. n /\ h[i - 1] = g[i - 1])
                    BY <3>2
                <4> QED
                    BY <2>1, <4>1
            <3> QED
                BY <3>1, <3>2
        <2>3. Upto(n + 1, h)
            BY <2>2
        <2> HIDE DEF h
        <2>4. \E f : Upto(n + 1, f)
            BY <2>3
        <2> HIDE DEF Upto
        <2> QED
            BY <2>4
    <1>3. S = Nat
        BY <1>1, <1>2, Induction
    <1>4. \E g : Upto(Len(items), g)
        BY <1>3
    <1>5. Upto(Len(items), Read(party, s, m, items))
        BY <1>4 DEF Read, Next1
    <1> DEFINE whole == Read(party, s, m, items)
    <1>6. whole = [i \in 0 .. Len(items) |-> IF i = 0 THEN Did(<<>>, m, 0)
                                             ELSE Next1(whole[i - 1], i)]
        BY <1>5
    <1> HIDE DEF whole
    <1>7. whole[0] = Did(<<>>, m, 0)
        BY <1>6
    <1>8. ASSUME NEW i \in 1 .. Len(items) PROVE whole[i] = Next1(whole[i - 1], i)
        <2>1. i \in 0 .. Len(items) /\ i # 0
            OBVIOUS
        <2> QED
            BY <1>6, <2>1
    <1> QED
        BY <1>7, <1>8 DEF whole, Next1

\* Of items of I, from a place of A, the party makes moves and goes to a place of A.
Reads(party, s, A, I) == \A m \in A, item \in I : Made(party, s, m, item) \in Outcome(A)

LEMMA ReadNext ==
    ASSUME NEW party, NEW s, NEW m, NEW items, Len(items) \in Nat, NEW k \in Nat, k < Len(items)
    PROVE  Read(party, s, m, items)[k + 1] =
               AndThen(Read(party, s, m, items)[k],
                       Made(party, s, Read(party, s, m, items)[k].at, items[k + 1]))
    <1> DEFINE j == k + 1
               whole == Read(party, s, m, items)
    <1>1. j \in 1 .. Len(items) /\ j - 1 = k
        OBVIOUS
    <1> HIDE DEF whole
    <1>2. \A i \in 1 .. Len(items) :
              whole[i] = AndThen(whole[i - 1], Made(party, s, whole[i - 1].at, items[i]))
        BY ReadIs DEF whole
    <1> HIDE DEF j
    <1>3. whole[j] = AndThen(whole[j - 1], Made(party, s, whole[j - 1].at, items[j]))
        BY <1>1, <1>2, Zenon
    <1>4. whole[j] = AndThen(whole[k], Made(party, s, whole[k].at, items[j]))
        BY <1>1, <1>3, Zenon
    <1> QED
        BY <1>4, Zenon DEF j, whole

LEMMA ReadStart ==
    ASSUME NEW party, NEW s, NEW m, NEW items, Len(items) \in Nat
    PROVE  Read(party, s, m, items)[0] = Did(<<>>, m, 0)
    BY ReadIs

LEMMA ReadType ==
    ASSUME NEW party, NEW s, NEW A, NEW I, Reads(party, s, A, I), NEW m \in A,
           NEW items \in Seq(I)
    PROVE  \A k \in 0 .. Len(items) : Read(party, s, m, items)[k] \in Outcome(A)
    <1> DEFINE whole == Read(party, s, m, items)
               S == {k \in Nat : k <= Len(items) => whole[k] \in Outcome(A)}
    <1>0. Len(items) \in Nat
        BY LenProperties
    <1>1. 0 \in S
        <2>1. whole[0] = Did(<<>>, m, 0)
            BY <1>0, ReadStart
        <2>2. <<>> \in Seq(MoveSet) /\ 0 \in Nat
            OBVIOUS
        <2> QED
            BY <2>1, <2>2, DidType
    <1>2. ASSUME NEW k \in S PROVE k + 1 \in S
        <2> SUFFICES ASSUME k + 1 <= Len(items) PROVE whole[k + 1] \in Outcome(A)
            OBVIOUS
        <2>1. k \in Nat /\ k < Len(items) /\ k + 1 \in 1 .. Len(items)
            BY <1>0
        <2>2. whole[k + 1] = AndThen(whole[k], Made(party, s, whole[k].at, items[k + 1]))
            BY <1>0, <2>1, ReadNext
        <2>3. whole[k] \in Outcome(A)
            BY <2>1
        <2>4. items[k + 1] \in I
            BY <2>1, ElementOfSeq
        <2>5. whole[k].at \in A
            BY <2>3 DEF Outcome
        <2> HIDE DEF whole
        <2>6. Made(party, s, whole[k].at, items[k + 1]) \in Outcome(A)
            BY <2>4, <2>5 DEF Reads
        <2> QED
            BY <2>2, <2>3, <2>6, AndThenType
    <1>3. S = Nat
        BY <1>1, <1>2, Induction
    <1> HIDE DEF S
    <1>4. \A k \in 0 .. Len(items) : k \in S
        BY <1>0, <1>3
    <1> QED
        BY <1>4 DEF S

LEMMA ReadSame ==
    ASSUME NEW party, NEW s, NEW m, NEW items, NEW others, Len(items) \in Nat,
           Len(others) \in Nat, NEW n \in Nat, n <= Len(items), n <= Len(others),
           \A i \in 1 .. n : items[i] = others[i]
    PROVE  Read(party, s, m, items)[n] = Read(party, s, m, others)[n]
    <1> DEFINE a == Read(party, s, m, items)
               b == Read(party, s, m, others)
               S == {k \in Nat : k <= n => a[k] = b[k]}
    <1>1. 0 \in S
        BY ReadStart
    <1>2. ASSUME NEW k \in S PROVE k + 1 \in S
        <2> SUFFICES ASSUME k + 1 <= n PROVE a[k + 1] = b[k + 1]
            OBVIOUS
        <2>1. k \in Nat /\ k < Len(items) /\ k < Len(others) /\ k + 1 \in 1 .. n
            OBVIOUS
        <2>2. a[k + 1] = AndThen(a[k], Made(party, s, a[k].at, items[k + 1]))
            BY <2>1, ReadNext
        <2>3. b[k + 1] = AndThen(b[k], Made(party, s, b[k].at, others[k + 1]))
            BY <2>1, ReadNext
        <2>4. a[k] = b[k] /\ items[k + 1] = others[k + 1]
            BY <2>1
        <2> HIDE DEF a, b
        <2> QED
            BY <2>2, <2>3, <2>4, Zenon
    <1>3. S = Nat
        BY <1>1, <1>2, Induction
    <1> QED
        BY <1>3

(* Two stretches are read one after the other.                             *)
LEMMA ReadConcat ==
    ASSUME NEW party, NEW s, NEW A, NEW I, Reads(party, s, A, I), NEW m \in A,
           NEW left \in Seq(I), NEW right \in Seq(I)
    PROVE  Reading(party, s, m, left \o right) =
               AndThen(Reading(party, s, m, left),
                       Reading(party, s, Reading(party, s, m, left).at, right))
    <1> DEFINE all == left \o right
               n == Len(left)
               first == Read(party, s, m, left)[n]
               whole == Read(party, s, m, all)
               rest == Read(party, s, first.at, right)
               S == {k \in Nat : k <= Len(right) => whole[n + k] = AndThen(first, rest[k])}
    <1>1. n \in Nat /\ Len(right) \in Nat /\ all \in Seq(I) /\ Len(all) = n + Len(right)
        BY LenProperties, ConcatProperties
    <1>2. /\ \A i \in 1 .. n : all[i] = left[i]
          /\ \A i \in 1 .. Len(right) : all[n + i] = right[i]
        BY <1>1, ConcatProperties
    <1>3. first \in Outcome(A) /\ first.at \in A
        <2>1. n \in 0 .. n
            BY <1>1
        <2>2. first \in Outcome(A)
            BY <2>1, ReadType
        <2> QED
            BY <2>2 DEF Outcome
    <1>4. whole[n] = first
        <2>1. n <= Len(left) /\ n <= Len(all) /\ Len(all) \in Nat /\ Len(left) \in Nat
              /\ n \in Nat
            BY <1>1
        <2> HIDE DEF all, n
        <2>2. \A i \in 1 .. n : all[i] = left[i]
            BY <1>2
        <2>3. Read(party, s, m, all)[n] = Read(party, s, m, left)[n]
            BY <2>1, <2>2, ReadSame
        <2> QED
            BY <2>3
    <1> HIDE DEF all, n
    <1>5. \A k \in 0 .. Len(right) : rest[k] \in Outcome(A)
        BY <1>3, ReadType
    <1>6. 0 \in S
        <2>1. n + 0 = n
            BY <1>1
        <2>2. rest[0] = Did(<<>>, first.at, 0)
            BY <1>1, ReadStart
        <2> HIDE DEF whole, rest, first
        <2>3. AndThen(first, Did(<<>>, first.at, 0)) = first
            BY <1>3, AndThenNothing
        <2> QED
            BY <1>4, <2>1, <2>2, <2>3
    <1>7. ASSUME NEW k \in S PROVE k + 1 \in S
        <2> SUFFICES ASSUME k + 1 <= Len(right)
                     PROVE  whole[n + (k + 1)] = AndThen(first, rest[k + 1])
            OBVIOUS
        <2>1. k \in Nat /\ k < Len(right) /\ k + 1 \in 1 .. Len(right) /\ k \in 0 .. Len(right)
            BY <1>1
        <2>2. n + k \in Nat /\ n + k < Len(all) /\ (n + k) + 1 = n + (k + 1)
            BY <1>1, <2>1
        <2>3. whole[(n + k) + 1] =
                  AndThen(whole[n + k], Made(party, s, whole[n + k].at, all[(n + k) + 1]))
            <3> DEFINE j == n + k
            <3>1. j \in Nat /\ j < Len(all) /\ Len(all) \in Nat
                BY <1>1, <2>2
            <3> HIDE DEF j
            <3>2. Read(party, s, m, all)[j + 1] =
                      AndThen(Read(party, s, m, all)[j],
                              Made(party, s, Read(party, s, m, all)[j].at, all[j + 1]))
                BY <3>1, ReadNext
            <3> QED
                BY <3>2 DEF j
        <2>4. rest[k + 1] = AndThen(rest[k], Made(party, s, rest[k].at, right[k + 1]))
            BY <1>1, <2>1, ReadNext
        <2>5. all[(n + k) + 1] = right[k + 1]
            BY <1>2, <2>1, <2>2
        <2>6. whole[n + k] = AndThen(first, rest[k]) /\ rest[k] \in Outcome(A)
            BY <1>5, <2>1
        <2> HIDE DEF whole, rest, first
        <2>7. rest[k].at \in A /\ right[k + 1] \in I
            BY <2>1, <2>6, ElementOfSeq DEF Outcome
        <2> DEFINE step == Made(party, s, rest[k].at, right[k + 1])
        <2>8. step \in Outcome(A)
            BY <2>7 DEF Reads
        <2>9. whole[n + k].at = rest[k].at
            <3>1. AndThen(first, rest[k]).at = rest[k].at
                BY AndThenIs
            <3> QED
                BY <2>6, <3>1
        <2> HIDE DEF step
        <2>10. whole[n + (k + 1)] = AndThen(AndThen(first, rest[k]), step)
            BY <2>2, <2>3, <2>5, <2>6, <2>9 DEF step
        <2>11. rest[k + 1] = AndThen(rest[k], step)
            BY <2>4 DEF step
        <2> QED
            BY <1>3, <2>6, <2>8, <2>10, <2>11, AndThenAssociates
    <1>8. S = Nat
        BY <1>6, <1>7, Induction
    <1>9. whole[n + Len(right)] = AndThen(first, rest[Len(right)])
        BY <1>1, <1>8
    <1> QED
        BY <1>1, <1>9 DEF Reading, all, n

LEMMA ReadNone ==
    ASSUME NEW party, NEW s, NEW m
    PROVE  Reading(party, s, m, <<>>) = Did(<<>>, m, 0)
    <1>1. Len(<<>>) = 0
        OBVIOUS
    <1> QED
        BY <1>1, ReadStart DEF Reading

LEMMA ReadOne ==
    ASSUME NEW party, NEW s, NEW A, NEW m, NEW item, Made(party, s, m, item) \in Outcome(A)
    PROVE  Reading(party, s, m, <<item>>) = Made(party, s, m, item)
    <1> DEFINE items == <<item>>
               whole == Read(party, s, m, items)
               start == Did(<<>>, m, 0)
    <1>1. Len(items) = 1 /\ items[1] = item
        OBVIOUS
    <1> HIDE DEF items
    <1>2. whole[0] = start
        BY <1>1, ReadStart
    <1>3. whole[0 + 1] = AndThen(whole[0], Made(party, s, whole[0].at, items[0 + 1]))
        <2>1. 0 \in Nat /\ 0 < Len(items) /\ Len(items) \in Nat
            BY <1>1
        <2> QED
            BY <2>1, ReadNext
    <1>4. start.at = m
        BY DEF Did
    <1> HIDE DEF whole
    <1>5. whole[1] = AndThen(start, Made(party, s, m, item))
        BY <1>1, <1>2, <1>3, <1>4
    <1>6. AndThen(start, Made(party, s, m, item)) = Made(party, s, m, item)
        BY AndThenNothing
    <1> HIDE DEF start
    <1>7. Reading(party, s, m, items) = whole[1]
        BY <1>1 DEF Reading, whole
    <1> QED
        BY <1>5, <1>6, <1>7 DEF items

LEMMA ReadingType ==
    ASSUME NEW party, NEW s, NEW A, NEW I, Reads(party, s, A, I), NEW m \in A,
           NEW items \in Seq(I)
    PROVE  Reading(party, s, m, items) \in Outcome(A)
    <1>1. Len(items) \in 0 .. Len(items)
        BY LenProperties
    <1> QED
        BY <1>1, ReadType DEF Reading

\* One post's writing after another's.
Onward(w, n) == Wrote(w.lines \o n.lines, n.post)
Page(P) == [lines : Seq(LineSet), post : P]
Writes(s, P, C) == \A p \in P, c \in C : WriteCall(s, p, c) \in Page(P)

LEMMA OnwardType ==
    ASSUME NEW P, NEW w \in Page(P), NEW n \in Page(P)
    PROVE  Onward(w, n) \in Page(P)
    <1>1. w.lines \in Seq(LineSet) /\ n.lines \in Seq(LineSet) /\ n.post \in P
        BY DEF Page
    <1>2. w.lines \o n.lines \in Seq(LineSet)
        BY <1>1, ConcatProperties
    <1> QED
        BY <1>1, <1>2 DEF Onward, Wrote, Page

LEMMA OnwardIs ==
    ASSUME NEW w, NEW n
    PROVE  /\ Onward(w, n).lines = w.lines \o n.lines
           /\ Onward(w, n).post = n.post
    BY DEF Onward, Wrote

LEMMA OnwardAssociates ==
    ASSUME NEW P, NEW a \in Page(P), NEW b \in Page(P), NEW c \in Page(P)
    PROVE  Onward(Onward(a, b), c) = Onward(a, Onward(b, c))
    <1>1. a.lines \in Seq(LineSet) /\ b.lines \in Seq(LineSet) /\ c.lines \in Seq(LineSet)
        BY DEF Page
    <1>2. (a.lines \o b.lines) \o c.lines = a.lines \o (b.lines \o c.lines)
        <2> DEFINE x == a.lines
                   y == b.lines
                   z == c.lines
        <2>1. x \in Seq(LineSet) /\ y \in Seq(LineSet) /\ z \in Seq(LineSet)
            BY <1>1
        <2> HIDE DEF x, y, z
        <2>2. (x \o y) \o z = x \o (y \o z)
            BY <2>1, ConcatAssociative
        <2> QED
            BY <2>2 DEF x, y, z
    <1> QED
        BY <1>2, OnwardIs DEF Onward

LEMMA OnwardNothing ==
    ASSUME NEW P, NEW w \in Page(P)
    PROVE  /\ Onward(w, Wrote(<<>>, w.post)) = w
           /\ \A p : Onward(Wrote(<<>>, p), w) = w
    <1>1. w.lines \in Seq(LineSet) /\ w = Wrote(w.lines, w.post)
        BY DEF Page, Wrote
    <1>2. w.lines \o <<>> = w.lines /\ <<>> \o w.lines = w.lines
        BY <1>1, ConcatEmptySeq
    <1> QED
        BY <1>1, <1>2 DEF Onward, Wrote

(* Written is what its recursive definition says.                          *)
LEMMA WrittenIs ==
    ASSUME NEW s, NEW p, NEW cs, Len(cs) \in Nat
    PROVE  /\ Written(s, p, cs)[0] = Wrote(<<>>, p)
           /\ \A i \in 1 .. Len(cs) :
                 Written(s, p, cs)[i] =
                     Onward(Written(s, p, cs)[i - 1],
                            WriteCall(s, Written(s, p, cs)[i - 1].post, cs[i]))
    <1> DEFINE Next1(w, i) == Onward(w, WriteCall(s, w.post, cs[i]))
               Upto(k, g) == g = [i \in 0 .. k |-> IF i = 0 THEN Wrote(<<>>, p)
                                                   ELSE Next1(g[i - 1], i)]
               S == {k \in Nat : \E g : Upto(k, g)}
    <1> HIDE DEF Next1
    <1>1. 0 \in S
        <2>1. Upto(0, [i \in 0 .. 0 |-> Wrote(<<>>, p)])
            OBVIOUS
        <2> QED
            BY <2>1
    <1>2. ASSUME NEW n \in S PROVE n + 1 \in S
        <2>1. PICK g : Upto(n, g)
            OBVIOUS
        <2> DEFINE h == [i \in 0 .. (n + 1) |-> IF i = n + 1 THEN Next1(g[n], n + 1) ELSE g[i]]
        <2>2. ASSUME NEW i \in 0 .. (n + 1)
              PROVE  h[i] = IF i = 0 THEN Wrote(<<>>, p) ELSE Next1(h[i - 1], i)
            <3>1. CASE i = n + 1
                BY <3>1
            <3>2. CASE i # n + 1
                <4>1. i \in 0 .. n /\ h[i] = g[i] /\ (i # 0 => i - 1 \in 0 .. n /\ h[i - 1] = g[i - 1])
                    BY <3>2
                <4> QED
                    BY <2>1, <4>1
            <3> QED
                BY <3>1, <3>2
        <2>3. Upto(n + 1, h)
            BY <2>2
        <2> HIDE DEF h
        <2>4. \E f : Upto(n + 1, f)
            BY <2>3
        <2> HIDE DEF Upto
        <2> QED
            BY <2>4
    <1>3. S = Nat
        BY <1>1, <1>2, Induction
    <1>4. \E g : Upto(Len(cs), g)
        BY <1>3
    <1>5. Upto(Len(cs), Written(s, p, cs))
        BY <1>4 DEF Written, Next1, Onward
    <1> DEFINE whole == Written(s, p, cs)
    <1>6. whole = [i \in 0 .. Len(cs) |-> IF i = 0 THEN Wrote(<<>>, p)
                                          ELSE Next1(whole[i - 1], i)]
        BY <1>5
    <1> HIDE DEF whole
    <1>7. whole[0] = Wrote(<<>>, p)
        BY <1>6
    <1>8. ASSUME NEW i \in 1 .. Len(cs) PROVE whole[i] = Next1(whole[i - 1], i)
        <2>1. i \in 0 .. Len(cs) /\ i # 0
            OBVIOUS
        <2> QED
            BY <1>6, <2>1
    <1> QED
        BY <1>7, <1>8 DEF whole, Next1

LEMMA WrittenStart ==
    ASSUME NEW s, NEW p, NEW cs, Len(cs) \in Nat
    PROVE  Written(s, p, cs)[0] = Wrote(<<>>, p)
    BY WrittenIs

LEMMA WrittenNext ==
    ASSUME NEW s, NEW p, NEW cs, Len(cs) \in Nat, NEW k \in Nat, k < Len(cs)
    PROVE  Written(s, p, cs)[k + 1] =
               Onward(Written(s, p, cs)[k],
                      WriteCall(s, Written(s, p, cs)[k].post, cs[k + 1]))
    <1> DEFINE j == k + 1
               whole == Written(s, p, cs)
    <1>1. j \in 1 .. Len(cs) /\ j - 1 = k
        OBVIOUS
    <1> HIDE DEF whole
    <1>2. \A i \in 1 .. Len(cs) :
              whole[i] = Onward(whole[i - 1], WriteCall(s, whole[i - 1].post, cs[i]))
        BY WrittenIs DEF whole
    <1> HIDE DEF j
    <1>3. whole[j] = Onward(whole[j - 1], WriteCall(s, whole[j - 1].post, cs[j]))
        BY <1>1, <1>2, Zenon
    <1>4. whole[j] = Onward(whole[k], WriteCall(s, whole[k].post, cs[j]))
        BY <1>1, <1>3, Zenon
    <1> QED
        BY <1>4, Zenon DEF j, whole

LEMMA WrittenType ==
    ASSUME NEW s, NEW P, NEW C, Writes(s, P, C), NEW p \in P, NEW cs \in Seq(C)
    PROVE  \A k \in 0 .. Len(cs) : Written(s, p, cs)[k] \in Page(P)
    <1> DEFINE whole == Written(s, p, cs)
               S == {k \in Nat : k <= Len(cs) => whole[k] \in Page(P)}
    <1>0. Len(cs) \in Nat
        BY LenProperties
    <1>1. 0 \in S
        <2>1. whole[0] = Wrote(<<>>, p)
            BY <1>0, WrittenStart
        <2>2. <<>> \in Seq(LineSet)
            OBVIOUS
        <2>3. Wrote(<<>>, p) \in Page(P)
            BY <2>2 DEF Wrote, Page
        <2> HIDE DEF whole
        <2> QED
            BY <2>1, <2>3
    <1>2. ASSUME NEW k \in S PROVE k + 1 \in S
        <2> SUFFICES ASSUME k + 1 <= Len(cs) PROVE whole[k + 1] \in Page(P)
            OBVIOUS
        <2>1. k \in Nat /\ k < Len(cs) /\ k + 1 \in 1 .. Len(cs)
            BY <1>0
        <2>2. whole[k + 1] = Onward(whole[k], WriteCall(s, whole[k].post, cs[k + 1]))
            BY <1>0, <2>1, WrittenNext
        <2>3. whole[k] \in Page(P)
            BY <2>1
        <2>4. cs[k + 1] \in C
            BY <2>1, ElementOfSeq
        <2>5. whole[k].post \in P
            BY <2>3 DEF Page
        <2> HIDE DEF whole
        <2>6. WriteCall(s, whole[k].post, cs[k + 1]) \in Page(P)
            BY <2>4, <2>5 DEF Writes
        <2> QED
            BY <2>2, <2>3, <2>6, OnwardType
    <1>3. S = Nat
        BY <1>1, <1>2, Induction
    <1> HIDE DEF S
    <1>4. \A k \in 0 .. Len(cs) : k \in S
        BY <1>0, <1>3
    <1> QED
        BY <1>4 DEF S

LEMMA WrittenSame ==
    ASSUME NEW s, NEW p, NEW cs, NEW ds, Len(cs) \in Nat, Len(ds) \in Nat, NEW n \in Nat,
           n <= Len(cs), n <= Len(ds), \A i \in 1 .. n : cs[i] = ds[i]
    PROVE  Written(s, p, cs)[n] = Written(s, p, ds)[n]
    <1> DEFINE a == Written(s, p, cs)
               b == Written(s, p, ds)
               S == {k \in Nat : k <= n => a[k] = b[k]}
    <1>1. 0 \in S
        BY WrittenStart
    <1>2. ASSUME NEW k \in S PROVE k + 1 \in S
        <2> SUFFICES ASSUME k + 1 <= n PROVE a[k + 1] = b[k + 1]
            OBVIOUS
        <2>1. k \in Nat /\ k < Len(cs) /\ k < Len(ds) /\ k + 1 \in 1 .. n
            OBVIOUS
        <2>2. a[k + 1] = Onward(a[k], WriteCall(s, a[k].post, cs[k + 1]))
            BY <2>1, WrittenNext
        <2>3. b[k + 1] = Onward(b[k], WriteCall(s, b[k].post, ds[k + 1]))
            BY <2>1, WrittenNext
        <2>4. a[k] = b[k] /\ cs[k + 1] = ds[k + 1]
            BY <2>1
        <2> HIDE DEF a, b
        <2> QED
            BY <2>2, <2>3, <2>4, Zenon
    <1>3. S = Nat
        BY <1>1, <1>2, Induction
    <1> QED
        BY <1>3

\* All the calls of cs, already expanded.
Sheet(s, p, cs) == Written(s, p, cs)[Len(cs)]

LEMMA SheetType ==
    ASSUME NEW s, NEW P, NEW C, Writes(s, P, C), NEW p \in P, NEW cs \in Seq(C)
    PROVE  Sheet(s, p, cs) \in Page(P)
    <1>1. Len(cs) \in 0 .. Len(cs)
        BY LenProperties
    <1> QED
        BY <1>1, WrittenType DEF Sheet

(* Two stretches are written one after the other.                          *)
LEMMA SheetConcat ==
    ASSUME NEW s, NEW P, NEW C, Writes(s, P, C), NEW p \in P, NEW left \in Seq(C),
           NEW right \in Seq(C)
    PROVE  Sheet(s, p, left \o right) =
               Onward(Sheet(s, p, left), Sheet(s, Sheet(s, p, left).post, right))
    <1> DEFINE all == left \o right
               n == Len(left)
               first == Written(s, p, left)[n]
               whole == Written(s, p, all)
               rest == Written(s, first.post, right)
               S == {k \in Nat : k <= Len(right) => whole[n + k] = Onward(first, rest[k])}
    <1>1. n \in Nat /\ Len(right) \in Nat /\ all \in Seq(C) /\ Len(all) = n + Len(right)
        BY LenProperties, ConcatProperties
    <1>2. /\ \A i \in 1 .. n : all[i] = left[i]
          /\ \A i \in 1 .. Len(right) : all[n + i] = right[i]
        BY <1>1, ConcatProperties
    <1>3. first \in Page(P) /\ first.post \in P
        <2>1. n \in 0 .. n
            BY <1>1
        <2>2. first \in Page(P)
            BY <2>1, WrittenType
        <2> QED
            BY <2>2 DEF Page
    <1>4. whole[n] = first
        <2>1. n <= Len(left) /\ n <= Len(all) /\ Len(all) \in Nat /\ Len(left) \in Nat
              /\ n \in Nat
            BY <1>1
        <2> HIDE DEF all, n
        <2>2. \A i \in 1 .. n : all[i] = left[i]
            BY <1>2
        <2>3. Written(s, p, all)[n] = Written(s, p, left)[n]
            BY <2>1, <2>2, WrittenSame
        <2> QED
            BY <2>3
    <1> HIDE DEF all, n
    <1>5. \A k \in 0 .. Len(right) : rest[k] \in Page(P)
        BY <1>3, WrittenType
    <1>6. 0 \in S
        <2>1. n + 0 = n
            BY <1>1
        <2>2. rest[0] = Wrote(<<>>, first.post)
            BY <1>1, WrittenStart
        <2> HIDE DEF whole, rest, first
        <2>3. Onward(first, Wrote(<<>>, first.post)) = first
            BY <1>3, OnwardNothing
        <2> QED
            BY <1>4, <2>1, <2>2, <2>3
    <1>7. ASSUME NEW k \in S PROVE k + 1 \in S
        <2> SUFFICES ASSUME k + 1 <= Len(right)
                     PROVE  whole[n + (k + 1)] = Onward(first, rest[k + 1])
            OBVIOUS
        <2>1. k \in Nat /\ k < Len(right) /\ k + 1 \in 1 .. Len(right) /\ k \in 0 .. Len(right)
            BY <1>1
        <2>2. n + k \in Nat /\ n + k < Len(all) /\ (n + k) + 1 = n + (k + 1)
            BY <1>1, <2>1
        <2>3. whole[(n + k) + 1] =
                  Onward(whole[n + k], WriteCall(s, whole[n + k].post, all[(n + k) + 1]))
            <3> DEFINE j == n + k
            <3>1. j \in Nat /\ j < Len(all) /\ Len(all) \in Nat
                BY <1>1, <2>2
            <3> HIDE DEF j
            <3>2. Written(s, p, all)[j + 1] =
                      Onward(Written(s, p, all)[j],
                             WriteCall(s, Written(s, p, all)[j].post, all[j + 1]))
                BY <3>1, WrittenNext
            <3> QED
                BY <3>2 DEF j
        <2>4. rest[k + 1] = Onward(rest[k], WriteCall(s, rest[k].post, right[k + 1]))
            BY <1>1, <2>1, WrittenNext
        <2>5. all[(n + k) + 1] = right[k + 1]
            BY <1>2, <2>1, <2>2
        <2>6. whole[n + k] = Onward(first, rest[k]) /\ rest[k] \in Page(P)
            BY <1>5, <2>1
        <2> HIDE DEF whole, rest, first
        <2>7. rest[k].post \in P /\ right[k + 1] \in C
            BY <2>1, <2>6, ElementOfSeq DEF Page
        <2> DEFINE step == WriteCall(s, rest[k].post, right[k + 1])
        <2>8. step \in Page(P)
            BY <2>7 DEF Writes
        <2>9. whole[n + k].post = rest[k].post
            <3>1. Onward(first, rest[k]).post = rest[k].post
                BY OnwardIs
            <3> QED
                BY <2>6, <3>1
        <2> HIDE DEF step
        <2>10. whole[n + (k + 1)] = Onward(Onward(first, rest[k]), step)
            BY <2>2, <2>3, <2>5, <2>6, <2>9 DEF step
        <2>11. rest[k + 1] = Onward(rest[k], step)
            BY <2>4 DEF step
        <2> QED
            BY <1>3, <2>6, <2>8, <2>10, <2>11, OnwardAssociates
    <1>8. S = Nat
        BY <1>6, <1>7, Induction
    <1>9. whole[n + Len(right)] = Onward(first, rest[Len(right)])
        BY <1>1, <1>8
    <1> QED
        BY <1>1, <1>9 DEF Sheet, all, n

LEMMA SheetOne ==
    ASSUME NEW s, NEW P, NEW p, NEW c, WriteCall(s, p, c) \in Page(P)
    PROVE  Sheet(s, p, <<c>>) = WriteCall(s, p, c)
    <1> DEFINE cs == <<c>>
               whole == Written(s, p, cs)
               start == Wrote(<<>>, p)
    <1>1. Len(cs) = 1 /\ cs[1] = c
        OBVIOUS
    <1> HIDE DEF cs
    <1>2. whole[0] = start
        BY <1>1, WrittenStart
    <1>3. whole[0 + 1] = Onward(whole[0], WriteCall(s, whole[0].post, cs[0 + 1]))
        <2>1. 0 \in Nat /\ 0 < Len(cs) /\ Len(cs) \in Nat
            BY <1>1
        <2> QED
            BY <2>1, WrittenNext
    <1>4. start.post = p
        BY DEF Wrote
    <1> HIDE DEF whole
    <1>5. whole[1] = Onward(start, WriteCall(s, p, c))
        BY <1>1, <1>2, <1>3, <1>4
    <1>6. Onward(start, WriteCall(s, p, c)) = WriteCall(s, p, c)
        BY OnwardNothing
    <1> HIDE DEF start
    <1>7. Sheet(s, p, cs) = whole[1]
        BY <1>1 DEF Sheet, whole
    <1> QED
        BY <1>5, <1>6, <1>7 DEF cs

LEMMA SheetNone ==
    ASSUME NEW s, NEW p
    PROVE  Sheet(s, p, <<>>) = Wrote(<<>>, p)
    <1>1. Len(<<>>) = 0
        OBVIOUS
    <1> QED
        BY <1>1, WrittenStart DEF Sheet

LEMMA WriteIsSheet ==
    ASSUME NEW s, NEW p, NEW cs
    PROVE  Write(s, p, cs) = Sheet(s, p, Calls(s, cs))
    BY DEF Write, Sheet
-----------------------------------------------------------------------------
(* What a call writes and what a line does *)

LEMMA EmittedNear ==
    ASSUME NEW s \in Setup, NEW v \in -36 .. 36
    PROVE  Emitted(s, v) \in Digits /\ Emitted(s, v) # Unknown
    <1>1. v \in Int /\ v # 99 /\ v \div 2 \in -40 .. 40
        OBVIOUS
    <1> QED
        BY <1>1 DEF Emitted, Digits, Unknown, MmPerInch

LEMMA WordDigits ==
    ASSUME NEW s \in Setup, NEW old \in Int, NEW new \in -36 .. 36 \cup {Unknown}
    PROVE  Word(s, old, new) \in Digits \cup {Unknown}
    <1>1. Emitted(s, Unknown) = Unknown
        BY DEF Emitted
    <1> QED
        BY <1>1, EmittedNear DEF Word

LEMMA NearIs ==
    /\ Near \subseteq -20 .. 20
    /\ Unknown \notin Near /\ Unknown \in Int
    /\ 0 \in Near /\ 2 \in Near /\ 4 \in Near /\ 6 \in Near /\ 8 \in Near /\ Fast \in Near
    /\ -2 \in Near /\ -4 \in Near /\ Bottom \in Near /\ Retract \in Near
    <1>1. \A k \in -10 .. 10 : 2 * k \in -20 .. 20
        OBVIOUS
    <1>2. Near \subseteq -20 .. 20
        BY <1>1 DEF Near
    <1>3. /\ 0 = 2 * 0 /\ 2 = 2 * 1 /\ 4 = 2 * 2 /\ 6 = 2 * 3 /\ 8 = 2 * 4 /\ 12 = 2 * 6
          /\ -2 = 2 * (-1) /\ -4 = 2 * (-2) /\ -6 = 2 * (-3)
        OBVIOUS
    <1>4. 0 \in Near /\ 2 \in Near /\ 4 \in Near /\ 6 \in Near /\ 8 \in Near /\ 12 \in Near
        BY <1>3 DEF Near
    <1>5. -2 \in Near /\ -4 \in Near /\ -6 \in Near
        BY <1>3 DEF Near
    <1> QED
        BY <1>2, <1>4, <1>5 DEF Unknown, Fast, Bottom, Retract

\* The records of a post, of a tool and of a view, field by field.
PostOf(x, z, rate, pen) == [x |-> x, z |-> z, rate |-> rate, pen |-> pen]
ToolOf(x, z, feed, pen) == [x |-> x, z |-> z, feed |-> feed, pen |-> pen]
ViewOf(x, z, g, op, feed) == [x |-> x, z |-> z, g |-> g, op |-> op, feed |-> feed]

LEMMA PostAt ==
    ASSUME NEW x, NEW z, NEW rate, NEW pen, NEW a, NEW b
    PROVE  At(PostOf(x, z, rate, pen), a, b) = PostOf(a, b, rate, pen)
    <1> DEFINE r == PostOf(x, z, rate, pen)
               q == PostOf(a, z, rate, pen)
               t == PostOf(a, b, rate, pen)
    <1>1. [r EXCEPT !.x = a] = q
        BY DEF PostOf
    <1>2. [q EXCEPT !.z = b] = t
        BY DEF PostOf
    <1> HIDE DEF r, q, t
    <1>3. [r EXCEPT !.x = a, !.z = b] = t
        BY <1>1, <1>2
    <1> QED
        BY <1>3 DEF At, r, t

LEMMA ToolAt ==
    ASSUME NEW x, NEW z, NEW feed, NEW pen, NEW a, NEW b
    PROVE  At(ToolOf(x, z, feed, pen), a, b) = ToolOf(a, b, feed, pen)
    <1> DEFINE r == ToolOf(x, z, feed, pen)
               q == ToolOf(a, z, feed, pen)
               t == ToolOf(a, b, feed, pen)
    <1>1. [r EXCEPT !.x = a] = q
        BY DEF ToolOf
    <1>2. [q EXCEPT !.z = b] = t
        BY DEF ToolOf
    <1> HIDE DEF r, q, t
    <1>3. [r EXCEPT !.x = a, !.z = b] = t
        BY <1>1, <1>2
    <1> QED
        BY <1>3 DEF At, r, t

LEMMA ViewAt ==
    ASSUME NEW x, NEW z, NEW g, NEW op, NEW feed, NEW a, NEW b
    PROVE  At(ViewOf(x, z, g, op, feed), a, b) = ViewOf(a, b, g, op, feed)
    <1> DEFINE r == ViewOf(x, z, g, op, feed)
               q == ViewOf(a, z, g, op, feed)
               t == ViewOf(a, b, g, op, feed)
    <1>1. [r EXCEPT !.x = a] = q
        BY DEF ViewOf
    <1>2. [q EXCEPT !.z = b] = t
        BY DEF ViewOf
    <1> HIDE DEF r, q, t
    <1>3. [r EXCEPT !.x = a, !.z = b] = t
        BY <1>1, <1>2
    <1> QED
        BY <1>3 DEF At, r, t

LEMMA PostField ==
    ASSUME NEW x, NEW z, NEW rate, NEW pen, NEW a
    PROVE  /\ [PostOf(x, z, rate, pen) EXCEPT !.x = a] = PostOf(a, z, rate, pen)
           /\ [PostOf(x, z, rate, pen) EXCEPT !.z = a] = PostOf(x, a, rate, pen)
           /\ [PostOf(x, z, rate, pen) EXCEPT !.rate = a] = PostOf(x, z, a, pen)
           /\ [PostOf(x, z, rate, pen) EXCEPT !.pen = a] = PostOf(x, z, rate, a)
    BY DEF PostOf

LEMMA ToolFed ==
    ASSUME NEW x, NEW z, NEW feed, NEW pen, NEW a
    PROVE  /\ Fed(ToolOf(x, z, feed, pen), a) = ToolOf(x, z, a, pen)
           /\ [ToolOf(x, z, feed, pen) EXCEPT !.x = a] = ToolOf(a, z, feed, pen)
           /\ [ToolOf(x, z, feed, pen) EXCEPT !.pen = a] = ToolOf(x, z, feed, a)
    BY DEF ToolOf, Fed

LEMMA PostIs ==
    ASSUME NEW p \in PostSet
    PROVE  p = PostOf(p.x, p.z, p.rate, p.pen)
    BY DEF PostSet, PostOf

LEMMA ToolIs ==
    ASSUME NEW m \in Tool
    PROVE  m = ToolOf(m.x, m.z, m.feed, m.pen)
    BY DEF Tool, ToolOf

LEMMA TrackIs ==
    ASSUME NEW x0, NEW z0, NEW rate, NEW pen, NEW x, NEW z
    PROVE  Track(PostOf(x0, z0, rate, pen), x, z) =
               PostOf(IF x = Unknown THEN x0 ELSE x, IF z = Unknown THEN z0 ELSE z, rate, pen)
    <1>1. PostOf(x0, z0, rate, pen).x = x0 /\ PostOf(x0, z0, rate, pen).z = z0
        BY DEF PostOf
    <1> QED
        BY <1>1, PostAt DEF Track
LineOf(g, x, z, i, r, f, p, id) ==
    [g |-> g, x |-> x, z |-> z, i |-> i, r |-> r, f |-> f, p |-> p, id |-> id]

LEMMA LineIs ==
    ASSUME NEW g, NEW x, NEW z
    PROVE  Line(g, x, z) = LineOf(g, x, z, 0, 0, 0, 0, "none")
    <1> DEFINE a == [Blank EXCEPT !.g = g]
               b == [a EXCEPT !.x = x]
               c == [b EXCEPT !.z = z]
    <1>1. a = LineOf(g, Unknown, Unknown, 0, 0, 0, 0, "none")
        BY DEF Blank, LineOf
    <1> HIDE DEF a
    <1>2. b = LineOf(g, x, Unknown, 0, 0, 0, 0, "none")
        BY <1>1 DEF LineOf
    <1> HIDE DEF b
    <1>3. c = LineOf(g, x, z, 0, 0, 0, 0, "none")
        BY <1>2 DEF LineOf
    <1>4. Line(g, x, z) = c
        BY DEF Line, a, b
    <1> QED
        BY <1>3, <1>4

LEMMA FeedLine ==
    ASSUME NEW f
    PROVE  [Blank EXCEPT !.f = f] = LineOf("none", Unknown, Unknown, 0, 0, f, 0, "none")
    BY DEF Blank, LineOf

LEMMA CycleLine ==
    ASSUME NEW g, NEW x, NEW z, NEW r, NEW p
    PROVE  [Line(g, x, z) EXCEPT !.r = r, !.p = p] = LineOf(g, x, z, 0, r, 0, p, "none")
    <1> DEFINE l == Line(g, x, z)
               a == [l EXCEPT !.r = r]
               b == [a EXCEPT !.p = p]
    <1>1. l = LineOf(g, x, z, 0, 0, 0, 0, "none")
        BY LineIs
    <1> HIDE DEF l
    <1>2. a = LineOf(g, x, z, 0, r, 0, 0, "none")
        BY <1>1 DEF LineOf
    <1> HIDE DEF a
    <1>3. b = LineOf(g, x, z, 0, r, 0, p, "none")
        BY <1>2 DEF LineOf
    <1>4. [l EXCEPT !.r = r, !.p = p] = b
        BY DEF a
    <1> QED
        BY <1>3, <1>4 DEF l

LEMMA LineType ==
    ASSUME NEW g \in Codes, NEW x \in Digits \cup {Unknown}, NEW z \in Digits \cup {Unknown},
           NEW i \in Digits, NEW r \in Digits, NEW f \in Nat, NEW p \in Nat, NEW id \in Tags
    PROVE  /\ LineOf(g, x, z, i, r, f, p, id) \in LineSet
           /\ <<LineOf(g, x, z, i, r, f, p, id)>> \in Seq(LineSet)
    <1>1. LineOf(g, x, z, i, r, f, p, id) \in LineSet
        BY DEF LineOf, LineSet
    <1> DEFINE l == LineOf(g, x, z, i, r, f, p, id)
    <1> HIDE DEF l
    <1>2. l \in LineSet => <<l>> \in Seq(LineSet)
        OBVIOUS
    <1> QED
        BY <1>1, <1>2 DEF l

-----------------------------------------------------------------------------
(* The calls, and what is in them *)

CallOf(c, x, z, i, r, q, v, p, id) ==
    [c |-> c, x |-> x, z |-> z, i |-> i, r |-> r, q |-> q, v |-> v, p |-> p, id |-> id]

LEMMA MoveToIs ==
    ASSUME NEW x, NEW z
    PROVE  MoveTo(x, z) = CallOf("rapid", x, z, 0, 0, 0, 0, 0, "none")
    <1> DEFINE s1 == [Nop EXCEPT !.c = "rapid"]
               s2 == [s1 EXCEPT !.x = x]
               s3 == [s2 EXCEPT !.z = z]
    <1>1. s1 = CallOf("rapid", Unknown, Unknown, 0, 0, 0, 0, 0, "none")
        BY DEF Nop, CallOf
    <1> HIDE DEF s1
    <1>2. s2 = CallOf("rapid", x, Unknown, 0, 0, 0, 0, 0, "none")
        BY <1>1 DEF CallOf
    <1> HIDE DEF s2
    <1>3. s3 = CallOf("rapid", x, z, 0, 0, 0, 0, 0, "none")
        BY <1>2 DEF CallOf
    <1> HIDE DEF s3
    <1> QED
        BY <1>3 DEF MoveTo, s1, s2, s3

LEMMA LinearIs ==
    ASSUME NEW x, NEW z
    PROVE  Linear(x, z) = CallOf("linear", x, z, 0, 0, 0, 0, 0, "none")
    <1> DEFINE s1 == [Nop EXCEPT !.c = "linear"]
               s2 == [s1 EXCEPT !.x = x]
               s3 == [s2 EXCEPT !.z = z]
    <1>1. s1 = CallOf("linear", Unknown, Unknown, 0, 0, 0, 0, 0, "none")
        BY DEF Nop, CallOf
    <1> HIDE DEF s1
    <1>2. s2 = CallOf("linear", x, Unknown, 0, 0, 0, 0, 0, "none")
        BY <1>1 DEF CallOf
    <1> HIDE DEF s2
    <1>3. s3 = CallOf("linear", x, z, 0, 0, 0, 0, 0, "none")
        BY <1>2 DEF CallOf
    <1> HIDE DEF s3
    <1> QED
        BY <1>3 DEF Linear, s1, s2, s3

LEMMA ArcIs ==
    ASSUME NEW x, NEW z, NEW i
    PROVE  Arc(x, z, i) = CallOf("arc", x, z, i, 0, 0, 0, 0, "none")
    <1> DEFINE s1 == [Nop EXCEPT !.c = "arc"]
               s2 == [s1 EXCEPT !.x = x]
               s3 == [s2 EXCEPT !.z = z]
               s4 == [s3 EXCEPT !.i = i]
    <1>1. s1 = CallOf("arc", Unknown, Unknown, 0, 0, 0, 0, 0, "none")
        BY DEF Nop, CallOf
    <1> HIDE DEF s1
    <1>2. s2 = CallOf("arc", x, Unknown, 0, 0, 0, 0, 0, "none")
        BY <1>1 DEF CallOf
    <1> HIDE DEF s2
    <1>3. s3 = CallOf("arc", x, z, 0, 0, 0, 0, 0, "none")
        BY <1>2 DEF CallOf
    <1> HIDE DEF s3
    <1>4. s4 = CallOf("arc", x, z, i, 0, 0, 0, 0, "none")
        BY <1>3 DEF CallOf
    <1> HIDE DEF s4
    <1> QED
        BY <1>4 DEF Arc, s1, s2, s3, s4

LEMMA FeedrateIs ==
    ASSUME NEW v
    PROVE  Feedrate(v) = CallOf("feed", Unknown, Unknown, 0, 0, 0, v, 0, "none")
    <1> DEFINE s1 == [Nop EXCEPT !.c = "feed"]
               s2 == [s1 EXCEPT !.v = v]
    <1>1. s1 = CallOf("feed", Unknown, Unknown, 0, 0, 0, 0, 0, "none")
        BY DEF Nop, CallOf
    <1> HIDE DEF s1
    <1>2. s2 = CallOf("feed", Unknown, Unknown, 0, 0, 0, v, 0, "none")
        BY <1>1 DEF CallOf
    <1> HIDE DEF s2
    <1> QED
        BY <1>2 DEF Feedrate, s1, s2

LEMMA DwellIs ==
    ASSUME NEW p
    PROVE  Dwell(p) = CallOf("dwell", Unknown, Unknown, 0, 0, 0, 0, p, "none")
    <1> DEFINE s1 == [Nop EXCEPT !.c = "dwell"]
               s2 == [s1 EXCEPT !.p = p]
    <1>1. s1 = CallOf("dwell", Unknown, Unknown, 0, 0, 0, 0, 0, "none")
        BY DEF Nop, CallOf
    <1> HIDE DEF s1
    <1>2. s2 = CallOf("dwell", Unknown, Unknown, 0, 0, 0, 0, p, "none")
        BY <1>1 DEF CallOf
    <1> HIDE DEF s2
    <1> QED
        BY <1>2 DEF Dwell, s1, s2

LEMMA DrillIs ==
    ASSUME NEW x, NEW z, NEW q, NEW v, NEW p
    PROVE  Drill(x, z, q, v, p) = CallOf("drill", x, z, 0, Retract, q, v, p, "none")
    <1> DEFINE s1 == [Nop EXCEPT !.c = "drill"]
               s2 == [s1 EXCEPT !.x = x]
               s3 == [s2 EXCEPT !.z = z]
               s4 == [s3 EXCEPT !.r = Retract]
               s5 == [s4 EXCEPT !.q = q]
               s6 == [s5 EXCEPT !.v = v]
               s7 == [s6 EXCEPT !.p = p]
    <1>1. s1 = CallOf("drill", Unknown, Unknown, 0, 0, 0, 0, 0, "none")
        BY DEF Nop, CallOf
    <1> HIDE DEF s1
    <1>2. s2 = CallOf("drill", x, Unknown, 0, 0, 0, 0, 0, "none")
        BY <1>1 DEF CallOf
    <1> HIDE DEF s2
    <1>3. s3 = CallOf("drill", x, z, 0, 0, 0, 0, 0, "none")
        BY <1>2 DEF CallOf
    <1> HIDE DEF s3
    <1>4. s4 = CallOf("drill", x, z, 0, Retract, 0, 0, 0, "none")
        BY <1>3 DEF CallOf
    <1> HIDE DEF s4
    <1>5. s5 = CallOf("drill", x, z, 0, Retract, q, 0, 0, "none")
        BY <1>4 DEF CallOf
    <1> HIDE DEF s5
    <1>6. s6 = CallOf("drill", x, z, 0, Retract, q, v, 0, "none")
        BY <1>5 DEF CallOf
    <1> HIDE DEF s6
    <1>7. s7 = CallOf("drill", x, z, 0, Retract, q, v, p, "none")
        BY <1>6 DEF CallOf
    <1> HIDE DEF s7
    <1> QED
        BY <1>7 DEF Drill, s1, s2, s3, s4, s5, s6, s7

LEMMA StationIs ==
    Station = CallOf("station", Unknown, Unknown, 0, 0, 0, 0, 0, "none")
    BY DEF Station, Nop, CallOf

LEMMA HomeIs ==
    Home = CallOf("home", Unknown, Unknown, 0, 0, 0, 0, 0, "none")
    BY DEF Home, Nop, CallOf

LEMMA ProbeZIs ==
    ASSUME NEW v
    PROVE  ProbeZ(v) = CallOf("probe", Unknown, Unknown, 0, 0, 0, v, 0, "none")
    <1> DEFINE s1 == [Nop EXCEPT !.c = "probe"]
               s2 == [s1 EXCEPT !.v = v]
    <1>1. s1 = CallOf("probe", Unknown, Unknown, 0, 0, 0, 0, 0, "none")
        BY DEF Nop, CallOf
    <1> HIDE DEF s1
    <1>2. s2 = CallOf("probe", Unknown, Unknown, 0, 0, 0, v, 0, "none")
        BY <1>1 DEF CallOf
    <1> HIDE DEF s2
    <1> QED
        BY <1>2 DEF ProbeZ, s1, s2

LEMMA SetZIs ==
    ASSUME NEW z
    PROVE  SetZ(z) = CallOf("setz", Unknown, z, 0, 0, 0, 0, 0, "none")
    <1> DEFINE s1 == [Nop EXCEPT !.c = "setz"]
               s2 == [s1 EXCEPT !.z = z]
    <1>1. s1 = CallOf("setz", Unknown, Unknown, 0, 0, 0, 0, 0, "none")
        BY DEF Nop, CallOf
    <1> HIDE DEF s1
    <1>2. s2 = CallOf("setz", Unknown, z, 0, 0, 0, 0, 0, "none")
        BY <1>1 DEF CallOf
    <1> HIDE DEF s2
    <1> QED
        BY <1>2 DEF SetZ, s1, s2

LEMMA ApplyProbedIs ==
    ApplyProbed = CallOf("tlo", Unknown, Unknown, 0, 0, 0, 0, 0, "none")
    BY DEF ApplyProbed, Nop, CallOf

LEMMA MarkerIs ==
    ASSUME NEW id
    PROVE  Marker(id) = CallOf("marker", Unknown, Unknown, 0, 0, 0, 0, 0, id)
    <1> DEFINE s1 == [Nop EXCEPT !.c = "marker"]
               s2 == [s1 EXCEPT !.id = id]
    <1>1. s1 = CallOf("marker", Unknown, Unknown, 0, 0, 0, 0, 0, "none")
        BY DEF Nop, CallOf
    <1> HIDE DEF s1
    <1>2. s2 = CallOf("marker", Unknown, Unknown, 0, 0, 0, 0, 0, id)
        BY <1>1 DEF CallOf
    <1> HIDE DEF s2
    <1> QED
        BY <1>2 DEF Marker, s1, s2

LEMMA RawIs ==
    ASSUME NEW g, NEW x, NEW z, NEW v
    PROVE  Raw(g, x, z, v) = CallOf("raw", x, z, 0, 0, 0, v, 0, g)
    <1> DEFINE s1 == [Nop EXCEPT !.c = "raw"]
               s2 == [s1 EXCEPT !.id = g]
               s3 == [s2 EXCEPT !.x = x]
               s4 == [s3 EXCEPT !.z = z]
               s5 == [s4 EXCEPT !.v = v]
    <1>1. s1 = CallOf("raw", Unknown, Unknown, 0, 0, 0, 0, 0, "none")
        BY DEF Nop, CallOf
    <1> HIDE DEF s1
    <1>2. s2 = CallOf("raw", Unknown, Unknown, 0, 0, 0, 0, 0, g)
        BY <1>1 DEF CallOf
    <1> HIDE DEF s2
    <1>3. s3 = CallOf("raw", x, Unknown, 0, 0, 0, 0, 0, g)
        BY <1>2 DEF CallOf
    <1> HIDE DEF s3
    <1>4. s4 = CallOf("raw", x, z, 0, 0, 0, 0, 0, g)
        BY <1>3 DEF CallOf
    <1> HIDE DEF s4
    <1>5. s5 = CallOf("raw", x, z, 0, 0, 0, v, 0, g)
        BY <1>4 DEF CallOf
    <1> HIDE DEF s5
    <1> QED
        BY <1>5 DEF Raw, s1, s2, s3, s4, s5
-----------------------------------------------------------------------------
(* What the posts write for each call *)

Held(old, new) == IF new = Unknown THEN old ELSE new

LEMMA PostFields ==
    ASSUME NEW x, NEW z, NEW rate, NEW pen
    PROVE  /\ PostOf(x, z, rate, pen).x = x /\ PostOf(x, z, rate, pen).z = z
           /\ PostOf(x, z, rate, pen).rate = rate /\ PostOf(x, z, rate, pen).pen = pen
    BY DEF PostOf

LEMMA StraightIs ==
    ASSUME NEW s, NEW x0, NEW z0, NEW rate, NEW pen, NEW g, NEW c
    PROVE  Straight(s, PostOf(x0, z0, rate, pen), g, c) =
               Wrote(IF Word(s, x0, c.x) = Unknown /\ Word(s, z0, c.z) = Unknown THEN <<>>
                     ELSE <<LineOf(g, Word(s, x0, c.x), Word(s, z0, c.z), 0, 0, 0, 0, "none")>>,
                     PostOf(Held(x0, c.x), Held(z0, c.z), rate, pen))
    <1> DEFINE p == PostOf(x0, z0, rate, pen)
               l == Axes(s, p, g, c.x, c.z)
    <1>1. p.x = x0 /\ p.z = z0
        BY PostFields
    <1>2. Track(p, c.x, c.z) = PostOf(Held(x0, c.x), Held(z0, c.z), rate, pen)
        BY TrackIs DEF Held
    <1> HIDE DEF p
    <1>3. l = LineOf(g, Word(s, x0, c.x), Word(s, z0, c.z), 0, 0, 0, 0, "none")
        BY <1>1, LineIs DEF Axes
    <1> HIDE DEF l
    <1>4. l.x = Word(s, x0, c.x) /\ l.z = Word(s, z0, c.z)
        BY <1>3 DEF LineOf
    <1>5. Straight(s, p, g, c) = Wrote(IF l.x = Unknown /\ l.z = Unknown THEN <<>> ELSE <<l>>,
                                       Track(p, c.x, c.z))
        BY DEF Straight, l
    <1> QED
        BY <1>2, <1>3, <1>4, <1>5 DEF p

\* The line of a straight move, or none where no word is left to write.
StraightLine(s, g, x0, z0, x, z) ==
    IF Word(s, x0, x) = Unknown /\ Word(s, z0, z) = Unknown THEN <<>>
    ELSE <<LineOf(g, Word(s, x0, x), Word(s, z0, z), 0, 0, 0, 0, "none")>>

LEMMA GcodeMoveTo ==
    ASSUME NEW s, s.post # "hpgl", NEW x0, NEW z0, NEW rate, NEW pen, NEW x, NEW z
    PROVE  WriteCall(s, PostOf(x0, z0, rate, pen), MoveTo(x, z)) =
               Wrote(StraightLine(s, "G0", x0, z0, x, z), PostOf(Held(x0, x), Held(z0, z), rate, pen))
    <1> DEFINE c == MoveTo(x, z)
               p == PostOf(x0, z0, rate, pen)
    <1>1. c.c = "rapid" /\ c.x = x /\ c.z = z
        BY MoveToIs DEF CallOf
    <1> HIDE DEF c
    <1>2. WriteCall(s, p, c) = Straight(s, p, "G0", c)
        BY <1>1 DEF WriteCall, WriteGcode
    <1> HIDE DEF p
    <1> QED
        BY <1>1, <1>2, StraightIs DEF c, p, StraightLine

LEMMA GcodeLinear ==
    ASSUME NEW s, s.post # "hpgl", NEW x0, NEW z0, NEW rate, NEW pen, NEW x, NEW z
    PROVE  WriteCall(s, PostOf(x0, z0, rate, pen), Linear(x, z)) =
               Wrote(StraightLine(s, "G1", x0, z0, x, z), PostOf(Held(x0, x), Held(z0, z), rate, pen))
    <1> DEFINE c == Linear(x, z)
               p == PostOf(x0, z0, rate, pen)
    <1>1. c.c = "linear" /\ c.x = x /\ c.z = z
        BY LinearIs DEF CallOf
    <1> HIDE DEF c
    <1>2. WriteCall(s, p, c) = Straight(s, p, "G1", c)
        BY <1>1 DEF WriteCall, WriteGcode
    <1> HIDE DEF p
    <1> QED
        BY <1>1, <1>2, StraightIs DEF c, p, StraightLine

ArcLine(s, x0, z0, x, z, i) ==
    LineOf("G2", Word(s, x0, x), Word(s, z0, z), Emitted(s, i), 0, 0, 0, "none")

LEMMA GcodeArc ==
    ASSUME NEW s, s.post # "hpgl", NEW x0, NEW z0, NEW rate, NEW pen, NEW x, NEW z, NEW i,
           x # Unknown
    PROVE  WriteCall(s, PostOf(x0, z0, rate, pen), Arc(x, z, i)) =
               LET mid == x0 + 2 * i
                   deep == Held(z0, z)
               IN IF x0 # Unknown /\ x = x0
                  THEN Wrote(<<ArcLine(s, x0, z0, mid, z, i),
                               ArcLine(s, Held(x0, mid), deep, x, z, -i)>>,
                             PostOf(x, Held(deep, z), rate, pen))
                  ELSE Wrote(<<ArcLine(s, x0, z0, x, z, i)>>, PostOf(x, deep, rate, pen))
    <1> DEFINE c == Arc(x, z, i)
               p == PostOf(x0, z0, rate, pen)
               mid == x0 + 2 * i
               half == Track(p, mid, z)
    <1>1. c.c = "arc" /\ c.x = x /\ c.z = z /\ c.i = i
        BY ArcIs DEF CallOf
    <1>2. p.x = x0 /\ p.z = z0
        BY PostFields
    <1> HIDE DEF c
    <1>3. WriteCall(s, p, c) = ArcLines(s, p, c)
        BY <1>1 DEF WriteCall, WriteGcode
    <1>4. half = PostOf(Held(x0, mid), Held(z0, z), rate, pen)
        BY TrackIs DEF Held
    <1>5. /\ Track(p, x, z) = PostOf(x, Held(z0, z), rate, pen)
          /\ Track(half, x, z) = PostOf(x, Held(Held(z0, z), z), rate, pen)
        BY <1>4, TrackIs DEF Held
    <1> HIDE DEF mid, p
    <1>6. half.x = Held(x0, mid) /\ half.z = Held(z0, z)
        BY <1>4, PostFields
    <1> HIDE DEF half
    <1>7. /\ [Axes(s, p, "G2", mid, z) EXCEPT !.i = Emitted(s, i)] = ArcLine(s, x0, z0, mid, z, i)
          /\ [Axes(s, p, "G2", x, z) EXCEPT !.i = Emitted(s, i)] = ArcLine(s, x0, z0, x, z, i)
          /\ [Axes(s, half, "G2", x, z) EXCEPT !.i = Emitted(s, -i)] =
                 ArcLine(s, Held(x0, mid), Held(z0, z), x, z, -i)
        <2>1. [Axes(s, p, "G2", mid, z) EXCEPT !.i = Emitted(s, i)] = ArcLine(s, x0, z0, mid, z, i)
            BY <1>2, LineIs DEF Axes, ArcLine, LineOf
        <2>2. [Axes(s, p, "G2", x, z) EXCEPT !.i = Emitted(s, i)] = ArcLine(s, x0, z0, x, z, i)
            BY <1>2, LineIs DEF Axes, ArcLine, LineOf
        <2>3. [Axes(s, half, "G2", x, z) EXCEPT !.i = Emitted(s, -i)] =
                 ArcLine(s, Held(x0, mid), Held(z0, z), x, z, -i)
            BY <1>6, LineIs DEF Axes, ArcLine, LineOf
        <2> QED
            BY <2>1, <2>2, <2>3
    <1>8. ArcLines(s, p, c) =
              IF x0 # Unknown /\ x = x0
              THEN Wrote(<<[Axes(s, p, "G2", mid, z) EXCEPT !.i = Emitted(s, i)],
                           [Axes(s, half, "G2", x, z) EXCEPT !.i = Emitted(s, -i)]>>,
                         Track(half, x, z))
              ELSE Wrote(<<[Axes(s, p, "G2", x, z) EXCEPT !.i = Emitted(s, i)]>>, Track(p, x, z))
        BY <1>1, <1>2 DEF ArcLines, mid, half
    <1> QED
        BY <1>3, <1>5, <1>7, <1>8, Zenon DEF c, p, mid

LEMMA GcodeDrill ==
    ASSUME NEW s, s.post # "hpgl", NEW x0, NEW z0, NEW rate, NEW pen, NEW x, NEW z, NEW q,
           NEW v, NEW p, x # Unknown
    PROVE  WriteCall(s, PostOf(x0, z0, rate, pen), Drill(x, z, q, v, p)) =
               Wrote(<<LineOf("G81", Word(s, x0, x), Word(s, z0, z), 0, Emitted(s, Retract), 0, p,
                              "none")>>,
                     PostOf(x, Retract, rate, pen))
    <1> DEFINE c == Drill(x, z, q, v, p)
               o == PostOf(x0, z0, rate, pen)
               l == Line("G81", Word(s, x0, x), Word(s, z0, z))
    <1>1. c.c = "drill" /\ c.x = x /\ c.z = z /\ c.r = Retract /\ c.p = p
        BY DrillIs DEF CallOf
    <1>2. o.x = x0 /\ o.z = z0
        BY PostFields
    <1>3. Track(o, x, z) = PostOf(x, Held(z0, z), rate, pen)
        BY TrackIs DEF Held
    <1>4. [Track(o, x, z) EXCEPT !.z = Retract] = PostOf(x, Retract, rate, pen)
        BY <1>3 DEF PostOf
    <1> HIDE DEF c, o
    <1>5. WriteCall(s, o, c) = Canned(s, o, c)
        BY <1>1 DEF WriteCall, WriteGcode
    <1>6. Axes(s, o, "G81", x, z) = l
        BY <1>2 DEF Axes
    <1>7. [l EXCEPT !.r = Emitted(s, Retract), !.p = p] =
              LineOf("G81", Word(s, x0, x), Word(s, z0, z), 0, Emitted(s, Retract), 0, p, "none")
        BY CycleLine, Zenon
    <1> HIDE DEF l
    <1>8. Canned(s, o, c) = Wrote(<<[l EXCEPT !.r = Emitted(s, Retract), !.p = p]>>,
                                  [Track(o, x, z) EXCEPT !.z = Retract])
        BY <1>1, <1>6 DEF Canned
    <1> QED
        BY <1>4, <1>5, <1>7, <1>8, Zenon DEF c, o

LEMMA GcodeFeedrate ==
    ASSUME NEW s, s.post # "hpgl", NEW x0, NEW z0, NEW rate, NEW pen, NEW v
    PROVE  WriteCall(s, PostOf(x0, z0, rate, pen), Feedrate(v)) =
               IF v = 0 \/ v = rate THEN Wrote(<<>>, PostOf(x0, z0, rate, pen))
               ELSE Wrote(<<LineOf("none", Unknown, Unknown, 0, 0, Emitted(s, v), 0, "none")>>,
                          PostOf(x0, z0, v, pen))
    <1> DEFINE c == Feedrate(v)
               p == PostOf(x0, z0, rate, pen)
    <1>1. c.c = "feed" /\ c.v = v
        BY FeedrateIs DEF CallOf
    <1>2. p.rate = rate /\ [p EXCEPT !.rate = v] = PostOf(x0, z0, v, pen)
        BY PostFields DEF PostOf
    <1>3. [Blank EXCEPT !.f = Emitted(s, v)] =
              LineOf("none", Unknown, Unknown, 0, 0, Emitted(s, v), 0, "none")
        BY FeedLine
    <1> HIDE DEF c, p
    <1>4. WriteCall(s, p, c) =
              IF v = 0 \/ v = rate THEN Wrote(<<>>, p)
              ELSE Wrote(<<[Blank EXCEPT !.f = Emitted(s, v)]>>, [p EXCEPT !.rate = v])
        BY <1>1, <1>2 DEF WriteCall, WriteGcode
    <1> QED
        BY <1>2, <1>3, <1>4, Zenon DEF c, p

\* The calls that write a line of their own and need no place.
LEMMA GcodePlain ==
    ASSUME NEW s, s.post # "hpgl", NEW x0, NEW z0, NEW rate, NEW pen
    PROVE  LET p == PostOf(x0, z0, rate, pen)
           IN /\ \A n : WriteCall(s, p, Dwell(n)) =
                     Wrote(<<LineOf("G4", Unknown, Unknown, 0, 0, 0, n, "none")>>, p)
              /\ WriteCall(s, p, Station) =
                     Wrote(<<LineOf("G53", Unknown, Unknown, 0, 0, 0, 0, "none")>>,
                           PostOf(Unknown, Unknown, rate, pen))
              /\ WriteCall(s, p, Home) =
                     Wrote(<<LineOf("G28", Unknown, Unknown, 0, 0, 0, 0, "none")>>, p)
              /\ \A v : WriteCall(s, p, ProbeZ(v)) =
                     Wrote(<<LineOf("G38.2", Unknown, -4, 0, 0, v, 0, "none")>>,
                           PostOf(Unknown, Unknown, rate, pen))
              /\ \A z : WriteCall(s, p, SetZ(z)) =
                     Wrote(<<LineOf("G92", Unknown, Emitted(s, z), 0, 0, 0, 0, "none")>>,
                           PostOf(x0, Unknown, rate, pen))
              /\ WriteCall(s, p, ApplyProbed) =
                     IF s.post = "grbl" THEN Wrote(<<>>, p)
                     ELSE Wrote(<<LineOf("G43.1", Unknown, Unknown, 0, 0, 0, 0, "none")>>,
                                PostOf(x0, Unknown, rate, pen))
              /\ \A id : WriteCall(s, p, Marker(id)) =
                     Wrote(<<LineOf("OP", Unknown, Unknown, 0, 0, 0, 0, id)>>, p)
              /\ \A g, x, z, v : WriteCall(s, p, Raw(g, x, z, v)) =
                     Wrote(<<LineOf(g, x, z, 0, 0, v, 0, "none")>>, p)
    <1> DEFINE p == PostOf(x0, z0, rate, pen)
    <1>1. /\ At(p, Unknown, Unknown) = PostOf(Unknown, Unknown, rate, pen)
          /\ [p EXCEPT !.z = Unknown] = PostOf(x0, Unknown, rate, pen)
        <2>1. At(p, Unknown, Unknown) = PostOf(Unknown, Unknown, rate, pen)
            BY PostAt
        <2>2. [p EXCEPT !.z = Unknown] = PostOf(x0, Unknown, rate, pen)
            BY DEF PostOf
        <2> QED
            BY <2>1, <2>2
    <1> HIDE DEF p
    <1>2. ASSUME NEW n
          PROVE  WriteCall(s, p, Dwell(n)) =
                     Wrote(<<LineOf("G4", Unknown, Unknown, 0, 0, 0, n, "none")>>, p)
        <2>1. Dwell(n).c = "dwell" /\ Dwell(n).p = n
            BY DwellIs DEF CallOf
        <2>2. WriteCall(s, p, Dwell(n)) = Wrote(<<[Line("G4", Unknown, Unknown) EXCEPT !.p = n]>>, p)
            BY <2>1 DEF WriteCall, WriteGcode
        <2>3. [Line("G4", Unknown, Unknown) EXCEPT !.p = n] =
                  LineOf("G4", Unknown, Unknown, 0, 0, 0, n, "none")
            BY LineIs DEF LineOf
        <2> QED
            BY <2>2, <2>3, Zenon
    <1>3. WriteCall(s, p, Station) =
              Wrote(<<LineOf("G53", Unknown, Unknown, 0, 0, 0, 0, "none")>>,
                    PostOf(Unknown, Unknown, rate, pen))
        <2>1. Station.c = "station"
            BY StationIs DEF CallOf
        <2> QED
            BY <1>1, <2>1, LineIs DEF WriteCall, WriteGcode
    <1>4. WriteCall(s, p, Home) =
              Wrote(<<LineOf("G28", Unknown, Unknown, 0, 0, 0, 0, "none")>>, p)
        <2>1. Home.c = "home"
            BY HomeIs DEF CallOf
        <2> QED
            BY <2>1, LineIs DEF WriteCall, WriteGcode
    <1>5. ASSUME NEW v
          PROVE  WriteCall(s, p, ProbeZ(v)) =
                     Wrote(<<LineOf("G38.2", Unknown, -4, 0, 0, v, 0, "none")>>,
                           PostOf(Unknown, Unknown, rate, pen))
        <2>1. ProbeZ(v).c = "probe" /\ ProbeZ(v).v = v
            BY ProbeZIs DEF CallOf
        <2>2. WriteCall(s, p, ProbeZ(v)) = Wrote(<<[Line("G38.2", Unknown, -4) EXCEPT !.f = v]>>,
                                                 At(p, Unknown, Unknown))
            BY <2>1 DEF WriteCall, WriteGcode
        <2>3. [Line("G38.2", Unknown, -4) EXCEPT !.f = v] =
                  LineOf("G38.2", Unknown, -4, 0, 0, v, 0, "none")
            BY LineIs DEF LineOf
        <2> QED
            BY <1>1, <2>2, <2>3, Zenon
    <1>6. ASSUME NEW z
          PROVE  WriteCall(s, p, SetZ(z)) =
                     Wrote(<<LineOf("G92", Unknown, Emitted(s, z), 0, 0, 0, 0, "none")>>,
                           PostOf(x0, Unknown, rate, pen))
        <2>1. SetZ(z).c = "setz" /\ SetZ(z).z = z
            BY SetZIs DEF CallOf
        <2>2. WriteCall(s, p, SetZ(z)) = Wrote(<<Line("G92", Unknown, Emitted(s, z))>>,
                                               [p EXCEPT !.z = Unknown])
            BY <2>1 DEF WriteCall, WriteGcode
        <2> QED
            BY <1>1, <2>2, LineIs, Zenon
    <1>7. WriteCall(s, p, ApplyProbed) =
              IF s.post = "grbl" THEN Wrote(<<>>, p)
              ELSE Wrote(<<LineOf("G43.1", Unknown, Unknown, 0, 0, 0, 0, "none")>>,
                         PostOf(x0, Unknown, rate, pen))
        <2>1. ApplyProbed.c = "tlo"
            BY ApplyProbedIs DEF CallOf
        <2>2. WriteCall(s, p, ApplyProbed) =
                  IF s.post = "grbl" THEN Wrote(<<>>, p)
                  ELSE Wrote(<<Line("G43.1", Unknown, Unknown)>>, [p EXCEPT !.z = Unknown])
            BY <2>1 DEF WriteCall, WriteGcode
        <2> QED
            BY <1>1, <2>2, LineIs, Zenon
    <1>8. ASSUME NEW id
          PROVE  WriteCall(s, p, Marker(id)) =
                     Wrote(<<LineOf("OP", Unknown, Unknown, 0, 0, 0, 0, id)>>, p)
        <2>1. Marker(id).c = "marker" /\ Marker(id).id = id
            BY MarkerIs DEF CallOf
        <2>2. WriteCall(s, p, Marker(id)) =
                  Wrote(<<[Line("OP", Unknown, Unknown) EXCEPT !.id = id]>>, p)
            BY <2>1 DEF WriteCall, WriteGcode
        <2>3. [Line("OP", Unknown, Unknown) EXCEPT !.id = id] =
                  LineOf("OP", Unknown, Unknown, 0, 0, 0, 0, id)
            BY LineIs DEF LineOf
        <2> QED
            BY <2>2, <2>3, Zenon
    <1>9. ASSUME NEW g, NEW x, NEW z, NEW v
          PROVE  WriteCall(s, p, Raw(g, x, z, v)) =
                     Wrote(<<LineOf(g, x, z, 0, 0, v, 0, "none")>>, p)
        <2> DEFINE c == Raw(g, x, z, v)
        <2>1. c.c = "raw" /\ c.id = g /\ c.x = x /\ c.z = z /\ c.v = v
            BY RawIs DEF CallOf
        <2> HIDE DEF c
        <2>2. WriteCall(s, p, c) = Wrote(<<[Line(g, x, z) EXCEPT !.f = v]>>, p)
            BY <2>1 DEF WriteCall, WriteGcode
        <2>3. [Line(g, x, z) EXCEPT !.f = v] = LineOf(g, x, z, 0, 0, v, 0, "none")
            BY LineIs DEF LineOf
        <2> QED
            BY <2>2, <2>3, Zenon DEF c
    <1> QED
        BY <1>2, <1>3, <1>4, <1>5, <1>6, <1>7, <1>8, <1>9 DEF p

\* The pen; as an argument the provers do not see through a truth value.
Up == FALSE
Down == TRUE

PenLines(pen, down) ==
    IF pen = down THEN <<>>
    ELSE <<LineOf(IF down THEN "PD" ELSE "PU", Unknown, Unknown, 0, 0, 0, 0, "none")>>
PlotLines(to, i) ==
    IF to = Unknown THEN <<>> ELSE <<LineOf("PA", to, Unknown, i, 0, 0, 0, "none")>>

\* Every move of the plotter puts the pen up or down, then draws to where X is.
LEMMA PlotterDraws ==
    ASSUME NEW s, s.post = "hpgl", NEW x0, NEW z0, NEW rate, NEW pen, NEW c
    PROVE  /\ c.c = "rapid" =>
                  WriteCall(s, PostOf(x0, z0, rate, pen), c) =
                      Wrote(PenLines(pen, Up) \o PlotLines(Held(x0, c.x), 0),
                            PostOf(Held(x0, c.x), z0, rate, Up))
           /\ c.c = "linear" =>
                  WriteCall(s, PostOf(x0, z0, rate, pen), c) =
                      Wrote(PenLines(pen, Down) \o PlotLines(Held(x0, c.x), 0),
                            PostOf(Held(x0, c.x), z0, rate, Down))
           /\ c.c = "arc" =>
                  WriteCall(s, PostOf(x0, z0, rate, pen), c) =
                      Wrote(PenLines(pen, Down)
                            \o PlotLines(Held(x0, c.x), IF x0 = Unknown THEN 0 ELSE c.i),
                            PostOf(Held(x0, c.x), z0, rate, Down))
    <1> DEFINE p == PostOf(x0, z0, rate, pen)
               to == Held(x0, c.x)
    <1>1. p.x = x0 /\ p.z = z0 /\ p.rate = rate /\ p.pen = pen
        BY PostFields
    <1>2. At(p, to, z0) = PostOf(to, z0, rate, pen)
        BY PostAt
    <1>3. /\ [PostOf(to, z0, rate, pen) EXCEPT !.pen = Down] = PostOf(to, z0, rate, Down)
          /\ [PostOf(to, z0, rate, pen) EXCEPT !.pen = Up] = PostOf(to, z0, rate, Up)
        BY DEF PostOf
    <1> HIDE DEF p, to
    <1> DEFINE Pen(down) == IF pen = down THEN <<>>
                            ELSE <<Line(IF down THEN "PD" ELSE "PU", Unknown, Unknown)>>
               Plot(i) == IF to = Unknown THEN <<>>
                          ELSE <<[Line("PA", to, Unknown) EXCEPT !.i = i]>>
               There(down) == [At(p, to, z0) EXCEPT !.pen = down]
               bend == IF x0 = Unknown THEN 0 ELSE c.i
    <1>4. Pen(Down) = PenLines(pen, Down) /\ Pen(Up) = PenLines(pen, Up)
        BY LineIs DEF PenLines
    <1>5. ASSUME NEW i PROVE Plot(i) = PlotLines(to, i)
        <2>1. [Line("PA", to, Unknown) EXCEPT !.i = i] =
                  LineOf("PA", to, Unknown, i, 0, 0, 0, "none")
            BY LineIs DEF LineOf
        <2> QED
            BY <2>1, Zenon DEF PlotLines
    <1>6. /\ There(Down) = PostOf(to, z0, rate, Down)
          /\ There(Up) = PostOf(to, z0, rate, Up)
        BY <1>2, <1>3
    <1>7. WriteCall(s, p, c) = WriteHpgl(s, p, c)
        BY DEF WriteCall
    <1>8. c.c = "rapid" => WriteHpgl(s, p, c) = Wrote(Pen(Up) \o Plot(0), There(Up))
        BY <1>1 DEF WriteHpgl, Held, to, Up, Down
    <1>9. c.c = "linear" => WriteHpgl(s, p, c) = Wrote(Pen(Down) \o Plot(0), There(Down))
        BY <1>1 DEF WriteHpgl, Held, to, Up, Down
    <1>10. c.c = "arc" => WriteHpgl(s, p, c) = Wrote(Pen(Down) \o Plot(bend), There(Down))
        BY <1>1 DEF WriteHpgl, Held, to, Up, Down
    <1> HIDE DEF Pen, Plot, There, bend
    <1>11. Plot(0) = PlotLines(to, 0) /\ Plot(bend) = PlotLines(to, bend)
        BY <1>5
    <1>12. /\ c.c = "rapid" => WriteCall(s, p, c) =
                   Wrote(PenLines(pen, Up) \o PlotLines(to, 0), PostOf(to, z0, rate, Up))
           /\ c.c = "linear" => WriteCall(s, p, c) =
                   Wrote(PenLines(pen, Down) \o PlotLines(to, 0), PostOf(to, z0, rate, Down))
           /\ c.c = "arc" => WriteCall(s, p, c) =
                   Wrote(PenLines(pen, Down) \o PlotLines(to, bend), PostOf(to, z0, rate, Down))
        BY <1>4, <1>6, <1>7, <1>8, <1>9, <1>10, <1>11, Zenon
    <1> QED
        BY <1>12 DEF p, to, bend

LEMMA PlotterMoveTo ==
    ASSUME NEW s, s.post = "hpgl", NEW x0, NEW z0, NEW rate, NEW pen, NEW x, NEW z
    PROVE  WriteCall(s, PostOf(x0, z0, rate, pen), MoveTo(x, z)) =
               Wrote(PenLines(pen, Up) \o PlotLines(Held(x0, x), 0),
                     PostOf(Held(x0, x), z0, rate, Up))
    <1> DEFINE c == MoveTo(x, z)
    <1>1. c.c = "rapid" /\ c.x = x
        BY MoveToIs DEF CallOf
    <1> HIDE DEF c
    <1>2. WriteCall(s, PostOf(x0, z0, rate, pen), c) =
               Wrote(PenLines(pen, Up) \o PlotLines(Held(x0, x), 0),
                     PostOf(Held(x0, x), z0, rate, Up))
        BY <1>1, PlotterDraws
    <1> QED
        BY <1>2 DEF c

LEMMA PlotterLinear ==
    ASSUME NEW s, s.post = "hpgl", NEW x0, NEW z0, NEW rate, NEW pen, NEW x, NEW z
    PROVE  WriteCall(s, PostOf(x0, z0, rate, pen), Linear(x, z)) =
               Wrote(PenLines(pen, Down) \o PlotLines(Held(x0, x), 0),
                     PostOf(Held(x0, x), z0, rate, Down))
    <1> DEFINE c == Linear(x, z)
    <1>1. c.c = "linear" /\ c.x = x
        BY LinearIs DEF CallOf
    <1> HIDE DEF c
    <1>2. WriteCall(s, PostOf(x0, z0, rate, pen), c) =
               Wrote(PenLines(pen, Down) \o PlotLines(Held(x0, x), 0),
                     PostOf(Held(x0, x), z0, rate, Down))
        BY <1>1, PlotterDraws
    <1> QED
        BY <1>2 DEF c

LEMMA PlotterArc ==
    ASSUME NEW s, s.post = "hpgl", NEW x0, NEW z0, NEW rate, NEW pen, NEW x, NEW z, NEW i
    PROVE  WriteCall(s, PostOf(x0, z0, rate, pen), Arc(x, z, i)) =
               Wrote(PenLines(pen, Down)
                     \o PlotLines(Held(x0, x), IF x0 = Unknown THEN 0 ELSE i),
                     PostOf(Held(x0, x), z0, rate, Down))
    <1> DEFINE c == Arc(x, z, i)
    <1>1. c.c = "arc" /\ c.x = x /\ c.i = i
        BY ArcIs DEF CallOf
    <1> HIDE DEF c
    <1>2. WriteCall(s, PostOf(x0, z0, rate, pen), c) =
               Wrote(PenLines(pen, Down)
                     \o PlotLines(Held(x0, x), IF x0 = Unknown THEN 0 ELSE i),
                     PostOf(Held(x0, x), z0, rate, Down))
        BY <1>1, PlotterDraws
    <1> QED
        BY <1>2 DEF c

LEMMA PlotterFeedrate ==
    ASSUME NEW s, s.post = "hpgl", NEW x0, NEW z0, NEW rate, NEW pen, NEW v
    PROVE  WriteCall(s, PostOf(x0, z0, rate, pen), Feedrate(v)) =
               IF v = 0 \/ Speed(v) = rate THEN Wrote(<<>>, PostOf(x0, z0, rate, pen))
               ELSE Wrote(<<LineOf("VS", Unknown, Unknown, 0, 0, Speed(v), 0, "none")>>,
                          PostOf(x0, z0, Speed(v), pen))
    <1> DEFINE c == Feedrate(v)
               w == Speed(v)
               p == PostOf(x0, z0, rate, pen)
    <1>1. c.c = "feed" /\ c.v = v
        BY FeedrateIs DEF CallOf
    <1>2. p.rate = rate /\ [p EXCEPT !.rate = w] = PostOf(x0, z0, w, pen)
        BY PostFields DEF PostOf
    <1> HIDE DEF c, p
    <1>3. WriteCall(s, p, c) =
              IF v = 0 \/ w = rate THEN Wrote(<<>>, p)
              ELSE Wrote(<<[Line("VS", Unknown, Unknown) EXCEPT !.f = w]>>, [p EXCEPT !.rate = w])
        BY <1>1, <1>2 DEF WriteCall, WriteHpgl
    <1> HIDE DEF w
    <1>4. [Line("VS", Unknown, Unknown) EXCEPT !.f = w] =
              LineOf("VS", Unknown, Unknown, 0, 0, w, 0, "none")
        BY LineIs DEF LineOf
    <1> QED
        BY <1>2, <1>3, <1>4, Zenon DEF c, p, w

LEMMA PlotterOther ==
    ASSUME NEW s, s.post = "hpgl", NEW p, NEW c, c.c \notin {"rapid", "linear", "arc", "feed"}
    PROVE  WriteCall(s, p, c) = Wrote(<<>>, p)
    BY DEF WriteCall, WriteHpgl

LEMMA PostType ==
    ASSUME NEW x \in Place, NEW z \in Place, NEW rate \in Nat, NEW pen \in BOOLEAN
    PROVE  PostOf(x, z, rate, pen) \in PostSet
    BY DEF PostOf, PostSet

LEMMA PageType ==
    ASSUME NEW ls \in Seq(LineSet), NEW p \in PostSet
    PROVE  Wrote(ls, p) \in Page(PostSet)
    BY DEF Wrote, Page

LEMMA HeldPlace ==
    ASSUME NEW a \in Place, NEW b \in Place
    PROVE  Held(a, b) \in Place
    BY DEF Held

LEMMA PlaceIs ==
    /\ Place \subseteq -20 .. 20 \cup {Unknown}
    /\ Place \subseteq Int /\ Place \subseteq Digits \cup {Unknown}
    /\ \A x \in Place, i \in Offsets : x # Unknown => x + 2 * i \in -28 .. 28
    /\ \A i \in Offsets : i \in -4 .. 4 /\ -i \in -4 .. 4 /\ i \in Digits /\ i # 0
    <1>1. Place \subseteq -20 .. 20 \cup {Unknown} /\ Unknown \in Int
        BY NearIs DEF Place
    <1>2. \A i \in Offsets : i \in -4 .. 4 /\ -i \in -4 .. 4 /\ i # 0
        BY DEF Offsets
    <1>3. \A x \in -20 .. 20 : x \in Int /\ x \in Digits
        BY DEF Digits
    <1>4. \A x \in Place : x \in -20 .. 20 \/ x = Unknown
        BY <1>1
    <1>5. \A x \in -20 .. 20, i \in -4 .. 4 : x + 2 * i \in -28 .. 28
        OBVIOUS
    <1>6. \A i \in -4 .. 4 : i \in Digits
        BY DEF Digits
    <1>7. \A x \in Place : x \in Int /\ x \in Digits \cup {Unknown}
        BY <1>1, <1>3, <1>4
    <1>8. \A x \in Place, i \in Offsets : x # Unknown => x + 2 * i \in -28 .. 28
        BY <1>2, <1>4, <1>5
    <1> QED
        BY <1>1, <1>2, <1>6, <1>7, <1>8

LEMMA CallCases ==
    ASSUME NEW c \in CallSet
    PROVE  \/ \E x, z \in Place : c = MoveTo(x, z)
           \/ \E x, z \in Place : c = Linear(x, z)
           \/ \E x \in Near, z \in Place, i \in Offsets : c = Arc(x, z, i)
           \/ \E x, z \in Near, q, v, p \in Nat : c = Drill(x, z, q, v, p)
           \/ \E v \in Nat : c = Feedrate(v)
           \/ \E p \in Nat : c = Dwell(p)
           \/ c = Station \/ c = Home \/ c = ApplyProbed
           \/ \E v \in Nat : c = ProbeZ(v)
           \/ \E z \in Near : c = SetZ(z)
           \/ \E id \in Kinds : c = Marker(id)
           \/ \E g \in {"G0", "G1"}, x, z \in Place, v \in Nat : c = Raw(g, x, z, v)
    BY DEF CallSet

\* What comes first, then what a post writes of each kind of call, is in its page.
LEMMA GcodeWriteType ==
    ASSUME NEW s \in Setup, s.post # "hpgl", NEW p \in PostSet, NEW c \in CallSet
    PROVE  WriteCall(s, p, c) \in Page(PostSet)
    <1>1. /\ p = PostOf(p.x, p.z, p.rate, p.pen)
          /\ p.x \in Place /\ p.z \in Place /\ p.rate \in Nat /\ p.pen \in BOOLEAN
        BY PostIs DEF PostSet
    <1> DEFINE x0 == p.x
               z0 == p.z
               rate == p.rate
               pen == p.pen
               o == PostOf(x0, z0, rate, pen)
    <1>2. x0 \in Place /\ z0 \in Place /\ rate \in Nat /\ pen \in BOOLEAN /\ p = o
        BY <1>1
    <1> HIDE DEF x0, z0, rate, pen
    <1>3. /\ Unknown \in Place /\ Unknown \in Digits \cup {Unknown} /\ 0 \in Digits /\ 0 \in Nat
          /\ "none" \in Tags /\ <<>> \in Seq(LineSet)
        BY DEF Place, Digits, Tags
    <1>4. ASSUME NEW a \in Place, NEW b \in Place
          PROVE  Word(s, a, b) \in Digits \cup {Unknown}
        BY WordDigits, PlaceIs
    <1>5. ASSUME NEW x \in Place, NEW z \in Place PROVE PostOf(x, z, rate, pen) \in PostSet
        BY <1>2, PostType
    <1>6. o \in PostSet
        BY <1>2, <1>5
    <1>7. ASSUME NEW x \in Place, NEW z \in Place, NEW g \in {"G0", "G1"}
          PROVE  Wrote(IF Word(s, x0, x) = Unknown /\ Word(s, z0, z) = Unknown THEN <<>>
                       ELSE <<LineOf(g, Word(s, x0, x), Word(s, z0, z), 0, 0, 0, 0, "none")>>,
                       PostOf(Held(x0, x), Held(z0, z), rate, pen)) \in Page(PostSet)
        <2>1. Word(s, x0, x) \in Digits \cup {Unknown} /\ Word(s, z0, z) \in Digits \cup {Unknown}
            BY <1>2, <1>4
        <2>2. g \in Codes
            BY DEF Codes
        <2>3. <<LineOf(g, Word(s, x0, x), Word(s, z0, z), 0, 0, 0, 0, "none")>> \in Seq(LineSet)
            BY <1>3, <2>1, <2>2, LineType
        <2>4. PostOf(Held(x0, x), Held(z0, z), rate, pen) \in PostSet
            BY <1>2, <1>5, HeldPlace
        <2> QED
            BY <1>3, <2>3, <2>4, PageType
    <1>8. CASE \E x, z \in Place : c = MoveTo(x, z)
        <2>1. PICK x \in Place, z \in Place : c = MoveTo(x, z)
            BY <1>8
        <2>2. "G0" \in {"G0", "G1"}
            OBVIOUS
        <2> HIDE DEF o
        <2>3. WriteCall(s, o, MoveTo(x, z)) =
                  Wrote(IF Word(s, x0, x) = Unknown /\ Word(s, z0, z) = Unknown THEN <<>>
                        ELSE <<LineOf("G0", Word(s, x0, x), Word(s, z0, z), 0, 0, 0, 0, "none")>>,
                        PostOf(Held(x0, x), Held(z0, z), rate, pen))
            BY GcodeMoveTo DEF o, StraightLine
        <2>4. WriteCall(s, o, MoveTo(x, z)) \in Page(PostSet)
            BY <1>7, <2>2, <2>3, Zenon
        <2> QED
            BY <1>2, <2>1, <2>4, Zenon
    <1>9. CASE \E x, z \in Place : c = Linear(x, z)
        <2>1. PICK x \in Place, z \in Place : c = Linear(x, z)
            BY <1>9
        <2>2. "G1" \in {"G0", "G1"}
            OBVIOUS
        <2> HIDE DEF o
        <2>3. WriteCall(s, o, Linear(x, z)) =
                  Wrote(IF Word(s, x0, x) = Unknown /\ Word(s, z0, z) = Unknown THEN <<>>
                        ELSE <<LineOf("G1", Word(s, x0, x), Word(s, z0, z), 0, 0, 0, 0, "none")>>,
                        PostOf(Held(x0, x), Held(z0, z), rate, pen))
            BY GcodeLinear DEF o, StraightLine
        <2>4. WriteCall(s, o, Linear(x, z)) \in Page(PostSet)
            BY <1>7, <2>2, <2>3, Zenon
        <2> QED
            BY <1>2, <2>1, <2>4, Zenon
    <1>10. CASE \E x \in Near, z \in Place, i \in Offsets : c = Arc(x, z, i)
        <2>1. PICK x \in Near, z \in Place, i \in Offsets : c = Arc(x, z, i)
            BY <1>10
        <2>2. x \in Place /\ x # Unknown /\ i \in -4 .. 4 /\ -i \in -4 .. 4
            BY NearIs, PlaceIs DEF Place
        <2>3. Emitted(s, i) \in Digits /\ Emitted(s, -i) \in Digits
            <3>1. ASSUME NEW k \in -4 .. 4 PROVE Emitted(s, k) \in Digits
                BY EmittedNear
            <3> QED
                BY <2>2, <3>1
        <2>4. ASSUME NEW a \in Int, NEW b \in -36 .. 36 \cup {Unknown}, NEW d \in Place,
                     NEW e \in Place, NEW k \in Int, Emitted(s, k) \in Digits
              PROVE  ArcLine(s, a, d, b, e, k) \in LineSet
            <3>1. Word(s, a, b) \in Digits \cup {Unknown} /\ Word(s, d, e) \in Digits \cup {Unknown}
                BY <1>4, WordDigits
            <3>2. "G2" \in Codes
                BY DEF Codes
            <3> QED
                BY <1>3, <2>4, <3>1, <3>2, LineType DEF ArcLine
        <2>5. Held(z0, z) \in Place /\ Held(Held(z0, z), z) \in Place
            BY <1>2, HeldPlace
        <2>6. /\ PostOf(x, Held(z0, z), rate, pen) \in PostSet
              /\ PostOf(x, Held(Held(z0, z), z), rate, pen) \in PostSet
            BY <1>5, <2>2, <2>5
        <2>7. x \in -36 .. 36 \cup {Unknown} /\ x0 \in Int /\ i \in Int /\ -i \in Int
            BY <1>2, <2>2, NearIs, PlaceIs
        <2>8. ArcLine(s, x0, z0, x, z, i) \in LineSet
            BY <1>2, <2>3, <2>4, <2>7
        <2>9. WriteCall(s, o, c) =
               LET mid == x0 + 2 * i
                   deep == Held(z0, z)
               IN IF x0 # Unknown /\ x = x0
                  THEN Wrote(<<ArcLine(s, x0, z0, mid, z, i),
                               ArcLine(s, Held(x0, mid), deep, x, z, -i)>>,
                             PostOf(x, Held(deep, z), rate, pen))
                  ELSE Wrote(<<ArcLine(s, x0, z0, x, z, i)>>, PostOf(x, deep, rate, pen))
            <3> HIDE DEF o
            <3> QED
                BY <2>1, <2>2, GcodeArc DEF o
        <2> HIDE DEF o
        <2>10. CASE x0 # Unknown /\ x = x0
            <3> DEFINE mid == x0 + 2 * i
            <3>1. mid \in -36 .. 36 \cup {Unknown} /\ mid \in Int /\ Held(x0, mid) \in Int
                BY <1>2, <2>7, <2>10, PlaceIs DEF Held
            <3> HIDE DEF mid
            <3>2. ArcLine(s, x0, z0, mid, z, i) \in LineSet
                BY <1>2, <2>3, <2>4, <2>7, <3>1
            <3>3. ArcLine(s, Held(x0, mid), Held(z0, z), x, z, -i) \in LineSet
                BY <2>3, <2>4, <2>5, <2>7, <3>1
            <3> DEFINE one == ArcLine(s, x0, z0, mid, z, i)
                       two == ArcLine(s, Held(x0, mid), Held(z0, z), x, z, -i)
                       q == PostOf(x, Held(Held(z0, z), z), rate, pen)
            <3>4. one \in LineSet /\ two \in LineSet /\ q \in PostSet
                BY <2>6, <3>2, <3>3
            <3>5. WriteCall(s, o, c) = Wrote(<<one, two>>, q)
                BY <2>9, <2>10 DEF mid
            <3> HIDE DEF one, two, q
            <3>6. <<one, two>> \in Seq(LineSet)
                BY <3>4
            <3> QED
                BY <1>2, <3>4, <3>5, <3>6, PageType
        <2>11. CASE ~ (x0 # Unknown /\ x = x0)
            <3> DEFINE one == ArcLine(s, x0, z0, x, z, i)
                       q == PostOf(x, Held(z0, z), rate, pen)
            <3>1. one \in LineSet /\ q \in PostSet
                BY <2>6, <2>8
            <3>2. WriteCall(s, o, c) = Wrote(<<one>>, q)
                BY <2>9, <2>11
            <3> HIDE DEF one, q
            <3>3. <<one>> \in Seq(LineSet)
                BY <3>1
            <3> QED
                BY <1>2, <3>1, <3>2, <3>3, PageType
        <2> QED
            BY <2>10, <2>11
    <1>11. CASE \E x, z \in Near, q, v, n \in Nat : c = Drill(x, z, q, v, n)
        <2>1. PICK x \in Near, z \in Near, q \in Nat, v \in Nat, n \in Nat : c = Drill(x, z, q, v, n)
            BY <1>11
        <2>2. x \in Place /\ z \in Place /\ x # Unknown /\ Retract \in Place
            BY NearIs DEF Place
        <2>3. Emitted(s, Retract) \in Digits
            BY EmittedNear DEF Retract
        <2>4. Word(s, x0, x) \in Digits \cup {Unknown} /\ Word(s, z0, z) \in Digits \cup {Unknown}
            BY <1>2, <1>4, <2>2
        <2>5. "G81" \in Codes
            BY DEF Codes
        <2>6. <<LineOf("G81", Word(s, x0, x), Word(s, z0, z), 0, Emitted(s, Retract), 0, n, "none")>>
              \in Seq(LineSet)
            BY <1>3, <2>3, <2>4, <2>5, LineType
        <2>7. PostOf(x, Retract, rate, pen) \in PostSet
            BY <1>5, <2>2
        <2> HIDE DEF o
        <2>8. WriteCall(s, o, Drill(x, z, q, v, n)) =
                  Wrote(<<LineOf("G81", Word(s, x0, x), Word(s, z0, z), 0, Emitted(s, Retract), 0, n,
                                 "none")>>, PostOf(x, Retract, rate, pen))
            BY <2>2, GcodeDrill DEF o
        <2>9. WriteCall(s, o, Drill(x, z, q, v, n)) \in Page(PostSet)
            BY <2>6, <2>7, <2>8, PageType, Zenon
        <2> QED
            BY <1>2, <2>1, <2>9, Zenon
    <1>12. CASE \E v \in Nat : c = Feedrate(v)
        <2>1. PICK v \in Nat : c = Feedrate(v)
            BY <1>12
        <2>2. Emitted(s, v) \in Nat
            BY DEF Emitted, MmPerInch
        <2>3. "none" \in Codes
            BY DEF Codes
        <2>4. <<LineOf("none", Unknown, Unknown, 0, 0, Emitted(s, v), 0, "none")>> \in Seq(LineSet)
            BY <1>3, <2>2, <2>3, LineType
        <2>5. PostOf(x0, z0, v, pen) \in PostSet
            BY <1>2, PostType
        <2>6. Wrote(<<>>, o) \in Page(PostSet)
            BY <1>3, <1>6, PageType
        <2>7. Wrote(<<LineOf("none", Unknown, Unknown, 0, 0, Emitted(s, v), 0, "none")>>,
                    PostOf(x0, z0, v, pen)) \in Page(PostSet)
            BY <2>4, <2>5, PageType
        <2> HIDE DEF o
        <2>8. WriteCall(s, o, c) \in Page(PostSet)
            BY <2>1, <2>6, <2>7, GcodeFeedrate DEF o
        <2> QED
            BY <1>2, <2>8
    <1>13. ASSUME NEW g \in Codes, NEW x \in Digits \cup {Unknown}, NEW z \in Digits \cup {Unknown},
                  NEW f \in Nat, NEW n \in Nat, NEW id \in Tags, NEW q \in PostSet
           PROVE  Wrote(<<LineOf(g, x, z, 0, 0, f, n, id)>>, q) \in Page(PostSet)
        BY <1>3, LineType, PageType
    <1>14. /\ o \in PostSet /\ PostOf(Unknown, Unknown, rate, pen) \in PostSet
           /\ PostOf(x0, Unknown, rate, pen) \in PostSet
        BY <1>2, <1>3, <1>5
    <1>15. {"G0", "G1", "G4", "G53", "G28", "G38.2", "G92", "G43.1", "OP"} \subseteq Codes
        BY DEF Codes
    <1>16. CASE \E n \in Nat : c = Dwell(n)
        <2>1. PICK n \in Nat : c = Dwell(n)
            BY <1>16
        <2> HIDE DEF o
        <2>2. WriteCall(s, o, Dwell(n)) = Wrote(<<LineOf("G4", Unknown, Unknown, 0, 0, 0, n, "none")>>, o)
            BY GcodePlain DEF o
        <2>3. Wrote(<<LineOf("G4", Unknown, Unknown, 0, 0, 0, n, "none")>>, o) \in Page(PostSet)
            BY <1>3, <1>13, <1>14, <1>15
        <2> QED
            BY <1>2, <2>1, <2>2, <2>3
    <1>17. CASE c = Station
        <2> DEFINE u == PostOf(Unknown, Unknown, rate, pen)
        <2> HIDE DEF o
        <2>1. WriteCall(s, o, Station) = Wrote(<<LineOf("G53", Unknown, Unknown, 0, 0, 0, 0, "none")>>, u)
            BY GcodePlain DEF o
        <2>2. u \in PostSet
            BY <1>14
        <2> HIDE DEF u
        <2>3. Wrote(<<LineOf("G53", Unknown, Unknown, 0, 0, 0, 0, "none")>>, u) \in Page(PostSet)
            BY <1>3, <1>13, <1>15, <2>2
        <2> QED
            BY <1>2, <1>17, <2>1, <2>3
    <1>18. CASE c = Home
        <2> HIDE DEF o
        <2>1. WriteCall(s, o, Home) = Wrote(<<LineOf("G28", Unknown, Unknown, 0, 0, 0, 0, "none")>>, o)
            BY GcodePlain DEF o
        <2>2. Wrote(<<LineOf("G28", Unknown, Unknown, 0, 0, 0, 0, "none")>>, o) \in Page(PostSet)
            BY <1>3, <1>13, <1>14, <1>15
        <2> QED
            BY <1>2, <1>18, <2>1, <2>2
    <1>19. CASE c = ApplyProbed
        <2> DEFINE u == PostOf(x0, Unknown, rate, pen)
        <2> HIDE DEF o
        <2>1. WriteCall(s, o, ApplyProbed) =
                  IF s.post = "grbl" THEN Wrote(<<>>, o)
                  ELSE Wrote(<<LineOf("G43.1", Unknown, Unknown, 0, 0, 0, 0, "none")>>, u)
            BY GcodePlain DEF o
        <2>2. u \in PostSet
            BY <1>14
        <2> HIDE DEF u
        <2>3. Wrote(<<LineOf("G43.1", Unknown, Unknown, 0, 0, 0, 0, "none")>>, u) \in Page(PostSet)
            BY <1>3, <1>13, <1>15, <2>2
        <2>4. Wrote(<<>>, o) \in Page(PostSet)
            BY <1>3, <1>14, PageType
        <2> QED
            BY <1>2, <1>19, <2>1, <2>3, <2>4
    <1>20. CASE \E v \in Nat : c = ProbeZ(v)
        <2>1. PICK v \in Nat : c = ProbeZ(v)
            BY <1>20
        <2> DEFINE u == PostOf(Unknown, Unknown, rate, pen)
        <2> HIDE DEF o
        <2>2. WriteCall(s, o, ProbeZ(v)) = Wrote(<<LineOf("G38.2", Unknown, -4, 0, 0, v, 0, "none")>>, u)
            BY GcodePlain DEF o
        <2>3. u \in PostSet /\ -4 \in Digits \cup {Unknown}
            BY <1>14 DEF Digits
        <2> HIDE DEF u
        <2>4. Wrote(<<LineOf("G38.2", Unknown, -4, 0, 0, v, 0, "none")>>, u) \in Page(PostSet)
            BY <1>3, <1>13, <1>15, <2>3
        <2> QED
            BY <1>2, <2>1, <2>2, <2>4
    <1>21. CASE \E z \in Near : c = SetZ(z)
        <2>1. PICK z \in Near : c = SetZ(z)
            BY <1>21
        <2> DEFINE u == PostOf(x0, Unknown, rate, pen)
                   e == Emitted(s, z)
        <2> HIDE DEF o
        <2>2. WriteCall(s, o, SetZ(z)) = Wrote(<<LineOf("G92", Unknown, e, 0, 0, 0, 0, "none")>>, u)
            BY GcodePlain DEF o
        <2>3. u \in PostSet /\ e \in Digits \cup {Unknown}
            <3>1. z \in -36 .. 36
                BY NearIs
            <3>2. e \in Digits
                BY <3>1, EmittedNear
            <3> QED
                BY <1>14, <3>2
        <2> HIDE DEF u, e
        <2>4. Wrote(<<LineOf("G92", Unknown, e, 0, 0, 0, 0, "none")>>, u) \in Page(PostSet)
            BY <1>3, <1>13, <1>15, <2>3
        <2> QED
            BY <1>2, <2>1, <2>2, <2>4
    <1>22. CASE \E id \in Kinds : c = Marker(id)
        <2>1. PICK id \in Kinds : c = Marker(id)
            BY <1>22
        <2> HIDE DEF o
        <2>2. WriteCall(s, o, Marker(id)) = Wrote(<<LineOf("OP", Unknown, Unknown, 0, 0, 0, 0, id)>>, o)
            BY GcodePlain DEF o
        <2>3. id \in Tags
            BY DEF Tags
        <2>4. Wrote(<<LineOf("OP", Unknown, Unknown, 0, 0, 0, 0, id)>>, o) \in Page(PostSet)
            BY <1>3, <1>13, <1>14, <1>15, <2>3
        <2> QED
            BY <1>2, <2>1, <2>2, <2>4
    <1>23. CASE \E g \in {"G0", "G1"}, x, z \in Place, v \in Nat : c = Raw(g, x, z, v)
        <2>1. PICK g \in {"G0", "G1"}, x \in Place, z \in Place, v \in Nat : c = Raw(g, x, z, v)
            BY <1>23
        <2> HIDE DEF o
        <2>2. WriteCall(s, o, Raw(g, x, z, v)) = Wrote(<<LineOf(g, x, z, 0, 0, v, 0, "none")>>, o)
            BY GcodePlain DEF o
        <2>3. g \in Codes /\ x \in Digits \cup {Unknown} /\ z \in Digits \cup {Unknown}
            BY <1>15, PlaceIs
        <2>4. Wrote(<<LineOf(g, x, z, 0, 0, v, 0, "none")>>, o) \in Page(PostSet)
            BY <1>3, <1>13, <1>14, <2>3
        <2> QED
            BY <1>2, <2>1, <2>2, <2>4
    <1> HIDE DEF o, x0, z0, rate, pen
    <1> QED
        BY <1>8, <1>9, <1>10, <1>11, <1>12, <1>16, <1>17, <1>18, <1>19, <1>20, <1>21, <1>22,
           <1>23, CallCases, Zenon

LEMMA PlotterWriteType ==
    ASSUME NEW s \in Setup, s.post = "hpgl", NEW p \in PostSet, NEW c \in CallSet
    PROVE  WriteCall(s, p, c) \in Page(PostSet)
    <1>1. /\ p = PostOf(p.x, p.z, p.rate, p.pen)
          /\ p.x \in Place /\ p.z \in Place /\ p.rate \in Nat /\ p.pen \in BOOLEAN
        BY PostIs DEF PostSet
    <1> DEFINE x0 == p.x
               z0 == p.z
               rate == p.rate
               pen == p.pen
               o == PostOf(x0, z0, rate, pen)
    <1>2. x0 \in Place /\ z0 \in Place /\ rate \in Nat /\ pen \in BOOLEAN /\ p = o
        BY <1>1
    <1> HIDE DEF x0, z0, rate, pen
    <1>3. /\ Unknown \in Place /\ Unknown \in Digits \cup {Unknown} /\ 0 \in Digits /\ 0 \in Nat
          /\ "none" \in Tags /\ <<>> \in Seq(LineSet)
        BY DEF Place, Digits, Tags
    <1>4. {"PU", "PD", "PA", "VS"} \subseteq Codes
        BY DEF Codes
    <1>5. ASSUME NEW down \in BOOLEAN PROVE PenLines(pen, down) \in Seq(LineSet)
        <2> DEFINE g == IF down THEN "PD" ELSE "PU"
        <2>1. g \in Codes
            BY <1>4
        <2> HIDE DEF g
        <2>2. <<LineOf(g, Unknown, Unknown, 0, 0, 0, 0, "none")>> \in Seq(LineSet)
            BY <1>3, <2>1, LineType
        <2>3. PenLines(pen, down) = IF pen = down THEN <<>>
                                    ELSE <<LineOf(g, Unknown, Unknown, 0, 0, 0, 0, "none")>>
            BY DEF PenLines, g
        <2> QED
            BY <1>3, <2>2, <2>3, Zenon
    <1>6. ASSUME NEW to \in Place, NEW i \in Digits PROVE PlotLines(to, i) \in Seq(LineSet)
        <2>1. to \in Digits \cup {Unknown} /\ "PA" \in Codes
            BY <1>4, PlaceIs
        <2>2. <<LineOf("PA", to, Unknown, i, 0, 0, 0, "none")>> \in Seq(LineSet)
            BY <1>3, <2>1, LineType
        <2> QED
            BY <1>3, <2>2 DEF PlotLines
    <1>7. ASSUME NEW to \in Place, NEW i \in Digits, NEW down \in BOOLEAN
          PROVE  Wrote(PenLines(pen, down) \o PlotLines(to, i), PostOf(to, z0, rate, down))
                 \in Page(PostSet)
        <2> DEFINE ls == PenLines(pen, down)
                   ms == PlotLines(to, i)
        <2>1. ls \in Seq(LineSet) /\ ms \in Seq(LineSet)
            BY <1>5, <1>6
        <2>2. PostOf(to, z0, rate, down) \in PostSet
            BY <1>2, PostType
        <2> HIDE DEF ls, ms
        <2>3. ls \o ms \in Seq(LineSet)
            BY <2>1, ConcatProperties
        <2>4. Wrote(ls \o ms, PostOf(to, z0, rate, down)) \in Page(PostSet)
            BY <2>2, <2>3, PageType
        <2> QED
            BY <2>4 DEF ls, ms
    <1>8. Up \in BOOLEAN /\ Down \in BOOLEAN
        BY DEF Up, Down
    <1>9. o \in PostSet
        BY <1>2, PostType
    <1>10. CASE \E x, z \in Place : c = MoveTo(x, z)
        <2>1. PICK x \in Place, z \in Place : c = MoveTo(x, z)
            BY <1>10
        <2> HIDE DEF o
        <2>2. WriteCall(s, o, MoveTo(x, z)) =
                  Wrote(PenLines(pen, Up) \o PlotLines(Held(x0, x), 0),
                        PostOf(Held(x0, x), z0, rate, Up))
            BY PlotterMoveTo DEF o
        <2>3. Held(x0, x) \in Place
            BY <1>2, HeldPlace
        <2> QED
            BY <1>2, <1>3, <1>7, <1>8, <2>1, <2>2, <2>3
    <1>11. CASE \E x, z \in Place : c = Linear(x, z)
        <2>1. PICK x \in Place, z \in Place : c = Linear(x, z)
            BY <1>11
        <2> HIDE DEF o
        <2>2. WriteCall(s, o, Linear(x, z)) =
                  Wrote(PenLines(pen, Down) \o PlotLines(Held(x0, x), 0),
                        PostOf(Held(x0, x), z0, rate, Down))
            BY PlotterLinear DEF o
        <2>3. Held(x0, x) \in Place
            BY <1>2, HeldPlace
        <2> QED
            BY <1>2, <1>3, <1>7, <1>8, <2>1, <2>2, <2>3
    <1>12. CASE \E x \in Near, z \in Place, i \in Offsets : c = Arc(x, z, i)
        <2>1. PICK x \in Near, z \in Place, i \in Offsets : c = Arc(x, z, i)
            BY <1>12
        <2> DEFINE j == IF x0 = Unknown THEN 0 ELSE i
        <2> HIDE DEF o
        <2>2. WriteCall(s, o, Arc(x, z, i)) =
                  Wrote(PenLines(pen, Down) \o PlotLines(Held(x0, x), j),
                        PostOf(Held(x0, x), z0, rate, Down))
            BY PlotterArc DEF o
        <2>3. Held(x0, x) \in Place /\ j \in Digits
            <3>1. x \in Place
                BY DEF Place
            <3> QED
                BY <1>2, <1>3, <3>1, HeldPlace, PlaceIs
        <2> HIDE DEF j
        <2> QED
            BY <1>2, <1>7, <1>8, <2>1, <2>2, <2>3
    <1>13. CASE \E v \in Nat : c = Feedrate(v)
        <2>1. PICK v \in Nat : c = Feedrate(v)
            BY <1>13
        <2>2. Speed(v) \in Nat
            BY DEF Speed, Biggest
        <2>3. "VS" \in Codes
            BY <1>4
        <2>4. <<LineOf("VS", Unknown, Unknown, 0, 0, Speed(v), 0, "none")>> \in Seq(LineSet)
            BY <1>3, <2>2, <2>3, LineType
        <2>5. PostOf(x0, z0, Speed(v), pen) \in PostSet
            BY <1>2, <2>2, PostType
        <2>6. Wrote(<<>>, o) \in Page(PostSet)
            BY <1>3, <1>9, PageType
        <2>7. Wrote(<<LineOf("VS", Unknown, Unknown, 0, 0, Speed(v), 0, "none")>>,
                    PostOf(x0, z0, Speed(v), pen)) \in Page(PostSet)
            BY <2>4, <2>5, PageType
        <2> HIDE DEF o
        <2>8. WriteCall(s, o, Feedrate(v)) =
                  IF v = 0 \/ Speed(v) = rate THEN Wrote(<<>>, o)
                  ELSE Wrote(<<LineOf("VS", Unknown, Unknown, 0, 0, Speed(v), 0, "none")>>,
                             PostOf(x0, z0, Speed(v), pen))
            BY PlotterFeedrate DEF o
        <2>9. WriteCall(s, o, Feedrate(v)) \in Page(PostSet)
            BY <2>6, <2>7, <2>8, Zenon
        <2> QED
            BY <1>2, <2>1, <2>9, Zenon
    <1>14. CASE c.c \notin {"rapid", "linear", "arc", "feed"}
        <2> HIDE DEF o
        <2>2. WriteCall(s, o, c) = Wrote(<<>>, o)
            BY <1>14, PlotterOther
        <2> QED
            BY <1>2, <1>3, <1>9, <2>2, PageType
    <1> HIDE DEF o, x0, z0, rate, pen
    <1>15. \/ \E x, z \in Place : c = MoveTo(x, z)
           \/ \E x, z \in Place : c = Linear(x, z)
           \/ \E x \in Near, z \in Place, i \in Offsets : c = Arc(x, z, i)
           \/ \E v \in Nat : c = Feedrate(v)
           \/ c.c \notin {"rapid", "linear", "arc", "feed"}
        <2>1. ASSUME NEW k, NEW x, NEW z, NEW i, NEW r, NEW q, NEW v, NEW n, NEW id,
                     k \notin {"rapid", "linear", "arc", "feed"}, c = CallOf(k, x, z, i, r, q, v, n, id)
              PROVE  c.c \notin {"rapid", "linear", "arc", "feed"}
            BY <2>1 DEF CallOf
        <2>2. CASE \E x, z \in Near, q, v, n \in Nat : c = Drill(x, z, q, v, n)
            BY <2>1, <2>2, DrillIs
        <2>3. CASE \E n \in Nat : c = Dwell(n)
            BY <2>1, <2>3, DwellIs
        <2>4. CASE c = Station \/ c = Home \/ c = ApplyProbed
            BY <2>1, <2>4, StationIs, HomeIs, ApplyProbedIs
        <2>5. CASE \E v \in Nat : c = ProbeZ(v)
            BY <2>1, <2>5, ProbeZIs
        <2>6. CASE \E z \in Near : c = SetZ(z)
            BY <2>1, <2>6, SetZIs
        <2>7. CASE \E id \in Kinds : c = Marker(id)
            BY <2>1, <2>7, MarkerIs
        <2>8. CASE \E g \in {"G0", "G1"}, x, z \in Place, v \in Nat : c = Raw(g, x, z, v)
            BY <2>1, <2>8, RawIs
        <2> QED
            BY <2>2, <2>3, <2>4, <2>5, <2>6, <2>7, <2>8, CallCases, Zenon
    <1> QED
        BY <1>10, <1>11, <1>12, <1>13, <1>14, <1>15, Zenon

LEMMA WriteType ==
    ASSUME NEW s \in Setup
    PROVE  Writes(s, PostSet, CallSet)
    BY GcodeWriteType, PlotterWriteType, Zenon DEF Writes

-----------------------------------------------------------------------------
(* What the controller makes of each line *)

Arrived(s, a, w) == IF w = Unknown THEN a ELSE Mm(s, w)
FeedNow(s, f0, f) == IF f = 0 THEN f0 ELSE Mm(s, f)

LEMMA ToolFields ==
    ASSUME NEW x, NEW z, NEW feed, NEW pen
    PROVE  /\ ToolOf(x, z, feed, pen).x = x /\ ToolOf(x, z, feed, pen).z = z
           /\ ToolOf(x, z, feed, pen).feed = feed /\ ToolOf(x, z, feed, pen).pen = pen
    BY DEF ToolOf

LEMMA LineFields ==
    ASSUME NEW g, NEW x, NEW z, NEW i, NEW r, NEW f, NEW p, NEW id
    PROVE  LET l == LineOf(g, x, z, i, r, f, p, id)
           IN /\ l.g = g /\ l.x = x /\ l.z = z /\ l.i = i
              /\ l.r = r /\ l.f = f /\ l.p = p /\ l.id = id
    BY DEF LineOf

\* Where a line takes the tool, and the feed it leaves.
LEMMA ToolGoes ==
    ASSUME NEW x0, NEW z0, NEW f0, NEW pen, NEW x, NEW z, NEW f
    PROVE  Fed(At(ToolOf(x0, z0, f0, pen), x, z), f) = ToolOf(x, z, f, pen)
    <1>1. At(ToolOf(x0, z0, f0, pen), x, z) = ToolOf(x, z, f0, pen)
        BY ToolAt
    <1>2. Fed(ToolOf(x, z, f0, pen), f) = ToolOf(x, z, f, pen)
        BY ToolFed
    <1> QED
        BY <1>1, <1>2

LEMMA RunRapid ==
    ASSUME NEW s, NEW x0, NEW z0, NEW f0, NEW pen, NEW x, NEW z, NEW i, NEW r, NEW f, NEW p, NEW id
    PROVE  RunLine(s, ToolOf(x0, z0, f0, pen), LineOf("G0", x, z, i, r, f, p, id)) =
               Did(Move("rapid", <<x0, z0>>, <<Arrived(s, x0, x), Arrived(s, z0, z)>>, Mm(s, i),
                        0),
                   ToolOf(Arrived(s, x0, x), Arrived(s, z0, z), FeedNow(s, f0, f), pen), 0)
    <1> DEFINE l == LineOf("G0", x, z, i, r, f, p, id)
               m == ToolOf(x0, z0, f0, pen)
               X == Arrived(s, x0, x)
               Z == Arrived(s, z0, z)
               F == FeedNow(s, f0, f)
               R == Mm(s, r)
    <1>1. /\ l.g = "G0" /\ l.x = x /\ l.z = z /\ l.i = i
          /\ l.r = r /\ l.f = f /\ l.p = p
        BY LineFields
    <1>2. m.x = x0 /\ m.z = z0 /\ m.feed = f0 /\ m.pen = pen
        BY ToolFields
    <1>3. Fed(At(m, X, Z), F) = ToolOf(X, Z, F, pen)
        BY ToolGoes, ToolAt, ToolFed
    <1> HIDE DEF l, m
    <1>4. RunLine(s, m, l) =
              Did(Move("rapid", <<x0, z0>>, <<X, Z>>, Mm(s, i), 0), Fed(At(m, X, Z), F), 0)
        BY <1>1, <1>2 DEF RunLine, Arrived, FeedNow
    <1> HIDE DEF X, Z, F, R
    <1>5. RunLine(s, m, l) =
              Did(Move("rapid", <<x0, z0>>, <<X, Z>>, Mm(s, i), 0), ToolOf(X, Z, F, pen), 0)
        BY <1>3, <1>4
    <1> QED
        BY <1>5 DEF l, m, X, Z, F, R

LEMMA RunCut ==
    ASSUME NEW s, NEW x0, NEW z0, NEW f0, NEW pen, NEW x, NEW z, NEW i, NEW r, NEW f, NEW p, NEW id
    PROVE  RunLine(s, ToolOf(x0, z0, f0, pen), LineOf("G1", x, z, i, r, f, p, id)) =
               Did(Move(CutKind(<<x0, z0>>, <<Arrived(s, x0, x), Arrived(s, z0, z)>>),
                        <<x0, z0>>, <<Arrived(s, x0, x), Arrived(s, z0, z)>>, Mm(s, i),
                        FeedNow(s, f0, f)),
                   ToolOf(Arrived(s, x0, x), Arrived(s, z0, z), FeedNow(s, f0, f), pen), 0)
    <1> DEFINE l == LineOf("G1", x, z, i, r, f, p, id)
               m == ToolOf(x0, z0, f0, pen)
               X == Arrived(s, x0, x)
               Z == Arrived(s, z0, z)
               F == FeedNow(s, f0, f)
               R == Mm(s, r)
    <1>1. /\ l.g = "G1" /\ l.x = x /\ l.z = z /\ l.i = i
          /\ l.r = r /\ l.f = f /\ l.p = p
        BY LineFields
    <1>2. m.x = x0 /\ m.z = z0 /\ m.feed = f0 /\ m.pen = pen
        BY ToolFields
    <1>3. Fed(At(m, X, Z), F) = ToolOf(X, Z, F, pen)
        BY ToolGoes, ToolAt, ToolFed
    <1>4. CutKind(<<x0, z0>>, <<X, Z>>) # "rapid"
        BY DEF CutKind
    <1> HIDE DEF l, m
    <1>5. RunLine(s, m, l) =
              Did(Move(CutKind(<<x0, z0>>, <<X, Z>>), <<x0, z0>>, <<X, Z>>, Mm(s, i), F),
                  Fed(At(m, X, Z), F), 0)
        BY <1>1, <1>2, <1>4 DEF RunLine, Arrived, FeedNow
    <1> HIDE DEF X, Z, F, R
    <1>6. RunLine(s, m, l) =
              Did(Move(CutKind(<<x0, z0>>, <<X, Z>>), <<x0, z0>>, <<X, Z>>, Mm(s, i), F),
                  ToolOf(X, Z, F, pen), 0)
        BY <1>3, <1>5
    <1> QED
        BY <1>6 DEF l, m, X, Z, F, R

LEMMA RunArc ==
    ASSUME NEW s, NEW x0, NEW z0, NEW f0, NEW pen, NEW x, NEW z, NEW i, NEW r, NEW f, NEW p, NEW id
    PROVE  RunLine(s, ToolOf(x0, z0, f0, pen), LineOf("G2", x, z, i, r, f, p, id)) =
               Did(Move("arc", <<x0, z0>>, <<Arrived(s, x0, x), Arrived(s, z0, z)>>, Mm(s, i),
                        FeedNow(s, f0, f)),
                   ToolOf(Arrived(s, x0, x), Arrived(s, z0, z), FeedNow(s, f0, f), pen), 0)
    <1> DEFINE l == LineOf("G2", x, z, i, r, f, p, id)
               m == ToolOf(x0, z0, f0, pen)
               X == Arrived(s, x0, x)
               Z == Arrived(s, z0, z)
               F == FeedNow(s, f0, f)
               R == Mm(s, r)
    <1>1. /\ l.g = "G2" /\ l.x = x /\ l.z = z /\ l.i = i
          /\ l.r = r /\ l.f = f /\ l.p = p
        BY LineFields
    <1>2. m.x = x0 /\ m.z = z0 /\ m.feed = f0 /\ m.pen = pen
        BY ToolFields
    <1>3. Fed(At(m, X, Z), F) = ToolOf(X, Z, F, pen)
        BY ToolGoes, ToolAt, ToolFed
    <1> HIDE DEF l, m
    <1>4. RunLine(s, m, l) =
              Did(Move("arc", <<x0, z0>>, <<X, Z>>, Mm(s, i), F), Fed(At(m, X, Z), F), 0)
        BY <1>1, <1>2 DEF RunLine, Arrived, FeedNow
    <1> HIDE DEF X, Z, F, R
    <1>5. RunLine(s, m, l) =
              Did(Move("arc", <<x0, z0>>, <<X, Z>>, Mm(s, i), F), ToolOf(X, Z, F, pen), 0)
        BY <1>3, <1>4
    <1> QED
        BY <1>5 DEF l, m, X, Z, F, R

LEMMA RunCycle ==
    ASSUME NEW s, NEW x0, NEW z0, NEW f0, NEW pen, NEW x, NEW z, NEW i, NEW r, NEW f, NEW p, NEW id
    PROVE  RunLine(s, ToolOf(x0, z0, f0, pen), LineOf("G81", x, z, i, r, f, p, id)) =
               Did(DrillMoves("none", <<x0, z0>>, Arrived(s, x0, x), Arrived(s, z0, z),
                              Mm(s, r), FeedNow(s, f0, f)),
                   ToolOf(Arrived(s, x0, x), Mm(s, r), f0, pen), p)
    <1> DEFINE l == LineOf("G81", x, z, i, r, f, p, id)
               m == ToolOf(x0, z0, f0, pen)
               X == Arrived(s, x0, x)
               Z == Arrived(s, z0, z)
               F == FeedNow(s, f0, f)
               R == Mm(s, r)
    <1>1. /\ l.g = "G81" /\ l.x = x /\ l.z = z /\ l.i = i
          /\ l.r = r /\ l.f = f /\ l.p = p
        BY LineFields
    <1>2. m.x = x0 /\ m.z = z0 /\ m.feed = f0 /\ m.pen = pen
        BY ToolFields
    <1>3. At(m, X, R) = ToolOf(X, R, f0, pen)
        BY ToolGoes, ToolAt, ToolFed
    <1> HIDE DEF l, m
    <1>4. RunLine(s, m, l) = Did(DrillMoves("none", <<x0, z0>>, X, Z, R, F), At(m, X, R), p)
        BY <1>1, <1>2 DEF RunLine, Arrived, FeedNow
    <1> HIDE DEF X, Z, F, R
    <1>5. RunLine(s, m, l) =
              Did(DrillMoves("none", <<x0, z0>>, X, Z, R, F), ToolOf(X, R, f0, pen), p)
        BY <1>3, <1>4
    <1> QED
        BY <1>5 DEF l, m, X, Z, F, R

LEMMA RunDwell ==
    ASSUME NEW s, NEW x0, NEW z0, NEW f0, NEW pen, NEW x, NEW z, NEW i, NEW r, NEW f, NEW p, NEW id
    PROVE  RunLine(s, ToolOf(x0, z0, f0, pen), LineOf("G4", x, z, i, r, f, p, id)) =
               Did(<<>>,
                   ToolOf(x0, z0, f0, pen), p)
    <1> DEFINE l == LineOf("G4", x, z, i, r, f, p, id)
               m == ToolOf(x0, z0, f0, pen)
               X == Arrived(s, x0, x)
               Z == Arrived(s, z0, z)
               F == FeedNow(s, f0, f)
               R == Mm(s, r)
    <1>1. /\ l.g = "G4" /\ l.x = x /\ l.z = z /\ l.i = i
          /\ l.r = r /\ l.f = f /\ l.p = p
        BY LineFields
    <1>2. m.x = x0 /\ m.z = z0 /\ m.feed = f0 /\ m.pen = pen
        BY ToolFields
    <1>3. m = ToolOf(x0, z0, f0, pen)
        BY ToolGoes, ToolAt, ToolFed
    <1> HIDE DEF l, m
    <1>4. RunLine(s, m, l) = Did(<<>>, m, p)
        BY <1>1, <1>2 DEF RunLine, Arrived, FeedNow
    <1> HIDE DEF X, Z, F, R
    <1>5. RunLine(s, m, l) = Did(<<>>, ToolOf(x0, z0, f0, pen), p)
        BY <1>3, <1>4
    <1> QED
        BY <1>5 DEF l, m, X, Z, F, R

LEMMA RunStation ==
    ASSUME NEW s, NEW x0, NEW z0, NEW f0, NEW pen, NEW x, NEW z, NEW i, NEW r, NEW f, NEW p, NEW id
    PROVE  RunLine(s, ToolOf(x0, z0, f0, pen), LineOf("G53", x, z, i, r, f, p, id)) =
               Did(<<>>,
                   ToolOf(Unknown, Unknown, FeedNow(s, f0, f), pen), 0)
    <1> DEFINE l == LineOf("G53", x, z, i, r, f, p, id)
               m == ToolOf(x0, z0, f0, pen)
               X == Arrived(s, x0, x)
               Z == Arrived(s, z0, z)
               F == FeedNow(s, f0, f)
               R == Mm(s, r)
    <1>1. /\ l.g = "G53" /\ l.x = x /\ l.z = z /\ l.i = i
          /\ l.r = r /\ l.f = f /\ l.p = p
        BY LineFields
    <1>2. m.x = x0 /\ m.z = z0 /\ m.feed = f0 /\ m.pen = pen
        BY ToolFields
    <1>3. Fed(At(m, Unknown, Unknown), F) = ToolOf(Unknown, Unknown, F, pen)
        BY ToolGoes, ToolAt, ToolFed
    <1> HIDE DEF l, m
    <1>4. RunLine(s, m, l) = Did(<<>>, Fed(At(m, Unknown, Unknown), F), 0)
        BY <1>1, <1>2 DEF RunLine, Arrived, FeedNow
    <1> HIDE DEF X, Z, F, R
    <1>5. RunLine(s, m, l) = Did(<<>>, ToolOf(Unknown, Unknown, F, pen), 0)
        BY <1>3, <1>4
    <1> QED
        BY <1>5 DEF l, m, X, Z, F, R

LEMMA RunHome ==
    ASSUME NEW s, NEW x0, NEW z0, NEW f0, NEW pen, NEW x, NEW z, NEW i, NEW r, NEW f, NEW p, NEW id
    PROVE  RunLine(s, ToolOf(x0, z0, f0, pen), LineOf("G28", x, z, i, r, f, p, id)) =
               Did(<<>>,
                   ToolOf(Unknown, Unknown, FeedNow(s, f0, f), pen), 0)
    <1> DEFINE l == LineOf("G28", x, z, i, r, f, p, id)
               m == ToolOf(x0, z0, f0, pen)
               X == Arrived(s, x0, x)
               Z == Arrived(s, z0, z)
               F == FeedNow(s, f0, f)
               R == Mm(s, r)
    <1>1. /\ l.g = "G28" /\ l.x = x /\ l.z = z /\ l.i = i
          /\ l.r = r /\ l.f = f /\ l.p = p
        BY LineFields
    <1>2. m.x = x0 /\ m.z = z0 /\ m.feed = f0 /\ m.pen = pen
        BY ToolFields
    <1>3. Fed(At(m, Unknown, Unknown), F) = ToolOf(Unknown, Unknown, F, pen)
        BY ToolGoes, ToolAt, ToolFed
    <1> HIDE DEF l, m
    <1>4. RunLine(s, m, l) = Did(<<>>, Fed(At(m, Unknown, Unknown), F), 0)
        BY <1>1, <1>2 DEF RunLine, Arrived, FeedNow
    <1> HIDE DEF X, Z, F, R
    <1>5. RunLine(s, m, l) = Did(<<>>, ToolOf(Unknown, Unknown, F, pen), 0)
        BY <1>3, <1>4
    <1> QED
        BY <1>5 DEF l, m, X, Z, F, R

LEMMA RunProbe ==
    ASSUME NEW s, NEW x0, NEW z0, NEW f0, NEW pen, NEW x, NEW z, NEW i, NEW r, NEW f, NEW p, NEW id
    PROVE  RunLine(s, ToolOf(x0, z0, f0, pen), LineOf("G38.2", x, z, i, r, f, p, id)) =
               Did(Move("probe", <<x0, z0>>, <<x0, Unknown>>, 0, FeedNow(s, f0, f)),
                   ToolOf(x0, Unknown, FeedNow(s, f0, f), pen), 0)
    <1> DEFINE l == LineOf("G38.2", x, z, i, r, f, p, id)
               m == ToolOf(x0, z0, f0, pen)
               X == Arrived(s, x0, x)
               Z == Arrived(s, z0, z)
               F == FeedNow(s, f0, f)
               R == Mm(s, r)
    <1>1. /\ l.g = "G38.2" /\ l.x = x /\ l.z = z /\ l.i = i
          /\ l.r = r /\ l.f = f /\ l.p = p
        BY LineFields
    <1>2. m.x = x0 /\ m.z = z0 /\ m.feed = f0 /\ m.pen = pen
        BY ToolFields
    <1>3. Fed(At(m, x0, Unknown), F) = ToolOf(x0, Unknown, F, pen)
        BY ToolGoes, ToolAt, ToolFed
    <1> HIDE DEF l, m
    <1>4. RunLine(s, m, l) =
              Did(Move("probe", <<x0, z0>>, <<x0, Unknown>>, 0, F), Fed(At(m, x0, Unknown), F), 0)
        BY <1>1, <1>2 DEF RunLine, Arrived, FeedNow
    <1> HIDE DEF X, Z, F, R
    <1>5. RunLine(s, m, l) =
              Did(Move("probe", <<x0, z0>>, <<x0, Unknown>>, 0, F), ToolOf(x0, Unknown, F, pen),
                  0)
        BY <1>3, <1>4
    <1> QED
        BY <1>5 DEF l, m, X, Z, F, R

LEMMA RunOffset ==
    ASSUME NEW s, NEW x0, NEW z0, NEW f0, NEW pen, NEW x, NEW z, NEW i, NEW r, NEW f, NEW p, NEW id
    PROVE  RunLine(s, ToolOf(x0, z0, f0, pen), LineOf("G43.1", x, z, i, r, f, p, id)) =
               Did(<<>>,
                   ToolOf(x0, Unknown, FeedNow(s, f0, f), pen), 0)
    <1> DEFINE l == LineOf("G43.1", x, z, i, r, f, p, id)
               m == ToolOf(x0, z0, f0, pen)
               X == Arrived(s, x0, x)
               Z == Arrived(s, z0, z)
               F == FeedNow(s, f0, f)
               R == Mm(s, r)
    <1>1. /\ l.g = "G43.1" /\ l.x = x /\ l.z = z /\ l.i = i
          /\ l.r = r /\ l.f = f /\ l.p = p
        BY LineFields
    <1>2. m.x = x0 /\ m.z = z0 /\ m.feed = f0 /\ m.pen = pen
        BY ToolFields
    <1>3. Fed(At(m, x0, Unknown), F) = ToolOf(x0, Unknown, F, pen)
        BY ToolGoes, ToolAt, ToolFed
    <1> HIDE DEF l, m
    <1>4. RunLine(s, m, l) = Did(<<>>, Fed(At(m, x0, Unknown), F), 0)
        BY <1>1, <1>2 DEF RunLine, Arrived, FeedNow
    <1> HIDE DEF X, Z, F, R
    <1>5. RunLine(s, m, l) = Did(<<>>, ToolOf(x0, Unknown, F, pen), 0)
        BY <1>3, <1>4
    <1> QED
        BY <1>5 DEF l, m, X, Z, F, R

LEMMA RunSetZ ==
    ASSUME NEW s, NEW x0, NEW z0, NEW f0, NEW pen, NEW x, NEW z, NEW i, NEW r, NEW f, NEW p, NEW id
    PROVE  RunLine(s, ToolOf(x0, z0, f0, pen), LineOf("G92", x, z, i, r, f, p, id)) =
               Did(<<>>,
                   ToolOf(x0, Arrived(s, z0, z), FeedNow(s, f0, f), pen), 0)
    <1> DEFINE l == LineOf("G92", x, z, i, r, f, p, id)
               m == ToolOf(x0, z0, f0, pen)
               X == Arrived(s, x0, x)
               Z == Arrived(s, z0, z)
               F == FeedNow(s, f0, f)
               R == Mm(s, r)
    <1>1. /\ l.g = "G92" /\ l.x = x /\ l.z = z /\ l.i = i
          /\ l.r = r /\ l.f = f /\ l.p = p
        BY LineFields
    <1>2. m.x = x0 /\ m.z = z0 /\ m.feed = f0 /\ m.pen = pen
        BY ToolFields
    <1>3. Fed(At(m, x0, Z), F) = ToolOf(x0, Z, F, pen)
        BY ToolGoes, ToolAt, ToolFed
    <1> HIDE DEF l, m
    <1>4. RunLine(s, m, l) = Did(<<>>, Fed(At(m, x0, Z), F), 0)
        BY <1>1, <1>2 DEF RunLine, Arrived, FeedNow
    <1> HIDE DEF X, Z, F, R
    <1>5. RunLine(s, m, l) = Did(<<>>, ToolOf(x0, Z, F, pen), 0)
        BY <1>3, <1>4
    <1> QED
        BY <1>5 DEF l, m, X, Z, F, R

LEMMA RunBare ==
    ASSUME NEW s, NEW x0, NEW z0, NEW f0, NEW pen, NEW x, NEW z, NEW i, NEW r, NEW f, NEW p, NEW id
    PROVE  RunLine(s, ToolOf(x0, z0, f0, pen), LineOf("none", x, z, i, r, f, p, id)) =
               Did(<<>>,
                   ToolOf(x0, z0, FeedNow(s, f0, f), pen), 0)
    <1> DEFINE l == LineOf("none", x, z, i, r, f, p, id)
               m == ToolOf(x0, z0, f0, pen)
               X == Arrived(s, x0, x)
               Z == Arrived(s, z0, z)
               F == FeedNow(s, f0, f)
               R == Mm(s, r)
    <1>1. /\ l.g = "none" /\ l.x = x /\ l.z = z /\ l.i = i
          /\ l.r = r /\ l.f = f /\ l.p = p
        BY LineFields
    <1>2. m.x = x0 /\ m.z = z0 /\ m.feed = f0 /\ m.pen = pen
        BY ToolFields
    <1>3. Fed(At(m, x0, z0), F) = ToolOf(x0, z0, F, pen)
        BY ToolGoes, ToolAt, ToolFed
    <1> HIDE DEF l, m
    <1>4. RunLine(s, m, l) = Did(<<>>, Fed(At(m, x0, z0), F), 0)
        BY <1>1, <1>2 DEF RunLine, Arrived, FeedNow
    <1> HIDE DEF X, Z, F, R
    <1>5. RunLine(s, m, l) = Did(<<>>, ToolOf(x0, z0, F, pen), 0)
        BY <1>3, <1>4
    <1> QED
        BY <1>5 DEF l, m, X, Z, F, R

LEMMA RunMarker ==
    ASSUME NEW s, NEW x0, NEW z0, NEW f0, NEW pen, NEW x, NEW z, NEW i, NEW r, NEW f, NEW p, NEW id
    PROVE  RunLine(s, ToolOf(x0, z0, f0, pen), LineOf("OP", x, z, i, r, f, p, id)) =
               Did(<<>>,
                   ToolOf(x0, z0, FeedNow(s, f0, f), pen), 0)
    <1> DEFINE l == LineOf("OP", x, z, i, r, f, p, id)
               m == ToolOf(x0, z0, f0, pen)
               X == Arrived(s, x0, x)
               Z == Arrived(s, z0, z)
               F == FeedNow(s, f0, f)
               R == Mm(s, r)
    <1>1. /\ l.g = "OP" /\ l.x = x /\ l.z = z /\ l.i = i
          /\ l.r = r /\ l.f = f /\ l.p = p
        BY LineFields
    <1>2. m.x = x0 /\ m.z = z0 /\ m.feed = f0 /\ m.pen = pen
        BY ToolFields
    <1>3. Fed(At(m, x0, z0), F) = ToolOf(x0, z0, F, pen)
        BY ToolGoes, ToolAt, ToolFed
    <1> HIDE DEF l, m
    <1>4. RunLine(s, m, l) = Did(<<>>, Fed(At(m, x0, z0), F), 0)
        BY <1>1, <1>2 DEF RunLine, Arrived, FeedNow
    <1> HIDE DEF X, Z, F, R
    <1>5. RunLine(s, m, l) = Did(<<>>, ToolOf(x0, z0, F, pen), 0)
        BY <1>3, <1>4
    <1> QED
        BY <1>5 DEF l, m, X, Z, F, R

LEMMA RunSpeed ==
    ASSUME NEW s, NEW x0, NEW z0, NEW f0, NEW pen, NEW x, NEW z, NEW i, NEW r, NEW f, NEW p, NEW id
    PROVE  RunLine(s, ToolOf(x0, z0, f0, pen), LineOf("VS", x, z, i, r, f, p, id)) =
               Did(<<>>,
                   ToolOf(x0, z0, FeedNow(s, f0, f), pen), 0)
    <1> DEFINE l == LineOf("VS", x, z, i, r, f, p, id)
               m == ToolOf(x0, z0, f0, pen)
               X == Arrived(s, x0, x)
               Z == Arrived(s, z0, z)
               F == FeedNow(s, f0, f)
               R == Mm(s, r)
    <1>1. /\ l.g = "VS" /\ l.x = x /\ l.z = z /\ l.i = i
          /\ l.r = r /\ l.f = f /\ l.p = p
        BY LineFields
    <1>2. m.x = x0 /\ m.z = z0 /\ m.feed = f0 /\ m.pen = pen
        BY ToolFields
    <1>3. Fed(At(m, x0, z0), F) = ToolOf(x0, z0, F, pen)
        BY ToolGoes, ToolAt, ToolFed
    <1> HIDE DEF l, m
    <1>4. RunLine(s, m, l) = Did(<<>>, Fed(At(m, x0, z0), F), 0)
        BY <1>1, <1>2 DEF RunLine, Arrived, FeedNow
    <1> HIDE DEF X, Z, F, R
    <1>5. RunLine(s, m, l) = Did(<<>>, ToolOf(x0, z0, F, pen), 0)
        BY <1>3, <1>4
    <1> QED
        BY <1>5 DEF l, m, X, Z, F, R

LEMMA RunPen ==
    ASSUME NEW s, NEW x0, NEW z0, NEW f0, NEW pen
    PROVE  /\ RunLine(s, ToolOf(x0, z0, f0, pen),
                      LineOf("PU", Unknown, Unknown, 0, 0, 0, 0, "none"))
                  = Did(<<>>, ToolOf(x0, z0, f0, Up), 0)
           /\ RunLine(s, ToolOf(x0, z0, f0, pen),
                      LineOf("PD", Unknown, Unknown, 0, 0, 0, 0, "none"))
                  = Did(<<>>, ToolOf(x0, z0, f0, Down), 0)
    <1> DEFINE u == LineOf("PU", Unknown, Unknown, 0, 0, 0, 0, "none")
               d == LineOf("PD", Unknown, Unknown, 0, 0, 0, 0, "none")
               m == ToolOf(x0, z0, f0, pen)
    <1>1. u.g = "PU" /\ d.g = "PD"
        BY DEF LineOf
    <1>2. \A b : [m EXCEPT !.pen = b] = ToolOf(x0, z0, f0, b)
        BY DEF ToolOf
    <1> HIDE DEF u, d, m
    <1>3. RunLine(s, m, u) = Did(<<>>, [m EXCEPT !.pen = u.g = "PD"], 0)
        BY <1>1 DEF RunLine
    <1>4. RunLine(s, m, d) = Did(<<>>, [m EXCEPT !.pen = d.g = "PD"], 0)
        BY <1>1 DEF RunLine
    <1>5. (u.g = "PD") = Up /\ (d.g = "PD") = Down
        BY <1>1 DEF Up, Down
    <1> QED
        BY <1>2, <1>3, <1>4, <1>5, Zenon DEF u, d, m

LEMMA RunPlot ==
    ASSUME NEW s, NEW x0, NEW z0, NEW f0, NEW pen \in BOOLEAN, NEW x, NEW i
    PROVE  RunLine(s, ToolOf(x0, z0, f0, pen), LineOf("PA", x, Unknown, i, 0, 0, 0, "none")) =
               Did(Move(IF i # 0 THEN "arc" ELSE IF pen THEN "cut" ELSE "rapid",
                        <<x0, z0>>, <<Arrived(s, x0, x), z0>>, i, IF pen THEN f0 ELSE 0),
                   ToolOf(Arrived(s, x0, x), z0, f0, pen), 0)
    <1> DEFINE l == LineOf("PA", x, Unknown, i, 0, 0, 0, "none")
               m == ToolOf(x0, z0, f0, pen)
               X == Arrived(s, x0, x)
    <1>1. l.g = "PA" /\ l.x = x /\ l.z = Unknown /\ l.i = i /\ l.f = 0
        BY LineFields
    <1>2. m.x = x0 /\ m.z = z0 /\ m.feed = f0 /\ m.pen = pen
        BY ToolFields
    <1>3. [m EXCEPT !.x = X] = ToolOf(X, z0, f0, pen)
        BY DEF ToolOf
    <1> HIDE DEF l, m
    <1>4. RunLine(s, m, l) =
              Did(Move(IF i # 0 THEN "arc" ELSE IF m.pen THEN "cut" ELSE "rapid",
                       <<x0, z0>>, <<X, z0>>, i, IF m.pen THEN f0 ELSE 0), [m EXCEPT !.x = X], 0)
        BY <1>1, <1>2 DEF RunLine, Arrived
    <1> HIDE DEF X
    <1> QED
        BY <1>2, <1>3, <1>4, Zenon DEF l, m, X

\* From a place a party can be, a line or a call makes moves and leaves it at one.
LEMMA ToolType ==
    ASSUME NEW x \in Int, NEW z \in Int, NEW feed \in Nat, NEW pen \in BOOLEAN
    PROVE  ToolOf(x, z, feed, pen) \in Tool
    BY DEF ToolOf, Tool

LEMMA MmType ==
    ASSUME NEW s
    PROVE  /\ \A v \in Int : Mm(s, v) \in Int
           /\ \A v \in Nat : Mm(s, v) \in Nat
    BY DEF Mm, MmPerInch

LEMMA MoveType ==
    ASSUME NEW kind \in MoveKinds, NEW from \in Int \X Int, NEW to \in Int \X Int, NEW i \in Int,
           NEW feed \in Nat
    PROVE  Move(kind, from, to, i, feed) \in Seq(MoveSet)
    <1>1. "none" \in Tags
        BY DEF Tags
    <1> QED
        BY <1>1, TaggedType DEF Move

LEMMA DrillMovesType ==
    ASSUME NEW op \in Tags, NEW from \in Int \X Int, NEW x \in Int, NEW z \in Int, NEW r \in Int,
           NEW feed \in Nat
    PROVE  DrillMoves(op, from, x, z, r, feed) \in Seq(MoveSet)
    <1> DEFINE above == <<x, from[2]>>
               deep == <<x, z>>
               up == <<x, r>>
    <1>1. above \in Int \X Int /\ deep \in Int \X Int /\ up \in Int \X Int
        OBVIOUS
    <1>2. {"rapid", "plunge", "retract"} \subseteq MoveKinds /\ 0 \in Int /\ 0 \in Nat
        BY DEF MoveKinds
    <1> HIDE DEF above, deep, up
    <1> DEFINE a == Tagged(op, "rapid", from, above, 0, 0)
               b == Tagged(op, "plunge", above, deep, 0, feed)
               c == Tagged(op, "retract", deep, up, 0, feed)
    <1>3. a \in Seq(MoveSet) /\ b \in Seq(MoveSet) /\ c \in Seq(MoveSet)
        BY <1>1, <1>2, TaggedType
    <1> HIDE DEF a, b, c
    <1>4. a \o b \o c \in Seq(MoveSet)
        BY <1>3, ConcatProperties
    <1> QED
        BY <1>4 DEF DrillMoves, a, b, c, above, deep, up

LEMMA RunType ==
    ASSUME NEW s \in Setup
    PROVE  Reads("run", s, Tool, LineSet)
    <1> SUFFICES ASSUME NEW m \in Tool, NEW l \in LineSet
                 PROVE  RunLine(s, m, l) \in Outcome(Tool)
        BY DEF Reads, Made
    <1> DEFINE from == <<m.x, m.z>>
               X == IF l.x = Unknown THEN m.x ELSE Mm(s, l.x)
               Z == IF l.z = Unknown THEN m.z ELSE Mm(s, l.z)
               to == <<X, Z>>
               f == IF l.f = 0 THEN m.feed ELSE Mm(s, l.f)
    <1>1. m.x \in Int /\ m.z \in Int /\ m.feed \in Nat /\ m.pen \in BOOLEAN
        BY DEF Tool
    <1>2. /\ l.x \in Int /\ l.z \in Int /\ l.i \in Int /\ l.r \in Int /\ l.f \in Nat /\ l.p \in Nat
          /\ l.g \in Codes
        BY DEF LineSet, Digits, Unknown
    <1>3. /\ X \in Int /\ Z \in Int /\ f \in Nat /\ Mm(s, l.i) \in Int /\ Mm(s, l.r) \in Int
        BY <1>1, <1>2, MmType
    <1>4. from \in Int \X Int /\ to \in Int \X Int /\ <<m.x, Unknown>> \in Int \X Int
          /\ Unknown \in Int /\ 0 \in Nat /\ 0 \in Int
        BY <1>1, <1>3 DEF Unknown
    <1>5. to[1] = X /\ to[2] = Z
        OBVIOUS
    <1>6. <<>> \in Seq(MoveSet)
        OBVIOUS
    <1>7. CutKind(from, to) \in MoveKinds
        BY DEF CutKind, MoveKinds
    <1>8. {"rapid", "arc", "probe", "cut"} \subseteq MoveKinds
        BY DEF MoveKinds
    <1> HIDE DEF from, X, Z, to, f
    <1>9. ASSUME NEW x \in Int, NEW z \in Int, NEW g \in Nat
          PROVE  /\ Fed(At(m, x, z), g) \in Tool /\ At(m, x, z) \in Tool
        <2> DEFINE a == [m EXCEPT !.x = x]
        <2>1. a \in Tool
            BY DEF Tool
        <2> HIDE DEF a
        <2> DEFINE b == [a EXCEPT !.z = z]
        <2>2. b \in Tool
            BY <2>1 DEF Tool
        <2> HIDE DEF b
        <2>3. [b EXCEPT !.feed = g] \in Tool
            BY <2>2 DEF Tool
        <2>4. At(m, x, z) = b
            BY DEF At, a, b
        <2> QED
            BY <2>2, <2>3, <2>4 DEF Fed
    <1>10. /\ [m EXCEPT !.x = X] \in Tool /\ \A b \in BOOLEAN : [m EXCEPT !.pen = b] \in Tool
        BY <1>3 DEF Tool
    <1>11. ASSUME NEW kind \in MoveKinds, NEW q \in Int \X Int, NEW i \in Int, NEW g \in Nat,
                  NEW a \in Tool
           PROVE  Did(Move(kind, from, q, i, g), a, 0) \in Outcome(Tool)
        BY <1>4, <1>11, MoveType, DidType
    <1>12. ASSUME NEW a \in Tool, NEW n \in Nat PROVE Did(<<>>, a, n) \in Outcome(Tool)
        BY <1>6, DidType
    <1>13. CASE l.g = "G0"
        <2>1. RunLine(s, m, l) = Did(Move("rapid", from, to, Mm(s, l.i), 0), Fed(At(m, X, Z), f), 0)
            BY <1>5, <1>13 DEF RunLine, from, to, X, Z, f
        <2> QED
            BY <1>3, <1>4, <1>8, <1>9, <1>11, <2>1
    <1>14. CASE l.g = "G1"
        <2>1. CutKind(from, to) # "rapid"
            BY DEF CutKind
        <2>2. RunLine(s, m, l) = Did(Move(CutKind(from, to), from, to, Mm(s, l.i), f),
                                     Fed(At(m, X, Z), f), 0)
            BY <1>5, <1>14, <2>1 DEF RunLine, from, to, X, Z, f
        <2> DEFINE kind == CutKind(from, to)
                   a == Fed(At(m, X, Z), f)
        <2>3. kind \in MoveKinds /\ a \in Tool
            BY <1>3, <1>7, <1>9
        <2> HIDE DEF kind, a
        <2>4. Did(Move(kind, from, to, Mm(s, l.i), f), a, 0) \in Outcome(Tool)
            BY <1>3, <1>4, <1>11, <2>3
        <2> QED
            BY <2>2, <2>4 DEF kind, a
    <1>15. CASE l.g = "G2"
        <2>1. RunLine(s, m, l) = Did(Move("arc", from, to, Mm(s, l.i), f), Fed(At(m, X, Z), f), 0)
            BY <1>5, <1>15 DEF RunLine, from, to, X, Z, f
        <2> QED
            BY <1>3, <1>4, <1>8, <1>9, <1>11, <2>1
    <1>16. CASE l.g = "G81"
        <2> DEFINE R == Mm(s, l.r)
        <2>1. RunLine(s, m, l) = Did(DrillMoves("none", from, X, Z, R, f), At(m, X, R), l.p)
            BY <1>5, <1>16 DEF RunLine, from, to, X, Z, f
        <2>2. R \in Int /\ "none" \in Tags
            BY <1>3 DEF Tags
        <2> HIDE DEF R
        <2>3. DrillMoves("none", from, X, Z, R, f) \in Seq(MoveSet)
            BY <1>3, <1>4, <2>2, DrillMovesType
        <2>4. At(m, X, R) \in Tool
            BY <1>3, <1>4, <1>9, <2>2
        <2> QED
            BY <1>2, <2>1, <2>3, <2>4, DidType
    <1>17. CASE l.g = "G4"
        <2>1. RunLine(s, m, l) = Did(<<>>, m, l.p)
            BY <1>17 DEF RunLine
        <2> QED
            BY <1>2, <1>12, <2>1
    <1>18. CASE l.g \in {"G53", "G28"}
        <2>1. RunLine(s, m, l) = Did(<<>>, Fed(At(m, Unknown, Unknown), f), 0)
            BY <1>18 DEF RunLine, f
        <2> QED
            BY <1>3, <1>4, <1>9, <1>12, <2>1
    <1>19. CASE l.g = "G38.2"
        <2>1. RunLine(s, m, l) = Did(Move("probe", from, <<m.x, Unknown>>, 0, f),
                                     Fed(At(m, m.x, Unknown), f), 0)
            BY <1>19 DEF RunLine, from, f
        <2> QED
            BY <1>1, <1>3, <1>4, <1>8, <1>9, <1>11, <2>1
    <1>20. CASE l.g = "G43.1"
        <2>1. RunLine(s, m, l) = Did(<<>>, Fed(At(m, m.x, Unknown), f), 0)
            BY <1>20 DEF RunLine, f
        <2> QED
            BY <1>1, <1>3, <1>4, <1>9, <1>12, <2>1
    <1>21. CASE l.g = "G92"
        <2>1. RunLine(s, m, l) = Did(<<>>, Fed(At(m, m.x, Z), f), 0)
            BY <1>5, <1>21 DEF RunLine, f, to, X, Z
        <2> QED
            BY <1>1, <1>3, <1>4, <1>9, <1>12, <2>1
    <1>22. CASE l.g \in {"PU", "PD"}
        <2>1. RunLine(s, m, l) = Did(<<>>, [m EXCEPT !.pen = l.g = "PD"], 0)
            BY <1>22 DEF RunLine
        <2>2. (l.g = "PD") \in BOOLEAN
            OBVIOUS
        <2>3. [m EXCEPT !.pen = l.g = "PD"] \in Tool
            BY <1>10, <2>2
        <2> QED
            BY <1>4, <1>12, <2>1, <2>3
    <1>23. CASE l.g = "PA"
        <2> DEFINE kind == IF l.i # 0 THEN "arc" ELSE IF m.pen THEN "cut" ELSE "rapid"
                   g == IF m.pen THEN f ELSE 0
                   a == [m EXCEPT !.x = X]
        <2>1. kind \in MoveKinds
            BY <1>8
        <2>2. g \in Nat
            BY <1>3
        <2>3. a \in Tool
            BY <1>10
        <2>4. RunLine(s, m, l) = Did(Move(kind, from, to, l.i, g), a, 0)
            BY <1>5, <1>23 DEF RunLine, from, to, X, Z, f
        <2> HIDE DEF kind, g, a
        <2> QED
            BY <1>2, <1>4, <1>11, <2>1, <2>2, <2>3, <2>4
    <1>24. CASE l.g \notin {"G0", "G1", "G2", "G81", "G4", "G53", "G28", "G38.2", "G43.1", "G92",
                            "PU", "PD", "PA"}
        <2>1. RunLine(s, m, l) = Did(<<>>, Fed(At(m, m.x, m.z), f), 0)
            BY <1>24 DEF RunLine, f
        <2> QED
            BY <1>1, <1>3, <1>4, <1>9, <1>12, <2>1
    <1> QED
        BY <1>13, <1>14, <1>15, <1>16, <1>17, <1>18, <1>19, <1>20, <1>21, <1>22, <1>23, <1>24

LEMMA CallIs ==
    ASSUME NEW c \in CallSet
    PROVE  /\ c.x \in Int /\ c.z \in Int /\ c.i \in Int /\ c.r \in Int /\ c.v \in Nat /\ c.p \in Nat
           /\ c.c \in {"rapid", "linear", "arc", "drill", "feed", "dwell", "station", "home",
                       "probe", "setz", "tlo", "marker", "raw"}
    <1> DEFINE Good(d) ==
            /\ d.x \in Int /\ d.z \in Int /\ d.i \in Int /\ d.r \in Int /\ d.v \in Nat /\ d.p \in Nat
            /\ d.c \in {"rapid", "linear", "arc", "drill", "feed", "dwell", "station", "home",
                        "probe", "setz", "tlo", "marker", "raw"}
    <1>1. ASSUME NEW k \in {"rapid", "linear", "arc", "drill", "feed", "dwell", "station", "home",
                            "probe", "setz", "tlo", "marker", "raw"},
                 NEW x \in Int, NEW z \in Int, NEW i \in Int, NEW r \in Int, NEW q, NEW v \in Nat,
                 NEW p \in Nat, NEW id
          PROVE  Good(CallOf(k, x, z, i, r, q, v, p, id))
        BY DEF CallOf
    <1>2. /\ 0 \in Int /\ 0 \in Nat /\ Unknown \in Int /\ Retract \in Int
          /\ \A x \in Place : x \in Int
          /\ \A x \in Near : x \in Int
          /\ \A i \in Offsets : i \in Int
        BY NearIs, PlaceIs
    <1> HIDE DEF Good
    <1>3. ASSUME NEW x \in Place, NEW z \in Place PROVE Good(MoveTo(x, z)) /\ Good(Linear(x, z))
        BY <1>1, <1>2, MoveToIs, LinearIs
    <1>4. ASSUME NEW x \in Near, NEW z \in Place, NEW i \in Offsets PROVE Good(Arc(x, z, i))
        BY <1>1, <1>2, ArcIs
    <1>5. ASSUME NEW x \in Near, NEW z \in Near, NEW q \in Nat, NEW v \in Nat, NEW p \in Nat
          PROVE  Good(Drill(x, z, q, v, p))
        BY <1>1, <1>2, DrillIs
    <1>6. ASSUME NEW v \in Nat PROVE Good(Feedrate(v)) /\ Good(Dwell(v)) /\ Good(ProbeZ(v))
        BY <1>1, <1>2, FeedrateIs, DwellIs, ProbeZIs
    <1>7. Good(Station) /\ Good(Home) /\ Good(ApplyProbed)
        BY <1>1, <1>2, StationIs, HomeIs, ApplyProbedIs
    <1>8. ASSUME NEW z \in Near PROVE Good(SetZ(z))
        BY <1>1, <1>2, SetZIs
    <1>9. ASSUME NEW id PROVE Good(Marker(id))
        BY <1>1, <1>2, MarkerIs
    <1>10. ASSUME NEW g, NEW x \in Place, NEW z \in Place, NEW v \in Nat PROVE Good(Raw(g, x, z, v))
        BY <1>1, <1>2, RawIs
    <1>11. Good(c)
        BY <1>3, <1>4, <1>5, <1>6, <1>7, <1>8, <1>9, <1>10, CallCases
    <1> QED
        BY <1>11 DEF Good

LEMMA PlanType ==
    ASSUME NEW s \in Setup
    PROVE  Reads("plan", s, Tool, CallSet)
    <1> SUFFICES ASSUME NEW m \in Tool, NEW c \in CallSet
                 PROVE  PlanCall(s, m, c) \in Outcome(Tool)
        BY DEF Reads, Made
    <1> DEFINE from == <<m.x, m.z>>
               X == IF c.x = Unknown THEN m.x ELSE c.x
               Z == IF c.z = Unknown \/ s.post = "hpgl" THEN m.z ELSE c.z
               to == <<X, Z>>
               across == <<m.x + 2 * c.i, Z>>
               feed == IF s.post = "hpgl" THEN Speed(c.v) ELSE c.v
    <1>1. m.x \in Int /\ m.z \in Int /\ m.feed \in Nat
        BY DEF Tool
    <1>2. /\ c.x \in Int /\ c.z \in Int /\ c.i \in Int /\ c.r \in Int /\ c.v \in Nat /\ c.p \in Nat
        BY CallIs
    <1>3. X \in Int /\ Z \in Int /\ feed \in Nat /\ -c.i \in Int
        BY <1>1, <1>2 DEF Speed, Biggest
    <1>4. /\ from \in Int \X Int /\ to \in Int \X Int /\ across \in Int \X Int
          /\ <<m.x, Unknown>> \in Int \X Int /\ Unknown \in Int /\ 0 \in Nat /\ 0 \in Int
        BY <1>1, <1>2, <1>3 DEF Unknown
    <1>5. to[1] = X /\ to[2] = Z
        OBVIOUS
    <1>6. <<>> \in Seq(MoveSet)
        OBVIOUS
    <1>7. CutKind(from, to) \in MoveKinds
        BY DEF CutKind, MoveKinds
    <1>8. {"rapid", "arc", "probe"} \subseteq MoveKinds
        BY DEF MoveKinds
    <1> HIDE DEF from, X, Z, to, across, feed
    <1>9. ASSUME NEW x \in Int, NEW z \in Int PROVE At(m, x, z) \in Tool
        <2> DEFINE a == [m EXCEPT !.x = x]
        <2>1. a \in Tool
            BY DEF Tool
        <2> HIDE DEF a
        <2>2. [a EXCEPT !.z = z] \in Tool
            BY <2>1 DEF Tool
        <2> QED
            BY <2>2 DEF At, a
    <1>10. ASSUME NEW f \in Nat PROVE Fed(m, f) \in Tool
        BY DEF Tool, Fed
    <1>11. ASSUME NEW kind \in MoveKinds, NEW q \in Int \X Int, NEW i \in Int, NEW g \in Nat,
                  NEW a \in Tool
           PROVE  Did(Move(kind, from, q, i, g), a, 0) \in Outcome(Tool)
        BY <1>4, <1>11, MoveType, DidType
    <1>12. ASSUME NEW a \in Tool, NEW n \in Nat PROVE Did(<<>>, a, n) \in Outcome(Tool)
        BY <1>6, DidType
    <1>13. CASE c.c = "rapid"
        <2>1. PlanCall(s, m, c) = Did(Move("rapid", from, to, 0, 0), At(m, X, Z), 0)
            BY <1>5, <1>13 DEF PlanCall, from, to, X, Z
        <2> QED
            BY <1>3, <1>4, <1>8, <1>9, <1>11, <2>1
    <1>14. CASE c.c = "linear"
        <2> DEFINE kind == CutKind(from, to)
                   a == At(m, X, Z)
        <2>1. PlanCall(s, m, c) = Did(Move(kind, from, to, 0, m.feed), a, 0)
            BY <1>5, <1>14 DEF PlanCall, from, to, X, Z
        <2>2. kind \in MoveKinds /\ a \in Tool
            BY <1>3, <1>7, <1>9
        <2> HIDE DEF kind, a
        <2> QED
            BY <1>1, <1>4, <1>11, <2>1, <2>2
    <1>15. CASE c.c = "arc"
        <2> DEFINE half == Move("arc", from, across, c.i, m.feed)
                   rest == Move("arc", across, to, -c.i, m.feed)
                   whole == Move("arc", from, to, c.i, m.feed)
                   a == At(m, X, Z)
        <2>1. half \in Seq(MoveSet) /\ rest \in Seq(MoveSet) /\ whole \in Seq(MoveSet)
            BY <1>1, <1>2, <1>3, <1>4, <1>8, MoveType
        <2>2. a \in Tool
            BY <1>3, <1>9
        <2>3. PlanCall(s, m, c) =
                  Did(IF to[1] = m.x /\ s.post # "hpgl" THEN half \o rest ELSE whole, a, 0)
            BY <1>5, <1>15 DEF PlanCall, from, to, X, Z, across
        <2> HIDE DEF half, rest, whole, a
        <2>4. half \o rest \in Seq(MoveSet)
            BY <2>1, ConcatProperties
        <2> QED
            BY <1>4, <2>1, <2>2, <2>3, <2>4, DidType
    <1>16. CASE c.c = "drill"
        <2> DEFINE ms == DrillMoves("none", from, c.x, c.z, c.r, m.feed)
                   a == At(m, c.x, c.r)
        <2>1. PlanCall(s, m, c) = Did(ms, a, c.p)
            BY <1>16 DEF PlanCall, from
        <2>2. "none" \in Tags
            BY DEF Tags
        <2>3. ms \in Seq(MoveSet)
            BY <1>1, <1>2, <1>4, <2>2, DrillMovesType
        <2>4. a \in Tool
            BY <1>2, <1>9
        <2> HIDE DEF ms, a
        <2> QED
            BY <1>2, <2>1, <2>3, <2>4, DidType
    <1>17. CASE c.c = "feed"
        <2>1. PlanCall(s, m, c) = Did(<<>>, Fed(m, feed), 0)
            BY <1>17 DEF PlanCall, feed
        <2> QED
            BY <1>3, <1>4, <1>10, <1>12, <2>1
    <1>18. CASE c.c \notin {"rapid", "linear", "arc", "drill", "feed"}
        <2>1. CASE s.post = "hpgl"
            <3>1. PlanCall(s, m, c) = Did(<<>>, At(m, m.x, m.z), 0)
                BY <1>18, <2>1 DEF PlanCall
            <3> QED
                BY <1>1, <1>4, <1>9, <1>12, <3>1
        <2>2. CASE s.post # "hpgl" /\ c.c = "dwell"
            <3>1. PlanCall(s, m, c) = Did(<<>>, m, c.p)
                BY <1>18, <2>2 DEF PlanCall
            <3> QED
                BY <1>2, <1>12, <3>1
        <2>3. CASE s.post # "hpgl" /\ c.c \in {"station", "home"}
            <3>1. PlanCall(s, m, c) = Did(<<>>, At(m, Unknown, Unknown), 0)
                BY <1>18, <2>3 DEF PlanCall
            <3> QED
                BY <1>4, <1>9, <1>12, <3>1
        <2>4. CASE s.post # "hpgl" /\ c.c = "probe"
            <3>1. PlanCall(s, m, c) = Did(Move("probe", from, <<m.x, Unknown>>, 0, c.v),
                                          At(m, m.x, Unknown), 0)
                BY <1>18, <2>4 DEF PlanCall, from
            <3> QED
                BY <1>1, <1>2, <1>4, <1>8, <1>9, <1>11, <3>1
        <2>5. CASE s.post # "hpgl" /\ c.c = "setz"
            <3>1. PlanCall(s, m, c) = Did(<<>>, At(m, m.x, c.z), 0)
                BY <1>18, <2>5 DEF PlanCall
            <3> QED
                BY <1>1, <1>2, <1>4, <1>9, <1>12, <3>1
        <2>6. CASE s.post # "hpgl" /\ c.c = "tlo"
            <3> DEFINE z == IF s.post = "grbl" THEN m.z ELSE Unknown
            <3>1. PlanCall(s, m, c) = Did(<<>>, At(m, m.x, z), 0)
                BY <1>18, <2>6 DEF PlanCall
            <3>2. z \in Int
                BY <1>1, <1>4
            <3> HIDE DEF z
            <3> QED
                BY <1>1, <1>4, <1>9, <1>12, <3>1, <3>2
        <2>7. CASE s.post # "hpgl" /\ c.c \notin {"dwell", "station", "home", "probe", "setz", "tlo"}
            <3>1. PlanCall(s, m, c) = Did(<<>>, At(m, m.x, m.z), 0)
                BY <1>18, <2>7 DEF PlanCall
            <3> QED
                BY <1>1, <1>4, <1>9, <1>12, <3>1
        <2> QED
            BY <2>1, <2>2, <2>3, <2>4, <2>5, <2>6, <2>7
    <1> QED
        BY <1>13, <1>14, <1>15, <1>16, <1>17, <1>18

-----------------------------------------------------------------------------
(* The post, the machine and the plan, kept in step call by call *)

\* Where the post, the controller and the plan are: the post leaves out only words the
\* controller does not need, and the plan has the tool where the controller has it.
Spot == [x : Place, z : Place, feed : Nat, pen : BOOLEAN]

Agree(s, p, m, n) ==
    /\ p.x \in {Unknown, m.x}
    /\ p.rate \in {0, m.feed}
    /\ n.x = m.x /\ n.z = m.z
    /\ s.post = "hpgl" => p.pen = m.pen
    /\ s.post # "hpgl" => p.z \in {Unknown, m.z} /\ p.pen = FALSE

Stands(s) == {t \in PostSet \X Spot \X Spot : Agree(s, t[1], t[2], t[3])}

\* No feed written since the reset; nothing at all written since; the feed in force is the
\* one the operation commanded; and X written besides.
Idle(s) == {t \in Stands(s) : s.post # "hpgl" => t[1].rate = 0}
Reset(s) == {t \in Stands(s) : s.post # "hpgl" => t[1] = FreshPost}
Primed(s) == {t \in Stands(s) : t[3].feed = t[2].feed}
Known(s) == {t \in Primed(s) : t[1].x # Unknown}

\* From t the calls cs are written, run and planned to u, with the same moves and dwell.
Same(s, cs, t, u) ==
    LET w == Sheet(s, t[1], cs)
        r == Reading("run", s, t[2], w.lines)
        q == Reading("plan", s, t[3], cs)
    IN /\ w.post = u[1] /\ r.at = u[2] /\ q.at = u[3]
       /\ r.moves = q.moves /\ r.dwell = q.dwell

Follows(s, cs, A, B) == \A t \in A : \E u \in B : Same(s, cs, t, u)

LEMMA SpotIsTool ==
    Spot \subseteq Tool
    BY PlaceIs DEF Spot, Tool

LEMMA SameConcat ==
    ASSUME NEW s \in Setup, NEW left \in Seq(CallSet), NEW right \in Seq(CallSet),
           NEW t, t[1] \in PostSet, t[2] \in Tool, t[3] \in Tool,
           NEW u, u[1] \in PostSet, u[2] \in Tool, u[3] \in Tool, NEW v,
           Same(s, left, t, u), Same(s, right, u, v)
    PROVE  Same(s, left \o right, t, v)
    <1> DEFINE p == t[1]
               m == t[2]
               n == t[3]
               w1 == Sheet(s, p, left)
               w2 == Sheet(s, u[1], right)
               r1 == Reading("run", s, m, w1.lines)
               r2 == Reading("run", s, u[2], w2.lines)
               q1 == Reading("plan", s, n, left)
               q2 == Reading("plan", s, u[3], right)
               w == Sheet(s, p, left \o right)
    <1>1. /\ w1.post = u[1] /\ r1.at = u[2] /\ q1.at = u[3]
          /\ r1.moves = q1.moves /\ r1.dwell = q1.dwell
        BY DEF Same
    <1>2. /\ w2.post = v[1] /\ r2.at = v[2] /\ q2.at = v[3]
          /\ r2.moves = q2.moves /\ r2.dwell = q2.dwell
        BY DEF Same
    <1>3. w = Onward(w1, w2)
        BY <1>1, SheetConcat, WriteType
    <1>4. w1 \in Page(PostSet) /\ w2 \in Page(PostSet)
        BY SheetType, WriteType
    <1>5. w1.lines \in Seq(LineSet) /\ w2.lines \in Seq(LineSet)
        BY <1>4 DEF Page
    <1>6. w.post = w2.post /\ w.lines = w1.lines \o w2.lines
        BY <1>3, OnwardIs
    <1>7. Reading("plan", s, n, left \o right) = AndThen(q1, q2)
        <2>1. Reads("plan", s, Tool, CallSet)
            BY PlanType
        <2>2. Reading("plan", s, n, left \o right) =
                  AndThen(Reading("plan", s, n, left),
                          Reading("plan", s, Reading("plan", s, n, left).at, right))
            BY <2>1, ReadConcat
        <2> QED
            BY <1>1, <2>2
    <1> HIDE DEF w1, w2, w, q1, q2
    <1>8. Reading("run", s, m, w.lines) = AndThen(r1, r2)
        <2>1. Reads("run", s, Tool, LineSet)
            BY RunType
        <2> DEFINE a == w1.lines
                   b == w2.lines
        <2>2. a \in Seq(LineSet) /\ b \in Seq(LineSet) /\ m \in Tool /\ w.lines = a \o b
            BY <1>5, <1>6
        <2> HIDE DEF a, b, m
        <2>3. Reading("run", s, m, a \o b) =
                  AndThen(Reading("run", s, m, a),
                          Reading("run", s, Reading("run", s, m, a).at, b))
            BY <2>1, <2>2, ReadConcat
        <2>4. Reading("run", s, m, a) = r1
            BY DEF a, r1, m
        <2>5. Reading("run", s, u[2], b) = r2
            BY DEF b, r2
        <2> QED
            BY <1>1, <2>2, <2>3, <2>4, <2>5
    <1> HIDE DEF r1, r2
    <1>9. Same(s, left \o right, t, v) <=>
              /\ w.post = v[1] /\ Reading("run", s, m, w.lines).at = v[2]
              /\ Reading("plan", s, n, left \o right).at = v[3]
              /\ Reading("run", s, m, w.lines).moves = Reading("plan", s, n, left \o right).moves
              /\ Reading("run", s, m, w.lines).dwell = Reading("plan", s, n, left \o right).dwell
        BY DEF Same, w
    <1>10. /\ AndThen(r1, r2).at = r2.at /\ AndThen(q1, q2).at = q2.at
           /\ AndThen(r1, r2).moves = r1.moves \o r2.moves
           /\ AndThen(q1, q2).moves = q1.moves \o q2.moves
           /\ AndThen(r1, r2).dwell = r1.dwell + r2.dwell
           /\ AndThen(q1, q2).dwell = q1.dwell + q2.dwell
        BY AndThenIs
    <1> QED
        BY <1>1, <1>2, <1>6, <1>7, <1>8, <1>9, <1>10

LEMMA StandsIs ==
    ASSUME NEW s, NEW t \in Stands(s)
    PROVE  /\ t[1] \in PostSet /\ t[2] \in Spot /\ t[3] \in Spot /\ Agree(s, t[1], t[2], t[3])
           /\ t[2] \in Tool /\ t[3] \in Tool /\ t = <<t[1], t[2], t[3]>>
    BY SpotIsTool DEF Stands

LEMMA FollowsConcat ==
    ASSUME NEW s \in Setup, NEW left \in Seq(CallSet), NEW right \in Seq(CallSet),
           NEW A \in SUBSET Stands(s), NEW B \in SUBSET Stands(s), NEW C \in SUBSET Stands(s),
           Follows(s, left, A, B), Follows(s, right, B, C)
    PROVE  Follows(s, left \o right, A, C)
    <1> SUFFICES ASSUME NEW t \in A PROVE \E v \in C : Same(s, left \o right, t, v)
        BY DEF Follows
    <1>1. PICK u \in B : Same(s, left, t, u)
        BY DEF Follows
    <1>2. PICK v \in C : Same(s, right, u, v)
        BY DEF Follows
    <1>3. t \in Stands(s) /\ u \in Stands(s)
        OBVIOUS
    <1>4. /\ t[1] \in PostSet /\ t[2] \in Tool /\ t[3] \in Tool
          /\ u[1] \in PostSet /\ u[2] \in Tool /\ u[3] \in Tool
        BY <1>3, StandsIs
    <1>5. Same(s, left \o right, t, v)
        BY <1>1, <1>2, <1>4, SameConcat
    <1> QED
        BY <1>5

LEMMA FollowsWeaken ==
    ASSUME NEW s, NEW cs, NEW A, NEW B, NEW C, NEW D, C \subseteq A, B \subseteq D,
           Follows(s, cs, A, B)
    PROVE  Follows(s, cs, C, D)
    BY DEF Follows

LEMMA FollowsNothing ==
    ASSUME NEW s, NEW A \in SUBSET Stands(s)
    PROVE  Follows(s, <<>>, A, A)
    <1> SUFFICES ASSUME NEW t \in A PROVE Same(s, <<>>, t, t)
        BY DEF Follows
    <1>1. Sheet(s, t[1], <<>>) = Wrote(<<>>, t[1])
        BY SheetNone
    <1>2. /\ Wrote(<<>>, t[1]).post = t[1] /\ Wrote(<<>>, t[1]).lines = <<>>
          /\ \A m : Did(<<>>, m, 0).at = m
        BY DEF Wrote, Did
    <1>3. /\ Reading("run", s, t[2], <<>>) = Did(<<>>, t[2], 0)
          /\ Reading("plan", s, t[3], <<>>) = Did(<<>>, t[3], 0)
        BY ReadNone
    <1>4. /\ Did(<<>>, t[2], 0).moves = Did(<<>>, t[3], 0).moves
          /\ Did(<<>>, t[2], 0).dwell = Did(<<>>, t[3], 0).dwell
        BY DEF Did
    <1> QED
        BY <1>1, <1>2, <1>3, <1>4 DEF Same

\* What one call does, by what it writes.
LEMMA SameCall ==
    ASSUME NEW s \in Setup, NEW c \in CallSet, NEW p \in PostSet, NEW m \in Tool, NEW n \in Tool,
           NEW ls, NEW p1, NEW m1, NEW n1, NEW ms, NEW dwell, NEW t, NEW u,
           t = <<p, m, n>>, u = <<p1, m1, n1>>,
           WriteCall(s, p, c) = Wrote(ls, p1),
           Reading("run", s, m, ls) = Did(ms, m1, dwell),
           PlanCall(s, n, c) = Did(ms, n1, dwell)
    PROVE  Same(s, <<c>>, t, u)
    <1>1. t[1] = p /\ t[2] = m /\ t[3] = n /\ u[1] = p1 /\ u[2] = m1 /\ u[3] = n1
        OBVIOUS
    <1>2. WriteCall(s, p, c) \in Page(PostSet)
        BY WriteType DEF Writes
    <1>3. Sheet(s, p, <<c>>) = Wrote(ls, p1)
        BY <1>2, SheetOne
    <1>4. Made("plan", s, n, c) = PlanCall(s, n, c)
        BY DEF Made
    <1>5. PlanCall(s, n, c) \in Outcome(Tool)
        BY <1>4, PlanType DEF Reads
    <1>6. Reading("plan", s, n, <<c>>) = Did(ms, n1, dwell)
        BY <1>4, <1>5, ReadOne
    <1>7. /\ Wrote(ls, p1).post = p1 /\ Wrote(ls, p1).lines = ls
          /\ Did(ms, m1, dwell).at = m1 /\ Did(ms, n1, dwell).at = n1
          /\ Did(ms, m1, dwell).moves = Did(ms, n1, dwell).moves
          /\ Did(ms, m1, dwell).dwell = Did(ms, n1, dwell).dwell
        BY DEF Wrote, Did
    <1> QED
        BY <1>1, <1>3, <1>6, <1>7 DEF Same

\* A number the post converts and the controller converts back.
LEMMA ThereAndBack ==
    ASSUME NEW s \in Setup, s.post # "hpgl", NEW k \in -18 .. 18
    PROVE  Emitted(s, 2 * k) # Unknown /\ Mm(s, Emitted(s, 2 * k)) = 2 * k
    <1>1. 2 * k # 99 /\ (2 * k) \div 2 = k /\ k # 99 /\ k * 2 = 2 * k
        OBVIOUS
    <1> QED
        BY <1>1 DEF Emitted, Mm, Unknown, MmPerInch

LEMMA NearAndBack ==
    ASSUME NEW s \in Setup, s.post # "hpgl"
    PROVE  /\ \A x \in Near : Emitted(s, x) # Unknown /\ Mm(s, Emitted(s, x)) = x
           /\ \A x \in Near, i \in Offsets :
                 Emitted(s, x + 2 * i) # Unknown /\ Mm(s, Emitted(s, x + 2 * i)) = x + 2 * i
           /\ \A i \in Offsets : Mm(s, Emitted(s, i)) = i /\ Mm(s, Emitted(s, -i)) = -i
           /\ Mm(s, 0) = 0
    <1>1. ASSUME NEW x \in Near PROVE Emitted(s, x) # Unknown /\ Mm(s, Emitted(s, x)) = x
        <2>1. PICK k \in -10 .. 10 : x = 2 * k
            BY DEF Near
        <2>2. k \in -18 .. 18
            OBVIOUS
        <2> QED
            BY <2>1, <2>2, ThereAndBack
    <1>2. ASSUME NEW x \in Near, NEW i \in Offsets
          PROVE  Emitted(s, x + 2 * i) # Unknown /\ Mm(s, Emitted(s, x + 2 * i)) = x + 2 * i
        <2>1. PICK k \in -10 .. 10 : x = 2 * k
            BY DEF Near
        <2>2. i \in -4 .. 4
            BY PlaceIs
        <2> DEFINE j == k + i
        <2>3. j \in -18 .. 18 /\ x + 2 * i = 2 * j
            BY <2>1, <2>2
        <2> HIDE DEF j
        <2> QED
            BY <2>3, ThereAndBack
    <1>3. ASSUME NEW i \in Offsets PROVE Mm(s, Emitted(s, i)) = i /\ Mm(s, Emitted(s, -i)) = -i
        <2>1. \E k \in -18 .. 18 : i = 2 * k
            BY DEF Offsets
        <2>2. PICK k \in -18 .. 18 : i = 2 * k
            BY <2>1
        <2> DEFINE j == -k
        <2>3. j \in -18 .. 18 /\ -i = 2 * j
            BY <2>2
        <2> HIDE DEF j
        <2> QED
            BY <2>2, <2>3, ThereAndBack
    <1>4. Mm(s, 0) = 0
        BY DEF Mm, MmPerInch
    <1> QED
        BY <1>1, <1>2, <1>3, <1>4

\* The word written, or left out, takes the tool where the call said.
LEMMA WordArrives ==
    ASSUME NEW s \in Setup, s.post # "hpgl", NEW a \in Place, NEW old \in {Unknown, a},
           NEW new \in Place
    PROVE  /\ Arrived(s, a, Word(s, old, new)) = Held(a, new)
           /\ Word(s, old, new) = Unknown => Held(a, new) = a
           /\ Held(old, new) \in {Unknown, Held(a, new)}
    <1>1. CASE new = Unknown
        <2>1. Word(s, old, new) = Unknown
            BY <1>1 DEF Word, Emitted
        <2> QED
            BY <1>1, <2>1 DEF Arrived, Held
    <1>2. CASE new # Unknown /\ new = old
        <2>1. Word(s, old, new) = Unknown /\ old = a
            BY <1>2 DEF Word
        <2> QED
            BY <1>2, <2>1 DEF Arrived, Held
    <1>3. CASE new # Unknown /\ new # old
        <2>1. new \in Near
            BY <1>3 DEF Place
        <2>2. Word(s, old, new) = Emitted(s, new)
            BY <1>3 DEF Word
        <2>3. Emitted(s, new) # Unknown /\ Mm(s, Emitted(s, new)) = new
            BY <2>1, NearAndBack
        <2> QED
            BY <1>3, <2>2, <2>3 DEF Arrived, Held
    <1> QED
        BY <1>1, <1>2, <1>3

\* A straight line, written or left out, is run as the move it stands for.
LEMMA StraightRuns ==
    ASSUME NEW s \in Setup, s.post # "hpgl", NEW mx \in Place, NEW mz \in Place, NEW mf \in Nat,
           NEW pen \in BOOLEAN, NEW x0 \in {Unknown, mx}, NEW z0 \in {Unknown, mz},
           NEW x \in Place, NEW z \in Place
    PROVE  LET X == Held(mx, x)
               Z == Held(mz, z)
               m == ToolOf(mx, mz, mf, pen)
           IN /\ Reading("run", s, m, StraightLine(s, "G0", x0, z0, x, z)) =
                     Did(Move("rapid", <<mx, mz>>, <<X, Z>>, 0, 0), ToolOf(X, Z, mf, pen), 0)
              /\ Reading("run", s, m, StraightLine(s, "G1", x0, z0, x, z)) =
                     Did(Move(CutKind(<<mx, mz>>, <<X, Z>>), <<mx, mz>>, <<X, Z>>, 0, mf),
                         ToolOf(X, Z, mf, pen), 0)
    <1> DEFINE wx == Word(s, x0, x)
               wz == Word(s, z0, z)
               X == Held(mx, x)
               Z == Held(mz, z)
               m == ToolOf(mx, mz, mf, pen)
               k == CutKind(<<mx, mz>>, <<X, Z>>)
    <1>1. /\ Arrived(s, mx, wx) = X /\ (wx = Unknown => X = mx)
          /\ Arrived(s, mz, wz) = Z /\ (wz = Unknown => Z = mz)
        BY WordArrives
    <1>2. FeedNow(s, mf, 0) = mf /\ Mm(s, 0) = 0
        BY NearAndBack DEF FeedNow
    <1>3. wx \in Digits \cup {Unknown} /\ wz \in Digits \cup {Unknown}
        <2>1. x0 \in Int /\ z0 \in Int /\ x \in -36 .. 36 \cup {Unknown}
              /\ z \in -36 .. 36 \cup {Unknown}
            BY PlaceIs, NearIs
        <2> QED
            BY <2>1, WordDigits
    <1>4. k # "arc" /\ k # "rapid"
        BY DEF CutKind
    <1>5. X \in Place /\ Z \in Place
        BY HeldPlace
    <1>6. m \in Tool
        BY PlaceIs, ToolType
    <1> HIDE DEF wx, wz, X, Z, k
    <1>7. CASE wx = Unknown /\ wz = Unknown
        <2>1. Reading("run", s, m, <<>>) = Did(<<>>, m, 0)
            BY ReadNone
        <2>2. /\ Move("rapid", <<mx, mz>>, <<X, Z>>, 0, 0) = <<>>
              /\ Move(k, <<mx, mz>>, <<X, Z>>, 0, mf) = <<>>
            BY <1>1, <1>4, <1>7 DEF Move, Tagged
        <2>3. ToolOf(X, Z, mf, pen) = m
            BY <1>1, <1>7
        <2> QED
            BY <1>7, <2>1, <2>2, <2>3 DEF wx, wz, X, Z, k, StraightLine
    <1>8. CASE ~ (wx = Unknown /\ wz = Unknown)
        <2> DEFINE l0 == LineOf("G0", wx, wz, 0, 0, 0, 0, "none")
                   l1 == LineOf("G1", wx, wz, 0, 0, 0, 0, "none")
        <2>1. RunLine(s, m, l0) =
                  Did(Move("rapid", <<mx, mz>>, <<X, Z>>, 0, 0), ToolOf(X, Z, mf, pen), 0)
            BY <1>1, <1>2, RunRapid
        <2>2. RunLine(s, m, l1) =
                  Did(Move(k, <<mx, mz>>, <<X, Z>>, 0, mf), ToolOf(X, Z, mf, pen), 0)
            BY <1>1, <1>2, RunCut DEF k
        <2>3. l0 \in LineSet /\ l1 \in LineSet
            <3>1. {"G0", "G1"} \subseteq Codes /\ 0 \in Digits /\ "none" \in Tags /\ 0 \in Nat
                BY DEF Codes, Digits, Tags
            <3> QED
                BY <1>3, <3>1, LineType
        <2> HIDE DEF l0, l1, m
        <2>4. /\ Made("run", s, m, l0) = RunLine(s, m, l0)
              /\ Made("run", s, m, l1) = RunLine(s, m, l1)
            BY DEF Made
        <2>5. /\ Made("run", s, m, l0) \in Outcome(Tool)
              /\ Made("run", s, m, l1) \in Outcome(Tool)
            BY <1>6, <2>3, RunType DEF Reads
        <2>6. /\ Reading("run", s, m, <<l0>>) = RunLine(s, m, l0)
              /\ Reading("run", s, m, <<l1>>) = RunLine(s, m, l1)
            BY <2>4, <2>5, ReadOne
        <2>7. /\ Reading("run", s, m, <<l0>>) =
                     Did(Move("rapid", <<mx, mz>>, <<X, Z>>, 0, 0), ToolOf(X, Z, mf, pen), 0)
              /\ Reading("run", s, m, <<l1>>) =
                     Did(Move(k, <<mx, mz>>, <<X, Z>>, 0, mf), ToolOf(X, Z, mf, pen), 0)
            BY <2>1, <2>2, <2>6
        <2> QED
            BY <1>8, <2>7 DEF l0, l1, m, wx, wz, X, Z, k, StraightLine
    <1> QED
        BY <1>7, <1>8

\* The same of the plan, whatever the post: HPGL has no Z to move.
LEMMA PlanStraight ==
    ASSUME NEW s, NEW nx, NEW nz, NEW nf, NEW pen, NEW x, NEW z
    PROVE  LET X == Held(nx, x)
               Z == IF s.post = "hpgl" THEN nz ELSE Held(nz, z)
               n == ToolOf(nx, nz, nf, pen)
           IN /\ PlanCall(s, n, MoveTo(x, z)) =
                     Did(Move("rapid", <<nx, nz>>, <<X, Z>>, 0, 0), ToolOf(X, Z, nf, pen), 0)
              /\ PlanCall(s, n, Linear(x, z)) =
                     Did(Move(CutKind(<<nx, nz>>, <<X, Z>>), <<nx, nz>>, <<X, Z>>, 0, nf),
                         ToolOf(X, Z, nf, pen), 0)
    <1> DEFINE X == Held(nx, x)
               Z == IF s.post = "hpgl" THEN nz ELSE Held(nz, z)
               n == ToolOf(nx, nz, nf, pen)
               a == MoveTo(x, z)
               b == Linear(x, z)
               from == <<nx, nz>>
               to == <<X, Z>>
    <1>1. a.c = "rapid" /\ a.x = x /\ a.z = z /\ b.c = "linear" /\ b.x = x /\ b.z = z
        BY MoveToIs, LinearIs DEF CallOf
    <1>2. n.x = nx /\ n.z = nz /\ n.feed = nf
        BY ToolFields
    <1>3. At(n, X, Z) = ToolOf(X, Z, nf, pen)
        BY ToolAt
    <1>4. to[1] = X /\ to[2] = Z
        OBVIOUS
    <1>5. Z = IF z = Unknown \/ s.post = "hpgl" THEN nz ELSE z
        BY DEF Held
    <1> HIDE DEF a, b, n, Z
    <1>6. PlanCall(s, n, a) = Did(Move("rapid", from, to, 0, 0), At(n, X, Z), 0)
        BY <1>1, <1>2, <1>4, <1>5 DEF PlanCall, Held
    <1>7. PlanCall(s, n, b) = Did(Move(CutKind(from, to), from, to, 0, nf), At(n, X, Z), 0)
        BY <1>1, <1>2, <1>4, <1>5 DEF PlanCall, Held
    <1> HIDE DEF from, to, X
    <1>8. /\ PlanCall(s, n, a) = Did(Move("rapid", from, to, 0, 0), ToolOf(X, Z, nf, pen), 0)
          /\ PlanCall(s, n, b) = Did(Move(CutKind(from, to), from, to, 0, nf),
                                     ToolOf(X, Z, nf, pen), 0)
        BY <1>3, <1>6, <1>7
    <1> QED
        BY <1>8 DEF a, b, n, Z, X, from, to

\* The plotter's pen and the line it draws.
LEMMA PlotterRuns ==
    ASSUME NEW s \in Setup, s.post = "hpgl", NEW mx \in Place, NEW mz \in Place, NEW mf \in Nat,
           NEW pen \in BOOLEAN, NEW down \in {Up, Down}, NEW to \in Place, NEW i \in Digits
    PROVE  LET X == Held(mx, to)
               k == IF i # 0 THEN "arc" ELSE IF down THEN "cut" ELSE "rapid"
               f == IF down THEN mf ELSE 0
           IN Reading("run", s, ToolOf(mx, mz, mf, pen), PenLines(pen, down) \o PlotLines(to, i)) =
                  Did(IF to = Unknown THEN <<>> ELSE Move(k, <<mx, mz>>, <<X, mz>>, i, f),
                      ToolOf(X, mz, mf, down), 0)
    <1> DEFINE X == Held(mx, to)
               k == IF i # 0 THEN "arc" ELSE IF down THEN "cut" ELSE "rapid"
               f == IF down THEN mf ELSE 0
               m == ToolOf(mx, mz, mf, pen)
               d == ToolOf(mx, mz, mf, down)
               ls == PenLines(pen, down)
               ps == PlotLines(to, i)
               code == IF down THEN "PD" ELSE "PU"
               l == LineOf(code, Unknown, Unknown, 0, 0, 0, 0, "none")
               o == LineOf("PA", to, Unknown, i, 0, 0, 0, "none")
               ms == IF to = Unknown THEN <<>> ELSE Move(k, <<mx, mz>>, <<X, mz>>, i, f)
    <1>1. down \in BOOLEAN
        BY DEF Up, Down
    <1>2. /\ {"PA", "PU", "PD"} \subseteq Codes /\ Unknown \in Digits \cup {Unknown}
          /\ 0 \in Digits /\ 0 \in Nat /\ "none" \in Tags /\ to \in Digits \cup {Unknown}
          /\ code \in Codes
        BY PlaceIs DEF Codes, Digits, Tags
    <1>3. l \in LineSet /\ o \in LineSet
        BY <1>2, LineType
    <1>4. m \in Tool /\ d \in Tool
        BY <1>1, PlaceIs, ToolType
    <1>5. RunLine(s, m, l) = Did(<<>>, d, 0)
        BY RunPen DEF Up, Down
    <1>6. RunLine(s, d, o) = Did(Move(k, <<mx, mz>>, <<Arrived(s, mx, to), mz>>, i, f),
                                 ToolOf(Arrived(s, mx, to), mz, mf, down), 0)
        BY <1>1, RunPlot
    <1>7. Arrived(s, mx, to) = X
        BY DEF Arrived, Held, Mm
    <1>8. ls = IF pen = down THEN <<>> ELSE <<l>>
        BY DEF PenLines
    <1>9. ps = IF to = Unknown THEN <<>> ELSE <<o>>
        BY DEF PlotLines
    <1>10. pen = down => m = d
        OBVIOUS
    <1>11. to = Unknown => X = mx
        BY DEF Held
    <1> HIDE DEF l, o, X, k, f, ls, ps, code
    <1>12. ls \in Seq(LineSet) /\ ps \in Seq(LineSet)
        BY <1>3, <1>8, <1>9
    <1>13. Reading("run", s, m, ls) = Did(<<>>, d, 0)
        <2>1. Reading("run", s, m, <<>>) = Did(<<>>, m, 0)
            BY ReadNone
        <2>2. Made("run", s, m, l) = RunLine(s, m, l)
            BY DEF Made
        <2>3. Made("run", s, m, l) \in Outcome(Tool)
            BY <1>3, <1>4, RunType DEF Reads
        <2> HIDE DEF m, d
        <2>4. Reading("run", s, m, <<l>>) = RunLine(s, m, l)
            BY <2>2, <2>3, ReadOne
        <2> QED
            BY <1>5, <1>8, <1>10, <2>1, <2>4
    <1>14. Reading("run", s, d, ps) = Did(ms, ToolOf(X, mz, mf, down), 0)
        <2>1. Reading("run", s, d, <<>>) = Did(<<>>, d, 0)
            BY ReadNone
        <2>2. Made("run", s, d, o) = RunLine(s, d, o)
            BY DEF Made
        <2>3. Made("run", s, d, o) \in Outcome(Tool)
            BY <1>3, <1>4, RunType DEF Reads
        <2>4. to = Unknown => d = ToolOf(X, mz, mf, down)
            BY <1>11
        <2> HIDE DEF d
        <2>5. Reading("run", s, d, <<o>>) = RunLine(s, d, o)
            BY <2>2, <2>3, ReadOne
        <2>6. CASE to = Unknown
            BY <1>9, <2>1, <2>4, <2>6
        <2>7. CASE to # Unknown
            <3>1. ms = Move(k, <<mx, mz>>, <<X, mz>>, i, f)
                BY <2>7
            <3> HIDE DEF ms
            <3> QED
                BY <1>6, <1>7, <1>9, <2>5, <2>7, <3>1
        <2> QED
            BY <2>6, <2>7
    <1>15. Reading("run", s, m, ls \o ps) =
               AndThen(Reading("run", s, m, ls),
                       Reading("run", s, Reading("run", s, m, ls).at, ps))
        <2> HIDE DEF m
        <2> QED
            BY <1>4, <1>12, RunType, ReadConcat
    <1>16. Did(<<>>, d, 0).at = d
        BY DEF Did
    <1> DEFINE e == Did(ms, ToolOf(X, mz, mf, down), 0)
    <1>17. Reading("run", s, m, ls \o ps) = AndThen(Did(<<>>, d, 0), e)
        <2> HIDE DEF m, d, e
        <2> QED
            BY <1>13, <1>14, <1>15, <1>16 DEF e
    <1>18. e \in Outcome(Tool)
        <2>1. Reading("run", s, d, ps) \in Outcome(Tool)
            <3> HIDE DEF d
            <3> QED
                BY <1>4, <1>12, RunType, ReadingType
        <2> QED
            BY <1>14, <2>1
    <1> HIDE DEF m, d, ms, e
    <1>19. AndThen(Did(<<>>, d, 0), e) = e
        BY <1>18, AndThenNothing
    <1> QED
        BY <1>17, <1>19 DEF m, e, ms, ls, ps, X, k, f

\* Two items, one after the other.
LEMMA PairIs ==
    ASSUME NEW a, NEW b
    PROVE  <<a, b>> = <<a>> \o <<b>>
    <1> DEFINE S == {a, b}
    <1>1. <<a>> \in Seq(S) /\ b \in S
        OBVIOUS
    <1>2. Append(<<a>>, b) = <<a>> \o <<b>>
        BY <1>1, AppendIsConcat
    <1>3. <<a, b>> = Append(<<a>>, b)
        OBVIOUS
    <1> QED
        BY <1>2, <1>3

\* A G-code arc with X known, run: whole, or in two halves where it ends where it began.
LEMMA ArcRuns ==
    ASSUME NEW s \in Setup, s.post # "hpgl", NEW mx \in Near, NEW mz \in Place, NEW mf \in Nat,
           NEW pen \in BOOLEAN, NEW z0 \in {Unknown, mz}, NEW x \in Near, NEW z \in Place,
           NEW i \in Offsets
    PROVE  LET Z == Held(mz, z)
               mid == mx + 2 * i
               m == ToolOf(mx, mz, mf, pen)
           IN Reading("run", s, m,
                      IF x = mx
                      THEN <<ArcLine(s, mx, z0, mid, z, i), ArcLine(s, mid, Held(z0, z), x, z, -i)>>
                      ELSE <<ArcLine(s, mx, z0, x, z, i)>>) =
                  Did(IF x = mx
                      THEN Move("arc", <<mx, mz>>, <<mid, Z>>, i, mf)
                           \o Move("arc", <<mid, Z>>, <<x, Z>>, -i, mf)
                      ELSE Move("arc", <<mx, mz>>, <<x, Z>>, i, mf),
                      ToolOf(x, Z, mf, pen), 0)
    <1> DEFINE Z == Held(mz, z)
               mid == mx + 2 * i
               m == ToolOf(mx, mz, mf, pen)
               h == ToolOf(mid, Z, mf, pen)
               e == ToolOf(x, Z, mf, pen)
               deep == Held(z0, z)
               one == ArcLine(s, mx, z0, mid, z, i)
               two == ArcLine(s, mid, deep, x, z, -i)
               all == ArcLine(s, mx, z0, x, z, i)
               a == Move("arc", <<mx, mz>>, <<mid, Z>>, i, mf)
               b == Move("arc", <<mid, Z>>, <<x, Z>>, -i, mf)
               c == Move("arc", <<mx, mz>>, <<x, Z>>, i, mf)
    <1>1. /\ mx \in Place /\ x \in Place /\ mx \in Int /\ mx # Unknown /\ x # Unknown
          /\ i \in Int /\ i # 0 /\ -i \in Int /\ mid \in -28 .. 28 /\ Unknown \in Place
        BY NearIs, PlaceIs DEF Place
    <1>2. mid \in Int /\ mid # Unknown /\ mid # mx /\ mid \in -36 .. 36 \cup {Unknown}
        BY <1>1 DEF Unknown
    <1>3. /\ Emitted(s, mid) # Unknown /\ Mm(s, Emitted(s, mid)) = mid
          /\ Emitted(s, x) # Unknown /\ Mm(s, Emitted(s, x)) = x
          /\ Mm(s, Emitted(s, i)) = i /\ Mm(s, Emitted(s, -i)) = -i
        BY NearAndBack
    <1>4. Arrived(s, mx, Word(s, mx, mid)) = mid
        BY <1>2, <1>3 DEF Arrived, Word
    <1>5. x = mx => Arrived(s, mid, Word(s, mid, x)) = x
        BY <1>2, <1>3 DEF Arrived, Word
    <1>6. x # mx => Arrived(s, mx, Word(s, mx, x)) = x
        BY <1>3 DEF Arrived, Word
    <1>7. Arrived(s, mz, Word(s, z0, z)) = Z /\ Z \in Place /\ deep \in {Unknown, Z}
        BY WordArrives, HeldPlace
    <1>8. Arrived(s, Z, Word(s, deep, z)) = Z
        <2>1. Held(Z, z) = Z
            BY DEF Held
        <2>2. Arrived(s, Z, Word(s, deep, z)) = Held(Z, z)
            <3> HIDE DEF Z, deep
            <3> QED
                BY <1>7, WordArrives
        <2> QED
            BY <2>1, <2>2
    <1>9. FeedNow(s, mf, 0) = mf
        BY DEF FeedNow
    <1>10. m \in Tool /\ h \in Tool
        BY <1>1, <1>2, <1>7, PlaceIs, ToolType
    <1> HIDE DEF Z, mid, deep
    <1>11. RunLine(s, m, one) = Did(a, h, 0)
        BY <1>3, <1>4, <1>7, <1>9, RunArc DEF ArcLine
    <1>12. x = mx => RunLine(s, h, two) = Did(b, e, 0)
        BY <1>3, <1>5, <1>8, <1>9, RunArc DEF ArcLine
    <1>13. x # mx => RunLine(s, m, all) = Did(c, e, 0)
        BY <1>3, <1>6, <1>7, <1>9, RunArc DEF ArcLine
    <1>14. one \in LineSet /\ two \in LineSet /\ all \in LineSet
        <2>1. ASSUME NEW o \in Int, NEW w \in -36 .. 36 \cup {Unknown}, NEW oz \in Place,
                     NEW j \in -4 .. 4
              PROVE  ArcLine(s, o, oz, w, z, j) \in LineSet
            <3>1. z \in -36 .. 36 \cup {Unknown} /\ oz \in Int
                BY PlaceIs, NearIs
            <3>2. Word(s, o, w) \in Digits \cup {Unknown} /\ Word(s, oz, z) \in Digits \cup {Unknown}
                BY <3>1, WordDigits
            <3>3. Emitted(s, j) \in Digits
                BY EmittedNear
            <3>4. "G2" \in Codes /\ 0 \in Digits /\ "none" \in Tags /\ 0 \in Nat
                BY DEF Codes, Digits, Tags
            <3> QED
                BY <3>2, <3>3, <3>4, LineType DEF ArcLine
        <2>2. /\ z0 \in Place /\ deep \in Place /\ x \in -36 .. 36 \cup {Unknown}
              /\ i \in -4 .. 4 /\ -i \in -4 .. 4
            BY <1>1, <1>7, NearIs, PlaceIs
        <2> QED
            BY <1>1, <1>2, <2>1, <2>2
    <1> HIDE DEF one, two, all, a, b, c, m, h, e
    <1>15. ASSUME NEW y \in Tool, NEW l \in LineSet
           PROVE  Reading("run", s, y, <<l>>) = RunLine(s, y, l)
        <2>1. Made("run", s, y, l) = RunLine(s, y, l)
            BY DEF Made
        <2>2. Made("run", s, y, l) \in Outcome(Tool)
            BY RunType DEF Reads
        <2> QED
            BY <2>1, <2>2, ReadOne
    <1>16. CASE x # mx
        BY <1>10, <1>13, <1>14, <1>15, <1>16 DEF all, c, m, e, Z
    <1>17. CASE x = mx
        <2> DEFINE left == <<one>>
                   right == <<two>>
        <2>1. left \in Seq(LineSet) /\ right \in Seq(LineSet)
            BY <1>14
        <2>2. <<one, two>> = left \o right
            BY PairIs
        <2> HIDE DEF left, right
        <2>3. Reading("run", s, m, left \o right) =
                  AndThen(Reading("run", s, m, left),
                          Reading("run", s, Reading("run", s, m, left).at, right))
            BY <1>10, <2>1, RunType, ReadConcat
        <2>4. Reading("run", s, m, left) = Did(a, h, 0)
            BY <1>10, <1>11, <1>14, <1>15 DEF left
        <2>5. Reading("run", s, h, right) = Did(b, e, 0)
            BY <1>10, <1>12, <1>14, <1>15, <1>17 DEF right
        <2>6. /\ Did(a, h, 0).at = h /\ Did(a, h, 0).moves = a /\ Did(a, h, 0).dwell = 0
              /\ Did(b, e, 0).at = e /\ Did(b, e, 0).moves = b /\ Did(b, e, 0).dwell = 0
            BY DEF Did
        <2>7. AndThen(Did(a, h, 0), Did(b, e, 0)) = Did(a \o b, e, 0)
            BY <2>6 DEF AndThen
        <2>8. Reading("run", s, m, <<one, two>>) = Did(a \o b, e, 0)
            BY <2>3, <2>4, <2>5, <2>6, <2>7, <2>2
        <2> QED
            BY <1>17, <2>8 DEF one, two, a, b, m, e, Z, mid, deep
    <1> QED
        BY <1>16, <1>17

\* The moves of an arc: two where it ends at the X it began at.
ArcMoves(x0, z0, x, z, i, f) ==
    IF x = x0
    THEN Move("arc", <<x0, z0>>, <<x0 + 2 * i, z>>, i, f)
         \o Move("arc", <<x0 + 2 * i, z>>, <<x, z>>, -i, f)
    ELSE Move("arc", <<x0, z0>>, <<x, z>>, i, f)

LEMMA PlanArc ==
    ASSUME NEW s, s.post # "hpgl", NEW nx, NEW nz, NEW nf, NEW pen, NEW x, x # Unknown, NEW z, NEW i
    PROVE  PlanCall(s, ToolOf(nx, nz, nf, pen), Arc(x, z, i)) =
               Did(ArcMoves(nx, nz, x, Held(nz, z), i, nf), ToolOf(x, Held(nz, z), nf, pen), 0)
    <1> DEFINE Z == Held(nz, z)
               n == ToolOf(nx, nz, nf, pen)
               c == Arc(x, z, i)
               ms == ArcMoves(nx, nz, x, Z, i, nf)
    <1>1. c.c = "arc" /\ c.x = x /\ c.z = z /\ c.i = i
        BY ArcIs DEF CallOf
    <1>2. n.x = nx /\ n.z = nz /\ n.feed = nf
        BY ToolFields
    <1>3. At(n, x, Z) = ToolOf(x, Z, nf, pen)
        BY ToolAt
    <1>4. Z = IF z = Unknown THEN nz ELSE z
        BY DEF Held
    <1> HIDE DEF c, n, Z
    <1>5. PlanCall(s, n, c) = Did(ms, At(n, x, Z), 0)
        BY <1>1, <1>2, <1>4 DEF PlanCall, ArcMoves
    <1> HIDE DEF ms
    <1>6. PlanCall(s, n, c) = Did(ms, ToolOf(x, Z, nf, pen), 0)
        BY <1>3, <1>5
    <1> QED
        BY <1>6 DEF c, n, Z, ms

LEMMA PlanPlotterArc ==
    ASSUME NEW s, s.post = "hpgl", NEW nx, NEW nz, NEW nf, NEW pen, NEW x, x # Unknown, NEW z, NEW i
    PROVE  PlanCall(s, ToolOf(nx, nz, nf, pen), Arc(x, z, i)) =
               Did(Move("arc", <<nx, nz>>, <<x, nz>>, i, nf), ToolOf(x, nz, nf, pen), 0)
    <1> DEFINE n == ToolOf(nx, nz, nf, pen)
               c == Arc(x, z, i)
               from == <<nx, nz>>
               to == <<x, nz>>
    <1>1. c.c = "arc" /\ c.x = x /\ c.z = z /\ c.i = i
        BY ArcIs DEF CallOf
    <1>2. n.x = nx /\ n.z = nz /\ n.feed = nf
        BY ToolFields
    <1>3. At(n, x, nz) = ToolOf(x, nz, nf, pen)
        BY ToolAt
    <1> HIDE DEF c, n
    <1>4. PlanCall(s, n, c) = Did(Move("arc", from, to, i, nf), At(n, x, nz), 0)
        BY <1>1, <1>2 DEF PlanCall
    <1> HIDE DEF from, to
    <1>5. PlanCall(s, n, c) = Did(Move("arc", from, to, i, nf), ToolOf(x, nz, nf, pen), 0)
        BY <1>3, <1>4
    <1> QED
        BY <1>5 DEF c, n, from, to

\* The three parties of a state, field by field.
LEMMA StandsFields ==
    ASSUME NEW s, NEW t \in Stands(s)
    PROVE  LET p == t[1]
               m == t[2]
               n == t[3]
           IN /\ p = PostOf(p.x, p.z, p.rate, p.pen)
              /\ m = ToolOf(m.x, m.z, m.feed, m.pen)
              /\ n = ToolOf(m.x, m.z, n.feed, n.pen)
              /\ t = <<p, m, n>>
              /\ p \in PostSet /\ m \in Tool /\ n \in Tool
              /\ p.x \in Place /\ p.z \in Place /\ p.rate \in Nat /\ p.pen \in BOOLEAN
              /\ m.x \in Place /\ m.z \in Place /\ m.feed \in Nat /\ m.pen \in BOOLEAN
              /\ n.feed \in Nat /\ n.pen \in BOOLEAN
              /\ p.x \in {Unknown, m.x} /\ p.rate \in {0, m.feed}
              /\ s.post = "hpgl" => p.pen = m.pen
              /\ s.post # "hpgl" => p.z \in {Unknown, m.z} /\ p.pen = FALSE
    <1> DEFINE p == t[1]
               m == t[2]
               n == t[3]
    <1>1. /\ p \in PostSet /\ m \in Spot /\ n \in Spot /\ Agree(s, p, m, n)
          /\ m \in Tool /\ n \in Tool /\ t = <<p, m, n>>
        BY StandsIs
    <1> HIDE DEF p, m, n
    <1>2. /\ p.x \in Place /\ p.z \in Place /\ p.rate \in Nat /\ p.pen \in BOOLEAN
          /\ m.x \in Place /\ m.z \in Place /\ m.feed \in Nat /\ m.pen \in BOOLEAN
          /\ n.feed \in Nat /\ n.pen \in BOOLEAN
        BY <1>1 DEF PostSet, Spot
    <1>3. /\ p = PostOf(p.x, p.z, p.rate, p.pen) /\ m = ToolOf(m.x, m.z, m.feed, m.pen)
          /\ n = ToolOf(n.x, n.z, n.feed, n.pen)
        BY <1>1, PostIs, ToolIs
    <1>4. /\ p.x \in {Unknown, m.x} /\ p.rate \in {0, m.feed} /\ n.x = m.x /\ n.z = m.z
          /\ s.post = "hpgl" => p.pen = m.pen
          /\ s.post # "hpgl" => p.z \in {Unknown, m.z} /\ p.pen = FALSE
        BY <1>1 DEF Agree
    <1> QED
        BY <1>1, <1>2, <1>3, <1>4 DEF p, m, n

\* The three of them from their fields.
Trio(x, z, rate, pen, mx, mz, mf, mp, nf, np) ==
    <<PostOf(x, z, rate, pen), ToolOf(mx, mz, mf, mp), ToolOf(mx, mz, nf, np)>>

LEMMA TrioFields ==
    ASSUME NEW x, NEW z, NEW rate, NEW pen, NEW mx, NEW mz, NEW mf, NEW mp, NEW nf, NEW np
    PROVE  LET u == Trio(x, z, rate, pen, mx, mz, mf, mp, nf, np)
           IN /\ u[1] = PostOf(x, z, rate, pen)
              /\ u[2] = ToolOf(mx, mz, mf, mp) /\ u[3] = ToolOf(mx, mz, nf, np)
              /\ u[1].x = x /\ u[1].z = z /\ u[1].rate = rate /\ u[1].pen = pen
              /\ u[2].feed = mf /\ u[3].feed = nf
    BY PostFields, ToolFields DEF Trio

Stand(s, x, z, rate, pen, mx, mz, mf, mp, nf, np) ==
    /\ x \in Place /\ z \in Place /\ rate \in Nat /\ pen \in BOOLEAN
    /\ mx \in Place /\ mz \in Place /\ mf \in Nat /\ mp \in BOOLEAN
    /\ nf \in Nat /\ np \in BOOLEAN
    /\ x \in {Unknown, mx} /\ rate \in {0, mf}
    /\ s.post = "hpgl" => pen = mp
    /\ s.post # "hpgl" => z \in {Unknown, mz} /\ pen = FALSE

LEMMA TrioStands ==
    ASSUME NEW s, NEW x, NEW z, NEW rate, NEW pen, NEW mx, NEW mz, NEW mf, NEW mp, NEW nf, NEW np,
           Stand(s, x, z, rate, pen, mx, mz, mf, mp, nf, np)
    PROVE  Trio(x, z, rate, pen, mx, mz, mf, mp, nf, np) \in Stands(s)
    <1> DEFINE p == PostOf(x, z, rate, pen)
               m == ToolOf(mx, mz, mf, mp)
               n == ToolOf(mx, mz, nf, np)
               u == <<p, m, n>>
    <1>1. p.x = x /\ p.z = z /\ p.rate = rate /\ p.pen = pen
        BY PostFields
    <1>2. /\ m.x = mx /\ m.z = mz /\ m.feed = mf /\ m.pen = mp
          /\ n.x = mx /\ n.z = mz /\ n.feed = nf
        BY ToolFields
    <1>3. p \in PostSet
        <2>1. x \in Place /\ z \in Place /\ rate \in Nat /\ pen \in BOOLEAN
            BY DEF Stand
        <2> QED
            BY <2>1, PostType
    <1>4. m \in Spot /\ n \in Spot
        BY DEF Stand, ToolOf, Spot
    <1> HIDE DEF p, m, n
    <1>5. Agree(s, p, m, n)
        BY <1>1, <1>2 DEF Agree, Stand
    <1>6. u \in Stands(s)
        BY <1>3, <1>4, <1>5 DEF Stands
    <1> QED
        BY <1>6 DEF p, m, n, Trio

\* The feeds stay what they are.
Carried(t, u) ==
    /\ u[1].rate = t[1].rate
    /\ u[2].feed = t[2].feed /\ u[3].feed = t[3].feed

LEMMA HeldHeld ==
    ASSUME NEW a, NEW old \in {Unknown, a}, NEW new
    PROVE  /\ Held(a, Held(old, new)) = Held(a, new)
           /\ Held(old, new) = Unknown => Held(a, new) = a
           /\ Held(old, new) \in {Unknown, Held(a, new)}
           /\ (new # Unknown \/ old # Unknown) => Held(old, new) # Unknown
    BY DEF Held

\* A rapid is made as planned, wherever the three stand.
LEMMA MoveToStep ==
    ASSUME NEW s \in Setup, NEW t \in Stands(s), NEW x \in Place, NEW z \in Place
    PROVE  \E u \in Stands(s) :
               /\ Same(s, <<MoveTo(x, z)>>, t, u) /\ Carried(t, u)
               /\ x # Unknown \/ t[1].x # Unknown => u[1].x # Unknown
    <1> DEFINE p == t[1]
               m == t[2]
               n == t[3]
               x0 == p.x
               z0 == p.z
               rate == p.rate
               pen == p.pen
               mx == m.x
               mz == m.z
               mf == m.feed
               mp == m.pen
               nf == n.feed
               np == n.pen
               c == MoveTo(x, z)
               X == Held(mx, x)
    <1>1. /\ p = PostOf(x0, z0, rate, pen)
          /\ m = ToolOf(mx, mz, mf, mp) /\ n = ToolOf(mx, mz, nf, np) /\ t = <<p, m, n>>
          /\ p \in PostSet /\ m \in Tool /\ n \in Tool
        BY StandsFields
    <1>2. /\ x0 \in Place /\ z0 \in Place /\ rate \in Nat /\ pen \in BOOLEAN
          /\ mx \in Place /\ mz \in Place /\ mf \in Nat /\ mp \in BOOLEAN
          /\ nf \in Nat /\ np \in BOOLEAN
          /\ x0 \in {Unknown, mx} /\ rate \in {0, mf}
          /\ s.post = "hpgl" => pen = mp
          /\ s.post # "hpgl" => z0 \in {Unknown, mz} /\ pen = FALSE
        BY StandsFields
    <1>3. c \in CallSet
        BY DEF CallSet
    <1>4. /\ X \in Place /\ Held(x0, x) \in Place /\ Held(x0, x) \in {Unknown, X}
          /\ x # Unknown \/ x0 # Unknown => Held(x0, x) # Unknown
          /\ Held(x0, x) = Unknown => X = mx
          /\ Held(mx, Held(x0, x)) = X
        BY <1>2, HeldPlace, HeldHeld
    <1>5. /\ t[1].x = x0 /\ t[1].rate = rate /\ t[2].feed = mf /\ t[3].feed = nf
        OBVIOUS
    <1> HIDE DEF p, m, n, x0, z0, rate, pen, mx, mz, mf, mp, nf, np, c, X
    <1>6. CASE s.post # "hpgl"
        <2> DEFINE Z == Held(mz, z)
                   w == StraightLine(s, "G0", x0, z0, x, z)
                   ms == Move("rapid", <<mx, mz>>, <<X, Z>>, 0, 0)
                   p1 == PostOf(Held(x0, x), Held(z0, z), rate, pen)
                   m1 == ToolOf(X, Z, mf, mp)
                   n1 == ToolOf(X, Z, nf, np)
                   u == Trio(Held(x0, x), Held(z0, z), rate, pen, X, Z, mf, mp, nf, np)
        <2>1. WriteCall(s, p, c) = Wrote(w, p1)
            BY <1>1, <1>6, GcodeMoveTo DEF c
        <2>2. Reading("run", s, m, w) = Did(ms, m1, 0)
            <3>1. z0 \in {Unknown, mz}
                BY <1>2, <1>6
            <3> QED
                BY <1>1, <1>2, <1>6, <3>1, StraightRuns DEF X
        <2>3. PlanCall(s, n, c) = Did(ms, n1, 0)
            BY <1>1, <1>6, PlanStraight DEF c, X
        <2>4. /\ Z \in Place /\ Held(z0, z) \in Place /\ Held(z0, z) \in {Unknown, Z}
            BY <1>2, <1>6, HeldPlace, HeldHeld
        <2>5. /\ u \in Stands(s) /\ u[1].x = Held(x0, x) /\ u[1].rate = rate
              /\ u[2].feed = mf /\ u[3].feed = nf
            <3> DEFINE x1 == Held(x0, x)
                       z1 == Held(z0, z)
            <3> HIDE DEF Z, x1, z1
            <3>1. pen = FALSE /\ z1 \in {Unknown, Z} /\ x1 \in Place /\ z1 \in Place /\ Z \in Place
                BY <1>2, <1>4, <1>6, <2>4 DEF x1, z1
            <3>2. x1 \in {Unknown, X}
                BY <1>4 DEF x1
            <3>3. Trio(x1, z1, rate, pen, X, Z, mf, mp, nf, np) \in Stands(s)
                <4>1. Stand(s, x1, z1, rate, pen, X, Z, mf, mp, nf, np)
                    BY <1>2, <1>4, <1>6, <3>1, <3>2 DEF Stand
                <4> QED
                    BY <4>1, TrioStands
            <3> QED
                BY <3>3, TrioFields DEF x1, z1
        <2>7. u = <<p1, m1, n1>>
            BY DEF Trio
        <2> HIDE DEF p1, m1, n1, ms, w, u
        <2>6. Same(s, <<c>>, t, u)
            BY <1>1, <1>3, <2>1, <2>2, <2>3, <2>7, SameCall
        <2> QED
            BY <1>4, <1>5, <2>5, <2>6 DEF c, Carried
    <1>8. CASE s.post = "hpgl"
        <2> DEFINE to == Held(x0, x)
                   w == PenLines(pen, Up) \o PlotLines(to, 0)
                   k == IF 0 # 0 THEN "arc" ELSE IF Up THEN "cut" ELSE "rapid"
                   f == IF Up THEN mf ELSE 0
                   ms == Move(k, <<mx, mz>>, <<X, mz>>, 0, f)
                   p1 == PostOf(to, z0, rate, Up)
                   m1 == ToolOf(X, mz, mf, Up)
                   n1 == ToolOf(X, mz, nf, np)
                   u == Trio(to, z0, rate, Up, X, mz, mf, Up, nf, np)
        <2>1. WriteCall(s, p, c) = Wrote(w, p1)
            BY <1>1, <1>8, PlotterMoveTo DEF c
        <2>2. k = "rapid" /\ f = 0 /\ Up \in BOOLEAN
            BY DEF Up
        <2>3. Reading("run", s, m, w) = Did(ms, m1, 0)
            <3>1. Reading("run", s, m, w) =
                      Did(IF to = Unknown THEN <<>> ELSE Move(k, <<mx, mz>>, <<Held(mx, to), mz>>, 0, f),
                          ToolOf(Held(mx, to), mz, mf, Up), 0)
                <4>1. /\ Up \in {Up, Down} /\ 0 \in Digits /\ to \in Place
                      /\ pen = mp
                    BY <1>2, <1>4, <1>8 DEF Digits
                <4> HIDE DEF to, w, k, f
                <4>2. Reading("run", s, ToolOf(mx, mz, mf, mp), PenLines(mp, Up) \o PlotLines(to, 0)) =
                          Did(IF to = Unknown THEN <<>>
                              ELSE Move(k, <<mx, mz>>, <<Held(mx, to), mz>>, 0, f),
                              ToolOf(Held(mx, to), mz, mf, Up), 0)
                    BY <1>2, <1>8, <4>1, PlotterRuns DEF k, f
                <4> QED
                    BY <1>1, <4>1, <4>2 DEF w
            <3>2. to = Unknown => ms = <<>>
                BY <1>4, <2>2 DEF Move, Tagged
            <3> QED
                BY <1>4, <3>1, <3>2
        <2>4. PlanCall(s, n, c) = Did(ms, n1, 0)
            <3>1. PlanCall(s, n, c) = Did(Move("rapid", <<mx, mz>>, <<X, mz>>, 0, 0), n1, 0)
                BY <1>1, <1>8, PlanStraight DEF c, X
            <3> QED
                BY <2>2, <3>1
        <2>5. /\ u \in Stands(s) /\ u[1].x = to /\ u[1].rate = rate
              /\ u[2].feed = mf /\ u[3].feed = nf
            <3> HIDE DEF to
            <3>1. to \in {Unknown, X} /\ to \in Place
                BY <1>4 DEF to
            <3>2. Trio(to, z0, rate, Up, X, mz, mf, Up, nf, np) \in Stands(s)
                <4>1. Stand(s, to, z0, rate, Up, X, mz, mf, Up, nf, np)
                    BY <1>2, <1>4, <1>8, <2>2, <3>1 DEF Stand
                <4> QED
                    BY <4>1, TrioStands
            <3> QED
                BY <3>2, TrioFields
        <2>7. u = <<p1, m1, n1>>
            BY DEF Trio
        <2> HIDE DEF p1, m1, n1, ms, w, u
        <2>6. Same(s, <<c>>, t, u)
            BY <1>1, <1>3, <2>1, <2>3, <2>4, <2>7, SameCall
        <2> QED
            BY <1>4, <1>5, <2>5, <2>6 DEF c, Carried
    <1> QED
        BY <1>6, <1>8

\* A cut too, at the feed commanded.
LEMMA LinearStep ==
    ASSUME NEW s \in Setup, NEW t \in Stands(s), t[3].feed = t[2].feed, NEW x \in Place, NEW z \in Place
    PROVE  \E u \in Stands(s) :
               /\ Same(s, <<Linear(x, z)>>, t, u) /\ Carried(t, u)
               /\ x # Unknown \/ t[1].x # Unknown => u[1].x # Unknown
    <1> DEFINE p == t[1]
               m == t[2]
               n == t[3]
               x0 == p.x
               z0 == p.z
               rate == p.rate
               pen == p.pen
               mx == m.x
               mz == m.z
               mf == m.feed
               mp == m.pen
               nf == n.feed
               np == n.pen
               c == Linear(x, z)
               X == Held(mx, x)
    <1>1. /\ p = PostOf(x0, z0, rate, pen)
          /\ m = ToolOf(mx, mz, mf, mp) /\ n = ToolOf(mx, mz, nf, np) /\ t = <<p, m, n>>
          /\ p \in PostSet /\ m \in Tool /\ n \in Tool
        BY StandsFields
    <1>2. /\ x0 \in Place /\ z0 \in Place /\ rate \in Nat /\ pen \in BOOLEAN
          /\ mx \in Place /\ mz \in Place /\ mf \in Nat /\ mp \in BOOLEAN
          /\ nf \in Nat /\ np \in BOOLEAN
          /\ x0 \in {Unknown, mx} /\ rate \in {0, mf}
          /\ s.post = "hpgl" => pen = mp
          /\ s.post # "hpgl" => z0 \in {Unknown, mz} /\ pen = FALSE
        BY StandsFields
    <1>3. c \in CallSet
        BY DEF CallSet
    <1>4. /\ X \in Place /\ Held(x0, x) \in Place /\ Held(x0, x) \in {Unknown, X}
          /\ x # Unknown \/ x0 # Unknown => Held(x0, x) # Unknown
          /\ Held(x0, x) = Unknown => X = mx
          /\ Held(mx, Held(x0, x)) = X
        BY <1>2, HeldPlace, HeldHeld
    <1>5. /\ t[1].x = x0 /\ t[1].rate = rate /\ t[2].feed = mf /\ t[3].feed = nf
        OBVIOUS
    <1>7. nf = mf
        OBVIOUS
    <1> HIDE DEF p, m, n, x0, z0, rate, pen, mx, mz, mf, mp, nf, np, c, X
    <1>6. CASE s.post # "hpgl"
        <2> DEFINE Z == Held(mz, z)
                   w == StraightLine(s, "G1", x0, z0, x, z)
                   ms == Move(CutKind(<<mx, mz>>, <<X, Z>>), <<mx, mz>>, <<X, Z>>, 0, mf)
                   p1 == PostOf(Held(x0, x), Held(z0, z), rate, pen)
                   m1 == ToolOf(X, Z, mf, mp)
                   n1 == ToolOf(X, Z, nf, np)
                   u == Trio(Held(x0, x), Held(z0, z), rate, pen, X, Z, mf, mp, nf, np)
        <2>1. WriteCall(s, p, c) = Wrote(w, p1)
            BY <1>1, <1>6, GcodeLinear DEF c
        <2>2. Reading("run", s, m, w) = Did(ms, m1, 0)
            <3>1. z0 \in {Unknown, mz}
                BY <1>2, <1>6
            <3> QED
                BY <1>1, <1>2, <1>6, <3>1, StraightRuns DEF X
        <2>3. PlanCall(s, n, c) = Did(ms, n1, 0)
            BY <1>1, <1>6, <1>7, PlanStraight DEF c, X
        <2>4. /\ Z \in Place /\ Held(z0, z) \in Place /\ Held(z0, z) \in {Unknown, Z}
            BY <1>2, <1>6, HeldPlace, HeldHeld
        <2>5. /\ u \in Stands(s) /\ u[1].x = Held(x0, x) /\ u[1].rate = rate
              /\ u[2].feed = mf /\ u[3].feed = nf
            <3> DEFINE x1 == Held(x0, x)
                       z1 == Held(z0, z)
            <3> HIDE DEF Z, x1, z1
            <3>1. pen = FALSE /\ z1 \in {Unknown, Z} /\ x1 \in Place /\ z1 \in Place /\ Z \in Place
                BY <1>2, <1>4, <1>6, <2>4 DEF x1, z1
            <3>2. x1 \in {Unknown, X}
                BY <1>4 DEF x1
            <3>3. Trio(x1, z1, rate, pen, X, Z, mf, mp, nf, np) \in Stands(s)
                <4>1. Stand(s, x1, z1, rate, pen, X, Z, mf, mp, nf, np)
                    BY <1>2, <1>4, <1>6, <3>1, <3>2 DEF Stand
                <4> QED
                    BY <4>1, TrioStands
            <3> QED
                BY <3>3, TrioFields DEF x1, z1
        <2>7. u = <<p1, m1, n1>>
            BY DEF Trio
        <2> HIDE DEF p1, m1, n1, ms, w, u
        <2>6. Same(s, <<c>>, t, u)
            BY <1>1, <1>3, <2>1, <2>2, <2>3, <2>7, SameCall
        <2> QED
            BY <1>4, <1>5, <2>5, <2>6 DEF c, Carried
    <1>8. CASE s.post = "hpgl"
        <2> DEFINE to == Held(x0, x)
                   w == PenLines(pen, Down) \o PlotLines(to, 0)
                   k == IF 0 # 0 THEN "arc" ELSE IF Down THEN "cut" ELSE "rapid"
                   f == IF Down THEN mf ELSE 0
                   ms == Move(k, <<mx, mz>>, <<X, mz>>, 0, f)
                   p1 == PostOf(to, z0, rate, Down)
                   m1 == ToolOf(X, mz, mf, Down)
                   n1 == ToolOf(X, mz, nf, np)
                   u == Trio(to, z0, rate, Down, X, mz, mf, Down, nf, np)
        <2>1. WriteCall(s, p, c) = Wrote(w, p1)
            BY <1>1, <1>8, PlotterLinear DEF c
        <2>2. k = "cut" /\ f = mf /\ Down \in BOOLEAN
            BY DEF Down
        <2>3. Reading("run", s, m, w) = Did(ms, m1, 0)
            <3>1. Reading("run", s, m, w) =
                      Did(IF to = Unknown THEN <<>> ELSE Move(k, <<mx, mz>>, <<Held(mx, to), mz>>, 0, f),
                          ToolOf(Held(mx, to), mz, mf, Down), 0)
                <4>1. /\ Down \in {Up, Down} /\ 0 \in Digits /\ to \in Place
                      /\ pen = mp
                    BY <1>2, <1>4, <1>8 DEF Digits
                <4> HIDE DEF to, w, k, f
                <4>2. Reading("run", s, ToolOf(mx, mz, mf, mp), PenLines(mp, Down) \o PlotLines(to, 0)) =
                          Did(IF to = Unknown THEN <<>>
                              ELSE Move(k, <<mx, mz>>, <<Held(mx, to), mz>>, 0, f),
                              ToolOf(Held(mx, to), mz, mf, Down), 0)
                    BY <1>2, <1>8, <4>1, PlotterRuns DEF k, f
                <4> QED
                    BY <1>1, <4>1, <4>2 DEF w
            <3>2. to = Unknown => ms = <<>>
                BY <1>4, <2>2 DEF Move, Tagged
            <3> QED
                BY <1>4, <3>1, <3>2
        <2>4. PlanCall(s, n, c) = Did(ms, n1, 0)
            <3> DEFINE from == <<mx, mz>>
                       across == <<X, mz>>
            <3>1. PlanCall(s, n, c) = Did(Move(CutKind(from, across), from, across, 0, nf), n1, 0)
                BY <1>1, <1>8, PlanStraight DEF c, X
            <3>2. Move(CutKind(from, across), from, across, 0, nf) = ms
                <4>1. CASE X = mx
                    <5>1. CutKind(from, across) # "arc" /\ from = across
                        BY <4>1 DEF CutKind
                    <5> HIDE DEF from, across
                    <5> QED
                        BY <2>2, <5>1 DEF Move, Tagged, from, across
                <4>2. CASE X # mx
                    <5>1. CutKind(from, across) = "cut"
                        BY <4>2 DEF CutKind
                    <5> QED
                        BY <1>7, <2>2, <5>1
                <4> QED
                    BY <4>1, <4>2
            <3> QED
                BY <3>1, <3>2
        <2>5. /\ u \in Stands(s) /\ u[1].x = to /\ u[1].rate = rate
              /\ u[2].feed = mf /\ u[3].feed = nf
            <3> HIDE DEF to
            <3>1. to \in {Unknown, X} /\ to \in Place
                BY <1>4 DEF to
            <3>2. Trio(to, z0, rate, Down, X, mz, mf, Down, nf, np) \in Stands(s)
                <4>1. Stand(s, to, z0, rate, Down, X, mz, mf, Down, nf, np)
                    BY <1>2, <1>4, <1>8, <2>2, <3>1 DEF Stand
                <4> QED
                    BY <4>1, TrioStands
            <3> QED
                BY <3>2, TrioFields
        <2>7. u = <<p1, m1, n1>>
            BY DEF Trio
        <2> HIDE DEF p1, m1, n1, ms, w, u
        <2>6. Same(s, <<c>>, t, u)
            BY <1>1, <1>3, <2>1, <2>3, <2>4, <2>7, SameCall
        <2> QED
            BY <1>4, <1>5, <2>5, <2>6 DEF c, Carried
    <1> QED
        BY <1>6, <1>8

\* The types of the three behind a stand.
LEMMA StandType ==
    ASSUME NEW s, NEW x, NEW z, NEW rate, NEW pen, NEW mx, NEW mz, NEW mf, NEW mp, NEW nf, NEW np,
           Stand(s, x, z, rate, pen, mx, mz, mf, mp, nf, np)
    PROVE  /\ PostOf(x, z, rate, pen) \in PostSet
           /\ ToolOf(mx, mz, mf, mp) \in Tool /\ ToolOf(mx, mz, nf, np) \in Tool
    <1>1. /\ x \in Place /\ z \in Place /\ rate \in Nat /\ pen \in BOOLEAN
          /\ mx \in Int /\ mz \in Int /\ mf \in Nat /\ mp \in BOOLEAN
          /\ nf \in Nat /\ np \in BOOLEAN
        BY PlaceIs DEF Stand
    <1> QED
        BY <1>1, PostType, ToolType

LEMMA TrioIs ==
    ASSUME NEW s, NEW t \in Stands(s)
    PROVE  LET p == t[1]
               m == t[2]
               n == t[3]
           IN /\ t = Trio(p.x, p.z, p.rate, p.pen, m.x, m.z, m.feed, m.pen, n.feed, n.pen)
              /\ Stand(s, p.x, p.z, p.rate, p.pen, m.x, m.z, m.feed, m.pen, n.feed, n.pen)
    BY StandsFields DEF Trio, Stand

\* A call that writes one line, and a call that writes none.
LEMMA LineStep ==
    ASSUME NEW s \in Setup, NEW c \in CallSet, NEW p \in PostSet, NEW m \in Tool, NEW n \in Tool,
           NEW l \in LineSet, NEW p1, NEW m1, NEW n1, NEW ms, NEW dwell, NEW t, NEW u,
           t = <<p, m, n>>, u = <<p1, m1, n1>>,
           WriteCall(s, p, c) = Wrote(<<l>>, p1),
           RunLine(s, m, l) = Did(ms, m1, dwell),
           PlanCall(s, n, c) = Did(ms, n1, dwell)
    PROVE  Same(s, <<c>>, t, u)
    <1>1. Made("run", s, m, l) = RunLine(s, m, l)
        BY DEF Made
    <1>2. Made("run", s, m, l) \in Outcome(Tool)
        BY RunType DEF Reads
    <1>3. Reading("run", s, m, <<l>>) = Did(ms, m1, dwell)
        BY <1>1, <1>2, ReadOne
    <1> DEFINE ls == <<l>>
    <1>4. WriteCall(s, p, c) = Wrote(ls, p1) /\ Reading("run", s, m, ls) = Did(ms, m1, dwell)
        BY <1>3
    <1> HIDE DEF ls
    <1> QED
        BY <1>4, SameCall

LEMMA SilentStep ==
    ASSUME NEW s \in Setup, NEW c \in CallSet, NEW p \in PostSet, NEW m \in Tool, NEW n \in Tool,
           NEW p1, NEW n1, NEW t, NEW u, t = <<p, m, n>>, u = <<p1, m, n1>>,
           WriteCall(s, p, c) = Wrote(<<>>, p1), PlanCall(s, n, c) = Did(<<>>, n1, 0)
    PROVE  Same(s, <<c>>, t, u)
    <1> DEFINE ls == <<>>
               ms == <<>>
    <1>1. Reading("run", s, m, ls) = Did(ms, m, 0)
        BY ReadNone
    <1>2. WriteCall(s, p, c) = Wrote(ls, p1) /\ PlanCall(s, n, c) = Did(ms, n1, 0)
        OBVIOUS
    <1> HIDE DEF ls, ms
    <1> QED
        BY <1>1, <1>2, SameCall

\* What the plan makes of the calls that do not cut.
LEMMA PlanFeedrate ==
    ASSUME NEW s, NEW nx, NEW nz, NEW nf, NEW pen, NEW v
    PROVE  PlanCall(s, ToolOf(nx, nz, nf, pen), Feedrate(v)) =
               Did(<<>>, ToolOf(nx, nz, IF s.post = "hpgl" THEN Speed(v) ELSE v, pen), 0)
    <1> DEFINE n == ToolOf(nx, nz, nf, pen)
               c == Feedrate(v)
               ms == <<>>
    <1>1. c.c = "feed" /\ c.v = v
        BY FeedrateIs DEF CallOf
    <1>2. n.x = nx /\ n.z = nz /\ n.feed = nf
        BY ToolFields
    <1>3. Fed(n, IF s.post = "hpgl" THEN Speed(v) ELSE v) = ToolOf(nx, nz, IF s.post = "hpgl" THEN Speed(v) ELSE v, pen)
        BY ToolFed
    <1> HIDE DEF c, n
    <1>4. PlanCall(s, n, c) = Did(ms, Fed(n, IF s.post = "hpgl" THEN Speed(v) ELSE v), 0)
        BY <1>1, <1>2 DEF PlanCall
    <1> QED
        BY <1>3, <1>4 DEF c, n

LEMMA PlanDrill ==
    ASSUME NEW s, NEW nx, NEW nz, NEW nf, NEW pen, NEW x, NEW z, NEW q, NEW v, NEW p
    PROVE  PlanCall(s, ToolOf(nx, nz, nf, pen), Drill(x, z, q, v, p)) =
               Did(DrillMoves("none", <<nx, nz>>, x, z, Retract, nf), ToolOf(x, Retract, nf, pen), p)
    <1> DEFINE n == ToolOf(nx, nz, nf, pen)
               c == Drill(x, z, q, v, p)
               ms == DrillMoves("none", <<nx, nz>>, x, z, Retract, nf)
    <1>1. c.c = "drill" /\ c.x = x /\ c.z = z /\ c.r = Retract /\ c.p = p
        BY DrillIs DEF CallOf
    <1>2. n.x = nx /\ n.z = nz /\ n.feed = nf
        BY ToolFields
    <1>3. At(n, x, Retract) = ToolOf(x, Retract, nf, pen)
        BY ToolAt
    <1> HIDE DEF c, n
    <1>4. PlanCall(s, n, c) = Did(ms, At(n, x, Retract), p)
        BY <1>1, <1>2 DEF PlanCall
    <1> QED
        BY <1>3, <1>4 DEF c, n

LEMMA PlanDwell ==
    ASSUME NEW s, s.post # "hpgl", NEW nx, NEW nz, NEW nf, NEW pen, NEW p
    PROVE  PlanCall(s, ToolOf(nx, nz, nf, pen), Dwell(p)) =
               Did(<<>>, ToolOf(nx, nz, nf, pen), p)
    <1> DEFINE n == ToolOf(nx, nz, nf, pen)
               c == Dwell(p)
               ms == <<>>
    <1>1. c.c = "dwell" /\ c.p = p
        BY DwellIs DEF CallOf
    <1>2. n.x = nx /\ n.z = nz /\ n.feed = nf
        BY ToolFields
    <1> HIDE DEF c, n
    <1>3. PlanCall(s, n, c) = Did(ms, n, p)
        BY <1>1, <1>2 DEF PlanCall
    <1> QED
        BY <1>3 DEF c, n

LEMMA PlanStation ==
    ASSUME NEW s, s.post # "hpgl", NEW nx, NEW nz, NEW nf, NEW pen
    PROVE  PlanCall(s, ToolOf(nx, nz, nf, pen), Station) =
               Did(<<>>, ToolOf(Unknown, Unknown, nf, pen), 0)
    <1> DEFINE n == ToolOf(nx, nz, nf, pen)
               c == Station
               ms == <<>>
    <1>1. c.c = "station"
        BY StationIs DEF CallOf
    <1>2. n.x = nx /\ n.z = nz /\ n.feed = nf
        BY ToolFields
    <1>3. At(n, Unknown, Unknown) = ToolOf(Unknown, Unknown, nf, pen)
        BY ToolAt
    <1> HIDE DEF c, n
    <1>4. PlanCall(s, n, c) = Did(ms, At(n, Unknown, Unknown), 0)
        BY <1>1, <1>2 DEF PlanCall
    <1> QED
        BY <1>3, <1>4 DEF c, n

LEMMA PlanHome ==
    ASSUME NEW s, s.post # "hpgl", NEW nx, NEW nz, NEW nf, NEW pen
    PROVE  PlanCall(s, ToolOf(nx, nz, nf, pen), Home) =
               Did(<<>>, ToolOf(Unknown, Unknown, nf, pen), 0)
    <1> DEFINE n == ToolOf(nx, nz, nf, pen)
               c == Home
               ms == <<>>
    <1>1. c.c = "home"
        BY HomeIs DEF CallOf
    <1>2. n.x = nx /\ n.z = nz /\ n.feed = nf
        BY ToolFields
    <1>3. At(n, Unknown, Unknown) = ToolOf(Unknown, Unknown, nf, pen)
        BY ToolAt
    <1> HIDE DEF c, n
    <1>4. PlanCall(s, n, c) = Did(ms, At(n, Unknown, Unknown), 0)
        BY <1>1, <1>2 DEF PlanCall
    <1> QED
        BY <1>3, <1>4 DEF c, n

LEMMA PlanProbe ==
    ASSUME NEW s, s.post # "hpgl", NEW nx, NEW nz, NEW nf, NEW pen, NEW v
    PROVE  PlanCall(s, ToolOf(nx, nz, nf, pen), ProbeZ(v)) =
               Did(Move("probe", <<nx, nz>>, <<nx, Unknown>>, 0, v), ToolOf(nx, Unknown, nf, pen), 0)
    <1> DEFINE n == ToolOf(nx, nz, nf, pen)
               c == ProbeZ(v)
               ms == Move("probe", <<nx, nz>>, <<nx, Unknown>>, 0, v)
    <1>1. c.c = "probe" /\ c.v = v
        BY ProbeZIs DEF CallOf
    <1>2. n.x = nx /\ n.z = nz /\ n.feed = nf
        BY ToolFields
    <1>3. At(n, nx, Unknown) = ToolOf(nx, Unknown, nf, pen)
        BY ToolAt
    <1> HIDE DEF c, n
    <1>4. PlanCall(s, n, c) = Did(ms, At(n, nx, Unknown), 0)
        BY <1>1, <1>2 DEF PlanCall
    <1> QED
        BY <1>3, <1>4 DEF c, n

LEMMA PlanSetZ ==
    ASSUME NEW s, s.post # "hpgl", NEW nx, NEW nz, NEW nf, NEW pen, NEW z
    PROVE  PlanCall(s, ToolOf(nx, nz, nf, pen), SetZ(z)) =
               Did(<<>>, ToolOf(nx, z, nf, pen), 0)
    <1> DEFINE n == ToolOf(nx, nz, nf, pen)
               c == SetZ(z)
               ms == <<>>
    <1>1. c.c = "setz" /\ c.z = z
        BY SetZIs DEF CallOf
    <1>2. n.x = nx /\ n.z = nz /\ n.feed = nf
        BY ToolFields
    <1>3. At(n, nx, z) = ToolOf(nx, z, nf, pen)
        BY ToolAt
    <1> HIDE DEF c, n
    <1>4. PlanCall(s, n, c) = Did(ms, At(n, nx, z), 0)
        BY <1>1, <1>2 DEF PlanCall
    <1> QED
        BY <1>3, <1>4 DEF c, n

LEMMA PlanApply ==
    ASSUME NEW s, s.post # "hpgl", NEW nx, NEW nz, NEW nf, NEW pen
    PROVE  PlanCall(s, ToolOf(nx, nz, nf, pen), ApplyProbed) =
               Did(<<>>, ToolOf(nx, IF s.post = "grbl" THEN nz ELSE Unknown, nf, pen), 0)
    <1> DEFINE n == ToolOf(nx, nz, nf, pen)
               c == ApplyProbed
               ms == <<>>
    <1>1. c.c = "tlo"
        BY ApplyProbedIs DEF CallOf
    <1>2. n.x = nx /\ n.z = nz /\ n.feed = nf
        BY ToolFields
    <1>3. At(n, nx, IF s.post = "grbl" THEN nz ELSE Unknown) = ToolOf(nx, IF s.post = "grbl" THEN nz ELSE Unknown, nf, pen)
        BY ToolAt
    <1> HIDE DEF c, n
    <1>4. PlanCall(s, n, c) = Did(ms, At(n, nx, IF s.post = "grbl" THEN nz ELSE Unknown), 0)
        BY <1>1, <1>2 DEF PlanCall
    <1> QED
        BY <1>3, <1>4 DEF c, n

LEMMA PlanMarker ==
    ASSUME NEW s, s.post # "hpgl", NEW nx, NEW nz, NEW nf, NEW pen, NEW id
    PROVE  PlanCall(s, ToolOf(nx, nz, nf, pen), Marker(id)) =
               Did(<<>>, ToolOf(nx, nz, nf, pen), 0)
    <1> DEFINE n == ToolOf(nx, nz, nf, pen)
               c == Marker(id)
               ms == <<>>
    <1>1. c.c = "marker"
        BY MarkerIs DEF CallOf
    <1>2. n.x = nx /\ n.z = nz /\ n.feed = nf
        BY ToolFields
    <1>3. At(n, nx, nz) = ToolOf(nx, nz, nf, pen)
        BY ToolAt
    <1> HIDE DEF c, n
    <1>4. PlanCall(s, n, c) = Did(ms, At(n, nx, nz), 0)
        BY <1>1, <1>2 DEF PlanCall
    <1> QED
        BY <1>3, <1>4 DEF c, n

\* The one-line calls of the G-code posts.
LEMMA DwellStep ==
    ASSUME NEW s \in Setup, s.post # "hpgl", NEW x0, NEW z0, NEW rate, NEW pen, NEW mx, NEW mz, NEW mf, NEW mp,
           NEW nf, NEW np, Stand(s, x0, z0, rate, pen, mx, mz, mf, mp, nf, np), NEW d \in Nat
    PROVE  Same(s, <<Dwell(d)>>, Trio(x0, z0, rate, pen, mx, mz, mf, mp, nf, np),
                Trio(x0, z0, rate, pen, mx, mz, mf, mp, nf, np))
    <1> DEFINE p == PostOf(x0, z0, rate, pen)
               m == ToolOf(mx, mz, mf, mp)
               n == ToolOf(mx, mz, nf, np)
               p1 == PostOf(x0, z0, rate, pen)
               m1 == ToolOf(mx, mz, mf, mp)
               n1 == ToolOf(mx, mz, nf, np)
               c == Dwell(d)
               l == LineOf("G4", Unknown, Unknown, 0, 0, 0, d, "none")
               ms == <<>>
    <1>1. p \in PostSet /\ m \in Tool /\ n \in Tool
        BY StandType
    <1>2. c \in CallSet
        BY DEF CallSet
    <1>3. /\ {"G4", "G53", "G28", "G38.2", "G92", "G43.1", "OP", "G81", "none"} \subseteq Codes
          /\ Kinds \cup {"none"} \subseteq Tags /\ "none" \in Kinds \cup {"none"}
          /\ Unknown \in Digits \cup {Unknown} /\ -4 \in Digits \cup {Unknown} /\ 0 \in Digits
          /\ 0 \in Nat
        BY DEF Codes, Tags, Digits
    <1>4. l \in LineSet
        BY <1>3, LineType
    <1>5. WriteCall(s, p, c) = Wrote(<<l>>, p1)
        BY GcodePlain
    <1>6. RunLine(s, m, l) = Did(ms, m1, d)
        BY RunDwell
    <1>7. PlanCall(s, n, c) = Did(ms, n1, d)
        BY PlanDwell
    <1>8. /\ Trio(x0, z0, rate, pen, mx, mz, mf, mp, nf, np) = <<p, m, n>>
          /\ Trio(x0, z0, rate, pen, mx, mz, mf, mp, nf, np) = <<p1, m1, n1>>
        BY DEF Trio
    <1> HIDE DEF p, m, n, c, l, p1, m1, n1, ms
    <1> QED
        BY <1>1, <1>2, <1>4, <1>5, <1>6, <1>7, <1>8, LineStep DEF c

LEMMA StationStep ==
    ASSUME NEW s \in Setup, s.post # "hpgl", NEW x0, NEW z0, NEW rate, NEW pen, NEW mx, NEW mz, NEW mf, NEW mp,
           NEW nf, NEW np, Stand(s, x0, z0, rate, pen, mx, mz, mf, mp, nf, np)
    PROVE  Same(s, <<Station>>, Trio(x0, z0, rate, pen, mx, mz, mf, mp, nf, np),
                Trio(Unknown, Unknown, rate, pen, Unknown, Unknown, mf, mp, nf, np))
    <1> DEFINE p == PostOf(x0, z0, rate, pen)
               m == ToolOf(mx, mz, mf, mp)
               n == ToolOf(mx, mz, nf, np)
               p1 == PostOf(Unknown, Unknown, rate, pen)
               m1 == ToolOf(Unknown, Unknown, mf, mp)
               n1 == ToolOf(Unknown, Unknown, nf, np)
               c == Station
               l == LineOf("G53", Unknown, Unknown, 0, 0, 0, 0, "none")
               ms == <<>>
    <1>1. p \in PostSet /\ m \in Tool /\ n \in Tool
        BY StandType
    <1>2. c \in CallSet
        BY DEF CallSet
    <1>3. /\ {"G4", "G53", "G28", "G38.2", "G92", "G43.1", "OP", "G81", "none"} \subseteq Codes
          /\ Kinds \cup {"none"} \subseteq Tags /\ "none" \in Kinds \cup {"none"}
          /\ Unknown \in Digits \cup {Unknown} /\ -4 \in Digits \cup {Unknown} /\ 0 \in Digits
          /\ 0 \in Nat
        BY DEF Codes, Tags, Digits
    <1>4. l \in LineSet
        BY <1>3, LineType
    <1>5. WriteCall(s, p, c) = Wrote(<<l>>, p1)
        BY GcodePlain
    <1>6. RunLine(s, m, l) = Did(ms, m1, 0)
        BY RunStation DEF FeedNow
    <1>7. PlanCall(s, n, c) = Did(ms, n1, 0)
        BY PlanStation
    <1>8. /\ Trio(x0, z0, rate, pen, mx, mz, mf, mp, nf, np) = <<p, m, n>>
          /\ Trio(Unknown, Unknown, rate, pen, Unknown, Unknown, mf, mp, nf, np) = <<p1, m1, n1>>
        BY DEF Trio
    <1> HIDE DEF p, m, n, c, l, p1, m1, n1, ms
    <1> QED
        BY <1>1, <1>2, <1>4, <1>5, <1>6, <1>7, <1>8, LineStep DEF c

LEMMA HomeStep ==
    ASSUME NEW s \in Setup, s.post # "hpgl", NEW x0, NEW z0, NEW rate, NEW pen, NEW mx, NEW mz, NEW mf, NEW mp,
           NEW nf, NEW np, Stand(s, x0, z0, rate, pen, mx, mz, mf, mp, nf, np)
    PROVE  Same(s, <<Home>>, Trio(x0, z0, rate, pen, mx, mz, mf, mp, nf, np),
                Trio(x0, z0, rate, pen, Unknown, Unknown, mf, mp, nf, np))
    <1> DEFINE p == PostOf(x0, z0, rate, pen)
               m == ToolOf(mx, mz, mf, mp)
               n == ToolOf(mx, mz, nf, np)
               p1 == PostOf(x0, z0, rate, pen)
               m1 == ToolOf(Unknown, Unknown, mf, mp)
               n1 == ToolOf(Unknown, Unknown, nf, np)
               c == Home
               l == LineOf("G28", Unknown, Unknown, 0, 0, 0, 0, "none")
               ms == <<>>
    <1>1. p \in PostSet /\ m \in Tool /\ n \in Tool
        BY StandType
    <1>2. c \in CallSet
        BY DEF CallSet
    <1>3. /\ {"G4", "G53", "G28", "G38.2", "G92", "G43.1", "OP", "G81", "none"} \subseteq Codes
          /\ Kinds \cup {"none"} \subseteq Tags /\ "none" \in Kinds \cup {"none"}
          /\ Unknown \in Digits \cup {Unknown} /\ -4 \in Digits \cup {Unknown} /\ 0 \in Digits
          /\ 0 \in Nat
        BY DEF Codes, Tags, Digits
    <1>4. l \in LineSet
        BY <1>3, LineType
    <1>5. WriteCall(s, p, c) = Wrote(<<l>>, p1)
        BY GcodePlain
    <1>6. RunLine(s, m, l) = Did(ms, m1, 0)
        BY RunHome DEF FeedNow
    <1>7. PlanCall(s, n, c) = Did(ms, n1, 0)
        BY PlanHome
    <1>8. /\ Trio(x0, z0, rate, pen, mx, mz, mf, mp, nf, np) = <<p, m, n>>
          /\ Trio(x0, z0, rate, pen, Unknown, Unknown, mf, mp, nf, np) = <<p1, m1, n1>>
        BY DEF Trio
    <1> HIDE DEF p, m, n, c, l, p1, m1, n1, ms
    <1> QED
        BY <1>1, <1>2, <1>4, <1>5, <1>6, <1>7, <1>8, LineStep DEF c

LEMMA ProbeStep ==
    ASSUME NEW s \in Setup, s.post # "hpgl", NEW x0, NEW z0, NEW rate, NEW pen, NEW mx, NEW mz, NEW mf, NEW mp,
           NEW nf, NEW np, Stand(s, x0, z0, rate, pen, mx, mz, mf, mp, nf, np), NEW v \in Nat \ {0}, ~ s.inch
    PROVE  Same(s, <<ProbeZ(v)>>, Trio(x0, z0, rate, pen, mx, mz, mf, mp, nf, np),
                Trio(Unknown, Unknown, rate, pen, mx, Unknown, v, mp, nf, np))
    <1> DEFINE p == PostOf(x0, z0, rate, pen)
               m == ToolOf(mx, mz, mf, mp)
               n == ToolOf(mx, mz, nf, np)
               p1 == PostOf(Unknown, Unknown, rate, pen)
               m1 == ToolOf(mx, Unknown, v, mp)
               n1 == ToolOf(mx, Unknown, nf, np)
               c == ProbeZ(v)
               l == LineOf("G38.2", Unknown, -4, 0, 0, v, 0, "none")
               ms == Move("probe", <<mx, mz>>, <<mx, Unknown>>, 0, v)
    <1>1. p \in PostSet /\ m \in Tool /\ n \in Tool
        BY StandType
    <1>2. c \in CallSet
        BY DEF CallSet
    <1>3. /\ {"G4", "G53", "G28", "G38.2", "G92", "G43.1", "OP", "G81", "none"} \subseteq Codes
          /\ Kinds \cup {"none"} \subseteq Tags /\ "none" \in Kinds \cup {"none"}
          /\ Unknown \in Digits \cup {Unknown} /\ -4 \in Digits \cup {Unknown} /\ 0 \in Digits
          /\ 0 \in Nat
        BY DEF Codes, Tags, Digits
    <1>4. l \in LineSet
        BY <1>3, LineType
    <1>5. WriteCall(s, p, c) = Wrote(<<l>>, p1)
        BY GcodePlain
    <1>6. RunLine(s, m, l) = Did(ms, m1, 0)
        <2>1. FeedNow(s, mf, v) = v
            BY DEF FeedNow, Mm
        <2>2. RunLine(s, m, l) = Did(Move("probe", <<mx, mz>>, <<mx, Unknown>>, 0, FeedNow(s, mf, v)),
                                     ToolOf(mx, Unknown, FeedNow(s, mf, v), mp), 0)
            BY RunProbe
        <2> QED
            BY <2>1, <2>2
    <1>7. PlanCall(s, n, c) = Did(ms, n1, 0)
        BY PlanProbe
    <1>8. /\ Trio(x0, z0, rate, pen, mx, mz, mf, mp, nf, np) = <<p, m, n>>
          /\ Trio(Unknown, Unknown, rate, pen, mx, Unknown, v, mp, nf, np) = <<p1, m1, n1>>
        BY DEF Trio
    <1> HIDE DEF p, m, n, c, l, p1, m1, n1, ms
    <1> QED
        BY <1>1, <1>2, <1>4, <1>5, <1>6, <1>7, <1>8, LineStep DEF c

LEMMA SetZStep ==
    ASSUME NEW s \in Setup, s.post # "hpgl", NEW x0, NEW z0, NEW rate, NEW pen, NEW mx, NEW mz, NEW mf, NEW mp,
           NEW nf, NEW np, Stand(s, x0, z0, rate, pen, mx, mz, mf, mp, nf, np), NEW z \in Near
    PROVE  Same(s, <<SetZ(z)>>, Trio(x0, z0, rate, pen, mx, mz, mf, mp, nf, np),
                Trio(x0, Unknown, rate, pen, mx, z, mf, mp, nf, np))
    <1> DEFINE p == PostOf(x0, z0, rate, pen)
               m == ToolOf(mx, mz, mf, mp)
               n == ToolOf(mx, mz, nf, np)
               p1 == PostOf(x0, Unknown, rate, pen)
               m1 == ToolOf(mx, z, mf, mp)
               n1 == ToolOf(mx, z, nf, np)
               c == SetZ(z)
               l == LineOf("G92", Unknown, Emitted(s, z), 0, 0, 0, 0, "none")
               ms == <<>>
    <1>1. p \in PostSet /\ m \in Tool /\ n \in Tool
        BY StandType
    <1>2. c \in CallSet
        BY DEF CallSet
    <1>3. /\ {"G4", "G53", "G28", "G38.2", "G92", "G43.1", "OP", "G81", "none"} \subseteq Codes
          /\ Kinds \cup {"none"} \subseteq Tags /\ "none" \in Kinds \cup {"none"}
          /\ Unknown \in Digits \cup {Unknown} /\ -4 \in Digits \cup {Unknown} /\ 0 \in Digits
          /\ 0 \in Nat
        BY DEF Codes, Tags, Digits
    <1>9. Emitted(s, z) # Unknown /\ Mm(s, Emitted(s, z)) = z
        BY NearAndBack
    <1>10. Emitted(s, z) \in Digits \cup {Unknown}
        BY NearIs, EmittedNear
    <1>11. Arrived(s, mz, Emitted(s, z)) = z
        BY <1>9 DEF Arrived
    <1>4. l \in LineSet
        BY <1>3, <1>10, LineType
    <1>5. WriteCall(s, p, c) = Wrote(<<l>>, p1)
        BY GcodePlain
    <1>6. RunLine(s, m, l) = Did(ms, m1, 0)
        <2>1. FeedNow(s, mf, 0) = mf
            BY DEF FeedNow
        <2> QED
            BY <1>11, <2>1, RunSetZ
    <1>7. PlanCall(s, n, c) = Did(ms, n1, 0)
        BY PlanSetZ
    <1>8. /\ Trio(x0, z0, rate, pen, mx, mz, mf, mp, nf, np) = <<p, m, n>>
          /\ Trio(x0, Unknown, rate, pen, mx, z, mf, mp, nf, np) = <<p1, m1, n1>>
        BY DEF Trio
    <1> HIDE DEF p, m, n, c, l, p1, m1, n1, ms
    <1> QED
        BY <1>1, <1>2, <1>4, <1>5, <1>6, <1>7, <1>8, LineStep DEF c

LEMMA ApplyStep ==
    ASSUME NEW s \in Setup, s.post # "hpgl", NEW x0, NEW z0, NEW rate, NEW pen, NEW mx, NEW mz, NEW mf, NEW mp,
           NEW nf, NEW np, Stand(s, x0, z0, rate, pen, mx, mz, mf, mp, nf, np), s.post # "grbl"
    PROVE  Same(s, <<ApplyProbed>>, Trio(x0, z0, rate, pen, mx, mz, mf, mp, nf, np),
                Trio(x0, Unknown, rate, pen, mx, Unknown, mf, mp, nf, np))
    <1> DEFINE p == PostOf(x0, z0, rate, pen)
               m == ToolOf(mx, mz, mf, mp)
               n == ToolOf(mx, mz, nf, np)
               p1 == PostOf(x0, Unknown, rate, pen)
               m1 == ToolOf(mx, Unknown, mf, mp)
               n1 == ToolOf(mx, Unknown, nf, np)
               c == ApplyProbed
               l == LineOf("G43.1", Unknown, Unknown, 0, 0, 0, 0, "none")
               ms == <<>>
    <1>1. p \in PostSet /\ m \in Tool /\ n \in Tool
        BY StandType
    <1>2. c \in CallSet
        BY DEF CallSet
    <1>3. /\ {"G4", "G53", "G28", "G38.2", "G92", "G43.1", "OP", "G81", "none"} \subseteq Codes
          /\ Kinds \cup {"none"} \subseteq Tags /\ "none" \in Kinds \cup {"none"}
          /\ Unknown \in Digits \cup {Unknown} /\ -4 \in Digits \cup {Unknown} /\ 0 \in Digits
          /\ 0 \in Nat
        BY DEF Codes, Tags, Digits
    <1>4. l \in LineSet
        BY <1>3, LineType
    <1>5. WriteCall(s, p, c) = Wrote(<<l>>, p1)
        BY GcodePlain
    <1>6. RunLine(s, m, l) = Did(ms, m1, 0)
        BY RunOffset DEF FeedNow
    <1>7. PlanCall(s, n, c) = Did(ms, n1, 0)
        <2>1. PlanCall(s, n, c) = Did(ms, ToolOf(mx, IF s.post = "grbl" THEN mz ELSE Unknown, nf, np), 0)
            BY PlanApply
        <2> QED
            BY <2>1
    <1>8. /\ Trio(x0, z0, rate, pen, mx, mz, mf, mp, nf, np) = <<p, m, n>>
          /\ Trio(x0, Unknown, rate, pen, mx, Unknown, mf, mp, nf, np) = <<p1, m1, n1>>
        BY DEF Trio
    <1> HIDE DEF p, m, n, c, l, p1, m1, n1, ms
    <1> QED
        BY <1>1, <1>2, <1>4, <1>5, <1>6, <1>7, <1>8, LineStep DEF c

LEMMA MarkerStep ==
    ASSUME NEW s \in Setup, s.post # "hpgl", NEW x0, NEW z0, NEW rate, NEW pen, NEW mx, NEW mz, NEW mf, NEW mp,
           NEW nf, NEW np, Stand(s, x0, z0, rate, pen, mx, mz, mf, mp, nf, np), NEW id \in Kinds
    PROVE  Same(s, <<Marker(id)>>, Trio(x0, z0, rate, pen, mx, mz, mf, mp, nf, np),
                Trio(x0, z0, rate, pen, mx, mz, mf, mp, nf, np))
    <1> DEFINE p == PostOf(x0, z0, rate, pen)
               m == ToolOf(mx, mz, mf, mp)
               n == ToolOf(mx, mz, nf, np)
               p1 == PostOf(x0, z0, rate, pen)
               m1 == ToolOf(mx, mz, mf, mp)
               n1 == ToolOf(mx, mz, nf, np)
               c == Marker(id)
               l == LineOf("OP", Unknown, Unknown, 0, 0, 0, 0, id)
               ms == <<>>
    <1>1. p \in PostSet /\ m \in Tool /\ n \in Tool
        BY StandType
    <1>2. c \in CallSet
        BY DEF CallSet
    <1>3. /\ {"G4", "G53", "G28", "G38.2", "G92", "G43.1", "OP", "G81", "none"} \subseteq Codes
          /\ Kinds \cup {"none"} \subseteq Tags /\ "none" \in Kinds \cup {"none"}
          /\ Unknown \in Digits \cup {Unknown} /\ -4 \in Digits \cup {Unknown} /\ 0 \in Digits
          /\ 0 \in Nat
        BY DEF Codes, Tags, Digits
    <1>4. l \in LineSet
        BY <1>3, LineType
    <1>5. WriteCall(s, p, c) = Wrote(<<l>>, p1)
        BY GcodePlain
    <1>6. RunLine(s, m, l) = Did(ms, m1, 0)
        BY RunMarker DEF FeedNow
    <1>7. PlanCall(s, n, c) = Did(ms, n1, 0)
        BY PlanMarker
    <1>8. /\ Trio(x0, z0, rate, pen, mx, mz, mf, mp, nf, np) = <<p, m, n>>
          /\ Trio(x0, z0, rate, pen, mx, mz, mf, mp, nf, np) = <<p1, m1, n1>>
        BY DEF Trio
    <1> HIDE DEF p, m, n, c, l, p1, m1, n1, ms
    <1> QED
        BY <1>1, <1>2, <1>4, <1>5, <1>6, <1>7, <1>8, LineStep DEF c

LEMMA CycleStep ==
    ASSUME NEW s \in Setup, s.post # "hpgl", NEW x0, NEW z0, NEW rate, NEW pen, NEW mx, NEW mz, NEW mf, NEW mp,
           NEW nf, NEW np, Stand(s, x0, z0, rate, pen, mx, mz, mf, mp, nf, np), NEW x \in Near, NEW z \in Near,
           NEW q \in Nat, NEW v \in Nat, NEW d \in Nat, nf = mf
    PROVE  Same(s, <<Drill(x, z, q, v, d)>>, Trio(x0, z0, rate, pen, mx, mz, mf, mp, nf, np),
                Trio(x, Retract, rate, pen, x, Retract, mf, mp, nf, np))
    <1> DEFINE p == PostOf(x0, z0, rate, pen)
               m == ToolOf(mx, mz, mf, mp)
               n == ToolOf(mx, mz, nf, np)
               p1 == PostOf(x, Retract, rate, pen)
               m1 == ToolOf(x, Retract, mf, mp)
               n1 == ToolOf(x, Retract, nf, np)
               c == Drill(x, z, q, v, d)
               l == LineOf("G81", Word(s, x0, x), Word(s, z0, z), 0, Emitted(s, Retract), 0, d, "none")
               ms == DrillMoves("none", <<mx, mz>>, x, z, Retract, mf)
    <1>1. p \in PostSet /\ m \in Tool /\ n \in Tool
        BY StandType
    <1>2. c \in CallSet
        BY DEF CallSet
    <1>3. /\ {"G4", "G53", "G28", "G38.2", "G92", "G43.1", "OP", "G81", "none"} \subseteq Codes
          /\ Kinds \cup {"none"} \subseteq Tags /\ "none" \in Kinds \cup {"none"}
          /\ Unknown \in Digits \cup {Unknown} /\ -4 \in Digits \cup {Unknown} /\ 0 \in Digits
          /\ 0 \in Nat
        BY DEF Codes, Tags, Digits
    <1>9. /\ Held(mx, x) = x /\ Held(mz, z) = z /\ x \in Place /\ z \in Place /\ x # Unknown
        BY NearIs DEF Held, Place
    <1>10. /\ mx \in Place /\ mz \in Place /\ x0 \in {Unknown, mx} /\ z0 \in {Unknown, mz}
        BY DEF Stand
    <1>11. Arrived(s, mx, Word(s, x0, x)) = x /\ Arrived(s, mz, Word(s, z0, z)) = z
        BY <1>9, <1>10, WordArrives
    <1>12. Retract \in Near /\ Mm(s, Emitted(s, Retract)) = Retract
        <2>1. Retract \in Near
            <3>1. 2 \in -10 .. 10 /\ Retract = 2 * 2
                BY DEF Retract
            <3> QED
                BY <3>1 DEF Near
        <2> QED
            BY <2>1, NearAndBack
    <1>13. /\ Word(s, x0, x) \in Digits \cup {Unknown} /\ Word(s, z0, z) \in Digits \cup {Unknown}
           /\ Emitted(s, Retract) \in Digits
        <2>1. x0 \in Int /\ z0 \in Int /\ x \in -36 .. 36 \cup {Unknown}
              /\ z \in -36 .. 36 \cup {Unknown}
            BY <1>9, <1>10, PlaceIs, NearIs
        <2>2. Retract \in -4 .. 4
            BY DEF Retract
        <2> QED
            BY <2>1, <2>2, WordDigits, EmittedNear
    <1>4. l \in LineSet
        BY <1>3, <1>13, LineType
    <1>5. WriteCall(s, p, c) = Wrote(<<l>>, p1)
        BY <1>9, GcodeDrill
    <1>6. RunLine(s, m, l) = Did(ms, m1, d)
        <2>1. FeedNow(s, mf, 0) = mf
            BY DEF FeedNow
        <2>2. RunLine(s, m, l) =
                  Did(DrillMoves("none", <<mx, mz>>, Arrived(s, mx, Word(s, x0, x)),
                                 Arrived(s, mz, Word(s, z0, z)), Mm(s, Emitted(s, Retract)),
                                 FeedNow(s, mf, 0)),
                      ToolOf(Arrived(s, mx, Word(s, x0, x)), Mm(s, Emitted(s, Retract)), mf, mp), d)
            BY RunCycle
        <2> QED
            BY <1>11, <1>12, <2>1, <2>2
    <1>7. PlanCall(s, n, c) = Did(ms, n1, d)
        <2>1. PlanCall(s, n, c) =
                  Did(DrillMoves("none", <<mx, mz>>, x, z, Retract, nf), ToolOf(x, Retract, nf, np), d)
            BY PlanDrill
        <2> QED
            BY <2>1
    <1>8. /\ Trio(x0, z0, rate, pen, mx, mz, mf, mp, nf, np) = <<p, m, n>>
          /\ Trio(x, Retract, rate, pen, x, Retract, mf, mp, nf, np) = <<p1, m1, n1>>
        BY DEF Trio
    <1> HIDE DEF p, m, n, c, l, p1, m1, n1, ms
    <1> QED
        BY <1>1, <1>2, <1>4, <1>5, <1>6, <1>7, <1>8, LineStep DEF c

\* An F of the feed commanded, in the units of the program: none where it is the last one
\* written, which is then in force.
LEMMA FeedStep ==
    ASSUME NEW s \in Setup, s.post # "hpgl", NEW x0, NEW z0, NEW rate, NEW pen, NEW mx, NEW mz, NEW mf, NEW mp,
           NEW nf, NEW np, Stand(s, x0, z0, rate, pen, mx, mz, mf, mp, nf, np),
           NEW v \in Nat \ {0}, s.inch => \E k \in Nat : v = 2 * k
    PROVE  Same(s, <<Feedrate(v)>>, Trio(x0, z0, rate, pen, mx, mz, mf, mp, nf, np),
                Trio(x0, z0, v, pen, mx, mz, v, mp, v, np))
    <1> DEFINE p == PostOf(x0, z0, rate, pen)
               m == ToolOf(mx, mz, mf, mp)
               n == ToolOf(mx, mz, nf, np)
               p1 == PostOf(x0, z0, v, pen)
               m1 == ToolOf(mx, mz, v, mp)
               n1 == ToolOf(mx, mz, v, np)
               c == Feedrate(v)
               f == Emitted(s, v)
               l == LineOf("none", Unknown, Unknown, 0, 0, f, 0, "none")
               ms == <<>>
               t == Trio(x0, z0, rate, pen, mx, mz, mf, mp, nf, np)
               u == Trio(x0, z0, v, pen, mx, mz, v, mp, v, np)
    <1>1. p \in PostSet /\ m \in Tool /\ n \in Tool
        BY StandType
    <1>2. c \in CallSet
        BY DEF CallSet
    <1>3. f \in Nat /\ f # 0 /\ Mm(s, f) = v
        <2>1. CASE s.inch /\ v # Unknown
            <3>1. PICK k \in Nat : v = 2 * k
                BY <2>1
            <3>2. v \div 2 = k /\ k * 2 = v /\ k # 0
                BY <3>1
            <3>3. f = v \div 2
                BY <2>1 DEF Emitted, MmPerInch
            <3> HIDE DEF f
            <3> QED
                BY <2>1, <3>2, <3>3 DEF Mm, MmPerInch
        <2>2. CASE ~ s.inch
            BY <2>2 DEF Emitted, Mm
        <2>3. CASE s.inch /\ v = Unknown
            <3>1. PICK k \in Nat : v = 2 * k
                BY <2>3
            <3> QED
                BY <2>3, <3>1 DEF Unknown
        <2> QED
            BY <2>1, <2>2, <2>3
    <1> HIDE DEF f
    <1>4. /\ WriteCall(s, p, c) = IF v = rate THEN Wrote(<<>>, p) ELSE Wrote(<<l>>, p1)
        BY GcodeFeedrate DEF f
    <1>5. PlanCall(s, n, c) = Did(ms, n1, 0)
        <2>1. PlanCall(s, n, c) = Did(<<>>, ToolOf(mx, mz, IF s.post = "hpgl" THEN Speed(v) ELSE v, np), 0)
            BY PlanFeedrate
        <2> QED
            BY <2>1
    <1>6. t = <<p, m, n>> /\ u = <<p1, m1, n1>>
        BY DEF Trio
    <1>7. CASE v # rate
        <2>1. l \in LineSet
            <3>1. "none" \in Codes /\ "none" \in Tags /\ Unknown \in Digits \cup {Unknown} /\ 0 \in Digits
                  /\ 0 \in Nat
                BY DEF Codes, Tags, Digits
            <3> QED
                BY <1>3, <3>1, LineType
        <2>2. RunLine(s, m, l) = Did(ms, m1, 0)
            <3>1. FeedNow(s, mf, f) = v
                BY <1>3 DEF FeedNow
            <3>2. RunLine(s, m, l) = Did(<<>>, ToolOf(mx, mz, FeedNow(s, mf, f), mp), 0)
                BY RunBare
            <3> QED
                BY <3>1, <3>2
        <2>3. WriteCall(s, p, c) = Wrote(<<l>>, p1)
            BY <1>4, <1>7
        <2> HIDE DEF p, m, n, c, l, p1, m1, n1, ms, t, u
        <2> QED
            BY <1>1, <1>2, <1>5, <1>6, <2>1, <2>2, <2>3, LineStep DEF c, t, u
    <1>8. CASE v = rate
        <2>1. mf = v
            BY <1>8 DEF Stand
        <2>2. m1 = m /\ p1 = p
            BY <1>8, <2>1
        <2>3. WriteCall(s, p, c) = Wrote(<<>>, p1)
            BY <1>4, <1>8, <2>2
        <2>4. u = <<p1, m, n1>> /\ PlanCall(s, n, c) = Did(<<>>, n1, 0)
            BY <1>5, <1>6, <2>2
        <2> HIDE DEF p, m, n, c, l, p1, m1, n1, ms, t, u
        <2> QED
            BY <1>1, <1>2, <1>6, <2>3, <2>4, SilentStep DEF c, t, u
    <1> QED
        BY <1>7, <1>8

\* The probed length applied: GRBL writes nothing, and moves nothing.
LEMMA ApplyNothing ==
    ASSUME NEW s \in Setup, s.post = "grbl", NEW x0, NEW z0, NEW rate, NEW pen, NEW mx, NEW mz, NEW mf, NEW mp,
           NEW nf, NEW np, Stand(s, x0, z0, rate, pen, mx, mz, mf, mp, nf, np)
    PROVE  Same(s, <<ApplyProbed>>, Trio(x0, z0, rate, pen, mx, mz, mf, mp, nf, np),
                Trio(x0, z0, rate, pen, mx, mz, mf, mp, nf, np))
    <1> DEFINE p == PostOf(x0, z0, rate, pen)
               m == ToolOf(mx, mz, mf, mp)
               n == ToolOf(mx, mz, nf, np)
               c == ApplyProbed
               t == Trio(x0, z0, rate, pen, mx, mz, mf, mp, nf, np)
    <1>1. p \in PostSet /\ m \in Tool /\ n \in Tool
        BY StandType
    <1>2. c \in CallSet
        BY DEF CallSet
    <1>3. WriteCall(s, p, c) = Wrote(<<>>, p)
        <2>1. WriteCall(s, p, c) = IF s.post = "grbl" THEN Wrote(<<>>, p)
                                   ELSE Wrote(<<LineOf("G43.1", Unknown, Unknown, 0, 0, 0, 0, "none")>>,
                                              PostOf(x0, Unknown, rate, pen))
            BY GcodePlain
        <2> QED
            BY <2>1
    <1>4. PlanCall(s, n, c) = Did(<<>>, n, 0)
        <2>1. PlanCall(s, n, c) = Did(<<>>, ToolOf(mx, IF s.post = "grbl" THEN mz ELSE Unknown, nf, np), 0)
            BY PlanApply
        <2> QED
            BY <2>1
    <1>5. t = <<p, m, n>>
        BY DEF Trio
    <1> HIDE DEF p, m, n, c, t
    <1> QED
        BY <1>1, <1>2, <1>3, <1>4, <1>5, SilentStep DEF c, t

\* What HPGL has no word for.
LEMMA PlotterStep ==
    ASSUME NEW s \in Setup, s.post = "hpgl", NEW t \in Stands(s), NEW c \in CallSet,
           c.c \notin {"rapid", "linear", "arc", "drill", "feed"}
    PROVE  Same(s, <<c>>, t, t)
    <1> DEFINE p == t[1]
               m == t[2]
               n == t[3]
    <1>1. p \in PostSet /\ m \in Tool /\ n \in Tool /\ t = <<p, m, n>>
        BY StandsIs
    <1> HIDE DEF p, m, n
    <1>2. WriteCall(s, p, c) = Wrote(<<>>, p)
        BY PlotterOther
    <1>3. At(n, n.x, n.z) = n
        BY <1>1, ToolIs, ToolAt
    <1>4. PlanCall(s, n, c) = Did(<<>>, At(n, n.x, n.z), 0)
        BY DEF PlanCall
    <1>5. PlanCall(s, n, c) = Did(<<>>, n, 0)
        BY <1>3, <1>4
    <1> QED
        BY <1>1, <1>2, <1>5, SilentStep

\* A VS, in the plotter's units; the same one is not written again.
LEMMA SpeedStep ==
    ASSUME NEW s \in Setup, s.post = "hpgl", NEW x0, NEW z0, NEW rate, NEW pen, NEW mx, NEW mz, NEW mf, NEW mp,
           NEW nf, NEW np, Stand(s, x0, z0, rate, pen, mx, mz, mf, mp, nf, np), NEW v \in Nat \ {0}
    PROVE  /\ Same(s, <<Feedrate(v)>>, Trio(x0, z0, rate, pen, mx, mz, mf, mp, nf, np),
                   Trio(x0, z0, Speed(v), pen, mx, mz, Speed(v), mp, Speed(v), np))
           /\ Speed(v) \in Nat /\ Speed(v) # 0
    <1> DEFINE f == Speed(v)
               p == PostOf(x0, z0, rate, pen)
               m == ToolOf(mx, mz, mf, mp)
               n == ToolOf(mx, mz, nf, np)
               p1 == PostOf(x0, z0, f, pen)
               m1 == ToolOf(mx, mz, f, mp)
               n1 == ToolOf(mx, mz, f, np)
               c == Feedrate(v)
               l == LineOf("VS", Unknown, Unknown, 0, 0, f, 0, "none")
               ms == <<>>
               t == Trio(x0, z0, rate, pen, mx, mz, mf, mp, nf, np)
               u == Trio(x0, z0, f, pen, mx, mz, f, mp, f, np)
    <1>1. p \in PostSet /\ m \in Tool /\ n \in Tool
        BY StandType
    <1>2. c \in CallSet
        BY DEF CallSet
    <1>3. f \in Nat /\ f # 0 /\ Mm(s, f) = f
        <2>1. f \in Nat /\ f # 0
            BY DEF Speed, Biggest
        <2> HIDE DEF f
        <2> QED
            BY <2>1 DEF Mm
    <1> HIDE DEF f
    <1>4. WriteCall(s, p, c) = IF f = rate THEN Wrote(<<>>, p) ELSE Wrote(<<l>>, p1)
        BY PlotterFeedrate DEF f
    <1>5. PlanCall(s, n, c) = Did(ms, n1, 0)
        <2>1. PlanCall(s, n, c) = Did(<<>>, ToolOf(mx, mz, IF s.post = "hpgl" THEN Speed(v) ELSE v, np), 0)
            BY PlanFeedrate
        <2> QED
            BY <2>1 DEF f
    <1>6. t = <<p, m, n>> /\ u = <<p1, m1, n1>>
        BY DEF Trio
    <1>7. CASE f # rate
        <2>1. l \in LineSet
            <3>1. "VS" \in Codes /\ "none" \in Tags /\ Unknown \in Digits \cup {Unknown} /\ 0 \in Digits
                  /\ 0 \in Nat
                BY DEF Codes, Tags, Digits
            <3> QED
                BY <1>3, <3>1, LineType
        <2>2. RunLine(s, m, l) = Did(ms, m1, 0)
            <3>1. FeedNow(s, mf, f) = f
                BY <1>3 DEF FeedNow
            <3>2. RunLine(s, m, l) = Did(<<>>, ToolOf(mx, mz, FeedNow(s, mf, f), mp), 0)
                BY RunSpeed
            <3> QED
                BY <3>1, <3>2
        <2>3. WriteCall(s, p, c) = Wrote(<<l>>, p1)
            BY <1>4, <1>7
        <2>4. Same(s, <<c>>, t, u)
            <3> HIDE DEF p, m, n, c, l, p1, m1, n1, ms, t, u
            <3> QED
                BY <1>1, <1>2, <1>5, <1>6, <2>1, <2>2, <2>3, LineStep
        <2> QED
            BY <1>3, <2>4 DEF f
    <1>8. CASE f = rate
        <2>1. mf = f
            BY <1>3, <1>8 DEF Stand
        <2>2. m1 = m /\ p1 = p
            BY <1>8, <2>1
        <2>3. WriteCall(s, p, c) = Wrote(<<>>, p1)
            BY <1>4, <1>8, <2>2
        <2>4. u = <<p1, m, n1>> /\ PlanCall(s, n, c) = Did(<<>>, n1, 0)
            BY <1>5, <1>6, <2>2
        <2>5. Same(s, <<c>>, t, u)
            <3> HIDE DEF p, m, n, c, l, p1, m1, n1, ms, t, u
            <3> QED
                BY <1>1, <1>2, <1>6, <2>3, <2>4, SilentStep
        <2> QED
            BY <1>3, <2>5 DEF f
    <1> QED
        BY <1>7, <1>8

\* An arc from a known X: the centre is written from where the tool is.
LEMMA ArcStep ==
    ASSUME NEW s \in Setup, s.post # "hpgl", NEW x0 \in Near, NEW z0, NEW rate, NEW pen, NEW mz, NEW mf, NEW mp,
           NEW np, Stand(s, x0, z0, rate, pen, x0, mz, mf, mp, mf, np),
           NEW x \in Near, NEW z \in Place, NEW i \in Offsets
    PROVE  Same(s, <<Arc(x, z, i)>>, Trio(x0, z0, rate, pen, x0, mz, mf, mp, mf, np),
                Trio(x, Held(z0, z), rate, pen, x, Held(mz, z), mf, mp, mf, np))
    <1> DEFINE Z == Held(mz, z)
               deep == Held(z0, z)
               mid == x0 + 2 * i
               p == PostOf(x0, z0, rate, pen)
               m == ToolOf(x0, mz, mf, mp)
               n == ToolOf(x0, mz, mf, np)
               p1 == PostOf(x, deep, rate, pen)
               m1 == ToolOf(x, Z, mf, mp)
               n1 == ToolOf(x, Z, mf, np)
               c == Arc(x, z, i)
               ls == IF x = x0
                     THEN <<ArcLine(s, x0, z0, mid, z, i), ArcLine(s, mid, deep, x, z, -i)>>
                     ELSE <<ArcLine(s, x0, z0, x, z, i)>>
               ms == IF x = x0
                     THEN Move("arc", <<x0, mz>>, <<mid, Z>>, i, mf)
                          \o Move("arc", <<mid, Z>>, <<x, Z>>, -i, mf)
                     ELSE Move("arc", <<x0, mz>>, <<x, Z>>, i, mf)
               t == Trio(x0, z0, rate, pen, x0, mz, mf, mp, mf, np)
               u == Trio(x, deep, rate, pen, x, Z, mf, mp, mf, np)
    <1>1. p \in PostSet /\ m \in Tool /\ n \in Tool
        BY StandType
    <1>2. c \in CallSet
        BY DEF CallSet
    <1>3. x # Unknown /\ x0 # Unknown
        BY NearIs
    <1>4. mid \in Int /\ mid # Unknown
        <2>1. x0 \in Int /\ i \in Int /\ mid \in -28 .. 28
            BY NearIs, PlaceIs
        <2> QED
            BY <2>1 DEF Unknown
    <1>5. Held(deep, z) = deep /\ Held(x0, mid) = mid
        BY <1>4 DEF Held
    <1> HIDE DEF mid, deep, Z
    <1>6. WriteCall(s, p, c) = Wrote(ls, p1)
        <2>1. WriteCall(s, p, c) =
                  IF x0 # Unknown /\ x = x0
                  THEN Wrote(<<ArcLine(s, x0, z0, mid, z, i),
                               ArcLine(s, Held(x0, mid), deep, x, z, -i)>>,
                             PostOf(x, Held(deep, z), rate, pen))
                  ELSE Wrote(<<ArcLine(s, x0, z0, x, z, i)>>, PostOf(x, deep, rate, pen))
            BY <1>3, GcodeArc DEF mid, deep
        <2> QED
            BY <1>3, <1>5, <2>1
    <1>7. Reading("run", s, m, ls) = Did(ms, m1, 0)
        <2>1. mz \in Place /\ mf \in Nat /\ mp \in BOOLEAN /\ z0 \in {Unknown, mz}
            BY DEF Stand
        <2> QED
            BY <2>1, ArcRuns DEF mid, deep, Z
    <1>8. PlanCall(s, n, c) = Did(ms, n1, 0)
        <2>1. PlanCall(s, n, c) =
                  Did(ArcMoves(x0, mz, x, Held(mz, z), i, mf), ToolOf(x, Held(mz, z), mf, np), 0)
            BY <1>3, PlanArc
        <2>2. ms = ArcMoves(x0, mz, x, Z, i, mf)
            BY DEF ArcMoves, mid
        <2> HIDE DEF ms
        <2> QED
            BY <2>1, <2>2 DEF Z
    <1>9. t = <<p, m, n>> /\ u = <<p1, m1, n1>>
        BY DEF Trio
    <1>10. Same(s, <<c>>, t, u)
        <2> HIDE DEF p, m, n, c, ls, p1, m1, n1, ms, t, u
        <2> QED
            BY <1>1, <1>2, <1>6, <1>7, <1>8, <1>9, SameCall
    <1> QED
        BY <1>10 DEF Z, deep

LEMMA PlotterArcStep ==
    ASSUME NEW s \in Setup, s.post = "hpgl", NEW x0 \in Near, NEW z0, NEW rate, NEW pen, NEW mz, NEW mf,
           NEW np, Stand(s, x0, z0, rate, pen, x0, mz, mf, pen, mf, np),
           NEW x \in Near, NEW z \in Place, NEW i \in Offsets
    PROVE  Same(s, <<Arc(x, z, i)>>, Trio(x0, z0, rate, pen, x0, mz, mf, pen, mf, np),
                Trio(x, z0, rate, Down, x, mz, mf, Down, mf, np))
    <1> DEFINE p == PostOf(x0, z0, rate, pen)
               m == ToolOf(x0, mz, mf, pen)
               n == ToolOf(x0, mz, mf, np)
               p1 == PostOf(x, z0, rate, Down)
               m1 == ToolOf(x, mz, mf, Down)
               n1 == ToolOf(x, mz, mf, np)
               c == Arc(x, z, i)
               ls == PenLines(pen, Down) \o PlotLines(x, i)
               ms == Move("arc", <<x0, mz>>, <<x, mz>>, i, mf)
               t == Trio(x0, z0, rate, pen, x0, mz, mf, pen, mf, np)
               u == Trio(x, z0, rate, Down, x, mz, mf, Down, mf, np)
    <1>1. p \in PostSet /\ m \in Tool /\ n \in Tool
        BY StandType
    <1>2. c \in CallSet
        BY DEF CallSet
    <1>3. /\ x # Unknown /\ x0 # Unknown /\ i # 0 /\ i \in Digits /\ x \in Place /\ x0 \in Place
          /\ Held(x0, x) = x
        <2>1. x # Unknown /\ x0 # Unknown /\ x \in Place /\ x0 \in Place
            BY NearIs DEF Place
        <2>2. i # 0 /\ i \in Digits
            BY DEF Offsets, Digits
        <2> QED
            BY <2>1, <2>2 DEF Held
    <1>4. WriteCall(s, p, c) = Wrote(ls, p1)
        <2>1. WriteCall(s, p, c) =
                  Wrote(PenLines(pen, Down)
                        \o PlotLines(Held(x0, x), IF x0 = Unknown THEN 0 ELSE i),
                        PostOf(Held(x0, x), z0, rate, Down))
            BY PlotterArc
        <2> QED
            BY <1>3, <2>1
    <1>5. Reading("run", s, m, ls) = Did(ms, m1, 0)
        <2> DEFINE down == Down
                   X == Held(x0, x)
                   k == IF i # 0 THEN "arc" ELSE IF down THEN "cut" ELSE "rapid"
                   f == IF down THEN mf ELSE 0
        <2>1. mz \in Place /\ mf \in Nat /\ pen \in BOOLEAN /\ down \in {Up, Down}
            BY DEF Stand
        <2>2. k = "arc" /\ f = mf
            BY <1>3 DEF Down
        <2> HIDE DEF down
        <2>3. Reading("run", s, m, PenLines(pen, down) \o PlotLines(x, i)) =
                  Did(IF x = Unknown THEN <<>> ELSE Move(k, <<x0, mz>>, <<X, mz>>, i, f),
                      ToolOf(X, mz, mf, down), 0)
            BY <1>3, <2>1, PlotterRuns
        <2> HIDE DEF k, f, X
        <2>4. X = x
            BY <1>3 DEF X
        <2> QED
            BY <1>3, <2>2, <2>3, <2>4 DEF down
    <1>6. PlanCall(s, n, c) = Did(ms, n1, 0)
        BY <1>3, PlanPlotterArc
    <1>7. t = <<p, m, n>> /\ u = <<p1, m1, n1>>
        BY DEF Trio
    <1>8. Same(s, <<c>>, t, u)
        <2> HIDE DEF p, m, n, c, ls, p1, m1, n1, ms, t, u
        <2> QED
            BY <1>1, <1>2, <1>4, <1>5, <1>6, <1>7, SameCall
    <1> QED
        BY <1>8

-----------------------------------------------------------------------------
(* One call from any of the ways the three may stand *)

\* A feed the units of the program can name.
Feedable(s, v) ==
    v \in Nat \ {0} /\ (s.post # "hpgl" /\ s.inch => \E k \in Nat : v = 2 * k)

LEMMA FeedFrom ==
    ASSUME NEW s \in Setup, NEW t \in Stands(s), NEW v, Feedable(s, v)
    PROVE  \E u \in Stands(s) : /\ Same(s, <<Feedrate(v)>>, t, u)
                                /\ u[1].x = t[1].x /\ u[3].feed = u[2].feed
    <1> DEFINE x0 == t[1].x
               z0 == t[1].z
               rate == t[1].rate
               pen == t[1].pen
               mx == t[2].x
               mz == t[2].z
               mf == t[2].feed
               mp == t[2].pen
               nf == t[3].feed
               np == t[3].pen
    <1>0. /\ t = Trio(x0, z0, rate, pen, mx, mz, mf, mp, nf, np)
          /\ Stand(s, x0, z0, rate, pen, mx, mz, mf, mp, nf, np)
        BY TrioIs
    <1>9. v \in Nat \ {0} /\ (s.post # "hpgl" /\ s.inch => \E k \in Nat : v = 2 * k)
        BY DEF Feedable
    <1> HIDE DEF x0, z0, rate, pen, mx, mz, mf, mp, nf, np

    <1>1. CASE s.post # "hpgl"
        <2> DEFINE u == Trio(x0, z0, v, pen, mx, mz, v, mp, v, np)
        <2>1. Same(s, <<Feedrate(v)>>, t, u)
            BY <1>0, <1>1, <1>9, FeedStep
        <2>2. u \in Stands(s)
            <3>1. Stand(s, x0, z0, v, pen, mx, mz, v, mp, v, np)
                BY <1>0, <1>1, <1>9 DEF Stand
            <3> QED
                BY <3>1, TrioStands
        <2>3. u[1].x = x0 /\ u[2].feed = v /\ u[3].feed = v
            BY TrioFields
        <2> HIDE DEF u
        <2> QED
            BY <2>1, <2>2, <2>3, <1>9 DEF x0, z0, rate, pen, mx, mz, mf, mp, nf, np
    <1>2. CASE s.post = "hpgl"
        <2> DEFINE u == Trio(x0, z0, Speed(v), pen, mx, mz, Speed(v), mp, Speed(v), np)
        <2>1. Same(s, <<Feedrate(v)>>, t, u)
            BY <1>0, <1>2, <1>9, SpeedStep
        <2>2. u \in Stands(s)
            <3>1. Stand(s, x0, z0, Speed(v), pen, mx, mz, Speed(v), mp, Speed(v), np)
                <4>1. Speed(v) \in Nat
                    BY <1>0, <1>2, <1>9, SpeedStep
                <4> QED
                    BY <1>0, <1>2, <4>1 DEF Stand
            <3> QED
                BY <3>1, TrioStands
        <2>3. u[1].x = x0 /\ u[2].feed = Speed(v) /\ u[3].feed = Speed(v)
            BY TrioFields
        <2> HIDE DEF u
        <2> QED
            BY <2>1, <2>2, <2>3, <1>9 DEF x0, z0, rate, pen, mx, mz, mf, mp, nf, np
    <1> QED
        BY <1>1, <1>2

LEMMA MarkerFrom ==
    ASSUME NEW s \in Setup, NEW t \in Stands(s), NEW id \in Kinds
    PROVE  Same(s, <<Marker(id)>>, t, t)
    <1> DEFINE x0 == t[1].x
               z0 == t[1].z
               rate == t[1].rate
               pen == t[1].pen
               mx == t[2].x
               mz == t[2].z
               mf == t[2].feed
               mp == t[2].pen
               nf == t[3].feed
               np == t[3].pen
    <1>0. /\ t = Trio(x0, z0, rate, pen, mx, mz, mf, mp, nf, np)
          /\ Stand(s, x0, z0, rate, pen, mx, mz, mf, mp, nf, np)
        BY TrioIs
    <1> HIDE DEF x0, z0, rate, pen, mx, mz, mf, mp, nf, np
    <1>1. CASE s.post # "hpgl"
        BY <1>0, <1>1, MarkerStep
    <1>2. CASE s.post = "hpgl"
        <2> DEFINE c == Marker(id)
        <2>1. c \in CallSet
            BY DEF CallSet
        <2>2. c.c = "marker"
            BY MarkerIs DEF CallOf
        <2> HIDE DEF c
        <2>3. Same(s, <<c>>, t, t)
            BY <1>2, <2>1, <2>2, PlotterStep
        <2> QED
            BY <2>3 DEF c
    <1> QED
        BY <1>1, <1>2

LEMMA DwellFrom ==
    ASSUME NEW s \in Setup, NEW t \in Stands(s), NEW d \in Nat
    PROVE  Same(s, <<Dwell(d)>>, t, t)
    <1> DEFINE x0 == t[1].x
               z0 == t[1].z
               rate == t[1].rate
               pen == t[1].pen
               mx == t[2].x
               mz == t[2].z
               mf == t[2].feed
               mp == t[2].pen
               nf == t[3].feed
               np == t[3].pen
    <1>0. /\ t = Trio(x0, z0, rate, pen, mx, mz, mf, mp, nf, np)
          /\ Stand(s, x0, z0, rate, pen, mx, mz, mf, mp, nf, np)
        BY TrioIs
    <1> HIDE DEF x0, z0, rate, pen, mx, mz, mf, mp, nf, np
    <1>1. CASE s.post # "hpgl"
        BY <1>0, <1>1, DwellStep
    <1>2. CASE s.post = "hpgl"
        <2> DEFINE c == Dwell(d)
        <2>1. c \in CallSet
            BY DEF CallSet
        <2>2. c.c = "dwell"
            BY DwellIs DEF CallOf
        <2> HIDE DEF c
        <2>3. Same(s, <<c>>, t, t)
            BY <1>2, <2>1, <2>2, PlotterStep
        <2> QED
            BY <2>3 DEF c
    <1> QED
        BY <1>1, <1>2

LEMMA StationFrom ==
    ASSUME NEW s \in Setup, NEW t \in Stands(s)
    PROVE  \E u \in Stands(s) : /\ Same(s, <<Station>>, t, u)
                                /\ s.post # "hpgl" /\ t[1].rate = 0 => u[1] = FreshPost
    <1> DEFINE x0 == t[1].x
               z0 == t[1].z
               rate == t[1].rate
               pen == t[1].pen
               mx == t[2].x
               mz == t[2].z
               mf == t[2].feed
               mp == t[2].pen
               nf == t[3].feed
               np == t[3].pen
    <1>0. /\ t = Trio(x0, z0, rate, pen, mx, mz, mf, mp, nf, np)
          /\ Stand(s, x0, z0, rate, pen, mx, mz, mf, mp, nf, np)
        BY TrioIs
    <1> HIDE DEF x0, z0, rate, pen, mx, mz, mf, mp, nf, np
    <1>1. CASE s.post # "hpgl"
        <2> DEFINE u == Trio(Unknown, Unknown, rate, pen, Unknown, Unknown, mf, mp, nf, np)
        <2>1. Same(s, <<Station>>, t, u)
            BY <1>0, <1>1, StationStep
        <2>2. u \in Stands(s)
            <3>1. Unknown \in Place
                BY DEF Place
            <3>2. Stand(s, Unknown, Unknown, rate, pen, Unknown, Unknown, mf, mp, nf, np)
                BY <1>0, <1>1, <3>1 DEF Stand
            <3> QED
                BY <3>2, TrioStands
        <2>3. u[1] = PostOf(Unknown, Unknown, rate, pen)
            BY TrioFields
        <2> HIDE DEF u
        <2> QED
            BY <1>0, <1>1, <2>1, <2>2, <2>3 DEF x0, z0, rate, pen, Stand, FreshPost, PostOf
    <1>2. CASE s.post = "hpgl"
        <2> DEFINE c == Station
        <2>1. c \in CallSet
            BY DEF CallSet
        <2>2. c.c = "station"
            BY StationIs DEF CallOf
        <2> HIDE DEF c
        <2>3. Same(s, <<c>>, t, t)
            BY <1>2, <2>1, <2>2, PlotterStep
        <2> QED
            BY <1>2, <2>3 DEF c
    <1> QED
        BY <1>1, <1>2

LEMMA HomeFrom ==
    ASSUME NEW s \in Setup, NEW t \in Stands(s), s.post # "hpgl" => t[1] = FreshPost
    PROVE  \E u \in Stands(s) : /\ Same(s, <<Home>>, t, u)
                                /\ s.post # "hpgl" => u[1] = FreshPost
    <1> DEFINE x0 == t[1].x
               z0 == t[1].z
               rate == t[1].rate
               pen == t[1].pen
               mx == t[2].x
               mz == t[2].z
               mf == t[2].feed
               mp == t[2].pen
               nf == t[3].feed
               np == t[3].pen
    <1>0. /\ t = Trio(x0, z0, rate, pen, mx, mz, mf, mp, nf, np)
          /\ Stand(s, x0, z0, rate, pen, mx, mz, mf, mp, nf, np)
        BY TrioIs
    <1>9. s.post # "hpgl" => x0 = Unknown /\ z0 = Unknown /\ rate = 0
        BY DEF FreshPost
    <1> HIDE DEF x0, z0, rate, pen, mx, mz, mf, mp, nf, np
    <1>1. CASE s.post # "hpgl"
        <2> DEFINE u == Trio(x0, z0, rate, pen, Unknown, Unknown, mf, mp, nf, np)
        <2>1. Same(s, <<Home>>, t, u)
            BY <1>0, <1>1, <1>9, HomeStep
        <2>2. u \in Stands(s)
            <3>1. Unknown \in Place
                BY DEF Place
            <3>2. Stand(s, x0, z0, rate, pen, Unknown, Unknown, mf, mp, nf, np)
                BY <1>0, <1>1, <1>9, <3>1 DEF Stand
            <3> QED
                BY <3>2, TrioStands
        <2>3. u[1] = PostOf(x0, z0, rate, pen)
            BY TrioFields
        <2> HIDE DEF u
        <2> QED
            BY <1>0, <1>1, <2>1, <2>2, <2>3, <1>9 DEF x0, z0, rate, pen, Stand, FreshPost, PostOf
    <1>2. CASE s.post = "hpgl"
        <2> DEFINE c == Home
        <2>1. c \in CallSet
            BY DEF CallSet
        <2>2. c.c = "home"
            BY HomeIs DEF CallOf
        <2> HIDE DEF c
        <2>3. Same(s, <<c>>, t, t)
            BY <1>2, <2>1, <2>2, PlotterStep
        <2> QED
            BY <1>2, <2>3 DEF c
    <1> QED
        BY <1>1, <1>2

LEMMA ProbeFrom ==
    ASSUME NEW s \in Setup, NEW t \in Stands(s), s.post # "hpgl" => t[1] = FreshPost,
           NEW v \in Nat \ {0}, s.post # "hpgl" => ~ s.inch
    PROVE  \E u \in Stands(s) : /\ Same(s, <<ProbeZ(v)>>, t, u)
                                /\ s.post # "hpgl" => u[1] = FreshPost
    <1> DEFINE x0 == t[1].x
               z0 == t[1].z
               rate == t[1].rate
               pen == t[1].pen
               mx == t[2].x
               mz == t[2].z
               mf == t[2].feed
               mp == t[2].pen
               nf == t[3].feed
               np == t[3].pen
    <1>0. /\ t = Trio(x0, z0, rate, pen, mx, mz, mf, mp, nf, np)
          /\ Stand(s, x0, z0, rate, pen, mx, mz, mf, mp, nf, np)
        BY TrioIs
    <1>9. s.post # "hpgl" => x0 = Unknown /\ z0 = Unknown /\ rate = 0
        BY DEF FreshPost
    <1> HIDE DEF x0, z0, rate, pen, mx, mz, mf, mp, nf, np
    <1>1. CASE s.post # "hpgl"
        <2> DEFINE u == Trio(Unknown, Unknown, rate, pen, mx, Unknown, v, mp, nf, np)
        <2>1. Same(s, <<ProbeZ(v)>>, t, u)
            BY <1>0, <1>1, <1>9, ProbeStep
        <2>2. u \in Stands(s)
            <3>1. Unknown \in Place
                BY DEF Place
            <3>2. Stand(s, Unknown, Unknown, rate, pen, mx, Unknown, v, mp, nf, np)
                BY <1>0, <1>1, <1>9, <3>1 DEF Stand
            <3> QED
                BY <3>2, TrioStands
        <2>3. u[1] = PostOf(Unknown, Unknown, rate, pen)
            BY TrioFields
        <2> HIDE DEF u
        <2> QED
            BY <1>0, <1>1, <2>1, <2>2, <2>3, <1>9 DEF x0, z0, rate, pen, Stand, FreshPost, PostOf
    <1>2. CASE s.post = "hpgl"
        <2> DEFINE c == ProbeZ(v)
        <2>1. c \in CallSet
            BY DEF CallSet
        <2>2. c.c = "probe"
            BY ProbeZIs DEF CallOf
        <2> HIDE DEF c
        <2>3. Same(s, <<c>>, t, t)
            BY <1>2, <2>1, <2>2, PlotterStep
        <2> QED
            BY <1>2, <2>3 DEF c
    <1> QED
        BY <1>1, <1>2

LEMMA SetZFrom ==
    ASSUME NEW s \in Setup, NEW t \in Stands(s), s.post # "hpgl" => t[1] = FreshPost, NEW z \in Near
    PROVE  \E u \in Stands(s) : /\ Same(s, <<SetZ(z)>>, t, u)
                                /\ s.post # "hpgl" => u[1] = FreshPost
    <1> DEFINE x0 == t[1].x
               z0 == t[1].z
               rate == t[1].rate
               pen == t[1].pen
               mx == t[2].x
               mz == t[2].z
               mf == t[2].feed
               mp == t[2].pen
               nf == t[3].feed
               np == t[3].pen
    <1>0. /\ t = Trio(x0, z0, rate, pen, mx, mz, mf, mp, nf, np)
          /\ Stand(s, x0, z0, rate, pen, mx, mz, mf, mp, nf, np)
        BY TrioIs
    <1>9. s.post # "hpgl" => x0 = Unknown /\ z0 = Unknown /\ rate = 0
        BY DEF FreshPost
    <1>8. z \in Place
        BY DEF Place
    <1> HIDE DEF x0, z0, rate, pen, mx, mz, mf, mp, nf, np
    <1>1. CASE s.post # "hpgl"
        <2> DEFINE u == Trio(x0, Unknown, rate, pen, mx, z, mf, mp, nf, np)
        <2>1. Same(s, <<SetZ(z)>>, t, u)
            BY <1>0, <1>1, <1>8, <1>9, SetZStep
        <2>2. u \in Stands(s)
            <3>1. Unknown \in Place
                BY DEF Place
            <3>2. Stand(s, x0, Unknown, rate, pen, mx, z, mf, mp, nf, np)
                BY <1>0, <1>1, <1>8, <1>9, <3>1 DEF Stand
            <3> QED
                BY <3>2, TrioStands
        <2>3. u[1] = PostOf(x0, Unknown, rate, pen)
            BY TrioFields
        <2> HIDE DEF u
        <2> QED
            BY <1>0, <1>1, <2>1, <2>2, <2>3, <1>8, <1>9 DEF x0, z0, rate, pen, Stand, FreshPost, PostOf
    <1>2. CASE s.post = "hpgl"
        <2> DEFINE c == SetZ(z)
        <2>1. c \in CallSet
            BY DEF CallSet
        <2>2. c.c = "setz"
            BY SetZIs DEF CallOf
        <2> HIDE DEF c
        <2>3. Same(s, <<c>>, t, t)
            BY <1>2, <2>1, <2>2, PlotterStep
        <2> QED
            BY <1>2, <2>3 DEF c
    <1> QED
        BY <1>1, <1>2

LEMMA ApplyFrom ==
    ASSUME NEW s \in Setup, NEW t \in Stands(s), s.post # "hpgl" => t[1] = FreshPost
    PROVE  \E u \in Stands(s) : /\ Same(s, <<ApplyProbed>>, t, u)
                                /\ s.post # "hpgl" => u[1] = FreshPost
    <1> DEFINE x0 == t[1].x
               z0 == t[1].z
               rate == t[1].rate
               pen == t[1].pen
               mx == t[2].x
               mz == t[2].z
               mf == t[2].feed
               mp == t[2].pen
               nf == t[3].feed
               np == t[3].pen
    <1>0. /\ t = Trio(x0, z0, rate, pen, mx, mz, mf, mp, nf, np)
          /\ Stand(s, x0, z0, rate, pen, mx, mz, mf, mp, nf, np)
        BY TrioIs
    <1>9. s.post # "hpgl" => /\ x0 = Unknown /\ z0 = Unknown /\ rate = 0
                             /\ t[1] = FreshPost
        BY DEF FreshPost
    <1> HIDE DEF x0, z0, rate, pen, mx, mz, mf, mp, nf, np
    <1>1. CASE s.post # "hpgl" /\ s.post # "grbl"
        <2> DEFINE u == Trio(x0, Unknown, rate, pen, mx, Unknown, mf, mp, nf, np)
        <2>1. Same(s, <<ApplyProbed>>, t, u)
            BY <1>0, <1>1, ApplyStep
        <2>2. u \in Stands(s)
            <3>1. Unknown \in Place
                BY DEF Place
            <3>2. Stand(s, x0, Unknown, rate, pen, mx, Unknown, mf, mp, nf, np)
                BY <1>0, <1>1, <3>1 DEF Stand
            <3> QED
                BY <3>2, TrioStands
        <2>3. u[1] = PostOf(x0, Unknown, rate, pen)
            BY TrioFields
        <2> HIDE DEF u
        <2> QED
            BY <1>0, <1>1, <1>9, <2>1, <2>2, <2>3 DEF Stand, FreshPost, PostOf
    <1>2. CASE s.post = "grbl"
        <2>1. Same(s, <<ApplyProbed>>, t, t)
            BY <1>0, <1>2, ApplyNothing
        <2> QED
            BY <1>2, <1>9, <2>1
    <1>3. CASE s.post = "hpgl"
        <2> DEFINE c == ApplyProbed
        <2>1. c \in CallSet
            BY DEF CallSet
        <2>2. c.c = "tlo"
            BY ApplyProbedIs DEF CallOf
        <2> HIDE DEF c
        <2>3. Same(s, <<c>>, t, t)
            BY <1>3, <2>1, <2>2, PlotterStep
        <2> QED
            BY <1>3, <2>3 DEF c
    <1> QED
        BY <1>1, <1>2, <1>3

LEMMA ArcFrom ==
    ASSUME NEW s \in Setup, NEW t \in Stands(s), t[1].x # Unknown, t[3].feed = t[2].feed,
           NEW x \in Near, NEW z \in Place, NEW i \in Offsets
    PROVE  \E u \in Stands(s) : /\ Same(s, <<Arc(x, z, i)>>, t, u)
                                /\ u[1].x = x /\ u[3].feed = u[2].feed
    <1> DEFINE x0 == t[1].x
               z0 == t[1].z
               rate == t[1].rate
               pen == t[1].pen
               mx == t[2].x
               mz == t[2].z
               mf == t[2].feed
               mp == t[2].pen
               nf == t[3].feed
               np == t[3].pen
    <1>0. /\ t = Trio(x0, z0, rate, pen, mx, mz, mf, mp, nf, np)
          /\ Stand(s, x0, z0, rate, pen, mx, mz, mf, mp, nf, np)
        BY TrioIs
    <1>8. x0 # Unknown /\ nf = mf
        OBVIOUS
    <1> HIDE DEF x0, z0, rate, pen, mx, mz, mf, mp, nf, np
    <1>9. /\ mx = x0 /\ x0 \in Near /\ x \in Place
          /\ t = Trio(x0, z0, rate, pen, x0, mz, mf, mp, mf, np)
          /\ Stand(s, x0, z0, rate, pen, x0, mz, mf, mp, mf, np)
        <2>1. x0 \in {Unknown, mx} /\ x0 \in Place /\ x \in Place
            BY <1>0 DEF Stand, Place
        <2>2. mx = x0 /\ x0 \in Near
            BY <1>8, <2>1 DEF Place
        <2> QED
            BY <1>0, <1>8, <2>1, <2>2
    <1>1. CASE s.post # "hpgl"
        <2> DEFINE Z == Held(mz, z)
                   deep == Held(z0, z)
                   u == Trio(x, deep, rate, pen, x, Z, mf, mp, mf, np)
        <2>1. Same(s, <<Arc(x, z, i)>>, t, u)
            BY <1>1, <1>9, ArcStep
        <2>2. u \in Stands(s)
            <3>1. mz \in Place /\ z0 \in {Unknown, mz} /\ z0 \in Place
                BY <1>1, <1>9 DEF Stand
            <3>2. Z \in Place /\ deep \in Place /\ deep \in {Unknown, Z}
                BY <3>1, HeldPlace, HeldHeld
            <3> HIDE DEF Z, deep
            <3>3. Stand(s, x, deep, rate, pen, x, Z, mf, mp, mf, np)
                BY <1>1, <1>9, <3>2 DEF Stand
            <3> QED
                BY <3>3, TrioStands
        <2>3. u[1].x = x /\ u[2].feed = mf /\ u[3].feed = mf
            BY TrioFields
        <2> HIDE DEF u
        <2> QED
            BY <2>1, <2>2, <2>3
    <1>2. CASE s.post = "hpgl"
        <2> DEFINE u == Trio(x, z0, rate, Down, x, mz, mf, Down, mf, np)
        <2>1. mp = pen
            BY <1>2, <1>9 DEF Stand
        <2>2. Same(s, <<Arc(x, z, i)>>, t, u)
            BY <1>2, <1>9, <2>1, PlotterArcStep
        <2>3. u \in Stands(s)
            <3>1. Down \in BOOLEAN
                BY DEF Down
            <3>2. Stand(s, x, z0, rate, Down, x, mz, mf, Down, mf, np)
                BY <1>2, <1>9, <3>1 DEF Stand
            <3> QED
                BY <3>2, TrioStands
        <2>4. u[1].x = x /\ u[2].feed = mf /\ u[3].feed = mf
            BY TrioFields
        <2> HIDE DEF u
        <2> QED
            BY <2>2, <2>3, <2>4
    <1> QED
        BY <1>1, <1>2

LEMMA CycleFrom ==
    ASSUME NEW s \in Setup, s.post # "hpgl", NEW t \in Stands(s), t[3].feed = t[2].feed,
           NEW x \in Near, NEW z \in Near, NEW q \in Nat, NEW v \in Nat, NEW d \in Nat
    PROVE  \E u \in Stands(s) : /\ Same(s, <<Drill(x, z, q, v, d)>>, t, u)
                                /\ u[1].x = x /\ u[3].feed = u[2].feed
    <1> DEFINE x0 == t[1].x
               z0 == t[1].z
               rate == t[1].rate
               pen == t[1].pen
               mx == t[2].x
               mz == t[2].z
               mf == t[2].feed
               mp == t[2].pen
               nf == t[3].feed
               np == t[3].pen
    <1>0. /\ t = Trio(x0, z0, rate, pen, mx, mz, mf, mp, nf, np)
          /\ Stand(s, x0, z0, rate, pen, mx, mz, mf, mp, nf, np)
        BY TrioIs
    <1>1. nf = mf
        OBVIOUS
    <1> HIDE DEF x0, z0, rate, pen, mx, mz, mf, mp, nf, np
    <1> DEFINE u == Trio(x, Retract, rate, pen, x, Retract, mf, mp, nf, np)
    <1>2. Same(s, <<Drill(x, z, q, v, d)>>, t, u)
        BY <1>0, <1>1, CycleStep
    <1>3. u \in Stands(s)
        <2>1. Retract \in Place
            BY NearIs DEF Place
        <2>2. x \in Place
            BY DEF Place
        <2>3. Stand(s, x, Retract, rate, pen, x, Retract, mf, mp, nf, np)
            BY <1>0, <2>1, <2>2 DEF Stand
        <2> QED
            BY <2>3, TrioStands
    <1>4. u[1].x = x /\ u[2].feed = mf /\ u[3].feed = nf
        BY TrioFields
    <1> HIDE DEF u
    <1> QED
        BY <1>1, <1>2, <1>3, <1>4

-----------------------------------------------------------------------------
(* What a call needs and what it leaves *)

LEMMA StancesIn ==
    ASSUME NEW s
    PROVE  /\ Stands(s) \in SUBSET Stands(s) /\ Idle(s) \in SUBSET Stands(s)
           /\ Reset(s) \in SUBSET Stands(s) /\ Primed(s) \in SUBSET Stands(s)
           /\ Known(s) \in SUBSET Stands(s) /\ Known(s) \subseteq Primed(s)
           /\ Reset(s) \subseteq Idle(s)
    <1>1. FreshPost.rate = 0
        BY DEF FreshPost
    <1> QED
        BY <1>1 DEF Idle, Reset, Primed, Known

LEMMA FeedFollows ==
    ASSUME NEW s \in Setup, NEW v, Feedable(s, v)
    PROVE  /\ Follows(s, <<Feedrate(v)>>, Stands(s), Primed(s))
           /\ Follows(s, <<Feedrate(v)>>, Known(s), Known(s))
    <1>1. ASSUME NEW t \in Stands(s)
          PROVE  \E u \in Primed(s) : Same(s, <<Feedrate(v)>>, t, u) /\ u[1].x = t[1].x
        BY FeedFrom DEF Primed
    <1> QED
        BY <1>1, StancesIn DEF Follows, Known

LEMMA MoveFollows ==
    ASSUME NEW s \in Setup, NEW x \in Place, NEW z \in Place
    PROVE  /\ Follows(s, <<MoveTo(x, z)>>, Stands(s), Stands(s))
           /\ Follows(s, <<MoveTo(x, z)>>, Primed(s), Primed(s))
           /\ Follows(s, <<MoveTo(x, z)>>, Known(s), Known(s))
           /\ Follows(s, <<MoveTo(x, z)>>, Idle(s), Idle(s))
           /\ x # Unknown => Follows(s, <<MoveTo(x, z)>>, Primed(s), Known(s))
    <1> DEFINE cs == <<MoveTo(x, z)>>
    <1>1. ASSUME NEW t \in Stands(s)
          PROVE  \E u \in Stands(s) :
                     /\ Same(s, cs, t, u) /\ Carried(t, u)
                     /\ x # Unknown \/ t[1].x # Unknown => u[1].x # Unknown
        BY MoveToStep
    <1> HIDE DEF cs
    <1>2. Follows(s, cs, Stands(s), Stands(s))
        BY <1>1 DEF Follows
    <1>3. Follows(s, cs, Primed(s), Primed(s))
        BY <1>1 DEF Follows, Primed, Carried
    <1>4. Follows(s, cs, Known(s), Known(s))
        BY <1>1 DEF Follows, Known, Primed, Carried
    <1>5. Follows(s, cs, Idle(s), Idle(s))
        BY <1>1 DEF Follows, Idle, Carried
    <1>6. x # Unknown => Follows(s, cs, Primed(s), Known(s))
        BY <1>1 DEF Follows, Known, Primed, Carried
    <1> QED
        BY <1>2, <1>3, <1>4, <1>5, <1>6 DEF cs

LEMMA LinearFollows ==
    ASSUME NEW s \in Setup, NEW x \in Place, NEW z \in Place
    PROVE  /\ Follows(s, <<Linear(x, z)>>, Primed(s), Primed(s))
           /\ Follows(s, <<Linear(x, z)>>, Known(s), Known(s))
           /\ x # Unknown => Follows(s, <<Linear(x, z)>>, Primed(s), Known(s))
    <1> DEFINE cs == <<Linear(x, z)>>
    <1>1. ASSUME NEW t \in Stands(s), t[3].feed = t[2].feed
          PROVE  \E u \in Stands(s) :
                     /\ Same(s, cs, t, u) /\ Carried(t, u)
                     /\ x # Unknown \/ t[1].x # Unknown => u[1].x # Unknown
        BY <1>1, LinearStep
    <1> HIDE DEF cs
    <1>2. Follows(s, cs, Primed(s), Primed(s))
        BY <1>1 DEF Follows, Primed, Carried
    <1>3. Follows(s, cs, Known(s), Known(s))
        BY <1>1 DEF Follows, Known, Primed, Carried
    <1>4. x # Unknown => Follows(s, cs, Primed(s), Known(s))
        BY <1>1 DEF Follows, Known, Primed, Carried
    <1> QED
        BY <1>2, <1>3, <1>4 DEF cs

LEMMA ArcFollows ==
    ASSUME NEW s \in Setup, NEW x \in Near, NEW z \in Place, NEW i \in Offsets
    PROVE  Follows(s, <<Arc(x, z, i)>>, Known(s), Known(s))
    <1> DEFINE cs == <<Arc(x, z, i)>>
    <1>1. x # Unknown
        BY NearIs
    <1>2. ASSUME NEW t \in Stands(s), t[1].x # Unknown, t[3].feed = t[2].feed
          PROVE  \E u \in Stands(s) : /\ Same(s, cs, t, u)
                                     /\ u[1].x = x /\ u[3].feed = u[2].feed
        BY <1>2, ArcFrom
    <1> HIDE DEF cs
    <1>3. Follows(s, cs, Known(s), Known(s))
        BY <1>1, <1>2 DEF Follows, Known, Primed
    <1> QED
        BY <1>3 DEF cs

LEMMA CycleFollows ==
    ASSUME NEW s \in Setup, s.post # "hpgl", NEW x \in Near, NEW z \in Near, NEW q \in Nat,
           NEW v \in Nat, NEW d \in Nat
    PROVE  Follows(s, <<Drill(x, z, q, v, d)>>, Primed(s), Known(s))
    <1> DEFINE cs == <<Drill(x, z, q, v, d)>>
    <1>1. x # Unknown
        BY NearIs
    <1>2. ASSUME NEW t \in Stands(s), t[3].feed = t[2].feed
          PROVE  \E u \in Stands(s) : /\ Same(s, cs, t, u)
                                     /\ u[1].x = x /\ u[3].feed = u[2].feed
        BY <1>2, CycleFrom
    <1> HIDE DEF cs
    <1>3. Follows(s, cs, Primed(s), Known(s))
        BY <1>1, <1>2 DEF Follows, Known, Primed
    <1> QED
        BY <1>3 DEF cs

LEMMA DwellFollows ==
    ASSUME NEW s \in Setup, NEW d \in Nat, NEW A \in SUBSET Stands(s)
    PROVE  Follows(s, <<Dwell(d)>>, A, A)
    BY DwellFrom DEF Follows

LEMMA MarkerFollows ==
    ASSUME NEW s \in Setup, NEW id \in Kinds, NEW A \in SUBSET Stands(s)
    PROVE  Follows(s, <<Marker(id)>>, A, A)
    BY MarkerFrom DEF Follows

\* The machine-frame move of a tool change leaves nothing for the post to build on.
LEMMA StationFollows ==
    ASSUME NEW s \in Setup
    PROVE  /\ Follows(s, <<Station>>, Stands(s), Stands(s))
           /\ Follows(s, <<Station>>, Idle(s), Reset(s))
    <1> DEFINE cs == <<Station>>
    <1>1. ASSUME NEW t \in Stands(s)
          PROVE  \E u \in Stands(s) :
                     /\ Same(s, cs, t, u)
                     /\ s.post # "hpgl" /\ t[1].rate = 0 => u[1] = FreshPost
        BY StationFrom
    <1> HIDE DEF cs
    <1>2. Follows(s, cs, Stands(s), Stands(s))
        BY <1>1 DEF Follows
    <1>3. Follows(s, cs, Idle(s), Reset(s))
        <2>1. ASSUME NEW t \in Idle(s) PROVE \E u \in Reset(s) : Same(s, cs, t, u)
            <3>1. t \in Stands(s) /\ (s.post # "hpgl" => t[1].rate = 0)
                BY DEF Idle
            <3>2. PICK u \in Stands(s) :
                      /\ Same(s, cs, t, u)
                      /\ s.post # "hpgl" /\ t[1].rate = 0 => u[1] = FreshPost
                BY <1>1, <3>1
            <3> QED
                BY <3>1, <3>2 DEF Reset
        <2> QED
            BY <2>1 DEF Follows
    <1> QED
        BY <1>2, <1>3 DEF cs

LEMMA ResetFollows ==
    ASSUME NEW s \in Setup
    PROVE  /\ Follows(s, <<Home>>, Reset(s), Reset(s))
           /\ Follows(s, <<ApplyProbed>>, Reset(s), Reset(s))
           /\ \A z \in Near : Follows(s, <<SetZ(z)>>, Reset(s), Reset(s))
           /\ (s.post # "hpgl" => ~ s.inch) =>
                  \A v \in Nat \ {0} : Follows(s, <<ProbeZ(v)>>, Reset(s), Reset(s))
    <1> DEFINE Stays(cs, t) == \E u \in Stands(s) :
                                  /\ Same(s, cs, t, u)
                                  /\ s.post # "hpgl" => u[1] = FreshPost
    <1>1. ASSUME NEW cs, \A t \in Stands(s) : (s.post # "hpgl" => t[1] = FreshPost) => Stays(cs, t)
          PROVE  Follows(s, cs, Reset(s), Reset(s))
        <2>1. ASSUME NEW t \in Reset(s) PROVE \E u \in Reset(s) : Same(s, cs, t, u)
            <3>1. t \in Stands(s) /\ (s.post # "hpgl" => t[1] = FreshPost)
                BY DEF Reset
            <3> QED
                BY <1>1, <3>1 DEF Reset, Stays
        <2> QED
            BY <2>1 DEF Follows
    <1>2. ASSUME NEW t \in Stands(s), s.post # "hpgl" => t[1] = FreshPost
          PROVE  /\ Stays(<<Home>>, t) /\ Stays(<<ApplyProbed>>, t)
                 /\ \A z \in Near : Stays(<<SetZ(z)>>, t)
                 /\ (s.post # "hpgl" => ~ s.inch) =>
                        \A v \in Nat \ {0} : Stays(<<ProbeZ(v)>>, t)
        <2>1. Stays(<<Home>>, t)
            BY <1>2, HomeFrom
        <2>2. Stays(<<ApplyProbed>>, t)
            BY <1>2, ApplyFrom
        <2>3. ASSUME NEW z \in Near PROVE Stays(<<SetZ(z)>>, t)
            BY <1>2, SetZFrom
        <2>4. ASSUME s.post # "hpgl" => ~ s.inch, NEW v \in Nat \ {0} PROVE Stays(<<ProbeZ(v)>>, t)
            BY <1>2, <2>4, ProbeFrom
        <2> HIDE DEF Stays
        <2> QED
            BY <2>1, <2>2, <2>3, <2>4
    <1> HIDE DEF Stays
    <1> QED
        BY <1>1, <1>2

-----------------------------------------------------------------------------
(* The calls of an operation, the drill cycles written out where the post has none *)

\* A drill with or without a dwell, and a peck of two.
Holes ==
    {Drill(x, Bottom, 0, v, p) : x \in Near, v \in Nat, p \in {0, 1}}
    \cup {Drill(x, Bottom, 6, v, 0) : x \in Near, v \in Nat}

Given == {c \in CallSet : c.c = "drill" => c \in Holes}

Down2 == Linear(Unknown, -2)
Down6 == Linear(Unknown, Bottom)
Out == MoveTo(Unknown, Retract)

LEMMA ExpandPlain ==
    ASSUME NEW x, NEW v, NEW p
    PROVE  Expand(Drill(x, Bottom, 0, v, p)) =
               <<MoveTo(x, Retract), Feedrate(v)>>
               \o (<<Down6>> \o (IF p > 0 THEN <<Dwell(p)>> ELSE <<>>)
                   \o <<Linear(Unknown, Retract)>>)
    <1> DEFINE c == Drill(x, Bottom, 0, v, p)
    <1>1. c.x = x /\ c.z = Bottom /\ c.r = Retract /\ c.q = 0 /\ c.v = v /\ c.p = p
        BY DrillIs DEF CallOf
    <1> HIDE DEF c
    <1>2. ~ (c.q > 0)
        BY <1>1
    <1>3. Expand(c) = <<MoveTo(c.x, c.r), Feedrate(c.v)>>
                      \o (<<Linear(Unknown, c.z)>>
                          \o (IF c.p > 0 THEN <<Dwell(c.p)>> ELSE <<>>)
                          \o <<Linear(Unknown, c.r)>>)
        BY <1>2 DEF Expand
    <1> QED
        BY <1>1, <1>3 DEF c, Down6

\* Two dips, with the way back into the hole between them.
LEMMA ExpandPeck ==
    ASSUME NEW x, NEW v
    PROVE  Expand(Drill(x, Bottom, 6, v, 0)) =
               <<MoveTo(x, Retract), Feedrate(v)>>
               \o ((<<>> \o (<<Down2>> \o <<>> \o <<Out>>
                             \o <<MoveTo(Unknown, -2 + 2), Feedrate(v), Down2>>))
                   \o (<<Down6>> \o <<>> \o <<Out>> \o <<>>))
    <1> DEFINE c == Drill(x, Bottom, 6, v, 0)
    <1>1. c.x = x /\ c.z = Bottom /\ c.r = Retract /\ c.q = 6 /\ c.v = v /\ c.p = 0
        BY DrillIs DEF CallOf
    <1> HIDE DEF c
    <1> DEFINE Depth(k) == Biggest(c.r - k * c.q, c.z)
               pecks == (c.r - c.z + c.q - 1) \div c.q
               Reentry(k) ==
                   IF k = pecks THEN <<>>
                   ELSE <<MoveTo(Unknown, Depth(k) + 2), Feedrate(c.v), Linear(Unknown, Depth(k))>>
               Peck(k) ==
                   <<Linear(Unknown, Depth(k))>>
                   \o (IF c.p > 0 THEN <<Dwell(c.p)>> ELSE <<>>)
                   \o <<MoveTo(Unknown, c.r)>> \o Reentry(k)
               ss == [k \in 1 .. pecks |-> Peck(k)]
    <1>2. Pecks(c) = Strung(ss)[pecks]
        BY DEF Pecks
    <1>3. pecks = 2
        BY <1>1 DEF Retract, Bottom
    <1>4. Depth(1) = -2 /\ Depth(2) = Bottom
        BY <1>1 DEF Biggest, Retract, Bottom
    <1>5. ~ (c.p > 0) /\ c.q > 0
        BY <1>1
    <1> HIDE DEF Depth, pecks
    <1> DEFINE One == <<Down2>> \o <<>> \o <<Out>> \o <<MoveTo(Unknown, -2 + 2), Feedrate(v), Down2>>
               Two == <<Down6>> \o <<>> \o <<Out>> \o <<>>
    <1>6. Peck(1) = One
        BY <1>1, <1>3, <1>4, <1>5 DEF Down2, Out
    <1>7. Peck(2) = Two
        BY <1>1, <1>3, <1>4, <1>5 DEF Down6, Out
    <1> HIDE DEF Peck, One, Two
    <1>8. Len(ss) = 2 /\ ss[1] = One /\ ss[2] = Two
        <2>1. ss = [k \in 1 .. 2 |-> Peck(k)]
            BY <1>3
        <2> HIDE DEF ss
        <2>2. Len(ss) = 2 /\ ss[1] = Peck(1) /\ ss[2] = Peck(2)
            BY <2>1
        <2> QED
            BY <1>6, <1>7, <2>2
    <1> HIDE DEF ss
    <1>9. Strung(ss)[0] = <<>>
        BY <1>8, StrungStart
    <1>10. Strung(ss)[0 + 1] = Strung(ss)[0] \o ss[0 + 1]
        <2>1. 0 \in Nat /\ 0 < Len(ss) /\ Len(ss) \in Nat
            BY <1>8
        <2> QED
            BY <2>1, StrungNext
    <1>11. Strung(ss)[1 + 1] = Strung(ss)[1] \o ss[1 + 1]
        <2>1. 1 \in Nat /\ 1 < Len(ss) /\ Len(ss) \in Nat
            BY <1>8
        <2> QED
            BY <2>1, StrungNext
    <1>12. 0 + 1 = 1 /\ 1 + 1 = 2
        OBVIOUS
    <1>13. Strung(ss)[2] = (<<>> \o One) \o Two
        BY <1>8, <1>9, <1>10, <1>11, <1>12
    <1>14. Expand(c) = <<MoveTo(c.x, c.r), Feedrate(c.v)>> \o Pecks(c)
        BY <1>5 DEF Expand
    <1> QED
        BY <1>1, <1>2, <1>3, <1>13, <1>14 DEF c, One, Two

LEMMA GivenCalls ==
    /\ {MoveTo(x, z) : x \in Place, z \in Place} \subseteq Given
    /\ {Linear(x, z) : x \in Place, z \in Place} \subseteq Given
    /\ {Arc(x, z, i) : x \in Near, z \in Place, i \in Offsets} \subseteq Given
    /\ {Feedrate(v) : v \in Nat} \subseteq Given
    /\ {Dwell(p) : p \in Nat} \subseteq Given
    /\ {Station, Home, ApplyProbed} \subseteq Given
    /\ {ProbeZ(v) : v \in Nat} \subseteq Given
    /\ {SetZ(z) : z \in Near} \subseteq Given
    /\ {Marker(id) : id \in Kinds} \subseteq Given
    /\ {Raw(g, x, z, v) : g \in {"G0", "G1"}, x \in Place, z \in Place, v \in Nat} \subseteq Given
    /\ Holes \subseteq Given /\ Given \subseteq CallSet
    <1>1. ASSUME NEW x, NEW z PROVE MoveTo(x, z).c # "drill" /\ Linear(x, z).c # "drill"
        BY MoveToIs, LinearIs DEF CallOf
    <1>2. ASSUME NEW x, NEW z, NEW i PROVE Arc(x, z, i).c # "drill"
        BY ArcIs DEF CallOf
    <1>3. ASSUME NEW v PROVE /\ Feedrate(v).c # "drill" /\ Dwell(v).c # "drill"
                             /\ ProbeZ(v).c # "drill" /\ SetZ(v).c # "drill"
                             /\ Marker(v).c # "drill"
        BY FeedrateIs, DwellIs, ProbeZIs, SetZIs, MarkerIs DEF CallOf
    <1>4. Station.c # "drill" /\ Home.c # "drill" /\ ApplyProbed.c # "drill"
        BY StationIs, HomeIs, ApplyProbedIs DEF CallOf
    <1>5. ASSUME NEW g, NEW x, NEW z, NEW v PROVE Raw(g, x, z, v).c # "drill"
        BY RawIs DEF CallOf
    <1>6. Holes \subseteq CallSet
        <2>1. Bottom \in Near
            BY NearIs
        <2> QED
            BY <2>1 DEF Holes, CallSet
    <1> QED
        BY <1>1, <1>2, <1>3, <1>4, <1>5, <1>6 DEF Given, CallSet

LEMMA CalledIs ==
    ASSUME NEW s, NEW c
    PROVE  /\ c.c # "drill" \/ s.post = "linuxcnc" => Called(s, c) = <<c>>
           /\ c.c = "drill" /\ s.post # "linuxcnc" => Called(s, c) = Expand(c)
    BY DEF Called

\* The calls cs, once made, take the three from A to B.
Goes(s, cs, A, B) ==
    /\ cs \in Seq(CallSet)
    /\ A \in SUBSET Stands(s) /\ B \in SUBSET Stands(s)
    /\ Follows(s, cs, A, B)

LEMMA GoesConcat ==
    ASSUME NEW s \in Setup, NEW left, NEW right, NEW A, NEW B, NEW C,
           Goes(s, left, A, B), Goes(s, right, B, C)
    PROVE  Goes(s, left \o right, A, C)
    <1>1. /\ left \in Seq(CallSet) /\ right \in Seq(CallSet)
          /\ A \in SUBSET Stands(s) /\ B \in SUBSET Stands(s) /\ C \in SUBSET Stands(s)
          /\ Follows(s, left, A, B) /\ Follows(s, right, B, C)
        BY DEF Goes
    <1>2. left \o right \in Seq(CallSet)
        BY <1>1, ConcatProperties
    <1>3. Follows(s, left \o right, A, C)
        BY <1>1, FollowsConcat
    <1> QED
        BY <1>1, <1>2, <1>3 DEF Goes

LEMMA GoesOne ==
    ASSUME NEW s, NEW c \in CallSet, NEW A \in SUBSET Stands(s), NEW B \in SUBSET Stands(s),
           Follows(s, <<c>>, A, B)
    PROVE  Goes(s, <<c>>, A, B)
    <1>1. <<c>> \in Seq(CallSet)
        OBVIOUS
    <1> QED
        BY <1>1 DEF Goes

LEMMA GoesNowhere ==
    ASSUME NEW s, NEW A \in SUBSET Stands(s)
    PROVE  Goes(s, <<>>, A, A)
    <1>1. <<>> \in Seq(CallSet)
        OBVIOUS
    <1> QED
        BY <1>1, FollowsNothing DEF Goes

LEMMA GoesWeaken ==
    ASSUME NEW s, NEW cs, NEW A, NEW B, NEW C, NEW D, C \subseteq A, B \subseteq D,
           D \in SUBSET Stands(s), Goes(s, cs, A, B)
    PROVE  Goes(s, cs, C, D)
    BY FollowsWeaken DEF Goes

LEMMA PlainCalls ==
    /\ \A x \in Place, z \in Place : MoveTo(x, z) \in CallSet /\ Linear(x, z) \in CallSet
    /\ \A x \in Near, z \in Place, i \in Offsets : Arc(x, z, i) \in CallSet
    /\ \A v \in Nat : /\ Feedrate(v) \in CallSet /\ Dwell(v) \in CallSet
                      /\ ProbeZ(v) \in CallSet
    /\ Station \in CallSet /\ Home \in CallSet /\ ApplyProbed \in CallSet
    /\ \A z \in Near : SetZ(z) \in CallSet
    /\ \A id \in Kinds : Marker(id) \in CallSet
    /\ \A g \in {"G0", "G1"}, x \in Place, z \in Place, v \in Nat : Raw(g, x, z, v) \in CallSet
    BY DEF CallSet

\* A hole where the post has no cycle for it: over it, in, and out, once or twice.
LEMMA PlainHoleGoes ==
    ASSUME NEW s \in Setup, NEW x \in Near, NEW v, Feedable(s, v), NEW p \in {0, 1}
    PROVE  Goes(s, Expand(Drill(x, Bottom, 0, v, p)), Primed(s), Known(s))
    <1>1. /\ Unknown \in Place /\ Bottom \in Place /\ Retract \in Place /\ x \in Place
          /\ x # Unknown /\ v \in Nat /\ p \in Nat
        BY NearIs DEF Feedable, Place
    <1>2. Known(s) \in SUBSET Stands(s) /\ Primed(s) \in SUBSET Stands(s)
        BY StancesIn
    <1> DEFINE a == <<MoveTo(x, Retract)>>
               b == <<Feedrate(v)>>
               c == <<Down6>>
               d == IF p > 0 THEN <<Dwell(p)>> ELSE <<>>
               e == <<Linear(Unknown, Retract)>>
    <1>3. Goes(s, a, Primed(s), Known(s))
        BY <1>1, <1>2, MoveFollows, PlainCalls, GoesOne
    <1>4. Goes(s, b, Known(s), Known(s))
        BY <1>1, <1>2, FeedFollows, PlainCalls, GoesOne
    <1>5. Goes(s, c, Known(s), Known(s))
        BY <1>1, <1>2, LinearFollows, PlainCalls, GoesOne DEF Down6
    <1>6. Goes(s, d, Known(s), Known(s))
        <2>1. Goes(s, <<Dwell(p)>>, Known(s), Known(s))
            BY <1>1, <1>2, DwellFollows, PlainCalls, GoesOne
        <2>2. Goes(s, <<>>, Known(s), Known(s))
            BY <1>2, GoesNowhere
        <2> QED
            BY <2>1, <2>2
    <1>7. Goes(s, e, Known(s), Known(s))
        BY <1>1, <1>2, LinearFollows, PlainCalls, GoesOne
    <1>8. <<MoveTo(x, Retract), Feedrate(v)>> = a \o b
        BY PairIs
    <1>9. Expand(Drill(x, Bottom, 0, v, p)) = (a \o b) \o (c \o d \o e)
        BY <1>8, ExpandPlain
    <1> HIDE DEF a, b, c, d, e
    <1>10. Goes(s, a \o b, Primed(s), Known(s))
        BY <1>3, <1>4, GoesConcat
    <1>11. Goes(s, c \o d, Known(s), Known(s))
        BY <1>5, <1>6, GoesConcat
    <1>12. Goes(s, c \o d \o e, Known(s), Known(s))
        BY <1>7, <1>11, GoesConcat
    <1>13. Goes(s, (a \o b) \o (c \o d \o e), Primed(s), Known(s))
        BY <1>10, <1>12, GoesConcat
    <1> QED
        BY <1>9, <1>13

LEMMA ThreeAre ==
    ASSUME NEW a, NEW b, NEW c
    PROVE  <<a, b, c>> = <<a>> \o <<b>> \o <<c>>
    <1> DEFINE S == {a, b, c}
    <1>1. <<a, b>> \in Seq(S) /\ c \in S
        OBVIOUS
    <1>2. Append(<<a, b>>, c) = <<a, b>> \o <<c>>
        BY <1>1, AppendIsConcat
    <1>3. <<a, b, c>> = Append(<<a, b>>, c)
        OBVIOUS
    <1>4. <<a, b>> = <<a>> \o <<b>>
        BY PairIs
    <1> QED
        BY <1>2, <1>3, <1>4

LEMMA PeckGoes ==
    ASSUME NEW s \in Setup, NEW x \in Near, NEW v, Feedable(s, v)
    PROVE  Goes(s, Expand(Drill(x, Bottom, 6, v, 0)), Primed(s), Known(s))
    <1>1. /\ Unknown \in Place /\ Bottom \in Place /\ Retract \in Place /\ x \in Place
          /\ x # Unknown /\ v \in Nat /\ -2 \in Place /\ 0 \in Place /\ -2 + 2 = 0
        BY NearIs DEF Feedable, Place
    <1>2. Known(s) \in SUBSET Stands(s) /\ Primed(s) \in SUBSET Stands(s)
        BY StancesIn
    <1> DEFINE a == <<MoveTo(x, Retract)>>
               b == <<Feedrate(v)>>
               down == <<Down2>>
               bottom == <<Down6>>
               out == <<Out>>
               back == <<MoveTo(Unknown, -2 + 2)>>
               nil == <<>>
    <1>3. Goes(s, a, Primed(s), Known(s))
        BY <1>1, <1>2, MoveFollows, PlainCalls, GoesOne
    <1>4. Goes(s, b, Known(s), Known(s))
        BY <1>1, <1>2, FeedFollows, PlainCalls, GoesOne
    <1>5. Goes(s, down, Known(s), Known(s)) /\ Goes(s, bottom, Known(s), Known(s))
        BY <1>1, <1>2, LinearFollows, PlainCalls, GoesOne DEF Down6, Down2
    <1>6. Goes(s, out, Known(s), Known(s))
        BY <1>1, <1>2, MoveFollows, PlainCalls, GoesOne DEF Out
    <1>7. Goes(s, back, Known(s), Known(s))
        BY <1>1, <1>2, MoveFollows, PlainCalls, GoesOne
    <1>8. Goes(s, nil, Known(s), Known(s))
        BY <1>2, GoesNowhere
    <1>9. <<MoveTo(x, Retract), Feedrate(v)>> = a \o b
        BY PairIs
    <1>10. <<MoveTo(Unknown, -2 + 2), Feedrate(v), Down2>> = back \o b \o down
        BY ThreeAre
    <1>11. Expand(Drill(x, Bottom, 6, v, 0)) =
               (a \o b) \o ((nil \o (down \o nil \o out \o (back \o b \o down)))
                            \o (bottom \o nil \o out \o nil))
        BY <1>9, <1>10, ExpandPeck
    <1> HIDE DEF a, b, down, bottom, out, back, nil
    <1>12. Goes(s, a \o b, Primed(s), Known(s))
        BY <1>3, <1>4, GoesConcat
    <1>13. Goes(s, back \o b, Known(s), Known(s))
        BY <1>4, <1>7, GoesConcat
    <1>14. Goes(s, back \o b \o down, Known(s), Known(s))
        BY <1>5, <1>13, GoesConcat
    <1>15. Goes(s, down \o nil, Known(s), Known(s))
        BY <1>5, <1>8, GoesConcat
    <1>16. Goes(s, down \o nil \o out, Known(s), Known(s))
        BY <1>6, <1>15, GoesConcat
    <1>17. Goes(s, down \o nil \o out \o (back \o b \o down), Known(s), Known(s))
        BY <1>14, <1>16, GoesConcat
    <1>18. Goes(s, nil \o (down \o nil \o out \o (back \o b \o down)), Known(s), Known(s))
        BY <1>8, <1>17, GoesConcat
    <1>19. Goes(s, bottom \o nil, Known(s), Known(s))
        BY <1>5, <1>8, GoesConcat
    <1>20. Goes(s, bottom \o nil \o out, Known(s), Known(s))
        BY <1>6, <1>19, GoesConcat
    <1>21. Goes(s, bottom \o nil \o out \o nil, Known(s), Known(s))
        BY <1>8, <1>20, GoesConcat
    <1>22. Goes(s, (nil \o (down \o nil \o out \o (back \o b \o down)))
                   \o (bottom \o nil \o out \o nil), Known(s), Known(s))
        BY <1>18, <1>21, GoesConcat
    <1>23. Goes(s, (a \o b) \o ((nil \o (down \o nil \o out \o (back \o b \o down)))
                                \o (bottom \o nil \o out \o nil)), Primed(s), Known(s))
        BY <1>12, <1>22, GoesConcat
    <1> QED
        BY <1>11, <1>23

LEMMA HoleGoes ==
    ASSUME NEW s \in Setup, NEW c \in Holes, Feedable(s, c.v)
    PROVE  Goes(s, Called(s, c), Primed(s), Known(s))
    <1>1. Known(s) \in SUBSET Stands(s) /\ Primed(s) \in SUBSET Stands(s)
        BY StancesIn
    <1>2. Bottom \in Near /\ 0 \in Nat /\ 1 \in Nat /\ 6 \in Nat
        BY NearIs
    <1>3. CASE \E x \in Near, v \in Nat, p \in {0, 1} : c = Drill(x, Bottom, 0, v, p)
        <2>1. PICK x \in Near, v \in Nat, p \in {0, 1} : c = Drill(x, Bottom, 0, v, p)
            BY <1>3
        <2>2. c.c = "drill" /\ c.v = v /\ p \in Nat
            BY <2>1, DrillIs DEF CallOf
        <2>3. CASE s.post = "linuxcnc"
            <3>1. c \in CallSet
                BY GivenCalls
            <3>2. Follows(s, <<c>>, Primed(s), Known(s))
                BY <1>2, <2>1, <2>2, <2>3, CycleFollows
            <3> QED
                BY <1>1, <2>3, <3>1, <3>2, GoesOne, CalledIs
        <2>4. CASE s.post # "linuxcnc"
            <3>1. Goes(s, Expand(c), Primed(s), Known(s))
                BY <2>1, <2>2, PlainHoleGoes
            <3> QED
                BY <2>2, <2>4, <3>1, CalledIs
        <2> QED
            BY <2>3, <2>4
    <1>4. CASE \E x \in Near, v \in Nat : c = Drill(x, Bottom, 6, v, 0)
        <2>1. PICK x \in Near, v \in Nat : c = Drill(x, Bottom, 6, v, 0)
            BY <1>4
        <2>2. c.c = "drill" /\ c.v = v
            BY <2>1, DrillIs DEF CallOf
        <2>3. CASE s.post = "linuxcnc"
            <3>1. c \in CallSet
                BY GivenCalls
            <3>2. Follows(s, <<c>>, Primed(s), Known(s))
                BY <1>2, <2>1, <2>2, <2>3, CycleFollows
            <3> QED
                BY <1>1, <2>3, <3>1, <3>2, GoesOne, CalledIs
        <2>4. CASE s.post # "linuxcnc"
            <3>1. Goes(s, Expand(c), Primed(s), Known(s))
                BY <2>1, <2>2, PeckGoes
            <3> QED
                BY <2>2, <2>4, <3>1, CalledIs
        <2> QED
            BY <2>3, <2>4
    <1> QED
        BY <1>3, <1>4 DEF Holes

LEMMA CalledType ==
    ASSUME NEW s, NEW c \in Given
    PROVE  Called(s, c) \in Seq(CallSet)
    <1>1. c \in CallSet /\ (c.c = "drill" => c \in Holes)
        BY DEF Given
    <1>2. \A x \in Place, z \in Place : MoveTo(x, z) \in CallSet /\ Linear(x, z) \in CallSet
        BY PlainCalls
    <1>3. \A v \in Nat : Feedrate(v) \in CallSet /\ Dwell(v) \in CallSet
        BY PlainCalls
    <1>4. /\ Unknown \in Place /\ Bottom \in Place /\ Retract \in Place /\ Near \subseteq Place
          /\ -2 \in Place /\ -2 + 2 \in Place
        BY NearIs DEF Place
    <1>5. Down2 \in CallSet /\ Down6 \in CallSet /\ Out \in CallSet
        BY <1>2, <1>4 DEF Down2, Down6, Out
    <1>6. CASE c.c = "drill" /\ s.post # "linuxcnc"
        <2>1. CASE \E x \in Near, v \in Nat, p \in {0, 1} : c = Drill(x, Bottom, 0, v, p)
            <3>1. PICK x \in Near, v \in Nat, p \in {0, 1} : c = Drill(x, Bottom, 0, v, p)
                BY <2>1
            <3> DEFINE a == MoveTo(x, Retract)
                       b == Feedrate(v)
                       d == Dwell(p)
                       e == Linear(Unknown, Retract)
            <3>2. a \in CallSet /\ b \in CallSet /\ d \in CallSet /\ e \in CallSet
                BY <1>2, <1>3, <1>4
            <3>3. Called(s, c) = <<a, b>> \o (<<Down6>> \o (IF p > 0 THEN <<d>> ELSE <<>>) \o <<e>>)
                BY <1>6, <3>1, ExpandPlain, CalledIs
            <3> HIDE DEF a, b, d, e
            <3>4. /\ <<a, b>> \in Seq(CallSet) /\ <<Down6>> \in Seq(CallSet)
                  /\ <<e>> \in Seq(CallSet)
                  /\ (IF p > 0 THEN <<d>> ELSE <<>>) \in Seq(CallSet)
                BY <1>5, <3>2
            <3> DEFINE f == <<a, b>>
                       g == <<Down6>>
                       h == IF p > 0 THEN <<d>> ELSE <<>>
                       i == <<e>>
            <3>5. f \in Seq(CallSet) /\ g \in Seq(CallSet) /\ h \in Seq(CallSet) /\ i \in Seq(CallSet)
                BY <3>4
            <3>6. Called(s, c) = f \o (g \o h \o i)
                BY <3>3
            <3> HIDE DEF f, g, h, i
            <3>7. g \o h \in Seq(CallSet)
                BY <3>5, ConcatProperties
            <3>8. g \o h \o i \in Seq(CallSet)
                BY <3>5, <3>7, ConcatProperties
            <3> QED
                BY <3>5, <3>6, <3>8, ConcatProperties
        <2>2. CASE \E x \in Near, v \in Nat : c = Drill(x, Bottom, 6, v, 0)
            <3>1. PICK x \in Near, v \in Nat : c = Drill(x, Bottom, 6, v, 0)
                BY <2>2
            <3> DEFINE a == MoveTo(x, Retract)
                       b == Feedrate(v)
                       d == MoveTo(Unknown, -2 + 2)
            <3>2. a \in CallSet /\ b \in CallSet /\ d \in CallSet
                BY <1>2, <1>3, <1>4
            <3> DEFINE f == <<a, b>>
                       g == <<Down2>>
                       h == <<Down6>>
                       i == <<Out>>
                       j == <<d, b, Down2>>
                       nil == <<>>
            <3>3. Called(s, c) = f \o ((nil \o (g \o nil \o i \o j)) \o (h \o nil \o i \o nil))
                BY <1>6, <3>1, ExpandPeck, CalledIs
            <3> HIDE DEF a, b, d
            <3>4. /\ f \in Seq(CallSet) /\ g \in Seq(CallSet) /\ h \in Seq(CallSet)
                  /\ i \in Seq(CallSet) /\ j \in Seq(CallSet) /\ nil \in Seq(CallSet)
                BY <1>5, <3>2
            <3> HIDE DEF f, g, h, i, j, nil
            <3>5. g \o nil \in Seq(CallSet) /\ h \o nil \in Seq(CallSet)
                BY <3>4, ConcatProperties
            <3>6. g \o nil \o i \in Seq(CallSet) /\ h \o nil \o i \in Seq(CallSet)
                BY <3>4, <3>5, ConcatProperties
            <3>7. g \o nil \o i \o j \in Seq(CallSet) /\ h \o nil \o i \o nil \in Seq(CallSet)
                BY <3>4, <3>6, ConcatProperties
            <3>8. nil \o (g \o nil \o i \o j) \in Seq(CallSet)
                BY <3>4, <3>7, ConcatProperties
            <3>9. (nil \o (g \o nil \o i \o j)) \o (h \o nil \o i \o nil) \in Seq(CallSet)
                BY <3>7, <3>8, ConcatProperties
            <3> QED
                BY <3>3, <3>4, <3>9, ConcatProperties
        <2> QED
            BY <1>1, <1>6, <2>1, <2>2 DEF Holes
    <1>7. CASE ~ (c.c = "drill" /\ s.post # "linuxcnc")
        <2>1. Called(s, c) = <<c>>
            BY <1>7, CalledIs
        <2>2. <<c>> \in Seq(CallSet)
            BY <1>1
        <2> QED
            BY <2>1, <2>2
    <1> QED
        BY <1>6, <1>7

CalledList(s, cs) == [k \in 1 .. Len(cs) |-> Called(s, cs[k])]

LEMMA CalledListIs ==
    ASSUME NEW s, NEW cs \in Seq(Given)
    PROVE  /\ Len(cs) \in Nat /\ Len(CalledList(s, cs)) = Len(cs)
           /\ \A k \in 1 .. Len(cs) : /\ CalledList(s, cs)[k] = Called(s, cs[k])
                                      /\ CalledList(s, cs)[k] \in Seq(CallSet)
           /\ Calls(s, cs) = Strung(CalledList(s, cs))[Len(cs)]
    <1>1. Len(cs) \in Nat
        BY LenProperties
    <1>2. Len(CalledList(s, cs)) = Len(cs)
        BY <1>1 DEF CalledList
    <1>3. ASSUME NEW k \in 1 .. Len(cs)
          PROVE  CalledList(s, cs)[k] = Called(s, cs[k]) /\ CalledList(s, cs)[k] \in Seq(CallSet)
        <2>1. cs[k] \in Given
            BY ElementOfSeq
        <2>2. CalledList(s, cs)[k] = Called(s, cs[k])
            BY DEF CalledList
        <2> QED
            BY <2>1, <2>2, CalledType
    <1>4. Calls(s, cs) = Strung(CalledList(s, cs))[Len(cs)]
        BY DEF Calls, CalledList
    <1> QED
        BY <1>1, <1>2, <1>3, <1>4

LEMMA CallsConcat ==
    ASSUME NEW s, NEW left \in Seq(Given), NEW right \in Seq(Given)
    PROVE  Calls(s, left \o right) = Calls(s, left) \o Calls(s, right)
    <1> DEFINE both == left \o right
               ss == CalledList(s, left)
               tt == CalledList(s, right)
               all == CalledList(s, both)
    <1>1. both \in Seq(Given) /\ Len(both) = Len(left) + Len(right)
        BY ConcatProperties
    <1>2. Len(left) \in Nat /\ Len(right) \in Nat /\ Len(both) \in Nat
        BY <1>1, LenProperties
    <1>3. /\ \A i \in 1 .. Len(left) : both[i] = left[i]
          /\ \A i \in 1 .. Len(right) : both[Len(left) + i] = right[i]
        BY <1>2, ConcatProperties
    <1> HIDE DEF both
    <1>4. /\ Len(ss) = Len(left) /\ Len(tt) = Len(right) /\ Len(all) = Len(both)
          /\ \A i \in 1 .. Len(left) : ss[i] = Called(s, left[i])
          /\ \A i \in 1 .. Len(right) : tt[i] = Called(s, right[i])
          /\ \A i \in 1 .. Len(both) : all[i] = Called(s, both[i]) /\ all[i] \in Seq(CallSet)
        BY <1>1, CalledListIs
    <1>5. /\ Calls(s, left) = Strung(ss)[Len(ss)] /\ Calls(s, right) = Strung(tt)[Len(tt)]
          /\ Calls(s, both) = Strung(all)[Len(all)]
        <2>1. Calls(s, left) = Strung(ss)[Len(left)]
            BY CalledListIs
        <2>2. Calls(s, right) = Strung(tt)[Len(right)]
            BY CalledListIs
        <2>3. Calls(s, both) = Strung(all)[Len(both)]
            BY <1>1, CalledListIs
        <2> HIDE DEF ss, tt, all
        <2> QED
            BY <1>4, <2>1, <2>2, <2>3
    <1> HIDE DEF ss, tt, all
    <1>6. \A i \in 1 .. Len(ss) : all[i] = ss[i]
        <2> SUFFICES ASSUME NEW i \in 1 .. Len(ss) PROVE all[i] = ss[i]
            OBVIOUS
        <2>1. i \in 1 .. Len(left) /\ i \in 1 .. Len(both)
            BY <1>1, <1>2, <1>4
        <2> QED
            BY <1>3, <1>4, <2>1
    <1>7. \A i \in 1 .. Len(tt) : all[Len(ss) + i] = tt[i]
        <2> SUFFICES ASSUME NEW i \in 1 .. Len(tt) PROVE all[Len(ss) + i] = tt[i]
            OBVIOUS
        <2>1. i \in 1 .. Len(right) /\ Len(left) + i \in 1 .. Len(both)
            BY <1>1, <1>2, <1>4
        <2> QED
            BY <1>3, <1>4, <2>1
    <1>8. /\ Len(ss) \in Nat /\ Len(tt) \in Nat /\ Len(all) = Len(ss) + Len(tt)
          /\ \A i \in 1 .. Len(all) : all[i] \in Seq(CallSet)
        BY <1>1, <1>2, <1>4
    <1>9. Strung(all)[Len(all)] = Strung(ss)[Len(ss)] \o Strung(tt)[Len(tt)]
        <2>1. Adjoined(CallSet, ss, tt, all)
            BY <1>6, <1>7, <1>8 DEF Adjoined
        <2>2. Spliced(ss, tt, all)
            BY <2>1, StrungConcat
        <2> QED
            BY <2>2 DEF Spliced
    <1> QED
        BY <1>5, <1>9 DEF both

LEMMA CallsOne ==
    ASSUME NEW s, NEW c \in Given
    PROVE  Calls(s, <<c>>) = Called(s, c)
    <1> DEFINE cs == <<c>>
               ss == CalledList(s, cs)
    <1>1. cs \in Seq(Given) /\ Len(cs) = 1 /\ cs[1] = c
        OBVIOUS
    <1> HIDE DEF cs
    <1>2. Len(ss) = 1 /\ ss[1] = Called(s, c) /\ Calls(s, cs) = Strung(ss)[1]
        <2>1. 1 \in 1 .. Len(cs)
            BY <1>1
        <2> QED
            BY <1>1, <2>1, CalledListIs
    <1> HIDE DEF ss
    <1>3. Strung(ss)[0] = <<>>
        BY <1>2, StrungStart
    <1>4. Strung(ss)[0 + 1] = Strung(ss)[0] \o ss[0 + 1]
        <2>1. 0 \in Nat /\ 0 < Len(ss) /\ Len(ss) \in Nat
            BY <1>2
        <2> QED
            BY <2>1, StrungNext
    <1>5. Strung(ss)[1] = <<>> \o Called(s, c)
        BY <1>2, <1>3, <1>4
    <1>6. Called(s, c) \in Seq(CallSet)
        BY CalledType
    <1>7. <<>> \o Called(s, c) = Called(s, c)
        BY <1>6, ConcatEmptySeq
    <1> QED
        BY <1>2, <1>5, <1>7 DEF cs

LEMMA CallsNone ==
    ASSUME NEW s
    PROVE  Calls(s, <<>>) = <<>>
    <1> DEFINE cs == <<>>
               ss == CalledList(s, cs)
    <1>1. cs \in Seq(Given) /\ Len(cs) = 0
        OBVIOUS
    <1>2. Len(ss) = 0 /\ Calls(s, cs) = Strung(ss)[0]
        BY <1>1, CalledListIs
    <1> HIDE DEF ss
    <1>3. Strung(ss)[0] = <<>>
        BY <1>2, StrungStart
    <1> QED
        BY <1>2, <1>3

\* The calls cs of an operation take the three from A to B.
Drives(s, cs, A, B) == cs \in Seq(Given) /\ Goes(s, Calls(s, cs), A, B)

LEMMA DrivesConcat ==
    ASSUME NEW s \in Setup, NEW left, NEW right, NEW A, NEW B, NEW C,
           Drives(s, left, A, B), Drives(s, right, B, C)
    PROVE  Drives(s, left \o right, A, C)
    <1>1. left \in Seq(Given) /\ right \in Seq(Given)
        BY DEF Drives
    <1>2. left \o right \in Seq(Given)
        BY <1>1, ConcatProperties
    <1>3. Calls(s, left \o right) = Calls(s, left) \o Calls(s, right)
        BY <1>1, CallsConcat
    <1>4. Goes(s, Calls(s, left) \o Calls(s, right), A, C)
        BY GoesConcat DEF Drives
    <1> QED
        BY <1>2, <1>3, <1>4 DEF Drives

LEMMA DrivesAppend ==
    ASSUME NEW s \in Setup, NEW cs, NEW c \in Given, NEW A, NEW B, NEW C,
           Drives(s, cs, A, B), Goes(s, Called(s, c), B, C)
    PROVE  Drives(s, Append(cs, c), A, C)
    <1>1. cs \in Seq(Given) /\ <<c>> \in Seq(Given)
        BY DEF Drives
    <1>2. Drives(s, <<c>>, B, C)
        BY <1>1, CallsOne DEF Drives
    <1>3. Append(cs, c) = cs \o <<c>>
        BY <1>1, AppendIsConcat
    <1> QED
        BY <1>2, <1>3, DrivesConcat

LEMMA DrivesNothing ==
    ASSUME NEW s, NEW A \in SUBSET Stands(s)
    PROVE  Drives(s, <<>>, A, A)
    <1>1. <<>> \in Seq(Given)
        OBVIOUS
    <1> QED
        BY <1>1, CallsNone, GoesNowhere DEF Drives

LEMMA DrivesWeaken ==
    ASSUME NEW s, NEW cs, NEW A, NEW B, NEW C, NEW D, C \subseteq A, B \subseteq D,
           D \in SUBSET Stands(s), Drives(s, cs, A, B)
    PROVE  Drives(s, cs, C, D)
    BY GoesWeaken DEF Drives

\* A call that is not a drill cycle is made as it is.
LEMMA PlainGoes ==
    ASSUME NEW s, NEW c \in CallSet, c.c # "drill", NEW A \in SUBSET Stands(s),
           NEW B \in SUBSET Stands(s), Follows(s, <<c>>, A, B)
    PROVE  c \in Given /\ Goes(s, Called(s, c), A, B)
    <1>1. Called(s, c) = <<c>>
        BY CalledIs
    <1>2. Goes(s, <<c>>, A, B)
        BY GoesOne
    <1> QED
        BY <1>1, <1>2 DEF Given
-----------------------------------------------------------------------------
(* The operations, kind by kind *)

\* The call c of an operation takes the three from A to B.
Makes(s, c, A, B) == c \in Given /\ Goes(s, Called(s, c), A, B)

LEMMA DrivesMakes ==
    ASSUME NEW s \in Setup, NEW cs, NEW c, NEW A, NEW B, NEW C,
           Drives(s, cs, A, B), Makes(s, c, B, C)
    PROVE  Drives(s, Append(cs, c), A, C)
    BY DrivesAppend DEF Makes

LEMMA DrivesFirst ==
    ASSUME NEW s, NEW c, NEW A, NEW B, Makes(s, c, A, B)
    PROVE  Drives(s, <<c>>, A, B)
    <1>1. c \in Given /\ Goes(s, Called(s, c), A, B)
        BY DEF Makes
    <1>2. <<c>> \in Seq(Given)
        BY <1>1
    <1>3. Calls(s, <<c>>) = Called(s, c)
        BY <1>1, CallsOne
    <1> QED
        BY <1>1, <1>2, <1>3 DEF Drives

LEMMA PlainMakes ==
    ASSUME NEW s, NEW c \in CallSet, c.c # "drill", NEW A \in SUBSET Stands(s),
           NEW B \in SUBSET Stands(s), Follows(s, <<c>>, A, B)
    PROVE  Makes(s, c, A, B)
    BY PlainGoes DEF Makes

LEMMA FeedMakes ==
    ASSUME NEW s \in Setup, NEW v, Feedable(s, v)
    PROVE  /\ Makes(s, Feedrate(v), Stands(s), Primed(s))
           /\ Makes(s, Feedrate(v), Known(s), Known(s))
    <1> DEFINE c == Feedrate(v)
    <1>1. c \in CallSet /\ c.c # "drill"
        BY PlainCalls, FeedrateIs DEF Feedable, CallOf
    <1>2. Follows(s, <<c>>, Stands(s), Primed(s)) /\ Follows(s, <<c>>, Known(s), Known(s))
        BY FeedFollows
    <1> HIDE DEF c
    <1> QED
        BY <1>1, <1>2, StancesIn, PlainMakes DEF c

LEMMA MoveMakes ==
    ASSUME NEW s \in Setup, NEW x \in Place, NEW z \in Place
    PROVE  /\ Makes(s, MoveTo(x, z), Stands(s), Stands(s))
           /\ Makes(s, MoveTo(x, z), Primed(s), Primed(s))
           /\ Makes(s, MoveTo(x, z), Known(s), Known(s))
           /\ Makes(s, MoveTo(x, z), Idle(s), Idle(s))
           /\ x # Unknown => Makes(s, MoveTo(x, z), Primed(s), Known(s))
    <1> DEFINE c == MoveTo(x, z)
    <1>1. c \in CallSet /\ c.c # "drill"
        BY PlainCalls, MoveToIs DEF CallOf
    <1>2. /\ Follows(s, <<c>>, Stands(s), Stands(s)) /\ Follows(s, <<c>>, Primed(s), Primed(s))
          /\ Follows(s, <<c>>, Known(s), Known(s)) /\ Follows(s, <<c>>, Idle(s), Idle(s))
          /\ x # Unknown => Follows(s, <<c>>, Primed(s), Known(s))
        BY MoveFollows
    <1> HIDE DEF c
    <1> QED
        BY <1>1, <1>2, StancesIn, PlainMakes DEF c

LEMMA LinearMakes ==
    ASSUME NEW s \in Setup, NEW x \in Place, NEW z \in Place
    PROVE  /\ Makes(s, Linear(x, z), Primed(s), Primed(s))
           /\ Makes(s, Linear(x, z), Known(s), Known(s))
           /\ x # Unknown => Makes(s, Linear(x, z), Primed(s), Known(s))
    <1> DEFINE c == Linear(x, z)
    <1>1. c \in CallSet /\ c.c # "drill"
        BY PlainCalls, LinearIs DEF CallOf
    <1>2. /\ Follows(s, <<c>>, Primed(s), Primed(s)) /\ Follows(s, <<c>>, Known(s), Known(s))
          /\ x # Unknown => Follows(s, <<c>>, Primed(s), Known(s))
        BY LinearFollows
    <1> HIDE DEF c
    <1> QED
        BY <1>1, <1>2, StancesIn, PlainMakes DEF c

LEMMA ArcMakes ==
    ASSUME NEW s \in Setup, NEW x \in Near, NEW z \in Place, NEW i \in Offsets
    PROVE  Makes(s, Arc(x, z, i), Known(s), Known(s))
    <1> DEFINE c == Arc(x, z, i)
    <1>1. c \in CallSet /\ c.c # "drill"
        BY PlainCalls, ArcIs DEF CallOf
    <1>2. Follows(s, <<c>>, Known(s), Known(s))
        BY ArcFollows
    <1> HIDE DEF c
    <1> QED
        BY <1>1, <1>2, StancesIn, PlainMakes DEF c

LEMMA HoleMakes ==
    ASSUME NEW s \in Setup, NEW x \in Near, NEW v, Feedable(s, v)
    PROVE  /\ \A p \in {0, 1} : Makes(s, Drill(x, Bottom, 0, v, p), Primed(s), Known(s))
           /\ Makes(s, Drill(x, Bottom, 6, v, 0), Primed(s), Known(s))
    <1>1. v \in Nat
        BY DEF Feedable
    <1>2. ASSUME NEW c \in Holes, c.v = v PROVE Makes(s, c, Primed(s), Known(s))
        BY <1>2, HoleGoes, GivenCalls DEF Makes
    <1>3. /\ \A p \in {0, 1} : Drill(x, Bottom, 0, v, p) \in Holes
          /\ Drill(x, Bottom, 6, v, 0) \in Holes
        BY <1>1 DEF Holes
    <1>4. \A q, p : Drill(x, Bottom, q, v, p).v = v
        BY DrillIs DEF CallOf
    <1> QED
        BY <1>2, <1>3, <1>4

LEMMA StationMakes ==
    ASSUME NEW s \in Setup
    PROVE  /\ Makes(s, Station, Stands(s), Stands(s))
           /\ Makes(s, Station, Idle(s), Reset(s))
    <1>1. Station \in CallSet /\ Station.c # "drill"
        BY PlainCalls, StationIs DEF CallOf
    <1> QED
        BY <1>1, StationFollows, StancesIn, PlainMakes

LEMMA DwellMakes ==
    ASSUME NEW s \in Setup, NEW d \in Nat
    PROVE  Makes(s, Dwell(d), Known(s), Known(s))
    <1> DEFINE c == Dwell(d)
    <1>1. c \in CallSet /\ c.c # "drill"
        BY PlainCalls, DwellIs DEF CallOf
    <1>2. Follows(s, <<c>>, Known(s), Known(s))
        BY StancesIn, DwellFollows
    <1> HIDE DEF c
    <1> QED
        BY <1>1, <1>2, StancesIn, PlainMakes DEF c

LEMMA MarkerMakes ==
    ASSUME NEW s \in Setup, NEW id \in Kinds
    PROVE  Makes(s, Marker(id), Reset(s), Reset(s))
    <1> DEFINE c == Marker(id)
    <1>1. c \in CallSet /\ c.c # "drill"
        BY PlainCalls, MarkerIs DEF CallOf
    <1>2. Follows(s, <<c>>, Reset(s), Reset(s))
        BY StancesIn, MarkerFollows
    <1> HIDE DEF c
    <1> QED
        BY <1>1, <1>2, StancesIn, PlainMakes DEF c

LEMMA ResetMakes ==
    ASSUME NEW s \in Setup
    PROVE  /\ Makes(s, Home, Reset(s), Reset(s)) /\ Makes(s, ApplyProbed, Reset(s), Reset(s))
           /\ \A z \in Near : Makes(s, SetZ(z), Reset(s), Reset(s))
           /\ (s.post # "hpgl" => ~ s.inch) => Makes(s, ProbeZ(2), Reset(s), Reset(s))
    <1>1. /\ Home \in CallSet /\ Home.c # "drill"
          /\ ApplyProbed \in CallSet /\ ApplyProbed.c # "drill"
        BY PlainCalls, HomeIs, ApplyProbedIs DEF CallOf
    <1>2. ASSUME NEW z \in Near PROVE SetZ(z) \in CallSet /\ SetZ(z).c # "drill"
        BY PlainCalls, SetZIs DEF CallOf
    <1>3. 2 \in Nat \ {0} /\ ProbeZ(2) \in CallSet /\ ProbeZ(2).c # "drill"
        BY PlainCalls, ProbeZIs DEF CallOf
    <1>4. Reset(s) \in SUBSET Stands(s)
        BY StancesIn
    <1>5. ASSUME NEW z \in Near PROVE Makes(s, SetZ(z), Reset(s), Reset(s))
        <2>1. Follows(s, <<SetZ(z)>>, Reset(s), Reset(s))
            BY ResetFollows
        <2> QED
            BY <1>2, <1>4, <2>1, PlainMakes
    <1>6. Makes(s, Home, Reset(s), Reset(s)) /\ Makes(s, ApplyProbed, Reset(s), Reset(s))
        BY <1>1, <1>4, ResetFollows, PlainMakes
    <1>7. (s.post # "hpgl" => ~ s.inch) => Makes(s, ProbeZ(2), Reset(s), Reset(s))
        <2> SUFFICES ASSUME s.post # "hpgl" => ~ s.inch
                     PROVE  Makes(s, ProbeZ(2), Reset(s), Reset(s))
            OBVIOUS
        <2>1. Follows(s, <<ProbeZ(2)>>, Reset(s), Reset(s))
            BY <1>3, ResetFollows
        <2> QED
            BY <1>3, <1>4, <2>1, PlainMakes
    <1> QED
        BY <1>5, <1>6, <1>7

LEMMA MakesWeaken ==
    ASSUME NEW s, NEW c, NEW A, NEW B, NEW C, NEW D, C \subseteq A, B \subseteq D,
           D \in SUBSET Stands(s), Makes(s, c, A, B)
    PROVE  Makes(s, c, C, D)
    BY GoesWeaken DEF Makes

\* A word the posts may be given, a hole's place, and the height above it.
LEMMA PlacesNamed ==
    /\ Unknown \in Place /\ Near \subseteq Place
    /\ \A x \in Near : x # Unknown
    /\ Fast \in Place /\ Bottom \in Place /\ Retract \in Place
    /\ 0 \in Near /\ 2 \in Near /\ 6 \in Near /\ 8 \in Near /\ -2 \in Near /\ 4 \in Near
    /\ -2 \in Offsets /\ 2 \in Offsets /\ 4 \in Offsets
    BY NearIs DEF Place, Offsets

LEMMA LiftMakes ==
    ASSUME NEW s \in Setup
    PROVE  /\ Makes(s, Lift, Stands(s), Stands(s)) /\ Makes(s, Lift, Primed(s), Primed(s))
           /\ Makes(s, Lift, Known(s), Known(s)) /\ Makes(s, Lift, Idle(s), Idle(s))
    BY MoveMakes, PlacesNamed DEF Lift

\* A contour, from a feed and a rapid to its start to the lift behind it.
LEMMA ContourDrives ==
    ASSUME NEW s \in Setup, NEW o, Feedable(s, o.v), Feedable(s, o.h),
           NEW from \in Near, NEW to \in Near
    PROVE  Drives(s, Contour(o, from, to), Stands(s), Known(s))
    <1> DEFINE c1 == Feedrate(o.h)
               c2 == MoveTo(from, Fast)
               c3 == Feedrate(o.v)
               c4 == Linear(Unknown, Bottom)
               c5 == Feedrate(o.h)
               c6 == Linear(to, Unknown)
               c7 == Lift
               w1 == <<c1>>
               w2 == Append(w1, c2)
               w3 == Append(w2, c3)
               w4 == Append(w3, c4)
               w5 == Append(w4, c5)
               w6 == Append(w5, c6)
               w7 == Append(w6, c7)
    <1>1. Makes(s, c1, Stands(s), Primed(s))
        BY FeedMakes
    <1>2. Makes(s, c2, Primed(s), Known(s))
        BY MoveMakes, PlacesNamed
    <1>3. Makes(s, c3, Known(s), Known(s))
        BY FeedMakes
    <1>4. Makes(s, c4, Known(s), Known(s))
        BY LinearMakes, PlacesNamed
    <1>5. Makes(s, c5, Known(s), Known(s))
        BY FeedMakes
    <1>6. Makes(s, c6, Known(s), Known(s))
        BY LinearMakes, PlacesNamed
    <1>7. Makes(s, c7, Known(s), Known(s))
        BY LiftMakes
    <1> HIDE DEF c1, c2, c3, c4, c5, c6, c7
    <1>8. <<c1, c2, c3, c4, c5, c6, c7>> = w7
        OBVIOUS
    <1> HIDE DEF w1, w2, w3, w4, w5, w6, w7
    <1>9. w7 = Contour(o, from, to)
        BY <1>8 DEF Contour, c1, c2, c3, c4, c5, c6, c7
    <1>10. Drives(s, w1, Stands(s), Primed(s))
        BY <1>1, DrivesFirst DEF w1
    <1>11. Drives(s, w2, Stands(s), Known(s))
        BY <1>10, <1>2, DrivesMakes DEF w2
    <1>12. Drives(s, w3, Stands(s), Known(s))
        BY <1>11, <1>3, DrivesMakes DEF w3
    <1>13. Drives(s, w4, Stands(s), Known(s))
        BY <1>12, <1>4, DrivesMakes DEF w4
    <1>14. Drives(s, w5, Stands(s), Known(s))
        BY <1>13, <1>5, DrivesMakes DEF w5
    <1>15. Drives(s, w6, Stands(s), Known(s))
        BY <1>14, <1>6, DrivesMakes DEF w6
    <1>16. Drives(s, w7, Stands(s), Known(s))
        BY <1>15, <1>7, DrivesMakes DEF w7
    <1> QED
        BY <1>9, <1>16

LEMMA ArcDrives ==
    ASSUME NEW s \in Setup, NEW o, Feedable(s, o.v), Feedable(s, o.h), o.kind = "arc"
    PROVE  Drives(s, Passes(o), Stands(s), Known(s))
    <1> DEFINE c1 == Feedrate(o.h)
               c2 == MoveTo(0, Fast)
               c3 == Feedrate(o.v)
               c4 == Linear(Unknown, Bottom)
               c5 == Feedrate(o.h)
               c6 == Arc(8, Unknown, 4)
               c7 == Linear(6, Unknown)
               c8 == Lift
               w1 == <<c1>>
               w2 == Append(w1, c2)
               w3 == Append(w2, c3)
               w4 == Append(w3, c4)
               w5 == Append(w4, c5)
               w6 == Append(w5, c6)
               w7 == Append(w6, c7)
               w8 == Append(w7, c8)
    <1>1. Makes(s, c1, Stands(s), Primed(s))
        BY FeedMakes
    <1>2. Makes(s, c2, Primed(s), Known(s))
        BY MoveMakes, PlacesNamed
    <1>3. Makes(s, c3, Known(s), Known(s))
        BY FeedMakes
    <1>4. Makes(s, c4, Known(s), Known(s))
        BY LinearMakes, PlacesNamed
    <1>5. Makes(s, c5, Known(s), Known(s))
        BY FeedMakes
    <1>6. Makes(s, c6, Known(s), Known(s))
        BY ArcMakes, PlacesNamed
    <1>7. Makes(s, c7, Known(s), Known(s))
        BY LinearMakes, PlacesNamed
    <1>8. Makes(s, c8, Known(s), Known(s))
        BY LiftMakes
    <1> HIDE DEF c1, c2, c3, c4, c5, c6, c7, c8
    <1>9. <<c1, c2, c3, c4, c5, c6, c7, c8>> = w8
        OBVIOUS
    <1> HIDE DEF w1, w2, w3, w4, w5, w6, w7, w8
    <1>10. w8 = Passes(o)
        BY <1>9 DEF Passes, c1, c2, c3, c4, c5, c6, c7, c8
    <1>11. Drives(s, w1, Stands(s), Primed(s))
        BY <1>1, DrivesFirst DEF w1
    <1>12. Drives(s, w2, Stands(s), Known(s))
        BY <1>11, <1>2, DrivesMakes DEF w2
    <1>13. Drives(s, w3, Stands(s), Known(s))
        BY <1>12, <1>3, DrivesMakes DEF w3
    <1>14. Drives(s, w4, Stands(s), Known(s))
        BY <1>13, <1>4, DrivesMakes DEF w4
    <1>15. Drives(s, w5, Stands(s), Known(s))
        BY <1>14, <1>5, DrivesMakes DEF w5
    <1>16. Drives(s, w6, Stands(s), Known(s))
        BY <1>15, <1>6, DrivesMakes DEF w6
    <1>17. Drives(s, w7, Stands(s), Known(s))
        BY <1>16, <1>7, DrivesMakes DEF w7
    <1>18. Drives(s, w8, Stands(s), Known(s))
        BY <1>17, <1>8, DrivesMakes DEF w8
    <1> QED
        BY <1>10, <1>18

LEMMA PierceDrives ==
    ASSUME NEW s \in Setup, NEW o, Feedable(s, o.v), Feedable(s, o.h), o.kind = "pierce"
    PROVE  Drives(s, Passes(o), Stands(s), Known(s))
    <1> DEFINE c1 == Feedrate(o.h)
               c2 == MoveTo(0, Fast)
               c3 == Feedrate(o.v)
               c4 == Linear(Unknown, Bottom)
               c5 == Dwell(2)
               c6 == Feedrate(o.h)
               c7 == Linear(6, Unknown)
               c8 == Lift
               w1 == <<c1>>
               w2 == Append(w1, c2)
               w3 == Append(w2, c3)
               w4 == Append(w3, c4)
               w5 == Append(w4, c5)
               w6 == Append(w5, c6)
               w7 == Append(w6, c7)
               w8 == Append(w7, c8)
    <1>1. Makes(s, c1, Stands(s), Primed(s))
        BY FeedMakes
    <1>2. Makes(s, c2, Primed(s), Known(s))
        BY MoveMakes, PlacesNamed
    <1>3. Makes(s, c3, Known(s), Known(s))
        BY FeedMakes
    <1>4. Makes(s, c4, Known(s), Known(s))
        BY LinearMakes, PlacesNamed
    <1>5. Makes(s, c5, Known(s), Known(s))
        BY DwellMakes
    <1>6. Makes(s, c6, Known(s), Known(s))
        BY FeedMakes
    <1>7. Makes(s, c7, Known(s), Known(s))
        BY LinearMakes, PlacesNamed
    <1>8. Makes(s, c8, Known(s), Known(s))
        BY LiftMakes
    <1> HIDE DEF c1, c2, c3, c4, c5, c6, c7, c8
    <1>9. <<c1, c2, c3, c4, c5, c6, c7, c8>> = w8
        OBVIOUS
    <1> HIDE DEF w1, w2, w3, w4, w5, w6, w7, w8
    <1>10. w8 = Passes(o)
        BY <1>9 DEF Passes, c1, c2, c3, c4, c5, c6, c7, c8
    <1>11. Drives(s, w1, Stands(s), Primed(s))
        BY <1>1, DrivesFirst DEF w1
    <1>12. Drives(s, w2, Stands(s), Known(s))
        BY <1>11, <1>2, DrivesMakes DEF w2
    <1>13. Drives(s, w3, Stands(s), Known(s))
        BY <1>12, <1>3, DrivesMakes DEF w3
    <1>14. Drives(s, w4, Stands(s), Known(s))
        BY <1>13, <1>4, DrivesMakes DEF w4
    <1>15. Drives(s, w5, Stands(s), Known(s))
        BY <1>14, <1>5, DrivesMakes DEF w5
    <1>16. Drives(s, w6, Stands(s), Known(s))
        BY <1>15, <1>6, DrivesMakes DEF w6
    <1>17. Drives(s, w7, Stands(s), Known(s))
        BY <1>16, <1>7, DrivesMakes DEF w7
    <1>18. Drives(s, w8, Stands(s), Known(s))
        BY <1>17, <1>8, DrivesMakes DEF w8
    <1> QED
        BY <1>10, <1>18

LEMMA HelixDrives ==
    ASSUME NEW s \in Setup, NEW o, Feedable(s, o.v), Feedable(s, o.h), o.kind = "helix"
    PROVE  Drives(s, Passes(o), Stands(s), Known(s))
    <1> DEFINE c1 == Feedrate(o.h)
               c2 == MoveTo(2, Fast)
               c3 == Feedrate(o.v)
               c4 == Arc(6, -2, 2)
               c5 == Arc(2, Bottom, -2)
               c6 == Feedrate(o.h)
               c7 == Linear(0, Unknown)
               c8 == Lift
               w1 == <<c1>>
               w2 == Append(w1, c2)
               w3 == Append(w2, c3)
               w4 == Append(w3, c4)
               w5 == Append(w4, c5)
               w6 == Append(w5, c6)
               w7 == Append(w6, c7)
               w8 == Append(w7, c8)
    <1>1. Makes(s, c1, Stands(s), Primed(s))
        BY FeedMakes
    <1>2. Makes(s, c2, Primed(s), Known(s))
        BY MoveMakes, PlacesNamed
    <1>3. Makes(s, c3, Known(s), Known(s))
        BY FeedMakes
    <1>4. Makes(s, c4, Known(s), Known(s))
        BY ArcMakes, PlacesNamed
    <1>5. Makes(s, c5, Known(s), Known(s))
        BY ArcMakes, PlacesNamed
    <1>6. Makes(s, c6, Known(s), Known(s))
        BY FeedMakes
    <1>7. Makes(s, c7, Known(s), Known(s))
        BY LinearMakes, PlacesNamed
    <1>8. Makes(s, c8, Known(s), Known(s))
        BY LiftMakes
    <1> HIDE DEF c1, c2, c3, c4, c5, c6, c7, c8
    <1>9. <<c1, c2, c3, c4, c5, c6, c7, c8>> = w8
        OBVIOUS
    <1> HIDE DEF w1, w2, w3, w4, w5, w6, w7, w8
    <1>10. w8 = Passes(o)
        BY <1>9 DEF Passes, c1, c2, c3, c4, c5, c6, c7, c8
    <1>11. Drives(s, w1, Stands(s), Primed(s))
        BY <1>1, DrivesFirst DEF w1
    <1>12. Drives(s, w2, Stands(s), Known(s))
        BY <1>11, <1>2, DrivesMakes DEF w2
    <1>13. Drives(s, w3, Stands(s), Known(s))
        BY <1>12, <1>3, DrivesMakes DEF w3
    <1>14. Drives(s, w4, Stands(s), Known(s))
        BY <1>13, <1>4, DrivesMakes DEF w4
    <1>15. Drives(s, w5, Stands(s), Known(s))
        BY <1>14, <1>5, DrivesMakes DEF w5
    <1>16. Drives(s, w6, Stands(s), Known(s))
        BY <1>15, <1>6, DrivesMakes DEF w6
    <1>17. Drives(s, w7, Stands(s), Known(s))
        BY <1>16, <1>7, DrivesMakes DEF w7
    <1>18. Drives(s, w8, Stands(s), Known(s))
        BY <1>17, <1>8, DrivesMakes DEF w8
    <1> QED
        BY <1>10, <1>18

LEMMA RimDrives ==
    ASSUME NEW s \in Setup, NEW o, Feedable(s, o.v), Feedable(s, o.h), o.kind = "rim"
    PROVE  Drives(s, Passes(o), Stands(s), Known(s))
    <1> DEFINE c1 == Lift
               c2 == MoveTo(0, Unknown)
               c3 == Feedrate(o.v)
               c4 == Linear(Unknown, 0)
               c5 == Feedrate(o.h)
               c6 == Linear(0, 0)
               c7 == Linear(2, -2)
               c8 == Arc(2, -2, 2)
               c9 == Lift
               w1 == <<c1>>
               w2 == Append(w1, c2)
               w3 == Append(w2, c3)
               w4 == Append(w3, c4)
               w5 == Append(w4, c5)
               w6 == Append(w5, c6)
               w7 == Append(w6, c7)
               w8 == Append(w7, c8)
               w9 == Append(w8, c9)
    <1>1. Makes(s, c1, Stands(s), Stands(s))
        BY LiftMakes
    <1>2. Makes(s, c2, Stands(s), Stands(s))
        BY MoveMakes, PlacesNamed
    <1>3. Makes(s, c3, Stands(s), Primed(s))
        BY FeedMakes
    <1>4. Makes(s, c4, Primed(s), Primed(s))
        BY LinearMakes, PlacesNamed
    <1>5. Makes(s, c5, Primed(s), Primed(s))
        BY FeedMakes, StancesIn, MakesWeaken
    <1>6. Makes(s, c6, Primed(s), Primed(s))
        BY LinearMakes, PlacesNamed
    <1>7. Makes(s, c7, Primed(s), Known(s))
        BY LinearMakes, PlacesNamed
    <1>8. Makes(s, c8, Known(s), Known(s))
        BY ArcMakes, PlacesNamed
    <1>9. Makes(s, c9, Known(s), Known(s))
        BY LiftMakes
    <1> HIDE DEF c1, c2, c3, c4, c5, c6, c7, c8, c9
    <1>10. <<c1, c2, c3, c4, c5, c6, c7, c8, c9>> = w9
        OBVIOUS
    <1> HIDE DEF w1, w2, w3, w4, w5, w6, w7, w8, w9
    <1>11. w9 = Passes(o)
        BY <1>10 DEF Passes, c1, c2, c3, c4, c5, c6, c7, c8, c9
    <1>12. Drives(s, w1, Stands(s), Stands(s))
        BY <1>1, DrivesFirst DEF w1
    <1>13. Drives(s, w2, Stands(s), Stands(s))
        BY <1>12, <1>2, DrivesMakes DEF w2
    <1>14. Drives(s, w3, Stands(s), Primed(s))
        BY <1>13, <1>3, DrivesMakes DEF w3
    <1>15. Drives(s, w4, Stands(s), Primed(s))
        BY <1>14, <1>4, DrivesMakes DEF w4
    <1>16. Drives(s, w5, Stands(s), Primed(s))
        BY <1>15, <1>5, DrivesMakes DEF w5
    <1>17. Drives(s, w6, Stands(s), Primed(s))
        BY <1>16, <1>6, DrivesMakes DEF w6
    <1>18. Drives(s, w7, Stands(s), Known(s))
        BY <1>17, <1>7, DrivesMakes DEF w7
    <1>19. Drives(s, w8, Stands(s), Known(s))
        BY <1>18, <1>8, DrivesMakes DEF w8
    <1>20. Drives(s, w9, Stands(s), Known(s))
        BY <1>19, <1>9, DrivesMakes DEF w9
    <1> QED
        BY <1>11, <1>20

LEMMA DrillDrives ==
    ASSUME NEW s \in Setup, NEW o, Feedable(s, o.v), o.kind = "drill"
    PROVE  Drives(s, Passes(o), Stands(s), Known(s))
    <1> DEFINE c1 == Feedrate(o.v)
               c2 == Lift
               c3 == Drill(2, Bottom, 0, o.v, 0)
               c4 == Lift
               c5 == Drill(6, Bottom, 0, o.v, 0)
               c6 == Lift
               w1 == <<c1>>
               w2 == Append(w1, c2)
               w3 == Append(w2, c3)
               w4 == Append(w3, c4)
               w5 == Append(w4, c5)
               w6 == Append(w5, c6)
    <1>1. Makes(s, c1, Stands(s), Primed(s))
        BY FeedMakes
    <1>2. Makes(s, c2, Primed(s), Primed(s))
        BY LiftMakes
    <1>3. Makes(s, c3, Primed(s), Known(s))
        BY HoleMakes, PlacesNamed
    <1>4. Makes(s, c4, Known(s), Known(s))
        BY LiftMakes
    <1>5. Makes(s, c5, Known(s), Known(s))
        BY HoleMakes, PlacesNamed, StancesIn, MakesWeaken
    <1>6. Makes(s, c6, Known(s), Known(s))
        BY LiftMakes
    <1> HIDE DEF c1, c2, c3, c4, c5, c6
    <1>7. <<c1, c2, c3, c4, c5, c6>> = w6
        OBVIOUS
    <1> HIDE DEF w1, w2, w3, w4, w5, w6
    <1>8. w6 = Passes(o)
        BY <1>7 DEF Passes, c1, c2, c3, c4, c5, c6
    <1>9. Drives(s, w1, Stands(s), Primed(s))
        BY <1>1, DrivesFirst DEF w1
    <1>10. Drives(s, w2, Stands(s), Primed(s))
        BY <1>9, <1>2, DrivesMakes DEF w2
    <1>11. Drives(s, w3, Stands(s), Known(s))
        BY <1>10, <1>3, DrivesMakes DEF w3
    <1>12. Drives(s, w4, Stands(s), Known(s))
        BY <1>11, <1>4, DrivesMakes DEF w4
    <1>13. Drives(s, w5, Stands(s), Known(s))
        BY <1>12, <1>5, DrivesMakes DEF w5
    <1>14. Drives(s, w6, Stands(s), Known(s))
        BY <1>13, <1>6, DrivesMakes DEF w6
    <1> QED
        BY <1>8, <1>14

LEMMA DwellDrives ==
    ASSUME NEW s \in Setup, NEW o, Feedable(s, o.v), o.kind = "dwell"
    PROVE  Drives(s, Passes(o), Stands(s), Known(s))
    <1> DEFINE c1 == Feedrate(o.v)
               c2 == Lift
               c3 == Drill(2, Bottom, 0, o.v, 1)
               c4 == Lift
               c5 == Drill(6, Bottom, 0, o.v, 0)
               c6 == Lift
               w1 == <<c1>>
               w2 == Append(w1, c2)
               w3 == Append(w2, c3)
               w4 == Append(w3, c4)
               w5 == Append(w4, c5)
               w6 == Append(w5, c6)
    <1>1. Makes(s, c1, Stands(s), Primed(s))
        BY FeedMakes
    <1>2. Makes(s, c2, Primed(s), Primed(s))
        BY LiftMakes
    <1>3. Makes(s, c3, Primed(s), Known(s))
        BY HoleMakes, PlacesNamed
    <1>4. Makes(s, c4, Known(s), Known(s))
        BY LiftMakes
    <1>5. Makes(s, c5, Known(s), Known(s))
        BY HoleMakes, PlacesNamed, StancesIn, MakesWeaken
    <1>6. Makes(s, c6, Known(s), Known(s))
        BY LiftMakes
    <1> HIDE DEF c1, c2, c3, c4, c5, c6
    <1>7. <<c1, c2, c3, c4, c5, c6>> = w6
        OBVIOUS
    <1> HIDE DEF w1, w2, w3, w4, w5, w6
    <1>8. w6 = Passes(o)
        BY <1>7 DEF Passes, c1, c2, c3, c4, c5, c6
    <1>9. Drives(s, w1, Stands(s), Primed(s))
        BY <1>1, DrivesFirst DEF w1
    <1>10. Drives(s, w2, Stands(s), Primed(s))
        BY <1>9, <1>2, DrivesMakes DEF w2
    <1>11. Drives(s, w3, Stands(s), Known(s))
        BY <1>10, <1>3, DrivesMakes DEF w3
    <1>12. Drives(s, w4, Stands(s), Known(s))
        BY <1>11, <1>4, DrivesMakes DEF w4
    <1>13. Drives(s, w5, Stands(s), Known(s))
        BY <1>12, <1>5, DrivesMakes DEF w5
    <1>14. Drives(s, w6, Stands(s), Known(s))
        BY <1>13, <1>6, DrivesMakes DEF w6
    <1> QED
        BY <1>8, <1>14

LEMMA PeckDrives ==
    ASSUME NEW s \in Setup, NEW o, Feedable(s, o.v), o.kind = "peck"
    PROVE  Drives(s, Passes(o), Stands(s), Known(s))
    <1> DEFINE c1 == Feedrate(o.v)
               c2 == Lift
               c3 == Drill(2, Bottom, 6, o.v, 0)
               c4 == Lift
               c5 == Drill(6, Bottom, 6, o.v, 0)
               c6 == Lift
               w1 == <<c1>>
               w2 == Append(w1, c2)
               w3 == Append(w2, c3)
               w4 == Append(w3, c4)
               w5 == Append(w4, c5)
               w6 == Append(w5, c6)
    <1>1. Makes(s, c1, Stands(s), Primed(s))
        BY FeedMakes
    <1>2. Makes(s, c2, Primed(s), Primed(s))
        BY LiftMakes
    <1>3. Makes(s, c3, Primed(s), Known(s))
        BY HoleMakes, PlacesNamed
    <1>4. Makes(s, c4, Known(s), Known(s))
        BY LiftMakes
    <1>5. Makes(s, c5, Known(s), Known(s))
        BY HoleMakes, PlacesNamed, StancesIn, MakesWeaken
    <1>6. Makes(s, c6, Known(s), Known(s))
        BY LiftMakes
    <1> HIDE DEF c1, c2, c3, c4, c5, c6
    <1>7. <<c1, c2, c3, c4, c5, c6>> = w6
        OBVIOUS
    <1> HIDE DEF w1, w2, w3, w4, w5, w6
    <1>8. w6 = Passes(o)
        BY <1>7 DEF Passes, c1, c2, c3, c4, c5, c6
    <1>9. Drives(s, w1, Stands(s), Primed(s))
        BY <1>1, DrivesFirst DEF w1
    <1>10. Drives(s, w2, Stands(s), Primed(s))
        BY <1>9, <1>2, DrivesMakes DEF w2
    <1>11. Drives(s, w3, Stands(s), Known(s))
        BY <1>10, <1>3, DrivesMakes DEF w3
    <1>12. Drives(s, w4, Stands(s), Known(s))
        BY <1>11, <1>4, DrivesMakes DEF w4
    <1>13. Drives(s, w5, Stands(s), Known(s))
        BY <1>12, <1>5, DrivesMakes DEF w5
    <1>14. Drives(s, w6, Stands(s), Known(s))
        BY <1>13, <1>6, DrivesMakes DEF w6
    <1> QED
        BY <1>8, <1>14

LEMMA HomingDrives ==
    ASSUME NEW s \in Setup, NEW o, o.kind = "homing"
    PROVE  Drives(s, Passes(o), Reset(s), Stands(s))
    <1> DEFINE c1 == Home
               c2 == Lift
               w1 == <<c1>>
               w2 == Append(w1, c2)
    <1>1. Makes(s, c1, Reset(s), Reset(s))
        BY ResetMakes
    <1>2. Makes(s, c2, Reset(s), Stands(s))
        BY LiftMakes, StancesIn, MakesWeaken
    <1> HIDE DEF c1, c2
    <1>3. <<c1, c2>> = w2
        OBVIOUS
    <1> HIDE DEF w1, w2
    <1>4. w2 = Passes(o)
        BY <1>3 DEF Passes, c1, c2
    <1>5. Drives(s, w1, Reset(s), Reset(s))
        BY <1>1, DrivesFirst DEF w1
    <1>6. Drives(s, w2, Reset(s), Stands(s))
        BY <1>5, <1>2, DrivesMakes DEF w2
    <1> QED
        BY <1>4, <1>6

LEMMA SwapDrives ==
    ASSUME NEW s \in Setup
    PROVE  Drives(s, Envelope("swap"), Reset(s), Reset(s))
    <1> DEFINE c1 == Lift
               c2 == Station
               w1 == <<c1>>
               w2 == Append(w1, c2)
    <1>1. Makes(s, c1, Reset(s), Idle(s))
        BY LiftMakes, StancesIn, MakesWeaken
    <1>2. Makes(s, c2, Idle(s), Reset(s))
        BY StationMakes
    <1> HIDE DEF c1, c2
    <1>3. <<c1, c2>> = w2
        OBVIOUS
    <1> HIDE DEF w1, w2
    <1>4. w2 = Envelope("swap")
        BY <1>3 DEF Envelope, c1, c2
    <1>5. Drives(s, w1, Reset(s), Idle(s))
        BY <1>1, DrivesFirst DEF w1
    <1>6. Drives(s, w2, Reset(s), Reset(s))
        BY <1>5, <1>2, DrivesMakes DEF w2
    <1> QED
        BY <1>4, <1>6

LEMMA ShiftDrives ==
    ASSUME NEW s \in Setup
    PROVE  Drives(s, Envelope("shift"), Reset(s), Reset(s))
    <1> DEFINE c1 == Lift
               c2 == Station
               c3 == SetZ(-2)
               w1 == <<c1>>
               w2 == Append(w1, c2)
               w3 == Append(w2, c3)
    <1>1. Makes(s, c1, Reset(s), Idle(s))
        BY LiftMakes, StancesIn, MakesWeaken
    <1>2. Makes(s, c2, Idle(s), Reset(s))
        BY StationMakes
    <1>3. Makes(s, c3, Reset(s), Reset(s))
        BY ResetMakes, PlacesNamed
    <1> HIDE DEF c1, c2, c3
    <1>4. <<c1, c2, c3>> = w3
        OBVIOUS
    <1> HIDE DEF w1, w2, w3
    <1>5. w3 = Envelope("shift")
        BY <1>4 DEF Envelope, c1, c2, c3
    <1>6. Drives(s, w1, Reset(s), Idle(s))
        BY <1>1, DrivesFirst DEF w1
    <1>7. Drives(s, w2, Reset(s), Reset(s))
        BY <1>6, <1>2, DrivesMakes DEF w2
    <1>8. Drives(s, w3, Reset(s), Reset(s))
        BY <1>7, <1>3, DrivesMakes DEF w3
    <1> QED
        BY <1>5, <1>8

LEMMA TouchDrives ==
    ASSUME NEW s \in Setup, s.post # "hpgl" => ~ s.inch
    PROVE  Drives(s, Envelope("touch"), Reset(s), Reset(s))
    <1> DEFINE c1 == Lift
               c2 == Station
               c3 == ProbeZ(2)
               c4 == SetZ(4)
               w1 == <<c1>>
               w2 == Append(w1, c2)
               w3 == Append(w2, c3)
               w4 == Append(w3, c4)
    <1>1. Makes(s, c1, Reset(s), Idle(s))
        BY LiftMakes, StancesIn, MakesWeaken
    <1>2. Makes(s, c2, Idle(s), Reset(s))
        BY StationMakes
    <1>3. Makes(s, c3, Reset(s), Reset(s))
        BY ResetMakes
    <1>4. Makes(s, c4, Reset(s), Reset(s))
        BY ResetMakes, PlacesNamed
    <1> HIDE DEF c1, c2, c3, c4
    <1>5. <<c1, c2, c3, c4>> = w4
        OBVIOUS
    <1> HIDE DEF w1, w2, w3, w4
    <1>6. w4 = Envelope("touch")
        BY <1>5 DEF Envelope, c1, c2, c3, c4
    <1>7. Drives(s, w1, Reset(s), Idle(s))
        BY <1>1, DrivesFirst DEF w1
    <1>8. Drives(s, w2, Reset(s), Reset(s))
        BY <1>7, <1>2, DrivesMakes DEF w2
    <1>9. Drives(s, w3, Reset(s), Reset(s))
        BY <1>8, <1>3, DrivesMakes DEF w3
    <1>10. Drives(s, w4, Reset(s), Reset(s))
        BY <1>9, <1>4, DrivesMakes DEF w4
    <1> QED
        BY <1>6, <1>10

LEMMA SensorDrives ==
    ASSUME NEW s \in Setup, s.post # "hpgl" => ~ s.inch
    PROVE  Drives(s, Envelope("sensor"), Reset(s), Reset(s))
    <1> DEFINE c1 == Lift
               c2 == Station
               c3 == Station
               c4 == ProbeZ(2)
               c5 == ApplyProbed
               c6 == Station
               w1 == <<c1>>
               w2 == Append(w1, c2)
               w3 == Append(w2, c3)
               w4 == Append(w3, c4)
               w5 == Append(w4, c5)
               w6 == Append(w5, c6)
    <1>1. Makes(s, c1, Reset(s), Idle(s))
        BY LiftMakes, StancesIn, MakesWeaken
    <1>2. Makes(s, c2, Idle(s), Reset(s))
        BY StationMakes
    <1>3. Makes(s, c3, Reset(s), Reset(s))
        BY StationMakes, StancesIn, MakesWeaken
    <1>4. Makes(s, c4, Reset(s), Reset(s))
        BY ResetMakes
    <1>5. Makes(s, c5, Reset(s), Reset(s))
        BY ResetMakes
    <1>6. Makes(s, c6, Reset(s), Reset(s))
        BY StationMakes, StancesIn, MakesWeaken
    <1> HIDE DEF c1, c2, c3, c4, c5, c6
    <1>7. <<c1, c2, c3, c4, c5, c6>> = w6
        OBVIOUS
    <1> HIDE DEF w1, w2, w3, w4, w5, w6
    <1>8. w6 = Envelope("sensor")
        BY <1>7 DEF Envelope, c1, c2, c3, c4, c5, c6
    <1>9. Drives(s, w1, Reset(s), Idle(s))
        BY <1>1, DrivesFirst DEF w1
    <1>10. Drives(s, w2, Reset(s), Reset(s))
        BY <1>9, <1>2, DrivesMakes DEF w2
    <1>11. Drives(s, w3, Reset(s), Reset(s))
        BY <1>10, <1>3, DrivesMakes DEF w3
    <1>12. Drives(s, w4, Reset(s), Reset(s))
        BY <1>11, <1>4, DrivesMakes DEF w4
    <1>13. Drives(s, w5, Reset(s), Reset(s))
        BY <1>12, <1>5, DrivesMakes DEF w5
    <1>14. Drives(s, w6, Reset(s), Reset(s))
        BY <1>13, <1>6, DrivesMakes DEF w6
    <1> QED
        BY <1>8, <1>14

\* The same envelope between the two contours of a dual operation.
LEMMA ChangeDrives ==
    ASSUME NEW s \in Setup
    PROVE  Drives(s, Envelope("swap"), Stands(s), Stands(s))
    <1> DEFINE c1 == Lift
               c2 == Station
               w1 == <<c1>>
               w2 == Append(w1, c2)
    <1>1. Makes(s, c1, Stands(s), Stands(s))
        BY LiftMakes
    <1>2. Makes(s, c2, Stands(s), Stands(s))
        BY StationMakes
    <1> HIDE DEF c1, c2
    <1>3. <<c1, c2>> = w2
        OBVIOUS
    <1> HIDE DEF w1, w2
    <1>4. w2 = Envelope("swap")
        BY <1>3 DEF Envelope, c1, c2
    <1>5. Drives(s, w1, Stands(s), Stands(s))
        BY <1>1, DrivesFirst DEF w1
    <1>6. Drives(s, w2, Stands(s), Stands(s))
        BY <1>5, <1>2, DrivesMakes DEF w2
    <1> QED
        BY <1>4, <1>6

\* Operations outside the disagreements: no probe between two contours at one feed, no feed
\* of 0, and on a machine in inches no feed written in a fraction and no probe, whose F is in mm.
Suited(s, o) ==
    /\ o.kind # "dual_probed"
    /\ Feedable(s, o.v) /\ Feedable(s, o.h)
    /\ s.post # "hpgl" /\ s.inch => o.kind # "probe" /\ o.change \notin {"touch", "sensor"}

LEMMA EnvelopeDrives ==
    ASSUME NEW s \in Setup, NEW o, Suited(s, o), o.change \in Changes
    PROVE  Drives(s, Envelope(o.change), Reset(s), Reset(s))
    <1>1. CASE o.change = "none"
        <2>1. Envelope(o.change) = <<>>
            BY <1>1 DEF Envelope
        <2> QED
            BY <2>1, StancesIn, DrivesNothing
    <1>2. CASE o.change = "swap"
        BY <1>2, SwapDrives
    <1>3. CASE o.change = "shift"
        BY <1>3, ShiftDrives
    <1>4. CASE o.change \in {"touch", "sensor"}
        <2>1. s.post # "hpgl" => ~ s.inch
            BY <1>4 DEF Suited, Setup
        <2>2. CASE o.change = "touch"
            BY <2>1, <2>2, TouchDrives
        <2>3. CASE o.change = "sensor"
            BY <2>1, <2>3, SensorDrives
        <2> QED
            BY <1>4, <2>2, <2>3
    <1> QED
        BY <1>1, <1>2, <1>3, <1>4 DEF Changes

LEMMA DualDrives ==
    ASSUME NEW s \in Setup, NEW o, Feedable(s, o.v), Feedable(s, o.h), o.kind = "dual"
    PROVE  Drives(s, Passes(o), Stands(s), Known(s))
    <1> DEFINE a == Contour(o, 0, 6)
               b == Envelope("swap")
               c == Contour(o, 6, 2)
    <1>1. Drives(s, a, Stands(s), Known(s)) /\ Drives(s, c, Stands(s), Known(s))
        BY PlacesNamed, ContourDrives
    <1>2. Drives(s, b, Stands(s), Stands(s))
        BY ChangeDrives
    <1>3. Drives(s, a, Stands(s), Stands(s))
        BY <1>1, StancesIn, DrivesWeaken
    <1>4. Passes(o) = a \o b \o c
        BY DEF Passes
    <1> HIDE DEF a, b, c
    <1>5. Drives(s, a \o b, Stands(s), Stands(s))
        BY <1>2, <1>3, DrivesConcat
    <1>6. Drives(s, a \o b \o c, Stands(s), Known(s))
        BY <1>1, <1>5, DrivesConcat
    <1> QED
        BY <1>4, <1>6

LEMMA ProbeDrives ==
    ASSUME NEW s \in Setup, NEW o, o.kind = "probe", s.post # "hpgl" => ~ s.inch
    PROVE  Drives(s, Passes(o), Reset(s), Reset(s))
    <1>1. Passes(o) = <<ProbeZ(2)>>
        BY DEF Passes
    <1>2. Makes(s, ProbeZ(2), Reset(s), Reset(s))
        BY ResetMakes
    <1> QED
        BY <1>1, <1>2, DrivesFirst

\* Lines of a file the post does not look into: the plotter has no way to write them.
LEMMA PlotterIncludeDrives ==
    ASSUME NEW s \in Setup, s.post = "hpgl", NEW o, o.kind = "include"
    PROVE  Drives(s, Passes(o), Stands(s), Stands(s))
    <1>1. ASSUME NEW g \in {"G0", "G1"}, NEW x \in Place, NEW z \in Place, NEW v \in Nat
          PROVE  Makes(s, Raw(g, x, z, v), Stands(s), Stands(s))
        <2> DEFINE c == Raw(g, x, z, v)
        <2>1. c \in CallSet /\ c.c = "raw"
            BY PlainCalls, RawIs DEF CallOf
        <2> HIDE DEF c
        <2>2. Follows(s, <<c>>, Stands(s), Stands(s))
            BY <2>1, PlotterStep DEF Follows
        <2> QED
            BY <2>1, <2>2, StancesIn, PlainMakes DEF c
    <1> DEFINE a == Raw("G0", 8, Unknown, 0)
               b == Raw("G1", Unknown, -2, 4)
               cs == Append(<<a>>, b)
    <1>2. Makes(s, a, Stands(s), Stands(s)) /\ Makes(s, b, Stands(s), Stands(s))
        <2>1. 8 \in Place /\ -2 \in Place /\ Unknown \in Place /\ 0 \in Nat /\ 4 \in Nat
            BY PlacesNamed
        <2> QED
            BY <1>1, <2>1
    <1>3. Passes(o) = <<a, b>>
        BY DEF Passes
    <1> HIDE DEF a, b
    <1>4. <<a, b>> = cs
        OBVIOUS
    <1>5. Drives(s, <<a>>, Stands(s), Stands(s))
        BY <1>2, DrivesFirst
    <1>6. Drives(s, cs, Stands(s), Stands(s))
        BY <1>2, <1>5, DrivesMakes
    <1> QED
        BY <1>3, <1>4, <1>6

LEMMA PassesDrive ==
    ASSUME NEW s \in Setup, NEW o, Suited(s, o), o.kind \in Kinds,
           o.kind = "include" => s.post = "hpgl"
    PROVE  Drives(s, Passes(o), Reset(s), Stands(s))
    <1> DEFINE cs == Passes(o)
    <1>1. /\ Feedable(s, o.v) /\ Feedable(s, o.h) /\ o.kind # "dual_probed"
          /\ o.kind = "probe" => (s.post # "hpgl" => ~ s.inch)
        BY DEF Suited, Setup
    <1>2. CASE o.kind \in {"contour", "pierce", "arc", "helix", "rim", "drill", "dwell", "peck", "dual"}
        <2>1. CASE o.kind = "contour"
            <3>1. Contour(o, 0, 6) = cs
                BY <2>1 DEF Passes
            <3> QED
                BY <1>1, <3>1, PlacesNamed, ContourDrives, StancesIn, DrivesWeaken
        <2>2. CASE o.kind = "arc"
            BY <1>1, <2>2, ArcDrives, StancesIn, DrivesWeaken
        <2>3. CASE o.kind = "helix"
            BY <1>1, <2>3, HelixDrives, StancesIn, DrivesWeaken
        <2>4. CASE o.kind = "rim"
            BY <1>1, <2>4, RimDrives, StancesIn, DrivesWeaken
        <2>5. CASE o.kind = "drill"
            BY <1>1, <2>5, DrillDrives, StancesIn, DrivesWeaken
        <2>6. CASE o.kind = "dwell"
            BY <1>1, <2>6, DwellDrives, StancesIn, DrivesWeaken
        <2>7. CASE o.kind = "peck"
            BY <1>1, <2>7, PeckDrives, StancesIn, DrivesWeaken
        <2>8. CASE o.kind = "dual"
            BY <1>1, <2>8, DualDrives, StancesIn, DrivesWeaken
        <2>9. CASE o.kind = "pierce"
            BY <1>1, <2>9, PierceDrives, StancesIn, DrivesWeaken
        <2> QED
            BY <1>2, <2>9, <2>1, <2>2, <2>3, <2>4, <2>5, <2>6, <2>7, <2>8
    <1>3. CASE o.kind = "probe"
        BY <1>1, <1>3, ProbeDrives, StancesIn, DrivesWeaken
    <1>4. CASE o.kind = "homing"
        BY <1>4, HomingDrives
    <1>5. CASE o.kind = "include"
        BY <1>5, PlotterIncludeDrives, StancesIn, DrivesWeaken
    <1> QED
        BY <1>1, <1>2, <1>3, <1>4, <1>5 DEF Kinds

LEMMA BodyDrives ==
    ASSUME NEW s \in Setup, NEW o, Suited(s, o), o.kind \in Kinds,
           o.kind = "include" => s.post = "hpgl"
    PROVE  Drives(s, Body(o), Reset(s), Stands(s))
    <1>1. Drives(s, <<Marker(o.kind)>>, Reset(s), Reset(s))
        BY MarkerMakes, DrivesFirst
    <1>2. Drives(s, Passes(o), Reset(s), Stands(s))
        BY PassesDrive
    <1> QED
        BY <1>1, <1>2, DrivesConcat DEF Body
-----------------------------------------------------------------------------
(* What the interpreter makes of a line *)

LEMMA ParsedType ==
    ASSUME NEW s, NEW v \in Digits
    PROVE  Parsed(s, v) \in -80 .. 80
    <1>1. v \in -40 .. 40 /\ v * 2 \in -80 .. 80 /\ v \in -80 .. 80 /\ 0 \in -80 .. 80
        BY DEF Digits
    <1> QED
        BY <1>1 DEF Parsed, Mm, MmPerInch

LEMMA SeeType ==
    ASSUME NEW s
    PROVE  Reads("seen", s, View, LineSet)
    <1> SUFFICES ASSUME NEW v0 \in View, NEW l \in LineSet
                 PROVE  SeeLine(s, v0, l) \in Outcome(View)
        BY DEF Reads, Made
    <1> DEFINE v == Fed(v0, ModalFeed(v0, l))
               from == <<v.x, v.z>>
               X == IF l.x = Unknown THEN v.x ELSE Parsed(s, l.x)
               Z == IF l.g = "G43.1" THEN 0 ELSE IF l.z = Unknown THEN v.z ELSE Parsed(s, l.z)
               to == <<X, Z>>
               code == ActiveCode(v, l)
               kind == CASE code = "G0" -> "rapid"
                         [] code = "G2" -> "arc"
                         [] code = "G1" -> IF l.z = Unknown THEN "cut" ELSE CutKind(from, to)
               R == Parsed(s, l.r)
    <1>1. /\ v0.feed \in Nat /\ v0.x \in -80 .. 80 /\ v0.z \in -80 .. 80
          /\ v0.g \in {"G0", "G1", "G2"} /\ v0.op \in Tags
        BY DEF View
    <1>2. /\ l.x = Unknown \/ l.x \in Digits
          /\ l.z = Unknown \/ l.z \in Digits
          /\ l.i \in Digits /\ l.r \in Digits /\ l.f \in Nat /\ l.p \in Nat
          /\ l.id \in Tags /\ l.g \in Codes
        BY DEF LineSet
    <1>3. ModalFeed(v0, l) \in Nat
        BY <1>1, <1>2 DEF ModalFeed
    <1>4. v \in View /\ v.x \in -80 .. 80 /\ v.z \in -80 .. 80 /\ v.g \in {"G0", "G1", "G2"}
          /\ v.op \in Tags /\ v.feed \in Nat
        <2>1. v \in View
            BY <1>3 DEF Fed, View
        <2> HIDE DEF v
        <2> QED
            BY <2>1 DEF View
    <1> HIDE DEF v
    <1>5. X \in -80 .. 80 /\ Z \in -80 .. 80 /\ R \in -80 .. 80 /\ Parsed(s, l.i) \in -80 .. 80
        BY <1>2, <1>4, ParsedType
    <1>6. to[1] = X /\ to[2] = Z
        OBVIOUS
    <1>7. code \in {"G0", "G1", "G2", "G81"}
        BY <1>4 DEF ActiveCode
    <1>8. CutKind(from, to) \in MoveKinds \ {"rapid", "arc"}
        BY DEF CutKind, MoveKinds
    <1>9. {"rapid", "arc", "probe", "cut"} \subseteq MoveKinds
        BY DEF MoveKinds
    <1>10. X \in Int /\ Z \in Int /\ R \in Int /\ Parsed(s, l.i) \in Int
        BY <1>5
    <1>11. from \in Int \X Int /\ to \in Int \X Int
        BY <1>4, <1>10
    <1> HIDE DEF X, Z, R
    <1>12. code \in {"G0", "G1", "G2"} => kind \in MoveKinds
        BY <1>8, <1>9
    <1> HIDE DEF from, to, kind, code
    <1>13. ASSUME NEW a \in -80 .. 80, NEW b \in -80 .. 80, NEW g \in {"G0", "G1", "G2"}
           PROVE  [At(v, a, b) EXCEPT !.g = g] \in View
        <2> DEFINE c == [v EXCEPT !.x = a]
        <2>1. c \in View
            BY <1>4 DEF View
        <2> HIDE DEF c
        <2> DEFINE d == [c EXCEPT !.z = b]
        <2>2. d \in View
            BY <2>1 DEF View
        <2> HIDE DEF d
        <2>3. [d EXCEPT !.g = g] \in View
            BY <2>2 DEF View
        <2>4. At(v, a, b) = d
            BY DEF At, c, d
        <2> QED
            BY <2>3, <2>4
    <1>14. ASSUME NEW g \in {"G0", "G1", "G2"}
           PROVE  [v EXCEPT !.g = g] \in View
        BY <1>4 DEF View
    <1>15. <<>> \in Seq(MoveSet) /\ 0 \in Nat
        OBVIOUS
    <1>16. CASE l.g = "OP"
        <2>1. SeeLine(s, v0, l) = Did(<<>>, IF s.numbered THEN v ELSE [v EXCEPT !.op = l.id], 0)
            BY <1>16 DEF SeeLine, v
        <2>2. [v EXCEPT !.op = l.id] \in View
            BY <1>2, <1>4 DEF View
        <2> DEFINE w == [v EXCEPT !.op = l.id]
        <2> HIDE DEF w
        <2>3. (IF s.numbered THEN v ELSE w) \in View
            BY <1>4, <2>2 DEF w
        <2> QED
            BY <1>15, <2>1, <2>3, DidType DEF w
    <1>17. CASE l.g # "OP" /\ NonCutting(l)
        <2>1. SeeLine(s, v0, l) = Did(<<>>, [v EXCEPT !.g = "G0"], 0)
            BY <1>17 DEF SeeLine, v
        <2> QED
            BY <1>14, <1>15, <2>1, DidType
    <1>18. CASE l.g # "OP" /\ ~ NonCutting(l) /\ code = "G81"
        <2>1. SeeLine(s, v0, l) = Did(DrillMoves(v.op, from, X, Z, R, v.feed),
                                      [At(v, X, R) EXCEPT !.g = "G0"], 0)
            BY <1>6, <1>18 DEF SeeLine, v, from, X, Z, R, to, code
        <2>2. DrillMoves(v.op, from, X, Z, R, v.feed) \in Seq(MoveSet)
            BY <1>4, <1>10, <1>11, DrillMovesType
        <2> QED
            BY <1>5, <1>13, <1>15, <2>1, <2>2, DidType DEF X, R
    <1>19. CASE l.g # "OP" /\ ~ NonCutting(l) /\ code # "G81" /\ from = to
        <2>1. SeeLine(s, v0, l) =
                  Did(<<>>, [v EXCEPT !.g = code], IF l.g = "G4" THEN l.p ELSE 0)
            BY <1>19 DEF SeeLine, v, from, X, Z, to, code
        <2>2. (IF l.g = "G4" THEN l.p ELSE 0) \in Nat
            BY <1>2
        <2>3. [v EXCEPT !.g = code] \in View
            BY <1>7, <1>14, <1>19
        <2> QED
            BY <1>15, <2>1, <2>2, <2>3, DidType
    <1>20. CASE l.g # "OP" /\ ~ NonCutting(l) /\ code # "G81" /\ from # to
        <2> DEFINE i == IF kind = "arc" THEN Parsed(s, l.i) ELSE 0
                   f == IF kind = "rapid" THEN 0 ELSE v.feed
        <2>1. SeeLine(s, v0, l) =
                  Did(Tagged(v.op, kind, from, to, i, f), [At(v, X, Z) EXCEPT !.g = code], 0)
            BY <1>6, <1>20 DEF SeeLine, v, from, X, Z, to, code, kind
        <2>2. i \in Int /\ f \in Nat
            BY <1>4, <1>10
        <2> HIDE DEF i, f
        <2>3. kind \in MoveKinds
            BY <1>7, <1>12, <1>20
        <2>4. Tagged(v.op, kind, from, to, i, f) \in Seq(MoveSet)
            BY <1>4, <1>11, <2>2, <2>3, TaggedType
        <2>5. [At(v, X, Z) EXCEPT !.g = code] \in View
            BY <1>5, <1>7, <1>13, <1>20 DEF X, Z
        <2> QED
            BY <1>15, <2>1, <2>4, <2>5, DidType
    <1> QED
        BY <1>16, <1>17, <1>18, <1>19, <1>20

-----------------------------------------------------------------------------
(* Included lines: the machine runs them unread, and may be anywhere after *)

\* A post that keeps its state through the calls cs, and a controller that keeps to its places.
Keeps(s, cs) ==
    /\ cs \in Seq(CallSet)
    /\ \A p \in PostSet, m \in Spot :
          /\ p.pen = FALSE => Sheet(s, p, cs).post = p
          /\ p.pen = FALSE => Reading("run", s, m, Sheet(s, p, cs).lines).at \in Spot

LEMMA KeepsConcat ==
    ASSUME NEW s \in Setup, NEW left, NEW right, Keeps(s, left), Keeps(s, right)
    PROVE  Keeps(s, left \o right)
    <1>1. left \in Seq(CallSet) /\ right \in Seq(CallSet)
        BY DEF Keeps
    <1>2. left \o right \in Seq(CallSet)
        BY <1>1, ConcatProperties
    <1>3. ASSUME NEW p \in PostSet, NEW m \in Spot, p.pen = FALSE
          PROVE  /\ Sheet(s, p, left \o right).post = p
                 /\ Reading("run", s, m, Sheet(s, p, left \o right).lines).at \in Spot
        <2> DEFINE a == Sheet(s, p, left)
                   b == Sheet(s, p, right)
                   r == Reading("run", s, m, a.lines)
                   q == Reading("run", s, r.at, b.lines)
        <2>1. a.post = p /\ b.post = p /\ r.at \in Spot
            BY <1>3 DEF Keeps
        <2>2. q.at \in Spot
            BY <1>3, <2>1 DEF Keeps
        <2>3. Sheet(s, p, left \o right) = Onward(a, b)
            BY <1>1, <2>1, SheetConcat, WriteType
        <2>4. a \in Page(PostSet) /\ b \in Page(PostSet)
            BY <1>1, SheetType, WriteType
        <2>5. a.lines \in Seq(LineSet) /\ b.lines \in Seq(LineSet)
            BY <2>4 DEF Page
        <2>6. Onward(a, b).post = p /\ Onward(a, b).lines = a.lines \o b.lines
            BY <2>1, OnwardIs
        <2> HIDE DEF a, b
        <2> DEFINE la == a.lines
                   lb == b.lines
        <2>7. la \in Seq(LineSet) /\ lb \in Seq(LineSet) /\ m \in Tool
            BY <2>5, SpotIsTool
        <2>8. r = Reading("run", s, m, la) /\ q = Reading("run", s, r.at, lb)
            OBVIOUS
        <2> HIDE DEF la, lb, r, q
        <2>9. Reads("run", s, Tool, LineSet)
            BY RunType
        <2>10. Reading("run", s, m, la \o lb) =
                   AndThen(Reading("run", s, m, la),
                           Reading("run", s, Reading("run", s, m, la).at, lb))
            BY <2>7, <2>9, ReadConcat
        <2>11. Reading("run", s, m, la \o lb) = AndThen(r, q)
            BY <2>8, <2>10
        <2>12. AndThen(r, q).at = q.at
            BY AndThenIs
        <2> QED
            BY <2>2, <2>3, <2>6, <2>11, <2>12 DEF la, lb
    <1> QED
        BY <1>2, <1>3 DEF Keeps

\* The post writes the call c as it is given, and remembers nothing of it.
Echoes(s, c, g, x, z, f, id) ==
    \A x0, z0, rate, pen :
        WriteCall(s, PostOf(x0, z0, rate, pen), c) =
            Wrote(<<LineOf(g, x, z, 0, 0, f, 0, id)>>, PostOf(x0, z0, rate, pen))

LEMMA EchoRuns ==
    ASSUME NEW s, NEW x0, NEW z0, NEW f0, NEW pen, NEW g \in {"G0", "G1", "OP"}, NEW x, NEW z,
           NEW f, NEW id
    PROVE  RunLine(s, ToolOf(x0, z0, f0, pen), LineOf(g, x, z, 0, 0, f, 0, id)).at \in
               {ToolOf(Arrived(s, x0, x), Arrived(s, z0, z), FeedNow(s, f0, f), pen),
                ToolOf(x0, z0, FeedNow(s, f0, f), pen)}
    <1> DEFINE m == ToolOf(x0, z0, f0, pen)
               there == ToolOf(Arrived(s, x0, x), Arrived(s, z0, z), FeedNow(s, f0, f), pen)
               here == ToolOf(x0, z0, FeedNow(s, f0, f), pen)
               from == <<x0, z0>>
               to == <<Arrived(s, x0, x), Arrived(s, z0, z)>>
               one == Move("rapid", from, to, Mm(s, 0), 0)
               two == Move(CutKind(from, to), from, to, Mm(s, 0), FeedNow(s, f0, f))
    <1>1. /\ RunLine(s, m, LineOf("G0", x, z, 0, 0, f, 0, id)) = Did(one, there, 0)
          /\ RunLine(s, m, LineOf("G1", x, z, 0, 0, f, 0, id)) = Did(two, there, 0)
          /\ RunLine(s, m, LineOf("OP", x, z, 0, 0, f, 0, id)) = Did(<<>>, here, 0)
        <2>1. RunLine(s, m, LineOf("G0", x, z, 0, 0, f, 0, id)) = Did(one, there, 0)
            BY RunRapid
        <2>2. RunLine(s, m, LineOf("G1", x, z, 0, 0, f, 0, id)) = Did(two, there, 0)
            BY RunCut
        <2>3. RunLine(s, m, LineOf("OP", x, z, 0, 0, f, 0, id)) = Did(<<>>, here, 0)
            BY RunMarker
        <2> QED
            BY <2>1, <2>2, <2>3
    <1> HIDE DEF m, there, here, one, two
    <1>2. \A ms, n : Did(ms, n, 0).at = n
        BY DEF Did
    <1>3. RunLine(s, m, LineOf(g, x, z, 0, 0, f, 0, id)).at \in {there, here}
        <2>1. CASE g = "G0"
            BY <1>1, <1>2, <2>1
        <2>2. CASE g = "G1"
            BY <1>1, <1>2, <2>2
        <2>3. CASE g = "OP"
            BY <1>1, <1>2, <2>3
        <2> QED
            BY <2>1, <2>2, <2>3
    <1> QED
        BY <1>3 DEF m, there, here

LEMMA KeepsLine ==
    ASSUME NEW s \in Setup, s.post # "hpgl", NEW c \in CallSet, NEW g \in {"G0", "G1", "OP"},
           NEW x \in {Unknown, 8, -2}, NEW z \in {Unknown, 8, -2}, NEW f \in Nat, NEW id \in Tags,
           Echoes(s, c, g, x, z, f, id)
    PROVE  Keeps(s, <<c>>)
    <1> DEFINE l == LineOf(g, x, z, 0, 0, f, 0, id)
    <1>1. l \in LineSet /\ <<l>> \in Seq(LineSet)
        <2>1. /\ g \in Codes /\ x \in Digits \cup {Unknown} /\ z \in Digits \cup {Unknown}
              /\ 0 \in Digits /\ 0 \in Nat
            BY DEF Codes, Digits
        <2> QED
            BY <2>1, LineType
    <1>2. ASSUME NEW p \in PostSet PROVE Sheet(s, p, <<c>>) = Wrote(<<l>>, p)
        <2>1. p = PostOf(p.x, p.z, p.rate, p.pen)
            BY PostIs
        <2>2. WriteCall(s, p, c) = Wrote(<<l>>, p)
            BY <2>1 DEF Echoes
        <2>3. WriteCall(s, p, c) \in Page(PostSet)
            BY WriteType DEF Writes
        <2> QED
            BY <2>2, <2>3, SheetOne
    <1>3. ASSUME NEW a \in Place, NEW w \in {Unknown, 8, -2} PROVE Arrived(s, a, w) \in Place
        <2>1. 8 * 2 = 2 * 8 /\ (-2) * 2 = 2 * (-2)
            OBVIOUS
        <2>2. 8 * 2 \in Near /\ (-2) * 2 \in Near /\ 8 \in Near /\ -2 \in Near
            BY <2>1, NearIs DEF Near
        <2> QED
            BY <2>2 DEF Arrived, Mm, MmPerInch, Place
    <1>4. ASSUME NEW m \in Spot PROVE Reading("run", s, m, <<l>>).at \in Spot
        <2>1. /\ m.x \in Place /\ m.z \in Place /\ m.feed \in Nat /\ m.pen \in BOOLEAN
              /\ m \in Tool /\ m = ToolOf(m.x, m.z, m.feed, m.pen)
            BY SpotIsTool, ToolIs DEF Spot
        <2> DEFINE X == Arrived(s, m.x, x)
                   Z == Arrived(s, m.z, z)
                   F == FeedNow(s, m.feed, f)
        <2>2. X \in Place /\ Z \in Place /\ F \in Nat
            BY <1>3, <2>1, MmType DEF FeedNow
        <2>3. RunLine(s, m, l).at \in {ToolOf(X, Z, F, m.pen), ToolOf(m.x, m.z, F, m.pen)}
            BY <2>1, EchoRuns, Zenon
        <2>4. ToolOf(X, Z, F, m.pen) \in Spot /\ ToolOf(m.x, m.z, F, m.pen) \in Spot
            BY <2>1, <2>2 DEF ToolOf, Spot
        <2>5. Made("run", s, m, l) = RunLine(s, m, l) /\ Made("run", s, m, l) \in Outcome(Tool)
            BY <1>1, <2>1, RunType DEF Made, Reads
        <2> HIDE DEF l, X, Z, F
        <2>6. Reading("run", s, m, <<l>>) = RunLine(s, m, l)
            BY <2>5, ReadOne
        <2> QED
            BY <2>3, <2>4, <2>6
    <1>5. <<c>> \in Seq(CallSet)
        OBVIOUS
    <1>6. \A p : Wrote(<<l>>, p).post = p /\ Wrote(<<l>>, p).lines = <<l>>
        BY DEF Wrote
    <1> HIDE DEF l
    <1> QED
        BY <1>2, <1>4, <1>5, <1>6 DEF Keeps

LEMMA IncludeKeeps ==
    ASSUME NEW s \in Setup, s.post # "hpgl", NEW o, o.kind = "include"
    PROVE  Keeps(s, Calls(s, Body(o))) /\ Body(o) \in Seq(Given)
    <1> DEFINE a == Marker("include")
               b == Raw("G0", 8, Unknown, 0)
               c == Raw("G1", Unknown, -2, 4)
    <1>1. a \in Given /\ b \in Given /\ c \in Given
        <2>1. /\ "include" \in Kinds /\ {"G0", "G1"} = {"G0", "G1"}
              /\ 8 \in Place /\ -2 \in Place /\ Unknown \in Place
            BY PlacesNamed DEF Kinds
        <2>2. a \in CallSet /\ b \in CallSet /\ c \in CallSet
            BY <2>1, PlainCalls
        <2>3. a.c = "marker" /\ b.c = "raw" /\ c.c = "raw"
            BY MarkerIs, RawIs DEF CallOf
        <2> HIDE DEF a, b, c
        <2> QED
            BY <2>2, <2>3 DEF Given
    <1>2. a.c # "drill" /\ b.c # "drill" /\ c.c # "drill"
        BY MarkerIs, RawIs DEF CallOf
    <1>3. a \in CallSet /\ b \in CallSet /\ c \in CallSet
        BY <1>1 DEF Given
    <1>4. Keeps(s, <<a>>)
        <2>1. Echoes(s, Marker("include"), "OP", Unknown, Unknown, 0, "include")
            BY GcodePlain DEF Echoes
        <2>2. "include" \in Tags
            BY DEF Tags, Kinds
        <2> QED
            BY <1>3, <2>1, <2>2, KeepsLine
    <1>5. Keeps(s, <<b>>)
        <2>1. Echoes(s, Raw("G0", 8, Unknown, 0), "G0", 8, Unknown, 0, "none")
            BY GcodePlain DEF Echoes
        <2>2. "none" \in Tags
            BY DEF Tags
        <2> QED
            BY <1>3, <2>1, <2>2, KeepsLine
    <1>6. Keeps(s, <<c>>)
        <2>1. Echoes(s, Raw("G1", Unknown, -2, 4), "G1", Unknown, -2, 4, "none")
            BY GcodePlain DEF Echoes
        <2>2. "none" \in Tags /\ 4 \in Nat
            BY DEF Tags
        <2> QED
            BY <1>3, <2>1, <2>2, KeepsLine
    <1>7. Body(o) = <<a>> \o <<b, c>>
        BY DEF Body, Passes
    <1> HIDE DEF a, b, c
    <1>8. <<a>> \in Seq(Given) /\ <<b>> \in Seq(Given) /\ <<c>> \in Seq(Given)
        BY <1>1
    <1>9. <<b, c>> = <<b>> \o <<c>>
        BY PairIs
    <1>10. /\ Calls(s, <<a>>) = <<a>> /\ Calls(s, <<b>>) = <<b>> /\ Calls(s, <<c>>) = <<c>>
        BY <1>1, <1>2, CallsOne, CalledIs
    <1>11. <<b, c>> \in Seq(Given) /\ Calls(s, <<b, c>>) = <<b>> \o <<c>>
        <2>1. Calls(s, <<b>> \o <<c>>) = Calls(s, <<b>>) \o Calls(s, <<c>>)
            BY <1>8, CallsConcat
        <2>2. <<b>> \o <<c>> \in Seq(Given)
            BY <1>8, ConcatProperties
        <2> QED
            BY <1>9, <1>10, <2>1, <2>2
    <1>12. Keeps(s, Calls(s, <<b, c>>))
        BY <1>5, <1>6, <1>11, KeepsConcat
    <1>13. Calls(s, Body(o)) = <<a>> \o Calls(s, <<b, c>>)
        BY <1>7, <1>8, <1>10, <1>11, CallsConcat
    <1>14. Keeps(s, Calls(s, Body(o)))
        BY <1>4, <1>12, <1>13, KeepsConcat
    <1>15. Body(o) \in Seq(Given)
        BY <1>7, <1>8, <1>11, ConcatProperties
    <1> QED
        BY <1>14, <1>15
-----------------------------------------------------------------------------
(* An operation between its reset and the next one's *)

LEMMA FreshIs ==
    /\ FreshPost = PostOf(Unknown, Unknown, 0, FALSE) /\ FreshPost \in PostSet
    /\ FreshPost.pen = FALSE
    <1>1. FreshPost = PostOf(Unknown, Unknown, 0, FALSE)
        BY DEF FreshPost, PostOf
    <1>2. Unknown \in Place /\ 0 \in Nat
        BY DEF Place
    <1> QED
        BY <1>1, <1>2, PostType DEF FreshPost

LEMMA FreshStands ==
    ASSUME NEW s, s.post # "hpgl", NEW m \in Spot
    PROVE  <<FreshPost, m, m>> \in Stands(s)
    <1>1. FreshPost.x = Unknown /\ FreshPost.z = Unknown /\ FreshPost.rate = 0
          /\ FreshPost.pen = FALSE
        BY DEF FreshPost
    <1>2. FreshPost \in PostSet
        BY FreshIs
    <1> HIDE DEF FreshPost
    <1>3. Agree(s, FreshPost, m, m)
        BY <1>1 DEF Agree
    <1> QED
        BY <1>2, <1>3 DEF Stands

LEMMA StandsSelf ==
    ASSUME NEW s, NEW u \in Stands(s)
    PROVE  <<u[1], u[2], u[2]>> \in Stands(s)
    <1> DEFINE p == u[1]
               m == u[2]
    <1>1. p \in PostSet /\ m \in Spot /\ Agree(s, p, m, u[3])
        BY StandsIs
    <1> HIDE DEF p, m
    <1>2. Agree(s, p, m, m)
        BY <1>1 DEF Agree
    <1>3. <<p, m, m>> \in Stands(s)
        BY <1>1, <1>2 DEF Stands
    <1> QED
        BY <1>3 DEF p, m

\* What the reset of an operation forgets: on the machines that run G-code, all of it.
LEMMA ResetStands ==
    ASSUME NEW s \in Setup, NEW p, NEW m, <<p, m, m>> \in Stands(s)
    PROVE  /\ <<ResetState(s, p), m, Fed(m, 0)>> \in Reset(s)
           /\ <<ResetState(s, p), m, m>> \in Stands(s)
           /\ s.post # "hpgl" => ResetState(s, p) = FreshPost
           /\ m \in Spot /\ Fed(m, 0) \in Spot /\ ResetState(s, p) \in PostSet
    <1> DEFINE t == <<p, m, m>>
               q == ResetState(s, p)
               n == Fed(m, 0)
    <1>1. p \in PostSet /\ m \in Spot /\ Agree(s, p, m, m)
        <2>1. t[1] = p /\ t[2] = m /\ t[3] = m
            OBVIOUS
        <2> HIDE DEF t
        <2> QED
            BY <2>1, StandsIs DEF t
    <1>2. /\ p.x \in Place /\ p.z \in Place /\ p.rate \in Nat /\ p.pen \in BOOLEAN
          /\ p = PostOf(p.x, p.z, p.rate, p.pen)
        BY <1>1, PostIs DEF PostSet
    <1>3. n \in Spot /\ n.x = m.x /\ n.z = m.z
        <2>1. /\ m.x \in Place /\ m.z \in Place /\ m.feed \in Nat /\ m.pen \in BOOLEAN
              /\ m = ToolOf(m.x, m.z, m.feed, m.pen)
            BY <1>1, SpotIsTool, ToolIs DEF Spot
        <2>2. n = ToolOf(m.x, m.z, 0, m.pen)
            BY <2>1, ToolFed
        <2> HIDE DEF n
        <2>3. ToolOf(m.x, m.z, 0, m.pen) \in Spot
            BY <2>1 DEF ToolOf, Spot
        <2> QED
            BY <2>2, <2>3, ToolFields
    <1>4. s.post # "hpgl" => q = FreshPost
        <2> SUFFICES ASSUME s.post # "hpgl" PROVE q = FreshPost
            OBVIOUS
        <2>1. p.pen = FALSE
            BY <1>1 DEF Agree
        <2>2. At(p, Unknown, Unknown) = PostOf(Unknown, Unknown, p.rate, p.pen)
            BY <1>2, PostAt
        <2> DEFINE a == PostOf(Unknown, Unknown, p.rate, p.pen)
        <2>3. [a EXCEPT !.rate = 0] = PostOf(Unknown, Unknown, 0, p.pen)
            BY DEF PostOf
        <2>4. q = [a EXCEPT !.rate = 0]
            BY <2>2 DEF ResetState
        <2> QED
            BY <2>1, <2>3, <2>4, FreshIs
    <1>5. s.post = "hpgl" => /\ q = PostOf(Unknown, p.z, p.rate, p.pen)
                             /\ q.x = Unknown /\ q.rate = p.rate /\ q.pen = p.pen
        <2> SUFFICES ASSUME s.post = "hpgl"
                     PROVE  q = PostOf(Unknown, p.z, p.rate, p.pen)
            BY PostFields
        <2>1. q = [p EXCEPT !.x = Unknown]
            BY DEF ResetState
        <2> QED
            BY <1>2, <2>1 DEF PostOf
    <1>6. q \in PostSet
        <2>1. Unknown \in Place
            BY DEF Place
        <2> QED
            BY <1>2, <1>4, <1>5, <2>1, FreshIs, PostType
    <1> HIDE DEF q, n
    <1>7. Agree(s, q, m, n) /\ Agree(s, q, m, m)
        <2>1. CASE s.post = "hpgl"
            BY <1>1, <1>3, <1>5, <2>1 DEF Agree
        <2>2. CASE s.post # "hpgl"
            <3>1. q.x = Unknown /\ q.z = Unknown /\ q.rate = 0 /\ q.pen = FALSE
                BY <1>4, <2>2 DEF FreshPost
            <3> QED
                BY <1>3, <2>2, <3>1 DEF Agree
        <2> QED
            BY <2>1, <2>2
    <1>8. <<q, m, n>> \in Stands(s) /\ <<q, m, m>> \in Stands(s)
        BY <1>1, <1>3, <1>6, <1>7 DEF Stands
    <1>9. <<q, m, n>> \in Reset(s)
        BY <1>4, <1>8 DEF Reset
    <1> QED
        BY <1>1, <1>3, <1>4, <1>6, <1>8, <1>9 DEF q, n

\* The four things an operation makes: its boundary, its body, what was planned, what is run.
Boundary(s, p, o) == Write(s, ResetState(s, p), Envelope(o.change))
Fresh(s, p, o) == Write(s, Boundary(s, p, o).post, Body(o))
Planned(s, m, o) == Reading("plan", s, Fed(m, 0), Calls(s, Envelope(o.change) \o Body(o)))
Ran(s, p, m, o) == Reading("run", s, m, Boundary(s, p, o).lines \o Fresh(s, p, o).lines)

LEMMA BoundaryIs ==
    ASSUME NEW s \in Setup, NEW o, Suited(s, o), o.change \in Changes,
           NEW p, NEW m, <<p, m, m>> \in Stands(s)
    PROVE  /\ Boundary(s, p, o) \in Page(PostSet)
           /\ s.post # "hpgl" => Boundary(s, p, o).post = FreshPost
           /\ Reading("run", s, m, Boundary(s, p, o).lines).at \in Spot
           /\ Envelope(o.change) \in Seq(Given)
    <1> DEFINE q == ResetState(s, p)
               t == <<q, m, Fed(m, 0)>>
               cs == Calls(s, Envelope(o.change))
               w == Sheet(s, q, cs)
    <1>1. t \in Reset(s) /\ q \in PostSet
        BY ResetStands
    <1>2. Envelope(o.change) \in Seq(Given) /\ Goes(s, cs, Reset(s), Reset(s))
        BY EnvelopeDrives DEF Drives
    <1>3. PICK u \in Reset(s) : Same(s, cs, t, u)
        BY <1>1, <1>2 DEF Goes, Follows
    <1>4. t[1] = q /\ t[2] = m
        OBVIOUS
    <1>5. w.post = u[1] /\ Reading("run", s, m, w.lines).at = u[2]
        BY <1>3, <1>4 DEF Same
    <1>6. w \in Page(PostSet)
        BY <1>1, <1>2, SheetType, WriteType DEF Goes
    <1>7. u \in Stands(s) /\ (s.post # "hpgl" => u[1] = FreshPost)
        BY DEF Reset
    <1>8. u[2] \in Spot
        BY <1>7, StandsIs
    <1>9. Boundary(s, p, o) = w
        BY WriteIsSheet DEF Boundary
    <1> QED
        BY <1>2, <1>5, <1>6, <1>7, <1>8, <1>9

\* An operation the posts write call by call runs as planned and leaves the three standing.
LEMMA EmitRuns ==
    ASSUME NEW s \in Setup, NEW o, Suited(s, o), o.kind \in Kinds, o.change \in Changes,
           o.kind = "include" => s.post = "hpgl",
           NEW p, NEW m, <<p, m, m>> \in Stands(s)
    PROVE  /\ Fresh(s, p, o) \in Page(PostSet)
           /\ <<Fresh(s, p, o).post, Ran(s, p, m, o).at, Ran(s, p, m, o).at>> \in Stands(s)
           /\ Ran(s, p, m, o).moves = Planned(s, m, o).moves
    <1> DEFINE q == ResetState(s, p)
               n == Fed(m, 0)
               t == <<q, m, n>>
               env == Envelope(o.change)
               body == Body(o)
               a == Boundary(s, p, o)
               b == Fresh(s, p, o)
    <1>1. t \in Reset(s) /\ q \in PostSet
        BY ResetStands
    <1>2. Drives(s, env, Reset(s), Reset(s)) /\ Drives(s, body, Reset(s), Stands(s))
        BY EnvelopeDrives, BodyDrives
    <1>3. a \in Page(PostSet)
        BY BoundaryIs
    <1>4. a = Sheet(s, q, Calls(s, env)) /\ b = Sheet(s, a.post, Calls(s, body))
        BY WriteIsSheet DEF Boundary, Fresh
    <1>5. t[1] = q /\ t[2] = m /\ t[3] = n
        OBVIOUS
    <1> HIDE DEF q, n, t, env, body, a, b
    <1>6. Drives(s, env \o body, Reset(s), Stands(s))
        BY <1>2, DrivesConcat
    <1>7. env \in Seq(Given) /\ body \in Seq(Given)
        BY <1>2 DEF Drives
    <1> DEFINE left == Calls(s, env)
               right == Calls(s, body)
               all == Calls(s, env \o body)
    <1>8. all = left \o right
        BY <1>7, CallsConcat
    <1>9. left \in Seq(CallSet) /\ right \in Seq(CallSet)
        BY <1>2 DEF Drives, Goes
    <1>10. PICK v \in Stands(s) : Same(s, all, t, v)
        BY <1>1, <1>6 DEF Drives, Goes, Follows
    <1> DEFINE w == Sheet(s, q, all)
    <1> HIDE DEF left, right, all
    <1>11. /\ w.post = v[1] /\ Reading("run", s, m, w.lines).at = v[2]
           /\ Reading("run", s, m, w.lines).moves = Reading("plan", s, n, all).moves
        BY <1>5, <1>10 DEF Same
    <1>12. Sheet(s, q, left \o right) = Onward(Sheet(s, q, left), Sheet(s, Sheet(s, q, left).post, right))
        BY <1>1, <1>9, SheetConcat, WriteType
    <1>13. w = Onward(a, b)
        BY <1>4, <1>8, <1>12 DEF left, right
    <1>14. w.post = b.post /\ w.lines = a.lines \o b.lines
        BY <1>13, OnwardIs
    <1>15. a.post \in PostSet
        BY <1>3 DEF Page
    <1>16. b \in Page(PostSet)
        BY <1>4, <1>9, <1>15, SheetType, WriteType DEF right
    <1>17. <<v[1], v[2], v[2]>> \in Stands(s)
        BY StandsSelf
    <1>18. Ran(s, p, m, o) = Reading("run", s, m, w.lines)
        BY <1>14 DEF Ran, a, b
    <1>19. Planned(s, m, o) = Reading("plan", s, n, all)
        BY DEF Planned, n, all, env, body
    <1>20. <<b.post, Ran(s, p, m, o).at, Ran(s, p, m, o).at>> = <<v[1], v[2], v[2]>>
        BY <1>11, <1>14, <1>18
    <1> QED
        BY <1>11, <1>16, <1>17, <1>18, <1>19, <1>20 DEF b

\* Included lines are planned as they are run; the post forgets all once they are in.
LEMMA IncludeRuns ==
    ASSUME NEW s \in Setup, s.post # "hpgl", NEW o, Suited(s, o), o.kind = "include",
           o.change \in Changes, NEW p, NEW m, <<p, m, m>> \in Stands(s)
    PROVE  /\ Fresh(s, p, o) \in Page(PostSet)
           /\ <<ResetState(s, Fresh(s, p, o).post), Ran(s, p, m, o).at, Ran(s, p, m, o).at>>
                  \in Stands(s)
    <1> DEFINE a == Boundary(s, p, o)
               b == Fresh(s, p, o)
               cs == Calls(s, Body(o))
               r == Reading("run", s, m, a.lines)
               q == Reading("run", s, r.at, b.lines)
    <1>1. a \in Page(PostSet) /\ a.post = FreshPost /\ r.at \in Spot
        BY BoundaryIs
    <1>2. b = Sheet(s, FreshPost, cs)
        BY <1>1, WriteIsSheet DEF Fresh
    <1>3. Keeps(s, cs)
        BY IncludeKeeps
    <1>4. b.post = FreshPost /\ q.at \in Spot /\ cs \in Seq(CallSet)
        <2> HIDE DEF a, b, cs, r
        <2>1. FreshPost \in PostSet /\ FreshPost.pen = FALSE
            BY FreshIs
        <2>2. Sheet(s, FreshPost, cs).post = FreshPost
            BY <1>1, <1>3, <2>1 DEF Keeps
        <2>3. Reading("run", s, r.at, Sheet(s, FreshPost, cs).lines).at \in Spot
            BY <1>1, <1>3, <2>1 DEF Keeps
        <2> QED
            BY <1>2, <1>3, <2>2, <2>3 DEF Keeps
    <1>5. b \in Page(PostSet)
        BY <1>2, <1>4, FreshIs, SheetType, WriteType
    <1> HIDE DEF a, b, cs
    <1>6. a.lines \in Seq(LineSet) /\ b.lines \in Seq(LineSet)
        BY <1>1, <1>5 DEF Page
    <1>7. m \in Tool
        BY ResetStands, SpotIsTool
    <1>8. Reading("run", s, m, a.lines \o b.lines) = AndThen(r, q)
        <2> DEFINE la == a.lines
                   lb == b.lines
        <2>1. la \in Seq(LineSet) /\ lb \in Seq(LineSet)
            BY <1>6
        <2>2. r = Reading("run", s, m, la) /\ q = Reading("run", s, r.at, lb)
            OBVIOUS
        <2> HIDE DEF la, lb, r, q
        <2>3. Reads("run", s, Tool, LineSet)
            BY RunType
        <2>4. Reading("run", s, m, la \o lb) =
                  AndThen(Reading("run", s, m, la),
                          Reading("run", s, Reading("run", s, m, la).at, lb))
            BY <1>7, <2>1, <2>3, ReadConcat
        <2> QED
            BY <2>2, <2>4 DEF la, lb
    <1> HIDE DEF r, q
    <1>9. Ran(s, p, m, o).at \in Spot
        <2>1. AndThen(r, q).at = q.at
            BY AndThenIs
        <2> QED
            BY <1>4, <1>8, <2>1 DEF Ran, a, b
    <1>10. ResetState(s, FreshPost) = FreshPost
        <2>1. <<FreshPost, Ran(s, p, m, o).at, Ran(s, p, m, o).at>> \in Stands(s)
            BY <1>9, FreshStands
        <2> QED
            BY <2>1, ResetStands
    <1>11. <<FreshPost, Ran(s, p, m, o).at, Ran(s, p, m, o).at>> \in Stands(s)
        BY <1>9, FreshStands
    <1> QED
        BY <1>4, <1>5, <1>10, <1>11 DEF b
-----------------------------------------------------------------------------
(* The invariant of a program being generated *)

\* What the cache holds of an operation is what its body is from a post that knows nothing.
Stored(s, store) ==
    \A k \in DOMAIN store : \E o \in Operations :
        /\ ~ ProgramOnly(o) /\ Key(o) = k
        /\ store[k].lines = Write(s, FreshPost, Body(o)).lines
        /\ store[k].exit = Write(s, FreshPost, Body(o)).post

\* The post, the controller and the plan agree between operations, whatever the operations
\* were; the interpreter is at numbers; the last operation ran as planned.
PreviewInv ==
    /\ setup \in Setups
    /\ count \in 0 .. MaxOps
    /\ generation \in 1 .. MaxGenerates
    /\ <<post, ctl, ctl>> \in Stands(setup)
    /\ view \in View
    /\ Stored(setup, cache)
    /\ RunsAsPlanned

\* The profiles and operations outside the disagreements: the plotter has no op cache (its
\* bodies do not carry the pen and the speed they were written for), and each is Suited.
Agreed ==
    /\ \A s \in Setups : s.post = "hpgl" => ~ s.cache
    /\ \A s \in Setups, o \in Operations : Suited(s, o)

LEMMA SetupIs ==
    ASSUME NEW s \in Setups
    PROVE  s \in Setup
    BY SetupAssumption DEF Setup

LEMMA OperationIs ==
    ASSUME NEW o \in Operations
    PROVE  o.kind \in Kinds /\ o.change \in Changes /\ o.v \in Nat /\ o.h \in Nat
    BY OperationAssumption

LEMMA BodyByKey ==
    ASSUME NEW a, NEW b, Key(a) = Key(b)
    PROVE  Body(a) = Body(b) /\ a.kind = b.kind
    <1>1. a.kind = b.kind /\ a.v = b.v /\ a.h = b.h
        <2>1. /\ Key(a).kind = a.kind /\ Key(a).v = a.v /\ Key(a).h = a.h
              /\ Key(b).kind = b.kind /\ Key(b).v = b.v /\ Key(b).h = b.h
            BY DEF Key
        <2> QED
            BY <2>1
    <1>2. \A from, to : Contour(a, from, to) = Contour(b, from, to)
        BY <1>1, Zenon DEF Contour
    <1>3. Passes(a) = Passes(b)
        BY <1>1, <1>2, Zenon DEF Passes
    <1> QED
        BY <1>1, <1>3, Zenon DEF Body

\* A body replayed from the cache is the one that would be written here.
LEMMA Replayed ==
    ASSUME NEW s \in Setup, s.post # "hpgl", NEW store, Stored(s, store),
           NEW o, Suited(s, o), o.change \in Changes, Key(o) \in DOMAIN store,
           NEW p, NEW m, <<p, m, m>> \in Stands(s)
    PROVE  /\ store[Key(o)].lines = Fresh(s, p, o).lines
           /\ RestoreState(s, Boundary(s, p, o).post, store[Key(o)].exit) = Fresh(s, p, o).post
    <1>1. PICK b \in Operations :
              /\ Key(b) = Key(o)
              /\ store[Key(o)].lines = Write(s, FreshPost, Body(b)).lines
              /\ store[Key(o)].exit = Write(s, FreshPost, Body(b)).post
        BY DEF Stored
    <1>2. Body(b) = Body(o)
        BY <1>1, BodyByKey
    <1>3. Boundary(s, p, o).post = FreshPost
        BY BoundaryIs
    <1>4. Fresh(s, p, o) = Write(s, FreshPost, Body(o))
        BY <1>3 DEF Fresh
    <1>5. \A q, e : RestoreState(s, q, e) = e
        BY DEF RestoreState
    <1> QED
        BY <1>1, <1>2, <1>4, <1>5

LEMMA StoredType ==
    ASSUME NEW s, NEW store, Stored(s, store), NEW o \in Operations, ~ ProgramOnly(o),
           NEW w, w = Write(s, FreshPost, Body(o)), NEW grown,
           grown = [k \in DOMAIN store \cup {Key(o)} |->
                       IF k = Key(o) THEN [lines |-> w.lines, exit |-> w.post] ELSE store[k]]
    PROVE  Stored(s, grown)
    <1> SUFFICES ASSUME NEW k \in DOMAIN grown
                 PROVE  \E b \in Operations :
                            /\ ~ ProgramOnly(b) /\ Key(b) = k
                            /\ grown[k].lines = Write(s, FreshPost, Body(b)).lines
                            /\ grown[k].exit = Write(s, FreshPost, Body(b)).post
        BY DEF Stored
    <1>1. CASE k = Key(o)
        <2>1. grown[k] = [lines |-> w.lines, exit |-> w.post]
            BY <1>1
        <2>2. grown[k].lines = w.lines /\ grown[k].exit = w.post
            BY <2>1
        <2> QED
            BY <1>1, <2>2
    <1>2. CASE k # Key(o)
        <2>1. k \in DOMAIN store /\ grown[k] = store[k]
            BY <1>2
        <2> QED
            BY <2>1 DEF Stored
    <1> QED
        BY <1>1, <1>2

\* A program opened: the post and the controller agree on nothing but the pen.
LEMMA OpenedStands ==
    ASSUME NEW s \in Setup
    PROVE  /\ <<Opened(s).post, Reading("run", s, ColdControl(s), Opened(s).lines).at,
                Reading("run", s, ColdControl(s), Opened(s).lines).at>> \in Stands(s)
           /\ Reading("seen", s, FreshView, Opened(s).lines).at \in View
    <1> DEFINE m == ColdControl(s)
               t == <<FreshPost, m, m>>
               cs == Calls(s, <<Lift>>)
               w == Sheet(s, FreshPost, cs)
    <1>1. m = ToolOf(Unknown, IF s.post = "hpgl" THEN 0 ELSE Unknown, 0, FALSE)
        BY DEF ColdControl, ToolOf
    <1>2. m \in Spot
        <2> DEFINE z == IF s.post = "hpgl" THEN 0 ELSE Unknown
        <2>1. z \in Place /\ Unknown \in Place /\ 0 \in Nat
            BY NearIs DEF Place
        <2> HIDE DEF z
        <2> QED
            BY <1>1, <2>1 DEF ToolOf, Spot, z
    <1>3. m.x = Unknown /\ m.feed = 0 /\ m.pen = FALSE
        BY DEF ColdControl
    <1> HIDE DEF m
    <1>4. t \in Stands(s)
        <2>1. Agree(s, FreshPost, m, m)
            BY <1>3 DEF FreshPost, Agree
        <2> QED
            BY <1>2, <2>1, FreshIs DEF Stands
    <1>5. Drives(s, <<Lift>>, Stands(s), Stands(s))
        BY LiftMakes, DrivesFirst
    <1>6. PICK u \in Stands(s) : Same(s, cs, t, u)
        BY <1>4, <1>5 DEF Drives, Goes, Follows
    <1>7. t[1] = FreshPost /\ t[2] = m
        OBVIOUS
    <1>8. w.post = u[1] /\ Reading("run", s, m, w.lines).at = u[2]
        BY <1>6, <1>7 DEF Same
    <1>9. <<u[1], u[2], u[2]>> \in Stands(s)
        BY StandsSelf
    <1>10. Opened(s) = w
        BY WriteIsSheet DEF Opened
    <1>11. w \in Page(PostSet)
        BY <1>5, FreshIs, SheetType, WriteType DEF Drives, Goes
    <1> HIDE DEF w
    <1>12. Reading("seen", s, FreshView, w.lines).at \in View
        <2> DEFINE ls == w.lines
        <2>1. ls \in Seq(LineSet)
            BY <1>11 DEF Page
        <2>2. FreshView \in View
            BY DEF FreshView, View, Tags
        <2> HIDE DEF ls
        <2>3. Reading("seen", s, FreshView, ls) \in Outcome(View)
            BY <2>1, <2>2, SeeType, ReadingType
        <2> QED
            BY <2>3 DEF Outcome, ls
    <1> QED
        BY <1>8, <1>9, <1>10, <1>12 DEF m

LEMMA PreviewInit ==
    Init => PreviewInv
    <1> SUFFICES ASSUME Init PROVE PreviewInv
        OBVIOUS
    <1>1. setup \in Setups /\ setup \in Setup
        BY SetupIs DEF Init
    <1>2. <<post, ctl, ctl>> \in Stands(setup) /\ view \in View
        BY <1>1, OpenedStands DEF Init
    <1>3. Stored(setup, cache)
        BY DEF Init, Stored
    <1>4. RunsAsPlanned
        BY DEF Init, NoReading, RunsAsPlanned
    <1>5. count \in 0 .. MaxOps /\ generation \in 1 .. MaxGenerates
        BY BoundAssumption DEF Init
    <1> QED
        BY <1>1, <1>2, <1>3, <1>4, <1>5 DEF PreviewInv

LEMMA PreviewRegenerate ==
    ASSUME PreviewInv, Regenerate
    PROVE  PreviewInv'
    <1>1. setup' = setup /\ cache' = cache /\ setup \in Setups /\ setup \in Setup
        BY SetupIs DEF Regenerate, PreviewInv
    <1>2. <<post', ctl', ctl'>> \in Stands(setup) /\ view' \in View
        BY <1>1, OpenedStands DEF Regenerate, Begin
    <1>3. RunsAsPlanned'
        BY DEF Regenerate, Begin, NoReading, RunsAsPlanned
    <1>4. count' \in 0 .. MaxOps /\ generation' \in 1 .. MaxGenerates
        BY BoundAssumption DEF Regenerate, Begin, PreviewInv
    <1> QED
        BY <1>1, <1>2, <1>3, <1>4 DEF PreviewInv

LEMMA PreviewEmit ==
    ASSUME Agreed, PreviewInv, NEW o \in Operations, Emit(o)
    PROVE  PreviewInv'
    <1> DEFINE s == setup
               a == Boundary(s, post, o)
               b == Fresh(s, post, o)
               hit == s.cache /\ ~ ProgramOnly(o) /\ Key(o) \in DOMAIN cache
               body == IF hit THEN cache[Key(o)].lines ELSE b.lines
               lines == a.lines \o body
               run == Reading("run", s, ctl, lines)
               seen == Reading("seen", s, view, IF s.post = "hpgl" THEN <<>> ELSE lines)
               plan == Planned(s, ctl, o)
    <1>1. /\ s \in Setups /\ s \in Setup /\ count \in 0 .. MaxOps /\ generation \in 1 .. MaxGenerates
          /\ <<post, ctl, ctl>> \in Stands(s) /\ view \in View /\ Stored(s, cache)
        BY SetupIs DEF PreviewInv
    <1>2. /\ o.kind \in Kinds /\ o.change \in Changes /\ Suited(s, o)
          /\ s.post = "hpgl" => ~ s.cache
        BY <1>1, OperationIs DEF Agreed
    <1>3. /\ count < MaxOps /\ count' = count + 1
          /\ post' = IF ProgramOnly(o) THEN ResetState(s, b.post)
                     ELSE IF hit THEN RestoreState(s, a.post, cache[Key(o)].exit)
                     ELSE b.post
          /\ cache' = IF hit \/ ProgramOnly(o) \/ ~ s.cache THEN cache
                      ELSE [k \in DOMAIN cache \cup {Key(o)} |->
                               IF k = Key(o) THEN [lines |-> b.lines, exit |-> b.post]
                               ELSE cache[k]]
          /\ ctl' = run.at /\ view' = seen.at
          /\ res' = [plan |-> IF o.kind = "include" THEN run.moves ELSE plan.moves,
                     run |-> run.moves, seen |-> seen.moves, op |-> o.kind,
                     dwells |-> <<plan.dwell, run.dwell, seen.dwell>>]
          /\ setup' = setup /\ generation' = generation
        BY DEF Emit, Boundary, Fresh, Planned
    <1>4. a \in Page(PostSet) /\ (s.post # "hpgl" => a.post = FreshPost)
        BY <1>1, <1>2, BoundaryIs
    <1>5. hit => /\ cache[Key(o)].lines = b.lines
                 /\ RestoreState(s, a.post, cache[Key(o)].exit) = b.post
        BY <1>1, <1>2, Replayed
    <1>6. body = b.lines
        BY <1>5
    <1>7. run = Ran(s, post, ctl, o)
        BY <1>6 DEF Ran
    <1>8. b \in Page(PostSet)
        <2>1. CASE o.kind = "include" /\ s.post # "hpgl"
            BY <1>1, <1>2, <2>1, IncludeRuns
        <2>2. CASE ~ (o.kind = "include" /\ s.post # "hpgl")
            BY <1>1, <1>2, <2>2, EmitRuns
        <2> QED
            BY <2>1, <2>2
    <1> HIDE DEF s, a, b, hit, body, run, plan
    <1>9. <<post', ctl', ctl'>> \in Stands(s) /\ RunsAsPlanned'
        <2>1. ctl' = run.at
            BY <1>3
        <2>2. res'.run = run.moves
              /\ res'.plan = IF o.kind = "include" THEN run.moves ELSE plan.moves
            BY <1>3
        <2>3. CASE o.kind = "include" /\ s.post # "hpgl"
            <3>1. <<ResetState(s, b.post), run.at, run.at>> \in Stands(s)
                BY <1>1, <1>2, <1>7, <2>3, IncludeRuns DEF b
            <3>2. post' = ResetState(s, b.post)
                BY <1>3, <2>3 DEF ProgramOnly
            <3> QED
                BY <2>1, <2>2, <2>3, <3>1, <3>2 DEF RunsAsPlanned
        <2>4. CASE ~ (o.kind = "include" /\ s.post # "hpgl")
            <3>1. <<b.post, run.at, run.at>> \in Stands(s) /\ run.moves = plan.moves
                BY <1>1, <1>2, <1>7, <2>4, EmitRuns DEF b, plan
            <3>2. <<ResetState(s, b.post), run.at, run.at>> \in Stands(s)
                BY <1>1, <3>1, ResetStands
            <3>3. post' = b.post \/ post' = ResetState(s, b.post)
                BY <1>3, <1>5
            <3> QED
                BY <2>1, <2>2, <3>1, <3>2, <3>3 DEF RunsAsPlanned
        <2> QED
            BY <2>3, <2>4
    <1>10. view' \in View
        <2> DEFINE read == IF s.post = "hpgl" THEN <<>> ELSE lines
        <2>1. a.lines \in Seq(LineSet) /\ b.lines \in Seq(LineSet)
            BY <1>4, <1>8 DEF Page
        <2>2. lines \in Seq(LineSet)
            BY <1>6, <2>1, ConcatProperties
        <2>3. read \in Seq(LineSet)
            BY <2>2
        <2>4. view' = Reading("seen", s, view, read).at
            BY <1>3
        <2> HIDE DEF read
        <2>5. Reading("seen", s, view, read) \in Outcome(View)
            BY <1>1, <2>3, SeeType, ReadingType
        <2> QED
            BY <2>4, <2>5 DEF Outcome
    <1>11. Stored(s, cache')
        <2>1. CASE hit \/ ProgramOnly(o) \/ ~ s.cache
            BY <1>1, <1>3, <2>1
        <2>2. CASE ~ (hit \/ ProgramOnly(o) \/ ~ s.cache)
            <3>1. b = Write(s, FreshPost, Body(o))
                <4>1. a.post = FreshPost
                    BY <1>2, <1>4, <2>2
                <4> QED
                    BY <4>1 DEF a, b, Fresh
            <3>2. cache' = [k \in DOMAIN cache \cup {Key(o)} |->
                               IF k = Key(o) THEN [lines |-> b.lines, exit |-> b.post]
                               ELSE cache[k]]
                BY <1>3, <2>2
            <3>3. ~ ProgramOnly(o)
                BY <2>2
            <3> QED
                BY <1>1, <3>1, <3>2, <3>3, StoredType
        <2> QED
            BY <2>1, <2>2
    <1>12. count' \in 0 .. MaxOps /\ generation' \in 1 .. MaxGenerates /\ setup' \in Setups
        BY <1>1, <1>3, BoundAssumption DEF s
    <1>13. setup' = s
        BY <1>3 DEF s
    <1> QED
        BY <1>9, <1>10, <1>11, <1>12, <1>13 DEF PreviewInv

\* The invariant holds of every reachable state, outside the disagreements.
THEOREM PreviewKeepsStep ==
    ASSUME Agreed
    PROVE  Spec => []PreviewInv
    <1>1. Init => PreviewInv
        BY PreviewInit
    <1>2. PreviewInv /\ [Next]_vars => PreviewInv'
        <2> SUFFICES ASSUME PreviewInv, [Next]_vars PROVE PreviewInv'
            OBVIOUS
        <2>1. ASSUME NEW o \in Operations, Emit(o) PROVE PreviewInv'
            BY <2>1, PreviewEmit
        <2>2. CASE Regenerate
            BY <2>2, PreviewRegenerate
        <2>3. CASE UNCHANGED vars
            BY <2>3 DEF vars, PreviewInv, RunsAsPlanned
        <2> QED
            BY <2>1, <2>2, <2>3 DEF Next
    <1> QED
        BY <1>1, <1>2, PTL DEF Spec

\* The controller makes the moves the operation planned, each at the feed commanded for it,
\* for all profiles and operations outside the disagreements: the words linuxcnc.rs, grbl.rs
\* and hpgl.rs leave out are never needed.
THEOREM MachineRunsThePlan ==
    ASSUME Agreed
    PROVE  Spec => []RunsAsPlanned
    <1>1. PreviewInv => RunsAsPlanned
        BY DEF PreviewInv
    <1> QED
        BY <1>1, PreviewKeepsStep, PTL

LEMMA StandsWell ==
    ASSUME NEW s, NEW p, NEW m, <<p, m, m>> \in Stands(s)
    PROVE  Agree(s, p, m, m)
    <1> DEFINE t == <<p, m, m>>
    <1>1. t[1] = p /\ t[2] = m /\ t[3] = m
        OBVIOUS
    <1> HIDE DEF t
    <1> QED
        BY <1>1, StandsIs DEF t

\* The words the posts hold back are the machine's own, and the interpreter is at numbers.
THEOREM PreviewTyped ==
    ASSUME Agreed
    PROVE  Spec => []PreviewTypeOK
    <1>1. PreviewInv => PreviewTypeOK
        <2> SUFFICES ASSUME PreviewInv PROVE PreviewTypeOK
            OBVIOUS
        <2>1. Agree(setup, post, ctl, ctl)
            BY StandsWell DEF PreviewInv
        <2>2. view.x # Unknown /\ view.z # Unknown
            BY DEF PreviewInv, View, Unknown
        <2> QED
            BY <2>1, <2>2 DEF PreviewInv, PreviewTypeOK, Agree
    <1> QED
        BY <1>1, PreviewKeepsStep, PTL
=============================================================================
