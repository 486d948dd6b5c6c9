--------------------------- MODULE Playback_proofs ---------------------------
(***************************************************************************)
(* The solid preview, for every program, grid, stock, number of checkpoints *)
(* and order of scrubs, edits and rebuilds: the material is the stock less  *)
(* what was cut, the warnings are those of the cuts, and the screen shows   *)
(* the material.                                                            *)
(***************************************************************************)
EXTENDS Playback, Induction_proofs, SequenceTheorems, FiniteSetTheorems, TLAPS

-----------------------------------------------------------------------------
(* Columns of material *)

SpanRec == [lo : Int, hi : Int]
Rises(spans) == \A i \in 1..Len(spans) : spans[i].lo < spans[i].hi
Apart(spans) == \A i, j \in 1..Len(spans) : i < j => spans[i].hi < spans[j].lo
Gapped(spans) == spans \in Seq(SpanRec) /\ Rises(spans) /\ Apart(spans)

SolidTo(spans, n) == {z \in Int : \E i \in 1..n : spans[i].lo <= z /\ z < spans[i].hi}
Solid(spans) == SolidTo(spans, Len(spans))

\* Every span of the one lies in one of the first n of the other.
Fits(parts, spans, n) ==
    \A k \in 1..Len(parts) :
        \E i \in 1..n : spans[i].lo <= parts[k].lo /\ parts[k].hi <= spans[i].hi

LEMMA SpanIs ==
    ASSUME NEW l \in Int, NEW h \in Int
    PROVE  Span(l, h) \in SpanRec /\ Span(l, h).lo = l /\ Span(l, h).hi = h
  BY DEF Span, SpanRec

LEMMA NoSpans ==
    /\ Gapped(<<>>) /\ Solid(<<>>) = {} /\ Len(<<>>) = 0
    /\ \A spans, n : Fits(<<>>, spans, n) /\ SolidTo(spans, 0) = {}
  BY DEF Gapped, Rises, Apart, Solid, SolidTo, Fits

LEMMA OneSpan ==
    ASSUME NEW s \in SpanRec, s.lo < s.hi
    PROVE  /\ Gapped(<<s>>) /\ Solid(<<s>>) = s.lo..s.hi - 1
           /\ Len(<<s>>) = 1 /\ <<s>>[1] = s
  <1>1. s.lo \in Int /\ s.hi \in Int
      BY DEF SpanRec
  <1>2. <<s>> \in Seq(SpanRec) /\ Len(<<s>>) = 1 /\ <<s>>[1] = s
      OBVIOUS
  <1>3. 1..Len(<<s>>) = {1}
      BY <1>2
  <1>4. Gapped(<<s>>)
      BY <1>1, <1>2, <1>3 DEF Gapped, Rises, Apart
  <1>5. Solid(<<s>>) = {z \in Int : s.lo <= z /\ z < s.hi}
      BY <1>2, <1>3 DEF Solid, SolidTo
  <1>6. {z \in Int : s.lo <= z /\ z < s.hi} = s.lo..s.hi - 1
      BY <1>1
  <1> QED
      BY <1>2, <1>4, <1>5, <1>6

LEMMA ConcatApart ==
    ASSUME NEW s, NEW t, Gapped(s), Gapped(t),
           \A i \in 1..Len(s), j \in 1..Len(t) : s[i].hi < t[j].lo
    PROVE  /\ Gapped(s \o t) /\ Solid(s \o t) = Solid(s) \cup Solid(t)
           /\ \A k \in 1..Len(s \o t) : \/ \E i \in 1..Len(s) : (s \o t)[k] = s[i]
                                        \/ \E j \in 1..Len(t) : (s \o t)[k] = t[j]
  <1> DEFINE u == s \o t
  <1>1. /\ s \in Seq(SpanRec) /\ t \in Seq(SpanRec) /\ Len(s) \in Nat /\ Len(t) \in Nat
        /\ u \in Seq(SpanRec) /\ Len(u) = Len(s) + Len(t)
      BY DEF Gapped
  <1>2. /\ \A k \in 1..Len(s) : k \in 1..Len(u) /\ u[k] = s[k]
        /\ \A k \in 1..Len(t) : Len(s) + k \in 1..Len(u) /\ u[Len(s) + k] = t[k]
      BY <1>1
  <1>3. \A k \in 1..Len(u) : \/ k \in 1..Len(s) /\ u[k] = s[k]
                             \/ k - Len(s) \in 1..Len(t) /\ u[k] = t[k - Len(s)]
    <2> TAKE k \in 1..Len(u)
    <2>1. CASE k <= Len(s)
        BY <1>1, <1>2, <2>1
    <2>2. CASE k > Len(s)
      <3>1. k - Len(s) \in 1..Len(t) /\ Len(s) + (k - Len(s)) = k
          BY <1>1, <2>2
      <3> QED
          BY <1>2, <3>1
    <2> QED
        BY <1>1, <2>1, <2>2
  <1> HIDE DEF u
  <1>4. Rises(u)
      BY <1>3 DEF Rises, Gapped
  <1>5. Apart(u)
    <2> SUFFICES ASSUME NEW i \in 1..Len(u), NEW j \in 1..Len(u), i < j
                 PROVE  u[i].hi < u[j].lo
        BY DEF Apart
    <2>1. CASE i \in 1..Len(s) /\ u[i] = s[i] /\ j \in 1..Len(s) /\ u[j] = s[j]
        BY <2>1 DEF Gapped, Apart
    <2>2. CASE i \in 1..Len(s) /\ u[i] = s[i] /\ j - Len(s) \in 1..Len(t) /\ u[j] = t[j - Len(s)]
        BY <2>2
    <2>3. CASE i - Len(s) \in 1..Len(t) /\ u[i] = t[i - Len(s)]
               /\ j - Len(s) \in 1..Len(t) /\ u[j] = t[j - Len(s)]
      <3>1. i - Len(s) < j - Len(s)
          BY <1>1, <2>3
      <3> QED
          BY <2>3, <3>1 DEF Gapped, Apart
    <2>4. CASE i - Len(s) \in 1..Len(t) /\ j \in 1..Len(s)
        BY <1>1, <2>4
    <2> QED
        BY <1>3, <2>1, <2>2, <2>3, <2>4
  <1>6. Solid(u) = Solid(s) \cup Solid(t)
      BY <1>2, <1>3 DEF Solid, SolidTo
  <1> QED
      BY <1>1, <1>3, <1>4, <1>5, <1>6 DEF u, Gapped

(* What a removal leaves of one span.                                      *)
LEMMA SurvivesIs ==
    ASSUME NEW s \in SpanRec, s.lo < s.hi, NEW a \in Int, NEW b \in Int, a < b
    PROVE  /\ Gapped(Survives(s, a, b))
           /\ Solid(Survives(s, a, b)) = (s.lo..s.hi - 1) \ (a..b - 1)
           /\ \A k \in 1..Len(Survives(s, a, b)) :
                  s.lo <= Survives(s, a, b)[k].lo /\ Survives(s, a, b)[k].hi <= s.hi
  <1> DEFINE t == Survives(s, a, b)
             Below == Span(s.lo, a)
             Above == Span(b, s.hi)
  <1>0. s.lo \in Int /\ s.hi \in Int
      BY DEF SpanRec
  <1>b. /\ Below \in SpanRec /\ Below.lo = s.lo /\ Below.hi = a
        /\ Above \in SpanRec /\ Above.lo = b /\ Above.hi = s.hi
      BY <1>0, SpanIs
  <1> HIDE DEF Below, Above
  <1>1. CASE b <= s.lo \/ a >= s.hi
    <2>1. t = <<s>>
        BY <1>1 DEF Survives
    <2>2. (s.lo..s.hi - 1) \ (a..b - 1) = s.lo..s.hi - 1
        BY <1>0, <1>1
    <2> QED
        BY <1>0, <2>1, <2>2, OneSpan
  <1>2. CASE ~(b <= s.lo \/ a >= s.hi) /\ a > s.lo /\ b < s.hi
    <2>1. t = <<Below>> \o <<Above>>
        BY <1>2 DEF Survives, Below, Above
    <2>2. /\ Gapped(<<Below>>) /\ Solid(<<Below>>) = s.lo..a - 1
          /\ Len(<<Below>>) = 1 /\ <<Below>>[1] = Below
        BY <1>b, <1>2, OneSpan
    <2>3. /\ Gapped(<<Above>>) /\ Solid(<<Above>>) = b..s.hi - 1
          /\ Len(<<Above>>) = 1 /\ <<Above>>[1] = Above
        BY <1>b, <1>2, OneSpan
    <2>4. \A i \in 1..Len(<<Below>>), j \in 1..Len(<<Above>>) : <<Below>>[i].hi < <<Above>>[j].lo
        BY <1>b, <2>2, <2>3
    <2> DEFINE A == <<Below>>
               B == <<Above>>
    <2> HIDE DEF A, B
    <2>5. /\ Gapped(t) /\ Solid(t) = (s.lo..a - 1) \cup (b..s.hi - 1)
          /\ \A k \in 1..Len(t) : t[k] = Below \/ t[k] = Above
      <3>1. /\ Gapped(A \o B) /\ Solid(A \o B) = Solid(A) \cup Solid(B)
            /\ \A k \in 1..Len(A \o B) : \/ \E i \in 1..Len(A) : (A \o B)[k] = A[i]
                                         \/ \E j \in 1..Len(B) : (A \o B)[k] = B[j]
        <4>1. /\ Gapped(A) /\ Gapped(B)
              /\ \A i \in 1..Len(A), j \in 1..Len(B) : A[i].hi < B[j].lo
            BY <2>2, <2>3, <2>4 DEF A, B
        <4> QED
            BY <4>1, ConcatApart
      <3>2. t = A \o B
          BY <2>1 DEF A, B
      <3>3. \A i \in 1..Len(A) : A[i] = Below
          BY <2>2 DEF A
      <3>4. \A i \in 1..Len(B) : B[i] = Above
          BY <2>3 DEF B
      <3>5. Solid(A) = s.lo..a - 1 /\ Solid(B) = b..s.hi - 1
          BY <2>2, <2>3 DEF A, B
      <3> HIDE DEF t
      <3> QED
          BY <3>1, <3>2, <3>3, <3>4, <3>5
    <2>6. (s.lo..a - 1) \cup (b..s.hi - 1) = (s.lo..s.hi - 1) \ (a..b - 1)
        BY <1>0, <1>2
    <2> HIDE DEF t
    <2>7. \A k \in 1..Len(t) : s.lo <= t[k].lo /\ t[k].hi <= s.hi
        BY <1>0, <1>b, <1>2, <2>5
    <2> QED
        BY <2>5, <2>6, <2>7 DEF t
  <1>3. CASE ~(b <= s.lo \/ a >= s.hi) /\ a > s.lo /\ ~(b < s.hi)
    <2>1. t = <<Below>> \o <<>>
        BY <1>3 DEF Survives, Below
    <2>2. t = <<Below>>
        BY <1>b, <2>1
    <2>3. (s.lo..s.hi - 1) \ (a..b - 1) = s.lo..a - 1
        BY <1>0, <1>3
    <2> QED
        BY <1>0, <1>b, <1>3, <2>2, <2>3, OneSpan
  <1>4. CASE ~(b <= s.lo \/ a >= s.hi) /\ ~(a > s.lo) /\ b < s.hi
    <2>1. t = <<>> \o <<Above>>
        BY <1>4 DEF Survives, Above
    <2>2. t = <<Above>>
        BY <1>b, <2>1
    <2>3. (s.lo..s.hi - 1) \ (a..b - 1) = b..s.hi - 1
        BY <1>0, <1>4
    <2> QED
        BY <1>0, <1>b, <1>4, <2>2, <2>3, OneSpan
  <1>5. CASE ~(b <= s.lo \/ a >= s.hi) /\ ~(a > s.lo) /\ ~(b < s.hi)
    <2>1. t = <<>> \o <<>>
        BY <1>5 DEF Survives
    <2>2. t = <<>>
        BY <2>1
    <2>3. (s.lo..s.hi - 1) \ (a..b - 1) = {}
        BY <1>0, <1>5
    <2> QED
        BY <2>2, <2>3, NoSpans
  <1> QED
      BY <1>0, <1>1, <1>2, <1>3, <1>4, <1>5

LEMMA GappedSpan ==
    ASSUME NEW spans, Gapped(spans), NEW i \in 1..Len(spans)
    PROVE  /\ spans[i] \in SpanRec /\ spans[i].lo \in Int /\ spans[i].hi \in Int
           /\ spans[i].lo < spans[i].hi
  <1>1. spans[i] \in SpanRec
      BY DEF Gapped
  <1> QED
      BY <1>1 DEF Gapped, Rises, SpanRec

(* The loops of subtract_interval and merge_adjacent.                      *)
LEMMA LeftIs ==
    ASSUME NEW ss, Len(ss) \in Nat, NEW a, NEW b
    PROVE  /\ Left(ss, a, b)[0] = <<>>
           /\ \A i \in 1..Len(ss) : Left(ss, a, b)[i] = Left(ss, a, b)[i - 1] \o Survives(ss[i], a, b)
  <1> DEFINE Upto(k, g) ==
                g = [i \in 0..k |-> IF i = 0 THEN <<>> ELSE g[i - 1] \o Survives(ss[i], a, b)]
             S == {k \in Nat : \E g : Upto(k, g)}
  <1>1. 0 \in S
    <2>1. Upto(0, [i \in 0..0 |-> <<>>])
        OBVIOUS
    <2> QED
        BY <2>1
  <1>2. ASSUME NEW n \in S PROVE n + 1 \in S
    <2>1. PICK g : Upto(n, g)
        OBVIOUS
    <2> DEFINE h == [i \in 0..(n + 1) |->
                        IF i = n + 1 THEN g[n] \o Survives(ss[n + 1], a, b) ELSE g[i]]
    <2>2. ASSUME NEW i \in 0..(n + 1)
          PROVE  h[i] = IF i = 0 THEN <<>> ELSE h[i - 1] \o Survives(ss[i], a, b)
      <3>1. CASE i = n + 1
          BY <3>1
      <3>2. CASE i # n + 1
        <4>1. i \in 0..n /\ h[i] = g[i] /\ (i # 0 => i - 1 \in 0..n /\ h[i - 1] = g[i - 1])
            BY <3>2
        <4> QED
            BY <2>1, <4>1
      <3> QED
          BY <3>1, <3>2
    <2>3. Upto(n + 1, h)
        BY <2>2
    <2> HIDE DEF h
    <2>4. \E f : Upto(n + 1, f)
        BY <2>3
    <2> HIDE DEF Upto
    <2> QED
        BY <2>4
  <1>3. S = Nat
      BY <1>1, <1>2, Induction
  <1>4. \E g : Upto(Len(ss), g)
      BY <1>3
  <1>5. Upto(Len(ss), Left(ss, a, b))
      BY <1>4 DEF Left
  <1> QED
      BY <1>5

LEMMA JoinedIs ==
    ASSUME NEW ss, Len(ss) \in Nat
    PROVE  /\ Joined(ss)[0] = <<>>
           /\ \A i \in 1..Len(ss) : Joined(ss)[i] = Join(Joined(ss)[i - 1], ss[i])
  <1> DEFINE Upto(k, g) ==
                g = [i \in 0..k |-> IF i = 0 THEN <<>> ELSE Join(g[i - 1], ss[i])]
             S == {k \in Nat : \E g : Upto(k, g)}
  <1>1. 0 \in S
    <2>1. Upto(0, [i \in 0..0 |-> <<>>])
        OBVIOUS
    <2> QED
        BY <2>1
  <1>2. ASSUME NEW n \in S PROVE n + 1 \in S
    <2>1. PICK g : Upto(n, g)
        OBVIOUS
    <2> DEFINE h == [i \in 0..(n + 1) |-> IF i = n + 1 THEN Join(g[n], ss[n + 1]) ELSE g[i]]
    <2>2. ASSUME NEW i \in 0..(n + 1)
          PROVE  h[i] = IF i = 0 THEN <<>> ELSE Join(h[i - 1], ss[i])
      <3>1. CASE i = n + 1
          BY <3>1
      <3>2. CASE i # n + 1
        <4>1. i \in 0..n /\ h[i] = g[i] /\ (i # 0 => i - 1 \in 0..n /\ h[i - 1] = g[i - 1])
            BY <3>2
        <4> QED
            BY <2>1, <4>1
      <3> QED
          BY <3>1, <3>2
    <2>3. Upto(n + 1, h)
        BY <2>2
    <2> HIDE DEF h
    <2>4. \E f : Upto(n + 1, f)
        BY <2>3
    <2> HIDE DEF Upto
    <2> QED
        BY <2>4
  <1>3. S = Nat
      BY <1>1, <1>2, Induction
  <1>4. \E g : Upto(Len(ss), g)
      BY <1>3
  <1>5. Upto(Len(ss), Joined(ss))
      BY <1>4 DEF Joined
  <1> QED
      BY <1>5

(* An interval removed from spans that lie apart leaves spans that lie     *)
(* apart, whose material is what was not in it.                            *)
LEMMA Subtracted ==
    ASSUME NEW spans, Gapped(spans), NEW a \in Int, NEW b \in Int
    PROVE  /\ Gapped(SubtractInterval(spans, a, b))
           /\ Solid(SubtractInterval(spans, a, b)) = Solid(spans) \ (a..b - 1)
           /\ Fits(SubtractInterval(spans, a, b), spans, Len(spans))
  <1>0. spans \in Seq(SpanRec) /\ Len(spans) \in Nat
        /\ \A i \in 1..Len(spans) : /\ spans[i] \in SpanRec /\ spans[i].lo \in Int
                                    /\ spans[i].hi \in Int /\ spans[i].lo < spans[i].hi
      BY GappedSpan DEF Gapped
  <1>1. CASE a >= b
    <2>1. SubtractInterval(spans, a, b) = spans
        BY <1>1 DEF SubtractInterval
    <2>2. a..b - 1 = {}
        BY <1>1
    <2>3. Fits(spans, spans, Len(spans))
        BY <1>0 DEF Fits
    <2> QED
        BY <2>1, <2>2, <2>3
  <1>2. CASE a < b
    <2> DEFINE l == Left(spans, a, b)
               Good(n) == /\ Gapped(l[n])
                          /\ Solid(l[n]) = SolidTo(spans, n) \ (a..b - 1)
                          /\ Fits(l[n], spans, n)
               S == {n \in Nat : n <= Len(spans) => Good(n)}
    <2>l. l[0] = <<>> /\ \A i \in 1..Len(spans) : l[i] = l[i - 1] \o Survives(spans[i], a, b)
        BY <1>0, LeftIs
    <2> HIDE DEF l
    <2>1. 0 \in S
        BY <2>l, NoSpans
    <2>2. ASSUME NEW n \in S PROVE n + 1 \in S
      <3> SUFFICES ASSUME n + 1 <= Len(spans) PROVE Good(n + 1)
          OBVIOUS
      <3> DEFINE m == n + 1
                 t == Survives(spans[m], a, b)
      <3>1. n \in Nat /\ m \in 1..Len(spans) /\ m - 1 = n /\ Good(n)
          BY <1>0
      <3>2. l[m] = l[n] \o t
          BY <2>l, <3>1
      <3>3. /\ Gapped(t) /\ Solid(t) = (spans[m].lo..spans[m].hi - 1) \ (a..b - 1)
            /\ \A k \in 1..Len(t) : spans[m].lo <= t[k].lo /\ t[k].hi <= spans[m].hi
          BY <1>0, <1>2, <3>1, SurvivesIs
      <3>4. /\ Len(l[n]) \in Nat /\ Len(t) \in Nat
            /\ \A i \in 1..Len(l[n]) : l[n][i].lo \in Int /\ l[n][i].hi \in Int
            /\ \A i \in 1..Len(t) : t[i].lo \in Int /\ t[i].hi \in Int
        <4>1. l[n] \in Seq(SpanRec) /\ t \in Seq(SpanRec)
            BY <3>1, <3>3 DEF Gapped
        <4> QED
            BY <3>1, <3>3, <4>1, GappedSpan
      <3> HIDE DEF t
      <3>5. \A i \in 1..Len(l[n]), j \in 1..Len(t) : l[n][i].hi < t[j].lo
        <4> SUFFICES ASSUME NEW i \in 1..Len(l[n]), NEW j \in 1..Len(t) PROVE l[n][i].hi < t[j].lo
            OBVIOUS
        <4>1. PICK k \in 1..n : l[n][i].hi <= spans[k].hi
            BY <3>1 DEF Fits
        <4>2. k \in 1..Len(spans) /\ k < m
            BY <1>0, <3>1
        <4>3. spans[k].hi < spans[m].lo
            BY <3>1, <4>2 DEF Gapped, Apart
        <4>4. spans[m].lo <= t[j].lo /\ l[n][i].hi \in Int /\ t[j].lo \in Int
            BY <3>3, <3>4
        <4>5. spans[k].hi \in Int /\ spans[m].lo \in Int
            BY <1>0, <3>1, <4>2
        <4>6. \A w, x, y, z \in Int : w <= x /\ x < y /\ y <= z => w < z
            OBVIOUS
        <4> HIDE DEF m
        <4> QED
            BY <4>1, <4>3, <4>4, <4>5, <4>6
      <3>6. /\ Gapped(l[m]) /\ Solid(l[m]) = Solid(l[n]) \cup Solid(t)
            /\ \A k \in 1..Len(l[m]) : \/ \E i \in 1..Len(l[n]) : l[m][k] = l[n][i]
                                       \/ \E j \in 1..Len(t) : l[m][k] = t[j]
        <4> DEFINE r == l[n]
        <4>1. Gapped(r) /\ Gapped(t) /\ \A i \in 1..Len(r), j \in 1..Len(t) : r[i].hi < t[j].lo
            BY <3>1, <3>3, <3>5
        <4> HIDE DEF r
        <4>2. /\ Gapped(r \o t) /\ Solid(r \o t) = Solid(r) \cup Solid(t)
              /\ \A k \in 1..Len(r \o t) : \/ \E i \in 1..Len(r) : (r \o t)[k] = r[i]
                                           \/ \E j \in 1..Len(t) : (r \o t)[k] = t[j]
            BY <4>1, ConcatApart
        <4>3. l[m] = r \o t
            BY <3>2 DEF r
        <4> QED
            BY <4>2, <4>3 DEF r
      <3>7. SolidTo(spans, m) = SolidTo(spans, n) \cup (spans[m].lo..spans[m].hi - 1)
        <4>1. 1..m = (1..n) \cup {m}
            BY <3>1
        <4>2. spans[m].lo \in Int /\ spans[m].hi \in Int
            BY <1>0, <3>1
        <4>3. \A z \in Int : z \in SolidTo(spans, m) <=>
                  z \in SolidTo(spans, n) \/ (spans[m].lo <= z /\ z < spans[m].hi)
          <5> HIDE DEF m
          <5> QED
              BY <4>1, Zenon DEF SolidTo
        <4>4. \A z \in Int : z \in spans[m].lo..spans[m].hi - 1 <=> spans[m].lo <= z /\ z < spans[m].hi
            BY <4>2
        <4>5. SolidTo(spans, m) \subseteq Int /\ SolidTo(spans, n) \subseteq Int
            BY DEF SolidTo
        <4> QED
            BY <4>3, <4>4, <4>5
      <3>8. Solid(l[m]) = SolidTo(spans, m) \ (a..b - 1)
        <4> DEFINE P == spans[m].lo..spans[m].hi - 1
                   A == a..b - 1
        <4> HIDE DEF P, A
        <4>1. Solid(t) = P \ A /\ Solid(l[n]) = SolidTo(spans, n) \ A
              /\ SolidTo(spans, m) = SolidTo(spans, n) \cup P
            BY <3>1, <3>3, <3>7 DEF P, A
        <4>2. Solid(l[m]) = SolidTo(spans, m) \ A
            BY <3>6, <4>1
        <4> QED
            BY <4>2 DEF A
      <3>9. Fits(l[m], spans, m)
        <4> SUFFICES ASSUME NEW k \in 1..Len(l[m])
                     PROVE  \E i \in 1..m : spans[i].lo <= l[m][k].lo /\ l[m][k].hi <= spans[i].hi
            BY DEF Fits
        <4>1. CASE \E i \in 1..Len(l[n]) : l[m][k] = l[n][i]
          <5>1. PICK i \in 1..Len(l[n]) : l[m][k] = l[n][i]
              BY <4>1
          <5>2. PICK q \in 1..n : spans[q].lo <= l[n][i].lo /\ l[n][i].hi <= spans[q].hi
              BY <3>1 DEF Fits
          <5>3. q \in 1..m
              BY <3>1
          <5> QED
              BY <5>1, <5>2, <5>3
        <4>2. CASE \E j \in 1..Len(t) : l[m][k] = t[j]
          <5>1. m \in 1..m
              BY <3>1
          <5> QED
              BY <3>3, <4>2, <5>1
        <4> QED
            BY <3>6, <4>1, <4>2
      <3> QED
          BY <3>6, <3>8, <3>9
    <2>3. S = Nat
        BY <2>1, <2>2, Induction
    <2>4. Good(Len(spans))
        BY <1>0, <2>3
    <2>5. SubtractInterval(spans, a, b) = l[Len(spans)]
        BY <1>2 DEF SubtractInterval, l
    <2> QED
        BY <2>4, <2>5 DEF Solid
  <1> QED
      BY <1>1, <1>2

(* What lies apart needs no merging.                                       *)
LEMMA Merged ==
    ASSUME NEW spans, Gapped(spans)
    PROVE  MergeAdjacent(spans) = spans
  <1>0. spans \in Seq(SpanRec) /\ Len(spans) \in Nat
      BY DEF Gapped
  <1> DEFINE j == Joined(spans)
             Good(n) == /\ j[n] \in Seq(SpanRec) /\ Len(j[n]) = n
                        /\ \A i \in 1..n : j[n][i] = spans[i]
             S == {n \in Nat : n <= Len(spans) => Good(n)}
  <1>j. j[0] = <<>> /\ \A i \in 1..Len(spans) : j[i] = Join(j[i - 1], spans[i])
      BY <1>0, JoinedIs
  <1> HIDE DEF j
  <1>1. 0 \in S
    <2>1. <<>> \in Seq(SpanRec) /\ Len(<<>>) = 0 /\ 1..0 = {}
        OBVIOUS
    <2>2. Good(0)
        BY <1>j, <2>1
    <2> QED
        BY <2>2
  <1>2. ASSUME NEW n \in S PROVE n + 1 \in S
    <2> SUFFICES ASSUME n + 1 <= Len(spans) PROVE Good(n + 1)
        OBVIOUS
    <2> DEFINE m == n + 1
    <2>1. n \in Nat /\ m \in 1..Len(spans) /\ m - 1 = n /\ Good(n) /\ spans[m] \in SpanRec
        BY <1>0
    <2>2. j[m] = Join(j[n], spans[m])
        BY <1>j, <2>1
    <2>3. j[m] = Append(j[n], spans[m])
      <3>1. CASE j[n] = <<>>
          BY <2>2, <3>1 DEF Join
      <3>2. CASE j[n] # <<>>
        <4>1. n \in 1..Len(spans) /\ n \in 1..n
            BY <1>0, <2>1, <3>2
        <4>2. Last(j[n]) = spans[n]
            BY <2>1, <4>1 DEF Last
        <4>3. spans[n].hi < spans[m].lo
            BY <2>1, <4>1 DEF Gapped, Apart
        <4>4. spans[n] \in SpanRec
            BY <1>0, <4>1
        <4>5. ~(spans[m].lo <= spans[n].hi)
            BY <2>1, <4>3, <4>4 DEF SpanRec
        <4> QED
            BY <2>2, <4>2, <4>5 DEF Join
      <3> QED
          BY <3>1, <3>2
    <2>4. j[m] \in Seq(SpanRec) /\ Len(j[m]) = m
        BY <2>1, <2>3
    <2>5. ASSUME NEW i \in 1..m PROVE j[m][i] = spans[i]
      <3>1. CASE i = m
          BY <2>1, <2>3, <3>1
      <3>2. CASE i # m
        <4>1. i \in 1..n
            BY <2>1, <3>2
        <4> QED
            BY <2>1, <2>3, <4>1
      <3> QED
          BY <3>1, <3>2
    <2> QED
        BY <2>4, <2>5
  <1>3. S = Nat
      BY <1>1, <1>2, Induction
  <1>4. Good(Len(spans))
      BY <1>0, <1>3
  <1>5. j[Len(spans)] = spans
      BY <1>0, <1>4, SeqEqual
  <1> QED
      BY <1>5 DEF MergeAdjacent, j

-----------------------------------------------------------------------------
(* Fields *)

InStock(spans) ==
    \A i \in 1..Len(spans) : StockBottom <= spans[i].lo /\ spans[i].hi <= StockTop

\* A column that keeps a list of spans has material with a void under it.
Overhang(spans) ==
    /\ Gapped(spans) /\ InStock(spans) /\ spans # <<>>
    /\ Len(spans) = 1 => spans[1].lo > StockBottom

Undercuts == UNION {[D -> Seq(SpanRec)] : D \in SUBSET Cells}
Field ==
    {f \in [top : [Cells -> Int], undercut : Undercuts] :
        /\ \A c \in Cells : f.top[c] <= StockTop
        /\ \A c \in DOMAIN f.undercut :
              Overhang(f.undercut[c]) /\ f.top[c] = Last(f.undercut[c]).hi}

LEMMA FieldIs ==
    ASSUME NEW f \in Field
    PROVE  /\ f = [top |-> f.top, undercut |-> f.undercut]
           /\ f.top \in [Cells -> Int] /\ \A c \in Cells : f.top[c] \in Int /\ f.top[c] <= StockTop
           /\ DOMAIN f.undercut \in SUBSET Cells
           /\ f.undercut \in [DOMAIN f.undercut -> Seq(SpanRec)]
           /\ f.undercut \in Undercuts
           /\ \A c \in DOMAIN f.undercut :
                  Overhang(f.undercut[c]) /\ f.top[c] = Last(f.undercut[c]).hi
  <1>1. f.undercut \in Undercuts
      BY DEF Field
  <1>2. PICK D \in SUBSET Cells : f.undercut \in [D -> Seq(SpanRec)]
      BY <1>1 DEF Undercuts
  <1> QED
      BY <1>1, <1>2 DEF Field

LEMMA FieldMade ==
    ASSUME NEW top \in [Cells -> Int], \A c \in Cells : top[c] <= StockTop,
           NEW D \in SUBSET Cells, NEW u \in [D -> Seq(SpanRec)],
           \A c \in D : Overhang(u[c]) /\ top[c] = Last(u[c]).hi
    PROVE  [top |-> top, undercut |-> u] \in Field
  <1>1. u \in Undercuts /\ DOMAIN u = D
      BY DEF Undercuts
  <1> HIDE DEF Undercuts
  <1> QED
      BY <1>1 DEF Field

LEMMA SpansAre ==
    ASSUME NEW f \in Field, NEW c \in Cells
    PROVE  /\ Gapped(SpansFor(f, c)) /\ InStock(SpansFor(f, c))
           /\ SolidAt(f, c) = Solid(SpansFor(f, c))
  <1>0. StockTop \in Int /\ StockBottom \in Int
      BY DexelAssumption
  <1>1. Gapped(SpansFor(f, c)) /\ InStock(SpansFor(f, c))
    <2>1. CASE c \in DOMAIN f.undercut
      <3>1. Overhang(f.undercut[c])
          BY <2>1, FieldIs
      <3> QED
          BY <2>1, <3>1 DEF SpansFor, Overhang
    <2>2. CASE c \notin DOMAIN f.undercut /\ f.top[c] > StockBottom
      <3> DEFINE s == Span(StockBottom, f.top[c])
      <3>1. f.top[c] \in Int /\ f.top[c] <= StockTop
          BY FieldIs
      <3>2. s \in SpanRec /\ s.lo = StockBottom /\ s.hi = f.top[c]
          BY <1>0, <3>1, SpanIs
      <3>3. SpansFor(f, c) = <<s>>
          BY <2>2 DEF SpansFor
      <3> HIDE DEF s
      <3>4. Gapped(<<s>>) /\ Len(<<s>>) = 1 /\ <<s>>[1] = s
          BY <2>2, <3>2, OneSpan
      <3>5. InStock(<<s>>)
          BY <1>0, <3>1, <3>2, <3>4 DEF InStock
      <3> QED
          BY <3>3, <3>4, <3>5
    <2>3. CASE c \notin DOMAIN f.undercut /\ ~(f.top[c] > StockBottom)
      <3>1. SpansFor(f, c) = <<>>
          BY <2>3 DEF SpansFor
      <3>2. InStock(<<>>)
          BY NoSpans DEF InStock
      <3> QED
          BY <3>1, <3>2, NoSpans
    <2> QED
        BY <2>1, <2>2, <2>3
  <1> DEFINE s == SpansFor(f, c)
  <1> HIDE DEF s
  <1>2. Gapped(s) /\ InStock(s) /\ s \in Seq(SpanRec)
      BY <1>1 DEF s, Gapped
  <1>3. DOMAIN s = 1..Len(s)
      BY <1>2
  <1>4. SolidAt(f, c) = {z \in Slabs : \E i \in 1..Len(s) : s[i].lo <= z /\ z < s[i].hi}
      BY <1>3 DEF SolidAt, s
  <1>5. ASSUME NEW z \in Int, NEW i \in 1..Len(s), s[i].lo <= z, z < s[i].hi
        PROVE  z \in Slabs
    <2>1. s[i].lo \in Int /\ s[i].hi \in Int
        BY <1>2, GappedSpan
    <2>2. StockBottom <= s[i].lo /\ s[i].hi <= StockTop
        BY <1>2 DEF InStock
    <2> QED
        BY <1>0, <1>5, <2>1, <2>2 DEF Slabs
  <1>6. Slabs \subseteq Int
      BY <1>0 DEF Slabs
  <1>7. SolidAt(f, c) = Solid(s)
      BY <1>4, <1>5, <1>6 DEF Solid, SolidTo
  <1> QED
      BY <1>1, <1>7 DEF s

\* Field g is f but for column c.
SameBut(g, f, c) ==
    \A d \in Cells \ {c} : /\ g.top[d] = f.top[d] /\ SpansFor(g, d) = SpansFor(f, d)
                           /\ SolidAt(g, d) = SolidAt(f, d)

LEMMA SameButIs ==
    ASSUME NEW f, NEW g, NEW c,
           \A d \in Cells \ {c} : /\ g.top[d] = f.top[d]
                                  /\ d \in DOMAIN g.undercut <=> d \in DOMAIN f.undercut
                                  /\ d \in DOMAIN f.undercut => g.undercut[d] = f.undercut[d]
    PROVE  SameBut(g, f, c)
  <1>1. \A d \in Cells \ {c} : SpansFor(g, d) = SpansFor(f, d)
      BY DEF SpansFor
  <1>2. \A d \in Cells \ {c} : SolidAt(g, d) = SolidAt(f, d)
    <2> TAKE d \in Cells \ {c}
    <2>1. SpansFor(g, d) = SpansFor(f, d)
        BY <1>1
    <2> QED
        BY <2>1 DEF SolidAt
  <1> QED
      BY <1>1, <1>2 DEF SameBut

(* store_column keeps the field canonical, whatever a cut has left.        *)
LEMMA Stored ==
    ASSUME NEW f \in Field, NEW c \in Cells, NEW spans, Gapped(spans), InStock(spans)
    PROVE  /\ StoreColumn(f, c, spans) \in Field
           /\ SolidAt(StoreColumn(f, c, spans), c) = Solid(spans)
           /\ SameBut(StoreColumn(f, c, spans), f, c)
  <1> DEFINE g == StoreColumn(f, c, spans)
             u == f.undercut
  <1>0. StockTop \in Int /\ StockBottom \in Int /\ StockBottom < StockTop
      BY DexelAssumption
  <1>1. MergeAdjacent(spans) = spans
      BY Merged
  <1>2. spans \in Seq(SpanRec) /\ Len(spans) \in Nat
      BY DEF Gapped
  <1>3. /\ f.top \in [Cells -> Int] /\ \A d \in Cells : f.top[d] <= StockTop
        /\ DOMAIN u \in SUBSET Cells /\ u \in [DOMAIN u -> Seq(SpanRec)]
        /\ \A d \in DOMAIN u : Overhang(u[d]) /\ f.top[d] = Last(u[d]).hi
      BY FieldIs
  <1> HIDE DEF u
  <1>4. /\ DOMAIN Without(u, c) = DOMAIN u \ {c}
        /\ \A d \in DOMAIN u \ {c} : Without(u, c)[d] = u[d]
        /\ Without(u, c) \in [DOMAIN u \ {c} -> Seq(SpanRec)]
      BY <1>3 DEF Without
  <1>5. ASSUME NEW t \in Int, t <= StockTop,
               g = [top |-> [f.top EXCEPT ![c] = t], undercut |-> Without(u, c)]
        PROVE  g \in Field /\ SameBut(g, f, c) /\ g.top[c] = t /\ c \notin DOMAIN g.undercut
    <2> DEFINE top == [f.top EXCEPT ![c] = t]
    <2>1. top \in [Cells -> Int] /\ top[c] = t /\ \A d \in Cells \ {c} : top[d] = f.top[d]
        BY <1>3
    <2> HIDE DEF top, g
    <2>2. g.top = top /\ g.undercut = Without(u, c)
        BY <1>5 DEF top
    <2>3. \A d \in Cells : top[d] <= StockTop
        BY <1>3, <1>5, <2>1
    <2>4. \A d \in DOMAIN u \ {c} :
              Overhang(Without(u, c)[d]) /\ top[d] = Last(Without(u, c)[d]).hi
        BY <1>3, <1>4, <2>1
    <2>5. [top |-> top, undercut |-> Without(u, c)] \in Field
        BY <1>3, <1>4, <2>1, <2>3, <2>4, FieldMade
    <2>6. SameBut(g, f, c)
        BY <1>4, <2>1, <2>2, SameButIs DEF u
    <2> QED
        BY <1>4, <1>5, <2>1, <2>2, <2>5, <2>6 DEF top
  <1>6. CASE spans = <<>>
    <2>1. g = [top |-> [f.top EXCEPT ![c] = StockBottom], undercut |-> Without(u, c)]
        BY <1>1, <1>6 DEF StoreColumn, Canonical, u
    <2>2. /\ g \in Field /\ SameBut(g, f, c) /\ g.top[c] = StockBottom
          /\ c \notin DOMAIN g.undercut
        BY <1>0, <1>5, <2>1
    <2> HIDE DEF g
    <2>3. SpansFor(g, c) = <<>>
        BY <1>0, <2>2 DEF SpansFor
    <2> QED
        BY <1>6, <2>2, <2>3, SpansAre DEF g
  <1>7. CASE spans # <<>> /\ Len(spans) = 1 /\ spans[1].lo <= StockBottom
    <2>1. spans[1] \in SpanRec /\ spans[1].lo \in Int /\ spans[1].hi \in Int
          /\ spans[1].lo < spans[1].hi
        BY <1>7, GappedSpan
    <2>2. spans[1].lo = StockBottom /\ spans[1].hi <= StockTop
        BY <1>0, <1>7, <2>1 DEF InStock
    <2>3. g = [top |-> [f.top EXCEPT ![c] = spans[1].hi], undercut |-> Without(u, c)]
        BY <1>1, <1>7 DEF StoreColumn, Canonical, u
    <2>4. /\ g \in Field /\ SameBut(g, f, c) /\ g.top[c] = spans[1].hi
          /\ c \notin DOMAIN g.undercut
        BY <1>5, <2>1, <2>2, <2>3
    <2> HIDE DEF g
    <2>5. SpansFor(g, c) = <<Span(StockBottom, spans[1].hi)>>
        BY <2>1, <2>2, <2>4 DEF SpansFor
    <2>6. Span(StockBottom, spans[1].hi) = spans[1]
        BY <2>1, <2>2 DEF Span, SpanRec
    <2>7. spans = <<spans[1]>>
        BY <1>2, <1>7
    <2> QED
        BY <2>4, <2>5, <2>6, <2>7, SpansAre DEF g
  <1>8. CASE spans # <<>> /\ ~(Len(spans) = 1 /\ spans[1].lo <= StockBottom)
    <2> DEFINE top == [f.top EXCEPT ![c] = Last(spans).hi]
               w == With(u, c, spans)
    <2>1. g = [top |-> top, undercut |-> w]
        BY <1>1, <1>8 DEF StoreColumn, Canonical, u
    <2>2. Len(spans) \in 1..Len(spans) /\ Last(spans) = spans[Len(spans)]
        BY <1>2, <1>8 DEF Last
    <2>3. Last(spans).hi \in Int /\ Last(spans).hi <= StockTop
        BY <2>2, GappedSpan DEF InStock
    <2>4. Overhang(spans)
      <3>1. Len(spans) = 1 => spans[1].lo \in Int
          BY GappedSpan
      <3> QED
          BY <1>0, <1>8, <3>1 DEF Overhang
    <2>5. /\ top \in [Cells -> Int] /\ top[c] = Last(spans).hi
          /\ \A d \in Cells \ {c} : top[d] = f.top[d]
        BY <1>3, <2>3
    <2>6. /\ DOMAIN w = DOMAIN u \cup {c} /\ w[c] = spans
          /\ \A d \in DOMAIN u \ {c} : w[d] = u[d]
          /\ w \in [DOMAIN u \cup {c} -> Seq(SpanRec)]
        BY <1>2, <1>3 DEF With
    <2> HIDE DEF top, w, g
    <2>7. \A d \in Cells : top[d] <= StockTop
        BY <1>3, <2>3, <2>5
    <2>8. \A d \in DOMAIN u \cup {c} : Overhang(w[d]) /\ top[d] = Last(w[d]).hi
        BY <1>3, <2>4, <2>5, <2>6
    <2>9. DOMAIN u \cup {c} \in SUBSET Cells
        BY <1>3
    <2>10. [top |-> top, undercut |-> w] \in Field
        BY <2>5, <2>6, <2>7, <2>8, <2>9, FieldMade
    <2>11. g.top = top /\ g.undercut = w
        BY <2>1
    <2>12. SameBut(g, f, c)
        BY <2>5, <2>6, <2>11, SameButIs DEF u
    <2>13. SpansFor(g, c) = spans
        BY <2>6, <2>11 DEF SpansFor
    <2> QED
        BY <2>1, <2>10, <2>12, <2>13, SpansAre DEF g
  <1> QED
      BY <1>6, <1>7, <1>8

LEMMA PlainColumn ==
    ASSUME NEW f \in Field, NEW c \in Cells, c \notin DOMAIN f.undercut
    PROVE  SolidAt(f, c) = StockBottom..f.top[c] - 1
  <1>0. StockTop \in Int /\ StockBottom \in Int /\ f.top[c] \in Int
      BY DexelAssumption, FieldIs
  <1>1. SolidAt(f, c) = Solid(SpansFor(f, c))
      BY SpansAre
  <1>2. CASE f.top[c] > StockBottom
    <2> DEFINE s == Span(StockBottom, f.top[c])
    <2>1. s \in SpanRec /\ s.lo = StockBottom /\ s.hi = f.top[c]
        BY <1>0, SpanIs
    <2>2. SpansFor(f, c) = <<s>>
        BY <1>2 DEF SpansFor
    <2> HIDE DEF s
    <2> QED
        BY <1>0, <1>1, <1>2, <2>1, <2>2, OneSpan
  <1>3. CASE ~(f.top[c] > StockBottom)
    <2>1. SpansFor(f, c) = <<>>
        BY <1>3 DEF SpansFor
    <2>2. StockBottom..f.top[c] - 1 = {}
        BY <1>0, <1>3
    <2> QED
        BY <1>1, <2>1, <2>2, NoSpans
  <1> QED
      BY <1>2, <1>3

(* carve_cell removes the interval from its column and nothing else.       *)
LEMMA CarveCellIs ==
    ASSUME NEW f \in Field, NEW c \in Cells, NEW lo \in Int, NEW hi \in Int
    PROVE  /\ CarveCell(f, c, lo, hi) \in Field
           /\ SolidAt(CarveCell(f, c, lo, hi), c) = SolidAt(f, c) \ (lo..hi - 1)
           /\ SameBut(CarveCell(f, c, lo, hi), f, c)
           /\ ~Dirties(f, c, lo, hi) => CarveCell(f, c, lo, hi).top[c] = f.top[c]
  <1> DEFINE g == CarveCell(f, c, lo, hi)
  <1>0. StockTop \in Int /\ StockBottom \in Int /\ f.top[c] \in Int /\ f.top[c] <= StockTop
      BY DexelAssumption, FieldIs
  <1>1. CASE OnlyLowersTop(f, c, hi)
    <2> DEFINE t == IF lo < f.top[c] THEN lo ELSE f.top[c]
               top == [f.top EXCEPT ![c] = t]
    <2>1. t \in Int /\ t <= StockTop
        BY <1>0
    <2>2. g = [top |-> top, undercut |-> f.undercut]
      <3>1. f = [top |-> f.top, undercut |-> f.undercut] /\ f.top \in [Cells -> Int]
          BY FieldIs
      <3>2. g = [f EXCEPT !.top = top]
          BY <1>1 DEF CarveCell
      <3> QED
          BY <3>1, <3>2
    <2>3. top \in [Cells -> Int] /\ top[c] = t /\ \A d \in Cells \ {c} : top[d] = f.top[d]
        BY <2>1, FieldIs
    <2> HIDE DEF top
    <2>4. g.top = top /\ g.undercut = f.undercut
        BY <2>2
    <2>5. c \notin DOMAIN f.undercut /\ hi >= f.top[c]
        BY <1>1 DEF OnlyLowersTop
    <2>6. \A d \in Cells : top[d] <= StockTop
        BY <2>1, <2>3, FieldIs
    <2>7. \A d \in DOMAIN f.undercut : Overhang(f.undercut[d]) /\ top[d] = Last(f.undercut[d]).hi
        BY <2>3, <2>5, FieldIs
    <2>8. [top |-> top, undercut |-> f.undercut] \in Field
        BY <2>3, <2>6, <2>7, FieldIs, FieldMade
    <2>9. g \in Field
        BY <2>2, <2>8
    <2>10. SameBut(g, f, c)
        BY <2>3, <2>4, SameButIs
    <2>11. SolidAt(f, c) = StockBottom..f.top[c] - 1
        BY <2>5, PlainColumn
    <2>12. SolidAt(g, c) = StockBottom..t - 1
        BY <2>3, <2>4, <2>5, <2>9, PlainColumn
    <2>13. StockBottom..t - 1 = (StockBottom..f.top[c] - 1) \ (lo..hi - 1)
        BY <1>0, <2>5
    <2>14. ~Dirties(f, c, lo, hi) => t = f.top[c]
        BY <1>0 DEF Dirties
    <2> QED
        BY <2>3, <2>4, <2>9, <2>10, <2>11, <2>12, <2>13, <2>14
  <1>2. CASE ~OnlyLowersTop(f, c, hi)
    <2> DEFINE s == SpansFor(f, c)
               r == SubtractInterval(s, lo, hi)
    <2>1. Gapped(s) /\ InStock(s) /\ SolidAt(f, c) = Solid(s)
        BY SpansAre
    <2> HIDE DEF s
    <2>2. Gapped(r) /\ Solid(r) = Solid(s) \ (lo..hi - 1) /\ Fits(r, s, Len(s))
        BY <2>1, Subtracted
    <2> HIDE DEF r
    <2>3. InStock(r)
      <3> SUFFICES ASSUME NEW k \in 1..Len(r)
                   PROVE  StockBottom <= r[k].lo /\ r[k].hi <= StockTop
          BY DEF InStock
      <3>1. PICK i \in 1..Len(s) : s[i].lo <= r[k].lo /\ r[k].hi <= s[i].hi
          BY <2>2 DEF Fits
      <3>2. s[i].lo \in Int /\ s[i].hi \in Int /\ r[k].lo \in Int /\ r[k].hi \in Int
          BY <2>1, <2>2, GappedSpan
      <3>3. StockBottom <= s[i].lo /\ s[i].hi <= StockTop
          BY <2>1 DEF InStock
      <3> QED
          BY <1>0, <3>1, <3>2, <3>3
    <2>4. g = StoreColumn(f, c, r)
        BY <1>2 DEF CarveCell, r, s
    <2>5. g \in Field /\ SolidAt(g, c) = Solid(r) /\ SameBut(g, f, c)
        BY <2>2, <2>3, <2>4, Stored
    <2>6. Dirties(f, c, lo, hi)
        BY <1>2 DEF Dirties
    <2> QED
        BY <2>1, <2>2, <2>5, <2>6
  <1> QED
      BY <1>1, <1>2

(* The uncut field.                                                        *)
LEMMA UncutIs ==
    /\ UncutField \in Field
    /\ \A c \in Cells : UncutField.top[c] = StockTop /\ SolidAt(UncutField, c) = Slabs
  <1>0. StockTop \in Int /\ StockBottom \in Int
      BY DexelAssumption
  <1> DEFINE top == [c \in Cells |-> StockTop]
             E == {}
  <1>1. top \in [Cells -> Int] /\ (\A c \in Cells : top[c] <= StockTop) /\ <<>> \in [E -> Seq(SpanRec)]
        /\ E \in SUBSET Cells /\ DOMAIN <<>> = E
      BY <1>0
  <1>2. UncutField = [top |-> top, undercut |-> <<>>]
      BY DEF UncutField
  <1> HIDE DEF top
  <1>3. \A c \in E : Overhang(<<>>[c]) /\ top[c] = Last(<<>>[c]).hi
      OBVIOUS
  <1>4. UncutField \in Field
    <2> HIDE DEF E
    <2> QED
        BY <1>1, <1>2, <1>3, FieldMade
  <1>5. ASSUME NEW c \in Cells PROVE UncutField.top[c] = StockTop /\ SolidAt(UncutField, c) = Slabs
    <2>1. UncutField.top[c] = StockTop /\ c \notin DOMAIN UncutField.undercut
        BY <1>1, <1>2 DEF top
    <2> QED
        BY <1>4, <2>1, PlainColumn DEF Slabs
  <1> QED
      BY <1>4, <1>5

(* The top of a column is the surface of its material, and a list of spans  *)
(* is kept exactly for a material with a void.                             *)
LEMMA GreatestIs ==
    ASSUME NEW S \in SUBSET Int, NEW m \in S, \A x \in S : x <= m
    PROVE  Max(S) = m
  <1>1. \A x \in S : m >= x
      OBVIOUS
  <1>2. \A y \in S : (\A x \in S : y >= x) => y = m
      OBVIOUS
  <1> QED
      BY <1>1, <1>2 DEF Max

LEMMA ColumnShows ==
    ASSUME NEW f \in Field, NEW c \in Cells
    PROVE  /\ Max({StockBottom, f.top[c]}) = Surface(SolidAt(f, c))
           /\ c \in DOMAIN f.undercut <=> HasVoid(SolidAt(f, c))
  <1> DEFINE M == SolidAt(f, c)
             t == f.top[c]
  <1>0. StockTop \in Int /\ StockBottom \in Int /\ StockBottom < StockTop /\ t \in Int
      BY DexelAssumption, FieldIs
  <1> HIDE DEF t
  <1>1. CASE c \notin DOMAIN f.undercut /\ t > StockBottom
    <2>1. M = StockBottom..t - 1
        BY <1>1, PlainColumn DEF t
    <2> HIDE DEF M
    <2>2. M # {} /\ Max(M) = t - 1
      <3>1. t - 1 \in M /\ M \in SUBSET Int /\ \A x \in M : x <= t - 1
          BY <1>0, <1>1, <2>1
      <3> QED
          BY <3>1, GreatestIs
    <2>3. Surface(M) = t
        BY <1>0, <2>2 DEF Surface
    <2>4. Max({StockBottom, t}) = t
        BY <1>0, <1>1, GreatestIs
    <2>5. ~HasVoid(M)
        BY <2>1, <2>3 DEF HasVoid
    <2> QED
        BY <1>1, <2>3, <2>4, <2>5 DEF t, M
  <1>2. CASE c \notin DOMAIN f.undercut /\ ~(t > StockBottom)
    <2>1. M = {}
        BY <1>0, <1>2, PlainColumn DEF t
    <2> HIDE DEF M
    <2>2. Surface(M) = StockBottom
        BY <2>1 DEF Surface
    <2>3. Max({StockBottom, t}) = StockBottom
        BY <1>0, <1>2, GreatestIs
    <2>4. ~HasVoid(M)
        BY <1>0, <2>1, <2>2 DEF HasVoid
    <2> QED
        BY <1>2, <2>2, <2>3, <2>4 DEF t, M
  <1>3. CASE c \in DOMAIN f.undercut
    <2> DEFINE u == f.undercut[c]
               n == Len(u)
    <2>1. Overhang(u) /\ t = Last(u).hi
        BY <1>3, FieldIs DEF t
    <2>2. M = Solid(u)
        BY <1>3, SpansAre DEF SpansFor
    <2> HIDE DEF M, u
    <2>3. Gapped(u) /\ InStock(u) /\ u # <<>> /\ u \in Seq(SpanRec) /\ n \in Nat \ {0}
        BY <2>1 DEF Overhang, Gapped
    <2>4. n \in 1..n /\ 1 \in 1..n /\ Last(u) = u[n]
        BY <2>3 DEF Last
    <2>5. \A i \in 1..n : /\ u[i].lo \in Int /\ u[i].hi \in Int /\ u[i].lo < u[i].hi
                          /\ StockBottom <= u[i].lo
        BY <2>3, GappedSpan DEF InStock
    <2>6. \A i \in 1..n : i < n => u[i].hi < u[n].lo
        BY <2>3, <2>4 DEF Gapped, Apart
    <2>7. \A i \in 1..n : u[i].hi <= t
      <3> TAKE i \in 1..n
      <3>1. u[n].hi = t
          BY <2>1, <2>4
      <3>2. CASE i < n
          BY <2>4, <2>5, <2>6, <3>1, <3>2
      <3>3. CASE i = n
          BY <1>0, <3>1, <3>3
      <3> QED
          BY <2>3, <3>2, <3>3
    <2>8. M \in SUBSET Int /\ \A z \in M : z <= t - 1
        BY <1>0, <2>2, <2>5, <2>7 DEF Solid, SolidTo
    <2>9. t - 1 \in M /\ StockBottom < t
      <3>1. u[n].hi = t /\ u[n].lo <= t - 1 /\ t - 1 < u[n].hi /\ StockBottom < t
          BY <1>0, <2>1, <2>4, <2>5
      <3> QED
          BY <1>0, <2>2, <2>4, <3>1 DEF Solid, SolidTo
    <2>10. Surface(M) = t
      <3>1. Max(M) = t - 1
          BY <1>0, <2>8, <2>9, GreatestIs
      <3> QED
          BY <1>0, <2>9, <3>1 DEF Surface
    <2>11. Max({StockBottom, t}) = t
        BY <1>0, <2>9, GreatestIs
    <2>12. \E z \in StockBottom..t - 1 : z \notin M
      <3>1. CASE u[1].lo > StockBottom
        <4>1. StockBottom \in StockBottom..t - 1
            BY <1>0, <2>9
        <4>2. \A i \in 1..n : u[i].lo > StockBottom
          <5> TAKE i \in 1..n
          <5>1. CASE i = 1
              BY <3>1, <5>1
          <5>2. CASE i > 1
            <6>1. u[1].hi < u[i].lo
                BY <2>3, <2>4, <5>2 DEF Gapped, Apart
            <6> QED
                BY <1>0, <2>4, <2>5, <3>1, <6>1
          <5> QED
              BY <5>1, <5>2
        <4>3. StockBottom \notin M
            BY <1>0, <2>2, <2>5, <4>2 DEF Solid, SolidTo
        <4> QED
            BY <4>1, <4>3
      <3>2. CASE ~(u[1].lo > StockBottom)
        <4>1. 1 < n /\ 1 \in 1..n
          <5>1. Len(u) = 1 => u[1].lo > StockBottom
              BY <2>1 DEF Overhang
          <5>2. n # 1
              BY <3>2, <5>1
          <5>3. \A k \in Nat \ {0} : k # 1 => 1 < k /\ 1 \in 1..k
              OBVIOUS
          <5>4. n \in Nat \ {0}
              BY <2>3
          <5> HIDE DEF n
          <5> QED
              BY <5>2, <5>3, <5>4
        <4> DEFINE z == u[1].hi
        <4>2. z < u[n].lo /\ u[n].lo < u[n].hi /\ u[n].hi = t
            BY <2>1, <2>4, <2>5, <2>6, <4>1
        <4>3. z \in Int /\ u[1].lo < z /\ u[n].lo \in Int /\ StockBottom <= u[1].lo /\ u[1].lo \in Int
            BY <2>5, <4>1
        <4>4. z \in StockBottom..t - 1
            BY <1>0, <4>2, <4>3
        <4>5. \A i \in 1..n : ~(u[i].lo <= z /\ z < u[i].hi)
          <5> TAKE i \in 1..n
          <5>1. CASE i = 1
              BY <4>3, <5>1
          <5>2. CASE i > 1
            <6>1. z < u[i].lo
                BY <2>3, <2>4, <5>2 DEF Gapped, Apart
            <6> QED
                BY <2>5, <4>3, <6>1
          <5> QED
              BY <5>1, <5>2
        <4> HIDE DEF z
        <4>6. z \notin M
            BY <2>2, <4>5 DEF Solid, SolidTo
        <4> QED
            BY <4>4, <4>6
      <3> QED
          BY <3>1, <3>2
    <2>13. HasVoid(M)
        BY <2>10, <2>12 DEF HasVoid
    <2> QED
        BY <1>3, <2>10, <2>11, <2>13 DEF t, M
  <1> QED
      BY <1>1, <1>2, <1>3

-----------------------------------------------------------------------------
(* Programs and places *)

CutRec == [cells : SUBSET Cells, lo : Int, hi : Int]
CheckRec == [cells : SUBSET Cells, z : Int]

LEMMA ProgramIs ==
    ASSUME NEW p \in DOMAIN Programs
    PROVE  /\ Length(p) \in Nat \ {0}
           /\ \A i \in 0..Length(p) - 1 :
                  /\ Segment(p, i).tool \in Nat /\ Segment(p, i).check \in CheckRec
                  /\ Segment(p, i).halves[1] \in CutRec /\ Segment(p, i).halves[2] \in CutRec
  <1> DEFINE SegRec == [tool : Nat, check : CheckRec, halves : [1..2 -> CutRec]]
  <1>1. Programs \in Seq(Seq(SegRec)) /\ Programs[p] # <<>>
      BY PlaybackAssumption DEF CutRec, CheckRec
  <1>2. Programs[p] \in Seq(SegRec)
      BY <1>1
  <1>3. Length(p) \in Nat \ {0} /\ Length(p) = Len(Programs[p])
      BY <1>1, <1>2 DEF Length
  <1>4. \A i \in 0..Length(p) - 1 : Segment(p, i) \in SegRec
    <2> TAKE i \in 0..Length(p) - 1
    <2>1. i + 1 \in 1..Len(Programs[p])
        BY <1>3
    <2> HIDE DEF SegRec
    <2>2. Programs[p][i + 1] \in SegRec
        BY <1>2, <2>1
    <2> QED
        BY <2>2 DEF Segment
  <1>5. \A i \in 0..Length(p) - 1 : /\ Segment(p, i).tool \in Nat /\ Segment(p, i).check \in CheckRec
                                    /\ Segment(p, i).halves \in [1..2 -> CutRec]
    <2> TAKE i \in 0..Length(p) - 1
    <2> DEFINE s == Segment(p, i)
    <2>1. s \in SegRec
        BY <1>4
    <2> HIDE DEF s
    <2> QED
        BY <2>1 DEF s
  <1>6. 1 \in 1..2 /\ 2 \in 1..2
      OBVIOUS
  <1> HIDE DEF SegRec
  <1> QED
      BY <1>3, <1>5, <1>6

LEMMA DoneIs ==
    ASSUME NEW i \in Nat, NEW t
    PROVE  Done(<<i, t>>) = {k \in (0..i) \X (1..2) : k[1] < i \/ k[2] <= t}
  BY DEF Done

LEMMA DoneStart == Done(Start) = {}
  <1>1. \A k \in (0..0) \X (1..2) : ~(k[1] < 0 \/ k[2] <= 0)
      OBVIOUS
  <1> QED
      BY <1>1, DoneIs DEF Start

\* One half more, and the two names of a boundary.
LEMMA DoneNext ==
    ASSUME NEW i \in Nat
    PROVE  /\ Done(<<i, 1>>) = Done(<<i, 0>>) \cup {<<i, 1>>}
           /\ Done(<<i, 2>>) = Done(<<i, 1>>) \cup {<<i, 2>>}
           /\ Done(<<i + 1, 0>>) = Done(<<i, 2>>)
  <1> DEFINE K == (0..i) \X (1..2)
             L == (0..(i + 1)) \X (1..2)
  <1>1. <<i, 1>> \in K /\ <<i, 2>> \in K
      OBVIOUS
  <1>2. \A k \in K : /\ k = <<k[1], k[2]>> /\ k[1] \in 0..i /\ k[2] \in 1..2 /\ k \in L
      OBVIOUS
  <1>3. \A k \in K : /\ k[1] < i \/ k[2] <= 1 <=> (k[1] < i \/ k[2] <= 0) \/ k = <<i, 1>>
                     /\ k[1] < i \/ k[2] <= 2 <=> (k[1] < i \/ k[2] <= 1) \/ k = <<i, 2>>
                     /\ (k[1] < i \/ k[2] <= 2) /\ k[1] < i + 1
      BY <1>2
  <1>4. \A k \in L : k[1] < i + 1 \/ k[2] <= 0 => k \in K
      OBVIOUS
  <1>5. /\ Done(<<i, 0>>) = {k \in K : k[1] < i \/ k[2] <= 0}
        /\ Done(<<i, 1>>) = {k \in K : k[1] < i \/ k[2] <= 1}
        /\ Done(<<i, 2>>) = {k \in K : k[1] < i \/ k[2] <= 2}
        /\ Done(<<i + 1, 0>>) = {k \in L : k[1] < i + 1 \/ k[2] <= 0}
      BY DoneIs
  <1> HIDE DEF K, L
  <1> QED
      BY <1>1, <1>2, <1>3, <1>4, <1>5

LEMMA DoneGrows ==
    ASSUME NEW x \in Nat \X (0..2), NEW y \in Nat \X (0..2), Earlier(x, y)
    PROVE  Done(x) \subseteq Done(y)
  <1>1. ASSUME NEW k \in Done(x) PROVE k \in Done(y)
    <2>1. k \in (0..x[1]) \X (1..2) /\ (k[1] < x[1] \/ k[2] <= x[2])
        BY DEF Done
    <2>2. x[1] \in Nat /\ x[2] \in 0..2 /\ y[1] \in Nat /\ y[2] \in 0..2
        OBVIOUS
    <2>3. k[1] \in 0..x[1] /\ k[2] \in 1..2 /\ k = <<k[1], k[2]>>
        BY <2>1
    <2>4. x[1] < y[1] \/ (x[1] = y[1] /\ x[2] < y[2])
        BY DEF Earlier
    <2>5. k[1] \in 0..y[1] /\ (k[1] < y[1] \/ k[2] <= y[2])
        BY <2>1, <2>2, <2>3, <2>4
    <2>6. k \in (0..y[1]) \X (1..2)
        BY <2>3, <2>5
    <2> QED
        BY <2>5, <2>6 DEF Done
  <1> QED
      BY <1>1

\* What a cut takes of a column.
Takes(cut, c) == IF c \in cut.cells THEN cut.lo..cut.hi - 1 ELSE {}

LEMMA RemovedMore ==
    ASSUME NEW p, NEW c, NEW x, NEW y, NEW k, Done(y) = Done(x) \cup {k}
    PROVE  Remaining(p, y, c) = Remaining(p, x, c) \ Takes(Segment(p, k[1]).halves[k[2]], c)
  <1> DEFINE T(j) == Takes(Segment(p, j[1]).halves[j[2]], c)
  <1>1. Removed(p, x, c) = UNION {T(j) : j \in Done(x)}
      BY DEF Removed, Takes
  <1>2. Removed(p, y, c) = UNION {T(j) : j \in Done(y)}
      BY DEF Removed, Takes
  <1> HIDE DEF T
  <1>3. Removed(p, y, c) = Removed(p, x, c) \cup T(k)
      BY <1>1, <1>2
  <1>4. Remaining(p, y, c) = Remaining(p, x, c) \ T(k)
      BY <1>3 DEF Remaining
  <1> QED
      BY <1>4 DEF T

LEMMA RemainingIs ==
    ASSUME NEW p, NEW c, NEW i \in Nat
    PROVE  /\ Remaining(p, Start, c) = Slabs
           /\ Remaining(p, <<i, 1>>, c) = Remaining(p, <<i, 0>>, c) \ Takes(Segment(p, i).halves[1], c)
           /\ Remaining(p, <<i, 2>>, c) = Remaining(p, <<i, 1>>, c) \ Takes(Segment(p, i).halves[2], c)
           /\ Remaining(p, <<i + 1, 0>>, c) = Remaining(p, <<i, 2>>, c)
  <1>1. Remaining(p, Start, c) = Slabs
      BY DoneStart DEF Remaining, Removed
  <1>3. /\ Remaining(p, <<i, 1>>, c) = Remaining(p, <<i, 0>>, c) \ Takes(Segment(p, i).halves[1], c)
        /\ Remaining(p, <<i, 2>>, c) = Remaining(p, <<i, 1>>, c) \ Takes(Segment(p, i).halves[2], c)
    <2>2. Done(<<i, 1>>) = Done(<<i, 0>>) \cup {<<i, 1>>}
        BY DoneNext, Zenon
    <2>3. Done(<<i, 2>>) = Done(<<i, 1>>) \cup {<<i, 2>>}
        BY DoneNext, Zenon
    <2> DEFINE a == <<i, 0>>
               b == <<i, 1>>
               d == <<i, 2>>
    <2>4. /\ Done(b) = Done(a) \cup {b} /\ Done(d) = Done(b) \cup {d}
          /\ b[1] = i /\ b[2] = 1 /\ d[1] = i /\ d[2] = 2
        BY <2>2, <2>3
    <2> HIDE DEF a, b, d
    <2>5. Remaining(p, b, c) = Remaining(p, a, c) \ Takes(Segment(p, b[1]).halves[b[2]], c)
        BY <2>4, RemovedMore
    <2>6. Remaining(p, d, c) = Remaining(p, b, c) \ Takes(Segment(p, d[1]).halves[d[2]], c)
        BY <2>4, RemovedMore
    <2>7. /\ Remaining(p, b, c) = Remaining(p, a, c) \ Takes(Segment(p, i).halves[1], c)
          /\ Remaining(p, d, c) = Remaining(p, b, c) \ Takes(Segment(p, i).halves[2], c)
        BY <2>4, <2>5, <2>6
    <2> QED
        BY <2>7 DEF a, b, d
  <1>4. Remaining(p, <<i + 1, 0>>, c) = Remaining(p, <<i, 2>>, c)
      BY DoneNext DEF Remaining, Removed
  <1> QED
      BY <1>1, <1>3, <1>4

\* The warning segment i deserves, on the material it meets.
Due(p, i) ==
    IF \E c \in Segment(p, i).check.cells :
           Surface(Remaining(p, <<i, 0>>, c)) > Segment(p, i).check.z
    THEN {<<p, i>>} ELSE {}

LEMMA EarnedIs ==
    ASSUME NEW p \in DOMAIN Programs, NEW i \in 0..Length(p) - 1
    PROVE  /\ Earned(p, Start) = {}
           /\ Earned(p, <<i, 1>>) = Earned(p, <<i, 0>>) \cup Due(p, i)
           /\ Earned(p, <<i, 2>>) = Earned(p, <<i, 1>>)
           /\ Earned(p, <<i + 1, 0>>) = Earned(p, <<i, 2>>)
  <1> DEFINE N == 0..Length(p) - 1
             W(j) == \E c \in Segment(p, j).check.cells :
                         Surface(Remaining(p, <<j, 0>>, c)) > Segment(p, j).check.z
  <1>1. \A at : Earned(p, at) = {<<p, j>> : j \in {n \in N : <<n, 1>> \in Done(at) /\ W(n)}}
      BY DEF Earned
  <1>2. Due(p, i) = IF W(i) THEN {<<p, i>>} ELSE {}
      BY DEF Due
  <1>3. i \in Nat /\ i \in N
      BY ProgramIs
  <1> HIDE DEF W, N
  <1>4. Earned(p, Start) = {}
      BY <1>1, DoneStart
  <1>5. \A n \in N : <<n, 1>> \in Done(<<i, 1>>) <=> <<n, 1>> \in Done(<<i, 0>>) \/ n = i
    <2>1. \A n \in N : <<n, 1>> = <<i, 1>> <=> n = i
        OBVIOUS
    <2> QED
        BY <1>3, <2>1, DoneNext, Zenon
  <1>6. \A n \in N : <<n, 1>> \in Done(<<i, 2>>) <=> <<n, 1>> \in Done(<<i, 1>>)
    <2>1. \A n \in N : <<n, 1>> # <<i, 2>>
        OBVIOUS
    <2> QED
        BY <1>3, <2>1, DoneNext, Zenon
  <1>7. Done(<<i + 1, 0>>) = Done(<<i, 2>>)
      BY <1>3, DoneNext
  <1>8. Earned(p, <<i, 1>>) = Earned(p, <<i, 0>>) \cup Due(p, i)
    <2>1. {n \in N : <<n, 1>> \in Done(<<i, 1>>) /\ W(n)}
            = {n \in N : <<n, 1>> \in Done(<<i, 0>>) /\ W(n)} \cup (IF W(i) THEN {i} ELSE {})
        BY <1>3, <1>5
    <2> DEFINE A == {n \in N : <<n, 1>> \in Done(<<i, 0>>) /\ W(n)}
               B == {n \in N : <<n, 1>> \in Done(<<i, 1>>) /\ W(n)}
    <2>2. Earned(p, <<i, 1>>) = {<<p, j>> : j \in B} /\ Earned(p, <<i, 0>>) = {<<p, j>> : j \in A}
        BY <1>1
    <2>3. B = A \cup (IF W(i) THEN {i} ELSE {})
        BY <2>1
    <2> HIDE DEF A, B
    <2>4. CASE W(i)
        BY <1>2, <2>2, <2>3, <2>4
    <2>5. CASE ~W(i)
        BY <1>2, <2>2, <2>3, <2>5
    <2> QED
        BY <2>4, <2>5
  <1>9. Earned(p, <<i, 2>>) = Earned(p, <<i, 1>>)
    <2>1. {n \in N : <<n, 1>> \in Done(<<i, 2>>) /\ W(n)}
            = {n \in N : <<n, 1>> \in Done(<<i, 1>>) /\ W(n)}
        BY <1>6
    <2> QED
        BY <1>1, <2>1
  <1> QED
      BY <1>1, <1>4, <1>7, <1>8, <1>9

-----------------------------------------------------------------------------
(* The simulator *)

Holds(f, p, at) == \A c \in Cells : SolidAt(f, c) = Remaining(p, at, c)

SimRec(f, p, l, d, ca, ch) ==
    [field |-> f, toolpath |-> p, last |-> l, dirty |-> d, cache |-> ca, checkpoints |-> ch]
IsSim(s) ==
    /\ s = SimRec(s.field, s.toolpath, s.last, s.dirty, s.cache, s.checkpoints)
    /\ s.field \in Field /\ s.toolpath \in DOMAIN Programs /\ s.dirty \in SUBSET Cells
    /\ \A n \in DOMAIN s.checkpoints : n \in Nat /\ s.checkpoints[n] \in Field

\* Simulator r has carved where s had not, and marked what it carved.
Carries(s, r) ==
    /\ IsSim(r) /\ r.toolpath = s.toolpath /\ r.last = s.last
    /\ r.cache = s.cache /\ r.checkpoints = s.checkpoints
    /\ s.dirty \subseteq r.dirty
    /\ \A c \in Cells : r.field.top[c] # s.field.top[c] => c \in r.dirty

\* Sets of columns have a first and a last one.
LEMMA Bounds ==
    ASSUME NEW T \in SUBSET Cells, T # {}
    PROVE  Min(T) \in T /\ Max(T) \in T /\ \A c \in T : Min(T) <= c /\ c <= Max(T)
  <1>0. Columns \in Nat /\ T \in SUBSET Nat /\ \A c \in T : c \in Nat /\ c <= Columns
      BY DexelAssumption DEF Cells
  <1>1. PICK l \in T : \A y \in T : l <= y
      BY <1>0, Least
  <1> DEFINE U == {n \in Nat : \E c \in T : n = Columns - c}
  <1>2. U # {}
    <2>1. PICK c \in T : TRUE
        OBVIOUS
    <2>2. Columns - c \in U
        BY <1>0, <2>1
    <2> QED
        BY <2>2
  <1>3. PICK u \in U : \A y \in U : u <= y
      BY <1>2, Least
  <1>4. PICK m \in T : u = Columns - m
      BY <1>3
  <1>5. ASSUME NEW c \in T PROVE c <= m
    <2>1. Columns - c \in U
        BY <1>0
    <2>2. u <= Columns - c
        BY <1>3, <2>1
    <2> QED
        BY <1>0, <1>4, <2>2
  <1>6. Min(T) \in T /\ \A y \in T : Min(T) <= y
      BY <1>1 DEF Min
  <1>7. \A y \in T : m >= y
      BY <1>0, <1>5
  <1>8. Max(T) \in T /\ \A y \in T : Max(T) >= y
      BY <1>7 DEF Max
  <1> QED
      BY <1>0, <1>6, <1>8

LEMMA HullIs ==
    ASSUME NEW T \in SUBSET Cells
    PROVE  T \subseteq Hull(T) /\ Hull(T) \in SUBSET Cells
  <1>1. CASE T = {}
      BY <1>1 DEF Hull
  <1>2. CASE T # {}
    <2>1. Min(T) \in Cells /\ Max(T) \in Cells /\ \A c \in T : c \in Cells /\ Min(T) <= c /\ c <= Max(T)
        BY <1>2, Bounds
    <2>2. Hull(T) = Min(T)..Max(T)
        BY <1>2 DEF Hull
    <2> QED
        BY <2>1, <2>2, DexelAssumption DEF Cells
  <1> QED
      BY <1>1, <1>2

LEMMA CarveAtIs ==
    ASSUME NEW s, IsSim(s), NEW c \in Cells, NEW cut \in CutRec
    PROVE  /\ Carries(s, CarveAt(s, c, cut))
           /\ SolidAt(CarveAt(s, c, cut).field, c) = SolidAt(s.field, c) \ Takes(cut, c)
           /\ \A d \in Cells \ {c} : SolidAt(CarveAt(s, c, cut).field, d) = SolidAt(s.field, d)
  <1> DEFINE r == CarveAt(s, c, cut)
             g == CarveCell(s.field, c, cut.lo, cut.hi)
             D == IF Dirties(s.field, c, cut.lo, cut.hi) THEN Hull(s.dirty \cup {c}) ELSE s.dirty
  <1>1. CASE c \notin cut.cells
    <2>1. r = s /\ Takes(cut, c) = {}
        BY <1>1 DEF CarveAt, Takes
    <2> QED
        BY <2>1 DEF Carries
  <1>2. CASE c \in cut.cells
    <2>1. r = [s EXCEPT !.field = g, !.dirty = D]
        BY <1>2 DEF CarveAt
    <2>2. Takes(cut, c) = cut.lo..cut.hi - 1
        BY <1>2 DEF Takes
    <2>3. /\ g \in Field /\ SolidAt(g, c) = SolidAt(s.field, c) \ (cut.lo..cut.hi - 1)
          /\ SameBut(g, s.field, c)
          /\ ~Dirties(s.field, c, cut.lo, cut.hi) => g.top[c] = s.field.top[c]
      <3>1. s.field \in Field /\ cut.lo \in Int /\ cut.hi \in Int
          BY DEF IsSim, CutRec
      <3> QED
          BY <3>1, CarveCellIs
    <2>4. s.dirty \cup {c} \in SUBSET Cells
        BY DEF IsSim
    <2>5. /\ D \in SUBSET Cells /\ s.dirty \subseteq D
          /\ Dirties(s.field, c, cut.lo, cut.hi) => c \in D
        BY <2>4, HullIs
    <2> HIDE DEF g, D, r
    <2>6. /\ r.field = g /\ r.dirty = D /\ r.toolpath = s.toolpath /\ r.last = s.last
          /\ r.cache = s.cache /\ r.checkpoints = s.checkpoints
          /\ r = SimRec(r.field, r.toolpath, r.last, r.dirty, r.cache, r.checkpoints)
        BY <2>1 DEF IsSim, SimRec
    <2>7. IsSim(r)
        BY <2>3, <2>5, <2>6 DEF IsSim
    <2>8. \A d \in Cells : g.top[d] # s.field.top[d] => d \in D
        BY <2>3, <2>5 DEF SameBut
    <2> QED
        BY <2>2, <2>3, <2>5, <2>6, <2>7, <2>8 DEF Carries, SameBut, r
  <1> QED
      BY <1>1, <1>2

LEMMA CarvedIs ==
    ASSUME NEW s, NEW cut
    PROVE  /\ Carved(s, cut)[0] = s
           /\ \A c \in 1..Columns : Carved(s, cut)[c] = CarveAt(Carved(s, cut)[c - 1], c, cut)
  <1> DEFINE Upto(k, g) == g = [c \in 0..k |-> IF c = 0 THEN s ELSE CarveAt(g[c - 1], c, cut)]
             S == {k \in Nat : \E g : Upto(k, g)}
  <1>1. 0 \in S
    <2>1. Upto(0, [c \in 0..0 |-> s])
        OBVIOUS
    <2> QED
        BY <2>1
  <1>2. ASSUME NEW n \in S PROVE n + 1 \in S
    <2>1. PICK g : Upto(n, g)
        OBVIOUS
    <2> DEFINE h == [c \in 0..(n + 1) |-> IF c = n + 1 THEN CarveAt(g[n], n + 1, cut) ELSE g[c]]
    <2>2. ASSUME NEW c \in 0..(n + 1)
          PROVE  h[c] = IF c = 0 THEN s ELSE CarveAt(h[c - 1], c, cut)
      <3>1. CASE c = n + 1
          BY <3>1
      <3>2. CASE c # n + 1
        <4>1. c \in 0..n /\ h[c] = g[c] /\ (c # 0 => c - 1 \in 0..n /\ h[c - 1] = g[c - 1])
            BY <3>2
        <4> QED
            BY <2>1, <4>1
      <3> QED
          BY <3>1, <3>2
    <2>3. Upto(n + 1, h)
        BY <2>2
    <2> HIDE DEF h
    <2>4. \E f : Upto(n + 1, f)
        BY <2>3
    <2> HIDE DEF Upto
    <2> QED
        BY <2>4
  <1>3. S = Nat
      BY <1>1, <1>2, Induction
  <1>4. \E g : Upto(Columns, g)
      BY <1>3, DexelAssumption
  <1>5. Upto(Columns, Carved(s, cut))
      BY <1>4 DEF Carved
  <1> QED
      BY <1>5, DexelAssumption

(* A cut takes its interval from the columns it names and marks the region. *)
LEMMA CarveIs ==
    ASSUME NEW s, IsSim(s), NEW cut \in CutRec
    PROVE  /\ Carries(s, Carve(s, cut))
           /\ \A c \in Cells : SolidAt(Carve(s, cut).field, c) = SolidAt(s.field, c) \ Takes(cut, c)
  <1> DEFINE r == Carved(s, cut)
             Good(n) ==
                /\ Carries(s, r[n])
                /\ \A c \in Cells :
                      SolidAt(r[n].field, c) = IF c <= n THEN SolidAt(s.field, c) \ Takes(cut, c)
                                               ELSE SolidAt(s.field, c)
             S == {n \in Nat : n <= Columns => Good(n)}
  <1>0. Columns \in Nat /\ Cells = 1..Columns
      BY DexelAssumption DEF Cells
  <1>r. r[0] = s /\ \A c \in 1..Columns : r[c] = CarveAt(r[c - 1], c, cut)
      BY CarvedIs
  <1> HIDE DEF r
  <1>1. 0 \in S
    <2>1. Carries(s, s)
        BY DEF Carries
    <2>2. \A c \in Cells : ~(c <= 0)
        BY <1>0
    <2> QED
        BY <1>r, <2>1, <2>2
  <1>2. ASSUME NEW n \in S PROVE n + 1 \in S
    <2> DEFINE m == n + 1
    <2> HIDE DEF Good
    <2> SUFFICES ASSUME m <= Columns PROVE Good(m)
        OBVIOUS
    <2>1. n \in Nat /\ m \in Cells /\ m - 1 = n /\ Good(n)
        BY <1>0
    <2> USE DEF Good
    <2>2. r[m] = CarveAt(r[n], m, cut)
        BY <1>0, <1>r, <2>1
    <2>3. IsSim(r[n])
        BY <2>1 DEF Carries
    <2>4. /\ Carries(r[n], r[m])
          /\ SolidAt(r[m].field, m) = SolidAt(r[n].field, m) \ Takes(cut, m)
          /\ \A d \in Cells \ {m} : SolidAt(r[m].field, d) = SolidAt(r[n].field, d)
        BY <2>1, <2>2, <2>3, CarveAtIs
    <2>5. Carries(s, r[m])
        BY <2>1, <2>4 DEF Carries
    <2>6. \A c \in Cells : (c # m => (c <= n <=> c <= m)) /\ m <= m /\ ~(m <= n)
        BY <1>0, <2>1
    <2>7. ASSUME NEW c \in Cells
          PROVE  SolidAt(r[m].field, c) = IF c <= m THEN SolidAt(s.field, c) \ Takes(cut, c)
                                          ELSE SolidAt(s.field, c)
      <3>1. CASE c = m
          BY <2>1, <2>4, <2>6, <3>1
      <3>2. CASE c # m
          BY <2>1, <2>4, <2>6, <3>2
      <3> QED
          BY <3>1, <3>2
    <2> QED
        BY <2>5, <2>7
  <1>3. S = Nat
      BY <1>1, <1>2, Induction
  <1>4. Good(Columns)
    <2> HIDE DEF Good
    <2> QED
        BY <1>0, <1>3
  <1>5. \A c \in Cells : c <= Columns
      BY <1>0
  <1> QED
      BY <1>4, <1>5 DEF Carve, r

-----------------------------------------------------------------------------
(* Sweeps *)

\* No check lies below the stock, and a program has one tool: what the
\* warnings need to be those of the place reached.
ChecksAboveBottom ==
    \A p \in DOMAIN Programs : \A i \in 0..Length(p) - 1 : Segment(p, i).check.z >= StockBottom
OneToolEach ==
    \A p \in DOMAIN Programs : \A i, j \in 0..Length(p) - 1 : Segment(p, i).tool = Segment(p, j).tool
Telling == ChecksAboveBottom /\ OneToolEach

CacheTrue(s) == \A i \in DOMAIN s.cache : s.cache[i] = Due(s.toolpath, i)

\* What is left of a simulator when it takes notes.
LEMMA Noted ==
    ASSUME NEW s, IsSim(s), NEW l, NEW ca
    PROVE  /\ IsSim([s EXCEPT !.last = l, !.cache = ca])
           /\ [s EXCEPT !.last = l, !.cache = ca] =
                 SimRec(s.field, s.toolpath, l, s.dirty, ca, s.checkpoints)
           /\ [s EXCEPT !.last = l] = SimRec(s.field, s.toolpath, l, s.dirty, s.cache, s.checkpoints)
           /\ IsSim([s EXCEPT !.last = l])
           /\ Fresh(s) = SimRec(s.field, s.toolpath, {}, {}, s.cache, s.checkpoints)
           /\ IsSim(Fresh(s))
  <1> DEFINE A == SimRec(s.field, s.toolpath, l, s.dirty, s.cache, s.checkpoints)
             E == SimRec(s.field, s.toolpath, {}, s.dirty, s.cache, s.checkpoints)
  <1>1. s = SimRec(s.field, s.toolpath, s.last, s.dirty, s.cache, s.checkpoints)
      BY DEF IsSim
  <1>2. [s EXCEPT !.last = l] = A
      BY <1>1 DEF SimRec
  <1>3. [s EXCEPT !.last = l, !.cache = ca] =
            SimRec(s.field, s.toolpath, l, s.dirty, ca, s.checkpoints)
    <2>1. [s EXCEPT !.last = l, !.cache = ca] = [[s EXCEPT !.last = l] EXCEPT !.cache = ca]
        OBVIOUS
    <2>2. [A EXCEPT !.cache = ca] = SimRec(s.field, s.toolpath, l, s.dirty, ca, s.checkpoints)
        BY DEF SimRec
    <2> HIDE DEF A
    <2> QED
        BY <1>2, <2>1, <2>2
  <1>4. Fresh(s) = SimRec(s.field, s.toolpath, {}, {}, s.cache, s.checkpoints)
    <2>1. Fresh(s) = [[s EXCEPT !.last = {}] EXCEPT !.dirty = {}]
        BY DEF Fresh
    <2>2. [s EXCEPT !.last = {}] = E
        BY <1>1 DEF SimRec
    <2>3. [E EXCEPT !.dirty = {}] = SimRec(s.field, s.toolpath, {}, {}, s.cache, s.checkpoints)
        BY DEF SimRec
    <2> HIDE DEF E
    <2> QED
        BY <2>1, <2>2, <2>3
  <1>5. \A m, e, cb : e \in SUBSET Cells =>
            IsSim(SimRec(s.field, s.toolpath, m, e, cb, s.checkpoints))
      BY DEF IsSim, SimRec
  <1>6. {} \in SUBSET Cells /\ s.dirty \in SUBSET Cells
      BY DEF IsSim
  <1> HIDE DEF A, E
  <1> QED
      BY <1>2, <1>3, <1>4, <1>5, <1>6 DEF A

LEMMA SimRecIs ==
    ASSUME NEW f, NEW p, NEW l, NEW d, NEW ca, NEW ch
    PROVE  LET r == SimRec(f, p, l, d, ca, ch)
           IN /\ r.field = f /\ r.toolpath = p /\ r.last = l /\ r.dirty = d
              /\ r.cache = ca /\ r.checkpoints = ch
  BY DEF SimRec

(* On the material a segment meets, its check warns exactly when it should. *)
LEMMA WarnsIs ==
    ASSUME NEW s, IsSim(s), NEW i \in 0..Length(s.toolpath) - 1,
           Holds(s.field, s.toolpath, <<i, 0>>), ChecksAboveBottom
    PROVE  Warns(s, i) = Due(s.toolpath, i)
  <1> DEFINE p == s.toolpath
             check == Segment(p, i).check
  <1>1. p \in DOMAIN Programs /\ s.field \in Field
      BY DEF IsSim
  <1>2. check \in CheckRec /\ check.z >= StockBottom
      BY <1>1, ProgramIs DEF ChecksAboveBottom
  <1>3. check.cells \in SUBSET Cells /\ check.z \in Int
      BY <1>2 DEF CheckRec
  <1>4. ASSUME NEW c \in check.cells
        PROVE  s.field.top[c] > check.z <=> Surface(Remaining(p, <<i, 0>>, c)) > check.z
    <2> DEFINE t == s.field.top[c]
    <2>1. c \in Cells /\ StockBottom \in Int /\ t \in Int
        BY <1>1, <1>3, FieldIs, DexelAssumption
    <2>2. Max({StockBottom, t}) = Surface(Remaining(p, <<i, 0>>, c))
        BY <1>1, <2>1, ColumnShows DEF Holds
    <2> HIDE DEF t, check
    <2>3. CASE t <= StockBottom
      <3>1. Max({StockBottom, t}) = StockBottom
          BY <2>1, <2>3, GreatestIs
      <3> QED
          BY <1>2, <1>3, <2>1, <2>2, <2>3, <3>1 DEF t
    <2>4. CASE ~(t <= StockBottom)
      <3>1. Max({StockBottom, t}) = t
          BY <2>1, <2>4, GreatestIs
      <3> QED
          BY <2>2, <3>1 DEF t
    <2> QED
        BY <2>3, <2>4
  <1> QED
      BY <1>4 DEF Warns, Due

(* One half of a segment.                                                  *)
LEMMA HalfIs ==
    ASSUME NEW s, IsSim(s), NEW i \in 0..Length(s.toolpath) - 1
    PROVE  LET p == s.toolpath
               a == Carve(s, Segment(p, i).halves[1])
               b == Carve(s, Segment(p, i).halves[2])
           IN /\ Carries(s, a) /\ Carries(s, b)
              /\ Holds(s.field, p, <<i, 0>>) => Holds(a.field, p, <<i, 1>>)
              /\ Holds(s.field, p, <<i, 1>>) => Holds(b.field, p, <<i, 2>>)
  <1> DEFINE p == s.toolpath
             h == Segment(p, i).halves
             a == Carve(s, h[1])
             b == Carve(s, h[2])
  <1>1. h[1] \in CutRec /\ h[2] \in CutRec /\ i \in Nat
      BY ProgramIs DEF IsSim
  <1>2. /\ Carries(s, a) /\ Carries(s, b)
        /\ \A c \in Cells : SolidAt(a.field, c) = SolidAt(s.field, c) \ Takes(h[1], c)
        /\ \A c \in Cells : SolidAt(b.field, c) = SolidAt(s.field, c) \ Takes(h[2], c)
      BY <1>1, CarveIs
  <1>3. \A c : /\ Remaining(p, <<i, 1>>, c) = Remaining(p, <<i, 0>>, c) \ Takes(h[1], c)
               /\ Remaining(p, <<i, 2>>, c) = Remaining(p, <<i, 1>>, c) \ Takes(h[2], c)
      BY <1>1, RemainingIs
  <1> HIDE DEF a, b, h, p
  <1>4. Holds(s.field, p, <<i, 0>>) => Holds(a.field, p, <<i, 1>>)
      BY <1>2, <1>3 DEF Holds
  <1>5. Holds(s.field, p, <<i, 1>>) => Holds(b.field, p, <<i, 2>>)
      BY <1>2, <1>3 DEF Holds
  <1> QED
      BY <1>2, <1>4, <1>5 DEF a, b, h, p

LEMMA BothHalves ==
    ASSUME NEW s, IsSim(s), NEW i \in 0..Length(s.toolpath) - 1
    PROVE  LET p == s.toolpath
               h == Segment(p, i).halves
               r == Carve(Carve(s, h[1]), h[2])
           IN /\ Carries(s, r)
              /\ Holds(s.field, p, <<i, 0>>) => Holds(r.field, p, <<i, 2>>)
  <1> DEFINE p == s.toolpath
             h == Segment(p, i).halves
             a == Carve(s, h[1])
             r == Carve(a, h[2])
  <1>1. Carries(s, a) /\ (Holds(s.field, p, <<i, 0>>) => Holds(a.field, p, <<i, 1>>))
      BY HalfIs
  <1> HIDE DEF a
  <1>2. IsSim(a) /\ a.toolpath = p
      BY <1>1 DEF Carries
  <1>3. Carries(a, r) /\ (Holds(a.field, p, <<i, 1>>) => Holds(r.field, p, <<i, 2>>))
      BY <1>2, HalfIs
  <1> HIDE DEF r
  <1>4. Carries(s, r)
      BY <1>1, <1>3 DEF Carries
  <1> QED
      BY <1>1, <1>3, <1>4 DEF r, a

\* Simulator r has carved since s, and marked what it carved since.
Advances(s, r) ==
    /\ IsSim(r) /\ r.toolpath = s.toolpath /\ r.checkpoints = s.checkpoints
    /\ \A c \in Cells : r.field.top[c] # s.field.top[c] => c \in r.dirty

(* sweep_range_cached_dexel.                                               *)
LEMMA SweepIs ==
    ASSUME NEW s, IsSim(s), NEW i \in 0..Length(s.toolpath) - 1
    PROVE  LET p == s.toolpath
               r == SweepSegment(s, i)
           IN /\ Advances(s, r) /\ s.dirty \subseteq r.dirty
              /\ Holds(s.field, p, <<i, 0>>) => Holds(r.field, p, <<i, 2>>)
              /\ ChecksAboveBottom /\ Holds(s.field, p, <<i, 0>>) /\ CacheTrue(s)
                     => CacheTrue(r) /\ r.last = s.last \cup Due(p, i)
  <1> DEFINE p == s.toolpath
             found == IF i \in DOMAIN s.cache THEN s.cache[i] ELSE Warns(s, i)
             ca == With(s.cache, i, found)
             l == s.last \cup found
             noted == [s EXCEPT !.last = l, !.cache = ca]
             h == Segment(p, i).halves
             r == Carve(Carve(noted, h[1]), h[2])
  <1>1. SweepSegment(s, i) = r
    <2>1. [s EXCEPT !.last = @ \cup found, !.cache = With(@, i, found)] = noted
        BY DEF IsSim, SimRec
    <2> QED
        BY <2>1 DEF SweepSegment
  <1> HIDE DEF r, ca, l, found
  <1>2. IsSim(noted) /\ noted = SimRec(s.field, p, l, s.dirty, ca, s.checkpoints)
      BY Noted
  <1>3. /\ noted.field = s.field /\ noted.toolpath = p /\ noted.last = l /\ noted.dirty = s.dirty
        /\ noted.cache = ca /\ noted.checkpoints = s.checkpoints
      BY <1>2, SimRecIs
  <1> HIDE DEF noted
  <1> USE DEF r
  <1>4. Carries(noted, r) /\ (Holds(s.field, p, <<i, 0>>) => Holds(r.field, p, <<i, 2>>))
    <2>1. noted.toolpath = s.toolpath
        BY <1>3
    <2> QED
        BY <1>2, <1>3, <2>1, BothHalves
  <1> HIDE DEF r
  <1>5. Advances(s, r) /\ s.dirty \subseteq r.dirty /\ r.toolpath = p /\ r.cache = ca /\ r.last = l
      BY <1>3, <1>4 DEF Carries, Advances
  <1>6. ASSUME ChecksAboveBottom, Holds(s.field, p, <<i, 0>>), CacheTrue(s)
        PROVE  CacheTrue(r) /\ r.last = s.last \cup Due(p, i)
    <2>1. found = Due(p, i)
      <3>1. CASE i \in DOMAIN s.cache
          BY <1>6, <3>1 DEF found, CacheTrue
      <3>2. CASE i \notin DOMAIN s.cache
          BY <1>6, <3>2, WarnsIs DEF found
      <3> QED
          BY <3>1, <3>2
    <2>2. DOMAIN ca = DOMAIN s.cache \cup {i} /\ \A j \in DOMAIN ca : ca[j] = IF j = i THEN found ELSE s.cache[j]
        BY DEF ca, With
    <2>3. CacheTrue(r)
        BY <1>5, <1>6, <2>1, <2>2 DEF CacheTrue
    <2> QED
        BY <1>5, <2>1, <2>3 DEF l
  <1> QED
      BY <1>1, <1>4, <1>5, <1>6

(* partial_advance.                                                        *)
LEMMA PartialIs ==
    ASSUME NEW s, IsSim(s), NEW i \in 0..Length(s.toolpath) - 1,
           NEW from \in 0..1, NEW to \in 1..2, from < to
    PROVE  LET p == s.toolpath
               r == PartialAdvance(s, i, from, to)
           IN /\ Advances(s, r) /\ r.cache = s.cache
              /\ Holds(s.field, p, <<i, from>>) => Holds(r.field, p, <<i, to>>)
              /\ ChecksAboveBottom /\ Holds(s.field, p, <<i, from>>)
                     => r.last = IF from = 0 THEN Due(p, i) ELSE {}
  <1> DEFINE p == s.toolpath
             fresh == Fresh(s)
             w == Warns(s, i)
             begun == IF from = 0 THEN [fresh EXCEPT !.last = w] ELSE fresh
             h == Segment(p, i).halves
             half == IF from = 0 THEN Carve(begun, h[1]) ELSE begun
             r == IF to = 2 THEN Carve(half, h[2]) ELSE half
  <1>1. PartialAdvance(s, i, from, to) = r
      BY DEF PartialAdvance
  <1>2. /\ fresh = SimRec(s.field, p, {}, {}, s.cache, s.checkpoints)
        /\ IsSim(fresh)
      BY Noted DEF IsSim
  <1>3. /\ fresh.field = s.field /\ fresh.toolpath = p /\ fresh.last = {}
        /\ fresh.cache = s.cache /\ fresh.checkpoints = s.checkpoints
      BY <1>2, SimRecIs
  <1> HIDE DEF fresh, w
  <1>4. /\ IsSim([fresh EXCEPT !.last = w])
        /\ [fresh EXCEPT !.last = w] = SimRec(s.field, p, w, fresh.dirty, s.cache, s.checkpoints)
    <2>1. /\ IsSim([fresh EXCEPT !.last = w])
          /\ [fresh EXCEPT !.last = w] = SimRec(fresh.field, fresh.toolpath, w, fresh.dirty,
                                               fresh.cache, fresh.checkpoints)
        BY <1>2, Noted
    <2> QED
        BY <1>3, <2>1
  <1>5. /\ IsSim(begun) /\ begun.field = s.field /\ begun.toolpath = p
        /\ begun.last = IF from = 0 THEN w ELSE {}
        /\ begun.cache = s.cache /\ begun.checkpoints = s.checkpoints
    <2>1. CASE from = 0
      <3>1. begun = [fresh EXCEPT !.last = w]
          BY <2>1
      <3> HIDE DEF begun
      <3>2. IsSim(begun) /\ begun = SimRec(s.field, p, w, fresh.dirty, s.cache, s.checkpoints)
          BY <1>4, <3>1
      <3> QED
          BY <2>1, <3>2, SimRecIs
    <2>2. CASE from # 0
        BY <1>2, <1>3, <2>2
    <2> QED
        BY <2>1, <2>2
  <1> HIDE DEF begun
  <1>6. /\ Carries(begun, half)
        /\ Holds(s.field, p, <<i, from>>) => Holds(half.field, p, <<i, 1>>)
    <2>1. CASE from = 0
      <3>1. half = Carve(begun, h[1]) /\ begun.toolpath = s.toolpath
          BY <1>5, <2>1
      <3> QED
          BY <1>5, <2>1, <3>1, HalfIs
    <2>2. CASE from # 0
      <3>1. half = begun /\ from = 1
          BY <2>2
      <3> QED
          BY <1>5, <3>1 DEF Carries
    <2> QED
        BY <2>1, <2>2
  <1> HIDE DEF half
  <1>7. IsSim(half) /\ half.toolpath = p
      BY <1>5, <1>6 DEF Carries
  <1>8. /\ Carries(begun, r)
        /\ Holds(half.field, p, <<i, 1>>) => Holds(r.field, p, <<i, to>>)
    <2>1. CASE to = 2
      <3>1. r = Carve(half, h[2]) /\ half.toolpath = s.toolpath
          BY <1>7, <2>1
      <3>2. /\ Carries(half, r)
            /\ Holds(half.field, p, <<i, 1>>) => Holds(r.field, p, <<i, 2>>)
          BY <1>7, <3>1, HalfIs
      <3> HIDE DEF r
      <3> QED
          BY <1>6, <2>1, <3>2 DEF Carries
    <2>2. CASE to # 2
      <3>1. r = half /\ to = 1
          BY <2>2
      <3> QED
          BY <1>6, <3>1
    <2> QED
        BY <2>1, <2>2
  <1> HIDE DEF r
  <1>9. Advances(s, r) /\ r.cache = s.cache /\ r.last = IF from = 0 THEN w ELSE {}
      BY <1>5, <1>8 DEF Carries, Advances
  <1>10. ASSUME ChecksAboveBottom, Holds(s.field, p, <<i, from>>), from = 0 PROVE w = Due(p, i)
      BY <1>10, WarnsIs DEF w
  <1> QED
      BY <1>1, <1>6, <1>8, <1>9, <1>10

-----------------------------------------------------------------------------
(* What advanceTo carries along *)

IsX(x) ==
    /\ x = [sim |-> x.sim, warned |-> x.warned, region |-> x.region]
    /\ IsSim(x.sim) /\ x.region \in SUBSET Cells

\* From x on to y the program is carved, and its region covers what changed.
Moves(x, y) ==
    /\ IsX(y) /\ y.sim.toolpath = x.sim.toolpath /\ y.sim.checkpoints = x.sim.checkpoints
    /\ x.region \subseteq y.region
    /\ \A c \in Cells : y.sim.field.top[c] # x.sim.field.top[c] => c \in y.region

\* The driver knows the warnings of the place the material stands at.
Tells(x, p, at) ==
    Telling /\ Holds(x.sim.field, p, at) /\ CacheTrue(x.sim) /\ x.warned = Earned(p, at)

Reaches(x, y, at, to) ==
    LET p == x.sim.toolpath
    IN /\ Moves(x, y)
       /\ Holds(x.sim.field, p, at) => Holds(y.sim.field, p, to)
       /\ Tells(x, p, at) => Tells(y, p, to)

LEMMA ReachesOn ==
    ASSUME NEW x, NEW y, NEW z, NEW a, NEW b, NEW d, Reaches(x, y, a, b), Reaches(y, z, b, d)
    PROVE  Reaches(x, z, a, d)
  <1>1. Moves(x, y) /\ Moves(y, z) /\ y.sim.toolpath = x.sim.toolpath
      BY DEF Reaches, Moves
  <1>2. Moves(x, z)
      BY <1>1 DEF Moves
  <1> QED
      BY <1>1, <1>2 DEF Reaches

LEMMA ReachesSame ==
    ASSUME NEW x, IsX(x), NEW a
    PROVE  Reaches(x, x, a, a)
  BY DEF Reaches, Moves

\* The two names of the place between two segments.
LEMMA ReachesBoundary ==
    ASSUME NEW x, IsX(x), NEW i \in 0..Length(x.sim.toolpath) - 1
    PROVE  Reaches(x, x, <<i, 2>>, <<i + 1, 0>>)
  <1> DEFINE p == x.sim.toolpath
  <1>1. p \in DOMAIN Programs
      BY DEF IsX, IsSim
  <1>2. i \in Nat
      BY <1>1, ProgramIs
  <1>3. \A c : Remaining(p, <<i + 1, 0>>, c) = Remaining(p, <<i, 2>>, c)
      BY <1>2, RemainingIs
  <1>4. Earned(p, <<i + 1, 0>>) = Earned(p, <<i, 2>>)
      BY <1>1, EarnedIs
  <1>5. Holds(x.sim.field, p, <<i, 2>>) => Holds(x.sim.field, p, <<i + 1, 0>>)
      BY <1>3 DEF Holds
  <1> QED
      BY <1>4, <1>5 DEF Reaches, Moves, Tells

LEMMA CarriedIs ==
    ASSUME NEW x, IsX(x), NEW r, Advances(x.sim, r)
    PROVE  /\ Moves(x, Carried(x, r)) /\ Carried(x, r).sim = r /\ Carried(x, r).warned = x.warned
  <1> DEFINE y == Carried(x, r)
             R == x.region \cup r.dirty
  <1>1. R \in SUBSET Cells /\ IsSim(r)
      BY DEF IsX, Advances, IsSim
  <1>2. R \subseteq Hull(R) /\ Hull(R) \in SUBSET Cells
      BY <1>1, HullIs
  <1>3. y = [sim |-> r, warned |-> x.warned, region |-> Hull(R)]
    <2> DEFINE H == Hull(R)
               z == [sim |-> r, warned |-> x.warned, region |-> x.region]
    <2>1. y = [x EXCEPT !.sim = r, !.region = Hull(@ \cup r.dirty)]
        BY DEF Carried
    <2>2. [x EXCEPT !.sim = r, !.region = Hull(@ \cup r.dirty)] = [x EXCEPT !.sim = r, !.region = H]
        BY DEF IsX
    <2> HIDE DEF H
    <2>3. [x EXCEPT !.sim = r, !.region = H] = [[x EXCEPT !.sim = r] EXCEPT !.region = H]
        OBVIOUS
    <2>4. [x EXCEPT !.sim = r] = z
        BY DEF IsX
    <2>5. [z EXCEPT !.region = H] = [sim |-> r, warned |-> x.warned, region |-> H]
        OBVIOUS
    <2> HIDE DEF z
    <2>6. y = [sim |-> r, warned |-> x.warned, region |-> H]
        BY <2>1, <2>2, <2>3, <2>4, <2>5
    <2> QED
        BY <2>6 DEF H
  <1>4. y.sim = r /\ y.warned = x.warned /\ y.region = Hull(R)
      BY <1>3
  <1> HIDE DEF y
  <1>5. IsX(y)
      BY <1>1, <1>2, <1>3, <1>4 DEF IsX
  <1>6. \A c \in Cells : y.sim.field.top[c] # x.sim.field.top[c] => c \in y.region
      BY <1>2, <1>4 DEF Advances
  <1> QED
      BY <1>2, <1>4, <1>5, <1>6 DEF Moves, Advances, y

LEMMA CollectedIs ==
    ASSUME NEW x, IsX(x)
    PROVE  LET y == CollectDiagnostics(x)
           IN /\ Moves(x, y) /\ y.warned = x.warned \cup x.sim.last
              /\ y.sim.field = x.sim.field /\ y.sim.cache = x.sim.cache
  <1> DEFINE y == CollectDiagnostics(x)
             t == [x.sim EXCEPT !.last = {}]
             W == x.warned \cup x.sim.last
  <1>1. IsSim(x.sim)
      BY DEF IsX
  <1>2. IsSim(t) /\ t = SimRec(x.sim.field, x.sim.toolpath, {}, x.sim.dirty, x.sim.cache, x.sim.checkpoints)
      BY <1>1, Noted DEF IsSim
  <1>3. /\ t.field = x.sim.field /\ t.toolpath = x.sim.toolpath
        /\ t.cache = x.sim.cache /\ t.checkpoints = x.sim.checkpoints
      BY <1>2, SimRecIs
  <1>4. y = [sim |-> t, warned |-> W, region |-> x.region]
    <2> DEFINE z == [sim |-> x.sim, warned |-> W, region |-> x.region]
    <2>1. x = [sim |-> x.sim, warned |-> x.warned, region |-> x.region]
        BY DEF IsX
    <2>2. y = [x EXCEPT !.warned = @ \cup x.sim.last, !.sim.last = {}]
        BY DEF CollectDiagnostics
    <2>3. y = [[x EXCEPT !.warned = W] EXCEPT !.sim = t]
        BY <2>1, <2>2
    <2> HIDE DEF W, t, y
    <2>4. [x EXCEPT !.warned = W] = z
        BY <2>1
    <2>5. [z EXCEPT !.sim = t] = [sim |-> t, warned |-> W, region |-> x.region]
        OBVIOUS
    <2> HIDE DEF z
    <2> QED
        BY <2>3, <2>4, <2>5
  <1> HIDE DEF y, t, W
  <1>5. y.sim = t /\ y.warned = W /\ y.region = x.region
      BY <1>4
  <1>6. IsX(y)
      BY <1>2, <1>4, <1>5 DEF IsX
  <1> QED
      BY <1>3, <1>5, <1>6 DEF Moves, y, W

\* Moving on and noting the warnings is moving on.
LEMMA CarriedAndCollected ==
    ASSUME NEW x, IsX(x), NEW r, Advances(x.sim, r)
    PROVE  LET y == CollectDiagnostics(Carried(x, r))
           IN /\ Moves(x, y) /\ y.warned = x.warned \cup r.last
              /\ y.sim.field = r.field /\ y.sim.cache = r.cache
  <1> DEFINE z == Carried(x, r)
             y == CollectDiagnostics(z)
  <1>1. Moves(x, z) /\ z.sim = r /\ z.warned = x.warned
      BY CarriedIs
  <1> HIDE DEF z
  <1>2. /\ Moves(z, y) /\ y.warned = z.warned \cup z.sim.last
        /\ y.sim.field = z.sim.field /\ y.sim.cache = z.sim.cache
      BY <1>1, CollectedIs DEF Moves
  <1> HIDE DEF y
  <1>3. Moves(x, y)
      BY <1>1, <1>2 DEF Moves
  <1> QED
      BY <1>1, <1>2, <1>3 DEF y, z

(* One piece of a segment, from half to half.                              *)
LEMMA PieceIs ==
    ASSUME NEW x, IsX(x), NEW i \in 0..Length(x.sim.toolpath) - 1,
           NEW from \in 0..1, NEW to \in 1..2, from < to
    PROVE  Reaches(x, CollectDiagnostics(Carried(x, PartialAdvance(x.sim, i, from, to))),
                   <<i, from>>, <<i, to>>)
  <1> DEFINE p == x.sim.toolpath
             r == PartialAdvance(x.sim, i, from, to)
             y == CollectDiagnostics(Carried(x, r))
  <1>1. p \in DOMAIN Programs /\ IsSim(x.sim)
      BY DEF IsX, IsSim
  <1>2. /\ Advances(x.sim, r) /\ r.cache = x.sim.cache
        /\ Holds(x.sim.field, p, <<i, from>>) => Holds(r.field, p, <<i, to>>)
        /\ ChecksAboveBottom /\ Holds(x.sim.field, p, <<i, from>>)
               => r.last = IF from = 0 THEN Due(p, i) ELSE {}
      BY <1>1, PartialIs
  <1> HIDE DEF r
  <1>3. /\ Moves(x, y) /\ y.warned = x.warned \cup r.last
        /\ y.sim.field = r.field /\ y.sim.cache = r.cache
      BY <1>2, CarriedAndCollected
  <1> HIDE DEF y
  <1>4. ASSUME Tells(x, p, <<i, from>>) PROVE Tells(y, p, <<i, to>>)
    <2>1. /\ x.warned = Earned(p, <<i, from>>)
          /\ r.last = IF from = 0 THEN Due(p, i) ELSE {}
          /\ Holds(y.sim.field, p, <<i, to>>)
        BY <1>2, <1>3, <1>4 DEF Tells, Telling
    <2>2. /\ Earned(p, <<i, 1>>) = Earned(p, <<i, 0>>) \cup Due(p, i)
          /\ Earned(p, <<i, 2>>) = Earned(p, <<i, 1>>)
        BY <1>1, EarnedIs
    <2>3. (from = 0 /\ to = 1) \/ (from = 0 /\ to = 2) \/ (from = 1 /\ to = 2)
        OBVIOUS
    <2>4. y.warned = Earned(p, <<i, to>>)
        BY <1>3, <2>1, <2>2, <2>3
    <2>5. y.sim.toolpath = p
        BY <1>3 DEF Moves
    <2>6. CacheTrue(y.sim)
        BY <1>2, <1>3, <1>4, <2>5 DEF CacheTrue, Tells
    <2> QED
        BY <1>4, <2>1, <2>4, <2>6 DEF Tells
  <1> QED
      BY <1>2, <1>3, <1>4 DEF Reaches, y, r

-----------------------------------------------------------------------------
(* The bulk: whole segments *)

LEMMA SegmentIs ==
    ASSUME NEW x, IsX(x), NEW i \in 0..Length(x.sim.toolpath) - 1, NEW from
    PROVE  LET p == x.sim.toolpath
               y == SimAdvance(x, from, i)
               l == IF StartsRun(p, from, i) THEN {} ELSE x.sim.last
           IN /\ Moves(x, y) /\ y.warned = x.warned
              /\ Holds(x.sim.field, p, <<i, 0>>) => Holds(y.sim.field, p, <<i + 1, 0>>)
              /\ ChecksAboveBottom /\ Holds(x.sim.field, p, <<i, 0>>) /\ CacheTrue(x.sim)
                     => CacheTrue(y.sim) /\ y.sim.last = l \cup Due(p, i)
  <1> DEFINE p == x.sim.toolpath
             runs == StartsRun(p, from, i)
             t == IF runs THEN Fresh(x.sim) ELSE x.sim
             r == SweepSegment(t, i)
             y == SimAdvance(x, from, i)
             l == IF runs THEN {} ELSE x.sim.last
  <1>1. p \in DOMAIN Programs /\ IsSim(x.sim)
      BY DEF IsX, IsSim
  <1>2. /\ IsSim(t) /\ t.field = x.sim.field /\ t.toolpath = p /\ t.last = l
        /\ t.cache = x.sim.cache /\ t.checkpoints = x.sim.checkpoints
    <2>1. CASE runs
      <3>1. t = Fresh(x.sim) /\ l = {}
          BY <2>1
      <3>2. /\ IsSim(Fresh(x.sim))
            /\ Fresh(x.sim) = SimRec(x.sim.field, p, {}, {}, x.sim.cache, x.sim.checkpoints)
          BY <1>1, Noted DEF IsSim
      <3> HIDE DEF t, l
      <3> QED
          BY <3>1, <3>2, SimRecIs
    <2>2. CASE ~runs
        BY <1>1, <2>2
    <2> QED
        BY <2>1, <2>2
  <1>3. y = Carried(x, r)
      BY DEF SimAdvance
  <1> HIDE DEF t, l
  <1>4. /\ Advances(t, r)
        /\ Holds(t.field, p, <<i, 0>>) => Holds(r.field, p, <<i, 2>>)
        /\ ChecksAboveBottom /\ Holds(t.field, p, <<i, 0>>) /\ CacheTrue(t)
               => CacheTrue(r) /\ r.last = t.last \cup Due(p, i)
    <2>1. t.toolpath = x.sim.toolpath
        BY <1>2
    <2> QED
        BY <1>2, <2>1, SweepIs
  <1> HIDE DEF r, y
  <1>5. Advances(x.sim, r)
      BY <1>2, <1>4 DEF Advances
  <1>6. Moves(x, y) /\ y.sim = r /\ y.warned = x.warned
      BY <1>3, <1>5, CarriedIs
  <1>7. Holds(r.field, p, <<i, 2>>) => Holds(r.field, p, <<i + 1, 0>>)
    <2>1. i \in Nat
        BY <1>1, ProgramIs
    <2> QED
        BY <2>1, RemainingIs DEF Holds
  <1>8. CacheTrue(x.sim) => CacheTrue(t)
      BY <1>2 DEF CacheTrue
  <1> QED
      BY <1>2, <1>4, <1>6, <1>7, <1>8 DEF y, l

LEMMA SweptIs ==
    ASSUME NEW x, NEW from \in Nat, NEW to \in Nat, from <= to
    PROVE  /\ Swept(x, from, to)[from] = x
           /\ \A n \in from + 1..to :
                  Swept(x, from, to)[n] = SimAdvance(Swept(x, from, to)[n - 1], from, n - 1)
  <1> DEFINE Upto(k, g) ==
                g = [n \in from..k |-> IF n = from THEN x ELSE SimAdvance(g[n - 1], from, n - 1)]
             S == {k \in Nat : \E g : Upto(from + k, g)}
  <1>1. 0 \in S
    <2>1. Upto(from + 0, [n \in from..(from + 0) |-> x])
        OBVIOUS
    <2> QED
        BY <2>1
  <1>2. ASSUME NEW k \in S PROVE k + 1 \in S
    <2> DEFINE m == from + k
    <2>0. m \in Nat /\ m + 1 = from + (k + 1) /\ m >= from
        OBVIOUS
    <2>1. PICK g : Upto(m, g)
        OBVIOUS
    <2> HIDE DEF m
    <2> DEFINE h == [n \in from..(m + 1) |-> IF n = m + 1 THEN SimAdvance(g[m], from, m) ELSE g[n]]
    <2>2. ASSUME NEW n \in from..(m + 1)
          PROVE  h[n] = IF n = from THEN x ELSE SimAdvance(h[n - 1], from, n - 1)
      <3>1. CASE n = m + 1
        <4>1. n - 1 = m /\ n # from /\ m \in from..(m + 1) /\ m # m + 1
            BY <2>0, <3>1
        <4>2. h[n] = SimAdvance(g[m], from, m) /\ h[m] = g[m]
            BY <3>1, <4>1
        <4> QED
            BY <4>1, <4>2
      <3>2. CASE n # m + 1
        <4>1. n \in from..m /\ h[n] = g[n]
            BY <2>0, <3>2
        <4>2. CASE n = from
            BY <2>1, <4>1, <4>2
        <4>3. CASE n # from
          <5>1. n - 1 \in from..(m + 1) /\ n - 1 # m + 1 /\ n - 1 \in from..m
              BY <2>0, <4>1, <4>3
          <5>2. h[n - 1] = g[n - 1]
              BY <5>1
          <5> HIDE DEF h
          <5>3. g[n] = SimAdvance(g[n - 1], from, n - 1)
              BY <2>1, <4>1, <4>3
          <5> QED
              BY <4>1, <4>3, <5>2, <5>3
        <4> QED
            BY <4>2, <4>3
      <3> QED
          BY <3>1, <3>2
    <2>3. Upto(m + 1, h)
        BY <2>2
    <2> HIDE DEF h
    <2>4. \E f : Upto(from + (k + 1), f)
        BY <2>0, <2>3
    <2> HIDE DEF Upto
    <2> QED
        BY <2>4
  <1>3. S = Nat
      BY <1>1, <1>2, Induction
  <1>4. \E g : Upto(from + (to - from), g)
    <2>1. to - from \in Nat
        OBVIOUS
    <2> HIDE DEF Upto
    <2> QED
        BY <1>3, <2>1
  <1>5. from + (to - from) = to
      OBVIOUS
  <1> HIDE DEF Upto
  <1>7. \E g : Upto(to, g)
      BY <1>4, <1>5
  <1> USE DEF Upto
  <1>6. Upto(to, Swept(x, from, to))
      BY <1>7 DEF Swept
  <1> QED
      BY <1>6

LEMMA SweptReaches ==
    ASSUME NEW x, IsX(x), NEW from \in Nat, NEW to \in 0..Length(x.sim.toolpath), from < to
    PROVE  LET p == x.sim.toolpath
               y == Swept(x, from, to)[to]
           IN /\ Moves(x, y) /\ y.warned = x.warned
              /\ Holds(x.sim.field, p, <<from, 0>>) => Holds(y.sim.field, p, <<to, 0>>)
              /\ Telling /\ Holds(x.sim.field, p, <<from, 0>>) /\ CacheTrue(x.sim)
                    => /\ CacheTrue(y.sim)
                       /\ Earned(p, <<from, 0>>) \cup y.sim.last = Earned(p, <<to, 0>>)
  <1> DEFINE p == x.sim.toolpath
             w == Swept(x, from, to)
             Told == Telling /\ Holds(x.sim.field, p, <<from, 0>>) /\ CacheTrue(x.sim)
             Good(n) ==
                /\ Moves(x, w[n]) /\ w[n].warned = x.warned
                /\ Holds(x.sim.field, p, <<from, 0>>) => Holds(w[n].sim.field, p, <<n, 0>>)
                /\ Told => /\ CacheTrue(w[n].sim)
                           /\ n # from => Earned(p, <<from, 0>>) \cup w[n].sim.last = Earned(p, <<n, 0>>)
             S == {n \in Nat : from <= n /\ n <= to => Good(n)}
  <1>0. p \in DOMAIN Programs /\ to \in Nat /\ Length(p) \in Nat
      BY ProgramIs DEF IsX, IsSim
  <1>w. w[from] = x /\ \A n \in from + 1..to : w[n] = SimAdvance(w[n - 1], from, n - 1)
      BY <1>0, SweptIs
  <1> HIDE DEF w
  <1>1. Good(from)
      BY <1>w DEF Moves
  <1>2. ASSUME NEW n \in S, from <= n, n + 1 <= to PROVE Good(n + 1)
    <2> DEFINE l == IF StartsRun(p, from, n) THEN {} ELSE w[n].sim.last
               z == w[n + 1]
    <2>1. n \in 0..Length(p) - 1 /\ n + 1 \in from + 1..to /\ (n + 1) - 1 = n /\ n + 1 # from
        BY <1>0, <1>2
    <2>2. Good(n)
        BY <1>0, <1>2
    <2>3. IsX(w[n]) /\ w[n].sim.toolpath = p
        BY <2>2 DEF Moves
    <2>4. z = SimAdvance(w[n], from, n)
        BY <1>w, <2>1
    <2>5. /\ Moves(w[n], z) /\ z.warned = w[n].warned
          /\ Holds(w[n].sim.field, p, <<n, 0>>) => Holds(z.sim.field, p, <<n + 1, 0>>)
          /\ ChecksAboveBottom /\ Holds(w[n].sim.field, p, <<n, 0>>) /\ CacheTrue(w[n].sim)
                 => CacheTrue(z.sim) /\ z.sim.last = l \cup Due(p, n)
        BY <2>1, <2>3, <2>4, SegmentIs
    <2> HIDE DEF z
    <2>6. Moves(x, z)
        BY <2>2, <2>5 DEF Moves
    <2>7. ASSUME Told
          PROVE  CacheTrue(z.sim) /\ Earned(p, <<from, 0>>) \cup z.sim.last = Earned(p, <<n + 1, 0>>)
      <3>1. CacheTrue(z.sim) /\ z.sim.last = l \cup Due(p, n)
          BY <2>2, <2>5, <2>7 DEF Telling
      <3>2. Earned(p, <<n + 1, 0>>) = Earned(p, <<n, 0>>) \cup Due(p, n)
          BY <1>0, <2>1, EarnedIs
      <3>3. Earned(p, <<from, 0>>) \cup l = Earned(p, <<n, 0>>)
        <4>1. CASE n = from
            BY <4>1 DEF StartsRun
        <4>2. CASE n # from
          <5>1. n \in 0..Length(p) - 1 /\ n - 1 \in 0..Length(p) - 1
            <6> HIDE DEF Good
            <6>1. n \in Nat /\ from \in Nat /\ from <= n
                BY <1>2
            <6>2. n - 1 \in Nat
                BY <4>2, <6>1
            <6> QED
                BY <1>0, <2>1, <6>2
          <5>2. ~StartsRun(p, from, n)
              BY <1>0, <2>7, <4>2, <5>1 DEF StartsRun, Telling, OneToolEach
          <5> QED
              BY <2>2, <2>7, <4>2, <5>2
        <4> QED
            BY <4>1, <4>2
      <3> HIDE DEF l
      <3> QED
          BY <3>1, <3>2, <3>3
    <2> QED
        BY <2>2, <2>5, <2>6, <2>7 DEF z
  <1>3. 0 \in S
    <2>1. from <= 0 => from = 0
        OBVIOUS
    <2> QED
        BY <1>1, <2>1
  <1>4. ASSUME NEW n \in S PROVE n + 1 \in S
    <2>1. n \in Nat /\ (from <= n + 1 => from <= n \/ from = n + 1)
        OBVIOUS
    <2> HIDE DEF Good
    <2>2. from <= n + 1 /\ n + 1 <= to => Good(n + 1)
        BY <1>1, <1>2, <2>1
    <2> QED
        BY <2>1, <2>2
  <1>5. S = Nat
      BY <1>3, <1>4, Induction
  <1>6. Good(to)
    <2> HIDE DEF Good
    <2> QED
        BY <1>0, <1>5
  <1>7. to # from
      BY <1>0
  <1> QED
      BY <1>6, <1>7 DEF w

(* bulk_advance.                                                           *)
LEMMA BulkIs ==
    ASSUME NEW x, IsX(x), NEW plan,
           plan.from \in Nat, plan.to \in 0..Length(x.sim.toolpath), plan.bulk => plan.from < plan.to,
           ~plan.bulk => plan.from = plan.to
    PROVE  Reaches(x, Bulk(x, plan), <<plan.from, 0>>, <<plan.to, 0>>)
  <1> DEFINE p == x.sim.toolpath
             a == <<plan.from, 0>>
             b == <<plan.to, 0>>
             z == Swept(x, plan.from, plan.to)[plan.to]
             y == CollectDiagnostics(z)
  <1>1. CASE ~plan.bulk
      BY <1>1, ReachesSame DEF Bulk
  <1>2. CASE plan.bulk
    <2>1. Bulk(x, plan) = y
        BY <1>2 DEF Bulk
    <2>2. /\ Moves(x, z) /\ z.warned = x.warned
          /\ Holds(x.sim.field, p, a) => Holds(z.sim.field, p, b)
          /\ Telling /\ Holds(x.sim.field, p, a) /\ CacheTrue(x.sim)
                => CacheTrue(z.sim) /\ Earned(p, a) \cup z.sim.last = Earned(p, b)
      <3>1. plan.from < plan.to
          BY <1>2
      <3> QED
          BY <3>1, SweptReaches
    <2> HIDE DEF z, a, b
    <2>3. /\ Moves(z, y) /\ y.warned = z.warned \cup z.sim.last
          /\ y.sim.field = z.sim.field /\ y.sim.cache = z.sim.cache
        BY <2>2, CollectedIs DEF Moves
    <2> HIDE DEF y
    <2>4. Moves(x, y) /\ y.sim.toolpath = z.sim.toolpath
        BY <2>2, <2>3 DEF Moves
    <2>5. ASSUME Tells(x, p, a) PROVE Tells(y, p, b)
        BY <2>2, <2>3, <2>4, <2>5 DEF Tells, CacheTrue
    <2> QED
        BY <2>1, <2>2, <2>3, <2>4, <2>5 DEF Reaches, a, b
  <1> QED
      BY <1>1, <1>2

-----------------------------------------------------------------------------
(* The plan *)

Stops(p) == {a \in (0..Length(p) - 1) \X (0..2) : a[2] = 2 => a = End(p)}
SamePlace(p, a, b) ==
    /\ Done(a) = Done(b) /\ Earned(p, a) = Earned(p, b)
    /\ \A c : Remaining(p, a, c) = Remaining(p, b, c)

LEMMA PlaceIs ==
    ASSUME NEW p \in DOMAIN Programs, NEW a \in Places(p)
    PROVE  /\ a = <<a[1], a[2]>> /\ a[1] \in 0..Length(p) - 1 /\ a[2] \in 0..2
           /\ a[2] = 0 => a[1] = 0
           /\ a \in Nat \X (0..2)
  <1>0. Length(p) \in Nat \ {0}
      BY ProgramIs
  <1>1. CASE a = Start
      BY <1>0, <1>1 DEF Start
  <1>2. CASE a # Start
    <2>1. PICK i \in 0..Length(p) - 1, t \in 1..2 : a = <<i, t>>
        BY <1>2 DEF Places
    <2> QED
        BY <1>0, <2>1
  <1> QED
      BY <1>1, <1>2

LEMMA EndIs ==
    ASSUME NEW p \in DOMAIN Programs
    PROVE  /\ End(p) \in Places(p) /\ Start \in Places(p) /\ Start \in Stops(p)
           /\ \A q : \A a \in Places(q) : Within(a, p) = IF a[1] < Length(p) THEN a ELSE End(p)
  <1>0. Length(p) \in Nat \ {0}
      BY ProgramIs
  <1>1. Length(p) - 1 \in 0..Length(p) - 1 /\ 2 \in 1..2 /\ 0 \in 0..Length(p) - 1
      BY <1>0
  <1> QED
      BY <1>1 DEF End, Places, Start, Stops, Within

LEMMA SnapIs ==
    ASSUME NEW p \in DOMAIN Programs, NEW a \in Places(p)
    PROVE  LET b == IF a[2] = 2 /\ a[1] < Length(p) - 1 THEN <<a[1] + 1, 0>> ELSE a
           IN b \in Stops(p) /\ SamePlace(p, a, b)
  <1>0. /\ Length(p) \in Nat \ {0} /\ a = <<a[1], a[2]>>
        /\ a[1] \in 0..Length(p) - 1 /\ a[2] \in 0..2 /\ a[1] \in Nat
      BY ProgramIs, PlaceIs
  <1>1. CASE a[2] = 2 /\ a[1] < Length(p) - 1
    <2> DEFINE b == <<a[1] + 1, 0>>
    <2>1. b[1] = a[1] + 1 /\ b[2] = 0 /\ b \in (0..Length(p) - 1) \X (0..2)
        BY <1>0, <1>1
    <2>2. b \in Stops(p)
        BY <2>1 DEF Stops
    <2>3. a = <<a[1], 2>>
        BY <1>0, <1>1
    <2>4. /\ Done(b) = Done(<<a[1], 2>>) /\ Earned(p, b) = Earned(p, <<a[1], 2>>)
          /\ \A c : Remaining(p, b, c) = Remaining(p, <<a[1], 2>>, c)
      <3>1. Done(b) = Done(<<a[1], 2>>)
          BY <1>0, DoneNext
      <3>2. Earned(p, b) = Earned(p, <<a[1], 2>>)
          BY <1>0, EarnedIs
      <3>3. \A c : Remaining(p, b, c) = Remaining(p, <<a[1], 2>>, c)
          BY <1>0, RemainingIs
      <3> QED
          BY <3>1, <3>2, <3>3
    <2> QED
        BY <1>1, <2>2, <2>3, <2>4 DEF SamePlace
  <1>2. CASE ~(a[2] = 2 /\ a[1] < Length(p) - 1)
    <2>1. a[2] = 2 => a = End(p)
      <3>1. a[2] = 2 => a[1] = Length(p) - 1
          BY <1>0, <1>2
      <3> QED
          BY <1>0, <3>1 DEF End
    <2>2. a \in (0..Length(p) - 1) \X (0..2)
        BY <1>0
    <2>3. a \in Stops(p)
        BY <2>1, <2>2 DEF Stops
    <2> QED
        BY <1>2, <2>3 DEF SamePlace
  <1> QED
      BY <1>1, <1>2

(* Where the carving starts, and what the plan says from there.            *)
From(at, target, replayFrom) == IF Backward(at, target) THEN <<replayFrom, 0>> ELSE at

Sound(plan, from, target, p) ==
    /\ from[1] \in Nat /\ from[2] \in 0..2 /\ from = <<from[1], from[2]>>
    /\ target = <<target[1], target[2]>>
    /\ target[1] \in 0..Length(p) - 1 /\ target[2] \in 0..2 /\ from[1] <= target[1]
    /\ plan.finalize <=> target[1] > from[1] /\ from[2] = 1
    /\ plan.finalizeSeg = from[1]
    /\ plan.from = IF plan.finalize THEN from[1] + 1 ELSE from[1]
    /\ plan.to = target[1] /\ plan.endT = target[2]
    /\ plan.bulk <=> plan.from < plan.to
    /\ plan.startT = IF target[1] > from[1] THEN 0 ELSE from[2]
    /\ plan.start <=> plan.startT < plan.endT
    /\ ~plan.start => target = from

LEMMA PlanIs ==
    ASSUME NEW p \in DOMAIN Programs, NEW target \in Places(p), NEW at \in Nat \X (0..2),
           at # target, NEW r \in Nat, r <= target[1]
    PROVE  LET plan == Plan(at, target, Length(p), r)
           IN /\ Sound(plan, From(at, target, r), target, p)
              /\ plan.reset <=> Backward(at, target)
              /\ plan.at \in Stops(p) /\ SamePlace(p, target, plan.at)
  <1> DEFINE plan == Plan(at, target, Length(p), r)
             from == From(at, target, r)
             fin == target[1] > from[1] /\ from[2] = 1
             bulkFrom == IF fin THEN from[1] + 1 ELSE from[1]
             startT == IF target[1] > from[1] THEN 0 ELSE from[2]
             start == target[2] > startT
             ended == <<target[1], IF start THEN target[2] ELSE startT>>
             stop == IF ended[2] = 2 /\ ended[1] < Length(p) - 1 THEN <<ended[1] + 1, 0>> ELSE ended
  <1>0. /\ target = <<target[1], target[2]>> /\ target[1] \in 0..Length(p) - 1 /\ target[2] \in 0..2
        /\ target[2] = 0 => target[1] = 0
      BY PlaceIs
  <1>1. target[1] \in Nat /\ at[1] \in Nat /\ at[2] \in 0..2 /\ at = <<at[1], at[2]>>
      BY <1>0, ProgramIs
  <1>2. Min({r, target[1]}) = r
    <2>1. \A y \in {r, target[1]} : r <= y
        BY <1>1
    <2>2. \A x \in {r, target[1]} : (\A y \in {r, target[1]} : x <= y) => x = r
        BY <1>1
    <2> QED
        BY <2>1, <2>2 DEF Min
  <1>3. plan = [reset |-> Backward(at, target), finalize |-> fin, finalizeSeg |-> from[1],
                bulk |-> target[1] > bulkFrom, from |-> bulkFrom, to |-> target[1],
                start |-> start, startT |-> startT, endT |-> target[2], at |-> stop]
      BY <1>2 DEF Plan, From
  <1>4. /\ from[1] \in Nat /\ from[2] \in 0..2 /\ from = <<from[1], from[2]>> /\ from[1] <= target[1]
        /\ from[1] = target[1] => from[2] <= target[2]
        /\ from[1] = target[1] /\ from[2] = target[2] => from = target
    <2>1. CASE Backward(at, target)
      <3>1. from = <<r, 0>>
          BY <2>1 DEF From
      <3> HIDE DEF from
      <3> QED
          BY <1>0, <1>1, <3>1
    <2>2. CASE ~Backward(at, target)
      <3>1. from = at
          BY <2>2 DEF From
      <3> HIDE DEF from
      <3> QED
          BY <1>0, <1>1, <2>2, <3>1 DEF Backward, Earlier
    <2> QED
        BY <2>1, <2>2
  <1> HIDE DEF from, plan
  <1>5. /\ start \/ (target = from /\ startT = target[2])
        /\ startT \in 0..2
    <2>1. CASE from[1] = target[1]
        BY <1>0, <1>1, <1>4, <2>1
    <2>2. CASE from[1] # target[1]
        BY <1>0, <1>1, <1>4, <2>2
    <2> QED
        BY <2>1, <2>2
  <1>6. ended = target
      BY <1>0, <1>5
  <1>7. stop \in Stops(p) /\ SamePlace(p, target, stop)
      BY <1>6, SnapIs
  <1>8. target[1] > bulkFrom <=> bulkFrom < target[1]
      BY <1>1, <1>4
  <1> HIDE DEF stop
  <1>9. /\ plan.finalize = fin /\ plan.finalizeSeg = from[1] /\ plan.bulk = (target[1] > bulkFrom)
        /\ plan.from = bulkFrom /\ plan.to = target[1] /\ plan.start = start /\ plan.startT = startT
        /\ plan.endT = target[2] /\ plan.at = stop /\ plan.reset = Backward(at, target)
      BY <1>3
  <1>10. start <=> startT < target[2]
      BY <1>0, <1>5
  <1>11. Sound(plan, from, target, p)
      BY <1>0, <1>4, <1>5, <1>8, <1>9, <1>10 DEF Sound
  <1> QED
      BY <1>7, <1>9, <1>11 DEF plan, from

(* Finish the segment begun, sweep whole segments, begin the last one.     *)
LEMMA RunsTo ==
    ASSUME NEW x, IsX(x), NEW plan, NEW from, NEW target, Sound(plan, from, target, x.sim.toolpath)
    PROVE  LET y == StartPartial(Bulk(Finalize(x, plan), plan), plan)
           IN Moves(x, y) /\ (from[2] # 2 => Reaches(x, y, from, target))
  <1> DEFINE p == x.sim.toolpath
             u == Finalize(x, plan)
             v == Bulk(u, plan)
             y == StartPartial(v, plan)
  <1>0. /\ p \in DOMAIN Programs /\ Length(p) \in Nat \ {0}
        /\ from[1] \in Nat /\ from[2] \in 0..2 /\ from = <<from[1], from[2]>>
        /\ target = <<target[1], target[2]>> /\ target[1] \in 0..Length(p) - 1 /\ target[2] \in 0..2
        /\ from[1] <= target[1]
      BY ProgramIs DEF IsX, IsSim, Sound
  <1>1. /\ Moves(x, u)
        /\ from[1] < target[1] /\ from[2] # 2 => Reaches(x, u, from, <<plan.from, 0>>)
        /\ from[1] = target[1] => u = x
    <2>1. CASE plan.finalize
      <3>1. from[2] = 1 /\ from[1] \in 0..Length(p) - 1 /\ plan.finalizeSeg = from[1]
            /\ plan.from = from[1] + 1 /\ from[1] < target[1] /\ from = <<from[1], 1>>
          BY <1>0, <2>1 DEF Sound
      <3>2. u = CollectDiagnostics(Carried(x, PartialAdvance(x.sim, from[1], 1, 2)))
          BY <2>1, <3>1 DEF Finalize
      <3>3. Reaches(x, u, <<from[1], 1>>, <<from[1], 2>>)
        <4>1. 1 \in 0..1 /\ 2 \in 1..2 /\ 1 < 2
            OBVIOUS
        <4> QED
            BY <3>1, <3>2, <4>1, PieceIs
      <3> HIDE DEF u
      <3>4. IsX(u) /\ u.sim.toolpath = p
          BY <3>3 DEF Reaches, Moves
      <3>5. Reaches(u, u, <<from[1], 2>>, <<from[1] + 1, 0>>)
          BY <3>1, <3>4, ReachesBoundary
      <3>6. Reaches(x, u, <<from[1], 1>>, <<from[1] + 1, 0>>)
          BY <3>3, <3>5, ReachesOn
      <3> QED
          BY <1>0, <3>1, <3>6 DEF Reaches
    <2>2. CASE ~plan.finalize
      <3>1. u = x /\ Moves(x, x)
          BY <2>2 DEF Finalize, Moves
      <3>2. ASSUME from[1] < target[1], from[2] # 2 PROVE from = <<plan.from, 0>>
          BY <1>0, <2>2, <3>2 DEF Sound
      <3> HIDE DEF u
      <3>3. Reaches(x, x, from, from)
          BY ReachesSame
      <3> QED
          BY <3>1, <3>2, <3>3
    <2> QED
        BY <2>1, <2>2
  <1> HIDE DEF u
  <1>2. IsX(u) /\ u.sim.toolpath = p
      BY <1>1 DEF Moves
  <1>3. /\ Reaches(u, v, <<plan.from, 0>>, <<target[1], 0>>)
        /\ from[1] = target[1] => v = u
    <2>1. /\ plan.from \in Nat /\ plan.to \in 0..Length(p) /\ plan.to = target[1]
          /\ plan.bulk => plan.from < plan.to
          /\ ~plan.bulk => plan.from = plan.to
        BY <1>0 DEF Sound
    <2>2. from[1] = target[1] => ~plan.bulk
        BY <1>0 DEF Sound
    <2>3. Reaches(u, Bulk(u, plan), <<plan.from, 0>>, <<plan.to, 0>>)
        BY <1>2, <2>1, BulkIs
    <2> QED
        BY <2>1, <2>2, <2>3 DEF Bulk
  <1> HIDE DEF v
  <1>4. IsX(v) /\ v.sim.toolpath = p
      BY <1>2, <1>3 DEF Moves, Reaches
  <1>5. /\ plan.start => Reaches(v, y, <<target[1], plan.startT>>, target)
        /\ ~plan.start => y = v
    <2>1. CASE plan.start
      <3>1. plan.startT \in 0..1 /\ plan.endT \in 1..2 /\ plan.startT < plan.endT
            /\ plan.endT = target[2] /\ plan.to = target[1]
          BY <1>0, <2>1 DEF Sound
      <3>2. y = CollectDiagnostics(Carried(v, PartialAdvance(v.sim, target[1], plan.startT, plan.endT)))
          BY <2>1, <3>1 DEF StartPartial
      <3>3. target[1] \in 0..Length(v.sim.toolpath) - 1
          BY <1>0, <1>4
      <3>4. Reaches(v, y, <<target[1], plan.startT>>, <<target[1], plan.endT>>)
          BY <1>4, <3>1, <3>2, <3>3, PieceIs
      <3>5. <<target[1], plan.endT>> = target
          BY <1>0, <3>1
      <3> HIDE DEF y
      <3> QED
          BY <2>1, <3>4, <3>5
    <2>2. CASE ~plan.start
        BY <2>2 DEF StartPartial
    <2> QED
        BY <2>1, <2>2
  <1> HIDE DEF y
  <1>6. Moves(x, y)
    <2>1. Moves(u, v) /\ (plan.start => Moves(v, y))
        BY <1>3, <1>5 DEF Reaches
    <2>2. Moves(x, v)
        BY <1>1, <2>1 DEF Moves
    <2>3. plan.start => Moves(x, y)
        BY <2>1, <2>2 DEF Moves
    <2> QED
        BY <1>5, <2>2, <2>3
  <1>7. ASSUME from[2] # 2 PROVE Reaches(x, y, from, target)
    <2>1. CASE from[1] < target[1]
      <3>1. Reaches(x, v, from, <<target[1], 0>>)
          BY <1>1, <1>3, <1>7, <2>1, ReachesOn
      <3>2. plan.startT = 0 /\ (~plan.start => target = from)
          BY <1>0, <2>1 DEF Sound
      <3>3. plan.start
          BY <1>0, <2>1, <3>2
      <3> QED
          BY <1>5, <3>1, <3>2, <3>3, ReachesOn
    <2>2. CASE ~(from[1] < target[1])
      <3>1. from[1] = target[1] /\ v = x /\ plan.startT = from[2]
          BY <1>0, <1>1, <1>3, <2>2 DEF Sound
      <3>2. from = <<target[1], plan.startT>>
          BY <1>0, <3>1
      <3>3. CASE plan.start
          BY <1>5, <3>1, <3>2, <3>3
      <3>4. CASE ~plan.start
        <4>1. y = x /\ target = from
            BY <1>5, <3>1, <3>4 DEF Sound
        <4> QED
            BY <4>1, ReachesSame
      <3> QED
          BY <3>3, <3>4
    <2> QED
        BY <2>1, <2>2
  <1> QED
      BY <1>6, <1>7 DEF y, v, u

-----------------------------------------------------------------------------
(* Checkpoints *)

Shape(d) ==
    d = [built |-> d.built, cached |-> d.cached, at |-> d.at, warned |-> d.warned,
         interval |-> d.interval, lastCheckpoint |-> d.lastCheckpoint, warnedAt |-> d.warnedAt]

\* Checkpoints lie an interval apart, so there are never too many.
Spaced(s, d) ==
    /\ d.interval = Interval(Length(d.cached))
    /\ d.lastCheckpoint \in 0..Length(d.cached) - 1
    /\ DOMAIN s.checkpoints = DOMAIN d.warnedAt
    /\ DOMAIN s.checkpoints \in SUBSET (1..d.lastCheckpoint)
    /\ Cardinality(DOMAIN s.checkpoints) * d.interval <= d.lastCheckpoint
    /\ d.interval = 0 => DOMAIN s.checkpoints = {}

Restores(s, d) ==
    \A n \in DOMAIN s.checkpoints : Holds(s.checkpoints[n], d.cached, <<n, 0>>)
Recalls(s, d) ==
    /\ Telling /\ CacheTrue(s)
    /\ \A n \in DOMAIN s.checkpoints : d.warnedAt[n] = Earned(d.cached, <<n, 0>>)

LEMMA Times ==
    ASSUME NEW a \in Nat, NEW b \in Nat, NEW k \in Nat
    PROVE  /\ a <= b => a * k <= b * k
           /\ (a + 1) * k = a * k + k
           /\ a * k \in Nat
  <1>1. a * k \in Nat /\ (a + 1) * k = a * k + k
      OBVIOUS
  <1>2. ASSUME a <= b PROVE a * k <= b * k
    <2> DEFINE e == b - a
    <2>1. e \in Nat /\ b = a + e
        BY <1>2
    <2> HIDE DEF e
    <2>2. (a + e) * k = a * k + e * k /\ e * k \in Nat /\ a * k \in Nat
        BY <2>1
    <2> QED
        BY <2>1, <2>2
  <1> QED
      BY <1>1, <1>2

LEMMA IntervalIs ==
    ASSUME NEW total \in Nat \ {0}
    PROVE  /\ Interval(total) \in Nat
           /\ Interval(total) # 0 => total <= MaxCheckpoints * Interval(total)
  <1> DEFINE m == MaxCheckpoints
             n == total + m - 1
             q == n \div m
  <1>1. m \in Nat \ {0} /\ MinSegments \in Nat
      BY PlaybackAssumption
  <1>2. n \in Nat
      BY <1>1
  <1> HIDE DEF m
  <1>3. q \in Nat /\ n = m * q + (n % m) /\ n % m \in 0..m - 1
      BY <1>1, <1>2
  <1> HIDE DEF q
  <1>4. total <= m * q
    <2>1. m * q \in Nat
        BY <1>1, <1>3
    <2> QED
        BY <1>1, <1>3, <2>1
  <1>5. Interval(total) = IF total > MinSegments THEN q ELSE 0
      BY DEF Interval, q, m
  <1> QED
      BY <1>3, <1>4, <1>5 DEF m

LEMMA FewCheckpoints ==
    ASSUME NEW s, NEW d, Spaced(s, d), d.cached \in DOMAIN Programs
    PROVE  Cardinality(DOMAIN s.checkpoints) <= MaxCheckpoints
  <1> DEFINE D == DOMAIN s.checkpoints
             total == Length(d.cached)
             k == d.interval
             C == Cardinality(D)
  <1>1. total \in Nat \ {0} /\ MaxCheckpoints \in Nat /\ d.lastCheckpoint \in 0..total - 1
      BY ProgramIs, PlaybackAssumption DEF Spaced
  <1>2. k \in Nat /\ (k # 0 => total <= MaxCheckpoints * k)
      BY <1>1, IntervalIs DEF Spaced
  <1>3. C \in Nat
    <2>1. IsFiniteSet(1..d.lastCheckpoint)
        BY <1>1, FS_Interval
    <2>2. IsFiniteSet(D)
        BY <2>1, FS_Subset DEF Spaced
    <2> QED
        BY <2>2, FS_CardinalityType
  <1>4. C * k <= d.lastCheckpoint /\ (k = 0 => D = {})
      BY DEF Spaced
  <1> HIDE DEF C, k, total
  <1>5. CASE k = 0
    <2>1. D = {}
        BY <1>4, <1>5
    <2>2. Cardinality({}) = 0
        BY FS_EmptySet
    <2> QED
        BY <1>1, <2>1, <2>2
  <1>6. CASE k # 0
    <2>1. ASSUME MaxCheckpoints <= C PROVE FALSE
      <3>1. MaxCheckpoints * k <= C * k /\ MaxCheckpoints * k \in Nat /\ C * k \in Nat
          BY <1>1, <1>2, <1>3, <2>1, Times
      <3> QED
          BY <1>1, <1>2, <1>4, <1>6, <3>1
    <2> QED
        BY <1>1, <1>3, <2>1 DEF C
  <1> QED
      BY <1>5, <1>6

LEMMA Greatest ==
    ASSUME NEW T \in SUBSET Nat, T # {}, NEW i \in Nat, \A n \in T : n <= i
    PROVE  Max(T) \in T
  <1> DEFINE U == {n \in Nat : \E c \in T : n = i - c}
  <1>1. U # {}
    <2>1. PICK c \in T : TRUE
        OBVIOUS
    <2>2. i - c \in U
        BY <2>1
    <2> QED
        BY <2>2
  <1>2. PICK u \in U : \A y \in U : u <= y
      BY <1>1, Least
  <1>3. PICK m \in T : u = i - m
      BY <1>2
  <1>4. ASSUME NEW c \in T PROVE m >= c
    <2>1. i - c \in U
        OBVIOUS
    <2>2. u <= i - c
        BY <1>2, <2>1
    <2> QED
        BY <1>3, <2>2
  <1> QED
      BY <1>4 DEF Max

LEMMA NearestIs ==
    ASSUME NEW s, IsSim(s), NEW i \in Nat
    PROVE  LET r == NearestCheckpoint(s, i)
           IN r \in Nat /\ r <= i /\ (r > 0 => r \in DOMAIN s.checkpoints)
  <1> DEFINE D == {n \in DOMAIN s.checkpoints : n <= i}
             T == {0} \cup D
  <1>1. \A n \in DOMAIN s.checkpoints : n \in Nat
      BY DEF IsSim
  <1>2. T \in SUBSET Nat /\ T # {} /\ \A n \in T : n <= i
      BY <1>1
  <1>3. \A n \in T : n # 0 => n \in DOMAIN s.checkpoints
      OBVIOUS
  <1>4. NearestCheckpoint(s, i) = Max(T)
      BY DEF NearestCheckpoint
  <1> HIDE DEF T
  <1>5. Max(T) \in T
      BY <1>2, Greatest
  <1> DEFINE r == Max(T)
  <1>6. r \in T
      BY <1>5
  <1> HIDE DEF r
  <1>7. r \in Nat /\ r <= i /\ (r # 0 => r \in DOMAIN s.checkpoints)
      BY <1>2, <1>3, <1>6
  <1>8. NearestCheckpoint(s, i) = r
      BY <1>4 DEF r
  <1> QED
      BY <1>7, <1>8

(* maybe_checkpoint.                                                       *)
LEMMA Checkpointed ==
    ASSUME NEW x, IsX(x), NEW d, Shape(d), Spaced(x.sim, d), x.sim.toolpath = d.cached,
           d.at \in Stops(d.cached)
    PROVE  LET m == MaybeCheckpoint(x, d)
           IN /\ IsSim(m.sim) /\ m.sim.toolpath = d.cached /\ m.sim.field = x.sim.field
              /\ m.sim.cache = x.sim.cache
              /\ Shape(m.driver) /\ m.driver.built = d.built /\ m.driver.cached = d.cached
              /\ m.driver.at = d.at /\ m.driver.warned = d.warned
              /\ Spaced(m.sim, m.driver)
              /\ Restores(x.sim, d) /\ Holds(x.sim.field, d.cached, d.at) => Restores(m.sim, m.driver)
              /\ Recalls(x.sim, d) /\ x.warned = Earned(d.cached, d.at) => Recalls(m.sim, m.driver)
  <1> DEFINE m == MaybeCheckpoint(x, d)
             s == x.sim
             saves == /\ d.interval > 0 /\ d.at[2] = 0 /\ d.at[1] > 0
                      /\ d.at[1] >= d.lastCheckpoint + d.interval
             n == d.at[1]
             D == DOMAIN s.checkpoints
  <1>0. /\ IsSim(s) /\ d.cached \in DOMAIN Programs /\ Length(d.cached) \in Nat \ {0}
        /\ n \in 0..Length(d.cached) - 1 /\ d.at = <<n, d.at[2]>>
      BY ProgramIs DEF IsX, IsSim, Stops
  <1>1. CASE ~saves
    <2>1. m = [sim |-> s, driver |-> d]
        BY <1>1 DEF MaybeCheckpoint
    <2> QED
        BY <1>0, <2>1
  <1>2. CASE saves
    <2> DEFINE ch == With(s.checkpoints, n, s.field)
               wa == With(d.warnedAt, n, x.warned)
               t == [s EXCEPT !.checkpoints = ch]
               e == [d EXCEPT !.lastCheckpoint = n, !.warnedAt = wa]
    <2>1. m = [sim |-> t, driver |-> e]
        BY <1>2 DEF MaybeCheckpoint, Shape, IsSim, SimRec
    <2>2. t = SimRec(s.field, s.toolpath, s.last, s.dirty, s.cache, ch)
        BY <1>0 DEF IsSim, SimRec
    <2>3. e = [built |-> d.built, cached |-> d.cached, at |-> d.at, warned |-> d.warned,
               interval |-> d.interval, lastCheckpoint |-> n, warnedAt |-> wa]
      <3> DEFINE v == [built |-> d.built, cached |-> d.cached, at |-> d.at, warned |-> d.warned,
                       interval |-> d.interval, lastCheckpoint |-> n, warnedAt |-> d.warnedAt]
      <3> HIDE DEF wa
      <3>1. [d EXCEPT !.lastCheckpoint = n] = v
          BY DEF Shape
      <3>2. e = [[d EXCEPT !.lastCheckpoint = n] EXCEPT !.warnedAt = wa]
          OBVIOUS
      <3>3. [v EXCEPT !.warnedAt = wa] =
                [built |-> d.built, cached |-> d.cached, at |-> d.at, warned |-> d.warned,
                 interval |-> d.interval, lastCheckpoint |-> n, warnedAt |-> wa]
          OBVIOUS
      <3> HIDE DEF v, e
      <3> QED
          BY <3>1, <3>2, <3>3
    <2>4. /\ DOMAIN ch = D \cup {n} /\ \A k \in DOMAIN ch : ch[k] = IF k = n THEN s.field ELSE s.checkpoints[k]
          /\ DOMAIN wa = DOMAIN d.warnedAt \cup {n}
          /\ \A k \in DOMAIN wa : wa[k] = IF k = n THEN x.warned ELSE d.warnedAt[k]
        BY DEF With
    <2> HIDE DEF ch, wa, t, e, m
    <2>5. /\ t.field = s.field /\ t.toolpath = s.toolpath /\ t.last = s.last /\ t.dirty = s.dirty
          /\ t.cache = s.cache /\ t.checkpoints = ch
        BY <2>2, SimRecIs
    <2>6. /\ e.built = d.built /\ e.cached = d.cached /\ e.at = d.at /\ e.warned = d.warned
          /\ e.interval = d.interval /\ e.lastCheckpoint = n /\ e.warnedAt = wa
        BY <2>3
    <2>7. IsSim(t)
      <3>1. \A k \in DOMAIN ch : k \in Nat /\ ch[k] \in Field
          BY <1>0, <2>4 DEF IsSim
      <3> QED
          BY <1>0, <2>2, <2>5, <3>1 DEF IsSim
    <2>8. Shape(e)
        BY <2>3, <2>6 DEF Shape
    <2>9. Spaced(t, e)
      <3>1. /\ d.interval \in Nat /\ d.lastCheckpoint \in Nat /\ n > d.lastCheckpoint /\ n \in Nat
            /\ D \in SUBSET (1..d.lastCheckpoint) /\ D = DOMAIN d.warnedAt
            /\ Cardinality(D) * d.interval <= d.lastCheckpoint
        <4>1. d.interval \in Nat /\ d.lastCheckpoint \in Nat /\ n \in Nat
            BY <1>0, IntervalIs DEF Spaced
        <4> QED
            BY <1>2, <4>1 DEF Spaced
      <3>2. IsFiniteSet(D) /\ n \notin D
        <4>1. IsFiniteSet(1..d.lastCheckpoint)
          <5>1. d.lastCheckpoint \in Int /\ 1 \in Int
              BY <3>1
          <5> QED
              BY <5>1, FS_Interval
        <4> QED
            BY <3>1, <4>1, FS_Subset
      <3>3. Cardinality(D) \in Nat /\ Cardinality(D \cup {n}) = Cardinality(D) + 1
          BY <3>2, FS_CardinalityType, FS_AddElement
      <3>4. Cardinality(D \cup {n}) * d.interval <= n
        <4> DEFINE C == Cardinality(D)
                   k == d.interval
        <4>1. C \in Nat /\ k \in Nat /\ C * k <= d.lastCheckpoint /\ n >= d.lastCheckpoint + k
            BY <1>2, <3>1, <3>3
        <4>2. Cardinality(D \cup {n}) = C + 1
            BY <3>3
        <4> HIDE DEF C, k
        <4>3. (C + 1) * k = C * k + k /\ C * k \in Nat
            BY <4>1, Times
        <4>4. (C + 1) * k <= n
            BY <3>1, <4>1, <4>3
        <4> QED
            BY <4>2, <4>4 DEF k
      <3>5. D \cup {n} \in SUBSET (1..n)
          BY <3>1
      <3>6. d.interval # 0
          BY <1>2, <3>1
      <3>7. /\ DOMAIN t.checkpoints = D \cup {n} /\ DOMAIN e.warnedAt = D \cup {n}
            /\ e.interval = d.interval /\ e.cached = d.cached /\ e.lastCheckpoint = n
            /\ d.interval = Interval(Length(d.cached))
          BY <2>4, <2>5, <2>6, <3>1 DEF Spaced
      <3> QED
          BY <1>0, <3>4, <3>5, <3>6, <3>7 DEF Spaced
    <2>10. ASSUME Restores(s, d), Holds(s.field, d.cached, d.at) PROVE Restores(t, e)
      <3>1. d.at = <<n, 0>>
          BY <1>0, <1>2
      <3> QED
        <4> SUFFICES ASSUME NEW k \in DOMAIN ch PROVE Holds(ch[k], d.cached, <<k, 0>>)
            BY <2>5, <2>6 DEF Restores
        <4>1. CASE k = n
            BY <2>4, <2>10, <3>1, <4>1
        <4>2. CASE k # n
            BY <2>4, <2>10, <4>2 DEF Restores
        <4> QED
            BY <4>1, <4>2
    <2>11. ASSUME Recalls(s, d), x.warned = Earned(d.cached, d.at) PROVE Recalls(t, e)
      <3>1. d.at = <<n, 0>>
          BY <1>0, <1>2
      <3>2. CacheTrue(t)
          BY <2>5, <2>11 DEF CacheTrue, Recalls
      <3>3. DOMAIN s.checkpoints = DOMAIN d.warnedAt
          BY DEF Spaced
      <3> QED
          BY <2>4, <2>5, <2>6, <2>11, <3>1, <3>2, <3>3 DEF Recalls
    <2>12. m.sim = t /\ m.driver = e
        BY <2>1
    <2> QED
        BY <2>5, <2>6, <2>7, <2>8, <2>9, <2>10, <2>11, <2>12 DEF m
  <1> QED
      BY <1>1, <1>2

-----------------------------------------------------------------------------
(* advanceTo *)

Owns(d) == d.cached = d.built.program
Keeps(s, d) == Holds(s.field, d.cached, d.at) /\ Restores(s, d)
Knows(s, d) == Recalls(s, d) /\ d.warned = Earned(d.cached, d.at)

\* A simulator and its driver agree.
Driven(s, d) ==
    /\ IsSim(s) /\ Shape(d) /\ s.toolpath = d.cached
    /\ d.built.program \in 1..d.cached /\ d.at \in Stops(d.cached) /\ Spaced(s, d)
    /\ Owns(d) => Keeps(s, d)
    /\ Owns(d) /\ Telling => Knows(s, d)

Run(x, plan) == StartPartial(Bulk(Finalize(x, plan), plan), plan)
Ended(x, d, plan) == MaybeCheckpoint(x, [d EXCEPT !.at = plan.at, !.warned = x.warned])

\* The carving from a place on, and the checkpoint that may follow it.
LEMMA Finished ==
    ASSUME NEW x, IsX(x), NEW d, Shape(d), Spaced(x.sim, d), x.sim.toolpath = d.cached,
           d.built.program \in 1..d.cached,
           NEW plan, NEW from, NEW target, Sound(plan, from, target, d.cached),
           plan.at \in Stops(d.cached), SamePlace(d.cached, target, plan.at),
           Owns(d) => from[2] # 2 /\ Holds(x.sim.field, d.cached, from) /\ Restores(x.sim, d),
           Owns(d) /\ Telling => Recalls(x.sim, d) /\ x.warned = Earned(d.cached, from)
    PROVE  LET y == Run(x, plan)
               m == Ended(y, d, plan)
           IN /\ Moves(x, y) /\ m.sim.field = y.sim.field /\ Driven(m.sim, m.driver)
              /\ m.driver.built = d.built /\ m.driver.cached = d.cached /\ m.driver.at = plan.at
              /\ m.driver.warned = y.warned
  <1> DEFINE p == d.cached
             y == Run(x, plan)
             e == [d EXCEPT !.at = plan.at, !.warned = y.warned]
             m == MaybeCheckpoint(y, e)
  <1>1. Sound(plan, from, target, x.sim.toolpath)
      BY DEF Sound
  <1>2. Moves(x, y) /\ (from[2] # 2 => Reaches(x, y, from, target))
      BY <1>1, RunsTo DEF Run
  <1> HIDE DEF y
  <1>3. e = [built |-> d.built, cached |-> p, at |-> plan.at, warned |-> y.warned,
             interval |-> d.interval, lastCheckpoint |-> d.lastCheckpoint, warnedAt |-> d.warnedAt]
    <2> DEFINE a == plan.at
               w == y.warned
               v == [built |-> d.built, cached |-> p, at |-> a, warned |-> d.warned,
                     interval |-> d.interval, lastCheckpoint |-> d.lastCheckpoint, warnedAt |-> d.warnedAt]
    <2> HIDE DEF a, w
    <2>1. [d EXCEPT !.at = a] = v
        BY DEF Shape
    <2>2. e = [[d EXCEPT !.at = a] EXCEPT !.warned = w]
        BY DEF a, w
    <2>3. [v EXCEPT !.warned = w] =
              [built |-> d.built, cached |-> p, at |-> a, warned |-> w,
               interval |-> d.interval, lastCheckpoint |-> d.lastCheckpoint, warnedAt |-> d.warnedAt]
        OBVIOUS
    <2> HIDE DEF v, e
    <2> QED
        BY <2>1, <2>2, <2>3 DEF a, w
  <1> HIDE DEF e
  <1>4. /\ e.built = d.built /\ e.cached = p /\ e.at = plan.at /\ e.warned = y.warned
        /\ e.interval = d.interval /\ e.lastCheckpoint = d.lastCheckpoint /\ e.warnedAt = d.warnedAt
      BY <1>3
  <1>5. IsX(y) /\ y.sim.toolpath = p /\ y.sim.checkpoints = x.sim.checkpoints
      BY <1>2 DEF Moves
  <1>6. Shape(e) /\ Spaced(y.sim, e) /\ e.at \in Stops(e.cached)
      BY <1>3, <1>4, <1>5 DEF Shape, Spaced
  <1>7. ASSUME Owns(d)
        PROVE  /\ Holds(y.sim.field, p, plan.at) /\ Restores(y.sim, e)
               /\ Telling => Recalls(y.sim, e) /\ y.warned = Earned(p, plan.at)
    <2>1. Reaches(x, y, from, target)
        BY <1>2, <1>7
    <2>2. Holds(y.sim.field, p, target)
        BY <1>7, <2>1 DEF Reaches
    <2>3. Holds(y.sim.field, p, plan.at)
        BY <2>2 DEF Holds, SamePlace
    <2>4. Restores(y.sim, e)
        BY <1>4, <1>5, <1>7 DEF Restores
    <2>5. ASSUME Telling PROVE Recalls(y.sim, e) /\ y.warned = Earned(p, plan.at)
      <3>1. Tells(x, p, from)
          BY <1>7, <2>5 DEF Tells, Recalls
      <3>2. Tells(y, p, target)
          BY <2>1, <3>1 DEF Reaches
      <3>3. Recalls(y.sim, e)
          BY <1>4, <1>5, <1>7, <2>5, <3>2 DEF Recalls, Tells
      <3> QED
          BY <3>2, <3>3 DEF Tells, SamePlace
    <2> QED
        BY <2>3, <2>4, <2>5
  <1>8. /\ IsSim(m.sim) /\ m.sim.toolpath = p /\ m.sim.field = y.sim.field
        /\ m.sim.cache = y.sim.cache
        /\ Shape(m.driver) /\ m.driver.built = d.built /\ m.driver.cached = p
        /\ m.driver.at = plan.at /\ m.driver.warned = y.warned
        /\ Spaced(m.sim, m.driver)
        /\ Restores(y.sim, e) /\ Holds(y.sim.field, p, plan.at) => Restores(m.sim, m.driver)
        /\ Recalls(y.sim, e) /\ y.warned = Earned(p, plan.at) => Recalls(m.sim, m.driver)
    <2>1. y.sim.toolpath = e.cached
        BY <1>4, <1>5
    <2>2. LET n == MaybeCheckpoint(y, e)
          IN /\ IsSim(n.sim) /\ n.sim.toolpath = e.cached /\ n.sim.field = y.sim.field
             /\ n.sim.cache = y.sim.cache
             /\ Shape(n.driver) /\ n.driver.built = e.built /\ n.driver.cached = e.cached
             /\ n.driver.at = e.at /\ n.driver.warned = e.warned
             /\ Spaced(n.sim, n.driver)
             /\ Restores(y.sim, e) /\ Holds(y.sim.field, e.cached, e.at) => Restores(n.sim, n.driver)
             /\ Recalls(y.sim, e) /\ y.warned = Earned(e.cached, e.at) => Recalls(n.sim, n.driver)
        BY <1>5, <1>6, <2>1, Checkpointed
    <2> QED
        BY <1>4, <2>2
  <1> HIDE DEF m
  <1>9. Owns(m.driver) => Keeps(m.sim, m.driver)
      BY <1>7, <1>8 DEF Owns, Keeps
  <1>10. Owns(m.driver) /\ Telling => Knows(m.sim, m.driver)
      BY <1>7, <1>8 DEF Owns, Knows
  <1>11. Driven(m.sim, m.driver)
      BY <1>8, <1>9, <1>10 DEF Driven
  <1> QED
      BY <1>2, <1>8, <1>11 DEF m, e, y, Ended

(* Going back to a checkpoint or to the start.                             *)
LEMMA RewoundIs ==
    ASSUME NEW s, NEW d, Driven(s, d), NEW r \in Nat, r > 0 => r \in DOMAIN s.checkpoints
    PROVE  LET x == Rewound([sim |-> s, warned |-> d.warned, region |-> {}], d, r)
           IN /\ IsX(x) /\ x.sim.toolpath = d.cached /\ x.sim.checkpoints = s.checkpoints
              /\ Owns(d) => Holds(x.sim.field, d.cached, <<r, 0>>)
              /\ Owns(d) /\ Telling => CacheTrue(x.sim) /\ x.warned = Earned(d.cached, <<r, 0>>)
  <1> DEFINE p == d.cached
             x0 == [sim |-> s, warned |-> d.warned, region |-> {}]
             x == Rewound(x0, d, r)
             f == IF r > 0 THEN s.checkpoints[r] ELSE UncutField
             D == IF r > 0 THEN Cells ELSE {}
             t == SimRec(f, p, {}, D, s.cache, s.checkpoints)
             w == IF r > 0 THEN d.warnedAt[r] ELSE {}
  <1>0. IsSim(s) /\ s.toolpath = p /\ p \in DOMAIN Programs /\ Length(p) \in Nat \ {0}
      BY ProgramIs DEF Driven, IsSim
  <1>1. x = [sim |-> t, warned |-> w, region |-> {}]
    <2>1. s = SimRec(s.field, p, s.last, s.dirty, s.cache, s.checkpoints)
        BY <1>0 DEF IsSim
    <2>2. CASE r > 0
      <3> DEFINE g == s.checkpoints[r]
                 a == SimRec(g, p, s.last, s.dirty, s.cache, s.checkpoints)
                 b == SimRec(g, p, {}, s.dirty, s.cache, s.checkpoints)
      <3> HIDE DEF g
      <3>1. Restored(s, r) = [[[s EXCEPT !.field = g] EXCEPT !.last = {}] EXCEPT !.dirty = Cells]
          BY DEF Restored, g
      <3>2. [s EXCEPT !.field = g] = a
          BY <2>1 DEF SimRec
      <3>3. [a EXCEPT !.last = {}] = b
          BY DEF SimRec
      <3>4. [b EXCEPT !.dirty = Cells] = SimRec(g, p, {}, Cells, s.cache, s.checkpoints)
          BY DEF SimRec
      <3> HIDE DEF a, b
      <3>5. Restored(s, r) = t
          BY <2>2, <3>1, <3>2, <3>3, <3>4 DEF g
      <3> QED
          BY <2>2, <3>5 DEF Rewound
    <2>3. CASE ~(r > 0)
      <3> DEFINE a == SimRec(UncutField, p, s.last, s.dirty, s.cache, s.checkpoints)
                 b == SimRec(UncutField, p, {}, s.dirty, s.cache, s.checkpoints)
      <3>1. SimReset(s) = [[[s EXCEPT !.field = UncutField] EXCEPT !.last = {}] EXCEPT !.dirty = {}]
          BY DEF SimReset
      <3>2. [s EXCEPT !.field = UncutField] = a
          BY <2>1 DEF SimRec
      <3>3. [a EXCEPT !.last = {}] = b
          BY DEF SimRec
      <3>4. [b EXCEPT !.dirty = {}] = SimRec(UncutField, p, {}, {}, s.cache, s.checkpoints)
          BY DEF SimRec
      <3> HIDE DEF a, b
      <3>5. SimReset(s) = t
          BY <2>3, <3>1, <3>2, <3>3, <3>4
      <3> QED
          BY <2>3, <3>5 DEF Rewound
    <2> QED
        BY <2>2, <2>3
  <1>2. f \in Field /\ D \in SUBSET Cells
      BY <1>0, UncutIs DEF IsSim
  <1> HIDE DEF f, D, t, w, x
  <1>3. /\ t.field = f /\ t.toolpath = p /\ t.last = {} /\ t.dirty = D
        /\ t.cache = s.cache /\ t.checkpoints = s.checkpoints
      BY SimRecIs DEF t
  <1>4. IsSim(t)
      BY <1>0, <1>2, <1>3 DEF IsSim, t
  <1>5. x.sim = t /\ x.warned = w /\ x.region = {}
      BY <1>1
  <1>6. IsX(x)
      BY <1>1, <1>4, <1>5 DEF IsX
  <1>7. ASSUME Owns(d) PROVE Holds(f, p, <<r, 0>>)
    <2>1. CASE r > 0
        BY <1>7, <2>1 DEF Driven, Keeps, Restores, f
    <2>2. CASE ~(r > 0)
      <3>1. f = UncutField /\ <<r, 0>> = Start /\ 0 \in Nat
          BY <2>2 DEF f, Start
      <3>2. \A c : Remaining(p, Start, c) = Slabs
          BY RemainingIs, <3>1
      <3> QED
          BY <3>1, <3>2, UncutIs DEF Holds
    <2> QED
        BY <2>1, <2>2
  <1>8. ASSUME Owns(d), Telling PROVE CacheTrue(t) /\ w = Earned(p, <<r, 0>>)
    <2>0. CacheTrue(t)
        BY <1>0, <1>3, <1>8 DEF Driven, Knows, Recalls, CacheTrue
    <2>1. CASE r > 0
        BY <1>8, <2>0, <2>1 DEF Driven, Knows, Recalls, w
    <2>2. CASE ~(r > 0)
      <3>1. w = {} /\ <<r, 0>> = Start /\ 0 \in 0..Length(p) - 1
          BY <1>0, <2>2 DEF w, Start
      <3>2. Earned(p, Start) = {}
          BY <1>0, <3>1, EarnedIs
      <3> QED
          BY <2>0, <3>1, <3>2
    <2> QED
        BY <2>1, <2>2
  <1> QED
      BY <1>3, <1>5, <1>6, <1>7, <1>8 DEF x

(* The program changed under the driver: nothing is kept, nothing is owned. *)
LEMMA RecachedIs ==
    ASSUME NEW x, IsX(x), NEW d, Shape(d), NEW p \in DOMAIN Programs, d.cached # p
    PROVE  LET r == Recached(x, d, p)
           IN /\ IsX(r.x) /\ r.x.sim.toolpath = p /\ Shape(r.driver) /\ r.driver.cached = p
              /\ r.driver.built = d.built /\ Spaced(r.x.sim, r.driver)
              /\ r.x.sim.field = x.sim.field /\ r.x.region = x.region
  <1> DEFINE s == x.sim
             t == SetToolpath(s, p)
             y == [x EXCEPT !.sim = t]
             e == ResetCheckpoints([d EXCEPT !.cached = p], Length(p))
             r == Recached(x, d, p)
  <1>0. Length(p) \in Nat \ {0} /\ IsSim(s)
      BY ProgramIs DEF IsX
  <1>1. r = [x |-> y, driver |-> e]
      BY DEF Recached, IsX
  <1>2. t = SimRec(s.field, p, s.last, s.dirty, <<>>, <<>>)
    <2> DEFINE a == SimRec(s.field, p, s.last, s.dirty, s.cache, s.checkpoints)
               b == SimRec(s.field, p, s.last, s.dirty, <<>>, s.checkpoints)
    <2>1. t = [[[s EXCEPT !.toolpath = p] EXCEPT !.cache = <<>>] EXCEPT !.checkpoints = <<>>]
        BY DEF SetToolpath
    <2>2. [s EXCEPT !.toolpath = p] = a
        BY <1>0 DEF IsSim, SimRec
    <2>3. [a EXCEPT !.cache = <<>>] = b
        BY DEF SimRec
    <2>4. [b EXCEPT !.checkpoints = <<>>] = SimRec(s.field, p, s.last, s.dirty, <<>>, <<>>)
        BY DEF SimRec
    <2> HIDE DEF a, b, t
    <2> QED
        BY <2>1, <2>2, <2>3, <2>4
  <1>3. y = [sim |-> t, warned |-> x.warned, region |-> x.region]
      BY DEF IsX
  <1>4. e = [built |-> d.built, cached |-> p, at |-> d.at, warned |-> d.warned,
             interval |-> Interval(Length(p)), lastCheckpoint |-> 0, warnedAt |-> <<>>]
    <2> DEFINE i == Interval(Length(p))
               a == [built |-> d.built, cached |-> p, at |-> d.at, warned |-> d.warned,
                     interval |-> d.interval, lastCheckpoint |-> d.lastCheckpoint, warnedAt |-> d.warnedAt]
               b == [built |-> d.built, cached |-> p, at |-> d.at, warned |-> d.warned,
                     interval |-> i, lastCheckpoint |-> d.lastCheckpoint, warnedAt |-> d.warnedAt]
               g == [built |-> d.built, cached |-> p, at |-> d.at, warned |-> d.warned,
                     interval |-> i, lastCheckpoint |-> 0, warnedAt |-> d.warnedAt]
    <2> HIDE DEF i
    <2>1. [d EXCEPT !.cached = p] = a
        BY DEF Shape
    <2>2. [a EXCEPT !.interval = i] = b /\ [b EXCEPT !.lastCheckpoint = 0] = g
        OBVIOUS
    <2>3. [g EXCEPT !.warnedAt = <<>>] =
              [built |-> d.built, cached |-> p, at |-> d.at, warned |-> d.warned,
               interval |-> i, lastCheckpoint |-> 0, warnedAt |-> <<>>]
        OBVIOUS
    <2>4. e = ResetCheckpoints(a, Length(p))
        BY <2>1
    <2> HIDE DEF a, b, g, e
    <2>5. ResetCheckpoints(a, Length(p)) =
              [[[a EXCEPT !.interval = i] EXCEPT !.lastCheckpoint = 0] EXCEPT !.warnedAt = <<>>]
        BY DEF ResetCheckpoints, i
    <2> QED
        BY <2>2, <2>3, <2>4, <2>5 DEF i
  <1> HIDE DEF t, y, e, r
  <1>5. /\ t.field = s.field /\ t.toolpath = p /\ t.last = s.last /\ t.dirty = s.dirty
        /\ t.cache = <<>> /\ t.checkpoints = <<>>
      BY <1>2, SimRecIs
  <1>6. DOMAIN <<>> = {}
      OBVIOUS
  <1>7. IsSim(t)
      BY <1>0, <1>2, <1>5, <1>6 DEF IsSim
  <1>8. y.sim = t /\ y.warned = x.warned /\ y.region = x.region
      BY <1>3
  <1>9. IsX(y)
      BY <1>3, <1>7, <1>8 DEF IsX
  <1>10. /\ e.built = d.built /\ e.cached = p /\ e.interval = Interval(Length(p))
         /\ e.lastCheckpoint = 0 /\ e.warnedAt = <<>> /\ Shape(e)
      BY <1>4 DEF Shape
  <1>11. Spaced(t, e)
    <2>1. Interval(Length(p)) \in Nat
        BY <1>0, IntervalIs
    <2>2. Cardinality({}) * Interval(Length(p)) = 0
        BY <2>1, FS_EmptySet
    <2> QED
        BY <1>0, <1>5, <1>6, <1>10, <2>2 DEF Spaced
  <1>12. r.x = y /\ r.driver = e
      BY <1>1
  <1> QED
      BY <1>5, <1>8, <1>9, <1>10, <1>11, <1>12 DEF r

\* How the mesh is told: all of it after going back, else what changed.
Redrawing(m, old, n, new) ==
    \/ \E between : n = UpdateHeights(UpdateHeights(m, between, Cells), new, Cells)
    \/ \E R \in SUBSET Cells :
           /\ n = UpdateHeights(m, new, R)
           /\ \A c \in Cells : new[c] # old[c] => c \in R

Stays(st, target, exact) ==
    target = st.driver.at \/ (Backward(st.driver.at, target) /\ ~exact)

LEMMA AdvancedIs ==
    ASSUME NEW st, Driven(st.sim, st.driver), NEW p \in DOMAIN Programs, st.driver.cached <= p,
           NEW target \in Places(p), NEW exact \in BOOLEAN
    PROVE  LET new == AdvanceTo(st, target, p, exact)
           IN /\ Stays(st, target, exact) => new = st
              /\ ~Stays(st, target, exact) =>
                    /\ Driven(new.sim, new.driver) /\ new.driver.built = st.driver.built
                    /\ new.driver.cached = p /\ Done(new.driver.at) = Done(target)
                    /\ \/ new.warnings = <<new.driver.warned>>
                       \/ new.warnings = st.warnings /\ new.driver.warned = st.driver.warned
                    /\ Redrawing(st.mesh, st.sim.field.top, new.mesh, new.sim.field.top)
  <1> DEFINE new == AdvanceTo(st, target, p, exact)
             d == st.driver
             s == st.sim
             q == d.cached
             back == Backward(d.at, target)
             replayFrom == IF back /\ exact /\ d.interval > 0 THEN NearestCheckpoint(s, target[1]) ELSE 0
             plan == Plan(d.at, target, Length(p), replayFrom)
             x0 == [sim |-> s, warned |-> d.warned, region |-> {}]
             x1 == IF plan.reset THEN Rewound(x0, d, replayFrom) ELSE x0
             drawn == IF plan.reset THEN UpdateHeights(st.mesh, x1.sim.field.top, Cells) ELSE st.mesh
             r == Recached(x1, d, p)
             x2 == StartPartial(Bulk(Finalize(r.x, plan), plan), plan)
             done == MaybeCheckpoint(x2, [r.driver EXCEPT !.at = plan.at, !.warned = x2.warned])
             R == IF x2.region = {} \/ plan.reset THEN Cells ELSE x2.region
             W == IF plan.reset \/ x2.warned # d.warned THEN <<x2.warned>> ELSE st.warnings
             from == From(d.at, target, replayFrom)
  <1>0. /\ target = <<target[1], target[2]>> /\ target[1] \in 0..Length(p) - 1 /\ target[1] \in Nat
        /\ target[2] \in 0..2 /\ Length(p) \in Nat \ {0}
      BY PlaceIs, ProgramIs
  <1>1. /\ IsSim(s) /\ Shape(d) /\ s.toolpath = q /\ q \in DOMAIN Programs /\ Length(q) \in Nat \ {0}
        /\ d.built.program \in 1..q /\ d.at \in Stops(q) /\ Spaced(s, d)
      BY ProgramIs DEF Driven, IsSim
  <1>2. d.at \in Nat \X (0..2)
      BY <1>1 DEF Stops
  <1>3. q \in Nat /\ p \in Nat /\ q <= p
    <2>1. Len(Programs) \in Nat /\ DOMAIN Programs = 1..Len(Programs)
        BY PlaybackAssumption
    <2> QED
        BY <1>1, <2>1
  <1>4. new = IF target = d.at \/ (plan.reset /\ ~exact) THEN st
              ELSE [sim |-> done.sim, driver |-> done.driver,
                    mesh |-> UpdateHeights(drawn, x2.sim.field.top, R), warnings |-> W]
      BY DEF AdvanceTo, Arrived
  <1>5. replayFrom \in Nat /\ replayFrom <= target[1] /\ (replayFrom > 0 => replayFrom \in DOMAIN s.checkpoints)
      BY <1>0, <1>1, NearestIs
  <1>6. plan.reset <=> back
    <2>1. CASE d.at # target
        BY <1>2, <1>5, <2>1, PlanIs
    <2>2. CASE d.at = target
        BY DEF Plan
    <2> QED
        BY <2>1, <2>2
  <1> HIDE DEF new, replayFrom
  <1>7. ASSUME Stays(st, target, exact) PROVE new = st
      BY <1>4, <1>6, <1>7 DEF Stays
  <1>8. ASSUME ~Stays(st, target, exact)
        PROVE  /\ Driven(new.sim, new.driver) /\ new.driver.built = d.built
               /\ new.driver.cached = p /\ Done(new.driver.at) = Done(target)
               /\ \/ new.warnings = <<new.driver.warned>>
                  \/ new.warnings = st.warnings /\ new.driver.warned = d.warned
               /\ Redrawing(st.mesh, s.field.top, new.mesh, new.sim.field.top)
    <2>0. d.at # target /\ (back => exact)
        BY <1>8 DEF Stays
    <2>1. /\ Sound(plan, from, target, p)
          /\ plan.at \in Stops(p) /\ SamePlace(p, target, plan.at)
        BY <1>2, <1>5, <2>0, PlanIs
    <2>2. /\ IsX(x1) /\ x1.sim.toolpath = q /\ x1.sim.checkpoints = s.checkpoints
          /\ Owns(d) => Holds(x1.sim.field, q, from)
          /\ Owns(d) /\ Telling => CacheTrue(x1.sim) /\ x1.warned = Earned(q, from)
          /\ ~plan.reset => x1.sim.field = s.field
      <3>1. CASE back
        <4>1. x1 = Rewound(x0, d, replayFrom) /\ from = <<replayFrom, 0>> /\ plan.reset
            BY <1>6, <3>1 DEF From
        <4> HIDE DEF x1, from, plan
        <4> QED
            BY <1>5, <4>1, RewoundIs
      <3>2. CASE ~back
        <4>1. x1 = x0 /\ from = d.at /\ x0.sim = s /\ x0.warned = d.warned /\ x0.region = {}
            BY <1>6, <3>2 DEF From
        <4>2. IsX(x0)
            BY <1>1 DEF IsX
        <4> HIDE DEF x1, from, plan, x0
        <4> QED
            BY <1>1, <4>1, <4>2 DEF Driven, Keeps, Knows, Recalls
      <3> QED
          BY <3>1, <3>2
    <2>3. ASSUME p = q PROVE from[2] # 2
      <3>1. CASE back
          BY <3>1 DEF From
      <3>2. CASE ~back
        <4>1. from = d.at /\ (d.at[2] = 2 => d.at = <<Length(p) - 1, 2>>)
            BY <1>1, <2>3, <3>2 DEF From, Stops, End
        <4>2. ASSUME d.at = <<Length(p) - 1, 2>> PROVE FALSE
          <5>1. ~(target[1] < Length(p) - 1) /\ ~(target[1] = Length(p) - 1 /\ target[2] < 2)
              BY <3>2, <4>2 DEF Backward, Earlier
          <5>2. target[1] = Length(p) - 1 /\ target[2] = 2
              BY <1>0, <5>1
          <5> QED
              BY <1>0, <2>0, <4>2, <5>2
        <4> HIDE DEF from
        <4> QED
            BY <4>1, <4>2
      <3> QED
          BY <3>1, <3>2
    <2> HIDE DEF x1, x0, from, plan, back
    <2>4. /\ IsX(r.x) /\ Shape(r.driver) /\ Spaced(r.x.sim, r.driver)
          /\ r.driver.cached = p /\ r.x.sim.toolpath = p /\ r.driver.built = d.built
          /\ d.built.program \in 1..p /\ r.x.sim.field = x1.sim.field
          /\ Owns(r.driver) => from[2] # 2 /\ Holds(r.x.sim.field, p, from) /\ Restores(r.x.sim, r.driver)
          /\ Owns(r.driver) /\ Telling => Recalls(r.x.sim, r.driver) /\ r.x.warned = Earned(p, from)
      <3>0. d.built.program \in 1..p
          BY <1>1, <1>3
      <3>1. CASE q = p
        <4>1. r = [x |-> x1, driver |-> d]
            BY <3>1 DEF Recached
        <4>2. r.x = x1 /\ r.driver = d
            BY <4>1
        <4> HIDE DEF r
        <4>3. Spaced(x1.sim, d)
            BY <1>1, <2>2 DEF Spaced
        <4>4. Owns(d) => Restores(x1.sim, d)
            BY <2>2 DEF Driven, Keeps, Restores
        <4>5. Owns(d) /\ Telling => Recalls(x1.sim, d)
            BY <2>2 DEF Driven, Knows, Recalls
        <4> QED
            BY <1>1, <2>2, <2>3, <3>0, <3>1, <4>2, <4>3, <4>4, <4>5
      <3>2. CASE q # p
        <4>1. /\ IsX(r.x) /\ r.x.sim.toolpath = p /\ Shape(r.driver) /\ r.driver.cached = p
              /\ r.driver.built = d.built /\ Spaced(r.x.sim, r.driver)
              /\ r.x.sim.field = x1.sim.field /\ r.x.region = x1.region
            BY <1>1, <2>2, <3>2, RecachedIs
        <4> HIDE DEF r
        <4>2. ~Owns(r.driver)
            BY <1>1, <1>3, <3>2, <4>1 DEF Owns
        <4> QED
            BY <3>0, <4>1, <4>2
      <3> QED
          BY <3>1, <3>2
    <2> HIDE DEF r
    <2>5. /\ Moves(r.x, x2) /\ done.sim.field = x2.sim.field /\ Driven(done.sim, done.driver)
          /\ done.driver.built = d.built /\ done.driver.cached = p /\ done.driver.at = plan.at
          /\ done.driver.warned = x2.warned
      <3>1. /\ IsX(r.x) /\ Shape(r.driver) /\ Spaced(r.x.sim, r.driver)
            /\ r.x.sim.toolpath = r.driver.cached /\ r.driver.built.program \in 1..r.driver.cached
            /\ Sound(plan, from, target, r.driver.cached) /\ plan.at \in Stops(r.driver.cached)
            /\ SamePlace(r.driver.cached, target, plan.at)
            /\ Owns(r.driver) => from[2] # 2 /\ Holds(r.x.sim.field, r.driver.cached, from)
                                 /\ Restores(r.x.sim, r.driver)
            /\ Owns(r.driver) /\ Telling =>
                  Recalls(r.x.sim, r.driver) /\ r.x.warned = Earned(r.driver.cached, from)
          BY <2>1, <2>4
      <3> DEFINE y == Run(r.x, plan)
                 m == Ended(y, r.driver, plan)
      <3>2. /\ Moves(r.x, y) /\ m.sim.field = y.sim.field /\ Driven(m.sim, m.driver)
            /\ m.driver.built = r.driver.built /\ m.driver.cached = r.driver.cached
            /\ m.driver.at = plan.at /\ m.driver.warned = y.warned
          BY <3>1, Finished
      <3>3. y = x2 /\ m = done
          BY DEF Run, Ended
      <3> HIDE DEF y, m, x2, done
      <3> QED
          BY <2>4, <3>2, <3>3
    <2> HIDE DEF x2, done
    <2>6. new = [sim |-> done.sim, driver |-> done.driver,
                 mesh |-> UpdateHeights(drawn, x2.sim.field.top, R), warnings |-> W]
        BY <1>4, <1>6, <2>0
    <2>7. Redrawing(st.mesh, s.field.top, UpdateHeights(drawn, x2.sim.field.top, R), x2.sim.field.top)
      <3>1. CASE plan.reset
          BY <3>1 DEF Redrawing
      <3>2. CASE ~plan.reset
        <4>1. drawn = st.mesh /\ R \in SUBSET Cells
            BY <2>5, <3>2 DEF Moves, IsX
        <4>2. \A c \in Cells : x2.sim.field.top[c] # s.field.top[c] => c \in R
            BY <2>2, <2>4, <2>5, <3>2 DEF Moves
        <4> HIDE DEF R, drawn
        <4> QED
            BY <4>1, <4>2 DEF Redrawing
      <3> QED
          BY <3>1, <3>2
    <2>8. W = <<x2.warned>> \/ (W = st.warnings /\ x2.warned = d.warned)
        OBVIOUS
    <2>9. Done(plan.at) = Done(target)
        BY <2>1 DEF SamePlace
    <2> HIDE DEF R, W, drawn
    <2>10. /\ new.sim = done.sim /\ new.driver = done.driver /\ new.warnings = W
           /\ new.mesh = UpdateHeights(drawn, x2.sim.field.top, R)
        BY <2>6
    <2> QED
        BY <2>5, <2>7, <2>8, <2>9, <2>10
  <1> QED
      BY <1>7, <1>8 DEF new

-----------------------------------------------------------------------------
(* The mesh *)

FaceRec(f) == f = [top |-> f.top, wall |-> f.wall]
LevelShape(l, k) ==
    /\ l = [faces |-> l.faces, ranges |-> l.ranges, dropped |-> l.dropped, dirty |-> l.dirty,
            card |-> l.card, sent |-> l.sent]
    /\ l.faces = [c \in 1..Width(k) |-> l.faces[c]] /\ \A c \in 1..Width(k) : FaceRec(l.faces[c])
    /\ l.ranges \in SUBSET (1..Width(k)) /\ l.sent \in BOOLEAN /\ l.dirty \in BOOLEAN
    /\ l.sent => l.card = [c \in 1..Width(k) |-> l.card[c]]
    /\ l.sent /\ ~l.dirty => l.ranges = {}
MeshShape(m) ==
    /\ m = [level |-> m.level, levels |-> m.levels, view |-> m.view]
    /\ m.level \in Levels /\ m.view \in BOOLEAN
    /\ m.levels = [k \in Levels |-> m.levels[k]]
    /\ \A k \in Levels : LevelShape(m.levels[k], k)

\* What waits for the next frame, or was dropped, is all the card has not got.
LevelTrue(l, tops, k) ==
    /\ l.faces = FacesOf(Pool(tops, k))
    /\ l.sent => \A c \in 1..Width(k) : l.card[c] # l.faces[c] => c \in l.ranges \cup l.dropped
MeshTrue(m, tops) ==
    \A k \in Levels : k = m.level \/ ~m.view => LevelTrue(m.levels[k], tops, k)

LEMMA ChildrenAre ==
    ASSUME NEW k \in Levels
    PROVE  /\ Width(k) \in Nat
           /\ \A c \in 1..Width(k) : Children(k, c) \in SUBSET Cells /\ Children(k, c) # {}
  <1>0. Columns \in Nat \ {0} /\ Cells = 1..Columns
      BY DexelAssumption DEF Cells
  <1>1. CASE k = 0
      BY <1>0, <1>1 DEF Width, Children
  <1>2. CASE k = 1
    <2>1. Width(k) = (Columns + 1) \div 2 /\ Width(k) \in Nat
        BY <1>0, <1>2 DEF Width
    <2>2. ASSUME NEW c \in 1..Width(k) PROVE Children(k, c) \in SUBSET Cells /\ Children(k, c) # {}
      <3>1. 2 * c <= Columns + 1
          BY <1>0, <2>1
      <3>2. 2 * c - 1 \in Cells
          BY <1>0, <2>1, <3>1
      <3> QED
          BY <1>2, <3>2 DEF Children
    <2> QED
        BY <2>1, <2>2
  <1> QED
      BY <1>1, <1>2 DEF Levels

\* Columns that keep their tops keep the height of the cell over them.
LEMMA PoolKeeps ==
    ASSUME NEW k \in Levels, NEW old, NEW new, NEW c \in 1..Width(k),
           \A x \in Children(k, c) : new[x] = old[x]
    PROVE  Pool(new, k)[c] = Pool(old, k)[c]
  <1>1. {new[x] : x \in Children(k, c)} = {old[x] : x \in Children(k, c)}
      OBVIOUS
  <1> QED
      BY <1>1 DEF Pool

LEMMA FacesAre ==
    ASSUME NEW k \in Levels, NEW tops
    PROVE  LET h == Pool(tops, k)
               f == FacesOf(h)
           IN /\ h = [c \in 1..Width(k) |-> h[c]] /\ f = [c \in 1..Width(k) |-> f[c]]
              /\ \A c \in 1..Width(k) : /\ f[c] = [top |-> h[c], wall |-> WallOf(h, c)]
                                        /\ FaceRec(f[c])
  <1> DEFINE h == Pool(tops, k)
  <1>1. DOMAIN h = 1..Width(k) /\ h = [c \in 1..Width(k) |-> h[c]]
      BY DEF Pool
  <1> HIDE DEF h
  <1> QED
      BY <1>1 DEF FacesOf, FaceRec, h

LEMMA RedrawnIs ==
    ASSUME NEW k \in Levels, NEW l, LevelShape(l, k), NEW tops, NEW R \in SUBSET (1..Width(k))
    PROVE  LET n == Redrawn(l, Pool(tops, k), R)
           IN /\ LevelShape(n, k)
              /\ R = 1..Width(k) => LevelTrue(n, tops, k)
              /\ \A old : (/\ LevelTrue(l, old, k)
                           /\ (\A c \in 1..Width(k) \ R : Pool(tops, k)[c] = Pool(old, k)[c]))
                       => LevelTrue(n, tops, k)
  <1> DEFINE h == Pool(tops, k)
             w == 1..Width(k)
             n == Redrawn(l, h, R)
             faces == [c \in w |-> [top |-> IF c \in R THEN h[c] ELSE l.faces[c].top,
                                    wall |-> IF c \in Redraws(R) THEN WallOf(h, c) ELSE l.faces[c].wall]]
             lost == IF l.sent THEN (l.dropped \cup l.ranges) \ Redraws(R) ELSE {}
             goal == FacesOf(h)
  <1>0. Width(k) \in Nat
      BY ChildrenAre
  <1>1. DOMAIN l.faces = w /\ \A c \in w : FaceRec(l.faces[c])
      BY DEF LevelShape
  <1>2. n = [faces |-> faces, ranges |-> Redraws(R), dropped |-> lost, dirty |-> TRUE,
             card |-> l.card, sent |-> l.sent]
    <2> DEFINE g == [c \in DOMAIN l.faces |->
                        [top |-> IF c \in R THEN h[c] ELSE l.faces[c].top,
                         wall |-> IF c \in Redraws(R) THEN WallOf(h, c) ELSE l.faces[c].wall]]
               rs == Redraws(R)
               yes == TRUE
               Of(f, r, d, y) == [faces |-> f, ranges |-> r, dropped |-> d, dirty |-> y,
                                  card |-> l.card, sent |-> l.sent]
    <2>1. n = [l EXCEPT !.faces = g, !.ranges = rs, !.dropped = lost, !.dirty = yes]
        BY DEF Redrawn
    <2>2. g = faces
        BY <1>1
    <2> HIDE DEF g, rs, n, yes, lost
    <2>3. n = [[[[l EXCEPT !.faces = g] EXCEPT !.ranges = rs] EXCEPT !.dropped = lost] EXCEPT !.dirty = yes]
        BY <2>1
    <2>4. [l EXCEPT !.faces = g] = Of(g, l.ranges, l.dropped, l.dirty)
        BY DEF LevelShape
    <2>5. [Of(g, l.ranges, l.dropped, l.dirty) EXCEPT !.ranges = rs] = Of(g, rs, l.dropped, l.dirty)
        OBVIOUS
    <2>6. [Of(g, rs, l.dropped, l.dirty) EXCEPT !.dropped = lost] = Of(g, rs, lost, l.dirty)
        OBVIOUS
    <2>7. [Of(g, rs, lost, l.dirty) EXCEPT !.dirty = yes] = Of(g, rs, lost, yes)
        OBVIOUS
    <2>8. n = Of(g, rs, lost, yes)
        BY <2>3, <2>4, <2>5, <2>6, <2>7
    <2> QED
        BY <2>2, <2>8 DEF rs, yes
  <1>3. /\ goal = [c \in w |-> goal[c]]
        /\ \A c \in w : goal[c] = [top |-> h[c], wall |-> WallOf(h, c)]
      BY FacesAre
  <1>4. DOMAIN h = w
      BY DEF Pool
  <1> HIDE DEF goal, n
  <1>5. /\ n.faces = faces /\ n.ranges = Redraws(R) /\ n.dropped = lost
        /\ n.dirty = TRUE /\ n.card = l.card /\ n.sent = l.sent
      BY <1>2
  <1>6. Redraws(R) \in SUBSET w /\ R \subseteq Redraws(R)
    <2>1. \A c \in w : c \in Int /\ c >= 1 /\ c <= Width(k)
        BY <1>0
    <2>2. \A c \in R : c \in w /\ c # 0 /\ (c - 1 = 0 \/ c - 1 \in w)
        BY <1>0, <2>1
    <2> QED
        BY <2>2 DEF Redraws
  <1>7. /\ faces = [c \in w |-> faces[c]]
        /\ \A c \in w : FaceRec(faces[c])
      BY DEF FaceRec
  <1> HIDE DEF faces, w
  <1>8. LevelShape(n, k)
      BY <1>2, <1>5, <1>6, <1>7 DEF LevelShape, w
  <1>9. ASSUME R = w PROVE LevelTrue(n, tops, k)
    <2>1. \A c \in w : faces[c] = goal[c]
        BY <1>3, <1>6, <1>9 DEF faces
    <2>2. faces = goal
        BY <1>3, <1>7, <2>1
    <2>3. \A c \in w : c \in n.ranges
        BY <1>5, <1>6, <1>9
    <2> QED
        BY <1>5, <2>2, <2>3 DEF LevelTrue, goal, h, w
  <1>10. ASSUME NEW old, LevelTrue(l, old, k),
                \A c \in w \ R : h[c] = Pool(old, k)[c]
         PROVE  LevelTrue(n, tops, k)
    <2> DEFINE g == Pool(old, k)
    <2>1. /\ DOMAIN g = w
          /\ \A c \in w : l.faces[c] = [top |-> g[c], wall |-> WallOf(g, c)]
      <3>1. l.faces = FacesOf(g)
          BY <1>10 DEF LevelTrue
      <3>2. DOMAIN g = w
          BY DEF Pool, w
      <3>3. \A c \in w : FacesOf(g)[c] = [top |-> g[c], wall |-> WallOf(g, c)]
          BY FacesAre DEF w
      <3> QED
          BY <3>1, <3>2, <3>3
    <2>2. \A c \in w \ R : h[c] = g[c]
        BY <1>10
    <2> HIDE DEF h, g
    <2>3. \A c \in w : c \notin Redraws(R) => c \notin R /\ c + 1 \notin R
      <3>1. \A c \in w : c # 0 /\ (c + 1) - 1 = c
          BY <1>0 DEF w
      <3> QED
          BY <3>1 DEF Redraws
    <2>4. \A c \in w : c \notin Redraws(R) => WallOf(h, c) = WallOf(g, c)
        BY <1>4, <2>1, <2>2, <2>3 DEF WallOf
    <2>5. \A c \in w : faces[c] = goal[c]
      <3> TAKE c \in w
      <3>1. goal[c] = [top |-> h[c], wall |-> WallOf(h, c)]
          BY <1>3 DEF h
      <3> DEFINE f == l.faces[c]
                 v == WallOf(g, c)
      <3>0. f = [top |-> g[c], wall |-> v]
          BY <2>1
      <3> HIDE DEF f, v
      <3>9. f.top = g[c] /\ f.wall = v
          BY <3>0
      <3>2. l.faces[c].top = g[c] /\ l.faces[c].wall = WallOf(g, c)
          BY <3>9 DEF f, v
      <3>3. faces[c] = [top |-> IF c \in R THEN h[c] ELSE l.faces[c].top,
                        wall |-> IF c \in Redraws(R) THEN WallOf(h, c) ELSE l.faces[c].wall]
          BY DEF faces, h
      <3>4. (IF c \in R THEN h[c] ELSE l.faces[c].top) = h[c]
          BY <2>2, <3>2
      <3>5. (IF c \in Redraws(R) THEN WallOf(h, c) ELSE l.faces[c].wall) = WallOf(h, c)
          BY <2>4, <3>2
      <3> QED
          BY <3>1, <3>3, <3>4, <3>5
    <2>6. faces = goal
        BY <1>3, <1>7, <2>5
    <2>7. ASSUME l.sent, NEW c \in w, l.card[c] # faces[c] PROVE c \in Redraws(R) \cup lost
      <3> SUFFICES ASSUME c \notin Redraws(R) PROVE c \in lost
          OBVIOUS
      <3>1. faces[c] = l.faces[c]
          BY <1>3, <2>1, <2>2, <2>3, <2>4, <2>5
      <3>2. c \in l.ranges \cup l.dropped
          BY <1>10, <2>7, <3>1 DEF LevelTrue, w
      <3> QED
          BY <2>7, <3>2
    <2> HIDE DEF lost
    <2> QED
        BY <1>5, <2>6, <2>7 DEF LevelTrue, goal, h, w
  <1> QED
      BY <1>8, <1>9, <1>10 DEF n, w, h

LEMMA PyramidIs ==
    ASSUME NEW m, MeshShape(m), NEW tops, NEW R \in SUBSET Cells
    PROVE  LET n == UpdateHeights(m, tops, R)
           IN /\ MeshShape(n) /\ n.level = m.level /\ n.view = TRUE
              /\ R = Cells => LevelTrue(n.levels[m.level], tops, m.level)
              /\ \A old : (/\ LevelTrue(m.levels[m.level], old, m.level)
                           /\ (\A c \in Cells : tops[c] # old[c] => c \in R))
                       => LevelTrue(n.levels[m.level], tops, m.level)
  <1> DEFINE k == m.level
             n == UpdateHeights(m, tops, R)
             region == {c \in 1..Width(k) : Children(k, c) \cap R # {}}
             l == Redrawn(m.levels[k], Pool(tops, k), region)
  <1>0. k \in Levels /\ LevelShape(m.levels[k], k) /\ region \in SUBSET (1..Width(k))
      BY DEF MeshShape
  <1>1. \A c \in 1..Width(k) : Children(k, c) \in SUBSET Cells /\ Children(k, c) # {}
      BY <1>0, ChildrenAre
  <1>2. R = Cells => region = 1..Width(k)
      BY <1>1
  <1>3. ASSUME NEW old, \A c \in Cells : tops[c] # old[c] => c \in R
        PROVE  \A c \in 1..Width(k) \ region : Pool(tops, k)[c] = Pool(old, k)[c]
    <2> TAKE c \in 1..Width(k) \ region
    <2>1. \A x \in Children(k, c) : tops[x] = old[x]
        BY <1>1, <1>3
    <2> QED
        BY <1>0, <2>1, PoolKeeps
  <1>4. /\ LevelShape(l, k)
        /\ region = 1..Width(k) => LevelTrue(l, tops, k)
        /\ \A old : (/\ LevelTrue(m.levels[k], old, k)
                     /\ (\A c \in 1..Width(k) \ region : Pool(tops, k)[c] = Pool(old, k)[c]))
                 => LevelTrue(l, tops, k)
      BY <1>0, RedrawnIs
  <1> HIDE DEF l
  <1>5. CASE region = {}
    <2>1. n = [m EXCEPT !.view = TRUE]
        BY <1>5 DEF UpdateHeights
    <2> HIDE DEF n
    <2>2. n = [level |-> k, levels |-> m.levels, view |-> TRUE]
        BY <2>1 DEF MeshShape
    <2>3. n.level = k /\ n.levels = m.levels /\ n.view = TRUE
        BY <2>2
    <2>4. MeshShape(n)
        BY <2>2, <2>3 DEF MeshShape
    <2>5. R # Cells
      <3>1. 1 \in Cells /\ Columns \in Nat \ {0}
          BY DexelAssumption DEF Cells
      <3>2. 1 \in 1..Width(k)
          BY <1>0, <3>1 DEF Levels, Width
      <3> QED
          BY <1>2, <1>5, <3>2
    <2>6. ASSUME NEW old, LevelTrue(m.levels[k], old, k), \A c \in Cells : tops[c] # old[c] => c \in R
          PROVE  LevelTrue(m.levels[k], tops, k)
      <3>1. \A c \in 1..Width(k) : Pool(tops, k)[c] = Pool(old, k)[c]
          BY <1>3, <1>5, <2>6
      <3>2. Pool(tops, k) = Pool(old, k)
          BY <1>0, <3>1, FacesAre
      <3> QED
          BY <2>6, <3>2 DEF LevelTrue
    <2> QED
        BY <2>3, <2>4, <2>5, <2>6 DEF n
  <1>6. CASE region # {}
    <2> DEFINE levels == [j \in Levels |-> IF j = k THEN l ELSE m.levels[j]]
    <2>1. n = [m EXCEPT !.view = TRUE, !.levels[k] = Redrawn(@, Pool(tops, k), region)]
        BY <1>6 DEF UpdateHeights
    <2> HIDE DEF n
    <2>2. n = [level |-> k, levels |-> levels, view |-> TRUE]
        BY <2>1 DEF MeshShape, l
    <2>3. n.level = k /\ n.levels = levels /\ n.view = TRUE /\ levels[k] = l
        BY <1>0, <2>2
    <2>4. MeshShape(n)
      <3>1. \A j \in Levels : LevelShape(levels[j], j)
          BY <1>4 DEF MeshShape
      <3> QED
          BY <1>0, <2>2, <2>3, <3>1 DEF MeshShape
    <2>5. R = Cells => LevelTrue(l, tops, k)
        BY <1>2, <1>4
    <2>6. ASSUME NEW old, LevelTrue(m.levels[k], old, k),
                 \A c \in Cells : tops[c] # old[c] => c \in R
          PROVE  LevelTrue(l, tops, k)
        BY <1>3, <1>4, <2>6
    <2> QED
        BY <2>3, <2>4, <2>5, <2>6 DEF n
  <1> QED
      BY <1>5, <1>6

(* However advanceTo tells the mesh, the mesh is true again.               *)
LEMMA RedrawingIs ==
    ASSUME NEW m, MeshShape(m), NEW old, NEW n, NEW new, Redrawing(m, old, n, new)
    PROVE  /\ MeshShape(n)
           /\ MeshTrue(m, old) => MeshTrue(n, new)
  <1>0. Cells \in SUBSET Cells
      OBVIOUS
  <1>1. ASSUME NEW between, n = UpdateHeights(UpdateHeights(m, between, Cells), new, Cells)
        PROVE  MeshShape(n) /\ MeshTrue(n, new)
    <2> DEFINE u == UpdateHeights(m, between, Cells)
    <2>1. MeshShape(u)
        BY <1>0, PyramidIs
    <2> HIDE DEF u
    <2>2. n = UpdateHeights(u, new, Cells)
        BY <1>1 DEF u
    <2>3. /\ MeshShape(n) /\ n.level = u.level /\ n.view = TRUE
          /\ LevelTrue(n.levels[u.level], new, u.level)
        BY <1>0, <2>1, <2>2, PyramidIs
    <2> QED
        BY <2>3 DEF MeshTrue
  <1>2. ASSUME NEW R \in SUBSET Cells, n = UpdateHeights(m, new, R),
               \A c \in Cells : new[c] # old[c] => c \in R
        PROVE  /\ MeshShape(n)
               /\ MeshTrue(m, old) => MeshTrue(n, new)
    <2>1. /\ MeshShape(n) /\ n.level = m.level /\ n.view = TRUE
          /\ LevelTrue(m.levels[m.level], old, m.level)
                => LevelTrue(n.levels[m.level], new, m.level)
        BY <1>2, PyramidIs
    <2>2. MeshTrue(m, old) => LevelTrue(m.levels[m.level], old, m.level)
        BY DEF MeshTrue, MeshShape
    <2> QED
        BY <2>1, <2>2 DEF MeshTrue
  <1> QED
      BY <1>1, <1>2 DEF Redrawing

LEMMA NewMeshIs ==
    MeshShape(NewMesh) /\ MeshTrue(NewMesh, UncutField.top)
  <1>1. ASSUME NEW k \in Levels
        PROVE  /\ LevelShape(NewLevel(k), k) /\ LevelTrue(NewLevel(k), UncutField.top, k)
    <2> DEFINE h == Pool(UncutField.top, k)
               g == [c \in 1..Width(k) |-> StockTop]
               l == NewLevel(k)
    <2>1. \A c \in 1..Width(k) : h[c] = StockTop
      <3> TAKE c \in 1..Width(k)
      <3>1. {UncutField.top[x] : x \in Children(k, c)} = {StockTop}
          BY ChildrenAre, UncutIs
      <3>2. Min({StockTop}) = StockTop
        <4>1. \A y \in {StockTop} : StockTop <= y
            BY DexelAssumption
        <4>2. \A x \in {StockTop} : x = StockTop
            OBVIOUS
        <4> QED
            BY <4>1, <4>2 DEF Min
      <3> QED
          BY <3>1, <3>2 DEF Pool
    <2>2. h = g
        BY <2>1, FacesAre
    <2> DEFINE f == FacesOf(h)
    <2>3. f = [c \in 1..Width(k) |-> f[c]] /\ \A c \in 1..Width(k) : FaceRec(f[c])
        BY FacesAre
    <2>4. l = [faces |-> f, ranges |-> {}, dropped |-> {}, dirty |-> FALSE, card |-> f, sent |-> FALSE]
        BY <2>2 DEF NewLevel
    <2> HIDE DEF l, f
    <2>5. l.faces = f /\ l.ranges = {} /\ l.dirty = FALSE /\ l.card = f /\ l.sent = FALSE
        BY <2>4
    <2>6. LevelShape(l, k)
        BY <2>3, <2>4, <2>5 DEF LevelShape
    <2> QED
        BY <2>5, <2>6 DEF LevelTrue, l, f
  <1>2. NewMesh.level = 0 /\ NewMesh.levels = [k \in Levels |-> NewLevel(k)] /\ NewMesh.view = FALSE
      BY DEF NewMesh
  <1>3. 0 \in Levels
      BY DEF Levels
  <1>4. MeshShape(NewMesh)
      BY <1>1, <1>2, <1>3 DEF MeshShape, NewMesh
  <1> QED
      BY <1>1, <1>2, <1>3, <1>4 DEF MeshTrue

LEMMA SwitchIs ==
    ASSUME NEW m, MeshShape(m), NEW tops, NEW k \in Levels
    PROVE  LET n == SetActiveLevel(m, tops, k)
           IN MeshShape(n) /\ (MeshTrue(m, tops) => MeshTrue(n, tops))
  <1> DEFINE u == [m EXCEPT !.level = k]
             n == SetActiveLevel(m, tops, k)
  <1>1. u = [level |-> k, levels |-> m.levels, view |-> m.view]
      BY DEF MeshShape
  <1> HIDE DEF u
  <1>2. u.level = k /\ u.levels = m.levels /\ u.view = m.view
      BY <1>1
  <1>3. MeshShape(u)
      BY <1>1, <1>2 DEF MeshShape
  <1>4. CASE m.view
    <2>1. n = UpdateHeights(u, tops, Cells)
        BY <1>4 DEF SetActiveLevel, u
    <2> HIDE DEF n
    <2>2. /\ MeshShape(n) /\ n.level = u.level /\ n.view = TRUE
          /\ LevelTrue(n.levels[u.level], tops, u.level)
      <3>1. Cells \in SUBSET Cells
          OBVIOUS
      <3> QED
          BY <1>3, <2>1, <3>1, PyramidIs
    <2> QED
        BY <1>2, <2>2 DEF MeshTrue, n
  <1>5. CASE ~m.view
    <2>1. n = u
        BY <1>5 DEF SetActiveLevel, u
    <2> QED
        BY <1>2, <1>3, <1>5, <2>1 DEF MeshTrue
  <1> QED
      BY <1>4, <1>5 DEF MeshShape

LEMMA FrameIs ==
    ASSUME NEW m, MeshShape(m), NEW tops
    PROVE  MeshShape(Frame(m)) /\ (MeshTrue(m, tops) => MeshTrue(Frame(m), tops))
  <1> DEFINE k == m.level
             l == m.levels[k]
             w == 1..Width(k)
             card == IF ~l.sent THEN l.faces
                     ELSE [c \in DOMAIN l.card |-> IF c \in l.ranges THEN l.faces[c] ELSE l.card[c]]
             e == Drawn(l)
             n == Frame(m)
             levels == [j \in Levels |-> IF j = k THEN e ELSE m.levels[j]]
  <1>0. k \in Levels /\ LevelShape(l, k)
      BY DEF MeshShape
  <1>1. e = [faces |-> l.faces, ranges |-> {}, dropped |-> l.dropped, dirty |-> FALSE,
             card |-> card, sent |-> TRUE]
    <2> DEFINE yes == TRUE
               no == FALSE
               Of(r, y, c, s) == [faces |-> l.faces, ranges |-> r, dropped |-> l.dropped, dirty |-> y,
                                  card |-> c, sent |-> s]
    <2>1. e = [l EXCEPT !.card = card, !.sent = yes, !.ranges = {}, !.dirty = no]
        BY DEF Drawn
    <2>0. l = Of(l.ranges, l.dirty, l.card, l.sent)
        BY <1>0 DEF LevelShape
    <2> HIDE DEF card, e, yes, no, l, w
    <2>2. e = [[[[l EXCEPT !.card = card] EXCEPT !.sent = yes] EXCEPT !.ranges = {}] EXCEPT !.dirty = no]
        BY <2>1
    <2>3. [l EXCEPT !.card = card] = Of(l.ranges, l.dirty, card, l.sent)
        BY <2>0
    <2>4. [Of(l.ranges, l.dirty, card, l.sent) EXCEPT !.sent = yes] = Of(l.ranges, l.dirty, card, yes)
        OBVIOUS
    <2>5. [Of(l.ranges, l.dirty, card, yes) EXCEPT !.ranges = {}] = Of({}, l.dirty, card, yes)
        OBVIOUS
    <2>6. [Of({}, l.dirty, card, yes) EXCEPT !.dirty = no] = Of({}, no, card, yes)
        OBVIOUS
    <2>7. e = Of({}, no, card, yes)
        BY <2>2, <2>3, <2>4, <2>5, <2>6
    <2> QED
        BY <2>7 DEF yes, no
  <1>2. n = [level |-> k, levels |-> levels, view |-> m.view]
      BY DEF Frame, MeshShape
  <1> HIDE DEF e, n
  <1>3. /\ e.faces = l.faces /\ e.ranges = {} /\ e.dropped = l.dropped
        /\ e.dirty = FALSE /\ e.card = card /\ e.sent = TRUE
      BY <1>1
  <1>4. n.level = k /\ n.levels = levels /\ n.view = m.view
      BY <1>2
  <1>5. card = [c \in w |-> card[c]]
    <2>1. CASE ~l.sent
        BY <1>0, <2>1 DEF LevelShape
    <2>2. CASE l.sent
        BY <1>0, <2>2 DEF LevelShape
    <2> QED
        BY <2>1, <2>2
  <1>6. LevelTrue(l, tops, k) => \A c \in w : card[c] # l.faces[c] => c \in l.dropped
    <2>1. CASE ~l.sent
        BY <2>1
    <2>2. CASE l.sent
      <3>1. DOMAIN l.card = w
          BY <1>0, <2>2 DEF LevelShape
      <3> QED
          BY <2>2, <3>1 DEF LevelTrue
    <2> QED
        BY <2>1, <2>2
  <1> HIDE DEF card
  <1>7. LevelShape(e, k)
    <2>1. /\ l.faces = [c \in w |-> l.faces[c]] /\ \A c \in w : FaceRec(l.faces[c])
          /\ {} \in SUBSET w
        BY <1>0 DEF LevelShape
    <2> QED
        BY <1>1, <1>3, <1>5, <2>1 DEF LevelShape
  <1>8. MeshShape(n)
    <2>1. \A j \in Levels : LevelShape(levels[j], j)
        BY <1>7 DEF MeshShape
    <2> HIDE DEF levels
    <2>2. levels = [j \in Levels |-> levels[j]]
        BY DEF levels
    <2> QED
        BY <1>0, <1>2, <1>4, <2>1, <2>2 DEF MeshShape
  <1>9. LevelTrue(l, tops, k) => LevelTrue(e, tops, k)
      BY <1>3, <1>6 DEF LevelTrue
  <1>10. ASSUME MeshTrue(m, tops) PROVE MeshTrue(n, tops)
    <2>1. LevelTrue(e, tops, k)
        BY <1>0, <1>9, <1>10 DEF MeshTrue
    <2> QED
        BY <1>4, <1>10, <2>1 DEF MeshTrue
  <1> QED
      BY <1>8, <1>10 DEF n

\* A mesh that is true and up to date shows the field where nothing was dropped.
LEMMA ShownIs ==
    ASSUME NEW m, MeshShape(m), NEW tops, MeshTrue(m, tops), UpToDate(m)
    PROVE  ShowsTops(m, tops)
  <1> DEFINE k == m.level
             l == m.levels[k]
             f == FacesOf(Pool(tops, k))
  <1>1. k \in Levels /\ LevelShape(l, k) /\ LevelTrue(l, tops, k) /\ l.sent /\ l.ranges = {}
      BY DEF MeshShape, MeshTrue, UpToDate, LevelShape
  <1>2. DOMAIN f = 1..Width(k)
      BY <1>1, FacesAre
  <1> HIDE DEF l, f
  <1>3. l.faces = f /\ \A c \in 1..Width(k) : l.card[c] # l.faces[c] => c \in l.dropped
      BY <1>1 DEF LevelTrue, f
  <1>4. \A c \in DOMAIN f \ l.dropped : l.card[c] = f[c]
      BY <1>2, <1>3
  <1> QED
      BY <1>4 DEF ShowsTops, l, f

-----------------------------------------------------------------------------
(* The invariant *)

AppOf(p, v, s, h, e, m) ==
    [program |-> p, version |-> v, stock |-> s, playhead |-> h, exact |-> e, mode |-> m]
AppInv(a) ==
    /\ a = AppOf(a.program, a.version, a.stock, a.playhead, a.exact, a.mode)
    /\ a.version \in DOMAIN Programs /\ a.program \in {0, a.version} /\ a.stock \in Int
    /\ a.playhead \in Places(a.version) /\ a.exact \in BOOLEAN

\* Whatever waits to be built has been generated.
Jobs(v) == [program : 1..v, key : [version : Int, stock : Int]]

\* The warnings published are those gathered, when both are the program's own.
Told(d, w, p) ==
    Telling /\ Owns(d) /\ d.built.program = p /\ w # NotRun => w = <<d.warned>>
Reached(d, a) ==
    a.program = d.cached =>
        Done(a.playhead) \subseteq Done(d.at) /\ (a.exact => Done(d.at) = Done(a.playhead))
Agrees(s, d, w, a) ==
    Driven(s, d) /\ d.cached <= a.version /\ Reached(d, a) /\ Told(d, w, a.program)

PlayInv ==
    /\ AppInv(app) /\ edits \in 0..MaxEdits
    /\ timer # NoBuild => timer \in Jobs(app.version)
    /\ waiting \in Seq(Jobs(app.version))
    /\ MeshShape(mesh)
    /\ sim # None => /\ Agrees(sim, driver, warnings, app)
                     /\ MeshTrue(mesh, sim.field.top)

LEMMA VersionIs ==
    ASSUME NEW p \in DOMAIN Programs
    PROVE  p \in Nat \ {0} /\ Len(Programs) \in Nat /\ p <= Len(Programs)
  <1>1. Len(Programs) \in Nat /\ DOMAIN Programs = 1..Len(Programs)
      BY PlaybackAssumption
  <1> QED
      BY <1>1

LEMMA AppOfIs ==
    ASSUME NEW p, NEW v, NEW s, NEW h, NEW e, NEW m
    PROVE  LET a == AppOf(p, v, s, h, e, m)
           IN /\ a.program = p /\ a.version = v /\ a.stock = s
              /\ a.playhead = h /\ a.exact = e /\ a.mode = m
  BY DEF AppOf

LEMMA SimIsSome ==
    ASSUME NEW s, IsSim(s)
    PROVE  s # None
  <1>1. s.toolpath # 0
      BY VersionIs DEF IsSim
  <1>2. None.toolpath = 0
      BY DEF None
  <1> QED
      BY <1>1, <1>2

(* Moving the solid to a place of the program keeps all there is to keep.  *)
LEMMA EffectIs ==
    ASSUME NEW st, Driven(st.sim, st.driver), NEW p \in DOMAIN Programs, st.driver.cached <= p,
           NEW target \in Places(p), NEW exact \in BOOLEAN, MeshShape(st.mesh),
           MeshTrue(st.mesh, st.sim.field.top),
           Told(st.driver, st.warnings, p)
    PROVE  LET new == AdvanceTo(st, target, p, exact)
           IN /\ Driven(new.sim, new.driver) /\ new.driver.cached <= p /\ new.driver.built = st.driver.built
              /\ new.driver.cached = p =>
                    /\ Done(target) \subseteq Done(new.driver.at)
                    /\ exact \/ ~Backward(st.driver.at, target) => Done(new.driver.at) = Done(target)
              /\ Told(new.driver, new.warnings, p)
              /\ MeshShape(new.mesh) /\ MeshTrue(new.mesh, new.sim.field.top)
  <1> DEFINE new == AdvanceTo(st, target, p, exact)
             d == st.driver
  <1>0. /\ Stays(st, target, exact) => new = st
        /\ ~Stays(st, target, exact) =>
              /\ Driven(new.sim, new.driver) /\ new.driver.built = st.driver.built
              /\ new.driver.cached = p /\ Done(new.driver.at) = Done(target)
              /\ \/ new.warnings = <<new.driver.warned>>
                 \/ new.warnings = st.warnings /\ new.driver.warned = st.driver.warned
              /\ Redrawing(st.mesh, st.sim.field.top, new.mesh, new.sim.field.top)
      BY AdvancedIs
  <1> HIDE DEF new
  <1>1. CASE Stays(st, target, exact)
    <2>1. target \in Nat \X (0..2) /\ d.at \in Nat \X (0..2)
      <3>1. d.at \in Stops(d.cached) /\ Length(d.cached) \in Nat
          BY ProgramIs DEF Driven, IsSim
      <3> QED
          BY <3>1, PlaceIs DEF Stops
    <2>2. Backward(d.at, target) => Done(target) \subseteq Done(d.at)
        BY <2>1, DoneGrows DEF Backward
    <2>3. target = d.at \/ (Backward(d.at, target) /\ ~exact)
        BY <1>1 DEF Stays
    <2> QED
        BY <1>0, <1>1, <2>2, <2>3 DEF new
  <1>2. CASE ~Stays(st, target, exact)
    <2>1. MeshShape(new.mesh) /\ MeshTrue(new.mesh, new.sim.field.top)
        BY <1>0, <1>2, RedrawingIs
    <2>2. Told(new.driver, new.warnings, p)
      <3> SUFFICES ASSUME Telling, Owns(new.driver), new.driver.built.program = p, new.warnings # NotRun,
                          new.warnings # <<new.driver.warned>>
                   PROVE  FALSE
          BY DEF Told
      <3>1. new.warnings = st.warnings /\ new.driver.warned = d.warned /\ d.built.program = p
          BY <1>0, <1>2
      <3>2. Owns(d)
        <4>1. p \in Nat /\ d.cached \in Nat
            BY VersionIs DEF Driven, IsSim
        <4>2. d.built.program \in 1..d.cached
            BY DEF Driven
        <4> QED
            BY <3>1, <4>1, <4>2 DEF Owns
      <3> QED
          BY <3>1, <3>2 DEF Told
    <2>3. p <= p
        BY VersionIs
    <2> QED
        BY <1>0, <1>2, <2>1, <2>2, <2>3 DEF new
  <1> QED
      BY <1>1, <1>2

DriverOf(b, c, a, w, i, l, r) ==
    [built |-> b, cached |-> c, at |-> a, warned |-> w, interval |-> i, lastCheckpoint |-> l,
     warnedAt |-> r]

LEMMA DriverOfIs ==
    ASSUME NEW b, NEW c, NEW a, NEW w, NEW i, NEW l, NEW r
    PROVE  LET d == DriverOf(b, c, a, w, i, l, r)
           IN /\ Shape(d) /\ d.built = b /\ d.cached = c /\ d.at = a /\ d.warned = w /\ d.interval = i
              /\ d.lastCheckpoint = l /\ d.warnedAt = r
  BY DEF DriverOf, Shape

(* A new simulator has cut nothing.                                        *)
LEMMA BuiltIs ==
    ASSUME NEW p \in DOMAIN Programs, NEW stock
    PROVE  LET st == Built(p, stock)
           IN /\ Driven(st.sim, st.driver) /\ st.driver.cached = p /\ st.driver.built.program = p
              /\ st.driver.at = Start
              /\ MeshShape(st.mesh) /\ MeshTrue(st.mesh, st.sim.field.top)
              /\ Told(st.driver, st.warnings, p)
  <1> DEFINE st == Built(p, stock)
             i == Interval(Length(p))
             key == [program |-> p, stock |-> stock]
             s == NewSim(p)
             d == ResetCheckpoints([NoDriver EXCEPT !.built = key, !.cached = p], Length(p))
             zero == 0
             nothing == {}
             empty == <<>>
             D(b, c, n) == DriverOf(b, c, Start, nothing, n, zero, empty)
  <1>0. Length(p) \in Nat \ {0} /\ p \in Nat \ {0}
      BY ProgramIs, VersionIs
  <1>1. st = [sim |-> s, driver |-> d, mesh |-> NewMesh, warnings |-> <<{}>>]
      BY DEF Built
  <1>2. d = D(key, p, i)
    <2> DEFINE none == [program |-> 0, stock |-> 0]
    <2>1. [NoDriver EXCEPT !.built = key, !.cached = p] = [[NoDriver EXCEPT !.built = key] EXCEPT !.cached = p]
        OBVIOUS
    <2>0. NoDriver = D(none, zero, zero)
        BY DEF NoDriver, DriverOf
    <2> HIDE DEF none, i, key, zero, nothing, empty
    <2>2. [NoDriver EXCEPT !.built = key] = D(key, zero, zero)
        BY <2>0 DEF DriverOf
    <2>3. [D(key, zero, zero) EXCEPT !.cached = p] = D(key, p, zero)
        BY DEF DriverOf
    <2>4. ResetCheckpoints(D(key, p, zero), Length(p)) =
              [[[D(key, p, zero) EXCEPT !.interval = i] EXCEPT !.lastCheckpoint = zero]
                  EXCEPT !.warnedAt = empty]
        BY DEF ResetCheckpoints, i, zero, empty
    <2>5. [D(key, p, zero) EXCEPT !.interval = i] = D(key, p, i)
        BY DEF DriverOf
    <2>6. [D(key, p, i) EXCEPT !.lastCheckpoint = zero] = D(key, p, i)
        BY DEF DriverOf
    <2>7. [D(key, p, i) EXCEPT !.warnedAt = empty] = D(key, p, i)
        BY DEF DriverOf
    <2>8. d = ResetCheckpoints(D(key, p, zero), Length(p))
        BY <2>1, <2>2, <2>3
    <2> HIDE DEF d, D
    <2> QED
        BY <2>4, <2>5, <2>6, <2>7, <2>8
  <1>3. s = SimRec(UncutField, p, {}, {}, <<>>, <<>>)
      BY DEF NewSim, SimRec
  <1> HIDE DEF st, i, s, d
  <1>4. /\ d.built = key /\ d.cached = p /\ d.at = Start /\ d.warned = {} /\ d.interval = i
        /\ d.lastCheckpoint = 0 /\ d.warnedAt = <<>> /\ Shape(d)
    <2> HIDE DEF key, zero, nothing, empty
    <2>1. /\ d.built = key /\ d.cached = p /\ d.at = Start /\ d.warned = nothing /\ d.interval = i
          /\ d.lastCheckpoint = zero /\ d.warnedAt = empty /\ Shape(d)
        BY <1>2, DriverOfIs
    <2> QED
        BY <2>1 DEF zero, nothing, empty
  <1>5. /\ s.field = UncutField /\ s.toolpath = p /\ s.last = {} /\ s.dirty = {}
        /\ s.cache = <<>> /\ s.checkpoints = <<>>
      BY <1>3, SimRecIs
  <1>6. DOMAIN <<>> = {}
      OBVIOUS
  <1>7. IsSim(s)
      BY <1>3, <1>5, <1>6, UncutIs DEF IsSim
  <1>8. Spaced(s, d)
    <2>1. i \in Nat
        BY <1>0, IntervalIs DEF i
    <2>2. Cardinality({}) * i = 0
        BY <2>1, FS_EmptySet
    <2> QED
        BY <1>0, <1>4, <1>5, <1>6, <2>2 DEF Spaced, i
  <1>9. d.at \in Stops(p)
      BY <1>4, EndIs
  <1>10. Keeps(s, d)
    <2>1. \A c : Remaining(p, Start, c) = Slabs
      <3>1. 0 \in Nat
          OBVIOUS
      <3> QED
          BY <3>1, RemainingIs
    <2> QED
        BY <1>4, <1>5, <1>6, <2>1, UncutIs DEF Keeps, Holds, Restores
  <1>11. Telling => Knows(s, d)
    <2>1. 0 \in 0..Length(p) - 1
        BY <1>0
    <2>2. Earned(p, Start) = {}
        BY <2>1, EarnedIs
    <2> QED
        BY <1>4, <1>5, <1>6, <2>2 DEF Knows, Recalls, CacheTrue
  <1>12. key.program = p /\ p \in 1..p
      BY <1>0
  <1>13. Driven(s, d)
      BY <1>4, <1>5, <1>7, <1>8, <1>9, <1>10, <1>11, <1>12 DEF Driven
  <1>14. st.sim = s /\ st.driver = d /\ st.mesh = NewMesh /\ st.warnings = <<{}>>
      BY <1>1
  <1>15. Told(d, <<{}>>, p)
      BY <1>4 DEF Told
  <1> QED
      BY <1>4, <1>5, <1>12, <1>13, <1>14, <1>15, NewMeshIs DEF st

LEMMA PlayInit == Init => PlayInv
  <1> SUFFICES ASSUME Init PROVE PlayInv
      OBVIOUS
  <1>1. 1 \in DOMAIN Programs
    <2>1. Len(Programs) \in Nat /\ DOMAIN Programs = 1..Len(Programs) /\ Len(Programs) # 0
        BY PlaybackAssumption
    <2> QED
        BY <2>1
  <1> DEFINE yes == TRUE
             solid == "solid"
             one == 1
  <1>2. app = AppOf(one, one, one, End(1), yes, solid) /\ yes \in BOOLEAN
      BY DEF Init, AppOf
  <1> HIDE DEF yes, solid, one
  <1>3. /\ app.program = 1 /\ app.version = 1 /\ app.stock = 1 /\ app.playhead = End(1)
        /\ app.exact = yes /\ app.mode = solid
    <2>1. /\ app.program = one /\ app.version = one /\ app.stock = one /\ app.playhead = End(1)
          /\ app.exact = yes /\ app.mode = solid
        BY <1>2, AppOfIs
    <2> QED
        BY <2>1 DEF one
  <1>4. AppInv(app)
    <2>1. app = AppOf(app.program, app.version, app.stock, app.playhead, app.exact, app.mode)
        BY <1>2, <1>3 DEF one
    <2> QED
        BY <1>1, <1>2, <1>3, <2>1, EndIs DEF AppInv
  <1>5. timer \in Jobs(app.version) /\ waiting \in Seq(Jobs(app.version))
    <2>1. timer = [program |-> 1, key |-> [version |-> 1, stock |-> 1]] /\ waiting = <<>>
        BY <1>3 DEF Init, Key
    <2> QED
        BY <1>3, <2>1 DEF Jobs
  <1>6. sim = None /\ mesh = NewMesh /\ edits \in 0..MaxEdits
      BY PlaybackAssumption DEF Init
  <1> QED
      BY <1>4, <1>5, <1>6, NewMeshIs DEF PlayInv

(* The effects *)

LEMMA JobsGrow ==
    ASSUME NEW v \in Nat, NEW w \in Nat, v <= w
    PROVE  Jobs(v) \subseteq Jobs(w) /\ Seq(Jobs(v)) \subseteq Seq(Jobs(w))
  <1>1. Jobs(v) \subseteq Jobs(w)
      BY DEF Jobs
  <1> QED
      BY <1>1

LEMMA Rebuilding ==
    ASSUME NEW a, AppInv(a), RebuildEffect(a)
    PROVE  timer' = timer \/ timer' \in Jobs(a.version)
  <1>1. CASE a.mode = "wireframe" \/ a.program = 0 \/ Key(a) = lastKey
      BY <1>1 DEF RebuildEffect
  <1>2. CASE ~(a.mode = "wireframe" \/ a.program = 0 \/ Key(a) = lastKey)
    <2>1. timer' = [program |-> a.program, key |-> [version |-> a.version, stock |-> a.stock]]
        BY <1>2 DEF RebuildEffect, Key
    <2>2. a.program \in 1..a.version /\ a.version \in Int /\ a.stock \in Int
        BY <1>2, VersionIs DEF AppInv
    <2> QED
        BY <2>1, <2>2 DEF Jobs
  <1> QED
      BY <1>1, <1>2

(* What the playhead effect leaves, from what it finds.                    *)
LEMMA PlayheadIs ==
    ASSUME PlayInv, NEW a, AppInv(a), app.version <= a.version, NEW published,
           PlayheadEffect(a, published),
           sim # None => Told(driver, published, a.program)
    PROVE  /\ MeshShape(mesh')
           /\ sim' # None => /\ Agrees(sim', driver', warnings', a)
                             /\ MeshTrue(mesh', sim'.field.top)
  <1> DEFINE st == [sim |-> sim, driver |-> driver, mesh |-> mesh, warnings |-> published]
             p == a.program
             new == AdvanceTo(st, a.playhead, p, a.exact)
  <1>0. st.sim = sim /\ st.driver = driver /\ st.mesh = mesh /\ st.warnings = published
      OBVIOUS
  <1>1. a.version \in Nat \ {0} /\ app.version \in Nat \ {0} /\ a.version \in DOMAIN Programs
      BY VersionIs DEF AppInv, PlayInv
  <1>2. ASSUME sim # None
        PROVE  Driven(sim, driver) /\ driver.cached \in Nat \ {0} /\ driver.cached <= a.version
    <2>1. Driven(sim, driver) /\ driver.cached <= app.version
        BY <1>2 DEF PlayInv, Agrees
    <2>2. driver.cached \in Nat \ {0}
        BY <2>1, VersionIs DEF Driven, IsSim
    <2> QED
        BY <1>1, <2>1, <2>2
  <1>3. CASE sim = None \/ p = 0
    <2>1. sim' = sim /\ driver' = driver /\ mesh' = mesh /\ warnings' = published
        BY <1>0, <1>3 DEF PlayheadEffect, Becomes
    <2>2. ASSUME sim # None PROVE Agrees(sim, driver, published, a)
        BY <1>2, <1>3, <2>2 DEF Agrees, Reached
    <2> QED
        BY <2>1, <2>2 DEF PlayInv
  <1>4. CASE sim # None /\ p # 0
    <2>1. sim' = new.sim /\ driver' = new.driver /\ mesh' = new.mesh /\ warnings' = new.warnings
        BY <1>4 DEF PlayheadEffect, Becomes
    <2>2. p = a.version /\ p \in DOMAIN Programs /\ a.playhead \in Places(p) /\ a.exact \in BOOLEAN
        BY <1>1, <1>4 DEF AppInv
    <2>9. Told(st.driver, st.warnings, p) /\ MeshShape(st.mesh) /\ Driven(st.sim, st.driver)
        BY <1>0, <1>2, <1>4 DEF PlayInv
    <2>8. MeshTrue(st.mesh, st.sim.field.top)
        BY <1>0, <1>4 DEF PlayInv
    <2>7. st.driver.cached <= p
        BY <1>0, <1>2, <1>4, <2>2
    <2> HIDE DEF st, p
    <2>4. /\ Driven(new.sim, new.driver) /\ new.driver.cached <= p /\ new.driver.built = st.driver.built
          /\ new.driver.cached = p =>
                /\ Done(a.playhead) \subseteq Done(new.driver.at)
                /\ a.exact \/ ~Backward(st.driver.at, a.playhead) => Done(new.driver.at) = Done(a.playhead)
          /\ Told(new.driver, new.warnings, p)
          /\ MeshShape(new.mesh) /\ MeshTrue(new.mesh, new.sim.field.top)
        BY <2>2, <2>7, <2>8, <2>9, EffectIs
    <2> HIDE DEF new
    <2>5. Agrees(new.sim, new.driver, new.warnings, a)
        BY <2>2, <2>4 DEF Agrees, Reached, p
    <2> QED
        BY <2>1, <2>4, <2>5
  <1> QED
      BY <1>3, <1>4

-----------------------------------------------------------------------------
(* The steps *)

\* The project after one of its fields is set.
LEMMA AppSet ==
    ASSUME NEW a, AppInv(a), NEW x
    PROVE  /\ [a EXCEPT !.program = x] = AppOf(x, a.version, a.stock, a.playhead, a.exact, a.mode)
           /\ [a EXCEPT !.stock = x] = AppOf(a.program, a.version, x, a.playhead, a.exact, a.mode)
           /\ [a EXCEPT !.playhead = x] = AppOf(a.program, a.version, a.stock, x, a.exact, a.mode)
           /\ [a EXCEPT !.exact = x] = AppOf(a.program, a.version, a.stock, a.playhead, x, a.mode)
           /\ [a EXCEPT !.mode = x] = AppOf(a.program, a.version, a.stock, a.playhead, a.exact, x)
  <1> DEFINE f == a.program
             v == a.version
             s == a.stock
             h == a.playhead
             e == a.exact
             m == a.mode
  <1>1. a = AppOf(f, v, s, h, e, m)
      BY DEF AppInv
  <1> HIDE DEF f, v, s, h, e, m
  <1>2. /\ [a EXCEPT !.program = x] = AppOf(x, v, s, h, e, m)
        /\ [a EXCEPT !.stock = x] = AppOf(f, v, x, h, e, m)
        /\ [a EXCEPT !.playhead = x] = AppOf(f, v, s, x, e, m)
      BY <1>1 DEF AppOf
  <1>3. /\ [a EXCEPT !.exact = x] = AppOf(f, v, s, h, x, m)
        /\ [a EXCEPT !.mode = x] = AppOf(f, v, s, h, e, x)
      BY <1>1 DEF AppOf
  <1> QED
      BY <1>2, <1>3 DEF f, v, s, h, e, m

\* The project after a program is generated.
LEMMA AppRenewed ==
    ASSUME NEW a, AppInv(a), NEW x, NEW y, NEW z
    PROVE  [a EXCEPT !.version = x, !.program = y, !.playhead = z] =
               AppOf(y, x, a.stock, z, a.exact, a.mode)
  <1> DEFINE f == a.program
             v == a.version
             s == a.stock
             h == a.playhead
             e == a.exact
             m == a.mode
  <1>1. a = AppOf(f, v, s, h, e, m)
      BY DEF AppInv
  <1> HIDE DEF f, v, s, h, e, m
  <1>2. [a EXCEPT !.version = x, !.program = y, !.playhead = z] = AppOf(y, x, s, z, e, m)
    <2>1. [a EXCEPT !.version = x, !.program = y, !.playhead = z] =
              [[[a EXCEPT !.version = x] EXCEPT !.program = y] EXCEPT !.playhead = z]
        OBVIOUS
    <2>2. [a EXCEPT !.version = x] = AppOf(f, x, s, h, e, m)
        BY <1>1 DEF AppOf
    <2>3. [AppOf(f, x, s, h, e, m) EXCEPT !.program = y] = AppOf(y, x, s, h, e, m)
        BY DEF AppOf
    <2>4. [AppOf(y, x, s, h, e, m) EXCEPT !.playhead = z] = AppOf(y, x, s, z, e, m)
        BY DEF AppOf
    <2> QED
        BY <2>1, <2>2, <2>3, <2>4
  <1> QED
      BY <1>2 DEF s, e, m

\* Nothing but the project's own bookkeeping and the warnings changed.
LEMMA StillAgrees ==
    ASSUME PlayInv, UNCHANGED <<sim, driver>>, NEW a, AppInv(a), app.version <= a.version,
           a.program = app.program => a.playhead = app.playhead /\ a.exact = app.exact,
           NEW w, (a.program = app.program /\ w = warnings) \/ a.program = 0
    PROVE  sim' # None => Agrees(sim', driver', w, a)
  <1> SUFFICES ASSUME sim # None PROVE Agrees(sim, driver, w, a)
      OBVIOUS
  <1>1. /\ Driven(sim, driver) /\ driver.cached <= app.version
        /\ Reached(driver, app) /\ Told(driver, warnings, app.program)
      BY DEF PlayInv, Agrees
  <1>2. driver.cached \in Nat \ {0} /\ app.version \in Nat /\ a.version \in Nat
      BY <1>1, VersionIs DEF Driven, IsSim, AppInv, PlayInv
  <1>3. driver.built.program # 0
      BY <1>1, <1>2 DEF Driven
  <1>4. CASE a.program = 0
      BY <1>1, <1>2, <1>3, <1>4 DEF Agrees, Reached, Told
  <1>5. CASE a.program = app.program /\ w = warnings
      BY <1>1, <1>2, <1>5 DEF Agrees, Reached
  <1> QED
      BY <1>4, <1>5

LEMMA ScrubStep == PlayInv /\ Scrub => PlayInv'
  <1> SUFFICES ASSUME PlayInv, Scrub PROVE PlayInv'
      OBVIOUS
  <1>1. PICK place \in Places(app.program) : app' = [app EXCEPT !.playhead = place]
      BY DEF Scrub
  <1>2. /\ AppInv(app) /\ app.program = app.version
        /\ PlayheadEffect(app', warnings) /\ UNCHANGED <<timer, waiting>> /\ edits' \in 0..MaxEdits
      BY DEF Scrub, PlayInv, AppInv, Changes
  <1>3. app' = AppOf(app.program, app.version, app.stock, place, app.exact, app.mode)
      BY <1>1, <1>2, AppSet
  <1>4. /\ app'.program = app.program /\ app'.version = app.version /\ app'.stock = app.stock
        /\ app'.playhead = place /\ app'.exact = app.exact /\ app'.mode = app.mode
      BY <1>3, AppOfIs
  <1>5. AppInv(app') /\ app.version <= app'.version
      BY <1>1, <1>2, <1>3, <1>4, VersionIs DEF AppInv
  <1>6. sim # None => Told(driver, warnings, app'.program)
      BY <1>4 DEF PlayInv, Agrees
  <1>7. /\ MeshShape(mesh')
        /\ sim' # None => /\ Agrees(sim', driver', warnings', app')
                          /\ MeshTrue(mesh', sim'.field.top)
      BY <1>2, <1>5, <1>6, PlayheadIs
  <1> QED
      BY <1>2, <1>4, <1>5, <1>7 DEF PlayInv

LEMMA ExactStep == PlayInv /\ ExactSwitched => PlayInv'
  <1> SUFFICES ASSUME PlayInv, ExactSwitched PROVE PlayInv'
      OBVIOUS
  <1> DEFINE yes == ~app.exact
  <1>1. app' = [app EXCEPT !.exact = yes] /\ yes \in BOOLEAN
      BY DEF ExactSwitched
  <1> HIDE DEF yes
  <1>2. /\ AppInv(app) /\ PlayheadEffect(app', warnings) /\ UNCHANGED <<timer, waiting>>
        /\ edits' \in 0..MaxEdits
      BY DEF ExactSwitched, PlayInv, Changes
  <1>3. app' = AppOf(app.program, app.version, app.stock, app.playhead, yes, app.mode)
      BY <1>1, <1>2, AppSet
  <1>4. /\ app'.program = app.program /\ app'.version = app.version /\ app'.stock = app.stock
        /\ app'.playhead = app.playhead /\ app'.exact = yes /\ app'.mode = app.mode
      BY <1>3, AppOfIs
  <1>5. AppInv(app') /\ app.version <= app'.version
      BY <1>1, <1>2, <1>3, <1>4, VersionIs DEF AppInv
  <1>6. sim # None => Told(driver, warnings, app'.program)
      BY <1>4 DEF PlayInv, Agrees
  <1>7. /\ MeshShape(mesh')
        /\ sim' # None => /\ Agrees(sim', driver', warnings', app')
                          /\ MeshTrue(mesh', sim'.field.top)
      BY <1>2, <1>5, <1>6, PlayheadIs
  <1> QED
      BY <1>2, <1>4, <1>5, <1>7 DEF PlayInv

LEMMA GeneratedStep == PlayInv /\ Generated => PlayInv'
  <1> SUFFICES ASSUME PlayInv, Generated PROVE PlayInv'
      OBVIOUS
  <1> DEFINE v == app.version + 1
  <1>1. app' = [app EXCEPT !.version = v, !.program = v, !.playhead = End(v)]
      BY DEF Generated
  <1>2. /\ AppInv(app) /\ RebuildEffect(app') /\ PlayheadEffect(app', NotRun)
        /\ UNCHANGED waiting /\ edits' \in 0..MaxEdits /\ app.version < Len(Programs)
      BY DEF Generated, PlayInv, Changes
  <1>3. v \in DOMAIN Programs /\ app.version \in Nat /\ v \in Nat /\ app.version <= v
    <2>1. app.version \in Nat \ {0} /\ Len(Programs) \in Nat /\ DOMAIN Programs = 1..Len(Programs)
      <3>1. Len(Programs) \in Nat /\ DOMAIN Programs = 1..Len(Programs)
          BY PlaybackAssumption
      <3> QED
          BY <1>2, <3>1, VersionIs DEF AppInv
    <2> QED
        BY <1>2, <2>1
  <1> HIDE DEF v
  <1>4. app' = AppOf(v, v, app.stock, End(v), app.exact, app.mode)
      BY <1>1, <1>2, AppRenewed
  <1>5. /\ app'.program = v /\ app'.version = v /\ app'.stock = app.stock
        /\ app'.playhead = End(v) /\ app'.exact = app.exact /\ app'.mode = app.mode
      BY <1>4, AppOfIs
  <1>6. AppInv(app') /\ app.version <= app'.version
      BY <1>2, <1>3, <1>4, <1>5, EndIs DEF AppInv
  <1>7. Told(driver, NotRun, app'.program)
      BY DEF Told
  <1>8. /\ MeshShape(mesh')
        /\ sim' # None => /\ Agrees(sim', driver', warnings', app')
                          /\ MeshTrue(mesh', sim'.field.top)
      BY <1>2, <1>6, <1>7, PlayheadIs
  <1>9. timer' = timer \/ timer' \in Jobs(app'.version)
      BY <1>2, <1>6, Rebuilding
  <1>10. Jobs(app.version) \subseteq Jobs(app'.version) /\ Seq(Jobs(app.version)) \subseteq Seq(Jobs(app'.version))
      BY <1>3, <1>5, JobsGrow
  <1> QED
      BY <1>2, <1>6, <1>8, <1>9, <1>10 DEF PlayInv

LEMMA EditStep == PlayInv /\ (StockEdited \/ Cleared \/ ModeSwitched) => PlayInv'
  <1> SUFFICES ASSUME PlayInv, StockEdited \/ Cleared \/ ModeSwitched PROVE PlayInv'
      OBVIOUS
  <1>1. /\ AppInv(app) /\ RebuildEffect(app') /\ UNCHANGED <<waiting, sim, driver, mesh>>
        /\ edits' \in 0..MaxEdits
      BY DEF StockEdited, Cleared, ModeSwitched, PlayInv, Changes
  <1>2. /\ AppInv(app') /\ app'.version = app.version
        /\ app'.playhead = app.playhead /\ app'.exact = app.exact
        /\ (app'.program = app.program /\ warnings' = warnings) \/ app'.program = 0
    <2>1. CASE StockEdited
      <3> DEFINE x == 3 - app.stock
      <3>1. app' = [app EXCEPT !.stock = x] /\ x \in Int /\ warnings' = warnings
          BY <1>1, <2>1 DEF StockEdited, AppInv
      <3> HIDE DEF x
      <3>2. app' = AppOf(app.program, app.version, x, app.playhead, app.exact, app.mode)
          BY <1>1, <3>1, AppSet
      <3> QED
          BY <1>1, <3>1, <3>2, AppOfIs DEF AppInv
    <2>2. CASE Cleared
      <3> DEFINE x == 0
      <3>1. app' = [app EXCEPT !.program = x]
          BY <2>2 DEF Cleared
      <3> HIDE DEF x
      <3>2. app' = AppOf(x, app.version, app.stock, app.playhead, app.exact, app.mode)
          BY <1>1, <3>1, AppSet
      <3>3. x = 0
          BY DEF x
      <3> QED
          BY <1>1, <3>2, <3>3, AppOfIs DEF AppInv
    <2>3. CASE ModeSwitched
      <3> DEFINE x == IF app.mode = "solid" THEN "wireframe" ELSE "solid"
      <3>1. app' = [app EXCEPT !.mode = x] /\ warnings' = warnings
          BY <2>3 DEF ModeSwitched
      <3> HIDE DEF x
      <3>2. app' = AppOf(app.program, app.version, app.stock, app.playhead, app.exact, x)
          BY <1>1, <3>1, AppSet
      <3> QED
          BY <1>1, <3>1, <3>2, AppOfIs DEF AppInv
    <2> QED
        BY <2>1, <2>2, <2>3
  <1>3. timer' = timer \/ timer' \in Jobs(app'.version)
      BY <1>1, <1>2, Rebuilding
  <1>4. sim' # None => Agrees(sim', driver', warnings', app')
    <2>1. app.version <= app'.version
        BY <1>1, <1>2, VersionIs DEF AppInv
    <2> QED
        BY <1>1, <1>2, <2>1, StillAgrees
  <1> QED
      BY <1>1, <1>2, <1>3, <1>4 DEF PlayInv

LEMMA RebuildStep == PlayInv /\ Rebuilds => PlayInv'
  <1> SUFFICES ASSUME PlayInv, Rebuilds PROVE PlayInv'
      OBVIOUS
  <1> DEFINE job == Head(waiting)
             p == job.program
             st == Built(p, app.stock)
             target == Within(app.playhead, p)
             new == AdvanceTo(st, target, p, FALSE)
  <1>1. /\ AppInv(app) /\ waiting \in Seq(Jobs(app.version)) /\ waiting # <<>>
        /\ sim' = new.sim /\ driver' = new.driver /\ mesh' = new.mesh /\ warnings' = new.warnings
        /\ waiting' = Tail(waiting) /\ UNCHANGED <<app, timer, edits>>
      BY DEF Rebuilds, Becomes, PlayInv
  <1>2. p \in 1..app.version
    <2>1. job \in Jobs(app.version)
        BY <1>1
    <2> HIDE DEF job
    <2> QED
        BY <2>1 DEF Jobs
  <1>3. p \in DOMAIN Programs /\ p \in Nat /\ app.version \in Nat /\ p <= app.version
    <2>1. app.version \in Nat /\ Len(Programs) \in Nat /\ DOMAIN Programs = 1..Len(Programs)
      <3>1. Len(Programs) \in Nat /\ DOMAIN Programs = 1..Len(Programs)
          BY PlaybackAssumption
      <3> QED
          BY <1>1, <3>1, VersionIs DEF AppInv
    <2>2. app.version \in 1..Len(Programs)
        BY <1>1, <2>1 DEF AppInv
    <2> QED
        BY <1>2, <2>1, <2>2
  <1> HIDE DEF p, job
  <1>4. target \in Places(p) /\ (p = app.version => target = app.playhead)
    <2>1. app.playhead \in Places(app.version) /\ app.version \in DOMAIN Programs
        BY <1>1 DEF AppInv
    <2>2. /\ app.playhead = <<app.playhead[1], app.playhead[2]>>
          /\ app.playhead[1] \in 0..Length(app.version) - 1 /\ app.playhead[2] \in 0..2
          /\ app.playhead[2] = 0 => app.playhead[1] = 0
        BY <2>1, PlaceIs
    <2>3. Length(app.version) \in Nat \ {0} /\ Length(p) \in Nat \ {0}
        BY <1>3, <2>1, ProgramIs
    <2>4. CASE app.playhead[1] < Length(p)
      <3>1. target = app.playhead
          BY <2>4 DEF Within
      <3>2. CASE app.playhead[2] = 0
        <4>1. app.playhead = Start
            BY <2>2, <3>2 DEF Start
        <4> QED
            BY <3>1, <4>1 DEF Places
      <3>3. CASE app.playhead[2] # 0
        <4>1. app.playhead[1] \in 0..Length(p) - 1 /\ app.playhead[2] \in 1..2
            BY <2>2, <2>3, <2>4, <3>3
        <4> QED
            BY <2>2, <3>1, <4>1 DEF Places
      <3> QED
          BY <3>1, <3>2, <3>3
    <2>5. CASE ~(app.playhead[1] < Length(p))
      <3>1. target = End(p) /\ p # app.version
          BY <2>2, <2>3, <2>5 DEF Within
      <3> QED
          BY <1>3, <3>1, EndIs
    <2> QED
        BY <2>4, <2>5
  <1>5. /\ Driven(st.sim, st.driver) /\ st.driver.cached = p /\ st.driver.built.program = p
        /\ st.driver.at = Start
        /\ MeshShape(st.mesh) /\ MeshTrue(st.mesh, st.sim.field.top)
        /\ Told(st.driver, st.warnings, p)
      BY <1>3, BuiltIs
  <1>6. ~Backward(st.driver.at, target)
    <2>1. target[1] \in Nat /\ target[2] \in Nat
        BY <1>3, <1>4, PlaceIs
    <2> HIDE DEF target
    <2> QED
        BY <1>5, <2>1 DEF Backward, Earlier, Start
  <1> HIDE DEF st, target
  <1>7. FALSE \in BOOLEAN /\ st.driver.cached <= p
      BY <1>3, <1>5
  <1>8. /\ Driven(new.sim, new.driver) /\ new.driver.cached <= p /\ new.driver.built = st.driver.built
        /\ new.driver.cached = p =>
              /\ Done(target) \subseteq Done(new.driver.at)
              /\ FALSE \/ ~Backward(st.driver.at, target) => Done(new.driver.at) = Done(target)
        /\ Told(new.driver, new.warnings, p)
        /\ MeshShape(new.mesh) /\ MeshTrue(new.mesh, new.sim.field.top)
      BY <1>3, <1>4, <1>5, <1>7, EffectIs
  <1> HIDE DEF new
  <1>9. new.driver.cached \in Nat \ {0}
      BY <1>8, VersionIs DEF Driven, IsSim
  <1>10. Reached(new.driver, app)
    <2> SUFFICES ASSUME app.program = new.driver.cached
                 PROVE  Done(app.playhead) = Done(new.driver.at)
        BY DEF Reached
    <2>1. app.program = app.version /\ p = app.version
        BY <1>1, <1>3, <1>8, <1>9 DEF AppInv
    <2> QED
        BY <1>4, <1>6, <1>8, <2>1
  <1>11. Told(new.driver, new.warnings, app.program)
      BY <1>5, <1>8 DEF Told
  <1>12. Agrees(new.sim, new.driver, new.warnings, app)
      BY <1>3, <1>8, <1>9, <1>10, <1>11 DEF Agrees
  <1>13. Tail(waiting) \in Seq(Jobs(app.version))
      BY <1>1
  <1> QED
      BY <1>1, <1>8, <1>12, <1>13 DEF PlayInv

LEMMA MeshStep == PlayInv /\ (Zooms \/ Renders) => PlayInv'
  <1> SUFFICES ASSUME PlayInv, Zooms \/ Renders PROVE PlayInv'
      OBVIOUS
  <1>1. /\ UNCHANGED <<app, timer, waiting, sim, driver, warnings>> /\ MeshShape(mesh) /\ sim # None
        /\ edits' \in 0..MaxEdits
      BY DEF Zooms, Renders, PlayInv, Changes
  <1>2. MeshShape(mesh') /\ (MeshTrue(mesh, sim.field.top) => MeshTrue(mesh', sim.field.top))
    <2>1. CASE Zooms
      <3>1. mesh' = SetActiveLevel(mesh, sim.field.top, 1 - mesh.level)
          BY <2>1 DEF Zooms
      <3>2. 1 - mesh.level \in Levels
          BY <1>1 DEF MeshShape, Levels
      <3> QED
          BY <1>1, <3>1, <3>2, SwitchIs
    <2>2. CASE Renders
        BY <1>1, <2>2, FrameIs DEF Renders
    <2> QED
        BY <2>1, <2>2
  <1> QED
      BY <1>1, <1>2 DEF PlayInv

LEMMA PlayStep == PlayInv /\ [Next]_vars => PlayInv'
  <1> SUFFICES ASSUME PlayInv, [Next]_vars PROVE PlayInv'
      OBVIOUS
  <1>1. CASE RebuildFires
    <2>1. timer \in Jobs(app.version) /\ timer' = NoBuild /\ waiting' = Append(waiting, timer)
        BY <1>1 DEF RebuildFires, PlayInv
    <2>2. UNCHANGED <<app, sim, driver, mesh, warnings, edits>>
        BY <1>1 DEF RebuildFires
    <2>3. waiting' \in Seq(Jobs(app.version))
        BY <2>1 DEF PlayInv
    <2> QED
        BY <2>1, <2>2, <2>3 DEF PlayInv
  <1>2. CASE Loads
    <2>1. UNCHANGED <<app, timer, waiting, sim, driver, mesh, warnings, edits>>
        BY <1>2 DEF Loads
    <2> QED
        BY <2>1 DEF PlayInv
  <1>3. CASE UNCHANGED vars
      BY <1>3 DEF vars, PlayInv
  <1> QED
      BY <1>1, <1>2, <1>3, ScrubStep, ExactStep, GeneratedStep, EditStep, RebuildStep, MeshStep DEF Next

-----------------------------------------------------------------------------
(* What holds *)

\* Every step of the preview keeps the invariant.
LEMMA PlayAlways == Spec => []PlayInv
  <1> QED
      BY PlayInit, PlayStep, PTL DEF Spec

(* The simulator, its checkpoints and the ranges of the mesh stay within    *)
(* their bounds: MAX_CHECKPOINTS (driver.ts) holds for programs of any       *)
(* length, however often the playhead goes back.                            *)
THEOREM SolidStaysInBounds == Spec => []PlaybackTypeOK
  <1>1. PlayInv => PlaybackTypeOK
    <2> SUFFICES ASSUME PlayInv PROVE PlaybackTypeOK
        OBVIOUS
    <2>1. app.program \in 0..Len(Programs) /\ app.version \in 1..Len(Programs)
      <3>1. app.version \in DOMAIN Programs /\ app.program \in {0, app.version}
          BY DEF PlayInv, AppInv
      <3>2. app.version \in Nat \ {0} /\ Len(Programs) \in Nat /\ app.version <= Len(Programs)
          BY <3>1, VersionIs
      <3> QED
          BY <3>1, <3>2
    <2>2. \A k \in Levels : mesh.levels[k].ranges \subseteq 1..Width(k)
        BY DEF PlayInv, MeshShape, LevelShape
    <2>3. ASSUME sim # None
          PROVE  /\ driver.at[1] \in 0..Length(driver.cached) - 1 /\ driver.at[2] \in 0..2
                 /\ driver.at[2] = 2 => driver.at = End(driver.cached)
                 /\ Cardinality(DOMAIN sim.checkpoints) <= MaxCheckpoints
                 /\ DOMAIN sim.checkpoints = DOMAIN driver.warnedAt
      <3>1. Driven(sim, driver)
          BY <2>3 DEF PlayInv, Agrees
      <3>2. driver.cached \in DOMAIN Programs /\ Spaced(sim, driver) /\ driver.at \in Stops(driver.cached)
          BY <3>1 DEF Driven, IsSim
      <3>3. Cardinality(DOMAIN sim.checkpoints) <= MaxCheckpoints
          BY <3>2, FewCheckpoints
      <3> QED
          BY <3>2, <3>3 DEF Stops, Spaced
    <2> QED
        BY <2>1, <2>2, <2>3 DEF PlaybackTypeOK, PlayInv
  <1> QED
      BY <1>1, PlayAlways, PTL

(* The solid is the stock less what the program cuts up to the playhead      *)
(* (advanceTo in driver.ts, sweep.rs): for every program, grid and stock,    *)
(* whichever way the playhead came there, over any checkpoint, and with      *)
(* every column's hidden voids.                                             *)
THEOREM SolidIsThePrefix == Spec => []FieldIsPrefix
  <1>1. PlayInv => FieldIsPrefix
    <2> SUFFICES ASSUME PlayInv, OnOwnProgram
                 PROVE  /\ \A c \in Cells : ColumnIs(c, Remaining(driver.cached, driver.at, c))
                        /\ app.program = driver.cached =>
                              /\ Done(app.playhead) \subseteq Done(driver.at)
                              /\ app.exact => Done(driver.at) = Done(app.playhead)
        BY DEF FieldIsPrefix
    <2>1. Driven(sim, driver) /\ Reached(driver, app) /\ Owns(driver)
        BY DEF PlayInv, Agrees, OnOwnProgram, Owns
    <2>2. sim.field \in Field /\ Holds(sim.field, driver.cached, driver.at)
        BY <2>1 DEF Driven, IsSim, Keeps
    <2>3. ASSUME NEW c \in Cells PROVE ColumnIs(c, Remaining(driver.cached, driver.at, c))
      <3>1. SolidAt(sim.field, c) = Remaining(driver.cached, driver.at, c)
          BY <2>2 DEF Holds
      <3>2. /\ Max({StockBottom, sim.field.top[c]}) = Surface(SolidAt(sim.field, c))
            /\ c \in DOMAIN sim.field.undercut <=> HasVoid(SolidAt(sim.field, c))
          BY <2>2, ColumnShows
      <3> QED
          BY <3>1, <3>2 DEF ColumnIs
    <2> QED
        BY <2>1, <2>3 DEF Reached
  <1> QED
      BY <1>1, PlayAlways, PTL

(* The warnings published are those of the cuts up to the playhead          *)
(* (collectDiagnostics and the checkpoints' warnings in driver.ts), for      *)
(* programs of one tool whose checks are not below the stock: with a tool    *)
(* change inside one advance warnings are lost.                              *)
THEOREM WarningsAreTheCuts ==
    ASSUME ChecksAboveBottom, OneToolEach
    PROVE  Spec => []WarningsAreThePrefixs
  <1>1. PlayInv => WarningsAreThePrefixs
    <2> SUFFICES ASSUME PlayInv, OnOwnProgram, driver.built.program = app.program, warnings # NotRun
                 PROVE  warnings = <<Earned(driver.cached, driver.at)>>
        BY DEF WarningsAreThePrefixs
    <2>1. Driven(sim, driver) /\ Told(driver, warnings, app.program) /\ Owns(driver) /\ Telling
        BY DEF PlayInv, Agrees, OnOwnProgram, Owns, Telling
    <2>2. warnings = <<driver.warned>>
        BY <2>1 DEF Told
    <2>3. driver.warned = Earned(driver.cached, driver.at)
        BY <2>1 DEF Driven, Knows
    <2> QED
        BY <2>2, <2>3
  <1> QED
      BY <1>1, PlayAlways, PTL

(* What the screen shows after a frame is the material (the ranges          *)
(* HeightfieldMesh uploads), at either level of detail, in every cell but    *)
(* those whose range was cleared unsent and that nothing has redrawn since:  *)
(* however updates and frames follow one another, with the solid shown or    *)
(* hidden.                                                                  *)
THEOREM ScreenIsTheSolid == Spec => []ScreenShowsTheField
  <1>1. PlayInv => ScreenShowsTheField
      BY ShownIs DEF PlayInv, ScreenShowsTheField
  <1> QED
      BY <1>1, PlayAlways, PTL
=============================================================================
