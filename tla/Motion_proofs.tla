---------------------------- MODULE Motion_proofs ----------------------------
(***************************************************************************)
(* The motion of one offset, whatever contour and setup: every command     *)
(* emit_offset writes is followed with the tool where the command expects  *)
(* it (module Motion).                                                     *)
(***************************************************************************)
EXTENDS Motion, Induction_proofs, SequenceTheorems, FiniteSetTheorems, TLAPS

-----------------------------------------------------------------------------
(* The machine as a value, and what a command does to it *)

Feeds == {"none", "rate_h", "rate_v", "corner"}
Beams3 == {"off", "armed", "lit"}

Spots(c) == FarSide .. Length(c)
Off(c) == Spots(c) \ {Away}
Scheduled(c) ==
    {h \in Int : Min(Named(c)) <= h /\ (h <= c.start \/ h = TotalDepth(c))}
Heights(c) == Lowest(c) .. FastZ

\* What may be left of the material along the contour.
Floors(c) == [Units(c) -> (Lowest(c) .. c.start) \X (Lowest(c) .. c.start)]

State(c) ==
    [at : Spots(c), z : Heights(c), feed : Feeds, beam : Beams3,
     floor : Floors(c)]

Commands ==
    [op : {"feed"}, rate : Feeds] \cup [op : {"beam"}, to : Beams3]
        \cup [op : {"rapid", "cut"}, at : Int, z : Int]

CutTo(c, s, q, h) ==
    LET p == Here(c, s.at, q) IN
    [at |-> q, z |-> h, feed |-> s.feed, beam |-> s.beam,
     floor |-> IF p # q /\ SameSegment(c, p, q)
               THEN Swept(c, s.floor, p, q, s.z, h) ELSE s.floor]

After(c, s, op) ==
    CASE op.op = "feed" ->
            [at |-> s.at, z |-> s.z, feed |-> op.rate, beam |-> s.beam, floor |-> s.floor]
      [] op.op = "beam" ->
            [at |-> s.at, z |-> s.z, feed |-> s.feed, beam |-> op.to, floor |-> s.floor]
      [] op.op = "rapid" ->
            [at |-> Word(op.at, s.at), z |-> Word(op.z, s.z),
             feed |-> s.feed, beam |-> s.beam, floor |-> s.floor]
      [] OTHER -> CutTo(c, s, Word(op.at, s.at), Word(op.z, s.z))

\* A step of kind o from s to t that is among the steps N allows.
Takes(c, N, s, op, t) == t = After(c, s, op) /\ <<s, op.op, t>> \in N

\* The program q takes the machine from s to t by steps of N.
Runs(c, N, q, s, t) ==
    \E a : /\ a[0] = s /\ a[Len(q)] = t
           /\ \A i \in 1 .. Len(q) : Takes(c, N, a[i - 1], q[i], a[i])

\* From every state of S the program q ends in one of T.
Leads(c, N, q, S, T) ==
    /\ q \in Seq(Commands)
    /\ \A s \in S : \E t \in T : Runs(c, N, q, s, t)

LEMMA RunsNone ==
    ASSUME NEW c, NEW N, NEW s
    PROVE  Runs(c, N, <<>>, s, s)
    <1> DEFINE a == [i \in 0 .. 0 |-> s]
    <1>1. a[0] = s /\ a[Len(<<>>)] = s
        OBVIOUS
    <1>2. \A i \in 1 .. Len(<<>>) : Takes(c, N, a[i - 1], <<>>[i], a[i])
        OBVIOUS
    <1> HIDE DEF a
    <1> QED
        BY <1>1, <1>2 DEF Runs

LEMMA RunsOne ==
    ASSUME NEW c, NEW N, NEW s, NEW t, NEW op, Takes(c, N, s, op, t)
    PROVE  Runs(c, N, <<op>>, s, t)
    <1> DEFINE a == [i \in 0 .. 1 |-> IF i = 0 THEN s ELSE t]
               q == <<op>>
    <1>1. a[0] = s /\ a[1] = t /\ Len(q) = 1 /\ q[1] = op
        OBVIOUS
    <1> HIDE DEF a, q
    <1>2. ASSUME NEW i \in 1 .. Len(q) PROVE Takes(c, N, a[i - 1], q[i], a[i])
        <2>1. i = 1 /\ i - 1 = 0
            BY <1>1
        <2> QED
            BY <1>1, <2>1
    <1>3. Runs(c, N, q, s, t)
        BY <1>1, <1>2 DEF Runs
    <1> QED
        BY <1>3 DEF q

LEMMA RunsConcat ==
    ASSUME NEW c, NEW N, NEW T, NEW q \in Seq(T), NEW r \in Seq(T),
           NEW s, NEW t, NEW u, Runs(c, N, q, s, t), Runs(c, N, r, t, u)
    PROVE  Runs(c, N, q \o r, s, u)
    <1>1. PICK a : /\ a[0] = s /\ a[Len(q)] = t
                   /\ \A i \in 1 .. Len(q) : Takes(c, N, a[i - 1], q[i], a[i])
        BY DEF Runs
    <1>2. PICK b : /\ b[0] = t /\ b[Len(r)] = u
                   /\ \A i \in 1 .. Len(r) : Takes(c, N, b[i - 1], r[i], b[i])
        BY DEF Runs
    <1> DEFINE n == Len(q)
               m == Len(r)
               w == q \o r
               d == [i \in 0 .. n + m |-> IF i <= n THEN a[i] ELSE b[i - n]]
    <1>3. /\ n \in Nat /\ m \in Nat /\ Len(w) = n + m
          /\ \A i \in 1 .. n : w[i] = q[i]
          /\ \A i \in n + 1 .. n + m : w[i] = r[i - n]
        BY ConcatProperties
    <1>4. /\ \A i \in 0 .. n : d[i] = a[i]
          /\ \A i \in n .. n + m : d[i] = b[i - n]
        <2>1. n - n = 0 /\ n + m - n = m
            BY <1>3
        <2>2. a[n] = b[0]
            BY <1>1, <1>2
        <2>3. \A i \in n .. n + m : i <= n => i = n
            BY <1>3
        <2>4. ASSUME NEW i \in n .. n + m PROVE d[i] = b[i - n]
            <3>1. i \in 0 .. n + m
                BY <1>3
            <3>2. CASE i <= n
                BY <2>1, <2>2, <2>3, <3>1, <3>2
            <3>3. CASE ~(i <= n)
                BY <3>1, <3>3
            <3> QED
                BY <3>2, <3>3
        <2>5. \A i \in 0 .. n : d[i] = a[i]
            BY <1>3
        <2> QED
            BY <2>4, <2>5
    <1>5. d[0] = s /\ d[n + m] = u
        <2>1. d[0] = a[0]
            BY <1>3, <1>4
        <2>2. d[n + m] = b[n + m - n] /\ n + m - n = m
            <3>1. n + m \in n .. n + m
                BY <1>3
            <3> HIDE DEF n, m, d
            <3> QED
                BY <1>3, <1>4, <3>1
        <2> QED
            BY <1>1, <1>2, <2>1, <2>2
    <1> HIDE DEF d, w
    <1>6. ASSUME NEW i \in 1 .. n + m
          PROVE  Takes(c, N, d[i - 1], w[i], d[i])
        <2>1. CASE i <= n
            <3>1. i \in 1 .. n /\ i - 1 \in 0 .. n /\ i \in 0 .. n
                BY <1>3, <2>1
            <3>2. Takes(c, N, a[i - 1], q[i], a[i])
                BY <1>1, <3>1
            <3>3. d[i - 1] = a[i - 1] /\ d[i] = a[i] /\ w[i] = q[i]
                BY <1>3, <1>4, <3>1
            <3> QED
                BY <3>2, <3>3
        <2>2. CASE ~(i <= n)
            <3> DEFINE j == i - n
            <3>1. /\ j \in 1 .. m /\ i \in n + 1 .. n + m /\ i - 1 \in n .. n + m
                  /\ i \in n .. n + m /\ (i - 1) - n = j - 1
                BY <1>3, <2>2
            <3>2. Takes(c, N, b[j - 1], r[j], b[j])
                BY <1>2, <3>1
            <3>3. d[i - 1] = b[(i - 1) - n] /\ d[i] = b[j] /\ w[i] = r[j]
                BY <1>3, <1>4, <3>1
            <3> QED
                BY <3>1, <3>2, <3>3
        <2> QED
            BY <2>1, <2>2
    <1>7. Runs(c, N, w, s, u)
        BY <1>3, <1>5, <1>6 DEF Runs
    <1> QED
        BY <1>7 DEF w

LEMMA RunsHead ==
    ASSUME NEW c, NEW N, NEW T, NEW q \in Seq(T), q # <<>>, NEW s, NEW t, Runs(c, N, q, s, t)
    PROVE  /\ Takes(c, N, s, Head(q), After(c, s, Head(q)))
           /\ Runs(c, N, Tail(q), After(c, s, Head(q)), t)
    <1>1. PICK a : /\ a[0] = s /\ a[Len(q)] = t
                   /\ \A i \in 1 .. Len(q) : Takes(c, N, a[i - 1], q[i], a[i])
        BY DEF Runs
    <1>2. /\ Len(q) \in Nat \ {0} /\ Head(q) = q[1]
          /\ Len(Tail(q)) = Len(q) - 1
          /\ \A i \in 1 .. Len(Tail(q)) : Tail(q)[i] = q[i + 1]
        BY EmptySeq, HeadTailProperties
    <1>3. Takes(c, N, s, Head(q), a[1])
        <2>1. 1 \in 1 .. Len(q) /\ 1 - 1 = 0
            BY <1>2
        <2> QED
            BY <1>1, <1>2, <2>1
    <1>4. a[1] = After(c, s, Head(q))
        BY <1>3 DEF Takes
    <1> DEFINE r == Tail(q)
               b == [i \in 0 .. Len(r) |-> a[i + 1]]
    <1>5. b[0] = a[1] /\ b[Len(r)] = t
        BY <1>1, <1>2
    <1>6. ASSUME NEW i \in 1 .. Len(r) PROVE Takes(c, N, b[i - 1], r[i], b[i])
        <2>1. i + 1 \in 1 .. Len(q) /\ (i + 1) - 1 = i /\ i - 1 \in 0 .. Len(r) /\ i \in 0 .. Len(r)
              /\ (i - 1) + 1 = i
            BY <1>2
        <2>2. b[i - 1] = a[i] /\ b[i] = a[i + 1] /\ r[i] = q[i + 1]
            BY <1>2, <2>1
        <2>3. Takes(c, N, a[(i + 1) - 1], q[i + 1], a[i + 1])
            BY <1>1, <2>1
        <2> QED
            BY <2>1, <2>2, <2>3
    <1> HIDE DEF b, r
    <1>7. Runs(c, N, r, a[1], t)
        BY <1>5, <1>6 DEF Runs
    <1> QED
        BY <1>3, <1>4, <1>7 DEF r

LEMMA LeadsNone ==
    ASSUME NEW c, NEW N, NEW S, NEW T, S \subseteq T
    PROVE  Leads(c, N, <<>>, S, T)
    BY RunsNone DEF Leads

LEMMA LeadsWeaken ==
    ASSUME NEW c, NEW N, NEW q, NEW S, NEW T, NEW S2, NEW T2,
           Leads(c, N, q, S, T), S2 \subseteq S, T \subseteq T2
    PROVE  Leads(c, N, q, S2, T2)
    BY DEF Leads

LEMMA LeadsOne ==
    ASSUME NEW c, NEW N, NEW op \in Commands, NEW S, NEW T,
           \A s \in S : After(c, s, op) \in T /\ <<s, op.op, After(c, s, op)>> \in N
    PROVE  Leads(c, N, <<op>>, S, T)
    <1>1. ASSUME NEW s \in S PROVE \E t \in T : Runs(c, N, <<op>>, s, t)
        <2> DEFINE t == After(c, s, op)
        <2>1. t \in T /\ Takes(c, N, s, op, t)
            BY DEF Takes
        <2> HIDE DEF t
        <2> QED
            BY <2>1, RunsOne
    <1>2. <<op>> \in Seq(Commands)
        OBVIOUS
    <1> QED
        BY <1>1, <1>2 DEF Leads

LEMMA LeadsConcat ==
    ASSUME NEW c, NEW N, NEW q, NEW r, NEW S, NEW M, NEW T,
           Leads(c, N, q, S, M), Leads(c, N, r, M, T)
    PROVE  Leads(c, N, q \o r, S, T)
    <1>1. q \in Seq(Commands) /\ r \in Seq(Commands)
        BY DEF Leads
    <1>2. q \o r \in Seq(Commands)
        BY <1>1, ConcatProperties
    <1>3. ASSUME NEW s \in S PROVE \E t \in T : Runs(c, N, q \o r, s, t)
        <2>1. PICK m \in M : Runs(c, N, q, s, m)
            BY DEF Leads
        <2>2. PICK t \in T : Runs(c, N, r, m, t)
            BY DEF Leads
        <2>3. Runs(c, N, q \o r, s, t)
            BY <1>1, <2>1, <2>2, RunsConcat
        <2> QED
            BY <2>3
    <1> QED
        BY <1>2, <1>3 DEF Leads

\* Programs strung together lead from stance to stance.
LEMMA LeadsStrung ==
    ASSUME NEW c, NEW N, NEW ss, Len(ss) \in Nat, NEW J,
           \A i \in 1 .. Len(ss) : Leads(c, N, ss[i], J[i - 1], J[i])
    PROVE  Leads(c, N, AsOne(ss), J[0], J[Len(ss)])
    <1> DEFINE S == {k \in Nat : k <= Len(ss) => Leads(c, N, Strung(ss)[k], J[0], J[k])}
    <1>1. 0 \in S
        BY StrungStart, LeadsNone
    <1>2. ASSUME NEW k \in S PROVE k + 1 \in S
        <2> SUFFICES ASSUME k + 1 <= Len(ss) PROVE Leads(c, N, Strung(ss)[k + 1], J[0], J[k + 1])
            OBVIOUS
        <2>1. k \in Nat /\ k < Len(ss) /\ k + 1 \in 1 .. Len(ss) /\ (k + 1) - 1 = k
            OBVIOUS
        <2>2. Strung(ss)[k + 1] = Strung(ss)[k] \o ss[k + 1]
            BY <2>1, StrungNext
        <2>3. Leads(c, N, Strung(ss)[k], J[0], J[k])
            BY <2>1
        <2>4. Leads(c, N, ss[k + 1], J[(k + 1) - 1], J[k + 1])
            BY <2>1
        <2>5. Leads(c, N, Strung(ss)[k] \o ss[k + 1], J[0], J[k + 1])
            BY <2>1, <2>3, <2>4, LeadsConcat
        <2> QED
            BY <2>2, <2>5
    <1>3. S = Nat
        BY <1>1, <1>2, Induction
    <1> QED
        BY <1>3 DEF AsOne

LEMMA LeadsEach ==
    ASSUME NEW c, NEW N, NEW q \in Seq(Commands), NEW J,
           \A i \in 1 .. Len(q) : Leads(c, N, <<q[i]>>, J[i - 1], J[i])
    PROVE  Leads(c, N, q, J[0], J[Len(q)])
    <1> DEFINE P(k) == SubSeq(q, 1, k)
               S == {k \in Nat : k <= Len(q) => Leads(c, N, P(k), J[0], J[k])}
    <1>1. 0 \in S
        <2>1. P(0) = <<>>
            BY SubSeqProperties, EmptySeq
        <2> QED
            BY <2>1, LeadsNone
    <1>2. ASSUME NEW k \in S PROVE k + 1 \in S
        <2> SUFFICES ASSUME k + 1 <= Len(q) PROVE Leads(c, N, P(k + 1), J[0], J[k + 1])
            OBVIOUS
        <2>1. k \in Nat /\ k < Len(q) /\ k + 1 \in 1 .. Len(q) /\ (k + 1) - 1 = k
            OBVIOUS
        <2>2. P(k + 1) = P(k) \o <<q[k + 1]>>
            <3>1. P(k + 1) = Append(P(k), q[k + 1])
                BY <2>1
            <3>2. P(k) \in Seq(Commands)
                BY <2>1
            <3> QED
                BY <3>1, <3>2
        <2>3. Leads(c, N, P(k), J[0], J[k])
            BY <2>1
        <2>4. Leads(c, N, <<q[k + 1]>>, J[k], J[k + 1])
            BY <2>1
        <2> HIDE DEF P
        <2>5. Leads(c, N, P(k) \o <<q[k + 1]>>, J[0], J[k + 1])
            BY <2>3, <2>4, LeadsConcat
        <2> QED
            BY <2>2, <2>5
    <1>3. S = Nat
        BY <1>1, <1>2, Induction
    <1>4. P(Len(q)) = q
        OBVIOUS
    <1>5. Leads(c, N, P(Len(q)), J[0], J[Len(q)])
        BY <1>3
    <1> QED
        BY <1>4, <1>5

\* Two, three, five commands.
LEMMA LeadsTwo ==
    ASSUME NEW c, NEW N, NEW u1, NEW u2,
           NEW S0, NEW S1, NEW S2,
           Leads(c, N, <<u1>>, S0, S1),
           Leads(c, N, <<u2>>, S1, S2)
    PROVE  Leads(c, N, <<u1, u2>>, S0, S2)
    <1> DEFINE q == <<u1, u2>>
               J == [i \in 0 .. 2 |-> IF i = 0 THEN S0 ELSE IF i = 1 THEN S1 ELSE S2]
    <1>1. u1 \in Commands /\ u2 \in Commands
        <2>1. \A u : <<u>> \in Seq(Commands) => u \in Commands
            <3> SUFFICES ASSUME NEW u, <<u>> \in Seq(Commands) PROVE u \in Commands
                OBVIOUS
            <3>1. <<u>>[1] \in Commands
                OBVIOUS
            <3> QED
                BY <3>1
        <2>2. <<u1>> \in Seq(Commands) /\ <<u2>> \in Seq(Commands)
            BY DEF Leads
        <2> QED
            BY <2>1, <2>2
    <1>2. /\ q \in Seq(Commands) /\ Len(q) = 2
          /\ q[1] = u1 /\ q[2] = u2
        BY <1>1
    <1>3. J[0] = S0 /\ J[1] = S1 /\ J[2] = S2
        OBVIOUS
    <1> HIDE DEF q, J
    <1>4. ASSUME NEW i \in 1 .. Len(q) PROVE Leads(c, N, <<q[i]>>, J[i - 1], J[i])
        <2>1. i = 1 \/ i = 2
            BY <1>2
        <2>2. CASE i = 1
            <3>1. i - 1 = 0
                BY <2>2
            <3> QED
                BY <1>2, <1>3, <2>2, <3>1
        <2>3. CASE i = 2
            <3>1. i - 1 = 1
                BY <2>3
            <3> QED
                BY <1>2, <1>3, <2>3, <3>1
        <2> QED
            BY <2>1, <2>2, <2>3
    <1>5. Leads(c, N, q, J[0], J[2])
        BY <1>2, <1>4, LeadsEach
    <1> QED
        BY <1>3, <1>5 DEF q

LEMMA LeadsThree ==
    ASSUME NEW c, NEW N, NEW u1, NEW u2, NEW u3,
           NEW S0, NEW S1, NEW S2, NEW S3,
           Leads(c, N, <<u1>>, S0, S1),
           Leads(c, N, <<u2>>, S1, S2),
           Leads(c, N, <<u3>>, S2, S3)
    PROVE  Leads(c, N, <<u1, u2, u3>>, S0, S3)
    <1> DEFINE q == <<u1, u2, u3>>
               J == [i \in 0 .. 3 |-> IF i = 0 THEN S0 ELSE IF i = 1 THEN S1 ELSE IF i = 2 THEN S2 ELSE S3]
    <1>1. u1 \in Commands /\ u2 \in Commands /\ u3 \in Commands
        <2>1. \A u : <<u>> \in Seq(Commands) => u \in Commands
            <3> SUFFICES ASSUME NEW u, <<u>> \in Seq(Commands) PROVE u \in Commands
                OBVIOUS
            <3>1. <<u>>[1] \in Commands
                OBVIOUS
            <3> QED
                BY <3>1
        <2>2. <<u1>> \in Seq(Commands) /\ <<u2>> \in Seq(Commands) /\ <<u3>> \in Seq(Commands)
            BY DEF Leads
        <2> QED
            BY <2>1, <2>2
    <1>2. /\ q \in Seq(Commands) /\ Len(q) = 3
          /\ q[1] = u1 /\ q[2] = u2 /\ q[3] = u3
        BY <1>1
    <1>3. J[0] = S0 /\ J[1] = S1 /\ J[2] = S2 /\ J[3] = S3
        OBVIOUS
    <1> HIDE DEF q, J
    <1>4. ASSUME NEW i \in 1 .. Len(q) PROVE Leads(c, N, <<q[i]>>, J[i - 1], J[i])
        <2>1. i = 1 \/ i = 2 \/ i = 3
            BY <1>2
        <2>2. CASE i = 1
            <3>1. i - 1 = 0
                BY <2>2
            <3> QED
                BY <1>2, <1>3, <2>2, <3>1
        <2>3. CASE i = 2
            <3>1. i - 1 = 1
                BY <2>3
            <3> QED
                BY <1>2, <1>3, <2>3, <3>1
        <2>4. CASE i = 3
            <3>1. i - 1 = 2
                BY <2>4
            <3> QED
                BY <1>2, <1>3, <2>4, <3>1
        <2> QED
            BY <2>1, <2>2, <2>3, <2>4
    <1>5. Leads(c, N, q, J[0], J[3])
        BY <1>2, <1>4, LeadsEach
    <1> QED
        BY <1>3, <1>5 DEF q

LEMMA LeadsFive ==
    ASSUME NEW c, NEW N, NEW u1, NEW u2, NEW u3, NEW u4, NEW u5,
           NEW S0, NEW S1, NEW S2, NEW S3, NEW S4, NEW S5,
           Leads(c, N, <<u1>>, S0, S1),
           Leads(c, N, <<u2>>, S1, S2),
           Leads(c, N, <<u3>>, S2, S3),
           Leads(c, N, <<u4>>, S3, S4),
           Leads(c, N, <<u5>>, S4, S5)
    PROVE  Leads(c, N, <<u1, u2, u3, u4, u5>>, S0, S5)
    <1> DEFINE q == <<u1, u2, u3, u4, u5>>
               J == [i \in 0 .. 5 |-> IF i = 0 THEN S0 ELSE IF i = 1 THEN S1 ELSE IF i = 2 THEN S2 ELSE IF i = 3 THEN S3 ELSE IF i = 4 THEN S4 ELSE S5]
    <1>1. u1 \in Commands /\ u2 \in Commands /\ u3 \in Commands /\ u4 \in Commands /\ u5 \in Commands
        <2>1. \A u : <<u>> \in Seq(Commands) => u \in Commands
            <3> SUFFICES ASSUME NEW u, <<u>> \in Seq(Commands) PROVE u \in Commands
                OBVIOUS
            <3>1. <<u>>[1] \in Commands
                OBVIOUS
            <3> QED
                BY <3>1
        <2>2. <<u1>> \in Seq(Commands) /\ <<u2>> \in Seq(Commands) /\ <<u3>> \in Seq(Commands) /\ <<u4>> \in Seq(Commands) /\ <<u5>> \in Seq(Commands)
            BY DEF Leads
        <2> QED
            BY <2>1, <2>2
    <1>2. /\ q \in Seq(Commands) /\ Len(q) = 5
          /\ q[1] = u1 /\ q[2] = u2 /\ q[3] = u3 /\ q[4] = u4 /\ q[5] = u5
        BY <1>1
    <1>3. J[0] = S0 /\ J[1] = S1 /\ J[2] = S2 /\ J[3] = S3 /\ J[4] = S4 /\ J[5] = S5
        OBVIOUS
    <1> HIDE DEF q, J
    <1>4. ASSUME NEW i \in 1 .. Len(q) PROVE Leads(c, N, <<q[i]>>, J[i - 1], J[i])
        <2>1. i = 1 \/ i = 2 \/ i = 3 \/ i = 4 \/ i = 5
            BY <1>2
        <2>2. CASE i = 1
            <3>1. i - 1 = 0
                BY <2>2
            <3> QED
                BY <1>2, <1>3, <2>2, <3>1
        <2>3. CASE i = 2
            <3>1. i - 1 = 1
                BY <2>3
            <3> QED
                BY <1>2, <1>3, <2>3, <3>1
        <2>4. CASE i = 3
            <3>1. i - 1 = 2
                BY <2>4
            <3> QED
                BY <1>2, <1>3, <2>4, <3>1
        <2>5. CASE i = 4
            <3>1. i - 1 = 3
                BY <2>5
            <3> QED
                BY <1>2, <1>3, <2>5, <3>1
        <2>6. CASE i = 5
            <3>1. i - 1 = 4
                BY <2>6
            <3> QED
                BY <1>2, <1>3, <2>6, <3>1
        <2> QED
            BY <2>1, <2>2, <2>3, <2>4, <2>5, <2>6
    <1>5. Leads(c, N, q, J[0], J[5])
        BY <1>2, <1>4, LeadsEach
    <1> QED
        BY <1>3, <1>5 DEF q

LEMMA LeadsHead ==
    ASSUME NEW c, NEW N, NEW q, q # <<>>, NEW s, NEW T, Leads(c, N, q, {s}, T)
    PROVE  /\ Head(q) \in Commands
           /\ <<s, Head(q).op, After(c, s, Head(q))>> \in N
           /\ Leads(c, N, Tail(q), {After(c, s, Head(q))}, T)
    <1>1. PICK t \in T : Runs(c, N, q, s, t)
        BY DEF Leads
    <1>2. q \in Seq(Commands)
        BY DEF Leads
    <1>3. /\ Takes(c, N, s, Head(q), After(c, s, Head(q)))
          /\ Runs(c, N, Tail(q), After(c, s, Head(q)), t)
        BY <1>1, <1>2, RunsHead
    <1>4. Head(q) \in Commands /\ Tail(q) \in Seq(Commands)
        BY <1>2, HeadTailProperties
    <1> QED
        BY <1>3, <1>4 DEF Takes, Leads

LEMMA LeadsEmpty ==
    ASSUME NEW c, NEW N, NEW s, NEW T, Leads(c, N, <<>>, {s}, T)
    PROVE  s \in T
    <1>1. PICK t \in T : Runs(c, N, <<>>, s, t)
        BY DEF Leads
    <1>2. PICK a : a[0] = s /\ a[Len(<<>>)] = t
        BY <1>1 DEF Runs
    <1>3. Len(<<>>) = 0
        OBVIOUS
    <1> QED
        BY <1>2, <1>3

\* What one command that leads from S to T does to a state of S.
LEMMA OneIs ==
    ASSUME NEW c, NEW N, NEW op, NEW S, NEW T, Leads(c, N, <<op>>, S, T), NEW s \in S
    PROVE  /\ op \in Commands /\ After(c, s, op) \in T
           /\ <<s, op.op, After(c, s, op)>> \in N
    <1> DEFINE q == <<op>>
    <1>1. q # <<>> /\ Head(q) = op /\ Tail(q) = <<>>
        OBVIOUS
    <1>2. Leads(c, N, q, {s}, T)
        BY DEF Leads
    <1> HIDE DEF q
    <1>3. /\ Head(q) \in Commands
          /\ <<s, Head(q).op, After(c, s, Head(q))>> \in N
          /\ Leads(c, N, Tail(q), {After(c, s, Head(q))}, T)
        BY <1>1, <1>2, LeadsHead
    <1>4. Leads(c, N, <<>>, {After(c, s, op)}, T)
        BY <1>1, <1>3
    <1> QED
        BY <1>1, <1>3, <1>4, LeadsEmpty

-----------------------------------------------------------------------------
(* The contour *)

LEMMA SummedIs ==
    ASSUME NEW lens, Len(lens) \in Nat
    PROVE  /\ Summed(lens)[0] = 0
           /\ \A i \in 1 .. Len(lens) : Summed(lens)[i] = Summed(lens)[i - 1] + lens[i]
    <1> DEFINE Upto(k, g) == g = [i \in 0 .. k |-> IF i = 0 THEN 0 ELSE g[i - 1] + lens[i]]
               S == {k \in Nat : \E g : Upto(k, g)}
    <1>1. 0 \in S
        <2>1. Upto(0, [i \in 0 .. 0 |-> 0])
            OBVIOUS
        <2> QED
            BY <2>1
    <1>2. ASSUME NEW n \in S PROVE n + 1 \in S
        <2>1. PICK g : Upto(n, g)
            OBVIOUS
        <2> DEFINE h == [i \in 0 .. (n + 1) |-> IF i = n + 1 THEN g[n] + lens[n + 1] ELSE g[i]]
        <2>2. ASSUME NEW i \in 0 .. (n + 1)
              PROVE  h[i] = IF i = 0 THEN 0 ELSE h[i - 1] + lens[i]
            <3>1. CASE i = n + 1
                BY <3>1
            <3>2. CASE i # n + 1
                <4>1. i \in 0 .. n /\ h[i] = g[i] /\ (i # 0 => i - 1 \in 0 .. n /\ h[i - 1] = g[i - 1])
                    BY <3>2
                <4> QED
                    BY <2>1, <4>1
            <3> QED
                BY <3>1, <3>2
        <2>3. Upto(n + 1, h)
            BY <2>2
        <2> HIDE DEF h
        <2>4. \E f : Upto(n + 1, f)
            BY <2>3
        <2> HIDE DEF Upto
        <2> QED
            BY <2>4
    <1>3. S = Nat
        BY <1>1, <1>2, Induction
    <1>4. \E g : Upto(Len(lens), g)
        BY <1>3
    <1>5. Upto(Len(lens), Summed(lens))
        BY <1>4 DEF Summed
    <1> DEFINE whole == Summed(lens)
    <1>6. whole = [i \in 0 .. Len(lens) |-> IF i = 0 THEN 0 ELSE whole[i - 1] + lens[i]]
        BY <1>5
    <1> HIDE DEF whole
    <1>7. whole[0] = 0
        BY <1>6
    <1>8. ASSUME NEW i \in 1 .. Len(lens) PROVE whole[i] = whole[i - 1] + lens[i]
        <2>1. i \in 0 .. Len(lens) /\ i # 0
            OBVIOUS
        <2> QED
            BY <1>6, <2>1
    <1> QED
        BY <1>7, <1>8 DEF whole

\* What the assumption says of a cut, for use by name.
LEMMA CutFacts ==
    ASSUME NEW c \in Cuts
    PROVE  /\ c \in Setup /\ FastZ \in Int
           /\ Len(c.segs) \in Nat \ {0}
           /\ \A i \in 1 .. Len(c.segs) :
                /\ c.segs[i].len \in Nat \ {0} /\ c.segs[i].arc \in BOOLEAN
                /\ c.segs[i].arc => c.segs[i].len % Chord = 0
           /\ IsFiniteSet(c.tabs)
           /\ \A t \in c.tabs : t \in TabStretch /\ t.from < t.to
    <1>1. c \in Setup /\ c.segs # <<>> /\ c.segs \in Seq(Segment) /\ c.tabs \subseteq TabStretch
        BY MotionAssumption DEF Setup
    <1>2. Len(c.segs) \in Nat \ {0}
        BY <1>1, EmptySeq
    <1>3. \A i \in 1 .. Len(c.segs) : c.segs[i] \in Segment
        BY <1>1
    <1> QED
        BY <1>1, <1>2, <1>3, MotionAssumption DEF Segment

LEMMA VertexNext ==
    ASSUME NEW c \in Cuts
    PROVE  /\ Vertex(c, 0) = 0
           /\ \A i \in 1 .. Len(c.segs) : Vertex(c, i) = Vertex(c, i - 1) + c.segs[i].len
    <1> DEFINE lens == [k \in 1 .. Len(c.segs) |-> c.segs[k].len]
    <1>1. Len(c.segs) \in Nat
        BY CutFacts
    <1>2. Len(lens) = Len(c.segs) /\ \A i \in 1 .. Len(c.segs) : lens[i] = c.segs[i].len
        BY <1>1
    <1>3. \A i : Vertex(c, i) = Summed(lens)[i]
        BY DEF Vertex
    <1> HIDE DEF lens
    <1> QED
        BY <1>1, <1>2, <1>3, SummedIs

LEMMA VertexType ==
    ASSUME NEW c \in Cuts
    PROVE  \A i \in 0 .. Len(c.segs) : Vertex(c, i) \in Nat
    <1> DEFINE n == Len(c.segs)
               S == {k \in Nat : k <= n => Vertex(c, k) \in Nat}
    <1>1. n \in Nat
        BY CutFacts
    <1>2. 0 \in S
        BY VertexNext
    <1>3. ASSUME NEW k \in S PROVE k + 1 \in S
        <2> SUFFICES ASSUME k + 1 <= n PROVE Vertex(c, k + 1) \in Nat
            OBVIOUS
        <2>1. k \in Nat /\ k + 1 \in 1 .. n /\ (k + 1) - 1 = k /\ Vertex(c, k) \in Nat
            BY <1>1
        <2>2. Vertex(c, k + 1) = Vertex(c, k) + c.segs[k + 1].len
            BY <2>1, VertexNext
        <2>3. c.segs[k + 1].len \in Nat
            BY <2>1, CutFacts
        <2> QED
            BY <2>1, <2>2, <2>3
    <1>4. S = Nat
        BY <1>2, <1>3, Induction
    <1> HIDE DEF S
    <1>5. \A i \in 0 .. n : i \in S
        BY <1>1, <1>4
    <1> QED
        BY <1>5 DEF S

LEMMA VertexGrows ==
    ASSUME NEW c \in Cuts, NEW i \in 0 .. Len(c.segs), NEW j \in 0 .. Len(c.segs)
    PROVE  i < j => Vertex(c, i) < Vertex(c, j)
    <1> DEFINE n == Len(c.segs)
               S == {k \in Nat : k <= n /\ i < k => Vertex(c, i) < Vertex(c, k)}
    <1>1. n \in Nat /\ i \in Nat /\ Vertex(c, i) \in Nat
        BY CutFacts, VertexType
    <1>2. 0 \in S
        BY <1>1
    <1>3. ASSUME NEW k \in S PROVE k + 1 \in S
        <2> SUFFICES ASSUME k + 1 <= n, i < k + 1 PROVE Vertex(c, i) < Vertex(c, k + 1)
            OBVIOUS
        <2>1. k \in Nat /\ k \in 0 .. n /\ k + 1 \in 1 .. n /\ (k + 1) - 1 = k /\ (i < k \/ i = k)
            BY <1>1
        <2>2. Vertex(c, k + 1) = Vertex(c, k) + c.segs[k + 1].len
            BY <2>1, VertexNext
        <2>3. c.segs[k + 1].len \in Nat \ {0} /\ Vertex(c, k) \in Nat
            BY <2>1, CutFacts, VertexType
        <2>4. Vertex(c, i) <= Vertex(c, k)
            BY <1>1, <2>1, <2>3
        <2> QED
            BY <1>1, <2>2, <2>3, <2>4
    <1>4. S = Nat
        BY <1>2, <1>3, Induction
    <1> HIDE DEF S
    <1>5. j \in S
        BY <1>1, <1>4
    <1> QED
        BY <1>5, <1>1 DEF S

LEMMA ContourFacts ==
    ASSUME NEW c \in Cuts
    PROVE  /\ Length(c) \in Nat \ {0}
           /\ \A i \in 0 .. Len(c.segs) : Vertex(c, i) \in 0 .. Length(c)
    <1>1. Len(c.segs) \in Nat \ {0}
        BY CutFacts
    <1>2. \A i \in 0 .. Len(c.segs) : Vertex(c, i) \in Nat
        BY VertexType
    <1>3. Length(c) \in Nat /\ Vertex(c, 0) = 0
        BY <1>1, <1>2, VertexNext DEF Length
    <1>4. ASSUME NEW i \in 0 .. Len(c.segs) PROVE Vertex(c, i) <= Length(c)
        <2>1. Len(c.segs) \in 0 .. Len(c.segs) /\ (i < Len(c.segs) \/ i = Len(c.segs))
            BY <1>1
        <2>2. i < Len(c.segs) => Vertex(c, i) < Vertex(c, Len(c.segs))
            BY <2>1, VertexGrows
        <2> QED
            BY <1>2, <2>1, <2>2 DEF Length
    <1>5. Vertex(c, 0) < Length(c)
        <2>1. 0 \in 0 .. Len(c.segs) /\ Len(c.segs) \in 0 .. Len(c.segs) /\ 0 < Len(c.segs)
            BY <1>1
        <2> QED
            BY <2>1, VertexGrows DEF Length
    <1> QED
        BY <1>2, <1>3, <1>4, <1>5

\* A segment is walked within its ends.
LEMMA OnSegment ==
    ASSUME NEW c \in Cuts, NEW i \in 1 .. Len(c.segs), NEW p, NEW q,
           p \in Vertex(c, i - 1) .. Vertex(c, i), q \in Vertex(c, i - 1) .. Vertex(c, i)
    PROVE  SameSegment(c, p, q) /\ Here(c, p, q) = p
    BY DEF SameSegment, Here

-----------------------------------------------------------------------------
(* Finite sets of numbers *)

LEMMA ImageIsFinite ==
    ASSUME NEW S, IsFiniteSet(S), NEW f, f = [x \in S |-> f[x]]
    PROVE  IsFiniteSet({f[x] : x \in S})
    <1> DEFINE T == {f[x] : x \in S}
    <1>1. f \in Surjection(S, T)
        BY DEF Surjection
    <1> HIDE DEF T
    <1>2. IsFiniteSet(T)
        BY <1>1, FS_Surjection
    <1> QED
        BY <1>2 DEF T

LEMMA HasLeast ==
    ASSUME NEW n \in Nat
    PROVE  \A S \in SUBSET Int : IsFiniteSet(S) /\ Cardinality(S) = n + 1 =>
              /\ \E x \in S : \A y \in S : x <= y
              /\ \E x \in S : \A y \in S : x >= y
    <1> DEFINE Good(k) == \A S \in SUBSET Int : IsFiniteSet(S) /\ Cardinality(S) = k + 1 =>
                              /\ \E x \in S : \A y \in S : x <= y
                              /\ \E x \in S : \A y \in S : x >= y
               D == {k \in Nat : Good(k)}
    <1>1. 0 \in D
        <2> SUFFICES ASSUME NEW S \in SUBSET Int, IsFiniteSet(S), Cardinality(S) = 1
                     PROVE  /\ \E x \in S : \A y \in S : x <= y
                            /\ \E x \in S : \A y \in S : x >= y
            OBVIOUS
        <2>1. PICK x : S = {x}
            BY FS_Singleton
        <2> QED
            BY <2>1
    <1>2. ASSUME NEW k \in D PROVE k + 1 \in D
        <2> SUFFICES ASSUME NEW S \in SUBSET Int, IsFiniteSet(S), Cardinality(S) = (k + 1) + 1
                     PROVE  /\ \E x \in S : \A y \in S : x <= y
                            /\ \E x \in S : \A y \in S : x >= y
            OBVIOUS
        <2>0. k \in Nat /\ Good(k)
            OBVIOUS
        <2>1. S # {}
            BY <2>0, FS_EmptySet
        <2>2. PICK m0 : m0 \in S
            BY <2>1
        <2> DEFINE R == S \ {m0}
        <2>3. IsFiniteSet(R) /\ Cardinality(R) = k + 1 /\ R \in SUBSET Int
            <3>1. IsFiniteSet(S \ {m0}) /\ Cardinality(S \ {m0}) = Cardinality(S) - 1
                BY <2>2, FS_RemoveElement, Zenon
            <3>2. k \in Nat /\ ((k + 1) + 1) - 1 = k + 1
                BY <2>0
            <3>3. Cardinality(S \ {m0}) = ((k + 1) + 1) - 1
                BY <3>1, Zenon
            <3> QED
                BY <3>1, <3>2, <3>3
        <2>4. /\ \E x \in R : \A y \in R : x <= y
              /\ \E x \in R : \A y \in R : x >= y
            BY <2>0, <2>3
        <2>5. PICK x \in R : \A y \in R : x <= y
            BY <2>4
        <2>6. PICK w \in R : \A y \in R : w >= y
            BY <2>4
        <2>7. x \in Int /\ w \in Int /\ m0 \in Int /\ x \in S /\ w \in S
              /\ \A y \in S : y = m0 \/ y \in R
            BY <2>2
        <2> HIDE DEF R
        <2>8. \E m \in S : \A y \in S : m <= y
            <3>1. CASE x <= m0
                BY <2>5, <2>7, <3>1
            <3>2. CASE m0 <= x
                <4>1. \A y \in S : m0 <= y
                    BY <2>5, <2>7, <3>2
                <4> QED
                    BY <2>2, <4>1
            <3> QED
                BY <2>7, <3>1, <3>2
        <2>9. \E m \in S : \A y \in S : m >= y
            <3>1. CASE w >= m0
                BY <2>6, <2>7, <3>1
            <3>2. CASE m0 >= w
                <4>1. \A y \in S : m0 >= y
                    BY <2>6, <2>7, <3>2
                <4> QED
                    BY <2>2, <4>1
            <3> QED
                BY <2>7, <3>1, <3>2
        <2> QED
            BY <2>8, <2>9
    <1>3. D = Nat
        BY <1>1, <1>2, Induction
    <1> HIDE DEF Good
    <1>4. Good(n)
        BY <1>3
    <1> QED
        BY <1>4 DEF Good

LEMMA Extremes ==
    ASSUME NEW S \in SUBSET Int, IsFiniteSet(S), S # {}
    PROVE  /\ Min(S) \in S /\ Min(S) \in Int /\ \A y \in S : Min(S) <= y
           /\ Max(S) \in S /\ Max(S) \in Int /\ \A y \in S : y <= Max(S)
    <1>1. Cardinality(S) \in Nat /\ Cardinality(S) # 0
        BY FS_CardinalityType, FS_EmptySet
    <1> DEFINE n == Cardinality(S) - 1
    <1>2. n \in Nat /\ Cardinality(S) = n + 1
        BY <1>1
    <1> HIDE DEF n
    <1>3. /\ \E x \in S : \A y \in S : x <= y
          /\ \E x \in S : \A y \in S : x >= y
        BY <1>2, HasLeast
    <1>4. Min(S) \in S /\ \A y \in S : Min(S) <= y
        BY <1>3 DEF Min
    <1>5. Max(S) \in S /\ \A y \in S : Max(S) >= y
        BY <1>3 DEF Max
    <1> QED
        BY <1>4, <1>5

LEMMA OfTwo ==
    ASSUME NEW x \in Int, NEW y \in Int
    PROVE  /\ Min({x, y}) = IF x <= y THEN x ELSE y
           /\ Max({x, y}) = IF x <= y THEN y ELSE x
    <1>1. {x, y} \in SUBSET Int /\ IsFiniteSet({x, y}) /\ {x, y} # {}
        <2>1. IsFiniteSet({x}) /\ IsFiniteSet({x} \cup {y})
            BY FS_Singleton, FS_AddElement
        <2>2. {x} \cup {y} = {x, y}
            OBVIOUS
        <2> QED
            BY <2>1, <2>2
    <1>2. /\ Min({x, y}) \in {x, y} /\ \A w \in {x, y} : Min({x, y}) <= w
          /\ Max({x, y}) \in {x, y} /\ \A w \in {x, y} : w <= Max({x, y})
        BY <1>1, Extremes
    <1> DEFINE lo == Min({x, y})
               hi == Max({x, y})
    <1>3. (lo = x \/ lo = y) /\ lo <= x /\ lo <= y /\ (hi = x \/ hi = y) /\ x <= hi /\ y <= hi
        BY <1>2
    <1> HIDE DEF lo, hi
    <1>4. lo = (IF x <= y THEN x ELSE y) /\ hi = (IF x <= y THEN y ELSE x)
        BY <1>3
    <1> QED
        BY <1>4 DEF lo, hi

-----------------------------------------------------------------------------
(* Arithmetic *)

LEMMA Divided ==
    ASSUME NEW a \in Int, NEW d \in Nat \ {0}
    PROVE  /\ a \div d \in Int
           /\ d * (a \div d) <= a /\ a < d * (a \div d) + d
    BY SMT

LEMMA Scaled ==
    ASSUME NEW a \in Int, NEW b \in Int, NEW d \in Nat, a <= b
    PROVE  a * d <= b * d /\ a * d \in Int /\ b * d \in Int
    BY SMT

\* As many steps of d as fit into m.
LEMMA StepsFit ==
    ASSUME NEW m \in Nat, NEW d \in Nat \ {0}, NEW i \in 1 .. (m \div d)
    PROVE  i * d <= m /\ 1 <= i * d /\ i * d \in Int
    <1> DEFINE q == m \div d
    <1>1. q \in Int /\ d * q <= m
        BY Divided
    <1>2. i \in Int /\ i <= q /\ 1 <= i
        BY <1>1
    <1> HIDE DEF q
    <1>3. i * d <= q * d /\ i * d \in Int /\ q * d \in Int
        BY <1>1, <1>2, Scaled
    <1>4. 1 * d <= i * d
        BY <1>2, Scaled
    <1>5. q * d = d * q
        BY <1>1
    <1> QED
        BY <1>1, <1>3, <1>4, <1>5

\* A height part of the way lies between the two ends.
LEMMA Between ==
    ASSUME NEW d \in Int, NEW n \in Nat, NEW r \in Nat \ {0}, n <= r
    PROVE  /\ (d * n) \div r \in Int
           /\ d <= 0 => d <= (d * n) \div r /\ (d * n) \div r <= 0
           /\ d >= 0 => 0 <= (d * n) \div r /\ (d * n) \div r <= d
    <1> DEFINE p == d * n
               q == p \div r
    <1>1. p \in Int
        OBVIOUS
    <1>2. d >= 0 => 0 <= p /\ p <= d * r
        OBVIOUS
    <1>3. d <= 0 => p <= 0 /\ d * r <= p
        <2> SUFFICES ASSUME d <= 0 PROVE p <= 0 /\ d * r <= p
            OBVIOUS
        <2> DEFINE e == -d
        <2>1. e \in Nat /\ d = -e
            OBVIOUS
        <2>2. e * n >= 0 /\ e * n <= e * r
            BY <2>1
        <2>3. d * n = -(e * n) /\ d * r = -(e * r)
            BY <2>1
        <2> HIDE DEF e
        <2>4. e * n \in Int /\ e * r \in Int
            BY <2>1
        <2> QED
            BY <2>2, <2>3, <2>4
    <1>4. q \in Int /\ r * q <= p /\ p < r * q + r
        BY <1>1, Divided
    <1> HIDE DEF q, p
    <1>5. d >= 0 => 0 <= q /\ q <= d
        <2> SUFFICES ASSUME d >= 0 PROVE 0 <= q /\ q <= d
            OBVIOUS
        <2>1. ASSUME q < 0 PROVE FALSE
            <3>1. q + 1 <= 0
                BY <1>4, <2>1
            <3>2. (q + 1) * r <= 0 * r
                BY <1>4, <3>1, Scaled
            <3>3. (q + 1) * r = r * q + r /\ 0 * r = 0
                BY <1>4
            <3> QED
                BY <1>1, <1>2, <1>4, <3>2, <3>3
        <2>2. ASSUME d < q PROVE FALSE
            <3>1. d + 1 <= q
                BY <1>4, <2>2
            <3>2. (d + 1) * r <= q * r
                BY <1>4, <3>1, Scaled
            <3>3. (d + 1) * r = d * r + r /\ q * r = r * q /\ d * r \in Int
                BY <1>4
            <3> QED
                BY <1>1, <1>2, <1>4, <3>2, <3>3
        <2> QED
            BY <1>4, <2>1, <2>2
    <1>6. d <= 0 => d <= q /\ q <= 0
        <2> SUFFICES ASSUME d <= 0 PROVE d <= q /\ q <= 0
            OBVIOUS
        <2>1. ASSUME q < d PROVE FALSE
            <3>1. q + 1 <= d
                BY <1>4, <2>1
            <3>2. (q + 1) * r <= d * r
                BY <1>4, <3>1, Scaled
            <3>3. (q + 1) * r = r * q + r /\ d * r \in Int
                BY <1>4
            <3> QED
                BY <1>1, <1>3, <1>4, <3>2, <3>3
        <2>2. ASSUME q > 0 PROVE FALSE
            <3>1. 1 * r <= q * r
                BY <1>4, <2>2, Scaled
            <3>2. q * r = r * q /\ 1 * r = r
                BY <1>4
            <3> QED
                BY <1>1, <1>3, <1>4, <3>1, <3>2
        <2> QED
            BY <1>4, <2>1, <2>2
    <1> QED
        BY <1>4, <1>5, <1>6 DEF p, q

-----------------------------------------------------------------------------
(* Heights *)

LEMMA NamedIsFinite ==
    ASSUME NEW c \in Cuts
    PROVE  IsFiniteSet(Named(c))
    <1>1. IsFiniteSet(ToSet(c.depthList))
        <2> DEFINE l == c.depthList
        <2>1. l \in Seq(Int)
            BY CutFacts DEF Setup
        <2> HIDE DEF l
        <2>2. DOMAIN l = 1 .. Len(l) /\ Len(l) \in Nat /\ l = [i \in DOMAIN l |-> l[i]]
            BY <2>1
        <2>3. IsFiniteSet(DOMAIN l)
            <3>2. \A n \in Int : IsFiniteSet(1 .. n)
                BY FS_Interval
            <3>1. IsFiniteSet(1 .. Len(l))
                BY <2>2, <3>2
            <3> QED
                BY <2>2, <3>1
        <2>4. IsFiniteSet({l[x] : x \in DOMAIN l})
            BY <2>2, <2>3, ImageIsFinite
        <2> QED
            BY <2>4 DEF l, ToSet
    <1> DEFINE a == c.start
               b == c.pierceHeight
               d == TotalDepth(c)
               e == SingleZ(c)
               L == ToSet(c.depthList)
    <1>2. Named(c) = (((L \cup {a}) \cup {b}) \cup {d}) \cup {e}
        BY DEF Named
    <1>3. IsFiniteSet(L)
        BY <1>1
    <1> HIDE DEF a, b, d, e, L
    <1>4. IsFiniteSet(L \cup {a})
        BY <1>3, FS_AddElement
    <1>5. IsFiniteSet((L \cup {a}) \cup {b})
        BY <1>4, FS_AddElement
    <1>6. IsFiniteSet(((L \cup {a}) \cup {b}) \cup {d})
        BY <1>5, FS_AddElement
    <1>7. IsFiniteSet((((L \cup {a}) \cup {b}) \cup {d}) \cup {e})
        BY <1>6, FS_AddElement
    <1> QED
        BY <1>2, <1>7

LEMMA PlanHeights ==
    ASSUME NEW c \in Cuts
    PROVE  /\ TotalDepth(c) \in Int /\ SingleZ(c) \in Int /\ TabsZ(c) \in Int
           /\ Step(c) \in Nat
           /\ Min(Named(c)) \in Int
           /\ \A h \in Named(c) : h \in Int /\ Min(Named(c)) <= h
    <1>1. c \in Setup
        BY CutFacts
    <1>2. /\ c.start \in Int /\ c.depth \in Int /\ c.through \in Int /\ c.step \in Int
          /\ c.depthList \in Seq(Int) /\ c.tabHeight \in Int
          /\ c.pierceHeight \in Int /\ c.cutHeight \in Int
        BY <1>1 DEF Setup
    <1>3. Max({c.through, 0}) \in Int /\ Min({c.depth, 0}) \in Int
        <2>1. ASSUME NEW x \in Int PROVE Max({x, 0}) \in Int /\ Min({x, 0}) \in Int
            <3>1. 0 \in Int
                OBVIOUS
            <3> QED
                BY <3>1, OfTwo
        <2> QED
            BY <1>2, <2>1
    <1>4. TotalDepth(c) \in Int
        BY <1>2, <1>3 DEF TotalDepth
    <1>5. SingleZ(c) \in Int
        BY <1>2, <1>3 DEF SingleZ
    <1>6. TabsZ(c) \in Int
        BY <1>2, <1>4 DEF TabsZ, Abs
    <1>7. Step(c) \in Nat
        BY <1>2, <1>4 DEF Step, Abs
    <1>8. Named(c) \in SUBSET Int
        <2>1. ToSet(c.depthList) \subseteq Int
            BY <1>2 DEF ToSet
        <2> QED
            BY <1>2, <1>4, <1>5, <2>1 DEF Named
    <1>9. IsFiniteSet(Named(c))
        BY NamedIsFinite
    <1>10. Named(c) # {}
        BY DEF Named
    <1>11. Min(Named(c)) \in Int /\ \A h \in Named(c) : Min(Named(c)) <= h
        BY <1>8, <1>9, <1>10, Extremes
    <1> QED
        BY <1>4, <1>5, <1>6, <1>7, <1>8, <1>11

\* The heights a pass may be scheduled at.
LEMMA ScheduledAre ==
    ASSUME NEW c \in Cuts
    PROVE  /\ c.start \in Int /\ TotalDepth(c) \in Int
           /\ c.start \in Scheduled(c) /\ TotalDepth(c) \in Scheduled(c)
           /\ \A h \in Int : TotalDepth(c) <= h /\ h <= c.start => h \in Scheduled(c)
           /\ \A h \in Named(c) : h <= c.start => h \in Scheduled(c)
    <1>1. c.start \in Named(c) /\ TotalDepth(c) \in Named(c)
        BY DEF Named
    <1>2. c.start \in Int
        BY CutFacts DEF Setup
    <1> QED
        BY <1>1, <1>2, PlanHeights DEF Scheduled

LEMMA ListedIs ==
    ASSUME NEW c \in Cuts
    PROVE  Listed(c) \in Seq({d \in ToSet(c.depthList) : d <= c.start})
    <1> DEFINE T == {d \in ToSet(c.depthList) : d <= c.start}
               l == c.depthList
               ss == [i \in 1 .. Len(l) |-> IF l[i] <= c.start THEN <<l[i]>> ELSE <<>>]
    <1>1. l \in Seq(Int)
        BY CutFacts DEF Setup
    <1>2. Len(l) \in Nat /\ Len(ss) = Len(l)
        BY <1>1
    <1>3. ASSUME NEW i \in 1 .. Len(ss) PROVE ss[i] \in Seq(T)
        <2>1. i \in 1 .. Len(l) /\ ss[i] = IF l[i] <= c.start THEN <<l[i]>> ELSE <<>>
            BY <1>2
        <2>2. l[i] \in ToSet(l)
            BY <1>1, <2>1 DEF ToSet
        <2>3. l[i] <= c.start => l[i] \in T
            BY <2>2
        <2> HIDE DEF T
        <2>4. l[i] <= c.start => <<l[i]>> \in Seq(T)
            BY <2>3
        <2>5. <<>> \in Seq(T)
            OBVIOUS
        <2> QED
            BY <2>1, <2>4, <2>5
    <1>4. Listed(c) = Strung(ss)[Len(ss)]
        BY DEF Listed, AsOne
    <1> HIDE DEF ss, T
    <1>5. Strung(ss)[Len(ss)] \in Seq(T)
        <2>1. Len(ss) \in 0 .. Len(ss) /\ Len(ss) \in Nat
            BY <1>2
        <2> QED
            BY <1>3, <2>1, StrungType
    <1> QED
        BY <1>4, <1>5 DEF T

LEMMA ScheduleNamed ==
    ASSUME NEW c \in Cuts
    PROVE  /\ Schedule(c) \in Seq(Scheduled(c))
           /\ c.depthList = <<>> =>
                /\ Schedule(c) # <<>> /\ Last(Schedule(c)) = TotalDepth(c)
                /\ \A i \in 1 .. Len(Schedule(c)) : TotalDepth(c) <= Schedule(c)[i]
    <1> DEFINE total == TotalDepth(c)
               n == IF total < c.start /\ Step(c) > 0
                    THEN (c.start - total - 1) \div Step(c) ELSE 0
               shallow == [i \in 1 .. n |-> c.start - i * Step(c)]
               thin == total + Abs(c.finishStep)
               spliced == /\ Step(c) > 0 /\ c.start # total
                          /\ (shallow = <<>> \/ Last(shallow) # thin)
                          /\ total < thin /\ thin < c.start
               H == Scheduled(c)
    <1>1. /\ total \in Int /\ Step(c) \in Nat /\ c.start \in Int /\ c.finishStep \in Int
          /\ c.depthList \in Seq(Int)
        BY CutFacts, PlanHeights DEF Setup
    <1>2. c.start \in H /\ total \in H
        BY ScheduledAre
    <1>3. CASE c.depthList # <<>>
        <2>1. Schedule(c) = Listed(c)
            BY <1>3 DEF Schedule
        <2> DEFINE T == {d \in ToSet(c.depthList) : d <= c.start}
        <2>2. Listed(c) \in Seq(T)
            BY ListedIs
        <2>3. T \subseteq H
            <3> SUFFICES ASSUME NEW d \in ToSet(c.depthList), d <= c.start PROVE d \in H
                OBVIOUS
            <3>1. d \in Named(c)
                BY DEF Named
            <3> QED
                BY <3>1, ScheduledAre
        <2> HIDE DEF T, H
        <2>4. Listed(c) \in Seq(H)
            BY <2>2, <2>3
        <2> QED
            BY <1>3, <2>1, <2>4 DEF H
    <1>4. CASE c.depthList = <<>>
        <2> DEFINE D == {h \in H : total <= h}
        <2>1. Schedule(c) = shallow \o (IF spliced THEN <<thin>> ELSE <<>>) \o <<total>>
            BY <1>4 DEF Schedule
        <2>2. n \in Int
            BY <1>1, Divided
        <2>3. ASSUME NEW i \in 1 .. n PROVE c.start - i * Step(c) \in D
            <3>1. total < c.start /\ Step(c) \in Nat \ {0}
                BY <1>1, <2>2
            <3> DEFINE m == c.start - total - 1
            <3>2. m \in Nat /\ i \in 1 .. (m \div Step(c))
                BY <1>1, <3>1
            <3> HIDE DEF m
            <3>3. i * Step(c) <= m /\ 1 <= i * Step(c) /\ i * Step(c) \in Int
                BY <3>1, <3>2, StepsFit
            <3> DEFINE h == c.start - i * Step(c)
            <3>4. h \in Int /\ total <= h /\ h <= c.start
                BY <1>1, <3>3 DEF m
            <3> HIDE DEF h
            <3>5. h \in Scheduled(c)
                BY <1>2, <3>4, ScheduledAre
            <3>6. h \in D
                BY <3>4, <3>5
            <3> QED
                BY <3>6 DEF h
        <2> HIDE DEF n
        <2>4. shallow \in Seq(D)
            <3> HIDE DEF D
            <3>1. \A i \in 1 .. n : shallow[i] \in D
                BY <2>3
            <3>2. n <= 0 => 1 .. n = {} /\ {} = 1 .. 0
                BY <2>2
            <3>3. \E k \in Nat : 1 .. n = 1 .. k
                BY <2>2, <3>2
            <3>4. PICK k \in Nat : 1 .. n = 1 .. k
                BY <3>3
            <3>5. shallow = [i \in 1 .. k |-> shallow[i]]
                BY <3>4
            <3> HIDE DEF shallow
            <3>6. shallow \in [1 .. k -> D]
                BY <3>1, <3>4, <3>5
            <3> QED
                BY <3>6
        <2>5. spliced => thin \in D
            <3> SUFFICES ASSUME spliced PROVE thin \in D
                OBVIOUS
            <3>1. thin \in Int /\ total <= thin /\ thin <= c.start
                BY <1>1 DEF Abs
            <3> HIDE DEF thin
            <3> QED
                BY <1>2, <3>1, ScheduledAre
        <2> HIDE DEF spliced, thin, shallow, D
        <2>6. (IF spliced THEN <<thin>> ELSE <<>>) \in Seq(D)
            BY <2>5
        <2>10. total \in D
            BY <1>1, <1>2 DEF D
        <2>7. <<total>> \in Seq(D)
            BY <2>10
        <2>8. shallow \o (IF spliced THEN <<thin>> ELSE <<>>) \in Seq(D)
            BY <2>4, <2>6, ConcatProperties
        <2>9. shallow \o (IF spliced THEN <<thin>> ELSE <<>>) \o <<total>> \in Seq(D)
            BY <2>7, <2>8, ConcatProperties
        <2> DEFINE most == shallow \o (IF spliced THEN <<thin>> ELSE <<>>)
        <2>11. Schedule(c) = most \o <<total>> /\ most \in Seq(D) /\ Schedule(c) \in Seq(D)
            BY <2>1, <2>8, <2>9
        <2> HIDE DEF most
        <2>12. Len(Schedule(c)) = Len(most) + 1 /\ Schedule(c)[Len(most) + 1] = total
            BY <2>10, <2>11
        <2>13. Schedule(c) # <<>> /\ Last(Schedule(c)) = total
            BY <2>11, <2>12, EmptySeq DEF Last
        <2>14. \A i \in 1 .. Len(Schedule(c)) : Schedule(c)[i] \in D
            BY <2>11
        <2>15. Schedule(c) \in Seq(H)
            <3>1. D \subseteq H
                BY DEF D
            <3> HIDE DEF H
            <3> QED
                BY <2>11, <3>1
        <2> QED
            BY <2>13, <2>14, <2>15 DEF D, H
    <1> QED
        BY <1>3, <1>4

\* The heights that are planned for the tool and for the stock's top.
LEMMA PlannedIs ==
    ASSUME NEW c \in Cuts
    PROVE  /\ Lowest(c) \in Planned(c) /\ Lowest(c) \in Int
           /\ \A h \in Planned(c) : h \in Int /\ Lowest(c) <= h
           /\ Min(Named(c)) <= Lowest(c) /\ Lowest(c) <= c.start
    <1> DEFINE R == IF SinglePassMode(c) THEN {SingleZ(c)} ELSE ToSet(Schedule(c))
               H == {h \in Int : Min(Named(c)) <= h}
    <1>1. R \subseteq H /\ IsFiniteSet(R)
        <2>1. SingleZ(c) \in H /\ IsFiniteSet({SingleZ(c)})
            <3>1. SingleZ(c) \in Named(c)
                BY DEF Named
            <3> QED
                BY <3>1, PlanHeights, FS_Singleton
        <2> DEFINE l == Schedule(c)
        <2>2. l \in Seq(H)
            <3>1. Scheduled(c) \subseteq H
                BY DEF Scheduled
            <3>2. l \in Seq(Scheduled(c))
                BY ScheduleNamed
            <3> HIDE DEF l, H
            <3> QED
                BY <3>1, <3>2
        <2> HIDE DEF l, H
        <2>3. DOMAIN l = 1 .. Len(l) /\ Len(l) \in Nat /\ l = [i \in DOMAIN l |-> l[i]]
              /\ \A i \in DOMAIN l : l[i] \in H
            BY <2>2
        <2>4. IsFiniteSet(DOMAIN l)
            <3>1. \A n \in Int : IsFiniteSet(1 .. n)
                BY FS_Interval
            <3> QED
                BY <2>3, <3>1
        <2>5. IsFiniteSet({l[x] : x \in DOMAIN l})
            BY <2>3, <2>4, ImageIsFinite
        <2>6. ToSet(l) \subseteq H /\ IsFiniteSet(ToSet(l))
            BY <2>3, <2>5 DEF ToSet
        <2> QED
            BY <2>1, <2>6 DEF l
    <1>2. Planned(c) = R \cup {c.start}
        BY DEF Planned
    <1>3. c.start \in H
        BY ScheduledAre DEF Scheduled
    <1> HIDE DEF R, H
    <1>4. /\ Planned(c) \subseteq H /\ IsFiniteSet(Planned(c))
          /\ c.start \in Planned(c)
        BY <1>1, <1>2, <1>3, FS_AddElement
    <1>5. \A h \in H : h \in Int /\ Min(Named(c)) <= h
        BY DEF H
    <1>6. Planned(c) \in SUBSET Int /\ Planned(c) # {}
        BY <1>4, <1>5
    <1>7. /\ Lowest(c) \in Planned(c) /\ Lowest(c) \in Int
          /\ \A h \in Planned(c) : Lowest(c) <= h
        BY <1>4, <1>6, Extremes DEF Lowest
    <1> QED
        BY <1>4, <1>5, <1>6, <1>7

\* What lies between two heights of the machine is one.
LEMMA HeightsBetween ==
    ASSUME NEW c \in Cuts, NEW x \in Heights(c), NEW y \in Heights(c), NEW h \in Int,
           (x <= h /\ h <= y) \/ (y <= h /\ h <= x)
    PROVE  h \in Heights(c)
    BY PlannedIs, CutFacts DEF Heights

LEMMA PlannedHeight ==
    ASSUME NEW c \in Cuts, Clear(c), NEW h \in Planned(c)
    PROVE  h \in Heights(c)
    <1>1. h \in Int /\ Lowest(c) <= h /\ FastZ \in Int /\ c.start \in Int
        BY PlannedIs, CutFacts, ScheduledAre
    <1>2. h <= FastZ
        <2>1. c.start <= FastZ /\ TotalDepth(c) <= FastZ /\ SingleZ(c) <= FastZ
            BY <1>1 DEF Clear
        <2>2. CASE SinglePassMode(c)
            BY <2>1, <2>2 DEF Planned
        <2>3. CASE ~SinglePassMode(c)
            <3>1. Schedule(c) \in Seq(Scheduled(c))
                BY ScheduleNamed
            <3>2. ToSet(Schedule(c)) \subseteq Scheduled(c)
                BY <3>1 DEF ToSet
            <3>3. h \in Scheduled(c)
                BY <2>3, <3>2, ScheduledAre DEF Planned
            <3> QED
                BY <1>1, <2>1, <3>3, PlanHeights DEF Scheduled
        <2> QED
            BY <2>2, <2>3
    <1> QED
        BY <1>1, <1>2, PlannedIs DEF Heights

LEMMA StartIsHeight ==
    ASSUME NEW c \in Cuts, Clear(c)
    PROVE  /\ c.start \in Heights(c) /\ FastZ \in Heights(c)
           /\ SinglePassMode(c) => SingleZ(c) \in Heights(c)
           /\ c.mode = "Plasma" =>
                c.pierceHeight \in Heights(c) /\ c.cutHeight \in Heights(c)
    <1>1. c.start \in Int /\ FastZ \in Int /\ c.pierceHeight \in Int
        BY CutFacts DEF Setup
    <1>2. c.start \in Planned(c) /\ (SinglePassMode(c) => SingleZ(c) \in Planned(c))
        BY DEF Planned
    <1>3. c.start \in Heights(c) /\ (SinglePassMode(c) => SingleZ(c) \in Heights(c))
        BY <1>2, PlannedHeight
    <1>4. FastZ \in Heights(c)
        BY <1>1, <1>3, PlannedIs DEF Heights
    <1>5. ASSUME c.mode = "Plasma" PROVE c.pierceHeight \in Heights(c) /\ c.cutHeight \in Heights(c)
        <2>1. c.start <= c.pierceHeight /\ c.pierceHeight <= FastZ
            BY <1>1, <1>5 DEF Clear
        <2>2. SinglePassMode(c) /\ SingleZ(c) = c.cutHeight
            BY <1>5 DEF SinglePassMode, SingleZ
        <2> QED
            BY <1>1, <1>3, <1>4, <2>1, <2>2, HeightsBetween
    <1> QED
        BY <1>3, <1>4, <1>5

LEMMA ScheduleIs ==
    ASSUME NEW c \in Cuts, Clear(c)
    PROVE  /\ Schedule(c) \in Seq(Int)
           /\ ~SinglePassMode(c) => Schedule(c) \in Seq(Heights(c))
    <1> DEFINE l == Schedule(c)
    <1>1. l \in Seq(Scheduled(c)) /\ \A h \in Scheduled(c) : h \in Int
        BY ScheduleNamed DEF Scheduled
    <1>2. ASSUME ~SinglePassMode(c), NEW i \in 1 .. Len(l) PROVE l[i] \in Heights(c)
        <2>1. l[i] \in Planned(c)
            BY <1>1, <1>2 DEF Planned, ToSet
        <2> QED
            BY <2>1, PlannedHeight
    <1> HIDE DEF l
    <1>3. l \in Seq(Int) /\ (~SinglePassMode(c) => l \in Seq(Heights(c)))
        BY <1>1, <1>2
    <1> QED
        BY <1>3 DEF l

-----------------------------------------------------------------------------
(* The steps that are right, and the commands that take them *)

\* A cutting move to q that leaves p follows the contour, where the model
\* says that moves do.
Reaches(c, p, q) ==
    /\ Passes(c) > 0
    /\ \/ c.closed
       \/ ~c.tabsActive /\ (q >= 0 \/ Walks(c) % 2 = 1)
    => Follows(c, p, q)

RapidIsHigh(c, s, t) ==
    /\ t.at # s.at =>
        /\ s.z = FastZ /\ t.z = FastZ
        /\ s.at = Away \/ (HelixFits(c) /\ t.at = 0)
        /\ (s.beam = "lit") <=> (s.at # Away /\ c.mode = "Laser")
    /\ t.z < s.z => t.z > c.start /\ s.beam = "off"

CutIsSlow(c, s, t) ==
    /\ t.at = s.at /\ t.z < s.z => s.feed = "rate_v"
    /\ t.at # s.at => s.feed \in {"rate_h", "corner"} /\ Reaches(c, s.at, t.at)

Fair(c) ==
    {m \in State(c) \X {"feed", "beam", "rapid", "cut"} \X State(c) :
        /\ m[2] = "rapid" => RapidIsHigh(c, m[1], m[3])
        /\ m[2] = "cut" => CutIsSlow(c, m[1], m[3])}

\* The states in which the tool is at P and Z, its feed and beam in fs and bs.
Stance(c, P, Z, fs, bs) ==
    {s \in State(c) : s.at \in P /\ s.z \in Z /\ s.feed \in fs /\ s.beam \in bs}

\* The states of S that leave the units of D no higher than h.
Cleared(S, D, h) == {s \in S : \A u \in D : s.floor[u][1] <= h /\ s.floor[u][2] <= h}

LEMMA WordFacts ==
    ASSUME NEW c \in Cuts
    PROVE  /\ \A h \in Heights(c) : h \in Int /\ h # Keep /\ h <= FastZ
           /\ \A p \in Spots(c) : p \in Int /\ p # Keep
           /\ Keep \in Int
    <1>1. \A h \in Named(c) : Keep < h
        BY MotionAssumption
    <1>2. Min(Named(c)) \in Named(c)
        <2>1. \A h \in Named(c) : h \in Int /\ Min(Named(c)) <= h
            BY PlanHeights
        <2>2. c.start \in Named(c)
            BY DEF Named
        <2>3. Named(c) \in SUBSET Int /\ Named(c) # {}
            BY <2>1, <2>2
        <2> QED
            BY <2>3, NamedIsFinite, Extremes
    <1>3. Keep < Min(Named(c)) /\ Min(Named(c)) \in Int /\ Keep \in Int
        BY <1>1, <1>2, PlanHeights DEF Keep
    <1>6. Lowest(c) \in Int /\ Keep < Lowest(c)
        BY <1>3, PlannedIs
    <1>4. \A h \in Heights(c) : h \in Int /\ h # Keep /\ h <= FastZ
        BY <1>3, <1>6, CutFacts DEF Heights
    <1>5. \A p \in Spots(c) : p \in Int /\ p # Keep
        BY ContourFacts DEF Spots, FarSide, Keep
    <1> QED
        BY <1>3, <1>4, <1>5

LEMMA Whole ==
    ASSUME NEW d \in Int, NEW r \in Nat \ {0}
    PROVE  (d * r) \div r = d
    <1> DEFINE q == (d * r) \div r
    <1>1. d * r \in Int
        OBVIOUS
    <1>2. q \in Int /\ r * q <= d * r /\ d * r < r * q + r
        BY <1>1, Divided
    <1> HIDE DEF q
    <1>3. ASSUME q < d PROVE FALSE
        <2>1. (q + 1) * r <= d * r
            BY <1>2, <1>3, Scaled
        <2>2. (q + 1) * r = r * q + r
            BY <1>2
        <2> QED
            BY <1>1, <1>2, <2>1, <2>2
    <1>4. ASSUME d < q PROVE FALSE
        <2>1. (d + 1) * r <= q * r
            BY <1>2, <1>4, Scaled
        <2>2. (d + 1) * r = d * r + r /\ q * r = r * q
            BY <1>2
        <2> QED
            BY <1>1, <1>2, <2>1, <2>2
    <1> QED
        BY <1>2, <1>3, <1>4 DEF q

\* The height after n of the r units of a ramp.
Ramped(fromZ, toZ, n, r) == fromZ + ((toZ - fromZ) * n) \div r

LEMMA RampedIs ==
    ASSUME NEW c \in Cuts, NEW fromZ \in Heights(c), NEW toZ \in Heights(c),
           NEW r \in Nat \ {0}, NEW n \in Nat, n <= r
    PROVE  /\ Ramped(fromZ, toZ, n, r) \in Heights(c)
           /\ fromZ <= toZ => fromZ <= Ramped(fromZ, toZ, n, r)
           /\ n = 0 \/ fromZ = toZ => Ramped(fromZ, toZ, n, r) = fromZ
           /\ n = r => Ramped(fromZ, toZ, n, r) = toZ
    <1> DEFINE d == toZ - fromZ
               q == (d * n) \div r
               h == fromZ + q
    <1>1. fromZ \in Int /\ toZ \in Int /\ d \in Int
        BY WordFacts
    <1> HIDE DEF d
    <1>2. /\ q \in Int
          /\ d <= 0 => d <= q /\ q <= 0
          /\ d >= 0 => 0 <= q /\ q <= d
        BY <1>1, Between
    <1>3. n = 0 => q = 0
        <2> SUFFICES ASSUME n = 0 PROVE q = 0
            OBVIOUS
        <2>1. d * n = 0 * r
            BY <1>1
        <2>2. \A e \in Int : (e * r) \div r = e
            BY Whole
        <2>3. (0 * r) \div r = 0
            BY <2>2
        <2> QED
            BY <2>1, <2>3
    <1>4. n = r => q = d
        BY <1>1, Whole
    <1> HIDE DEF q
    <1>5. h \in Int /\ ((fromZ <= h /\ h <= toZ) \/ (toZ <= h /\ h <= fromZ))
        BY <1>1, <1>2 DEF d
    <1>6. h \in Heights(c)
        <2> HIDE DEF h
        <2> QED
            BY <1>5, HeightsBetween
    <1>7. Ramped(fromZ, toZ, n, r) = h
        BY DEF Ramped, q, d
    <1>8. fromZ <= toZ => fromZ <= h
        BY <1>1, <1>2 DEF d
    <1>9. (n = 0 \/ fromZ = toZ => h = fromZ) /\ (n = r => h = toZ)
        <2>1. fromZ = toZ => d = 0
            BY <1>1 DEF d
        <2>2. d = 0 => q = 0
            BY <1>1, <1>2
        <2> QED
            BY <1>1, <1>3, <1>4, <2>1, <2>2 DEF d
    <1> QED
        BY <1>6, <1>7, <1>8, <1>9

LEMMA SweptIs ==
    ASSUME NEW c \in Cuts, NEW f \in Floors(c), NEW p \in Int, NEW q \in Int,
           p # q, NEW zp \in Heights(c), NEW zq \in Heights(c)
    PROVE  LET g == Swept(c, f, p, q, zp, zq) IN
           /\ g \in Floors(c)
           /\ \A u \in Units(c) :
                /\ g[u][1] <= f[u][1] /\ g[u][2] <= f[u][2]
                /\ zp = zq /\ ((p < u /\ u <= q) \/ (q < u /\ u <= p)) =>
                        g[u][1] <= zp /\ g[u][2] <= zp
    <1> DEFINE height(x) == IF p < q THEN zp + ((zq - zp) * (x - p)) \div (q - p)
                                     ELSE zq + ((zp - zq) * (x - q)) \div (p - q)
               in(u) == u > Min({p, q}) /\ u <= Max({p, q})
               run(u) == (p < u /\ u <= q) \/ (q < u /\ u <= p)
               g == [u \in Units(c) |->
                        IF in(u)
                        THEN <<Min({f[u][1], height(u - 1)}), Min({f[u][2], height(u)})>>
                        ELSE f[u]]
               G == Lowest(c) .. c.start
    <1>1. Swept(c, f, p, q, zp, zq) = g
        BY DEF Swept
    <1>2. \A u \in Int : in(u) <=> run(u)
        BY OfTwo
    <1>3. zp \in Int /\ zq \in Int /\ Lowest(c) \in Int /\ c.start \in Int
        BY WordFacts, PlannedIs, ScheduledAre
    <1>4. ASSUME NEW u \in Int, run(u), NEW x \in {u - 1, u}
          PROVE  height(x) \in Heights(c) /\ (zp = zq => height(x) = zp)
        <2>1. CASE p < q
            <3> DEFINE n == x - p
                       r == q - p
            <3>1. n \in Nat /\ r \in Nat \ {0} /\ n <= r
                BY <1>4, <2>1
            <3>2. height(x) = Ramped(zp, zq, n, r)
                BY <2>1 DEF Ramped
            <3> HIDE DEF n, r, height
            <3> QED
                BY <3>1, <3>2, RampedIs
        <2>2. CASE q < p
            <3> DEFINE n == x - q
                       r == p - q
            <3>1. n \in Nat /\ r \in Nat \ {0} /\ n <= r
                BY <1>4, <2>2
            <3>2. height(x) = Ramped(zq, zp, n, r)
                BY <2>2 DEF Ramped
            <3> HIDE DEF n, r, height
            <3> QED
                BY <3>1, <3>2, RampedIs
        <2> QED
            BY <2>1, <2>2
    <1> HIDE DEF height, in, run
    <1>5. ASSUME NEW u \in Units(c)
          PROVE  /\ g[u] \in G \X G
                 /\ g[u][1] <= f[u][1] /\ g[u][2] <= f[u][2]
                 /\ zp = zq /\ run(u) => g[u][1] <= zp /\ g[u][2] <= zp
        <2>1. u \in Int /\ f[u] \in G \X G
            BY ContourFacts DEF Units, Floors
        <2>2. f[u][1] \in G /\ f[u][2] \in G /\ f[u][1] \in Int /\ f[u][2] \in Int
            BY <1>3, <2>1
        <2>3. CASE ~run(u)
            <3>1. g[u] = f[u]
                BY <1>2, <2>1, <2>3
            <3> HIDE DEF g
            <3> QED
                BY <2>1, <2>2, <2>3, <3>1
        <2>4. CASE run(u)
            <3> DEFINE v == height(u - 1)
                       w == height(u)
            <3>1. v \in Heights(c) /\ w \in Heights(c) /\ (zp = zq => v = zp /\ w = zp)
                BY <1>4, <2>1, <2>4
            <3>2. g[u] = <<Min({f[u][1], v}), Min({f[u][2], w})>>
                BY <1>2, <2>1, <2>4
            <3> HIDE DEF v, w, g
            <3>3. v \in Int /\ w \in Int /\ Lowest(c) <= v /\ Lowest(c) <= w
                BY <1>3, <3>1, WordFacts DEF Heights
            <3>4. /\ Min({f[u][1], v}) = (IF f[u][1] <= v THEN f[u][1] ELSE v)
                  /\ Min({f[u][2], w}) = (IF f[u][2] <= w THEN f[u][2] ELSE w)
                BY <2>2, <3>3, OfTwo
            <3>5. g[u][1] = (IF f[u][1] <= v THEN f[u][1] ELSE v)
                BY <3>2, <3>4
            <3>6. g[u][2] = (IF f[u][2] <= w THEN f[u][2] ELSE w)
                BY <3>2, <3>4
            <3>7. g[u] = <<g[u][1], g[u][2]>>
                BY <3>2
            <3>8. g[u][1] \in G /\ g[u][1] <= f[u][1] /\ g[u][1] <= v
                BY <1>3, <2>2, <3>3, <3>5
            <3>9. g[u][2] \in G /\ g[u][2] <= f[u][2] /\ g[u][2] <= w
                BY <1>3, <2>2, <3>3, <3>6
            <3>10. <<g[u][1], g[u][2]>> \in G \X G
                BY <3>8, <3>9
            <3> QED
                BY <3>1, <3>7, <3>8, <3>9, <3>10
        <2> QED
            BY <2>3, <2>4
    <1>6. g \in [Units(c) -> G \X G]
        <2>1. g = [u \in Units(c) |-> g[u]]
            OBVIOUS
        <2> HIDE DEF g, G
        <2> QED
            BY <1>5, <2>1
    <1> HIDE DEF g
    <1> QED
        BY <1>1, <1>5, <1>6 DEF Floors, run

LEMMA CutToType ==
    ASSUME NEW c \in Cuts, NEW s \in State(c), NEW q \in Spots(c), NEW h \in Heights(c)
    PROVE  /\ CutTo(c, s, q, h) \in State(c)
           /\ CutTo(c, s, q, h).at = q /\ CutTo(c, s, q, h).z = h
           /\ CutTo(c, s, q, h).feed = s.feed /\ CutTo(c, s, q, h).beam = s.beam
    <1> DEFINE p == Here(c, s.at, q)
               f == IF p # q /\ SameSegment(c, p, q)
                    THEN Swept(c, s.floor, p, q, s.z, h) ELSE s.floor
               t == [at |-> q, z |-> h, feed |-> s.feed, beam |-> s.beam, floor |-> f]
    <1>1. /\ s.at \in Spots(c) /\ s.z \in Heights(c) /\ s.feed \in Feeds /\ s.beam \in Beams3
          /\ s.floor \in Floors(c)
        BY DEF State
    <1>2. CutTo(c, s, q, h) = t
        BY DEF CutTo
    <1>3. f \in Floors(c)
        <2>1. s.at \in Int /\ q \in Int /\ s.z \in Int /\ h \in Int
            BY <1>1, WordFacts
        <2>2. p \in Int
            BY <2>1 DEF Here
        <2> HIDE DEF p
        <2>3. p # q => Swept(c, s.floor, p, q, s.z, h) \in Floors(c)
            BY <1>1, <2>1, <2>2, SweptIs
        <2> QED
            BY <1>1, <2>3
    <1> HIDE DEF f
    <1>4. t \in State(c)
        BY <1>1, <1>3 DEF State
    <1> QED
        BY <1>2, <1>4

-----------------------------------------------------------------------------
(* One command *)

Cutting == {"rate_h", "corner"}

LEMMA FeedStep ==
    ASSUME NEW c \in Cuts, NEW rate \in Feeds, NEW P, NEW Z, NEW fs, NEW bs
    PROVE  Leads(c, Fair(c), <<F(rate)>>, Stance(c, P, Z, fs, bs), Stance(c, P, Z, {rate}, bs))
    <1> DEFINE op == F(rate)
    <1>1. op \in Commands /\ op.op = "feed" /\ op.rate = rate
        BY DEF F, Commands
    <1>2. ASSUME NEW s \in Stance(c, P, Z, fs, bs)
          PROVE  /\ After(c, s, op) \in Stance(c, P, Z, {rate}, bs)
                 /\ <<s, op.op, After(c, s, op)>> \in Fair(c)
        <2> DEFINE t == [at |-> s.at, z |-> s.z, feed |-> rate, beam |-> s.beam,
                         floor |-> s.floor]
        <2>1. After(c, s, op) = t
            BY <1>1 DEF After
        <2>2. s \in State(c) /\ t \in State(c)
            BY DEF Stance, State
        <2>3. t \in Stance(c, P, Z, {rate}, bs)
            BY <2>2 DEF Stance
        <2>4. <<s, "feed", t>> \in Fair(c)
            BY <2>2 DEF Fair
        <2> HIDE DEF t, op
        <2> QED
            BY <1>1, <2>1, <2>3, <2>4
    <1> HIDE DEF op
    <1>3. Leads(c, Fair(c), <<op>>, Stance(c, P, Z, fs, bs), Stance(c, P, Z, {rate}, bs))
        BY <1>1, <1>2, LeadsOne
    <1> QED
        BY <1>3 DEF op

LEMMA BeamStep ==
    ASSUME NEW c \in Cuts, NEW b \in Beams3, NEW P, NEW Z, NEW fs, NEW bs
    PROVE  Leads(c, Fair(c), <<Beam(b)>>, Stance(c, P, Z, fs, bs), Stance(c, P, Z, fs, {b}))
    <1> DEFINE op == Beam(b)
    <1>1. op \in Commands /\ op.op = "beam" /\ op.to = b
        BY DEF Beam, Commands
    <1>2. ASSUME NEW s \in Stance(c, P, Z, fs, bs)
          PROVE  /\ After(c, s, op) \in Stance(c, P, Z, fs, {b})
                 /\ <<s, op.op, After(c, s, op)>> \in Fair(c)
        <2> DEFINE t == [at |-> s.at, z |-> s.z, feed |-> s.feed, beam |-> b,
                         floor |-> s.floor]
        <2>1. After(c, s, op) = t
            BY <1>1 DEF After
        <2>2. s \in State(c) /\ t \in State(c)
            BY DEF Stance, State
        <2>3. t \in Stance(c, P, Z, fs, {b})
            BY <2>2 DEF Stance
        <2>4. <<s, "beam", t>> \in Fair(c)
            BY <2>2 DEF Fair
        <2> HIDE DEF t, op
        <2> QED
            BY <1>1, <2>1, <2>3, <2>4
    <1> HIDE DEF op
    <1>3. Leads(c, Fair(c), <<op>>, Stance(c, P, Z, fs, bs), Stance(c, P, Z, fs, {b}))
        BY <1>1, <1>2, LeadsOne
    <1> QED
        BY <1>3 DEF op

\* A cutting move to q at height h; either word may be left out.
LEMMA CutStep ==
    ASSUME NEW c \in Cuts, NEW q \in Spots(c) \cup {Keep}, NEW h \in Heights(c) \cup {Keep},
           NEW s \in State(c)
    PROVE  LET t == After(c, s, G1(q, h)) IN
           /\ G1(q, h) \in Commands /\ G1(q, h).op = "cut"
           /\ t \in State(c) /\ t.feed = s.feed /\ t.beam = s.beam
           /\ t.at = Word(q, s.at) /\ t.z = Word(h, s.z)
    <1> DEFINE op == G1(q, h)
    <1>1. op \in Commands /\ op.op = "cut" /\ op.at = q /\ op.z = h
        BY WordFacts DEF G1, Commands
    <1>2. Word(q, s.at) \in Spots(c) /\ Word(h, s.z) \in Heights(c)
        <2>1. s.at \in Spots(c) /\ s.z \in Heights(c)
            BY DEF State
        <2> QED
            BY <2>1 DEF Word
    <1>3. After(c, s, op) = CutTo(c, s, Word(q, s.at), Word(h, s.z))
        BY <1>1 DEF After
    <1> HIDE DEF op
    <1> QED
        BY <1>1, <1>2, <1>3, CutToType DEF op

LEMMA PlungeStep ==
    ASSUME NEW c \in Cuts, NEW h \in Heights(c), NEW P, NEW Z, NEW fs, NEW bs,
           fs \subseteq {"rate_v"} \/ \A g \in Z : g <= h
    PROVE  Leads(c, Fair(c), <<G1(Keep, h)>>, Stance(c, P, Z, fs, bs), Stance(c, P, {h}, fs, bs))
    <1> DEFINE op == G1(Keep, h)
    <1>1. ASSUME NEW s \in Stance(c, P, Z, fs, bs)
          PROVE  /\ op \in Commands
                 /\ After(c, s, op) \in Stance(c, P, {h}, fs, bs)
                 /\ <<s, op.op, After(c, s, op)>> \in Fair(c)
        <2> DEFINE t == After(c, s, op)
        <2>1. s \in State(c) /\ s.at \in P /\ s.z \in Z /\ s.feed \in fs /\ s.beam \in bs
            BY DEF Stance
        <2>2. /\ op \in Commands /\ op.op = "cut" /\ t \in State(c)
              /\ t.feed = s.feed /\ t.beam = s.beam
              /\ t.at = Word(Keep, s.at) /\ t.z = Word(h, s.z)
            BY <2>1, CutStep
        <2>3. t.at = s.at /\ t.z = h
            BY <2>2, WordFacts DEF Word
        <2>4. s.z \in Int /\ h \in Int
            BY <2>1, WordFacts DEF State
        <2> HIDE DEF t, op
        <2>5. t \in Stance(c, P, {h}, fs, bs)
            BY <2>1, <2>2, <2>3 DEF Stance
        <2>6. CutIsSlow(c, s, t)
            BY <2>1, <2>3, <2>4 DEF CutIsSlow
        <2>7. <<s, "cut", t>> \in Fair(c)
            BY <2>1, <2>2, <2>6 DEF Fair
        <2> QED
            BY <2>2, <2>5, <2>7 DEF t
    <1>2. op \in Commands
        BY WordFacts DEF G1, Commands
    <1> HIDE DEF op
    <1>3. Leads(c, Fair(c), <<op>>, Stance(c, P, Z, fs, bs), Stance(c, P, {h}, fs, bs))
        BY <1>1, <1>2, LeadsOne
    <1> QED
        BY <1>3 DEF op

LEMMA AlongStep ==
    ASSUME NEW c \in Cuts, NEW q \in Spots(c), NEW P, NEW Z, NEW fs, NEW bs,
           fs \subseteq Cutting, \A p \in P : p # q => Reaches(c, p, q)
    PROVE  Leads(c, Fair(c), <<G1(q, Keep)>>, Stance(c, P, Z, fs, bs), Stance(c, {q}, Z, fs, bs))
    <1> DEFINE op == G1(q, Keep)
    <1>1. ASSUME NEW s \in Stance(c, P, Z, fs, bs)
          PROVE  /\ op \in Commands
                 /\ After(c, s, op) \in Stance(c, {q}, Z, fs, bs)
                 /\ <<s, op.op, After(c, s, op)>> \in Fair(c)
        <2> DEFINE t == After(c, s, op)
        <2>1. s \in State(c) /\ s.at \in P /\ s.z \in Z /\ s.feed \in fs /\ s.beam \in bs
            BY DEF Stance
        <2>2. /\ op \in Commands /\ op.op = "cut" /\ t \in State(c)
              /\ t.feed = s.feed /\ t.beam = s.beam
              /\ t.at = Word(q, s.at) /\ t.z = Word(Keep, s.z)
            BY <2>1, CutStep
        <2>3. t.at = q /\ t.z = s.z
            BY <2>2, WordFacts DEF Word
        <2>4. s.z \in Int
            BY <2>1, WordFacts DEF State
        <2> HIDE DEF t, op
        <2>5. t \in Stance(c, {q}, Z, fs, bs)
            BY <2>1, <2>2, <2>3 DEF Stance
        <2>6. CutIsSlow(c, s, t)
            <3>1. t.at # s.at => Reaches(c, s.at, t.at)
                BY <2>1, <2>3
            <3>2. s.feed \in Cutting
                BY <2>1
            <3> QED
                BY <2>1, <2>3, <2>4, <3>1, <3>2 DEF CutIsSlow, Cutting
        <2>7. <<s, "cut", t>> \in Fair(c)
            BY <2>1, <2>2, <2>6 DEF Fair
        <2> QED
            BY <2>2, <2>5, <2>7 DEF t
    <1>2. op \in Commands
        BY WordFacts DEF G1, Commands
    <1> HIDE DEF op
    <1>3. Leads(c, Fair(c), <<op>>, Stance(c, P, Z, fs, bs), Stance(c, {q}, Z, fs, bs))
        BY <1>1, <1>2, LeadsOne
    <1> QED
        BY <1>3 DEF op

LEMMA SlopeStep ==
    ASSUME NEW c \in Cuts, NEW q \in Spots(c), NEW h \in Heights(c), NEW P, NEW Z, NEW fs, NEW bs,
           fs \subseteq Cutting, \A p \in P : p # q => Reaches(c, p, q),
           q \in P => \A g \in Z : g <= h
    PROVE  Leads(c, Fair(c), <<G1(q, h)>>, Stance(c, P, Z, fs, bs), Stance(c, {q}, {h}, fs, bs))
    <1> DEFINE op == G1(q, h)
    <1>1. ASSUME NEW s \in Stance(c, P, Z, fs, bs)
          PROVE  /\ op \in Commands
                 /\ After(c, s, op) \in Stance(c, {q}, {h}, fs, bs)
                 /\ <<s, op.op, After(c, s, op)>> \in Fair(c)
        <2> DEFINE t == After(c, s, op)
        <2>1. s \in State(c) /\ s.at \in P /\ s.z \in Z /\ s.feed \in fs /\ s.beam \in bs
            BY DEF Stance
        <2>2. /\ op \in Commands /\ op.op = "cut" /\ t \in State(c)
              /\ t.feed = s.feed /\ t.beam = s.beam
              /\ t.at = Word(q, s.at) /\ t.z = Word(h, s.z)
            BY <2>1, CutStep
        <2>3. t.at = q /\ t.z = h
            BY <2>2, WordFacts DEF Word
        <2>4. s.z \in Int /\ h \in Int
            BY <2>1, WordFacts DEF State
        <2> HIDE DEF t, op
        <2>5. t \in Stance(c, {q}, {h}, fs, bs)
            BY <2>1, <2>2, <2>3 DEF Stance
        <2>6. CutIsSlow(c, s, t)
            <3>1. t.at # s.at => Reaches(c, s.at, t.at)
                BY <2>1, <2>3
            <3>2. s.feed \in Cutting
                BY <2>1
            <3> QED
                BY <2>1, <2>3, <2>4, <3>1, <3>2 DEF CutIsSlow, Cutting
        <2>7. <<s, "cut", t>> \in Fair(c)
            BY <2>1, <2>2, <2>6 DEF Fair
        <2> QED
            BY <2>2, <2>5, <2>7 DEF t
    <1>2. op \in Commands
        BY WordFacts DEF G1, Commands
    <1> HIDE DEF op
    <1>3. Leads(c, Fair(c), <<op>>, Stance(c, P, Z, fs, bs), Stance(c, {q}, {h}, fs, bs))
        BY <1>1, <1>2, LeadsOne
    <1> QED
        BY <1>3 DEF op

\* A rapid to q at height h; either word may be left out.
LEMMA RapidStep ==
    ASSUME NEW c \in Cuts, NEW q \in Spots(c) \cup {Keep}, NEW h \in Heights(c) \cup {Keep},
           NEW s \in State(c)
    PROVE  LET t == After(c, s, G0(q, h)) IN
           /\ G0(q, h) \in Commands /\ G0(q, h).op = "rapid"
           /\ t \in State(c) /\ t.feed = s.feed /\ t.beam = s.beam
           /\ t.at = Word(q, s.at) /\ t.z = Word(h, s.z)
    <1> DEFINE op == G0(q, h)
               t == [at |-> Word(q, s.at), z |-> Word(h, s.z), feed |-> s.feed,
                     beam |-> s.beam, floor |-> s.floor]
    <1>1. op \in Commands /\ op.op = "rapid" /\ op.at = q /\ op.z = h
        BY WordFacts DEF G0, Commands
    <1>2. Word(q, s.at) \in Spots(c) /\ Word(h, s.z) \in Heights(c)
        <2>1. s.at \in Spots(c) /\ s.z \in Heights(c)
            BY DEF State
        <2> QED
            BY <2>1 DEF Word
    <1>3. After(c, s, op) = t
        BY <1>1 DEF After
    <1>4. t \in State(c)
        BY <1>2 DEF State
    <1> HIDE DEF op
    <1> QED
        BY <1>1, <1>3, <1>4 DEF op

LEMMA LiftStep ==
    ASSUME NEW c \in Cuts, FastZ \in Heights(c), NEW P, NEW Z, NEW fs, NEW bs
    PROVE  Leads(c, Fair(c), <<G0(Keep, FastZ)>>,
                 Stance(c, P, Z, fs, bs), Stance(c, P, {FastZ}, fs, bs))
    <1> DEFINE op == G0(Keep, FastZ)
    <1>1. ASSUME NEW s \in Stance(c, P, Z, fs, bs)
          PROVE  /\ After(c, s, op) \in Stance(c, P, {FastZ}, fs, bs)
                 /\ <<s, op.op, After(c, s, op)>> \in Fair(c)
        <2> DEFINE t == After(c, s, op)
        <2>1. s \in State(c) /\ s.at \in P /\ s.z \in Z /\ s.feed \in fs /\ s.beam \in bs
            BY DEF Stance
        <2>2. /\ op.op = "rapid" /\ t \in State(c)
              /\ t.feed = s.feed /\ t.beam = s.beam
              /\ t.at = Word(Keep, s.at) /\ t.z = Word(FastZ, s.z)
            <3>1. FastZ \in Heights(c) \cup {Keep} /\ Keep \in Spots(c) \cup {Keep}
                OBVIOUS
            <3> QED
                BY <2>1, <3>1, RapidStep
        <2>3. t.at = s.at /\ t.z = FastZ
            BY <2>2, WordFacts DEF Word
        <2>4. s.z \in Int /\ FastZ \in Int /\ s.z <= FastZ
            BY <2>1, WordFacts DEF State
        <2> HIDE DEF t, op
        <2>5. t \in Stance(c, P, {FastZ}, fs, bs)
            BY <2>1, <2>2, <2>3 DEF Stance
        <2>6. RapidIsHigh(c, s, t)
            BY <2>3, <2>4 DEF RapidIsHigh
        <2>7. <<s, "rapid", t>> \in Fair(c)
            BY <2>1, <2>2, <2>6 DEF Fair
        <2> QED
            BY <2>2, <2>5, <2>7 DEF t
    <1>2. op \in Commands
        BY WordFacts DEF G0, Commands
    <1> HIDE DEF op
    <1>3. Leads(c, Fair(c), <<op>>, Stance(c, P, Z, fs, bs), Stance(c, P, {FastZ}, fs, bs))
        BY <1>1, <1>2, LeadsOne
    <1> QED
        BY <1>3 DEF op

LEMMA PierceStep ==
    ASSUME NEW c \in Cuts, NEW h \in Heights(c), h > c.start, NEW P, NEW Z, NEW fs
    PROVE  Leads(c, Fair(c), <<G0(Keep, h)>>,
                 Stance(c, P, Z, fs, {"off"}), Stance(c, P, {h}, fs, {"off"}))
    <1> DEFINE op == G0(Keep, h)
    <1>1. ASSUME NEW s \in Stance(c, P, Z, fs, {"off"})
          PROVE  /\ After(c, s, op) \in Stance(c, P, {h}, fs, {"off"})
                 /\ <<s, op.op, After(c, s, op)>> \in Fair(c)
        <2> DEFINE t == After(c, s, op)
        <2>1. s \in State(c) /\ s.at \in P /\ s.z \in Z /\ s.feed \in fs /\ s.beam = "off"
            BY DEF Stance
        <2>2. /\ op.op = "rapid" /\ t \in State(c)
              /\ t.feed = s.feed /\ t.beam = s.beam
              /\ t.at = Word(Keep, s.at) /\ t.z = Word(h, s.z)
            BY <2>1, RapidStep
        <2>3. t.at = s.at /\ t.z = h
            BY <2>2, WordFacts DEF Word
        <2> HIDE DEF t, op
        <2>5. t \in Stance(c, P, {h}, fs, {"off"})
            BY <2>1, <2>2, <2>3 DEF Stance
        <2>6. RapidIsHigh(c, s, t)
            BY <2>1, <2>3 DEF RapidIsHigh
        <2>7. <<s, "rapid", t>> \in Fair(c)
            BY <2>1, <2>2, <2>6 DEF Fair
        <2> QED
            BY <2>2, <2>5, <2>7 DEF t
    <1>2. op \in Commands
        BY WordFacts DEF G0, Commands
    <1> HIDE DEF op
    <1>3. Leads(c, Fair(c), <<op>>, Stance(c, P, Z, fs, {"off"}), Stance(c, P, {h}, fs, {"off"}))
        BY <1>1, <1>2, LeadsOne
    <1> QED
        BY <1>3 DEF op

LEMMA CrossStep ==
    ASSUME NEW c \in Cuts, FastZ \in Heights(c), NEW q \in Spots(c), NEW P, NEW fs, NEW bs,
           \A p \in P : p = Away \/ (HelixFits(c) /\ q = 0),
           \A p \in P, b \in bs : (b = "lit") <=> (p # Away /\ c.mode = "Laser")
    PROVE  Leads(c, Fair(c), <<G0(q, FastZ)>>,
                 Stance(c, P, {FastZ}, fs, bs), Stance(c, {q}, {FastZ}, fs, bs))
    <1> DEFINE op == G0(q, FastZ)
    <1>1. ASSUME NEW s \in Stance(c, P, {FastZ}, fs, bs)
          PROVE  /\ After(c, s, op) \in Stance(c, {q}, {FastZ}, fs, bs)
                 /\ <<s, op.op, After(c, s, op)>> \in Fair(c)
        <2> DEFINE t == After(c, s, op)
        <2>1. s \in State(c) /\ s.at \in P /\ s.z = FastZ /\ s.feed \in fs /\ s.beam \in bs
            BY DEF Stance
        <2>2. /\ op.op = "rapid" /\ t \in State(c)
              /\ t.feed = s.feed /\ t.beam = s.beam
              /\ t.at = Word(q, s.at) /\ t.z = Word(FastZ, s.z)
            BY <2>1, RapidStep
        <2>3. t.at = q /\ t.z = FastZ
            BY <2>2, WordFacts DEF Word
        <2>4. ~(FastZ < FastZ)
            BY CutFacts
        <2> HIDE DEF t, op
        <2>5. t \in Stance(c, {q}, {FastZ}, fs, bs)
            BY <2>1, <2>2, <2>3 DEF Stance
        <2>6. RapidIsHigh(c, s, t)
            BY <2>1, <2>3, <2>4 DEF RapidIsHigh
        <2>7. <<s, "rapid", t>> \in Fair(c)
            BY <2>1, <2>2, <2>6 DEF Fair
        <2> QED
            BY <2>2, <2>5, <2>7 DEF t
    <1>2. op \in Commands
        BY WordFacts DEF G0, Commands
    <1> HIDE DEF op
    <1>3. Leads(c, Fair(c), <<op>>, Stance(c, P, {FastZ}, fs, bs), Stance(c, {q}, {FastZ}, fs, bs))
        BY <1>1, <1>2, LeadsOne
    <1> QED
        BY <1>3 DEF op

\* No command puts material back.
LEMMA AfterLowers ==
    ASSUME NEW c \in Cuts, NEW s \in State(c), NEW op \in Commands,
           After(c, s, op) \in State(c), NEW u \in Units(c)
    PROVE  LET t == After(c, s, op) IN
           /\ t.floor[u][1] \in Int /\ t.floor[u][2] \in Int
           /\ s.floor[u][1] \in Int /\ s.floor[u][2] \in Int
           /\ t.floor[u][1] <= s.floor[u][1] /\ t.floor[u][2] <= s.floor[u][2]
    <1> DEFINE t == After(c, s, op)
               q == Word(op.at, s.at)
               h == Word(op.z, s.z)
               p == Here(c, s.at, q)
               G == Lowest(c) .. c.start
    <1>1. ASSUME NEW r \in State(c) PROVE r.floor[u][1] \in Int /\ r.floor[u][2] \in Int
        <2>1. r.floor \in [Units(c) -> G \X G]
            BY DEF State, Floors
        <2>2. r.floor[u] \in G \X G
            BY <2>1
        <2>3. r.floor[u][1] \in G /\ r.floor[u][2] \in G
            BY <2>2
        <2> QED
            BY <2>3, PlannedIs, ScheduledAre
    <1>2. CASE op.op \in {"feed", "beam", "rapid"}
        <2>1. t.floor = s.floor
            BY <1>2 DEF After
        <2> HIDE DEF t
        <2> QED
            BY <1>1, <2>1 DEF t
    <1>3. CASE op.op = "cut"
        <2>1. t = CutTo(c, s, q, h)
            BY <1>3 DEF After
        <2>2. t.at = q /\ t.z = h
            BY <2>1 DEF CutTo
        <2>3. /\ q \in Spots(c) /\ h \in Heights(c) /\ s.at \in Spots(c) /\ s.z \in Heights(c)
              /\ s.floor \in Floors(c)
            BY <2>2 DEF State
        <2>4. q \in Int /\ s.at \in Int
            BY <2>3, WordFacts
        <2>5. p \in Int
            BY <2>4 DEF Here
        <2>6. t.floor = IF p # q /\ SameSegment(c, p, q)
                        THEN Swept(c, s.floor, p, q, s.z, h) ELSE s.floor
            BY <2>1 DEF CutTo
        <2> HIDE DEF t, q, h, p
        <2>7. p # q => /\ Swept(c, s.floor, p, q, s.z, h)[u][1] <= s.floor[u][1]
                       /\ Swept(c, s.floor, p, q, s.z, h)[u][2] <= s.floor[u][2]
            BY <2>3, <2>4, <2>5, SweptIs
        <2>8. t.floor[u][1] <= s.floor[u][1] /\ t.floor[u][2] <= s.floor[u][2]
            BY <1>1, <2>6, <2>7
        <2> QED
            BY <1>1, <2>8 DEF t
    <1> QED
        BY <1>2, <1>3 DEF Commands

LEMMA LeadsKeeps ==
    ASSUME NEW c \in Cuts, NEW q, NEW S, NEW T, Leads(c, Fair(c), q, S, T),
           NEW D, D \subseteq Units(c), NEW h \in Int
    PROVE  Leads(c, Fair(c), q, Cleared(S, D, h), Cleared(T, D, h))
    <1>1. q \in Seq(Commands)
        BY DEF Leads
    <1>2. ASSUME NEW s \in Cleared(S, D, h)
          PROVE  \E t \in Cleared(T, D, h) : Runs(c, Fair(c), q, s, t)
        <2>1. s \in S
            BY DEF Cleared
        <2>2. PICK t \in T : Runs(c, Fair(c), q, s, t)
            BY <2>1 DEF Leads
        <2>3. PICK a : /\ a[0] = s /\ a[Len(q)] = t
                       /\ \A i \in 1 .. Len(q) : Takes(c, Fair(c), a[i - 1], q[i], a[i])
            BY <2>2 DEF Runs
        <2> DEFINE Low(r) == \A u \in D : r.floor[u][1] <= h /\ r.floor[u][2] <= h
                   K == {i \in Nat : i <= Len(q) => Low(a[i])}
        <2>4. 0 \in K
            BY <2>3 DEF Cleared
        <2>5. ASSUME NEW i \in K PROVE i + 1 \in K
            <3> SUFFICES ASSUME i + 1 <= Len(q), NEW u \in D
                         PROVE  a[i + 1].floor[u][1] <= h /\ a[i + 1].floor[u][2] <= h
                OBVIOUS
            <3>1. i \in Nat /\ i + 1 \in 1 .. Len(q) /\ (i + 1) - 1 = i /\ Low(a[i])
                BY <1>1
            <3>2. Takes(c, Fair(c), a[i], q[i + 1], a[i + 1])
                BY <2>3, <3>1
            <3>3. /\ a[i + 1] = After(c, a[i], q[i + 1])
                  /\ <<a[i], q[i + 1].op, a[i + 1]>> \in Fair(c)
                BY <3>2 DEF Takes
            <3>4. a[i] \in State(c) /\ After(c, a[i], q[i + 1]) \in State(c) /\ q[i + 1] \in Commands
                BY <1>1, <3>1, <3>3 DEF Fair
            <3>5. a[i].floor[u][1] <= h /\ a[i].floor[u][2] <= h /\ u \in Units(c)
                BY <3>1
            <3> HIDE DEF Low, K
            <3>6. /\ a[i + 1].floor[u][1] \in Int /\ a[i + 1].floor[u][2] \in Int
                  /\ a[i].floor[u][1] \in Int /\ a[i].floor[u][2] \in Int
                  /\ a[i + 1].floor[u][1] <= a[i].floor[u][1]
                  /\ a[i + 1].floor[u][2] <= a[i].floor[u][2]
                BY <3>3, <3>4, <3>5, AfterLowers
            <3> QED
                BY <3>5, <3>6
        <2>6. K = Nat
            <3> HIDE DEF K
            <3> QED
                BY <2>4, <2>5, Induction DEF K
        <2>7. Low(a[Len(q)])
            <3>1. Len(q) \in K /\ Len(q) <= Len(q)
                BY <1>1, <2>6
            <3> QED
                BY <3>1
        <2>8. t \in Cleared(T, D, h)
            BY <2>3, <2>7 DEF Cleared
        <2> QED
            BY <2>2, <2>8
    <1> QED
        BY <1>1, <1>2 DEF Leads

\* A move along the contour at one height leaves the units it passes there.
LEMMA AlongClears ==
    ASSUME NEW c \in Cuts, NEW q \in Spots(c), NEW P, NEW d \in Heights(c), NEW bs,
           \A p \in P : p # q => Reaches(c, p, q),
           NEW a \in Int, NEW D, D \subseteq Units(c),
           D # {} => \A p \in P : Here(c, p, q) = a /\ SameSegment(c, a, q),
           \A u \in D : (a < u /\ u <= q) \/ (q < u /\ u <= a)
    PROVE  Leads(c, Fair(c), <<G1(q, Keep)>>, Stance(c, P, {d}, Cutting, bs),
                 Cleared(Stance(c, {q}, {d}, Cutting, bs), D, d))
    <1> DEFINE op == G1(q, Keep)
               S == Stance(c, P, {d}, Cutting, bs)
               T == Stance(c, {q}, {d}, Cutting, bs)
    <1>1. Leads(c, Fair(c), <<op>>, S, T)
        BY AlongStep
    <1>2. ASSUME NEW s \in S
          PROVE  /\ op \in Commands /\ After(c, s, op) \in Cleared(T, D, d)
                 /\ <<s, op.op, After(c, s, op)>> \in Fair(c)
        <2>1. /\ op \in Commands /\ After(c, s, op) \in T
              /\ <<s, op.op, After(c, s, op)>> \in Fair(c)
            BY <1>1, OneIs
        <2>2. ASSUME NEW u \in D
              PROVE  /\ After(c, s, op).floor[u][1] <= d
                     /\ After(c, s, op).floor[u][2] <= d
            <3>1. /\ s.at \in P /\ s.z = d /\ s.floor \in Floors(c) /\ s.at \in Spots(c)
                BY DEF Stance, State
            <3>2. Here(c, s.at, q) = a /\ SameSegment(c, a, q)
                BY <3>1
            <3>3. Word(q, s.at) = q /\ Word(Keep, s.z) = d /\ q \in Int
                BY <3>1, WordFacts DEF Word
            <3>4. After(c, s, op) = CutTo(c, s, q, d)
                BY <3>3 DEF After, G1
            <3>5. a # q /\ u \in Units(c)
                <4>1. u \in Units(c) /\ u \in Int
                    BY ContourFacts DEF Units
                <4>2. (a < u /\ u <= q) \/ (q < u /\ u <= a)
                    OBVIOUS
                <4> QED
                    BY <3>3, <4>1, <4>2
            <3>6. After(c, s, op).floor = Swept(c, s.floor, a, q, d, d)
                BY <3>1, <3>2, <3>4, <3>5 DEF CutTo
            <3> QED
                BY <3>1, <3>3, <3>5, <3>6, SweptIs
        <2> HIDE DEF op, T
        <2> QED
            BY <2>1, <2>2 DEF Cleared
    <1>3. op \in Commands
        BY WordFacts DEF G1, Commands
    <1> HIDE DEF op, S, T
    <1>4. Leads(c, Fair(c), <<op>>, S, Cleared(T, D, d))
        BY <1>2, <1>3, LeadsOne
    <1> QED
        BY <1>4 DEF op, S, T

LEMMA ClearedFacts ==
    ASSUME NEW c, NEW S, NEW D, NEW h
    PROVE  /\ Cleared(S, {}, h) = S /\ Cleared(S, D, h) \subseteq S
           /\ \A T : S \subseteq T => Cleared(S, D, h) \subseteq Cleared(T, D, h)
           /\ \A E : E \subseteq D => Cleared(S, D, h) \subseteq Cleared(S, E, h)
           /\ \A E, F2 : D \subseteq E \cup F2 =>
                    Cleared(Cleared(S, E, h), F2, h) \subseteq Cleared(S, D, h)
    BY DEF Cleared

\* What q leaves is left besides what was left before.
LEMMA ClearsOn ==
    ASSUME NEW c \in Cuts, NEW q, NEW S, NEW T, NEW E, NEW h \in Int,
           Leads(c, Fair(c), q, S, Cleared(T, E, h)),
           NEW G, G \subseteq Units(c), NEW D, D \subseteq E \cup G
    PROVE  Leads(c, Fair(c), q, Cleared(S, G, h), Cleared(T, D, h))
    <1>1. Leads(c, Fair(c), q, Cleared(S, G, h), Cleared(Cleared(T, E, h), G, h))
        BY LeadsKeeps
    <1>2. Cleared(Cleared(T, E, h), G, h) \subseteq Cleared(T, D, h)
        BY ClearedFacts
    <1> QED
        BY <1>1, <1>2, LeadsWeaken

\* The units of D between x and y.
Passed(x, y, D) == {u \in D : (x < u /\ u <= y) \/ (y < u /\ u <= x)}

LEMMA PassedFacts ==
    ASSUME NEW D, D \subseteq Int, NEW x \in Int, NEW y \in Int, NEW w \in Int
    PROVE  /\ Passed(x, y, D) \subseteq D /\ Passed(x, x, D) = {}
           /\ Passed(x, y, D) \subseteq Passed(w, y, D) \cup Passed(x, w, D)
    <1>1. ASSUME NEW u \in Passed(x, y, D)
          PROVE  u \in Passed(w, y, D) \cup Passed(x, w, D)
        <2>1. u \in Int /\ u \in D /\ ((x < u /\ u <= y) \/ (y < u /\ u <= x))
            BY DEF Passed
        <2>2. \/ (w < u /\ u <= y) \/ (y < u /\ u <= w)
              \/ (x < u /\ u <= w) \/ (w < u /\ u <= x)
            BY <2>1
        <2> QED
            BY <2>1, <2>2 DEF Passed
    <1>2. Passed(x, x, D) = {}
        <2>1. \A u \in D : ~(x < u /\ u <= x)
            OBVIOUS
        <2> QED
            BY <2>1 DEF Passed
    <1>3. Passed(x, y, D) \subseteq D
        BY DEF Passed
    <1> QED
        BY <1>1, <1>2, <1>3

LEMMA StanceGrows ==
    ASSUME NEW c, NEW P, NEW Z, NEW fs, NEW bs, NEW P2, NEW Z2, NEW fs2, NEW bs2,
           P \subseteq P2, Z \subseteq Z2, fs \subseteq fs2, bs \subseteq bs2
    PROVE  Stance(c, P, Z, fs, bs) \subseteq Stance(c, P2, Z2, fs2, bs2)
    BY DEF Stance

\* The feed of a cutting move.
LEMMA CuttingFeed ==
    ASSUME NEW c \in Cuts, NEW rate \in Cutting, NEW P, NEW Z, NEW fs, NEW bs
    PROVE  Leads(c, Fair(c), <<F(rate)>>, Stance(c, P, Z, fs, bs), Stance(c, P, Z, Cutting, bs))
    <1>1. rate \in Feeds
        BY DEF Cutting, Feeds
    <1>2. Leads(c, Fair(c), <<F(rate)>>, Stance(c, P, Z, fs, bs), Stance(c, P, Z, {rate}, bs))
        BY <1>1, FeedStep
    <1>3. Stance(c, P, Z, {rate}, bs) \subseteq Stance(c, P, Z, Cutting, bs)
        BY StanceGrows
    <1> QED
        BY <1>2, <1>3, LeadsWeaken

\* Straight down at the plunge feed, and on at the cutting feed.
LEMMA PlungeLeads ==
    ASSUME NEW c \in Cuts, NEW h \in Heights(c), NEW P, NEW Z, NEW fs, NEW bs
    PROVE  Leads(c, Fair(c), <<F("rate_v"), G1(Keep, h), F("rate_h")>>,
                 Stance(c, P, Z, fs, bs), Stance(c, P, {h}, Cutting, bs))
    <1> DEFINE u == F("rate_v")
               v == G1(Keep, h)
               w == F("rate_h")
               N == Fair(c)
               S == Stance(c, P, Z, fs, bs)
               S1 == Stance(c, P, Z, {"rate_v"}, bs)
               S2 == Stance(c, P, {h}, {"rate_v"}, bs)
               S3 == Stance(c, P, {h}, Cutting, bs)
    <1>1. \A rate \in Feeds :
            Leads(c, Fair(c), <<F(rate)>>, Stance(c, P, Z, fs, bs), Stance(c, P, Z, {rate}, bs))
        BY FeedStep
    <1>2. Leads(c, N, <<u>>, S, S1)
        <2>1. "rate_v" \in Feeds
            BY DEF Feeds
        <2> QED
            BY <1>1, <2>1
    <1>3. \A f : f \subseteq {"rate_v"} =>
            Leads(c, Fair(c), <<G1(Keep, h)>>, Stance(c, P, Z, f, bs), Stance(c, P, {h}, f, bs))
        BY PlungeStep
    <1>4. Leads(c, N, <<v>>, S1, S2)
        BY <1>3
    <1>5. \A rate \in Cutting : \A f :
            Leads(c, Fair(c), <<F(rate)>>, Stance(c, P, {h}, f, bs), Stance(c, P, {h}, Cutting, bs))
        BY CuttingFeed
    <1>6. Leads(c, N, <<w>>, S2, S3)
        <2>1. "rate_h" \in Cutting
            BY DEF Cutting
        <2> QED
            BY <1>5, <2>1
    <1> HIDE DEF u, v, w, N, S, S1, S2, S3
    <1>7. Leads(c, N, <<u, v, w>>, S, S3)
        BY <1>2, <1>4, <1>6, LeadsThree
    <1> QED
        BY <1>7 DEF u, v, w, N, S, S3

-----------------------------------------------------------------------------
(* Chains of segments *)

\* The chain runs from a to b over the whole contour, segment by segment and
\* all the way in one direction.
Traced(c, chain, a, b) ==
    /\ Len(chain) = Len(c.segs)
    /\ chain[1].from = a /\ chain[Len(chain)].to = b
    /\ \A i \in 1 .. Len(chain) :
        /\ chain[i].from \in Nat /\ chain[i].to \in Nat
        /\ \E j \in 1 .. Len(c.segs) :
            /\ chain[i].from \in Vertex(c, j - 1) .. Vertex(c, j)
            /\ chain[i].to \in Vertex(c, j - 1) .. Vertex(c, j)
    /\ \A i \in 1 .. Len(chain) : i > 1 => chain[i].from = chain[i - 1].to
    /\ \/ a < b /\ \A i \in 1 .. Len(chain) : chain[i].from < chain[i].to
       \/ b < a /\ \A i \in 1 .. Len(chain) : chain[i].to < chain[i].from

LEMMA ForwardTraced ==
    ASSUME NEW c \in Cuts
    PROVE  Traced(c, Forward(c), 0, Length(c))
    <1> DEFINE n == Len(c.segs)
               chain == [i \in 1 .. n |-> [from |-> Vertex(c, i - 1), to |-> Vertex(c, i),
                                           arc |-> c.segs[i].arc]]
    <1>1. n \in Nat \ {0} /\ Vertex(c, 0) = 0
        BY CutFacts, VertexNext
    <1>2. Len(chain) = n /\ chain = Forward(c)
        BY <1>1 DEF Forward
    <1>3. ASSUME NEW i \in 1 .. n
          PROVE  /\ chain[i].from = Vertex(c, i - 1) /\ chain[i].to = Vertex(c, i)
                 /\ Vertex(c, i - 1) \in Nat /\ Vertex(c, i) \in Nat
                 /\ Vertex(c, i - 1) < Vertex(c, i)
        <2>1. i - 1 \in 0 .. n /\ i \in 0 .. n /\ i - 1 < i
            BY <1>1
        <2> QED
            BY <2>1, VertexType, VertexGrows
    <1> HIDE DEF chain
    <1>4. ASSUME NEW i \in 1 .. n
          PROVE  \E j \in 1 .. n : /\ chain[i].from \in Vertex(c, j - 1) .. Vertex(c, j)
                                   /\ chain[i].to \in Vertex(c, j - 1) .. Vertex(c, j)
        BY <1>3
    <1>5. ASSUME NEW i \in 1 .. n, i > 1 PROVE chain[i].from = chain[i - 1].to
        <2>1. i - 1 \in 1 .. n
            BY <1>1, <1>5
        <2> QED
            BY <1>3, <2>1
    <1>6. chain[1].from = 0 /\ chain[n].to = Length(c)
        <2>1. 1 \in 1 .. n /\ n \in 1 .. n /\ 1 - 1 = 0
            BY <1>1
        <2> QED
            BY <1>1, <1>3, <2>1 DEF Length
    <1>7. 0 < Length(c)
        BY ContourFacts
    <1>8. Traced(c, chain, 0, Length(c))
        BY <1>2, <1>3, <1>4, <1>5, <1>6, <1>7 DEF Traced
    <1> QED
        BY <1>2, <1>8

LEMMA ReversedTraced ==
    ASSUME NEW c \in Cuts
    PROVE  Traced(c, Reversed(c), Length(c), 0)
    <1> DEFINE n == Len(c.segs)
               fore == [i \in 1 .. n |-> [from |-> Vertex(c, i - 1), to |-> Vertex(c, i),
                                           arc |-> c.segs[i].arc]]
               seg == [i \in 1 .. n |-> fore[(n - i) + 1]]
               chain == [i \in 1 .. n |-> [seg[i] EXCEPT !.from = seg[i].to, !.to = seg[i].from]]
    <1>1. n \in Nat \ {0} /\ Vertex(c, 0) = 0
        BY CutFacts, VertexNext
    <1>2. Len(chain) = n /\ chain = Reversed(c)
        <2>1. Len(fore) = n /\ fore = Forward(c)
            BY <1>1 DEF Forward
        <2>2. seg = Reverse(Forward(c)) /\ Len(seg) = n
            BY <1>1, <2>1 DEF Reverse
        <2> HIDE DEF seg, fore
        <2>3. chain = Reversed(c)
            BY <2>2 DEF Reversed
        <2>4. Len(chain) = n
            BY <1>1
        <2> QED
            BY <2>3, <2>4
    <1>3. ASSUME NEW i \in 1 .. n
          PROVE  /\ chain[i].from = Vertex(c, (n - i) + 1) /\ chain[i].to = Vertex(c, n - i)
                 /\ Vertex(c, (n - i) + 1) \in Nat /\ Vertex(c, n - i) \in Nat
                 /\ Vertex(c, n - i) < Vertex(c, (n - i) + 1)
        <2> DEFINE j == (n - i) + 1
        <2>1. j \in 1 .. n /\ j - 1 = n - i /\ n - i \in 0 .. n /\ j \in 0 .. n /\ n - i < j
            BY <1>1
        <2>2. fore[j] = [from |-> Vertex(c, n - i), to |-> Vertex(c, j), arc |-> c.segs[j].arc]
            BY <2>1
        <2>3. seg[i] = fore[j]
            OBVIOUS
        <2>7. chain[i] = [seg[i] EXCEPT !.from = seg[i].to, !.to = seg[i].from]
            OBVIOUS
        <2> HIDE DEF j, seg, fore, chain
        <2>4. chain[i].from = seg[i].to /\ chain[i].to = seg[i].from
            <3>1. seg[i] = [from |-> Vertex(c, n - i), to |-> Vertex(c, j), arc |-> c.segs[j].arc]
                BY <2>2, <2>3
            <3>2. chain[i] = [[seg[i] EXCEPT !.from = seg[i].to] EXCEPT !.to = seg[i].from]
                BY <2>7
            <3> QED
                BY <3>1, <3>2
        <2>5. chain[i].from = Vertex(c, j) /\ chain[i].to = Vertex(c, n - i)
            BY <2>2, <2>3, <2>4
        <2>6. Vertex(c, n - i) \in Nat /\ Vertex(c, j) \in Nat /\ Vertex(c, n - i) < Vertex(c, j)
            BY <2>1, VertexType, VertexGrows
        <2> QED
            BY <2>5, <2>6 DEF j
    <1> HIDE DEF chain
    <1>4. ASSUME NEW i \in 1 .. n
          PROVE  \E j \in 1 .. n : /\ chain[i].from \in Vertex(c, j - 1) .. Vertex(c, j)
                                   /\ chain[i].to \in Vertex(c, j - 1) .. Vertex(c, j)
        <2> DEFINE j == (n - i) + 1
        <2>1. j \in 1 .. n /\ j - 1 = n - i
            BY <1>1
        <2>2. /\ chain[i].from \in Vertex(c, j - 1) .. Vertex(c, j)
              /\ chain[i].to \in Vertex(c, j - 1) .. Vertex(c, j)
            BY <1>3, <2>1
        <2> QED
            BY <2>1, <2>2
    <1>5. ASSUME NEW i \in 1 .. n, i > 1 PROVE chain[i].from = chain[i - 1].to
        <2>1. i - 1 \in 1 .. n /\ n - (i - 1) = (n - i) + 1
            BY <1>1, <1>5
        <2> QED
            BY <1>3, <2>1
    <1>6. chain[1].from = Length(c) /\ chain[n].to = 0
        <2>1. 1 \in 1 .. n /\ n \in 1 .. n /\ (n - 1) + 1 = n /\ n - n = 0
            BY <1>1
        <2> QED
            BY <1>1, <1>3, <2>1 DEF Length
    <1>7. 0 < Length(c)
        BY ContourFacts
    <1>8. Traced(c, chain, Length(c), 0)
        <2>1. \A i \in 1 .. n : chain[i].from \in Nat /\ chain[i].to \in Nat /\ chain[i].to < chain[i].from
            BY <1>3
        <2> HIDE DEF n
        <2> QED
            BY <1>2, <1>4, <1>5, <1>6, <1>7, <2>1 DEF Traced, n
    <1> QED
        BY <1>2, <1>8

\* From p the tool may walk on to any point of the j-th segment.
Joins(c, p, j) == \A q \in Vertex(c, j - 1) .. Vertex(c, j) : p # q => Reaches(c, p, q)

LEMMA JoinsInside ==
    ASSUME NEW c \in Cuts, NEW j \in 1 .. Len(c.segs), NEW p \in Vertex(c, j - 1) .. Vertex(c, j)
    PROVE  Joins(c, p, j)
    BY OnSegment DEF Joins, Reaches, Follows

LEMMA JoinsFromEnd ==
    ASSUME NEW c \in Cuts, c.closed \/ c.tabsActive
    PROVE  Joins(c, Length(c), 1)
    <1> SUFFICES ASSUME NEW q \in Vertex(c, 1 - 1) .. Vertex(c, 1) PROVE Reaches(c, Length(c), q)
        BY DEF Joins
    <1>1. Len(c.segs) \in Nat \ {0} /\ 1 \in 1 .. Len(c.segs) /\ 1 - 1 = 0
        BY CutFacts
    <1>2. Vertex(c, 0) = 0 /\ Vertex(c, 1) \in Nat
        BY <1>1, VertexNext, VertexType
    <1>3. CASE ~c.closed
        BY <1>3 DEF Reaches
    <1>4. CASE c.closed
        <2>1. CASE SameSegment(c, Length(c), q)
            BY <2>1 DEF Reaches, Follows, Here
        <2>2. CASE ~SameSegment(c, Length(c), q)
            <3>1. Here(c, Length(c), q) = 0
                BY <1>4, <2>2 DEF Here
            <3>2. {0, q} \subseteq Vertex(c, 1 - 1) .. Vertex(c, 1)
                BY <1>1, <1>2
            <3>3. SameSegment(c, 0, q)
                BY <1>1, <3>2 DEF SameSegment
            <3> QED
                BY <3>1, <3>3 DEF Reaches, Follows
        <2> QED
            BY <2>1, <2>2
    <1> QED
        BY <1>3, <1>4

-----------------------------------------------------------------------------
(* The walks *)

\* A chain may be entered from each place of P.
Enters(c, P, chain) ==
    \E j \in 1 .. Len(c.segs) :
        /\ chain[1].from \in Vertex(c, j - 1) .. Vertex(c, j)
        /\ chain[1].to \in Vertex(c, j - 1) .. Vertex(c, j)
        /\ \A p \in P : Joins(c, p, j)

\* Before its i-th segment the tool is at one of these places.
Reached(P, chain, i) == IF i = 1 THEN P ELSE {chain[i].from}

LEMMA TracedJoins ==
    ASSUME NEW c \in Cuts, NEW chain, NEW a, NEW b, NEW P,
           Traced(c, chain, a, b), Enters(c, P, chain), NEW i \in 1 .. Len(chain),
           NEW q, q = chain[i].to \/ (chain[i].from <= q /\ q <= chain[i].to)
                        \/ (chain[i].to <= q /\ q <= chain[i].from), q \in Int
    PROVE  /\ q \in Spots(c)
           /\ \A p \in Reached(P, chain, i) : p # q => Reaches(c, p, q)
    <1>1. PICK j \in 1 .. Len(c.segs) :
            /\ chain[i].from \in Vertex(c, j - 1) .. Vertex(c, j)
            /\ chain[i].to \in Vertex(c, j - 1) .. Vertex(c, j)
            /\ \A p \in Reached(P, chain, i) : Joins(c, p, j)
        <2>1. CASE i = 1
            <3>1. PICK j \in 1 .. Len(c.segs) :
                    /\ chain[1].from \in Vertex(c, j - 1) .. Vertex(c, j)
                    /\ chain[1].to \in Vertex(c, j - 1) .. Vertex(c, j)
                    /\ \A p \in P : Joins(c, p, j)
                BY DEF Enters
            <3> QED
                BY <2>1, <3>1 DEF Reached
        <2>2. CASE i # 1
            <3>1. PICK j \in 1 .. Len(c.segs) :
                    /\ chain[i].from \in Vertex(c, j - 1) .. Vertex(c, j)
                    /\ chain[i].to \in Vertex(c, j - 1) .. Vertex(c, j)
                BY DEF Traced
            <3>2. Joins(c, chain[i].from, j)
                BY <3>1, JoinsInside
            <3> QED
                BY <2>2, <3>1, <3>2 DEF Reached
        <2> QED
            BY <2>1, <2>2
    <1>2. j - 1 \in 0 .. Len(c.segs) /\ j \in 0 .. Len(c.segs)
        BY CutFacts
    <1>3. /\ Vertex(c, j - 1) \in 0 .. Length(c) /\ Vertex(c, j) \in 0 .. Length(c)
          /\ Length(c) \in Nat
        BY <1>2, ContourFacts
    <1>4. q \in Vertex(c, j - 1) .. Vertex(c, j)
        BY <1>1, <1>3
    <1>5. q \in Spots(c)
        BY <1>3, <1>4 DEF Spots, FarSide
    <1> QED
        BY <1>1, <1>4, <1>5 DEF Joins

\* A walk at one height leaves all of the contour there.
LEMMA WalkClears ==
    ASSUME NEW c \in Cuts, NEW chain, NEW a \in Int, NEW b \in Int, NEW P,
           NEW d \in Heights(c), NEW bs,
           Traced(c, chain, a, b), Enters(c, P, chain),
           NEW D, D \subseteq Units(c), \A u \in D : (a < u /\ u <= b) \/ (b < u /\ u <= a),
           D # {} => \A p \in P : Here(c, p, chain[1].to) = a
    PROVE  Leads(c, Fair(c), Walk(c, chain),
                 Stance(c, P, {d}, Cutting, bs), Cleared(Stance(c, {b}, {d}, Cutting, bs), D, d))
    <1> DEFINE n == Len(chain)
               N == Fair(c)
               slow(i) == /\ c.sharp /\ i > 1
                          /\ ~chain[i].arc /\ ~chain[i - 1].arc
               turn(i) == IF i > 1 /\ slow(i) # slow(i - 1)
                          THEN <<F(IF slow(i) THEN "corner" ELSE "rate_h")>> ELSE <<>>
               legs == [i \in 1 .. n |-> turn(i) \o <<G1(chain[i].to, Keep)>>]
               end == IF slow(n) THEN <<F("rate_h")>> ELSE <<>>
               S(Q) == Stance(c, Q, {d}, Cutting, bs)
               E(i) == Passed(a, chain[i].to, D)
               E0(i) == Passed(a, chain[i].from, D)
               J == [i \in 0 .. n |-> IF i = 0 THEN Cleared(S(P), {}, d)
                                      ELSE Cleared(S({chain[i].to}), E(i), d)]
    <1>1. Walk(c, chain) = AsOne(legs) \o end
        BY DEF Walk
    <1>2. n \in Nat \ {0} /\ Len(legs) = n /\ n = Len(c.segs)
        BY CutFacts DEF Traced
    <1>3. chain[n].to = b /\ chain[1].from = a
        BY DEF Traced
    <1>10. \A i \in 1 .. n : chain[i].to \in Nat /\ chain[i].from \in Nat
        BY DEF Traced
    <1>12. D \subseteq Int /\ d \in Int
        BY WordFacts, ContourFacts DEF Units
    <1>13. \A i \in 1 .. n : E(i) \subseteq Units(c) /\ E0(i) \subseteq Units(c)
        BY DEF Passed
    <1>4. ASSUME NEW Q
          PROVE  /\ Leads(c, N, <<F("corner")>>, S(Q), S(Q))
                 /\ Leads(c, N, <<F("rate_h")>>, S(Q), S(Q))
        <2>1. \A rate \in Cutting : Leads(c, N, <<F(rate)>>, S(Q), S(Q))
            BY CuttingFeed
        <2> QED
            BY <2>1 DEF Cutting
    <1>5. ASSUME NEW Q PROVE Leads(c, N, <<>>, S(Q), S(Q))
        BY LeadsNone
    <1>6. ASSUME NEW i \in 1 .. n PROVE Leads(c, N, legs[i], J[i - 1], J[i])
        <2> DEFINE R == Reached(P, chain, i)
        <2>1. J[i - 1] = Cleared(S(R), E0(i), d) /\ J[i] = Cleared(S({chain[i].to}), E(i), d)
            <3>1. CASE i = 1
                <4>1. i - 1 = 0 /\ i \in 0 .. n /\ i # 0 /\ i - 1 \in 0 .. n
                    BY <1>2, <3>1
                <4>2. E0(i) = {}
                    BY <1>3, <1>12, <3>1, PassedFacts
                <4>3. R = P
                    BY <3>1 DEF Reached
                <4> HIDE DEF S, E, E0, R
                <4> QED
                    BY <4>1, <4>2, <4>3
            <3>2. CASE i # 1
                <4>1. chain[i].from = chain[i - 1].to /\ i - 1 \in 0 .. n /\ i - 1 # 0 /\ i \in 0 .. n
                    BY <1>2, <3>2 DEF Traced
                <4>2. R = {chain[i].from} /\ E0(i) = E(i - 1) /\ i # 0
                    BY <3>2, <4>1 DEF Reached
                <4> HIDE DEF S, E, E0, R
                <4> QED
                    BY <4>1, <4>2
            <3> QED
                BY <3>1, <3>2
        <2>2. Leads(c, N, turn(i), S(R), S(R))
            <3> HIDE DEF S, N, R
            <3>1. CASE slow(i)
                <4>1. turn(i) = <<F("corner")>> \/ turn(i) = <<>>
                    BY <3>1
                <4> QED
                    BY <1>4, <1>5, <4>1
            <3>2. CASE ~slow(i)
                <4>1. turn(i) = <<F("rate_h")>> \/ turn(i) = <<>>
                    BY <3>2
                <4> QED
                    BY <1>4, <1>5, <4>1
            <3> QED
                BY <3>1, <3>2
        <2>3. /\ chain[i].to \in Spots(c)
              /\ \A p \in R : p # chain[i].to => Reaches(c, p, chain[i].to)
            <3>1. chain[i].to \in Int
                BY <1>10
            <3> QED
                BY <3>1, TracedJoins
        <2> DEFINE X == Passed(chain[i].from, chain[i].to, D)
        <2>4. X # {} => \A p \in R : /\ Here(c, p, chain[i].to) = chain[i].from
                                      /\ SameSegment(c, chain[i].from, chain[i].to)
            <3>1. SameSegment(c, chain[i].from, chain[i].to)
                BY DEF Traced, SameSegment
            <3>2. CASE i = 1
                BY <1>3, <3>1, <3>2 DEF Reached, Passed
            <3>3. CASE i # 1
                <4>1. R = {chain[i].from}
                    BY <3>3 DEF Reached
                <4>2. Here(c, chain[i].from, chain[i].to) = chain[i].from
                    BY <3>1 DEF Here
                <4> QED
                    BY <3>1, <4>1, <4>2
            <3> QED
                BY <3>2, <3>3
        <2>5. X \subseteq Units(c) /\ chain[i].from \in Int
              /\ \A u \in X : \/ chain[i].from < u /\ u <= chain[i].to
                              \/ chain[i].to < u /\ u <= chain[i].from
            BY <1>10 DEF Passed
        <2>6. Leads(c, N, <<G1(chain[i].to, Keep)>>, S(R), Cleared(S({chain[i].to}), X, d))
            <3> HIDE DEF X, R
            <3> QED
                BY <2>3, <2>4, <2>5, AlongClears
        <2>7. E(i) \subseteq X \cup E0(i)
            <3>1. chain[i].from \in Int /\ chain[i].to \in Int
                BY <1>10
            <3> QED
                BY <1>12, <3>1, PassedFacts
        <2>8. legs[i] = turn(i) \o <<G1(chain[i].to, Keep)>>
            OBVIOUS
        <2> HIDE DEF turn, S, J, legs, X, E, E0, R
        <2>9. Leads(c, N, turn(i), Cleared(S(R), E0(i), d), Cleared(S(R), E0(i), d))
            BY <1>12, <1>13, <2>2, LeadsKeeps
        <2>10. Leads(c, N, <<G1(chain[i].to, Keep)>>,
                     Cleared(S(R), E0(i), d), Cleared(S({chain[i].to}), E(i), d))
            BY <1>12, <1>13, <2>6, <2>7, ClearsOn
        <2> HIDE DEF N
        <2>11. Leads(c, N, turn(i) \o <<G1(chain[i].to, Keep)>>,
                    Cleared(S(R), E0(i), d), Cleared(S({chain[i].to}), E(i), d))
            BY <2>9, <2>10, LeadsConcat
        <2> QED
            BY <2>1, <2>8, <2>11
    <1>7. J[0] = S(P) /\ J[n] = Cleared(S({b}), D, d)
        <2>1. E(n) = D
            BY <1>3 DEF Passed
        <2>2. Cleared(S(P), {}, d) = S(P)
            BY ClearedFacts
        <2> HIDE DEF E, S
        <2> QED
            BY <1>2, <1>3, <2>1, <2>2
    <1>8. Leads(c, N, end, Cleared(S({b}), D, d), Cleared(S({b}), D, d))
        <2>1. end = <<F("rate_h")>> \/ end = <<>>
            OBVIOUS
        <2> HIDE DEF end, S
        <2>2. Leads(c, N, end, S({b}), S({b}))
            <3> HIDE DEF N
            <3> QED
                BY <1>4, <1>5, <2>1
        <2> QED
            BY <1>12, <2>2, LeadsKeeps
    <1> HIDE DEF legs, end, S, J, N, n
    <1>9. Leads(c, N, AsOne(legs), J[0], J[n])
        BY <1>2, <1>6, LeadsStrung
    <1>11. Leads(c, N, AsOne(legs) \o end, S(P), Cleared(S({b}), D, d))
        BY <1>7, <1>8, <1>9, LeadsConcat
    <1> QED
        BY <1>1, <1>11 DEF N, S

-----------------------------------------------------------------------------
(* Ramps and spirals *)

\* How far a chain has come.
LEMMA Covered ==
    ASSUME NEW c \in Cuts, NEW chain, NEW a \in Nat, NEW b \in Nat, Traced(c, chain, a, b)
    PROVE  LET gone == Summed([j \in 1 .. Len(chain) |-> Abs(chain[j].to - chain[j].from)]) IN
           /\ gone[0] = 0
           /\ \A i \in 0 .. Len(chain) : gone[i] \in Nat
           /\ \A i \in 1 .. Len(chain) :
                /\ gone[i] = gone[i - 1] + Abs(chain[i].to - chain[i].from)
                /\ chain[i].to = IF a < b THEN a + gone[i] ELSE a - gone[i]
           /\ gone[Len(chain)] = Abs(b - a)
    <1> DEFINE n == Len(chain)
               lens == [j \in 1 .. n |-> Abs(chain[j].to - chain[j].from)]
               gone == Summed(lens)
    <1>1. n \in Nat \ {0} /\ Len(lens) = n
        BY CutFacts DEF Traced
    <1>2. /\ \A i \in 1 .. n : chain[i].from \in Nat /\ chain[i].to \in Nat
          /\ \A i \in 1 .. n : i > 1 => chain[i].from = chain[i - 1].to
          /\ \/ a < b /\ \A i \in 1 .. n : chain[i].from < chain[i].to
             \/ b < a /\ \A i \in 1 .. n : chain[i].to < chain[i].from
          /\ chain[1].from = a /\ chain[n].to = b
        BY DEF Traced
    <1>3. \A i \in 1 .. n : lens[i] = Abs(chain[i].to - chain[i].from)
        OBVIOUS
    <1>4. gone[0] = 0 /\ \A i \in 1 .. n : gone[i] = gone[i - 1] + lens[i]
        BY <1>1, SummedIs
    <1> HIDE DEF gone, lens, n
    <1> DEFINE Right(k) ==
                /\ gone[k] \in Nat
                /\ k > 0 => chain[k].to = IF a < b THEN a + gone[k] ELSE a - gone[k]
               D == {k \in Nat : k <= n => Right(k)}
    <1>5. 0 \in D
        BY <1>4
    <1>6. ASSUME NEW k \in D PROVE k + 1 \in D
        <2> SUFFICES ASSUME k + 1 <= n PROVE Right(k + 1)
            OBVIOUS
        <2>1. k \in Nat /\ k + 1 \in 1 .. n /\ (k + 1) - 1 = k /\ Right(k)
            BY <1>1
        <2>2. chain[k + 1].from = IF a < b THEN a + gone[k] ELSE a - gone[k]
            <3>1. CASE k = 0
                BY <1>2, <1>4, <3>1
            <3>2. CASE k # 0
                BY <1>2, <2>1, <3>2
            <3> QED
                BY <3>1, <3>2
        <2>3. gone[k + 1] = gone[k] + Abs(chain[k + 1].to - chain[k + 1].from)
            BY <1>3, <1>4, <2>1
        <2>4. chain[k + 1].from \in Nat /\ chain[k + 1].to \in Nat
            BY <1>2, <2>1
        <2>5. CASE a < b
            <3>1. chain[k + 1].from < chain[k + 1].to
                BY <1>2, <2>1, <2>5
            <3>2. Abs(chain[k + 1].to - chain[k + 1].from) = chain[k + 1].to - chain[k + 1].from
                BY <2>4, <3>1 DEF Abs
            <3> QED
                BY <2>1, <2>2, <2>3, <2>4, <2>5, <3>1, <3>2
        <2>6. CASE ~(a < b)
            <3>1. chain[k + 1].to < chain[k + 1].from
                BY <1>2, <2>1, <2>6
            <3>2. Abs(chain[k + 1].to - chain[k + 1].from) = chain[k + 1].from - chain[k + 1].to
                BY <2>4, <3>1 DEF Abs
            <3> QED
                BY <2>1, <2>2, <2>3, <2>4, <2>6, <3>1, <3>2
        <2> QED
            BY <2>5, <2>6
    <1>7. D = Nat
        BY <1>5, <1>6, Induction
    <1>8. \A k \in 0 .. n : Right(k)
        <2> HIDE DEF Right
        <2> QED
            BY <1>1, <1>7
    <1>9. gone[n] = Abs(b - a)
        <2>1. n \in 0 .. n /\ n > 0
            BY <1>1
        <2>2. gone[n] \in Nat /\ b = IF a < b THEN a + gone[n] ELSE a - gone[n]
            BY <1>2, <1>8, <2>1
        <2> QED
            BY <1>2, <2>2 DEF Abs
    <1>10. /\ gone[0] = 0
           /\ \A i \in 0 .. n : gone[i] \in Nat
           /\ \A i \in 1 .. n :
                /\ gone[i] = gone[i - 1] + Abs(chain[i].to - chain[i].from)
                /\ chain[i].to = IF a < b THEN a + gone[i] ELSE a - gone[i]
           /\ gone[n] = Abs(b - a)
        <2>1. \A i \in 1 .. n : i \in 0 .. n /\ i > 0
            BY <1>1
        <2> QED
            BY <1>3, <1>4, <1>8, <1>9, <2>1
    <1> QED
        BY <1>10 DEF gone, lens, n

\* The height at s of a ramp that ends after run units.
RampHeight(fromZ, toZ, run, s) == Ramped(fromZ, toZ, Min({s, run}), run)

LEMMA RampHeightIs ==
    ASSUME NEW c \in Cuts, NEW fromZ \in Heights(c), NEW toZ \in Heights(c),
           NEW run \in Nat \ {0}, NEW s \in Nat
    PROVE  /\ RampHeight(fromZ, toZ, run, s) \in Heights(c)
           /\ fromZ <= toZ => fromZ <= RampHeight(fromZ, toZ, run, s)
           /\ s = 0 => RampHeight(fromZ, toZ, run, s) = fromZ
           /\ s >= run => RampHeight(fromZ, toZ, run, s) = toZ
    <1> DEFINE m == Min({s, run})
    <1>1. m = IF s <= run THEN s ELSE run
        BY OfTwo
    <1>2. m \in Nat /\ m <= run /\ (s = 0 => m = 0) /\ (s >= run => m = run)
        BY <1>1
    <1>3. RampHeight(fromZ, toZ, run, s) = Ramped(fromZ, toZ, m, run)
        BY DEF RampHeight
    <1> HIDE DEF m
    <1>4. /\ Ramped(fromZ, toZ, m, run) \in Heights(c)
          /\ fromZ <= toZ => fromZ <= Ramped(fromZ, toZ, m, run)
          /\ m = 0 => Ramped(fromZ, toZ, m, run) = fromZ
          /\ m = run => Ramped(fromZ, toZ, m, run) = toZ
        BY <1>2, RampedIs
    <1> QED
        BY <1>2, <1>3, <1>4

\* All of it at once.
Slopes(c, fromZ, toZ, run) ==
    \A s \in Nat :
        /\ RampHeight(fromZ, toZ, run, s) \in Heights(c)
        /\ fromZ <= toZ => fromZ <= RampHeight(fromZ, toZ, run, s)
        /\ s = 0 => RampHeight(fromZ, toZ, run, s) = fromZ
        /\ s >= run => RampHeight(fromZ, toZ, run, s) = toZ

LEMMA RampSlopes ==
    ASSUME NEW c \in Cuts, NEW fromZ \in Heights(c), NEW toZ \in Heights(c),
           NEW run \in Nat \ {0}
    PROVE  Slopes(c, fromZ, toZ, run)
    BY RampHeightIs DEF Slopes

\* The place d further along a leg.
Towards(leg, d) == IF leg.to > leg.from THEN leg.from + d ELSE leg.from - d

\* What one leg of a ramp does: it may reach the end of the slope on its way.
LEMMA RampLeg ==
    ASSUME NEW c \in Cuts, NEW chain, NEW a, NEW b, NEW P,
           Traced(c, chain, a, b), Enters(c, P, chain), P \subseteq {0, Length(c)},
           NEW i \in 1 .. Len(chain), NEW fromZ \in Heights(c), NEW toZ \in Heights(c),
           NEW here \in Nat, NEW run \in Nat \ {0},
           chain[1].to \in P => fromZ <= toZ,
           i = 1 => here = 0, NEW bs
    PROVE  LET there == here + Abs(chain[i].to - chain[i].from)
               S == Stance(c, Reached(P, chain, i), {RampHeight(fromZ, toZ, run, here)},
                           Cutting, bs)
               T == Stance(c, {chain[i].to}, {RampHeight(fromZ, toZ, run, there)}, Cutting, bs)
           IN /\ here < run /\ there > run =>
                    Leads(c, Fair(c),
                          <<G1(Towards(chain[i], run - here), toZ), G1(chain[i].to, toZ)>>, S, T)
              /\ Leads(c, Fair(c),
                       <<G1(chain[i].to, RampHeight(fromZ, toZ, run, there))>>, S, T)
    <1> DEFINE from == chain[i].from
               to == chain[i].to
               len == Abs(to - from)
               h(s) == RampHeight(fromZ, toZ, run, s)
               inside == IF to > from THEN from + (run - here) ELSE from - (run - here)
               R == Reached(P, chain, i)
               N == Fair(c)
    <1>1. from \in Nat /\ to \in Nat /\ from # to
        BY DEF Traced
    <1>2. len \in Nat \ {0}
        BY <1>1 DEF Abs
    <1>3. ASSUME NEW s \in Nat
          PROVE  /\ h(s) \in Heights(c)
                 /\ fromZ <= toZ => fromZ <= h(s)
                 /\ s = 0 => h(s) = fromZ
                 /\ s >= run => h(s) = toZ
        <2>1. Slopes(c, fromZ, toZ, run)
            BY RampSlopes
        <2> QED
            BY <2>1 DEF Slopes
    <1>4. ASSUME NEW q \in Int, (from <= q /\ q <= to) \/ (to <= q /\ q <= from)
          PROVE  q \in Spots(c) /\ \A p \in R : p # q => Reaches(c, p, q)
        BY <1>4, TracedJoins
    <1>5. here + len \in Nat /\ h(here + len) \in Heights(c) /\ h(here) \in Heights(c)
        BY <1>2, <1>3
    <1>6. to \in R => h(here) <= h(here + len)
        <2>1. CASE i = 1
            <3>1. to \in R => fromZ <= toZ
                BY <2>1 DEF Reached
            <3>2. h(here) = fromZ
                BY <1>3, <2>1
            <3> HIDE DEF h, len, to, R
            <3> QED
                BY <1>3, <1>5, <3>1, <3>2
        <2>2. CASE i # 1
            BY <1>1, <2>2 DEF Reached
        <2> QED
            BY <2>1, <2>2
    <1>7. to \in Spots(c) /\ \A p \in R : p # to => Reaches(c, p, to)
        BY <1>1, <1>4
    <1>8. Leads(c, N, <<G1(to, h(here + len))>>,
                Stance(c, R, {h(here)}, Cutting, bs), Stance(c, {to}, {h(here + len)}, Cutting, bs))
        <2> HIDE DEF h, len, to, R
        <2> QED
            BY <1>5, <1>6, <1>7, SlopeStep
    <1>9. ASSUME here < run, here + len > run
          PROVE  Leads(c, N, <<G1(inside, toZ), G1(to, toZ)>>,
                       Stance(c, R, {h(here)}, Cutting, bs),
                       Stance(c, {to}, {h(here + len)}, Cutting, bs))
        <2>1. /\ inside \in Int /\ inside # from /\ inside # to
              /\ (from <= inside /\ inside <= to) \/ (to <= inside /\ inside <= from)
            BY <1>1, <1>9 DEF Abs
        <2>2. inside \notin R
            <3>1. CASE i = 1
                <4>1. to \in 0 .. Length(c) /\ from \in 0 .. Length(c) /\ Length(c) \in Nat
                    <5>1. from \in Spots(c) /\ to \in Spots(c)
                        BY <1>1, <1>4
                    <5> QED
                        BY <1>1, <5>1, ContourFacts DEF Spots
                <4>2. inside # 0 /\ inside # Length(c)
                    <5> HIDE DEF inside, to, from
                    <5> QED
                        BY <2>1, <4>1
                <4> QED
                    BY <3>1, <4>2 DEF Reached
            <3>2. CASE i # 1
                BY <2>1, <3>2 DEF Reached
            <3> QED
                BY <3>1, <3>2
        <2>3. inside \in Spots(c) /\ \A p \in R : p # inside => Reaches(c, p, inside)
            BY <1>4, <2>1
        <2>4. h(here + len) = toZ
            BY <1>3, <1>5, <1>9
        <2>5. Reaches(c, inside, to)
            <3>1. PICK j \in 1 .. Len(c.segs) :
                    /\ from \in Vertex(c, j - 1) .. Vertex(c, j)
                    /\ to \in Vertex(c, j - 1) .. Vertex(c, j)
                BY DEF Traced
            <3>2. Vertex(c, j - 1) \in Int /\ Vertex(c, j) \in Int
                <4>1. j - 1 \in 0 .. Len(c.segs) /\ j \in 0 .. Len(c.segs)
                    BY CutFacts
                <4> QED
                    BY <4>1, VertexType
            <3>3. inside \in Vertex(c, j - 1) .. Vertex(c, j)
                <4> HIDE DEF inside, to, from
                <4> QED
                    BY <1>1, <2>1, <3>1, <3>2
            <3>4. Joins(c, inside, j)
                BY <3>3, JoinsInside
            <3> QED
                BY <2>1, <3>1, <3>4 DEF Joins
        <2>6. inside # to
            BY <2>1
        <2> HIDE DEF inside, to, R, h, len
        <2>7. Leads(c, N, <<G1(inside, toZ)>>,
                    Stance(c, R, {h(here)}, Cutting, bs), Stance(c, {inside}, {toZ}, Cutting, bs))
            BY <2>2, <2>3, SlopeStep
        <2>8. Leads(c, N, <<G1(to, toZ)>>,
                    Stance(c, {inside}, {toZ}, Cutting, bs), Stance(c, {to}, {toZ}, Cutting, bs))
            <3>1. \A p \in {inside} : p # to => Reaches(c, p, to)
                BY <2>5
            <3>2. to \in {inside} => \A g \in {toZ} : g <= toZ
                BY <2>6
            <3> QED
                BY <1>7, <3>1, <3>2, SlopeStep
        <2>9. Leads(c, N, <<G1(inside, toZ), G1(to, toZ)>>,
                    Stance(c, R, {h(here)}, Cutting, bs), Stance(c, {to}, {toZ}, Cutting, bs))
            BY <2>7, <2>8, LeadsTwo
        <2> QED
            BY <2>4, <2>9
    <1> QED
        BY <1>8, <1>9 DEF Towards

LEMMA RampWalkLeads ==
    ASSUME NEW c \in Cuts, NEW chain, NEW a \in {0, Length(c)}, NEW b \in {0, Length(c)}, NEW P,
           Traced(c, chain, a, b), Enters(c, P, chain), P \subseteq {0, Length(c)},
           NEW fromZ \in Heights(c), NEW toZ \in Heights(c),
           NEW run \in Nat \ {0}, run <= Length(c),
           chain[1].to \in P => fromZ <= toZ, NEW bs
    PROVE  Leads(c, Fair(c), RampWalk(chain, fromZ, toZ, run),
                 Stance(c, P, {fromZ}, Cutting, bs), Stance(c, {b}, {toZ}, Cutting, bs))
    <1> DEFINE n == Len(chain)
               N == Fair(c)
               len(i) == Abs(chain[i].to - chain[i].from)
               lens == [j \in 1 .. n |-> len(j)]
               gone == Summed(lens)
               h(s) == RampHeight(fromZ, toZ, run, s)
               splits(i) == gone[i - 1] < run /\ gone[i - 1] + len(i) > run /\ ~chain[i].arc
               broken(i) == <<G1(Towards(chain[i], run - gone[i - 1]), toZ), G1(chain[i].to, toZ)>>
               whole(i) == <<G1(chain[i].to, h(gone[i - 1] + len(i)))>>
               legs == [i \in 1 .. n |-> IF splits(i) THEN broken(i) ELSE whole(i)]
               S(Q, x) == Stance(c, Q, {x}, Cutting, bs)
               J == [i \in 0 .. n |-> IF i = 0 THEN S(P, fromZ) ELSE S({chain[i].to}, h(gone[i]))]
    <1>1. RampWalk(chain, fromZ, toZ, run) = AsOne(legs)
        BY DEF RampWalk, Ramped, RampHeight, Towards
    <1>2. n \in Nat \ {0} /\ Len(legs) = n /\ chain[n].to = b
        BY CutFacts DEF Traced
    <1>3. Length(c) \in Nat \ {0} /\ a \in Nat /\ b \in Nat
        BY ContourFacts
    <1>4. /\ gone[0] = 0
          /\ \A i \in 0 .. n : gone[i] \in Nat
          /\ \A i \in 1 .. n : gone[i] = gone[i - 1] + len(i)
          /\ gone[n] = Abs(b - a)
        BY <1>3, Covered
    <1>5. gone[n] >= run /\ gone[n] \in Nat
        <2>1. a # b
            BY <1>3 DEF Traced
        <2>2. Abs(b - a) = Length(c)
            BY <1>3, <2>1 DEF Abs
        <2>3. gone[n] = Length(c)
            BY <1>4, <2>2
        <2> HIDE DEF gone
        <2> QED
            BY <1>3, <2>3
    <1>6. h(gone[n]) = toZ /\ h(0) = fromZ
        <2>1. ASSUME NEW s \in Nat
              PROVE  /\ s = 0 => h(s) = fromZ
                     /\ s >= run => h(s) = toZ
            BY RampHeightIs
        <2>2. gone[n] \in Nat /\ gone[n] >= run /\ 0 \in Nat
            BY <1>5
        <2> HIDE DEF h, gone, n
        <2> QED
            BY <2>1, <2>2
    <1>7. ASSUME NEW i \in 1 .. n PROVE Leads(c, N, legs[i], J[i - 1], J[i])
        <2> DEFINE here == gone[i - 1]
        <2>1. here \in Nat /\ (i = 1 => here = 0) /\ gone[i] = here + len(i)
            BY <1>2, <1>4
        <2>2. J[i - 1] = S(Reached(P, chain, i), h(here)) /\ J[i] = S({chain[i].to}, h(here + len(i)))
            <3>1. CASE i = 1
                <4>1. i - 1 = 0 /\ h(here) = fromZ /\ i \in 0 .. n /\ i # 0
                    <5>1. here = 0
                        BY <2>1, <3>1
                    <5>2. h(here) = fromZ
                        BY <1>6, <5>1
                    <5> QED
                        BY <1>2, <3>1, <5>2
                <4> HIDE DEF h, len, gone, S, here
                <4> QED
                    BY <2>1, <3>1, <4>1 DEF Reached
            <3>2. CASE i # 1
                <4>1. /\ chain[i].from = chain[i - 1].to /\ i - 1 \in 0 .. n /\ i - 1 # 0
                      /\ i \in 0 .. n /\ i # 0
                    <5>1. \A k \in 1 .. n : k > 1 => chain[k].from = chain[k - 1].to
                        BY DEF Traced
                    <5>2. i > 1 /\ i - 1 \in 0 .. n /\ i - 1 # 0 /\ i \in 0 .. n /\ i # 0
                        BY <1>2, <3>2
                    <5> QED
                        BY <5>1, <5>2
                <4> HIDE DEF h, len, gone, S
                <4> QED
                    BY <2>1, <3>2, <4>1 DEF Reached
            <3> QED
                BY <3>1, <3>2
        <2>3. /\ here < run /\ here + len(i) > run =>
                    Leads(c, N, broken(i), S(Reached(P, chain, i), h(here)),
                          S({chain[i].to}, h(here + len(i))))
              /\ Leads(c, N, whole(i), S(Reached(P, chain, i), h(here)),
                       S({chain[i].to}, h(here + len(i))))
            <3>1. i \in 1 .. Len(chain) /\ here \in Nat /\ (i = 1 => here = 0)
                BY <2>1
            <3> HIDE DEF gone, here
            <3>2. LET there == here + Abs(chain[i].to - chain[i].from)
                      X == Stance(c, Reached(P, chain, i), {RampHeight(fromZ, toZ, run, here)},
                                  Cutting, bs)
                      T == Stance(c, {chain[i].to}, {RampHeight(fromZ, toZ, run, there)}, Cutting, bs)
                  IN /\ here < run /\ there > run =>
                        Leads(c, Fair(c),
                              <<G1(Towards(chain[i], run - here), toZ), G1(chain[i].to, toZ)>>, X, T)
                     /\ Leads(c, Fair(c),
                           <<G1(chain[i].to, RampHeight(fromZ, toZ, run, there))>>, X, T)
                BY <3>1, RampLeg
            <3> QED
                BY <3>2 DEF here
        <2>4. legs[i] = IF splits(i) THEN broken(i) ELSE whole(i)
            OBVIOUS
        <2>5. splits(i) => here < run /\ here + len(i) > run
            OBVIOUS
        <2> HIDE DEF legs, splits, broken, whole, S, h, J, here, N, len
        <2> QED
            BY <2>2, <2>3, <2>4, <2>5
    <1>8. J[0] = S(P, fromZ) /\ J[n] = S({b}, toZ)
        <2>1. 0 \in 0 .. n /\ n \in 0 .. n /\ n # 0
            BY <1>2
        <2>2. h(gone[n]) = toZ
            BY <1>6
        <2> HIDE DEF h, S, gone, n
        <2> QED
            BY <1>2, <2>1, <2>2
    <1> HIDE DEF legs, J, S, N, n
    <1>9. Leads(c, N, AsOne(legs), J[0], J[n])
        BY <1>2, <1>7, LeadsStrung
    <1> QED
        BY <1>1, <1>8, <1>9 DEF N, S

\* A spiral down the whole path.
LEMMA HelixWalkLeads ==
    ASSUME NEW c \in Cuts, ClosedPath(c), NEW fromZ \in Heights(c), NEW toZ \in Heights(c), NEW bs
    PROVE  Leads(c, Fair(c), HelixWalk(c, fromZ, toZ),
                 Stance(c, {Length(c)}, {fromZ}, Cutting, bs),
                 Stance(c, {Length(c)}, {toZ}, Cutting, bs))
    <1> DEFINE n == Len(c.segs)
               N == Fair(c)
               h(i) == Ramped(fromZ, toZ, Vertex(c, i), Length(c))
               q == [i \in 1 .. n |-> G1(Vertex(c, i), h(i))]
               S(p, x) == Stance(c, {p}, {x}, Cutting, bs)
               J == [i \in 0 .. n |-> IF i = 0 THEN S(Length(c), fromZ) ELSE S(Vertex(c, i), h(i))]
    <1>1. HelixWalk(c, fromZ, toZ) = q
        BY DEF HelixWalk, Ramped
    <1>2. n \in Nat /\ n >= 3 /\ Len(q) = n
        BY CutFacts DEF ClosedPath
    <1>3. Length(c) \in Nat \ {0} /\ Vertex(c, 0) = 0 /\ Vertex(c, n) = Length(c)
        BY ContourFacts, VertexNext DEF Length
    <1>4. ASSUME NEW i \in 0 .. n
          PROVE  /\ Vertex(c, i) \in Nat /\ Vertex(c, i) \in Spots(c) /\ Vertex(c, i) <= Length(c)
                 /\ h(i) \in Heights(c)
                 /\ Vertex(c, i) = 0 => h(i) = fromZ
                 /\ Vertex(c, i) = Length(c) => h(i) = toZ
        <2>1. Vertex(c, i) \in Nat /\ Vertex(c, i) <= Length(c)
            BY <1>3, ContourFacts
        <2>2. Vertex(c, i) \in Spots(c)
            BY <1>3, <2>1 DEF Spots, FarSide
        <2> QED
            BY <1>3, <2>1, <2>2, RampedIs
    <1>5. ASSUME NEW i \in 1 .. n PROVE Leads(c, N, <<q[i]>>, J[i - 1], J[i])
        <2> DEFINE p == IF i = 1 THEN Length(c) ELSE Vertex(c, i - 1)
                   x == h(i - 1)
        <2>1. i - 1 \in 0 .. n /\ i \in 0 .. n /\ i # 0 /\ (i = 1 => i - 1 = 0) /\ (i # 1 => i - 1 # 0)
            BY <1>2
        <2>2. x = IF i = 1 THEN fromZ ELSE h(i - 1)
            <3> HIDE DEF h
            <3> QED
                BY <1>3, <1>4, <2>1
        <2>3. J[i - 1] = S(p, x) /\ J[i] = S(Vertex(c, i), h(i)) /\ q[i] = G1(Vertex(c, i), h(i))
            <3> HIDE DEF h, S
            <3> QED
                BY <1>2, <2>1, <2>2
        <2>4. Vertex(c, i - 1) < Vertex(c, i) /\ Vertex(c, i) \in Nat /\ Vertex(c, i - 1) \in Nat
            BY <2>1, VertexGrows, VertexType
        <2>5. p # Vertex(c, i)
            <3>1. CASE i = 1
                <4>1. 1 \in 0 .. n /\ n \in 0 .. n /\ 1 < n
                    BY <1>2
                <4>2. Vertex(c, 1) < Vertex(c, n)
                    BY <4>1, VertexGrows
                <4>3. Vertex(c, 1) \in Nat
                    BY <4>1, VertexType
                <4> QED
                    BY <1>3, <3>1, <4>2, <4>3
            <3>2. CASE i # 1
                BY <2>4, <3>2
            <3> QED
                BY <3>1, <3>2
        <2>6. Reaches(c, p, Vertex(c, i))
            <3>1. Vertex(c, i) \in Vertex(c, i - 1) .. Vertex(c, i)
                BY <2>4
            <3>2. CASE i = 1
                <4>1. Joins(c, Length(c), 1)
                    BY JoinsFromEnd DEF ClosedPath
                <4> QED
                    BY <2>5, <3>1, <3>2, <4>1 DEF Joins
            <3>3. CASE i # 1
                <4>1. Vertex(c, i - 1) \in Vertex(c, i - 1) .. Vertex(c, i)
                    BY <2>4
                <4>2. Joins(c, Vertex(c, i - 1), i)
                    BY <4>1, JoinsInside
                <4> QED
                    BY <2>5, <3>1, <3>3, <4>2 DEF Joins
            <3> QED
                BY <3>2, <3>3
        <2>7. Vertex(c, i) \in Spots(c) /\ h(i) \in Heights(c)
            BY <1>4, <2>1
        <2> HIDE DEF p, x, h, q, J
        <2>8. Leads(c, Fair(c), <<G1(Vertex(c, i), h(i))>>, Stance(c, {p}, {x}, Cutting, bs),
                    Stance(c, {Vertex(c, i)}, {h(i)}, Cutting, bs))
            BY <2>5, <2>6, <2>7, SlopeStep
        <2> QED
            BY <2>3, <2>8
    <1>6. q \in Seq(Commands)
        <2>1. ASSUME NEW i \in 1 .. n PROVE q[i] \in Commands
            <3>1. <<q[i]>> \in Seq(Commands)
                BY <1>5 DEF Leads
            <3> HIDE DEF q
            <3>2. <<q[i]>>[1] \in Commands
                BY <3>1
            <3> QED
                BY <3>2
        <2>2. q = [i \in 1 .. n |-> q[i]]
            OBVIOUS
        <2> HIDE DEF q, n
        <2>3. q \in [1 .. n -> Commands]
            BY <2>1, <2>2
        <2> QED
            BY <1>2, <2>3
    <1>7. J[0] = S(Length(c), fromZ) /\ J[n] = S(Length(c), toZ)
        <2>1. n \in 0 .. n /\ n # 0 /\ h(n) = toZ
            <3>1. n \in 0 .. n /\ n # 0
                BY <1>2
            <3> HIDE DEF h
            <3> QED
                BY <1>3, <1>4, <3>1
        <2> HIDE DEF h, S
        <2> QED
            BY <1>2, <1>3, <2>1
    <1> HIDE DEF q, J, n
    <1>8. Leads(c, N, q, J[0], J[Len(q)])
        BY <1>2, <1>5, <1>6, LeadsEach
    <1> QED
        BY <1>1, <1>2, <1>7, <1>8

\* The circle of a helix entry.
LEMMA HelixEntryLeads ==
    ASSUME NEW c \in Cuts, NEW fromZ \in Heights(c), NEW toZ \in Heights(c), NEW P, NEW bs,
           Away \notin P
    PROVE  Leads(c, Fair(c), HelixEntry(c, fromZ, toZ),
                 Stance(c, P, {fromZ}, Cutting, bs), Stance(c, Off(c), Heights(c), Cutting, bs))
    <1> DEFINE T == Stance(c, Off(c), Heights(c), Cutting, bs)
               mid == (fromZ + toZ) \div 2
    <1>1. fromZ \in Int /\ toZ \in Int
        BY WordFacts
    <1>2. mid \in Heights(c)
        <2>1. mid \in Int /\ 2 * mid <= fromZ + toZ /\ fromZ + toZ < 2 * mid + 2
            <3>1. fromZ + toZ \in Int /\ 2 \in Nat \ {0}
                BY <1>1
            <3> QED
                BY <3>1, Divided
        <2> HIDE DEF mid
        <2>2. (fromZ <= mid /\ mid <= toZ) \/ (toZ <= mid /\ mid <= fromZ)
            BY <1>1, <2>1
        <2> QED
            BY <2>1, <2>2, HeightsBetween
    <1>3. Spiral \in Spots(c) /\ FarSide \in Spots(c) /\ Spiral # FarSide
        BY ContourFacts DEF Spots, Spiral, FarSide
    <1>4. \A p : Reaches(c, p, Spiral) /\ Reaches(c, p, FarSide)
        BY DEF Reaches, Follows
    <1>5. Leads(c, Fair(c), <<G1(Spiral, fromZ)>>, Stance(c, P, {fromZ}, Cutting, bs),
                Stance(c, {Spiral}, {fromZ}, Cutting, bs))
        <2>1. Spiral \in P => \A g \in {fromZ} : g <= fromZ
            BY <1>1
        <2> QED
            BY <1>3, <1>4, <2>1, SlopeStep
    <1> HIDE DEF mid
    <1>6. Leads(c, Fair(c), <<G1(FarSide, mid)>>, Stance(c, {Spiral}, {fromZ}, Cutting, bs),
                Stance(c, {FarSide}, {mid}, Cutting, bs))
        BY <1>2, <1>3, <1>4, SlopeStep
    <1>7. Leads(c, Fair(c), <<G1(Spiral, toZ)>>, Stance(c, {FarSide}, {mid}, Cutting, bs),
                Stance(c, {Spiral}, {toZ}, Cutting, bs))
        BY <1>2, <1>3, <1>4, SlopeStep
    <1>8. Leads(c, Fair(c), <<G1(Spiral, fromZ), G1(FarSide, mid), G1(Spiral, toZ)>>,
                Stance(c, P, {fromZ}, Cutting, bs), Stance(c, {Spiral}, {toZ}, Cutting, bs))
        BY <1>5, <1>6, <1>7, LeadsThree
    <1>9. Stance(c, {Spiral}, {toZ}, Cutting, bs) \subseteq T
        <2>1. {Spiral} \subseteq Off(c) /\ {toZ} \subseteq Heights(c)
            BY <1>3 DEF Off, Spiral, Away
        <2> QED
            BY <2>1 DEF Stance
    <1>10. Leads(c, Fair(c), <<G1(Spiral, fromZ), G1(FarSide, mid), G1(Spiral, toZ)>>,
                 Stance(c, P, {fromZ}, Cutting, bs), T)
        BY <1>8, <1>9, LeadsWeaken
    <1>11. Leads(c, Fair(c), <<>>, Stance(c, P, {fromZ}, Cutting, bs), T)
        <2>1. Stance(c, P, {fromZ}, Cutting, bs) \subseteq T
            BY DEF Stance, State, Off
        <2> QED
            BY <2>1, LeadsNone
    <1> QED
        BY <1>10, <1>11 DEF HelixEntry, mid

-----------------------------------------------------------------------------
(* Tabs *)

\* Every finite set of stretches can be put in order.
LEMMA CanBeOrdered ==
    ASSUME NEW n \in Nat
    PROVE  \A S : IsFiniteSet(S) /\ Cardinality(S) = n /\ (\A x \in S : x.from \in Int) =>
              \E q \in [1 .. n -> S] :
                  \A i, j \in 1 .. n : i < j => q[i] # q[j] /\ q[i].from <= q[j].from
    <1> DEFINE Good(k) == \A S : IsFiniteSet(S) /\ Cardinality(S) = k /\ (\A x \in S : x.from \in Int) =>
                              \E q \in [1 .. k -> S] :
                                  \A i, j \in 1 .. k : i < j => q[i] # q[j] /\ q[i].from <= q[j].from
               D == {k \in Nat : Good(k)}
    <1>1. 0 \in D
        <2> SUFFICES ASSUME NEW S
                     PROVE  \E q \in [1 .. 0 -> S] :
                              \A i, j \in 1 .. 0 : i < j => q[i] # q[j] /\ q[i].from <= q[j].from
            OBVIOUS
        <2> DEFINE q == [i \in 1 .. 0 |-> i]
        <2>1. q \in [1 .. 0 -> S]
            OBVIOUS
        <2>2. \A i, j \in 1 .. 0 : i < j => q[i] # q[j] /\ q[i].from <= q[j].from
            OBVIOUS
        <2> HIDE DEF q
        <2> QED
            BY <2>1, <2>2
    <1>2. ASSUME NEW k \in D PROVE k + 1 \in D
        <2> SUFFICES ASSUME NEW S, IsFiniteSet(S), Cardinality(S) = k + 1, \A x \in S : x.from \in Int
                     PROVE  \E q \in [1 .. (k + 1) -> S] :
                              \A i, j \in 1 .. (k + 1) : i < j => q[i] # q[j] /\ q[i].from <= q[j].from
            OBVIOUS
        <2>0. k \in Nat /\ Good(k)
            OBVIOUS
        <2>1. S # {}
            BY <2>0, FS_EmptySet
        <2> DEFINE f == [x \in S |-> x.from]
                   I == {f[x] : x \in S}
        <2>2. IsFiniteSet(I)
            <3>1. f = [x \in S |-> f[x]]
                OBVIOUS
            <3> HIDE DEF f
            <3> QED
                BY <3>1, ImageIsFinite
        <2>3. I \in SUBSET Int /\ I # {} /\ \A x \in S : f[x] = x.from
            BY <2>1
        <2>4. Max(I) \in I /\ \A y \in I : y <= Max(I)
            <3> HIDE DEF I
            <3> QED
                BY <2>2, <2>3, Extremes
        <2>5. PICK m \in S : \A x \in S : x.from <= m.from
            <3>1. PICK m \in S : f[m] = Max(I)
                BY <2>4
            <3>2. \A x \in S : f[x] <= Max(I)
                BY <2>4
            <3> HIDE DEF f, I
            <3> QED
                BY <2>3, <3>1, <3>2
        <2> DEFINE R == S \ {m}
        <2>6. IsFiniteSet(R) /\ Cardinality(R) = k
            <3>1. IsFiniteSet(S \ {m}) /\ Cardinality(S \ {m}) = Cardinality(S) - 1
                BY FS_RemoveElement, Zenon
            <3>2. (k + 1) - 1 = k
                BY <2>0
            <3>3. Cardinality(S \ {m}) = (k + 1) - 1
                BY <3>1, Zenon
            <3> QED
                BY <3>1, <3>2, <3>3
        <2>7. PICK r \in [1 .. k -> R] :
                \A i, j \in 1 .. k : i < j => r[i] # r[j] /\ r[i].from <= r[j].from
            <3>1. \A x \in R : x.from \in Int
                OBVIOUS
            <3> HIDE DEF R
            <3> QED
                BY <2>0, <2>6, <3>1
        <2> DEFINE q == [i \in 1 .. (k + 1) |-> IF i = k + 1 THEN m ELSE r[i]]
        <2>8. ASSUME NEW i \in 1 .. (k + 1)
              PROVE  /\ q[i] \in S
                     /\ i # k + 1 => i \in 1 .. k /\ q[i] = r[i] /\ q[i] # m
                     /\ i = k + 1 => q[i] = m
            BY <2>0
        <2>9. q \in [1 .. (k + 1) -> S]
            BY <2>8
        <2> HIDE DEF q, R
        <2>10. ASSUME NEW i \in 1 .. (k + 1), NEW j \in 1 .. (k + 1), i < j
               PROVE  q[i] # q[j] /\ q[i].from <= q[j].from
            <3>1. i # k + 1
                BY <2>0, <2>10
            <3>2. CASE j = k + 1
                BY <2>5, <2>8, <3>1, <3>2
            <3>3. CASE j # k + 1
                <4>1. /\ i \in 1 .. k /\ j \in 1 .. k /\ q[i] = r[i] /\ q[j] = r[j]
                    BY <2>8, <3>1, <3>3
                <4> QED
                    BY <2>7, <2>10, <4>1
            <3> QED
                BY <3>2, <3>3
        <2> QED
            BY <2>9, <2>10
    <1>3. D = Nat
        BY <1>1, <1>2, Induction
    <1> HIDE DEF Good
    <1>4. Good(n)
        BY <1>3
    <1> QED
        BY <1>4 DEF Good

LEMMA InOrderIs ==
    ASSUME NEW S, IsFiniteSet(S), \A x \in S : x.from \in Int
    PROVE  InOrder(S) \in [1 .. Cardinality(S) -> S]
    <1>1. Cardinality(S) \in Nat
        BY FS_CardinalityType
    <1>2. \E q \in [1 .. Cardinality(S) -> S] :
            \A i, j \in 1 .. Cardinality(S) : i < j => q[i] # q[j] /\ q[i].from <= q[j].from
        BY <1>1, CanBeOrdered
    <1> QED
        BY <1>2 DEF InOrder

\* What joining q[n] to the stretches before it makes of them.
MergedWith(acc, t) ==
    LET last == acc[Len(acc)]
    IN IF acc # <<>> /\ t.from <= last.to
       THEN [acc EXCEPT ![Len(acc)] =
                [last EXCEPT !.to = Max({last.to, t.to}), !.top = Max({last.top, t.top})]]
       ELSE Append(acc, t)

LEMMA MergedIs ==
    ASSUME NEW q, Len(q) \in Nat
    PROVE  /\ Merged(q)[0] = <<>>
           /\ \A i \in 1 .. Len(q) : Merged(q)[i] = MergedWith(Merged(q)[i - 1], q[i])
    <1> DEFINE Upto(k, g) == g = [i \in 0 .. k |-> IF i = 0 THEN <<>> ELSE MergedWith(g[i - 1], q[i])]
               S == {k \in Nat : \E g : Upto(k, g)}
    <1>1. 0 \in S
        <2>1. Upto(0, [i \in 0 .. 0 |-> <<>>])
            OBVIOUS
        <2> QED
            BY <2>1
    <1>2. ASSUME NEW n \in S PROVE n + 1 \in S
        <2>1. PICK g : Upto(n, g)
            OBVIOUS
        <2> DEFINE h == [i \in 0 .. (n + 1) |->
                            IF i = n + 1 THEN MergedWith(g[n], q[n + 1]) ELSE g[i]]
        <2>2. ASSUME NEW i \in 0 .. (n + 1)
              PROVE  h[i] = IF i = 0 THEN <<>> ELSE MergedWith(h[i - 1], q[i])
            <3>1. CASE i = n + 1
                BY <3>1
            <3>2. CASE i # n + 1
                <4>1. i \in 0 .. n /\ h[i] = g[i] /\ (i # 0 => i - 1 \in 0 .. n /\ h[i - 1] = g[i - 1])
                    BY <3>2
                <4> QED
                    BY <2>1, <4>1
            <3> QED
                BY <3>1, <3>2
        <2>3. Upto(n + 1, h)
            BY <2>2
        <2> HIDE DEF h
        <2>4. \E f : Upto(n + 1, f)
            BY <2>3
        <2> HIDE DEF Upto
        <2> QED
            BY <2>4
    <1>3. S = Nat
        BY <1>1, <1>2, Induction
    <1>4. \E g : Upto(Len(q), g)
        BY <1>3
    <1>5. Upto(Len(q), Merged(q))
        BY <1>4 DEF Merged, MergedWith
    <1> DEFINE whole == Merged(q)
    <1>6. whole = [i \in 0 .. Len(q) |-> IF i = 0 THEN <<>> ELSE MergedWith(whole[i - 1], q[i])]
        BY <1>5
    <1> HIDE DEF whole
    <1>7. whole[0] = <<>>
        BY <1>6
    <1>8. ASSUME NEW i \in 1 .. Len(q) PROVE whole[i] = MergedWith(whole[i - 1], q[i])
        <2>1. i \in 0 .. Len(q) /\ i # 0
            OBVIOUS
        <2> QED
            BY <1>6, <2>1
    <1> QED
        BY <1>7, <1>8 DEF whole

\* Tabs cover x .. y.
Tabbed(c, x, y) == \A u \in Int : x < u /\ u <= y => TabUnit(c, u)

\* The stretches of a .. b a tab may lift the tool over, from depth to top.
Lifts(c, a, b, depth) ==
    {s \in [from : Int, to : Int, top : Heights(c)] :
        /\ a <= s.from /\ s.from < s.to /\ s.to <= b /\ depth < s.top
        /\ Tabbed(c, s.from, s.to)}

LEMMA MergedWithIs ==
    ASSUME NEW c \in Cuts, NEW a \in Int, NEW b \in Int, NEW depth \in Heights(c),
           NEW acc \in Seq(Lifts(c, a, b, depth)), NEW t \in Lifts(c, a, b, depth)
    PROVE  MergedWith(acc, t) \in Seq(Lifts(c, a, b, depth))
    <1> DEFINE L == Lifts(c, a, b, depth)
               last == acc[Len(acc)]
               new == [last EXCEPT !.to = Max({last.to, t.to}), !.top = Max({last.top, t.top})]
    <1>1. CASE acc # <<>> /\ t.from <= last.to
        <2>1. Len(acc) \in 1 .. Len(acc)
            BY <1>1, EmptySeq
        <2>2. last \in L
            BY <2>1
        <2> HIDE DEF last
        <2>3. /\ last \in [from : Int, to : Int, top : Heights(c)] /\ a <= last.from
              /\ last.from < last.to /\ last.to <= b /\ depth < last.top
              /\ Tabbed(c, last.from, last.to) /\ Tabbed(c, t.from, t.to)
              /\ t.from \in Int /\ t.to \in Int /\ t.to <= b /\ t.top \in Heights(c)
            BY <2>2 DEF Lifts
        <2>4. last.to \in Int /\ last.top \in Heights(c) /\ last.from \in Int
              /\ last.top \in Int /\ t.top \in Int /\ depth \in Int
            BY <2>3, WordFacts
        <2> DEFINE to == Max({last.to, t.to})
                   top == Max({last.top, t.top})
        <2>5. to = (IF last.to <= t.to THEN t.to ELSE last.to)
              /\ top = (IF last.top <= t.top THEN t.top ELSE last.top)
            BY <2>3, <2>4, OfTwo
        <2> HIDE DEF to, top
        <2>6. to \in Int /\ last.from < to /\ to <= b /\ top \in Heights(c) /\ depth < top
            BY <2>3, <2>4, <2>5
        <2>11. Tabbed(c, last.from, to)
            <3>1. ASSUME NEW u \in Int, last.from < u, u <= to PROVE TabUnit(c, u)
                <4>1. u <= last.to \/ (t.from < u /\ u <= t.to)
                    BY <1>1, <2>3, <2>4, <2>5, <3>1
                <4> QED
                    BY <2>3, <3>1, <4>1 DEF Tabbed
            <3> QED
                BY <3>1 DEF Tabbed
        <2>7. new = [from |-> last.from, to |-> to, top |-> top]
            <3>1. PICK x \in Int, y \in Int, w \in Heights(c) :
                    last = [from |-> x, to |-> y, top |-> w]
                BY <2>3
            <3>2. new = [[last EXCEPT !.to = to] EXCEPT !.top = top]
                BY DEF to, top
            <3> HIDE DEF new
            <3>3. new = [[[from |-> x, to |-> y, top |-> w] EXCEPT !.to = to] EXCEPT !.top = top]
                BY <3>1, <3>2
            <3>4. new = [from |-> x, to |-> to, top |-> top]
                BY <3>3
            <3>5. last.from = x
                BY <3>1
            <3> QED
                BY <3>4, <3>5
        <2>8. new \in L
            <3> HIDE DEF new
            <3> QED
                BY <2>3, <2>4, <2>6, <2>7, <2>11 DEF Lifts
        <2> HIDE DEF new, L
        <2>9. [acc EXCEPT ![Len(acc)] = new] \in Seq(L)
            <3>1. acc \in Seq(L)
                BY DEF L
            <3> QED
                BY <2>1, <2>8, <3>1
        <2>10. MergedWith(acc, t) = [acc EXCEPT ![Len(acc)] = new]
            BY <1>1 DEF MergedWith, new, last
        <2> QED
            BY <2>9, <2>10 DEF L
    <1>2. CASE ~(acc # <<>> /\ t.from <= last.to)
        <2>1. MergedWith(acc, t) = Append(acc, t)
            BY <1>2 DEF MergedWith
        <2> QED
            BY <2>1
    <1> QED
        BY <1>1, <1>2

LEMMA MergedType ==
    ASSUME NEW c \in Cuts, NEW a \in Int, NEW b \in Int, NEW depth \in Heights(c),
           NEW q \in Seq(Lifts(c, a, b, depth))
    PROVE  Merged(q)[Len(q)] \in Seq(Lifts(c, a, b, depth))
    <1> DEFINE n == Len(q)
               L == Lifts(c, a, b, depth)
               D == {k \in Nat : k <= n => Merged(q)[k] \in Seq(L)}
    <1>1. n \in Nat
        OBVIOUS
    <1>2. 0 \in D
        <2>1. Merged(q)[0] = <<>>
            BY <1>1, MergedIs
        <2>2. <<>> \in Seq(L)
            OBVIOUS
        <2> QED
            BY <2>1, <2>2
    <1>3. ASSUME NEW k \in D PROVE k + 1 \in D
        <2> SUFFICES ASSUME k + 1 <= n PROVE Merged(q)[k + 1] \in Seq(L)
            OBVIOUS
        <2>1. k \in Nat /\ k + 1 \in 1 .. n /\ (k + 1) - 1 = k /\ Merged(q)[k] \in Seq(L)
            BY <1>1
        <2>2. Merged(q)[k + 1] = MergedWith(Merged(q)[k], q[k + 1])
            BY <1>1, <2>1, MergedIs
        <2>3. q[k + 1] \in L
            BY <2>1
        <2> QED
            BY <2>1, <2>2, <2>3, MergedWithIs
    <1>4. D = Nat
        BY <1>2, <1>3, Induction
    <1> QED
        BY <1>1, <1>4

\* From the places of P, and along a .. b, the tool may go to all of a .. b.
Open(c, a, b, P) ==
    /\ a \in Int /\ b \in Int /\ a < b
    /\ \A q \in Int : a <= q /\ q <= b =>
        /\ q \in Spots(c)
        /\ \A p \in P : p # q => Reaches(c, p, q)
        /\ \A p \in Int : a <= p /\ p <= b => Reaches(c, p, q)

LEMMA OpenGrows ==
    ASSUME NEW c, NEW a, NEW b, NEW P, NEW p \in Int, Open(c, a, b, P), a <= p, p <= b
    PROVE  Open(c, a, b, {p}) /\ Open(c, a, b, P \cup {p})
    BY DEF Open

\* The moves over one stretch.
Over(c, i, depth) ==
    LET ramp == c.tabRamp * (i.top - depth)
        middle == (i.from + i.to) \div 2
    IN IF ramp = 0
       THEN <<G1(Keep, i.top), G1(i.to, Keep), F("rate_v"), G1(Keep, depth), F("rate_h")>>
       ELSE IF i.to - i.from < 2 * ramp
       THEN <<G1(middle, i.top), G1(i.to, depth)>>
       ELSE <<G1(i.from + ramp, i.top), G1(i.to - ramp, Keep), G1(i.to, depth)>>

\* Up, along and down again.
LEMMA LiftedLeads ==
    ASSUME NEW c \in Cuts, NEW depth \in Heights(c), NEW top \in Heights(c), depth <= top,
           NEW q \in Spots(c), NEW P, NEW bs, \A p \in P : p # q => Reaches(c, p, q)
    PROVE  Leads(c, Fair(c),
                 <<G1(Keep, top), G1(q, Keep), F("rate_v"), G1(Keep, depth), F("rate_h")>>,
                 Stance(c, P, {depth}, Cutting, bs), Stance(c, {q}, {depth}, Cutting, bs))
    <1>1. Leads(c, Fair(c), <<G1(Keep, top)>>,
                Stance(c, P, {depth}, Cutting, bs), Stance(c, P, {top}, Cutting, bs))
        BY PlungeStep
    <1>2. Leads(c, Fair(c), <<G1(q, Keep)>>,
                Stance(c, P, {top}, Cutting, bs), Stance(c, {q}, {top}, Cutting, bs))
        BY AlongStep
    <1>3. Leads(c, Fair(c), <<F("rate_v")>>,
                Stance(c, {q}, {top}, Cutting, bs), Stance(c, {q}, {top}, {"rate_v"}, bs))
        <2>1. "rate_v" \in Feeds
            BY DEF Feeds
        <2>2. \A rate \in Feeds : Leads(c, Fair(c), <<F(rate)>>,
                Stance(c, {q}, {top}, Cutting, bs), Stance(c, {q}, {top}, {rate}, bs))
            BY FeedStep
        <2> QED
            BY <2>1, <2>2
    <1>4. Leads(c, Fair(c), <<G1(Keep, depth)>>,
                Stance(c, {q}, {top}, {"rate_v"}, bs), Stance(c, {q}, {depth}, {"rate_v"}, bs))
        <2>1. \A f : f \subseteq {"rate_v"} => Leads(c, Fair(c), <<G1(Keep, depth)>>,
                Stance(c, {q}, {top}, f, bs), Stance(c, {q}, {depth}, f, bs))
            BY PlungeStep
        <2> QED
            BY <2>1
    <1>5. Leads(c, Fair(c), <<F("rate_h")>>,
                Stance(c, {q}, {depth}, {"rate_v"}, bs), Stance(c, {q}, {depth}, Cutting, bs))
        <2>1. "rate_h" \in Cutting
            BY DEF Cutting
        <2>2. \A rate \in Cutting : \A f : Leads(c, Fair(c), <<F(rate)>>,
                Stance(c, {q}, {depth}, f, bs), Stance(c, {q}, {depth}, Cutting, bs))
            BY CuttingFeed
        <2> QED
            BY <2>1, <2>2
    <1> QED
        BY <1>1, <1>2, <1>3, <1>4, <1>5, LeadsFive

LEMMA OverLeads ==
    ASSUME NEW c \in Cuts, NEW a, NEW b, NEW P, Open(c, a, b, P), NEW depth \in Heights(c),
           NEW i \in Lifts(c, a, b, depth), NEW bs
    PROVE  Leads(c, Fair(c), Over(c, i, depth),
                 Stance(c, P, {depth}, Cutting, bs), Stance(c, {i.to}, {depth}, Cutting, bs))
    <1> DEFINE ramp == c.tabRamp * (i.top - depth)
               middle == (i.from + i.to) \div 2
               S == Stance(c, P, {depth}, Cutting, bs)
               T == Stance(c, {i.to}, {depth}, Cutting, bs)
    <1>1. /\ i.from \in Int /\ i.to \in Int /\ i.top \in Heights(c)
          /\ a <= i.from /\ i.from < i.to /\ i.to <= b /\ depth < i.top
        BY DEF Lifts
    <1>2. depth \in Int /\ i.top \in Int
        BY <1>1, WordFacts
    <1>3. ramp \in Nat
        <2>1. c.tabRamp \in Nat
            BY CutFacts DEF Setup
        <2>2. i.top - depth \in Nat
            BY <1>1, <1>2
        <2> HIDE DEF ramp
        <2>3. \A m, n \in Nat : m * n \in Nat
            OBVIOUS
        <2> QED
            BY <2>1, <2>2, <2>3 DEF ramp
    <1>4. middle \in Int /\ i.from <= middle /\ middle < i.to
        <2>1. i.from + i.to \in Int /\ 2 \in Nat \ {0}
            BY <1>1
        <2>2. /\ middle \in Int /\ 2 * middle <= i.from + i.to /\ i.from + i.to < 2 * middle + 2
            BY <2>1, Divided
        <2> HIDE DEF middle
        <2> QED
            BY <1>1, <2>2
    <1> HIDE DEF ramp, middle
    <1>5. a \in Int /\ b \in Int
        BY DEF Open
    <1>6. ASSUME NEW q \in Int, a <= q, q <= b
          PROVE  q \in Spots(c) /\ \A p \in P : p # q => Reaches(c, p, q)
        BY <1>6 DEF Open
    <1>7. ASSUME NEW p \in Int, a <= p, p <= b, NEW q \in Int, a <= q, q <= b
          PROVE  Reaches(c, p, q)
        BY <1>7 DEF Open
    <1>8. i.to \in Spots(c) /\ \A p \in P : p # i.to => Reaches(c, p, i.to)
        BY <1>1, <1>5, <1>6
    <1>9. Leads(c, Fair(c),
                <<G1(Keep, i.top), G1(i.to, Keep), F("rate_v"), G1(Keep, depth), F("rate_h")>>, S, T)
        BY <1>1, <1>2, <1>8, LiftedLeads
    <1>10. Leads(c, Fair(c), <<G1(middle, i.top), G1(i.to, depth)>>, S, T)
        <2>1. middle \in Spots(c) /\ \A p \in P : p # middle => Reaches(c, p, middle)
            BY <1>1, <1>4, <1>5, <1>6
        <2>2. middle \in P => \A g \in {depth} : g <= i.top
            BY <1>1, <1>2
        <2>3. Leads(c, Fair(c), <<G1(middle, i.top)>>,
                    S, Stance(c, {middle}, {i.top}, Cutting, bs))
            BY <1>1, <2>1, <2>2, SlopeStep
        <2>4. Reaches(c, middle, i.to) /\ i.to \notin {middle}
            BY <1>1, <1>4, <1>5, <1>7
        <2>5. Leads(c, Fair(c), <<G1(i.to, depth)>>,
                    Stance(c, {middle}, {i.top}, Cutting, bs), T)
            BY <1>8, <2>4, SlopeStep
        <2> QED
            BY <2>3, <2>5, LeadsTwo
    <1>11. ASSUME ramp # 0, ~(i.to - i.from < 2 * ramp)
           PROVE  Leads(c, Fair(c),
                        <<G1(i.from + ramp, i.top), G1(i.to - ramp, Keep), G1(i.to, depth)>>, S, T)
        <2> DEFINE u == i.from + ramp
                   w == i.to - ramp
        <2>1. u \in Int /\ w \in Int /\ a <= u /\ u <= b /\ a <= w /\ w <= b /\ w # i.to
            BY <1>1, <1>3, <1>5, <1>11
        <2> HIDE DEF u, w
        <2>2. u \in Spots(c) /\ \A p \in P : p # u => Reaches(c, p, u)
            BY <1>6, <2>1
        <2>3. u \in P => \A g \in {depth} : g <= i.top
            BY <1>1, <1>2
        <2>4. Leads(c, Fair(c), <<G1(u, i.top)>>, S, Stance(c, {u}, {i.top}, Cutting, bs))
            BY <1>1, <2>2, <2>3, SlopeStep
        <2>5. w \in Spots(c) /\ Reaches(c, u, w) /\ Reaches(c, w, i.to)
            BY <1>1, <1>5, <1>6, <1>7, <2>1
        <2>6. Leads(c, Fair(c), <<G1(w, Keep)>>,
                    Stance(c, {u}, {i.top}, Cutting, bs), Stance(c, {w}, {i.top}, Cutting, bs))
            BY <2>5, AlongStep
        <2>7. i.to \notin {w}
            BY <2>1
        <2>8. Leads(c, Fair(c), <<G1(i.to, depth)>>, Stance(c, {w}, {i.top}, Cutting, bs), T)
            BY <1>8, <2>5, <2>7, SlopeStep
        <2>9. Leads(c, Fair(c), <<G1(u, i.top), G1(w, Keep), G1(i.to, depth)>>, S, T)
            BY <2>4, <2>6, <2>8, LeadsThree
        <2> QED
            BY <2>9 DEF u, w
    <1>12. Over(c, i, depth) =
            IF ramp = 0
            THEN <<G1(Keep, i.top), G1(i.to, Keep), F("rate_v"), G1(Keep, depth), F("rate_h")>>
            ELSE IF i.to - i.from < 2 * ramp
            THEN <<G1(middle, i.top), G1(i.to, depth)>>
            ELSE <<G1(i.from + ramp, i.top), G1(i.to - ramp, Keep), G1(i.to, depth)>>
        BY DEF Over, ramp, middle
    <1> HIDE DEF S, T
    <1>13. CASE ramp = 0
        <2>1. Over(c, i, depth) =
                <<G1(Keep, i.top), G1(i.to, Keep), F("rate_v"), G1(Keep, depth), F("rate_h")>>
            BY <1>12, <1>13
        <2> QED
            BY <1>9, <2>1 DEF S, T
    <1>14. CASE ramp # 0 /\ i.to - i.from < 2 * ramp
        <2>1. Over(c, i, depth) = <<G1(middle, i.top), G1(i.to, depth)>>
            BY <1>12, <1>14
        <2> QED
            BY <1>10, <2>1 DEF S, T
    <1>15. CASE ramp # 0 /\ ~(i.to - i.from < 2 * ramp)
        <2>1. Over(c, i, depth) =
                <<G1(i.from + ramp, i.top), G1(i.to - ramp, Keep), G1(i.to, depth)>>
            BY <1>12, <1>15
        <2> QED
            BY <1>11, <1>15, <2>1 DEF S, T
    <1> QED
        BY <1>13, <1>14, <1>15

LEMMA SpansAre ==
    ASSUME NEW c \in Cuts
    PROVE  /\ IsFiniteSet(Spans(c))
           /\ \A s \in Spans(c) : /\ s.from \in Int /\ s.to \in Int /\ s.from < s.to
                                  /\ \E t \in c.tabs : s.lift = t.lift /\ t.lift \in Int
    <1> DEFINE sp(t, k) == [from |-> t.from + k, to |-> t.to + k, lift |-> t.lift]
               K == IF c.closed THEN {0, -Length(c)} ELSE {0}
               A == {sp(t, 0) : t \in c.tabs}
               B == {sp(t, -Length(c)) : t \in c.tabs}
    <1>1. Spans(c) = {sp(t, k) : t \in c.tabs, k \in K}
        BY DEF Spans
    <1>2. Length(c) \in Nat /\ IsFiniteSet(c.tabs)
          /\ \A t \in c.tabs : t \in TabStretch /\ t.from < t.to
        BY ContourFacts, CutFacts
    <1>3. ASSUME NEW k \in Int PROVE IsFiniteSet({sp(t, k) : t \in c.tabs})
        <2> DEFINE f == [t \in c.tabs |-> sp(t, k)]
        <2>1. f = [t \in c.tabs |-> f[t]] /\ {f[t] : t \in c.tabs} = {sp(t, k) : t \in c.tabs}
            OBVIOUS
        <2> HIDE DEF f, sp
        <2> QED
            BY <1>2, <2>1, ImageIsFinite
    <1>4. IsFiniteSet(A) /\ IsFiniteSet(B)
        <2>1. 0 \in Int /\ -Length(c) \in Int
            BY <1>2
        <2> HIDE DEF sp
        <2> QED
            BY <1>3, <2>1
    <1>5. Spans(c) \subseteq A \cup B
        <2> HIDE DEF sp
        <2> QED
            BY <1>1
    <1>6. IsFiniteSet(Spans(c))
        <2> HIDE DEF A, B
        <2>1. IsFiniteSet(A \cup B)
            BY <1>4, FS_Union
        <2> QED
            BY <1>5, <2>1, FS_Subset
    <1>7. ASSUME NEW s \in Spans(c)
          PROVE  /\ s.from \in Int /\ s.to \in Int /\ s.from < s.to
                 /\ \E t \in c.tabs : s.lift = t.lift /\ t.lift \in Int
        <2>1. PICK t \in c.tabs, k \in K : s = sp(t, k)
            BY <1>1
        <2>2. t.from \in Int /\ t.to \in Int /\ t.lift \in Int /\ t.from < t.to
            BY <1>2 DEF TabStretch
        <2>3. k \in Int
            BY <1>2
        <2>4. s.from = t.from + k /\ s.to = t.to + k /\ s.lift = t.lift
            BY <2>1
        <2> QED
            BY <2>2, <2>3, <2>4
    <1> QED
        BY <1>6, <1>7

LEMMA TabTopIs ==
    ASSUME NEW c \in Cuts, Clear(c), NEW depth \in Heights(c), UsesTabs(c, depth),
           NEW s \in Spans(c)
    PROVE  TabTop(c, s, depth) \in Heights(c) /\ depth < TabTop(c, s, depth)
    <1>1. PICK t \in c.tabs : s.lift = t.lift /\ t.lift \in Int
        BY SpansAre
    <1>2. /\ depth \in Int /\ TabsZ(c) \in Int /\ depth < TabsZ(c) /\ FastZ \in Int
          /\ FastZ \in Heights(c)
        BY WordFacts, PlanHeights, CutFacts, StartIsHeight DEF UsesTabs
    <1>3. TabsZ(c) <= FastZ /\ TabsZ(c) + t.lift <= FastZ
        BY DEF Clear, UsesTabs
    <1> DEFINE top == TabTop(c, s, depth)
    <1>4. top \in Int /\ depth < top /\ top <= FastZ
        BY <1>1, <1>2, <1>3 DEF TabTop
    <1> HIDE DEF top
    <1>5. top \in Heights(c)
        BY <1>2, <1>4, HeightsBetween
    <1> QED
        BY <1>4, <1>5 DEF top

\* The units of a .. b that are to be left at depth: none of them lies in a
\* tab, and from P the tool moves on as from a.
Bared(c, a, b, P, D) ==
    /\ \A u \in D : u \in Units(c) /\ u \in Int /\ a < u /\ u <= b /\ ~TabUnit(c, u)
    /\ D # {} =>
        /\ \A p, q \in Int : a <= p /\ p <= b /\ a <= q /\ q <= b => SameSegment(c, p, q)
        /\ \A p \in P : \A q \in Int : a < q /\ q <= b => Here(c, p, q) = a

LEMMA LineLeads ==
    ASSUME NEW c \in Cuts, Clear(c), NEW depth \in Heights(c), UsesTabs(c, depth),
           NEW a, NEW b, NEW P, Open(c, a, b, P), NEW bs, NEW D, Bared(c, a, b, P, D)
    PROVE  Leads(c, Fair(c), LineWithTabs(c, a, b, depth),
                 Stance(c, P, {depth}, Cutting, bs),
                 Cleared(Stance(c, {b}, {depth}, Cutting, bs), D, depth))
    <1> DEFINE near == {s \in Spans(c) : s.from < b /\ s.to > a}
               part(t) == [from |-> Max({t.from, a}), to |-> Min({t.to, b}),
                           top |-> TabTop(c, t, depth)]
               hit == {part(t) : t \in near}
               merged == Merged(InOrder(hit))[Cardinality(hit)]
               cursor(k) == IF k = 1 THEN a ELSE merged[k - 1].to
               L == Lifts(c, a, b, depth)
               up(k) == IF merged[k].from > cursor(k) THEN <<G1(merged[k].from, Keep)>> ELSE <<>>
               legs == [k \in 1 .. Len(merged) |-> up(k) \o Over(c, merged[k], depth)]
               end == IF cursor(Len(merged) + 1) < b THEN <<G1(b, Keep)>> ELSE <<>>
               N == Fair(c)
               S(Q) == Stance(c, Q, {depth}, Cutting, bs)
               place(k) == IF k = 0 THEN a ELSE merged[k].to
               spot(k) == IF k = 0 THEN P ELSE {merged[k].to}
               E(k) == {u \in D : u <= cursor(k + 1)}
               J == [k \in 0 .. Len(merged) |-> Cleared(S(spot(k)), E(k), depth)]
    <1>1. LineWithTabs(c, a, b, depth) = AsOne(legs) \o end
        BY DEF LineWithTabs, Over
    <1>2. a \in Int /\ b \in Int /\ a < b
        BY DEF Open
    <1>3. hit \subseteq L
        <2> SUFFICES ASSUME NEW t \in near PROVE part(t) \in L
            OBVIOUS
        <2>1. t \in Spans(c) /\ t.from \in Int /\ t.to \in Int /\ t.from < t.to /\ t.from < b /\ t.to > a
            BY SpansAre
        <2>2. /\ Max({t.from, a}) = IF t.from <= a THEN a ELSE t.from
              /\ Min({t.to, b}) = IF t.to <= b THEN t.to ELSE b
            BY <1>2, <2>1, OfTwo
        <2>3. TabTop(c, t, depth) \in Heights(c) /\ depth < TabTop(c, t, depth)
            BY <2>1, TabTopIs
        <2> DEFINE u == Max({t.from, a})
                   v == Min({t.to, b})
        <2>4. u \in Int /\ v \in Int /\ a <= u /\ u < v /\ v <= b
            BY <1>2, <2>1, <2>2
        <2> HIDE DEF u, v
        <2>6. Tabbed(c, u, v)
            <3>1. ASSUME NEW w \in Int, u < w, w <= v PROVE TabUnit(c, w)
                <4>1. t.from < w /\ w - 1 < t.to
                    BY <1>2, <2>1, <2>2, <2>4, <3>1 DEF u, v
                <4>2. c.tabsActive
                    BY DEF UsesTabs
                <4> QED
                    BY <2>1, <4>1, <4>2 DEF TabUnit
            <3> QED
                BY <3>1 DEF Tabbed
        <2>5. [from |-> u, to |-> v, top |-> TabTop(c, t, depth)] \in L
            BY <2>3, <2>4, <2>6 DEF Lifts
        <2> QED
            BY <2>5 DEF u, v
    <1>4. IsFiniteSet(hit)
        <2>1. IsFiniteSet(near)
            <3>1. near \subseteq Spans(c)
                OBVIOUS
            <3> QED
                BY <3>1, SpansAre, FS_Subset
        <2> DEFINE f == [t \in near |-> part(t)]
        <2>2. f = [t \in near |-> f[t]] /\ {f[t] : t \in near} = hit
            OBVIOUS
        <2> HIDE DEF f, near, hit
        <2> QED
            BY <2>1, <2>2, ImageIsFinite
    <1> HIDE DEF hit
    <1>5. merged \in Seq(L)
        <2> DEFINE q == InOrder(hit)
        <2>1. \A x \in hit : x.from \in Int
            BY <1>3 DEF Lifts
        <2>2. Cardinality(hit) \in Nat /\ q \in [1 .. Cardinality(hit) -> hit]
            BY <1>4, <2>1, InOrderIs, FS_CardinalityType
        <2> HIDE DEF q, L
        <2>3. q \in Seq(L) /\ Len(q) = Cardinality(hit)
            BY <1>3, <2>2
        <2>4. Merged(q)[Len(q)] \in Seq(L)
            BY <1>2, <2>3, MergedType DEF L
        <2> QED
            BY <2>3, <2>4 DEF q
    <1> HIDE DEF merged
    <1>6. Len(merged) \in Nat /\ Len(legs) = Len(merged)
        BY <1>5
    <1>7. ASSUME NEW k \in 1 .. Len(merged)
          PROVE  /\ merged[k] \in L /\ merged[k].from \in Int /\ merged[k].to \in Int
                 /\ a <= merged[k].from /\ merged[k].from < merged[k].to /\ merged[k].to <= b
                 /\ Tabbed(c, merged[k].from, merged[k].to)
        <2>1. merged[k] \in L
            BY <1>5
        <2> QED
            BY <2>1 DEF Lifts
    <1>8. ASSUME NEW p \in Int, a <= p, p <= b PROVE Open(c, a, b, {p})
        BY <1>8, OpenGrows
    <1>9. ASSUME NEW k \in 0 .. Len(merged)
          PROVE  /\ place(k) \in Int /\ a <= place(k) /\ place(k) <= b
                 /\ Open(c, a, b, spot(k))
                 /\ (place(k) = a /\ spot(k) = P) \/ spot(k) = {place(k)}
                 /\ cursor(k + 1) = place(k)
                 /\ place(k) = b => spot(k) = {b}
                 /\ E(k) \subseteq Units(c)
        <2>1. E(k) \subseteq Units(c)
            BY DEF Bared
        <2> HIDE DEF E
        <2>2. CASE k = 0
            BY <1>2, <2>1, <2>2
        <2>3. CASE k # 0
            <3>1. k \in 1 .. Len(merged) /\ k + 1 # 1 /\ (k + 1) - 1 = k
                BY <1>6, <2>3
            <3>2. merged[k].to \in Int /\ a <= merged[k].to /\ merged[k].to <= b
                BY <1>2, <1>7, <3>1
            <3>3. Open(c, a, b, {merged[k].to})
                BY <1>8, <3>2
            <3>4. place(k) = merged[k].to /\ spot(k) = {merged[k].to} /\ cursor(k + 1) = merged[k].to
                BY <2>3, <3>1
            <3> HIDE DEF place, spot, cursor
            <3> QED
                BY <2>1, <3>2, <3>3, <3>4
        <2> QED
            BY <2>2, <2>3
    <1>14. depth \in Int /\ \A u \in D : u \in Int /\ a < u /\ u <= b /\ ~TabUnit(c, u)
        BY WordFacts DEF Bared
    <1>15. ASSUME NEW k \in 0 .. Len(merged), NEW y \in Int, place(k) < y, y <= b
           PROVE  LET X == {u \in D : place(k) < u /\ u <= y} IN
                  Leads(c, N, <<G1(y, Keep)>>, S(spot(k)), Cleared(S({y}), X, depth))
        <2> DEFINE X == {u \in D : place(k) < u /\ u <= y}
                   x == place(k)
                   Q == spot(k)
        <2>1. /\ x \in Int /\ a <= x /\ Open(c, a, b, Q) /\ x < y
              /\ (x = a /\ Q = P) \/ Q = {x}
            BY <1>9, <1>15
        <2>2. \A u \in X : u \in D /\ x < u /\ u <= y
            OBVIOUS
        <2> HIDE DEF X, x, Q, place, spot
        <2>3. /\ X \subseteq Units(c) /\ \A u \in X : x < u /\ u <= y
              /\ X # {} => \A p \in Q : Here(c, p, y) = x /\ SameSegment(c, x, y)
            <3>1. X \subseteq Units(c)
                BY <2>2 DEF Bared
            <3>2. ASSUME X # {} PROVE \A p \in Q : Here(c, p, y) = x /\ SameSegment(c, x, y)
                <4>1. D # {} /\ a < y /\ x <= b /\ a <= y
                    BY <1>2, <1>15, <2>1, <2>2, <3>2
                <4>2. SameSegment(c, x, y)
                    BY <1>15, <2>1, <4>1 DEF Bared
                <4>3. CASE x = a /\ Q = P
                    <5>1. \A p \in P : Here(c, p, y) = a
                        BY <1>15, <4>1 DEF Bared
                    <5> QED
                        BY <4>2, <4>3, <5>1
                <4>4. CASE Q = {x}
                    BY <4>2, <4>4 DEF Here
                <4> QED
                    BY <2>1, <4>3, <4>4
            <3> QED
                BY <2>2, <3>1, <3>2
        <2>4. a <= y
            BY <1>2, <2>1
        <2>5. y \in Spots(c) /\ \A p \in Q : p # y => Reaches(c, p, y)
            BY <1>15, <2>1, <2>4 DEF Open
        <2>6. Leads(c, N, <<G1(y, Keep)>>, S(Q), Cleared(S({y}), X, depth))
            BY <2>1, <2>3, <2>5, AlongClears
        <2> QED
            BY <2>6 DEF X, x, Q
    <1>16. ASSUME NEW k \in 1 .. Len(merged) PROVE Leads(c, N, legs[k], J[k - 1], J[k])
        <2> DEFINE x == place(k - 1)
                   Q == spot(k - 1)
                   y == merged[k].from
                   w == merged[k].to
                   R == Q \cup {y}
                   X == {u \in D : x < u /\ u <= y}
        <2>1. k - 1 \in 0 .. Len(merged) /\ k \in 0 .. Len(merged) /\ k # 0 /\ (k - 1) + 1 = k
            BY <1>6
        <2>2. /\ J[k - 1] = Cleared(S(Q), E(k - 1), depth) /\ J[k] = Cleared(S({w}), E(k), depth)
              /\ E(k - 1) \subseteq Units(c) /\ E(k) \subseteq Units(c)
            <3>1. spot(k) = {w}
                BY <2>1
            <3>2. \A i \in 0 .. Len(merged) : J[i] = Cleared(S(spot(i)), E(i), depth)
                OBVIOUS
            <3> HIDE DEF S, E, spot, J
            <3> QED
                BY <1>9, <2>1, <3>1, <3>2
        <2>3. /\ x \in Int /\ Open(c, a, b, Q) /\ cursor(k) = x
            <3> HIDE DEF place, spot, cursor, E
            <3> QED
                BY <1>9, <2>1
        <2>4. y \in Int /\ a <= y /\ y <= b /\ w \in Int /\ Tabbed(c, y, w)
            BY <1>2, <1>7
        <2>5. E(k) \subseteq X \cup E(k - 1)
            <3> SUFFICES ASSUME NEW u \in E(k) PROVE u \in X \cup E(k - 1)
                OBVIOUS
            <3>1. cursor(k + 1) = w
                <4>1. k + 1 # 1 /\ (k + 1) - 1 = k
                    BY <1>6
                <4> QED
                    BY <4>1
            <3>2. u \in D /\ u <= w
                BY <3>1
            <3>3. u \in Int /\ ~TabUnit(c, u)
                BY <1>14, <3>2
            <3>4. u <= y
                BY <2>4, <3>2, <3>3 DEF Tabbed
            <3>5. u <= x \/ (x < u /\ u <= y)
                BY <2>3, <3>3, <3>4
            <3>6. cursor((k - 1) + 1) = x
                BY <2>1, <2>3
            <3>7. E(k - 1) = {v \in D : v <= cursor((k - 1) + 1)}
                OBVIOUS
            <3> HIDE DEF x, y, cursor, E
            <3> QED
                BY <3>2, <3>5, <3>6, <3>7
        <2> HIDE DEF E, Q, x, w
        <2>6. Open(c, a, b, R)
            BY <2>3, <2>4, OpenGrows
        <2>7. Leads(c, N, up(k), S(Q), Cleared(S(R), X, depth))
            <3>1. CASE y > x
                <4>1. up(k) = <<G1(y, Keep)>>
                    BY <2>3, <3>1
                <4>2. Leads(c, N, <<G1(y, Keep)>>, S(Q), Cleared(S({y}), X, depth))
                    <5>1. place(k - 1) < y
                        BY <2>3, <2>4, <3>1 DEF x
                    <5> HIDE DEF place, spot, y, N, S
                    <5> QED
                        BY <1>15, <2>1, <2>4, <5>1 DEF x, Q
                <4>3. Cleared(S({y}), X, depth) \subseteq Cleared(S(R), X, depth)
                    <5>1. S({y}) \subseteq S(R)
                        BY StanceGrows
                    <5> HIDE DEF S, R, X, y
                    <5> QED
                        BY <5>1 DEF Cleared
                <4> HIDE DEF X, R, y, S, N, up
                <4> QED
                    BY <4>1, <4>2, <4>3, LeadsWeaken
            <3>2. CASE ~(y > x)
                <4>1. up(k) = <<>>
                    BY <2>3, <3>2
                <4>2. X = {}
                    BY <1>14, <2>3, <2>4, <3>2
                <4>3. S(Q) \subseteq Cleared(S(R), X, depth)
                    <5>1. S(Q) \subseteq S(R)
                        BY StanceGrows
                    <5> HIDE DEF S, R, X
                    <5> QED
                        BY <4>2, <5>1 DEF Cleared
                <4> HIDE DEF X, R, S, N, up
                <4> QED
                    BY <4>1, <4>3, LeadsNone
            <3> QED
                BY <3>1, <3>2
        <2>8. Leads(c, N, Over(c, merged[k], depth), S(R), S({w}))
            <3> HIDE DEF R
            <3> QED
                BY <1>7, <2>6, OverLeads DEF w
        <2>9. legs[k] = up(k) \o Over(c, merged[k], depth)
            OBVIOUS
        <2> HIDE DEF S, R, X, up, legs, J
        <2>10. Leads(c, N, up(k), Cleared(S(Q), E(k - 1), depth), Cleared(S(R), E(k), depth))
            BY <1>14, <2>2, <2>5, <2>7, ClearsOn
        <2>11. Leads(c, N, Over(c, merged[k], depth),
                     Cleared(S(R), E(k), depth), Cleared(S({w}), E(k), depth))
            BY <1>14, <2>2, <2>8, LeadsKeeps
        <2> HIDE DEF N
        <2>12. Leads(c, N, up(k) \o Over(c, merged[k], depth),
                     Cleared(S(Q), E(k - 1), depth), Cleared(S({w}), E(k), depth))
            BY <2>10, <2>11, LeadsConcat
        <2> QED
            BY <2>2, <2>9, <2>12
    <1> DEFINE m == Len(merged)
    <1>17. /\ J[0] = S(P) /\ J[m] = Cleared(S(spot(m)), E(m), depth)
           /\ m \in 0 .. m /\ E(m) = {u \in D : u <= place(m)}
        <2>1. 0 \in 0 .. m /\ m \in 0 .. m
            BY <1>6
        <2>2. E(0) = {}
            BY <1>2, <1>14
        <2>3. spot(0) = P
            OBVIOUS
        <2>4. \A i \in 0 .. m : J[i] = Cleared(S(spot(i)), E(i), depth)
            OBVIOUS
        <2>5. cursor(m + 1) = place(m)
            <3> HIDE DEF place, spot, cursor, E
            <3> QED
                BY <1>9, <2>1
        <2>6. E(m) = {u \in D : u <= place(m)}
            <3> HIDE DEF place, cursor
            <3> QED
                BY <2>5
        <2>7. Cleared(S(P), {}, depth) = S(P)
            BY ClearedFacts
        <2> HIDE DEF S, E, J, spot, place, cursor
        <2> QED
            BY <2>1, <2>2, <2>3, <2>4, <2>6, <2>7
    <1>11. Leads(c, N, end, Cleared(S(spot(m)), E(m), depth), Cleared(S({b}), D, depth))
        <2>1. /\ place(m) \in Int /\ place(m) <= b /\ cursor(m + 1) = place(m)
              /\ place(m) = b => spot(m) = {b}
              /\ E(m) \subseteq Units(c)
            <3> HIDE DEF place, spot, cursor, E
            <3> QED
                BY <1>9, <1>17
        <2>2. end = IF cursor(m + 1) < b THEN <<G1(b, Keep)>> ELSE <<>>
            OBVIOUS
        <2> HIDE DEF place, spot, cursor, E, end, J, legs
        <2>3. CASE place(m) < b
            <3> DEFINE X == {u \in D : place(m) < u /\ u <= b}
            <3>1. Leads(c, N, <<G1(b, Keep)>>, S(spot(m)), Cleared(S({b}), X, depth))
                <4>1. b <= b
                    BY <1>2
                <4> HIDE DEF N, S
                <4> QED
                    BY <1>2, <1>15, <1>17, <2>3, <4>1
            <3>2. D \subseteq X \cup E(m)
                BY <1>14, <1>17, <2>1
            <3> HIDE DEF X, S
            <3>3. Leads(c, N, <<G1(b, Keep)>>,
                        Cleared(S(spot(m)), E(m), depth), Cleared(S({b}), D, depth))
                BY <1>14, <2>1, <3>1, <3>2, ClearsOn
            <3> QED
                BY <2>1, <2>2, <2>3, <3>3
        <2>4. CASE ~(place(m) < b)
            <3>1. place(m) = b /\ end = <<>>
                BY <1>2, <2>1, <2>2, <2>4
            <3>2. D \subseteq E(m)
                BY <1>14, <1>17, <3>1
            <3>3. Cleared(S(spot(m)), E(m), depth) \subseteq Cleared(S({b}), D, depth)
                <4> HIDE DEF S
                <4> QED
                    BY <2>1, <3>1, <3>2, ClearedFacts
            <3> HIDE DEF S, N
            <3> QED
                BY <3>1, <3>3, LeadsNone
        <2> QED
            BY <2>3, <2>4
    <1> HIDE DEF legs, end, S, J, N, E, spot, place, cursor
    <1>12. Leads(c, N, AsOne(legs), J[0], J[Len(legs)])
        BY <1>6, <1>16, LeadsStrung
    <1>13. Leads(c, N, AsOne(legs) \o end, S(P), Cleared(S({b}), D, depth))
        BY <1>6, <1>11, <1>12, <1>17, LeadsConcat
    <1> QED
        BY <1>1, <1>13 DEF N, S

LEMMA SegmentOpens ==
    ASSUME NEW c \in Cuts, NEW j \in 1 .. Len(c.segs), NEW P, \A p \in P : Joins(c, p, j)
    PROVE  Open(c, Vertex(c, j - 1), Vertex(c, j), P)
    <1> DEFINE a == Vertex(c, j - 1)
               b == Vertex(c, j)
    <1>1. a \in Nat /\ b \in Nat /\ a < b /\ b <= Length(c) /\ Length(c) \in Nat
        <2>1. j - 1 \in 0 .. Len(c.segs) /\ j \in 0 .. Len(c.segs) /\ j - 1 < j
            BY CutFacts
        <2>2. b \in 0 .. Length(c) /\ Length(c) \in Nat
            BY <2>1, ContourFacts
        <2> QED
            BY <2>1, <2>2, VertexType, VertexGrows
    <1>2. ASSUME NEW p \in Int, a <= p, p <= b, NEW q \in Int, a <= q, q <= b
          PROVE  Reaches(c, p, q)
        <2>1. p \in a .. b /\ q \in a .. b
            BY <1>1, <1>2
        <2>2. SameSegment(c, p, q) /\ Here(c, p, q) = p
            BY <2>1, OnSegment
        <2> QED
            BY <2>2 DEF Reaches, Follows
    <1>3. ASSUME NEW q \in Int, a <= q, q <= b
          PROVE  q \in Spots(c) /\ \A p \in P : p # q => Reaches(c, p, q)
        <2>1. q \in Spots(c)
            BY <1>1, <1>3 DEF Spots, FarSide
        <2>2. q \in a .. b
            BY <1>1, <1>3
        <2> QED
            BY <2>1, <2>2 DEF Joins
    <1> QED
        BY <1>1, <1>2, <1>3 DEF Open

LEMMA ArcLeads ==
    ASSUME NEW c \in Cuts, Clear(c), NEW depth \in Heights(c), UsesTabs(c, depth),
           NEW a, NEW b, NEW P, Open(c, a, b, P), (b - a) % Chord = 0, NEW bs,
           NEW D, Bared(c, a, b, P, D),
           c.tabRamp = 0 /\ (\E t \in Spans(c) : t.from <= b /\ t.to >= a) => D = {}
    PROVE  Leads(c, Fair(c), ArcWithTabs(c, a, b, depth),
                 Stance(c, P, {depth}, Cutting, bs),
                 Cleared(Stance(c, {b}, {depth}, Cutting, bs), D, depth))
    <1> DEFINE hit == {t \in Spans(c) : t.from <= b /\ t.to >= a}
               tops == {TabTop(c, t, depth) : t \in hit}
               top == Max(tops)
               m == (b - a) \div Chord
               legs == [k \in 1 .. m |->
                            LineWithTabs(c, a + (k - 1) * Chord, a + k * Chord, depth)]
               N == Fair(c)
               S(Q) == Stance(c, Q, {depth}, Cutting, bs)
    <1>1. a \in Int /\ b \in Int /\ a < b
        BY DEF Open
    <1>2. b <= b /\ a <= b
        BY <1>1
    <1>3. b \in Spots(c) /\ \A p \in P : p # b => Reaches(c, p, b)
        BY <1>1, <1>2 DEF Open
    <1>9. depth \in Int /\ \A u \in D : u \in Int /\ u \in Units(c) /\ a < u /\ u <= b /\ ~TabUnit(c, u)
        BY WordFacts DEF Bared
    <1>4. Leads(c, N, <<G1(b, Keep)>>, S(P), Cleared(S({b}), D, depth))
        <2>1. D # {} => \A p \in P : Here(c, p, b) = a /\ SameSegment(c, a, b)
            <3>1. a <= a
                BY <1>1
            <3> QED
                BY <1>1, <1>2, <3>1 DEF Bared
        <2>2. D \subseteq Units(c)
            BY <1>9
        <2>3. \A u \in D : (a < u /\ u <= b) \/ (b < u /\ u <= a)
            BY <1>9
        <2> QED
            BY <1>1, <1>3, <2>1, <2>2, <2>3, AlongClears
    <1>5. ASSUME hit # {}
          PROVE  Leads(c, N, <<G1(Keep, top), G1(b, Keep), F("rate_v"), G1(Keep, depth), F("rate_h")>>,
                       S(P), S({b}))
        <2>1. ASSUME NEW x \in tops PROVE x \in Heights(c) /\ depth < x /\ x \in Int
            <3>1. PICK t \in hit : x = TabTop(c, t, depth)
                OBVIOUS
            <3>2. t \in Spans(c)
                OBVIOUS
            <3>3. x \in Heights(c) /\ depth < x
                BY <3>1, <3>2, TabTopIs
            <3> QED
                BY <3>3, WordFacts
        <2>2. IsFiniteSet(tops)
            <3>1. hit \subseteq Spans(c)
                OBVIOUS
            <3>2. IsFiniteSet(hit)
                BY <3>1, SpansAre, FS_Subset
            <3> DEFINE f == [t \in hit |-> TabTop(c, t, depth)]
            <3>3. f = [t \in hit |-> f[t]] /\ {f[t] : t \in hit} = tops
                OBVIOUS
            <3> HIDE DEF f, hit, tops
            <3> QED
                BY <3>2, <3>3, ImageIsFinite
        <2>3. tops # {}
            BY <1>5
        <2>4. top \in tops
            <3>1. tops \in SUBSET Int
                BY <2>1
            <3> HIDE DEF tops
            <3> QED
                BY <2>2, <2>3, <3>1, Extremes
        <2>5. top \in Heights(c) /\ depth <= top
            <3>1. depth \in Int
                BY WordFacts
            <3> HIDE DEF tops
            <3> QED
                BY <2>1, <2>4, <3>1
        <2> HIDE DEF top
        <2> QED
            BY <1>3, <2>5, LiftedLeads
    <1>6. Leads(c, N, AsOne(legs), S(P), Cleared(S({b}), D, depth))
        <2>1. m \in Nat /\ 2 * m = b - a /\ Chord = 2
            <3>1. b - a \in Nat /\ (b - a) % 2 = 0
                BY <1>1 DEF Chord
            <3>2. \A x \in Nat : x % 2 = 0 => (x \div 2) \in Nat /\ 2 * (x \div 2) = x
                OBVIOUS
            <3> QED
                BY <3>1, <3>2 DEF Chord
        <2> HIDE DEF m
        <2> DEFINE E(k) == {u \in D : u <= a + 2 * k}
                   J == [k \in 0 .. m |->
                            Cleared(S(IF k = 0 THEN P ELSE {a + 2 * k}), E(k), depth)]
        <2>2. Len(legs) = m
            BY <2>1
        <2>6. \A k \in 0 .. m : E(k) \subseteq Units(c)
            BY <1>9
        <2>3. ASSUME NEW k \in 1 .. m PROVE Leads(c, N, legs[k], J[k - 1], J[k])
            <3> DEFINE u == a + 2 * (k - 1)
                       v == a + 2 * k
                       Q == IF k = 1 THEN P ELSE {u}
            <3>1. u \in Int /\ v \in Int /\ a <= u /\ u < v /\ v <= b /\ (k = 1 => u = a)
                BY <1>1, <2>1
            <3>2. /\ k \in Int /\ k - 1 \in 0 .. m /\ k \in 0 .. m /\ k # 0
                  /\ (k = 1 => k - 1 = 0) /\ (k # 1 => k - 1 # 0)
                BY <2>1
            <3>3. legs[k] = LineWithTabs(c, u, v, depth)
                <4>1. (k - 1) * Chord = 2 * (k - 1) /\ k * Chord = 2 * k
                    BY <2>1, <3>2
                <4>2. legs[k] = LineWithTabs(c, a + (k - 1) * Chord, a + k * Chord, depth)
                    OBVIOUS
                <4> QED
                    BY <4>1, <4>2
            <3>4. J[k - 1] = Cleared(S(Q), E(k - 1), depth) /\ J[k] = Cleared(S({v}), E(k), depth)
                <4> HIDE DEF S, E
                <4> QED
                    BY <3>2
            <3> DEFINE X == {w \in D : u < w /\ w <= v}
            <3>7. E(k) \subseteq X \cup E(k - 1)
                BY <1>9, <3>1
            <3>8. Bared(c, u, v, Q, X)
                <4> HIDE DEF u, v, Q
                <4>1. \A w \in X : w \in Units(c) /\ w \in Int /\ u < w /\ w <= v /\ ~TabUnit(c, w)
                    BY <1>9
                <4>2. ASSUME X # {} PROVE D # {}
                    BY <4>2
                <4>3. \A q \in Int : u <= q /\ q <= v => a <= q /\ q <= b
                    BY <1>1, <3>1
                <4>4. ASSUME X # {}, NEW p \in Int, NEW q \in Int, u <= p, p <= v, u <= q, q <= v
                      PROVE  SameSegment(c, p, q)
                    BY <4>2, <4>3, <4>4 DEF Bared
                <4>5. ASSUME X # {}, NEW p \in Q, NEW q \in Int, u < q, q <= v
                      PROVE  Here(c, p, q) = u
                    <5>1. CASE k = 1
                        <6>1. p \in P /\ u = a
                            BY <3>1, <5>1 DEF Q
                        <6>2. q <= b
                            BY <3>1, <4>3, <4>5
                        <6> QED
                            BY <4>2, <4>5, <6>1, <6>2 DEF Bared
                    <5>2. CASE k # 1
                        <6>1. p = u /\ u <= u /\ u <= v /\ u <= q
                            BY <3>1, <4>5, <5>2 DEF Q
                        <6>2. SameSegment(c, u, q)
                            BY <3>1, <4>4, <4>5, <6>1
                        <6> QED
                            BY <6>1, <6>2 DEF Here
                    <5> QED
                        BY <5>1, <5>2
                <4> HIDE DEF X
                <4> QED
                    BY <4>1, <4>4, <4>5 DEF Bared
            <3>5. Open(c, u, v, Q)
                <4> HIDE DEF u, v
                <4>1. \A q \in Int : u <= q /\ q <= v => a <= q /\ q <= b
                    BY <1>1, <3>1
                <4>2. \A p \in Q : p \in P \/ (p \in Int /\ a <= p /\ p <= b)
                    BY <1>1, <3>1
                <4> HIDE DEF Q
                <4> QED
                    BY <1>1, <3>1, <4>1, <4>2 DEF Open
            <3> HIDE DEF u, v, Q, legs, J, X, E
            <3>6. Leads(c, N, LineWithTabs(c, u, v, depth), S(Q), Cleared(S({v}), X, depth))
                BY <3>5, <3>8, LineLeads
            <3>9. E(k - 1) \subseteq Units(c)
                BY <2>6, <3>2
            <3> HIDE DEF S
            <3>10. Leads(c, N, LineWithTabs(c, u, v, depth),
                         Cleared(S(Q), E(k - 1), depth), Cleared(S({v}), E(k), depth))
                BY <1>9, <3>6, <3>7, <3>9, ClearsOn
            <3> QED
                BY <3>3, <3>4, <3>10
        <2>4. J[0] = S(P) /\ J[m] = Cleared(S({b}), D, depth)
            <3>1. m # 0 /\ m \in 0 .. m /\ a + 2 * m = b /\ 0 \in 0 .. m
                BY <1>1, <2>1
            <3>2. E(0) = {} /\ E(m) = D
                BY <1>1, <1>9, <3>1
            <3>3. Cleared(S(P), {}, depth) = S(P)
                BY ClearedFacts
            <3> HIDE DEF S, E
            <3> QED
                BY <3>1, <3>2, <3>3
        <2> HIDE DEF legs, J, N, S
        <2>5. Leads(c, N, AsOne(legs), J[0], J[Len(legs)])
            BY <2>1, <2>2, <2>3, LeadsStrung
        <2> QED
            BY <2>2, <2>4, <2>5
    <1>7. ArcWithTabs(c, a, b, depth) =
            IF hit = {} THEN <<G1(b, Keep)>>
            ELSE IF c.tabRamp > 0 THEN AsOne(legs)
            ELSE <<G1(Keep, top), G1(b, Keep), F("rate_v"), G1(Keep, depth), F("rate_h")>>
        BY DEF ArcWithTabs
    <1>10. c.tabRamp \in Nat /\ (c.tabRamp = 0 /\ hit # {} => D = {})
        BY CutFacts DEF Setup
    <1> HIDE DEF hit, top, legs, N, S
    <1>8. Leads(c, N, ArcWithTabs(c, a, b, depth), S(P), Cleared(S({b}), D, depth))
        <2>1. CASE hit = {}
            <3>1. ArcWithTabs(c, a, b, depth) = <<G1(b, Keep)>>
                BY <1>7, <2>1
            <3> QED
                BY <1>4, <3>1
        <2>2. CASE hit # {} /\ c.tabRamp > 0
            <3>1. ArcWithTabs(c, a, b, depth) = AsOne(legs)
                BY <1>7, <2>2
            <3> QED
                BY <1>6, <3>1
        <2>3. CASE hit # {} /\ ~(c.tabRamp > 0)
            <3>1. ArcWithTabs(c, a, b, depth) =
                    <<G1(Keep, top), G1(b, Keep), F("rate_v"), G1(Keep, depth), F("rate_h")>>
                BY <1>7, <2>3
            <3>2. D = {}
                BY <1>10, <2>3
            <3>3. Cleared(S({b}), D, depth) = S({b})
                BY <3>2, ClearedFacts
            <3> QED
                BY <1>5, <2>3, <3>1, <3>3
        <2> QED
            BY <2>1, <2>2, <2>3
    <1> QED
        BY <1>8 DEF N, S

\* Outside the tabs, and outside the arcs the tab walk lifts over whole.
Bare(c) == {u \in Units(c) : ~TabUnit(c, u) /\ ~LiftedArc(c, u)}

LEMMA TabWalkLeads ==
    ASSUME NEW c \in Cuts, Clear(c), NEW depth \in Heights(c), UsesTabs(c, depth),
           NEW P, \A p \in P : Joins(c, p, 1), NEW bs,
           NEW D, D \subseteq Bare(c),
           D # {} => \A p \in P : \A q \in 1 .. Vertex(c, 1) : Here(c, p, q) = 0
    PROVE  Leads(c, Fair(c), TabWalk(c, depth),
                 Stance(c, P, {depth}, Cutting, bs),
                 Cleared(Stance(c, {Length(c)}, {depth}, Cutting, bs), D, depth))
    <1> DEFINE n == Len(c.segs)
               seg == Forward(c)
               leg(s) == IF s.arc THEN ArcWithTabs(c, s.from, s.to, depth)
                                  ELSE LineWithTabs(c, s.from, s.to, depth)
               legs == [i \in 1 .. Len(seg) |-> leg(seg[i])]
               N == Fair(c)
               S(Q) == Stance(c, Q, {depth}, Cutting, bs)
               E(i) == {u \in D : u <= Vertex(c, i)}
               J == [i \in 0 .. n |-> Cleared(S(IF i = 0 THEN P ELSE {Vertex(c, i)}), E(i), depth)]
    <1>1. TabWalk(c, depth) = AsOne(legs)
        BY DEF TabWalk
    <1>2. n \in Nat \ {0}
        BY CutFacts
    <1>3. /\ Len(seg) = n
          /\ \A i \in 1 .. n : /\ seg[i].from = Vertex(c, i - 1) /\ seg[i].to = Vertex(c, i)
                               /\ seg[i].arc = c.segs[i].arc
        BY <1>2 DEF Forward
    <1> HIDE DEF seg
    <1>4. Len(legs) = n
        BY <1>2, <1>3
    <1>8. /\ depth \in Int /\ Length(c) \in Nat
          /\ \A u \in D : /\ u \in Int /\ u \in Units(c) /\ 0 < u /\ u <= Length(c)
                         /\ ~TabUnit(c, u) /\ ~LiftedArc(c, u)
        BY WordFacts, ContourFacts DEF Bare, Units
    <1>9. \A i \in 0 .. n : E(i) \subseteq Units(c)
        BY <1>8
    <1>5. ASSUME NEW i \in 1 .. n PROVE Leads(c, N, legs[i], J[i - 1], J[i])
        <2> DEFINE a == Vertex(c, i - 1)
                   b == Vertex(c, i)
                   Q == IF i = 1 THEN P ELSE {a}
                   X == {u \in D : a < u /\ u <= b}
        <2>1. /\ i - 1 \in 0 .. n /\ i \in 0 .. n /\ i # 0 /\ (i = 1 => i - 1 = 0)
              /\ (i # 1 => i - 1 # 0)
            BY <1>2
        <2>2. J[i - 1] = Cleared(S(Q), E(i - 1), depth) /\ J[i] = Cleared(S({b}), E(i), depth)
            <3> HIDE DEF S, E
            <3> QED
                BY <2>1
        <2>3. a \in Nat /\ b \in Nat /\ a < b
            <3>1. i - 1 < i
                OBVIOUS
            <3> QED
                BY <2>1, <3>1, VertexType, VertexGrows
        <2>4. Open(c, a, b, Q)
            <3>1. \A p \in Q : Joins(c, p, i)
                <4>1. CASE i = 1
                    BY <4>1
                <4>2. CASE i # 1
                    <5>1. a \in Vertex(c, i - 1) .. Vertex(c, i)
                        BY <2>3
                    <5>2. Joins(c, a, i)
                        BY <5>1, JoinsInside
                    <5> QED
                        BY <4>2, <5>2
                <4> QED
                    BY <4>1, <4>2
            <3> HIDE DEF Q
            <3> QED
                BY <3>1, SegmentOpens
        <2>5. legs[i] = IF c.segs[i].arc THEN ArcWithTabs(c, a, b, depth)
                                         ELSE LineWithTabs(c, a, b, depth)
            BY <1>3
        <2>6. c.segs[i].arc => (b - a) % Chord = 0
            <3>1. b = a + c.segs[i].len
                BY VertexNext
            <3>2. c.segs[i].len \in Nat /\ (c.segs[i].arc => c.segs[i].len % Chord = 0)
                BY CutFacts
            <3>3. b - a = c.segs[i].len
                BY <2>3, <3>1, <3>2
            <3> QED
                BY <3>2, <3>3
        <2>10. E(i) \subseteq X \cup E(i - 1) /\ E(i - 1) \subseteq Units(c)
            BY <1>8, <2>3
        <2>11. Bared(c, a, b, Q, X)
            <3>1. \A u \in X : u \in Units(c) /\ u \in Int /\ a < u /\ u <= b /\ ~TabUnit(c, u)
                BY <1>8
            <3>2. ASSUME NEW p \in Int, NEW q \in Int, a <= p, p <= b, a <= q, q <= b
                  PROVE  SameSegment(c, p, q)
                <4>1. p \in a .. b /\ q \in a .. b
                    BY <2>3, <3>2
                <4> QED
                    BY <4>1, OnSegment
            <3>3. ASSUME X # {}, NEW p \in Q, NEW q \in Int, a < q, q <= b
                  PROVE  Here(c, p, q) = a
                <4>1. CASE i = 1
                    <5>1. a = 0 /\ i - 1 = 0 /\ Vertex(c, 0) = 0
                        BY <4>1, VertexNext
                    <5>2. q \in 1 .. Vertex(c, 1) /\ p \in P /\ D # {}
                        BY <2>3, <3>3, <4>1, <5>1
                    <5> QED
                        BY <5>1, <5>2
                <4>2. CASE i # 1
                    <5>1. p = a
                        BY <4>2
                    <5>2. SameSegment(c, a, q)
                        <6>1. a <= a /\ a <= b /\ a <= q /\ a \in Int
                            BY <2>3, <3>3
                        <6> QED
                            BY <3>2, <3>3, <6>1
                    <5> QED
                        BY <5>1, <5>2 DEF Here
                <4> QED
                    BY <4>1, <4>2
            <3> HIDE DEF a, b, X, Q
            <3> QED
                BY <3>1, <3>2, <3>3 DEF Bared
        <2>12. c.segs[i].arc /\ c.tabRamp = 0 /\ (\E t \in Spans(c) : t.from <= b /\ t.to >= a)
                => X = {}
            <3> SUFFICES ASSUME c.segs[i].arc, c.tabRamp = 0,
                                \E t \in Spans(c) : t.from <= b /\ t.to >= a, NEW u \in X
                         PROVE  FALSE
                OBVIOUS
            <3>1. c.tabsActive
                BY DEF UsesTabs
            <3>2. LiftedArc(c, u)
                BY <3>1 DEF LiftedArc
            <3> QED
                BY <1>8, <3>2
        <2> HIDE DEF a, b, Q, legs, J, X, E
        <2>7. Leads(c, N, LineWithTabs(c, a, b, depth), S(Q), Cleared(S({b}), X, depth))
            BY <2>4, <2>11, LineLeads
        <2>8. c.segs[i].arc =>
                Leads(c, N, ArcWithTabs(c, a, b, depth), S(Q), Cleared(S({b}), X, depth))
            BY <2>4, <2>6, <2>11, <2>12, ArcLeads
        <2> HIDE DEF S
        <2>9. Leads(c, N, legs[i], S(Q), Cleared(S({b}), X, depth))
            <3> HIDE DEF N
            <3> QED
                BY <2>5, <2>7, <2>8
        <2>13. Leads(c, N, legs[i], Cleared(S(Q), E(i - 1), depth), Cleared(S({b}), E(i), depth))
            BY <1>8, <2>9, <2>10, ClearsOn
        <2> QED
            BY <2>2, <2>13
    <1>6. J[0] = S(P) /\ J[n] = Cleared(S({Length(c)}), D, depth)
        <2>1. n \in 0 .. n /\ n # 0 /\ 0 \in 0 .. n /\ Vertex(c, 0) = 0
            BY <1>2, VertexNext
        <2>2. E(0) = {} /\ E(n) = D
            BY <1>8, <2>1 DEF Length
        <2>3. Cleared(S(P), {}, depth) = S(P)
            BY ClearedFacts
        <2> HIDE DEF S, E
        <2> QED
            BY <2>1, <2>2, <2>3 DEF Length
    <1> HIDE DEF legs, J, N, S, n
    <1>7. Leads(c, N, AsOne(legs), J[0], J[Len(legs)])
        BY <1>2, <1>4, <1>5, LeadsStrung
    <1> QED
        BY <1>1, <1>4, <1>6, <1>7 DEF N, S

-----------------------------------------------------------------------------
(* The programs of the phases *)

Lit(c) == IF c.mode \in {"Laser", "Plasma"} THEN {"lit"} ELSE {"off"}

\* Where a pass leaves the tool: an open contour is walked back on every
\* other pass, unless the pass has tabs.
Ends(c, k) ==
    IF ~SinglePassMode(c) /\ k % 2 = 0 /\ ~ClosedPath(c) /\ ~UsesTabs(c, Schedule(c)[k])
    THEN 0 ELSE Length(c)

Entry(c) == IF StraightLead(c) THEN Hop ELSE 0

Stand(c, k) == IF k = 1 THEN Entry(c) ELSE Ends(c, k - 1)

\* The height the tool is at before pass k.
Level(c, k) ==
    IF k = 1 THEN (IF c.mode = "Plasma" THEN c.cutHeight ELSE c.start)
    ELSE IF SinglePassMode(c) THEN SingleZ(c) ELSE Schedule(c)[k - 1]

\* The setups whose last walk is at the final depth all the way.
Settled(c) ==
    /\ Passes(c) > 0
    /\ ~(c.helixMode /\ ClosedPath(c) /\ Passes(c) > 1)
    /\ Ramps(c) /\ c.tabsActive => UsesTabs(c, FinalZ(c))
    /\ ClosedPath(c) \/ ~c.tabsActive

\* What of the contour has to end flat, and whether pass k sees to it.
Flats(c) == IF Settled(c) THEN Bare(c) ELSE {}
Swath(c, k) == IF k = Passes(c) /\ ~NeedsCleanup(c) THEN Flats(c) ELSE {}

Waiting(c) == Stance(c, {Away}, {FastZ}, Feeds, {"off"})
Before(c, k) == Stance(c, {Stand(c, k)}, {Level(c, k)}, Cutting, Lit(c))


\* After pass k; Level(c, Passes(c) + 1) is the final depth.
Walked(c, k) == Cleared(Before(c, k + 1), Swath(c, k), Level(c, k + 1))
Flattened(c, S) == Cleared(S, Flats(c), Level(c, Passes(c) + 1))

\* From here a lead-out may leave.
Leaving(c) ==
    Stance(c, {p \in Spots(c) : Reaches(c, p, HopOff) /\ Reaches(c, p, RollOff)},
           Heights(c), Cutting, Lit(c))

LEMMA FlatsAre ==
    ASSUME NEW c \in Cuts, NEW k
    PROVE  /\ Flats(c) \subseteq Units(c) /\ Flats(c) \subseteq Bare(c)
           /\ Swath(c, k) \subseteq Units(c) /\ Swath(c, k) \subseteq Bare(c)
           /\ Swath(c, k) # {} => k = Passes(c) /\ ~NeedsCleanup(c) /\ Settled(c)
           /\ Flats(c) # {} => Settled(c)
           /\ \A u \in Units(c) : u \in Int /\ 0 < u /\ u <= Length(c)
    BY ContourFacts DEF Flats, Swath, Bare, Units

LEMMA SetupFacts ==
    ASSUME NEW c \in Cuts
    PROVE  /\ c.mode \in {"Mill", "Laser", "Drag", "Plasma"}
           /\ c.closed \in BOOLEAN /\ c.tabsActive \in BOOLEAN /\ c.cot \in Nat
           /\ LeadKind(c, c.leadIn) \in {"off", "straight", "arc"}
           /\ LeadKind(c, c.leadOut) \in {"off", "straight", "arc"}
           /\ \A p \in {Away, Hop, RollOn, HopOff, RollOff, 0, Length(c)} : p \in Spots(c)
    <1>1. c \in Setup
        BY CutFacts
    <1>2. /\ c.mode \in {"Mill", "Laser", "Drag", "Plasma"}
          /\ c.closed \in BOOLEAN /\ c.tabsActive \in BOOLEAN /\ c.cot \in Nat
          /\ c.leadIn \in {"off", "straight", "arc"} /\ c.leadOut \in {"off", "straight", "arc"}
        BY <1>1 DEF Setup
    <1>3. \A p \in {Away, Hop, RollOn, HopOff, RollOff, 0, Length(c)} : p \in Spots(c)
        BY ContourFacts DEF Spots, FarSide, Away, Hop, RollOn, HopOff, RollOff
    <1> QED
        BY <1>2, <1>3 DEF LeadKind

LEMMA FireLeads ==
    ASSUME NEW c \in Cuts, NEW P, NEW Z, NEW fs, NEW bs, c.mode \notin {"Laser", "Plasma"} => bs = {"off"}
    PROVE  Leads(c, Fair(c), IF c.mode \in {"Laser", "Plasma"} THEN <<Beam("lit")>> ELSE <<>>,
                 Stance(c, P, Z, fs, bs), Stance(c, P, Z, fs, Lit(c)))
    <1>1. CASE c.mode \in {"Laser", "Plasma"}
        <2>1. Lit(c) = {"lit"}
            BY <1>1 DEF Lit
        <2>2. \A b \in Beams3 :
                Leads(c, Fair(c), <<Beam(b)>>, Stance(c, P, Z, fs, bs), Stance(c, P, Z, fs, {b}))
            BY BeamStep
        <2>3. Leads(c, Fair(c), <<Beam("lit")>>, Stance(c, P, Z, fs, bs), Stance(c, P, Z, fs, {"lit"}))
            <3>1. "lit" \in Beams3
                BY DEF Beams3
            <3> QED
                BY <2>2, <3>1
        <2> QED
            BY <1>1, <2>1, <2>3
    <1>2. CASE c.mode \notin {"Laser", "Plasma"}
        <2>1. Lit(c) = bs
            BY <1>2 DEF Lit
        <2>2. Leads(c, Fair(c), <<>>, Stance(c, P, Z, fs, bs), Stance(c, P, Z, fs, bs))
            BY LeadsNone
        <2> QED
            BY <1>2, <2>1, <2>2
    <1> QED
        BY <1>1, <1>2

\* At the plunge feed down to h.
LEMMA DownLeads ==
    ASSUME NEW c \in Cuts, NEW h \in Heights(c), NEW P, NEW Z, NEW fs, NEW bs
    PROVE  Leads(c, Fair(c), <<F("rate_v"), G1(Keep, h)>>,
                 Stance(c, P, Z, fs, bs), Stance(c, P, {h}, Feeds, bs))
    <1>1. Leads(c, Fair(c), <<F("rate_v")>>, Stance(c, P, Z, fs, bs), Stance(c, P, Z, {"rate_v"}, bs))
        <2>1. "rate_v" \in Feeds
            BY DEF Feeds
        <2>2. \A rate \in Feeds :
                Leads(c, Fair(c), <<F(rate)>>, Stance(c, P, Z, fs, bs), Stance(c, P, Z, {rate}, bs))
            BY FeedStep
        <2> QED
            BY <2>1, <2>2
    <1>2. Leads(c, Fair(c), <<G1(Keep, h)>>,
                Stance(c, P, Z, {"rate_v"}, bs), Stance(c, P, {h}, {"rate_v"}, bs))
        <2>1. \A f : f \subseteq {"rate_v"} =>
                Leads(c, Fair(c), <<G1(Keep, h)>>, Stance(c, P, Z, f, bs), Stance(c, P, {h}, f, bs))
            BY PlungeStep
        <2> QED
            BY <2>1
    <1>3. Leads(c, Fair(c), <<F("rate_v"), G1(Keep, h)>>,
                Stance(c, P, Z, fs, bs), Stance(c, P, {h}, {"rate_v"}, bs))
        BY <1>1, <1>2, LeadsTwo
    <1>4. Stance(c, P, {h}, {"rate_v"}, bs) \subseteq Stance(c, P, {h}, Feeds, bs)
        <2>1. {"rate_v"} \subseteq Feeds
            BY DEF Feeds
        <2> QED
            BY <2>1, StanceGrows
    <1> QED
        BY <1>3, <1>4, LeadsWeaken

LEMMA RateH ==
    ASSUME NEW c \in Cuts, NEW P, NEW Z, NEW fs, NEW bs
    PROVE  Leads(c, Fair(c), <<F("rate_h")>>, Stance(c, P, Z, fs, bs), Stance(c, P, Z, Cutting, bs))
    <1>1. "rate_h" \in Cutting
        BY DEF Cutting
    <1>2. \A rate \in Cutting :
            Leads(c, Fair(c), <<F(rate)>>, Stance(c, P, Z, fs, bs), Stance(c, P, Z, Cutting, bs))
        BY CuttingFeed
    <1> QED
        BY <1>1, <1>2

\* From the end of a lead-in to the start of the contour.
LEMMA LeadInStep ==
    ASSUME NEW c \in Cuts, NEW p \in {Hop, RollOn}, NEW Z, NEW bs
    PROVE  Leads(c, Fair(c), <<G1(0, Keep)>>,
                 Stance(c, {p}, Z, Cutting, bs), Stance(c, {0}, Z, Cutting, bs))
    <1>1. Reaches(c, p, 0)
        BY DEF Reaches, Follows
    <1>2. 0 \in Spots(c)
        BY SetupFacts
    <1>3. \A q \in Spots(c) : q = 0 =>
            Leads(c, Fair(c), <<G1(q, Keep)>>,
                  Stance(c, {p}, Z, Cutting, bs), Stance(c, {q}, Z, Cutting, bs))
        BY <1>1, AlongStep
    <1> QED
        BY <1>2, <1>3

LEMMA ApproachLeads ==
    ASSUME NEW c \in Cuts, Clear(c)
    PROVE  Leads(c, Fair(c), Approach(c), Waiting(c), Before(c, 1))
    <1> DEFINE fire == IF c.mode \in {"Laser", "Plasma"} THEN <<Beam("lit")>> ELSE <<>>
               lead == LeadKind(c, c.leadIn)
               entry == CASE lead = "straight" -> Hop [] lead = "arc" -> RollOn [] OTHER -> 0
               arm == IF c.mode = "Laser" THEN <<Beam("armed")>> ELSE <<>>
               go == <<F("rate_h"), G0(entry, FastZ)>>
               pierce == <<G0(Keep, c.pierceHeight)>> \o fire \o <<F("rate_v"), G1(Keep, c.cutHeight)>>
               plunge == <<F("rate_v"), G1(Keep, c.start)>> \o fire
               down == IF c.mode = "Plasma" THEN pierce ELSE plunge
               roll == IF lead = "arc" THEN <<G1(0, Keep)>> ELSE <<>>
               B == IF c.mode = "Laser" THEN {"armed"} ELSE {"off"}
               N == Fair(c)
               X == Stance(c, {entry}, {FastZ}, Cutting, B)
               S1 == Stance(c, {Away}, {FastZ}, Feeds, B)
               S3 == Stance(c, {entry}, {Level(c, 1)}, Feeds, Lit(c))
               S4 == Stance(c, {entry}, {Level(c, 1)}, Cutting, Lit(c))
    <1>1. Approach(c) = arm \o go \o down \o <<F("rate_h")>> \o roll
        BY DEF Approach
    <1>2. /\ c.start \in Heights(c) /\ FastZ \in Heights(c)
          /\ c.mode = "Plasma" => c.pierceHeight \in Heights(c) /\ c.cutHeight \in Heights(c)
        BY StartIsHeight
    <1>3. entry \in Spots(c)
        BY SetupFacts
    <1>4. Leads(c, N, arm, Waiting(c), S1)
        <2>1. \A b \in Beams3 : Leads(c, N, <<Beam(b)>>, Waiting(c), Stance(c, {Away}, {FastZ}, Feeds, {b}))
            BY BeamStep DEF Waiting
        <2>2. Leads(c, N, <<Beam("armed")>>, Waiting(c), Stance(c, {Away}, {FastZ}, Feeds, {"armed"}))
            <3>1. "armed" \in Beams3
                BY DEF Beams3
            <3> QED
                BY <2>1, <3>1
        <2>3. Leads(c, N, <<>>, Waiting(c), Stance(c, {Away}, {FastZ}, Feeds, {"off"}))
            BY LeadsNone DEF Waiting
        <2> HIDE DEF N
        <2> QED
            BY <2>2, <2>3
    <1> HIDE DEF entry
    <1>5. Leads(c, N, go, S1, X)
        <2>1. Leads(c, N, <<F("rate_h")>>, S1, Stance(c, {Away}, {FastZ}, Cutting, B))
            BY RateH
        <2>2. \A p \in {Away}, b \in B : (b = "lit") <=> (p # Away /\ c.mode = "Laser")
            OBVIOUS
        <2>3. Leads(c, N, <<G0(entry, FastZ)>>, Stance(c, {Away}, {FastZ}, Cutting, B), X)
            <3> HIDE DEF B
            <3> QED
                BY <1>2, <1>3, <2>2, CrossStep
        <2> HIDE DEF N, B, X, S1
        <2> QED
            BY <2>1, <2>3, LeadsTwo
    <1>6. Leads(c, N, down, X, S3)
        <2>1. CASE c.mode = "Plasma"
            <3>1. Level(c, 1) = c.cutHeight /\ B = {"off"} /\ down = pierce
                BY <2>1 DEF Level
            <3>2. Leads(c, N, <<G0(Keep, c.pierceHeight)>>, Stance(c, {entry}, {FastZ}, Cutting, {"off"}),
                        Stance(c, {entry}, {c.pierceHeight}, Cutting, {"off"}))
                <4>1. c.pierceHeight \in Heights(c) /\ c.pierceHeight > c.start
                    <5>1. c.pierceHeight \in Int /\ c.start \in Int
                        BY <1>2, <2>1, WordFacts
                    <5> QED
                        BY <1>2, <2>1, <5>1 DEF Clear
                <4> QED
                    BY <4>1, PierceStep
            <3>3. Leads(c, N, fire, Stance(c, {entry}, {c.pierceHeight}, Cutting, {"off"}),
                        Stance(c, {entry}, {c.pierceHeight}, Cutting, Lit(c)))
                BY FireLeads
            <3>4. Leads(c, N, <<F("rate_v"), G1(Keep, c.cutHeight)>>,
                        Stance(c, {entry}, {c.pierceHeight}, Cutting, Lit(c)),
                        Stance(c, {entry}, {c.cutHeight}, Feeds, Lit(c)))
                BY <1>2, <2>1, DownLeads
            <3> HIDE DEF N, fire
            <3>5. Leads(c, N, <<G0(Keep, c.pierceHeight)>> \o fire,
                        Stance(c, {entry}, {FastZ}, Cutting, {"off"}),
                        Stance(c, {entry}, {c.pierceHeight}, Cutting, Lit(c)))
                BY <3>2, <3>3, LeadsConcat
            <3>6. Leads(c, N, pierce, Stance(c, {entry}, {FastZ}, Cutting, {"off"}),
                        Stance(c, {entry}, {c.cutHeight}, Feeds, Lit(c)))
                BY <3>4, <3>5, LeadsConcat
            <3> HIDE DEF pierce
            <3> QED
                BY <3>1, <3>6
        <2>2. CASE c.mode # "Plasma"
            <3>1. Level(c, 1) = c.start /\ down = plunge
                BY <2>2 DEF Level
            <3>2. Leads(c, N, <<F("rate_v"), G1(Keep, c.start)>>, X,
                        Stance(c, {entry}, {c.start}, Feeds, B))
                BY <1>2, DownLeads
            <3>3. Leads(c, N, fire, Stance(c, {entry}, {c.start}, Feeds, B),
                        Stance(c, {entry}, {c.start}, Feeds, Lit(c)))
                <4>1. c.mode \notin {"Laser", "Plasma"} => B = {"off"}
                    OBVIOUS
                <4> HIDE DEF B
                <4> QED
                    BY <4>1, FireLeads
            <3> HIDE DEF N, fire, X, B
            <3>4. Leads(c, N, plunge, X, Stance(c, {entry}, {c.start}, Feeds, Lit(c)))
                BY <3>2, <3>3, LeadsConcat
            <3> HIDE DEF plunge
            <3> QED
                BY <3>1, <3>4
        <2> QED
            BY <2>1, <2>2
    <1>7. Leads(c, N, <<F("rate_h")>>, S3, S4)
        BY RateH
    <1>8. Leads(c, N, roll, S4, Before(c, 1))
        <2>1. CASE lead = "arc"
            <3>1. entry = RollOn /\ Stand(c, 1) = 0 /\ roll = <<G1(0, Keep)>>
                BY <2>1 DEF entry, Stand, Entry, StraightLead
            <3>2. Leads(c, N, <<G1(0, Keep)>>, Stance(c, {RollOn}, {Level(c, 1)}, Cutting, Lit(c)),
                        Stance(c, {0}, {Level(c, 1)}, Cutting, Lit(c)))
                BY LeadInStep
            <3> QED
                BY <3>1, <3>2 DEF Before
        <2>2. CASE lead # "arc"
            <3>1. entry = Entry(c) /\ Stand(c, 1) = Entry(c) /\ roll = <<>>
                BY <2>2 DEF entry, Stand, Entry, StraightLead
            <3>2. Leads(c, N, <<>>, S4, S4)
                BY LeadsNone
            <3> QED
                BY <3>1, <3>2 DEF Before
        <2> QED
            BY <2>1, <2>2
    <1> HIDE DEF arm, go, down, roll, N, X, S1, S3, S4
    <1>9. Leads(c, N, arm \o go, Waiting(c), X)
        BY <1>4, <1>5, LeadsConcat
    <1>10. Leads(c, N, (arm \o go) \o down, Waiting(c), S3)
        BY <1>6, <1>9, LeadsConcat
    <1>11. Leads(c, N, ((arm \o go) \o down) \o <<F("rate_h")>>, Waiting(c), S4)
        BY <1>7, <1>10, LeadsConcat
    <1>12. Leads(c, N, (((arm \o go) \o down) \o <<F("rate_h")>>) \o roll, Waiting(c), Before(c, 1))
        BY <1>8, <1>11, LeadsConcat
    <1> QED
        BY <1>1, <1>12 DEF N

-----------------------------------------------------------------------------
(* One pass *)

\* Where the tool is when pass k starts to walk, and whether it walks back.
Begins(c, k) == IF k = 1 THEN 0 ELSE Ends(c, k - 1)
Back(c, k) == k % 2 = 0 /\ ~ClosedPath(c)

\* A pass finds the tool where its walk can be entered.
LEMMA PassChain ==
    ASSUME NEW c \in Cuts, NEW k \in Nat \ {0}, ~SinglePassMode(c)
    PROVE  LET chain == Chain(c, k % 2 = 0)
               a == IF Back(c, k) THEN Length(c) ELSE 0
               b == IF Back(c, k) THEN 0 ELSE Length(c)
           IN /\ Traced(c, chain, a, b) /\ chain[1].from = a
              /\ Enters(c, {Begins(c, k)}, chain)
              /\ Begins(c, k) \in {0, Length(c)}
              /\ ~Back(c, k) => Joins(c, Begins(c, k), 1)
              /\ ~UsesTabs(c, Schedule(c)[k]) => Ends(c, k) = b
    <1> DEFINE chain == Chain(c, k % 2 = 0)
               a == IF Back(c, k) THEN Length(c) ELSE 0
               b == IF Back(c, k) THEN 0 ELSE Length(c)
               n == Len(c.segs)
    <1>1. n \in Nat \ {0} /\ 1 \in 1 .. n /\ 1 - 1 = 0 /\ Length(c) \in Nat \ {0}
        BY CutFacts, ContourFacts
    <1>2. Begins(c, k) \in {0, Length(c)}
        BY DEF Begins, Ends
    <1>3. ~UsesTabs(c, Schedule(c)[k]) => Ends(c, k) = b
        BY DEF Ends, Back
    <1>4. Traced(c, chain, a, b)
        <2>1. CASE Back(c, k)
            <3>1. chain = Reversed(c) /\ a = Length(c) /\ b = 0
                BY <2>1 DEF Back, Chain
            <3> QED
                BY <3>1, ReversedTraced
        <2>2. CASE ~Back(c, k)
            <3>1. chain = Forward(c) /\ a = 0 /\ b = Length(c)
                BY <2>2 DEF Back, Chain
            <3> QED
                BY <3>1, ForwardTraced
        <2> QED
            BY <2>1, <2>2
    <1>5. chain[1].from = a /\ Len(chain) = n
        BY <1>4 DEF Traced
    <1>6. ASSUME ~Back(c, k) PROVE Joins(c, Begins(c, k), 1)
        <2>1. CASE Begins(c, k) = 0
            <3>1. 0 \in Vertex(c, 1 - 1) .. Vertex(c, 1)
                <4>1. Vertex(c, 0) = 0 /\ Vertex(c, 1) \in Nat
                    BY <1>1, VertexNext, VertexType
                <4> QED
                    BY <1>1, <4>1
            <3>2. \A p \in Vertex(c, 1 - 1) .. Vertex(c, 1) : Joins(c, p, 1)
                BY <1>1, JoinsInside
            <3> QED
                BY <2>1, <3>1, <3>2
        <2>2. CASE Begins(c, k) # 0
            <3>1. k # 1 /\ Ends(c, k - 1) # 0 /\ Begins(c, k) = Length(c)
                BY <1>2, <2>2 DEF Begins
            <3>2. c.closed \/ c.tabsActive
                <4>1. CASE ClosedPath(c)
                    BY <4>1 DEF ClosedPath
                <4>2. CASE ~ClosedPath(c)
                    <5>1. k % 2 # 0
                        BY <1>6, <4>2 DEF Back
                    <5>2. (k - 1) % 2 = 0
                        BY <5>1
                    <5>3. UsesTabs(c, Schedule(c)[k - 1])
                        BY <3>1, <4>2, <5>2 DEF Ends
                    <5> QED
                        BY <5>3 DEF UsesTabs
                <4> QED
                    BY <4>1, <4>2
            <3> QED
                BY <3>1, <3>2, JoinsFromEnd
        <2> QED
            BY <2>1, <2>2
    <1>7. Enters(c, {Begins(c, k)}, chain)
        <2>1. CASE Back(c, k)
            <3>1. k # 1 /\ (k - 1) % 2 # 0
                BY <2>1 DEF Back
            <3>2. Begins(c, k) = Length(c) /\ a = Length(c)
                BY <2>1, <3>1 DEF Begins, Ends
            <3>3. PICK j \in 1 .. n : /\ chain[1].from \in Vertex(c, j - 1) .. Vertex(c, j)
                                      /\ chain[1].to \in Vertex(c, j - 1) .. Vertex(c, j)
                BY <1>1, <1>4, <1>5 DEF Traced
            <3>4. Joins(c, Length(c), j)
                BY <1>5, <3>2, <3>3, JoinsInside
            <3> QED
                BY <3>2, <3>3, <3>4 DEF Enters
        <2>2. CASE ~Back(c, k)
            <3>1. chain = Forward(c)
                BY <2>2 DEF Back, Chain
            <3>2. chain[1].from = Vertex(c, 0) /\ chain[1].to = Vertex(c, 1)
                BY <1>1, <3>1 DEF Forward
            <3>3. Vertex(c, 0) = 0 /\ Vertex(c, 1) \in Nat
                BY <1>1, VertexNext, VertexType
            <3>4. /\ chain[1].from \in Vertex(c, 1 - 1) .. Vertex(c, 1)
                  /\ chain[1].to \in Vertex(c, 1 - 1) .. Vertex(c, 1)
                BY <1>1, <3>2, <3>3
            <3>5. \A p \in {Begins(c, k)} : Joins(c, p, 1)
                BY <1>6, <2>2
            <3> QED
                BY <1>1, <3>4, <3>5 DEF Enters
        <2> QED
            BY <2>1, <2>2
    <1> HIDE DEF chain, a, b
    <1>8. /\ Traced(c, chain, a, b) /\ chain[1].from = a
          /\ Enters(c, {Begins(c, k)}, chain)
          /\ Begins(c, k) \in {0, Length(c)}
          /\ ~Back(c, k) => Joins(c, Begins(c, k), 1)
          /\ ~UsesTabs(c, Schedule(c)[k]) => Ends(c, k) = b
        BY <1>2, <1>3, <1>4, <1>5, <1>6, <1>7
    <1> QED
        BY <1>8 DEF chain, a, b

\* The walk of a pass starts where the tool is: the end of a closed contour
\* is its start, and an open one without tabs is walked back and forth.
LEMMA PassHere ==
    ASSUME NEW c \in Cuts, NEW k \in Nat \ {0}, ~SinglePassMode(c),
           ClosedPath(c) \/ ~c.tabsActive
    PROVE  /\ ~Back(c, k) => \A q \in 1 .. Vertex(c, 1) : Here(c, Begins(c, k), q) = 0
           /\ Here(c, Begins(c, k), Chain(c, k % 2 = 0)[1].to)
                = (IF Back(c, k) THEN Length(c) ELSE 0)
    <1> DEFINE n == Len(c.segs)
               chain == Chain(c, k % 2 = 0)
    <1>1. /\ n \in Nat \ {0} /\ 1 \in 1 .. n /\ 1 - 1 = 0 /\ Length(c) \in Nat \ {0}
          /\ Vertex(c, 0) = 0
        BY CutFacts, ContourFacts, VertexNext
    <1>2. Vertex(c, 1) \in Nat \ {0}
        <2>1. 0 \in 0 .. n /\ 1 \in 0 .. n /\ 0 < 1
            BY <1>1
        <2> QED
            BY <1>1, <2>1, VertexType, VertexGrows
    <1>3. ASSUME ~Back(c, k), NEW q \in 1 .. Vertex(c, 1) PROVE Here(c, Begins(c, k), q) = 0
        <2>1. CASE Begins(c, k) = 0
            BY <1>1, <2>1 DEF Here
        <2>2. CASE Begins(c, k) # 0
            <3>1. k # 1 /\ Ends(c, k - 1) # 0 /\ Begins(c, k) = Length(c)
                BY <2>2 DEF Begins, Ends
            <3>2. ClosedPath(c)
                <4> SUFFICES ASSUME ~ClosedPath(c) PROVE FALSE
                    OBVIOUS
                <4>1. k % 2 # 0
                    BY <1>3 DEF Back
                <4>2. (k - 1) % 2 = 0
                    BY <4>1
                <4>3. UsesTabs(c, Schedule(c)[k - 1])
                    BY <3>1, <4>2 DEF Ends
                <4> QED
                    BY <4>3 DEF UsesTabs
            <3>3. ~SameSegment(c, Length(c), q)
                <4> SUFFICES ASSUME NEW i \in 1 .. n,
                                    {Length(c), q} \subseteq Vertex(c, i - 1) .. Vertex(c, i)
                             PROVE  FALSE
                    BY DEF SameSegment
                <4>1. n >= 3
                    BY <3>2 DEF ClosedPath
                <4>2. i - 1 \in 0 .. n /\ i \in 0 .. n /\ 1 \in 0 .. n /\ n \in 0 .. n
                    BY <1>1
                <4>3. Vertex(c, i) \in Nat /\ Vertex(c, i - 1) \in Nat
                    BY <4>2, VertexType
                <4>4. Length(c) <= Vertex(c, i) /\ Vertex(c, i - 1) <= Vertex(c, 1)
                    BY <1>1, <1>2, <4>3
                <4>5. i = n
                    <5>1. i < n => Vertex(c, i) < Vertex(c, n)
                        BY <4>2, VertexGrows
                    <5> QED
                        BY <1>1, <4>2, <4>3, <4>4, <5>1 DEF Length
                <4>6. 1 < i - 1
                    BY <4>1, <4>5
                <4>7. Vertex(c, 1) < Vertex(c, i - 1)
                    BY <4>2, <4>6, VertexGrows
                <4> QED
                    BY <1>2, <4>3, <4>4, <4>7
            <3> QED
                BY <3>1, <3>2, <3>3 DEF Here, ClosedPath
        <2> QED
            BY <2>1, <2>2
    <1>4. CASE Back(c, k)
        <2>1. k # 1 /\ (k - 1) % 2 # 0
            BY <1>4 DEF Back
        <2>2. Begins(c, k) = Length(c)
            BY <1>4, <2>1 DEF Begins, Ends
        <2>3. chain = Reversed(c)
            BY <1>4 DEF Back, Chain
        <2>4. Traced(c, chain, Length(c), 0)
            BY <2>3, ReversedTraced
        <2> HIDE DEF chain
        <2>5. SameSegment(c, Length(c), chain[1].to)
            <3>1. 1 \in 1 .. Len(chain) /\ chain[1].from = Length(c)
                BY <1>1, <2>4 DEF Traced
            <3>2. \E j \in 1 .. Len(c.segs) :
                    {chain[1].from, chain[1].to} \subseteq Vertex(c, j - 1) .. Vertex(c, j)
                BY <2>4, <3>1 DEF Traced
            <3> QED
                BY <3>1, <3>2 DEF SameSegment
        <2> QED
            BY <1>4, <2>2, <2>5 DEF Here, chain
    <1>5. CASE ~Back(c, k)
        <2>1. chain = Forward(c)
            BY <1>5 DEF Back, Chain
        <2>2. chain[1].to = Vertex(c, 1)
            BY <1>1, <2>1 DEF Forward
        <2>3. Vertex(c, 1) \in 1 .. Vertex(c, 1)
            BY <1>2
        <2> QED
            BY <1>3, <1>5, <2>2, <2>3
    <1> QED
        BY <1>3, <1>4, <1>5

\* A ramp whose first segment ends where the tool stands does not descend:
\* the pass before it walked an open contour over tabs, this one is above them.
LEMMA NoRampOnTheSpot ==
    ASSUME NEW c \in Cuts, NEW k \in Nat \ {0}, ~SinglePassMode(c),
           NEW fromZ \in Int, NEW depth \in Int,
           k > 1 => fromZ = Schedule(c)[k - 1],
           depth = Schedule(c)[k], ~UsesTabs(c, depth),
           Chain(c, k % 2 = 0)[1].to = Begins(c, k)
    PROVE  fromZ <= depth
    <1> DEFINE chain == Chain(c, k % 2 = 0)
               n == Len(c.segs)
    <1>1. n \in Nat \ {0} /\ 1 \in 1 .. n /\ Length(c) \in Nat \ {0}
        BY CutFacts, ContourFacts
    <1>2. ~Back(c, k)
        <2> SUFFICES ASSUME Back(c, k) PROVE FALSE
            OBVIOUS
        <2>1. k # 1 /\ (k - 1) % 2 # 0
            BY DEF Back
        <2>2. Begins(c, k) = Length(c)
            BY <2>1 DEF Begins, Ends
        <2>3. chain = Reversed(c)
            BY DEF Back, Chain
        <2>4. chain[1].to < chain[1].from /\ chain[1].from = Length(c)
            <3>1. Traced(c, chain, Length(c), 0)
                BY <2>3, ReversedTraced
            <3> HIDE DEF chain
            <3>2. 1 \in 1 .. Len(chain) /\ ~(Length(c) < 0)
                BY <1>1, <3>1 DEF Traced
            <3> QED
                BY <3>1, <3>2 DEF Traced
        <2> QED
            BY <1>1, <2>2, <2>4
    <1>3. chain[1].to = Vertex(c, 1)
        <2>1. chain = Forward(c)
            BY <1>2 DEF Back, Chain
        <2> QED
            BY <1>1, <2>1 DEF Forward
    <1>4. 0 < Vertex(c, 1) /\ Vertex(c, 1) \in Nat
        <2>1. Vertex(c, 0) = 0 /\ 0 \in 0 .. n /\ 1 \in 0 .. n
            BY <1>1, VertexNext
        <2> QED
            BY <2>1, VertexType, VertexGrows
    <1>5. Begins(c, k) = Length(c) /\ Vertex(c, 1) = Length(c) /\ k # 1
        BY <1>3, <1>4 DEF Begins, Ends
    <1>6. n = 1
        <2> SUFFICES ASSUME n # 1 PROVE FALSE
            OBVIOUS
        <2>1. 1 \in 0 .. n /\ n \in 0 .. n /\ 1 < n
            <3> HIDE DEF n
            <3> QED
                BY <1>1
        <2>2. Vertex(c, 1) < Vertex(c, n)
            BY <2>1, VertexGrows
        <2> QED
            BY <1>1, <1>5, <2>2 DEF Length
    <1>7. ~ClosedPath(c)
        BY <1>6 DEF ClosedPath
    <1>8. (k - 1) % 2 = 0
        BY <1>2, <1>7 DEF Back
    <1>9. UsesTabs(c, Schedule(c)[k - 1])
        BY <1>1, <1>5, <1>7, <1>8 DEF Begins, Ends
    <1>10. TabsZ(c) \in Int
        BY PlanHeights
    <1> QED
        BY <1>5, <1>9, <1>10 DEF UsesTabs

\* The lead-in of a pass.
LEMMA FirstLeads ==
    ASSUME NEW c \in Cuts, NEW k \in Nat \ {0}, ~SinglePassMode(c), NEW Z, NEW bs
    PROVE  Leads(c, Fair(c),
                 IF k = 1 /\ StraightLead(c)
                 THEN <<G1(Chain(c, k % 2 = 0)[1].from, Keep)>> ELSE <<>>,
                 Stance(c, {Stand(c, k)}, Z, Cutting, bs),
                 Stance(c, {Begins(c, k)}, Z, Cutting, bs))
    <1> DEFINE start == Chain(c, k % 2 = 0)[1].from
    <1>1. CASE k = 1 /\ StraightLead(c)
        <2>1. ~Back(c, k)
            BY <1>1 DEF Back
        <2>2. start = 0
            BY <2>1, PassChain
        <2>3. Stand(c, k) = Hop /\ Begins(c, k) = 0
            BY <1>1 DEF Stand, Entry, Begins
        <2>4. Leads(c, Fair(c), <<G1(0, Keep)>>,
                    Stance(c, {Hop}, Z, Cutting, bs), Stance(c, {0}, Z, Cutting, bs))
            BY LeadInStep
        <2> QED
            BY <1>1, <2>2, <2>3, <2>4
    <1>2. CASE ~(k = 1 /\ StraightLead(c))
        <2>1. Stand(c, k) = Begins(c, k)
            BY <1>2 DEF Stand, Entry, Begins
        <2>2. Leads(c, Fair(c), <<>>, Stance(c, {Stand(c, k)}, Z, Cutting, bs),
                    Stance(c, {Stand(c, k)}, Z, Cutting, bs))
            BY LeadsNone
        <2> QED
            BY <1>2, <2>1, <2>2
    <1> QED
        BY <1>1, <1>2

\* The one pass of a plotter, a drag knife or a torch.
LEMMA SinglePassLeads ==
    ASSUME NEW c \in Cuts, Clear(c), SinglePassMode(c)
    PROVE  Leads(c, Fair(c), PassCommands(c, 1), Before(c, 1), Walked(c, 1))
    <1> DEFINE down == IF c.mode = "Plasma" THEN <<>> ELSE <<F("rate_v"), G1(Keep, SingleZ(c))>>
               N == Fair(c)
               h == SingleZ(c)
               S1 == Stance(c, {Stand(c, 1)}, {h}, Feeds, Lit(c))
               S2 == Stance(c, {Stand(c, 1)}, {h}, Cutting, Lit(c))
               S3 == Stance(c, {0}, {h}, Cutting, Lit(c))
               S4 == Stance(c, {Length(c)}, {h}, Cutting, Lit(c))
               D == Swath(c, 1)
    <1>1. PassCommands(c, 1) = ((down \o <<F("rate_h")>>) \o LeadInCut(c)) \o Walk(c, Forward(c))
        BY DEF PassCommands
    <1>2. h \in Heights(c)
        BY StartIsHeight
    <1>3. Leads(c, N, down, Before(c, 1), S1)
        <2>1. CASE c.mode = "Plasma"
            <3>1. Level(c, 1) = h /\ down = <<>>
                BY <2>1 DEF Level, SingleZ
            <3>2. Cutting \subseteq Feeds
                BY DEF Cutting, Feeds
            <3>3. Stance(c, {Stand(c, 1)}, {h}, Cutting, Lit(c))
                    \subseteq Stance(c, {Stand(c, 1)}, {h}, Feeds, Lit(c))
                BY <3>2, StanceGrows
            <3>4. Before(c, 1) \subseteq S1
                BY <3>1, <3>3 DEF Before
            <3> QED
                BY <3>1, <3>4, LeadsNone
        <2>2. CASE c.mode # "Plasma"
            <3>1. down = <<F("rate_v"), G1(Keep, h)>>
                BY <2>2
            <3> HIDE DEF h
            <3>2. Leads(c, N, <<F("rate_v"), G1(Keep, h)>>, Before(c, 1), S1)
                BY <1>2, DownLeads DEF Before
            <3> QED
                BY <3>1, <3>2
        <2> QED
            BY <2>1, <2>2
    <1>4. Leads(c, N, <<F("rate_h")>>, S1, S2)
        BY RateH
    <1>5. Leads(c, N, LeadInCut(c), S2, S3)
        <2>1. CASE StraightLead(c)
            <3>1. Stand(c, 1) = Hop /\ LeadInCut(c) = <<G1(0, Keep)>>
                BY <2>1 DEF Stand, Entry, LeadInCut
            <3>2. Leads(c, N, <<G1(0, Keep)>>, Stance(c, {Hop}, {h}, Cutting, Lit(c)), S3)
                BY LeadInStep
            <3> QED
                BY <3>1, <3>2
        <2>2. CASE ~StraightLead(c)
            <3>1. Stand(c, 1) = 0 /\ LeadInCut(c) = <<>>
                BY <2>2 DEF Stand, Entry, LeadInCut
            <3> QED
                BY <3>1, LeadsNone
        <2> QED
            BY <2>1, <2>2
    <1>6. Leads(c, N, Walk(c, Forward(c)), S3, Cleared(S4, D, h))
        <2>1. Traced(c, Forward(c), 0, Length(c)) /\ 1 \in 1 .. Len(c.segs) /\ 1 - 1 = 0
            BY ForwardTraced, CutFacts
        <2>2. Forward(c)[1].from = Vertex(c, 0) /\ Forward(c)[1].to = Vertex(c, 1)
            BY <2>1 DEF Forward
        <2>3. Vertex(c, 0) = 0 /\ Vertex(c, 1) \in Nat
            BY <2>1, VertexNext, VertexType, CutFacts
        <2>4. 0 \in Vertex(c, 1 - 1) .. Vertex(c, 1) /\ Vertex(c, 1) \in Vertex(c, 1 - 1) .. Vertex(c, 1)
            BY <2>1, <2>3
        <2>5. \A p \in {0} : Joins(c, p, 1)
            BY <2>1, <2>4, JoinsInside
        <2>6. Enters(c, {0}, Forward(c))
            BY <2>1, <2>2, <2>3, <2>4, <2>5 DEF Enters
        <2>7. \A q : Here(c, 0, q) = 0
            BY DEF Here
        <2>8. D \subseteq Units(c) /\ \A u \in D : (0 < u /\ u <= Length(c)) \/ (Length(c) < u /\ u <= 0)
            BY FlatsAre
        <2>9. 0 \in Int /\ Length(c) \in Int
            BY ContourFacts
        <2> HIDE DEF D, h
        <2> QED
            BY <1>2, <2>1, <2>6, <2>7, <2>8, <2>9, WalkClears
    <1>7. Walked(c, 1) = Cleared(S4, D, h)
        <2>1. Before(c, 1 + 1) = S4 /\ Level(c, 1 + 1) = h
            BY DEF Before, Stand, Ends, Level
        <2> HIDE DEF S4, D, h
        <2> QED
            BY <2>1 DEF Walked, D
    <1> HIDE DEF down, N, S1, S2, S3, S4, D, h
    <1>8. Leads(c, N, down \o <<F("rate_h")>>, Before(c, 1), S2)
        BY <1>3, <1>4, LeadsConcat
    <1>9. Leads(c, N, (down \o <<F("rate_h")>>) \o LeadInCut(c), Before(c, 1), S3)
        BY <1>5, <1>8, LeadsConcat
    <1>10. Leads(c, N, ((down \o <<F("rate_h")>>) \o LeadInCut(c)) \o Walk(c, Forward(c)),
                 Before(c, 1), Cleared(S4, D, h))
        BY <1>6, <1>9, LeadsConcat
    <1> QED
        BY <1>1, <1>7, <1>10 DEF N

\* The heights of a pass.
LEMMA PassHeights ==
    ASSUME NEW c \in Cuts, Clear(c), ~SinglePassMode(c), NEW k \in 1 .. Passes(c)
    PROVE  /\ Schedule(c)[k] \in Heights(c)
           /\ Level(c, k) \in Heights(c)
           /\ Level(c, k) = (IF k = 1 THEN c.start ELSE Schedule(c)[k - 1])
           /\ Level(c, k + 1) = Schedule(c)[k]
           /\ k \in Nat \ {0}
    <1>1. Schedule(c) \in Seq(Heights(c)) /\ Passes(c) = Len(Schedule(c)) /\ Passes(c) \in Nat
        BY ScheduleIs DEF Passes
    <1>2. \A i \in 1 .. Passes(c) : Schedule(c)[i] \in Heights(c)
        BY <1>1
    <1>3. k \in Nat \ {0} /\ (k # 1 => k - 1 \in 1 .. Passes(c)) /\ k + 1 # 1 /\ (k + 1) - 1 = k
        BY <1>1
    <1>4. c.mode # "Plasma"
        BY DEF SinglePassMode
    <1>5. Level(c, k) = (IF k = 1 THEN c.start ELSE Schedule(c)[k - 1])
        BY <1>4 DEF Level
    <1>6. Level(c, k + 1) = Schedule(c)[k]
        BY <1>3 DEF Level
    <1> QED
        BY <1>2, <1>3, <1>5, <1>6, StartIsHeight

\* A lap of the spiral down the whole path.
LEMMA SpiralPassLeads ==
    ASSUME NEW c \in Cuts, Clear(c), ~SinglePassMode(c), NEW k \in 1 .. Passes(c),
           ClosedPath(c), k > 1
    PROVE  Leads(c, Fair(c), <<F("rate_h")>> \o HelixWalk(c, Level(c, k), Schedule(c)[k]),
                 Before(c, k), Before(c, k + 1))
    <1> DEFINE N == Fair(c)
               fromZ == Level(c, k)
               depth == Schedule(c)[k]
               S == Stance(c, {Length(c)}, {fromZ}, Cutting, Lit(c))
               T == Stance(c, {Length(c)}, {depth}, Cutting, Lit(c))
    <1>1. /\ fromZ \in Heights(c) /\ depth \in Heights(c) /\ Level(c, k + 1) = depth
          /\ k \in Nat \ {0}
        BY PassHeights
    <1>2. Ends(c, k) = Length(c) /\ Ends(c, k - 1) = Length(c)
        BY DEF Ends
    <1>3. Stand(c, k) = Length(c) /\ Stand(c, k + 1) = Length(c)
        BY <1>1, <1>2 DEF Stand
    <1> HIDE DEF fromZ, depth
    <1>4. Leads(c, N, <<F("rate_h")>>, S, S)
        BY RateH
    <1>5. Leads(c, N, HelixWalk(c, fromZ, depth), S, T)
        BY <1>1, HelixWalkLeads
    <1>6. Before(c, k) = S /\ Before(c, k + 1) = T
        BY <1>1, <1>3 DEF Before, fromZ
    <1> HIDE DEF N, S, T
    <1>7. Leads(c, N, <<F("rate_h")>> \o HelixWalk(c, fromZ, depth), S, T)
        BY <1>4, <1>5, LeadsConcat
    <1> QED
        BY <1>6, <1>7 DEF N, fromZ, depth

\* A pass entered by a helix beside the start.
LEMMA EntryPassLeads ==
    ASSUME NEW c \in Cuts, Clear(c), ~SinglePassMode(c), NEW k \in 1 .. Passes(c),
           HelixFits(c), ~UsesTabs(c, Schedule(c)[k])
    PROVE  Leads(c, Fair(c),
                 <<F("rate_h")>> \o HelixEntry(c, Level(c, k), Schedule(c)[k])
                 \o <<G0(Keep, FastZ), G0(0, FastZ)>>
                 \o <<F("rate_v"), G1(Keep, Schedule(c)[k]), F("rate_h")>> \o Walk(c, Forward(c)),
                 Before(c, k), Walked(c, k))
    <1> DEFINE N == Fair(c)
               bs == Lit(c)
               fromZ == Level(c, k)
               depth == Schedule(c)[k]
               u == <<F("rate_h")>>
               entry == HelixEntry(c, fromZ, depth)
               hop == <<G0(Keep, FastZ), G0(0, FastZ)>>
               plunge == <<F("rate_v"), G1(Keep, depth), F("rate_h")>>
               walk == Walk(c, Forward(c))
               S0 == Stance(c, {Stand(c, k)}, {fromZ}, Cutting, bs)
               S1 == Stance(c, Off(c), Heights(c), Cutting, bs)
               S2 == Stance(c, Off(c), {FastZ}, Cutting, bs)
               S3 == Stance(c, {0}, {FastZ}, Cutting, bs)
               S4 == Stance(c, {0}, {depth}, Cutting, bs)
               S5 == Stance(c, {Length(c)}, {depth}, Cutting, bs)
               D == Swath(c, k)
    <1>1. /\ fromZ \in Heights(c) /\ depth \in Heights(c) /\ Level(c, k + 1) = depth
          /\ k \in Nat \ {0}
        BY PassHeights
    <1>2. FastZ \in Heights(c) /\ 0 \in Spots(c)
        BY StartIsHeight, SetupFacts
    <1>3. ClosedPath(c)
        BY DEF HelixFits
    <1>4. Stand(c, k + 1) = Length(c)
        BY <1>1, <1>3 DEF Stand, Ends
    <1>5. /\ \A p \in Off(c) : p = Away \/ (HelixFits(c) /\ 0 = 0)
          /\ \A p \in Off(c), b \in bs : (b = "lit") <=> (p # Away /\ c.mode = "Laser")
        BY DEF SinglePassMode, Lit, Off
    <1>6. Before(c, k) = S0 /\ Walked(c, k) = Cleared(S5, D, depth)
        <2>1. Before(c, k) = S0 /\ Before(c, k + 1) = S5
            BY <1>1, <1>4 DEF Before
        <2> HIDE DEF S0, S5, depth
        <2> QED
            BY <1>1, <2>1 DEF Walked
    <1> HIDE DEF fromZ, depth, bs, D
    <1>7. Leads(c, N, u, S0, S0)
        BY RateH
    <1>8. Leads(c, N, entry, S0, S1)
        <2>1. Stand(c, k) # Away
            BY ContourFacts DEF Stand, Ends, Entry, Hop, Away
        <2> QED
            BY <1>1, <2>1, HelixEntryLeads
    <1>9. Leads(c, N, hop, S1, S3)
        <2>1. Leads(c, N, <<G0(Keep, FastZ)>>, S1, S2)
            BY <1>2, LiftStep
        <2>2. Leads(c, N, <<G0(0, FastZ)>>, S2, S3)
            <3> HIDE DEF N
            <3> QED
                BY <1>2, <1>5, CrossStep DEF N
        <2> HIDE DEF N, S1, S2, S3
        <2> QED
            BY <2>1, <2>2, LeadsTwo
    <1>10. Leads(c, N, plunge, S3, S4)
        BY <1>1, PlungeLeads
    <1>11. Leads(c, N, walk, S4, Cleared(S5, D, depth))
        <2>1. Traced(c, Forward(c), 0, Length(c)) /\ 1 \in 1 .. Len(c.segs) /\ 1 - 1 = 0
            BY ForwardTraced, CutFacts
        <2>2. Forward(c)[1].from = Vertex(c, 0) /\ Forward(c)[1].to = Vertex(c, 1)
            BY <2>1 DEF Forward
        <2>3. Vertex(c, 0) = 0 /\ Vertex(c, 1) \in Nat
            BY <2>1, VertexNext, VertexType, CutFacts
        <2>4. 0 \in Vertex(c, 1 - 1) .. Vertex(c, 1) /\ Vertex(c, 1) \in Vertex(c, 1 - 1) .. Vertex(c, 1)
            BY <2>1, <2>3
        <2>5. \A p \in {0} : Joins(c, p, 1)
            BY <2>1, <2>4, JoinsInside
        <2>6. Enters(c, {0}, Forward(c))
            BY <2>1, <2>2, <2>3, <2>4, <2>5 DEF Enters
        <2>7. \A q : Here(c, 0, q) = 0
            BY DEF Here
        <2>8. D \subseteq Units(c) /\ \A x \in D : (0 < x /\ x <= Length(c)) \/ (Length(c) < x /\ x <= 0)
            BY FlatsAre DEF D
        <2>9. 0 \in Int /\ Length(c) \in Int
            BY ContourFacts
        <2> QED
            BY <1>1, <2>1, <2>6, <2>7, <2>8, <2>9, WalkClears
    <1> HIDE DEF N, S0, S1, S2, S3, S4, S5, u, entry, hop, plunge, walk
    <1>12. Leads(c, N, u \o entry, S0, S1)
        BY <1>7, <1>8, LeadsConcat
    <1>13. Leads(c, N, (u \o entry) \o hop, S0, S3)
        BY <1>9, <1>12, LeadsConcat
    <1>14. Leads(c, N, ((u \o entry) \o hop) \o plunge, S0, S4)
        BY <1>10, <1>13, LeadsConcat
    <1>15. Leads(c, N, (((u \o entry) \o hop) \o plunge) \o walk, S0, Cleared(S5, D, depth))
        BY <1>11, <1>14, LeadsConcat
    <1> QED
        BY <1>6, <1>15 DEF N, u, entry, hop, plunge, walk, depth, fromZ

\* A pass entered by a ramp along the contour.
LEMMA RampPassLeads ==
    ASSUME NEW c \in Cuts, Clear(c), ~SinglePassMode(c), NEW k \in 1 .. Passes(c),
           ~UsesTabs(c, Schedule(c)[k]), NEW run \in Nat \ {0}, run <= Length(c)
    PROVE  Leads(c, Fair(c),
                 <<F("rate_h")>>
                 \o (IF k = 1 /\ StraightLead(c)
                     THEN <<G1(Chain(c, k % 2 = 0)[1].from, Keep)>> ELSE <<>>)
                 \o RampWalk(Chain(c, k % 2 = 0), Level(c, k), Schedule(c)[k], run),
                 Before(c, k), Before(c, k + 1))
    <1> DEFINE N == Fair(c)
               bs == Lit(c)
               chain == Chain(c, k % 2 = 0)
               fromZ == Level(c, k)
               depth == Schedule(c)[k]
               u == <<F("rate_h")>>
               first == IF k = 1 /\ StraightLead(c)
                        THEN <<G1(Chain(c, k % 2 = 0)[1].from, Keep)>> ELSE <<>>
               ramp == RampWalk(chain, fromZ, depth, run)
               a == IF Back(c, k) THEN Length(c) ELSE 0
               b == IF Back(c, k) THEN 0 ELSE Length(c)
               S0 == Stance(c, {Stand(c, k)}, {fromZ}, Cutting, bs)
               S1 == Stance(c, {Begins(c, k)}, {fromZ}, Cutting, bs)
               S2 == Stance(c, {b}, {depth}, Cutting, bs)
    <1>1. /\ fromZ \in Heights(c) /\ depth \in Heights(c) /\ Level(c, k + 1) = depth
          /\ k \in Nat \ {0}
          /\ k > 1 => fromZ = Schedule(c)[k - 1]
          /\ fromZ \in Int /\ depth \in Int
        BY PassHeights, WordFacts
    <1>2. /\ Traced(c, chain, a, b) /\ Enters(c, {Begins(c, k)}, chain)
          /\ Begins(c, k) \in {0, Length(c)} /\ Ends(c, k) = b
          /\ a \in {0, Length(c)} /\ b \in {0, Length(c)}
        <2>1. a \in {0, Length(c)} /\ b \in {0, Length(c)}
            OBVIOUS
        <2>2. /\ Traced(c, chain, a, b) /\ Enters(c, {Begins(c, k)}, chain)
              /\ Begins(c, k) \in {0, Length(c)}
              /\ ~UsesTabs(c, depth) => Ends(c, k) = b
            BY <1>1, PassChain
        <2> QED
            BY <2>1, <2>2
    <1>3. Stand(c, k + 1) = b
        BY <1>1, <1>2 DEF Stand
    <1>4. chain[1].to \in {Begins(c, k)} => fromZ <= depth
        BY <1>1, NoRampOnTheSpot
    <1>5. Before(c, k) = S0 /\ Before(c, k + 1) = S2
        BY <1>1, <1>3 DEF Before
    <1> HIDE DEF fromZ, depth, bs, a, b
    <1>6. Leads(c, N, u, S0, S0)
        BY RateH
    <1>7. Leads(c, N, first, S0, S1)
        BY <1>1, FirstLeads
    <1> HIDE DEF chain
    <1>8. Leads(c, N, ramp, S1, S2)
        <2>1. {Begins(c, k)} \subseteq {0, Length(c)}
            BY <1>2
        <2> QED
            BY <1>1, <1>2, <1>4, <2>1, RampWalkLeads
    <1> HIDE DEF N, S0, S1, S2, u, first, ramp
    <1>9. Leads(c, N, u \o first, S0, S1)
        BY <1>6, <1>7, LeadsConcat
    <1>10. Leads(c, N, (u \o first) \o ramp, S0, S2)
        BY <1>8, <1>9, LeadsConcat
    <1> QED
        BY <1>5, <1>10 DEF N, u, first, ramp, chain, depth, fromZ

\* A pass that plunges.
LEMMA PlungePassLeads ==
    ASSUME NEW c \in Cuts, Clear(c), ~SinglePassMode(c), NEW k \in 1 .. Passes(c)
    PROVE  Leads(c, Fair(c),
                 <<F("rate_v"), G1(Keep, Schedule(c)[k]), F("rate_h")>>
                 \o (IF k = 1 /\ StraightLead(c)
                     THEN <<G1(Chain(c, k % 2 = 0)[1].from, Keep)>> ELSE <<>>)
                 \o (IF UsesTabs(c, Schedule(c)[k]) THEN TabWalk(c, Schedule(c)[k])
                                                     ELSE Walk(c, Chain(c, k % 2 = 0))),
                 Before(c, k), Walked(c, k))
    <1> DEFINE N == Fair(c)
               bs == Lit(c)
               chain == Chain(c, k % 2 = 0)
               fromZ == Level(c, k)
               depth == Schedule(c)[k]
               plunge == <<F("rate_v"), G1(Keep, depth), F("rate_h")>>
               first == IF k = 1 /\ StraightLead(c)
                        THEN <<G1(Chain(c, k % 2 = 0)[1].from, Keep)>> ELSE <<>>
               walk == IF UsesTabs(c, depth) THEN TabWalk(c, depth) ELSE Walk(c, chain)
               a == IF Back(c, k) THEN Length(c) ELSE 0
               b == IF Back(c, k) THEN 0 ELSE Length(c)
               S0 == Stance(c, {Stand(c, k)}, {fromZ}, Cutting, bs)
               S1 == Stance(c, {Stand(c, k)}, {depth}, Cutting, bs)
               S2 == Stance(c, {Begins(c, k)}, {depth}, Cutting, bs)
               S3 == Stance(c, {Ends(c, k)}, {depth}, Cutting, bs)
               D == Swath(c, k)
    <1>1. /\ fromZ \in Heights(c) /\ depth \in Heights(c) /\ Level(c, k + 1) = depth
          /\ k \in Nat \ {0}
        BY PassHeights
    <1>2. /\ Traced(c, chain, a, b) /\ Enters(c, {Begins(c, k)}, chain)
          /\ ~Back(c, k) => Joins(c, Begins(c, k), 1)
          /\ ~UsesTabs(c, depth) => Ends(c, k) = b
        BY <1>1, PassChain
    <1>3. Stand(c, k + 1) = Ends(c, k)
        BY <1>1 DEF Stand
    <1>4. Before(c, k) = S0 /\ Walked(c, k) = Cleared(S3, D, depth)
        <2>1. Before(c, k) = S0 /\ Before(c, k + 1) = S3
            BY <1>1, <1>3 DEF Before
        <2> HIDE DEF S0, S3, depth
        <2> QED
            BY <1>1, <2>1 DEF Walked
    <1>10. D \subseteq Units(c) /\ D \subseteq Bare(c) /\ (D # {} => ClosedPath(c) \/ ~c.tabsActive)
        BY FlatsAre DEF Settled
    <1>11. D # {} =>
            /\ ~Back(c, k) => \A q \in 1 .. Vertex(c, 1) : Here(c, Begins(c, k), q) = 0
            /\ Here(c, Begins(c, k), chain[1].to) = a
        <2> HIDE DEF D
        <2> QED
            BY <1>1, <1>10, PassHere
    <1>12. a \in Int /\ b \in Int /\ \A u \in D : (a < u /\ u <= b) \/ (b < u /\ u <= a)
        <2>1. (a = 0 /\ b = Length(c)) \/ (b = 0 /\ a = Length(c))
            OBVIOUS
        <2>2. Length(c) \in Int
            BY ContourFacts
        <2> HIDE DEF D, a, b
        <2> QED
            BY <1>10, <2>1, <2>2, FlatsAre
    <1> HIDE DEF fromZ, bs, a, b, D
    <1>5. Leads(c, N, plunge, S0, S1)
        <2> HIDE DEF depth
        <2> QED
            BY <1>1, PlungeLeads
    <1>6. Leads(c, N, first, S1, S2)
        <2> HIDE DEF depth
        <2> QED
            BY <1>1, FirstLeads
    <1> HIDE DEF chain
    <1>7. Leads(c, N, walk, S2, Cleared(S3, D, depth))
        <2>1. CASE UsesTabs(c, depth)
            <3>1. Ends(c, k) = Length(c) /\ walk = TabWalk(c, depth)
                BY <2>1 DEF Ends
            <3>2. \A p \in {Begins(c, k)} : Joins(c, p, 1)
                <4>1. CASE Back(c, k)
                    <5>1. k # 1 /\ (k - 1) % 2 # 0
                        BY <1>1, <4>1 DEF Back
                    <5>2. Begins(c, k) = Length(c)
                        BY <5>1 DEF Begins, Ends
                    <5>3. c.tabsActive
                        BY <2>1 DEF UsesTabs
                    <5> QED
                        BY <5>2, <5>3, JoinsFromEnd
                <4>2. CASE ~Back(c, k)
                    BY <1>2, <4>2
                <4> QED
                    BY <4>1, <4>2
            <3>4. ASSUME D # {}
                  PROVE  \A p \in {Begins(c, k)} : \A q \in 1 .. Vertex(c, 1) : Here(c, p, q) = 0
                <4>1. ClosedPath(c)
                    BY <1>10, <2>1, <3>4 DEF UsesTabs
                <4>2. ~Back(c, k)
                    BY <4>1 DEF Back
                <4> QED
                    BY <1>11, <3>4, <4>2
            <3> HIDE DEF depth, walk
            <3>3. Leads(c, N, TabWalk(c, depth), S2,
                        Cleared(Stance(c, {Length(c)}, {depth}, Cutting, bs), D, depth))
                BY <1>1, <1>10, <2>1, <3>2, <3>4, TabWalkLeads
            <3> QED
                BY <3>1, <3>3
        <2>2. CASE ~UsesTabs(c, depth)
            <3>1. Ends(c, k) = b /\ walk = Walk(c, chain)
                BY <1>2, <2>2
            <3> HIDE DEF depth, walk
            <3>2. Leads(c, N, Walk(c, chain), S2,
                        Cleared(Stance(c, {b}, {depth}, Cutting, bs), D, depth))
                <4>1. D # {} => \A p \in {Begins(c, k)} : Here(c, p, chain[1].to) = a
                    BY <1>11
                <4> QED
                    BY <1>1, <1>2, <1>10, <1>12, <4>1, WalkClears
            <3> QED
                BY <3>1, <3>2
        <2> QED
            BY <2>1, <2>2
    <1> HIDE DEF N, S0, S1, S2, S3, plunge, first, walk, depth
    <1>8. Leads(c, N, plunge \o first, S0, S2)
        BY <1>5, <1>6, LeadsConcat
    <1>9. Leads(c, N, (plunge \o first) \o walk, S0, Cleared(S3, D, depth))
        BY <1>7, <1>8, LeadsConcat
    <1> QED
        BY <1>4, <1>9 DEF N, plunge, first, walk, chain, depth

\* A pass takes the tool to where the next one expects it.
LEMMA PassLeads ==
    ASSUME NEW c \in Cuts, Clear(c), NEW k \in 1 .. Passes(c)
    PROVE  Leads(c, Fair(c), PassCommands(c, k), Before(c, k), Walked(c, k))
    <1>1. CASE SinglePassMode(c)
        <2>1. k = 1
            BY <1>1 DEF Passes
        <2> QED
            BY <1>1, <2>1, SinglePassLeads
    <1>2. CASE ~SinglePassMode(c)
        <2> DEFINE depth == Schedule(c)[k]
                   fromZ == IF k = 1 THEN c.start ELSE Schedule(c)[k - 1]
                   chain == Chain(c, k % 2 = 0)
                   tabs == UsesTabs(c, depth)
                   run == Abs(fromZ - depth) * c.cot
                   first == IF k = 1 /\ StraightLead(c)
                            THEN <<G1(chain[1].from, Keep)>> ELSE <<>>
                   plunge == <<F("rate_v"), G1(Keep, depth), F("rate_h")>>
                   spiral == <<F("rate_h")>> \o HelixWalk(c, fromZ, depth)
                   entry == <<F("rate_h")>> \o HelixEntry(c, fromZ, depth)
                            \o <<G0(Keep, FastZ), G0(0, FastZ)>> \o plunge \o Walk(c, Forward(c))
                   ramp == <<F("rate_h")>> \o first \o RampWalk(chain, fromZ, depth, run)
                   plain == plunge \o first
                            \o (IF tabs THEN TabWalk(c, depth) ELSE Walk(c, chain))
                   L(q) == Leads(c, Fair(c), q, Before(c, k), Walked(c, k))
        <2>1. /\ fromZ \in Heights(c) /\ depth \in Heights(c) /\ Level(c, k) = fromZ
            BY <1>2, PassHeights
        <2>2. PassCommands(c, k) =
                IF c.helixMode /\ ClosedPath(c) /\ k > 1 THEN spiral
                ELSE IF HelixFits(c) /\ ~tabs THEN entry
                ELSE IF Ramps(c) /\ ~tabs /\ run > 0 /\ run <= Length(c) THEN ramp
                ELSE plain
            BY <1>2 DEF PassCommands
        <2>8. Swath(c, k) = {} => Before(c, k + 1) \subseteq Walked(c, k)
            BY ClearedFacts DEF Walked
        <2>9. /\ Passes(c) \in Nat /\ Passes(c) = Len(Schedule(c)) /\ k <= Passes(c)
              /\ k = Passes(c) => Schedule(c) # <<>> /\ FinalZ(c) = depth
            <3>1. Passes(c) \in Nat /\ Passes(c) = Len(Schedule(c)) /\ Schedule(c) \in Seq(Int)
                BY <1>2, ScheduleIs DEF Passes
            <3>2. k = Passes(c) => Schedule(c) # <<>>
                BY <3>1
            <3>3. k = Passes(c) => FinalZ(c) = depth
                BY <1>2, <3>1 DEF FinalZ, Last
            <3> QED
                BY <3>1, <3>2, <3>3
        <2>3. c.helixMode /\ ClosedPath(c) /\ k > 1 => L(spiral)
            <3> SUFFICES ASSUME c.helixMode, ClosedPath(c), k > 1 PROVE L(spiral)
                OBVIOUS
            <3>1. Swath(c, k) = {}
                BY <2>9, FlatsAre DEF Settled
            <3>2. Leads(c, Fair(c), spiral, Before(c, k), Before(c, k + 1))
                BY <1>2, <2>1, SpiralPassLeads
            <3> HIDE DEF spiral
            <3>3. Before(c, k) \subseteq Before(c, k)
                OBVIOUS
            <3> QED
                BY <2>8, <3>1, <3>2, <3>3, LeadsWeaken
        <2>4. HelixFits(c) /\ ~tabs => L(entry)
            BY <1>2, <2>1, EntryPassLeads
        <2>5. Ramps(c) /\ ~tabs /\ run > 0 /\ run <= Length(c) => L(ramp)
            <3> SUFFICES ASSUME Ramps(c), ~tabs, run > 0, run <= Length(c) PROVE L(ramp)
                OBVIOUS
            <3>4. Swath(c, k) = {}
                <4> SUFFICES ASSUME Swath(c, k) # {} PROVE FALSE
                    OBVIOUS
                <4>1. k = Passes(c) /\ ~NeedsCleanup(c) /\ Settled(c)
                    BY FlatsAre
                <4>2. c.tabsActive
                    BY <1>2, <2>9, <4>1 DEF NeedsCleanup
                <4>3. UsesTabs(c, depth)
                    BY <2>9, <4>1, <4>2 DEF Settled
                <4> QED
                    BY <4>3
            <3>1. run \in Nat
                <4>1. fromZ \in Int /\ depth \in Int /\ c.cot \in Nat
                    BY <2>1, WordFacts, SetupFacts
                <4> HIDE DEF fromZ, depth
                <4>2. Abs(fromZ - depth) \in Nat
                    BY <4>1 DEF Abs
                <4> QED
                    BY <4>1, <4>2
            <3> HIDE DEF run
            <3>2. run \in Nat \ {0}
                BY <3>1
            <3>3. \A r \in Nat \ {0} : r <= Length(c) =>
                    Leads(c, Fair(c),
                          <<F("rate_h")>> \o first \o RampWalk(chain, Level(c, k), depth, r),
                          Before(c, k), Before(c, k + 1))
                BY <1>2, RampPassLeads
            <3>5. Leads(c, Fair(c), ramp, Before(c, k), Before(c, k + 1))
                BY <2>1, <3>2, <3>3
            <3> HIDE DEF ramp
            <3>6. Before(c, k) \subseteq Before(c, k)
                OBVIOUS
            <3> QED
                BY <2>8, <3>4, <3>5, <3>6, LeadsWeaken
        <2>6. L(plain)
            BY <1>2, PlungePassLeads
        <2> HIDE DEF spiral, entry, ramp, plain, tabs, run, L
        <2>7. L(PassCommands(c, k))
            BY <2>2, <2>3, <2>4, <2>5, <2>6
        <2> QED
            BY <2>7 DEF L
    <1> QED
        BY <1>1, <1>2

-----------------------------------------------------------------------------
(* The end of the offset *)

LEMMA MayLeave ==
    ASSUME NEW c \in Cuts, NEW p \in {0, Length(c)}, NEW Z, Z \subseteq Heights(c),
           p = 0 /\ ~c.closed => Walks(c) % 2 # 1
    PROVE  Stance(c, {p}, Z, Cutting, Lit(c)) \subseteq Leaving(c)
    <1>1. ASSUME NEW q \in {HopOff, RollOff} PROVE Reaches(c, p, q)
        <2>1. ~(q >= 0)
            BY DEF HopOff, RollOff
        <2>2. c.closed \/ Walks(c) % 2 = 1 => p = Length(c) \/ (c.closed /\ p = 0)
            OBVIOUS
        <2> QED
            BY <2>1, <2>2 DEF Reaches, Follows
    <1>2. p \in Spots(c)
        BY SetupFacts
    <1>3. {p} \subseteq {x \in Spots(c) : Reaches(c, x, HopOff) /\ Reaches(c, x, RollOff)}
        BY <1>1, <1>2
    <1> QED
        BY <1>3, StanceGrows DEF Leaving

\* With no pass at all the lead-out leaves from where the lead-in ended.
LEMMA NoPassLeaves ==
    ASSUME NEW c \in Cuts, Clear(c), Passes(c) = 0
    PROVE  Before(c, 1) \subseteq Leaving(c)
    <1>1. \A p, q : Reaches(c, p, q)
        BY DEF Reaches
    <1>2. Stand(c, 1) \in Spots(c)
        BY SetupFacts DEF Stand, Entry
    <1>3. Level(c, 1) \in Heights(c)
        BY StartIsHeight DEF Level
    <1> DEFINE P == {p \in Spots(c) : Reaches(c, p, HopOff) /\ Reaches(c, p, RollOff)}
    <1>4. {Stand(c, 1)} \subseteq P /\ {Level(c, 1)} \subseteq Heights(c)
        BY <1>1, <1>2, <1>3
    <1>5. Stance(c, {Stand(c, 1)}, {Level(c, 1)}, Cutting, Lit(c))
            \subseteq Stance(c, P, Heights(c), Cutting, Lit(c))
        BY <1>4, StanceGrows
    <1> QED
        BY <1>5 DEF Before, Leaving

\* The height after the last pass.
LEMMA FinalLevel ==
    ASSUME NEW c \in Cuts, Clear(c)
    PROVE  /\ Level(c, Passes(c) + 1) \in Heights(c) /\ Level(c, Passes(c) + 1) \in Int
           /\ Passes(c) > 0 => Level(c, Passes(c) + 1) = FinalZ(c)
    <1>1. Passes(c) \in Nat
        BY ScheduleIs DEF Passes
    <1>2. CASE Passes(c) = 0
        <2>1. Level(c, 0 + 1) \in Heights(c)
            BY StartIsHeight DEF Level
        <2> QED
            BY <1>2, <2>1, WordFacts
    <1>3. CASE Passes(c) # 0 /\ SinglePassMode(c)
        <2>1. Passes(c) + 1 # 1
            BY <1>1, <1>3
        <2>2. Level(c, Passes(c) + 1) = SingleZ(c) /\ FinalZ(c) = SingleZ(c)
            BY <1>3, <2>1 DEF Level, FinalZ
        <2> QED
            BY <1>3, <2>2, StartIsHeight, WordFacts
    <1>4. CASE Passes(c) # 0 /\ ~SinglePassMode(c)
        <2>1. Passes(c) \in 1 .. Passes(c) /\ Passes(c) = Len(Schedule(c))
            BY <1>1, <1>4 DEF Passes
        <2>2. /\ Level(c, Passes(c) + 1) = Schedule(c)[Passes(c)]
              /\ Schedule(c)[Passes(c)] \in Heights(c)
            BY <1>4, <2>1, PassHeights
        <2>3. FinalZ(c) = Schedule(c)[Passes(c)]
            BY <1>4, <2>1 DEF FinalZ, Last
        <2> QED
            BY <2>2, <2>3, WordFacts
    <1> QED
        BY <1>2, <1>3, <1>4

LEMMA CleanupLeads ==
    ASSUME NEW c \in Cuts, Clear(c), Passes(c) > 0
    PROVE  Leads(c, Fair(c), Cleanup(c), Walked(c, Passes(c)), Flattened(c, Leaving(c)))
    <1> DEFINE n == Passes(c)
               N == Fair(c)
    <1>1. n \in Nat \ {0} /\ n \in 1 .. n /\ n + 1 # 1 /\ (n + 1) - 1 = n
        <2>1. Passes(c) \in Nat
            BY ScheduleIs DEF Passes
        <2> HIDE DEF n
        <2> QED
            BY <2>1 DEF n
    <1>2. Stand(c, n + 1) = Ends(c, n) /\ Ends(c, n) \in {0, Length(c)}
        BY <1>1 DEF Stand, Ends
    <1>3. Level(c, n + 1) \in Heights(c)
        BY FinalLevel
    <1> DEFINE h == Level(c, n + 1)
               Z == {h}
               D == Flats(c)
    <1>6. /\ h \in Int /\ D \subseteq Units(c)
          /\ \A S, T : S \subseteq T => Cleared(S, D, h) \subseteq Cleared(T, D, h)
          /\ Flattened(c, Leaving(c)) = Cleared(Leaving(c), D, h)
        BY <1>3, WordFacts, FlatsAre, ClearedFacts DEF Flattened
    <1>4. CASE ~NeedsCleanup(c)
        <2>1. Walks(c) = n
            BY <1>1, <1>4 DEF Walks
        <2>2. Ends(c, n) = 0 /\ ~c.closed => Walks(c) % 2 # 1
            <3>1. Length(c) # 0
                BY ContourFacts
            <3> HIDE DEF n
            <3> QED
                BY <1>1, <2>1, <3>1 DEF Ends
        <2>3. Before(c, n + 1) \subseteq Leaving(c)
            BY <1>2, <1>3, <2>2, MayLeave DEF Before
        <2>4. Cleanup(c) = <<>>
            BY <1>4 DEF Cleanup
        <2>6. Walked(c, n) = Cleared(Before(c, n + 1), D, h)
            BY <1>4 DEF Walked, Swath
        <2> HIDE DEF n, N, D, h
        <2>7. Walked(c, n) \subseteq Flattened(c, Leaving(c))
            BY <1>6, <2>3, <2>6
        <2>5. Leads(c, N, <<>>, Walked(c, n), Flattened(c, Leaving(c)))
            BY <2>7, LeadsNone
        <2> QED
            BY <2>4, <2>5 DEF n, N
    <1>5. CASE NeedsCleanup(c)
        <2> DEFINE k == n + 1
                   chain == Chain(c, k % 2 = 0)
                   a == IF Back(c, k) THEN Length(c) ELSE 0
                   b == IF Back(c, k) THEN 0 ELSE Length(c)
                   u == <<F("rate_h")>>
                   walk == Walk(c, chain)
                   S == Stance(c, {Ends(c, n)}, Z, Cutting, Lit(c))
                   T == Stance(c, {b}, Z, Cutting, Lit(c))
        <2>1. ~SinglePassMode(c) /\ n = Len(Schedule(c)) /\ Walks(c) = k
            BY <1>5 DEF NeedsCleanup, Passes, Walks
        <2>2. (n % 2 = 1) = (k % 2 = 0)
            <3> HIDE DEF n
            <3> QED
                BY <1>1
        <2>3. Cleanup(c) = u \o walk
            BY <1>5, <2>1, <2>2 DEF Cleanup
        <2>4. Begins(c, k) = Ends(c, n) /\ k \in Nat \ {0}
            <3> HIDE DEF n
            <3> QED
                BY <1>1 DEF Begins
        <2>5. Traced(c, chain, a, b) /\ Enters(c, {Ends(c, n)}, chain)
            <3> HIDE DEF k
            <3> QED
                BY <2>1, <2>4, PassChain
        <2>6. b \in {0, Length(c)} /\ (b = 0 /\ ~c.closed => Walks(c) % 2 # 1)
            <3>1. Length(c) # 0
                BY ContourFacts
            <3>2. b = 0 => k % 2 = 0
                BY <3>1 DEF Back
            <3> HIDE DEF k
            <3>3. k % 2 = 0 => Walks(c) % 2 # 1
                BY <2>1, <2>4
            <3> QED
                BY <3>2, <3>3
        <2>13. D # {} => \A p \in {Ends(c, n)} : Here(c, p, chain[1].to) = a
            <3> HIDE DEF n, D
            <3>1. D # {} => ClosedPath(c) \/ ~c.tabsActive
                BY FlatsAre DEF D, Settled
            <3> HIDE DEF k
            <3> QED
                BY <2>1, <2>4, <3>1, PassHere
        <2>14. a \in Int /\ b \in Int /\ \A x \in D : (a < x /\ x <= b) \/ (b < x /\ x <= a)
            <3>1. (a = 0 /\ b = Length(c)) \/ (b = 0 /\ a = Length(c))
                OBVIOUS
            <3>2. Length(c) \in Int
                BY ContourFacts
            <3> HIDE DEF D, a, b
            <3> QED
                BY <1>6, <3>1, <3>2, FlatsAre
        <2> HIDE DEF a, b, chain, k, D, h
        <2>7. T \subseteq Leaving(c)
            BY <1>3, <2>6, MayLeave DEF h
        <2>8. Leads(c, N, u, S, S)
            BY RateH
        <2>9. Leads(c, N, walk, S, Cleared(T, D, h))
            BY <1>3, <1>6, <2>5, <2>13, <2>14, WalkClears DEF h
        <2>10. Walked(c, n) \subseteq S
            <3>1. Before(c, n + 1) = S
                BY <1>2 DEF Before, h
            <3> QED
                BY <3>1, ClearedFacts DEF Walked
        <2> HIDE DEF N, S, T, u, walk, n
        <2>11. Leads(c, N, u \o walk, S, Cleared(T, D, h))
            BY <2>8, <2>9, LeadsConcat
        <2>15. Cleared(T, D, h) \subseteq Flattened(c, Leaving(c))
            BY <1>6, <2>7
        <2>12. Leads(c, N, u \o walk, Walked(c, n), Flattened(c, Leaving(c)))
            BY <2>10, <2>11, <2>15, LeadsWeaken
        <2> QED
            BY <2>3, <2>12 DEF N, n
    <1> QED
        BY <1>4, <1>5

LEMMA ExitLeads ==
    ASSUME NEW c \in Cuts, Clear(c)
    PROVE  Leads(c, Fair(c), Exit(c), Leaving(c), State(c))
    <1> DEFINE lead == LeadKind(c, c.leadOut)
               away == CASE lead = "straight" -> <<G1(HopOff, Keep)>>
                         [] lead = "arc" -> <<G1(RollOff, Keep)>>
                         [] OTHER -> <<>>
               dark == IF c.mode \in {"Laser", "Plasma"} THEN <<Beam("off")>> ELSE <<>>
               up == <<G0(Keep, FastZ)>>
               N == Fair(c)
               P == {p \in Spots(c) : Reaches(c, p, HopOff) /\ Reaches(c, p, RollOff)}
               S(bs) == Stance(c, Spots(c), Heights(c), Cutting, bs)
    <1>1. Exit(c) = (away \o dark) \o up
        BY DEF Exit
    <1>2. Leads(c, N, away, Leaving(c), S(Lit(c)))
        <2>1. ASSUME NEW q \in {HopOff, RollOff}
              PROVE  Leads(c, N, <<G1(q, Keep)>>, Leaving(c), S(Lit(c)))
            <3>1. q \in Spots(c) /\ \A p \in P : p # q => Reaches(c, p, q)
                BY SetupFacts
            <3>2. Leads(c, N, <<G1(q, Keep)>>, Stance(c, P, Heights(c), Cutting, Lit(c)),
                        Stance(c, {q}, Heights(c), Cutting, Lit(c)))
                BY <3>1, AlongStep
            <3>3. {q} \subseteq Spots(c)
                BY <3>1
            <3>4. Stance(c, {q}, Heights(c), Cutting, Lit(c)) \subseteq S(Lit(c))
                BY <3>3, StanceGrows
            <3>5. Leaving(c) = Stance(c, P, Heights(c), Cutting, Lit(c))
                BY DEF Leaving
            <3> HIDE DEF N, S, P
            <3> QED
                BY <3>2, <3>4, <3>5, LeadsWeaken
        <2>2. Leads(c, N, <<>>, Leaving(c), S(Lit(c)))
            <3>1. P \subseteq Spots(c)
                OBVIOUS
            <3>2. Stance(c, P, Heights(c), Cutting, Lit(c)) \subseteq S(Lit(c))
                BY <3>1, StanceGrows
            <3>3. Leaving(c) \subseteq S(Lit(c))
                BY <3>2 DEF Leaving
            <3> QED
                BY <3>3, LeadsNone
        <2>3. Leads(c, N, <<G1(HopOff, Keep)>>, Leaving(c), S(Lit(c)))
            BY <2>1
        <2>4. Leads(c, N, <<G1(RollOff, Keep)>>, Leaving(c), S(Lit(c)))
            BY <2>1
        <2> HIDE DEF N, S, lead
        <2> QED
            BY <2>2, <2>3, <2>4
    <1>3. Leads(c, N, dark, S(Lit(c)), S({"off"}))
        <2>1. CASE c.mode \in {"Laser", "Plasma"}
            <3>1. "off" \in Beams3
                BY DEF Beams3
            <3>2. \A x \in Beams3 : Leads(c, N, <<Beam(x)>>, S(Lit(c)), S({x}))
                BY BeamStep
            <3> QED
                BY <2>1, <3>1, <3>2
        <2>2. CASE c.mode \notin {"Laser", "Plasma"}
            <3>1. Lit(c) = {"off"} /\ dark = <<>>
                BY <2>2 DEF Lit
            <3> QED
                BY <3>1, LeadsNone
        <2> QED
            BY <2>1, <2>2
    <1>4. Leads(c, N, up, S({"off"}), State(c))
        <2> DEFINE T == Stance(c, Spots(c), {FastZ}, Cutting, {"off"})
        <2>1. FastZ \in Heights(c)
            BY StartIsHeight
        <2>2. Leads(c, N, up, S({"off"}), T)
            BY <2>1, LiftStep
        <2>3. T \subseteq State(c)
            BY DEF Stance
        <2> HIDE DEF N, S, T, up
        <2>4. S({"off"}) \subseteq S({"off"})
            OBVIOUS
        <2> QED
            BY <2>2, <2>3, <2>4, LeadsWeaken
    <1> HIDE DEF N, S, away, dark, up
    <1>5. Leads(c, N, away \o dark, Leaving(c), S({"off"}))
        BY <1>2, <1>3, LeadsConcat
    <1>6. Leads(c, N, (away \o dark) \o up, Leaving(c), State(c))
        BY <1>4, <1>5, LeadsConcat
    <1> QED
        BY <1>1, <1>6 DEF N

\* The lead-out and the retract leave the contour as it is, or lower.
LEMMA ExitFlattens ==
    ASSUME NEW c \in Cuts, Clear(c)
    PROVE  Leads(c, Fair(c), Exit(c), Flattened(c, Leaving(c)), Flattened(c, State(c)))
    <1>1. Level(c, Passes(c) + 1) \in Int
        BY FinalLevel
    <1>2. Flats(c) \subseteq Units(c)
        BY FlatsAre
    <1> QED
        BY <1>1, <1>2, ExitLeads, LeadsKeeps DEF Flattened

-----------------------------------------------------------------------------
(* The machine executes the commands *)

Now == [at |-> at, z |-> z, feed |-> feed, beam |-> beam, floor |-> floor]

\* Where the commands still to be executed take the machine.
Goal ==
    CASE phase = "pass" -> Before(cut, pass)
      [] phase = "cleanup" -> Walked(cut, Passes(cut))
      [] phase = "exit" -> Flattened(cut, Leaving(cut))
      [] OTHER -> Flattened(cut, State(cut))

\* The inductive invariant: from where the machine is, the commands left
\* are all fair steps, and they end where the next phase starts.
MotionInv ==
    /\ cut \in Cuts
    /\ phase \in {"approach", "pass", "cleanup", "exit", "done"}
    /\ Now \in State(cut)
    /\ phase = "approach" => pass = 0 /\ todo = <<>> /\ Now \in Waiting(cut)
    /\ phase = "pass" => pass \in 1 .. Passes(cut)
    /\ phase = "cleanup" => Passes(cut) > 0
    /\ pass \in 0 .. Max({1, Passes(cut)})
    /\ phase # "approach" => Leads(cut, Fair(cut), todo, {Now}, Goal)

LEMMA PassesAre ==
    ASSUME NEW c \in Cuts, Clear(c)
    PROVE  /\ Passes(c) \in Nat
           /\ \A k \in 0 .. Passes(c) : k \in 0 .. Max({1, Passes(c)})
           /\ 1 \in 0 .. Max({1, Passes(c)})
    <1>1. Passes(c) \in Nat
        BY ScheduleIs DEF Passes
    <1>2. /\ Max({1, Passes(c)}) \in Int /\ 1 <= Max({1, Passes(c)})
          /\ Passes(c) <= Max({1, Passes(c)})
        <2>1. 1 \in Int /\ Passes(c) \in Int
            BY <1>1
        <2>2. \A x \in Int : \A y \in Int :
                Max({x, y}) \in Int /\ x <= Max({x, y}) /\ y <= Max({x, y})
            BY OfTwo
        <2> QED
            BY <2>1, <2>2
    <1> QED
        BY <1>1, <1>2

\* The machine starts above the stock, away from it.
LEMMA MotionStarts ==
    ASSUME AllClear
    PROVE  Init => MotionInv
    <1> SUFFICES ASSUME Init PROVE MotionInv
        OBVIOUS
    <1>1. cut \in Cuts /\ Clear(cut)
        BY DEF Init, AllClear
    <1>2. /\ phase = "approach" /\ pass = 0 /\ todo = <<>> /\ at = Away /\ z = FastZ
          /\ feed = "none" /\ beam = "off"
          /\ floor = [u \in Units(cut) |-> <<cut.start, cut.start>>]
        BY DEF Init
    <1>3. floor \in Floors(cut)
        <2>1. cut.start \in Lowest(cut) .. cut.start
            BY <1>1, PlannedIs, ScheduledAre
        <2> QED
            BY <1>2, <2>1 DEF Floors
    <1>4. at \in Spots(cut) /\ z \in Heights(cut)
        BY <1>1, <1>2, SetupFacts, StartIsHeight
    <1>5. feed \in Feeds /\ beam \in Beams3
        BY <1>2 DEF Feeds, Beams3
    <1>6. Now \in State(cut)
        BY <1>3, <1>4, <1>5 DEF Now, State
    <1>7. Now.at = Away /\ Now.z = FastZ /\ Now.feed \in Feeds /\ Now.beam = "off"
        BY <1>2, <1>5 DEF Now
    <1>8. Now \in Waiting(cut)
        BY <1>6, <1>7 DEF Waiting, Stance
    <1>9. pass \in 0 .. Max({1, Passes(cut)})
        BY <1>1, <1>2, PassesAre
    <1> QED
        BY <1>1, <1>2, <1>6, <1>8, <1>9 DEF MotionInv

\* A phase writes commands that end where the next one starts.
LEMMA EmitKeepsInv ==
    ASSUME AllClear, MotionInv, EmitApproach \/ EmitPass \/ EmitCleanup \/ EmitExit
    PROVE  MotionInv'
    <1>1. cut \in Cuts /\ Clear(cut) /\ cut' = cut /\ todo = <<>>
        BY DEF MotionInv, AllClear, EmitApproach, EmitPass, EmitCleanup, EmitExit
    <1>2. Now' = Now /\ Now \in State(cut)
        BY DEF MotionInv, Now, machine, EmitApproach, EmitPass, EmitCleanup, EmitExit
    <1>3. Passes(cut) \in Nat
        BY <1>1, PassesAre
    <1>4. CASE EmitApproach
        <2>1. /\ phase = "approach" /\ todo' = Approach(cut) /\ pass' = 1
              /\ phase' = IF Passes(cut) = 0 THEN "exit" ELSE "pass"
            BY <1>4 DEF EmitApproach
        <2>2. Now \in Waiting(cut)
            BY <2>1 DEF MotionInv
        <2>3. Leads(cut, Fair(cut), todo', {Now}, Before(cut, 1))
            <3>1. Leads(cut, Fair(cut), Approach(cut), Waiting(cut), Before(cut, 1))
                BY <1>1, ApproachLeads
            <3>2. {Now} \subseteq Waiting(cut) /\ Before(cut, 1) \subseteq Before(cut, 1)
                BY <2>2
            <3>3. Leads(cut, Fair(cut), Approach(cut), {Now}, Before(cut, 1))
                BY <3>1, <3>2, LeadsWeaken
            <3> QED
                BY <2>1, <3>3
        <2>4. Leads(cut, Fair(cut), todo', {Now}, Goal')
            <3>1. CASE Passes(cut) = 0
                <4>1. Goal' = Leaving(cut)
                    <5>1. Flats(cut) = {}
                        BY <1>1, <3>1, FlatsAre DEF Settled
                    <5>2. Flattened(cut, Leaving(cut)) = Leaving(cut)
                        BY <5>1, ClearedFacts DEF Flattened
                    <5> QED
                        BY <1>1, <2>1, <3>1, <5>2 DEF Goal
                <4>2. Before(cut, 1) \subseteq Leaving(cut)
                    BY <1>1, <3>1, NoPassLeaves
                <4>3. {Now} \subseteq {Now}
                    OBVIOUS
                <4>4. Leads(cut, Fair(cut), todo', {Now}, Leaving(cut))
                    BY <2>3, <4>2, <4>3, LeadsWeaken
                <4> QED
                    BY <4>1, <4>4
            <3>2. CASE Passes(cut) # 0
                <4>1. Goal' = Before(cut, 1)
                    BY <1>1, <2>1, <3>2 DEF Goal
                <4> QED
                    BY <2>3, <4>1
            <3> QED
                BY <3>1, <3>2
        <2>5. phase' = "pass" => pass' \in 1 .. Passes(cut)
            BY <1>3, <2>1
        <2>6. pass' \in 0 .. Max({1, Passes(cut)})
            BY <1>1, <2>1, PassesAre
        <2> QED
            BY <1>1, <1>2, <2>1, <2>4, <2>5, <2>6 DEF MotionInv
    <1>5. CASE EmitPass
        <2>1. /\ phase = "pass" /\ todo' = PassCommands(cut, pass)
              /\ pass \in 1 .. Passes(cut)
            BY <1>5 DEF EmitPass, MotionInv
        <2>2. IF pass = Passes(cut) THEN phase' = "cleanup" /\ pass' = pass
                                    ELSE phase' = phase /\ pass' = pass + 1
            BY <1>5 DEF EmitPass
        <2>3. Now \in Before(cut, pass)
            <3>1. Leads(cut, Fair(cut), <<>>, {Now}, Before(cut, pass))
                BY <1>1, <2>1 DEF MotionInv, Goal
            <3> QED
                BY <3>1, LeadsEmpty
        <2>4. Leads(cut, Fair(cut), todo', {Now}, Walked(cut, pass))
            <3>1. Leads(cut, Fair(cut), PassCommands(cut, pass), Before(cut, pass), Walked(cut, pass))
                BY <1>1, <2>1, PassLeads
            <3>2. {Now} \subseteq Before(cut, pass) /\ Walked(cut, pass) \subseteq Walked(cut, pass)
                BY <2>3
            <3>3. Leads(cut, Fair(cut), PassCommands(cut, pass), {Now}, Walked(cut, pass))
                BY <3>1, <3>2, LeadsWeaken
            <3> QED
                BY <2>1, <3>3
        <2>5. CASE pass = Passes(cut)
            <3>1. phase' = "cleanup" /\ pass' = pass /\ Passes(cut) > 0
                BY <1>3, <2>1, <2>2, <2>5
            <3>2. Goal' = Walked(cut, Passes(cut))
                BY <1>1, <3>1 DEF Goal
            <3>3. Leads(cut, Fair(cut), todo', {Now}, Goal')
                BY <2>4, <2>5, <3>2
            <3>4. pass' \in 0 .. Max({1, Passes(cut)})
                BY <3>1 DEF MotionInv
            <3> QED
                BY <1>1, <1>2, <3>1, <3>3, <3>4 DEF MotionInv
        <2>6. CASE pass # Passes(cut)
            <3>1. phase' = "pass" /\ pass' = pass + 1
                BY <2>1, <2>2, <2>6
            <3>2. pass' \in 1 .. Passes(cut) /\ pass' \in 0 .. Passes(cut)
                BY <1>3, <2>1, <2>6, <3>1
            <3>3. Goal' = Before(cut, pass + 1)
                BY <1>1, <3>1 DEF Goal
            <3>4. Leads(cut, Fair(cut), todo', {Now}, Goal')
                <4>1. Walked(cut, pass) \subseteq Before(cut, pass + 1) /\ {Now} \subseteq {Now}
                    BY ClearedFacts DEF Walked
                <4> QED
                    BY <2>4, <3>3, <4>1, LeadsWeaken
            <3>5. pass' \in 0 .. Max({1, Passes(cut)})
                BY <1>1, <3>2, PassesAre
            <3> QED
                BY <1>1, <1>2, <3>1, <3>2, <3>4, <3>5 DEF MotionInv
        <2> QED
            BY <2>5, <2>6
    <1>6. CASE EmitCleanup
        <2>1. phase = "cleanup" /\ todo' = Cleanup(cut) /\ phase' = "exit" /\ pass' = pass
            BY <1>6 DEF EmitCleanup
        <2>2. Passes(cut) > 0 /\ Now \in Walked(cut, Passes(cut))
            <3>1. Leads(cut, Fair(cut), <<>>, {Now}, Walked(cut, Passes(cut)))
                BY <1>1, <2>1 DEF MotionInv, Goal
            <3> QED
                BY <2>1, <3>1, LeadsEmpty DEF MotionInv
        <2> DEFINE T == Flattened(cut, Leaving(cut))
        <2>3. Leads(cut, Fair(cut), todo', {Now}, T)
            <3>1. Leads(cut, Fair(cut), Cleanup(cut), Walked(cut, Passes(cut)), T)
                BY <1>1, <2>2, CleanupLeads
            <3>2. {Now} \subseteq Walked(cut, Passes(cut)) /\ T \subseteq T
                BY <2>2
            <3> HIDE DEF T
            <3>3. Leads(cut, Fair(cut), Cleanup(cut), {Now}, T)
                BY <3>1, <3>2, LeadsWeaken
            <3> QED
                BY <2>1, <3>3
        <2>4. Goal' = T
            BY <1>1, <2>1 DEF Goal
        <2>5. pass' \in 0 .. Max({1, Passes(cut)})
            BY <2>1 DEF MotionInv
        <2> QED
            BY <1>1, <1>2, <2>1, <2>3, <2>4, <2>5 DEF MotionInv
    <1>7. CASE EmitExit
        <2>1. phase = "exit" /\ todo' = Exit(cut) /\ phase' = "done" /\ pass' = pass
            BY <1>7 DEF EmitExit
        <2> DEFINE S == Flattened(cut, Leaving(cut))
                   T == Flattened(cut, State(cut))
        <2>2. Now \in S
            <3>1. Leads(cut, Fair(cut), <<>>, {Now}, S)
                BY <1>1, <2>1 DEF MotionInv, Goal
            <3> QED
                BY <3>1, LeadsEmpty
        <2>3. Leads(cut, Fair(cut), todo', {Now}, T)
            <3>1. Leads(cut, Fair(cut), Exit(cut), S, T)
                BY <1>1, ExitFlattens
            <3>2. {Now} \subseteq S /\ T \subseteq T
                BY <2>2
            <3> HIDE DEF S, T
            <3>3. Leads(cut, Fair(cut), Exit(cut), {Now}, T)
                BY <3>1, <3>2, LeadsWeaken
            <3> QED
                BY <2>1, <3>3
        <2>4. Goal' = T
            BY <1>1, <2>1 DEF Goal
        <2>5. pass' \in 0 .. Max({1, Passes(cut)})
            BY <2>1 DEF MotionInv
        <2> QED
            BY <1>1, <1>2, <2>1, <2>3, <2>4, <2>5 DEF MotionInv
    <1> QED
        BY <1>4, <1>5, <1>6, <1>7

Executes == SetFeed \/ SetBeam \/ RapidMove \/ CutMove

\* A command does to the machine what After says.
LEMMA CommandIs ==
    ASSUME MotionInv, Executes
    PROVE  /\ todo # <<>> /\ todo' = Tail(todo)
           /\ Now' = After(cut, Now, Head(todo))
           /\ cut' = cut /\ phase' = phase /\ pass' = pass
    <1>1. /\ todo # <<>> /\ todo' = Tail(todo)
          /\ cut' = cut /\ phase' = phase /\ pass' = pass
        BY DEF Executes, SetFeed, SetBeam, RapidMove, CutMove, Next1
    <1> DEFINE op == Head(todo)
    <1>2. Now' = [at |-> at', z |-> z', feed |-> feed', beam |-> beam', floor |-> floor']
        BY DEF Now
    <1>3. /\ Now.at = at /\ Now.z = z /\ Now.feed = feed /\ Now.beam = beam /\ Now.floor = floor
        BY DEF Now
    <1>4. CASE SetFeed
        <2>1. op.op = "feed" /\ feed' = op.rate /\ at' = at /\ z' = z /\ beam' = beam /\ floor' = floor
            BY <1>4 DEF SetFeed, Next1
        <2>2. After(cut, Now, op) =
                [at |-> at, z |-> z, feed |-> op.rate, beam |-> beam, floor |-> floor]
            BY <1>3, <2>1 DEF After
        <2> QED
            BY <1>1, <1>2, <2>1, <2>2
    <1>5. CASE SetBeam
        <2>1. op.op = "beam" /\ beam' = op.to /\ at' = at /\ z' = z /\ feed' = feed /\ floor' = floor
            BY <1>5 DEF SetBeam, Next1
        <2>2. After(cut, Now, op) =
                [at |-> at, z |-> z, feed |-> feed, beam |-> op.to, floor |-> floor]
            BY <1>3, <2>1 DEF After
        <2> QED
            BY <1>1, <1>2, <2>1, <2>2
    <1>6. CASE RapidMove
        <2>1. /\ op.op = "rapid" /\ at' = Word(op.at, at) /\ z' = Word(op.z, z)
              /\ feed' = feed /\ beam' = beam /\ floor' = floor
            BY <1>6 DEF RapidMove, Next1
        <2>2. After(cut, Now, op) =
                [at |-> Word(op.at, at), z |-> Word(op.z, z), feed |-> feed, beam |-> beam,
                 floor |-> floor]
            BY <1>3, <2>1 DEF After
        <2> QED
            BY <1>1, <1>2, <2>1, <2>2
    <1>7. CASE CutMove
        <2> DEFINE p == Here(cut, at, at')
        <2>1. /\ op.op = "cut" /\ at' = Word(op.at, at) /\ z' = Word(op.z, z)
              /\ feed' = feed /\ beam' = beam
              /\ floor' = IF p # at' /\ SameSegment(cut, p, at')
                          THEN Swept(cut, floor, p, at', z, z') ELSE floor
            BY <1>7 DEF CutMove, Next1
        <2>2. After(cut, Now, op) = CutTo(cut, Now, at', z')
            BY <1>3, <2>1 DEF After
        <2>3. CutTo(cut, Now, at', z') =
                [at |-> at', z |-> z', feed |-> feed, beam |-> beam,
                 floor |-> IF p # at' /\ SameSegment(cut, p, at')
                           THEN Swept(cut, floor, p, at', z, z') ELSE floor]
            BY <1>3 DEF CutTo
        <2> HIDE DEF p
        <2> QED
            BY <1>1, <1>2, <2>1, <2>2, <2>3
    <1> QED
        BY <1>4, <1>5, <1>6, <1>7 DEF Executes

LEMMA CommandIsFair ==
    ASSUME MotionInv, Executes
    PROVE  /\ <<Now, Head(todo).op, Now'>> \in Fair(cut)
           /\ Now' \in State(cut)
           /\ Leads(cut, Fair(cut), todo', {Now'}, Goal')
           /\ phase # "approach"
    <1>1. /\ todo # <<>> /\ todo' = Tail(todo)
          /\ Now' = After(cut, Now, Head(todo))
          /\ cut' = cut /\ phase' = phase /\ pass' = pass
        BY CommandIs
    <1>2. phase # "approach" /\ Leads(cut, Fair(cut), todo, {Now}, Goal)
        BY <1>1 DEF MotionInv
    <1>3. Goal' = Goal
        BY <1>1 DEF Goal
    <1>4. /\ <<Now, Head(todo).op, Now'>> \in Fair(cut)
          /\ Leads(cut, Fair(cut), todo', {Now'}, Goal)
        BY <1>1, <1>2, LeadsHead
    <1>5. Now' \in State(cut)
        BY <1>4 DEF Fair
    <1> QED
        BY <1>2, <1>3, <1>4, <1>5

LEMMA MotionSteps ==
    ASSUME AllClear, MotionInv, [Next]_vars
    PROVE  MotionInv'
    <1>1. CASE EmitApproach \/ EmitPass \/ EmitCleanup \/ EmitExit
        BY <1>1, EmitKeepsInv
    <1>2. CASE Executes
        <2>1. /\ cut' = cut /\ phase' = phase /\ pass' = pass
            BY <1>2, CommandIs
        <2>2. Now' \in State(cut) /\ Leads(cut, Fair(cut), todo', {Now'}, Goal') /\ phase # "approach"
            BY <1>2, CommandIsFair
        <2> QED
            BY <2>1, <2>2 DEF MotionInv
    <1>3. CASE UNCHANGED vars
        <2>1. /\ cut' = cut /\ phase' = phase /\ pass' = pass /\ todo' = todo /\ Now' = Now
            BY <1>3 DEF vars, Now
        <2>2. Goal' = Goal
            BY <2>1 DEF Goal
        <2> QED
            BY <2>1, <2>2 DEF MotionInv
    <1> QED
        BY <1>1, <1>2, <1>3 DEF Next, Finished, Executes

LEMMA InvIsTyped == MotionInv => MotionTypeOK
    <1> SUFFICES ASSUME MotionInv PROVE MotionTypeOK
        OBVIOUS
    <1>1. Now \in State(cut) /\ cut \in Cuts
        BY DEF MotionInv
    <1>2. /\ at \in Spots(cut) /\ z \in Heights(cut) /\ feed \in Feeds /\ beam \in Beams3
          /\ floor \in Floors(cut)
        BY <1>1 DEF State, Now
    <1> DEFINE G == Lowest(cut) .. cut.start
    <1>3. ASSUME NEW t \in G \X G PROVE t \in Seq(G)
        <2>1. PICK a \in G, b \in G : t = <<a, b>>
            OBVIOUS
        <2> HIDE DEF G
        <2>2. <<a, b>> \in Seq(G)
            OBVIOUS
        <2> QED
            BY <2>1, <2>2
    <1>4. floor \in [Units(cut) -> Seq(G)]
        BY <1>2, <1>3 DEF Floors
    <1> QED
        BY <1>1, <1>2, <1>4 DEF MotionInv, MotionTypeOK, Spots, Heights, Feeds, Beams3

\* The invariant holds of every run of a cleared setup.
LEMMA MotionIsSound ==
    ASSUME AllClear
    PROVE  Spec => []MotionInv
    <1>1. Init => MotionInv
        BY MotionStarts
    <1>2. MotionInv /\ [Next]_vars => MotionInv'
        BY MotionSteps
    <1> QED
        BY <1>1, <1>2, PTL DEF Spec

\* Every variable has its type, and no command of emit_offset takes the tool
\* below the deepest height the plan names or above the clearance height,
\* whatever contour, schedule, plunge, lead and tabs the offset has
\* (gcode/emit.rs:457-860).
THEOREM MotionTyped ==
    ASSUME AllClear
    PROVE  Spec => []MotionTypeOK
    <1> QED
        BY MotionIsSound, InvIsTyped, PTL

\* Every cutting move of an offset with passes starts where the tool is and
\* follows the contour: what a phase writes fits where the one before it left
\* the tool, on a closed contour always, on an open one in every move but
\* those of an offset with tabs and, after an even number of walks, the
\* lead-out, which EveryCutFollows refutes.
THEOREM CutsFollow ==
    ASSUME AllClear
    PROVE  Spec => CutsFollowTheContour
    <1>1. MotionInv /\ [Next]_vars =>
            [/\ CutMove /\ Moves /\ Passes(cut) > 0
             /\ \/ cut.closed
                \/ ~cut.tabsActive /\ (at' >= 0 \/ Walks(cut) % 2 = 1)
             => Follows(cut, at, at')]_vars
        <2> SUFFICES ASSUME MotionInv, CutMove, Moves, Passes(cut) > 0,
                            \/ cut.closed
                            \/ ~cut.tabsActive /\ (at' >= 0 \/ Walks(cut) % 2 = 1)
                     PROVE  Follows(cut, at, at')
            OBVIOUS
        <2>1. <<Now, Head(todo).op, Now'>> \in Fair(cut) /\ Head(todo).op = "cut"
            BY CommandIsFair DEF Executes, CutMove, Next1
        <2>2. CutIsSlow(cut, Now, Now')
            BY <2>1 DEF Fair
        <2>3. Now.at = at /\ Now'.at = at'
            BY DEF Now
        <2>4. Reaches(cut, at, at')
            BY <2>2, <2>3 DEF CutIsSlow, Moves
        <2> QED
            BY <2>4 DEF Reaches
    <1> QED
        BY <1>1, MotionIsSound, PTL DEF Spec, CutsFollowTheContour

\* Rapids across the table are made at clearance height, to the offset or
\* back from a helix entry; the beam is lit on the way back from a laser's
\* helix entry and dark on every other.  A rapid downwards stops above the
\* stock, and the tool goes straight down at the plunge feed and along the
\* contour at a cutting feed.
THEOREM FeedsFit ==
    ASSUME AllClear
    PROVE  Spec => FeedFits
    <1>1. MotionInv /\ [Next]_vars =>
            [/\ RapidMove /\ Moves =>
                /\ z = FastZ /\ z' = FastZ
                /\ at = Away \/ (HelixFits(cut) /\ at' = 0)
                /\ (beam = "lit") <=> (at # Away /\ cut.mode = "Laser")
             /\ RapidMove /\ z' < z => z' > cut.start /\ beam = "off"
             /\ CutMove /\ ~Moves /\ z' < z => feed = "rate_v"
             /\ CutMove /\ Moves => feed \in {"rate_h", "corner"}]_vars
        <2> SUFFICES ASSUME MotionInv
                     PROVE  /\ RapidMove => RapidIsHigh(cut, Now, Now')
                            /\ CutMove => CutIsSlow(cut, Now, Now')
            <3>1. /\ Now.at = at /\ Now.z = z /\ Now.feed = feed /\ Now.beam = beam
                  /\ Now'.at = at' /\ Now'.z = z'
                BY DEF Now
            <3> QED
                BY <3>1 DEF RapidIsHigh, CutIsSlow, Moves
        <2>1. ASSUME RapidMove PROVE RapidIsHigh(cut, Now, Now')
            <3>1. <<Now, Head(todo).op, Now'>> \in Fair(cut) /\ Head(todo).op = "rapid"
                BY <2>1, CommandIsFair DEF Executes, RapidMove, Next1
            <3> QED
                BY <3>1 DEF Fair
        <2>2. ASSUME CutMove PROVE CutIsSlow(cut, Now, Now')
            <3>1. <<Now, Head(todo).op, Now'>> \in Fair(cut) /\ Head(todo).op = "cut"
                BY <2>2, CommandIsFair DEF Executes, CutMove, Next1
            <3> QED
                BY <3>1 DEF Fair
        <2> QED
            BY <2>1, <2>2
    <1> QED
        BY <1>1, MotionIsSound, PTL DEF Spec, FeedFits

\* The lowest height the plan names is the final depth, or the stock's where
\* no pass goes below it.
LEMMA LowestIsFinal ==
    ASSUME NEW c \in Cuts, Clear(c), Passes(c) > 0, Descends(c) \/ c.depthList = <<>>
    PROVE  /\ FinalZ(c) \in Int /\ c.start \in Int /\ Lowest(c) \in Int
           /\ FinalZ(c) <= Lowest(c) \/ c.start <= Lowest(c)
    <1>1. FinalZ(c) \in Int /\ c.start \in Int /\ Lowest(c) \in Int /\ Lowest(c) \in Planned(c)
        BY FinalLevel, PlannedIs, ScheduledAre
    <1>2. CASE SinglePassMode(c)
        <2>1. FinalZ(c) = SingleZ(c)
            BY <1>2 DEF FinalZ
        <2>2. Lowest(c) \in {c.start, SingleZ(c)}
            BY <1>1, <1>2 DEF Planned
        <2> QED
            BY <1>1, <2>1, <2>2
    <1>3. CASE ~SinglePassMode(c)
        <2> DEFINE l == Schedule(c)
                   n == Len(l)
        <2>1. l \in Seq(Int) /\ n \in Nat \ {0} /\ FinalZ(c) = l[n]
            <3>1. l \in Seq(Int) /\ Passes(c) = n
                BY <1>3, ScheduleIs DEF Passes
            <3> QED
                BY <1>3, <3>1 DEF FinalZ, Last
        <2>2. \A i \in 1 .. n : l[i] \in Int
            BY <2>1
        <2>3. ASSUME NEW i \in 1 .. n PROVE FinalZ(c) <= l[i]
            <3>1. CASE c.depthList = <<>>
                BY <2>1, <3>1, ScheduleNamed DEF Last
            <3>2. CASE Descends(c)
                <4> DEFINE K == {j \in Nat : i + j <= n => l[i + j] <= l[i]}
                <4>1. 0 \in K
                    BY <2>2
                <4>2. ASSUME NEW j \in K PROVE j + 1 \in K
                    <5> SUFFICES ASSUME i + (j + 1) <= n PROVE l[i + (j + 1)] <= l[i]
                        OBVIOUS
                    <5>1. /\ i + j \in 1 .. n /\ i + (j + 1) \in 2 .. n
                          /\ (i + (j + 1)) - 1 = i + j
                        BY <2>1
                    <5>2. l[i + j] <= l[i]
                        BY <5>1
                    <5>3. l[i + (j + 1)] <= l[i + j]
                        BY <3>2, <5>1 DEF Descends
                    <5>4. /\ l[i + j] \in Int /\ l[i] \in Int /\ l[i + (j + 1)] \in Int
                        BY <2>1, <2>2, <5>1
                    <5> HIDE DEF l, n, K
                    <5> QED
                        BY <5>2, <5>3, <5>4
                <4>3. K = Nat
                    <5> HIDE DEF K
                    <5> QED
                        BY <4>1, <4>2, Induction DEF K
                <4>4. n - i \in Nat /\ i + (n - i) = n
                    <5> HIDE DEF n
                    <5> QED
                        BY <2>1
                <4>5. n - i \in K
                    <5> HIDE DEF n, K
                    <5> QED
                        BY <4>3, <4>4
                <4>6. l[i + (n - i)] <= l[i]
                    BY <4>4, <4>5
                <4> QED
                    BY <2>1, <4>4, <4>6
            <3> QED
                BY <3>1, <3>2
        <2>4. Lowest(c) = c.start \/ \E i \in 1 .. n : Lowest(c) = l[i]
            <3>1. Lowest(c) = c.start \/ Lowest(c) \in ToSet(l)
                BY <1>1, <1>3 DEF Planned
            <3> QED
                BY <3>1 DEF ToSet
        <2> QED
            BY <1>1, <2>3, <2>4
    <1> QED
        BY <1>2, <1>3

\* When an offset is finished, every part of the contour outside its tabs has
\* been cut at the final depth, whatever plunge, ramp, entry, clean-up and
\* alternation led there (emit.rs:457-860), except after a spiral down the
\* whole path and after ramps above the tabs (emit.rs:709-721).
THEOREM FloorFlat ==
    ASSUME AllClear
    PROVE  Spec => []FloorIsFlat
    <1>1. MotionInv => FloorIsFlat
        <2> SUFFICES ASSUME MotionInv, Complete,
                            ~(cut.helixMode /\ ClosedPath(cut) /\ Passes(cut) > 1),
                            Ramps(cut) /\ cut.tabsActive => UsesTabs(cut, FinalZ(cut)),
                            ClosedPath(cut) \/ ~cut.tabsActive,
                            Descends(cut) \/ cut.depthList = <<>>,
                            NEW u \in Units(cut), ~LiftedArc(cut, u), ~TabUnit(cut, u)
                     PROVE  floor[u] = <<Min({FinalZ(cut), cut.start}), Min({FinalZ(cut), cut.start})>>
            BY DEF FloorIsFlat, Flat
        <2>1. cut \in Cuts /\ Clear(cut) /\ Passes(cut) > 0 /\ phase = "done" /\ todo = <<>>
            BY DEF MotionInv, AllClear, Complete
        <2>2. Now \in Flattened(cut, State(cut))
            <3>1. Leads(cut, Fair(cut), <<>>, {Now}, Flattened(cut, State(cut)))
                BY <2>1 DEF MotionInv, Goal
            <3> QED
                BY <3>1, LeadsEmpty
        <2>3. u \in Flats(cut)
            BY <2>1 DEF Flats, Settled, Bare
        <2>4. Level(cut, Passes(cut) + 1) = FinalZ(cut)
            BY <2>1, FinalLevel
        <2>5. Now \in State(cut) /\ Now.floor[u][1] <= FinalZ(cut) /\ Now.floor[u][2] <= FinalZ(cut)
            BY <2>2, <2>3, <2>4 DEF Flattened, Cleared
        <2>6. floor[u][1] <= FinalZ(cut) /\ floor[u][2] <= FinalZ(cut) /\ floor \in Floors(cut)
            BY <2>5 DEF Now, State
        <2> DEFINE G == Lowest(cut) .. cut.start
                   bottom == Min({FinalZ(cut), cut.start})
        <2>7. floor[u] \in G \X G
            BY <2>6 DEF Floors
        <2>8. /\ FinalZ(cut) \in Int /\ cut.start \in Int /\ Lowest(cut) \in Int
              /\ FinalZ(cut) <= Lowest(cut) \/ cut.start <= Lowest(cut)
            BY <2>1, LowestIsFinal
        <2>9. bottom = IF FinalZ(cut) <= cut.start THEN FinalZ(cut) ELSE cut.start
            BY <2>8, OfTwo
        <2>10. /\ floor[u] = <<floor[u][1], floor[u][2]>>
               /\ floor[u][1] \in G /\ floor[u][2] \in G
            BY <2>7
        <2> HIDE DEF bottom
        <2>11. floor[u][1] = bottom /\ floor[u][2] = bottom
            BY <2>6, <2>8, <2>9, <2>10
        <2> QED
            BY <2>10, <2>11 DEF bottom
    <1> QED
        BY <1>1, MotionIsSound, PTL
=============================================================================
