------------------------------ MODULE MCPerOp ------------------------------
(***************************************************************************)
(* run_per_op on small projects over two tools, of different speed and     *)
(* coolant, and a palette with one operation of each shape the loop treats *)
(* differently.                                                            *)
(***************************************************************************)
EXTENDS ToolCount, TLC

CONSTANTS t1, t2, s1, s2

MCTools == {t1, t2}
MCSpins == {s1, s2}
MCCoolant == (t1 :> "flood") @@ (t2 :> "off")

Plain(id, t) ==
    [id |-> id, kind |-> "cut", tool |-> t, spin |-> Off, finish |-> NoTool, dual |-> FALSE,
     rough |-> TRUE, ring |-> FALSE, spot |-> NoTool, gate |-> TRUE, pin |-> FALSE,
     emit |-> <<>>]
ProgramOnly(id, k) == [Plain(id, "unknown") EXCEPT !.kind = k, !.rough = FALSE]

Flooded == Plain(1, t1)
Slow == [Plain(2, t2) EXCEPT !.spin = s1]
Pocket == [Plain(3, t1) EXCEPT !.finish = t2, !.dual = TRUE, !.ring = TRUE]
PocketBack == [Plain(4, t2) EXCEPT !.finish = t1, !.dual = TRUE, !.ring = TRUE]
NarrowPocket == [PocketBack EXCEPT !.id = 5, !.ring = FALSE]
RingOnly == [Pocket EXCEPT !.id = 6, !.rough = FALSE]
Spotted == [Plain(7, t1) EXCEPT !.spot = t2]
CentreDrill == [Plain(8, t1) EXCEPT !.spot = t1]
Empty == [Plain(9, t2) EXCEPT !.rough = FALSE, !.pin = TRUE]
EngraveWithFinish == [Plain(10, t1) EXCEPT !.finish = t2]
NoRegion == [Plain(11, t2) EXCEPT !.rough = FALSE, !.gate = FALSE]
Pause == ProgramOnly(20, "pause")
Homing == ProgramOnly(21, "homing")
Probe == ProgramOnly(22, "probe")
Marker == ProgramOnly(23, "marker")
Include == [ProgramOnly(24, "include") EXCEPT !.emit = <<Word("M5"), Word("pause")>>]
Unknown == Plain(25, "unknown")

\* Sequences of at most n operations of the palette, none twice.
Sequences(palette, n) ==
    UNION {{s \in [1 .. k -> palette] : \A i, j \in 1 .. k : s[i] = s[j] => i = j} :
              k \in 0 .. n}

Machines ==
    {[change |-> "Atc", station |-> TRUE, postZ |-> "none"],
     [change |-> "Atc", station |-> FALSE, postZ |-> "forget"],
     [change |-> "ManualM0Pause", station |-> FALSE, postZ |-> "probe"],
     [change |-> "ManualM0Pause", station |-> TRUE, postZ |-> "sensor"],
     [change |-> "Ignore", station |-> FALSE, postZ |-> "none"]}
PlainAtc == [change |-> "Atc", station |-> FALSE, postZ |-> "none"]

Library == (t1 :> s1) @@ (t2 :> s2)
FasterFirst == (t1 :> s2) @@ (t2 :> s2)
SlowerSecond == (t1 :> s1) @@ (t2 :> s1)

OrderedProjects(seqs, groups, machines, libs) ==
    [ops : seqs, group : groups, machine : machines, lib : libs]

-----------------------------------------------------------------------------
(* per_op: every shape, three at a time, on every machine *)

Shapes == {Flooded, Slow, Pocket, RingOnly, Spotted, Pause}
OtherShapes ==
    {Flooded, PocketBack, NarrowPocket, CentreDrill, Empty, Homing, Probe, Marker, Include, Unknown,
     EngraveWithFinish}

PerOpProjects ==
    OrderedProjects(Sequences(Shapes, 3) \cup Sequences(OtherShapes, 2), {FALSE}, Machines,
                    {Library})
    \cup OrderedProjects(Sequences({Flooded, Slow, Pocket, Empty, Pause}, 4), {TRUE},
                         {PlainAtc}, {Library})

-----------------------------------------------------------------------------
(* per_op_cached: two Generates, the first tool's speed edited in between *)

CachedProjects ==
    OrderedProjects(Sequences({Flooded, PocketBack, NarrowPocket, CentreDrill, Pause}, 2),
                    {FALSE}, {PlainAtc}, {Library, FasterFirst})

MCOversized == {NarrowPocket}

-----------------------------------------------------------------------------
(* The disagreements *)

\* Two operations of one tool with a pause between them change places.
ReorderedProjects ==
    OrderedProjects({<<CentreDrill, Pause, Flooded>>, <<Flooded, Pause, CentreDrill>>}, {FALSE}, {PlainAtc},
                    {Library})

\* The first of two flooded operations of one tool is switched off.
LeftOutProjects ==
    OrderedProjects({<<CentreDrill, Flooded>>, <<Flooded>>}, {FALSE}, {PlainAtc}, {Library})

\* A flooded operation is put in front of a pocket that yields only its finish ring.
RingProjects ==
    OrderedProjects({<<RingOnly>>, <<Flooded, RingOnly>>}, {FALSE}, {PlainAtc}, {Library})

\* The spot tool's speed is edited between two Generates.
SpotProjects ==
    OrderedProjects(Sequences({Flooded, Spotted}, 2), {FALSE}, {PlainAtc},
                    {Library, SlowerSecond})

\* An operation that will cut nothing stands between two that do.
NoRegionProjects ==
    OrderedProjects(Sequences({Flooded, NoRegion, Slow}, 3), {FALSE}, {PlainAtc}, {Library})

\* A finish tool left on a kind of operation that has no finish pass.
FinishProjects ==
    OrderedProjects(Sequences({Flooded, EngraveWithFinish, Pocket}, 2), {FALSE}, {PlainAtc},
                    {Library})
=============================================================================
