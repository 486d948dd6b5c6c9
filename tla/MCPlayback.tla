------------------------------ MODULE MCPlayback ------------------------------
(***************************************************************************)
(* Playback over three columns and short programs with a rapid that clears   *)
(* only what was cut before it, a form cutter and a cut that heals the void *)
(* it leaves.                                                               *)
(***************************************************************************)
EXTENDS Playback

CONSTANT Family     \* which programs a run takes

Cut(cells, lo, hi) == [cells |-> cells, lo |-> lo, hi |-> hi]
Open(cells, lo) == Cut(cells, lo, Infinity)
Nothing == Open({}, 0)
NoCheck == [cells |-> {}, z |-> 0]
Seg(tool, check, first, second) ==
    [tool |-> tool, check |-> check, halves |-> <<first, second>>]

Slot(t) == Seg(t, NoCheck, Open({1, 2}, 2), Open({2}, 1))
Rapid(t, over, z) == Seg(t, [cells |-> over, z |-> z], Nothing, Nothing)
Undercut(t) == Seg(t, [cells |-> {2}, z |-> 1], Cut({2, 3}, 0, 1), Open({3}, 0))

OneTool == <<Slot(1), Rapid(1, {2, 3}, 2), Undercut(1)>>
Shorter == <<Rapid(1, {1}, 2), Slot(1)>>
TwoTools == <<Rapid(1, {2, 3}, 2), Slot(2), Undercut(2)>>

MCPrograms ==
    CASE Family = "one" -> <<OneTool, Shorter>>
      [] Family = "two" -> <<TwoTools>>
=============================================================================
