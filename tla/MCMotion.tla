------------------------------ MODULE MCMotion ------------------------------
(***************************************************************************)
(* Motion over a small family of contours and setups: closed and open      *)
(* polylines, contours with arcs, a circle of two arcs; each plunge with   *)
(* each lead, Z schedules with and without finish step, through depth and  *)
(* depth list, rectangular and ramped tabs, and the other machine modes.   *)
(***************************************************************************)
EXTENDS Motion

CONSTANT Family       \* which of the families below a run takes

Line(n) == [len |-> n, arc |-> FALSE]
Arc(n) == [len |-> n, arc |-> TRUE]

Plain == [mode |-> "Mill", plot |-> FALSE, closed |-> TRUE,
          segs |-> <<Line(2), Line(4), Line(2), Line(4)>>,
          start |-> 0, depth |-> -8, through |-> 0, step |-> -4,
          finishStep |-> 0, depthList |-> <<>>,
          plunge |-> "direct", helixFits |-> FALSE, cot |-> 1,
          helixMode |-> FALSE, sharp |-> FALSE,
          leadIn |-> "off", leadOut |-> "off", arcFits |-> TRUE,
          tabs |-> {}, tabsActive |-> FALSE, tabHeight |-> 2, tabRamp |-> 0,
          pierceHeight |-> 3, cutHeight |-> 1]

Square == [Plain EXCEPT !.sharp = TRUE]
Slot == [Plain EXCEPT !.closed = FALSE, !.segs = <<Line(4), Line(2), Line(4)>>]
Rounded == [Plain EXCEPT !.segs = <<Line(4), Arc(4), Line(4), Arc(4)>>]
Circle == [Plain EXCEPT !.segs = <<Arc(4), Arc(4)>>]

Plunges(c) ==
    {[c EXCEPT !.plunge = p, !.helixFits = f] :
        <<p, f>> \in {<<"direct", FALSE>>, <<"ramp", FALSE>>,
                      <<"helix", TRUE>>, <<"helix", FALSE>>}}

Leads(c) ==
    {[c EXCEPT !.leadIn = i, !.leadOut = o, !.arcFits = f] :
        i \in {"off", "straight", "arc"}, o \in {"off", "straight", "arc"},
        f \in BOOLEAN}

Schedules(c) ==
    {[c EXCEPT !.step = s, !.finishStep = f, !.through = t, !.depth = d] :
        s \in {0, -4, 3}, f \in {0, 1, 2}, t \in {0, 1}, d \in {-4, -8, -9}}

Tab(from, to, lift) == [from |-> from, to |-> to, lift |-> lift]

Tabbed(c) ==
    {[c EXCEPT !.tabsActive = TRUE, !.tabs = t, !.tabRamp = r,
              !.step = s[1], !.tabHeight = s[2]] :
        t \in {{}, {Tab(2, 6, 0)}, {Tab(3, 5, 1)}, {Tab(8, 10, 0), Tab(2, 4, 0), Tab(3, 5, 2)},
               {Tab(4, 6, 0)}, {Tab(5, 7, 0)}, {Tab(-1, 1, 0), Tab(7, 9, 7)}},
        r \in {0, 1}, s \in {<<-4, 2>>, <<-3, 4>>}}

Milling ==
    UNION {Plunges(c) : c \in UNION {Leads(d) : d \in {Square, Slot, Rounded, Circle}}}
    \cup UNION {Plunges(c) : c \in UNION {Schedules(d) : d \in {Square, Slot}}}
    \cup UNION {Plunges(c) : c \in UNION {Tabbed(d) : d \in {Square, Rounded, Slot}}}
    \cup {[c EXCEPT !.helixMode = TRUE] : c \in Tabbed(Square)}
    \cup UNION {Plunges([d EXCEPT !.depthList = l]) : d \in {Square, Slot},
                 l \in {<<-4>>, <<1, -4, -8>>, <<3>>, <<-8, -4>>}}
    \cup Leads([Square EXCEPT !.depthList = <<3>>])
    \cup UNION {Plunges([d EXCEPT !.depth = -9, !.finishStep = 2, !.cot = 2]) :
                 d \in {e \in Tabbed(Square) : Tab(-1, 1, 0) \notin e.tabs}
                        \cup {[Square EXCEPT !.tabs = {Tab(0, 2, 0)}, !.tabsActive = TRUE]}}
    \cup UNION {Plunges([Square EXCEPT !.tabs = t,
                         !.tabsActive = TRUE, !.tabRamp = r, !.tabHeight = h,
                         !.depthList = l]) :
                 t \in {{Tab(2, 4, 1), Tab(4, 6, 0)}, {Tab(3, 5, 1)}},
                 r \in {0, 1}, h \in {2, 9}, l \in {<<>>, <<-12>>, <<-4, -12>>}}

Beams ==
    {[c EXCEPT !.mode = m, !.plot = p] :
        c \in Plunges(Square) \cup Leads(Slot) \cup {[Rounded EXCEPT !.leadIn = "arc"]},
        m \in {"Laser", "Drag", "Plasma"}, p \in BOOLEAN}

MCCuts ==
    CASE Family = "all" -> Milling \cup Beams
      [] Family = "round" -> {c \in Tabbed(Rounded) : c.plunge = "direct"}
      [] Family = "open" -> UNION {Plunges(c) : c \in Leads(Slot)}
      [] Family = "corner" -> Tabbed(Square)
      [] Family = "spiral" ->
             {[c EXCEPT !.helixMode = TRUE] :
                c \in {d \in Tabbed(Square) : d.tabs = {Tab(2, 6, 0)}}}
      [] Family = "beams" -> Beams

\* What the theorems of Motion_proofs ask of a setup holds of these.
ASSUME CutsAreClear == AllClear

=============================================================================
