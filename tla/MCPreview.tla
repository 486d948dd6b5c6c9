------------------------------ MODULE MCPreview -----------------------------
(***************************************************************************)
(* Preview with the three posts over one of each kind of operation, and    *)
(* the profiles and boundaries that show where the readings part.          *)
(***************************************************************************)
EXTENDS Preview

CONSTANT Family     \* which of the profiles and operations below a run takes

Plain == [post |-> "linuxcnc", sep |-> ".", numbered |-> FALSE, inch |-> FALSE,
          cache |-> FALSE]

Op(kind) == [kind |-> kind, v |-> 4, h |-> 8, change |-> "none"]
Slow(kind) == [Op(kind) EXCEPT !.h = 4]
Behind(o, change) == [o EXCEPT !.change = change]

Contours == {Op("contour"), Slow("pierce")}
Shapes == Contours \cup {Op("arc"), Op("helix"), Op("rim")}
Cycles == {Op("drill"), Op("peck")}

MCSetups ==
    CASE Family = "all" ->
            {[Plain EXCEPT !.post = p, !.cache = c] :
                p \in {"linuxcnc", "grbl"}, c \in BOOLEAN}
            \cup {[Plain EXCEPT !.post = "hpgl"]}
      [] Family = "comma" -> {[Plain EXCEPT !.sep = ","]}
      [] Family = "numbered" -> {[Plain EXCEPT !.numbered = TRUE]}
      [] Family \in {"inch", "inch_probe"} -> {[Plain EXCEPT !.inch = TRUE]}
      [] Family = "plotter" -> {[Plain EXCEPT !.post = "hpgl", !.cache = TRUE]}
      [] OTHER -> {Plain}

MCOperations ==
    CASE Family = "all" ->
            Shapes \cup Cycles \cup {Op("dwell"), Op("homing"), Op("probe"), Op("include"), Op("dual")}
            \cup {Behind(Op("contour"), "swap")}
      [] Family = "dwell" -> {Op("dwell")}
      [] Family = "one_feed" -> {Slow("dual_probed")}
      [] Family = "inch_probe" -> {Op("contour"), Op("probe")}
      [] Family = "shift" -> {Behind(Op("contour"), c) : c \in {"shift", "touch", "sensor"}}
      [] OTHER -> Shapes \cup Cycles
=============================================================================
