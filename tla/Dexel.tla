-------------------------------- MODULE Dexel --------------------------------
(***************************************************************************)
(* The material of the simulation (sim/dexel.rs): columns of stock, each a *)
(* dense top height and, only where a form cutter has left an overhang, a   *)
(* list of solid spans beside it. The grid is one row of columns.          *)
(***************************************************************************)
EXTENDS Integers, SequencesExt

CONSTANTS Columns,      \* the number of columns
          StockTop,     \* the uncut surface, top_z
          StockBottom   \* the underside, stock_bottom_z

ASSUME DexelAssumption ==
    /\ Columns \in Nat \ {0}
    /\ StockTop \in Int /\ StockBottom \in Int /\ StockBottom < StockTop

Cells == 1..Columns
Infinity == StockTop + 1    \* a cut open to the top

Span(lo, hi) == [lo |-> lo, hi |-> hi]

(* What a removal of [a, b] leaves of one span. *)
Survives(s, a, b) ==
    IF b <= s.lo \/ a >= s.hi THEN <<s>>
    ELSE (IF a > s.lo THEN <<Span(s.lo, a)>> ELSE <<>>)
         \o (IF b < s.hi THEN <<Span(b, s.hi)>> ELSE <<>>)

(* Left(spans, a, b)[n]: what it leaves of the first n spans.              *)
Left(spans, a, b) ==
    LET left[n \in 0..Len(spans)] ==
            IF n = 0 THEN <<>> ELSE left[n - 1] \o Survives(spans[n], a, b)
    IN left

SubtractInterval(spans, a, b) ==
    IF a >= b THEN spans ELSE Left(spans, a, b)[Len(spans)]

(* out with span s above it, or extended by s where the two touch.         *)
Join(out, s) ==
    IF out # <<>> /\ s.lo <= Last(out).hi
    THEN Front(out) \o <<Span(Last(out).lo,
                              IF s.hi > Last(out).hi THEN s.hi ELSE Last(out).hi)>>
    ELSE Append(out, s)

Joined(spans) ==
    LET joined[n \in 0..Len(spans)] == IF n = 0 THEN <<>> ELSE Join(joined[n - 1], spans[n])
    IN joined

MergeAdjacent(spans) == Joined(spans)[Len(spans)]

(* A field: tops of all columns, spans of the columns with an overhang. *)
UncutField == [top |-> [c \in Cells |-> StockTop], undercut |-> <<>>]

SpansFor(f, c) ==
    IF c \in DOMAIN f.undercut THEN f.undercut[c]
    ELSE IF f.top[c] > StockBottom THEN <<Span(StockBottom, f.top[c])>>
    ELSE <<>>

Without(u, c) == [d \in DOMAIN u \ {c} |-> u[d]]
With(u, c, spans) == [d \in DOMAIN u \cup {c} |-> IF d = c THEN spans ELSE u[d]]

(* f with these spans in column c: without an overhang, a top is enough.   *)
Canonical(f, c, spans) ==
    IF spans = <<>>
    THEN [top |-> [f.top EXCEPT ![c] = StockBottom], undercut |-> Without(f.undercut, c)]
    ELSE IF Len(spans) = 1 /\ spans[1].lo <= StockBottom
    THEN [top |-> [f.top EXCEPT ![c] = spans[1].hi], undercut |-> Without(f.undercut, c)]
    ELSE [top |-> [f.top EXCEPT ![c] = Last(spans).hi],
          undercut |-> With(f.undercut, c, spans)]

StoreColumn(f, c, found) == Canonical(f, c, MergeAdjacent(found))

(* A cut from above on a column without spans only lowers its top. *)
OnlyLowersTop(f, c, hi) == hi >= f.top[c] /\ c \notin DOMAIN f.undercut

CarveCell(f, c, lo, hi) ==
    IF OnlyLowersTop(f, c, hi)
    THEN [f EXCEPT !.top[c] = IF lo < @ THEN lo ELSE @]
    ELSE StoreColumn(f, c, SubtractInterval(SpansFor(f, c), lo, hi))

(* The columns that carve_cell marks dirty. *)
Dirties(f, c, lo, hi) == ~OnlyLowersTop(f, c, hi) \/ lo < f.top[c]

(* What is solid: the unit slabs between whole heights. *)
Slabs == StockBottom .. StockTop - 1
SolidAt(f, c) == {z \in Slabs : \E i \in DOMAIN SpansFor(f, c) :
                     SpansFor(f, c)[i].lo <= z /\ z < SpansFor(f, c)[i].hi}
=============================================================================
