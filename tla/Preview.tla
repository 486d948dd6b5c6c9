------------------------------ MODULE Preview ------------------------------
(***************************************************************************)
(* A program as three parties read it: the operations that planned its     *)
(* moves, the controller that runs the lines the dialect posts wrote       *)
(* (gcode/linuxcnc.rs, grbl.rs, hpgl.rs), and the interpreter the preview, *)
(* the simulation and the time estimate are built on (gcode/preview.rs,    *)
(* sim/timing.rs).  Each step emits one operation, fresh or replayed from  *)
(* the op cache, and res holds what the three made of it.                  *)
(*                                                                         *)
(* The XY plane is one axis.  Lengths and feeds are multiples of an inch,  *)
(* which is two units here, so the conversion stays in the integers; of    *)
(* the numbers written, those not divisible by 4 stand for the ones with   *)
(* digits behind the separator.                                            *)
(***************************************************************************)
EXTENDS Integers, Chains

CONSTANTS
    Setups,         \* [post, sep, numbered, inch, cache]: the machine profiles
    Operations,     \* [kind, v, h, change]: what an op emits, rate_v, rate_h, its boundary
    MaxOps,         \* operations in a program
    MaxGenerates    \* Generates over one op cache

Kinds == {"contour", "pierce", "arc", "helix", "rim", "drill", "dwell", "peck", "dual",
          "dual_probed", "probe", "homing", "include"}
Changes == {"none", "swap", "shift", "touch", "sensor"}

ASSUME SetupAssumption ==
    Setups \subseteq [post : {"linuxcnc", "grbl", "hpgl"}, sep : {".", ","},
                      numbered : BOOLEAN, inch : BOOLEAN, cache : BOOLEAN]

ASSUME OperationAssumption ==
    Operations \subseteq [kind : Kinds, v : Nat, h : Nat, change : Changes]

ASSUME BoundAssumption == MaxOps \in Nat /\ MaxGenerates \in Nat \ {0}

Unknown == 99       \* a word not written, a position not known
MmPerInch == 2
Fast == 12          \* fast_move_z
Retract == 4        \* R of the drill cycles
Bottom == -6

VARIABLES
    setup,
    post,       \* x, z, rate: last_x, last_z, last_rate (HPGL: last_vs); pen: pen_down
    ctl,        \* the controller: x, z, feed (HPGL: speed), pen
    view,       \* the interpreter: x, z, g (active_code), op, feed (the F scan)
    cache,      \* op |-> [lines, exit]
    count,      \* operations emitted by this Generate
    generation,
    res         \* of the last operation: plan, run, seen, and the dwells counted

vars == <<setup, post, ctl, view, cache, count, generation, res>>

Biggest(a, b) == IF a > b THEN a ELSE b

\* A post, a tool or a view brought to another place, a tool to another feed.
At(m, x, z) == [m EXCEPT !.x = x, !.z = z]
Fed(m, f) == [m EXCEPT !.feed = f]

-----------------------------------------------------------------------------
(* Calls of the PostProcessor trait, and the sequences the drivers make.   *)

Nop == [c |-> "none", x |-> Unknown, z |-> Unknown, i |-> 0, r |-> 0, q |-> 0,
        v |-> 0, p |-> 0, id |-> "none"]

MoveTo(x, z) == [Nop EXCEPT !.c = "rapid", !.x = x, !.z = z]
Linear(x, z) == [Nop EXCEPT !.c = "linear", !.x = x, !.z = z]
Arc(x, z, i) == [Nop EXCEPT !.c = "arc", !.x = x, !.z = z, !.i = i]
Feedrate(v) == [Nop EXCEPT !.c = "feed", !.v = v]
Dwell(p) == [Nop EXCEPT !.c = "dwell", !.p = p]
Drill(x, z, q, v, p) ==
    [Nop EXCEPT !.c = "drill", !.x = x, !.z = z, !.r = Retract, !.q = q, !.v = v, !.p = p]
Station == [Nop EXCEPT !.c = "station"]
Home == [Nop EXCEPT !.c = "home"]
ProbeZ(v) == [Nop EXCEPT !.c = "probe", !.v = v]
SetZ(z) == [Nop EXCEPT !.c = "setz", !.z = z]
ApplyProbed == [Nop EXCEPT !.c = "tlo"]
Marker(id) == [Nop EXCEPT !.c = "marker", !.id = id]
Raw(g, x, z, v) == [Nop EXCEPT !.c = "raw", !.id = g, !.x = x, !.z = z, !.v = v]

Lift == MoveTo(Unknown, Fast)

\* emit_toolchange_envelope, from the lift to emit_post_change_z.
Envelope(change) ==
    CASE change = "none" -> <<>>
      [] change = "swap" -> <<Lift, Station>>
      [] change = "shift" -> <<Lift, Station, SetZ(-2)>>
      [] change = "touch" -> <<Lift, Station, ProbeZ(2), SetZ(4)>>
      [] change = "sensor" -> <<Lift, Station, Station, ProbeZ(2), ApplyProbed, Station>>

Contour(o, from, to) ==
    <<Feedrate(o.h), MoveTo(from, Fast), Feedrate(o.v), Linear(Unknown, Bottom),
      Feedrate(o.h), Linear(to, Unknown), Lift>>

Passes(o) ==
    CASE o.kind = "contour" -> Contour(o, 0, 6)
      [] o.kind = "pierce" ->
            <<Feedrate(o.h), MoveTo(0, Fast), Feedrate(o.v), Linear(Unknown, Bottom), Dwell(2),
              Feedrate(o.h), Linear(6, Unknown), Lift>>
      [] o.kind = "arc" ->
            <<Feedrate(o.h), MoveTo(0, Fast), Feedrate(o.v), Linear(Unknown, Bottom),
              Feedrate(o.h), Arc(8, Unknown, 4), Linear(6, Unknown), Lift>>
      [] o.kind = "helix" ->
            <<Feedrate(o.h), MoveTo(2, Fast), Feedrate(o.v), Arc(6, -2, 2), Arc(2, Bottom, -2),
              Feedrate(o.h), Linear(0, Unknown), Lift>>
      [] o.kind = "rim" ->
            <<Lift, MoveTo(0, Unknown), Feedrate(o.v), Linear(Unknown, 0), Feedrate(o.h),
              Linear(0, 0), Linear(2, -2), Arc(2, -2, 2), Lift>>
      [] o.kind \in {"drill", "dwell", "peck"} ->
            <<Feedrate(o.v), Lift, Drill(2, Bottom, IF o.kind = "peck" THEN 6 ELSE 0, o.v,
                                         IF o.kind = "dwell" THEN 1 ELSE 0),
              Lift, Drill(6, Bottom, IF o.kind = "peck" THEN 6 ELSE 0, o.v, 0), Lift>>
      [] o.kind \in {"dual", "dual_probed"} ->
            Contour(o, 0, 6) \o Envelope(IF o.kind = "dual" THEN "swap" ELSE "touch")
            \o Contour(o, 6, 2)
      [] o.kind = "probe" -> <<ProbeZ(2)>>
      [] o.kind = "homing" -> <<Home, Lift>>
      [] o.kind = "include" -> <<Raw("G0", 8, Unknown, 0), Raw("G1", Unknown, -2, 4)>>

Body(o) == <<Marker(o.kind)>> \o Passes(o)

ProgramOnly(o) == o.kind \in {"homing", "probe", "include"}

\* drill_simple and drill_peck of the trait, for posts without canned cycles.
Pecks(c) ==
    LET Depth(k) == Biggest(c.r - k * c.q, c.z)
        pecks == (c.r - c.z + c.q - 1) \div c.q
        Reentry(k) ==
            IF k = pecks THEN <<>>
            ELSE <<MoveTo(Unknown, Depth(k) + 2), Feedrate(c.v), Linear(Unknown, Depth(k))>>
        Peck(k) ==
            <<Linear(Unknown, Depth(k))>>
            \o (IF c.p > 0 THEN <<Dwell(c.p)>> ELSE <<>>)
            \o <<MoveTo(Unknown, c.r)>> \o Reentry(k)
    IN Strung([k \in 1 .. pecks |-> Peck(k)])[pecks]

Expand(c) ==
    <<MoveTo(c.x, c.r), Feedrate(c.v)>>
    \o (IF c.q > 0 THEN Pecks(c)
        ELSE <<Linear(Unknown, c.z)>>
             \o (IF c.p > 0 THEN <<Dwell(c.p)>> ELSE <<>>) \o <<Linear(Unknown, c.r)>>)

Called(s, c) == IF c.c = "drill" /\ s.post # "linuxcnc" THEN Expand(c) ELSE <<c>>

Calls(s, cs) == Strung([k \in 1 .. Len(cs) |-> Called(s, cs[k])])[Len(cs)]

-----------------------------------------------------------------------------
(* The posts: what a call writes, and what it leaves in the delta state.   *)

Blank == [g |-> "none", x |-> Unknown, z |-> Unknown, i |-> 0, r |-> 0, f |-> 0,
          p |-> 0, id |-> "none"]

Wrote(ls, p) == [lines |-> ls, post |-> p]

FreshPost == [x |-> Unknown, z |-> Unknown, rate |-> 0, pen |-> FALSE]

\* Mutant of ResetState: only the feed is forgotten.
ResetState_KeepsPosition(s, p) == [p EXCEPT !.rate = 0]

\* HPGL forgets the position only: neither the pen nor the plotter's speed.
ResetState(s, p) ==
    IF s.post = "hpgl" THEN [p EXCEPT !.x = Unknown]
    ELSE [At(p, Unknown, Unknown) EXCEPT !.rate = 0]

\* capture_state and restore_state: HPGL's carry the position only.
RestoreState(s, p, exit) == IF s.post = "hpgl" THEN [p EXCEPT !.x = exit.x] ELSE exit

Emitted(s, v) == IF v # Unknown /\ s.inch THEN v \div MmPerInch ELSE v

Word(s, old, new) == IF new = old THEN Unknown ELSE Emitted(s, new)

Track(p, x, z) ==
    At(p, IF x = Unknown THEN p.x ELSE x, IF z = Unknown THEN p.z ELSE z)

Line(g, x, z) == [Blank EXCEPT !.g = g, !.x = x, !.z = z]

Axes(s, p, g, x, z) == Line(g, Word(s, p.x, x), Word(s, p.z, z))

Straight(s, p, g, c) ==
    LET l == Axes(s, p, g, c.x, c.z)
    IN Wrote(IF l.x = Unknown /\ l.z = Unknown THEN <<>> ELSE <<l>>, Track(p, c.x, c.z))

\* arc_cw: a full circle is split at the point across its centre.
ArcLines(s, p, c) ==
    LET ArcLine(q, x, i) ==
            [Axes(s, q, "G2", x, c.z) EXCEPT !.i = Emitted(s, i)]
        mid == p.x + 2 * c.i
        half == Track(p, mid, c.z)
    IN IF p.x # Unknown /\ c.x = p.x
       THEN Wrote(<<ArcLine(p, mid, c.i), ArcLine(half, c.x, -c.i)>>, Track(half, c.x, c.z))
       ELSE Wrote(<<ArcLine(p, c.x, c.i)>>, Track(p, c.x, c.z))

\* Mutant of Canned: the post believes the tool stayed at the bottom of the hole.
Canned_AtTheBottom(s, p, c) ==
    Wrote(<<[Axes(s, p, "G81", c.x, c.z) EXCEPT !.r = Emitted(s, c.r), !.p = c.p]>>,
          [Track(p, c.x, c.z) EXCEPT !.z = Fast])

\* drill_simple, drill_peck, drill_chip_break of LinuxCNC: one line, Z ends at R.
Canned(s, p, c) ==
    Wrote(<<[Axes(s, p, "G81", c.x, c.z) EXCEPT !.r = Emitted(s, c.r), !.p = c.p]>>,
          [Track(p, c.x, c.z) EXCEPT !.z = c.r])

WriteGcode(s, p, c) ==
    LET lost == At(p, Unknown, Unknown)
        Plain(g) == Line(g, Unknown, Unknown)
    IN CASE c.c = "rapid" -> Straight(s, p, "G0", c)
         [] c.c = "linear" -> Straight(s, p, "G1", c)
         [] c.c = "arc" -> ArcLines(s, p, c)
         [] c.c = "drill" -> Canned(s, p, c)
         [] c.c = "feed" ->
               IF c.v = 0 \/ c.v = p.rate THEN Wrote(<<>>, p)
               ELSE Wrote(<<[Blank EXCEPT !.f = Emitted(s, c.v)]>>, [p EXCEPT !.rate = c.v])
         [] c.c = "dwell" -> Wrote(<<[Plain("G4") EXCEPT !.p = c.p]>>, p)
         [] c.c = "station" -> Wrote(<<Plain("G53")>>, lost)
         [] c.c = "home" -> Wrote(<<Plain("G28")>>, p)
         [] c.c = "probe" -> Wrote(<<[Line("G38.2", Unknown, -4) EXCEPT !.f = c.v]>>, lost)
         [] c.c = "setz" ->
               Wrote(<<Line("G92", Unknown, Emitted(s, c.z))>>, [p EXCEPT !.z = Unknown])
         [] c.c = "tlo" ->
               IF s.post = "grbl" THEN Wrote(<<>>, p)
               ELSE Wrote(<<Plain("G43.1")>>, [p EXCEPT !.z = Unknown])
         [] c.c = "marker" -> Wrote(<<[Plain("OP") EXCEPT !.id = c.id]>>, p)
         [] c.c = "raw" -> Wrote(<<[Line(c.id, c.x, c.z) EXCEPT !.f = c.v]>>, p)

\* VS is in cm/s, a coarser unit than the feed, and never 0.
Speed(rate) == Biggest((rate + 2) \div 4, 1)

\* The plotter knows X (and Y): Z moves are pen moves, the rest is left out.
WriteHpgl(s, p, c) ==
    LET Pen(down) == IF p.pen = down THEN <<>>
                     ELSE <<Line(IF down THEN "PD" ELSE "PU", Unknown, Unknown)>>
        to == IF c.x = Unknown THEN p.x ELSE c.x
        Move(i) == IF to = Unknown THEN <<>> ELSE <<[Line("PA", to, Unknown) EXCEPT !.i = i]>>
        There(down) == [At(p, to, p.z) EXCEPT !.pen = down]
    IN CASE c.c = "rapid" -> Wrote(Pen(FALSE) \o Move(0), There(FALSE))
         [] c.c = "linear" -> Wrote(Pen(TRUE) \o Move(0), There(TRUE))
         [] c.c = "arc" ->
               Wrote(Pen(TRUE) \o Move(IF p.x = Unknown THEN 0 ELSE c.i), There(TRUE))
         [] c.c = "feed" ->
               IF c.v = 0 \/ Speed(c.v) = p.rate THEN Wrote(<<>>, p)
               ELSE Wrote(<<[Line("VS", Unknown, Unknown) EXCEPT !.f = Speed(c.v)]>>,
                          [p EXCEPT !.rate = Speed(c.v)])
         [] OTHER -> Wrote(<<>>, p)

WriteCall(s, p, c) == IF s.post = "hpgl" THEN WriteHpgl(s, p, c) ELSE WriteGcode(s, p, c)

\* Written(s, p, cs)[k]: the lines of the first k calls and the state they leave.
Written(s, p, cs) ==
    LET written[k \in 0 .. Len(cs)] ==
            IF k = 0 THEN Wrote(<<>>, p)
            ELSE LET w == written[k - 1]
                     n == WriteCall(s, w.post, cs[k])
                 IN Wrote(w.lines \o n.lines, n.post)
    IN written

Write(s, p, cs) == LET calls == Calls(s, cs) IN Written(s, p, calls)[Len(calls)]

-----------------------------------------------------------------------------
(* What a line makes the machine do.  A move of no length is no move; a    *)
(* machine-frame rapid or a probe leaves the work position unknown.        *)

\* The move, if it is one; op is the operation the preview tags it with.
Tagged(op, kind, from, to, i, feed) ==
    IF from = to /\ kind # "arc" THEN <<>>
    ELSE <<[kind |-> kind, from |-> from, to |-> to, i |-> i, feed |-> feed, op |-> op]>>

Move(kind, from, to, i, feed) == Tagged("none", kind, from, to, i, feed)

\* Z alone up, Z alone down, or a cut.
CutKind(from, to) ==
    IF from[1] # to[1] THEN "cut" ELSE IF to[2] > from[2] THEN "retract" ELSE "plunge"

DrillMoves(op, from, x, z, r, feed) ==
    Tagged(op, "rapid", from, <<x, from[2]>>, 0, 0)
    \o Tagged(op, "plunge", <<x, from[2]>>, <<x, z>>, 0, feed)
    \o Tagged(op, "retract", <<x, z>>, <<x, r>>, 0, feed)

\* A party's position and feed after a step, the moves it made and the dwell.
Did(ms, m, dwell) == [moves |-> ms, at |-> m, dwell |-> dwell]

\* The plotter has units of its own: HPGL's unit() does nothing.
Mm(s, v) == IF s.inch /\ s.post # "hpgl" THEN v * MmPerInch ELSE v

RunLine(s, m, l) ==
    LET from == <<m.x, m.z>>
        to == <<IF l.x = Unknown THEN m.x ELSE Mm(s, l.x),
                IF l.z = Unknown THEN m.z ELSE Mm(s, l.z)>>
        f == IF l.f = 0 THEN m.feed ELSE Mm(s, l.f)
        Then(kind) ==
            Did(Move(kind, from, to, Mm(s, l.i), IF kind = "rapid" THEN 0 ELSE f),
                Fed(At(m, to[1], to[2]), f), 0)
        Lost(x, z) == Did(<<>>, Fed(At(m, x, z), f), 0)
    IN CASE l.g = "G0" -> Then("rapid")
         [] l.g = "G1" -> Then(CutKind(from, to))
         [] l.g = "G2" -> Then("arc")
         [] l.g = "G81" ->
               Did(DrillMoves("none", from, to[1], to[2], Mm(s, l.r), f),
                   At(m, to[1], Mm(s, l.r)), l.p)
         [] l.g = "G4" -> Did(<<>>, m, l.p)
         [] l.g \in {"G53", "G28"} -> Lost(Unknown, Unknown)
         [] l.g = "G38.2" ->
               Did(Move("probe", from, <<m.x, Unknown>>, 0, f),
                   Fed(At(m, m.x, Unknown), f), 0)
         [] l.g = "G43.1" -> Lost(m.x, Unknown)
         [] l.g = "G92" -> Lost(m.x, to[2])
         [] l.g \in {"PU", "PD"} -> Did(<<>>, [m EXCEPT !.pen = l.g = "PD"], 0)
         [] l.g = "PA" ->
               Did(Move(IF l.i # 0 THEN "arc" ELSE IF m.pen THEN "cut" ELSE "rapid",
                        from, to, l.i, IF m.pen THEN f ELSE 0),
                   [m EXCEPT !.x = to[1]], 0)
         [] OTHER -> Lost(m.x, m.z)

-----------------------------------------------------------------------------
(* The interpreter: feed_line for the moves, feeds_per_segment and         *)
(* sum_g4_dwell_seconds for the estimate.                                  *)

\* The text of a number with digits behind a comma does not parse: 0.
Parsed(s, v) == IF s.sep = "," /\ v % 4 # 0 THEN 0 ELSE Mm(s, v)

\* Mutant of NonCutting: a probe is read as a move to its search distance.
NonCutting_Station(l) == l.g = "G53"

NonCutting(l) == l.g \in {"G53", "G38.2"}

ActiveCode(v, l) == IF l.g \in {"G0", "G1", "G2", "G81"} THEN l.g ELSE v.g

\* Mutant of ModalFeed: an F on a line of its own is not carried to the next.
ModalFeed_Own(v, l) == l.f

\* The F in force is the last one read, in the units it is written in.
ModalFeed(v, l) == IF l.f = 0 THEN v.feed ELSE l.f

SeeLine(s, v0, l) ==
    LET v == Fed(v0, ModalFeed(v0, l))
        from == <<v.x, v.z>>
        to == <<IF l.x = Unknown THEN v.x ELSE Parsed(s, l.x),
                IF l.g = "G43.1" THEN 0
                ELSE IF l.z = Unknown THEN v.z ELSE Parsed(s, l.z)>>
        code == ActiveCode(v, l)
        kind == CASE code = "G0" -> "rapid"
                  [] code = "G2" -> "arc"
                  [] code = "G1" ->
                        IF l.z = Unknown THEN "cut" ELSE CutKind(from, to)
    IN IF l.g = "OP"
       THEN Did(<<>>, IF s.numbered THEN v ELSE [v EXCEPT !.op = l.id], 0)
       ELSE IF NonCutting(l) THEN Did(<<>>, [v EXCEPT !.g = "G0"], 0)
       ELSE IF code = "G81"
       THEN Did(DrillMoves(v.op, from, to[1], to[2], Parsed(s, l.r), v.feed),
                [At(v, to[1], Parsed(s, l.r)) EXCEPT !.g = "G0"], 0)
       ELSE IF from = to
       THEN Did(<<>>, [v EXCEPT !.g = code], IF l.g = "G4" THEN l.p ELSE 0)
       ELSE Did(Tagged(v.op, kind, from, to, IF kind = "arc" THEN Parsed(s, l.i) ELSE 0,
                       IF kind = "rapid" THEN 0 ELSE v.feed),
                [At(v, to[1], to[2]) EXCEPT !.g = code], 0)

-----------------------------------------------------------------------------
(* What the operation asked for, call by call, from where the tool was.    *)

PlanCall(s, m, c) ==
    LET from == <<m.x, m.z>>
        to == <<IF c.x = Unknown THEN m.x ELSE c.x,
                IF c.z = Unknown \/ s.post = "hpgl" THEN m.z ELSE c.z>>
        across == <<m.x + 2 * c.i, to[2]>>
        feed == IF s.post = "hpgl" THEN Speed(c.v) ELSE c.v
        There == At(m, to[1], to[2])
        Known(x, z) == Did(<<>>, At(m, x, z), 0)
        Aside ==
            CASE c.c = "dwell" -> Did(<<>>, m, c.p)
              [] c.c \in {"station", "home"} -> Known(Unknown, Unknown)
              [] c.c = "probe" ->
                    Did(Move("probe", from, <<m.x, Unknown>>, 0, c.v), At(m, m.x, Unknown), 0)
              [] c.c = "setz" -> Known(m.x, c.z)
              [] c.c = "tlo" -> Known(m.x, IF s.post = "grbl" THEN m.z ELSE Unknown)
              [] OTHER -> Known(m.x, m.z)
    IN CASE c.c = "rapid" -> Did(Move("rapid", from, to, 0, 0), There, 0)
         [] c.c = "linear" -> Did(Move(CutKind(from, to), from, to, 0, m.feed), There, 0)
         [] c.c = "arc" ->
               Did(IF to[1] = m.x /\ s.post # "hpgl"
                   THEN Move("arc", from, across, c.i, m.feed)
                        \o Move("arc", across, to, -c.i, m.feed)
                   ELSE Move("arc", from, to, c.i, m.feed), There, 0)
         [] c.c = "drill" ->
               Did(DrillMoves("none", from, c.x, c.z, c.r, m.feed),
                   At(m, c.x, c.r), c.p)
         [] c.c = "feed" -> Did(<<>>, Fed(m, feed), 0)
         [] OTHER -> IF s.post = "hpgl" THEN Known(m.x, m.z) ELSE Aside

\* What a party makes of an item: the plan reads calls, the others lines.
Made(party, s, m, item) ==
    CASE party = "plan" -> PlanCall(s, m, item)
      [] party = "run" -> RunLine(s, m, item)
      [] party = "seen" -> SeeLine(s, m, item)

AndThen(d, n) == Did(d.moves \o n.moves, n.at, d.dwell + n.dwell)

\* Read(party, s, m, items)[k]: what it makes of the first k items.
Read(party, s, m, items) ==
    LET read[k \in 0 .. Len(items)] ==
            IF k = 0 THEN Did(<<>>, m, 0)
            ELSE LET d == read[k - 1] IN AndThen(d, Made(party, s, d.at, items[k]))
    IN read

Reading(party, s, m, items) == Read(party, s, m, items)[Len(items)]

-----------------------------------------------------------------------------
(* A Generate: program_begin, then per operation the reset, the envelope,  *)
(* and the body, fresh or from the cache.                                  *)

Opened(s) == Write(s, FreshPost, <<Lift>>)

ColdControl(s) == [x |-> Unknown, z |-> IF s.post = "hpgl" THEN 0 ELSE Unknown,
                   feed |-> 0, pen |-> FALSE]

FreshView == [x |-> 0, z |-> 0, g |-> "G0", op |-> "none", feed |-> 0]

NoReading == [plan |-> <<>>, run |-> <<>>, seen |-> <<>>, op |-> "none", dwells |-> <<0, 0, 0>>]

Begin(s) ==
    /\ post' = Opened(s).post
    /\ ctl' = Reading("run", s, ColdControl(s), Opened(s).lines).at
    /\ view' = Reading("seen", s, FreshView, Opened(s).lines).at
    /\ count' = 0
    /\ res' = NoReading

Init ==
    /\ setup \in Setups
    /\ post = Opened(setup).post
    /\ ctl = Reading("run", setup, ColdControl(setup), Opened(setup).lines).at
    /\ view = Reading("seen", setup, FreshView, Opened(setup).lines).at
    /\ cache = <<>>
    /\ count = 0
    /\ generation = 1
    /\ res = NoReading

\* What the cache key tells apart: the operation, not its boundary.
Key(o) == [kind |-> o.kind, v |-> o.v, h |-> o.h]

Emit(o) ==
    LET boundary == Write(setup, ResetState(setup, post), Envelope(o.change))
        hit == setup.cache /\ ~ ProgramOnly(o) /\ Key(o) \in DOMAIN cache
        fresh == Write(setup, boundary.post, Body(o))
        lines == boundary.lines \o (IF hit THEN cache[Key(o)].lines ELSE fresh.lines)
        plan == Reading("plan", setup, Fed(ctl, 0),
                        Calls(setup, Envelope(o.change) \o Body(o)))
        run == Reading("run", setup, ctl, lines)
        seen == Reading("seen", setup, view, IF setup.post = "hpgl" THEN <<>> ELSE lines)
    IN /\ count < MaxOps
       /\ count' = count + 1
       /\ post' = IF ProgramOnly(o) THEN ResetState(setup, fresh.post)
                  ELSE IF hit THEN RestoreState(setup, boundary.post, cache[Key(o)].exit)
                  ELSE fresh.post
       /\ cache' = IF hit \/ ProgramOnly(o) \/ ~ setup.cache THEN cache
                   ELSE [k \in DOMAIN cache \cup {Key(o)} |->
                            IF k = Key(o) THEN [lines |-> fresh.lines, exit |-> fresh.post]
                            ELSE cache[k]]
       /\ ctl' = run.at
       /\ view' = seen.at
       /\ res' = [plan |-> IF o.kind = "include" THEN run.moves ELSE plan.moves,
                  run |-> run.moves, seen |-> seen.moves, op |-> o.kind,
                  dwells |-> <<plan.dwell, run.dwell, seen.dwell>>]
       /\ UNCHANGED <<setup, generation>>

Regenerate ==
    /\ generation < MaxGenerates
    /\ count > 0
    /\ generation' = generation + 1
    /\ Begin(setup)
    /\ UNCHANGED <<setup, cache>>

Next == (\E o \in Operations : Emit(o)) \/ Regenerate

Spec == Init /\ [][Next]_vars

-----------------------------------------------------------------------------
Cut(m) == IF m.kind \in {"rapid", "probe"} THEN <<>> ELSE <<m>>
Cuts(ms) == Strung([k \in 1 .. Len(ms) |-> Cut(ms[k])])[Len(ms)]
Rapids(ms) == {ms[k] : k \in {j \in DOMAIN ms : ms[j].kind = "rapid"}}
Placed(m) == Unknown \notin {m.from[1], m.from[2], m.to[1], m.to[2]}

\* The same point, as far as the first party knows it.
Fits(a, b) == \A k \in 1 .. 2 : a[k] \in {Unknown, b[k]}

\* Type invariant: the machine and the post are where their types say.
PreviewTypeOK ==
    /\ setup \in Setups
    /\ count \in 0 .. MaxOps
    /\ generation \in 1 .. MaxGenerates
    /\ view.x # Unknown /\ view.z # Unknown
    /\ post.x \in {Unknown, ctl.x}
    /\ setup.post # "hpgl" => post.z \in {Unknown, ctl.z}
    /\ setup.post = "hpgl" => post.pen = ctl.pen

\* The machine makes the moves the operation planned, each at the feed commanded
\* for it: no word the posts leave out (an axis, an F, a VS) was needed, across
\* machine-frame moves, probes, canned cycles, split circles and cached bodies.
RunsAsPlanned == res.run = res.plan

\* Every cut starts where the machine knows it is; an included line may cut at once
\* behind a probe, whose touch the preview leaves out (preview.rs takes its Z as unmoved).
Charted(ms) == \A k \in DOMAIN Cuts(ms) : Unknown \notin {Cuts(ms)[k].from[1], Cuts(ms)[k].from[2]}

Shows(m, n) == m.kind = n.kind /\ Fits(n.from, m.from) /\ Fits(n.to, m.to) /\ m.i = n.i

\* The preview draws the cuts the machine makes and no others, each with the
\* operation that makes it, and the rapids wherever the machine's are known.
PreviewIsTheRun ==
    LET drawn == Cuts(res.seen)
        made == Cuts(res.run)
    IN setup.post # "hpgl" =>
        /\ Charted(res.run) =>
              /\ Len(drawn) = Len(made)
              /\ \A k \in DOMAIN made : Shows(drawn[k], made[k]) /\ drawn[k].op = res.op
        /\ \A m \in Rapids(res.seen) : \E n \in Rapids(res.run) : Shows(m, n)
        /\ \A n \in Rapids(res.run) : Placed(n) => \E m \in Rapids(res.seen) : Shows(m, n)

\* The time estimate reads each cut's feed as the machine runs it, and counts every
\* dwell written as G4. The P of a canned cycle (LinuxCNC's drill with a dwell) is
\* none: the machine waits, and the estimate counts nothing (timing.rs:154).
EstimateIsTheRun ==
    setup.post # "hpgl" =>
        /\ Charted(res.run) =>
              [k \in DOMAIN Cuts(res.seen) |-> Cuts(res.seen)[k].feed]
                  = [k \in DOMAIN Cuts(res.run) |-> Cuts(res.run)[k].feed]
        /\ res.dwells[1] = res.dwells[2]
        /\ res.dwells[3] = IF setup.post = "linuxcnc" /\ res.op = "dwell"
                           THEN 0 ELSE res.dwells[2]

\* timing.rs:76-78: "Drill dwell, post-finish dwell, and any other G4 P pause go
\* through here."
EveryDwellIsCounted == setup.post # "hpgl" => res.dwells[3] = res.dwells[2]
=============================================================================
