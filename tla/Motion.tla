------------------------------- MODULE Motion -------------------------------
(***************************************************************************)
(* The motion of one offset (gcode/emit.rs emit_offset and its helpers):   *)
(* approach, lead-in, the Z schedule with its plunge strategies and tabs,  *)
(* the clean-up after ramps, lead-out and retract.  Each phase writes its  *)
(* commands to todo; the machine executes them one by one, and floor       *)
(* records what they leave of the material along the contour.              *)
(*                                                                         *)
(* The contour is unrolled: a position on it is its arc length from the    *)
(* start, 0 .. Length(c), and a segment a stretch of it.  Positions off    *)
(* the contour have names.  Whirl, knife swivel and arc fitting change how *)
(* a segment is traced, not which, and are left out.                       *)
(***************************************************************************)
EXTENDS Integers, Sequences, FiniteSets, SequencesExt, Chains

CONSTANTS
    Cuts,       \* the resolved setups and contours emit_offset is called with
    FastZ       \* setup.mill.fast_move_z

Away    == -1   \* wherever the last op left the head
Hop     == -2   \* lead-in points: straight, arc
RollOn  == -3
HopOff  == -4   \* lead-out points: straight, arc
RollOff == -5
Spiral  == -6   \* on the circle of a helix entry: near and far side
FarSide == -7
Keep    == -99  \* an axis word that is not written

VARIABLES
    cut,        \* the element of Cuts being emitted
    phase,      \* "approach", "pass", "cleanup", "exit", "done"
    pass,       \* pass_idx
    todo,       \* commands emitted and not yet executed
    at, z,      \* where the tool is
    feed,       \* the modal F
    beam,       \* "off", "armed" (S0), "lit"
    floor       \* per unit of the contour, the height left at its two ends

vars == <<cut, phase, pass, todo, at, z, feed, beam, floor>>

-----------------------------------------------------------------------------
(* Commands of the post-processor *)

F(rate) == [op |-> "feed", rate |-> rate]
G0(p, h) == [op |-> "rapid", at |-> p, z |-> h]
G1(p, h) == [op |-> "cut", at |-> p, z |-> h]
Beam(b) == [op |-> "beam", to |-> b]

Abs(a) == IF a < 0 THEN -a ELSE a

\* The sequences ss, one after the other.
AsOne(ss) == Strung(ss)[Len(ss)]

-----------------------------------------------------------------------------
(* The contour *)

\* Summed(lens)[n]: the sum of the first n of lens.
Summed(lens) ==
    LET summed[n \in 0 .. Len(lens)] == IF n = 0 THEN 0 ELSE summed[n - 1] + lens[n]
    IN  summed

Vertex(c, i) == Summed([k \in 1 .. Len(c.segs) |-> c.segs[k].len])[i]
Length(c) == Vertex(c, Len(c.segs))

ClosedPath(c) == c.closed /\ Len(c.segs) >= 3

Forward(c) ==
    [i \in 1 .. Len(c.segs) |->
        [from |-> Vertex(c, i - 1), to |-> Vertex(c, i), arc |-> c.segs[i].arc]]

Reversed(c) ==
    LET seg == Reverse(Forward(c)) IN
    [i \in 1 .. Len(seg) |-> [seg[i] EXCEPT !.from = seg[i].to, !.to = seg[i].from]]

Chain(c, reversed) == IF reversed /\ ~ClosedPath(c) THEN Reversed(c) ELSE Forward(c)

-----------------------------------------------------------------------------
(* The Z schedule *)

TotalDepth(c) == c.depth - Max({c.through, 0})

Step(c) == IF c.step = 0 THEN Abs(TotalDepth(c)) ELSE Abs(c.step)

\* The depths of the list that are not above the start.
Listed(c) ==
    AsOne([i \in 1 .. Len(c.depthList) |->
            IF c.depthList[i] <= c.start THEN <<c.depthList[i]>> ELSE <<>>])

Schedule_SkipsClose(c) ==
    LET total == TotalDepth(c) IN
    IF c.depthList # <<>>
    THEN Listed(c)
    ELSE [i \in 1 .. Max({0, (c.start - total) \div Max({1, Step(c)}) - 1}) |->
            c.start - i * Step(c)] \o <<total>>

Schedule(c) ==
    LET total == TotalDepth(c)
        shallow ==
            [i \in 1 .. (IF total < c.start /\ Step(c) > 0
                         THEN (c.start - total - 1) \div Step(c) ELSE 0) |->
                c.start - i * Step(c)]
        thin == total + Abs(c.finishStep)
        spliced == /\ Step(c) > 0 /\ c.start # total
                   /\ (shallow = <<>> \/ Last(shallow) # thin)
                   /\ total < thin /\ thin < c.start
    IN IF c.depthList # <<>>
       THEN Listed(c)
       ELSE shallow \o (IF spliced THEN <<thin>> ELSE <<>>) \o <<total>>

-----------------------------------------------------------------------------
(* Walking a chain *)

Walk(c, chain) ==
    LET slow(i) == /\ c.sharp /\ i > 1
                   /\ ~chain[i].arc /\ ~chain[i - 1].arc
        leg(i) ==
            (IF i > 1 /\ slow(i) # slow(i - 1)
             THEN <<F(IF slow(i) THEN "corner" ELSE "rate_h")>> ELSE <<>>)
            \o <<G1(chain[i].to, Keep)>>
    IN AsOne([i \in 1 .. Len(chain) |-> leg(i)])
       \o (IF slow(Len(chain)) THEN <<F("rate_h")>> ELSE <<>>)

RampWalk_Unclamped(chain, fromZ, toZ, run) ==
    LET len(i) == Abs(chain[i].to - chain[i].from)
        upto(i) == Summed([j \in 1 .. Len(chain) |-> len(j)])[i]
    IN [i \in 1 .. Len(chain) |->
            G1(chain[i].to, fromZ + ((toZ - fromZ) * upto(i)) \div run)]

RampWalk(chain, fromZ, toZ, run) ==
    LET len(i) == Abs(chain[i].to - chain[i].from)
        before(i) == Summed([j \in 1 .. Len(chain) |-> len(j)])[i - 1]
        height(s) == fromZ + ((toZ - fromZ) * Min({s, run})) \div run
        towards(i, d) == IF chain[i].to > chain[i].from THEN chain[i].from + d
                                                        ELSE chain[i].from - d
        leg(i) ==
            IF before(i) < run /\ before(i) + len(i) > run /\ ~chain[i].arc
            THEN <<G1(towards(i, run - before(i)), toZ), G1(chain[i].to, toZ)>>
            ELSE <<G1(chain[i].to, height(before(i) + len(i)))>>
    IN AsOne([i \in 1 .. Len(chain) |-> leg(i)])

HelixWalk(c, fromZ, toZ) ==
    [i \in 1 .. Len(c.segs) |->
        G1(Vertex(c, i), fromZ + ((toZ - fromZ) * Vertex(c, i)) \div Length(c))]

HelixEntry(c, fromZ, toZ) ==
    IF fromZ = toZ THEN <<>>
    ELSE <<G1(Spiral, fromZ), G1(FarSide, (fromZ + toZ) \div 2), G1(Spiral, toZ)>>

-----------------------------------------------------------------------------
(* Tabs.  A tab is the stretch of the contour its disc covers, with the    *)
(* lift of its override or 0; on a closed contour it may span the start.   *)

TabsZ(c) == TotalDepth(c) + Abs(c.tabHeight)

UsesTabs_LastPass(c, depth) ==
    c.tabsActive /\ c.tabs # {} /\ depth = TotalDepth(c)

UsesTabs(c, depth) == c.tabsActive /\ c.tabs # {} /\ depth < TabsZ(c)

Spans(c) ==
    {[from |-> t.from + k, to |-> t.to + k, lift |-> t.lift] :
        t \in c.tabs, k \in IF c.closed THEN {0, -Length(c)} ELSE {0}}

TabTop(c, t, depth) == IF t.lift > 0 THEN depth + t.lift ELSE TabsZ(c)

\* The stretches of S by where they begin.
InOrder(S) ==
    CHOOSE q \in [1 .. Cardinality(S) -> S] :
        \A i, j \in 1 .. Cardinality(S) : i < j => q[i] # q[j] /\ q[i].from <= q[j].from

\* Merged(q)[n]: the first n stretches of q, those that overlap or touch as one.
Merged(q) ==
    LET merged[n \in 0 .. Len(q)] ==
            IF n = 0 THEN <<>>
            ELSE LET acc == merged[n - 1]
                     last == acc[Len(acc)]
                 IN IF acc # <<>> /\ q[n].from <= last.to
                    THEN [acc EXCEPT ![Len(acc)] =
                            [last EXCEPT !.to = Max({last.to, q[n].to}),
                                         !.top = Max({last.top, q[n].top})]]
                    ELSE Append(acc, q[n])
    IN  merged

LineWithTabs(c, a, b, depth) ==
    LET hit == {[from |-> Max({t.from, a}), to |-> Min({t.to, b}),
                 top |-> TabTop(c, t, depth)] :
                    t \in {s \in Spans(c) : s.from < b /\ s.to > a}}
        merged == Merged(InOrder(hit))[Cardinality(hit)]
        cursor(k) == IF k = 1 THEN a ELSE merged[k - 1].to
        over(i) ==
            LET ramp == c.tabRamp * (i.top - depth)
                middle == (i.from + i.to) \div 2
            IN IF ramp = 0
               THEN <<G1(Keep, i.top), G1(i.to, Keep),
                      F("rate_v"), G1(Keep, depth), F("rate_h")>>
               ELSE IF i.to - i.from < 2 * ramp
               THEN <<G1(middle, i.top), G1(i.to, depth)>>
               ELSE <<G1(i.from + ramp, i.top), G1(i.to - ramp, Keep),
                      G1(i.to, depth)>>
    IN AsOne([k \in 1 .. Len(merged) |->
            (IF merged[k].from > cursor(k) THEN <<G1(merged[k].from, Keep)>> ELSE <<>>)
            \o over(merged[k])])
       \o (IF cursor(Len(merged) + 1) < b THEN <<G1(b, Keep)>> ELSE <<>>)

Chord == 2      \* length of the chords an arc is cut into for ramped tabs

ArcWithTabs(c, a, b, depth) ==
    LET hit == {t \in Spans(c) : t.from <= b /\ t.to >= a}
        top == Max({TabTop(c, t, depth) : t \in hit})
    IN IF hit = {} THEN <<G1(b, Keep)>>
       ELSE IF c.tabRamp > 0
       THEN AsOne([k \in 1 .. (b - a) \div Chord |->
                LineWithTabs(c, a + (k - 1) * Chord, a + k * Chord, depth)])
       ELSE <<G1(Keep, top), G1(b, Keep),
              F("rate_v"), G1(Keep, depth), F("rate_h")>>

TabWalk(c, depth) ==
    LET seg == Forward(c)
        leg(s) == IF s.arc THEN ArcWithTabs(c, s.from, s.to, depth)
                           ELSE LineWithTabs(c, s.from, s.to, depth)
    IN AsOne([i \in 1 .. Len(seg) |-> leg(seg[i])])

-----------------------------------------------------------------------------
(* Lead-in and lead-out *)

\* An arc lead is demoted to a straight one on an open contour and where
\* its disc does not fit.
LeadKind(c, wanted) ==
    IF wanted = "arc" /\ ~(c.closed /\ c.arcFits) THEN "straight" ELSE wanted

StraightLead(c) == LeadKind(c, c.leadIn) = "straight"

LeadInCut(c) == IF StraightLead(c) THEN <<G1(0, Keep)>> ELSE <<>>

SinglePassMode(c) == c.plot \/ c.mode \in {"Drag", "Plasma"}

SingleZ(c) == IF c.mode = "Plasma" THEN c.cutHeight ELSE Min({c.depth, 0})

Approach_FiredEarly(c) ==
    (IF c.mode \in {"Laser", "Plasma"} THEN <<Beam("lit")>> ELSE <<>>)
    \o <<F("rate_h"), G0(IF StraightLead(c) THEN Hop ELSE 0, FastZ)>>
    \o <<F("rate_v"), G1(Keep, c.start), F("rate_h")>>

Approach(c) ==
    LET fire == IF c.mode \in {"Laser", "Plasma"} THEN <<Beam("lit")>> ELSE <<>>
        lead == LeadKind(c, c.leadIn)
        entry == CASE lead = "straight" -> Hop [] lead = "arc" -> RollOn [] OTHER -> 0
    IN (IF c.mode = "Laser" THEN <<Beam("armed")>> ELSE <<>>)
       \o <<F("rate_h"), G0(entry, FastZ)>>
       \o (IF c.mode = "Plasma"
           THEN <<G0(Keep, c.pierceHeight)>> \o fire
                \o <<F("rate_v"), G1(Keep, c.cutHeight)>>
           ELSE <<F("rate_v"), G1(Keep, c.start)>> \o fire)
       \o <<F("rate_h")>>
       \o (IF lead = "arc" THEN <<G1(0, Keep)>> ELSE <<>>)

Exit(c) ==
    LET lead == LeadKind(c, c.leadOut) IN
    (CASE lead = "straight" -> <<G1(HopOff, Keep)>>
       [] lead = "arc" -> <<G1(RollOff, Keep)>>
       [] OTHER -> <<>>)
    \o (IF c.mode \in {"Laser", "Plasma"} THEN <<Beam("off")>> ELSE <<>>)
    \o <<G0(Keep, FastZ)>>

-----------------------------------------------------------------------------
(* One pass of the schedule *)

HelixFits(c) == c.plunge = "helix" /\ ClosedPath(c) /\ c.helixFits

Ramps(c) == c.plunge = "ramp" \/ (c.plunge = "helix" /\ ~HelixFits(c))

Passes(c) == IF SinglePassMode(c) THEN 1 ELSE Len(Schedule(c))

PassCommands(c, k) ==
    LET depth == Schedule(c)[k]
        fromZ == IF k = 1 THEN c.start ELSE Schedule(c)[k - 1]
        chain == Chain(c, k % 2 = 0)
        tabs == UsesTabs(c, depth)
        run == Abs(fromZ - depth) * c.cot
        first == IF k = 1 /\ StraightLead(c)
                 THEN <<G1(chain[1].from, Keep)>> ELSE <<>>
        plunge == <<F("rate_v"), G1(Keep, depth), F("rate_h")>>
    IN IF SinglePassMode(c)
       THEN (IF c.mode = "Plasma" THEN <<>> ELSE <<F("rate_v"), G1(Keep, SingleZ(c))>>)
            \o <<F("rate_h")>> \o LeadInCut(c) \o Walk(c, Forward(c))
       ELSE IF c.helixMode /\ ClosedPath(c) /\ k > 1
       THEN <<F("rate_h")>> \o HelixWalk(c, fromZ, depth)
       ELSE IF HelixFits(c) /\ ~tabs
       THEN <<F("rate_h")>> \o HelixEntry(c, fromZ, depth)
            \o <<G0(Keep, FastZ), G0(0, FastZ)>> \o plunge \o Walk(c, Forward(c))
       ELSE IF Ramps(c) /\ ~tabs /\ run > 0 /\ run <= Length(c)
       THEN <<F("rate_h")>> \o first \o RampWalk(chain, fromZ, depth, run)
       ELSE plunge \o first
            \o (IF tabs THEN TabWalk(c, depth) ELSE Walk(c, chain))

NeedsCleanup_PlainRamp(c) ==
    ~SinglePassMode(c) /\ Schedule(c) # <<>> /\ c.plunge = "ramp" /\ (~c.tabsActive \/ c.tabs = {})

NeedsCleanup(c) ==
    ~SinglePassMode(c) /\ Schedule(c) # <<>> /\ Ramps(c) /\ (~c.tabsActive \/ c.tabs = {})

Cleanup_Forward(c) ==
    IF NeedsCleanup(c) THEN <<F("rate_h")>> \o Walk(c, Forward(c)) ELSE <<>>

Cleanup(c) ==
    IF NeedsCleanup(c)
    THEN <<F("rate_h")>> \o Walk(c, Chain(c, Len(Schedule(c)) % 2 = 1))
    ELSE <<>>

-----------------------------------------------------------------------------
(* The machine *)

Segment == [len : Nat \ {0}, arc : BOOLEAN]
TabStretch == [from : Int, to : Int, lift : Int]

Setup ==
    [mode : {"Mill", "Laser", "Drag", "Plasma"}, plot : BOOLEAN, closed : BOOLEAN,
     segs : Seq(Segment), start : Int, depth : Int, through : Int, step : Int,
     finishStep : Int, depthList : Seq(Int),
     plunge : {"direct", "ramp", "helix"}, helixFits : BOOLEAN, cot : Nat,
     helixMode : BOOLEAN, sharp : BOOLEAN, leadIn : {"off", "straight", "arc"},
     leadOut : {"off", "straight", "arc"}, arcFits : BOOLEAN, tabs : SUBSET TabStretch,
     tabsActive : BOOLEAN, tabHeight : Int, tabRamp : Nat,
     pierceHeight : Int, cutHeight : Int]

\* The heights the plan names.
Named(c) ==
    {c.start, c.pierceHeight, TotalDepth(c), SingleZ(c)} \cup ToSet(c.depthList)

\* emit_offset returns at once for an offset without segments.
ASSUME MotionAssumption ==
    /\ FastZ \in Int
    /\ Cuts \subseteq Setup
    /\ \A c \in Cuts :
        /\ c.segs # <<>>
        /\ \A i \in 1 .. Len(c.segs) : c.segs[i].arc => c.segs[i].len % Chord = 0
        /\ IsFiniteSet(c.tabs)
        /\ \A t \in c.tabs : t.from < t.to
        /\ \A h \in Named(c) : Keep < h

Units(c) == 1 .. Length(c)

\* The heights of the passes and of the stock.
Planned(c) ==
    {c.start} \cup (IF SinglePassMode(c) THEN {SingleZ(c)} ELSE ToSet(Schedule(c)))

Lowest(c) == Min(Planned(c))

\* The setup is cleared: rapids are made above all that the plan names, and
\* a torch pierces above the stock.  The code takes both as they are entered.
Clear(c) ==
    /\ c.start < FastZ /\ TotalDepth(c) <= FastZ /\ SingleZ(c) <= FastZ
    /\ c.mode = "Plasma" => c.start < c.pierceHeight /\ c.pierceHeight <= FastZ
    /\ c.tabsActive =>
        TabsZ(c) <= FastZ /\ \A t \in c.tabs : TabsZ(c) + t.lift <= FastZ

AllClear == \A c \in Cuts : Clear(c)

Init ==
    /\ cut \in Cuts
    /\ phase = "approach" /\ pass = 0 /\ todo = <<>>
    /\ at = Away /\ z = FastZ
    /\ feed = "none" /\ beam = "off"
    /\ floor = [u \in Units(cut) |-> <<cut.start, cut.start>>]

machine == <<at, z, feed, beam, floor>>

EmitApproach ==
    /\ phase = "approach" /\ todo = <<>>
    /\ todo' = Approach(cut)
    /\ phase' = IF Passes(cut) = 0 THEN "exit" ELSE "pass"
    /\ pass' = 1
    /\ UNCHANGED <<cut, machine>>

EmitPass ==
    /\ phase = "pass" /\ todo = <<>>
    /\ todo' = PassCommands(cut, pass)
    /\ IF pass = Passes(cut)
       THEN phase' = "cleanup" /\ pass' = pass
       ELSE phase' = phase /\ pass' = pass + 1
    /\ UNCHANGED <<cut, machine>>

EmitCleanup ==
    /\ phase = "cleanup" /\ todo = <<>>
    /\ todo' = Cleanup(cut)
    /\ phase' = "exit"
    /\ UNCHANGED <<cut, pass, machine>>

EmitExit ==
    /\ phase = "exit" /\ todo = <<>>
    /\ todo' = Exit(cut)
    /\ phase' = "done"
    /\ UNCHANGED <<cut, pass, machine>>

Next1(op) == todo # <<>> /\ Head(todo).op = op /\ todo' = Tail(todo)

SetFeed ==
    /\ Next1("feed")
    /\ feed' = Head(todo).rate
    /\ UNCHANGED <<cut, phase, pass, at, z, beam, floor>>

SetBeam ==
    /\ Next1("beam")
    /\ beam' = Head(todo).to
    /\ UNCHANGED <<cut, phase, pass, at, z, feed, floor>>

Word(axis, old) == IF axis = Keep THEN old ELSE axis

RapidMove ==
    /\ Next1("rapid")
    /\ at' = Word(Head(todo).at, at)
    /\ z' = Word(Head(todo).z, z)
    /\ UNCHANGED <<cut, phase, pass, feed, beam, floor>>

SameSegment(c, p, q) ==
    \E i \in 1 .. Len(c.segs) : {p, q} \subseteq Vertex(c, i - 1) .. Vertex(c, i)

\* The end of a closed contour is its start.
Here(c, p, q) ==
    IF c.closed /\ p = Length(c) /\ ~SameSegment(c, p, q) THEN 0 ELSE p

\* What a straight run from p at height zp to q at height zq leaves.
Swept(c, f, p, q, zp, zq) ==
    LET height(x) ==
            IF p < q THEN zp + ((zq - zp) * (x - p)) \div (q - p)
                     ELSE zq + ((zp - zq) * (x - q)) \div (p - q) IN
    [u \in Units(c) |->
        IF u > Min({p, q}) /\ u <= Max({p, q})
        THEN <<Min({f[u][1], height(u - 1)}), Min({f[u][2], height(u)})>>
        ELSE f[u]]

CutMove ==
    /\ Next1("cut")
    /\ at' = Word(Head(todo).at, at)
    /\ z' = Word(Head(todo).z, z)
    /\ LET p == Here(cut, at, at') IN
       floor' = IF p # at' /\ SameSegment(cut, p, at')
                THEN Swept(cut, floor, p, at', z, z') ELSE floor
    /\ UNCHANGED <<cut, phase, pass, feed, beam>>

Finished == phase = "done" /\ todo = <<>> /\ UNCHANGED vars

Next ==
    \/ EmitApproach \/ EmitPass \/ EmitCleanup \/ EmitExit
    \/ SetFeed \/ SetBeam \/ RapidMove \/ CutMove
    \/ Finished

Spec == Init /\ [][Next]_vars

-----------------------------------------------------------------------------
(* Properties *)

\* Every variable has its type, the tool is never below the deepest pass, and
\* what it leaves lies between that pass and the top of the stock.
MotionTypeOK ==
    /\ cut \in Cuts
    /\ phase \in {"approach", "pass", "cleanup", "exit", "done"}
    /\ pass \in 0 .. Max({1, Passes(cut)})
    /\ feed \in {"none", "rate_h", "rate_v", "corner"}
    /\ beam \in {"off", "armed", "lit"}
    /\ at \in FarSide .. Length(cut)
    /\ z \in Lowest(cut) .. FastZ
    /\ floor \in [Units(cut) -> Seq(Lowest(cut) .. cut.start)]

Moves == at' # at
FinalZ(c) == IF SinglePassMode(c) THEN SingleZ(c) ELSE Last(Schedule(c))

\* An open contour whose passes alternate ends where it began after an
\* even number of walks; clean-up is one more.
Walks(c) == Passes(c) + (IF NeedsCleanup(c) THEN 1 ELSE 0)

\* Every cutting move starts where the tool is and follows the contour: a
\* segment is walked from the point the tool stands on, a lead-in ends on
\* the start, a lead-out leaves from the end.  A move that does not is a
\* chord across the part.
Follows(c, p, q) ==
    \/ SameSegment(c, Here(c, p, q), q)
    \/ p \in {Hop, RollOn} /\ q = 0
    \/ q \in {HopOff, RollOff} /\ (p = Length(c) \/ (c.closed /\ p = 0))
    \/ q \in {Spiral, FarSide}

EveryCutFollows ==
    [][CutMove /\ Moves => Follows(cut, at, at')]_vars

\* emit.rs:539-547 and 677-681 hold it for closed contours; on open ones
\* the lead-out and the tab walk assume the tool at the end, and at the
\* start, of the contour.  With every depth of the list above the start
\* (emit.rs:507) a lead-out leaves from where the lead-in set the tool down.
CutsFollowTheContour ==
    [][/\ CutMove /\ Moves /\ Passes(cut) > 0
       /\ \/ cut.closed
          \/ ~cut.tabsActive /\ (at' >= 0 \/ Walks(cut) % 2 = 1)
       => Follows(cut, at, at')]_vars

\* No move takes more than one step of material off any point of the
\* contour, whatever entry each pass uses (a ramp leaves a slope the next
\* pass has to cut under).
Bites(limit) ==
    \A u \in Units(cut), e \in {1, 2} : floor[u][e] - floor'[u][e] <= limit

EveryBiteIsOneStep ==
    [][~SinglePassMode(cut) /\ cut.depthList = <<>> => Bites(Step(cut))]_vars

\* The slopes of consecutive ramps line up only where every pass ramps from
\* the same end: on a closed contour without tabs.
BiteIsOneStep ==
    [][~SinglePassMode(cut) /\ cut.depthList = <<>>
        => Bites(IF Ramps(cut) /\ (~ClosedPath(cut) \/ cut.tabsActive)
                 THEN 2 * Step(cut) ELSE Step(cut))]_vars

\* Where a tab must stand at full height: all of it if the cutter lifts
\* straight up, its middle if it ramps.
Stands(c, t, x) ==
    IF c.tabRamp = 0 THEN t.from <= x /\ x <= t.to ELSE 2 * x = t.from + t.to

\* The height of a tab: its own, or the op's; no higher than the stock.
Height(c, t) ==
    Min({c.start, TotalDepth(c) + (IF t.lift > 0 THEN t.lift ELSE Abs(c.tabHeight))})

\* The material left under a tab, and the tool when it stops inside one,
\* are never below the tab's height.
TabHolds(c, t) ==
    /\ \A u \in Units(c) :
         /\ Stands(c, t, u - 1) /\ u - 1 < t.to => floor[u][1] >= Height(c, t)
         /\ Stands(c, t, u) /\ u > t.from => floor[u][2] >= Height(c, t)
    /\ at >= 0 /\ t.from < at /\ at < t.to /\ Stands(c, t, at) => z >= Height(c, t)

EveryTabHolds == cut.tabsActive => \A t \in Spans(cut) : TabHolds(cut, t)

\* z_schedule.rs:21 descends; a list is taken as it is, and a finish step
\* wider than the last bite is spliced in above the pass before it (:56-75).
Descends(c) ==
    \A i \in 2 .. Len(Schedule(c)) : Schedule(c)[i] <= Schedule(c)[i - 1]

\* A tab holds unless it lies across the end of a segment (or of a chord of
\* a ramped arc), where the tab walk returns to depth, is higher than the
\* op's own tabs, has a height of its own (tabs.rs:163 counts it from the
\* pass) and a list goes below the op's depth, is ramped and meets another,
\* is on an open contour, the op spirals down the whole path, or a
\* pass ramps up from a deeper one.  A closed contour of one or two segments
\* is walked as an open one.
Seams(c) ==
    {Vertex(c, i) : i \in 0 .. Len(c.segs)}
        \cup {x \in 0 .. Length(c) :
                c.tabRamp > 0 /\ \E i \in 1 .. Len(c.segs) :
                    /\ c.segs[i].arc /\ Vertex(c, i - 1) < x /\ x < Vertex(c, i)
                    /\ (x - Vertex(c, i - 1)) % Chord = 0}

TabsHold ==
    /\ cut.tabsActive /\ ClosedPath(cut) /\ ~cut.helixMode
    /\ Ramps(cut) => Descends(cut)
    =>  \A t \in Spans(cut) :
            /\ t.lift <= Abs(cut.tabHeight)
            /\ t.lift > 0 => \A i \in 1 .. Len(Schedule(cut)) : Schedule(cut)[i] >= TotalDepth(cut)
            /\ \A x \in Seams(cut) : ~(t.from < x /\ x < t.to)
            /\ cut.tabRamp > 0 => \A o \in Spans(cut) \ {t} : o.to < t.from \/ t.to < o.from
            => TabHolds(cut, t)

TabUnit(c, u) == c.tabsActive /\ \E t \in Spans(c) : t.from < u /\ u - 1 < t.to

\* The walk lifts over the whole of an arc a rectangular tab touches.
LiftedArc(c, u) ==
    c.tabsActive /\ c.tabRamp = 0
    /\ \E i \in 1 .. Len(c.segs) :
        /\ c.segs[i].arc /\ Vertex(c, i - 1) < u /\ u <= Vertex(c, i)
        /\ \E t \in Spans(c) : t.from <= Vertex(c, i) /\ t.to >= Vertex(c, i - 1)

\* When the offset is finished, every part of the contour outside a tab has
\* been walked at the final depth: no ramp or spiral leaves a slope.
Flat(c, units) ==
    LET bottom == Min({FinalZ(c), c.start}) IN
    \A u \in units : TabUnit(c, u) \/ floor[u] = <<bottom, bottom>>

Complete == phase = "done" /\ todo = <<>> /\ Passes(cut) > 0

EveryFloorIsFlat == Complete => Flat(cut, Units(cut))

\* emit.rs:709-721 adds the clean-up for ramps only: the last lap of a spiral
\* down the path keeps its slope, and so does a last ramp above the tabs.
FloorIsFlat ==
    Complete /\ ~(cut.helixMode /\ ClosedPath(cut) /\ Passes(cut) > 1)
             /\ (Ramps(cut) /\ cut.tabsActive => UsesTabs(cut, FinalZ(cut)))
             /\ (ClosedPath(cut) \/ ~cut.tabsActive)
             /\ (Descends(cut) \/ cut.depthList = <<>>)
        => Flat(cut, {u \in Units(cut) : ~LiftedArc(cut, u)})

EveryRapidIsDark == [][RapidMove /\ Moves => beam # "lit"]_vars

\* A rapid across the table is made at clearance height, and only on the way
\* to the offset or from the circle of a helix entry back to the start of the
\* contour.  The way there is made in the dark; the way back is not, where a
\* laser is taken in by a helix: emit.rs:583-584 leaves the beam of the cut
\* lit.  No other rapid is.  A rapid downwards stays above the stock.  A
\* cutting move straight down is made at the plunge feed, every other at a
\* cutting feed.
FeedFits ==
    [][/\ RapidMove /\ Moves =>
            /\ z = FastZ /\ z' = FastZ
            /\ at = Away \/ (HelixFits(cut) /\ at' = 0)
            /\ (beam = "lit") <=> (at # Away /\ cut.mode = "Laser")
       /\ RapidMove /\ z' < z => z' > cut.start /\ beam = "off"
       /\ CutMove /\ ~Moves /\ z' < z => feed = "rate_v"
       /\ CutMove /\ Moves => feed \in {"rate_h", "corner"}]_vars

=============================================================================
