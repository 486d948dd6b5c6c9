------------------------------- MODULE Playback -------------------------------
(***************************************************************************)
(* The solid preview: Scene3D.svelte schedules a rebuild of the simulator   *)
(* when the program or the stock changes and moves it with the playhead;    *)
(* sim/driver.ts turns a playhead into carving calls, keeps checkpoints for *)
(* going back, collects warnings and feeds the mesh; ivac-wasm/src/sim.rs   *)
(* holds the material.                                                      *)
(*                                                                         *)
(* A segment is carved in two halves, each a cut [cells, lo, hi]; its check *)
(* warns when material stands higher than z in the columns it passes. A     *)
(* place is <<segments done, halves done of the next>>.                     *)
(***************************************************************************)
EXTENDS SolidMesh

CONSTANTS Programs,         \* a sequence of programs, each a sequence of segments
          MaxCheckpoints,   \* MAX_CHECKPOINTS
          MinSegments,      \* MIN_SEGMENTS_FOR_CHECKPOINTS
          Edits,            \* what may happen besides scrubs and rebuilds
          MaxEdits          \* bound on how often

ASSUME PlaybackAssumption ==
    /\ Programs \in Seq(Seq([tool : Nat, check : [cells : SUBSET Cells, z : Int],
                             halves : [1..2 -> [cells : SUBSET Cells, lo : Int, hi : Int]]]))
    /\ Programs # <<>> /\ \A p \in DOMAIN Programs : Programs[p] # <<>>
    /\ MaxCheckpoints \in Nat \ {0} /\ MinSegments \in Nat /\ MaxEdits \in Nat

VARIABLES app,      \* the project: program, version, stock, playhead, exact, mode
          timer,    \* the rebuild waiting for the edits to settle, or NoBuild
          waiting,  \* rebuilds waiting for the simulator to load
          loaded,   \* has the simulator loaded
          lastKey,  \* lastSimKey
          visible,  \* is the solid shown
          sim,      \* the simulator, or None
          driver,   \* the driver
          mesh,     \* its mesh
          warnings, \* the warnings published to the project: <<set>>, or NotRun
          edits     \* how often one of Edits has happened

vars == <<app, timer, waiting, loaded, lastKey, visible, sim, driver, mesh, warnings, edits>>

None == [toolpath |-> 0]         \* no simulator
NotRun == <<>>                   \* no warnings published, null
NoKey == [version |-> 0, stock |-> 0]
Length(p) == Len(Programs[p])
Segment(p, i) == Programs[p][i + 1]
Start == <<0, 0>>
End(p) == <<Length(p) - 1, 2>>
(* playheadToSegment: a boundary belongs to the segment that ends there. *)
Places(p) == {Start} \cup {<<i, t>> : i \in 0..Length(p) - 1, t \in 1..2}
Earlier(x, y) == x[1] < y[1] \/ (x[1] = y[1] /\ x[2] < y[2])
Within(place, p) == IF place[1] < Length(p) THEN place ELSE End(p)

(***************************************************************************)
(* The simulator.                                                          *)
(***************************************************************************)
NewSim(p) == [field |-> UncutField, toolpath |-> p, last |-> {}, dirty |-> {},
              cache |-> <<>>, checkpoints |-> <<>>]

Hull(S) == IF S = {} THEN {} ELSE Min(S)..Max(S)

CarveAt(s, c, cut) ==
    IF c \notin cut.cells THEN s
    ELSE [s EXCEPT !.field = CarveCell(@, c, cut.lo, cut.hi),
                   !.dirty = IF Dirties(s.field, c, cut.lo, cut.hi) THEN Hull(@ \cup {c}) ELSE @]

(* Carved(s, cut)[c]: the columns up to c are done.                        *)
Carved(s, cut) ==
    LET carved[c \in 0..Columns] == IF c = 0 THEN s ELSE CarveAt(carved[c - 1], c, cut)
    IN carved

Carve(s, cut) == Carved(s, cut)[Columns]

(* run_segment_warnings, on the material as it is now. *)
Warns(s, i) ==
    LET check == Segment(s.toolpath, i).check
    IN IF \E c \in check.cells : s.field.top[c] > check.z THEN {<<s.toolpath, i>>} ELSE {}

(* sweep_range_cached_dexel: one whole segment. *)
SweepSegment(s, i) ==
    LET known == i \in DOMAIN s.cache
        found == IF known THEN s.cache[i] ELSE Warns(s, i)
        halves == Segment(s.toolpath, i).halves
        noted == [s EXCEPT !.last = @ \cup found, !.cache = With(@, i, found)]
    IN Carve(Carve(noted, halves[1]), halves[2])

Fresh(s) == [s EXCEPT !.last = {}, !.dirty = {}]
PartialAdvance(s, i, from, to) ==
    LET begun == IF from = 0 THEN [Fresh(s) EXCEPT !.last = Warns(s, i)] ELSE Fresh(s)
        halves == Segment(s.toolpath, i).halves
        half == IF from = 0 THEN Carve(begun, halves[1]) ELSE begun
    IN IF to = 2 THEN Carve(half, halves[2]) ELSE half

SimReset(s) == [s EXCEPT !.field = UncutField, !.last = {}, !.dirty = {}]
Restored(s, at) == [s EXCEPT !.field = s.checkpoints[at], !.last = {}, !.dirty = Cells]
SetToolpath(s, p) == [s EXCEPT !.toolpath = p, !.cache = <<>>, !.checkpoints = <<>>]

NearestCheckpoint_Last(s, i) == Max({0} \cup DOMAIN s.checkpoints)

NearestCheckpoint(s, i) == Max({0} \cup {n \in DOMAIN s.checkpoints : n <= i})

(***************************************************************************)
(* planAdvance: from the place reached, or back from a checkpoint, to the   *)
(* target.                                                                  *)
(***************************************************************************)
Backward(at, target) == Earlier(target, at)
Plan_Unsnapped(at, target, total, replayFrom) ==
    LET from == IF Backward(at, target) THEN <<Min({replayFrom, target[1]}), 0>> ELSE at
        bulkFrom == IF target[1] > from[1] /\ from[2] = 1 THEN from[1] + 1 ELSE from[1]
        startT == IF target[1] > from[1] THEN 0 ELSE from[2]
    IN [reset |-> Backward(at, target),
        finalize |-> target[1] > from[1] /\ from[2] = 1, finalizeSeg |-> from[1],
        bulk |-> target[1] > bulkFrom, from |-> bulkFrom, to |-> target[1],
        start |-> target[2] > startT, startT |-> startT, endT |-> target[2], at |-> target]

Plan(at, target, total, replayFrom) ==
    LET from == IF Backward(at, target) THEN <<Min({replayFrom, target[1]}), 0>> ELSE at
        finalize == target[1] > from[1] /\ from[2] = 1
        bulkFrom == IF finalize THEN from[1] + 1 ELSE from[1]
        bulk == target[1] > bulkFrom
        startT == IF target[1] > from[1] THEN 0 ELSE from[2]
        start == target[2] > startT
        ended == <<target[1], IF start THEN target[2] ELSE startT>>
    IN [reset |-> Backward(at, target),
        finalize |-> finalize, finalizeSeg |-> from[1],
        bulk |-> bulk, from |-> bulkFrom, to |-> target[1],
        start |-> start, startT |-> startT, endT |-> target[2],
        at |-> IF ended[2] = 2 /\ ended[1] < total - 1 THEN <<ended[1] + 1, 0>> ELSE ended]

(***************************************************************************)
(* The driver. x is what advanceTo carries along: the simulator, the        *)
(* warnings gathered and the region carved.                                 *)
(***************************************************************************)
NoDriver == [built |-> [program |-> 0, stock |-> 0], cached |-> 0, at |-> Start, warned |-> {}, interval |-> 0,
             lastCheckpoint |-> 0, warnedAt |-> <<>>]

Interval(total) ==
    IF total > MinSegments THEN (total + MaxCheckpoints - 1) \div MaxCheckpoints ELSE 0
ResetCheckpoints(d, total) ==
    [d EXCEPT !.interval = Interval(total), !.lastCheckpoint = 0, !.warnedAt = <<>>]

Carried(x, s) == [x EXCEPT !.sim = s, !.region = Hull(@ \cup s.dirty)]
CollectDiagnostics(x) == [x EXCEPT !.warned = @ \cup x.sim.last, !.sim.last = {}]

Finalize(x, plan) ==
    IF ~plan.finalize THEN x
    ELSE CollectDiagnostics(Carried(x, PartialAdvance(x.sim, plan.finalizeSeg, 1, 2)))

(* Consecutive segments with one tool are one call of advance.             *)
StartsRun(p, from, i) == i = from \/ Segment(p, i).tool # Segment(p, i - 1).tool
SimAdvance(x, from, i) ==
    LET s == IF StartsRun(x.sim.toolpath, from, i) THEN Fresh(x.sim) ELSE x.sim
    IN Carried(x, SweepSegment(s, i))

(* Swept(x, from, to)[n]: the segments before n are done.                  *)
Swept(x, from, to) ==
    LET swept[n \in from..to] == IF n = from THEN x ELSE SimAdvance(swept[n - 1], from, n - 1)
    IN swept

Bulk(x, plan) ==
    IF ~plan.bulk THEN x
    ELSE CollectDiagnostics(Swept(x, plan.from, plan.to)[plan.to])

StartPartial(x, plan) ==
    IF ~plan.start THEN x
    ELSE CollectDiagnostics(Carried(x, PartialAdvance(x.sim, plan.to, plan.startT, plan.endT)))

(* Going back: from a checkpoint with its warnings, or from the start. *)
Rewound_WarningsLost(x, d, replayFrom) ==
    [x EXCEPT !.sim = IF replayFrom > 0 THEN Restored(@, replayFrom) ELSE SimReset(@),
              !.warned = {}]

Rewound(x, d, replayFrom) ==
    IF replayFrom > 0
    THEN [x EXCEPT !.sim = Restored(@, replayFrom), !.warned = d.warnedAt[replayFrom]]
    ELSE [x EXCEPT !.sim = SimReset(@), !.warned = {}]

MaybeCheckpoint(x, d) ==
    IF /\ d.interval > 0 /\ d.at[2] = 0 /\ d.at[1] > 0
       /\ d.at[1] >= d.lastCheckpoint + d.interval
    THEN [sim |-> [x.sim EXCEPT !.checkpoints = With(@, d.at[1], x.sim.field)],
          driver |-> [d EXCEPT !.lastCheckpoint = d.at[1],
                               !.warnedAt = With(@, d.at[1], x.warned)]]
    ELSE [sim |-> x.sim, driver |-> d]

(* The toolpath changed without a rebuild. *)
Recached(x, d, p) ==
    IF d.cached = p THEN [x |-> x, driver |-> d]
    ELSE [x |-> [x EXCEPT !.sim = SetToolpath(@, p)],
          driver |-> ResetCheckpoints([d EXCEPT !.cached = p], Length(p))]

(* What advanceTo leaves, with x carved on and d its driver: the mesh and    *)
(* the warnings the project is told.                                        *)
Arrived(st, plan, drawn, x, d) ==
    LET done == MaybeCheckpoint(x, [d EXCEPT !.at = plan.at, !.warned = x.warned])
    IN [sim |-> done.sim, driver |-> done.driver,
        mesh |-> UpdateHeights(drawn, x.sim.field.top,
                     IF x.region = {} \/ plan.reset THEN Cells ELSE x.region),
        warnings |-> IF plan.reset \/ x.warned # st.driver.warned
                     THEN <<x.warned>> ELSE st.warnings]

(* advanceTo, from a state st = [sim, driver, mesh, warnings]. *)
AdvanceTo(st, target, p, exact) ==
    LET back == Backward(st.driver.at, target)
        nearest == NearestCheckpoint(st.sim, target[1])
        replayFrom == IF back /\ exact /\ st.driver.interval > 0 THEN nearest ELSE 0
        plan == Plan(st.driver.at, target, Length(p), replayFrom)
        x0 == [sim |-> st.sim, warned |-> st.driver.warned, region |-> {}]
        x1 == IF plan.reset THEN Rewound(x0, st.driver, replayFrom) ELSE x0
        drawn == IF plan.reset THEN UpdateHeights(st.mesh, x1.sim.field.top, Cells) ELSE st.mesh
        r == Recached(x1, st.driver, p)
    IN IF target = st.driver.at \/ (plan.reset /\ ~exact) THEN st
       ELSE Arrived(st, plan, drawn, StartPartial(Bulk(Finalize(r.x, plan), plan), plan), r.driver)

(* build: a new simulator and mesh for program p. *)
Built(p, stock) ==
    [sim |-> NewSim(p),
     driver |-> ResetCheckpoints([NoDriver EXCEPT !.built = [program |-> p, stock |-> stock],
                                                  !.cached = p], Length(p)),
     mesh |-> NewMesh,
     warnings |-> <<{}>>]

Becomes(st) ==
    /\ sim' = st.sim /\ driver' = st.driver /\ mesh' = st.mesh /\ warnings' = st.warnings

(***************************************************************************)
(* The effects of Scene3D.                                                  *)
(***************************************************************************)
NoBuild == [program |-> 0]
Key(a) == [version |-> a.version, stock |-> a.stock]

RebuildEffect_KeepsTimer(a) ==
    IF a.mode = "wireframe" \/ a.program = 0 THEN visible' = FALSE /\ UNCHANGED timer
    ELSE IF Key(a) = lastKey THEN visible' = TRUE /\ UNCHANGED timer
    ELSE /\ timer' = IF timer # NoBuild THEN timer
                     ELSE [program |-> a.program, key |-> Key(a)]
         /\ UNCHANGED visible

(* The rebuild effect. An early return leaves a waiting rebuild alone. *)
RebuildEffect(a) ==
    IF a.mode = "wireframe" \/ a.program = 0 THEN visible' = FALSE /\ UNCHANGED timer
    ELSE IF Key(a) = lastKey THEN visible' = TRUE /\ UNCHANGED timer
    ELSE timer' = [program |-> a.program, key |-> Key(a)] /\ UNCHANGED visible

(* The playhead effect; published is what the project holds by then. *)
PlayheadEffect(a, published) ==
    LET st == [sim |-> sim, driver |-> driver, mesh |-> mesh, warnings |-> published]
    IN IF sim = None \/ a.program = 0 THEN Becomes(st)
       ELSE Becomes(AdvanceTo(st, a.playhead, a.program, a.exact))

Init ==
    /\ app = [program |-> 1, version |-> 1, stock |-> 1, playhead |-> End(1),
              exact |-> TRUE, mode |-> "solid"]
    /\ timer = [program |-> 1, key |-> Key(app)]
    /\ waiting = <<>> /\ loaded = FALSE /\ lastKey = NoKey /\ visible = FALSE
    /\ sim = None /\ driver = NoDriver /\ mesh = NewMesh /\ warnings = NotRun
    /\ edits = 0

(* An update of the mesh counts too when it overtakes the frame that should  *)
(* have sent the one before: two within a frame, or one of a hidden solid.   *)
Overtaking == IF sim # None /\ ~UpToDate(mesh) THEN {"overtake"} ELSE {}
Changes(kinds) ==
    /\ kinds \subseteq Edits
    /\ edits' = edits + Cardinality(kinds) /\ edits' \in 0..MaxEdits

Scrub ==
    /\ app.program # 0
    /\ \E place \in Places(app.program) : app' = [app EXCEPT !.playhead = place]
    /\ PlayheadEffect(app', warnings)
    /\ Changes(Overtaking)
    /\ UNCHANGED <<timer, waiting, loaded, lastKey, visible>>

(* setGenerated: the playhead goes to the end and old warnings go. *)
Generated ==
    /\ Changes({"generate"} \cup Overtaking)
    /\ app.version < Len(Programs)
    /\ app' = [app EXCEPT !.version = @ + 1, !.program = app.version + 1,
                          !.playhead = End(app.version + 1)]
    /\ RebuildEffect(app')
    /\ PlayheadEffect(app', NotRun)
    /\ UNCHANGED <<waiting, loaded, lastKey>>

StockEdited ==
    /\ Changes({"stock"})
    /\ app' = [app EXCEPT !.stock = 3 - @]
    /\ RebuildEffect(app')
    /\ UNCHANGED <<waiting, loaded, lastKey, sim, driver, mesh, warnings>>

Cleared ==
    /\ Changes({"clear"})
    /\ app' = [app EXCEPT !.program = 0]
    /\ RebuildEffect(app')
    /\ warnings' = NotRun
    /\ UNCHANGED <<waiting, loaded, lastKey, sim, driver, mesh>>

ModeSwitched ==
    /\ Changes({"mode"})
    /\ app' = [app EXCEPT !.mode = IF @ = "solid" THEN "wireframe" ELSE "solid"]
    /\ RebuildEffect(app')
    /\ UNCHANGED <<waiting, loaded, lastKey, sim, driver, mesh, warnings>>

ExactSwitched ==
    /\ Changes({"exact"} \cup Overtaking)
    /\ app' = [app EXCEPT !.exact = ~@]
    /\ PlayheadEffect(app', warnings)
    /\ UNCHANGED <<timer, waiting, loaded, lastKey, visible>>

(* The export of the solid grows the memory and detaches the mesh's view. *)
StlExported ==
    /\ sim # None /\ mesh.view
    /\ mesh' = [mesh EXCEPT !.view = FALSE]
    /\ UNCHANGED <<app, timer, waiting, loaded, lastKey, visible, sim, driver, warnings, edits>>

(* The debounce runs out; the build waits until the simulator has loaded. *)
RebuildFires ==
    /\ timer # NoBuild
    /\ timer' = NoBuild
    /\ waiting' = Append(waiting, timer)
    /\ UNCHANGED <<app, loaded, lastKey, visible, sim, driver, mesh, warnings, edits>>

Loads ==
    /\ ~loaded /\ waiting # <<>>
    /\ loaded' = TRUE
    /\ UNCHANGED <<app, timer, waiting, lastKey, visible, sim, driver, mesh, warnings, edits>>

(* The program is the one captured, the stock and the playhead are today's. *)
Rebuilds ==
    /\ loaded /\ waiting # <<>>
    /\ LET job == Head(waiting)
       IN /\ Becomes(AdvanceTo(Built(job.program, app.stock),
                               Within(app.playhead, job.program), job.program, FALSE))
          /\ lastKey' = job.key
    /\ visible' = (app.mode # "wireframe")
    /\ waiting' = Tail(waiting)
    /\ UNCHANGED <<app, timer, loaded, edits>>

(* A zoom out counts twice, for the way back in as well. *)
Zooms ==
    /\ sim # None
    /\ Changes((IF mesh.level = 0 THEN {"out", "in"} ELSE {}) \cup Overtaking)
    /\ mesh' = SetActiveLevel(mesh, sim.field.top, 1 - mesh.level)
    /\ UNCHANGED <<app, timer, waiting, loaded, lastKey, visible, sim, driver, warnings>>

(* A frame, whenever one is due: it sends nothing of a solid that is hidden. *)
Renders ==
    /\ sim # None /\ visible /\ ~UpToDate(mesh)
    /\ mesh' = Frame(mesh)
    /\ UNCHANGED <<app, timer, waiting, loaded, lastKey, visible, sim, driver, warnings, edits>>

Next ==
    \/ Scrub \/ Generated \/ StockEdited \/ Cleared \/ ModeSwitched \/ ExactSwitched
    \/ RebuildFires \/ Loads \/ Rebuilds \/ Zooms \/ Renders

(* Timers fire, the simulator loads, and what waits for it runs: the step   *)
(* that takes a job from the queue is Rebuilds.                             *)
TakesJob == loaded /\ waiting # <<>> /\ waiting' = Tail(waiting)
Fairness == WF_vars(RebuildFires) /\ WF_vars(Loads) /\ WF_waiting(TakesJob)

Spec == Init /\ [][Next]_vars /\ Fairness
ExportSpec == Init /\ [][Next \/ StlExported]_vars /\ Fairness

(***************************************************************************)
(* What must hold.                                                          *)
(***************************************************************************)
PlaybackTypeOK ==
    /\ app.program \in 0..Len(Programs) /\ app.version \in 1..Len(Programs)
    /\ \A k \in Levels : mesh.levels[k].ranges \subseteq 1..Width(k)
    /\ sim # None =>
        /\ driver.at[1] \in 0..Length(driver.cached) - 1 /\ driver.at[2] \in 0..2
        /\ driver.at[2] = 2 => driver.at = End(driver.cached)
        /\ Cardinality(DOMAIN sim.checkpoints) <= MaxCheckpoints
        /\ DOMAIN sim.checkpoints = DOMAIN driver.warnedAt
    /\ edits \in 0..MaxEdits

OnOwnProgram == sim # None /\ driver.cached = driver.built.program

(* The halves carved before a place, and what they leave of a column. *)
Done(at) == {k \in (0..at[1]) \X (1..2) : k[1] < at[1] \/ k[2] <= at[2]}
Removed(p, at, c) ==
    UNION {LET cut == Segment(p, k[1]).halves[k[2]]
           IN IF c \in cut.cells THEN cut.lo..cut.hi - 1 ELSE {} : k \in Done(at)}
Remaining(p, at, c) == Slabs \ Removed(p, at, c)
Surface(material) == IF material = {} THEN StockBottom ELSE Max(material) + 1
HasVoid(material) == material # StockBottom..Surface(material) - 1

ColumnIs(c, material) ==
    /\ SolidAt(sim.field, c) = material
    /\ Max({StockBottom, sim.field.top[c]}) = Surface(material)
    /\ c \in DOMAIN sim.field.undercut <=> HasVoid(material)

(* The solid is the stock less everything the program has cut up to the     *)
(* playhead, however the playhead came there; where going back is off, up to *)
(* the furthest place it has been.                                          *)
FieldIsPrefix ==
    OnOwnProgram =>
        /\ \A c \in Cells : ColumnIs(c, Remaining(driver.cached, driver.at, c))
        /\ app.program = driver.cached =>
            /\ Done(app.playhead) \subseteq Done(driver.at)
            /\ app.exact => Done(driver.at) = Done(app.playhead)

Before(i) == Done(<<i, 0>>)
(* The warnings a program earns up to a place. *)
Earned(p, at) ==
    {<<p, i>> : i \in {j \in 0..Length(p) - 1 :
        /\ <<j, 1>> \in Done(at)
        /\ \E c \in Segment(p, j).check.cells :
               Surface(Remaining(p, <<j, 0>>, c)) > Segment(p, j).check.z}}

(* The project holds the warnings of the cuts up to the playhead, no more   *)
(* and no less.                                                             *)
WarningsAreThePrefixs ==
    OnOwnProgram /\ driver.built.program = app.program /\ warnings # NotRun
        => warnings = <<Earned(driver.cached, driver.at)>>

(* After a frame the screen shows the material, a wall beside each step of  *)
(* it too, in every cell but those whose range an update dropped unsent, one *)
(* that overtook the frame or found the solid hidden; such a cell is wrong   *)
(* only until it is next redrawn.                                           *)
ScreenShowsTheField == sim # None /\ UpToDate(mesh) => ShowsTops(mesh, sim.field.top)

(* Warnings shown are those of the program shown.                           *)
WarningsAreOwn == warnings # NotRun => \A w \in warnings[1] : w[1] = app.program

(* When the edits end the solid shown is that of the project, with one      *)
(* exception: it was built from a stock other than the one its key names,    *)
(* and that key is today's. The early return left a rebuild waiting that was *)
(* no longer due; it built the stock of the moment under its own, older key, *)
(* so a later change to the stock of that key rebuilds nothing.             *)
SolidIsCurrent ==
    /\ visible <=> app.mode = "solid"
    /\ visible => driver.built = [program |-> app.program, stock |-> app.stock]
BuiltUnderAnotherKey ==
    /\ visible <=> app.mode = "solid"
    /\ driver.built.program = app.program
    /\ lastKey = Key(app) /\ lastKey.stock # driver.built.stock
SolidCatchesUp == <>[](app.program # 0 => SolidIsCurrent \/ BuiltUnderAnotherKey)

(* Once the program is gone, so is its solid.                               *)
GoneWithTheProgram == <>[](app.program = 0 => ~visible)
=============================================================================
