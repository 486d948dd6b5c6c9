# A TLA+ verification of ivacam

ivacam is a CAM program: it turns drawings and a list of machining operations
into G-code for a mill, laser, plasma torch or plotter. `ivac-core` (Rust) is the
engine. A desktop shell (`ivac-tauri`), a server (`ivac-server`), a command line
(`ivac-cli`) and a WebAssembly build (`ivac-wasm`) wrap it for one Svelte front
end. Most of the code is geometry. What is *stateful* decides what the machine does
between two cuts and along one, how the program is read back, and what the user sees
between two clicks. This project models these.

## Inventory

| Part | State | Operations | What makes it correct |
|---|---|---|---|
| `run_per_op` loop (`pipeline.rs`) | `prev_tool_id`, warnings, position in the op list | boundary, program-only ops, cache round, drivers, `program_end` | the program is safe line by line; the tool believed held is held |
| tool-change envelope (`pipeline.rs`) | the post | lift, station, coolant off, spindle stop, swap, Z, spin-up | a change finds the machine stopped, dry and clear |
| dialect post (`gcode/linuxcnc.rs`, `PostState`) | the words last written (delta encoding) | one method per word, `reset_state`, capture and restore | a word is left out only if it is in force |
| op cache (`pipeline_cache.rs`) | LRU of op bodies, shared by Generates | `get`, `put` | a replay is what planning again would give |
| operation order (`order_ops_by_tool`) | none | grouping by tool between barriers | nothing crosses a pause, probe or pinned op |
| drivers (`op_drivers/*`) | none | blocks, spot pre-pass, finish pass with its own change | they say truly whether they changed tools |
| estimator (`count_tool_changes`, `spindle_warmup_seconds`) | none | two walks over the declared ops | they agree with the program |
| motion of a cut (`gcode/emit.rs`, `tabs.rs`, `z_schedule.rs`) | head position, feed, beam, the pass | approach, lead, plunge, passes, tabs, clean-up, retract | the floor is reached and flat, tabs stand, no bite is too deep |
| preview and time estimate (`gcode/preview.rs`, `sim/timing.rs`) | modal words of the interpreter | one line after the other | they read the program as the controller does |
| GRBL and HPGL posts | as the dialect post; pen and speed | as the dialect post | as the dialect post |
| sink, CPS engine | line buffers, tee, recorded events | emit, checkpoint, overflow | streaming equals buffering |
| simulator (`sim/dexel.rs`, `ivac-wasm/src/sim.rs`) | columns of material, checkpoints, sweep cache, warnings | advance, rewind, checkpoint, restore | the solid is the stock less what was cut |
| solid preview (`Scene3D.svelte`, `sim/driver.ts`, `heightfield_mesh.ts`) | rebuild timer, place, warnings, mesh and its view of memory | rebuild, scrub, zoom, frame | the screen shows the playhead's solid of today's project |
| CAM primitives, importers | none that outlives a call | geometry in floating point | numeric accuracy |
| server and desktop streams | cancel-token maps, listener handshake | start, cancel, events, result | one outcome per run; a cancel reaches its own run |
| file watcher | watch set, last emission per path | `set_paths`, debounce | the last write of a burst is seen |
| undo history (front end) | undo and redo stacks, transaction, dirty flag | exec, undo, redo, coalesce, commit | redo after undo restores; clean means saved |
| Generate life cycle (front end) | run state, result, timers | start, cancel, finish, edit | one run at a time; the bar tells the truth |
| workspace (front end) | the file saved, imports, settings | save, open, clear, reload a drawing | no work is lost unasked |
| worker client (front end) | pending calls, the worker | call, answer, abort, failure | each call settles once |
| text preview (front end) | cache, debounce timers, generations | request, dispatch, answer, reset | the newest text wins |

How they interact: a front end sends a project to a shell or server, which starts
a Generate on its own thread with a cancel token and the process-wide op cache;
`run_pipeline_impl` builds the objects, calls `run_per_op` with a fresh post, then
the preview and the estimate read the finished text. The token is the only state
shared while a Generate runs; the cache is the only state that survives it.

The hard behaviours are listed one by one, each at its line, in `PROJECT.json`
under `hazards`: state left out of a cache key, words left out of a program, an
envelope left out at a boundary, a cancel at any moment, and, in the front end
and the shells, late answers, timers and lost events.

## Modules

| Module | Models |
|---|---|
| `Gcode` | the lines of a program, the post's methods as functions from post state to line and next state, and the machine that runs a line |
| `OpOrder` | an operation, and `order_ops_by_tool` as a predicate on permutations |
| `PerOp` | the Generates: `run_per_op` with the envelope, the program-only ops, the drivers' scripts, the op cache and `program_end` |
| `ToolProtocol` | the abstract specification: what any program may do to the machine, as a state machine over the machine alone |
| `ToolCount` | the estimator's two walks, beside what `PerOp` emitted |
| `Motion` | one offset of a cut: approach, leads, Z schedule, plunge strategies, tabs, clean-up, retract, for mill, laser, plasma and drag knife |
| `Preview` | the three posts' motion words, the controller that runs them, and the interpreter behind preview and estimate, over fresh and replayed bodies |
| `UndoLog` | the abstract specification of an undo stack: a document, a past and a future |
| `History` | the undo history of commands, with coalescing, transactions and the dirty flag |
| `Session` | `History` composed with Generate, Save, Open and the reload of a drawing |
| `GenerateCall` | the abstract specification of `WiacClient.generateStreaming` |
| `GenerateStream` | it over HTTP: handlers, worker threads, channel, token map and the browser's reader |
| `ShellStream` | it in the desktop shell: two registries, a parked worker, broadcast events |
| `WorkerClient` | it in a web worker that calls share and that is terminated to cancel |
| `Dexel` | the columns of material and the two forms a column is kept in |
| `SolidMesh` | the two levels of the mesh that shows them, and what reaches the graphics card |
| `Playback` | `Dexel` and `SolidMesh` composed with the simulator, its driver and the scene's rebuilds |
| `TextPreview` | the debounced renders of text layers |
| `Chains` | sequences strung one behind the other: the lines of a program, the moves of its lines |
| `Induction_proofs` | least elements and induction over sets of natural numbers, and what `Chains` makes of a sequence |
| `PerOp_proofs` | lemmas about the post and machine, the safety of fresh emission, the count of its tool changes; what the op cache holds, what a run reports, replays, and with which tool, and that no tool changes on a running machine |
| `Motion_proofs` | the programs of one offset: each command fits where the one before left the tool, and the last leaves the contour flat |
| `GenerateCalls_proofs` | the three transports: tokens, ids, verdicts, and that they keep `GenerateCall` |
| `TextPreview_proofs`, `Session_proofs` | the text preview; the undo history and its refinement, and the session |
| `Playback_proofs` | the solid preview: columns, sweeps, plans, checkpoints, mesh, and what they add up to |
| `Preview_proofs` | the posts and the machine: that a program runs as its operations planned it |
| `MC...` | values of the constants for TLC. `MCGenerateCalls` also composes the three transports; a behaviour uses one |

### How PerOp corresponds to the code

`pc` is the place in `run_per_op`; a step is one call that reaches the post.
`queue` is `enabled_ops` after grouping, `idx` the loop's index, `op` its
operation.

* `Generate`/`StartGenerate`: `program_begin` and the ordering; the post is fresh,
  the cache is the one the last Generate left. The header's one line that matters
  here is its lift.
* `BeginOp`: the poll of the token, `reset_state`, `specialty_will_emit`, and the
  decision of `emit_boundary_toolchange`. `Mark` sets `body_marker` and dispatches.
* `EnvLift` ... `EnvSpinUp`: `emit_toolchange_envelope` in the order of its calls,
  for the three call sites (`env.back` says where it returns to).
* `PlayTape`/`EndRaw`: `emit_program_only_op`. A marker makes no `reset_state` call
  in the code; the post has been reset at its boundary and writes nothing since, so
  the second reset changes nothing. Homing's retract goes through `move_to` on a
  reset post and is followed by a reset, which is the raw lift in the model.
* `Hit`, `PlayTape`, `EndReplay`: a cache hit and `apply_cached_op`.
* `Miss`, `Plan`, `SwapStep`, `CutSpin` ... `CutPass`, `Finish`: setup synthesis,
  the driver (all cuts of an op are planned, with their warnings, before the first
  is written), and `store_op_cache`. `Script(op)` is the sequence of blocks and
  changes that the driver emits: the spot pre-pass, the main block, the finish block.
* `Cancelled`, `Fail`: the two early returns.
* `EndLift` ... `EndProgram`: `program_end`.

`mach` is not a variable of the code: it is the machine after the lines written so
far. It makes omissions visible: what the post leaves out does not happen.

### Abstractions

* A spindle word stands for speed and direction together (`spindle_cw` and
  `spindle_ccw` compare and record both). XY, feeds, dwells, comments, N-numbers and
  the cutter position carried between ops are left out.
* An operation is a record of what the loop asks of it. Geometry appears as three
  booleans: the main tool has something to cut (`rough`), the finish tool has
  (`ring`), the specialty gate says it will (`gate`). They are fixed per operation,
  as geometry is a function of the project.
* A block is one approach and one cut, ending with the retract the code makes. Blocks
  of one tool with the same spindle word are one; the separate finish speed of a
  single-tool wall ring is not modelled.
* Mill mode, the LinuxCNC dialect without a custom post profile, and posts that do not
  own their scaffold. A tool has one coolant. The finish tool is in the library.
* With `ManualM0Pause` the first tool is loaded by the operator before the start: the
  model writes a `load` line where the code writes nothing.
* An operation whose body overflows the streaming tee is a member of `Oversized`; of such a body
  `out_lines_clone_from` gives nothing (`Captured`).
* The LRU is a sequence, least recently used first; the hash of a key is the key.
* One Generate at a time. Two Generates on one process-wide cache would interleave
  whole `get` and `put` calls.
* `run_pipeline_impl` also polls the token before and after the loop, and specialty
  drivers poll between passes; those returns leave the same state behind (no entry is
  stored) and are covered by `Cancelled` while planning.

### How Motion corresponds to the code

A contour is unrolled: a position is its arc length, and a few points off it (leads, the
helix circle) have names. `phase` is the place in `emit_offset`. `EmitApproach` is what
comes before the pass loop, `EmitPass` one turn of it (plunge, ramp, helix and their
fall-backs, the walk with its tabs), `EmitCleanup` the walk at full depth after ramps,
`EmitExit` lead-out and retract. Each writes its commands to `todo`; `SetFeed`, `SetBeam`,
`RapidMove` and `CutMove` execute them one by one, so a property can look at every move. `floor` is not a variable of the code: it is what the
moves leave of the material, per unit of the contour at both ends. The Z schedule
(step-down, finish step, depth list, through depth) is the operator `Schedule`.

Left out: trochoidal whirls, knife swivel and arc fitting (they change how a segment is
traced, not which), tabs on a closed contour of one or two segments (two ends do not tell
along which of them a move runs, so `TabsHold` and `FloorIsFlat` ask for three), the separate rate of the
finish pass. Whether a helix or an arc lead fits is a flag of the contour. One offset at
a time; the order of the offsets is a tour over geometry.

### How Preview corresponds to the code

A step emits one operation. Its calls of the `PostProcessor` trait are read three times:
as planned, as lines run by a controller, and as lines read by the interpreter
(`feed_line`; the estimate's scan for F and dwells). `res` holds the three readings. The
posts are those of `linuxcnc.rs`, `grbl.rs` (canned cycles expanded) and `hpgl.rs`, with
`reset_state`, capture and restore around the op cache.

XY is one axis; a unit is half an inch, so that the conversion stays in the integers.
Chip-breaking drills like peck drills here; chords of an arc, the line index, the program
frame, comments, profiles and the streaming tee are left out. HPGL has no preview.

### How History and Session correspond to the code

An entry of a stack is a wrapped command or a transaction, as the net effect of `apply`
and `revert`. Commands that capture the old value on each `apply` and commands that carry
it from when they were built (`snapshot`) are told apart. `sinceCommand` is the clock that
coalescing reads; `age` is there for one property only.

In `Session`, the code between two awaits is one step. The documents' fields are the stock
(whose value `Flipped` asks for two programs), the dialect and the list of drawings. `runs`
are requests not answered yet, `resets` the one-second timers, `saving`, `loading` and
`reloading` what Save, Open and Reload remember over their awaits. `switched` and `mixed` are history
variables: whether the dialect has changed since the request went out, and whether it had when
the program on screen arrived. `Edit`, `UndoEdit` and
`RedoEdit` are those of `History`, followed by the effects that watch the project. `scene` holds
the settings in force. Opening a drawing as a new project and the recent files are left out.

### How the Generate calls correspond to the code

`GenerateStream`: `Request` is the handler up to the spawn (token registered, token frame
queued); `OpDone`, `Completes`, `SeesCancel`, `Fails`, `Panics`, `RemoveToken` and `SendVerdict` are
the worker; `ReadFrame`, `BodyEnds`, `Abort` and `Disconnect` the browser; `CancelArrives` and
`CancelLost` the second request. `ShellStream`: `Invoke`, `Released`, `TimesOut`, `Returns`, `Answers`
are the shell, `Listens`, `ListenFails`, `Arms`, `Abort`, `Hears` the page; events nobody listens
for are lost. `WorkerClient`: `Call`, `CallAborted`, `Abort`, `Message`, `WorkerErrs` are the client,
`Serves` a worker. A pipeline is what it sends: one event per operation and a verdict.
Progress events of the shell and the web worker are left out; they carry no decision.

### How the solid preview corresponds to the code

The grid is one row of columns; a segment of a program is carved in two halves, each a cut
`[cells, lo, hi]` (a form cutter's cut has a roof), and checked against material that stands
too high. `Dexel` is `subtract_interval`, `merge_adjacent` and `store_column` as they are.
`Advance`, `AdvanceTo`, `Restored` and the checkpoints are `ivac-wasm/src/sim.rs` and
`driver.ts`. `Scrub`, `Generated`, `StockEdited`, `Cleared`, `ModeSwitched` and `ExactSwitched` are what
the user does, each with the effects of `Scene3D.svelte` it sets off; `RebuildFires`, `Loads`
and `Rebuilds` are the debounce, the loading of the module and the build. `SolidMesh` holds,
per level of detail, the vertices written, the ranges not sent yet, and the card's copy.

The shape a cutter carves is data: carving a segment at once is taken to be carving its
halves. Fixtures, holders, deviation, the mesh of undercuts, the two-sided back, edges and
colours are left out. `Renders` is a frame: it may come after any number of updates, and it sends
nothing of a solid that is hidden (`setVisible(false)` in wireframe mode), although the playhead
effect goes on updating it. `dropped` is a history variable of a level: the cells whose range
`clearUpdateRanges` dropped before a frame had sent it and that nothing has redrawn since. Memory
that grows and detaches the mesh's view happens in `ExportSpec` only.

### How TextPreview corresponds to the code

`SetText`, `UndoAdd`, `RemoveLayer`, `ReplaceProject`, `ImportDrawing` and `Mounts` are the ways the
layers change, each with the effect that asks for the renders that are due
(`requestPreview`); `Fires` is the debounce, `Answered` and `Fails` the two ends of a call. A text
stands for all that `hashLayer` reads. The origin, applied when drawing, is left out.
`instead` is a history variable: of each layer that the effect left behind, the texts that may land
in place of its own. An entry is made where the early return finds renders due, or where the
first drawing's reset empties the cache, and goes when the layer is next looked at.

## Runs

| Run | Module | Expect | Shows |
|---|---|---|---|
| `per_op` | `MCPerOp` | pass | fresh emission: `TypeOK`, `PostIsRight`, `HeldTool`, `CountIsExact`, the refinement `FollowsProtocol`, and `EveryGenerateEnds` |
| `per_op_cached` | `MCPerOp` | pass | two Generates, a cache of two entries, an edit of the library between them: `CutsWithItsTool`, `SwapsAreStopped`, `HitIsFresh`, `WarningsAreComplete`, `CacheIsSound` |
| `motion` | `MCMotion` | pass | some 1300 contours and set-ups: `TabsHold`, `FloorIsFlat`, `CutsFollowTheContour`, `BiteIsOneStep`, `FeedFits` |
| `preview` | `MCPreview` | pass | three operations, fresh and replayed, under three posts: `RunsAsPlanned`, `PreviewIsTheRun`, `EstimateIsTheRun` |
| `history` | `MCHistory` | pass | `EditedIsDirty`, and the refinement `ImplementsUndoLog` |
| `session` | `MCSession` | pass | `OneRunAtATime`, `BusyWhileRunning`, `DialectIsCurrent`, `RunsEnd` |
| `generate_calls` | `MCGenerateCalls` | pass | two calls over each transport: `CancelHitsOwnRun`, `NoRunLeaks`, `HearsOwnVerdict`, `ThreadsEnd`, `VerdictIsHeard`, and the refinement `EveryTransportKeepsIt` |
| `playback` | `MCPlayback` | pass | scrubbing, checkpoints and edits: `FieldIsPrefix`, `WarningsAreThePrefixs`, `ScreenShowsTheField`, `SolidCatchesUp` |
| `text_preview` | `TextPreview` | pass | six changes over slow, reordered and failing renders: `RemovedShowsNothing`, `PreviewCatchesUp` |
| `cached_spindle` | `MCPerOp` | violation | a body cached without its M3, replayed behind a Pause, cuts with the spindle stopped |
| `generate_unsaved` | `MCSession` | violation | a Generate marks unsaved edits as saved |
| `lost_warnings` | `MCPlayback` | violation | playing over a tool change in one step loses warnings |

The properties:

* `FollowsProtocol`: PerOp refines `ToolProtocol`. A change finds spindle, coolant and
  height safe; an approach that names no Z starts clear; a cut runs with its tool,
  spindle word and coolant; the program ends stopped and lifted. `asserted` is mapped
  to "the machine's strategy is not `Ignore`", where the program asserts no tools.
* `PostIsRight`: every word the post would leave out is in force.
* `HeldTool`: at a boundary `prev_tool_id` is the tool in the spindle.
* `HitIsFresh`: an entry that the lookup finds holds the cuts that planning would give.
* `WarningsAreComplete`, `CacheIsSound`, `CountIsExact`, `EveryGenerateEnds` as named.
* `CutsFollowTheContour`: no move cuts from one point of the contour to another except
  along it. `BiteIsOneStep`: no move takes off more than a step (two where ramps
  meet). `FloorIsFlat`: at the end all but the tabs was walked at full depth. `TabsHold`: tabs stand.
  `FeedFits`: rapids across are high, lead to the offset or back from a helix entry, and are lit
  exactly on the way back from a laser's helix entry; plunges are made at the plunge feed. Each
  names the shapes it leaves out; the table of counterexamples below shows what happens there.
* `RunsAsPlanned`: the machine does what the operation planned, whatever words were left
  out. `PreviewIsTheRun`, `EstimateIsTheRun`: the two readers see the same, wherever every cut
  starts where the machine is known to be (`Charted`). The estimate counts each dwell written as
  G4, a drill's in grbl and a laser's pierce; of LinuxCNC's canned drill it counts none.
* `ImplementsUndoLog`: undo and redo lead through whole documents, whatever was coalesced,
  bundled or trimmed. `EditedIsDirty`: while an edit is applied the project is dirty.
* `OneRunAtATime`, `BusyWhileRunning`, `RunsEnd`: three ways to start a run and a timer of the run
  before share one state. `DialectIsCurrent`: the program on screen is tagged with the project's
  dialect and is in it, unless its run was out while the dialect changed.
* `EveryTransportKeepsIt`: a call settles once, "cancelled" only after an abort, and it does
  settle. `CancelHitsOwnRun`, `NoRunLeaks`, `HearsOwnVerdict`, `ThreadsEnd`, `VerdictIsHeard` as named.
* `FieldIsPrefix`: the solid is the stock less every cut up to the playhead, however the
  playhead came there; `WarningsAreThePrefixs` says the same of the warnings,
  `ScreenShowsTheField` of the picture, in every cell whose range was not dropped unsent.
  `SolidCatchesUp`: once edits end the solid is the project's, unless it was built from another stock
  than its key names and that key is today's (`BuiltUnderAnotherKey`).
* `RemovedShowsNothing`, `PreviewCatchesUp`: a deleted text stays gone; the last text wins, unless
  the layer was left behind (`IsLeftBehind`).

Bounds and why they are enough.

* `PerOp`: every interaction here is between one operation and the state its
  predecessors left, which is bounded (a tool, a spindle word, a coolant, a height); two
  operations set up every such state and a third meets it, so `per_op` takes all
  sequences of up to three of the six main shapes, up to two of the eleven others, and up
  to four where grouping reorders (three are needed to move one across a tool, a fourth to
  put a barrier among them). Two tools suffice for "another tool". `MaxGenerates` is 2
  where a cache is filled and used: entries carry no age but their place in the LRU.
  Capacity 2 makes eviction happen within two operations a Generate. `per_op_cached` uses
  shapes whose bodies are self-contained; `cached_spindle` and the changes of its cfg listed
  below show what happens for the others.
* `Motion`: three or four segments give both kinds of vertices, an arc between lines and a
  closed contour; depths give one, two and three passes with a short last step; tabs lie
  inside a segment, on its end, across it, over the start of the contour, and overlap.
* `Preview`: an operation meets the words the one before left, and a replay meets those
  of another predecessor than at capture: two operations, two Generates. A third shows an
  included line behind a probe, with the view astray from the machine.
* `History`: depth 2 is enough to trim an entry and to redo past one; two values of two
  fields, a window of one tick.
* `Session`: depth 1, one edit of the dialect (the value that undo, redo, Open and an answer all
  touch), and two timers, so that one set by the run before can fire during a run; Save, Open and
  Generate in one scene, reloads in another, as reloads are not part of a run.
* `MCGenerateCalls`: two calls, since every interference is between a call and another's
  leavings; a channel of one is full as soon as the token is sent; three workers and two errors
  each let a dropped worker report again after its successor was spawned.
* `Playback`: three columns give a column with both neighbours; the first program has a
  cut, a rapid that is clear only after it, and an undercut; a program of three segments with at most
  three checkpoints has one after each segment. Three changes are the stock's way there, back and
  there again around a build, which is what the early return takes. An update that overtakes the frame
  counts as one too and a zoom out as two (for the way back), so a range is dropped and seen later,
  after a scrub, a change or at another level.
* `TextPreview`: a layer's cache, timer and token are its own, so one layer; two
  layers with three changes pass as well. Six changes leave room for two slow renders, a deletion,
  a return to the cached text and a canvas that makes up for it.

A finished program, a settled call and a used-up bound stop the model, so most runs do not
check deadlock; the liveness properties say that what should go on does. `history` and
`motion` check it. The type invariants of `History` and of the three transports are stated but
in no run: the properties of those runs relate the same variables.

Fairness.

* `PerOp`: `WF(Advance)`. The generating thread runs on without waiting for anyone (no lock
  is held across a step, and the sink's channel is outside the loop). `Generate` and
  `RequestCancel` are unfair.
* `Session`: the backend answers (`Answer`; `generate_calls` shows that it does) and a timer
  that is set fires (`ResetState`). Users owe nothing.
* `GenerateStream`: a worker has a thread of its own and the reader awaits in a loop. Aborts,
  failures, disconnections and the arrival of a cancel are not owed. `ShellStream`: the thread
  runs, two seconds pass, the page's event loop is alive. `WorkerClient`: a live worker works
  through its queue, the page through its messages.
* `Playback`: a timer fires, the module loads, and what waits for it runs. `TakesJob` states
  the last without asking TLC for ENABLED of the build.
* `TextPreview`: per layer, a timer fires and a call is answered or fails.

No property needs strong fairness.

## Disagreements found

Three runs end in a counterexample, each with a finding in `PROJECT.json` that quotes
the comment the code disagrees with. The others below follow from a run's cfg with the
lines named changed, checking only the property named.

| From | Change | Property | What it shows |
|---|---|---|---|
| `cached_spindle` | `Projects <- LeftOutProjects` | `CutsWithItsCoolant` | a body cached without its M8, replayed alone, cuts dry |
| `cached_spindle` | `Projects <- RingProjects` | `SwapsAreStopped` | a ring-only body cached without an M9, replayed behind a flooded op, changes tools under flood |
| `cached_spindle` | `Projects <- SpotProjects` | `HitIsFresh` | the spot tool is not in the cache key (`pipeline.rs:1704`) |
| `cached_spindle` | `Projects <- NoRegionProjects`, `CacheCapacity = 0`, `MaxGenerates = 1` | `CutsWithItsTool` | an op that skips its change is still recorded as the tool held |
| `cached_spindle` | `Projects <- FinishProjects`, `CacheCapacity = 0`, `MaxGenerates = 1` | `WarmupIsExact` | the warm-up estimate counts changes that kinds without a finish pass never make |
| `history` | - | `MergesNeighboursOnly` | after an undo, an edit merges into an entry older than the window: the time compared is that of the last command, not of the entry on top (`history.ts:93`; `:33` says "within COALESCE_MS of each other") |
| `generate_unsaved` | - | `UndoFromSavedIsUnsaved` | edit, save, undo: the document differs from the file and counts as saved |
| `generate_unsaved` | - | `SaveMatchesDisk` | an edit while Save awaits is marked saved (`file_ops.ts:537`, "The file now matches disk") |
| `generate_unsaved` | - | `StaleIsFlagged` | an edit while a Generate runs: the program is of an older document and not flagged |
| `generate_unsaved` | - | `PostMatches` | the program is tagged with the dialect at the answer, not at the request (`GenerateBar.svelte:333`; `:74` says "which post-processor produced" it); `DialectIsCurrent` excepts these programs by name |
| `generate_unsaved` | `ProjectFiles <- MCFlipProject` | `ClearDropsPrograms` | clearing the project keeps the flipped side's program |
| `generate_unsaved` | `ProjectFiles <- MCTwoProjects`, `Scenes = {{"open", "reload"}}` | `ReloadHitsItsImport` | a reload that awaits while another project opens replaces an import of that project |
| `generate_unsaved` | `Scenes = {{"open", "reload"}}` | `ReloadIsUndoable` | a reload is not undoable (`import-ops.ts:197` says it is) |
| `generate_unsaved` | `ProjectFiles <- MCTwoDrawings` | `OpensAsSaved` | Open moves the first drawing to where an import would place it |
| `generate_calls` | `ListensInTime = FALSE` | `VerdictIsHeard` | if listening takes more than the two seconds, the verdict is lost |
| `motion` | `Family = "round"` | `EveryFloorIsFlat` | a rectangular tab on an arc keeps the whole arc at tab height (`tabs.rs:107-115`; `:64-65` promises the tab's extent) |

`cached_spindle` and the first two changes have one root: `reset_state` precedes the envelope and
keeps the coolant, so a captured body is *not* independent of what came before it, as the
comments on both promise. It lacks the M3 if an envelope wrote it, lacks the M8 if
the coolant was on, and lacks the M9 if it was off.

More follow from `preview.cfg`, `motion.cfg`, `playback.cfg` and `text_preview.cfg` with one line changed
(for `Family`, with only the property named):

| Change | Property | What it shows |
|---|---|---|
| `preview`, `Family = "comma"` | `PreviewIsTheRun` | with a decimal comma the preview reads words as 0 (`preview.rs:275`) |
| `preview`, `Family = "numbered"` | `PreviewIsTheRun` | with N-numbers the op markers are not recognised (`preview.rs:703`) |
| `preview`, `Family = "shift"` | `PreviewIsTheRun` | the Z of G92, G10 L20 and G43.1 is drawn as a move (`preview.rs:152-155` says not) |
| `preview`, `Family = "inch"` | `EstimateIsTheRun` | F is read unconverted in an inch program (`timing.rs:604`) |
| `preview`, `Family = "inch_probe"` | `RunsAsPlanned` | a probe's F is written unconverted (`linuxcnc.rs:670-675`) |
| `preview`, `Family = "one_feed"` | `RunsAsPlanned` | a probe inside an internal swap changes the modal F behind `last_rate` |
| `preview`, `Family = "plotter"` | `RunsAsPlanned` | HPGL keeps `last_vs` over reset and capture (`hpgl.rs:267-293`): a replay plots at another speed |
| `preview`, `Family = "dwell"` | `EveryDwellIsCounted` | the P of G82 and G83 is not counted (`timing.rs:154`; `:76-78` says dwells are) |
| `preview` with `Charted(res.run) =>` dropped | `PreviewIsTheRun` | behind a probe an included `G1` starts at a Z the preview takes as unmoved (`preview.rs:266-271`, `:313`), and its plunge may be left out |
| `motion`, `Family = "corner"` | `EveryTabHolds` | across a vertex the walk drops to depth inside the tab (`tabs.rs:213-223`) |
| `motion`, `Family = "spiral"` | `EveryTabHolds`, `EveryFloorIsFlat` | a spiral down the whole path cuts through tabs and leaves its last slope (`emit.rs:549-552`, `:709`) |
| `motion`, `Family = "beams"` | `EveryRapidIsDark` | a laser's helix entry goes back to the contour by rapid with the beam lit (`emit.rs:583-584`); `FeedFits` names this rapid and shows that no other is lit |
| `motion`, `Family = "open"` | `EveryCutFollows`, `EveryBiteIsOneStep` | on open contours the lead-out and the tab walk assume the wrong end, and the ramps of two passes from opposite ends meet two steps deep |
| `motion` with `Passes(cut) > 0` dropped | `CutsFollowTheContour` | with every depth of a list above the start there is no pass (`emit.rs:507`), and the lead-out is a chord from where the lead-in ended |
| `motion` with `Descends(cut)` dropped | `TabsHold`, `FloorIsFlat` | a finish step wider than the last bite is spliced in above the pass before it (`z_schedule.rs:56-75`), and a depth list is taken unsorted: a ramp then climbs through a tab, or ends above the floor |
| `motion` with `t.lift > 0 => ...` dropped | `TabsHold` | the height of an overridden tab is counted from the pass (`tabs.rs:163`), the op's own from the total depth (`emit.rs:438`): where a list goes deeper, the overridden tab sinks with it |
| `motion` with `o.to < t.from` made `<=` | `TabsHold` | tabs that touch are merged (`tabs.rs:173`) and share one ramp, whose middle is neither's |
| `playback` with `\/ BuiltUnderAnotherKey` dropped | `SolidCatchesUp` | back to the stock shown, the pending timer still builds (`Scene3D.svelte:805`), with today's stock under the key captured earlier |
| `playback`, `Edits = {"clear"}` | `GoneWithTheProgram` | a pending timer builds a program that is gone |
| `playback` with `\ l.dropped` dropped | `ScreenShowsTheField` | a second update before a frame, or one while wireframe mode hides the solid, drops the ranges of the first (`heightfield_mesh.ts:785`, `clearUpdateRanges`) |
| `playback`, `SPECIFICATION ExportSpec` | `ScreenShowsTheField` | after memory grew, changing the level of detail shows it stale |
| `playback`, `Edits = {"generate", "mode"}` | `WarningsAreOwn` | in wireframe, the old program's warnings appear on the new one (`driver.ts:1002-1008`) |
| `text_preview`, `Changes = {"text"}`, with `\/ IsLeftBehind(id)` dropped | `PreviewCatchesUp` | asking again for the cached text does not call off the render of another (`text_preview.svelte.ts:134`), which lands on top and stays |
| the same, `Changes = {"text", "drawing"}`, `MaxChanges = 2` | `PreviewCatchesUp` | the first drawing empties the cache while nothing asks for the texts again (`import-ops.ts:153`) |

## Proofs

TLAPS proves what the runs check on small instances for every value of the constants: all
tools, projects, programs, documents, callers, depths and lengths. Assumptions on the
constants are those named in the modules (`ToolsAssumption`, `PerOpAssumption`,
`HistoryAssumption`, `SessionAssumption`, `DexelAssumption`, `PlaybackAssumption`, ...), which
TLC evaluates on every run, and the conditions a theorem states itself, listed below.
`PROJECT.json` lists the theorems with the properties they state. None of these properties is
inductive; what follows names the invariant each rests on.

**The loop without a cache** (`PerOp_proofs`). `TypeCorrect` adds `Placed` to `TypeOK`: inside
an operation `idx` names one, a driver runs only with a tool of the library, an envelope has
a tool to change to, a replay has an entry. `BeliefIsRight`, `ToolIsHeld` and
`ProgramFollowsProtocol` (the refinement of `ToolProtocol`) assume `Undisturbed`: no cache,
every cutting operation passes its gate, and included files hold no word that starts a
spindle, opens a coolant or changes a tool. The second is what the changed cfgs of the table
above drop and find counterexamples for; the third is the file's author's part. `SafeInv`
says place by place how far the loop has come. Between operations `prevTool` is held, the coolant is off
or that tool's, and before the first tool nothing runs (`OutsideInv`). In the driver the
rest of the script *goes* from the tool now held to the one `next_prev_tool_id` will name
(`CuttingInv`; `TailGoes`, `ConcatGoes`, `ScriptGoes`). The envelope has lifted, dried and
stopped the machine in that order by the time it swaps (`ChangingInv`). Program-only lines go
out past a post that remembers neither height nor spindle word (`RawInv`). One lemma per post
method says what it does to a machine the post is right about.

`CountStaysExact` (without a cache) says that the estimator counts the tool changes of the
program. `CountInv` compares the two halfway: the envelopes emitted up to the place the loop has
reached are what the estimator's walk counts over the operations before it, and while an
operation runs, over the part of its boundary and script already played.

**The loop with a cache** (`PerOp_proofs`), of any capacity and filled by any number of
Generates, cancelled and failed ones included.

* `CacheStaysSound` and `WarningsStayComplete` assume nothing. `StoreInv`: keys differ, and
  the operation being planned is not in the cache. `ReportInv`: at place `idx` exactly the
  warnings of the cutting operations before it are reported, and an entry has its key's.
* `HitsAreFresh` assumes `SpotsAreKeyed`: no operation has a spot tool other than its own
  (`SpotProjects` above is the counterexample otherwise). `FreshInv`: an entry's body cuts what
  the script that its key stands for says, and while a driver runs the body holds the cuts of the part
  of the script it has played.
* `ReplaysKeepTheirTool` and `ReplaysLeaveTheToolHeld` assume `ToolsAreKept`: gates pass and
  included files neither change tools nor cut. `KeptInv`: a stored body, run with its key's
  tool held, cuts with the tools it names and leaves the one its `swap` flag says.
* `SwapsFindTheMachineHalted` assumes `BodiesCutFirst`: an operation cuts with its own
  tool, spot tool included, before it changes to another. `per_op_cached` satisfies it. Without it
  a ring-only body captured dry is replayed under flood and the change finds the coolant open
  (`RingProjects`). `SwapInv` adds to `KeptInv` that a stored body, run on *any* machine that its post is wary of
  (it knows at least of what runs), stops what it has to before each change in it.

**Undo history** (`Session_proofs`). `HistoryKeepsDocuments` is the refinement of `UndoLog`, step by
step: exec, coalescing, transactions, undo, redo, trimming. `HistoryInv` says that what was
applied fits the document read backwards and what was reverted fits it read forwards, for
commands that carry old values and for those that capture them again on every redo.
`EditsStayDirty` needs `FlagInv`: among the entries that mark, all but the oldest remember
that the project was edited already.

**Session** (`Session_proofs`). `OneRunInFlight` and `BarShowsTheRun` rest on `RunInv`: state, timers and
requests agree, so that three guards reading different variables exclude each other.
`ProgramSpeaksTheDialect` (tag and program, but for the programs whose run was out while the dialect
changed) rests on `DialectInv`: every document in memory, on disk or on its way is a
project with a dialect, and null is none (`None \notin Values`); a request that is out was sent in
today's dialect unless `switched`, and the program on screen is in it unless `mixed`.

**Generate calls** (`GenerateCalls_proofs`), for any number of callers. `HttpInv`, `ShellInv` and
`WebInv` say which token, request id, parked thread and worker belongs to which call, and that
each is fresh. From them: `CancelsAreOwn`, `RunsDoNotLeak`, `VerdictsAreOwn`, and
`PromiseIsKept`, that each step of each transport is a step of `GenerateCall` (its liveness
stays with TLC). `VerdictsAreHeard` assumes `ListensInTime`.

**Text preview** (`TextPreview_proofs`). `RemovedStaysEmpty`: no token of a removed layer is
the latest. `AtMostOneCounts`: tokens are handed out once.

**Solid preview** (`Playback_proofs`), for every grid, stock, sequence of programs (none of them empty: the driver
ignores an empty toolpath), number of checkpoints, and order of scrubs, edits, builds, zooms and frames.
The proof goes from the column upwards:

* `Subtracted` and `Merged`: `subtract_interval` and `merge_adjacent` compute set difference and
  keep a column's spans sorted and apart. `CarveCellIs`: both forms of a column lose exactly the
  cut; `ColumnShows`: top and overhang flag are those of the material.
* `CarveIs`, `SweepIs`, `PartialIs`: a sweep carves every column and marks the changed ones.
  `BulkIs`, `RunsTo` with `PlanIs`: whatever place `planAdvance` starts from, the carving calls it
  asks for lead from there to the target, with the warnings earned on the way.
* `Driven` is the invariant of simulator and driver: the field is what the program leaves at
  the driver's place, each checkpoint holds the field and the warnings of its own, the sweep
  cache holds true answers, and checkpoints lie an interval apart, so that there are at most
  `MaxCheckpoints` (`FewCheckpoints`). After `set_toolpath` the program is no longer the one
  built and nothing is claimed until the rebuild.
* `MeshTrue`: vertices are those of the tops, and what waits for the next frame or was dropped is at
  least what the card has not got.

`PlayInv` puts these beside the project and the rebuilds that wait. `SolidIsThePrefix` and
`SolidStaysInBounds` assume nothing. `WarningsAreTheCuts` assumes `OneToolEach` (`lost_warnings` shows what a tool change
inside one advance loses) and `ChecksAboveBottom` (below the stock, the height of an empty column is not
the stock's underside). `ScreenIsTheSolid` assumes nothing of when frames come or when the solid is
hidden; it speaks of the cells that are not in `dropped`.
The inductive parts of `PlayInv` were checked by TLC on the instance of `playback` first.

**Preview** (`Preview_proofs`). `MachineRunsThePlan`: the machine makes the moves that the operations
planned, each at its feed, whatever words the posts leave out, for every profile, sequence of
operations and Generates over one cache. It assumes `Agreed`, each part of which is where the code
is right or a row of the table above finds it wrong:

* HPGL runs without a cache (`plotter`), no internal change probes (`one_feed`), and in inches
  nothing probes (`inch_probe`).
* Feeds are positive: `feedrate(0)` is "don't care" in `linuxcnc.rs` and `hpgl.rs` and writes nothing.
  In inches they are even, which is the resolution of the model (a unit is half an inch).

`preview` satisfies it. The argument goes upwards:

* Readings and writings of concatenated calls are those of the parts (`Chains`, and
  the lemmas on `Read` and `Written`); a cycle is the moves it is expanded to.
* `Same` and `Follows` hold the post, the machine and the plan side by side through one call: what
  the post believes of an axis or the feed is so or is not known, and machine and plan are in
  one place. The sets `Stands`, `Idle`, `Reset`, `Primed` and `Known` are the stances between calls, from
  knowing nothing (after a machine-frame move) to knowing place and feed (before a cut).
* `Goes`, `Makes`, `Drives`: each envelope, each kind of body, and an operation with its boundary
  lead from stance to stance. A body starts by giving its feed and its height, so it needs no more
  than `Reset` leaves: `reset_state` at each operation is what the proof rests on.
* A replay on G-code equals planning again, as what the boundary leaves of the post is always
  a fresh one (`Replayed`). `Stored`, in the invariant, says that an entry holds what its key would write.

`PreviewInv` is that invariant between operations; TLC checked it on wider profiles first.
`PreviewTyped` follows, with the interpreter's position a number throughout (`SeeType`).

**Motion** (`Motion_proofs`), for every contour (any number of segments, arcs and lines), schedule,
plunge, lead and set of tabs. `MotionAssumption` gives the setup's fields their types; arcs are whole
chords, tabs not empty, and every height the plan names is above the word that stands for an
axis not written. The theorems assume `AllClear`: the clearance height is above the plan and a
torch pierces above the stock; the code takes both as entered. TLC evaluates it on `motion` (`CutsAreClear`).
`CutsFollow` does not speak of open contours with tabs, of lead-outs of open contours after an even
number of walks, nor of schedules without a pass, where `EveryCutFollows` fails. `FeedsFit` holds the
beam dark on every rapid across but the way back from a laser's helix entry, where it is lit.

* `Runs` follows a program from state to state; `Leads(c, N, q, S, T)` says that from every
  state of `S` the program `q` ends in `T` by steps that are all in `N`. Programs compose
  (`LeadsConcat`, `LeadsStrung`), and `LeadsHead` takes one command off. `Fair` is the set of steps that
  the two action properties and the type allow.
* A `Stance` says where the tool is, at which height, feed and beam. Each command, then each walk has a lemma from
  stance to stance: `WalkClears` (corner feeds), `RampWalkLeads` (the split segment, and the clamp at the end
  of the run), `HelixWalkLeads`, `HelixEntryLeads`, `TabWalkLeads` over lines (`LineLeads`: intervals sorted, merged,
  lifted over) and arcs (`ArcLeads`).
* `PassChain` is what the alternation rests on: where a pass begins is where the one before it ended
  (`Ends`), on an open contour the far end, unless tabs forced a forward walk. `NoRampOnTheSpot`: a ramp
  whose first segment ends where the tool stands goes up, or the tool would fall at cutting feed.
* `ApproachLeads`, `PassLeads`, `CleanupLeads`, `ExitLeads`: each phase leads from `Before` one pass to `Before` the
  next, and at last to `Leaving`.

* `Cleared(S, D, h)` are the states of `S` that leave the units `D` of the contour no higher than `h`. No
  command puts material back (`LeadsKeeps`), so what one walk left at depth stays so; `AfterLowers`
  and `ClearsOn` say what a move along a segment adds. A plain walk and a clean-up clear the whole
  contour, a tab walk `Bare`: all that lies in no tab and on no arc that a tab lifts over.
  `FinalLevel` and `LowestIsFinal` place the last pass at the lowest height of the plan where the schedule
  descends. `Swath` is what pass `k` owes of `Flats`, and `Walked` and `Flattened` carry it through
  the clean-up and the exit: `FloorFlat` is that debt paid at "done".

The inductive invariant `MotionInv` says just that: what is left in `todo` leads from the machine's state to
where the next phase starts. It quantifies over runs of a program, which TLC cannot; the
properties it implies were checked on `motion` first, and corrected there where the proof found a gap in them.

Recursive functions are within reach where the recursion is over numbers: `Induction_proofs`
derives least elements and induction over *sets* of naturals from `WellFoundedInduction`, and
lemmas such as `ShownIs`, `LeftIs`, `JoinedIs`, `CarvedIs`, `SweptIs` unfold them. `Dexel` and `Playback` are written
with such functions for that reason.

Only model-checked: of `Motion` `TabsHold` and `BiteIsOneStep`, which need a lower bound on the
material left along the contour in every stance (`FloorIsFlat` needs an upper one, which moves only lower); of `Preview` `PreviewIsTheRun` and `EstimateIsTheRun`, where the
interpreter joins post, machine and plan as a fourth party whose position is a number when
the machine's is not known. Out of the prover's reach and left to TLC: liveness under
fairness and ENABLED (`EveryGenerateEnds`, `RunsEnd`, `ThreadsEnd`, `SolidCatchesUp`,
`PreviewCatchesUp`, the liveness half of `EveryTransportKeepsIt`).

## Not modelled

* Geometry: offsets and their warnings, selection and patterns, specialty drivers' toolpaths,
  CAM primitives, order of the cuts, height maps, STL. Computational geometry in
  floating point, which is most of the lines of the Rust crates; TLC has no
  useful finite instance of it. Where its outcome steers the control (something to cut or
  not, a helix fits or not) it is a nondeterministic flag of the models above.
* Importers: parsers of drawing formats without state across calls.
* Setup resolver: numeric resolution of feeds and speeds. Command line and wasm front ends:
  sequential wrappers.
* CPS engine: records events for a foreign script. Two-sided emission: the modelled
  loop, once per side. Sink: its effect on the cache is in `PerOp`.
* File watcher: one map of times fed by a library. Any model of a leading-edge debounce
  without a trailing event loses the last write of a burst, so a run would restate the rule;
  what the front end does with an event is in `Session`.

## Plan

Modelling follows the order of the inventory and is done. Proofs to add, in this order:

1. `PreviewIsTheRun` and `EstimateIsTheRun` of `Preview`, with the interpreter beside the three
   parties of `Preview_proofs`.
2. `BiteIsOneStep` and `TabsHold` of `Motion`: stances that also bound `floor` from below, and a
   Z schedule that descends by at most a step and ends at the depth.
3. `GoneWithTheProgram`'s safety half and the other properties of the table above under the
   conditions that make them true.
