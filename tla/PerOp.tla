------------------------------- MODULE PerOp -------------------------------
(***************************************************************************)
(* run_per_op (crates/ivac-core/src/pipeline.rs): one Generate after       *)
(* another turns a project's operations into a program, through a post     *)
(* that leaves out what it believes the machine already knows, and a       *)
(* cache of operation bodies that outlives the Generate.                   *)
(*                                                                         *)
(* mach is the machine after it has run the lines written so far, and line *)
(* is the last step's line: the program is judged by what it does.         *)
(***************************************************************************)
EXTENDS OpOrder, Chains, SequencesExt

CONSTANTS
    Projects,        \* what may be generated: operations, machine, tool library
    ToolCoolant,     \* the coolant of each tool
    Oversized,       \* operations whose body overflows a streaming post's tee
    CacheCapacity,   \* entries the op cache holds; 0 for a run without a cache
    MaxGenerates     \* bound on the number of Generates

ToolIds == Tools \cup {"unknown"}
Op == OpRecord(ToolIds, Line)

MachineConfig ==
    [change : {"Atc", "ManualM0Pause", "Ignore"}, station : BOOLEAN,
     postZ : {"none", "forget", "probe", "sensor"}]

Project ==
    [ops : Seq(Op), group : BOOLEAN, machine : MachineConfig, lib : [Tools -> Spins]]

\* An op whose gate says it will cut nothing cuts nothing (specialty_will_emit).
ASSUME PerOpAssumption ==
    /\ Projects # {} /\ Projects \subseteq Project
    /\ \A p \in Projects : \A i \in DOMAIN p.ops :
          ~ p.ops[i].gate => ~ p.ops[i].rough /\ ~ p.ops[i].ring
    /\ ToolCoolant \in [Tools -> {"off"} \cup CoolantOn]
    /\ "unknown" \notin Tools /\ NoTool # "unknown"
    /\ CacheCapacity \in Nat /\ MaxGenerates \in Nat

VARIABLES
    proj, queue, generates,        \* the Generate: its project, its ops in emission order
    idx, pc, cancel,               \* its place in them; cancel is the token
    env, script, tape,             \* the envelope, driver and replay in progress
    post, mach, line,              \* the post's belief, the machine, the last line
    body,                          \* the lines since the op's marker
    prevTool,                      \* prev_tool_id
    warnings,                      \* the ops whose planning warnings were reported
    changes,                       \* tool-change envelopes emitted
    cache                          \* entries, least recently used first

plan == <<proj, queue, generates>>
drive == <<env, script, tape>>
output == <<post, mach, line, body>>
book == <<prevTool, warnings, changes, cache>>
vars == <<plan, idx, pc, cancel, drive, output, book>>

Ended == {"idle", "done", "cancelled", "failed"}

-----------------------------------------------------------------------------
(* Reading the project *)

op == queue[idx]

\* The spindle word a pass with tool t resolves to: the op's own, or the tool's.
Resolved(o, t) == IF o.spin # Off THEN o.spin ELSE proj.lib[t]

Swaps(o) == HasFinish(o) /\ o.dual /\ o.ring

Cut(o, t) == [do |-> "cut", tool |-> t, spin |-> Resolved(o, t)]
SwapTo(t, s) == [do |-> "swap", tool |-> t, spin |-> s]

\* The spot pre-pass of a drill, with the swaps around it (emit_spot_pre_pass).
SpotPass(o) ==
    IF o.spot = NoTool \/ ~ o.rough THEN <<>>
    ELSE IF o.spot = o.tool THEN <<Cut(o, o.spot)>>
    ELSE <<SwapTo(o.spot, proj.lib[o.spot]), Cut(o, o.spot), SwapTo(o.tool, proj.lib[o.tool])>>

\* The finish block, behind its own swap when it has a tool of its own
\* (run_dual_tool_or_single, emit_stufenfase).
FinishPass(o) ==
    IF ~ Swaps(o) THEN <<>>
    ELSE <<SwapTo(o.finish, Resolved(o, o.finish)), Cut(o, o.finish)>>

\* What the op's driver does, step by step.
Script(o) ==
    SpotPass(o) \o (IF o.rough THEN <<Cut(o, o.tool)>> ELSE <<>>) \o FinishPass(o)

\* The lines a program-only op writes past the post's tracking.
RawLines(o) ==
    CASE o.kind = "pause" -> <<Word("M5"), Word("pause")>>
      [] o.kind = "homing" -> <<Word("home"), Word("lift")>>
      [] o.kind = "probe" -> <<Word("probe")>>
      [] o.kind = "include" -> o.emit
      [] OTHER -> <<>>

\* Mutants of NextPrevTool: a finish tool always ends in the spindle, or never does.
NextPrevTool_AlwaysFinish(o, internalSwap) == IF HasFinish(o) THEN o.finish ELSE o.tool
NextPrevTool_NeverFinish(o, internalSwap) == o.tool

NextPrevTool(o, internalSwap) ==
    IF internalSwap /\ HasFinish(o) THEN o.finish ELSE o.tool

-----------------------------------------------------------------------------
(* The op cache *)

\* Mutant of CacheKey: the tool's library entry is left out of the key.
CacheKey_WithoutTool(o) ==
    [op |-> o, tool |-> Off, finish |-> IF HasFinish(o) THEN proj.lib[o.finish] ELSE Off,
     machine |-> proj.machine]

\* compute_op_cache_key: the op, its tool and finish tool as the library has them.
CacheKey(o) ==
    [op |-> o, tool |-> proj.lib[o.tool],
     finish |-> IF HasFinish(o) THEN proj.lib[o.finish] ELSE Off,
     machine |-> proj.machine]

Keyed(key) == {i \in DOMAIN cache : cache[i].key = key}

CachedAt(o) ==
    IF CacheCapacity = 0 \/ o.tool \notin Tools THEN {} ELSE Keyed(CacheKey(o))

\* Mutant of Use: the entry is moved to the front of the line and stays in its place.
Use_Duplicates(i) == Append(cache, cache[i])

\* get() makes the entry it finds the most recent one.
Use(i) == Append(RemoveAt(cache, i), cache[i])

\* put() of a key that was not there: the oldest entry makes room.
Put(e) == Append(IF Len(cache) >= CacheCapacity THEN Tail(cache) ELSE cache, e)

-----------------------------------------------------------------------------
(* Starting and stopping a Generate *)

\* The call r of a post method writes its line, and the machine runs it.
Write(r) ==
    /\ post' = r.post
    /\ line' = r.line
    /\ mach' = Exec(mach, r.line)
    /\ body' = IF r.line = NoLine THEN body ELSE Append(body, r.line)

Init ==
    /\ proj = CHOOSE p \in Projects : TRUE
    /\ queue = <<>> /\ generates = 0
    /\ idx = 1 /\ pc = "idle" /\ cancel = FALSE
    /\ env = [tool |-> NoTool, spin |-> Off, first |-> FALSE, back |-> "mark"]
    /\ script = <<>> /\ tape = <<>>
    /\ post = FreshPost /\ mach = ColdMachine /\ line = NoLine /\ body = <<>>
    /\ prevTool = NoTool /\ warnings = <<>> /\ changes = 0 /\ cache = <<>>

\* The header ends in a lift on a fresh post; the cache is the last run's.
StartGenerate(p) ==
    /\ LET n == Len(p.ops)
       IN  \E perm \in [1 .. n -> 1 .. n] :
              /\ EmissionOrder(p.ops, p.group, perm)
              /\ queue' = [i \in 1 .. n |-> p.ops[perm[i]]]
    /\ proj' = p /\ generates' = generates + 1
    /\ idx' = 1 /\ pc' = "top" /\ cancel' = FALSE
    /\ LET begun == MoveToFastZ(FreshPost)
       IN  post' = begun.post /\ line' = begun.line /\ mach' = Exec(ColdMachine, begun.line)
    /\ body' = <<>> /\ prevTool' = NoTool /\ warnings' = <<>> /\ changes' = 0
    /\ UNCHANGED <<drive, cache>>

\* The user presses Generate.
Generate ==
    /\ pc \in Ended /\ generates < MaxGenerates
    /\ \E p \in Projects : StartGenerate(p)

\* The user cancels: only the token changes.
RequestCancel ==
    /\ pc \notin Ended /\ ~ cancel
    /\ cancel' = TRUE
    /\ UNCHANGED <<plan, idx, pc, drive, output, book>>

\* The token is polled at the top of the loop and while a driver plans its cuts.
Cancelled ==
    /\ pc \in {"top", "plan"} /\ cancel
    /\ pc = "top" => idx <= Len(queue)
    /\ pc' = "cancelled"
    /\ UNCHANGED <<plan, idx, cancel, drive, output, book>>

-----------------------------------------------------------------------------
(* The boundary between two operations *)

\* The top of the loop: the post forgets, and the envelope decides on the tool held.
NeedsChange(o) == ~ IsProgramOnly(o) /\ o.gate /\ prevTool # o.tool

BeginOp ==
    /\ pc = "top" /\ ~ cancel /\ idx <= Len(queue)
    /\ post' = ResetState(post) /\ line' = NoLine
    /\ IF NeedsChange(op) /\ op.tool \in Tools
       THEN /\ env' = [tool |-> op.tool, spin |-> proj.lib[op.tool],
                       first |-> prevTool = NoTool, back |-> "mark"]
            /\ pc' = "lift"
       ELSE pc' = "mark" /\ UNCHANGED env
    /\ prevTool' = IF NeedsChange(op) THEN op.tool ELSE prevTool
    /\ UNCHANGED <<plan, idx, cancel, script, tape, mach, body, warnings, changes, cache>>

\* checkpoint and body_marker: what follows is the operation's own.
Mark ==
    /\ pc = "mark"
    /\ body' = <<>> /\ line' = NoLine
    /\ IF IsProgramOnly(op) THEN tape' = RawLines(op) /\ pc' = "raw"
                            ELSE pc' = "lookup" /\ UNCHANGED tape
    /\ UNCHANGED <<plan, idx, cancel, env, script, post, mach, book>>

\* A line the tracker does not see goes out: a program-only op's, or a cached body's.
PlayTape ==
    /\ pc \in {"raw", "replay"} /\ tape # <<>>
    /\ Write(Raw(post, Head(tape))) /\ tape' = Tail(tape)
    /\ UNCHANGED <<plan, idx, pc, cancel, env, script, book>>

\* Mutant of EndRaw: the loop continues with the operation it has just emitted.
EndRaw_SameOp ==
    /\ pc = "raw" /\ tape = <<>>
    /\ post' = ResetState(post) /\ line' = NoLine
    /\ pc' = "top"
    /\ UNCHANGED <<plan, idx, cancel, drive, mach, body, book>>

EndRaw ==
    /\ pc = "raw" /\ tape = <<>>
    /\ post' = ResetState(post) /\ line' = NoLine
    /\ idx' = idx + 1 /\ pc' = "top"
    /\ UNCHANGED <<plan, cancel, drive, mach, body, book>>

-----------------------------------------------------------------------------
(* A cutting operation: replayed from the cache, or planned, cut and stored *)

LastEntry == cache[Len(cache)]

Hit ==
    /\ pc = "lookup"
    /\ \E i \in CachedAt(op) : cache' = Use(i) /\ tape' = cache[i].body
    /\ line' = NoLine /\ pc' = "replay"
    /\ UNCHANGED <<plan, idx, cancel, env, script, post, mach, body, prevTool, warnings, changes>>

EndReplay ==
    /\ pc = "replay" /\ tape = <<>>
    /\ post' = LastEntry.exit /\ line' = NoLine
    /\ warnings' = warnings \o LastEntry.warn
    /\ prevTool' = NextPrevTool(op, LastEntry.swap)
    /\ idx' = idx + 1 /\ pc' = "top"
    /\ UNCHANGED <<plan, cancel, drive, mach, body, changes, cache>>

Miss ==
    /\ pc = "lookup" /\ CachedAt(op) = {}
    /\ line' = NoLine /\ pc' = "plan"
    /\ UNCHANGED <<plan, idx, cancel, drive, post, mach, body, book>>

\* synthesize_op_setup: the op names a tool the library does not have.
Fail ==
    /\ pc = "plan" /\ op.tool \notin Tools
    /\ line' = NoLine /\ pc' = "failed"
    /\ UNCHANGED <<plan, idx, cancel, drive, post, mach, body, book>>

\* The op's cuts are computed, with the warnings that raises, before any is emitted.
Plan ==
    /\ pc = "plan" /\ op.tool \in Tools
    /\ script' = Script(op) /\ warnings' = Append(warnings, op)
    /\ line' = NoLine /\ pc' = "step"
    /\ UNCHANGED <<plan, idx, cancel, env, tape, post, mach, body, prevTool, changes, cache>>

\* A driver changes tools inside its op: never a first tool.
SwapStep ==
    /\ pc = "step" /\ script # <<>> /\ Head(script).do = "swap"
    /\ env' = [tool |-> Head(script).tool, spin |-> Head(script).spin,
               first |-> FALSE, back |-> "step"]
    /\ script' = Tail(script)
    /\ line' = NoLine /\ pc' = "lift"
    /\ UNCHANGED <<plan, idx, cancel, tape, post, mach, body, book>>

\* A block starts the spindle, opens the coolant, moves to its start, and cuts.
\* The cut ends with the retract to the rapid plane.
CutSpin ==
    /\ pc = "step" /\ script # <<>> /\ Head(script).do = "cut"
    /\ Write(SpindleOn(post, Head(script).spin)) /\ pc' = "cool"
    /\ UNCHANGED <<plan, idx, cancel, drive, book>>

CutCoolant ==
    /\ pc = "cool"
    /\ Write(Coolant(post, ToolCoolant[Head(script).tool])) /\ pc' = "entry"
    /\ UNCHANGED <<plan, idx, cancel, drive, book>>

CutEntry ==
    /\ pc = "entry"
    /\ Write(RapidToEntry(post)) /\ pc' = "cut"
    /\ UNCHANGED <<plan, idx, cancel, drive, book>>

CutPass ==
    /\ pc = "cut"
    /\ Write(Emits([w |-> "cut", tool |-> Head(script).tool, v |-> Head(script).spin], post))
    /\ script' = Tail(script) /\ pc' = "step"
    /\ UNCHANGED <<plan, idx, cancel, env, tape, book>>

\* out_lines_clone_from: a streaming tee that overflowed holds nothing of the body.
Captured(o) == IF o \in Oversized THEN <<>> ELSE body

\* Mutants of Entry: the internal swap, or the warnings, are not stored.
Entry_WithoutSwap(o) ==
    [key |-> CacheKey(o), body |-> Captured(o), exit |-> post, swap |-> FALSE, warn |-> <<o>>]
Entry_WithoutWarnings(o) ==
    [key |-> CacheKey(o), body |-> Captured(o), exit |-> post, swap |-> Swaps(o), warn |-> <<>>]

Entry(o) ==
    [key |-> CacheKey(o), body |-> Captured(o), exit |-> post, swap |-> Swaps(o), warn |-> <<o>>]

\* A body that overflowed is not stored.
Finish ==
    /\ pc = "step" /\ script = <<>>
    /\ cache' = IF CacheCapacity > 0 /\ op \notin Oversized THEN Put(Entry(op)) ELSE cache
    /\ prevTool' = NextPrevTool(op, Swaps(op))
    /\ line' = NoLine /\ idx' = idx + 1 /\ pc' = "top"
    /\ UNCHANGED <<plan, cancel, drive, post, mach, body, warnings, changes>>

-----------------------------------------------------------------------------
(* emit_toolchange_envelope, one post call at a time *)

Envelope(from, to, r) ==
    /\ pc = from /\ pc' = to /\ Write(r)
    /\ UNCHANGED <<plan, idx, cancel, drive, book>>

EnvLift == Envelope("lift", "station", MoveToFastZ(post))

EnvStation ==
    Envelope("station", "coolant",
        IF ~ env.first /\ proj.machine.station THEN MachineMove(post, "station") ELSE Silent(post))

\* Mutant of EnvCoolant: asks what the tool to come runs with, not what is on.
EnvCoolant_AsksNextTool ==
    Envelope("coolant", "stop",
        IF ~ env.first /\ ToolCoolant[env.tool] \in CoolantOn THEN CoolantOff(post)
        ELSE Silent(post))

EnvCoolant ==
    Envelope("coolant", "stop",
        IF ~ env.first /\ post.cool \in CoolantOn THEN CoolantOff(post) ELSE Silent(post))

EnvStop ==
    Envelope("stop", "swap", IF env.first THEN Silent(post) ELSE SpindleOff(post))

\* With M0 the operator loads the first tool before the program starts.
SwapLine ==
    CASE proj.machine.change = "Atc" -> ToolWord(post, env.tool)
      [] proj.machine.change = "ManualM0Pause" ->
            Raw(post, SwapWord(IF env.first THEN "load" ELSE "swap", env.tool))
      [] proj.machine.change = "Ignore" -> Silent(post)

EnvSwap ==
    /\ pc = "swap"
    /\ Write(SwapLine) /\ changes' = changes + 1
    /\ pc' = IF proj.machine.change = "Ignore" THEN env.back ELSE "postz"
    /\ UNCHANGED <<plan, idx, cancel, drive, prevTool, warnings, cache>>

\* emit_post_change_z and G43: without a reference tool of its own, the fixed
\* sensor takes the program's first tool for its baseline.
EnvPostZ ==
    Envelope("postz", "spinup",
        CASE proj.machine.postZ = "sensor" -> MachineMove(post, "sensor")
          [] proj.machine.postZ = "probe" /\ ~ env.first -> MachineMove(post, "probe")
          [] proj.machine.postZ = "forget" -> ForgetZ(post)
          [] OTHER -> Silent(post))

EnvSpinUp ==
    Envelope("spinup", env.back,
        SpindleOn(IF proj.machine.change = "ManualM0Pause" THEN ResetState(post) ELSE post,
                  env.spin))

-----------------------------------------------------------------------------
(* program_end *)

\* header_setup_for takes the first cutting op of the declared order.
HeaderCoolant ==
    LET cutting == {i \in DOMAIN proj.ops : ~ IsProgramOnly(proj.ops[i])}
        header == CHOOSE i \in cutting : \A j \in cutting : i <= j
    IN  IF cutting = {} \/ proj.ops[header].tool \notin Tools THEN "off"
        ELSE ToolCoolant[proj.ops[header].tool]

EndLift ==
    /\ pc = "top" /\ idx > Len(queue)
    /\ Write(MoveToFastZ(post)) /\ pc' = "endstop"
    /\ UNCHANGED <<plan, idx, cancel, drive, book>>

EndStop == Envelope("endstop", "endcoolant", SpindleOff(post))

EndCoolant ==
    Envelope("endcoolant", "end",
        IF HeaderCoolant = "off" THEN Silent(post) ELSE CoolantOff(post))

EndProgram == Envelope("end", "done", Emits(Word("M30"), post))

-----------------------------------------------------------------------------

Boundary == BeginOp \/ Mark \/ PlayTape \/ EndRaw \/ Cancelled

CuttingOp ==
    \/ Hit \/ EndReplay \/ Miss \/ Fail \/ Plan \/ SwapStep
    \/ CutSpin \/ CutCoolant \/ CutEntry \/ CutPass \/ Finish

Change ==
    \/ EnvLift \/ EnvStation \/ EnvCoolant \/ EnvStop \/ EnvSwap \/ EnvPostZ \/ EnvSpinUp

End == EndLift \/ EndStop \/ EndCoolant \/ EndProgram

\* What the generating thread does once it has a project.
Advance == Boundary \/ CuttingOp \/ Change \/ End

Next == Generate \/ RequestCancel \/ Advance

\* The generating thread runs on until the run has ended.
Spec == Init /\ [][Next]_vars /\ WF_vars(Advance)

-----------------------------------------------------------------------------
(* Types *)

Step == [do : {"swap", "cut"}, tool : Tools, spin : Spins]

Env ==
    [tool : Tools \cup {NoTool}, spin : Spins \cup {Off}, first : BOOLEAN,
     back : {"mark", "step"}]

Key ==
    [op : Op, tool : Spins, finish : Spins \cup {Off}, machine : MachineConfig]

CacheEntry ==
    [key : Key, body : Seq(Line), exit : PostState, swap : BOOLEAN, warn : Seq(Op)]

BoundaryPC == {"mark", "raw"}
CutPC == {"cool", "entry", "cut"}
OpPC == {"lookup", "replay", "plan", "step"} \cup CutPC
ChangePC == {"lift", "station", "coolant", "stop", "swap", "postz", "spinup"}
EndPC == {"endstop", "endcoolant", "end"}

\* Every variable has its type.
TypeOK ==
    /\ proj \in Project /\ queue \in Seq(Op) /\ generates \in Nat
    /\ idx \in Nat \ {0} /\ cancel \in BOOLEAN
    /\ pc \in Ended \cup {"top"} \cup BoundaryPC \cup OpPC \cup ChangePC \cup EndPC
    /\ env \in Env /\ script \in Seq(Step) /\ tape \in Seq(Line)
    /\ post \in PostState /\ mach \in Machine /\ line \in Line /\ body \in Seq(Line)
    /\ prevTool \in ToolIds \cup {NoTool} /\ warnings \in Seq(Op) /\ changes \in Nat
    /\ cache \in Seq(CacheEntry)

-----------------------------------------------------------------------------
(* What run_per_op promises *)

Swapping == proj.machine.change # "Ignore"

\* The program is one the machine may run line by line: a tool change finds the
\* spindle stopped, the coolant off and the tool lifted, a cut runs with the tool,
\* the spindle word and the coolant it was planned with, an approach keeps its
\* height, and the program ends stopped and lifted, whatever words the post's
\* delta encoding left out (emit_toolchange_envelope, reset_state, program_end).
Protocol == INSTANCE ToolProtocol WITH asserted <- Swapping

FollowsProtocol == Protocol!Spec

\* What the post believes is so: every word it will leave out is still in force
\* on the machine, and a running spindle is one that spindle_off will stop.
PostIsRight ==
    /\ post.spin # Off => mach.spin = post.spin
    /\ post.z => mach.z = "clear"
    /\ mach.cool = IF post.cool \in CoolantOn THEN post.cool ELSE "off"
    /\ mach.spin # Off => post.lit

\* At every operation boundary prev_tool_id is the tool in the spindle, through
\* finish passes, spot passes, skipped passes and replayed bodies, so that an M6
\* left out at the boundary is one the machine does not need (next_prev_tool_id).
HeldTool == pc = "top" /\ Swapping => prevTool = mach.tool

\* A replayed operation cuts with its own tool.
CutsWithItsTool == line.w = "cut" /\ Swapping => mach.tool = line.tool

\* A pass runs with the coolant of its tool, replayed or not (reset_state's "captured
\* output is self-contained").
CutsWithItsCoolant == line.w = "cut" => mach.cool = ToolCoolant[line.tool]

\* No tool change happens with the spindle running, the coolant on or the tool low,
\* replayed bodies with a change inside included.
SwapsAreStopped == line.w \in {"swap", "load"} => Protocol!Stopped(mach)

\* A body cached by an earlier Generate holds the cuts, tools and spindle words
\* that planning the operation again from the current project would give.
CutsByLine(lines) ==
    [i \in 1 .. Len(lines) |->
        IF lines[i].w = "cut" THEN <<[tool |-> lines[i].tool, spin |-> lines[i].v]>> ELSE <<>>]
CutsByStep(steps) ==
    [i \in 1 .. Len(steps) |->
        IF steps[i].do = "cut" THEN <<[tool |-> steps[i].tool, spin |-> steps[i].spin]>>
                               ELSE <<>>]

CutsIn(lines) == Strung(CutsByLine(lines))[Len(lines)]
CutsPlanned(o) == Strung(CutsByStep(Script(o)))[Len(Script(o))]

HitIsFresh ==
    pc = "lookup" => \A i \in CachedAt(op) : CutsIn(cache[i].body) = CutsPlanned(op)

\* A finished Generate reports the planning warnings of every operation it cut,
\* in order and once, whether it was replayed or planned (apply_cached_op).
CuttingByOp ==
    [i \in 1 .. Len(queue) |-> IF IsProgramOnly(queue[i]) THEN <<>> ELSE <<queue[i]>>]
CuttingOps == Strung(CuttingByOp)[Len(queue)]

WarningsAreComplete == pc = "done" => warnings = CuttingOps

\* The cache never holds two bodies for one key, nor more than it has room for.
CacheIsSound ==
    /\ Len(cache) <= CacheCapacity
    /\ \A i, j \in DOMAIN cache : cache[i].key = cache[j].key => i = j

\* A Generate ends, done, failed or cancelled.
EveryGenerateEnds == (pc \notin Ended) ~> (pc \in Ended)
=============================================================================
