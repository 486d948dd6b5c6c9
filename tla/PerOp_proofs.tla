---------------------------- MODULE PerOp_proofs ----------------------------
(***************************************************************************)
(* Type correctness of run_per_op's model, for every library, project,     *)
(* cache capacity and number of Generates; the safety of what it emits     *)
(* when there is no cache; and the tool changes the estimator counts       *)
(* before such a run (module ToolCount).                                   *)
(***************************************************************************)
EXTENDS ToolCount, Induction_proofs, SequenceTheorems, FiniteSetTheorems, TLAPS

-----------------------------------------------------------------------------
(* What the post's methods and the machine preserve *)

Called == [line : Line, post : PostState]

\* The words written are lines of the dialect.
LEMMA Lines ==
    /\ \A w \in {"none", "lift", "station", "sensor", "probe", "home", "pause", "M5", "M9",
                 "M30"} : Word(w) \in Line
    /\ NoLine \in Line
    /\ \A t \in Tools : SwapWord("swap", t) \in Line /\ SwapWord("load", t) \in Line
    /\ \A s \in Spins : WordWith("spin", s) \in Line
    /\ \A c \in CoolantOn : WordWith("coolant", c) \in Line
    /\ \A v \in {"xy", "xyz"} : WordWith("entry", v) \in Line
    /\ \A t \in Tools, s \in Spins : [w |-> "cut", tool |-> t, v |-> s] \in Line
    BY DEF Line, Word, WordWith, SwapWord, NoLine

LEMMA EmitsType ==
    ASSUME NEW p \in PostState, NEW l \in Line
    PROVE  Emits(l, p) \in Called /\ Raw(p, l) \in Called /\ Silent(p) \in Called
    BY Lines DEF Called, Emits, Raw, Silent

LEMMA ResetType ==
    ASSUME NEW p \in PostState
    PROVE  ResetState(p) \in PostState
    BY DEF PostState, ResetState

LEMMA HeightType ==
    ASSUME NEW p \in PostState
    PROVE  /\ MoveToFastZ(p) \in Called /\ RapidToEntry(p) \in Called /\ ForgetZ(p) \in Called
           /\ \A w \in {"station", "sensor", "probe"} : MachineMove(p, w) \in Called
    <1>1. \A b \in BOOLEAN : [p EXCEPT !.z = b] \in PostState
        BY DEF PostState
    <1> QED
        BY <1>1, Lines, EmitsType DEF MoveToFastZ, RapidToEntry, ForgetZ, MachineMove, Called,
           Silent, Emits

LEMMA SpindleType ==
    ASSUME NEW p \in PostState
    PROVE  /\ \A s \in Spins : SpindleOn(p, s) \in Called
           /\ SpindleOff(p) \in Called
    <1>1. \A b \in BOOLEAN : [p EXCEPT !.lit = b] \in PostState
        BY DEF PostState
    <1>2. \A b \in BOOLEAN, s \in Spins \cup {Off} :
              /\ [p EXCEPT !.lit = b, !.spin = s] \in PostState
              /\ [p EXCEPT !.spin = s, !.lit = b] \in PostState
        BY DEF PostState
    <1> QED
        BY <1>1, <1>2, Lines, EmitsType DEF SpindleOn, SpindleOff

LEMMA CoolantType ==
    ASSUME NEW p \in PostState
    PROVE  /\ \A c \in {"off"} \cup CoolantOn : Coolant(p, c) \in Called
           /\ CoolantOff(p) \in Called
    <1>1. \A c \in {"off"} \cup CoolantOn : [p EXCEPT !.cool = c] \in PostState
        BY DEF PostState, CoolantOn
    <1> QED
        BY <1>1, Lines, EmitsType DEF Coolant, CoolantOff

\* The machine runs every line.
LEMMA ExecType ==
    ASSUME NEW m \in Machine, NEW l \in Line
    PROVE  Exec(m, l) \in Machine
    BY DEF Machine, Exec, Line, CoolantOn

-----------------------------------------------------------------------------
(* The invariant *)

\* Where the loop is says what its variables hold: an operation of the queue,
\* a tool of the library to change to, a cut in progress, an entry found.
Changing == pc \in ChangePC
InOp == pc \in BoundaryPC \cup OpPC \cup ChangePC
Driving == pc \in {"step"} \cup CutPC \/ (Changing /\ env.back = "step")

Placed ==
    /\ InOp => idx \in DOMAIN queue
    /\ Driving => op.tool \in Tools
    /\ Changing => env.tool \in Tools /\ env.spin \in Spins
    /\ pc \in CutPC => script # <<>>
    /\ pc = "replay" => cache # <<>>

TypeInv == TypeOK /\ proj \in Projects /\ Placed

-----------------------------------------------------------------------------
(* The data *)

LEMMA ProjectType ==
    ASSUME proj \in Projects
    PROVE  proj \in Project
    BY PerOpAssumption

LEMMA ResolvedType ==
    ASSUME proj \in Project, NEW o \in Op, NEW t \in Tools
    PROVE  Resolved(o, t) \in Spins
    BY DEF Project, Op, OpRecord, Resolved

\* What a driver will do is a sequence of swaps and cuts with tools of the library.
LEMMA ScriptType ==
    ASSUME proj \in Project, NEW o \in Op, o.tool \in Tools
    PROVE  Script(o) \in Seq(Step)
    <1>1. \A t \in Tools : Cut(o, t) \in Step
        BY ResolvedType DEF Cut, Step
    <1>2. \A t \in Tools, s \in Spins : SwapTo(t, s) \in Step
        BY DEF SwapTo, Step
    <1>3. \A t \in Tools : proj.lib[t] \in Spins
        BY DEF Project
    <1>4. SpotPass(o) \in Seq(Step)
        <2>1. o.spot = NoTool \/ o.spot \in Tools
            BY DEF Op, OpRecord
        <2> QED
            BY <2>1, <1>1, <1>2, <1>3 DEF SpotPass
    <1>5. FinishPass(o) \in Seq(Step)
        <2>1. HasFinish(o) => o.finish \in Tools
            BY DEF Op, OpRecord, HasFinish
        <2> QED
            BY <2>1, <1>1, <1>2, ResolvedType DEF FinishPass, Swaps
    <1>6. (IF o.rough THEN <<Cut(o, o.tool)>> ELSE <<>>) \in Seq(Step)
        BY <1>1
    <1> QED
        BY <1>4, <1>5, <1>6, ConcatProperties DEF Script

LEMMA RawLinesType ==
    ASSUME NEW o \in Op
    PROVE  RawLines(o) \in Seq(Line)
    <1>1. o.emit \in Seq(Line)
        BY DEF Op, OpRecord
    <1> QED
        BY <1>1, Lines DEF RawLines

LEMMA NextPrevToolType ==
    ASSUME NEW o \in Op, NEW b \in BOOLEAN
    PROVE  NextPrevTool(o, b) \in ToolIds
    BY DEF Op, OpRecord, NextPrevTool, HasFinish, ToolIds

LEMMA CacheKeyType ==
    ASSUME proj \in Project, NEW o \in Op, o.tool \in Tools
    PROVE  CacheKey(o) \in Key
    <1>1. HasFinish(o) => o.finish \in Tools
        BY DEF Op, OpRecord, HasFinish
    <1> QED
        BY <1>1 DEF CacheKey, Key, Project

LEMMA EntryType ==
    ASSUME TypeOK, NEW o \in Op, o.tool \in Tools
    PROVE  Entry(o) \in CacheEntry
    <1>1. CacheKey(o) \in Key /\ Swaps(o) \in BOOLEAN /\ <<o>> \in Seq(Op)
        BY CacheKeyType DEF TypeOK, Swaps, Op, OpRecord, HasFinish
    <1>2. Captured(o) \in Seq(Line)
        BY DEF Captured, TypeOK
    <1> QED
        BY <1>1, <1>2 DEF TypeOK, Entry, CacheEntry

LEMMA UseType ==
    ASSUME cache \in Seq(CacheEntry), NEW i \in DOMAIN cache
    PROVE  Use(i) \in Seq(CacheEntry) /\ Use(i) # <<>>
    <1>1. SubSeq(cache, 1, i - 1) \in Seq(CacheEntry)
        BY SubSeqProperties
    <1>2. SubSeq(cache, i + 1, Len(cache)) \in Seq(CacheEntry)
        BY SubSeqProperties
    <1>3. RemoveAt(cache, i) \in Seq(CacheEntry)
        BY <1>1, <1>2, ConcatProperties DEF RemoveAt
    <1> QED
        BY <1>3, AppendProperties DEF Use

LEMMA PutType ==
    ASSUME cache \in Seq(CacheEntry), CacheCapacity > 0, NEW e \in CacheEntry
    PROVE  Put(e) \in Seq(CacheEntry)
    <1>1. CASE Len(cache) >= CacheCapacity
        <2>1. cache # <<>>
            BY <1>1, PerOpAssumption
        <2> QED
            BY <1>1, <2>1, HeadTailProperties, AppendProperties DEF Put
    <1>2. CASE ~ (Len(cache) >= CacheCapacity)
        BY <1>2, AppendProperties DEF Put
    <1> QED
        BY <1>1, <1>2

-----------------------------------------------------------------------------
(* The steps *)

PCs == Ended \cup {"top"} \cup BoundaryPC \cup OpPC \cup ChangePC \cup EndPC

LEMMA WriteType ==
    ASSUME TypeOK, NEW r \in Called, Write(r)
    PROVE  post' \in PostState /\ line' \in Line /\ mach' \in Machine /\ body' \in Seq(Line)
    <1>1. r.line \in Line /\ r.post \in PostState
        BY DEF Called
    <1> QED
        BY <1>1, ExecType, AppendProperties DEF TypeOK, Write

\* A step that makes one post call and moves on within the loop keeps the types.
LEMMA WritingStep ==
    ASSUME TypeInv, NEW r \in Called, Write(r), pc' \in PCs,
           UNCHANGED <<plan, idx, cancel, env, tape, prevTool, warnings, cache>>,
           script' \in Seq(Step), changes' \in Nat,
           InOp' => InOp, Driving' => Driving, Changing' => Changing,
           pc' \in CutPC => script' # <<>>, pc' # "replay"
    PROVE  TypeInv'
    <1>1. TypeOK'
        BY WriteType DEF TypeInv, TypeOK, plan, PCs
    <1>2. proj' \in Projects /\ Placed'
        BY DEF TypeInv, Placed, plan, op
    <1> QED
        BY <1>1, <1>2 DEF TypeInv

LEMMA TypeInit == Init => TypeInv
    <1> SUFFICES ASSUME Init PROVE TypeInv
        OBVIOUS
    <1>1. proj \in Projects
        BY PerOpAssumption DEF Init
    <1>2. TypeOK
        <2>1. post \in PostState /\ mach \in Machine /\ line \in Line
            BY Lines DEF Init, PostState, FreshPost, Machine, ColdMachine
        <2>2. env \in Env /\ pc \in PCs
            BY DEF Init, Env, PCs, Ended
        <2>3. cancel \in BOOLEAN
            BY DEF Init
        <2> QED
            BY <1>1, <2>1, <2>2, <2>3, ProjectType DEF Init, TypeOK, PCs
    <1>3. Placed
        BY DEF Init, Placed, InOp, Driving, Changing, BoundaryPC, OpPC, CutPC, ChangePC
    <1> QED
        BY <1>1, <1>2, <1>3 DEF TypeInv

LEMMA GenerateType ==
    ASSUME TypeInv, NEW p \in Projects, StartGenerate(p)
    PROVE  TypeInv'
    <1> DEFINE n == Len(p.ops)
    <1>1. p.ops \in Seq(Op)
        BY PerOpAssumption DEF Project
    <1>2. queue' \in Seq(Op)
        <2>1. PICK perm \in [1 .. n -> 1 .. n] : queue' = [i \in 1 .. n |-> p.ops[perm[i]]]
            BY DEF StartGenerate
        <2>2. n \in Nat /\ \A i \in 1 .. n : p.ops[i] \in Op
            BY <1>1, ElementOfSeq
        <2>3. queue' \in [1 .. n -> Op]
            BY <2>1, <2>2
        <2> QED
            BY <2>2, <2>3, SeqDef
    <1>3. proj' \in Projects /\ proj' \in Project
        BY PerOpAssumption DEF StartGenerate
    <1>4. post' \in PostState /\ line' \in Line /\ mach' \in Machine
        <2>1. FreshPost \in PostState /\ ColdMachine \in Machine
            BY DEF FreshPost, PostState, ColdMachine, Machine
        <2>2. MoveToFastZ(FreshPost) \in Called
            BY <2>1, HeightType
        <2> QED
            BY <2>1, <2>2, ExecType DEF StartGenerate, Called
    <1>5. pc' = "top" /\ idx' = 1 /\ generates' = generates + 1 /\ cancel' = FALSE
          /\ body' = <<>> /\ prevTool' = NoTool /\ warnings' = <<>> /\ changes' = 0
          /\ UNCHANGED <<env, script, tape, cache>>
        BY DEF StartGenerate, drive
    <1>6. TypeOK'
        <2>1. generates' \in Nat /\ idx' \in Nat \ {0} /\ changes' \in Nat
            BY <1>5 DEF TypeInv, TypeOK
        <2>5. cancel' \in BOOLEAN
            BY <1>5
        <2>2. pc' \in Ended \cup {"top"} \cup BoundaryPC \cup OpPC \cup ChangePC \cup EndPC
            BY <1>5
        <2>3. body' \in Seq(Line) /\ warnings' \in Seq(Op)
            BY <1>5
        <2>4. env' \in Env /\ script' \in Seq(Step) /\ tape' \in Seq(Line)
              /\ cache' \in Seq(CacheEntry) /\ prevTool' \in ToolIds \cup {NoTool}
            BY <1>5 DEF TypeInv, TypeOK
        <2> QED
            BY <1>2, <1>3, <1>4, <2>1, <2>2, <2>3, <2>4, <2>5 DEF TypeOK
    <1>7. Placed'
        BY <1>5 DEF Placed, InOp, Driving, Changing, BoundaryPC, OpPC, CutPC, ChangePC
    <1> QED
        BY <1>3, <1>6, <1>7 DEF TypeInv

\* What every step after Generate leaves alone.
LEMMA BoundaryType ==
    ASSUME TypeInv, Boundary
    PROVE  TypeInv'
    <1> USE DEF BoundaryPC, OpPC, CutPC, ChangePC, EndPC, Ended, InOp, Driving, Changing
    <1>0. TypeOK /\ proj \in Projects /\ Placed
        BY DEF TypeInv
    <1>a. InOp => op \in Op /\ idx <= Len(queue)
        BY <1>0 DEF TypeOK, Placed, op
    <1>1. CASE BeginOp
        <2>1. idx \in DOMAIN queue /\ op \in Op
            BY <1>0, <1>1 DEF TypeOK, BeginOp, op
        <2>2. post' \in PostState /\ line' \in Line
            BY <1>0, <1>1, ResetType, Lines DEF TypeOK, BeginOp
        <2>3. prevTool' \in ToolIds \cup {NoTool}
            BY <1>0, <1>1, <2>1 DEF TypeOK, BeginOp, Op, OpRecord
        <2>4. /\ env' \in Env
              /\ pc' \in {"lift", "mark"}
              /\ pc' = "lift" => env'.tool \in Tools /\ env'.spin \in Spins /\ env'.back = "mark"
            <3>1. CASE NeedsChange(op) /\ op.tool \in Tools
                <4>1. proj.lib[op.tool] \in Spins
                    BY <1>0, <3>1 DEF TypeOK, Project
                <4>2. \A t \in Tools, s \in Spins, b \in BOOLEAN :
                          [tool |-> t, spin |-> s, first |-> b, back |-> "mark"] \in Env
                    BY DEF Env
                <4>3. (prevTool = NoTool) \in BOOLEAN
                    OBVIOUS
                <4>4. env' = [tool |-> op.tool, spin |-> proj.lib[op.tool],
                              first |-> prevTool = NoTool, back |-> "mark"]
                    BY <1>1, <3>1 DEF BeginOp
                <4>5. env' \in Env
                    BY <3>1, <4>1, <4>2, <4>3, <4>4, Zenon
                <4>6. env'.tool = op.tool /\ env'.spin = proj.lib[op.tool] /\ env'.back = "mark"
                    BY <4>4
                <4> QED
                    BY <1>1, <3>1, <4>1, <4>5, <4>6 DEF BeginOp
            <3>2. CASE ~ (NeedsChange(op) /\ op.tool \in Tools)
                BY <1>0, <1>1, <3>2 DEF TypeOK, BeginOp
            <3> QED
                BY <3>1, <3>2
        <2>5. TypeOK'
            BY <1>0, <1>1, <2>2, <2>3, <2>4 DEF TypeOK, BeginOp, plan
        <2>6. Placed' /\ proj' \in Projects
            BY <1>0, <1>1, <2>1, <2>4 DEF Placed, BeginOp, plan
        <2> QED
            BY <2>5, <2>6 DEF TypeInv
    <1>2. CASE Mark
        <2>1. op \in Op
            BY <1>a, <1>2 DEF Mark
        <2>2. tape' \in Seq(Line) /\ pc' \in {"raw", "lookup"}
            BY <1>0, <1>2, <2>1, RawLinesType DEF TypeOK, Mark
        <2>3. TypeOK'
            BY <1>0, <1>2, <2>2, Lines DEF TypeOK, Mark, plan, book
        <2>4. Placed' /\ proj' \in Projects
            BY <1>0, <1>2, <2>2 DEF Placed, Mark, plan
        <2> QED
            BY <2>3, <2>4 DEF TypeInv
    <1>3. CASE PlayTape
        <2>1. Head(tape) \in Line /\ Tail(tape) \in Seq(Line)
            BY <1>0, <1>3, HeadTailProperties DEF TypeOK, PlayTape
        <2>2. Raw(post, Head(tape)) \in Called
            BY <1>0, <2>1, EmitsType DEF TypeOK
        <2>3. TypeOK'
            BY <1>0, <1>3, <2>1, <2>2, WriteType DEF TypeOK, PlayTape, plan, book
        <2>4. Placed' /\ proj' \in Projects
            BY <1>0, <1>3 DEF Placed, PlayTape, plan, book, op
        <2> QED
            BY <2>3, <2>4 DEF TypeInv
    <1>4. CASE EndRaw
        <2>1. TypeOK'
            BY <1>0, <1>4, ResetType, Lines DEF TypeOK, EndRaw, plan, drive, book
        <2>2. Placed' /\ proj' \in Projects
            BY <1>0, <1>4 DEF Placed, EndRaw, plan
        <2> QED
            BY <2>1, <2>2 DEF TypeInv
    <1>5. CASE Cancelled
        <2>1. TypeOK'
            BY <1>0, <1>5 DEF TypeOK, Cancelled, plan, drive, output, book
        <2>2. Placed' /\ proj' \in Projects
            BY <1>0, <1>5 DEF Placed, Cancelled, plan
        <2> QED
            BY <2>1, <2>2 DEF TypeInv
    <1> QED
        BY <1>1, <1>2, <1>3, <1>4, <1>5 DEF Boundary

LEMMA EnvelopeType ==
    ASSUME TypeInv, NEW from, NEW to, NEW r \in Called, Envelope(from, to, r),
           \/ from \in ChangePC /\ to \in ChangePC
           \/ from \in EndPC /\ to \in EndPC \cup {"done"}
    PROVE  TypeInv'
    <1> USE DEF BoundaryPC, OpPC, CutPC, ChangePC, EndPC, Ended, InOp, Driving, Changing
    <1>1. pc' \in PCs /\ pc' # "replay" /\ ~ (pc' \in CutPC)
        BY DEF Envelope, PCs
    <1>2. /\ UNCHANGED <<plan, idx, cancel, env, script, tape, prevTool, warnings, cache, changes>>
          /\ Write(r)
        BY DEF Envelope, drive, book
    <1>3. script' \in Seq(Step) /\ changes' \in Nat
        BY <1>2 DEF TypeInv, TypeOK
    <1>4. (InOp' => InOp) /\ (Driving' => Driving) /\ (Changing' => Changing)
        BY <1>2 DEF Envelope
    <1> QED
        BY <1>1, <1>2, <1>3, <1>4, WritingStep

LEMMA EndType ==
    ASSUME TypeInv, End
    PROVE  TypeInv'
    <1>0. TypeOK /\ proj \in Projects /\ Placed /\ post \in PostState
        BY DEF TypeInv, TypeOK
    <1>1. CASE EndLift
        <2>1. MoveToFastZ(post) \in Called
            BY <1>0, HeightType
        <2>2. TypeOK'
            BY <1>0, <1>1, <2>1, WriteType DEF TypeOK, EndLift, EndPC, plan, drive, book
        <2>3. Placed' /\ proj' \in Projects
            BY <1>0, <1>1 DEF Placed, EndLift, plan, InOp, Driving, Changing, BoundaryPC, OpPC,
               CutPC, ChangePC
        <2> QED
            BY <2>2, <2>3 DEF TypeInv
    <1>2. CASE EndStop
        <2>1. SpindleOff(post) \in Called
            BY <1>0, SpindleType
        <2> QED
            BY <1>2, <2>1, EnvelopeType DEF EndStop, EndPC
    <1>3. CASE EndCoolant
        <2>1. CoolantOff(post) \in Called /\ Silent(post) \in Called
            BY <1>0, CoolantType, EmitsType, Lines
        <2> QED
            BY <1>3, <2>1, EnvelopeType DEF EndCoolant, EndPC
    <1>4. CASE EndProgram
        <2>1. Emits(Word("M30"), post) \in Called
            BY <1>0, EmitsType, Lines
        <2> QED
            BY <1>4, <2>1, EnvelopeType DEF EndProgram, EndPC
    <1> QED
        BY <1>1, <1>2, <1>3, <1>4 DEF End

LEMMA ChangeType ==
    ASSUME TypeInv, Change
    PROVE  TypeInv'
    <1>0. TypeOK /\ proj \in Projects /\ Placed /\ post \in PostState /\ env \in Env
        BY DEF TypeInv, TypeOK
    <1>b. {"lift", "station", "coolant", "stop", "swap", "postz", "spinup"} = ChangePC
        BY DEF ChangePC
    <1>c. \A from, to \in ChangePC : \A r \in Called : Envelope(from, to, r) => TypeInv'
        BY EnvelopeType
    <1>a. Silent(post) \in Called
        BY <1>0, EmitsType, Lines
    <1>1. CASE EnvLift
        BY <1>0, <1>b, <1>c, <1>1, HeightType DEF EnvLift
    <1>2. CASE EnvStation
        <2>1. (IF ~ env.first /\ proj.machine.station THEN MachineMove(post, "station")
               ELSE Silent(post)) \in Called
            BY <1>0, <1>a, HeightType
        <2> QED
            BY <1>2, <2>1, <1>b, <1>c DEF EnvStation
    <1>3. CASE EnvCoolant
        <2>1. (IF ~ env.first /\ post.cool \in CoolantOn THEN CoolantOff(post)
               ELSE Silent(post)) \in Called
            BY <1>0, <1>a, CoolantType
        <2> QED
            BY <1>3, <2>1, <1>b, <1>c DEF EnvCoolant
    <1>4. CASE EnvStop
        <2>1. (IF env.first THEN Silent(post) ELSE SpindleOff(post)) \in Called
            BY <1>0, <1>a, SpindleType
        <2> QED
            BY <1>4, <2>1, <1>b, <1>c DEF EnvStop
    <1>5. CASE EnvSwap
        <2>1. env.tool \in Tools /\ env.back \in {"mark", "step"} /\ proj.machine \in MachineConfig
            BY <1>0, <1>5, <1>b DEF Placed, Changing, EnvSwap, Env, TypeOK, Project
        <2>2. SwapLine \in Called
            BY <1>0, <1>a, <2>1, EmitsType, Lines DEF SwapLine, ToolWord, MachineConfig
        <2>3. pc' \in {"mark", "step", "postz"} /\ (pc' = "step" => env.back = "step")
            BY <1>5, <2>1 DEF EnvSwap
        <2>4. /\ UNCHANGED <<plan, idx, cancel, env, script, tape, prevTool, warnings, cache>>
              /\ Write(SwapLine) /\ changes' = changes + 1
            BY <1>5 DEF EnvSwap, drive
        <2>5. script' \in Seq(Step) /\ changes' \in Nat
            BY <1>0, <2>4 DEF TypeOK
        <2>6. InOp /\ (Driving' => Driving) /\ (Changing' => Changing)
            BY <1>5, <1>b, <2>3, <2>4 DEF EnvSwap, InOp, Driving, Changing, CutPC, ChangePC
        <2>7. pc' \in PCs /\ pc' \notin CutPC /\ pc' # "replay"
            BY <2>3 DEF PCs, BoundaryPC, OpPC, CutPC, ChangePC
        <2> QED
            BY <2>2, <2>4, <2>5, <2>6, <2>7, WritingStep
    <1>6. CASE EnvPostZ
        <2>1. MachineMove(post, "sensor") \in Called /\ MachineMove(post, "probe") \in Called
              /\ ForgetZ(post) \in Called
            BY <1>0, HeightType
        <2>2. PICK r \in Called : Envelope("postz", "spinup", r)
            BY <1>6, <1>a, <2>1 DEF EnvPostZ
        <2> QED
            BY <2>2, <1>b, <1>c
    <1>7. CASE EnvSpinUp
        <2> DEFINE r == SpindleOn(IF proj.machine.change = "ManualM0Pause" THEN ResetState(post)
                                  ELSE post, env.spin)
        <2>1. env.spin \in Spins /\ env.back \in {"mark", "step"}
            BY <1>0, <1>7 DEF Placed, Changing, EnvSpinUp, Envelope, Env, ChangePC
        <2>2. r \in Called
            BY <1>0, <2>1, ResetType, SpindleType
        <2>3. pc' \in {"mark", "step"} /\ (pc' = "step" => env.back = "step")
            BY <1>7, <2>1 DEF EnvSpinUp, Envelope
        <2>4. /\ UNCHANGED <<plan, idx, cancel, env, script, tape, prevTool, warnings, cache, changes>>
              /\ Write(r)
            BY <1>7 DEF EnvSpinUp, Envelope, drive, book
        <2>5. script' \in Seq(Step) /\ changes' \in Nat
            BY <1>0, <2>4 DEF TypeOK
        <2>6. InOp /\ (Driving' => Driving) /\ (Changing' => Changing)
            BY <1>7, <1>b, <2>3, <2>4 DEF EnvSpinUp, Envelope, InOp, Driving, Changing, CutPC, ChangePC
        <2>7. pc' \in PCs /\ pc' \notin CutPC /\ pc' # "replay"
            BY <2>3 DEF PCs, BoundaryPC, OpPC, CutPC, ChangePC
        <2> HIDE DEF r
        <2> QED
            BY <2>2, <2>4, <2>5, <2>6, <2>7, WritingStep
    <1> QED
        BY <1>1, <1>2, <1>3, <1>4, <1>5, <1>6, <1>7 DEF Change

LEMMA CuttingType ==
    ASSUME TypeInv, CuttingOp
    PROVE  TypeInv'
    <1> USE DEF BoundaryPC, OpPC, CutPC, ChangePC, EndPC, Ended, InOp, Driving, Changing
    <1>0. TypeOK /\ proj \in Projects /\ proj \in Project /\ Placed
        BY ProjectType DEF TypeInv
    <1>a. idx \in DOMAIN queue /\ op \in Op
        BY <1>0 DEF CuttingOp, Hit, EndReplay, Miss, Fail, Plan, SwapStep, CutSpin, CutCoolant,
           CutEntry, CutPass, Finish, Placed, TypeOK, op
    <1>b. post \in PostState /\ NoLine \in Line
        BY <1>0, Lines DEF TypeOK
    <1>c. script # <<>> => Head(script) \in Step /\ Tail(script) \in Seq(Step)
        BY <1>0, HeadTailProperties DEF TypeOK
    <1>1. CASE Hit
        <2>1. PICK i \in CachedAt(op) : cache' = Use(i) /\ tape' = cache[i].body
            BY <1>1 DEF Hit
        <2>2. i \in DOMAIN cache
            BY <2>1 DEF CachedAt, Keyed
        <2>3. cache' \in Seq(CacheEntry) /\ cache' # <<>>
            BY <1>0, <2>1, <2>2, UseType DEF TypeOK
        <2>4. tape' \in Seq(Line)
            <3>1. cache[i] \in CacheEntry
                BY <1>0, <2>2 DEF TypeOK
            <3> QED
                BY <2>1, <3>1 DEF CacheEntry
        <2>5. TypeOK'
            BY <1>0, <1>1, <1>b, <2>3, <2>4 DEF TypeOK, Hit, plan
        <2>6. Placed' /\ proj' \in Projects
            BY <1>0, <1>1, <2>3 DEF Placed, Hit, plan
        <2> QED
            BY <2>5, <2>6 DEF TypeInv
    <1>2. CASE EndReplay
        <2>1. LastEntry \in CacheEntry
            BY <1>0, <1>2 DEF TypeOK, Placed, EndReplay, LastEntry
        <2>2. post' \in PostState /\ prevTool' \in ToolIds /\ warnings' \in Seq(Op)
            BY <1>0, <1>2, <1>a, <2>1, NextPrevToolType, ConcatProperties DEF TypeOK, EndReplay, CacheEntry
        <2>3. TypeOK'
            BY <1>0, <1>2, <1>b, <2>2 DEF TypeOK, EndReplay, plan, drive
        <2>4. Placed' /\ proj' \in Projects
            BY <1>0, <1>2 DEF Placed, EndReplay, plan
        <2> QED
            BY <2>3, <2>4 DEF TypeInv
    <1>3. CASE Miss \/ Fail
        <2>1. TypeOK'
            BY <1>0, <1>3, <1>b DEF TypeOK, Miss, Fail, plan, drive, book
        <2>2. Placed' /\ proj' \in Projects
            BY <1>0, <1>3 DEF Placed, Miss, Fail, plan
        <2> QED
            BY <2>1, <2>2 DEF TypeInv
    <1>4. CASE Plan
        <2>1. script' \in Seq(Step)
            BY <1>0, <1>4, <1>a, ScriptType DEF Plan
        <2>2. warnings' \in Seq(Op)
            BY <1>0, <1>4, <1>a, AppendProperties DEF TypeOK, Plan
        <2>3. TypeOK'
            BY <1>0, <1>4, <1>b, <2>1, <2>2 DEF TypeOK, Plan, plan
        <2>4. Placed' /\ proj' \in Projects
            BY <1>0, <1>4 DEF Placed, Plan, plan, op
        <2> QED
            BY <2>3, <2>4 DEF TypeInv
    <1>5. CASE SwapStep
        <2>1. Head(script) \in Step /\ script' \in Seq(Step)
            BY <1>5, <1>c DEF SwapStep
        <2>2. env' \in Env /\ env'.tool \in Tools /\ env'.spin \in Spins
            BY <1>5, <2>1 DEF SwapStep, Step, Env
        <2>3. TypeOK'
            BY <1>0, <1>5, <1>b, <2>1, <2>2 DEF TypeOK, SwapStep, plan, book
        <2>4. Placed' /\ proj' \in Projects
            BY <1>0, <1>5, <2>2 DEF Placed, SwapStep, plan, op
        <2> QED
            BY <2>3, <2>4 DEF TypeInv
    <1>6. CASE CutSpin
        <2>1. Head(script) \in Step /\ script # <<>>
            BY <1>6, <1>c DEF CutSpin
        <2>2. SpindleOn(post, Head(script).spin) \in Called
            BY <1>b, <2>1, SpindleType DEF Step
        <2>3. TypeOK'
            BY <1>0, <1>6, <2>2, WriteType DEF TypeOK, CutSpin, plan, drive, book
        <2>4. Placed' /\ proj' \in Projects
            BY <1>0, <1>6, <2>1 DEF Placed, CutSpin, plan, drive, op
        <2> QED
            BY <2>3, <2>4 DEF TypeInv
    <1>7. CASE CutCoolant
        <2>1. Head(script) \in Step /\ script # <<>>
            BY <1>0, <1>7, <1>c DEF CutCoolant, Placed
        <2>2. Coolant(post, ToolCoolant[Head(script).tool]) \in Called
            BY <1>b, <2>1, CoolantType, PerOpAssumption DEF Step
        <2>3. TypeOK'
            BY <1>0, <1>7, <2>2, WriteType DEF TypeOK, CutCoolant, plan, drive, book
        <2>4. Placed' /\ proj' \in Projects
            BY <1>0, <1>7, <2>1 DEF Placed, CutCoolant, plan, drive, op
        <2> QED
            BY <2>3, <2>4 DEF TypeInv
    <1>8. CASE CutEntry
        <2>1. RapidToEntry(post) \in Called
            BY <1>b, HeightType
        <2>2. TypeOK'
            BY <1>0, <1>8, <2>1, WriteType DEF TypeOK, CutEntry, plan, drive, book
        <2>3. Placed' /\ proj' \in Projects
            BY <1>0, <1>8 DEF Placed, CutEntry, plan, drive, op
        <2> QED
            BY <2>2, <2>3 DEF TypeInv
    <1>9. CASE CutPass
        <2> DEFINE cut == [w |-> "cut", tool |-> Head(script).tool, v |-> Head(script).spin]
        <2>1. Head(script) \in Step /\ script' \in Seq(Step)
            BY <1>0, <1>9, <1>c DEF CutPass, Placed
        <2>2. Emits(cut, post) \in Called
            BY <1>b, <2>1, Lines, EmitsType DEF Step
        <2>3. TypeOK'
            BY <1>0, <1>9, <2>1, <2>2, WriteType DEF TypeOK, CutPass, plan, book
        <2>4. Placed' /\ proj' \in Projects
            BY <1>0, <1>9 DEF Placed, CutPass, plan, op
        <2> QED
            BY <2>3, <2>4 DEF TypeInv
    <1>10. CASE Finish
        <2>1. op.tool \in Tools
            BY <1>0, <1>10 DEF Finish, Placed
        <2>2. cache' \in Seq(CacheEntry)
            BY <1>0, <1>10, <1>a, <2>1, EntryType, PutType DEF TypeOK, Finish
        <2>3. prevTool' \in ToolIds
            <3>1. Swaps(op) \in BOOLEAN
                BY <1>a DEF Swaps, HasFinish, Op, OpRecord
            <3> QED
                BY <1>10, <1>a, <3>1, NextPrevToolType DEF Finish
        <2>4. TypeOK'
            BY <1>0, <1>10, <1>b, <2>2, <2>3 DEF TypeOK, Finish, plan, drive
        <2>5. Placed' /\ proj' \in Projects
            BY <1>0, <1>10 DEF Placed, Finish, plan
        <2> QED
            BY <2>4, <2>5 DEF TypeInv
    <1> QED
        BY <1>1, <1>2, <1>3, <1>4, <1>5, <1>6, <1>7, <1>8, <1>9, <1>10 DEF CuttingOp

LEMMA TypeStep == TypeInv /\ [Next]_vars => TypeInv'
    <1> SUFFICES ASSUME TypeInv, [Next]_vars PROVE TypeInv'
        OBVIOUS
    <1>1. CASE Generate
        BY <1>1, GenerateType DEF Generate
    <1>2. CASE RequestCancel
        <2>1. cancel' \in BOOLEAN
            BY <1>2 DEF RequestCancel
        <2>2. UNCHANGED <<plan, idx, pc, drive, output, book>>
            BY <1>2 DEF RequestCancel
        <2>3. TypeOK'
            BY <2>1, <2>2 DEF TypeInv, TypeOK, plan, drive, output, book
        <2>4. Placed' /\ proj' \in Projects
            BY <2>2 DEF TypeInv, Placed, InOp, Driving, Changing, op, plan, drive, output, book
        <2> QED
            BY <2>3, <2>4 DEF TypeInv
    <1>3. CASE Advance
        BY <1>3, BoundaryType, CuttingType, ChangeType, EndType DEF Advance
    <1>4. CASE UNCHANGED vars
        BY <1>4 DEF TypeInv, TypeOK, Placed, InOp, Driving, Changing, op, vars, plan, drive,
           output, book
    <1> QED
        BY <1>1, <1>2, <1>3, <1>4 DEF Next

\* Every variable of the loop, the post, the machine and the cache keeps its type,
\* whatever is generated and however often (run_per_op).
THEOREM TypeCorrect == Spec => []TypeOK
    <1>1. TypeInv => TypeOK
        BY DEF TypeInv
    <1> QED
        BY <1>1, TypeInit, TypeStep, PTL DEF Spec

-----------------------------------------------------------------------------
(***************************************************************************)
(* The safety of a freshly emitted program, for every library, project and *)
(* number of Generates: the post's belief is right, prev_tool_id is the    *)
(* tool in the spindle, and every line is one the machine may run.         *)
(*                                                                         *)
(* The promise is for runs without a cache, whose cutting operations all   *)
(* pass their gate and whose included files leave alone what the post      *)
(* cannot see.  What a cache leaves of it follows further below.           *)
(***************************************************************************)

\* The words an included file may write without the post taking harm: none of them
\* starts the spindle, opens the coolant or changes the tool.
Inert == {"none", "lift", "station", "sensor", "probe", "home", "pause", "M5"}

\* An operation that does what its boundary announces.
Plainly(o) ==
    /\ IsProgramOnly(o) \/ o.gate
    /\ \A j \in DOMAIN o.emit : o.emit[j].w \in Inert

\* What the promise is made under.
Undisturbed ==
    /\ CacheCapacity = 0
    /\ \A p \in Projects : \A i \in DOMAIN p.ops : Plainly(p.ops[i])

-----------------------------------------------------------------------------
(* The inductive invariant *)

\* A post p that is right about machine m.
Right(p, m) ==
    /\ p.spin # Off => m.spin = p.spin
    /\ p.z => m.z = "clear"
    /\ m.cool = IF p.cool \in CoolantOn THEN p.cool ELSE "off"
    /\ m.spin # Off => p.lit

\* A post that has started neither spindle nor coolant.
Cold(p) == ~ p.lit /\ p.cool \notin CoolantOn

\* With tool t in the spindle the script s may run, and it leaves tool u: it changes
\* tools before it cuts with another one.
Goes(s, t, u) ==
    IF s = <<>> THEN t = u
    ELSE /\ s[1].do = "cut" => s[1].tool = t
         /\ \A i \in 2 .. Len(s) : s[i].do = "cut" => s[i].tool = s[i - 1].tool
         /\ s[Len(s)].tool = u

HeldAfter(o) == NextPrevTool(o, Swaps(o))

\* Tool t is in the spindle, and the coolant is off or its own.
Ready(t, m, swapping) ==
    /\ m.cool = "off" \/ (t \in Tools /\ m.cool = ToolCoolant[t])
    /\ swapping => m.tool = t

Outside == pc \in {"top", "raw"} \/ (pc = "mark" /\ IsProgramOnly(op))
Entering == pc \in {"mark", "lookup", "plan"} /\ ~ IsProgramOnly(op) /\ op.tool \in Tools
Cutting == pc \in {"step"} \cup CutPC

\* Only operations the promise is made for are emitted, and nothing is replayed.
PlaceInv ==
    /\ pc # "replay"
    /\ \A i \in DOMAIN queue : Plainly(queue[i])
    /\ pc = "raw" => IsProgramOnly(op)
    /\ Changing \/ pc \in OpPC => ~ IsProgramOnly(op)

\* Between operations prevTool is held, and nothing runs before the first tool.
OutsideInv ==
    Outside => /\ prevTool \in Tools \cup {NoTool}
               /\ Ready(prevTool, mach, Swapping)
               /\ prevTool = NoTool => Cold(post)

\* A program-only operation's lines go out past a post that remembers nothing.
RawInv ==
    /\ pc = "mark" /\ IsProgramOnly(op) => post.spin = Off /\ ~ post.z
    /\ pc = "raw" => /\ post.spin = Off /\ ~ post.z
                     /\ \A j \in DOMAIN tape : tape[j].w \in Inert

\* A cutting operation starts on its own tool.
EnteringInv == Entering => Ready(op.tool, mach, Swapping)

\* What the driver has left may run with the tool it has reached.
CuttingInv ==
    Cutting =>
        /\ \E t \in Tools : Goes(script, t, HeldAfter(op)) /\ Ready(t, mach, Swapping)
        /\ pc \in CutPC => script[1].do = "cut" /\ mach.spin = script[1].spin
        /\ pc \in {"entry", "cut"} => mach.cool = ToolCoolant[script[1].tool]
        /\ pc = "cut" => mach.z = "clear"

\* The envelope lifts, dries and stops before it swaps, and knows what follows.
ChangingInv ==
    Changing =>
        /\ env.back = "mark" => env.tool = op.tool
        /\ env.back = "step" => ~ env.first /\ Goes(script, env.tool, HeldAfter(op))
        /\ env.first => Cold(post)
        /\ pc \in {"station", "coolant", "stop", "swap"} => mach.z = "clear"
        /\ pc \in {"stop", "swap", "postz", "spinup"} => mach.cool = "off"
        /\ pc = "swap" => mach.spin = Off
        /\ pc \in {"postz", "spinup"} /\ Swapping => mach.tool = env.tool

\* The program ends lifted, then stopped.
EndInv ==
    /\ pc \in EndPC => mach.z = "clear"
    /\ pc \in {"endcoolant", "end"} => mach.spin = Off

Safe ==
    /\ Right(post, mach) /\ PlaceInv /\ OutsideInv /\ RawInv /\ EnteringInv /\ CuttingInv
    /\ ChangingInv /\ EndInv

SafeInv == TypeInv /\ Safe
-----------------------------------------------------------------------------
(* What the post's methods do to a machine the post is right about *)

LEMMA ResetRight ==
    ASSUME NEW p \in PostState, NEW m \in Machine, Right(p, m)
    PROVE  /\ Right(ResetState(p), m)
           /\ ResetState(p).spin = Off /\ ~ ResetState(p).z
           /\ Cold(p) => Cold(ResetState(p))
    BY DEF Right, Cold, ResetState, PostState

LEMMA ForgetRight ==
    ASSUME NEW p \in PostState, mach \in Machine, Right(p, mach),
           Write(ForgetZ(p)) \/ Write(Silent(p))
    PROVE  Right(post', mach') /\ mach' = mach /\ (Cold(p) => Cold(post'))
    BY DEF Right, Cold, ForgetZ, Silent, Write, Exec, NoLine, Word, WordWith, PostState

LEMMA LiftRight ==
    ASSUME NEW p \in PostState, mach \in Machine, Right(p, mach), Write(MoveToFastZ(p))
    PROVE  /\ Right(post', mach') /\ mach'.z = "clear"
           /\ mach'.tool = mach.tool /\ mach'.spin = mach.spin /\ mach'.cool = mach.cool
           /\ Cold(p) => Cold(post')
    BY DEF Right, Cold, MoveToFastZ, Emits, Silent, Write, Exec, NoLine, Word, WordWith,
       PostState, Machine

LEMMA EntryRight ==
    ASSUME NEW p \in PostState, mach \in Machine, Right(p, mach), Write(RapidToEntry(p))
    PROVE  /\ Right(post', mach') /\ mach'.z = "clear"
           /\ mach'.tool = mach.tool /\ mach'.spin = mach.spin /\ mach'.cool = mach.cool
    BY DEF Right, RapidToEntry, Emits, Write, Exec, Word, WordWith, PostState, Machine

LEMMA MoveRight ==
    ASSUME NEW p \in PostState, mach \in Machine, Right(p, mach),
           NEW w \in {"station", "sensor", "probe"}, Write(MachineMove(p, w))
    PROVE  /\ Right(post', mach') /\ (w = "station" => mach'.z = mach.z)
           /\ mach'.tool = mach.tool /\ mach'.spin = mach.spin /\ mach'.cool = mach.cool
           /\ Cold(p) => Cold(post')
    BY DEF Right, Cold, MachineMove, Emits, Write, Exec, Word, WordWith, PostState, Machine

LEMMA SpindleOnRight ==
    ASSUME NEW p \in PostState, mach \in Machine, Right(p, mach),
           NEW s \in Spins, Write(SpindleOn(p, s))
    PROVE  /\ Right(post', mach') /\ mach'.spin = s
           /\ mach'.tool = mach.tool /\ mach'.cool = mach.cool /\ mach'.z = mach.z
    BY SpinsAssumption DEF Right, SpindleOn, Emits, Silent, Write, Exec, NoLine, Word, WordWith,
       PostState, Machine

LEMMA SpindleOffRight ==
    ASSUME NEW p \in PostState, mach \in Machine, Right(p, mach), Write(SpindleOff(p))
    PROVE  /\ Right(post', mach') /\ mach'.spin = Off
           /\ mach'.tool = mach.tool /\ mach'.cool = mach.cool /\ mach'.z = mach.z
           /\ Cold(p) => Cold(post')
    BY DEF Right, Cold, SpindleOff, Emits, Silent, Write, Exec, NoLine, Word, WordWith,
       PostState, Machine

LEMMA CoolantRight ==
    ASSUME NEW p \in PostState, mach \in Machine, Right(p, mach),
           NEW c \in {"off"} \cup CoolantOn, Write(Coolant(p, c)), mach.cool \in {"off", c}
    PROVE  /\ Right(post', mach') /\ mach'.cool = c
           /\ mach'.tool = mach.tool /\ mach'.spin = mach.spin /\ mach'.z = mach.z
    BY DEF Right, Coolant, Emits, Silent, Write, Exec, NoLine, Word, WordWith, PostState,
       Machine, CoolantOn

LEMMA CoolantOffRight ==
    ASSUME NEW p \in PostState, mach \in Machine, Right(p, mach), Write(CoolantOff(p))
    PROVE  /\ Right(post', mach') /\ mach'.cool = "off"
           /\ mach'.tool = mach.tool /\ mach'.spin = mach.spin /\ mach'.z = mach.z
           /\ Cold(p) => Cold(post')
    BY DEF Right, Cold, CoolantOff, Emits, Silent, Write, Exec, NoLine, Word, WordWith,
       PostState, Machine, CoolantOn

LEMMA SwapRight ==
    ASSUME NEW p \in PostState, mach \in Machine, Right(p, mach),
           NEW t \in Tools, NEW w \in {"swap", "load"}, Write(Emits(SwapWord(w, t), p))
    PROVE  /\ Right(post', mach') /\ mach'.tool = t
           /\ mach'.cool = mach.cool /\ mach'.spin = mach.spin /\ mach'.z = mach.z
           /\ Cold(p) => Cold(post')
    BY DEF Right, Cold, Emits, SwapWord, Write, Exec, PostState, Machine

\* A line the post does not see harms no post that remembers neither spindle nor height.
LEMMA RawRight ==
    ASSUME NEW p \in PostState, mach \in Machine, Right(p, mach), p.spin = Off, ~ p.z,
           NEW l \in Line, l.w \in Inert, Write(Raw(p, l))
    PROVE  /\ Right(post', mach') /\ post' = p
           /\ mach'.tool = mach.tool /\ mach'.cool = mach.cool
    BY DEF Right, Raw, Emits, Write, Exec, Inert, PostState, Machine

LEMMA CutRight ==
    ASSUME NEW p \in PostState, mach \in Machine, Right(p, mach),
           NEW l, l.w = "cut", Write(Emits(l, p))
    PROVE  /\ Right(post', mach')
           /\ mach'.tool = mach.tool /\ mach'.cool = mach.cool /\ mach'.spin = mach.spin
    BY DEF Right, Emits, Write, Exec, PostState, Machine

-----------------------------------------------------------------------------
(* What a driver does: it changes tools before it cuts with another one *)

LEMMA TailGoes ==
    ASSUME NEW s \in Seq(Step), s # <<>>, NEW t, NEW u, Goes(s, t, u)
    PROVE  /\ Head(s) = s[1] /\ s[1] \in Step
           /\ Tail(s) \in Seq(Step) /\ Goes(Tail(s), s[1].tool, u)
    <1>1. /\ Len(s) \in Nat \ {0} /\ Head(s) = s[1] /\ s[1] \in Step
          /\ Tail(s) \in Seq(Step) /\ Len(Tail(s)) = Len(s) - 1
          /\ \A i \in 1 .. Len(s) - 1 : Tail(s)[i] = s[i + 1]
        BY HeadTailProperties, EmptySeq, LenProperties, ElementOfSeq
    <1>2. CASE Tail(s) = <<>>
        <2>1. Len(s) = 1
            BY <1>1, <1>2, EmptySeq
        <2>2. s[1].tool = u
            BY <2>1 DEF Goes
        <2> QED
            BY <1>1, <1>2, <2>2 DEF Goes
    <1>3. CASE Tail(s) # <<>>
        <2>1. Len(s) - 1 \in Nat \ {0}
            BY <1>1, <1>3, EmptySeq
        <2>2. Tail(s)[1] = s[2] /\ Tail(s)[Len(s) - 1] = s[Len(s)]
            BY <1>1, <2>1
        <2>3. Tail(s)[1].do = "cut" => Tail(s)[1].tool = s[1].tool
            BY <1>1, <2>1, <2>2 DEF Goes
        <2>4. ASSUME NEW i \in 2 .. Len(s) - 1, Tail(s)[i].do = "cut"
              PROVE  Tail(s)[i].tool = Tail(s)[i - 1].tool
            <3>1. Tail(s)[i] = s[i + 1] /\ Tail(s)[i - 1] = s[i]
                BY <1>1
            <3> QED
                BY <1>1, <2>4, <3>1 DEF Goes
        <2> QED
            BY <1>1, <1>3, <2>1, <2>2, <2>3, <2>4 DEF Goes
    <1> QED
        BY <1>1, <1>2, <1>3

LEMMA ConcatGoes ==
    ASSUME NEW a \in Seq(Step), NEW b \in Seq(Step), NEW t, NEW u, NEW v,
           Goes(a, t, u), Goes(b, u, v)
    PROVE  Goes(a \o b, t, v)
    <1>1. CASE a = <<>>
        BY <1>1, ConcatEmptySeq DEF Goes
    <1>2. CASE b = <<>>
        BY <1>2, ConcatEmptySeq DEF Goes
    <1>3. CASE a # <<>> /\ b # <<>>
        <2> DEFINE s == a \o b
        <2>1. /\ Len(a) \in Nat \ {0} /\ Len(b) \in Nat \ {0} /\ Len(s) = Len(a) + Len(b)
              /\ \A i \in 1 .. Len(s) : s[i] = IF i <= Len(a) THEN a[i] ELSE b[i - Len(a)]
            BY <1>3, ConcatProperties, EmptySeq, LenProperties
        <2> HIDE DEF s
        <2>2. s[1] = a[1] /\ s[Len(s)] = b[Len(b)] /\ s # <<>>
            <3>1. s[1] = a[1] /\ s[Len(s)] = b[Len(b)]
                BY <2>1
            <3>2. s # <<>>
                BY <2>1
            <3> QED
                BY <3>1, <3>2
        <2>3. ASSUME NEW i \in 2 .. Len(s), s[i].do = "cut"
              PROVE  s[i].tool = s[i - 1].tool
            <3>1. CASE i <= Len(a)
                <4>1. s[i] = a[i] /\ s[i - 1] = a[i - 1] /\ i \in 2 .. Len(a)
                    BY <2>1, <3>1
                <4> QED
                    BY <1>3, <2>3, <4>1 DEF Goes
            <3>2. CASE i = Len(a) + 1
                <4>1. s[i] = b[1] /\ s[i - 1] = a[Len(a)]
                    BY <2>1, <3>2
                <4> QED
                    BY <1>3, <2>3, <4>1 DEF Goes
            <3>3. CASE i > Len(a) + 1
                <4>1. /\ s[i] = b[i - Len(a)] /\ s[i - 1] = b[(i - Len(a)) - 1]
                      /\ i - Len(a) \in 2 .. Len(b)
                    BY <2>1, <3>3
                <4> QED
                    BY <1>3, <2>3, <4>1 DEF Goes
            <3> QED
                BY <2>1, <3>1, <3>2, <3>3
        <2>4. s[1].do = "cut" => s[1].tool = t
            BY <1>3, <2>2 DEF Goes
        <2>5. s[Len(s)].tool = v
            BY <1>3, <2>2 DEF Goes
        <2>6. Goes(s, t, v)
            BY <2>2, <2>3, <2>4, <2>5 DEF Goes
        <2> QED
            BY <2>6 DEF s
    <1> QED
        BY <1>1, <1>2, <1>3

\* From the op's own tool a driver gets to the tool next_prev_tool_id names.
LEMMA ScriptGoes ==
    ASSUME proj \in Project, NEW o \in Op, o.tool \in Tools
    PROVE  Script(o) \in Seq(Step) /\ Goes(Script(o), o.tool, HeldAfter(o))
    <1> DEFINE rough == IF o.rough THEN <<Cut(o, o.tool)>> ELSE <<>>
    <1>1. \A t \in Tools : Cut(o, t) \in Step
        BY ResolvedType DEF Cut, Step
    <1>2. \A t \in Tools, s \in Spins : SwapTo(t, s) \in Step
        BY DEF SwapTo, Step
    <1>3. \A t \in Tools : proj.lib[t] \in Spins
        BY DEF Project
    <1>4. SpotPass(o) \in Seq(Step) /\ Goes(SpotPass(o), o.tool, o.tool)
        <2>1. o.spot = NoTool \/ o.spot \in Tools
            BY DEF Op, OpRecord
        <2>2. CASE o.spot = NoTool \/ ~ o.rough
            BY <2>2 DEF SpotPass, Goes
        <2>3. CASE ~ (o.spot = NoTool \/ ~ o.rough) /\ o.spot = o.tool
            BY <2>3, <1>1 DEF SpotPass, Goes, Cut
        <2>4. CASE ~ (o.spot = NoTool \/ ~ o.rough) /\ o.spot # o.tool
            <3>1. SpotPass(o) = <<SwapTo(o.spot, proj.lib[o.spot]), Cut(o, o.spot),
                                  SwapTo(o.tool, proj.lib[o.tool])>>
                BY <2>4 DEF SpotPass
            <3>2. SpotPass(o) \in Seq(Step)
                BY <2>1, <2>4, <3>1, <1>1, <1>2, <1>3
            <3>3. Goes(SpotPass(o), o.tool, o.tool)
                BY <3>1 DEF Goes, SwapTo, Cut
            <3> QED
                BY <3>2, <3>3
        <2> QED
            BY <2>2, <2>3, <2>4
    <1>5. rough \in Seq(Step) /\ Goes(rough, o.tool, o.tool)
        BY <1>1 DEF Goes, Cut
    <1>6. FinishPass(o) \in Seq(Step) /\ Goes(FinishPass(o), o.tool, HeldAfter(o))
        <2>1. CASE Swaps(o)
            <3>1. HasFinish(o) /\ o.finish \in Tools
                BY <2>1 DEF Op, OpRecord, HasFinish, Swaps
            <3>2. FinishPass(o) = <<SwapTo(o.finish, Resolved(o, o.finish)), Cut(o, o.finish)>>
                BY <2>1 DEF FinishPass
            <3>3. HeldAfter(o) = o.finish
                BY <2>1, <3>1 DEF HeldAfter, NextPrevTool
            <3>4. FinishPass(o) \in Seq(Step)
                BY <3>1, <3>2, <1>1, <1>2, ResolvedType
            <3>5. Goes(FinishPass(o), o.tool, o.finish)
                BY <3>2 DEF Goes, SwapTo, Cut
            <3> QED
                BY <3>3, <3>4, <3>5
        <2>2. CASE ~ Swaps(o)
            BY <2>2 DEF FinishPass, Goes, HeldAfter, NextPrevTool
        <2> QED
            BY <2>1, <2>2
    <1>7. SpotPass(o) \o rough \in Seq(Step) /\ Goes(SpotPass(o) \o rough, o.tool, o.tool)
        BY <1>4, <1>5, ConcatGoes, ConcatProperties
    <1> HIDE DEF rough
    <1>8. /\ (SpotPass(o) \o rough) \o FinishPass(o) \in Seq(Step)
          /\ Goes((SpotPass(o) \o rough) \o FinishPass(o), o.tool, HeldAfter(o))
        BY <1>6, <1>7, ConcatGoes, ConcatProperties
    <1> QED
        BY <1>8 DEF Script, rough

-----------------------------------------------------------------------------
(* The steps *)

\* What the invariant says is said of one place at a time.
LEMMA Elsewhere ==
    /\ pc' \in ChangePC => OutsideInv' /\ RawInv' /\ EnteringInv' /\ CuttingInv' /\ EndInv'
    /\ pc' \in {"step"} \cup CutPC =>
          OutsideInv' /\ RawInv' /\ EnteringInv' /\ ChangingInv' /\ EndInv'
    /\ pc' \in {"lookup", "plan"} =>
          OutsideInv' /\ RawInv' /\ CuttingInv' /\ ChangingInv' /\ EndInv'
    /\ pc' \in {"top", "raw"} => EnteringInv' /\ CuttingInv' /\ ChangingInv' /\ EndInv'
    /\ pc' = "top" => RawInv'
    /\ pc' = "mark" => CuttingInv' /\ ChangingInv' /\ EndInv'
    /\ pc' \in EndPC => OutsideInv' /\ RawInv' /\ EnteringInv' /\ CuttingInv' /\ ChangingInv'
    /\ pc' \in Ended =>
          OutsideInv' /\ RawInv' /\ EnteringInv' /\ CuttingInv' /\ ChangingInv' /\ EndInv'
    BY DEF OutsideInv, RawInv, EnteringInv, CuttingInv, ChangingInv, EndInv, Outside, Entering,
       Cutting, Changing, ChangePC, CutPC, EndPC, Ended

LEMMA SameOp ==
    ASSUME UNCHANGED <<plan, idx>>
    PROVE  op' = op /\ Swapping' = Swapping /\ queue' = queue /\ proj' = proj
    BY DEF plan, op, Swapping

LEMMA SafeInit == Init => Safe
    <1> SUFFICES ASSUME Init PROVE Safe
        OBVIOUS
    <1>1. Right(post, mach)
        BY DEF Init, Right, FreshPost, ColdMachine, CoolantOn
    <1>2. pc = "idle" /\ queue = <<>>
        BY DEF Init
    <1>3. PlaceInv
        BY <1>2 DEF PlaceInv, Changing, ChangePC, OpPC, CutPC
    <1>4. OutsideInv /\ RawInv /\ EnteringInv /\ CuttingInv /\ ChangingInv /\ EndInv
        BY <1>2 DEF OutsideInv, RawInv, EnteringInv, CuttingInv, ChangingInv, EndInv, Outside,
           Entering, Cutting, Changing, ChangePC, CutPC, EndPC
    <1> QED
        BY <1>1, <1>3, <1>4 DEF Safe

LEMMA GenerateSafe ==
    ASSUME Undisturbed, NEW p \in Projects, StartGenerate(p)
    PROVE  Safe'
    <1> DEFINE n == Len(p.ops)
    <1>1. \A i \in DOMAIN queue' : Plainly(queue'[i])
        <2>1. p.ops \in Seq(Op)
            BY PerOpAssumption DEF Project
        <2>2. PICK perm \in [1 .. n -> 1 .. n] : queue' = [i \in 1 .. n |-> p.ops[perm[i]]]
            BY DEF StartGenerate
        <2>3. DOMAIN p.ops = 1 .. n
            BY <2>1, LenProperties
        <2> QED
            BY <2>2, <2>3 DEF Undisturbed
    <1>2. pc' = "top" /\ prevTool' = NoTool
        BY DEF StartGenerate
    <1>3. Right(post', mach') /\ Cold(post') /\ mach'.tool = NoTool /\ mach'.cool = "off"
        BY DEF StartGenerate, FreshPost, ColdMachine, MoveToFastZ, Emits, Exec, Word, WordWith,
           Right, Cold, CoolantOn
    <1>4. PlaceInv'
        BY <1>1, <1>2 DEF PlaceInv, Changing, ChangePC, OpPC, CutPC
    <1>5. OutsideInv'
        BY <1>2, <1>3 DEF OutsideInv, Ready
    <1> QED
        BY <1>2, <1>3, <1>4, <1>5, Elsewhere DEF Safe

LEMMA BeginOpSafe ==
    ASSUME SafeInv, BeginOp
    PROVE  Safe'
    <1>0. TypeOK /\ Safe /\ post \in PostState /\ mach \in Machine
        BY DEF SafeInv, TypeInv, TypeOK
    <1>1. idx \in DOMAIN queue /\ op \in Op /\ Plainly(op)
        BY <1>0 DEF TypeOK, BeginOp, op, Safe, PlaceInv
    <1>2. op' = op /\ Swapping' = Swapping /\ queue' = queue /\ mach' = mach
        BY SameOp DEF BeginOp
    <1>3. post' = ResetState(post) /\ pc = "top"
        BY DEF BeginOp
    <1>4. /\ Right(post', mach') /\ post'.spin = Off /\ ~ post'.z
          /\ Cold(post) => Cold(post')
        BY <1>0, <1>2, <1>3, ResetRight DEF Safe
    <1>5. /\ Ready(prevTool, mach, Swapping)
          /\ prevTool = NoTool => Cold(post)
          /\ prevTool \in Tools \cup {NoTool}
        BY <1>0, <1>3 DEF Safe, OutsideInv, Outside
    <1>6. CASE NeedsChange(op) /\ op.tool \in Tools
        <2>1. /\ pc' = "lift" /\ ~ IsProgramOnly(op)
              /\ env'.tool = op.tool /\ env'.back = "mark" /\ env'.first = (prevTool = NoTool)
            BY <1>6 DEF BeginOp, NeedsChange
        <2>2. PlaceInv'
            BY <1>0, <1>2, <2>1 DEF Safe, PlaceInv
        <2>3. ChangingInv'
            BY <1>2, <1>4, <1>5, <2>1 DEF ChangingInv
        <2>4. pc' \in ChangePC
            BY <2>1 DEF ChangePC
        <2> QED
            BY <1>4, <2>2, <2>3, <2>4, Elsewhere DEF Safe
    <1>7. CASE ~ (NeedsChange(op) /\ op.tool \in Tools)
        <2>1. pc' = "mark"
            BY <1>7 DEF BeginOp
        <2>2. PlaceInv'
            BY <1>0, <1>2, <2>1 DEF Safe, PlaceInv, Changing, ChangePC, OpPC, CutPC
        <2>3. OutsideInv'
            <3>1. IsProgramOnly(op) => prevTool' = prevTool
                BY DEF BeginOp, NeedsChange
            <3> QED
                BY <1>2, <1>4, <1>5, <2>1, <3>1 DEF OutsideInv, Outside
        <2>4. RawInv'
            BY <1>4, <2>1 DEF RawInv
        <2>5. EnteringInv'
            <3>1. ~ IsProgramOnly(op) /\ op.tool \in Tools => prevTool = op.tool
                BY <1>1, <1>7 DEF NeedsChange, Plainly
            <3> QED
                BY <1>2, <1>5, <3>1 DEF EnteringInv, Entering
        <2> QED
            BY <1>4, <2>1, <2>2, <2>3, <2>4, <2>5, Elsewhere DEF Safe
    <1> QED
        BY <1>6, <1>7

\* The lines of an operation that does not touch the tracked words.
LEMMA RawLinesInert ==
    ASSUME NEW o \in Op, Plainly(o), NEW j \in DOMAIN RawLines(o)
    PROVE  RawLines(o)[j].w \in Inert
    <1>1. CASE o.kind = "pause"
        BY <1>1 DEF RawLines, Word, WordWith, Inert
    <1>2. CASE o.kind = "homing"
        BY <1>2 DEF RawLines, Word, WordWith, Inert
    <1>3. CASE o.kind = "probe"
        BY <1>3 DEF RawLines, Word, WordWith, Inert
    <1>4. CASE o.kind = "include"
        <2>1. RawLines(o) = o.emit
            BY <1>4 DEF RawLines
        <2> QED
            BY <2>1 DEF Plainly
    <1>5. CASE o.kind \notin {"pause", "homing", "probe", "include"}
        <2>1. RawLines(o) = <<>>
            BY <1>5 DEF RawLines
        <2> QED
            BY <2>1
    <1> QED
        BY <1>1, <1>2, <1>3, <1>4, <1>5

LEMMA BoundarySafe ==
    ASSUME SafeInv, Boundary
    PROVE  Safe'
    <1>0. TypeOK /\ Safe /\ post \in PostState /\ mach \in Machine
        BY DEF SafeInv, TypeInv, TypeOK
    <1>1. CASE BeginOp
        BY <1>1, BeginOpSafe
    <1>2. CASE Mark
        <2>1. op' = op /\ Swapping' = Swapping /\ queue' = queue
              /\ mach' = mach /\ post' = post /\ prevTool' = prevTool /\ pc = "mark"
            BY <1>2, SameOp DEF Mark, book
        <2>2. op \in Op /\ Plainly(op)
            BY <1>0, <2>1 DEF SafeInv, TypeInv, TypeOK, Placed, InOp, BoundaryPC, op, Safe, PlaceInv
        <2>3. Right(post', mach')
            BY <1>0, <2>1 DEF Safe
        <2>4. CASE IsProgramOnly(op)
            <3>1. pc' = "raw" /\ tape' = RawLines(op)
                BY <1>2, <2>4 DEF Mark
            <3>2. PlaceInv'
                BY <1>0, <2>1, <2>4, <3>1 DEF Safe, PlaceInv, Changing, ChangePC, OpPC, CutPC
            <3>3. OutsideInv'
                BY <1>0, <2>1, <2>4, <3>1 DEF Safe, OutsideInv, Outside
            <3>4. RawInv'
                BY <1>0, <2>1, <2>2, <2>4, <3>1, RawLinesInert DEF Safe, RawInv
            <3> QED
                BY <2>3, <3>1, <3>2, <3>3, <3>4, Elsewhere DEF Safe
        <2>5. CASE ~ IsProgramOnly(op)
            <3>1. pc' = "lookup"
                BY <1>2, <2>5 DEF Mark
            <3>2. PlaceInv'
                BY <1>0, <2>1, <2>5, <3>1 DEF Safe, PlaceInv, Changing, ChangePC, OpPC, CutPC
            <3>3. EnteringInv'
                BY <1>0, <2>1, <2>5, <3>1 DEF Safe, EnteringInv, Entering
            <3> QED
                BY <2>3, <3>1, <3>2, <3>3, Elsewhere DEF Safe
        <2> QED
            BY <2>4, <2>5
    <1>3. CASE PlayTape
        <2>1. op' = op /\ Swapping' = Swapping /\ queue' = queue /\ prevTool' = prevTool
              /\ pc' = pc /\ Write(Raw(post, Head(tape))) /\ tape # <<>> /\ tape' = Tail(tape)
            BY <1>3, SameOp DEF PlayTape, book
        <2>2. pc = "raw"
            BY <1>0, <1>3 DEF PlayTape, Safe, PlaceInv
        <2>3. /\ Head(tape) \in Line /\ Head(tape) = tape[1] /\ 1 \in DOMAIN tape
              /\ \A j \in DOMAIN Tail(tape) : j + 1 \in DOMAIN tape /\ Tail(tape)[j] = tape[j + 1]
            <3>1. tape \in Seq(Line) /\ Len(tape) \in Nat \ {0}
                BY <1>0, <2>1, EmptySeq DEF TypeOK
            <3>2. DOMAIN tape = 1 .. Len(tape) /\ Tail(tape) \in Seq(Line)
                  /\ Len(Tail(tape)) = Len(tape) - 1
                  /\ \A i \in 1 .. Len(Tail(tape)) : Tail(tape)[i] = tape[i + 1]
                BY <3>1, <2>1, LenProperties, HeadTailProperties
            <3>3. DOMAIN Tail(tape) = 1 .. Len(tape) - 1
                BY <3>2, LenProperties
            <3> QED
                BY <2>1, <3>1, <3>2, <3>3, HeadTailProperties
        <2>4. post.spin = Off /\ ~ post.z /\ \A j \in DOMAIN tape : tape[j].w \in Inert
            BY <1>0, <2>2 DEF Safe, RawInv
        <2>5. /\ Right(post', mach') /\ post' = post
              /\ mach'.tool = mach.tool /\ mach'.cool = mach.cool
            BY <1>0, <2>1, <2>3, <2>4, RawRight DEF Safe
        <2>6. PlaceInv'
            BY <1>0, <2>1, <2>2 DEF Safe, PlaceInv, Changing, ChangePC, OpPC, CutPC
        <2>7. OutsideInv'
            BY <1>0, <2>1, <2>2, <2>5 DEF Safe, OutsideInv, Outside, Ready
        <2>8. RawInv'
            BY <2>1, <2>2, <2>3, <2>4, <2>5 DEF RawInv
        <2> QED
            BY <2>1, <2>2, <2>5, <2>6, <2>7, <2>8, Elsewhere DEF Safe
    <1>4. CASE EndRaw
        <2>1. /\ proj' = proj /\ queue' = queue /\ pc = "raw" /\ pc' = "top" /\ mach' = mach
              /\ prevTool' = prevTool /\ post' = ResetState(post)
            BY <1>4 DEF EndRaw, plan, book
        <2>2. Right(post', mach') /\ (Cold(post) => Cold(post'))
            BY <1>0, <2>1, ResetRight DEF Safe
        <2>3. PlaceInv'
            BY <1>0, <2>1 DEF Safe, PlaceInv, Changing, ChangePC, OpPC, CutPC
        <2>4. OutsideInv'
            BY <1>0, <2>1, <2>2 DEF Safe, OutsideInv, Outside, Swapping
        <2> QED
            BY <2>1, <2>2, <2>3, <2>4, Elsewhere DEF Safe
    <1>5. CASE Cancelled
        <2>1. queue' = queue /\ pc' = "cancelled" /\ mach' = mach /\ post' = post
            BY <1>5 DEF Cancelled, plan, output
        <2>2. Right(post', mach') /\ PlaceInv'
            BY <1>0, <2>1 DEF Safe, PlaceInv, Changing, ChangePC, OpPC, CutPC
        <2> QED
            BY <2>1, <2>2, Elsewhere DEF Safe, Ended
    <1> QED
        BY <1>1, <1>2, <1>3, <1>4, <1>5 DEF Boundary

LEMMA CuttingSafe ==
    ASSUME Undisturbed, SafeInv, CuttingOp
    PROVE  Safe'
    <1>0. TypeOK /\ Safe /\ Placed /\ post \in PostState /\ mach \in Machine
          /\ script \in Seq(Step) /\ proj \in Project /\ Right(post, mach)
        BY DEF SafeInv, TypeInv, TypeOK, Safe
    <1>a. queue' = queue /\ proj' = proj /\ Swapping' = Swapping
        BY DEF CuttingOp, Hit, EndReplay, Miss, Fail, Plan, SwapStep, CutSpin, CutCoolant,
           CutEntry, CutPass, Finish, plan, Swapping
    <1>b. ~ IsProgramOnly(op) /\ op \in Op
        BY <1>0 DEF CuttingOp, Hit, EndReplay, Miss, Fail, Plan, SwapStep, CutSpin, CutCoolant,
           CutEntry, CutPass, Finish, Safe, PlaceInv, OpPC, CutPC, Placed, InOp, TypeOK, op
    <1>c. ASSUME pc' # "replay", pc' # "raw", op' = op \/ pc' \in {"top", "failed"}
          PROVE  PlaceInv'
        BY <1>0, <1>a, <1>b, <1>c DEF Safe, PlaceInv, Changing, ChangePC, OpPC, CutPC
    <1>d. pc \in {"step"} \cup CutPC =>
              \E t \in Tools : Goes(script, t, HeldAfter(op)) /\ Ready(t, mach, Swapping)
        BY <1>0 DEF Safe, CuttingInv, Cutting
    <1>e. script # <<>> => Head(script) = script[1] /\ Head(script) \in Step
        BY <1>0, TailGoes, HeadTailProperties
    <1>1. CASE Hit
        BY <1>1 DEF Hit, CachedAt, Undisturbed
    <1>2. CASE EndReplay
        BY <1>0, <1>2 DEF EndReplay, Safe, PlaceInv
    <1>3. CASE Miss
        <2>1. pc = "lookup" /\ pc' = "plan" /\ op' = op /\ mach' = mach /\ post' = post
            BY <1>3, SameOp DEF Miss, output
        <2>2. EnteringInv'
            BY <1>0, <1>a, <2>1 DEF Safe, EnteringInv, Entering
        <2> QED
            BY <1>0, <1>c, <2>1, <2>2, Elsewhere DEF Safe
    <1>4. CASE Fail
        <2>1. pc' = "failed" /\ mach' = mach /\ post' = post
            BY <1>4 DEF Fail
        <2> QED
            BY <1>0, <1>c, <2>1, Elsewhere DEF Safe, Ended
    <1>5. CASE Plan
        <2>1. /\ pc = "plan" /\ pc' = "step" /\ op' = op /\ mach' = mach /\ post' = post
              /\ script' = Script(op) /\ op.tool \in Tools
            BY <1>5, SameOp DEF Plan
        <2>2. Ready(op.tool, mach, Swapping)
            BY <1>0, <1>b, <2>1 DEF Safe, EnteringInv, Entering
        <2>3. Goes(script', op.tool, HeldAfter(op))
            BY <1>0, <1>b, <2>1, ScriptGoes
        <2>4. CuttingInv'
            BY <1>a, <2>1, <2>2, <2>3 DEF CuttingInv, CutPC
        <2> QED
            BY <1>0, <1>c, <2>1, <2>4, Elsewhere DEF Safe
    <1>6. CASE SwapStep
        <2>1. /\ pc = "step" /\ pc' = "lift" /\ op' = op /\ mach' = mach /\ post' = post
              /\ script # <<>> /\ script' = Tail(script)
              /\ env'.tool = Head(script).tool /\ env'.first = FALSE /\ env'.back = "step"
            BY <1>6, SameOp DEF SwapStep
        <2>2. Goes(script', env'.tool, HeldAfter(op))
            BY <1>0, <1>d, <2>1, TailGoes
        <2>3. ChangingInv'
            BY <2>1, <2>2 DEF ChangingInv
        <2>4. pc' \in ChangePC
            BY <2>1 DEF ChangePC
        <2> QED
            BY <1>0, <1>c, <2>1, <2>3, <2>4, Elsewhere DEF Safe
    <1>7. CASE CutSpin
        <2>1. /\ pc = "step" /\ pc' = "cool" /\ op' = op /\ script # <<>> /\ script' = script
              /\ Head(script).do = "cut" /\ Write(SpindleOn(post, Head(script).spin))
            BY <1>7, SameOp DEF CutSpin, drive
        <2>2. /\ Right(post', mach') /\ mach'.spin = Head(script).spin
              /\ mach'.tool = mach.tool /\ mach'.cool = mach.cool
            BY <1>0, <1>e, <2>1, SpindleOnRight DEF Step
        <2>3. CuttingInv'
            BY <1>a, <1>d, <1>e, <2>1, <2>2 DEF CuttingInv, Ready
        <2> QED
            BY <1>c, <2>1, <2>2, <2>3, Elsewhere DEF Safe, CutPC
    <1>8. CASE CutCoolant
        <2>1. /\ pc = "cool" /\ pc' = "entry" /\ op' = op /\ script' = script
              /\ Write(Coolant(post, ToolCoolant[Head(script).tool]))
            BY <1>8, SameOp DEF CutCoolant, drive
        <2>2. script # <<>> /\ script[1].do = "cut" /\ mach.spin = script[1].spin
            BY <1>0, <2>1 DEF Placed, Safe, CuttingInv, Cutting, CutPC
        <2>3. PICK t \in Tools : Goes(script, t, HeldAfter(op)) /\ Ready(t, mach, Swapping)
            BY <1>d, <2>1 DEF CutPC
        <2>4. script[1].tool = t
            BY <2>2, <2>3 DEF Goes
        <2>5. ToolCoolant[t] \in {"off"} \cup CoolantOn /\ mach.cool \in {"off", ToolCoolant[t]}
            BY <2>3, PerOpAssumption DEF Ready
        <2>6. /\ Right(post', mach') /\ mach'.cool = ToolCoolant[t]
              /\ mach'.tool = mach.tool /\ mach'.spin = mach.spin
            BY <1>0, <1>e, <2>1, <2>2, <2>4, <2>5, CoolantRight
        <2>7. CuttingInv'
            BY <1>a, <2>1, <2>2, <2>3, <2>4, <2>6 DEF CuttingInv, Ready
        <2> QED
            BY <1>c, <2>1, <2>6, <2>7, Elsewhere DEF Safe, CutPC
    <1>9. CASE CutEntry
        <2>1. /\ pc = "entry" /\ pc' = "cut" /\ op' = op /\ script' = script
              /\ Write(RapidToEntry(post))
            BY <1>9, SameOp DEF CutEntry, drive
        <2>2. /\ Right(post', mach') /\ mach'.z = "clear"
              /\ mach'.tool = mach.tool /\ mach'.spin = mach.spin /\ mach'.cool = mach.cool
            BY <1>0, <2>1, EntryRight
        <2>3. /\ script[1].do = "cut" /\ mach.spin = script[1].spin
              /\ mach.cool = ToolCoolant[script[1].tool]
            BY <1>0, <2>1 DEF Safe, CuttingInv, Cutting, CutPC
        <2>4. \E t \in Tools : Goes(script, t, HeldAfter(op)) /\ Ready(t, mach, Swapping)
            BY <1>d, <2>1 DEF CutPC
        <2>5. CuttingInv'
            BY <1>a, <2>1, <2>2, <2>3, <2>4 DEF CuttingInv, Ready
        <2> QED
            BY <1>c, <2>1, <2>2, <2>5, Elsewhere DEF Safe, CutPC
    <1>10. CASE CutPass
        <2> DEFINE l == [w |-> "cut", tool |-> Head(script).tool, v |-> Head(script).spin]
        <2>1. /\ pc = "cut" /\ pc' = "step" /\ op' = op /\ script' = Tail(script)
              /\ Write(Emits(l, post))
            BY <1>10, SameOp DEF CutPass
        <2>2. script # <<>> /\ script[1].do = "cut"
            BY <1>0, <2>1 DEF Placed, Safe, CuttingInv, Cutting, CutPC
        <2>3. /\ Right(post', mach') /\ mach'.tool = mach.tool /\ mach'.cool = mach.cool
            <3>1. l.w = "cut"
                OBVIOUS
            <3> HIDE DEF l
            <3> QED
                BY <1>0, <2>1, <3>1, CutRight
        <2>4. PICK t \in Tools : Goes(script, t, HeldAfter(op)) /\ Ready(t, mach, Swapping)
            BY <1>d, <2>1 DEF CutPC
        <2>5. script[1].tool = t
            BY <2>2, <2>4 DEF Goes
        <2>6. Goes(script', t, HeldAfter(op))
            BY <1>0, <2>1, <2>2, <2>4, <2>5, TailGoes
        <2>7. CuttingInv'
            BY <1>a, <2>1, <2>3, <2>4, <2>6 DEF CuttingInv, Ready, CutPC
        <2> QED
            BY <1>c, <2>1, <2>3, <2>7, Elsewhere DEF Safe
    <1>11. CASE Finish
        <2>1. /\ pc = "step" /\ pc' = "top" /\ script = <<>> /\ mach' = mach /\ post' = post
              /\ prevTool' = HeldAfter(op)
            BY <1>11 DEF Finish, HeldAfter
        <2>2. PICK t \in Tools : Goes(script, t, HeldAfter(op)) /\ Ready(t, mach, Swapping)
            BY <1>d, <2>1
        <2>3. prevTool' = t /\ t # NoTool
            BY <2>1, <2>2, ToolsAssumption DEF Goes
        <2>4. OutsideInv'
            BY <1>a, <2>1, <2>2, <2>3 DEF OutsideInv
        <2> QED
            BY <1>0, <1>c, <2>1, <2>4, Elsewhere DEF Safe
    <1> QED
        BY <1>1, <1>2, <1>3, <1>4, <1>5, <1>6, <1>7, <1>8, <1>9, <1>10, <1>11 DEF CuttingOp

LEMMA ChangeSafe ==
    ASSUME SafeInv, Change
    PROVE  Safe'
    <1>0. TypeOK /\ Safe /\ Placed /\ post \in PostState /\ mach \in Machine
          /\ proj \in Project /\ Right(post, mach)
        BY DEF SafeInv, TypeInv, TypeOK, Safe
    <1>a. /\ op' = op /\ Swapping' = Swapping /\ queue' = queue /\ script' = script /\ env' = env
          /\ pc \in ChangePC
        BY SameOp DEF Change, EnvLift, EnvStation, EnvCoolant, EnvStop, EnvSwap, EnvPostZ,
           EnvSpinUp, Envelope, drive, ChangePC
    <1>b. /\ env.tool \in Tools /\ env.spin \in Spins /\ env.back \in {"mark", "step"}
          /\ ~ IsProgramOnly(op)
          /\ env.back = "mark" => env.tool = op.tool
          /\ env.back = "step" => ~ env.first /\ Goes(script, env.tool, HeldAfter(op))
          /\ env.first => Cold(post)
        BY <1>0, <1>a DEF Placed, Changing, TypeOK, Env, Safe, PlaceInv, ChangingInv
    <1>c. /\ pc \in {"station", "coolant", "stop", "swap"} => mach.z = "clear"
          /\ pc \in {"stop", "swap", "postz", "spinup"} => mach.cool = "off"
          /\ pc = "swap" => mach.spin = Off
          /\ pc \in {"postz", "spinup"} /\ Swapping => mach.tool = env.tool
        BY <1>0, <1>a DEF Safe, ChangingInv, Changing
    \* A step within the envelope keeps the invariant if it keeps what it says of the envelope.
    <1>d. ASSUME pc' \in ChangePC, Right(post', mach'), env.first => Cold(post'),
                 pc' \in {"station", "coolant", "stop", "swap"} => mach'.z = "clear",
                 pc' \in {"stop", "swap", "postz", "spinup"} => mach'.cool = "off",
                 pc' = "swap" => mach'.spin = Off,
                 pc' \in {"postz", "spinup"} /\ Swapping => mach'.tool = env.tool
          PROVE  Safe'
        <2>1. ChangingInv'
            BY <1>a, <1>b, <1>d DEF ChangingInv
        <2>2. PlaceInv'
            BY <1>0, <1>a, <1>b, <1>d DEF Safe, PlaceInv, ChangePC
        <2> QED
            BY <1>d, <2>1, <2>2, Elsewhere DEF Safe
    \* The envelope ends with its tool in the spindle and the coolant off.
    <1>e. ASSUME pc' = env.back, Right(post', mach'), mach'.cool = "off",
                 Swapping => mach'.tool = env.tool
          PROVE  Safe'
        <2>1. PlaceInv'
            BY <1>0, <1>a, <1>b, <1>e DEF Safe, PlaceInv, ChangePC
        <2>2. CASE env.back = "mark"
            <3>1. OutsideInv' /\ RawInv'
                BY <1>a, <1>b, <1>e, <2>2 DEF OutsideInv, Outside, RawInv
            <3>2. EnteringInv'
                BY <1>a, <1>b, <1>e, <2>2 DEF EnteringInv, Entering, Ready
            <3> QED
                BY <1>e, <2>1, <2>2, <3>1, <3>2, Elsewhere DEF Safe
        <2>3. CASE env.back = "step"
            <3>1. CuttingInv'
                BY <1>a, <1>b, <1>e, <2>3 DEF CuttingInv, Ready, CutPC
            <3> QED
                BY <1>e, <2>1, <2>3, <3>1, Elsewhere DEF Safe
        <2> QED
            BY <1>b, <2>2, <2>3
    <1>1. CASE EnvLift
        <2>1. pc' = "station" /\ Write(MoveToFastZ(post))
            BY <1>1 DEF EnvLift, Envelope
        <2>2. Right(post', mach') /\ mach'.z = "clear" /\ (Cold(post) => Cold(post'))
            BY <1>0, <2>1, LiftRight
        <2> QED
            BY <1>b, <1>d, <2>1, <2>2 DEF ChangePC
    <1>2. CASE EnvStation
        <2>1. /\ pc = "station" /\ pc' = "coolant"
              /\ Write(MachineMove(post, "station")) \/ Write(Silent(post))
            BY <1>2 DEF EnvStation, Envelope
        <2>2. Right(post', mach') /\ mach'.z = mach.z /\ (Cold(post) => Cold(post'))
            BY <1>0, <2>1, MoveRight, ForgetRight
        <2> QED
            BY <1>b, <1>c, <1>d, <2>1, <2>2 DEF ChangePC
    <1>3. CASE EnvCoolant
        <2>1. pc = "coolant" /\ pc' = "stop" /\ mach.z = "clear"
            BY <1>3, <1>c DEF EnvCoolant, Envelope
        <2>2. CASE ~ env.first /\ post.cool \in CoolantOn
            <3>1. Write(CoolantOff(post))
                BY <1>3, <2>2 DEF EnvCoolant, Envelope
            <3>2. Right(post', mach') /\ mach'.cool = "off" /\ mach'.z = mach.z
                BY <1>0, <3>1, CoolantOffRight
            <3> QED
                BY <1>d, <2>1, <2>2, <3>2 DEF ChangePC
        <2>3. CASE ~ (~ env.first /\ post.cool \in CoolantOn)
            <3>1. Write(Silent(post))
                BY <1>3, <2>3 DEF EnvCoolant, Envelope
            <3>2. Right(post', mach') /\ mach' = mach /\ (Cold(post) => Cold(post'))
                BY <1>0, <3>1, ForgetRight
            <3>3. mach.cool = "off"
                BY <1>0, <1>b, <2>3 DEF Right, Cold
            <3> QED
                BY <1>b, <1>d, <2>1, <3>2, <3>3 DEF ChangePC
        <2> QED
            BY <2>2, <2>3
    <1>4. CASE EnvStop
        <2>1. pc = "stop" /\ pc' = "swap" /\ mach.z = "clear" /\ mach.cool = "off"
            BY <1>4, <1>c DEF EnvStop, Envelope
        <2>2. CASE env.first
            <3>1. Write(Silent(post))
                BY <1>4, <2>2 DEF EnvStop, Envelope
            <3>2. Right(post', mach') /\ mach' = mach /\ (Cold(post) => Cold(post'))
                BY <1>0, <3>1, ForgetRight
            <3>3. mach.spin = Off
                BY <1>0, <1>b, <2>2 DEF Right, Cold
            <3> QED
                BY <1>b, <1>d, <2>1, <3>2, <3>3 DEF ChangePC
        <2>3. CASE ~ env.first
            <3>1. Write(SpindleOff(post))
                BY <1>4, <2>3 DEF EnvStop, Envelope
            <3>2. /\ Right(post', mach') /\ mach'.spin = Off
                  /\ mach'.cool = mach.cool /\ mach'.z = mach.z
                BY <1>0, <3>1, SpindleOffRight
            <3> QED
                BY <1>d, <2>1, <2>3, <3>2 DEF ChangePC
        <2> QED
            BY <2>2, <2>3
    <1>5. CASE EnvSwap
        <2>1. /\ pc = "swap" /\ Write(SwapLine) /\ mach.cool = "off"
              /\ pc' = IF proj.machine.change = "Ignore" THEN env.back ELSE "postz"
            BY <1>5, <1>c DEF EnvSwap
        <2>2. CASE proj.machine.change = "Ignore"
            <3>1. Write(Silent(post)) /\ pc' = env.back /\ ~ Swapping
                BY <2>1, <2>2 DEF SwapLine, Swapping
            <3>2. Right(post', mach') /\ mach' = mach
                BY <1>0, <3>1, ForgetRight
            <3> QED
                BY <1>e, <2>1, <3>1, <3>2
        <2>3. CASE proj.machine.change # "Ignore"
            <3>1. pc' = "postz" /\ proj.machine.change \in {"Atc", "ManualM0Pause"}
                BY <1>0, <2>1, <2>3 DEF Project, MachineConfig
            <3>2. \E w \in {"swap", "load"} : Write(Emits(SwapWord(w, env.tool), post))
                BY <2>1, <3>1 DEF SwapLine, ToolWord, Raw
            <3>3. /\ Right(post', mach') /\ mach'.tool = env.tool /\ mach'.cool = mach.cool
                  /\ Cold(post) => Cold(post')
                BY <1>0, <1>b, <3>2, SwapRight
            <3> QED
                BY <1>b, <1>d, <2>1, <3>1, <3>3 DEF ChangePC
        <2> QED
            BY <2>2, <2>3
    <1>6. CASE EnvPostZ
        <2>1. pc = "postz" /\ pc' = "spinup" /\ mach.cool = "off"
            BY <1>6, <1>c DEF EnvPostZ, Envelope
        <2>2. \/ \E w \in {"sensor", "probe"} : Write(MachineMove(post, w))
              \/ Write(ForgetZ(post)) \/ Write(Silent(post))
            BY <1>6 DEF EnvPostZ, Envelope
        <2>3. /\ Right(post', mach') /\ mach'.tool = mach.tool /\ mach'.cool = mach.cool
              /\ Cold(post) => Cold(post')
            BY <1>0, <2>2, MoveRight, ForgetRight
        <2> QED
            BY <1>b, <1>c, <1>d, <2>1, <2>3 DEF ChangePC
    <1>7. CASE EnvSpinUp
        <2>1. pc = "spinup" /\ pc' = env.back /\ mach.cool = "off"
            BY <1>7, <1>c DEF EnvSpinUp, Envelope
        <2>2. PICK p \in {post, ResetState(post)} : Write(SpindleOn(p, env.spin))
            BY <1>7 DEF EnvSpinUp, Envelope
        <2>3. p \in PostState /\ Right(p, mach)
            BY <1>0, ResetRight, ResetType
        <2>4. Right(post', mach') /\ mach'.tool = mach.tool /\ mach'.cool = mach.cool
            BY <1>0, <1>b, <2>2, <2>3, SpindleOnRight
        <2> QED
            BY <1>c, <1>e, <2>1, <2>4
    <1> QED
        BY <1>1, <1>2, <1>3, <1>4, <1>5, <1>6, <1>7 DEF Change

LEMMA EndSafe ==
    ASSUME SafeInv, End
    PROVE  Safe'
    <1>0. TypeOK /\ Safe /\ post \in PostState /\ mach \in Machine /\ Right(post, mach)
        BY DEF SafeInv, TypeInv, TypeOK, Safe
    <1>a. ASSUME pc' \in EndPC \cup {"done"}, queue' = queue, Right(post', mach'), EndInv'
          PROVE  Safe'
        <2>1. PlaceInv'
            BY <1>0, <1>a DEF Safe, PlaceInv, Changing, ChangePC, OpPC, CutPC, EndPC
        <2> QED
            BY <1>a, <2>1, Elsewhere DEF Safe, Ended
    <1>b. queue' = queue
        BY DEF End, EndLift, EndStop, EndCoolant, EndProgram, Envelope, plan
    <1>1. CASE EndLift
        <2>1. pc' = "endstop" /\ Right(post', mach') /\ mach'.z = "clear"
            BY <1>0, <1>1, LiftRight DEF EndLift
        <2> QED
            BY <1>a, <1>b, <2>1 DEF EndInv, EndPC
    <1>2. CASE EndStop
        <2>1. pc = "endstop" /\ pc' = "endcoolant" /\ Write(SpindleOff(post))
            BY <1>2 DEF EndStop, Envelope
        <2>2. Right(post', mach') /\ mach'.spin = Off /\ mach'.z = "clear"
            BY <1>0, <2>1, SpindleOffRight DEF Safe, EndInv, EndPC
        <2> QED
            BY <1>a, <1>b, <2>1, <2>2 DEF EndInv, EndPC
    <1>3. CASE EndCoolant
        <2>1. /\ pc = "endcoolant" /\ pc' = "end"
              /\ Write(CoolantOff(post)) \/ Write(Silent(post))
            BY <1>3 DEF EndCoolant, Envelope
        <2>2. Right(post', mach') /\ mach'.spin = mach.spin /\ mach'.z = mach.z
            BY <1>0, <2>1, CoolantOffRight, ForgetRight
        <2>3. mach.spin = Off /\ mach.z = "clear"
            BY <1>0, <2>1 DEF Safe, EndInv, EndPC
        <2> QED
            BY <1>a, <1>b, <2>1, <2>2, <2>3 DEF EndInv, EndPC
    <1>4. CASE EndProgram
        <2>1. pc' = "done" /\ Write(Emits(Word("M30"), post))
            BY <1>4 DEF EndProgram, Envelope
        <2>2. post' = post /\ mach' = mach
            BY <2>1 DEF Write, Emits, Exec, Word, WordWith
        <2>3. EndInv'
            BY <2>1 DEF EndInv, EndPC
        <2> QED
            BY <1>0, <1>a, <1>b, <2>1, <2>2, <2>3
    <1> QED
        BY <1>1, <1>2, <1>3, <1>4 DEF End

LEMMA SafeStep == Undisturbed /\ SafeInv /\ [Next]_vars => SafeInv'
    <1> SUFFICES ASSUME Undisturbed, SafeInv, [Next]_vars PROVE Safe'
        BY TypeStep DEF SafeInv
    <1>1. CASE Generate
        BY <1>1, GenerateSafe DEF Generate
    <1>2. CASE RequestCancel
        BY <1>2 DEF RequestCancel, SafeInv, Safe, PlaceInv, OutsideInv, RawInv, EnteringInv,
           CuttingInv, ChangingInv, EndInv, Outside, Entering, Cutting, Changing, Swapping, op,
           plan, drive, output, book
    <1>3. CASE Advance
        BY <1>3, BoundarySafe, CuttingSafe, ChangeSafe, EndSafe DEF Advance
    <1>4. CASE UNCHANGED vars
        BY <1>4 DEF SafeInv, Safe, PlaceInv, OutsideInv, RawInv, EnteringInv,
           CuttingInv, ChangingInv, EndInv, Outside, Entering, Cutting, Changing, Swapping, op,
           vars, plan, drive, output, book
    <1> QED
        BY <1>1, <1>2, <1>3, <1>4 DEF Next

-----------------------------------------------------------------------------
(* Every step is one the machine may be given *)

Guarded == {"swap", "load", "entry", "cut", "M30"}

\* The protocol speaks of the same lines and the same machine.
LEMMA SameDialect ==
    /\ Protocol!Line = Line /\ Protocol!NoLine = NoLine /\ Protocol!Word("lift") = Word("lift")
    /\ Protocol!ColdMachine = ColdMachine
    /\ \A m, l : Protocol!Exec(m, l) = Exec(m, l)
    BY DEF Protocol!Line, Line, Protocol!NoLine, NoLine, Protocol!Word, Word, Protocol!WordWith,
       WordWith, Protocol!ColdMachine, ColdMachine, Protocol!Exec, Exec, Protocol!CoolantOn,
       CoolantOn

LEMMA WriteRuns ==
    ASSUME TypeOK, NEW r \in Called, Write(r), proj' = proj,
           r.line.w \in Guarded => Protocol!Allowed(mach, r.line)
    PROVE  Protocol!Run
    <1>1. r.line \in Line /\ line' = r.line /\ mach' = Exec(mach, r.line)
        BY DEF Called, Write
    <1>2. Protocol!Allowed(mach, r.line)
        BY DEF Guarded, Protocol!Allowed
    <1>3. Swapping' = Swapping
        BY DEF Swapping
    <1> QED
        BY <1>1, <1>2, <1>3, SameDialect DEF Protocol!Run

LEMMA SilentHolds ==
    ASSUME line' = NoLine, mach' = mach, proj' = proj
    PROVE  Protocol!Hold
    BY SameDialect DEF Protocol!Hold, Swapping

\* The post's calls that are not guarded.
LEMMA CallsUnguarded ==
    ASSUME NEW p \in PostState
    PROVE  /\ MoveToFastZ(p).line.w \notin Guarded /\ ForgetZ(p).line.w \notin Guarded
           /\ Silent(p).line.w \notin Guarded
           /\ \A w \in {"station", "sensor", "probe"} : MachineMove(p, w).line.w \notin Guarded
           /\ \A s \in Spins : SpindleOn(p, s).line.w \notin Guarded
           /\ SpindleOff(p).line.w \notin Guarded /\ CoolantOff(p).line.w \notin Guarded
           /\ \A c \in {"off"} \cup CoolantOn : Coolant(p, c).line.w \notin Guarded
    BY DEF Guarded, MoveToFastZ, ForgetZ, Silent, MachineMove, SpindleOn, SpindleOff, CoolantOff,
       Coolant, Emits, NoLine, Word, WordWith

LEMMA BoundaryFollows ==
    ASSUME SafeInv, Boundary
    PROVE  [Protocol!Next]_(Protocol!vars)
    <1>0. TypeOK /\ Safe /\ post \in PostState
        BY DEF SafeInv, TypeInv, TypeOK
    <1>1. CASE BeginOp \/ Mark \/ EndRaw
        <2>1. line' = NoLine /\ mach' = mach /\ proj' = proj
            BY <1>1 DEF BeginOp, Mark, EndRaw, plan
        <2> QED
            BY <2>1, SilentHolds DEF Protocol!Next
    <1>2. CASE PlayTape
        <2>1. /\ tape # <<>> /\ Write(Raw(post, Head(tape))) /\ proj' = proj /\ pc = "raw"
              /\ tape \in Seq(Line)
            BY <1>0, <1>2 DEF PlayTape, plan, TypeOK, Safe, PlaceInv
        <2>2. Head(tape) \in Line /\ Head(tape) = tape[1] /\ 1 \in DOMAIN tape
            BY <2>1, HeadTailProperties, EmptySeq, LenProperties
        <2>3. Head(tape).w \in Inert
            BY <1>0, <2>1, <2>2 DEF Safe, RawInv
        <2>4. Raw(post, Head(tape)) \in Called /\ Raw(post, Head(tape)).line = Head(tape)
            BY <1>0, <2>2, EmitsType DEF Raw, Emits
        <2>5. Head(tape).w \notin Guarded
            BY <2>3 DEF Inert, Guarded
        <2> QED
            BY <1>0, <2>1, <2>4, <2>5, WriteRuns DEF Protocol!Next
    <1>3. CASE Cancelled
        BY <1>3 DEF Cancelled, plan, output, Protocol!vars, Swapping
    <1> QED
        BY <1>1, <1>2, <1>3 DEF Boundary

LEMMA CuttingFollows ==
    ASSUME Undisturbed, SafeInv, CuttingOp
    PROVE  Protocol!Next
    <1>0. TypeOK /\ Safe /\ Placed /\ post \in PostState /\ mach \in Machine
          /\ script \in Seq(Step) /\ Right(post, mach)
        BY DEF SafeInv, TypeInv, TypeOK, Safe
    <1>a. proj' = proj
        BY DEF CuttingOp, Hit, EndReplay, Miss, Fail, Plan, SwapStep, CutSpin, CutCoolant,
           CutEntry, CutPass, Finish, plan
    <1>b. script # <<>> => Head(script) = script[1] /\ Head(script) \in Step
        BY <1>0, TailGoes, HeadTailProperties
    <1>1. CASE Hit
        BY <1>1 DEF Hit, CachedAt, Undisturbed
    <1>2. CASE EndReplay
        BY <1>0, <1>2 DEF EndReplay, Safe, PlaceInv
    <1>3. CASE Miss \/ Fail \/ Plan \/ SwapStep \/ Finish
        <2>1. line' = NoLine /\ mach' = mach
            BY <1>3 DEF Miss, Fail, Plan, SwapStep, Finish, output
        <2> QED
            BY <1>a, <2>1, SilentHolds DEF Protocol!Next
    <1>4. CASE CutSpin
        <2>1. Head(script).spin \in Spins /\ Write(SpindleOn(post, Head(script).spin))
            BY <1>4, <1>b DEF CutSpin, Step
        <2>2. SpindleOn(post, Head(script).spin) \in Called
            BY <1>0, <2>1, SpindleType
        <2> QED
            BY <1>0, <1>a, <2>1, <2>2, CallsUnguarded, WriteRuns DEF Protocol!Next
    <1>5. CASE CutCoolant
        <2> DEFINE c == ToolCoolant[Head(script).tool]
        <2>1. script # <<>> /\ Write(Coolant(post, c))
            BY <1>0, <1>5 DEF CutCoolant, Placed, CutPC
        <2>2. c \in {"off"} \cup CoolantOn
            BY <1>b, <2>1, PerOpAssumption DEF Step
        <2>3. Coolant(post, c) \in Called
            BY <1>0, <2>2, CoolantType
        <2> QED
            BY <1>0, <1>a, <2>1, <2>2, <2>3, CallsUnguarded, WriteRuns DEF Protocol!Next
    \* An approach that leaves Z out finds the tool at the rapid plane.
    <1>6. CASE CutEntry
        <2>1. Write(RapidToEntry(post)) /\ RapidToEntry(post) \in Called
            BY <1>0, <1>6, HeightType DEF CutEntry
        <2>2. Protocol!Allowed(mach, RapidToEntry(post).line)
            BY <1>0 DEF Protocol!Allowed, RapidToEntry, Emits, WordWith, Right
        <2> QED
            BY <1>0, <1>a, <2>1, <2>2, WriteRuns DEF Protocol!Next
    \* A cut finds its tool, its spindle word and its coolant.
    <1>7. CASE CutPass
        <2> DEFINE l == [w |-> "cut", tool |-> Head(script).tool, v |-> Head(script).spin]
        <2>1. pc = "cut" /\ script # <<>> /\ Write(Emits(l, post))
            BY <1>0, <1>7 DEF CutPass, Placed, CutPC
        <2>2. /\ script[1].do = "cut" /\ mach.spin = script[1].spin
              /\ mach.cool = ToolCoolant[script[1].tool] /\ mach.z = "clear"
            BY <1>0, <2>1 DEF Safe, CuttingInv, Cutting, CutPC
        <2>3. PICK t \in Tools : Goes(script, t, HeldAfter(op)) /\ Ready(t, mach, Swapping)
            BY <1>0, <2>1 DEF Safe, CuttingInv, Cutting, CutPC
        <2>4. Swapping => mach.tool = script[1].tool
            BY <2>1, <2>2, <2>3 DEF Goes, Ready
        <2>5. l \in Line /\ l.tool = script[1].tool /\ l.v = script[1].spin /\ l.w = "cut"
            BY <1>b, <2>1, Lines DEF Step
        <2> HIDE DEF l
        <2>6. Protocol!AsProgrammed(mach, l)
            BY <2>2, <2>4, <2>5 DEF Protocol!AsProgrammed
        <2>7. Protocol!Allowed(mach, l)
            BY <2>2, <2>5, <2>6 DEF Protocol!Allowed
        <2>8. Emits(l, post) \in Called /\ Emits(l, post).line = l
            BY <1>0, <2>5, EmitsType DEF Emits
        <2> QED
            BY <1>0, <1>a, <2>1, <2>7, <2>8, WriteRuns DEF Protocol!Next
    <1> QED
        BY <1>1, <1>2, <1>3, <1>4, <1>5, <1>6, <1>7 DEF CuttingOp

LEMMA ChangeFollows ==
    ASSUME SafeInv, Change
    PROVE  Protocol!Next
    <1>0. /\ TypeOK /\ Safe /\ Placed /\ post \in PostState /\ mach \in Machine
          /\ proj \in Project /\ pc \in ChangePC /\ proj' = proj
          /\ env.tool \in Tools /\ env.spin \in Spins
        BY DEF SafeInv, TypeInv, TypeOK, Placed, Changing, Change, EnvLift, EnvStation, EnvCoolant,
           EnvStop, EnvSwap, EnvPostZ, EnvSpinUp, Envelope, plan, ChangePC
    <1>1. CASE EnvSwap
        <2>1. mach.z = "clear" /\ mach.cool = "off" /\ mach.spin = Off /\ Write(SwapLine)
            BY <1>0, <1>1 DEF EnvSwap, Safe, ChangingInv, Changing
        <2>2. CASE proj.machine.change = "Ignore"
            BY <1>0, <2>1, <2>2, EmitsType, Lines, CallsUnguarded, WriteRuns
               DEF SwapLine, Protocol!Next
        <2>3. CASE proj.machine.change # "Ignore"
            <3>1. PICK w \in {"swap", "load"} : SwapLine = Emits(SwapWord(w, env.tool), post)
                BY <1>0, <2>3 DEF SwapLine, ToolWord, Raw, Project, MachineConfig
            <3>2. Protocol!Allowed(mach, SwapWord(w, env.tool))
                BY <2>1 DEF Protocol!Allowed, Protocol!Stopped, SwapWord
            <3>3. SwapLine \in Called /\ SwapLine.line = SwapWord(w, env.tool)
                BY <1>0, <3>1, EmitsType, Lines DEF Emits
            <3> QED
                BY <1>0, <2>1, <3>2, <3>3, WriteRuns DEF Protocol!Next
        <2> QED
            BY <2>2, <2>3
    <1>2. CASE EnvLift \/ EnvStation \/ EnvCoolant \/ EnvStop \/ EnvPostZ \/ EnvSpinUp
        <2>1. \E p \in {post, ResetState(post)} :
                 \E r \in {MoveToFastZ(p), MachineMove(p, "station"), MachineMove(p, "sensor"),
                           MachineMove(p, "probe"), ForgetZ(p), Silent(p), CoolantOff(p),
                           SpindleOff(p), SpindleOn(p, env.spin)} : Write(r)
            BY <1>2 DEF EnvLift, EnvStation, EnvCoolant, EnvStop, EnvPostZ, EnvSpinUp, Envelope
        <2>2. PICK p \in PostState :
                 \E r \in {MoveToFastZ(p), MachineMove(p, "station"), MachineMove(p, "sensor"),
                           MachineMove(p, "probe"), ForgetZ(p), Silent(p), CoolantOff(p),
                           SpindleOff(p), SpindleOn(p, env.spin)} : Write(r)
            BY <1>0, <2>1, ResetType
        <2>3. PICK r \in Called : Write(r) /\ r.line.w \notin Guarded
            BY <1>0, <2>2, HeightType, EmitsType, Lines, CoolantType, SpindleType, CallsUnguarded
        <2> QED
            BY <1>0, <2>3, WriteRuns DEF Protocol!Next
    <1> QED
        BY <1>1, <1>2 DEF Change

LEMMA EndFollows ==
    ASSUME SafeInv, End
    PROVE  Protocol!Next
    <1>0. TypeOK /\ Safe /\ post \in PostState /\ proj' = proj
        BY DEF SafeInv, TypeInv, TypeOK, End, EndLift, EndStop, EndCoolant, EndProgram, Envelope,
           plan
    <1>1. CASE EndLift \/ EndStop \/ EndCoolant
        <2>1. \E r \in {MoveToFastZ(post), SpindleOff(post), CoolantOff(post), Silent(post)} :
                 Write(r)
            BY <1>1 DEF EndLift, EndStop, EndCoolant, Envelope
        <2>2. PICK r \in Called : Write(r) /\ r.line.w \notin Guarded
            BY <1>0, <2>1, HeightType, EmitsType, Lines, CoolantType, SpindleType, CallsUnguarded
        <2> QED
            BY <1>0, <2>2, WriteRuns DEF Protocol!Next
    <1>2. CASE EndProgram
        <2>1. /\ Write(Emits(Word("M30"), post)) /\ mach.spin = Off /\ mach.z = "clear"
              /\ Emits(Word("M30"), post) \in Called
            BY <1>0, <1>2, EmitsType, Lines DEF EndProgram, Envelope, Safe, EndInv, EndPC
        <2>2. Protocol!Allowed(mach, Emits(Word("M30"), post).line)
            BY <2>1 DEF Protocol!Allowed, Emits, Word, WordWith
        <2> QED
            BY <1>0, <2>1, <2>2, WriteRuns DEF Protocol!Next
    <1> QED
        BY <1>1, <1>2 DEF End

LEMMA StepFollows ==
    Undisturbed /\ SafeInv /\ [Next]_vars => [Protocol!Next]_(Protocol!vars)
    <1> SUFFICES ASSUME Undisturbed, SafeInv, [Next]_vars
                 PROVE  [Protocol!Next]_(Protocol!vars)
        OBVIOUS
    <1>1. CASE Generate
        <2>1. PICK p \in Projects : StartGenerate(p)
            BY <1>1 DEF Generate
        <2>2. line' = Word("lift") /\ mach' = Exec(ColdMachine, Word("lift"))
            BY <2>1 DEF StartGenerate, MoveToFastZ, FreshPost, Emits
        <2>3. Swapping' \in BOOLEAN
            BY DEF Swapping
        <2> QED
            BY <2>2, <2>3, SameDialect DEF Protocol!Next, Protocol!Restart
    <1>2. CASE RequestCancel
        BY <1>2 DEF RequestCancel, plan, output, Protocol!vars, Swapping
    <1>3. CASE Advance
        BY <1>3, BoundaryFollows, CuttingFollows, ChangeFollows, EndFollows DEF Advance
    <1>4. CASE UNCHANGED vars
        BY <1>4 DEF vars, plan, output, Protocol!vars, Swapping
    <1> QED
        BY <1>1, <1>2, <1>3, <1>4 DEF Next

-----------------------------------------------------------------------------

\* What the post believes of the machine is so, after every line of every program
\* emitted without a cache: the words its delta encoding leaves out are in force
\* (reset_state, spindle_off, coolant_off).
THEOREM BeliefIsRight ==
    ASSUME Undisturbed
    PROVE  Spec => []PostIsRight
    <1>1. Init => SafeInv
        BY TypeInit, SafeInit DEF SafeInv
    <1>2. SafeInv => PostIsRight
        BY DEF SafeInv, Safe, Right, PostIsRight
    <1>3. SafeInv /\ [Next]_vars => SafeInv'
        BY SafeStep
    <1> QED
        BY <1>1, <1>2, <1>3, PTL DEF Spec

\* prev_tool_id is the tool in the spindle at every operation boundary, through
\* spot passes, finish passes and program-only operations (next_prev_tool_id).
THEOREM ToolIsHeld ==
    ASSUME Undisturbed
    PROVE  Spec => []HeldTool
    <1>1. Init => SafeInv
        BY TypeInit, SafeInit DEF SafeInv
    <1>2. SafeInv => HeldTool
        BY DEF SafeInv, Safe, OutsideInv, Outside, Ready, HeldTool
    <1>3. SafeInv /\ [Next]_vars => SafeInv'
        BY SafeStep
    <1> QED
        BY <1>1, <1>2, <1>3, PTL DEF Spec

\* A program emitted without a cache is one the machine may run line by line:
\* run_per_op implements the tool protocol.
THEOREM ProgramFollowsProtocol ==
    ASSUME Undisturbed
    PROVE  Spec => FollowsProtocol
    <1>1. Init => SafeInv
        BY TypeInit, SafeInit DEF SafeInv
    <1>2. Init => Protocol!Init
        BY SameDialect DEF Init, Protocol!Init, Swapping
    <1>3. SafeInv /\ [Next]_vars => SafeInv'
        BY SafeStep
    <1>4. SafeInv /\ [Next]_vars => [Protocol!Next]_(Protocol!vars)
        BY StepFollows
    <1> QED
        BY <1>1, <1>2, <1>3, <1>4, PTL DEF Spec, FollowsProtocol, Protocol!Spec

-----------------------------------------------------------------------------
(***************************************************************************)
(* The estimator's count, for every library, project, order of tools and   *)
(* machine, on a run without a cache: count_tool_changes walks the         *)
(* declared operations and arrives at the envelopes run_per_op emits.      *)
(***************************************************************************)

\* The elements of X below n, and what the count has found before position n.
Below(X, n) == {i \in X : i < n}
One(b) == IF b THEN 1 ELSE 0

Outer == Boundaries(proj.ops, CountHeld)
Inner == Internal(proj.ops, CountSwap)
Seen(n) == Cardinality(Below(Outer, n)) + Cardinality(Below(Inner, n))

\* Before position n the spindle holds what the count believes the last cut left.
Holds(n) ==
    /\ \A j \in Previous(proj.ops, n) : prevTool = CountHeld(proj.ops[j])
    /\ Previous(proj.ops, n) = {} => prevTool = NoTool

\* A driver has at most one more change of tools to make.
HasSwap(s) == \E i \in DOMAIN s : s[i].do = "swap"
OneSwap(s) == \A i, j \in DOMAIN s : s[i].do = "swap" /\ s[j].do = "swap" => i = j

BeforeSwap == pc \in {"lift", "station", "coolant", "stop", "swap"}
Starting == pc \in {"mark", "raw", "lookup", "plan"}
Ending == pc \in EndPC \cup {"done"}

\* How far the envelopes emitted have come with the count, at each place of the loop.
Counted ==
    /\ queue = proj.ops
    /\ pc = "raw" => IsProgramOnly(op)
    /\ pc \in {"lookup", "plan"} \/ Driving \/ Changing => ~ IsProgramOnly(op)
    /\ pc = "top" => changes = Seen(idx)
    /\ pc = "top" \/ (Starting /\ IsProgramOnly(op)) => Holds(idx)
    /\ Changing /\ env.back = "mark" =>
          idx \in Outer /\ changes + One(BeforeSwap) = Seen(idx) + 1
    /\ Starting /\ (IsProgramOnly(op) \/ op.tool \in Tools) =>
          changes = Seen(idx) + One(idx \in Outer)
    /\ Driving =>
          /\ OneSwap(script)
          /\ changes + One(HasSwap(script)) + One(BeforeSwap) =
                Seen(idx) + One(idx \in Outer) + One(idx \in Inner)
    /\ pc \in CutPC => Head(script).do = "cut"
    /\ Ending => changes = CountToolChanges(proj.ops)

CountInv == pc # "replay" /\ (Countable(proj) /\ pc # "idle" => Counted)

-----------------------------------------------------------------------------
(* The walk over the declared operations *)

LEMMA UptoIs ==
    ASSUME NEW N \in Nat, NEW X \in SUBSET (1 .. N), NEW n \in Nat \ {0}
    PROVE  /\ Cardinality(Below(X, n)) \in Nat
           /\ Cardinality(Below(X, 1)) = 0
           /\ Cardinality(Below(X, n + 1)) = Cardinality(Below(X, n)) + One(n \in X)
           /\ n > N => Cardinality(Below(X, n)) = Cardinality(X)
    <1>1. IsFiniteSet(Below(X, n)) /\ Cardinality(Below(X, n)) \in Nat
        <2>1. Below(X, n) \subseteq 1 .. N
            BY DEF Below
        <2>2. IsFiniteSet(1 .. N)
            BY FS_Interval
        <2>3. IsFiniteSet(Below(X, n))
            BY <2>1, <2>2, FS_Subset
        <2> QED
            BY <2>3, FS_CardinalityType
    <1>2. Cardinality(Below(X, 1)) = 0
        <2>1. ASSUME NEW i \in Below(X, 1) PROVE FALSE
            <3>1. i \in 1 .. N /\ i < 1
                BY DEF Below
            <3> QED
                BY <3>1
        <2>2. Below(X, 1) = {}
            BY <2>1
        <2> QED
            BY <2>2, FS_EmptySet
    <1>3. Cardinality(Below(X, n + 1)) = Cardinality(Below(X, n)) + One(n \in X)
        <2>1. ASSUME NEW i \in X PROVE i \in Below(X, n + 1) <=> i \in Below(X, n) \/ i = n
            <3>1. i \in 1 .. N
                OBVIOUS
            <3>2. i < n + 1 <=> i < n \/ i = n
                BY <3>1
            <3> QED
                BY <3>2 DEF Below
        <2>2. /\ Below(X, n + 1) \subseteq X /\ Below(X, n) \subseteq X
              /\ n \notin Below(X, n)
            BY DEF Below
        <2>3. CASE n \in X
            <3>1. Below(X, n + 1) = Below(X, n) \cup {n}
                BY <2>1, <2>2, <2>3
            <3> QED
                BY <1>1, <2>2, <2>3, <3>1, FS_AddElement DEF One
        <2>4. CASE n \notin X
            <3>1. Below(X, n + 1) = Below(X, n)
                BY <2>1, <2>2, <2>4
            <3> QED
                BY <1>1, <2>4, <3>1 DEF One
        <2> QED
            BY <2>3, <2>4
    <1>4. ASSUME n > N PROVE Below(X, n) = X
        <2>1. ASSUME NEW i \in X PROVE i < n
            <3>1. i \in 1 .. N
                OBVIOUS
            <3> QED
                BY <1>4, <3>1
        <2> QED
            BY <2>1 DEF Below
    <1> QED
        BY <1>1, <1>2, <1>3, <1>4

LEMMA PreviousIs ==
    ASSUME NEW ops, NEW i \in Nat \ {0}
    PROVE  /\ Previous(ops, 1) = {}
           /\ Previous(ops, i + 1) = IF IsProgramOnly(ops[i]) THEN Previous(ops, i) ELSE {i}
    <1>1. Previous(ops, 1) = {}
        BY DEF Previous
    <1>2. CASE IsProgramOnly(ops[i])
        <2>1. ASSUME NEW j \in 1 .. i
              PROVE  j \in Previous(ops, i + 1) <=> j \in Previous(ops, i)
            <3>1. j = i => j \notin Previous(ops, i + 1) /\ j \notin Previous(ops, i)
                BY <1>2 DEF Previous
            <3>2. (j + 1) .. ((i + 1) - 1) = (j + 1) .. (i - 1) \cup {i} \/ j = i
                OBVIOUS
            <3> QED
                BY <1>2, <3>1, <3>2 DEF Previous
        <2>2. Previous(ops, i + 1) \subseteq 1 .. i /\ Previous(ops, i) \subseteq 1 .. i
            BY DEF Previous
        <2>3. Previous(ops, i + 1) = Previous(ops, i)
            BY <2>1, <2>2
        <2> QED
            BY <1>1, <1>2, <2>3
    <1>3. CASE ~ IsProgramOnly(ops[i])
        <2>1. i \in Previous(ops, i + 1)
            BY <1>3 DEF Previous
        <2>2. ASSUME NEW j \in Previous(ops, i + 1), j # i PROVE FALSE
            <3>1. j \in 1 .. i /\ i \in (j + 1) .. ((i + 1) - 1)
                BY <2>2 DEF Previous
            <3> QED
                BY <1>3, <3>1 DEF Previous
        <2>3. Previous(ops, i + 1) = {i}
            BY <2>1, <2>2
        <2> QED
            BY <1>1, <1>3, <2>3
    <1> QED
        BY <1>1, <1>2, <1>3

\* The count walks positions of the project.
LEMMA WalkType ==
    ASSUME proj \in Project
    PROVE  /\ Len(proj.ops) \in Nat /\ DOMAIN proj.ops = 1 .. Len(proj.ops)
           /\ \A i \in DOMAIN proj.ops : proj.ops[i] \in Op
           /\ Outer \in SUBSET (1 .. Len(proj.ops)) /\ Inner \in SUBSET (1 .. Len(proj.ops))
    <1>1. proj.ops \in Seq(Op)
        BY DEF Project
    <1>2. /\ Len(proj.ops) \in Nat /\ DOMAIN proj.ops = 1 .. Len(proj.ops)
          /\ \A i \in DOMAIN proj.ops : proj.ops[i] \in Op
        BY <1>1, LenProperties, ElementOfSeq
    <1> QED
        BY <1>2 DEF Outer, Inner, Boundaries, Internal

LEMMA SeenIs ==
    ASSUME proj \in Project, NEW n \in Nat \ {0}
    PROVE  /\ Seen(n) \in Nat /\ Seen(1) = 0
           /\ Seen(n + 1) = Seen(n) + One(n \in Outer) + One(n \in Inner)
           /\ n > Len(proj.ops) => Seen(n) = CountToolChanges(proj.ops)
    <1> DEFINE N == Len(proj.ops)
               a == Cardinality(Below(Outer, n))
               b == Cardinality(Below(Inner, n))
    <1>1. /\ N \in Nat /\ Outer \in SUBSET (1 .. N) /\ Inner \in SUBSET (1 .. N)
        BY WalkType
    <1>2. /\ a \in Nat /\ Cardinality(Below(Outer, 1)) = 0
          /\ Cardinality(Below(Outer, n + 1)) = a + One(n \in Outer)
          /\ n > N => a = Cardinality(Outer)
        BY <1>1, UptoIs
    <1>3. /\ b \in Nat /\ Cardinality(Below(Inner, 1)) = 0
          /\ Cardinality(Below(Inner, n + 1)) = b + One(n \in Inner)
          /\ n > N => b = Cardinality(Inner)
        BY <1>1, UptoIs
    <1>4. CountToolChanges(proj.ops) = Cardinality(Outer) + Cardinality(Inner)
        BY DEF CountToolChanges, Outer, Inner
    <1>5. One(n \in Outer) \in Nat /\ One(n \in Inner) \in Nat
        BY DEF One
    <1>6. /\ Seen(n) = a + b /\ Seen(1) = Cardinality(Below(Outer, 1)) + Cardinality(Below(Inner, 1))
          /\ Seen(n + 1) = Cardinality(Below(Outer, n + 1)) + Cardinality(Below(Inner, n + 1))
        BY DEF Seen
    <1> HIDE DEF a, b, N
    <1> QED
        BY <1>2, <1>3, <1>4, <1>5, <1>6 DEF N

\* The count is about the project alone.
LEMMA CountStays ==
    ASSUME UNCHANGED <<plan, idx>>
    PROVE  /\ op' = op /\ proj' = proj /\ queue' = queue /\ Outer' = Outer /\ Inner' = Inner
           /\ Seen(idx)' = Seen(idx) /\ CountToolChanges(proj.ops)' = CountToolChanges(proj.ops)
           /\ prevTool' = prevTool => Holds(idx)' = Holds(idx)
           /\ Countable(proj)' = Countable(proj)
    <1>1. op' = op /\ proj' = proj /\ queue' = queue /\ idx' = idx
        BY DEF plan, op
    <1>2. Outer' = Outer /\ Inner' = Inner
        BY <1>1 DEF Outer, Inner, Boundaries, Internal
    <1> QED
        BY <1>1, <1>2 DEF Seen, Below, Holds

-----------------------------------------------------------------------------
(* The changes a driver has left to make *)

LEMMA TailSwaps ==
    ASSUME NEW s \in Seq(Step), s # <<>>, OneSwap(s)
    PROVE  /\ OneSwap(Tail(s))
           /\ Head(s).do = "swap" => HasSwap(s) /\ ~ HasSwap(Tail(s))
           /\ Head(s).do # "swap" => (HasSwap(Tail(s)) <=> HasSwap(s))
    <1>1. /\ Len(s) \in Nat \ {0} /\ DOMAIN s = 1 .. Len(s) /\ Head(s) = s[1]
          /\ DOMAIN Tail(s) = 1 .. Len(s) - 1
          /\ \A i \in 1 .. Len(s) - 1 : Tail(s)[i] = s[i + 1]
        BY HeadTailProperties, EmptySeq, LenProperties
    <1>2. \A i \in 1 .. Len(s) - 1 : i + 1 \in 1 .. Len(s) /\ i + 1 # 1
        BY <1>1
    <1>3. OneSwap(Tail(s))
        <2>1. ASSUME NEW i \in 1 .. Len(s) - 1, NEW j \in 1 .. Len(s) - 1,
                     s[i + 1].do = "swap", s[j + 1].do = "swap"
              PROVE  i = j
            <3>1. i + 1 = j + 1
                BY <1>1, <1>2, <2>1 DEF OneSwap
            <3> QED
                BY <3>1
        <2> QED
            BY <1>1, <2>1 DEF OneSwap
    <1>4. ASSUME Head(s).do = "swap" PROVE HasSwap(s) /\ ~ HasSwap(Tail(s))
        <2>1. 1 \in 1 .. Len(s)
            BY <1>1
        <2>2. \A i \in 1 .. Len(s) - 1 : s[i + 1].do # "swap"
            BY <1>1, <1>2, <1>4, <2>1 DEF OneSwap
        <2> QED
            BY <1>1, <1>4, <2>1, <2>2 DEF HasSwap
    <1>5. ASSUME Head(s).do # "swap" PROVE HasSwap(Tail(s)) <=> HasSwap(s)
        <2>1. ASSUME NEW i \in 1 .. Len(s), s[i].do = "swap" PROVE HasSwap(Tail(s))
            <3>1. i - 1 \in 1 .. Len(s) - 1 /\ (i - 1) + 1 = i
                BY <1>1, <1>5, <2>1
            <3>2. Tail(s)[i - 1] = s[i]
                BY <1>1, <3>1
            <3> QED
                BY <1>1, <2>1, <3>1, <3>2 DEF HasSwap
        <2> QED
            BY <1>1, <1>2, <2>1 DEF HasSwap
    <1> QED
        BY <1>3, <1>4, <1>5

LEMMA ConcatSwaps ==
    ASSUME NEW a \in Seq(Step), NEW b \in Seq(Step), ~ HasSwap(a), OneSwap(b)
    PROVE  OneSwap(a \o b) /\ (HasSwap(a \o b) <=> HasSwap(b))
    <1> DEFINE s == a \o b
    <1>1. /\ Len(a) \in Nat /\ Len(b) \in Nat
          /\ DOMAIN a = 1 .. Len(a) /\ DOMAIN b = 1 .. Len(b)
          /\ DOMAIN s = 1 .. Len(a) + Len(b)
          /\ \A i \in 1 .. Len(a) + Len(b) : s[i] = IF i <= Len(a) THEN a[i] ELSE b[i - Len(a)]
        <2>1. s \in Seq(Step) /\ Len(s) = Len(a) + Len(b)
            BY ConcatProperties
        <2>2. \A i \in 1 .. Len(a) + Len(b) : s[i] = IF i <= Len(a) THEN a[i] ELSE b[i - Len(a)]
            BY ConcatProperties
        <2> HIDE DEF s
        <2> QED
            BY <2>1, <2>2, LenProperties
    <1> HIDE DEF s
    <1>2. ASSUME NEW i \in 1 .. Len(a) + Len(b), s[i].do = "swap"
          PROVE  i - Len(a) \in 1 .. Len(b) /\ b[i - Len(a)].do = "swap"
        <2>1. CASE i <= Len(a)
            <3>1. i \in 1 .. Len(a) /\ s[i] = a[i]
                BY <1>1, <2>1
            <3> QED
                BY <1>1, <1>2, <3>1 DEF HasSwap
        <2>2. CASE ~ (i <= Len(a))
            BY <1>1, <1>2, <2>2
        <2> QED
            BY <2>1, <2>2
    <1>3. OneSwap(s)
        <2>1. ASSUME NEW i \in 1 .. Len(a) + Len(b), NEW j \in 1 .. Len(a) + Len(b),
                     s[i].do = "swap", s[j].do = "swap"
              PROVE  i = j
            <3>1. i - Len(a) = j - Len(a)
                BY <1>1, <1>2, <2>1 DEF OneSwap
            <3> QED
                BY <1>1, <3>1
        <2> QED
            BY <1>1, <2>1 DEF OneSwap
    <1>4. HasSwap(s) => HasSwap(b)
        BY <1>1, <1>2 DEF HasSwap
    <1>5. HasSwap(b) => HasSwap(s)
        <2>1. ASSUME NEW i \in 1 .. Len(b), b[i].do = "swap" PROVE HasSwap(s)
            <3>1. i + Len(a) \in 1 .. Len(a) + Len(b) /\ ~ (i + Len(a) <= Len(a))
                  /\ (i + Len(a)) - Len(a) = i
                BY <1>1
            <3>2. s[i + Len(a)] = b[i]
                BY <1>1, <3>1
            <3> QED
                BY <1>1, <2>1, <3>1, <3>2 DEF HasSwap
        <2> QED
            BY <1>1, <2>1 DEF HasSwap
    <1> QED
        BY <1>3, <1>4, <1>5 DEF s

\* What Countable asks of a cutting operation.
Plainest(o) ==
    o.gate /\ o.spot \in {NoTool, o.tool} /\ (o.dual /\ HasFinish(o) => o.ring)

\* The driver of a countable operation changes tools as often as the count says.
LEMMA ScriptSwaps ==
    ASSUME proj \in Project, NEW o \in Op, o.tool \in Tools, Plainest(o)
    PROVE  /\ Script(o) \in Seq(Step) /\ OneSwap(Script(o))
           /\ HasSwap(Script(o)) <=> CountSwap(o)
    <1> DEFINE rough == IF o.rough THEN <<Cut(o, o.tool)>> ELSE <<>>
               main == SpotPass(o) \o rough
    <1>1. \A t \in Tools : Cut(o, t) \in Step /\ Cut(o, t).do = "cut"
        BY ResolvedType DEF Cut, Step
    <1>2. SpotPass(o) \in {<<>>, <<Cut(o, o.tool)>>}
        BY DEF Plainest, SpotPass
    <1>3. rough \in {<<>>, <<Cut(o, o.tool)>>}
        OBVIOUS
    <1> HIDE DEF rough
    <1>4. /\ main \in Seq(Step) /\ ~ HasSwap(main)
        <2>1. /\ SpotPass(o) \in Seq(Step) /\ ~ HasSwap(SpotPass(o))
              /\ rough \in Seq(Step) /\ ~ HasSwap(rough) /\ OneSwap(rough)
            <3> DEFINE cut == <<Cut(o, o.tool)>>
            <3>1. cut \in Seq(Step) /\ ~ HasSwap(cut) /\ OneSwap(cut)
                BY <1>1 DEF HasSwap, OneSwap
            <3>2. <<>> \in Seq(Step) /\ ~ HasSwap(<<>>) /\ OneSwap(<<>>)
                BY DEF HasSwap, OneSwap
            <3> HIDE DEF cut
            <3>3. SpotPass(o) \in {<<>>, cut} /\ rough \in {<<>>, cut}
                BY <1>2, <1>3 DEF cut
            <3> QED
                BY <3>1, <3>2, <3>3
        <2> QED
            BY <2>1, ConcatSwaps, ConcatProperties
    <1>5. /\ FinishPass(o) \in Seq(Step) /\ OneSwap(FinishPass(o))
          /\ HasSwap(FinishPass(o)) <=> Swaps(o)
        <2>1. CASE Swaps(o)
            <3>1. o.finish \in Tools
                BY <2>1 DEF Op, OpRecord, HasFinish, Swaps
            <3>2. FinishPass(o) = <<SwapTo(o.finish, Resolved(o, o.finish)), Cut(o, o.finish)>>
                BY <2>1 DEF FinishPass
            <3>3. FinishPass(o) \in Seq(Step)
                BY <3>1, <3>2, <1>1, ResolvedType DEF SwapTo, Step
            <3>4. OneSwap(FinishPass(o)) /\ HasSwap(FinishPass(o))
                BY <3>1, <3>2, <1>1 DEF OneSwap, HasSwap, SwapTo
            <3> QED
                BY <2>1, <3>3, <3>4
        <2>2. CASE ~ Swaps(o)
            BY <2>2 DEF FinishPass, OneSwap, HasSwap
        <2> QED
            BY <2>1, <2>2
    <1>6. Swaps(o) <=> CountSwap(o)
        BY DEF Swaps, CountSwap, Plainest
    <1> HIDE DEF main
    <1>7. main \o FinishPass(o) \in Seq(Step)
        BY <1>4, <1>5, ConcatProperties
    <1>8. Script(o) = main \o FinishPass(o)
        BY DEF Script, main, rough
    <1> QED
        BY <1>4, <1>5, <1>6, <1>7, <1>8, ConcatSwaps

-----------------------------------------------------------------------------
(* The steps *)

\* What the count is of an operation in hand.
LEMMA InHand ==
    ASSUME TypeInv, Countable(proj), queue = proj.ops, idx \in DOMAIN queue
    PROVE  /\ op \in Op /\ op = proj.ops[idx]
           /\ ~ IsProgramOnly(op) => Plainest(op)
           /\ idx \in Inner <=> ~ IsProgramOnly(op) /\ CountSwap(op)
           /\ IsProgramOnly(op) => idx \notin Outer
           /\ Holds(idx) => (idx \in Outer <=> ~ IsProgramOnly(op) /\ prevTool # op.tool)
    <1>1. /\ op \in Op /\ op = proj.ops[idx] /\ idx \in DOMAIN proj.ops
        BY ElementOfSeq DEF TypeInv, TypeOK, op
    <1>2. ~ IsProgramOnly(op) => Plainest(op)
        BY <1>1 DEF Countable, Plainest
    <1>3. idx \in Inner <=> ~ IsProgramOnly(op) /\ CountSwap(op)
        BY <1>1 DEF Inner, Internal
    <1>4. IsProgramOnly(op) => idx \notin Outer
        BY <1>1 DEF Outer, Boundaries
    <1>5. ASSUME Holds(idx), ~ IsProgramOnly(op)
          PROVE  idx \in Outer <=> prevTool # op.tool
        <2>1. idx \in Outer <=> \A j \in Previous(proj.ops, idx) : CountHeld(proj.ops[j]) # op.tool
            BY <1>1, <1>5 DEF Outer, Boundaries
        <2>2. NoTool # op.tool
            BY <1>1, ToolsAssumption, PerOpAssumption DEF Op, OpRecord, ToolIds
        <2> QED
            BY <1>5, <2>1, <2>2 DEF Holds
    <1> QED
        BY <1>1, <1>2, <1>3, <1>4, <1>5

\* A step that emits no envelope and stays with its operation.
LEMMA CountedStays ==
    ASSUME TypeInv, Counted, UNCHANGED <<plan, idx, prevTool, changes, script>>,
           pc' = "raw" => IsProgramOnly(op),
           pc' \in {"lookup", "plan"} \/ Driving' \/ Changing' => ~ IsProgramOnly(op),
           pc' = "top" => pc = "top",
           Starting' => Starting \/ (Changing /\ env.back = "mark" /\ ~ BeforeSwap),
           Starting' /\ IsProgramOnly(op) => Starting,
           Changing' /\ env'.back = "mark" =>
               Changing /\ env.back = "mark" /\ BeforeSwap' = BeforeSwap,
           Driving' => Driving /\ BeforeSwap' = BeforeSwap,
           pc' \in CutPC => Head(script).do = "cut",
           Ending' => Ending
    PROVE  Counted'
    <1>1. /\ op' = op /\ proj' = proj /\ queue' = queue /\ Outer' = Outer /\ Inner' = Inner
          /\ Seen(idx)' = Seen(idx) /\ CountToolChanges(proj.ops)' = CountToolChanges(proj.ops)
          /\ Holds(idx)' = Holds(idx)
        BY CountStays
    <1>2. idx' = idx /\ changes' = changes /\ script' = script
        OBVIOUS
    <1>3. /\ Changing' /\ env'.back = "mark" =>
                 idx \in Outer /\ changes + One(BeforeSwap') = Seen(idx) + 1
        BY DEF Counted
    <1>4. Starting' /\ (IsProgramOnly(op) \/ op.tool \in Tools) =>
              changes = Seen(idx) + One(idx \in Outer)
        <2>1. CASE Starting
            BY <2>1 DEF Counted
        <2>2. CASE Changing /\ env.back = "mark" /\ ~ BeforeSwap
            <3>1. idx \in Outer /\ changes + 0 = Seen(idx) + 1
                BY <2>2 DEF Counted, One
            <3>2. changes \in Nat
                BY DEF TypeInv, TypeOK
            <3> QED
                BY <3>1, <3>2 DEF One
        <2> QED
            BY <2>1, <2>2
    <1>5. Driving' =>
              /\ OneSwap(script)
              /\ changes + One(HasSwap(script)) + One(BeforeSwap') =
                    Seen(idx) + One(idx \in Outer) + One(idx \in Inner)
        BY DEF Counted
    <1>6. Holds(idx)' \/ ~ (pc' = "top" \/ (Starting' /\ IsProgramOnly(op)))
        BY <1>1 DEF Counted
    <1> QED
        BY <1>1, <1>2, <1>3, <1>4, <1>5, <1>6 DEF Counted, HasSwap, OneSwap

\* Where the loop is in an operation there is one, and the count knows it.
LEMMA HereCounted ==
    ASSUME TypeInv, Countable(proj), Counted, InOp
    PROVE  /\ op \in Op /\ idx \in Nat \ {0} /\ changes \in Nat /\ proj \in Project
           /\ script \in Seq(Step) /\ Seen(idx) \in Nat
           /\ ~ IsProgramOnly(op) => Plainest(op)
           /\ idx \in Inner <=> ~ IsProgramOnly(op) /\ CountSwap(op)
           /\ IsProgramOnly(op) => idx \notin Outer
    <1>1. idx \in DOMAIN queue /\ queue = proj.ops /\ proj \in Project
        BY ProjectType DEF TypeInv, Placed, Counted
    <1> QED
        BY <1>1, InHand, SeenIs DEF TypeInv, TypeOK

LEMMA BeginOpCounted ==
    ASSUME TypeInv, Countable(proj), Counted, BeginOp
    PROVE  Counted'
    <1> USE DEF Driving, Changing, BeforeSwap, Starting, Ending, ChangePC, CutPC, EndPC
    <1>1. /\ pc = "top" /\ UNCHANGED <<plan, idx, script, changes>> /\ idx <= Len(queue)
          /\ IF NeedsChange(op) /\ op.tool \in Tools
             THEN env'.back = "mark" /\ pc' = "lift" ELSE pc' = "mark"
          /\ prevTool' = IF NeedsChange(op) THEN op.tool ELSE prevTool
        BY DEF BeginOp
    <1>2. changes = Seen(idx) /\ Holds(idx) /\ queue = proj.ops
        BY <1>1 DEF Counted
    <1>3. /\ op' = op /\ proj' = proj /\ queue' = queue /\ Outer' = Outer /\ Inner' = Inner
          /\ Seen(idx)' = Seen(idx)
          /\ prevTool' = prevTool => Holds(idx)' = Holds(idx)
        BY <1>1, CountStays
    <1>4. idx \in DOMAIN queue /\ changes \in Nat
        BY <1>1, LenProperties DEF TypeInv, TypeOK
    <1>5. /\ ~ IsProgramOnly(op) => Plainest(op)
          /\ IsProgramOnly(op) => idx \notin Outer
          /\ idx \in Outer <=> ~ IsProgramOnly(op) /\ prevTool # op.tool
        BY <1>2, <1>4, InHand
    <1>6. NeedsChange(op) <=> idx \in Outer
        BY <1>5 DEF NeedsChange, Plainest
    <1>7. IsProgramOnly(op) => Holds(idx)'
        BY <1>1, <1>2, <1>3, <1>5, <1>6
    <1>8. CASE NeedsChange(op) /\ op.tool \in Tools
        <2>1. pc' = "lift" /\ env'.back = "mark" /\ idx \in Outer /\ ~ IsProgramOnly(op)
            BY <1>1, <1>5, <1>6, <1>8
        <2>2. changes + One(TRUE) = Seen(idx) + 1
            BY <1>2 DEF One
        <2>3. changes' + One(BeforeSwap') = Seen(idx)' + 1
            BY <1>1, <1>3, <2>1, <2>2 DEF One
        <2> QED
            BY <1>1, <1>2, <1>3, <2>1, <2>3 DEF Counted
    <1>9. CASE ~ (NeedsChange(op) /\ op.tool \in Tools)
        <2>1. pc' = "mark"
            BY <1>1, <1>9
        <2>2. IsProgramOnly(op) \/ op.tool \in Tools => changes = Seen(idx) + One(idx \in Outer)
            <3>1. IsProgramOnly(op) \/ op.tool \in Tools => idx \notin Outer
                BY <1>5, <1>6, <1>9
            <3> QED
                BY <1>2, <1>4, <3>1 DEF One
        <2> QED
            BY <1>1, <1>2, <1>3, <1>7, <2>1, <2>2 DEF Counted, One
    <1> QED
        BY <1>8, <1>9

\* An operation is behind the loop.
LEMMA PastCounted ==
    ASSUME TypeInv, Countable(proj), Counted, idx \in DOMAIN queue,
           UNCHANGED plan, idx' = idx + 1, pc' = "top", changes' = changes,
           changes = Seen(idx) + One(idx \in Outer) + One(idx \in Inner),
           IsProgramOnly(op) => Holds(idx) /\ prevTool' = prevTool,
           ~ IsProgramOnly(op) => prevTool' = CountHeld(op)
    PROVE  Counted'
    <1> USE DEF Driving, Changing, BeforeSwap, Starting, Ending, ChangePC, CutPC, EndPC
    <1>1. proj \in Project /\ idx \in Nat \ {0} /\ queue = proj.ops
        BY ProjectType DEF TypeInv, TypeOK, Counted
    <1>2. changes = Seen(idx + 1)
        BY <1>1, SeenIs
    <1>3. proj' = proj /\ queue' = queue
        BY DEF plan
    <1>4. Outer' = Outer /\ Inner' = Inner
        BY <1>3 DEF Outer, Inner, Boundaries, Internal
    <1>5. changes' = Seen(idx)'
        BY <1>2, <1>4 DEF Seen
    <1>6. Previous(proj.ops, idx + 1) =
              IF IsProgramOnly(proj.ops[idx]) THEN Previous(proj.ops, idx) ELSE {idx}
        BY <1>1, PreviousIs
    <1>7. op = proj.ops[idx]
        BY <1>1 DEF op
    <1>8. Holds(idx)'
        <2>1. CASE IsProgramOnly(op)
            BY <1>3, <1>6, <1>7, <2>1 DEF Holds
        <2>2. CASE ~ IsProgramOnly(op)
            BY <1>3, <1>6, <1>7, <2>2 DEF Holds
        <2> QED
            BY <2>1, <2>2
    <1> QED
        BY <1>1, <1>3, <1>5, <1>8 DEF Counted

LEMMA BoundaryCounted ==
    ASSUME TypeInv, Countable(proj), Counted, Boundary
    PROVE  Counted'
    <1> USE DEF Driving, Changing, BeforeSwap, Starting, Ending, ChangePC, CutPC, EndPC
    <1>1. CASE BeginOp
        BY <1>1, BeginOpCounted
    <1>2. CASE Mark
        <2>1. /\ UNCHANGED <<plan, idx, prevTool, changes, script>> /\ pc = "mark"
              /\ pc' = IF IsProgramOnly(op) THEN "raw" ELSE "lookup"
            BY <1>2 DEF Mark, book
        <2> QED
            BY <2>1, CountedStays
    <1>3. CASE PlayTape
        <2>1. /\ UNCHANGED <<plan, idx, pc, env, prevTool, changes, script>>
              /\ pc \in {"raw", "replay"}
            BY <1>3 DEF PlayTape, book
        <2>2. pc = "raw" => IsProgramOnly(op)
            BY DEF Counted
        <2> QED
            BY <2>1, <2>2, CountedStays
    <1>4. CASE EndRaw
        <2>1. /\ pc = "raw" /\ pc' = "top" /\ idx' = idx + 1
              /\ UNCHANGED <<plan, prevTool, changes>>
            BY <1>4 DEF EndRaw, book
        <2>2. IsProgramOnly(op) /\ Holds(idx) /\ changes = Seen(idx) + One(idx \in Outer)
            BY <2>1 DEF Counted
        <2>3. InOp /\ idx \in DOMAIN queue
            BY <2>1 DEF InOp, BoundaryPC, TypeInv, Placed
        <2>4. changes = Seen(idx) + One(idx \in Outer) + One(idx \in Inner)
            BY <2>2, <2>3, HereCounted DEF One
        <2> QED
            BY <2>1, <2>2, <2>3, <2>4, PastCounted
    <1>5. CASE Cancelled
        <2>1. UNCHANGED <<plan, idx, prevTool, changes, script>> /\ pc' = "cancelled"
            BY <1>5 DEF Cancelled, book, drive
        <2> QED
            BY <2>1, CountedStays
    <1> QED
        BY <1>1, <1>2, <1>3, <1>4, <1>5 DEF Boundary

LEMMA CuttingCounted ==
    ASSUME TypeInv, Countable(proj), Counted, CacheCapacity = 0, pc # "replay", CuttingOp
    PROVE  Counted' /\ pc' # "replay"
    <1> USE DEF Driving, Changing, BeforeSwap, Starting, Ending, ChangePC, CutPC, EndPC
    <1>0. InOp /\ idx \in DOMAIN queue
        <2>1. InOp
            BY DEF CuttingOp, Hit, EndReplay, Miss, Fail, Plan, SwapStep, CutSpin, CutCoolant,
               CutEntry, CutPass, Finish, InOp, OpPC
        <2> QED
            BY <2>1 DEF TypeInv, Placed
    <1>a. /\ op \in Op /\ idx \in Nat \ {0} /\ changes \in Nat /\ proj \in Project
          /\ script \in Seq(Step) /\ Seen(idx) \in Nat
          /\ ~ IsProgramOnly(op) => Plainest(op)
          /\ idx \in Inner <=> ~ IsProgramOnly(op) /\ CountSwap(op)
        BY <1>0, HereCounted
    <1>b. pc \in {"lookup", "plan"} \/ Driving \/ Changing => ~ IsProgramOnly(op)
        BY DEF Counted
    <1>1. CASE Hit \/ EndReplay
        BY <1>1 DEF Hit, EndReplay, CachedAt
    <1>2. CASE Miss
        <2>1. /\ UNCHANGED <<plan, idx, prevTool, changes, script>> /\ pc = "lookup" /\ pc' = "plan"
            BY <1>2 DEF Miss, book, drive
        <2> QED
            BY <1>b, <2>1, CountedStays
    <1>3. CASE Fail
        <2>1. /\ UNCHANGED <<plan, idx, prevTool, changes, script>> /\ pc' = "failed"
            BY <1>3 DEF Fail, book, drive
        <2> QED
            BY <2>1, CountedStays
    <1>4. CASE Plan
        <2>1. /\ pc = "plan" /\ pc' = "step" /\ UNCHANGED <<plan, idx, prevTool, changes>>
              /\ op.tool \in Tools /\ script' = Script(op)
            BY <1>4 DEF Plan
        <2>2. ~ IsProgramOnly(op)
            BY <1>b, <2>1
        <2>3. OneSwap(script') /\ (HasSwap(script') <=> idx \in Inner)
            BY <1>a, <2>1, <2>2, ScriptSwaps
        <2>4. changes = Seen(idx) + One(idx \in Outer)
            BY <2>1 DEF Counted
        <2>5. /\ op' = op /\ proj' = proj /\ queue' = queue /\ Outer' = Outer /\ Inner' = Inner
              /\ Seen(idx)' = Seen(idx)
            BY <2>1, CountStays
        <2>6. changes + One(HasSwap(script')) + One(FALSE) =
                  Seen(idx) + One(idx \in Outer) + One(idx \in Inner)
            BY <1>a, <2>3, <2>4 DEF One
        <2> QED
            BY <2>1, <2>2, <2>3, <2>5, <2>6 DEF Counted, One
    <1>5. CASE SwapStep
        <2>1. /\ pc = "step" /\ pc' = "lift" /\ UNCHANGED <<plan, idx, prevTool, changes>>
              /\ script # <<>> /\ Head(script).do = "swap" /\ script' = Tail(script)
              /\ env'.back = "step"
            BY <1>5 DEF SwapStep, book
        <2>2. /\ OneSwap(script)
              /\ changes + One(HasSwap(script)) + One(FALSE) =
                    Seen(idx) + One(idx \in Outer) + One(idx \in Inner)
            BY <2>1 DEF Counted, One
        <2>3. OneSwap(script') /\ HasSwap(script) /\ ~ HasSwap(script')
            BY <1>a, <2>1, <2>2, TailSwaps
        <2>4. /\ op' = op /\ proj' = proj /\ queue' = queue /\ Outer' = Outer /\ Inner' = Inner
              /\ Seen(idx)' = Seen(idx)
            BY <2>1, CountStays
        <2>5. changes + One(HasSwap(script')) + One(TRUE) =
                  Seen(idx) + One(idx \in Outer) + One(idx \in Inner)
            BY <1>a, <2>2, <2>3 DEF One
        <2> QED
            BY <1>b, <2>1, <2>3, <2>4, <2>5 DEF Counted
    <1>6. CASE CutSpin \/ CutCoolant \/ CutEntry
        <2>1. /\ UNCHANGED <<plan, idx, prevTool, changes, script>>
              /\ pc \in {"step", "cool", "entry"} /\ pc' \in {"cool", "entry", "cut"}
              /\ Head(script).do = "cut"
            BY <1>6 DEF CutSpin, CutCoolant, CutEntry, book, drive, Counted
        <2> QED
            BY <1>b, <2>1, CountedStays
    <1>7. CASE CutPass
        <2>1. /\ pc = "cut" /\ pc' = "step" /\ UNCHANGED <<plan, idx, prevTool, changes>>
              /\ script' = Tail(script)
            BY <1>7 DEF CutPass, book
        <2>2. /\ OneSwap(script) /\ script # <<>> /\ Head(script).do = "cut"
              /\ changes + One(HasSwap(script)) + One(FALSE) =
                    Seen(idx) + One(idx \in Outer) + One(idx \in Inner)
            BY <2>1 DEF Counted, TypeInv, Placed, One
        <2>3. OneSwap(script') /\ (HasSwap(script') <=> HasSwap(script))
            BY <1>a, <2>1, <2>2, TailSwaps
        <2>4. /\ op' = op /\ proj' = proj /\ queue' = queue /\ Outer' = Outer /\ Inner' = Inner
              /\ Seen(idx)' = Seen(idx)
            BY <2>1, CountStays
        <2>5. changes + One(HasSwap(script')) + One(FALSE) =
                  Seen(idx) + One(idx \in Outer) + One(idx \in Inner)
            BY <2>2, <2>3 DEF One
        <2> QED
            BY <1>b, <2>1, <2>3, <2>4, <2>5 DEF Counted, One
    <1>8. CASE Finish
        <2>1. /\ pc = "step" /\ pc' = "top" /\ idx' = idx + 1 /\ UNCHANGED <<plan, changes>>
              /\ script = <<>> /\ prevTool' = NextPrevTool(op, Swaps(op))
            BY <1>8 DEF Finish
        <2>2. ~ HasSwap(script)
            BY <2>1 DEF HasSwap
        <2>3. changes + One(HasSwap(script)) + One(FALSE) =
                    Seen(idx) + One(idx \in Outer) + One(idx \in Inner)
            BY <2>1 DEF Counted, One
        <2>4. changes = Seen(idx) + One(idx \in Outer) + One(idx \in Inner)
            BY <1>a, <2>2, <2>3 DEF One
        <2>5. ~ IsProgramOnly(op) /\ prevTool' = CountHeld(op)
            BY <1>a, <1>b, <2>1 DEF NextPrevTool, Swaps, CountHeld, CountSwap, Plainest
        <2> QED
            BY <1>0, <2>1, <2>4, <2>5, PastCounted
    <1> QED
        BY <1>1, <1>2, <1>3, <1>4, <1>5, <1>6, <1>7, <1>8 DEF CuttingOp

LEMMA ChangeCounted ==
    ASSUME TypeInv, Countable(proj), Counted, Change
    PROVE  Counted'
    <1> USE DEF Driving, Changing, BeforeSwap, Starting, Ending, ChangePC, CutPC, EndPC
    <1>0. InOp /\ Changing /\ ~ IsProgramOnly(op) /\ env.back \in {"mark", "step"}
        BY DEF Change, EnvLift, EnvStation, EnvCoolant, EnvStop, EnvSwap, EnvPostZ, EnvSpinUp,
           Envelope, InOp, Counted, TypeInv, TypeOK, Env
    <1>1. CASE EnvSwap
        <2>1. /\ pc = "swap" /\ pc' \in {"postz", env.back} /\ changes' = changes + 1
              /\ UNCHANGED <<plan, idx, env, script, prevTool>>
            BY <1>1 DEF EnvSwap, drive
        <2>2. changes \in Nat /\ Seen(idx) \in Nat
            BY <1>0, HereCounted
        <2>3. /\ op' = op /\ proj' = proj /\ queue' = queue /\ Outer' = Outer /\ Inner' = Inner
              /\ Seen(idx)' = Seen(idx)
            BY <2>1, CountStays
        <2>4. CASE env.back = "mark"
            <3>1. idx \in Outer /\ changes + One(TRUE) = Seen(idx) + 1
                BY <2>1, <2>4 DEF Counted
            <3>2. changes' + One(FALSE) = Seen(idx) + 1 /\ changes' = Seen(idx) + One(idx \in Outer)
                BY <2>1, <2>2, <3>1 DEF One
            <3> QED
                BY <1>0, <2>1, <2>3, <2>4, <3>1, <3>2 DEF Counted, One
        <2>5. CASE env.back = "step"
            <3>1. /\ OneSwap(script)
                  /\ changes + One(HasSwap(script)) + One(TRUE) =
                        Seen(idx) + One(idx \in Outer) + One(idx \in Inner)
                BY <2>1, <2>5 DEF Counted
            <3>2. changes' + One(HasSwap(script)) + One(FALSE) =
                        Seen(idx) + One(idx \in Outer) + One(idx \in Inner)
                BY <2>1, <2>2, <3>1 DEF One
            <3> QED
                BY <1>0, <2>1, <2>3, <2>5, <3>1, <3>2 DEF Counted, One
        <2> QED
            BY <1>0, <2>4, <2>5
    <1>2. CASE EnvLift \/ EnvStation \/ EnvCoolant \/ EnvStop
        <2>1. /\ UNCHANGED <<plan, idx, env, prevTool, changes, script>>
              /\ pc \in {"lift", "station", "coolant", "stop"}
              /\ pc' \in {"station", "coolant", "stop", "swap"}
            BY <1>2 DEF EnvLift, EnvStation, EnvCoolant, EnvStop, Envelope, book, drive
        <2> QED
            BY <1>0, <2>1, CountedStays
    <1>3. CASE EnvPostZ \/ EnvSpinUp
        <2>1. /\ UNCHANGED <<plan, idx, env, prevTool, changes, script>>
              /\ pc \in {"postz", "spinup"} /\ pc' \in {"spinup", env.back}
            BY <1>3 DEF EnvPostZ, EnvSpinUp, Envelope, book, drive
        <2> QED
            BY <1>0, <2>1, CountedStays
    <1> QED
        BY <1>1, <1>2, <1>3 DEF Change

LEMMA EndCounted ==
    ASSUME TypeInv, Countable(proj), Counted, End
    PROVE  Counted'
    <1> USE DEF Driving, Changing, BeforeSwap, Starting, Ending, ChangePC, CutPC, EndPC
    <1>1. CASE EndLift
        <2>1. /\ pc = "top" /\ pc' = "endstop" /\ idx > Len(queue)
              /\ UNCHANGED <<plan, idx, prevTool, changes, script>>
            BY <1>1 DEF EndLift, book, drive
        <2>2. queue = proj.ops /\ changes = Seen(idx)
            BY <2>1 DEF Counted
        <2>3. proj \in Project /\ idx \in Nat \ {0}
            BY ProjectType DEF TypeInv, TypeOK
        <2>4. changes = CountToolChanges(proj.ops)
            BY <2>1, <2>2, <2>3, SeenIs
        <2>5. /\ op' = op /\ proj' = proj /\ queue' = queue
              /\ CountToolChanges(proj.ops)' = CountToolChanges(proj.ops)
            BY <2>1, CountStays
        <2> QED
            BY <2>1, <2>2, <2>4, <2>5 DEF Counted
    <1>2. CASE EndStop \/ EndCoolant \/ EndProgram
        <2>1. /\ UNCHANGED <<plan, idx, prevTool, changes, script>>
              /\ pc \in EndPC /\ pc' \in EndPC \cup {"done"}
            BY <1>2 DEF EndStop, EndCoolant, EndProgram, Envelope, book, drive
        <2> QED
            BY <2>1, CountedStays
    <1> QED
        BY <1>1, <1>2 DEF End

LEMMA SeenStarts ==
    ASSUME proj \in Project
    PROVE  Seen(1) = 0
    BY SeenIs

LEMMA GenerateCounted ==
    ASSUME NEW p \in Projects, StartGenerate(p)
    PROVE  CountInv'
    <1> DEFINE n == Len(p.ops)
    <1>1. /\ pc' = "top" /\ proj' = p /\ idx' = 1 /\ changes' = 0 /\ prevTool' = NoTool
        BY DEF StartGenerate
    <1>2. p \in Project /\ p.ops \in Seq(Op) /\ DOMAIN p.ops = 1 .. n
        BY PerOpAssumption, LenProperties DEF Project
    <1>3. ASSUME ~ p.group PROVE queue' = p.ops
        <2>1. PICK perm \in [1 .. n -> 1 .. n] :
                  EmissionOrder(p.ops, p.group, perm) /\ queue' = [i \in 1 .. n |-> p.ops[perm[i]]]
            BY DEF StartGenerate
        <2>2. \A i \in 1 .. n : perm[i] = i
            BY <1>2, <1>3, <2>1 DEF EmissionOrder
        <2>3. queue' = [i \in 1 .. n |-> p.ops[i]]
            BY <2>1, <2>2
        <2> QED
            BY <1>2, <2>3
    <1>4. (proj \in Project => Seen(1) = 0)'
        BY SeenStarts, PTL
    <1>5. Seen(idx)' = 0
        BY <1>1, <1>2, <1>4
    <1>8. Holds(idx)'
        <2>1. Previous(p.ops, 1) = {}
            BY PreviousIs, 1 \in Nat \ {0}
        <2> QED
            BY <1>1, <2>1 DEF Holds
    <1>6. Countable(proj)' => ~ p.group
        BY <1>1 DEF Countable
    <1>7. Countable(proj)' => Counted'
        BY <1>1, <1>3, <1>5, <1>6, <1>8 DEF Counted, Driving, Changing, BeforeSwap, Starting, Ending,
           ChangePC, CutPC, EndPC
    <1> QED
        BY <1>1, <1>7 DEF CountInv

LEMMA CountStep ==
    ASSUME CacheCapacity = 0, TypeInv, CountInv, [Next]_vars
    PROVE  CountInv'
    <1>1. CASE Generate
        BY <1>1, GenerateCounted DEF Generate
    <1>2. CASE RequestCancel \/ UNCHANGED vars
        <2>1. UNCHANGED <<plan, idx, pc, drive, book>>
            BY <1>2 DEF RequestCancel, vars
        <2>2. UNCHANGED <<plan, idx, pc, env, script, prevTool, changes>>
            BY <2>1 DEF drive, book
        <2>3. Countable(proj)' = Countable(proj)
            BY <2>2, CountStays
        <2>4. Counted => Counted'
            BY <2>2, CountStays DEF Counted, Driving, Changing, BeforeSwap, Starting, Ending
        <2> QED
            BY <2>2, <2>3, <2>4 DEF CountInv
    <1>3. CASE Advance
        <2>1. UNCHANGED plan /\ pc # "idle"
            BY <1>3 DEF Advance, Boundary, CuttingOp, Change, End, BeginOp, Mark, PlayTape, EndRaw,
               Cancelled, Hit, EndReplay, Miss, Fail, Plan, SwapStep, CutSpin, CutCoolant,
               CutEntry, CutPass, Finish, EnvLift, EnvStation, EnvCoolant, EnvStop, EnvSwap,
               EnvPostZ, EnvSpinUp, EndLift, EndStop, EndCoolant, EndProgram, Envelope
        <2>2. Countable(proj)' = Countable(proj)
            BY <2>1 DEF plan, Countable
        <2>3. pc' # "replay"
            BY <1>3 DEF CountInv, Advance, Boundary, CuttingOp, Change, End, BeginOp, Mark, PlayTape,
               EndRaw, Cancelled, Hit, CachedAt, EndReplay, Miss, Fail, Plan, SwapStep, CutSpin,
               CutCoolant, CutEntry, CutPass, Finish, EnvLift, EnvStation, EnvCoolant, EnvStop,
               EnvSwap, EnvPostZ, EnvSpinUp, EndLift, EndStop, EndCoolant, EndProgram, Envelope,
               TypeInv, TypeOK, Env
        <2>4. Countable(proj) => Counted'
            BY <1>3, <2>1, BoundaryCounted, CuttingCounted, ChangeCounted, EndCounted
               DEF CountInv, Advance
        <2> QED
            BY <2>2, <2>3, <2>4 DEF CountInv
    <1> QED
        BY <1>1, <1>2, <1>3 DEF Next

\* Without a cache the number of tool changes the estimator counts from the declared
\* operations is the number of envelopes the finished run emitted, whatever the
\* project, the library and the machine (count_tool_changes).
THEOREM CountStaysExact ==
    ASSUME CacheCapacity = 0
    PROVE  Spec => []CountIsExact
    <1> DEFINE Inv == TypeInv /\ CountInv
    <1>1. Init => Inv
        BY TypeInit DEF Init, CountInv
    <1>2. Inv /\ [Next]_vars => Inv'
        BY TypeStep, CountStep
    <1>3. Inv => CountIsExact
        BY DEF CountInv, Counted, Ending, CountIsExact
    <1> QED
        BY <1>1, <1>2, <1>3, PTL DEF Spec
-----------------------------------------------------------------------------

\* An operation that is about to be looked up, replayed or planned.
BeforeOp ==
    \/ pc \in {"top", "mark", "raw", "lookup", "replay", "plan"}
    \/ Changing /\ env.back = "mark"

(***************************************************************************)
(* What the cache holds.  No key is held twice, because a body is planned  *)
(* and stored only for a key that was looked up and not found.             *)
(***************************************************************************)
KeysDiffer(c) == \A i, j \in DOMAIN c : c[i].key = c[j].key => i = j

StoreInv ==
    /\ Len(cache) <= CacheCapacity /\ KeysDiffer(cache)
    /\ (pc = "plan" /\ op.tool \in Tools) \/ Driving =>
          CacheCapacity = 0 \/ Keyed(CacheKey(op)) = {}

(***************************************************************************)
(* What a run has reported: the warnings of the cutting operations behind  *)
(* it, and once it is planned the one it is at.                            *)
(***************************************************************************)
EntryWarns(e) == e.warn = <<e.key.op>>

Reported ==
    /\ BeforeOp => idx \in 1 .. Len(queue) + 1 /\ warnings = Strung(CuttingByOp)[idx - 1]
    /\ Driving => warnings = Strung(CuttingByOp)[idx]
    /\ pc \in EndPC \cup {"done"} => warnings = Strung(CuttingByOp)[Len(queue)]

ReportInv ==
    /\ \A i \in DOMAIN cache : EntryWarns(cache[i])
    /\ pc = "replay" => LastEntry.key = CacheKey(op)
    /\ pc = "raw" => IsProgramOnly(op)
    /\ pc \in {"lookup", "replay", "plan"} \/ Driving => ~ IsProgramOnly(op)
    /\ Reported

(***************************************************************************)
(* What a body cuts: the script its key stands for.  The library entry of  *)
(* a spot tool of its own is no part of the key.                           *)
(***************************************************************************)
SpotsWithItsTool(o) == o.spot \in {NoTool, o.tool}
SpotsAreKeyed == \A p \in Projects : \A i \in DOMAIN p.ops : SpotsWithItsTool(p.ops[i])

KeyCut(o, t, s) == [do |-> "cut", tool |-> t, spin |-> IF o.spin # Off THEN o.spin ELSE s]
KeySteps(k) ==
    LET own == IF k.op.rough THEN <<KeyCut(k.op, k.op.tool, k.tool)>> ELSE <<>>
        spin == IF k.op.spin # Off THEN k.op.spin ELSE k.finish
    IN  (IF k.op.spot = NoTool THEN <<>> ELSE own) \o own
        \o (IF Swaps(k.op) THEN <<SwapTo(k.op.finish, spin), KeyCut(k.op, k.op.finish, k.finish)>>
            ELSE <<>>)

CutsOf(steps) == Strung(CutsByStep(steps))[Len(steps)]
EntryCuts(e) == CutsIn(e.body) = CutsOf(KeySteps(e.key))

FreshInv ==
    /\ \A i \in DOMAIN queue : SpotsWithItsTool(queue[i])
    /\ \A i \in DOMAIN cache : EntryCuts(cache[i])
    /\ pc \in {"lookup", "plan"} => body = <<>>
    /\ pc \in CutPC => Head(script).do = "cut"
    /\ Driving =>
          \E k \in 0 .. Len(Script(op)) :
              /\ script = SubSeq(Script(op), k + 1, Len(Script(op)))
              /\ CutsIn(body) = Strung(CutsByStep(Script(op)))[k]

(***************************************************************************)
(* Which tool a body is run with: from tool t in the spindle, every line   *)
(* that cuts names the tool in the spindle, and the last one leaves u.     *)
(***************************************************************************)
Runs(lines, h) ==
    \A i \in 1 .. Len(lines) :
        /\ h[i] = IF lines[i].w \in {"swap", "load"} THEN lines[i].tool ELSE h[i - 1]
        /\ lines[i].w = "cut" => lines[i].tool = h[i]
Traced(lines, t, u) ==
    \E h \in [0 .. Len(lines) -> Tools] : h[0] = t /\ h[Len(lines)] = u /\ Runs(lines, h)

\* An operation that does what its boundary announces, and keeps to the spindle's tool.
KeepsTool(o) ==
    /\ IsProgramOnly(o) \/ o.gate
    /\ \A j \in DOMAIN o.emit : o.emit[j].w \notin {"swap", "load", "cut"}
ToolsAreKept == \A p \in Projects : \A i \in DOMAIN p.ops : KeepsTool(p.ops[i])

EntryTraced(e) ==
    /\ e.swap = Swaps(e.key.op)
    /\ e.key.machine.change # "Ignore" => Traced(e.body, e.key.op.tool, HeldAfter(e.key.op))

HeldInv ==
    /\ \A i \in DOMAIN queue : KeepsTool(queue[i])
    /\ \A i \in DOMAIN cache : EntryTraced(cache[i])
    /\ pc \in {"lookup", "plan"} => body = <<>>
    /\ pc \in CutPC => Head(script).do = "cut"
    /\ pc = "raw" => \A j \in DOMAIN tape : tape[j].w \notin {"swap", "load", "cut"}
    /\ Changing /\ env.back = "mark" => ~ IsProgramOnly(op) /\ env.tool = op.tool

PlaceHeld ==
    /\ Outside => prevTool = mach.tool
    /\ Entering => mach.tool = op.tool
    /\ pc = "replay" => Traced(tape, mach.tool, HeldAfter(op))
    /\ Cutting => /\ Traced(body, op.tool, mach.tool) /\ Goes(script, mach.tool, HeldAfter(op))
    /\ pc \in {"postz", "spinup"} => mach.tool = env.tool
    /\ Changing /\ env.back = "step" =>
          Traced(body, op.tool, mach.tool) /\ Goes(script, env.tool, HeldAfter(op))
    /\ CutsWithItsTool

KeptInv == HeldInv /\ (Swapping => PlaceHeld)

-----------------------------------------------------------------------------
(* The sequence the entries are kept in *)

LEMMA UseIs ==
    ASSUME cache \in Seq(CacheEntry), NEW i \in DOMAIN cache
    PROVE  /\ Len(Use(i)) = Len(cache)
           /\ \A k \in 1 .. Len(cache) :
                 Use(i)[k] = cache[IF k < i THEN k ELSE IF k < Len(cache) THEN k + 1 ELSE i]
    <1> DEFINE n == Len(cache)
               a == SubSeq(cache, 1, i - 1)
               b == SubSeq(cache, i + 1, n)
    <1>1. n \in Nat /\ i \in 1 .. n
        BY LenProperties
    <1>2. /\ a \in Seq(CacheEntry) /\ Len(a) = i - 1
          /\ \A k \in 1 .. i - 1 : a[k] = cache[k]
        BY <1>1, SubSeqProperties
    <1>3. /\ b \in Seq(CacheEntry) /\ Len(b) = n - i
          /\ \A k \in 1 .. n - i : b[k] = cache[i + k]
        BY <1>1, SubSeqProperties
    <1> HIDE DEF a, b
    <1> DEFINE c == a \o b
    <1>4. /\ c \in Seq(CacheEntry) /\ Len(c) = n - 1
          /\ \A k \in 1 .. n - 1 : c[k] = IF k < i THEN cache[k] ELSE cache[k + 1]
        <2>1. c \in Seq(CacheEntry) /\ Len(c) = n - 1
            BY <1>1, <1>2, <1>3, ConcatProperties
        <2>2. \A k \in 1 .. n - 1 : c[k] = IF k <= i - 1 THEN a[k] ELSE b[k - (i - 1)]
            BY <1>1, <1>2, <1>3, ConcatProperties
        <2> HIDE DEF c
        <2>3. ASSUME NEW k \in 1 .. n - 1
              PROVE  c[k] = IF k < i THEN cache[k] ELSE cache[k + 1]
            <3>1. CASE k < i
                BY <1>1, <1>2, <2>2, <3>1
            <3>2. CASE ~ (k < i)
                <4>1. k - (i - 1) \in 1 .. n - i /\ i + (k - (i - 1)) = k + 1
                    BY <1>1, <3>2
                <4>2. b[k - (i - 1)] = cache[k + 1]
                    BY <1>3, <4>1
                <4>3. c[k] = IF k <= i - 1 THEN a[k] ELSE b[k - (i - 1)]
                    BY <2>2
                <4>4. ~ (k <= i - 1)
                    BY <1>1, <3>2
                <4> QED
                    BY <3>2, <4>2, <4>3, <4>4
            <3> QED
                BY <3>1, <3>2
        <2> QED
            BY <2>1, <2>3
    <1>5. Use(i) = Append(c, cache[i]) /\ cache[i] \in CacheEntry
        BY <1>1, ElementOfSeq DEF Use, RemoveAt, a, b
    <1> HIDE DEF c
    <1>6. Len(Use(i)) = n
        BY <1>1, <1>4, <1>5, AppendProperties
    <1>7. ASSUME NEW k \in 1 .. n
          PROVE  Use(i)[k] = cache[IF k < i THEN k ELSE IF k < n THEN k + 1 ELSE i]
        <2>1. CASE k = n
            BY <1>1, <1>4, <1>5, <2>1, AppendProperties
        <2>2. CASE k # n
            <3>1. k \in 1 .. n - 1
                BY <1>1, <2>2
            <3>2. Use(i)[k] = c[k]
                BY <1>4, <1>5, <3>1, AppendProperties
            <3> QED
                BY <1>4, <3>1, <3>2
        <2> QED
            BY <2>1, <2>2
    <1> QED
        BY <1>6, <1>7

LEMMA PutIs ==
    ASSUME cache \in Seq(CacheEntry), Len(cache) <= CacheCapacity, CacheCapacity > 0,
           NEW e \in CacheEntry
    PROVE  \E d \in {0, 1} :
              /\ Len(Put(e)) = Len(cache) - d + 1 /\ Len(Put(e)) <= CacheCapacity
              /\ Put(e)[Len(Put(e))] = e
              /\ \A k \in 1 .. Len(cache) - d : k + d \in DOMAIN cache /\ Put(e)[k] = cache[k + d]
    <1>0. Len(cache) \in Nat /\ DOMAIN cache = 1 .. Len(cache) /\ CacheCapacity \in Nat
        BY LenProperties, PerOpAssumption
    <1>1. CASE Len(cache) >= CacheCapacity
        <2>1. /\ Tail(cache) \in Seq(CacheEntry) /\ Len(Tail(cache)) = Len(cache) - 1
              /\ \A k \in 1 .. Len(cache) - 1 : Tail(cache)[k] = cache[k + 1]
            BY <1>0, <1>1, HeadTailProperties, EmptySeq
        <2>2. Put(e) = Append(Tail(cache), e)
            BY <1>1 DEF Put
        <2>3. Len(Put(e)) = Len(cache) /\ Put(e)[Len(cache)] = e
              /\ \A k \in 1 .. Len(cache) - 1 : Put(e)[k] = Tail(cache)[k]
            BY <1>0, <1>1, <2>1, <2>2, AppendProperties
        <2>4. \A k \in 1 .. Len(cache) - 1 : k + 1 \in DOMAIN cache /\ Put(e)[k] = cache[k + 1]
            BY <1>0, <2>1, <2>3
        <2>5. /\ Len(Put(e)) = Len(cache) - 1 + 1 /\ Len(Put(e)) <= CacheCapacity
              /\ Put(e)[Len(Put(e))] = e
            BY <1>0, <1>1, <2>3
        <2> HIDE DEF Put
        <2> QED
            BY <2>4, <2>5
    <1>2. CASE ~ (Len(cache) >= CacheCapacity)
        <2>1. Put(e) = Append(cache, e)
            BY <1>2 DEF Put
        <2>2. Len(Put(e)) = Len(cache) + 1 /\ Put(e)[Len(cache) + 1] = e
              /\ \A k \in 1 .. Len(cache) : Put(e)[k] = cache[k]
            BY <1>0, <2>1, AppendProperties
        <2> QED
            BY <1>0, <1>2, <2>2
    <1> QED
        BY <1>1, <1>2

\* The operation in hand, and whether it is being driven, at the steps that store.
LEMMA OpInHand ==
    ASSUME TypeInv, pc \in OpPC \/ pc = "raw" \/ Changing
    PROVE  idx \in DOMAIN queue /\ op \in Op
    BY DEF TypeInv, TypeOK, Placed, InOp, Changing, BoundaryPC, OpPC, op

LEMMA FinishStores ==
    ASSUME TypeInv, Finish
    PROVE  /\ op.tool \in Tools /\ Driving
           /\ Entry(op) \in CacheEntry
           /\ \/ cache' = cache
              \/ CacheCapacity > 0 /\ op \notin Oversized /\ cache' = Put(Entry(op))
    <1>1. op.tool \in Tools /\ Driving
        BY DEF TypeInv, Placed, Finish, Driving
    <1>2. op \in Op
        BY OpInHand DEF Finish, OpPC
    <1> QED
        BY <1>1, <1>2, EntryType DEF TypeInv, Finish

\* The cache changes only at a hit and at the end of a planned operation.
LEMMA CacheStays ==
    ASSUME [Next]_vars, ~ Hit, ~ Finish
    PROVE  UNCHANGED cache
    BY DEF Next, Generate, StartGenerate, RequestCancel, Advance, Boundary, CuttingOp, Change,
       End, BeginOp, Mark, PlayTape, EndRaw, Cancelled, EndReplay, Miss, Fail, Plan, SwapStep,
       CutSpin, CutCoolant, CutEntry, CutPass, EnvLift, EnvStation, EnvCoolant, EnvStop,
       EnvSwap, EnvPostZ, EnvSpinUp, EndLift, EndStop, EndCoolant, EndProgram, Envelope, vars,
       book

\* Every entry is one that was there, or the operation's just finished.
LEMMA EntriesAre ==
    ASSUME TypeInv, Len(cache) <= CacheCapacity, [Next]_vars
    PROVE  \A k \in DOMAIN cache' :
              \/ \E j \in DOMAIN cache : cache'[k] = cache[j]
              \/ Finish /\ op \notin Oversized /\ cache'[k] = Entry(op)
    <1>0. cache \in Seq(CacheEntry) /\ Len(cache) \in Nat /\ DOMAIN cache = 1 .. Len(cache)
        BY LenProperties DEF TypeInv, TypeOK
    <1>1. CASE Hit
        <2>1. PICK i \in CachedAt(op) : cache' = Use(i)
            BY <1>1 DEF Hit
        <2>2. i \in DOMAIN cache
            BY <2>1 DEF CachedAt, Keyed
        <2>3. cache' \in Seq(CacheEntry)
            BY <1>0, <2>1, <2>2, UseType
        <2>4. DOMAIN cache' = 1 .. Len(cache)
            BY <1>0, <2>1, <2>2, <2>3, UseIs, LenProperties
        <2>5. ASSUME NEW k \in 1 .. Len(cache)
              PROVE  \E j \in DOMAIN cache : cache'[k] = cache[j]
            <3> DEFINE j == IF k < i THEN k ELSE IF k < Len(cache) THEN k + 1 ELSE i
            <3>1. cache'[k] = cache[j]
                BY <1>0, <2>1, <2>2, UseIs
            <3>2. j \in DOMAIN cache
                BY <1>0, <2>2
            <3> QED
                BY <3>1, <3>2
        <2> QED
            BY <2>4, <2>5
    <1>2. CASE Finish
        <2>1. CASE cache' = cache
            BY <2>1
        <2>2. CASE CacheCapacity > 0 /\ op \notin Oversized /\ cache' = Put(Entry(op))
            <3>1. Entry(op) \in CacheEntry
                BY <1>2, FinishStores
            <3>2. cache' \in Seq(CacheEntry)
                BY <1>0, <2>2, <3>1, PutType
            <3>3. DOMAIN cache' = 1 .. Len(cache')
                BY <3>2, LenProperties
            <3> HIDE DEF Put
            <3>4. PICK d \in {0, 1} :
                     /\ Len(cache') = Len(cache) - d + 1 /\ cache'[Len(cache')] = Entry(op)
                     /\ \A k \in 1 .. Len(cache) - d :
                           k + d \in DOMAIN cache /\ cache'[k] = cache[k + d]
                BY <1>0, <2>2, <3>1, PutIs
            <3>5. ASSUME NEW k \in DOMAIN cache'
                  PROVE  (\E j \in DOMAIN cache : cache'[k] = cache[j]) \/ cache'[k] = Entry(op)
                <4>1. k = Len(cache') \/ k \in 1 .. Len(cache) - d
                    BY <1>0, <3>3, <3>4
                <4> QED
                    BY <3>4, <4>1
            <3> QED
                BY <1>2, <2>2, <3>5
        <2> QED
            BY <1>2, <2>1, <2>2, FinishStores
    <1>3. CASE ~ Hit /\ ~ Finish
        BY <1>3, CacheStays
    <1> QED
        BY <1>1, <1>2, <1>3

-----------------------------------------------------------------------------
(* No key twice *)

Storing == (pc = "plan" /\ op.tool \in Tools) \/ Driving

\* A step that plans nothing new and leaves the cache alone keeps what it holds.
LEMMA StoreStays ==
    ASSUME StoreInv, UNCHANGED cache, Storing' => Storing /\ UNCHANGED <<plan, idx>>
    PROVE  StoreInv'
    BY DEF StoreInv, Storing, KeysDiffer, Keyed, CacheKey, op, plan

LEMMA StoreStep ==
    ASSUME TypeInv, StoreInv, [Next]_vars
    PROVE  StoreInv'
    <1> USE DEF Driving, Changing, ChangePC, CutPC, Ended, EndPC
    <1>0. cache \in Seq(CacheEntry) /\ Len(cache) \in Nat /\ DOMAIN cache = 1 .. Len(cache)
        BY LenProperties DEF TypeInv, TypeOK
    <1>1. CASE Hit
        <2>1. PICK i \in CachedAt(op) : cache' = Use(i)
            BY <1>1 DEF Hit
        <2>2. i \in DOMAIN cache
            BY <2>1 DEF CachedAt, Keyed
        <2>3. cache' \in Seq(CacheEntry) /\ Len(cache') = Len(cache)
            BY <1>0, <2>1, <2>2, UseType, UseIs
        <2>4. DOMAIN cache' = 1 .. Len(cache)
            BY <2>3, LenProperties
        <2> DEFINE at(k) == IF k < i THEN k ELSE IF k < Len(cache) THEN k + 1 ELSE i
        <2>5. \A k \in 1 .. Len(cache) : cache'[k] = cache[at(k)] /\ at(k) \in DOMAIN cache
            BY <1>0, <2>1, <2>2, UseIs
        <2>6. ASSUME NEW k \in 1 .. Len(cache), NEW l \in 1 .. Len(cache), at(k) = at(l)
              PROVE  k = l
            <3>1. i \in 1 .. Len(cache)
                BY <1>0, <2>2
            <3>2. CASE k < i
                BY <1>0, <2>6, <3>1, <3>2
            <3>3. CASE ~ (k < i) /\ k < Len(cache)
                BY <1>0, <2>6, <3>1, <3>3
            <3>4. CASE ~ (k < i) /\ ~ (k < Len(cache))
                BY <1>0, <2>6, <3>1, <3>4
            <3> QED
                BY <3>2, <3>3, <3>4
        <2> HIDE DEF at
        <2>7. \A k, l \in 1 .. Len(cache) : cache[at(k)].key = cache[at(l)].key => at(k) = at(l)
            BY <2>5 DEF StoreInv, KeysDiffer
        <2>8. KeysDiffer(cache')
            BY <2>4, <2>5, <2>6, <2>7 DEF KeysDiffer
        <2>9. ~ Storing'
            BY <1>1 DEF Hit, Storing
        <2> QED
            BY <2>3, <2>8, <2>9 DEF StoreInv, Storing
    <1>2. CASE Finish
        <2>1. ~ Storing'
            BY <1>2 DEF Finish, Storing
        <2>2. CASE cache' = cache
            BY <2>1, <2>2, StoreStays
        <2>3. CASE CacheCapacity > 0 /\ cache' = Put(Entry(op))
            <3>1. Entry(op) \in CacheEntry /\ Entry(op).key = CacheKey(op)
                BY <1>2, FinishStores DEF Entry
            <3>2. Keyed(CacheKey(op)) = {}
                BY <1>2, <2>3, FinishStores DEF StoreInv
            <3>3. cache' \in Seq(CacheEntry)
                BY <1>0, <2>3, <3>1, PutType
            <3>4. DOMAIN cache' = 1 .. Len(cache')
                BY <3>3, LenProperties
            <3>5. PICK d \in {0, 1} :
                     /\ Len(cache') = Len(cache) - d + 1 /\ Len(cache') <= CacheCapacity
                     /\ cache'[Len(cache')] = Entry(op)
                     /\ \A k \in 1 .. Len(cache) - d :
                           k + d \in DOMAIN cache /\ cache'[k] = cache[k + d]
                BY <1>0, <2>3, <3>1, PutIs DEF StoreInv
            <3>6. \A k \in 1 .. Len(cache) - d : cache'[k].key # CacheKey(op)
                BY <3>2, <3>5 DEF Keyed
            <3>7. ASSUME NEW k \in DOMAIN cache', NEW l \in DOMAIN cache',
                         cache'[k].key = cache'[l].key
                  PROVE  k = l
                <4>1. /\ k = Len(cache') \/ k \in 1 .. Len(cache) - d
                      /\ l = Len(cache') \/ l \in 1 .. Len(cache) - d
                    BY <1>0, <3>4, <3>5
                <4>2. CASE k \in 1 .. Len(cache) - d /\ l \in 1 .. Len(cache) - d
                    <5>1. /\ k + d \in DOMAIN cache /\ cache'[k] = cache[k + d]
                          /\ l + d \in DOMAIN cache /\ cache'[l] = cache[l + d]
                        BY <3>5, <4>2
                    <5>2. k + d = l + d
                        BY <3>7, <5>1 DEF StoreInv, KeysDiffer
                    <5> QED
                        BY <4>2, <5>2
                <4> QED
                    BY <3>1, <3>5, <3>6, <3>7, <4>1, <4>2
            <3> QED
                BY <2>1, <3>5, <3>7 DEF StoreInv, Storing, KeysDiffer
        <2> QED
            BY <1>2, <2>2, <2>3, FinishStores
    <1>3. CASE Miss
        <2>1. UNCHANGED <<cache, plan, idx>> /\ pc' = "plan"
            BY <1>3 DEF Miss, book
        <2>2. op.tool \in Tools => CacheCapacity = 0 \/ Keyed(CacheKey(op)) = {}
            BY <1>3 DEF Miss, CachedAt
        <2> QED
            BY <2>1, <2>2 DEF StoreInv, KeysDiffer, Keyed, CacheKey, op, plan
    <1>4. CASE ~ Hit /\ ~ Finish /\ ~ Miss
        <2>1. UNCHANGED cache
            BY <1>4, CacheStays
        <2>2. Storing' => Storing /\ UNCHANGED <<plan, idx>>
            <3> USE DEF Storing, plan, drive, book, output
            <3>1. CASE Generate \/ RequestCancel \/ UNCHANGED vars
                BY <3>1 DEF Generate, StartGenerate, RequestCancel, vars, op
            <3>2. CASE Boundary
                BY <3>2 DEF Boundary, BeginOp, Mark, PlayTape, EndRaw, Cancelled, op
            <3>3. CASE CuttingOp
                BY <1>4, <3>3 DEF CuttingOp, EndReplay, Fail, Plan, SwapStep, CutSpin,
                   CutCoolant, CutEntry, CutPass, op
            <3>4. CASE Change
                BY <3>4 DEF Change, EnvLift, EnvStation, EnvCoolant, EnvStop, EnvSwap, EnvPostZ,
                   EnvSpinUp, Envelope, op, TypeInv, TypeOK, Env
            <3>5. CASE End
                BY <3>5 DEF End, EndLift, EndStop, EndCoolant, EndProgram, Envelope, op
            <3> QED
                BY <3>1, <3>2, <3>3, <3>4, <3>5 DEF Next, Advance
        <2> QED
            BY <2>1, <2>2, StoreStays
    <1> QED
        BY <1>1, <1>2, <1>3, <1>4

LEMMA StoreInit == Init => StoreInv
    <1>1. Init => cache = <<>> /\ ~ Storing
        BY DEF Init, Storing, Driving, Changing, ChangePC, CutPC
    <1> QED
        BY <1>1, PerOpAssumption DEF StoreInv, Storing, KeysDiffer

\* The cache never holds two bodies for one key, nor more than it has room for,
\* whatever is replayed, stored and dropped, by however many runs, finished,
\* cancelled or failed (OpCache::get and put).
THEOREM CacheStaysSound == Spec => []CacheIsSound
    <1>1. Init => TypeInv /\ StoreInv
        BY TypeInit, StoreInit
    <1>2. (TypeInv /\ StoreInv) /\ [Next]_vars => (TypeInv /\ StoreInv)'
        BY TypeStep, StoreStep
    <1>3. StoreInv => CacheIsSound
        BY DEF StoreInv, KeysDiffer, CacheIsSound
    <1> QED
        BY <1>1, <1>2, <1>3, PTL DEF Spec

-----------------------------------------------------------------------------
(* Every cutting operation's warnings, once *)

LEMMA ByOp ==
    ASSUME queue \in Seq(Op)
    PROVE  /\ Strung(CuttingByOp)[0] = <<>>
           /\ \A i \in DOMAIN queue :
                 Strung(CuttingByOp)[i] =
                     Strung(CuttingByOp)[i - 1]
                     \o (IF IsProgramOnly(queue[i]) THEN <<>> ELSE <<queue[i]>>)
    <1>1. Len(queue) \in Nat /\ DOMAIN queue = 1 .. Len(queue)
        BY LenProperties
    <1>2. /\ Len(CuttingByOp) = Len(queue)
          /\ \A i \in 1 .. Len(queue) :
                CuttingByOp[i] = IF IsProgramOnly(queue[i]) THEN <<>> ELSE <<queue[i]>>
        BY <1>1 DEF CuttingByOp
    <1> QED
        BY <1>1, <1>2, StrungIs

\* With the operation in hand reported, the run is past it.
LEMMA PastOp ==
    ASSUME TypeInv, idx \in DOMAIN queue, UNCHANGED plan, idx' = idx + 1, pc' = "top",
           warnings' = Strung(CuttingByOp)[idx]
    PROVE  Reported'
    <1>1. idx' \in 1 .. Len(queue) + 1 /\ idx' - 1 = idx
        BY LenProperties DEF TypeInv, TypeOK
    <1>2. CuttingByOp' = CuttingByOp
        BY DEF CuttingByOp, plan
    <1>3. warnings' = Strung(CuttingByOp)[idx' - 1]
        BY <1>1
    <1> QED
        BY <1>1, <1>2, <1>3 DEF Reported, Driving, Changing, ChangePC, CutPC, EndPC, plan

\* Where the run is in its reports and what the operation in hand is.
Marks ==
    /\ pc = "replay" => LastEntry.key = CacheKey(op)
    /\ pc = "raw" => IsProgramOnly(op)
    /\ pc \in {"lookup", "replay", "plan"} \/ Driving => ~ IsProgramOnly(op)

\* A step that reports nothing and stays with its operation.
LEMMA ReportStays ==
    ASSUME Marks, Reported, UNCHANGED <<plan, idx, warnings>>,
           pc' \in {"top", "replay", "lookup", "raw"} => pc = pc', UNCHANGED cache,
           BeforeOp' => BeforeOp, Driving' => Driving, pc' = "plan" => pc = "lookup" \/ pc = "plan",
           pc' \in EndPC \cup {"done"} => pc \in EndPC \cup {"done"}
    PROVE  Marks' /\ Reported'
    <1>1. CuttingByOp' = CuttingByOp /\ op' = op /\ CacheKey(op)' = CacheKey(op)
        BY DEF CuttingByOp, plan, op, CacheKey
    <1>2. Marks'
        BY <1>1 DEF Marks, LastEntry
    <1>3. Reported'
        BY <1>1 DEF Reported, plan
    <1> QED
        BY <1>2, <1>3

LEMMA ReportBoundary ==
    ASSUME TypeInv, Marks, Reported, Boundary
    PROVE  Marks' /\ Reported'
    <1> USE DEF Driving, Changing, ChangePC, CutPC, EndPC, BeforeOp
    <1>1. CASE BeginOp
        <2>1. /\ UNCHANGED <<plan, idx, warnings, cache>> /\ idx \in DOMAIN queue
              /\ pc' = "mark" \/ (pc' = "lift" /\ env'.back = "mark")
              /\ pc = "top"
            BY <1>1, LenProperties DEF BeginOp, TypeInv, TypeOK
        <2> QED
            BY <2>1, ReportStays
    <1>2. CASE Mark
        <2>1. /\ UNCHANGED <<plan, idx, warnings, cache>> /\ pc = "mark"
              /\ IsProgramOnly(op) => pc' = "raw"
              /\ ~ IsProgramOnly(op) => pc' = "lookup"
            BY <1>2 DEF Mark, book
        <2>2. CuttingByOp' = CuttingByOp /\ op' = op
            BY <2>1 DEF CuttingByOp, plan, op
        <2>3. Marks'
            BY <2>1, <2>2 DEF Marks
        <2>4. Reported'
            BY <2>1, <2>2 DEF Reported, plan
        <2> QED
            BY <2>3, <2>4
    <1>3. CASE PlayTape
        BY <1>3, ReportStays DEF PlayTape, book
    <1>4. CASE EndRaw
        <2>1. /\ pc = "raw" /\ pc' = "top" /\ idx' = idx + 1
              /\ UNCHANGED <<plan, warnings>> /\ IsProgramOnly(op)
            BY <1>4 DEF EndRaw, book, Marks
        <2>2. idx \in DOMAIN queue /\ queue \in Seq(Op) /\ warnings \in Seq(Op)
            BY <2>1, OpInHand DEF TypeInv, TypeOK
        <2>3. Strung(CuttingByOp)[idx] = warnings \o <<>>
            BY <2>1, <2>2, ByOp DEF Reported, op
        <2>4. warnings' = Strung(CuttingByOp)[idx]
            BY <2>1, <2>2, <2>3, ConcatEmptySeq
        <2>5. Marks'
            BY <2>1 DEF Marks
        <2> QED
            BY <2>1, <2>2, <2>4, <2>5, PastOp
    <1>5. CASE Cancelled
        BY <1>5 DEF Cancelled, Marks, Reported
    <1> QED
        BY <1>1, <1>2, <1>3, <1>4, <1>5 DEF Boundary

LEMMA ReportCutting ==
    ASSUME TypeInv, Marks, Reported, CuttingOp, \A i \in DOMAIN cache : EntryWarns(cache[i])
    PROVE  Marks' /\ Reported'
    <1> USE DEF Driving, Changing, ChangePC, CutPC, EndPC, BeforeOp
    <1>0. /\ idx \in DOMAIN queue /\ op \in Op /\ queue \in Seq(Op) /\ warnings \in Seq(Op)
          /\ cache \in Seq(CacheEntry) /\ Len(cache) \in Nat /\ DOMAIN cache = 1 .. Len(cache)
        <2>1. pc \in OpPC
            BY DEF CuttingOp, Hit, EndReplay, Miss, Fail, Plan, SwapStep, CutSpin, CutCoolant,
               CutEntry, CutPass, Finish, OpPC
        <2> QED
            BY <2>1, OpInHand, LenProperties DEF TypeInv, TypeOK
    <1>a. ~ IsProgramOnly(op) => Strung(CuttingByOp)[idx] = Strung(CuttingByOp)[idx - 1] \o <<op>>
        BY <1>0, ByOp DEF op
    <1>1. CASE Hit
        <2>1. PICK i \in CachedAt(op) : cache' = Use(i)
            BY <1>1 DEF Hit
        <2>2. i \in DOMAIN cache /\ cache[i].key = CacheKey(op)
            BY <2>1 DEF CachedAt, Keyed
        <2>3. Len(cache') = Len(cache) /\ cache'[Len(cache)] = cache[i]
            BY <1>0, <2>1, <2>2, UseIs
        <2>4. UNCHANGED <<plan, idx, warnings>> /\ pc = "lookup" /\ pc' = "replay"
            BY <1>1 DEF Hit
        <2>5. CuttingByOp' = CuttingByOp /\ op' = op /\ CacheKey(op)' = CacheKey(op)
            BY <2>4 DEF CuttingByOp, plan, op, CacheKey
        <2>6. Marks'
            BY <2>2, <2>3, <2>4, <2>5 DEF Marks, LastEntry
        <2>7. Reported'
            BY <2>4, <2>5 DEF Reported, plan
        <2> QED
            BY <2>6, <2>7
    <1>2. CASE EndReplay
        <2>1. /\ pc = "replay" /\ pc' = "top" /\ idx' = idx + 1
              /\ UNCHANGED plan /\ warnings' = warnings \o LastEntry.warn
            BY <1>2 DEF EndReplay
        <2>2. LastEntry.key.op = op
            BY <2>1 DEF Marks, CacheKey
        <2>3. cache # <<>>
            BY <2>1 DEF TypeInv, Placed
        <2>4. LastEntry.warn = <<op>>
            BY <1>0, <2>2, <2>3, EmptySeq DEF LastEntry, EntryWarns
        <2>5. warnings' = Strung(CuttingByOp)[idx]
            BY <1>a, <2>1, <2>4 DEF Marks, Reported
        <2>6. Marks'
            BY <2>1 DEF Marks
        <2> QED
            BY <1>0, <2>1, <2>5, <2>6, PastOp
    <1>3. CASE Miss
        BY <1>3, ReportStays DEF Miss, book
    <1>4. CASE Fail
        BY <1>4 DEF Fail, Marks, Reported
    <1>5. CASE Plan
        <2>1. /\ pc = "plan" /\ pc' = "step" /\ UNCHANGED <<plan, idx>>
              /\ warnings' = Append(warnings, op)
            BY <1>5 DEF Plan
        <2>2. CuttingByOp' = CuttingByOp /\ op' = op
            BY <2>1 DEF CuttingByOp, plan, op
        <2>3. warnings' = warnings \o <<op>>
            BY <1>0, <2>1, AppendIsConcat
        <2>4. warnings' = Strung(CuttingByOp)[idx]
            BY <1>a, <2>1, <2>3 DEF Marks, Reported
        <2>5. Marks'
            BY <2>1, <2>2 DEF Marks
        <2>6. Reported'
            BY <2>1, <2>2, <2>4 DEF Reported, plan
        <2> QED
            BY <2>5, <2>6
    <1>6. CASE SwapStep
        BY <1>6, ReportStays DEF SwapStep, book
    <1>7. CASE CutSpin \/ CutCoolant \/ CutEntry \/ CutPass
        BY <1>7, ReportStays DEF CutSpin, CutCoolant, CutEntry, CutPass, book
    <1>8. CASE Finish
        <2>1. pc = "step" /\ pc' = "top" /\ idx' = idx + 1 /\ UNCHANGED <<plan, warnings>>
            BY <1>8 DEF Finish
        <2>2. Marks'
            BY <2>1 DEF Marks
        <2> QED
            BY <1>0, <2>1, <2>2, PastOp DEF Reported
    <1> QED
        BY <1>1, <1>2, <1>3, <1>4, <1>5, <1>6, <1>7, <1>8 DEF CuttingOp

\* Which places a change of tools leads to.
LEMMA ChangeLeads ==
    ASSUME TypeInv, Change
    PROVE  /\ UNCHANGED <<plan, idx, cancel, env, script, tape, prevTool, warnings, cache>>
           /\ Changing /\ (Changing' \/ pc' = env.back) /\ env.back \in {"mark", "step"}
    BY DEF Change, EnvLift, EnvStation, EnvCoolant, EnvStop, EnvSwap, EnvPostZ, EnvSpinUp,
       Envelope, drive, book, Changing, ChangePC, TypeInv, TypeOK, Env

LEMMA ReportStep ==
    ASSUME TypeInv, Len(cache) <= CacheCapacity, ReportInv, [Next]_vars
    PROVE  ReportInv'
    <1> USE DEF Driving, Changing, ChangePC, CutPC, EndPC, BeforeOp
    <1>0. Marks /\ Reported /\ \A i \in DOMAIN cache : EntryWarns(cache[i])
        BY DEF ReportInv, Marks
    <1>1. ASSUME NEW k \in DOMAIN cache' PROVE EntryWarns(cache'[k])
        <2>1. CASE \E j \in DOMAIN cache : cache'[k] = cache[j]
            BY <1>0, <2>1
        <2>2. CASE cache'[k] = Entry(op)
            BY <2>2 DEF Entry, EntryWarns, CacheKey
        <2> QED
            BY <2>1, <2>2, EntriesAre
    <1>2. Marks' /\ Reported'
        <2>1. CASE Generate
            <3>1. /\ pc' = "top" /\ idx' = 1 /\ warnings' = <<>> /\ queue' \in Seq(Op)
                BY <2>1, TypeStep DEF Generate, StartGenerate, TypeInv, TypeOK
            <3>2. Strung(CuttingByOp)'[0] = <<>> /\ Len(queue') \in Nat
                <4>1. (queue \in Seq(Op) => Strung(CuttingByOp)[0] = <<>>)'
                    BY ByOp, PTL
                <4> QED
                    BY <3>1, <4>1, LenProperties
            <3>3. Reported'
                BY <3>1, <3>2 DEF Reported
            <3> QED
                BY <3>1, <3>3 DEF Marks
        <2>2. CASE RequestCancel \/ UNCHANGED vars
            <3>1. UNCHANGED <<plan, idx, pc, env, warnings, cache>>
                BY <2>2 DEF RequestCancel, vars, drive, book
            <3>2. op' = op /\ CacheKey(op)' = CacheKey(op) /\ CuttingByOp' = CuttingByOp
                BY <3>1 DEF plan, op, CacheKey, CuttingByOp
            <3> QED
                BY <1>0, <3>1, <3>2 DEF Marks, Reported, LastEntry, plan
        <2>3. CASE Boundary
            BY <1>0, <2>3, ReportBoundary
        <2>4. CASE CuttingOp
            BY <1>0, <2>4, ReportCutting
        <2>5. CASE Change
            BY <1>0, <2>5, ChangeLeads, ReportStays
        <2>6. CASE End
            <3>1. CASE EndLift
                <4>1. /\ pc = "top" /\ pc' = "endstop" /\ idx > Len(queue)
                      /\ UNCHANGED <<plan, idx, warnings>>
                    BY <3>1 DEF EndLift, book
                <4>2. CuttingByOp' = CuttingByOp
                    BY <4>1 DEF plan, CuttingByOp
                <4>3. idx - 1 = Len(queue)
                    BY <1>0, <4>1, LenProperties DEF Reported, TypeInv, TypeOK
                <4>4. warnings = Strung(CuttingByOp)[Len(queue)]
                    BY <1>0, <4>1, <4>3 DEF Reported
                <4>5. Reported'
                    BY <4>1, <4>2, <4>4 DEF Reported, plan
                <4> QED
                    BY <4>1, <4>5 DEF Marks
            <3>2. CASE EndStop \/ EndCoolant \/ EndProgram
                BY <1>0, <3>2, ReportStays DEF EndStop, EndCoolant, EndProgram, Envelope, book
            <3> QED
                BY <2>6, <3>1, <3>2 DEF End
        <2> QED
            BY <2>1, <2>2, <2>3, <2>4, <2>5, <2>6 DEF Next, Advance
    <1> QED
        BY <1>1, <1>2 DEF ReportInv, Marks

LEMMA ReportInit == Init => ReportInv
    <1> SUFFICES ASSUME Init PROVE ReportInv
        OBVIOUS
    <1>1. pc = "idle" /\ cache = <<>>
        BY DEF Init
    <1> QED
        BY <1>1 DEF ReportInv, Reported, BeforeOp, Driving, Changing, ChangePC, CutPC, EndPC

\* A finished Generate has reported the planning warnings of every operation it cut,
\* in order and once, whichever it replayed and whichever it planned
\* (apply_cached_op, run_per_op).
THEOREM WarningsStayComplete == Spec => []WarningsAreComplete
    <1> DEFINE Inv == TypeInv /\ StoreInv /\ ReportInv
    <1>1. Init => Inv
        BY TypeInit, StoreInit, ReportInit
    <1>2. Inv /\ [Next]_vars => Inv'
        BY TypeStep, StoreStep, ReportStep DEF StoreInv
    <1>3. Inv => WarningsAreComplete
        BY DEF ReportInv, Reported, WarningsAreComplete, CuttingOps
    <1> QED
        BY <1>1, <1>2, <1>3, PTL DEF Spec

-----------------------------------------------------------------------------
(* The lines a body is made of *)

Guided == {"swap", "load", "cut"}

\* Neither a change of tools nor a cut, unless it is the swap of the envelope.
LEMMA CallWords ==
    ASSUME NEW p
    PROVE  /\ Silent(p).line = NoLine /\ MoveToFastZ(p).line \in {NoLine, Word("lift")}
           /\ \A w : MachineMove(p, w).line = Word(w)
           /\ ForgetZ(p).line = NoLine
           /\ RapidToEntry(p).line \in {WordWith("entry", "xy"), WordWith("entry", "xyz")}
           /\ \A s : SpindleOn(p, s).line \in {NoLine, WordWith("spin", s)}
           /\ SpindleOff(p).line \in {NoLine, Word("M5")}
           /\ \A c : Coolant(p, c).line \in {NoLine, WordWith("coolant", c)}
           /\ CoolantOff(p).line \in {NoLine, Word("M9")}
    BY DEF Silent, MoveToFastZ, MachineMove, ForgetZ, RapidToEntry, SpindleOn, SpindleOff,
       Coolant, CoolantOff, Emits

\* The step wrote its line.
Wrote ==
    /\ line' \in Line /\ mach' = Exec(mach, line')
    /\ body' = IF line' = NoLine THEN body ELSE Append(body, line')

LEMMA WriteWrote ==
    ASSUME TypeInv, TypeInv', NEW r, Write(r)
    PROVE  Wrote /\ line' = r.line
    BY DEF Write, Wrote, TypeInv, TypeOK

LEMMA ChangeWrites ==
    ASSUME TypeInv, Change
    PROVE  /\ Wrote /\ line'.w # "cut"
           /\ pc # "swap" => line'.w \notin Guided
           /\ pc = "swap" /\ Swapping => line'.w \in {"swap", "load"} /\ line'.tool = env.tool
    <1> USE DEF Guided, NoLine, Word, WordWith
    <1>0. TypeInv'
        BY ChangeType
    <1>1. CASE EnvLift
        BY <1>0, <1>1, WriteWrote, CallWords DEF EnvLift, Envelope
    <1>2. CASE EnvStation
        <2> DEFINE r == IF ~ env.first /\ proj.machine.station THEN MachineMove(post, "station")
                        ELSE Silent(post)
        <2>1. Write(r) /\ pc = "station"
            BY <1>2 DEF EnvStation, Envelope
        <2>2. r \in {MachineMove(post, "station"), Silent(post)}
            OBVIOUS
        <2> HIDE DEF r
        <2>a. MachineMove(post, "station").line = Word("station") /\ Silent(post).line = NoLine
            BY CallWords, Zenon
        <2>3. r.line \in {Word("station"), NoLine}
            BY <2>2, <2>a, Zenon
        <2> QED
            BY <1>0, <2>1, <2>3, WriteWrote
    <1>3. CASE EnvCoolant
        BY <1>0, <1>3, WriteWrote, CallWords DEF EnvCoolant, Envelope
    <1>4. CASE EnvStop
        BY <1>0, <1>4, WriteWrote, CallWords DEF EnvStop, Envelope
    <1>5. CASE EnvSwap
        <2>1. proj.machine.change \in {"Atc", "ManualM0Pause", "Ignore"}
            BY DEF TypeInv, TypeOK, Project, MachineConfig
        <2>2. /\ SwapLine.line.w \in {"swap", "load", "none"}
              /\ Swapping => SwapLine.line.w \in {"swap", "load"} /\ SwapLine.line.tool = env.tool
            BY <2>1 DEF SwapLine, ToolWord, Raw, Silent, Emits, SwapWord, Swapping
        <2>3. Wrote /\ line' = SwapLine.line /\ pc = "swap"
            BY <1>0, <1>5, WriteWrote DEF EnvSwap
        <2> QED
            BY <2>2, <2>3
    <1>6. CASE EnvPostZ
        <2> DEFINE r == CASE proj.machine.postZ = "sensor" -> MachineMove(post, "sensor")
                          [] proj.machine.postZ = "probe" /\ ~ env.first -> MachineMove(post, "probe")
                          [] proj.machine.postZ = "forget" -> ForgetZ(post)
                          [] OTHER -> Silent(post)
        <2>1. Write(r) /\ pc = "postz"
            BY <1>6 DEF EnvPostZ, Envelope
        <2>2. env.first \in BOOLEAN
            BY DEF TypeInv, TypeOK, Env
        <2>3. r \in {MachineMove(post, "sensor"), MachineMove(post, "probe"), ForgetZ(post), Silent(post)}
            BY <2>2
        <2> HIDE DEF r
        <2>a. /\ MachineMove(post, "sensor").line = Word("sensor")
              /\ MachineMove(post, "probe").line = Word("probe")
              /\ ForgetZ(post).line = NoLine /\ Silent(post).line = NoLine
            BY CallWords, Zenon
        <2>4. r.line \in {Word("sensor"), Word("probe"), NoLine}
            BY <2>3, <2>a, Zenon
        <2> QED
            BY <1>0, <2>1, <2>4, WriteWrote
    <1>7. CASE EnvSpinUp
        BY <1>0, <1>7, WriteWrote, CallWords DEF EnvSpinUp, Envelope
    <1> QED
        BY <1>1, <1>2, <1>3, <1>4, <1>5, <1>6, <1>7 DEF Change

LEMMA DriverWrites ==
    ASSUME TypeInv, CutSpin \/ CutCoolant \/ CutEntry
    PROVE  /\ Wrote /\ line'.w \notin Guided /\ pc' \in CutPC
           /\ UNCHANGED <<plan, idx, cancel, env, script, tape, prevTool, warnings, cache>>
           /\ pc = "step" => script # <<>> /\ Head(script).do = "cut"
           /\ pc \in {"step"} \cup CutPC
    <1> USE DEF Guided, CutPC
    <1>0. TypeInv'
        BY CuttingType DEF CuttingOp
    <1>1. CASE CutSpin
        <2>1. Wrote /\ line' = SpindleOn(post, Head(script).spin).line
            BY <1>0, <1>1, WriteWrote DEF CutSpin
        <2>2. line' \in {NoLine, WordWith("spin", Head(script).spin)}
            BY <2>1, CallWords, Zenon
        <2> QED
            BY <1>1, <2>1, <2>2 DEF CutSpin, drive, book, NoLine, Word, WordWith
    <1>2. CASE CutCoolant
        <2>1. Wrote /\ line' = Coolant(post, ToolCoolant[Head(script).tool]).line
            BY <1>0, <1>2, WriteWrote DEF CutCoolant
        <2>2. line' \in {NoLine, WordWith("coolant", ToolCoolant[Head(script).tool])}
            BY <2>1, CallWords, Zenon
        <2> QED
            BY <1>2, <2>1, <2>2 DEF CutCoolant, drive, book, NoLine, Word, WordWith
    <1>3. CASE CutEntry
        <2>1. Wrote /\ line' = RapidToEntry(post).line
            BY <1>0, <1>3, WriteWrote DEF CutEntry
        <2> QED
            BY <1>3, <2>1, CallWords DEF CutEntry, drive, book, NoLine, Word, WordWith
    <1> QED
        BY <1>1, <1>2, <1>3

-----------------------------------------------------------------------------
(* The cuts of a body *)

CutRecord == [tool : Tools, spin : Spins]
CutOfLine(l) == IF l.w = "cut" THEN <<[tool |-> l.tool, spin |-> l.v]>> ELSE <<>>
CutOfStep(s) == IF s.do = "cut" THEN <<[tool |-> s.tool, spin |-> s.spin]>> ELSE <<>>

LEMMA CutsByLineIs ==
    ASSUME NEW b \in Seq(Line)
    PROVE  /\ Len(b) \in Nat /\ Len(CutsByLine(b)) = Len(b)
           /\ \A i \in 1 .. Len(b) : CutsByLine(b)[i] = CutOfLine(b[i])
           /\ \A i \in 1 .. Len(b) : CutsByLine(b)[i] \in Seq(CutRecord)
    <1>1. Len(b) \in Nat /\ \A i \in 1 .. Len(b) : b[i] \in Line
        BY LenProperties, ElementOfSeq
    <1>2. /\ Len(CutsByLine(b)) = Len(b)
          /\ \A i \in 1 .. Len(b) : CutsByLine(b)[i] = CutOfLine(b[i])
        BY <1>1 DEF CutsByLine, CutOfLine
    <1>3. \A l \in Line : CutOfLine(l) \in Seq(CutRecord)
        <2>1. ASSUME NEW l \in Line, l.w = "cut"
              PROVE  [tool |-> l.tool, spin |-> l.v] \in CutRecord
            <3>1. l.tool \in Tools /\ l.v \in Spins
                BY <2>1 DEF Line
            <3> QED
                BY <3>1 DEF CutRecord
        <2>2. \A c \in CutRecord : <<c>> \in Seq(CutRecord)
            OBVIOUS
        <2>3. <<>> \in Seq(CutRecord)
            OBVIOUS
        <2> QED
            BY <2>1, <2>2, <2>3, Zenon DEF CutOfLine
    <1> QED
        BY <1>1, <1>2, <1>3

LEMMA CutsByStepIs ==
    ASSUME NEW s \in Seq(Step)
    PROVE  /\ Len(s) \in Nat /\ Len(CutsByStep(s)) = Len(s)
           /\ \A i \in 1 .. Len(s) : CutsByStep(s)[i] = CutOfStep(s[i])
           /\ \A i \in 1 .. Len(s) : CutsByStep(s)[i] \in Seq(CutRecord)
    <1>1. Len(s) \in Nat /\ \A i \in 1 .. Len(s) : s[i] \in Step
        BY LenProperties, ElementOfSeq
    <1>2. /\ Len(CutsByStep(s)) = Len(s)
          /\ \A i \in 1 .. Len(s) : CutsByStep(s)[i] = CutOfStep(s[i])
        BY <1>1 DEF CutsByStep, CutOfStep
    <1>3. \A x \in Step : CutOfStep(x) \in Seq(CutRecord)
        <2>1. ASSUME NEW x \in Step
              PROVE  [tool |-> x.tool, spin |-> x.spin] \in CutRecord
            BY DEF CutRecord, Step
        <2>2. \A c \in CutRecord : <<c>> \in Seq(CutRecord)
            OBVIOUS
        <2>3. <<>> \in Seq(CutRecord)
            OBVIOUS
        <2> QED
            BY <2>1, <2>2, <2>3, Zenon DEF CutOfStep
    <1> QED
        BY <1>1, <1>2, <1>3

LEMMA CutsAppend ==
    ASSUME NEW b \in Seq(Line), NEW l \in Line
    PROVE  CutsIn(Append(b, l)) = CutsIn(b) \o CutOfLine(l) /\ CutsIn(b) \in Seq(CutRecord)
    <1> DEFINE c == Append(b, l)
    <1>1. /\ c \in Seq(Line) /\ Len(c) = Len(b) + 1 /\ c[Len(b) + 1] = l
          /\ \A i \in 1 .. Len(b) : c[i] = b[i]
        BY AppendProperties
    <1> HIDE DEF c
    <1>2. Len(b) \in Nat /\ Len(CutsByLine(b)) = Len(b) /\ Len(CutsByLine(c)) = Len(b) + 1
        BY <1>1, CutsByLineIs
    <1>3. \A i \in 1 .. Len(b) : CutsByLine(b)[i] = CutsByLine(c)[i]
        BY <1>1, <1>2, CutsByLineIs
    <1>4. Strung(CutsByLine(b))[Len(b)] = Strung(CutsByLine(c))[Len(b)]
        <2> DEFINE ss == CutsByLine(b)
                   tt == CutsByLine(c)
                   n == Len(b)
        <2>1. /\ n \in Nat /\ Len(ss) \in Nat /\ Len(tt) \in Nat /\ n <= Len(ss) /\ n <= Len(tt)
              /\ \A i \in 1 .. n : ss[i] = tt[i]
            BY <1>2, <1>3
        <2> HIDE DEF ss, tt, n
        <2>2. Strung(ss)[n] = Strung(tt)[n]
            BY <2>1, StrungSame
        <2> QED
            BY <2>2 DEF ss, tt, n
    <1>5. Len(b) < Len(CutsByLine(c)) /\ Len(CutsByLine(c)) \in Nat
        BY <1>2
    <1>6. Strung(CutsByLine(c))[Len(b) + 1]
              = Strung(CutsByLine(c))[Len(b)] \o CutsByLine(c)[Len(b) + 1]
        BY <1>2, <1>5, StrungNext
    <1>7. CutsByLine(c)[Len(b) + 1] = CutOfLine(l)
        BY <1>1, <1>2, CutsByLineIs
    <1>8. CutsIn(c) = CutsIn(b) \o CutOfLine(l)
        BY <1>1, <1>4, <1>6, <1>7 DEF CutsIn
    <1>9. CutsIn(b) \in Seq(CutRecord)
        BY <1>2, CutsByLineIs, StrungType DEF CutsIn
    <1> QED
        BY <1>8, <1>9 DEF c

LEMMA CutsOfNothing == CutsIn(<<>>) = <<>>
    <1>1. <<>> \in Seq(Line) /\ Len(<<>>) = 0
        OBVIOUS
    <1>2. Len(CutsByLine(<<>>)) = 0
        BY <1>1, CutsByLineIs
    <1> QED
        BY <1>1, <1>2, StrungStart DEF CutsIn

LEMMA OtherLines ==
    ASSUME TypeInv, Wrote, line'.w # "cut"
    PROVE  CutsIn(body') = CutsIn(body)
    <1>1. body \in Seq(Line)
        BY DEF TypeInv, TypeOK
    <1>2. CASE line' = NoLine
        BY <1>2 DEF Wrote
    <1>3. CASE line' # NoLine
        <2>1. CutsIn(Append(body, line')) = CutsIn(body) \o <<>> /\ CutsIn(body) \in Seq(CutRecord)
            BY <1>1, CutsAppend DEF Wrote, CutOfLine
        <2> QED
            BY <1>3, <2>1, ConcatEmptySeq DEF Wrote
    <1> QED
        BY <1>2, <1>3

-----------------------------------------------------------------------------
(* A body cuts what its key stands for *)

\* The key of an operation without a spot tool of its own holds its script.
LEMMA KeyHoldsScript ==
    ASSUME proj \in Project, NEW o \in Op, o.tool \in Tools, SpotsWithItsTool(o)
    PROVE  KeySteps(CacheKey(o)) = Script(o)
    <1> DEFINE k == CacheKey(o)
               own == IF o.rough THEN <<Cut(o, o.tool)>> ELSE <<>>
    <1>1. k.op = o /\ k.tool = proj.lib[o.tool] /\ (HasFinish(o) => k.finish = proj.lib[o.finish])
        BY DEF CacheKey
    <1>2. \A t : KeyCut(o, t, proj.lib[t]) = Cut(o, t)
        BY DEF KeyCut, Cut, Resolved
    <1>3. own = IF o.rough THEN <<KeyCut(o, o.tool, k.tool)>> ELSE <<>>
        BY <1>1, <1>2
    <1>4. SpotPass(o) = IF o.spot = NoTool THEN <<>> ELSE own
        BY DEF SpotPass, SpotsWithItsTool
    <1>5. FinishPass(o) =
              IF Swaps(o) THEN <<SwapTo(o.finish, IF o.spin # Off THEN o.spin ELSE k.finish),
                                 KeyCut(o, o.finish, k.finish)>>
              ELSE <<>>
        BY <1>1, <1>2 DEF FinishPass, Swaps, Resolved
    <1> HIDE DEF k
    <1>6. KeySteps(k) = (IF o.spot = NoTool THEN <<>> ELSE own) \o own \o FinishPass(o)
        BY <1>1, <1>3, <1>5 DEF KeySteps
    <1>7. Script(o) = SpotPass(o) \o own \o FinishPass(o)
        BY DEF Script
    <1> HIDE DEF own
    <1> QED
        BY <1>4, <1>6, <1>7 DEF k

\* One step further in a script.
LEMMA NextStep ==
    ASSUME NEW s \in Seq(Step), NEW k \in 0 .. Len(s), NEW rest \in Seq(Step),
           rest = SubSeq(s, k + 1, Len(s)), rest # <<>>
    PROVE  /\ k + 1 \in 0 .. Len(s) /\ Head(rest) = s[k + 1]
           /\ Tail(rest) = SubSeq(s, k + 2, Len(s))
           /\ Strung(CutsByStep(s))[k + 1] = Strung(CutsByStep(s))[k] \o CutOfStep(s[k + 1])
           /\ Strung(CutsByStep(s))[k] \in Seq(CutRecord)
    <1> DEFINE n == Len(s)
    <1>1. n \in Nat
        BY LenProperties
    <1>2. /\ rest \in Seq(Step) /\ Len(rest) = n - k
          /\ \A i \in 1 .. n - k : rest[i] = s[k + i]
        BY <1>1, SubSeqProperties
    <1>3. k < n /\ Len(rest) # 0
        BY <1>1, <1>2, EmptySeq
    <1>4. Head(rest) = rest[1] /\ rest[1] = s[k + 1]
        BY <1>1, <1>2, <1>3, HeadTailProperties
    <1>5. /\ Tail(rest) \in Seq(Step) /\ Len(Tail(rest)) = n - (k + 1)
          /\ \A i \in 1 .. n - (k + 1) : Tail(rest)[i] = rest[i + 1]
        BY <1>1, <1>2, <1>3, HeadTailProperties
    <1>6. /\ SubSeq(s, k + 2, n) \in Seq(Step) /\ Len(SubSeq(s, k + 2, n)) = n - (k + 1)
          /\ \A i \in 1 .. n - (k + 1) : SubSeq(s, k + 2, n)[i] = s[k + 1 + i]
        BY <1>1, <1>3, SubSeqProperties
    <1>7. \A i \in 1 .. n - (k + 1) : Tail(rest)[i] = SubSeq(s, k + 2, n)[i]
        <2> SUFFICES ASSUME NEW i \in 1 .. n - (k + 1)
                     PROVE  Tail(rest)[i] = SubSeq(s, k + 2, n)[i]
            OBVIOUS
        <2>1. i + 1 \in 1 .. n - k /\ k + (i + 1) = k + 1 + i
            BY <1>1
        <2>2. rest[i + 1] = s[k + 1 + i]
            BY <1>2, <2>1
        <2> QED
            BY <1>5, <1>6, <2>2
    <1>8. Tail(rest) = SubSeq(s, k + 2, n)
        BY <1>1, <1>5, <1>6, <1>7, SeqEqual
    <1>9. /\ Len(CutsByStep(s)) = n /\ CutsByStep(s)[k + 1] = CutOfStep(s[k + 1])
          /\ Strung(CutsByStep(s))[k] \in Seq(CutRecord)
        <2>1. k + 1 \in 1 .. n
            BY <1>1, <1>3
        <2> QED
            BY <1>1, <2>1, CutsByStepIs, StrungType
    <1>10. Strung(CutsByStep(s))[k + 1] = Strung(CutsByStep(s))[k] \o CutsByStep(s)[k + 1]
        <2> DEFINE ss == CutsByStep(s)
        <2>1. Len(ss) \in Nat /\ k \in Nat /\ k < Len(ss)
            BY <1>1, <1>3, <1>9
        <2> HIDE DEF ss
        <2>2. Strung(ss)[k + 1] = Strung(ss)[k] \o ss[k + 1]
            BY <2>1, StrungNext
        <2> QED
            BY <2>2, Zenon DEF ss
    <1> QED
        BY <1>1, <1>3, <1>4, <1>8, <1>9, <1>10

\* The driver is k steps into the script, and the body holds their cuts.
Driven(k) ==
    /\ k \in 0 .. Len(Script(op)) /\ script = SubSeq(Script(op), k + 1, Len(Script(op)))
    /\ CutsIn(body) = Strung(CutsByStep(Script(op)))[k]

DrivenInv == Driving => \E k : Driven(k)

\* Of a step that stays with its operation, or has none in hand.
LEMMA DrivenStays ==
    ASSUME DrivenInv, Driving' => Driving /\ UNCHANGED <<plan, idx, script>>,
           Driving' => CutsIn(body') = CutsIn(body)
    PROVE  DrivenInv'
    <1> SUFFICES ASSUME Driving' PROVE (\E k : Driven(k))'
        BY DEF DrivenInv
    <1>1. PICK k : Driven(k)
        BY DEF DrivenInv
    <1>2. Script(op)' = Script(op)
        BY DEF plan, op, Script, SpotPass, FinishPass, Cut, SwapTo, Resolved
    <1>3. Driven(k)'
        BY <1>1, <1>2 DEF Driven
    <1> QED
        BY <1>3

\* The driver takes a step of its script.
LEMMA DrivenOn ==
    ASSUME TypeInv, DrivenInv, pc \in {"step"} \cup CutPC, script # <<>>,
           UNCHANGED <<plan, idx>>, script' = Tail(script),
           CutsIn(body') = CutsIn(body) \o CutOfStep(Head(script))
    PROVE  DrivenInv'
    <1>1. op \in Op /\ op.tool \in Tools /\ Driving
        BY OpInHand DEF TypeInv, Placed, Driving, OpPC, CutPC
    <1>2. Script(op) \in Seq(Step)
        BY <1>1, ProjectType, ScriptType DEF TypeInv
    <1>3. PICK k : Driven(k)
        BY <1>1 DEF DrivenInv
    <1> DEFINE s == Script(op)
    <1>4. Script(op)' = s
        BY DEF plan, op, Script, SpotPass, FinishPass, Cut, SwapTo, Resolved
    <1> HIDE DEF s
    <1>5. /\ CutsIn(body) = Strung(CutsByStep(s))[k] /\ k \in 0 .. Len(s)
          /\ script = SubSeq(s, k + 1, Len(s)) /\ s \in Seq(Step)
          /\ script \in Seq(Step) /\ script # <<>>
        BY <1>2, <1>3 DEF Driven, s, TypeInv, TypeOK
    <1>6. /\ k + 1 \in 0 .. Len(s) /\ Head(script) = s[k + 1]
          /\ Tail(script) = SubSeq(s, k + 2, Len(s))
          /\ Strung(CutsByStep(s))[k + 1] = Strung(CutsByStep(s))[k] \o CutOfStep(s[k + 1])
        BY <1>5, NextStep, Zenon
    <1>7. k + 1 + 1 = k + 2
        BY <1>5
    <1>8. Driven(k + 1)'
        BY <1>4, <1>5, <1>6, <1>7 DEF Driven
    <1> QED
        BY <1>8 DEF DrivenInv

FreshParts ==
    /\ \A i \in DOMAIN queue : SpotsWithItsTool(queue[i])
    /\ \A i \in DOMAIN cache : EntryCuts(cache[i])
    /\ pc \in {"lookup", "plan"} => body = <<>>
    /\ pc \in CutPC => Head(script).do = "cut"

LEMMA FreshIs == FreshInv <=> FreshParts /\ DrivenInv
    BY DEF FreshInv, FreshParts, DrivenInv, Driven

\* Every operation of the queue is one of the project's.
LEMMA QueueIsTheProjects ==
    ASSUME Generate
    PROVE  \A i \in DOMAIN queue' : \E p \in Projects : \E j \in DOMAIN p.ops : queue'[i] = p.ops[j]
    <1>1. PICK p \in Projects : StartGenerate(p)
        BY DEF Generate
    <1> DEFINE n == Len(p.ops)
    <1>2. PICK perm \in [1 .. n -> 1 .. n] : queue' = [i \in 1 .. n |-> p.ops[perm[i]]]
        BY <1>1 DEF StartGenerate
    <1>3. p.ops \in Seq(Op)
        BY PerOpAssumption DEF Project
    <1>4. DOMAIN p.ops = 1 .. n
        BY <1>3, LenProperties
    <1> QED
        BY <1>2, <1>4

LEMMA PlanStays ==
    ASSUME [Next]_vars, ~ Generate
    PROVE  UNCHANGED plan
    BY DEF Next, RequestCancel, Advance, Boundary, CuttingOp, Change,
       End, BeginOp, Mark, PlayTape, EndRaw, Cancelled, Hit, EndReplay, Miss, Fail, Plan, SwapStep,
       CutSpin, CutCoolant, CutEntry, CutPass, Finish, EnvLift, EnvStation, EnvCoolant, EnvStop,
       EnvSwap, EnvPostZ, EnvSpinUp, EndLift, EndStop, EndCoolant, EndProgram, Envelope, vars

\* A body starts empty where its operation is looked up.
LEMMA BodyStarts ==
    ASSUME TypeInv, pc \in {"lookup", "plan"} => body = <<>>, [Next]_vars
    PROVE  (pc \in {"lookup", "plan"} => body = <<>>)'
    <1>1. CASE Generate \/ RequestCancel \/ UNCHANGED vars
        BY <1>1 DEF Generate, StartGenerate, RequestCancel, vars, output
    <1>2. CASE Boundary
        BY <1>2 DEF Boundary, BeginOp, Mark, PlayTape, EndRaw, Cancelled
    <1>3. CASE CuttingOp
        BY <1>3 DEF CuttingOp, Hit, EndReplay, Miss, Fail, Plan, SwapStep, CutSpin, CutCoolant,
           CutEntry, CutPass, Finish
    <1>4. CASE Change
        BY <1>4, ChangeLeads DEF Changing, ChangePC
    <1>5. CASE End
        BY <1>5 DEF End, EndLift, EndStop, EndCoolant, EndProgram, Envelope
    <1> QED
        BY <1>1, <1>2, <1>3, <1>4, <1>5 DEF Next, Advance

\* What is being cut is a cut.
LEMMA CutsAreCuts ==
    ASSUME TypeInv, pc \in CutPC => Head(script).do = "cut", [Next]_vars
    PROVE  (pc \in CutPC => Head(script).do = "cut")'
    <1> USE DEF CutPC
    <1>1. CASE Generate \/ RequestCancel \/ UNCHANGED vars
        BY <1>1 DEF Generate, StartGenerate, RequestCancel, vars, drive
    <1>2. CASE Boundary
        BY <1>2 DEF Boundary, BeginOp, Mark, PlayTape, EndRaw, Cancelled
    <1>3. CASE CuttingOp
        BY <1>3 DEF CuttingOp, Hit, EndReplay, Miss, Fail, Plan, SwapStep, CutSpin, CutCoolant,
           CutEntry, CutPass, Finish, drive
    <1>4. CASE Change
        BY <1>4, ChangeLeads DEF Changing, ChangePC
    <1>5. CASE End
        BY <1>5 DEF End, EndLift, EndStop, EndCoolant, EndProgram, Envelope
    <1> QED
        BY <1>1, <1>2, <1>3, <1>4, <1>5 DEF Next, Advance

LEMMA FinishFresh ==
    ASSUME TypeInv, FreshInv, Finish, op \notin Oversized
    PROVE  EntryCuts(Entry(op))
    <1>1. op \in Op /\ op.tool \in Tools /\ Driving /\ script = <<>>
        BY FinishStores, OpInHand DEF Finish, OpPC
    <1>2. Script(op) \in Seq(Step) /\ proj \in Project
        BY <1>1, ProjectType, ScriptType DEF TypeInv
    <1>3. SpotsWithItsTool(op)
        BY OpInHand DEF Finish, OpPC, FreshInv, op
    <1>4. PICK k : Driven(k)
        BY <1>1, FreshIs DEF DrivenInv
    <1> DEFINE s == Script(op)
    <1>5. Len(s) \in Nat /\ k \in 0 .. Len(s) /\ SubSeq(s, k + 1, Len(s)) = <<>> /\ s \in Seq(Step)
          /\ CutsIn(body) = Strung(CutsByStep(s))[k]
        BY <1>1, <1>2, <1>4, LenProperties DEF Driven
    <1> HIDE DEF s
    <1>6. Len(SubSeq(s, k + 1, Len(s))) = Len(s) - k
        BY <1>5, SubSeqProperties
    <1>a. Len(SubSeq(s, k + 1, Len(s))) = 0
        BY <1>5, Len(<<>>) = 0, Zenon
    <1>7. k = Len(s)
        BY <1>5, <1>6, <1>a
    <1>8. CutsIn(body) = CutsOf(s)
        BY <1>5, <1>7 DEF CutsOf
    <1>9. s = KeySteps(CacheKey(op))
        BY <1>1, <1>2, <1>3, KeyHoldsScript DEF s
    <1> QED
        BY <1>8, <1>9 DEF EntryCuts, Entry, Captured

LEMMA DrivenStep ==
    ASSUME TypeInv, TypeInv', FreshInv, [Next]_vars
    PROVE  DrivenInv'
    <1> USE DEF Driving, Changing, ChangePC, CutPC, Ended, EndPC, BoundaryPC
    <1>0. DrivenInv
        BY FreshIs
    <1>1. CASE Generate \/ RequestCancel \/ UNCHANGED vars
        BY <1>0, <1>1, DrivenStays DEF Generate, StartGenerate, RequestCancel, vars, drive, output
    <1>2. CASE Boundary
        BY <1>0, <1>2, DrivenStays DEF Boundary, BeginOp, Mark, PlayTape, EndRaw, Cancelled
    <1>3. CASE Hit \/ EndReplay \/ Miss \/ Fail \/ Finish
        BY <1>0, <1>3, DrivenStays DEF Hit, EndReplay, Miss, Fail, Finish
    <1>4. CASE Plan
        <2>1. /\ op \in Op /\ op.tool \in Tools /\ proj \in Project /\ body = <<>>
              /\ UNCHANGED <<plan, idx, body>> /\ script' = Script(op)
            BY <1>4, OpInHand, ProjectType DEF Plan, OpPC, TypeInv, FreshInv
        <2> DEFINE s == Script(op)
        <2>2. s \in Seq(Step) /\ Len(s) \in Nat
            BY <2>1, ScriptType, LenProperties
        <2>3. Script(op)' = s
            BY <2>1 DEF plan, op, Script, SpotPass, FinishPass, Cut, SwapTo, Resolved
        <2> HIDE DEF s
        <2>4. s = SubSeq(s, 1, Len(s))
            <3>1. /\ SubSeq(s, 1, Len(s)) \in Seq(Step) /\ Len(SubSeq(s, 1, Len(s))) = Len(s)
                  /\ \A i \in 1 .. Len(s) : SubSeq(s, 1, Len(s))[i] = s[i]
                BY <2>2, SubSeqProperties
            <3> QED
                BY <2>2, <3>1, SeqEqual
        <2>5. Strung(CutsByStep(s))[0] = <<>>
            BY <2>2, CutsByStepIs, StrungStart
        <2>6. CutsIn(body') = <<>>
            BY <2>1, CutsOfNothing
        <2>7. Driven(0)'
            <3>1. script' = SubSeq(s, 0 + 1, Len(s)) /\ 0 \in 0 .. Len(s)
                BY <2>1, <2>2, <2>4 DEF s
            <3> QED
                BY <2>3, <2>5, <2>6, <3>1 DEF Driven
        <2> QED
            BY <2>7 DEF DrivenInv
    <1>5. CASE SwapStep
        <2>1. /\ pc = "step" /\ script # <<>> /\ Head(script).do = "swap" /\ script' = Tail(script)
              /\ UNCHANGED <<plan, idx, body>>
            BY <1>5 DEF SwapStep, output
        <2>2. CutOfStep(Head(script)) = <<>>
            BY <2>1 DEF CutOfStep
        <2>3. body \in Seq(Line) /\ NoLine \in Line
            BY Lines DEF TypeInv, TypeOK
        <2>4. CutsIn(body) \in Seq(CutRecord)
            BY <2>3, CutsAppend
        <2>5. CutsIn(body') = CutsIn(body) \o CutOfStep(Head(script))
            BY <2>1, <2>2, <2>4, ConcatEmptySeq
        <2> QED
            BY <1>0, <2>1, <2>5, DrivenOn
    <1>6. CASE CutSpin \/ CutCoolant \/ CutEntry
        <2>1. CutsIn(body') = CutsIn(body)
            BY <1>6, DriverWrites, OtherLines DEF Guided
        <2> QED
            BY <1>0, <1>6, <2>1, DriverWrites, DrivenStays
    <1>7. CASE CutPass
        <2> DEFINE l == [w |-> "cut", tool |-> Head(script).tool, v |-> Head(script).spin]
        <2>1. /\ pc = "cut" /\ script' = Tail(script) /\ UNCHANGED <<plan, idx>>
              /\ Write(Emits(l, post))
            BY <1>7 DEF CutPass
        <2>2. script # <<>> /\ Head(script) \in Step
            BY <2>1, HeadTailProperties DEF TypeInv, TypeOK, Placed
        <2>3. Head(script).do = "cut"
            BY <2>1 DEF FreshInv
        <2>4. l \in Line /\ l # NoLine
            BY <2>2, Lines DEF Step, NoLine, Word, WordWith
        <2>5. body' = Append(body, l)
            BY <2>1, <2>4 DEF Write, Emits
        <2>6. CutOfLine(l) = CutOfStep(Head(script))
            BY <2>3 DEF CutOfLine, CutOfStep
        <2> HIDE DEF l
        <2>7. CutsIn(body') = CutsIn(body) \o CutOfStep(Head(script))
            BY <2>4, <2>5, <2>6, CutsAppend DEF TypeInv, TypeOK
        <2> QED
            BY <1>0, <2>1, <2>2, <2>7, DrivenOn
    <1>8. CASE Change
        <2>1. CutsIn(body') = CutsIn(body)
            BY <1>8, ChangeWrites, OtherLines
        <2> QED
            BY <1>0, <1>8, <2>1, ChangeLeads, DrivenStays
    <1>9. CASE End
        BY <1>0, <1>9, DrivenStays DEF End, EndLift, EndStop, EndCoolant, EndProgram, Envelope
    <1> QED
        BY <1>1, <1>2, <1>3, <1>4, <1>5, <1>6, <1>7, <1>8, <1>9 DEF Next, Advance, CuttingOp

LEMMA FreshStep ==
    ASSUME SpotsAreKeyed, TypeInv, TypeInv', Len(cache) <= CacheCapacity, FreshInv, [Next]_vars
    PROVE  FreshInv'
    <1>1. ASSUME NEW i \in DOMAIN queue' PROVE SpotsWithItsTool(queue'[i])
        <2>1. CASE Generate
            BY <1>1, <2>1, QueueIsTheProjects DEF SpotsAreKeyed
        <2>2. CASE ~ Generate
            <3>1. UNCHANGED plan
                BY <2>2, PlanStays
            <3> QED
                BY <1>1, <3>1 DEF plan, FreshInv
        <2> QED
            BY <2>1, <2>2
    <1>2. ASSUME NEW k \in DOMAIN cache' PROVE EntryCuts(cache'[k])
        BY EntriesAre, FinishFresh DEF FreshInv
    <1>3. (pc \in {"lookup", "plan"} => body = <<>>)'
        BY BodyStarts DEF FreshInv
    <1>4. (pc \in CutPC => Head(script).do = "cut")'
        BY CutsAreCuts DEF FreshInv
    <1>5. FreshParts'
        BY <1>1, <1>2, <1>3, <1>4 DEF FreshParts
    <1>6. DrivenInv'
        BY DrivenStep
    <1>7. FreshInv' <=> FreshParts' /\ DrivenInv'
        BY FreshIs, PTL
    <1> QED
        BY <1>5, <1>6, <1>7

LEMMA FreshInit == Init => FreshInv
    <1>1. Init => queue = <<>> /\ cache = <<>> /\ pc = "idle"
        BY DEF Init
    <1> QED
        BY <1>1 DEF FreshInv, Driving, Changing, ChangePC, CutPC

LEMMA FreshShows ==
    ASSUME TypeInv, FreshInv
    PROVE  HitIsFresh
    <1> SUFFICES ASSUME pc = "lookup", NEW i \in CachedAt(op)
                 PROVE  CutsIn(cache[i].body) = CutsPlanned(op)
        BY DEF HitIsFresh
    <1>1. op.tool \in Tools /\ i \in DOMAIN cache /\ cache[i].key = CacheKey(op)
        BY DEF CachedAt, Keyed
    <1>2. op \in Op /\ proj \in Project /\ SpotsWithItsTool(op)
        BY OpInHand, ProjectType DEF OpPC, TypeInv, FreshInv, op
    <1>3. CutsIn(cache[i].body) = CutsOf(KeySteps(CacheKey(op)))
        BY <1>1 DEF FreshInv, EntryCuts
    <1>4. KeySteps(CacheKey(op)) = Script(op)
        BY <1>1, <1>2, KeyHoldsScript
    <1> QED
        BY <1>3, <1>4 DEF CutsOf, CutsPlanned

\* A cached body that a run finds holds the cuts, tools and spindle words that planning
\* the operation from the current project would give, whatever was edited since it was
\* stored, for operations that need no spot tool of their own: that tool's library
\* entry is no part of the key (compute_op_cache_key).
THEOREM HitsAreFresh ==
    ASSUME SpotsAreKeyed
    PROVE  Spec => []HitIsFresh
    <1> DEFINE Inv == TypeInv /\ StoreInv /\ FreshInv
    <1>1. Init => Inv
        BY TypeInit, StoreInit, FreshInit
    <1>2. Inv /\ [Next]_vars => Inv'
        BY TypeStep, StoreStep, FreshStep DEF StoreInv
    <1>3. Inv => HitIsFresh
        BY FreshShows
    <1> QED
        BY <1>1, <1>2, <1>3, PTL DEF Spec

-----------------------------------------------------------------------------
(* A body cuts with the tools it changes to *)

LEMMA TracedEmpty ==
    /\ \A t \in Tools : Traced(<<>>, t, t)
    /\ \A t, u : Traced(<<>>, t, u) => t = u
    <1>1. Len(<<>>) = 0
        OBVIOUS
    <1>2. ASSUME NEW t \in Tools PROVE Traced(<<>>, t, t)
        <2> DEFINE h == [i \in 0 .. 0 |-> t]
        <2>1. h \in [0 .. 0 -> Tools] /\ h[0] = t
            OBVIOUS
        <2> HIDE DEF h
        <2>2. Runs(<<>>, h)
            BY <1>1 DEF Runs
        <2>3. \E g \in [0 .. Len(<<>>) -> Tools] :
                  g[0] = t /\ g[Len(<<>>)] = t /\ Runs(<<>>, g)
            BY <1>1, <2>1, <2>2
        <2> QED
            BY <2>3 DEF Traced
    <1>3. ASSUME NEW t, NEW u, Traced(<<>>, t, u) PROVE t = u
        BY <1>1, <1>3 DEF Traced
    <1> QED
        BY <1>2, <1>3

\* One more line of a body.
ToolAfter(l, t) == IF l.w \in {"swap", "load"} THEN l.tool ELSE t

LEMMA TracedAppend ==
    ASSUME NEW b \in Seq(Line), NEW l \in Line, NEW t, NEW u, Traced(b, t, u),
           ToolAfter(l, u) \in Tools, l.w = "cut" => l.tool = u
    PROVE  Traced(Append(b, l), t, ToolAfter(l, u))
    <1> DEFINE n == Len(b)
               c == Append(b, l)
    <1>1. n \in Nat /\ Len(c) = n + 1 /\ c[n + 1] = l /\ \A i \in 1 .. n : c[i] = b[i]
        BY AppendProperties, LenProperties
    <1>2. PICK h \in [0 .. n -> Tools] : h[0] = t /\ h[n] = u /\ Runs(b, h)
        BY DEF Traced
    <1> DEFINE g == [i \in 0 .. n + 1 |-> IF i = n + 1 THEN ToolAfter(l, u) ELSE h[i]]
    <1>3. g \in [0 .. n + 1 -> Tools]
        BY <1>1, <1>2
    <1>4. g[0] = t /\ g[n + 1] = ToolAfter(l, u) /\ \A i \in 0 .. n : g[i] = h[i]
        BY <1>1, <1>2
    <1> HIDE DEF c, g
    <1>5. ASSUME NEW i \in 1 .. n + 1
          PROVE  /\ g[i] = IF c[i].w \in {"swap", "load"} THEN c[i].tool ELSE g[i - 1]
                 /\ c[i].w = "cut" => c[i].tool = g[i]
        <2>1. CASE i = n + 1
            <3>1. i - 1 = n /\ n \in 0 .. n
                BY <1>1, <2>1
            <3> QED
                BY <1>1, <1>2, <1>4, <2>1, <3>1 DEF ToolAfter
        <2>2. CASE i # n + 1
            <3>1. i \in 1 .. n /\ i \in 0 .. n /\ i - 1 \in 0 .. n
                BY <1>1, <2>2
            <3> QED
                BY <1>1, <1>2, <1>4, <3>1 DEF Runs
        <2> QED
            BY <2>1, <2>2
    <1>6. Runs(c, g)
        BY <1>1, <1>5 DEF Runs
    <1>7. Traced(c, t, ToolAfter(l, u))
        BY <1>1, <1>3, <1>4, <1>6 DEF Traced
    <1> QED
        BY <1>7 DEF c

\* The first line of a body is run.
LEMMA TracedTail ==
    ASSUME NEW b \in Seq(Line), b # <<>>, NEW t, NEW u, Traced(b, t, u)
    PROVE  /\ Traced(Tail(b), ToolAfter(Head(b), t), u)
           /\ Head(b).w = "cut" => Head(b).tool = t
    <1> DEFINE n == Len(b)
               c == Tail(b)
    <1>1. /\ n \in Nat \ {0} /\ Head(b) = b[1] /\ Len(c) = n - 1
          /\ \A i \in 1 .. n - 1 : c[i] = b[i + 1]
        BY HeadTailProperties, EmptySeq, LenProperties
    <1>2. PICK h \in [0 .. n -> Tools] : h[0] = t /\ h[n] = u /\ Runs(b, h)
        BY DEF Traced
    <1> DEFINE g == [i \in 0 .. n - 1 |-> h[i + 1]]
    <1>3. g \in [0 .. n - 1 -> Tools] /\ \A i \in 0 .. n - 1 : g[i] = h[i + 1]
        BY <1>1, <1>2
    <1>4. h[1] = ToolAfter(b[1], t) /\ (b[1].w = "cut" => b[1].tool = h[1])
        <2>1. 1 \in 1 .. n /\ 1 - 1 = 0
            BY <1>1
        <2> QED
            BY <1>2, <2>1 DEF Runs, ToolAfter
    <1> HIDE DEF c, g
    <1>5. g[0] = ToolAfter(Head(b), t) /\ g[n - 1] = u
        <2>1. 0 \in 0 .. n - 1 /\ n - 1 \in 0 .. n - 1 /\ n - 1 + 1 = n /\ 0 + 1 = 1
            BY <1>1
        <2>2. g[0] = h[1] /\ g[n - 1] = h[n]
            BY <1>3, <2>1
        <2> QED
            BY <1>1, <1>2, <1>4, <2>2
    <1>6. ASSUME NEW i \in 1 .. n - 1
          PROVE  /\ g[i] = IF c[i].w \in {"swap", "load"} THEN c[i].tool ELSE g[i - 1]
                 /\ c[i].w = "cut" => c[i].tool = g[i]
        <2>1. i + 1 \in 1 .. n /\ i \in 0 .. n - 1 /\ i - 1 \in 0 .. n - 1 /\ i - 1 + 1 = i
              /\ i + 1 - 1 = i
            BY <1>1
        <2>2. g[i] = h[i + 1] /\ g[i - 1] = h[i] /\ c[i] = b[i + 1]
            BY <1>1, <1>3, <2>1
        <2>3. /\ h[i + 1] = IF b[i + 1].w \in {"swap", "load"} THEN b[i + 1].tool ELSE h[i + 1 - 1]
              /\ b[i + 1].w = "cut" => b[i + 1].tool = h[i + 1]
            BY <1>2, <2>1 DEF Runs
        <2> QED
            BY <2>1, <2>2, <2>3
    <1>7. Runs(c, g)
        BY <1>1, <1>6 DEF Runs
    <1>8. Traced(c, ToolAfter(Head(b), t), u)
        BY <1>1, <1>3, <1>5, <1>7 DEF Traced
    <1>9. Head(b).w = "cut" => Head(b).tool = t
        BY <1>1, <1>4 DEF ToolAfter
    <1> QED
        BY <1>8, <1>9 DEF c

LEMMA ExecTool ==
    ASSUME NEW m \in Machine, NEW l \in Line
    PROVE  Exec(m, l).tool = ToolAfter(l, m.tool)
    BY DEF Machine, Exec, Line, CoolantOn, ToolAfter

\* A body grows by the line the machine has just run.
LEMMA TracedOn ==
    ASSUME TypeInv, Wrote, NEW t, NEW v, Traced(body, t, v),
           line'.w = "cut" => line'.tool = v, ToolAfter(line', v) \in Tools
    PROVE  Traced(body', t, ToolAfter(line', v))
    <1>1. body \in Seq(Line)
        BY DEF TypeInv, TypeOK
    <1>2. CASE line' = NoLine
        BY <1>2 DEF Wrote, ToolAfter, NoLine, Word, WordWith
    <1>3. CASE line' # NoLine
        BY <1>1, <1>3, TracedAppend DEF Wrote
    <1> QED
        BY <1>2, <1>3

LEMMA TracedTools ==
    ASSUME NEW b \in Seq(Line), NEW t, NEW u, Traced(b, t, u)
    PROVE  t \in Tools /\ u \in Tools
    BY LenProperties DEF Traced

LEMMA RawLinesKeep ==
    ASSUME NEW o \in Op, KeepsTool(o)
    PROVE  \A j \in DOMAIN RawLines(o) : RawLines(o)[j].w \notin Guided
    <1>1. CASE o.kind = "include"
        BY <1>1 DEF RawLines, KeepsTool, Guided
    <1>2. CASE o.kind \in {"pause", "homing", "probe"}
        BY <1>2 DEF RawLines, Guided, Word, WordWith
    <1>3. CASE o.kind \notin {"include", "pause", "homing", "probe"}
        <2>1. RawLines(o) = <<>>
            BY <1>3 DEF RawLines
        <2> QED
            BY <2>1
    <1> QED
        BY <1>1, <1>2, <1>3

LEMMA FinishTraced ==
    ASSUME TypeInv, KeptInv, Finish, op \notin Oversized
    PROVE  EntryTraced(Entry(op))
    <1>1. op \in Op /\ op.tool \in Tools /\ script = <<>> /\ Cutting
        BY FinishStores, OpInHand DEF Finish, OpPC, Cutting
    <1>2. Entry(op).key.op = op /\ Entry(op).key.machine = proj.machine /\ Entry(op).body = body
          /\ Entry(op).swap = Swaps(op)
        BY DEF Entry, Captured, CacheKey
    <1>3. ASSUME Swapping PROVE Traced(body, op.tool, HeldAfter(op))
        BY <1>1, <1>3 DEF KeptInv, PlaceHeld, Goes
    <1> QED
        BY <1>2, <1>3 DEF EntryTraced, Swapping

\* A step after which the tool in the spindle is said of another place.
HeldBetween ==
    /\ Outside => prevTool = mach.tool
    /\ Entering => mach.tool = op.tool
HeldReplaying == pc = "replay" => Traced(tape, mach.tool, HeldAfter(op))
HeldCutting ==
    Cutting => Traced(body, op.tool, mach.tool) /\ Goes(script, mach.tool, HeldAfter(op))
HeldChanging ==
    /\ pc \in {"postz", "spinup"} => mach.tool = env.tool
    /\ Changing /\ env.back = "step" =>
          Traced(body, op.tool, mach.tool) /\ Goes(script, env.tool, HeldAfter(op))

LEMMA PlaceHeldIs ==
    PlaceHeld <=>
        HeldBetween /\ HeldReplaying /\ HeldCutting /\ HeldChanging /\ CutsWithItsTool
    BY DEF PlaceHeld, HeldBetween, HeldReplaying, HeldCutting, HeldChanging

\* Each is said of places of its own.
LEMMA HeldElsewhere ==
    /\ pc' \in ChangePC => HeldBetween' /\ HeldReplaying' /\ HeldCutting'
    /\ pc' \in {"step"} \cup CutPC => HeldBetween' /\ HeldReplaying' /\ HeldChanging'
    /\ pc' \in {"top", "mark", "raw", "lookup", "plan"} =>
          HeldReplaying' /\ HeldCutting' /\ HeldChanging'
    /\ pc' = "replay" => HeldBetween' /\ HeldCutting' /\ HeldChanging'
    /\ pc' \in EndPC \cup Ended =>
          HeldBetween' /\ HeldReplaying' /\ HeldCutting' /\ HeldChanging'
    BY DEF HeldBetween, HeldReplaying, HeldCutting, HeldChanging, Outside, Entering, Cutting,
       Changing, ChangePC, CutPC, EndPC, Ended

LEMMA KeptGenerate ==
    ASSUME TypeInv, Generate
    PROVE  PlaceHeld'
    <1>1. /\ pc' = "top" /\ prevTool' = NoTool
          /\ line' = MoveToFastZ(FreshPost).line /\ mach' = Exec(ColdMachine, line')
        BY DEF Generate, StartGenerate
    <1>2. line' \in {NoLine, Word("lift")}
        BY <1>1, CallWords
    <1>3. line'.w # "cut" /\ ToolAfter(line', NoTool) = NoTool /\ line' \in Line
        BY <1>2, Lines DEF ToolAfter, NoLine, Word, WordWith
    <1>4. ColdMachine \in Machine /\ ColdMachine.tool = NoTool
        BY DEF ColdMachine, Machine
    <1>5. mach'.tool = NoTool
        BY <1>1, <1>3, <1>4, ExecTool
    <1>6. HeldBetween' /\ CutsWithItsTool'
        BY <1>1, <1>3, <1>5 DEF HeldBetween, Entering, CutsWithItsTool
    <1>7. (PlaceHeld <=>
              HeldBetween /\ HeldReplaying /\ HeldCutting /\ HeldChanging /\ CutsWithItsTool)'
        BY PlaceHeldIs, PTL
    <1> QED
        BY <1>1, <1>6, <1>7, HeldElsewhere

LEMMA KeptBoundary ==
    ASSUME TypeInv, HeldInv, Marks, Swapping, PlaceHeld, Boundary
    PROVE  PlaceHeld'
    <1> USE DEF EndPC, Ended
    <1>0. HeldBetween /\ HeldReplaying /\ CutsWithItsTool
        BY PlaceHeldIs
    <1>a. mach \in Machine /\ tape \in Seq(Line)
        BY DEF TypeInv, TypeOK
    <1>b. NoLine.w # "cut"
        BY DEF NoLine, Word, WordWith
    <1>p. (PlaceHeld <=>
              HeldBetween /\ HeldReplaying /\ HeldCutting /\ HeldChanging /\ CutsWithItsTool)'
        BY PlaceHeldIs, PTL
    <1>1. CASE BeginOp
        <2>1. /\ pc = "top" /\ UNCHANGED <<plan, idx, mach>> /\ line' = NoLine
              /\ idx \in DOMAIN queue
              /\ prevTool' = IF NeedsChange(op) THEN op.tool ELSE prevTool
            BY <1>1, LenProperties DEF BeginOp, TypeInv, TypeOK
        <2>2. op' = op /\ mach.tool = prevTool /\ (IsProgramOnly(op) \/ op.gate)
            BY <1>0, <2>1 DEF plan, op, HeldBetween, Outside, HeldInv, KeepsTool
        <2>3. CutsWithItsTool'
            BY <1>b, <2>1 DEF CutsWithItsTool
        <2>4. CASE NeedsChange(op) /\ op.tool \in Tools
            <3>1. pc' = "lift" /\ env'.back = "mark"
                BY <1>1, <2>4 DEF BeginOp
            <3>2. HeldChanging'
                BY <3>1 DEF HeldChanging
            <3> QED
                BY <1>p, <2>3, <3>1, <3>2, HeldElsewhere DEF ChangePC
        <2>5. CASE ~ (NeedsChange(op) /\ op.tool \in Tools)
            <3>1. pc' = "mark"
                BY <1>1, <2>5 DEF BeginOp
            <3>2. HeldBetween'
                BY <2>1, <2>2, <2>5, <3>1 DEF HeldBetween, Outside, Entering, NeedsChange
            <3> QED
                BY <1>p, <2>3, <3>1, <3>2, HeldElsewhere
        <2> QED
            BY <2>4, <2>5
    <1>2. CASE Mark
        <2>1. /\ pc = "mark" /\ UNCHANGED <<plan, idx, mach, prevTool>> /\ line' = NoLine
              /\ pc' = IF IsProgramOnly(op) THEN "raw" ELSE "lookup"
            BY <1>2 DEF Mark, book
        <2>2. op' = op
            BY <2>1 DEF plan, op
        <2>3. HeldBetween'
            BY <1>0, <2>1, <2>2 DEF HeldBetween, Outside, Entering
        <2>4. CutsWithItsTool'
            BY <1>b, <2>1 DEF CutsWithItsTool
        <2> QED
            BY <1>p, <2>1, <2>3, <2>4, HeldElsewhere
    <1>3. CASE PlayTape
        <2>1. /\ pc \in {"raw", "replay"} /\ pc' = pc /\ tape # <<>> /\ tape' = Tail(tape)
              /\ UNCHANGED <<plan, idx, prevTool>>
              /\ line' = Head(tape) /\ mach' = Exec(mach, Head(tape))
            BY <1>3 DEF PlayTape, Write, Raw, Emits, book
        <2>2. Head(tape) = tape[1] /\ Head(tape) \in Line /\ 1 \in DOMAIN tape
            BY <1>a, <2>1, HeadTailProperties, EmptySeq, LenProperties
        <2>3. mach'.tool = ToolAfter(Head(tape), mach.tool) /\ op' = op
            BY <1>a, <2>1, <2>2, ExecTool DEF plan, op
        <2>4. CASE pc = "raw"
            <3>1. Head(tape).w \notin {"swap", "load", "cut"}
                BY <2>2, <2>4 DEF HeldInv
            <3>2. HeldBetween'
                BY <1>0, <2>1, <2>3, <2>4, <3>1 DEF HeldBetween, Outside, Entering, ToolAfter
            <3>3. CutsWithItsTool'
                BY <2>1, <3>1 DEF CutsWithItsTool
            <3> QED
                BY <1>p, <2>1, <2>4, <3>2, <3>3, HeldElsewhere
        <2>5. CASE pc = "replay"
            <3>1. Traced(tape, mach.tool, HeldAfter(op))
                BY <1>0, <2>5 DEF HeldReplaying
            <3>2. /\ Traced(Tail(tape), ToolAfter(Head(tape), mach.tool), HeldAfter(op))
                  /\ Head(tape).w = "cut" => Head(tape).tool = mach.tool
                BY <1>a, <2>1, <3>1, TracedTail
            <3>3. HeldReplaying'
                BY <2>1, <2>3, <3>2 DEF HeldReplaying
            <3>4. CutsWithItsTool'
                BY <2>1, <2>3, <3>2 DEF CutsWithItsTool, ToolAfter
            <3> QED
                BY <1>p, <2>1, <2>5, <3>3, <3>4, HeldElsewhere
        <2> QED
            BY <2>1, <2>4, <2>5
    <1>4. CASE EndRaw
        <2>1. /\ pc = "raw" /\ pc' = "top" /\ UNCHANGED <<mach, prevTool>> /\ line' = NoLine
            BY <1>4 DEF EndRaw, book
        <2>2. HeldBetween'
            BY <1>0, <2>1 DEF HeldBetween, Outside, Entering
        <2>3. CutsWithItsTool'
            BY <1>b, <2>1 DEF CutsWithItsTool
        <2> QED
            BY <1>p, <2>1, <2>2, <2>3, HeldElsewhere
    <1>5. CASE Cancelled
        <2>1. pc' = "cancelled" /\ UNCHANGED <<mach, line, proj>>
            BY <1>5 DEF Cancelled, output, plan
        <2>2. CutsWithItsTool'
            BY <1>0, <2>1 DEF CutsWithItsTool, Swapping
        <2> QED
            BY <1>p, <2>1, <2>2, HeldElsewhere
    <1> QED
        BY <1>1, <1>2, <1>3, <1>4, <1>5 DEF Boundary

LEMMA KeptCutting ==
    ASSUME TypeInv, HeldInv, Marks, Swapping, PlaceHeld, CuttingOp
    PROVE  PlaceHeld'
    <1> USE DEF Ended, CutPC
    <1>0. HeldBetween /\ HeldReplaying /\ HeldCutting /\ CutsWithItsTool
        BY PlaceHeldIs
    <1>a. /\ mach \in Machine /\ body \in Seq(Line) /\ script \in Seq(Step) /\ cache \in Seq(CacheEntry)
          /\ post \in PostState /\ proj \in Project
        BY ProjectType DEF TypeInv, TypeOK
    <1>b. NoLine.w # "cut"
        BY DEF NoLine, Word, WordWith
    <1>c. idx \in DOMAIN queue /\ op \in Op
        <2>1. pc \in OpPC
            BY DEF CuttingOp, Hit, EndReplay, Miss, Fail, Plan, SwapStep, CutSpin, CutCoolant,
               CutEntry, CutPass, Finish, OpPC
        <2> QED
            BY <2>1, OpInHand
    <1>p. (PlaceHeld <=>
              HeldBetween /\ HeldReplaying /\ HeldCutting /\ HeldChanging /\ CutsWithItsTool)'
        BY PlaceHeldIs, PTL
    <1>d. UNCHANGED <<plan, idx>> => op' = op
        BY DEF plan, op
    <1>e. line' = NoLine => CutsWithItsTool'
        BY <1>b DEF CutsWithItsTool
    <1>1. CASE Hit
        <2>1. /\ pc = "lookup" /\ pc' = "replay" /\ UNCHANGED <<plan, idx, mach>> /\ line' = NoLine
            BY <1>1 DEF Hit
        <2>2. PICK i \in CachedAt(op) : tape' = cache[i].body
            BY <1>1 DEF Hit
        <2>3. op.tool \in Tools /\ i \in DOMAIN cache /\ cache[i].key = CacheKey(op)
            BY <2>2 DEF CachedAt, Keyed
        <2>4. Traced(cache[i].body, op.tool, HeldAfter(op))
            <3>1. cache[i].key.op = op /\ cache[i].key.machine = proj.machine
                BY <2>3 DEF CacheKey
            <3> QED
                BY <2>3, <3>1 DEF HeldInv, EntryTraced, Swapping
        <2>5. mach.tool = op.tool
            BY <1>0, <2>1, <2>3 DEF HeldBetween, Entering, Marks
        <2>6. HeldReplaying'
            BY <1>d, <2>1, <2>2, <2>4, <2>5 DEF HeldReplaying
        <2> QED
            BY <1>e, <1>p, <2>1, <2>6, HeldElsewhere
    <1>2. CASE EndReplay
        <2>1. /\ pc = "replay" /\ pc' = "top" /\ tape = <<>> /\ UNCHANGED mach /\ line' = NoLine
              /\ prevTool' = NextPrevTool(op, LastEntry.swap)
            BY <1>2 DEF EndReplay
        <2>2. mach.tool = HeldAfter(op)
            BY <1>0, <2>1, TracedEmpty DEF HeldReplaying
        <2>3. LastEntry.swap = Swaps(op)
            <3>1. cache # <<>>
                BY <2>1 DEF TypeInv, Placed
            <3>2. Len(cache) \in DOMAIN cache
                BY <1>a, <3>1, LenProperties, EmptySeq
            <3>3. LastEntry.key.op = op
                BY <2>1 DEF Marks, CacheKey
            <3> QED
                BY <3>2, <3>3 DEF HeldInv, EntryTraced, LastEntry
        <2>4. HeldBetween'
            BY <2>1, <2>2, <2>3 DEF HeldBetween, Entering, HeldAfter
        <2> QED
            BY <1>e, <1>p, <2>1, <2>4, HeldElsewhere
    <1>3. CASE Miss
        <2>1. pc = "lookup" /\ pc' = "plan" /\ UNCHANGED <<plan, idx, mach>> /\ line' = NoLine
            BY <1>3 DEF Miss
        <2>2. HeldBetween'
            BY <1>0, <1>d, <2>1 DEF HeldBetween, Entering, Outside
        <2> QED
            BY <1>e, <1>p, <2>1, <2>2, HeldElsewhere
    <1>4. CASE Fail
        BY <1>4, <1>e, <1>p, HeldElsewhere DEF Fail
    <1>5. CASE Plan
        <2>1. /\ pc = "plan" /\ pc' = "step" /\ UNCHANGED <<plan, idx, mach, body>>
              /\ line' = NoLine /\ script' = Script(op) /\ op.tool \in Tools
            BY <1>5 DEF Plan
        <2>2. mach.tool = op.tool /\ body = <<>>
            BY <1>0, <2>1 DEF HeldBetween, Entering, Marks, HeldInv
        <2>3. Goes(Script(op), op.tool, HeldAfter(op))
            BY <1>a, <1>c, <2>1, ScriptGoes
        <2>4. Traced(<<>>, op.tool, op.tool)
            BY <2>1, TracedEmpty
        <2>5. HeldCutting'
            BY <1>d, <2>1, <2>2, <2>3, <2>4 DEF HeldCutting
        <2> QED
            BY <1>e, <1>p, <2>1, <2>5, HeldElsewhere
    <1>6. CASE SwapStep
        <2>1. /\ pc = "step" /\ pc' = "lift" /\ UNCHANGED <<plan, idx, mach, body>>
              /\ line' = NoLine /\ script # <<>> /\ script' = Tail(script)
              /\ env'.tool = Head(script).tool
            BY <1>6 DEF SwapStep, output
        <2>2. Traced(body, op.tool, mach.tool) /\ Goes(script, mach.tool, HeldAfter(op))
            BY <1>0, <2>1 DEF HeldCutting, Cutting
        <2>3. Goes(Tail(script), Head(script).tool, HeldAfter(op))
            BY <1>a, <2>1, <2>2, TailGoes
        <2>4. HeldChanging'
            BY <1>d, <2>1, <2>2, <2>3 DEF HeldChanging
        <2> QED
            BY <1>e, <1>p, <2>1, <2>4, HeldElsewhere DEF ChangePC
    <1>7. CASE CutSpin \/ CutCoolant \/ CutEntry
        <2>1. /\ Wrote /\ line'.w \notin Guided /\ pc' \in CutPC /\ pc \in {"step"} \cup CutPC
              /\ UNCHANGED <<plan, idx, script>>
            BY <1>7, DriverWrites
        <2>2. Traced(body, op.tool, mach.tool) /\ Goes(script, mach.tool, HeldAfter(op))
            BY <1>0, <2>1 DEF HeldCutting, Cutting
        <2>3. ToolAfter(line', mach.tool) = mach.tool /\ line'.w # "cut"
            BY <2>1 DEF ToolAfter, Guided
        <2>4. mach'.tool = mach.tool
            BY <1>a, <2>1, <2>3, ExecTool DEF Wrote
        <2>5. mach.tool \in Tools
            BY <1>a, <2>2, TracedTools
        <2>6. Traced(body', op.tool, mach.tool)
            BY <2>1, <2>2, <2>3, <2>5, TracedOn
        <2>7. HeldCutting'
            BY <1>d, <2>1, <2>2, <2>4, <2>6 DEF HeldCutting
        <2>8. CutsWithItsTool'
            BY <2>3 DEF CutsWithItsTool
        <2> QED
            BY <1>p, <2>1, <2>7, <2>8, HeldElsewhere
    <1>8. CASE CutPass
        <2> DEFINE l == [w |-> "cut", tool |-> Head(script).tool, v |-> Head(script).spin]
        <2>1. /\ pc = "cut" /\ pc' = "step" /\ script' = Tail(script) /\ UNCHANGED <<plan, idx>>
              /\ Write(Emits(l, post))
            BY <1>8 DEF CutPass
        <2>2. script # <<>> /\ Head(script).do = "cut"
            BY <2>1 DEF TypeInv, Placed, HeldInv
        <2>3. Traced(body, op.tool, mach.tool) /\ Goes(script, mach.tool, HeldAfter(op))
            BY <1>0, <2>1 DEF HeldCutting, Cutting
        <2>4. Head(script) = script[1] /\ Goes(Tail(script), Head(script).tool, HeldAfter(op))
            BY <1>a, <2>2, <2>3, TailGoes
        <2>5. Head(script).tool = mach.tool
            BY <2>2, <2>3, <2>4 DEF Goes
        <2>6. TypeInv'
            BY <1>8, CuttingType DEF CuttingOp
        <2>7. Wrote /\ line' = l
            BY <2>1, <2>6, WriteWrote DEF Emits
        <2>8. line'.tool = mach.tool /\ line'.w = "cut"
            BY <2>5, <2>7
        <2> HIDE DEF l
        <2>9. mach'.tool = mach.tool /\ ToolAfter(line', mach.tool) = mach.tool
            BY <1>a, <2>7, <2>8, ExecTool DEF Wrote, ToolAfter
        <2>10. mach.tool \in Tools
            BY <1>a, <2>3, TracedTools
        <2>11. Traced(body', op.tool, mach.tool)
            BY <2>3, <2>7, <2>8, <2>9, <2>10, TracedOn
        <2>12. HeldCutting'
            BY <1>d, <2>1, <2>4, <2>5, <2>9, <2>11 DEF HeldCutting
        <2>13. CutsWithItsTool'
            BY <2>8, <2>9 DEF CutsWithItsTool
        <2> QED
            BY <1>p, <2>1, <2>12, <2>13, HeldElsewhere
    <1>9. CASE Finish
        <2>1. /\ pc = "step" /\ pc' = "top" /\ script = <<>> /\ UNCHANGED mach /\ line' = NoLine
              /\ prevTool' = HeldAfter(op)
            BY <1>9 DEF Finish, HeldAfter
        <2>2. mach.tool = HeldAfter(op)
            BY <1>0, <2>1 DEF HeldCutting, Cutting, Goes
        <2>3. HeldBetween'
            BY <2>1, <2>2 DEF HeldBetween, Entering
        <2> QED
            BY <1>e, <1>p, <2>1, <2>3, HeldElsewhere
    <1> QED
        BY <1>1, <1>2, <1>3, <1>4, <1>5, <1>6, <1>7, <1>8, <1>9 DEF CuttingOp

LEMMA KeptChange ==
    ASSUME TypeInv, HeldInv, Swapping, PlaceHeld, Change
    PROVE  PlaceHeld'
    <1>0. HeldChanging /\ CutsWithItsTool
        BY PlaceHeldIs
    <1>a. mach \in Machine /\ body \in Seq(Line)
        BY DEF TypeInv, TypeOK
    <1>p. (PlaceHeld <=>
              HeldBetween /\ HeldReplaying /\ HeldCutting /\ HeldChanging /\ CutsWithItsTool)'
        BY PlaceHeldIs, PTL
    <1>1. /\ UNCHANGED <<plan, idx, env, script, prevTool>> /\ Changing
          /\ Changing' \/ pc' = env.back
          /\ env.back \in {"mark", "step"} /\ Wrote /\ line'.w # "cut"
        BY ChangeLeads, ChangeWrites
    <1>2. op' = op
        BY <1>1 DEF plan, op
    <1>3. mach'.tool = ToolAfter(line', mach.tool)
        BY <1>a, <1>1, ExecTool DEF Wrote
    <1>4. CutsWithItsTool'
        BY <1>1 DEF CutsWithItsTool
    <1>5. pc # "swap" => ToolAfter(line', mach.tool) = mach.tool
        BY ChangeWrites DEF ToolAfter, Guided
    <1>6. pc = "swap" => ToolAfter(line', mach.tool) = env.tool
        BY ChangeWrites DEF ToolAfter
    <1>7. pc' \in {"postz", "spinup"} \/ ~ Changing' => pc \in {"swap", "postz", "spinup"}
        BY DEF Change, EnvLift, EnvStation, EnvCoolant, EnvStop, EnvSwap, EnvPostZ, EnvSpinUp,
           Envelope, Changing, ChangePC
    <1>8. pc' \in {"postz", "spinup"} \/ ~ Changing' => mach'.tool = env.tool
        BY <1>0, <1>3, <1>5, <1>6, <1>7 DEF HeldChanging
    <1>9. env.tool \in Tools
        BY <1>1 DEF TypeInv, Placed
    <1>10. env.back = "step" => Traced(body', op.tool, mach'.tool)
        <2> SUFFICES ASSUME env.back = "step" PROVE Traced(body', op.tool, mach'.tool)
            OBVIOUS
        <2>1. Traced(body, op.tool, mach.tool)
            BY <1>0, <1>1 DEF HeldChanging
        <2>2. mach.tool \in Tools
            BY <1>a, <2>1, TracedTools
        <2>3. ToolAfter(line', mach.tool) \in Tools
            BY <1>5, <1>6, <1>9, <2>2
        <2> QED
            BY <1>1, <1>3, <2>1, <2>3, TracedOn
    <1>11. env.back = "step" => Goes(script, env.tool, HeldAfter(op))
        BY <1>0, <1>1 DEF HeldChanging
    <1>12. CASE Changing'
        <2>1. HeldChanging'
            BY <1>1, <1>2, <1>8, <1>10, <1>11 DEF HeldChanging
        <2> QED
            BY <1>p, <1>4, <1>12, <2>1, HeldElsewhere DEF Changing
    <1>13. CASE ~ Changing' /\ env.back = "mark"
        <2>1. ~ IsProgramOnly(op) /\ env.tool = op.tool /\ pc' = "mark"
            BY <1>1, <1>13 DEF HeldInv
        <2>2. HeldBetween'
            BY <1>2, <1>8, <1>13, <2>1 DEF HeldBetween, Outside, Entering
        <2> QED
            BY <1>p, <1>4, <2>1, <2>2, HeldElsewhere
    <1>14. CASE ~ Changing' /\ env.back = "step"
        <2>1. pc' = "step"
            BY <1>1, <1>14
        <2>2. HeldCutting'
            BY <1>1, <1>2, <1>8, <1>10, <1>11, <1>14 DEF HeldCutting
        <2> QED
            BY <1>p, <1>4, <2>1, <2>2, HeldElsewhere
    <1> QED
        BY <1>1, <1>12, <1>13, <1>14

LEMMA KeptEnd ==
    ASSUME TypeInv, End
    PROVE  PlaceHeld'
    <1>1. pc' \in EndPC \cup Ended
        BY DEF End, EndLift, EndStop, EndCoolant, EndProgram, Envelope, EndPC, Ended
    <1>2. line' \in {NoLine, Word("lift"), Word("M5"), Word("M9"), Word("M30")}
        BY CallWords DEF End, EndLift, EndStop, EndCoolant, EndProgram, Envelope, Write, Emits
    <1>3. CutsWithItsTool'
        BY <1>2 DEF CutsWithItsTool, NoLine, Word, WordWith
    <1>4. (PlaceHeld <=>
              HeldBetween /\ HeldReplaying /\ HeldCutting /\ HeldChanging /\ CutsWithItsTool)'
        BY PlaceHeldIs, PTL
    <1> QED
        BY <1>1, <1>3, <1>4, HeldElsewhere

LEMMA RawStays ==
    ASSUME TypeInv, HeldInv, [Next]_vars
    PROVE  (pc = "raw" => \A j \in DOMAIN tape : tape[j].w \notin Guided)'
    <1> USE DEF Guided
    <1>1. CASE Mark
        <2>1. op \in Op /\ KeepsTool(op)
            <3>1. idx \in DOMAIN queue
                BY <1>1 DEF Mark, TypeInv, Placed, InOp, BoundaryPC
            <3> QED
                BY <3>1 DEF op, HeldInv, TypeInv, TypeOK
        <2>2. pc' = "raw" => tape' = RawLines(op)
            BY <1>1 DEF Mark
        <2> HIDE DEF Guided
        <2> QED
            BY <2>1, <2>2, RawLinesKeep
    <1>2. CASE PlayTape
        <2>1. tape \in Seq(Line) /\ tape # <<>> /\ tape' = Tail(tape) /\ pc' = pc
            BY <1>2 DEF PlayTape, TypeInv, TypeOK
        <2>2. Len(tape) \in Nat /\ Len(tape') = Len(tape) - 1 /\ DOMAIN tape' = 1 .. Len(tape')
              /\ \A j \in 1 .. Len(tape) - 1 : tape'[j] = tape[j + 1] /\ j + 1 \in DOMAIN tape
            BY <2>1, HeadTailProperties, LenProperties, EmptySeq
        <2> QED
            BY <2>1, <2>2 DEF HeldInv
    <1>3. CASE ~ Mark /\ ~ PlayTape
        <2>1. pc' = "raw" => pc = "raw" /\ tape' = tape
            <3>1. CASE Generate \/ RequestCancel \/ UNCHANGED vars
                BY <3>1 DEF Generate, StartGenerate, RequestCancel, vars, drive
            <3>2. CASE Boundary
                BY <1>3, <3>2 DEF Boundary, BeginOp, EndRaw, Cancelled
            <3>3. CASE CuttingOp
                BY <3>3 DEF CuttingOp, Hit, EndReplay, Miss, Fail, Plan, SwapStep, CutSpin,
                   CutCoolant, CutEntry, CutPass, Finish
            <3>4. CASE Change
                BY <3>4, ChangeLeads DEF Changing, ChangePC
            <3>5. CASE End
                BY <3>5 DEF End, EndLift, EndStop, EndCoolant, EndProgram, Envelope
            <3> QED
                BY <3>1, <3>2, <3>3, <3>4, <3>5 DEF Next, Advance
        <2> QED
            BY <2>1 DEF HeldInv
    <1> QED
        BY <1>1, <1>2, <1>3

LEMMA BackStays ==
    ASSUME TypeInv, HeldInv, [Next]_vars
    PROVE  (Changing /\ env.back = "mark" => ~ IsProgramOnly(op) /\ env.tool = op.tool)'
    <1> USE DEF Changing, ChangePC
    <1>1. CASE BeginOp
        <2>1. UNCHANGED <<plan, idx>>
            BY <1>1 DEF BeginOp
        <2>2. op' = op
            BY <2>1 DEF plan, op
        <2> QED
            BY <1>1, <2>2 DEF BeginOp, NeedsChange
    <1>2. CASE Change
        <2>1. op' = op
            BY <1>2, ChangeLeads DEF plan, op
        <2> QED
            BY <1>2, <2>1, ChangeLeads DEF HeldInv
    <1>3. CASE ~ BeginOp /\ ~ Change
        <2>1. Changing' /\ env'.back = "mark" => Changing /\ UNCHANGED <<env, plan, idx>>
            <3>1. CASE Generate \/ RequestCancel \/ UNCHANGED vars
                BY <3>1 DEF Generate, StartGenerate, RequestCancel, vars, drive
            <3>2. CASE Boundary
                BY <1>3, <3>2 DEF Boundary, Mark, PlayTape, EndRaw, Cancelled
            <3>3. CASE CuttingOp
                BY <3>3 DEF CuttingOp, Hit, EndReplay, Miss, Fail, Plan, SwapStep, CutSpin,
                   CutCoolant, CutEntry, CutPass, Finish
            <3>4. CASE End
                BY <3>4 DEF End, EndLift, EndStop, EndCoolant, EndProgram, Envelope
            <3> QED
                BY <1>3, <3>1, <3>2, <3>3, <3>4 DEF Next, Advance
        <2> QED
            BY <2>1 DEF HeldInv, plan, op
    <1> QED
        BY <1>1, <1>2, <1>3

LEMMA KeptStep ==
    ASSUME ToolsAreKept, TypeInv, Len(cache) <= CacheCapacity, Marks, KeptInv, [Next]_vars
    PROVE  KeptInv'
    <1>0. HeldInv
        BY DEF KeptInv
    <1>1. HeldInv'
        <2>1. ASSUME NEW i \in DOMAIN queue' PROVE KeepsTool(queue'[i])
            <3>1. CASE Generate
                BY <2>1, <3>1, QueueIsTheProjects DEF ToolsAreKept
            <3>2. CASE ~ Generate
                <4>1. UNCHANGED plan
                    BY <3>2, PlanStays
                <4> QED
                    BY <1>0, <2>1, <4>1 DEF plan, HeldInv
            <3> QED
                BY <3>1, <3>2
        <2>2. ASSUME NEW k \in DOMAIN cache' PROVE EntryTraced(cache'[k])
            BY <1>0, EntriesAre, FinishTraced DEF HeldInv
        <2>3. (pc \in {"lookup", "plan"} => body = <<>>)'
            BY <1>0, BodyStarts DEF HeldInv
        <2>4. (pc \in CutPC => Head(script).do = "cut")'
            BY <1>0, CutsAreCuts DEF HeldInv
        <2> QED
            BY <1>0, <2>1, <2>2, <2>3, <2>4, RawStays, BackStays DEF HeldInv, Guided
    <1>2. ASSUME Swapping' PROVE PlaceHeld'
        <2>1. CASE Generate
            BY <2>1, KeptGenerate
        <2>2. CASE ~ Generate
            <3>1. UNCHANGED plan /\ Swapping
                BY <1>2, <2>2, PlanStays DEF plan, Swapping
            <3>2. PlaceHeld
                BY <3>1 DEF KeptInv
            <3>3. CASE RequestCancel \/ UNCHANGED vars
                <4>1. UNCHANGED <<plan, idx, pc, env, script, tape, mach, line, body, prevTool>>
                    BY <3>3 DEF RequestCancel, vars, drive, output, book
                <4>2. op' = op /\ Outside' = Outside /\ Entering' = Entering /\ Cutting' = Cutting
                      /\ Changing' = Changing /\ CutsWithItsTool' = CutsWithItsTool
                    BY <4>1 DEF plan, op, Outside, Entering, Cutting, Changing, CutsWithItsTool,
                       Swapping
                <4> QED
                    BY <3>2, <4>1, <4>2 DEF PlaceHeld
            <3>4. CASE Advance
                BY <1>0, <3>1, <3>2, <3>4, KeptBoundary, KeptCutting, KeptChange, KeptEnd
                   DEF Advance
            <3> QED
                BY <2>2, <3>3, <3>4 DEF Next
        <2> QED
            BY <2>1, <2>2
    <1> QED
        BY <1>1, <1>2 DEF KeptInv

LEMMA KeptInit == Init => KeptInv
    <1> SUFFICES ASSUME Init PROVE KeptInv
        OBVIOUS
    <1>1. queue = <<>> /\ cache = <<>> /\ pc = "idle" /\ line = NoLine
        BY DEF Init
    <1>2. HeldInv
        BY <1>1 DEF HeldInv, Changing, ChangePC, CutPC
    <1>3. PlaceHeld
        BY <1>1 DEF PlaceHeld, Outside, Entering, Cutting, Changing, ChangePC, CutPC,
           CutsWithItsTool, NoLine, Word, WordWith
    <1> QED
        BY <1>2, <1>3 DEF KeptInv

ToolInv == TypeInv /\ StoreInv /\ ReportInv /\ KeptInv

LEMMA ToolInvHolds ==
    ASSUME ToolsAreKept
    PROVE  Spec => []ToolInv
    <1>1. Init => ToolInv
        BY TypeInit, StoreInit, ReportInit, KeptInit DEF ToolInv
    <1>2. ToolInv /\ [Next]_vars => ToolInv'
        BY TypeStep, StoreStep, ReportStep, KeptStep DEF ToolInv, StoreInv, ReportInv, Marks
    <1> QED
        BY <1>1, <1>2, PTL DEF Spec

\* A cut is made with the tool it was planned for, in a planned body and in a replayed
\* one, whatever the cache holds and whichever order the operations are emitted in, for
\* projects whose cutting operations pass their gate and whose included files neither
\* change tools nor cut (apply_cached_op, run_dual_tool_or_single).
THEOREM ReplaysKeepTheirTool ==
    ASSUME ToolsAreKept
    PROVE  Spec => []CutsWithItsTool
    <1>1. ToolInv => CutsWithItsTool
        <2>1. CutsWithItsTool \/ Swapping
            BY DEF CutsWithItsTool
        <2> QED
            BY <2>1 DEF ToolInv, KeptInv, PlaceHeld
    <1> QED
        BY <1>1, ToolInvHolds, PTL

\* prev_tool_id is the tool in the spindle at every operation boundary, past a replayed
\* body too: the internal swap stored with the body says which tool it left
\* (next_prev_tool_id, apply_cached_op).
THEOREM ReplaysLeaveTheToolHeld ==
    ASSUME ToolsAreKept
    PROVE  Spec => []HeldTool
    <1>1. ToolInv => HeldTool
        BY DEF ToolInv, KeptInv, PlaceHeld, Outside, HeldTool
    <1> QED
        BY <1>1, ToolInvHolds, PTL

-----------------------------------------------------------------------------
(***************************************************************************)
(* No tool is changed on a running machine either: a body that was         *)
(* captured after one history of the machine is replayed after another,    *)
(* and stops it all the same.                                              *)
(*                                                                         *)
(* The promise is for operations that cut with their own tool before they  *)
(* change to another one.  Such a body starts spindle and coolant itself,  *)
(* or its post knows that they were started before it: either way the post *)
(* will stop them.  A body that begins with a change, or is empty, trusts  *)
(* what was running when it was captured.                                  *)
(***************************************************************************)

\* An operation that cuts before it changes tools, or does not touch the tracked words.
CutsFirst(o) ==
    /\ Plainly(o)
    /\ IsProgramOnly(o) \/ (o.rough /\ o.spot \in {NoTool, o.tool})
BodiesCutFirst == \A p \in Projects : \A i \in DOMAIN p.ops : CutsFirst(p.ops[i])

-----------------------------------------------------------------------------
(* The inductive invariant *)

\* Post p will stop at least what runs on machine m, and lift it if it is low.
Wary(p, m) ==
    /\ p.z => m.z = "clear"
    /\ m.cool \in CoolantOn => p.cool \in CoolantOn
    /\ m.spin # Off => p.lit

Halted(m) == m.spin = Off /\ m.cool = "off" /\ m.z = "clear"
HaltedFor(l, m) == l.w \in {"swap", "load"} => Halted(m)

\* The lines lead a machine from m to u, and change no tool on the way but a halted one's.
Steps(lines, h) ==
    \A i \in 1 .. Len(lines) : h[i] = Exec(h[i - 1], lines[i]) /\ HaltedFor(lines[i], h[i])
Leads(lines, m, u) ==
    \E h \in [0 .. Len(lines) -> Machine] : h[0] = m /\ h[Len(lines)] = u /\ Steps(lines, h)

\* The body may be run by any machine that is ready for its operation: it leaves one that
\* is ready for the next, and that the post p it ends with does not underrate.
Safely(o, lines, p, swapping) ==
    \A m \in Machine : Ready(o.tool, m, swapping) =>
        \E u \in Machine :
            Leads(lines, m, u) /\ Ready(HeldAfter(o), u, swapping) /\ Wary(p, u)
EntrySafe(e) == Safely(e.key.op, e.body, e.exit, e.key.machine.change # "Ignore")

Begun == \E i \in DOMAIN body : body[i].w = "cut"

\* Machine u, with tool t, where the driver has come to.  Before the first cut nothing is
\* known of what it found running; the first cut's calls take over what they need.
AtCut(t, u) ==
    /\ Goes(script, t, HeldAfter(op)) /\ Ready(t, u, Swapping)
    /\ Begun => Wary(post, u)
    /\ ~ Begun => script # <<>> /\ script[1].do = "cut"
    /\ pc \in CutPC => post.lit
    /\ pc \in {"entry", "cut"} /\ u.cool \in CoolantOn => post.cool \in CoolantOn

\* Machine u where the envelope has come to.
AtChange(u) ==
    /\ Wary(post, u)
    /\ pc \in {"station", "coolant", "stop", "swap"} => u.z = "clear"
    /\ pc \in {"stop", "swap", "postz", "spinup"} => u.cool = "off"
    /\ pc = "swap" => u.spin = Off
    /\ pc \in {"postz", "spinup"} /\ Swapping => u.tool = env.tool
    /\ env.first /\ pc \in {"lift", "station", "coolant", "stop"} =>
          u.cool = "off" /\ u.spin = Off

Inside(t, u) ==
    /\ Cutting => AtCut(t, u)
    /\ Changing => /\ AtChange(u) /\ t = env.tool /\ Begun
                   /\ Goes(script, t, HeldAfter(op))

\* The machine, and every machine that may run the body so far, is where the driver is.
Anywhere(t) ==
    /\ Inside(t, mach)
    /\ \A m \in Machine : Ready(op.tool, m, Swapping) =>
          \E u \in Machine : Leads(body, m, u) /\ Inside(t, u)

SwapBetween ==
    /\ Outside => /\ Ready(prevTool, mach, Swapping) /\ Wary(post, mach)
                  /\ prevTool = NoTool => mach.spin = Off
    /\ Entering => Ready(op.tool, mach, Swapping) /\ Wary(post, mach)
SwapRaw ==
    /\ pc = "mark" /\ IsProgramOnly(op) => ~ post.z
    /\ pc = "raw" => ~ post.z /\ \A j \in DOMAIN tape : tape[j].w \in Inert
SwapReplaying ==
    pc = "replay" =>
        \E u \in Machine : /\ Leads(tape, mach, u)
                           /\ Ready(HeldAfter(op), u, Swapping) /\ Wary(LastEntry.exit, u)
SwapDriving == Driving => \E t \in Tools : Anywhere(t)
SwapChanging == Changing /\ env.back = "mark" => AtChange(mach)

SwapPlace ==
    /\ SwapBetween /\ SwapRaw /\ SwapReplaying /\ SwapDriving /\ SwapChanging
    /\ HaltedFor(line, mach)

SwapInv ==
    /\ \A i \in DOMAIN queue : CutsFirst(queue[i])
    /\ \A i \in DOMAIN cache : EntrySafe(cache[i])
    /\ SwapPlace

-----------------------------------------------------------------------------
(* What the post's methods do to a machine the post does not underrate *)

LEMMA WaryReset ==
    ASSUME NEW p \in PostState, NEW u \in Machine, Wary(p, u)
    PROVE  /\ Wary(ResetState(p), u) /\ ResetState(p) \in PostState
           /\ ~ ResetState(p).z
    BY DEF Wary, ResetState, PostState

LEMMA WarySilent ==
    ASSUME NEW p \in PostState, NEW u \in Machine, Wary(p, u), NEW r \in {Silent(p), ForgetZ(p)}
    PROVE  Wary(r.post, u) /\ Exec(u, r.line) = u
    BY DEF Wary, ForgetZ, Silent, Exec, NoLine, Word, WordWith, PostState

LEMMA WaryLift ==
    ASSUME NEW p \in PostState, NEW u \in Machine, Wary(p, u),
           NEW v, v = Exec(u, MoveToFastZ(p).line)
    PROVE  /\ Wary(MoveToFastZ(p).post, v) /\ v.z = "clear"
           /\ v.tool = u.tool /\ v.spin = u.spin /\ v.cool = u.cool
    BY DEF Wary, MoveToFastZ, Emits, Silent, Exec, NoLine, Word, WordWith, PostState, Machine

LEMMA WaryMove ==
    ASSUME NEW p \in PostState, NEW u \in Machine, Wary(p, u),
           NEW w \in {"station", "sensor", "probe"}, NEW v, v = Exec(u, MachineMove(p, w).line)
    PROVE  /\ Wary(MachineMove(p, w).post, v) /\ (w = "station" => v.z = u.z)
           /\ v.tool = u.tool /\ v.spin = u.spin /\ v.cool = u.cool
    BY DEF Wary, MachineMove, Emits, Exec, Word, WordWith, PostState, Machine

LEMMA WarySpin ==
    ASSUME NEW p \in PostState, NEW u \in Machine, NEW s \in Spins,
           NEW v, v = Exec(u, SpindleOn(p, s).line)
    PROVE  /\ SpindleOn(p, s).post.lit
           /\ SpindleOn(p, s).post.cool = p.cool /\ SpindleOn(p, s).post.z = p.z
           /\ v.tool = u.tool /\ v.cool = u.cool /\ v.z = u.z
           /\ Wary(p, u) => Wary(SpindleOn(p, s).post, v)
    BY DEF Wary, SpindleOn, Emits, Silent, Exec, NoLine, Word, WordWith, PostState, Machine

LEMMA WaryStop ==
    ASSUME NEW p \in PostState, NEW u \in Machine, Wary(p, u),
           NEW v, v = Exec(u, SpindleOff(p).line)
    PROVE  /\ Wary(SpindleOff(p).post, v) /\ v.spin = Off
           /\ v.tool = u.tool /\ v.cool = u.cool /\ v.z = u.z
    BY DEF Wary, SpindleOff, Emits, Silent, Exec, NoLine, Word, WordWith, PostState, Machine

\* A pass opens its tool's coolant, on a machine where no other is open.
LEMMA WaryCool ==
    ASSUME NEW p \in PostState, NEW u \in Machine, NEW c \in {"off"} \cup CoolantOn,
           u.cool \in {"off", c}, NEW v, v = Exec(u, Coolant(p, c).line)
    PROVE  /\ v.cool \in CoolantOn => Coolant(p, c).post.cool \in CoolantOn
           /\ v.cool \in {"off", c}
           /\ Coolant(p, c).post.lit = p.lit
           /\ v.tool = u.tool /\ v.spin = u.spin /\ v.z = u.z
           /\ Wary(p, u) => Wary(Coolant(p, c).post, v)
    BY DEF Wary, Coolant, Emits, Silent, Exec, NoLine, Word, WordWith, PostState, Machine,
       CoolantOn

LEMMA WaryDry ==
    ASSUME NEW p \in PostState, NEW u \in Machine, Wary(p, u),
           NEW v, v = Exec(u, CoolantOff(p).line)
    PROVE  /\ Wary(CoolantOff(p).post, v) /\ v.cool = "off"
           /\ v.tool = u.tool /\ v.spin = u.spin /\ v.z = u.z
    BY DEF Wary, CoolantOff, Emits, Silent, Exec, NoLine, Word, WordWith, PostState, Machine,
       CoolantOn

LEMMA WaryEntry ==
    ASSUME NEW p \in PostState, NEW u \in Machine, NEW v, v = Exec(u, RapidToEntry(p).line)
    PROVE  /\ RapidToEntry(p).post.lit = p.lit /\ RapidToEntry(p).post.cool = p.cool
           /\ v.tool = u.tool /\ v.spin = u.spin /\ v.cool = u.cool
           /\ Wary(p, u) => Wary(RapidToEntry(p).post, v)
    BY DEF Wary, RapidToEntry, Emits, Exec, Word, WordWith, PostState, Machine

\* A cut ends lifted.
LEMMA WaryCut ==
    ASSUME NEW p \in PostState, NEW u \in Machine, NEW l, l.w = "cut", p.lit,
           u.cool \in CoolantOn => p.cool \in CoolantOn, NEW v, v = Exec(u, l)
    PROVE  Wary(p, v) /\ v.tool = u.tool /\ v.cool = u.cool
    BY DEF Wary, Exec, PostState, Machine

\* Lines the post does not see, past a post that has lost track of the height.
LEMMA WaryRaw ==
    ASSUME NEW p \in PostState, NEW u \in Machine, Wary(p, u), ~ p.z, NEW l, l.w \in Inert,
           NEW v, v = Exec(u, l)
    PROVE  Wary(p, v) /\ v.tool = u.tool /\ v.cool = u.cool /\ v.spin \in {u.spin, Off}
    BY DEF Wary, Exec, PostState, Machine, Inert

-----------------------------------------------------------------------------
(* The lines of a body lead a machine *)

LEMMA LeadsEmpty ==
    /\ \A m \in Machine : Leads(<<>>, m, m)
    /\ \A m, u : Leads(<<>>, m, u) => m = u
    <1>1. Len(<<>>) = 0
        OBVIOUS
    <1>2. ASSUME NEW m \in Machine PROVE Leads(<<>>, m, m)
        <2> DEFINE h == [i \in 0 .. 0 |-> m]
        <2>1. h \in [0 .. 0 -> Machine] /\ h[0] = m
            OBVIOUS
        <2> HIDE DEF h
        <2>2. Steps(<<>>, h)
            BY <1>1 DEF Steps
        <2>3. \E g \in [0 .. Len(<<>>) -> Machine] :
                  g[0] = m /\ g[Len(<<>>)] = m /\ Steps(<<>>, g)
            BY <1>1, <2>1, <2>2
        <2> QED
            BY <2>3 DEF Leads
    <1>3. ASSUME NEW m, NEW u, Leads(<<>>, m, u) PROVE m = u
        BY <1>1, <1>3 DEF Leads
    <1> QED
        BY <1>2, <1>3

\* One more line.
LEMMA LeadsAppend ==
    ASSUME NEW b \in Seq(Line), NEW l \in Line, NEW m, NEW u, Leads(b, m, u),
           HaltedFor(l, Exec(u, l))
    PROVE  Leads(Append(b, l), m, Exec(u, l)) /\ Exec(u, l) \in Machine
    <1> DEFINE n == Len(b)
               c == Append(b, l)
               v == Exec(u, l)
    <1>1. n \in Nat /\ Len(c) = n + 1 /\ c[n + 1] = l /\ \A i \in 1 .. n : c[i] = b[i]
        BY AppendProperties, LenProperties
    <1>2. PICK h \in [0 .. n -> Machine] : h[0] = m /\ h[n] = u /\ Steps(b, h)
        BY DEF Leads
    <1>3. v \in Machine
        <2>1. n \in 0 .. n
            BY <1>1
        <2>2. u \in Machine
            BY <1>2, <2>1
        <2> QED
            BY <2>2, ExecType
    <1> DEFINE g == [i \in 0 .. n + 1 |-> IF i = n + 1 THEN v ELSE h[i]]
    <1> HIDE DEF v
    <1>4. g \in [0 .. n + 1 -> Machine]
        BY <1>1, <1>2, <1>3
    <1>5. g[0] = m /\ g[n + 1] = v /\ \A i \in 0 .. n : g[i] = h[i]
        BY <1>1, <1>2
    <1> HIDE DEF c, g
    <1>6. ASSUME NEW i \in 1 .. n + 1
          PROVE  g[i] = Exec(g[i - 1], c[i]) /\ HaltedFor(c[i], g[i])
        <2>1. CASE i = n + 1
            <3>1. i - 1 = n /\ n \in 0 .. n
                BY <1>1, <2>1
            <3>2. g[i - 1] = u /\ c[i] = l /\ g[i] = v
                BY <1>1, <1>2, <1>5, <2>1, <3>1
            <3> QED
                BY <3>2 DEF v
        <2>2. CASE i # n + 1
            <3>1. i \in 1 .. n /\ i \in 0 .. n /\ i - 1 \in 0 .. n
                BY <1>1, <2>2
            <3> QED
                BY <1>1, <1>2, <1>5, <3>1 DEF Steps
        <2> QED
            BY <2>1, <2>2
    <1>7. Steps(c, g)
        BY <1>1, <1>6 DEF Steps
    <1>8. Leads(c, m, v)
        BY <1>1, <1>4, <1>5, <1>7 DEF Leads
    <1> QED
        BY <1>3, <1>8 DEF c, v

\* The first line is run.
LEMMA LeadsTail ==
    ASSUME NEW b \in Seq(Line), b # <<>>, NEW m, NEW u, Leads(b, m, u)
    PROVE  /\ Leads(Tail(b), Exec(m, Head(b)), u)
           /\ HaltedFor(Head(b), Exec(m, Head(b)))
    <1> DEFINE n == Len(b)
               c == Tail(b)
    <1>1. /\ n \in Nat \ {0} /\ Head(b) = b[1] /\ Len(c) = n - 1
          /\ \A i \in 1 .. n - 1 : c[i] = b[i + 1]
        BY HeadTailProperties, EmptySeq, LenProperties
    <1>2. PICK h \in [0 .. n -> Machine] : h[0] = m /\ h[n] = u /\ Steps(b, h)
        BY DEF Leads
    <1> DEFINE g == [i \in 0 .. n - 1 |-> h[i + 1]]
    <1>3. g \in [0 .. n - 1 -> Machine] /\ \A i \in 0 .. n - 1 : g[i] = h[i + 1]
        BY <1>1, <1>2
    <1>4. h[1] = Exec(m, Head(b)) /\ HaltedFor(Head(b), h[1])
        <2>1. 1 \in 1 .. n /\ 1 - 1 = 0
            BY <1>1
        <2> QED
            BY <1>1, <1>2, <2>1 DEF Steps
    <1> HIDE DEF c, g
    <1>5. g[0] = h[1] /\ g[n - 1] = u
        <2>1. 0 \in 0 .. n - 1 /\ n - 1 \in 0 .. n - 1 /\ n - 1 + 1 = n /\ 0 + 1 = 1
            BY <1>1
        <2>2. g[0] = h[1] /\ g[n - 1] = h[n]
            BY <1>3, <2>1
        <2> QED
            BY <1>2, <2>2
    <1>6. ASSUME NEW i \in 1 .. n - 1
          PROVE  g[i] = Exec(g[i - 1], c[i]) /\ HaltedFor(c[i], g[i])
        <2>1. i + 1 \in 1 .. n /\ i \in 0 .. n - 1 /\ i - 1 \in 0 .. n - 1 /\ i - 1 + 1 = i
              /\ i + 1 - 1 = i
            BY <1>1
        <2>2. g[i] = h[i + 1] /\ g[i - 1] = h[i] /\ c[i] = b[i + 1]
            BY <1>1, <1>3, <2>1
        <2>3. h[i + 1] = Exec(h[i], b[i + 1]) /\ HaltedFor(b[i + 1], h[i + 1])
            BY <1>2, <2>1 DEF Steps
        <2> QED
            BY <2>2, <2>3
    <1>7. Steps(c, g)
        BY <1>1, <1>6 DEF Steps
    <1>8. Leads(c, h[1], u)
        BY <1>1, <1>3, <1>5, <1>7 DEF Leads
    <1> QED
        BY <1>4, <1>8 DEF c

-----------------------------------------------------------------------------
(* One step, on any machine that is where the driver or the envelope is *)

LEMMA BegunStays ==
    ASSUME TypeInv, Wrote
    PROVE  (Begun => Begun') /\ (line'.w = "cut" => Begun')
    <1>1. body \in Seq(Line)
        BY DEF TypeInv, TypeOK
    <1>2. CASE line' = NoLine
        <2>1. body' = body /\ line'.w # "cut"
            BY <1>2 DEF Wrote, NoLine, Word, WordWith
        <2> QED
            BY <2>1 DEF Begun
    <1>3. CASE line' # NoLine
        <2>1. line' \in Line /\ body' = Append(body, line')
            BY <1>3 DEF Wrote
        <2>2. /\ DOMAIN body = 1 .. Len(body) /\ Len(body) \in Nat
              /\ DOMAIN body' = 1 .. Len(body) + 1 /\ body'[Len(body) + 1] = line'
              /\ \A i \in 1 .. Len(body) : body'[i] = body[i]
            BY <1>1, <2>1, AppendProperties, LenProperties
        <2>3. Len(body) + 1 \in DOMAIN body' /\ \A i \in DOMAIN body : i \in DOMAIN body'
            BY <2>2
        <2> QED
            BY <2>2, <2>3 DEF Begun
    <1> QED
        BY <1>2, <1>3

\* If a step takes every machine inside on to one that is inside, it keeps the promise
\* for all of them.
LEMMA AnywhereOn ==
    ASSUME TypeInv, Wrote, UNCHANGED <<plan, idx>>, NEW t, NEW s, Anywhere(t),
           \A u \in Machine : Inside(t, u) =>
              \A v : v = Exec(u, line') => Inside(s, v)' /\ HaltedFor(line', v)
    PROVE  Anywhere(s)' /\ HaltedFor(line', mach')
    <1>0. /\ mach \in Machine /\ body \in Seq(Line) /\ line' \in Line
          /\ mach' = Exec(mach, line') /\ op' = op /\ Swapping' = Swapping
        BY DEF TypeInv, TypeOK, Wrote, plan, op, Swapping
    <1>1. HaltedFor(line', mach') /\ Inside(s, mach)'
        <2>1. PICK v : v = Exec(mach, line')
            OBVIOUS
        <2>2. Inside(t, mach)
            BY DEF Anywhere
        <2>3. Inside(s, v)' /\ HaltedFor(line', v)
            BY <1>0, <2>1, <2>2
        <2>4. v = mach'
            BY <1>0, <2>1
        <2> QED
            BY <2>3, <2>4 DEF Inside, AtCut, AtChange
    <1>2. ASSUME NEW m \in Machine, Ready(op.tool, m, Swapping)'
          PROVE  \E u \in Machine : (Leads(body, m, u) /\ Inside(s, u))'
        <2>1. Ready(op.tool, m, Swapping)
            BY <1>0, <1>2 DEF Ready
        <2>2. PICK u \in Machine : Leads(body, m, u) /\ Inside(t, u)
            BY <2>1 DEF Anywhere
        <2>3. PICK v : v = Exec(u, line')
            OBVIOUS
        <2>4. Inside(s, v)' /\ HaltedFor(line', v)
            BY <2>2, <2>3
        <2>5. Leads(body', m, v) /\ v \in Machine
            <3>1. CASE line' = NoLine
                <4>1. v = u /\ body' = body
                    BY <2>3, <3>1 DEF Wrote, Exec, NoLine, Word, WordWith
                <4> QED
                    BY <2>2, <4>1
            <3>2. CASE line' # NoLine
                <4>1. body' = Append(body, line')
                    BY <3>2 DEF Wrote
                <4> QED
                    BY <1>0, <2>2, <2>3, <2>4, <4>1, LeadsAppend
            <3> QED
                BY <3>1, <3>2
        <2>6. (Leads(body, m, v))'
            BY <2>5 DEF Leads, Steps
        <2> QED
            BY <2>4, <2>5, <2>6
    <1>3. (\A m \in Machine : Ready(op.tool, m, Swapping) =>
              \E u \in Machine : Leads(body, m, u) /\ Inside(s, u))'
        BY <1>2
    <1> QED
        BY <1>1, <1>3 DEF Anywhere

\* The envelope halts every machine it may find before it changes the tool.
LEMMA ChangeOn ==
    ASSUME TypeInv, Change, NEW u \in Machine, AtChange(u), NEW v, v = Exec(u, line')
    PROVE  /\ Changing' => AtChange(v)'
           /\ ~ Changing' => Ready(env.tool, v, Swapping) /\ Wary(post', v)
           /\ HaltedFor(line', v)
    <1> USE DEF ChangePC
    <1>0. /\ post \in PostState /\ env.tool \in Tools /\ env.spin \in Spins
          /\ env.first \in BOOLEAN /\ env.back \in {"mark", "step"} /\ env' = env
          /\ proj \in Project /\ Swapping' = Swapping /\ Wary(post, u) /\ v \in Machine
        <2>1. Changing /\ env' = env /\ UNCHANGED plan /\ env.back \in {"mark", "step"}
            BY ChangeLeads
        <2>2. Wrote
            BY ChangeWrites
        <2> QED
            BY <2>1, <2>2, ExecType DEF TypeInv, TypeOK, Placed, Env, Wrote, AtChange, plan, Swapping
    <1>a. pc # "swap" => HaltedFor(line', v)
        BY ChangeWrites DEF HaltedFor, Guided
    <1>b. ASSUME pc' \in ChangePC, Wary(post', v),
                 pc' \in {"station", "coolant", "stop", "swap"} => v.z = "clear",
                 pc' \in {"stop", "swap", "postz", "spinup"} => v.cool = "off",
                 pc' = "swap" => v.spin = Off,
                 pc' \in {"postz", "spinup"} /\ Swapping => v.tool = env.tool,
                 env.first /\ pc' \in {"lift", "station", "coolant", "stop"} =>
                    v.cool = "off" /\ v.spin = Off,
                 HaltedFor(line', v)
          PROVE  /\ Changing' => AtChange(v)'
                 /\ ~ Changing' => Ready(env.tool, v, Swapping) /\ Wary(post', v)
                 /\ HaltedFor(line', v)
        <2>1. AtChange(v)'
            BY <1>0, <1>b DEF AtChange, Wary
        <2> QED
            BY <1>b, <2>1 DEF Changing
    <1>c. ASSUME pc' = env.back, Wary(post', v), v.cool = "off", Swapping => v.tool = env.tool,
                 HaltedFor(line', v)
          PROVE  /\ Changing' => AtChange(v)'
                 /\ ~ Changing' => Ready(env.tool, v, Swapping) /\ Wary(post', v)
                 /\ HaltedFor(line', v)
        BY <1>0, <1>c DEF Changing, Ready
    <1>1. CASE EnvLift
        <2>1. /\ pc = "lift" /\ pc' = "station" /\ post' = MoveToFastZ(post).post
              /\ line' = MoveToFastZ(post).line
            BY <1>1 DEF EnvLift, Envelope, Write
        <2>2. Wary(post', v) /\ v.z = "clear" /\ v.spin = u.spin /\ v.cool = u.cool
            BY <1>0, <2>1, WaryLift
        <2> QED
            BY <1>a, <1>b, <2>1, <2>2 DEF AtChange
    <1>2. CASE EnvStation
        <2> DEFINE r == IF ~ env.first /\ proj.machine.station THEN MachineMove(post, "station")
                        ELSE Silent(post)
        <2>1. pc = "station" /\ pc' = "coolant" /\ post' = r.post /\ line' = r.line
            BY <1>2 DEF EnvStation, Envelope, Write
        <2>2. r \in {MachineMove(post, "station"), Silent(post)}
            OBVIOUS
        <2> HIDE DEF r
        <2>3. Wary(post', v) /\ v.z = u.z /\ v.spin = u.spin /\ v.cool = u.cool
            <3>1. CASE r = MachineMove(post, "station")
                BY <1>0, <2>1, <3>1, WaryMove
            <3>2. CASE r = Silent(post)
                BY <1>0, <2>1, <3>2, WarySilent
            <3> QED
                BY <2>2, <3>1, <3>2
        <2> QED
            BY <1>a, <1>b, <2>1, <2>3 DEF AtChange
    <1>3. CASE EnvCoolant
        <2>1. pc = "coolant" /\ pc' = "stop"
            BY <1>3 DEF EnvCoolant, Envelope
        <2>2. CASE ~ env.first /\ post.cool \in CoolantOn
            <3>1. post' = CoolantOff(post).post /\ line' = CoolantOff(post).line
                BY <1>3, <2>2 DEF EnvCoolant, Envelope, Write
            <3>2. Wary(post', v) /\ v.cool = "off" /\ v.z = u.z /\ v.spin = u.spin
                BY <1>0, <3>1, WaryDry
            <3> QED
                BY <1>a, <1>b, <2>1, <2>2, <3>2 DEF AtChange
        <2>3. CASE ~ (~ env.first /\ post.cool \in CoolantOn)
            <3>1. post' = Silent(post).post /\ line' = Silent(post).line
                BY <1>3, <2>3 DEF EnvCoolant, Envelope, Write
            <3>2. Wary(post', v) /\ v = u
                BY <1>0, <3>1, WarySilent
            <3>3. u.cool = "off"
                <4>1. u.cool \in {"off"} \cup CoolantOn
                    BY DEF Machine
                <4>2. CASE env.first
                    BY <2>1, <4>2 DEF AtChange
                <4>3. CASE ~ env.first
                    BY <1>0, <2>3, <4>1, <4>3 DEF Wary
                <4> QED
                    BY <4>2, <4>3
            <3> QED
                BY <1>a, <1>b, <2>1, <3>2, <3>3 DEF AtChange
        <2> QED
            BY <2>2, <2>3
    <1>4. CASE EnvStop
        <2>1. pc = "stop" /\ pc' = "swap"
            BY <1>4 DEF EnvStop, Envelope
        <2>2. CASE env.first
            <3>1. post' = Silent(post).post /\ line' = Silent(post).line
                BY <1>4, <2>2 DEF EnvStop, Envelope, Write
            <3>2. Wary(post', v) /\ v = u
                BY <1>0, <3>1, WarySilent
            <3> QED
                BY <1>a, <1>b, <2>1, <2>2, <3>2 DEF AtChange
        <2>3. CASE ~ env.first
            <3>1. post' = SpindleOff(post).post /\ line' = SpindleOff(post).line
                BY <1>4, <2>3 DEF EnvStop, Envelope, Write
            <3>2. Wary(post', v) /\ v.spin = Off /\ v.cool = u.cool /\ v.z = u.z
                BY <1>0, <3>1, WaryStop
            <3> QED
                BY <1>a, <1>b, <2>1, <2>3, <3>2 DEF AtChange
        <2> QED
            BY <2>2, <2>3
    <1>5. CASE EnvSwap
        <2>1. /\ pc = "swap" /\ post' = SwapLine.post /\ line' = SwapLine.line
              /\ pc' = IF proj.machine.change = "Ignore" THEN env.back ELSE "postz"
            BY <1>5 DEF EnvSwap, Write
        <2>2. Halted(u)
            BY <2>1 DEF AtChange, Halted
        <2>3. CASE proj.machine.change = "Ignore"
            <3>1. SwapLine = Silent(post) /\ ~ Swapping /\ pc' = env.back
                BY <2>1, <2>3 DEF SwapLine, Swapping
            <3>2. Wary(post', v) /\ v = u
                BY <1>0, <2>1, <3>1, WarySilent
            <3> QED
                BY <1>c, <2>2, <3>1, <3>2 DEF Halted, HaltedFor
        <2>4. CASE proj.machine.change # "Ignore"
            <3>1. pc' = "postz" /\ proj.machine.change \in {"Atc", "ManualM0Pause"}
                BY <1>0, <2>1, <2>4 DEF Project, MachineConfig
            <3>2. PICK w \in {"swap", "load"} : SwapLine = Emits(SwapWord(w, env.tool), post)
                BY <3>1 DEF SwapLine, ToolWord, Raw
            <3>3. /\ post' = post /\ v.tool = env.tool /\ v.cool = u.cool /\ v.spin = u.spin
                  /\ v.z = u.z
                BY <2>1, <3>2 DEF Emits, SwapWord, Exec, Machine
            <3>4. Wary(post', v) /\ Halted(v)
                BY <1>0, <2>2, <3>3 DEF Wary, Halted
            <3> QED
                BY <1>b, <3>1, <3>3, <3>4 DEF Halted, HaltedFor
        <2> QED
            BY <2>3, <2>4
    <1>6. CASE EnvPostZ
        <2> DEFINE r == CASE proj.machine.postZ = "sensor" -> MachineMove(post, "sensor")
                          [] proj.machine.postZ = "probe" /\ ~ env.first -> MachineMove(post, "probe")
                          [] proj.machine.postZ = "forget" -> ForgetZ(post)
                          [] OTHER -> Silent(post)
        <2>1. pc = "postz" /\ pc' = "spinup" /\ post' = r.post /\ line' = r.line
            BY <1>6 DEF EnvPostZ, Envelope, Write
        <2>2. r \in {MachineMove(post, "sensor"), MachineMove(post, "probe"), ForgetZ(post), Silent(post)}
            BY <1>0
        <2> HIDE DEF r
        <2>3. Wary(post', v) /\ v.cool = u.cool /\ v.tool = u.tool
            <3>1. CASE r \in {MachineMove(post, "sensor"), MachineMove(post, "probe")}
                <4>1. PICK w \in {"sensor", "probe"} : r = MachineMove(post, w)
                    BY <3>1
                <4> QED
                    BY <1>0, <2>1, <4>1, WaryMove
            <3>2. CASE r \in {Silent(post), ForgetZ(post)}
                BY <1>0, <2>1, <3>2, WarySilent
            <3> QED
                BY <2>2, <3>1, <3>2
        <2> QED
            BY <1>a, <1>b, <2>1, <2>3 DEF AtChange
    <1>7. CASE EnvSpinUp
        <2>1. pc = "spinup" /\ pc' = env.back
            BY <1>7 DEF EnvSpinUp, Envelope
        <2>2. PICK p \in {post, ResetState(post)} :
                  post' = SpindleOn(p, env.spin).post /\ line' = SpindleOn(p, env.spin).line
            BY <1>7 DEF EnvSpinUp, Envelope, Write
        <2>3. p \in PostState /\ Wary(p, u)
            BY <1>0, WaryReset
        <2>4. Wary(post', v) /\ v.tool = u.tool /\ v.cool = u.cool
            BY <1>0, <2>2, <2>3, WarySpin
        <2> QED
            BY <1>a, <1>c, <2>1, <2>4 DEF AtChange
    <1> QED
        BY <1>1, <1>2, <1>3, <1>4, <1>5, <1>6, <1>7 DEF Change

\* Only a cut makes the difference.
LEMMA BegunByCuts ==
    ASSUME TypeInv, Wrote, line'.w # "cut"
    PROVE  Begun' => Begun
    <1>1. body \in Seq(Line)
        BY DEF TypeInv, TypeOK
    <1>2. CASE line' = NoLine
        BY <1>2 DEF Wrote, Begun
    <1>3. CASE line' # NoLine
        <2>1. line' \in Line /\ body' = Append(body, line')
            BY <1>3 DEF Wrote
        <2>2. /\ DOMAIN body = 1 .. Len(body) /\ Len(body) \in Nat
              /\ DOMAIN body' = 1 .. Len(body) + 1 /\ body'[Len(body) + 1] = line'
              /\ \A i \in 1 .. Len(body) : body'[i] = body[i]
            BY <1>1, <2>1, AppendProperties, LenProperties
        <2>3. ASSUME NEW i \in DOMAIN body', body'[i].w = "cut"
              PROVE  i \in DOMAIN body /\ body[i].w = "cut"
            <3>1. i = Len(body) + 1 \/ i \in 1 .. Len(body)
                BY <2>2
            <3>2. i # Len(body) + 1
                BY <2>2, <2>3
            <3> QED
                BY <2>2, <2>3, <3>1, <3>2
        <2> QED
            BY <2>3 DEF Begun
    <1> QED
        BY <1>2, <1>3

\* A step of the cut is the same on every machine inside.
LEMMA CutOn ==
    ASSUME TypeInv, CutSpin \/ CutCoolant \/ CutEntry, pc \in CutPC => Head(script).do = "cut",
           NEW t, NEW u \in Machine, Inside(t, u), NEW v, v = Exec(u, line')
    PROVE  Inside(t, v)' /\ HaltedFor(line', v)
    <1> USE DEF CutPC
    <1>1. /\ Wrote /\ line'.w \notin Guided /\ pc' \in CutPC /\ pc \in {"step"} \cup CutPC
          /\ UNCHANGED <<plan, idx, script>>
          /\ script # <<>> /\ Head(script).do = "cut"
        BY DriverWrites DEF TypeInv, Placed
    <1>2. op' = op /\ Swapping' = Swapping
        BY <1>1 DEF plan, op, Swapping
    <1>3. AtCut(t, u)
        BY <1>1 DEF Inside, Cutting
    <1>4. Head(script) = script[1] /\ script[1] \in Step /\ t = script[1].tool
        <2>1. script \in Seq(Step)
            BY DEF TypeInv, TypeOK
        <2>2. Head(script) = script[1] /\ script[1] \in Step
            BY <1>1, <1>3, <2>1, TailGoes DEF AtCut
        <2> QED
            BY <1>1, <1>3, <2>2 DEF AtCut, Goes
    <1>5. t \in Tools /\ post \in PostState /\ script[1].spin \in Spins
        BY <1>4 DEF Step, TypeInv, TypeOK
    <1>6. Begun' => Begun
        BY <1>1, BegunByCuts DEF Guided
    <1>7. HaltedFor(line', v)
        BY <1>1 DEF HaltedFor, Guided
    <1>8. Begun => Begun'
        BY <1>1, BegunStays
    <1>9. ASSUME Ready(t, v, Swapping), Begun => Wary(post', v), post'.lit,
                 pc' \in {"entry", "cut"} /\ v.cool \in CoolantOn => post'.cool \in CoolantOn
          PROVE  Inside(t, v)' /\ HaltedFor(line', v)
        <2>1. AtCut(t, v)'
            BY <1>1, <1>2, <1>3, <1>6, <1>8, <1>9 DEF AtCut
        <2> QED
            BY <1>1, <1>7, <2>1 DEF Inside, Changing, ChangePC
    <1>10. CASE CutSpin
        <2>1. /\ pc' = "cool" /\ post' = SpindleOn(post, script[1].spin).post
              /\ line' = SpindleOn(post, script[1].spin).line
            BY <1>4, <1>10 DEF CutSpin, Write
        <2>2. /\ post'.lit /\ v.tool = u.tool /\ v.cool = u.cool
              /\ Wary(post, u) => Wary(post', v)
            BY <1>5, <2>1, WarySpin
        <2> QED
            BY <1>3, <1>9, <2>1, <2>2 DEF AtCut, Ready
    <1>11. CASE CutCoolant
        <2> DEFINE c == ToolCoolant[t]
        <2>1. /\ pc = "cool" /\ post' = Coolant(post, c).post /\ line' = Coolant(post, c).line
            BY <1>4, <1>11 DEF CutCoolant, Write
        <2>2. c \in {"off"} \cup CoolantOn /\ u.cool \in {"off", c}
            BY <1>3, <1>5, PerOpAssumption DEF AtCut, Ready
        <2> HIDE DEF c
        <2>3. /\ v.cool \in CoolantOn => post'.cool \in CoolantOn
              /\ v.cool \in {"off", c} /\ v.tool = u.tool
              /\ post'.lit = post.lit
              /\ Wary(post, u) => Wary(post', v)
            BY <1>5, <2>1, <2>2, WaryCool
        <2> QED
            BY <1>3, <1>5, <1>9, <2>1, <2>3 DEF AtCut, Ready, c
    <1>12. CASE CutEntry
        <2>1. pc = "entry" /\ post' = RapidToEntry(post).post /\ line' = RapidToEntry(post).line
            BY <1>12 DEF CutEntry, Write
        <2>2. /\ post'.lit = post.lit /\ post'.cool = post.cool
              /\ v.tool = u.tool /\ v.cool = u.cool
              /\ Wary(post, u) => Wary(post', v)
            BY <1>5, <2>1, WaryEntry
        <2> QED
            BY <1>3, <1>9, <2>1, <2>2 DEF AtCut, Ready
    <1> QED
        BY <1>10, <1>11, <1>12

LEMMA PassOn ==
    ASSUME TypeInv, CutPass, pc \in CutPC => Head(script).do = "cut",
           NEW t, NEW u \in Machine, Inside(t, u), NEW v, v = Exec(u, line')
    PROVE  Inside(t, v)' /\ HaltedFor(line', v)
    <1> DEFINE l == [w |-> "cut", tool |-> Head(script).tool, v |-> Head(script).spin]
    <1>1. /\ pc = "cut" /\ pc' = "step" /\ script' = Tail(script) /\ UNCHANGED <<plan, idx>>
          /\ Write(Emits(l, post))
        BY DEF CutPass
    <1>2. script # <<>> /\ Head(script).do = "cut" /\ script \in Seq(Step) /\ post \in PostState
        BY <1>1 DEF TypeInv, TypeOK, Placed, CutPC
    <1>3. Wrote /\ line' = l /\ post' = post
        <2>1. TypeInv'
            BY CuttingType DEF CuttingOp
        <2>2. post' = post
            BY <1>1 DEF Write, Emits
        <2> QED
            BY <1>1, <2>1, <2>2, WriteWrote DEF Emits
    <1>4. line'.w = "cut"
        BY <1>3
    <1> HIDE DEF l
    <1>5. op' = op /\ Swapping' = Swapping
        BY <1>1 DEF plan, op, Swapping
    <1>6. AtCut(t, u)
        BY <1>1 DEF Inside, Cutting, CutPC
    <1>7. t = script[1].tool /\ Goes(script', t, HeldAfter(op))
        <2>1. Head(script) = script[1] /\ Goes(Tail(script), script[1].tool, HeldAfter(op))
            BY <1>2, <1>6, TailGoes DEF AtCut
        <2> QED
            BY <1>1, <1>2, <1>6, <2>1 DEF AtCut, Goes
    <1>8. Wary(post', v) /\ v.tool = u.tool /\ v.cool = u.cool
        BY <1>1, <1>2, <1>3, <1>4, <1>6, WaryCut DEF AtCut, CutPC
    <1>9. Begun'
        BY <1>3, <1>4, BegunStays
    <1>10. AtCut(t, v)'
        BY <1>1, <1>5, <1>6, <1>7, <1>8, <1>9 DEF AtCut, Ready, CutPC
    <1> QED
        BY <1>1, <1>4, <1>10 DEF Inside, Changing, ChangePC, HaltedFor

LEMMA SwapOn ==
    ASSUME TypeInv, SwapStep, NEW t, NEW u \in Machine, Inside(t, u), NEW v, v = Exec(u, line'),
           NEW s, s = env'.tool
    PROVE  Inside(s, v)' /\ HaltedFor(line', v)
    <1>1. /\ pc = "step" /\ pc' = "lift" /\ UNCHANGED <<plan, idx, post, body>>
          /\ line' = NoLine /\ script # <<>> /\ script' = Tail(script)
          /\ Head(script).do = "swap" /\ env'.tool = Head(script).tool /\ env'.first = FALSE
        BY DEF SwapStep, output
    <1>2. op' = op /\ Swapping' = Swapping /\ Begun' = Begun
        BY <1>1 DEF plan, op, Swapping, Begun
    <1>3. AtCut(t, u)
        BY <1>1 DEF Inside, Cutting
    <1>4. /\ Head(script) = script[1]
          /\ Goes(script', s, HeldAfter(op))
        <2>1. script \in Seq(Step)
            BY DEF TypeInv, TypeOK
        <2> QED
            BY <1>1, <1>3, <2>1, TailGoes DEF AtCut
    <1>5. Begun /\ Wary(post, u)
        BY <1>1, <1>3, <1>4 DEF AtCut
    <1>6. v = u
        BY <1>1 DEF Exec, NoLine, Word, WordWith
    <1>7. AtChange(v)'
        BY <1>1, <1>5, <1>6 DEF AtChange
    <1>8. HaltedFor(line', v)
        BY <1>1 DEF HaltedFor, NoLine, Word, WordWith
    <1> QED
        BY <1>1, <1>2, <1>4, <1>5, <1>7, <1>8 DEF Inside, Cutting, CutPC, Changing, ChangePC

LEMMA SwappingOn ==
    ASSUME TypeInv, Change, env.back = "step", NEW u \in Machine, Inside(env.tool, u),
           NEW v, v = Exec(u, line')
    PROVE  Inside(env.tool, v)' /\ HaltedFor(line', v)
    <1>1. /\ UNCHANGED <<plan, idx, env, script>> /\ Changing /\ (Changing' \/ pc' = "step")
          /\ Wrote
        BY ChangeLeads, ChangeWrites
    <1>2. op' = op /\ Swapping' = Swapping
        BY <1>1 DEF plan, op, Swapping
    <1>3. AtChange(u) /\ Begun /\ Goes(script, env.tool, HeldAfter(op))
        BY <1>1 DEF Inside
    <1>4. /\ Changing' => AtChange(v)'
          /\ ~ Changing' => Ready(env.tool, v, Swapping) /\ Wary(post', v)
          /\ HaltedFor(line', v)
        BY <1>3, ChangeOn
    <1>5. Begun'
        BY <1>1, <1>3, BegunStays
    <1>6. CASE Changing'
        BY <1>1, <1>2, <1>3, <1>4, <1>5, <1>6 DEF Inside, Cutting, Changing, ChangePC, CutPC
    <1>7. CASE ~ Changing'
        <2>1. pc' = "step"
            BY <1>1, <1>7
        <2>2. AtCut(env.tool, v)'
            BY <1>1, <1>2, <1>3, <1>4, <1>5, <1>7, <2>1 DEF AtCut, CutPC
        <2> QED
            BY <1>4, <1>7, <2>1, <2>2 DEF Inside
    <1> QED
        BY <1>6, <1>7

-----------------------------------------------------------------------------
(* The steps *)

\* Each part is said of places of its own.
LEMMA SwapElsewhere ==
    /\ pc' \in ChangePC => SwapBetween' /\ SwapRaw' /\ SwapReplaying'
    /\ pc' \in ChangePC /\ env'.back = "mark" => SwapDriving'
    /\ pc' \in ChangePC /\ env'.back # "mark" => SwapChanging'
    /\ pc' \in {"step"} \cup CutPC =>
          SwapBetween' /\ SwapRaw' /\ SwapReplaying' /\ SwapChanging'
    /\ pc' \in {"top", "mark", "raw", "lookup", "plan"} =>
          SwapReplaying' /\ SwapDriving' /\ SwapChanging'
    /\ pc' \in {"top", "lookup", "plan"} => SwapRaw'
    /\ pc' = "replay" => SwapBetween' /\ SwapRaw' /\ SwapDriving' /\ SwapChanging'
    /\ pc' \in EndPC \cup Ended =>
          SwapBetween' /\ SwapRaw' /\ SwapReplaying' /\ SwapDriving' /\ SwapChanging'
    BY DEF SwapBetween, SwapRaw, SwapReplaying, SwapDriving, SwapChanging, Outside, Entering,
       Driving, Changing, ChangePC, CutPC, EndPC, Ended

\* A step that writes no line halts no machine and changes no tool.
LEMMA NoLineHalts == HaltedFor(NoLine, mach) /\ \A m : Exec(m, NoLine) = m
    BY DEF HaltedFor, NoLine, Word, WordWith, Exec

LEMMA SwapGenerate ==
    ASSUME Generate
    PROVE  SwapPlace'
    <1>1. /\ pc' = "top" /\ prevTool' = NoTool /\ post' = MoveToFastZ(FreshPost).post
          /\ line' = MoveToFastZ(FreshPost).line /\ mach' = Exec(ColdMachine, line')
        BY DEF Generate, StartGenerate
    <1>2. /\ FreshPost \in PostState /\ ColdMachine \in Machine
          /\ Wary(FreshPost, ColdMachine)
        BY DEF FreshPost, PostState, ColdMachine, Machine, Wary, CoolantOn
    <1>3. Wary(post', mach') /\ mach'.tool = NoTool /\ mach'.spin = Off /\ mach'.cool = "off"
        <2>1. /\ Wary(post', mach') /\ mach'.tool = ColdMachine.tool
              /\ mach'.spin = ColdMachine.spin /\ mach'.cool = ColdMachine.cool
            BY <1>1, <1>2, WaryLift
        <2> QED
            BY <2>1 DEF ColdMachine
    <1>4. SwapBetween'
        BY <1>1, <1>3 DEF SwapBetween, Entering, Ready
    <1>5. HaltedFor(line, mach)'
        <2>1. line' \in {NoLine, Word("lift")}
            BY <1>1, CallWords
        <2> QED
            BY <2>1 DEF HaltedFor, NoLine, Word, WordWith
    <1> QED
        BY <1>1, <1>4, <1>5, SwapElsewhere DEF SwapPlace

LEMMA SwapBoundary ==
    ASSUME TypeInv, Marks, SwapInv, Boundary
    PROVE  SwapPlace'
    <1> USE DEF Ended
    <1>0. SwapBetween /\ SwapRaw /\ SwapReplaying /\ HaltedFor(line, mach)
        BY DEF SwapInv, SwapPlace
    <1>a. mach \in Machine /\ tape \in Seq(Line) /\ post \in PostState
        BY DEF TypeInv, TypeOK
    <1>b. line' = NoLine => HaltedFor(line, mach)'
        BY DEF HaltedFor, NoLine, Word, WordWith
    <1>1. CASE BeginOp
        <2>1. /\ pc = "top" /\ UNCHANGED <<plan, idx, mach>> /\ line' = NoLine
              /\ idx \in DOMAIN queue /\ post' = ResetState(post)
              /\ prevTool' = IF NeedsChange(op) THEN op.tool ELSE prevTool
            BY <1>1, LenProperties DEF BeginOp, TypeInv, TypeOK
        <2>2. op' = op /\ Swapping' = Swapping /\ (IsProgramOnly(op) \/ op.gate)
            BY <2>1 DEF plan, op, Swapping, SwapInv, CutsFirst, Plainly
        <2>3. Wary(post', mach') /\ ~ post'.z
            BY <1>0, <1>a, <2>1, WaryReset DEF SwapBetween, Outside
        <2>4. Ready(prevTool, mach, Swapping) /\ (prevTool = NoTool => mach.spin = Off)
            BY <1>0, <2>1 DEF SwapBetween, Outside
        <2>5. CASE NeedsChange(op) /\ op.tool \in Tools
            <3>1. pc' = "lift" /\ env'.back = "mark" /\ env'.first = (prevTool = NoTool)
                BY <1>1, <2>5 DEF BeginOp
            <3>2. env'.first => mach.cool = "off" /\ mach.spin = Off
                BY <2>4, <3>1, ToolsAssumption DEF Ready
            <3>3. SwapChanging'
                BY <2>1, <2>3, <3>1, <3>2 DEF SwapChanging, AtChange
            <3> QED
                BY <1>b, <2>1, <3>1, <3>3, SwapElsewhere DEF ChangePC, SwapPlace
        <2>6. CASE ~ (NeedsChange(op) /\ op.tool \in Tools)
            <3>1. pc' = "mark"
                BY <1>1, <2>6 DEF BeginOp
            <3>2. SwapBetween'
                BY <2>1, <2>2, <2>3, <2>4, <2>6, <3>1
                   DEF SwapBetween, Outside, Entering, NeedsChange
            <3>3. SwapRaw'
                BY <2>3, <3>1 DEF SwapRaw
            <3> QED
                BY <1>b, <2>1, <3>1, <3>2, <3>3, SwapElsewhere DEF SwapPlace
        <2> QED
            BY <2>5, <2>6
    <1>2. CASE Mark
        <2>1. /\ pc = "mark" /\ UNCHANGED <<plan, idx, mach, post, prevTool>> /\ line' = NoLine
              /\ IF IsProgramOnly(op) THEN tape' = RawLines(op) /\ pc' = "raw"
                                      ELSE pc' = "lookup"
            BY <1>2 DEF Mark, book
        <2>2. op' = op /\ Swapping' = Swapping
            BY <2>1 DEF plan, op, Swapping
        <2>3. SwapBetween'
            BY <1>0, <2>1, <2>2 DEF SwapBetween, Outside, Entering
        <2>4. SwapRaw'
            <3>1. op \in Op /\ Plainly(op)
                <4>1. idx \in DOMAIN queue
                    BY <2>1 DEF TypeInv, Placed, InOp, BoundaryPC
                <4> QED
                    BY <4>1 DEF op, SwapInv, CutsFirst, TypeInv, TypeOK
            <3>2. \A j \in DOMAIN RawLines(op) : RawLines(op)[j].w \in Inert
                BY <3>1, RawLinesInert
            <3> QED
                BY <1>0, <2>1, <3>2 DEF SwapRaw
        <2> QED
            BY <1>b, <2>1, <2>3, <2>4, SwapElsewhere DEF SwapPlace
    <1>3. CASE PlayTape
        <2>1. /\ pc \in {"raw", "replay"} /\ pc' = pc /\ tape # <<>> /\ tape' = Tail(tape)
              /\ UNCHANGED <<plan, idx, post, prevTool, cache>>
              /\ line' = Head(tape) /\ mach' = Exec(mach, Head(tape))
            BY <1>3 DEF PlayTape, Write, Raw, Emits, book
        <2>2. Head(tape) = tape[1] /\ Head(tape) \in Line /\ 1 \in DOMAIN tape
            BY <1>a, <2>1, HeadTailProperties, EmptySeq, LenProperties
        <2>3. op' = op /\ Swapping' = Swapping /\ LastEntry' = LastEntry
            BY <2>1 DEF plan, op, Swapping, LastEntry
        <2>4. CASE pc = "raw"
            <3>1. Head(tape).w \in Inert /\ ~ post.z /\ Wary(post, mach)
                BY <1>0, <2>2, <2>4 DEF SwapRaw, SwapBetween, Outside
            <3>2. /\ Wary(post', mach') /\ mach'.tool = mach.tool /\ mach'.cool = mach.cool
                  /\ mach'.spin \in {mach.spin, Off}
                <4>1. /\ Wary(post, mach') /\ mach'.tool = mach.tool /\ mach'.cool = mach.cool
                      /\ mach'.spin \in {mach.spin, Off}
                    BY <1>a, <2>1, <3>1, WaryRaw
                <4> QED
                    BY <2>1, <4>1
            <3>3. SwapBetween'
                BY <1>0, <2>1, <2>3, <2>4, <3>2 DEF SwapBetween, Outside, Entering, Ready
            <3>4. SwapRaw'
                <4>1. /\ Len(tape) \in Nat /\ DOMAIN tape' = 1 .. Len(tape) - 1
                      /\ \A j \in 1 .. Len(tape) - 1 : tape'[j] = tape[j + 1] /\ j + 1 \in DOMAIN tape
                    BY <1>a, <2>1, HeadTailProperties, LenProperties, EmptySeq
                <4> QED
                    BY <1>0, <2>1, <2>4, <3>1, <4>1 DEF SwapRaw
            <3>5. HaltedFor(line, mach)'
                BY <2>1, <3>1 DEF HaltedFor, Inert
            <3> QED
                BY <2>1, <2>4, <3>3, <3>4, <3>5, SwapElsewhere DEF SwapPlace
        <2>5. CASE pc = "replay"
            <3>1. PICK u \in Machine : /\ Leads(tape, mach, u)
                                       /\ Ready(HeldAfter(op), u, Swapping) /\ Wary(LastEntry.exit, u)
                BY <1>0, <2>5 DEF SwapReplaying
            <3>2. Leads(tape', mach', u) /\ HaltedFor(line', mach')
                BY <1>a, <2>1, <3>1, LeadsTail
            <3>3. SwapReplaying'
                <4>1. Leads(tape, mach, u)'
                    BY <3>2 DEF Leads, Steps
                <4>2. (Ready(HeldAfter(op), u, Swapping) /\ Wary(LastEntry.exit, u))'
                    BY <2>3, <3>1
                <4> QED
                    BY <4>1, <4>2 DEF SwapReplaying
            <3>4. HaltedFor(line, mach)'
                BY <3>2 DEF HaltedFor, Halted
            <3> QED
                BY <2>1, <2>5, <3>3, <3>4, SwapElsewhere DEF SwapPlace
        <2> QED
            BY <2>1, <2>4, <2>5
    <1>4. CASE EndRaw
        <2>1. /\ pc = "raw" /\ pc' = "top" /\ UNCHANGED <<plan, mach, prevTool>> /\ line' = NoLine
              /\ post' = ResetState(post)
            BY <1>4 DEF EndRaw, book
        <2>2. Swapping' = Swapping /\ Wary(post', mach')
            BY <1>0, <1>a, <2>1, WaryReset DEF plan, Swapping, SwapBetween, Outside
        <2>3. SwapBetween'
            BY <1>0, <2>1, <2>2 DEF SwapBetween, Outside, Entering
        <2> QED
            BY <1>b, <2>1, <2>3, SwapElsewhere DEF SwapPlace
    <1>5. CASE Cancelled
        <2>1. pc' = "cancelled" /\ UNCHANGED <<mach, line>>
            BY <1>5 DEF Cancelled, output
        <2>2. HaltedFor(line, mach)'
            BY <1>0, <2>1 DEF HaltedFor, Halted
        <2> QED
            BY <2>1, <2>2, SwapElsewhere DEF SwapPlace
    <1> QED
        BY <1>1, <1>2, <1>3, <1>4, <1>5 DEF Boundary

\* An operation that cuts first begins its script with a cut.
LEMMA ScriptCuts ==
    ASSUME proj \in Project, NEW o \in Op, o.tool \in Tools, CutsFirst(o), ~ IsProgramOnly(o)
    PROVE  Script(o) # <<>> /\ Script(o)[1].do = "cut"
    <1> DEFINE rest == SpotPass(o) \o <<Cut(o, o.tool)>>
    <1>1. o.rough /\ o.spot \in {NoTool, o.tool} /\ Script(o) = rest \o FinishPass(o)
        BY DEF CutsFirst, Script
    <1>2. Cut(o, o.tool) \in Step /\ Cut(o, o.tool).do = "cut"
        BY ResolvedType DEF Cut, Step
    <1>3. SpotPass(o) \in {<<>>, <<Cut(o, o.tool)>>}
        BY <1>1 DEF SpotPass
    <1>4. rest \in Seq(Step) /\ Len(rest) >= 1 /\ rest[1] = Cut(o, o.tool)
        <2>1. PICK c \in Step : c = Cut(o, o.tool)
            BY <1>2
        <2>2. <<c>> \in Seq(Step) /\ Len(<<c>>) = 1 /\ <<c>>[1] = c
            BY <2>1
        <2>3. <<>> \in Seq(Step) /\ Len(<<>>) = 0
            OBVIOUS
        <2> DEFINE a == SpotPass(o)
        <2>4. a \in Seq(Step) /\ (Len(a) = 0 \/ (Len(a) = 1 /\ a[1] = c))
            <3>1. CASE a = <<>>
                BY <2>3, <3>1
            <3>2. CASE a = <<c>>
                BY <2>2, <3>2
            <3> QED
                BY <1>3, <2>1, <3>1, <3>2
        <2>5. rest = a \o <<c>>
            BY <2>1
        <2> HIDE DEF a
        <2> HIDE DEF rest
        <2>6. /\ rest \in Seq(Step) /\ Len(rest) = Len(a) + 1
              /\ rest[1] = IF 1 <= Len(a) THEN a[1] ELSE <<c>>[1 - Len(a)]
            BY <2>2, <2>4, <2>5, ConcatProperties
        <2> QED
            BY <2>1, <2>2, <2>4, <2>6
    <1>5. FinishPass(o) \in Seq(Step)
        <2>1. HasFinish(o) => o.finish \in Tools
            BY DEF Op, OpRecord, HasFinish
        <2>2. Swaps(o) => Cut(o, o.finish) \in Step /\ SwapTo(o.finish, Resolved(o, o.finish)) \in Step
            BY <2>1, ResolvedType DEF Swaps, Cut, SwapTo, Step
        <2> QED
            BY <2>2 DEF FinishPass
    <1> HIDE DEF rest
    <1>6. Len(Script(o)) >= 1 /\ Script(o)[1] = rest[1]
        BY <1>1, <1>4, <1>5, ConcatProperties, LenProperties
    <1>7. Script(o) # <<>>
        BY <1>6, Len(<<>>) = 0
    <1> QED
        BY <1>2, <1>4, <1>6, <1>7

\* What is stored at the end of an operation may be run by any machine ready for it.
LEMMA FinishSafe ==
    ASSUME TypeInv, SwapInv, Finish
    PROVE  /\ op \notin Oversized => EntrySafe(Entry(op))
           /\ Ready(HeldAfter(op), mach, Swapping) /\ Wary(post, mach)
    <1>1. pc = "step" /\ script = <<>>
        BY DEF Finish
    <1>2. PICK t \in Tools : Anywhere(t)
        BY <1>1 DEF SwapInv, SwapPlace, SwapDriving, Driving
    <1>3. ASSUME NEW u \in Machine, Inside(t, u)
          PROVE  Ready(HeldAfter(op), u, Swapping) /\ Wary(post, u)
        <2>1. AtCut(t, u)
            BY <1>1, <1>3 DEF Inside, Cutting
        <2> QED
            BY <1>1, <2>1 DEF AtCut, Goes
    <1>4. Safely(op, body, post, Swapping)
        <2>1. ASSUME NEW m \in Machine, Ready(op.tool, m, Swapping)
              PROVE  \E u \in Machine :
                        Leads(body, m, u) /\ Ready(HeldAfter(op), u, Swapping) /\ Wary(post, u)
            BY <1>2, <1>3, <2>1 DEF Anywhere
        <2> QED
            BY <2>1 DEF Safely
    <1>5. ASSUME op \notin Oversized PROVE EntrySafe(Entry(op))
        <2>1. /\ Entry(op).key.op = op /\ Entry(op).key.machine = proj.machine
              /\ Entry(op).body = body /\ Entry(op).exit = post
            BY <1>5 DEF Entry, Captured, CacheKey
        <2> QED
            BY <1>4, <2>1 DEF EntrySafe, Swapping
    <1> QED
        BY <1>2, <1>3, <1>5 DEF Anywhere, TypeInv, TypeOK

LEMMA SwapDriver ==
    ASSUME TypeInv, HeldInv, SwapInv, SwapStep \/ CutSpin \/ CutCoolant \/ CutEntry \/ CutPass
    PROVE  SwapPlace'
    <1>1. PICK t \in Tools : Anywhere(t)
        <2>1. Driving
            BY DEF SwapStep, CutSpin, CutCoolant, CutEntry, CutPass, Driving, CutPC
        <2> QED
            BY <2>1 DEF SwapInv, SwapPlace, SwapDriving
    <1>2. pc \in CutPC => Head(script).do = "cut"
        BY DEF HeldInv
    <1>3. CASE SwapStep
        <2>1. PICK s : s = env'.tool
            OBVIOUS
        <2>2. /\ pc' = "lift" /\ UNCHANGED <<plan, idx, mach, body>> /\ line' = NoLine
              /\ script # <<>> /\ s = Head(script).tool /\ env'.back = "step"
            BY <1>3, <2>1 DEF SwapStep, output
        <2>3. Wrote
            BY <2>2, NoLineHalts, Lines DEF Wrote
        <2>4. s \in Tools
            <3>1. script \in Seq(Step)
                BY DEF TypeInv, TypeOK
            <3>2. Head(script) \in Step
                BY <2>2, <3>1
            <3> QED
                BY <2>2, <3>2 DEF Step
        <2>5. \A u \in Machine : Inside(t, u) =>
                 \A v : v = Exec(u, line') => Inside(s, v)' /\ HaltedFor(line', v)
            BY <1>3, <2>1, SwapOn
        <2>6. Anywhere(s)' /\ HaltedFor(line', mach')
            BY <1>1, <2>2, <2>3, <2>5, AnywhereOn
        <2>7. SwapDriving' /\ HaltedFor(line, mach)'
            BY <2>4, <2>6 DEF SwapDriving, HaltedFor, Halted
        <2> QED
            BY <2>2, <2>7, SwapElsewhere DEF SwapPlace, ChangePC
    <1>4. CASE CutSpin \/ CutCoolant \/ CutEntry
        <2>1. Wrote /\ pc' \in CutPC /\ UNCHANGED <<plan, idx>>
            BY <1>4, DriverWrites
        <2>2. \A u \in Machine : Inside(t, u) =>
                 \A v : v = Exec(u, line') => Inside(t, v)' /\ HaltedFor(line', v)
            BY <1>2, <1>4, CutOn
        <2>3. Anywhere(t)' /\ HaltedFor(line', mach')
            BY <1>1, <2>1, <2>2, AnywhereOn
        <2>4. SwapDriving' /\ HaltedFor(line, mach)'
            BY <2>3 DEF SwapDriving, HaltedFor, Halted
        <2> QED
            BY <2>1, <2>4, SwapElsewhere DEF SwapPlace
    <1>5. CASE CutPass
        <2>1. Wrote /\ pc' = "step" /\ UNCHANGED <<plan, idx>>
            <3>1. TypeInv'
                BY <1>5, CuttingType DEF CuttingOp
            <3> QED
                BY <1>5, <3>1, WriteWrote DEF CutPass
        <2>2. \A u \in Machine : Inside(t, u) =>
                 \A v : v = Exec(u, line') => Inside(t, v)' /\ HaltedFor(line', v)
            BY <1>2, <1>5, PassOn
        <2>3. Anywhere(t)' /\ HaltedFor(line', mach')
            BY <1>1, <2>1, <2>2, AnywhereOn
        <2>4. SwapDriving' /\ HaltedFor(line, mach)'
            BY <2>3 DEF SwapDriving, HaltedFor, Halted
        <2> QED
            BY <2>1, <2>4, SwapElsewhere DEF SwapPlace
    <1> QED
        BY <1>3, <1>4, <1>5

LEMMA SwapCutting ==
    ASSUME TypeInv, HeldInv, Marks, SwapInv, CuttingOp
    PROVE  SwapPlace'
    <1> USE DEF Ended
    <1>0. SwapBetween /\ SwapReplaying
        BY DEF SwapInv, SwapPlace
    <1>a. /\ mach \in Machine /\ cache \in Seq(CacheEntry) /\ post \in PostState /\ proj \in Project
        BY ProjectType DEF TypeInv, TypeOK
    <1>b. line' = NoLine => HaltedFor(line, mach)'
        BY DEF HaltedFor, NoLine, Word, WordWith
    <1>c. pc \in OpPC => idx \in DOMAIN queue /\ op \in Op /\ CutsFirst(op)
        BY OpInHand DEF SwapInv, op
    <1>d. UNCHANGED <<plan, idx>> => op' = op /\ Swapping' = Swapping
        BY DEF plan, op, Swapping
    <1>e. NoTool \notin ToolIds
        BY ToolsAssumption, PerOpAssumption DEF ToolIds
    <1>1. CASE Hit
        <2>1. /\ pc = "lookup" /\ pc' = "replay" /\ UNCHANGED <<plan, idx, mach>> /\ line' = NoLine
            BY <1>1 DEF Hit
        <2>2. PICK i \in CachedAt(op) : cache' = Use(i) /\ tape' = cache[i].body
            BY <1>1 DEF Hit
        <2>3. op.tool \in Tools /\ i \in DOMAIN cache /\ cache[i].key = CacheKey(op)
            BY <2>2 DEF CachedAt, Keyed
        <2>4. Safely(op, cache[i].body, cache[i].exit, Swapping)
            <3>1. cache[i].key.op = op /\ cache[i].key.machine = proj.machine
                BY <2>3 DEF CacheKey
            <3> QED
                BY <2>3, <3>1 DEF SwapInv, EntrySafe, Swapping
        <2>5. Ready(op.tool, mach, Swapping)
            BY <1>0, <2>1, <2>3 DEF SwapBetween, Entering, Marks
        <2>6. PICK u \in Machine : /\ Leads(cache[i].body, mach, u)
                                   /\ Ready(HeldAfter(op), u, Swapping) /\ Wary(cache[i].exit, u)
            BY <1>a, <2>4, <2>5 DEF Safely
        <2>7. LastEntry' = cache[i]
            <3>1. Len(cache) \in Nat /\ Len(cache) >= i /\ Len(cache) \in 1 .. Len(cache)
                BY <1>a, <2>3, LenProperties
            <3>2. Len(cache') = Len(cache) /\ cache'[Len(cache)] = cache[i]
                <4>1. /\ Len(Use(i)) = Len(cache)
                      /\ \A k \in 1 .. Len(cache) :
                            Use(i)[k] = cache[IF k < i THEN k ELSE IF k < Len(cache) THEN k + 1 ELSE i]
                    BY <1>a, <2>3, UseIs
                <4>2. ~ (Len(cache) < i) /\ ~ (Len(cache) < Len(cache))
                    BY <1>a, <2>3, <3>1, LenProperties
                <4> QED
                    BY <2>2, <3>1, <4>1, <4>2
            <3> QED
                BY <3>2 DEF LastEntry
        <2>8. SwapReplaying'
            <3>1. Leads(tape, mach, u)'
                BY <2>1, <2>2, <2>6 DEF Leads, Steps
            <3>2. (Ready(HeldAfter(op), u, Swapping) /\ Wary(LastEntry.exit, u))'
                BY <1>d, <2>1, <2>6, <2>7
            <3> QED
                BY <3>1, <3>2 DEF SwapReplaying
        <2> QED
            BY <1>b, <2>1, <2>8, SwapElsewhere DEF SwapPlace
    <1>2. CASE EndReplay
        <2>1. /\ pc = "replay" /\ pc' = "top" /\ tape = <<>> /\ UNCHANGED <<plan, mach>>
              /\ line' = NoLine /\ post' = LastEntry.exit
              /\ prevTool' = NextPrevTool(op, LastEntry.swap)
            BY <1>2 DEF EndReplay
        <2>2. Ready(HeldAfter(op), mach, Swapping) /\ Wary(LastEntry.exit, mach)
            BY <1>0, <2>1, LeadsEmpty DEF SwapReplaying
        <2>3. LastEntry.swap = Swaps(op)
            <3>1. cache # <<>>
                BY <2>1 DEF TypeInv, Placed
            <3>2. Len(cache) \in DOMAIN cache
                BY <1>a, <3>1, LenProperties, EmptySeq
            <3>3. LastEntry.key.op = op
                BY <2>1 DEF Marks, CacheKey
            <3> QED
                BY <3>2, <3>3 DEF HeldInv, EntryTraced, LastEntry
        <2>4. prevTool' = HeldAfter(op) /\ prevTool' # NoTool
            <3>1. Swaps(op) \in BOOLEAN
                BY <1>c, <2>1 DEF OpPC, Swaps, HasFinish, Op, OpRecord
            <3>2. prevTool' \in ToolIds
                BY <1>c, <2>1, <2>3, <3>1, NextPrevToolType DEF OpPC
            <3> QED
                BY <1>e, <2>1, <2>3, <3>2 DEF HeldAfter
        <2>5. SwapBetween'
            <3>1. Swapping' = Swapping
                BY <2>1 DEF plan, Swapping
            <3> QED
                BY <2>1, <2>2, <2>4, <3>1 DEF SwapBetween, Entering
        <2> QED
            BY <1>b, <2>1, <2>5, SwapElsewhere DEF SwapPlace
    <1>3. CASE Miss
        <2>1. pc = "lookup" /\ pc' = "plan" /\ UNCHANGED <<plan, idx, mach, post>> /\ line' = NoLine
            BY <1>3 DEF Miss
        <2>2. SwapBetween'
            BY <1>0, <1>d, <2>1 DEF SwapBetween, Entering, Outside
        <2> QED
            BY <1>b, <2>1, <2>2, SwapElsewhere DEF SwapPlace
    <1>4. CASE Fail
        <2>1. pc' = "failed" /\ line' = NoLine
            BY <1>4 DEF Fail
        <2> QED
            BY <1>b, <2>1, SwapElsewhere DEF SwapPlace
    <1>5. CASE Plan
        <2>1. /\ pc = "plan" /\ pc' = "step" /\ UNCHANGED <<plan, idx, mach, body, post>>
              /\ line' = NoLine /\ script' = Script(op) /\ op.tool \in Tools
            BY <1>5 DEF Plan
        <2>2. ~ IsProgramOnly(op) /\ body' = <<>> /\ op \in Op /\ CutsFirst(op)
            BY <1>c, <2>1 DEF Marks, HeldInv, OpPC
        <2>3. op' = op /\ Swapping' = Swapping /\ Ready(op.tool, mach, Swapping)
            BY <1>0, <1>d, <2>1, <2>2 DEF SwapBetween, Entering
        <2>4. ~ Begun'
            BY <2>2 DEF Begun
        <2>5. ASSUME NEW u \in Machine, Ready(op.tool, u, Swapping)
              PROVE  Inside(op.tool, u)'
            <3>1. Goes(Script(op), op.tool, HeldAfter(op))
                BY <1>a, <2>1, <2>2, ScriptGoes
            <3>2. Script(op) # <<>> /\ Script(op)[1].do = "cut"
                BY <1>a, <2>1, <2>2, ScriptCuts
            <3>3. AtCut(op.tool, u)'
                BY <2>1, <2>3, <2>4, <2>5, <3>1, <3>2 DEF AtCut, CutPC
            <3> QED
                BY <2>1, <2>3, <3>3 DEF Inside, Changing, ChangePC
        <2>6. Anywhere(op.tool)'
            <3>1. Inside(op.tool, mach)'
                <4>1. PICK u \in Machine : u = mach
                    BY <1>a
                <4>2. Inside(op.tool, u)'
                    BY <2>3, <2>5, <4>1
                <4> QED
                    BY <2>1, <2>3, <4>1, <4>2 DEF Inside, AtCut, Changing, ChangePC
            <3>2. ASSUME NEW m \in Machine, Ready(op.tool, m, Swapping)
                  PROVE  Leads(<<>>, m, m) /\ Inside(op.tool, m)'
                BY <2>5, <3>2, LeadsEmpty
            <3>3. ASSUME NEW m \in Machine, Ready(op.tool, m, Swapping)'
                  PROVE  (Leads(body, m, m) /\ Inside(op.tool, m))'
                <4>1. Ready(op.tool, m, Swapping)
                    BY <2>3, <3>3 DEF Ready
                <4>2. Leads(body, m, m)'
                    BY <2>2, <3>2, <4>1 DEF Leads, Steps
                <4> QED
                    BY <3>2, <4>1, <4>2
            <3> QED
                BY <3>1, <3>3 DEF Anywhere
        <2>7. SwapDriving'
            BY <2>1, <2>3, <2>6 DEF SwapDriving
        <2> QED
            BY <1>b, <2>1, <2>7, SwapElsewhere DEF SwapPlace
    <1>6. CASE SwapStep \/ CutSpin \/ CutCoolant \/ CutEntry \/ CutPass
        BY <1>6, SwapDriver
    <1>7. CASE Finish
        <2>1. /\ pc = "step" /\ pc' = "top" /\ UNCHANGED <<plan, mach, post>> /\ line' = NoLine
              /\ prevTool' = HeldAfter(op)
            BY <1>7 DEF Finish, HeldAfter
        <2>2. Ready(HeldAfter(op), mach, Swapping) /\ Wary(post, mach)
            BY <1>7, FinishSafe
        <2>3. prevTool' # NoTool
            <3>1. Swaps(op) \in BOOLEAN
                BY <1>c, <2>1 DEF OpPC, Swaps, HasFinish, Op, OpRecord
            <3>2. prevTool' \in ToolIds
                BY <1>c, <2>1, <3>1, NextPrevToolType DEF OpPC, HeldAfter
            <3> QED
                BY <1>e, <3>2
        <2>4. SwapBetween'
            <3>1. Swapping' = Swapping
                BY <2>1 DEF plan, Swapping
            <3> QED
                BY <2>1, <2>2, <2>3, <3>1 DEF SwapBetween, Entering
        <2> QED
            BY <1>b, <2>1, <2>4, SwapElsewhere DEF SwapPlace
    <1> QED
        BY <1>1, <1>2, <1>3, <1>4, <1>5, <1>6, <1>7 DEF CuttingOp

LEMMA SwapChange ==
    ASSUME TypeInv, HeldInv, SwapInv, Change
    PROVE  SwapPlace'
    <1>1. /\ UNCHANGED <<plan, idx, env, script>> /\ Changing /\ (Changing' \/ pc' = env.back)
          /\ env.back \in {"mark", "step"} /\ Wrote /\ env.tool \in Tools
        BY ChangeLeads, ChangeWrites DEF TypeInv, Placed
    <1>2. op' = op /\ Swapping' = Swapping /\ mach \in Machine
        BY <1>1 DEF plan, op, Swapping, TypeInv, TypeOK
    <1>3. CASE env.back = "mark"
        <2>1. PICK u \in Machine : u = mach
            BY <1>2
        <2>2. PICK v : v = Exec(u, line')
            OBVIOUS
        <2>3. AtChange(u) /\ v = mach'
            BY <1>1, <1>3, <2>1, <2>2 DEF SwapInv, SwapPlace, SwapChanging, AtChange, Wrote
        <2>4. /\ Changing' => AtChange(v)'
              /\ ~ Changing' => Ready(env.tool, v, Swapping) /\ Wary(post', v)
              /\ HaltedFor(line', v)
            BY <2>2, <2>3, ChangeOn
        <2>5. HaltedFor(line, mach)'
            BY <2>3, <2>4 DEF HaltedFor, Halted
        <2>6. CASE Changing'
            <3>1. SwapChanging'
                BY <2>3, <2>4, <2>6 DEF SwapChanging, AtChange
            <3> QED
                BY <1>1, <1>3, <2>5, <2>6, <3>1, SwapElsewhere DEF Changing, SwapPlace
        <2>7. CASE ~ Changing'
            <3>1. pc' = "mark" /\ ~ IsProgramOnly(op) /\ env.tool = op.tool
                BY <1>1, <1>3, <2>7 DEF HeldInv
            <3>2. SwapBetween'
                BY <1>2, <2>3, <2>4, <2>7, <3>1 DEF SwapBetween, Outside, Entering
            <3>3. SwapRaw'
                BY <1>2, <3>1 DEF SwapRaw
            <3> QED
                BY <2>5, <3>1, <3>2, <3>3, SwapElsewhere DEF SwapPlace
        <2> QED
            BY <2>6, <2>7
    <1>4. CASE env.back = "step"
        <2>1. PICK t \in Tools : Anywhere(t)
            BY <1>1, <1>4 DEF SwapInv, SwapPlace, SwapDriving, Driving
        <2>2. t = env.tool
            BY <1>1, <2>1 DEF Anywhere, Inside
        <2>3. PICK s : s = env.tool /\ s = env'.tool
            BY <1>1
        <2>4. \A u \in Machine : Inside(t, u) =>
                 \A v : v = Exec(u, line') => Inside(s, v)' /\ HaltedFor(line', v)
            <3>1. ASSUME NEW u \in Machine, Inside(t, u), NEW v, v = Exec(u, line')
                  PROVE  Inside(s, v)' /\ HaltedFor(line', v)
                <4>1. Inside(env.tool, u)
                    BY <2>2, <3>1
                <4>2. Inside(env.tool, v)' /\ HaltedFor(line', v)
                    BY <1>4, <3>1, <4>1, SwappingOn
                <4> QED
                    BY <2>3, <4>2 DEF Inside, AtCut
            <3> QED
                BY <3>1
        <2>5. Anywhere(s)' /\ HaltedFor(line', mach')
            BY <1>1, <2>1, <2>4, AnywhereOn
        <2>6. SwapDriving' /\ HaltedFor(line, mach)'
            BY <1>1, <2>3, <2>5 DEF SwapDriving, HaltedFor, Halted
        <2>7. CASE Changing'
            BY <1>1, <1>4, <2>6, <2>7, SwapElsewhere DEF Changing, SwapPlace
        <2>8. CASE ~ Changing'
            <3>1. pc' = "step"
                BY <1>1, <1>4, <2>8
            <3> QED
                BY <2>6, <3>1, SwapElsewhere DEF SwapPlace
        <2> QED
            BY <2>7, <2>8
    <1> QED
        BY <1>1, <1>3, <1>4

LEMMA SwapEnd ==
    ASSUME End
    PROVE  SwapPlace'
    <1>1. pc' \in EndPC \cup Ended
        BY DEF End, EndLift, EndStop, EndCoolant, EndProgram, Envelope, EndPC, Ended
    <1>2. line' \in {NoLine, Word("lift"), Word("M5"), Word("M9"), Word("M30")}
        BY CallWords DEF End, EndLift, EndStop, EndCoolant, EndProgram, Envelope, Write, Emits
    <1>3. HaltedFor(line, mach)'
        BY <1>2 DEF HaltedFor, NoLine, Word, WordWith
    <1> QED
        BY <1>1, <1>3, SwapElsewhere DEF SwapPlace

\* Cancelling, or doing nothing, leaves the machine where it is.
LEMMA SwapRests ==
    ASSUME SwapPlace, RequestCancel \/ UNCHANGED vars
    PROVE  SwapPlace'
    <1>1. /\ UNCHANGED <<plan, idx, pc, env, script, tape, post, mach, line, body, prevTool, cache>>
          /\ op' = op /\ Swapping' = Swapping
        BY DEF RequestCancel, vars, plan, drive, output, book, op, Swapping
    <1>2. Begun' = Begun /\ LastEntry' = LastEntry /\ Driving' = Driving /\ Changing' = Changing
          /\ Outside' = Outside /\ Entering' = Entering /\ Cutting' = Cutting
        BY <1>1 DEF Begun, LastEntry, Driving, Changing, Outside, Entering, Cutting
    <1>3. SwapBetween' /\ SwapRaw' /\ HaltedFor(line, mach)'
        BY <1>1, <1>2 DEF SwapPlace, SwapBetween, SwapRaw, HaltedFor, Halted
    <1>4. SwapReplaying'
        BY <1>1, <1>2 DEF SwapPlace, SwapReplaying, Leads, Steps
    <1>5. ASSUME NEW u, AtChange(u) PROVE AtChange(u)'
        BY <1>1, <1>2, <1>5 DEF AtChange
    <1>6. ASSUME NEW t, NEW u, Inside(t, u) PROVE Inside(t, u)'
        <2>1. AtCut(t, u) => AtCut(t, u)'
            BY <1>1, <1>2 DEF AtCut
        <2> QED
            BY <1>1, <1>2, <1>5, <1>6, <2>1 DEF Inside
    <1>7. SwapChanging'
        BY <1>1, <1>2 DEF SwapPlace, SwapChanging, AtChange
    <1>8. ASSUME NEW t, Anywhere(t) PROVE Anywhere(t)'
        <2>1. Inside(t, mach)'
            <3>1. PICK u : u = mach
                OBVIOUS
            <3>2. Inside(t, u)'
                BY <1>6, <1>8, <3>1 DEF Anywhere
            <3> QED
                BY <1>1, <3>1, <3>2 DEF Inside, AtCut, AtChange
        <2>2. ASSUME NEW m \in Machine, Ready(op.tool, m, Swapping)'
              PROVE  (\E u \in Machine : Leads(body, m, u) /\ Inside(t, u))'
            <3>1. PICK u \in Machine : Leads(body, m, u) /\ Inside(t, u)
                BY <1>1, <1>8, <2>2 DEF Anywhere, Ready
            <3>2. Leads(body, m, u)'
                BY <1>1, <3>1 DEF Leads, Steps
            <3> QED
                BY <1>6, <3>1, <3>2
        <2> QED
            BY <2>1, <2>2 DEF Anywhere
    <1>9. SwapDriving'
        BY <1>2, <1>8 DEF SwapPlace, SwapDriving
    <1> QED
        BY <1>3, <1>4, <1>7, <1>9 DEF SwapPlace

LEMMA SwapInvStep ==
    ASSUME BodiesCutFirst, ToolInv, SwapInv, [Next]_vars
    PROVE  SwapInv'
    <1>0. TypeInv /\ HeldInv /\ Marks /\ Len(cache) <= CacheCapacity
        BY DEF ToolInv, KeptInv, ReportInv, Marks, StoreInv
    <1>1. ASSUME NEW i \in DOMAIN queue' PROVE CutsFirst(queue'[i])
        <2>1. CASE Generate
            BY <1>1, <2>1, QueueIsTheProjects DEF BodiesCutFirst
        <2>2. CASE ~ Generate
            BY <1>1, <2>2, PlanStays DEF plan, SwapInv
        <2> QED
            BY <2>1, <2>2
    <1>2. ASSUME NEW k \in DOMAIN cache' PROVE EntrySafe(cache'[k])
        <2>1. CASE \E j \in DOMAIN cache : cache'[k] = cache[j]
            BY <2>1 DEF SwapInv
        <2>2. CASE Finish /\ op \notin Oversized /\ cache'[k] = Entry(op)
            BY <1>0, <2>2, FinishSafe
        <2> QED
            BY <1>0, <1>2, <2>1, <2>2, EntriesAre
    <1>3. SwapPlace'
        <2>1. CASE Generate
            BY <2>1, SwapGenerate
        <2>2. CASE RequestCancel \/ UNCHANGED vars
            BY <2>2, SwapRests DEF SwapInv
        <2>3. CASE Advance
            BY <1>0, <2>3, SwapBoundary, SwapCutting, SwapChange, SwapEnd DEF Advance
        <2> QED
            BY <2>1, <2>2, <2>3 DEF Next
    <1>4. (\A k \in DOMAIN cache : EntrySafe(cache[k]))'
        BY <1>2 DEF EntrySafe, Safely, Leads, Steps
    <1> QED
        BY <1>1, <1>3, <1>4 DEF SwapInv

LEMMA SwapInit == Init => SwapInv
    <1> SUFFICES ASSUME Init PROVE SwapInv
        OBVIOUS
    <1>1. queue = <<>> /\ cache = <<>> /\ pc = "idle" /\ line = NoLine
        BY DEF Init
    <1>2. SwapBetween /\ SwapRaw /\ SwapReplaying /\ SwapDriving /\ SwapChanging
        BY <1>1 DEF SwapBetween, SwapRaw, SwapReplaying, SwapDriving, SwapChanging, Outside,
           Entering, Driving, Changing, ChangePC, CutPC
    <1> QED
        BY <1>1, <1>2, NoLineHalts DEF SwapInv, SwapPlace

\* An operation that cuts first keeps its tool as well.
LEMMA CutsFirstKeeps == BodiesCutFirst => ToolsAreKept
    BY DEF BodiesCutFirst, CutsFirst, Plainly, Inert, ToolsAreKept, KeepsTool

-----------------------------------------------------------------------------

\* No tool is changed with the spindle running, the coolant open or the tool low, inside
\* a replayed body too, whatever ran on the machine when the body was captured and
\* whatever runs when it is replayed: for projects whose operations cut with their own
\* tool before they change to another one (emit_toolchange_envelope, spindle_off's
\* spindle_lit, apply_cached_op).
THEOREM SwapsFindTheMachineHalted ==
    ASSUME BodiesCutFirst
    PROVE  Spec => []SwapsAreStopped
    <1>0. ToolsAreKept
        BY CutsFirstKeeps
    <1>1. Init => SwapInv
        BY SwapInit
    <1>2. ToolInv /\ SwapInv /\ [Next]_vars => SwapInv'
        BY SwapInvStep
    <1>3. SwapInv => SwapsAreStopped
        BY DEF SwapInv, SwapPlace, HaltedFor, Halted, SwapsAreStopped, Protocol!Stopped
    <1>4. Spec => []ToolInv
        BY <1>0, ToolInvHolds
    <1> QED
        BY <1>1, <1>2, <1>3, <1>4, PTL DEF Spec
=============================================================================
