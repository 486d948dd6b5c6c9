------------------------------- MODULE Gcode -------------------------------
(***************************************************************************)
(* The lines a dialect post emits, the delta-encoding state that decides   *)
(* which of them it leaves out (crates/ivac-core/src/gcode/linuxcnc.rs and *)
(* PostState in gcode.rs), and the machine that runs them.                 *)
(*                                                                         *)
(* A line keeps only what the properties tell apart.  A spindle word is    *)
(* one value for speed and direction together, because the post compares,  *)
(* records and forgets the two together.  XY coordinates, feeds, dwells    *)
(* and comments are left out.                                              *)
(***************************************************************************)
EXTENDS Naturals, Sequences

CONSTANTS
    Tools,       \* the tools of the project's library
    Spins,       \* spindle words: a speed with its direction
    NoTool,      \* no tool asserted yet (prev_tool_id = None)
    Off          \* spindle stopped, and "no spindle word" (last_speed = None)

ASSUME ToolsAssumption == NoTool \notin Tools
ASSUME SpinsAssumption == Off \notin Spins

CoolantOn == {"mist", "flood"}

\* w is the word; tool the tool it names; v its value: a spindle word, a coolant,
\* the axes of an approach.  A cut names the tool and spindle word it was planned for.
Line ==
    [w : {"none", "lift", "station", "sensor", "probe", "home", "pause", "M5", "M9", "M30"},
     tool : {NoTool}, v : {"-"}]
    \cup [w : {"swap", "load"}, tool : Tools, v : {"-"}]
    \cup [w : {"spin"}, tool : {NoTool}, v : Spins]
    \cup [w : {"coolant"}, tool : {NoTool}, v : CoolantOn]
    \cup [w : {"entry"}, tool : {NoTool}, v : {"xy", "xyz"}]
    \cup [w : {"cut"}, tool : Tools, v : Spins]

WordWith(w, v) == [w |-> w, tool |-> NoTool, v |-> v]
Word(w) == WordWith(w, "-")
SwapWord(w, t) == [w |-> w, tool |-> t, v |-> "-"]
NoLine == Word("none")

-----------------------------------------------------------------------------
(* The post.  z: last_z is known to be the rapid plane; spin: last_speed   *)
(* with last_spindle_dir; cool: last_coolant; lit: spindle_lit.            *)

PostState ==
    [z : BOOLEAN, spin : Spins \cup {Off},
     cool : {"unknown", "off"} \cup CoolantOn, lit : BOOLEAN]

FreshPost == [z |-> FALSE, spin |-> Off, cool |-> "unknown", lit |-> FALSE]

\* Mutant of ResetState: the spindle word is kept across the reset.
ResetState_KeepsSpindle(p) == [p EXCEPT !.z = FALSE]

\* Position, rate and spindle word are forgotten; coolant and lit are not.
ResetState(p) == [p EXCEPT !.z = FALSE, !.spin = Off]

\* What a call of a post method leaves: the line it wrote, if any, and the state.
Emits(l, p) == [line |-> l, post |-> p]
Silent(p) == [line |-> NoLine, post |-> p]

MoveToFastZ(p) ==
    IF p.z THEN Silent(p) ELSE Emits(Word("lift"), [p EXCEPT !.z = TRUE])

\* The rapid to a pass's entry point names Z only if the post lost track of it.
RapidToEntry(p) ==
    Emits(WordWith("entry", IF p.z THEN "xy" ELSE "xyz"), [p EXCEPT !.z = TRUE])

SpindleOn(p, s) ==
    IF p.spin = s THEN Silent([p EXCEPT !.lit = TRUE])
    ELSE Emits(WordWith("spin", s), [p EXCEPT !.spin = s, !.lit = TRUE])

\* Mutant of SpindleOff: asks the modal word, which resets forget, and not spindle_lit.
SpindleOff_AsksWord(p) ==
    IF p.spin # Off THEN Emits(Word("M5"), [p EXCEPT !.lit = FALSE, !.spin = Off])
    ELSE Silent(p)

SpindleOff(p) ==
    IF p.lit THEN Emits(Word("M5"), [p EXCEPT !.lit = FALSE, !.spin = Off])
    ELSE Silent(p)

\* Mutant of Coolant: a dry tool's pass makes the call too.
Coolant_EvenDry(p, c) ==
    IF p.cool = c THEN Silent(p) ELSE Emits(WordWith("coolant", c), [p EXCEPT !.cool = c])

\* A pass whose tool runs dry makes no coolant call at all.
Coolant(p, c) ==
    IF c = "off" \/ p.cool = c THEN Silent(p)
    ELSE Emits(WordWith("coolant", c), [p EXCEPT !.cool = c])

CoolantOff(p) ==
    IF p.cool = "off" THEN Silent(p) ELSE Emits(Word("M9"), [p EXCEPT !.cool = "off"])

\* rapid_machine_xy, rapid_machine_z, probe_toward_z: the work position is lost.
MachineMove(p, w) == Emits(Word(w), [p EXCEPT !.z = FALSE])

\* tool_z_shift, tool_length_offset: the Z frame moves under the tracked Z.
ForgetZ(p) == Silent([p EXCEPT !.z = FALSE])

\* tool() writes T<n> M6 and touches no modal state.
ToolWord(p, t) == Emits(SwapWord("swap", t), p)

\* raw() writes a line the tracker does not see.
Raw(p, l) == Emits(l, p)

-----------------------------------------------------------------------------
(* The machine, as the program relies on it: M3/M4, M5, M7/M8 and M9 are   *)
(* modal, a swap changes the tool and nothing else, a probe ends low, a    *)
(* pass ends retracted to the rapid plane.                                 *)

Machine ==
    [tool : Tools \cup {NoTool}, spin : Spins \cup {Off},
     cool : {"off"} \cup CoolantOn, z : {"clear", "low"}]

\* A program finds the spindle and coolant off, an unknown tool, an unknown Z.
ColdMachine == [tool |-> NoTool, spin |-> Off, cool |-> "off", z |-> "low"]

Exec(m, l) ==
    CASE l.w \in {"swap", "load"} -> [m EXCEPT !.tool = l.tool]
      [] l.w = "spin" -> [m EXCEPT !.spin = l.v]
      [] l.w = "M5" -> [m EXCEPT !.spin = Off]
      [] l.w = "coolant" -> [m EXCEPT !.cool = l.v]
      [] l.w = "M9" -> [m EXCEPT !.cool = "off"]
      [] l.w \in {"lift", "home", "cut"} \/ (l.w = "entry" /\ l.v = "xyz") ->
            [m EXCEPT !.z = "clear"]
      [] l.w \in {"probe", "sensor"} -> [m EXCEPT !.z = "low"]
      [] OTHER -> m
=============================================================================
