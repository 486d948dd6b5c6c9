---------------------------- MODULE ToolProtocol ----------------------------
(***************************************************************************)
(* What a generated program promises the machine it runs on, whatever the  *)
(* post left out of it: which line may come next, given what the machine   *)
(* is really doing.  The comments on emit_toolchange_envelope, spindle_on, *)
(* reset_state and program_end state these promises one site at a time.    *)
(***************************************************************************)
EXTENDS Gcode

CONSTANT ToolCoolant    \* the coolant each tool runs with

VARIABLES
    mach, line,     \* the machine, and the line it ran last
    asserted        \* the program names the tool it wants in the spindle

vars == <<mach, line, asserted>>

Stopped(m) == m.spin = Off /\ m.cool = "off" /\ m.z = "clear"

AsProgrammed(m, l) ==
    /\ asserted => m.tool = l.tool
    /\ m.spin = l.v
    /\ m.cool = ToolCoolant[l.tool]

Allowed(m, l) ==
    CASE l.w \in {"swap", "load"} -> Stopped(m)
      [] l.w = "entry" -> l.v = "xyz" \/ m.z = "clear"
      [] l.w = "cut" -> m.z = "clear" /\ AsProgrammed(m, l)
      [] l.w = "M30" -> m.spin = Off /\ m.z = "clear"
      [] OTHER -> TRUE

Init == mach = ColdMachine /\ line = NoLine /\ asserted \in BOOLEAN

\* The program's next line runs.
Run ==
    /\ line' \in Line /\ Allowed(mach, line')
    /\ mach' = Exec(mach, line') /\ UNCHANGED asserted

\* Nothing reaches the machine.
Hold == mach' = mach /\ line' = NoLine /\ UNCHANGED asserted

\* Another program starts on a cold machine; it begins with a lift.
Restart ==
    /\ mach' = Exec(ColdMachine, Word("lift")) /\ line' = Word("lift")
    /\ asserted' \in BOOLEAN

Next == Run \/ Hold \/ Restart

Spec == Init /\ [][Next]_vars
=============================================================================
