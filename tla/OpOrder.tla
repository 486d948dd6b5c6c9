------------------------------ MODULE OpOrder ------------------------------
(***************************************************************************)
(* A project's operations, and the order in which run_per_op emits them    *)
(* (crates/ivac-core/src/pipeline.rs, project/op.rs).                      *)
(***************************************************************************)
EXTENDS Gcode, FiniteSets

ProgramOnlyKinds == {"pause", "homing", "probe", "marker", "include"}

(***************************************************************************)
(* An enabled operation.  Two operations with the same content are the     *)
(* same record, as they are the same input to the op cache's key.          *)
(*   spin    the op's own spindle word, Off when it takes the tool's       *)
(*   finish  finish_tool_id; dual: the kind can use one (a pocket, or a    *)
(*           drill with a rim chamfer)                                     *)
(*   rough, ring  what the offsets cascade yields: a block for the main    *)
(*           tool, a block for the finish tool                             *)
(*   spot    the tool of a drill's spot pre-pass                           *)
(*   gate    specialty_will_emit                                           *)
(*   emit    lines of a program-only op that the post does not track       *)
(***************************************************************************)
OpRecord(toolIds, lines) ==
    [id : Nat, kind : ProgramOnlyKinds \cup {"cut"}, tool : toolIds,
     spin : Spins \cup {Off}, finish : Tools \cup {NoTool}, dual : BOOLEAN,
     rough : BOOLEAN, ring : BOOLEAN, spot : Tools \cup {NoTool},
     gate : BOOLEAN, pin : BOOLEAN, emit : Seq(lines)]

HasFinish(o) == o.finish \notin {NoTool, o.tool}

IsProgramOnly(o) == o.kind \in ProgramOnlyKinds

-----------------------------------------------------------------------------
(* order_ops_by_tool *)

Barrier(o) == o.pin \/ IsProgramOnly(o)

\* The index of the run that position i belongs to; a barrier is a run of its own.
RunOf(ops, i) ==
    LET barriers == Cardinality({j \in 1 .. i : Barrier(ops[j])})
    IN  IF Barrier(ops[i]) THEN 2 * barriers - 1 ELSE 2 * barriers

\* Where the tool of position i is first seen in its run.
FirstSeen(ops, i) ==
    CHOOSE j \in 1 .. i :
        /\ RunOf(ops, j) = RunOf(ops, i) /\ ops[j].tool = ops[i].tool
        /\ \A k \in 1 .. (j - 1) :
               ~ (RunOf(ops, k) = RunOf(ops, i) /\ ops[k].tool = ops[i].tool)

Before(ops, i, j) ==
    \/ RunOf(ops, i) < RunOf(ops, j)
    \/ /\ RunOf(ops, i) = RunOf(ops, j)
       /\ \/ FirstSeen(ops, i) < FirstSeen(ops, j)
          \/ FirstSeen(ops, i) = FirstSeen(ops, j) /\ i < j

\* perm lists the positions of ops in the order the loop emits them.
EmissionOrder(ops, group, perm) ==
    IF group THEN \A i, j \in DOMAIN ops : i < j => Before(ops, perm[i], perm[j])
             ELSE \A i \in DOMAIN ops : perm[i] = i
=============================================================================
