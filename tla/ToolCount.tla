----------------------------- MODULE ToolCount -----------------------------
(***************************************************************************)
(* The estimator's two walks over the declared operations, count_tool_     *)
(* changes and spindle_warmup_seconds (crates/ivac-core/src/pipeline.rs),  *)
(* beside the envelopes run_per_op emits.  Each predicts them without      *)
(* running the drivers.                                                    *)
(***************************************************************************)
EXTENDS PerOp

\* The previous cutting operation of the walk, if position i has one.
Previous(ops, i) ==
    {j \in 1 .. (i - 1) :
        /\ ~ IsProgramOnly(ops[j])
        /\ \A k \in (j + 1) .. (i - 1) : IsProgramOnly(ops[k])}

\* Positions where a walk sees the tool change, held(_) being the tool it
\* believes an operation leaves in the spindle.
Boundaries(ops, held(_)) ==
    {i \in DOMAIN ops :
        /\ ~ IsProgramOnly(ops[i])
        /\ \A j \in Previous(ops, i) : held(ops[j]) # ops[i].tool}

Internal(ops, swaps(_)) ==
    {i \in DOMAIN ops : ~ IsProgramOnly(ops[i]) /\ swaps(ops[i])}

\* Mutant of CountSwap: the kind is not asked whether it has a finish pass.
CountSwap_AnyKind(o) == HasFinish(o)

\* op_can_emit_internal_swap: the kind has a finish pass to change tools for.
CountSwap(o) == HasFinish(o) /\ o.dual
CountHeld(o) == IF CountSwap(o) THEN o.finish ELSE o.tool

CountToolChanges(ops) ==
    Cardinality(Boundaries(ops, CountHeld)) + Cardinality(Internal(ops, CountSwap))

\* spindle_warmup_seconds adds one warm-up per envelope it believes in; the
\* tools' seconds are left out.
WarmupSwap(o) == HasFinish(o)
WarmupHeld(o) == IF WarmupSwap(o) THEN o.finish ELSE o.tool

WarmupEnvelopes(ops) ==
    Cardinality(Boundaries(ops, WarmupHeld)) + Cardinality(Internal(ops, WarmupSwap))

-----------------------------------------------------------------------------

\* What the count's comment leaves out of its promise, and what it never looks at:
\* finish passes that find nothing to cut, spot passes, operations whose gate
\* skips the change, and the regrouped order.
Countable(p) ==
    /\ ~ p.group
    /\ \A i \in DOMAIN p.ops :
          LET o == p.ops[i]
          IN  IsProgramOnly(o)
              \/ (o.gate /\ o.spot \in {NoTool, o.tool} /\ (o.dual /\ HasFinish(o) => o.ring))

\* On such a project the count is the number of envelopes the run emitted
\* ("structural agreement with the runtime").
CountIsExact == pc = "done" /\ Countable(proj) => CountToolChanges(proj.ops) = changes

\* The warm-ups the estimate adds up are the envelopes of the program ("so the
\* warmup estimate tracks the gcode that ships").
WarmupIsExact == pc = "done" /\ Countable(proj) => WarmupEnvelopes(proj.ops) = changes
=============================================================================
