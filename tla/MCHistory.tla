----------------------------- MODULE MCHistory -----------------------------
(* Instances of History for TLC: a field edited by lazily capturing,       *)
(* coalescing commands (typing in a number field), and the canvas          *)
(* selection, whose commands carry their before-image and do not count as  *)
(* edits.  Entries without a key come from transactions.                   *)
EXTENDS History, TLC

MCFields == {"op", "selection"}
MCValues == {0, 1}

Command(field, v, snapshot, marks) ==
    [sets |-> (field :> v), snapshot |-> snapshot, key |-> field, marks |-> marks]

MCCommands ==
    {Command("op", v, FALSE, TRUE) : v \in MCValues}
    \cup {Command("selection", v, TRUE, FALSE) : v \in MCValues}
============================================================================
