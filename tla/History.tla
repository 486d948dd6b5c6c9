------------------------------ MODULE History ------------------------------
(***************************************************************************)
(* Multi-level undo (frontend/src/lib/state/history.ts).  Every project    *)
(* mutation is a command with `apply' and `revert'; the class keeps an     *)
(* undo and a redo stack of commands, merges quick successive edits of one *)
(* field, buffers the commands of a transaction into one entry and rides   *)
(* the project's dirty flag along (wrapWithDirty).                         *)
(*                                                                         *)
(* A document is a function from fields to values.  A command sets some    *)
(* fields; most builders capture the values they overwrite when they are   *)
(* applied, again on every redo, the rest (setImportsCommand) captured     *)
(* them when the command was built, which `snapshot' marks.                *)
(***************************************************************************)
EXTENDS Integers, Sequences, SequencesExt

CONSTANTS
    Fields, Values,
    Commands,      \* the commands the user interface can build
    NoKey,         \* an absent coalesce_key
    NoTransaction,
    MaxDepth,      \* History.MAX_DEPTH
    CoalesceMs     \* History.COALESCE_MS, in ticks of the clock

Docs == [Fields -> Values]
Patches == UNION {[fs -> Values] : fs \in SUBSET Fields}

(* What is on a stack: one wrapped command, or those of a transaction.     *)
(* `sets' is the net effect of apply, `undoes' the net effect of revert,   *)
(* `captures' the fields whose old value apply captures anew.  `age' is    *)
(* the time since the latest command of the entry was executed: it is      *)
(* there for the properties, no action reads it.                           *)
Entry ==
    [sets : Patches, undoes : Patches, captures : SUBSET Fields,
     key : {c.key : c \in Commands} \cup {NoKey},
     marks : BOOLEAN, prevDirty : BOOLEAN, age : 0..CoalesceMs]

ASSUME HistoryAssumption ==
    /\ NoTransaction \notin Entry
    /\ MaxDepth \in Nat \ {0} /\ CoalesceMs \in Nat \ {0}
    /\ \A c \in Commands :
         /\ DOMAIN c = {"sets", "snapshot", "key", "marks"}
         /\ c.sets \in Patches /\ DOMAIN c.sets # {}
         /\ c.snapshot \in BOOLEAN /\ c.marks \in BOOLEAN
    \* commands with one key set the same fields (the coalesceKeyFor...
    \* functions put the field in the key)
    /\ \A c, d \in Commands :
         c.key = d.key /\ c.key # NoKey => DOMAIN c.sets = DOMAIN d.sets

VARIABLES
    doc,             \* the project data the commands target
    dirty,           \* project.data.dirty
    undoStack, redoStack,
    sinceCommand,    \* now - lastCommandTime, CoalesceMs standing for more
    transaction      \* the entry built so far, or NoTransaction

history == <<undoStack, redoStack, sinceCommand, transaction>>
vars == <<doc, dirty, history>>

----------------------------------------------------------------------------
(* Entries. *)

Patched(d, p) == [f \in Fields |-> IF f \in DOMAIN p THEN p[f] ELSE d[f]]
Taken(d, fs) == [f \in fs |-> d[f]]
Over(p, q) == [f \in DOMAIN p \cup DOMAIN q |-> IF f \in DOMAIN p THEN p[f] ELSE q[f]]

Wrapped(c) ==
    [sets |-> c.sets,
     undoes |-> Taken(doc, DOMAIN c.sets),
     captures |-> IF c.snapshot THEN {} ELSE DOMAIN c.sets,
     key |-> c.key, marks |-> c.marks, prevDirty |-> dirty, age |-> 0]

(* Two commands of one transaction, a first: applied in order, reverted in *)
(* reverse, so of two writes of a field the later value and the earlier    *)
(* old value stay.  The dirty flag goes back to what the first marking     *)
(* command saw.                                                            *)
Joined(a, b) ==
    [sets |-> Over(b.sets, a.sets),
     undoes |-> Over(a.undoes, b.undoes),
     captures |-> a.captures \cup (b.captures \ DOMAIN a.undoes),
     key |-> NoKey, marks |-> a.marks \/ b.marks,
     prevDirty |-> IF a.marks THEN a.prevDirty ELSE b.prevDirty, age |-> 0]

(* A transaction that has buffered nothing yet. *)
NothingBuffered ==
    [sets |-> <<>>, undoes |-> <<>>, captures |-> {},
     key |-> NoKey, marks |-> FALSE, prevDirty |-> FALSE, age |-> 0]

Trimmed(s) == IF Len(s) > MaxDepth THEN Tail(s) ELSE s

Pushed(e) == Trimmed(Append(undoStack, e))

----------------------------------------------------------------------------
Init ==
    /\ doc \in Docs
    /\ dirty = FALSE
    /\ undoStack = <<>> /\ redoStack = <<>>
    /\ sinceCommand = CoalesceMs
    /\ transaction = NoTransaction

Does(c) ==
    /\ doc' = Patched(doc, c.sets)
    /\ dirty' = (dirty \/ c.marks)

(* exec() inside a transaction: buffered, the stacks stay. *)
ExecBuffered(c) ==
    /\ transaction # NoTransaction
    /\ Does(c)
    /\ transaction' = Joined(transaction, Wrapped(c))
    /\ UNCHANGED <<undoStack, redoStack, sinceCommand>>

Coalesces(c) ==
    /\ c.key # NoKey
    /\ undoStack # <<>>
    /\ Last(undoStack).key = c.key
    /\ sinceCommand < CoalesceMs

(* Mutant: redo replays the first edit of the run. *)
ExecCoalesced_KeepsFirst(c) ==
    /\ transaction = NoTransaction
    /\ Coalesces(c)
    /\ Does(c)
    /\ undoStack' = [undoStack EXCEPT ![Len(undoStack)].age = 0]
    /\ redoStack' = <<>>
    /\ sinceCommand' = 0
    /\ UNCHANGED transaction

(* exec() of one more edit of a run: the entry on top keeps its revert and *)
(* takes the new command's apply, which captures nothing revert would use. *)
ExecCoalesced(c) ==
    /\ transaction = NoTransaction
    /\ Coalesces(c)
    /\ Does(c)
    /\ undoStack' = [undoStack EXCEPT ![Len(undoStack)].sets = c.sets,
                                      ![Len(undoStack)].captures = {},
                                      ![Len(undoStack)].age = 0]
    /\ redoStack' = <<>>
    /\ sinceCommand' = 0
    /\ UNCHANGED transaction

ExecPushed(c) ==
    /\ transaction = NoTransaction
    /\ ~Coalesces(c)
    /\ Does(c)
    /\ undoStack' = Pushed(Wrapped(c))
    /\ redoStack' = <<>>
    /\ sinceCommand' = 0
    /\ UNCHANGED transaction

Exec(c) == ExecBuffered(c) \/ ExecCoalesced(c) \/ ExecPushed(c)

Undo ==
    /\ transaction = NoTransaction
    /\ undoStack # <<>>
    /\ LET e == Last(undoStack) IN
         /\ doc' = Patched(doc, e.undoes)
         /\ dirty' = IF e.marks THEN e.prevDirty ELSE dirty
         /\ undoStack' = Front(undoStack)
         /\ redoStack' = Append(redoStack, e)
    /\ UNCHANGED <<sinceCommand, transaction>>

(* Mutant: apply() without the wrapper's markDirty. *)
Redo_LeavesFlag ==
    /\ transaction = NoTransaction
    /\ redoStack # <<>>
    /\ LET e == Last(redoStack) IN
         /\ doc' = Patched(doc, e.sets)
         /\ redoStack' = Front(redoStack)
         /\ undoStack' = Append(undoStack,
              [e EXCEPT !.undoes = Over(Taken(doc, e.captures), e.undoes)])
    /\ UNCHANGED <<dirty, sinceCommand, transaction>>

Redo ==
    /\ transaction = NoTransaction
    /\ redoStack # <<>>
    /\ LET e == Last(redoStack) IN
         /\ doc' = Patched(doc, e.sets)
         /\ dirty' = (dirty \/ e.marks)
         /\ redoStack' = Front(redoStack)
         /\ undoStack' = Append(undoStack,
              [e EXCEPT !.undoes = Over(Taken(doc, e.captures), e.undoes)])
    /\ UNCHANGED <<sinceCommand, transaction>>

(* beginTransaction throws when one is open. *)
BeginTransaction ==
    /\ transaction = NoTransaction
    /\ transaction' = NothingBuffered
    /\ UNCHANGED <<doc, dirty, undoStack, redoStack, sinceCommand>>

CommitTransaction ==
    /\ transaction # NoTransaction
    /\ transaction' = NoTransaction
    /\ IF DOMAIN transaction.sets = {}
       THEN UNCHANGED <<undoStack, redoStack, sinceCommand>>
       ELSE /\ undoStack' = Pushed(transaction)
            /\ redoStack' = <<>>
            /\ sinceCommand' = 0
    /\ UNCHANGED <<doc, dirty>>

CancelTransaction ==
    /\ transaction # NoTransaction
    /\ transaction' = NoTransaction
    /\ doc' = Patched(doc, transaction.undoes)
    /\ dirty' = IF transaction.marks THEN transaction.prevDirty ELSE dirty
    /\ UNCHANGED <<undoStack, redoStack, sinceCommand>>

(* clear(): a project is loaded. *)
ClearsHistory ==
    /\ undoStack' = <<>> /\ redoStack' = <<>>
    /\ sinceCommand' = CoalesceMs
    /\ transaction' = NoTransaction

Clear ==
    /\ ClearsHistory
    /\ doc' \in Docs /\ dirty' = FALSE

(* Time passes. *)
Tick ==
    LET Older(t) == IF t < CoalesceMs THEN t + 1 ELSE t
        Aged(stack) == [i \in DOMAIN stack |-> [stack[i] EXCEPT !.age = Older(@)]]
    IN  /\ sinceCommand' = Older(sinceCommand)
        /\ undoStack' = Aged(undoStack) /\ redoStack' = Aged(redoStack)
        /\ UNCHANGED <<doc, dirty, transaction>>

Next ==
    \/ \E c \in Commands : Exec(c)
    \/ Undo \/ Redo
    \/ BeginTransaction \/ CommitTransaction \/ CancelTransaction
    \/ Clear
    \/ Tick

Spec == Init /\ [][Next]_vars

----------------------------------------------------------------------------
(* The documents undo and redo would show, read off the stacks.            *)

Steady == IF transaction = NoTransaction THEN doc ELSE Patched(doc, transaction.undoes)

(* Shown(d, ps)[i]: the document d after the first i patches of ps.        *)
Shown(d, ps) ==
    LET shown[i \in 0..Len(ps)] == IF i = 0 THEN d ELSE Patched(shown[i - 1], ps[i])
    IN  shown

(* What one undo after the other, and one redo after the other, would do.  *)
Undoes(stack) == [i \in 1..Len(stack) |-> stack[Len(stack) + 1 - i].undoes]
Redoes(stack) == [i \in 1..Len(stack) |-> stack[Len(stack) + 1 - i].sets]
Back == Shown(Steady, Undoes(undoStack))
Ahead == Shown(Steady, Redoes(redoStack))

(* The class keeps commands; a user counts on documents.  Undo goes back,  *)
(* one step per entry, through the documents there were before each entry, *)
(* whatever was coalesced, bundled in a transaction, trimmed or redone in  *)
(* between; redo goes forward again to the very documents undo left.       *)
Log == INSTANCE UndoLog WITH
    current <- Steady,
    past <- [i \in 1..Len(undoStack) |-> Back[Len(undoStack) + 1 - i]],
    future <- [i \in 1..Len(redoStack) |-> Ahead[i]]

ImplementsUndoLog == Log!Spec

(* history.ts:227-235: the flag rides along with apply and revert.  While  *)
(* an edit that counts is still applied, the project counts as edited,     *)
(* however many undos, redos and cancelled transactions lie in between.    *)
EditedIsDirty ==
    (\/ \E i \in 1..Len(undoStack) : undoStack[i].marks
     \/ transaction # NoTransaction /\ transaction.marks) => dirty

(* history.ts:33: "commands with the same coalesce key emitted within      *)
(* COALESCE_MS of each other merge into one undo step".                    *)
MergesNeighboursOnly ==
    [][\A c \in Commands : ExecCoalesced(c) => Last(undoStack).age < CoalesceMs]_vars

----------------------------------------------------------------------------
TypeOK ==
    /\ doc \in Docs /\ dirty \in BOOLEAN
    /\ sinceCommand \in 0..CoalesceMs
    /\ Len(undoStack) <= MaxDepth
============================================================================
