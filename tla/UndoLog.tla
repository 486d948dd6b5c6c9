------------------------------ MODULE UndoLog ------------------------------
(***************************************************************************)
(* What an undo stack promises, without saying how: a current document,    *)
(* the documents that undo goes back through and the documents that redo   *)
(* goes forward through.  At most MaxDepth documents of the past are kept. *)
(* The module History, which keeps commands instead of documents, is shown *)
(* to implement it.                                                        *)
(***************************************************************************)
EXTENDS Naturals, Sequences, SequencesExt

CONSTANTS Docs, MaxDepth

VARIABLES
    current,   \* the document on screen, a transaction in progress excluded
    past,      \* documents undo returns to, oldest first
    future     \* documents redo returns to, nearest first

log == <<current, past, future>>

Init == current \in Docs /\ past = <<>> /\ future = <<>>

(* The newest MaxDepth documents of s. *)
Newest(s) == IF Len(s) > MaxDepth THEN Tail(s) ELSE s

(* One edit: undo now leads back to the document before it. *)
Edit ==
    /\ current' \in Docs
    /\ past' = Newest(Append(past, current))
    /\ future' = <<>>

(* One more edit of a run (a slider drag): undo still leads back to the    *)
(* document before the run.                                                *)
Amend ==
    /\ past # <<>>
    /\ current' \in Docs
    /\ past' = past
    /\ future' = <<>>

Undo ==
    /\ past # <<>>
    /\ current' = Last(past)
    /\ past' = Front(past)
    /\ future' = <<current>> \o future

Redo ==
    /\ future # <<>>
    /\ current' = Head(future)
    /\ past' = Append(past, current)
    /\ future' = Tail(future)

Forget == current' \in Docs /\ past' = <<>> /\ future' = <<>>

Next == Edit \/ Amend \/ Undo \/ Redo \/ Forget

Spec == Init /\ [][Next]_log
============================================================================
