------------------------------ MODULE Session ------------------------------
(***************************************************************************)
(* A session at the program's window: edits under the undo history of      *)
(* module History, and the asynchronous operations that run beside them -  *)
(* Generate (components/GenerateBar.svelte, state/generated.svelte.ts),    *)
(* Save and Open (services/file_ops.ts, state/project-file-ops.ts) and the *)
(* reload of a drawing that changed on disk (state/import-ops.ts).  The    *)
(* code between two awaits is one step; whatever the user or the watcher   *)
(* does while one operation awaits is another.                             *)
(*                                                                         *)
(* The fields of a document are "stock", "post" (the dialect the machine   *)
(* speaks) and "imports" (the drawings, a sequence); all values are        *)
(* sequences.                                                              *)
(***************************************************************************)
EXTENDS History

CONSTANTS
    None,
    Flipped,       \* the value of "stock" that asks for two programs
    ProjectFiles,  \* project files on disk that Open can load
    PathOf,        \* PathOf[e]: the file a drawing came from
    Reread,        \* Reread[e, p]: e with the drawing that path p holds now
    AutoPlaced,    \* AutoPlaced[e]: the drawing where setImported puts it
    Scenes,        \* bound: sets of "regenerate" and "reload", the settings, and "open"
    MaxResets      \* bound of `resets'

ASSUME SessionAssumption ==
    /\ Fields = {"stock", "post", "imports"}
    /\ ProjectFiles \subseteq Docs
    /\ None \notin Values       \* null is no stock, no dialect and no list of drawings
    /\ Scenes \subseteq SUBSET {"regenerate", "reload", "open"} /\ MaxResets \in Nat

VARIABLES
    file,            \* the document in the project's file, or None
    savedToProject,
    generated,       \* the document the program on screen was made of, or None
    generatedBack,   \* the same for the program of the flipped side
    generatedPost,   \* the dialect noted for `generated', or None
    pipelineState, generating,
    runs,            \* the documents sent to the backend, not answered yet
    resets,          \* finishGenerate's timers that have not fired
    switched,        \* history: has the dialect changed since a request went out
    mixed,           \* history: had it when the program on screen arrived
    saving,          \* the snapshot on its way to disk, or None
    loading,         \* the Open in progress, or None
    reloading,       \* the drawing being read again: its path and index, or None
    scene            \* the settings in force, and whether projects are opened

dialects == <<switched, mixed>>
gen == <<generated, generatedBack, generatedPost, pipelineState, generating, runs, resets, dialects>>
files == <<file, savedToProject, saving, loading, reloading, scene>>
session == <<vars, gen, files>>

Running == pipelineState \in {"running", "cancelling"}
HasUnsavedWork == doc["imports"] # <<>> /\ (dirty \/ ~savedToProject)

SessionInit ==
    /\ Init /\ doc \in ProjectFiles
    /\ file = doc /\ savedToProject = TRUE
    /\ generated = None /\ generatedBack = None /\ generatedPost = None
    /\ pipelineState = "idle" /\ generating = FALSE /\ runs = <<>> /\ resets = 0
    /\ switched = FALSE /\ mixed = FALSE
    /\ saving = None /\ loading = None /\ reloading = None /\ scene \in Scenes

----------------------------------------------------------------------------
(* The program on screen.                                                  *)

(* Mutant: only a run drops the program of another dialect. *)
ShowFor_Keeps(shown, tag, post) == generated' = shown /\ generatedPost' = tag

(* What the effects that watch the dialect leave of a program `shown',     *)
(* tagged `tag', once the project's dialect is `post'.                     *)
ShowFor(shown, tag, post) ==
    LET drop == shown = None \/ (tag # None /\ tag # post)
    IN  /\ generated' = IF drop THEN None ELSE shown
        /\ generatedPost' = IF drop THEN None ELSE tag

(* A program made of d arrives; it is taken to be in the dialect of now.   *)
SetGenerated(d) ==
    /\ ShowFor(d, doc["post"], doc["post"])
    /\ generatedBack' = IF d["stock"] = Flipped THEN d ELSE None
    /\ dirty' = FALSE

(* clearProject and setImported forget the front program only.             *)
ForgetGenerated ==
    /\ generated' = None /\ generatedPost' = None
    /\ UNCHANGED generatedBack

Switches == switched' = (runs # <<>> /\ (switched \/ doc'["post"] # doc["post"]))

----------------------------------------------------------------------------
(* Edits. *)

Edits(A) ==
    /\ A
    /\ ShowFor(generated, generatedPost, doc'["post"])
    /\ Switches
    /\ UNCHANGED <<generatedBack, pipelineState, generating, runs, resets, mixed, files>>

Edit == \E c \in Commands : Edits(Exec(c))
UndoEdit == Edits(Undo)
RedoEdit == Edits(Redo)

----------------------------------------------------------------------------
(* Generate. *)

Run ==
    /\ doc["imports"] # <<>>
    /\ resets < MaxResets
    /\ pipelineState' = "running" /\ generating' = TRUE
    /\ runs' = Append(runs, doc)
    /\ switched' = (runs # <<>> /\ switched)
    /\ UNCHANGED <<vars, generated, generatedBack, generatedPost, resets, mixed, files>>

(* Mutant: the bus starts a run whatever the state. *)
GenerateRequest_Anytime == Run

GenerateButton == ~generating /\ Run

GenerateRequest == pipelineState = "idle" /\ Run      \* generateBus

AutoRun == "regenerate" \in scene /\ dirty /\ ~Running /\ Run

CancelRun ==
    /\ pipelineState = "running"
    /\ pipelineState' = "cancelling"
    /\ UNCHANGED <<vars, generated, generatedBack, generatedPost, generating, runs, resets,
                   dialects, files>>

(* Mutant: a cancelled request is forgotten, its promise never settles. *)
Answered_UnlessCancelled(i) ==
    /\ i \in DOMAIN runs
    /\ pipelineState = "running"
    /\ runs' = RemoveAt(runs, i)
    /\ generating' = FALSE
    /\ UNCHANGED <<doc, history, switched, files>>

(* The backend's answer to request i: run() goes on behind its await.      *)
Answered(i) ==
    /\ i \in DOMAIN runs
    /\ runs' = RemoveAt(runs, i)
    /\ generating' = FALSE
    /\ UNCHANGED <<doc, history, switched, files>>

Finished(i) ==
    /\ Answered(i)
    /\ SetGenerated(runs[i])
    /\ pipelineState' = "completed"
    /\ resets' = resets + 1
    /\ mixed' = switched

(* CancelledError or another error: back to idle, the old program stays.   *)
Failed(i) ==
    /\ Answered(i)
    /\ pipelineState' = "idle"
    /\ UNCHANGED <<dirty, generated, generatedBack, generatedPost, resets, mixed>>

Answer == \E i \in DOMAIN runs : Finished(i) \/ Failed(i)

(* Mutant: the timer resets any state. *)
ResetState_Always ==
    /\ resets > 0
    /\ resets' = resets - 1
    /\ pipelineState' = "idle"
    /\ UNCHANGED <<vars, generated, generatedBack, generatedPost, generating, runs, dialects, files>>

(* The timer of finishGenerate, 1 s later. *)
ResetState ==
    /\ resets > 0
    /\ resets' = resets - 1
    /\ pipelineState' = IF pipelineState = "completed" THEN "idle" ELSE pipelineState
    /\ UNCHANGED <<vars, generated, generatedBack, generatedPost, generating, runs, dialects, files>>

----------------------------------------------------------------------------
(* Save, on the desktop: the snapshot is taken before the dialog. *)

BeginSave ==
    /\ saving = None
    /\ saving' = doc
    /\ UNCHANGED <<vars, gen, file, savedToProject, loading, reloading, scene>>

Saved ==
    /\ saving # None
    /\ file' = saving /\ saving' = None
    /\ dirty' = FALSE /\ savedToProject' = TRUE
    /\ UNCHANGED <<doc, history, gen, loading, reloading, scene>>

(* The dialog dismissed, or the write failed. *)
SaveFailed ==
    /\ saving # None
    /\ saving' = None
    /\ UNCHANGED <<vars, gen, file, savedToProject, loading, reloading, scene>>

----------------------------------------------------------------------------
(* Open project: after the prompt, if one is due, the file is read.        *)

BeginLoad ==
    /\ loading = None /\ "open" \in scene
    /\ \E d \in ProjectFiles \cup ({file} \ {None}) :
         loading' = [reads |-> d, cleared |-> FALSE]
    /\ UNCHANGED <<vars, gen, file, savedToProject, saving, reloading, scene>>

(* clearProject; the backend's cache is cleared next, behind an await. *)
ClearForLoad ==
    /\ loading # None /\ ~loading.cleared
    /\ loading' = [loading EXCEPT !.cleared = TRUE]
    /\ doc' = [doc EXCEPT !["imports"] = <<>>]
    /\ dirty' = FALSE /\ savedToProject' = FALSE /\ file' = None
    /\ ClearsHistory
    /\ ForgetGenerated
    /\ UNCHANGED <<pipelineState, generating, runs, resets, dialects, saving, reloading, scene>>

(* restoreProject, which passes the first drawing through setImported. *)
Restored(d) ==
    [d EXCEPT !["imports"] = IF @ = <<>> THEN <<>> ELSE << AutoPlaced[@[1]] >>]

LoadFinished ==
    /\ loading # None /\ loading.cleared
    /\ loading' = None
    /\ doc' = Restored(loading.reads)
    /\ file' = loading.reads
    /\ dirty' = FALSE /\ savedToProject' = TRUE
    /\ ClearsHistory
    /\ IF doc'["imports"] = <<>>
       THEN ShowFor(generated, generatedPost, doc'["post"]) /\ UNCHANGED generatedBack
       ELSE ForgetGenerated
    /\ Switches
    /\ UNCHANGED <<pipelineState, generating, runs, resets, mixed, saving, reloading, scene>>

(* The file cannot be read, or (once cleared) is not a project. *)
LoadFailed ==
    /\ loading # None
    /\ loading' = None
    /\ UNCHANGED <<vars, gen, file, savedToProject, saving, reloading, scene>>

----------------------------------------------------------------------------
(* The watcher reports that a drawing's file has changed. *)

BeginReload ==
    /\ reloading = None
    /\ "reload" \in scene
    /\ \E i \in DOMAIN doc["imports"] :
         reloading' = [path |-> PathOf[doc["imports"][i]], idx |-> i]
    /\ UNCHANGED <<vars, gen, file, savedToProject, saving, loading, scene>>

(* The index is the one of before the await; past the end, next[idx] =     *)
(* {...} makes a new entry.                                                *)
Reloaded ==
    /\ reloading # None
    /\ reloading' = None
    /\ LET now == doc["imports"]
           At(e) == Reread[e, reloading.path]
       IN  doc' = [doc EXCEPT !["imports"] =
                     IF reloading.idx \in DOMAIN now
                     THEN [now EXCEPT ![reloading.idx] = At(now[reloading.idx])]
                     ELSE Append(now, At(None))]
    /\ dirty' = TRUE
    /\ UNCHANGED <<history, gen, file, savedToProject, saving, loading, scene>>

ReloadFailed ==
    /\ reloading # None
    /\ reloading' = None
    /\ UNCHANGED <<vars, gen, file, savedToProject, saving, loading, scene>>

----------------------------------------------------------------------------
Generate ==
    GenerateButton \/ GenerateRequest \/ AutoRun \/ CancelRun \/ Answer \/ ResetState
SaveOrLoad ==
    BeginSave \/ Saved \/ SaveFailed \/ BeginLoad \/ ClearForLoad \/ LoadFinished \/ LoadFailed
Reload == BeginReload \/ Reloaded \/ ReloadFailed

SessionNext == Edit \/ UndoEdit \/ RedoEdit \/ Generate \/ SaveOrLoad \/ Reload

(* The backend answers every request and a timer that is set fires; users  *)
(* need not do anything.  The history's clock stands still: Edit takes     *)
(* commands without a coalesce key (module History has the others).        *)
Fairness == WF_session(Answer) /\ WF_session(ResetState)
SessionSpec == SessionInit /\ [][SessionNext]_session /\ Fairness

----------------------------------------------------------------------------
(* GenerateBar.svelte:147-177, :352-358: three ways lead to run(), each    *)
(* with a guard of its own, and a timer set by the last run resets the     *)
(* state the guards read.  Two runs are never in flight together.          *)
OneRunAtATime == Len(runs) <= 1

(* generated.svelte.ts:160-171: however a run ends, and whatever is        *)
(* loaded, edited or saved meanwhile, the bar shows a running pipeline     *)
(* exactly while a request is in flight.                                   *)
BusyWhileRunning == Running <=> runs # <<>>

(* GenerateBar.svelte:74-79, :99-104: the program on screen is in the      *)
(* dialect the project has now, also after an undo, a redo or an Open that *)
(* brings another dialect. Excepted is a program whose run was out while    *)
(* the dialect changed: the tag is read at the answer, so of such a program *)
(* only the tag is today's.                                                *)
DialectIsCurrent ==
    generated # None =>
        /\ generatedPost = doc["post"]
        /\ mixed \/ generated["post"] = doc["post"]

(* A pipeline that runs comes to rest, cancelled or not.                   *)
RunsEnd == Running ~> ~Running

----------------------------------------------------------------------------
(* What the comments say and the code does not do.                         *)

(* unsaved.ts:17: dirty is "Edited since the last save or load".           *)
GenerateKeepsUnsaved == [][Answer => (HasUnsavedWork => HasUnsavedWork')]_session

(* history.ts:230: "undoing back to a clean state actually clears the      *)
(* dirty flag" - and undoing away from the saved state must not.           *)
UndoFromSavedIsUnsaved ==
    [][UndoEdit /\ ~dirty /\ doc = file /\ doc' # file => HasUnsavedWork']_session

(* file_ops.ts:537: "The file now matches disk".                           *)
SaveMatchesDisk == [][Saved => file' = doc']_session

(* project-data.svelte.ts:329: dirty is "True when the in-memory project   *)
(* differs from the gcode currently shown in `generated`".                 *)
StaleIsFlagged == generated # None /\ generated # doc => dirty

(* GenerateBar.svelte:74: generatedPost "Tracks which post-processor       *)
(* produced the currently cached `project.gen.generated` gcode buffer".    *)
PostMatches == generated # None => generatedPost = generated["post"]

(* project-file-ops.ts:20: clearProject drops the "generated state".       *)
ClearDropsPrograms == [][ClearForLoad => generated' = None /\ generatedBack' = None]_session

(* import-ops.ts:208: the reload replaces the matching entry in place and  *)
(* must not "overwrite an unrelated import".                               *)
ReloadHitsItsImport ==
    [][Reloaded => \A i \in DOMAIN doc["imports"] :
                      doc["imports"][i] # doc'["imports"][i]
                         => PathOf[doc["imports"][i]] = reloading.path]_session

(* import-ops.ts:197: a reload is undoable, "Ctrl+Z reverts to the prior   *)
(* geometry".                                                              *)
ReloadIsUndoable == [][Reloaded => undoStack' # undoStack]_session

(* project-types.ts:675: an import's id is "stable across save/load".      *)
OpensAsSaved == [][LoadFinished => doc' = loading.reads]_session
=============================================================================
