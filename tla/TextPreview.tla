----------------------------- MODULE TextPreview -----------------------------
(***************************************************************************)
(* The preview of text layers (frontend/src/lib/state/text_preview.svelte.ts).*)
(* Every change of the layers asks for a render of each layer whose cached  *)
(* one is out of date; requests are debounced, renders are asynchronous and *)
(* answered in any order, and a token per layer tells which answer counts.  *)
(* A text stands for all that hashLayer reads; the origin, which is applied *)
(* when drawing, is left out.                                               *)
(***************************************************************************)
EXTENDS Naturals, FiniteSets, Functions

CONSTANTS Layers,       \* ids of text layers
          Texts,        \* what a layer can say
          Unrenderable, \* texts the backend refuses, the empty one among them
          Changes,      \* what the user may do
          MaxChanges,   \* bound on how often
          MaxFailures   \* bound on the calls that fail on the way

ASSUME TextPreviewAssumption ==
    /\ Unrenderable \subseteq Texts
    /\ MaxChanges \in Nat /\ MaxFailures \in Nat

VARIABLES
    layers,     \* project.data.textLayers: the text of each layer there is
    cache,      \* of each layer the text last rendered
    inflight,   \* of each layer the text whose debounce timer runs
    renders,    \* calls of renderTextLayer not answered yet
    generation, \* of each layer the token of the latest render
    genCounter,
    removed,    \* layers the user has deleted and not brought back
    instead,    \* history: of each layer the effect has left behind, what it may
                \* show in place of its text; none of it, nothing at all
    changes, failures

preview == <<cache, inflight, generation>>
vars == <<layers, preview, renders, genCounter, removed, instead, changes, failures>>

Without(f, S) == Restrict(f, DOMAIN f \ S)
With(f, id, v) == [x \in DOMAIN f \cup {id} |-> IF x = id THEN v ELSE f[x]]

IsCached(id, text) == id \in DOMAIN cache /\ cache[id] = text

(* requestPreview for every layer of ls, on the state [cache, inflight]: a   *)
(* layer whose cached render is of its text is left as it is.               *)
Stale(ls, c) == {id \in DOMAIN ls : ~(id \in DOMAIN c /\ c[id] = ls[id])}

Requested_KeepsTimer(ls, c, waits) ==
    [id \in DOMAIN waits \cup Stale(ls, c) |->
        IF id \in DOMAIN waits THEN waits[id] ELSE ls[id]]

Requested(ls, c, waits) ==
    [id \in DOMAIN waits \cup Stale(ls, c) |->
        IF id \in Stale(ls, c) THEN ls[id] ELSE waits[id]]

(* A request makes up for what a layer was left with. *)
LeftBehind(ls, c) == Restrict(instead, (DOMAIN instead \cap DOMAIN ls) \ Stale(ls, c))

Init ==
    /\ layers = << >> /\ cache = << >> /\ inflight = << >>
    /\ renders = {} /\ generation = << >> /\ genCounter = 0
    /\ removed = {} /\ instead = << >> /\ changes = 0 /\ failures = 0

Change(kind) == kind \in Changes /\ changes < MaxChanges /\ changes' = changes + 1

(* A render counts if no later one of its layer was dispatched and the layer *)
(* was not deleted since.                                                    *)
IsLatest(r) == r.id \in DOMAIN generation /\ generation[r.id] = r.token

(* The texts of the layer that wait for their timer or are being rendered. *)
DueTexts(id) ==
    {inflight[x] : x \in DOMAIN inflight \cap {id}}
        \cup {r.text : r \in {q \in renders : q.id = id /\ IsLatest(q)}}

(* A layer is added or gets another text, by an edit, an undo or a redo. One *)
(* that goes back to its cached text is left behind with the renders due.    *)
SetText(id, text) ==
    /\ Change("text")
    /\ layers' = With(layers, id, text)
    /\ inflight' = Requested(layers', cache, inflight)
    /\ removed' = removed \ {id}
    /\ instead' = IF IsCached(id, text) /\ DueTexts(id) # {}
                  THEN With(LeftBehind(layers', cache), id, DueTexts(id))
                  ELSE Without(LeftBehind(layers', cache), {id})
    /\ UNCHANGED <<cache, generation, renders, genCounter, failures>>

(* The undo of an add takes the layer away and leaves the preview alone. *)
UndoAdd(id) ==
    /\ Change("undo")
    /\ id \in DOMAIN layers
    /\ layers' = Without(layers, {id})
    /\ inflight' = Requested(layers', cache, inflight)
    /\ instead' = LeftBehind(layers', cache)
    /\ UNCHANGED <<cache, generation, renders, genCounter, removed, failures>>

Superseded_Kept(tokens, id) == tokens

(* invalidatePreview: no render under way counts any more. *)
Superseded(tokens, id) == Without(tokens, {id})

RemoveLayer(id) ==
    /\ Change("remove")
    /\ id \in DOMAIN layers
    /\ layers' = Without(layers, {id})
    /\ cache' = Without(cache, {id})
    /\ generation' = Superseded(generation, id)
    /\ inflight' = Requested(layers', cache', Without(inflight, {id}))
    /\ removed' = removed \cup {id}
    /\ instead' = LeftBehind(layers', cache')
    /\ UNCHANGED <<renders, genCounter, failures>>

(* resetPreviewCache does nothing when nothing is cached and no timer runs. *)
NothingToReset == cache = << >> /\ inflight = << >>
ResetPreviewCache ==
    /\ cache' = << >>
    /\ generation' = IF NothingToReset THEN generation ELSE << >>

(* Another project is opened, with the layers ls. *)
ReplaceProject(ls) ==
    /\ Change("open")
    /\ layers' = ls
    /\ ResetPreviewCache
    /\ inflight' = Requested(ls, << >>, << >>)
    /\ removed' = {} /\ instead' = << >>
    /\ UNCHANGED <<renders, genCounter, failures>>

(* The first drawing of a project resets the cache and keeps the layers; as *)
(* they do not change, nothing asks for them.                               *)
ImportDrawing ==
    /\ Change("drawing")
    /\ ResetPreviewCache
    /\ inflight' = << >>
    /\ instead' = IF NothingToReset THEN instead ELSE [id \in DOMAIN layers |-> {}]
    /\ UNCHANGED <<layers, renders, genCounter, removed, failures>>

(* A canvas is mounted: its effect asks for every layer again. *)
Mounts ==
    /\ Change("mount")
    /\ inflight' = Requested(layers, cache, inflight)
    /\ instead' = LeftBehind(layers, cache)
    /\ UNCHANGED <<layers, cache, generation, renders, genCounter, removed, failures>>

(* The debounce runs out: the render is dispatched under a new token. *)
Fires(id) ==
    /\ id \in DOMAIN inflight
    /\ genCounter' = genCounter + 1
    /\ generation' = With(generation, id, genCounter')
    /\ renders' = renders \cup {[id |-> id, text |-> inflight[id], token |-> genCounter']}
    /\ inflight' = Without(inflight, {id})
    /\ UNCHANGED <<layers, cache, removed, instead, changes, failures>>

(* A render is answered: with segments, or with an error that drops what   *)
(* was cached.                                                              *)
Answered(r) ==
    /\ r \in renders
    /\ r.text \notin Unrenderable
    /\ renders' = renders \ {r}
    /\ cache' = IF IsLatest(r)
                THEN With(cache, r.id, r.text) ELSE cache
    /\ UNCHANGED <<layers, inflight, generation, genCounter, removed, instead, changes, failures>>

Fails(r) ==
    /\ r \in renders
    /\ \/ r.text \in Unrenderable /\ UNCHANGED failures
       \/ r.text \notin Unrenderable /\ failures < MaxFailures /\ failures' = failures + 1
    /\ renders' = renders \ {r}
    /\ cache' = IF IsLatest(r) THEN Without(cache, {r.id}) ELSE cache
    /\ UNCHANGED <<layers, inflight, generation, genCounter, removed, instead, changes>>

Next ==
    \/ \E id \in Layers : \/ \E text \in Texts : SetText(id, text)
                          \/ UndoAdd(id) \/ RemoveLayer(id) \/ Fires(id)
    \/ \E ids \in SUBSET Layers : \E ls \in [ids -> Texts] : ReplaceProject(ls)
    \/ ImportDrawing \/ Mounts
    \/ \E r \in renders : Answered(r) \/ Fails(r)

(* Timers fire and calls are answered, one way or the other. *)
Settles(id) == \E r \in renders : r.id = id /\ (Answered(r) \/ Fails(r))
Fairness == \A id \in Layers : WF_vars(Fires(id)) /\ WF_vars(Settles(id))

Spec == Init /\ [][Next]_vars /\ Fairness

----------------------------------------------------------------------------
(* invalidatePreview: a layer the user has deleted stays without segments,  *)
(* whatever timers ran and calls were out, until there is a layer with its  *)
(* id again.                                                                *)
RemovedShowsNothing == removed \cap DOMAIN cache = {}

(* Once the changes stop, each layer shows its own text, or nothing if that   *)
(* cannot be rendered or a call has failed. There are two exceptions, until *)
(* the layers are next looked at. A layer whose text went back to the cached *)
(* one while another render was due was left alone: it ends with the text of *)
(* that render, or with nothing if it was refused. And the first drawing's   *)
(* reset of the cache leaves the layers of the project with nothing.        *)
ShowsItsText(id) ==
    IF id \in DOMAIN cache THEN cache[id] = layers[id]
    ELSE layers[id] \in Unrenderable \/ failures > 0
IsLeftBehind(id) ==
    id \in DOMAIN instead /\ (id \in DOMAIN cache => cache[id] \in instead[id])
PreviewCatchesUp == <>[](\A id \in DOMAIN layers : ShowsItsText(id) \/ IsLeftBehind(id))
=============================================================================
