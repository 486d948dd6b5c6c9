------------------------- MODULE TextPreview_proofs -------------------------
(***************************************************************************)
(* What the preview of text layers does whatever the layers and their      *)
(* texts, however often they change and in whatever order the renders are  *)
(* answered (module TextPreview).                                          *)
(***************************************************************************)
EXTENDS TextPreview, TLAPS

LEMMA Domains ==
    ASSUME NEW f, NEW S, NEW id, NEW v
    PROVE  /\ DOMAIN Without(f, S) = DOMAIN f \ S
           /\ \A x \in DOMAIN f \ S : Without(f, S)[x] = f[x]
           /\ DOMAIN With(f, id, v) = DOMAIN f \cup {id}
           /\ With(f, id, v)[id] = v
           /\ \A x \in DOMAIN f \ {id} : With(f, id, v)[x] = f[x]
  BY DEF Without, With, Restrict

(* A request sets timers for layers there are, and for no others.          *)
LEMMA RequestedIsThere ==
    ASSUME NEW ls, NEW c, NEW waits
    PROVE  DOMAIN Requested(ls, c, waits) \subseteq DOMAIN waits \cup DOMAIN ls
  BY DEF Requested, Stale

LEMMA NothingIsEmpty == DOMAIN << >> = {}
  OBVIOUS

-----------------------------------------------------------------------------
(* A layer that was deleted has no text, no segments, no timer and no      *)
(* render that counts: nothing is left that could bring segments back.     *)
RemovedIsGone ==
    \A id \in removed :
        id \notin DOMAIN layers /\ id \notin DOMAIN cache
        /\ id \notin DOMAIN inflight /\ id \notin DOMAIN generation

LEMMA RemovedStart == Init => RemovedIsGone
  BY DEF Init, RemovedIsGone

LEMMA RemovedStep == RemovedIsGone /\ [Next]_vars => RemovedIsGone'
  <1> SUFFICES ASSUME RemovedIsGone, [Next]_vars PROVE RemovedIsGone'
      OBVIOUS
  <1> USE DEF RemovedIsGone
  <1>1. ASSUME NEW id \in Layers, NEW text \in Texts, SetText(id, text) PROVE RemovedIsGone'
    <2>1. DOMAIN layers' = DOMAIN layers \cup {id} /\ removed' = removed \ {id}
        BY <1>1, Domains DEF SetText
    <2>2. DOMAIN inflight' \subseteq DOMAIN inflight \cup DOMAIN layers'
        BY <1>1, RequestedIsThere DEF SetText
    <2> QED
        BY <1>1, <2>1, <2>2 DEF SetText
  <1>2. ASSUME NEW id \in Layers, UndoAdd(id) PROVE RemovedIsGone'
    <2>1. DOMAIN layers' = DOMAIN layers \ {id}
        BY <1>2, Domains DEF UndoAdd
    <2>2. DOMAIN inflight' \subseteq DOMAIN inflight \cup DOMAIN layers'
        BY <1>2, RequestedIsThere DEF UndoAdd
    <2> QED
        BY <1>2, <2>1, <2>2 DEF UndoAdd
  <1>3. ASSUME NEW id \in Layers, RemoveLayer(id) PROVE RemovedIsGone'
    <2>1. /\ DOMAIN layers' = DOMAIN layers \ {id}
          /\ DOMAIN cache' = DOMAIN cache \ {id}
          /\ DOMAIN generation' = DOMAIN generation \ {id}
          /\ DOMAIN Without(inflight, {id}) = DOMAIN inflight \ {id}
          /\ removed' = removed \cup {id}
        BY <1>3, Domains DEF RemoveLayer, Superseded
    <2>2. DOMAIN inflight' \subseteq DOMAIN Without(inflight, {id}) \cup DOMAIN layers'
        BY <1>3, RequestedIsThere DEF RemoveLayer
    <2> QED
        BY <2>1, <2>2
  <1>4. ASSUME NEW ls, ReplaceProject(ls) PROVE RemovedIsGone'
      BY <1>4 DEF ReplaceProject
  <1>5. CASE ImportDrawing
      BY <1>5, NothingIsEmpty DEF ImportDrawing, ResetPreviewCache, NothingToReset
  <1>6. CASE Mounts
    <2>1. DOMAIN inflight' \subseteq DOMAIN inflight \cup DOMAIN layers
        BY <1>6, RequestedIsThere DEF Mounts
    <2> QED
        BY <1>6, <2>1 DEF Mounts
  <1>7. ASSUME NEW id \in Layers, Fires(id) PROVE RemovedIsGone'
    <2>1. /\ id \in DOMAIN inflight
          /\ DOMAIN generation' = DOMAIN generation \cup {id}
          /\ DOMAIN inflight' = DOMAIN inflight \ {id}
        BY <1>7, Domains DEF Fires
    <2> QED
        BY <1>7, <2>1 DEF Fires
  <1>8. ASSUME NEW r \in renders, Answered(r) \/ Fails(r) PROVE RemovedIsGone'
    <2>1. \A id \in DOMAIN cache' : id \in DOMAIN cache \/ id \in DOMAIN generation
      <3>1. /\ DOMAIN With(cache, r.id, r.text) = DOMAIN cache \cup {r.id}
            /\ DOMAIN Without(cache, {r.id}) = DOMAIN cache \ {r.id}
          BY DEF With, Without, Restrict
      <3>2. CASE cache' = cache
          BY <3>2
      <3>3. CASE IsLatest(r) /\ (cache' = With(cache, r.id, r.text)
                                 \/ cache' = Without(cache, {r.id}))
          BY <3>1, <3>3 DEF IsLatest
      <3> QED
          BY <1>8, <3>2, <3>3 DEF Answered, Fails
    <2> QED
        BY <1>8, <2>1 DEF Answered, Fails
  <1>9. CASE UNCHANGED vars
      BY <1>9 DEF vars, preview
  <1> QED
      BY <1>1, <1>2, <1>3, <1>4, <1>5, <1>6, <1>7, <1>8, <1>9 DEF Next

(* invalidatePreview: a deleted layer stays without segments until there   *)
(* is a layer with its id again, for any number of layers and renders.     *)
THEOREM RemovedStaysEmpty == Spec => []RemovedShowsNothing
  <1>1. RemovedIsGone => RemovedShowsNothing
      BY DEF RemovedIsGone, RemovedShowsNothing
  <1> QED
      BY <1>1, RemovedStart, RemovedStep, PTL DEF Spec

-----------------------------------------------------------------------------
(* Tokens                                                                  *)

(* A token is given out once, so it names its render.                      *)
TokensAreOnce ==
    /\ genCounter \in Nat
    /\ \A r \in renders : r.token \in Nat /\ r.token <= genCounter
    /\ \A r, q \in renders : r.token = q.token => r = q

LEMMA TokensStep == TokensAreOnce /\ [Next]_vars => TokensAreOnce'
  <1> SUFFICES ASSUME TokensAreOnce, [Next]_vars PROVE TokensAreOnce'
      OBVIOUS
  <1> USE DEF TokensAreOnce
  <1>1. CASE UNCHANGED <<renders, genCounter>>
      BY <1>1
  <1>2. ASSUME NEW id \in Layers, Fires(id) PROVE TokensAreOnce'
    <2>1. PICK r : /\ r.token = genCounter + 1
                   /\ renders' = renders \cup {r} /\ genCounter' = genCounter + 1
        BY <1>2 DEF Fires
    <2> QED
        BY <2>1
  <1>3. ASSUME NEW r \in renders, Answered(r) \/ Fails(r) PROVE TokensAreOnce'
      BY <1>3 DEF Answered, Fails
  <1> QED
      BY <1>1, <1>2, <1>3
      DEF Next, SetText, UndoAdd, RemoveLayer, ReplaceProject, ImportDrawing, Mounts, vars

(* Of the renders of a layer that are under way at most one counts: the    *)
(* order in which they are answered cannot decide what the layer shows.    *)
OneRenderCounts ==
    \A r, q \in renders : r.id = q.id /\ IsLatest(r) /\ IsLatest(q) => r = q

THEOREM AtMostOneCounts == Spec => []OneRenderCounts
  <1>1. Init => TokensAreOnce
      BY DEF Init, TokensAreOnce
  <1>2. TokensAreOnce => OneRenderCounts
      BY DEF TokensAreOnce, OneRenderCounts, IsLatest
  <1> QED
      BY <1>1, <1>2, TokensStep, PTL DEF Spec
=============================================================================
