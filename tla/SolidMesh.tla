------------------------------ MODULE SolidMesh ------------------------------
(***************************************************************************)
(* The mesh that shows the dexel field (sim/heightfield_mesh.ts): a fine   *)
(* and a coarse level of detail, one of them in the scene, and for each the *)
(* vertices last written, the ranges that wait for the next frame, and the  *)
(* copy the graphics card holds. It reads the field through a view of the   *)
(* simulator's memory that any later growth of that memory detaches.       *)
(* dropped is a history variable: the cells whose range was cleared before  *)
(* a frame had sent it and that nothing has redrawn since.                  *)
(***************************************************************************)
EXTENDS Dexel, FiniteSetsExt

Levels == {0, 1}
Width(k) == IF k = 0 THEN Columns ELSE (Columns + 1) \div 2
Children(k, c) == IF k = 0 THEN {c} ELSE {2 * c - 1, 2 * c} \cap Cells

(* poolRange: a coarse cell shows the deepest cut under it. *)
Pool(tops, k) == [c \in 1..Width(k) |-> Min({tops[x] : x \in Children(k, c)})]

NoCell == StockTop + 1
WallOf(heights, c) == <<heights[c], IF c + 1 \in DOMAIN heights THEN heights[c + 1] ELSE NoCell>>
FacesOf(heights) == [c \in DOMAIN heights |-> [top |-> heights[c], wall |-> WallOf(heights, c)]]

NewLevel(k) ==
    LET uncut == FacesOf([c \in 1..Width(k) |-> StockTop])
    IN [faces |-> uncut, ranges |-> {}, dropped |-> {}, dirty |-> FALSE,
        card |-> uncut, sent |-> FALSE]

NewMesh == [level |-> 0, levels |-> [k \in Levels |-> NewLevel(k)], view |-> FALSE]

(* HeightfieldMesh.updateHeights over the columns R. The wall to the left of *)
(* the region is rewritten too. clearUpdateRanges drops what was not sent;   *)
(* the first frame of a level sends all of it, ranges or not.                *)
Redraws_Own(R) == R

Redraws(R) == (R \cup {c - 1 : c \in R}) \ {0}

Redrawn(l, heights, R) ==
    [l EXCEPT !.faces = [c \in DOMAIN @ |->
                            [top  |-> IF c \in R THEN heights[c] ELSE @[c].top,
                             wall |-> IF c \in Redraws(R) THEN WallOf(heights, c) ELSE @[c].wall]],
              !.ranges = Redraws(R),
              !.dropped = IF l.sent THEN (@ \cup l.ranges) \ Redraws(R) ELSE {},
              !.dirty = TRUE]

(* HeightfieldMeshPyramid.updateHeights. *)
UpdateHeights(m, tops, R) ==
    LET k == m.level
        region == {c \in 1..Width(k) : Children(k, c) \cap R # {}}
    IN IF region = {} THEN [m EXCEPT !.view = TRUE]
       ELSE [m EXCEPT !.view = TRUE,
                      !.levels[k] = Redrawn(@, Pool(tops, k), region)]

(* setActiveLevel. Without a view the new level stays as it was. *)
SetActiveLevel(m, tops, k) ==
    LET swapped == [m EXCEPT !.level = k]
    IN IF m.view THEN UpdateHeights(swapped, tops, Cells) ELSE swapped

(* The next frame: the renderer sends what changed of the mesh in the scene. *)
Drawn(l) ==
    [l EXCEPT !.card = IF ~l.sent THEN l.faces
                       ELSE [c \in DOMAIN @ |-> IF c \in l.ranges THEN l.faces[c] ELSE @[c]],
              !.sent = TRUE, !.ranges = {}, !.dirty = FALSE]

UpToDate(m) == m.levels[m.level].sent /\ ~m.levels[m.level].dirty
Frame(m) == [m EXCEPT !.levels[m.level] = Drawn(@)]

(* What the screen should show of a field, where no range was dropped. *)
ShowsTops(m, tops) ==
    LET l == m.levels[m.level]
        field == FacesOf(Pool(tops, m.level))
    IN \A c \in DOMAIN field \ l.dropped : l.card[c] = field[c]
=============================================================================
