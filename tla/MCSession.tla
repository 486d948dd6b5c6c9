----------------------------- MODULE MCSession -----------------------------
(* An instance of Session for TLC: one project file with two drawings, the *)
(* second moved by the user; an edit of the dialect.                       *)
EXTENDS Session, TLC

MCFields == {"stock", "post", "imports"}
MCValues ==
    { <<"flat">>, <<"flip">>, <<"ngc">>, <<"plt">>,
      <<>>, <<"a">>, <<"b">>, <<"a", "b moved">> }

Command(field, v) ==
    [sets |-> (field :> <<v>>), snapshot |-> FALSE, key |-> NoKey, marks |-> TRUE]

(* One edit of the dialect: undo, redo, Open and an answer touch it too. *)
MCFewCommands == {Command("post", "plt")}

Project(stock, imports) ==
    ("stock" :> <<stock>>) @@ ("post" :> <<"ngc">>) @@ ("imports" :> imports)

MCFlipped == <<"flip">>
MCOneDrawing == { Project("flat", <<"a">>) }
MCFlipProject == { Project("flip", <<"a">>) }
MCTwoDrawings == { Project("flat", <<"a", "b moved">>) }
MCTwoProjects == { Project("flat", <<"a">>), Project("flat", <<"b">>) }

Drawings == {"a", "a2", "b", "b moved", "b2", "b2 moved"}
Moved == {"b moved", "b2 moved"}
MCPathOf == [e \in Drawings |-> IF e \in {"a", "a2"} THEN "a" ELSE "b"]
MCAutoPlaced ==
    [e \in Drawings |-> CASE e = "b moved" -> "b" [] e = "b2 moved" -> "b2" [] OTHER -> e]
MCReread ==
    [e \in Drawings \cup {None}, p \in {"a", "b"} |->
        IF p = "a" THEN "a2" ELSE IF e \in Moved THEN "b2 moved" ELSE "b2"]
=============================================================================
