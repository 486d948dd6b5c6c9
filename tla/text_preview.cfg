SPECIFICATION Spec
CONSTANTS
    Layers = {1}
    Texts = {"a", "b", "empty"}
    Unrenderable = {"empty"}
    Changes = {"text", "undo", "remove", "open", "drawing", "mount"}
    MaxChanges = 6
    MaxFailures = 1
INVARIANT RemovedShowsNothing
PROPERTY PreviewCatchesUp
CHECK_DEADLOCK FALSE
