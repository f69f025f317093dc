---------------------------- MODULE MCUndoStack ----------------------------
(* The undo stacks for TLC: few files, few contents, a cap that is reached. *)
EXTENDS UndoStack, TLC

MCSymmetry == Permutations(Paths) \cup Permutations(Contents)
============================================================================
