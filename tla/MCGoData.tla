------------------------------ MODULE MCGoData ------------------------------
(***************************************************************************)
(* Small instances of GoFiles, the tools that change files, and GoStore,   *)
(* the messages of a session. They share the database, but no row of it,   *)
(* so that each is checked while the other one rests. Sessions, files and  *)
(* requests are interchangeable.                                           *)
(***************************************************************************)
EXTENDS GoFiles, GoStore, TLC

VARIABLE part   \* the part that moves

Interchangeable == Permutations(Editors) \cup Permutations(Paths) \cup Permutations(Requests)

Init ==
    /\ part \in {"files", "store"}
    /\ FilesInit /\ StoreInit
    /\ \E p \in Paths : Present(p)   \* bound: one of the files is there at first,
    /\ disk \in [Paths -> {Absent} \cup Texts]   \* and none is empty
    /\ part = "store" => disk \in [Paths -> Texts]

Next ==
    \/ /\ part = "files" /\ FilesNext
       /\ second' # second => rows # {}   \* seconds tell rows apart, and nothing else
       /\ UNCHANGED <<part, storeVars>>
    \/ part = "store" /\ StoreNext /\ UNCHANGED <<part, filesVars>>

Spec == Init /\ [][Next]_<<part, filesVars, storeVars>>

=============================================================================
