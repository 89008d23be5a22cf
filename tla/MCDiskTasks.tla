---------------------------- MODULE MCDiskTasks ----------------------------
(* The tasks of the disk manager and the two helpers they are built on, for*)
(* TLC.  A behaviour is one of the tasks, of the pending blocks of a piece,*)
(* or of the loop over the files of a block; the rest stays as it began.   *)
EXTENDS DiskTasks, PieceMerge, PieceAccessor, TLC

VARIABLE part

(* Two pieces, the first of two blocks.                                    *)
SmallTorrent == {<<1, 1>>, <<1, 2>>, <<2, 1>>}
LastOfTorrent == <<2, 1>>

AnyBlock == {b \in [offset : 0 .. (PieceLength - 1), length : 1 .. PieceLength] : b.offset + b.length <= PieceLength}

(* Up to three files of length 0 to 3.                                     *)
SmallFiles == UNION {[1 .. n -> 0 .. 3] : n \in 1 .. 3}

Symmetry == Permutations(Requests)

PartsInit ==
    /\ part \in {"tasks", "merge", "accessor"}
    /\ TasksInit /\ MergeInit /\ AccessorInit
    /\ part # "accessor" => args = <<<<0>>, 0, 0>>
    /\ part # "tasks" => file = "absent"

PartsNext ==
    /\ UNCHANGED part
    /\ \/ part = "tasks" /\ TasksNext /\ UNCHANGED <<mergeVars, accessorVars>>
       \/ part = "merge" /\ MergeNext /\ UNCHANGED <<tasksVars, accessorVars>>
       \/ part = "accessor" /\ AccessorNext /\ UNCHANGED <<tasksVars, mergeVars>>

PartsSpec == PartsInit /\ [][PartsNext]_<<part, tasksVars, mergeVars, accessorVars>>
=============================================================================
