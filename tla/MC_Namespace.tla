----------------------------- MODULE MC_Namespace -----------------------------
EXTENDS Namespace, TLC

CONSTANTS t1, t2, n1, n2

MC_Threads == {t1, t2}
MC_OneThread == {t1}
MC_Names == {n1, n2}

\* 0700 for mkdir (the server default is 0755); S_IFREG|0644 and S_IFIFO|0644 for mknod.
MC_MkdirModes == {448}
MC_MknodModes == {33188, 4516}

\* a write-only create of a rwx------ regular file
MC_CreateModes == {33216}

OldFile == [type |-> "file", mode |-> 420, uid |-> 0, gid |-> 0, size |-> 1,
            full |-> FALSE]
FullDir == [type |-> "dir", mode |-> 493, uid |-> 0, gid |-> 0, size |-> 0,
            full |-> TRUE]

\* n1 holds an old file; n2 is free or a directory with entries in it.
MC_InitNs == {(n1 :> OldFile) @@ (n2 :> Absent), (n1 :> OldFile) @@ (n2 :> FullDir)}

MC_Symmetry == Permutations(MC_Threads)
=============================================================================
