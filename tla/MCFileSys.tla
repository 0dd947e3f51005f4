----------------------------- MODULE MCFileSys -----------------------------
(* Module FileSys with the programs that TLC runs on it. *)
EXTENDS FileSys, TLC

NameSymmetry == Permutations(Names \ {".", ".."})

OneBuffer == {<<1, 2, 1>>}
MCOffsets == {-1, 6}

MCScenarios == {
    {"fopen", "rw", "lseek", "crash"},
    {"fopen", "rw", "rm"},
    {"fopen", "rw", "mkfs"},
    {"mkdir", "rmdir", "touch", "rm", "crash"},
    {"mkdir", "rmdir", "cd", "dots"},
    {"touch", "rm", "ln", "dots", "crash"},
    {"mkdir", "touch", "ln", "dots"}}

\* Programs that link a directory.
LinkDir == {{"mkdir", "rmdir", "touch", "rm", "ln", "ln_dir"}}
=============================================================================
