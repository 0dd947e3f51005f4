----------------------------- MODULE FileStore -----------------------------
(***************************************************************************)
(* What the file system promises about the contents of files, without      *)
(* blocks, index blocks or maps: a file is a sequence of bytes that reads  *)
(* return as the last writes left it, with zeroes where nobody wrote.      *)
(* Module FileSys implements it.                                           *)
(***************************************************************************)
EXTENDS Integers, Sequences

CONSTANTS
    Files,      \* identities of files
    Buffers,    \* the sequences of bytes that programs write
    MaxSize     \* bound on the size of a file

VARIABLES
    files,      \* files[i]: the contents of i, or NoFile
    out,        \* what the last call returned to the program, if it was a read
    down        \* the machine has crashed

vars == <<files, out, down>>

NoFile == <<-1>>

Zeroes(n) == [k \in 1 .. n |-> 0]

\* The contents x with the bytes bs from offset o on; a gap before o is zero.
Overwrite(x, o, bs) ==
    [k \in 1 .. (IF o + Len(bs) > Len(x) THEN o + Len(bs) ELSE Len(x)) |->
        IF k \in o + 1 .. o + Len(bs) THEN bs[k - o]
        ELSE IF k <= Len(x) THEN x[k] ELSE 0]

Init ==
    /\ files = [i \in Files |-> NoFile]
    /\ out = <<>>
    /\ down = FALSE

Create(i) ==
    /\ files[i] = NoFile
    /\ files' = [files EXCEPT ![i] = <<>>]
    /\ out' = <<>>

Remove(i) ==
    /\ files' = [files EXCEPT ![i] = NoFile]
    /\ out' = <<>>

Write(i, o, bs) ==
    /\ files[i] # NoFile
    /\ files' = [files EXCEPT ![i] = Overwrite(files[i], o, bs)]
    /\ out' = <<>>

\* lseek beyond the end.
Extend(i, n) ==
    /\ files[i] # NoFile
    /\ n >= Len(files[i])
    /\ files' = [files EXCEPT ![i] = files[i] \o Zeroes(n - Len(files[i]))]
    /\ out' = <<>>

Read(i, o, n) ==
    /\ files[i] # NoFile
    /\ o + n <= Len(files[i])
    /\ out' = SubSeq(files[i], o + 1, o + n)
    /\ UNCHANGED files

Format ==
    /\ files' = [i \in Files |-> NoFile]
    /\ out' = <<>>

\* A call that has nothing to do with contents.
Other == out' = <<>> /\ UNCHANGED files

\* A crash in the middle of a call harms at most the file of that call.
Crash ==
    /\ down' = TRUE
    /\ out' = <<>>
    /\ \E i \in Files : \A j \in Files \ {i} : files'[j] = files[j]

Next ==
    /\ ~down
    /\ \/ Crash
       \/ /\ down' = FALSE
          /\ \/ Format
             \/ Other
             \/ \E i \in Files :
                  \/ Create(i)
                  \/ Remove(i)
                  \/ \E n \in 0 .. MaxSize : Extend(i, n)
                  \/ \E o \in 0 .. MaxSize, n \in 0 .. MaxSize : Read(i, o, n)
                  \/ \E o \in 0 .. MaxSize, bs \in Buffers : Write(i, o, bs)

Spec == Init /\ [][Next]_vars
=============================================================================
