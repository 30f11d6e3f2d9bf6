------------------------------ MODULE MCKernel ------------------------------
(***************************************************************************)
(* The kernel's smaller objects, each by itself: part, chosen at the       *)
(* start, says which of them runs.                                         *)
(***************************************************************************)
EXTENDS Cspace, Locks, Files, Entry, ProgramArgs, TLC

VARIABLE part

Name(dir, stem, elf) == [dir |-> dir, stem |-> stem, elf |-> elf]

\* A module found with and without its suffix and its directory, an empty one.
MCModules == <<[name |-> Name("/boot/", "sh", TRUE), size |-> 2],
               [name |-> Name("", "cat", FALSE), size |-> 0]>>
MCQueries == {Name("", "sh", FALSE), Name("/boot/", "cat", FALSE),
              Name("", "", FALSE)}

\* 7 overflows a 4-bit offset from any position but the first.
MCOffsets == {-1, 1, 7}

\* Two calls in any order on every thread, and each call by itself.
MCRepertoires == {{"SYS_IPC_SEND", "SYS_LSEEK"}} \union {{c} : c \in Calls}

\* Nothing tells the two capability spaces apart.
MCSymmetry == Permutations(Spaces)

kernelVars == <<part, cspaceVars, lockVars, fileVars, entryVars, argVars>>

\* What is not run starts in one state.
MCInit ==
    /\ part \in {"cspace", "locks", "files", "console", "entry", "args"}
    /\ CspaceInit
    /\ LocksInit
    /\ part # "locks" => next_ticket = 0
    /\ FilesInit
    /\ EntryInit
    /\ part # "entry" => repertoire = {"SYS_LSEEK"}
    /\ ArgsInit

MCNext ==
    /\ UNCHANGED part
    /\ \/ part = "cspace" /\ CspaceNext
          /\ UNCHANGED <<lockVars, fileVars, entryVars, argVars>>
       \/ part = "locks" /\ LocksNext
          /\ UNCHANGED <<cspaceVars, fileVars, entryVars, argVars>>
       \/ part = "files" /\ FilesNext
          /\ UNCHANGED <<cspaceVars, lockVars, entryVars, argVars>>
       \/ part = "console" /\ ConsoleNext
          /\ UNCHANGED <<cspaceVars, lockVars, entryVars, argVars>>
       \/ part = "entry" /\ EntryNext
          /\ UNCHANGED <<cspaceVars, lockVars, fileVars, argVars>>
       \/ part = "args" /\ ArgsNext
          /\ UNCHANGED <<cspaceVars, lockVars, fileVars, entryVars>>

MCSpec == MCInit /\ [][MCNext]_kernelVars
=============================================================================
