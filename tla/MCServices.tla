----------------------------- MODULE MCServices -----------------------------
(***************************************************************************)
(* The libraries and the user-space programs, each by itself: part, chosen *)
(* at the start, says which of them runs.                                  *)
(***************************************************************************)
EXTENDS Lists, LibcHeap, Strings, Shell, Ramfs, Vfs, ServerTables

VARIABLE part

\* Names that are short, that fill an entry's field, and that do not fit.
MCFileNames == {<<"a">>, <<"a", "a", "a">>, <<"a", "a", "a", "a">>}

\* Mounts that nest, that adjoin, and the root.
MCPaths == {<<>>, <<"a">>, <<"b">>, <<"a", "b">>}

serviceVars == <<part, listVars, heapVars, stringVars, shellVars, ramfsVars, vfsVars, tableVars>>

\* What is not run starts in one state.
MCInit ==
    /\ part \in {"lists", "heap", "strings", "shell", "ramfs", "vfs", "proc", "mem"}
    /\ ListsInit
    /\ HeapInit
    /\ IF part = "strings" THEN StringsInit ELSE memory = <<>> /\ call = <<>>
    /\ ShellInit
    /\ RamfsInit
    /\ VfsInit
    /\ TablesInit

MCNext ==
    /\ UNCHANGED part
    /\ \/ part = "lists" /\ ListsNext
          /\ UNCHANGED <<heapVars, stringVars, shellVars, ramfsVars, vfsVars, tableVars>>
       \/ part = "heap" /\ HeapNext
          /\ UNCHANGED <<listVars, stringVars, shellVars, ramfsVars, vfsVars, tableVars>>
       \/ part = "strings" /\ StringsNext
          /\ UNCHANGED <<listVars, heapVars, shellVars, ramfsVars, vfsVars, tableVars>>
       \/ part = "shell" /\ ShellNext
          /\ UNCHANGED <<listVars, heapVars, stringVars, ramfsVars, vfsVars, tableVars>>
       \/ part = "ramfs" /\ RamfsNext
          /\ UNCHANGED <<listVars, heapVars, stringVars, shellVars, vfsVars, tableVars>>
       \/ part = "vfs" /\ VfsNext
          /\ UNCHANGED <<listVars, heapVars, stringVars, shellVars, ramfsVars, tableVars>>
       \/ part = "proc" /\ ProcServerNext
          /\ UNCHANGED <<listVars, heapVars, stringVars, shellVars, ramfsVars, vfsVars>>
       \/ part = "mem" /\ MemServerNext
          /\ UNCHANGED <<listVars, heapVars, stringVars, shellVars, ramfsVars, vfsVars>>

MCSpec == MCInit /\ [][MCNext]_serviceVars
=============================================================================
