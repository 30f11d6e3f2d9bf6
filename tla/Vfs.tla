-------------------------------- MODULE Vfs --------------------------------
(***************************************************************************)
(* The tables of the VFS server, servers/vfs/main.c: mount points and open *)
(* files, and the handlers that change them.  A path is the sequence of    *)
(* its components, "/" being <<>>.  The file system behind a mount is not  *)
(* asked yet: the code makes up an inode, a file size and a one-byte read, *)
(* which is what the model has.  Mounts name an endpoint other than 0.     *)
(***************************************************************************)
EXTENDS Integers, Sequences, FiniteSets

CONSTANTS MAX_MOUNTS, MAX_VFS_FILES,
          Paths,            \* paths that clients mount and open
          Clients,          \* process ids
          PosBits,          \* width of a file offset
          FakeSize          \* the size vfs_handle_lseek assumes

VARIABLES mounts,           \* slot -> path, or NoMount
          num_mounts,
          vfs_files,        \* the open file table
          num_open_files,
          granted           \* reckoning: what each opener believes of its file

vfsVars == <<mounts, num_mounts, vfs_files, num_open_files, granted>>

MountSlots == 0 .. MAX_MOUNTS - 1
FileSlots == 0 .. MAX_VFS_FILES - 1
NoMount == "none"
Closed == [owner |-> "none", mount |-> 0, offset |-> 0, writable |-> FALSE, refcount |-> 0]
Nothing == [pid |-> "none", pos |-> 0]

Position(n) == n % 2^PosBits
Lowest(S) == CHOOSE i \in S : \A j \in S : i <= j

VfsInit ==
    /\ mounts = [s \in MountSlots |-> NoMount]
    /\ num_mounts = 0
    /\ vfs_files = [f \in FileSlots |-> Closed]
    /\ num_open_files = 0
    /\ granted = [f \in FileSlots |-> Nothing]

\* A mount path covers itself and the paths below it; the string "/" is
\* followed by neither "/" nor the end in any longer path, so a mount at the
\* root covers the root only.
covers(mount, path) ==
    \/ mount = path
    \/ mount # <<>> /\ Len(mount) < Len(path) /\ mount = SubSeq(path, 1, Len(mount))

\* The slot of the longest mount path that covers path, or -1.
find_mount(path) ==
    LET found == {s \in MountSlots : mounts[s] # NoMount /\ covers(mounts[s], path)}
    IN  IF found = {} THEN -1
        ELSE CHOOSE s \in found : \A t \in found :
                Len(mounts[t]) < Len(mounts[s]) \/ (Len(mounts[t]) = Len(mounts[s]) /\ s <= t)

alloc_file ==
    LET free == {f \in FileSlots : vfs_files[f].refcount = 0}
    IN  IF free = {} THEN -1 ELSE Lowest(free)

vfs_handle_mount(target) ==
    LET free == {s \in MountSlots : mounts[s] = NoMount}
    IN  /\ num_mounts < MAX_MOUNTS
        /\ free # {}
        /\ find_mount(target) < 0
        /\ mounts' = [mounts EXCEPT ![Lowest(free)] = target]
        /\ num_mounts' = num_mounts + 1
        /\ UNCHANGED <<vfs_files, num_open_files, granted>>

vfs_handle_open(pid, path, writable) ==
    LET m  == find_mount(path)
        fd == alloc_file
    IN  /\ m >= 0
        /\ fd >= 0
        /\ vfs_files' = [vfs_files EXCEPT ![fd] = [owner |-> pid, mount |-> m, offset |-> 0,
                                                   writable |-> writable, refcount |-> 1]]
        /\ num_open_files' = num_open_files + 1
        /\ granted' = [granted EXCEPT ![fd] = [pid |-> pid, pos |-> 0]]
        /\ UNCHANGED <<mounts, num_mounts>>


\* The checks every handler makes of a descriptor.
owned(pid, fd) == vfs_files[fd].refcount # 0 /\ vfs_files[fd].owner = pid

vfs_handle_close(pid, fd) ==
    LET left == vfs_files[fd].refcount - 1
    IN  /\ owned(pid, fd)
        /\ vfs_files' = [vfs_files EXCEPT ![fd] = IF left = 0 THEN Closed
                                                  ELSE [@ EXCEPT !.refcount = left]]
        /\ num_open_files' = IF left = 0 THEN num_open_files - 1 ELSE num_open_files
        /\ granted' = IF granted[fd].pid = pid THEN [granted EXCEPT ![fd] = Nothing] ELSE granted
        /\ UNCHANGED <<mounts, num_mounts>>

\* The file moves to pos; its opener follows when it made the call.
Moved(pid, fd, pos) ==
    /\ vfs_files' = [vfs_files EXCEPT ![fd].offset = pos]
    /\ granted' = IF granted[fd].pid = pid THEN [granted EXCEPT ![fd].pos = pos] ELSE granted
    /\ UNCHANGED <<mounts, num_mounts, num_open_files>>

vfs_handle_read(pid, fd, count) ==
    /\ owned(pid, fd)
    /\ Moved(pid, fd, Position(vfs_files[fd].offset + (IF count > 0 THEN 1 ELSE 0)))

vfs_handle_write(pid, fd, count) ==
    /\ owned(pid, fd)
    /\ vfs_files[fd].writable
    /\ Moved(pid, fd, Position(vfs_files[fd].offset + count))

vfs_handle_lseek(pid, fd, offset, whence) ==
    LET from == CASE whence = "SEEK_SET" -> 0
                  [] whence = "SEEK_CUR" -> vfs_files[fd].offset
                  [] whence = "SEEK_END" -> FakeSize
    IN  /\ owned(pid, fd)
        /\ Moved(pid, fd, Position(from + offset))

VfsNext ==
    \/ \E t \in Paths : vfs_handle_mount(t)
    \/ \E p \in Clients, t \in Paths, w \in BOOLEAN : vfs_handle_open(p, t, w)
    \/ \E p \in Clients, f \in FileSlots :
          \/ vfs_handle_close(p, f)
          \/ \E c \in 0 .. 2 : vfs_handle_read(p, f, c) \/ vfs_handle_write(p, f, c)
          \/ \E o \in -1 .. 1, w \in {"SEEK_SET", "SEEK_CUR", "SEEK_END"} : vfs_handle_lseek(p, f, o, w)

\* The VFS tables stay exact whatever the clients ask for: a mounted path
\* keeps resolving to its own mount however mounts are nested and in
\* whatever order they were made (find_mount, vfs_handle_mount); a file stays
\* open for the client it was opened for, at the position that client's own
\* calls left it, until that client closes it, whatever other clients try on
\* the same descriptor (vfs_handle_close, vfs_handle_read, vfs_handle_write,
\* vfs_handle_lseek); num_mounts and num_open_files count the slots in use.
VfsExact ==
    /\ \A s \in MountSlots : mounts[s] # NoMount => find_mount(mounts[s]) = s
    /\ num_mounts = Cardinality({s \in MountSlots : mounts[s] # NoMount})
    /\ num_open_files = Cardinality({f \in FileSlots : vfs_files[f].refcount > 0})
    /\ \A f \in FileSlots :
          /\ granted[f] = [pid |-> vfs_files[f].owner, pos |-> vfs_files[f].offset]
          /\ vfs_files[f].refcount > 0 => mounts[vfs_files[f].mount] # NoMount
=============================================================================
