------------------------------- MODULE Files -------------------------------
(***************************************************************************)
(* The file descriptors of a process and the file system calls the kernel  *)
(* serves itself: read-only boot modules by name, the serial console as    *)
(* descriptors 0, 1 and 2 (files.c, sys_open .. sys_lseek, sys_read,       *)
(* sys_write and sys_debug_print of dispatch.c).  A process has one thread *)
(* and nothing in these calls sleeps, so a call is one step; a copy to or  *)
(* from user memory fails at the first byte that is not mapped.            *)
(***************************************************************************)
EXTENDS Integers, Sequences

CONSTANTS
    Tasks,             \* the processes; the first is started at boot
    FirstTask,
    MAX_OPEN_FILES,    \* PROCESS_MAX_OPEN_FILES
    BootModules,       \* the cached modules in order: name and size
    Queries,           \* the names programs open
    OffsetBits,        \* the width of an i64
    Offsets,           \* the offsets programs seek to
    Counts,            \* the lengths programs pass
    TriedFds,          \* the descriptors programs pass
    ChunkSize,         \* sizeof(chunk): 128 in the code
    MaxInput           \* bound: characters waiting on the serial line

VARIABLES
    files,      \* task -> NULL or its table of entries
    input,      \* the characters waiting on the serial line
    outcome,    \* what the last call returned, and what it moved
    reckoned    \* history: task -> descriptor -> what its caller can know

fileVars == <<files, input, outcome, reckoned>>

FD_FIRST_USER == 3
Fds == FD_FIRST_USER .. MAX_OPEN_FILES - 1
NoFile == [kind |-> "NONE"]
NoTable == <<>>
EmptyTable == [fd \in Fds |-> NoFile]

ASSUME FilesConstants ==
    /\ FirstTask \in Tasks
    /\ MAX_OPEN_FILES \in Nat /\ MAX_OPEN_FILES > FD_FIRST_USER
    /\ Len(BootModules) \in Nat /\ DOMAIN BootModules = 1 .. Len(BootModules)
    /\ \A m \in DOMAIN BootModules : BootModules[m].size \in Nat
    /\ Offsets \subseteq Int /\ Counts \subseteq Nat
    /\ ChunkSize \in Nat \ {0}
    /\ 2 ^ (OffsetBits - 1) \in Nat /\ 2 ^ OffsetBits \in Nat \ {0}

EFAULT == -14
EBADF == -9
ENOENT == -2
EMFILE == -24
EROFS == -30
EINVAL == -22

Smallest(S) == CHOOSE x \in S : \A y \in S : x <= y

(* The outcome of a call: its result and the data it really moved. *)
Did(result, moved) == outcome' = [result |-> result, moved |-> moved]

FilesInit ==
    /\ files = [p \in Tasks |-> IF p = FirstTask THEN EmptyTable ELSE NoTable]
    /\ input = <<>>
    /\ outcome = [result |-> 0, moved |-> <<>>]
    /\ reckoned = [p \in Tasks |-> <<>>]

(***************************************************************************)
(* Boot modules by name.  A name is a directory, a stem and whether it     *)
(* ends in .elf.                                                           *)
(***************************************************************************)
path_basename(n) == [n EXCEPT !.dir = ""]

module_name_matches(module, query) ==
    \/ module = query
    \/ query.stem # "" /\ ~ query.elf /\ module = [query EXCEPT !.elf = TRUE]

boot_module_matches(module, name) ==
    \/ module = name
    \/ path_basename(module) = name
    \/ module = path_basename(name)
    \/ module_name_matches(path_basename(module), path_basename(name))

find_boot_module(name) ==
    LET found == {i \in DOMAIN BootModules :
                    boot_module_matches(BootModules[i].name, name)} IN
    IF found = {} THEN 0 ELSE Smallest(found)

SizeOf(m) == BootModules[m].size

---------------------------------------------------------------------------
get_open_process_file(p, fd) ==
    IF fd \notin Fds THEN NoFile ELSE files[p][fd]

(* The flags other than O_RDONLY are refused; a path may be unreadable. *)
sys_open(p, name, writing, readable) ==
    LET m == find_boot_module(name)
        free == {fd \in Fds : files[p][fd] = NoFile}
        fd == Smallest(free)
        opens == ~ writing /\ readable /\ m # 0 /\ free # {} IN
    /\ Did(CASE writing -> EROFS
             [] ~ writing /\ ~ readable -> EFAULT
             [] ~ writing /\ readable /\ m = 0 -> ENOENT
             [] ~ writing /\ readable /\ m # 0 /\ free = {} -> EMFILE
             [] OTHER -> fd, <<>>)
    /\ files' = IF opens
                THEN [files EXCEPT ![p][fd] = [kind |-> "BOOT_MODULE",
                                               module |-> m, offset |-> 0]]
                ELSE files
    /\ reckoned' = IF outcome'.result < 0 THEN reckoned
                   ELSE [reckoned EXCEPT ![p] =
                            [f \in DOMAIN @ \union {outcome'.result} |->
                                IF f = outcome'.result THEN [module |-> m, at |-> 0]
                                ELSE @[f]]]
    /\ UNCHANGED input

sys_close(p, fd) ==
    LET known == get_open_process_file(p, fd) # NoFile IN
    /\ Did(IF fd \in 0 .. 2 \/ known THEN 0 ELSE EBADF, <<>>)
    /\ files' = IF known THEN [files EXCEPT ![p][fd] = NoFile] ELSE files
    /\ reckoned' = IF outcome'.result = 0
                   THEN [reckoned EXCEPT ![p] = [f \in DOMAIN @ \ {fd} |-> @[f]]]
                   ELSE reckoned
    /\ UNCHANGED input

(* The bytes of module m from position at; a byte is named by its place. *)
Bytes(m, at, n) == [i \in 1 .. n |-> <<m, at + i>>]

(***************************************************************************)
(* sys_read of a module: the offset moves only after the copy, and by the  *)
(* number of bytes there were.                                             *)
(***************************************************************************)
sys_read(p, fd, count, writable) ==
    LET file == get_open_process_file(p, fd)
        left == SizeOf(file.module) - file.offset
        available == IF count < left THEN count ELSE left IN
    /\ count > 0
    /\ IF file = NoFile
       THEN Did(EBADF, <<>>) /\ UNCHANGED <<files, reckoned>>
       ELSE IF available > 0 /\ ~ writable
       THEN Did(EFAULT, <<>>) /\ UNCHANGED <<files, reckoned>>
       ELSE /\ Did(available, Bytes(file.module, file.offset, available))
            /\ files' = [files EXCEPT ![p][fd].offset = @ + available]
            /\ reckoned' = [reckoned EXCEPT ![p][fd].at = @ + available]
    /\ UNCHANGED input

(* i64 addition, as the compiled code wraps it. *)
Wrap(x) == ((x + 2 ^ (OffsetBits - 1)) % 2 ^ OffsetBits) - 2 ^ (OffsetBits - 1)

sys_lseek(p, fd, offset, whence) ==
    LET file == get_open_process_file(p, fd)
        base == CASE whence = "SEEK_SET" -> 0
                  [] whence = "SEEK_CUR" -> file.offset
                  [] whence = "SEEK_END" -> SizeOf(file.module)
        new_offset == Wrap(base + offset) IN
    /\ IF file = NoFile
       THEN Did(EBADF, <<>>) /\ UNCHANGED <<files, reckoned>>
       ELSE IF whence = "other" \/ new_offset < 0 \/ new_offset > SizeOf(file.module)
       THEN Did(EINVAL, <<>>) /\ UNCHANGED <<files, reckoned>>
       ELSE /\ Did(new_offset, <<>>)
            /\ files' = [files EXCEPT ![p][fd].offset = new_offset]
            /\ reckoned' = [reckoned EXCEPT ![p][fd].at = new_offset]
    /\ UNCHANGED input

---------------------------------------------------------------------------
(***************************************************************************)
(* The console.  sys_write and sys_debug_print copy a chunk at a time: the *)
(* first good bytes of the buffer can be read, and a chunk that reaches    *)
(* past them is not printed at all.                                        *)
(***************************************************************************)
printed(count, good) ==
    IF count <= good THEN count ELSE (good \div ChunkSize) * ChunkSize

sys_write(fd, count, good) ==
    LET total == printed(count, good) IN
    /\ Did(IF fd \notin {1, 2} THEN EBADF
           ELSE IF count > 0 /\ total = 0 THEN EFAULT ELSE total,
           IF fd \notin {1, 2} THEN <<>> ELSE [i \in 1 .. total |-> i])
    /\ UNCHANGED <<files, input, reckoned>>

(***************************************************************************)
(* sys_read of descriptor 0 takes characters until a line ends, count are  *)
(* read or the buffer's good bytes are used up; it waits for each one with *)
(* the CPU to itself.  A carriage return becomes a newline; the character  *)
(* the copy fails on is gone.                                              *)
(***************************************************************************)
EndsLine(c) == c \in {"nl", "cr"}

sys_read_stdin(count, good) ==
    LET ends == {i \in DOMAIN input : EndsLine(input[i])} \union {count, good + 1}
        taken == Smallest(ends)
        got == IF taken > good THEN good ELSE taken IN
    /\ count > 0
    /\ taken <= Len(input)
    /\ input' = SubSeq(input, taken + 1, Len(input))
    /\ Did(IF got = 0 THEN EFAULT ELSE got,
           [i \in 1 .. got |-> IF EndsLine(input[i]) THEN "nl" ELSE input[i]])
    /\ UNCHANGED <<files, reckoned>>

type(c) ==
    /\ Len(input) < MaxInput
    /\ input' = Append(input, c)
    /\ outcome' = [result |-> 0, moved |-> <<>>]
    /\ UNCHANGED <<files, reckoned>>

---------------------------------------------------------------------------
(* Variant of process_files_clone: the child keeps its fresh table. *)
process_files_fresh(p, child) ==
    /\ files[child] = NoTable
    /\ files' = [files EXCEPT ![child] = EmptyTable]
    /\ reckoned' = [reckoned EXCEPT ![child] = reckoned[p]]
    /\ Did(0, <<>>)
    /\ UNCHANGED input

(* process_fork: the child's fresh table is replaced by a copy. *)
process_files_clone(p, child) ==
    /\ files[child] = NoTable
    /\ files' = [files EXCEPT ![child] = files[p]]
    /\ reckoned' = [reckoned EXCEPT ![child] = reckoned[p]]
    /\ Did(0, <<>>)
    /\ UNCHANGED input

(* process_exit. *)
process_files_destroy(p) ==
    /\ p # FirstTask
    /\ files' = [files EXCEPT ![p] = NoTable]
    /\ reckoned' = [reckoned EXCEPT ![p] = <<>>]
    /\ Did(0, <<>>)
    /\ UNCHANGED input

FilesNext ==
    \E p \in {t \in Tasks : files[t] # NoTable} :
       \/ \E q \in Queries, w, r \in BOOLEAN : sys_open(p, q, w, r)
       \/ \E fd \in TriedFds : sys_close(p, fd)
       \/ \E fd \in TriedFds \ {0}, n \in Counts, w \in BOOLEAN :
             sys_read(p, fd, n, w)
       \/ \E fd \in TriedFds, o \in Offsets,
             w \in {"SEEK_SET", "SEEK_CUR", "SEEK_END", "other"} :
             sys_lseek(p, fd, o, w)
       \/ \E child \in Tasks : process_files_clone(p, child)
       \/ process_files_destroy(p)

(* The console and the tables share nothing, so a model takes them apart.  *)
ConsoleNext ==
    \/ \E c \in {"a", "nl", "cr"} : type(c)
    \/ \E n \in Counts, good \in Counts : sys_read_stdin(n, good)
    \/ \E fd \in TriedFds, n \in Counts, good \in Counts :
          sys_write(fd, n, good)

FilesSpec == FilesInit /\ [][FilesNext \/ ConsoleNext]_fileVars

---------------------------------------------------------------------------
(***************************************************************************)
(* A caller that only sees results always knows the state of its           *)
(* descriptors: which are open, on which module and at which position.     *)
(* Positions never leave the module, whatever is read, sought (offsets     *)
(* that overflow included), refused or faulted, and a child's descriptors  *)
(* start as its parent's and move on their own.  A call that reports n     *)
(* moved exactly n bytes and a call that fails moved none                  *)
(* (sys_open .. sys_lseek, sys_read, sys_write, process_files_clone).      *)
(***************************************************************************)
FilesExact ==
    /\ \A p \in Tasks :
          LET open == {fd \in DOMAIN files[p] : files[p][fd] # NoFile} IN
          /\ open = DOMAIN reckoned[p]
          /\ \A fd \in open :
                /\ files[p][fd].module = reckoned[p][fd].module
                /\ files[p][fd].offset = reckoned[p][fd].at
                /\ files[p][fd].offset \in 0 .. SizeOf(files[p][fd].module)
    /\ outcome.result < 0 => outcome.moved = <<>>
    /\ outcome.moved # <<>> => outcome.result = Len(outcome.moved)
=============================================================================
