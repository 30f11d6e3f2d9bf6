------------------------------- MODULE Ramfs -------------------------------
(***************************************************************************)
(* The RAM file system of fs/ramfs/main.c: an inode table, directories     *)
(* kept as arrays of entries inside their inodes, and the FS_ handlers.    *)
(* The handlers carry the prefix ramfs_ here.  Inode numbers handed to one *)
(* are those of inodes in use: the handlers index the table without a      *)
(* check, and handle_mkdir below a free inode number would make the new    *)
(* directory its own parent.  Modes, owners, times and the statistics are  *)
(* left out.                                                               *)
(***************************************************************************)
EXTENDS Integers, Sequences, FiniteSets, SequencesExt

CONSTANTS MAX_INODES,       \* inodes 1 .. MAX_INODES - 1 can be used
          MAX_DATA_SIZE,    \* bytes in a file
          MAX_DIR_ENTRIES,
          MAX_NAME,         \* bytes for a name in an entry
          FileNames,        \* names clients use, of any length
          OffsetBits,       \* width of an offset, 64
          FileBytes         \* values of a written byte, none of them 0

VARIABLES inodes,           \* the inode table
          num_inodes,
          contents,         \* reckoning: the bytes each file should read back as
          wild              \* the offset of a write that left its file's data, or -1

ramfsVars == <<inodes, num_inodes, contents, wild>>

Inos == 1 .. MAX_INODES - 1
Root == 1
Zeros == [i \in 1 .. MAX_DATA_SIZE |-> 0]

\* An inode as memset leaves it; "type" alone decides whether it is in use.
Cleared == [type |-> "FREE", nlink |-> 0, size |-> 0, data |-> Zeros, entries |-> <<>>]

Entry(name, ino) == [name |-> name, inode |-> ino]
Dot == <<".">>
DotDot == <<".", ".">>

\* The strncpy of dir_add_entry: it leaves the last byte of the field alone, which
\* is 0 since init_inode.
Truncated(name) == IF Len(name) < MAX_NAME THEN name ELSE SubSeq(name, 1, MAX_NAME - 1)

alloc_inode(t) ==
    LET free == {i \in Inos : t[i].type = "FREE"}
    IN  IF free = {} THEN -1 ELSE CHOOSE i \in free : \A j \in free : i <= j

\* Variant of init_inode: the data of the inode's last file stays.
init_inode_dirty(t, ino, type) ==
    [t EXCEPT ![ino] = [Cleared EXCEPT !.type = type, !.nlink = 1, !.data = t[ino].data]]

init_inode(t, ino, type) == [t EXCEPT ![ino] = [Cleared EXCEPT !.type = type, !.nlink = 1]]

\* The inode of the first entry with that name, or -1.  The whole name counts, so
\* one that was truncated is not found.
dir_lookup(t, dir, name) ==
    LET found == {i \in DOMAIN t[dir].entries : t[dir].entries[i].name = name}
    IN  IF t[dir].type # "DIR" \/ found = {} THEN -1
        ELSE t[dir].entries[CHOOSE i \in found : \A j \in found : i <= j].inode

dir_add_entry_error(t, dir, name) ==
    IF t[dir].type # "DIR" THEN "E_INVAL"
    ELSE IF Len(t[dir].entries) >= MAX_DIR_ENTRIES THEN "E_NOMEM"
    ELSE IF dir_lookup(t, dir, name) >= 0 THEN "E_EXIST"
    ELSE "E_OK"

dir_add_entry(t, dir, name, ino) ==
    IF dir_add_entry_error(t, dir, name) # "E_OK" THEN t
    ELSE [t EXCEPT ![dir].entries = Append(@, Entry(Truncated(name), ino))]

\* The entries behind the removed one are shifted down by one.
dir_remove_entry(t, dir, name) ==
    LET es == t[dir].entries
        i  == SelectInSeq(es, LAMBDA e : e.name = name)
    IN  IF t[dir].type # "DIR" \/ i = 0 THEN t
        ELSE [t EXCEPT ![dir].entries = RemoveAt(es, i)]

ramfs_init ==
    LET made == [init_inode([i \in Inos |-> Cleared], Root, "DIR") EXCEPT ![Root].nlink = 2]
    IN  dir_add_entry(dir_add_entry(made, Root, Dot, Root), Root, DotDot, Root)

RamfsInit ==
    /\ inodes = ramfs_init
    /\ num_inodes = 1
    /\ contents = [i \in Inos |-> <<>>]
    /\ wild = -1

InUse == {i \in Inos : inodes[i].type # "FREE"}

\* The inode is taken and cleared before the name is tried, and given back
\* when the name cannot be added.
ramfs_handle_create(dir, name) ==
    LET ino  == alloc_inode(inodes)
        made == init_inode(inodes, ino, "FILE")
    IN  /\ ino >= 0
        /\ IF dir_add_entry_error(made, dir, name) = "E_OK"
           THEN /\ inodes' = dir_add_entry(made, dir, name, ino)
                /\ num_inodes' = num_inodes + 1
           ELSE /\ inodes' = [made EXCEPT ![ino].type = "FREE"]
                /\ num_inodes' = num_inodes + 1 - 1
        /\ UNCHANGED <<contents, wild>>

\* The new directory as it is before its name is entered in the parent.
new_directory(ino, parent) ==
    LET made == [init_inode(inodes, ino, "DIR") EXCEPT ![ino].nlink = 2]
    IN  dir_add_entry(dir_add_entry(made, ino, Dot, ino), ino, DotDot, parent)

ramfs_handle_mkdir(parent, name) ==
    LET ino  == alloc_inode(inodes)
        made == new_directory(ino, parent)
    IN  /\ ino >= 0
        /\ IF dir_add_entry_error(made, parent, name) = "E_OK"
           THEN /\ inodes' = [dir_add_entry(made, parent, name, ino)
                                EXCEPT ![parent].nlink = @ + 1]
                /\ num_inodes' = num_inodes + 1
           ELSE /\ inodes' = [made EXCEPT ![ino].type = "FREE"]
                /\ num_inodes' = num_inodes + 1 - 1
        /\ UNCHANGED <<contents, wild>>

\* The bytes FS_READ returns; like FS_LOOKUP it changes statistics only.
ramfs_handle_read(ino, offset, count) ==
    IF offset >= inodes[ino].size THEN <<>>
    ELSE LET avail == inodes[ino].size - offset
             n     == IF count < avail THEN count ELSE avail
         IN  SubSeq(inodes[ino].data, offset + 1, offset + n)

\* Bytes old overlaid with count copies of byte at offset, holes filled
\* with zeros, cut at the largest size of a file.
Overlay(old, offset, count, byte) ==
    LET end == offset + count
        len == IF Len(old) > end THEN Len(old) ELSE end
    IN  [i \in 1 .. (IF len > MAX_DATA_SIZE THEN MAX_DATA_SIZE ELSE len) |->
            IF i \in offset + 1 .. end THEN byte
            ELSE IF i \in DOMAIN old THEN old[i] ELSE 0]

Wrap(n) == n % 2^OffsetBits

\* How many bytes handle_write copies: sum and difference are unsigned.
write_count(offset, count) ==
    IF Wrap(offset + count) > MAX_DATA_SIZE THEN Wrap(MAX_DATA_SIZE - offset) ELSE count

\* A copy that leaves the data of the file writes to other inodes or faults: the
\* server's state means nothing from then on.
ramfs_handle_write(ino, offset, count, byte) ==
    LET end == offset + write_count(offset, count)
    IN  /\ inodes[ino].type = "FILE"
        /\ \/ /\ end > MAX_DATA_SIZE
              /\ wild' = offset
              /\ UNCHANGED <<inodes, contents>>
           \/ /\ end <= MAX_DATA_SIZE
              /\ inodes' = [inodes EXCEPT
                              ![ino].data = [i \in 1 .. MAX_DATA_SIZE |->
                                               IF i \in offset + 1 .. end THEN byte ELSE @[i]],
                              ![ino].size = IF end > @ THEN end ELSE @]
              /\ contents' = [contents EXCEPT ![ino] = Overlay(@, offset, count, byte)]
              /\ UNCHANGED wild
        /\ UNCHANGED num_inodes

\* A lookup changes only a statistic; what it returns is what unlink acts on.
ramfs_handle_unlink(dir, name) ==
    LET ino  == dir_lookup(inodes, dir, name)
        left == [inodes EXCEPT ![ino].nlink = @ - 1]
        gone == left[ino].nlink = 0
    IN  /\ ino >= 0
        /\ inodes[ino].type # "DIR"
        /\ inodes' = dir_remove_entry(IF gone THEN [left EXCEPT ![ino].type = "FREE"] ELSE left,
                                      dir, name)
        /\ num_inodes' = IF gone THEN num_inodes - 1 ELSE num_inodes
        /\ contents' = IF gone THEN [contents EXCEPT ![ino] = <<>>] ELSE contents
        /\ UNCHANGED wild

\* Every offset a client may give, and the lengths of its buffers.
Offsets == 0 .. 2^OffsetBits - 1
Counts == 0 .. MAX_DATA_SIZE + 1

RamfsNext ==
    /\ wild = -1
    /\ \/ \E d \in InUse, n \in FileNames : ramfs_handle_create(d, n)
       \/ \E d \in InUse, n \in FileNames : ramfs_handle_mkdir(d, n)
       \/ \E f \in InUse, o \in Offsets, c \in Counts, b \in FileBytes :
            ramfs_handle_write(f, o, c, b)
       \/ \E d \in InUse, n \in FileNames \union {Dot, DotDot} : ramfs_handle_unlink(d, n)

Directories == {i \in InUse : inodes[i].type = "DIR"}

\* The entries that name inode i, other than "." and "..".
NamesOf(i) ==
    {<<d, k>> \in Directories \X (1 .. MAX_DIR_ENTRIES) :
        /\ k <= Len(inodes[d].entries)
        /\ inodes[d].entries[k].inode = i
        /\ inodes[d].entries[k].name \notin {Dot, DotDot}}

\* At most count of the bytes from offset on.
Slice(bytes, offset, count) ==
    LET to == {i \in DOMAIN bytes : i > offset /\ i <= offset + count}
    IN  [i \in 1 .. Cardinality(to) |-> bytes[offset + i]]

\* After any sequence of creates, mkdirs, writes and unlinks, refused ones
\* included, the inode table and the directories describe one tree: every
\* inode in use but the root is named by exactly one entry and no entry
\* names a free inode, so nothing leaks when a name is refused and nothing
\* dangles when a file goes; ".." names the directory that holds the entry,
\* link counts are 1 for a file and 2 plus the subdirectories for a directory,
\* and num_inodes counts the inodes in use (handle_create, handle_mkdir,
\* handle_unlink, dir_add_entry, dir_remove_entry).  Names in a directory are
\* unique unless they fill the field, since longer ones are truncated after
\* they were compared.  Every read of a file, at any offset and length, gives
\* the bytes last written there, zeros in a hole, and never what a deleted
\* file held in the same inode (init_inode, handle_write, handle_read).  All
\* this holds until a write leaves the data of its file, and a write that
\* starts inside or at the end of the data, whatever its length, never does.
RamfsExact ==
  /\ wild # -1 => wild > MAX_DATA_SIZE
  /\ wild = -1 =>
    /\ num_inodes = Cardinality(InUse)
    /\ \A i \in InUse \ {Root} : Cardinality(NamesOf(i)) = 1
    /\ NamesOf(Root) = {}
    /\ \A d \in Directories :
          LET es == inodes[d].entries
          IN  /\ \A j, k \in DOMAIN es :
                    j # k /\ es[j].name = es[k].name => Len(es[j].name) = MAX_NAME - 1
              /\ \A k \in DOMAIN es : es[k].inode \in InUse
              /\ es[1] = Entry(Dot, d)
              /\ es[2].name = DotDot
              /\ d # Root => \E n \in NamesOf(d) : n[1] = es[2].inode
              /\ inodes[d].nlink =
                    2 + Cardinality({k \in 3 .. Len(es) : inodes[es[k].inode].type = "DIR"})
    /\ \A f \in InUse \ Directories :
          /\ inodes[f].nlink = 1
          /\ \A o \in Offsets, c \in Counts : ramfs_handle_read(f, o, c) = Slice(contents[f], o, c)
=============================================================================
