--------------------------- MODULE LfsFilesystem -----------------------------
(***************************************************************************)
(* mlua.fs.lfs (lib/common/mlua.fs.lfs.c): a filesystem object over the    *)
(* littlefs library, its files and its directory iterators.  littlefs is   *)
(* external: what is on the device, the block count that it mounts, its    *)
(* list of open files (lfs_t.mlist), whose files it takes to be current.   *)
(* A file's content is the number of times that it was written.            *)
(***************************************************************************)
EXTENDS Integers, FiniteSets

CONSTANTS
    Paths,     \* the paths of files
    Handles,   \* the userdata of files and directory iterators
    BlockSize, DevSize,
    MaxWrites, \* bound on the writes to a file
    MaxMounts  \* bound on the mounts

NoFile == -1
Sizes == 0..(DevSize + 1)

VARIABLES
    disk,      \* the device: the block count of its superblock (0: none) and its files
    mounted,   \* Filesystem.mounted
    config,    \* Filesystem.config.block_count
    blocks,    \* lfs_t.block_count
    mlist,     \* lfs_t.mlist
    handle,    \* the handles: state "none", "file" or "dir", path, content, open
    mount_id,  \* the number of mounts
    opened_in  \* the mount in which each handle was opened

vars == <<disk, mounted, config, blocks, mlist, handle, mount_id, opened_in>>

NoHandle == [kind |-> "none", path |-> CHOOSE p \in Paths : TRUE, content |-> 0,
             dirty |-> FALSE, open |-> FALSE]

Init ==
    /\ disk = [count |-> 0, files |-> [p \in Paths |-> NoFile]]
    /\ mounted = FALSE /\ config = 0 /\ blocks = 0 /\ mlist = {}
    /\ handle = [h \in Handles |-> NoHandle]
    /\ mount_id = 0 /\ opened_in = [h \in Handles |-> 0]

-----------------------------------------------------------------------------
(* The functions of littlefs that the code calls. *)

\* Formatting may fail, when the device does, and leave no filesystem.
lfs_format(count) ==
    \E c \in {0, count} : disk' = [count |-> c, files |-> [p \in Paths |-> NoFile]]

\* A block count in the configuration must be that of the superblock.
lfs_mount_ok == disk.count # 0 /\ config \in {0, disk.count}
lfs_mount == blocks' = disk.count /\ mlist' = {}

\* A file's changes are on the device once it is synchronised, or closed.
Synced(h) == IF handle[h].dirty THEN [disk EXCEPT !.files[handle[h].path] = handle[h].content]
             ELSE disk

-----------------------------------------------------------------------------
(* Filesystem. *)

\* The whole blocks of a size, for which the device must have room.
check_blocks(size) == IF size <= DevSize THEN size \div BlockSize ELSE 0

\* mod_new() and init_filesystem(): a new object, after a reset at any time.
mod_new ==
    /\ mount_id < MaxMounts
    /\ config' = 0 /\ mounted' = FALSE /\ blocks' = 0 /\ mlist' = {}
    /\ handle' = [h \in Handles |-> NoHandle]
    /\ UNCHANGED <<disk, mount_id, opened_in>>

\* The calls below return an error when the filesystem is, or is not, mounted.
Filesystem_format(size) ==
    /\ ~mounted /\ check_blocks(size) > 0
    /\ config' = check_blocks(size) /\ lfs_format(check_blocks(size))
    /\ UNCHANGED <<mounted, blocks, mlist, handle, mount_id, opened_in>>

Filesystem_mount ==
    /\ mount_id < MaxMounts /\ ~mounted /\ lfs_mount_ok
    /\ lfs_mount /\ mounted' = TRUE /\ mount_id' = mount_id + 1
    /\ UNCHANGED <<disk, config, handle, opened_in>>

\* Also __close().  The files that are open stay as they are.
Filesystem_unmount ==
    /\ mounted' = FALSE
    /\ UNCHANGED <<disk, config, blocks, mlist, handle, mount_id, opened_in>>

\* lfs_fs_grow() sets the superblock and lfs_t, not the configuration.
Filesystem_grow(size) ==
    /\ mounted /\ check_blocks(size) >= disk.count
    /\ disk' = [disk EXCEPT !.count = check_blocks(size)] /\ blocks' = check_blocks(size)
    /\ UNCHANGED <<mounted, config, mlist, handle, mount_id, opened_in>>

\* open(): the flags say whether the file is created, and truncated.  The handle
\* keeps the filesystem as a user value.
Filesystem_open(h, p, creat, trunc) ==
    LET new == disk.files[p] = NoFile
    IN /\ mounted /\ handle[h].kind = "none" /\ (new => creat)
       /\ handle' = [handle EXCEPT ![h] =
             [kind |-> "file", path |-> p, open |-> TRUE, dirty |-> trunc \/ new,
              content |-> IF new \/ trunc THEN 0 ELSE disk.files[p]]]
       /\ mlist' = mlist \cup {h} /\ opened_in' = [opened_in EXCEPT ![h] = mount_id]
       /\ UNCHANGED <<disk, mounted, config, blocks, mount_id>>

\* list(): the iterator is also the closing value of the loop.
Filesystem_list(h) ==
    /\ mounted /\ handle[h].kind = "none"
    /\ handle' = [handle EXCEPT ![h] = [NoHandle EXCEPT !.kind = "dir", !.open = TRUE]]
    /\ mlist' = mlist \cup {h} /\ opened_in' = [opened_in EXCEPT ![h] = mount_id]
    /\ UNCHANGED <<disk, mounted, config, blocks, mount_id>>

InUse(p) == \E h \in Handles : handle[h].open /\ handle[h].path = p

\* remove() of a file, and rename() onto another one, that is not open.
Filesystem_remove(p) ==
    /\ mounted /\ ~InUse(p)
    /\ disk' = [disk EXCEPT !.files[p] = NoFile]
    /\ UNCHANGED <<mounted, config, blocks, mlist, handle, mount_id, opened_in>>
Filesystem_rename(p, q) ==
    /\ mounted /\ p # q /\ ~InUse(p) /\ ~InUse(q) /\ disk.files[p] # NoFile
    /\ disk' = [disk EXCEPT !.files[q] = disk.files[p], !.files[p] = NoFile]
    /\ UNCHANGED <<mounted, config, blocks, mlist, handle, mount_id, opened_in>>

\* statvfs(), size(), gc(), traverse(), mkconsistent(); stat() and the operations
\* on attributes and directories.  Nothing of the above changes.
Filesystem_info == mounted /\ UNCHANGED vars
Filesystem_metadata == mounted /\ UNCHANGED vars

-----------------------------------------------------------------------------
(* File and Dir. *)

\* A mutant: the handle is not marked as closed.
M_Closed(h) == handle[h]
Closed(h) == [handle[h] EXCEPT !.open = FALSE, !.dirty = FALSE]

\* close(), __close() and __gc(), of a file and of an iterator: the handle is
\* marked before littlefs writes the file's changes, and nothing is left to do
\* when it is closed again.
File_close(h) ==
    /\ handle[h].open
    /\ handle' = [handle EXCEPT ![h] = Closed(h)]
    /\ disk' = Synced(h) /\ mlist' = mlist \ {h}
    /\ UNCHANGED <<mounted, config, blocks, mount_id, opened_in>>

Collected(h) ==
    /\ handle[h].kind # "none" /\ ~handle[h].open
    /\ handle' = [handle EXCEPT ![h] = NoHandle]
    /\ UNCHANGED <<disk, mounted, config, blocks, mlist, mount_id, opened_in>>

\* check_File() and check_Dir() raise an error on a closed handle.
Usable(h, kind) == handle[h].kind = kind /\ handle[h].open

File_sync(h) ==
    /\ Usable(h, "file") /\ disk' = Synced(h)
    /\ handle' = [handle EXCEPT ![h].dirty = FALSE]
    /\ UNCHANGED <<mounted, config, blocks, mlist, mount_id, opened_in>>

\* write(), and truncate().
File_write(h) ==
    /\ Usable(h, "file") /\ handle[h].content < MaxWrites
    /\ handle' = [handle EXCEPT ![h].content = @ + 1, ![h].dirty = TRUE]
    /\ UNCHANGED <<disk, mounted, config, blocks, mlist, mount_id, opened_in>>

File_read(h) == Usable(h, "file") /\ UNCHANGED vars
File_position(h) == Usable(h, "file") /\ UNCHANGED vars  \* seek(), tell(), rewind(), size()
Dir_next(h) == Usable(h, "dir") /\ UNCHANGED vars

Next ==
    \/ Filesystem_info \/ Filesystem_metadata
    \/ mod_new \/ Filesystem_mount \/ Filesystem_unmount
    \/ \E size \in Sizes : Filesystem_format(size) \/ Filesystem_grow(size)
    \/ \E p, q \in Paths : Filesystem_remove(p) \/ Filesystem_rename(p, q)
    \/ \E h \in Handles :
          \/ \E p \in Paths, creat, trunc \in BOOLEAN : Filesystem_open(h, p, creat, trunc)
          \/ Filesystem_list(h) \/ File_close(h) \/ Collected(h)
          \/ File_sync(h) \/ File_write(h)
          \/ File_read(h) \/ File_position(h) \/ Dir_next(h)

Spec == Init /\ [][Next]_vars

-----------------------------------------------------------------------------
(* Properties. *)

\* A handle that has outlived the mount it was opened in.  The code does not
\* tell it from another: its calls reach littlefs, which may not know the file.
Stale(h) == opened_in[h] # mount_id \/ ~mounted

\* A handle is closed in littlefs exactly once, and while its filesystem stays
\* mounted just the handles that are not closed are in its list: a use, or a
\* collection, reaches littlefs with a file that it does not know only if the
\* handle is stale.
ListedWhileOpen ==
    mounted => \A h \in Handles : ~Stale(h) => (h \in mlist <=> handle[h].open)

\* littlefs asks for nothing beyond the end of the device, after any sequence of
\* formatting, failed or not, mounting and growing, and a filesystem that a new
\* object does not mount is one that was never completely formatted.
StaysInDevice ==
    /\ mounted => blocks = disk.count
    /\ \A count \in {blocks, disk.count, config} : count * BlockSize <= DevSize
=============================================================================
