# Verification of the toy inode file system

This directory holds TLA+ models of the file system in `src/`, the TLC runs that check them
on small instances, and proofs that TLAPS checks for every instance.

* [The system](#the-system): components, state, interaction, what is hard
* [Modules](#modules): which models what, and how to read them
* [Runs](#runs): what each shows, bounds, fairness
* [Proofs](#proofs)
* [Findings](#findings)
* [Not modelled](#not-modelled) and [Plan](#plan)

## The system

Three kinds of process talk over TCP. A *disk server* (`step1/server.c`, `step1/disksim.c`)
keeps an array of sectors in a mapped file and serves one request at a time under a mutex. A
*file system server* (`step2/server.cc`) is its client; it keeps every other component in
memory and runs one thread per connection. A *client* (`step2/client.cc`) reads commands and
sends one request after another.

| Component | State | Operations | Correct when |
|---|---|---|---|
| Block manager `blockmgr` | cache `blocks_` (dirty, refcnt, bytes), pool `free_data_`, superblock (free list head, end, version), the disk | load, allocate, dirtify, unref_block, free_block, flush, construction (format or reopen), destruction | no block is handed out twice or lost; a referenced block stays in memory; no declared change is lost; a clean shutdown restores everything |
| Inode file `inodefile` | the inode block, `data_ids_`, `cached_data_`, `entry_ids_` | open, create, close, read, write, insert, remove, truncate, removeall | behaves as a sequence of bytes that survives close and open; its blocks are its own, freed once, none leaked |
| Directory `directory` | vector of entries, its inode file | lookup (by name, by inode), add_entry, remove_entry, list, construction, saving destruction | one live entry per name; lookups find it; saved and restored |
| User file `userfile` | vector of users, its inode file | add, remove, lookup, rename, list, saving destruction | ids are stable, names find their id |
| File system `filesystem` | table of nodes (inode -> lock count, refcnt, file, directory), one working directory and one active node per connection | path resolution, create, remove, rename, chmod, chown, change directory, acquire and release a file, format, shutdown | one node per inode; a node in use is neither deleted nor unlocked by others; readers and a writer exclude each other |
| Server `server` | one handler thread per connection, `flush_counter` | 20 requests, each with one response except flush and exit | every request that expects a response gets one |
| Client `client` | the current path | sends a request, waits for its response | |
| Remote disk `idisk` | socket, buffer, geometry | read, write, clear a section, info | a response belongs to its request |
| Disk simulator, disk server | sectors, head position | read, write, clear, info | one request at a time |
| Bytepack, network | buffers, sockets | framing and serialisation; one thread per connection | |

**Interaction.** Handlers call `WorkingDir`, which calls `Directory` and `InodeFile`, which
call `BlockManager`, which calls `RemoteDisk` and waits for its answer. Handler threads
share the node table, the nodes, the user file and the block manager. The block manager
protects itself with one semaphore. Nodes have a semaphore around their lock count, and the
node table has one around insertions and erasures but not around lookups. Blocks are handed
out as pointers into the cache and changed through them, outside the block manager's lock; a
caller declares a change with `dirtify` and gives the pointer back with `unref_block`.

**What is hard.** The free list is threaded through blocks that move between cache and disk.
The bytes of a block change without the cache knowing. Only the destructor writes the
superblock, so a crash finds an old one. Everything above the block manager relies on
reference counts and locks whose error paths are rarely taken. Disk-full conditions appear
in the middle of multi-block operations, and most callers ignore them. `PROJECT.json` lists
these hazards with their lines.

## Modules

| Module | Models |
|---|---|
| `BlockManager` | `step2/blockmgr.{h,cc}` with its callers and crashes |
| `BlockStore` | the abstract store that the block manager implements |
| `BlockBuffers` | `BlockManager` with a history variable, for the bound on buffers |
| `Directory` | `step2/directory.{h,cc}` and the calls `filesystem.cc` makes on one directory |
| `InodeData` | the bytes of one inode file, `step2/inodefile.{h,cc}` |
| `File` | the sequence of bytes that `InodeData` implements |
| `InodeBlocks` | the blocks of inode files: data blocks, trees of entry blocks, references |
| `NodeTable` | nodes, locks and working directories of `step2/filesystem.{h,cc}`, several handlers at once |
| `UserFile` | the records of users, `step2/userfile.{h,cc}`, as operators |
| `Service` | `step2/server.cc` and `step2/client.cc` over connections, with the users and restarts |
| `DiskRequest` | the requests of a disk server and what they do to a sector, as operators |
| `SectorDisk` | the abstract disk that the disk server implements |
| `DiskServer` | `step1/server.c`, `step1/disksim.c`, and their clients `step2/idisk.cc`, `step1/client_cmd.c` |
| `BlockManagerProofs`, `DirectoryProofs`, `InodeDataProofs`, `InodeBlocksProofs`, `DiskServerProofs`, `ServiceProofs`, `NodeInvariant`, `NodeProofs` | theorems about them |
| `MC...` | symmetry sets, views and instances for TLC |

Composition: `Service` takes `UserFile` by EXTENDS, `DiskServer` and `SectorDisk` take
`DiskRequest`, and the refinements instantiate `BlockStore`, `File` and `SectorDisk`.
Between the layers of the file system the models meet in an abstraction: `InodeBlocks` and
`NodeTable` see of the block manager a stack of free ids; `Directory` and `UserFile` see a
file as a sequence of records, which a full disk cuts short; `NodeTable` sees a directory as
a function from names to inodes; `Service` sees a file operation as one that succeeds or
fails.

### BlockManager

Each public operation takes `lock_` first, so it is one action. `Load`, `AllocateNew`,
`AllocateFull`, `AllocateFreed`, `Dirtify`, `UnrefBlock`, `FreeBlock`, `Flush`, `Format`,
`Reopen` and `Shutdown` are the operations (allocate_ is split by the head of the free list
and the state of the disk). `Write` is a caller that changes bytes through its pointer: it
takes no lock, and happens between any two operations. `Crash(W)` is the end of the process
at any time, also in the middle of a flush or of the destructor, hence the set `W` of blocks
that had been written; a single operation writes at most one block before it returns, which
is covered too.

* A block id is the pair of its cylinder and its section, in the order of the 64-bit ids.
  `Null` is 0, the superblock's id and the null id.
* The bytes of a block are a free mark (`FreeBlock` with `next` and `version`) or something
  a caller stored. Callers' blocks start with another magic number, hence
  `ContentAssumption`.
* `blocks` is `blocks_` without the superblock, which is pinned and dirty from the
  constructor to the destructor and is `sb`. `Size` counts it.
* `get_free_data_` takes the first unreferenced block in the order of a hash map:
  `Evictions` leaves the choice open.
* `refcnt` is a `uint32_t`: `Incr` and `Decr` wrap at `RefMax`.
* `holders`, `wrote`, `declared` are the callers' side: who holds a pointer to a block, who
  changed it, who declared it. Callers are taken to keep the discipline of `InodeFile`: one
  reference per object and block, changes declared before the block is given back, a block
  freed by its only holder. Whether `InodeFile` itself keeps it is what `PinsExact` of
  `InodeBlocks` asks (it does not after `truncate`).
* `live`, `freed`, `intact` are history: the blocks callers own, those given back in order,
  and whether the superblock on disk still describes them. A crash of a session that
  allocated or freed a block leaves a superblock that does not, and the program has no
  recovery; `Reopen` is the operator who reopens an intact disk.

Left out: the geometry check of the disk and failing transfers (their results are ignored),
`block_size`, `root_inode`, `FreeBlock.id` (never read), messages on the terminal.

### BlockStore

`store` is what callers see, `durable` what a restart would find, `pending` the blocks with
an undeclared change, `recoverable` whether a restart finds the ownership of blocks as it
is. The refinement mapping is at the end of `BlockManager`: `store` is the cached value or,
without one, the disk's.

### Directory

`entries` is the vector, `file` the records in the inode file, `isOpen` whether the object
exists. `Create`, `Remove` and `Rename` are the parts of `create_file`/`create_dir`,
`remove`/`remove_dir` and `rename` that run between locking and unlocking the node; with the
lock held they are atomic for this directory. A removed file's inode becomes available
again, so inodes are reused under other names as the free list of the block manager does.
`Destroy(n)` is the destructor that writes the entries, up to the n-th when the disk fills
up. `added` remembers which files are new since the directory was opened.

The length of a name is reduced to what the code tests: 0 for a deleted entry (`live`) and
too long (`LongNames`). `add_entry` stores the length of the name it is given, so `Record`
makes a deleted entry of the name `""` (`Empty`). The new name of `rename` is not checked:
both kinds are among its inputs, and after both the file is in no directory. A new directory
may be saved without any entry (`Destroy(0)`).

### InodeData and File

`blocks` is what the data blocks hold, in the order of `data_ids_`; `size` is the inode's.
`Write`, `Insert`, `Remove`, `RemoveAll`, `Grow` and `Shrink` (the two branches of
`truncate`), `Close` and `Open` are the operations; `read` and `readall` are the operator
`ReadAll` through which `File` looks at them. Every operation that allocates takes `room`,
the number of blocks it can get, and does what the code does when they are too few: `write`
leaves the bytes it has written beyond the size, `truncate` keeps the blocks it added,
`insert` and `remove` return with the file as it was (the blocks of their `TempData` are
lost to the disk, which is a matter of block ids). `Copied` is a loop over blocks that
copies bytes, `Packed` is `TempData::write` into zeroed blocks, `Skipped` the loop of
`remove`. `Inserted` has the error of `insert` that the findings describe.

`Close(saved)` leaves open how many ids beyond the direct ones survive when entry blocks are
missing; a file whose size needs more can no longer be opened (`Loadable`), and `File` calls
it not `usable`.

`File` says what each operation does to a sequence of bytes. Its `FInsert` promises the
bytes after the insertion only where the code keeps them, its `FTruncate` nothing about the
bytes a growing truncation adds: they are zero in new blocks and whatever was there before
in the last one.

### InodeBlocks

The same operations as in `InodeData`, now with the ids of blocks and without bytes. The
free list is a stack, which is what `BlockManager` shows of it: never used blocks lie under
the freed ones. `inode` and `children` are what inode and entry blocks hold; `file` has
`data_ids_`, `entry_ids_` and the domain of `cached_data_` of the `InodeFile` that has a
file open; `refs` is the block manager's counter. `need` is the size in blocks; an operation
on bytes is the pair of the block where it begins and the number of blocks that the file has
afterwards.

* `LoadLeaf`, `LoadNode` and `SaveLeaf`, `SaveNode` are the recursive `load_entries_` and
  `save_entries_` at their three levels; their loops are recursive functions, and the
  variables they pass by reference (`data_num`, `i`, the member vectors) are the fields of
  the record they hand on. A failing `SaveNode` frees its block and forgets the children it
  has saved, as the code does.
* `CloseWith` is `close()`, also when `open` calls it because a tree is incomplete.
* `Rebuild` is `TempData` with `move_to`, for `insert` and `remove`. When the disk fills up
  the blocks taken so far keep no owner.
* `Released` is `unref_block`: one too many does nothing to a block that is not in the cache
  and wraps the counter of one that is.
* `Delete` is what `WorkingDir::remove` and `remove_` do to the file itself.
* An operation is one action. In the code the block manager's lock is taken for each call, so
  that calls of handlers at work on other files come between the calls of `CloseWith`,
  `Extend` or `Rebuild`, and one of them may take the last block. The small disks of the
  run let an operation run out of blocks at each of its allocations, but two operations that
  run out together are not covered.
* `stored`, `lost`, `leaky`, `dangling` are history: what a closed file had, which files a
  `close` failed to save, whether an operation left blocks without owner, whether a `close`
  gave back a reference that was not its own. After the last one pointers dangle and the
  program may do anything, so the invariants claim nothing then, and the runs stop there.

Left out: two `InodeFile` objects for one file (a matter of the node table), opening a block
that is not an inode, and crashes, after which `BlockManager` says what is left.

### NodeTable

Here handlers run at the same time. A handler has a program counter, and an action is one
access to a shared node, to the table `nodes_` or to a directory, in the order of the code.

| Code | Actions |
|---|---|
| a request comes: the session opens or closes, formats, follows a path, or uses its own directory | `Login`, `Logout`, `Format`, `Follow`, `Direct` |
| `load_node_`: the lookup without the lock, the insertion under it, or the file that cannot be opened; then the step named by `then` | `Find`, `Insert`, `Unloadable` |
| `open_working_dir`, with the root loaded | `Enter` |
| `resolve_path_`: the root, a component, its permissions | `Start`, `Lookup`, `Check` |
| `TRYLOCK`, the work under the lock, `UNLOCK`, `release_node_` | `TryLock`, `Work`, `Change` (change_working_dir_), `RemoveDir`, `Unlock`, `Finish` |
| `get_full_path_`, which the server calls after `cd` | `Climb`, `Climbed` |
| `remove_` and `format`: permission or first tests, `walk_and_acquire_`, nodes given back, nodes and inodes deleted | `Permit`, `Formatting`, `Walk`, `GiveUp`, `GaveUp`, `Sweep`, `Swept`, `Formatted` |

* A node has an identity of its own: two nodes may stand for one inode, and a deleted node
  may still be pointed to by a handler or a session.
* What the code does with a deleted node, a null pointer, or a block that is no inode is
  undefined (`Undefined`). `Break` names the handler in `broken` and the behaviour ends.
* `load_node_` answers null for a file that `close` could not save (`lost` of
  `InodeBlocks`). As such a file looks like any other here, any file or directory may turn
  out to be one. `resolve_path_`, `remove_`, `walk_and_acquire_` and `get_full_path_` look
  at the answer, each in its way (`Unloadable`); `open_working_dir`, `format` and the start
  of a path do not (`Unchecked`). `get_full_path_` returns without releasing the node it is
  at, which changes no count, as only a node without references would have been deleted.
* On a full disk `create_dir` makes a directory that has neither `.` nor `..` (`dots`): its
  two entries are written together or not at all. `cd` into it succeeds; the path that the
  server asks for next steps up to inode 0, and dereferences a null pointer (`Climb` is not
  enabled, `Undefined` holds).
* `format` takes one of the root's references for its own. After a load there is none, and it
  takes that of a session: `ousted` remembers whose. With one other session in the root the
  format goes on and deletes the node; with two it is refused.
* A rename of `.` or `..`, or to a name that `add_entry` does not keep, and an entry named `.`
  in a directory without one leave directories that are no tree any more. The behaviour ends
  there (`Tangles`); what `rename` does to the directory itself is in `Directory`.
* An inode that is freed can be given to a new file at once.
* `walk_and_acquire_` visits a directory's children in the order of its slots, which `tree`
  does not keep: `Walk` takes them in any order.
* `Alone` are the requests that run while no other handler does. The code does not enforce
  it; the constant separates what requests do in sequence, after any history, from what they
  do to each other. With `Alone = {}` everything overlaps.

Left out: the bits of permissions (each test may come out either way), what chmod and chown
write into an inode, the user file in the root directory, the entries that a directory open in
memory loses when it is saved on a full disk (`SaveKeepsOldNames` of `Directory`), the file
that a refused chmod leaves in `active_file_`, and the interrupt signal while handlers are
at work. Two steps are merged: `++refcnt` with the lock that precedes it, `--refcnt` with
the unlock. The copies of entries that two nodes for one directory would have are one
(`tree`), so the model says nothing of them beyond `OneNode`.

### Service and UserFile

A connection is a pair of queues; a client may leave at any time, also in the middle of a
message or of the login (`"torn"`), or before it has sent its name. `Connect`, `Ask`,
`LoggedIn`, `Receive`, `Leave` are `main` of the client; `HandleLogin`, `LoginCut`, `Count`,
`Counted`, `Test`, `Flush`, `Recv`, `Serve`, `ServeFormat`, `ServeAddUser`, `AddUser` are
the handler's loop, with one action per message or access to shared state; `Start`, `Stop`,
`Crash` are the process, and `RemoveUser` the one operation of the interactive test driver
that no request reaches.

* `Answers(op)` is where the handler sends a response and `Waits(op)` where the client
  expects one. They differ: OP_DELALL falls through to OP_FLUSH, and a write of
  `BUFFER_SIZE` bytes or more is dropped without a response (`server.cc:89`). A handler
  whose client closes within a message is `Spinning`: `bytepack_recv` goes on for ever, and
  uses its session no more, so the model forgets it.
* `Count` and `Counted` are the read and the write of `--flush_counter;`, and `Test` is
  `if (flush_counter < 0)`, of the value written or of the value it is by then: the counter is
  not atomic, and the compiler may do either. Handlers can lose each other's updates. Below 0
  the counter stays at -1, since only its sign matters there; a flush sets it again.
* `ServeFormat` opens the working directory again for root, whoever asked and whether or not
  the format was refused (`AsRoot`). The handler keeps the `name` under which its client
  logged in, and `asked` remembers the request.
* `ServeAddUser` and `AddUser` are the two accesses of `push_back` on the shared vector. Two
  of them at once lose a record, and the vector ends where the last one wrote; if others
  have shortened it in between, the records before that place are anything (`Placed`). This,
  a crash and a save on a full disk are remembered in `excused`. `stale` marks a session
  that a format has left behind.
* `Stop` is the signal handler when no request is at work, the case whose outcome is
  defined: `exit` destroys the file system, which saves the users. `Crash` saves nothing.
  One cause of it is `bytepack_send` to a client that has gone, as SIGPIPE is not ignored.

Left out: what requests do to files, an addition and a format that overlap, the names `root`
and `""` for new users, a name at login that is longer than the 32 bytes it is unpacked into
(`server.cc:63`, undefined), and a client that goes on after the end of the server.

### DiskRequest, SectorDisk and DiskServer

A sector is a pair of halves, enough to see a write that is cut or interleaved: the bytes
that are copied first (`First`) and those that are copied or zeroed after them (`Second`).
`Recv`, `Lock`, `Post`, `Send` are the rest of the handler's loop. A client leaves between two
requests with `'E'`, without a word, or within a message (`Cut`), which leaves its handler in
`"spin"` until the server ends. `Stop` is the signal
handler, which waits for the semaphore in `disk_free`; `Kill` is any other end. The mapped
file keeps what was stored. A `RemoteDisk` first asks for the geometry, and sends no request
outside of it; the command client sends any, also with a wrong size.

`SectorDisk` serves a whole request in one step and answers each; only its `DStop` may cut
one write short. The refinement mapping (`Seen`, `Calls`) takes a request as carried out at
its first half: from then on `Seen` shows the whole sector, although the second half is yet
to come, and a read's response counts with the half that it will read.

Left out: the head's movement, which is only time, and the geometry's numbers.

## Runs

| Run | Checks | Instance | States |
|---|---|---|---|
| `blocks` | `TypeOK`, `RefcntExact`, `CleanMatchesDisk`, `FreeListSound`, `RestartSound`, `BufferBound`, `ImplementsStore` (refinement) | 2 callers with 2 references, 3 blocks on 2 cylinders, a cache limit below them, 2 versions of the superblock | 284 k |
| `directory` | `TypeOK`, `NamesUnique`, `NameOfIsCurrent`, `SaveKeepsOldNames`, `EntriesStay` | 4 names, one too long, the empty one, 2 inodes, 5 slots | 473 k |
| `inode_data` | `TypeOK`, `Backed`, `ImplementsFile` (refinement) | blocks of 2 bytes, files of up to 6, strings of up to 2, 0 to 3 free blocks | 1.9 k |
| `insert_tail` | `InsertShifts`, violated | as `inode_data` | |
| `inode_shared` | `TypeOK`, `NoSharing`, `NothingLost`, `Reopens`, `PinsExact` | 2 files of up to 3 blocks, 5 blocks on the disk, 1 direct block, 1 child | 74 k |
| `inode_trees` | `Reopens` | 1 file of 0 to 15 blocks over entry blocks from 0 to 15, any room; only `close` and `open` | 6.7 k |
| `nodes` | `TypeOK`, `Exclusion`, `LocksGivenBack`, `RefcntExact`, `OneNode`, `NodesExist`, `SessionsKeepDirectory`, `KnownDefects` | 2 sessions, 2 names, 3 inodes, 4 nodes, paths of up to 2; all requests but `ls`, `chmod`, `rename` run alone | 1.6 M |
| `node_locks` | `Exclusion`, violated | as `nodes`, everything overlaps, paths of 1 | |
| `service` | `ReplyMatches`, `AnswerComes`, `HandlerEnds`, `FlushHappens` | 2 clients, a request in the queue and one at work each, a flush after every second request | 204 k |
| `users` | `TypeOK`, `SessionUser`, `IdsGivenOnce` | 2 clients, 2 names, up to 3 records, additions and formats | 2.5 M |
| `root_only` | `OnlyRootIsRoot`, violated | as `users`, up to 2 records | |
| `disk` | `TypeOK`, `NoTornSector`, `AnswerComes`, `ImplementsDisk` (refinement with fairness) | a `RemoteDisk` and a command client, 1 sector, 2 values | 149 k |

What the runs of the file system as a whole say:

* `nodes`: whatever requests came before, refused and failed ones included, a request that
  runs alone gives back each lock and reference that it took, leaves one node per inode in
  the table, and no session loses its directory, unless the program has reached one of the
  undefined states that `KnownDefects` lists: a path that goes through a file; a path that
  names its own directory again (`.`), so that a node without references is released in use;
  `rmdir` of a missing name, of `.` or of `..`; a format refused below the root; a session
  that goes on after a format took its directory (`ousted`); `cd` into a directory that a
  full disk left without `..`; a root that cannot be opened; a rename or a creation after
  which the directories are no tree. The properties are about what is left defined. No
  session loses its directory to a format but one in the root of a loaded disk. Requests in
  a session's own directory overlap with each other, and the lock excludes them.
* `node_locks`: requests that overlap on paths do not exclude each other (see
  [Findings](#findings)).
* `service`: a response that a client takes is always to its own request, though responses
  carry no identity; `del` and overlong writes are the only requests without one, and after
  them the client can only leave. Each thread ends when its client has gone between
  messages.
* `users`: a session's id keeps its name across removals and restarts, except after another's
  format or where a record was lost; a session has root's id only if it is root's or asked for
  a format; the id of a removed user is not given again.
* `root_only`: whoever asks for a format is root from then on.

**Bounds.** The block manager's state is finite without any bound but the size of the disk.
Three blocks on two cylinders make free lists of every shape, the step from one cylinder to
the next, and a full disk; a cache limit of one block beside the superblock makes every
other load evict or exceed it. Callers hold two references at a time (`AtMostTwo`), both of
one block or of two: the third block is the one that is evicted, allocated or loaded
meanwhile. `RefMax` is 3, above the number of callers, so that a counter that went below
zero would be seen. `Versions` has two values, so that free marks of an earlier format are
of an older version or, when both came within the same second, of the same. In `Directory`,
`MaxEntries` bounds the vector at three slots besides `.` and `..`, enough for deleted slots
before and after live ones, and inodes in two of them. In `InodeData`, three blocks of two
bytes let an operation begin and end in the middle, at the start or at the end of a first,
middle or last block, and `Room` lets it fail at each of its allocations. In `inode_shared`
a file needs an indirect block for its second data block and two more entry blocks for its
third; with the inodes this is more than the disk's five blocks, so each allocation can be
the one that fails, and two files compete. `inode_trees` has full trees at all three levels,
with two children in every node, up to `Capacity`; its initial states are open files as the
other operations leave them, with entry blocks for another number of data blocks than they
have now. In `nodes` three inodes are the root, the home directory and one that is a file or
a directory and is freed and used again; at most three nodes are ever in use at a time, so
the bound of four excludes nothing; paths of two components pass through a directory and end
in a name. In `service` a request waits in the queue while the handler is at work on the one
before it, which may be a flush, after which the client does not wait; `FlushInterval` 1
makes every second request meet the counter at 0. In `users` three records are root, one
user, and one who could be given his id. In `disk` one sector is enough, as one semaphore
covers them all.

**Symmetry and views.** Callers are interchangeable in `blocks`, files in `inode_shared`,
bytes other than zero in `inode_data`, names other than `.` and `..` and inodes in
`directory`, sessions in `nodes`, clients and names in `users` and `root_only`. Views merge
states that differ in what no later step reads:

* `blocks`: what the disk has in a block that nobody owns or has freed; and,
  when no restart is possible, under a dirty entry and as superblock: all this is written
  before it is read;
* `directory`: the vector of a closed directory, the records in the file of an open one but
  for their number, the names of deleted entries without a file's inode;
* `inode_shared`: the ids of blocks, which are only compared with each other and with 0:
  `ByPlace` names each block by its place in a listing of the state, so that states with
  equal views are renamings of each other; and what entry blocks of an open file still hold;
* `users`: `flush_counter`, and what a handler has read of it: they only decide whether a
  flush is one more step on the way to the next request;
* `nodes`: the identity of nodes while the table has each of them; the rest of the path of a
  request that is about to unlock; and everything but the reason once the behaviour is
  undefined.

Symmetry and views are used with safety properties only, and the liveness properties are
checked on all states. The constraint `NoneDangling` of `inode_shared` ends a behaviour at
the step after which pointers may dangle.

**Fairness** is assumed where liveness is checked. In `Service`, each handler's thread is
scheduled (weak fairness of its `Step`), and a client reads a response that has come;
nothing makes a client send, leave, or a server start. In `DiskServer` each handler is
scheduled, and one that waits for the semaphore gets it if it is free again and again
(strong fairness of `Lock`): semaphores do not promise an order, but one on which a thread
could be passed over for ever is not one a program can be built on. With weak fairness only,
`AnswerComes` does not hold.

**Deadlock** is checked in every run but `nodes` and `node_locks`, whose behaviours end
where the program's is undefined, and where all inodes or nodes of the instance are in use.

## Proofs

`BlockManagerProofs` proves, for every geometry, cache limit, set of callers and set of
values that satisfies the four assumptions of `BlockManager`:

* `TypeCorrect`, `FreeListCorrect`, `RefcntCorrect`, `CacheCorrect`, `RestartCorrect`,
  `BuffersCorrect`: the invariants that the run `blocks` checks;
* `Invariance`: `Spec => []IndInv`;
* `StoreImplemented`: `Spec => ImplementsStore`, the refinement of `BlockStore`.

`IndInv` joins these invariants with three facts they need to be inductive: a manager that
is down has no blocks and no references, and only holders have changed or declared anything
(`DownIsEmpty`); the callers' blocks hold callers' data, in memory and, once clean, on disk
(`LiveHoldsData`); a session that moved no block still has the superblock of the disk
(`QuietKeepsSuper`). `FreeListSound` alone is not inductive because an eviction moves a free
mark from the cache to the disk: the proof goes through what is `Stored` in a block, which
`PlaceFacts` shows that an eviction leaves as it is, so that only allocating and freeing
change the list. They pop and push `freed` at its end, and the lemmas on sequences say that
the rest of it stays. Each action has one lemma, with one step per conjunct that it can
disturb.

`BuffersCorrect` adds `peak`, the largest number of blocks ever referenced at a time, and the
invariant `BuffersInv`: `peak` is at least the number of blocks referenced now, and the
buffers are within the bound. It is kept because a step leaves no more buffers than before,
than the limit, or than one beyond the referenced blocks (`WithinLimit`); that the buffers
in the cache can be counted rests on `BlocksFinite`.
For `StoreImplemented` each action has a lemma that says which action of `BlockStore` its
step is. Evictions, loads and flushes are stutters, since what is `Stored` in an owned block
does not depend on where it is; `CleanMatchesDisk` is what makes the durable value of a
block that is dropped the current one.

`DirectoryProofs` proves for every set of names, inodes and every length:

* `TypeCorrect`, `NamesUniqueCorrect`, `NameOfCorrect`: the invariants of `directory`;
* `SaveCorrect`, `StayCorrect`: the action properties `SaveKeepsOldNames`, `EntriesStay`.

The inductive invariant adds to them that live entries have different inodes, that a deleted
entry lies behind a live one with the same inode, if there is one, and that an entry not in
`added` lies in a slot that the file already has. The argument for the last two is the one
of the code: `add_entry` takes the *first* deleted slot, and `rename` has just deleted one,
so a renamed entry never moves to a later slot. A name that is empty makes an entry that is
deleted from the start (`Record`), which the lemmas on `Added` tell apart.

`InodeDataProofs` proves for every size of blocks, every disk and every set of strings:

* `BackedCorrect`: an open file has a block for each byte of its size, after any failed
  operation;
* `TypeCorrect`: every block holds `D` bytes;
* `FileImplemented`: `Spec => ImplementsFile`, the refinement of `File`.

`IndInv`, for the first, keeps of `blocks` only that it is a sequence. The lemma `Fits` turns
the division of `BlocksFor` into `n <= m * D`, and `Position` does so for the index of an
offset; each operation then shows that it has made the new list long enough (`Enough`). The
types need more: that what `insert` and `remove` read lies within the blocks. For `remove`
this depends on where its skipping loop ends. `SkippedPlace` says so; the loop is a recursive
function, so `SkipExists` gives a solution of its equation (`SkipEnd`), and `SkipUnique`
shows by a minimal counterexample that there is no other. For the refinement a file is looked
at byte by byte (`ByteAt`): `PatchedAt`, `ExtendedAt`, `ReplacedAt` and `PrefixAt` say where
each byte of a new list of blocks comes from, and each operation has a lemma that compares
this with its action of `File`.

`InodeBlocksProofs` proves for any number of files and blocks, any width of the trees and any
size up to their capacity, with disks that fill up at any point, the five invariants of the
run `inode_shared`: `BlocksNotShared` (`NoSharing`), `BlocksNotLost` (`NothingLost`),
`FilesReopen` (`Reopens`), `ReferencesExact` (`PinsExact`) and `TypeCorrect`. They are about
the states before references dangle; `TypeCorrect` says so in its statement, as the run does
by its constraint: afterwards two files may list one entry block, and a walk may end anywhere.

The first half of the module is about the trees, without a state.

* A load depends on the entry blocks it visits only, and goes on from where the walk has come
  (`IsLoader`). What it finds of a tree that another disk has as well is the same.
* A save takes its entry blocks from those of the file and then from the free list, frees
  those left, and what it wrote the load of that level finds, or it failed because no room
  was left (`IsSaver`).
* Both hold of a leaf (`LeavesLoader`, `LeafSaver`) and, if of a level, of the level above it.
  The loops over children are recursive functions: that they have a run is `Iteration`, what
  a run keeps is shown child by child, by a minimal counterexample (`UpTo`, which is about
  membership in a set and so needs no operator as a parameter). The three trees of an inode
  are three applications.
* `SavedLoads` joins them: `open` finds the data blocks that `close` saved, in order.

The second half is the invariant `IInv`: unless references dangle, `Safe`, which is the
properties and one fact more for each file, `FileOK`. An open file has the blocks that its
size covers, or `close` would have nothing to save; of a closed one `open` finds all, or
says that it does not and then finds no more than the trees before the third can list.
Without it neither the types nor the sizes that `SavedLoads` asks for survive a `close` that
failed. Every operation changes one file and the free list, and leaves all blocks that
belong to neither as they are (`Others`): the blocks move between the two (`FileStep`), the
trees of other files stay because their blocks are not among them, and what is left is that
the file itself is as `FileOK` says. The assumptions are `SizesAssumption`, which keeps the
sizes within the capacity of the trees, and `MarksAssumption`, by which an open file is not
a closed one.

`DiskServerProofs` proves, for any number of connections and sectors and any values,
`TypeCorrect` and `NoTornSectorCorrect`. The inductive invariant `DInv` adds that one
handler at a time is between the semaphore's operations (`Mutex`), and that the half a
handler has written is still there when it writes the other (`HalfWay`).

Its `Refinement` is `Spec => Disk!DSafety`: the server implements the safety part of
`SectorDisk`. `Flow` says where the one request or response of a connection can be; with it
each action is shown to be a step of `SectorDisk` or to leave `Seen` and `Calls` as they are
(`StepMaps`). `First` is the step that carries a request out: by `Mutex` no other handler is
half way, so `Seen` changes in one sector only.

`ServiceProofs` proves `ReplyMatchesCorrect` for any number of clients, any set of requests
and any bounds. Messages have no identity, so the invariant `SInv` follows the one request
that is answered on its way from queue to handler to queue (`OneRequest`); all others under
way are flushes. It rests on the fact that the requests that the client does not wait for
are among those the handler does not answer.

It also proves `TypeCorrect` for all variables of `Service`, and on top of `SInv`
`SessionUserCorrect` and `IdsGivenOnceCorrect`. The fact they need is `Kept`: the users in
memory, or on disk while the server is down, have all ids that were given, or their loss is
excused. An addition that reads the number of users and writes later keeps it only if no
other came between, which is when the race is excused. For root's id, `asked` is set by the
only step that gives it to a session that did not log in as root.

`NodeProofs` proves seven of the invariants of the run `nodes`, for every finite set of
sessions, any names, and any bounds on inodes, nodes and paths: `TypeCorrect`, `GivenBack`
(`LocksGivenBack`), `CountsExact` (`RefcntExact`), `NodesUnique` (`OneNode`), `NodesReal`
(`NodesExist`), `DirectoriesKept` (`SessionsKeepDirectory`) and `DefectsKnown`
(`KnownDefects`). Their hypothesis is `Sequential`, which the constants of the run satisfy:
requests that resolve a path, log in or out or format run alone, in any order, on disks just
formatted or loaded, whatever the disk has room for. Requests on the sessions' own
directories (`ls`, `chmod`, `chown`, `rename`) overlap with each other as they like.
`Exclusion` is not among the theorems: it matters for the requests that `Sequential` keeps
apart, and `node_locks` shows that it is false of them.

The inductive invariant `IInv` is in `NodeInvariant`:

* `World`: the table has the nodes that are there, one for each inode, each of the type of
  its inode, and the sessions' directories among them. A failed request has to leave this
  behind whatever it had loaded.
* `Handled`: a request that runs alone is the only one. What holds of the nodes then has two
  forms, `Exclusive` and `Shared`, and the first step and the last of a request lead from one
  to the other.
* `Shared`, while no request runs alone: the references of a node are the sessions in it and
  the root's own, its lock count is the number of readers, or -1 for one writer, and whoever
  is at work is at its session's directory.
* `Exclusive`, while one does: `Counts` adds to the counts of the sessions what this request
  has taken so far; `Route`, `Fetching`, `Sights` and `Places` say which operation comes to
  which step, and what `load_node_` was asked for; `Walks` says that the nodes a walk has
  are locked and not referenced.
* `Proper`: the entries of directories form a tree. A walk depends on it: `WalkOK` says that
  it meets no inode twice, or it would find a node that it has locked itself and refuse.
  That there is no cycle is said by sets (no set of inodes other than the root has all its
  directories in itself), which needs no recursion and survives a creation, a removal and a
  rename by naming the set. While `rmdir` deletes what it walked, the tree is proper when
  the rest is gone (`Trees`).

* `Ousts`: of a session that a format ousted, the node of the directory is gone, or it is the
  root that the format is at.

Undefined behaviour is part of `IInv`: when `broken` names a request, the state is one that
satisfies the rest and in which that request is about to use a bad pointer. `DefectsKnown`
then follows by going through the places where it could be. `NodeProofs` has one lemma for
each action. `NodeInvariant` also has what they have in common: what `Release`, a load, a
lock and a removed entry do to the counts and to the tree.

The assumptions of all these are the named ASSUMEs of the modules, which TLC evaluates in
every run.

Only model-checked:

* `InodeBlocks` once references dangle: nothing is claimed of it;
* `NodeTable` without `Sequential`: some of its properties are false then; and `Exclusion`;
* liveness: `AnswerComes`, `HandlerEnds`, `FlushHappens`, and the fairness part of
  `ImplementsDisk`, as the prover has no rules for fairness;
* the violations.

## Findings

* `insert_tail`: `insert` before the last block of a file replaces the rest of the file by
  copies of the block at the offset: its loop never advances (`inodefile.cc:198`).
* `node_locks`: a request that fails before it has locked a node unlocks it all the same
  (`filesystem.cc:69`), so two handlers get to change one directory at a time.
* `root_only`: `OP_FORMAT` asks for no permission, and opens the session again as root's, also
  when the format was refused (`server.cc:102`): any user gets root's rights by asking. The
  report (`Project3report.pdf`, 4.5.1) says of a session that it has "the current user" and
  "checks the permission of the user".

Other behaviour that the models contain, and that their properties excuse by name:

| Behaviour | Source | Where it shows |
|---|---|---|
| `flush` skips blocks that somebody references, and always the superblock; the client's help says "flush cached blocks to disk" | `blockmgr.cc:180` | `Flush` of `BlockManager` |
| renaming to a name that is too long, or to `""`, removes the file from its directory and reports success | `filesystem.cc:227` | `EntriesStay` |
| `truncate` leaves freed blocks pinned, and `close` gives back references that may be another file's by then | `inodefile.cc:277` | `dangling` of `InodeBlocks` |
| an operation that runs out of blocks loses some; a `close` that does leaves a file that cannot be opened | `inodefile.cc:123`, `:200` | `leaky`, `lost` of `InodeBlocks` |
| a refused format deletes the root node that it then writes to | `filesystem.cc:309` | `KnownDefects` |
| after a load the root has no reference of its own, so that a format is not refused while another session is in the root, and deletes its directory; the report (4.5.5) says that "no client can access the file system while the file system is being formatted" | `filesystem.cc:300` | `ousted` in `SessionsKeepDirectory`, `KnownDefects` |
| a directory made on a full disk has no `..`, and `cd` into it ends in a null pointer | `filesystem.cc:107` | `dots` in `KnownDefects` |
| a root that cannot be opened is a null pointer to three callers | `filesystem.cc:267`, `:299`, `:465` | `Unchecked` in `KnownDefects` |
| `rename` moves `.` and `..` as well, and `mk` makes them where they are missing | `filesystem.cc:216` | `Tangles` in `KnownDefects` |
| two requests that look for a node at once make two for one inode, though the report (4.5.1) says that "only one instance of a file can exist at the same time" | `filesystem.cc:382` | `OneNode`, if all requests overlap as in `node_locks` |
| a path with `.`, or through a file, and `rmdir` of a missing name use a deleted node or a null pointer | `filesystem.cc:402` | `KnownDefects` |
| `del` and overlong writes are never answered | `server.cc:306`, `:89` | `AnswerComes` |
| a connection closed within a message, or within the login, leaves its handler spinning, in both servers | `bytepack.c:199` | `HandlerEnds`, `"spin"` of `DiskServer` |
| a response to a client that has gone ends the server | `bytepack.c:174` | `Crash`, `Kill` |
| two users may have one name; concurrent additions may lose one | `userfile.cc:37` | `excused` of `Service` |

## Not modelled

* `step2/fstest.cc` but for `rmuser`, and `step1/client_rnd.c`: they call, from a terminal
  or at random, what the modules have already.
* The packing of values into buffers, and the socket calls of `network.c`: a message is a
  record or a name, and what matters of the transport is that it is ordered, that it ends,
  and that it may end within a message.
* What threads do to a C++ container that another changes, and what follows the use of a
  deleted object: undefined behaviour has no state to speak of. The models name the step
  (`broken`) or leave the overlap out, and say so above.
* The disk head's movement, permission bits, and the text of answers.

## Plan

What would add most from here:

1. The bits of permissions as an operator over users, modes and requests.
2. A client that goes on after the server has ended, in `Service`.
