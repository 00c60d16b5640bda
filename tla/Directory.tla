----------------------------- MODULE Directory -----------------------------
(***************************************************************************)
(* One directory of step2 (directory.h, directory.cc): the vector of       *)
(* entries in memory, read from an inode file when the directory is opened *)
(* and written back when it is destroyed.  A removed entry keeps its name  *)
(* and its inode, with len = 0, until another one takes its slot.          *)
(*                                                                         *)
(* The operations are called by WorkingDir (filesystem.cc) with the node   *)
(* of the directory locked for writing, so each is one action, with the    *)
(* lookups the caller makes first.                                         *)
(***************************************************************************)
EXTENDS Naturals, Sequences

CONSTANTS
    Names,        \* names shorter than MAX_FILENAME_LEN
    LongNames,    \* names that are not
    Empty,        \* the name ""
    Dot, DotDot,  \* "." and ".."
    Inodes,       \* inodes of the files and directories in this one
    Self, Parent, \* inodes of this directory and of its parent
    NoInode,      \* 0, what a failed lookup returns
    MaxEntries    \* bound on the length of the vector

ASSUME NamesAssumption ==
    /\ Dot \in Names /\ DotDot \in Names /\ Dot # DotDot
    /\ Names \cap LongNames = {} /\ Empty \notin Names \cup LongNames
ASSUME InodesAssumption ==
    /\ Self \notin Inodes /\ Parent \notin Inodes
    /\ NoInode \notin Inodes \cup {Self, Parent}
ASSUME BoundAssumption == MaxEntries \in Nat \ {0, 1}

\* struct DirectoryEntry, with live for len # 0.
Entry == [live : BOOLEAN, name : Names \cup {Empty}, inode : Inodes \cup {Self, Parent}]

VARIABLES
    entries,   \* entries_
    isOpen,    \* a Directory object exists
    file,      \* the entries the inode file holds
    added      \* the inodes entered since it was opened and not removed

vars == <<entries, isOpen, file, added>>

-----------------------------------------------------------------------------
Slots(es) == 1 .. Len(es)
First(S) == CHOOSE i \in S : \A j \in S : i <= j

\* The slots of es that lookup, remove_entry and list see.
LiveSlots(es) == {i \in Slots(es) : es[i].live}
Matches(es, name) == {i \in LiveSlots(es) : es[i].name = name}
FreeSlots(es) == Slots(es) \ LiveSlots(es)
Live(es) == {es[i].inode : i \in LiveSlots(es)}

\* lookup(filename)
Lookup(es, name) ==
    IF Matches(es, name) = {} THEN NoInode ELSE es[First(Matches(es, name))].inode

\* lookup(inode): the name in the first slot with that inode, deleted or not.
HasInode(es, x) == {i \in Slots(es) : es[i].inode = x}
NameOf(es, x) == es[First(HasInode(es, x))].name

\* What add_entry stores: len is strlen(name), so "" makes a deleted entry.
Record(name, x) == [live |-> name # Empty, name |-> name, inode |-> x]

Appended(es, name, x) == Append(es, Record(name, x))   \* mutant: no slot is reused

AddedAfter(es, name, x) ==   \* mutant: the slot after the deleted one
    IF FreeSlots(es) # {} /\ First(FreeSlots(es)) < Len(es)
    THEN [es EXCEPT ![First(FreeSlots(es)) + 1] = Record(name, x)]
    ELSE Append(es, Record(name, x))

\* add_entry: the first deleted slot is taken before the vector grows.
Added(es, name, x) ==
    IF FreeSlots(es) # {}
    THEN [es EXCEPT ![First(FreeSlots(es))] = Record(name, x)]
    ELSE Append(es, Record(name, x))

\* remove_entry: the first entry with that name is marked deleted.
Removed(es, name) ==
    IF Matches(es, name) = {}
    THEN es
    ELSE [es EXCEPT ![First(Matches(es, name))].live = FALSE]

HasRoom(es) == FreeSlots(es) # {} \/ Len(es) < MaxEntries

-----------------------------------------------------------------------------
\* A new directory; create_dir destroys the object at once, which saves it.
FirstEntries == <<Record(Dot, Self), Record(DotDot, Parent)>>

Init ==
    /\ entries = FirstEntries
    /\ isOpen = TRUE
    /\ file = << >>
    /\ added = {}

\* create_file, create_dir: a name not found by lookup gets a new inode.
CreateUnchecked(name, x) ==   \* mutant: the lookup left out
    /\ isOpen
    /\ x \notin Live(entries)
    /\ HasRoom(entries)
    /\ entries' = Added(entries, name, x)
    /\ added' = added \cup {x}
    /\ UNCHANGED <<isOpen, file>>

Create(name, x) ==
    /\ isOpen
    /\ Lookup(entries, name) = NoInode
    /\ x \notin Live(entries)
    /\ HasRoom(entries)
    /\ entries' = Added(entries, name, x)
    /\ added' = added \cup {x}
    /\ UNCHANGED <<isOpen, file>>

\* remove, remove_dir: the entry goes, its inode is freed and may come back.
Remove(name) ==
    /\ isOpen
    /\ Lookup(entries, name) \in Inodes
    /\ entries' = Removed(entries, name)
    /\ added' = added \ {Lookup(entries, name)}
    /\ UNCHANGED <<isOpen, file>>

RenameUnchecked(old, new) ==   \* mutant: add_entry without the length check
    /\ isOpen
    /\ Lookup(entries, old) # NoInode
    /\ Lookup(entries, new) = NoInode
    /\ entries' = Added(Removed(entries, old), new, Lookup(entries, old))
    /\ UNCHANGED <<isOpen, file, added>>

\* rename, of any entry ("." and ".." too).  The new name is not checked: one
\* that is too long is refused by add_entry, whose result rename ignores, and
\* an empty one makes a deleted entry; rename answers 0 either way.
Rename(old, new) ==
    /\ isOpen
    /\ Lookup(entries, old) # NoInode
    /\ Lookup(entries, new) = NoInode
    /\ entries' = IF new \in LongNames
                  THEN Removed(entries, old)
                  ELSE Added(Removed(entries, old), new, Lookup(entries, old))
    /\ UNCHANGED <<isOpen, file, added>>

\* ~Directory: every entry is written at its offset.  On a full disk the
\* slots the file already had are written, and new ones up to some length n;
\* of a new directory perhaps none.
Destroy(n) ==
    /\ isOpen
    /\ Len(file) <= n
    /\ file' = SubSeq(entries, 1, n)
    /\ isOpen' = FALSE
    /\ added' = {}
    /\ UNCHANGED entries

\* Directory(file): one entry per record in the file.
Open ==
    /\ ~isOpen
    /\ entries' = file
    /\ isOpen' = TRUE
    /\ UNCHANGED <<file, added>>

Next ==
    \/ \E name \in Names, x \in Inodes : Create(name, x)
    \/ \E name \in Names : Remove(name)
    \/ \E old \in Names, new \in Names \cup LongNames \cup {Empty} : Rename(old, new)
    \/ \E n \in 0 .. Len(entries) : Destroy(n)
    \/ Open

Spec == Init /\ [][Next]_vars

-----------------------------------------------------------------------------
TypeOK ==
    /\ entries \in Seq(Entry)
    /\ isOpen \in BOOLEAN
    /\ file \in Seq(Entry)
    /\ added \in SUBSET Inodes

\* remove_entry and lookup act on the first match only: a second live entry
\* of the same name would be hidden, and would reappear when the first goes.
NamesUnique ==
    \A i, j \in LiveSlots(entries) : entries[i].name = entries[j].name => i = j

\* lookup(inode) does not look at len, yet for a file of the directory it
\* never answers with the name of a deleted one that had the same inode
\* (get_full_path_): new entries take the first deleted slot.
NameOfIsCurrent ==
    \A i \in LiveSlots(entries) :
        entries[i].inode \in Inodes => NameOf(entries, entries[i].inode) = entries[i].name

\* A disk too full to save the directory loses names entered since it was
\* opened and no others, renamed ones included (~Directory, add_entry).
SaveKeepsOldNames ==
    [][\A n \in 0 .. Len(entries) : Destroy(n) =>
          \A i \in LiveSlots(entries) :
              entries[i].inode \in Inodes \ added =>
                  \E j \in LiveSlots(file') : file'[j] = entries[i]]_vars

\* Whatever slots the entries of others come and go in, an entry goes only when
\* its own name is removed, or renamed to one that is too long or empty; that a
\* rename loses it then is the work of rename, which checks neither the name nor
\* the result of add_entry.
EntriesStay ==
    [][isOpen /\ isOpen' => \A x \in Live(entries) \ Live(entries') :
          \E i \in LiveSlots(entries) :
              /\ entries[i].inode = x
              /\ \/ Remove(entries[i].name)
                 \/ \E new \in LongNames \cup {Empty} : Rename(entries[i].name, new)]_vars
=============================================================================
