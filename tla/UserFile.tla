------------------------------ MODULE UserFile ------------------------------
(***************************************************************************)
(* step2/userfile.cc: the records of the users, whose places are their     *)
(* ids.  A removed user keeps its place.  The records are read from the    *)
(* user file when the object is made and written to it when it is deleted. *)
(***************************************************************************)
EXTENDS Integers, Sequences

CONSTANTS
    UserNames,  \* names of users other than root
    NoFile      \* a disk from which no user file can be read

\* UserData, without the bytes of the name: live is len > 0, which is 0 for
\* root too.
RootUser == [name |-> "root", live |-> FALSE]
User(name) == [name |-> name, live |-> TRUE]
Users == {RootUser} \cup [name : UserNames, live : BOOLEAN]

\* UserFile(file): a new file has no records, and root is made.
Loaded(records) == IF records = << >> THEN <<RootUser>> ELSE records

\* ~UserFile: records are written in order until the disk is full; those
\* that the file has already always fit.
SavedFiles(users, records) ==
    {SubSeq(users, 1, n) : n \in {k \in 0 .. Len(users) : Len(records) <= k}}

\* add_user does not look for the name.  It is push_back on a vector that the
\* handlers share: the place is found first, and written later, and the vector
\* ends there then.  Where others have shortened it in between, what lies before
\* the place is not known.
PlaceFor(users) == Len(users) + 1
Placed(users, place, name) ==
    IF place <= PlaceFor(users)
    THEN {SubSeq(users, 1, place - 1) \o <<User(name)>>}
    ELSE {users \o gap \o <<User(name)>> : gap \in [1 .. place - PlaceFor(users) -> Users]}

\* remove_user
RemovedErases(users, uid) ==   \* mutant: the record goes, the next move up
    IF uid > 0 /\ uid < Len(users) THEN SubSeq(users, 1, uid) \o SubSeq(users, uid + 2, Len(users))
    ELSE users
Removed(users, uid) ==
    IF uid > 0 /\ uid < Len(users) THEN [users EXCEPT ![uid + 1].live = FALSE] ELSE users

\* lookup, which is 0 for a name that nobody has.
Found(users, name) == {i \in 1 .. Len(users) : users[i].live /\ users[i].name = name}
LookupFromOne(users, name) ==   \* mutant: the place for the id
    IF Found(users, name) = {} THEN 0
    ELSE CHOOSE i \in Found(users, name) : \A j \in Found(users, name) : i <= j
Lookup(users, name) ==
    IF Found(users, name) = {} THEN 0
    ELSE (CHOOSE i \in Found(users, name) : \A j \in Found(users, name) : i <= j) - 1
=============================================================================
