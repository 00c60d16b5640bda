---------------------------- MODULE DiskRequest ----------------------------
(***************************************************************************)
(* The requests that a disk server takes, and what they do to a sector, of *)
(* which two halves are told apart: the bytes that come first, and those   *)
(* that a shorter write fills with zeros.                                  *)
(***************************************************************************)
CONSTANTS
    Sectors,   \* pairs of a cylinder and a sector of the disk
    Outside,   \* any other pair
    Values,    \* bytes of half a sector
    Zero       \* ... that are all 0

ASSUME SectorsAssumption == Outside \notin Sectors
ASSUME ZeroAssumption == Zero \in Values

Sector == Values \X Values
Blank == <<Zero, Zero>>

\* The size of the data of a write: half a sector, a sector, or one that is
\* more than a sector or than the bytes that follow.
Sizes == {"half", "full", "wrong"}

Info == [op |-> "I", at |-> Outside, data |-> Zero, size |-> "half"]
End == [op |-> "E", at |-> Outside, data |-> Zero, size |-> "half"]
Request == {Info, End}
    \cup [op : {"R", "C"}, at : Sectors \cup {Outside}, data : {Zero}, size : {"half"}]
    \cup [op : {"W"}, at : Sectors \cup {Outside}, data : Values, size : Sizes]

\* CHECK_DISK_RANGE, and the tests of the size.
Fails(r) == \/ r.op \in {"R", "C", "W"} /\ r.at = Outside
            \/ r.op = "W" /\ r.size = "wrong"

Changes(r) == r.op \in {"C", "W"} /\ ~Fails(r)

\* disk_clear_section, disk_write: memcpy of the data, memset of the rest.
After(r) == IF r.op = "C" THEN Blank
            ELSE <<r.data, IF r.size = "full" THEN r.data ELSE Zero>>

Error == [ok |-> FALSE, data |-> Blank]
Done == [ok |-> TRUE, data |-> Blank]
Found(sector) == [ok |-> TRUE, data |-> sector]
Response == [ok : BOOLEAN, data : Sector]
=============================================================================
