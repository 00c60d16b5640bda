----------------------------- MODULE BlockStore -----------------------------
(***************************************************************************)
(* What the block manager of step2 promises its callers, with no cache and *)
(* no free list in sight: a store of blocks that are allocated, updated,   *)
(* released and that survive a shutdown.                                   *)
(*                                                                         *)
(* store[b] is what a caller that loads block b sees, for every block some *)
(* caller owns.  durable[b] is what a restart would find instead.          *)
(* pending is the set of blocks holding a change no caller has declared    *)
(* with dirtify() yet: only those may miss their last value in a shutdown. *)
(* recoverable says that a restart finds the ownership of the blocks as it *)
(* is now, so that a crash costs at most the updates not written back.     *)
(***************************************************************************)
CONSTANTS Blocks, Values, Zeroed

VARIABLES store, durable, pending, recoverable

svars == <<store, durable, pending, recoverable>>

StoreTypeOK ==
    /\ DOMAIN store \subseteq Blocks
    /\ DOMAIN durable = DOMAIN store
    /\ \A b \in DOMAIN store : store[b] \in Values
    /\ pending \subseteq DOMAIN store
    /\ recoverable \in BOOLEAN

SInit ==
    /\ store = << >>
    /\ durable = << >>
    /\ pending = {}
    /\ recoverable = TRUE

\* f is g with the blocks of some set carrying the value h gives them.
Mixed(f, g, h) ==
    /\ DOMAIN f = DOMAIN g
    /\ \A b \in DOMAIN f : f[b] \in {g[b], h[b]}

\* A block nobody owns is handed out, zeroed.  What a restart would find in
\* it is of no consequence: the new ownership is not recoverable yet.
SAllocate(b) ==
    /\ b \notin DOMAIN store
    /\ store' = [x \in DOMAIN store \cup {b} |->
                    IF x = b THEN Zeroed ELSE store[x]]
    /\ DOMAIN durable' = DOMAIN store'
    /\ \A x \in DOMAIN store : durable'[x] \in {durable[x], store[x]}
    /\ pending' = pending
    /\ recoverable' = FALSE

SRelease(b) ==
    /\ b \in DOMAIN store
    /\ store' = [x \in DOMAIN store \ {b} |-> store[x]]
    /\ DOMAIN durable' = DOMAIN store'
    /\ \A x \in DOMAIN store' : durable'[x] \in {durable[x], store[x]}
    /\ pending' = pending \ {b}
    /\ recoverable' = FALSE

\* The owner changes the block; the change is pending until declared.
SUpdate(b, v) ==
    /\ b \in DOMAIN store
    /\ store' = [store EXCEPT ![b] = v]
    /\ pending' \in {pending, pending \cup {b}}
    /\ UNCHANGED <<durable, recoverable>>

SDeclare(b) ==
    /\ pending' \in {pending, pending \ {b}}
    /\ UNCHANGED <<store, durable, recoverable>>

\* Some blocks reach the disk, each with the value callers see in it.
SWriteBack ==
    /\ Mixed(durable', durable, store)
    /\ UNCHANGED <<store, pending, recoverable>>

\* The disk filled up: an allocation failed, and only the bookkeeping moved.
SExhaust ==
    /\ recoverable' = FALSE
    /\ UNCHANGED <<store, durable, pending>>

\* Clean shutdown: every declared value is kept.
SShutdown ==
    /\ Mixed(store', store, durable)
    /\ \A b \in DOMAIN store \ pending : store'[b] = store[b]
    /\ durable' = store'
    /\ pending' = {}
    /\ recoverable' = TRUE

\* Crash: blocks fall back to a written-back value, none is torn or mixed up.
SCrash ==
    /\ recoverable
    /\ Mixed(store', store, durable)
    /\ durable' = store'
    /\ pending' = {}
    /\ UNCHANGED recoverable

\* A crash that cannot be recovered from, or a new file system.
SWipe ==
    /\ store' = << >>
    /\ durable' = << >>
    /\ pending' = {}
    /\ recoverable' \in BOOLEAN

SNext ==
    \/ \E b \in Blocks : SAllocate(b) \/ SRelease(b) \/ SDeclare(b)
    \/ \E b \in Blocks, v \in Values : SUpdate(b, v)
    \/ SWriteBack \/ SExhaust
    \/ SShutdown \/ SCrash \/ SWipe

SSpec == SInit /\ [][SNext]_svars
=============================================================================
