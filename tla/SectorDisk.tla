----------------------------- MODULE SectorDisk -----------------------------
(***************************************************************************)
(* What a disk server promises its clients: sectors that are read and      *)
(* written as a whole, one request at a time, each answered in the end.    *)
(*                                                                         *)
(* call[c] is the request under way on a connection: asked, carried out    *)
(* with a response, and replied.                                           *)
(***************************************************************************)
EXTENDS DiskRequest

CONSTANT Connections

VARIABLES sectors, call

dvars == <<sectors, call>>

Idle == [state |-> "idle"]
Asked(r) == [state |-> "asked", request |-> r]
CarriedOut(r, a) == [state |-> "done", request |-> r, response |-> a]
Replied(a) == [state |-> "replied", response |-> a]

DInit == sectors = [s \in Sectors |-> Blank] /\ call = [c \in Connections |-> Idle]

DAsk(c) == \E r \in Request :
    /\ r.op # "E" /\ call[c] = Idle
    /\ call' = [call EXCEPT ![c] = Asked(r)]
    /\ UNCHANGED sectors

\* All of a request at once.
DCarryOut(c) ==
    LET r == call[c].request IN
    /\ call[c].state = "asked"
    /\ sectors' = IF Changes(r) THEN [sectors EXCEPT ![r.at] = After(r)] ELSE sectors
    /\ call' = [call EXCEPT ![c] = CarriedOut(r,
           IF Fails(r) THEN Error ELSE IF r.op = "R" THEN Found(sectors[r.at]) ELSE Done)]

\* The response is sent, to a client that may be gone.
DReply(c) ==
    /\ call[c].state = "done"
    /\ call' \in {[call EXCEPT ![c] = Replied(@.response)], [call EXCEPT ![c] = Idle]}
    /\ UNCHANGED sectors

DEnd(c) ==
    /\ call[c].state = "replied"
    /\ call' = [call EXCEPT ![c] = Idle]
    /\ UNCHANGED sectors

\* The end of the server.  It loses what is under way, and at the worst cuts
\* one write short, of which the client has not been told.
DStop ==
    /\ call' = [c \in Connections |-> Idle]
    /\ \/ UNCHANGED sectors
       \/ \E c \in Connections :
             /\ call[c].state = "done" /\ Changes(call[c].request)
             /\ \E back \in Values :
                   sectors' = [sectors EXCEPT
                       ![call[c].request.at] = <<After(call[c].request)[1], back>>]

DNext == (\E c \in Connections : DAsk(c) \/ DCarryOut(c) \/ DReply(c) \/ DEnd(c)) \/ DStop

DSafety == DInit /\ [][DNext]_dvars
DSpec == DSafety /\ \A c \in Connections : WF_dvars(DCarryOut(c) \/ DReply(c))
=============================================================================
