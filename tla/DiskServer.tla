----------------------------- MODULE DiskServer -----------------------------
(***************************************************************************)
(* The disk server of step1 (server.c, disksim.c), one handler thread per  *)
(* connection, with the clients that talk to it: RemoteDisk of             *)
(* step2/idisk.cc, which tests the range itself, and the command client of *)
(* step1.  A client has one request under way at a time.                   *)
(*                                                                         *)
(* The disk is a file that is mapped to memory: the halves of a sector are *)
(* stored one after the other, and what is stored stays when the server    *)
(* ends.  One semaphore covers the work on a request.                      *)
(***************************************************************************)
EXTENDS DiskRequest

CONSTANTS
    Connections,
    Remote,     \* the connections of a RemoteDisk
    Main,       \* the thread that waits for connections
    Nothing,    \* no message in a socket
    Cut         \* the size of a message, and not all of its bytes

ASSUME ConnectionsAssumption ==
    /\ Main \notin Connections
    /\ Nothing \notin Request \cup Response /\ Cut \notin Request \cup {Nothing}

VARIABLES
    up,        \* the server runs
    mutex,     \* the thread that has the semaphore, or Main
    sectors,   \* the file
    pc,        \* of each connection's handler
    request,   \* what each handler works on
    response,  \* what each handler has packed
    client,    \* what each client does
    inbox,     \* requests in the sockets
    outbox,    \* responses in the sockets
    torn       \* history: the sectors where a kill has cut a write short

vars == <<up, mutex, sectors, pc, request, response, client, inbox, outbox, torn>>
handlerVars == <<pc, request, response>>

Init ==
    /\ up = FALSE /\ mutex = Main /\ torn = {}
    /\ sectors = [s \in Sectors |-> Blank]
    /\ pc = [c \in Connections |-> "none"]
    /\ request = [c \in Connections |-> Info]
    /\ response = [c \in Connections |-> Error]
    /\ client = [c \in Connections |-> "out"]
    /\ inbox = [c \in Connections |-> Nothing]
    /\ outbox = [c \in Connections |-> Nothing]

-----------------------------------------------------------------------------
(* Clients.                                                                 *)

\* check_disk_section: a RemoteDisk sends nothing for a sector outside.
MaySend(c, r) == c \in Remote => ~Fails(r)

\* A RemoteDisk asks for the geometry first.
Connect(c) ==
    /\ up /\ client[c] = "out" /\ pc[c] = "none"
    /\ pc' = [pc EXCEPT ![c] = "recv"]
    /\ client' = [client EXCEPT ![c] = IF c \in Remote THEN "waiting" ELSE "idle"]
    /\ inbox' = [inbox EXCEPT ![c] = IF c \in Remote THEN Info ELSE Nothing]
    /\ UNCHANGED <<up, mutex, sectors, request, response, outbox, torn>>

\* A request other than E, which is sent before the connection is closed.
Ask(c) == \E r \in Request :
    /\ client[c] = "idle" /\ r.op # "E" /\ MaySend(c, r)
    /\ client' = [client EXCEPT ![c] = "waiting"]
    /\ inbox' = [inbox EXCEPT ![c] = r]
    /\ UNCHANGED <<up, mutex, sectors, handlerVars, outbox, torn>>

Receive(c) ==
    /\ client[c] = "waiting" /\ outbox[c] # Nothing
    /\ client' = [client EXCEPT ![c] = "idle"]
    /\ outbox' = [outbox EXCEPT ![c] = Nothing]
    /\ UNCHANGED <<up, mutex, sectors, handlerVars, inbox, torn>>

\* ~RemoteDisk, "E", or the end of the client at any time: while it waits, or
\* within a message.
LeftBehind(c) == {inbox[c]} \cup (IF client[c] = "idle" THEN {End, Cut} ELSE {})

Leave(c) ==
    /\ client[c] # "out"
    /\ client' = [client EXCEPT ![c] = "out"]
    /\ \E last \in LeftBehind(c) : inbox' = [inbox EXCEPT ![c] = last]
    /\ outbox' = [outbox EXCEPT ![c] = Nothing]
    /\ UNCHANGED <<up, mutex, sectors, handlerVars, torn>>

-----------------------------------------------------------------------------
(* Handlers.                                                                *)

\* bytepack_recv.  A connection that was closed leaves the size 0; one that was
\* closed within a message leaves the loop for its bytes without an end.
RecvUnchecked(c) ==   \* mutant: without the test for the size 0
    /\ pc[c] = "recv" /\ inbox[c] # Cut /\ (inbox[c] # Nothing \/ client[c] = "out")
    /\ request' = [request EXCEPT ![c] = inbox[c]]
    /\ inbox' = [inbox EXCEPT ![c] = Nothing]
    /\ pc' = [pc EXCEPT ![c] = "lock"]
    /\ UNCHANGED <<up, mutex, sectors, response, client, outbox, torn>>

Recv(c) ==
    /\ pc[c] = "recv"
    /\ \/ /\ inbox[c] \notin {Nothing, Cut}
          /\ request' = [request EXCEPT ![c] = inbox[c]]
          /\ inbox' = [inbox EXCEPT ![c] = Nothing]
          /\ pc' = [pc EXCEPT ![c] = "lock"]
       \/ /\ inbox[c] = Nothing /\ client[c] = "out"
          /\ pc' = [pc EXCEPT ![c] = "none"]
          /\ UNCHANGED <<request, inbox>>
       \/ /\ inbox[c] = Cut
          /\ inbox' = [inbox EXCEPT ![c] = Nothing]
          /\ pc' = [pc EXCEPT ![c] = "spin"]
          /\ UNCHANGED request
    /\ UNCHANGED <<up, mutex, sectors, response, client, outbox, torn>>

\* disk_serve_request: sem_wait.
LockUnseen(c) ==   \* mutant: no semaphore
    /\ pc[c] = "lock"
    /\ mutex' = c
    /\ pc' = [pc EXCEPT ![c] = "first"]
    /\ UNCHANGED <<up, sectors, request, response, client, inbox, outbox, torn>>

Lock(c) ==
    /\ pc[c] = "lock" /\ mutex = Main
    /\ mutex' = c
    /\ pc' = [pc EXCEPT ![c] = "first"]
    /\ UNCHANGED <<up, sectors, request, response, client, inbox, outbox, torn>>

\* disk_serve_request_, to the first half of the sector: memcpy.
First(c) ==
    LET r == request[c] IN
    /\ pc[c] = "first"
    /\ pc' = [pc EXCEPT ![c] = IF Fails(r) \/ r.op \in {"I", "E"} THEN "post" ELSE "second"]
    /\ sectors' = IF Changes(r) THEN [sectors EXCEPT ![r.at][1] = After(r)[1]] ELSE sectors
    /\ response' = [response EXCEPT ![c] =
           IF Fails(r) THEN Error
           ELSE IF r.op = "R" THEN Found(<<sectors[r.at][1], Zero>>) ELSE Done]
    /\ UNCHANGED <<up, mutex, request, client, inbox, outbox, torn>>

\* ... and the second: memset.
Second(c) ==
    LET r == request[c] IN
    /\ pc[c] = "second"
    /\ pc' = [pc EXCEPT ![c] = "post"]
    /\ sectors' = IF Changes(r) THEN [sectors EXCEPT ![r.at][2] = After(r)[2]] ELSE sectors
    /\ response' = IF r.op = "R" THEN [response EXCEPT ![c].data[2] = sectors[r.at][2]]
                   ELSE response
    /\ torn' = IF Changes(r) THEN torn \ {r.at} ELSE torn
    /\ UNCHANGED <<up, mutex, request, client, inbox, outbox>>

\* sem_post.  After E the handler ends.
Post(c) ==
    /\ pc[c] = "post"
    /\ mutex' = Main
    /\ pc' = [pc EXCEPT ![c] = IF request[c] = End THEN "none" ELSE "send"]
    /\ UNCHANGED <<up, sectors, request, response, client, inbox, outbox, torn>>

\* bytepack_send, after an error too, and the resets at the top of the loop.
SendUnlessError(c) ==   \* mutant: an error is not sent
    /\ pc[c] = "send"
    /\ pc' = [pc EXCEPT ![c] = "recv"]
    /\ outbox' = IF client[c] = "out" \/ ~response[c].ok THEN outbox
                 ELSE [outbox EXCEPT ![c] = response[c]]
    /\ request' = [request EXCEPT ![c] = Info] /\ response' = [response EXCEPT ![c] = Error]
    /\ UNCHANGED <<up, mutex, sectors, client, inbox, torn>>

Send(c) ==
    /\ pc[c] = "send"
    /\ pc' = [pc EXCEPT ![c] = "recv"]
    /\ outbox' = IF client[c] = "out" THEN outbox ELSE [outbox EXCEPT ![c] = response[c]]
    /\ request' = [request EXCEPT ![c] = Info] /\ response' = [response EXCEPT ![c] = Error]
    /\ UNCHANGED <<up, mutex, sectors, client, inbox, torn>>

-----------------------------------------------------------------------------
(* The server process.                                                      *)

\* main, disk_init: the file is mapped, what it holds stays.
Start ==
    /\ ~up /\ up' = TRUE
    /\ UNCHANGED <<mutex, sectors, handlerVars, client, inbox, outbox, torn>>

\* The connections end with the process.
Disconnected ==
    /\ up /\ up' = FALSE /\ mutex' = Main
    /\ pc' = [c \in Connections |-> "none"]
    /\ client' = [c \in Connections |-> "out"]
    /\ inbox' = [c \in Connections |-> Nothing]
    /\ outbox' = [c \in Connections |-> Nothing]
    /\ request' = [c \in Connections |-> Info] /\ response' = [c \in Connections |-> Error]
    /\ UNCHANGED sectors

\* SIGINTHandler in the main thread: disk_free waits for the semaphore, and
\* keeps it to the end.
StopAtOnce ==   \* mutant: sem_wait left out
    Disconnected /\ UNCHANGED torn

Stop == mutex = Main /\ Disconnected /\ UNCHANGED torn

\* Sectors of which one half is written.
AtWork == {request[c].at : c \in {d \in Connections : pc[d] = "second" /\ Changes(request[d])}}

\* Any other end, as by a send to a client that has closed its end.
Kill == Disconnected /\ torn' = torn \cup AtWork

-----------------------------------------------------------------------------
Step(c) == Recv(c) \/ First(c) \/ Second(c) \/ Post(c) \/ Send(c)

Next ==
    \/ \E c \in Connections :
          Connect(c) \/ Ask(c) \/ Receive(c) \/ Leave(c) \/ Step(c) \/ Lock(c)
    \/ Start \/ Stop \/ Kill

\* Every thread is scheduled; one that waits for the semaphore gets it, unless
\* it is not free from some time on.
Fairness == \A c \in Connections : WF_vars(Step(c)) /\ SF_vars(Lock(c))

Spec == Init /\ [][Next]_vars /\ Fairness

-----------------------------------------------------------------------------
(* Properties.                                                              *)

\* The type invariant.
TypeOK ==
    /\ up \in BOOLEAN
    /\ mutex \in Connections \cup {Main}
    /\ sectors \in [Sectors -> Sector]
    /\ pc \in [Connections ->
          {"none", "recv", "lock", "first", "second", "post", "send", "spin"}]
    /\ request \in [Connections -> Request]
    /\ response \in [Connections -> Response]
    /\ client \in [Connections -> {"out", "idle", "waiting"}]
    /\ inbox \in [Connections -> Request \cup {Nothing, Cut}]
    /\ outbox \in [Connections -> Response \cup {Nothing}]
    /\ torn \subseteq Sectors

\* What a write or a clear leaves in a sector.
Whole == {s \in Sector : s[2] \in {s[1], Zero}}

\* A sector holds parts of two writes only while a handler is at work on it,
\* or if the server was killed then: in particular, none does after Ctrl-C
\* (disk_serve_request, disk_free).
NoTornSector ==
    \A s \in Sectors : sectors[s] \in Whole \/ s \in AtWork \cup torn

\* What a client waits for comes, or the connection ends (handler, sem_wait).
AnswerComes == \A c \in Connections :
    client[c] = "waiting" ~> client[c] # "waiting" \/ outbox[c] # Nothing

-----------------------------------------------------------------------------
(* The disk that clients see, as a refinement of SectorDisk: a request is   *)
(* carried out when the first half of the sector is.                        *)

Packed(c) ==
    IF pc[c] = "second" /\ request[c].op = "R"
    THEN [response[c] EXCEPT !.data[2] = sectors[request[c].at][2]] ELSE response[c]

Writer(s) == CHOOSE c \in Connections :
    pc[c] = "second" /\ Changes(request[c]) /\ request[c].at = s

Seen == [s \in Sectors |-> IF s \in AtWork THEN After(request[Writer(s)]) ELSE sectors[s]]

Call(c) ==
    CASE inbox[c] \notin {Nothing, End, Cut} -> [state |-> "asked", request |-> inbox[c]]
      [] pc[c] \in {"lock", "first"} /\ request[c] # End ->
            [state |-> "asked", request |-> request[c]]
      [] pc[c] \in {"second", "post", "send"} /\ request[c] # End ->
            [state |-> "done", request |-> request[c], response |-> Packed(c)]
      [] outbox[c] # Nothing -> [state |-> "replied", response |-> outbox[c]]
      [] OTHER -> [state |-> "idle"]

Calls == [c \in Connections |-> Call(c)]

Disk == INSTANCE SectorDisk WITH sectors <- Seen, call <- Calls

\* With any interleaving of its handlers, clients that leave, restarts and
\* kills, the server looks like a disk that serves one request at a time and
\* answers each of them.
ImplementsDisk == Disk!DSpec
=============================================================================
