-------------------------- MODULE DiskServerProofs --------------------------
(***************************************************************************)
(* For every set of connections, every disk and every set of values: the   *)
(* disk server keeps its types, a sector holds parts of two writes only    *)
(* while a handler is at work on it, or if the server was killed then      *)
(* (NoTornSector), and what the server does, its clients can take for a    *)
(* disk that carries out whole requests one at a time (SectorDisk), as far *)
(* as safety goes.                                                         *)
(*                                                                         *)
(* NoTornSector says nothing of other handlers, but holds only since none  *)
(* comes in between: the invariant behind it is that the handler inside    *)
(* the semaphore is the one that has it, that none is there when the       *)
(* server is down, and that a write at its second half has left its first  *)
(* half in the sector.                                                     *)
(*                                                                         *)
(* In the refinement, a request is carried out for the clients when its    *)
(* first half is. The mapping shows the second half before it is there, so *)
(* the proof needs that no other handler looks at the sector in between    *)
(* (Mutex), that the first half is still there at the second (HalfWay),    *)
(* and where the one request or response of a connection can be (Flow).    *)
(***************************************************************************)
EXTENDS DiskServer, TLAPS

Inside == {"first", "second", "post"}

\* One handler at a time is between sem_wait and sem_post.
Mutex == \A c \in Connections : pc[c] \in Inside => mutex = c

\* A handler that has got half way is working on a sector, or reads it.
HalfWay == \A c \in Connections :
    pc[c] = "second" => /\ ~Fails(request[c]) /\ request[c].op \in {"R", "W", "C"}
                        /\ Changes(request[c]) =>
                              sectors[request[c].at][1] = After(request[c])[1]

DInv == TypeOK /\ Mutex /\ HalfWay /\ NoTornSector

-----------------------------------------------------------------------------
(* Requests.                                                                *)

LEMMA InfoEnd == Info \in Request /\ End \in Request
BY DEF Request

LEMMA Blanks == Blank \in Sector /\ Error \in Response /\ Done \in Response
BY ZeroAssumption DEF Blank, Sector, Error, Done, Response

\* What a request that does not fail is about.
LEMMA Served ==
    ASSUME NEW r \in Request, ~Fails(r), r.op \in {"R", "W", "C"}
    PROVE  r.at \in Sectors
BY DEF Fails, Request, Info, End

LEMMA ChangesSector ==
    ASSUME NEW r \in Request, Changes(r)
    PROVE  r.at \in Sectors /\ After(r) \in Sector /\ After(r) \in Whole
  <1>1. r.at \in Sectors  BY Served DEF Changes
  <1>2. r.data \in Values  BY ZeroAssumption DEF Changes, Request, Info, End
  <1>3. After(r) = <<r.data, r.data>> \/ After(r) = <<r.data, Zero>> \/ After(r) = <<Zero, Zero>>
    BY DEF After, Blank
  <1> QED BY <1>1, <1>2, <1>3, ZeroAssumption DEF Sector, Whole

-----------------------------------------------------------------------------
(* Types.                                                                   *)

LEMMA InitTypes == Init => TypeOK
  <1> SUFFICES ASSUME Init PROVE TypeOK  OBVIOUS
  <1>1. sectors \in [Sectors -> Sector]  BY Blanks DEF Init
  <1>2. request \in [Connections -> Request] /\ inbox \in [Connections -> Request \cup {Nothing, Cut}]
    BY InfoEnd DEF Init
  <1>3. response \in [Connections -> Response] /\ outbox \in [Connections -> Response \cup {Nothing}]
    BY Blanks DEF Init
  <1> QED BY <1>1, <1>2, <1>3 DEF Init, TypeOK

\* What clients do.
LEMMA ClientTypes ==
    ASSUME TypeOK, NEW c \in Connections, Connect(c) \/ Ask(c) \/ Receive(c) \/ Leave(c)
    PROVE  TypeOK'
  <1>1. CASE Connect(c)
    <2>1. inbox' \in [Connections -> Request \cup {Nothing, Cut}]
      BY <1>1, InfoEnd DEF Connect, TypeOK
    <2> QED BY <1>1, <2>1 DEF Connect, TypeOK
  <1>2. CASE Ask(c)  BY <1>2 DEF Ask, TypeOK, handlerVars
  <1>3. CASE Receive(c)  BY <1>3 DEF Receive, TypeOK, handlerVars
  <1>4. CASE Leave(c)
    <2>1. inbox' \in [Connections -> Request \cup {Nothing, Cut}]
      BY <1>4, InfoEnd DEF Leave, LeftBehind, TypeOK
    <2> QED BY <1>4, <2>1 DEF Leave, TypeOK, handlerVars
  <1> QED BY <1>1, <1>2, <1>3, <1>4

\* The first half of the work on a request.
LEMMA FirstTypes ==
    ASSUME TypeOK, NEW c \in Connections, First(c)
    PROVE  TypeOK'
  <1> DEFINE r == request[c]
  <1>1. r \in Request  BY DEF TypeOK
  <1>2. sectors' \in [Sectors -> Sector]
    <2>1. CASE Changes(r)
      <3>1. r.at \in Sectors /\ After(r)[1] \in Values
        BY <1>1, <2>1, ChangesSector DEF Sector
      <3>2. sectors[r.at] \in Values \X Values  BY <3>1 DEF TypeOK, Sector
      <3>3. sectors' = [sectors EXCEPT ![r.at] = [@ EXCEPT ![1] = After(r)[1]]]
        BY <2>1 DEF First
      <3>4. [sectors[r.at] EXCEPT ![1] = After(r)[1]] \in Values \X Values  BY <3>1, <3>2
      <3> QED BY <3>1, <3>3, <3>4 DEF TypeOK, Sector
    <2> QED BY <2>1 DEF First, TypeOK
  <1>3. response' \in [Connections -> Response]
    <2>1. CASE ~Fails(r) /\ r.op = "R"
      <3>1. r.at \in Sectors  BY <1>1, <2>1, Served
      <3>2. sectors[r.at][1] \in Values  BY <3>1 DEF TypeOK, Sector
      <3>3. Found(<<sectors[r.at][1], Zero>>) \in Response
        BY <3>2, ZeroAssumption DEF Found, Response, Sector
      <3> QED BY <2>1, <3>3 DEF First, TypeOK
    <2> QED BY <2>1, Blanks DEF First, TypeOK
  <1> QED BY <1>2, <1>3 DEF First, TypeOK

LEMMA SecondTypes ==
    ASSUME TypeOK, HalfWay, NEW c \in Connections, Second(c)
    PROVE  TypeOK'
  <1> DEFINE r == request[c]
  <1>1. r \in Request  BY DEF TypeOK
  <1>2. r.at \in Sectors  BY <1>1, Served DEF Second, HalfWay
  <1>3. sectors[r.at] \in Values \X Values  BY <1>2 DEF TypeOK, Sector
  <1>4. sectors' \in [Sectors -> Sector]
    <2>1. CASE Changes(r)
      <3>1. After(r)[2] \in Values  BY <1>1, <2>1, ChangesSector DEF Sector
      <3>2. sectors' = [sectors EXCEPT ![r.at] = [@ EXCEPT ![2] = After(r)[2]]]
        BY <2>1 DEF Second
      <3>3. [sectors[r.at] EXCEPT ![2] = After(r)[2]] \in Values \X Values  BY <3>1, <1>3
      <3> QED BY <1>2, <3>2, <3>3 DEF TypeOK, Sector
    <2> QED BY <2>1 DEF Second, TypeOK
  <1>5. response' \in [Connections -> Response]
    <2>1. CASE r.op = "R"
      <3>1. response[c] \in Response  BY DEF TypeOK
      <3>2. response[c].data \in Values \X Values  BY <3>1 DEF Response, Sector
      <3>3. [response[c].data EXCEPT ![2] = sectors[r.at][2]] \in Sector
        BY <1>3, <3>2 DEF Sector
      <3>4. [response[c] EXCEPT !.data = [@ EXCEPT ![2] = sectors[r.at][2]]] \in Response
        BY <3>1, <3>3 DEF Response
      <3>5. response' = [response EXCEPT ![c].data[2] = sectors[r.at][2]]
        BY <2>1 DEF Second
      <3>6. response'[c] = [response[c] EXCEPT !.data = [@ EXCEPT ![2] = sectors[r.at][2]]]
        BY <3>5 DEF TypeOK
      <3>7. \A d \in Connections \ {c} : response'[d] = response[d]  BY <3>5 DEF TypeOK
      <3>8. response' = [d \in Connections |-> response'[d]]  BY <3>5 DEF TypeOK
      <3> QED BY <3>4, <3>6, <3>7, <3>8 DEF TypeOK
    <2> QED BY <2>1 DEF Second, TypeOK
  <1> QED BY <1>4, <1>5 DEF Second, TypeOK

\* What handlers do otherwise.
LEMMA HandlerTypes ==
    ASSUME TypeOK, NEW c \in Connections, Recv(c) \/ Lock(c) \/ Post(c) \/ Send(c)
    PROVE  TypeOK'
  <1>1. CASE Recv(c)
    <2>1. CASE inbox[c] \notin {Nothing, Cut}
      <3>1. inbox[c] \in Request  BY <2>1 DEF TypeOK
      <3> QED BY <1>1, <2>1, <3>1 DEF Recv, TypeOK
    <2>2. CASE inbox[c] = Nothing
      BY <1>1, <2>2, ConnectionsAssumption DEF Recv, TypeOK
    <2>3. CASE inbox[c] = Cut
      BY <1>1, <2>3, ConnectionsAssumption DEF Recv, TypeOK
    <2> QED BY <2>1, <2>2, <2>3
  <1>2. CASE Lock(c)  BY <1>2 DEF Lock, TypeOK
  <1>3. CASE Post(c)  BY <1>3 DEF Post, TypeOK
  <1>4. CASE Send(c)
    <2>1. request' \in [Connections -> Request] /\ response' \in [Connections -> Response]
      BY <1>4, InfoEnd, Blanks DEF Send, TypeOK
    <2>2. outbox' \in [Connections -> Response \cup {Nothing}]  BY <1>4 DEF Send, TypeOK
    <2> QED BY <1>4, <2>1, <2>2 DEF Send, TypeOK
  <1> QED BY <1>1, <1>2, <1>3, <1>4

LEMMA ServerTypes == ASSUME TypeOK, Start \/ Stop \/ Kill PROVE TypeOK'
  <1>1. CASE Start  BY <1>1 DEF Start, TypeOK, handlerVars
  <1>2. CASE Stop \/ Kill
    <2>1. request' \in [Connections -> Request] /\ response' \in [Connections -> Response]
      BY <1>2, InfoEnd, Blanks DEF Stop, Kill, Disconnected
    <2>2. AtWork \subseteq Sectors
      BY Served, ChangesSector DEF AtWork, TypeOK
    <2>3. torn' \subseteq Sectors  BY <1>2, <2>2 DEF Stop, Kill, TypeOK
    <2>4. Disconnected  BY <1>2 DEF Stop, Kill
    <2>5. pc' \in [Connections -> {"none"}] /\ client' \in [Connections -> {"out"}]
      BY <2>4 DEF Disconnected
    <2>6. inbox' \in [Connections -> {Nothing}] /\ outbox' \in [Connections -> {Nothing}]
      BY <2>4 DEF Disconnected
    <2> QED BY <2>1, <2>3, <2>4, <2>5, <2>6 DEF Disconnected, TypeOK
  <1> QED BY <1>1, <1>2

-----------------------------------------------------------------------------
(* One handler at a time, and no sector of two writes.                      *)

\* A step that neither enters nor leaves the semaphore, nor touches the disk.
LEMMA NotInside ==
    ASSUME DInv, UNCHANGED <<mutex, sectors, torn>>,
           \A c \in Connections : pc[c] \in Inside \/ pc'[c] \in Inside =>
               pc'[c] = pc[c] /\ request'[c] = request[c]
    PROVE  Mutex' /\ HalfWay' /\ NoTornSector'
  <1>1. Mutex'  BY DEF DInv, Mutex
  <1>2. HalfWay'  BY DEF DInv, HalfWay, Inside
  <1>3. AtWork' = AtWork  BY DEF AtWork, Inside
  <1> QED BY <1>1, <1>2, <1>3 DEF DInv, NoTornSector

LEMMA ClientSafe ==
    ASSUME DInv, NEW c \in Connections, Connect(c) \/ Ask(c) \/ Receive(c) \/ Leave(c)
    PROVE  Mutex' /\ HalfWay' /\ NoTornSector'
  <1>1. UNCHANGED <<mutex, sectors, torn, request>>
    BY DEF Connect, Ask, Receive, Leave, handlerVars
  <1>2. pc' = pc \/ (pc[c] = "none" /\ pc' = [pc EXCEPT ![c] = "recv"])
    BY DEF Connect, Ask, Receive, Leave, handlerVars
  <1>3. \A d \in Connections : pc[d] \in Inside \/ pc'[d] \in Inside =>
            pc'[d] = pc[d] /\ request'[d] = request[d]
    BY <1>1, <1>2 DEF Inside, DInv, TypeOK
  <1> QED BY <1>1, <1>3, NotInside

LEMMA OutsideSafe ==
    ASSUME DInv, NEW c \in Connections, Recv(c) \/ Send(c)
    PROVE  Mutex' /\ HalfWay' /\ NoTornSector'
  <1>1. UNCHANGED <<mutex, sectors, torn>>  BY DEF Recv, Send
  <1>2. pc[c] \in {"recv", "send"} /\ pc' \in {[pc EXCEPT ![c] = q] : q \in {"none", "recv", "lock", "spin"}}
    BY DEF Recv, Send
  <1>3. \A d \in Connections \ {c} : request'[d] = request[d]
    BY DEF Recv, Send, DInv, TypeOK
  <1>4. \A d \in Connections : pc[d] \in Inside \/ pc'[d] \in Inside =>
            pc'[d] = pc[d] /\ request'[d] = request[d]
    BY <1>2, <1>3 DEF Inside, DInv, TypeOK
  <1> QED BY <1>1, <1>4, NotInside

\* The semaphore is free only if no handler is inside.
LEMMA FreeMeansEmpty ==
    ASSUME Mutex, mutex = Main
    PROVE  (\A c \in Connections : pc[c] \notin Inside) /\ AtWork = {}
  <1>1. \A c \in Connections : pc[c] \notin Inside
    BY ConnectionsAssumption DEF Mutex
  <1> QED BY <1>1 DEF AtWork, Inside

LEMMA LockSafe ==
    ASSUME DInv, NEW c \in Connections, Lock(c)
    PROVE  Mutex' /\ HalfWay' /\ NoTornSector'
  <1>1. \A d \in Connections : pc[d] \notin Inside  BY FreeMeansEmpty DEF DInv, Lock
  <1>2. /\ pc'[c] = "first" /\ mutex' = c
        /\ \A d \in Connections \ {c} : pc'[d] = pc[d]
    BY DEF Lock, DInv, TypeOK
  <1>3. Mutex'  BY <1>1, <1>2 DEF Mutex
  <1>4. \A d \in Connections : pc'[d] # "second" /\ pc[d] # "second"
    BY <1>1, <1>2 DEF Inside
  <1>5. HalfWay'  BY <1>4 DEF HalfWay
  <1>6. AtWork = {}  BY <1>4 DEF AtWork
  <1>7. UNCHANGED <<sectors, torn>>  BY DEF Lock
  <1> QED BY <1>3, <1>5, <1>6, <1>7 DEF DInv, NoTornSector

\* The handler inside is alone there.
LEMMA Alone ==
    ASSUME Mutex, NEW c \in Connections, pc[c] \in Inside
    PROVE  mutex = c /\ \A d \in Connections \ {c} : pc[d] \notin Inside
BY DEF Mutex

LEMMA FirstSafe ==
    ASSUME DInv, NEW c \in Connections, First(c)
    PROVE  Mutex' /\ HalfWay' /\ NoTornSector'
  <1> DEFINE r == request[c]
  <1>1. r \in Request  BY DEF DInv, TypeOK
  <1>2. mutex = c /\ \A d \in Connections \ {c} : pc[d] \notin Inside
    BY Alone DEF DInv, First, Inside
  <1>3. /\ pc'[c] = IF Fails(r) \/ r.op \in {"I", "E"} THEN "post" ELSE "second"
        /\ \A d \in Connections \ {c} : pc'[d] = pc[d]
    BY DEF First, DInv, TypeOK
  <1>4. request' = request /\ mutex' = mutex /\ torn' = torn  BY DEF First
  <1>5. Mutex'  BY <1>2, <1>3, <1>4 DEF Mutex
  <1>6. r.op \in {"R", "W", "C", "I", "E"}  BY <1>1 DEF Request, Info, End
  <1>7. AtWork = {}  BY <1>2 DEF AtWork, Inside, First
  <1>8. CASE Changes(r)
    <2>1. r.at \in Sectors  BY <1>1, <1>8, ChangesSector
    <2>2. sectors' = [sectors EXCEPT ![r.at] = [@ EXCEPT ![1] = After(r)[1]]]
      BY <1>8 DEF First
    <2>3. sectors[r.at] \in Values \X Values  BY <2>1 DEF DInv, TypeOK, Sector
    <2>4. sectors'[r.at][1] = After(r)[1]  BY <2>1, <2>2, <2>3 DEF DInv, TypeOK
    <2>5. pc'[c] = "second"  BY <1>3, <1>8 DEF Changes
    <2>6. HalfWay'  BY <1>2, <1>3, <1>4, <1>6, <2>4 DEF HalfWay, Inside
    <2>7. r.at \in AtWork'  BY <1>4, <1>8, <2>5 DEF AtWork
    <2>8. \A s \in Sectors \ {r.at} : sectors'[s] = sectors[s]  BY <2>2 DEF DInv, TypeOK
    <2>9. NoTornSector'  BY <1>4, <1>7, <2>7, <2>8 DEF DInv, NoTornSector
    <2> QED BY <1>5, <2>6, <2>9
  <1>9. CASE ~Changes(r)
    <2>1. sectors' = sectors  BY <1>9 DEF First
    <2>2. HalfWay'  BY <1>2, <1>3, <1>4, <1>6, <1>9 DEF HalfWay, Inside
    <2>3. NoTornSector'  BY <1>4, <1>7, <2>1 DEF DInv, NoTornSector
    <2> QED BY <1>5, <2>2, <2>3
  <1> QED BY <1>8, <1>9

LEMMA SecondSafe ==
    ASSUME DInv, NEW c \in Connections, Second(c)
    PROVE  Mutex' /\ HalfWay' /\ NoTornSector'
  <1> DEFINE r == request[c]
  <1>1. r \in Request  BY DEF DInv, TypeOK
  <1>2. mutex = c /\ \A d \in Connections \ {c} : pc[d] \notin Inside
    BY Alone DEF DInv, Second, Inside
  <1>3. pc'[c] = "post" /\ \A d \in Connections \ {c} : pc'[d] = pc[d]
    BY DEF Second, DInv, TypeOK
  <1>4. request' = request /\ mutex' = mutex  BY DEF Second
  <1>5. Mutex'  BY <1>2, <1>3, <1>4 DEF Mutex
  <1>6. HalfWay'  BY <1>2, <1>3 DEF HalfWay, Inside
  <1>7. AtWork = IF Changes(r) THEN {r.at} ELSE {}
    BY <1>2 DEF AtWork, Inside, Second
  <1>8. CASE Changes(r)
    <2>1. r.at \in Sectors /\ After(r) \in Sector /\ After(r) \in Whole
      BY <1>1, <1>8, ChangesSector
    <2>2. sectors' = [sectors EXCEPT ![r.at] = [@ EXCEPT ![2] = After(r)[2]]]
      BY <1>8 DEF Second
    <2>3. sectors[r.at] \in Values \X Values  BY <2>1 DEF DInv, TypeOK, Sector
    <2>4. sectors[r.at][1] = After(r)[1]  BY <1>8 DEF DInv, HalfWay, Second
    <2>5. sectors'[r.at] = <<sectors[r.at][1], After(r)[2]>>
      BY <2>1, <2>2, <2>3 DEF DInv, TypeOK
    <2>6. After(r) = <<After(r)[1], After(r)[2]>>  BY <2>1 DEF Sector
    <2>7. sectors'[r.at] \in Whole  BY <2>1, <2>4, <2>5, <2>6
    <2>8. \A s \in Sectors \ {r.at} : sectors'[s] = sectors[s]  BY <2>2 DEF DInv, TypeOK
    <2>9. torn' = torn \ {r.at}  BY <1>8 DEF Second
    <2>10. NoTornSector'  BY <1>7, <1>8, <2>7, <2>8, <2>9 DEF DInv, NoTornSector
    <2> QED BY <1>5, <1>6, <2>10
  <1>9. CASE ~Changes(r)
    <2>1. sectors' = sectors /\ torn' = torn  BY <1>9 DEF Second
    <2>2. NoTornSector'  BY <1>7, <1>9, <2>1 DEF DInv, NoTornSector
    <2> QED BY <1>5, <1>6, <2>2
  <1> QED BY <1>8, <1>9

LEMMA PostSafe ==
    ASSUME DInv, NEW c \in Connections, Post(c)
    PROVE  Mutex' /\ HalfWay' /\ NoTornSector'
  <1>1. \A d \in Connections \ {c} : pc[d] \notin Inside
    BY Alone DEF DInv, Post, Inside
  <1>2. pc'[c] \notin Inside /\ \A d \in Connections \ {c} : pc'[d] = pc[d]
    BY DEF Post, DInv, TypeOK, Inside
  <1>3. Mutex'  BY <1>1, <1>2 DEF Mutex
  <1>4. HalfWay'  BY <1>1, <1>2 DEF HalfWay, Inside
  <1>5. AtWork = {}  BY <1>1 DEF AtWork, Inside, Post
  <1>6. UNCHANGED <<sectors, torn>>  BY DEF Post
  <1> QED BY <1>3, <1>4, <1>5, <1>6 DEF DInv, NoTornSector

LEMMA ServerSafe ==
    ASSUME DInv, Start \/ Stop \/ Kill
    PROVE  Mutex' /\ HalfWay' /\ NoTornSector'
  <1>1. CASE Start
    <2>1. UNCHANGED <<mutex, sectors, torn, pc, request>>  BY <1>1 DEF Start, handlerVars
    <2> QED BY <2>1, NotInside
  <1>2. CASE Stop \/ Kill
    <2>1. Disconnected  BY <1>2 DEF Stop, Kill
    <2>2. \A c \in Connections : pc'[c] \notin Inside  BY <2>1 DEF Disconnected, Inside
    <2>3. Mutex' /\ HalfWay'  BY <2>2 DEF Mutex, HalfWay, Inside
    <2>4. sectors' = sectors  BY <2>1 DEF Disconnected
    <2>5. AtWork \cup torn \subseteq torn'  BY <1>2, FreeMeansEmpty DEF DInv, Stop, Kill
    <2> QED BY <2>3, <2>4, <2>5 DEF DInv, NoTornSector
  <1> QED BY <1>1, <1>2

-----------------------------------------------------------------------------
LEMMA InitInv == Init => DInv
  <1> SUFFICES ASSUME Init PROVE DInv  OBVIOUS
  <1>1. TypeOK  BY InitTypes
  <1>2. Mutex /\ HalfWay  BY DEF Init, Mutex, HalfWay, Inside
  <1>3. Blank \in Whole  BY ZeroAssumption DEF Blank, Whole, Sector
  <1>4. NoTornSector  BY <1>3 DEF Init, NoTornSector
  <1> QED BY <1>1, <1>2, <1>4 DEF DInv

\* The invariant is kept by every step of the specification.
THEOREM Inductive == DInv /\ [Next]_vars => DInv'
  <1> SUFFICES ASSUME DInv, [Next]_vars PROVE DInv'  OBVIOUS
  <1>1. ASSUME NEW c \in Connections, Connect(c) \/ Ask(c) \/ Receive(c) \/ Leave(c)
        PROVE  DInv'
    BY <1>1, ClientTypes, ClientSafe DEF DInv
  <1>2. ASSUME NEW c \in Connections, Recv(c) \/ Send(c) PROVE DInv'
    BY <1>2, HandlerTypes, OutsideSafe DEF DInv
  <1>3. ASSUME NEW c \in Connections, Lock(c) PROVE DInv'
    BY <1>3, HandlerTypes, LockSafe DEF DInv
  <1>4. ASSUME NEW c \in Connections, First(c) PROVE DInv'
    BY <1>4, FirstTypes, FirstSafe DEF DInv
  <1>5. ASSUME NEW c \in Connections, Second(c) PROVE DInv'
    BY <1>5, SecondTypes, SecondSafe DEF DInv
  <1>6. ASSUME NEW c \in Connections, Post(c) PROVE DInv'
    BY <1>6, HandlerTypes, PostSafe DEF DInv
  <1>7. CASE Start \/ Stop \/ Kill
    BY <1>7, ServerTypes, ServerSafe DEF DInv
  <1>8. CASE UNCHANGED vars
    <2>1. TypeOK'  BY <1>8 DEF DInv, TypeOK, vars
    <2>2. UNCHANGED <<mutex, sectors, torn, pc, request>>  BY <1>8 DEF vars
    <2> QED BY <2>1, <2>2, NotInside DEF DInv
  <1> QED BY <1>1, <1>2, <1>3, <1>4, <1>5, <1>6, <1>7, <1>8 DEF Next, Step

THEOREM Invariance == Spec => []DInv
  <1>1. Init => DInv  BY InitInv
  <1>2. DInv /\ [Next]_vars => DInv'  BY Inductive
  <1> QED BY <1>1, <1>2, PTL DEF Spec

\* Every variable of the disk server keeps its type.
THEOREM TypeCorrect == Spec => []TypeOK
  <1>1. DInv => TypeOK  BY DEF DInv
  <1> QED BY <1>1, Invariance, PTL

\* A sector holds parts of two writes only while a handler is at work on it, or
\* if the server was killed then: sem_wait and sem_post in disk_serve_request
\* and disk_free are enough, for any number of connections and sectors.
THEOREM NoTornSectorCorrect == Spec => []NoTornSector
  <1>1. DInv => NoTornSector  BY DEF DInv
  <1> QED BY <1>1, Invariance, PTL
-----------------------------------------------------------------------------
(* The refinement: where requests and responses are.                       *)

AtRequest == {"lock", "first", "second", "post", "send"}

\* One request or one response at a time is under way on a connection.
Flow(c) ==
    /\ outbox[c] # Nothing =>
          pc[c] = "recv" /\ inbox[c] = Nothing /\ client[c] = "waiting"
    /\ inbox[c] # Nothing => pc[c] = "recv"
    /\ inbox[c] = Cut => client[c] = "out"
    /\ client[c] = "idle" => pc[c] = "recv" /\ inbox[c] = Nothing
    /\ client[c] = "waiting" => pc[c] # "none" /\ inbox[c] # End
    /\ pc[c] \in AtRequest /\ request[c] = End => client[c] = "out"
    /\ pc[c] = "send" => request[c] # End

RInv == DInv /\ \A c \in Connections : Flow(c)

-----------------------------------------------------------------------------
(* The invariant.                                                           *)

LEMMA FlowElsewhere ==
    ASSUME NEW d \in Connections, Flow(d),
           pc'[d] = pc[d], request'[d] = request[d], client'[d] = client[d],
           inbox'[d] = inbox[d], outbox'[d] = outbox[d]
    PROVE  Flow(d)'
BY DEF Flow

LEMMA EndIsRequest ==
    /\ End # Nothing /\ Info # Nothing /\ Info # End
    /\ Cut # Nothing /\ Cut # End /\ Cut # Info
BY InfoEnd, ConnectionsAssumption DEF Info, End

LEMMA ClientFlow ==
    ASSUME RInv, NEW c \in Connections, Connect(c) \/ Ask(c) \/ Receive(c) \/ Leave(c)
    PROVE  \A d \in Connections : Flow(d)'
  <1>1. Flow(c)  BY DEF RInv
  <1>2. Flow(c)'
    <2>1. CASE Connect(c)
      BY <1>1, <2>1, EndIsRequest DEF Connect, Flow, RInv, DInv, TypeOK, AtRequest
    <2>2. CASE Ask(c)
      <3> PICK r \in Request : Ask(c)!(r)  BY <2>2 DEF Ask
      <3>1. r # End /\ r # Nothing /\ r # Cut  BY ConnectionsAssumption DEF End
      <3> QED BY <1>1, <3>1 DEF Flow, RInv, DInv, TypeOK, AtRequest, handlerVars
    <2>3. CASE Receive(c)
      BY <1>1, <2>3, EndIsRequest
      DEF Receive, Flow, RInv, DInv, TypeOK, AtRequest, handlerVars
    <2>4. CASE Leave(c)
      BY <1>1, <2>4, EndIsRequest
      DEF Leave, LeftBehind, Flow, RInv, DInv, TypeOK, AtRequest, handlerVars
    <2> QED BY <2>1, <2>2, <2>3, <2>4
  <1>3. ASSUME NEW d \in Connections \ {c} PROVE Flow(d)'
    <2>1. /\ pc'[d] = pc[d] /\ request'[d] = request[d] /\ client'[d] = client[d]
          /\ inbox'[d] = inbox[d] /\ outbox'[d] = outbox[d]
      BY DEF Connect, Ask, Receive, Leave, RInv, DInv, TypeOK, handlerVars
    <2> QED BY <2>1, FlowElsewhere DEF RInv
  <1> QED BY <1>2, <1>3

LEMMA HandlerFlow ==
    ASSUME RInv, NEW c \in Connections, Step(c) \/ Lock(c)
    PROVE  \A d \in Connections : Flow(d)'
  <1>1. Flow(c)  BY DEF RInv
  <1>2. Flow(c)'
    <2>1. CASE Recv(c)
      BY <1>1, <2>1, EndIsRequest DEF Recv, Flow, RInv, DInv, TypeOK, AtRequest
    <2>2. CASE First(c)
      BY <1>1, <2>2 DEF First, Flow, RInv, DInv, TypeOK, AtRequest
    <2>3. CASE Second(c)
      BY <1>1, <2>3 DEF Second, Flow, RInv, DInv, TypeOK, AtRequest
    <2>4. CASE Post(c)
      BY <1>1, <2>4 DEF Post, Flow, RInv, DInv, TypeOK, AtRequest
    <2>5. CASE Send(c)
      BY <1>1, <2>5, EndIsRequest DEF Send, Flow, RInv, DInv, TypeOK, AtRequest
    <2>6. CASE Lock(c)
      BY <1>1, <2>6 DEF Lock, Flow, RInv, DInv, TypeOK, AtRequest
    <2> QED BY <2>1, <2>2, <2>3, <2>4, <2>5, <2>6 DEF Step
  <1>3. ASSUME NEW d \in Connections \ {c} PROVE Flow(d)'
    <2>1. /\ pc'[d] = pc[d] /\ request'[d] = request[d] /\ client'[d] = client[d]
          /\ inbox'[d] = inbox[d] /\ outbox'[d] = outbox[d]
      BY DEF Step, Recv, First, Second, Post, Send, Lock, RInv, DInv, TypeOK
    <2> QED BY <2>1, FlowElsewhere DEF RInv
  <1> QED BY <1>2, <1>3

LEMMA ServerFlow ==
    ASSUME RInv, Start \/ Stop \/ Kill
    PROVE  \A d \in Connections : Flow(d)'
  <1>1. CASE Start
    BY <1>1, FlowElsewhere DEF Start, RInv, handlerVars
  <1>2. CASE Stop \/ Kill
    <2>1. Disconnected  BY <1>2 DEF Stop, Kill
    <2> QED BY <2>1, EndIsRequest DEF Disconnected, Flow, AtRequest
  <1> QED BY <1>1, <1>2

LEMMA InitFlow == Init => RInv
  <1> SUFFICES ASSUME Init PROVE RInv  OBVIOUS
  <1>1. \A c \in Connections : Flow(c)  BY EndIsRequest DEF Init, Flow, AtRequest
  <1> QED BY <1>1, InitInv DEF RInv

LEMMA RInductive == RInv /\ [Next]_vars => RInv'
  <1> SUFFICES ASSUME RInv, [Next]_vars PROVE RInv'  OBVIOUS
  <1>1. DInv'  BY Inductive DEF RInv
  <1>2. CASE UNCHANGED vars
    BY <1>1, <1>2, FlowElsewhere DEF RInv, vars
  <1>3. CASE Next
    BY <1>1, <1>3, ClientFlow, HandlerFlow, ServerFlow DEF RInv, Next
  <1> QED BY <1>2, <1>3

-----------------------------------------------------------------------------
(* What the clients see of the sectors.                                     *)

Writes(c) == pc[c] = "second" /\ Changes(request[c])

\* While a write is at its second half, clients see all of it.
LEMMA SeenInWrite ==
    DInv => \A c \in Connections : Writes(c) =>
        Seen = [sectors EXCEPT ![request[c].at] = After(request[c])]
  <1> SUFFICES ASSUME DInv, NEW c \in Connections, Writes(c)
               PROVE  Seen = [sectors EXCEPT ![request[c].at] = After(request[c])]
    OBVIOUS
  <1>1. \A d \in Connections : Writes(d) => d = c
    BY DEF DInv, Mutex, Writes, Inside
  <1>2. AtWork = {request[c].at}  BY <1>1 DEF AtWork, Writes
  <1>3. Writer(request[c].at) = c  BY <1>1 DEF Writer, Writes
  <1>4. \A s \in AtWork : After(request[Writer(s)]) = After(request[c])  BY <1>2, <1>3
  <1>5. sectors = [s \in Sectors |-> sectors[s]]  BY DEF DInv, TypeOK
  <1> QED BY <1>2, <1>4, <1>5 DEF Seen

\* At other times they see what is there.
LEMMA SeenElse ==
    DInv => ((\A c \in Connections : ~Writes(c)) => Seen = sectors)
  <1> SUFFICES ASSUME DInv, \A c \in Connections : ~Writes(c) PROVE Seen = sectors
    OBVIOUS
  <1>1. AtWork = {}  BY DEF AtWork, Writes
  <1>2. sectors = [s \in Sectors |-> sectors[s]]  BY DEF DInv, TypeOK
  <1> QED BY <1>1, <1>2 DEF Seen

LEMMA SeenNext ==
    DInv' =>
        /\ (\A c \in Connections : Writes(c) =>
              Seen = [sectors EXCEPT ![request[c].at] = After(request[c])])'
        /\ ((\A c \in Connections : ~Writes(c)) => Seen = sectors)'
BY SeenInWrite, SeenElse, PTL

\* A step that writes nothing, and does not end a write.
LEMMA SeenKept ==
    ASSUME DInv, DInv', sectors' = sectors,
           \A c \in Connections : Writes(c)' <=> Writes(c),
           \A c \in Connections : Writes(c) => request'[c] = request[c]
    PROVE  Seen' = Seen
  <1>1. CASE \E c \in Connections : Writes(c)
    BY <1>1, SeenInWrite, SeenNext
  <1>2. CASE \A c \in Connections : ~Writes(c)
    BY <1>2, SeenElse, SeenNext
  <1> QED BY <1>1, <1>2

-----------------------------------------------------------------------------
(* What the clients see of the requests.                                    *)

LEMMA CallElsewhere ==
    ASSUME NEW d \in Connections,
           pc'[d] = pc[d], request'[d] = request[d], response'[d] = response[d],
           inbox'[d] = inbox[d], outbox'[d] = outbox[d],
           pc[d] = "second" => sectors' = sectors
    PROVE  Call(d)' = Call(d)
  <1>1. pc[d] = "second" \/ pc[d] # "second"  OBVIOUS
  <1>2. Packed(d)' = Packed(d)  BY <1>1 DEF Packed
  <1> QED BY <1>2 DEF Call

LEMMA OneCall ==
    ASSUME NEW c \in Connections, \A d \in Connections \ {c} : Call(d)' = Call(d)
    PROVE  Calls' = [Calls EXCEPT ![c] = Call(c)']
BY DEF Calls

LEMMA CallsKept ==
    ASSUME \A d \in Connections : Call(d)' = Call(d)
    PROVE  Calls' = Calls
BY DEF Calls

\* What a connection with nothing under way looks like.
LEMMA IdleCall ==
    ASSUME NEW c \in Connections, inbox[c] \in {Nothing, End, Cut}, outbox[c] = Nothing,
           pc[c] \in {"none", "recv", "spin"} \/ request[c] = End
    PROVE  Call(c) = [state |-> "idle"]
BY DEF Call

-----------------------------------------------------------------------------
(* The abstract disk takes the same requests.                               *)

LEMMA SameRequests ==
    /\ Disk!Request = Request /\ Disk!Error = Error /\ Disk!Done = Done /\ Disk!Blank = Blank
    /\ \A r : (Disk!Fails(r) <=> Fails(r)) /\ (Disk!Changes(r) <=> Changes(r))
    /\ \A r : Disk!After(r) = After(r)
    /\ \A s : Disk!Found(s) = Found(s)
BY DEF Disk!Request, Request, Disk!Error, Error, Disk!Done, Done, Disk!Blank, Blank,
       Disk!Fails, Fails, Disk!Changes, Changes, Disk!After, After, Disk!Found, Found,
       Disk!Info, Info, Disk!End, End, Disk!Sizes, Sizes

-----------------------------------------------------------------------------
(* Each step is one of the abstract disk, or none.                          *)

Mapped == Disk!DNext \/ UNCHANGED Disk!dvars

LEMMA NoStep == ASSUME Seen' = Seen, Calls' = Calls PROVE Mapped
BY DEF Mapped, Disk!dvars

\* A step of one connection that clients do not see.
LEMMA Unseen ==
    ASSUME NEW c \in Connections, Seen' = Seen, Call(c)' = Call(c),
           \A d \in Connections \ {c} : Call(d)' = Call(d)
    PROVE  Mapped
BY CallsKept, NoStep

LEMMA AskMaps ==
    ASSUME NEW c \in Connections, NEW r \in Request, r.op # "E", Seen' = Seen,
           Call(c) = [state |-> "idle"], Call(c)' = [state |-> "asked", request |-> r],
           \A d \in Connections \ {c} : Call(d)' = Call(d)
    PROVE  Mapped
  <1>1. Calls' = [Calls EXCEPT ![c] = Disk!Asked(r)]  BY OneCall DEF Disk!Asked
  <1>2. Calls[c] = Disk!Idle  BY DEF Calls, Disk!Idle
  <1>3. r \in Disk!Request  BY SameRequests
  <1>4. Disk!DAsk(c)  BY <1>1, <1>2, <1>3 DEF Disk!DAsk
  <1> QED BY <1>4 DEF Mapped, Disk!DNext

LEMMA EndMaps ==
    ASSUME NEW c \in Connections, Seen' = Seen,
           Call(c).state = "replied", Call(c)' = [state |-> "idle"],
           \A d \in Connections \ {c} : Call(d)' = Call(d)
    PROVE  Mapped
  <1>1. Calls' = [Calls EXCEPT ![c] = Disk!Idle]  BY OneCall DEF Disk!Idle
  <1>2. Calls[c].state = "replied"  BY DEF Calls
  <1>3. Disk!DEnd(c)  BY <1>1, <1>2 DEF Disk!DEnd
  <1> QED BY <1>3 DEF Mapped, Disk!DNext

\* What the steps of a client leave alone.
LEMMA ClientFrame ==
    ASSUME RInv, RInv', NEW c \in Connections, Connect(c) \/ Ask(c) \/ Receive(c) \/ Leave(c)
    PROVE  /\ Seen' = Seen
           /\ \A d \in Connections \ {c} : Call(d)' = Call(d)
  <1>1. /\ sectors' = sectors /\ request' = request /\ response' = response
        /\ pc' = pc \/ (pc[c] = "none" /\ pc' = [pc EXCEPT ![c] = "recv"])
    BY DEF Connect, Ask, Receive, Leave, handlerVars
  <1>2. \A d \in Connections : pc'[d] = "second" <=> pc[d] = "second"
    BY <1>1 DEF RInv, DInv, TypeOK
  <1>3. \A d \in Connections : Writes(d)' <=> Writes(d)  BY <1>1, <1>2 DEF Writes
  <1>4. Seen' = Seen  BY <1>1, <1>3, SeenKept DEF RInv
  <1>5. ASSUME NEW d \in Connections \ {c} PROVE Call(d)' = Call(d)
    <2>1. pc'[d] = pc[d] /\ inbox'[d] = inbox[d] /\ outbox'[d] = outbox[d]
      BY DEF Connect, Ask, Receive, Leave, RInv, DInv, TypeOK, handlerVars
    <2> QED BY <1>1, <2>1, CallElsewhere
  <1> QED BY <1>4, <1>5

LEMMA ClientMaps ==
    ASSUME RInv, RInv', NEW c \in Connections, Connect(c) \/ Ask(c) \/ Receive(c) \/ Leave(c)
    PROVE  Mapped
  <1> USE ClientFrame
  <1>1. Flow(c)  BY DEF RInv
  <1>2. CASE Connect(c)
    <2>1. Call(c) = [state |-> "idle"]
      BY <1>1, <1>2, IdleCall DEF Connect, Flow, RInv, DInv, TypeOK
    <2>2. pc'[c] = "recv" /\ outbox'[c] = Nothing
          /\ inbox'[c] = IF c \in Remote THEN Info ELSE Nothing
      BY <1>1, <1>2 DEF Connect, Flow, RInv, DInv, TypeOK
    <2>3. CASE c \in Remote
      <3>1. Call(c)' = [state |-> "asked", request |-> Info]
        BY <2>2, <2>3, EndIsRequest DEF Call
      <3>2. Info \in Request /\ Info.op # "E"  BY InfoEnd DEF Info
      <3> QED BY <2>1, <3>1, <3>2, AskMaps
    <2>4. CASE c \notin Remote
      <3>1. Call(c)' = [state |-> "idle"]  BY <2>2, <2>4 DEF Call
      <3> QED BY <2>1, <3>1, Unseen
    <2> QED BY <2>3, <2>4
  <1>3. CASE Ask(c)
    <2> PICK r \in Request : Ask(c)!(r)  BY <1>3 DEF Ask
    <2>1. Call(c) = [state |-> "idle"]
      BY <1>1, IdleCall DEF Flow, RInv, DInv, TypeOK
    <2>2. r # Nothing /\ r # End /\ r # Cut  BY ConnectionsAssumption DEF End
    <2>3. inbox'[c] = r  BY DEF RInv, DInv, TypeOK
    <2>4. Flow(c)'  BY DEF RInv
    <2>5. pc'[c] = "recv" /\ outbox'[c] = Nothing  BY <2>2, <2>3, <2>4 DEF Flow
    <2>6. Call(c)' = [state |-> "asked", request |-> r]  BY <2>2, <2>3, <2>5 DEF Call
    <2> QED BY <2>1, <2>6, AskMaps
  <1>4. CASE Receive(c)
    <2>1. Call(c) = [state |-> "replied", response |-> outbox[c]]
      BY <1>1, <1>4 DEF Receive, Flow, Call
    <2>2. pc'[c] = "recv" /\ inbox'[c] = Nothing /\ outbox'[c] = Nothing
      BY <1>1, <1>4 DEF Receive, Flow, RInv, DInv, TypeOK, handlerVars
    <2>3. Call(c)' = [state |-> "idle"]  BY <2>2 DEF Call
    <2> QED BY <2>1, <2>3, EndMaps
  <1>5. CASE Leave(c)
    <2>1. pc' = pc /\ request' = request /\ response' = response /\ sectors' = sectors
          /\ outbox'[c] = Nothing
          /\ inbox'[c] \in IF client[c] = "idle" THEN {inbox[c], End, Cut} ELSE {inbox[c]}
      BY <1>5 DEF Leave, LeftBehind, handlerVars, RInv, DInv, TypeOK
    <2>2. CASE outbox[c] # Nothing
      <3>1. Call(c) = [state |-> "replied", response |-> outbox[c]]
        BY <1>1, <2>2 DEF Flow, Call
      <3>2. Call(c)' = [state |-> "idle"]  BY <1>1, <2>1, <2>2 DEF Flow, Call
      <3> QED BY <3>1, <3>2, EndMaps
    <2>3. CASE outbox[c] = Nothing /\ client[c] = "idle"
      <3>1. Call(c) = [state |-> "idle"] /\ Call(c)' = [state |-> "idle"]
        BY <1>1, <2>1, <2>3 DEF Flow, Call
      <3> QED BY <3>1, Unseen
    <2>4. CASE outbox[c] = Nothing /\ client[c] # "idle"
      <3>1. Call(c)' = Call(c)  BY <2>1, <2>4 DEF Call, Packed
      <3> QED BY <3>1, Unseen
    <2> QED BY <2>2, <2>3, <2>4
  <1> QED BY <1>2, <1>3, <1>4, <1>5

-----------------------------------------------------------------------------
\* What a request that is carried out is answered.
Answer(c) ==
    IF Fails(request[c]) THEN Error
    ELSE IF request[c].op = "R" THEN Found(Seen[request[c].at]) ELSE Done

LEMMA CarryOutMaps ==
    ASSUME NEW c \in Connections, Call(c).state = "asked", Call(c).request = request[c],
           Call(c)' = [state |-> "done", request |-> request[c], response |-> Answer(c)],
           Seen' = IF Changes(request[c])
                   THEN [Seen EXCEPT ![request[c].at] = After(request[c])] ELSE Seen,
           \A d \in Connections \ {c} : Call(d)' = Call(d)
    PROVE  Mapped
  <1>1. Calls[c].request = request[c] /\ Calls[c].state = "asked"  BY DEF Calls
  <1>2. Calls' = [Calls EXCEPT ![c] = Disk!CarriedOut(request[c], Answer(c))]
    BY OneCall DEF Disk!CarriedOut
  <1>3. Disk!DCarryOut(c)
    BY <1>1, <1>2, SameRequests DEF Disk!DCarryOut, Answer
  <1> QED BY <1>3 DEF Mapped, Disk!DNext

\* What the steps of a handler leave alone.
LEMMA HandlerFrame ==
    ASSUME RInv, NEW c \in Connections, Step(c) \/ Lock(c)
    PROVE  \A d \in Connections \ {c} : Call(d)' = Call(d) /\ (Writes(d)' <=> Writes(d))
  <1> TAKE d \in Connections \ {c}
  <1>1. /\ pc'[d] = pc[d] /\ request'[d] = request[d] /\ response'[d] = response[d]
        /\ inbox'[d] = inbox[d] /\ outbox'[d] = outbox[d]
    <2>1. Second(c) => response'[d] = response[d]  BY DEF Second, RInv, DInv, TypeOK
    <2> QED BY <2>1 DEF Step, Recv, First, Second, Post, Send, Lock, RInv, DInv, TypeOK
  <1>2. pc[d] = "second" => sectors' = sectors
    <2>1. pc[d] = "second" => pc[c] \notin Inside  BY DEF RInv, DInv, Mutex, Inside
    <2> QED BY <2>1 DEF Step, Recv, First, Second, Post, Send, Lock, Inside
  <1> QED BY <1>1, <1>2, CallElsewhere DEF Writes

\* A step of a handler outside the work on the sector.
LEMMA OutsideMaps ==
    ASSUME RInv, RInv', NEW c \in Connections, Recv(c) \/ Lock(c) \/ Post(c)
    PROVE  Mapped
  <1>1. Flow(c) /\ Flow(c)'  BY DEF RInv
  <1>2. ~Writes(c) /\ ~Writes(c)' /\ sectors' = sectors
    BY DEF Recv, Lock, Post, Writes, RInv, DInv, TypeOK
  <1>3. \A d \in Connections \ {c} : Call(d)' = Call(d) /\ (Writes(d)' <=> Writes(d))
    BY HandlerFrame DEF Step
  <1>4. \A d \in Connections \ {c} : request'[d] = request[d]
    BY DEF Recv, Lock, Post, RInv, DInv, TypeOK
  <1>5. Seen' = Seen  BY <1>2, <1>3, <1>4, SeenKept DEF RInv
  <1>6. Call(c)' = Call(c)
    <2>1. CASE Recv(c) /\ inbox[c] = Nothing
      <3>1. pc[c] = "recv" /\ client[c] = "out" /\ outbox[c] = Nothing
        BY <1>1, <2>1 DEF Recv, Flow
      <3>2. pc'[c] = "none" /\ inbox'[c] = Nothing /\ outbox'[c] = Nothing
        BY <2>1, <3>1, EndIsRequest DEF Recv, RInv, DInv, TypeOK
      <3> QED BY <2>1, <3>1, <3>2 DEF Call
    <2>5. CASE Recv(c) /\ inbox[c] = Cut
      <3>1. pc[c] = "recv" /\ outbox[c] = Nothing
        BY <1>1, <2>5, EndIsRequest DEF Recv, Flow
      <3>2. pc'[c] = "spin" /\ inbox'[c] = Nothing /\ outbox'[c] = Nothing
        BY <2>5, <3>1, EndIsRequest DEF Recv, RInv, DInv, TypeOK
      <3> QED BY <2>5, <3>1, <3>2 DEF Call
    <2>2. CASE Recv(c) /\ inbox[c] \notin {Nothing, Cut}
      <3>1. pc[c] = "recv" /\ outbox[c] = Nothing  BY <1>1, <2>2 DEF Recv, Flow
      <3>2. pc'[c] = "lock" /\ inbox'[c] = Nothing /\ outbox'[c] = Nothing
            /\ request'[c] = inbox[c]
        BY <2>2, <3>1 DEF Recv, RInv, DInv, TypeOK
      <3>3. CASE inbox[c] = End  BY <3>1, <3>2, <3>3 DEF Call
      <3>4. CASE inbox[c] # End
        BY <2>2, <3>1, <3>2, <3>4 DEF Call
      <3> QED BY <3>3, <3>4
    <2>3. CASE Lock(c)
      <3>1. pc[c] = "lock" /\ pc'[c] = "first" /\ request' = request /\ inbox' = inbox
            /\ outbox' = outbox
        BY <2>3 DEF Lock, RInv, DInv, TypeOK
      <3>2. inbox[c] = Nothing /\ outbox[c] = Nothing  BY <1>1, <3>1 DEF Flow
      <3> QED BY <3>1, <3>2 DEF Call
    <2>4. CASE Post(c)
      <3>1. pc[c] = "post" /\ request' = request /\ response' = response /\ inbox' = inbox
            /\ outbox' = outbox /\ pc'[c] = IF request[c] = End THEN "none" ELSE "send"
        BY <2>4 DEF Post, RInv, DInv, TypeOK
      <3>2. inbox[c] = Nothing /\ outbox[c] = Nothing  BY <1>1, <3>1 DEF Flow
      <3>3. Packed(c)' = Packed(c) \/ request[c] = End  BY <3>1 DEF Packed
      <3> QED BY <3>1, <3>2, <3>3 DEF Call
    <2> QED BY <2>1, <2>2, <2>3, <2>4, <2>5
  <1> QED BY <1>3, <1>5, <1>6, Unseen

LEMMA WithData ==
    ASSUME NEW a \in Response, NEW y \in Sector
    PROVE  [a EXCEPT !.data = y] = [ok |-> a.ok, data |-> y]
  <1> DEFINE b == [a EXCEPT !.data = y]
  <1>1. b \in Response /\ b.ok = a.ok /\ b.data = y  BY DEF Response
  <1>2. b = [ok |-> b.ok, data |-> b.data]  BY <1>1 DEF Response
  <1> QED BY <1>1, <1>2

\* A request is carried out for the clients at its first half.
LEMMA FirstMaps ==
    ASSUME RInv, RInv', NEW c \in Connections, First(c)
    PROVE  Mapped
  <1> DEFINE r == request[c]
  <1>1. Flow(c) /\ pc[c] = "first"  BY DEF RInv, First
  <1>2. r \in Request /\ sectors \in [Sectors -> Sector]  BY DEF RInv, DInv, TypeOK
  <1>3. /\ pc'[c] = IF Fails(r) \/ r.op \in {"I", "E"} THEN "post" ELSE "second"
        /\ request' = request /\ inbox' = inbox /\ outbox' = outbox
    BY DEF First, RInv, DInv, TypeOK
  <1>4. response'[c] = IF Fails(r) THEN Error
                       ELSE IF r.op = "R" THEN Found(<<sectors[r.at][1], Zero>>) ELSE Done
    BY DEF First, RInv, DInv, TypeOK
  <1>5. \A d \in Connections \ {c} : Call(d)' = Call(d) /\ (Writes(d)' <=> Writes(d))
    BY HandlerFrame DEF Step
  <1>6. \A d \in Connections : ~Writes(d)
    BY <1>1 DEF RInv, DInv, Mutex, Inside, Writes
  <1>7. Seen = sectors  BY <1>6, SeenElse DEF RInv
  <1>8. inbox[c] = Nothing /\ outbox[c] = Nothing  BY <1>1 DEF Flow
  <1>9. Seen' = IF Changes(r) THEN [Seen EXCEPT ![r.at] = After(r)] ELSE Seen
    <2>1. Writes(c)' <=> Changes(r)
      <3>1. r.op \in {"R", "W", "C", "I", "E"}  BY <1>2 DEF Request, Info, End
      <3> QED BY <1>3, <3>1 DEF Writes, Changes
    <2>2. CASE Changes(r)
      <3>1. r.at \in Sectors  BY <1>2, <2>2, ChangesSector
      <3>2. sectors' = [sectors EXCEPT ![r.at] = [@ EXCEPT ![1] = After(r)[1]]]
        BY <2>2 DEF First
      <3>3. Seen' = [sectors' EXCEPT ![r.at] = After(r)]
        BY <1>3, <2>1, <2>2, SeenNext DEF RInv
      <3>4. [sectors' EXCEPT ![r.at] = After(r)] = [sectors EXCEPT ![r.at] = After(r)]
        BY <3>2, <1>2
      <3> QED BY <1>7, <2>2, <3>3, <3>4
    <2>3. CASE ~Changes(r)
      <3>1. sectors' = sectors  BY <2>3 DEF First
      <3>2. \A d \in Connections : ~Writes(d)'  BY <1>5, <1>6, <2>1, <2>3
      <3> QED BY <1>7, <2>3, <3>1, <3>2, SeenNext DEF RInv
    <2> QED BY <2>2, <2>3
  <1>10. CASE r = End
    <2>1. ~Changes(r) /\ pc'[c] = "post"  BY <1>3, <1>10 DEF Changes, End
    <2>2. Call(c) = [state |-> "idle"] /\ Call(c)' = [state |-> "idle"]
      BY <1>3, <1>8, <1>10, IdleCall DEF Call
    <2> QED BY <1>5, <1>9, <2>1, <2>2, Unseen
  <1>11. CASE r # End
    <2>1. Call(c) = [state |-> "asked", request |-> r]  BY <1>1, <1>8, <1>11 DEF Call
    <2>2. Call(c).state = "asked" /\ Call(c).request = r  BY <2>1
    <2>3. Packed(c)' = Answer(c)
      <3>1. CASE Fails(r) \/ r.op # "R"
        BY <1>3, <1>4, <3>1 DEF Packed, Answer
      <3>2. CASE ~Fails(r) /\ r.op = "R"
        <4>1. r.at \in Sectors  BY <1>2, <3>2, Served
        <4>2. sectors' = sectors  BY <3>2 DEF First, Changes
        <4>3. response'[c] = [ok |-> TRUE, data |-> <<sectors[r.at][1], Zero>>]
          BY <1>4, <3>2 DEF Found
        <4>4. Packed(c)' = [response'[c] EXCEPT !.data = [@ EXCEPT ![2] = sectors[r.at][2]]]
          BY <1>3, <3>2, <4>2 DEF Packed
        <4>5. \A x, y, z : [<<x, y>> EXCEPT ![2] = z] = <<x, z>>  OBVIOUS
        <4>6. response'[c].data = <<sectors[r.at][1], Zero>> /\ response'[c].ok = TRUE
          BY <4>3
        <4>7. [response'[c].data EXCEPT ![2] = sectors[r.at][2]]
                = <<sectors[r.at][1], sectors[r.at][2]>>
          BY <4>5, <4>6
        <4>10. Packed(c)' = [response'[c] EXCEPT
                                !.data = <<sectors[r.at][1], sectors[r.at][2]>>]
          BY <4>4, <4>7
        <4>11. response'[c] \in Response /\ <<sectors[r.at][1], sectors[r.at][2]>> \in Sector
          BY <1>2, <4>1 DEF RInv, DInv, TypeOK, Sector
        <4>8. Packed(c)' = [ok |-> TRUE, data |-> <<sectors[r.at][1], sectors[r.at][2]>>]
          BY <4>6, <4>10, <4>11, WithData
        <4>9. sectors[r.at] = <<sectors[r.at][1], sectors[r.at][2]>>
          BY <1>2, <4>1 DEF Sector
        <4> QED BY <1>7, <3>2, <4>8, <4>9 DEF Answer, Found
      <3> QED BY <3>1, <3>2
    <2>4. Call(c)' = [state |-> "done", request |-> r, response |-> Packed(c)']
      BY <1>3, <1>8, <1>11 DEF Call
    <2> QED BY <1>5, <1>9, <2>2, <2>3, <2>4, CarryOutMaps
  <1> QED BY <1>10, <1>11

\* The second half changes nothing for the clients.
LEMMA SecondMaps ==
    ASSUME RInv, RInv', NEW c \in Connections, Second(c)
    PROVE  Mapped
  <1> DEFINE r == request[c]
  <1>1. pc[c] = "second" /\ Flow(c)  BY DEF RInv, Second
  <1>2. r \in Request /\ sectors \in [Sectors -> Sector] /\ ~Fails(r) /\ r.op \in {"R", "W", "C"}
    BY <1>1 DEF RInv, DInv, TypeOK, HalfWay
  <1>3. /\ pc'[c] = "post" /\ request' = request /\ inbox' = inbox /\ outbox' = outbox
    BY DEF Second, RInv, DInv, TypeOK
  <1>4. \A d \in Connections \ {c} : Call(d)' = Call(d) /\ (Writes(d)' <=> Writes(d))
    BY HandlerFrame DEF Step
  <1>5. \A d \in Connections \ {c} : ~Writes(d)
    BY <1>1 DEF RInv, DInv, Mutex, Inside, Writes
  <1>6. \A d \in Connections : ~Writes(d)'  BY <1>3, <1>4, <1>5 DEF Writes
  <1>7. Seen' = sectors'  BY <1>6, SeenNext DEF RInv
  <1>8. Seen' = Seen
    <2>1. CASE Changes(r)
      <3>1. Seen = [sectors EXCEPT ![r.at] = After(r)]
        BY <1>1, <2>1, SeenInWrite DEF RInv, Writes
      <3>2. r.at \in Sectors /\ After(r) \in Sector  BY <1>2, <2>1, ChangesSector
      <3>3. sectors' = [sectors EXCEPT ![r.at] = [@ EXCEPT ![2] = After(r)[2]]]
        BY <2>1 DEF Second
      <3>4. sectors[r.at] \in Values \X Values /\ sectors[r.at][1] = After(r)[1]
        BY <1>1, <1>2, <2>1, <3>2 DEF RInv, DInv, HalfWay, Sector
      <3>5. [sectors[r.at] EXCEPT ![2] = After(r)[2]] = <<sectors[r.at][1], After(r)[2]>>
        BY <3>4
      <3>6. After(r) = <<After(r)[1], After(r)[2]>>  BY <3>2 DEF Sector
      <3>7. [sectors[r.at] EXCEPT ![2] = After(r)[2]] = After(r)  BY <3>4, <3>5, <3>6
      <3>8. sectors' = [sectors EXCEPT ![r.at] = After(r)]  BY <3>3, <3>7
      <3> QED BY <1>7, <3>1, <3>8
    <2>2. CASE ~Changes(r)
      <3>1. sectors' = sectors  BY <2>2 DEF Second
      <3>2. Seen = sectors  BY <1>5, <2>2, SeenElse DEF RInv, Writes
      <3> QED BY <1>7, <3>1, <3>2
    <2> QED BY <2>1, <2>2
  <1>9. Packed(c)' = Packed(c)
    <2>1. CASE r.op = "R"
      <3>1. response'[c] = [response[c] EXCEPT !.data = [@ EXCEPT ![2] = sectors[r.at][2]]]
        BY <2>1 DEF Second, RInv, DInv, TypeOK
      <3>2. Packed(c) = [response[c] EXCEPT !.data = [@ EXCEPT ![2] = sectors[r.at][2]]]
        BY <1>1, <2>1 DEF Packed
      <3>3. Packed(c)' = response'[c]  BY <1>3 DEF Packed
      <3> QED BY <3>1, <3>2, <3>3
    <2>2. CASE r.op # "R"
      <3>1. response' = response  BY <2>2 DEF Second
      <3> QED BY <1>3, <2>2, <3>1 DEF Packed
    <2> QED BY <2>1, <2>2
  <1>10. Call(c)' = Call(c)
    <2>1. r # End  BY <1>2 DEF End
    <2>2. inbox[c] = Nothing /\ outbox[c] = Nothing  BY <1>1 DEF Flow
    <2> QED BY <1>1, <1>3, <1>9, <2>1, <2>2 DEF Call
  <1> QED BY <1>4, <1>8, <1>10, Unseen

LEMMA SendMaps ==
    ASSUME RInv, RInv', NEW c \in Connections, Send(c)
    PROVE  Mapped
  <1>1. Flow(c) /\ Flow(c)' /\ pc[c] = "send"  BY DEF RInv, Send
  <1>2. inbox[c] = Nothing /\ outbox[c] = Nothing /\ request[c] # End  BY <1>1 DEF Flow
  <1>3. Call(c).state = "done" /\ Call(c).response = response[c]
    <2>1. Packed(c) = response[c]  BY <1>1 DEF Packed
    <2>2. Call(c) = [state |-> "done", request |-> request[c], response |-> Packed(c)]
      BY <1>1, <1>2 DEF Call
    <2> QED BY <2>1, <2>2
  <1>4. /\ pc'[c] = "recv" /\ inbox' = inbox /\ sectors' = sectors
        /\ outbox'[c] = IF client[c] = "out" THEN Nothing ELSE response[c]
        /\ response[c] # Nothing
    BY <1>2, ConnectionsAssumption DEF Send, RInv, DInv, TypeOK
  <1>5. Call(c)' \in {[state |-> "idle"], [state |-> "replied", response |-> response[c]]}
    BY <1>2, <1>4 DEF Call
  <1>6. \A d \in Connections \ {c} : Call(d)' = Call(d) /\ (Writes(d)' <=> Writes(d))
    BY HandlerFrame DEF Step
  <1>7. ~Writes(c) /\ ~Writes(c)'  BY <1>1, <1>4 DEF Writes
  <1>8. \A d \in Connections \ {c} : request'[d] = request[d]
    BY DEF Send, RInv, DInv, TypeOK
  <1>9. Seen' = Seen  BY <1>4, <1>6, <1>7, <1>8, SeenKept DEF RInv
  <1>10. Calls[c].state = "done" /\ Calls[c].response = response[c]
    BY <1>3 DEF Calls
  <1>11. Calls' = [Calls EXCEPT ![c] = Call(c)']  BY <1>6, OneCall
  <1>12. Disk!DReply(c)
    BY <1>5, <1>9, <1>10, <1>11 DEF Disk!DReply, Disk!Replied, Disk!Idle
  <1> QED BY <1>12 DEF Mapped, Disk!DNext

\* The end of the server, between the halves of a write at the worst.
LEMMA ServerMaps ==
    ASSUME RInv, RInv', Start \/ Stop \/ Kill
    PROVE  Mapped
  <1>1. CASE Start
    <2>1. /\ sectors' = sectors /\ pc' = pc /\ request' = request /\ response' = response
          /\ inbox' = inbox /\ outbox' = outbox
      BY <1>1 DEF Start, handlerVars
    <2>2. \A d \in Connections : Writes(d)' <=> Writes(d)  BY <2>1 DEF Writes
    <2>3. Seen' = Seen  BY <2>1, <2>2, SeenKept DEF RInv
    <2>4. \A d \in Connections : Call(d)' = Call(d)  BY <2>1, CallElsewhere
    <2> QED BY <2>3, <2>4, CallsKept, NoStep
  <1>2. CASE Stop \/ Kill
    <2>1. Disconnected  BY <1>2 DEF Stop, Kill
    <2>2. /\ sectors' = sectors
          /\ \A c \in Connections : pc'[c] = "none" /\ inbox'[c] = Nothing /\ outbox'[c] = Nothing
      BY <2>1 DEF Disconnected
    <2>3. \A c \in Connections : ~Writes(c)'  BY <2>2 DEF Writes
    <2>4. Seen' = sectors  BY <2>2, <2>3, SeenNext DEF RInv
    <2>5. \A c \in Connections : Call(c)' = [state |-> "idle"]  BY <2>2 DEF Call
    <2>6. Calls' = [c \in Connections |-> Disk!Idle]  BY <2>5 DEF Calls, Disk!Idle
    <2>7. \/ Seen' = Seen
          \/ \E c \in Connections :
                /\ Calls[c].state = "done" /\ Changes(Calls[c].request)
                /\ \E back \in Values :
                      Seen' = [Seen EXCEPT
                          ![Calls[c].request.at] = <<After(Calls[c].request)[1], back>>]
      <3>1. CASE \A c \in Connections : ~Writes(c)
        BY <2>4, <3>1, SeenElse DEF RInv
      <3>2. ASSUME NEW c \in Connections, Writes(c)
            PROVE  /\ Calls[c].state = "done" /\ Changes(Calls[c].request)
                   /\ \E back \in Values :
                         Seen' = [Seen EXCEPT
                             ![Calls[c].request.at] = <<After(Calls[c].request)[1], back>>]
        <4> DEFINE r == request[c]
        <4>1. pc[c] = "second" /\ Changes(r) /\ Flow(c) /\ r \in Request
          BY <3>2 DEF Writes, RInv, DInv, TypeOK
        <4>2. r # End  BY <4>1 DEF Changes, End
        <4>3. inbox[c] = Nothing  BY <4>1 DEF Flow
        <4>4. Call(c) = [state |-> "done", request |-> r, response |-> Packed(c)]
          BY <4>1, <4>2, <4>3 DEF Call, Flow
        <4>5. Calls[c].state = "done" /\ Calls[c].request = r  BY <4>4 DEF Calls
        <4>6. Seen = [sectors EXCEPT ![r.at] = After(r)]
          BY <3>2, SeenInWrite DEF RInv
        <4>7. r.at \in Sectors  BY <4>1, ChangesSector
        <4>8. sectors[r.at] \in Values \X Values /\ sectors[r.at][1] = After(r)[1]
          BY <4>1, <4>7 DEF RInv, DInv, TypeOK, HalfWay, Sector
        <4>9. sectors[r.at] = <<After(r)[1], sectors[r.at][2]>> /\ sectors[r.at][2] \in Values
          BY <4>8
        <4>10. sectors \in [Sectors -> Sector]  BY DEF RInv, DInv, TypeOK
        <4>11. sectors = [Seen EXCEPT ![r.at] = sectors[r.at]]
          BY <4>6, <4>7, <4>10
        <4>12. Seen' = [Seen EXCEPT ![r.at] = <<After(r)[1], sectors[r.at][2]>>]
          BY <2>4, <4>9, <4>11
        <4> QED BY <4>1, <4>5, <4>9, <4>12
      <3> QED BY <3>1, <3>2
    <2>8. Disk!DStop  BY <2>6, <2>7, SameRequests DEF Disk!DStop
    <2> QED BY <2>8 DEF Mapped, Disk!DNext
  <1> QED BY <1>1, <1>2

LEMMA InitMaps == Init => Disk!DInit
  <1> SUFFICES ASSUME Init PROVE Disk!DInit  OBVIOUS
  <1>1. AtWork = {}  BY DEF Init, AtWork
  <1>2. Seen = [s \in Sectors |-> Blank]  BY <1>1 DEF Seen, Init
  <1>3. \A c \in Connections : Call(c) = [state |-> "idle"]  BY DEF Init, Call
  <1>4. Calls = [c \in Connections |-> Disk!Idle]  BY <1>3 DEF Calls, Disk!Idle
  <1> QED BY <1>2, <1>4, SameRequests DEF Disk!DInit

\* Every step of the server and its clients is one of the abstract disk, or
\* none that can be seen there.
THEOREM StepMaps == RInv /\ RInv' /\ [Next]_vars => [Disk!DNext]_(Disk!dvars)
  <1> SUFFICES ASSUME RInv, RInv', [Next]_vars PROVE Mapped
    BY DEF Mapped
  <1>1. ASSUME NEW c \in Connections, Connect(c) \/ Ask(c) \/ Receive(c) \/ Leave(c)
        PROVE  Mapped
    BY <1>1, ClientMaps
  <1>2. ASSUME NEW c \in Connections, Step(c) \/ Lock(c) PROVE Mapped
    BY <1>2, OutsideMaps, FirstMaps, SecondMaps, SendMaps DEF Step
  <1>3. CASE Start \/ Stop \/ Kill  BY <1>3, ServerMaps
  <1>4. CASE UNCHANGED vars
    <2>1. /\ sectors' = sectors /\ pc' = pc /\ request' = request /\ response' = response
          /\ inbox' = inbox /\ outbox' = outbox
      BY <1>4 DEF vars
    <2>2. Seen' = Seen  BY <2>1, SeenKept DEF RInv, Writes
    <2>3. \A d \in Connections : Call(d)' = Call(d)  BY <2>1, CallElsewhere
    <2> QED BY <2>2, <2>3, CallsKept, NoStep
  <1> QED BY <1>1, <1>2, <1>3, <1>4 DEF Next

\* With any number of connections and sectors, and whatever handlers, clients
\* and restarts do, the server is a disk that serves one request at a time: a
\* read finds the last write, and a failure or a kill leaves no half of one
\* unless the client is not told (handler, disk_serve_request, disk_free).
THEOREM Refinement == Spec => Disk!DSafety
  <1>1. Init => Disk!DInit  BY InitMaps
  <1>2. Init => RInv  BY InitFlow
  <1>3. RInv /\ [Next]_vars => RInv'  BY RInductive
  <1>4. RInv /\ RInv' /\ [Next]_vars => [Disk!DNext]_(Disk!dvars)  BY StepMaps
  <1> QED BY <1>1, <1>2, <1>3, <1>4, PTL DEF Spec, Disk!DSafety
=============================================================================
