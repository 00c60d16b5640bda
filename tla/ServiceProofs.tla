--------------------------- MODULE ServiceProofs ---------------------------
(***************************************************************************)
(* For every set of clients, of requests and of names, and any number of   *)
(* users: a client never takes a response for that to another request      *)
(* (ReplyMatches), whoever logged in under a name acts with an id that has *)
(* this name (SessionUser), no id is given twice (IdsGivenOnce), and the   *)
(* server keeps its types.                                                 *)
(*                                                                         *)
(* Messages have no identity, so the invariant behind ReplyMatches follows *)
(* a request on its way: on a connection of a client that is there, in the *)
(* queue of requests, at the handler and in the queue of responses         *)
(* together, there is at most one request that is answered, the one the    *)
(* client waits for, and it is the last in its queue.                      *)
(*                                                                         *)
(* The other two need what connects the users in memory, the user file and *)
(* the ids given so far, across restarts: no id is given beyond the last   *)
(* record, and what is on the disk while the server is down is what it     *)
(* had, or the loss is excused (Kept).                                     *)
(***************************************************************************)
EXTENDS Service, SequenceTheorems, WellFoundedInduction, TLAPS

Messages == Ops \cup {"login", "exit", "torn"}

\* The types that the proof needs.
Shape ==
    /\ client \in [Clients -> [pc : {"out", "login", "ready", "wait"},
                               op : Ops \cup {"none", "login"}]]
    /\ DOMAIN handler = Clients
    /\ \A c \in Clients : {"pc", "op"} \subseteq DOMAIN handler[c]
    /\ toServer \in [Clients -> Seq(Messages)]
    /\ toClient \in [Clients -> Seq(Messages \cup {"refused"})]

AtWork(c) == handler[c].pc \in {"serve", "add"}
OnlyFlushes(s) == \A i \in 1 .. Len(s) : s[i] = "flush"

\* The name is sent first, and answered first.
LoginFirst(c) ==
    /\ handler[c].pc = "login" =>
          /\ toClient[c] = << >>
          /\ \/ client[c].pc = "login" /\ toServer[c] = <<"login">>
             \/ client[c].pc = "out" /\ toServer[c] \in {<<"login">>, << >>, <<"torn">>}
    /\ client[c].pc = "login" =>
          /\ client[c].op = "login"
          /\ toClient[c] \in {<< >>, <<"login">>, <<"refused">>}
          /\ handler[c].pc # "login" => toServer[c] = << >> /\ ~AtWork(c)

\* Where the request is that a client waits for.
OneRequest(c) ==
    /\ Closed(c) => toClient[c] = << >>
    /\ client[c].pc = "ready" =>
          /\ OnlyFlushes(toServer[c]) /\ toClient[c] = << >>
          /\ AtWork(c) => handler[c].op = "flush"
    /\ client[c].pc = "wait" =>
          /\ client[c].op \in Ops \ {"flush"}
          /\ \/ /\ OnlyFlushes(toServer[c])
                /\ AtWork(c) => handler[c].op = "flush"
                /\ toClient[c] \in {<< >>, <<client[c].op>>}
             \/ /\ OnlyFlushes(toServer[c])
                /\ AtWork(c) /\ handler[c].op = client[c].op
                /\ toClient[c] = << >>
             \/ /\ toServer[c] # << >>
                /\ toServer[c][Len(toServer[c])] = client[c].op
                /\ \A i \in 1 .. Len(toServer[c]) - 1 : toServer[c][i] = "flush"
                /\ AtWork(c) => handler[c].op = "flush"
                /\ toClient[c] = << >>

Talk(c) == LoginFirst(c) /\ OneRequest(c)

SInv == Shape /\ \A c \in Clients : Talk(c)

LEMMA EmptyTail ==
    ASSUME NEW X, NEW s \in Seq(X), Len(s) = 1
    PROVE  Tail(s) = << >>
  <1>1. Tail(s) \in Seq(X) /\ Len(Tail(s)) = 0  OBVIOUS
  <1> QED BY <1>1, EmptySeq

-----------------------------------------------------------------------------
(* What a step leaves alone.                                                *)

LEMMA NotTouched ==
    ASSUME NEW d \in Clients, Talk(d),
           client'[d] = client[d], toServer'[d] = toServer[d], toClient'[d] = toClient[d],
           handler'[d].pc = handler[d].pc, handler'[d].op = handler[d].op
    PROVE  Talk(d)'
BY DEF Talk, LoginFirst, OneRequest, AtWork, Closed, OnlyFlushes

\* A step of connection c alone.
LEMMA OneConnection ==
    ASSUME SInv, NEW c \in Clients, Shape', Talk(c)',
           \A d \in Clients \ {c} :
               /\ client'[d] = client[d] /\ toServer'[d] = toServer[d]
               /\ toClient'[d] = toClient[d]
               /\ handler'[d].pc = handler[d].pc /\ handler'[d].op = handler[d].op
    PROVE  SInv'
BY NotTouched DEF SInv

-----------------------------------------------------------------------------
(* Clients.                                                                 *)

LEMMA ConnectKeeps ==
    ASSUME SInv, NEW c \in Clients, Connect(c)
    PROVE  SInv'
  <1> PICK name \in UserNames \cup {"root"} : Connect(c)!(name)  BY DEF Connect
  <1>1. /\ client'[c] = [pc |-> "login", op |-> "login"]
        /\ handler'[c].pc = "login"
        /\ toServer'[c] = <<"login">> /\ toClient'[c] = << >>
    BY DEF SInv, Shape, NoHandler
  <1>2. \A d \in Clients \ {c} :
            /\ client'[d] = client[d] /\ toServer'[d] = toServer[d]
            /\ toClient'[d] = toClient[d] /\ handler'[d] = handler[d]
    BY DEF SInv, Shape
  <1>3. Shape'
    <2>1. client' \in [Clients -> [pc : {"out", "login", "ready", "wait"},
                                   op : Ops \cup {"none", "login"}]]
      BY DEF SInv, Shape
    <2>2. <<"login">> \in Seq(Messages) /\ << >> \in Seq(Messages \cup {"refused"})
      BY DEF Messages
    <2>3. DOMAIN handler' = Clients  BY DEF SInv, Shape
    <2>4. {"pc", "op"} \subseteq DOMAIN handler'[c]  BY DEF SInv, Shape, NoHandler
    <2> QED BY <1>2, <2>1, <2>2, <2>3, <2>4 DEF SInv, Shape
  <1>4. Talk(c)'  BY <1>1 DEF Talk, LoginFirst, OneRequest, AtWork, Closed
  <1> QED BY <1>2, <1>3, <1>4, OneConnection

LEMMA AskKeeps ==
    ASSUME SInv, NEW c \in Clients, Ask(c)
    PROVE  SInv'
  <1> PICK op \in Ops : Ask(c)!(op)  BY DEF Ask
  <1>1. /\ client[c].pc = "ready" /\ handler' = handler /\ toClient' = toClient
        /\ \A d \in Clients \ {c} : client'[d] = client[d] /\ toServer'[d] = toServer[d]
    BY DEF SInv, Shape
  <1>2. client'[c] = IF op = "flush" THEN client[c] ELSE [pc |-> "wait", op |-> op]
    BY DEF SInv, Shape, Waits
  <1>3. toServer[c] \in Seq(Messages)  BY DEF SInv, Shape
  <1>4. Shape'
    <2>1. Append(toServer[c], op) \in Seq(Messages)  BY <1>3 DEF Messages
    <2> QED BY <1>1, <2>1 DEF SInv, Shape
  <1>5. /\ OnlyFlushes(toServer[c]) /\ toClient[c] = << >>
        /\ AtWork(c) => handler[c].op = "flush"
    BY <1>1 DEF SInv, Talk, OneRequest
  <1>6. handler[c].pc # "login"  BY <1>1 DEF SInv, Talk, LoginFirst
  <1>7. CASE handler[c].pc = "none"
    <2>1. toServer' = toServer  BY <1>7
    <2>2. Talk(c)'
      BY <1>1, <1>2, <1>5, <1>6, <2>1
      DEF Talk, LoginFirst, OneRequest, AtWork, Closed, OnlyFlushes
    <2> QED BY <1>1, <1>4, <2>2, OneConnection
  <1>8. CASE handler[c].pc # "none"
    <2>1. toServer'[c] = Append(toServer[c], op)  BY <1>8 DEF SInv, Shape
    <2>2. /\ toServer'[c] # << >> /\ Len(toServer'[c]) = Len(toServer[c]) + 1
          /\ Len(toServer[c]) \in Nat
          /\ toServer'[c][Len(toServer'[c])] = op
          /\ \A i \in 1 .. Len(toServer'[c]) - 1 : toServer'[c][i] = toServer[c][i]
      BY <1>3, <2>1
    <2>3. \A i \in 1 .. Len(toServer'[c]) - 1 : toServer'[c][i] = "flush"
      BY <1>5, <2>2 DEF OnlyFlushes
    <2>4. CASE op = "flush"
      <3>1. OnlyFlushes(toServer'[c])  BY <2>2, <2>3, <2>4 DEF OnlyFlushes
      <3>2. Talk(c)'
        BY <1>1, <1>2, <1>5, <1>6, <2>4, <3>1
        DEF Talk, LoginFirst, OneRequest, AtWork, Closed, OnlyFlushes
      <3> QED BY <1>1, <1>4, <3>2, OneConnection
    <2>5. CASE op # "flush"
      <3>1. Talk(c)'
        BY <1>1, <1>2, <1>5, <1>6, <2>2, <2>3, <2>5
        DEF Talk, LoginFirst, OneRequest, AtWork, Closed
      <3> QED BY <1>1, <1>4, <3>1, OneConnection
    <2> QED BY <2>4, <2>5
  <1> QED BY <1>7, <1>8

\* A client reads a response: it is the only one there can be.
LEMMA ReadKeeps ==
    ASSUME SInv, NEW c \in Clients, LoggedIn(c) \/ Receive(c)
    PROVE  SInv'
  <1>1. /\ handler' = handler /\ toServer' = toServer
        /\ \A d \in Clients \ {c} : client'[d] = client[d] /\ toClient'[d] = toClient[d]
    BY DEF LoggedIn, Receive, SInv, Shape
  <1>2. toClient[c] # << >> /\ client[c].pc \in {"login", "wait"}  BY DEF LoggedIn, Receive
  <1>3. Talk(c)  BY DEF SInv
  <1>4. handler[c].pc # "login"  BY <1>2, <1>3 DEF Talk, LoginFirst
  <1>5. toClient[c] \in Seq(Messages \cup {"refused"})  BY DEF SInv, Shape
  <1>6. Shape'
    <2>1. Tail(toClient[c]) \in Seq(Messages \cup {"refused"})  BY <1>2, <1>5
    <2>2. Ready \in [pc : {"out", "login", "ready", "wait"}, op : Ops \cup {"none", "login"}]
          /\ NoClient \in [pc : {"out", "login", "ready", "wait"}, op : Ops \cup {"none", "login"}]
      BY DEF Ready, NoClient
    <2>3. client' \in [Clients -> [pc : {"out", "login", "ready", "wait"},
                                   op : Ops \cup {"none", "login"}]]
      BY <2>2 DEF LoggedIn, Receive, SInv, Shape
    <2>4. toClient' \in [Clients -> Seq(Messages \cup {"refused"})]
      BY <2>1 DEF LoggedIn, Receive, SInv, Shape
    <2> QED BY <1>1, <2>3, <2>4 DEF SInv, Shape
  <1>7. toClient'[c] = << >>
    <2>1. Len(toClient[c]) = 1
      <3>1. CASE LoggedIn(c)
        <4>1. client[c].pc = "login"  BY <3>1 DEF LoggedIn
        <4> QED BY <1>2, <1>3, <4>1 DEF Talk, LoginFirst
      <3>2. CASE Receive(c)
        <4>1. client[c].pc = "wait"  BY <3>2 DEF Receive
        <4> QED BY <1>2, <1>3, <4>1 DEF Talk, OneRequest
      <3> QED BY <3>1, <3>2
    <2>2. Tail(toClient[c]) = << >>  BY <1>5, <2>1, EmptyTail
    <2> QED BY <2>2 DEF LoggedIn, Receive, SInv, Shape
  <1>8. OnlyFlushes(toServer[c]) /\ (AtWork(c) => handler[c].op = "flush")
    BY <1>2, <1>3, <1>4 DEF Talk, LoginFirst, OneRequest, OnlyFlushes
  <1>9. client'[c] \in {Ready, NoClient}  BY DEF LoggedIn, Receive, SInv, Shape
  <1>10. Talk(c)'
    BY <1>1, <1>4, <1>7, <1>8, <1>9
    DEF Talk, LoginFirst, OneRequest, AtWork, Closed, OnlyFlushes, Ready, NoClient
  <1> QED BY <1>1, <1>6, <1>10, OneConnection

LEMMA LeaveKeeps ==
    ASSUME SInv, NEW c \in Clients, Leave(c)
    PROVE  SInv'
  <1> PICK queue \in LeftBehind(c) : toServer' = [toServer EXCEPT ![c] = queue]
    BY DEF Leave
  <1>1. /\ handler' = handler /\ client'[c] = NoClient /\ toClient'[c] = << >>
        /\ toServer'[c] = queue
        /\ \A d \in Clients \ {c} : /\ client'[d] = client[d] /\ toClient'[d] = toClient[d]
                                    /\ toServer'[d] = toServer[d]
    BY DEF Leave, SInv, Shape
  <1>2. queue \in Seq(Messages)
    <2>1. toServer[c] \in Seq(Messages)  BY DEF SInv, Shape
    <2>2. \A x \in {"torn", "exit"} : Append(toServer[c], x) \in Seq(Messages)
      BY <2>1 DEF Messages
    <2>3. << >> \in Seq(Messages) /\ <<"torn">> \in Seq(Messages)  BY DEF Messages
    <2> QED BY <2>1, <2>2, <2>3 DEF LeftBehind
  <1>3. Shape'
    <2>1. toServer' \in [Clients -> Seq(Messages)]  BY <1>2 DEF SInv, Shape
    <2>2. toClient' \in [Clients -> Seq(Messages \cup {"refused"})]
          /\ client' \in [Clients -> [pc : {"out", "login", "ready", "wait"},
                                      op : Ops \cup {"none", "login"}]]
      BY DEF Leave, SInv, Shape, NoClient
    <2> QED BY <1>1, <2>1, <2>2 DEF SInv, Shape
  <1>4. Talk(c)'
    <2>1. ASSUME handler[c].pc = "login"
          PROVE  queue \in {<<"login">>, << >>, <<"torn">>}
      <3>1. client[c].pc = "login" /\ toServer[c] = <<"login">>
        BY <2>1 DEF Leave, Closed, SInv, Talk, LoginFirst
      <3> QED BY <2>1, <3>1 DEF LeftBehind
    <2> QED BY <1>1, <2>1 DEF Talk, LoginFirst, OneRequest, Closed, NoClient
  <1> QED BY <1>1, <1>3, <1>4, OneConnection

-----------------------------------------------------------------------------
(* Handlers.                                                                *)

LEMMA LoginKeeps ==
    ASSUME SInv, NEW c \in Clients, HandleLogin(c)
    PROVE  SInv'
  <1>1. handler[c].pc = "login"  BY DEF HandleLogin, At
  <1>2. /\ toClient[c] = << >> /\ client[c].pc \in {"login", "out"}
        /\ client[c].pc = "login" => client[c].op = "login"
    BY <1>1 DEF SInv, Talk, LoginFirst
  <1>3. toServer'[c] = << >>  BY DEF HandleLogin, SInv, Shape
  <1>4. handler'[c].pc \in {"count", "none"}
    BY DEF HandleLogin, SInv, Shape, NoHandler
  <1>5. toClient'[c] \in IF Closed(c) THEN {<< >>} ELSE {<<"login">>, <<"refused">>}
    BY <1>2 DEF HandleLogin, Reply, SInv, Shape
  <1>6. /\ client' = client
        /\ \A d \in Clients \ {c} : /\ toServer'[d] = toServer[d] /\ toClient'[d] = toClient[d]
                                    /\ handler'[d] = handler[d]
    BY DEF HandleLogin, Reply, SInv, Shape
  <1>7. Shape'
    <2>1. << >> \in Seq(Messages) /\ DOMAIN handler' = Clients
      BY DEF HandleLogin, SInv, Shape
    <2>2. {"pc", "op"} \subseteq DOMAIN handler'[c]
      BY DEF HandleLogin, SInv, Shape, NoHandler
    <2>3. toServer' \in [Clients -> Seq(Messages)]
      BY <1>3, <2>1 DEF HandleLogin, SInv, Shape
    <2>4. toClient'[c] \in Seq(Messages \cup {"refused"})
      <3>1. \A r \in {"login", "refused"} : <<r>> \in Seq(Messages \cup {"refused"})
        BY DEF Messages
      <3>2. << >> \in Seq(Messages \cup {"refused"})  OBVIOUS
      <3> QED BY <1>5, <3>1, <3>2
    <2>5. toClient' \in [Clients -> Seq(Messages \cup {"refused"})]
      BY <2>4 DEF HandleLogin, Reply, SInv, Shape
    <2> QED BY <1>6, <2>1, <2>2, <2>3, <2>5 DEF SInv, Shape
  <1>8. Talk(c)'
    BY <1>2, <1>3, <1>4, <1>5, <1>6 DEF Talk, LoginFirst, OneRequest, AtWork, Closed
  <1> QED BY <1>6, <1>7, <1>8, OneConnection

\* Only a client that is gone leaves its name unsent.
LEMMA LoginCutKeeps ==
    ASSUME SInv, NEW c \in Clients, LoginCut(c)
    PROVE  SInv'
  <1>1. handler[c].pc = "login" /\ toServer[c] # <<"login">>  BY DEF LoginCut, At
  <1>2. client[c].pc = "out" /\ toClient[c] = << >>
    BY <1>1 DEF SInv, Talk, LoginFirst
  <1>3. handler'[c] \in {NoHandler, Spinning} /\ toServer'[c] = << >>
    BY DEF LoginCut, SInv, Shape
  <1>4. /\ client' = client /\ toClient' = toClient
        /\ \A d \in Clients \ {c} : toServer'[d] = toServer[d] /\ handler'[d] = handler[d]
    BY DEF LoginCut, SInv, Shape
  <1>5. handler'[c].pc \in {"none", "spin"} /\ {"pc", "op"} \subseteq DOMAIN handler'[c]
    BY <1>3 DEF NoHandler, Spinning
  <1>6. Shape'
    <2>1. << >> \in Seq(Messages) /\ DOMAIN handler' = Clients
      BY DEF LoginCut, SInv, Shape
    <2>2. toServer' \in [Clients -> Seq(Messages)]
      BY <2>1 DEF LoginCut, SInv, Shape
    <2> QED BY <1>4, <1>5, <2>1, <2>2 DEF SInv, Shape
  <1>7. Talk(c)'
    BY <1>2, <1>3, <1>4, <1>5 DEF Talk, LoginFirst, OneRequest, Closed
  <1> QED BY <1>4, <1>6, <1>7, OneConnection

\* Between two requests.
LEMMA CounterKeeps ==
    ASSUME SInv, NEW c \in Clients, Count(c) \/ Counted(c) \/ Test(c) \/ Flush(c)
    PROVE  SInv'
  <1>1. /\ client' = client /\ toServer' = toServer /\ toClient' = toClient
        /\ \A d \in Clients \ {c} : handler'[d] = handler[d]
    BY DEF Count, Counted, Test, Flush, Goto, SInv, Shape
  <1>2. /\ handler[c].pc \in {"count", "counted", "test", "flush"}
        /\ handler'[c].pc \in {"counted", "test", "flush", "recv"}
    BY DEF Count, Counted, Test, Flush, Goto, At, SInv, Shape
  <1>3. DOMAIN handler' = Clients /\ {"pc", "op"} \subseteq DOMAIN handler'[c]
    BY DEF Count, Counted, Test, Flush, Goto, SInv, Shape
  <1>4. Shape'  BY <1>1, <1>3 DEF SInv, Shape
  <1>5. Talk(c)'
    BY <1>1, <1>2 DEF SInv, Talk, LoginFirst, OneRequest, AtWork, Closed, OnlyFlushes
  <1> QED BY <1>1, <1>4, <1>5, OneConnection

LEMMA RecvKeeps ==
    ASSUME SInv, NEW c \in Clients, Recv(c)
    PROVE  SInv'
  <1>1. handler[c].pc = "recv"  BY DEF Recv, At
  <1>2. /\ client' = client /\ toClient' = toClient
        /\ \A d \in Clients \ {c} : handler'[d] = handler[d] /\ toServer'[d] = toServer[d]
    BY DEF Recv, SInv, Shape
  <1>3. toServer[c] \in Seq(Messages) /\ Talk(c)  BY DEF SInv, Shape
  <1>4. CASE toServer[c] = << >>
    <2>1. Closed(c) /\ handler'[c] = NoHandler /\ toServer' = toServer
      BY <1>4 DEF Recv, SInv, Shape
    <2>2. Shape'
      <3>1. DOMAIN handler' = Clients  BY <1>4 DEF Recv, SInv, Shape
      <3>2. {"pc", "op"} \subseteq DOMAIN handler'[c]  BY <2>1 DEF NoHandler
      <3> QED BY <1>2, <2>1, <3>1, <3>2 DEF SInv, Shape
    <2>3. Talk(c)'
      BY <1>2, <1>3, <2>1 DEF Talk, LoginFirst, OneRequest, Closed, NoHandler
    <2> QED BY <1>2, <2>2, <2>3, OneConnection
  <1>5. CASE toServer[c] # << >>
    <2> DEFINE s == toServer[c]
               t == Tail(s)
               op == Head(s)
    <2>1. toServer'[c] = t /\ handler'[c] = Received(handler[c], op)
      BY <1>5 DEF Recv, SInv, Shape
    <2>2. /\ t \in Seq(Messages) /\ Len(s) \in Nat /\ Len(s) > 0 /\ Len(t) = Len(s) - 1
          /\ op = s[1] /\ op \in Messages
          /\ \A i \in 1 .. Len(t) : t[i] = s[i + 1]
      BY <1>3, <1>5
    <2>3. Shape'
      <3>1. DOMAIN handler' = Clients  BY <1>5 DEF Recv, SInv, Shape
      <3>2. {"pc", "op"} \subseteq DOMAIN handler'[c]
        BY <2>1 DEF SInv, Shape, Received, NoHandler, Spinning
      <3>3. toServer' \in [Clients -> Seq(Messages)]
        BY <1>5, <2>2 DEF Recv, SInv, Shape
      <3> QED BY <1>2, <3>1, <3>2, <3>3 DEF SInv, Shape
    <2>4. handler'[c].pc # "login" /\ handler'[c].pc # "add"
      BY <2>1 DEF Received, NoHandler, Spinning, SInv, Shape
    <2>5. handler'[c].pc = "serve" => handler'[c].op = op
      BY <2>1 DEF Received, NoHandler, Spinning, SInv, Shape
    <2>6. client[c].pc # "login"  BY <1>1, <1>3, <1>5 DEF Talk, LoginFirst
    <2>7. LoginFirst(c)'  BY <1>2, <2>4, <2>6 DEF LoginFirst
    <2> HIDE DEF s, t, op
    <2>8. ~AtWork(c)  BY <1>1 DEF AtWork
    <2>9. AtWork(c)' => handler'[c].op = op  BY <2>4, <2>5 DEF AtWork
    <2>10. OnlyFlushes(s) => op = "flush" /\ OnlyFlushes(t)  BY <2>2 DEF OnlyFlushes
    <2>11. ASSUME client[c].pc = "wait", ~OnlyFlushes(s),
                  s[Len(s)] = client[c].op,
                  \A i \in 1 .. Len(s) - 1 : s[i] = "flush"
           PROVE  \/ op = client[c].op /\ OnlyFlushes(t)
                  \/ /\ op = "flush" /\ t # << >> /\ t[Len(t)] = client[c].op
                     /\ \A i \in 1 .. Len(t) - 1 : t[i] = "flush"
      <3>1. CASE Len(s) = 1  BY <2>2, <2>11, <3>1 DEF OnlyFlushes
      <3>2. CASE Len(s) > 1
        <4>1. op = "flush"  BY <2>2, <2>11, <3>2
        <4>2. Len(t) > 0 /\ t # << >>
          <5>1. Len(s) \in Nat /\ Len(t) = Len(s) - 1  BY <2>2
          <5>2. Len(t) > 0  BY <3>2, <5>1
          <5>3. t = << >> => Len(t) = 0  BY EmptySeq
          <5> QED BY <5>2, <5>3
        <4>3. t[Len(t)] = client[c].op  BY <2>2, <2>11, <4>2
        <4>4. \A i \in 1 .. Len(t) - 1 : t[i] = "flush"  BY <2>2, <2>11
        <4> QED BY <4>1, <4>2, <4>3, <4>4
      <3>3. Len(s) = 1 \/ Len(s) > 1
        <4>1. Len(s) \in Nat /\ Len(s) > 0  BY <2>2
        <4>2. \A n \in Nat : n > 0 => n = 1 \/ n > 1  OBVIOUS
        <4> QED BY <4>1, <4>2
      <3> QED BY <3>1, <3>2, <3>3
    <2>12. OneRequest(c)
      BY <1>3 DEF Talk
    <2>13. ASSUME client[c].pc = "ready" PROVE OneRequest(c)'
      BY <1>2, <2>1, <2>9, <2>10, <2>12, <2>13 DEF OneRequest, Closed, s
    <2>14. ASSUME client[c].pc = "wait" PROVE OneRequest(c)'
      <3>1. OnlyFlushes(s) \/ (/\ s[Len(s)] = client[c].op /\ toClient[c] = << >>
                               /\ \A i \in 1 .. Len(s) - 1 : s[i] = "flush")
        BY <2>12, <2>14 DEF OneRequest, s
      <3>2. CASE OnlyFlushes(s)
        <4>1. toClient[c] \in {<< >>, <<client[c].op>>}
          BY <2>8, <2>12, <2>14 DEF OneRequest
        <4> QED BY <1>2, <2>1, <2>9, <2>10, <2>12, <2>14, <3>2, <4>1 DEF OneRequest, Closed
      <3>3. CASE ~OnlyFlushes(s)
        <4>1. \/ op = client[c].op /\ OnlyFlushes(t)
              \/ /\ op = "flush" /\ t # << >> /\ t[Len(t)] = client[c].op
                 /\ \A i \in 1 .. Len(t) - 1 : t[i] = "flush"
          BY <2>11, <2>14, <3>1, <3>3
        <4>2. toClient[c] = << >>  BY <3>1, <3>3
        <4> QED BY <1>2, <2>1, <2>9, <2>12, <2>14, <4>1, <4>2 DEF OneRequest, Closed
      <3> QED BY <3>2, <3>3
    <2>15. ASSUME client[c].pc = "out" PROVE OneRequest(c)'
      BY <1>2, <2>12, <2>15 DEF OneRequest, Closed
    <2>16. client[c].pc \in {"out", "login", "ready", "wait"}  BY DEF SInv, Shape
    <2>17. Talk(c)'  BY <2>6, <2>7, <2>13, <2>14, <2>15, <2>16 DEF Talk, OneRequest, Closed
    <2> QED BY <1>2, <2>3, <2>17, OneConnection
  <1> QED BY <1>4, <1>5

\* A request is answered, or not, and the handler goes on.
LEMMA AnsweredKeeps ==
    ASSUME SInv, NEW c \in Clients, AtWork(c), Shape',
           client' = client, toServer' = toServer, Respond(c),
           handler'[c].pc \notin {"login", "serve", "add"},
           \A d \in Clients \ {c} : handler'[d].pc = handler[d].pc /\ handler'[d].op = handler[d].op
    PROVE  SInv'
  <1>1. \A d \in Clients \ {c} : toClient'[d] = toClient[d]
    BY DEF Respond, Reply, SInv, Shape
  <1>2. Talk(c)  BY DEF SInv
  <1>3. client[c].pc # "login" /\ ~AtWork(c)'  BY <1>2 DEF Talk, LoginFirst, AtWork
  <1>4. LoginFirst(c)'  BY <1>3 DEF LoginFirst
  <1>5. OneRequest(c)'
    <2>1. CASE handler[c].op = "flush"
      <3>1. toClient' = toClient  BY <2>1 DEF Respond, Answers
      <3>2. client[c].pc = "wait" => client[c].op # "flush"  BY <1>2 DEF Talk, OneRequest
      <3> QED BY <1>2, <1>3, <2>1, <3>1, <3>2 DEF Talk, OneRequest, Closed, OnlyFlushes
    <2>2. CASE handler[c].op # "flush"
      <3>1. client[c].pc \in {"out", "wait"}
        BY <1>2, <1>3, <2>2 DEF Talk, OneRequest, SInv, Shape
      <3>2. CASE client[c].pc = "out"
        <4>1. toClient' = toClient  BY <3>2 DEF Respond, Reply, Closed
        <4> QED BY <1>2, <3>2, <4>1 DEF Talk, OneRequest, Closed
      <3>3. CASE client[c].pc = "wait"
        <4>1. /\ OnlyFlushes(toServer[c]) /\ toClient[c] = << >>
              /\ handler[c].op = client[c].op /\ client[c].op \in Ops \ {"flush"}
          BY <1>2, <2>2, <3>3 DEF Talk, OneRequest
        <4>2. toClient'[c] = toClient[c] \/ toClient'[c] = Append(toClient[c], handler[c].op)
          BY DEF Respond, Reply, SInv, Shape
        <4>3. Append(<< >>, client[c].op) = <<client[c].op>>  OBVIOUS
        <4>4. toClient'[c] \in {<< >>, <<client[c].op>>}  BY <4>1, <4>2, <4>3
        <4> QED BY <1>3, <3>3, <4>1, <4>4 DEF OneRequest, Closed, OnlyFlushes
      <3> QED BY <3>1, <3>2, <3>3
    <2> QED BY <2>1, <2>2
  <1>6. Talk(c)'  BY <1>4, <1>5 DEF Talk
  <1> QED BY <1>1, <1>6, OneConnection

\* What is sent is a request's response.
LEMMA RespondShape ==
    ASSUME SInv, NEW c \in Clients, AtWork(c), Respond(c)
    PROVE  toClient' \in [Clients -> Seq(Messages \cup {"refused"})]
  <1>1. CASE Closed(c) \/ ~Answers(handler[c].op)
    BY <1>1 DEF Respond, Reply, SInv, Shape
  <1>2. CASE ~Closed(c) /\ Answers(handler[c].op)
    <2>1. Talk(c)  BY DEF SInv
    <2>2. client[c].pc = "wait"
      <3>1. client[c].pc \in {"out", "login", "ready", "wait"}  BY DEF SInv, Shape
      <3>2. client[c].pc # "login"  BY <2>1 DEF Talk, LoginFirst, AtWork
      <3>3. client[c].pc # "ready"  BY <1>2, <2>1 DEF Talk, OneRequest, Answers
      <3> QED BY <1>2, <3>1, <3>2, <3>3 DEF Closed
    <2>3. handler[c].op \in Ops
      BY <1>2, <2>1, <2>2 DEF Talk, OneRequest, Answers
    <2>4. Append(toClient[c], handler[c].op) \in Seq(Messages \cup {"refused"})
      BY <2>3 DEF SInv, Shape, Messages
    <2> QED BY <1>2, <2>4 DEF Respond, Reply, SInv, Shape
  <1> QED BY <1>1, <1>2

LEMMA ServeKeeps ==
    ASSUME SInv, NEW c \in Clients, Serve(c)
    PROVE  SInv'
  <1>1. AtWork(c) /\ Respond(c) /\ client' = client /\ toServer' = toServer
    BY DEF Serve, At, AtWork
  <1>2. /\ handler'[c].pc = "count" /\ DOMAIN handler' = Clients
        /\ {"pc", "op"} \subseteq DOMAIN handler'[c]
        /\ \A d \in Clients \ {c} : handler'[d] = handler[d]
    BY DEF Serve, Served, SInv, Shape
  <1>3. Shape'  BY <1>1, <1>2, RespondShape DEF SInv, Shape
  <1> QED BY <1>1, <1>2, <1>3, AnsweredKeeps

LEMMA ServeFormatKeeps ==
    ASSUME SInv, NEW c \in Clients, ServeFormat(c)
    PROVE  SInv'
  <1>1. AtWork(c) /\ Respond(c) /\ client' = client /\ toServer' = toServer
    BY DEF ServeFormat, At, AtWork
  <1>2. DOMAIN handler' = Clients  BY DEF ServeFormat, SInv, Shape
  <1>3. handler'[c] = AsRoot(handler[c])  BY DEF ServeFormat, SInv, Shape
  <1>4. handler'[c].pc = "count" /\ {"pc", "op"} \subseteq DOMAIN handler'[c]
    BY <1>3 DEF AsRoot, Served, SInv, Shape
  <1>5. \A d \in Clients \ {c} :
            \/ handler'[d] = handler[d]
            \/ handler'[d] = [handler[d] EXCEPT !.stale = handler[d].user # 0]
    BY DEF ServeFormat, SInv, Shape
  <1>6. \A d \in Clients \ {c} :
            /\ handler'[d].pc = handler[d].pc /\ handler'[d].op = handler[d].op
            /\ {"pc", "op"} \subseteq DOMAIN handler'[d]
    BY <1>5 DEF SInv, Shape
  <1>7. Shape'  BY <1>1, <1>2, <1>4, <1>6, RespondShape DEF SInv, Shape
  <1> QED BY <1>1, <1>4, <1>6, <1>7, AnsweredKeeps

LEMMA ServeAddUserKeeps ==
    ASSUME SInv, NEW c \in Clients, ServeAddUser(c)
    PROVE  SInv'
  <1>1. AtWork(c) /\ client' = client /\ toServer' = toServer
    BY DEF ServeAddUser, At, AtWork
  <1>2. /\ DOMAIN handler' = Clients /\ {"pc", "op"} \subseteq DOMAIN handler'[c]
        /\ \A d \in Clients \ {c} : handler'[d] = handler[d]
    BY DEF ServeAddUser, Served, SInv, Shape
  <1>3. CASE handler' = [handler EXCEPT ![c] = Served(@)] /\ Respond(c)
    <2>1. handler'[c].pc = "count"  BY <1>3 DEF Served, SInv, Shape
    <2>2. Shape'  BY <1>1, <1>2, <1>3, RespondShape DEF SInv, Shape
    <2> QED BY <1>1, <1>2, <1>3, <2>1, <2>2, AnsweredKeeps
  <1>4. CASE /\ handler' = [handler EXCEPT ![c].pc = "add", ![c].read = PlaceFor(users)]
             /\ toClient' = toClient
    <2>1. handler'[c].pc = "add" /\ handler'[c].op = handler[c].op
      BY <1>4 DEF SInv, Shape
    <2>2. Shape'  BY <1>1, <1>2, <1>4 DEF SInv, Shape
    <2>3. Talk(c)'
      BY <1>1, <1>4, <2>1
      DEF SInv, Talk, LoginFirst, OneRequest, AtWork, Closed, OnlyFlushes
    <2> QED BY <1>1, <1>2, <1>4, <2>2, <2>3, OneConnection
  <1> QED BY <1>3, <1>4 DEF ServeAddUser

LEMMA AddUserKeeps ==
    ASSUME SInv, NEW c \in Clients, AddUser(c)
    PROVE  SInv'
  <1>1. AtWork(c) /\ Respond(c) /\ client' = client /\ toServer' = toServer
    BY DEF AddUser, At, AtWork
  <1>2. /\ handler'[c].pc = "count" /\ DOMAIN handler' = Clients
        /\ {"pc", "op"} \subseteq DOMAIN handler'[c]
        /\ \A d \in Clients \ {c} : handler'[d] = handler[d]
    BY DEF AddUser, Served, SInv, Shape
  <1>3. Shape'  BY <1>1, <1>2, RespondShape DEF SInv, Shape
  <1> QED BY <1>1, <1>2, <1>3, AnsweredKeeps

-----------------------------------------------------------------------------
(* The server.                                                              *)

LEMMA ServerKeeps ==
    ASSUME SInv, Start \/ Stop \/ Crash \/ RemoveUser
    PROVE  SInv'
  <1>1. CASE Start \/ RemoveUser
    <2>1. client' = client /\ handler' = handler /\ toServer' = toServer /\ toClient' = toClient
      BY <1>1 DEF Start, RemoveUser
    <2>2. Shape'  BY <2>1 DEF SInv, Shape
    <2> QED BY <2>1, <2>2, NotTouched DEF SInv
  <1>2. CASE Stop \/ Crash
    <2>1. Disconnected  BY <1>2 DEF Stop, Crash
    <2>2. /\ client' = client /\ toClient' = toClient /\ DOMAIN handler' = Clients
          /\ \A c \in Clients : handler'[c] = NoHandler /\ toServer'[c] = << >>
          /\ toServer' \in [Clients -> Seq(Messages)]
      BY <2>1 DEF Disconnected
    <2>3. Shape'  BY <2>2 DEF SInv, Shape, NoHandler
    <2>4. ASSUME NEW c \in Clients PROVE Talk(c)'
      <3>1. handler'[c].pc = "none" /\ ~AtWork(c)'  BY <2>2 DEF NoHandler, AtWork
      <3>2. OnlyFlushes(toServer[c])'  BY <2>2 DEF OnlyFlushes
      <3> QED BY <2>2, <3>1, <3>2 DEF SInv, Talk, LoginFirst, OneRequest, Closed
    <2> QED BY <2>3, <2>4 DEF SInv
  <1> QED BY <1>1, <1>2

-----------------------------------------------------------------------------
LEMMA InitInv == Init => SInv
  <1> SUFFICES ASSUME Init PROVE SInv  OBVIOUS
  <1>1. Shape  BY DEF Init, Shape, NoClient, NoHandler
  <1>2. \A c \in Clients : Talk(c)
    BY DEF Init, Talk, LoginFirst, OneRequest, Closed, NoClient, NoHandler
  <1> QED BY <1>1, <1>2 DEF SInv

\* The invariant is kept by every step of the specification.
THEOREM Inductive == SInv /\ [Next]_vars => SInv'
  <1> SUFFICES ASSUME SInv, [Next]_vars PROVE SInv'  OBVIOUS
  <1>1. ASSUME NEW c \in Clients, Connect(c) \/ Ask(c) \/ LoggedIn(c) \/ Receive(c) \/ Leave(c)
        PROVE  SInv'
    BY <1>1, ConnectKeeps, AskKeeps, ReadKeeps, LeaveKeeps
  <1>2. ASSUME NEW c \in Clients,
               \/ HandleLogin(c) \/ LoginCut(c)
               \/ Count(c) \/ Counted(c) \/ Test(c) \/ Flush(c) \/ Recv(c)
        PROVE  SInv'
    BY <1>2, LoginKeeps, LoginCutKeeps, CounterKeeps, RecvKeeps
  <1>3. ASSUME NEW c \in Clients, Serve(c) \/ ServeFormat(c) \/ ServeAddUser(c) \/ AddUser(c)
        PROVE  SInv'
    BY <1>3, ServeKeeps, ServeFormatKeeps, ServeAddUserKeeps, AddUserKeeps
  <1>4. CASE Start \/ Stop \/ Crash \/ RemoveUser  BY <1>4, ServerKeeps
  <1>5. CASE UNCHANGED vars
    <2>1. client' = client /\ handler' = handler /\ toServer' = toServer /\ toClient' = toClient
      BY <1>5 DEF vars
    <2>2. Shape'  BY <2>1 DEF SInv, Shape
    <2> QED BY <2>1, <2>2, NotTouched DEF SInv
  <1> QED BY <1>1, <1>2, <1>3, <1>4, <1>5 DEF Next, Step

\* The invariant gives the property: what has come is one response, to what the
\* client asked.
LEMMA InvReplies == SInv => ReplyMatches
  <1> SUFFICES ASSUME SInv, NEW c \in Clients, toClient[c] # << >>
               PROVE  /\ client[c].pc \in {"login", "wait"}
                      /\ Len(toClient[c]) = 1
                      /\ toClient[c][1] \in {client[c].op}
                            \cup (IF client[c].pc = "login" THEN {"refused"} ELSE {})
    BY DEF ReplyMatches
  <1>1. Talk(c) /\ client[c].pc \in {"out", "login", "ready", "wait"}  BY DEF SInv, Shape
  <1>2. client[c].pc \in {"login", "wait"}  BY <1>1 DEF Talk, OneRequest, Closed
  <1>3. \/ client[c].pc = "login" /\ toClient[c] \in {<<client[c].op>>, <<"refused">>}
        \/ client[c].pc = "wait" /\ toClient[c] = <<client[c].op>>
    BY <1>1, <1>2 DEF Talk, LoginFirst, OneRequest
  <1>4. \A x : Len(<<x>>) = 1 /\ <<x>>[1] = x  OBVIOUS
  <1>5. CASE client[c].pc = "login"
    <2>1. toClient[c] = <<client[c].op>> \/ toClient[c] = <<"refused">>  BY <1>3, <1>5
    <2> QED BY <1>2, <1>4, <1>5, <2>1
  <1>6. CASE client[c].pc = "wait"
    <2>1. toClient[c] = <<client[c].op>>  BY <1>3, <1>6
    <2> QED BY <1>2, <1>4, <1>6, <2>1
  <1> QED BY <1>2, <1>5, <1>6

\* A client never takes a response for that to another request, however
\* requests that are answered and that are not follow each other, clients leave
\* and come back, and the server ends (handler of server.cc, main of client.cc).
THEOREM ReplyMatchesCorrect == Spec => []ReplyMatches
  <1>1. Init => SInv  BY InitInv
  <1>2. SInv /\ [Next]_vars => SInv'  BY Inductive
  <1>3. SInv => ReplyMatches  BY InvReplies
  <1> QED BY <1>1, <1>2, <1>3, PTL DEF Spec
-----------------------------------------------------------------------------
(* The users.                                                              *)

\* The types that the proof needs: a race, which is excused, may leave users
\* in any shape.
AllFields == {"pc", "op", "name", "user", "asked", "stale", "read"}
Fields == \A c \in Clients : AllFields \subseteq DOMAIN handler[c]

\* No handler runs without the server.
Down == ~up => \A c \in Clients : handler[c].pc = "none"

\* Records of which one is root's, and that have all ids that were given.
Holds(list, ids) ==
    list \in Seq(Users) /\ Len(list) > 0 /\ ids \subseteq 1 .. Len(list) - 1

Kept == ~excused =>
    /\ up => Holds(users, given)
    /\ ~up /\ records # NoFile => Holds(Loaded(records), given)

\* SessionUser of one handler.
NamedUser(c) ==
    /\ Session(c) /\ handler[c].user = 0 => handler[c].name = "root" \/ handler[c].asked
    /\ (Session(c) /\ ~handler[c].stale /\ ~excused /\ handler[c].user # 0) =>
          /\ handler[c].user \in Nat /\ handler[c].user < Len(users)
          /\ users[handler[c].user + 1].name = handler[c].name

UInv == SInv /\ Fields /\ Down /\ Kept /\ \A c \in Clients : NamedUser(c)

-----------------------------------------------------------------------------
(* The user file.                                                           *)

LEMMA RootAlone == Loaded(<< >>) = <<RootUser>> /\ Holds(<<RootUser>>, {})
  <1>1. RootUser \in Users  BY DEF Users
  <1> QED BY <1>1 DEF Loaded, Holds

\* The least of a set of places.
LEMMA LeastPlace ==
    ASSUME NEW n \in Nat, NEW S \in SUBSET (1 .. n), S # {}
    PROVE  (CHOOSE i \in S : \A j \in S : i <= j) \in S
  <1> DEFINE Below == OpToRel(<, Nat)
  <1>1. S \subseteq Nat  OBVIOUS
  <1>2. \E i \in S : \A j \in S : <<j, i>> \notin Below
    BY <1>1, NatLessThanWellFounded, WFMin, Zenon
  <1>3. \A i, j \in Nat : j < i => <<j, i>> \in Below  BY Zenon DEF OpToRel
  <1> HIDE DEF Below
  <1>4. PICK i \in S : \A j \in S : ~ (j < i)  BY <1>1, <1>2, <1>3, Zenon
  <1>5. \A j \in S : i <= j  BY <1>1, <1>4
  <1> QED BY <1>5

\* lookup answers with an id that has the name, or 0.
LEMMA LookupFinds ==
    ASSUME NEW list \in Seq(Users), NEW name, Lookup(list, name) # 0
    PROVE  /\ Lookup(list, name) \in Nat /\ Lookup(list, name) < Len(list)
           /\ list[Lookup(list, name) + 1].name = name
  <1> DEFINE S == Found(list, name)
             i == CHOOSE i \in S : \A j \in S : i <= j
  <1>1. S # {} /\ Lookup(list, name) = i - 1  BY DEF Lookup
  <1>2. S \in SUBSET (1 .. Len(list)) /\ Len(list) \in Nat  BY DEF Found
  <1>3. i \in S  BY <1>1, <1>2, LeastPlace
  <1>4. list[i].name = name  BY <1>3 DEF Found
  <1>5. i \in 1 .. Len(list)  BY <1>2, <1>3
  <1> HIDE DEF i
  <1>6. Lookup(list, name) + 1 = i  BY <1>1, <1>5
  <1> QED BY <1>1, <1>2, <1>4, <1>5, <1>6

\* push_back at the end keeps the records that are there, and their ids.
LEMMA PlacedBehind ==
    ASSUME NEW list, NEW ids, Holds(list, ids), NEW name \in UserNames,
           NEW new \in Placed(list, PlaceFor(list), name)
    PROVE  /\ Holds(new, ids \cup {Len(list)})
           /\ Len(new) = Len(list) + 1
           /\ new = list \o <<User(name)>>
  <1>1. list \in Seq(Users) /\ Len(list) \in Nat /\ Len(list) > 0 /\ ids \subseteq 1 .. Len(list) - 1
    BY DEF Holds
  <1>2. User(name) \in Users  BY DEF User, Users
  <1>3. SubSeq(list, 1, PlaceFor(list) - 1) = list
    <2>1. PlaceFor(list) - 1 = Len(list)  BY <1>1 DEF PlaceFor
    <2> QED BY <1>1, <2>1
  <1>4. PlaceFor(list) <= PlaceFor(list)  BY <1>1 DEF PlaceFor
  <1>5. new = list \o <<User(name)>>  BY <1>3, <1>4 DEF Placed
  <1>6. new \in Seq(Users) /\ Len(new) = Len(list) + 1
    BY <1>1, <1>2, <1>5
  <1>7. ids \cup {Len(list)} \subseteq 1 .. Len(new) - 1
    <2>1. Len(new) - 1 = Len(list) /\ Len(list) \in 1 .. Len(list)  BY <1>1, <1>6
    <2>2. 1 .. Len(list) - 1 \subseteq 1 .. Len(list)  BY <1>1
    <2> QED BY <1>1, <2>1, <2>2
  <1>8. Holds(new, ids \cup {Len(list)})  BY <1>1, <1>6, <1>7 DEF Holds
  <1> QED BY <1>5, <1>6, <1>8

LEMMA AddedBehind ==
    ASSUME Holds(users, given), NEW name \in UserNames,
           users' \in Placed(users, PlaceFor(users), name), given' = given \cup {Len(users)}
    PROVE  /\ Holds(users', given') /\ Len(users') = Len(users) + 1
           /\ \A i \in 1 .. Len(users) : users'[i] = users[i]
  <1>1. Holds(users', given \cup {Len(users)})  BY PlacedBehind, Zenon
  <1>2. Len(users') = Len(users) + 1  BY PlacedBehind, Zenon
  <1>3. users' = users \o <<User(name)>>  BY PlacedBehind, Zenon
  <1>4. users \in Seq(Users)  BY DEF Holds
  <1>5. \A i \in 1 .. Len(users) : users'[i] = users[i]  BY <1>3, <1>4
  <1> QED BY <1>1, <1>2, <1>5, Zenon

\* remove_user keeps every place.
LEMMA RemovedKeepsPlaces ==
    ASSUME NEW list, NEW ids, Holds(list, ids), NEW uid \in Nat
    PROVE  Holds(Removed(list, uid), ids) /\ Loaded(Removed(list, uid)) = Removed(list, uid)
  <1>1. list \in Seq(Users) /\ Len(list) \in Nat /\ Len(list) > 0  BY DEF Holds
  <1>2. CASE uid > 0 /\ uid < Len(list)
    <2>1. uid + 1 \in 1 .. Len(list)  BY <1>1, <1>2
    <2>2. list[uid + 1] \in Users  BY <1>1, <2>1
    <2>3. [list[uid + 1] EXCEPT !.live = FALSE] \in Users
      <3>1. CASE list[uid + 1] = RootUser
        <4> DEFINE u == [RootUser EXCEPT !.live = FALSE]
        <4>1. u \in [name : {"root"}, live : BOOLEAN] /\ u.name = "root" /\ u.live = FALSE
          BY DEF RootUser
        <4> HIDE DEF u
        <4>2. u = [name |-> u.name, live |-> u.live]  BY <4>1
        <4>3. u = RootUser  BY <4>1, <4>2 DEF RootUser
        <4> QED BY <3>1, <4>3 DEF Users, u
      <3>2. CASE list[uid + 1] \in [name : UserNames, live : BOOLEAN]
        BY <3>2 DEF Users
      <3> QED BY <2>2, <3>1, <3>2 DEF Users
    <2>4. Removed(list, uid) = [list EXCEPT ![uid + 1] = [@ EXCEPT !.live = FALSE]]
      BY <1>2 DEF Removed
    <2>5. Removed(list, uid) \in Seq(Users) /\ Len(Removed(list, uid)) = Len(list)
      BY <1>1, <2>1, <2>3, <2>4
    <2>6. Removed(list, uid) # << >>  BY <1>1, <2>5
    <2> QED BY <1>1, <2>5, <2>6 DEF Holds, Loaded
  <1>3. CASE ~(uid > 0 /\ uid < Len(list))
    <2>1. Removed(list, uid) = list /\ list # << >>  BY <1>1, <1>3 DEF Removed
    <2> QED BY <2>1 DEF Loaded
  <1> QED BY <1>2, <1>3

-----------------------------------------------------------------------------
(* Steps that leave the users alone.                                        *)

\* A handler that goes on for the same user, or for root, has no session, or
\* ends.
SameUser(c) ==
    /\ AllFields \subseteq DOMAIN handler'[c]
    /\ \/ handler'[c].user = 0 /\ (handler'[c].name = "root" \/ handler'[c].asked)
       \/ handler'[c].pc = "login"
       \/ /\ handler'[c].name = handler[c].name /\ handler'[c].user = handler[c].user
          /\ ~handler'[c].stale => ~handler[c].stale
          /\ handler'[c].asked = handler[c].asked
          /\ handler[c].pc \notin {"none", "login"}

LEMMA UsersAlone ==
    ASSUME UInv, SInv', UNCHANGED userVars, up' = up,
           \A c \in Clients : SameUser(c) \/ handler'[c] = handler[c],
           ~up => \A c \in Clients : handler'[c].pc = "none"
    PROVE  UInv'
  <1>1. Fields'  BY DEF UInv, Fields, SameUser, AllFields
  <1>2. Down'  BY DEF Down
  <1>3. Kept'  BY DEF UInv, Kept, Holds, userVars
  <1>4. ASSUME NEW c \in Clients PROVE NamedUser(c)'
    BY DEF UInv, NamedUser, SameUser, Session, userVars
  <1> QED BY <1>1, <1>2, <1>3, <1>4 DEF UInv

LEMMA ClientUsers ==
    ASSUME UInv, NEW c \in Clients,
           Connect(c) \/ Ask(c) \/ LoggedIn(c) \/ Receive(c) \/ Leave(c)
    PROVE  UInv'
  <1>1. SInv'  BY Inductive DEF UInv, Next
  <1>2. UNCHANGED userVars /\ up' = up
    BY DEF Connect, Ask, LoggedIn, Receive, Leave
  <1>3. CASE Connect(c)
    <2> PICK name \in UserNames \cup {"root"} : Connect(c)!(name)  BY <1>3 DEF Connect
    <2>1. handler'[c] = [NoHandler EXCEPT !.pc = "login", !.name = name]
          /\ \A d \in Clients \ {c} : handler'[d] = handler[d]
      BY DEF UInv, SInv, Shape
    <2>2. SameUser(c)  BY <2>1 DEF SameUser, AllFields, NoHandler
    <2> QED BY <1>1, <1>2, <2>1, <2>2, UsersAlone
  <1>4. CASE Ask(c) \/ LoggedIn(c) \/ Receive(c) \/ Leave(c)
    <2>1. handler' = handler  BY <1>4 DEF Ask, LoggedIn, Receive, Leave
    <2> QED BY <1>1, <1>2, <2>1, UsersAlone DEF UInv, Down
  <1> QED BY <1>3, <1>4

\* Steps of a handler on its own.
LEMMA HandlerUsers ==
    ASSUME UInv, NEW c \in Clients,
           LoginCut(c) \/ Count(c) \/ Counted(c) \/ Test(c) \/ Flush(c) \/ Recv(c) \/ Serve(c)
    PROVE  UInv'
  <1>1. SInv'  BY Inductive DEF UInv, Next, Step
  <1>2. UNCHANGED userVars /\ up' = up /\ up
    BY DEF LoginCut, Count, Counted, Test, Flush, Recv, Serve, At
  <1>3. \A d \in Clients \ {c} : handler'[d] = handler[d]
    BY DEF LoginCut, Count, Counted, Test, Flush, Recv, Serve, Goto, UInv, SInv, Shape
  <1>4. AllFields \subseteq DOMAIN handler[c]  BY DEF UInv, Fields, AllFields
  <1>5. c \in DOMAIN handler  BY DEF UInv, SInv, Shape
  <1>6. SameUser(c)
    <2>1. CASE Count(c)
      BY <1>4, <1>5, <2>1 DEF Count, At, SameUser, AllFields
    <2>2. CASE Counted(c)
      BY <1>4, <1>5, <2>2 DEF Counted, At, SameUser, AllFields
    <2>3. CASE Flush(c)
      BY <1>4, <1>5, <2>3 DEF Flush, Goto, At, SameUser, AllFields
    <2>4. CASE Recv(c)
      <3>1. handler'[c] = NoHandler \/ handler'[c] = Received(handler[c], Head(toServer[c]))
        BY <1>5, <2>4 DEF Recv
      <3>2. handler[c].pc = "recv"  BY <2>4 DEF Recv, At
      <3>3. CASE handler'[c] = NoHandler
        BY <3>3 DEF SameUser, AllFields, NoHandler
      <3>4. ASSUME NEW op, handler'[c] = Received(handler[c], op) PROVE SameUser(c)
        <4>1. CASE op \in {"exit", "torn"}
          <5>1. handler'[c] \in {NoHandler, Spinning}  BY <3>4, <4>1 DEF Received
          <5> QED BY <5>1 DEF SameUser, AllFields, NoHandler, Spinning
        <4>2. CASE op \notin {"exit", "torn"}
          BY <1>4, <3>2, <3>4, <4>2 DEF SameUser, AllFields, Received
        <4> QED BY <4>1, <4>2
      <3> QED BY <3>1, <3>3, <3>4
    <2>5. CASE Serve(c)
      BY <1>4, <1>5, <2>5 DEF Serve, Served, At, SameUser, AllFields
    <2>6. CASE Test(c)
      BY <1>4, <1>5, <2>6 DEF Test, At, SameUser, AllFields
    <2>7. CASE LoginCut(c)
      <3>1. handler'[c] \in {NoHandler, Spinning}  BY <1>5, <2>7 DEF LoginCut
      <3> QED BY <3>1 DEF SameUser, AllFields, NoHandler, Spinning
    <2> QED BY <2>1, <2>2, <2>3, <2>4, <2>5, <2>6, <2>7
  <1> QED BY <1>1, <1>2, <1>3, <1>6, UsersAlone

-----------------------------------------------------------------------------
(* Steps that look at the users, or change them.                            *)

LEMMA LoginUsers == ASSUME UInv, NEW c \in Clients, HandleLogin(c) PROVE UInv'
  <1> DEFINE h == handler[c]
             uid == IF h.name = "root" THEN 0 ELSE Lookup(users, h.name)
             ok == h.name = "root" \/ uid # 0
  <1>1. SInv'  BY Inductive DEF UInv, Next, Step
  <1>2. UNCHANGED userVars /\ up' = up /\ up  BY DEF HandleLogin, At
  <1>3. \A d \in Clients \ {c} : handler'[d] = handler[d]
    BY DEF HandleLogin, UInv, SInv, Shape
  <1>4. handler'[c] = IF ok THEN [h EXCEPT !.pc = "count", !.user = uid] ELSE NoHandler
    BY DEF HandleLogin, UInv, SInv, Shape
  <1>5. AllFields \subseteq DOMAIN h  BY DEF UInv, Fields, AllFields
  <1>6. CASE ~ok \/ uid = 0
    <2>1. CASE ~ok
      <3>1. handler'[c] = NoHandler  BY <1>4, <2>1
      <3> QED BY <1>1, <1>2, <1>3, <3>1, UsersAlone DEF SameUser, AllFields, NoHandler
    <2>2. CASE ok /\ uid = 0
      <3>1. h.name = "root" /\ handler'[c] = [h EXCEPT !.pc = "count", !.user = uid]
        BY <1>4, <2>2
      <3> HIDE DEF h, uid, ok
      <3>2. SameUser(c)  BY <1>5, <2>2, <3>1 DEF SameUser, AllFields
      <3> QED BY <1>1, <1>2, <1>3, <3>2, UsersAlone
    <2> QED BY <1>6, <2>1, <2>2
  <1>7. CASE ok /\ uid # 0
    <2>1. uid = Lookup(users, h.name)  BY <1>7
    <2>2. handler'[c].user = uid /\ handler'[c].name = h.name
          /\ AllFields \subseteq DOMAIN handler'[c]
      BY <1>4, <1>5, <1>7 DEF AllFields
    <2> HIDE DEF h, uid, ok
    <2>3. Fields'
      BY <1>3, <2>2 DEF UInv, Fields, AllFields
    <2>4. Down' /\ Kept'  BY <1>2 DEF UInv, Down, Kept, Holds, userVars
    <2>5. NamedUser(c)'
      <3>1. CASE excused  BY <1>2, <1>7, <2>2, <3>1 DEF NamedUser, userVars
      <3>2. CASE ~excused
        <4>1. users \in Seq(Users)  BY <1>2, <3>2 DEF UInv, Kept, Holds
        <4>2. uid \in Nat /\ uid < Len(users) /\ users[uid + 1].name = h.name
          BY <1>7, <2>1, <4>1, LookupFinds
        <4> QED BY <1>2, <1>7, <2>2, <4>2 DEF NamedUser, userVars
      <3> QED BY <3>1, <3>2
    <2>6. \A d \in Clients \ {c} : NamedUser(d)'
      BY <1>2, <1>3 DEF UInv, NamedUser, Session, userVars
    <2> QED BY <1>1, <2>3, <2>4, <2>5, <2>6 DEF UInv
  <1> QED BY <1>6, <1>7

\* A format makes a session of another user stale.
LEMMA FormatUsers == ASSUME UInv, NEW c \in Clients, ServeFormat(c) PROVE UInv'
  <1>1. SInv'  BY Inductive DEF UInv, Next, Step
  <1>2. up' = up /\ up  BY DEF ServeFormat, At
  <1>3. \A d \in Clients : AllFields \subseteq DOMAIN handler[d]
    BY DEF UInv, Fields, AllFields
  <1>4. handler'[c] = AsRoot(handler[c])  BY DEF ServeFormat, UInv, SInv, Shape
  <1>5. /\ handler'[c].user = 0 /\ handler'[c].asked
        /\ AllFields \subseteq DOMAIN handler'[c]
    BY <1>3, <1>4 DEF AsRoot, Served, AllFields
  <1>6. CASE handler' = [handler EXCEPT ![c] = AsRoot(@)] /\ UNCHANGED userVars
    <2>1. SameUser(c)  BY <1>5 DEF SameUser
    <2>2. \A d \in Clients \ {c} : handler'[d] = handler[d]
      BY <1>6 DEF UInv, SInv, Shape
    <2> QED BY <1>1, <1>2, <1>6, <2>1, <2>2, UsersAlone
  <1>7. CASE /\ handler' = [d \in Clients |->
                   IF d = c THEN AsRoot(handler[c])
                   ELSE [handler[d] EXCEPT !.stale = handler[d].user # 0]]
             /\ users' = Loaded(<< >>) /\ records' = NoFile
             /\ given' = {} /\ excused' = FALSE
    <2>1. ASSUME NEW d \in Clients \ {c}
          PROVE  /\ AllFields \subseteq DOMAIN handler'[d]
                 /\ handler'[d].user = 0 \/ handler'[d].stale
                 /\ handler'[d].pc = handler[d].pc /\ handler'[d].user = handler[d].user
                 /\ handler'[d].name = handler[d].name /\ handler'[d].asked = handler[d].asked
      <3>1. handler'[d] = [handler[d] EXCEPT !.stale = handler[d].user # 0]  BY <1>7
      <3>2. handler'[d].stale = (handler[d].user # 0) /\ handler'[d].user = handler[d].user
        BY <1>3, <3>1 DEF AllFields
      <3> QED BY <1>3, <3>1, <3>2 DEF AllFields
    <2>2. Fields'  BY <1>5, <2>1 DEF Fields, AllFields
    <2>3. Down'  BY <1>2 DEF Down
    <2>4. Kept'  BY <1>2, <1>7, RootAlone DEF Kept
    <2>5. NamedUser(c)'  BY <1>5 DEF NamedUser
    <2>6. ASSUME NEW d \in Clients \ {c} PROVE NamedUser(d)'
      <3>1. NamedUser(d)  BY DEF UInv
      <3> QED BY <2>1, <3>1 DEF NamedUser, Session
    <2> QED BY <1>1, <2>2, <2>3, <2>4, <2>5, <2>6 DEF UInv
  <1> QED BY <1>6, <1>7 DEF ServeFormat

LEMMA ServeAddUsers == ASSUME UInv, NEW c \in Clients, ServeAddUser(c) PROVE UInv'
  <1>1. SInv'  BY Inductive DEF UInv, Next, Step
  <1>2. UNCHANGED userVars /\ up' = up /\ up  BY DEF ServeAddUser, At
  <1>3. \A d \in Clients \ {c} : handler'[d] = handler[d]
    BY DEF ServeAddUser, UInv, SInv, Shape
  <1>4. AllFields \subseteq DOMAIN handler[c] /\ c \in DOMAIN handler
    BY DEF UInv, Fields, AllFields, SInv, Shape
  <1>5. SameUser(c)
    <2>1. handler[c].pc = "serve"  BY DEF ServeAddUser, At
    <2>2. CASE handler' = [handler EXCEPT ![c] = Served(@)]
      BY <1>4, <2>1, <2>2 DEF Served, SameUser, AllFields
    <2>3. CASE handler' = [handler EXCEPT ![c].pc = "add", ![c].read = PlaceFor(users)]
      BY <1>4, <2>1, <2>3 DEF SameUser, AllFields
    <2> QED BY <2>2, <2>3 DEF ServeAddUser
  <1> QED BY <1>1, <1>2, <1>3, <1>5, UsersAlone

\* A new user is put behind the others, or there was a race.
LEMMA AddUsers == ASSUME UInv, NEW c \in Clients, AddUser(c) PROVE UInv'
  <1> PICK name \in UserNames : AddUser(c)!(name)  BY DEF AddUser
  <1> DEFINE place == handler[c].read
  <1>1. SInv'  BY Inductive DEF UInv, Next, Step, AddUser
  <1>2. up' = up /\ up  BY DEF At
  <1>3. \A d \in Clients \ {c} : handler'[d] = handler[d]
    BY DEF UInv, SInv, Shape
  <1>4. AllFields \subseteq DOMAIN handler[c] /\ c \in DOMAIN handler
    BY DEF UInv, Fields, AllFields, SInv, Shape
  <1>5. /\ AllFields \subseteq DOMAIN handler'[c]
        /\ handler'[c].user = handler[c].user /\ handler'[c].name = handler[c].name
        /\ handler'[c].stale = handler[c].stale /\ handler'[c].asked = handler[c].asked
        /\ Session(c)
    BY <1>4 DEF Served, AllFields, At, Session
  <1>6. Fields'  BY <1>3, <1>5 DEF UInv, Fields, AllFields
  <1>7. Down'  BY <1>2 DEF Down
  <1>8. CASE excused'
    <2>1. ASSUME NEW d \in Clients PROVE NamedUser(d)'
      <3>1. /\ handler'[d].user = handler[d].user /\ handler'[d].name = handler[d].name
            /\ handler'[d].asked = handler[d].asked /\ (Session(d)' => Session(d))
        BY <1>3, <1>5 DEF Session
      <3>2. NamedUser(d)  BY DEF UInv
      <3> QED BY <1>8, <3>1, <3>2 DEF NamedUser
    <2> QED BY <1>1, <1>6, <1>7, <1>8, <2>1 DEF UInv, Kept
  <1>9. CASE ~excused'
    <2>1. ~excused /\ place = PlaceFor(users)  BY <1>9
    <2>2. Holds(users, given)  BY <1>2, <2>1 DEF UInv, Kept
    <2>3. Len(users) \in Nat  BY <2>2 DEF Holds
    <2>4. place - 1 = Len(users)  BY <2>1, <2>3 DEF PlaceFor
    <2>5. users' \in Placed(users, PlaceFor(users), name) /\ given' = given \cup {Len(users)}
      BY <2>1, <2>4
    <2>6. /\ Holds(users', given') /\ Len(users') = Len(users) + 1
          /\ \A i \in 1 .. Len(users) : users'[i] = users[i]
      BY <2>2, <2>5, AddedBehind, Zenon
    <2>7. Kept'  BY <1>2, <2>6 DEF Kept
    <2>8. ASSUME NEW d \in Clients PROVE NamedUser(d)'
      <3>1. /\ handler'[d].user = handler[d].user /\ handler'[d].name = handler[d].name
            /\ handler'[d].stale = handler[d].stale /\ handler'[d].asked = handler[d].asked
            /\ (Session(d)' => Session(d))
        BY <1>3, <1>5 DEF Session
      <3>2. NamedUser(d)  BY DEF UInv
      <3>3. \A i \in Nat : i < Len(users) => i + 1 \in 1 .. Len(users) /\ i < Len(users')
        BY <2>3, <2>6
      <3> QED BY <2>1, <2>6, <3>1, <3>2, <3>3 DEF NamedUser
    <2> QED BY <1>1, <1>6, <1>7, <2>7, <2>8 DEF UInv
  <1> QED BY <1>8, <1>9

-----------------------------------------------------------------------------
(* The server comes and goes.                                               *)

\* While it is down there is nobody to name.
LEMMA NobodyThere ==
    ASSUME \A c \in Clients : handler'[c].pc = "none"
    PROVE  \A c \in Clients : NamedUser(c)'
BY DEF NamedUser, Session

LEMMA StartUsers == ASSUME UInv, Start PROVE UInv'
  <1>1. SInv'  BY Inductive DEF UInv, Next
  <1>2. up' /\ ~up /\ handler' = handler  BY DEF Start
  <1>3. \A c \in Clients : handler'[c].pc = "none"  BY <1>2 DEF UInv, Down
  <1>4. Fields'  BY <1>2 DEF UInv, Fields
  <1>5. Down'  BY <1>2 DEF Down
  <1>6. Kept'
    <2>1. CASE users' = Loaded(<< >>) /\ given' = {}
      BY <1>2, <2>1, RootAlone DEF Kept
    <2>2. CASE records # NoFile /\ users' = Loaded(records) /\ given' = given /\ excused' = excused
      BY <1>2, <2>2 DEF UInv, Kept
    <2> QED BY <2>1, <2>2 DEF Start
  <1> QED BY <1>1, <1>3, <1>4, <1>5, <1>6, NobodyThere DEF UInv

LEMMA EndUsers == ASSUME UInv, Stop \/ Crash PROVE UInv'
  <1>1. SInv'  BY Inductive DEF UInv, Next
  <1>2. Disconnected  BY DEF Stop, Crash
  <1>3. up /\ ~up' /\ given' = given  BY <1>2 DEF Disconnected
  <1>4. \A c \in Clients : handler'[c] = NoHandler  BY <1>2 DEF Disconnected
  <1>5. \A c \in Clients : handler'[c].pc = "none"  BY <1>4 DEF NoHandler
  <1>6. Fields'  BY <1>4 DEF Fields, AllFields, NoHandler
  <1>7. Down'  BY <1>5 DEF Down
  <1>8. Kept'
    <2> SUFFICES ASSUME ~excused', records' # NoFile PROVE Holds(Loaded(records'), given')
      BY <1>3 DEF Kept
    <2>1. CASE Stop
      <3>1. ~excused /\ records' = users  BY <2>1 DEF Stop
      <3>2. Holds(users, given)  BY <1>3, <3>1 DEF UInv, Kept
      <3>3. users # << >>  BY <3>2 DEF Holds
      <3>4. Loaded(records') = users  BY <3>1, <3>3 DEF Loaded
      <3> QED BY <1>3, <3>2, <3>4
    <2>2. CASE Crash
      <3>1. ~excused /\ records' = records /\ Loaded(records) = users  BY <2>2 DEF Crash
      <3>2. Holds(users, given)  BY <1>3, <3>1 DEF UInv, Kept
      <3> QED BY <1>3, <3>1, <3>2
    <2> QED BY <2>1, <2>2
  <1> QED BY <1>1, <1>5, <1>6, <1>7, <1>8, NobodyThere DEF UInv

LEMMA RemoveUsers == ASSUME UInv, RemoveUser PROVE UInv'
  <1>1. SInv'  BY Inductive DEF UInv, Next
  <1>2. ~up /\ ~up' /\ handler' = handler /\ given' = given /\ excused' = excused
    BY DEF RemoveUser
  <1>3. \A c \in Clients : handler'[c].pc = "none"  BY <1>2 DEF UInv, Down
  <1>4. Fields' /\ Down'  BY <1>2, <1>3 DEF UInv, Fields, Down
  <1>5. Kept'
    <2> SUFFICES ASSUME ~excused PROVE Holds(Loaded(records'), given)
      BY <1>2 DEF Kept
    <2>1. PICK uid \in 1 .. MaxUsers : records # NoFile /\ records' = Removed(Loaded(records), uid)
      BY DEF RemoveUser
    <2>2. Holds(Loaded(records), given) /\ uid \in Nat
      BY <1>2, <2>1, ServiceAssumption DEF UInv, Kept
    <2> QED BY <2>1, <2>2, RemovedKeepsPlaces
  <1> QED BY <1>1, <1>3, <1>4, <1>5, NobodyThere DEF UInv

-----------------------------------------------------------------------------
LEMMA InitUsers == Init => UInv
  <1> SUFFICES ASSUME Init PROVE UInv  OBVIOUS
  <1>1. SInv  BY InitInv
  <1>2. Fields /\ Down /\ \A c \in Clients : NamedUser(c)
    BY DEF Init, Fields, AllFields, Down, NamedUser, Session, NoHandler
  <1>3. Kept  BY DEF Init, Kept
  <1> QED BY <1>1, <1>2, <1>3 DEF UInv

\* The invariant is kept by every step of the specification.
THEOREM UsersInductive == UInv /\ [Next]_vars => UInv'
  <1> SUFFICES ASSUME UInv, [Next]_vars PROVE UInv'  OBVIOUS
  <1>1. ASSUME NEW c \in Clients, Connect(c) \/ Ask(c) \/ LoggedIn(c) \/ Receive(c) \/ Leave(c)
        PROVE  UInv'
    BY <1>1, ClientUsers
  <1>2. ASSUME NEW c \in Clients, Step(c) PROVE UInv'
    BY <1>2, HandlerUsers, LoginUsers, FormatUsers, ServeAddUsers, AddUsers DEF Step
  <1>3. CASE Start \/ Stop \/ Crash \/ RemoveUser
    BY <1>3, StartUsers, EndUsers, RemoveUsers
  <1>4. CASE UNCHANGED vars
    <2>1. SInv'  BY <1>4, Inductive DEF UInv
    <2>2. UNCHANGED userVars /\ up' = up /\ handler' = handler  BY <1>4 DEF vars, userVars
    <2> QED BY <2>1, <2>2, UsersAlone DEF UInv, Down
  <1> QED BY <1>1, <1>2, <1>3, <1>4 DEF Next

\* The invariant holds in every reachable state.
THEOREM UsersInvariance == Spec => []UInv
  <1>1. Init => UInv  BY InitUsers
  <1>2. UInv /\ [Next]_vars => UInv'  BY UsersInductive
  <1> QED BY <1>1, <1>2, PTL DEF Spec

\* Whoever logged in under a name acts with an id that this name has, and with
\* root's only as root or after asking for a format, for any number of
\* sessions, users and restarts (open_working_dir, lookup).
THEOREM SessionUserCorrect == Spec => []SessionUser
  <1>1. UInv => SessionUser  BY DEF UInv, NamedUser, SessionUser
  <1> QED BY <1>1, UsersInvariance, PTL

\* No id that one user had is given to another, whatever users were removed
\* and however often the server was restarted (add_user, remove_user).
THEOREM IdsGivenOnceCorrect == Spec => IdsGivenOnce
  <1> DEFINE Once == \A c \in Clients : AddUser(c) => excused' \/ handler[c].read - 1 \notin given
  <1>1. UInv => Once
    <2> SUFFICES ASSUME UInv, NEW c \in Clients, AddUser(c), ~excused'
                 PROVE  handler[c].read - 1 \notin given
      OBVIOUS
    <2>1. up /\ ~excused /\ handler[c].read = PlaceFor(users)  BY DEF AddUser, At
    <2>2. Holds(users, given)  BY <2>1 DEF UInv, Kept
    <2>3. given \subseteq 1 .. Len(users) - 1 /\ Len(users) \in Nat  BY <2>2 DEF Holds
    <2>4. handler[c].read - 1 = Len(users)  BY <2>1, <2>3 DEF PlaceFor
    <2> QED BY <2>3, <2>4
  <1>2. IdsGivenOnce <=> [][Once]_vars  BY DEF IdsGivenOnce
  <1> HIDE DEF Once
  <1> QED BY <1>1, <1>2, UsersInvariance, PTL

-----------------------------------------------------------------------------
(* TypeOK: races, full disks and crashes included, no place is given beyond *)
(* the bound and the records have their types.                              *)

Handlers ==
    [pc : {"none", "login", "count", "counted", "test", "flush", "recv", "serve", "add",
           "spin"},
     op : Ops \cup {"none"}, name : UserNames \cup {"root"},
     user : 0 .. MaxUsers - 1, asked : BOOLEAN, stale : BOOLEAN, read : Int]
Requests == Ops \cup {"exit", "torn"}
Responses == Ops \cup {"login", "refused"}

\* What the fields of a handler mean where they are used, and what it may
\* find in its queue after the login.
Meaning(h, queue) ==
    /\ h.pc = "counted" => h.read \in -1 .. FlushInterval
    /\ h.pc = "add" => h.read \in 2 .. MaxUsers
    /\ h.pc \in {"serve", "add"} => h.op \in Ops
    /\ h.pc # "login" => queue \in Seq(Requests)

\* Records that there is room for, of which one is root's.
List(s) == s \in Seq(Users) /\ Len(s) \in 1 .. MaxUsers

TInv ==
    /\ TypeOK
    /\ up => List(users)
    /\ records # NoFile => records \in Seq(Users) /\ Len(records) <= MaxUsers
    /\ \A c \in Clients : Meaning(handler[c], toServer[c])

\* TypeOK, in two parts.
UserTypes ==
    /\ excused \in BOOLEAN
    /\ users \in Seq(Users) /\ Len(users) <= MaxUsers
    /\ records \in {NoFile} \cup Seq(Users)
    /\ given \subseteq 1 .. MaxUsers - 1

LEMMA Typed ==
    ASSUME UserTypes', up' \in BOOLEAN, counter' \in -1 .. FlushInterval,
           client' \in [Clients -> [pc : {"out", "login", "ready", "wait"},
                                    op : Ops \cup {"none", "login"}]],
           handler' \in [Clients -> Handlers],
           toServer' \in [Clients -> Seq(Ops \cup {"login", "exit", "torn"})],
           toClient' \in [Clients -> Seq(Responses)]
    PROVE  TypeOK'
BY DEF TypeOK, UserTypes, Handlers, Responses

\* A step that leaves the users alone.
LEMMA TypesStay ==
    ASSUME TInv, UNCHANGED <<up, userVars>>, counter' \in -1 .. FlushInterval,
           client' \in [Clients -> [pc : {"out", "login", "ready", "wait"},
                                    op : Ops \cup {"none", "login"}]],
           handler' \in [Clients -> Handlers],
           toServer' \in [Clients -> Seq(Ops \cup {"login", "exit", "torn"})],
           toClient' \in [Clients -> Seq(Responses)],
           \A c \in Clients : Meaning(handler'[c], toServer'[c])
    PROVE  TInv'
  <1>1. TypeOK'  BY DEF TInv, TypeOK, userVars, Handlers, Responses
  <1> QED BY <1>1 DEF TInv, List, userVars

LEMMA TypeFacts ==
    ASSUME TInv
    PROVE  /\ up \in BOOLEAN /\ counter \in -1 .. FlushInterval
           /\ client \in [Clients -> [pc : {"out", "login", "ready", "wait"},
                                      op : Ops \cup {"none", "login"}]]
           /\ handler \in [Clients -> Handlers]
           /\ toServer \in [Clients -> Seq(Ops \cup {"login", "exit", "torn"})]
           /\ toClient \in [Clients -> Seq(Responses)]
BY DEF TInv, TypeOK, Handlers, Responses

LEMMA NoHandlerTyped ==
    /\ NoHandler \in Handlers /\ Spinning \in Handlers
    /\ \A s \in Seq(Requests) : Meaning(NoHandler, s) /\ Meaning(Spinning, s)
  <1>1. NoHandler \in Handlers /\ Spinning \in Handlers
    <2>1. NoHandler \in Handlers  BY ServiceAssumption DEF NoHandler, Handlers
    <2>2. Spinning \in Handlers  BY <2>1 DEF Spinning, Handlers
    <2> QED BY <2>1, <2>2
  <1>2. NoHandler.pc = "none" /\ Spinning.pc = "spin"  BY DEF NoHandler, Spinning
  <1>3. \A h, s : h.pc \in {"none", "spin"} /\ s \in Seq(Requests) => Meaning(h, s)
    BY DEF Meaning
  <1> QED BY <1>1, <1>2, <1>3

\* A handler goes to another place and sets the number it keeps.
LEMMA Moved ==
    ASSUME NEW h \in Handlers, NEW n \in Int,
           NEW pc \in {"none", "login", "count", "counted", "test", "flush", "recv", "serve",
                       "add", "spin"}
    PROVE  /\ [h EXCEPT !.pc = pc, !.read = n] \in Handlers
           /\ [h EXCEPT !.pc = pc, !.op = "none", !.read = n] \in Handlers
BY DEF Handlers

LEMMA ReplyTyped ==
    ASSUME TInv, NEW c \in Clients, NEW op \in Responses, Reply(c, op)
    PROVE  toClient' \in [Clients -> Seq(Responses)]
  <1>1. toClient \in [Clients -> Seq(Responses)]  BY TypeFacts
  <1>2. Append(toClient[c], op) \in Seq(Responses)  BY <1>1
  <1>3. CASE toClient' = toClient  BY <1>1, <1>3
  <1>4. CASE toClient' = [toClient EXCEPT ![c] = Append(@, op)]  BY <1>1, <1>2, <1>4
  <1> QED BY <1>3, <1>4 DEF Reply

LEMMA RespondTyped ==
    ASSUME TInv, NEW c \in Clients, handler[c].op \in Ops, Respond(c)
    PROVE  toClient' \in [Clients -> Seq(Responses)]
  <1>1. handler[c].op \in Responses  BY DEF Responses
  <1> QED BY <1>1, ReplyTyped, TypeFacts DEF Respond

LEMMA ConnectTyped == ASSUME TInv, NEW c \in Clients, Connect(c) PROVE TInv'
  <1> PICK name \in UserNames \cup {"root"} : Connect(c)!(name)  BY DEF Connect
  <1> DEFINE h == [NoHandler EXCEPT !.pc = "login", !.name = name]
  <1>1. h \in Handlers /\ h.pc = "login"
    BY NoHandlerTyped DEF Handlers
  <1>2. handler' = [handler EXCEPT ![c] = h]  OBVIOUS
  <1> HIDE DEF h
  <1>3. handler' \in [Clients -> Handlers]  BY <1>1, <1>2, TypeFacts
  <1>4. client' \in [Clients -> [pc : {"out", "login", "ready", "wait"},
                                 op : Ops \cup {"none", "login"}]]
    BY TypeFacts
  <1>5. toServer' \in [Clients -> Seq(Ops \cup {"login", "exit", "torn"})]
        /\ toClient' \in [Clients -> Seq(Responses)]
    <2>1. <<"login">> \in Seq(Ops \cup {"login", "exit", "torn"}) /\ << >> \in Seq(Responses)
      OBVIOUS
    <2> QED BY <2>1, TypeFacts
  <1>6. \A d \in Clients : Meaning(handler'[d], toServer'[d])
    <2>1. Meaning(handler'[c], toServer'[c])  BY <1>1, <1>2, TypeFacts DEF Meaning
    <2>2. \A d \in Clients \ {c} : handler'[d] = handler[d] /\ toServer'[d] = toServer[d]
      BY <1>2, TypeFacts
    <2> QED BY <2>1, <2>2 DEF TInv
  <1> QED BY <1>3, <1>4, <1>5, <1>6, TypesStay, TypeFacts

\* What the main loop appends to the queue comes after the login.
LEMMA QueueTyped ==
    ASSUME TInv, NEW c \in Clients, handler[c].pc # "login", NEW op \in Requests,
           handler' = handler, toServer' = [toServer EXCEPT ![c] = Append(@, op)]
    PROVE  /\ toServer' \in [Clients -> Seq(Ops \cup {"login", "exit", "torn"})]
           /\ \A d \in Clients : Meaning(handler'[d], toServer'[d])
  <1>1. toServer \in [Clients -> Seq(Ops \cup {"login", "exit", "torn"})]  BY TypeFacts
  <1>2. toServer[c] \in Seq(Requests)  BY DEF TInv, Meaning
  <1>3. Append(toServer[c], op) \in Seq(Requests)  BY <1>2
  <1>4. Append(toServer[c], op) \in Seq(Ops \cup {"login", "exit", "torn"})
    BY <1>1 DEF Requests
  <1>5. toServer' \in [Clients -> Seq(Ops \cup {"login", "exit", "torn"})]
    BY <1>1, <1>4
  <1>6. \A d \in Clients : toServer'[d] = IF d = c THEN Append(toServer[c], op) ELSE toServer[d]
    BY <1>1
  <1> QED BY <1>3, <1>5, <1>6 DEF TInv, Meaning

LEMMA ClientTyped ==
    ASSUME UInv, TInv, NEW c \in Clients,
           Ask(c) \/ LoggedIn(c) \/ Receive(c) \/ Leave(c)
    PROVE  TInv'
  <1>1. UNCHANGED <<up, userVars>> /\ counter' = counter /\ handler' = handler
    BY DEF Ask, LoggedIn, Receive, Leave
  <1>2. client' \in [Clients -> [pc : {"out", "login", "ready", "wait"},
                                 op : Ops \cup {"none", "login"}]]
    <2> DEFINE States == [pc : {"out", "login", "ready", "wait"}, op : Ops \cup {"none", "login"}]
    <2>1. client \in [Clients -> States]  BY TypeFacts
    <2>2. Ready \in States /\ NoClient \in States  BY DEF Ready, NoClient
    <2>3. \A op \in Ops : [pc |-> "wait", op |-> op] \in States  OBVIOUS
    <2> HIDE DEF States
    <2>4. \/ client' = client
          \/ \E st \in States : client' = [client EXCEPT ![c] = st]
      BY <2>2, <2>3 DEF Ask, LoggedIn, Receive, Leave
    <2>5. client' \in [Clients -> States]  BY <2>1, <2>4
    <2> QED BY <2>5 DEF States
  <1>3. toClient' \in [Clients -> Seq(Responses)]
    <2>1. toClient \in [Clients -> Seq(Responses)] /\ << >> \in Seq(Responses)  BY TypeFacts
    <2>2. toClient[c] # << >> => Tail(toClient[c]) \in Seq(Responses)  BY <2>1
    <2> QED BY <2>1, <2>2 DEF Ask, LoggedIn, Receive, Leave
  <1>4. client[c].pc = "ready" => handler[c].pc # "login"
    BY DEF UInv, SInv, Talk, LoginFirst
  <1>5. \/ toServer' = toServer
        \/ /\ handler[c].pc # "login"
           /\ \E op \in Requests : toServer' = [toServer EXCEPT ![c] = Append(@, op)]
        \/ /\ handler[c].pc = "login"
           /\ \E queue \in {<< >>, <<"torn">>} : toServer' = [toServer EXCEPT ![c] = queue]
    <2>1. toServer = [toServer EXCEPT ![c] = toServer[c]]  BY TypeFacts
    <2>2. CASE Ask(c) \/ LoggedIn(c) \/ Receive(c)
      BY <1>4, <2>2 DEF Ask, LoggedIn, Receive, Requests
    <2>3. CASE Leave(c)
      <3> PICK queue \in LeftBehind(c) : toServer' = [toServer EXCEPT ![c] = queue]
        BY <2>3 DEF Leave
      <3>1. \/ queue = toServer[c]
            \/ client[c].pc = "ready" /\ \E op \in {"exit", "torn"} : queue = Append(toServer[c], op)
            \/ handler[c].pc = "login" /\ queue \in {<< >>, <<"torn">>}
        BY DEF LeftBehind
      <3> QED BY <1>4, <2>1, <3>1 DEF Requests
    <2> QED BY <2>2, <2>3
  <1>6. /\ toServer' \in [Clients -> Seq(Ops \cup {"login", "exit", "torn"})]
        /\ \A d \in Clients : Meaning(handler'[d], toServer'[d])
    <2>1. CASE toServer' = toServer  BY <1>1, <2>1, TypeFacts DEF TInv
    <2>2. CASE /\ handler[c].pc = "login"
               /\ \E queue \in {<< >>, <<"torn">>} : toServer' = [toServer EXCEPT ![c] = queue]
      <3>1. << >> \in Seq(Ops \cup {"login", "exit", "torn"})
            /\ <<"torn">> \in Seq(Ops \cup {"login", "exit", "torn"})
        OBVIOUS
      <3>2. toServer' \in [Clients -> Seq(Ops \cup {"login", "exit", "torn"})]
        BY <2>2, <3>1, TypeFacts
      <3>3. \A d \in Clients \ {c} : toServer'[d] = toServer[d]  BY <2>2, TypeFacts
      <3>4. Meaning(handler[c], toServer'[c])  BY <2>2 DEF Meaning
      <3> QED BY <1>1, <3>2, <3>3, <3>4 DEF TInv
    <2> QED BY <1>1, <1>5, <2>1, <2>2, QueueTyped
  <1> QED BY <1>1, <1>2, <1>3, <1>6, TypesStay, TypeFacts

\* A step of one handler, which may take the first of its queue.
LEMMA HandlerTyped ==
    ASSUME TInv, NEW c \in Clients, UNCHANGED <<up, client>>,
           NEW h \in Handlers, handler' = [handler EXCEPT ![c] = h],
           NEW queue, queue \in Seq(Requests),
           toServer' = [toServer EXCEPT ![c] = queue],
           Meaning(h, queue)
    PROVE  /\ handler' \in [Clients -> Handlers]
           /\ toServer' \in [Clients -> Seq(Ops \cup {"login", "exit", "torn"})]
           /\ \A d \in Clients : Meaning(handler'[d], toServer'[d])
  <1>1. /\ handler \in [Clients -> Handlers]
        /\ toServer \in [Clients -> Seq(Ops \cup {"login", "exit", "torn"})]
    BY TypeFacts
  <1>2. queue \in Seq(Ops \cup {"login", "exit", "torn"})
    BY DEF Requests
  <1>3. \A d \in Clients \ {c} : handler'[d] = handler[d] /\ toServer'[d] = toServer[d]
    BY <1>1
  <1>4. handler'[c] = h /\ toServer'[c] = queue  BY <1>1
  <1> QED BY <1>1, <1>2, <1>3, <1>4 DEF TInv

\* The queue of a handler that is past the login, whether or not it is read.
LEMMA QueueFacts ==
    ASSUME TInv, NEW c \in Clients, handler[c].pc # "login"
    PROVE  /\ toServer[c] \in Seq(Requests)
           /\ toServer = [toServer EXCEPT ![c] = toServer[c]]
           /\ toServer[c] # << >> =>
                 Head(toServer[c]) \in Requests /\ Tail(toServer[c]) \in Seq(Requests)
  <1>1. toServer[c] \in Seq(Requests)  BY DEF TInv, Meaning
  <1>2. toServer = [toServer EXCEPT ![c] = toServer[c]]  BY TypeFacts
  <1> QED BY <1>1, <1>2

LEMMA LoginTyped == ASSUME UInv, TInv, NEW c \in Clients, HandleLogin(c) PROVE TInv'
  <1> DEFINE name == handler[c].name
             uid == IF name = "root" THEN 0 ELSE Lookup(users, name)
             ok == name = "root" \/ uid # 0
             h == IF ok THEN [handler[c] EXCEPT !.pc = "count", !.user = uid] ELSE NoHandler
  <1>1. up /\ handler[c].pc = "login" /\ handler[c] \in Handlers
    BY TypeFacts DEF HandleLogin, At
  <1>3. uid \in 0 .. MaxUsers - 1
    <2>1. users \in Seq(Users) /\ Len(users) \in 1 .. MaxUsers  BY <1>1 DEF TInv, List
    <2>2. CASE uid # 0
      <3>1. uid = Lookup(users, name)  BY <2>2
      <3> HIDE DEF uid, name
      <3>2. uid \in Nat /\ uid < Len(users)  BY <2>1, <2>2, <3>1, LookupFinds
      <3> QED BY <2>1, <3>2, ServiceAssumption
    <2>3. CASE uid = 0  BY <2>1, <2>3, ServiceAssumption
    <2> QED BY <2>2, <2>3
  <1>4. h \in Handlers /\ h.pc \in {"none", "count"}
    <2>1. CASE ok
      <3>1. h = [handler[c] EXCEPT !.pc = "count", !.user = uid]  BY <2>1
      <3> HIDE DEF uid, h
      <3> QED BY <1>1, <1>3, <3>1 DEF Handlers
    <2>2. CASE ~ok
      <3>1. h = NoHandler  BY <2>2
      <3> HIDE DEF h
      <3> QED BY <3>1, NoHandlerTyped DEF NoHandler
    <2> QED BY <2>1, <2>2
  <1>5. Reply(c, IF ok THEN "login" ELSE "refused") /\ handler' = [handler EXCEPT ![c] = h]
        /\ toServer' = [toServer EXCEPT ![c] = << >>]
        /\ UNCHANGED <<up, client, counter, userVars>>
    BY DEF HandleLogin
  <1> HIDE DEF uid, ok, h, name
  <1>6. << >> \in Seq(Requests)  OBVIOUS
  <1>7. Meaning(h, << >>)  BY <1>4, <1>6 DEF Meaning
  <1>9. toClient' \in [Clients -> Seq(Responses)]
    <2>1. (IF ok THEN "login" ELSE "refused") \in Responses  BY DEF Responses
    <2> QED BY <1>5, <2>1, ReplyTyped
  <1>10. /\ handler' \in [Clients -> Handlers]
         /\ toServer' \in [Clients -> Seq(Ops \cup {"login", "exit", "torn"})]
         /\ \A d \in Clients : Meaning(handler'[d], toServer'[d])
    BY <1>4, <1>5, <1>6, <1>7, HandlerTyped
  <1>11. client' = client /\ counter' = counter /\ UNCHANGED <<up, userVars>>  BY <1>5
  <1> QED BY <1>9, <1>10, <1>11, TypesStay, TypeFacts

LEMMA LoginCutTyped == ASSUME TInv, NEW c \in Clients, LoginCut(c) PROVE TInv'
  <1>1. UNCHANGED <<up, client, toClient, counter, userVars>>  BY DEF LoginCut, userVars
  <1>2. PICK h \in {NoHandler, Spinning} : handler' = [handler EXCEPT ![c] = h]
    BY DEF LoginCut
  <1>3. toServer' = [toServer EXCEPT ![c] = << >>] /\ << >> \in Seq(Requests)
    BY DEF LoginCut
  <1>4. h \in Handlers /\ Meaning(h, << >>)  BY <1>3, NoHandlerTyped
  <1>5. /\ handler' \in [Clients -> Handlers]
        /\ toServer' \in [Clients -> Seq(Ops \cup {"login", "exit", "torn"})]
        /\ \A d \in Clients : Meaning(handler'[d], toServer'[d])
    BY <1>1, <1>2, <1>3, <1>4, HandlerTyped
  <1> QED BY <1>1, <1>5, TypesStay, TypeFacts

\* A handler that only goes on to another place, or gets a request.
LEMMA CounterTyped ==
    ASSUME TInv, NEW c \in Clients, Count(c) \/ Counted(c) \/ Test(c) \/ Flush(c)
    PROVE  TInv'
  <1>1. handler[c] \in Handlers /\ counter \in -1 .. FlushInterval /\ handler[c].pc # "login"
    BY TypeFacts DEF Count, Counted, Test, Flush, At
  <1>2. UNCHANGED <<up, client, toServer, toClient, userVars>>
    BY DEF Count, Counted, Test, Flush, userVars
  <1>3. \E h \in Handlers : /\ handler' = [handler EXCEPT ![c] = h]
                            /\ Meaning(h, toServer[c])
    <2>1. toServer[c] \in Seq(Requests)  BY <1>1, QueueFacts
    <2>2. CASE Count(c)
      <3> DEFINE h == [handler[c] EXCEPT !.pc = "counted", !.read = counter]
      <3>1. h \in Handlers /\ h.pc = "counted" /\ h.read = counter
        <4>1. counter \in Int  BY <1>1, ServiceAssumption
        <4> QED BY <1>1, <4>1 DEF Handlers
      <3>2. handler' = [handler EXCEPT ![c] = h]  BY <2>2 DEF Count
      <3> HIDE DEF h
      <3>3. Meaning(h, toServer[c])  BY <1>1, <2>1, <3>1 DEF Meaning
      <3> QED BY <3>1, <3>2, <3>3
    <2>3. CASE Counted(c)
      <3> DEFINE n == Decremented(handler[c].read)
                 h == [handler[c] EXCEPT !.pc = "test", !.read = n]
      <3>1. handler' = [handler EXCEPT ![c] = h]  BY <2>3 DEF Counted
      <3>2. n \in Int
        BY <1>1 DEF Handlers, Decremented
      <3> HIDE DEF n
      <3>3. h \in Handlers /\ h.pc = "test"
        <4>1. h \in Handlers  BY <1>1, <3>2, Moved
        <4> QED BY <1>1, <4>1 DEF Handlers
      <3> HIDE DEF h
      <3>4. Meaning(h, toServer[c])  BY <2>1, <3>3 DEF Meaning
      <3> QED BY <3>1, <3>3, <3>4
    <2>5. CASE Test(c)
      <3> PICK n \in {handler[c].read, counter} :
              handler' = [handler EXCEPT ![c].pc = IF n < 0 THEN "flush" ELSE "recv", ![c].read = 0]
        BY <2>5 DEF Test
      <3> DEFINE pc == IF n < 0 THEN "flush" ELSE "recv"
                 h == [handler[c] EXCEPT !.pc = pc, !.read = 0]
      <3>1. pc \in {"flush", "recv"} /\ handler' = [handler EXCEPT ![c] = h]
        OBVIOUS
      <3> HIDE DEF pc
      <3>2. h \in Handlers /\ h.pc = pc
        <4>1. 0 \in Int  OBVIOUS
        <4>2. h \in Handlers  BY <1>1, <3>1, <4>1, Moved
        <4> QED BY <1>1, <4>2 DEF Handlers
      <3> HIDE DEF h
      <3>3. Meaning(h, toServer[c])  BY <2>1, <3>1, <3>2 DEF Meaning
      <3> QED BY <3>1, <3>2, <3>3
    <2>4. CASE Flush(c)
      <3> DEFINE h == [handler[c] EXCEPT !.pc = "recv"]
      <3>1. h \in Handlers /\ h.pc = "recv"
        BY <1>1 DEF Handlers
      <3>2. handler' = [handler EXCEPT ![c] = h]  BY <2>4 DEF Flush, Goto
      <3> HIDE DEF h
      <3>3. Meaning(h, toServer[c])  BY <2>1, <3>1 DEF Meaning
      <3> QED BY <3>1, <3>2, <3>3
    <2> QED BY <2>2, <2>3, <2>4, <2>5
  <1>4. PICK h \in Handlers : handler' = [handler EXCEPT ![c] = h] /\ Meaning(h, toServer[c])
    BY <1>3
  <1>5. /\ handler' \in [Clients -> Handlers]
        /\ \A d \in Clients : Meaning(handler'[d], toServer'[d])
    <2>1. toServer' = [toServer EXCEPT ![c] = toServer[c]] /\ toServer[c] \in Seq(Requests)
      BY <1>1, <1>2, QueueFacts
    <2> QED BY <1>2, <1>4, <2>1, HandlerTyped
  <1>6. counter' \in -1 .. FlushInterval
    <2>1. CASE Count(c)  BY <1>1, <2>1 DEF Count
    <2>2. CASE Counted(c)
      <3>1. handler[c].read \in -1 .. FlushInterval  BY <2>2 DEF TInv, Meaning, Counted, At
      <3> QED BY <2>2, <3>1, ServiceAssumption DEF Counted, Decremented
    <2>3. CASE Flush(c)  BY <2>3, ServiceAssumption DEF Flush
    <2>4. CASE Test(c)  BY <1>1, <2>4 DEF Test
    <2> QED BY <2>1, <2>2, <2>3, <2>4
  <1> QED BY <1>2, <1>5, <1>6, TypesStay, TypeFacts

LEMMA RecvTyped == ASSUME TInv, NEW c \in Clients, Recv(c) PROVE TInv'
  <1>1. handler[c] \in Handlers /\ handler[c].pc = "recv"  BY TypeFacts DEF Recv, At
  <1>2. UNCHANGED <<up, client, toClient, counter, userVars>>  BY DEF Recv, userVars
  <1>3. /\ toServer[c] \in Seq(Requests)
        /\ toServer = [toServer EXCEPT ![c] = toServer[c]]
        /\ toServer[c] # << >> =>
              Head(toServer[c]) \in Requests /\ Tail(toServer[c]) \in Seq(Requests)
    BY <1>1, QueueFacts
  <1>4. \E h \in Handlers, queue \in Seq(Requests) :
            /\ handler' = [handler EXCEPT ![c] = h]
            /\ toServer' = [toServer EXCEPT ![c] = queue]
            /\ Meaning(h, queue)
    <2>1. CASE handler' = [handler EXCEPT ![c] = NoHandler] /\ UNCHANGED toServer
      BY <1>3, <2>1, NoHandlerTyped
    <2>2. CASE /\ toServer[c] # << >>
               /\ handler' = [handler EXCEPT ![c] = Received(@, Head(toServer[c]))]
               /\ toServer' = [toServer EXCEPT ![c] = Tail(@)]
      <3> DEFINE op == Head(toServer[c])
                 h == Received(handler[c], op)
                 queue == Tail(toServer[c])
      <3>1. op \in Requests /\ queue \in Seq(Requests)  BY <1>3, <2>2
      <3>2. handler' = [handler EXCEPT ![c] = h] /\ toServer' = [toServer EXCEPT ![c] = queue]
        BY <2>2
      <3> HIDE DEF op, queue
      <3>3. h \in Handlers /\ Meaning(h, queue)
        <4>1. CASE op = "exit"
          BY <3>1, <4>1, NoHandlerTyped DEF Received
        <4>2. CASE op = "torn"
          BY <3>1, <4>2, NoHandlerTyped DEF Received
        <4>3. CASE op = "overlong"
          <5>1. h = [handler[c] EXCEPT !.pc = "count"]  BY <4>3 DEF Received
          <5> HIDE DEF h
          <5>2. h \in Handlers /\ h.pc = "count"  BY <1>1, <5>1 DEF Handlers
          <5> QED BY <3>1, <5>2 DEF Meaning
        <4>4. CASE op \notin {"exit", "torn", "overlong"}
          <5>1. h = [handler[c] EXCEPT !.pc = "serve", !.op = op]  BY <4>4 DEF Received
          <5>2. op \in Ops  BY <3>1, <4>4 DEF Requests
          <5> HIDE DEF h
          <5>3. h \in Handlers /\ h.pc = "serve" /\ h.op = op  BY <1>1, <5>1, <5>2 DEF Handlers
          <5> QED BY <3>1, <5>2, <5>3 DEF Meaning
        <4> QED BY <4>1, <4>2, <4>3, <4>4
      <3> QED BY <3>1, <3>2, <3>3
    <2> QED BY <2>1, <2>2 DEF Recv
  <1>5. PICK h \in Handlers, queue \in Seq(Requests) :
            /\ handler' = [handler EXCEPT ![c] = h]
            /\ toServer' = [toServer EXCEPT ![c] = queue]
            /\ Meaning(h, queue)
    BY <1>4
  <1>6. /\ handler' \in [Clients -> Handlers]
        /\ toServer' \in [Clients -> Seq(Ops \cup {"login", "exit", "torn"})]
        /\ \A d \in Clients : Meaning(handler'[d], toServer'[d])
    BY <1>2, <1>5, HandlerTyped
  <1> QED BY <1>2, <1>6, TypesStay, TypeFacts

LEMMA ServedTyped ==
    ASSUME TInv, NEW c \in Clients, handler[c].pc \in {"serve", "add"}
    PROVE  /\ handler[c] \in Handlers /\ handler[c].op \in Ops
           /\ toServer[c] \in Seq(Requests)
           /\ toServer = [toServer EXCEPT ![c] = toServer[c]]
           /\ Served(handler[c]) \in Handlers /\ Meaning(Served(handler[c]), toServer[c])
           /\ AsRoot(handler[c]) \in Handlers /\ Meaning(AsRoot(handler[c]), toServer[c])
  <1> DEFINE h == handler[c]
  <1>1. h \in Handlers /\ h.op \in Ops  BY TypeFacts DEF TInv, Meaning
  <1>2. toServer[c] \in Seq(Requests) /\ toServer = [toServer EXCEPT ![c] = toServer[c]]
    BY QueueFacts
  <1> HIDE DEF h
  <1>3. Served(h) \in Handlers /\ Served(h).pc = "count"
    <2>1. 0 \in Int  OBVIOUS
    <2>2. Served(h) \in Handlers  BY <1>1, <2>1, Moved DEF Served
    <2> QED BY <1>1, <2>2 DEF Served, Handlers
  <1>4. AsRoot(h) \in Handlers /\ AsRoot(h).pc = "count"
    <2>1. 0 \in 0 .. MaxUsers - 1  BY ServiceAssumption
    <2> QED BY <1>3, <2>1 DEF AsRoot, Handlers
  <1>5. \A g \in Handlers : g.pc = "count" => Meaning(g, toServer[c])
    BY <1>2 DEF Meaning
  <1> QED BY <1>1, <1>2, <1>3, <1>4, <1>5 DEF h

LEMMA ServeTyped == ASSUME TInv, NEW c \in Clients, Serve(c) PROVE TInv'
  <1>1. handler[c].pc = "serve" /\ UNCHANGED <<up, client, toServer, userVars>>
    BY DEF Serve, At, userVars
  <1>2. handler' = [handler EXCEPT ![c] = Served(handler[c])] /\ Respond(c)
    BY DEF Serve
  <1>3. toClient' \in [Clients -> Seq(Responses)]  BY <1>1, <1>2, ServedTyped, RespondTyped
  <1>4. counter' \in -1 .. FlushInterval  BY TypeFacts, ServiceAssumption DEF Serve
  <1>5. /\ handler' \in [Clients -> Handlers]
        /\ toServer' \in [Clients -> Seq(Ops \cup {"login", "exit", "torn"})]
        /\ \A d \in Clients : Meaning(handler'[d], toServer'[d])
    BY <1>1, <1>2, ServedTyped, HandlerTyped
  <1> QED BY <1>1, <1>3, <1>4, <1>5, TypesStay, TypeFacts

LEMMA AddTyped == ASSUME UInv, TInv, NEW c \in Clients, ServeAddUser(c) PROVE TInv'
  <1>1. handler[c].pc = "serve" /\ UNCHANGED <<up, client, toServer, counter, userVars>> /\ up
    BY DEF ServeAddUser, At, userVars
  <1>2. /\ toClient' \in [Clients -> Seq(Responses)]
        /\ \E h \in Handlers : handler' = [handler EXCEPT ![c] = h] /\ Meaning(h, toServer[c])
    <2>1. CASE handler' = [handler EXCEPT ![c] = Served(@)] /\ Respond(c)
      BY <1>1, <2>1, ServedTyped, RespondTyped
    <2>2. CASE /\ Len(users) < MaxUsers
               /\ handler' = [handler EXCEPT ![c].pc = "add", ![c].read = PlaceFor(users)]
               /\ UNCHANGED toClient
      <3> DEFINE h == [handler[c] EXCEPT !.pc = "add", !.read = PlaceFor(users)]
      <3>1. PlaceFor(users) \in 2 .. MaxUsers /\ PlaceFor(users) \in Int
        <4>1. Len(users) \in 1 .. MaxUsers /\ MaxUsers \in Nat
          BY <1>1, ServiceAssumption DEF TInv, List
        <4> QED BY <2>2, <4>1 DEF PlaceFor
      <3>2. handler[c] \in Handlers /\ handler[c].op \in Ops /\ toServer[c] \in Seq(Requests)
        BY <1>1, ServedTyped
      <3>3. handler' = [handler EXCEPT ![c] = h]  BY <2>2
      <3>4. h \in Handlers /\ h.pc = "add" /\ h.read = PlaceFor(users) /\ h.op = handler[c].op
        BY <3>1, <3>2 DEF Handlers
      <3> HIDE DEF h
      <3>5. Meaning(h, toServer[c])  BY <3>1, <3>2, <3>4 DEF Meaning
      <3> QED BY <2>2, <3>3, <3>4, <3>5, TypeFacts
    <2> QED BY <2>1, <2>2 DEF ServeAddUser
  <1>3. PICK h \in Handlers : handler' = [handler EXCEPT ![c] = h] /\ Meaning(h, toServer[c])
    BY <1>2
  <1>4. /\ handler' \in [Clients -> Handlers]
        /\ toServer' \in [Clients -> Seq(Ops \cup {"login", "exit", "torn"})]
        /\ \A d \in Clients : Meaning(handler'[d], toServer'[d])
    BY <1>1, <1>3, ServedTyped, HandlerTyped
  <1> QED BY <1>1, <1>2, <1>4, TypesStay, TypeFacts

\* Wherever the place was found, the vector ends there, and has room for it.
LEMMA PlacedTyped ==
    ASSUME NEW list, List(list), NEW place \in 2 .. MaxUsers, NEW name \in UserNames,
           NEW new \in Placed(list, place, name)
    PROVE  List(new)
  <1>1. list \in Seq(Users) /\ Len(list) \in Nat /\ Len(list) >= 1 /\ MaxUsers \in Nat
        /\ place \in Nat /\ place >= 2 /\ place <= MaxUsers
    BY ServiceAssumption DEF List
  <1>2. User(name) \in Users  BY DEF User, Users
  <1>3. CASE place <= PlaceFor(list)
    <2>1. new = SubSeq(list, 1, place - 1) \o <<User(name)>>  BY <1>3 DEF Placed
    <2>2. place - 1 <= Len(list)  BY <1>1, <1>3 DEF PlaceFor
    <2>3. SubSeq(list, 1, place - 1) \in Seq(Users) /\ Len(SubSeq(list, 1, place - 1)) = place - 1
      BY <1>1, <2>2
    <2>4. new \in Seq(Users) /\ Len(new) = place  BY <1>1, <1>2, <2>1, <2>3
    <2> QED BY <1>1, <2>4 DEF List
  <1>4. CASE ~(place <= PlaceFor(list))
    <2> DEFINE n == place - PlaceFor(list)
    <2>1. n \in Nat  BY <1>1, <1>4 DEF PlaceFor
    <2>2. PICK gap \in [1 .. n -> Users] : new = list \o gap \o <<User(name)>>
      BY <1>4 DEF Placed
    <2>3. n = place - (Len(list) + 1)  BY DEF PlaceFor
    <2> HIDE DEF n
    <2>4. gap \in Seq(Users) /\ Len(gap) = n  BY <2>1, <2>2
    <2>5. list \o gap \in Seq(Users) /\ Len(list \o gap) = Len(list) + n  BY <1>1, <2>1, <2>4
    <2>6. new \in Seq(Users) /\ Len(new) = Len(list) + n + 1
      <3> DEFINE front == list \o gap
      <3>1. front \in Seq(Users) /\ Len(front) = Len(list) + n  BY <2>5
      <3>2. new = front \o <<User(name)>>  BY <2>2
      <3> HIDE DEF front
      <3> QED BY <1>2, <3>1, <3>2
    <2>7. Len(new) = place  BY <1>1, <2>1, <2>3, <2>6
    <2> QED BY <1>1, <2>6, <2>7 DEF List
  <1> QED BY <1>3, <1>4

LEMMA PlaceTyped == ASSUME TInv, NEW c \in Clients, AddUser(c) PROVE TInv'
  <1> PICK name \in UserNames : AddUser(c)!(name)  BY DEF AddUser
  <1> DEFINE place == handler[c].read
  <1>1. up /\ handler[c].pc = "add" /\ UNCHANGED <<up, client, toServer, counter, records>>
    BY DEF At
  <1>2. handler' = [handler EXCEPT ![c] = Served(handler[c])] /\ Respond(c)
    OBVIOUS
  <1>3. toClient' \in [Clients -> Seq(Responses)]  BY <1>1, <1>2, ServedTyped, RespondTyped
  <1>4. place \in 2 .. MaxUsers  BY <1>1 DEF TInv, Meaning
  <1>5. users' \in Placed(users, place, name) /\ given' = given \cup {place - 1}
        /\ excused' = (excused \/ place # PlaceFor(users))
    OBVIOUS
  <1> HIDE DEF place
  <1>6. List(users')  BY <1>1, <1>4, <1>5, PlacedTyped, Zenon DEF TInv
  <1>7. given' \subseteq 1 .. MaxUsers - 1
    <2>1. place - 1 \in 1 .. MaxUsers - 1  BY <1>4, ServiceAssumption
    <2>2. given \subseteq 1 .. MaxUsers - 1  BY DEF TInv, TypeOK
    <2> QED BY <1>5, <2>1, <2>2
  <1>8. /\ handler' \in [Clients -> Handlers]
        /\ toServer' \in [Clients -> Seq(Ops \cup {"login", "exit", "torn"})]
        /\ \A d \in Clients : Meaning(handler'[d], toServer'[d])
    BY <1>1, <1>2, ServedTyped, HandlerTyped
  <1>9. excused' \in BOOLEAN  BY <1>5 DEF TInv, TypeOK
  <1>10. UserTypes'  BY <1>1, <1>6, <1>7, <1>9 DEF TInv, TypeOK, List, UserTypes
  <1>11. TypeOK'
    BY <1>1, <1>3, <1>8, <1>10, TypeFacts, Typed
  <1> QED BY <1>1, <1>6, <1>8, <1>11 DEF TInv

\* A format forgets the users, and root has a record again.
LEMMA FormattedTyped ==
    ASSUME users' = Loaded(<< >>), records' = NoFile, given' = {}, excused' = FALSE
    PROVE  UserTypes' /\ List(users')
  <1>1. Loaded(<< >>) \in Seq(Users) /\ Len(Loaded(<< >>)) = 1  BY RootAlone DEF Holds
  <1>2. 1 \in 1 .. MaxUsers /\ 1 <= MaxUsers  BY ServiceAssumption
  <1>3. List(Loaded(<< >>))  BY <1>1, <1>2 DEF List
  <1> QED BY <1>1, <1>2, <1>3 DEF UserTypes

LEMMA FormatTyped == ASSUME TInv, NEW c \in Clients, ServeFormat(c) PROVE TInv'
  <1>1. handler[c].pc = "serve" /\ up /\ UNCHANGED <<up, client, toServer, counter>>
    BY DEF ServeFormat, At
  <1>2. toClient' \in [Clients -> Seq(Responses)]
    <2>1. Respond(c)  BY DEF ServeFormat
    <2> QED BY <1>1, <2>1, ServedTyped, RespondTyped
  <1>3. CASE handler' = [handler EXCEPT ![c] = AsRoot(@)] /\ UNCHANGED userVars
    <2>1. /\ handler' \in [Clients -> Handlers]
          /\ toServer' \in [Clients -> Seq(Ops \cup {"login", "exit", "torn"})]
          /\ \A d \in Clients : Meaning(handler'[d], toServer'[d])
      BY <1>1, <1>3, ServedTyped, HandlerTyped
    <2> QED BY <1>1, <1>2, <1>3, <2>1, TypesStay, TypeFacts
  <1>4. CASE /\ handler' = [d \in Clients |->
                   IF d = c THEN AsRoot(handler[c])
                   ELSE [handler[d] EXCEPT !.stale = handler[d].user # 0]]
             /\ users' = Loaded(<< >>) /\ records' = NoFile
             /\ given' = {} /\ excused' = FALSE
    <2>1. ASSUME NEW d \in Clients
          PROVE  handler'[d] \in Handlers /\ Meaning(handler'[d], toServer'[d])
      <3>1. CASE d = c
        BY <1>1, <1>4, <3>1, ServedTyped
      <3>2. CASE d # c
        <4> DEFINE forgotten == handler[d].user # 0
        <4>1. handler[d] \in Handlers /\ Meaning(handler[d], toServer[d])
          BY TypeFacts DEF TInv
        <4>2. handler'[d] = [handler[d] EXCEPT !.stale = forgotten] /\ forgotten \in BOOLEAN
          BY <1>4, <3>2
        <4> HIDE DEF forgotten
        <4>3. /\ handler'[d] \in Handlers
              /\ handler'[d].pc = handler[d].pc /\ handler'[d].op = handler[d].op
              /\ handler'[d].read = handler[d].read
          BY <4>1, <4>2 DEF Handlers
        <4> QED BY <1>1, <4>1, <4>3 DEF Meaning
      <3> QED BY <3>1, <3>2
    <2>2. handler' \in [Clients -> Handlers]  BY <1>4, <2>1
    <2>3. UserTypes' /\ List(users')  BY <1>4, FormattedTyped
    <2>4. TypeOK'  BY <1>1, <1>2, <2>2, <2>3, TypeFacts, Typed
    <2> QED BY <1>4, <2>1, <2>3, <2>4 DEF TInv
  <1> QED BY <1>3, <1>4 DEF ServeFormat

LEMMA StartTyped == ASSUME TInv, Start PROVE TInv'
  <1>1. up' = TRUE /\ counter' = FlushInterval
        /\ UNCHANGED <<client, handler, toServer, toClient>>
    BY DEF Start
  <1>2. UserTypes' /\ List(users') /\ (records' # NoFile => records' = records)
    <2>1. CASE users' = Loaded(<< >>) /\ records' = NoFile /\ given' = {} /\ excused' = FALSE
      BY <2>1, FormattedTyped
    <2>2. CASE /\ records # NoFile /\ users' = Loaded(records)
               /\ UNCHANGED <<records, given, excused>>
      <3>1. records \in Seq(Users) /\ Len(records) <= MaxUsers  BY <2>2 DEF TInv
      <3>2. users' \in Seq(Users) /\ Len(users') \in 1 .. MaxUsers
        <4>1. CASE records = << >>
          <5>1. users' = <<RootUser>>  BY <2>2, <4>1 DEF Loaded
          <5>2. RootUser \in Users  BY DEF Users
          <5> QED BY <5>1, <5>2, ServiceAssumption
        <4>2. CASE records # << >>
          <5>1. users' = records /\ Len(records) \in Nat /\ Len(records) # 0
            BY <2>2, <3>1, <4>2, EmptySeq DEF Loaded
          <5> QED BY <3>1, <5>1, ServiceAssumption
        <4> QED BY <4>1, <4>2
      <3>3. List(users')  BY <3>2 DEF List
      <3>4. UserTypes'  BY <2>2, <3>1, <3>2, ServiceAssumption DEF UserTypes, TInv, TypeOK
      <3> QED BY <2>2, <3>3, <3>4
    <2> QED BY <2>1, <2>2 DEF Start
  <1>3. counter' \in -1 .. FlushInterval  BY <1>1, ServiceAssumption
  <1>4. TypeOK'  BY <1>1, <1>2, <1>3, TypeFacts, Typed
  <1> QED BY <1>1, <1>2, <1>4 DEF TInv

LEMMA EndTyped == ASSUME TInv, Stop \/ Crash PROVE TInv'
  <1>1. Disconnected  BY DEF Stop, Crash
  <1>2. /\ up' = FALSE /\ users' = << >> /\ UNCHANGED <<client, toClient, counter, given>>
        /\ handler' = [c \in Clients |-> NoHandler] /\ toServer' = [c \in Clients |-> << >>]
    BY <1>1 DEF Disconnected
  <1>3. << >> \in Seq(Requests) /\ << >> \in Seq(Ops \cup {"login", "exit", "torn"})
    OBVIOUS
  <1>4. handler' \in [Clients -> Handlers] /\ \A c \in Clients : Meaning(handler'[c], toServer'[c])
    BY <1>2, <1>3, NoHandlerTyped
  <1>5. records' = NoFile \/ (records' \in Seq(Users) /\ Len(records') <= MaxUsers)
    <2>1. CASE Stop
      <3>1. users \in Seq(Users) /\ Len(users) <= MaxUsers  BY DEF TInv, TypeOK
      <3>2. PICK n \in 0 .. Len(users) : records' = SubSeq(users, 1, n)
        BY <2>1 DEF Stop, SavedFiles
      <3>3. records' \in Seq(Users) /\ Len(records') = n  BY <3>1, <3>2
      <3> QED BY <3>1, <3>2, <3>3, ServiceAssumption
    <2>2. CASE Crash  BY <2>2 DEF Crash, TInv
    <2> QED BY <2>1, <2>2
  <1>6. excused' \in BOOLEAN  BY DEF Stop, Crash, TInv, TypeOK
  <1>7. UserTypes'
    BY <1>2, <1>5, <1>6, ServiceAssumption DEF UserTypes, TInv, TypeOK
  <1>8. TypeOK'  BY <1>2, <1>3, <1>4, <1>7, TypeFacts, Typed
  <1> QED BY <1>2, <1>4, <1>5, <1>8 DEF TInv

LEMMA RemoveTyped == ASSUME TInv, RemoveUser PROVE TInv'
  <1>1. UNCHANGED <<up, client, handler, toServer, toClient, counter, users, given, excused>>
    BY DEF RemoveUser
  <1>2. PICK uid \in 1 .. MaxUsers : records # NoFile /\ records' = Removed(Loaded(records), uid)
    BY DEF RemoveUser
  <1>3. Holds(Loaded(records), {}) /\ Len(Loaded(records)) <= MaxUsers
    <2>1. records \in Seq(Users) /\ Len(records) <= MaxUsers  BY <1>2 DEF TInv
    <2>2. CASE records = << >>
      BY <2>2, RootAlone, ServiceAssumption DEF Loaded
    <2>3. CASE records # << >>
      <3>1. Len(records) # 0 /\ Len(records) \in Nat  BY <2>1, <2>3, EmptySeq
      <3> QED BY <2>1, <2>3, <3>1 DEF Holds, Loaded
    <2> QED BY <2>2, <2>3
  <1>4. uid \in Nat  BY <1>2, ServiceAssumption
  <1>5. Holds(records', {})  BY <1>2, <1>3, <1>4, RemovedKeepsPlaces
  <1>6. Len(records') = Len(Loaded(records))
    BY <1>2, <1>3 DEF Removed, Holds
  <1>7. records' \in Seq(Users) /\ Len(records') <= MaxUsers
    BY <1>3, <1>5, <1>6 DEF Holds
  <1>8. UserTypes'  BY <1>1, <1>7 DEF UserTypes, TInv, TypeOK
  <1>9. TypeOK'  BY <1>1, <1>8, TypeFacts, Typed
  <1> QED BY <1>1, <1>7, <1>9 DEF TInv, List

LEMMA InitTyped == Init => TInv
  <1> SUFFICES ASSUME Init PROVE TInv  OBVIOUS
  <1>1. handler \in [Clients -> Handlers] /\ \A c \in Clients : Meaning(handler[c], toServer[c])
    <2>1. << >> \in Seq(Requests)  OBVIOUS
    <2> QED BY <2>1, NoHandlerTyped DEF Init
  <1>2. TypeOK
    <2>1. << >> \in Seq(Users) /\ Len(<< >>) = 0  OBVIOUS
    <2>2. << >> \in Seq(Responses) /\ << >> \in Seq(Ops \cup {"login", "exit", "torn"})
      OBVIOUS
    <2>3. NoClient \in [pc : {"out", "login", "ready", "wait"}, op : Ops \cup {"none", "login"}]
      BY DEF NoClient
    <2>4. up \in BOOLEAN /\ excused \in BOOLEAN /\ counter \in -1 .. FlushInterval
      <3>1. up \in BOOLEAN /\ excused \in BOOLEAN  BY Zenon DEF Init
      <3>2. counter \in -1 .. FlushInterval  BY ServiceAssumption DEF Init
      <3> QED BY <3>1, <3>2
    <2>5. users \in Seq(Users) /\ Len(users) <= MaxUsers /\ records \in {NoFile} \cup Seq(Users)
          /\ given \subseteq 1 .. MaxUsers - 1
      BY <2>1, ServiceAssumption DEF Init
    <2>6. /\ client \in [Clients -> [pc : {"out", "login", "ready", "wait"},
                                     op : Ops \cup {"none", "login"}]]
          /\ toServer \in [Clients -> Seq(Ops \cup {"login", "exit", "torn"})]
          /\ toClient \in [Clients -> Seq(Responses)]
      BY <2>2, <2>3 DEF Init
    <2> QED BY <1>1, <2>4, <2>5, <2>6 DEF TypeOK, Handlers, Responses
  <1> QED BY <1>1, <1>2 DEF Init, TInv

\* Types and meanings are kept by every step.
THEOREM TypesInductive == UInv /\ TInv /\ [Next]_vars => TInv'
  <1> SUFFICES ASSUME UInv, TInv, [Next]_vars PROVE TInv'  OBVIOUS
  <1>1. ASSUME NEW c \in Clients, Connect(c) \/ Ask(c) \/ LoggedIn(c) \/ Receive(c) \/ Leave(c)
        PROVE  TInv'
    BY <1>1, ConnectTyped, ClientTyped
  <1>2. ASSUME NEW c \in Clients, Step(c) PROVE TInv'
    BY <1>2, LoginTyped, LoginCutTyped, CounterTyped, RecvTyped, ServeTyped, FormatTyped, AddTyped, PlaceTyped
    DEF Step
  <1>3. CASE Start \/ Stop \/ Crash \/ RemoveUser
    BY <1>3, StartTyped, EndTyped, RemoveTyped
  <1>4. CASE UNCHANGED vars
    BY <1>4, TypesStay, TypeFacts DEF vars, userVars, TInv
  <1> QED BY <1>1, <1>2, <1>3, <1>4 DEF Next

\* The records and ids stay within their bounds and types, whatever additions
\* overlap, wherever a save was cut off, and however often the server starts
\* (UserFile, handler, main of server.cc).
THEOREM TypeCorrect == Spec => []TypeOK
  <1>1. Init => TInv  BY InitTyped
  <1>2. UInv /\ TInv /\ [Next]_vars => TInv'  BY TypesInductive
  <1>3. TInv => TypeOK  BY DEF TInv
  <1> QED BY <1>1, <1>2, <1>3, UsersInvariance, PTL DEF Spec
=============================================================================
