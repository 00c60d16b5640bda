------------------------------ MODULE Service ------------------------------
(***************************************************************************)
(* The file system server and its clients: step2/server.cc with one        *)
(* handler thread per connection, step2/client.cc, the framing of          *)
(* bytepack.c and the sockets of network.c, and the users.                 *)
(*                                                                         *)
(* A connection is a pair of queues.  Which requests a handler answers,    *)
(* and for which a client waits, is kept; what a request does to the files *)
(* is the matter of NodeTable, and here it succeeds or fails.              *)
(***************************************************************************)
EXTENDS UserFile, FiniteSets, SequencesExt

CONSTANTS
    Clients,        \* each with at most one connection
    Ops,            \* the requests that clients send in this instance
    FlushInterval,  \* FLUSH_INTERVAL
    MaxUsers,       \* bound on the records of users, of which root's is one
    MaxQueue        \* bound on the requests under way in a connection

ASSUME ServiceAssumption ==
    /\ FlushInterval \in Nat /\ MaxUsers \in Nat \ {0} /\ MaxQueue \in Nat
    /\ "root" \notin UserNames

VARIABLES
    up,         \* the server runs
    client,     \* what each client does
    handler,    \* what the thread of each connection does
    toServer,   \* requests in the socket
    toClient,   \* responses in the socket
    counter,    \* flush_counter
    users,      \* UserFile::users_
    records,    \* the user file on disk
    given,      \* history: the ids that were given since the format
    excused     \* history: users were lost by a crash, a full disk or a race

userVars == <<users, records, given, excused>>
vars == <<up, client, handler, toServer, toClient, counter, users, records, given, excused>>

-----------------------------------------------------------------------------
(* Requests.                                                                *)

\* "write" stands for insert too, "cat" for cat, read and stat, "chmod" for
\* chmod and chown; "overlong" is a write of BUFFER_SIZE bytes or more.
Refusable == {"format", "create", "mkdir", "rm", "rmdir", "cd", "ls", "cat", "write", "delete",
              "truncate", "chmod", "rename", "adduser", "del"}
AllOps == Refusable \cup {"overlong", "lsuser", "flush", "exit"}

ASSUME OpsAssumption == Ops \subseteq AllOps \ {"exit"}

\* Where the client calls bytepack_recv after bytepack_send.
Waits(op) == op # "flush"

\* Where the handler sends a response: OP_DELALL runs on into OP_FLUSH.
AnswersFlush(op) == op # "del"   \* mutant: break instead of continue
AnswersLess(op) == op \notin {"del", "flush", "ls"}   \* mutant: another case that runs on
Answers(op) == op \notin {"del", "flush"}

-----------------------------------------------------------------------------
NoClient == [pc |-> "out", op |-> "none"]
Ready == [pc |-> "ready", op |-> "none"]
NoHandler == [pc |-> "none", op |-> "none", name |-> "root", user |-> 0, asked |-> FALSE,
              stale |-> FALSE, read |-> 0]
Spinning == [NoHandler EXCEPT !.pc = "spin"]    \* it uses its session no more

Init ==
    /\ up = FALSE
    /\ client = [c \in Clients |-> NoClient]
    /\ handler = [c \in Clients |-> NoHandler]
    /\ toServer = [c \in Clients |-> << >>]
    /\ toClient = [c \in Clients |-> << >>]
    /\ counter = FlushInterval
    /\ users = << >> /\ records = NoFile
    /\ given = {}
    /\ excused = FALSE

At(c, pc) == up /\ handler[c].pc = pc
Goto(c, pc) == handler' = [handler EXCEPT ![c].pc = pc]

\* The client's end of the connection is closed.
Closed(c) == client[c].pc = "out"

-----------------------------------------------------------------------------
(* The client.                                                              *)

\* connect_to_server, accept, pthread_create; the name is sent.
Connect(c) == \E name \in UserNames \cup {"root"} :
    /\ up /\ Closed(c) /\ handler[c].pc = "none"
    /\ client' = [client EXCEPT ![c] = [pc |-> "login", op |-> "login"]]
    /\ handler' = [handler EXCEPT ![c] = [NoHandler EXCEPT !.pc = "login", !.name = name]]
    /\ toServer' = [toServer EXCEPT ![c] = <<"login">>]
    /\ toClient' = [toClient EXCEPT ![c] = << >>]
    /\ UNCHANGED <<up, counter, userVars>>

\* The main loop sends one request.  After flush it sends the next one.
Ask(c) == \E op \in Ops :
    /\ client[c].pc = "ready" /\ Len(toServer[c]) < MaxQueue
    /\ client' = IF Waits(op) THEN [client EXCEPT ![c] = [pc |-> "wait", op |-> op]] ELSE client
    /\ toServer' = IF handler[c].pc = "none" THEN toServer
                   ELSE [toServer EXCEPT ![c] = Append(@, op)]
    /\ UNCHANGED <<up, handler, toClient, counter, userVars>>

\* The response to the username: 0, or the client ends.
LoggedIn(c) ==
    /\ client[c].pc = "login" /\ toClient[c] # << >>
    /\ client' = [client EXCEPT ![c] = IF Head(toClient[c]) = "login" THEN Ready ELSE NoClient]
    /\ toClient' = [toClient EXCEPT ![c] = Tail(@)]
    /\ UNCHANGED <<up, handler, toServer, counter, userVars>>

Receive(c) ==
    /\ client[c].pc = "wait" /\ toClient[c] # << >>
    /\ client' = [client EXCEPT ![c] = Ready]
    /\ toClient' = [toClient EXCEPT ![c] = Tail(@)]
    /\ UNCHANGED <<up, handler, toServer, counter, userVars>>

\* "exit", the end of the process at any time, or after the size of a message
\* was sent and before its bytes were.  Of the name nothing may have been sent.
LeftBehind(c) ==
    {toServer[c]}
    \cup (IF client[c].pc = "ready" /\ handler[c].pc # "none"
          THEN {Append(toServer[c], last) : last \in {"exit"} \cup
                   (IF Len(toServer[c]) < MaxQueue THEN {"torn"} ELSE {})}
          ELSE {})
    \cup (IF handler[c].pc = "login" THEN {<< >>, <<"torn">>} ELSE {})

Leave(c) ==
    /\ ~Closed(c)
    /\ client' = [client EXCEPT ![c] = NoClient]
    /\ \E queue \in LeftBehind(c) : toServer' = [toServer EXCEPT ![c] = queue]
    /\ toClient' = [toClient EXCEPT ![c] = << >>]
    /\ UNCHANGED <<up, handler, counter, userVars>>

-----------------------------------------------------------------------------
(* The handler.                                                             *)

\* bytepack_send to a client that is there.
Reply(c, op) ==
    toClient' = IF Closed(c) THEN toClient ELSE [toClient EXCEPT ![c] = Append(@, op)]

\* open_working_dir
HandleLogin(c) ==
    LET name == handler[c].name
        uid == IF name = "root" THEN 0 ELSE Lookup(users, name)
        ok == name = "root" \/ uid # 0
    IN  /\ At(c, "login") /\ toServer[c] = <<"login">>
        /\ toServer' = [toServer EXCEPT ![c] = << >>]
        /\ handler' = [handler EXCEPT ![c] = IF ok THEN [@ EXCEPT !.pc = "count", !.user = uid]
                                             ELSE NoHandler]
        /\ Reply(c, IF ok THEN "login" ELSE "refused")
        /\ UNCHANGED <<up, client, counter, userVars>>

\* The connection is closed before the name is there, or within it.
LoginCut(c) ==
    /\ At(c, "login") /\ toServer[c] # <<"login">>
    /\ handler' = [handler EXCEPT ![c] =
                       IF toServer[c] = << >> THEN NoHandler ELSE Spinning]
    /\ toServer' = [toServer EXCEPT ![c] = << >>]
    /\ UNCHANGED <<up, client, toClient, counter, userVars>>

\* --flush_counter, by several threads.  Two of them can push it down without
\* end, each flushing; values below 0 are alike.
Decremented(n) == IF n < 0 THEN n ELSE n - 1

Count(c) ==
    /\ At(c, "count")
    /\ handler' = [handler EXCEPT ![c].pc = "counted", ![c].read = counter]
    /\ UNCHANGED <<up, client, toServer, toClient, counter, userVars>>

CountedUnsigned(c) ==   \* mutant: a counter that wraps instead of passing 0
    /\ At(c, "counted")
    /\ counter' = (handler[c].read - 1) % (FlushInterval + 1)
    /\ handler' = [handler EXCEPT ![c].pc = "test", ![c].read = counter']
    /\ UNCHANGED <<up, client, toServer, toClient, userVars>>

Counted(c) ==
    /\ At(c, "counted")
    /\ counter' = Decremented(handler[c].read)
    /\ handler' = [handler EXCEPT ![c].pc = "test", ![c].read = counter']
    /\ UNCHANGED <<up, client, toServer, toClient, userVars>>

\* The test of flush_counter, of what was written or of what it is by then: the
\* compiler may do either, as the counter is not atomic.
Test(c) == \E n \in {handler[c].read, counter} :
    /\ At(c, "test")
    /\ handler' = [handler EXCEPT ![c].pc = IF n < 0 THEN "flush" ELSE "recv", ![c].read = 0]
    /\ UNCHANGED <<up, client, toServer, toClient, counter, userVars>>

Flush(c) ==
    /\ At(c, "flush")
    /\ counter' = FlushInterval
    /\ Goto(c, "recv")
    /\ UNCHANGED <<up, client, toServer, toClient, userVars>>

\* bytepack_recv, and the tests before the switch.  A connection that is
\* closed leaves the size 0; one that is closed within a message leaves the
\* loop of bytepack_recv without an end.
Received(h, op) ==
    CASE op = "exit" -> NoHandler
      [] op = "torn" -> Spinning
      [] op = "overlong" -> [h EXCEPT !.pc = "count"]
      [] OTHER -> [h EXCEPT !.pc = "serve", !.op = op]

RecvNoReset(c) ==   \* mutant: the size of the last request is still there
    /\ At(c, "recv")
    /\ \/ /\ toServer[c] = << >> /\ Closed(c)
          /\ Goto(c, "spin")
          /\ UNCHANGED toServer
       \/ /\ toServer[c] # << >>
          /\ handler' = [handler EXCEPT ![c] = Received(@, Head(toServer[c]))]
          /\ toServer' = [toServer EXCEPT ![c] = Tail(@)]
    /\ UNCHANGED <<up, client, toClient, counter, userVars>>

Recv(c) ==
    /\ At(c, "recv")
    /\ \/ /\ toServer[c] = << >> /\ Closed(c)
          /\ handler' = [handler EXCEPT ![c] = NoHandler]
          /\ UNCHANGED toServer
       \/ /\ toServer[c] # << >>
          /\ handler' = [handler EXCEPT ![c] = Received(@, Head(toServer[c]))]
          /\ toServer' = [toServer EXCEPT ![c] = Tail(@)]
    /\ UNCHANGED <<up, client, toClient, counter, userVars>>

\* After the switch: a response, or none, and the next request.  What is sent
\* depends on nothing that others change in between.
Served(h) == [h EXCEPT !.pc = "count", !.op = "none", !.read = 0]
Respond(c) ==
    IF Answers(handler[c].op) THEN Reply(c, handler[c].op) ELSE UNCHANGED toClient

\* What the users do not depend on.  OP_FLUSH resets the counter.
Serve(c) ==
    /\ At(c, "serve") /\ handler[c].op \notin {"format", "adduser"}
    /\ handler' = [handler EXCEPT ![c] = Served(@)]
    /\ Respond(c)
    /\ counter' = IF handler[c].op \in {"del", "flush"} THEN FlushInterval ELSE counter
    /\ UNCHANGED <<up, client, toServer, userVars>>

\* OP_FORMAT: the working directory is opened again for root, whoever asked,
\* and even after a refusal.  A format forgets all users.
AsRootKeeps(h) == [Served(h) EXCEPT !.asked = TRUE, !.stale = FALSE]   \* mutant: its id stays
AsRoot(h) == [Served(h) EXCEPT !.user = 0, !.asked = TRUE, !.stale = FALSE]

ServeFormat(c) ==
    /\ At(c, "serve") /\ handler[c].op = "format"
    /\ \/ /\ handler' = [handler EXCEPT ![c] = AsRoot(@)]
          /\ UNCHANGED userVars
       \/ /\ \A d \in Clients : handler[d].pc # "add"   \* else undefined
          /\ handler' = [d \in Clients |->
                IF d = c THEN AsRoot(handler[c])
                ELSE [handler[d] EXCEPT !.stale = handler[d].user # 0]]
          /\ users' = Loaded(<< >>) /\ records' = NoFile
          /\ given' = {} /\ excused' = FALSE
    /\ Respond(c)
    /\ UNCHANGED <<up, client, toServer, counter>>

\* OP_ADDUSER: for root, and a name that is short enough.
ServeAddUser(c) ==
    /\ At(c, "serve") /\ handler[c].op = "adduser"
    /\ \/ handler' = [handler EXCEPT ![c] = Served(@)] /\ Respond(c)
       \/ /\ handler[c].user = 0 /\ Len(users) < MaxUsers
          /\ handler' = [handler EXCEPT ![c].pc = "add", ![c].read = PlaceFor(users)]
          /\ UNCHANGED toClient
    /\ UNCHANGED <<up, client, toServer, counter, userVars>>

\* The second half of push_back.
AddUser(c) == \E name \in UserNames :
    LET place == handler[c].read
    IN  /\ At(c, "add")
        /\ users' \in Placed(users, place, name)
        /\ excused' = (excused \/ place # PlaceFor(users))
        /\ given' = given \cup {place - 1}
        /\ handler' = [handler EXCEPT ![c] = Served(@)]
        /\ Respond(c)
        /\ UNCHANGED <<up, client, toServer, counter, records>>

-----------------------------------------------------------------------------
(* The server process.                                                      *)

\* main: the operator formats the disk, or loads what is on it.
Start ==
    /\ ~up /\ up' = TRUE
    /\ \/ /\ users' = Loaded(<< >>) /\ records' = NoFile
          /\ given' = {} /\ excused' = FALSE
       \/ /\ records # NoFile /\ users' = Loaded(records)
          /\ UNCHANGED <<records, given, excused>>
    /\ counter' = FlushInterval
    /\ UNCHANGED <<client, handler, toServer, toClient>>

Disconnected ==
    /\ up /\ up' = FALSE
    /\ handler' = [c \in Clients |-> NoHandler]
    /\ toServer' = [c \in Clients |-> << >>]
    /\ users' = << >>
    /\ UNCHANGED <<client, toClient, counter, given>>

\* SIGINTHandler, while no handler is at work: exit() deletes the file
\* system, and with it the user file.
Stop ==
    /\ \A c \in Clients : handler[c].pc \in {"none", "login", "recv", "spin"}
    /\ \E after \in SavedFiles(users, IF records = NoFile THEN << >> ELSE records) :
          /\ records' = after
          /\ excused' = (excused \/ after # users)
    /\ Disconnected

\* The process ends otherwise: one reason is the signal for a send to a
\* client that has closed its end.
Crash ==
    /\ excused' = (excused \/ Loaded(IF records = NoFile THEN << >> ELSE records) # users)
    /\ UNCHANGED records
    /\ Disconnected

\* rmuser of the interactive test, which loads the disk, removes and saves.
RemoveUser == \E uid \in 1 .. MaxUsers :
    /\ ~up /\ records # NoFile
    /\ records' = Removed(Loaded(records), uid)
    /\ UNCHANGED <<up, client, handler, toServer, toClient, counter, users, given, excused>>

-----------------------------------------------------------------------------
Step(c) ==
    \/ HandleLogin(c) \/ LoginCut(c) \/ Count(c) \/ Counted(c) \/ Test(c) \/ Flush(c) \/ Recv(c)
    \/ Serve(c) \/ ServeFormat(c) \/ ServeAddUser(c) \/ AddUser(c)

Next ==
    \/ \E c \in Clients : Connect(c) \/ Ask(c) \/ LoggedIn(c) \/ Receive(c) \/ Leave(c) \/ Step(c)
    \/ Start \/ Stop \/ Crash \/ RemoveUser

\* Every thread is scheduled; a client reads the response that has come.
Fairness == \A c \in Clients : WF_vars(Step(c)) /\ WF_vars(LoggedIn(c) \/ Receive(c))

Spec == Init /\ [][Next]_vars /\ Fairness

-----------------------------------------------------------------------------
(* Properties.                                                              *)

\* Handlers that have a session: open_working_dir made wd.
Session(c) == handler[c].pc \notin {"none", "login"}

\* The type invariant.
TypeOK ==
    /\ up \in BOOLEAN /\ excused \in BOOLEAN /\ counter \in -1 .. FlushInterval
    /\ client \in [Clients -> [pc : {"out", "login", "ready", "wait"},
                               op : Ops \cup {"none", "login"}]]
    /\ handler \in [Clients ->
          [pc : {"none", "login", "count", "counted", "test", "flush", "recv", "serve", "add",
                 "spin"},
           op : Ops \cup {"none"}, name : UserNames \cup {"root"},
           user : 0 .. MaxUsers - 1, asked : BOOLEAN, stale : BOOLEAN, read : Int]]
    /\ toServer \in [Clients -> Seq(Ops \cup {"login", "exit", "torn"})]
    /\ toClient \in [Clients -> Seq(Ops \cup {"login", "refused"})]
    /\ users \in Seq(Users) /\ Len(users) <= MaxUsers
    /\ records \in {NoFile} \cup Seq(Users)
    /\ given \subseteq 1 .. MaxUsers - 1

\* A client never takes a response for that to another request: messages have
\* no identity, so the response that comes while a client waits must be the
\* only one, and to what it asked (handler, main of client.cc).
ReplyMatches == \A c \in Clients : toClient[c] # << >> =>
    /\ client[c].pc \in {"login", "wait"}
    /\ Len(toClient[c]) = 1
    /\ toClient[c][1] \in {client[c].op} \cup (IF client[c].pc = "login" THEN {"refused"} ELSE {})

\* Whoever logged in under a name acts with an id that this name has, however
\* users are added and removed, and the server restarted, in between
\* (open_working_dir, lookup), and with root's only as root, or having asked for
\* a format.  Another's format or a race may take the name away.
SessionUser == \A c \in Clients : Session(c) =>
    IF handler[c].user = 0 THEN handler[c].name = "root" \/ handler[c].asked
    ELSE \/ handler[c].stale \/ excused
         \/ /\ handler[c].user < Len(users)
            /\ users[handler[c].user + 1].name = handler[c].name

\* "... a context, called WorkingDir, for each connecting client, which contains
\* the current directory and the current user" (Project3report.pdf, 4.5.1): the
\* user is the one that logged in, so root's id is for root.
OnlyRootIsRoot == \A c \in Clients :
    Session(c) /\ handler[c].user = 0 => handler[c].name = "root"

\* Files belong to ids, so an id that one user had is never given to another:
\* not after remove_user, and not after a restart that kept the users
\* (add_user, remove_user, ~UserFile).
IdsGivenOnce ==
    [][\A c \in Clients : AddUser(c) => excused' \/ handler[c].read - 1 \notin given]_vars

\* A client that waits for a response gets one, or its connection ends; not
\* for del and an overlong write, which the handler never answers.
AnswerComes == \A c \in Clients :
    (client[c].pc = "wait" /\ client[c].op \notin {"del", "overlong"})
        ~> (client[c].pc # "wait" \/ handler[c].pc = "none")

\* The thread of a client that is gone ends, whatever requests and responses
\* were under way, unless the connection was closed within a message.
HandlerEnds == \A c \in Clients :
    (Closed(c) /\ handler[c].pc \notin {"none", "spin"} /\ "torn" \notin ToSet(toServer[c]))
        ~> handler[c].pc = "none"

\* However the threads' updates of the counter fall over each other, the
\* server does not take requests for ever without a flush or a new start.
FlushHappens ==
    []<><<\E c \in Clients : Recv(c)>>_vars =>
        []<><<\/ \E c \in Clients : Flush(c) \/ (Serve(c) /\ counter' = FlushInterval)
              \/ Start>>_vars
=============================================================================
