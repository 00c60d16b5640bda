------------------------------ MODULE MCService ------------------------------
(* Instances of Service for TLC. *)
EXTENDS Service, TLC

UserSymmetry == Permutations(Clients) \cup Permutations(UserNames)

\* The counter only decides whether a flush is on the way from one request to
\* the next, and `read' is of the counter unless a user is added.
Looked == <<up, client, [c \in Clients |-> IF handler[c].pc = "add" THEN handler[c]
                                           ELSE [handler[c] EXCEPT !.read = 0]],
            toServer, toClient, userVars>>
==============================================================================
