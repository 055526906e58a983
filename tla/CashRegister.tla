---------------------------- MODULE CashRegister ----------------------------
(***************************************************************************)
(* Assignment1: server.cpp and client.cpp.  A client sends one command at  *)
(* a time and shows the reply.  The server's parent accepts connections    *)
(* and forks a child for each, which keeps the running total.  Either side *)
(* may be stopped with Ctrl+C and a client may vanish without a word; then *)
(* recv returns 0 or -1, and a send to an end that is gone is answered by  *)
(* a reset, after which the next send kills the sender (SIGPIPE).          *)
(*                                                                         *)
(* Messages are 100 bytes each and are taken to travel whole and in order. *)
(***************************************************************************)
EXTENDS Integers, Sequences, SequencesExt

CONSTANTS
    Clients,
    Cost,           \* price times quantity of each item command in the data base
    MaxCommands,    \* bound: commands a client types, for each client
    MaxSold         \* bound: items a child sells, repetitions included

Items == DOMAIN Cost

ASSUME CostAssumption == \A i \in Items : Cost[i] \in Nat
ASSUME BoundAssumption == MaxCommands \in [Clients -> Nat] /\ MaxSold \in Nat
ASSUME NamesAssumption == /\ {"wrong", "end", "-999", "none"} \cap Items = {}
                          /\ {"parent", "none"} \cap Clients = {}

\* What a user may type: an item of the data base; a code that is not in it
\* or a malformed request; the end of the purchase; or the text of Ctrl+C.
Commands == Items \cup {"wrong", "end", "-999"}

\* Replies, by their code: an item, an error, the total, server terminated.
Replies == ({"0"} \X Items) \cup {<<"1">>, <<"3">>} \cup ({"2"} \X Nat)
\* Buffers that were never filled.
NoCommand == "none"
NoReply == <<"none">>

VARIABLES
    parent,         \* where the accept loop is
    conn,           \* connectsd of the parent while it is open
    backlog,        \* connections that wait to be accepted
    child,          \* the child that serves the client
    buff,           \* its receive buffer
    total,          \* its running total
    sLink,          \* the server's end of the connection: ok, lost, reset
    signalled,      \* server processes with a pending SIGINT
    user,           \* where the client program is
    asked,          \* the command it waits for the reply to
    received,       \* its received_buff
    cLink,          \* the client's end of the connection
    toServer, toClient,     \* the two directions of the connection
    typed,          \* commands the user has typed
    acked,          \* history: cost of the commands the client saw confirmed
    sold,           \* history: items the child added to a total
    polite          \* history: the client has said -999 when it was stopped

parentVars == <<parent, conn, backlog, signalled>>
childVars == <<child, buff, total, sold>>
clientVars == <<user, asked, received, typed, acked, polite>>
links == <<sLink, cLink, toServer, toClient>>
vars == <<parentVars, childVars, clientVars, links>>

LinkStates == {"ok", "lost", "reset"}

\* Types of the variables; `parent' is also the line it stands at.
TypeOK ==
    /\ parent \in {"accept", "fork", "close", "gone"}
    /\ conn \in Clients \cup {"none"}
    /\ backlog \in Seq(Clients)
    /\ child \in [Clients -> {"none", "ready", "gone"}]
    /\ buff \in [Clients -> Commands \cup {NoCommand}]
    /\ total \in [Clients -> Nat]
    /\ sLink \in [Clients -> LinkStates]
    /\ signalled \subseteq Clients \cup {"parent"}
    /\ user \in [Clients -> {"start", "typing", "waiting", "gone"}]
    /\ asked \in [Clients -> Commands \cup {NoCommand}]
    /\ received \in [Clients -> Replies \cup {NoReply}]
    /\ cLink \in [Clients -> LinkStates]
    /\ toServer \in [Clients -> Seq(Commands)]
    /\ toClient \in [Clients -> Seq(Replies)]
    /\ typed \in [Clients -> Nat]
    /\ acked \in [Clients -> Nat]
    /\ sold \in [Clients -> Nat]
    /\ polite \subseteq Clients

Init ==
    /\ parent = "accept" /\ conn = "none" /\ backlog = <<>>
    /\ child = [c \in Clients |-> "none"]
    /\ buff = [c \in Clients |-> NoCommand]
    /\ total = [c \in Clients |-> 0]
    /\ sLink = [c \in Clients |-> "ok"]
    /\ signalled = {}
    /\ user = [c \in Clients |-> "start"]
    /\ asked = [c \in Clients |-> NoCommand]
    /\ received = [c \in Clients |-> NoReply]
    /\ cLink = [c \in Clients |-> "ok"]
    /\ toServer = [c \in Clients |-> <<>>]
    /\ toClient = [c \in Clients |-> <<>>]
    /\ typed = [c \in Clients |-> 0]
    /\ acked = [c \in Clients |-> 0]
    /\ sold = [c \in Clients |-> 0]
    /\ polite = {}

-----------------------------------------------------------------------------
(* The connection. *)

\* The server's end is open while somebody holds a descriptor of it: the
\* queue of connections not accepted, the parent or the child.
Closed(c) ==
    c \notin ToSet(backlog) /\ c # conn /\ child[c] # "ready"

\* A reply is sent.  At an end that is gone it only provokes a reset.
Reply(c, r) ==
    IF user[c] = "gone"
    THEN /\ sLink' = [sLink EXCEPT ![c] = IF @ = "ok" THEN "lost" ELSE @]
         /\ UNCHANGED toClient
    ELSE /\ toClient' = [toClient EXCEPT ![c] = Append(@, r)]
         /\ UNCHANGED sLink

\* What becomes of the requests q in the queues when this step closes ends:
\* they are dropped, and a client that had sent any is reset.
DropUnread(q) ==
    LET closed == {c \in Clients : ~Closed(c) /\ Closed(c)'} IN
    /\ toServer' = [c \in Clients |-> IF c \in closed THEN <<>> ELSE q[c]]
    /\ cLink' = [c \in Clients |-> IF c \in closed /\ q[c] # <<>> THEN "lost" ELSE cLink[c]]

\* The reset comes back to the server's, or to the client's, end.
ResetServer(c) ==
    /\ sLink[c] = "lost"
    /\ sLink' = [sLink EXCEPT ![c] = "reset"]
    /\ UNCHANGED <<parentVars, childVars, clientVars, cLink, toServer, toClient>>

ResetClient(c) ==
    /\ cLink[c] = "lost"
    /\ cLink' = [cLink EXCEPT ![c] = "reset"]
    /\ UNCHANGED <<parentVars, childVars, clientVars, sLink, toServer, toClient>>

-----------------------------------------------------------------------------
(* The server's parent. *)

Accept ==
    /\ parent = "accept" /\ "parent" \notin signalled
    /\ backlog # <<>>
    /\ conn' = Head(backlog)
    /\ backlog' = Tail(backlog)
    /\ parent' = "fork"
    /\ UNCHANGED <<signalled, childVars, clientVars, links>>

\* fork may fail: the code takes its -1 for the pid of a child.
Fork ==
    /\ parent = "fork" /\ "parent" \notin signalled
    /\ parent' = "close"
    /\ \/ child' = [child EXCEPT ![conn] = "ready"]
       \/ UNCHANGED child
    /\ UNCHANGED <<conn, backlog, signalled, buff, total, sold, clientVars, links>>

\* Mutant: the parent keeps its copy of the descriptor.
KeepCopy ==
    /\ parent = "close" /\ "parent" \notin signalled
    /\ parent' = "accept"
    /\ UNCHANGED <<conn, backlog, signalled, childVars, clientVars, links>>

CloseCopy ==
    /\ parent = "close" /\ "parent" \notin signalled
    /\ parent' = "accept"
    /\ conn' = "none"
    /\ UNCHANGED <<backlog, signalled, childVars, clientVars, sLink, toClient>>
    /\ DropUnread(toServer)

\* sig_handler in the parent: connectsd is open between accept and close
\* only.  The exit closes it, and the connections not yet accepted.
InterruptParent ==
    /\ "parent" \in signalled
    /\ IF conn # "none" THEN Reply(conn, <<"3">>) ELSE UNCHANGED <<sLink, toClient>>
    /\ parent' = "gone" /\ conn' = "none" /\ backlog' = <<>>
    /\ signalled' = signalled \ {"parent"}
    /\ UNCHANGED <<childVars, clientVars>>
    /\ DropUnread(toServer)

\* Ctrl+C at the server's terminal signals every process of the server.
Interrupt ==
    /\ parent # "gone" /\ signalled = {}
    /\ signalled' = {"parent"} \cup {c \in Clients : child[c] = "ready"}
    /\ UNCHANGED <<parent, conn, backlog, childVars, clientVars, links>>

-----------------------------------------------------------------------------
(* A child of the server.  One round of its loop, from recv to send, is    *)
(* one step: what lies between touches nothing that is shared.             *)

\* recv returns with command m in the buffer: the next one of the queue, or,
\* when the client is gone and recv returns 0, the one received last.
Received(c, m) ==
    /\ child[c] = "ready" /\ c \notin signalled
    /\ \/ toServer[c] # <<>> /\ m = Head(toServer[c])
       \/ /\ toServer[c] = <<>> /\ m = buff[c]
          /\ user[c] = "gone" /\ sLink[c] # "reset" /\ sold[c] < MaxSold

Remaining(c) == [toServer EXCEPT ![c] = IF @ = <<>> THEN @ ELSE Tail(@)]

\* The child exits, q being the requests in the queues.
Exit(c, q) ==
    /\ child' = [child EXCEPT ![c] = "gone"]
    /\ buff' = [buff EXCEPT ![c] = NoCommand]
    /\ total' = [total EXCEPT ![c] = 0]
    /\ DropUnread(q)

\* The child answers command m with r and goes on with t as its total; a
\* send on a connection that was reset ends it.
Answer(c, m, r, t) ==
    /\ Reply(c, r)
    /\ UNCHANGED <<parentVars, clientVars>>
    /\ IF sLink[c] = "reset"
       THEN Exit(c, Remaining(c))
       ELSE /\ buff' = [buff EXCEPT ![c] = m]
            /\ total' = [total EXCEPT ![c] = t]
            /\ toServer' = Remaining(c)
            /\ UNCHANGED <<child, cLink>>

\* Mutant: an item replaces the total instead of adding to it.
SellLast(c) ==
    /\ \E i \in Items : Received(c, i) /\ Answer(c, i, <<"0", i>>, Cost[i])
    /\ sold' = [sold EXCEPT ![c] = @ + 1]

\* An item of the data base.
Sell(c) ==
    /\ \E i \in Items : Received(c, i) /\ Answer(c, i, <<"0", i>>, total[c] + Cost[i])
    /\ sold' = [sold EXCEPT ![c] = @ + 1]

\* An unknown code, a malformed request, or an empty buffer.
Refuse(c) ==
    /\ \E m \in {"wrong", NoCommand} : Received(c, m) /\ Answer(c, m, <<"1">>, total[c])
    /\ UNCHANGED sold

\* The total is sent and the child exits.
Bill(c) ==
    /\ Received(c, "end")
    /\ Reply(c, <<"2", total[c]>>)
    /\ UNCHANGED <<parentVars, sold, clientVars>>
    /\ Exit(c, Remaining(c))

\* The client has announced its Ctrl+C.
Quit(c) ==
    /\ Received(c, "-999")
    /\ UNCHANGED <<parentVars, sold, clientVars, sLink, toClient>>
    /\ Exit(c, Remaining(c))

\* Mutant: after an error of recv the child tries again.
Retry(c) ==
    /\ child[c] = "ready" /\ c \notin signalled
    /\ toServer[c] = <<>> /\ sLink[c] = "reset"
    /\ UNCHANGED vars

\* recv fails: the message about it goes nowhere and the child exits.
FailReceive(c) ==
    /\ child[c] = "ready" /\ c \notin signalled
    /\ toServer[c] = <<>> /\ sLink[c] = "reset"
    /\ UNCHANGED <<parentVars, sold, clientVars, sLink, toClient>>
    /\ Exit(c, toServer)

\* sig_handler in a child.
InterruptChild(c) ==
    /\ c \in signalled
    /\ signalled' = signalled \ {c}
    /\ Reply(c, <<"3">>)
    /\ UNCHANGED <<parent, conn, backlog, sold, clientVars>>
    /\ Exit(c, toServer)

-----------------------------------------------------------------------------
(* A client. *)

\* The client program ends; replies in q it has not read make a reset.
Leave(c, q) ==
    /\ user' = [user EXCEPT ![c] = "gone"]
    /\ asked' = [asked EXCEPT ![c] = NoCommand]
    /\ received' = [received EXCEPT ![c] = NoReply]
    /\ acked' = [acked EXCEPT ![c] = 0]
    /\ toClient' = [toClient EXCEPT ![c] = <<>>]
    /\ sLink' = [sLink EXCEPT ![c] = IF @ = "ok" /\ q # <<>> THEN "lost" ELSE @]

\* connect is refused when nobody listens.
Connect(c) ==
    /\ user[c] = "start"
    /\ IF parent = "gone"
       THEN user' = [user EXCEPT ![c] = "gone"] /\ UNCHANGED backlog
       ELSE user' = [user EXCEPT ![c] = "typing"] /\ backlog' = Append(backlog, c)
    /\ UNCHANGED <<parent, conn, signalled, childVars, asked, received, typed, acked, polite, links>>

\* The user types a command and the client sends it.
Type(c) ==
    /\ user[c] = "typing" /\ cLink[c] # "reset"
    /\ typed[c] < MaxCommands[c]
    /\ typed' = [typed EXCEPT ![c] = @ + 1]
    /\ user' = [user EXCEPT ![c] = "waiting"]
    /\ \E m \in Commands :
         /\ asked' = [asked EXCEPT ![c] = m]
         /\ IF Closed(c)
            THEN cLink' = [cLink EXCEPT ![c] = "lost"] /\ UNCHANGED toServer
            ELSE toServer' = [toServer EXCEPT ![c] = Append(@, m)] /\ UNCHANGED cLink
    /\ UNCHANGED <<parentVars, childVars, received, acked, polite, sLink, toClient>>

\* A send on a connection that was reset kills the client.
BrokenPipe(c) ==
    /\ user[c] = "typing" /\ cLink[c] = "reset"
    /\ typed[c] < MaxCommands[c]
    /\ Leave(c, toClient[c])
    /\ UNCHANGED <<parentVars, childVars, typed, polite, cLink, toServer>>

\* The client acts on the code of reply r, of which q are then left.  The
\* buffer that was never filled shows nothing.
Act(c, r, q) ==
    IF r[1] \in {"2", "3"}
    THEN Leave(c, q)
    ELSE /\ user' = [user EXCEPT ![c] = "typing"]
         /\ asked' = [asked EXCEPT ![c] = NoCommand]
         /\ received' = [received EXCEPT ![c] = r]
         /\ acked' = IF r[1] = "0" /\ asked[c] \in Items
                     THEN [acked EXCEPT ![c] = @ + Cost[asked[c]]] ELSE acked
         /\ toClient' = [toClient EXCEPT ![c] = q]
         /\ UNCHANGED sLink

\* Mutant: recv does not wait for the reply.
ReceiveAtOnce(c) ==
    /\ user[c] = "waiting"
    /\ \/ toClient[c] # <<>> /\ Act(c, Head(toClient[c]), Tail(toClient[c]))
       \/ toClient[c] = <<>> /\ Act(c, received[c], <<>>)
    /\ UNCHANGED <<parentVars, childVars, typed, polite, cLink, toServer>>

\* The client receives a reply.  When the server's end is closed recv
\* returns at once, and the reply received last is acted on again.
Receive(c) ==
    /\ user[c] = "waiting"
    /\ \/ toClient[c] # <<>> /\ Act(c, Head(toClient[c]), Tail(toClient[c]))
       \/ toClient[c] = <<>> /\ Closed(c) /\ Act(c, received[c], <<>>)
    /\ UNCHANGED <<parentVars, childVars, typed, polite, cLink, toServer>>

\* Mutant: the handler only closes the socket.
StopSilently(c) ==
    /\ user[c] \in {"typing", "waiting"}
    /\ polite' = polite \cup {c}
    /\ Leave(c, toClient[c])
    /\ UNCHANGED <<parentVars, childVars, typed, cLink, toServer>>

\* sig_handler of the client: Ctrl+C at any time.
Stop(c) ==
    /\ user[c] \in {"typing", "waiting"}
    /\ toServer' = IF Closed(c) THEN toServer
                   ELSE [toServer EXCEPT ![c] = Append(@, "-999")]
    /\ polite' = polite \cup {c}
    /\ Leave(c, toClient[c])
    /\ UNCHANGED <<parentVars, childVars, typed, cLink>>

\* The client is killed, or its machine closes the connection for it.
Vanish(c) ==
    /\ user[c] \in {"typing", "waiting"}
    /\ Leave(c, toClient[c])
    /\ UNCHANGED <<parentVars, childVars, typed, polite, cLink, toServer>>

-----------------------------------------------------------------------------
ParentStep == Accept \/ Fork \/ CloseCopy \/ InterruptParent

ChildStep(c) ==
    Sell(c) \/ Refuse(c) \/ Bill(c) \/ Quit(c) \/ FailReceive(c) \/ InterruptChild(c)

ResetStep(c) == ResetServer(c) \/ ResetClient(c)

Next ==
    \/ ParentStep \/ Interrupt
    \/ \E c \in Clients :
         \/ ChildStep(c) \/ ResetStep(c)
         \/ Connect(c) \/ Type(c) \/ BrokenPipe(c) \/ Receive(c) \/ Stop(c) \/ Vanish(c)

\* The processes of the server run, resets arrive and a client that can
\* receive does.  Nothing is assumed of users, of Ctrl+C, or of fork.
Fairness ==
    /\ WF_vars(ParentStep)
    /\ \A c \in Clients : WF_vars(ChildStep(c)) /\ WF_vars(ResetStep(c)) /\ WF_vars(Receive(c))

Spec == Init /\ [][Next]_vars /\ Fairness

-----------------------------------------------------------------------------
(* Properties *)

\* The cost of the items confirmed in a sequence of replies.
Confirmed(q) ==
    SumFunctionOnSet([n \in DOMAIN q |-> IF q[n][1] = "0" THEN Cost[q[n][2]] ELSE 0],
                     DOMAIN q)

\* A customer pays for what was confirmed, and for nothing else: while the
\* client runs, the child's total is the cost of the commands the client saw
\* confirmed and of the confirmations on their way, and the bill on its way
\* is the sum of the confirmed ones (server.cpp:190, 199).
BillIsRight ==
    \A c \in Clients : user[c] # "gone" =>
        /\ child[c] = "ready" => total[c] = acked[c] + Confirmed(toClient[c])
        /\ \A n \in DOMAIN toClient[c] :
             toClient[c][n][1] = "2" => toClient[c][n][2] = acked[c]

Answers(r, m) ==
    \/ r[1] = "0" /\ m \in Items /\ r[2] = m
    \/ r[1] = "1" /\ m = "wrong"

\* What a client shows and goes on from is the reply to the command it has
\* just sent, unless the server has closed the connection (client.cpp:89-107).
RepliesInStep ==
    [][\A c \in Clients :
         user[c] = "waiting" /\ user'[c] = "typing" =>
            Closed(c) \/ Answers(received'[c], asked[c])]_vars

\* A child does not sell more than was ordered, unless its client has gone
\* without the -999 that its handler sends (server.cpp:149, client.cpp:124).
NoPhantomSale ==
    \A c \in Clients :
        user[c] # "gone" \/ c \in polite => sold[c] <= typed[c]

\* A client that waits for a reply gets one or learns that there is none
\* (client.cpp:89), whatever becomes of the server.
RequestsReturn == \A c \in Clients : user[c] = "waiting" ~> user[c] # "waiting"

\* The child of a client that is gone ends (server.cpp:149-164).
ChildrenEnd ==
    \A c \in Clients : user[c] = "gone" /\ child[c] = "ready" ~> child[c] = "gone"

=============================================================================
