------------------------- MODULE CashRegisterProofs -------------------------
(***************************************************************************)
(* Proofs about the cash register, for any number of clients, commands and *)
(* items, whoever is interrupted, vanishes or is reset: a customer pays    *)
(* for what was confirmed, nothing is sold that was not ordered, and the   *)
(* replies are those to the commands.                                      *)
(***************************************************************************)
EXTENDS CashRegister, Sums, SequenceTheorems

\* The connection of c waits to be accepted, or forked for.
Pending(c) == c \in ToSet(backlog) \/ (c = conn /\ parent = "fork")

\* A child serves client c, or may come to do so.
MayServe(c) == Pending(c) \/ child[c] = "ready"

\* Each connection that waits to be accepted is there once.
Queue ==
    /\ \A m, n \in DOMAIN backlog : backlog[m] = backlog[n] => m = n
    /\ \A c \in ToSet(backlog) : c # conn
    /\ parent \in {"accept", "gone"} => conn = "none"
    /\ parent = "fork" => conn \in Clients

\* A connection that does not exist yet, or is pending, has seen nothing.
Fresh(c) ==
    /\ user[c] = "start" => ~Pending(c) /\ c # conn
    /\ user[c] = "start" \/ Pending(c) =>
         /\ child[c] = "none" /\ toClient[c] = <<>>
         /\ total[c] = 0 /\ acked[c] = 0 /\ sold[c] = 0

\* Ctrl+C reaches every child there is before the parent handles it.
Signals(c) ==
    /\ c \in signalled => child[c] = "ready"
    /\ "parent" \in signalled /\ child[c] = "ready" => c \in signalled

\* The command on its way to the server is the one the client waits for the
\* reply to.
Requests(c) ==
    /\ Closed(c) => toServer[c] = <<>>
    /\ user[c] \in {"start", "typing"} => toServer[c] = <<>>
    /\ user[c] = "waiting" => toServer[c] \in {<<>>, <<asked[c]>>}

\* The first reply on its way is the one to the command asked, or the parting
\* word of the server; only parting words follow.
Answered(c) == toClient[c] # <<>> /\ toClient[c][1][1] # "3"
ReplyOrder(c) ==
    /\ user[c] = "gone" => toClient[c] = <<>>
    /\ \A n \in DOMAIN toClient[c] : n > 1 => toClient[c][n] = <<"3">>
    /\ Answered(c) =>
         /\ user[c] = "waiting" /\ toServer[c] = <<>>
         /\ \/ Answers(toClient[c][1], asked[c])
            \/ toClient[c][1] = <<"2", acked[c]>> /\ child[c] # "ready"
    /\ \A n \in DOMAIN toClient[c] :
         toClient[c][n] = <<"3">> /\ child[c] = "ready" => c \in signalled

\* The cost of the first reply, if it confirms an item.
FirstCost(q) == IF q # <<>> /\ q[1][1] = "0" THEN Cost[q[1][2]] ELSE 0

\* The running total of a child is right.
Total(c) ==
    user[c] # "gone" /\ child[c] = "ready" =>
      total[c] = acked[c] + FirstCost(toClient[c])

\* What is ordered and not yet sold is on its way, and -999 comes after it.
Sales(c) ==
    /\ user[c] # "gone" => sold[c] + Len(toServer[c]) <= typed[c]
    /\ c \in polite => user[c] = "gone" /\ sold[c] <= typed[c]
    /\ c \in polite /\ MayServe(c) =>
         /\ toServer[c] # <<>> /\ Last(toServer[c]) = "-999"
         /\ sold[c] + Len(toServer[c]) - 1 <= typed[c]

Good(c) == Fresh(c) /\ Signals(c) /\ Requests(c) /\ ReplyOrder(c) /\ Total(c) /\ Sales(c)
IInv == TypeOK /\ Queue /\ \A c \in Clients : Good(c)

-----------------------------------------------------------------------------
(* Replies and what they confirm                                           *)

\* What a reply looks like.
LEMMA ReplyShape ==
    ASSUME NEW r \in Replies
    PROVE  \/ r[2] \in Items /\ r[1] = "0" /\ r = <<"0", r[2]>>
           \/ r = <<"1">> /\ r[1] = "1"
           \/ r = <<"3">> /\ r[1] = "3"
           \/ r[2] \in Nat /\ r[1] = "2" /\ r = <<"2", r[2]>>
BY DEF Replies

\* If only parting words follow the first reply, it alone may confirm an item.
LEMMA ConfirmedIsFirst ==
    ASSUME NEW q \in Seq(Replies),
           \A n \in DOMAIN q : n > 1 => q[n] = <<"3">>
    PROVE  Confirmed(q) = FirstCost(q)
<1> DEFINE f == [n \in DOMAIN q |-> IF q[n][1] = "0" THEN Cost[q[n][2]] ELSE 0]
           S == DOMAIN q
<1>1. S = 1..Len(q) /\ Len(q) \in Nat /\ IsFiniteSet(S)
  BY FS_Interval
<1>2. \A n \in S : f[n] \in Int
  <2>1. ASSUME NEW n \in S PROVE f[n] \in Int
    <3>1. q[n] \in Replies
      OBVIOUS
    <3>2. q[n][1] = "0" => q[n][2] \in Items
      BY <3>1, ReplyShape
    <3> QED BY <3>2, CostAssumption
  <2> QED BY <2>1
<1>3. \A n \in S : n > 1 => f[n] = 0
  OBVIOUS
<1>4. CASE q = <<>>
  <2>1. S = {}
    BY <1>4
  <2>2. SumFunctionOnSet(f, S) = 0
    <3> HIDE DEF f, S
    <3> QED BY <2>1, SumEmpty
  <2> QED BY <1>4, <2>2 DEF Confirmed, FirstCost
<1>5. CASE q # <<>>
  <2>1. 1 \in S /\ \A n \in S \ {1} : n > 1
    BY <1>1, <1>5
  <2>2. SumFunctionOnSet(f, S) = f[1] + SumFunctionOnSet(f, S \ {1})
    <3> HIDE DEF f, S
    <3>1. IsFiniteSet(S) /\ 1 \in S /\ \A n \in S : f[n] \in Int
      BY <1>1, <1>2, <2>1
    <3> QED BY <3>1, SumRemove
  <2>3. SumFunctionOnSet(f, S \ {1}) = 0
    <3>1. IsFiniteSet(S \ {1}) /\ \A n \in S \ {1} : f[n] = 0
      BY <1>1, <1>3, <2>1, FS_Subset
    <3> HIDE DEF f, S
    <3> QED BY <3>1, SumZero
  <2>4. f[1] \in Int
    BY <1>2, <2>1
  <2>5. SumFunctionOnSet(f, S) = f[1]
    <3> HIDE DEF f, S
    <3> QED BY <2>2, <2>3, <2>4
  <2>6. f[1] = FirstCost(q)
    BY <1>5, <2>1 DEF FirstCost
  <2> QED BY <2>5, <2>6 DEF Confirmed
<1> QED BY <1>4, <1>5

-----------------------------------------------------------------------------
(* Clients a step does not serve                                           *)

\* What belongs to client d stays.
Same(d) ==
    /\ child'[d] = child[d] /\ total'[d] = total[d] /\ sold'[d] = sold[d]
    /\ user'[d] = user[d] /\ asked'[d] = asked[d] /\ typed'[d] = typed[d]
    /\ acked'[d] = acked[d] /\ toServer'[d] = toServer[d] /\ toClient'[d] = toClient[d]
    /\ (d \in signalled' <=> d \in signalled) /\ (d \in polite' <=> d \in polite)

\* What belongs to client d stays, except that its connection may be closed,
\* its child may exit, and a parting word may be sent to it.
Aside(d) ==
    /\ user'[d] = user[d] /\ asked'[d] = asked[d] /\ typed'[d] = typed[d]
    /\ acked'[d] = acked[d] /\ sold'[d] = sold[d] /\ (d \in polite' <=> d \in polite)
    /\ \/ child'[d] = child[d] /\ total'[d] = total[d]
          /\ (d \in signalled' <=> d \in signalled)
       \/ child'[d] = "gone" /\ child[d] = "ready" /\ d \notin signalled'
    /\ \/ toServer'[d] = toServer[d] /\ (Closed(d)' => Closed(d))
       \/ /\ ~MayServe(d)' /\ (Closed(d)' => toServer'[d] = <<>>)
          /\ toServer'[d] \in {<<>>, toServer[d], Remaining(d)[d]}
    /\ \/ toClient'[d] = toClient[d]
       \/ /\ toClient'[d] = Append(toClient[d], <<"3">>)
          /\ user[d] \notin {"gone", "start"} /\ ~Pending(d)'
          /\ child'[d] = "ready" => d \in signalled'

\* It is then as good as before.
LEMMA AsideKept ==
    ASSUME TypeOK, NEW d \in Clients, Good(d), Aside(d), Pending(d)' => Pending(d),
           d = conn' => d = conn \/ Pending(d),
           "parent" \in signalled' => "parent" \in signalled
    PROVE  Good(d)'
<1>1. /\ toServer[d] \in Seq(Commands) /\ toClient[d] \in Seq(Replies)
      /\ sold[d] \in Nat /\ typed[d] \in Nat
  BY DEF TypeOK
<1>2. /\ user'[d] = user[d] /\ asked'[d] = asked[d] /\ typed'[d] = typed[d]
      /\ acked'[d] = acked[d] /\ sold'[d] = sold[d] /\ (d \in polite' <=> d \in polite)
      /\ child'[d] = child[d] \/ (child'[d] = "gone" /\ child[d] = "ready")
      /\ child'[d] = "ready" => child[d] = "ready" /\ total'[d] = total[d]
      /\ child[d] # "ready" => child'[d] = child[d] /\ total'[d] = total[d]
      /\ child'[d] = "ready" /\ d \in signalled => d \in signalled'
      /\ d \in signalled' => d \in signalled /\ child'[d] = child[d]
  BY DEF Aside, Good, Signals
<1>3. /\ toServer'[d] \in Seq(Commands) /\ Len(toServer'[d]) <= Len(toServer[d])
      /\ toServer[d] = <<>> => toServer'[d] = <<>>
      /\ Closed(d)' => toServer'[d] = <<>>
      /\ MayServe(d)' => toServer'[d] = toServer[d]
      /\ \A m : toServer[d] = <<m>> => toServer'[d] \in {<<>>, <<m>>}
  <2> DEFINE q == toServer[d]
             p == toServer'[d]
  <2>1. q \in Seq(Commands) /\ Len(q) \in Nat
        /\ (q # <<>> => Tail(q) \in Seq(Commands) /\ Len(Tail(q)) = Len(q) - 1)
    BY <1>1
  <2>2. Remaining(d)[d] = IF q = <<>> THEN <<>> ELSE Tail(q)
    BY DEF Remaining, TypeOK
  <2>3. \A m : Tail(<<m>>) = <<>>
    OBVIOUS
  <2>4. Len(<<>>) = 0 /\ <<>> \in Seq(Commands)
    OBVIOUS
  <2>5. \/ p = q /\ (Closed(d)' => Closed(d))
        \/ ~MayServe(d)' /\ (Closed(d)' => p = <<>>) /\ p \in {<<>>, q, Remaining(d)[d]}
    BY DEF Aside
  <2>6. Closed(d) => q = <<>>
    BY DEF Good, Requests
  <2>7. p \in {<<>>, q} \/ (q # <<>> /\ p = Tail(q))
    BY <2>2, <2>5
  <2> HIDE DEF q, p
  <2>8. p \in Seq(Commands) /\ Len(p) <= Len(q) /\ (q = <<>> => p = <<>>)
    <3>1. CASE p = <<>>
      BY <2>1, <2>4, <3>1
    <3>2. CASE p = q
      BY <2>1, <3>2
    <3>3. CASE q # <<>> /\ p = Tail(q)
      <4>1. p \in Seq(Commands) /\ Len(p) = Len(q) - 1
        BY <2>1, <3>3
      <4> QED BY <2>1, <3>3, <4>1
    <3> QED BY <2>7, <3>1, <3>2, <3>3
  <2>9. \A m : q = <<m>> => p \in {<<>>, <<m>>}
    BY <2>3, <2>7
  <2>10. (Closed(d)' => p = <<>>) /\ (MayServe(d)' => p = q)
    BY <2>5, <2>6
  <2> QED BY <2>8, <2>9, <2>10 DEF p, q
<1>4. /\ \A n \in DOMAIN toClient'[d] :
           \/ n \in DOMAIN toClient[d] /\ toClient'[d][n] = toClient[d][n]
           \/ toClient'[d][n] = <<"3">> /\ (child'[d] = "ready" => d \in signalled')
      /\ \/ toClient'[d] = <<>> /\ toClient[d] = <<>>
         \/ toClient'[d] # <<>> /\ toClient[d] # <<>> /\ toClient'[d][1] = toClient[d][1]
         \/ /\ toClient'[d] # <<>> /\ toClient[d] = <<>> /\ toClient'[d][1] = <<"3">>
            /\ user[d] \notin {"gone", "start"} /\ ~Pending(d)'
      /\ toClient'[d] # toClient[d] => user[d] \notin {"gone", "start"} /\ ~Pending(d)'
  <2>1. CASE toClient'[d] = toClient[d]
    BY <2>1, <1>1
  <2>2. CASE /\ toClient'[d] = Append(toClient[d], <<"3">>)
             /\ user[d] \notin {"gone", "start"} /\ ~Pending(d)'
             /\ child'[d] = "ready" => d \in signalled'
    <3>1. /\ <<"3">> \in Replies
          /\ DOMAIN toClient'[d] = 1..(Len(toClient[d]) + 1)
          /\ DOMAIN toClient[d] = 1..Len(toClient[d]) /\ Len(toClient[d]) \in Nat
          /\ toClient[d] = <<>> => Len(toClient[d]) = 0
          /\ toClient[d] # <<>> => Len(toClient[d]) > 0
          /\ toClient'[d] # <<>>
          /\ toClient'[d][Len(toClient[d]) + 1] = <<"3">>
          /\ \A n \in 1..Len(toClient[d]) : toClient'[d][n] = toClient[d][n]
      BY <1>1, <2>2 DEF Replies
    <3> QED BY <2>2, <3>1
  <2> QED BY <2>1, <2>2 DEF Aside
<1> USE DEF Good
<1>5. Fresh(d)'
  BY <1>2, <1>4 DEF Fresh
<1>6. Signals(d)'
  BY <1>2 DEF Signals
<1>7. Requests(d)'
  BY <1>2, <1>3 DEF Requests
<1>8. ReplyOrder(d)'
  <2>1. Answered(d)' => Answered(d)
    BY <1>4 DEF Answered
  <2>2. Answered(d) => toClient[d] # <<>>
    BY DEF Answered
  <2>3. user'[d] = "gone" => toClient'[d] = <<>>
    BY <1>2, <1>4 DEF ReplyOrder
  <2>4. \A n \in DOMAIN toClient'[d] : n > 1 => toClient'[d][n] = <<"3">>
    <3>1. \A n \in DOMAIN toClient[d] : n > 1 => toClient[d][n] = <<"3">>
      BY DEF ReplyOrder
    <3> QED BY <3>1, <1>4
  <2>5. Answered(d)' => toClient'[d][1] = toClient[d][1]
    BY <2>1, <2>2, <1>4 DEF Answered
  <2>6. \A n \in DOMAIN toClient'[d] :
          toClient'[d][n] = <<"3">> /\ child'[d] = "ready" => d \in signalled'
    BY <1>2, <1>4 DEF ReplyOrder
  <2>7. Answered(d)' =>
         /\ user'[d] = "waiting" /\ toServer'[d] = <<>>
         /\ \/ Answers(toClient'[d][1], asked'[d])
            \/ toClient'[d][1] = <<"2", acked'[d]>> /\ child'[d] # "ready"
    BY <2>1, <2>5, <1>2, <1>3 DEF ReplyOrder
  <2> QED BY <2>3, <2>4, <2>6, <2>7 DEF ReplyOrder
<1>9. Total(d)'
  <2>1. FirstCost(toClient'[d]) = FirstCost(toClient[d])
    BY <1>4 DEF FirstCost
  <2> QED BY <2>1, <1>2 DEF Total
<1>10. Sales(d)'
  <2>1. MayServe(d)' => MayServe(d)
    BY <1>2 DEF MayServe
  <2>2. Len(toServer[d]) \in Nat /\ Len(toServer'[d]) \in Nat
    BY <1>1, <1>3
  <2>3. user'[d] # "gone" => sold'[d] + Len(toServer'[d]) <= typed'[d]
    BY <2>2, <1>1, <1>2, <1>3 DEF Sales
  <2> QED BY <2>1, <2>3, <1>2, <1>3 DEF Sales
<1> QED BY <1>5, <1>6, <1>7, <1>8, <1>9, <1>10

\* The requests to a child that exits, and the others.
LEMMA ExitEffect ==
    ASSUME TypeOK, NEW c \in Clients, child[c] = "ready", conn' = conn,
           backlog' = backlog, NEW q \in [Clients -> Seq(Commands)], Exit(c, q)
    PROVE  /\ child'[c] = "gone"
           /\ \A d \in Clients : d # c => /\ child'[d] = child[d] /\ total'[d] = total[d]
                                          /\ toServer'[d] = q[d]
           /\ Closed(c)' => toServer'[c] = <<>>
           /\ toServer'[c] \in {<<>>, q[c]}
           /\ child' \in [Clients -> {"none", "ready", "gone"}]
           /\ buff' \in [Clients -> Commands \cup {NoCommand}]
           /\ total' \in [Clients -> Nat]
           /\ toServer' \in [Clients -> Seq(Commands)]
           /\ cLink' \in [Clients -> LinkStates]
<1>1. /\ child' = [child EXCEPT ![c] = "gone"]
      /\ buff' = [buff EXCEPT ![c] = NoCommand]
      /\ total' = [total EXCEPT ![c] = 0]
  BY DEF Exit
<1>2. /\ child'[c] = "gone" /\ child' \in [Clients -> {"none", "ready", "gone"}]
      /\ buff' \in [Clients -> Commands \cup {NoCommand}]
      /\ total' \in [Clients -> Nat]
      /\ \A d \in Clients : d # c => child'[d] = child[d] /\ total'[d] = total[d]
  BY <1>1 DEF TypeOK
<1>3. \A d \in Clients : d # c => Closed(d)' = Closed(d)
  BY <1>2 DEF Closed
<1>4. ~Closed(c)
  BY DEF Closed
<1> DEFINE closed == {d \in Clients : ~Closed(d) /\ Closed(d)'}
<1>5. /\ toServer' = [d \in Clients |-> IF d \in closed THEN <<>> ELSE q[d]]
      /\ cLink' = [d \in Clients |-> IF d \in closed /\ q[d] # <<>> THEN "lost"
                                     ELSE cLink[d]]
  BY DEF Exit, DropUnread
<1>6. \A d \in Clients : d # c => d \notin closed
  BY <1>3
<1>7. Closed(c)' => c \in closed
  BY <1>4
<1> HIDE DEF closed
<1>8. toServer' \in [Clients -> Seq(Commands)] /\ cLink' \in [Clients -> LinkStates]
  BY SMTT(60), <1>5 DEF TypeOK, LinkStates
<1> QED BY <1>2, <1>5, <1>6, <1>7, <1>8

-----------------------------------------------------------------------------
(* Types                                                                   *)

\* The names the assumptions keep apart.
LEMMA Names ==
    /\ "parent" \notin Clients /\ "none" \notin Clients /\ "none" \notin Commands
    /\ "wrong" \notin Items /\ "end" \notin Items /\ "-999" \notin Items
    /\ <<"1">> \in Replies /\ <<"3">> \in Replies
    /\ \A i \in Items : <<"0", i>> \in Replies /\ Cost[i] \in Nat
    /\ \A n \in Nat : <<"2", n>> \in Replies
BY NamesAssumption, CostAssumption DEF Commands, Replies

\* A reply changes the connection of its client only.
LEMMA ReplyEffect ==
    ASSUME TypeOK, NEW c \in Clients, NEW r \in Replies, Reply(c, r)
    PROVE  /\ sLink' \in [Clients -> LinkStates]
           /\ toClient' \in [Clients -> Seq(Replies)]
           /\ toClient'[c] = IF user[c] = "gone" THEN toClient[c]
                                                 ELSE Append(toClient[c], r)
           /\ \A d \in Clients : d # c => toClient'[d] = toClient[d]
<1>1. toClient \in [Clients -> Seq(Replies)] /\ sLink \in [Clients -> LinkStates]
  BY DEF TypeOK
<1>2. CASE user[c] = "gone"
  BY <1>1, <1>2 DEF Reply, LinkStates
<1>3. CASE user[c] # "gone"
  <2>1. Append(toClient[c], r) \in Seq(Replies)
    BY <1>1
  <2> QED BY <1>1, <1>3, <2>1 DEF Reply
<1> QED BY <1>2, <1>3

\* What is left after a request was taken.
LEMMA RemainingType ==
    ASSUME TypeOK, NEW c \in Clients
    PROVE  /\ Remaining(c) \in [Clients -> Seq(Commands)]
           /\ Remaining(c)[c] = IF toServer[c] = <<>> THEN <<>> ELSE Tail(toServer[c])
           /\ \A d \in Clients : d # c => Remaining(c)[d] = toServer[d]
<1>1. toServer \in [Clients -> Seq(Commands)]
  BY DEF TypeOK
<1>2. toServer[c] # <<>> => Tail(toServer[c]) \in Seq(Commands)
  BY <1>1
<1> QED BY <1>1, <1>2 DEF Remaining

\* One round of a child: it goes on, or it exits.
LEMMA AnswerEffect ==
    ASSUME TypeOK, NEW c \in Clients, NEW m \in Commands \cup {NoCommand},
           NEW r \in Replies, NEW t \in Nat, child[c] = "ready", Answer(c, m, r, t)
    PROVE  /\ UNCHANGED <<parentVars, clientVars>>
           /\ child'[c] = "ready" =>
                total'[c] = t /\ toServer'[c] = Remaining(c)[c]
           /\ Closed(c)' => toServer'[c] = <<>>
           /\ toServer'[c] \in {<<>>, Remaining(c)[c]}
           /\ toClient'[c] = IF user[c] = "gone" THEN toClient[c]
                                                 ELSE Append(toClient[c], r)
           /\ \A d \in Clients : d # c =>
                /\ child'[d] = child[d] /\ total'[d] = total[d]
                /\ toServer'[d] = toServer[d] /\ toClient'[d] = toClient[d]
           /\ child'[c] \in {"ready", "gone"}
           /\ child' \in [Clients -> {"none", "ready", "gone"}]
           /\ buff' \in [Clients -> Commands \cup {NoCommand}]
           /\ total' \in [Clients -> Nat]
           /\ toServer' \in [Clients -> Seq(Commands)]
           /\ toClient' \in [Clients -> Seq(Replies)]
           /\ sLink' \in [Clients -> LinkStates] /\ cLink' \in [Clients -> LinkStates]
<1>1. UNCHANGED <<parentVars, clientVars>> /\ Reply(c, r)
  BY DEF Answer
<1>2. CASE sLink[c] = "reset"
  <2>1. Exit(c, Remaining(c)) /\ conn' = conn /\ backlog' = backlog
    BY <1>2 DEF Answer, parentVars
  <2> HIDE DEF Exit
  <2> QED BY <1>1, <2>1, ReplyEffect, RemainingType, ExitEffect
<1>3. CASE sLink[c] # "reset"
  <2>1. /\ buff' = [buff EXCEPT ![c] = m] /\ total' = [total EXCEPT ![c] = t]
        /\ toServer' = Remaining(c) /\ child' = child /\ cLink' = cLink
        /\ conn' = conn /\ backlog' = backlog
    BY <1>3 DEF Answer, parentVars
  <2>2. ~Closed(c)'
    BY <2>1 DEF Closed
  <2>3. /\ child' \in [Clients -> {"none", "ready", "gone"}]
        /\ buff' \in [Clients -> Commands \cup {NoCommand}]
        /\ total' \in [Clients -> Nat] /\ cLink' \in [Clients -> LinkStates]
        /\ total'[c] = t /\ \A d \in Clients : d # c => total'[d] = total[d]
    BY <2>1 DEF TypeOK
  <2> QED BY <1>1, <2>1, <2>2, <2>3, ReplyEffect, RemainingType
<1> QED BY <1>2, <1>3

\* A client that ends.
LEMMA LeaveEffect ==
    ASSUME TypeOK, NEW c \in Clients, NEW q, Leave(c, q)
    PROVE  /\ user'[c] = "gone" /\ toClient'[c] = <<>> /\ acked'[c] = 0
           /\ \A d \in Clients : d # c =>
                /\ user'[d] = user[d] /\ asked'[d] = asked[d] /\ acked'[d] = acked[d]
                /\ toClient'[d] = toClient[d]
           /\ user' \in [Clients -> {"start", "typing", "waiting", "gone"}]
           /\ asked' \in [Clients -> Commands \cup {NoCommand}]
           /\ received' \in [Clients -> Replies \cup {NoReply}]
           /\ acked' \in [Clients -> Nat]
           /\ toClient' \in [Clients -> Seq(Replies)]
           /\ sLink' \in [Clients -> LinkStates]
<1>1. /\ user \in [Clients -> {"start", "typing", "waiting", "gone"}]
      /\ asked \in [Clients -> Commands \cup {NoCommand}]
      /\ received \in [Clients -> Replies \cup {NoReply}]
      /\ acked \in [Clients -> Nat]
      /\ toClient \in [Clients -> Seq(Replies)]
      /\ sLink \in [Clients -> LinkStates]
  BY DEF TypeOK
<1>2. /\ user' = [user EXCEPT ![c] = "gone"] /\ asked' = [asked EXCEPT ![c] = NoCommand]
      /\ received' = [received EXCEPT ![c] = NoReply]
      /\ acked' = [acked EXCEPT ![c] = 0] /\ toClient' = [toClient EXCEPT ![c] = <<>>]
      /\ sLink' = [sLink EXCEPT ![c] = IF @ = "ok" /\ q # <<>> THEN "lost" ELSE @]
  BY DEF Leave
<1>3. sLink' \in [Clients -> LinkStates]
  BY <1>1, <1>2 DEF LinkStates
<1>4. <<>> \in Seq(Replies)
  OBVIOUS
<1> QED BY <1>1, <1>2, <1>3, <1>4

-----------------------------------------------------------------------------
(* A child of the server                                                   *)

\* A request that is taken while the client runs is the one it waits for the
\* reply to, and no reply is on its way.
LEMMA TakesRequest ==
    ASSUME TypeOK, NEW c \in Clients, Good(c), NEW m, Received(c, m),
           user[c] # "gone"
    PROVE  /\ user[c] = "waiting" /\ toServer[c] = <<m>> /\ m = asked[c]
           /\ toClient[c] = <<>> /\ m \in Commands
           /\ Remaining(c)[c] = <<>>
<1>1. /\ child[c] = "ready" /\ c \notin signalled
      /\ toServer[c] # <<>> /\ m = Head(toServer[c])
  BY DEF Received
<1>2. user[c] = "waiting" /\ toServer[c] = <<asked[c]>>
  BY <1>1 DEF TypeOK, Good, Requests
<1>3. \A x : Head(<<x>>) = x /\ Tail(<<x>>) = <<>>
  OBVIOUS
<1>4. m = asked[c] /\ Tail(toServer[c]) = <<>>
  BY <1>1, <1>2, <1>3
<1>5. m \in Commands
  <2>1. toServer[c] \in Seq(Commands)
    BY DEF TypeOK
  <2> QED BY <1>1, <2>1
<1>6. toClient[c] = <<>>
  <2>1. SUFFICES ASSUME toClient[c] # <<>> PROVE FALSE
    OBVIOUS
  <2>2. 1 \in DOMAIN toClient[c] /\ toClient[c][1] \in Replies
    BY <2>1 DEF TypeOK
  <2>3. toClient[c][1] = <<"3">>
    <3>1. ~Answered(c)
      BY <1>1 DEF Good, ReplyOrder
    <3> QED BY <2>1, <2>2, <3>1, ReplyShape DEF Answered
  <2> QED BY <1>1, <2>2, <2>3 DEF Good, ReplyOrder
<1> QED BY <1>1, <1>2, <1>4, <1>5, <1>6, RemainingType

\* -999 is not taken, and stays on its way, when something else is.
LEMMA GoodbyeStays ==
    ASSUME NEW q \in Seq(Commands), q # <<>>, Last(q) = "-999", Head(q) # "-999"
    PROVE  /\ Tail(q) # <<>> /\ Last(Tail(q)) = "-999" /\ Tail(q) \in Seq(Commands)
           /\ Len(Tail(q)) = Len(q) - 1 /\ Len(q) \in Nat /\ Len(Tail(q)) >= 1
<1>1. Len(q) \in Nat /\ Len(q) # 0 /\ q[Len(q)] = "-999" /\ q[1] = Head(q)
  BY DEF Last
<1>2. Len(q) > 1
  BY <1>1
<1>3. Tail(q) \in Seq(Commands) /\ Len(Tail(q)) = Len(q) - 1
  BY <1>1
<1>4. Tail(q)[Len(q) - 1] = q[Len(q)]
  BY <1>1, <1>2
<1>5. Len(Tail(q)) >= 1
  BY <1>1, <1>2, <1>3
<1>6. Tail(q) # <<>>
  <2>1. \A s : s = <<>> => Len(s) = 0
    OBVIOUS
  <2>2. Len(Tail(q)) # 0
    BY <1>1, <1>2, <1>3
  <2> QED BY <2>1, <2>2
<1>7. Last(Tail(q)) = Tail(q)[Len(q) - 1]
  BY <1>3 DEF Last
<1> QED BY <1>1, <1>3, <1>4, <1>5, <1>6, <1>7

\* A child that answers command m with r, and adds its cost, serves well.
LEMMA ServeKeeps ==
    ASSUME TypeOK, NEW c \in Clients, Good(c), NEW m \in Commands \cup {NoCommand},
           NEW r \in Replies, NEW t \in Nat, Received(c, m), Answer(c, m, r, t),
           sold'[c] \in Nat, sold'[c] <= sold[c] + 1, m # "-999", r # <<"3">>,
           user[c] # "gone" => Answers(r, m) /\ t = total[c] + FirstCost(<<r>>)
    PROVE  Good(c)'
<1>1. child[c] = "ready" /\ c \notin signalled
  BY DEF Received
<1>2. /\ UNCHANGED <<parentVars, clientVars>>
      /\ child'[c] = "ready" => total'[c] = t /\ toServer'[c] = Remaining(c)[c]
      /\ Closed(c)' => toServer'[c] = <<>>
      /\ toServer'[c] \in {<<>>, Remaining(c)[c]}
      /\ toClient'[c] = IF user[c] = "gone" THEN toClient[c] ELSE Append(toClient[c], r)
      /\ child'[c] \in {"ready", "gone"}
  <2> HIDE DEF Received
  <2> QED BY <1>1, AnswerEffect
<1>3. /\ parent' = parent /\ conn' = conn /\ backlog' = backlog
      /\ signalled' = signalled /\ user' = user /\ asked' = asked /\ typed' = typed
      /\ acked' = acked /\ polite' = polite
  BY <1>2 DEF parentVars, clientVars
<1>4. /\ sold[c] \in Nat /\ typed[c] \in Nat /\ total[c] \in Nat /\ acked[c] \in Nat
      /\ toServer[c] \in Seq(Commands) /\ toClient[c] \in Seq(Replies)
  BY DEF TypeOK
<1>5. user[c] # "gone" =>
        /\ user[c] = "waiting" /\ toServer[c] = <<m>> /\ m = asked[c]
        /\ toClient[c] = <<>> /\ toServer'[c] = <<>> /\ toClient'[c] = <<r>>
  <2> HIDE DEF Received
  <2>1. Append(<<>>, r) = <<r>>
    OBVIOUS
  <2> QED BY <2>1, <1>2, TakesRequest
<1>6. ~Pending(c) /\ ~Pending(c)'
  BY <1>1, <1>3 DEF Good, Fresh, Pending
<1>7. Fresh(c)'
  BY <1>1, <1>3, <1>6 DEF Good, Fresh
<1>8. Signals(c)'
  BY <1>1, <1>3 DEF Good, Signals
<1>9. Requests(c)'
  BY <1>1, <1>2, <1>3, <1>5 DEF Good, Requests, Fresh
<1>10. ReplyOrder(c)'
  <2>1. CASE user[c] = "gone"
    BY <2>1, <1>2, <1>3 DEF Good, ReplyOrder, Answered
  <2>2. CASE user[c] # "gone"
    <3>1. /\ DOMAIN <<r>> = {1} /\ <<r>>[1] = r
      OBVIOUS
    <3> QED BY <2>2, <3>1, <1>3, <1>5 DEF ReplyOrder, Answered
  <2> QED BY <2>1, <2>2
<1>11. Total(c)'
  <2>1. SUFFICES ASSUME user[c] # "gone", child'[c] = "ready"
                 PROVE  total'[c] = acked[c] + FirstCost(toClient'[c])
    BY <1>3 DEF Total
  <2>2. FirstCost(<<>>) = 0
    BY DEF FirstCost
  <2>3. total[c] = acked[c]
    BY <2>1, <2>2, <1>1, <1>4, <1>5 DEF Good, Total
  <2> QED BY <2>1, <2>3, <1>2, <1>5
<1>12. Sales(c)'
  <2>1. user[c] # "gone" => sold'[c] + Len(toServer'[c]) <= typed[c]
    <3>1. SUFFICES ASSUME user[c] # "gone" PROVE sold'[c] + 0 <= typed[c]
      BY <1>5
    <3>2. sold[c] + 1 <= typed[c]
      BY <3>1, <1>5 DEF Good, Sales
    <3> QED BY <3>2, <1>4
  <2>2. ASSUME c \in polite
        PROVE  /\ user[c] = "gone" /\ sold'[c] <= typed[c]
               /\ MayServe(c)' => /\ toServer'[c] # <<>> /\ Last(toServer'[c]) = "-999"
                                  /\ sold'[c] + Len(toServer'[c]) - 1 <= typed[c]
    <3> DEFINE q == toServer[c]
    <3>1. /\ user[c] = "gone" /\ q # <<>> /\ Last(q) = "-999"
          /\ sold[c] + Len(q) - 1 <= typed[c]
      BY <1>1, <2>2 DEF Good, Sales, MayServe
    <3>2. m = Head(q)
      BY <3>1 DEF Received
    <3>3. Remaining(c)[c] = Tail(q)
      BY <3>1, RemainingType
    <3> HIDE DEF q
    <3>4. /\ Tail(q) # <<>> /\ Last(Tail(q)) = "-999"
          /\ Len(Tail(q)) = Len(q) - 1 /\ Len(q) \in Nat /\ Len(Tail(q)) >= 1
      <4>1. q \in Seq(Commands)
        BY <1>4 DEF q
      <4> QED BY <4>1, <3>1, <3>2, GoodbyeStays
    <3>5. Len(Tail(q)) \in Nat /\ Len(Tail(q)) >= 1
      BY <3>4
    <3>6. sold'[c] <= typed[c] /\ sold'[c] + Len(Tail(q)) - 1 <= typed[c]
      BY SMTT(60), <3>1, <3>4, <3>5, <1>4
    <3>7. MayServe(c)' => toServer'[c] = Tail(q)
      BY <3>3, <1>2, <1>6 DEF MayServe
    <3> QED BY <3>1, <3>4, <3>6, <3>7
  <2> QED BY <2>1, <2>2, <1>3 DEF Sales
<1> QED BY <1>7, <1>8, <1>9, <1>10, <1>11, <1>12 DEF Good

\* What a child exits with: its bill, a parting word, or nothing.
LEMMA BillKeeps ==
    ASSUME TypeOK, NEW c \in Clients, Good(c), Bill(c)
    PROVE  Good(c)'
<1>1. /\ child[c] = "ready" /\ c \notin signalled
      /\ Received(c, "end") /\ Reply(c, <<"2", total[c]>>) /\ Exit(c, Remaining(c))
      /\ UNCHANGED <<parentVars, sold, clientVars>>
  BY DEF Bill, Received
<1>2. /\ parent' = parent /\ conn' = conn /\ backlog' = backlog
      /\ signalled' = signalled /\ user' = user /\ asked' = asked /\ typed' = typed
      /\ acked' = acked /\ polite' = polite /\ sold' = sold
  BY <1>1 DEF parentVars, clientVars
<1>3. /\ child'[c] = "gone" /\ (Closed(c)' => toServer'[c] = <<>>)
      /\ toServer'[c] \in {<<>>, Remaining(c)[c]}
  <2> HIDE DEF Exit, Received, Reply
  <2> QED BY <1>1, <1>2, RemainingType, ExitEffect
<1>4. /\ total[c] \in Nat /\ acked[c] \in Nat /\ sold[c] \in Nat /\ typed[c] \in Nat
      /\ <<"2", total[c]>> \in Replies
  BY Names DEF TypeOK
<1>5. toClient'[c] = IF user[c] = "gone" THEN toClient[c]
                     ELSE Append(toClient[c], <<"2", total[c]>>)
  <2> HIDE DEF Reply
  <2> QED BY <1>1, <1>4, ReplyEffect
<1>6. user[c] # "gone" =>
        /\ user[c] = "waiting" /\ toServer[c] = <<"end">> /\ toServer'[c] = <<>>
        /\ toClient[c] = <<>> /\ toClient'[c] = <<<<"2", total[c]>>>>
        /\ total[c] = acked[c]
  <2> HIDE DEF Received
  <2>1. \A r : Append(<<>>, r) = <<r>>
    OBVIOUS
  <2>2. FirstCost(<<>>) = 0
    BY DEF FirstCost
  <2>3. user[c] # "gone" =>
        /\ user[c] = "waiting" /\ toServer[c] = <<"end">>
        /\ toClient[c] = <<>> /\ Remaining(c)[c] = <<>>
    BY <1>1, TakesRequest
  <2>4. user[c] # "gone" => total[c] = acked[c]
    BY <1>1, <1>4, <2>2, <2>3 DEF Good, Total
  <2> QED BY <2>1, <2>3, <2>4, <1>3, <1>5
<1>7. ~Pending(c) /\ ~Pending(c)' /\ ~MayServe(c)'
  BY <1>1, <1>2, <1>3 DEF Good, Fresh, Pending, MayServe
<1>8. Fresh(c)'
  BY <1>1, <1>2, <1>7 DEF Good, Fresh
<1>9. Signals(c)'
  BY <1>1, <1>2, <1>3 DEF Signals
<1>10. Requests(c)'
  BY <1>1, <1>2, <1>3, <1>6 DEF Requests
<1>11. ReplyOrder(c)'
  <2>1. CASE user[c] = "gone"
    BY <2>1, <1>2, <1>5 DEF Good, ReplyOrder, Answered
  <2>2. CASE user[c] # "gone"
    <3> DEFINE r == <<"2", total[c]>>
    <3>1. /\ toClient'[c] = <<r>> /\ r = <<"2", acked'[c]>>
          /\ user'[c] = "waiting" /\ toServer'[c] = <<>>
      BY <2>2, <1>2, <1>6
    <3> HIDE DEF r
    <3>2. /\ DOMAIN <<r>> = {1} /\ <<r>>[1] = r
      OBVIOUS
    <3> QED BY <3>1, <3>2, <1>3 DEF ReplyOrder, Answered
  <2> QED BY <2>1, <2>2
<1>12. Total(c)'
  BY <1>3 DEF Total
<1>13. Sales(c)'
  <2>1. user[c] # "gone" => sold[c] + Len(toServer'[c]) <= typed[c]
    <3>1. SUFFICES ASSUME user[c] # "gone" PROVE sold[c] + Len(toServer'[c]) <= typed[c]
      OBVIOUS
    <3>2. Len(toServer[c]) = 1 /\ Len(toServer'[c]) = 0
      BY <3>1, <1>6
    <3>3. sold[c] + 1 <= typed[c]
      BY <3>1, <3>2 DEF Good, Sales
    <3> QED BY <3>2, <3>3, <1>4
  <2> QED BY <2>1, <1>2, <1>7 DEF Good, Sales
<1> QED BY <1>8, <1>9, <1>10, <1>11, <1>12, <1>13 DEF Good

\* A child that exits without a bill does no harm to its client.
LEMMA ExitKeeps ==
    ASSUME TypeOK, NEW c \in Clients, Good(c),
           Quit(c) \/ FailReceive(c) \/ InterruptChild(c)
    PROVE  Good(c)'
<1>1. /\ child[c] = "ready" /\ c \notin signalled' /\ parent' = parent /\ conn' = conn
      /\ backlog' = backlog /\ sold' = sold /\ UNCHANGED clientVars
      /\ Exit(c, Remaining(c)) \/ Exit(c, toServer)
      /\ "parent" \in signalled' => "parent" \in signalled
  BY DEF Quit, FailReceive, InterruptChild, Received, parentVars, Good, Signals
<1>2. /\ user' = user /\ asked' = asked /\ typed' = typed
      /\ acked' = acked /\ polite' = polite
  BY <1>1 DEF clientVars
<1>3. /\ child'[c] = "gone" /\ (Closed(c)' => toServer'[c] = <<>>)
      /\ toServer'[c] \in {<<>>, toServer[c], Remaining(c)[c]}
  <2>1. toServer \in [Clients -> Seq(Commands)] /\ Remaining(c) \in [Clients -> Seq(Commands)]
    BY RemainingType DEF TypeOK
  <2> HIDE DEF Exit
  <2>2. CASE Exit(c, Remaining(c))
    BY <1>1, <2>1, <2>2, ExitEffect
  <2>3. CASE Exit(c, toServer)
    BY <1>1, <2>1, <2>3, ExitEffect
  <2> QED BY <1>1, <2>2, <2>3
<1>4. ~Pending(c) /\ ~Pending(c)' /\ ~MayServe(c)'
  BY <1>1, <1>3 DEF Good, Fresh, Pending, MayServe
<1>5. \/ toClient'[c] = toClient[c]
      \/ toClient'[c] = Append(toClient[c], <<"3">>) /\ user[c] # "gone"
  <2>1. CASE Quit(c) \/ FailReceive(c)
    BY <2>1 DEF Quit, FailReceive
  <2>2. CASE InterruptChild(c)
    <3>1. Reply(c, <<"3">>)
      BY <2>2 DEF InterruptChild
    <3> HIDE DEF Reply
    <3> QED BY <3>1, Names, ReplyEffect
  <2> QED BY <2>1, <2>2
<1>6. Aside(c)
  <2>1. user[c] # "start"
    BY <1>1 DEF Good, Fresh
  <2> QED BY <2>1, <1>1, <1>2, <1>3, <1>4, <1>5 DEF Aside
<1> QED BY <1>1, <1>4, <1>6, AsideKept

\* A step of a child leaves the other clients alone, and every variable has a
\* value of its type.
LEMMA ChildTypes ==
    ASSUME TypeOK, NEW c \in Clients, Good(c), ChildStep(c)
    PROVE  /\ TypeOK' /\ parent' = parent /\ conn' = conn /\ backlog' = backlog
           /\ "parent" \in signalled' => "parent" \in signalled
           /\ \A d \in Clients : d # c => Same(d)
<1> DEFINE Shared ==
        /\ child' \in [Clients -> {"none", "ready", "gone"}]
        /\ buff' \in [Clients -> Commands \cup {NoCommand}]
        /\ total' \in [Clients -> Nat]
        /\ toServer' \in [Clients -> Seq(Commands)]
        /\ toClient' \in [Clients -> Seq(Replies)]
        /\ sLink' \in [Clients -> LinkStates] /\ cLink' \in [Clients -> LinkStates]
        /\ \A d \in Clients : d # c =>
             /\ child'[d] = child[d] /\ total'[d] = total[d]
             /\ toServer'[d] = toServer[d] /\ toClient'[d] = toClient[d]
<1>1. child[c] = "ready"
  BY DEF ChildStep, Sell, Refuse, Bill, Quit, FailReceive, InterruptChild, Received,
         Good, Signals
<1>2. ASSUME NEW m \in Commands \cup {NoCommand}, NEW r \in Replies, NEW t \in Nat,
             Answer(c, m, r, t)
      PROVE  Shared /\ UNCHANGED <<parentVars, clientVars>>
  <2> HIDE DEF Answer
  <2> QED BY <1>1, <1>2, AnswerEffect
<1>3. ASSUME NEW q \in [Clients -> Seq(Commands)], Exit(c, q),
             \A d \in Clients : d # c => q[d] = toServer[d],
             conn' = conn, backlog' = backlog,
             \/ UNCHANGED <<toClient, sLink>>
             \/ \E r \in Replies : Reply(c, r)
      PROVE  Shared
  <2>1. /\ toClient' \in [Clients -> Seq(Replies)] /\ sLink' \in [Clients -> LinkStates]
        /\ \A d \in Clients : d # c => toClient'[d] = toClient[d]
    <3>1. CASE UNCHANGED <<toClient, sLink>>
      BY <3>1 DEF TypeOK
    <3>2. CASE \E r \in Replies : Reply(c, r)
      BY <3>2, ReplyEffect
    <3> QED BY <1>3, <3>1, <3>2
  <2> HIDE DEF Exit
  <2> QED BY <2>1, <1>1, <1>3, ExitEffect
<1>4. /\ toServer \in [Clients -> Seq(Commands)]
      /\ Remaining(c) \in [Clients -> Seq(Commands)]
      /\ \A d \in Clients : d # c => Remaining(c)[d] = toServer[d]
  BY RemainingType DEF TypeOK
<1>5. Shared
  <2>1. CASE Sell(c)
    <3>1. PICK n \in Items : Answer(c, n, <<"0", n>>, total[c] + Cost[n])
      BY <2>1 DEF Sell
    <3>2. n \in Commands /\ <<"0", n>> \in Replies /\ total[c] + Cost[n] \in Nat
      BY SMTT(60), Names DEF Commands, TypeOK
    <3> HIDE DEF Answer, Shared
    <3> QED BY <3>1, <3>2, <1>2
  <2>2. CASE Refuse(c)
    <3>1. PICK m \in {"wrong", NoCommand} : Answer(c, m, <<"1">>, total[c])
      BY <2>2 DEF Refuse
    <3>2. m \in Commands \cup {NoCommand} /\ <<"1">> \in Replies /\ total[c] \in Nat
      BY Names DEF Commands, TypeOK
    <3> HIDE DEF Answer, Shared
    <3> QED BY <3>1, <3>2, <1>2
  <2>3. CASE Bill(c)
    <3>1. <<"2", total[c]>> \in Replies
      BY Names DEF TypeOK
    <3>2. /\ Exit(c, Remaining(c)) /\ Reply(c, <<"2", total[c]>>)
          /\ conn' = conn /\ backlog' = backlog
      BY <2>3 DEF Bill, parentVars
    <3> HIDE DEF Exit, Reply, Shared
    <3> QED BY <3>1, <3>2, <1>3, <1>4
  <2>4. CASE Quit(c)
    <3>1. /\ Exit(c, Remaining(c)) /\ UNCHANGED <<toClient, sLink>>
          /\ conn' = conn /\ backlog' = backlog
      BY <2>4 DEF Quit, parentVars
    <3> HIDE DEF Exit, Shared
    <3> QED BY <3>1, <1>3, <1>4
  <2>5. CASE FailReceive(c)
    <3>1. /\ Exit(c, toServer) /\ UNCHANGED <<toClient, sLink>>
          /\ conn' = conn /\ backlog' = backlog
      BY <2>5 DEF FailReceive, parentVars
    <3> HIDE DEF Exit, Shared
    <3> QED BY <3>1, <1>3, <1>4
  <2>6. CASE InterruptChild(c)
    <3>1. /\ Exit(c, toServer) /\ Reply(c, <<"3">>) /\ <<"3">> \in Replies
          /\ conn' = conn /\ backlog' = backlog
      BY <2>6, Names DEF InterruptChild
    <3> HIDE DEF Exit, Reply, Shared
    <3> QED BY <3>1, <1>3, <1>4
  <2> QED BY <2>1, <2>2, <2>3, <2>4, <2>5, <2>6 DEF ChildStep
<1>6. /\ parent' = parent /\ conn' = conn /\ backlog' = backlog
      /\ signalled' = signalled \/ signalled' = signalled \ {c}
      /\ user' = user /\ asked' = asked /\ typed' = typed /\ acked' = acked
      /\ polite' = polite /\ received' = received
  BY DEF ChildStep, Sell, Refuse, Answer, Bill, Quit, FailReceive, InterruptChild,
         parentVars, clientVars
<1>7. sold' \in [Clients -> Nat] /\ \A d \in Clients : d # c => sold'[d] = sold[d]
  BY SMTT(60) DEF ChildStep, Sell, Refuse, Bill, Quit, FailReceive, InterruptChild, TypeOK
<1>8. TypeOK'
  BY <1>5, <1>6, <1>7 DEF TypeOK
<1>9. \A d \in Clients : d # c => Same(d)
  BY <1>5, <1>6, <1>7 DEF Same
<1> QED BY <1>6, <1>8, <1>9

\* Every step of a child is good for its client.
LEMMA ChildKeeps ==
    ASSUME TypeOK, NEW c \in Clients, Good(c), ChildStep(c)
    PROVE  Good(c)'
<1>1. CASE Sell(c)
  <2>1. PICK n \in Items :
          Received(c, n) /\ Answer(c, n, <<"0", n>>, total[c] + Cost[n])
    BY <1>1 DEF Sell
  <2> DEFINE r == <<"0", n>>
             t == total[c] + Cost[n]
  <2>2. /\ n \in Commands /\ r \in Replies /\ t \in Nat /\ n # "-999"
        /\ Cost[n] \in Nat /\ r[1] = "0" /\ r[2] = n
    BY SMTT(60), Names DEF Commands, TypeOK
  <2>3. sold'[c] \in Nat /\ sold'[c] <= sold[c] + 1
    BY SMTT(60), <1>1 DEF Sell, TypeOK
  <2>4. Answers(r, n) /\ r # <<"3">> /\ t = total[c] + FirstCost(<<r>>)
    <3>1. <<r>> # <<>> /\ <<r>>[1] = r /\ <<"3">>[1] = "3"
      OBVIOUS
    <3>2. FirstCost(<<r>>) = Cost[n]
      BY <3>1, <2>2 DEF FirstCost
    <3> QED BY <3>1, <3>2, <2>2 DEF Answers
  <2> HIDE DEF Received, Answer, r, t
  <2>5. Received(c, n) /\ Answer(c, n, r, t)
    BY <2>1 DEF r, t
  <2> QED BY <2>2, <2>3, <2>4, <2>5, ServeKeeps
<1>2. CASE Refuse(c)
  <2>1. PICK m \in {"wrong", NoCommand} :
          Received(c, m) /\ Answer(c, m, <<"1">>, total[c])
    BY <1>2 DEF Refuse
  <2> DEFINE r == <<"1">>
  <2>2. /\ m \in Commands \cup {NoCommand} /\ r \in Replies /\ m # "-999"
        /\ r[1] = "1" /\ total[c] \in Nat /\ sold'[c] = sold[c] /\ sold[c] \in Nat
    BY <1>2, Names DEF Commands, NoCommand, TypeOK, Refuse
  <2> HIDE DEF Received, Answer
  <2>3. user[c] # "gone" => m = "wrong"
    <3>1. user[c] # "gone" => m \in Commands
      BY <2>1, TakesRequest
    <3> QED BY <3>1, Names DEF NoCommand
  <2>4. user[c] # "gone" => Answers(r, m) /\ total[c] = total[c] + FirstCost(<<r>>)
    <3>1. <<r>> # <<>> /\ <<r>>[1] = r
      OBVIOUS
    <3>2. FirstCost(<<r>>) = 0
      BY <3>1, <2>2 DEF FirstCost
    <3> QED BY <3>2, <2>2, <2>3 DEF Answers
  <2>5. r # <<"3">>
    OBVIOUS
  <2> HIDE DEF r
  <2>6. Received(c, m) /\ Answer(c, m, r, total[c])
    BY <2>1 DEF r
  <2> QED BY <2>2, <2>4, <2>5, <2>6, ServeKeeps
<1> QED BY <1>1, <1>2, BillKeeps, ExitKeeps DEF ChildStep

-----------------------------------------------------------------------------
(* A client                                                                *)

\* A queue that grows.
LEMMA QueueGrows ==
    ASSUME NEW q \in Seq(Clients), NEW c \in Clients
    PROVE  /\ Append(q, c) \in Seq(Clients)
           /\ ToSet(Append(q, c)) = ToSet(q) \cup {c}
           /\ c \notin ToSet(q) /\ (\A m, n \in DOMAIN q : q[m] = q[n] => m = n) =>
                \A m, n \in DOMAIN Append(q, c) :
                  Append(q, c)[m] = Append(q, c)[n] => m = n
<1>1. /\ Len(q) \in Nat /\ DOMAIN q = 1..Len(q) /\ Append(q, c) \in Seq(Clients)
      /\ DOMAIN Append(q, c) = 1..(Len(q) + 1)
      /\ Append(q, c)[Len(q) + 1] = c
      /\ \A n \in 1..Len(q) : Append(q, c)[n] = q[n]
  OBVIOUS
<1>2. ToSet(Append(q, c)) = ToSet(q) \cup {c}
  BY <1>1 DEF ToSet
<1>3. \A n \in 1..(Len(q) + 1) : n \in 1..Len(q) \/ n = Len(q) + 1
  BY <1>1
<1>4. ASSUME c \notin ToSet(q), \A m, n \in DOMAIN q : q[m] = q[n] => m = n,
             NEW m \in DOMAIN Append(q, c), NEW n \in DOMAIN Append(q, c),
             Append(q, c)[m] = Append(q, c)[n]
      PROVE  m = n
  <2>1. \A k \in 1..Len(q) : q[k] # c
    BY <1>1, <1>4 DEF ToSet
  <2> QED BY <2>1, <1>1, <1>3, <1>4
<1> QED BY <1>1, <1>2, <1>4

\* A queue that shrinks.
LEMMA QueueShrinks ==
    ASSUME NEW q \in Seq(Clients), q # <<>>
    PROVE  /\ Head(q) \in Clients /\ Tail(q) \in Seq(Clients)
           /\ ToSet(q) = ToSet(Tail(q)) \cup {Head(q)}
           /\ (\A m, n \in DOMAIN q : q[m] = q[n] => m = n) =>
                /\ Head(q) \notin ToSet(Tail(q))
                /\ \A m, n \in DOMAIN Tail(q) : Tail(q)[m] = Tail(q)[n] => m = n
<1>1. /\ Len(q) \in Nat /\ Len(q) > 0 /\ DOMAIN q = 1..Len(q)
      /\ Head(q) \in Clients /\ Tail(q) \in Seq(Clients) /\ Head(q) = q[1]
      /\ DOMAIN Tail(q) = 1..(Len(q) - 1)
      /\ \A n \in 1..(Len(q) - 1) : Tail(q)[n] = q[n + 1]
  OBVIOUS
<1>2. /\ \A n \in 1..(Len(q) - 1) : n + 1 \in 1..Len(q) /\ n + 1 # 1
      /\ \A n \in 1..Len(q) : n = 1 \/ (n - 1 \in 1..(Len(q) - 1) /\ n = (n - 1) + 1)
      /\ \A m, n \in 1..(Len(q) - 1) : m + 1 = n + 1 => m = n
      /\ 1 \in 1..Len(q)
  BY <1>1
<1>3. ToSet(q) = ToSet(Tail(q)) \cup {Head(q)}
  <2>1. ASSUME NEW x \in ToSet(q) PROVE x \in ToSet(Tail(q)) \cup {Head(q)}
    <3>1. PICK n \in 1..Len(q) : x = q[n]
      BY <1>1 DEF ToSet
    <3>2. n = 1 \/ (n - 1 \in 1..(Len(q) - 1) /\ Tail(q)[n - 1] = q[n])
      BY <1>1, <1>2
    <3> QED BY <3>1, <3>2, <1>1 DEF ToSet
  <2>2. ASSUME NEW x \in ToSet(Tail(q)) \cup {Head(q)} PROVE x \in ToSet(q)
    BY <1>1, <1>2 DEF ToSet
  <2> QED BY <2>1, <2>2
<1>4. ASSUME \A m, n \in DOMAIN q : q[m] = q[n] => m = n
      PROVE  /\ Head(q) \notin ToSet(Tail(q))
             /\ \A m, n \in DOMAIN Tail(q) : Tail(q)[m] = Tail(q)[n] => m = n
  BY <1>1, <1>2, <1>4 DEF ToSet
<1> QED BY <1>1, <1>3, <1>4

\* A client that connects, or finds nobody to connect to.
LEMMA ConnectKeeps ==
    ASSUME IInv, NEW c \in Clients, Connect(c)
    PROVE  IInv'
<1> USE DEF IInv
<1>1. /\ user[c] = "start" /\ UNCHANGED <<parent, conn, signalled>>
      /\ UNCHANGED <<childVars, asked, received, typed, acked, polite, links>>
      /\ \/ user' = [user EXCEPT ![c] = "gone"] /\ backlog' = backlog
         \/ user' = [user EXCEPT ![c] = "typing"] /\ backlog' = Append(backlog, c)
  BY DEF Connect
<1>2. backlog \in Seq(Clients)
  BY DEF TypeOK
<1>3. /\ backlog' \in Seq(Clients)
      /\ user' \in [Clients -> {"start", "typing", "waiting", "gone"}]
      /\ user'[c] \in {"gone", "typing"}
      /\ \A d \in Clients : d # c => user'[d] = user[d]
  <2>1. Append(backlog, c) \in Seq(Clients)
    BY <1>2
  <2>2. user \in [Clients -> {"start", "typing", "waiting", "gone"}]
    BY DEF TypeOK
  <2> QED BY <2>1, <2>2, <1>1, <1>2
<1>4. /\ child' = child /\ buff' = buff /\ total' = total /\ sold' = sold
      /\ asked' = asked /\ received' = received /\ typed' = typed /\ acked' = acked
      /\ polite' = polite /\ sLink' = sLink /\ cLink' = cLink
      /\ toServer' = toServer /\ toClient' = toClient
      /\ parent' = parent /\ conn' = conn /\ signalled' = signalled
  BY <1>1 DEF childVars, links
<1>5. TypeOK'
  BY <1>3, <1>4 DEF TypeOK
<1>6. ~Pending(c) /\ c # conn /\ Good(c)
  BY <1>1 DEF Good, Fresh
<1>7. /\ ToSet(backlog') \in {ToSet(backlog), ToSet(backlog) \cup {c}}
      /\ \A m, n \in DOMAIN backlog' : backlog'[m] = backlog'[n] => m = n
  BY <1>1, <1>2, <1>6, QueueGrows DEF Queue, Pending
<1>8. Queue'
  BY <1>4, <1>6, <1>7 DEF Queue
<1>9. ASSUME NEW d \in Clients, d # c PROVE Good(d)'
  <2>1. (Pending(d)' => Pending(d)) /\ (Closed(d)' => Closed(d))
    BY <1>4, <1>7, <1>9 DEF Pending, Closed
  <2>2. Aside(d)
    BY <2>1, <1>3, <1>4, <1>9 DEF Aside
  <2> QED BY <2>1, <2>2, <1>4, AsideKept
<1>10. Good(c)'
  <2>1. /\ child[c] = "none" /\ toClient[c] = <<>> /\ total[c] = 0 /\ acked[c] = 0
        /\ sold[c] = 0 /\ toServer[c] = <<>> /\ c \notin signalled
        /\ c \notin polite /\ typed[c] \in Nat
    BY <1>1, <1>6 DEF Good, Fresh, Requests, Signals, Sales, TypeOK
  <2>2. Fresh(c)' /\ Signals(c)' /\ Requests(c)' /\ ReplyOrder(c)' /\ Total(c)'
    BY <2>1, <1>3, <1>4 DEF Fresh, Signals, Requests, ReplyOrder, Answered, Total
  <2>3. Sales(c)'
    BY <2>1, <1>4 DEF Sales
  <2> QED BY <2>2, <2>3 DEF Good
<1> QED BY <1>5, <1>8, <1>9, <1>10

\* The user types a command.
LEMMA TypeKeeps ==
    ASSUME IInv, NEW c \in Clients, Type(c)
    PROVE  IInv'
<1> USE DEF IInv
<1>1. PICK m \in Commands :
        /\ user[c] = "typing" /\ typed' = [typed EXCEPT ![c] = @ + 1]
        /\ user' = [user EXCEPT ![c] = "waiting"]
        /\ asked' = [asked EXCEPT ![c] = m]
        /\ \/ /\ Closed(c) /\ cLink' = [cLink EXCEPT ![c] = "lost"]
              /\ toServer' = toServer
           \/ /\ ~Closed(c) /\ cLink' = cLink
              /\ toServer' = [toServer EXCEPT ![c] = Append(@, m)]
  BY DEF Type
<1>2. /\ UNCHANGED <<child, buff, total, sold, received, acked, polite, sLink, toClient>>
      /\ UNCHANGED <<parent, conn, backlog, signalled>>
  BY DEF Type, parentVars, childVars
<1>3. /\ typed' \in [Clients -> Nat] /\ typed'[c] = typed[c] + 1 /\ typed[c] \in Nat
      /\ user' \in [Clients -> {"start", "typing", "waiting", "gone"}]
      /\ user'[c] = "waiting" /\ asked'[c] = m
      /\ asked' \in [Clients -> Commands \cup {NoCommand}]
      /\ cLink' \in [Clients -> LinkStates]
      /\ \A d \in Clients : d # c => /\ user'[d] = user[d] /\ asked'[d] = asked[d]
                                     /\ typed'[d] = typed[d]
  <2>1. /\ typed \in [Clients -> Nat] /\ asked \in [Clients -> Commands \cup {NoCommand}]
        /\ user \in [Clients -> {"start", "typing", "waiting", "gone"}]
        /\ cLink \in [Clients -> LinkStates]
    BY DEF TypeOK
  <2>2. typed' \in [Clients -> Nat] /\ typed'[c] = typed[c] + 1 /\ typed[c] \in Nat
    BY <1>1, <2>1
  <2>3. cLink' \in [Clients -> LinkStates]
    BY <1>1, <2>1 DEF LinkStates
  <2> QED BY <1>1, <2>1, <2>2, <2>3
<1>4. /\ toServer' \in [Clients -> Seq(Commands)]
      /\ toServer'[c] = IF Closed(c) THEN <<>> ELSE <<m>>
      /\ \A d \in Clients : d # c => toServer'[d] = toServer[d]
  <2>1. toServer \in [Clients -> Seq(Commands)] /\ toServer[c] = <<>>
    BY <1>1 DEF TypeOK, Good, Requests
  <2>2. Append(<<>>, m) = <<m>> /\ <<m>> \in Seq(Commands)
    OBVIOUS
  <2> QED BY <2>1, <2>2, <1>1
<1>5. TypeOK'
  BY <1>2, <1>3, <1>4 DEF TypeOK
<1>6. Queue'
  BY <1>2 DEF Queue
<1>7. ASSUME NEW d \in Clients, d # c PROVE Good(d)'
  <2>1. Pending(d)' = Pending(d) /\ Closed(d)' = Closed(d)
    BY <1>2 DEF Pending, Closed
  <2>2. Aside(d)
    BY <2>1, <1>2, <1>3, <1>4, <1>7 DEF Aside
  <2> QED BY <2>1, <2>2, <1>2, AsideKept
<1>8. Good(c)'
  <2>1. Good(c) /\ ~Answered(c) /\ c \notin polite
    BY <1>1 DEF Good, ReplyOrder, Sales
  <2>2. Pending(c)' = Pending(c) /\ Closed(c)' = Closed(c)
    BY <1>2 DEF Pending, Closed
  <2>3. Fresh(c)' /\ Signals(c)' /\ Total(c)'
    BY <2>1, <2>2, <1>1, <1>2, <1>3 DEF Good, Fresh, Signals, Total
  <2>4. Requests(c)'
    BY <2>2, <1>3, <1>4 DEF Requests
  <2>5. ReplyOrder(c)'
    BY <2>1, <1>2, <1>3 DEF Good, ReplyOrder, Answered
  <2>6. Sales(c)'
    <3>1. sold[c] \in Nat /\ sold[c] + 0 <= typed[c]
      <4>1. toServer[c] = <<>> /\ Len(<<>>) = 0
        BY <1>1, <2>1 DEF Good, Requests
      <4> QED BY <4>1, <1>1, <2>1 DEF TypeOK, Good, Sales
    <3>2. Len(toServer'[c]) \in {0, 1}
      BY <1>4
    <3>3. sold[c] + Len(toServer'[c]) <= typed'[c]
      <4>1. typed[c] \in Nat /\ typed'[c] = typed[c] + 1
        BY <1>3
      <4>2. \A x, y \in Nat : \A l \in {0, 1} : x + 0 <= y => x + l <= y + 1
        OBVIOUS
      <4> QED BY <3>1, <3>2, <4>1, <4>2
    <3> QED BY <3>3, <2>1, <1>2 DEF Sales
  <2> QED BY <2>3, <2>4, <2>5, <2>6 DEF Good
<1> QED BY <1>5, <1>6, <1>7, <1>8

-----------------------------------------------------------------------------
(* Every step                                                              *)

\* A client of which nothing changes is as good as before.
LEMMA SameKept ==
    ASSUME TypeOK, NEW d \in Clients, Good(d), Same(d), parent' = parent,
           conn' = conn, backlog' = backlog,
           "parent" \in signalled' => "parent" \in signalled
    PROVE  Good(d)'
<1>1. Pending(d)' = Pending(d) /\ Closed(d)' = Closed(d)
  BY DEF Pending, Closed, Same
<1>2. Aside(d)
  BY <1>1 DEF Aside, Same
<1> QED BY <1>1, <1>2, AsideKept

\* A step of a child.
LEMMA ChildStepKeeps ==
    ASSUME IInv, NEW c \in Clients, ChildStep(c)
    PROVE  IInv'
<1>1. TypeOK /\ Queue /\ \A d \in Clients : Good(d)
  BY DEF IInv
<1>2. /\ TypeOK' /\ parent' = parent /\ conn' = conn /\ backlog' = backlog
      /\ "parent" \in signalled' => "parent" \in signalled
      /\ \A d \in Clients : d # c => Same(d)
  BY <1>1, ChildTypes
<1>3. Queue'
  BY <1>1, <1>2 DEF Queue
<1>4. \A d \in Clients : Good(d)'
  BY <1>1, <1>2, SameKept, ChildKeeps
<1> QED BY <1>2, <1>3, <1>4 DEF IInv

\* A client ends, with or without saying -999.
LEMMA LeaveKeeps ==
    ASSUME IInv, NEW c \in Clients, NEW q, user[c] \in {"typing", "waiting"},
           Leave(c, q), UNCHANGED <<parentVars, childVars, typed, cLink>>,
           \/ toServer' = toServer /\ polite' = polite
           \/ /\ toServer' = IF Closed(c) THEN toServer
                             ELSE [toServer EXCEPT ![c] = Append(@, "-999")]
              /\ polite' = polite \cup {c}
    PROVE  IInv'
<1> USE DEF IInv
<1>1. /\ user'[c] = "gone" /\ toClient'[c] = <<>> /\ acked'[c] = 0
      /\ \A d \in Clients : d # c =>
            /\ user'[d] = user[d] /\ asked'[d] = asked[d] /\ acked'[d] = acked[d]
            /\ toClient'[d] = toClient[d]
      /\ user' \in [Clients -> {"start", "typing", "waiting", "gone"}]
      /\ asked' \in [Clients -> Commands \cup {NoCommand}]
      /\ received' \in [Clients -> Replies \cup {NoReply}]
      /\ acked' \in [Clients -> Nat]
      /\ toClient' \in [Clients -> Seq(Replies)]
      /\ sLink' \in [Clients -> LinkStates]
  <2> HIDE DEF Leave
  <2> QED BY LeaveEffect
<1>2. /\ parent' = parent /\ conn' = conn /\ backlog' = backlog
      /\ signalled' = signalled /\ child' = child /\ buff' = buff /\ total' = total
      /\ sold' = sold /\ typed' = typed /\ cLink' = cLink
  BY DEF parentVars, childVars
<1>3. /\ toServer[c] \in Seq(Commands) /\ typed[c] \in Nat /\ sold[c] \in Nat
      /\ toServer \in [Clients -> Seq(Commands)] /\ "-999" \in Commands
  BY DEF TypeOK, Commands
<1>4. /\ toServer' \in [Clients -> Seq(Commands)]
      /\ \A d \in Clients : d # c => /\ toServer'[d] = toServer[d]
                                     /\ (d \in polite' <=> d \in polite)
      /\ \/ toServer'[c] = toServer[c]
         \/ ~Closed(c) /\ toServer'[c] = Append(toServer[c], "-999")
      /\ c \in polite' /\ c \notin polite /\ ~Closed(c) =>
           toServer'[c] = Append(toServer[c], "-999")
      /\ polite' \subseteq Clients
  <2>1. Append(toServer[c], "-999") \in Seq(Commands)
    BY <1>3
  <2>2. polite \subseteq Clients
    BY DEF TypeOK
  <2> QED BY <1>3, <2>1, <2>2
<1>5. TypeOK'
  BY <1>1, <1>2, <1>4 DEF TypeOK
<1>6. Queue'
  BY <1>2 DEF Queue
<1>7. ASSUME NEW d \in Clients, d # c PROVE Good(d)'
  <2>1. Same(d)
    BY <1>1, <1>2, <1>4, <1>7 DEF Same
  <2> QED BY <2>1, <1>2, SameKept
<1>8. Good(c)'
  <2>1. Good(c) /\ c \notin polite
    BY DEF Good, Sales
  <2>2. Pending(c)' = Pending(c) /\ Closed(c)' = Closed(c) /\ MayServe(c)' = MayServe(c)
    BY <1>2 DEF Pending, Closed, MayServe
  <2>3. Fresh(c)' /\ Signals(c)' /\ Total(c)'
    BY <2>1, <2>2, <1>1, <1>2 DEF Good, Fresh, Signals, Total
  <2>4. Requests(c)'
    BY <2>1, <2>2, <1>1, <1>4 DEF Good, Requests
  <2>5. ReplyOrder(c)'
    BY <1>1 DEF ReplyOrder, Answered
  <2>6. Sales(c)'
    <3>1. MayServe(c) => ~Closed(c)
      BY DEF MayServe, Pending, Closed
    <3>2. Len(toServer[c]) \in Nat /\ sold[c] + Len(toServer[c]) <= typed[c]
      BY <2>1, <1>3 DEF Good, Sales
    <3>3. sold[c] <= typed[c]
      BY <3>2, <1>3
    <3>4. ASSUME c \in polite', MayServe(c)'
          PROVE  /\ toServer'[c] # <<>> /\ Last(toServer'[c]) = "-999"
                 /\ sold'[c] + Len(toServer'[c]) - 1 <= typed'[c]
      <4> DEFINE p == toServer[c]
      <4>1. toServer'[c] = Append(p, "-999")
        BY <3>1, <3>4, <2>1, <2>2, <1>4
      <4>2. /\ Append(p, "-999") # <<>> /\ Len(Append(p, "-999")) = Len(p) + 1
            /\ Last(Append(p, "-999")) = "-999"
        BY <1>3 DEF Last
      <4> HIDE DEF p
      <4>3. sold[c] + (Len(p) + 1) - 1 <= typed[c]
        BY <3>2, <1>3 DEF p
      <4> QED BY <4>1, <4>2, <4>3, <1>2
    <3> QED BY <3>3, <3>4, <1>1, <1>2 DEF Sales
  <2> QED BY <2>3, <2>4, <2>5, <2>6 DEF Good
<1> QED BY <1>5, <1>6, <1>7, <1>8

\* A client goes on from reply r, the first on its way or, when the server
\* has closed the connection, the one received last; q are then on their way.
LEMMA GoOnKeeps ==
    ASSUME IInv, NEW c \in Clients, NEW r, NEW q, user[c] = "waiting",
           \/ toClient[c] # <<>> /\ r = Head(toClient[c]) /\ q = Tail(toClient[c])
           \/ toClient[c] = <<>> /\ Closed(c) /\ r = received[c] /\ q = <<>>,
           r[1] \notin {"2", "3"}, Act(c, r, q),
           UNCHANGED <<parentVars, childVars, typed, polite, cLink, toServer>>
    PROVE  /\ IInv' /\ received'[c] = r
           /\ Closed(c) \/ Answers(r, asked[c])
<1> USE DEF IInv
<1>1. /\ user' = [user EXCEPT ![c] = "typing"] /\ asked' = [asked EXCEPT ![c] = NoCommand]
      /\ received' = [received EXCEPT ![c] = r]
      /\ acked' = IF r[1] = "0" /\ asked[c] \in Items
                  THEN [acked EXCEPT ![c] = @ + Cost[asked[c]]] ELSE acked
      /\ toClient' = [toClient EXCEPT ![c] = q] /\ sLink' = sLink
  BY DEF Act
<1>2. /\ parent' = parent /\ conn' = conn /\ backlog' = backlog
      /\ signalled' = signalled /\ child' = child /\ buff' = buff /\ total' = total
      /\ sold' = sold /\ typed' = typed /\ polite' = polite /\ cLink' = cLink
      /\ toServer' = toServer
  BY DEF parentVars, childVars
<1>3. /\ toClient \in [Clients -> Seq(Replies)] /\ toClient[c] \in Seq(Replies)
      /\ acked \in [Clients -> Nat] /\ acked[c] \in Nat
      /\ received \in [Clients -> Replies \cup {NoReply}]
      /\ user \in [Clients -> {"start", "typing", "waiting", "gone"}]
      /\ asked \in [Clients -> Commands \cup {NoCommand}]
  BY DEF TypeOK
<1>4. q \in Seq(Replies) /\ r \in Replies \cup {NoReply}
  <2>1. toClient[c] # <<>> => Head(toClient[c]) \in Replies /\ Tail(toClient[c]) \in Seq(Replies)
    BY <1>3
  <2>2. <<>> \in Seq(Replies) /\ received[c] \in Replies \cup {NoReply}
    BY <1>3
  <2> QED BY <2>1, <2>2
<1>5. /\ user' \in [Clients -> {"start", "typing", "waiting", "gone"}]
      /\ asked' \in [Clients -> Commands \cup {NoCommand}]
      /\ received' \in [Clients -> Replies \cup {NoReply}]
      /\ toClient' \in [Clients -> Seq(Replies)]
      /\ user'[c] = "typing" /\ toClient'[c] = q /\ received'[c] = r
      /\ \A d \in Clients : d # c => /\ user'[d] = user[d] /\ asked'[d] = asked[d]
                                     /\ toClient'[d] = toClient[d]
  BY <1>1, <1>3, <1>4
<1>6. /\ acked' \in [Clients -> Nat]
      /\ acked'[c] = IF r[1] = "0" /\ asked[c] \in Items
                     THEN acked[c] + Cost[asked[c]] ELSE acked[c]
      /\ \A d \in Clients : d # c => acked'[d] = acked[d]
  <2>1. CASE r[1] = "0" /\ asked[c] \in Items
    <3>1. acked[c] + Cost[asked[c]] \in Nat
      BY <2>1, <1>3, CostAssumption
    <3> QED BY <2>1, <3>1, <1>1, <1>3
  <2>2. CASE ~(r[1] = "0" /\ asked[c] \in Items)
    BY <2>2, <1>1, <1>3
  <2> QED BY <2>1, <2>2
<1>7. TypeOK'
  BY SMTT(60), <1>1, <1>2, <1>5, <1>6 DEF TypeOK
<1>8. Queue'
  BY <1>2 DEF Queue
<1>9. ASSUME NEW d \in Clients, d # c PROVE Good(d)'
  <2>1. Same(d)
    BY <1>2, <1>5, <1>6, <1>9 DEF Same
  <2> QED BY <2>1, <1>2, SameKept
<1>10. Good(c) /\ c \notin polite
  BY DEF Good, Sales
<1>11. /\ toServer[c] = <<>> /\ ~Pending(c) /\ ~Answered(c)'
       /\ Closed(c) \/ Answers(r, asked[c])
       /\ \A n \in DOMAIN q : q[n] = <<"3">> /\ (child[c] = "ready" => c \in signalled)
       /\ child[c] = "ready" =>
            total[c] = acked[c] + FirstCost(toClient[c]) /\ toClient[c] # <<>>
  <2>1. CASE toClient[c] # <<>> /\ r = Head(toClient[c]) /\ q = Tail(toClient[c])
    <3> DEFINE p == toClient[c]
    <3>1. /\ Len(p) \in Nat /\ Len(p) > 0 /\ DOMAIN p = 1..Len(p) /\ p[1] = r
          /\ DOMAIN q = 1..(Len(p) - 1) /\ q \in Seq(Replies)
          /\ \A n \in 1..(Len(p) - 1) : q[n] = p[n + 1]
      BY <2>1, <1>3
    <3>2. /\ \A n \in DOMAIN p : n > 1 => p[n] = <<"3">>
          /\ \A n \in DOMAIN p : p[n] = <<"3">> /\ child[c] = "ready" => c \in signalled
      BY <1>10 DEF Good, ReplyOrder
    <3>3. \A n \in DOMAIN q : n + 1 \in DOMAIN p /\ n + 1 > 1 /\ q[n] = p[n + 1]
      BY <3>1
    <3>4. \A n \in DOMAIN q : q[n] = <<"3">> /\ (child[c] = "ready" => c \in signalled)
      BY <3>2, <3>3
    <3>5. Answered(c)
      BY <2>1, <3>1 DEF Answered
    <3>6. toServer[c] = <<>> /\ Answers(r, asked[c])
      BY <3>1, <3>5, <1>10 DEF Good, ReplyOrder
    <3>7. ~Pending(c)
      BY <2>1, <1>10 DEF Good, Fresh
    <3>8. ~Answered(c)'
      <4>1. q # <<>> => 1 \in DOMAIN q /\ <<"3">>[1] = "3"
        BY <3>1
      <4>2. q # <<>> => q[1][1] = "3"
        BY <4>1, <3>4
      <4> QED BY <4>2, <1>5 DEF Answered
    <3>9. child[c] = "ready" => total[c] = acked[c] + FirstCost(toClient[c])
      BY <1>10 DEF Good, Total
    <3> QED BY <2>1, <3>4, <3>6, <3>7, <3>8, <3>9
  <2>2. CASE toClient[c] = <<>> /\ Closed(c) /\ r = received[c] /\ q = <<>>
    BY <2>2, <1>5, <1>10 DEF Good, Requests, Pending, Closed, Answered
  <2> QED BY <2>1, <2>2
<1>12. Good(c)'
  <2>1. Pending(c)' = Pending(c) /\ Closed(c)' = Closed(c)
    BY <1>2 DEF Pending, Closed
  <2>2. Fresh(c)' /\ Signals(c)' /\ Requests(c)'
    BY <2>1, <1>2, <1>5, <1>10, <1>11 DEF Good, Fresh, Signals, Requests
  <2>3. ReplyOrder(c)'
    BY <1>2, <1>5, <1>11 DEF ReplyOrder
  <2>4. Total(c)'
    <3>1. SUFFICES ASSUME child[c] = "ready"
                   PROVE  total[c] = acked'[c] + FirstCost(toClient'[c])
      BY <1>2, <1>5 DEF Total
    <3>2. r = toClient[c][1] /\ Answers(r, asked[c])
      BY <3>1, <1>11, <1>3 DEF Closed
    <3>3. FirstCost(toClient'[c]) = 0
      <4>1. \A x : x = <<"3">> => x[1] # "0"
        OBVIOUS
      <4>2. q # <<>> => 1 \in DOMAIN q
        BY <1>4
      <4> QED BY <4>1, <4>2, <1>5, <1>11 DEF FirstCost
    <3>4. acked'[c] = acked[c] + FirstCost(toClient[c])
      <4>1. CASE r[1] = "0" /\ asked[c] \in Items /\ r[2] = asked[c]
        BY <4>1, <3>1, <3>2, <1>6, <1>11 DEF FirstCost
      <4>2. CASE r[1] = "1"
        <5>1. FirstCost(toClient[c]) = 0 /\ acked'[c] = acked[c]
          BY <4>2, <3>2, <1>6 DEF FirstCost
        <5> QED BY <5>1, <1>3
      <4> QED BY <4>1, <4>2, <3>2 DEF Answers
    <3>5. acked'[c] \in Nat
      BY <1>6
    <3> QED BY <3>1, <3>3, <3>4, <3>5, <1>11
  <2>5. Sales(c)'
    BY <1>2, <1>5, <1>10 DEF Good, Sales
  <2> QED BY <2>2, <2>3, <2>4, <2>5 DEF Good
<1> QED BY <1>5, <1>7, <1>8, <1>9, <1>11, <1>12

\* A client receives a reply: it goes on, or it ends.  It goes on from the
\* reply to its command, or from an old one once the connection is closed.
LEMMA ReceiveKeeps ==
    ASSUME IInv, NEW c \in Clients, Receive(c)
    PROVE  /\ IInv'
           /\ user'[c] = "typing" => Closed(c) \/ Answers(received'[c], asked[c])
<1>1. PICK r, q :
        /\ \/ toClient[c] # <<>> /\ r = Head(toClient[c]) /\ q = Tail(toClient[c])
           \/ toClient[c] = <<>> /\ Closed(c) /\ r = received[c] /\ q = <<>>
        /\ Act(c, r, q)
  <2> HIDE DEF Act
  <2> QED BY DEF Receive
<1>2. /\ user[c] = "waiting"
      /\ UNCHANGED <<parentVars, childVars, typed, polite, cLink, toServer>>
  BY DEF Receive
<1>3. CASE r[1] \in {"2", "3"}
  <2>1. Leave(c, q)
    BY <1>1, <1>3 DEF Act
  <2>2. user'[c] # "typing"
    BY <2>1 DEF Leave, IInv, TypeOK
  <2> HIDE DEF Leave
  <2> QED BY <2>1, <2>2, <1>2, LeaveKeeps
<1>4. CASE r[1] \notin {"2", "3"}
  <2> HIDE DEF Act
  <2> QED BY <1>1, <1>2, <1>4, GoOnKeeps
<1> QED BY <1>3, <1>4

\* What is dropped when the parent closes connections, or exits.
LEMMA DropEffect ==
    ASSUME TypeOK, DropUnread(toServer)
    PROVE  /\ toServer' \in [Clients -> Seq(Commands)] /\ cLink' \in [Clients -> LinkStates]
           /\ \A d \in Clients :
                \/ toServer'[d] = toServer[d] /\ (Closed(d)' => Closed(d))
                \/ toServer'[d] = <<>> /\ Closed(d)'
<1> DEFINE closed == {d \in Clients : ~Closed(d) /\ Closed(d)'}
<1>1. /\ toServer' = [d \in Clients |-> IF d \in closed THEN <<>> ELSE toServer[d]]
      /\ cLink' = [d \in Clients |-> IF d \in closed /\ toServer[d] # <<>> THEN "lost"
                                     ELSE cLink[d]]
  BY DEF DropUnread
<1>2. \A d \in Clients : d \in closed <=> ~Closed(d) /\ Closed(d)'
  OBVIOUS
<1> HIDE DEF closed
<1>3. toServer' \in [Clients -> Seq(Commands)] /\ cLink' \in [Clients -> LinkStates]
  BY <1>1 DEF TypeOK, LinkStates
<1> QED BY <1>1, <1>2, <1>3

\* The parent accepts a connection.
LEMMA AcceptKeeps ==
    ASSUME IInv, Accept
    PROVE  IInv'
<1> USE DEF IInv
<1>1. /\ parent = "accept" /\ "parent" \notin signalled /\ backlog # <<>>
      /\ conn' = Head(backlog) /\ backlog' = Tail(backlog) /\ parent' = "fork"
      /\ signalled' = signalled /\ UNCHANGED <<childVars, clientVars, links>>
  BY DEF Accept
<1>2. /\ child' = child /\ buff' = buff /\ total' = total /\ sold' = sold
      /\ user' = user /\ asked' = asked /\ received' = received /\ typed' = typed
      /\ acked' = acked /\ polite' = polite
      /\ sLink' = sLink /\ cLink' = cLink /\ toServer' = toServer /\ toClient' = toClient
  BY <1>1 DEF childVars, clientVars, links
<1>3. /\ backlog \in Seq(Clients) /\ conn = "none"
      /\ \A m, n \in DOMAIN backlog : backlog[m] = backlog[n] => m = n
  BY <1>1 DEF TypeOK, Queue
<1>4. /\ conn' \in Clients /\ backlog' \in Seq(Clients)
      /\ ToSet(backlog) = ToSet(backlog') \cup {conn'}
      /\ conn' \notin ToSet(backlog')
      /\ \A m, n \in DOMAIN backlog' : backlog'[m] = backlog'[n] => m = n
  BY <1>1, <1>3, QueueShrinks
<1>5. TypeOK'
  BY <1>1, <1>2, <1>4 DEF TypeOK
<1>6. Queue'
  BY <1>1, <1>4 DEF Queue
<1>7. ASSUME NEW d \in Clients PROVE Good(d)'
  <2>1. Pending(d)' = Pending(d) /\ (d = conn' => Pending(d)) /\ (Closed(d)' => Closed(d))
    BY <1>1, <1>2, <1>3, <1>4, Names DEF Pending, Closed
  <2>2. Aside(d)
    BY <2>1, <1>1, <1>2 DEF Aside
  <2> QED BY <2>1, <2>2, <1>1, AsideKept
<1> QED BY <1>5, <1>6, <1>7

\* The parent forks a child for the connection, or fails to.
LEMMA ForkKeeps ==
    ASSUME IInv, Fork
    PROVE  IInv'
<1> USE DEF IInv
<1>1. /\ parent = "fork" /\ "parent" \notin signalled /\ parent' = "close"
      /\ child' = [child EXCEPT ![conn] = "ready"] \/ child' = child
      /\ UNCHANGED <<conn, backlog, signalled, buff, total, sold, clientVars, links>>
  BY DEF Fork
<1>2. /\ buff' = buff /\ total' = total /\ sold' = sold
      /\ conn' = conn /\ backlog' = backlog /\ signalled' = signalled
      /\ user' = user /\ asked' = asked /\ received' = received /\ typed' = typed
      /\ acked' = acked /\ polite' = polite
      /\ sLink' = sLink /\ cLink' = cLink /\ toServer' = toServer /\ toClient' = toClient
  BY <1>1 DEF clientVars, links
<1>3. conn \in Clients /\ conn \notin ToSet(backlog) /\ Pending(conn)
  BY <1>1 DEF Queue, Pending
<1>4. /\ child' \in [Clients -> {"none", "ready", "gone"}]
      /\ child'[conn] \in {child[conn], "ready"}
      /\ \A d \in Clients : d # conn => child'[d] = child[d]
  <2>1. PICK c \in Clients : c = conn
    BY <1>3
  <2>2. child \in [Clients -> {"none", "ready", "gone"}]
    BY DEF TypeOK
  <2>3. CASE child' = child
    BY <2>1, <2>2, <2>3
  <2>4. CASE child' = [child EXCEPT ![c] = "ready"]
    BY <2>1, <2>2, <2>4
  <2> QED BY <2>1, <2>3, <2>4, <1>1
<1>5. TypeOK'
  BY <1>1, <1>2, <1>4 DEF TypeOK
<1>6. Queue'
  BY <1>1, <1>2 DEF Queue
<1>7. ASSUME NEW d \in Clients, child'[d] = child[d] PROVE Good(d)'
  <2>1. (Pending(d)' => Pending(d)) /\ Closed(d)' = Closed(d)
    BY <1>1, <1>2, <1>7 DEF Pending, Closed
  <2>2. Aside(d)
    BY <2>1, <1>2, <1>7 DEF Aside
  <2> QED BY <2>1, <2>2, <1>1, <1>2, AsideKept
<1>8. ASSUME NEW d \in Clients, d = conn, child'[d] = "ready" PROVE Good(d)'
  <2>1. /\ Good(d) /\ Pending(d) /\ MayServe(d) /\ user[d] # "start"
        /\ child[d] = "none" /\ toClient[d] = <<>> /\ total[d] = 0 /\ acked[d] = 0
    BY <1>3, <1>8 DEF Good, Fresh, MayServe
  <2>2. ~Pending(d)' /\ ~Closed(d)'
    BY <1>1, <1>2, <1>3, <1>8 DEF Pending, Closed
  <2>3. Fresh(d)' /\ Signals(d)' /\ Requests(d)' /\ ReplyOrder(d)'
    BY <2>1, <2>2, <1>1, <1>2, <1>8
       DEF Good, Fresh, Signals, Requests, ReplyOrder, Answered
  <2>4. Total(d)'
    <3>1. FirstCost(<<>>) = 0
      BY DEF FirstCost
    <3> QED BY <2>1, <3>1, <1>2 DEF Total
  <2>5. Sales(d)'
    BY <2>1, <1>2 DEF Good, Sales
  <2> QED BY <2>3, <2>4, <2>5 DEF Good
<1>9. \A d \in Clients : Good(d)'
  BY <1>4, <1>7, <1>8
<1> QED BY <1>5, <1>6, <1>9

\* The parent closes its copy of the connection.
LEMMA CloseCopyKeeps ==
    ASSUME IInv, CloseCopy
    PROVE  IInv'
<1> USE DEF IInv
<1>1. /\ parent = "close" /\ parent' = "accept" /\ conn' = "none"
      /\ UNCHANGED <<backlog, signalled, childVars, clientVars, sLink, toClient>>
      /\ DropUnread(toServer)
  BY DEF CloseCopy
<1>2. /\ backlog' = backlog /\ signalled' = signalled
      /\ child' = child /\ buff' = buff /\ total' = total /\ sold' = sold
      /\ user' = user /\ asked' = asked /\ received' = received /\ typed' = typed
      /\ acked' = acked /\ polite' = polite /\ sLink' = sLink /\ toClient' = toClient
  BY <1>1 DEF childVars, clientVars
<1>3. /\ toServer' \in [Clients -> Seq(Commands)] /\ cLink' \in [Clients -> LinkStates]
      /\ \A d \in Clients :
           \/ toServer'[d] = toServer[d] /\ (Closed(d)' => Closed(d))
           \/ toServer'[d] = <<>> /\ Closed(d)'
  <2> HIDE DEF DropUnread
  <2> QED BY <1>1, DropEffect
<1>4. TypeOK'
  BY <1>1, <1>2, <1>3 DEF TypeOK
<1>5. Queue'
  <2>1. \A d \in ToSet(backlog) : d \in Clients
    BY DEF TypeOK, ToSet
  <2> QED BY <2>1, <1>1, <1>2, Names DEF Queue
<1>6. ASSUME NEW d \in Clients PROVE Good(d)'
  <2>1. (Pending(d)' => Pending(d)) /\ d # conn' /\ (Closed(d)' => ~MayServe(d)')
    BY <1>1, <1>2, Names DEF Pending, Closed, MayServe
  <2>2. Aside(d)
    BY <2>1, <1>2, <1>3 DEF Aside
  <2> QED BY <2>1, <2>2, <1>2, AsideKept
<1> QED BY <1>4, <1>5, <1>6

\* The parent handles Ctrl+C, after which every child that is left has been
\* signalled.
LEMMA InterruptParentKeeps ==
    ASSUME IInv, InterruptParent
    PROVE  IInv'
<1> USE DEF IInv
<1>1. /\ "parent" \in signalled /\ signalled' = signalled \ {"parent"}
      /\ parent' = "gone" /\ conn' = "none" /\ backlog' = <<>>
      /\ UNCHANGED <<childVars, clientVars>> /\ DropUnread(toServer)
      /\ IF conn # "none" THEN Reply(conn, <<"3">>) ELSE UNCHANGED <<sLink, toClient>>
  BY DEF InterruptParent
<1>2. /\ child' = child /\ buff' = buff /\ total' = total /\ sold' = sold
      /\ user' = user /\ asked' = asked /\ received' = received /\ typed' = typed
      /\ acked' = acked /\ polite' = polite
  BY <1>1 DEF childVars, clientVars
<1>3. /\ toServer' \in [Clients -> Seq(Commands)] /\ cLink' \in [Clients -> LinkStates]
      /\ \A d \in Clients :
           \/ toServer'[d] = toServer[d] /\ (Closed(d)' => Closed(d))
           \/ toServer'[d] = <<>> /\ Closed(d)'
  <2> HIDE DEF DropUnread
  <2> QED BY <1>1, DropEffect
<1>4. /\ sLink' \in [Clients -> LinkStates] /\ toClient' \in [Clients -> Seq(Replies)]
      /\ \A d \in Clients :
           \/ toClient'[d] = toClient[d]
           \/ d = conn /\ toClient'[d] = Append(toClient[d], <<"3">>) /\ user[d] # "gone"
  <2>1. CASE conn = "none"
    BY <2>1, <1>1 DEF TypeOK
  <2>2. CASE conn # "none"
    <3>1. conn \in Clients /\ Reply(conn, <<"3">>)
      BY <2>2, <1>1 DEF TypeOK
    <3>2. PICK c \in Clients : c = conn /\ Reply(c, <<"3">>)
      BY <3>1
    <3> HIDE DEF Reply
    <3> QED BY <3>2, Names, ReplyEffect
  <2> QED BY <2>1, <2>2
<1>5. backlog' \in Seq(Clients) /\ ToSet(backlog') = {} /\ DOMAIN backlog' = {}
  BY <1>1 DEF ToSet
<1>6. TypeOK'
  BY <1>1, <1>2, <1>3, <1>4, <1>5 DEF TypeOK
<1>7. Queue'
  BY <1>1, <1>5 DEF Queue
<1>8. ASSUME NEW d \in Clients PROVE Good(d)'
  <2>1. ~Pending(d)' /\ d # conn' /\ (Closed(d)' => ~MayServe(d)')
    BY <1>1, <1>5, Names DEF Pending, Closed, MayServe
  <2>2. /\ d \in signalled' <=> d \in signalled
        /\ child[d] = "ready" => d \in signalled
        /\ d = conn => user[d] # "start"
    BY <1>1, Names DEF Good, Signals, Fresh
  <2>3. Aside(d)
    BY <2>1, <2>2, <1>2, <1>3, <1>4 DEF Aside
  <2> QED BY <2>1, <2>3, <1>1, AsideKept
<1> QED BY <1>6, <1>7, <1>8

\* Ctrl+C reaches every process of the server.
LEMMA InterruptKeeps ==
    ASSUME IInv, Interrupt
    PROVE  IInv'
<1> USE DEF IInv
<1>1. /\ signalled = {}
      /\ signalled' = {"parent"} \cup {c \in Clients : child[c] = "ready"}
      /\ UNCHANGED <<parent, conn, backlog, childVars, clientVars, links>>
  BY DEF Interrupt
<1>2. /\ child' = child /\ buff' = buff /\ total' = total /\ sold' = sold
      /\ parent' = parent /\ conn' = conn /\ backlog' = backlog
      /\ user' = user /\ asked' = asked /\ received' = received /\ typed' = typed
      /\ acked' = acked /\ polite' = polite
      /\ sLink' = sLink /\ cLink' = cLink /\ toServer' = toServer /\ toClient' = toClient
  BY <1>1 DEF childVars, clientVars, links
<1>3. signalled' \subseteq Clients \cup {"parent"}
  BY <1>1
<1>4. TypeOK'
  BY <1>2, <1>3 DEF TypeOK
<1>5. Queue'
  BY <1>2 DEF Queue
<1>6. ASSUME NEW d \in Clients PROVE Good(d)'
  <2>1. d \in signalled' <=> child[d] = "ready"
    BY <1>1, Names
  <2>2. Pending(d)' = Pending(d) /\ Closed(d)' = Closed(d) /\ MayServe(d)' = MayServe(d)
    BY <1>2 DEF Pending, Closed, MayServe
  <2>3. Fresh(d)' /\ Signals(d)' /\ Requests(d)' /\ Total(d)' /\ Sales(d)'
    BY <2>1, <2>2, <1>2 DEF Good, Fresh, Signals, Requests, Total, Sales
  <2>4. ReplyOrder(d)'
    BY <2>1, <1>2 DEF Good, ReplyOrder, Answered
  <2> QED BY <2>3, <2>4 DEF Good
<1> QED BY <1>4, <1>5, <1>6

\* A reset comes back.
LEMMA ResetKeeps ==
    ASSUME IInv, NEW c \in Clients, ResetStep(c)
    PROVE  IInv'
<1> USE DEF IInv
<1>1. /\ UNCHANGED <<parentVars, childVars, clientVars, toServer, toClient>>
      /\ \/ sLink' = [sLink EXCEPT ![c] = "reset"] /\ cLink' = cLink
         \/ cLink' = [cLink EXCEPT ![c] = "reset"] /\ sLink' = sLink
  BY DEF ResetStep, ResetServer, ResetClient
<1>2. /\ child' = child /\ buff' = buff /\ total' = total /\ sold' = sold
      /\ parent' = parent /\ conn' = conn /\ backlog' = backlog
      /\ signalled' = signalled
      /\ user' = user /\ asked' = asked /\ received' = received /\ typed' = typed
      /\ acked' = acked /\ polite' = polite
      /\ toServer' = toServer /\ toClient' = toClient
  BY <1>1 DEF parentVars, childVars, clientVars
<1>3. sLink' \in [Clients -> LinkStates] /\ cLink' \in [Clients -> LinkStates]
  <2>1. sLink \in [Clients -> LinkStates] /\ cLink \in [Clients -> LinkStates]
    BY DEF TypeOK
  <2>2. "reset" \in LinkStates
    BY DEF LinkStates
  <2> QED BY <2>1, <2>2, <1>1
<1>4. TypeOK'
  BY <1>2, <1>3 DEF TypeOK
<1>5. Queue'
  BY <1>2 DEF Queue
<1>6. ASSUME NEW d \in Clients PROVE Good(d)'
  <2>1. Same(d)
    BY <1>2 DEF Same
  <2> QED BY <2>1, <1>2, SameKept
<1> QED BY <1>4, <1>5, <1>6

-----------------------------------------------------------------------------
(* The theorems                                                            *)

\* The invariant holds at the start.
LEMMA InitIInv == Init => IInv
<1> SUFFICES ASSUME Init PROVE IInv
  OBVIOUS
<1>1. ToSet(<<>>) = {} /\ DOMAIN <<>> = {} /\ Len(<<>>) = 0
  BY DEF ToSet
<1>2. TypeOK
  BY DEF Init, TypeOK, LinkStates
<1>3. Queue
  BY <1>1 DEF Init, Queue
<1>4. ASSUME NEW c \in Clients PROVE Good(c)
  <2>1. ~Pending(c) /\ c # conn
    BY <1>1, Names DEF Init, Pending
  <2>2. Fresh(c) /\ Signals(c) /\ Requests(c) /\ ReplyOrder(c) /\ Total(c)
    BY <2>1 DEF Init, Fresh, Signals, Requests, ReplyOrder, Answered, Total
  <2>3. Sales(c)
    BY <1>1 DEF Init, Sales
  <2> QED BY <2>2, <2>3 DEF Good
<1> QED BY <1>2, <1>3, <1>4 DEF IInv

\* A step that changes nothing keeps the invariant.
LEMMA StutterKeeps == IInv /\ UNCHANGED vars => IInv'
<1> SUFFICES ASSUME IInv, UNCHANGED vars PROVE IInv'
  OBVIOUS
<1>1. /\ child' = child /\ buff' = buff /\ total' = total /\ sold' = sold
      /\ parent' = parent /\ conn' = conn /\ backlog' = backlog
      /\ signalled' = signalled
      /\ user' = user /\ asked' = asked /\ received' = received /\ typed' = typed
      /\ acked' = acked /\ polite' = polite
      /\ sLink' = sLink /\ cLink' = cLink /\ toServer' = toServer /\ toClient' = toClient
  BY DEF vars, parentVars, childVars, clientVars, links
<1>2. TypeOK' /\ Queue'
  BY <1>1 DEF IInv, TypeOK, Queue
<1>3. ASSUME NEW d \in Clients PROVE Good(d)'
  <2>1. Same(d)
    BY <1>1 DEF Same
  <2> QED BY <2>1, <1>1, SameKept DEF IInv
<1> QED BY <1>2, <1>3 DEF IInv

\* So does every step of the server and its clients.
LEMMA NextKeeps == IInv /\ Next => IInv'
<1> SUFFICES ASSUME IInv, Next PROVE IInv'
  OBVIOUS
<1>1. CASE ParentStep
  BY <1>1, AcceptKeeps, ForkKeeps, CloseCopyKeeps, InterruptParentKeeps DEF ParentStep
<1>2. CASE Interrupt
  BY <1>2, InterruptKeeps
<1>3. ASSUME NEW c \in Clients,
             \/ ChildStep(c) \/ ResetStep(c)
             \/ Connect(c) \/ Type(c) \/ Receive(c)
      PROVE  IInv'
  BY <1>3, ChildStepKeeps, ResetKeeps, ConnectKeeps, TypeKeeps, ReceiveKeeps
<1>4. ASSUME NEW c \in Clients, BrokenPipe(c) \/ Stop(c) \/ Vanish(c) PROVE IInv'
  <2>1. /\ user[c] \in {"typing", "waiting"} /\ Leave(c, toClient[c])
        /\ UNCHANGED <<parentVars, childVars, typed, cLink>>
        /\ \/ toServer' = toServer /\ polite' = polite
           \/ /\ toServer' = IF Closed(c) THEN toServer
                             ELSE [toServer EXCEPT ![c] = Append(@, "-999")]
              /\ polite' = polite \cup {c}
    BY <1>4 DEF BrokenPipe, Stop, Vanish
  <2> HIDE DEF Leave
  <2> QED BY <2>1, LeaveKeeps
<1> QED BY <1>1, <1>2, <1>3, <1>4 DEF Next

\* The inductive invariant, for any number of clients, commands and items.
THEOREM Invariance == Spec => []IInv
<1>1. Init => IInv
  BY InitIInv
<1>2. IInv /\ [Next]_vars => IInv'
  BY NextKeeps, StutterKeeps
<1> QED BY <1>1, <1>2, PTL DEF Spec

\* Every variable of server.cpp and client.cpp keeps to its type, the totals
\* and counts never fall below zero.
THEOREM TypesHold == Spec => []TypeOK
<1>1. IInv => TypeOK
  BY DEF IInv
<1> QED BY <1>1, Invariance, PTL

\* BillIsRight (server.cpp:190, 199): a customer pays for the items whose
\* confirmation the client has seen or will see, whatever is interrupted.
THEOREM BillHolds == Spec => []BillIsRight
<1>1. IInv => BillIsRight
  <2> SUFFICES ASSUME IInv, NEW c \in Clients, user[c] # "gone"
               PROVE  /\ child[c] = "ready" =>
                           total[c] = acked[c] + Confirmed(toClient[c])
                      /\ \A n \in DOMAIN toClient[c] :
                           toClient[c][n][1] = "2" => toClient[c][n][2] = acked[c]
    BY DEF BillIsRight
  <2>1. Good(c) /\ toClient[c] \in Seq(Replies)
    BY DEF IInv, TypeOK
  <2>2. \A n \in DOMAIN toClient[c] : n > 1 => toClient[c][n] = <<"3">>
    BY <2>1 DEF Good, ReplyOrder
  <2>3. Confirmed(toClient[c]) = FirstCost(toClient[c])
    BY <2>1, <2>2, ConfirmedIsFirst
  <2>4. ASSUME NEW n \in DOMAIN toClient[c], toClient[c][n][1] = "2"
        PROVE  toClient[c][n][2] = acked[c]
    <3>1. n = 1
      <4>1. <<"3">>[1] # "2"
        OBVIOUS
      <4>2. n \in Nat /\ n >= 1
        BY <2>1
      <4> QED BY <4>1, <4>2, <2>2, <2>4
    <3>2. Answered(c)
      BY <2>4, <3>1 DEF Answered
    <3>3. ~Answers(toClient[c][1], asked[c])
      BY <2>4, <3>1 DEF Answers
    <3>4. toClient[c][1] = <<"2", acked[c]>>
      BY <3>2, <3>3, <2>1 DEF Good, ReplyOrder
    <3> QED BY <3>1, <3>4
  <2> QED BY <2>1, <2>3, <2>4 DEF Good, Total
<1> QED BY <1>1, Invariance, PTL

\* NoPhantomSale (server.cpp:149, client.cpp:124): a child does not sell more
\* than its client ordered, unless the client vanished without its -999.
THEOREM NoPhantom == Spec => []NoPhantomSale
<1>1. IInv => NoPhantomSale
  <2> SUFFICES ASSUME IInv, NEW c \in Clients, user[c] # "gone" \/ c \in polite
               PROVE  sold[c] <= typed[c]
    BY DEF NoPhantomSale
  <2>1. /\ Sales(c) /\ sold[c] \in Nat /\ typed[c] \in Nat
        /\ Len(toServer[c]) \in Nat
    BY DEF IInv, Good, TypeOK
  <2> QED BY <2>1 DEF Sales
<1> QED BY <1>1, Invariance, PTL

\* RepliesInStep (client.cpp:89-107): a client goes on from the reply to the
\* command it has just sent, unless the server has closed the connection.
THEOREM RepliesHold == Spec => RepliesInStep
<1> DEFINE A == \A c \in Clients :
                  user[c] = "waiting" /\ user'[c] = "typing" =>
                    Closed(c) \/ Answers(received'[c], asked[c])
<1>1. IInv /\ [Next]_vars => A
  <2> SUFFICES ASSUME IInv, [Next]_vars, NEW c \in Clients,
                      user[c] = "waiting", user'[c] = "typing"
               PROVE  Closed(c) \/ Answers(received'[c], asked[c])
    OBVIOUS
  <2>1. TypeOK
    BY DEF IInv
  <2>2. user' # user
    OBVIOUS
  <2>3. ~ParentStep /\ ~Interrupt /\ ~UNCHANGED vars
    BY <2>2 DEF ParentStep, Accept, Fork, CloseCopy, InterruptParent, Interrupt,
                vars, clientVars
  <2>4. ASSUME NEW d \in Clients, ChildStep(d) \/ ResetStep(d) PROVE FALSE
    BY <2>2, <2>4 DEF ChildStep, Sell, Refuse, Bill, Quit, FailReceive, InterruptChild,
                      Answer, ResetStep, ResetServer, ResetClient, clientVars
  <2>5. ASSUME NEW d \in Clients,
               Connect(d) \/ Type(d) \/ BrokenPipe(d) \/ Stop(d) \/ Vanish(d)
        PROVE  FALSE
    <3>1. /\ \E v \in {"gone", "typing", "waiting"} : user' = [user EXCEPT ![d] = v]
          /\ user[d] # "start" => user'[d] \in {"gone", "waiting"}
          /\ user[d] \notin {"start", "typing"} => user'[d] = "gone"
      BY SMTT(60), <2>1, <2>5 DEF Connect, Type, BrokenPipe, Stop, Vanish, Leave, TypeOK
    <3> QED BY <3>1
  <2>6. PICK d \in Clients : Receive(d)
    BY <2>3, <2>4, <2>5 DEF Next
  <2>7. d = c
    <3>1. \E v : user' = [user EXCEPT ![d] = v]
      BY <2>6 DEF Receive, Act, Leave
    <3> QED BY <3>1
  <2> QED BY <2>6, <2>7, ReceiveKeeps
<1>2. Spec => [][A]_vars
  BY <1>1, Invariance, PTL DEF Spec
<1> QED BY <1>2 DEF RepliesInStep
=============================================================================
