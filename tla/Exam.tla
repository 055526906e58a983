-------------------------------- MODULE Exam --------------------------------
(***************************************************************************)
(* Assignment4/Group_1/ass4_2.cpp: a parent process examines num_c child   *)
(* processes.  Questions and answers travel through two System V message   *)
(* queues, turns are taken with named semaphores.  The queues and the      *)
(* semaphores live in the kernel: they survive a program that is           *)
(* interrupted, and the next run of the program finds them as they are.    *)
(*                                                                         *)
(* A mutex that each process has a copy of (mtx) synchronises nothing and  *)
(* is left out.  A question is its number and the run that sent it; of an  *)
(* answer sheet only the set of right answers matters.                     *)
(***************************************************************************)
EXTENDS Integers, Sequences, FiniteSets, Functions

CONSTANTS NumChildren,  \* num_c
          NumQ,         \* num_q
          NumOptions,   \* num_options
          MaxRuns,      \* bound: how often the program is started,
          MaxKills      \* and how many children are killed

ASSUME ConstAssumption ==
    /\ NumChildren \in Nat \ {0} /\ NumQ \in Nat \ {0}
    /\ NumOptions \in 0..(NumQ + 1)     \* more reads past the key's end
    /\ MaxRuns \in Nat /\ MaxKills \in Nat

Children == 1..NumChildren
Questions == 1..NumQ
Absent == -1        \* a semaphore that does not exist

VARIABLES
    parent, children,   \* the semaphores: their values
    message_ques,       \* the questions under way
    message_answers,    \* the answer sheets under way
    ppc, j, i,          \* the parent and its loop counters
    cpc, cj,            \* the children, the questions each has answered
    got,                \* child -> the questions it has received
    right,              \* child -> its right answers
    marks,              \* the parent's marks
    run, kills,         \* history: runs started, children killed
    clean               \* history: did this run find nothing left over, and
                        \* was none of its children killed?

kernel == <<parent, children, message_ques, message_answers>>
pvars == <<ppc, j, i, marks>>
cvars == <<cpc, cj, got, right>>
hvars == <<run, kills, clean>>
vars == <<kernel, pvars, cvars, hvars>>

Init == /\ parent = Absent /\ children = [c \in Children |-> Absent]
        /\ message_ques = <<>> /\ message_answers = {}
        /\ ppc = "off" /\ j = 1 /\ i = 1
        /\ cpc = [c \in Children |-> "none"]
        /\ cj = [c \in Children |-> 0]
        /\ got = [c \in Children |-> <<>>]
        /\ right = [c \in Children |-> {}]
        /\ marks = [c \in Children |-> 0]
        /\ run = 0 /\ kills = 0 /\ clean = TRUE

-----------------------------------------------------------------------------
(* Starting, interrupting, killing                                         *)

\* Mutant: the parent's semaphore is created with two units.
OpenTwo(sem, value) == IF sem = Absent THEN 2 * value ELSE sem

\* sem_open with O_CREAT: an existing semaphore keeps its value.
Open(sem, value) == IF sem = Absent THEN value ELSE sem

\* Open the queues and semaphores and fork the children.
Start ==
    /\ ppc = "off" /\ run < MaxRuns
    /\ parent' = Open(parent, 1)
    /\ children' = [c \in Children |-> Open(children[c], 0)]
    /\ ppc' = "wait" /\ j' = 1 /\ i' = 1
    /\ marks' = [c \in Children |-> 0]
    /\ cpc' = [c \in Children |-> "wait"]
    /\ cj' = [c \in Children |-> 0]
    /\ got' = [c \in Children |-> <<>>]
    /\ right' = [c \in Children |-> {}]
    /\ run' = run + 1
    /\ clean' = (parent = Absent /\ message_ques = <<>> /\ message_answers = {})
    /\ UNCHANGED <<message_ques, message_answers, kills>>

\* Ctrl-C ends the parent and the children; the kernel's objects stay.
Interrupt ==
    /\ ppc # "off"
    /\ ppc' = "off"
    /\ cpc' = [c \in Children |-> "none"]
    /\ UNCHANGED <<kernel, j, i, marks, cj, got, right, hvars>>

Kill(c) ==
    /\ kills < MaxKills /\ ppc # "off" /\ cpc[c] \notin {"exited", "killed"}
    /\ cpc' = [cpc EXCEPT ![c] = "killed"]
    /\ kills' = kills + 1 /\ clean' = FALSE
    /\ UNCHANGED <<kernel, pvars, cj, got, right, run>>

-----------------------------------------------------------------------------
(* The parent                                                              *)

Goto(loc) == ppc' = loc
WaitParent == parent > 0 /\ parent' = parent - 1
PostChild(c) == children' = [children EXCEPT ![c] = @ + 1]

\* sem_wait(parent), before a question, before the grading, and in it.
ParentWait ==
    /\ WaitParent
    /\ \/ ppc = "wait" /\ Goto("send")
       \/ ppc = "last" /\ Goto("call")
       \/ ppc = "await" /\ Goto("read")
    /\ UNCHANGED <<children, message_ques, message_answers, j, i, marks, cvars,
                   hvars>>

SendQuestion ==
    /\ ppc = "send" /\ Goto("post")
    /\ message_ques' = Append(message_ques, [run |-> run, q |-> j])
    /\ UNCHANGED <<parent, children, message_answers, j, i, marks, cvars, hvars>>

\* The turn goes to child i; the loops go on, question by question.
PostQuestion ==
    /\ ppc = "post"
    /\ PostChild(i)
    /\ IF i < NumChildren
         THEN Goto("wait") /\ i' = i + 1 /\ UNCHANGED j
         ELSE /\ i' = 1
              /\ IF j < NumQ THEN Goto("wait") /\ j' = j + 1
                             ELSE Goto("last") /\ UNCHANGED j
    /\ UNCHANGED <<parent, message_ques, message_answers, marks, cvars, hvars>>

\* Ask child i for its answers.
CallChild ==
    /\ ppc = "call" /\ Goto("await")
    /\ PostChild(i)
    /\ UNCHANGED <<parent, message_ques, message_answers, j, i, marks, cvars, hvars>>

\* The loop compares the first num_options characters of answers and key;
\* one more than there are questions compares the two terminators.
Marks(answers) == Cardinality(answers \cap 1..NumOptions)
                    + (IF NumOptions > NumQ THEN 1 ELSE 0)

\* Mutant: the wrong index, every mark goes to the first child.
ReadIntoFirst ==
    /\ ppc = "read"
    /\ \E m \in message_answers :
         /\ m.child = i
         /\ message_answers' = message_answers \ {m}
         /\ marks' = [marks EXCEPT ![1] = Marks(m.right)]
    /\ IF i < NumChildren THEN Goto("call") /\ i' = i + 1
                          ELSE Goto("reap") /\ i' = 1
    /\ UNCHANGED <<parent, children, message_ques, j, cvars, hvars>>

\* msgrcv of the oldest answers of type i + 1, and the marks.
ReadAnswers ==
    /\ ppc = "read"
    /\ \E m \in message_answers :
         /\ m.child = i
         /\ \A n \in message_answers : n.child = i => m.run <= n.run
         /\ message_answers' = message_answers \ {m}
         /\ marks' = [marks EXCEPT ![i] = Marks(m.right)]
    /\ IF i < NumChildren THEN Goto("call") /\ i' = i + 1
                          ELSE Goto("reap") /\ i' = 1
    /\ UNCHANGED <<parent, children, message_ques, j, cvars, hvars>>

\* waitpid: a child that did not exit by itself ends the waiting; the kill
\* that follows is sent to that same dead child.
Reap ==
    /\ ppc = "reap" /\ cpc[i] \in {"exited", "killed"}
    /\ IF cpc[i] = "exited" /\ i < NumChildren
         THEN i' = i + 1 /\ UNCHANGED ppc
         ELSE Goto("cleanup") /\ UNCHANGED i
    /\ UNCHANGED <<kernel, j, marks, cvars, hvars>>

\* Remove the queues, unlink the semaphores, return from main.
CleanUp ==
    /\ ppc = "cleanup" /\ Goto("off")
    /\ message_ques' = <<>> /\ message_answers' = {}
    /\ parent' = Absent /\ children' = [c \in Children |-> Absent]
    /\ cpc' = [c \in Children |-> "none"]
    /\ UNCHANGED <<j, i, marks, cj, got, right, hvars>>

ParentStep == \/ ParentWait \/ SendQuestion \/ PostQuestion \/ CallChild
              \/ ReadAnswers \/ Reap \/ CleanUp

-----------------------------------------------------------------------------
(* A child                                                                 *)

\* sem_wait(children[i]): the turn for a question, or for the answers.
ChildWait(c) ==
    /\ cpc[c] = "wait" /\ children[c] > 0
    /\ children' = [children EXCEPT ![c] = @ - 1]
    /\ cpc' = [cpc EXCEPT ![c] = IF cj[c] < NumQ THEN "receive" ELSE "answer"]
    /\ UNCHANGED <<parent, message_ques, message_answers, pvars, cj, got, right,
                   hvars>>

\* Mutant: the child signals the parent before it has taken the question.
ReceiveLate(c) ==
    /\ cpc[c] = "receive"
    /\ parent' = parent + 1
    /\ cj' = [cj EXCEPT ![c] = @ + 1]
    /\ cpc' = [cpc EXCEPT ![c] = "wait"]
    /\ UNCHANGED <<children, message_ques, message_answers, pvars, got, right,
                   hvars>>

\* msgrcv takes whatever question comes first; the answer is a guess.
Receive(c) ==
    /\ cpc[c] = "receive" /\ message_ques # <<>>
    /\ got' = [got EXCEPT ![c] = Append(@, Head(message_ques))]
    /\ message_ques' = Tail(message_ques)
    /\ cj' = [cj EXCEPT ![c] = @ + 1]
    /\ \E guess \in {{}, {cj[c] + 1}} : right' = [right EXCEPT ![c] = @ \cup guess]
    /\ cpc' = [cpc EXCEPT ![c] = "post"]
    /\ UNCHANGED <<parent, children, message_answers, pvars, hvars>>

\* The answer sheet, its type the child's number.
Answer(c) ==
    /\ cpc[c] = "answer"
    /\ message_answers' = message_answers
         \cup {[child |-> c, run |-> run, right |-> right[c]]}
    /\ cpc' = [cpc EXCEPT ![c] = "last"]
    /\ UNCHANGED <<parent, children, message_ques, pvars, cj, got, right, hvars>>

\* Mutant: the last sem_post (line 107) is missing.
ChildPostQuestions(c) ==
    /\ \/ cpc[c] = "post" /\ cpc' = [cpc EXCEPT ![c] = "wait"] /\ parent' = parent + 1
       \/ cpc[c] = "last" /\ cpc' = [cpc EXCEPT ![c] = "exiting"] /\ UNCHANGED parent
    /\ UNCHANGED <<children, message_ques, message_answers, pvars, cj, got, right,
                   hvars>>

\* sem_post(parent), after a question and after the answers.
ChildPost(c) ==
    /\ parent' = parent + 1
    /\ \/ cpc[c] = "post" /\ cpc' = [cpc EXCEPT ![c] = "wait"]
       \/ cpc[c] = "last" /\ cpc' = [cpc EXCEPT ![c] = "exiting"]
    /\ UNCHANGED <<children, message_ques, message_answers, pvars, cj, got, right,
                   hvars>>

Exit(c) ==
    /\ cpc[c] = "exiting"
    /\ cpc' = [cpc EXCEPT ![c] = "exited"]
    /\ UNCHANGED <<kernel, pvars, cj, got, right, hvars>>

ChildStep(c) == \/ ChildWait(c) \/ Receive(c) \/ Answer(c) \/ ChildPost(c)
                \/ Exit(c)

-----------------------------------------------------------------------------
Next == \/ Start \/ Interrupt \/ ParentStep
        \/ \E c \in Children : ChildStep(c) \/ Kill(c)

\* The processes run; nobody has to start, interrupt or kill anything.
Fairness == WF_vars(ParentStep) /\ \A c \in Children : WF_vars(ChildStep(c))

Spec == Init /\ [][Next]_vars /\ Fairness

-----------------------------------------------------------------------------
(* Properties                                                              *)

Sheets == [child : Children, run : 1..MaxRuns, right : SUBSET Questions]

\* Every variable has a value of its type.
TypeOK ==
    /\ parent \in {Absent, 0, 1} /\ children \in [Children -> {Absent, 0, 1}]
    /\ \A k \in DOMAIN message_ques :
         message_ques[k] \in [run : 1..MaxRuns, q : Questions]
    /\ message_answers \subseteq Sheets
    /\ ppc \in {"off", "wait", "send", "post", "last", "call", "await", "read",
                "reap", "cleanup"}
    /\ j \in Questions /\ i \in Children
    /\ cpc \in [Children -> {"none", "wait", "receive", "post", "answer", "last",
                             "exiting", "exited", "killed"}]
    /\ cj \in [Children -> 0..NumQ]
    /\ \A c \in Children : right[c] \subseteq 1..cj[c] /\ Len(got[c]) = cj[c]
    /\ marks \in [Children -> Nat]
    /\ run \in 0..MaxRuns /\ kills \in 0..MaxKills /\ clean \in BOOLEAN

\* The processes that have the turn: past a sem_wait, before the sem_post that
\* passes it on (lines 87-97, 100-107, 129-136, 140-149).
HasTurn ==
    {c \in Children : cpc[c] \in {"receive", "post", "answer", "last"}}
      \cup (IF ppc \in {"send", "post", "call", "read", "reap", "cleanup"}
              THEN {0} ELSE {})
Held(sem) == IF sem = Absent THEN 0 ELSE sem
Units == Held(parent)
           + SumFunctionOnSet([c \in Children |-> Held(children[c])], Children)
           + Cardinality(HasTurn)

\* There is at most one turn among all the processes, even in a run that
\* finds the semaphores of an interrupted one; and exactly one in a run that
\* found nothing and lost nobody.
OneTurn == /\ Units <= 1
           /\ ppc # "off" /\ clean => Units = 1

\* In a clean run every child receives the questions of this run, in order,
\* and nobody else's (lines 90, 133), although it takes whatever comes first:
\* there is never more than one question under way.
InStep ==
    clean => /\ Len(message_ques) <= 1
             /\ \A c \in Children :
                  got[c] = [k \in 1..cj[c] |-> [run |-> run, q |-> k]]

\* A parent that gets as far as waitpid (line 167) has had from every child a
\* sheet with every question on it, and has given it the marks of that sheet
\* (145-162), even if children were killed: one that is killed earlier stops
\* the parent for good, before the code that is meant for it (171-181).
GradedOwn ==
    run = 1 /\ ppc \in {"reap", "cleanup"} =>
      \A c \in Children : cj[c] = NumQ /\ marks[c] = Marks(right[c])

\* A run left alone that found nothing left over comes to its end.
CleanRunEnds == (ppc # "off" /\ clean) ~> (ppc = "off" \/ ~clean)
=============================================================================
