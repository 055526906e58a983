----------------------------- MODULE ExamProofs -----------------------------
(***************************************************************************)
(* Proofs about the exam, for any number of children and questions, and    *)
(* any number of runs that are interrupted and children that are killed:   *)
(* there is one turn, the questions of a clean run arrive in order, and    *)
(* the parent gives each child the marks of its own answers.               *)
(***************************************************************************)
EXTENDS Exam, Sums, FiniteSetTheorems, SequenceTheorems, TLAPS

Question == [run : 1..MaxRuns, q : Questions]

\* The types, the bound on the semaphores left out.
Typed ==
    /\ parent \in Nat \cup {Absent} /\ children \in [Children -> Nat \cup {Absent}]
    /\ message_ques \in Seq(Question) /\ message_answers \subseteq Sheets
    /\ ppc \in {"off", "wait", "send", "post", "last", "call", "await", "read",
                "reap", "cleanup"}
    /\ j \in Questions /\ i \in Children
    /\ cpc \in [Children -> {"none", "wait", "receive", "post", "answer", "last",
                             "exiting", "exited", "killed"}]
    /\ cj \in [Children -> 0..NumQ]
    /\ got \in [Children -> Seq(Question)] /\ right \in [Children -> SUBSET Questions]
    /\ marks \in [Children -> Nat]
    /\ run \in 0..MaxRuns /\ kills \in 0..MaxKills /\ clean \in BOOLEAN

\* A child's answers and questions are as many as it has counted, and it
\* receives only as long as there are questions to come.
ChildShape ==
    \A c \in Children :
      /\ right[c] \subseteq 1..cj[c] /\ Len(got[c]) = cj[c]
      /\ cpc[c] = "receive" => cj[c] < NumQ
      /\ cpc[c] = "answer" => cj[c] = NumQ

\* The semaphores exist together, and always while a run is under way; before
\* the first run there is nothing.
KernelShape ==
    /\ parent = Absent => ppc = "off"
    /\ \A c \in Children : children[c] = Absent <=> parent = Absent
    /\ ppc = "off" => \A c \in Children : cpc[c] = "none"
    /\ ppc # "off" => run > 0
    /\ run = 0 => parent = Absent /\ message_ques = <<>> /\ message_answers = {}

\* This run found nothing of an earlier one.
Sound == ppc # "off" /\ (clean \/ run = 1)

\* The questions that were posted to child c.
Posted(c) == IF ppc \in {"wait", "send", "post"}
               THEN j - 1 + (IF c < i THEN 1 ELSE 0) ELSE NumQ

\* Each child has received what was posted to it, or all but the last: then
\* the parent waits, and nobody else is about to give it the turn.
OneBehind ==
    Sound =>
      \A c \in Children : cj[c] # Posted(c) =>
        /\ cj[c] + 1 = Posted(c) /\ ppc \in {"wait", "last"} /\ parent = 0
        /\ \A d \in Children : /\ d # c => cj[d] = Posted(d)
                               /\ cpc[d] \notin {"post", "answer", "last"}

\* Whoever has the turn to receive a question is behind by it.
TurnIsBehind ==
    Sound =>
      \A c \in Children :
        /\ cpc[c] = "receive" => cj[c] # Posted(c)
        /\ children[c] > 0 /\ ppc # "await" => cj[c] # Posted(c)

\* The question under way is the one somebody is behind by.
QueueIs ==
    Sound =>
      /\ ppc = "post" => message_ques = <<[run |-> run, q |-> j]>>
      /\ \A c \in Children : cj[c] # Posted(c) =>
           message_ques = <<[run |-> run, q |-> Posted(c)]>>
      /\ ppc # "post" /\ (\A c \in Children : cj[c] = Posted(c)) => message_ques = <<>>

\* In the first run the answer sheets are those of its own children, and who
\* has been graded, from the first child on, has the marks of its sheet.
SheetsOwn ==
    run = 1 /\ ppc # "off" =>
      /\ ppc = "last" => i = 1
      /\ \A m \in message_answers : m.right = right[m.child] /\ cj[m.child] = NumQ
      /\ \A c \in Children :
           (\/ ppc \in {"reap", "cleanup"}
            \/ ppc \in {"call", "await", "read"} /\ c < i)
           => marks[c] = Marks(right[c])

Exchange == OneBehind /\ TurnIsBehind /\ QueueIs /\ InStep /\ SheetsOwn
IInv == Typed /\ ChildShape /\ KernelShape /\ OneTurn /\ Exchange

-----------------------------------------------------------------------------
(* Types and shape                                                         *)

\* Marks are a number.
LEMMA MarksNat ==
    ASSUME NEW answers \in SUBSET Questions
    PROVE  Marks(answers) \in Nat
<1>1. IsFiniteSet(Questions)
  BY ConstAssumption, FS_Interval DEF Questions
<1>2. IsFiniteSet(answers \cap 1..NumOptions)
  BY <1>1, FS_Subset
<1> QED BY <1>2, FS_CardinalityType DEF Marks

\* The constants as numbers.
LEMMA Numbers ==
    /\ NumChildren \in Nat /\ NumChildren > 0 /\ NumQ \in Nat /\ NumQ > 0
    /\ MaxRuns \in Nat /\ MaxKills \in Nat /\ IsFiniteSet(Children)
    /\ 0 \notin Children /\ 1 \in Children /\ 1 \in Questions
<1>1. /\ NumChildren \in Nat /\ NumChildren > 0 /\ NumQ \in Nat /\ NumQ > 0
      /\ MaxRuns \in Nat /\ MaxKills \in Nat
  BY ConstAssumption
<1>2. IsFiniteSet(Children)
  BY <1>1, FS_Interval DEF Children
<1> QED BY <1>1, <1>2 DEF Children, Questions

\* A new run finds the kernel objects as they are, or makes them.
LEMMA StartTypes ==
    ASSUME Typed, Start
    PROVE  Typed' /\ ChildShape' /\ KernelShape'
<1> USE Numbers DEF Start, Typed
<1>1. /\ parent' \in Nat \cup {Absent} /\ parent' # Absent
      /\ children' \in [Children -> Nat \cup {Absent}]
      /\ \A c \in Children : children'[c] # Absent
  BY DEF Open, Absent
<1>2. /\ cpc' \in [Children -> {"none", "wait", "receive", "post", "answer", "last",
                                "exiting", "exited", "killed"}]
      /\ cj' \in [Children -> 0..NumQ]
      /\ right' \in [Children -> SUBSET Questions]
      /\ marks' \in [Children -> Nat]
  OBVIOUS
<1>3. got' \in [Children -> Seq(Question)] /\ \A c \in Children : got'[c] = <<>>
  OBVIOUS
<1>4. run' \in 0..MaxRuns /\ run' > 0
  OBVIOUS
<1>5. clean' \in BOOLEAN
  OBVIOUS
<1>6. Typed'
  BY <1>1, <1>2, <1>3, <1>4, <1>5
<1>7. ChildShape'
  BY <1>3 DEF ChildShape
<1>8. KernelShape'
  BY <1>1, <1>4 DEF KernelShape
<1> QED BY <1>6, <1>7, <1>8

\* Ctrl+C and the clean-up keep the types.
LEMMA StopTypes ==
    ASSUME Typed, ChildShape, KernelShape, Interrupt \/ CleanUp
    PROVE  Typed' /\ ChildShape' /\ KernelShape'
<1> USE Numbers
<1>1. CASE Interrupt
  BY <1>1 DEF Interrupt, kernel, hvars, Typed, ChildShape, KernelShape
<1>2. CASE CleanUp
  <2>1. message_ques' \in Seq(Question) /\ message_answers' \subseteq Sheets
    BY <1>2 DEF CleanUp
  <2>2. /\ children' \in [Children -> Nat \cup {Absent}]
        /\ \A c \in Children : children'[c] = Absent
        /\ parent' = Absent /\ ppc' = "off"
        /\ \A c \in Children : cpc'[c] = "none"
        /\ cpc' \in [Children -> {"none", "wait", "receive", "post", "answer", "last",
                                  "exiting", "exited", "killed"}]
        /\ UNCHANGED <<j, i, marks, cj, got, right, hvars>>
        /\ message_ques' = <<>> /\ message_answers' = {}
    BY <1>2 DEF CleanUp, Goto
  <2>3. Typed'
    BY <2>1, <2>2 DEF hvars, Typed
  <2>4. ChildShape' /\ KernelShape'
    BY <2>2 DEF hvars, ChildShape, KernelShape
  <2> QED BY <2>3, <2>4
<1> QED BY <1>1, <1>2

\* The kill of a child keeps the types.
LEMMA KillTypes ==
    ASSUME Typed, ChildShape, KernelShape, NEW c \in Children, Kill(c)
    PROVE  Typed' /\ ChildShape' /\ KernelShape'
<1> USE Numbers
<1>1. Typed'
  <2>1. cpc' \in [Children -> {"none", "wait", "receive", "post", "answer", "last",
                               "exiting", "exited", "killed"}]
    BY DEF Kill, Typed
  <2>2. kills' \in 0..MaxKills /\ clean' \in BOOLEAN
    <3>1. kills < MaxKills /\ kills' = kills + 1 /\ kills \in 0..MaxKills
      BY DEF Kill, Typed
    <3>2. clean' = FALSE
      BY DEF Kill
    <3>3. kills' \in 0..MaxKills
      BY <3>1
    <3> QED BY <3>2, <3>3
  <2>3. UNCHANGED <<parent, children, message_ques, message_answers, ppc, j, i, marks,
                    cj, got, right, run>>
    BY DEF Kill, kernel, pvars
  <2> QED BY <2>1, <2>2, <2>3 DEF Typed
<1>2. ChildShape' /\ KernelShape'
  BY DEF Kill, kernel, pvars, Typed, ChildShape, KernelShape
<1> QED BY <1>1, <1>2

\* The steps of the parent keep the types.
LEMMA ParentTypes ==
    ASSUME Typed, ChildShape, KernelShape,
           \/ ParentWait \/ SendQuestion \/ PostQuestion \/ CallChild
           \/ ReadAnswers \/ Reap
    PROVE  Typed' /\ ChildShape' /\ KernelShape'
<1> USE Numbers DEF Goto, cvars, hvars
<1>1. CASE ParentWait
  <2>1. parent > 0 /\ parent' = parent - 1 /\ parent' \in Nat /\ parent # Absent
        /\ parent' # Absent
    BY <1>1 DEF ParentWait, WaitParent, Typed, Absent
  <2>2. Typed'
    BY <1>1, <2>1 DEF ParentWait, Typed
  <2>3. ChildShape' /\ KernelShape'
    BY <1>1, <2>1 DEF ParentWait, ChildShape, KernelShape
  <2> QED BY <2>2, <2>3
<1>2. CASE SendQuestion
  <2>1. run \in 1..MaxRuns
    BY <1>2 DEF SendQuestion, Typed, KernelShape
  <2>2. [run |-> run, q |-> j] \in Question
    BY <2>1 DEF Typed, Question
  <2>3. message_ques' \in Seq(Question)
    BY <1>2, <2>2 DEF SendQuestion, Typed
  <2>4. Typed'
    BY <1>2, <2>3 DEF SendQuestion, Typed
  <2>5. ChildShape' /\ KernelShape'
    BY <1>2, <2>1 DEF SendQuestion, ChildShape, KernelShape
  <2> QED BY <2>4, <2>5
<1>3. CASE PostQuestion \/ CallChild
  <2>1. /\ children' \in [Children -> Nat \cup {Absent}]
        /\ \A c \in Children : children'[c] = Absent <=> parent = Absent
        /\ parent # Absent
    <3>1. parent # Absent /\ children' = [children EXCEPT ![i] = @ + 1]
      BY <1>3 DEF PostQuestion, CallChild, PostChild, KernelShape
    <3>2. children[i] \in Nat /\ children[i] + 1 # Absent
      BY <3>1 DEF Typed, KernelShape, Absent
    <3> QED BY <3>1, <3>2 DEF Typed, KernelShape, Absent
  <2>2. i' \in Children /\ j' \in Questions
    <3>1. i \in 1..NumChildren /\ j \in 1..NumQ
      BY DEF Typed, Children, Questions
    <3>2. i' \in {i, 1} \/ (i < NumChildren /\ i' = i + 1)
      BY <1>3 DEF PostQuestion, CallChild
    <3>3. j' = j \/ (j < NumQ /\ j' = j + 1)
      BY <1>3 DEF PostQuestion, CallChild
    <3> QED BY <3>1, <3>2, <3>3 DEF Children, Questions
  <2>3. Typed'
    BY <1>3, <2>1, <2>2 DEF PostQuestion, CallChild, Typed
  <2>4. ChildShape' /\ KernelShape'
    BY <1>3, <2>1 DEF PostQuestion, CallChild, ChildShape, KernelShape
  <2> QED BY <2>3, <2>4
<1>4. CASE ReadAnswers
  <2>1. PICK m \in message_answers :
          /\ message_answers' = message_answers \ {m}
          /\ marks' = [marks EXCEPT ![i] = Marks(m.right)]
    BY <1>4 DEF ReadAnswers
  <2>2. Marks(m.right) \in Nat
    BY MarksNat DEF Typed, Sheets
  <2>3. i' \in Children
    <3>1. i \in 1..NumChildren
      BY DEF Typed, Children
    <3>2. i' = 1 \/ (i < NumChildren /\ i' = i + 1)
      BY <1>4 DEF ReadAnswers
    <3> QED BY <3>1, <3>2 DEF Children
  <2>4. Typed'
    BY <1>4, <2>1, <2>2, <2>3 DEF ReadAnswers, Typed
  <2>5. ChildShape' /\ KernelShape'
    BY <1>4, <2>1 DEF ReadAnswers, ChildShape, KernelShape
  <2> QED BY <2>4, <2>5
<1>5. CASE Reap
  <2>1. i' \in Children
    <3>1. i \in 1..NumChildren
      BY DEF Typed, Children
    <3>2. i' = i \/ (i < NumChildren /\ i' = i + 1)
      BY <1>5 DEF Reap
    <3> QED BY <3>1, <3>2 DEF Children
  <2>2. Typed'
    BY <1>5, <2>1 DEF Reap, kernel, Typed
  <2>3. ChildShape' /\ KernelShape'
    BY <1>5 DEF Reap, kernel, ChildShape, KernelShape
  <2> QED BY <2>2, <2>3
<1> QED BY <1>1, <1>2, <1>3, <1>4, <1>5

\* The steps of a child keep the types.
LEMMA ChildTypes ==
    ASSUME Typed, ChildShape, KernelShape, NEW c \in Children, ChildStep(c)
    PROVE  Typed' /\ ChildShape' /\ KernelShape'
<1> USE Numbers DEF pvars, hvars
<1>1. CASE ChildWait(c)
  <2>1. /\ children' \in [Children -> Nat \cup {Absent}]
        /\ \A d \in Children : children'[d] = Absent <=> parent = Absent
    BY SMTT(60), <1>1 DEF ChildWait, Typed, KernelShape, Absent
  <2>2. Typed'
    BY <1>1, <2>1 DEF ChildWait, Typed
  <2>3. ChildShape' /\ KernelShape'
    <3>1. cj[c] \in 0..NumQ /\ (cj[c] < NumQ \/ cj[c] = NumQ)
      BY DEF Typed
    <3>2. /\ cpc'[c] = IF cj[c] < NumQ THEN "receive" ELSE "answer"
          /\ \A d \in Children : d # c => cpc'[d] = cpc[d]
          /\ cpc[c] = "wait"
      BY <1>1 DEF ChildWait, Typed
    <3>3. ChildShape'
      BY <1>1, <3>1, <3>2 DEF ChildWait, ChildShape
    <3>4. KernelShape'
      BY <1>1, <2>1, <3>2 DEF ChildWait, KernelShape
    <3> QED BY <3>3, <3>4
  <2> QED BY <2>2, <2>3
<1>2. CASE Receive(c)
  <2>1. cj[c] < NumQ /\ message_ques # <<>>
    BY <1>2 DEF Receive, ChildShape
  <2>2. Head(message_ques) \in Question /\ Tail(message_ques) \in Seq(Question)
    BY <2>1 DEF Typed
  <2>3. got' \in [Children -> Seq(Question)]
        /\ Len(got'[c]) = cj[c] + 1
        /\ \A d \in Children : d # c => got'[d] = got[d]
    BY <1>2, <2>2 DEF Receive, Typed, ChildShape
  <2>4. PICK guess \in {{}, {cj[c] + 1}} :
          right' = [right EXCEPT ![c] = @ \cup guess]
    BY <1>2 DEF Receive
  <2>5. guess \subseteq Questions
    BY <2>1 DEF Typed, Questions
  <2>6. right' \in [Children -> SUBSET Questions]
    BY <2>4, <2>5 DEF Typed
  <2>7. Typed'
    <3>1. cj' \in [Children -> 0..NumQ]
      BY SMTT(60), <1>2, <2>1 DEF Receive, Typed
    <3>2. cpc' \in [Children -> {"none", "wait", "receive", "post", "answer", "last",
                                 "exiting", "exited", "killed"}]
      BY <1>2 DEF Receive, Typed
    <3>3. message_ques' = Tail(message_ques)
          /\ UNCHANGED <<parent, children, message_answers, ppc, j, i, marks, run,
                         kills, clean>>
      BY <1>2 DEF Receive
    <3> QED BY <2>2, <2>3, <2>6, <3>1, <3>2, <3>3 DEF Typed
  <2>8. ChildShape'
    BY SMTT(60), <1>2, <2>1, <2>3, <2>4 DEF Receive, Typed, ChildShape
  <2>9. KernelShape'
    BY <1>2 DEF Receive, Typed, KernelShape
  <2> QED BY <2>7, <2>8, <2>9
<1>3. CASE Answer(c)
  <2>1. ppc # "off" /\ run \in 1..MaxRuns
    BY <1>3 DEF Answer, KernelShape, Typed
  <2>2. [child |-> c, run |-> run, right |-> right[c]] \in Sheets
    BY <2>1 DEF Sheets, Typed
  <2>3. Typed'
    BY <1>3, <2>2 DEF Answer, Typed
  <2>4. ChildShape' /\ KernelShape'
    BY <1>3, <2>1 DEF Answer, Typed, ChildShape, KernelShape
  <2> QED BY <2>3, <2>4
<1>4. CASE ChildPost(c)
  <2>1. ppc # "off" /\ parent # Absent
    BY <1>4 DEF ChildPost, KernelShape
  <2>2. parent' \in Nat /\ parent' # Absent
    BY <1>4, <2>1 DEF ChildPost, Typed, Absent
  <2>3. Typed'
    BY <1>4, <2>2 DEF ChildPost, Typed
  <2>4. ChildShape' /\ KernelShape'
    BY <1>4, <2>1, <2>2 DEF ChildPost, Typed, ChildShape, KernelShape
  <2> QED BY <2>3, <2>4
<1>5. CASE Exit(c)
  BY <1>5 DEF Exit, kernel, Typed, ChildShape, KernelShape
<1> QED BY <1>1, <1>2, <1>3, <1>4, <1>5 DEF ChildStep

-----------------------------------------------------------------------------
(* One turn                                                                *)

ChildUnits == SumFunctionOnSet([c \in Children |-> Held(children[c])], Children)

\* The parts of the number of turns.
LEMMA UnitParts ==
    ASSUME Typed
    PROVE  /\ Held(parent) \in Nat /\ ChildUnits \in Nat
           /\ Units = Held(parent) + ChildUnits + Cardinality(HasTurn)
           /\ \A c \in Children : Held(children[c]) \in Nat
                               /\ Held(children[c]) <= ChildUnits
           /\ IsFiniteSet(HasTurn) /\ Cardinality(HasTurn) \in Nat
<1> DEFINE f == [c \in Children |-> Held(children[c])]
<1>1. Held(parent) \in Nat /\ \A c \in Children : Held(children[c]) \in Nat
  BY DEF Typed, Held
<1>2. ChildUnits \in Nat /\ \A c \in Children : f[c] <= ChildUnits
  <2>1. \A c \in Children : f[c] \in Nat
    BY <1>1
  <2> HIDE DEF f
  <2>2. ChildUnits = SumFunctionOnSet(f, Children)
    BY DEF ChildUnits, f
  <2> QED BY <2>1, <2>2, Numbers, SumAtLeast
<1>3. IsFiniteSet(HasTurn)
  <2>1. IsFiniteSet(Children \cup {0})
    BY Numbers, FS_AddElement
  <2>2. HasTurn \subseteq Children \cup {0}
    BY DEF HasTurn
  <2> QED BY <2>1, <2>2, FS_Subset
<1> QED BY <1>1, <1>2, <1>3, FS_CardinalityType DEF Units, ChildUnits

\* Where the turn is, it is nowhere else.
LEMMA TurnIsOne ==
    ASSUME Typed, Units <= 1
    PROVE  /\ parent > 0 => HasTurn = {} /\ \A c \in Children : ~ children[c] > 0
           /\ \A x \in HasTurn : /\ HasTurn = {x} /\ ~ parent > 0
                               /\ \A c \in Children : ~ children[c] > 0
           /\ \A c \in Children : children[c] > 0 => HasTurn = {} /\ ~ parent > 0
           /\ parent \in {Absent, 0, 1}
           /\ children \in [Children -> {Absent, 0, 1}]
<1> USE UnitParts
<1>1. /\ parent \in Nat \cup {Absent}
      /\ \A c \in Children : children[c] \in Nat \cup {Absent}
  BY DEF Typed
<1>2. /\ parent > 0 => Held(parent) = parent
      /\ \A c \in Children : children[c] > 0 => Held(children[c]) = children[c]
  BY <1>1 DEF Held, Absent
<1>3. Cardinality(HasTurn) = 0 => HasTurn = {}
  BY FS_EmptySet
<1>4. \A x \in HasTurn : /\ Cardinality(HasTurn) = Cardinality(HasTurn \ {x}) + 1
                         /\ IsFiniteSet(HasTurn \ {x})
                         /\ Cardinality(HasTurn \ {x}) \in Nat
  <2>1. ASSUME NEW x \in HasTurn
        PROVE  /\ Cardinality(HasTurn) = Cardinality(HasTurn \ {x}) + 1
               /\ IsFiniteSet(HasTurn \ {x})
               /\ Cardinality(HasTurn \ {x}) \in Nat
    <3>1. /\ IsFiniteSet(HasTurn \ {x})
          /\ Cardinality(HasTurn \ {x}) = Cardinality(HasTurn) - 1
      BY FS_RemoveElement
    <3> QED BY <3>1, FS_CardinalityType
  <2> QED BY <2>1
<1>5. parent > 0 => HasTurn = {} /\ \A c \in Children : ~ children[c] > 0
  BY <1>1, <1>2, <1>3
<1>6. ASSUME NEW x \in HasTurn
      PROVE  /\ HasTurn = {x} /\ ~ parent > 0
             /\ \A c \in Children : ~ children[c] > 0
  <2>1. Cardinality(HasTurn) = 1 /\ Cardinality(HasTurn \ {x}) = 0
    BY <1>4
  <2>2. HasTurn \ {x} = {}
    BY <2>1, <1>4, FS_EmptySet
  <2> QED BY <1>1, <1>2, <2>1, <2>2
<1>7. \A c \in Children : children[c] > 0 => HasTurn = {} /\ ~ parent > 0
  BY <1>1, <1>2, <1>3
<1>8. parent \in {Absent, 0, 1}
  BY <1>1 DEF Held
<1>9. \A c \in Children : children[c] \in {Absent, 0, 1}
  <2>1. ASSUME NEW c \in Children PROVE children[c] \in {Absent, 0, 1}
    <3>1. Held(children[c]) <= 1 /\ Held(children[c]) \in Nat
      OBVIOUS
    <3> QED BY <3>1, <1>1 DEF Held
  <2> QED BY <2>1
<1>10. children \in [Children -> {Absent, 0, 1}]
  BY <1>9 DEF Typed
<1> QED BY <1>5, <1>6, <1>7, <1>8, <1>10

\* The units the children have, after one semaphore has changed.
LEMMA ChildUnitsChange ==
    ASSUME Typed, NEW c \in Children, NEW v \in Nat, children[c] \in Nat,
           children' = [children EXCEPT ![c] = v]
    PROVE  ChildUnits' = ChildUnits - children[c] + v
<1> DEFINE f == [d \in Children |-> Held(children[d])]
           g == [d \in Children |-> Held(children'[d])]
<1>1. \A d \in Children : f[d] \in Int /\ g[d] \in Int
  BY DEF Typed, Held, Absent
<1>2. \A d \in Children \ {c} : f[d] = g[d]
  BY DEF Typed
<1>3. f[c] = children[c] /\ g[c] = v
  BY DEF Typed, Held, Absent
<1>4. ChildUnits = SumFunctionOnSet(f, Children)
      /\ ChildUnits' = SumFunctionOnSet(g, Children)
  BY DEF ChildUnits
<1> HIDE DEF f, g
<1>5. SumFunctionOnSet(g, Children) = SumFunctionOnSet(f, Children) - f[c] + g[c]
  BY <1>1, <1>2, Numbers, SumUpdate
<1> QED BY <1>3, <1>4, <1>5

\* The units stay, and with them the one turn.
LEMMA UnitsSame ==
    ASSUME Typed, Typed', OneTurn, clean' = clean, ppc # "off",
           parent' = parent, children' = children, HasTurn' = HasTurn
    PROVE  OneTurn'
<1>1. Units' = Units
  BY DEF Units, Held
<1> QED BY <1>1 DEF OneTurn

\* A unit becomes somebody's turn, or a turn becomes a unit: the children's
\* semaphores.
LEMMA ChildTurn ==
    ASSUME Typed, Typed', OneTurn, clean' = clean, ppc # "off", parent' = parent,
           NEW c \in Children, children[c] \in Nat, NEW x, NEW v \in Nat,
           children' = [children EXCEPT ![c] = v],
           \/ x \notin HasTurn /\ HasTurn' = HasTurn \cup {x} /\ v = children[c] - 1
           \/ x \in HasTurn /\ HasTurn' = HasTurn \ {x} /\ v = children[c] + 1
    PROVE  OneTurn'
<1>1. ChildUnits' = ChildUnits - children[c] + v
  BY ChildUnitsChange
<1>2. /\ Held(parent) \in Nat /\ ChildUnits \in Nat /\ Cardinality(HasTurn) \in Nat
      /\ IsFiniteSet(HasTurn)
      /\ Units = Held(parent) + ChildUnits + Cardinality(HasTurn)
  BY UnitParts
<1>3. /\ Units' = Held(parent)' + ChildUnits' + Cardinality(HasTurn)'
      /\ Held(parent)' = Held(parent)
  BY DEF Units, ChildUnits, Held
<1>4. /\ x \notin HasTurn /\ HasTurn' = HasTurn \cup {x} =>
           Cardinality(HasTurn)' = Cardinality(HasTurn) + 1
      /\ x \in HasTurn /\ HasTurn' = HasTurn \ {x} =>
           Cardinality(HasTurn)' = Cardinality(HasTurn) - 1
  BY <1>2, FS_AddElement, FS_RemoveElement
<1>5. Units' = Units
  BY <1>1, <1>2, <1>3, <1>4
<1> QED BY <1>5 DEF OneTurn

\* The same with the parent's semaphore.
LEMMA ParentTurn ==
    ASSUME Typed, Typed', OneTurn, clean' = clean, ppc # "off", children' = children,
           parent \in Nat, parent' \in Nat, NEW x,
           \/ x \notin HasTurn /\ HasTurn' = HasTurn \cup {x} /\ parent' = parent - 1
           \/ x \in HasTurn /\ HasTurn' = HasTurn \ {x} /\ parent' = parent + 1
    PROVE  OneTurn'
<1>1. ChildUnits' = ChildUnits
  BY DEF ChildUnits, Held
<1>2. /\ Held(parent) = parent /\ Held(parent)' = parent'
      /\ ChildUnits \in Nat /\ Cardinality(HasTurn) \in Nat /\ IsFiniteSet(HasTurn)
      /\ Units = Held(parent) + ChildUnits + Cardinality(HasTurn)
  BY UnitParts DEF Held, Absent
<1>3. Units' = Held(parent)' + ChildUnits' + Cardinality(HasTurn)'
  BY DEF Units, ChildUnits
<1>4. /\ x \notin HasTurn /\ HasTurn' = HasTurn \cup {x} =>
           Cardinality(HasTurn)' = Cardinality(HasTurn) + 1
      /\ x \in HasTurn /\ HasTurn' = HasTurn \ {x} =>
           Cardinality(HasTurn)' = Cardinality(HasTurn) - 1
  BY <1>2, FS_AddElement, FS_RemoveElement
<1>5. Units' = Units
  <2>1. Held(parent)' + Cardinality(HasTurn)' = parent + Cardinality(HasTurn)
    <3>1. CASE x \notin HasTurn /\ HasTurn' = HasTurn \cup {x} /\ parent' = parent - 1
      BY <1>2, <1>4, <3>1
    <3>2. CASE x \in HasTurn /\ HasTurn' = HasTurn \ {x} /\ parent' = parent + 1
      BY <1>2, <1>4, <3>2
    <3> QED BY <3>1, <3>2
  <2>2. Held(parent)' \in Nat /\ Cardinality(HasTurn)' \in Int
    BY <1>2, <1>4
  <2> QED BY <2>1, <2>2, <1>1, <1>2, <1>3
<1> QED BY <1>5 DEF OneTurn

\* A program that ends takes the turns of its processes with it, and a new one
\* has none yet; the semaphores keep their values or are made anew.
LEMMA RestartTurn ==
    ASSUME Typed, Typed', KernelShape, OneTurn, Start \/ Interrupt \/ CleanUp
    PROVE  OneTurn'
<1>1. HasTurn' = {} /\ Cardinality(HasTurn)' = 0
  <2>1. \A c \in Children :
          cpc'[c] \notin {"receive", "post", "answer", "last"}
    BY DEF Start, Interrupt, CleanUp
  <2>2. ppc' \notin {"send", "post", "call", "read", "reap", "cleanup"}
    BY DEF Start, Interrupt, CleanUp, Goto
  <2> QED BY <2>1, <2>2, FS_EmptySet DEF HasTurn
<1>2. /\ Held(parent) \in Nat /\ ChildUnits \in Nat /\ Cardinality(HasTurn) \in Nat
      /\ Units = Held(parent) + ChildUnits + Cardinality(HasTurn) /\ Units <= 1
  BY UnitParts DEF OneTurn
<1>3. Units' = Held(parent)' + ChildUnits' + Cardinality(HasTurn)'
  BY DEF Units, ChildUnits
<1>4. CASE \A c \in Children : children'[c] \in {Absent, 0}
  <2> DEFINE f == [c \in Children |-> Held(children'[c])]
  <2>1. \A c \in Children : f[c] = 0
    BY <1>4 DEF Held, Absent
  <2>2. ChildUnits' = SumFunctionOnSet(f, Children)
    BY DEF ChildUnits
  <2> HIDE DEF f
  <2>3. ChildUnits' = 0
    BY <2>1, <2>2, Numbers, SumZero
  <2>4. CASE Start /\ parent = Absent
    <3>1. Held(parent)' = 1
      BY <2>4 DEF Start, Open, Held, Absent
    <3>2. Units' = 1
      BY <3>1, <2>3, <1>1, <1>3
    <3> QED BY <3>2 DEF OneTurn
  <2>5. CASE Start /\ parent # Absent
    <3>1. Held(parent)' = Held(parent) /\ clean' = FALSE
      BY <2>5 DEF Start, Open, Held
    <3>2. Units' <= 1
      BY <3>1, <2>3, <1>1, <1>2, <1>3
    <3> QED BY <3>1, <3>2 DEF OneTurn
  <2>6. CASE Interrupt \/ CleanUp
    <3>1. Held(parent)' \in {0, Held(parent)} /\ ppc' = "off"
      BY <2>6 DEF Interrupt, CleanUp, Goto, kernel, Held
    <3>2. Units' <= 1
      BY <3>1, <2>3, <1>1, <1>2, <1>3
    <3> QED BY <3>1, <3>2 DEF OneTurn
  <2> QED BY <2>4, <2>5, <2>6
<1>5. CASE ~ \A c \in Children : children'[c] \in {Absent, 0}
  <2>1. CASE Start
    <3>1. PICK c \in Children : children'[c] \notin {Absent, 0}
      BY <1>5
    <3>2. parent # Absent
      BY <3>1, <2>1 DEF Start, Open, KernelShape
    <3>3. children' = children
      BY <3>2, <2>1 DEF Start, Open, KernelShape, Typed
    <3>4. Held(parent)' = Held(parent) /\ clean' = FALSE
      BY <3>2, <2>1 DEF Start, Open, Held
    <3>5. ChildUnits' = ChildUnits
      BY <3>3 DEF ChildUnits, Held
    <3>6. Units' <= 1
      BY <3>4, <3>5, <1>1, <1>2, <1>3
    <3> QED BY <3>4, <3>6 DEF OneTurn
  <2>2. CASE Interrupt
    <3>1. Held(parent)' = Held(parent) /\ ChildUnits' = ChildUnits /\ ppc' = "off"
      BY <2>2 DEF Interrupt, kernel, ChildUnits, Held
    <3>2. Units' <= 1
      BY <3>1, <1>1, <1>2, <1>3
    <3> QED BY <3>1, <3>2 DEF OneTurn
  <2>3. ~ CleanUp
    BY <1>5 DEF CleanUp
  <2> QED BY <2>1, <2>2, <2>3
<1> QED BY <1>4, <1>5

\* A child that is killed loses its turn, and the run is not clean any more.
LEMMA KillTurn ==
    ASSUME Typed, Typed', OneTurn, NEW c \in Children, Kill(c)
    PROVE  OneTurn'
<1>1. /\ Held(parent)' = Held(parent) /\ ChildUnits' = ChildUnits
  BY DEF Kill, kernel, ChildUnits, Held
<1>2. HasTurn' \subseteq HasTurn
  BY DEF Kill, pvars, HasTurn, Typed
<1>3. /\ Held(parent) \in Nat /\ ChildUnits \in Nat /\ Cardinality(HasTurn) \in Nat
      /\ Units = Held(parent) + ChildUnits + Cardinality(HasTurn) /\ Units <= 1
      /\ IsFiniteSet(HasTurn)
  BY UnitParts DEF OneTurn
<1>4. Cardinality(HasTurn)' \in Nat
  BY UnitParts, <1>2, <1>3, FS_Subset, FS_CardinalityType
<1>5. Cardinality(HasTurn)' <= Cardinality(HasTurn)
  BY <1>2, <1>3, FS_Subset
<1>6. Units' = Held(parent)' + ChildUnits' + Cardinality(HasTurn)'
  BY DEF Units, ChildUnits
<1>7. Units' <= 1
  BY <1>1, <1>3, <1>4, <1>5, <1>6
<1>8. clean' = FALSE
  BY DEF Kill
<1> QED BY <1>7, <1>8 DEF OneTurn

\* The parent takes the turn, keeps it, or passes it on.
LEMMA ParentKeepsTurn ==
    ASSUME Typed, Typed', KernelShape, OneTurn, ParentStep
    PROVE  OneTurn'
<1> USE Numbers DEF Goto, cvars, hvars
<1>1. CASE ParentWait
  <2>1. /\ parent \in Nat /\ parent' = parent - 1 /\ parent' \in Nat
        /\ children' = children /\ clean' = clean /\ ppc # "off"
    BY <1>1 DEF ParentWait, WaitParent, Typed, Absent
  <2>2. 0 \notin HasTurn /\ HasTurn' = HasTurn \cup {0}
    BY <1>1 DEF ParentWait, HasTurn
  <2> QED BY <2>1, <2>2, ParentTurn
<1>2. CASE SendQuestion
  <2>1. /\ parent' = parent /\ children' = children /\ clean' = clean
        /\ ppc # "off" /\ HasTurn' = HasTurn
    BY <1>2 DEF SendQuestion, HasTurn
  <2> QED BY <2>1, UnitsSame
<1>3. CASE PostQuestion \/ CallChild
  <2>1. /\ children' = [children EXCEPT ![i] = @ + 1] /\ i \in Children
        /\ parent' = parent /\ clean' = clean /\ ppc # "off"
    BY <1>3 DEF PostQuestion, CallChild, PostChild, Typed
  <2>2. children[i] \in Nat
    BY <2>1 DEF Typed, KernelShape
  <2>3. 0 \in HasTurn /\ HasTurn' = HasTurn \ {0}
    BY <1>3 DEF PostQuestion, CallChild, HasTurn
  <2> DEFINE v == children[i] + 1
  <2>4. children' = [children EXCEPT ![i] = v] /\ v \in Nat
    BY <2>1, <2>2
  <2> QED BY <2>1, <2>2, <2>3, <2>4, ChildTurn
<1>4. CASE ReadAnswers
  <2>1. /\ parent' = parent /\ children' = children /\ clean' = clean
        /\ ppc # "off" /\ HasTurn' = HasTurn
    BY <1>4 DEF ReadAnswers, HasTurn
  <2> QED BY <2>1, UnitsSame
<1>5. CASE Reap
  <2>1. /\ parent' = parent /\ children' = children /\ clean' = clean
        /\ ppc # "off" /\ HasTurn' = HasTurn
    BY <1>5 DEF Reap, kernel, HasTurn
  <2> QED BY <2>1, UnitsSame
<1>6. CASE CleanUp
  BY <1>6, RestartTurn
<1> QED BY <1>1, <1>2, <1>3, <1>4, <1>5, <1>6 DEF ParentStep

\* A child takes the turn it is given, keeps it, or gives it back.
LEMMA ChildKeepsTurn ==
    ASSUME Typed, Typed', KernelShape, OneTurn, NEW c \in Children, ChildStep(c)
    PROVE  OneTurn'
<1> USE Numbers DEF pvars, hvars
<1>1. CASE ChildWait(c)
  <2>1. /\ children[c] \in Nat /\ children[c] - 1 \in Nat
        /\ parent' = parent /\ clean' = clean /\ ppc # "off"
    <3>1. children[c] > 0 /\ cpc[c] = "wait"
      BY <1>1 DEF ChildWait
    <3>2. children[c] \in Nat \cup {Absent}
      BY DEF Typed
    <3>3. children[c] \in Nat
      BY <3>1, <3>2 DEF Absent
    <3> QED BY <1>1, <3>1, <3>3 DEF ChildWait, KernelShape
  <2>2. c \notin HasTurn /\ HasTurn' = HasTurn \cup {c}
    <3>1. /\ cpc[c] = "wait" /\ cpc'[c] \in {"receive", "answer"} /\ ppc' = ppc
          /\ \A d \in Children : d # c => cpc'[d] = cpc[d]
      BY <1>1 DEF ChildWait, Typed
    <3> QED BY <3>1 DEF HasTurn
  <2> DEFINE v == children[c] - 1
  <2>3. children' = [children EXCEPT ![c] = v] /\ v \in Nat
    BY <1>1, <2>1 DEF ChildWait
  <2> QED BY <2>1, <2>2, <2>3, ChildTurn
<1>2. CASE Receive(c) \/ Answer(c)
  <2>1. /\ parent' = parent /\ children' = children /\ clean' = clean /\ ppc' = ppc
        /\ cpc[c] \in {"receive", "answer"} /\ cpc'[c] \in {"post", "last"}
        /\ \A d \in Children : d # c => cpc'[d] = cpc[d]
    BY <1>2 DEF Receive, Answer, Typed
  <2>2. HasTurn' = HasTurn /\ ppc # "off"
    BY <2>1 DEF HasTurn, KernelShape
  <2> QED BY <2>1, <2>2, UnitsSame
<1>3. CASE ChildPost(c)
  <2>1. /\ parent' = parent + 1 /\ children' = children /\ clean' = clean
        /\ ppc' = ppc /\ cpc[c] \in {"post", "last"} /\ cpc'[c] \in {"wait", "exiting"}
        /\ \A d \in Children : d # c => cpc'[d] = cpc[d]
    BY <1>3 DEF ChildPost, Typed
  <2>2. ppc # "off" /\ parent \in Nat /\ parent' \in Nat
    <3>1. ppc # "off" /\ parent # Absent
      BY <2>1 DEF KernelShape
    <3>2. parent \in Nat
      BY <3>1 DEF Typed
    <3> QED BY <2>1, <3>1, <3>2
  <2>3. c \in HasTurn /\ HasTurn' = HasTurn \ {c}
    BY <2>1 DEF HasTurn
  <2> QED BY <2>1, <2>2, <2>3, ParentTurn
<1>4. CASE Exit(c)
  <2>1. /\ parent' = parent /\ children' = children /\ clean' = clean /\ ppc' = ppc
        /\ cpc[c] = "exiting" /\ cpc'[c] = "exited"
        /\ \A d \in Children : d # c => cpc'[d] = cpc[d]
    BY <1>4 DEF Exit, kernel, Typed
  <2>2. HasTurn' = HasTurn /\ ppc # "off"
    BY <2>1 DEF HasTurn, KernelShape
  <2> QED BY <2>1, <2>2, UnitsSame
<1> QED BY <1>1, <1>2, <1>3, <1>4 DEF ChildStep

-----------------------------------------------------------------------------
(* Question by question                                                    *)

\* Nobody is behind, or about to receive, and the queue holds the question
\* that is being posted, or none.
Settled ==
    /\ \A c \in Children : /\ cj[c] = Posted(c) /\ cpc[c] # "receive"
                           /\ children[c] > 0 => ppc = "await"
    /\ message_ques = IF ppc = "post" THEN <<[run |-> run, q |-> j]>> ELSE <<>>

\* That is enough for the next state to be as it should.
LEMMA SettledSuffices ==
    ASSUME Sound' => Settled'
    PROVE  OneBehind' /\ TurnIsBehind' /\ QueueIs'
BY DEF Settled, OneBehind, TurnIsBehind, QueueIs

\* When it is settled: the parent is busy, may go on, or is about to.
LEMMA WhenSettled ==
    ASSUME Typed, OneTurn, OneBehind, TurnIsBehind, QueueIs, Sound,
           \/ ppc \notin {"wait", "last"}
           \/ parent > 0
           \/ \E c \in Children : cpc[c] \in {"post", "answer", "last"}
    PROVE  /\ \A c \in Children : cj[c] = Posted(c)
           /\ message_ques = IF ppc = "post" THEN <<[run |-> run, q |-> j]>> ELSE <<>>
<1>1. \A c \in Children : cj[c] = Posted(c)
  <2>1. SUFFICES ASSUME NEW c \in Children, cj[c] # Posted(c) PROVE FALSE
    OBVIOUS
  <2>2. /\ ppc \in {"wait", "last"} /\ parent = 0
        /\ \A d \in Children : cpc[d] \notin {"post", "answer", "last"}
    BY <2>1 DEF OneBehind
  <2> QED BY <2>2
<1> QED BY <1>1 DEF QueueIs

\* What was posted to a child, as a number.
LEMMA PostedNat ==
    ASSUME Typed, NEW c \in Children
    PROVE  Posted(c) \in 0..NumQ
BY Numbers DEF Typed, Posted, Questions, Children

\* What the parent does keeps the children in step.
LEMMA ParentKeepsStep ==
    ASSUME Typed, KernelShape, OneTurn, OneBehind, TurnIsBehind, QueueIs,
           ParentStep
    PROVE  OneBehind' /\ TurnIsBehind' /\ QueueIs'
<1> USE DEF Goto, cvars, hvars
<1>1. Units <= 1
  BY DEF OneTurn
<1>2. /\ run' = run /\ clean' = clean /\ cj' = cj /\ ppc # "off"
      /\ cpc' = cpc \/ CleanUp
  BY DEF ParentStep, ParentWait, SendQuestion, PostQuestion, CallChild, ReadAnswers,
         Reap, CleanUp
<1>3. Sound' => Sound
  BY <1>2 DEF Sound
<1>4. 0 \notin Children
  BY Numbers
<1>5. CASE ParentWait
  <2>1. parent > 0 /\ cpc' = cpc /\ children' = children /\ message_ques' = message_ques
        /\ j' = j /\ i' = i
        /\ \/ ppc = "wait" /\ ppc' = "send"
           \/ ppc = "last" /\ ppc' = "call"
           \/ ppc = "await" /\ ppc' = "read"
    BY <1>5 DEF ParentWait, WaitParent
  <2>2. HasTurn = {} /\ \A c \in Children : ~ children[c] > 0
    BY <2>1, <1>1, TurnIsOne
  <2>3. \A c \in Children : cpc[c] # "receive"
    BY <2>2 DEF HasTurn
  <2>4. \A c \in Children : Posted(c)' = Posted(c)
    BY <2>1 DEF Posted
  <2>5. Sound => (\A c \in Children : cj[c] = Posted(c)) /\ message_ques = <<>>
    BY <2>1, WhenSettled
  <2>6. Sound' => Settled'
    BY <1>2, <1>3, <2>1, <2>2, <2>3, <2>4, <2>5 DEF Settled
  <2> QED BY <2>6, SettledSuffices
<1>6. CASE SendQuestion
  <2>1. /\ ppc = "send" /\ ppc' = "post" /\ cpc' = cpc /\ children' = children
        /\ j' = j /\ i' = i
        /\ message_ques' = Append(message_ques, [run |-> run, q |-> j])
    BY <1>6 DEF SendQuestion
  <2>2. 0 \in HasTurn
    BY <2>1 DEF HasTurn
  <2>3. HasTurn = {0} /\ \A c \in Children : ~ children[c] > 0
    BY <2>2, <1>1, TurnIsOne
  <2>4. \A c \in Children : cpc[c] # "receive"
    BY <2>3, <1>4 DEF HasTurn
  <2>5. \A c \in Children : Posted(c)' = Posted(c)
    BY <2>1 DEF Posted
  <2>6. Sound => (\A c \in Children : cj[c] = Posted(c)) /\ message_ques = <<>>
    BY <2>1, WhenSettled
  <2>7. Sound => message_ques' = <<[run |-> run, q |-> j]>>
    BY <2>1, <2>6
  <2>8. Sound' => Settled'
    BY <1>2, <1>3, <2>1, <2>3, <2>4, <2>5, <2>6, <2>7 DEF Settled
  <2> QED BY <2>8, SettledSuffices
<1>7. CASE PostQuestion
  <2>1. /\ ppc = "post" /\ cpc' = cpc /\ parent' = parent /\ message_ques' = message_ques
        /\ children' = [children EXCEPT ![i] = @ + 1]
        /\ \/ i < NumChildren /\ i' = i + 1 /\ j' = j /\ ppc' = "wait"
           \/ ~ i < NumChildren /\ i' = 1 /\ j < NumQ /\ j' = j + 1 /\ ppc' = "wait"
           \/ ~ i < NumChildren /\ i' = 1 /\ ~ j < NumQ /\ ppc' = "last"
    BY <1>7 DEF PostQuestion, PostChild
  <2>2. 0 \in HasTurn
    BY <2>1 DEF HasTurn
  <2>3. /\ HasTurn = {0} /\ ~ parent > 0
        /\ \A c \in Children : ~ children[c] > 0
    BY <2>2, <1>1, TurnIsOne
  <2>4. \A c \in Children : cpc[c] \notin {"receive", "post", "answer", "last"}
    BY <2>3, <1>4 DEF HasTurn
  <2>5. parent = 0
    BY <2>3, <1>2 DEF Typed, KernelShape
  <2>6. i \in Children /\ j \in 1..NumQ /\ NumQ \in Nat /\ NumChildren \in Nat
    BY Numbers DEF Typed, Questions
  <2>k. PICK k \in Children : k = i
    BY <2>6
  <2>7. \A c \in Children :
          /\ Posted(c) = j - 1 + (IF c < k THEN 1 ELSE 0)
          /\ Posted(c)' = IF c = k THEN j ELSE Posted(c)
    BY <2>1, <2>6, <2>k DEF Posted, Children
  <2>8. Sound => /\ \A c \in Children : cj[c] = Posted(c)
                 /\ message_ques = <<[run |-> run, q |-> j]>>
    BY <2>1, WhenSettled
  <2>9. Sound' => /\ cj'[k] # Posted(k)' /\ cj'[k] + 1 = Posted(k)' /\ Posted(k)' = j
                  /\ \A d \in Children : d # k => cj'[d] = Posted(d)'
    <3>1. ~ k < k
      BY <2>6 DEF Children
    <3> QED BY <3>1, <1>2, <1>3, <2>6, <2>7, <2>8, <2>k
  <2>10. OneBehind'
    BY <1>2, <2>1, <2>4, <2>5, <2>6, <2>9 DEF OneBehind
  <2>11. TurnIsBehind'
    <3>1. \A d \in Children : d # k => children'[d] = children[d]
      BY <2>1, <2>k DEF Typed
    <3> QED BY <3>1, <1>2, <2>1, <2>3, <2>4, <2>9 DEF TurnIsBehind
  <2>12. QueueIs'
    BY <1>2, <1>3, <2>1, <2>6, <2>8, <2>9 DEF QueueIs
  <2> QED BY <2>10, <2>11, <2>12
<1>8. CASE CallChild \/ ReadAnswers \/ Reap
  <2>1. /\ ppc \in {"call", "read", "reap"} /\ message_ques' = message_ques
        /\ cpc' = cpc
        /\ ppc' \in {"await", "call", "reap", "cleanup"}
        /\ ppc' = "await" \/ children' = children
    BY <1>8 DEF CallChild, ReadAnswers, Reap, kernel
  <2>2. 0 \in HasTurn
    BY <2>1 DEF HasTurn
  <2>3. HasTurn = {0} /\ \A c \in Children : ~ children[c] > 0
    BY <2>2, <1>1, TurnIsOne
  <2>4. \A c \in Children : cpc[c] # "receive"
    BY <2>3, <1>4 DEF HasTurn
  <2>5. \A c \in Children : Posted(c)' = Posted(c)
    BY <2>1 DEF Posted
  <2>6. Sound => (\A c \in Children : cj[c] = Posted(c)) /\ message_ques = <<>>
    BY <2>1, WhenSettled
  <2>7. Sound' => Settled'
    BY <1>2, <1>3, <2>1, <2>3, <2>4, <2>5, <2>6 DEF Settled
  <2> QED BY <2>7, SettledSuffices
<1>9. CASE CleanUp
  <2>1. ~ Sound'
    BY <1>9 DEF CleanUp, Sound
  <2> QED BY <2>1, SettledSuffices
<1> QED BY <1>5, <1>6, <1>7, <1>8, <1>9 DEF ParentStep

\* What a child does keeps the children in step: the one that receives a
\* question is the one that was behind by it.
LEMMA ChildKeepsStep ==
    ASSUME Typed, ChildShape, KernelShape, OneTurn, OneBehind, TurnIsBehind, QueueIs,
           NEW c \in Children, ChildStep(c)
    PROVE  OneBehind' /\ TurnIsBehind' /\ QueueIs'
<1> USE DEF pvars, hvars
<1>1. Units <= 1
  BY DEF OneTurn
<1>2. /\ run' = run /\ clean' = clean /\ ppc' = ppc /\ j' = j /\ i' = i
      /\ cpc[c] # "none" /\ \A d \in Children : d # c => cpc'[d] = cpc[d]
  BY DEF ChildStep, ChildWait, Receive, Answer, ChildPost, Exit, Typed
<1>3. Sound' => Sound
  BY <1>2 DEF Sound
<1>4. \A d \in Children : Posted(d)' = Posted(d)
  BY <1>2 DEF Posted
<1>5. CASE ChildWait(c)
  <2>1. /\ children[c] > 0 /\ parent' = parent /\ message_ques' = message_ques
        /\ cj' = cj /\ cpc'[c] = IF cj[c] < NumQ THEN "receive" ELSE "answer"
        /\ \A d \in Children : d # c => children'[d] = children[d]
    BY <1>5 DEF ChildWait, Typed
  <2>2. HasTurn = {} /\ ~ parent > 0
    BY <2>1, <1>1, TurnIsOne
  <2>3. \A d \in Children : cpc[d] \notin {"receive", "post", "answer", "last"}
    BY <2>2 DEF HasTurn
  <2>4. \A d \in Children : Posted(d) \in 0..NumQ /\ cj[d] \in 0..NumQ
    BY PostedNat DEF Typed
  <2>5. ASSUME Sound, ppc # "await"
        PROVE  cj[c] # Posted(c) /\ cj[c] + 1 = Posted(c) /\ cj[c] < NumQ
    <3>1. cj[c] # Posted(c)
      BY <2>1, <2>5 DEF TurnIsBehind
    <3>2. cj[c] + 1 = Posted(c)
      BY <3>1, <2>5 DEF OneBehind
    <3> QED BY <3>1, <3>2, <2>4, Numbers
  <2>6. ASSUME Sound', NEW d \in Children, cj'[d] # Posted(d)'
        PROVE  /\ cj'[d] + 1 = Posted(d)' /\ ppc' \in {"wait", "last"} /\ parent' = 0
               /\ \A e \in Children : /\ e # d => cj'[e] = Posted(e)'
                                      /\ cpc'[e] \notin {"post", "answer", "last"}
    <3>1. Sound /\ cj[d] # Posted(d)
      BY <2>6, <1>3, <1>4, <2>1
    <3>2. /\ cj[d] + 1 = Posted(d) /\ ppc \in {"wait", "last"} /\ parent = 0
          /\ \A e \in Children : e # d => cj[e] = Posted(e)
      BY <3>1 DEF OneBehind
    <3>3. cpc'[c] = "receive"
      BY <3>1, <3>2, <2>1, <2>5
    <3> QED BY <3>2, <3>3, <1>2, <1>4, <2>1, <2>3
  <2>7. OneBehind'
    BY <2>6 DEF OneBehind
  <2>8. TurnIsBehind'
    <3>1. SUFFICES ASSUME Sound', NEW d \in Children
          PROVE  /\ cpc'[d] = "receive" => cj'[d] # Posted(d)'
                 /\ children'[d] > 0 /\ ppc' # "await" => cj'[d] # Posted(d)'
      BY DEF TurnIsBehind
    <3>2. Sound
      BY <3>1, <1>3
    <3>3. cpc'[d] = "receive" => cj[d] # Posted(d)
      <4>1. SUFFICES ASSUME cpc'[d] = "receive" PROVE cj[d] # Posted(d)
        OBVIOUS
      <4>2. d = c /\ cj[c] < NumQ
        BY <4>1, <1>2, <2>1, <2>3
      <4>3. CASE ppc = "await"
        BY <4>2, <4>3, <2>4 DEF Posted
      <4>4. CASE ppc # "await"
        BY <4>2, <4>4, <2>5, <3>2
      <4> QED BY <4>3, <4>4
    <3>4. children'[d] > 0 /\ ppc # "await" => cj[d] # Posted(d)
      BY <2>1, <2>5, <3>2 DEF TurnIsBehind
    <3> QED BY <3>3, <3>4, <1>2, <1>4, <2>1
  <2>9. QueueIs'
    BY <1>2, <1>3, <1>4, <2>1 DEF QueueIs
  <2> QED BY <2>7, <2>8, <2>9
<1>6. CASE Receive(c)
  <2>1. /\ cpc[c] = "receive" /\ cpc'[c] = "post" /\ children' = children
        /\ message_ques' = Tail(message_ques) /\ cj'[c] = cj[c] + 1
        /\ \A d \in Children : d # c => cj'[d] = cj[d]
    BY <1>6 DEF Receive, Typed
  <2>2. c \in HasTurn
    BY <2>1 DEF HasTurn
  <2>3. HasTurn = {c} /\ \A d \in Children : ~ children[d] > 0
    BY <2>2, <1>1, TurnIsOne
  <2>4. \A d \in Children : cpc'[d] # "receive"
    BY <2>1, <2>3, <1>2 DEF HasTurn
  <2>5. ASSUME Sound
        PROVE  /\ cj[c] + 1 = Posted(c) /\ ppc \in {"wait", "last"}
               /\ \A d \in Children : d # c => cj[d] = Posted(d)
               /\ message_ques = <<[run |-> run, q |-> Posted(c)]>>
    <3>1. cj[c] # Posted(c)
      BY <2>1, <2>5 DEF TurnIsBehind
    <3> QED BY <3>1, <2>5 DEF OneBehind, QueueIs
  <2>6. Sound => message_ques' = <<>>
    <3>1. \A q : Tail(<<q>>) = <<>>
      OBVIOUS
    <3> QED BY <3>1, <2>1, <2>5
  <2>7. Sound' => Settled'
    BY <1>2, <1>3, <1>4, <2>1, <2>3, <2>4, <2>5, <2>6 DEF Settled
  <2> QED BY <2>7, SettledSuffices
<1>7. CASE Answer(c) \/ ChildPost(c)
  <2>1. /\ cpc[c] \in {"post", "answer", "last"}
        /\ cpc'[c] \in {"wait", "last", "exiting"} /\ children' = children
        /\ message_ques' = message_ques /\ cj' = cj
    BY <1>7 DEF Answer, ChildPost, Typed
  <2>2. c \in HasTurn
    BY <2>1 DEF HasTurn
  <2>3. HasTurn = {c} /\ \A d \in Children : ~ children[d] > 0
    BY <2>2, <1>1, TurnIsOne
  <2>4. \A d \in Children : cpc'[d] # "receive"
    BY <2>1, <2>3, <1>2 DEF HasTurn
  <2>5. Sound =>
          /\ \A d \in Children : cj[d] = Posted(d)
          /\ message_ques = IF ppc = "post" THEN <<[run |-> run, q |-> j]>> ELSE <<>>
    BY <2>1, WhenSettled
  <2>6. Sound' => Settled'
    BY <1>2, <1>3, <1>4, <2>1, <2>3, <2>4, <2>5 DEF Settled
  <2> QED BY <2>6, SettledSuffices
<1>8. CASE Exit(c)
  <2>1. /\ cpc'[c] = "exited" /\ children' = children /\ parent' = parent
        /\ message_ques' = message_ques /\ cj' = cj
    BY <1>8 DEF Exit, kernel, Typed
  <2>2. OneBehind'
    BY <1>2, <1>3, <1>4, <2>1 DEF OneBehind
  <2>3. TurnIsBehind'
    BY <1>2, <1>3, <1>4, <2>1 DEF TurnIsBehind
  <2>4. QueueIs'
    BY <1>2, <1>3, <1>4, <2>1 DEF QueueIs
  <2> QED BY <2>2, <2>3, <2>4
<1> QED BY <1>5, <1>6, <1>7, <1>8 DEF ChildStep

\* A run begins with nobody behind if it finds nothing; a run that is over has
\* no exchange; and a killed child neither receives nor answers any more.
LEMMA OthersKeepStep ==
    ASSUME Typed, KernelShape, OneBehind, TurnIsBehind, QueueIs,
           Start \/ Interrupt \/ \E c \in Children : Kill(c)
    PROVE  OneBehind' /\ TurnIsBehind' /\ QueueIs'
<1>1. CASE Start
  <2>1. SUFFICES ASSUME Sound' PROVE Settled'
    BY SettledSuffices
  <2>2. clean' \/ run' = 1
    BY <2>1 DEF Sound
  <2>3. parent = Absent /\ message_ques = <<>>
    <3>1. CASE clean'
      BY <1>1, <3>1 DEF Start
    <3>2. CASE run' = 1
      <4>1. run' = run + 1 /\ run \in Nat
        BY <1>1, Numbers DEF Start, Typed
      <4> QED BY <3>2, <4>1 DEF KernelShape
    <3> QED BY <2>2, <3>1, <3>2
  <2>4. \A d \in Children : children'[d] = 0 /\ cpc'[d] = "wait" /\ cj'[d] = 0
    BY <1>1, <2>3 DEF Start, KernelShape, Open
  <2>5. \A d \in Children : Posted(d)' = 0
    BY <1>1 DEF Start, Posted, Children
  <2> QED BY <1>1, <2>3, <2>4, <2>5 DEF Start, Settled
<1>2. CASE Interrupt
  <2>1. ~ Sound'
    BY <1>2 DEF Interrupt, Sound
  <2> QED BY <2>1, SettledSuffices
<1>3. ASSUME NEW c \in Children, Kill(c) PROVE OneBehind' /\ TurnIsBehind' /\ QueueIs'
  <2>1. /\ cpc'[c] = "killed" /\ \A d \in Children : d # c => cpc'[d] = cpc[d]
        /\ children' = children /\ parent' = parent /\ message_ques' = message_ques
        /\ cj' = cj /\ ppc' = ppc /\ j' = j /\ i' = i /\ run' = run /\ clean' = FALSE
    BY <1>3 DEF Kill, kernel, pvars, Typed
  <2>2. Sound' => Sound
    BY <2>1 DEF Sound
  <2>3. \A d \in Children : Posted(d)' = Posted(d)
    BY <2>1 DEF Posted
  <2>4. OneBehind'
    BY <2>1, <2>2, <2>3 DEF OneBehind
  <2>5. TurnIsBehind'
    BY <2>1, <2>2, <2>3 DEF TurnIsBehind
  <2>6. QueueIs'
    BY <2>1, <2>2, <2>3 DEF QueueIs
  <2> QED BY <2>4, <2>5, <2>6
<1> QED BY <1>1, <1>2, <1>3

\* The first n questions of run r.
Numbered(n, r) == [k \in 1..n |-> [run |-> r, q |-> k]]

\* They go on with the next one.
LEMMA CountOn ==
    ASSUME NEW n \in Nat, NEW r
    PROVE  Append(Numbered(n, r), [run |-> r, q |-> n + 1]) = Numbered(n + 1, r)
<1> DEFINE F(m) == [k \in 1..m |-> [run |-> r, q |-> k]]
           R == {[run |-> r, q |-> k] : k \in Nat}
<1>1. \A m \in Nat : F(m) \in Seq(R) /\ Len(F(m)) = m
  OBVIOUS
<1>2. [run |-> r, q |-> n + 1] \in R
  OBVIOUS
<1>3. \A m \in Nat : \A k \in 1..m : F(m)[k] = [run |-> r, q |-> k]
  OBVIOUS
<1> DEFINE G == Append(F(n), [run |-> r, q |-> n + 1])
<1>4. G \in Seq(R) /\ Len(G) = n + 1
  <2> HIDE DEF F, R
  <2> QED BY <1>1, <1>2
<1>5. \A k \in 1..(n + 1) : G[k] = F(n + 1)[k]
  <2>1. ASSUME NEW k \in 1..(n + 1) PROVE G[k] = F(n + 1)[k]
    <3>1. CASE k = n + 1
      <4>1. G[k] = [run |-> r, q |-> n + 1]
        <5> HIDE DEF F, R
        <5> QED BY <3>1, <1>1, <1>2
      <4> QED BY <4>1, <3>1, <1>3
    <3>2. CASE k # n + 1
      <4>1. k \in 1..n
        BY <3>2
      <4>2. G[k] = F(n)[k]
        <5> HIDE DEF F, R
        <5> QED BY <4>1, <1>1, <1>2
      <4> QED BY <4>1, <4>2, <1>3
    <3> QED BY <3>1, <3>2
  <2> QED BY <2>1
<1>6. F(n + 1) \in Seq(R) /\ Len(F(n + 1)) = n + 1
  BY <1>1
<1> QED
  <2> HIDE DEF F, R, G
  <2>1. G = F(n + 1)
    BY <1>4, <1>5, <1>6, SeqEqual
  <2> QED BY <2>1 DEF F, G, Numbered

\* The lists of questions stay in step.
LEMMA InStepKept ==
    ASSUME Typed, ChildShape, KernelShape, OneTurn, OneBehind, TurnIsBehind, QueueIs,
           InStep, Next
    PROVE  InStep'
<1> USE DEF pvars, cvars, hvars, kernel
<1>1. CASE Start
  <2>1. ASSUME clean'
        PROVE  message_ques' = <<>> /\ \A c \in Children : got'[c] = <<>> /\ cj'[c] = 0
    BY <2>1, <1>1 DEF Start
  <2>2. [k \in 1..0 |-> [run |-> run', q |-> k]] = <<>>
    OBVIOUS
  <2> QED BY <2>1, <2>2 DEF InStep
<1>2. CASE Interrupt
  BY <1>2 DEF Interrupt, InStep
<1>3. ASSUME NEW c \in Children, Kill(c) PROVE InStep'
  BY <1>3 DEF Kill, InStep
<1>4. CASE CleanUp
  <2>1. Len(message_ques') <= 1
    BY <1>4 DEF CleanUp
  <2> QED BY <2>1, <1>4 DEF CleanUp, InStep
<1>5. CASE ParentStep /\ ~CleanUp
  <2>1. run' = run /\ clean' = clean /\ cj' = cj /\ got' = got /\ ppc # "off"
    BY <1>5 DEF ParentStep, ParentWait, SendQuestion, PostQuestion, CallChild,
                ReadAnswers, Reap
  <2>2. \/ message_ques' = message_ques
        \/ SendQuestion
    BY <1>5 DEF ParentStep, ParentWait, PostQuestion, CallChild, ReadAnswers, Reap
  <2>3. CASE SendQuestion
    <3>1. clean => Sound /\ ppc = "send"
      BY <2>1, <2>3 DEF Sound, SendQuestion
    <3>2. clean => message_ques = <<>>
      BY <3>1, WhenSettled
    <3>3. clean => Len(message_ques') <= 1
      BY <3>2, <2>3 DEF SendQuestion
    <3> QED BY <2>1, <3>3 DEF InStep
  <2> QED BY <2>1, <2>2, <2>3 DEF InStep
<1>6. ASSUME NEW c \in Children, Receive(c) PROVE InStep'
  <2>1. /\ cpc[c] = "receive" /\ cj' = [cj EXCEPT ![c] = cj[c] + 1]
        /\ got' = [got EXCEPT ![c] = Append(got[c], Head(message_ques))]
        /\ message_ques' = Tail(message_ques) /\ run' = run /\ clean' = clean
    BY <1>6 DEF Receive
  <2>2. SUFFICES ASSUME clean'
                 PROVE  /\ Len(message_ques') <= 1
                        /\ \A d \in Children :
                             got'[d] = Numbered(cj'[d], run')
    BY DEF InStep, Numbered
  <2>3. Sound
    BY <2>1, <2>2 DEF Sound, KernelShape
  <2>4. /\ cj[c] + 1 = Posted(c)
        /\ message_ques = <<[run |-> run, q |-> Posted(c)]>>
    <3>1. cj[c] # Posted(c)
      BY <2>1, <2>3 DEF TurnIsBehind
    <3> QED BY <3>1, <2>3 DEF OneBehind, QueueIs
  <2>5. message_ques' = <<>> /\ Head(message_ques) = [run |-> run, q |-> cj[c] + 1]
    <3>1. \A q : Tail(<<q>>) = <<>> /\ Head(<<q>>) = q
      OBVIOUS
    <3> QED BY <3>1, <2>1, <2>4
  <2>6. \A d \in Children : got[d] = Numbered(cj[d], run)
    BY <2>1, <2>2 DEF InStep, Numbered
  <2>7. cj[c] \in Nat
    BY Numbers DEF Typed
  <2>8. got'[c] = Numbered(cj[c] + 1, run)
    <3>1. got'[c] = Append(got[c], Head(message_ques))
      BY <2>1 DEF Typed
    <3> QED BY <3>1, <2>5, <2>6, <2>7, CountOn
  <2>9. \A d \in Children : d # c => got'[d] = got[d] /\ cj'[d] = cj[d]
    BY <2>1 DEF Typed
  <2>10. cj'[c] = cj[c] + 1
    BY <2>1 DEF Typed
  <2>11. Len(message_ques') <= 1
    BY <2>5
  <2> QED BY <2>1, <2>6, <2>8, <2>9, <2>10, <2>11
<1>7. ASSUME NEW c \in Children, ChildStep(c), ~Receive(c) PROVE InStep'
  <2>1. /\ run' = run /\ clean' = clean /\ cj' = cj /\ got' = got
        /\ message_ques' = message_ques
    BY <1>7 DEF ChildStep, ChildWait, Answer, ChildPost, Exit
  <2> QED BY <2>1 DEF InStep
<1> QED BY <1>1, <1>2, <1>3, <1>4, <1>5, <1>6, <1>7 DEF Next

-----------------------------------------------------------------------------
(* Sheets and marks                                                        *)

\* The sheets of the first run stay their children's own, and the marks that
\* are given are those of the sheets.
LEMMA SheetsKept ==
    ASSUME Typed, Typed', ChildShape, KernelShape, OneTurn, OneBehind, TurnIsBehind,
           QueueIs, SheetsOwn, Next
    PROVE  SheetsOwn'
<1> USE DEF Goto, pvars, cvars, hvars, kernel
<1>1. CASE Start
  <2>1. SUFFICES ASSUME run' = 1 PROVE SheetsOwn'
    BY DEF SheetsOwn
  <2>2. run = 0
    BY <1>1, <2>1, Numbers DEF Start, Typed
  <2>3. message_answers' = {} /\ ppc' = "wait"
    BY <1>1, <2>2 DEF Start, KernelShape
  <2> QED BY <2>3 DEF SheetsOwn
<1>2. CASE Interrupt \/ CleanUp
  BY <1>2 DEF Interrupt, CleanUp, SheetsOwn
<1>3. CASE \E c \in Children : Kill(c)
  BY <1>3 DEF Kill, SheetsOwn
<1>4. CASE ParentWait \/ SendQuestion \/ CallChild
  <2>1. /\ run' = run /\ ppc # "off" /\ message_answers' = message_answers
        /\ right' = right /\ cj' = cj /\ i' = i /\ marks' = marks
        /\ ppc' \in {"send", "call", "read", "post", "await"}
        /\ ppc' = "call" => ppc = "last"
        /\ ppc' \in {"read", "await"} => ppc \in {"call", "await"}
    BY <1>4 DEF ParentWait, SendQuestion, CallChild
  <2>2. \A c \in Children : i = 1 => ~ c < i
    BY DEF Children
  <2>3. SUFFICES ASSUME run' = 1, ppc' # "off"
                 PROVE  /\ \A c \in Children : ppc' \in {"call", "await", "read"} /\ c < i'
                             => marks'[c] = Marks(right'[c])
    BY <2>1 DEF SheetsOwn
  <2> QED BY <2>1, <2>2, <2>3 DEF SheetsOwn
<1>5. CASE PostQuestion
  BY <1>5 DEF PostQuestion, SheetsOwn
<1>6. CASE ReadAnswers
  <2>1. PICK m \in message_answers :
          /\ m.child = i
          /\ message_answers' = message_answers \ {m}
          /\ marks' = [marks EXCEPT ![i] = Marks(m.right)]
    BY <1>6 DEF ReadAnswers
  <2>2. /\ ppc = "read" /\ run' = run /\ cj' = cj /\ right' = right
        /\ \/ i < NumChildren /\ ppc' = "call" /\ i' = i + 1
           \/ ~ i < NumChildren /\ ppc' = "reap" /\ i' = 1
    BY <1>6 DEF ReadAnswers
  <2>3. SUFFICES ASSUME run' = 1, NEW c \in Children, ppc' = "reap" \/ c < i'
                 PROVE  marks'[c] = Marks(right'[c])
    BY <2>1, <2>2 DEF SheetsOwn
  <2>4. CASE c = i
    <3>1. marks'[c] = Marks(m.right)
      BY <2>1, <2>4 DEF Typed
    <3>2. m.right = right[c]
      BY <2>1, <2>2, <2>3, <2>4 DEF SheetsOwn
    <3> QED BY <2>2, <3>1, <3>2
  <2>5. CASE c # i
    <3>1. c < i
      BY <2>2, <2>3, <2>5, Numbers DEF Typed, Children
    <3>2. marks[c] = Marks(right[c])
      BY <2>2, <2>3, <3>1 DEF SheetsOwn
    <3>3. marks'[c] = marks[c]
      BY <2>1, <2>5 DEF Typed
    <3> QED BY <2>2, <3>2, <3>3
  <2> QED BY <2>4, <2>5
<1>7. CASE Reap
  BY <1>7 DEF Reap, SheetsOwn
<1>8. ASSUME NEW c \in Children, Receive(c) PROVE SheetsOwn'
  <2>1. /\ cpc[c] = "receive" /\ run' = run /\ ppc' = ppc /\ i' = i /\ marks' = marks
        /\ message_answers' = message_answers
        /\ \A d \in Children : d # c => right'[d] = right[d] /\ cj'[d] = cj[d]
    BY <1>8 DEF Receive, Typed
  <2>2. SUFFICES ASSUME run' = 1, ppc' # "off" PROVE SheetsOwn'
    BY DEF SheetsOwn
  <2>3. Sound
    BY <2>1, <2>2 DEF Sound
  <2>4. ppc \in {"wait", "last"}
    BY <2>1, <2>3 DEF TurnIsBehind, OneBehind
  <2>5. \A m \in message_answers : m.child # c /\ m.child \in Children
    <3>1. cj[c] # NumQ
      BY <2>1, Numbers DEF ChildShape
    <3> QED BY <3>1, <2>1, <2>2 DEF SheetsOwn, Typed, Sheets
  <2> QED BY <2>1, <2>2, <2>4, <2>5 DEF SheetsOwn
<1>9. ASSUME NEW c \in Children, Answer(c) PROVE SheetsOwn'
  <2>1. /\ cpc[c] = "answer" /\ run' = run /\ ppc' = ppc /\ i' = i /\ marks' = marks
        /\ message_answers' = message_answers
             \cup {[child |-> c, run |-> run, right |-> right[c]]}
        /\ right' = right /\ cj' = cj
    BY <1>9 DEF Answer
  <2>2. cj[c] = NumQ
    BY <2>1 DEF ChildShape
  <2> QED BY <2>1, <2>2 DEF SheetsOwn
<1>10. ASSUME NEW c \in Children, ChildWait(c) \/ ChildPost(c) \/ Exit(c)
       PROVE  SheetsOwn'
  <2>1. /\ run' = run /\ ppc' = ppc /\ i' = i /\ marks' = marks
        /\ message_answers' = message_answers /\ right' = right /\ cj' = cj
    BY <1>10 DEF ChildWait, ChildPost, Exit
  <2> QED BY <2>1 DEF SheetsOwn
<1> QED BY <1>1, <1>2, <1>3, <1>4, <1>5, <1>6, <1>7, <1>8, <1>9, <1>10
        DEF Next, ParentStep, ChildStep

-----------------------------------------------------------------------------
(* The theorems                                                            *)

\* Nothing exists, and nobody is anywhere.
LEMMA InitIInv ==
    ASSUME Init
    PROVE  IInv
<1> USE Numbers DEF Init
<1>1. Typed
  <2>1. /\ parent \in Nat \cup {Absent} /\ children \in [Children -> Nat \cup {Absent}]
        /\ message_ques \in Seq(Question) /\ message_answers \subseteq Sheets
        /\ j \in Questions /\ i \in Children
    OBVIOUS
  <2>2. /\ cj \in [Children -> 0..NumQ] /\ right \in [Children -> SUBSET Questions]
        /\ marks \in [Children -> Nat]
    OBVIOUS
  <2>3. got \in [Children -> Seq(Question)]
    OBVIOUS
  <2>4. run \in 0..MaxRuns /\ kills \in 0..MaxKills
    OBVIOUS
  <2> QED BY <2>1, <2>2, <2>3, <2>4 DEF Typed
<1>2. ChildShape /\ KernelShape
  BY DEF ChildShape, KernelShape
<1>3. OneTurn
  <2> DEFINE f == [c \in Children |-> Held(children[c])]
  <2>1. \A c \in Children : f[c] = 0
    BY DEF Held
  <2>2. ChildUnits = SumFunctionOnSet(f, Children)
    BY DEF ChildUnits
  <2> HIDE DEF f
  <2>3. ChildUnits = 0
    BY <2>1, <2>2, SumZero
  <2>4. Held(parent) = 0
    BY DEF Held
  <2>5. HasTurn = {} /\ Cardinality(HasTurn) = 0
    BY FS_EmptySet DEF HasTurn
  <2>6. Units = 0
    BY <2>3, <2>4, <2>5 DEF Units, ChildUnits
  <2> QED BY <2>6 DEF OneTurn
<1>4. OneBehind /\ TurnIsBehind /\ QueueIs /\ SheetsOwn
  BY DEF OneBehind, TurnIsBehind, QueueIs, SheetsOwn, Sound
<1>5. InStep
  <2>1. [k \in 1..0 |-> [run |-> run, q |-> k]] = <<>>
    OBVIOUS
  <2> QED BY <2>1 DEF InStep
<1> QED BY <1>1, <1>2, <1>3, <1>4, <1>5 DEF IInv, Exchange

\* Every step keeps the invariant.
LEMMA NextKeeps ==
    ASSUME IInv, Next
    PROVE  IInv'
<1> USE DEF IInv, Exchange
<1>1. Typed' /\ ChildShape' /\ KernelShape'
  BY StartTypes, StopTypes, KillTypes, ParentTypes, ChildTypes DEF Next, ParentStep
<1>2. OneTurn'
  BY <1>1, RestartTurn, KillTurn, ParentKeepsTurn, ChildKeepsTurn DEF Next
<1>3. OneBehind' /\ TurnIsBehind' /\ QueueIs'
  BY ParentKeepsStep, ChildKeepsStep, OthersKeepStep DEF Next
<1>4. InStep'
  BY InStepKept
<1>5. SheetsOwn'
  BY <1>1, SheetsKept
<1> QED BY <1>1, <1>2, <1>3, <1>4, <1>5

\* The invariant holds in every state the exam reaches.
THEOREM Invariance == Spec => []IInv
<1>1. ASSUME IInv, UNCHANGED vars PROVE IInv'
  <2> USE <1>1 DEF IInv, vars, kernel, pvars, cvars, hvars
  <2>1. Typed' /\ ChildShape' /\ KernelShape'
    BY DEF Typed, ChildShape, KernelShape
  <2>2. OneTurn'
    BY DEF OneTurn, Units, HasTurn, Held
  <2>3. Exchange'
    BY DEF Exchange, OneBehind, TurnIsBehind, QueueIs, InStep, SheetsOwn, Sound, Posted
  <2> QED BY <2>1, <2>2, <2>3
<1>2. IInv /\ [Next]_vars => IInv'
  BY <1>1, NextKeeps
<1> QED BY InitIInv, <1>2, PTL DEF Spec

\* The types, and with them the semaphores' bound: no run, not even one that
\* finds the semaphores of an interrupted one, ever raises one above 1.
THEOREM TypesHold == Spec => []TypeOK
<1>1. IInv => TypeOK
  <2>1. SUFFICES ASSUME IInv PROVE TypeOK
    OBVIOUS
  <2>2. Typed /\ ChildShape /\ Units <= 1
    BY <2>1 DEF IInv, OneTurn
  <2>3. parent \in {Absent, 0, 1} /\ children \in [Children -> {Absent, 0, 1}]
    BY <2>2, TurnIsOne
  <2>4. \A k \in DOMAIN message_ques :
          message_ques[k] \in [run : 1..MaxRuns, q : Questions]
    <3>1. message_ques \in Seq(Question)
      BY <2>2 DEF Typed
    <3>2. ASSUME NEW S, NEW q \in Seq(S) PROVE \A k \in DOMAIN q : q[k] \in S
      OBVIOUS
    <3> QED BY <3>1, <3>2 DEF Question
  <2>5. \A c \in Children : right[c] \subseteq 1..cj[c] /\ Len(got[c]) = cj[c]
    BY <2>2 DEF ChildShape
  <2> QED BY <2>2, <2>3, <2>4, <2>5 DEF TypeOK, Typed
<1> QED BY <1>1, Invariance, PTL

\* There is never more than one turn, and exactly one in a clean run.
THEOREM OneTurnHolds == Spec => []OneTurn
<1>1. IInv => OneTurn
  BY DEF IInv
<1> QED BY <1>1, Invariance, PTL

\* In a clean run every child receives this run's questions in order.
THEOREM QuestionsInStep == Spec => []InStep
<1>1. IInv => InStep
  BY DEF IInv, Exchange
<1> QED BY <1>1, Invariance, PTL

\* A parent that has come to waitpid has graded every child on its own answers
\* to every question.
THEOREM EachGradedOnItsOwn == Spec => []GradedOwn
<1>1. IInv => GradedOwn
  <2>1. SUFFICES ASSUME IInv, run = 1, ppc \in {"reap", "cleanup"}, NEW c \in Children
                 PROVE  cj[c] = NumQ /\ marks[c] = Marks(right[c])
    BY DEF GradedOwn
  <2>2. Sound /\ Posted(c) = NumQ
    BY <2>1 DEF Sound, Posted
  <2>3. cj[c] = Posted(c)
    BY <2>1, <2>2 DEF IInv, Exchange, OneBehind
  <2>4. marks[c] = Marks(right[c])
    BY <2>1 DEF IInv, Exchange, SheetsOwn
  <2> QED BY <2>2, <2>3, <2>4
<1> QED BY <1>1, Invariance, PTL
=============================================================================
