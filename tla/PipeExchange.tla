---------------------------- MODULE PipeExchange ----------------------------
(***************************************************************************)
(* Assignment4/Group_1/ass4_1.cpp: two children exchange the files of      *)
(* their directories over two pipes; the parent waits for both.            *)
(*                                                                         *)
(* The parent keeps all ends of the pipes open, and so does every child    *)
(* for the pipe ends it does not use itself: a read from a pipe nothing    *)
(* was written to never returns.  The lists are taken to fit in the        *)
(* buffers and in one atomic write, and directories to have fewer than ten *)
(* files.                                                                  *)
(***************************************************************************)
EXTENDS Integers, FiniteSets, SequencesExt

CONSTANTS
    Names, Contents,    \* names and contents of files, as sequences of characters
    Directories,        \* what d1 and d2 may hold: sets of names -> contents
    Junk                \* what may lie in the read buffer behind the message

Children == {1, 2}
Other(c) == 3 - c
Digits == <<"0", "1", "2", "3", "4", "5", "6", "7", "8", "9">>

ASSUME DirectoriesAssumption ==
    \A d \in Directories : /\ DOMAIN d \subseteq Names /\ Cardinality(DOMAIN d) < 10
                           /\ \A f \in DOMAIN d : d[f] \in Contents

VARIABLES
    parent,         \* how far main is: fork1, fork2, wait, end
    at,             \* how far the children are
    directory,      \* d1 and d2
    pipe,           \* what the child wrote and the other has not read
    receivedFiles,  \* what writeDirectory still has to write
    first           \* history: the directories when the program started

vars == <<parent, at, directory, pipe, receivedFiles, first>>

Nothing == <<>>     \* no message is empty

Init == /\ parent = "fork1"
        /\ at = [c \in Children |-> "none"]
        /\ directory \in [Children -> Directories]
        /\ pipe = [c \in Children |-> Nothing]
        /\ receivedFiles = [c \in Children |-> <<>>]
        /\ first = directory

-----------------------------------------------------------------------------
(* The messages                                                            *)

\* sprintf: the number of files, and every name and content behind a colon.
Message(d, order) ==
    <<Digits[Len(order) + 1]>>
      \o FlattenSeq([k \in DOMAIN order |-> <<":">> \o order[k] \o <<":">> \o d[order[k]]])

\* strtok: what lies between colons; several in a row count for one.
Tokens(chars) ==
    LET step(tokens, ch) ==
          IF ch = ":" THEN Append(tokens, <<>>)
          ELSE [tokens EXCEPT ![Len(tokens)] = Append(@, ch)]
    IN  SelectSeq(FoldLeft(step, << <<>> >>, chars), LAMBDA t : t # <<>>)

IsDigit(ch) == \E d \in DOMAIN Digits : Digits[d] = ch
Value(ch) == (CHOOSE d \in DOMAIN Digits : Digits[d] = ch) - 1

\* sscanf: the digits in front.
Number(chars) ==
    IF Len(chars) > 1 /\ IsDigit(chars[2]) THEN 10 * Value(chars[1]) + Value(chars[2])
                                           ELSE Value(chars[1])

-----------------------------------------------------------------------------
(* The children                                                            *)

\* Mutant: a child reads before it writes.
SendLate(c) ==
    /\ at[c] = "start" /\ pipe[Other(c)] # Nothing
    /\ \E order \in SetToSeqs(DOMAIN directory[c]) :
         pipe' = [pipe EXCEPT ![c] = Message(directory[c], order)]
    /\ at' = [at EXCEPT ![c] = "sent"]
    /\ UNCHANGED <<parent, directory, receivedFiles, first>>

\* readDirectory finds the files in any order; then they are written to the
\* child's own pipe.
Send(c) ==
    /\ at[c] = "start"
    /\ \E order \in SetToSeqs(DOMAIN directory[c]) :
         pipe' = [pipe EXCEPT ![c] = Message(directory[c], order)]
    /\ at' = [at EXCEPT ![c] = "sent"]
    /\ UNCHANGED <<parent, directory, receivedFiles, first>>

\* readDirectory cannot open the directory or a file: exit.
ReadFails(c) ==
    /\ at[c] = "start"
    /\ at' = [at EXCEPT ![c] = "mute"]
    /\ UNCHANGED <<parent, directory, pipe, receivedFiles, first>>

\* Mutant: a child reads from the pipe it writes to.
OwnPipe(c) == c

\* The pipe a child reads from is the one the other writes to.
ReadEnd(c) == Other(c)

\* The message is not closed by a NUL: what was in the buffer goes on after
\* it.  When the tokens run out a string is made of a null pointer, and the
\* child is terminated before it wrote a file.
Receive(c) ==
    /\ at[c] = "sent" /\ pipe[ReadEnd(c)] # Nothing
    /\ \E junk \in Junk :
         LET tokens == Tokens(pipe[ReadEnd(c)] \o junk)
             num_files == Number(pipe[ReadEnd(c)] \o junk)
         IN  IF Len(tokens) > 2 * num_files
             THEN /\ receivedFiles' =
                       [receivedFiles EXCEPT
                          ![c] = [k \in 1..num_files |->
                                    [name |-> tokens[2 * k], content |-> tokens[2 * k + 1]]]]
                  /\ at' = [at EXCEPT ![c] = "write"]
             ELSE /\ at' = [at EXCEPT ![c] = "failed"]
                  /\ UNCHANGED receivedFiles
    /\ pipe' = [pipe EXCEPT ![ReadEnd(c)] = Nothing]
    /\ UNCHANGED <<parent, directory, first>>

\* One round of writeDirectory, or its end.
WriteFile(c) ==
    /\ at[c] = "write"
    /\ \/ /\ receivedFiles[c] # <<>>
          /\ LET file == Head(receivedFiles[c])
             IN  directory' =
                   [directory EXCEPT
                      ![c] = [f \in DOMAIN @ \cup {file.name} |->
                                IF f = file.name THEN file.content ELSE @[f]]]
          /\ receivedFiles' = [receivedFiles EXCEPT ![c] = Tail(@)]
          /\ UNCHANGED at
       \/ /\ receivedFiles[c] = <<>>
          /\ at' = [at EXCEPT ![c] = "done"]
          /\ UNCHANGED <<directory, receivedFiles>>
    /\ UNCHANGED <<parent, pipe, first>>

\* The file cannot be created: exit.
WriteFails(c) ==
    /\ at[c] = "write" /\ receivedFiles[c] # <<>>
    /\ at' = [at EXCEPT ![c] = "failed"]
    /\ UNCHANGED <<parent, directory, pipe, receivedFiles, first>>

Go(c) == Send(c) \/ Receive(c) \/ WriteFile(c)
Child(c) == Go(c) \/ ReadFails(c) \/ WriteFails(c)

-----------------------------------------------------------------------------
(* The parent                                                              *)

\* A pipe cannot be made: return 1.
PipeFails == /\ parent = "fork1"
             /\ parent' = "end"
             /\ UNCHANGED <<at, directory, pipe, receivedFiles, first>>

\* Only the result 0 is looked at: when a fork fails, main goes on.
Fork(c) == /\ parent = <<"fork1", "fork2">>[c]
           /\ parent' = <<"fork2", "wait">>[c]
           /\ \/ at' = [at EXCEPT ![c] = "start"]
              \/ UNCHANGED at
           /\ UNCHANGED <<directory, pipe, receivedFiles, first>>

Ended(c) == at[c] \in {"none", "mute", "failed", "done"}

\* wait returns -1 when there is no child any more.
Finish == /\ parent = "wait" /\ \A c \in Children : Ended(c)
          /\ parent' = "end"
          /\ UNCHANGED <<at, directory, pipe, receivedFiles, first>>

Parent == PipeFails \/ (\E c \in Children : Fork(c)) \/ Finish

Next == Parent \/ \E c \in Children : Child(c)

\* A process that can go on does; nothing has to fail.
Spec == /\ Init /\ [][Next]_vars
        /\ WF_vars(Parent) /\ \A c \in Children : WF_vars(Go(c))

-----------------------------------------------------------------------------
(* Properties                                                              *)

\* Every variable has a value of its type.
TypeOK == /\ parent \in {"fork1", "fork2", "wait", "end"}
          /\ at \in [Children -> {"none", "start", "sent", "write", "mute", "failed", "done"}]
          /\ \A c \in Children : \A file \in Range(receivedFiles[c]) :
               DOMAIN file = {"name", "content"}

\* Texts that the separator of the list cannot spoil.
Clean(chars) == chars # <<>> /\ ":" \notin Range(chars)
CleanStart == \A c \in Children : \A f \in DOMAIN first[c] : Clean(f) /\ Clean(first[c][f])

\* The content of f in d, or for one file, the last of the list, that and
\* what lay in the buffer (lines 92 and 136).
Copies(d, f, content) == \E junk \in Junk \cup {<<>>} : content = d[f] \o junk
SpoiledAtMostOnce(c) ==
    Cardinality({f \in DOMAIN first[Other(c)] :
                   directory[c][f] # first[Other(c)][f]}) <= 1

\* With clean texts a child that is done has exactly its own files and the
\* other's, and where both had one the other's; on the way, and wherever a
\* child fails, none is lost or has a mixed text (lines 43-55, 98-110).
DirectoriesMerge ==
    CleanStart =>
      \A c \in Children :
        LET theirs == first[Other(c)]
        IN  /\ DOMAIN first[c] \subseteq DOMAIN directory[c]
            /\ \A f \in DOMAIN directory[c] :
                 \/ f \in DOMAIN first[c] /\ directory[c][f] = first[c][f]
                 \/ f \in DOMAIN theirs /\ Copies(theirs, f, directory[c][f])
            /\ at[c] = "done" =>
                 /\ DOMAIN directory[c] = DOMAIN first[c] \cup DOMAIN theirs
                 /\ SpoiledAtMostOnce(c)

\* A child that was never started, or gave up before it wrote to its pipe.
Mute(c) == at[c] = "mute" \/ (at[c] = "none" /\ parent = "wait")

\* The program ends, unless a child is mute: then the other one waits for
\* its list, and the parent for the other one.
EndsUnlessMute == <>(parent = "end" \/ \E c \in Children : Mute(c))
=============================================================================
