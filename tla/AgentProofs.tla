---------------------------- MODULE AgentProofs ----------------------------
(***************************************************************************)
(* Proofs, for all commands and replies of any length, of the safety       *)
(* properties of the agent.                                                *)
(***************************************************************************)
EXTENDS Agent, SequenceTheorems, TLAPS

Questions == [cmd : Commands \cup {"nothing"}, answer : Answers]
Runs == [cmd : Commands, question : Nat]

-----------------------------------------------------------------------------
(* Types *)

LEMMA BoundedSeqIsSeq ==
  ASSUME NEW S, NEW n \in Nat
  PROVE  BoundedSeq(S, n) \subseteq Seq(S)
  BY SeqDef DEF BoundedSeq, SeqOf

\* A line taken from standard input is a line.
LEMMA LineType ==
  ASSUME TypeOK, LineTaken
  PROVE  NextLine \in Answers /\ stdin' \in Seq(Answers)
  <1>1. [text |-> "blank", seen |-> shown.questions] \in Answers
    BY DEF TypeOK, Answers, Texts
  <1>2. CASE stdin = << >>
    BY <1>1, <1>2 DEF TypeOK, NextLine, LineTaken
  <1>3. CASE stdin # << >>
    BY <1>3, HeadTailProperties DEF TypeOK, NextLine, LineTaken
  <1> QED BY <1>2, <1>3

\* What is run is a command.
LEMMA ExecuteType ==
  ASSUME TypeOK, NEW cmd \in Commands \cup {"nothing"}, NEW q \in Nat, Execute(cmd, q)
  PROVE  ran' \in Seq(Runs) /\ pc' \in {"acting", "running"}
  <1>1. CASE Refused(cmd, q # 0)
    BY <1>1 DEF Execute, TypeOK, Runs
  <1>2. CASE ~ Refused(cmd, q # 0)
    <2>1. [cmd |-> cmd, question |-> q] \in Runs
      BY <1>2 DEF Refused, Runs
    <2>2. ran \in Seq(Runs)
      BY DEF TypeOK, Runs
    <2>3. pc' = "running" /\ ran' = Append(ran, [cmd |-> cmd, question |-> q])
      BY <1>2 DEF Execute
    <2> QED BY <2>1, <2>2, <2>3, AppendProperties
  <1> QED BY <1>1, <1>2

\* The lines of a reply that are left after the first
LEMMA ReplyRest ==
  ASSUME TypeOK, todo # << >>
  PROVE  /\ Tail(todo) \in Seq(ReplyLines)
         /\ Head(todo) \in ReplyLines
         /\ Head(todo).cmd \in Commands \cup {"nothing"}
  <1>1. Head(todo) \in ReplyLines /\ Tail(todo) \in Seq(ReplyLines)
    BY HeadTailProperties DEF TypeOK
  <1> QED BY <1>1 DEF ReplyLines

LEMMA InitTyped == Init => TypeOK
  <1> SUFFICES ASSUME Init PROVE TypeOK
    OBVIOUS
  <1>1. /\ stdin \in Seq(Answers) /\ todo \in Seq(ReplyLines)
        /\ asked \in Seq(Questions) /\ ran \in Seq(Runs)
    BY EmptySeq DEF Init
  <1>2. pc \in {"prompt", "query"}
    BY DEF Init
  <1>3. result \in [questions : Nat, runs : SUBSET Nat] /\ shown = result
    BY DEF Init, Empty
  <1> QED BY <1>1, <1>2, <1>3 DEF Init, TypeOK, Places, Waits, Questions, Runs

LEMMA ActTyped == ASSUME TypeOK, Act PROVE TypeOK'
  <1> USE DEF asks
  <1>1. CASE todo = << >> /\ pc' = "printing" /\ UNCHANGED <<todo, ran, result>>
    BY <1>1 DEF TypeOK, Act, Places
  <1>2. CASE /\ todo # << >> /\ Head(todo).kind = "text"
             /\ todo' = Tail(todo)
             /\ UNCHANGED <<pc, ran, result>>
    BY <1>2, ReplyRest DEF TypeOK, Act, Places
  <1>3. CASE /\ todo # << >> /\ Head(todo).kind = "execute"
             /\ todo' = Tail(todo)
             /\ Execute(Head(todo).cmd, 0)
             /\ UNCHANGED result
    BY <1>3, ReplyRest, ExecuteType DEF TypeOK, Act, Places, Runs
  <1>4. CASE /\ todo # << >> /\ Head(todo).kind = "permission"
             /\ pc' = "asking"
             /\ result' = [result EXCEPT !.questions = @ + 1]
             /\ UNCHANGED <<todo, ran>>
    BY <1>4 DEF TypeOK, Act, Places
  <1> QED BY <1>1, <1>2, <1>3, <1>4 DEF Act

LEMMA AnswerTyped == ASSUME TypeOK, Answer PROVE TypeOK'
  <1>1. todo # << >> /\ NextLine \in Answers /\ stdin' \in Seq(Answers)
    BY LineType DEF TypeOK, Answer
  <1>2. todo' \in Seq(ReplyLines)
    BY <1>1, ReplyRest DEF Answer
  <1>3. asked' \in Seq(Questions)
    <2>1. [cmd |-> Head(todo).cmd, answer |-> NextLine] \in Questions
      BY <1>1, ReplyRest DEF Questions
    <2> QED BY <2>1, AppendProperties DEF Answer, TypeOK, Questions
  <1>4. ran' \in Seq(Runs) /\ pc' \in {"acting", "running"}
    <2>1. Len(asked) + 1 \in Nat
      BY LenProperties DEF TypeOK
    <2>2. CASE Agrees(NextLine.text)
      BY <1>1, <2>1, <2>2, ReplyRest, ExecuteType DEF Answer
    <2>3. CASE ~ Agrees(NextLine.text)
      BY <2>3 DEF Answer, TypeOK, Runs
    <2> QED BY <2>2, <2>3
  <1> QED BY <1>1, <1>2, <1>3, <1>4 DEF Answer, TypeOK, Questions, Runs, Places

LEMMA StepTyped == TypeOK /\ [Next]_vars => TypeOK'
  <1> SUFFICES ASSUME TypeOK, [Next]_vars PROVE TypeOK'
    OBVIOUS
  <1> USE DEF asks
  <1>1. CASE Prompt
    <2>1. stdin' \in Seq(Answers)
      BY <1>1, LineType DEF Prompt
    <2> QED BY <1>1, <2>1 DEF Prompt, TypeOK, Places, Waits
  <1>2. CASE QueryOffline
    <2>1. ran' \in Seq(Runs)
      <3>1. ASSUME NEW c \in Offline, ran' = Append(ran, [cmd |-> c, question |-> 0])
            PROVE  ran' \in Seq(Runs)
        <4>1. [cmd |-> c, question |-> 0] \in Runs
          BY AgentAssumption DEF Runs
        <4> QED BY <3>1, <4>1, AppendProperties DEF TypeOK, Runs
      <3> QED BY <1>2, <3>1 DEF QueryOffline, TypeOK, Runs
    <2> QED BY <1>2, <2>1 DEF QueryOffline, TypeOK, Places, Runs, Empty
  <1>3. CASE Act
    BY <1>3, ActTyped
  <1>4. CASE Answer
    BY <1>4, AnswerTyped
  <1>5. CASE Respond
    BY <1>5 DEF Respond, TypeOK, Places, Waits
  <1>6. ASSUME NEW lines \in BoundedSeq(ReplyLines, MaxReply), Reply(lines)
        PROVE  TypeOK'
    BY <1>6, BoundedSeqIsSeq, AgentAssumption DEF Reply, TypeOK, Places, Empty
  <1>7. CASE CallFails
    BY <1>7 DEF CallFails, TypeOK, Places, Waits, Empty
  <1>8. CASE ReadSystem \/ SystemRead
    BY <1>8 DEF ReadSystem, SystemRead, TypeOK, Places, Waits
  <1>9. ASSUME NEW text \in Texts, Type(text)
        PROVE  TypeOK'
    <2>1. [text |-> text, seen |-> shown.questions] \in Answers
      BY DEF TypeOK, Answers
    <2> QED BY <1>9, <2>1, AppendProperties DEF Type, TypeOK, Places
  <1>10. CASE CloseInput
    BY <1>10 DEF CloseInput, TypeOK
  <1>11. CASE CommandEnds
    BY <1>11, LenProperties DEF CommandEnds, TypeOK, Places
  <1>12. CASE UNCHANGED vars
    BY <1>12 DEF vars, TypeOK
  <1> QED
    BY <1>1, <1>2, <1>3, <1>4, <1>5, <1>6, <1>7, <1>8, <1>9, <1>10, <1>11, <1>12
       DEF Next, AgentStep, Stopped

\* Every state of the agent is well-formed, and while it waits for an answer the line
\* it asks about is at the head of the reply (main.go:190).
THEOREM AgentTypeCorrect == Spec => []TypeOK
  BY InitTyped, StepTyped, PTL DEF Spec

-----------------------------------------------------------------------------
(* Consent *)

\* Questions are numbered in the order they are answered, and no run names a question
\* that is still to come: the next yes is for a run of its own.
QuestionsPast == \A i \in DOMAIN ran : ran[i].question <= Len(asked)

Consented == ChangesAreConsented /\ QuestionsPast

\* A run without a question is of a safe command.
LEMMA SafeRunConsented ==
  ASSUME TypeOK, Consented, NEW c \in Safe,
         ran' = Append(ran, [cmd |-> c, question |-> 0]), UNCHANGED asked
  PROVE  Consented'
  <1>1. c \in Commands
    BY AgentAssumption
  <1>2. /\ DOMAIN ran' = 1 .. Len(ran) + 1 /\ DOMAIN ran = 1 .. Len(ran)
        /\ \A i \in 1 .. Len(ran) : ran'[i] = ran[i]
        /\ ran'[Len(ran) + 1] = [cmd |-> c, question |-> 0]
        /\ Len(ran) \in Nat /\ Len(asked) \in Nat
    BY AppendProperties, LenProperties DEF TypeOK
  <1>3. QuestionsPast'
    BY <1>2 DEF Consented, QuestionsPast
  <1>4. ASSUME NEW i \in DOMAIN ran', ran'[i].cmd \notin Safe
        PROVE  /\ i \in DOMAIN ran /\ ran'[i] = ran[i]
               /\ ran[i].question \in DOMAIN asked
               /\ ran[i].question # 0
    <2>1. i \in DOMAIN ran /\ ran'[i] = ran[i]
      BY <1>2, <1>4
    <2>2. ran[i].question \in DOMAIN asked
      BY <1>4, <2>1 DEF Consented, ChangesAreConsented
    <2>3. DOMAIN asked = 1 .. Len(asked)
      BY LenProperties DEF TypeOK
    <2> QED BY <2>1, <2>2, <2>3
  <1>5. ChangesAreConsented'
    BY <1>2, <1>4 DEF Consented, ChangesAreConsented
  <1> QED BY <1>3, <1>5 DEF Consented

\* One more question is answered.
LEMMA AnswerConsented ==
  ASSUME TypeOK, Consented, Answer PROVE Consented'
  <1> DEFINE n == Len(asked) + 1
             cmd == Head(todo).cmd
  <1>1. /\ DOMAIN asked' = 1 .. n /\ DOMAIN asked = 1 .. Len(asked)
        /\ \A q \in 1 .. Len(asked) : asked'[q] = asked[q]
        /\ asked'[n] = [cmd |-> cmd, answer |-> NextLine]
        /\ Len(asked) \in Nat /\ Len(asked') = n
    BY AppendProperties, LenProperties DEF TypeOK, Answer
  <1>2. /\ DOMAIN ran = 1 .. Len(ran) /\ Len(ran) \in Nat
        /\ \A i \in DOMAIN ran : ran[i].question \in Nat /\ ran[i].question < n
    <2>1. ran \in Seq(Runs)
      BY DEF TypeOK, Runs
    <2>2. DOMAIN ran = 1 .. Len(ran) /\ Len(ran) \in Nat
      BY <2>1, LenProperties
    <2>3. ASSUME NEW i \in DOMAIN ran PROVE ran[i].question \in Nat
      <3>1. ran[i] \in Runs
        BY <2>1, <2>2, <2>3, ElementOfSeq
      <3> QED BY <3>1 DEF Runs
    <2> QED BY <1>1, <2>2, <2>3 DEF Consented, QuestionsPast
  <1>3. CASE UNCHANGED ran
    BY <1>1, <1>2, <1>3 DEF Consented, ChangesAreConsented, QuestionsPast
  <1>4. CASE Agrees(NextLine.text) /\ ran' = Append(ran, [cmd |-> cmd, question |-> n])
    <2>1. /\ DOMAIN ran' = 1 .. Len(ran) + 1
          /\ \A i \in 1 .. Len(ran) : ran'[i] = ran[i]
          /\ ran'[Len(ran) + 1] = [cmd |-> cmd, question |-> n]
      BY <1>4, AppendProperties, LenProperties DEF TypeOK
    <2>2. QuestionsPast'
      BY <1>1, <1>2, <2>1 DEF QuestionsPast
    <2>3. ASSUME NEW i \in DOMAIN ran', ran'[i].cmd \notin Safe, i \in DOMAIN ran
          PROVE  LET q == ran'[i].question
                 IN  /\ q \in DOMAIN asked'
                     /\ asked'[q].cmd = ran'[i].cmd
                     /\ asked'[q].answer.text = "yes"
                     /\ \A j \in DOMAIN ran' : ran'[j].question = q => j = i
      BY <1>1, <1>2, <2>1, <2>3 DEF Consented, ChangesAreConsented
    <2>4. ASSUME NEW i \in DOMAIN ran', i \notin DOMAIN ran
          PROVE  LET q == ran'[i].question
                 IN  /\ q \in DOMAIN asked'
                     /\ asked'[q].cmd = ran'[i].cmd
                     /\ asked'[q].answer.text = "yes"
                     /\ \A j \in DOMAIN ran' : ran'[j].question = q => j = i
      BY <1>1, <1>2, <1>4, <2>1, <2>4 DEF Agrees
    <2>5. ChangesAreConsented'
      BY <2>3, <2>4 DEF ChangesAreConsented
    <2> QED BY <2>2, <2>5 DEF Consented
  <1> QED BY <1>3, <1>4 DEF Answer, Execute

LEMMA StepConsented == TypeOK /\ Consented /\ [Next]_vars => Consented'
  <1> SUFFICES ASSUME TypeOK, Consented, [Next]_vars PROVE Consented'
    OBVIOUS
  <1>1. ASSUME UNCHANGED <<asked, ran>> PROVE Consented'
    BY <1>1 DEF Consented, ChangesAreConsented, QuestionsPast
  <1>2. CASE QueryOffline
    <2>1. ASSUME NEW c \in Offline, ran' = Append(ran, [cmd |-> c, question |-> 0])
          PROVE  Consented'
      BY <1>2, <2>1, SafeRunConsented, AgentAssumption DEF QueryOffline, asks
    <2> QED BY <1>1, <1>2, <2>1 DEF QueryOffline, asks
  <1>3. CASE Act
    <2>1. CASE UNCHANGED ran
      BY <1>1, <1>3, <2>1 DEF Act, asks
    <2>2. CASE ran' # ran
      <3>1. /\ ran' = Append(ran, [cmd |-> Head(todo).cmd, question |-> 0])
            /\ ~ Refused(Head(todo).cmd, FALSE)
        BY <1>3, <2>2 DEF Act, Execute
      <3> QED BY <1>3, <3>1, SafeRunConsented DEF Act, Refused, asks
    <2> QED BY <2>1, <2>2
  <1>4. CASE Answer
    BY <1>4, AnswerConsented
  <1>5. CASE Prompt \/ ReadSystem \/ SystemRead \/ Respond \/ CallFails \/ CommandEnds
             \/ CloseInput \/ UNCHANGED vars
    BY <1>1, <1>5 DEF Prompt, ReadSystem, SystemRead, Respond, CallFails, CommandEnds,
                      CloseInput, vars, asks
  <1>6. ASSUME NEW lines, Reply(lines) PROVE Consented'
    BY <1>1, <1>6 DEF Reply, asks
  <1>7. ASSUME NEW text, Type(text) PROVE Consented'
    BY <1>1, <1>7 DEF Type
  <1> QED
    BY <1>2, <1>3, <1>4, <1>5, <1>6, <1>7 DEF Next, AgentStep, Stopped

\* Whatever the lists of commands, the replies and the lines typed: what is not on the
\* safe list runs for a yes of its own (main.go:201, 231, 236).
THEOREM AgentAsksFirst == Spec => []ChangesAreConsented
  <1>1. Init => Consented
    BY DEF Init, Consented, ChangesAreConsented, QuestionsPast
  <1>2. Consented => ChangesAreConsented
    BY DEF Consented
  <1> QED BY <1>1, <1>2, StepConsented, AgentTypeCorrect, PTL DEF Spec

-----------------------------------------------------------------------------
(* Reports *)

\* While a response is put together, each question is in it or was printed before, and
\* so is the output of each command that has ended.
Building ==
  /\ shown.questions + result.questions =
       IF pc = "asking" THEN Len(asked) + 1 ELSE Len(asked)
  /\ DOMAIN ran \subseteq shown.runs \cup result.runs
                          \cup (IF pc = "running" THEN {Len(ran)} ELSE {})

Told == RunsAreReported /\ (pc \notin Waits => Building)

\* The result grows by the question before the answer to it is read, and by the output
\* when the command ends.
LEMMA ActTold == ASSUME TypeOK, Told, Act PROVE Told'
  <1> USE DEF asks
  <1>1. Building /\ pc = "acting"
    BY DEF Act, Told, Waits
  <1>2. CASE UNCHANGED ran
    <2>1. CASE UNCHANGED result /\ pc' \in {"acting", "printing"}
      BY <1>1, <1>2, <2>1 DEF Act, Building, Told, RunsAreReported, Waits
    <2>2. CASE pc' = "asking" /\ result' = [result EXCEPT !.questions = @ + 1]
      <3>1. /\ result'.questions = result.questions + 1 /\ result'.runs = result.runs
            /\ result.questions \in Nat /\ shown.questions \in Nat
        BY <2>2 DEF TypeOK
      <3>2. shown'.questions + result'.questions = Len(asked') + 1
        BY <1>1, <3>1 DEF Act, Building
      <3>3. DOMAIN ran' \subseteq shown'.runs \cup result'.runs
        BY <1>1, <1>2, <3>1 DEF Act, Building
      <3> QED BY <2>2, <3>2, <3>3 DEF Building, Told, RunsAreReported, Waits
    <2>3. ~ (ran' = Append(ran, [cmd |-> Head(todo).cmd, question |-> 0]))
      <3>1. Len(Append(ran, [cmd |-> Head(todo).cmd, question |-> 0])) # Len(ran)
        BY AppendProperties, LenProperties DEF TypeOK
      <3> QED BY <1>2, <3>1
    <2> QED BY <1>1, <1>2, <2>1, <2>2, <2>3 DEF Act, Execute
  <1>3. CASE ran' # ran
    <2>1. PICK r : ran' = Append(ran, r)
      BY <1>3 DEF Act, Execute
    <2>2. DOMAIN ran' = DOMAIN ran \cup {Len(ran')}
      BY <2>1, AppendProperties, LenProperties DEF TypeOK
    <2>3. pc' = "running" /\ UNCHANGED <<result, asked, shown>>
      BY <1>3 DEF Act, Execute
    <2> QED BY <1>1, <2>2, <2>3 DEF Building, Told, RunsAreReported, Waits
  <1> QED BY <1>2, <1>3

LEMMA AnswerTold == ASSUME TypeOK, Told, Answer PROVE Told'
  <1>1. Building /\ pc = "asking"
    BY DEF Answer, Told, Waits
  <1>2. Len(asked') = Len(asked) + 1
    BY AppendProperties DEF Answer, TypeOK
  <1>3. CASE UNCHANGED ran
    BY <1>1, <1>2, <1>3 DEF Answer, Execute, Building, Told, RunsAreReported, Waits
  <1>4. CASE ran' # ran
    <2>1. PICK r : ran' = Append(ran, r)
      BY <1>4 DEF Answer, Execute
    <2>2. DOMAIN ran' = DOMAIN ran \cup {Len(ran')}
      BY <2>1, AppendProperties, LenProperties DEF TypeOK
    <2>3. pc' = "running" /\ UNCHANGED <<result, shown>>
      BY <1>4 DEF Answer, Execute
    <2> QED BY <1>1, <1>2, <2>2, <2>3 DEF Building, Told, RunsAreReported, Waits
  <1> QED BY <1>3, <1>4

\* processOffline answers with the output of its one command.
LEMMA OfflineTold == ASSUME TypeOK, Told, QueryOffline PROVE Told'
  <1> USE DEF asks
  <1>1. DOMAIN ran \subseteq shown.runs /\ shown.questions = Len(asked) /\ Len(asked) \in Nat
    BY LenProperties DEF QueryOffline, Told, RunsAreReported, Waits, TypeOK
  <1>2. CASE UNCHANGED ran /\ pc' = "printing"
    BY <1>1, <1>2 DEF QueryOffline, Building, Told, RunsAreReported, Waits, Empty
  <1>3. CASE ~ (UNCHANGED ran /\ pc' = "printing")
    <2>1. PICK r : ran' = Append(ran, r)
      BY <1>3 DEF QueryOffline
    <2>2. DOMAIN ran' = DOMAIN ran \cup {Len(ran')}
      BY <2>1, AppendProperties, LenProperties DEF TypeOK
    <2>3. pc' = "running" /\ UNCHANGED <<asked, shown>> /\ result' = Empty
      BY <1>3 DEF QueryOffline
    <2>4. shown'.questions + result'.questions = Len(asked')
      BY <1>1, <2>3 DEF Empty
    <2>5. DOMAIN ran' \subseteq shown'.runs \cup result'.runs \cup {Len(ran')}
      BY <1>1, <2>2, <2>3
    <2> QED BY <2>3, <2>4, <2>5 DEF Building, Told, RunsAreReported, Waits
  <1> QED BY <1>2, <1>3

LEMMA StepTold == TypeOK /\ Told /\ [Next]_vars => Told'
  <1> SUFFICES ASSUME TypeOK, Told, [Next]_vars PROVE Told'
    OBVIOUS
  <1> USE DEF asks
  <1>1. CASE Act
    BY <1>1, ActTold
  <1>2. CASE Answer
    BY <1>2, AnswerTold
  <1>3. CASE QueryOffline
    BY <1>3, OfflineTold
  <1>4. CASE Prompt \/ ReadSystem \/ SystemRead
    BY <1>4 DEF Prompt, ReadSystem, SystemRead, Told, RunsAreReported, Waits
  <1>5. CASE Respond
    BY <1>5 DEF Respond, Told, Building, RunsAreReported, Waits, TypeOK
  <1>6. CASE CommandEnds
    <2>1. result'.questions = result.questions /\ result'.runs = result.runs \cup {Len(ran)}
      BY <1>6 DEF CommandEnds, TypeOK
    <2> QED BY <1>6, <2>1 DEF CommandEnds, Told, Building, RunsAreReported, Waits
  <1>7. CASE CallFails \/ \E lines \in BoundedSeq(ReplyLines, MaxReply) : Reply(lines)
    <2>1. DOMAIN ran \subseteq shown.runs /\ shown.questions = Len(asked) /\ Len(asked) \in Nat
      BY <1>7, LenProperties DEF CallFails, Reply, Told, RunsAreReported, Waits, TypeOK
    <2> QED
      BY <1>7, <2>1 DEF CallFails, Reply, Told, Building, RunsAreReported, Waits, Empty
  <1>8. CASE CloseInput \/ (\E text \in Texts : Type(text)) \/ UNCHANGED vars
    BY <1>8 DEF CloseInput, Type, vars, Told, Building, RunsAreReported, Waits
  <1> QED
    BY <1>1, <1>2, <1>3, <1>4, <1>5, <1>6, <1>7, <1>8 DEF Next, AgentStep, Stopped

\* Whatever the replies ask for, in whichever order, and wherever a command is refused,
\* a question declined or a call fails: when the agent is back at its prompt, or has
\* ended, each command's output and each question has been printed (main.go:174-218).
THEOREM AgentReportsAll == Spec => []RunsAreReported
  <1>1. Init => Told
    BY DEF Init, Told, RunsAreReported, Waits, Empty
  <1>2. Told => RunsAreReported
    BY DEF Told
  <1> QED BY <1>1, <1>2, StepTold, AgentTypeCorrect, PTL DEF Spec
=============================================================================
