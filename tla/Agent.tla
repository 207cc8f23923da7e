------------------------------- MODULE Agent -------------------------------
(***************************************************************************)
(* The agent (cmd/ai/main.go): a dialogue on standard input, queries sent  *)
(* to a language model, and the actions its replies ask for.  The lines    *)
(* the user types wait in standard input, and two places of the program    *)
(* take them from there: the prompt and the question for a permission.     *)
(*                                                                         *)
(* A line is one of the kinds the program tells apart; a command is its    *)
(* first word.  The response to a query is put together in result, and the *)
(* user sees it when the query has been processed.                         *)
(***************************************************************************)
EXTENDS Naturals, SequencesExt

CONSTANTS Commands, Safe, Blocked,  \* all commands, safeCommands, blockedCommands
          Offline,     \* the commands of processOffline
          MaxTyped,    \* bound: lines waiting to be read
          MaxReply,    \* bound: lines of one reply
          MaxActions   \* bound: lines of all replies together

ASSUME AgentAssumption ==
  /\ Safe \subseteq Commands /\ Blocked \subseteq Commands /\ Offline \subseteq Safe
  /\ "nothing" \notin Commands
  /\ MaxTyped \in Nat /\ MaxReply \in Nat /\ MaxActions \in Nat

VARIABLES key,      \* an API key is set
          oneShot,  \* the query came with the command line
          stdin,    \* lines typed and not read, each with what was on the screen
          closed,   \* standard input ends after them
          pc,       \* where the program is
          todo,     \* the lines of the reply not acted on yet
          asked,    \* history: the questions answered, with the lines taken as answers
          ran,      \* history: the commands run, each with the question that allowed it
          result,   \* the response so far: its questions, and the runs whose output is in it
          shown     \* history: the same of all responses printed

vars == <<key, oneShot, stdin, closed, pc, todo, asked, ran, result, shown>>
asks == <<key, oneShot, closed, asked, shown>>

Empty == [questions |-> 0, runs |-> {}]

\* "sair" and "exit"; "s", "sim" and "yes"; an empty line; any other line
Texts == {"exit", "yes", "blank", "other"}

\* A line with [EXECUTE], with [PERMISSION], or of plain text; "nothing" when no
\* command follows the mark
ReplyLines ==
  [kind : {"execute", "permission"}, cmd : Commands \cup {"nothing"}]
    \cup [kind : {"text"}, cmd : {"nothing"}]

Init ==
  /\ key \in BOOLEAN
  /\ oneShot \in BOOLEAN
  /\ pc = IF oneShot THEN "query" ELSE "prompt"
  /\ stdin = << >> /\ closed = FALSE
  /\ todo = << >> /\ asked = << >> /\ ran = << >>
  /\ result = Empty /\ shown = Empty

-----------------------------------------------------------------------------
(* Standard input *)

Type(text) ==
  /\ ~ closed /\ Len(stdin) < MaxTyped
  /\ stdin' = Append(stdin, [text |-> text, seen |-> shown.questions])
  /\ UNCHANGED <<key, oneShot, closed, pc, todo, asked, ran, result, shown>>

CloseInput ==
  /\ ~ closed
  /\ closed' = TRUE
  /\ UNCHANGED <<key, oneShot, stdin, pc, todo, asked, ran, result, shown>>

\* reader.ReadString: the next line, or an empty one, without a wait and with the
\* error dropped, at the end of input.
CanRead == stdin # << >> \/ closed
NextLine == IF stdin # << >> THEN Head(stdin)
                             ELSE [text |-> "blank", seen |-> shown.questions]
LineTaken == stdin' = IF stdin # << >> THEN Tail(stdin) ELSE stdin

-----------------------------------------------------------------------------
(* interactive and processQuery *)

Prompt ==
  /\ pc = "prompt" /\ CanRead
  /\ LineTaken
  /\ pc' = CASE NextLine.text = "blank" -> "prompt"
             [] NextLine.text = "exit"  -> "ended"
             [] OTHER                   -> "query"
  /\ UNCHANGED <<asks, todo, ran, result>>

\* getSystemContext runs free and "uptime -p", for the service and no one else.
ReadSystem ==
  /\ pc = "query"
  /\ pc' = "sensing"
  /\ UNCHANGED <<asks, stdin, todo, ran, result>>

\* Both have ended, with or without an error; with a key the query goes to the service.
SystemRead ==
  /\ pc = "sensing"
  /\ pc' = IF key THEN "calling" ELSE "offline"
  /\ UNCHANGED <<asks, stdin, todo, ran, result>>

\* Without one, processOffline runs at most one command of its own, and returns what
\* that printed.
QueryOffline ==
  /\ pc = "offline"
  /\ result' = Empty
  /\ \/ pc' = "printing" /\ UNCHANGED ran
     \/ /\ Len(ran) + Len(asked) < MaxActions
        /\ pc' = "running"
        /\ \E c \in Offline : ran' = Append(ran, [cmd |-> c, question |-> 0])
  /\ UNCHANGED <<asks, stdin, todo>>

\* The reply comes, and processAgentActions starts a result.
Reply(lines) ==
  /\ pc = "calling"
  /\ Len(ran) + Len(asked) + Len(lines) <= MaxActions
  /\ todo' = lines
  /\ result' = Empty
  /\ pc' = "acting"
  /\ UNCHANGED <<asks, stdin, ran>>

\* callGemini returns an error, which is the response; or, when the service answers
\* with an error of less than 200 bytes, panics at string(respBody)[:200].
CallFails ==
  /\ pc = "calling"
  /\ pc' \in {"printing", "died"}
  /\ result' = Empty
  /\ UNCHANGED <<asks, stdin, todo, ran>>

\* processQuery has returned: only now is the result, questions included, printed.
Respond ==
  /\ pc = "printing"
  /\ shown' = [questions |-> shown.questions + result.questions,
               runs |-> shown.runs \cup result.runs]
  /\ pc' = IF oneShot THEN "ended" ELSE "prompt"
  /\ UNCHANGED <<key, oneShot, stdin, closed, todo, asked, ran, result>>

-----------------------------------------------------------------------------
(* processAgentActions and executeCommand *)

\* A mutant: the list of blocked commands is all that is refused
Refused_OnlyBlocked(cmd, forced) == cmd = "nothing" \/ (cmd \in Blocked /\ ~ forced)

Refused(cmd, forced) ==
  \/ cmd = "nothing"
  \/ cmd \in Blocked /\ ~ forced
  \/ cmd \notin Safe /\ ~ forced

\* A mutant: a command that is refused becomes a question
Execute_QuestionInstead(cmd, q) ==
  IF Refused(cmd, q # 0)
  THEN pc' = "asking" /\ UNCHANGED ran
  ELSE pc' = "running" /\ ran' = Append(ran, [cmd |-> cmd, question |-> q])

\* executeCommand of question q, or of no question when q = 0: what is refused says so
\* in the result, which holds what it held before.
Execute(cmd, q) ==
  IF Refused(cmd, q # 0)
  THEN pc' = "acting" /\ UNCHANGED ran
  ELSE pc' = "running" /\ ran' = Append(ran, [cmd |-> cmd, question |-> q])

\* The next line of the reply, or the end of it.  The question for a permission is
\* written into the result, and the answer read.
Act ==
  /\ pc = "acting"
  /\ \/ todo = << >> /\ pc' = "printing" /\ UNCHANGED <<todo, ran, result>>
     \/ /\ todo # << >> /\ Head(todo).kind = "text"
        /\ todo' = Tail(todo)
        /\ UNCHANGED <<pc, ran, result>>
     \/ /\ todo # << >> /\ Head(todo).kind = "execute"
        /\ todo' = Tail(todo)
        /\ Execute(Head(todo).cmd, 0)
        /\ UNCHANGED result
     \/ /\ todo # << >> /\ Head(todo).kind = "permission"
        /\ pc' = "asking"
        /\ result' = [result EXCEPT !.questions = @ + 1]
        /\ UNCHANGED <<todo, ran>>
  /\ UNCHANGED <<asks, stdin>>

Agrees(text) == text = "yes"

\* A mutant: an answer that is neither yes nor no is asked for again
Answer_AskedAgain ==
  /\ pc = "asking" /\ CanRead
  /\ LineTaken
  /\ IF NextLine.text = "blank"
     THEN UNCHANGED <<pc, todo, asked, ran>>
     ELSE /\ asked' = Append(asked, [cmd |-> Head(todo).cmd, answer |-> NextLine])
          /\ todo' = Tail(todo)
          /\ IF Agrees(NextLine.text) THEN Execute(Head(todo).cmd, Len(asked) + 1)
                                      ELSE pc' = "acting" /\ UNCHANGED ran
  /\ UNCHANGED <<key, oneShot, closed, result, shown>>

\* The question is part of the result by now, and the next line is its answer.
Answer ==
  /\ pc = "asking" /\ CanRead
  /\ LineTaken
  /\ asked' = Append(asked, [cmd |-> Head(todo).cmd, answer |-> NextLine])
  /\ todo' = Tail(todo)
  /\ IF Agrees(NextLine.text) THEN Execute(Head(todo).cmd, Len(asked) + 1)
                              ELSE pc' = "acting" /\ UNCHANGED ran
  /\ UNCHANGED <<key, oneShot, closed, result, shown>>

\* A mutant: the output is assigned to the result, and not added to it
CommandEnds_Assigned ==
  /\ pc = "running"
  /\ result' = [result EXCEPT !.runs = {Len(ran)}]
  /\ pc' = "acting"
  /\ UNCHANGED <<asks, stdin, todo, ran>>

\* exec's CombinedOutput returns, and what the command said, or its error, is added to
\* the result; a command such as "ping host" never comes here.
CommandEnds ==
  /\ pc = "running"
  /\ result' = [result EXCEPT !.runs = @ \cup {Len(ran)}]
  /\ pc' = "acting"
  /\ UNCHANGED <<asks, stdin, todo, ran>>

Stopped == pc \in {"ended", "died"} /\ UNCHANGED vars

-----------------------------------------------------------------------------

AgentStep == Prompt \/ ReadSystem \/ QueryOffline \/ Act \/ Answer \/ Respond

Next ==
  \/ AgentStep
  \/ \E lines \in BoundedSeq(ReplyLines, MaxReply) : Reply(lines)
  \/ SystemRead \/ CallFails \/ CommandEnds
  \/ \E text \in Texts : Type(text)
  \/ CloseInput
  \/ Stopped

Spec == Init /\ [][Next]_vars

\* The program goes on when it can.  Nothing is assumed of the user; nor of the
\* service and the commands, for neither has a time limit.
FairSpec == Spec /\ WF_vars(AgentStep)

-----------------------------------------------------------------------------
(* Properties *)

Waits == {"prompt", "query", "sensing", "calling", "offline", "ended", "died"}
Places == Waits \cup {"acting", "running", "asking", "printing"}
Answers == [text : Texts, seen : Nat]

TypeOK ==
  /\ key \in BOOLEAN /\ oneShot \in BOOLEAN /\ closed \in BOOLEAN
  /\ stdin \in Seq(Answers)
  /\ pc \in Places
  /\ todo \in Seq(ReplyLines)
  /\ asked \in Seq([cmd : Commands \cup {"nothing"}, answer : Answers])
  /\ ran \in Seq([cmd : Commands, question : Nat])
  /\ \A r \in {result, shown} : r \in [questions : Nat, runs : SUBSET Nat]
  /\ pc = "asking" => todo # << >> /\ Head(todo).kind = "permission"

\* "I ask permission before making changes" (docs/05-AI_SYSOPS.md:69): a command
\* that is not on the safe list runs only for a question about that very command,
\* to which the line read in reply was a yes; and one yes runs one command, however
\* the lines of a reply and the lines typed ahead are mixed.
ChangesAreConsented ==
  \A i \in DOMAIN ran : ran[i].cmd \notin Safe =>
    LET q == ran[i].question
    IN  /\ q \in DOMAIN asked
        /\ asked[q].cmd = ran[i].cmd
        /\ asked[q].answer.text = "yes"
        /\ \A j \in DOMAIN ran : ran[j].question = q => j = i

\* When the agent waits for a query, works out the next response or has stopped, the
\* user has been given what each command of the dialogue said, and each question:
\* neither a line refused, a question declined, the end of input in the middle of a
\* reply nor the panic of a later call loses any (main.go:146, 174-218).  (free and
\* uptime, which every query runs for the service, are reported to nobody.)
RunsAreReported ==
  pc \in Waits => DOMAIN ran \subseteq shown.runs /\ shown.questions = Len(asked)

\* The four places where the program waits without a limit: for free or uptime (lines
\* 264, 337), for the service (288), for a command (241, 320-329), and for a line.
WaitsForOthers ==
  pc \in {"sensing", "calling", "running"} \/ (pc = "asking" /\ ~ CanRead)

\* Every query comes to its answer, unless from some time on the program waits in one
\* of these places.  In particular the end of input ends a question (main.go:198).
QueriesAnswered ==
  pc = "query" ~> (pc \in {"prompt", "ended", "died"} \/ []WaitsForOthers)

-----------------------------------------------------------------------------
(* What comments and documents say of the agent *)

\* "Ask for permission" (main.go:197): a line that allows a command was typed when
\* the question was on the screen.
AskedBeforeAnswered ==
  \A i \in DOMAIN ran : ran[i].question # 0 =>
    asked[ran[i].question].answer.seen >= ran[i].question
=============================================================================
