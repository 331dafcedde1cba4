----------------------------- MODULE AndroidApp -----------------------------
(***************************************************************************)
(* The Android application (MainActivity.java) with the agents it starts   *)
(* and talks to: module AgentService, which module AndroidAgent implements. *)
(*                                                                         *)
(* The user interface runs in one thread, sleeps in startServer() included; *)
(* every command is sent by a thread of its own.  Threads that ask "noop"  *)
(* share one socket and hand what they learn to the user interface as      *)
(* messages.  The clock is not modelled: a sleep or a timeout ends at any  *)
(* time, before or after what it waits for.                                *)
(***************************************************************************)
EXTENDS AgentService, FiniteSets

CONSTANTS AnswerLimit, \* answers in the socket of the application
          Askers,      \* threads of sendNoop() that can be under way at a time
          QuitLimit    \* threads of sendQuit() that can

ASSUME AppLimitsAssumption == AnswerLimit \in Nat \ {0} /\ QuitLimit \in Nat \ {0}

VARIABLES
  box,       \* cbEnable is checked
  activity,  \* the activity, and its dialog "Quit the program and the proxy too?"
  ui,        \* where the user interface thread is in startServer()
  child,     \* the process the last startServer() made
  quits,     \* threads about to send "quit"
  answers,   \* answers to noop on their way
  asker,     \* where each thread of sendNoop() is
  messages   \* messages to the Handler

ownVars == <<box, activity, ui, child, quits, asker, messages>>
allVars == <<serviceVars, ownVars, answers>>

AppTypeOK ==
  /\ box \in BOOLEAN
  /\ activity \in {"shown", "asked", "confirmed", "closed"}
  /\ ui \in {"idle", "check", "sleep", "exec", "look"}
  /\ child \in Agents \cup {"none"}
  /\ quits \in 0..QuitLimit
  /\ answers \in 0..AnswerLimit
  /\ asker \in [Askers -> {"idle", "send", "receive"}]
  /\ messages \in Seq(BOOLEAN) /\ Len(messages) <= Cardinality(Askers)

AppInit ==
  /\ ServiceInit
  /\ box = FALSE /\ activity = "closed"
  /\ ui = "idle" /\ child = "none"
  /\ quits = 0 /\ answers = 0
  /\ asker = [n \in Askers |-> "idle"]
  /\ messages = <<>>

-----------------------------------------------------------------------------
(* The check box.                                                          *)

NewQuit == quits < QuitLimit /\ quits' = quits + 1

\* onClick(): the box has changed before it is called.
Click ==
  /\ activity = "shown" /\ ui = "idle"
  /\ box' = ~box
  /\ \/ box' /\ ui' = "check" /\ UNCHANGED quits
     \/ ~box' /\ NewQuit /\ UNCHANGED ui
  /\ UNCHANGED <<serviceVars, answers, activity, child, asker, messages>>

\* startServer(): checkProcessAlive() also finds the su that runs an agent.
CheckAlive ==
  /\ ui = "check"
  /\ IF \E a \in Agents : Alive(a) THEN NewQuit /\ ui' = "sleep"
     ELSE ui' = "exec" /\ UNCHANGED quits
  /\ UNCHANGED <<serviceVars, answers, box, activity, child, asker, messages>>

Slept ==
  /\ ui = "sleep" /\ ui' = "exec"
  /\ UNCHANGED <<serviceVars, answers, box, activity, child, quits, asker, messages>>

\* Runtime.exec(); a third process waits until a name is free, which bounds the model.
Exec ==
  /\ ui = "exec" /\ ui' = "look"
  /\ \E a \in Agents : Launch(a) /\ child' = a
  /\ UNCHANGED <<answers, box, activity, quits, asker, messages>>

\* exitValue() throws as long as the child runs.
Look ==
  /\ ui = "look" /\ ui' = "idle"
  /\ box' = (box /\ (Alive(child) \/ \E a \in Agents : Alive(a)))
  /\ UNCHANGED <<serviceVars, answers, activity, child, quits, asker, messages>>

-----------------------------------------------------------------------------
(* sendQuit(), sendNoop() and the handler.                                 *)

\* Faulty variant: the command is sent only if the box is still unchecked.
SendQuitLate ==
  /\ quits > 0 /\ quits' = quits - 1
  /\ IF box THEN UNCHANGED serviceVars ELSE Send("quit")
  /\ UNCHANGED <<answers, box, activity, ui, child, asker, messages>>

SendQuit ==
  /\ quits > 0 /\ quits' = quits - 1
  /\ Send("quit")
  /\ UNCHANGED <<answers, box, activity, ui, child, asker, messages>>

\* onStart(), when the activity is shown again.
OnStart(n) ==
  /\ activity = "shown" /\ ui = "idle"
  /\ asker[n] = "idle" /\ asker' = [asker EXCEPT ![n] = "send"]
  /\ UNCHANGED <<serviceVars, answers, box, activity, ui, child, quits, messages>>

SendNoop(n) ==
  /\ asker[n] = "send" /\ asker' = [asker EXCEPT ![n] = "receive"]
  /\ Send("noop")
  /\ UNCHANGED <<answers, box, activity, ui, child, quits, messages>>

Learn(n, on) ==
  /\ asker[n] = "receive" /\ asker' = [asker EXCEPT ![n] = "idle"]
  /\ Len(messages) < Cardinality(Askers)
  /\ messages' = Append(messages, on)
  /\ UNCHANGED <<box, activity, ui, child, quits>>

\* The answer may be one to an earlier question that timed out.
Receive(n) ==
  /\ answers > 0 /\ answers' = answers - 1
  /\ Learn(n, TRUE) /\ UNCHANGED serviceVars

\* Faulty variant: a timeout is taken for no news.
TimeoutSilently(n) ==
  /\ asker[n] = "receive" /\ asker' = [asker EXCEPT ![n] = "idle"]
  /\ UNCHANGED <<serviceVars, answers, box, activity, ui, child, quits, messages>>

\* setSoTimeout(2000), however slow the agent is.
Timeout(n) == Learn(n, FALSE) /\ UNCHANGED <<serviceVars, answers>>

HandleMessage ==
  /\ ui = "idle" /\ messages # <<>>
  /\ box' = Head(messages) /\ messages' = Tail(messages)
  /\ UNCHANGED <<serviceVars, answers, activity, ui, child, quits, asker>>

-----------------------------------------------------------------------------
(* The back button.                                                        *)

\* onKeyDown(): an unchecked box closes without a question.
Back ==
  /\ activity = "shown" /\ ui = "idle"
  /\ activity' = IF box THEN "asked" ELSE "closed"
  /\ UNCHANGED <<serviceVars, answers, box, ui, child, quits, asker, messages>>

AnswerDialog ==
  /\ activity = "asked" /\ activity' \in {"confirmed", "shown"}
  /\ UNCHANGED <<serviceVars, answers, box, ui, child, quits, asker, messages>>

\* onCreate() and onStart().  The threads of an activity that is gone still hand their
\* messages to the one handler; a new activity has a socket of its own, and which of the
\* threads gets an answer is left open.
Open(n) ==
  /\ activity \in {"confirmed", "closed"} /\ activity' = "shown"
  /\ asker[n] = "idle" /\ asker' = [asker EXCEPT ![n] = "send"]
  /\ box' = FALSE
  /\ UNCHANGED <<serviceVars, answers, ui, child, quits, messages>>

-----------------------------------------------------------------------------
UserInterface == CheckAlive \/ Slept \/ Exec \/ Look \/ HandleMessage

Ask(n) == SendNoop(n) \/ Receive(n) \/ Timeout(n)

User == Click \/ Back \/ AnswerDialog \/ \E n \in Askers : Open(n) \/ OnStart(n)

\* An agent, and its answer to noop: lost if the socket has no room for it.
AgentStep(a) ==
  /\ \/ Moves(a) /\ UNCHANGED answers
     \/ TakeNoop(a) /\ answers' = IF answers < AnswerLimit THEN answers + 1 ELSE answers
  /\ UNCHANGED ownVars

AppNext ==
  \/ UserInterface \/ SendQuit \/ User
  \/ \E n \in Askers : Ask(n)
  \/ \E a \in Agents : AgentStep(a)

AppSpec == AppInit /\ [][AppNext]_allVars

\* Threads and processes are scheduled; nobody need use the application, and
\* the user need not answer su.  A datagram finds room at last: in the code there
\* is no bound on the queue that would make its sender wait.
FairAppSpec ==
  /\ AppSpec
  /\ WF_allVars(UserInterface) /\ SF_allVars(SendQuit)
  /\ \A n \in Askers : WF_allVars(Ask(n))
  /\ \A a \in Agents : WF_allVars(Proceeds(a) /\ AgentStep(a))

-----------------------------------------------------------------------------
(* Correctness.                                                            *)

\* A click that stops, or restarts, a running agent ends that agent, in whatever
\* order the sender's thread, the agent and later clicks run.
ClickEndsAgent == \A a \in Agents : quits > 0 /\ port = a ~> port # a

\* What the dialog asks for (close_alert of res/values/strings.xml: "quit the program, and
\* close the proxy with it?"): once it was answered with Yes the agent that serves ends,
\* unless the application is opened again.  The code sends no quit there.
ConfirmedClosesProxy ==
  \A a \in Agents : activity = "confirmed" /\ port = a ~> port # a \/ activity # "confirmed"

\* The box does not show for ever an agent that is gone: if no process is left and the
\* activity is started again and again, late answers and timeouts included, the box
\* is unchecked again and again.
NoProcess == \A a \in Agents : ~Alive(a)
Asked == \E n \in Askers : asker[n] = "send"

BoxLearns == <>[]NoProcess /\ []<>Asked => []<>(~box)
=============================================================================
