------------------------------- MODULE Logger -------------------------------
(***************************************************************************)
(* The Logger of the process: every thread queues its lines, one thread    *)
(* writes them to the file.  Each Lidar starts the logger in Init and stops *)
(* it in its destructor.                                                   *)
(***************************************************************************)
EXTENDS Integers, Sequences

CONSTANTS
  Callers,      \* the threads that log
  MaxLines,     \* bound on the lines queued
  MaxStarts,    \* bound on the calls of Start that start a thread
  NotifyIsLate  \* Stop's notify_one never falls between test and sleep

LoggerAssumption ==
  MaxLines \in Nat /\ MaxStarts \in Nat /\ NotifyIsLate \in BOOLEAN

VARIABLES
  toFile,    \* HESAI_LOG_TARGET_FILE in log_target_rule_
  running,   \* running_
  exit,      \* exit_
  thread,    \* threadfunc: "none", "while", "locked" with mutex_ held,
             \* "tested" with mutex_ held and no line seen, "asleep", "returned"
  queue,     \* queue_; lines are numbered
  file,      \* what fp_ holds
  lines,     \* lines queued so far
  notifies,  \* the callers that queued a line and have not notified yet
  stopping,  \* Stop: "no", "notify", "join"
  starts     \* threads started

loggerVars == <<toFile, running, exit, thread, queue, file, lines, notifies, stopping, starts>>

Init ==
  /\ toFile \in BOOLEAN /\ running = FALSE /\ exit = FALSE /\ thread = "none"
  /\ queue = <<>> /\ file = <<>> /\ lines = 0 /\ notifies = {}
  /\ stopping = "no" /\ starts = 0

Locked == thread \in {"locked", "tested"}

(* Start, with the file opened afresh, and emptied; exit_ stays as it is.   *)
(* A file that cannot be opened changes nothing.                            *)
Start ==
  /\ ~running /\ stopping = "no" /\ starts < MaxStarts
  /\ file' = IF toFile THEN <<>> ELSE file
  /\ thread' = IF toFile THEN "while" ELSE "returned"
  /\ running' = TRUE /\ starts' = starts + 1
  /\ UNCHANGED <<toFile, exit, queue, lines, notifies, stopping>>

Stop ==
  /\ running /\ stopping = "no"
  /\ exit' = TRUE /\ stopping' = "notify"
  /\ UNCHANGED <<toFile, running, thread, queue, file, lines, notifies, starts>>

(* notify_one wakes the thread when it sleeps.                              *)
Notified == IF thread = "asleep" THEN "locked" ELSE thread

StopNotifies ==
  /\ stopping = "notify" /\ (NotifyIsLate => thread # "tested")
  /\ thread' = Notified /\ stopping' = "join"
  /\ UNCHANGED <<toFile, running, exit, queue, file, lines, notifies, starts>>

Join ==
  /\ stopping = "join" /\ thread = "returned"
  /\ running' = FALSE /\ stopping' = "no"
  /\ UNCHANGED <<toFile, exit, thread, queue, file, lines, notifies, starts>>

(* AddToQueue, under mutex_, and the notification after it.                 *)
AddToQueue(c) ==
  /\ toFile /\ lines < MaxLines /\ c \notin notifies /\ ~Locked
  /\ lines' = lines + 1 /\ queue' = Append(queue, lines + 1)
  /\ notifies' = notifies \cup {c}
  /\ UNCHANGED <<toFile, running, exit, thread, file, stopping, starts>>

(* Fault: the caller does not notify. *)
AddSilently(c) ==
  /\ c \in notifies
  /\ notifies' = notifies \ {c}
  /\ UNCHANGED <<toFile, running, exit, thread, queue, file, lines, stopping, starts>>

AddNotifies(c) ==
  /\ c \in notifies
  /\ notifies' = notifies \ {c} /\ thread' = Notified
  /\ UNCHANGED <<toFile, running, exit, queue, file, lines, stopping, starts>>

(***************************************************************************)
(* threadfunc.                                                             *)
(***************************************************************************)
Return ==
  /\ \/ thread = "while"
     \/ thread = "locked" /\ queue = <<>>
  /\ exit
  /\ thread' = "returned"
  /\ UNCHANGED <<toFile, running, exit, queue, file, lines, notifies, stopping, starts>>

Lock ==
  /\ thread = "while" /\ ~exit
  /\ thread' = "locked"
  /\ UNCHANGED <<toFile, running, exit, queue, file, lines, notifies, stopping, starts>>

Write ==
  /\ thread = "locked" /\ queue # <<>>
  /\ file' = Append(file, Head(queue)) /\ queue' = Tail(queue)
  /\ thread' = "while"
  /\ UNCHANGED <<toFile, running, exit, lines, notifies, stopping, starts>>

(* The thread has seen no line and no exit_, and will sleep.                *)
Test ==
  /\ thread = "locked" /\ queue = <<>> /\ ~exit
  /\ thread' = "tested"
  /\ UNCHANGED <<toFile, running, exit, queue, file, lines, notifies, stopping, starts>>

Sleep ==
  /\ thread = "tested"
  /\ thread' = "asleep"
  /\ UNCHANGED <<toFile, running, exit, queue, file, lines, notifies, stopping, starts>>

(* A wait may end without a notification.                                   *)
WakeUp ==
  /\ thread = "asleep"
  /\ thread' = "locked"
  /\ UNCHANGED <<toFile, running, exit, queue, file, lines, notifies, stopping, starts>>

Next ==
  \/ Start \/ Stop \/ StopNotifies \/ Join
  \/ \E c \in Callers : AddToQueue(c) \/ AddNotifies(c)
  \/ Return \/ Lock \/ Write \/ Test \/ Sleep \/ WakeUp

(* All but the calls themselves, and a wait that ends by itself.            *)
Fairness ==
  /\ WF_loggerVars(StopNotifies) /\ WF_loggerVars(Join)
  /\ \A c \in Callers : WF_loggerVars(AddNotifies(c))
  /\ WF_loggerVars(Return) /\ WF_loggerVars(Lock) /\ WF_loggerVars(Write)
  /\ WF_loggerVars(Test) /\ WF_loggerVars(Sleep)

Spec == Init /\ [][Next]_loggerVars /\ Fairness

(* No line is left in the queue of a logger that nobody has stopped: a      *)
(* notification is not lost, whatever the thread does when it comes         *)
(* (AddToQueue, threadfunc).                                                *)
LinesAreWritten == (running /\ queue # <<>>) ~> (exit \/ queue = <<>>)

(* ~Lidar gets out of Stop, whatever the thread is doing.                   *)
LoggerStops == (stopping # "no") ~> (stopping = "no")
=============================================================================
