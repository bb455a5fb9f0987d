------------------------------ MODULE CmdLine ------------------------------
(***************************************************************************)
(* CmdLine of system/cmd_line.cpp: a reader thread that queues the lines   *)
(* of standard input, and Execute, which the main thread calls to run the  *)
(* callbacks of the lines queued so far.  The reader is a Thread: module   *)
(* Thread, whose controller is the main thread.                            *)
(***************************************************************************)
EXTENDS Thread, FiniteSets, SequencesExt

CONSTANTS
  Words,    \* the first words of lines
  MaxLines, \* bound: lines read
  MaxDepth  \* bound: Executes nested in callbacks

ASSUME BoundAssumption == MaxLines \in Nat /\ MaxDepth \in Nat
ASSUME NoneIsNoLine == None \notin [number : Nat, word : Words \cup {None}]

VARIABLES
  read,       \* the lines read so far
  cmd_buf,    \* the line the reader holds, not yet queued; or None
  cmd_list,   \* the lines queued
  executing,  \* for each Execute in progress the lines it still has to run
  running,    \* for each the word its running callback is registered for, or None
  callbacks,  \* cmd_callback_list: the words registered
  default,    \* cmd_callback_default is set
  done        \* not in the code: the lines executed

cmd_vars == <<read, cmd_buf, cmd_list, executing, running, callbacks, default, done>>
vars == <<thread_vars, cmd_vars>>

(* The words registered with a callback that is empty count as registered. *)
Callback == {"set", "empty"}

Line(n, w) == [number |-> n, word |-> w]

Init ==
  /\ ThreadInit
  /\ read = 0
  /\ cmd_buf = None
  /\ cmd_list = <<>>
  /\ executing = <<>>
  /\ running = <<>>
  /\ callbacks = [w \in {} |-> "set"]
  /\ default = FALSE
  /\ done = {}

-----------------------------------------------------------------------------
(* The reader thread t. *)

AnyPointCancels == TRUE   \* Mutant: the line is lost in between.

(* No cancellation point lies between reading a line and queueing it. *)
AtCancelPoint == cmd_buf = None

ReaderCancelled(t) ==
  /\ AtCancelPoint
  /\ TakeCancel(t)
  /\ cmd_buf' = None
  /\ UNCHANGED <<read, cmd_list, executing, running, callbacks, default, done>>

(* fgets() returns a line; of an empty one nothing stays.  A line of blanks  *)
(* only is queued and has no word.                                           *)
ReadLine(t) ==
  /\ posix[t] = "body" /\ cmd_buf = None
  /\ read < MaxLines
  /\ read' = read + 1
  /\ \E w \in Words \cup {None} : cmd_buf' = Line(read', w)
  /\ UNCHANGED <<thread_vars, cmd_list, executing, running, callbacks, default, done>>

(* Under cmd_mutex. *)
QueueLine(t) ==
  /\ posix[t] = "body" /\ cmd_buf # None
  /\ cmd_list' = Append(cmd_list, cmd_buf)
  /\ cmd_buf' = None
  /\ UNCHANGED <<thread_vars, read, executing, running, callbacks, default, done>>

(* The end of standard input: the reader returns. *)
ReadEnd(t) == cmd_buf = None /\ LeaveBody(t) /\ UNCHANGED cmd_vars

ReaderCleanUp(t) == CleanUp(t) /\ UNCHANGED cmd_vars

ReaderExits(t) == Exit(t) /\ UNCHANGED cmd_vars

-----------------------------------------------------------------------------
(* The main thread, at top level or inside a callback. *)

MainRuns == call = "none" /\ (executing = <<>> \/ (running # <<>> /\ Last(running) # None))

CmdStart == MainRuns /\ Start /\ UNCHANGED cmd_vars

StartReturns == (CreateThread \/ CreateFails) /\ UNCHANGED cmd_vars

(* Mutant: Stop() joins without cancelling. *)
StopOnlyJoins ==
  /\ MainRuns
  /\ Cancellable
  /\ call' = "stopping"
  /\ UNCHANGED <<joinable, thread_id, posix, cancelled, cmd_vars>>

(* Stop() cancels the reader and joins it. *)
Stop ==
  /\ MainRuns
  /\ Cancel
  /\ call' = "stopping"
  /\ UNCHANGED <<joinable, thread_id, posix, cmd_vars>>

StopJoins == call = "stopping" /\ Join /\ UNCHANGED cmd_vars

StopReturns == JoinReturns /\ UNCHANGED cmd_vars

(* A callback does not replace or erase itself while it runs. *)
Regist(w, c) ==
  /\ MainRuns
  /\ ~ Contains(running, w)
  /\ callbacks' = [v \in DOMAIN callbacks \cup {w} |-> IF v = w THEN c ELSE callbacks[v]]
  /\ UNCHANGED <<thread_vars, read, cmd_buf, cmd_list, executing, running, default, done>>

Unregist(w) ==
  /\ MainRuns
  /\ w \in DOMAIN callbacks /\ ~ Contains(running, w)
  /\ callbacks' = Restrict(callbacks, DOMAIN callbacks \ {w})
  /\ UNCHANGED <<thread_vars, read, cmd_buf, cmd_list, executing, running, default, done>>

SetDefault(d) ==
  /\ MainRuns
  /\ ~ Contains(running, "default")
  /\ default' = d
  /\ UNCHANGED <<thread_vars, read, cmd_buf, cmd_list, executing, running, callbacks, done>>

UnregistAll ==
  /\ MainRuns
  /\ running = <<>>
  /\ callbacks' = [w \in {} |-> "set"]
  /\ default' = FALSE
  /\ UNCHANGED <<thread_vars, read, cmd_buf, cmd_list, executing, running, done>>

(* Execute() takes all lines queued, under cmd_mutex. *)
Execute ==
  /\ MainRuns
  /\ Len(executing) < MaxDepth
  /\ executing' = Append(executing, cmd_list)
  /\ cmd_list' = <<>>
  /\ running' = Append(running, None)
  /\ UNCHANGED <<thread_vars, read, cmd_buf, callbacks, default, done>>

Executing == call = "none" /\ executing # <<>> /\ Last(running) = None

(* What runs for a word: its callback, else the default one, else nothing. *)
CallbackFor(w) ==
  IF w \in DOMAIN callbacks /\ callbacks[w] = "set" THEN w
  ELSE IF default /\ w # None THEN "default" ELSE None

RunLine ==
  /\ Executing
  /\ Last(executing) # <<>>
  /\ LET line == Head(Last(executing)) IN
     /\ executing' = [executing EXCEPT ![Len(executing)] = Tail(@)]
     /\ running' = [running EXCEPT ![Len(running)] = CallbackFor(line.word)]
     /\ done' = done \cup {line.number}
  /\ UNCHANGED <<thread_vars, read, cmd_buf, cmd_list, callbacks, default>>

CallbackReturns ==
  /\ call = "none" /\ running # <<>> /\ Last(running) # None
  /\ running' = [running EXCEPT ![Len(running)] = None]
  /\ UNCHANGED <<thread_vars, read, cmd_buf, cmd_list, executing, callbacks, default, done>>

ExecuteReturns ==
  /\ Executing
  /\ Last(executing) = <<>>
  /\ executing' = Front(executing)
  /\ running' = Front(running)
  /\ UNCHANGED <<thread_vars, read, cmd_buf, cmd_list, callbacks, default, done>>

-----------------------------------------------------------------------------
Reader(t) ==
  \/ ReaderCancelled(t) \/ ReadLine(t) \/ QueueLine(t) \/ ReadEnd(t)
  \/ ReaderCleanUp(t) \/ ReaderExits(t)

Main ==
  \/ CmdStart \/ StartReturns \/ Stop \/ StopJoins \/ StopReturns
  \/ \E w \in Words : Unregist(w) \/ \E c \in Callback : Regist(w, c)
  \/ \E d \in BOOLEAN : SetDefault(d)
  \/ UnregistAll \/ Execute \/ RunLine \/ CallbackReturns \/ ExecuteReturns

Next == Main \/ \E t \in ThreadIds : Reader(t)

Spec == Init /\ [][Next]_vars

(* Both threads run on.  The reader's loop passes CheckCancelPoint() in every *)
(* round, so a cancellation that stays pending is taken.                     *)
Fairness ==
  /\ WF_vars(StopJoins) /\ WF_vars(StopReturns)
  /\ \A t \in ThreadIds :
       /\ SF_vars(ReaderCancelled(t))
       /\ WF_vars(QueueLine(t)) /\ WF_vars(ReaderCleanUp(t)) /\ WF_vars(ReaderExits(t))

FairSpec == Spec /\ Fairness

-----------------------------------------------------------------------------
(* The lists of lines not yet run: those of the Executes in progress, what   *)
(* is queued, and what the reader holds.  A line whose callback calls        *)
(* Execute lets later lines run before those of the outer one.               *)
Waiting == executing \o <<cmd_list, IF cmd_buf = None THEN <<>> ELSE <<cmd_buf>>>>

(* Every line read is executed once, in the order of reading within an       *)
(* Execute, however reading, queueing, Stop and nested Executes interleave:  *)
(* the lines waiting are just those not done, each once, later lines further *)
(* back (cmd_line.cpp:42-62, 107-134).                                       *)
EveryLineOnce ==
  /\ \A i, j \in DOMAIN Waiting : \A p \in DOMAIN Waiting[i], q \in DOMAIN Waiting[j] :
       i < j \/ (i = j /\ p < q) => Waiting[i][p].number < Waiting[j][q].number
  /\ UNION {{l.number : l \in ToSet(Waiting[i])} : i \in DOMAIN Waiting} = (1 .. read) \ done

(* Stop() returns, although the reader may be polling, reading, queueing or  *)
(* ending by itself when it is cancelled (cmd_line.cpp:35-66, 75-79).        *)
StopEnds == call \in {"stopping", "joining"} ~> call = "none"
=============================================================================
