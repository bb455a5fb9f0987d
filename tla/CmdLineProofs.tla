--------------------------- MODULE CmdLineProofs ---------------------------
(***************************************************************************)
(* Proofs about CmdLine and the Thread inside it, for any number of POSIX  *)
(* threads, lines and nested Executes.                                     *)
(***************************************************************************)
EXTENDS CmdLine, SequenceTheorems, FiniteSetTheorems, TLAPS

-----------------------------------------------------------------------------
(* Sequences. *)

(* A stack without its top (Front, as a frame returns).                      *)
LEMMA FrontProperties ==
  ASSUME NEW S, NEW s \in Seq(S), s # <<>>
  PROVE  /\ Len(s) \in Nat \ {0}
         /\ Last(s) \in S /\ Last(s) = s[Len(s)]
         /\ Front(s) \in Seq(S)
         /\ Len(Front(s)) = Len(s) - 1
         /\ DOMAIN Front(s) = 1 .. Len(s) - 1
         /\ \A i \in 1 .. Len(s) - 1 : Front(s)[i] = s[i]
<1>1. Len(s) \in Nat \ {0} /\ \A i \in 1 .. Len(s) : s[i] \in S
  OBVIOUS
<1>2. PICK n \in Nat : n = Len(s) - 1
  BY <1>1
<1>3. PICK f : f = SubSeq(s, 1, n)
  OBVIOUS
<1>4. /\ f \in Seq(S)
      /\ Len(f) = IF 1 <= n THEN n - 1 + 1 ELSE 0
      /\ \A i \in 1 .. n - 1 + 1 : f[i] = s[1 + i - 1]
  BY <1>1, <1>2, <1>3, SubSeqProperties
<1>5. Len(f) = n /\ DOMAIN f = 1 .. n /\ \A i \in 1 .. n : f[i] = s[i]
  BY <1>4
<1>6. Front(s) = f /\ Last(s) = s[Len(s)]
  BY <1>2, <1>3 DEF Front, Last
<1> QED
  BY <1>1, <1>2, <1>4, <1>5, <1>6

-----------------------------------------------------------------------------
USE NoneIsNoThread, NoneIsNoLine

-----------------------------------------------------------------------------
(* The reader thread. *)

ThreadTypeOK ==
  /\ joinable \in BOOLEAN
  /\ thread_id \in ThreadIds \cup {None}
  /\ posix \in [ThreadIds -> {"none", "body", "cleanup", "exiting", "ended"}]
  /\ call \in {"none", "creating", "joining", "stopping"}

Touching == {t \in ThreadIds : posix[t] \in {"body", "cleanup"}}

(* JoinableIsExact alone is not inductive: while pthread_create is about to *)
(* return, no earlier thread may still run, or two would.                   *)
ThreadInv ==
  /\ ThreadTypeOK
  /\ JoinableIsExact
  /\ call = "creating" => joinable /\ Touching = {}

(* Every step of the controller and of the thread preserves ThreadInv.       *)
LEMMA NextThreadInv == ThreadInv /\ [Next]_vars => ThreadInv'
<1> SUFFICES ASSUME ThreadInv, [Next]_vars PROVE ThreadInv'
  OBVIOUS
<1> USE DEF ThreadInv, ThreadTypeOK, JoinableIsExact, Touching, cmd_vars
(* The object has no thread yet. *)
<1>1. CASE CmdStart
  BY <1>1 DEF CmdStart, MainRuns, Start
(* The new thread is the only one that touches the object. *)
<1>2. CASE StartReturns
  <2>1. CASE CreateThread
    BY <2>1 DEF CreateThread
  <2>2. CASE CreateFails
    BY <2>2 DEF CreateFails
  <2> QED
    BY <1>2, <2>1, <2>2 DEF StartReturns
<1>3. CASE Stop \/ StopJoins
  BY <1>3 DEF Stop, MainRuns, StopJoins, Join
(* The thread that pthread_join returns for has ended. *)
<1>4. CASE StopReturns
  BY <1>4 DEF StopReturns, JoinReturns
<1>5. ASSUME NEW t \in ThreadIds, ReaderCancelled(t) \/ ReadEnd(t) PROVE ThreadInv'
  BY <1>5 DEF ReaderCancelled, TakeCancel, ReadEnd, LeaveBody
(* The thread in its clean-up handler is the one joinable_ stands for. *)
<1>6. ASSUME NEW t \in ThreadIds, ReaderCleanUp(t) PROVE ThreadInv'
  <2>1. joinable /\ call # "creating" /\ Touching = {t}
    BY <1>6 DEF ReaderCleanUp, CleanUp
  <2>2. Touching' = {}
    BY <1>6, <2>1 DEF ReaderCleanUp, CleanUp
  <2> QED
    BY <1>6, <2>1, <2>2 DEF ReaderCleanUp, CleanUp
<1>7. ASSUME NEW t \in ThreadIds, ReaderExits(t) PROVE ThreadInv'
  BY <1>7 DEF ReaderExits, Exit
(* The other steps are not about the thread. *)
<1>8. CASE UNCHANGED thread_vars
  BY <1>8 DEF thread_vars
<1> QED
  BY <1>1, <1>2, <1>3, <1>4, <1>5, <1>6, <1>7, <1>8
     DEF Next, Main, Reader, ReadLine, QueueLine, Unregist, Regist, SetDefault, UnregistAll,
         Execute, RunLine, CallbackReturns, ExecuteReturns, vars

(* The invariant holds in every reachable state.                             *)
LEMMA ThreadInvariance == Spec => []ThreadInv
<1>1. Init => ThreadInv
  BY DEF Init, ThreadInit, ThreadInv, ThreadTypeOK, JoinableIsExact, Touching
<1> QED
  BY <1>1, NextThreadInv, PTL DEF Spec

(* joinable_ says whether a thread of the object may still touch it, as      *)
(* Join(), Start() and the destructor rely on (thread.cpp:41-69, 103-122).   *)
THEOREM JoinableExact == Spec => []JoinableIsExact
<1>1. ThreadInv => JoinableIsExact
  BY DEF ThreadInv
<1> QED
  BY <1>1, ThreadInvariance, PTL

-----------------------------------------------------------------------------
(* The lines. *)

Lines == [number : Nat, word : Words \cup {None}]

LinesTypeOK ==
  /\ read \in Nat
  /\ done \subseteq 1 .. read
  /\ cmd_buf \in Lines \cup {None}
  /\ cmd_list \in Seq(Lines)
  /\ executing \in Seq(Seq(Lines))

(* EveryLineOnce in three parts, element by element. *)
InOrder ==
  \A i, j \in DOMAIN Waiting : \A p \in DOMAIN Waiting[i], q \in DOMAIN Waiting[j] :
    i < j \/ (i = j /\ p < q) => Waiting[i][p].number < Waiting[j][q].number

OnlyUndone ==
  \A i \in DOMAIN Waiting : \A p \in DOMAIN Waiting[i] :
    Waiting[i][p].number \in (1 .. read) \ done

AllUndone ==
  \A n \in (1 .. read) \ done :
    \E i \in DOMAIN Waiting : \E p \in DOMAIN Waiting[i] : Waiting[i][p].number = n

LinesInv == LinesTypeOK /\ InOrder /\ OnlyUndone /\ AllUndone

(* What the reader holds, as a list. *)
Held == IF cmd_buf = None THEN <<>> ELSE <<cmd_buf>>

(* The lists of Waiting: the Executes', the queue, the reader's line.        *)
LEMMA ThreeParts ==
  ASSUME NEW e \in Seq(Seq(Lines)), NEW c \in Seq(Lines), NEW h \in Seq(Lines),
         NEW w, w = e \o <<c, h>>
  PROVE  /\ DOMAIN w = 1 .. Len(e) + 2
         /\ \A i \in 1 .. Len(e) : w[i] = e[i]
         /\ w[Len(e) + 1] = c
         /\ w[Len(e) + 2] = h
         /\ \A i \in DOMAIN w : w[i] \in Seq(Lines)
<1> DEFINE pair == <<c, h>>
<1>1. pair \in Seq(Seq(Lines)) /\ Len(pair) = 2 /\ pair[1] = c /\ pair[2] = h
  OBVIOUS
<1>2. w = e \o pair
  OBVIOUS
<1> HIDE DEF pair
<1>3. /\ Len(e \o pair) = Len(e) + Len(pair)
      /\ \A i \in 1 .. Len(e) + Len(pair) :
           (e \o pair)[i] = IF i <= Len(e) THEN e[i] ELSE pair[i - Len(e)]
  BY <1>1, ConcatProperties, ZenonT(60)
<1>4. e \o pair \in Seq(Seq(Lines))
  BY <1>1, ConcatProperties, Zenon
<1> QED
  BY <1>1, <1>2, <1>3, <1>4

(* The shape of Waiting, before and after a step. *)
Shape ==
  /\ Len(executing) \in Nat
  /\ DOMAIN Waiting = 1 .. Len(executing) + 2
  /\ \A i \in 1 .. Len(executing) : Waiting[i] = executing[i]
  /\ Waiting[Len(executing) + 1] = cmd_list
  /\ Waiting[Len(executing) + 2] = Held
  /\ \A i \in DOMAIN Waiting :
       /\ Waiting[i] \in Seq(Lines)
       /\ DOMAIN Waiting[i] = 1 .. Len(Waiting[i])
       /\ \A p \in DOMAIN Waiting[i] : Waiting[i][p] \in Lines

(* The lines under way, list by list. *)
LEMMA WaitingShape ==
  /\ LinesTypeOK => Shape
  /\ LinesTypeOK' => Shape'
<1>1. ASSUME LinesTypeOK PROVE Shape
  <2>1. Held \in Seq(Lines)
    BY <1>1 DEF LinesTypeOK, Held
  <2>2. Waiting = executing \o <<cmd_list, Held>>
    BY DEF Waiting, Held
  <2>3. executing \in Seq(Seq(Lines)) /\ cmd_list \in Seq(Lines)
    BY <1>1 DEF LinesTypeOK
  <2> QED
    BY <2>1, <2>2, <2>3, ThreeParts, SMTT(30) DEF Shape
<1>2. ASSUME LinesTypeOK' PROVE Shape'
  <2>1. Held' \in Seq(Lines)
    BY <1>2 DEF LinesTypeOK, Held
  <2>2. Waiting' = executing' \o <<cmd_list', Held'>>
    BY DEF Waiting, Held
  <2>3. executing' \in Seq(Seq(Lines)) /\ cmd_list' \in Seq(Lines)
    BY <1>2 DEF LinesTypeOK
  <2> QED
    BY <2>1, <2>2, <2>3, ThreeParts DEF Shape
<1> QED
  BY <1>1, <1>2

(* LinesInv is EveryLineOnce, typed. *)
LEMMA LinesInvExact == LinesTypeOK => (LinesInv <=> EveryLineOnce)
<1> SUFFICES ASSUME LinesTypeOK PROVE LinesInv <=> EveryLineOnce
  OBVIOUS
<1> DEFINE Waits(n) ==
      \E i \in DOMAIN Waiting : \E p \in DOMAIN Waiting[i] : Waiting[i][p].number = n
<1>1. \A n : Waits(n) <=> n \in UNION {{l.number : l \in ToSet(Waiting[i])} : i \in DOMAIN Waiting}
  BY DEF ToSet
<1>2. UNION {{l.number : l \in ToSet(Waiting[i])} : i \in DOMAIN Waiting} = (1 .. read) \ done
        <=> \A n : Waits(n) <=> n \in (1 .. read) \ done
  BY <1>1, Zenon
<1>3. OnlyUndone /\ AllUndone <=> \A n : Waits(n) <=> n \in (1 .. read) \ done
  BY DEF OnlyUndone, AllUndone
<1> QED
  BY <1>2, <1>3 DEF LinesInv, EveryLineOnce, InOrder

(* The reader reads a line: it is later than every line before it.           *)
LEMMA ReadLineKeeps ==
  ASSUME LinesInv, NEW t \in ThreadIds, ReadLine(t)
  PROVE  LinesInv'
<1> USE DEF LinesInv
<1>1. PICK w \in Words \cup {None} : cmd_buf' = Line(read', w)
  BY DEF ReadLine
<1>2. cmd_buf' \in Lines /\ cmd_buf'.number = read + 1 /\ cmd_buf' # None
  BY <1>1 DEF ReadLine, Line, Lines, LinesTypeOK
<1>3. LinesTypeOK'
  BY <1>2 DEF LinesTypeOK, ReadLine
<1>4. /\ DOMAIN Waiting' = DOMAIN Waiting
      /\ \A i \in 1 .. Len(executing) + 1 : Waiting'[i] = Waiting[i]
      /\ Waiting[Len(executing) + 2] = <<>>
      /\ Waiting'[Len(executing) + 2] = <<cmd_buf'>>
  BY <1>2, <1>3, WaitingShape DEF ReadLine, Held, Shape
<1>5. Len(executing) \in Nat /\ DOMAIN Waiting = 1 .. Len(executing) + 2
  BY WaitingShape DEF Shape
<1>6. \A i \in DOMAIN Waiting : \A p \in DOMAIN Waiting'[i] :
        \/ i # Len(executing) + 2 /\ p \in DOMAIN Waiting[i] /\ Waiting'[i][p] = Waiting[i][p]
        \/ i = Len(executing) + 2 /\ p = 1 /\ Waiting'[i][p] = cmd_buf'
  BY <1>4, <1>5
<1>7. OnlyUndone'
  BY <1>2, <1>4, <1>6 DEF OnlyUndone, ReadLine, LinesTypeOK
<1>8. AllUndone'
  <2> SUFFICES ASSUME NEW n \in (1 .. read') \ done'
               PROVE  \E i \in DOMAIN Waiting' : \E p \in DOMAIN Waiting'[i] : Waiting'[i][p].number = n
    BY DEF AllUndone
  <2>1. CASE n = read + 1
    BY <2>1, <1>2, <1>4, <1>5
  <2>2. CASE n # read + 1
    <3>1. n \in (1 .. read) \ done
      BY <2>2 DEF ReadLine, LinesTypeOK
    <3>2. PICK i \in DOMAIN Waiting : \E p \in DOMAIN Waiting[i] : Waiting[i][p].number = n
      BY <3>1 DEF AllUndone
    <3>3. i \in 1 .. Len(executing) + 1
      BY <3>2, <1>4, <1>5
    <3> QED
      BY <3>2, <3>3, <1>4
  <2> QED
    BY <2>1, <2>2
<1>9. InOrder'
  BY <1>2, <1>4, <1>5, <1>6 DEF InOrder, OnlyUndone, LinesTypeOK
<1> QED
  BY <1>3, <1>7, <1>8, <1>9

(* The line the reader holds becomes the last of the queue.                  *)
LEMMA QueueLineKeeps ==
  ASSUME LinesInv, NEW t \in ThreadIds, QueueLine(t)
  PROVE  LinesInv'
<1> USE DEF LinesInv
<1> DEFINE L == Len(executing)
           k == Len(cmd_list)
<1>1. LinesTypeOK'
  BY DEF LinesTypeOK, QueueLine
<1>2. /\ L \in Nat /\ k \in Nat
      /\ DOMAIN Waiting = 1 .. L + 2 /\ DOMAIN Waiting' = 1 .. L + 2
      /\ \A i \in 1 .. L : Waiting'[i] = Waiting[i]
      /\ Waiting[L + 1] = cmd_list /\ Waiting'[L + 1] = Append(cmd_list, cmd_buf)
      /\ Waiting[L + 2] = <<cmd_buf>> /\ Waiting'[L + 2] = <<>>
  BY <1>1, WaitingShape, SMTT(30) DEF QueueLine, Held, Shape, LinesTypeOK
<1>3. /\ DOMAIN Waiting[L + 1] = 1 .. k /\ DOMAIN Waiting'[L + 1] = 1 .. k + 1
      /\ \A p \in 1 .. k : Waiting'[L + 1][p] = Waiting[L + 1][p]
      /\ Waiting'[L + 1][k + 1] = cmd_buf
      /\ DOMAIN Waiting[L + 2] = {1} /\ Waiting[L + 2][1] = cmd_buf
      /\ DOMAIN Waiting'[L + 2] = {}
  BY <1>2 DEF LinesTypeOK, QueueLine
<1> HIDE DEF L, k
<1>4. \A i \in DOMAIN Waiting' : \A p \in DOMAIN Waiting'[i] :
        \/ /\ i \in DOMAIN Waiting /\ i # L + 2 /\ p \in DOMAIN Waiting[i]
           /\ Waiting'[i][p] = Waiting[i][p]
           /\ ~ (i = L + 1 /\ p = k + 1)
        \/ i = L + 1 /\ p = k + 1 /\ Waiting'[i][p] = Waiting[L + 2][1]
  BY <1>2, <1>3
<1>5. OnlyUndone'
  BY <1>2, <1>3, <1>4 DEF OnlyUndone, QueueLine
<1>6. AllUndone'
  <2> SUFFICES ASSUME NEW n \in (1 .. read) \ done
               PROVE  \E i \in DOMAIN Waiting' : \E p \in DOMAIN Waiting'[i] : Waiting'[i][p].number = n
    BY DEF AllUndone, QueueLine
  <2>1. PICK i \in DOMAIN Waiting : \E p \in DOMAIN Waiting[i] : Waiting[i][p].number = n
    BY DEF AllUndone
  <2>2. PICK p \in DOMAIN Waiting[i] : Waiting[i][p].number = n
    BY <2>1
  <2>3. CASE i = L + 2
    BY <2>2, <2>3, <1>2, <1>3, SMTT(30)
  <2>4. CASE i = L + 1
    BY <2>2, <2>4, <1>2, <1>3
  <2>5. CASE i \in 1 .. L
    BY <2>2, <2>5, <1>2
  <2> QED
    BY <1>2, <2>3, <2>4, <2>5
<1>7. InOrder'
  <2> SUFFICES ASSUME NEW i \in DOMAIN Waiting', NEW j \in DOMAIN Waiting',
                      NEW p \in DOMAIN Waiting'[i], NEW q \in DOMAIN Waiting'[j],
                      i < j \/ (i = j /\ p < q)
               PROVE  Waiting'[i][p].number < Waiting'[j][q].number
    BY DEF InOrder
  <2>1. ~ (i = L + 1 /\ p = k + 1)
    BY <1>2, <1>3
  <2>2. /\ i \in DOMAIN Waiting /\ i # L + 2 /\ p \in DOMAIN Waiting[i]
        /\ Waiting'[i][p] = Waiting[i][p]
    BY <2>1, <1>4
  <2>3. CASE j = L + 1 /\ q = k + 1
    BY <2>2, <2>3, <1>2, <1>3 DEF InOrder
  <2>4. CASE ~ (j = L + 1 /\ q = k + 1)
    BY <2>2, <2>4, <1>4 DEF InOrder
  <2> QED
    BY <2>3, <2>4
<1> QED
  BY <1>1, <1>5, <1>6, <1>7

(* Execute takes the queue over: an empty queue comes in between.            *)
LEMMA ExecuteKeeps ==
  ASSUME LinesInv, Execute
  PROVE  LinesInv'
<1> USE DEF LinesInv
<1> DEFINE L == Len(executing)
<1>1. LinesTypeOK'
  BY DEF LinesTypeOK, Execute
<1>2. L \in Nat /\ Len(executing') = L + 1 /\ executing'[L + 1] = cmd_list
      /\ \A i \in 1 .. L : executing'[i] = executing[i]
  BY DEF LinesTypeOK, Execute
<1>3. /\ DOMAIN Waiting = 1 .. L + 2 /\ DOMAIN Waiting' = 1 .. L + 3
      /\ \A i \in 1 .. L + 1 : Waiting'[i] = Waiting[i]
      /\ Waiting'[L + 2] = <<>>
      /\ Waiting'[L + 3] = Waiting[L + 2]
  BY <1>1, <1>2, WaitingShape DEF Execute, Held, Shape
<1> HIDE DEF L
<1> DEFINE Old(i) == IF i = L + 3 THEN L + 2 ELSE i
<1>4. \A i \in DOMAIN Waiting' :
        \/ DOMAIN Waiting'[i] = {}
        \/ i # L + 2 /\ Old(i) \in DOMAIN Waiting /\ Waiting'[i] = Waiting[Old(i)]
  BY <1>2, <1>3
<1>5. OnlyUndone'
  BY <1>4 DEF OnlyUndone, Execute
<1>6. AllUndone'
  <2>1. \A i \in DOMAIN Waiting : \E j \in DOMAIN Waiting' : Waiting'[j] = Waiting[i]
    BY <1>2, <1>3
  <2>2. (1 .. read') \ done' = (1 .. read) \ done
    BY DEF Execute
  <2> SUFFICES ASSUME NEW n \in (1 .. read) \ done
               PROVE  \E j \in DOMAIN Waiting' : \E p \in DOMAIN Waiting'[j] : Waiting'[j][p].number = n
    BY <2>2 DEF AllUndone
  <2>3. PICK i \in DOMAIN Waiting : \E p \in DOMAIN Waiting[i] : Waiting[i][p].number = n
    BY DEF AllUndone
  <2> QED
    BY <2>1, <2>3
<1>7. InOrder'
  <2>1. \A i, j \in DOMAIN Waiting' : i # L + 2 /\ j # L + 2 => (i < j <=> Old(i) < Old(j)) /\ (i = j <=> Old(i) = Old(j))
    BY <1>2, <1>3
  <2> HIDE DEF Old
  <2> QED
    BY <1>4, <2>1 DEF InOrder
<1> QED
  BY <1>1, <1>5, <1>6, <1>7

(* An Execute that has run all its lines goes.                               *)
LEMMA ExecuteReturnsKeeps ==
  ASSUME LinesInv, ExecuteReturns
  PROVE  LinesInv'
<1> USE DEF LinesInv
<1> DEFINE L == Len(executing)
<1>1. /\ L \in Nat \ {0} /\ executing[L] = <<>>
      /\ executing' \in Seq(Seq(Lines)) /\ Len(executing') = L - 1
      /\ \A i \in 1 .. L - 1 : executing'[i] = executing[i]
  BY FrontProperties DEF LinesTypeOK, ExecuteReturns, Executing
<1>2. LinesTypeOK'
  BY <1>1 DEF LinesTypeOK, ExecuteReturns
<1>3. /\ DOMAIN Waiting = 1 .. L + 2 /\ DOMAIN Waiting' = 1 .. L + 1
      /\ \A i \in 1 .. L - 1 : Waiting'[i] = Waiting[i]
      /\ Waiting[L] = <<>>
      /\ Waiting'[L] = Waiting[L + 1]
      /\ Waiting'[L + 1] = Waiting[L + 2]
  BY <1>1, <1>2, WaitingShape DEF ExecuteReturns, Held, Shape
<1> HIDE DEF L
<1> DEFINE Old(i) == IF i >= L THEN i + 1 ELSE i
<1>4. \A i \in DOMAIN Waiting' : Old(i) \in DOMAIN Waiting /\ Waiting'[i] = Waiting[Old(i)]
  BY <1>1, <1>3
<1>5. OnlyUndone'
  BY <1>4 DEF OnlyUndone, ExecuteReturns
<1>6. AllUndone'
  <2>1. \A i \in DOMAIN Waiting : i = L \/ \E j \in DOMAIN Waiting' : Waiting'[j] = Waiting[i]
    BY <1>1, <1>3
  <2>2. DOMAIN Waiting[L] = {}
    BY <1>3
  <2>3. (1 .. read') \ done' = (1 .. read) \ done
    BY DEF ExecuteReturns
  <2> SUFFICES ASSUME NEW n \in (1 .. read) \ done
               PROVE  \E j \in DOMAIN Waiting' : \E p \in DOMAIN Waiting'[j] : Waiting'[j][p].number = n
    BY <2>3 DEF AllUndone
  <2>4. PICK i \in DOMAIN Waiting : \E p \in DOMAIN Waiting[i] : Waiting[i][p].number = n
    BY DEF AllUndone
  <2> QED
    BY <2>1, <2>2, <2>4
<1>7. InOrder'
  <2>1. \A i, j \in DOMAIN Waiting' : (i < j <=> Old(i) < Old(j)) /\ (i = j <=> Old(i) = Old(j))
    BY <1>1, <1>3
  <2> HIDE DEF Old
  <2> QED
    BY <1>4, <2>1 DEF InOrder
<1> QED
  BY <1>2, <1>5, <1>6, <1>7

(* The first line of the innermost Execute is done: no other line waiting    *)
(* has its number.                                                           *)
LEMMA RunLineKeeps ==
  ASSUME LinesInv, RunLine
  PROVE  LinesInv'
<1> USE DEF LinesInv
<1>1. PICK L \in Nat \ {0} : L = Len(executing)
  BY FrontProperties DEF LinesTypeOK, RunLine, Executing
<1>2. PICK old \in Seq(Lines) : old = executing[L]
  BY <1>1 DEF LinesTypeOK
<1>3. old # <<>> /\ executing' = [executing EXCEPT ![L] = Tail(old)]
      /\ done' = done \cup {Head(old).number}
  BY <1>1, <1>2 DEF RunLine, Last
<1>4. PICK new \in Seq(Lines) : new = Tail(old)
  BY <1>3, HeadTailProperties
<1>5. /\ Len(old) \in Nat \ {0} /\ DOMAIN old = 1 .. Len(old)
      /\ DOMAIN new = 1 .. Len(old) - 1
      /\ \A p \in DOMAIN new : new[p] = old[p + 1]
      /\ Head(old) = old[1]
  BY <1>3, <1>4
<1>6. /\ executing' \in Seq(Seq(Lines)) /\ Len(executing') = L
      /\ executing'[L] = new /\ \A i \in 1 .. L - 1 : executing'[i] = executing[i]
  BY <1>1, <1>3, <1>4 DEF LinesTypeOK
<1>7. /\ DOMAIN Waiting = 1 .. L + 2 /\ Waiting[L] = old
      /\ \A i \in DOMAIN Waiting : \A p \in DOMAIN Waiting[i] : Waiting[i][p] \in Lines
  BY <1>1, <1>2, WaitingShape DEF Shape
<1>8. old[1].number \in (1 .. read) \ done
  BY <1>5, <1>7 DEF OnlyUndone
<1>9. LinesTypeOK'
  BY <1>3, <1>5, <1>6, <1>8 DEF LinesTypeOK, RunLine
<1>10. /\ DOMAIN Waiting' = 1 .. L + 2 /\ Waiting'[L] = new
       /\ \A i \in 1 .. L + 2 : i # L => Waiting'[i] = Waiting[i]
  <2>1. Shape /\ Shape' /\ Held' = Held /\ cmd_list' = cmd_list
    BY <1>9, WaitingShape DEF RunLine, Held
  <2>2. Waiting'[L + 1] = Waiting[L + 1] /\ Waiting'[L + 2] = Waiting[L + 2]
    BY <2>1, <1>1, <1>6 DEF Shape
  <2>3. \A i \in 1 .. L - 1 : Waiting'[i] = Waiting[i]
    BY <2>1, <1>1, <1>6 DEF Shape
  <2>4. DOMAIN Waiting' = 1 .. L + 2
    BY <2>1, <1>6 DEF Shape
  <2>6. \A i \in 1 .. L + 2 : i \in 1 .. L - 1 \/ i = L \/ i = L + 1 \/ i = L + 2
    OBVIOUS
  <2>5. Waiting'[L] = new
    <3>1. \A i \in 1 .. L : Waiting'[i] = executing'[i]
      BY <2>1, <1>6 DEF Shape
    <3> QED
      BY <3>1, <1>6
  <2> QED
    BY <2>2, <2>3, <2>4, <2>5, <2>6
(* Where an element of Waiting' was. *)
<1> DEFINE Old(i, p) == IF i = L THEN p + 1 ELSE p
<1>11. \A i \in DOMAIN Waiting' : \A p \in DOMAIN Waiting'[i] :
         /\ i \in DOMAIN Waiting /\ Old(i, p) \in DOMAIN Waiting[i]
         /\ Waiting'[i][p] = Waiting[i][Old(i, p)]
         /\ i # L \/ Old(i, p) > 1
         /\ p \in Int
  <2> SUFFICES ASSUME NEW i \in DOMAIN Waiting', NEW p \in DOMAIN Waiting'[i]
               PROVE  /\ i \in DOMAIN Waiting /\ Old(i, p) \in DOMAIN Waiting[i]
                      /\ Waiting'[i][p] = Waiting[i][Old(i, p)]
                      /\ i # L \/ Old(i, p) > 1
                      /\ p \in Int
    OBVIOUS
  <2>1. CASE i = L
    BY <2>1, <1>5, <1>7, <1>10
  <2>2. CASE i # L
    <3>1. Waiting[i] \in Seq(Lines)
      BY <1>1, <1>7, <1>10, WaitingShape DEF Shape
    <3> QED
      BY <2>2, <3>1, <1>7, <1>10
  <2> QED
    BY <2>1, <2>2
<1>12. OnlyUndone'
  <2> SUFFICES ASSUME NEW i \in DOMAIN Waiting', NEW p \in DOMAIN Waiting'[i]
               PROVE  Waiting'[i][p].number \in (1 .. read) \ (done \cup {old[1].number})
    BY <1>3, <1>5 DEF OnlyUndone, RunLine
  <2>1. PICK q : q = Old(i, p)
    OBVIOUS
  <2>2. /\ i \in 1 .. L + 2 /\ q \in DOMAIN Waiting[i] /\ Waiting'[i][p] = Waiting[i][q]
        /\ i # L \/ q > 1
    BY <2>1, <1>7, <1>11
  <2>3. Waiting[i][q].number \in (1 .. read) \ done
    BY <2>2, <1>7 DEF OnlyUndone
  <2>4. i < L \/ (i = L /\ q > 1) \/ i > L
    BY <2>2, <1>1
  <2>5. Waiting[i][q].number < old[1].number \/ old[1].number < Waiting[i][q].number
    BY <2>2, <2>4, <1>1, <1>5, <1>7 DEF InOrder
  <2> QED
    BY <2>2, <2>3, <2>5, <1>8
<1>13. AllUndone'
  <2> SUFFICES ASSUME NEW n \in (1 .. read) \ done, n # old[1].number
               PROVE  \E i \in DOMAIN Waiting' : \E p \in DOMAIN Waiting'[i] : Waiting'[i][p].number = n
    BY <1>3, <1>5 DEF AllUndone, RunLine
  <2>1. PICK i \in DOMAIN Waiting : \E p \in DOMAIN Waiting[i] : Waiting[i][p].number = n
    BY DEF AllUndone
  <2>2. PICK p \in DOMAIN Waiting[i] : Waiting[i][p].number = n
    BY <2>1
  <2>3. CASE i = L
    <3>1. p \in 2 .. Len(old)
      BY <2>2, <2>3, <1>5, <1>7
    <3>2. p - 1 \in DOMAIN new /\ new[p - 1].number = n
      BY <3>1, <2>2, <2>3, <1>5, <1>7
    <3> QED
      BY <3>2, <2>3, <1>1, <1>10
  <2>4. CASE i # L
    BY <2>2, <2>4, <1>7, <1>10
  <2> QED
    BY <2>3, <2>4
<1>14. InOrder'
  <2>1. \A i, j \in DOMAIN Waiting' : \A p \in DOMAIN Waiting'[i], q \in DOMAIN Waiting'[j] :
          i = j /\ p < q => Old(i, p) < Old(j, q)
    BY <1>11
  <2> HIDE DEF Old
  <2> QED
    BY <2>1, <1>11 DEF InOrder
<1> QED
  BY <1>9, <1>12, <1>13, <1>14

(* Every step preserves it; those not named above leave the lines alone.     *)
LEMMA NextLinesInv == LinesInv /\ [Next]_vars => LinesInv'
<1> SUFFICES ASSUME LinesInv, [Next]_vars PROVE LinesInv'
  OBVIOUS
<1>1. CASE UNCHANGED <<read, cmd_buf, cmd_list, executing, done>>
  <2>1. Waiting' = Waiting
    BY <1>1 DEF Waiting
  <2> QED
    BY <1>1, <2>1 DEF LinesInv, LinesTypeOK, InOrder, OnlyUndone, AllUndone
(* A cancelled reader holds no line: none is lost with it. *)
<1>2. ASSUME NEW t \in ThreadIds, ReaderCancelled(t)
      PROVE  UNCHANGED <<read, cmd_buf, cmd_list, executing, done>>
  BY <1>2 DEF ReaderCancelled, AtCancelPoint
<1> QED
  BY <1>1, <1>2, ReadLineKeeps, QueueLineKeeps, ExecuteKeeps, RunLineKeeps, ExecuteReturnsKeeps
     DEF Next, Main, Reader, CmdStart, StartReturns, Stop, StopJoins, StopReturns, ReadEnd,
         ReaderCleanUp, ReaderExits, Unregist, Regist, SetDefault, UnregistAll,
         CallbackReturns, vars, cmd_vars

(* No line is lost, run twice or overtaken within an Execute, whatever the   *)
(* interleaving of reader, Stop and nested Executes (cmd_line.cpp:42-62,     *)
(* 107-134).                                                                 *)
THEOREM LinesOnce == Spec => []EveryLineOnce
<1>1. Init => LinesTypeOK /\ EveryLineOnce
  <2> SUFFICES ASSUME Init PROVE LinesTypeOK /\ EveryLineOnce
    OBVIOUS
  <2>1. LinesTypeOK
    BY DEF Init, LinesTypeOK
  <2>2. /\ DOMAIN Waiting = 1 .. 2 /\ Waiting[1] = <<>> /\ Waiting[2] = <<>>
    BY <2>1, WaitingShape DEF Shape, Held, Init
  <2>3. InOrder /\ OnlyUndone /\ AllUndone
    BY <2>2 DEF InOrder, OnlyUndone, AllUndone, Init
  <2> QED
    BY <2>1, <2>3, LinesInvExact DEF LinesInv
<1>2. Init => LinesInv
  BY <1>1, LinesInvExact
<1>3. LinesInv => EveryLineOnce
  BY LinesInvExact DEF LinesInv
<1> QED
  BY <1>2, <1>3, NextLinesInv, PTL DEF Spec
=============================================================================
