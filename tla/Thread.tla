------------------------------- MODULE Thread -------------------------------
(***************************************************************************)
(* Thread of thread.h and thread.cpp: one Thread object, used by one       *)
(* controlling thread, and the POSIX threads it has created.  What the     *)
(* body does is left to the module that EXTENDS this one; it moves a       *)
(* thread from "body" to "cleanup" when it returns or is cancelled.        *)
(*                                                                         *)
(* joinable_ is a volatile bool that two threads access without a lock;    *)
(* the byte is read and written in one access on every target.             *)
(***************************************************************************)
EXTENDS Naturals

CONSTANTS
  ThreadIds,  \* bound: the POSIX threads that exist at a time
  None        \* THREAD_ID_INVALID

ASSUME NoneIsNoThread == None \notin ThreadIds

VARIABLES
  joinable,   \* joinable_
  thread_id,  \* thread_id_
  posix,      \* the threads: "none", "body", "cleanup" (CleanUp not yet run),
              \*   "exiting", "ended" (may be joined)
  cancelled,  \* the threads with a cancellation pending
  call        \* the controller: "none", or "creating", "joining" in Start, Join

thread_vars == <<joinable, thread_id, posix, cancelled, call>>

ThreadInit ==
  /\ joinable = FALSE
  /\ thread_id = None
  /\ posix = [t \in ThreadIds |-> "none"]
  /\ cancelled = {}
  /\ call = "none"

-----------------------------------------------------------------------------
(* Mutant: joinable_ is set when pthread_create has returned. *)
StartUnmarked ==
  /\ call = "none" /\ ~ joinable
  /\ call' = "creating"
  /\ UNCHANGED <<joinable, thread_id, posix, cancelled>>

(* Start() refuses while joinable_ says that a thread is there.              *)
Start ==
  /\ call = "none" /\ ~ joinable
  /\ joinable' = TRUE
  /\ call' = "creating"
  /\ UNCHANGED <<thread_id, posix, cancelled>>

CreateThread ==
  /\ call = "creating"
  /\ \E t \in ThreadIds :
       /\ posix[t] = "none"
       /\ thread_id' = t
       /\ posix' = [posix EXCEPT ![t] = "body"]
  /\ call' = "none"
  /\ UNCHANGED <<joinable, cancelled>>

CreateFails ==
  /\ call = "creating"
  /\ joinable' = FALSE
  /\ call' = "none"
  /\ UNCHANGED <<thread_id, posix, cancelled>>

(* pthread_cancel() is defined for a thread that exists and is not joined.  *)
Cancellable == thread_id # None /\ posix[thread_id] # "none"

Cancel ==
  /\ Cancellable
  /\ cancelled' = IF posix[thread_id] = "body" THEN cancelled \cup {thread_id} ELSE cancelled

(* Join() returns at once when joinable_ says that no thread is there.       *)
Join ==
  /\ call' = IF joinable THEN "joining" ELSE "none"
  /\ UNCHANGED <<joinable, thread_id, posix, cancelled>>

JoinReturns ==
  /\ call = "joining"
  /\ posix[thread_id] = "ended"
  /\ posix' = [posix EXCEPT ![thread_id] = "none"]
  /\ call' = "none"
  /\ UNCHANGED <<joinable, thread_id, cancelled>>

-----------------------------------------------------------------------------
(* The thread itself. *)

(* The body returns or is cancelled: the clean-up handler comes next. *)
LeaveBody(t) ==
  /\ posix[t] = "body"
  /\ posix' = [posix EXCEPT ![t] = "cleanup"]
  /\ cancelled' = cancelled \ {t}
  /\ UNCHANGED <<joinable, thread_id, call>>

(* The cancellation takes effect, at a cancellation point of the body. *)
TakeCancel(t) == t \in cancelled /\ LeaveBody(t)

CleanUp(t) ==
  /\ posix[t] = "cleanup"
  /\ joinable' = FALSE
  /\ posix' = [posix EXCEPT ![t] = "exiting"]
  /\ UNCHANGED <<thread_id, cancelled, call>>

Exit(t) ==
  /\ posix[t] = "exiting"
  /\ posix' = [posix EXCEPT ![t] = "ended"]
  /\ UNCHANGED <<joinable, thread_id, cancelled, call>>

-----------------------------------------------------------------------------
(* Once Joinable() says no, hence whenever Join() has returned, no thread    *)
(* created by the object runs its body or will touch the object again; and   *)
(* while it says yes there is the one thread that Join() waits for           *)
(* (thread.cpp:41-69, 103-122).  So a Thread can be destroyed or started     *)
(* again although Join() may return before the POSIX thread has ended.       *)
JoinableIsExact ==
  LET touching == {t \in ThreadIds : posix[t] \in {"body", "cleanup"}}
  IN IF joinable THEN call = "creating" \/ touching = {thread_id} ELSE touching = {}
=============================================================================
