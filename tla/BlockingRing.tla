----------------------------- MODULE BlockingRing -----------------------------
(***************************************************************************)
(* BlockingRing: a Ring_SDK behind one mutex and ONE condition variable,   *)
(* shared by the threads that wait for room and those that wait for items, *)
(* and notified with notify_one.  A call holds the mutex from its start to *)
(* its return or its wait, so every visit to the monitor is one step.      *)
(***************************************************************************)
EXTENDS Ring

CONSTANTS
  Producers,    \* threads that put items in
  Pollers,      \* threads that loop on try_pop_front
  Poppers,      \* threads that call pop_front and pop_back
  MayClean      \* does anyone clear the ring or drop its front?

Takers == Pollers \cup Poppers
Threads == Producers \cup Takers

ASSUME ThreadsAssumption ==
  /\ Producers \cap Takers = {} /\ Pollers \cap Poppers = {}
  /\ Blank \notin Items
  /\ MayClean \in BOOLEAN

VARIABLES
  call,       \* the operation each thread is in, or Idle
  waiting,    \* threads asleep on _condv
  late,       \* threads whose wait_for ran out of time, before they look again
  taken       \* the item each taker's last successful call returned

vars == <<ringVars, call, waiting, late, taken>>

Idle == [op |-> "none"]
PutCalls == [op : {"push_back", "push_front"}, item : Items]
CallsOf(t) == IF t \in Producers THEN PutCalls
              ELSE [op : IF t \in Pollers THEN {"try_pop_front"}
                         ELSE {"pop_front", "pop_back"}]

Init ==
  /\ RingInit
  /\ call = [t \in Threads |-> Idle]
  /\ waiting = {} /\ late = {}
  /\ taken = [t \in Takers |-> Blank]

(* The predicate the thread's call waits for. *)
Ready(t) == IF t \in Producers THEN NotFull ELSE NotEmpty

(* A thread that may take the mutex: just called, or just woken. *)
Runnable(t) == call[t] # Idle /\ t \notin waiting

(* notify_one: some sleeping thread wakes, whatever it waits for. *)
NotifyOne ==
  \/ waiting = {} /\ waiting' = {}
  \/ \E w \in waiting : waiting' = waiting \ {w}

Return(t) == call' = [call EXCEPT ![t] = Idle] /\ late' = late \ {t}

Call(t) ==
  /\ call[t] = Idle
  /\ \E c \in CallsOf(t) : call' = [call EXCEPT ![t] = c]
  /\ UNCHANGED <<ringVars, waiting, late, taken>>

(* The predicate does not hold: the thread goes to sleep (again). *)
Sleep(t) ==
  /\ Runnable(t) /\ ~Ready(t) /\ t \notin late
  /\ waiting' = waiting \cup {t}
  /\ UNCHANGED <<ringVars, call, late, taken>>

(* push_back, emplace_back, push_front *)
Put(t) ==
  /\ t \in Producers /\ Runnable(t) /\ Ready(t)
  /\ \/ call[t].op = "push_back" /\ AddBack(call[t].item)
     \/ call[t].op = "push_front" /\ AddFront(call[t].item)
  /\ NotifyOne /\ Return(t)
  /\ UNCHANGED taken

(* pop_front, pop_back, and the try_pop_front that finds an item *)
Take(t) ==
  /\ t \in Takers /\ Runnable(t) /\ Ready(t)
  /\ \/ /\ call[t].op = "pop_front"
        /\ taken' = [taken EXCEPT ![t] = Front] /\ TakeFront
     \/ /\ call[t].op = "pop_back"
        /\ taken' = [taken EXCEPT ![t] = Back] /\ TakeBack
     \/ /\ call[t].op = "try_pop_front"
        /\ taken' = [taken EXCEPT ![t] = Front] /\ DropFront
  /\ NotifyOne /\ Return(t)

(* The 100 ms of try_pop_front run out. *)
TimeOut(t) ==
  /\ t \in Pollers \cap waiting
  /\ waiting' = waiting \ {t} /\ late' = late \cup {t}
  /\ UNCHANGED <<ringVars, call, taken>>

(* Fault: a fruitless try_pop_front returns without a notification. *)
GiveUpSilently(t) ==
  /\ t \in late /\ ~Ready(t)
  /\ Return(t)
  /\ UNCHANGED <<ringVars, waiting, taken>>

(* try_pop_front returns false, and notifies all the same. *)
GiveUp(t) ==
  /\ t \in late /\ ~Ready(t)
  /\ NotifyOne /\ Return(t)
  /\ UNCHANGED <<ringVars, taken>>

(* A wakeup that nobody sent. *)
SpuriousWakeup(t) ==
  /\ t \in waiting
  /\ waiting' = waiting \ {t}
  /\ UNCHANGED <<ringVars, call, late, taken>>

(***************************************************************************)
(* clear, eff_clear and eff_pop_front notify nobody.  eff_pop_front does   *)
(* not look at the size; here its callers keep it off an empty ring.       *)
(***************************************************************************)
Clean ==
  /\ MayClean
  /\ Forget \/ Wipe \/ (NotEmpty /\ DropFront)
  /\ UNCHANGED <<call, waiting, late, taken>>

Next ==
  \/ \E t \in Threads : \/ Call(t) \/ Sleep(t) \/ Put(t) \/ Take(t)
                        \/ TimeOut(t) \/ GiveUp(t) \/ SpuriousWakeup(t)
  \/ Clean

Spec == Init /\ [][Next]_vars

(***************************************************************************)
(* A thread that can take the mutex gets it; wait_for has one deadline for *)
(* the whole call, which no wakeup puts off; and pollers call again, as    *)
(* Run and ParserThread do.  Nothing makes a producer call.                *)
(***************************************************************************)
Fairness ==
  /\ \A t \in Threads : WF_vars(Sleep(t) \/ Put(t) \/ Take(t) \/ GiveUp(t))
  /\ \A t \in Pollers : SF_vars(TimeOut(t)) /\ WF_vars(Call(t))

FairSpec == Spec /\ Fairness

-----------------------------------------------------------------------------
Calls == PutCalls \cup [op : {"none", "try_pop_front", "pop_front", "pop_back"}]

(* The ring is well-formed, only a thread inside a call sleeps, and only a  *)
(* poller that is awake is ever late.                                       *)
TypeOK ==
  /\ RingTypeOK
  /\ call \in [Threads -> Calls]
  /\ waiting \subseteq {t \in Threads : call[t] # Idle}
  /\ late \subseteq Pollers \ waiting
  /\ taken \in [Takers -> Items \cup {Blank}]

(* Whatever the interleaving of calls, wakeups and timeouts, the ring is a  *)
(* bounded queue: nothing is lost, doubled, reordered or taken from a blank.*)
Deque == INSTANCE BoundedDeque WITH
           Capacity <- N, Values <- Items, Nothing <- Blank, deque <- Contents
DequeSpec == Deque!Spec

(* A producer does not sleep on while there is room.  The notification that *)
(* says so may go to the wrong thread, and a clear sends none; the poller's *)
(* timeout has to make up for both.                                         *)
Stranded == {t \in waiting \cap Producers : NotFull}
StrandedProducersWake == \A t \in Producers : (t \in Stranded) ~> (t \notin Stranded)

=============================================================================
