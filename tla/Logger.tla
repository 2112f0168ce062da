-------------------------------- MODULE Logger --------------------------------
(***************************************************************************)
(* The logger of src/src/logging/logging.c shared by several threads.  While *)
(* log_thread_id is set, the other threads put their messages on            *)
(* log_stored_messages_list and the log thread outputs them; otherwise every *)
(* thread calls the log handlers itself.  A step is one access to shared    *)
(* state or one call of a handler; threads interleave between any two.      *)
(*                                                                         *)
(* The callers' side: handlers are registered before the threads start; one *)
(* thread makes itself the log thread, and stops being it; only that thread *)
(* calls bctbx_logv_flush (logging.h, l. 140).  Whether a message passes the *)
(* level check is the caller's choice here.                                *)
(***************************************************************************)
EXTENDS Integers, Sequences, FiniteSets, SequencesExt

CONSTANTS
  Threads,        \* the threads that log
  LogThread,      \* the one that calls bctbx_set_log_thread_id
  NoThread,       \* log_thread_id = 0
  Domains,        \* the names of log domains
  NoDomain,       \* no domain name (NULL)
  Handlers,       \* logv_outs, a sequence: Handlers[i] is the domain the handler is
                  \* limited to, NoDomain for all
  MaxMessages,    \* bound on the messages of each thread
  MaxSwitches     \* bound on the calls of bctbx_set_log_thread_id

ASSUME LoggerAssumption ==
  /\ LogThread \in Threads /\ NoThread \notin Threads /\ NoDomain \notin Domains
  /\ Handlers \in Seq(Domains \cup {NoDomain}) /\ Handlers # <<>>
  /\ MaxMessages \in [Threads -> Nat] /\ MaxSwitches \in Nat

VARIABLES
  log_thread_id,
  log_stored_messages_list,
  mutex,       \* log_stored_messages_mutex has not been destroyed
  pc,          \* where each thread is
  own,         \* the messages it is logging: at most one
  todo,        \* the messages it has taken from the list and has to output, then its own
  handler,     \* the index of the handler it calls next
  count,       \* the messages each thread has logged
  output,      \* the messages each handler has been given
  aborted,     \* the process has stopped after a fatal message
  switches,    \* calls of bctbx_set_log_thread_id
  raced        \* the list was used after its mutex had been destroyed, or was not
               \* empty when the log thread went

vars == <<log_thread_id, log_stored_messages_list, mutex, pc, own, todo, handler, count,
          output, aborted, switches, raced>>

Init ==
  /\ log_thread_id = NoThread
  /\ log_stored_messages_list = <<>>
  /\ mutex = TRUE
  /\ pc = [t \in Threads |-> "idle"]
  /\ own = [t \in Threads |-> <<>>]
  /\ todo = [t \in Threads |-> <<>>]
  /\ handler = [t \in Threads |-> 1]
  /\ count = [t \in Threads |-> 0]
  /\ output = [h \in DOMAIN Handlers |-> <<>>]
  /\ aborted = FALSE
  /\ switches = 0
  /\ raced = FALSE

Goto(t, l) == pc' = [pc EXCEPT ![t] = l]

-----------------------------------------------------------------------------
(* bctbx_logv.                                                             *)

\* The call, up to the first look at log_thread_id.
bctbx_logv(t, d, f) ==
  /\ pc[t] = "idle" /\ count[t] < MaxMessages[t]
  /\ LET m == [from |-> t, num |-> count[t] + 1, domain |-> d, fatal |-> f] IN
     own' = [own EXCEPT ![t] = <<m>>]
  /\ count' = [count EXCEPT ![t] = @ + 1]
  /\ Goto(t, IF log_thread_id = NoThread THEN "output" ELSE "route")
  /\ UNCHANGED <<log_thread_id, log_stored_messages_list, mutex, todo, handler, output,
                 aborted, switches, raced>>

\* The same for a fatal message of a level that is not enabled: it is not output, and yet
\* stops the process.
MaskedFatal(t) ==
  /\ pc[t] = "idle"
  /\ Goto(t, "abort")
  /\ UNCHANGED <<log_thread_id, log_stored_messages_list, mutex, own, todo, handler, count,
                 output, aborted, switches, raced>>

\* The second look at log_thread_id: the log thread flushes the list before it outputs its
\* own message, the others store theirs.
Route(t) ==
  /\ pc[t] = "route"
  /\ Goto(t, IF log_thread_id = t THEN "detach" ELSE "store")
  /\ UNCHANGED <<log_thread_id, log_stored_messages_list, mutex, own, todo, handler, count,
                 output, aborted, switches, raced>>

\* Where a thread that has dealt with its message goes: a fatal one stops the process
\* after a last flush.
Logged(m) == IF m.fatal THEN "abort" ELSE "idle"

\* (Mutant) The message is stored in front of the others.
StorePrepend(t) == log_stored_messages_list' = own[t] \o log_stored_messages_list

\* (Mutant) The message replaces the list.
StoreReplace(t) == log_stored_messages_list' = own[t]

\* The list with the message appended; without a mutex the message may be lost.
Append1(t) ==
  \/ log_stored_messages_list' = log_stored_messages_list \o own[t]
  \/ ~mutex /\ UNCHANGED log_stored_messages_list

Store(t) ==
  /\ pc[t] = "store"
  /\ Append1(t)
  /\ own' = [own EXCEPT ![t] = <<>>]
  /\ Goto(t, Logged(own[t][1]))
  /\ raced' = (raced \/ ~mutex \/ log_thread_id = NoThread)
  /\ UNCHANGED <<log_thread_id, mutex, todo, handler, count, output, aborted, switches>>

-----------------------------------------------------------------------------
(* _bctbx_logv_flush.                                                      *)

\* The list is taken from the logger, under its mutex; a thread that flushes before its abort
\* never comes back.
Detach(t) ==
  /\ pc[t] \in {"detach", "abort", "stop"}
  /\ todo' = [todo EXCEPT ![t] = log_stored_messages_list]
  /\ log_stored_messages_list' = <<>>
  /\ Goto(t, CASE pc[t] = "detach" -> "output"
               [] pc[t] = "abort" -> "aborting"
               [] pc[t] = "stop" -> "stopping")
  /\ raced' = (raced \/ ~mutex)
  /\ UNCHANGED <<log_thread_id, mutex, own, handler, count, output, aborted, switches>>

\* bctbx_logv: the handler takes messages of the domain, and those without one.
Matches(h, m) == Handlers[h] = NoDomain \/ m.domain \in {NoDomain, Handlers[h]}

Outputting == {"output", "aborting", "stopping"}

\* The message to output is the head of todo, then the thread's own.
Current(t) == IF todo[t] # <<>> THEN Head(todo[t]) ELSE own[t][1]

\* The handler to call after handler h.
NextHandler(h) == IF h = Len(Handlers) THEN 1 ELSE h + 1

\* (Mutant) The flush ends after one message.
NextElemNone(list) == <<>>

\* The messages to output after the head of the list.
NextElem(list) == Tail(list)

\* One handler is called for one message.  Messages from the list go to every handler.
Output(t) ==
  LET m == Current(t)
      h == handler[t]
      last == h = Len(Handlers)
  IN
  /\ pc[t] \in Outputting /\ (todo[t] # <<>> \/ own[t] # <<>>)
  /\ output' = IF todo[t] # <<>> \/ Matches(h, m)
               THEN [output EXCEPT ![h] = Append(@, m)] ELSE output
  /\ handler' = [handler EXCEPT ![t] = NextHandler(h)]
  /\ todo' = IF last /\ todo[t] # <<>> THEN [todo EXCEPT ![t] = NextElem(@)] ELSE todo
  /\ own' = IF last /\ todo[t] = <<>> THEN [own EXCEPT ![t] = <<>>] ELSE own
  /\ Goto(t, IF last /\ todo[t] = <<>> THEN Logged(m) ELSE pc[t])
  /\ UNCHANGED <<log_thread_id, log_stored_messages_list, mutex, count, aborted, switches, raced>>

\* The flush has output everything it has taken, and there is no message of the
\* thread's own.
FlushDone(t) == pc[t] \in Outputting /\ todo[t] = <<>> /\ own[t] = <<>>

Flushed(t) ==
  /\ FlushDone(t)
  /\ CASE pc[t] = "output" -> Goto(t, "idle") /\ UNCHANGED <<mutex, aborted>>
       [] pc[t] = "aborting" -> aborted' = TRUE /\ UNCHANGED <<pc, mutex>>
       [] pc[t] = "stopping" -> Goto(t, "stopped") /\ mutex' = FALSE /\ UNCHANGED aborted
  /\ UNCHANGED <<log_thread_id, log_stored_messages_list, own, todo, handler, count, output,
                 switches, raced>>

bctbx_logv_flush(t) ==
  /\ pc[t] = "idle" /\ log_thread_id = t
  /\ Goto(t, "detach")
  /\ UNCHANGED <<log_thread_id, log_stored_messages_list, mutex, own, todo, handler, count,
                 output, aborted, switches, raced>>

-----------------------------------------------------------------------------
(* bctbx_set_log_thread_id, of the caller's own id or of 0.                *)

StartLogThread ==
  /\ pc[LogThread] = "idle" /\ log_thread_id = NoThread /\ switches < MaxSwitches
  /\ mutex' = TRUE
  /\ Goto(LogThread, "starting")
  /\ switches' = switches + 1
  /\ UNCHANGED <<log_thread_id, log_stored_messages_list, own, todo, handler, count, output,
                 aborted, raced>>

StopLogThread ==
  /\ pc[LogThread] = "idle" /\ log_thread_id = LogThread /\ switches < MaxSwitches
  /\ Goto(LogThread, "stop")
  /\ switches' = switches + 1
  /\ UNCHANGED <<log_thread_id, log_stored_messages_list, mutex, own, todo, handler, count,
                 output, aborted, raced>>

SetLogThreadId ==
  /\ pc[LogThread] \in {"starting", "stopped"}
  /\ log_thread_id' = IF pc[LogThread] = "starting" THEN LogThread ELSE NoThread
  /\ Goto(LogThread, "idle")
  /\ raced' = (raced \/ (pc[LogThread] = "stopped" /\ log_stored_messages_list # <<>>))
  /\ UNCHANGED <<log_stored_messages_list, mutex, own, todo, handler, count, output, aborted,
                 switches>>

-----------------------------------------------------------------------------
\* The steps inside the logger.
Step(t) == Route(t) \/ Store(t) \/ Detach(t) \/ Output(t) \/ Flushed(t)

\* The calls of a thread.
Call(t) ==
  \/ \E d \in Domains \cup {NoDomain}, f \in BOOLEAN : bctbx_logv(t, d, f)
  \/ MaskedFatal(t)
  \/ bctbx_logv_flush(t)

Running(t) == ~aborted /\ (Step(t) \/ Call(t))

Next ==
  \/ \E t \in Threads : Running(t)
  \/ ~aborted /\ (StartLogThread \/ StopLogThread \/ SetLogThreadId)

\* The scheduler runs every thread that is inside the logger, and the log thread calls
\* bctbx_logv_flush again and again, as its loop is meant to.
Fairness ==
  /\ \A t \in Threads : WF_vars(~aborted /\ Step(t))
  /\ WF_vars(~aborted /\ SetLogThreadId)
  /\ WF_vars(~aborted /\ bctbx_logv_flush(LogThread))

Spec == Init /\ [][Next]_vars
FairSpec == Spec /\ Fairness

-----------------------------------------------------------------------------
\* No fatal message has been logged by a thread other than the log thread.
NoFatal == \A t \in Threads \ {LogThread} : pc[t] \notin {"abort", "aborting"}

\* Every handler gets the messages of a thread in the order the thread logged them, each
\* one once, whichever of the two ways they take: not with a fatal message, whose
\* flush overtakes the log thread's, and not when the log thread left while
\* another thread was about to store a message.
OutputInOrder ==
  NoFatal /\ ~raced => \A h \in DOMAIN Handlers : \A i, j \in DOMAIN output[h] :
    i < j /\ output[h][i].from = output[h][j].from => output[h][i].num < output[h][j].num

Held(m) ==
  \/ m \in Range(log_stored_messages_list)
  \/ \E t \in Threads : m \in Range(todo[t])

\* A message that bctbx_logv has returned from is on the list, in the hands of a thread that
\* flushes, or has been given to every handler that is not limited to a domain, unless
\* the log thread left while another thread was about to store a message.
NothingLost ==
  ~raced => \A t \in Threads : \A k \in 1 .. count[t] :
    \A h \in {g \in DOMAIN Handlers : Handlers[g] = NoDomain} :
      \/ \E i \in DOMAIN output[h] : output[h][i].from = t /\ output[h][i].num = k
      \/ \E d \in Domains \cup {NoDomain}, f \in BOOLEAN :
           Held([from |-> t, num |-> k, domain |-> d, fatal |-> f])
      \/ own[t] # <<>> /\ k = count[t]

\* While the log thread keeps flushing, a stored message is output (bctbx_logv l. 547,
\* _bctbx_logv_flush l. 492) by every handler its domain concerns (l. 115), unless the
\* process aborts.
StoredIsOutput ==
  \A t \in Threads : \A k \in 1 .. MaxMessages[t] : \A h \in DOMAIN Handlers :
    (\E m \in Range(log_stored_messages_list) : m.from = t /\ m.num = k /\ Matches(h, m))
      ~> (aborted \/ raced \/ \E m \in Range(output[h]) : m.from = t /\ m.num = k)

=============================================================================
