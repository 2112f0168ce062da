----------------------------- MODULE LoggerProofs -----------------------------
(***************************************************************************)
(* Theorems about Logger, for any threads, handlers, domains and numbers   *)
(* of messages: no message is lost and every handler gets the messages of  *)
(* a thread in their order.                                                *)
(***************************************************************************)
EXTENDS Logger, SequenceTheorems, TLAPS

-----------------------------------------------------------------------------
(* The inductive invariant.                                                *)

Messages == [from : Threads, num : Nat, domain : Domains \cup {NoDomain}, fatal : BOOLEAN]

Places == {"idle", "output", "route", "store", "detach", "abort", "stop", "aborting",
           "stopping", "stopped", "starting"}

TypeOK ==
  /\ log_thread_id \in {NoThread, LogThread}
  /\ log_stored_messages_list \in Seq(Messages)
  /\ mutex \in BOOLEAN /\ aborted \in BOOLEAN /\ raced \in BOOLEAN
  /\ pc \in [Threads -> Places]
  /\ own \in [Threads -> Seq(Messages)] /\ todo \in [Threads -> Seq(Messages)]
  /\ handler \in [Threads -> DOMAIN Handlers]
  /\ count \in [Threads -> Nat]
  /\ output \in [DOMAIN Handlers -> Seq(Messages)]
  /\ switches \in Nat

\* Only the log thread flushes the list without a fatal message, and it changes
\* log_thread_id only while it is not logging.
PlaceInv ==
  /\ \A t \in Threads \ {LogThread} :
       /\ pc[t] \notin {"detach", "stop", "stopping", "stopped", "starting"}
       /\ pc[t] = "output" => todo[t] = <<>>
  /\ pc[LogThread] # "store"
  /\ pc[LogThread] \in {"route", "stop", "stopping", "stopped"} => log_thread_id = LogThread

\* A thread has a message of its own from the call of bctbx_logv until it has been stored
\* or output, and takes messages from the list only to output them.
OwnOf(t) ==
  /\ pc[t] \in {"route", "store"} => own[t] # <<>>
  /\ own[t] # <<>> =>
       /\ pc[t] \in {"route", "store", "detach", "output"}
       /\ Len(own[t]) = 1 /\ own[t][1].from = t /\ own[t][1].num = count[t]
  /\ todo[t] # <<>> => pc[t] \in Outputting
  /\ handler[t] # 1 => pc[t] \in Outputting /\ (todo[t] # <<>> \/ own[t] # <<>>)

OwnInv == \A t \in Threads : OwnOf(t)

\* The handler has been given the k-th message of the thread.
Given(h, t, k) == \E i \in DOMAIN output[h] : output[h][i].from = t /\ output[h][i].num = k

\* The handlers before the next one have been given the message being output.
GivenInv ==
  \A t \in Threads : \A h \in DOMAIN Handlers :
    Handlers[h] = NoDomain /\ h < handler[t] => Given(h, Current(t).from, Current(t).num)

\* The k-th message of the thread waits for its output.
Waits(t, k) ==
  \/ \E i \in DOMAIN log_stored_messages_list :
        log_stored_messages_list[i].from = t /\ log_stored_messages_list[i].num = k
  \/ \E u \in Threads : \E i \in DOMAIN todo[u] : todo[u][i].from = t /\ todo[u][i].num = k

Kept(t, k, h) == Given(h, t, k) \/ Waits(t, k) \/ (own[t] # <<>> /\ k = count[t])

\* No message has been lost on its way to a handler for all domains.
KeptInv ==
  ~raced => \A t \in Threads : \A k \in 1 .. count[t] : \A h \in DOMAIN Handlers :
              Handlers[h] = NoDomain => Kept(t, k, h)

\* What the log thread has to output before anything else.
Pending == todo[LogThread] \o log_stored_messages_list

\* Nothing is pending while there is no log thread.
EmptyInv == ~raced /\ log_thread_id = NoThread => Pending = <<>>

\* The messages of one thread that are pending are in order.
PendingOrder ==
  \A i, j \in DOMAIN Pending :
    i < j /\ Pending[i].from = Pending[j].from => Pending[i].num < Pending[j].num

\* A pending message comes from another thread than the log thread, which is not
\* outputting one itself, and is earlier than the one that thread is logging.
PendingOwn ==
  \A i \in DOMAIN Pending : LET t == Pending[i].from IN
    /\ t # LogThread /\ pc[t] # "output"
    /\ Pending[i].num <= count[t]
    /\ own[t] # <<>> => Pending[i].num < count[t]

\* What has been output is earlier than what is pending, but for a message that only some
\* handlers have been given.
OutputPending ==
  \A h \in DOMAIN Handlers : \A i \in DOMAIN output[h], j \in DOMAIN Pending :
    output[h][i].from = Pending[j].from =>
      \/ output[h][i].num < Pending[j].num
      \/ /\ j = 1 /\ todo[LogThread] # <<>> /\ h < handler[LogThread]
         /\ output[h][i].num <= Pending[j].num

\* It is also earlier than the message that its thread is logging.
OutputOwn ==
  \A h \in DOMAIN Handlers : \A i \in DOMAIN output[h] : LET t == output[h][i].from IN
    /\ output[h][i].num <= count[t]
    /\ own[t] # <<>> => \/ output[h][i].num < count[t]
                        \/ pc[t] = "output" /\ todo[t] = <<>> /\ h < handler[t]

OutputOrder ==
  \A h \in DOMAIN Handlers : \A i, j \in DOMAIN output[h] :
    i < j /\ output[h][i].from = output[h][j].from => output[h][i].num < output[h][j].num

OrderInv ==
  NoFatal /\ ~raced => /\ PendingOrder /\ PendingOwn
                       /\ OutputPending /\ OutputOwn /\ OutputOrder

IInv ==
  /\ TypeOK /\ PlaceInv /\ OwnInv /\ GivenInv /\ KeptInv /\ EmptyInv /\ OrderInv

-----------------------------------------------------------------------------
(* Facts about the state.                                                  *)

\* The handlers are numbered from 1.
LEMMA HandlerNumbers ==
  /\ DOMAIN Handlers = 1 .. Len(Handlers) /\ Len(Handlers) \in Nat \ {0}
  /\ 1 \in DOMAIN Handlers
  /\ \A h \in DOMAIN Handlers : h \in Nat /\ NextHandler(h) \in DOMAIN Handlers
  BY LoggerAssumption DEF NextHandler

\* Two sequences joined.
LEMMA JoinFacts ==
  ASSUME NEW S, NEW a \in Seq(S), NEW b \in Seq(S)
  PROVE  /\ a \o b \in Seq(S) /\ DOMAIN (a \o b) = 1 .. Len(a \o b)
         /\ Len(a \o b) = Len(a) + Len(b) /\ Len(a) \in Nat /\ Len(b) \in Nat
         /\ \A i \in DOMAIN (a \o b) :
              (a \o b)[i] = IF i <= Len(a) THEN a[i] ELSE b[i - Len(a)]
  OBVIOUS

\* A sequence with one more element.
LEMMA JoinOne ==
  ASSUME NEW S, NEW a \in Seq(S), NEW b \in Seq(S), Len(b) = 1
  PROVE  /\ a \o b \in Seq(S) /\ Len(a \o b) = Len(a) + 1 /\ (a \o b)[Len(a) + 1] = b[1]
         /\ \A i \in 1 .. Len(a) : (a \o b)[i] = a[i]
<1> DEFINE c == a \o b
<1>1. /\ c \in Seq(S) /\ Len(c) = Len(a) + Len(b)
      /\ \A i \in 1 .. Len(a) + Len(b) : c[i] = IF i <= Len(a) THEN a[i] ELSE b[i - Len(a)]
  BY ConcatProperties, Zenon
<1>2. Len(a) \in Nat
  BY LenProperties, Zenon
<1> HIDE DEF c
<1>3. Len(c) = Len(a) + 1 /\ Len(a) + 1 - Len(a) = 1
  BY <1>1, <1>2
<1>4. c[Len(a) + 1] = b[1] /\ \A i \in 1 .. Len(a) : c[i] = a[i]
  BY <1>1, <1>2, <1>3
<1> QED
  BY <1>1, <1>3, <1>4 DEF c

LEMMA JoinThree ==
  \A a, b, c \in Seq(Messages) : (a \o b) \o c = a \o (b \o c)
  BY ConcatAssociative

\* What is pending: first what the log thread has taken, then the list.
LEMMA PendingFacts ==
  ASSUME TypeOK
  PROVE  /\ Pending \in Seq(Messages) /\ DOMAIN Pending = 1 .. Len(Pending)
         /\ Len(Pending) = Len(todo[LogThread]) + Len(log_stored_messages_list)
         /\ Len(todo[LogThread]) \in Nat /\ Len(log_stored_messages_list) \in Nat
         /\ \A i \in DOMAIN Pending :
              Pending[i] = IF i <= Len(todo[LogThread]) THEN todo[LogThread][i]
                           ELSE log_stored_messages_list[i - Len(todo[LogThread])]
         /\ \A i \in DOMAIN Pending : Pending[i] \in Messages
<1>1. todo[LogThread] \in Seq(Messages) /\ log_stored_messages_list \in Seq(Messages)
  BY LoggerAssumption DEF TypeOK
<1> QED
  BY <1>1, JoinFacts, ElementOfSeq DEF Pending

\* What has been output are messages.
LEMMA OutputFacts ==
  ASSUME TypeOK, NEW h \in DOMAIN Handlers
  PROVE  /\ output[h] \in Seq(Messages) /\ DOMAIN output[h] = 1 .. Len(output[h])
         /\ Len(output[h]) \in Nat
         /\ \A i \in DOMAIN output[h] : output[h][i] \in Messages /\ output[h][i].from \in Threads
                                        /\ output[h][i].num \in Nat
<1>1. output[h] \in Seq(Messages)
  BY DEF TypeOK
<1>2. \A i \in DOMAIN output[h] : output[h][i] \in Messages
  BY <1>1, ElementOfSeq
<1> QED
  BY <1>1, <1>2 DEF Messages

LEMMA LoggerInit == Init => IInv
<1> SUFFICES ASSUME Init PROVE IInv
  OBVIOUS
<1> USE DEF Init
<1>1. TypeOK
  <2>1. <<>> \in Seq(Messages)
    OBVIOUS
  <2>2. 1 \in DOMAIN Handlers
    BY HandlerNumbers
  <2> QED
    BY <2>1, <2>2 DEF TypeOK, Places
<1>2. PlaceInv /\ OwnInv
  BY LoggerAssumption DEF PlaceInv, OwnInv, OwnOf
<1>3. GivenInv
  BY HandlerNumbers DEF GivenInv
<1>4. KeptInv
  BY DEF KeptInv
<1>5. Pending = <<>>
  BY LoggerAssumption DEF Pending
<1>6. EmptyInv
  BY <1>5 DEF EmptyInv
<1>7. OrderInv
  BY <1>5 DEF OrderInv, PendingOrder, PendingOwn, OutputPending, OutputOwn, OutputOrder
<1> QED
  BY <1>1, <1>2, <1>3, <1>4, <1>6, <1>7 DEF IInv

\* A thread that is to abort does nothing else.
LEMMA FatalStays ==
  ASSUME IInv, Next, NEW t \in Threads, pc[t] \in {"abort", "aborting"}
  PROVE  pc'[t] \in {"abort", "aborting"}
<1>1. own[t] = <<>> /\ pc \in [Threads -> Places]
  BY DEF IInv, OwnInv, OwnOf, TypeOK
<1>2. ASSUME NEW u \in Threads, Step(u) PROVE pc'[t] \in {"abort", "aborting"}
  <2>1. CASE u # t
    BY <1>1, <1>2, <2>1
    DEF Step, Route, Store, Detach, Output, Flushed, FlushDone, Goto, Outputting
  <2>2. CASE u = t /\ Detach(u)
    BY <1>1, <2>2 DEF Detach, Goto
  <2>3. CASE u = t /\ Output(u)
    BY <1>1, <2>3 DEF Output, Goto
  <2>4. CASE u = t /\ Flushed(u)
    BY <1>1, <2>4 DEF Flushed, FlushDone, Goto, Outputting
  <2> QED
    BY <1>2, <2>1, <2>2, <2>3, <2>4 DEF Step, Route, Store
<1>3. ASSUME NEW u \in Threads, Call(u) PROVE pc'[t] \in {"abort", "aborting"}
  BY <1>1, <1>3 DEF Call, bctbx_logv, MaskedFatal, bctbx_logv_flush, Goto
<1>4. CASE StartLogThread \/ StopLogThread \/ SetLogThreadId
  BY <1>1, <1>4 DEF StartLogThread, StopLogThread, SetLogThreadId, Goto
<1> QED
  BY <1>2, <1>3, <1>4 DEF Next, Running

LEMMA FatalLasts == IInv /\ Next /\ NoFatal' => NoFatal
  BY FatalStays DEF NoFatal

\* A step that moves no message.
LEMMA QuietStep ==
  ASSUME IInv, Next, TypeOK', PlaceInv', OwnInv', EmptyInv', raced => raced',
         UNCHANGED <<log_stored_messages_list, own, todo, handler, count, output>>,
         \A t \in Threads : pc'[t] = "output" => pc[t] = "output",
         \A t \in Threads : pc[t] = "output" /\ own[t] # <<>> => pc'[t] = "output"
  PROVE  IInv'
<1>1. GivenInv' /\ KeptInv'
  BY DEF IInv, GivenInv, KeptInv, Given, Kept, Waits, Current
<1>2. UNCHANGED Pending
  BY DEF Pending
<1>3. ASSUME NoFatal', ~raced' PROVE OrderInv'
  <2>1. PendingOrder /\ PendingOwn /\ OutputPending /\ OutputOwn /\ OutputOrder
    BY <1>3, FatalLasts DEF IInv, OrderInv
  <2>2. PendingOrder' /\ OutputPending' /\ OutputOrder'
    BY <1>2, <2>1 DEF PendingOrder, OutputPending, OutputOrder
  <2>3. \A i \in DOMAIN Pending : Pending[i].from \in Threads
    BY PendingFacts DEF IInv, Messages
  <2>4. PendingOwn'
    BY <1>2, <2>1, <2>3 DEF PendingOwn
  <2>5. \A h \in DOMAIN Handlers : \A i \in DOMAIN output[h] : output[h][i].from \in Threads
    BY OutputFacts DEF IInv
  <2>6. OutputOwn'
    BY <2>1, <2>5 DEF OutputOwn
  <2> QED
    BY <2>2, <2>4, <2>6 DEF OrderInv
<1> QED
  BY <1>1, <1>3 DEF IInv, OrderInv

\* The thread's own message stays with it when only its place changes.
LEMMA OwnQuiet ==
  ASSUME OwnInv, UNCHANGED <<own, todo, handler, count>>, NEW t \in Threads,
         \A u \in Threads \ {t} : pc'[u] = pc[u],
         pc'[t] \in {"route", "store"} => own[t] # <<>>,
         own[t] # <<>> => pc'[t] \in {"route", "store", "detach", "output"},
         todo[t] # <<>> \/ handler[t] # 1 => pc'[t] \in Outputting
  PROVE  OwnInv'
<1>1. ASSUME NEW u \in Threads \ {t} PROVE OwnOf(u)'
  BY <1>1 DEF OwnInv, OwnOf
<1>2. OwnOf(t)'
  BY DEF OwnInv, OwnOf
<1> QED
  BY <1>1, <1>2 DEF OwnInv

\* The steps that move no message.
LEMMA QuietSteps ==
  ASSUME IInv, Next, NEW t \in Threads,
         \/ MaskedFatal(t) \/ Route(t) \/ Flushed(t) \/ bctbx_logv_flush(t)
         \/ StartLogThread \/ StopLogThread \/ SetLogThreadId
  PROVE  IInv'
<1> DEFINE Quiet == /\ UNCHANGED <<log_stored_messages_list, own, todo, handler, count, output>>
                    /\ raced => raced'
<1> USE LoggerAssumption
<1>0. TypeOK /\ PlaceInv /\ OwnInv /\ EmptyInv
  BY DEF IInv
<1>1. CASE MaskedFatal(t) \/ Route(t) \/ bctbx_logv_flush(t)
  <2> USE DEF MaskedFatal, Route, bctbx_logv_flush, Goto
  <2>1. Quiet /\ UNCHANGED <<log_thread_id, mutex, aborted, switches, raced>>
    BY <1>1
  <2>2. TypeOK'
    BY <1>0, <1>1 DEF TypeOK, Places
  <2>3. PlaceInv'
    BY <1>0, <1>1 DEF TypeOK, PlaceInv
  <2>4. OwnInv'
    <3>1. /\ pc'[t] \in {"route", "store"} => own[t] # <<>>
          /\ own[t] # <<>> => pc'[t] \in {"route", "store", "detach", "output"}
          /\ todo[t] # <<>> \/ handler[t] # 1 => pc'[t] \in Outputting
          /\ \A u \in Threads \ {t} : pc'[u] = pc[u]
      BY <1>0, <1>1, ZenonT(40) DEF TypeOK, OwnInv, OwnOf, Outputting
    <3> QED
      BY <1>0, <2>1, <3>1, OwnQuiet
  <2>5. EmptyInv'
    BY <1>0, <2>1 DEF EmptyInv, Pending
  <2>6. \A u \in Threads : pc'[u] = "output" <=> pc[u] = "output"
    BY <1>0, <1>1 DEF TypeOK
  <2> QED
    BY <2>1, <2>2, <2>3, <2>4, <2>5, <2>6, QuietStep
<1>2. CASE Flushed(t)
  <2> USE DEF Flushed, FlushDone, Goto, Outputting
  <2>1. Quiet /\ UNCHANGED <<log_thread_id, switches, raced>>
    BY <1>2
  <2>2. TypeOK'
    BY <1>0, <1>2 DEF TypeOK, Places
  <2>3. PlaceInv'
    BY <1>0, <1>2 DEF TypeOK, PlaceInv
  <2>4. OwnInv'
    <3>1. /\ pc'[t] \in {"route", "store"} => own[t] # <<>>
          /\ own[t] # <<>> => pc'[t] \in {"route", "store", "detach", "output"}
          /\ todo[t] # <<>> \/ handler[t] # 1 => pc'[t] \in Outputting
          /\ \A u \in Threads \ {t} : pc'[u] = pc[u]
      BY <1>0, <1>2, ZenonT(40) DEF TypeOK, OwnInv, OwnOf, Outputting
    <3> QED
      BY <1>0, <2>1, <3>1, OwnQuiet
  <2>5. EmptyInv'
    BY <1>0, <2>1 DEF EmptyInv, Pending
  <2>6. \A u \in Threads : /\ pc'[u] = "output" => pc[u] = "output"
                           /\ pc[u] = "output" /\ own[u] # <<>> => pc'[u] = "output"
    BY <1>0, <1>2 DEF TypeOK
  <2> QED
    BY <2>1, <2>2, <2>3, <2>4, <2>5, <2>6, QuietStep
<1>3. CASE StartLogThread \/ StopLogThread
  <2> USE DEF StartLogThread, StopLogThread, Goto, Outputting
  <2>1. Quiet /\ UNCHANGED <<log_thread_id, raced>>
    BY <1>3
  <2>2. TypeOK'
    <3>0. mutex' \in BOOLEAN /\ aborted' \in BOOLEAN
      BY <1>0, <1>3, Zenon DEF TypeOK
    <3>1. switches' \in Nat
      BY <1>0, <1>3 DEF TypeOK
    <3>2. pc' \in [Threads -> Places]
      BY <1>0, <1>3 DEF TypeOK, Places
    <3> QED
      BY <1>0, <2>1, <3>0, <3>1, <3>2 DEF TypeOK
  <2>3. PlaceInv'
    BY <1>0, <1>3 DEF TypeOK, PlaceInv
  <2>4. OwnInv'
    <3>1. /\ pc'[LogThread] \in {"route", "store"} => own[LogThread] # <<>>
          /\ own[LogThread] # <<>> => pc'[LogThread] \in {"route", "store", "detach", "output"}
          /\ todo[LogThread] # <<>> \/ handler[LogThread] # 1 => pc'[LogThread] \in Outputting
          /\ \A u \in Threads \ {LogThread} : pc'[u] = pc[u]
      BY <1>0, <1>3, ZenonT(40) DEF TypeOK, OwnInv, OwnOf, Outputting
    <3> QED
      BY <1>0, <2>1, <3>1, OwnQuiet
  <2>5. EmptyInv'
    BY <1>0, <2>1 DEF EmptyInv, Pending
  <2>6. \A u \in Threads : pc'[u] = "output" <=> pc[u] = "output"
    BY <1>0, <1>3 DEF TypeOK
  <2> QED
    BY <2>1, <2>2, <2>3, <2>4, <2>5, <2>6, QuietStep
<1>4. CASE SetLogThreadId
  <2> USE DEF SetLogThreadId, Goto, Outputting
  <2>1. Quiet
    BY <1>4
  <2>2. TypeOK'
    BY <1>0, <1>4 DEF TypeOK, Places
  <2>3. PlaceInv'
    BY <1>0, <1>4 DEF TypeOK, PlaceInv
  <2>4. OwnInv'
    <3>1. /\ pc'[LogThread] \in {"route", "store"} => own[LogThread] # <<>>
          /\ own[LogThread] # <<>> => pc'[LogThread] \in {"route", "store", "detach", "output"}
          /\ todo[LogThread] # <<>> \/ handler[LogThread] # 1 => pc'[LogThread] \in Outputting
          /\ \A u \in Threads \ {LogThread} : pc'[u] = pc[u]
      BY <1>0, <1>4 DEF TypeOK, OwnInv, OwnOf, Outputting
    <3> QED
      BY <1>0, <2>1, <3>1, OwnQuiet
  <2>5. EmptyInv'
    <3>1. ~raced' /\ log_thread_id' = NoThread
            => todo[LogThread] = <<>> /\ log_stored_messages_list = <<>>
      BY <1>0, <1>4 DEF TypeOK, OwnInv, OwnOf
    <3> QED
      BY <2>1, <3>1 DEF EmptyInv, Pending
  <2>6. \A u \in Threads : pc'[u] = "output" <=> pc[u] = "output"
    BY <1>0, <1>4 DEF TypeOK
  <2> QED
    BY <2>1, <2>2, <2>3, <2>4, <2>5, <2>6, QuietStep
<1> QED
  BY <1>1, <1>2, <1>3, <1>4

\* A new message of the thread.
LEMMA LogvInv ==
  ASSUME IInv, Next, NEW t \in Threads, NEW d \in Domains \cup {NoDomain}, NEW f \in BOOLEAN,
         bctbx_logv(t, d, f)
  PROVE  IInv'
<1> DEFINE m == [from |-> t, num |-> count[t] + 1, domain |-> d, fatal |-> f]
<1>0. TypeOK /\ PlaceInv /\ OwnInv /\ EmptyInv
  BY DEF IInv
<1>1. /\ pc[t] = "idle" /\ own[t] = <<>> /\ todo[t] = <<>> /\ handler[t] = 1
      /\ count[t] \in Nat
  BY <1>0 DEF bctbx_logv, OwnInv, OwnOf, TypeOK, Outputting
<1>2. /\ own' = [own EXCEPT ![t] = <<m>>] /\ count' = [count EXCEPT ![t] = @ + 1]
      /\ pc' = [pc EXCEPT ![t] = IF log_thread_id = NoThread THEN "output" ELSE "route"]
      /\ UNCHANGED <<log_thread_id, log_stored_messages_list, mutex, todo, handler, output,
                     aborted, switches, raced>>
  BY DEF bctbx_logv, Goto
<1>3. m \in Messages /\ <<m>> \in Seq(Messages) /\ Len(<<m>>) = 1 /\ <<m>>[1] = m /\ <<m>> # <<>>
      /\ m.from = t /\ m.num = count[t] + 1
  BY <1>1 DEF Messages
<1> HIDE DEF m
<1>4. TypeOK'
  BY <1>0, <1>2, <1>3 DEF TypeOK, Places
<1>5. PlaceInv'
  BY <1>0, <1>1, <1>2, LoggerAssumption DEF PlaceInv, TypeOK
<1>6. OwnInv'
  <2>1. ASSUME NEW u \in Threads, u # t PROVE OwnOf(u)'
    BY <1>0, <1>2, <2>1 DEF OwnInv, OwnOf, TypeOK
  <2>2. OwnOf(t)'
    BY <1>0, <1>1, <1>2, <1>3 DEF OwnOf, TypeOK
  <2> QED
    BY <2>1, <2>2 DEF OwnInv
<1>7. GivenInv'
  <2> SUFFICES ASSUME NEW u \in Threads, NEW h \in DOMAIN Handlers, Handlers[h] = NoDomain,
                      h < handler'[u]
               PROVE  Given(h, Current(u).from, Current(u).num)'
    BY DEF GivenInv
  <2>1. u # t
    BY <1>1, <1>2, HandlerNumbers
  <2>2. Current(u)' = Current(u)
    BY <1>0, <1>2, <2>1 DEF Current, TypeOK
  <2>3. Given(h, Current(u).from, Current(u).num)
    BY <1>2 DEF IInv, GivenInv
  <2> QED
    BY <1>2, <2>2, <2>3 DEF Given
<1>8. KeptInv'
  <2> SUFFICES ASSUME ~raced', NEW u \in Threads, NEW k \in 1 .. count'[u],
                      NEW h \in DOMAIN Handlers, Handlers[h] = NoDomain
               PROVE  Kept(u, k, h)'
    BY DEF KeptInv
  <2>1. CASE u = t /\ k = count'[t]
    BY <1>0, <1>2, <1>3, <2>1 DEF Kept, TypeOK
  <2>2. CASE ~(u = t /\ k = count'[t])
    <3>1. k \in 1 .. count[u]
      BY <1>0, <1>1, <1>2, <2>2 DEF TypeOK
    <3>2. Kept(u, k, h)
      BY <1>2, <3>1 DEF IInv, KeptInv
    <3>3. own[u] # <<>> => own'[u] = own[u] /\ count'[u] = count[u]
      BY <1>0, <1>1, <1>2 DEF TypeOK
    <3> QED
      BY <1>2, <3>2, <3>3 DEF Kept, Given, Waits
  <2> QED
    BY <2>1, <2>2
<1>9. Pending' = Pending /\ EmptyInv'
  BY <1>0, <1>2 DEF Pending, EmptyInv
<1>10. OrderInv'
  <2> SUFFICES ASSUME NoFatal', ~raced'
               PROVE  (PendingOrder /\ PendingOwn /\ OutputPending /\ OutputOwn /\ OutputOrder)'
    BY DEF OrderInv
  <2>1. PendingOrder /\ PendingOwn /\ OutputPending /\ OutputOwn /\ OutputOrder
    BY <1>2, FatalLasts DEF IInv, OrderInv
  <2>2. PendingOrder' /\ OutputPending' /\ OutputOrder'
    BY <1>2, <1>9, <2>1 DEF PendingOrder, OutputPending, OutputOrder
  <2>3. PendingOwn'
    <3> SUFFICES ASSUME NEW i \in DOMAIN Pending
                 PROVE  LET u == Pending[i].from IN
                          /\ u # LogThread /\ pc'[u] # "output"
                          /\ Pending[i].num <= count'[u]
                          /\ own'[u] # <<>> => Pending[i].num < count'[u]
      BY <1>9 DEF PendingOwn
    <3> DEFINE u == Pending[i].from
    <3>1. /\ u \in Threads /\ Pending[i].num \in Nat
          /\ u # LogThread /\ pc[u] # "output" /\ Pending[i].num <= count[u]
          /\ own[u] # <<>> => Pending[i].num < count[u]
      BY <1>0, <2>1, PendingFacts DEF PendingOwn, Messages
    <3>2. log_thread_id # NoThread
      <4>0. Pending \in Seq(Messages) /\ i \in 1 .. Len(Pending)
        BY <1>0, PendingFacts
      <4>1. Pending # <<>>
        BY <4>0
      <4> QED
        BY <1>0, <1>2, <4>1 DEF EmptyInv
    <3> QED
      BY <1>0, <1>1, <1>2, <3>1, <3>2 DEF TypeOK
  <2>4. OutputOwn'
    <3> SUFFICES ASSUME NEW h \in DOMAIN Handlers, NEW i \in DOMAIN output[h]
                 PROVE  LET u == output[h][i].from IN
                          /\ output[h][i].num <= count'[u]
                          /\ own'[u] # <<>> =>
                               \/ output[h][i].num < count'[u]
                               \/ pc'[u] = "output" /\ todo'[u] = <<>> /\ h < handler'[u]
      BY <1>2 DEF OutputOwn
    <3> DEFINE u == output[h][i].from
    <3>1. /\ u \in Threads /\ output[h][i].num \in Nat
          /\ output[h][i].num <= count[u]
          /\ own[u] # <<>> => \/ output[h][i].num < count[u]
                              \/ pc[u] = "output" /\ todo[u] = <<>> /\ h < handler[u]
      BY <1>0, <2>1, OutputFacts DEF OutputOwn
    <3>2. CASE u = t
      BY <1>0, <1>1, <1>2, <3>1, <3>2 DEF TypeOK
    <3>3. CASE u # t
      <4>1. /\ count'[u] = count[u] /\ own'[u] = own[u] /\ pc'[u] = pc[u]
            /\ todo'[u] = todo[u] /\ handler'[u] = handler[u]
        BY <1>0, <1>2, <3>1, <3>3 DEF TypeOK
      <4> QED
        BY <3>1, <4>1
    <3> QED
      BY <3>2, <3>3
  <2> QED
    BY <2>2, <2>3, <2>4
<1> QED
  BY <1>4, <1>5, <1>6, <1>7, <1>8, <1>9, <1>10 DEF IInv

\* The message of a thread other than the log thread goes to the end of the list.
LEMMA StoreInv ==
  ASSUME IInv, Next, NEW t \in Threads, Store(t)
  PROVE  IInv'
<1> DEFINE m == own[t][1]
           list == log_stored_messages_list
<1>0. TypeOK /\ PlaceInv /\ OwnInv /\ EmptyInv
  BY DEF IInv
<1>1. /\ pc[t] = "store" /\ t # LogThread /\ todo[t] = <<>> /\ handler[t] = 1
      /\ own[t] # <<>> /\ Len(own[t]) = 1 /\ m.from = t /\ m.num = count[t]
      /\ own[t] \in Seq(Messages) /\ count[t] \in Nat
  BY <1>0 DEF Store, OwnInv, OwnOf, PlaceInv, TypeOK, Outputting
<1>2. /\ own' = [own EXCEPT ![t] = <<>>]
      /\ pc' = [pc EXCEPT ![t] = Logged(m)] /\ Logged(m) \in {"idle", "abort"}
      /\ raced' = (raced \/ ~mutex \/ log_thread_id = NoThread)
      /\ list' = list \o own[t] \/ (~mutex /\ list' = list)
      /\ UNCHANGED <<log_thread_id, mutex, todo, handler, count, output, aborted, switches>>
  BY DEF Store, Goto, Append1, Logged
<1>3. /\ list \in Seq(Messages) /\ list' \in Seq(Messages)
      /\ ~raced' => /\ ~raced /\ log_thread_id # NoThread
                    /\ Len(list') = Len(list) + 1 /\ list'[Len(list) + 1] = m
                    /\ \A i \in 1 .. Len(list) : list'[i] = list[i]
  <2>1. list \in Seq(Messages) /\ list \o own[t] \in Seq(Messages)
    BY <1>0, <1>1 DEF TypeOK
  <2>2. /\ Len(list \o own[t]) = Len(list) + 1 /\ (list \o own[t])[Len(list) + 1] = m
        /\ \A i \in 1 .. Len(list) : (list \o own[t])[i] = list[i]
    <3>1. list \in Seq(Messages) /\ own[t] \in Seq(Messages) /\ Len(own[t]) = 1
      BY <1>1, <2>1
    <3> HIDE DEF list
    <3> QED
      BY <3>1, JoinOne
  <2> QED
    BY <1>0, <1>2, <2>1, <2>2 DEF TypeOK
<1> HIDE DEF m
<1>4. TypeOK'
  <2>1. own' \in [Threads -> Seq(Messages)]
    BY <1>0, <1>2 DEF TypeOK
  <2>2. raced' \in BOOLEAN
    BY <1>2
  <2>3. pc' \in [Threads -> Places]
    BY <1>0, <1>2 DEF TypeOK, Places
  <2> QED
    BY <1>0, <1>2, <1>3, <2>1, <2>2, <2>3 DEF TypeOK
<1>5. PlaceInv'
  BY <1>0, <1>1, <1>2, LoggerAssumption DEF PlaceInv, TypeOK
<1>6. OwnInv'
  <2>1. ASSUME NEW u \in Threads, u # t PROVE OwnOf(u)'
    BY <1>0, <1>2, <2>1 DEF OwnInv, OwnOf, TypeOK
  <2>2. OwnOf(t)'
    BY <1>0, <1>1, <1>2 DEF OwnOf, TypeOK
  <2> QED
    BY <2>1, <2>2 DEF OwnInv
<1>7. GivenInv'
  <2> SUFFICES ASSUME NEW u \in Threads, NEW h \in DOMAIN Handlers, Handlers[h] = NoDomain,
                      h < handler'[u]
               PROVE  Given(h, Current(u).from, Current(u).num)'
    BY DEF GivenInv
  <2>1. u # t
    BY <1>1, <1>2, HandlerNumbers
  <2>2. Current(u)' = Current(u)
    BY <1>0, <1>2, <2>1 DEF Current, TypeOK
  <2>3. Given(h, Current(u).from, Current(u).num)
    BY <1>2 DEF IInv, GivenInv
  <2> QED
    BY <1>2, <2>2, <2>3 DEF Given
<1>8. KeptInv'
  <2> SUFFICES ASSUME ~raced', NEW u \in Threads, NEW k \in 1 .. count'[u],
                      NEW h \in DOMAIN Handlers, Handlers[h] = NoDomain
               PROVE  Kept(u, k, h)'
    BY DEF KeptInv
  <2>0. /\ DOMAIN list = 1 .. Len(list) /\ DOMAIN list' = 1 .. Len(list) + 1
        /\ Len(list) \in Nat
    BY <1>3
  <2>1. Kept(u, k, h)
    BY <1>2, <1>3 DEF IInv, KeptInv
  <2>2. CASE own[u] # <<>> /\ k = count[u] /\ u = t
    <3>1. Len(list) + 1 \in DOMAIN list'
      BY <2>0
    <3> QED
      BY <1>1, <1>3, <2>2, <3>1 DEF Kept, Waits
  <2>3. CASE own[u] # <<>> /\ k = count[u] /\ u # t
    BY <1>0, <1>2, <2>3 DEF Kept, TypeOK
  <2>4. CASE Given(h, u, k)
    BY <1>2, <2>4 DEF Kept, Given
  <2>5. CASE Waits(u, k)
    BY <1>2, <1>3, <2>0, <2>5 DEF Kept, Waits
  <2> QED
    BY <2>1, <2>2, <2>3, <2>4, <2>5 DEF Kept
<1>9. EmptyInv'
  BY <1>2, <1>3 DEF EmptyInv
<1>10. OrderInv'
  <2> SUFFICES ASSUME NoFatal', ~raced'
               PROVE  (PendingOrder /\ PendingOwn /\ OutputPending /\ OutputOwn /\ OutputOrder)'
    BY DEF OrderInv
  <2> DEFINE n == Len(Pending) + 1
  <2>1. PendingOrder /\ PendingOwn /\ OutputPending /\ OutputOwn /\ OutputOrder
    BY <1>3, FatalLasts DEF IInv, OrderInv
  <2>2. /\ DOMAIN Pending = 1 .. Len(Pending) /\ Len(Pending) \in Nat
        /\ DOMAIN Pending' = 1 .. n /\ Pending'[n] = m
        /\ \A i \in DOMAIN Pending : Pending'[i] = Pending[i]
        /\ \A i \in DOMAIN Pending : Pending[i].from \in Threads /\ Pending[i].num \in Nat
    <3>1. list' = list \o own[t]
      BY <1>2 DEF IInv, TypeOK
    <3>2. Pending' = todo[LogThread] \o (list \o own[t])
      BY <1>2, <3>1 DEF Pending
    <3>3. /\ todo[LogThread] \in Seq(Messages) /\ list \in Seq(Messages)
          /\ own[t] \in Seq(Messages) /\ Len(own[t]) = 1
      BY <1>0, <1>1, <1>3, LoggerAssumption DEF TypeOK
    <3>4. Pending' = Pending \o own[t]
      <4>1. (todo[LogThread] \o list) \o own[t] = todo[LogThread] \o (list \o own[t])
        BY <3>3, JoinThree, Zenon
      <4> QED
        BY <3>2, <4>1 DEF Pending
    <3>5. /\ Pending \in Seq(Messages) /\ DOMAIN Pending = 1 .. Len(Pending)
          /\ Len(Pending) \in Nat /\ \A i \in DOMAIN Pending : Pending[i] \in Messages
      BY <1>0, PendingFacts, LenProperties, Zenon
    <3>6. /\ Pending' \in Seq(Messages) /\ Len(Pending') = n
          /\ Pending'[n] = own[t][1]
          /\ \A i \in 1 .. Len(Pending) : Pending'[i] = Pending[i]
      BY <3>3, <3>4, <3>5, JoinOne
    <3>7. DOMAIN Pending' = 1 .. n
      BY <3>6
    <3> QED
      BY <3>5, <3>6, <3>7 DEF Messages, m
  <2>3. PendingOrder'
    BY <1>1, <2>1, <2>2 DEF PendingOrder, PendingOwn
  <2>4. PendingOwn'
    <3> SUFFICES ASSUME NEW i \in 1 .. n
                 PROVE  LET u == Pending'[i].from IN
                          /\ u # LogThread /\ pc'[u] # "output"
                          /\ Pending'[i].num <= count'[u]
                          /\ own'[u] # <<>> => Pending'[i].num < count'[u]
      BY <2>2 DEF PendingOwn
    <3>1. CASE i = n
      BY <1>0, <1>1, <1>2, <2>2, <3>1 DEF TypeOK
    <3>2. CASE i \in DOMAIN Pending
      BY <1>0, <1>1, <1>2, <2>1, <2>2, <3>2 DEF TypeOK, PendingOwn
    <3> QED
      BY <2>2, <3>1, <3>2
  <2>5. OutputPending'
    <3> SUFFICES ASSUME NEW h \in DOMAIN Handlers, NEW i \in DOMAIN output[h],
                        NEW j \in 1 .. n, output[h][i].from = Pending'[j].from
                 PROVE  \/ output[h][i].num < Pending'[j].num
                        \/ /\ j = 1 /\ todo[LogThread] # <<>> /\ h < handler[LogThread]
                           /\ output[h][i].num <= Pending'[j].num
      BY <1>2, <2>2 DEF OutputPending
    <3>1. CASE j = n
      BY <1>1, <2>1, <2>2, <3>1 DEF OutputOwn
    <3>2. CASE j \in DOMAIN Pending
      BY <2>1, <2>2, <3>2 DEF OutputPending
    <3> QED
      BY <2>2, <3>1, <3>2
  <2>6. OutputOwn'
    <3> SUFFICES ASSUME NEW h \in DOMAIN Handlers, NEW i \in DOMAIN output[h]
                 PROVE  LET u == output[h][i].from IN
                          /\ output[h][i].num <= count'[u]
                          /\ own'[u] # <<>> =>
                               \/ output[h][i].num < count'[u]
                               \/ pc'[u] = "output" /\ todo'[u] = <<>> /\ h < handler'[u]
      BY <1>2 DEF OutputOwn
    <3> DEFINE u == output[h][i].from
    <3>1. /\ u \in Threads
          /\ output[h][i].num <= count[u]
          /\ own[u] # <<>> => \/ output[h][i].num < count[u]
                              \/ pc[u] = "output" /\ todo[u] = <<>> /\ h < handler[u]
      BY <1>0, <2>1, OutputFacts DEF OutputOwn
    <3> QED
      BY <1>0, <1>1, <1>2, <3>1 DEF TypeOK
  <2>7. OutputOrder'
    BY <1>2, <2>1 DEF OutputOrder
  <2> QED
    BY <2>3, <2>4, <2>5, <2>6, <2>7
<1> QED
  BY <1>4, <1>5, <1>6, <1>7, <1>8, <1>9, <1>10 DEF IInv

\* The list goes to the thread that flushes it.
LEMMA DetachInv ==
  ASSUME IInv, Next, NEW t \in Threads, Detach(t)
  PROVE  IInv'
<1> DEFINE list == log_stored_messages_list
           to == CASE pc[t] = "detach" -> "output"
                   [] pc[t] = "abort" -> "aborting"
                   [] pc[t] = "stop" -> "stopping"
<1>0. TypeOK /\ PlaceInv /\ OwnInv /\ EmptyInv
  BY DEF IInv
<1>1. /\ pc[t] \in {"detach", "abort", "stop"} /\ todo[t] = <<>> /\ handler[t] = 1
      /\ own[t] # <<>> => pc[t] = "detach"
      /\ t # LogThread => pc[t] = "abort"
  BY <1>0 DEF Detach, OwnInv, OwnOf, Outputting, PlaceInv
<1>2. /\ to \in Outputting /\ (to = "output" <=> pc[t] = "detach")
      /\ pc[t] = "abort" => to = "aborting"
      /\ pc[t] # "abort" => to # "aborting"
      /\ pc[t] # "stop" => to # "stopping"
  BY <1>1 DEF Outputting
<1>3. /\ todo' = [todo EXCEPT ![t] = list] /\ list' = <<>>
      /\ pc' = [pc EXCEPT ![t] = to]
      /\ raced' = (raced \/ ~mutex)
      /\ UNCHANGED <<log_thread_id, mutex, own, handler, count, output, aborted, switches>>
  BY DEF Detach, Goto
<1> HIDE DEF to
<1>4. TypeOK'
  <2>1. list \in Seq(Messages) /\ <<>> \in Seq(Messages)
    BY <1>0 DEF TypeOK
  <2>2. todo' \in [Threads -> Seq(Messages)] /\ list' \in Seq(Messages)
    BY <1>0, <1>3, <2>1 DEF TypeOK
  <2>3. raced' \in BOOLEAN
    BY <1>3
  <2>4. pc' \in [Threads -> Places]
    BY <1>0, <1>2, <1>3 DEF TypeOK, Places, Outputting
  <2> QED
    BY <1>0, <1>3, <2>2, <2>3, <2>4 DEF TypeOK
<1>5. PlaceInv'
  <2>1. ASSUME NEW u \in Threads \ {LogThread}
        PROVE  /\ pc'[u] \notin {"detach", "stop", "stopping", "stopped", "starting"}
               /\ pc'[u] = "output" => todo'[u] = <<>>
    BY <1>0, <1>1, <1>2, <1>3 DEF PlaceInv, TypeOK
  <2>2. /\ pc'[LogThread] # "store"
        /\ pc'[LogThread] \in {"route", "stop", "stopping", "stopped"}
             => log_thread_id' = LogThread
    BY <1>0, <1>1, <1>2, <1>3, LoggerAssumption DEF PlaceInv, TypeOK, Outputting
  <2> QED
    BY <2>1, <2>2 DEF PlaceInv
<1>6. OwnInv'
  <2>1. ASSUME NEW u \in Threads, u # t PROVE OwnOf(u)'
    BY <1>0, <1>3, <2>1 DEF OwnInv, OwnOf, TypeOK
  <2>2. OwnOf(t)'
    BY <1>0, <1>1, <1>2, <1>3 DEF OwnInv, OwnOf, TypeOK, Outputting
  <2> QED
    BY <2>1, <2>2 DEF OwnInv
<1>7. GivenInv'
  <2> SUFFICES ASSUME NEW u \in Threads, NEW h \in DOMAIN Handlers, Handlers[h] = NoDomain,
                      h < handler'[u]
               PROVE  Given(h, Current(u).from, Current(u).num)'
    BY DEF GivenInv
  <2>1. u # t
    BY <1>1, <1>3, HandlerNumbers
  <2>2. Current(u)' = Current(u)
    BY <1>0, <1>3, <2>1 DEF Current, TypeOK
  <2>3. Given(h, Current(u).from, Current(u).num)
    BY <1>3 DEF IInv, GivenInv
  <2> QED
    BY <1>3, <2>2, <2>3 DEF Given
<1>8. KeptInv'
  <2> SUFFICES ASSUME ~raced', NEW u \in Threads, NEW k \in 1 .. count'[u],
                      NEW h \in DOMAIN Handlers, Handlers[h] = NoDomain
               PROVE  Kept(u, k, h)'
    BY DEF KeptInv
  <2>1. Kept(u, k, h)
    BY <1>3 DEF IInv, KeptInv
  <2>2. ASSUME Waits(u, k) PROVE Waits(u, k)'
    <3>1. CASE \E i \in DOMAIN list : list[i].from = u /\ list[i].num = k
      <4>1. todo'[t] = list
        BY <1>0, <1>3 DEF TypeOK
      <4> QED
        BY <3>1, <4>1 DEF Waits
    <3>2. ASSUME NEW v \in Threads, NEW i \in DOMAIN todo[v],
                 todo[v][i].from = u /\ todo[v][i].num = k
          PROVE  Waits(u, k)'
      <4>1. v # t
        BY <1>1
      <4>2. todo'[v] = todo[v]
        BY <1>0, <1>3, <4>1 DEF TypeOK
      <4> QED
        BY <3>2, <4>2 DEF Waits
    <3> QED
      BY <2>2, <3>1, <3>2 DEF Waits
  <2> QED
    BY <1>3, <2>1, <2>2 DEF Kept, Given
<1>9. /\ t = LogThread => Pending' = Pending
      /\ t # LogThread /\ Pending = <<>> => Pending' = <<>>
  <2>1. list \in Seq(Messages) /\ todo[LogThread] \in Seq(Messages)
    BY <1>0, LoggerAssumption DEF TypeOK
  <2>2. /\ list \o <<>> = list /\ <<>> \o list = list
        /\ todo[LogThread] \o <<>> = todo[LogThread]
    BY <2>1, ConcatEmptySeq
  <2>3. todo[LogThread] \o list = <<>> => todo[LogThread] = <<>>
    BY <2>1, ConcatEqualIffEmpty
  <2>4. todo'[LogThread] = IF t = LogThread THEN list ELSE todo[LogThread]
    BY <1>0, <1>3, LoggerAssumption DEF TypeOK
  <2> QED
    BY <1>1, <1>3, <2>2, <2>3, <2>4 DEF Pending
<1>10. EmptyInv'
  BY <1>0, <1>3, <1>9 DEF EmptyInv
<1>11. OrderInv'
  <2> SUFFICES ASSUME NoFatal', ~raced'
               PROVE  (PendingOrder /\ PendingOwn /\ OutputPending /\ OutputOwn /\ OutputOrder)'
    BY DEF OrderInv
  <2>1. PendingOrder /\ PendingOwn /\ OutputPending /\ OutputOwn /\ OutputOrder
    BY <1>3, FatalLasts DEF IInv, OrderInv
  <2>2. t = LogThread
    <3>1. t # LogThread => pc'[t] = "aborting"
      BY <1>0, <1>1, <1>2, <1>3 DEF TypeOK
    <3> QED
      BY <3>1 DEF NoFatal
  <2>3. Pending' = Pending
    BY <1>9, <2>2
  <2>4. PendingOrder' /\ OutputOrder'
    BY <1>3, <2>1, <2>3 DEF PendingOrder, OutputOrder
  <2>5. OutputPending'
    BY <1>1, <1>3, <2>1, <2>2, <2>3 DEF OutputPending
  <2>6. \A u \in Threads : u # LogThread => pc'[u] = pc[u] /\ todo'[u] = todo[u]
    BY <1>0, <1>3, <2>2 DEF TypeOK
  <2>7. \A i \in DOMAIN Pending : Pending[i].from \in Threads
    BY <1>0, PendingFacts DEF Messages
  <2>8. PendingOwn'
    BY <1>3, <2>1, <2>3, <2>6, <2>7 DEF PendingOwn
  <2>9. \A h \in DOMAIN Handlers : \A i \in DOMAIN output[h] : output[h][i].from \in Threads
    BY <1>0, OutputFacts
  <2>10. OutputOwn'
    BY <1>1, <1>3, <2>1, <2>2, <2>6, <2>9 DEF OutputOwn
  <2> QED
    BY <2>4, <2>5, <2>8, <2>10
<1> QED
  BY <1>4, <1>5, <1>6, <1>7, <1>8, <1>10, <1>11 DEF IInv

\* One handler has been given one more message.
LEMMA OutputGrows ==
  ASSUME TypeOK, NEW h \in DOMAIN Handlers, NEW m \in Messages,
         output' = [output EXCEPT ![h] = Append(@, m)]
  PROVE  /\ output' \in [DOMAIN Handlers -> Seq(Messages)]
         /\ DOMAIN output[h] = 1 .. Len(output[h]) /\ Len(output[h]) \in Nat
         /\ DOMAIN output'[h] = 1 .. (Len(output[h]) + 1) /\ output'[h][Len(output[h]) + 1] = m
         /\ \A i \in DOMAIN output[h] : i \in DOMAIN output'[h] /\ output'[h][i] = output[h][i]
         /\ \A g \in DOMAIN Handlers : g # h => output'[g] = output[g]
         /\ \A u, k : Given(h, u, k) => Given(h, u, k)'
         /\ \A g \in DOMAIN Handlers : \A u, k : Given(g, u, k) => Given(g, u, k)'
         /\ Given(h, m.from, m.num)'
<1>1. /\ output[h] \in Seq(Messages) /\ DOMAIN output[h] = 1 .. Len(output[h])
      /\ Len(output[h]) \in Nat
  BY OutputFacts
<1>2. output'[h] = Append(output[h], m) /\ \A g \in DOMAIN Handlers : g # h => output'[g] = output[g]
  BY DEF TypeOK
<1>3. /\ Append(output[h], m) \in Seq(Messages)
      /\ Len(Append(output[h], m)) = Len(output[h]) + 1
      /\ Append(output[h], m)[Len(output[h]) + 1] = m
      /\ \A i \in 1 .. Len(output[h]) : Append(output[h], m)[i] = output[h][i]
  BY <1>1, AppendProperties
<1>4. DOMAIN output'[h] = 1 .. (Len(output[h]) + 1)
  BY <1>2, <1>3, LenProperties
<1>5. output' \in [DOMAIN Handlers -> Seq(Messages)]
  BY <1>3 DEF TypeOK
<1>6. \A i \in DOMAIN output[h] : i \in DOMAIN output'[h] /\ output'[h][i] = output[h][i]
  BY <1>1, <1>2, <1>3, <1>4
<1>7. Len(output[h]) + 1 \in DOMAIN output'[h] /\ output'[h][Len(output[h]) + 1] = m
  BY <1>1, <1>2, <1>3, <1>4
<1>8. \A u, k : Given(h, u, k) => Given(h, u, k)'
  BY <1>6 DEF Given
<1>9. \A g \in DOMAIN Handlers : \A u, k : Given(g, u, k) => Given(g, u, k)'
  BY <1>2, <1>8 DEF Given
<1>10. Given(h, m.from, m.num)'
  BY <1>7 DEF Given
<1> QED
  BY <1>1, <1>2, <1>4, <1>5, <1>6, <1>7, <1>8, <1>9, <1>10

\* A message taken from the list is given to one handler, and dropped behind the last one.
LEMMA OutputTakenInv ==
  ASSUME IInv, Next, NEW t \in Threads, Output(t), todo[t] # <<>>
  PROVE  IInv'
<1> DEFINE list == log_stored_messages_list
<1>0. TypeOK /\ PlaceInv /\ OwnInv /\ EmptyInv
  BY DEF IInv
<1>a. handler[t] \in DOMAIN Handlers
  BY <1>0 DEF TypeOK
<1>b. PICK h \in DOMAIN Handlers : h = handler[t]
  BY <1>a
<1>c. PICK m : m = Head(todo[t])
  OBVIOUS
<1> DEFINE last == h = Len(Handlers)
<1>1. /\ pc[t] \in Outputting /\ h \in DOMAIN Handlers /\ h \in Nat
      /\ t # LogThread => pc[t] = "aborting"
  BY <1>0, HandlerNumbers DEF Output, PlaceInv, TypeOK, Outputting
<1>2. /\ output' = [output EXCEPT ![h] = Append(@, m)]
      /\ handler' = [handler EXCEPT ![t] = NextHandler(h)]
      /\ todo' = IF last THEN [todo EXCEPT ![t] = Tail(@)] ELSE todo
      /\ own' = own /\ pc' = [pc EXCEPT ![t] = pc[t]]
      /\ UNCHANGED <<log_thread_id, list, mutex, count, aborted, switches, raced>>
  BY <1>b, <1>c DEF Output, Current, Goto, NextElem
<1>3. /\ todo[t] \in Seq(Messages) /\ m \in Messages /\ m = todo[t][1]
      /\ Len(todo[t]) \in Nat \ {0} /\ DOMAIN todo[t] = 1 .. Len(todo[t])
  <2>1. todo[t] \in Seq(Messages)
    BY <1>0 DEF TypeOK
  <2> QED
    BY <1>c, <2>1, HeadTailProperties, EmptySeq, LenProperties
<1>4. /\ Tail(todo[t]) \in Seq(Messages) /\ Len(Tail(todo[t])) = Len(todo[t]) - 1
      /\ \A i \in 1 .. Len(Tail(todo[t])) : Tail(todo[t])[i] = todo[t][i + 1]
      /\ DOMAIN Tail(todo[t]) = 1 .. Len(Tail(todo[t]))
  BY <1>3, HeadTailProperties, LenProperties
<1>5. pc' = pc
  BY <1>0, <1>2 DEF TypeOK
<1>6. /\ \A u \in Threads : u # t => todo'[u] = todo[u] /\ handler'[u] = handler[u]
      /\ handler'[t] = NextHandler(h)
      /\ ~last => todo'[t] = todo[t] /\ handler'[t] = h + 1
      /\ last => todo'[t] = Tail(todo[t]) /\ handler'[t] = 1
  BY <1>0, <1>2 DEF TypeOK, NextHandler
<1>7. TypeOK'
  <2>1. handler' \in [Threads -> DOMAIN Handlers]
    BY <1>0, <1>1, <1>2, HandlerNumbers DEF TypeOK
  <2>2. todo' \in [Threads -> Seq(Messages)]
    BY <1>0, <1>2, <1>4 DEF TypeOK
  <2>3. output' \in [DOMAIN Handlers -> Seq(Messages)]
    BY <1>0, <1>1, <1>2, <1>3, OutputGrows
  <2> QED
    BY <1>0, <1>2, <1>5, <2>1, <2>2, <2>3 DEF TypeOK
<1>8. PlaceInv'
  BY <1>0, <1>1, <1>2, <1>5, <1>6 DEF PlaceInv
<1>9. OwnInv'
  <2>1. ASSUME NEW u \in Threads, u # t PROVE OwnOf(u)'
    BY <1>0, <1>2, <1>5, <1>6, <2>1 DEF OwnInv, OwnOf
  <2>2. OwnOf(t)'
    BY <1>0, <1>1, <1>2, <1>5, <1>6 DEF OwnInv, OwnOf
  <2> QED
    BY <2>1, <2>2 DEF OwnInv
<1>10. /\ \A g \in DOMAIN Handlers : \A u, k : Given(g, u, k) => Given(g, u, k)'
       /\ Given(h, m.from, m.num)'
  BY <1>0, <1>1, <1>2, <1>3, OutputGrows
<1>11. Current(t) = m
  BY <1>c DEF Current
<1>12. GivenInv'
  <2> SUFFICES ASSUME NEW u \in Threads, NEW g \in DOMAIN Handlers, Handlers[g] = NoDomain,
                      g < handler'[u]
               PROVE  Given(g, Current(u).from, Current(u).num)'
    BY DEF GivenInv
  <2>1. CASE u = t
    <3>1. ~last /\ g <= h
      BY <1>1, <1>6, <2>1, HandlerNumbers
    <3>2. Current(t)' = m
      BY <1>6, <1>c, <3>1 DEF Current
    <3>3. g < h => Given(g, m.from, m.num)
      BY <1>b, <1>11 DEF IInv, GivenInv
    <3>4. g < h \/ g = h
      BY <1>1, <3>1, HandlerNumbers
    <3>5. Given(g, m.from, m.num)'
      BY <1>10, <3>3, <3>4
    <3> QED
      BY <2>1, <3>2, <3>5
  <2>2. CASE u # t
    <3>1. Current(u)' = Current(u)
      BY <1>2, <1>6, <2>2 DEF Current
    <3>2. Given(g, Current(u).from, Current(u).num)
      BY <1>6, <2>2 DEF IInv, GivenInv
    <3> QED
      BY <1>10, <3>1, <3>2
  <2> QED
    BY <2>1, <2>2
<1>13. KeptInv'
  <2> SUFFICES ASSUME ~raced', NEW u \in Threads, NEW k \in 1 .. count'[u],
                      NEW g \in DOMAIN Handlers, Handlers[g] = NoDomain
               PROVE  Kept(u, k, g)'
    BY DEF KeptInv
  <2>1. Kept(u, k, g)
    BY <1>2 DEF IInv, KeptInv
  <2>2. CASE Given(g, u, k)
    BY <1>10, <2>2 DEF Kept
  <2>3. CASE own[u] # <<>> /\ k = count[u]
    BY <1>2, <2>3 DEF Kept
  <2>4. CASE \E i \in DOMAIN list : list[i].from = u /\ list[i].num = k
    BY <1>2, <2>4 DEF Kept, Waits
  <2>5. ASSUME NEW v \in Threads, NEW i \in DOMAIN todo[v],
               todo[v][i].from = u /\ todo[v][i].num = k
        PROVE  Kept(u, k, g)'
    <3>1. CASE v # t \/ ~last
      <4>1. todo'[v] = todo[v]
        BY <1>6, <3>1
      <4> QED
        BY <2>5, <4>1 DEF Kept, Waits
    <3>2. CASE v = t /\ last /\ i # 1
      <4>1. /\ i - 1 \in DOMAIN Tail(todo[t])
            /\ Tail(todo[t])[i - 1] = todo[t][i]
        BY <1>3, <1>4, <3>2, SMTT(30)
      <4>2. todo'[t] = Tail(todo[t])
        BY <1>6, <3>2
      <4>3. \E j \in DOMAIN todo'[t] : todo'[t][j].from = u /\ todo'[t][j].num = k
        BY <2>5, <3>2, <4>1, <4>2
      <4> QED
        BY <4>3 DEF Kept, Waits
    <3>3. CASE v = t /\ last /\ i = 1
      <4>1. m.from = u /\ m.num = k
        BY <1>3, <2>5, <3>3
      <4>2. g < h \/ g = h
        BY <1>1, <3>3, HandlerNumbers
      <4>3. g < h => Given(g, m.from, m.num)
        BY <1>b, <1>11 DEF IInv, GivenInv
      <4> QED
        BY <1>10, <4>1, <4>2, <4>3 DEF Kept
    <3> QED
      BY <3>1, <3>2, <3>3
  <2> QED
    BY <2>1, <2>2, <2>3, <2>4, <2>5 DEF Kept, Waits
<1>14. t # LogThread \/ ~last => Pending' = Pending
  <2>1. t # LogThread \/ ~last => todo'[LogThread] = todo[LogThread]
    BY <1>6, LoggerAssumption
  <2> QED
    BY <1>2, <2>1 DEF Pending
<1>15. ASSUME t = LogThread
       PROVE  /\ Pending \in Seq(Messages) /\ DOMAIN Pending = 1 .. Len(Pending)
              /\ Len(Pending) \in Nat \ {0} /\ Pending[1] = m
              /\ \A i \in DOMAIN Pending : Pending[i].from \in Threads /\ Pending[i].num \in Nat
  <2>1. /\ Pending \in Seq(Messages) /\ DOMAIN Pending = 1 .. Len(Pending)
        /\ Len(Pending) = Len(todo[LogThread]) + Len(list) /\ Len(list) \in Nat
        /\ \A i \in DOMAIN Pending :
              Pending[i] = IF i <= Len(todo[LogThread]) THEN todo[LogThread][i]
                           ELSE list[i - Len(todo[LogThread])]
        /\ \A i \in DOMAIN Pending : Pending[i] \in Messages
    BY <1>0, PendingFacts
  <2>2. Len(Pending) \in Nat \ {0} /\ 1 \in DOMAIN Pending /\ 1 <= Len(todo[LogThread])
    BY <1>3, <1>15, <2>1
  <2>3. Pending[1] = m
    BY <1>3, <1>15, <2>1, <2>2
  <2> QED
    BY <2>1, <2>2, <2>3 DEF Messages
<1>16. ASSUME t = LogThread, last
       PROVE  /\ DOMAIN Pending' = 1 .. (Len(Pending) - 1)
              /\ \A i \in DOMAIN Pending' : i + 1 \in DOMAIN Pending /\ Pending'[i] = Pending[i + 1]
  <2>1. Pending' = Tail(todo[t]) \o list /\ Pending = todo[t] \o list
    BY <1>2, <1>6, <1>16 DEF Pending
  <2>2. list \in Seq(Messages)
    BY <1>0 DEF TypeOK
  <2> DEFINE a == todo[t]  b == Tail(todo[t])
  <2>3. /\ DOMAIN (a \o list) = 1 .. Len(a \o list) /\ Len(a \o list) = Len(a) + Len(list)
        /\ \A i \in DOMAIN (a \o list) :
             (a \o list)[i] = IF i <= Len(a) THEN a[i] ELSE list[i - Len(a)]
        /\ Len(a) \in Nat /\ Len(list) \in Nat
    BY <1>3, <2>2, JoinFacts
  <2>4. /\ DOMAIN (b \o list) = 1 .. Len(b \o list) /\ Len(b \o list) = Len(b) + Len(list)
        /\ \A i \in DOMAIN (b \o list) :
             (b \o list)[i] = IF i <= Len(b) THEN b[i] ELSE list[i - Len(b)]
        /\ Len(b) \in Nat
    BY <1>4, <2>2, JoinFacts
  <2>5. Len(b) = Len(a) - 1 /\ \A i \in 1 .. Len(b) : b[i] = a[i + 1]
    BY <1>4
  <2> HIDE DEF a, b
  <2>6. Len(b \o list) = Len(a \o list) - 1
    BY <2>3, <2>4, <2>5
  <2>7. DOMAIN (b \o list) = 1 .. (Len(a \o list) - 1)
    BY <2>4, <2>6
  <2>8. ASSUME NEW i \in DOMAIN (b \o list)
        PROVE  i + 1 \in DOMAIN (a \o list) /\ (b \o list)[i] = (a \o list)[i + 1]
    <3>1. i + 1 \in DOMAIN (a \o list) /\ i \in Nat /\ i >= 1
      BY <2>3, <2>4, <2>6
    <3>2. CASE i <= Len(b)
      <4>1. i + 1 <= Len(a) /\ i \in 1 .. Len(b)
        BY <2>3, <2>4, <2>5, <3>1, <3>2
      <4> QED
        BY <2>3, <2>4, <2>5, <3>1, <3>2, <4>1
    <3>3. CASE ~(i <= Len(b))
      <4>1. ~(i + 1 <= Len(a)) /\ i - Len(b) = i + 1 - Len(a)
        BY <2>3, <2>4, <2>5, <3>1, <3>3
      <4> QED
        BY <2>3, <2>4, <3>1, <3>3, <4>1
    <3> QED
      BY <3>1, <3>2, <3>3
  <2> QED
    BY <2>1, <2>7, <2>8 DEF a, b
<1>17. EmptyInv'
  <2>1. t = LogThread => Pending # <<>>
    BY <1>15
  <2> QED
    BY <1>0, <1>2, <1>14, <2>1 DEF EmptyInv
<1>18. OrderInv'
  <2> SUFFICES ASSUME NoFatal', ~raced'
               PROVE  (PendingOrder /\ PendingOwn /\ OutputPending /\ OutputOwn /\ OutputOrder)'
    BY DEF OrderInv
  <2>1. PendingOrder /\ PendingOwn /\ OutputPending /\ OutputOwn /\ OutputOrder
    BY <1>2, FatalLasts DEF IInv, OrderInv
  <2>2. t = LogThread
    BY <1>1, <1>5 DEF NoFatal
  <2>3. /\ DOMAIN Pending = 1 .. Len(Pending) /\ Len(Pending) \in Nat \ {0} /\ Pending[1] = m
        /\ 1 \in DOMAIN Pending
        /\ \A i \in DOMAIN Pending : Pending[i].from \in Threads /\ Pending[i].num \in Nat
    BY <1>15, <2>2
  <2>4. PendingOrder'
    <3>1. CASE ~last
      BY <1>14, <2>1, <3>1 DEF PendingOrder
    <3>2. CASE last
      <4> SUFFICES ASSUME NEW i \in DOMAIN Pending', NEW j \in DOMAIN Pending', i < j,
                          Pending'[i].from = Pending'[j].from
                   PROVE  Pending'[i].num < Pending'[j].num
        BY DEF PendingOrder
      <4>1. /\ i + 1 \in DOMAIN Pending /\ Pending'[i] = Pending[i + 1]
            /\ j + 1 \in DOMAIN Pending /\ Pending'[j] = Pending[j + 1]
            /\ i \in Int /\ j \in Int
        BY <1>16, <2>2, <2>3, <3>2
      <4>2. i + 1 < j + 1
        BY <4>1
      <4> QED
        BY <2>1, <4>1, <4>2 DEF PendingOrder
    <3> QED
      BY <3>1, <3>2
  <2>5. PendingOwn'
    BY <1>2, <1>5, <1>14, <1>16, <2>1, <2>2, <2>3 DEF PendingOwn
  <2>6. /\ DOMAIN output[h] = 1 .. Len(output[h]) /\ Len(output[h]) \in Nat
        /\ DOMAIN output'[h] = 1 .. (Len(output[h]) + 1) /\ output'[h][Len(output[h]) + 1] = m
        /\ \A i \in DOMAIN output[h] : i \in DOMAIN output'[h] /\ output'[h][i] = output[h][i]
        /\ \A g \in DOMAIN Handlers : g # h => output'[g] = output[g]
    BY <1>0, <1>1, <1>2, <1>3, OutputGrows
  <2>7. m.from \in Threads /\ m.num \in Nat
    BY <1>3 DEF Messages
  \* Every message in an output was there before, or is the head of what is pending.
  <2>8. ASSUME NEW g \in DOMAIN Handlers, NEW i \in DOMAIN output'[g]
        PROVE  \/ i \in DOMAIN output[g] /\ output'[g][i] = output[g][i]
               \/ g = h /\ i = Len(output[h]) + 1 /\ output'[g][i] = m
    BY <2>6
  <2>9. OutputOrder'
    <3> SUFFICES ASSUME NEW g \in DOMAIN Handlers, NEW i \in DOMAIN output'[g],
                        NEW j \in DOMAIN output'[g], i < j,
                        output'[g][i].from = output'[g][j].from
                 PROVE  output'[g][i].num < output'[g][j].num
      BY DEF OutputOrder
    <3>1. CASE i \in DOMAIN output[g] /\ j \in DOMAIN output[g]
      BY <2>1, <2>6, <3>1 DEF OutputOrder
    <3>2. CASE g = h /\ j = Len(output[h]) + 1 /\ i \in DOMAIN output[g]
      <4>1. output[h][i].num < m.num
        BY <1>b, <1>1, <2>1, <2>2, <2>3, <2>6, <3>2, SMTT(30) DEF OutputPending
      <4> QED
        BY <2>6, <3>2, <4>1
    <3> QED
      BY <2>6, <2>8, <3>1, <3>2
  <2>10. OutputOwn'
    <3> SUFFICES ASSUME NEW g \in DOMAIN Handlers, NEW i \in DOMAIN output'[g]
                 PROVE  LET u == output'[g][i].from IN
                          /\ output'[g][i].num <= count'[u]
                          /\ own'[u] # <<>> =>
                               \/ output'[g][i].num < count'[u]
                               \/ pc'[u] = "output" /\ todo'[u] = <<>> /\ g < handler'[u]
      BY DEF OutputOwn
    <3>1. CASE i \in DOMAIN output[g] /\ output'[g][i] = output[g][i]
      <4> DEFINE u == output[g][i].from
      <4>1. /\ u \in Threads /\ output[g][i].num <= count[u]
            /\ own[u] # <<>> => \/ output[g][i].num < count[u]
                                \/ pc[u] = "output" /\ todo[u] = <<>> /\ g < handler[u]
        BY <1>0, <2>1, <3>1, OutputFacts DEF OutputOwn
      <4>2. CASE u # t
        BY <1>2, <1>5, <1>6, <3>1, <4>1, <4>2
      <4>3. CASE u = t
        BY <1>2, <3>1, <4>1, <4>3
      <4> QED
        BY <4>2, <4>3
    <3>2. CASE output'[g][i] = m
      BY <1>2, <2>1, <2>3, <3>2 DEF PendingOwn
    <3> QED
      BY <2>8, <3>1, <3>2
  <2>11. OutputPending'
    <3> SUFFICES ASSUME NEW g \in DOMAIN Handlers, NEW i \in DOMAIN output'[g],
                        NEW j \in DOMAIN Pending', output'[g][i].from = Pending'[j].from
                 PROVE  \/ output'[g][i].num < Pending'[j].num
                        \/ /\ j = 1 /\ todo'[LogThread] # <<>> /\ g < handler'[LogThread]
                           /\ output'[g][i].num <= Pending'[j].num
      BY DEF OutputPending
    <3>1. CASE last
      <4>1. j + 1 \in DOMAIN Pending /\ Pending'[j] = Pending[j + 1] /\ j \in Nat /\ j >= 1
        BY <1>16, <2>2, <3>1
      <4>2. CASE i \in DOMAIN output[g] /\ output'[g][i] = output[g][i]
        BY <2>1, <4>1, <4>2 DEF OutputPending
      <4>3. CASE output'[g][i] = m
        BY <2>1, <2>3, <4>1, <4>3 DEF PendingOrder
      <4> QED
        BY <2>8, <4>2, <4>3
    <3>2. CASE ~last
      <4>1. Pending' = Pending /\ todo'[LogThread] = todo[LogThread]
            /\ handler'[LogThread] = h + 1 /\ todo[LogThread] # <<>>
        BY <1>6, <1>14, <2>2, <3>2
      <4>2. CASE i \in DOMAIN output[g] /\ output'[g][i] = output[g][i]
        <5>1. h = handler[LogThread] /\ (g < h => g < h + 1)
          BY <1>b, <1>1, <2>2, HandlerNumbers
        <5> QED
          BY <2>1, <4>1, <4>2, <5>1 DEF OutputPending
      <4>3. CASE g = h /\ output'[g][i] = m
        <5>1. j \in Nat /\ j >= 1 /\ g < h + 1
          BY <1>1, <2>3, <4>1, <4>3
        <5>2. CASE j = 1
          BY <2>3, <2>7, <4>1, <4>3, <5>1, <5>2
        <5>3. CASE j > 1
          BY <2>1, <2>3, <4>1, <4>3, <5>1, <5>3 DEF PendingOrder
        <5> QED
          BY <5>1, <5>2, <5>3
      <4> QED
        BY <2>8, <4>2, <4>3
    <3> QED
      BY <3>1, <3>2
  <2> QED
    BY <2>4, <2>5, <2>9, <2>10, <2>11
<1> QED
  BY <1>7, <1>8, <1>9, <1>12, <1>13, <1>17, <1>18 DEF IInv

\* A thread gives its own message to one handler, and has none behind the last one.
LEMMA OutputOwnInv ==
  ASSUME IInv, Next, NEW t \in Threads, Output(t), todo[t] = <<>>
  PROVE  IInv'
<1>0. TypeOK /\ PlaceInv /\ OwnInv /\ EmptyInv
  BY DEF IInv
<1>a. handler[t] \in DOMAIN Handlers
  BY <1>0 DEF TypeOK
<1>b. PICK h \in DOMAIN Handlers : h = handler[t]
  BY <1>a
<1>c. PICK m : m = own[t][1]
  OBVIOUS
<1> DEFINE last == h = Len(Handlers)
           list == log_stored_messages_list
<1>1. /\ pc[t] = "output" /\ h \in Nat /\ own[t] # <<>>
      /\ m.from = t /\ m.num = count[t] /\ count[t] \in Nat /\ m \in Messages
  <2>1. pc[t] \in Outputting /\ own[t] # <<>>
    BY DEF Output
  <2>2. own[t] \in Seq(Messages) /\ Len(own[t]) = 1 /\ pc[t] = "output"
    BY <1>0, <2>1 DEF OwnInv, OwnOf, TypeOK, Outputting
  <2>3. m \in Messages
    BY <1>c, <2>2, ElementOfSeq
  <2> QED
    BY <1>0, <1>c, <2>1, <2>2, <2>3, HandlerNumbers DEF OwnInv, OwnOf, TypeOK
<1>2. /\ output' = IF Matches(h, m) THEN [output EXCEPT ![h] = Append(@, m)] ELSE output
      /\ handler' = [handler EXCEPT ![t] = NextHandler(h)]
      /\ todo' = todo
      /\ own' = IF last THEN [own EXCEPT ![t] = <<>>] ELSE own
      /\ pc' = [pc EXCEPT ![t] = IF last THEN Logged(m) ELSE pc[t]]
      /\ Logged(m) \in {"idle", "abort"}
      /\ UNCHANGED <<log_thread_id, list, mutex, count, aborted, switches, raced>>
  BY <1>b, <1>c DEF Output, Current, Goto, Logged
<1>3. /\ \A u \in Threads : u # t => /\ own'[u] = own[u] /\ handler'[u] = handler[u]
                                     /\ pc'[u] = pc[u]
      /\ ~last => own'[t] = own[t] /\ handler'[t] = h + 1 /\ pc'[t] = "output"
      /\ last => own'[t] = <<>> /\ handler'[t] = 1 /\ pc'[t] \in {"idle", "abort"}
  BY <1>0, <1>1, <1>2 DEF TypeOK, NextHandler
<1>4. /\ output' \in [DOMAIN Handlers -> Seq(Messages)]
      /\ DOMAIN output[h] = 1 .. Len(output[h]) /\ Len(output[h]) \in Nat
      /\ \A g \in DOMAIN Handlers : g # h => output'[g] = output[g]
      /\ \A g \in DOMAIN Handlers : \A u, k : Given(g, u, k) => Given(g, u, k)'
      /\ Matches(h, m) => Given(h, m.from, m.num)'
      /\ \/ output'[h] = output[h]
         \/ /\ DOMAIN output'[h] = 1 .. (Len(output[h]) + 1)
            /\ output'[h][Len(output[h]) + 1] = m
            /\ \A i \in DOMAIN output[h] : output'[h][i] = output[h][i]
  <2>1. CASE Matches(h, m)
    <3>1. output' = [output EXCEPT ![h] = Append(@, m)] /\ m \in Messages
      BY <1>1, <1>2, <2>1
    <3>2. /\ output' \in [DOMAIN Handlers -> Seq(Messages)]
          /\ DOMAIN output[h] = 1 .. Len(output[h]) /\ Len(output[h]) \in Nat
          /\ DOMAIN output'[h] = 1 .. (Len(output[h]) + 1) /\ output'[h][Len(output[h]) + 1] = m
          /\ \A i \in DOMAIN output[h] : i \in DOMAIN output'[h] /\ output'[h][i] = output[h][i]
          /\ \A g \in DOMAIN Handlers : g # h => output'[g] = output[g]
          /\ \A g \in DOMAIN Handlers : \A u, k : Given(g, u, k) => Given(g, u, k)'
          /\ Given(h, m.from, m.num)'
      BY <1>0, <3>1, OutputGrows
    <3> QED
      BY <3>2
  <2>2. CASE ~Matches(h, m)
    <3>1. output' = output
      BY <1>2, <2>2
    <3> QED
      BY <1>0, <2>2, <3>1, OutputFacts DEF TypeOK, Given
  <2> QED
    BY <2>1, <2>2
<1>5. TypeOK'
  <2>1. handler' \in [Threads -> DOMAIN Handlers]
    BY <1>0, <1>2, HandlerNumbers DEF TypeOK
  <2>2. own' \in [Threads -> Seq(Messages)]
    BY <1>0, <1>2 DEF TypeOK
  <2>3. pc' \in [Threads -> Places]
    BY <1>0, <1>2 DEF TypeOK, Places
  <2> QED
    BY <1>0, <1>2, <1>4, <2>1, <2>2, <2>3 DEF TypeOK
<1>6. PlaceInv'
  BY <1>0, <1>2, <1>3, LoggerAssumption DEF PlaceInv
<1>7. OwnInv'
  <2>1. ASSUME NEW u \in Threads, u # t PROVE OwnOf(u)'
    BY <1>0, <1>2, <1>3, <2>1 DEF OwnInv, OwnOf
  <2>2. OwnOf(t)'
    BY <1>0, <1>1, <1>2, <1>3 DEF OwnInv, OwnOf, Outputting
  <2> QED
    BY <2>1, <2>2 DEF OwnInv
<1>8. Current(t) = m
  BY <1>c DEF Current
<1>9. GivenInv'
  <2> SUFFICES ASSUME NEW u \in Threads, NEW g \in DOMAIN Handlers, Handlers[g] = NoDomain,
                      g < handler'[u]
               PROVE  Given(g, Current(u).from, Current(u).num)'
    BY DEF GivenInv
  <2>1. CASE u = t
    <3>1. ~last /\ g <= h
      BY <1>1, <1>3, <2>1, HandlerNumbers
    <3>2. Current(t)' = m
      BY <1>2, <1>3, <1>c, <3>1 DEF Current
    <3>3. g < h => Given(g, m.from, m.num)
      BY <1>b, <1>8 DEF IInv, GivenInv
    <3>4. g < h \/ (g = h /\ Matches(h, m))
      BY <1>1, <3>1, HandlerNumbers DEF Matches
    <3>5. Given(g, m.from, m.num)'
      BY <1>4, <3>3, <3>4
    <3> QED
      BY <2>1, <3>2, <3>5
  <2>2. CASE u # t
    <3>1. Current(u)' = Current(u)
      BY <1>2, <1>3, <2>2 DEF Current
    <3>2. Given(g, Current(u).from, Current(u).num)
      BY <1>3, <2>2 DEF IInv, GivenInv
    <3> QED
      BY <1>4, <3>1, <3>2
  <2> QED
    BY <2>1, <2>2
<1>10. KeptInv'
  <2> SUFFICES ASSUME ~raced', NEW u \in Threads, NEW k \in 1 .. count'[u],
                      NEW g \in DOMAIN Handlers, Handlers[g] = NoDomain
               PROVE  Kept(u, k, g)'
    BY DEF KeptInv
  <2>1. Kept(u, k, g)
    BY <1>2 DEF IInv, KeptInv
  <2>2. CASE Given(g, u, k)
    BY <1>4, <2>2 DEF Kept
  <2>3. CASE Waits(u, k)
    BY <1>2, <2>3 DEF Kept, Waits
  <2>4. CASE own[u] # <<>> /\ k = count[u]
    <3>1. CASE u # t \/ ~last
      BY <1>2, <1>3, <2>4, <3>1 DEF Kept
    <3>2. CASE u = t /\ last
      <4>1. g < h \/ (g = h /\ Matches(h, m))
        BY <1>1, <3>2, HandlerNumbers DEF Matches
      <4>2. g < h => Given(g, m.from, m.num)
        BY <1>b, <1>8 DEF IInv, GivenInv
      <4> QED
        BY <1>1, <1>4, <2>4, <3>2, <4>1, <4>2 DEF Kept
    <3> QED
      BY <3>1, <3>2
  <2> QED
    BY <2>1, <2>2, <2>3, <2>4 DEF Kept
<1>11. Pending' = Pending /\ EmptyInv'
  BY <1>0, <1>2 DEF Pending, EmptyInv
<1>12. OrderInv'
  <2> SUFFICES ASSUME NoFatal', ~raced'
               PROVE  (PendingOrder /\ PendingOwn /\ OutputPending /\ OutputOwn /\ OutputOrder)'
    BY DEF OrderInv
  <2>1. PendingOrder /\ PendingOwn /\ OutputPending /\ OutputOwn /\ OutputOrder
    BY <1>2, FatalLasts DEF IInv, OrderInv
  <2>2. \A i \in DOMAIN Pending : Pending[i].from \in Threads /\ Pending[i].num \in Nat
    BY <1>0, PendingFacts DEF Messages
  <2>3. PendingOrder'
    BY <1>11, <2>1 DEF PendingOrder
  <2>4. \A i \in DOMAIN Pending : Pending[i].from # t
    BY <1>1, <2>1, <2>2 DEF PendingOwn
  <2>5. PendingOwn'
    BY <1>2, <1>3, <1>11, <2>1, <2>2, <2>4 DEF PendingOwn
  <2>6. ASSUME NEW g \in DOMAIN Handlers, NEW i \in DOMAIN output'[g]
        PROVE  \/ i \in DOMAIN output[g] /\ output'[g][i] = output[g][i]
               \/ g = h /\ i = Len(output[h]) + 1 /\ output'[g][i] = m
    <3>1. CASE output'[g] = output[g]
      BY <2>6, <3>1
    <3>2. CASE /\ g = h /\ DOMAIN output'[h] = 1 .. (Len(output[h]) + 1)
               /\ output'[h][Len(output[h]) + 1] = m
               /\ \A n \in DOMAIN output[h] : output'[h][n] = output[h][n]
      <4>1. i = Len(output[h]) + 1 \/ i \in 1 .. Len(output[h])
        BY <1>4, <2>6, <3>2
      <4> QED
        BY <1>4, <3>2, <4>1
    <3> QED
      BY <1>4, <3>1, <3>2
  <2>7. OutputPending'
    <3> SUFFICES ASSUME NEW g \in DOMAIN Handlers, NEW i \in DOMAIN output'[g],
                        NEW j \in DOMAIN Pending, output'[g][i].from = Pending[j].from
                 PROVE  \/ output'[g][i].num < Pending[j].num
                        \/ /\ j = 1 /\ todo'[LogThread] # <<>> /\ g < handler'[LogThread]
                           /\ output'[g][i].num <= Pending[j].num
      BY <1>11 DEF OutputPending
    <3>1. output'[g][i] # m
      BY <1>1, <2>4
    <3>2. todo[LogThread] # <<>> => t # LogThread
      OBVIOUS
    <3> QED
      BY <1>2, <1>3, <2>1, <2>6, <3>1, <3>2, LoggerAssumption DEF OutputPending
  <2>8. OutputOrder'
    <3> SUFFICES ASSUME NEW g \in DOMAIN Handlers, NEW i \in DOMAIN output'[g],
                        NEW j \in DOMAIN output'[g], i < j,
                        output'[g][i].from = output'[g][j].from
                 PROVE  output'[g][i].num < output'[g][j].num
      BY DEF OutputOrder
    <3>1. CASE i \in DOMAIN output[g] /\ j \in DOMAIN output[g]
      <4>1. output'[g][i] = output[g][i] /\ output'[g][j] = output[g][j]
        BY <1>4, <3>1
      <4> QED
        BY <2>1, <3>1, <4>1 DEF OutputOrder
    <3>2. CASE g = h /\ j = Len(output[h]) + 1 /\ i \in DOMAIN output[h]
               /\ output'[g][j] = m /\ output'[g][i] = output[h][i]
      <4>1. ~(h < handler[t])
        BY <1>b, <1>1
      <4> QED
        BY <1>1, <2>1, <3>2, <4>1 DEF OutputOwn
    <3>3. g = h /\ i = Len(output[h]) + 1 => ~(j \in DOMAIN output[h]) /\ j # Len(output[h]) + 1
      BY <1>4
    <3>4. \/ i \in DOMAIN output[g] /\ output'[g][i] = output[g][i]
          \/ g = h /\ i = Len(output[h]) + 1
      BY <2>6
    <3>5. \/ j \in DOMAIN output[g]
          \/ g = h /\ j = Len(output[h]) + 1 /\ output'[g][j] = m
      BY <2>6
    <3> QED
      BY <3>1, <3>2, <3>3, <3>4, <3>5
  <2>9. OutputOwn'
    <3> SUFFICES ASSUME NEW g \in DOMAIN Handlers, NEW i \in DOMAIN output'[g]
                 PROVE  LET u == output'[g][i].from IN
                          /\ output'[g][i].num <= count'[u]
                          /\ own'[u] # <<>> =>
                               \/ output'[g][i].num < count'[u]
                               \/ pc'[u] = "output" /\ todo'[u] = <<>> /\ g < handler'[u]
      BY DEF OutputOwn
    <3>1. CASE i \in DOMAIN output[g] /\ output'[g][i] = output[g][i]
      <4> DEFINE u == output[g][i].from
      <4>1. /\ u \in Threads /\ output[g][i].num <= count[u]
            /\ own[u] # <<>> => \/ output[g][i].num < count[u]
                                \/ pc[u] = "output" /\ todo[u] = <<>> /\ g < handler[u]
        BY <1>0, <2>1, <3>1, OutputFacts DEF OutputOwn
      <4>2. CASE u # t
        BY <1>2, <1>3, <3>1, <4>1, <4>2
      <4>3. CASE u = t /\ last
        BY <1>2, <1>3, <3>1, <4>1, <4>3
      <4>4. CASE u = t /\ ~last
        <5>1. g < h => g < h + 1
          BY <1>1, HandlerNumbers
        <5> QED
          BY <1>b, <1>1, <1>2, <1>3, <3>1, <4>1, <4>4, <5>1, SMTT(30)
      <4> QED
        BY <4>2, <4>3, <4>4
    <3>2. CASE g = h /\ output'[g][i] = m
      BY <1>1, <1>2, <1>3, <3>2
    <3> QED
      BY <2>6, <3>1, <3>2
  <2> QED
    BY <2>3, <2>5, <2>7, <2>8, <2>9
<1> QED
  BY <1>5, <1>6, <1>7, <1>9, <1>10, <1>11, <1>12 DEF IInv

-----------------------------------------------------------------------------
(* The specification.                                                      *)

LEMMA LoggerNext == IInv /\ [Next]_vars => IInv'
<1> SUFFICES ASSUME IInv, [Next]_vars PROVE IInv'
  OBVIOUS
<1>1. CASE UNCHANGED vars
  <2>1. UNCHANGED Pending
    BY <1>1 DEF vars, Pending
  <2> QED
    BY <1>1, <2>1
    DEF vars, IInv, TypeOK, PlaceInv, OwnInv, OwnOf, GivenInv, Given, Current, KeptInv, Kept,
        Waits, EmptyInv, OrderInv, NoFatal, PendingOrder, PendingOwn, OutputPending,
        OutputOwn, OutputOrder
<1>2. CASE Next
  <2>1. ASSUME NEW t \in Threads, Step(t) PROVE IInv'
    BY <1>2, <2>1, QuietSteps, StoreInv, DetachInv, OutputTakenInv, OutputOwnInv DEF Step
  <2>2. ASSUME NEW t \in Threads, Call(t) PROVE IInv'
    BY <1>2, <2>2, QuietSteps, LogvInv DEF Call
  <2>3. CASE StartLogThread \/ StopLogThread \/ SetLogThreadId
    BY <1>2, <2>3, QuietSteps, LoggerAssumption
  <2> QED
    BY <1>2, <2>1, <2>2, <2>3 DEF Next, Running
<1> QED
  BY <1>1, <1>2

\* The invariant holds in every reachable state.
LEMMA LoggerInvariant == Spec => []IInv
  BY LoggerInit, LoggerNext, PTL DEF Spec

\* Every handler gets the messages of a thread in the order the thread logged them and
\* each one once, whichever threads there are and whenever the log thread comes and goes,
\* as long as no other thread logs a fatal message and the log thread does not leave while
\* another one is about to store a message.
THEOREM OutputInOrderHolds == Spec => []OutputInOrder
<1>1. IInv => OutputInOrder
  BY DEF IInv, OrderInv, OutputOrder, OutputInOrder
<1> QED
  BY <1>1, LoggerInvariant, PTL

\* A message that has been logged is on the list, in the hands of a thread that flushes, or
\* has been given to every handler for all domains, unless the log thread left while
\* another thread was about to store a message.
THEOREM NothingLostHolds == Spec => []NothingLost
<1>1. IInv => NothingLost
  <2> SUFFICES ASSUME IInv, ~raced, NEW t \in Threads, NEW k \in 1 .. count[t],
                      NEW h \in DOMAIN Handlers, Handlers[h] = NoDomain
               PROVE  \/ \E i \in DOMAIN output[h] : output[h][i].from = t /\ output[h][i].num = k
                      \/ \E d \in Domains \cup {NoDomain}, f \in BOOLEAN :
                           Held([from |-> t, num |-> k, domain |-> d, fatal |-> f])
                      \/ own[t] # <<>> /\ k = count[t]
    BY DEF NothingLost
  <2>1. Kept(t, k, h)
    BY DEF IInv, KeptInv
  <2>2. ASSUME NEW m \in Messages, m.from = t, m.num = k, Held(m)
        PROVE  \E d \in Domains \cup {NoDomain}, f \in BOOLEAN :
                 Held([from |-> t, num |-> k, domain |-> d, fatal |-> f])
    <3>1. m = [from |-> t, num |-> k, domain |-> m.domain, fatal |-> m.fatal]
      BY <2>2 DEF Messages
    <3>2. m.domain \in Domains \cup {NoDomain} /\ m.fatal \in BOOLEAN
      BY DEF Messages
    <3> QED
      BY <2>2, <3>1, <3>2
  <2>3. ASSUME NEW i \in DOMAIN log_stored_messages_list,
               log_stored_messages_list[i].from = t, log_stored_messages_list[i].num = k
        PROVE  \E m \in Messages : m.from = t /\ m.num = k /\ Held(m)
    <3>1. log_stored_messages_list[i] \in Messages
      BY ElementOfSeq DEF IInv, TypeOK
    <3> QED
      BY <2>3, <3>1 DEF Held, Range
  <2>4. ASSUME NEW u \in Threads, NEW i \in DOMAIN todo[u],
               todo[u][i].from = t, todo[u][i].num = k
        PROVE  \E m \in Messages : m.from = t /\ m.num = k /\ Held(m)
    <3>1. todo[u] \in Seq(Messages)
      BY DEF IInv, TypeOK
    <3>2. todo[u][i] \in Messages
      BY <3>1, ElementOfSeq
    <3> QED
      BY <2>4, <3>2 DEF Held, Range
  <2> QED
    BY <2>1, <2>2, <2>3, <2>4 DEF Kept, Given, Waits
<1> QED
  BY <1>1, LoggerInvariant, PTL

=============================================================================
