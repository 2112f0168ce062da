------------------------------ MODULE LogProofs ------------------------------
(***************************************************************************)
(* Theorems about what surrounds the logger: its domains and levels, its   *)
(* tags and its files, for any number of threads, tags, messages and       *)
(* files, any sizes and any bounds.                                        *)
(***************************************************************************)
EXTENDS UtilitiesProofs

-----------------------------------------------------------------------------
(* Log domains and levels.                                                 *)

DomainStates == {"idle", "make", "mutexes", "look", "lock", "again", "create", "write"}

\* The level a thread has of its own in a domain, {} for none.
OwnMask(t, d) == IF d \in DOMAIN thread_level[t] THEN thread_level[t][d] ELSE {}

NameAt(i) == object[log_domains[i]].name

DomainTypes ==
    /\ object \in Seq([name : DomainNames \cup {"NULL"}, logmask : SUBSET Levels])
    /\ log_domains \in Seq(1..Len(object))
    /\ default_log_domain \in 0..Len(object)
    /\ doing \in [LogThreads -> DomainStates]
    /\ call \in [LogThreads -> [name : DomainNames \cup {"NULL"}, mask : SUBSET Levels, domain : Nat]]
    /\ thread_level = [t \in LogThreads |-> thread_level[t]]
    /\ \A t \in LogThreads : DOMAIN thread_level[t] \subseteq 1..Len(object)
    /\ asked = [level |-> asked.level, own |-> asked.own, calls |-> asked.calls, raced |-> asked.raced]
    /\ asked.level \in [DomainNames -> Seq(SUBSET Levels)]
    /\ asked.own \in [LogThreads -> [DomainNames -> SUBSET Levels]]
    /\ asked.raced \in BOOLEAN

\* What threads between two steps have found, however the logger was made.
ThreadsInv ==
    /\ \A i \in DOMAIN log_domains : NameAt(i) \in DomainNames
    /\ default_log_domain # 0 => object[default_log_domain].name = "NULL"
    /\ \A t \in LogThreads :
          /\ doing[t] \notin {"idle", "make"} => default_log_domain # 0
          /\ doing[t] \in {"lock", "again", "create"} => call[t].name # "NULL"
          /\ doing[t] = "write" =>
                /\ call[t].domain \in 1..Len(object) /\ object[call[t].domain].name = call[t].name
                /\ call[t].name # "NULL" => \E i \in DOMAIN log_domains : log_domains[i] = call[t].domain

\* Who makes a domain has the mutex, and has looked.
MutexInv ==
    \A t \in LogThreads :
        /\ doing[t] \in {"again", "create"} => domains_mutex = t
        /\ doing[t] = "create" => \A i \in DOMAIN log_domains : NameAt(i) # call[t].name

\* So a name has one domain, which has the levels that were set.
MaskInv ==
    /\ \A i, j \in DOMAIN log_domains : NameAt(i) = NameAt(j) => i = j
    /\ \A n \in DomainNames : asked.level[n] # <<>> =>
          \E i \in DOMAIN log_domains : NameAt(i) = n /\ object[log_domains[i]].logmask = asked.level[n][1]
    /\ \A t \in LogThreads, i \in DOMAIN log_domains : OwnMask(t, log_domains[i]) = asked.own[t][NameAt(i)]
    /\ \A t \in LogThreads, n \in DomainNames : asked.own[t][n] # {} => \E i \in DOMAIN log_domains : NameAt(i) = n

DomainInv == DomainTypes /\ ThreadsInv /\ (~asked.raced => MutexInv /\ MaskInv)

\* get_log_domain gives a domain of that name if there is one.
LEMMA DomainFound ==
  ASSUME DomainTypes, NEW n, n # "NULL"
  PROVE  /\ (\A i \in DOMAIN log_domains : NameAt(i) # n) => N!get_log_domain(n) = 0
         /\ (\E i \in DOMAIN log_domains : NameAt(i) = n)
               => \E i \in DOMAIN log_domains : NameAt(i) = n /\ N!get_log_domain(n) = log_domains[i]
         /\ N!get_log_domain(n) \in 0..Len(object)
         /\ N!get_log_domain(n) # 0
               => \E i \in DOMAIN log_domains : NameAt(i) = n /\ N!get_log_domain(n) = log_domains[i]
<1> DEFINE S == {i \in DOMAIN log_domains : object[log_domains[i]].name = n}
<1>1. N!get_log_domain(n) = IF S = {} THEN 0 ELSE log_domains[Min(S)]
  BY DEF N!get_log_domain, N!NoName, N!None, Min
<1>2. DOMAIN log_domains \subseteq Nat /\ (\A i \in DOMAIN log_domains : log_domains[i] \in 1..Len(object)) /\ Len(object) \in Nat
  BY DEF DomainTypes
<1>3. S # {} => Min(S) \in S
  BY <1>2, MinIsLeast
<1>4. CASE S = {}
  BY <1>1, <1>2, <1>4 DEF NameAt
<1>5. CASE S # {}
  <2> DEFINE k == Min(S)
  <2>1. k \in DOMAIN log_domains /\ NameAt(k) = n
    BY <1>3, <1>5 DEF NameAt
  <2>2. N!get_log_domain(n) = log_domains[k]
    BY <1>1, <1>5
  <2>3. log_domains[k] \in 1..Len(object)
    BY <1>2, <2>1
  <2> HIDE DEF k
  <2> QED
    BY <1>2, <2>1, <2>2, <2>3
<1> QED
  BY <1>4, <1>5

LEMMA DomainInit == N!Init => DomainInv
<1> SUFFICES ASSUME N!Init PROVE DomainInv
  OBVIOUS
<1> USE DEF N!Init, N!NoName, N!NoCall, N!None
<1>1. N!DefaultMask \in SUBSET Levels
  BY DEF N!DefaultMask, N!level_to_mask
<1>2. object \in Seq([name : DomainNames \cup {"NULL"}, logmask : SUBSET Levels]) /\ default_log_domain \in 0..Len(object)
  <2> DEFINE d == [name |-> "NULL", logmask |-> N!DefaultMask]
  <2>1. d \in [name : DomainNames \cup {"NULL"}, logmask : SUBSET Levels]
    BY <1>1
  <2>2. (object = <<>> /\ default_log_domain = 0) \/ (object = <<d>> /\ default_log_domain = 1)
    OBVIOUS
  <2>3. CASE object = <<>> /\ default_log_domain = 0
    BY <2>3, EmptySeq
  <2>4. CASE object = <<d>> /\ default_log_domain = 1
    <3> HIDE DEF d
    <3>1. <<d>> \in Seq([name : DomainNames \cup {"NULL"}, logmask : SUBSET Levels]) /\ Len(<<d>>) = 1
      BY <2>1
    <3> QED
      BY <2>4, <3>1
  <2> QED
    BY <2>2, <2>3, <2>4
<1>3. log_domains = <<>> /\ DOMAIN log_domains = {}
  OBVIOUS
<1>4. \A t \in LogThreads : doing[t] = "idle" /\ DOMAIN thread_level[t] = {}
  OBVIOUS
<1>5. /\ asked = [level |-> asked.level, own |-> asked.own, calls |-> asked.calls, raced |-> asked.raced]
      /\ asked.level \in [DomainNames -> Seq(SUBSET Levels)]
      /\ asked.own \in [LogThreads -> [DomainNames -> SUBSET Levels]]
      /\ asked.raced \in BOOLEAN
  <2>1. [n \in DomainNames |-> <<>>] \in [DomainNames -> Seq(SUBSET Levels)]
    BY EmptySeq
  <2>2. [t \in LogThreads |-> [n \in DomainNames |-> {}]] \in [LogThreads -> [DomainNames -> SUBSET Levels]]
    OBVIOUS
  <2>3. asked = [level |-> [n \in DomainNames |-> <<>>], own |-> [t \in LogThreads |-> [n \in DomainNames |-> {}]], calls |-> 0, raced |-> FALSE]
    OBVIOUS
  <2> QED
    BY <2>1, <2>2, <2>3
<1>6. DomainTypes
  BY <1>2, <1>3, <1>4, <1>5 DEF DomainTypes, DomainStates
<1>7. ThreadsInv
  BY <1>3, <1>4 DEF ThreadsInv
<1>8. MutexInv /\ MaskInv
  <2>1. MutexInv
    BY <1>4 DEF MutexInv
  <2>2. asked.level = [n \in DomainNames |-> <<>>] /\ asked.own = [t \in LogThreads |-> [n \in DomainNames |-> {}]]
    OBVIOUS
  <2> QED
    BY <1>3, <2>1, <2>2 DEF MaskInv
<1> QED
  BY <1>6, <1>7, <1>8 DEF DomainInv

\* Where domains with names and what was asked of them stay, so do their levels.
LEMMA MaskKept ==
  ASSUME MaskInv, log_domains' = log_domains, thread_level' = thread_level,
         asked'.level = asked.level, asked'.own = asked.own,
         \A i \in DOMAIN log_domains : object'[log_domains[i]] = object[log_domains[i]]
  PROVE  MaskInv'
<1> DEFINE NewName(i) == object'[log_domains'[i]].name
<1>1. \A i \in DOMAIN log_domains : NewName(i) = NameAt(i)
  BY DEF NameAt
<1>2. \A t, d : OwnMask(t, d)' = OwnMask(t, d)
  BY DEF OwnMask
<1>3. (\A i, j \in DOMAIN log_domains : NameAt(i) = NameAt(j) => i = j)'
  BY DEF MaskInv, NameAt
<1>4. (\A n \in DomainNames : asked.level[n] # <<>> =>
          \E i \in DOMAIN log_domains : NameAt(i) = n /\ object[log_domains[i]].logmask = asked.level[n][1])'
  BY DEF MaskInv, NameAt
<1>5. (\A t \in LogThreads, i \in DOMAIN log_domains : OwnMask(t, log_domains[i]) = asked.own[t][NameAt(i)])'
  BY DEF MaskInv, NameAt, OwnMask
<1>6. (\A t \in LogThreads, n \in DomainNames : asked.own[t][n] # {} => \E i \in DOMAIN log_domains : NameAt(i) = n)'
  BY DEF MaskInv, NameAt
<1> QED
  BY <1>3, <1>4, <1>5, <1>6 DEF MaskInv

\* What stays true of a domain when another is made after it.
LEMMA DomainKept ==
  ASSUME DomainTypes, NEW e, object' = Append(object, e)
  PROVE  /\ Len(object') = Len(object) + 1 /\ object'[Len(object')] = e
         /\ \A d \in 1..Len(object) : object'[d] = object[d] /\ d \in 1..Len(object')
         /\ \A i \in DOMAIN log_domains : object'[log_domains[i]] = object[log_domains[i]]
  BY DEF DomainTypes

\* A call begins: nothing but the thread changes.
LEMMA DomainCall ==
  ASSUME DomainInv, NEW t \in LogThreads, NEW name \in DomainNames \cup {"NULL"}, NEW mask \in SUBSET Levels,
         N!Call(t, name, mask)
  PROVE  DomainInv'
<1> USE DEF N!Call, N!Goto, N!None
<1>1. doing' = [doing EXCEPT ![t] = IF default_log_domain = 0 THEN "make" ELSE "look"]
      /\ asked' = [asked EXCEPT !.calls = @ + 1]
      /\ call' = [call EXCEPT ![t] = [name |-> name, mask |-> mask, domain |-> 0]]
      /\ UNCHANGED <<default_log_domain, log_domains, object, domains_mutex, thread_level>>
  OBVIOUS
<1>2. DomainTypes'
  <2>1. call' \in [LogThreads -> [name : DomainNames \cup {"NULL"}, mask : SUBSET Levels, domain : Nat]]
        /\ doing' \in [LogThreads -> DomainStates]
    BY <1>1 DEF DomainInv, DomainTypes, DomainStates
  <2>2. /\ asked' = [level |-> asked.level, own |-> asked.own, calls |-> asked.calls + 1, raced |-> asked.raced]
        /\ asked'.level = asked.level /\ asked'.own = asked.own /\ asked'.calls = asked.calls + 1
    BY <1>1 DEF DomainInv, DomainTypes
  <2>3. asked'.raced = asked.raced /\ asked.raced \in BOOLEAN
    BY <2>2 DEF DomainInv, DomainTypes
  <2> QED
    BY <1>1, <2>1, <2>2, <2>3 DEF DomainInv, DomainTypes
<1>3. ThreadsInv'
  BY <1>1 DEF DomainInv, DomainTypes, ThreadsInv, NameAt
<1>4. asked'.raced = asked.raced /\ asked'.level = asked.level /\ asked'.own = asked.own
  BY <1>1 DEF DomainInv, DomainTypes
<1>5. ASSUME ~asked'.raced PROVE MutexInv' /\ MaskInv'
  <2>1. MutexInv /\ MaskInv
    BY <1>4, <1>5 DEF DomainInv
  <2>2. MaskInv'
    BY <1>1, <1>4, <2>1, MaskKept
  <2>3. MutexInv'
    BY <1>1, <2>1 DEF DomainInv, DomainTypes, MutexInv, NameAt
  <2> QED
    BY <2>2, <2>3
<1> QED
  BY <1>2, <1>3, <1>5 DEF DomainInv

\* The logger is made, by one thread or by several.
LEMMA DomainLogger ==
  ASSUME DomainInv, NEW t \in LogThreads, N!bctbx_get_logger(t)
  PROVE  DomainInv'
<1> DEFINE e == [name |-> "NULL", logmask |-> N!DefaultMask]
<1>0. e \in [name : DomainNames \cup {"NULL"}, logmask : SUBSET Levels] /\ e.name = "NULL"
  BY DEF N!DefaultMask, N!level_to_mask
<1>1. CASE /\ doing[t] = "make" /\ object' = Append(object, e) /\ default_log_domain' = Len(object')
           /\ doing' = [doing EXCEPT ![t] = "mutexes"]
           /\ UNCHANGED <<log_domains, domains_mutex, call, thread_level, asked>>
  <2> HIDE DEF e
  <2>1. DomainTypes
    BY DEF DomainInv
  <2>2. /\ Len(object') = Len(object) + 1 /\ object'[Len(object')] = e
        /\ \A d \in 1..Len(object) : object'[d] = object[d] /\ d \in 1..Len(object')
        /\ \A i \in DOMAIN log_domains : object'[log_domains[i]] = object[log_domains[i]]
    BY <1>1, <2>1, DomainKept
  <2>3. DomainTypes'
    <3>1. object' \in Seq([name : DomainNames \cup {"NULL"}, logmask : SUBSET Levels])
      BY <1>0, <1>1, <2>1 DEF DomainTypes
    <3>2. log_domains' \in Seq(1..Len(object')) /\ default_log_domain' \in 0..Len(object')
      BY <1>1, <2>1, <2>2, <3>1 DEF DomainTypes
    <3>3. \A u \in LogThreads : DOMAIN thread_level'[u] \subseteq 1..Len(object')
      BY <1>1, <2>1, <2>2 DEF DomainTypes
    <3> QED
      BY <1>1, <2>1, <3>1, <3>2, <3>3 DEF DomainTypes, DomainStates
  <2>4. ThreadsInv'
    BY <1>0, <1>1, <2>1, <2>2 DEF DomainInv, DomainTypes, ThreadsInv, NameAt
  <2>5. ASSUME ~asked'.raced PROVE MutexInv' /\ MaskInv'
    <3>1. MutexInv /\ MaskInv
      BY <1>1, <2>5 DEF DomainInv
    <3>2. MaskInv'
      BY <1>1, <2>2, <3>1, MaskKept
    <3>3. MutexInv'
      BY <1>1, <2>1, <2>2, <3>1 DEF DomainTypes, MutexInv, NameAt
    <3> QED
      BY <3>2, <3>3
  <2> QED
    BY <2>3, <2>4, <2>5 DEF DomainInv
<1>2. CASE /\ doing[t] = "mutexes" /\ domains_mutex' = "free"
           /\ asked' = [asked EXCEPT !.raced = @ \/ domains_mutex # "free"]
           /\ doing' = [doing EXCEPT ![t] = "look"]
           /\ UNCHANGED <<default_log_domain, log_domains, object, call, thread_level>>
  <2>0. asked'.raced = (asked.raced \/ domains_mutex # "free") /\ asked.raced \in BOOLEAN
    BY <1>2, Zenon DEF DomainInv, DomainTypes
  <2>1. DomainTypes'
    <3>1. /\ asked' = [level |-> asked.level, own |-> asked.own, calls |-> asked.calls, raced |-> asked'.raced]
          /\ asked'.level = asked.level /\ asked'.own = asked.own /\ asked'.calls = asked.calls
      BY <1>2 DEF DomainInv, DomainTypes
    <3>2. asked'.raced \in BOOLEAN
      BY <2>0, Zenon
    <3>3. doing' \in [LogThreads -> DomainStates]
      BY <1>2 DEF DomainInv, DomainTypes, DomainStates
    <3> QED
      BY <1>2, <3>1, <3>2, <3>3 DEF DomainInv, DomainTypes
  <2>2. ThreadsInv'
    BY <1>2 DEF DomainInv, DomainTypes, ThreadsInv, NameAt
  <2>3. ASSUME ~asked'.raced PROVE MutexInv' /\ MaskInv'
    <3>1. MutexInv /\ MaskInv /\ domains_mutex = "free"
      BY <2>0, <2>3 DEF DomainInv
    <3>2. \A u \in LogThreads : doing[u] \notin {"again", "create"}
      BY <3>1, DomainsAssumption DEF MutexInv
    <3>3. asked'.level = asked.level /\ asked'.own = asked.own
      BY <1>2 DEF DomainInv, DomainTypes
    <3>4. MaskInv'
      BY <1>2, <3>1, <3>3, MaskKept
    <3>5. MutexInv'
      BY <1>2, <3>2 DEF DomainInv, DomainTypes, MutexInv
    <3> QED
      BY <3>4, <3>5
  <2> QED
    BY <2>1, <2>2, <2>3 DEF DomainInv
<1> QED
  BY <1>1, <1>2 DEF N!bctbx_get_logger, N!Goto, N!NoName

\* A domain has a name and a mask of levels.
LEMMA DomainAt ==
  ASSUME DomainTypes, NEW d \in 1..Len(object)
  PROVE  /\ object[d] \in [name : DomainNames \cup {"NULL"}, logmask : SUBSET Levels]
         /\ object[d].name \in DomainNames \cup {"NULL"} /\ object[d].logmask \in SUBSET Levels
<1> DEFINE R == [name : DomainNames \cup {"NULL"}, logmask : SUBSET Levels]
<1>1. object \in Seq(R)
  BY DEF DomainTypes
<1>2. object[d] \in R
  <2> HIDE DEF R
  <2> QED
    BY <1>1
<1> QED
  BY <1>2

\* A thread remembers the domain it found.
LEMMA DomainCallTyped ==
  ASSUME DomainTypes, NEW t \in LogThreads, NEW d \in Nat, call' = [call EXCEPT ![t].domain = d]
  PROVE  call' \in [LogThreads -> [name : DomainNames \cup {"NULL"}, mask : SUBSET Levels, domain : Nat]]
<1>1. call[t] \in [name : DomainNames \cup {"NULL"}, mask : SUBSET Levels, domain : Nat]
  BY DEF DomainTypes
<1> DEFINE c == [call[t] EXCEPT !.domain = d]
<1>2. c \in [name : DomainNames \cup {"NULL"}, mask : SUBSET Levels, domain : Nat]
  BY <1>1
<1>3. call' = [call EXCEPT ![t] = c]
  OBVIOUS
<1> HIDE DEF c
<1> QED
  BY <1>2, <1>3 DEF DomainTypes

\* The domain is looked for, without the mutex and with it, and made.
LEMMA DomainFind ==
  ASSUME DomainInv, NEW t \in LogThreads, N!get_log_domain_rw(t), UNCHANGED <<default_log_domain, thread_level, asked>>
  PROVE  DomainInv'
<1> DEFINE n == call[t].name
           found == N!get_log_domain(n)
           e == [name |-> n, logmask |-> object[default_log_domain].logmask]
<1>1. DomainTypes /\ ThreadsInv
  BY DEF DomainInv
<1>2. n \in DomainNames \cup {"NULL"}
  BY <1>1 DEF DomainTypes
<1>3. n # "NULL" =>
        /\ (\A i \in DOMAIN log_domains : NameAt(i) # n) => found = 0
        /\ found \in 0..Len(object)
        /\ found = 0 => \A i \in DOMAIN log_domains : NameAt(i) # n
        /\ found # 0 => \E i \in DOMAIN log_domains : NameAt(i) = n /\ found = log_domains[i]
  <2> SUFFICES ASSUME n # "NULL" PROVE
        /\ (\A i \in DOMAIN log_domains : NameAt(i) # n) => found = 0
        /\ found \in 0..Len(object)
        /\ found = 0 => \A i \in DOMAIN log_domains : NameAt(i) # n
        /\ found # 0 => \E i \in DOMAIN log_domains : NameAt(i) = n /\ found = log_domains[i]
    OBVIOUS
  <2> HIDE DEF n
  <2>1. \A i \in DOMAIN log_domains : log_domains[i] # 0
    BY <1>1 DEF DomainTypes
  <2> QED
    BY <1>1, <2>1, DomainFound
<1>4. n = "NULL" => found = default_log_domain
  BY DEF N!get_log_domain, N!NoName
<1>5. ASSUME doing[t] # "idle", doing[t] # "make"
      PROVE  /\ found \in 0..Len(object)
             /\ found = 0 => n # "NULL" /\ \A i \in DOMAIN log_domains : NameAt(i) # n
             /\ found # 0 => found \in 1..Len(object) /\ object[found].name = n
             /\ found # 0 /\ n # "NULL" => \E i \in DOMAIN log_domains : log_domains[i] = found
  <2>1. default_log_domain # 0 /\ default_log_domain \in 0..Len(object) /\ object[default_log_domain].name = "NULL"
    BY <1>1, <1>5 DEF ThreadsInv, DomainTypes
  <2>2. CASE n = "NULL"
    <3> HIDE DEF n, found
    <3> QED
      BY <1>4, <2>1, <2>2
  <2>3. CASE n # "NULL"
    <3> HIDE DEF n, found
    <3> QED
      BY <1>3, <2>3 DEF NameAt
  <2> QED
    BY <2>2, <2>3
<1>6. CASE /\ doing[t] = "look" /\ call' = [call EXCEPT ![t].domain = found]
           /\ doing' = [doing EXCEPT ![t] = IF found = 0 THEN "lock" ELSE "write"]
           /\ UNCHANGED <<log_domains, object, domains_mutex>>
  <2> USE <1>5, <1>6
  <2> HIDE DEF found
  <2>1. DomainTypes'
    <3>1. Len(object) \in Nat
      BY <1>1 DEF DomainTypes
    <3>2. found \in Nat
      BY <3>1
    <3>3. call' \in [LogThreads -> [name : DomainNames \cup {"NULL"}, mask : SUBSET Levels, domain : Nat]]
      BY <1>1, <3>2, DomainCallTyped
    <3>4. doing' \in [LogThreads -> DomainStates]
      BY <1>1 DEF DomainTypes, DomainStates
    <3> QED
      BY <1>1, <3>3, <3>4 DEF DomainTypes
  <2>2. ThreadsInv'
    BY <1>1 DEF DomainTypes, ThreadsInv, NameAt
  <2>3. ASSUME ~asked'.raced PROVE MutexInv' /\ MaskInv'
    <3>1. MutexInv /\ MaskInv
      BY <2>3 DEF DomainInv
    <3>2. MaskInv'
      BY <3>1, MaskKept
    <3>3. MutexInv'
      BY <1>1, <3>1 DEF DomainTypes, MutexInv, NameAt
    <3> QED
      BY <3>2, <3>3
  <2> QED
    BY <2>1, <2>2, <2>3 DEF DomainInv
<1>7. CASE /\ doing[t] = "lock" /\ domains_mutex = "free" /\ domains_mutex' = t
           /\ doing' = [doing EXCEPT ![t] = "again"] /\ UNCHANGED <<log_domains, object, call>>
  <2>1. DomainTypes'
    BY <1>1, <1>7 DEF DomainTypes, DomainStates
  <2>2. ThreadsInv'
    BY <1>1, <1>7 DEF DomainTypes, ThreadsInv, NameAt
  <2>3. ASSUME ~asked'.raced PROVE MutexInv' /\ MaskInv'
    <3>1. MutexInv /\ MaskInv
      BY <2>3 DEF DomainInv
    <3>2. MaskInv'
      BY <1>7, <3>1, MaskKept
    <3>3. MutexInv'
      BY <1>1, <1>7, <3>1, DomainsAssumption DEF DomainTypes, MutexInv, NameAt
    <3> QED
      BY <3>2, <3>3
  <2> QED
    BY <2>1, <2>2, <2>3 DEF DomainInv
<1>8. CASE /\ doing[t] = "again" /\ call' = [call EXCEPT ![t].domain = found]
           /\ doing' = [doing EXCEPT ![t] = IF found = 0 THEN "create" ELSE "write"]
           /\ found = 0 => UNCHANGED domains_mutex
           /\ UNCHANGED <<log_domains, object>>
  <2> USE <1>5, <1>8
  <2> HIDE DEF found
  <2>1. DomainTypes'
    <3>1. Len(object) \in Nat
      BY <1>1 DEF DomainTypes
    <3>2. found \in Nat
      BY <3>1
    <3>3. call' \in [LogThreads -> [name : DomainNames \cup {"NULL"}, mask : SUBSET Levels, domain : Nat]]
      BY <1>1, <3>2, DomainCallTyped
    <3>4. doing' \in [LogThreads -> DomainStates]
      BY <1>1 DEF DomainTypes, DomainStates
    <3> QED
      BY <1>1, <3>3, <3>4 DEF DomainTypes
  <2>2. ThreadsInv'
    BY <1>1 DEF DomainTypes, ThreadsInv, NameAt
  <2>3. ASSUME ~asked'.raced PROVE MutexInv' /\ MaskInv'
    <3>1. MutexInv /\ MaskInv
      BY <2>3 DEF DomainInv
    <3>2. MaskInv'
      BY <3>1, MaskKept
    <3>3. \A u \in LogThreads : u # t => doing[u] \notin {"again", "create"}
      BY <3>1 DEF MutexInv
    <3>4. doing'[t] = (IF found = 0 THEN "create" ELSE "write") /\ call'[t].name = n
          /\ \A u \in LogThreads : u # t => doing'[u] = doing[u]
      BY <1>1 DEF DomainTypes
    <3>5. found = 0 => domains_mutex' = t
      BY <3>1 DEF MutexInv
    <3> HIDE DEF n
    <3>6. MutexInv'
      BY <3>3, <3>4, <3>5 DEF MutexInv, NameAt
    <3> QED
      BY <3>2, <3>6
  <2> QED
    BY <2>1, <2>2, <2>3 DEF DomainInv
<1>9. CASE /\ doing[t] = "create" /\ object' = Append(object, e) /\ log_domains' = <<Len(object')>> \o log_domains
           /\ call' = [call EXCEPT ![t].domain = Len(object')]
           /\ domains_mutex' = "free" /\ doing' = [doing EXCEPT ![t] = "write"]
  <2>0. n # "NULL" /\ default_log_domain \in 1..Len(object) /\ e \in [name : DomainNames \cup {"NULL"}, logmask : SUBSET Levels] /\ e.name = n
    <3>1. n # "NULL" /\ default_log_domain # 0
      BY <1>1, <1>9 DEF ThreadsInv
    <3>2. default_log_domain \in 1..Len(object) /\ object \in Seq([name : DomainNames \cup {"NULL"}, logmask : SUBSET Levels])
      BY <1>1, <3>1 DEF DomainTypes
    <3>3. object[default_log_domain].logmask \in SUBSET Levels
      BY <1>1, <3>2, DomainAt
    <3> HIDE DEF n
    <3> QED
      BY <1>2, <3>1, <3>2, <3>3
  <2> HIDE DEF e
  <2>1. /\ Len(object') = Len(object) + 1 /\ object'[Len(object')] = e
        /\ \A d \in 1..Len(object) : object'[d] = object[d] /\ d \in 1..Len(object')
        /\ \A i \in DOMAIN log_domains : object'[log_domains[i]] = object[log_domains[i]]
    BY <1>1, <1>9, DomainKept
  <2>2. /\ object' \in Seq([name : DomainNames \cup {"NULL"}, logmask : SUBSET Levels])
        /\ Len(object) \in Nat /\ log_domains \in Seq(1..Len(object)) /\ Len(log_domains) \in Nat
    BY <1>1, <1>9, <2>0 DEF DomainTypes
  <2>3. /\ log_domains' \in Seq(1..Len(object')) /\ DOMAIN log_domains = 1..Len(log_domains)
        /\ DOMAIN log_domains' = 1..(Len(log_domains) + 1)
        /\ log_domains'[1] = Len(object')
        /\ \A i \in DOMAIN log_domains : i + 1 \in DOMAIN log_domains' /\ log_domains'[i + 1] = log_domains[i]
        /\ \A i \in DOMAIN log_domains' : i # 1 => i - 1 \in DOMAIN log_domains /\ log_domains'[i] = log_domains[i - 1]
    <3>1. log_domains \in Seq(1..Len(object'))
      BY <2>1, <2>2
    <3> QED
      BY <1>9, <2>1, <2>2, <3>1
  <2> DEFINE Name(i) == object'[log_domains'[i]].name
  <2>4. /\ Name(1) = n
        /\ \A i \in DOMAIN log_domains : Name(i + 1) = NameAt(i)
        /\ \A i \in DOMAIN log_domains' : i # 1 => Name(i) = NameAt(i - 1)
    BY <2>0, <2>1, <2>3 DEF NameAt
  <2>5. DomainTypes'
    <3>1. call' \in [LogThreads -> [name : DomainNames \cup {"NULL"}, mask : SUBSET Levels, domain : Nat]]
      <4>1. Len(object') \in Nat
        BY <2>1, <2>2
      <4> HIDE DEF n
      <4> QED
        BY <1>1, <1>9, <4>1, DomainCallTyped
    <3>2. doing' \in [LogThreads -> DomainStates]
      BY <1>1, <1>9 DEF DomainTypes, DomainStates
    <3>3. default_log_domain' \in 0..Len(object') /\ \A u \in LogThreads : DOMAIN thread_level'[u] \subseteq 1..Len(object')
      BY <1>1, <2>1, <2>2 DEF DomainTypes
    <3> QED
      BY <1>1, <2>2, <2>3, <3>1, <3>2, <3>3 DEF DomainTypes
  <2>6. ThreadsInv'
    <3>1. \A i \in DOMAIN log_domains' : Name(i) \in DomainNames
      <4>1. n \in DomainNames /\ \A i \in DOMAIN log_domains : NameAt(i) \in DomainNames
        BY <1>1, <1>2, <2>0 DEF ThreadsInv
      <4>2. ASSUME NEW i \in DOMAIN log_domains' PROVE Name(i) \in DomainNames
        <5>1. CASE i = 1
          BY <2>4, <4>1, <5>1
        <5>2. CASE i # 1
          <6>1. Name(i) = NameAt(i - 1) /\ i - 1 \in DOMAIN log_domains
            BY <2>3, <2>4, <5>2
          <6> HIDE DEF Name
          <6> QED
            BY <4>1, <6>1
        <5> QED
          BY <5>1, <5>2
      <4> QED
        BY <4>2
    <3>2. default_log_domain' # 0 /\ object'[default_log_domain'].name = "NULL"
      BY <1>1, <2>0, <2>1 DEF ThreadsInv
    <3>3. ASSUME NEW u \in LogThreads, u # t
          PROVE  /\ doing'[u] \in {"lock", "again", "create"} => call'[u].name # "NULL"
                 /\ doing'[u] = "write" =>
                      /\ call'[u].domain \in 1..Len(object') /\ object'[call'[u].domain].name = call'[u].name
                      /\ call'[u].name # "NULL" => \E i \in DOMAIN log_domains' : log_domains'[i] = call'[u].domain
      <4>1. doing'[u] = doing[u] /\ call'[u] = call[u]
        BY <1>1, <1>9, <3>3 DEF DomainTypes
      <4> QED
        BY <1>1, <2>1, <2>3, <3>3, <4>1 DEF ThreadsInv
    <3>4. doing'[t] = "write" /\ call'[t].domain = Len(object') /\ call'[t].name = n
      BY <1>1, <1>9 DEF DomainTypes
    <3>5. Len(object') \in 1..Len(object') /\ object'[Len(object')].name = n /\ 1 \in DOMAIN log_domains'
      BY <2>0, <2>1, <2>2, <2>3
    <3> HIDE DEF n
    <3> QED
      BY <2>3, <3>1, <3>2, <3>3, <3>4, <3>5 DEF ThreadsInv, NameAt
  <2>7. ASSUME ~asked'.raced PROVE MutexInv' /\ MaskInv'
    <3>1. MutexInv /\ MaskInv
      BY <2>7 DEF DomainInv
    <3>2. domains_mutex = t /\ \A i \in DOMAIN log_domains : NameAt(i) # n
      BY <1>9, <3>1 DEF MutexInv
    <3>3. MutexInv'
      <4>1. \A u \in LogThreads : doing'[u] \notin {"again", "create"}
        BY <1>1, <1>9, <3>1, <3>2 DEF MutexInv, DomainTypes
      <4> QED
        BY <4>1 DEF MutexInv
    <3>4. (\A i, j \in DOMAIN log_domains : NameAt(i) = NameAt(j) => i = j)'
      <4> SUFFICES ASSUME NEW i \in DOMAIN log_domains', NEW j \in DOMAIN log_domains', Name(i) = Name(j) PROVE i = j
        BY DEF NameAt
      <4>1. CASE i = 1 \/ j = 1
        BY <2>3, <2>4, <3>2, <4>1
      <4>2. CASE i # 1 /\ j # 1
        <5>1. NameAt(i - 1) = NameAt(j - 1) /\ i - 1 \in DOMAIN log_domains /\ j - 1 \in DOMAIN log_domains
          BY <2>3, <2>4, <4>2
        <5>2. i - 1 = j - 1
          BY <3>1, <5>1 DEF MaskInv
        <5> QED
          BY <2>2, <2>3, <5>2
      <4> QED
        BY <4>1, <4>2
    <3>5. (\A m \in DomainNames : asked.level[m] # <<>> =>
             \E i \in DOMAIN log_domains : NameAt(i) = m /\ object[log_domains[i]].logmask = asked.level[m][1])'
      <4> SUFFICES ASSUME NEW m \in DomainNames, asked.level[m] # <<>>
                   PROVE  \E i \in DOMAIN log_domains' : Name(i) = m /\ object'[log_domains'[i]].logmask = asked.level[m][1]
        BY DEF NameAt
      <4>1. PICK i \in DOMAIN log_domains : NameAt(i) = m /\ object[log_domains[i]].logmask = asked.level[m][1]
        BY <3>1 DEF MaskInv
      <4>2. i + 1 \in DOMAIN log_domains' /\ Name(i + 1) = m /\ object'[log_domains'[i + 1]].logmask = asked.level[m][1]
        BY <2>1, <2>3, <2>4, <4>1
      <4> QED
        BY <4>2
    <3>6. (\A u \in LogThreads, i \in DOMAIN log_domains : OwnMask(u, log_domains[i]) = asked.own[u][NameAt(i)])'
      <4> SUFFICES ASSUME NEW u \in LogThreads, NEW i \in DOMAIN log_domains'
                   PROVE  OwnMask(u, log_domains'[i]) = asked.own[u][Name(i)]
        BY DEF NameAt, OwnMask
      <4>1. CASE i = 1
        <5>1. OwnMask(u, Len(object')) = {}
          <6>1. DOMAIN thread_level[u] \subseteq 1..Len(object) /\ Len(object') \notin 1..Len(object)
            BY <1>1, <2>1, <2>2 DEF DomainTypes
          <6> QED
            BY <6>1 DEF OwnMask
        <5>2. asked.own[u][n] = {}
          <6>1. n \in DomainNames
            BY <1>2, <2>0
          <6> QED
            BY <3>1, <3>2, <6>1 DEF MaskInv
        <5> QED
          BY <2>3, <2>4, <4>1, <5>1, <5>2
      <4>2. CASE i # 1
        <5>1. i - 1 \in DOMAIN log_domains /\ log_domains'[i] = log_domains[i - 1] /\ Name(i) = NameAt(i - 1)
          BY <2>3, <2>4, <4>2
        <5> HIDE DEF Name
        <5> QED
          BY <3>1, <5>1 DEF MaskInv
      <4> QED
        BY <4>1, <4>2
    <3>7. (\A u \in LogThreads, m \in DomainNames : asked.own[u][m] # {} => \E i \in DOMAIN log_domains : NameAt(i) = m)'
      <4> SUFFICES ASSUME NEW u \in LogThreads, NEW m \in DomainNames, asked.own[u][m] # {}
                   PROVE  \E i \in DOMAIN log_domains' : Name(i) = m
        BY DEF NameAt
      <4>1. PICK i \in DOMAIN log_domains : NameAt(i) = m
        BY <3>1 DEF MaskInv
      <4>2. i + 1 \in DOMAIN log_domains' /\ Name(i + 1) = m
        BY <2>3, <2>4, <4>1
      <4> QED
        BY <4>2
    <3> QED
      BY <3>3, <3>4, <3>5, <3>6, <3>7 DEF MaskInv
  <2> QED
    BY <2>5, <2>6, <2>7 DEF DomainInv
<1> QED
  <2> USE DEF N!Goto, N!None
  <2>1. CASE doing[t] = "look"
    BY <2>1, <1>6 DEF N!get_log_domain_rw
  <2>2. CASE doing[t] = "lock"
    BY <2>2, <1>7 DEF N!get_log_domain_rw
  <2>3. CASE doing[t] = "again"
    BY <2>3, <1>8 DEF N!get_log_domain_rw
  <2>4. CASE doing[t] = "create"
    BY <2>4, <1>9 DEF N!get_log_domain_rw
  <2> QED
    BY <2>1, <2>2, <2>3, <2>4 DEF N!get_log_domain_rw

\* The level of the domain found is set.
LEMMA DomainSet ==
  ASSUME DomainInv, NEW t \in LogThreads, N!bctbx_set_log_level_mask(t)
  PROVE  DomainInv'
<1> DEFINE n == call[t].name
           d == call[t].domain
           mask == call[t].mask
           idle == [name |-> "NULL", mask |-> {}, domain |-> 0]
<1>1. DomainTypes /\ ThreadsInv
  BY DEF DomainInv
<1>2. /\ doing[t] = "write" /\ object' = [object EXCEPT ![d].logmask = mask]
      /\ n = "NULL" => UNCHANGED asked
      /\ n # "NULL" => asked' = [asked EXCEPT !.level[n] = <<mask>>]
      /\ call' = [call EXCEPT ![t] = idle] /\ doing' = [doing EXCEPT ![t] = "idle"]
      /\ UNCHANGED <<default_log_domain, log_domains, domains_mutex, thread_level>>
  BY DEF N!bctbx_set_log_level_mask, N!Goto, N!NoCall, N!NoName, N!None
<1>3. /\ d \in 1..Len(object) /\ object[d].name = n /\ n \in DomainNames \cup {"NULL"} /\ mask \in SUBSET Levels
      /\ n # "NULL" => \E i \in DOMAIN log_domains : log_domains[i] = d
  BY <1>1, <1>2 DEF ThreadsInv, DomainTypes
<1>4. idle \in [name : DomainNames \cup {"NULL"}, mask : SUBSET Levels, domain : Nat]
  OBVIOUS
<1> HIDE DEF n, d, mask, idle
<1>5. /\ object' \in Seq([name : DomainNames \cup {"NULL"}, logmask : SUBSET Levels]) /\ Len(object') = Len(object)
      /\ \A o \in 1..Len(object) : object'[o].name = object[o].name
      /\ \A o \in 1..Len(object) : object'[o].logmask = IF o = d THEN mask ELSE object[o].logmask
  <2>1. \A o \in 1..Len(object) : object[o] \in [name : DomainNames \cup {"NULL"}, logmask : SUBSET Levels]
    BY <1>1, DomainAt
  <2> DEFINE new == [object[d] EXCEPT !.logmask = mask]
  <2>2. new \in [name : DomainNames \cup {"NULL"}, logmask : SUBSET Levels] /\ new.name = object[d].name /\ new.logmask = mask
    BY <1>3, <2>1
  <2>3. object' = [object EXCEPT ![d] = new]
    BY <1>2
  <2> HIDE DEF new
  <2> QED
    BY <1>1, <1>3, <2>2, <2>3 DEF DomainTypes
<1>6. \A i \in DOMAIN log_domains : log_domains[i] \in 1..Len(object)
  BY <1>1 DEF DomainTypes
<1> DEFINE Name(i) == object'[log_domains[i]].name
<1>7. \A i \in DOMAIN log_domains : Name(i) = NameAt(i)
  BY <1>5, <1>6 DEF NameAt
<1>8. /\ asked' = [level |-> asked'.level, own |-> asked'.own, calls |-> asked'.calls, raced |-> asked'.raced]
      /\ asked'.level \in [DomainNames -> Seq(SUBSET Levels)]
      /\ asked'.own = asked.own /\ asked'.raced = asked.raced
      /\ \A m \in DomainNames : asked'.level[m] = IF m = n THEN <<mask>> ELSE asked.level[m]
  <2>1. CASE n = "NULL"
    BY <1>1, <1>2, <2>1, DomainsAssumption DEF DomainTypes
  <2>2. CASE n # "NULL"
    <3>1. n \in DomainNames /\ <<mask>> \in Seq(SUBSET Levels)
      BY <1>3, <2>2
    <3>2. asked' = [level |-> [asked.level EXCEPT ![n] = <<mask>>], own |-> asked.own, calls |-> asked.calls, raced |-> asked.raced]
      BY <1>1, <1>2, <2>2 DEF DomainTypes
    <3>3. asked'.level = [asked.level EXCEPT ![n] = <<mask>>]
      BY <3>2
    <3>4. asked'.own = asked.own /\ asked'.raced = asked.raced
          /\ asked' = [level |-> asked'.level, own |-> asked'.own, calls |-> asked'.calls, raced |-> asked'.raced]
      BY <3>2
    <3> QED
      BY <1>1, <3>1, <3>3, <3>4 DEF DomainTypes
  <2> QED
    BY <2>1, <2>2
<1>9. DomainTypes'
  <2>1. call' \in [LogThreads -> [name : DomainNames \cup {"NULL"}, mask : SUBSET Levels, domain : Nat]]
    BY <1>1, <1>2, <1>4 DEF DomainTypes
  <2>2. doing' \in [LogThreads -> DomainStates]
    BY <1>1, <1>2 DEF DomainTypes, DomainStates
  <2>3. asked'.raced \in BOOLEAN
    BY <1>1, <1>8 DEF DomainTypes
  <2>4. asked'.own \in [LogThreads -> [DomainNames -> SUBSET Levels]]
    BY <1>1, <1>8 DEF DomainTypes
  <2> QED
    BY <1>1, <1>2, <1>5, <1>8, <2>1, <2>2, <2>3, <2>4 DEF DomainTypes
<1>10. ThreadsInv'
  <2>1. \A i \in DOMAIN log_domains' : NameAt(i)' \in DomainNames
    BY <1>1, <1>2, <1>7 DEF ThreadsInv, NameAt
  <2>2. default_log_domain' # 0 => object'[default_log_domain'].name = "NULL"
    BY <1>1, <1>2, <1>5 DEF ThreadsInv, DomainTypes
  <2>3. \A u \in LogThreads : u # t => doing'[u] = doing[u] /\ call'[u] = call[u]
    BY <1>1, <1>2 DEF DomainTypes
  <2>4. doing'[t] = "idle"
    BY <1>1, <1>2 DEF DomainTypes
  <2> QED
    BY <1>1, <1>2, <1>5, <2>1, <2>2, <2>3, <2>4 DEF ThreadsInv
<1>11. ASSUME ~asked'.raced PROVE MutexInv' /\ MaskInv'
  <2>1. MutexInv /\ MaskInv
    BY <1>8, <1>11 DEF DomainInv
  <2>2. MutexInv'
    <3>1. \A u \in LogThreads : doing'[u] # "idle" => doing'[u] = doing[u] /\ call'[u] = call[u]
      BY <1>1, <1>2 DEF DomainTypes
    <3> QED
      BY <1>2, <1>7, <2>1, <3>1 DEF MutexInv, NameAt
  <2>3. (\A i, j \in DOMAIN log_domains : NameAt(i) = NameAt(j) => i = j)'
    BY <1>2, <1>7, <2>1 DEF MaskInv, NameAt
  <2>4. (\A m \in DomainNames : asked.level[m] # <<>> =>
           \E i \in DOMAIN log_domains : NameAt(i) = m /\ object[log_domains[i]].logmask = asked.level[m][1])'
    <3> SUFFICES ASSUME NEW m \in DomainNames, asked'.level[m] # <<>>
                 PROVE  \E i \in DOMAIN log_domains : Name(i) = m /\ object'[log_domains[i]].logmask = asked'.level[m][1]
      BY <1>2 DEF NameAt
    <3>1. CASE m = n
      <4>1. PICK i \in DOMAIN log_domains : log_domains[i] = d
        BY <1>3, <3>1, DomainsAssumption
      <4>2. Name(i) = m /\ object'[log_domains[i]].logmask = mask /\ asked'.level[m][1] = mask
        BY <1>3, <1>5, <1>8, <3>1, <4>1
      <4> QED
        BY <4>2
    <3>2. CASE m # n
      <4>1. PICK i \in DOMAIN log_domains : NameAt(i) = m /\ object[log_domains[i]].logmask = asked.level[m][1]
        BY <1>8, <2>1, <3>2 DEF MaskInv
      <4>2. log_domains[i] # d
        BY <1>3, <3>2, <4>1 DEF NameAt
      <4> QED
        BY <1>5, <1>6, <1>7, <1>8, <3>2, <4>1, <4>2
    <3> QED
      BY <3>1, <3>2
  <2>5. (\A u \in LogThreads, i \in DOMAIN log_domains : OwnMask(u, log_domains[i]) = asked.own[u][NameAt(i)])'
    BY <1>2, <1>7, <1>8, <2>1 DEF MaskInv, NameAt, OwnMask
  <2>6. (\A u \in LogThreads, m \in DomainNames : asked.own[u][m] # {} => \E i \in DOMAIN log_domains : NameAt(i) = m)'
    BY <1>2, <1>7, <1>8, <2>1 DEF MaskInv, NameAt
  <2> QED
    BY <2>2, <2>3, <2>4, <2>5, <2>6 DEF MaskInv
<1> QED
  BY <1>9, <1>10, <1>11 DEF DomainInv

\* A thread sets a level of its own, or clears it.
LEMMA DomainOwn ==
  ASSUME DomainInv, NEW t \in LogThreads, N!bctbx_set_thread_log_level(t)
  PROVE  DomainInv'
<1>1. DomainTypes /\ ThreadsInv
  BY DEF DomainInv
<1>2. PICK n \in DomainNames \cup {"NULL"}, mask \in {N!level_to_mask(l) : l \in Levels} \cup {{}} :
        /\ N!get_log_domain(n) # 0
        /\ thread_level' = [thread_level EXCEPT ![t] =
                 [e \in DOMAIN @ \cup {N!get_log_domain(n)} |-> IF e = N!get_log_domain(n) THEN mask ELSE @[e]]]
        /\ n = "NULL" => asked' = [asked EXCEPT !.calls = @ + 1]
        /\ n # "NULL" => asked' = [asked EXCEPT !.own[t][n] = mask, !.calls = @ + 1]
        /\ UNCHANGED <<default_log_domain, log_domains, object, domains_mutex, doing, call>>
  BY DEF N!bctbx_set_thread_log_level, N!None, N!NoName
<1>3. mask \in SUBSET Levels
  BY <1>2 DEF N!level_to_mask
<1> DEFINE d == N!get_log_domain(n)
<1>4. /\ d \in 1..Len(object) /\ object[d].name = n
      /\ n \in DomainNames => \E k \in DOMAIN log_domains : NameAt(k) = n /\ d = log_domains[k]
  <2>1. CASE n = "NULL"
    <3>1. d = default_log_domain
      BY <2>1 DEF N!get_log_domain, N!NoName
    <3>2. d # 0
      BY <1>2
    <3> HIDE DEF d
    <3> QED
      BY <1>1, <2>1, <3>1, <3>2, DomainsAssumption DEF DomainTypes, ThreadsInv
  <2>2. CASE n # "NULL"
    <3>1. PICK k \in DOMAIN log_domains : NameAt(k) = n /\ d = log_domains[k]
      BY <1>1, <1>2, <2>2, DomainFound
    <3>2. log_domains[k] \in 1..Len(object)
      BY <1>1 DEF DomainTypes
    <3> HIDE DEF d
    <3> QED
      BY <3>1, <3>2 DEF NameAt
  <2> QED
    BY <2>1, <2>2
<1> DEFINE own == [e \in DOMAIN thread_level[t] \cup {d} |-> IF e = d THEN mask ELSE thread_level[t][e]]
<1>5. thread_level' = [thread_level EXCEPT ![t] = own]
  BY <1>2
<1>6. /\ DOMAIN own = DOMAIN thread_level[t] \cup {d} /\ own[d] = mask
      /\ \A e \in DOMAIN thread_level[t] : e # d => own[e] = thread_level[t][e]
  OBVIOUS
<1> HIDE DEF own, d
<1>7. \A i \in DOMAIN log_domains : log_domains[i] \in 1..Len(object)
  BY <1>1 DEF DomainTypes
<1>8. /\ asked' = [level |-> asked'.level, own |-> asked'.own, calls |-> asked'.calls, raced |-> asked'.raced]
      /\ asked'.own \in [LogThreads -> [DomainNames -> SUBSET Levels]]
      /\ asked'.level = asked.level /\ asked'.raced = asked.raced
      /\ \A u \in LogThreads, m \in DomainNames :
            asked'.own[u][m] = IF u = t /\ m = n THEN mask ELSE asked.own[u][m]
  <2>1. asked.own \in [LogThreads -> [DomainNames -> SUBSET Levels]]
    BY <1>1 DEF DomainTypes
  <2>2. CASE n = "NULL"
    <3>1. asked' = [level |-> asked.level, own |-> asked.own, calls |-> asked.calls + 1, raced |-> asked.raced]
      BY <1>1, <1>2, <2>2 DEF DomainTypes
    <3> QED
      BY <2>1, <2>2, <3>1, DomainsAssumption
  <2>3. CASE n # "NULL"
    <3>1. asked' = [level |-> asked.level, own |-> [asked.own EXCEPT ![t][n] = mask], calls |-> asked.calls + 1, raced |-> asked.raced]
      BY <1>1, <1>2, <2>3 DEF DomainTypes
    <3>2. asked'.level = asked.level /\ asked'.raced = asked.raced
          /\ asked' = [level |-> asked'.level, own |-> asked'.own, calls |-> asked'.calls, raced |-> asked'.raced]
      BY <3>1
    <3>3. asked'.own = [asked.own EXCEPT ![t][n] = mask]
      BY <3>1
    <3>4. asked'.own \in [LogThreads -> [DomainNames -> SUBSET Levels]]
      BY <1>3, <2>1, <2>3, <3>3
    <3> QED
      BY <1>3, <2>1, <2>3, <3>2, <3>3, <3>4
  <2> QED
    BY <2>2, <2>3
<1>9. /\ thread_level' = [u \in LogThreads |-> thread_level'[u]]
      /\ thread_level'[t] = own /\ \A u \in LogThreads : u # t => thread_level'[u] = thread_level[u]
  <2>1. DOMAIN thread_level = LogThreads
    BY <1>1 DEF DomainTypes
  <2> QED
    BY <1>5, <2>1
<1>10. DomainTypes'
  <2>1. \A u \in LogThreads : DOMAIN thread_level'[u] \subseteq 1..Len(object)
    <3>1. \A u \in LogThreads : DOMAIN thread_level[u] \subseteq 1..Len(object)
      BY <1>1 DEF DomainTypes
    <3>2. d \in 1..Len(object)
      BY <1>4
    <3>3. ASSUME NEW u \in LogThreads PROVE DOMAIN thread_level'[u] \subseteq 1..Len(object)
      <4>1. CASE u = t
        BY <1>6, <1>9, <3>1, <3>2, <4>1
      <4>2. CASE u # t
        BY <1>9, <3>1, <4>2
      <4> QED
        BY <4>1, <4>2
    <3> QED
      BY <3>3
  <2>2. asked'.raced \in BOOLEAN /\ asked'.level \in [DomainNames -> Seq(SUBSET Levels)]
    BY <1>1, <1>8 DEF DomainTypes
  <2> QED
    BY <1>1, <1>2, <1>8, <1>9, <2>1, <2>2 DEF DomainTypes
<1>11. ThreadsInv'
  BY <1>1, <1>2 DEF ThreadsInv, NameAt
<1>12. ASSUME ~asked'.raced PROVE MutexInv' /\ MaskInv'
  <2>1. MutexInv /\ MaskInv
    BY <1>8, <1>12 DEF DomainInv
  <2>2. MutexInv'
    BY <1>2, <2>1 DEF MutexInv, NameAt
  <2>3. (\A i, j \in DOMAIN log_domains : NameAt(i) = NameAt(j) => i = j)'
    BY <1>2, <2>1 DEF MaskInv, NameAt
  <2>4. (\A m \in DomainNames : asked.level[m] # <<>> =>
           \E i \in DOMAIN log_domains : NameAt(i) = m /\ object[log_domains[i]].logmask = asked.level[m][1])'
    BY <1>2, <1>8, <2>1 DEF MaskInv, NameAt
  <2>5. (\A u \in LogThreads, i \in DOMAIN log_domains : OwnMask(u, log_domains[i]) = asked.own[u][NameAt(i)])'
    <3> SUFFICES ASSUME NEW u \in LogThreads, NEW i \in DOMAIN log_domains
                 PROVE  OwnMask(u, log_domains[i])' = asked'.own[u][NameAt(i)]
      BY <1>2 DEF NameAt, OwnMask
    <3>1. OwnMask(u, log_domains[i]) = asked.own[u][NameAt(i)] /\ NameAt(i) \in DomainNames
      BY <1>1, <2>1 DEF MaskInv, ThreadsInv
    <3>2. CASE u # t
      BY <1>2, <1>8, <1>9, <3>1, <3>2 DEF OwnMask
    <3>3. CASE u = t /\ log_domains[i] = d
      <4>1. OwnMask(u, log_domains[i])' = mask
        BY <1>2, <1>6, <1>9, <3>3 DEF OwnMask
      <4>2. NameAt(i) = n
        BY <1>4, <3>3 DEF NameAt
      <4> QED
        BY <1>8, <3>1, <3>3, <4>1, <4>2
    <3>4. CASE u = t /\ log_domains[i] # d
      <4>1. NameAt(i) # n
        BY <1>4, <2>1, <3>1, <3>4 DEF MaskInv
      <4>2. OwnMask(u, log_domains[i])' = OwnMask(u, log_domains[i])
        BY <1>2, <1>6, <1>9, <3>4 DEF OwnMask
      <4> QED
        BY <1>8, <3>1, <4>1, <4>2
    <3> QED
      BY <3>2, <3>3, <3>4
  <2>6. (\A u \in LogThreads, m \in DomainNames : asked.own[u][m] # {} => \E i \in DOMAIN log_domains : NameAt(i) = m)'
    <3> SUFFICES ASSUME NEW u \in LogThreads, NEW m \in DomainNames, asked'.own[u][m] # {}
                 PROVE  \E i \in DOMAIN log_domains : NameAt(i) = m
      BY <1>2 DEF NameAt
    <3> QED
      BY <1>4, <1>8, <2>1 DEF MaskInv
  <2> QED
    BY <2>2, <2>3, <2>4, <2>5, <2>6 DEF MaskInv
<1> QED
  BY <1>10, <1>11, <1>12 DEF DomainInv

LEMMA DomainStep == DomainInv /\ [N!Next]_domainVars => DomainInv'
<1> SUFFICES ASSUME DomainInv, [N!Next]_domainVars PROVE DomainInv'
  OBVIOUS
<1>1. CASE UNCHANGED domainVars
  <2> USE <1>1 DEF domainVars
  <2>1. DomainTypes'
    BY DEF DomainInv, DomainTypes
  <2>2. ThreadsInv'
    BY DEF DomainInv, ThreadsInv, NameAt
  <2>3. ASSUME ~asked.raced PROVE MutexInv' /\ MaskInv'
    <3>1. MutexInv /\ MaskInv
      BY <2>3 DEF DomainInv
    <3>2. MaskInv'
      BY <3>1, MaskKept
    <3>3. MutexInv'
      BY <3>1 DEF MutexInv, NameAt
    <3> QED
      BY <3>2, <3>3
  <2>4. asked'.raced = asked.raced
    OBVIOUS
  <2> QED
    BY <2>1, <2>2, <2>3, <2>4 DEF DomainInv
<1>2. CASE N!Next
  <2>1. PICK t \in LogThreads :
          \/ \E name \in DomainNames \cup {"NULL"} :
                \/ \E level \in Levels : N!Call(t, name, N!level_to_mask(level))
                \/ N!Call(t, name, {})
          \/ N!bctbx_get_logger(t)
          \/ N!get_log_domain_rw(t) /\ UNCHANGED <<default_log_domain, thread_level, asked, asked_null>>
          \/ N!bctbx_set_log_level_mask(t)
          \/ N!bctbx_set_thread_log_level(t)
    BY <1>2 DEF N!Next, N!NoName
  <2>2. ASSUME NEW name \in DomainNames \cup {"NULL"}, NEW level \in Levels, N!Call(t, name, N!level_to_mask(level))
        PROVE  DomainInv'
    <3>1. N!level_to_mask(level) \in SUBSET Levels
      BY DEF N!level_to_mask
    <3> QED
      BY <2>2, <3>1, DomainCall
  <2>3. ASSUME NEW name \in DomainNames \cup {"NULL"}, N!Call(t, name, {}) PROVE DomainInv'
    <3>1. {} \in SUBSET Levels
      OBVIOUS
    <3> QED
      BY <2>3, <3>1, DomainCall
  <2> QED
    BY <2>1, <2>2, <2>3, DomainLogger, DomainFind, DomainSet, DomainOwn
<1> QED
  BY <1>1, <1>2

\* The default domain has what was set for NULL, unless it was made twice.
NullTypes ==
    /\ asked_null = [level |-> asked_null.level, own |-> asked_null.own, remade |-> asked_null.remade]
    /\ asked_null.own \in [LogThreads -> SUBSET Levels]

NullDomain ==
    /\ default_log_domain = 0 => asked_null.level = <<>> /\ \A t \in LogThreads : asked_null.own[t] = {}
    /\ default_log_domain # 0 =>
          /\ asked_null.level # <<>> => object[default_log_domain].logmask = asked_null.level[1]
          /\ \A t \in LogThreads : OwnMask(t, default_log_domain) = asked_null.own[t]
    /\ \A t \in LogThreads :
          doing[t] = "write" /\ call[t].name = "NULL" => call[t].domain = default_log_domain

NullInv == NullTypes /\ (asked_null.remade \/ NullDomain)

LEMMA NullInit == N!Init => NullInv
<1> SUFFICES ASSUME N!Init PROVE NullInv
  OBVIOUS
<1>1. /\ asked_null = [level |-> <<>>, own |-> [t \in LogThreads |-> {}], remade |-> FALSE]
      /\ \A t \in LogThreads : doing[t] = "idle" /\ thread_level[t] = [d \in {} |-> {}]
  BY DEF N!Init
<1>2. NullTypes
  BY <1>1 DEF NullTypes
<1>3. \A t \in LogThreads : DOMAIN thread_level[t] = {} /\ asked_null.own[t] = {}
  BY <1>1
<1>4. asked_null.level = <<>>
  BY <1>1
<1>5. NullDomain
  BY <1>1, <1>3, <1>4 DEF NullDomain, OwnMask
<1> QED
  BY <1>2, <1>5 DEF NullInv

\* A step that sets no level for NULL.
LEMMA NullKept ==
  ASSUME NullInv, asked_null' = asked_null, default_log_domain' = default_log_domain,
         default_log_domain # 0 =>
            /\ object'[default_log_domain] = object[default_log_domain]
            /\ \A t \in LogThreads : OwnMask(t, default_log_domain)' = OwnMask(t, default_log_domain),
         \A t \in LogThreads : doing'[t] = "write" =>
            \/ doing[t] = "write" /\ call'[t] = call[t]
            \/ call'[t].name = "NULL" => call'[t].domain = default_log_domain
  PROVE  NullInv'
<1>1. NullTypes'
  BY DEF NullInv, NullTypes
<1>2. NullDomain => NullDomain'
  BY DEF NullDomain, OwnMask
<1> QED
  BY <1>1, <1>2 DEF NullInv

LEMMA NullLogger ==
  ASSUME DomainInv, NullInv, NEW t \in LogThreads, N!bctbx_get_logger(t)
  PROVE  NullInv'
<1>1. DomainTypes
  BY DEF DomainInv
<1>2. CASE /\ doing[t] = "make" /\ object' = Append(object, [name |-> "NULL", logmask |-> N!DefaultMask])
           /\ default_log_domain' = Len(object')
           /\ asked_null' = [asked_null EXCEPT !.remade = @ \/ default_log_domain # 0]
           /\ doing' = [doing EXCEPT ![t] = "mutexes"]
           /\ UNCHANGED <<log_domains, domains_mutex, call, thread_level, asked>>
  <2>1. /\ asked_null' = [level |-> asked_null.level, own |-> asked_null.own, remade |-> asked_null'.remade]
        /\ asked_null'.level = asked_null.level /\ asked_null'.own = asked_null.own
    BY <1>2 DEF NullInv, NullTypes
  <2>2. asked_null'.remade = (asked_null.remade \/ default_log_domain # 0)
    BY <1>2, Zenon DEF NullInv, NullTypes
  <2>3. NullTypes'
    BY <2>1 DEF NullInv, NullTypes
  <2>4. ASSUME ~asked_null'.remade PROVE NullDomain'
    <3>1. default_log_domain = 0 /\ NullDomain
      BY <2>2, <2>4 DEF NullInv
    <3>2. asked_null'.level = <<>> /\ \A u \in LogThreads : asked_null'.own[u] = {}
      BY <2>1, <3>1 DEF NullDomain
    <3>3. Len(object) \in Nat /\ default_log_domain' = Len(object) + 1
      BY <1>1, <1>2 DEF DomainTypes
    <3>4. \A u \in LogThreads : OwnMask(u, default_log_domain)' = {}
      <4>1. \A u \in LogThreads : DOMAIN thread_level'[u] \subseteq 1..Len(object)
        BY <1>1, <1>2 DEF DomainTypes
      <4>2. \A u \in LogThreads : default_log_domain' \notin DOMAIN thread_level'[u]
        BY <3>3, <4>1
      <4> QED
        BY <4>2 DEF OwnMask
    <3>5. \A u \in LogThreads : doing'[u] # "write"
      <4>1. \A u \in LogThreads : doing[u] # "write"
        BY <3>1 DEF DomainInv, ThreadsInv
      <4> QED
        BY <1>1, <1>2, <4>1 DEF DomainTypes
    <3> QED
      BY <3>2, <3>3, <3>4, <3>5 DEF NullDomain
  <2> QED
    BY <2>3, <2>4 DEF NullInv
<1>3. CASE /\ doing[t] = "mutexes" /\ doing' = [doing EXCEPT ![t] = "look"]
           /\ UNCHANGED <<default_log_domain, log_domains, object, call, thread_level, asked_null>>
  <2>1. \A u \in LogThreads : doing'[u] = "write" => doing[u] = "write" /\ call'[u] = call[u]
    BY <1>1, <1>3 DEF DomainTypes
  <2> QED
    BY <1>3, <2>1, NullKept DEF OwnMask
<1> QED
  BY <1>2, <1>3 DEF N!bctbx_get_logger, N!Goto, N!NoName

LEMMA NullFind ==
  ASSUME DomainInv, NullInv, NEW t \in LogThreads, N!get_log_domain_rw(t),
         UNCHANGED <<default_log_domain, thread_level, asked, asked_null>>
  PROVE  NullInv'
<1> DEFINE found == N!get_log_domain(call[t].name)
<1>1. DomainTypes /\ ThreadsInv
  BY DEF DomainInv
<1>2. call[t].name = "NULL" => found = default_log_domain
  BY DEF N!get_log_domain, N!NoName
<1>3. /\ default_log_domain # 0 => object'[default_log_domain] = object[default_log_domain]
      /\ doing'[t] # "write" \/ doing[t] = "create" \/ call' = [call EXCEPT ![t].domain = found]
      /\ doing[t] = "create" => call[t].name # "NULL" /\ \E d : call' = [call EXCEPT ![t].domain = d]
      /\ call' = call \/ \E d : call' = [call EXCEPT ![t].domain = d]
      /\ \E l \in DomainStates : doing' = [doing EXCEPT ![t] = l]
  <2> HIDE DEF found
  <2> USE DEF N!Goto, N!None
  <2>1. CASE doing[t] = "look"
    <3>1. /\ call' = [call EXCEPT ![t].domain = found] /\ UNCHANGED object
          /\ doing' = [doing EXCEPT ![t] = IF found = 0 THEN "lock" ELSE "write"]
      BY <2>1 DEF N!get_log_domain_rw, found
    <3> QED
      BY <2>1, <3>1 DEF DomainStates
  <2>2. CASE doing[t] = "lock"
    <3>1. doing' = [doing EXCEPT ![t] = "again"] /\ UNCHANGED <<call, object>>
      BY <2>2 DEF N!get_log_domain_rw
    <3> QED
      BY <1>1, <2>2, <3>1 DEF DomainTypes, DomainStates
  <2>3. CASE doing[t] = "again"
    <3>1. /\ call' = [call EXCEPT ![t].domain = found] /\ UNCHANGED object
          /\ doing' = [doing EXCEPT ![t] = IF found = 0 THEN "create" ELSE "write"]
      BY <2>3 DEF N!get_log_domain_rw, found
    <3> QED
      BY <2>3, <3>1 DEF DomainStates
  <2>4. CASE doing[t] = "create"
    <3>1. /\ \E e : object' = Append(object, e)
          /\ call' = [call EXCEPT ![t].domain = Len(object')] /\ doing' = [doing EXCEPT ![t] = "write"]
      BY <2>4 DEF N!get_log_domain_rw
    <3>2. default_log_domain # 0 => object'[default_log_domain] = object[default_log_domain]
      <4>1. PICK e : object' = Append(object, e)
        BY <3>1
      <4> QED
        BY <1>1, <4>1 DEF DomainTypes
    <3>3. call[t].name # "NULL"
      BY <1>1, <2>4 DEF ThreadsInv
    <3> QED
      BY <2>4, <3>1, <3>2, <3>3 DEF DomainStates
  <2> QED
    BY <2>1, <2>2, <2>3, <2>4 DEF N!get_log_domain_rw
<1> HIDE DEF found
<1>4. \A u \in LogThreads : u # t => doing'[u] = doing[u] /\ call'[u] = call[u]
  BY <1>1, <1>3 DEF DomainTypes
<1>5. call'[t].name = call[t].name
  BY <1>1, <1>3 DEF DomainTypes
<1>6. doing'[t] = "write" => (call'[t].name = "NULL" => call'[t].domain = default_log_domain)
  <2> SUFFICES ASSUME doing'[t] = "write", call[t].name = "NULL" PROVE call'[t].domain = default_log_domain
    BY <1>5
  <2>1. call' = [call EXCEPT ![t].domain = found]
    BY <1>3
  <2> QED
    BY <1>1, <1>2, <2>1 DEF DomainTypes
<1> QED
  BY <1>3, <1>4, <1>6, NullKept DEF OwnMask

LEMMA NullSet ==
  ASSUME DomainInv, NullInv, NEW t \in LogThreads, N!bctbx_set_log_level_mask(t)
  PROVE  NullInv'
<1> DEFINE n == call[t].name
           d == call[t].domain
           mask == call[t].mask
           idle == [name |-> "NULL", mask |-> {}, domain |-> 0]
<1>1. DomainTypes /\ ThreadsInv
  BY DEF DomainInv
<1>2. /\ doing[t] = "write" /\ object' = [object EXCEPT ![d].logmask = mask]
      /\ n = "NULL" => asked_null' = [asked_null EXCEPT !.level = <<mask>>]
      /\ n # "NULL" => UNCHANGED asked_null
      /\ call' = [call EXCEPT ![t] = idle] /\ doing' = [doing EXCEPT ![t] = "idle"]
      /\ UNCHANGED <<default_log_domain, log_domains, domains_mutex, thread_level>>
  BY DEF N!bctbx_set_log_level_mask, N!Goto, N!NoCall, N!NoName, N!None
<1>3. d \in 1..Len(object) /\ object[d].name = n /\ default_log_domain # 0 /\ object[default_log_domain].name = "NULL"
  BY <1>1, <1>2 DEF ThreadsInv
<1>4. default_log_domain \in 1..Len(object) /\ DOMAIN object = 1..Len(object)
  BY <1>1, <1>3 DEF DomainTypes
<1>5. \A u \in LogThreads : doing'[u] # "idle" => doing'[u] = doing[u] /\ call'[u] = call[u]
  BY <1>1, <1>2 DEF DomainTypes
<1> HIDE DEF n, d, mask, idle
<1>6. CASE n # "NULL"
  <2>1. object'[default_log_domain] = object[default_log_domain]
    BY <1>2, <1>3, <1>4, <1>6
  <2> QED
    BY <1>2, <1>5, <1>6, <2>1, NullKept DEF OwnMask
<1>7. CASE n = "NULL"
  <2>1. /\ asked_null' = [level |-> <<mask>>, own |-> asked_null.own, remade |-> asked_null.remade]
        /\ asked_null'.level = <<mask>> /\ asked_null'.own = asked_null.own /\ asked_null'.remade = asked_null.remade
    BY <1>2, <1>7 DEF NullInv, NullTypes
  <2>2. NullTypes'
    BY <2>1 DEF NullInv, NullTypes
  <2>3. ASSUME NullDomain PROVE NullDomain'
    <3>1. d = default_log_domain
      BY <1>2, <1>7, <2>3 DEF NullDomain, n, d
    <3>2. object'[default_log_domain].logmask = mask
      <4>1. object[d] \in [name : DomainNames \cup {"NULL"}, logmask : SUBSET Levels]
        BY <1>1, <1>3, DomainAt
      <4> QED
        BY <1>2, <1>4, <3>1, <4>1
    <3>3. asked_null'.level[1] = mask
      BY <2>1
    <3>4. \A u \in LogThreads : OwnMask(u, default_log_domain)' = asked_null'.own[u]
      BY <1>2, <1>3, <2>1, <2>3 DEF NullDomain, OwnMask
    <3> QED
      BY <1>2, <1>3, <1>5, <2>3, <3>2, <3>3, <3>4 DEF NullDomain
  <2> QED
    BY <2>1, <2>2, <2>3 DEF NullInv
<1> QED
  BY <1>6, <1>7

LEMMA NullOwn ==
  ASSUME DomainInv, NullInv, NEW t \in LogThreads, N!bctbx_set_thread_log_level(t)
  PROVE  NullInv'
<1>1. DomainTypes /\ ThreadsInv
  BY DEF DomainInv
<1>2. PICK n \in DomainNames \cup {"NULL"}, mask \in {N!level_to_mask(l) : l \in Levels} \cup {{}} :
        /\ N!get_log_domain(n) # 0
        /\ thread_level' = [thread_level EXCEPT ![t] =
                 [e \in DOMAIN @ \cup {N!get_log_domain(n)} |-> IF e = N!get_log_domain(n) THEN mask ELSE @[e]]]
        /\ n = "NULL" => asked_null' = [asked_null EXCEPT !.own[t] = mask]
        /\ n # "NULL" => UNCHANGED asked_null
        /\ UNCHANGED <<default_log_domain, log_domains, object, domains_mutex, doing, call>>
  BY DEF N!bctbx_set_thread_log_level, N!None, N!NoName
<1> DEFINE d == N!get_log_domain(n)
           own == [e \in DOMAIN thread_level[t] \cup {d} |-> IF e = d THEN mask ELSE thread_level[t][e]]
<1>3. /\ n = "NULL" => d = default_log_domain
      /\ n # "NULL" => \E i \in DOMAIN log_domains : NameAt(i) = n /\ d = log_domains[i]
  <2>1. ASSUME n = "NULL" PROVE d = default_log_domain
    BY <2>1 DEF N!get_log_domain, N!NoName
  <2>2. ASSUME n # "NULL" PROVE \E i \in DOMAIN log_domains : NameAt(i) = n /\ d = log_domains[i]
    BY <1>1, <1>2, <2>2, DomainFound
  <2> QED
    BY <2>1, <2>2
<1>4. d # 0 /\ mask \in SUBSET Levels
  BY <1>2 DEF N!level_to_mask
<1>5. /\ thread_level'[t] = own /\ \A u \in LogThreads : u # t => thread_level'[u] = thread_level[u]
  BY <1>1, <1>2 DEF DomainTypes
<1>6. /\ DOMAIN own = DOMAIN thread_level[t] \cup {d} /\ own[d] = mask
      /\ \A e \in DOMAIN thread_level[t] : e # d => own[e] = thread_level[t][e]
  OBVIOUS
<1> HIDE DEF own, d
<1> DEFINE New(u, e) == IF e \in DOMAIN thread_level'[u] THEN thread_level'[u][e] ELSE {}
<1>7. /\ \A u \in LogThreads : \A e : u # t \/ e # d => New(u, e) = OwnMask(u, e)
      /\ New(t, d) = mask
  <2>1. ASSUME NEW u \in LogThreads, NEW e, u # t PROVE New(u, e) = OwnMask(u, e)
    BY <1>5, <2>1 DEF OwnMask
  <2>2. ASSUME NEW e, e # d PROVE New(t, e) = OwnMask(t, e)
    BY <1>5, <1>6, <2>2 DEF OwnMask
  <2>3. New(t, d) = mask
    BY <1>5, <1>6
  <2> QED
    BY <2>1, <2>2, <2>3
<1>75. \A u \in LogThreads : OwnMask(u, default_log_domain)' = New(u, default_log_domain)
  BY <1>2 DEF OwnMask
<1> HIDE DEF New
<1>8. CASE n # "NULL"
  <2>1. default_log_domain # 0 => d # default_log_domain
    BY <1>1, <1>3, <1>8 DEF ThreadsInv, NameAt
  <2>2. default_log_domain # 0 =>
          \A u \in LogThreads : OwnMask(u, default_log_domain)' = OwnMask(u, default_log_domain)
    BY <1>7, <1>75, <2>1
  <2> QED
    BY <1>2, <1>8, <2>2, NullKept
<1>9. CASE n = "NULL"
  <2>1. asked_null' = [level |-> asked_null.level, own |-> [asked_null.own EXCEPT ![t] = mask], remade |-> asked_null.remade]
    BY <1>2, <1>9 DEF NullInv, NullTypes
  <2>2. /\ asked_null'.level = asked_null.level /\ asked_null'.remade = asked_null.remade
        /\ asked_null' = [level |-> asked_null'.level, own |-> asked_null'.own, remade |-> asked_null'.remade]
        /\ asked_null'.own = [asked_null.own EXCEPT ![t] = mask]
    BY <2>1
  <2>3. NullTypes'
    BY <1>4, <2>2 DEF NullInv, NullTypes
  <2>4. ASSUME NullDomain PROVE NullDomain'
    <3>1. \A u \in LogThreads : OwnMask(u, default_log_domain)' = asked_null'.own[u]
      <4>1. ASSUME NEW u \in LogThreads PROVE OwnMask(u, default_log_domain)' = asked_null'.own[u]
        <5>0. asked_null.own \in [LogThreads -> SUBSET Levels]
          BY DEF NullInv, NullTypes
        <5>1. CASE u = t
          <6>1. OwnMask(t, default_log_domain)' = mask
            BY <1>3, <1>7, <1>75, <1>9
          <6> QED
            BY <2>2, <5>0, <5>1, <6>1
        <5>2. CASE u # t
          <6>1. OwnMask(u, default_log_domain)' = asked_null.own[u]
            BY <1>3, <1>4, <1>7, <1>75, <1>9, <2>4, <5>2 DEF NullDomain
          <6> QED
            BY <2>2, <5>0, <5>2, <6>1
        <5> QED
          BY <5>1, <5>2
      <4> QED
        BY <4>1
    <3>2. default_log_domain # 0
      BY <1>3, <1>4, <1>9
    <3> QED
      BY <1>2, <2>2, <2>4, <3>1, <3>2 DEF NullDomain
  <2> QED
    BY <2>2, <2>3, <2>4 DEF NullInv
<1> QED
  BY <1>8, <1>9

LEMMA NullStep == DomainInv /\ NullInv /\ [N!Next]_domainVars => NullInv'
<1> SUFFICES ASSUME DomainInv, NullInv, [N!Next]_domainVars PROVE NullInv'
  OBVIOUS
<1>1. CASE UNCHANGED domainVars
  BY <1>1 DEF domainVars, NullInv, NullTypes, NullDomain, OwnMask
<1>2. CASE N!Next
  <2>1. PICK t \in LogThreads :
          \/ \E name, mask : N!Call(t, name, mask)
          \/ N!bctbx_get_logger(t)
          \/ N!get_log_domain_rw(t) /\ UNCHANGED <<default_log_domain, thread_level, asked, asked_null>>
          \/ N!bctbx_set_log_level_mask(t)
          \/ N!bctbx_set_thread_log_level(t)
    BY <1>2 DEF N!Next
  <2>2. ASSUME NEW name, NEW mask, N!Call(t, name, mask) PROVE NullInv'
    <3>1. /\ doing' = [doing EXCEPT ![t] = IF default_log_domain = 0 THEN "make" ELSE "look"]
          /\ call' = [call EXCEPT ![t] = [name |-> name, mask |-> mask, domain |-> 0]]
          /\ UNCHANGED <<default_log_domain, object, thread_level, asked_null>>
      BY <2>2 DEF N!Call, N!Goto, N!None
    <3>2. \A u \in LogThreads : doing'[u] = "write" => doing[u] = "write" /\ call'[u] = call[u]
      BY <3>1 DEF DomainInv, DomainTypes
    <3> QED
      BY <3>1, <3>2, NullKept DEF OwnMask
  <2> QED
    BY <2>1, <2>2, NullLogger, NullFind, NullSet, NullOwn
<1> QED
  BY <1>1, <1>2

\* The levels read are those that were set, for a name or for NULL.
LEMMA DomainLevels == DomainInv /\ NullInv => LevelsTakeEffect
<1> SUFFICES ASSUME DomainInv, NullInv PROVE LevelsTakeEffect
  OBVIOUS
<1>0. DomainTypes /\ ThreadsInv
  BY DEF DomainInv
<1>1. ASSUME ~asked.raced, NEW n \in DomainNames, asked.level[n] # <<>>
      PROVE  /\ N!bctbx_get_log_level_mask(n) = asked.level[n][1]
             /\ \A t \in LogThreads : N!EnabledMask(t, n) = (IF asked.own[t][n] # {} THEN asked.own[t][n] ELSE asked.level[n][1])
  <2>0. n # "NULL" /\ MaskInv
    BY <1>1, DomainsAssumption DEF DomainInv
  <2>1. PICK k \in DOMAIN log_domains : NameAt(k) = n /\ object[log_domains[k]].logmask = asked.level[n][1]
    BY <1>1, <2>0 DEF MaskInv
  <2>2. N!get_log_domain(n) = log_domains[k]
    <3>1. PICK j \in DOMAIN log_domains : NameAt(j) = n /\ N!get_log_domain(n) = log_domains[j]
      BY <1>0, <2>0, <2>1, DomainFound
    <3>2. j = k
      BY <2>0, <2>1, <3>1 DEF MaskInv
    <3> QED
      BY <3>1, <3>2
  <2>3. log_domains[k] # 0
    BY <1>0 DEF DomainTypes
  <2>4. N!bctbx_get_log_level_mask(n) = asked.level[n][1]
    BY <2>1, <2>2, <2>3 DEF N!bctbx_get_log_level_mask, N!None
  <2>5. ASSUME NEW t \in LogThreads
        PROVE  N!EnabledMask(t, n) = (IF asked.own[t][n] # {} THEN asked.own[t][n] ELSE asked.level[n][1])
    <3>1. OwnMask(t, log_domains[k]) = asked.own[t][n]
      BY <2>0, <2>1 DEF MaskInv
    <3>2. N!EnabledMask(t, n) = IF log_domains[k] \in DOMAIN thread_level[t] /\ thread_level[t][log_domains[k]] # {}
                                THEN thread_level[t][log_domains[k]] ELSE object[log_domains[k]].logmask
      BY <2>2, <2>3 DEF N!EnabledMask, N!None
    <3> QED
      BY <2>1, <3>1, <3>2 DEF OwnMask
  <2> QED
    BY <2>4, <2>5
<1>2. ~asked.raced => \A i, j \in DOMAIN log_domains : object[log_domains[i]].name = object[log_domains[j]].name => i = j
  BY DEF DomainInv, MaskInv, NameAt
<1>3. ASSUME ~asked_null.remade, asked_null.level # <<>>, NEW n, N!get_log_domain(n) \in {0, default_log_domain}
      PROVE  /\ N!bctbx_get_log_level_mask(n) = asked_null.level[1]
             /\ \A t \in LogThreads :
                   N!EnabledMask(t, n) = (IF asked_null.own[t] # {} THEN asked_null.own[t] ELSE asked_null.level[1])
  <2> DEFINE d == IF N!get_log_domain(n) = 0 THEN default_log_domain ELSE N!get_log_domain(n)
  <2>1. d = default_log_domain
    BY <1>3
  <2>2. NullDomain /\ default_log_domain # 0
    BY <1>3 DEF NullInv, NullDomain
  <2>3. N!bctbx_get_log_level_mask(n) = object[d].logmask
    BY DEF N!bctbx_get_log_level_mask, N!None
  <2>4. ASSUME NEW t \in LogThreads
        PROVE  N!EnabledMask(t, n) = IF OwnMask(t, d) # {} THEN OwnMask(t, d) ELSE object[d].logmask
    BY DEF N!EnabledMask, N!None, OwnMask
  <2> HIDE DEF d
  <2> QED
    BY <1>3, <2>1, <2>2, <2>3, <2>4 DEF NullDomain
<1> QED
  BY <1>1, <1>2, <1>3 DEF LevelsTakeEffect

\* Any number of threads and names: the level set is the level checked, of one
\* domain for each name, unless logging.c made a mutex again that a thread had;
\* and the level set for NULL is that of the default domain, unless logging.c
\* made this domain twice.
THEOREM LevelsHold == Spec => []LevelsTakeEffect
<1>1. Init => DomainInv /\ NullInv
  BY DomainInit, NullInit DEF Init
<1>2. DomainInv /\ NullInv /\ [Next]_vars => (DomainInv /\ NullInv)'
  BY DomainStep, NullStep DEF Next, Utilities, Logging, vars, utilVars, logVars
<1>3. DomainInv /\ NullInv => LevelsTakeEffect
  BY DomainLevels
<1> QED
  BY <1>1, <1>2, <1>3, PTL DEF Spec

-----------------------------------------------------------------------------
(* Log tags.                                                               *)

TagItem == [mValue : Values, mCount : Nat \ {0}]

\* The counts of a stack add up to the places of the values pushed, last first.
Sums(sum, s, p) ==
    /\ sum[0] = 0 /\ sum[Len(s)] = Len(p)
    /\ \A k \in 1..Len(s) : sum[k] = sum[k - 1] + s[k].mCount
    /\ \A k \in 1..Len(s) : \A j \in (sum[k - 1] + 1)..sum[k] : p[j] = s[k].mValue

Encodes(s, p) == \E sum \in [0..Len(s) -> 0..Len(p)] : Sums(sum, s, p)

\* A stack and a sequence of values have the same on top, if anything.
SameTop(s, p) == (s = <<>> <=> p = <<>>) /\ (s # <<>> => s[1].mValue = p[1])

LEMMA EncodesTop ==
  ASSUME NEW s \in Seq(TagItem), NEW p \in Seq(Values), Encodes(s, p)
  PROVE  SameTop(s, p)
<1>1. PICK sum \in [0..Len(s) -> 0..Len(p)] : Sums(sum, s, p)
  BY DEF Encodes
<1>2. Len(s) \in Nat /\ Len(p) \in Nat /\ (s = <<>> <=> Len(s) = 0) /\ (p = <<>> <=> Len(p) = 0)
  BY EmptySeq
<1>3. CASE s = <<>>
  BY <1>1, <1>2, <1>3 DEF Sums, SameTop
<1>4. CASE s # <<>>
  <2>1. \A k \in 1..Len(s) : s[k].mCount \in Nat \ {0}
    <3> SUFFICES ASSUME NEW k \in 1..Len(s) PROVE s[k].mCount \in Nat \ {0}
      OBVIOUS
    <3>1. s[k] \in TagItem
      BY ElementOfSeq
    <3> QED
      BY <3>1 DEF TagItem
  <2>2. 1 \in 1..Len(s) /\ Len(s) \in 1..Len(s) /\ Len(s) - 1 \in 0..Len(s)
    BY <1>2, <1>4
  <2>3. sum[1] = sum[0] + s[1].mCount /\ sum[Len(s)] = sum[Len(s) - 1] + s[Len(s)].mCount
    <3>1. \A k \in 1..Len(s) : sum[k] = sum[k - 1] + s[k].mCount
      BY <1>1, Zenon DEF Sums
    <3>2. 1 - 1 = 0
      OBVIOUS
    <3> QED
      BY <2>2, <3>1, <3>2, Zenon
  <2>4. sum[0] = 0 /\ sum[Len(s)] = Len(p) /\ sum[Len(s) - 1] \in Nat
    <3>1. sum[0] = 0 /\ sum[Len(s)] = Len(p)
      BY <1>1, Zenon DEF Sums
    <3>2. sum[Len(s) - 1] \in 0..Len(p)
      BY <2>2, Zenon
    <3> QED
      BY <1>2, <3>1, <3>2
  <2>5. 1 \in (sum[0] + 1)..sum[1] /\ Len(p) > 0
    BY <1>2, <2>1, <2>2, <2>3, <2>4
  <2>6. p[1] = s[1].mValue
    BY <1>1, <2>2, <2>5 DEF Sums
  <2> QED
    BY <1>2, <1>4, <2>5, <2>6 DEF SameTop
<1> QED
  BY <1>3, <1>4

\* The values pushed, with one more.
LEMMA OneMore ==
  ASSUME NEW S, NEW s \in Seq(S), NEW x \in S
  PROVE  /\ <<x>> \o s \in Seq(S) /\ Len(<<x>> \o s) = Len(s) + 1 /\ (<<x>> \o s)[1] = x
         /\ \A i \in 2..(Len(s) + 1) : (<<x>> \o s)[i] = s[i - 1]
<1>1. <<x>> \in Seq(S) /\ Len(<<x>>) = 1 /\ <<x>>[1] = x
  OBVIOUS
<1> DEFINE one == <<x>>
<1> HIDE DEF one
<1>2. one \in Seq(S) /\ Len(one) = 1 /\ one[1] = x
  BY <1>1 DEF one
<1>3. /\ one \o s \in Seq(S) /\ Len(one \o s) = Len(s) + 1
      /\ \A i \in 1..(Len(s) + 1) : (one \o s)[i] = IF i <= 1 THEN one[i] ELSE s[i - 1]
  <2>1. one \o s \in Seq(S) /\ Len(one \o s) = Len(one) + Len(s)
        /\ \A i \in 1..(Len(one) + Len(s)) : (one \o s)[i] = IF i <= Len(one) THEN one[i] ELSE s[i - Len(one)]
    BY <1>2, ConcatProperties
  <2>2. Len(one) + Len(s) = Len(s) + 1 /\ Len(one) = 1
    BY <1>2, LenProperties
  <2> QED
    BY <2>1, <2>2
<1>4. 1 \in 1..(Len(s) + 1) /\ \A i \in 2..(Len(s) + 1) : i \in 1..(Len(s) + 1) /\ ~(i <= 1)
  BY LenProperties
<1> QED
  BY <1>2, <1>3, <1>4 DEF one

LEMMA PushKeeps ==
  ASSUME NEW s \in Seq(TagItem), NEW p \in Seq(Values), NEW v \in Values, Encodes(s, p)
  PROVE  T!Push(s, v) \in Seq(TagItem) /\ <<v>> \o p \in Seq(Values) /\ Encodes(T!Push(s, v), <<v>> \o p)
<1> DEFINE q == <<v>> \o p
           new == T!Push(s, v)
<1>1. PICK sum \in [0..Len(s) -> 0..Len(p)] : Sums(sum, s, p)
  BY DEF Encodes
<1>2. Len(s) \in Nat /\ Len(p) \in Nat /\ (s = <<>> <=> Len(s) = 0)
  BY EmptySeq
<1>3. q \in Seq(Values) /\ Len(q) = Len(p) + 1 /\ q[1] = v /\ \A i \in 2..(Len(p) + 1) : q[i] = p[i - 1]
  BY OneMore
<1> HIDE DEF q
<1>4. /\ sum[0] = 0 /\ sum[Len(s)] = Len(p)
      /\ \A k \in 1..Len(s) : sum[k] = sum[k - 1] + s[k].mCount /\ sum[k] \in Nat /\ sum[k - 1] \in Nat
      /\ \A k \in 1..Len(s) : \A j \in (sum[k - 1] + 1)..sum[k] : p[j] = s[k].mValue
  <2>1. \A k \in 1..Len(s) : k \in 0..Len(s) /\ k - 1 \in 0..Len(s)
    BY <1>2
  <2>2. \A k \in 0..Len(s) : sum[k] \in Nat
    BY <1>2
  <2> QED
    BY <1>1, <2>1, <2>2 DEF Sums
<1>5. \A k \in 1..Len(s) : s[k].mCount \in Nat \ {0} /\ sum[k] <= Len(p)
  <2> SUFFICES ASSUME NEW k \in 1..Len(s) PROVE s[k].mCount \in Nat \ {0} /\ sum[k] <= Len(p)
    OBVIOUS
  <2>1. s[k] \in TagItem
    BY ElementOfSeq
  <2>2. s[k].mCount \in Nat \ {0}
    BY <2>1 DEF TagItem
  <2>3. k \in 0..Len(s)
    BY <1>2
  <2>4. sum[k] \in 0..Len(p)
    BY <2>3
  <2> QED
    BY <1>2, <2>2, <2>4
<1>6. CASE s = <<>> \/ s[1].mValue # v
  <2> DEFINE item == [mValue |-> v, mCount |-> 1]
             more == [k \in 0..(Len(s) + 1) |-> IF k = 0 THEN 0 ELSE sum[k - 1] + 1]
  <2>1. item \in TagItem /\ item.mValue = v /\ item.mCount = 1
    BY DEF TagItem
  <2>2. new = <<item>> \o s
    BY <1>6 DEF T!Push
  <2> HIDE DEF item, new
  <2>3. new \in Seq(TagItem) /\ Len(new) = Len(s) + 1 /\ new[1] = item /\ \A i \in 2..(Len(s) + 1) : new[i] = s[i - 1]
    BY <2>1, <2>2, OneMore
  <2>4. more \in [0..(Len(s) + 1) -> 0..(Len(p) + 1)] /\ more[0] = 0 /\ \A k \in 1..(Len(s) + 1) : more[k] = sum[k - 1] + 1
    <3>1. \A k \in 0..(Len(s) + 1) : k # 0 => k - 1 \in 0..Len(s) /\ sum[k - 1] \in 0..Len(p)
      BY <1>2
    <3> QED
      BY <1>2, <3>1
  <2> HIDE DEF more
  <2>5. more[Len(new)] = Len(q)
    <3>1. Len(s) + 1 \in 1..(Len(s) + 1) /\ (Len(s) + 1) - 1 = Len(s)
      BY <1>2
    <3>2. more[Len(s) + 1] = sum[Len(s)] + 1
      BY <2>4, <3>1
    <3> QED
      BY <1>3, <1>4, <2>3, <3>2
  <2>6. ASSUME NEW k \in 1..Len(new)
        PROVE  /\ more[k] = more[k - 1] + new[k].mCount
               /\ \A j \in (more[k - 1] + 1)..more[k] : q[j] = new[k].mValue
    <3>1. CASE k = 1
      <4>1. more[k] = 1 /\ more[k - 1] = 0 /\ new[k].mCount = 1 /\ new[k].mValue = v
        BY <1>2, <1>4, <2>1, <2>3, <2>4, <3>1
      <4> QED
        BY <1>3, <4>1
    <3>2. CASE k # 1
      <4> DEFINE h == k - 1
      <4>1. h \in 1..Len(s) /\ h - 1 = k - 2 /\ k \in 2..(Len(s) + 1)
        BY <1>2, <2>3, <3>2
      <4>2. more[k] = sum[h] + 1 /\ more[k - 1] = sum[h - 1] + 1 /\ new[k] = s[h]
        BY <2>3, <2>4, <4>1
      <4> HIDE DEF h
      <4>3. sum[h] = sum[h - 1] + s[h].mCount /\ sum[h] \in Nat /\ sum[h - 1] \in Nat /\ s[h].mCount \in Nat /\ sum[h] <= Len(p)
        BY <1>4, <1>5, <4>1
      <4>4. ASSUME NEW j \in (more[k - 1] + 1)..more[k] PROVE q[j] = new[k].mValue
        <5> DEFINE from == sum[h - 1]
                   to == sum[h]
        <5>0. from \in Nat /\ to \in Nat /\ to <= Len(p) /\ j \in (from + 2)..(to + 1)
          BY <4>2, <4>3
        <5> HIDE DEF from, to
        <5>1. j - 1 \in (from + 1)..to /\ j \in 2..(Len(p) + 1)
          BY <1>2, <5>0
        <5>2. p[j - 1] = s[h].mValue
          BY <1>4, <4>1, <5>1 DEF from, to
        <5> QED
          BY <1>3, <4>2, <5>1, <5>2
      <4>5. more[k] = more[k - 1] + new[k].mCount
        <5> DEFINE from == sum[h - 1]
                   to == sum[h]
                   n == s[h].mCount
        <5>0. from \in Nat /\ n \in Nat /\ to = from + n /\ more[k] = to + 1 /\ more[k - 1] = from + 1
          BY <4>2, <4>3
        <5> HIDE DEF from, to, n
        <5>2. more[k] = more[k - 1] + n
          BY <5>0
        <5>1. more[k] = more[k - 1] + s[h].mCount
          BY <5>2 DEF n
        <5> QED
          BY <4>2, <5>1
      <4> QED
        BY <4>4, <4>5
    <3> QED
      BY <3>1, <3>2
  <2>7. Sums(more, new, q) /\ more \in [0..Len(new) -> 0..Len(q)]
    BY <1>3, <2>3, <2>4, <2>5, <2>6 DEF Sums
  <2> QED
    BY <1>3, <2>3, <2>7 DEF Encodes, new, q
<1>7. CASE s # <<>> /\ s[1].mValue = v
  <2> DEFINE item == [s[1] EXCEPT !.mCount = @ + 1]
             more == [k \in 0..Len(s) |-> IF k = 0 THEN 0 ELSE sum[k] + 1]
  <2>0. 1 \in 1..Len(s) /\ s[1] \in TagItem
    BY <1>2, <1>7, ElementOfSeq
  <2>1. item \in TagItem /\ item.mValue = s[1].mValue /\ item.mCount = s[1].mCount + 1
    <3> DEFINE c == s[1].mCount + 1
               w == s[1].mValue
    <3>1. s[1].mCount \in Nat \ {0} /\ w \in Values /\ s[1] = [mValue |-> w, mCount |-> s[1].mCount]
      BY <2>0 DEF TagItem
    <3>2. c \in Nat \ {0}
      BY <3>1
    <3>3. item = [mValue |-> w, mCount |-> c]
      BY <3>1
    <3> HIDE DEF c, w, item
    <3>4. item \in TagItem /\ item.mValue = w /\ item.mCount = c
      BY <3>1, <3>2, <3>3 DEF TagItem
    <3> QED
      BY <3>4 DEF c, w
  <2>2. new = [s EXCEPT ![1] = item]
    BY <1>7 DEF T!Push
  <2> HIDE DEF item, new
  <2>3. new \in Seq(TagItem) /\ Len(new) = Len(s) /\ new[1] = item /\ \A i \in 2..Len(s) : new[i] = s[i]
    BY <2>0, <2>1, <2>2
  <2>4. more \in [0..Len(s) -> 0..(Len(p) + 1)] /\ more[0] = 0 /\ \A k \in 1..Len(s) : more[k] = sum[k] + 1
    <3>1. \A k \in 0..Len(s) : sum[k] \in 0..Len(p)
      OBVIOUS
    <3> QED
      BY <1>2, <3>1
  <2> HIDE DEF more
  <2>5. more[Len(new)] = Len(q)
    <3>1. Len(s) \in 1..Len(s)
      BY <1>2, <1>7
    <3> QED
      BY <1>3, <1>4, <2>3, <2>4, <3>1
  <2>6. ASSUME NEW k \in 1..Len(new)
        PROVE  /\ more[k] = more[k - 1] + new[k].mCount
               /\ \A j \in (more[k - 1] + 1)..more[k] : q[j] = new[k].mValue
    <3> DEFINE from == sum[k - 1]
               to == sum[k]
               n == s[k].mCount
    <3>1. k \in 1..Len(s) /\ from \in Nat /\ to \in Nat /\ n \in Nat /\ to <= Len(p) /\ to = from + n /\ more[k] = to + 1
      BY <1>4, <1>5, <2>3, <2>4
    <3>2. \A j \in (from + 1)..to : p[j] = s[k].mValue
      BY <1>4, <3>1
    <3> HIDE DEF to
    <3>3. CASE k = 1
      <4>1. from = 0 /\ more[k - 1] = 0 /\ new[k].mCount = n + 1 /\ new[k].mValue = v /\ s[k].mValue = v
        BY <1>4, <1>7, <2>1, <2>3, <2>4, <3>3
      <4> HIDE DEF from, n
      <4>2. more[k] = more[k - 1] + new[k].mCount
        BY <3>1, <4>1
      <4>3. ASSUME NEW j \in (more[k - 1] + 1)..more[k] PROVE q[j] = new[k].mValue
        <5>1. j = 1 \/ (j - 1 \in (from + 1)..to /\ j \in 2..(Len(p) + 1))
          BY <1>2, <3>1, <4>1
        <5> QED
          BY <1>3, <3>2, <4>1, <5>1
      <4> QED
        BY <4>2, <4>3
    <3>4. CASE k # 1
      <4>1. more[k - 1] = from + 1 /\ new[k] = s[k]
        <5>1. k - 1 \in 1..Len(s) /\ k \in 2..Len(s)
          BY <1>2, <3>1, <3>4
        <5> QED
          BY <2>3, <2>4, <5>1
      <4>2. new[k].mCount = n
        BY <4>1
      <4> HIDE DEF from, n
      <4>3. more[k] = more[k - 1] + new[k].mCount
        BY <3>1, <4>1, <4>2
      <4>4. ASSUME NEW j \in (more[k - 1] + 1)..more[k] PROVE q[j] = new[k].mValue
        <5>1. j - 1 \in (from + 1)..to /\ j \in 2..(Len(p) + 1)
          BY <1>2, <3>1, <4>1
        <5> QED
          BY <1>3, <3>2, <4>1, <5>1
      <4> QED
        BY <4>3, <4>4
    <3> QED
      BY <3>3, <3>4
  <2>7. Sums(more, new, q) /\ more \in [0..Len(new) -> 0..Len(q)]
    BY <1>3, <2>3, <2>4, <2>5, <2>6 DEF Sums
  <2> QED
    BY <1>3, <2>3, <2>7 DEF Encodes, new, q
<1> QED
  BY <1>6, <1>7

LEMMA PopKeeps ==
  ASSUME NEW s \in Seq(TagItem), NEW p \in Seq(Values), Encodes(s, p), s # <<>>
  PROVE  /\ T!Pop(s) \in Seq(TagItem) /\ Tail(p) \in Seq(Values) /\ p # <<>> /\ Encodes(T!Pop(s), Tail(p))
         /\ Len(T!Pop(s)) = Len(s) => SameTop(T!Pop(s), p)
<1> DEFINE q == Tail(p)
           new == T!Pop(s)
<1>1. PICK sum \in [0..Len(s) -> 0..Len(p)] : Sums(sum, s, p)
  BY DEF Encodes
<1>0. SameTop(s, p)
  BY EncodesTop
<1>2. Len(s) \in Nat /\ Len(p) \in Nat /\ Len(s) > 0 /\ Len(p) > 0 /\ p # <<>> /\ s[1].mValue = p[1]
  BY <1>0, EmptySeq DEF SameTop
<1>3. q \in Seq(Values) /\ Len(q) = Len(p) - 1 /\ \A i \in 1..(Len(p) - 1) : q[i] = p[i + 1]
  BY <1>2, HeadTailProperties
<1> HIDE DEF q
<1>4. /\ sum[0] = 0 /\ sum[Len(s)] = Len(p)
      /\ \A k \in 1..Len(s) : sum[k] = sum[k - 1] + s[k].mCount /\ sum[k] \in Nat /\ sum[k - 1] \in Nat
      /\ \A k \in 1..Len(s) : \A j \in (sum[k - 1] + 1)..sum[k] : p[j] = s[k].mValue
  <2>1. \A k \in 1..Len(s) : k \in 0..Len(s) /\ k - 1 \in 0..Len(s)
    BY <1>2
  <2>2. \A k \in 0..Len(s) : sum[k] \in Nat
    BY <1>2
  <2> QED
    BY <1>1, <2>1, <2>2 DEF Sums
<1>5. \A k \in 1..Len(s) : s[k].mCount \in Nat \ {0} /\ sum[k] <= Len(p)
  <2> SUFFICES ASSUME NEW k \in 1..Len(s) PROVE s[k].mCount \in Nat \ {0} /\ sum[k] <= Len(p)
    OBVIOUS
  <2>1. s[k] \in TagItem
    BY ElementOfSeq
  <2>2. s[k].mCount \in Nat \ {0}
    BY <2>1 DEF TagItem
  <2>3. k \in 0..Len(s)
    BY <1>2
  <2>4. sum[k] \in 0..Len(p)
    BY <2>3
  <2> QED
    BY <1>2, <2>2, <2>4
<1>5a. 1 \in 1..Len(s) /\ s[1] \in TagItem
  BY <1>2, ElementOfSeq
\* All the values counted are there: each sum but the first is at least one.
<1>5b. \A k \in 1..Len(s) : sum[k] >= 1
  <2> SUFFICES ASSUME NEW k \in 1..Len(s) PROVE sum[k] >= 1
    OBVIOUS
  <2> DEFINE from == sum[k - 1]
             n == s[k].mCount
  <2>1. from \in Nat /\ n \in Nat \ {0} /\ sum[k] = from + n
    BY <1>4, <1>5
  <2> HIDE DEF from, n
  <2> QED
    BY <2>1
<1>6. CASE s[1].mCount = 1
  <2> DEFINE less == [k \in 0..(Len(s) - 1) |-> sum[k + 1] - 1]
  <2>1. new \in Seq(TagItem) /\ Len(new) = Len(s) - 1 /\ \A i \in 1..(Len(s) - 1) : new[i] = s[i + 1]
    BY <1>6, HeadTailProperties DEF T!Pop
  <2> HIDE DEF new
  <2>2. less \in [0..(Len(s) - 1) -> 0..(Len(p) - 1)] /\ \A k \in 0..(Len(s) - 1) : less[k] = sum[k + 1] - 1
    <3>1. ASSUME NEW k \in 0..(Len(s) - 1) PROVE sum[k + 1] - 1 \in 0..(Len(p) - 1)
      <4>1. k + 1 \in 1..Len(s)
        BY <1>2
      <4>2. sum[k + 1] \in Nat /\ sum[k + 1] >= 1 /\ sum[k + 1] <= Len(p)
        BY <1>4, <1>5, <1>5b, <4>1
      <4> QED
        BY <1>2, <4>2
    <3> QED
      BY <3>1
  <2> HIDE DEF less
  <2>3. less[0] = 0 /\ less[Len(new)] = Len(q)
    <3>1. 0 \in 0..(Len(s) - 1) /\ Len(s) - 1 \in 0..(Len(s) - 1) /\ (Len(s) - 1) + 1 = Len(s) /\ 0 + 1 = 1 /\ 1 - 1 = 0
      BY <1>2
    <3>2. sum[1] = 1
      BY <1>4, <1>5a, <1>6, <3>1
    <3>3. less[0] = sum[1] - 1 /\ less[Len(s) - 1] = sum[Len(s)] - 1
      BY <2>2, <3>1
    <3> QED
      BY <1>3, <1>4, <2>1, <3>2, <3>3
  <2>4. ASSUME NEW k \in 1..Len(new)
        PROVE  /\ less[k] = less[k - 1] + new[k].mCount
               /\ \A j \in (less[k - 1] + 1)..less[k] : q[j] = new[k].mValue
    <3> DEFINE from == sum[k]
               to == sum[k + 1]
               n == s[k + 1].mCount
    <3>1. k + 1 \in 1..Len(s) /\ (k + 1) - 1 = k /\ (k - 1) + 1 = k /\ k \in 1..Len(s) /\ k \in 1..(Len(s) - 1)
          /\ k \in 0..(Len(s) - 1) /\ k - 1 \in 0..(Len(s) - 1)
      BY <1>2, <2>1
    <3>2. from \in Nat /\ from >= 1 /\ to \in Nat /\ n \in Nat /\ to <= Len(p) /\ to = from + n
      BY <1>4, <1>5, <1>5b, <3>1
    <3>3. new[k] = s[k + 1] /\ less[k] = to - 1 /\ less[k - 1] = from - 1
      BY <2>1, <2>2, <3>1
    <3>4. \A j \in (from + 1)..to : p[j] = s[k + 1].mValue
      BY <1>4, <3>1
    <3>5. new[k].mCount = n /\ new[k].mValue = s[k + 1].mValue
      BY <3>3
    <3> HIDE DEF from, to, n
    <3>6. less[k] = less[k - 1] + new[k].mCount
      BY <3>2, <3>3, <3>5
    <3>7. ASSUME NEW j \in (less[k - 1] + 1)..less[k] PROVE q[j] = new[k].mValue
      <4>1. j + 1 \in (from + 1)..to /\ j \in 1..(Len(p) - 1)
        BY <1>2, <3>2, <3>3
      <4> QED
        BY <1>3, <3>4, <3>5, <4>1
    <3> QED
      BY <3>6, <3>7
  <2>5. Sums(less, new, q) /\ less \in [0..Len(new) -> 0..Len(q)]
    BY <1>3, <2>1, <2>2, <2>3, <2>4 DEF Sums
  <2>6. Len(new) # Len(s)
    BY <1>2, <2>1
  <2> QED
    BY <1>2, <1>3, <2>1, <2>5, <2>6 DEF Encodes, new, q
<1>7. CASE s[1].mCount # 1
  <2> DEFINE item == [s[1] EXCEPT !.mCount = @ - 1]
             less == [k \in 0..Len(s) |-> IF k = 0 THEN 0 ELSE sum[k] - 1]
  <2>1. item \in TagItem /\ item.mValue = s[1].mValue /\ item.mCount = s[1].mCount - 1
    <3> DEFINE c == s[1].mCount - 1
               w == s[1].mValue
    <3>1. s[1].mCount \in Nat \ {0} /\ w \in Values /\ s[1] = [mValue |-> w, mCount |-> s[1].mCount]
      BY <1>5a DEF TagItem
    <3>2. c \in Nat \ {0}
      BY <1>7, <3>1
    <3>3. item = [mValue |-> w, mCount |-> c]
      BY <3>1
    <3> HIDE DEF c, w, item
    <3>4. item \in TagItem /\ item.mValue = w /\ item.mCount = c
      BY <3>1, <3>2, <3>3 DEF TagItem
    <3> QED
      BY <3>4 DEF c, w
  <2>2. new = [s EXCEPT ![1] = item]
    BY <1>7 DEF T!Pop
  <2> HIDE DEF item, new
  <2>3. new \in Seq(TagItem) /\ Len(new) = Len(s) /\ new[1] = item /\ \A i \in 2..Len(s) : new[i] = s[i]
    BY <1>5a, <2>1, <2>2
  <2>4. less \in [0..Len(s) -> 0..(Len(p) - 1)] /\ less[0] = 0 /\ \A k \in 1..Len(s) : less[k] = sum[k] - 1
    <3>1. \A k \in 1..Len(s) : sum[k] \in Nat /\ sum[k] >= 1 /\ sum[k] <= Len(p)
      BY <1>4, <1>5, <1>5b
    <3>2. \A k \in 0..Len(s) : less[k] \in 0..(Len(p) - 1)
      BY <1>2, <3>1
    <3> QED
      BY <1>2, <3>2
  <2> HIDE DEF less
  <2>5. less[Len(new)] = Len(q)
    <3>1. Len(s) \in 1..Len(s)
      BY <1>2
    <3> QED
      BY <1>3, <1>4, <2>3, <2>4, <3>1
  <2>6. ASSUME NEW k \in 1..Len(new)
        PROVE  /\ less[k] = less[k - 1] + new[k].mCount
               /\ \A j \in (less[k - 1] + 1)..less[k] : q[j] = new[k].mValue
    <3> DEFINE from == sum[k - 1]
               to == sum[k]
               n == s[k].mCount
    <3>1. k \in 1..Len(s) /\ from \in Nat /\ to \in Nat /\ n \in Nat /\ to <= Len(p) /\ to = from + n /\ less[k] = to - 1
      BY <1>4, <1>5, <2>3, <2>4
    <3>2. \A j \in (from + 1)..to : p[j] = s[k].mValue
      BY <1>4, <3>1
    <3> HIDE DEF to
    <3>3. CASE k = 1
      <4>1. from = 0 /\ less[k - 1] = 0 /\ new[k].mCount = n - 1 /\ new[k].mValue = s[k].mValue
        BY <1>4, <2>1, <2>3, <2>4, <3>3
      <4> HIDE DEF from, n
      <4>2. less[k] = less[k - 1] + new[k].mCount
        BY <3>1, <4>1
      <4>3. ASSUME NEW j \in (less[k - 1] + 1)..less[k] PROVE q[j] = new[k].mValue
        <5>1. j + 1 \in (from + 1)..to /\ j \in 1..(Len(p) - 1)
          BY <1>2, <3>1, <4>1
        <5> QED
          BY <1>3, <3>2, <4>1, <5>1
      <4> QED
        BY <4>2, <4>3
    <3>4. CASE k # 1
      <4>1. less[k - 1] = from - 1 /\ new[k] = s[k] /\ from >= 1
        <5>1. k - 1 \in 1..Len(s) /\ k \in 2..Len(s)
          BY <1>2, <3>1, <3>4
        <5> QED
          BY <1>5b, <2>3, <2>4, <5>1
      <4>2. new[k].mCount = n
        BY <4>1
      <4> HIDE DEF from, n
      <4>3. less[k] = less[k - 1] + new[k].mCount
        BY <3>1, <4>1, <4>2
      <4>4. ASSUME NEW j \in (less[k - 1] + 1)..less[k] PROVE q[j] = new[k].mValue
        <5>1. j + 1 \in (from + 1)..to /\ j \in 1..(Len(p) - 1)
          BY <1>2, <3>1, <4>1
        <5> QED
          BY <1>3, <3>2, <4>1, <5>1
      <4> QED
        BY <4>3, <4>4
    <3> QED
      BY <3>3, <3>4
  <2>7. Sums(less, new, q) /\ less \in [0..Len(new) -> 0..Len(q)]
    BY <1>3, <2>3, <2>4, <2>5, <2>6 DEF Sums
  <2>8. SameTop(new, p)
    <3>1. new # <<>> /\ new[1].mValue = p[1]
      BY <1>2, <2>1, <2>3, EmptySeq
    <3> QED
      BY <1>2, <3>1 DEF SameTop
  <2> QED
    BY <1>2, <1>3, <2>3, <2>7, <2>8 DEF Encodes, new, q
<1> QED
  BY <1>6, <1>7

\* The list of what is on top is made by a loop over the tags.
LEMMA TopsLoop ==
  ASSUME NbTags \in Nat, NEW Z, NEW f \in [1..NbTags -> Seq(Z)]
  PROVE  \E c \in [0..NbTags -> Seq(Z)] :
            /\ c[0] = <<>> /\ T!Tops(f) = c[NbTags]
            /\ \A t \in 1..NbTags : c[t] = T!AddTop(c[t - 1], f[t])
<1> DEFINE R == Seq(Z)
           v == <<>>
           h == [p \in (1..NbTags) \X R |-> T!AddTop(p[2], f[p[1]])]
           Is(c) == c = [t \in 0..NbTags |-> IF t = 0 THEN <<>> ELSE T!AddTop(c[t - 1], f[t])]
           tops == CHOOSE c : Is(c)
<1>1. v \in R
  BY EmptySeq
<1>2. ASSUME NEW t \in 1..NbTags, NEW c \in R PROVE T!AddTop(c, f[t]) \in R
  <2>1. f[t] # <<>> => f[t][1] \in Z
    <3>1. f[t] \in Seq(Z)
      OBVIOUS
    <3> DEFINE s == f[t]
    <3> HIDE DEF s
    <3>2. s \in Seq(Z) => (s # <<>> => 1 \in 1..Len(s) /\ s[1] \in Z)
      BY ElementOfSeq, EmptySeq, LenProperties
    <3> QED
      BY <3>1, <3>2 DEF s
  <2>2. f[t] # <<>> => Append(c, f[t][1]) \in Seq(Z)
    BY <2>1, AppendProperties
  <2> QED
    BY <2>2 DEF T!AddTop
<1>3. h \in [(1..NbTags) \X R -> R]
  <2> HIDE DEF R
  <2> QED
    BY <1>2
<1>4. \E c : Is(c) /\ c \in [0..NbTags -> R]
  <2> HIDE DEF R, v, h
  <2>1. PICK c : Loop(c, NbTags, v, h) /\ c \in [0..NbTags -> R]
    BY <1>1, <1>3, Iterates
  <2>2. c = [i \in 0..NbTags |-> IF i = 0 THEN v ELSE h[<<i, c[i - 1]>>]]
    BY <2>1 DEF Loop
  <2>3. \A i \in 0..NbTags : i # 0 => h[<<i, c[i - 1]>>] = T!AddTop(c[i - 1], f[i])
    <3> SUFFICES ASSUME NEW i \in 1..NbTags PROVE h[<<i, c[i - 1]>>] = T!AddTop(c[i - 1], f[i])
      OBVIOUS
    <3>1. c[i - 1] \in R
      BY <2>1
    <3> QED
      BY <3>1 DEF h
  <2>4. Is(c)
    BY <2>2, <2>3 DEF v
  <2> QED
    BY <2>1, <2>4
<1>5. Is(tops)
  BY <1>4
<1>6. T!Tops(f) = tops[NbTags]
  BY DEF T!Tops
<1> HIDE DEF tops
<1>7. tops[0] = <<>> /\ \A t \in 1..NbTags : tops[t] = T!AddTop(tops[t - 1], f[t])
  BY <1>5
<1> DEFINE S == {t \in 0..NbTags : tops[t] \in R}
<1>8. 0 \in S
  <2>1. tops[0] \in R
    <3> HIDE DEF R
    <3> QED
      BY <1>1, <1>7
  <2> HIDE DEF R
  <2> QED
    BY <2>1
<1>9. ASSUME NEW t \in 1..NbTags, t - 1 \in S PROVE t \in S
  <2> HIDE DEF R
  <2>1. T!AddTop(tops[t - 1], f[t]) \in R
    BY <1>2, <1>9
  <2> QED
    BY <1>7, <2>1
<1>10. \A t \in 0..NbTags : t \in S
  <2> HIDE DEF S
  <2> QED
    BY <1>8, <1>9, UpTo
<1>11. tops \in [0..NbTags -> R]
  <2> HIDE DEF R
  <2>1. tops = [t \in 0..NbTags |-> IF t = 0 THEN <<>> ELSE T!AddTop(tops[t - 1], f[t])]
    BY <1>5
  <2>2. DOMAIN tops = 0..NbTags /\ tops = [t \in 0..NbTags |-> tops[t]]
    BY <2>1
  <2> QED
    BY <1>10, <2>2
<1> QED
  BY <1>6, <1>7, <1>11

\* Stacks and values with the same on top give the same list.
LEMMA TopsAgree ==
  ASSUME NbTags \in Nat, NEW f \in [1..NbTags -> Seq(TagItem)], NEW g \in [1..NbTags -> Seq(Values)],
         \A t \in 1..NbTags : SameTop(f[t], g[t])
  PROVE  T!TopValues(f) = T!Tops(g)
<1>1. PICK c \in [0..NbTags -> Seq(TagItem)] :
            /\ c[0] = <<>> /\ T!Tops(f) = c[NbTags]
            /\ \A t \in 1..NbTags : c[t] = T!AddTop(c[t - 1], f[t])
  BY TopsLoop
<1>2. PICK d \in [0..NbTags -> Seq(Values)] :
            /\ d[0] = <<>> /\ T!Tops(g) = d[NbTags]
            /\ \A t \in 1..NbTags : d[t] = T!AddTop(d[t - 1], g[t])
  BY TopsLoop
<1> DEFINE Alike(a, b) == Len(a) = Len(b) /\ \A i \in 1..Len(a) : a[i].mValue = b[i]
           S == {t \in 0..NbTags : Alike(c[t], d[t])}
<1>3. 0 \in S
  <2>1. Len(<<>>) = 0 /\ 1..0 = {}
    OBVIOUS
  <2> QED
    BY <1>1, <1>2, <2>1
<1>4. ASSUME NEW t \in 1..NbTags, t - 1 \in S PROVE t \in S
  <2> DEFINE a == c[t - 1]
             b == d[t - 1]
             x == f[t][1]
             y == g[t][1]
  <2>1. a \in Seq(TagItem) /\ b \in Seq(Values) /\ Alike(a, b) /\ t \in 0..NbTags /\ f[t] \in Seq(TagItem) /\ g[t] \in Seq(Values)
    BY <1>4
  <2>2. c[t] = (IF f[t] = <<>> THEN a ELSE Append(a, x)) /\ d[t] = (IF g[t] = <<>> THEN b ELSE Append(b, y))
    BY <1>1, <1>2 DEF T!AddTop
  <2>3. SameTop(f[t], g[t])
    OBVIOUS
  <2> HIDE DEF a, b
  <2>4. CASE f[t] = <<>>
    <3>1. c[t] = a /\ d[t] = b
      BY <2>2, <2>3, <2>4 DEF SameTop
    <3> QED
      BY <2>1, <3>1
  <2>5. CASE f[t] # <<>>
    <3>1. c[t] = Append(a, x) /\ d[t] = Append(b, y) /\ x.mValue = y
      BY <2>2, <2>3, <2>5 DEF SameTop
    <3>2. x \in TagItem /\ y \in Values
      <4>1. \A Z : \A s \in Seq(Z) : s # <<>> => s[1] \in Z
        BY ElementOfSeq, EmptySeq, LenProperties
      <4>2. g[t] # <<>>
        BY <2>3, <2>5 DEF SameTop
      <4> QED
        BY <2>1, <2>5, <4>1, <4>2
    <3> HIDE DEF x, y
    <3>3. /\ Len(Append(a, x)) = Len(a) + 1 /\ (\A i \in 1..Len(a) : Append(a, x)[i] = a[i]) /\ Append(a, x)[Len(a) + 1] = x
      BY <2>1, <3>2, AppendProperties
    <3>4. /\ Len(Append(b, y)) = Len(b) + 1 /\ (\A i \in 1..Len(b) : Append(b, y)[i] = b[i]) /\ Append(b, y)[Len(b) + 1] = y
      BY <2>1, <3>2, AppendProperties
    <3> DEFINE a1 == Append(a, x)
               b1 == Append(b, y)
               n == Len(a)
    <3>5. /\ n \in Nat /\ Len(a1) = n + 1 /\ (\A i \in 1..n : a1[i] = a[i]) /\ a1[n + 1] = x
          /\ Len(b1) = n + 1 /\ (\A i \in 1..n : b1[i] = b[i]) /\ b1[n + 1] = y
          /\ \A i \in 1..n : a[i].mValue = b[i]
      BY <2>1, <3>3, <3>4, LenProperties
    <3> HIDE DEF a1, b1, n
    <3>6. ASSUME NEW i \in 1..(n + 1) PROVE a1[i].mValue = b1[i]
      <4>1. i = n + 1 \/ i \in 1..n
        BY <3>5
      <4>2. CASE i = n + 1
        BY <3>1, <3>5, <4>2
      <4>3. CASE i \in 1..n
        BY <3>5, <4>3
      <4> QED
        BY <4>1, <4>2, <4>3
    <3>7. c[t] = a1 /\ d[t] = b1
      BY <3>1 DEF a1, b1
    <3> QED
      BY <2>1, <3>5, <3>6, <3>7
  <2> QED
    BY <2>4, <2>5
<1>5. Alike(c[NbTags], d[NbTags])
  <2>1. \A t \in 0..NbTags : t \in S
    <3> HIDE DEF S
    <3> QED
      BY <1>3, <1>4, UpTo
  <2> QED
    BY <2>1
<1>6. T!TopValues(f) = [i \in DOMAIN c[NbTags] |-> c[NbTags][i].mValue]
  BY <1>1 DEF T!TopValues
<1>7. c[NbTags] \in Seq(TagItem) /\ d[NbTags] \in Seq(Values)
  OBVIOUS
<1> DEFINE a == c[NbTags]
           b == d[NbTags]
<1> HIDE DEF a, b
<1>8. DOMAIN a = 1..Len(a) /\ DOMAIN b = 1..Len(a) /\ b = [i \in 1..Len(a) |-> b[i]] /\ \A i \in 1..Len(a) : a[i].mValue = b[i]
  <2>1. a \in Seq(TagItem) /\ b \in Seq(Values) /\ Alike(a, b)
    BY <1>5, <1>7 DEF a, b
  <2>2. DOMAIN a = 1..Len(a) /\ DOMAIN b = 1..Len(b)
    BY <2>1, LenProperties
  <2>3. b \in [1..Len(b) -> Values]
    BY <2>1, LenProperties
  <2> QED
    BY <2>1, <2>2, <2>3
<1>9. [i \in DOMAIN a |-> a[i].mValue] = b
  BY <1>8
<1> QED
  BY <1>2, <1>6, <1>9 DEF a, b

TagInv ==
    /\ mTags \in [TagThreads -> [1..NbTags -> Seq(TagItem)]]
    /\ pushed \in [TagThreads -> [1..NbTags -> Seq(Values)]]
    /\ mTagsModified \in [TagThreads -> BOOLEAN]
    /\ DOMAIN mCurrentTags = TagThreads
    /\ copied \in [1..NbTags -> Seq(Values)]
    /\ \A t \in 1..NbTags : copied[t] # <<>> => \E v \in Values : copied[t] = <<v>>
    /\ \A th \in TagThreads : \A t \in 1..NbTags : Encodes(mTags[th][t], pushed[th][t])
    /\ \A th \in TagThreads : ~mTagsModified[th] => mCurrentTags[th] = T!Tops(pushed[th])

LEMMA TagInit == NbTags \in Nat /\ T!Init => TagInv
<1> SUFFICES ASSUME NbTags \in Nat, T!Init PROVE TagInv
  OBVIOUS
<1>1. /\ mTags = [th \in TagThreads |-> [t \in 1..NbTags |-> <<>>]]
      /\ pushed = [th \in TagThreads |-> [t \in 1..NbTags |-> <<>>]]
      /\ mTagsModified = [th \in TagThreads |-> FALSE] /\ mCurrentTags = [th \in TagThreads |-> <<>>]
      /\ copied = [t \in 1..NbTags |-> <<>>]
  BY DEF T!Init, T!NoCopy, T!TagTypes
<1>2. <<>> \in Seq(TagItem) /\ <<>> \in Seq(Values)
  BY EmptySeq
<1>3. Encodes(<<>>, <<>>)
  <2> DEFINE sum == [k \in 0..0 |-> 0]
  <2>1. sum \in [0..Len(<<>>) -> 0..Len(<<>>)] /\ Sums(sum, <<>>, <<>>)
    BY DEF Sums
  <2> QED
    BY <2>1 DEF Encodes
<1> DEFINE none == [t \in 1..NbTags |-> <<>>]
<1>4. none \in [1..NbTags -> Seq(TagItem)] /\ none \in [1..NbTags -> Seq(Values)] /\ \A t \in 1..NbTags : SameTop(none[t], none[t]) /\ none[t] = <<>>
  BY <1>2 DEF SameTop
<1>5. T!Tops(none) = <<>>
  <2> HIDE DEF none
  <2>1. PICK c \in [0..NbTags -> Seq(Values)] :
            /\ c[0] = <<>> /\ T!Tops(none) = c[NbTags]
            /\ \A t \in 1..NbTags : c[t] = T!AddTop(c[t - 1], none[t])
    BY <1>4, TopsLoop
  <2> DEFINE S == {t \in 0..NbTags : c[t] = <<>>}
  <2>2. 0 \in S
    BY <2>1
  <2>3. ASSUME NEW t \in 1..NbTags, t - 1 \in S PROVE t \in S
    <3>1. c[t] = T!AddTop(c[t - 1], none[t]) /\ none[t] = <<>> /\ c[t - 1] = <<>> /\ t \in 0..NbTags
      BY <1>4, <2>1, <2>3
    <3> QED
      BY <3>1 DEF T!AddTop
  <2>4. \A t \in 0..NbTags : t \in S
    <3> HIDE DEF S
    <3> QED
      BY <2>2, <2>3, UpTo
  <2> QED
    BY <2>1, <2>4
<1> QED
  BY <1>1, <1>2, <1>3, <1>4, <1>5 DEF TagInv

\* The stacks of one thread change, and the values pushed with them; the list
\* is to be made again, unless every stack shows what it did.
LEMMA TagsChange ==
  ASSUME TagInv, NbTags \in Nat, NEW th \in TagThreads,
         NEW stacks \in [1..NbTags -> Seq(TagItem)], NEW values \in [1..NbTags -> Seq(Values)],
         \A t \in 1..NbTags : Encodes(stacks[t], values[t]),
         NEW changed \in BOOLEAN,
         ~changed => mTagsModified[th] \/ \A t \in 1..NbTags : SameTop(stacks[t], pushed[th][t]),
         mTags' = [mTags EXCEPT ![th] = stacks], pushed' = [pushed EXCEPT ![th] = values],
         mTagsModified' = [mTagsModified EXCEPT ![th] = mTagsModified[th] \/ changed],
         UNCHANGED <<mCurrentTags, copied>>
  PROVE  TagInv'
<1>1. /\ mTags' \in [TagThreads -> [1..NbTags -> Seq(TagItem)]]
      /\ pushed' \in [TagThreads -> [1..NbTags -> Seq(Values)]]
      /\ \A x \in TagThreads : mTags'[x] = (IF x = th THEN stacks ELSE mTags[x]) /\ pushed'[x] = (IF x = th THEN values ELSE pushed[x])
  BY DEF TagInv
<1>2. mTagsModified' \in [TagThreads -> BOOLEAN]
      /\ \A x \in TagThreads : mTagsModified'[x] = (mTagsModified[x] \/ (x = th /\ changed))
  BY Zenon DEF TagInv
<1>3. ASSUME NEW x \in TagThreads PROVE \A t \in 1..NbTags : Encodes(mTags'[x][t], pushed'[x][t])
  <2>1. CASE x = th
    BY <1>1, <2>1
  <2>2. CASE x # th
    BY <1>1, <2>2 DEF TagInv
  <2> QED
    BY <2>1, <2>2
<1>4. ASSUME NEW x \in TagThreads, ~mTagsModified'[x] PROVE mCurrentTags'[x] = T!Tops(pushed'[x])
  <2>1. ~mTagsModified[x] /\ mCurrentTags[x] = T!Tops(pushed[x]) /\ mCurrentTags' = mCurrentTags
    BY <1>2, <1>4 DEF TagInv
  <2>2. CASE x # th
    BY <1>1, <2>1, <2>2
  <2>3. CASE x = th
    <3>1. ~changed
      BY <1>2, <1>4, <2>3
    <3>2. \A t \in 1..NbTags : SameTop(stacks[t], pushed[th][t])
      BY <2>1, <2>3, <3>1
    <3>3. pushed[th] \in [1..NbTags -> Seq(Values)]
      BY DEF TagInv
    <3>4. T!TopValues(stacks) = T!Tops(pushed[th])
      BY <3>2, <3>3, TopsAgree
    <3>5. \A t \in 1..NbTags : SameTop(stacks[t], values[t])
      <4> SUFFICES ASSUME NEW t \in 1..NbTags PROVE SameTop(stacks[t], values[t])
        OBVIOUS
      <4>1. stacks[t] \in Seq(TagItem) /\ values[t] \in Seq(Values) /\ Encodes(stacks[t], values[t])
        OBVIOUS
      <4> QED
        BY <4>1, EncodesTop
    <3>6. T!TopValues(stacks) = T!Tops(values)
      BY <3>5, TopsAgree
    <3> QED
      BY <1>1, <2>1, <2>3, <3>4, <3>6
  <2> QED
    BY <2>2, <2>3
<1>5. DOMAIN mCurrentTags' = TagThreads /\ copied' \in [1..NbTags -> Seq(Values)]
      /\ \A t \in 1..NbTags : copied'[t] # <<>> => \E v \in Values : copied'[t] = <<v>>
  BY DEF TagInv
<1> QED
  BY <1>1, <1>2, <1>3, <1>4, <1>5 DEF TagInv

\* The values on top are the last pushed, and the list that is not out of date.
LEMMA TagsTop ==
  ASSUME TagInv, NbTags \in Nat, NEW th \in TagThreads
  PROVE  /\ T!TopValues(mTags[th]) = T!Tops(pushed[th])
         /\ ~mTagsModified[th] => mCurrentTags[th] = T!Tops(pushed[th])
<1>1. mTags[th] \in [1..NbTags -> Seq(TagItem)] /\ pushed[th] \in [1..NbTags -> Seq(Values)]
  BY DEF TagInv
<1>2. \A t \in 1..NbTags : SameTop(mTags[th][t], pushed[th][t])
  <2> SUFFICES ASSUME NEW t \in 1..NbTags PROVE SameTop(mTags[th][t], pushed[th][t])
    OBVIOUS
  <2>1. mTags[th][t] \in Seq(TagItem) /\ pushed[th][t] \in Seq(Values) /\ Encodes(mTags[th][t], pushed[th][t])
    BY <1>1 DEF TagInv
  <2> QED
    BY <2>1, EncodesTop
<1>3. T!TopValues(mTags[th]) = T!Tops(pushed[th])
  BY <1>1, <1>2, TopsAgree
<1> QED
  BY <1>3 DEF TagInv

LEMMA TagsHold == ASSUME TagInv, NbTags \in Nat PROVE TagsRestored
BY TagsTop DEF TagsRestored

LEMMA TagPush ==
  ASSUME TagInv, NbTags \in Nat, NEW th \in TagThreads, NEW t \in T!TagTypes, NEW v \in Values, T!pushTag(th, t, v)
  PROVE  TagInv'
<1> DEFINE s == mTags[th][t]
           p == pushed[th][t]
           stacks == [mTags[th] EXCEPT ![t] = T!Push(s, v)]
           values == [pushed[th] EXCEPT ![t] = <<v>> \o p]
<1>1. t \in 1..NbTags /\ mTags[th] \in [1..NbTags -> Seq(TagItem)] /\ pushed[th] \in [1..NbTags -> Seq(Values)]
  BY DEF TagInv, T!TagTypes
<1>2. s \in Seq(TagItem) /\ p \in Seq(Values) /\ Encodes(s, p)
  BY <1>1 DEF TagInv
<1>3. T!Push(s, v) \in Seq(TagItem) /\ <<v>> \o p \in Seq(Values) /\ Encodes(T!Push(s, v), <<v>> \o p)
  BY <1>2, PushKeeps
<1> DEFINE s1 == T!Push(s, v)
           p1 == <<v>> \o p
<1>4. mTags' = [mTags EXCEPT ![th] = stacks] /\ pushed' = [pushed EXCEPT ![th] = values]
      /\ mTagsModified' = [mTagsModified EXCEPT ![th] = mTagsModified[th] \/ TRUE] /\ UNCHANGED <<mCurrentTags, copied>>
  BY DEF T!pushTag
<1> HIDE DEF s1, p1
<1>5. stacks \in [1..NbTags -> Seq(TagItem)] /\ values \in [1..NbTags -> Seq(Values)]
      /\ \A x \in 1..NbTags : Encodes(stacks[x], values[x])
  <2>1. stacks = [mTags[th] EXCEPT ![t] = s1] /\ values = [pushed[th] EXCEPT ![t] = p1]
    BY DEF s1, p1
  <2>2. s1 \in Seq(TagItem) /\ p1 \in Seq(Values) /\ Encodes(s1, p1)
    BY <1>3 DEF s1, p1
  <2>3. \A x \in 1..NbTags : Encodes(mTags[th][x], pushed[th][x])
    BY DEF TagInv
  <2> HIDE DEF stacks, values
  <2> QED
    BY <1>1, <2>1, <2>2, <2>3
<1> HIDE DEF stacks, values
<1> QED
  BY <1>4, <1>5, TagsChange, Zenon

LEMMA TagPop ==
  ASSUME TagInv, NbTags \in Nat, NEW th \in TagThreads, NEW t \in T!TagTypes, T!popTag(th, t)
  PROVE  TagInv'
<1> DEFINE s == mTags[th][t]
           p == pushed[th][t]
           s1 == T!Pop(s)
           p1 == Tail(p)
           changed == Len(mTags'[th][t]) # Len(mTags[th][t])
<1>1. t \in 1..NbTags /\ mTags[th] \in [1..NbTags -> Seq(TagItem)] /\ pushed[th] \in [1..NbTags -> Seq(Values)]
      /\ mTags \in [TagThreads -> [1..NbTags -> Seq(TagItem)]]
  BY DEF TagInv, T!TagTypes
<1>2. s \in Seq(TagItem) /\ p \in Seq(Values) /\ Encodes(s, p)
  BY <1>1 DEF TagInv
<1>3. CASE s = <<>>
  <2>1. UNCHANGED <<mTags, mTagsModified, pushed, mCurrentTags, copied>>
    BY <1>3 DEF T!popTag
  <2> QED
    BY <2>1 DEF TagInv
<1>4. CASE s # <<>>
  <2>1. s1 \in Seq(TagItem) /\ p1 \in Seq(Values) /\ Encodes(s1, p1) /\ (Len(s1) = Len(s) => SameTop(s1, p))
    BY <1>2, <1>4, PopKeeps
  <2> DEFINE stacks == [mTags[th] EXCEPT ![t] = s1]
             values == [pushed[th] EXCEPT ![t] = p1]
  <2>2. mTags' = [mTags EXCEPT ![th] = stacks] /\ pushed' = [pushed EXCEPT ![th] = values]
        /\ mTagsModified' = [mTagsModified EXCEPT ![th] = mTagsModified[th] \/ changed] /\ UNCHANGED <<mCurrentTags, copied>>
    BY <1>4 DEF T!popTag, T!Popped
  <2> HIDE DEF s1, p1
  <2>3. stacks \in [1..NbTags -> Seq(TagItem)] /\ values \in [1..NbTags -> Seq(Values)]
        /\ \A x \in 1..NbTags : Encodes(stacks[x], values[x])
    <3>1. \A x \in 1..NbTags : Encodes(mTags[th][x], pushed[th][x])
      BY DEF TagInv
    <3> QED
      BY <1>1, <2>1, <3>1
  <2>4. ~changed => \A x \in 1..NbTags : SameTop(stacks[x], pushed[th][x])
    <3> SUFFICES ASSUME ~changed, NEW x \in 1..NbTags PROVE SameTop(stacks[x], pushed[th][x])
      OBVIOUS
    <3>1. mTags'[th] = stacks /\ stacks[t] = s1
      BY <1>1, <2>2
    <3>2. Len(s1) = Len(s)
      BY <3>1
    <3>3. CASE x = t
      BY <1>1, <2>1, <3>1, <3>2, <3>3
    <3>4. CASE x # t
      <4>1. stacks[x] = mTags[th][x]
        BY <1>1, <3>4
      <4>2. mTags[th][x] \in Seq(TagItem) /\ pushed[th][x] \in Seq(Values) /\ Encodes(mTags[th][x], pushed[th][x])
        BY <1>1 DEF TagInv
      <4> QED
        BY <4>1, <4>2, EncodesTop
    <3> QED
      BY <3>3, <3>4
  <2>5. changed \in BOOLEAN
    OBVIOUS
  <2> HIDE DEF stacks, values, changed
  <2> QED
    BY <2>2, <2>3, <2>4, <2>5, TagsChange, Zenon
<1> QED
  BY <1>3, <1>4

LEMMA TagPaste ==
  ASSUME TagInv, NbTags \in Nat, NEW th \in TagThreads, T!paste(th)
  PROVE  TagInv'
<1> DEFINE stacks == [t \in 1..NbTags |-> IF copied[t] = <<>> THEN mTags[th][t] ELSE T!Push(mTags[th][t], copied[t][1])]
           values == [t \in 1..NbTags |-> copied[t] \o pushed[th][t]]
<1>1. mTags' = [mTags EXCEPT ![th] = stacks] /\ pushed' = [pushed EXCEPT ![th] = values]
      /\ mTagsModified' = [mTagsModified EXCEPT ![th] = mTagsModified[th] \/ TRUE] /\ UNCHANGED <<mCurrentTags, copied>>
  BY DEF T!paste, T!TagTypes
<1>2. ASSUME NEW t \in 1..NbTags
      PROVE  stacks[t] \in Seq(TagItem) /\ values[t] \in Seq(Values) /\ Encodes(stacks[t], values[t])
  <2> DEFINE s == mTags[th][t]
             p == pushed[th][t]
  <2>1. s \in Seq(TagItem) /\ p \in Seq(Values) /\ Encodes(s, p)
    BY DEF TagInv
  <2>2. CASE copied[t] = <<>>
    <3>1. stacks[t] = s /\ values[t] = <<>> \o p
      BY <2>2
    <3> HIDE DEF s, p, stacks, values
    <3>2. values[t] = p
      BY <2>1, <3>1, ConcatEmptySeq
    <3> QED
      BY <2>1, <3>1, <3>2
  <2>3. CASE copied[t] # <<>>
    <3>1. PICK v \in Values : copied[t] = <<v>>
      BY <2>3 DEF TagInv
    <3>0. copied[t][1] = v
      BY <3>1
    <3>3. stacks[t] = T!Push(s, copied[t][1]) /\ values[t] = copied[t] \o p
      BY <2>3
    <3>2. stacks[t] = T!Push(s, v) /\ values[t] = <<v>> \o p
      BY <3>0, <3>1, <3>3, Zenon
    <3> HIDE DEF s, p, stacks, values
    <3> QED
      BY <2>1, <3>2, PushKeeps
  <2> QED
    BY <2>2, <2>3
<1>3. stacks \in [1..NbTags -> Seq(TagItem)] /\ values \in [1..NbTags -> Seq(Values)]
  BY <1>2
<1> HIDE DEF stacks, values
<1> QED
  BY <1>1, <1>2, <1>3, TagsChange, Zenon

LEMMA TagList ==
  ASSUME TagInv, NbTags \in Nat, NEW th \in TagThreads, T!getTags(th)
  PROVE  TagInv'
<1>1. /\ mCurrentTags' = IF mTagsModified[th] THEN [mCurrentTags EXCEPT ![th] = T!TopValues(mTags[th])] ELSE mCurrentTags
      /\ mTagsModified' = [mTagsModified EXCEPT ![th] = FALSE] /\ UNCHANGED <<mTags, pushed, copied>>
  BY DEF T!getTags
<1>2. T!TopValues(mTags[th]) = T!Tops(pushed[th])
  BY TagsTop
<1>3. ASSUME NEW x \in TagThreads, ~mTagsModified'[x] PROVE mCurrentTags'[x] = T!Tops(pushed[x])
  <2>1. CASE x = th /\ mTagsModified[th]
    BY <1>1, <1>2, <2>1 DEF TagInv
  <2>2. CASE x = th /\ ~mTagsModified[th]
    BY <1>1, <2>2 DEF TagInv
  <2>3. CASE x # th
    <3>1. ~mTagsModified[x]
      BY <1>1, <1>3, <2>3 DEF TagInv
    <3>2. mCurrentTags'[x] = mCurrentTags[x]
      BY <1>1, <2>3 DEF TagInv
    <3> QED
      BY <3>1, <3>2 DEF TagInv
  <2> QED
    BY <2>1, <2>2, <2>3
<1>4. mTagsModified' \in [TagThreads -> BOOLEAN] /\ DOMAIN mCurrentTags' = TagThreads
  BY <1>1, Zenon DEF TagInv
<1> QED
  BY <1>1, <1>3, <1>4 DEF TagInv

LEMMA TagCopy ==
  ASSUME TagInv, NbTags \in Nat, NEW th \in TagThreads, T!createCopy(th)
  PROVE  TagInv'
<1>1. copied' = [t \in 1..NbTags |-> IF mTags[th][t] = <<>> THEN <<>> ELSE <<mTags[th][t][1].mValue>>]
      /\ UNCHANGED <<mTags, mTagsModified, mCurrentTags, pushed>>
  BY DEF T!createCopy, T!TagTypes
<1>2. ASSUME NEW t \in 1..NbTags
      PROVE  copied'[t] \in Seq(Values) /\ (copied'[t] # <<>> => \E v \in Values : copied'[t] = <<v>>)
  <2> DEFINE s == mTags[th][t]
  <2>1. s \in Seq(TagItem)
    BY DEF TagInv
  <2>2. copied'[t] = IF s = <<>> THEN <<>> ELSE <<s[1].mValue>>
    BY <1>1
  <2> HIDE DEF s
  <2>3. s # <<>> => s[1].mValue \in Values
    <3>1. s # <<>> => s[1] \in TagItem
      BY <2>1, EmptySeq, ElementOfSeq, LenProperties
    <3> QED
      BY <3>1 DEF TagItem
  <2>4. \A v \in Values : <<v>> \in Seq(Values) /\ <<v>> # <<>>
    OBVIOUS
  <2>5. <<>> \in Seq(Values)
    BY EmptySeq
  <2> QED
    BY <2>2, <2>3, <2>4, <2>5
<1>3. copied' \in [1..NbTags -> Seq(Values)]
  BY <1>1, <1>2
<1> QED
  BY <1>1, <1>2, <1>3 DEF TagInv

LEMMA TagStep ==
  ASSUME TagInv, NbTags \in Nat, [T!Next]_T!vars
  PROVE  TagInv'
<1>1. CASE T!Next
  BY <1>1, TagPush, TagPop, TagPaste, TagList, TagCopy DEF T!Next
<1>2. CASE UNCHANGED T!vars
  BY <1>2 DEF TagInv, T!vars
<1> QED
  BY <1>1, <1>2

\* Any threads, number of tags and values: a tag shows the last value pushed
\* and not popped, whatever was counted, and the list is not out of date, where
\* log-tags.cc says so.
THEOREM TagsRestoredHold == Spec => []TagsRestored
<1>0. NbTags \in Nat
  BY LogsAssumption
<1>1. Init => TagInv
  BY <1>0, TagInit DEF Init
<1>2. TagInv /\ [Next]_vars => TagInv'
  <2> SUFFICES ASSUME TagInv, [Next]_vars PROVE TagInv'
    OBVIOUS
  <2>1. [T!Next]_T!vars
    BY Zenon DEF Next, Utilities, Logging, vars, logVars, tagVars, T!vars
  <2> QED
    BY <1>0, <2>1, TagStep
<1>3. TagInv => TagsRestored
  BY <1>0, TagsHold
<1> QED
  BY <1>1, <1>2, <1>3, PTL DEF Spec

-----------------------------------------------------------------------------
(* Log files.                                                              *)

StreamType == [file : F!Files \cup {0}, state : {"open", "null", "closed", "none"}, size : Nat, reopen_requested : BOOLEAN]

\* The messages in a file are in order, and a message is in one file.
DataKept(d, n) ==
    /\ d \in [F!Files -> Seq(1..n)]
    /\ \A f \in F!Files : \A i, j \in DOMAIN d[f] : i < j => d[f][i] < d[f][j]
    /\ \A f, g \in F!Files : \A i \in DOMAIN d[f], j \in DOMAIN d[g] : d[f][i] = d[g][j] => f = g

\* A file has one name, or was taken away; an older one is not empty, and its
\* messages were logged before those of a newer one.
NamesKept(ns, d, gone) ==
    /\ ns \in [F!Nb -> F!Files \cup {0}]
    /\ \A n, k \in F!Nb : ns[n] # 0 /\ ns[n] = ns[k] => n = k
    /\ \A n \in F!Nb : ns[n] \notin gone
    /\ \A n \in F!Nb \ {0} : ns[n] # 0 => d[ns[n]] # <<>>
    /\ \A n, k \in F!Nb : n > k /\ ns[n] # 0 /\ ns[k] # 0 =>
          \A i \in DOMAIN d[ns[n]], j \in DOMAIN d[ns[k]] : d[ns[n]][i] < d[ns[k]][j]

Found(ns, d, gone) == \A f \in F!Files : d[f] # <<>> => f \in gone \/ \E n \in F!Nb : ns[n] = f

\* The size of a file whose messages have the lengths of lg.
SizeIn(lg, s) == LET size[i \in 0..Len(s)] == IF i = 0 THEN 0 ELSE size[i - 1] + lg[s[i]] IN size[Len(s)]

\* The stream of the handler is that of the newest file, or of one taken away.
AtNewest(fh, ns, gone) == fh.file \in F!Files /\ (fh.file = ns[0] \/ (fh.file \in gone /\ ns[0] = 0))

\* An open stream knows the size of its file; where there is no handler the
\* newest file is one that can be written.
StreamKept ==
    /\ filehandler.state = "open" =>
          /\ AtNewest(filehandler, names, away)
          /\ max_size > 0 => filehandler.size <= max_size /\ SizeIn(logged, data[filehandler.file]) = filehandler.size
    /\ filehandler.state = "none" /\ max_size > 0 /\ names[0] # 0 => SizeIn(logged, data[names[0]]) <= max_size

SizesKept == max_size > 0 => \A f \in F!Files : SizeIn(logged, data[f]) <= max_size + Max(Lengths)

FilesInv ==
    /\ max_size \in Nat /\ renameFailed \in BOOLEAN
    /\ logged \in Seq(Lengths) /\ Len(logged) <= MaxMessages
    /\ away \subseteq F!Files /\ Cardinality(away) <= MaxAway
    /\ filehandler \in StreamType
    /\ DataKept(data, Len(logged)) /\ NamesKept(names, data, away)
    /\ StreamKept
    /\ ~renameFailed => filehandler.state # "closed" /\ Found(names, data, away)
    /\ SizesKept

\* Files that are not empty are told apart by their first messages.
LEMMA FirstMessages ==
  ASSUME NEW n \in Nat, NEW d, DataKept(d, n), NEW f \in F!Files, d[f] # <<>>
  PROVE  /\ 1 \in DOMAIN d[f] /\ d[f][1] \in 1..n
         /\ \A g \in F!Files : d[g] # <<>> /\ d[g][1] = d[f][1] => g = f
<1>1. d \in [F!Files -> Seq(1..n)]
  BY DEF DataKept
<1>2. \A g \in F!Files : d[g] # <<>> => 1 \in DOMAIN d[g] /\ d[g][1] \in 1..n
  <2> SUFFICES ASSUME NEW g \in F!Files, d[g] # <<>> PROVE 1 \in DOMAIN d[g] /\ d[g][1] \in 1..n
    OBVIOUS
  <2>1. d[g] \in Seq(1..n)
    BY <1>1
  <2>2. Len(d[g]) \in Nat /\ Len(d[g]) # 0 /\ DOMAIN d[g] = 1..Len(d[g])
    BY <2>1, EmptySeq, LenProperties
  <2> QED
    BY <2>1, <2>2, ElementOfSeq
<1> QED
  BY <1>2 DEF DataKept

\* There is always a file that is not in use.
LEMMA FreeFile ==
  ASSUME FilesInv
  PROVE  \E f \in F!Files \ away : data[f] = <<>> /\ f # filehandler.file
<1> DEFINE G == {f \in F!Files : data[f] # <<>>}
           n == Len(logged)
           h == [f \in G |-> data[f][1]]
<1>1. n \in Nat /\ n <= MaxMessages /\ MaxMessages \in Nat /\ MaxAway \in Nat /\ DataKept(data, n)
  BY LenProperties, LogsAssumption DEF FilesInv
<1>2. IsFiniteSet(F!Files) /\ Cardinality(F!Files) = MaxMessages + MaxAway + 2
  <2> DEFINE z == MaxMessages + MaxAway + 2
  <2>1. z \in Int /\ 1 \in Int /\ ~(1 > z) /\ z - 1 + 1 = z
    BY <1>1
  <2> HIDE DEF z
  <2>2. IsFiniteSet(1..z) /\ Cardinality(1..z) = z
    BY <2>1, FS_Interval
  <2> QED
    BY <2>2 DEF F!Files, z
<1>3. \A f \in G : data[f][1] \in 1..n /\ \A g \in G : data[g][1] = data[f][1] => g = f
  <2> HIDE DEF n
  <2> QED
    BY <1>1, FirstMessages
<1>4. h \in Injection(G, 1..n)
  <2> HIDE DEF G, n
  <2> QED
    BY <1>3 DEF Injection, IsInjective
<1>5. IsFiniteSet(1..n) /\ Cardinality(1..n) = n
  <2> HIDE DEF n
  <2> QED
    BY <1>1, FS_Interval
<1>6. IsFiniteSet(G) /\ Cardinality(G) <= n
  <2> HIDE DEF G, n, h
  <2> QED
    BY <1>4, <1>5, FS_Injection
<1>7. away \subseteq F!Files /\ IsFiniteSet(away) /\ Cardinality(away) \in Nat /\ Cardinality(away) <= MaxAway
  BY <1>2, FS_Subset, FS_CardinalityType DEF FilesInv
<1> DEFINE U == G \cup away
           U1 == U \cup {filehandler.file}
<1>8. IsFiniteSet(U) /\ Cardinality(U) \in Nat /\ Cardinality(U) <= MaxMessages + MaxAway
  <2> HIDE DEF G, n
  <2>1. IsFiniteSet(G \cap away) /\ Cardinality(G \cap away) \in Nat /\ Cardinality(G) \in Nat
    BY <1>6, FS_Intersection, FS_CardinalityType
  <2>2. IsFiniteSet(U) /\ Cardinality(U) = Cardinality(G) + (Cardinality(away) - Cardinality(G \cap away))
    BY <1>6, <1>7, FS_Union
  <2>3. Cardinality(U) \in Nat
    BY <2>2, FS_CardinalityType
  <2> HIDE DEF U
  <2> QED
    BY <1>1, <1>6, <1>7, <2>1, <2>2, <2>3
<1>9. IsFiniteSet(U1) /\ Cardinality(U1) <= MaxMessages + MaxAway + 1
  <2> HIDE DEF U
  <2>1. IsFiniteSet(U1) /\ Cardinality(U1) = (IF filehandler.file \in U THEN Cardinality(U) ELSE Cardinality(U) + 1)
    BY <1>8, FS_AddElement
  <2> QED
    BY <1>1, <1>8, <2>1
<1>10. ~(F!Files \subseteq U1)
  <2> HIDE DEF U1
  <2> QED
    BY <1>1, <1>2, <1>9, FS_Subset, FS_CardinalityType
<1> QED
  BY <1>10

\* One of the numbers of older files is free.
LEMMA FreeNumber ==
  ASSUME FilesInv
  PROVE  {k \in F!Nb \ {0} : names[k] = 0} # {}
<1> DEFINE n == Len(logged)
           Z == 1..(MaxMessages + 1)
           h == [k \in Z |-> data[names[k]][1]]
<1>1. n \in Nat /\ n <= MaxMessages /\ MaxMessages \in Nat /\ DataKept(data, n)
  BY LenProperties, LogsAssumption DEF FilesInv
<1>2. NamesKept(names, data, away)
  BY DEF FilesInv
<1>3. SUFFICES ASSUME \A k \in Z : names[k] # 0 PROVE FALSE
  BY <1>1 DEF F!Nb
<1>4. \A k \in Z : k \in F!Nb \ {0}
  BY <1>1 DEF F!Nb
<1>5. \A k \in Z : names[k] \in F!Files /\ data[names[k]] # <<>>
  <2> HIDE DEF Z
  <2> QED
    BY <1>2, <1>3, <1>4 DEF NamesKept
<1>6. \A k \in Z : data[names[k]][1] \in 1..n
  <2> HIDE DEF Z, n
  <2> QED
    BY <1>1, <1>5, FirstMessages
<1>7. IsFiniteSet(Z) /\ Cardinality(Z) = MaxMessages + 1 /\ IsFiniteSet(1..n) /\ Cardinality(1..n) = n
  <2> DEFINE z == MaxMessages + 1
  <2>1. z \in Int /\ 1 \in Int /\ ~(1 > z) /\ z - 1 + 1 = z /\ n \in Int /\ (1 > n => n = 0) /\ n - 1 + 1 = n
    <3> HIDE DEF n
    <3> QED
      BY <1>1
  <2> HIDE DEF n, z
  <2>2. IsFiniteSet(1..z) /\ Cardinality(1..z) = z /\ IsFiniteSet(1..n) /\ Cardinality(1..n) = n
    BY <2>1, FS_Interval
  <2> QED
    BY <2>2 DEF z
<1>8. h \in [Z -> 1..n] /\ Cardinality(1..n) < Cardinality(Z)
  <2>1. h \in [Z -> 1..n]
    <3> HIDE DEF Z, n
    <3> QED
      BY <1>6
  <2>2. n < MaxMessages + 1
    <3> HIDE DEF n
    <3> QED
      BY <1>1
  <2> HIDE DEF h, n, Z
  <2> QED
    BY <1>7, <2>1, <2>2
<1>9. \E k, l \in Z : k # l /\ h[k] = h[l]
  <2> HIDE DEF h, n, Z
  <2> QED
    BY <1>7, <1>8, FS_PigeonHole
<1>10. PICK k, l \in Z : k # l /\ data[names[k]][1] = data[names[l]][1]
  <2> HIDE DEF Z
  <2> QED
    BY <1>9
<1>11. names[k] = names[l]
  <2> HIDE DEF Z, n
  <2> QED
    BY <1>1, <1>5, <1>10, FirstMessages
<1> QED
  <2> HIDE DEF Z
  <2> QED
    BY <1>2, <1>3, <1>4, <1>10, <1>11 DEF NamesKept

Adds(c, lg, s, n) == c \in [0..n -> Nat] /\ c[0] = 0 /\ \A i \in 1..n : c[i] = c[i - 1] + lg[s[i]]

\* A size is made by a loop over the messages.
LEMMA SizeLoop ==
  ASSUME NEW lg \in Seq(Lengths), NEW s \in Seq(1..Len(lg))
  PROVE  \E c : Adds(c, lg, s, Len(s)) /\ SizeIn(lg, s) = c[Len(s)]
<1> DEFINE n == Len(s)
           h == [p \in (1..n) \X Nat |-> p[2] + lg[s[p[1]]]]
           Is(c) == c = [i \in 0..n |-> IF i = 0 THEN 0 ELSE c[i - 1] + lg[s[i]]]
           size == CHOOSE c : Is(c)
<1>1. n \in Nat /\ \A i \in 1..n : lg[s[i]] \in Nat
  <2>1. n \in Nat
    BY LenProperties
  <2>2. ASSUME NEW i \in 1..n PROVE lg[s[i]] \in Nat
    <3>1. s[i] \in 1..Len(lg)
      BY ElementOfSeq
    <3>2. lg[s[i]] \in Lengths
      BY <3>1, ElementOfSeq
    <3> QED
      BY <3>2, LogsAssumption
  <2> QED
    BY <2>1, <2>2
<1> HIDE DEF n
<1>2. h \in [(1..n) \X Nat -> Nat]
  BY <1>1
<1>3. \E c : Is(c) /\ c \in [0..n -> Nat]
  <2> HIDE DEF h
  <2>1. PICK c : Loop(c, n, 0, h) /\ c \in [0..n -> Nat]
    BY <1>1, <1>2, Iterates
  <2>2. c = [i \in 0..n |-> IF i = 0 THEN 0 ELSE h[<<i, c[i - 1]>>]]
    BY <2>1 DEF Loop
  <2>3. \A i \in 0..n : i # 0 => h[<<i, c[i - 1]>>] = c[i - 1] + lg[s[i]]
    <3> SUFFICES ASSUME NEW i \in 1..n PROVE h[<<i, c[i - 1]>>] = c[i - 1] + lg[s[i]]
      BY <1>1
    <3>1. c[i - 1] \in Nat
      BY <1>1, <2>1
    <3> QED
      BY <3>1 DEF h
  <2>4. Is(c)
    BY <2>2, <2>3
  <2> QED
    BY <2>1, <2>4
<1>4. Is(size)
  BY <1>3
<1>5. SizeIn(lg, s) = size[n]
  BY DEF SizeIn, n
<1> HIDE DEF size
<1>6. size[0] = 0 /\ \A i \in 1..n : size[i] = size[i - 1] + lg[s[i]]
  BY <1>1, <1>4
<1> DEFINE S == {i \in 0..n : size[i] \in Nat}
<1>7. \A i \in 0..n : i \in S
  <2>1. 0 \in S
    BY <1>1, <1>6
  <2>2. ASSUME NEW i \in 1..n, i - 1 \in S PROVE i \in S
    <3>1. size[i - 1] \in Nat /\ lg[s[i]] \in Nat /\ size[i] = size[i - 1] + lg[s[i]] /\ i \in 0..n
      BY <1>1, <1>6, <2>2
    <3> QED
      BY <3>1
  <2> HIDE DEF S
  <2> QED
    BY <1>1, <2>1, <2>2, UpTo
<1>8. size \in [0..n -> Nat]
  <2>1. size = [i \in 0..n |-> IF i = 0 THEN 0 ELSE size[i - 1] + lg[s[i]]]
    BY <1>4
  <2>2. DOMAIN size = 0..n /\ size = [i \in 0..n |-> size[i]]
    BY <2>1
  <2> QED
    BY <1>7, <2>2
<1> QED
  BY <1>5, <1>6, <1>8 DEF n, Adds

\* Two loops that add the same numbers agree.
LEMMA AddsAgree ==
  ASSUME NEW n \in Nat, NEW m \in Nat, n <= m, NEW b, NEW lg, NEW s, Adds(b, lg, s, n),
         NEW c, NEW lh, NEW r, Adds(c, lh, r, m), \A i \in 1..n : lg[s[i]] = lh[r[i]]
  PROVE  b[n] = c[n]
<1> DEFINE S == {i \in 0..n : b[i] = c[i]}
<1>1. 0 \in S
  BY DEF Adds
<1>2. ASSUME NEW i \in 1..n, i - 1 \in S PROVE i \in S
  BY <1>2 DEF Adds
<1> HIDE DEF S
<1>3. n \in S
  BY <1>1, <1>2, UpTo
<1> QED
  BY <1>3 DEF S

\* A size is a number; it stays when messages are logged that are not in the
\* file, and the length of one that is put there is added.
LEMMA SizeGrows ==
  ASSUME NEW lg \in Seq(Lengths), NEW len \in Lengths, NEW s \in Seq(1..Len(lg))
  PROVE  /\ SizeIn(lg, s) \in Nat
         /\ SizeIn(Append(lg, len), s) = SizeIn(lg, s)
         /\ SizeIn(Append(lg, len), Append(s, Len(lg) + 1)) = SizeIn(lg, s) + len
<1> DEFINE n == Len(s)
           l == Len(lg)
           lh == Append(lg, len)
           r == Append(s, l + 1)
<1>1. n \in Nat /\ l \in Nat
  BY LenProperties
<1>2. lh \in Seq(Lengths) /\ Len(lh) = l + 1 /\ (\A i \in 1..l : lh[i] = lg[i]) /\ lh[l + 1] = len
  BY AppendProperties
<1>3. \A i \in 1..n : s[i] \in 1..l
  BY ElementOfSeq
<1> HIDE DEF lh
<1>4. s \in Seq(1..(l + 1))
  <2>1. 1..l \subseteq 1..(l + 1)
    <3> HIDE DEF l
    <3> QED
      BY <1>1
  <2> HIDE DEF l
  <2>2. s \in [1..n -> 1..l]
    BY LenProperties DEF l
  <2> HIDE DEF n
  <2>3. s \in [1..n -> 1..(l + 1)]
    BY <2>1, <2>2
  <2> QED
    BY <1>1, <2>3, SeqDef
<1>5. r \in Seq(1..(l + 1)) /\ Len(r) = n + 1 /\ (\A i \in 1..n : r[i] = s[i]) /\ r[n + 1] = l + 1
  <2>1. l + 1 \in 1..(l + 1)
    <3> HIDE DEF l
    <3> QED
      BY <1>1
  <2> HIDE DEF l
  <2> QED
    BY <1>4, <2>1, AppendProperties
<1>6. PICK b : Adds(b, lg, s, n) /\ SizeIn(lg, s) = b[n]
  BY SizeLoop
<1> HIDE DEF lh, r, l
<1>7. PICK c : Adds(c, lh, s, n) /\ SizeIn(lh, s) = c[n]
  BY <1>2, <1>4, SizeLoop
<1>8. PICK d : Adds(d, lh, r, n + 1) /\ SizeIn(lh, r) = d[n + 1]
  <2>1. lh \in Seq(Lengths) /\ r \in Seq(1..Len(lh)) /\ Len(r) = n + 1
    BY <1>2, <1>5
  <2> QED
    BY <2>1, SizeLoop
<1> HIDE DEF n
<1>9. b[n] = c[n]
  <2>1. \A i \in 1..n : lg[s[i]] = lh[s[i]]
    BY <1>2, <1>3
  <2>2. n <= n
    BY <1>1
  <2> QED
    BY <1>1, <1>6, <1>7, <2>1, <2>2, AddsAgree
<1>10. b[n] = d[n]
  <2>1. \A i \in 1..n : lg[s[i]] = lh[r[i]]
    BY <1>2, <1>3, <1>5
  <2>2. n + 1 \in Nat /\ n <= n + 1
    BY <1>1
  <2> QED
    BY <1>1, <1>6, <1>8, <2>1, <2>2, AddsAgree
<1>11. d[n + 1] = d[n] + len
  <2>1. n + 1 \in 1..(n + 1) /\ (n + 1) - 1 = n
    BY <1>1
  <2>2. d[n + 1] = d[n] + lh[r[n + 1]]
    BY <1>8, <2>1 DEF Adds
  <2> QED
    BY <1>2, <1>5, <2>2
<1>12. b[n] \in Nat
  BY <1>1, <1>6 DEF Adds
<1> QED
  BY <1>6, <1>7, <1>8, <1>9, <1>10, <1>11, <1>12 DEF lh, r, l

\* An empty file has no size.
LEMMA EmptySize ==
  ASSUME NEW lg \in Seq(Lengths)
  PROVE  SizeIn(lg, <<>>) = 0
<1>1. <<>> \in Seq(1..Len(lg)) /\ Len(<<>>) = 0
  BY EmptySeq
<1>2. PICK c : Adds(c, lg, <<>>, Len(<<>>)) /\ SizeIn(lg, <<>>) = c[Len(<<>>)]
  BY <1>1, SizeLoop
<1> QED
  BY <1>1, <1>2 DEF Adds

\* A rotation keeps the files in their order; unless a rename fails none of
\* them is lost, and the name without a number is free.
LEMMA Rotated ==
  ASSUME FilesInv, NEW d, NamesKept(names, d, away), names[0] # 0 => d[names[0]] # <<>>,
         NEW failed, NEW ns, ns = F!_rotate_log_collection_files(names, failed)
  PROVE  /\ NamesKept(ns, d, away) /\ ns[0] \in {0, names[0]}
         /\ failed \notin F!Nb => ns[0] = 0
         /\ failed \notin F!Nb /\ Found(names, d, away) => Found(ns, d, away)
<1> DEFINE Free == {k \in F!Nb \ {0} : names[k] = 0}
           n == Min(Free)
           Moves(k) == k < n /\ k # failed
           From(k) == IF k > 0 /\ Moves(k - 1) THEN k - 1 ELSE k
<1>1. F!Nb \subseteq Nat /\ 0 \in F!Nb /\ \A k \in F!Nb : k > 0 => k - 1 \in F!Nb
  BY LogsAssumption DEF F!Nb
<1>2. n \in F!Nb \ {0} /\ names[n] = 0
  <2>1. Free # {} /\ Free \subseteq Nat
    BY <1>1, FreeNumber
  <2>2. Min(Free) \in Free
    <3> HIDE DEF Free
    <3> QED
      BY <2>1, MinIsLeast
  <2> QED
    BY <2>2
<1>3. ns = [k \in F!Nb |-> IF k > 0 /\ Moves(k - 1) THEN names[k - 1] ELSE IF Moves(k) THEN 0 ELSE names[k]]
  BY DEF F!_rotate_log_collection_files, F!First, Min
<1> HIDE DEF n
<1>4. /\ \A k \in F!Nb : From(k) \in F!Nb /\ ns[k] \in {0, names[From(k)]}
      /\ \A k \in F!Nb : ns[k] # 0 => ns[k] = names[From(k)] /\ (From(k) = k => ~Moves(k))
  BY <1>1, <1>3
<1>5. \A k, l \in F!Nb : k < l /\ ns[k] # 0 /\ ns[l] # 0 => From(k) < From(l)
  <2> SUFFICES ASSUME NEW k \in F!Nb, NEW l \in F!Nb, k < l, ns[k] # 0, ns[l] # 0 PROVE From(k) < From(l)
    OBVIOUS
  <2>1. From(k) = k => ~Moves(k)
    BY <1>4
  <2>2. k \in Nat /\ l \in Nat
    BY <1>1
  <2>3. CASE From(l) = l - 1 /\ From(k) = k /\ k = l - 1
    BY <2>1, <2>2, <2>3
  <2> QED
    BY <2>2, <2>3
<1>6. /\ names \in [F!Nb -> F!Files \cup {0}]
      /\ \A k, l \in F!Nb : names[k] # 0 /\ names[k] = names[l] => k = l
      /\ \A k \in F!Nb : names[k] \notin away
      /\ \A k \in F!Nb \ {0} : names[k] # 0 => d[names[k]] # <<>>
      /\ \A k, l \in F!Nb : k > l /\ names[k] # 0 /\ names[l] # 0 =>
            \A i \in DOMAIN d[names[k]], j \in DOMAIN d[names[l]] : d[names[k]][i] < d[names[l]][j]
  BY DEF NamesKept
<1>7. NamesKept(ns, d, away)
  <2>1. ns \in [F!Nb -> F!Files \cup {0}]
    <3>1. \A k \in F!Nb : ns[k] \in F!Files \cup {0}
      BY <1>4, <1>6
    <3>2. ns = [k \in F!Nb |-> ns[k]]
      BY <1>3
    <3> QED
      BY <3>1, <3>2
  <2> HIDE DEF From, Moves
  <2>2. ASSUME NEW k \in F!Nb, NEW l \in F!Nb, ns[k] # 0, ns[k] = ns[l] PROVE k = l
    <3>1. From(k) \in F!Nb /\ From(l) \in F!Nb /\ names[From(k)] = names[From(l)] /\ names[From(k)] # 0
      BY <1>4, <2>2
    <3>2. From(k) = From(l) /\ From(k) \in Nat
      BY <1>1, <1>6, <3>1
    <3>3. ~(k < l) /\ ~(l < k)
      BY <1>5, <2>2, <3>2
    <3> QED
      BY <1>1, <3>3
  <2>3. \A k \in F!Nb : ns[k] \notin away
    <3>1. 0 \notin away
      BY DEF FilesInv, F!Files
    <3> QED
      BY <1>4, <1>6, <3>1
  <2>4. ASSUME NEW k \in F!Nb \ {0}, ns[k] # 0 PROVE d[ns[k]] # <<>>
    BY <1>4, <1>6, <2>4
  <2>5. ASSUME NEW k \in F!Nb, NEW l \in F!Nb, k > l, ns[k] # 0, ns[l] # 0
        PROVE  \A i \in DOMAIN d[ns[k]], j \in DOMAIN d[ns[l]] : d[ns[k]][i] < d[ns[l]][j]
    <3>1. From(k) \in F!Nb /\ From(l) \in F!Nb /\ ns[k] = names[From(k)] /\ ns[l] = names[From(l)]
      BY <1>4, <2>5
    <3>2. l < k
      BY <1>1, <2>5
    <3>3. From(l) < From(k)
      BY <1>5, <2>5, <3>2
    <3>4. From(k) > From(l)
      BY <1>1, <3>1, <3>3
    <3> QED
      BY <1>6, <2>5, <3>1, <3>4, Zenon
  <2> QED
    BY <2>1, <2>2, <2>3, <2>4, <2>5, Zenon DEF NamesKept
<1>8. ns[0] = (IF Moves(0) THEN 0 ELSE names[0])
  BY <1>1, <1>3
<1>9. ns[0] \in {0, names[0]}
  BY <1>8
<1>10. failed \notin F!Nb => ns[0] = 0
  BY <1>1, <1>2, <1>8
<1>11. ASSUME failed \notin F!Nb, Found(names, d, away) PROVE Found(ns, d, away)
  <2>1. ASSUME NEW j \in F!Nb, names[j] # 0 PROVE \E k \in F!Nb : ns[k] = names[j]
    <3>0. j \in Nat /\ n \in Nat /\ j # n
      BY <1>1, <1>2, <2>1
    <3>1. CASE j < n
      <4>1. j + 1 \in F!Nb /\ j + 1 > 0 /\ (j + 1) - 1 = j
        BY <1>2, <3>0, <3>1, LogsAssumption DEF F!Nb
      <4>2. Moves((j + 1) - 1)
        BY <1>11, <3>1, <4>1
      <4>3. ns[j + 1] = names[j]
        BY <1>3, <4>1, <4>2
      <4> QED
        BY <4>1, <4>3
    <3>2. CASE j > n
      <4>1. ~Moves(j) /\ ~Moves(j - 1)
        BY <3>0, <3>2
      <4> QED
        BY <1>3, <4>1
    <3> QED
      BY <3>0, <3>1, <3>2
  <2>2. 0 \notin F!Files
    BY DEF F!Files
  <2> QED
    BY <1>11, <2>1, <2>2 DEF Found
<1> QED
  BY <1>7, <1>9, <1>10, <1>11

\* The file that is opened for appending is the newest one, or one that is new.
LEMMA FileToOpen ==
  ASSUME FilesInv, NEW ns, NEW d, NamesKept(ns, d, away),
         \A f \in F!Files : f # filehandler.file => d[f] = data[f],
         NEW f, f = F!FileUnder(ns, 0)
  PROVE  /\ f \in F!Files /\ (ns[0] # 0 => f = ns[0])
         /\ ns[0] = 0 => f \notin away /\ d[f] = <<>> /\ \A k \in F!Nb : ns[k] # f
<1>1. 0 \in F!Nb /\ ns[0] \in F!Files \cup {0} /\ 0 \notin F!Files /\ F!Files \subseteq Nat
  BY LogsAssumption DEF NamesKept, F!Nb, F!Files
<1>2. CASE ns[0] # 0
  BY <1>1, <1>2 DEF F!FileUnder
<1>3. CASE ns[0] = 0
  <2> DEFINE Free == {g \in F!Files \ away : data[g] = <<>> /\ filehandler.file # g /\ \A k \in F!Nb : ns[k] # g}
  <2>1. f = Min(Free)
    BY <1>3 DEF F!FileUnder, F!First, Min
  <2>2. PICK g \in F!Files \ away : data[g] = <<>> /\ g # filehandler.file
    BY FreeFile
  <2>3. d[g] = <<>>
    BY <2>2
  <2>4. \A k \in F!Nb : ns[k] # g
    BY <1>1, <1>3, <2>3 DEF NamesKept
  <2>5. Free # {} /\ Free \subseteq Nat
    BY <1>1, <2>2, <2>4
  <2>6. f \in Free
    <3> HIDE DEF Free
    <3> QED
      BY <2>1, <2>5, MinIsLeast
  <2> QED
    BY <1>3, <2>6
<1> QED
  BY <1>2, <1>3

LEMMA Opened ==
  ASSUME NEW ns, NEW d, NEW gone, NamesKept(ns, d, gone), NEW f \in F!Files, ns[0] # 0 => f = ns[0],
         ns[0] = 0 => f \notin gone /\ d[f] = <<>> /\ \A k \in F!Nb : ns[k] # f
  PROVE  LET n1 == [ns EXCEPT ![0] = f]
         IN  /\ NamesKept(n1, d, gone) /\ n1[0] = f /\ (Found(ns, d, gone) => Found(n1, d, gone))
             /\ ns[0] # 0 => n1 = ns
<1> DEFINE n1 == [ns EXCEPT ![0] = f]
<1>1. /\ ns \in [F!Nb -> F!Files \cup {0}]
      /\ \A k, l \in F!Nb : ns[k] # 0 /\ ns[k] = ns[l] => k = l
      /\ \A k \in F!Nb : ns[k] \notin gone
      /\ \A k \in F!Nb \ {0} : ns[k] # 0 => d[ns[k]] # <<>>
      /\ \A k, l \in F!Nb : k > l /\ ns[k] # 0 /\ ns[l] # 0 =>
            \A i \in DOMAIN d[ns[k]], j \in DOMAIN d[ns[l]] : d[ns[k]][i] < d[ns[l]][j]
  BY DEF NamesKept
<1>2. 0 \in F!Nb /\ 0 \notin F!Files /\ F!Nb \subseteq Nat
  BY LogsAssumption DEF F!Nb, F!Files
<1>3. CASE ns[0] # 0
  <2>1. n1 = ns
    BY <1>1, <1>3
  <2> QED
    BY <1>3, <2>1
<1>4. CASE ns[0] = 0
  <2>1. n1 \in [F!Nb -> F!Files \cup {0}] /\ n1[0] = f /\ \A k \in F!Nb \ {0} : n1[k] = ns[k]
    BY <1>1, <1>2
  <2> HIDE DEF n1
  <2>2. f \notin gone /\ d[f] = <<>> /\ (\A k \in F!Nb : ns[k] # f) /\ f # 0
    BY <1>2, <1>4
  <2>3. \A k, l \in F!Nb : n1[k] # 0 /\ n1[k] = n1[l] => k = l
    BY <1>1, <1>2, <2>1, <2>2
  <2>4. (\A k \in F!Nb : n1[k] \notin gone) /\ (\A k \in F!Nb \ {0} : n1[k] # 0 => d[n1[k]] # <<>>)
    BY <1>1, <2>1, <2>2
  <2>5. ASSUME NEW k \in F!Nb, NEW l \in F!Nb, k > l, n1[k] # 0, n1[l] # 0
        PROVE  \A i \in DOMAIN d[n1[k]], j \in DOMAIN d[n1[l]] : d[n1[k]][i] < d[n1[l]][j]
    <3>1. k # 0 /\ n1[k] = ns[k] /\ ns[k] # 0
      BY <1>2, <2>1, <2>5
    <3>2. CASE l = 0
      <4>1. DOMAIN d[n1[l]] = {}
        BY <2>1, <2>2, <3>2
      <4> QED
        BY <4>1
    <3>3. CASE l # 0
      BY <1>1, <2>1, <2>5, <3>1, <3>3, Zenon
    <3> QED
      BY <3>2, <3>3
  <2>6. NamesKept(n1, d, gone)
    BY <2>1, <2>3, <2>4, <2>5, Zenon DEF NamesKept
  <2>7. Found(ns, d, gone) => Found(n1, d, gone)
    BY <1>2, <1>4, <2>1 DEF Found
  <2> QED
    BY <1>4, <2>1, <2>6, <2>7 DEF n1
<1> QED
  BY <1>3, <1>4

\* What an attempt to open the stream gives: the names, whether there is a
\* stream, and what it knows of its file.
Attempted(r, d, sizes) ==
    /\ NamesKept(r.names, d, away) /\ r.fh \in StreamType /\ r.fh.state # "none"
    /\ r.fh.state = "open" => /\ AtNewest(r.fh, r.names, away)
                              /\ r.fh.size = sizes[r.fh.file] /\ sizes[r.fh.file] <= max_size

LEMMA StreamIs ==
  ASSUME NEW f, NEW state, NEW size
  PROVE  LET fh == F!Stream(f, state, size)
         IN  /\ fh.file = f /\ fh.state = state /\ fh.size = size
             /\ f \in F!Files \cup {0} /\ state \in {"open", "null", "closed", "none"} /\ size \in Nat => fh \in StreamType
BY DEF F!Stream, StreamType

\* A new file is empty, so that it can be opened, and a file that is above the
\* limit is one there was.
LEMMA TryOpen ==
  ASSUME FilesInv, NEW ns, NEW d, NamesKept(ns, d, away),
         \A f \in F!Files : f # filehandler.file => d[f] = data[f],
         NEW sizes \in [F!Files -> Nat], \A f \in F!Files : d[f] = <<>> => sizes[f] = 0,
         NEW opens \in BOOLEAN, NEW r, r = F!_try_open_log_collection_file(ns, opens, sizes)
  PROVE  /\ Attempted(r, d, sizes) /\ (Found(ns, d, away) => Found(r.names, d, away))
         /\ ns[0] = 0 => r.fh.state # "closed"
         /\ r.ret # 0 => r.names = ns
         /\ r.ret = 0 => r.fh.state = "open"
<1> DEFINE f == F!FileUnder(ns, 0)
           n1 == [ns EXCEPT ![0] = f]
<1>1. /\ f \in F!Files /\ (ns[0] # 0 => f = ns[0])
      /\ ns[0] = 0 => f \notin away /\ d[f] = <<>> /\ \A k \in F!Nb : ns[k] # f
  <2>1. f = F!FileUnder(ns, 0)
    OBVIOUS
  <2> HIDE DEF f
  <2> QED
    BY <2>1, FileToOpen
<1> HIDE DEF f
<1>2. /\ NamesKept(n1, d, away) /\ n1[0] = f /\ (Found(ns, d, away) => Found(n1, d, away))
      /\ ns[0] # 0 => n1 = ns
  BY <1>1, Opened, Zenon
<1> HIDE DEF n1
<1>3. max_size \in Nat /\ sizes[f] \in Nat /\ (ns[0] = 0 => sizes[f] = 0) /\ ns[0] \in F!Files \cup {0}
  <2>1. 0 \in F!Nb
    BY LogsAssumption DEF F!Nb
  <2> QED
    BY <1>1, <2>1 DEF FilesInv, NamesKept
<1>4. CASE ~opens
  <2>1. r = [names |-> ns, ret |-> -1, fh |-> F!Stream(0, "null", 0)]
    BY <1>4 DEF F!_try_open_log_collection_file
  <2>2. r.names = ns /\ r.ret = -1 /\ r.fh = F!Stream(0, "null", 0)
    BY <2>1
  <2>3. r.fh \in StreamType /\ r.fh.state = "null"
    BY <2>2, StreamIs
  <2> QED
    BY <2>2, <2>3 DEF Attempted
<1>5. CASE opens /\ sizes[f] > max_size
  <2>1. r = [names |-> n1, ret |-> -1, fh |-> F!Stream(f, "closed", 0)]
    BY <1>5 DEF F!_try_open_log_collection_file, f, n1
  <2>2. r.names = n1 /\ r.ret = -1 /\ r.fh = F!Stream(f, "closed", 0)
    BY <2>1
  <2>3. r.fh \in StreamType /\ r.fh.state = "closed"
    BY <1>1, <2>2, StreamIs
  <2>4. ns[0] # 0
    BY <1>3, <1>5
  <2> QED
    BY <1>2, <2>2, <2>3, <2>4 DEF Attempted
<1>6. CASE opens /\ ~(sizes[f] > max_size)
  <2>1. r = [names |-> n1, ret |-> 0, fh |-> F!Stream(f, "open", sizes[f])]
    BY <1>6 DEF F!_try_open_log_collection_file, f, n1
  <2>2. r.names = n1 /\ r.ret = 0 /\ r.fh = F!Stream(f, "open", sizes[f])
    BY <2>1
  <2>3. r.fh \in StreamType /\ r.fh.state = "open" /\ r.fh.file = f /\ r.fh.size = sizes[f]
    BY <1>1, <1>3, <2>2, StreamIs
  <2>4. sizes[f] <= max_size
    BY <1>3, <1>6
  <2>5. AtNewest(r.fh, r.names, away)
    BY <1>1, <1>2, <2>2, <2>3 DEF AtNewest
  <2> QED
    BY <1>2, <2>2, <2>3, <2>4, <2>5 DEF Attempted
<1> QED
  BY <1>4, <1>5, <1>6

\* The two attempts with the rotation between them.
LEMMA OpenCollection ==
  ASSUME FilesInv, NEW d, NamesKept(names, d, away), names[0] # 0 => d[names[0]] # <<>>,
         \A f \in F!Files : f # filehandler.file => d[f] = data[f],
         NEW sizes \in [F!Files -> Nat], \A f \in F!Files : d[f] = <<>> => sizes[f] = 0,
         NEW opens1 \in BOOLEAN, NEW opens2 \in BOOLEAN, NEW failed,
         NEW r, r = F!_open_log_collection_file(names, opens1, opens2, failed, sizes)
  PROVE  /\ Attempted(r, d, sizes)
         /\ failed \notin F!Nb => r.fh.state # "closed" /\ (Found(names, d, away) => Found(r.names, d, away))
<1> DEFINE r1 == F!_try_open_log_collection_file(names, opens1, sizes)
           ns == F!_rotate_log_collection_files(r1.names, failed)
           r2 == F!_try_open_log_collection_file(ns, opens2, sizes)
<1>1. r = (IF r1.ret = 0 THEN r1 ELSE r2)
  BY DEF F!_open_log_collection_file
<1>2. /\ Attempted(r1, d, sizes) /\ (Found(names, d, away) => Found(r1.names, d, away))
      /\ (r1.ret # 0 => r1.names = names) /\ (r1.ret = 0 => r1.fh.state = "open")
  <2> HIDE DEF r1
  <2>1. r1 = F!_try_open_log_collection_file(names, opens1, sizes)
    BY DEF r1
  <2> QED
    BY <2>1, TryOpen
<1>3. CASE r1.ret = 0
  <2> HIDE DEF r1, r2
  <2> QED
    BY <1>1, <1>2, <1>3
<1>4. CASE r1.ret # 0
  <2>1. ns = F!_rotate_log_collection_files(names, failed)
    <3> HIDE DEF r1
    <3> QED
      BY <1>2, <1>4
  <2> HIDE DEF ns, r1
  <2>2. /\ NamesKept(ns, d, away) /\ (failed \notin F!Nb => ns[0] = 0)
        /\ failed \notin F!Nb /\ Found(names, d, away) => Found(ns, d, away)
    BY <2>1, Rotated
  <2>3. /\ Attempted(r2, d, sizes) /\ (Found(ns, d, away) => Found(r2.names, d, away))
        /\ ns[0] = 0 => r2.fh.state # "closed"
    <3> HIDE DEF r2
    <3>1. r2 = F!_try_open_log_collection_file(ns, opens2, sizes)
      BY DEF r2
    <3> QED
      BY <2>2, <3>1, TryOpen
  <2> HIDE DEF r2
  <2> QED
    BY <1>1, <1>4, <2>2, <2>3
<1> QED
  BY <1>3, <1>4

\* A message that is written is the last one, in the newest file or in one that
\* was taken away.
LEMMA MessageWritten ==
  ASSUME NEW n \in Nat, NEW d, DataKept(d, n), NEW f \in F!Files,
         NEW d1, d1 = [d EXCEPT ![f] = Append(@, n + 1)]
  PROVE  /\ DataKept(d1, n + 1) /\ d1[f] = Append(d[f], n + 1) /\ d1[f] # <<>> /\ \A g \in F!Files : g # f => d1[g] = d[g]
         /\ \A ns, gone : NamesKept(ns, d, gone) /\ (f = ns[0] \/ (f \in gone /\ ns[0] = 0)) => NamesKept(ns, d1, gone)
<1>1. /\ d \in [F!Files -> Seq(1..n)]
      /\ \A g \in F!Files : \A i, j \in DOMAIN d[g] : i < j => d[g][i] < d[g][j]
      /\ \A g, h \in F!Files : \A i \in DOMAIN d[g], j \in DOMAIN d[h] : d[g][i] = d[h][j] => g = h
  BY DEF DataKept
<1> DEFINE m == n + 1
<1>2. \A s \in Seq(1..n) : s \in Seq(1..m) /\ DOMAIN s = 1..Len(s) /\ Len(s) \in Nat
  <2> SUFFICES ASSUME NEW s \in Seq(1..n) PROVE s \in Seq(1..m) /\ DOMAIN s = 1..Len(s) /\ Len(s) \in Nat
    OBVIOUS
  <2>1. 1..n \subseteq 1..m
    OBVIOUS
  <2> HIDE DEF m
  <2> QED
    BY <2>1, SeqMonotonic, LenProperties
<1>3. \A g \in F!Files : \A i \in DOMAIN d[g] : d[g][i] \in 1..n
  <2> SUFFICES ASSUME NEW g \in F!Files, NEW i \in DOMAIN d[g] PROVE d[g][i] \in 1..n
    OBVIOUS
  <2>1. d[g] \in Seq(1..n)
    BY <1>1
  <2> QED
    BY <1>2, <2>1, ElementOfSeq
<1> DEFINE s == d[f]
           e == Append(s, m)
<1>4. s \in Seq(1..m) /\ Len(s) \in Nat /\ DOMAIN s = 1..Len(s) /\ m \in 1..m
  <2>1. s \in Seq(1..n)
    BY <1>1
  <2>2. m \in 1..m
    OBVIOUS
  <2> HIDE DEF s, m
  <2> QED
    BY <1>2, <2>1, <2>2
<1>5. /\ e \in Seq(1..m) /\ e # <<>> /\ Len(e) = Len(s) + 1
      /\ (\A i \in 1..Len(s) : e[i] = s[i]) /\ e[Len(s) + 1] = m
  <2> DEFINE S == 1..m
  <2>1. s \in Seq(S) /\ m \in S
    BY <1>4
  <2> HIDE DEF s, m, S
  <2>2. /\ e \in Seq(S) /\ e # <<>> /\ Len(e) = Len(s) + 1
        /\ (\A i \in 1..Len(s) : e[i] = s[i]) /\ e[Len(s) + 1] = m
    BY <2>1, AppendProperties
  <2> QED
    BY <2>2 DEF S
<1>6. DOMAIN e = 1..(Len(s) + 1)
  <2> HIDE DEF s, m, e
  <2> QED
    BY <1>5, LenProperties
<1>7. \A i \in DOMAIN e : (i \in DOMAIN s /\ e[i] = s[i] /\ s[i] \in 1..n) \/ (i = Len(s) + 1 /\ e[i] = m)
  <2>1. \A i \in DOMAIN s : s[i] \in 1..n
    BY <1>3
  <2> HIDE DEF s, m, e
  <2> QED
    BY <1>4, <1>5, <1>6, <2>1
<1>8. d1[f] = e /\ DOMAIN d1 = F!Files /\ d1 = [d EXCEPT ![f] = e] /\ \A g \in F!Files : g # f => d1[g] = d[g]
  BY <1>1
<1>9. d1 \in [F!Files -> Seq(1..m)]
  <2> HIDE DEF m, e
  <2>1. \A g \in F!Files : d[g] \in Seq(1..m)
    BY <1>1, <1>2
  <2>2. \A g \in F!Files : d1[g] \in Seq(1..m)
    BY <1>5, <1>8, <2>1
  <2>3. d1 = [g \in F!Files |-> d1[g]]
    BY <1>1
  <2> QED
    BY <2>2, <2>3
<1>10. m > n /\ m \in Nat /\ m \notin 1..n /\ \A k \in 1..n : k < m
  OBVIOUS
<1>11. \A i, j \in DOMAIN e : i < j => e[i] < e[j]
  <2> SUFFICES ASSUME NEW i \in DOMAIN e, NEW j \in DOMAIN e, i < j PROVE e[i] < e[j]
    OBVIOUS
  <2>1. \A k, l \in DOMAIN s : k < l => s[k] < s[l]
    BY <1>1
  <2> HIDE DEF m, e, s
  <2>2. i \in DOMAIN s /\ e[i] = s[i] /\ s[i] \in 1..n
    <3>1. i # Len(s) + 1
      BY <1>4, <1>6
    <3> QED
      BY <1>7, <3>1
  <2> QED
    BY <1>7, <1>10, <2>1, <2>2
<1>12. \A g \in F!Files : g # f => \A i \in DOMAIN e, j \in DOMAIN d[g] : e[i] # d[g][j]
  <2> SUFFICES ASSUME NEW g \in F!Files, g # f, NEW i \in DOMAIN e, NEW j \in DOMAIN d[g] PROVE e[i] # d[g][j]
    OBVIOUS
  <2>1. d[g][j] \in 1..n
    BY <1>3
  <2>2. \A k \in DOMAIN s : s[k] # d[g][j]
    BY <1>1
  <2> HIDE DEF m, e, s
  <2> QED
    BY <1>7, <1>10, <2>1, <2>2
<1> HIDE DEF e, s
<1>13. DataKept(d1, m)
  <2> HIDE DEF m
  <2>1. \A g \in F!Files : \A i, j \in DOMAIN d1[g] : i < j => d1[g][i] < d1[g][j]
    <3> SUFFICES ASSUME NEW g \in F!Files PROVE \A i, j \in DOMAIN d1[g] : i < j => d1[g][i] < d1[g][j]
      OBVIOUS
    <3>1. CASE g = f
      BY <1>8, <1>11, <3>1
    <3>2. CASE g # f
      <4>1. d1[g] = d[g]
        BY <1>8, <3>2
      <4> QED
        BY <1>1, <4>1
    <3> QED
      BY <3>1, <3>2
  <2>2. ASSUME NEW g \in F!Files, NEW h \in F!Files, NEW i \in DOMAIN d1[g], NEW j \in DOMAIN d1[h], d1[g][i] = d1[h][j]
        PROVE  g = h
    <3>1. CASE g = f
      <4>1. d1[g] = e
        BY <1>8, <3>1
      <4>2. h # f => d1[h] = d[h] /\ j \in DOMAIN d[h]
        BY <1>8, <2>2
      <4> QED
        BY <1>12, <2>2, <3>1, <4>1, <4>2
    <3>2. CASE g # f /\ h = f
      <4>1. d1[h] = e /\ d1[g] = d[g]
        BY <1>8, <3>2
      <4> QED
        BY <1>12, <2>2, <3>2, <4>1
    <3>3. CASE g # f /\ h # f
      <4>1. d1[h] = d[h] /\ d1[g] = d[g]
        BY <1>8, <3>3
      <4> QED
        BY <1>1, <2>2, <4>1
    <3> QED
      BY <3>1, <3>2, <3>3
  <2> QED
    BY <1>9, <2>1, <2>2, Zenon DEF DataKept
<1>14. ASSUME NEW ns, NEW gone, NamesKept(ns, d, gone), f = ns[0] \/ (f \in gone /\ ns[0] = 0) PROVE NamesKept(ns, d1, gone)
  <2>1. /\ ns \in [F!Nb -> F!Files \cup {0}]
        /\ \A k, l \in F!Nb : ns[k] # 0 /\ ns[k] = ns[l] => k = l
        /\ \A k \in F!Nb : ns[k] \notin gone
        /\ \A k \in F!Nb \ {0} : ns[k] # 0 => d[ns[k]] # <<>>
        /\ \A k, l \in F!Nb : k > l /\ ns[k] # 0 /\ ns[l] # 0 =>
              \A i \in DOMAIN d[ns[k]], j \in DOMAIN d[ns[l]] : d[ns[k]][i] < d[ns[l]][j]
    BY <1>14 DEF NamesKept
  <2>2. 0 \in F!Nb /\ F!Nb \subseteq Nat /\ 0 \notin F!Files
    BY LogsAssumption DEF F!Nb, F!Files
  <2>3. ASSUME NEW k \in F!Nb, ns[k] # 0, k # 0 PROVE ns[k] \in F!Files /\ ns[k] # f /\ d1[ns[k]] = d[ns[k]]
    <3>1. ns[k] \in F!Files
      BY <2>1, <2>3
    <3>2. ns[k] # f
      BY <1>14, <2>1, <2>2, <2>3
    <3> QED
      BY <1>8, <3>1, <3>2
  <2>4. \A k \in F!Nb \ {0} : ns[k] # 0 => d1[ns[k]] # <<>>
    BY <2>1, <2>3
  <2>5. ASSUME NEW k \in F!Nb, NEW l \in F!Nb, k > l, ns[k] # 0, ns[l] # 0,
               NEW i \in DOMAIN d1[ns[k]], NEW j \in DOMAIN d1[ns[l]]
        PROVE  d1[ns[k]][i] < d1[ns[l]][j]
    <3>1. k # 0
      BY <2>2, <2>5
    <3>2. ns[k] \in F!Files /\ d1[ns[k]] = d[ns[k]] /\ i \in DOMAIN d[ns[k]]
      BY <2>3, <2>5, <3>1
    <3>3. ns[l] \in F!Files
      BY <2>1, <2>5
    <3>4. CASE ns[l] # f
      <4>1. d1[ns[l]] = d[ns[l]]
        BY <1>8, <3>3, <3>4
      <4> QED
        BY <2>1, <2>5, <3>2, <4>1, Zenon
    <3>5. CASE ns[l] = f
      <4>1. d[ns[k]][i] \in 1..n
        BY <1>3, <3>2
      <4>2. j \in DOMAIN e /\ d1[ns[l]][j] = e[j]
        BY <1>8, <2>5, <3>5
      <4>3. CASE e[j] = m
        BY <1>10, <3>2, <4>1, <4>2, <4>3
      <4>4. CASE j \in DOMAIN s /\ e[j] = s[j]
        <5>1. d[ns[k]][i] < d[ns[l]][j]
          BY <2>1, <2>5, <3>2, <3>5, <4>4, Zenon DEF s
        <5> QED
          BY <3>2, <3>5, <4>2, <4>4, <5>1 DEF s
      <4> QED
        BY <1>7, <4>2, <4>3, <4>4
    <3> QED
      BY <3>4, <3>5
  <2> QED
    BY <2>1, <2>4, <2>5, Zenon DEF NamesKept
<1> QED
  BY <1>5, <1>8, <1>13, <1>14 DEF m, e, s

LEMMA GreatestLength == Max(Lengths) \in Nat /\ \A len \in Lengths : len \in Nat /\ len <= Max(Lengths)
<1>1. PICK n \in Lengths : \A len \in Lengths : len <= n
  BY LogsAssumption
<1>2. \A len \in Lengths : len \in Nat
  BY LogsAssumption
<1>3. \A len \in Lengths : n >= len
  BY <1>1, <1>2
<1>4. Max(Lengths) \in Lengths /\ \A len \in Lengths : Max(Lengths) >= len
  BY <1>3 DEF Max
<1> QED
  BY <1>2, <1>4

\* The names, the files and their sizes when a message was written.
IsWritten(d, lg, len, sizes) ==
    /\ filehandler.file \in F!Files /\ DataKept(d, Len(logged) + 1) /\ NamesKept(names, d, away)
    /\ Found(names, data, away) => Found(names, d, away)
    /\ names[0] # 0 => d[names[0]] # <<>>
    /\ \A g \in F!Files : g # filehandler.file => d[g] = data[g]
    /\ sizes \in [F!Files -> Nat] /\ \A g \in F!Files : sizes[g] = SizeIn(lg, d[g])
    /\ \A g \in F!Files : d[g] = <<>> => sizes[g] = 0
    /\ max_size > 0 => /\ \A g \in F!Files : sizes[g] <= max_size + Max(Lengths)
                       /\ sizes[filehandler.file] = filehandler.size + len

LEMMA Written ==
  ASSUME FilesInv, NEW len \in Lengths, filehandler.state = "open",
         NEW d, d = [data EXCEPT ![filehandler.file] = Append(@, Len(logged) + 1)],
         NEW lg, lg = Append(logged, len),
         NEW sizes, sizes = [g \in F!Files |-> F!SizeOf(data[g]) + IF g = filehandler.file THEN len ELSE 0]
  PROVE  IsWritten(d, lg, len, sizes)
<1> DEFINE n == Len(logged)
           f == filehandler.file
<1>1. logged \in Seq(Lengths) /\ n \in Nat /\ DataKept(data, n) /\ NamesKept(names, data, away)
  BY LenProperties DEF FilesInv
<1>2. f \in F!Files /\ (f = names[0] \/ (f \in away /\ names[0] = 0))
  BY DEF FilesInv, StreamKept, AtNewest
<1>3. d = [data EXCEPT ![f] = Append(@, n + 1)]
  OBVIOUS
<1> HIDE DEF f, n
<1>4. /\ DataKept(d, n + 1) /\ d[f] = Append(data[f], n + 1) /\ d[f] # <<>> /\ \A g \in F!Files : g # f => d[g] = data[g]
      /\ NamesKept(names, d, away)
  <2>1. /\ DataKept(d, n + 1) /\ d[f] = Append(data[f], n + 1) /\ d[f] # <<>> /\ \A g \in F!Files : g # f => d[g] = data[g]
        /\ \A ns, gone : NamesKept(ns, data, gone) /\ (f = ns[0] \/ (f \in gone /\ ns[0] = 0)) => NamesKept(ns, d, gone)
    BY <1>1, <1>2, <1>3, MessageWritten
  <2> QED
    BY <1>1, <1>2, <2>1, Zenon
<1>5. names[0] # 0 => d[names[0]] # <<>>
  BY <1>2, <1>4
<1>6. Found(names, data, away) => Found(names, d, away)
  <2>1. 0 \in F!Nb
    BY LogsAssumption DEF F!Nb
  <2> QED
    BY <1>2, <1>4, <2>1 DEF Found
<1>7. \A g \in F!Files : data[g] \in Seq(1..n) /\ F!SizeOf(data[g]) = SizeIn(logged, data[g])
  BY <1>1 DEF DataKept, F!SizeOf, SizeIn
<1>8. \A g \in F!Files : /\ SizeIn(logged, data[g]) \in Nat /\ SizeIn(lg, data[g]) = SizeIn(logged, data[g])
                         /\ SizeIn(lg, Append(data[g], n + 1)) = SizeIn(logged, data[g]) + len
  BY <1>1, <1>7, SizeGrows DEF n
<1>9. /\ \A g \in F!Files : g # f => sizes[g] = SizeIn(logged, data[g]) + 0
      /\ sizes[f] = SizeIn(logged, data[f]) + len
  BY <1>2, <1>7 DEF f
<1>10. len \in Nat /\ len <= Max(Lengths) /\ Max(Lengths) \in Nat /\ max_size \in Nat
  BY GreatestLength DEF FilesInv
<1>11. \A g \in F!Files : sizes[g] \in Nat /\ sizes[g] = SizeIn(lg, d[g])
  <2> SUFFICES ASSUME NEW g \in F!Files PROVE sizes[g] \in Nat /\ sizes[g] = SizeIn(lg, d[g])
    OBVIOUS
  <2>1. CASE g = f
    BY <1>4, <1>8, <1>9, <1>10, <2>1
  <2>2. CASE g # f
    BY <1>4, <1>8, <1>9, <2>2
  <2> QED
    BY <2>1, <2>2
<1>12. sizes \in [F!Files -> Nat]
  BY <1>11
<1>13. \A g \in F!Files : d[g] = <<>> => sizes[g] = 0
  <2>1. lg \in Seq(Lengths)
    BY <1>1, AppendProperties
  <2>2. SizeIn(lg, <<>>) = 0
    BY <2>1, EmptySize
  <2> QED
    BY <1>11, <2>2
<1>14. ASSUME max_size > 0 PROVE (\A g \in F!Files : sizes[g] <= max_size + Max(Lengths)) /\ sizes[f] = filehandler.size + len
  <2>1. SizeIn(logged, data[f]) = filehandler.size /\ filehandler.size <= max_size /\ filehandler.size \in Nat
    BY <1>14 DEF FilesInv, StreamKept, f, StreamType
  <2>2. \A g \in F!Files : SizeIn(logged, data[g]) <= max_size + Max(Lengths)
    BY <1>14 DEF FilesInv, SizesKept
  <2>3. \A g \in F!Files : g # f => sizes[g] <= max_size + Max(Lengths)
    BY <1>8, <1>9, <2>2
  <2>4. sizes[f] <= max_size + Max(Lengths)
    BY <1>9, <1>10, <2>1
  <2> QED
    BY <1>9, <2>1, <2>3, <2>4
<1> QED
  BY <1>2, <1>4, <1>5, <1>6, <1>11, <1>12, <1>13, <1>14 DEF f, n, IsWritten

\* A message that is not written changes no file.
LEMMA NotWritten ==
  ASSUME FilesInv, NEW len \in Lengths, NEW lg, lg = Append(logged, len)
  PROVE  /\ lg \in Seq(Lengths) /\ Len(lg) = Len(logged) + 1 /\ DataKept(data, Len(logged) + 1)
         /\ \A g \in F!Files : SizeIn(lg, data[g]) = SizeIn(logged, data[g])
<1> DEFINE n == Len(logged)
<1>1. logged \in Seq(Lengths) /\ n \in Nat /\ DataKept(data, n)
  BY LenProperties DEF FilesInv
<1>2. lg \in Seq(Lengths) /\ Len(lg) = n + 1
  BY <1>1, AppendProperties
<1>3. \A g \in F!Files : data[g] \in Seq(1..n) /\ data[g] \in Seq(1..(n + 1))
  <2> SUFFICES ASSUME NEW g \in F!Files PROVE data[g] \in Seq(1..n) /\ data[g] \in Seq(1..(n + 1))
    OBVIOUS
  <2>1. data[g] \in Seq(1..n)
    BY <1>1 DEF DataKept
  <2> HIDE DEF n
  <2>2. 1..n \subseteq 1..(n + 1)
    BY <1>1
  <2> QED
    BY <2>1, <2>2, SeqMonotonic
<1>4. \A g \in F!Files : SizeIn(lg, data[g]) = SizeIn(logged, data[g])
  BY <1>1, <1>3, SizeGrows
<1>5. DataKept(data, n + 1)
  <2> HIDE DEF n
  <2>1. data \in [F!Files -> Seq(1..(n + 1))]
    BY <1>1, <1>3 DEF DataKept
  <2> QED
    BY <1>1, <2>1 DEF DataKept
<1> QED
  BY <1>2, <1>4, <1>5

LEMMA FilesInit == F!Init => FilesInv
<1> SUFFICES ASSUME F!Init PROVE FilesInv
  OBVIOUS
<1>1. /\ MaxMessages \in Nat /\ MaxAway \in Nat /\ MaxSizes \subseteq Nat
      /\ 0 \in F!Nb /\ 1 \in F!Files /\ 0 \notin F!Files /\ F!Nb \subseteq Nat
  BY LogsAssumption DEF F!Nb, F!Files
<1>2. /\ max_size \in Nat /\ renameFailed \in BOOLEAN /\ renameFailed = FALSE
      /\ names = [n \in F!Nb |-> IF n = 0 THEN 1 ELSE 0] /\ data = [f \in F!Files |-> <<>>]
      /\ filehandler = [file |-> 1, state |-> "open", size |-> 0, reopen_requested |-> FALSE]
      /\ logged = <<>> /\ away = {}
  BY <1>1 DEF F!Init
<1>3. logged \in Seq(Lengths) /\ Len(logged) = 0 /\ \A f \in F!Files : data[f] = <<>> /\ data[f] \in Seq(1..0) /\ DOMAIN data[f] = {}
  BY <1>2, EmptySeq
<1>4. away \subseteq F!Files /\ Cardinality(away) <= MaxAway
  BY <1>1, <1>2, FS_EmptySet
<1>5. filehandler \in StreamType /\ filehandler.file = 1 /\ filehandler.state = "open" /\ filehandler.size = 0
  BY <1>1, <1>2 DEF StreamType
<1>6. DataKept(data, 0)
  BY <1>2, <1>3 DEF DataKept
<1>7. names \in [F!Nb -> F!Files \cup {0}] /\ names[0] = 1 /\ \A n \in F!Nb : n # 0 => names[n] = 0
  BY <1>1, <1>2
<1>8. NamesKept(names, data, away)
  <2>1. \A n, k \in F!Nb : n > k /\ names[n] # 0 /\ names[k] # 0 => FALSE
    BY <1>1, <1>7
  <2> QED
    BY <1>2, <1>7, <2>1 DEF NamesKept
<1>9. \A f \in F!Files : SizeIn(logged, data[f]) = 0
  BY <1>3, EmptySize
<1>10. StreamKept
  BY <1>1, <1>2, <1>5, <1>7, <1>9 DEF StreamKept, AtNewest
<1>11. SizesKept
  <2>1. Max(Lengths) \in Nat
    BY GreatestLength
  <2> QED
    BY <1>2, <1>9, <2>1 DEF SizesKept
<1>12. Found(names, data, away)
  BY <1>3 DEF Found
<1> QED
  BY <1>1, <1>2, <1>3, <1>4, <1>5, <1>6, <1>8, <1>10, <1>11, <1>12 DEF FilesInv

LEMMA LogvStep ==
  ASSUME FilesInv, NEW len \in Lengths, F!bctbx_logv_file(len)
  PROVE  FilesInv'
<1> DEFINE f == filehandler.file
           m == Len(logged) + 1
           sizes == [g \in F!Files |-> F!SizeOf(data[g]) + IF g = f THEN len ELSE 0]
           size == IF max_size > 0 THEN filehandler.size + len ELSE filehandler.size
           reopen == filehandler.reopen_requested \/ (max_size > 0 /\ size > max_size)
           d == [data EXCEPT ![f] = Append(@, m)]
<1>1. /\ m <= MaxMessages /\ logged' = Append(logged, len) /\ UNCHANGED <<max_size, away>>
      /\ \/ filehandler.state # "open" /\ UNCHANGED <<names, data, filehandler, renameFailed>>
         \/ /\ filehandler.state = "open" /\ ~reopen /\ data' = d
            /\ filehandler' = [filehandler EXCEPT !.size = size] /\ UNCHANGED <<names, renameFailed>>
         \/ /\ filehandler.state = "open" /\ reopen /\ data' = d
            /\ \E opens1, opens2 \in BOOLEAN, failed \in {0, 1, MaxMessages + 2} :
                  LET r == F!_open_log_collection_file(names, opens1, opens2, failed, sizes)
                  IN  filehandler' = r.fh /\ names' = r.names /\ renameFailed' = (renameFailed \/ failed \in F!Nb)
  BY DEF F!bctbx_logv_file
<1>2. /\ logged' \in Seq(Lengths) /\ Len(logged') = m /\ Len(logged') <= MaxMessages
      /\ DataKept(data, m) /\ \A g \in F!Files : SizeIn(logged', data[g]) = SizeIn(logged, data[g])
  BY <1>1, NotWritten
<1>3. /\ max_size \in Nat /\ renameFailed \in BOOLEAN /\ away \subseteq F!Files /\ Cardinality(away) <= MaxAway
      /\ filehandler \in StreamType /\ NamesKept(names, data, away) /\ StreamKept /\ SizesKept
      /\ ~renameFailed => filehandler.state # "closed" /\ Found(names, data, away)
  BY DEF FilesInv
<1>4. max_size' \in Nat /\ away' \subseteq F!Files /\ Cardinality(away') <= MaxAway /\ max_size' = max_size /\ away' = away
  BY <1>1, <1>3
<1>5. CASE filehandler.state # "open" /\ UNCHANGED <<names, data, filehandler, renameFailed>>
  <2> HIDE DEF m
  <2>1. SizesKept'
    BY <1>1, <1>2, <1>3, <1>5 DEF SizesKept
  <2>2. StreamKept'
    <3>1. names[0] # 0 => names[0] \in F!Files
      BY <1>3, LogsAssumption DEF NamesKept, F!Nb
    <3> QED
      BY <1>1, <1>2, <1>3, <1>5, <3>1 DEF StreamKept, AtNewest
  <2>3. NamesKept(names, data, away)' /\ DataKept(data, Len(logged))' /\ Found(names, data, away)' = Found(names, data, away)
    BY <1>1, <1>2, <1>3, <1>5
  <2> QED
    BY <1>2, <1>3, <1>4, <1>5, <2>1, <2>2, <2>3 DEF FilesInv
<1>6. ASSUME filehandler.state = "open", data' = d
      PROVE  /\ f \in F!Files /\ DataKept(data', m) /\ NamesKept(names, data', away)
             /\ Found(names, data, away) => Found(names, data', away)
             /\ names[0] # 0 => data'[names[0]] # <<>>
             /\ \A g \in F!Files : g # f => data'[g] = data[g]
             /\ sizes \in [F!Files -> Nat] /\ \A g \in F!Files : sizes[g] = SizeIn(logged', data'[g])
             /\ \A g \in F!Files : data'[g] = <<>> => sizes[g] = 0
             /\ max_size > 0 => /\ \A g \in F!Files : sizes[g] <= max_size + Max(Lengths)
                                /\ sizes[f] = filehandler.size + len
  <2>1. sizes = [g \in F!Files |-> F!SizeOf(data[g]) + IF g = filehandler.file THEN len ELSE 0]
    OBVIOUS
  <2>2. data' = [data EXCEPT ![filehandler.file] = Append(@, Len(logged) + 1)] /\ logged' = Append(logged, len)
    BY <1>1, <1>6
  <2> HIDE DEF sizes
  <2>3. IsWritten(data', logged', len, sizes)
    BY <1>6, <2>1, <2>2, Written
  <2> QED
    BY <2>3 DEF IsWritten
<1>7. ASSUME filehandler.state = "open", data' = d PROVE SizesKept' /\ DataKept(data, Len(logged))'
  <2> HIDE DEF sizes, d, f, m
  <2> QED
    BY <1>2, <1>4, <1>6, <1>7 DEF SizesKept
<1>8. CASE /\ filehandler.state = "open" /\ ~reopen /\ data' = d
           /\ filehandler' = [filehandler EXCEPT !.size = size] /\ UNCHANGED <<names, renameFailed>>
  <2>1. size \in Nat /\ len \in Nat
    BY <1>3, GreatestLength DEF StreamType
  <2>2. max_size > 0 => size = filehandler.size + len /\ size <= max_size
    <3> HIDE DEF f, m, d, sizes
    <3> QED
      BY <1>3, <1>8, <2>1
  <2> HIDE DEF size, sizes, d, m, reopen
  <2>3. filehandler' \in StreamType /\ filehandler'.file = f /\ filehandler'.state = "open" /\ filehandler'.size = size
    BY <1>3, <1>8, <2>1 DEF StreamType
  <2>4. AtNewest(filehandler, names, away)'
    BY <1>3, <1>4, <1>8, <2>3 DEF AtNewest, StreamKept
  <2>5. StreamKept'
    <3>1. filehandler'.state # "none"
      BY <2>3
    <3> QED
      BY <1>4, <1>6, <1>8, <2>2, <2>3, <2>4, <3>1 DEF StreamKept
  <2>6. NamesKept(names, data, away)' /\ (Found(names, data, away) => Found(names, data, away)')
    BY <1>1, <1>6, <1>8
  <2> QED
    BY <1>2, <1>3, <1>4, <1>7, <1>8, <2>3, <2>5, <2>6 DEF FilesInv
<1>9. ASSUME filehandler.state = "open", data' = d,
             NEW opens1 \in BOOLEAN, NEW opens2 \in BOOLEAN, NEW failed,
             NEW r, r = F!_open_log_collection_file(names, opens1, opens2, failed, sizes),
             filehandler' = r.fh, names' = r.names, renameFailed' = (renameFailed \/ failed \in F!Nb)
      PROVE  FilesInv'
  <2> HIDE DEF sizes, d, m, reopen, size
  <2>1. /\ Attempted(r, data', sizes)
        /\ failed \notin F!Nb => r.fh.state # "closed" /\ (Found(names, data', away) => Found(r.names, data', away))
    BY <1>6, <1>9, OpenCollection
  <2>2. filehandler' \in StreamType /\ NamesKept(names, data, away)'
    BY <1>4, <1>9, <2>1 DEF Attempted
  <2>3. filehandler'.state = "open" => AtNewest(filehandler, names, away)' /\ filehandler'.size = SizeIn(logged', data'[filehandler'.file])
                                      /\ filehandler'.size <= max_size'
    <3>1. r.fh.state = "open" => AtNewest(r.fh, r.names, away) /\ r.fh.size = sizes[r.fh.file] /\ r.fh.size <= max_size /\ r.fh.file \in F!Files
      BY <2>1 DEF Attempted, AtNewest
    <3> QED
      BY <1>4, <1>6, <1>9, <3>1
  <2>4. StreamKept'
    <3>1. filehandler'.state # "none"
      BY <1>9, <2>1 DEF Attempted
    <3> QED
      BY <2>3, <3>1 DEF StreamKept
  <2>5. ~renameFailed' => filehandler'.state # "closed" /\ Found(names, data, away)'
    BY <1>3, <1>4, <1>6, <1>9, <2>1
  <2>6. renameFailed' \in BOOLEAN
    BY <1>9
  <2> QED
    BY <1>2, <1>4, <1>7, <1>9, <2>2, <2>4, <2>5, <2>6 DEF FilesInv
<1> QED
  <2> HIDE DEF sizes, d, m, reopen, size
  <2> QED
    BY <1>1, <1>5, <1>8, <1>9

LEMMA ReopenRequested ==
  ASSUME FilesInv, F!bctbx_file_log_handler_reopen
  PROVE  FilesInv'
<1>1. filehandler' = [filehandler EXCEPT !.reopen_requested = TRUE] /\ UNCHANGED <<max_size, names, data, logged, away, renameFailed>>
  BY DEF F!bctbx_file_log_handler_reopen
<1>2. /\ filehandler' \in StreamType /\ filehandler'.file = filehandler.file
      /\ filehandler'.state = filehandler.state /\ filehandler'.size = filehandler.size
  BY <1>1 DEF FilesInv, StreamType
<1>3. StreamKept'
  BY <1>1, <1>2 DEF FilesInv, StreamKept, AtNewest
<1>4. SizesKept'
  BY <1>1 DEF FilesInv, SizesKept
<1> QED
  BY <1>1, <1>2, <1>3, <1>4 DEF FilesInv

LEMMA HandlerCreated ==
  ASSUME FilesInv, F!bctbx_create_file_log_handler
  PROVE  FilesInv'
<1> DEFINE f == F!FileUnder(names, 0)
           n1 == [names EXCEPT ![0] = f]
<1>1. /\ filehandler.state \in {"open", "none"}
      /\ \/ filehandler' = F!Stream(f, "open", F!SizeOf(data[f])) /\ names' = n1
         \/ filehandler' = F!Stream(0, "none", 0) /\ names' \in {names, n1}
      /\ UNCHANGED <<max_size, data, logged, away, renameFailed>>
  BY DEF F!bctbx_create_file_log_handler
<1>2. DataKept(data, Len(logged)) /\ NamesKept(names, data, away) /\ logged \in Seq(Lengths) /\ StreamKept
  BY DEF FilesInv
<1>3. /\ f \in F!Files /\ (names[0] # 0 => f = names[0])
      /\ names[0] = 0 => f \notin away /\ data[f] = <<>> /\ \A k \in F!Nb : names[k] # f
  <2>1. f = F!FileUnder(names, 0)
    OBVIOUS
  <2> HIDE DEF f
  <2> QED
    BY <1>2, <2>1, FileToOpen
<1> HIDE DEF f
<1>4. NamesKept(n1, data, away) /\ n1[0] = f /\ (Found(names, data, away) => Found(n1, data, away))
  BY <1>2, <1>3, Opened, Zenon
<1> HIDE DEF n1
<1>5. F!SizeOf(data[f]) = SizeIn(logged, data[f]) /\ SizeIn(logged, data[f]) \in Nat
  <2>1. \A g \in F!Files : data[g] \in Seq(1..Len(logged))
    BY <1>2 DEF DataKept
  <2>2. PICK len : len \in Lengths
    BY LogsAssumption
  <2>3. SizeIn(logged, data[f]) \in Nat
    BY <1>2, <1>3, <2>1, <2>2, SizeGrows
  <2> QED
    BY <2>3 DEF F!SizeOf, SizeIn
<1>6. ASSUME max_size > 0 PROVE SizeIn(logged, data[f]) <= max_size
  <2>1. CASE names[0] = 0
    <3>1. SizeIn(logged, data[f]) = 0
      BY <1>2, <1>3, <2>1, EmptySize
    <3> QED
      BY <1>6, <3>1 DEF FilesInv
  <2>2. CASE names[0] # 0
    <3>1. CASE filehandler.state = "open"
      <4>1. f = filehandler.file
        BY <1>2, <1>3, <2>2, <3>1 DEF StreamKept, AtNewest
      <4> QED
        BY <1>2, <1>6, <3>1, <4>1 DEF StreamKept
    <3>2. CASE filehandler.state = "none"
      BY <1>2, <1>3, <1>6, <2>2, <3>2 DEF StreamKept
    <3> QED
      BY <1>1, <3>1, <3>2
  <2> QED
    BY <2>1, <2>2
<1>7. filehandler' \in StreamType /\ StreamKept'
  <2>1. CASE filehandler' = F!Stream(f, "open", F!SizeOf(data[f])) /\ names' = n1
    <3>1. /\ filehandler' \in StreamType /\ filehandler'.file = f /\ filehandler'.state = "open"
          /\ filehandler'.size = SizeIn(logged, data[f])
      BY <1>3, <1>5, <2>1, StreamIs
    <3>2. AtNewest(filehandler, names, away)'
      BY <1>3, <1>4, <2>1, <3>1 DEF AtNewest
    <3>3. filehandler'.state # "none"
      BY <3>1
    <3> QED
      BY <1>1, <1>6, <3>1, <3>2, <3>3 DEF StreamKept
  <2>2. CASE filehandler' = F!Stream(0, "none", 0) /\ names' \in {names, n1}
    <3>1. filehandler' \in StreamType /\ filehandler'.state = "none"
      BY <2>2, StreamIs
    <3>2. names'[0] # 0 => names'[0] = f
      BY <1>3, <1>4, <2>2
    <3>3. filehandler'.state # "open"
      BY <3>1
    <3> QED
      BY <1>1, <1>6, <3>1, <3>2, <3>3 DEF StreamKept
  <2> QED
    BY <1>1, <2>1, <2>2
<1>8. SizesKept'
  BY <1>1 DEF FilesInv, SizesKept
<1>9. NamesKept(names, data, away)' /\ (Found(names, data, away) => Found(names, data, away)')
  <2>1. names' = names \/ names' = n1
    BY <1>1
  <2>2. NamesKept(names', data, away) /\ (Found(names, data, away) => Found(names', data, away))
    BY <1>2, <1>4, <2>1
  <2> QED
    BY <1>1, <2>2
<1>10. filehandler'.state # "closed"
  BY <1>1, StreamIs
<1> QED
  BY <1>1, <1>7, <1>8, <1>9, <1>10 DEF FilesInv

LEMMA MovedAway ==
  ASSUME FilesInv, F!MoveAway
  PROVE  FilesInv'
<1>1. PICK n \in F!Nb : names[n] # 0 /\ names' = [names EXCEPT ![n] = 0] /\ away' = away \cup {names[n]}
  BY DEF F!MoveAway
<1>2. Cardinality(away) < MaxAway /\ UNCHANGED <<max_size, data, filehandler, logged, renameFailed>>
  BY DEF F!MoveAway, F!Cardinality, Cardinality
<1>3. /\ names \in [F!Nb -> F!Files \cup {0}]
      /\ \A k, l \in F!Nb : names[k] # 0 /\ names[k] = names[l] => k = l
      /\ \A k \in F!Nb : names[k] \notin away
      /\ \A k \in F!Nb \ {0} : names[k] # 0 => data[names[k]] # <<>>
      /\ \A k, l \in F!Nb : k > l /\ names[k] # 0 /\ names[l] # 0 =>
            \A i \in DOMAIN data[names[k]], j \in DOMAIN data[names[l]] : data[names[k]][i] < data[names[l]][j]
  BY DEF FilesInv, NamesKept
<1>4. names' \in [F!Nb -> F!Files \cup {0}] /\ names'[n] = 0 /\ \A k \in F!Nb : k # n => names'[k] = names[k]
  BY <1>1, <1>3
<1>5. names[n] \in F!Files /\ 0 \notin F!Files /\ 0 \in F!Nb
  BY <1>1, <1>3, LogsAssumption DEF F!Files, F!Nb
<1>6. away' \subseteq F!Files /\ Cardinality(away') <= MaxAway
  <2>1. away \subseteq F!Files
    BY DEF FilesInv
  <2>2. IsFiniteSet(F!Files)
    <3> DEFINE z == MaxMessages + MaxAway + 2
    <3>1. z \in Int /\ 1 \in Int
      BY LogsAssumption
    <3> HIDE DEF z
    <3>2. IsFiniteSet(1..z)
      BY <3>1, FS_Interval
    <3> QED
      BY <3>2 DEF F!Files, z
  <2>3. IsFiniteSet(away) /\ Cardinality(away) \in Nat
    BY <2>1, <2>2, FS_Subset, FS_CardinalityType
  <2>4. Cardinality(away \cup {names[n]}) <= Cardinality(away) + 1
    <3>1. Cardinality(away \cup {names[n]}) = (IF names[n] \in away THEN Cardinality(away) ELSE Cardinality(away) + 1)
      BY <2>3, FS_AddElement
    <3> QED
      BY <2>3, <3>1
  <2>5. Cardinality(away \cup {names[n]}) \in Nat
    BY <2>3, FS_AddElement, FS_CardinalityType
  <2> QED
    BY <1>1, <1>2, <1>5, <2>1, <2>3, <2>4, <2>5, LogsAssumption
<1>7. NamesKept(names', data, away')
  <2>1. \A k, l \in F!Nb : names'[k] # 0 /\ names'[k] = names'[l] => k = l
    BY <1>3, <1>4
  <2>2. \A k \in F!Nb : names'[k] \notin away'
    <3>1. 0 \notin away'
      BY <1>5, <1>6
    <3> QED
      BY <1>1, <1>3, <1>4, <3>1
  <2>3. \A k \in F!Nb \ {0} : names'[k] # 0 => data[names'[k]] # <<>>
    BY <1>3, <1>4
  <2>4. \A k, l \in F!Nb : k > l /\ names'[k] # 0 /\ names'[l] # 0 =>
           \A i \in DOMAIN data[names'[k]], j \in DOMAIN data[names'[l]] : data[names'[k]][i] < data[names'[l]][j]
    BY <1>3, <1>4
  <2> QED
    BY <1>4, <2>1, <2>2, <2>3, <2>4 DEF NamesKept
<1>8. StreamKept'
  <2>1. filehandler.state = "open" => AtNewest(filehandler, names', away')
    BY <1>1, <1>4, <1>5 DEF FilesInv, StreamKept, AtNewest
  <2>2. names'[0] # 0 => names'[0] = names[0]
    BY <1>4, <1>5
  <2> QED
    BY <1>2, <2>1, <2>2 DEF FilesInv, StreamKept, AtNewest
<1>9. Found(names, data, away) => Found(names', data, away')
  BY <1>1, <1>4 DEF Found
<1>10. SizesKept'
  BY <1>2 DEF FilesInv, SizesKept
<1>11. NamesKept(names, data, away)' /\ (Found(names, data, away) => Found(names, data, away)')
  BY <1>2, <1>7, <1>9
<1> QED
  BY <1>2, <1>6, <1>8, <1>10, <1>11 DEF FilesInv

LEMMA FilesStep == FilesInv /\ [F!Next]_fileVars => FilesInv'
<1> SUFFICES ASSUME FilesInv, [F!Next]_fileVars PROVE FilesInv'
  OBVIOUS
<1>1. CASE UNCHANGED fileVars
  BY <1>1 DEF fileVars, FilesInv, StreamKept, SizesKept, AtNewest
<1>2. CASE \E len \in Lengths : F!bctbx_logv_file(len)
  BY <1>2, LogvStep
<1>3. CASE F!bctbx_file_log_handler_reopen
  BY <1>3, ReopenRequested
<1>4. CASE F!bctbx_create_file_log_handler
  BY <1>4, HandlerCreated
<1>5. CASE F!MoveAway
  BY <1>5, MovedAway
<1> QED
  BY <1>1, <1>2, <1>3, <1>4, <1>5 DEF F!Next

\* Any number of messages, files taken away and sizes: no message is lost or
\* out of its place but where a rename failed.
THEOREM LogFilesHold == Spec => []LogFilesKept
<1>1. Init => FilesInv
  BY FilesInit DEF Init
<1>2. FilesInv /\ [Next]_vars => FilesInv'
  <2>1. [Next]_vars => [F!Next]_fileVars
    BY Zenon DEF Next, Utilities, Logging, vars, logVars
  <2> QED
    BY <2>1, FilesStep
<1>3. FilesInv => LogFilesKept
  <2> SUFFICES ASSUME FilesInv PROVE LogFilesKept
    OBVIOUS
  <2>1. DataKept(data, Len(logged)) /\ NamesKept(names, data, away) /\ SizesKept
    BY DEF FilesInv
  <2>2. DOMAIN data = F!Files /\ DOMAIN names = F!Nb /\ F!Nb \subseteq Nat /\ \A n \in F!Nb : names[n] # 0 => names[n] \in F!Files
    BY <2>1 DEF DataKept, NamesKept, F!Nb
  <2>3. \A n, k \in DOMAIN names : names[n] # 0 /\ names[k] # 0 =>
           \A i \in DOMAIN data[names[n]], j \in DOMAIN data[names[k]] :
              n > k \/ (n = k /\ i < j) => data[names[n]][i] < data[names[k]][j]
    BY <2>1, <2>2 DEF DataKept, NamesKept
  <2>4. \A f, g \in DOMAIN data : f # g => ToSet(data[f]) \cap ToSet(data[g]) = {}
    BY <2>1, <2>2 DEF DataKept, ToSet
  <2>5. ~renameFailed => /\ filehandler.state # "closed"
                         /\ \A f \in DOMAIN data : data[f] # <<>> => f \in away \/ \E n \in DOMAIN names : names[n] = f
    BY <2>2 DEF FilesInv, Found
  <2>6. max_size > 0 => \A f \in DOMAIN data : F!SizeOf(data[f]) <= max_size + Max(Lengths)
    BY <2>1, <2>2 DEF SizesKept, F!SizeOf, SizeIn
  <2> QED
    BY <2>3, <2>4, <2>5, <2>6 DEF LogFilesKept
<1> QED
  BY <1>1, <1>2, <1>3, PTL DEF Spec
=============================================================================
