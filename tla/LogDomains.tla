----------------------------- MODULE LogDomains -----------------------------
(***************************************************************************)
(* Log domains and levels of logging.c, used by several threads: the       *)
(* logger is made by the first call, a domain by the first level that is   *)
(* set for it, and a thread may have a level of its own.                   *)
(***************************************************************************)
EXTENDS Naturals, Sequences

CONSTANTS Threads,
          Names,        \* names of domains
          Levels,       \* 1..n, the highest is BCTBX_LOG_FATAL
          MaxCalls      \* bound: levels set, of domains and of threads

VARIABLES
    default_log_domain,     \* a domain, 0 before the first call
    log_domains,            \* the domains with names, first of the list first
    object,                 \* the domains made: name and logmask
    domains_mutex,          \* the thread that has it, or "free"
    at, call,               \* where each thread is, and the level it sets
    thread_level,           \* the level of each thread in each domain, {} for none
    asked,                  \* the levels set: per name, and per thread; and raced
    asked_null              \* the same for NULL; and remade

vars == <<default_log_domain, log_domains, object, domains_mutex, at, call, thread_level, asked,
          asked_null>>

NoName == "NULL"

None == 0

\* level_to_mask: the level and those above.
level_to_mask(level) == {l \in Levels : l >= level}

DefaultMask == level_to_mask(2)

NoCall == [name |-> NoName, mask |-> {}, domain |-> None]

Init ==
    /\ default_log_domain \in {0, 1}
    /\ object = IF default_log_domain = 0 THEN <<>> ELSE <<[name |-> NoName, logmask |-> DefaultMask]>>
    /\ log_domains = <<>>
    /\ domains_mutex = "free"
    /\ at = [t \in Threads |-> "idle"] /\ call = [t \in Threads |-> NoCall]
    /\ thread_level = [t \in Threads |-> [d \in {} |-> {}]]
    /\ asked = [level |-> [n \in Names |-> <<>>], own |-> [t \in Threads |-> [n \in Names |-> {}]], calls |-> 0, raced |-> FALSE]
    /\ asked_null = [level |-> <<>>, own |-> [t \in Threads |-> {}], remade |-> FALSE]

get_log_domain(name) ==
    IF name = NoName THEN default_log_domain
    ELSE LET found == {i \in DOMAIN log_domains : object[log_domains[i]].name = name}
         IN  IF found = {} THEN None
             ELSE log_domains[CHOOSE i \in found : \A j \in found : i <= j]

bctbx_get_log_level_mask(name) ==
    object[IF get_log_domain(name) = None THEN default_log_domain ELSE get_log_domain(name)].logmask

\* The mask bctbx_log_level_enabled looks at.
EnabledMask(t, name) ==
    LET d == IF get_log_domain(name) = None THEN default_log_domain ELSE get_log_domain(name)
    IN  IF d \in DOMAIN thread_level[t] /\ thread_level[t][d] # {} THEN thread_level[t][d]
        ELSE object[d].logmask

-----------------------------------------------------------------------------

Goto(t, l) == at' = [at EXCEPT ![t] = l]

\* bctbx_set_log_level, bctbx_set_log_level_mask.
Call(t, name, mask) ==
    /\ at[t] = "idle" /\ asked.calls < MaxCalls
    /\ asked' = [asked EXCEPT !.calls = @ + 1]
    /\ call' = [call EXCEPT ![t] = [name |-> name, mask |-> mask, domain |-> None]]
    /\ Goto(t, IF default_log_domain = 0 THEN "make" ELSE "look")
    /\ UNCHANGED <<default_log_domain, log_domains, object, domains_mutex, thread_level, asked_null>>

\* The logger is made without a lock, then its mutexes: remade says that there
\* was a default domain already, raced that a thread had the mutex that is made
\* again.
bctbx_get_logger(t) ==
    \/ /\ at[t] = "make"
       /\ object' = Append(object, [name |-> NoName, logmask |-> DefaultMask])
       /\ default_log_domain' = Len(object')
       /\ asked_null' = [asked_null EXCEPT !.remade = @ \/ default_log_domain # 0]
       /\ Goto(t, "mutexes")
       /\ UNCHANGED <<log_domains, domains_mutex, call, thread_level, asked>>
    \/ /\ at[t] = "mutexes"
       /\ domains_mutex' = "free" /\ asked' = [asked EXCEPT !.raced = @ \/ domains_mutex # "free"]
       /\ Goto(t, "look")
       /\ UNCHANGED <<default_log_domain, log_domains, object, call, thread_level, asked_null>>

\* Mutant: the list is not looked at again under the mutex.
make_without_look(t) ==
    \/ /\ at[t] = "look"
       /\ call' = [call EXCEPT ![t].domain = get_log_domain(call[t].name)]
       /\ Goto(t, IF get_log_domain(call[t].name) = None THEN "lock" ELSE "write")
       /\ UNCHANGED <<log_domains, object, domains_mutex>>
    \/ /\ at[t] = "lock" /\ domains_mutex = "free"
       /\ domains_mutex' = t /\ Goto(t, "again")
       /\ UNCHANGED <<log_domains, object, call>>
    \/ /\ at[t] = "again"
       /\ object' = Append(object, [name |-> call[t].name, logmask |-> object[default_log_domain].logmask])
       /\ log_domains' = <<Len(object')>> \o log_domains
       /\ call' = [call EXCEPT ![t].domain = Len(object')]
       /\ domains_mutex' = "free" /\ Goto(t, "write")

get_log_domain_rw(t) ==
    \/ /\ at[t] = "look"
       /\ call' = [call EXCEPT ![t].domain = get_log_domain(call[t].name)]
       /\ Goto(t, IF get_log_domain(call[t].name) = None THEN "lock" ELSE "write")
       /\ UNCHANGED <<log_domains, object, domains_mutex>>
    \/ /\ at[t] = "lock" /\ domains_mutex = "free"
       /\ domains_mutex' = t /\ Goto(t, "again")
       /\ UNCHANGED <<log_domains, object, call>>
    \/ /\ at[t] = "again"
       /\ call' = [call EXCEPT ![t].domain = get_log_domain(call[t].name)]
       /\ IF get_log_domain(call[t].name) = None THEN Goto(t, "create") /\ UNCHANGED domains_mutex
          ELSE Goto(t, "write") /\ domains_mutex' = "free"
       /\ UNCHANGED <<log_domains, object>>
    \/ /\ at[t] = "create"
       /\ object' = Append(object, [name |-> call[t].name, logmask |-> object[default_log_domain].logmask])
       /\ log_domains' = <<Len(object')>> \o log_domains
       /\ call' = [call EXCEPT ![t].domain = Len(object')]
       /\ domains_mutex' = "free" /\ Goto(t, "write")

bctbx_set_log_level_mask(t) ==
    /\ at[t] = "write"
    /\ object' = [object EXCEPT ![call[t].domain].logmask = call[t].mask]
    /\ IF call[t].name = NoName
       THEN asked_null' = [asked_null EXCEPT !.level = <<call[t].mask>>] /\ UNCHANGED asked
       ELSE asked' = [asked EXCEPT !.level[call[t].name] = <<call[t].mask>>] /\ UNCHANGED asked_null
    /\ call' = [call EXCEPT ![t] = NoCall] /\ Goto(t, "idle")
    /\ UNCHANGED <<default_log_domain, log_domains, domains_mutex, thread_level>>

\* NULL is the default domain and no other.  The domain must be there: what
\* get_log_domain gives is not compared with NULL.  Clearing puts 0.
bctbx_set_thread_log_level(t) ==
    \E name \in Names \cup {NoName}, mask \in {level_to_mask(l) : l \in Levels} \cup {{}} :
        LET d == get_log_domain(name)
        IN  /\ at[t] = "idle" /\ d # None /\ asked.calls < MaxCalls
            /\ thread_level' = [thread_level EXCEPT ![t] =
                    [e \in DOMAIN @ \cup {d} |-> IF e = d THEN mask ELSE @[e]]]
            /\ IF name = NoName
               THEN /\ asked_null' = [asked_null EXCEPT !.own[t] = mask]
                    /\ asked' = [asked EXCEPT !.calls = @ + 1]
               ELSE /\ asked' = [asked EXCEPT !.own[t][name] = mask, !.calls = @ + 1]
                    /\ UNCHANGED asked_null
            /\ UNCHANGED <<default_log_domain, log_domains, object, domains_mutex, at, call>>

Next == \E t \in Threads :
    \/ \E name \in Names \cup {NoName} :
          \/ \E level \in Levels : Call(t, name, level_to_mask(level))
          \/ Call(t, name, {})
    \/ bctbx_get_logger(t)
    \/ get_log_domain_rw(t) /\ UNCHANGED <<default_log_domain, thread_level, asked, asked_null>>
    \/ bctbx_set_log_level_mask(t)
    \/ bctbx_set_thread_log_level(t)
=============================================================================
