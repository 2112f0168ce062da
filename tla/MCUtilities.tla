----------------------------- MODULE MCUtilities ----------------------------
(***************************************************************************)
(* Containers, the portability layer and what surrounds the logger, one    *)
(* part in each behaviour: lists and maps, results of name resolution, the *)
(* condition variable for Windows, directories, times and numbers in       *)
(* hexadecimal; log files, log tags, and log domains with their levels.    *)
(***************************************************************************)
EXTENDS Integers, Sequences, FiniteSets, SequencesExt

CONSTANTS Nodes, Data, Keys, MaxPairs, Iterators, Addresses, Consumers, MaxItems, MaxLinks,
          NsPerMs, MsPerSec, Laps, MaxSec,
          MaxSizes, Lengths, MaxMessages, MaxAway, TagThreads, NbTags, Values, MaxPushed, LogThreads, DomainNames,
          Levels, MaxCalls

VARIABLES
    part,                                   \* the part of this behaviour
    heap, first, content,
    mmap, inserted, freed, iter, held,
    answer, node, res,
    owner, event, items, put, at,
    fs, locked, last,
    ts, total, digits,
    max_size, names, data, filehandler, logged, away, renameFailed,
    mTags, mTagsModified, mCurrentTags, pushed, overlaid, copied,
    default_log_domain, log_domains, object, domains_mutex, doing, call, thread_level, asked,
    asked_null

\* Keys are numbers, and no consumer is the producer.
ASSUME UtilitiesAssumption ==
    /\ Keys \subseteq Nat /\ MaxPairs \in Nat
    /\ "producer" \notin Consumers /\ "nobody" \notin Consumers

\* Addresses are numbers but 0, and data are compared by value.
ASSUME ListAssumption == Nodes \subseteq Nat \ {0} /\ IsFiniteSet(Nodes) /\ Data \subseteq Int

\* Names of threads and domains are no values that stand for none.
ASSUME DomainsAssumption == "free" \notin LogThreads /\ "NULL" \notin DomainNames

\* A millisecond and a second are not nothing.
ASSUME TimesAssumption ==
    NsPerMs \in Nat \ {0} /\ MsPerSec \in Nat \ {0} /\ Laps \subseteq Int

\* Tags are counted, sizes are numbers, and messages have a greatest length.
ASSUME LogsAssumption ==
    /\ NbTags \in Nat
    /\ MaxSizes \subseteq Nat /\ MaxMessages \in Nat /\ MaxAway \in Nat
    /\ Lengths \subseteq Nat /\ \E n \in Lengths : \A len \in Lengths : len <= n

\* Two directories, one with a directory of its own.
Paths == {<<"d">>, <<"d", "a">>, <<"d", "b">>, <<"d", "a", "a">>, <<"o">>, <<"o", "a">>}

Orders == LET entries == SetToSeq({Last(p) : p \in Paths}) IN {entries, Reverse(entries)}

L == INSTANCE List
M == INSTANCE Map
A == INSTANCE AddrInfo
W == INSTANCE WinCond
D == INSTANCE PortDirs
V == INSTANCE PortValues
F == INSTANCE LogFile
T == INSTANCE LogTags WITH Threads <- TagThreads
N == INSTANCE LogDomains WITH at <- doing, Threads <- LogThreads, Names <- DomainNames

listVars == <<heap, first, content>>
mapVars == <<mmap, inserted, freed, iter, held>>
addrVars == <<answer, node, res>>
condVars == <<owner, event, items, put, at>>
dirVars == <<fs, locked, last>>
valueVars == <<ts, total, digits>>
fileVars == <<max_size, names, data, filehandler, logged, away, renameFailed>>
tagVars == <<mTags, mTagsModified, mCurrentTags, pushed, overlaid, copied>>
domainVars == <<default_log_domain, log_domains, object, domains_mutex, doing, call, thread_level,
                asked, asked_null>>
utilVars == <<listVars, mapVars, addrVars, condVars, dirVars, valueVars>>
logVars == <<fileVars, tagVars, domainVars>>
vars == <<part, utilVars, logVars>>

\* Files, directories, and links to either directory or to nothing.
FileSystems ==
    LET kinds == {D!None, D!File, D!Dir, <<"d">>, <<"o">>, <<"x">>}
        full == [p \in Paths |-> IF Len(p) = 1 THEN D!Dir ELSE D!None]
    IN  {[full EXCEPT ![<<"d", "a">>] = da, ![<<"d", "b">>] = db,
                      ![<<"d", "a", "a">>] = IF da = D!Dir THEN daa ELSE D!None,
                      ![<<"o", "a">>] = oa] :
            da, db \in kinds, daa \in {D!None, D!Dir, <<"d">>}, oa \in {D!None, D!File, <<"d">>}}

\* The parts that are not of a behaviour stay in one of their initial states.
Init ==
    /\ part \in {"list", "map", "addrinfo", "cond", "dirs", "times", "digits", "files", "tags", "domains"}
    /\ L!Init /\ M!Init /\ A!Init /\ W!Init /\ V!Init /\ F!Init /\ T!Init /\ N!Init
    /\ IF part = "dirs" THEN /\ fs \in FileSystems
                             /\ locked \in {{}, {<<"d", "a">>}, {<<"o">>}}
                        ELSE fs = [p \in Paths |-> D!None] /\ locked = {}
    /\ last = [op |-> "none", path |-> <<"d">>, ret |-> 0, before |-> fs]
    /\ part # "files" => max_size = 0
    /\ part # "domains" => default_log_domain = 0

Utilities ==
    \/ part = "list" /\ L!Next /\ UNCHANGED <<mapVars, addrVars, condVars, dirVars, valueVars>>
    \/ part = "map" /\ M!Next /\ UNCHANGED <<listVars, addrVars, condVars, dirVars, valueVars>>
    \/ part = "addrinfo" /\ A!Next /\ UNCHANGED <<listVars, mapVars, condVars, dirVars, valueVars>>
    \/ part = "cond" /\ W!Next /\ UNCHANGED <<listVars, mapVars, addrVars, dirVars, valueVars>>
    \/ part = "dirs" /\ D!Next /\ UNCHANGED <<listVars, mapVars, addrVars, condVars, valueVars>>
    \/ part = "times" /\ V!Times /\ UNCHANGED <<listVars, mapVars, addrVars, condVars, dirVars>>
    \/ part = "digits" /\ V!Digits /\ UNCHANGED <<listVars, mapVars, addrVars, condVars, dirVars>>

Logging ==
    \/ part = "files" /\ F!Next /\ UNCHANGED <<tagVars, domainVars>>
    \/ part = "tags" /\ T!Next /\ UNCHANGED <<fileVars, domainVars>>
    \/ part = "domains" /\ N!Next /\ UNCHANGED <<fileVars, tagVars>>

Next == /\ UNCHANGED part
        /\ \/ Utilities /\ UNCHANGED logVars
           \/ Logging /\ UNCHANGED utilVars

Spec == Init /\ [][Next]_vars

-----------------------------------------------------------------------------

\* list.c: after any calls a list is the sequence its calls stand for, read in
\* either direction; the nodes in use are those of the lists, each in one of
\* them, and a search by data, a size, a first and a last agree with it.
ListIsSequence ==
    LET chain == [l \in L!Lists |-> L!Chain(heap, first[l])]
    IN  /\ \A l \in L!Lists :
              LET s == chain[l]
              IN  /\ L!DataOf(heap, s) = content[l]
                  /\ \A i \in DOMAIN s : heap[s[i]].prev = (IF i = 1 THEN 0 ELSE s[i - 1])
                  /\ L!bctbx_list_size(heap, first[l]) = Len(content[l])
                  /\ s # <<>> => L!bctbx_list_first_elem(heap, L!bctbx_list_last_elem(heap, first[l])) = first[l]
                  /\ \A d \in Data : LET i == L!bctbx_list_index(heap, first[l], d)
                                     IN  IF i = -1 THEN d \notin ToSet(content[l])
                                         ELSE content[l][i + 1] = d
        /\ ToSet(chain[1]) \cap ToSet(chain[2]) = {}
        /\ {n \in Nodes : heap[n].used} = ToSet(chain[1]) \cup ToSet(chain[2])

\* map.cc: whatever was erased or inserted through other iterators, an iterator
\* the caller may still use stands at a pair of the map or at its end; the pairs
\* are in the order of their keys, equal keys in the order of insertion; the
\* data of a pair is freed at most once, and never while the pair is in the map.
MapIterators ==
    /\ \A i \in held : iter[i] = 0 \/ \E j \in DOMAIN mmap : mmap[j].n = iter[i]
    /\ \A i, j \in DOMAIN mmap :
          i < j => mmap[i].key < mmap[j].key \/ (mmap[i].key = mmap[j].key /\ mmap[i].n < mmap[j].n)
    /\ \A n \in DOMAIN freed : freed[n] <= (IF \E j \in DOMAIN mmap : mmap[j].n = n THEN 0 ELSE 1)

\* bctbx_freeaddrinfo: once the result is freed every node of it was, by the
\* allocator that made it, in the order the sort left them or turned round;
\* none is while the result is in use, the unmapped answers excepted.
AddressesFreed ==
    /\ res = <<>> => \A n \in DOMAIN node : node[n].freedBy = node[n].by
    /\ \A i \in DOMAIN res : node[res[i]].freedBy = ""
    /\ \A n \in DOMAIN node : node[n].freedBy \in {"", node[n].by}
    /\ \A i, j \in DOMAIN res : i # j => res[i] # res[j]
    /\ \A a \in Addresses, family \in {"inet", "inet6"}, prefix \in {"::ffff", "64:ff9b", "2001"} :
          LET sa == [family |-> family, prefix |-> IF family = "inet" THEN "" ELSE prefix, addr |-> a, port |-> 1]
              six == A!bctbx_sockaddr_ipv4_to_ipv6(sa, sa)
          IN  /\ family = "inet" => A!bctbx_sockaddr_equals(A!bctbx_sockaddr_remove_v4_mapping(six), sa)
              /\ family = "inet" => A!bctbx_sockaddr_remove_nat64_mapping(six) = six
              /\ family = "inet6" => six = sa

\* __bctbx_WIN_cond_wait (port.c l. 472: "gulp: this is not very atomic ! bug
\* here ?"): an item that was signalled never lies in the queue with every
\* consumer asleep and the event clear, though the wait is three calls; and the
\* mutex is held by the thread that acts on the queue.
WakeupKept ==
    /\ items > 0 /\ at["producer"] # "signal"
          => event \/ \E c \in Consumers : at[c] \in {"lock", "check", "relock"}
    /\ \A t \in W!Threads : at[t] \in {"check", "unlock", "put"} <=> owner = t

\* bctbx_rmdir: 0 means that nothing is left under the path, any other result
\* that the directory itself was not removed; with nothing locked and no link
\* to a directory inside, a tree is always removed; and what goes is below the
\* path, or below the target of a link there was.
TreeRemoved ==
    LET under(p, q) == IsPrefix(p, q)
        was == last.before
        path == last.path
        gone == {q \in Paths : was[q] # D!None /\ fs[q] = D!None}
        links == {q \in Paths : D!IsLink(was[q])}
        real == D!Walk(was, path)
    IN  /\ last.op \in {"rmdir", "rmtree"} =>
              /\ last.ret = 0 => /\ D!At(was, D!Lookup(was, path)) = D!Dir
                                 /\ \A q \in Paths : under(D!Lookup(was, path), q) => fs[q] = D!None
              /\ last.ret # 0 /\ D!At(was, D!Lookup(was, path)) = D!Dir
                    => D!At(fs, D!Lookup(was, path)) = D!Dir
        /\ last.op = "rmtree" /\ was[path] = D!Dir /\ locked = {} /\ (\A q \in links : was[q] = <<"x">>)
              => last.ret = 0
        /\ \A q \in gone : under(real, q) \/ \E l \in links : under(was[l], q)
        /\ last.op = "rmdir" => Cardinality(gone) <= 1

\* bctbx_timespec_add_*: a time is the sum of what was added, never below zero,
\* whatever its sign and the carries; comparison agrees with the times unless
\* one has exactly one second of nanoseconds; the rest to sleep and the
\* milliseconds are those of the times.  Hexadecimal strings of bytes and of
\* numbers are read back as they were written, whatever the case of letters.
ValuesConvert ==
    LET Value(t) == (t.sec * (NsPerMs * MsPerSec)) + t.nsec
        Upper(c) == IF c > 96 THEN c - 32 ELSE c
        bytes == <<(digits[1] * 16) + digits[2], digits[2]>>
        str == V!bctbx_int8_to_str(bytes)
    IN  /\ \A i \in 1..2 :
              /\ Value(ts[i]) = total[i]
              /\ LET d == (V!bctbx_get_cur_time_ms(ts[i]) * NsPerMs) - total[i]
                 IN  2 * d <= NsPerMs /\ 2 * d > -NsPerMs
              /\ LET ms == V!bctbx_get_cur_time_ms(ts[i])
                 IN  Value(V!bctbx_sleep_ms(ms)) = ms * NsPerMs
        /\ (\A i \in 1..2 : ts[i].nsec < NsPerMs * MsPerSec)
              => V!bctbx_timespec_compare(ts[1], ts[2]) = V!Sgn(total[1] - total[2])
        /\ Value(V!bctbx_sleep_until(ts[1], ts[2])) = total[1] - total[2]
        /\ V!bctbx_str_to_uint8(str) = bytes
        /\ V!bctbx_str_to_uint8([i \in DOMAIN str |-> Upper(str[i])]) = bytes
        /\ V!bctbx_str_to_uint(V!bctbx_uint_to_str(digits)) = digits

\* bctbx_logv_file: read from the oldest file to the newest, the messages are
\* in the order they were logged, none twice, through any rotations, reopenings
\* and files taken away (a message is lost while there is no stream); a file that nobody took is still there, and the stream
\* is never a closed one, unless a rename failed; and a file does not grow by
\* more than a message over the limit.
LogFilesKept ==
    /\ \A n, k \in DOMAIN names : names[n] # 0 /\ names[k] # 0 =>
          \A i \in DOMAIN data[names[n]], j \in DOMAIN data[names[k]] :
             n > k \/ (n = k /\ i < j) => data[names[n]][i] < data[names[k]][j]
    /\ \A f, g \in DOMAIN data : f # g => ToSet(data[f]) \cap ToSet(data[g]) = {}
    /\ ~renameFailed =>
          /\ filehandler.state # "closed"
          /\ \A f \in DOMAIN data : data[f] # <<>> => f \in away \/ \E n \in DOMAIN names : names[n] = f
    /\ max_size > 0 => \A f \in DOMAIN data : F!SizeOf(data[f]) <= max_size + Max(Lengths)

\* bctbx_pop_log_tag (logging.h l. 171: "restores the previous value"): for each
\* tag of a thread the value shown is the last one pushed and not popped, by
\* push or by paste, equal values pushed again included; a list that was asked
\* for after the last change shows these values.  Nothing is said while a tag
\* would show what the thread had before it last pasted: log-tags.cc l. 97 calls
\* these values lost, the code keeps them under the pasted ones.
TagsRestored ==
    \A th \in TagThreads :
        (\A t \in T!TagTypes : overlaid[th][t] = 0 \/ Len(pushed[th][t]) > overlaid[th][t]) =>
        /\ T!TopValues(mTags[th]) = T!Tops(pushed[th])
        /\ ~mTagsModified[th] => mCurrentTags[th] = T!Tops(pushed[th])

\* bctbx_set_log_level: each name has one domain, and the level checked is the
\* last one set for it by any thread, of a thread with a level of its own that
\* one, also when two threads make the domain or the logger at once, unless a
\* thread had the mutex of the domains when it was made again.  A level for NULL
\* is that of the default domain: it is checked for names that have no domain,
\* and for no others (logging.h l. 155 says all), unless two threads made the
\* logger, and with it the default domain, at once.
LevelsTakeEffect ==
    /\ ~asked.raced =>
        /\ \A i, j \in DOMAIN log_domains : object[log_domains[i]].name = object[log_domains[j]].name => i = j
        /\ \A n \in DomainNames : asked.level[n] # <<>> =>
              /\ N!bctbx_get_log_level_mask(n) = asked.level[n][1]
              /\ \A t \in LogThreads : N!EnabledMask(t, n) = (IF asked.own[t][n] # {} THEN asked.own[t][n] ELSE asked.level[n][1])
    /\ ~asked_null.remade /\ asked_null.level # <<>> =>
          \A n \in DomainNames \cup {"NULL"} : N!get_log_domain(n) \in {0, default_log_domain} =>
              /\ N!bctbx_get_log_level_mask(n) = asked_null.level[1]
              /\ \A t \in LogThreads :
                    N!EnabledMask(t, n) = (IF asked_null.own[t] # {} THEN asked_null.own[t] ELSE asked_null.level[1])
=============================================================================
