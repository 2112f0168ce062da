------------------------------ MODULE AddrInfo ------------------------------
(***************************************************************************)
(* Results of name resolution in port.c, as built for Android and Windows: *)
(* lists of nodes that getaddrinfo allocated and of nodes made here, with  *)
(* the IPv4 addresses as mapped IPv6 ones; they are joined, sorted, turned *)
(* to other forms and freed.                                               *)
(***************************************************************************)
EXTENDS Naturals, Sequences

CONSTANTS Addresses     \* addresses a name may have, of either family

VARIABLES
    answer,     \* what getaddrinfo knows of the name: sequences of addresses per family
    node,       \* nodes allocated so far: who made them, their address, and who freed them
    res         \* the list a caller has, node numbers in order

vars == <<answer, node, res>>

Init == answer = [inet |-> <<>>, inet6 |-> <<>>] /\ node = <<>> /\ res = <<>>

\* _bctbx_alloc_addrinfo marks what it makes by ai_canonname.
Made(by, family, a) == [by |-> by, family |-> family, addr |-> a, freedBy |-> ""]

Freed(nodes, s, by) ==
    [i \in DOMAIN nodes |-> IF \E j \in DOMAIN s : s[j] = i THEN [nodes[i] EXCEPT !.freedBy = by] ELSE nodes[i]]

\* Numbers of the nodes that adding n nodes gives them.
NewNodes(nodes, n) == [i \in 1..n |-> Len(nodes) + i]

convert_to_v4mapped(nodes, s) ==
    nodes \o [i \in DOMAIN s |-> Made("bctbx", "mapped", nodes[s[i]].addr)]

addrinfo_concat(a, b) == a \o b

Families == {"inet6", "mapped", "inet"}

\* A node goes to the front of its class, and the classes one after the other.
ClassTurn(class, n, family) == [class EXCEPT ![family] = <<n>> \o @]

bctbx_addrinfo_sort(nodes, s) ==
    LET class[i \in 0..Len(s)] == IF i = 0 THEN [f \in Families |-> <<>>]
                                  ELSE ClassTurn(class[i - 1], s[i], nodes[s[i]].family)
        of == class[Len(s)]
    IN  of["inet6"] \o of["mapped"] \o of["inet"]

\* bctbx_getaddrinfo with AI_V4MAPPED and AI_ALL: the IPv6 answers as they
\* come, and the IPv4 ones converted, the originals freed; without the flags
\* the answers of one family.
bctbx_getaddrinfo(family) ==
    LET six == [i \in DOMAIN answer.inet6 |-> Made("libc", "inet6", answer.inet6[i])]
        four == [i \in DOMAIN answer.inet |-> Made("libc", "inet", answer.inet[i])]
        res6 == NewNodes(node, Len(six))
        both == node \o six \o four
        res4 == NewNodes(node \o six, Len(four))
        v4m == convert_to_v4mapped(both, res4)
    IN  IF family = "inet"
        THEN [node |-> node \o four, res |-> NewNodes(node, Len(four))]
        ELSE [node |-> Freed(v4m, res4, "libc"),
              res |-> addrinfo_concat(res6, NewNodes(both, Len(four)))]

\* An error, here no address at all, gives NULL.
bctbx_name_to_addrinfo ==
    /\ res = <<>> /\ node = <<>>
    /\ \E family \in {"inet", "inet6"} :
          LET r == bctbx_getaddrinfo(family)
          IN  node' = r.node /\ res' = bctbx_addrinfo_sort(r.node, r.res)
    /\ UNCHANGED answer

\* Mutant: the list is freed by the mark of its first node.
freeaddrinfo_whole(nodes, s) == Freed(nodes, s, nodes[s[1]].by)

\* The list is cut where the mark of the nodes changes, and each piece freed
\* by whoever made it; start is the place of beginit.
FreeTurn(st, s, i) ==
    LET by == st.nodes[s[st.start]].by
    IN  IF st.nodes[s[i]].by = by THEN st
        ELSE [nodes |-> Freed(st.nodes, SubSeq(s, st.start, i - 1), by), start |-> i]

bctbx_freeaddrinfo(nodes, s) ==
    LET after[i \in 0..Len(s)] == IF i = 0 THEN [nodes |-> nodes, start |-> 1] ELSE FreeTurn(after[i - 1], s, i)
        end == after[Len(s)]
    IN  Freed(end.nodes, SubSeq(s, end.start, Len(s)), end.nodes[s[end.start]].by)

\* Two answers may be joined by their owner before they are freed.
FreeAddrInfo ==
    /\ res # <<>>
    /\ node' = bctbx_freeaddrinfo(node, res) /\ res' = <<>>
    /\ UNCHANGED answer

\* The resolver of the system has two addresses of a family at most.
Answers == UNION {[1..n -> Addresses] : n \in 0..2}

Resolve ==
    /\ node = <<>>
    /\ \E four, six \in Answers : answer' = [inet |-> four, inet6 |-> six]
    /\ UNCHANGED <<node, res>>

\* The owner turns the list round.
Reorder ==
    /\ res # <<>>
    /\ res' = [i \in DOMAIN res |-> res[Len(res) + 1 - i]]
    /\ UNCHANGED <<answer, node>>

Next == Resolve \/ bctbx_name_to_addrinfo \/ FreeAddrInfo \/ Reorder

-----------------------------------------------------------------------------
(* Addresses: of family "inet", or of "inet6" with a prefix.               *)

\* The bytes after the prefix are an IPv4 address for "::ffff" and "64:ff9b".
remove_mapping(sa, prefix) ==
    IF sa.family = "inet6" /\ sa.prefix = prefix
    THEN [family |-> "inet", prefix |-> "", addr |-> sa.addr, port |-> sa.port] ELSE sa

bctbx_sockaddr_remove_v4_mapping(sa) == remove_mapping(sa, "::ffff")

bctbx_sockaddr_remove_nat64_mapping(sa) == remove_mapping(sa, "64:ff9b")

\* Of an address that is not of IPv4 the result is what it was.
bctbx_sockaddr_ipv4_to_ipv6(sa, result) ==
    IF sa.family = "inet" THEN [family |-> "inet6", prefix |-> "::ffff", addr |-> sa.addr, port |-> sa.port]
    ELSE result

bctbx_sockaddr_equals(sa, sb) == sa.family = sb.family /\ sa.prefix = sb.prefix /\ sa.addr = sb.addr /\ sa.port = sb.port
=============================================================================
