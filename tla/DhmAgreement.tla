---------------------------- MODULE DhmAgreement ----------------------------
(***************************************************************************)
(* Diffie-Hellman contexts of two parties, each with mbedtls.c or with     *)
(* openssl.c.  A public value is the number of the secret it was made      *)
(* from, 0 for one no group member has.  A key is the pair of secrets it   *)
(* comes from and the first byte of the buffer the result was written to:  *)
(* the libraries leave out the zero bytes at the front of a result.        *)
(***************************************************************************)
EXTENDS Naturals, FiniteSets

CONSTANTS Secrets   \* bound: number of secrets generated in a behaviour

VARIABLES
    backend,    \* the library of each party
    ctx,        \* the context of each party
    made,       \* secrets generated so far
    short,      \* pairs of secrets whose result starts with a zero byte
    sent,       \* public values that were sent by each party
    current     \* TRUE while key was computed from the present self and peer

vars == <<backend, ctx, made, short, sent, current>>

Party == {"alice", "bob"}

Other(p) == IF p = "alice" THEN "bob" ELSE "alice"

None == [from |-> {}, at |-> 0]

Destroyed == [live |-> FALSE, x |-> 0, self |-> 0, peer |-> 0, gy |-> 0, key |-> None]

Init == /\ backend \in [Party -> {"mbedtls", "openssl"}]
        /\ ctx = [p \in Party |-> Destroyed]
        /\ made = 0
        /\ short \in {{}, {{1, 2}}}
        /\ sent = [p \in Party |-> {}]
        /\ current = [p \in Party |-> FALSE]

\* mbedtls only sets the group.
bctbx_CreateDHMContext_mbedtls(x) == [Destroyed EXCEPT !.live = TRUE]

\* create_dh generates the pair of keys, for the life of the context.
bctbx_CreateDHMContext_openssl(x) == [Destroyed EXCEPT !.live = TRUE, !.x = x]

\* A failed mbedtls_dhm_make_public (x = 0) leaves zeros in self.
bctbx_DHMCreatePublic_mbedtls(c, x) == [c EXCEPT !.x = IF x = 0 THEN @ ELSE x, !.self = x]

bctbx_DHMCreatePublic_openssl(c, x) == [c EXCEPT !.self = c.x]

FirstByte(from) == IF from \in short THEN 1 ELSE 0

\* Mutant: a new value of the peer is not read when there is one already.
ComputeSecret_first_peer(c) ==
    LET gy == IF c.gy # 0 \/ c.peer = 0 THEN c.gy ELSE c.peer
    IN  [c EXCEPT !.gy = gy, !.key = [from |-> {c.x, gy}, at |-> FirstByte({c.x, gy})]]
\* mbedtls_dhm_read_public keeps the value before when it refuses one, and
\* its result is not looked at; the result is moved to the end of the buffer.
\* Without a secret or a value the buffer holds what was on the stack.
bctbx_DHMComputeSecret_mbedtls(c) ==
    LET gy == IF c.peer = 0 THEN c.gy ELSE c.peer
    IN  [c EXCEPT !.gy = gy, !.key = [from |-> {c.x, gy}, at |-> FirstByte({c.x, gy})]]

\* A value that is refused leaves the key as it was; the result is written at
\* the start of the buffer, and a short one only logs an error.
bctbx_DHMComputeSecret_openssl(c) ==
    IF c.peer = 0 THEN c ELSE [c EXCEPT !.key = [from |-> {c.x, c.peer}, at |-> 0]]

Create(p) ==
    /\ ~ctx[p].live /\ made < Secrets
    /\ IF backend[p] = "mbedtls"
       THEN ctx' = [ctx EXCEPT ![p] = bctbx_CreateDHMContext_mbedtls(0)] /\ UNCHANGED made
       ELSE /\ ctx' = [ctx EXCEPT ![p] = bctbx_CreateDHMContext_openssl(made + 1)]
            /\ made' = made + 1
    /\ current' = [current EXCEPT ![p] = FALSE]
    /\ UNCHANGED <<backend, short, sent>>

\* The caller sends self, and copies what it receives to peer.
CreatePublic(p) ==
    /\ ctx[p].live
    /\ IF backend[p] = "mbedtls"
       THEN \E x \in {0, made + 1} :
               /\ x <= Secrets /\ made' = IF x = 0 THEN made ELSE x
               /\ ctx' = [ctx EXCEPT ![p] = bctbx_DHMCreatePublic_mbedtls(@, x)]
       ELSE ctx' = [ctx EXCEPT ![p] = bctbx_DHMCreatePublic_openssl(@, 0)] /\ UNCHANGED made
    /\ sent' = [sent EXCEPT ![p] = @ \cup {ctx'[p].self}]
    /\ current' = [current EXCEPT ![p] = FALSE]
    /\ UNCHANGED <<backend, short>>

\* A value that was sent, possibly before another one, or none of the group.
SetPeer(p) ==
    /\ ctx[p].live
    /\ \E v \in sent[Other(p)] \cup {0} : ctx' = [ctx EXCEPT ![p].peer = v]
    /\ current' = [current EXCEPT ![p] = FALSE]
    /\ UNCHANGED <<backend, made, short, sent>>

\* A computation of the library that fails: neither file tells the caller.  With
\* mbedtls the buffer then holds what was on the stack, with OpenSSL what was
\* in the memory it got, or the key before when a step before that failed.
Failed(p) ==
    IF backend[p] = "mbedtls" THEN {[bctbx_DHMComputeSecret_mbedtls(ctx[p]) EXCEPT !.key = None]}
    ELSE {ctx[p], [ctx[p] EXCEPT !.key = None]}

ComputeSecret(p) ==
    /\ ctx[p].live /\ ctx[p].x # 0
    /\ \/ /\ ctx' = [ctx EXCEPT ![p] = IF backend[p] = "mbedtls"
                                         THEN bctbx_DHMComputeSecret_mbedtls(@)
                                         ELSE bctbx_DHMComputeSecret_openssl(@)]
          /\ current' = [current EXCEPT ![p] = ctx[p].peer # 0 /\ ctx[p].self # 0]
       \/ /\ \E c \in Failed(p) : ctx' = [ctx EXCEPT ![p] = c]
          /\ current' = [current EXCEPT ![p] = FALSE]
    /\ UNCHANGED <<backend, made, short, sent>>

bctbx_DestroyDHMContext(p) ==
    /\ ctx[p].live
    /\ ctx' = [ctx EXCEPT ![p] = Destroyed]
    /\ current' = [current EXCEPT ![p] = FALSE]
    /\ UNCHANGED <<backend, made, short, sent>>

Next == \E p \in Party : \/ Create(p) \/ CreatePublic(p) \/ SetPeer(p) \/ ComputeSecret(p)
                         \/ bctbx_DestroyDHMContext(p)
=============================================================================
