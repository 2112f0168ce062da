---------------------------- MODULE CryptoProofs ----------------------------
(***************************************************************************)
(* Theorems about the cryptographic wrappers, for every size of files,     *)
(* blocks and texts and any number of keys, secrets and certificates.      *)
(***************************************************************************)
EXTENDS MCCrypto, NaturalsInduction, WellFoundedInduction, SequenceTheorems, TLAPS

-----------------------------------------------------------------------------
(* Loops: a number of steps is taken one after the other.                  *)

\* Of a set of numbers that is not empty one is the least: the form in which
\* facts about loops are shown here, by the first step that would break them.
LEMMA LeastNumber ==
  ASSUME NEW T, T \subseteq Nat, T # {}
  PROVE  \E n \in T : \A m \in T : n <= m
<1>1. PICK n \in T : \A m \in T : ~(<<m, n>> \in OpToRel(<, Nat))
  BY WFMin, NatLessThanWellFounded, Zenon
<1>2. \A m \in T : ~(m < n)
  BY <1>1 DEF OpToRel
<1> QED
  BY <1>2

\* The steps a loop of N turns over values in V may have.
Steps(N, V) == [(1..N) \X V -> V]

\* The values the loop goes through, from v on, with the steps of h.
Loop(g, N, V, v, h) ==
    g \in [0..N -> V] /\ g[0] = v /\ \A i \in 1..N : g[i] = h[<<i, g[i - 1]>>]

LEMMA Iterates ==
  ASSUME NEW N \in Nat, NEW V, NEW v \in V, NEW h \in Steps(N, V)
  PROVE  \E g : Loop(g, N, V, v, h)
<1> USE DEF Steps
<1> DEFINE Upto(n, g) == g[0] = v /\ \A i \in 1..n : g[i] = h[<<i, g[i - 1]>>]
           T == {n \in 0..N : ~\E g \in [0..n -> V] : Upto(n, g)}
<1>1. SUFFICES ASSUME T # {} PROVE FALSE
  <2>1. N \in 0..N
    OBVIOUS
  <2> QED
    BY <2>1 DEF Loop
<1>2. PICK n \in T : \A m \in T : n <= m
  <2> HIDE DEF T
  <2>1. T \subseteq Nat
    BY DEF T
  <2> QED
    BY <1>1, <2>1, LeastNumber
<1>3. CASE n = 0
  <2> DEFINE g == [i \in 0..0 |-> v]
  <2>1. g \in [0..0 -> V] /\ Upto(0, g)
    OBVIOUS
  <2> QED
    BY <1>2, <1>3, <2>1
<1>4. CASE n # 0
  <2>1. n \in 1..N /\ n - 1 \in 0..N /\ n - 1 \notin T
    BY <1>2, <1>4
  <2>2. PICK f \in [0..(n - 1) -> V] : Upto(n - 1, f)
    BY <2>1
  <2> DEFINE g == [i \in 0..n |-> IF i = n THEN h[<<n, f[n - 1]>>] ELSE f[i]]
  <2>3. f[n - 1] \in V /\ <<n, f[n - 1]>> \in (1..N) \X V
    BY <2>1, <2>2
  <2>4. g \in [0..n -> V]
    BY <2>1, <2>3
  <2>5. g[0] = v
    BY <2>1, <2>2
  <2>6. ASSUME NEW i \in 1..n PROVE g[i] = h[<<i, g[i - 1]>>]
    <3>1. CASE i = n
      <4>1. g[n] = h[<<n, f[n - 1]>>] /\ g[n - 1] = f[n - 1]
        BY <2>1
      <4> HIDE DEF g
      <4> QED
        BY <3>1, <4>1
    <3>2. CASE i # n
      <4>1. i \in 1..(n - 1) /\ g[i] = f[i] /\ g[i - 1] = f[i - 1]
        BY <2>1, <3>2
      <4>2. f[i] = h[<<i, f[i - 1]>>]
        BY <2>2, <4>1
      <4> HIDE DEF g
      <4> QED
        BY <4>1, <4>2
    <3> QED
      BY <3>1, <3>2
  <2> HIDE DEF g
  <2>7. \E e \in [0..n -> V] : Upto(n, e)
    BY <2>4, <2>5, <2>6
  <2> QED
    BY <1>2, <2>7
<1> QED
  BY <1>3, <1>4

-----------------------------------------------------------------------------
(* Diffie-Hellman contexts (mbedtls.c, openssl.c).                         *)

Libraries == {"mbedtls", "openssl"}

Parties == {"alice", "bob"}

DhmContext == [live : BOOLEAN, x : Nat, self : Nat, peer : Nat, gy : Nat,
               key : [from : SUBSET Nat, at : {0, 1}]]

DhmType ==
    /\ backend \in [Parties -> Libraries]
    /\ ctx \in [Parties -> DhmContext]
    /\ made \in Nat
    /\ sent \in [Parties -> SUBSET Nat]
    /\ current \in [Parties -> BOOLEAN]

\* The public value of a context is that of its secret, and a key that counts
\* was computed from this secret and the value of the peer.
DhmKeys ==
    \A p \in Parties :
        /\ ctx[p].self # 0 => ctx[p].self = ctx[p].x
        /\ current[p] =>
              /\ ctx[p].self # 0 /\ ctx[p].peer # 0
              /\ ctx[p].key.from = {ctx[p].x, ctx[p].peer}
              /\ ctx[p].key.at = IF backend[p] = "mbedtls" THEN D!FirstByte(ctx[p].key.from) ELSE 0

DhmInv == DhmType /\ DhmKeys

\* What the calls make of a context.
LEMMA DhmCalls ==
  ASSUME NEW c \in DhmContext, NEW n \in Nat
  PROVE  /\ D!Destroyed \in DhmContext /\ D!Destroyed.self = 0
         /\ LET d == D!bctbx_CreateDHMContext_mbedtls(0) IN d \in DhmContext /\ d.self = 0
         /\ LET d == D!bctbx_CreateDHMContext_openssl(n) IN d \in DhmContext /\ d.self = 0
         /\ LET d == D!bctbx_DHMCreatePublic_mbedtls(c, n)
            IN  d \in DhmContext /\ (d.self # 0 => d.self = d.x)
         /\ LET d == D!bctbx_DHMCreatePublic_openssl(c, 0)
            IN  d \in DhmContext /\ (d.self # 0 => d.self = d.x)
<1> USE DEF DhmContext
<1>1. D!Destroyed \in DhmContext /\ D!Destroyed.self = 0
  BY DEF D!Destroyed, D!None
<1>2. LET d == D!bctbx_CreateDHMContext_mbedtls(0) IN d \in DhmContext /\ d.self = 0
  BY DEF D!Destroyed, D!None, D!bctbx_CreateDHMContext_mbedtls
<1>3. LET d == D!bctbx_CreateDHMContext_openssl(n) IN d \in DhmContext /\ d.self = 0
  BY DEF D!Destroyed, D!None, D!bctbx_CreateDHMContext_openssl
<1>4. LET d == D!bctbx_DHMCreatePublic_mbedtls(c, n)
      IN  d \in DhmContext /\ (d.self # 0 => d.self = d.x)
  BY DEF D!bctbx_DHMCreatePublic_mbedtls
<1>5. LET d == D!bctbx_DHMCreatePublic_openssl(c, 0)
      IN  d \in DhmContext /\ (d.self # 0 => d.self = d.x)
  BY DEF D!bctbx_DHMCreatePublic_openssl
<1> QED
  BY <1>1, <1>2, <1>3, <1>4, <1>5

LEMMA DhmComputes ==
  ASSUME NEW c \in DhmContext
  PROVE  /\ LET d == D!bctbx_DHMComputeSecret_mbedtls(c)
            IN  /\ d \in DhmContext /\ d.self = c.self /\ d.x = c.x /\ d.peer = c.peer
                /\ d.peer # 0 => d.key = [from |-> {d.x, d.peer}, at |-> D!FirstByte({d.x, d.peer})]
         /\ LET d == D!bctbx_DHMComputeSecret_openssl(c)
            IN  /\ d \in DhmContext /\ d.self = c.self /\ d.x = c.x /\ d.peer = c.peer
                /\ d.peer # 0 => d.key = [from |-> {d.x, d.peer}, at |-> 0]
BY DEF DhmContext, D!bctbx_DHMComputeSecret_mbedtls, D!bctbx_DHMComputeSecret_openssl, D!FirstByte

LEMMA DhmFails ==
  ASSUME NEW c \in DhmContext
  PROVE  /\ LET d == [D!bctbx_DHMComputeSecret_mbedtls(c) EXCEPT !.key = D!None]
            IN  d \in DhmContext /\ d.self = c.self /\ d.x = c.x /\ d.peer = c.peer
         /\ LET d == [c EXCEPT !.key = D!None]
            IN  d \in DhmContext /\ d.self = c.self /\ d.x = c.x /\ d.peer = c.peer
<1>1. D!None \in [from : SUBSET Nat, at : {0, 1}]
  BY DEF D!None
<1>2. D!bctbx_DHMComputeSecret_mbedtls(c) \in DhmContext
  BY DhmComputes
<1> QED
  BY <1>1, <1>2, DhmComputes DEF DhmContext

LEMMA DhmStep ==
  ASSUME DhmInv, NEW p \in Parties,
         \/ D!Create(p) \/ D!CreatePublic(p) \/ D!SetPeer(p) \/ D!ComputeSecret(p)
         \/ D!bctbx_DestroyDHMContext(p)
  PROVE  DhmInv'
<1> USE DEF DhmInv, Parties, Libraries
<1>0. ctx[p] \in DhmContext /\ made + 1 \in Nat /\ backend[p] \in Libraries
  BY DEF DhmType
<1>1. CASE D!Create(p)
  <2>1. PICK c \in DhmContext : c.self = 0 /\ ctx' = [ctx EXCEPT ![p] = c]
    <3>1. CASE backend[p] = "mbedtls"
      BY <1>0, <1>1, <3>1, DhmCalls DEF D!Create
    <3>2. CASE backend[p] # "mbedtls"
      <4> DEFINE d == D!bctbx_CreateDHMContext_openssl(made + 1)
      <4>1. ctx' = [ctx EXCEPT ![p] = d]
        BY <1>1, <3>2 DEF D!Create
      <4>2. d \in DhmContext /\ d.self = 0
        BY <1>0, DhmCalls
      <4> QED
        BY <4>1, <4>2
    <3> QED
      BY <3>1, <3>2
  <2>2. made' \in Nat
    BY <1>0, <1>1 DEF D!Create, DhmType
  <2> QED
    BY <1>1, <2>1, <2>2 DEF D!Create, DhmType, DhmKeys, D!FirstByte
<1>2. CASE D!CreatePublic(p)
  <2>1. PICK c \in DhmContext : /\ c.self # 0 => c.self = c.x
                                /\ ctx' = [ctx EXCEPT ![p] = c]
                                /\ made' \in Nat
    <3>1. CASE backend[p] = "mbedtls"
      <4>1. PICK x0 \in {0, made + 1} :
               /\ made' = IF x0 = 0 THEN made ELSE x0
               /\ ctx' = [ctx EXCEPT ![p] = D!bctbx_DHMCreatePublic_mbedtls(ctx[p], x0)]
        BY <1>2, <3>1, <1>0 DEF D!CreatePublic, DhmType
      <4>2. x0 \in Nat /\ made' \in Nat
        BY <1>0, <4>1 DEF DhmType
      <4> QED
        BY <1>0, <4>1, <4>2, DhmCalls
    <3>2. CASE backend[p] # "mbedtls"
      <4>1. ctx' = [ctx EXCEPT ![p] = D!bctbx_DHMCreatePublic_openssl(ctx[p], 0)] /\ made' = made
        BY <1>2, <3>2, <1>0 DEF D!CreatePublic, DhmType
      <4> QED
        BY <1>0, <4>1, DhmCalls DEF DhmType
    <3> QED
      BY <3>1, <3>2
  <2>2. sent' \in [Parties -> SUBSET Nat]
    BY <1>2, <2>1 DEF D!CreatePublic, DhmType, DhmContext
  <2> QED
    BY <1>2, <2>1, <2>2 DEF D!CreatePublic, DhmType, DhmKeys, D!FirstByte
<1>3. CASE D!SetPeer(p)
  <2> PICK v \in Nat : ctx' = [ctx EXCEPT ![p].peer = v]
    BY <1>3 DEF D!SetPeer, DhmType, D!Other
  <2> QED
    BY <1>3 DEF D!SetPeer, DhmType, DhmContext, DhmKeys, D!FirstByte
<1>4. CASE D!ComputeSecret(p)
  <2>0. CASE (\E c \in D!Failed(p) : ctx' = [ctx EXCEPT ![p] = c])
             /\ current' = [current EXCEPT ![p] = FALSE]
    <3>1. PICK c \in D!Failed(p) : ctx' = [ctx EXCEPT ![p] = c]
      BY <2>0
    <3>2. c \in DhmContext /\ c.self = ctx[p].self /\ c.x = ctx[p].x /\ c.peer = ctx[p].peer
      BY <1>0, <3>1, DhmFails DEF D!Failed
    <3> QED
      BY <1>4, <2>0, <3>1, <3>2 DEF D!ComputeSecret, DhmType, DhmKeys, D!FirstByte
  <2> SUFFICES ASSUME /\ ctx' = [ctx EXCEPT ![p] = IF backend[p] = "mbedtls"
                                                   THEN D!bctbx_DHMComputeSecret_mbedtls(ctx[p])
                                                   ELSE D!bctbx_DHMComputeSecret_openssl(ctx[p])]
                      /\ current' = [current EXCEPT ![p] = ctx[p].peer # 0 /\ ctx[p].self # 0]
               PROVE  DhmInv'
    BY <1>0, <1>4, <2>0 DEF D!ComputeSecret, DhmType
  <2>1. PICK c \in DhmContext : /\ ctx' = [ctx EXCEPT ![p] = c]
                                /\ c.self = ctx[p].self /\ c.x = ctx[p].x /\ c.peer = ctx[p].peer
                                /\ c.peer # 0 => /\ c.key.from = {c.x, c.peer}
                                                 /\ c.key.at = IF backend[p] = "mbedtls"
                                                               THEN D!FirstByte(c.key.from) ELSE 0
    <3>1. CASE backend[p] = "mbedtls"
      <4> DEFINE d == D!bctbx_DHMComputeSecret_mbedtls(ctx[p])
      <4>1. ctx' = [ctx EXCEPT ![p] = d]
        BY <1>4, <3>1, <1>0 DEF D!ComputeSecret, DhmType
      <4>2. /\ d \in DhmContext /\ d.self = ctx[p].self /\ d.x = ctx[p].x /\ d.peer = ctx[p].peer
            /\ d.peer # 0 => d.key = [from |-> {d.x, d.peer}, at |-> D!FirstByte({d.x, d.peer})]
        BY <1>0, DhmComputes
      <4> HIDE DEF d
      <4>3. d.peer # 0 => /\ d.key.from = {d.x, d.peer}
                          /\ d.key.at = IF backend[p] = "mbedtls" THEN D!FirstByte(d.key.from) ELSE 0
        BY <3>1, <4>2
      <4> QED
        BY <4>1, <4>2, <4>3, Zenon
    <3>2. CASE backend[p] # "mbedtls"
      <4> DEFINE d == D!bctbx_DHMComputeSecret_openssl(ctx[p])
      <4>1. ctx' = [ctx EXCEPT ![p] = d]
        BY <1>4, <3>2, <1>0 DEF D!ComputeSecret, DhmType
      <4>2. /\ d \in DhmContext /\ d.self = ctx[p].self /\ d.x = ctx[p].x /\ d.peer = ctx[p].peer
            /\ d.peer # 0 => d.key = [from |-> {d.x, d.peer}, at |-> 0]
        BY <1>0, DhmComputes
      <4> HIDE DEF d
      <4>3. d.peer # 0 => /\ d.key.from = {d.x, d.peer}
                          /\ d.key.at = IF backend[p] = "mbedtls" THEN D!FirstByte(d.key.from) ELSE 0
        BY <3>2, <4>2
      <4> QED
        BY <4>1, <4>2, <4>3, Zenon
    <3> QED
      BY <3>1, <3>2
  <2> QED
    BY <1>4, <2>1 DEF D!ComputeSecret, DhmType, DhmKeys, D!FirstByte
<1>5. CASE D!bctbx_DestroyDHMContext(p)
  <2> D!Destroyed \in DhmContext /\ D!Destroyed.self = 0
    BY DEF D!Destroyed, D!None, DhmContext
  <2> QED
    BY <1>5 DEF D!bctbx_DestroyDHMContext, DhmType, DhmKeys, D!FirstByte
<1> QED
  BY <1>1, <1>2, <1>3, <1>4, <1>5

LEMMA DhmInductive == DhmInv /\ [Next]_vars => DhmInv'
<1> SUFFICES ASSUME DhmInv, [Next]_vars PROVE DhmInv'
  OBVIOUS
<1>1. CASE D!Next
  BY <1>1, DhmStep DEF D!Next, D!Party, Parties
<1>2. CASE UNCHANGED dhmVars
  BY <1>2 DEF dhmVars, DhmInv, DhmType, DhmKeys, D!FirstByte
<1> QED
  BY <1>1, <1>2 DEF Next, vars

\* bctbx_DHMComputeSecret, with any number of secrets: after any exchanges,
\* refused values and failed generations, parties that computed the key from
\* each other's present value have the same one.
THEOREM SameSecretHolds == Spec => []SameSecret
<1>1. Init => DhmInv
  BY DEF Init, D!Init, DhmInv, DhmType, DhmKeys, D!Party, Parties, Libraries, DhmContext,
         D!Destroyed, D!None
<1>2. DhmInv => SameSecret
  BY DEF DhmInv, DhmType, DhmKeys, SameSecret, DhmContext, Parties, Libraries, D!FirstByte
<1> QED
  BY <1>1, <1>2, DhmInductive, PTL DEF Spec
-----------------------------------------------------------------------------
(* Keys on elliptic curves (ecc.cc).                                       *)

CurveKeys == [curve : {0, 25519, 448}, n : Nat]

XContext == [live : BOOLEAN, algo : {0, 25519, 448}, secret : CurveKeys, selfPublic : CurveKeys,
             peerPublic : CurveKeys, sharedSecret : SUBSET CurveKeys]

EdContext == [live : BOOLEAN, algo : {0, 25519, 448}, secretKey : CurveKeys, publicKey : CurveKeys]

EccType ==
    /\ x \in [Parties -> XContext] /\ ed \in [Parties -> EdContext]
    /\ xPaired \in [Parties -> BOOLEAN] /\ edPaired \in [Parties -> BOOLEAN]
    /\ computed \in [Parties -> BOOLEAN]
    /\ numbers \in Nat

\* The keys of a signing context are of its curve.
OfCurve(e) == /\ e.secretKey # E!NoKey => e.secretKey.curve = e.algo
              /\ e.publicKey # E!NoKey => e.publicKey.curve = e.algo

EccKeysInv ==
    \A p \in Parties :
        /\ xPaired[p] => x[p].selfPublic = x[p].secret
        /\ computed[p] => x[p].sharedSecret = {x[p].secret, x[p].peerPublic}
        /\ edPaired[p] => ed[p].publicKey = ed[p].secretKey
        /\ OfCurve(ed[p])

\* A signature has the length of its key's curve.
SignatureInv ==
    /\ signature.length # 0 => signature.length = E!SignatureBytes(signature.key.curve)
    /\ verified.ret = "SUCCESS" => /\ verified.signature.key = verified.public
                                   /\ verified.signature.message = verified.message
    /\ verified.ret = "FAILED" => \/ verified.signature.length = 0
                                  \/ verified.signature.key # verified.public
                                  \/ verified.signature.message # verified.message

EccInv == EccType /\ EccKeysInv /\ SignatureInv

LEMMA NoSignatureKept ==
  ASSUME verified' = E!NotVerified, signature' = E!NoSignature
  PROVE  SignatureInv'
BY DEF SignatureInv, E!NotVerified, E!NoSignature

\* A call on an ECDH context that leaves it as c.
LEMMA SetXKeeps ==
  ASSUME EccInv, NEW p \in Parties, NEW c \in XContext, NEW matched \in BOOLEAN,
         E!SetX(p, c, matched), matched => c.selfPublic = c.secret, numbers' \in Nat
  PROVE  EccInv'
<1> USE DEF EccInv
<1>1. SignatureInv'
  BY NoSignatureKept DEF E!SetX
<1>2. EccType'
  BY DEF E!SetX, EccType
<1>3. EccKeysInv'
  BY DEF E!SetX, EccType, EccKeysInv
<1> QED
  BY <1>1, <1>2, <1>3

\* A call on a signing context that leaves it as c.
LEMMA SetEdKeeps ==
  ASSUME EccInv, NEW p \in Parties, NEW c \in EdContext, NEW matched \in BOOLEAN,
         E!SetEd(p, c, matched), matched => c.publicKey = c.secretKey, OfCurve(c), numbers' \in Nat
  PROVE  EccInv'
<1> USE DEF EccInv
<1>1. SignatureInv'
  BY DEF E!SetEd, SignatureInv, E!NotVerified
<1>2. EccType'
  BY DEF E!SetEd, EccType
<1>3. EccKeysInv'
  BY DEF E!SetEd, EccType, EccKeysInv
<1> QED
  BY <1>1, <1>2, <1>3

\* What the calls make of the contexts.
LEMMA XCalls ==
  ASSUME NEW c \in XContext, NEW k \in CurveKeys
  PROVE  /\ E!ECDHSetSecretKey(c, k) \in XContext
         /\ E!ECDHSetSelfPublicKey(c, k) \in XContext
         /\ LET d == E!ECDHSetPeerPublicKey(c, k)
            IN  d \in XContext /\ d.secret = c.secret /\ d.selfPublic = c.selfPublic
         /\ LET d == E!ECDHDerivePublicKey(c)
            IN  d \in XContext /\ (c.secret # E!NoKey => d.selfPublic = d.secret)
BY DEF XContext, E!ECDHSetSecretKey, E!ECDHSetSelfPublicKey, E!ECDHSetPeerPublicKey, E!ECDHDerivePublicKey

LEMMA XCreate ==
  ASSUME NEW c \in XContext, NEW n \in Nat \ {0}
  PROVE  LET d == E!ECDHCreateKeyPair(c, n) IN d \in XContext /\ d.selfPublic = d.secret
<1> DEFINE k == E!Key(c.algo, n)
           e == [c EXCEPT !.secret = k]
<1>1. k \in CurveKeys /\ k # E!NoKey
  BY DEF E!Key, E!NoKey, CurveKeys, XContext
<1> HIDE DEF k
<1>2. e \in XContext /\ e.secret = k
  BY <1>1 DEF XContext
<1>3. E!ECDHCreateKeyPair(c, n) = E!ECDHDerivePublicKey(e)
  BY DEF E!ECDHCreateKeyPair, k
<1> HIDE DEF e
<1> QED
  BY <1>1, <1>2, <1>3, XCalls

LEMMA EdCalls ==
  ASSUME NEW c \in EdContext, OfCurve(c), NEW k \in CurveKeys
  PROVE  /\ E!EDDSA_setSecretKey(c, k) \in EdContext /\ OfCurve(E!EDDSA_setSecretKey(c, k))
         /\ E!EDDSA_setPublicKey(c, k) \in EdContext /\ OfCurve(E!EDDSA_setPublicKey(c, k))
         /\ LET d == E!EDDSADerivePublicKey(c)
            IN  d \in EdContext /\ OfCurve(d) /\ (c.secretKey # E!NoKey => d.publicKey = d.secretKey)
<1>1. E!EDDSA_setSecretKey(c, k) \in EdContext /\ OfCurve(E!EDDSA_setSecretKey(c, k))
  BY DEF EdContext, OfCurve, E!EDDSA_setSecretKey
<1>2. E!EDDSA_setPublicKey(c, k) \in EdContext /\ OfCurve(E!EDDSA_setPublicKey(c, k))
  BY DEF EdContext, OfCurve, E!EDDSA_setPublicKey
<1>3. LET d == E!EDDSADerivePublicKey(c)
      IN  d \in EdContext /\ OfCurve(d) /\ (c.secretKey # E!NoKey => d.publicKey = d.secretKey)
  BY DEF EdContext, OfCurve, E!EDDSADerivePublicKey
<1> QED
  BY <1>1, <1>2, <1>3

LEMMA EdCreate ==
  ASSUME NEW c \in EdContext, OfCurve(c), NEW n \in Nat \ {0}
  PROVE  LET d == E!EDDSACreateKeyPair(c, n)
         IN  d \in EdContext /\ OfCurve(d) /\ d.publicKey = d.secretKey
<1> DEFINE k == E!Key(c.algo, n)
           e == [c EXCEPT !.secretKey = k]
<1>1. k \in CurveKeys /\ k # E!NoKey /\ k.curve = c.algo
  BY DEF E!Key, E!NoKey, CurveKeys, EdContext
<1> HIDE DEF k
<1>2. e \in EdContext /\ e.secretKey = k /\ OfCurve(e)
  BY <1>1 DEF EdContext, OfCurve
<1>3. E!EDDSACreateKeyPair(c, n) = E!EDDSADerivePublicKey(e)
  BY DEF E!EDDSACreateKeyPair, k
<1> HIDE DEF e
<1> QED
  BY <1>1, <1>2, <1>3, EdCalls

\* What a context is once it is made, or no longer there.
LEMMA NewContexts ==
  /\ E!NoX \in XContext /\ E!NoEd \in EdContext /\ OfCurve(E!NoEd)
  /\ \A algo \in E!Curves :
        /\ [E!NoX EXCEPT !.live = TRUE, !.algo = algo] \in XContext
        /\ [E!NoEd EXCEPT !.live = TRUE, !.algo = algo] \in EdContext
        /\ OfCurve([E!NoEd EXCEPT !.live = TRUE, !.algo = algo])
<1>1. E!NoX \in XContext /\ E!NoEd \in EdContext /\ OfCurve(E!NoEd)
  BY DEF E!NoX, E!NoEd, E!NoKey, XContext, EdContext, CurveKeys, OfCurve
<1>2. ASSUME NEW algo \in E!Curves, NEW c \in XContext, NEW b \in BOOLEAN
      PROVE  [c EXCEPT !.live = b, !.algo = algo] \in XContext
  <2>0. [c EXCEPT !.live = b] \in XContext
    BY DEF XContext
  <2>1. PICK d \in XContext : d = [c EXCEPT !.live = b]
    BY <2>0
  <2>2. [d EXCEPT !.algo = algo] \in XContext
    BY DEF E!Curves, XContext
  <2> QED
    BY <2>1, <2>2
<1>3. ASSUME NEW algo \in E!Curves, NEW e \in EdContext, NEW b \in BOOLEAN,
             e.secretKey = E!NoKey, e.publicKey = E!NoKey
      PROVE  /\ [e EXCEPT !.live = b, !.algo = algo] \in EdContext
             /\ OfCurve([e EXCEPT !.live = b, !.algo = algo])
  <2>0. [e EXCEPT !.live = b] \in EdContext
    BY DEF EdContext
  <2>1. PICK d \in EdContext : d = [e EXCEPT !.live = b]
    BY <2>0
  <2>2. d.secretKey = E!NoKey /\ d.publicKey = E!NoKey
    BY <1>3, <2>1 DEF EdContext
  <2>3. [d EXCEPT !.algo = algo] \in EdContext /\ OfCurve([d EXCEPT !.algo = algo])
    BY <2>2 DEF E!Curves, EdContext, OfCurve
  <2> QED
    BY <2>1, <2>3
<1>4. E!NoEd.secretKey = E!NoKey /\ E!NoEd.publicKey = E!NoKey
  BY DEF E!NoEd
<1> QED
  BY <1>1, <1>2, <1>3, <1>4, TRUE \in BOOLEAN, Zenon

LEMMA ContextsKeeps ==
  ASSUME EccInv, NEW p \in Parties, E!Contexts(p)
  PROVE  EccInv'
<1> USE DEF EccInv
<1>1. PICK c \in XContext, d \in EdContext :
        /\ x' = [x EXCEPT ![p] = c] /\ ed' = [ed EXCEPT ![p] = d] /\ OfCurve(d)
  <2>3. CASE E!bctbx_DestroyECDHContext(p) /\ E!bctbx_DestroyEDDSAContext(p)
    BY NewContexts, <2>3 DEF E!bctbx_DestroyECDHContext, E!bctbx_DestroyEDDSAContext
  <2>4. CASE /\ \E algo \in XAlgos : E!bctbx_CreateECDHContext(p, algo)
             /\ \E algo \in EdAlgos : E!bctbx_CreateEDDSAContext(p, algo)
    <3>1. PICK a, b : E!bctbx_CreateECDHContext(p, a) /\ E!bctbx_CreateEDDSAContext(p, b)
      BY <2>4
    <3>2. \E c \in XContext : x' = [x EXCEPT ![p] = c]
      BY NewContexts, <3>1 DEF E!bctbx_CreateECDHContext
    <3>3. \E d \in EdContext : ed' = [ed EXCEPT ![p] = d] /\ OfCurve(d)
      BY NewContexts, <3>1 DEF E!bctbx_CreateEDDSAContext
    <3> QED
      BY <3>2, <3>3
  <2> QED
    BY <2>3, <2>4 DEF E!Contexts
<1>2. SignatureInv'
  BY NoSignatureKept DEF E!Contexts
<1>3. EccType'
  BY <1>1 DEF E!Contexts, EccType
<1>4. EccKeysInv'
  BY <1>1 DEF E!Contexts, EccType, EccKeysInv
<1> QED
  BY <1>2, <1>3, <1>4

LEMMA NewKeyKeeps ==
  ASSUME EccInv, NEW p \in Parties, E!NewKey(p)
  PROVE  EccInv'
<1> USE DEF EccInv
<1>0. /\ x[p] \in XContext /\ ed[p] \in EdContext /\ OfCurve(ed[p])
      /\ numbers' \in Nat \ {0}
      /\ \A c \in E!Curves : E!Key(c, numbers') \in CurveKeys
  BY DEF EccType, EccKeysInv, E!NewKey, E!Key, E!Curves, CurveKeys
<1>1. CASE E!SetX(p, E!ECDHCreateKeyPair(x[p], numbers'), TRUE)
  BY <1>0, <1>1, XCreate, SetXKeeps
<1>2. ASSUME NEW c \in E!Curves, E!SetX(p, E!ECDHSetSecretKey(x[p], E!Key(c, numbers')), FALSE)
      PROVE  EccInv'
  BY <1>0, <1>2, XCalls, SetXKeeps
<1>3. CASE E!SetEd(p, E!EDDSACreateKeyPair(ed[p], numbers'), TRUE)
  BY <1>0, <1>3, EdCreate, SetEdKeeps
<1>4. ASSUME NEW c \in E!Curves, E!SetEd(p, E!EDDSA_setSecretKey(ed[p], E!Key(c, numbers')), FALSE)
      PROVE  EccInv'
  BY <1>0, <1>4, EdCalls, SetEdKeeps
<1> QED
  BY <1>1, <1>2, <1>3, <1>4 DEF E!NewKey

LEMMA ReceiveKeyKeeps ==
  ASSUME EccInv, NEW p \in Parties, E!ReceiveKey(p)
  PROVE  EccInv'
<1> USE DEF EccInv
<1> DEFINE k == x[E!Other(p)].selfPublic
           e == ed[E!Other(p)].publicKey
<1>0. /\ x[p] \in XContext /\ ed[p] \in EdContext /\ OfCurve(ed[p]) /\ k \in CurveKeys /\ e \in CurveKeys
      /\ xPaired[p] \in BOOLEAN /\ (xPaired[p] => x[p].selfPublic = x[p].secret) /\ numbers' \in Nat
  BY DEF EccType, EccKeysInv, E!ReceiveKey, E!Other, Parties, XContext, EdContext
<1>1. CASE E!SetX(p, E!ECDHSetPeerPublicKey(x[p], k), xPaired[p])
  <2> HIDE DEF k
  <2> QED
    BY <1>0, <1>1, XCalls, SetXKeeps
<1>2. CASE E!SetX(p, E!ECDHSetSelfPublicKey(x[p], k), FALSE)
  <2> HIDE DEF k
  <2> QED
    BY <1>0, <1>2, XCalls, SetXKeeps
<1>3. CASE E!SetEd(p, E!EDDSA_setPublicKey(ed[p], e), FALSE)
  <2> HIDE DEF e
  <2> QED
    BY <1>0, <1>3, EdCalls, SetEdKeeps
<1> QED
  BY <1>1, <1>2, <1>3 DEF E!ReceiveKey

LEMMA DeriveKeeps ==
  ASSUME EccInv, NEW p \in Parties, E!Derive(p)
  PROVE  EccInv'
<1> USE DEF EccInv
<1>0. /\ x[p] \in XContext /\ ed[p] \in EdContext /\ OfCurve(ed[p]) /\ numbers' \in Nat
      /\ E!NoKey \in CurveKeys
  BY DEF EccType, EccKeysInv, E!Derive, E!NoKey, CurveKeys
<1>1. CASE x[p].secret # E!NoKey /\ E!SetX(p, E!ECDHDerivePublicKey(x[p]), TRUE)
  BY <1>0, <1>1, XCalls, SetXKeeps
<1>2. CASE ed[p].secretKey # E!NoKey /\ E!SetEd(p, E!EDDSADerivePublicKey(ed[p]), TRUE)
  BY <1>0, <1>2, EdCalls, SetEdKeeps
<1> QED
  BY <1>1, <1>2 DEF E!Derive

\* Keys of one curve change between the two contexts of a party.
LEMMA ConvertKeeps ==
  ASSUME EccInv, NEW p \in Parties, E!Convert(p)
  PROVE  EccInv'
<1> USE DEF EccInv
<1> DEFINE private == E!EDDSA_ECDH_privateKeyConversion(ed[p], x[p])
           self == E!EDDSA_ECDH_publicKeyConversion(ed[p], x[p], TRUE)
           peer == E!EDDSA_ECDH_publicKeyConversion(ed[p], x[p], FALSE)
           whole == edPaired[p] /\ x[p].secret = ed[p].secretKey
<1>0. /\ x[p] \in XContext /\ ed[p] \in EdContext /\ numbers' \in Nat
      /\ xPaired[p] \in BOOLEAN /\ (xPaired[p] => x[p].selfPublic = x[p].secret)
      /\ edPaired[p] \in BOOLEAN /\ (edPaired[p] => ed[p].publicKey = ed[p].secretKey)
  BY DEF EccType, EccKeysInv, E!Convert
<1>1. CASE E!SetX(p, private, FALSE)
  <2>1. private \in XContext
    BY <1>0 DEF E!EDDSA_ECDH_privateKeyConversion, XContext, EdContext
  <2> HIDE DEF private
  <2> QED
    BY <1>0, <1>1, <2>1, SetXKeeps
<1>2. CASE E!SetX(p, self, whole)
  <2>1. self \in XContext /\ (self = x[p] \/ (whole => self.selfPublic = self.secret)) /\ whole \in BOOLEAN
    BY <1>0 DEF E!EDDSA_ECDH_publicKeyConversion, XContext, EdContext
  <2>2. CASE self = x[p]
    <3>1. E!SetX(p, x[p], FALSE)
      BY <1>2, <2>2 DEF E!SetX
    <3> QED
      BY <1>0, <3>1, SetXKeeps
  <2>3. CASE whole => self.selfPublic = self.secret
    <3> HIDE DEF self, whole
    <3> QED
      BY <1>0, <1>2, <2>1, <2>3, SetXKeeps
  <2> QED
    BY <2>1, <2>2, <2>3
<1>3. CASE E!SetX(p, peer, xPaired[p])
  <2>1. peer \in XContext /\ peer.secret = x[p].secret /\ peer.selfPublic = x[p].selfPublic
    BY <1>0 DEF E!EDDSA_ECDH_publicKeyConversion, XContext, EdContext
  <2> HIDE DEF peer
  <2> QED
    BY <1>0, <1>3, <2>1, SetXKeeps
<1> QED
  BY <1>1, <1>2, <1>3 DEF E!Convert

LEMMA ComputeKeeps ==
  ASSUME EccInv, NEW p \in Parties, E!Compute(p)
  PROVE  EccInv'
<1> USE DEF EccInv
<1>1. PICK ok \in BOOLEAN :
        /\ x' = [x EXCEPT ![p] = E!ECDHComputeSecret(x[p], ok)]
        /\ computed' = [computed EXCEPT ![p] = x[p].secret # E!NoKey /\ x[p].peerPublic # E!NoKey /\ ok]
  BY DEF E!Compute, EccType
<1> DEFINE c == E!ECDHComputeSecret(x[p], ok)
<1>2. /\ c \in XContext /\ c.secret = x[p].secret /\ c.selfPublic = x[p].selfPublic
      /\ c.peerPublic = x[p].peerPublic
      /\ x[p].secret # E!NoKey /\ x[p].peerPublic # E!NoKey /\ ok
            => c.sharedSecret = {x[p].secret, x[p].peerPublic}
  BY DEF E!ECDHComputeSecret, XContext, EccType
<1> HIDE DEF c
<1>3. SignatureInv'
  BY NoSignatureKept DEF E!Compute
<1>4. EccType'
  BY <1>1, <1>2 DEF E!Compute, EccType, c
<1>5. EccKeysInv'
  BY <1>1, <1>2 DEF E!Compute, EccType, EccKeysInv, c
<1> QED
  BY <1>3, <1>4, <1>5

LEMMA SignKeeps ==
  ASSUME EccInv, NEW p \in Parties, E!Sign(p)
  PROVE  EccInv'
<1> USE DEF EccInv
<1>1. /\ signature'.length # 0 => signature'.length = E!SignatureBytes(signature'.key.curve)
      /\ verified' = E!NotVerified
  BY DEF E!Sign, E!EDDSA_sign, E!NoSignature, E!SignatureBytes, EccType, EccKeysInv, OfCurve, EdContext
<1>2. SignatureInv'
  BY <1>1 DEF SignatureInv, E!NotVerified
<1> QED
  BY <1>2 DEF E!Sign, EccType, EccKeysInv

LEMMA VerifyKeeps ==
  ASSUME EccInv, NEW p \in Parties, E!Verify(p)
  PROVE  EccInv'
<1> USE DEF EccInv
<1>1. ed[p].publicKey.curve = ed[p].algo
  BY DEF E!Verify, EccKeysInv, OfCurve
<1>2. SignatureInv'
  BY <1>1 DEF SignatureInv, E!Verify, E!EDDSA_verify
<1> QED
  BY <1>2 DEF E!Verify, EccType, EccKeysInv

LEMMA EccInductive == EccInv /\ [Next]_vars => EccInv'
<1> SUFFICES ASSUME EccInv, [Next]_vars PROVE EccInv'
  OBVIOUS
<1>1. CASE E!Next
  BY <1>1, ContextsKeeps, NewKeyKeeps, ReceiveKeyKeeps, DeriveKeeps, ConvertKeeps, ComputeKeeps,
     SignKeeps, VerifyKeeps
     DEF E!Next, E!Party, Parties
<1>2. CASE UNCHANGED eccVars
  BY <1>2 DEF eccVars, EccInv, EccType, EccKeysInv, SignatureInv
<1> QED
  BY <1>1, <1>2 DEF Next, vars

\* ecc.cc, with any curves and any number of keys: however keys were generated,
\* set, derived and converted, parties that computed a secret with each other's
\* public keys have the same one, and a signature verifies exactly with the
\* public key of its signer for its message.
THEOREM CurveKeysHold == Spec => []CurveKeysAgree
<1>1. Init => EccInv
  BY DEF Init, E!Init, EccInv, EccType, EccKeysInv, SignatureInv, OfCurve, E!Party, Parties,
         E!NoEd, E!NoX, E!NoKey, E!NoSignature, E!NotVerified, XContext, EdContext, CurveKeys
<1>2. EccInv => CurveKeysAgree
  BY SMTT(30) DEF EccInv, EccType, EccKeysInv, SignatureInv, CurveKeysAgree, E!Party, Parties
<1> QED
  BY <1>1, <1>2, EccInductive, PTL DEF Spec

-----------------------------------------------------------------------------
(* Flags of a verification callback (mbedtls.c).                           *)

\* The flags of the library are the images of those that were asked for.
FlagsInv ==
    /\ wanted \subseteq DOMAIN M!LibraryBit
    /\ flags = {M!LibraryBit[b] : b \in wanted}

\* The two numberings are one to one.
LEMMA LibraryBitInjective ==
  \A a, b \in DOMAIN M!LibraryBit : M!LibraryBit[a] = M!LibraryBit[b] => a = b
BY DEF M!LibraryBit

LEMMA FlagsInductive == FlagsInv /\ [Next]_vars => FlagsInv'
<1> SUFFICES ASSUME FlagsInv, [Next]_vars PROVE FlagsInv'
  OBVIOUS
<1> DEFINE B == DOMAIN M!LibraryBit
           bit(b) == M!LibraryBit[b]
<1>0. \A a, b \in B : bit(a) = bit(b) => a = b
  BY LibraryBitInjective
<1>1. CASE M!bctbx_x509_certificate_set_flag
  <2>1. PICK bits : /\ flags' = flags \cup {bit(b) : b \in bits \cap B}
                    /\ wanted' = wanted \cup (bits \cap B)
    BY <1>1 DEF M!bctbx_x509_certificate_set_flag
  <2> HIDE DEF B, bit
  <2>2. wanted' \subseteq B /\ flags' = {bit(b) : b \in wanted'}
    BY <2>1 DEF FlagsInv, B, bit
  <2> QED
    BY <2>2 DEF FlagsInv, B, bit
<1>2. CASE M!bctbx_x509_certificate_unset_flag
  <2>1. PICK bits : /\ flags' = flags \ {bit(b) : b \in bits \cap B}
                    /\ wanted' = wanted \ bits
    BY <1>2 DEF M!bctbx_x509_certificate_unset_flag
  <2>2. wanted \subseteq B /\ flags = {bit(b) : b \in wanted}
    BY DEF FlagsInv
  <2> HIDE DEF B, bit
  <2>3. wanted' \subseteq B /\ flags' = {bit(b) : b \in wanted'}
    BY <1>0, <2>1, <2>2
  <2> QED
    BY <2>3 DEF FlagsInv, B, bit
<1>3. CASE UNCHANGED <<flags, wanted>>
  BY <1>3 DEF FlagsInv
<1> QED
  BY <1>1, <1>2, <1>3
     DEF Next, vars, certVars, Certificates, M!Next, M!bctbx_signing_key_new, M!bctbx_signing_key_free,
         M!bctbx_signing_key_parse, M!bctbx_x509_certificate_new, M!bctbx_x509_certificate_free,
         M!bctbx_x509_certificate_parse, M!bctbx_x509_certificate_parse_path,
         M!bctbx_x509_certificate_generate_selfsigned

\* bctbx_x509_certificate_set_flag and unset_flag, with any sets of flags: the
\* callback reads back those it set and did not clear.
THEOREM FlagsHold == Spec => []FlagsFollow
<1>1. Init => FlagsInv
  BY DEF Init, M!Init, FlagsInv
<1>2. FlagsInv => FlagsFollow
  BY LibraryBitInjective DEF FlagsInv, FlagsFollow, M!bctbx_x509_certificate_remap_flag
<1> QED
  BY <1>1, <1>2, FlagsInductive, PTL DEF Spec

-----------------------------------------------------------------------------
(* Keys and certificates (mbedtls.c, openssl.c).                           *)

\* Certificates of the texts, and those that are generated.
Certs == Block \cup {[key |-> k, cn |-> "cn", alt |-> <<>>, hash |-> h] : k \in Nat, h \in {"SHA-1", "SHA-256"}}

\* The loop over the blocks of a text gives certificates of it.
LEMMA GoodType ==
  ASSUME NEW text \in Seq(Certs)
  PROVE  M!Good(text) \in Seq(Certs)
<1> DEFINE N == Len(text)
           V == Seq(Certs)
           Step(i, w) == IF text[i].key = 0 THEN w ELSE Append(w, text[i])
           h == [iw \in (1..N) \X V |-> Step(iw[1], iw[2])]
           Rec(f) == [i \in 0..N |-> IF i = 0 THEN <<>>
                                   ELSE IF text[i].key = 0 THEN f[i - 1] ELSE Append(f[i - 1], text[i])]
           good == CHOOSE f : f = Rec(f)
<1>1. N \in Nat /\ <<>> \in V /\ \A i \in 1..N, w \in V : Step(i, w) \in V
  OBVIOUS
<1>2. h \in [(1..N) \X V -> V]
  <2> HIDE DEF V, Step, N
  <2> QED
    BY <1>1
<1>3. PICK g \in [0..N -> V] : g[0] = <<>> /\ \A i \in 1..N : g[i] = h[<<i, g[i - 1]>>]
  <2> HIDE DEF V, h, N
  <2>1. N \in Nat /\ <<>> \in V /\ h \in Steps(N, V)
    BY <1>1, <1>2 DEF Steps
  <2>2. \E g : Loop(g, N, V, <<>>, h)
    BY <2>1, Iterates
  <2> QED
    BY <2>2 DEF Loop
<1>4. \A i \in 1..N : g[i] = Step(i, g[i - 1])
  <2> HIDE DEF V, Step, N
  <2>1. ASSUME NEW i \in 1..N PROVE g[i] = Step(i, g[i - 1])
    <3> HIDE DEF h
    <3>1. g[i - 1] \in V /\ g[i] = h[<<i, g[i - 1]>>]
      <4>1. i - 1 \in 0..N
        BY <1>1
      <4> QED
        BY <1>3, <4>1
    <3>2. h[<<i, g[i - 1]>>] = Step(i, g[i - 1])
      BY <3>1 DEF h
    <3> QED
      BY <3>1, <3>2
  <2> QED
    BY <2>1
<1>5. g = Rec(g)
  <2> HIDE DEF V, N
  <2>1. \A i \in 0..N : g[i] = Rec(g)[i]
    BY <1>1, <1>3, <1>4, SMTT(30)
  <2>2. Rec(g) = [i \in 0..N |-> Rec(g)[i]] /\ g = [i \in 0..N |-> g[i]]
    BY <1>3
  <2> QED
    BY <2>1, <2>2
<1>6. good = Rec(good)
  <2> HIDE DEF Rec
  <2> QED
    BY <1>5
<1>7. M!Good(text) = good[N]
  BY DEF M!Good
<1> HIDE DEF good
<1>8. ASSUME NEW i \in 0..N PROVE good[i] \in V
  <2> DEFINE T == {j \in 0..N : good[j] \notin V}
  <2>1. SUFFICES ASSUME T # {} PROVE FALSE
    OBVIOUS
  <2>2. PICK n \in T : \A m \in T : n <= m
    <3>1. T \subseteq Nat
      OBVIOUS
    <3> HIDE DEF T
    <3> QED
      BY <2>1, <3>1, LeastNumber
  <2>3. good[n] = IF n = 0 THEN <<>> ELSE Step(n, good[n - 1])
    <3>1. good[n] = Rec(good)[n]
      BY <1>6
    <3> QED
      BY <2>2, <3>1
  <2>4. ASSUME n # 0 PROVE good[n - 1] \in V /\ n \in 1..N
    <3> HIDE DEF V, Step, N, T
    <3>1. T \subseteq 0..N /\ n \in T
      BY <2>2 DEF T
    <3>2. n \in 1..N /\ n - 1 \in 0..N /\ ~(n <= n - 1)
      BY <1>1, <2>4, <3>1
    <3>3. n - 1 \notin T
      BY <2>2, <3>2
    <3> QED
      BY <3>2, <3>3 DEF T
  <2> HIDE DEF V, Step
  <2> QED
    BY <1>1, <2>2, <2>3, <2>4
<1> QED
  BY <1>1, <1>7, <1>8

CertType ==
    /\ crt \in [live : BOOLEAN, chain : Seq(Certs)]
    /\ pkey \in [live : BOOLEAN, key : Nat]
    /\ keys \in Nat /\ paired \in BOOLEAN
    /\ loaded \in Seq(Certs)

\* A generation leaves a key that is not 0 and its certificate at the front.
PairInv ==
    /\ paired => /\ crt.live /\ pkey.live /\ pkey.key # 0
                 /\ crt.chain # <<>> /\ crt.chain[1].key = pkey.key
    /\ pem # <<>> => \E k \in Nat \ {0}, c \in Certs : c.key = k /\ pem = <<k, <<c>>>>

\* The certificates of l are in the chain c, in their order.
Embedded(l, c) ==
    \E at \in [DOMAIN l -> DOMAIN c] :
        \A i, j \in DOMAIN l : c[at[i]] = l[i] /\ (i < j => at[i] < at[j])

CertInv == CertType /\ PairInv /\ Embedded(loaded, crt.chain)

\* Certificates that are added, and accepted or not, leave the others in place.
LEMMA EmbeddedMore ==
  ASSUME NEW l \in Seq(Certs), NEW c \in Seq(Certs), Embedded(l, c), NEW add \in Seq(Certs)
  PROVE  Embedded(l, c \o add) /\ Embedded(l \o add, c \o add)
<1>1. PICK at \in [DOMAIN l -> DOMAIN c] :
        \A i, j \in DOMAIN l : c[at[i]] = l[i] /\ (i < j => at[i] < at[j])
  BY DEF Embedded
<1> DEFINE more == [i \in DOMAIN (l \o add) |-> IF i <= Len(l) THEN at[i] ELSE Len(c) + (i - Len(l))]
<1>2. /\ DOMAIN c = 1..Len(c) /\ DOMAIN l = 1..Len(l) /\ DOMAIN add = 1..Len(add)
      /\ Len(c) \in Nat /\ Len(l) \in Nat /\ Len(add) \in Nat
      /\ DOMAIN (c \o add) = 1..(Len(c) + Len(add)) /\ DOMAIN (l \o add) = 1..(Len(l) + Len(add))
      /\ \A i \in 1..(Len(c) + Len(add)) : (c \o add)[i] = IF i <= Len(c) THEN c[i] ELSE add[i - Len(c)]
      /\ \A i \in 1..(Len(l) + Len(add)) : (l \o add)[i] = IF i <= Len(l) THEN l[i] ELSE add[i - Len(l)]
  OBVIOUS
<1>3. Embedded(l, c \o add)
  <2>1. at \in [DOMAIN l -> DOMAIN (c \o add)]
    BY <1>1, <1>2
  <2>2. \A i, j \in DOMAIN l : (c \o add)[at[i]] = l[i] /\ (i < j => at[i] < at[j])
    BY <1>1, <1>2
  <2> QED
    BY <2>1, <2>2 DEF Embedded
<1>4. Embedded(l \o add, c \o add)
  <2>0. \A i \in DOMAIN l : at[i] \in 1..Len(c)
    BY <1>1, <1>2
  <2>1. more \in [DOMAIN (l \o add) -> DOMAIN (c \o add)]
    BY <1>2, <2>0
  <2>2. ASSUME NEW i \in DOMAIN (l \o add), NEW j \in DOMAIN (l \o add)
        PROVE  (c \o add)[more[i]] = (l \o add)[i] /\ (i < j => more[i] < more[j])
    <3>1. more[i] = (IF i <= Len(l) THEN at[i] ELSE Len(c) + (i - Len(l)))
          /\ more[j] = (IF j <= Len(l) THEN at[j] ELSE Len(c) + (j - Len(l)))
      OBVIOUS
    <3>2. more[i] \in 1..(Len(c) + Len(add))
      BY <1>2, <2>1
    <3> HIDE DEF more
    <3> QED
      BY <1>1, <1>2, <2>0, <3>1, <3>2, SMTT(30)
  <2> HIDE DEF more
  <2> QED
    BY <2>1, <2>2 DEF Embedded
<1> QED
  BY <1>3, <1>4

LEMMA EmbeddedNone ==
  ASSUME NEW c \in Seq(Certs)
  PROVE  Embedded(<<>>, c)
<1> DEFINE at == [i \in {} |-> 0]
<1>1. at \in [DOMAIN <<>> -> DOMAIN c]
  OBVIOUS
<1> QED
  BY <1>1 DEF Embedded

\* Texts and the files of a directory, and what is in the buffer.
LEMMA TextType ==
  ASSUME CertInv
  PROVE  /\ \A text \in Texts \cup (IF pem = <<>> THEN {} ELSE {pem[2]}) : text \in Seq(Certs)
         /\ \A d \in Directories : d[1] \in Seq(Certs) /\ d[2] \in Seq(Certs)
<1>1. \A text \in Seq(Block) : text \in Seq(Certs)
  BY DEF Certs
<1>2. \A text \in Texts : text \in Seq(Certs)
  BY <1>1, CryptoAssumption
<1>3. pem # <<>> => pem[2] \in Seq(Certs)
  BY DEF CertInv, PairInv
<1>4. \A d \in Directories : d[1] \in Seq(Certs) /\ d[2] \in Seq(Certs)
  BY <1>1, CryptoAssumption
<1> QED
  BY <1>2, <1>3, <1>4

\* Certificates are added to the chain, and counted as loaded or not.
LEMMA AddsKeep ==
  ASSUME CertInv, crt.live, NEW add \in Seq(Certs),
         crt' = [crt EXCEPT !.chain = crt.chain \o add],
         loaded' = loaded \/ loaded' = loaded \o add,
         UNCHANGED <<pkey, pem, keys, paired>>
  PROVE  CertInv'
<1> USE DEF CertInv
<1>1. /\ crt.chain \in Seq(Certs) /\ loaded \in Seq(Certs)
      /\ crt'.chain = crt.chain \o add /\ crt'.live = crt.live
  BY DEF CertType
<1>2. CertType'
  <2>1. crt.chain \o add \in Seq(Certs) /\ loaded \o add \in Seq(Certs)
    BY <1>1
  <2>2. loaded' \in Seq(Certs)
    BY <1>1, <2>1
  <2>3. crt' \in [live : BOOLEAN, chain : Seq(Certs)]
    BY <2>1 DEF CertType
  <2> QED
    BY <2>2, <2>3 DEF CertType
<1>3. PairInv'
  <2>1. crt.chain # <<>> => crt'.chain # <<>> /\ crt'.chain[1] = crt.chain[1]
    BY <1>1
  <2> QED
    BY <1>1, <2>1 DEF PairInv
<1>4. Embedded(loaded', crt'.chain)
  BY <1>1, EmbeddedMore
<1> QED
  BY <1>2, <1>3, <1>4

\* A call that changes the key object and no certificate.
LEMMA KeyKeeps ==
  ASSUME CertInv, pkey' \in [live : BOOLEAN, key : Nat], keys' \in Nat, UNCHANGED <<crt, pem, loaded>>,
         paired' = FALSE \/ (paired' = paired /\ (pkey' = pkey \/ ~paired))
  PROVE  CertInv'
<1> USE DEF CertInv
<1>1. CertType'
  BY DEF CertType
<1>2. PairInv'
  BY DEF PairInv, CertType
<1>3. Embedded(loaded', crt'.chain)
  OBVIOUS
<1> QED
  BY <1>1, <1>2, <1>3

\* A key is generated and the text is written, and no certificate is made.
LEMMA TextKeeps ==
  ASSUME CertInv, ~paired, NEW c \in Certs, c.key = keys + 1, keys' = keys + 1,
         pkey' \in [live : BOOLEAN, key : Nat], UNCHANGED <<crt, loaded, paired>>,
         pem' = pem \/ pem' = <<keys + 1, <<c>>>>
  PROVE  CertInv'
<1> USE DEF CertInv
<1>1. keys + 1 \in Nat \ {0}
  BY DEF CertType
<1>2. CertType'
  BY <1>1 DEF CertType
<1>3. PairInv'
  BY <1>1 DEF PairInv, CertType
<1>4. Embedded(loaded', crt'.chain)
  OBVIOUS
<1> QED
  BY <1>2, <1>3, <1>4

\* A certificate object is made, or freed.
LEMMA EmptyKeeps ==
  ASSUME CertInv, NEW live \in BOOLEAN, crt' = [live |-> live, chain |-> <<>>], loaded' = <<>>,
         paired' = FALSE \/ (paired' = paired /\ ~paired), UNCHANGED <<pkey, pem, keys>>
  PROVE  CertInv'
<1> USE DEF CertInv
<1>0. <<>> \in Seq(Certs)
  OBVIOUS
<1>1. CertType' /\ crt'.chain = <<>>
  <2>1. crt' \in [live : BOOLEAN, chain : Seq(Certs)] /\ crt'.chain = <<>>
    BY <1>0
  <2>2. loaded' \in Seq(Certs)
    BY <1>0
  <2>3. paired' \in BOOLEAN /\ pkey' \in [live : BOOLEAN, key : Nat] /\ keys' \in Nat
    BY DEF CertType
  <2> QED
    BY <2>1, <2>2, <2>3 DEF CertType
<1>2. PairInv'
  BY DEF PairInv
<1>3. Embedded(loaded', crt'.chain)
  BY <1>1, EmbeddedNone DEF CertType
<1> QED
  BY <1>1, <1>2, <1>3

\* A certificate is generated with its key, and its text written or not.
LEMMA GeneratedKeeps ==
  ASSUME CertInv, crt.live, crt.chain = <<>>, pkey.live, NEW c \in Certs, c.key = keys + 1,
         crt' = [crt EXCEPT !.chain = <<c>>], pkey' = [pkey EXCEPT !.key = keys + 1], keys' = keys + 1,
         paired' = TRUE, pem' = pem \/ pem' = <<keys + 1, <<c>>>>, loaded' = loaded
  PROVE  CertInv'
<1> USE DEF CertInv
<1>0. keys + 1 \in Nat \ {0}
  BY DEF CertType
<1>1. loaded = <<>>
  <2>1. loaded \in Seq(Certs) /\ Embedded(loaded, <<>>)
    BY DEF CertType
  <2> QED
    BY <2>1 DEF Embedded
<1>2. /\ crt' \in [live : BOOLEAN, chain : Seq(Certs)] /\ crt'.chain = <<c>> /\ crt'.live
      /\ pkey' \in [live : BOOLEAN, key : Nat] /\ pkey'.live /\ pkey'.key = keys + 1
  <2>1. <<c>> \in Seq(Certs)
    OBVIOUS
  <2>2. crt' \in [live : BOOLEAN, chain : Seq(Certs)] /\ crt'.chain = <<c>> /\ crt'.live
    BY <2>1 DEF CertType
  <2>3. pkey' \in [live : BOOLEAN, key : Nat] /\ pkey'.live /\ pkey'.key = keys + 1
    BY <1>0 DEF CertType
  <2> QED
    BY <2>2, <2>3
<1>3. CertType'
  <2>1. loaded' \in Seq(Certs)
    BY DEF CertType
  <2> QED
    BY <1>0, <1>2, <2>1 DEF CertType
<1>4. PairInv'
  BY <1>0, <1>2 DEF PairInv
<1>5. Embedded(loaded', crt'.chain)
  BY <1>1, <1>2, EmbeddedNone
<1> QED
  BY <1>3, <1>4, <1>5

LEMMA CertMbedtlsStep ==
  ASSUME CertInv, M!Next
  PROVE  CertInv'
<1> USE DEF CertInv
<1>0. /\ crt.chain \in Seq(Certs) /\ pkey \in [live : BOOLEAN, key : Nat] /\ keys \in Nat /\ keys + 1 \in Nat
      /\ paired \in BOOLEAN
  BY DEF CertType
<1>1. CASE M!bctbx_signing_key_new
  <2>1. pkey' \in [live : BOOLEAN, key : Nat] /\ ~paired
    BY <1>1 DEF M!bctbx_signing_key_new, PairInv
  <2> QED
    BY <1>0, <1>1, <2>1, KeyKeeps DEF M!bctbx_signing_key_new
<1>2. CASE M!bctbx_signing_key_free
  <2>1. pkey' \in [live : BOOLEAN, key : Nat]
    BY <1>2 DEF M!bctbx_signing_key_free
  <2> QED
    BY <1>0, <1>2, <2>1, KeyKeeps DEF M!bctbx_signing_key_free
<1>3. CASE M!bctbx_signing_key_parse
  <2>1. pkey' \in [live : BOOLEAN, key : Nat] /\ ~paired
    BY <1>0, <1>3 DEF M!bctbx_signing_key_parse, PairInv
  <2> QED
    BY <1>0, <1>3, <2>1, KeyKeeps DEF M!bctbx_signing_key_parse
<1>4. CASE M!bctbx_x509_certificate_new
  <2>1. ~paired
    BY <1>4 DEF M!bctbx_x509_certificate_new, PairInv
  <2> QED
    BY <1>4, <2>1, TRUE \in BOOLEAN, EmptyKeeps DEF M!bctbx_x509_certificate_new
<1>5. CASE M!bctbx_x509_certificate_free
  BY <1>5, FALSE \in BOOLEAN, EmptyKeeps DEF M!bctbx_x509_certificate_free
<1>6. CASE M!bctbx_x509_certificate_parse
  <2>1. PICK text \in Texts \cup (IF pem = <<>> THEN {} ELSE {pem[2]}) :
           /\ crt' = [crt EXCEPT !.chain = crt.chain \o M!Good(text)]
           /\ loaded' = IF M!Good(text) = text THEN loaded \o text ELSE loaded
    BY <1>6 DEF M!bctbx_x509_certificate_parse, M!CrtParse
  <2>2. M!Good(text) \in Seq(Certs)
    BY TextType, GoodType
  <2> QED
    BY <1>6, <2>1, <2>2, AddsKeep DEF M!bctbx_x509_certificate_parse
<1>7. CASE M!bctbx_x509_certificate_parse_path
  <2>1. PICK d \in Directories :
           /\ crt' = [crt EXCEPT !.chain = crt.chain \o M!Good(d[1]) \o M!Good(d[2])]
           /\ loaded' = IF M!Good(d[1]) = d[1] /\ M!Good(d[2]) = d[2]
                        THEN loaded \o d[1] \o d[2] ELSE loaded
    BY <1>7 DEF M!bctbx_x509_certificate_parse_path
  <2>2. /\ d[1] \in Seq(Certs) /\ d[2] \in Seq(Certs) /\ loaded \in Seq(Certs)
        /\ M!Good(d[1]) \in Seq(Certs) /\ M!Good(d[2]) \in Seq(Certs)
    BY TextType, GoodType DEF CertType
  <2>3. \A a, b, c \in Seq(Certs) : a \o b \o c = a \o (b \o c) /\ b \o c \in Seq(Certs)
    BY ConcatAssociative, ConcatProperties
  <2> DEFINE add == M!Good(d[1]) \o M!Good(d[2])
  <2>4. add \in Seq(Certs) /\ crt' = [crt EXCEPT !.chain = crt.chain \o add]
        /\ (loaded' = loaded \/ loaded' = loaded \o add)
    <3>1. add \in Seq(Certs)
      BY <2>2, <2>3
    <3>2. crt.chain \o M!Good(d[1]) \o M!Good(d[2]) = crt.chain \o add
      BY <1>0, <2>2, <2>3, ZenonT(40)
    <3>3. CASE M!Good(d[1]) = d[1] /\ M!Good(d[2]) = d[2]
      <4>1. loaded \o d[1] \o d[2] = loaded \o (d[1] \o d[2])
        <5>1. PICK u \in Seq(Certs), w \in Seq(Certs), l \in Seq(Certs) : u = d[1] /\ w = d[2] /\ l = loaded
          BY <2>2
        <5>2. l \o u \o w = l \o (u \o w)
          BY ConcatAssociative
        <5> QED
          BY <5>1, <5>2
      <4> QED
        BY <2>1, <3>1, <3>2, <3>3, <4>1
    <3>4. CASE ~(M!Good(d[1]) = d[1] /\ M!Good(d[2]) = d[2])
      BY <2>1, <3>1, <3>2, <3>4
    <3> QED
      BY <3>3, <3>4
  <2> HIDE DEF add
  <2> QED
    BY <1>7, <2>4, AddsKeep DEF M!bctbx_x509_certificate_parse_path
<1>8. CASE M!bctbx_x509_certificate_generate_selfsigned
  <2> DEFINE c == M!Certificate(keys + 1, <<>>, "SHA-256")
  <2>0. crt.live /\ crt.chain = <<>> /\ pkey.live /\ loaded' = loaded /\ ~paired
    BY <1>8 DEF M!bctbx_x509_certificate_generate_selfsigned, PairInv
  <2>1. c \in Certs /\ c.key = keys + 1
    BY <1>0 DEF M!Certificate, Certs
  <2>2. CASE UNCHANGED <<crt, pkey, pem, keys, paired>>
    BY <1>0, <2>0, <2>2, KeyKeeps
  <2>3. CASE /\ pkey' = [pkey EXCEPT !.key = keys + 1] /\ keys' = keys + 1
             /\ UNCHANGED <<crt, pem, paired>>
    <3>1. pkey' \in [live : BOOLEAN, key : Nat]
      BY <1>0, <2>3
    <3> QED
      BY <1>0, <2>0, <2>3, <3>1, KeyKeeps
  <2>4. CASE /\ pkey' = [pkey EXCEPT !.key = keys + 1] /\ keys' = keys + 1
             /\ crt' = [crt EXCEPT !.chain = <<c>>] /\ paired' = TRUE
             /\ pem' = pem \/ pem' = <<keys + 1, <<c>>>>
    <3> HIDE DEF c
    <3> QED
      BY <2>0, <2>1, <2>4, GeneratedKeeps
  <2>5. CASE /\ pkey' = [pkey EXCEPT !.key = keys + 1] /\ keys' = keys + 1
             /\ UNCHANGED <<crt, paired>>
             /\ pem' = pem \/ pem' = <<keys + 1, <<c>>>>
    <3> HIDE DEF c
    <3>1. pkey' \in [live : BOOLEAN, key : Nat]
      BY <1>0, <2>5
    <3> QED
      BY <1>0, <2>0, <2>1, <2>5, <3>1, TextKeeps
  <2> QED
    BY <1>8, <2>2, <2>3, <2>4, <2>5 DEF M!bctbx_x509_certificate_generate_selfsigned
<1>9. CASE M!bctbx_x509_certificate_set_flag \/ M!bctbx_x509_certificate_unset_flag
  BY <1>0, <1>9, KeyKeeps DEF M!bctbx_x509_certificate_set_flag, M!bctbx_x509_certificate_unset_flag
<1> QED
  BY <1>1, <1>2, <1>3, <1>4, <1>5, <1>6, <1>7, <1>8, <1>9 DEF M!Next

LEMMA CertOpensslStep ==
  ASSUME CertInv, O!Next
  PROVE  CertInv'
<1> USE DEF CertInv
<1>0. /\ crt.chain \in Seq(Certs) /\ pkey \in [live : BOOLEAN, key : Nat] /\ keys \in Nat /\ keys + 1 \in Nat
      /\ paired \in BOOLEAN
  BY DEF CertType
<1>1. CASE O!bctbx_signing_key_new
  <2>1. pkey' \in [live : BOOLEAN, key : Nat] /\ ~paired
    BY <1>1 DEF O!bctbx_signing_key_new, PairInv
  <2> QED
    BY <1>0, <1>1, <2>1, KeyKeeps DEF O!bctbx_signing_key_new
<1>2. CASE O!bctbx_signing_key_free
  <2>1. pkey' \in [live : BOOLEAN, key : Nat]
    BY <1>2 DEF O!bctbx_signing_key_free
  <2> QED
    BY <1>0, <1>2, <2>1, KeyKeeps DEF O!bctbx_signing_key_free
<1>3. CASE O!bctbx_signing_key_parse
  <2>1. pkey' \in [live : BOOLEAN, key : Nat] /\ ~paired
    BY <1>0, <1>3 DEF O!bctbx_signing_key_parse, PairInv
  <2> QED
    BY <1>0, <1>3, <2>1, KeyKeeps DEF O!bctbx_signing_key_parse
<1>4. CASE O!bctbx_x509_certificate_new
  <2>1. ~paired
    BY <1>4 DEF O!bctbx_x509_certificate_new, PairInv
  <2> QED
    BY <1>4, <2>1, TRUE \in BOOLEAN, EmptyKeeps DEF O!bctbx_x509_certificate_new
<1>5. CASE O!bctbx_x509_certificate_free
  BY <1>5, FALSE \in BOOLEAN, EmptyKeeps DEF O!bctbx_x509_certificate_free
<1>6. CASE O!bctbx_x509_certificate_parse
  <2>1. PICK text \in Texts \cup (IF pem = <<>> THEN {} ELSE {pem[2]}) :
           /\ crt' = [crt EXCEPT !.chain = crt.chain \o O!stack_x509_info_to_x509(text)]
           /\ loaded' = IF O!Parses(text) THEN loaded \o text ELSE loaded
    BY <1>6 DEF O!bctbx_x509_certificate_parse
  <2> DEFINE add == O!stack_x509_info_to_x509(text)
  <2>2. text \in Seq(Certs) /\ <<>> \in Seq(Certs)
    BY TextType
  <2>3. add \in Seq(Certs) /\ (loaded' = loaded \/ loaded' = loaded \o add)
    BY <2>1, <2>2 DEF O!stack_x509_info_to_x509
  <2> HIDE DEF add
  <2> QED
    BY <1>6, <2>1, <2>3, AddsKeep DEF O!bctbx_x509_certificate_parse, add
<1>7. CASE O!bctbx_x509_certificate_parse_path
  <2>1. PICK d \in Directories :
           /\ crt' = [crt EXCEPT !.chain = crt.chain \o O!stack_x509_info_to_x509(d[1])
                         \o (IF O!Parses(d[1]) THEN O!stack_x509_info_to_x509(d[2]) ELSE <<>>)]
           /\ loaded' = IF O!Parses(d[1]) /\ O!Parses(d[2]) THEN loaded \o d[1] \o d[2] ELSE loaded
    BY <1>7 DEF O!bctbx_x509_certificate_parse_path
  <2> DEFINE one == O!stack_x509_info_to_x509(d[1])
             two == IF O!Parses(d[1]) THEN O!stack_x509_info_to_x509(d[2]) ELSE <<>>
             add == one \o two
  <2>2. /\ d[1] \in Seq(Certs) /\ d[2] \in Seq(Certs) /\ loaded \in Seq(Certs) /\ <<>> \in Seq(Certs)
    BY TextType DEF CertType
  <2>3. /\ one \in Seq(Certs) /\ two \in Seq(Certs)
        /\ O!Parses(d[1]) /\ O!Parses(d[2]) => one = d[1] /\ two = d[2]
    BY <2>2 DEF O!stack_x509_info_to_x509
  <2>4. \A a, b, c \in Seq(Certs) : a \o b \o c = a \o (b \o c) /\ b \o c \in Seq(Certs)
    BY ConcatAssociative, ConcatProperties
  <2>5. add \in Seq(Certs) /\ crt.chain \o one \o two = crt.chain \o add
    <3> HIDE DEF one, two
    <3> QED
      BY <1>0, <2>3, <2>4
  <2>6. loaded' = loaded \/ loaded' = loaded \o add
    <3>1. CASE O!Parses(d[1]) /\ O!Parses(d[2])
      <4>1. loaded \o d[1] \o d[2] = loaded \o (d[1] \o d[2])
        BY <2>2, <2>4
      <4>2. one = d[1] /\ two = d[2]
        BY <2>3, <3>1
      <4> HIDE DEF one, two
      <4> QED
        BY <2>1, <3>1, <4>1, <4>2
    <3>2. CASE ~(O!Parses(d[1]) /\ O!Parses(d[2]))
      BY <2>1, <3>2
    <3> QED
      BY <3>1, <3>2
  <2>7. crt' = [crt EXCEPT !.chain = crt.chain \o add]
    BY <2>1, <2>5
  <2> HIDE DEF add
  <2> QED
    BY <1>7, <2>5, <2>6, <2>7, AddsKeep DEF O!bctbx_x509_certificate_parse_path
<1>8. CASE O!bctbx_x509_certificate_generate_selfsigned
  <2> DEFINE c == O!generate_x509(keys + 1)
  <2>0. crt.live /\ crt.chain = <<>> /\ pkey.live /\ loaded' = loaded /\ ~paired
    BY <1>8 DEF O!bctbx_x509_certificate_generate_selfsigned, PairInv
  <2>1. c \in Certs /\ c.key = keys + 1
    BY <1>0 DEF O!generate_x509, O!Certificate, Certs
  <2>2. CASE pkey' = [pkey EXCEPT !.key = 0] /\ UNCHANGED <<crt, pem, keys, paired>>
    <3>1. pkey' \in [live : BOOLEAN, key : Nat]
      BY <1>0, <2>2
    <3> QED
      BY <1>0, <2>0, <2>2, <3>1, KeyKeeps
  <2>3. CASE /\ pkey' = [pkey EXCEPT !.key = keys + 1] /\ keys' = keys + 1
             /\ crt' = [crt EXCEPT !.chain = Append(crt.chain, c)] /\ paired' = TRUE
             /\ \/ UNCHANGED pem
                \/ \E n \in PemLengths :
                      pem' = IF n <= O!PemSize(crt'.chain) + 1 THEN pem ELSE <<keys + 1, crt'.chain>>
    <3> HIDE DEF c
    <3>1. crt' = [crt EXCEPT !.chain = <<c>>]
      BY <2>0, <2>3
    <3>2. crt'.chain = <<c>>
      BY <3>1 DEF CertType
    <3>3. pem' = pem \/ pem' = <<keys + 1, <<c>>>>
      BY <2>3, <3>2
    <3> QED
      BY <2>0, <2>1, <2>3, <3>1, <3>3, GeneratedKeeps
  <2> QED
    BY <1>8, <2>2, <2>3 DEF O!bctbx_x509_certificate_generate_selfsigned
<1> QED
  BY <1>1, <1>2, <1>3, <1>4, <1>5, <1>6, <1>7, <1>8 DEF O!Next

LEMMA CertInductive == CertInv /\ [Next]_vars => CertInv'
<1> SUFFICES ASSUME CertInv, [Next]_vars PROVE CertInv'
  OBVIOUS
<1>1. CASE M!Next
  BY <1>1, CertMbedtlsStep
<1>2. CASE O!Next
  BY <1>2, CertOpensslStep
<1>3. CASE UNCHANGED certVars
  BY <1>3 DEF certVars, CertInv, CertType, PairInv
<1> QED
  BY <1>1, <1>2, <1>3 DEF Next, vars, Certificates

LEMMA CertInit == Init => CertInv
<1> SUFFICES ASSUME Init PROVE CertInv
  OBVIOUS
<1>1. <<>> \in Seq(Certs)
  OBVIOUS
<1>2. CertType
  BY <1>1 DEF Init, M!Init, CertType
<1>3. PairInv
  BY DEF Init, M!Init, PairInv
<1>4. Embedded(loaded, crt.chain)
  BY <1>1, EmbeddedNone DEF Init, M!Init
<1> QED
  BY <1>2, <1>3, <1>4 DEF CertInv

\* bctbx_x509_certificate_generate_selfsigned with both libraries, any texts and
\* any number of keys: a certificate and the key made with it stay together,
\* whatever is parsed or freed later, and so do those in the caller's buffer.
THEOREM GeneratedPairHolds == Spec => []GeneratedPair
<1>1. CertInv => GeneratedPair
  <2> SUFFICES ASSUME CertInv PROVE GeneratedPair
    OBVIOUS
  <2>1. paired => crt.live /\ pkey.live /\ Head(crt.chain).key = pkey.key
    BY DEF CertInv, CertType, PairInv
  <2>2. pem # <<>> => Len(pem[2]) = 1 /\ Head(pem[2]).key = pem[1]
    BY DEF CertInv, PairInv
  <2> QED
    BY <2>1, <2>2 DEF GeneratedPair
<1> QED
  BY <1>1, CertInit, CertInductive, PTL DEF Spec

\* bctbx_x509_certificate_parse and parse_path with both libraries and any
\* texts: what was accepted is in the chain, in order, whatever failed in part.
THEOREM LoadedHolds == Spec => []LoadedKept
<1>1. CertInv => LoadedKept
  BY DEF CertInv, Embedded, LoadedKept
<1> QED
  BY <1>1, CertInit, CertInductive, PTL DEF Spec

\* The two libraries know the same hashes.
LEMMA SameHashes ==
  /\ M!HashLengths = O!HashLengths
  /\ \A h \in DOMAIN M!HashLengths : M!NameLength(h) = O!NameLength(h) /\ M!HashLengths[h] \in Nat
<1>1. M!HashLengths = O!HashLengths
  BY DEF M!HashLengths, O!HashLengths
<1>2. \A h \in DOMAIN M!HashLengths : M!NameLength(h) = O!NameLength(h)
  BY <1>1 DEF M!NameLength, O!NameLength
<1>3. \A h \in DOMAIN M!HashLengths : M!HashLengths[h] \in Nat
  BY DEF M!HashLengths
<1> QED
  BY <1>1, <1>2, <1>3

LEMMA SameAnswers ==
  ASSUME NEW c \in Seq(Certs), Len(c) = 1, c[1].hash \in DOMAIN M!HashLengths
  PROVE  /\ M!bctbx_x509_certificate_get_der_length(c) = O!bctbx_x509_certificate_get_der_length(c)
         /\ \A n \in 1..SizeMax : M!bctbx_x509_certificate_get_der(c, n) = O!bctbx_x509_certificate_get_der(c, n)
         /\ O!bctbx_x509_certificate_get_der(c, 0) = "OUTPUT_BUFFER_TOO_SMALL"
         /\ M!bctbx_x509_certificate_get_der_length(c) <= SizeMax => M!bctbx_x509_certificate_get_der(c, 0) = "0"
         /\ M!bctbx_x509_certificate_get_signature_hash_function(c)
               = O!bctbx_x509_certificate_get_signature_hash_function(c)
         /\ M!bctbx_x509_certificates_chain_get_pem(c) = O!bctbx_x509_certificates_chain_get_pem(c)
         /\ \A n \in Nat : \A h : M!bctbx_x509_certificate_get_fingerprint(c, n, h)
                                 = O!bctbx_x509_certificate_get_fingerprint(c, n, h)
<1>1. Len(c[1].alt) \in Nat
  <2>1. c[1] \in Certs
    BY SMTT(30)
  <2> QED
    BY <2>1 DEF Certs, Block
<1>2. M!bctbx_x509_certificate_get_der_length(c) = O!bctbx_x509_certificate_get_der_length(c)
  BY DEF M!bctbx_x509_certificate_get_der_length, O!bctbx_x509_certificate_get_der_length
<1>3. ASSUME NEW n \in 1..SizeMax
      PROVE  M!bctbx_x509_certificate_get_der(c, n) = O!bctbx_x509_certificate_get_der(c, n)
  BY <1>1, CryptoAssumption
     DEF M!bctbx_x509_certificate_get_der, O!bctbx_x509_certificate_get_der, M!Minus,
         M!bctbx_x509_certificate_get_der_length, O!bctbx_x509_certificate_get_der_length
<1>7. /\ O!bctbx_x509_certificate_get_der(c, 0) = "OUTPUT_BUFFER_TOO_SMALL"
      /\ M!bctbx_x509_certificate_get_der_length(c) <= SizeMax => M!bctbx_x509_certificate_get_der(c, 0) = "0"
  BY <1>1, CryptoAssumption
     DEF M!bctbx_x509_certificate_get_der, O!bctbx_x509_certificate_get_der, M!Minus,
         M!bctbx_x509_certificate_get_der_length, O!bctbx_x509_certificate_get_der_length
<1>4. M!bctbx_x509_certificate_get_signature_hash_function(c)
        = O!bctbx_x509_certificate_get_signature_hash_function(c)
  BY SameHashes DEF M!bctbx_x509_certificate_get_signature_hash_function,
                    O!bctbx_x509_certificate_get_signature_hash_function
<1>5. M!bctbx_x509_certificates_chain_get_pem(c) = O!bctbx_x509_certificates_chain_get_pem(c)
  BY DEF M!bctbx_x509_certificates_chain_get_pem, O!bctbx_x509_certificates_chain_get_pem
<1>6. ASSUME NEW n \in Nat, NEW h
      PROVE  M!bctbx_x509_certificate_get_fingerprint(c, n, h)
               = O!bctbx_x509_certificate_get_fingerprint(c, n, h)
  <2> DEFINE hash == IF h \in DOMAIN M!HashLengths THEN h ELSE c[1].hash
  <2>1. hash \in DOMAIN M!HashLengths
    OBVIOUS
  <2>2. M!bctbx_x509_certificate_get_fingerprint(c, n, h)
          = IF n < M!NameLength(hash) + 3 * M!HashLengths[hash] + 1 THEN "OUTPUT_BUFFER_TOO_SMALL" ELSE hash
    BY <2>1 DEF M!bctbx_x509_certificate_get_fingerprint
  <2>3. O!bctbx_x509_certificate_get_fingerprint(c, n, h)
          = IF n < O!NameLength(hash) + 3 * O!HashLengths[hash] + 1 THEN "OUTPUT_BUFFER_TOO_SMALL" ELSE hash
    BY <2>1, SameHashes DEF O!bctbx_x509_certificate_get_fingerprint
  <2> HIDE DEF hash
  <2> QED
    BY <2>1, <2>2, <2>3, SameHashes
<1> QED
  BY <1>2, <1>3, <1>4, <1>5, <1>6, <1>7

\* The questions about certificates (mbedtls.c, openssl.c), for any chain of one
\* certificate signed with a hash of the SHA family: one answer, whichever
\* library is used, except for a buffer of size 0, where mbedtls.c wraps.
THEOREM BackendsHold == Spec => []BackendsAgree
<1>1. CertInv => BackendsAgree
  <2> SUFFICES ASSUME CertInv, Len(crt.chain) = 1, crt.chain[1].hash \in DOMAIN M!HashLengths
               PROVE  BackendsAgree
    BY DEF BackendsAgree
  <2>1. crt.chain \in Seq(Certs)
    BY DEF CertInv, CertType
  <2> QED
    BY <2>1, SameAnswers DEF BackendsAgree
<1> QED
  BY <1>1, CertInit, CertInductive, PTL DEF Spec

-----------------------------------------------------------------------------
(* Base64, digests and key derivation (mbedtls.c, openssl.c).              *)

SampleInv == sample.bytes \in Nat \ {0} /\ sample.cut \in 0..2

\* The text of n bytes without the last c of its '='.
Text64(n, t) ==
    \E k \in Nat \ {0}, e, c \in 0..2 :
        n = 3 * k - e /\ c <= e /\ t = [chars |-> 4 * k - c, eq |-> e - c]

\* Both libraries encode n bytes in the same groups of four characters.
LEMMA Encoded ==
  ASSUME NEW n \in Nat \ {0}
  PROVE  \E k \in Nat \ {0}, e \in 0..2 :
            /\ n = 3 * k - e
            /\ CM!encodeBase64(n) = [chars |-> 4 * k, eq |-> e]
            /\ CO!encodeBase64(n) = [chars |-> 4 * k, eq |-> e]
            /\ CO!bctbx_base64_encode(n, FALSE, 0).length = 4 * k
            /\ CM!bctbx_base64_encode(n, 0).length = 4 * k + 1
<1> DEFINE k == (n + 2) \div 3
           e == (3 - (n % 3)) % 3
<1>1. k \in Nat \ {0} /\ e \in 0..2 /\ n = 3 * k - e
  OBVIOUS
<1>2. 4 * (n \div 3) + (IF n % 3 > 0 THEN 4 ELSE 0) = 4 * k
  OBVIOUS
<1>3. CM!mbedtls_base64_encode(n, 0) = [ret |-> "BUFFER_TOO_SMALL", length |-> 4 * k + 1]
  BY <1>1 DEF CM!mbedtls_base64_encode
<1>4. CM!mbedtls_base64_encode(n, 4 * k + 1) = [ret |-> "0", length |-> 4 * k]
  BY <1>1 DEF CM!mbedtls_base64_encode
<1>7. CM!bctbx_base64_encode(n, 0).length = 4 * k + 1
  BY <1>3 DEF CM!bctbx_base64_encode
<1>8. CM!encodeBase64(n) = [chars |-> 4 * k, eq |-> e]
  <2> HIDE DEF k
  <2> QED
    BY <1>1, <1>3, <1>4 DEF CM!encodeBase64
<1>9. CO!encodeBase64(n) = [chars |-> 4 * k, eq |-> e]
  <2> HIDE DEF k
  <2> QED
    BY <1>1, <1>2 DEF CO!encodeBase64, CO!bctbx_base64_encode
<1>10. CO!bctbx_base64_encode(n, FALSE, 0).length = 4 * k
  BY <1>2 DEF CO!bctbx_base64_encode
<1> HIDE DEF k, e
<1> QED
  BY <1>1, <1>7, <1>8, <1>9, <1>10, Zenon

\* Both libraries decode the text, cut or not.
LEMMA Decoded ==
  ASSUME NEW n \in Nat \ {0}, NEW t, Text64(n, t)
  PROVE  /\ CM!decodeBase64(t) = n /\ CO!decodeBase64(t) = n
         /\ CM!bctbx_base64_decode(t, n) = [ret |-> "0", length |-> n]
<1>0. PICK k \in Nat \ {0}, e \in 0..2, c \in 0..2 :
         n = 3 * k - e /\ c <= e /\ t = [chars |-> 4 * k - c, eq |-> e - c]
  BY DEF Text64
<1>1. t.chars = 4 * k - c /\ t.eq = e - c
  BY <1>0
<1>2. (IF t.chars % 4 = 0 THEN 0 ELSE 4 - (t.chars % 4)) = c
  BY <1>1
<1>3. CM!Restored(t) = [chars |-> 4 * k, eq |-> e]
  BY <1>1, <1>2 DEF CM!Restored, CM!MissingPadding
<1>4. (4 * k) \div 4 = k /\ 4 * k - c + c = 4 * k
  OBVIOUS
<1>5. ASSUME NEW room \in Nat
      PROVE  CM!mbedtls_base64_decode(CM!Restored(t), room)
               = [ret |-> IF room < n THEN "BUFFER_TOO_SMALL" ELSE "0", length |-> n]
  BY <1>0, <1>3, <1>4 DEF CM!mbedtls_base64_decode
<1>6. CM!decodeBase64(t) = n
  BY <1>5 DEF CM!decodeBase64
<1>7. CM!bctbx_base64_decode(t, n) = [ret |-> "0", length |-> n]
  BY <1>5 DEF CM!bctbx_base64_decode
<1>10. CO!decodeBase64(t) = n
  BY <1>0, <1>1, <1>2, <1>4 DEF CO!decodeBase64, CO!bctbx_base64_decode
<1> QED
  BY <1>6, <1>7, <1>10

LEMMA HashesAgree ==
  ASSUME NEW length \in Nat
  PROVE  /\ CM!bctbx_hmacSha1("k", length) = CO!bctbx_hmac("SHA1", "k", length)
         /\ CM!bctbx_hmacSha256("k", length) = CO!bctbx_hmac("SHA256", "k", length)
         /\ CM!bctbx_hmacSha384("k", length) = CO!bctbx_hmac("SHA384", "k", length)
         /\ CM!bctbx_hmacSha512("k", length) = CO!bctbx_hmac("SHA512", "k", length)
         /\ CM!bctbx_sha256(length) = CO!bctbx_digest("SHA256", length)
         /\ CM!bctbx_sha384(length) = CO!bctbx_digest("SHA384", length)
         /\ CM!bctbx_sha512(length) = CO!bctbx_digest("SHA512", length)
BY DEF CM!bctbx_hmacSha1, CM!bctbx_hmacSha256, CM!bctbx_hmacSha384, CM!bctbx_hmacSha512,
       CM!bctbx_sha256, CM!bctbx_sha384, CM!bctbx_sha512, CM!AtMost, CM!Output,
       CO!bctbx_hmac, CO!bctbx_digest, CO!HashSize, CO!Output

\* base64 and digests, for every number of bytes: what one library encodes the
\* other decodes, and they copy the same bytes of the same hash.
THEOREM CodecsHold == Spec => []CodecsAgree
<1>1. Init => SampleInv
  BY DEF Init, SampleInv
<1>2. SampleInv /\ [Next]_vars => SampleInv'
  BY CryptoAssumption DEF SampleInv, Next, NextSample, vars
<1>3. SampleInv => CodecsAgree
  <2> SUFFICES ASSUME SampleInv PROVE CodecsAgree
    OBVIOUS
  <2> DEFINE Cut(t) == LET c == IF sample.cut > t.eq THEN t.eq ELSE sample.cut
                       IN  [chars |-> t.chars - c, eq |-> t.eq - c]
  <2> PICK n \in Nat \ {0} : n = sample.bytes
    BY DEF SampleInv
  <2>1. PICK k \in Nat \ {0}, e \in 0..2 :
            /\ n = 3 * k - e
            /\ CM!encodeBase64(n) = [chars |-> 4 * k, eq |-> e]
            /\ CO!encodeBase64(n) = [chars |-> 4 * k, eq |-> e]
            /\ CO!bctbx_base64_encode(n, FALSE, 0).length = 4 * k
            /\ CM!bctbx_base64_encode(n, 0).length = 4 * k + 1
    BY Encoded
  <2>2. Text64(n, Cut([chars |-> 4 * k, eq |-> e]))
    BY <2>1 DEF Text64, SampleInv
  <2>3. \A t \in {Cut(CM!encodeBase64(n)), Cut(CO!encodeBase64(n))} :
              /\ CM!decodeBase64(t) = n /\ CO!decodeBase64(t) = n
              /\ CM!bctbx_base64_decode(t, n) = [ret |-> "0", length |-> n]
    <3> HIDE DEF Cut
    <3> QED
      BY <2>1, <2>2, Decoded
  <2>4. CO!bctbx_base64_encode(n, FALSE, 0).length + 1 = CM!bctbx_base64_encode(n, 0).length
    BY <2>1
  <2>5. \A length \in {n, 20, 32, 48, 64, 65} :
              /\ CM!bctbx_hmacSha1("k", length) = CO!bctbx_hmac("SHA1", "k", length)
              /\ CM!bctbx_hmacSha256("k", length) = CO!bctbx_hmac("SHA256", "k", length)
              /\ CM!bctbx_hmacSha384("k", length) = CO!bctbx_hmac("SHA384", "k", length)
              /\ CM!bctbx_hmacSha512("k", length) = CO!bctbx_hmac("SHA512", "k", length)
              /\ CM!bctbx_sha256(length) = CO!bctbx_digest("SHA256", length)
              /\ CM!bctbx_sha384(length) = CO!bctbx_digest("SHA384", length)
              /\ CM!bctbx_sha512(length) = CO!bctbx_digest("SHA512", length)
    BY HashesAgree
  <2>6. \A alg \in {"SHA256", "SHA384", "SHA512"}, blocks \in {1, 255} :
              CM!HKDF(alg, blocks * CM!HashSize[alg]) = CO!HKDF(alg, blocks * CM!HashSize[alg])
    <3> SUFFICES ASSUME NEW alg \in {"SHA256", "SHA384", "SHA512"}, NEW blocks \in {1, 255}
                 PROVE  CM!HKDF(alg, blocks * CM!HashSize[alg])
                          = CO!HKDF(alg, blocks * CM!HashSize[alg])
      OBVIOUS
    <3>1. PICK h \in Nat : h = CM!HashSize[alg] /\ h = CO!HashSize[alg]
      BY DEF CM!HashSize, CO!HashSize
    <3>2. blocks * h \in Nat /\ ~(blocks * h > 255 * h)
      BY <3>1
    <3>3. CM!HKDF(alg, blocks * h) = [thrown |-> FALSE, bytes |-> blocks * h]
      BY <3>1, <3>2 DEF CM!HKDF
    <3>4. CO!HKDF(alg, blocks * h) = [thrown |-> FALSE, bytes |-> blocks * h]
      BY <3>1, <3>2 DEF CO!HKDF
    <3> QED
      BY <3>1, <3>3, <3>4, Zenon
  <2> QED
    BY <2>3, <2>4, <2>5, <2>6, ZenonT(40) DEF CodecsAgree
<1> QED
  BY <1>1, <1>2, <1>3, PTL DEF Spec

-----------------------------------------------------------------------------
(* AES key wrap with padding (mbedtls.cc, openssl.cc).                     *)

\* The register of step s of the loops over n half blocks.
Ix(s, n) == ((s - 1) % n) + 1

LEMMA IxFacts ==
  ASSUME NEW n \in Nat \ {0}, NEW s \in Nat \ {0}
  PROVE  Ix(s, n) \in 1..n /\ (s <= n => Ix(s, n) = s)
<1>1. (s - 1) % n \in 0..(n - 1)
  OBVIOUS
<1>2. ASSUME s <= n PROVE (s - 1) % n = s - 1
  <2>1. s - 1 \in 0..(n - 1)
    BY <1>2
  <2>2. \A r \in 0..(n - 1) : r % n = r
    OBVIOUS
  <2> QED
    BY <2>1, <2>2
<1> QED
  BY <1>1, <1>2 DEF Ix

\* What stands on the left: the constant and the size, or the left half of one
\* of N numbers.  On the right: a half block of the text or a right half.
Wide == [of : Nat, half : {"hi", "A65959A6"}, mask : SUBSET Nat]

High(N) == {h \in Wide : h.half = "hi" => h.of \in 1..N}

Low == [of : Nat, half : {"lo", "text"}, mask : {{}}]

Noise == W!Half(0, "noise")

Halves(N) == High(N) \cup Low \cup {h \in [of : Nat, half : {"noise"}, mask : SUBSET Nat] : TRUE}

LEMMA HalfFacts ==
  ASSUME NEW N \in Nat, NEW h \in Halves(N)
  PROVE  /\ h.of \in Nat /\ h.mask \in SUBSET Nat
         /\ h.half = "hi" => h.of \in 1..N
         /\ h.half = "lo" => h = W!Half(h.of, "lo")
BY DEF Halves, High, Wide, Low, W!Half

LEMMA XorFacts ==
  ASSUME NEW N \in Nat, NEW h \in Halves(N), NEW s \in Nat
  PROVE  /\ W!Xor(h, s).half = h.half /\ W!Xor(h, s).of = h.of
         /\ W!Xor(h, s).mask = W!SymDiff(h.mask, {s})
BY DEF Halves, High, Wide, Low, W!Xor

\* Registers after every step of wrapping a text of n half blocks and m bytes
\* under k, and the pairs that were encrypted.
Trace(A, R, table, n, m, k) ==
    /\ A \in [0..(6 * n) -> High(6 * n)] /\ R \in [0..(6 * n) -> [1..n -> Low]]
    /\ A[0] = W!Header(m) /\ R[0] = [i \in 1..n |-> W!Text(i)]
    /\ \A s \in 1..(6 * n) :
          /\ A[s] = W!Xor(W!Half(s, "hi"), s)
          /\ R[s] = [R[s - 1] EXCEPT ![Ix(s, n)] = W!Half(s, "lo")]
    /\ Len(table) = 6 * n
    /\ \A s \in 1..(6 * n) : table[s] = <<k, A[s - 1], R[s - 1][Ix(s, n)]>>

\* What the loops of AES_key_wrap work on after any step.
WrapStates(n) == [table : Seq(Keys \X Wide \X Low), a : Wide, r : [1..n -> Low]]

\* What a step makes of the registers, and what it adds to the table.
Stepped(w, st, s, n, k) ==
    /\ w \in WrapStates(n)
    /\ w.a = W!Xor(W!Half(Len(st.table) + 1, "hi"), s)
    /\ w.r = [st.r EXCEPT ![Ix(s, n)] = W!Half(Len(st.table) + 1, "lo")]
    /\ w.table = Append(st.table, <<k, st.a, st.r[Ix(s, n)]>>)

LEMMA WrapStepFacts ==
  ASSUME NEW n \in Nat \ {0}, NEW k \in Keys, NEW s \in 1..(6 * n), NEW st \in WrapStates(n)
  PROVE  Stepped(W!WrapStep(st, s, n, k), st, s, n, k)
<1> DEFINE w == W!WrapStep(st, s, n, k)
<1>1. Ix(s, n) \in 1..n
  BY IxFacts
<1>2. st.table \in Seq(Keys \X Wide \X Low) /\ st.a \in Wide /\ st.r \in [1..n -> Low]
  BY DEF WrapStates
<1>3. PICK l \in Nat : l = Len(st.table) + 1
  BY <1>2
<1>4. w.a = W!Xor(W!Half(l, "hi"), s) /\ w.r = [st.r EXCEPT ![Ix(s, n)] = W!Half(l, "lo")]
      /\ w.table = Append(st.table, <<k, st.a, st.r[Ix(s, n)]>>)
      /\ w = [table |-> w.table, a |-> w.a, r |-> w.r]
  BY <1>3 DEF W!WrapStep, W!AesEncrypt, Ix
<1>5. W!Xor(W!Half(l, "hi"), s) \in Wide
  BY DEF W!Xor, W!Half, W!SymDiff, Wide
<1>6. W!Half(l, "lo") \in Low
  BY DEF W!Half, Low
<1>7. w.r \in [1..n -> Low]
  BY <1>1, <1>2, <1>4, <1>6
<1>8. w.table \in Seq(Keys \X Wide \X Low)
  <2>1. <<k, st.a, st.r[Ix(s, n)]>> \in Keys \X Wide \X Low
    BY <1>1, <1>2
  <2> QED
    BY <1>2, <1>4, <2>1
<1> HIDE DEF w
<1>9. w \in WrapStates(n)
  BY <1>4, <1>5, <1>7, <1>8 DEF WrapStates
<1> QED
  BY <1>3, <1>4, <1>9 DEF w, Stepped

\* The loops of AES_key_wrap, on any text, leave such a trace.
LEMMA WrapLeavesTrace ==
  ASSUME NEW n \in Nat \ {0}, NEW k \in Keys, NEW m \in Nat
  PROVE  LET end == W!Wrapped([table |-> <<>>, a |-> W!Header(m), r |-> [i \in 1..n |-> W!Text(i)]],
                              n, k)
         IN  \E A, R : /\ Trace(A, R, end.table, n, m, k)
                       /\ end.a = A[6 * n] /\ end.r = R[6 * n]
<1> DEFINE st == [table |-> <<>>, a |-> W!Header(m), r |-> [i \in 1..n |-> W!Text(i)]]
           N == 6 * n
           V == WrapStates(n)
           h == [sw \in (1..N) \X V |-> W!WrapStep(sw[2], sw[1], n, k)]
           Rec(f) == [s \in 0..N |-> IF s = 0 THEN st ELSE W!WrapStep(f[s - 1], s, n, k)]
           after == CHOOSE f : f = Rec(f)
<1>1. N \in Nat /\ \A s \in 1..N, w \in V : W!WrapStep(w, s, n, k) \in V
  <2>1. ASSUME NEW s \in 1..(6 * n), NEW w \in WrapStates(n)
        PROVE  W!WrapStep(w, s, n, k) \in WrapStates(n)
    BY WrapStepFacts DEF Stepped
  <2>2. 6 * n \in Nat
    OBVIOUS
  <2> QED
    BY <2>1, <2>2, Zenon
<1>2. st \in V
  BY DEF WrapStates, W!Header, W!Text, W!Half, Wide, Low
<1>3. PICK g \in [0..N -> V] : g[0] = st /\ \A s \in 1..N : g[s] = h[<<s, g[s - 1]>>]
  <2> HIDE DEF V, N, st
  <2>1. h \in Steps(N, V)
    BY <1>1 DEF Steps
  <2> HIDE DEF h
  <2>2. \E g : Loop(g, N, V, st, h)
    BY <1>1, <1>2, <2>1, Iterates
  <2> QED
    BY <2>2 DEF Loop
<1>4. \A s \in 1..N : g[s] = W!WrapStep(g[s - 1], s, n, k)
  <2> HIDE DEF V, N, st
  <2>1. ASSUME NEW s \in 1..N PROVE g[s] = W!WrapStep(g[s - 1], s, n, k)
    <3> HIDE DEF h
    <3>1. g[s - 1] \in V /\ g[s] = h[<<s, g[s - 1]>>]
      <4>1. s - 1 \in 0..N
        BY <1>1
      <4> QED
        BY <1>3, <4>1
    <3>2. h[<<s, g[s - 1]>>] = W!WrapStep(g[s - 1], s, n, k)
      BY <3>1 DEF h
    <3> QED
      BY <3>1, <3>2
  <2> QED
    BY <2>1
<1>5. g = Rec(g)
  <2> HIDE DEF V, N, st
  <2>1. \A s \in 0..N : g[s] = Rec(g)[s]
    BY <1>1, <1>3, <1>4
  <2>2. Rec(g) = [s \in 0..N |-> Rec(g)[s]] /\ g = [s \in 0..N |-> g[s]]
    BY <1>3
  <2> QED
    BY <2>1, <2>2
<1>6. after = Rec(after)
  <2> HIDE DEF Rec
  <2> QED
    BY <1>5
<1>7. W!Wrapped(st, n, k) = after[N]
  BY DEF W!Wrapped
<1>8. after[0] = st /\ \A s \in 1..N : after[s] = W!WrapStep(after[s - 1], s, n, k)
  <2> HIDE DEF st, N, after
  <2>1. \A s \in 0..N : after[s] = Rec(after)[s]
    BY <1>6
  <2> QED
    BY <1>1, <2>1
<1> HIDE DEF after
<1> DEFINE P(s) == /\ after[s] \in V /\ Len(after[s].table) = s
                   /\ \A t \in 1..s :
                        /\ after[s].table[t] = <<k, after[t - 1].a, after[t - 1].r[Ix(t, n)]>>
                        /\ after[t].a = W!Xor(W!Half(t, "hi"), t)
                        /\ after[t].r = [after[t - 1].r EXCEPT ![Ix(t, n)] = W!Half(t, "lo")]
<1>9. \A s \in 0..N : P(s)
  <2> DEFINE T == {s \in 0..N : ~P(s)}
  <2>1. SUFFICES ASSUME T # {} PROVE FALSE
    <3> HIDE DEF P
    <3> QED
      OBVIOUS
  <2>2. PICK s \in T : \A t \in T : s <= t
    <3>1. T \subseteq Nat
      OBVIOUS
    <3> HIDE DEF T
    <3> QED
      BY <2>1, <3>1, LeastNumber
  <2>3. CASE s = 0
    <3>1. Len(after[0].table) = 0
      BY <1>8
    <3> HIDE DEF V, st
    <3> QED
      BY <1>2, <1>8, <2>2, <2>3, <3>1
  <2>4. CASE s # 0
    <3>1. s \in 1..N /\ s - 1 \in 0..N
      BY <2>2, <2>4
    <3>2. P(s - 1)
      <4> HIDE DEF P
      <4> QED
        BY <2>2, <3>1
    <3>3. PICK w \in V : w = after[s - 1]
      BY <3>2
    <3>4. PICK tab : tab = w.table
      OBVIOUS
    <3>5. /\ after[s] \in V
          /\ after[s].a = W!Xor(W!Half(s, "hi"), s)
          /\ after[s].r = [w.r EXCEPT ![Ix(s, n)] = W!Half(s, "lo")]
          /\ after[s].table = Append(tab, <<k, w.a, w.r[Ix(s, n)]>>)
      <4>1. after[s] = W!WrapStep(w, s, n, k) /\ Len(w.table) + 1 = s
        BY <1>8, <3>1, <3>2, <3>3
      <4> DEFINE u == W!WrapStep(w, s, n, k)
      <4>2. /\ u \in V
            /\ u.a = W!Xor(W!Half(Len(w.table) + 1, "hi"), s)
            /\ u.r = [w.r EXCEPT ![Ix(s, n)] = W!Half(Len(w.table) + 1, "lo")]
            /\ u.table = Append(w.table, <<k, w.a, w.r[Ix(s, n)]>>)
        <5> HIDE DEF P
        <5>1. s \in 1..(6 * n) /\ w \in WrapStates(n)
          BY <3>1, <3>3
        <5>2. Stepped(W!WrapStep(w, s, n, k), w, s, n, k)
          BY <5>1, WrapStepFacts
        <5> QED
          BY <5>2 DEF Stepped
      <4> HIDE DEF P, V, u
      <4>3. after[s] = u
        BY <4>1 DEF u
      <4> QED
        BY <3>4, <4>1, <4>2, <4>3
    <3>6. tab \in Seq(Keys \X Wide \X Low) /\ Len(tab) = s - 1
      BY <3>2, <3>3, <3>4 DEF WrapStates
    <3>7. Len(after[s].table) = s /\ after[s].table[s] = <<k, w.a, w.r[Ix(s, n)]>>
          /\ \A t \in 1..(s - 1) : after[s].table[t] = tab[t]
      BY <3>1, <3>5, <3>6
    <3>8. P(s)
      <4>1. ASSUME NEW t \in 1..s
            PROVE  /\ after[s].table[t] = <<k, after[t - 1].a, after[t - 1].r[Ix(t, n)]>>
                   /\ after[t].a = W!Xor(W!Half(t, "hi"), t)
                   /\ after[t].r = [after[t - 1].r EXCEPT ![Ix(t, n)] = W!Half(t, "lo")]
        <5> HIDE DEF V
        <5>1. CASE t = s
          BY <3>3, <3>5, <3>7, <5>1
        <5>2. CASE t # s
          <6>1. t \in 1..(s - 1)
            BY <5>2, <3>1
          <6> QED
            BY <3>2, <3>3, <3>4, <3>7, <6>1
        <5> QED
          BY <5>1, <5>2
      <4> HIDE DEF V
      <4> QED
        BY <3>5, <3>7, <4>1
    <3> HIDE DEF P
    <3> QED
      BY <2>2, <3>8
  <2> QED
    BY <2>3, <2>4
<1> DEFINE A == [s \in 0..N |-> after[s].a]
           R == [s \in 0..N |-> after[s].r]
<1>10. R \in [0..N -> [1..n -> Low]]
  <2>1. \A s \in 0..N : after[s].r \in [1..n -> Low]
    BY <1>9 DEF WrapStates
  <2> HIDE DEF N
  <2> QED
    BY <2>1
<1>11. A[0] = W!Header(m) /\ R[0] = [i \in 1..n |-> W!Text(i)]
  BY <1>8
<1>12. N \in 0..N /\ P(N)
  <2>1. N \in 0..N
    BY <1>1
  <2> HIDE DEF P
  <2> QED
    BY <1>9, <2>1
<1>13. ASSUME NEW s \in 1..N
       PROVE  /\ A[s] = W!Xor(W!Half(s, "hi"), s)
              /\ R[s] = [R[s - 1] EXCEPT ![Ix(s, n)] = W!Half(s, "lo")]
              /\ after[N].table[s] = <<k, A[s - 1], R[s - 1][Ix(s, n)]>>
  <2>1. s \in 0..N /\ s - 1 \in 0..N
    BY <1>1
  <2> HIDE DEF V, N
  <2> QED
    BY <1>12, <2>1
<1>14. A \in [0..N -> High(N)]
  <2>1. ASSUME NEW s \in 0..N PROVE A[s] \in High(N)
    <3>1. CASE s = 0
      BY <1>11, <3>1 DEF W!Header, W!Half, High, Wide
    <3>2. CASE s # 0
      <4> HIDE DEF A
      <4>1. s \in 1..N
        BY <3>2
      <4>2. A[s] = W!Xor(W!Half(s, "hi"), s)
        BY <1>13, <4>1, Zenon
      <4> QED
        BY <4>1, <4>2 DEF W!Xor, W!Half, W!SymDiff, High, Wide
    <3> QED
      BY <3>1, <3>2
  <2> QED
    BY <2>1
<1>15. A[N] = after[N].a /\ R[N] = after[N].r
  BY <1>12
<1> HIDE DEF A, R, P, V
<1>16. Trace(A, R, after[N].table, n, m, k)
  BY <1>10, <1>11, <1>12, <1>13, <1>14 DEF Trace, P
<1> QED
  BY <1>7, <1>15, <1>16

\* The pairs that were encrypted.
AesTable(N) == \A t \in 1..N : aes[t][2] \in High(N) /\ aes[t][3] \in Low

\* What the loops of AES_key_unwrap work on.
UnwrapStates(N, n) == [a : Halves(N), r : [1..n -> Halves(N)]]

\* Whether step s decrypts the two halves of one number under its key.
Opens(st, s, n, k) ==
    /\ st.a.half = "hi" /\ W!SymDiff(st.a.mask, {s}) = {}
    /\ st.r[Ix(s, n)].half = "lo" /\ st.r[Ix(s, n)].of = st.a.of
    /\ aes[st.a.of][1] = k

LEMMA UnwrapStepFacts ==
  ASSUME NEW N \in Nat, AesTable(N), NEW n \in Nat \ {0}, NEW s \in Nat \ {0}, NEW k,
         NEW st \in UnwrapStates(N, n)
  PROVE  /\ W!UnwrapStep(st, s, n, k) \in UnwrapStates(N, n)
         /\ Opens(st, s, n, k) =>
               W!UnwrapStep(st, s, n, k)
                 = [a |-> aes[st.a.of][2], r |-> [st.r EXCEPT ![Ix(s, n)] = aes[st.a.of][3]]]
         /\ ~Opens(st, s, n, k) => W!UnwrapStep(st, s, n, k).a.half = "noise"
<1>1. Ix(s, n) \in 1..n
  BY IxFacts
<1>2. PICK a \in Halves(N), r \in [1..n -> Halves(N)] : st = [a |-> a, r |-> r]
  BY DEF UnwrapStates
<1>3. PICK b \in Halves(N) : b = r[Ix(s, n)]
  BY <1>1, <1>2
<1>4. st.a = a /\ st.r = r /\ st.r[Ix(s, n)] = b
  BY <1>2, <1>3
<1>5. PICK d : d = W!AesDecrypt(aes, k, W!Xor(a, s), b)
  OBVIOUS
<1>6. W!UnwrapStep(st, s, n, k) = [a |-> d.a, r |-> [r EXCEPT ![Ix(s, n)] = d.r]]
  BY <1>4, <1>5 DEF W!UnwrapStep, Ix
<1>7. CASE Opens(st, s, n, k)
  <2>1. a.half = "hi" /\ W!SymDiff(a.mask, {s}) = {} /\ b.half = "lo" /\ b.of = a.of /\ aes[a.of][1] = k
    BY <1>4, <1>7 DEF Opens
  <2>2. W!Xor(a, s).half = "hi" /\ W!Xor(a, s).of = a.of /\ W!Xor(a, s).mask = {}
    BY <2>1, XorFacts
  <2>3. d.a = aes[a.of][2] /\ d.r = aes[a.of][3]
    BY <1>5, <2>1, <2>2 DEF W!AesDecrypt
  <2>4. a.of \in 1..N
    BY <2>1, HalfFacts
  <2>5. d.a \in Halves(N) /\ d.r \in Halves(N)
    BY <2>3, <2>4 DEF AesTable, Halves
  <2> QED
    BY <1>1, <1>4, <1>6, <1>7, <2>3, <2>5 DEF UnwrapStates
<1>8. CASE ~Opens(st, s, n, k)
  <2>1. ~(/\ W!Xor(a, s).half = "hi" /\ b.half = "lo" /\ W!Xor(a, s).of = b.of
          /\ W!Xor(a, s).mask = {} /\ aes[W!Xor(a, s).of][1] = k)
    <3>1. W!Xor(a, s).half = a.half /\ W!Xor(a, s).of = a.of
          /\ W!Xor(a, s).mask = W!SymDiff(a.mask, {s})
      BY XorFacts
    <3> QED
      BY <1>4, <1>8, <3>1 DEF Opens
  <2>2. d.a = Noise /\ d.r = Noise
    BY <1>5, <2>1 DEF W!AesDecrypt, Noise
  <2>3. Noise \in Halves(N) /\ Noise.half = "noise"
    BY DEF Noise, W!Half, Halves
  <2> QED
    BY <1>1, <1>6, <1>8, <2>2, <2>3 DEF UnwrapStates
<1> QED
  BY <1>7, <1>8

LEMMA GreatestNumber ==
  ASSUME NEW N \in Nat, NEW T, T \subseteq 0..N, T # {}
  PROVE  \E n \in T : \A m \in T : m <= n
<1> DEFINE U == {N - t : t \in T}
<1>1. U \subseteq Nat /\ U # {}
  <2>1. \A t \in T : t \in 0..N /\ N - t \in Nat
    OBVIOUS
  <2> QED
    BY <2>1
<1>2. PICK u \in U : \A v \in U : u <= v
  <2> HIDE DEF U
  <2> QED
    BY <1>1, LeastNumber
<1>3. PICK n \in T : u = N - n
  BY <1>2
<1>4. ASSUME NEW m \in T PROVE m <= n
  <2>1. N - m \in U
    OBVIOUS
  <2>2. m \in 0..N /\ n \in 0..N
    OBVIOUS
  <2>3. N - n <= N - m
    BY <1>2, <1>3, <2>1
  <2> QED
    BY <2>2, <2>3
<1> QED
  BY <1>4

\* The registers before the steps of AES_key_unwrap, from the last one back.
Undoes(b, st, N, n, k) ==
    /\ b \in [1..(6 * n + 1) -> UnwrapStates(N, n)]
    /\ b[6 * n + 1] = st
    /\ \A s \in 1..(6 * n) : b[s] = W!UnwrapStep(b[s + 1], s, n, k)

LEMMA UnwrapUndoes ==
  ASSUME NEW N \in Nat, AesTable(N), NEW n \in Nat \ {0}, NEW k, NEW st \in UnwrapStates(N, n)
  PROVE  \E b : Undoes(b, st, N, n, k) /\ W!Unwrapped(st, n, k) = b[1]
<1> DEFINE V == UnwrapStates(N, n)
           L == 6 * n
           h == [sw \in (1..L) \X V |-> W!UnwrapStep(sw[2], (L + 1) - sw[1], n, k)]
           Rec(f) == [s \in 1..(L + 1) |-> IF s > L THEN st ELSE W!UnwrapStep(f[s + 1], s, n, k)]
           before == CHOOSE f : f = Rec(f)
<1>0. L \in Nat /\ \A i \in 1..L : (L + 1) - i \in 1..L
  OBVIOUS
<1>1. \A s \in 1..L, w \in V : W!UnwrapStep(w, s, n, k) \in V
  <2> SUFFICES ASSUME NEW s \in 1..L, NEW w \in V PROVE W!UnwrapStep(w, s, n, k) \in V
    OBVIOUS
  <2>1. s \in Nat \ {0}
    BY <1>0
  <2> HIDE DEF L
  <2> QED
    BY <2>1, UnwrapStepFacts
<1>2. h \in [(1..L) \X V -> V]
  <2> HIDE DEF V, L
  <2> QED
    BY <1>0, <1>1
<1>3. PICK g \in [0..L -> V] : g[0] = st /\ \A i \in 1..L : g[i] = h[<<i, g[i - 1]>>]
  <2> HIDE DEF V, L, h
  <2>1. h \in Steps(L, V) /\ st \in V
    BY <1>2 DEF Steps, V
  <2>2. \E g : Loop(g, L, V, st, h)
    BY <1>0, <2>1, Iterates
  <2> QED
    BY <2>2 DEF Loop
<1>4. \A i \in 1..L : g[i] = W!UnwrapStep(g[i - 1], (L + 1) - i, n, k)
  <2> HIDE DEF V, L
  <2>1. ASSUME NEW i \in 1..L PROVE g[i] = W!UnwrapStep(g[i - 1], (L + 1) - i, n, k)
    <3> HIDE DEF h
    <3>1. g[i - 1] \in V /\ g[i] = h[<<i, g[i - 1]>>]
      <4>1. i - 1 \in 0..L
        BY <1>0
      <4> QED
        BY <1>3, <4>1
    <3>2. h[<<i, g[i - 1]>>] = W!UnwrapStep(g[i - 1], (L + 1) - i, n, k)
      BY <3>1 DEF h
    <3> QED
      BY <3>1, <3>2
  <2> QED
    BY <2>1
<1> DEFINE b == [s \in 1..(L + 1) |-> g[(L + 1) - s]]
<1>5. b = Rec(b)
  <2> HIDE DEF V, L, h
  <2>1. ASSUME NEW s \in 1..(L + 1) PROVE b[s] = Rec(b)[s]
    <3>1. CASE s > L
      <4>1. s = L + 1 /\ b[s] = g[0]
        BY <1>0, <3>1
      <4> QED
        BY <1>3, <3>1, <4>1
    <3>2. CASE ~(s > L)
      <4>1. s + 1 \in 1..(L + 1) /\ (L + 1) - s \in 1..L
        BY <1>0, <3>2
      <4>2. b[s + 1] = g[((L + 1) - s) - 1] /\ b[s] = g[(L + 1) - s] /\ (L + 1) - ((L + 1) - s) = s
        BY <1>0, <4>1
      <4>3. b[s] = W!UnwrapStep(b[s + 1], s, n, k)
        <5> HIDE DEF b
        <5> QED
          BY <1>4, <4>1, <4>2
      <4> HIDE DEF b
      <4> QED
        BY <3>2, <4>3
    <3> QED
      BY <3>1, <3>2
  <2>2. Rec(b) = [s \in 1..(L + 1) |-> Rec(b)[s]] /\ b = [s \in 1..(L + 1) |-> b[s]]
    OBVIOUS
  <2> HIDE DEF b, Rec
  <2> QED
    BY <2>1, <2>2
<1>6. before = Rec(before)
  <2> HIDE DEF Rec, b
  <2> QED
    BY <1>5
<1>7. W!Unwrapped(st, n, k) = before[1]
  BY DEF W!Unwrapped
<1> HIDE DEF before, b
<1>8. /\ before[L + 1] = st
      /\ \A s \in 1..L : before[s] = W!UnwrapStep(before[s + 1], s, n, k)
  <2> HIDE DEF L
  <2>1. \A s \in 1..(L + 1) : before[s] = Rec(before)[s]
    BY <1>6
  <2> QED
    BY <1>0, <2>1
<1>9. \A s \in 1..(L + 1) : before[s] \in V
  <2> HIDE DEF V, L
  <2> DEFINE T == {s \in 1..(L + 1) : before[s] \notin V}
  <2>1. SUFFICES ASSUME T # {} PROVE FALSE
    OBVIOUS
  <2>2. PICK s \in T : \A t \in T : t <= s
    <3>1. T \subseteq 0..(L + 1) /\ L + 1 \in Nat
      BY <1>0
    <3> HIDE DEF T
    <3> QED
      BY <2>1, <3>1, GreatestNumber
  <2>3. s # L + 1
    BY <1>8, <2>2 DEF V
  <2>4. s \in 1..L /\ s + 1 \in 1..(L + 1) /\ s + 1 \notin T
    BY <1>0, <2>2, <2>3
  <2>5. before[s] \in V
    BY <1>1, <1>8, <2>4
  <2> QED
    BY <2>2, <2>5
<1>10. before = [s \in 1..(L + 1) |-> before[s]]
  BY <1>6
<1>11. before \in [1..(L + 1) -> V]
  <2> HIDE DEF V, L
  <2> QED
    BY <1>9, <1>10
<1> QED
  BY <1>7, <1>8, <1>11 DEF Undoes

LEMMA TraceTable ==
  ASSUME NEW n \in Nat \ {0}, NEW m \in Nat, NEW k, NEW A, NEW R, Trace(A, R, aes, n, m, k)
  PROVE  AesTable(6 * n)
<1> SUFFICES ASSUME NEW t \in 1..(6 * n) PROVE aes[t][2] \in High(6 * n) /\ aes[t][3] \in Low
  BY DEF AesTable
<1>1. t - 1 \in 0..(6 * n) /\ Ix(t, n) \in 1..n
  BY IxFacts
<1>2. A[t - 1] \in High(6 * n) /\ R[t - 1] \in [1..n -> Low]
  BY <1>1 DEF Trace
<1>3. aes[t] = <<k, A[t - 1], R[t - 1][Ix(t, n)]>>
  BY DEF Trace
<1> QED
  BY <1>1, <1>2, <1>3

\* Once the left half has no meaning it never has one again.
LEMMA StaysNoise ==
  ASSUME NEW N \in Nat, AesTable(N), NEW n \in Nat \ {0}, NEW k, NEW st, NEW b,
         Undoes(b, st, N, n, k), NEW t \in 1..(6 * n), b[t].a.half = "noise"
  PROVE  b[1].a.half = "noise"
<1> DEFINE T == {s \in 1..t : b[s].a.half # "noise"}
<1>1. SUFFICES ASSUME T # {} PROVE FALSE
  OBVIOUS
<1>2. PICK s \in T : \A u \in T : u <= s
  <2>1. T \subseteq 0..t /\ t \in Nat
    OBVIOUS
  <2> HIDE DEF T
  <2> QED
    BY <1>1, <2>1, GreatestNumber
<1>3. s # t /\ s + 1 \in 1..t /\ s + 1 \notin T /\ s \in 1..(6 * n) /\ s + 1 \in 1..(6 * n + 1)
  BY <1>2
<1>4. b[s + 1].a.half = "noise"
  BY <1>3
<1>5. b[s] = W!UnwrapStep(b[s + 1], s, n, k) /\ b[s + 1] \in UnwrapStates(N, n)
  BY <1>3 DEF Undoes
<1>6. ~Opens(b[s + 1], s, n, k)
  BY <1>4 DEF Opens
<1>7. b[s].a.half = "noise"
  <2>1. s \in Nat \ {0}
    BY <1>3
  <2> QED
    BY <1>5, <1>6, <2>1, UnwrapStepFacts
<1> QED
  BY <1>2, <1>7

\* A text whose last step does not decrypt is lost.
LEMMA FirstStepFails ==
  ASSUME NEW N \in Nat, AesTable(N), NEW n \in Nat \ {0}, NEW k, NEW st, NEW b,
         Undoes(b, st, N, n, k), ~Opens(st, 6 * n, n, k)
  PROVE  b[1].a.half = "noise"
<1>1. 6 * n \in 1..(6 * n) /\ 6 * n + 1 \in 1..(6 * n + 1) /\ 6 * n \in Nat \ {0}
  OBVIOUS
<1>2. b[6 * n] = W!UnwrapStep(st, 6 * n, n, k) /\ st \in UnwrapStates(N, n)
  BY <1>1 DEF Undoes
<1>3. b[6 * n].a.half = "noise"
  BY <1>1, <1>2, UnwrapStepFacts
<1> QED
  BY <1>1, <1>3, StaysNoise

\* With the key it was wrapped with, a step takes the registers back to what
\* they were, if the one it decrypts is as the wrapping left it.
LEMMA StepBack ==
  ASSUME NEW n \in Nat \ {0}, NEW m \in Nat, NEW k, NEW A, NEW R, Trace(A, R, aes, n, m, k),
         NEW s \in 1..(6 * n), NEW st \in UnwrapStates(6 * n, n), st.a = A[s]
  PROVE  /\ st.r[Ix(s, n)] = W!Half(s, "lo") =>
               W!UnwrapStep(st, s, n, k)
                 = [a |-> A[s - 1], r |-> [st.r EXCEPT ![Ix(s, n)] = R[s - 1][Ix(s, n)]]]
         /\ st.r[Ix(s, n)] # W!Half(s, "lo") => W!UnwrapStep(st, s, n, k).a.half = "noise"
<1>1. Ix(s, n) \in 1..n /\ s \in Nat \ {0} /\ 6 * n \in Nat /\ AesTable(6 * n)
  BY IxFacts, TraceTable
<1>2. A[s] = W!Xor(W!Half(s, "hi"), s) /\ aes[s] = <<k, A[s - 1], R[s - 1][Ix(s, n)]>>
  BY DEF Trace
<1>3. st.a.half = "hi" /\ st.a.of = s /\ W!SymDiff(st.a.mask, {s}) = {}
  BY <1>2 DEF W!Xor, W!Half, W!SymDiff
<1>4. aes[s][1] = k /\ aes[s][2] = A[s - 1] /\ aes[s][3] = R[s - 1][Ix(s, n)]
  BY <1>2
<1>5. CASE st.r[Ix(s, n)] = W!Half(s, "lo")
  <2>0. W!Half(s, "lo").half = "lo" /\ W!Half(s, "lo").of = s
    BY DEF W!Half
  <2>1. Opens(st, s, n, k)
    BY <1>3, <1>4, <1>5, <2>0, Zenon DEF Opens
  <2> QED
    BY <1>1, <1>3, <1>4, <1>5, <2>1, UnwrapStepFacts
<1>6. CASE st.r[Ix(s, n)] # W!Half(s, "lo")
  <2>1. PICK h \in Halves(6 * n) : h = st.r[Ix(s, n)]
    BY <1>1 DEF UnwrapStates
  <2>2. ~(h.half = "lo" /\ h.of = s)
    BY <1>1, <1>6, <2>1, HalfFacts
  <2>3. ~Opens(st, s, n, k)
    BY <1>3, <2>1, <2>2 DEF Opens
  <2> QED
    BY <1>1, <1>6, <2>3, UnwrapStepFacts
<1> QED
  BY <1>5, <1>6

\* A register has its half block of the text or the right half of one of the
\* steps that are its own, so no two are the same.
LEMMA RegistersDiffer ==
  ASSUME NEW n \in Nat \ {0}, NEW m \in Nat, NEW k, NEW A, NEW R, Trace(A, R, aes, n, m, k),
         NEW i \in 1..n, NEW j \in 1..n, i # j
  PROVE  R[6 * n][i] # R[6 * n][j]
<1> DEFINE L == 6 * n
           Own(s, q) == \/ R[s][q] = W!Text(q)
                        \/ \E t \in 1..s : Ix(t, n) = q /\ R[s][q] = W!Half(t, "lo")
           T == {s \in 0..L : \E q \in 1..n : ~Own(s, q)}
<1>1. T = {}
  <2> SUFFICES ASSUME T # {} PROVE FALSE
    OBVIOUS
  <2>1. PICK s \in T : \A t \in T : s <= t
    <3>1. T \subseteq Nat
      OBVIOUS
    <3> HIDE DEF T
    <3> QED
      BY <3>1, LeastNumber
  <2>2. PICK q \in 1..n : ~Own(s, q)
    <3> HIDE DEF Own
    <3> QED
      BY <2>1
  <2>3. s # 0
    BY <2>2 DEF Trace
  <2>4. s \in 1..L /\ s - 1 \in 0..L /\ s - 1 \notin T
    BY <2>1, <2>3
  <2>5. Own(s - 1, q)
    <3> HIDE DEF Own
    <3> QED
      BY <2>4
  <2>6. R[s] = [R[s - 1] EXCEPT ![Ix(s, n)] = W!Half(s, "lo")] /\ R[s - 1] \in [1..n -> Low]
    BY <2>4 DEF Trace
  <2>7. CASE q = Ix(s, n)
    <3>1. R[s][q] = W!Half(s, "lo") /\ s \in 1..s
      BY <2>4, <2>6, <2>7
    <3> QED
      BY <2>2, <2>7, <3>1
  <2>8. CASE q # Ix(s, n)
    <3>1. R[s][q] = R[s - 1][q] /\ \A t \in 1..(s - 1) : t \in 1..s
      BY <2>4, <2>6, <2>8
    <3> QED
      BY <2>2, <2>5, <3>1
  <2> QED
    BY <2>7, <2>8
<1>2. L \in 0..L
  OBVIOUS
<1>3. Own(L, i) /\ Own(L, j)
  <2> HIDE DEF Own
  <2> QED
    BY <1>1, <1>2
<1>4. /\ \A t, u : W!Half(t, "lo") = W!Half(u, "lo") => t = u
      /\ \A t, q : W!Text(q) # W!Half(t, "lo")
      /\ W!Text(i) # W!Text(j)
  BY DEF W!Text, W!Half
<1> QED
  BY <1>3, <1>4, Zenon

\* With its key, a text that did not change unwraps to what was wrapped.
LEMMA UnwrapsBack ==
  ASSUME NEW n \in Nat \ {0}, NEW m \in Nat, NEW k, NEW A, NEW R, Trace(A, R, aes, n, m, k),
         NEW b, Undoes(b, [a |-> A[6 * n], r |-> R[6 * n]], 6 * n, n, k)
  PROVE  b[1] = [a |-> W!Header(m), r |-> [i \in 1..n |-> W!Text(i)]]
<1> DEFINE L == 6 * n
           T == {s \in 0..L : b[s + 1] # [a |-> A[s], r |-> R[s]]}
<1>1. T = {}
  <2> SUFFICES ASSUME T # {} PROVE FALSE
    OBVIOUS
  <2>1. PICK s \in T : \A t \in T : t <= s
    <3>1. T \subseteq 0..L /\ L \in Nat
      OBVIOUS
    <3> HIDE DEF T, L
    <3> QED
      BY <3>1, GreatestNumber
  <2>2. s # L
    BY <2>1 DEF Undoes
  <2>3. s + 1 \in 1..L /\ s + 1 \notin T /\ s + 1 \in 0..L /\ (s + 1) + 1 \in 1..(L + 1)
    BY <2>1, <2>2
  <2>4. PICK z \in 1..L : z = s + 1
    BY <2>3
  <2>5. b[z + 1] = [a |-> A[z], r |-> R[z]] /\ b[z + 1] \in UnwrapStates(L, n)
        /\ b[z] = W!UnwrapStep(b[z + 1], z, n, k)
    BY <2>3, <2>4 DEF Undoes
  <2>6. R[z] = [R[z - 1] EXCEPT ![Ix(z, n)] = W!Half(z, "lo")] /\ R[z - 1] \in [1..n -> Low]
    <3>1. z - 1 \in 0..L
      BY <2>4
    <3> QED
      BY <2>4, <3>1 DEF Trace
  <2>7. Ix(z, n) \in 1..n
    BY <2>4, IxFacts
  <2>8. b[z + 1].a = A[z] /\ b[z + 1].r = R[z] /\ R[z][Ix(z, n)] = W!Half(z, "lo")
    BY <2>5, <2>6, <2>7
  <2>9. b[z] = [a |-> A[z - 1], r |-> [R[z] EXCEPT ![Ix(z, n)] = R[z - 1][Ix(z, n)]]]
    BY <2>4, <2>5, <2>8, StepBack
  <2>10. [R[z] EXCEPT ![Ix(z, n)] = R[z - 1][Ix(z, n)]] = R[z - 1]
    BY <2>6, <2>7
  <2>11. b[s + 1] = [a |-> A[s], r |-> R[s]]
    <3>1. z - 1 = s
      BY <2>1, <2>4
    <3> QED
      BY <2>4, <2>9, <2>10, <3>1
  <2> QED
    BY <2>1, <2>11
<1>2. b[1] = [a |-> A[0], r |-> R[0]]
  <2>1. 0 \in 0..L /\ 0 + 1 = 1
    OBVIOUS
  <2> QED
    BY <1>1, <2>1
<1> QED
  BY <1>2 DEF Trace

\* With its key, a text with half blocks in other places does not: the last
\* step that decrypts one of them fails.
LEMMA MovedFails ==
  ASSUME NEW n \in Nat \ {0}, NEW m \in Nat, NEW k, NEW A, NEW R, Trace(A, R, aes, n, m, k),
         NEW st, NEW b, Undoes(b, st, 6 * n, n, k),
         st.a = A[6 * n], NEW q \in 1..n, st.r[q] # R[6 * n][q]
  PROVE  b[1].a.half = "noise"
<1> DEFINE L == 6 * n
           Moved(s, p) == p <= s /\ b[s + 1].r[p] # R[s][p]
           P(s) == \/ b[s + 1].a.half = "noise"
                   \/ b[s + 1].a = A[s] /\ \E p \in 1..n : Moved(s, p)
           T == {s \in 0..L : ~P(s)}
<1>1. T = {}
  <2> SUFFICES ASSUME T # {} PROVE FALSE
    OBVIOUS
  <2>1. PICK s \in T : \A t \in T : t <= s
    <3>1. T \subseteq 0..L /\ L \in Nat
      OBVIOUS
    <3> HIDE DEF T, L
    <3> QED
      BY <3>1, GreatestNumber
  <2>2. s # L
    <3>1. b[L + 1] = st /\ q <= L
      BY DEF Undoes
    <3>2. P(L)
      BY <3>1
    <3> HIDE DEF P
    <3> QED
      BY <2>1, <3>2
  <2>3. PICK z \in 1..L : z = s + 1 /\ z - 1 = s /\ z \in 0..L /\ z \notin T
    BY <2>1, <2>2, SMTT(30)
  <2>4. P(z)
    <3> HIDE DEF P
    <3> QED
      BY <2>3
  <2>5. b[z + 1] \in UnwrapStates(L, n) /\ b[z] = W!UnwrapStep(b[z + 1], z, n, k)
    BY <2>3 DEF Undoes
  <2>6. z \in Nat \ {0} /\ L \in Nat /\ AesTable(L) /\ Ix(z, n) \in 1..n /\ (z <= n => Ix(z, n) = z)
    BY <2>3, IxFacts, TraceTable
  <2>7. CASE b[z + 1].a.half = "noise"
    <3>1. ~Opens(b[z + 1], z, n, k)
      BY <2>7 DEF Opens
    <3>2. b[z].a.half = "noise"
      <4> HIDE DEF L
      <4> QED
        BY <2>5, <2>6, <3>1, UnwrapStepFacts
    <3> QED
      BY <2>1, <2>3, <3>2
  <2>8. CASE b[z + 1].a = A[z] /\ \E p \in 1..n : Moved(z, p)
    <3>1. PICK p \in 1..n : Moved(z, p)
      BY <2>8
    <3>2. PICK w \in UnwrapStates(L, n) : w = b[z + 1] /\ w.a = A[z]
      BY <2>5, <2>8
    <3>3. CASE w.r[Ix(z, n)] # W!Half(z, "lo")
      <4>1. b[z].a.half = "noise"
        BY <2>3, <2>5, <3>2, <3>3, StepBack
      <4> QED
        BY <2>1, <2>3, <4>1
    <3>4. CASE w.r[Ix(z, n)] = W!Half(z, "lo")
      <4>1. b[z] = [a |-> A[z - 1], r |-> [w.r EXCEPT ![Ix(z, n)] = R[z - 1][Ix(z, n)]]]
        <5>1. z \in 1..(6 * n) /\ w \in UnwrapStates(6 * n, n) /\ w.a = A[z]
          BY <2>3, <3>2
        <5>2. W!UnwrapStep(w, z, n, k)
                = [a |-> A[z - 1], r |-> [w.r EXCEPT ![Ix(z, n)] = R[z - 1][Ix(z, n)]]]
          <6> HIDE DEF L, P, T
          <6> QED
            BY <3>4, <5>1, StepBack
        <5> QED
          BY <2>5, <3>2, <5>2, Zenon
      <4>2. R[z] = [R[z - 1] EXCEPT ![Ix(z, n)] = W!Half(z, "lo")] /\ R[z - 1] \in [1..n -> Low]
        BY <2>3 DEF Trace
      <4>3. p # Ix(z, n)
        BY <2>6, <3>1, <3>2, <3>4, <4>2
      <4>4. p <= z - 1
        BY <2>6, <3>1, <4>3
      <4>5. w.r \in [1..n -> Halves(L)]
        BY DEF UnwrapStates
      <4>6. b[z].a = A[z - 1] /\ b[z].r[p] = w.r[p] /\ R[z - 1][p] = R[z][p]
        BY <2>6, <4>1, <4>2, <4>3, <4>5
      <4>7. Moved(s, p) /\ b[s + 1].a = A[s]
        BY <2>3, <3>1, <3>2, <4>4, <4>6
      <4> HIDE DEF Moved
      <4> QED
        BY <2>1, <4>7
    <3> QED
      BY <3>3, <3>4
  <2> QED
    BY <2>4, <2>7, <2>8
<1>2. P(0)
  <2>1. 0 \in 0..L
    OBVIOUS
  <2> HIDE DEF P
  <2> QED
    BY <1>1, <2>1
<1>3. 0 + 1 = 1 /\ \A p \in 1..n : ~(p <= 0)
  OBVIOUS
<1> QED
  BY <1>2, <1>3

\* The wrapped text of one half block, and of more.
OneBlock ==
    /\ aes = <<<<key, W!Header(size), W!Text(1)>>>>
    /\ cipher = IF changed THEN <<W!Half(1, "lo"), W!Half(1, "hi")>>
                ELSE <<W!Half(1, "hi"), W!Half(1, "lo")>>

Blocks(A, R, n) ==
    /\ Trace(A, R, aes, n, size, key)
    /\ cipher \in Seq(Halves(6 * n)) /\ Len(cipher) \in {n, n + 1}
    /\ ~changed => Len(cipher) = n + 1 /\ cipher[1] = A[6 * n] /\ Tail(cipher) = R[6 * n]
    /\ changed =>
          \/ cipher[1].half # "hi"
          \/ Len(cipher) = n /\ cipher[1] = A[6 * n]
          \/ /\ Len(cipher) = n + 1 /\ cipher[1] = A[6 * n]
             /\ \E q \in 1..n : Tail(cipher)[q] # R[6 * n][q]

WrapInv ==
    /\ key \in Keys /\ changed \in BOOLEAN
    /\ cipher = <<>> => aes = <<>> /\ ~changed /\ unwrapped.by = "none"
    /\ cipher # <<>> =>
          /\ size \in Sizes
          /\ W!Blocks(size) = 1 => OneBlock
          /\ W!Blocks(size) # 1 => \E A, R : Blocks(A, R, W!Blocks(size))
    /\ UnwrapGivesWrapped

\* What the loops of AES_key_unwrap end with.
Opened(k) ==
    /\ k = key /\ ~changed =>
          /\ Len(cipher) - 1 = W!Blocks(size)
          /\ W!Registers(k) = [a |-> W!Header(size), r |-> [i \in 1..W!Blocks(size) |-> W!Text(i)]]
    /\ ~(k = key /\ ~changed) => W!Registers(k).a.half = "noise"

LEMMA OneBlockOpened ==
  ASSUME NEW k, OneBlock, changed \in BOOLEAN, W!Blocks(size) = 1
  PROVE  Opened(k)
<1>1. CASE changed
  <2>1. Len(cipher) - 1 = 1 /\ cipher[1] = W!Half(1, "lo") /\ cipher[2] = W!Half(1, "hi")
    BY <1>1 DEF OneBlock
  <2>2. W!AesDecrypt(aes, k, cipher[1], cipher[2]) = [a |-> Noise, r |-> Noise]
    BY <2>1 DEF W!AesDecrypt, W!Half, Noise
  <2>3. W!Registers(k).a = Noise
    BY <2>1, <2>2 DEF W!Registers
  <2> QED
    BY <1>1, <2>3 DEF Opened, Noise, W!Half
<1>2. CASE ~changed
  <2>1. Len(cipher) - 1 = 1 /\ cipher[1] = W!Half(1, "hi") /\ cipher[2] = W!Half(1, "lo")
    BY <1>2 DEF OneBlock
  <2>2. aes[1][1] = key /\ aes[1][2] = W!Header(size) /\ aes[1][3] = W!Text(1)
    BY DEF OneBlock
  <2>3. CASE k = key
    <3>1. W!AesDecrypt(aes, k, cipher[1], cipher[2]) = [a |-> W!Header(size), r |-> W!Text(1)]
      BY <2>1, <2>2, <2>3 DEF W!AesDecrypt, W!Half
    <3>2. W!Registers(k) = [a |-> W!Header(size), r |-> <<W!Text(1)>>]
      BY <2>1, <3>1 DEF W!Registers
    <3>3. <<W!Text(1)>> = [i \in 1..1 |-> W!Text(i)]
      OBVIOUS
    <3> QED
      BY <1>2, <2>1, <2>3, <3>2, <3>3 DEF Opened
  <2>4. CASE k # key
    <3>1. W!AesDecrypt(aes, k, cipher[1], cipher[2]) = [a |-> Noise, r |-> Noise]
      BY <2>1, <2>2, <2>4 DEF W!AesDecrypt, W!Half, Noise
    <3>2. W!Registers(k).a = Noise
      BY <2>1, <3>1 DEF W!Registers
    <3> QED
      BY <2>4, <3>2 DEF Opened, Noise, W!Half
  <2> QED
    BY <2>3, <2>4
<1> QED
  BY <1>1, <1>2

LEMMA BlocksOpened ==
  ASSUME NEW n \in Nat \ {0, 1}, n = W!Blocks(size), size \in Nat, changed \in BOOLEAN,
         NEW A, NEW R, Blocks(A, R, n), NEW k
  PROVE  Opened(k)
<1> DEFINE N == 6 * n
           c == Len(cipher) - 1
           st == [a |-> cipher[1], r |-> Tail(cipher)]
<1>0. Trace(A, R, aes, n, size, key) /\ AesTable(N) /\ N \in Nat /\ n \in Nat \ {0} /\ N \in 0..N
      /\ N \in 1..N
  <2>1. N \in Nat /\ n \in Nat \ {0} /\ N \in 0..N /\ N \in 1..N
    OBVIOUS
  <2>2. Trace(A, R, aes, n, size, key)
    BY DEF Blocks
  <2>3. AesTable(N)
    BY <2>1, <2>2, TraceTable
  <2> QED
    BY <2>1, <2>2, <2>3
<1>1. A[N] = W!Xor(W!Half(N, "hi"), N) /\ R[N] \in [1..n -> Low]
  BY <1>0 DEF Trace
<1>2. A[N].half = "hi" /\ A[N].of = N /\ A[N].mask = {N}
  BY <1>1 DEF W!Xor, W!Half, W!SymDiff
<1>3. cipher \in Seq(Halves(N)) /\ Len(cipher) \in {n, n + 1} /\ c \in Nat \ {0}
      /\ Tail(cipher) \in [1..c -> Halves(N)] /\ cipher[1] \in Halves(N)
      /\ Tail(cipher)[1] = cipher[2] /\ cipher[2] \in Halves(N)
  <2>1. PICK H : H = Halves(N)
    OBVIOUS
  <2>2. cipher \in Seq(H) /\ Len(cipher) \in {n, n + 1}
    BY <2>1 DEF Blocks
  <2>3. c \in Nat \ {0} /\ Len(cipher) \in Nat /\ Len(cipher) >= 2
    <3>1. PICK l : l = Len(cipher)
      OBVIOUS
    <3>2. l \in Nat /\ l >= 2 /\ l - 1 \in Nat \ {0}
      BY <2>2, <3>1
    <3> QED
      BY <3>1, <3>2
  <2>4. cipher # <<>> /\ cipher[1] \in H /\ cipher[2] \in H
    BY <2>2, <2>3
  <2>5. Tail(cipher) \in Seq(H) /\ Len(Tail(cipher)) = c
        /\ \A i \in 1..c : Tail(cipher)[i] = cipher[i + 1]
    BY <2>2, <2>4
  <2>6. Tail(cipher) \in [1..c -> H]
    <3> HIDE DEF c
    <3>1. PICK u \in Seq(H) : u = Tail(cipher)
      BY <2>5
    <3>2. u \in [1..Len(u) -> H]
      OBVIOUS
    <3> QED
      BY <2>5, <3>1, <3>2
  <2>7. Tail(cipher)[1] = cipher[2]
    BY <2>3, <2>5
  <2> QED
    BY <2>1, <2>2, <2>3, <2>4, <2>6, <2>7
<1>4. st \in UnwrapStates(N, c)
  <2> HIDE DEF N, c
  <2> QED
    BY <1>3 DEF UnwrapStates
<1>5. ASSUME c = 1 PROVE Opened(k)
  <2>1. changed /\ (cipher[1].half # "hi" \/ cipher[1] = A[N])
    BY <1>3, <1>5 DEF Blocks
  <2>2. ~(cipher[1].half = "hi" /\ cipher[1].mask = {})
    BY <1>2, <2>1
  <2>3. W!AesDecrypt(aes, k, cipher[1], cipher[2]) = [a |-> Noise, r |-> Noise]
    BY <2>2 DEF W!AesDecrypt, Noise
  <2>4. W!Registers(k).a = Noise
    BY <1>5, <2>3 DEF W!Registers
  <2> QED
    BY <2>1, <2>4 DEF Opened, Noise, W!Half
<1>6. ASSUME c # 1 PROVE Opened(k)
  <2> HIDE DEF N, c, st
  <2>1. PICK b : Undoes(b, st, N, c, k) /\ W!Unwrapped(st, c, k) = b[1]
    BY <1>0, <1>3, <1>4, UnwrapUndoes
  <2>2. W!Registers(k) = b[1]
    BY <1>6, <2>1 DEF W!Registers, c, st
  <2>3. CASE k = key /\ ~changed
    <3>1. c = n /\ st = [a |-> A[N], r |-> R[N]]
      <4>1. Len(cipher) = n + 1 /\ cipher[1] = A[N] /\ Tail(cipher) = R[N]
        BY <2>3 DEF Blocks, N
      <4> QED
        BY <4>1, SMTT(30) DEF c, st
    <3>2. b[1] = [a |-> W!Header(size), r |-> [i \in 1..n |-> W!Text(i)]]
      BY <1>0, <2>1, <2>3, <3>1, UnwrapsBack DEF N
    <3> QED
      BY <2>2, <2>3, <3>1, <3>2 DEF Opened, c
  <2>4. CASE k = key /\ changed /\ c = n /\ cipher[1] = A[N]
    <3>1. PICK q \in 1..n : Tail(cipher)[q] # R[N][q]
      BY <1>2, <2>4 DEF Blocks, c, N
    <3>2. st.a = A[N] /\ st.r[q] # R[N][q]
      BY <2>4, <3>1 DEF st
    <3>3. b[1].a.half = "noise"
      BY <1>0, <2>1, <2>4, <3>2, MovedFails DEF N
    <3> QED
      BY <2>2, <2>4, <3>3 DEF Opened
  <2>5. CASE k # key \/ (changed /\ ~(c = n /\ cipher[1] = A[N]))
    <3>1. ~Opens(st, 6 * c, c, k)
      <4>1. CASE k # key
        <5>1. ASSUME cipher[1].half = "hi" PROVE aes[cipher[1].of][1] = key
          <6>1. cipher[1].of \in 1..N
            BY <1>0, <1>3, <5>1, HalfFacts
          <6>2. aes[cipher[1].of]
                  = <<key, A[cipher[1].of - 1], R[cipher[1].of - 1][Ix(cipher[1].of, n)]>>
            BY <1>0, <6>1 DEF Trace, N
          <6> QED
            BY <6>2
        <5> QED
          BY <4>1, <5>1 DEF Opens, st
      <4>2. CASE changed /\ cipher[1].half # "hi"
        BY <4>2 DEF Opens, st
      <4>3. CASE changed /\ cipher[1] = A[N] /\ c # n
        <5>1. c = n - 1 /\ N # 6 * c
          BY <1>3, <4>3 DEF c, N
        <5>2. N \in W!SymDiff(cipher[1].mask, {6 * c})
          BY <1>2, <4>3, <5>1 DEF W!SymDiff
        <5> QED
          BY <5>2 DEF Opens, st
      <4> QED
        BY <2>5, <4>1, <4>2, <4>3 DEF Blocks, c, N
    <3>2. b[1].a.half = "noise"
      BY <1>0, <1>3, <2>1, <3>1, FirstStepFails
    <3> QED
      BY <2>2, <2>5, <3>2 DEF Opened
  <2> QED
    BY <2>3, <2>4, <2>5
<1> QED
  BY <1>5, <1>6

\* An unwrapping that accepted the size of the text, or did not.
LEMMA UnwrapKeeps ==
  ASSUME NEW k \in Keys, Opened(k), size \in Nat \ {0}, UNCHANGED <<size, key, changed>>,
         unwrapped'.key = k,
         unwrapped'.ok => /\ W!Registers(k).a.half = "A65959A6"
                          /\ unwrapped'.size = W!Registers(k).a.of
                          /\ unwrapped'.text = W!Registers(k).r,
         W!Registers(k).a = W!Header(size) /\ Len(cipher) - 1 = W!Blocks(size) =>
            (unwrapped'.by = "openssl" \/ size % 8 # 0 => unwrapped'.ok)
  PROVE  UnwrapGivesWrapped'
<1> DEFINE text == [i \in 1..W!Blocks(size) |-> W!Text(i)]
<1>1. text' = text
  BY DEF W!Blocks, W!Text, W!Half
<1>2. CASE k = key /\ ~changed
  <2>1. Len(cipher) - 1 = W!Blocks(size) /\ W!Registers(k) = [a |-> W!Header(size), r |-> text]
    BY <1>2 DEF Opened
  <2>2. W!Registers(k).a = W!Header(size) /\ W!Registers(k).r = text /\ W!Header(size).of = size
    <3> HIDE DEF text
    <3> QED
      BY <2>1 DEF W!Header, W!Half
  <2> HIDE DEF text
  <2>3. /\ unwrapped'.ok => unwrapped'.size = size /\ unwrapped'.text = text
        /\ unwrapped'.by = "openssl" \/ size % 8 # 0 => unwrapped'.ok
    BY <2>1, <2>2
  <2> QED
    BY <1>1, <1>2, <2>3 DEF UnwrapGivesWrapped, text
<1>3. CASE ~(k = key /\ ~changed)
  <2>1. ~unwrapped'.ok
    BY <1>3 DEF Opened
  <2> QED
    BY <1>3, <2>1 DEF UnwrapGivesWrapped
<1> QED
  BY <1>2, <1>3

LEMMA WrapOpened ==
  ASSUME WrapInv, cipher # <<>>, NEW k \in Keys
  PROVE  Opened(k) /\ size \in Nat \ {0} /\ W!Blocks(size) \in Nat \ {0}
         /\ 8 * (W!Blocks(size) - 1) < size /\ size <= 8 * W!Blocks(size)
<1>1. size \in Nat \ {0}
  BY CryptoAssumption DEF WrapInv
<1>2. W!Blocks(size) \in Nat \ {0} /\ 8 * (W!Blocks(size) - 1) < size /\ size <= 8 * W!Blocks(size)
  BY <1>1 DEF W!Blocks
<1>3. CASE W!Blocks(size) = 1
  BY <1>1, <1>2, <1>3, OneBlockOpened DEF WrapInv
<1>4. CASE W!Blocks(size) # 1
  <2>1. PICK A, R : Blocks(A, R, W!Blocks(size))
    BY <1>4 DEF WrapInv
  <2>2. PICK n \in Nat \ {0, 1} : n = W!Blocks(size)
    BY <1>2, <1>4
  <2>3. size \in Nat /\ changed \in BOOLEAN /\ Blocks(A, R, n)
    BY <1>1, <2>1, <2>2 DEF WrapInv
  <2>4. Opened(k)
    BY <2>2, <2>3, BlocksOpened
  <2> QED
    BY <1>1, <1>2, <2>4
<1> QED
  BY <1>3, <1>4

\* Nothing but what was unwrapped changes.
LEMMA UnwrapInv ==
  ASSUME WrapInv, cipher # <<>>, UNCHANGED <<size, key, aes, cipher, changed>>, UnwrapGivesWrapped'
  PROVE  WrapInv'
<1>1. W!Blocks(size)' = W!Blocks(size) /\ OneBlock' = OneBlock
  BY DEF W!Blocks, OneBlock, W!Header, W!Text, W!Half
<1>2. ASSUME NEW A, NEW R, NEW n, Blocks(A, R, n) PROVE Blocks(A, R, n)'
  BY <1>2 DEF Blocks, Trace, High, Wide, Low, Halves, W!Header, W!Text, W!Half, W!Xor, W!SymDiff, Ix
<1>3. (\E A, R : Blocks(A, R, W!Blocks(size))) => (\E A, R : Blocks(A, R, W!Blocks(size)))'
  BY <1>1, <1>2
<1> QED
  BY <1>1, <1>3 DEF WrapInv

LEMMA UnwrapsKeep ==
  ASSUME WrapInv, W!AES_key_unwrap \/ W!evp_aes_key_wrap
  PROVE  WrapInv'
<1>0. cipher # <<>> /\ UNCHANGED <<size, key, aes, cipher, changed>>
  BY DEF W!AES_key_unwrap, W!evp_aes_key_wrap
<1>1. CASE W!AES_key_unwrap
  <2>1. PICK k \in Keys : unwrapped' = W!Unwrap("mbedtls", W!SizeAccepted, k)
    BY <1>1 DEF W!AES_key_unwrap
  <2>2. Opened(k) /\ size \in Nat \ {0} /\ W!Blocks(size) \in Nat \ {0}
         /\ 8 * (W!Blocks(size) - 1) < size /\ size <= 8 * W!Blocks(size)
    BY <1>0, WrapOpened
  <2>3. PICK g : g = W!Registers(k)
    OBVIOUS
  <2>4. size % 8 # 0 => W!SizeAccepted(size, W!Blocks(size))
    BY <2>2 DEF W!SizeAccepted
  <2>5. W!Header(size).half = "A65959A6" /\ W!Header(size).mask = {} /\ W!Header(size).of = size
    BY DEF W!Header, W!Half
  <2>6. /\ unwrapped'.by = "mbedtls" /\ unwrapped'.key = k
        /\ unwrapped'.ok <=> /\ g.a.half = "A65959A6" /\ g.a.mask = {}
                             /\ W!SizeAccepted(g.a.of, Len(cipher) - 1)
        /\ unwrapped'.ok => unwrapped'.size = g.a.of /\ unwrapped'.text = g.r
    BY <2>1, <2>3 DEF W!Unwrap, W!SizeAccepted
  <2>7. UnwrapGivesWrapped'
    <3>1. unwrapped'.ok => /\ W!Registers(k).a.half = "A65959A6"
                           /\ unwrapped'.size = W!Registers(k).a.of
                           /\ unwrapped'.text = W!Registers(k).r
      BY <2>3, <2>6
    <3>2. W!Registers(k).a = W!Header(size) /\ Len(cipher) - 1 = W!Blocks(size) =>
             (unwrapped'.by = "openssl" \/ size % 8 # 0 => unwrapped'.ok)
      BY <2>3, <2>4, <2>5, <2>6
    <3> QED
      BY <1>0, <2>2, <2>6, <3>1, <3>2, UnwrapKeeps
  <2> QED
    BY <1>0, <2>7, UnwrapInv
<1>2. CASE W!evp_aes_key_wrap
  <2>1. PICK k \in Keys : unwrapped' = W!Unwrap("openssl", W!SizeOfRfc, k)
    BY <1>2 DEF W!evp_aes_key_wrap
  <2>2. Opened(k) /\ size \in Nat \ {0} /\ W!Blocks(size) \in Nat \ {0}
         /\ 8 * (W!Blocks(size) - 1) < size /\ size <= 8 * W!Blocks(size)
    BY <1>0, WrapOpened
  <2>3. PICK g : g = W!Registers(k)
    OBVIOUS
  <2>4. W!SizeOfRfc(size, W!Blocks(size))
    BY <2>2 DEF W!SizeOfRfc
  <2>5. W!Header(size).half = "A65959A6" /\ W!Header(size).mask = {} /\ W!Header(size).of = size
    BY DEF W!Header, W!Half
  <2>6. /\ unwrapped'.by = "openssl" /\ unwrapped'.key = k
        /\ unwrapped'.ok <=> /\ g.a.half = "A65959A6" /\ g.a.mask = {}
                             /\ W!SizeOfRfc(g.a.of, Len(cipher) - 1)
        /\ unwrapped'.ok => unwrapped'.size = g.a.of /\ unwrapped'.text = g.r
    BY <2>1, <2>3 DEF W!Unwrap, W!SizeOfRfc
  <2>7. UnwrapGivesWrapped'
    <3>1. unwrapped'.ok => /\ W!Registers(k).a.half = "A65959A6"
                           /\ unwrapped'.size = W!Registers(k).a.of
                           /\ unwrapped'.text = W!Registers(k).r
      BY <2>3, <2>6
    <3>2. W!Registers(k).a = W!Header(size) /\ Len(cipher) - 1 = W!Blocks(size) =>
             (unwrapped'.by = "openssl" \/ size % 8 # 0 => unwrapped'.ok)
      BY <2>3, <2>4, <2>5, <2>6
    <3> QED
      BY <1>0, <2>2, <2>6, <3>1, <3>2, UnwrapKeeps
  <2> QED
    BY <1>0, <2>7, UnwrapInv
<1> QED
  BY <1>1, <1>2

LEMMA WrapKeeps ==
  ASSUME WrapInv, W!AES_key_wrap
  PROVE  WrapInv'
<1>0. cipher = <<>> /\ aes = <<>> /\ changed = FALSE /\ changed' = FALSE /\ unwrapped' = unwrapped
      /\ unwrapped.by = "none"
  BY DEF WrapInv, W!AES_key_wrap
<1>1. PICK m \in Sizes, k \in Keys :
         LET n == W!Blocks(m)
             one == W!AesEncrypt(aes, k, W!Header(m), W!Text(1))
             end == W!Wrapped([table |-> aes, a |-> W!Header(m), r |-> [i \in 1..n |-> W!Text(i)]], n, k)
         IN  /\ size' = m /\ key' = k
             /\ aes' = IF n = 1 THEN one.table ELSE end.table
             /\ cipher' = IF n = 1 THEN <<one.a, one.r>> ELSE <<end.a>> \o end.r
  BY DEF W!AES_key_wrap
<1>2. m \in Nat \ {0} /\ W!Blocks(m) \in Nat \ {0} /\ W!Blocks(size)' = W!Blocks(m)
  BY <1>1, CryptoAssumption DEF W!Blocks
<1>3. UnwrapGivesWrapped'
  BY <1>0 DEF UnwrapGivesWrapped
<1>4. CASE W!Blocks(m) = 1
  <2>1. aes' = <<<<k, W!Header(m), W!Text(1)>>>> /\ cipher' = <<W!Half(1, "hi"), W!Half(1, "lo")>>
    BY <1>0, <1>1, <1>4 DEF W!AesEncrypt
  <2>2. OneBlock'
    BY <1>0, <1>1, <2>1 DEF OneBlock, W!Header, W!Text, W!Half
  <2>3. cipher' # <<>>
    BY <2>1
  <2>4. W!Blocks(size)' = 1
    BY <1>2, <1>4
  <2> QED
    BY <1>0, <1>1, <1>3, <2>2, <2>3, <2>4 DEF WrapInv
<1>5. CASE W!Blocks(m) # 1
  <2>1. PICK n \in Nat \ {0} : n = W!Blocks(m)
    BY <1>2
  <2> DEFINE e == W!Wrapped([table |-> <<>>, a |-> W!Header(m), r |-> [i \in 1..n |-> W!Text(i)]], n, k)
  <2>2. aes' = e.table /\ cipher' = <<e.a>> \o e.r
    BY <1>0, <1>1, <1>5, <2>1
  <2>3. PICK A, R : Trace(A, R, e.table, n, m, k) /\ e.a = A[6 * n] /\ e.r = R[6 * n]
    <3>1. m \in Nat
      BY <1>2
    <3>2. LET end == W!Wrapped([table |-> <<>>, a |-> W!Header(m), r |-> [i \in 1..n |-> W!Text(i)]],
                               n, k)
          IN  \E A, R : /\ Trace(A, R, end.table, n, m, k)
                        /\ end.a = A[6 * n] /\ end.r = R[6 * n]
      <4> HIDE DEF e
      <4> QED
        BY <3>1, WrapLeavesTrace
    <3> QED
      BY <3>2, Zenon
  <2> HIDE DEF e
  <2>4. PICK a, r : a = A[6 * n] /\ r = R[6 * n] /\ cipher' = <<a>> \o r
    BY <2>2, <2>3
  <2>5. a \in Halves(6 * n) /\ r \in [1..n -> Low]
    <3>1. 6 * n \in 0..(6 * n)
      BY <2>1
    <3> QED
      BY <2>3, <2>4, <3>1 DEF Trace, Halves
  <2>6. r \in Seq(Halves(6 * n)) /\ Len(r) = n
    <3>1. r \in [1..n -> Halves(6 * n)]
      BY <2>5 DEF Halves
    <3> QED
      BY <2>1, <3>1
  <2>7. PICK H : H = Halves(6 * n)
    OBVIOUS
  <2>8. cipher' \in Seq(H) /\ Len(cipher') = n + 1 /\ cipher'[1] = a /\ Tail(cipher') = r
        /\ cipher' # <<>>
    <3>1. a \in H /\ r \in Seq(H)
      BY <2>5, <2>6, <2>7
    <3>2. cipher' \in Seq(H) /\ Len(cipher') = n + 1 /\ cipher'[1] = a
      BY <2>1, <2>4, <2>6, <3>1
    <3>3. cipher' # <<>>
      BY <2>1, <3>2
    <3>4. Tail(cipher') \in Seq(H) /\ Len(Tail(cipher')) = n
          /\ \A i \in 1..n : Tail(cipher')[i] = cipher'[i + 1]
      BY <2>1, <3>2, <3>3
    <3>5. \A i \in 1..n : cipher'[i + 1] = r[i]
      BY <2>1, <2>4, <2>6, <3>1
    <3>6. Tail(cipher') = r
      <4>1. PICK u \in Seq(H) : u = Tail(cipher')
        BY <3>4
      <4>2. Len(u) = n /\ \A i \in 1..n : u[i] = r[i]
        BY <3>4, <3>5, <4>1
      <4>3. u = r
        BY <2>6, <3>1, <4>2, SeqEqual
      <4> QED
        BY <4>1, <4>3
    <3> QED
      BY <3>2, <3>3, <3>6
  <2>9. Trace(A, R, aes, n, size, key)'
    <3>1. Trace(A, R, aes', n, size', key')
      BY <1>1, <2>2, <2>3
    <3> QED
      BY <3>1 DEF Trace, High, Wide, Low, W!Header, W!Text, W!Half, W!Xor, W!SymDiff, Ix
  <2>10. Halves(6 * n)' = Halves(6 * n)
    BY DEF Halves, High, Wide, Low
  <2>11. Blocks(A, R, n)'
    BY <1>0, <2>4, <2>7, <2>8, <2>9, <2>10 DEF Blocks
  <2>12. (\E A0, R0 : Blocks(A0, R0, W!Blocks(size)))'
    <3>1. n = W!Blocks(size)'
      BY <1>2, <2>1
    <3> QED
      BY <2>11, <3>1
  <2> QED
    BY <1>0, <1>1, <1>2, <1>3, <1>5, <2>8, <2>12 DEF WrapInv
<1> QED
  BY <1>4, <1>5

\* A half block is lost, or two change places.
LEMMA ChangeBlocks ==
  ASSUME NEW n \in Nat \ {0, 1}, size \in Nat, NEW A, NEW R, Blocks(A, R, n), ~changed,
         \/ Len(cipher) > 2 /\ cipher' = SubSeq(cipher, 1, Len(cipher) - 1)
         \/ \E i, j \in DOMAIN cipher :
               i < j /\ cipher' = [cipher EXCEPT ![i] = cipher[j], ![j] = cipher[i]],
         changed' = TRUE, UNCHANGED <<size, key, aes>>
  PROVE  Blocks(A, R, n)' /\ cipher' # <<>>
<1> DEFINE N == 6 * n
<1>1. Trace(A, R, aes, n, size, key) /\ cipher \in Seq(Halves(N)) /\ Len(cipher) = n + 1
      /\ cipher[1] = A[N] /\ Tail(cipher) = R[N]
  BY DEF Blocks
<1>2. PICK H : H = Halves(N)
  OBVIOUS
<1>3. cipher \in Seq(H) /\ Len(cipher) \in Nat
  BY <1>1, <1>2
<1>4. Trace(A, R, aes, n, size, key)'
  BY <1>1 DEF Trace, High, Wide, Low, W!Header, W!Text, W!Half, W!Xor, W!SymDiff, Ix
<1>5. Halves(N)' = H
  BY <1>2 DEF Halves, High, Wide, Low
<1>6. \A q \in 1..n : cipher[q + 1] = R[N][q]
  <2>1. cipher # <<>>
    BY <1>1, <1>3
  <2>2. \A q \in 1..n : Tail(cipher)[q] = cipher[q + 1]
    BY <1>1, <1>3, <2>1
  <2> QED
    BY <1>1, <2>2
<1>7. CASE Len(cipher) > 2 /\ cipher' = SubSeq(cipher, 1, Len(cipher) - 1)
  <2>1. cipher' \in Seq(H) /\ Len(cipher') = n /\ cipher'[1] = cipher[1]
    <3>1. PICK l \in Nat : l = Len(cipher) - 1 /\ l = n
      BY <1>1
    <3>2. cipher' = SubSeq(cipher, 1, l)
      BY <1>7, <3>1
    <3> QED
      BY <1>1, <1>3, <3>1, <3>2
  <2>2. Len(cipher') \in {n, n + 1} /\ cipher' # <<>>
    BY <2>1
  <2> QED
    BY <1>1, <1>4, <1>5, <2>1, <2>2 DEF Blocks
<1>8. ASSUME NEW i \in DOMAIN cipher, NEW j \in DOMAIN cipher, i < j,
             cipher' = [cipher EXCEPT ![i] = cipher[j], ![j] = cipher[i]]
      PROVE  Blocks(A, R, n)' /\ cipher' # <<>>
  <2>1. i \in 1..(n + 1) /\ j \in 2..(n + 1)
    BY <1>1, <1>3, <1>8
  <2>2. /\ cipher' \in Seq(H) /\ Len(cipher') = n + 1
        /\ cipher'[i] = cipher[j] /\ cipher'[j] = cipher[i]
        /\ i # 1 => cipher'[1] = cipher[1]
    <3>1. cipher \in [1..(n + 1) -> H]
      BY <1>1, <1>3
    <3>2. cipher' \in [1..(n + 1) -> H] /\ cipher'[i] = cipher[j] /\ cipher'[j] = cipher[i]
          /\ (i # 1 => cipher'[1] = cipher[1])
      BY <1>8, <2>1, <3>1
    <3>3. PICK d \in [1..(n + 1) -> H] : d = cipher'
      BY <3>2
    <3>4. d \in Seq(H) /\ Len(d) = n + 1
      <4>1. PICK l \in Nat : l = n + 1
        OBVIOUS
      <4>2. d \in [1..l -> H]
        BY <3>3, <4>1
      <4>3. d \in Seq(H) /\ Len(d) = l
        BY <4>2
      <4> QED
        BY <4>1, <4>3
    <3> QED
      BY <3>2, <3>3, <3>4
  <2>3. cipher' # <<>> /\ Len(cipher') \in {n, n + 1}
    BY <2>2
  <2>4. PICK q \in 1..n : j = q + 1
    <3>1. j - 1 \in 1..n /\ j = (j - 1) + 1
      BY <2>1
    <3> QED
      BY <3>1
  <2>5. CASE i = 1
    <3>1. cipher'[1] = R[N][q]
      BY <1>6, <2>2, <2>4, <2>5
    <3>2. R[N][q] \in Low
      <4>1. N \in 0..N
        OBVIOUS
      <4> QED
        BY <1>1, <4>1 DEF Trace
    <3>3. cipher'[1].half # "hi"
      BY <3>1, <3>2 DEF Low
    <3> QED
      BY <1>4, <1>5, <2>2, <2>3, <3>3 DEF Blocks
  <2>6. CASE i # 1
    <3>1. PICK p \in 1..n : i = p + 1
      <4>1. i - 1 \in 1..n /\ i = (i - 1) + 1
        BY <2>1, <2>6
      <4> QED
        BY <4>1
    <3>2. p # q
      BY <1>8, <2>4, <3>1
    <3>3. R[N][p] # R[N][q]
      BY <1>1, <3>2, RegistersDiffer, SMTT(30)
    <3>4. cipher'[q + 1] = R[N][p]
      BY <1>6, <2>2, <2>4, <3>1
    <3>5. Tail(cipher')[q] = cipher'[q + 1]
      <4>1. PICK d \in Seq(H) : d = cipher'
        BY <2>2
      <4>2. Tail(d)[q] = d[q + 1]
        BY <2>2, <2>3, <2>4, <4>1
      <4> QED
        BY <4>1, <4>2
    <3>6. Tail(cipher')[q] # R[N][q] /\ cipher'[1] = A[N]
      BY <1>1, <2>2, <2>6, <3>3, <3>4, <3>5
    <3> QED
      BY <1>4, <1>5, <2>2, <2>3, <3>6 DEF Blocks
  <2> QED
    BY <2>5, <2>6
<1> QED
  BY <1>7, <1>8

LEMMA ChangeKeeps ==
  ASSUME WrapInv, W!Change
  PROVE  WrapInv'
<1>0. /\ cipher # <<>> /\ ~changed /\ unwrapped.by = "none" /\ changed' = TRUE
      /\ UNCHANGED <<size, key, aes, unwrapped>>
      /\ \/ Len(cipher) > 2 /\ cipher' = SubSeq(cipher, 1, Len(cipher) - 1)
         \/ \E i, j \in DOMAIN cipher :
               i < j /\ cipher' = [cipher EXCEPT ![i] = cipher[j], ![j] = cipher[i]]
  BY DEF W!Change
<1>1. UnwrapGivesWrapped'
  BY <1>0 DEF UnwrapGivesWrapped
<1>2. size \in Nat \ {0} /\ W!Blocks(size) \in Nat \ {0} /\ W!Blocks(size)' = W!Blocks(size)
  BY <1>0, CryptoAssumption DEF WrapInv, W!Blocks
<1>3. CASE W!Blocks(size) = 1
  <2>1. cipher = <<W!Half(1, "hi"), W!Half(1, "lo")>> /\ aes = <<<<key, W!Header(size), W!Text(1)>>>>
    BY <1>0, <1>3 DEF WrapInv, OneBlock
  <2>2. cipher' = <<W!Half(1, "lo"), W!Half(1, "hi")>>
    <3>1. PICK u, v : u = W!Half(1, "hi") /\ v = W!Half(1, "lo") /\ cipher = <<u, v>>
      BY <2>1
    <3>2. Len(cipher) = 2 /\ DOMAIN cipher = {1, 2}
      BY <3>1
    <3>3. cipher' = [cipher EXCEPT ![1] = cipher[2], ![2] = cipher[1]]
      BY <1>0, <3>2
    <3>4. cipher' = <<v, u>>
      BY <3>1, <3>3
    <3> QED
      BY <3>1, <3>4
  <2>3. OneBlock' /\ cipher' # <<>>
    BY <1>0, <2>1, <2>2 DEF OneBlock, W!Header, W!Text, W!Half
  <2> QED
    BY <1>0, <1>1, <1>2, <1>3, <2>3 DEF WrapInv
<1>4. CASE W!Blocks(size) # 1
  <2>1. PICK A, R : Blocks(A, R, W!Blocks(size))
    BY <1>0, <1>4 DEF WrapInv
  <2>2. PICK n \in Nat \ {0, 1} : n = W!Blocks(size) /\ n = W!Blocks(size)'
    BY <1>2, <1>4
  <2>3. Blocks(A, R, n)' /\ cipher' # <<>>
    BY <1>0, <1>2, <2>1, <2>2, ChangeBlocks
  <2>4. (\E A0, R0 : Blocks(A0, R0, W!Blocks(size)))'
    BY <2>2, <2>3
  <2> QED
    BY <1>0, <1>1, <1>2, <1>4, <2>3, <2>4 DEF WrapInv
<1> QED
  BY <1>3, <1>4

\* AES_key_unwrap, for texts of every size: what is accepted is what was
\* wrapped, under the same key, and what did not change is accepted, by
\* mbedtls.cc as long as its size is no multiple of 8.
THEOREM UnwrapHolds == Spec => []UnwrapGivesWrapped
<1>1. Init => WrapInv
  <2> SUFFICES ASSUME Init PROVE WrapInv
    OBVIOUS
  <2>1. key \in Keys /\ aes = <<>> /\ cipher = <<>> /\ changed = FALSE /\ unwrapped = W!NotYet
    BY DEF Init, W!Init
  <2>2. unwrapped.by = "none"
    BY <2>1 DEF W!NotYet
  <2>3. UnwrapGivesWrapped
    BY <2>2 DEF UnwrapGivesWrapped
  <2> QED
    BY <2>1, <2>2, <2>3 DEF WrapInv
<1>2. WrapInv /\ [Next]_vars => WrapInv'
  <2> SUFFICES ASSUME WrapInv, [Next]_vars PROVE WrapInv'
    OBVIOUS
  <2>1. CASE W!Next
    BY <2>1, WrapKeeps, ChangeKeeps, UnwrapsKeep DEF W!Next
  <2>2. CASE UNCHANGED wrapVars
    <3>1. UNCHANGED <<size, key, aes, cipher, changed, unwrapped>>
      BY <2>2 DEF wrapVars
    <3>2. UnwrapGivesWrapped'
      BY <3>1 DEF WrapInv, UnwrapGivesWrapped, W!Blocks, W!Text, W!Half
    <3>3. CASE cipher = <<>>
      BY <3>1, <3>2, <3>3 DEF WrapInv
    <3> QED
      BY <3>1, <3>2, <3>3, UnwrapInv
  <2> QED
    BY <2>1, <2>2 DEF Next, vars
<1>3. WrapInv => UnwrapGivesWrapped
  BY DEF WrapInv
<1> QED
  BY <1>1, <1>2, <1>3, PTL DEF Spec

-----------------------------------------------------------------------------
(* The transfer of encrypted files (crypto.c): for every size of the files *)
(* and of the blocks, every way to cut them in chunks, any number of       *)
(* files, and either library on each side.  The invariant has a part for   *)
(* the sender, one for the receiver, and one that says what is on its way  *)
(* between them.                                                           *)

Units == Nat \X Nat \X Nat

LEMMA QuotientRemainder ==
  ASSUME NEW u \in Nat \ {0}, NEW q \in Nat, NEW r \in 0..(u - 1)
  PROVE  (q * u + r) \div u = q /\ (q * u + r) % u = r
OBVIOUS

LEMMA DivMod ==
  ASSUME NEW u \in Nat \ {0}, NEW n \in Nat
  PROVE  \E q \in Nat, r \in 0..(u - 1) : n = q * u + r /\ n % u = r
OBVIOUS

\* The size of n units in blocks.
LEMMA ToBlockOf ==
  ASSUME NEW q \in Nat, NEW r \in 0..(BlockUnits - 1)
  PROVE  F!M!ToBlock(q * BlockUnits + r) = IF r = 0 THEN q * BlockUnits ELSE (q + 1) * BlockUnits
<1> USE CryptoAssumption
<1>1. CASE r = 0
  <2>1. q * BlockUnits + r + BlockUnits - 1 = q * BlockUnits + (BlockUnits - 1)
        /\ BlockUnits - 1 \in 0..(BlockUnits - 1)
    BY <1>1
  <2> QED
    BY <1>1, <2>1, QuotientRemainder DEF F!M!ToBlock
<1>2. CASE r # 0
  <2>1. q * BlockUnits + r + BlockUnits - 1 = (q + 1) * BlockUnits + (r - 1)
        /\ r - 1 \in 0..(BlockUnits - 1) /\ q + 1 \in Nat
    BY <1>2
  <2> QED
    BY <1>2, <2>1, QuotientRemainder DEF F!M!ToBlock
<1> QED
  BY <1>1, <1>2

LEMMA ToBlockFacts ==
  ASSUME NEW n \in Nat
  PROVE  /\ F!M!ToBlock(n) \in Nat /\ F!M!ToBlock(n) >= n
         /\ F!M!ToBlock(n) % BlockUnits = 0
         /\ n % BlockUnits = 0 => F!M!ToBlock(n) = n
<1> USE CryptoAssumption
<1>1. PICK q \in Nat, r \in 0..(BlockUnits - 1) : n = q * BlockUnits + r /\ n % BlockUnits = r
  BY DivMod
<1>2. F!M!ToBlock(n) = IF r = 0 THEN q * BlockUnits ELSE (q + 1) * BlockUnits
  BY <1>1, ToBlockOf
<1>3. \A p \in Nat : p * BlockUnits \in Nat /\ (p * BlockUnits) % BlockUnits = 0
  <2> SUFFICES ASSUME NEW p \in Nat PROVE p * BlockUnits \in Nat /\ (p * BlockUnits) % BlockUnits = 0
    OBVIOUS
  <2>1. 0 \in 0..(BlockUnits - 1) /\ p * BlockUnits + 0 = p * BlockUnits /\ p * BlockUnits \in Nat
    OBVIOUS
  <2>2. (p * BlockUnits + 0) % BlockUnits = 0
    BY <2>1, QuotientRemainder
  <2> QED
    BY <2>1, <2>2
<1>4. (q + 1) * BlockUnits = q * BlockUnits + BlockUnits /\ q + 1 \in Nat
  OBVIOUS
<1>5. CASE r = 0
  BY <1>1, <1>2, <1>3, <1>5
<1>6. CASE r # 0
  <2>1. F!M!ToBlock(n) = (q + 1) * BlockUnits /\ n % BlockUnits # 0
    BY <1>1, <1>2, <1>6
  <2>2. (q + 1) * BlockUnits >= n
    BY <1>1, <1>4
  <2> QED
    BY <1>3, <1>4, <2>1, <2>2
<1> QED
  BY <1>5, <1>6

\* Whole blocks before n units.
LEMMA ToBlockAfter ==
  ASSUME NEW p \in Nat, p % BlockUnits = 0, NEW n \in Nat
  PROVE  /\ F!M!ToBlock(p + n) = p + F!M!ToBlock(n)
         /\ n % BlockUnits = 0 => (p + n) % BlockUnits = 0
<1> USE CryptoAssumption
<1>1. PICK a \in Nat : p = a * BlockUnits
  <2>1. PICK q \in Nat, r \in 0..(BlockUnits - 1) : p = q * BlockUnits + r /\ p % BlockUnits = r
    BY DivMod
  <2> QED
    BY <2>1
<1>2. PICK q \in Nat, r \in 0..(BlockUnits - 1) : n = q * BlockUnits + r /\ n % BlockUnits = r
  BY DivMod
<1>3. p + n = (a + q) * BlockUnits + r /\ a + q \in Nat
  BY <1>1, <1>2
<1>4. F!M!ToBlock(n) = IF r = 0 THEN q * BlockUnits ELSE (q + 1) * BlockUnits
  BY <1>2, ToBlockOf
<1>5. F!M!ToBlock(p + n) = IF r = 0 THEN (a + q) * BlockUnits ELSE (a + q + 1) * BlockUnits
  BY <1>3, ToBlockOf
<1>6. (p + n) % BlockUnits = r
  <2>1. PICK c \in Nat : c = a + q
    OBVIOUS
  <2>2. (c * BlockUnits + r) % BlockUnits = r
    BY QuotientRemainder
  <2> QED
    BY <1>3, <2>1, <2>2
<1>7. /\ (a + q) * BlockUnits = a * BlockUnits + q * BlockUnits
      /\ (a + q + 1) * BlockUnits = a * BlockUnits + (q + 1) * BlockUnits
  OBVIOUS
<1>8. F!M!ToBlock(p + n) = p + F!M!ToBlock(n)
  <2>1. CASE r = 0
    BY <1>1, <1>4, <1>5, <1>7, <2>1
  <2>2. CASE r # 0
    BY <1>1, <1>4, <1>5, <1>7, <2>2
  <2> QED
    BY <2>1, <2>2
<1> QED
  BY <1>2, <1>6, <1>8

\* The text with the padding of its last block.
LEMMA PaddedFacts ==
  ASSUME NEW s \in Seq(Units)
  PROVE  /\ F!M!Padded(s) \in Seq(Units) /\ Len(F!M!Padded(s)) = F!M!ToBlock(Len(s))
         /\ \A i \in 1..Len(s) : F!M!Padded(s)[i] = s[i]
         /\ \A i \in (Len(s) + 1)..F!M!ToBlock(Len(s)) : F!M!Padded(s)[i] = F!M!Pad
         /\ Len(s) % BlockUnits = 0 => F!M!Padded(s) = s
<1>1. PICK l \in Nat : l = Len(s)
  OBVIOUS
<1>2. PICK b \in Nat : b = F!M!ToBlock(l) /\ b >= l /\ (l % BlockUnits = 0 => b = l)
  BY ToBlockFacts
<1> DEFINE p == [i \in 1..(b - l) |-> F!M!Pad]
<1>3. p \in Seq(Units) /\ Len(p) = b - l
  <2>1. F!M!Pad \in Units
    BY DEF F!M!Pad, Units
  <2>2. PICK d \in Nat : d = b - l
    BY <1>2
  <2>3. p \in [1..d -> Units]
    BY <2>1, <2>2
  <2> HIDE DEF p
  <2> QED
    BY <2>2, <2>3
<1>4. \A i \in 1..(b - l) : p[i] = F!M!Pad
  OBVIOUS
<1>5. F!M!Padded(s) = s \o p
  BY <1>1, <1>2 DEF F!M!Padded
<1> HIDE DEF p
<1>6. F!M!Padded(s) \in Seq(Units) /\ Len(F!M!Padded(s)) = b
  <2>1. s \o p \in Seq(Units) /\ Len(s \o p) = l + (b - l)
    BY <1>1, <1>3, ConcatProperties
  <2> QED
    BY <1>2, <1>5, <2>1
<1>7. \A i \in 1..l : F!M!Padded(s)[i] = s[i]
  BY <1>1, <1>2, <1>3, <1>5
<1>8. \A i \in (l + 1)..b : F!M!Padded(s)[i] = F!M!Pad
  <2> SUFFICES ASSUME NEW i \in (l + 1)..b PROVE F!M!Padded(s)[i] = F!M!Pad
    OBVIOUS
  <2>1. i - l \in 1..(b - l) /\ i \in 1..(Len(s) + Len(p)) /\ i > Len(s)
    BY <1>1, <1>2, <1>3
  <2>2. (s \o p)[i] = p[i - Len(s)]
    BY <1>3, <2>1, ConcatProperties
  <2> QED
    BY <1>1, <1>4, <1>5, <2>1, <2>2
<1>9. l % BlockUnits = 0 => F!M!Padded(s) = s
  <2> SUFFICES ASSUME l % BlockUnits = 0 PROVE F!M!Padded(s) = s
    OBVIOUS
  <2>1. Len(F!M!Padded(s)) = l
    BY <1>2, <1>6
  <2>2. PICK t \in Seq(Units) : t = F!M!Padded(s)
    BY <1>6
  <2> QED
    BY <1>1, <1>7, <2>1, <2>2, SeqEqual
<1> QED
  BY <1>1, <1>2, <1>6, <1>7, <1>8, <1>9

LEMMA SamePadding ==
  ASSUME NEW s \in Seq(Units)
  PROVE  F!O!Data!Padded(s) = F!M!Padded(s)
BY DEF F!O!Data!Padded, F!M!Padded, F!O!Data!ToBlock, F!M!ToBlock, F!O!Data!Pad, F!M!Pad

\* Where the units of one text after another are.
Join(w, S, s, t) ==
    /\ w \in Seq(S) /\ Len(w) = Len(s) + Len(t)
    /\ \A i \in 1..Len(s) : w[i] = s[i]
    /\ \A i \in 1..Len(t) : w[Len(s) + i] = t[i]

LEMMA Joined ==
  ASSUME NEW S, NEW s \in Seq(S), NEW t \in Seq(S)
  PROVE  Join(s \o t, S, s, t)
<1>0. PICK l \in Nat, m \in Nat : l = Len(s) /\ m = Len(t)
  OBVIOUS
<1>1. s \o t \in Seq(S) /\ Len(s \o t) = l + m
  BY <1>0, ConcatProperties
<1>2. \A i \in 1..(l + m) : (s \o t)[i] = IF i <= l THEN s[i] ELSE t[i - l]
  BY <1>0, ConcatProperties
<1>3. ASSUME NEW i \in 1..l PROVE (s \o t)[i] = s[i]
  <2>1. i \in 1..(l + m) /\ i <= l
    OBVIOUS
  <2> QED
    BY <1>2, <2>1
<1>4. ASSUME NEW i \in 1..m PROVE (s \o t)[l + i] = t[i]
  <2>1. l + i \in 1..(l + m) /\ ~(l + i <= l) /\ (l + i) - l = i
    OBVIOUS
  <2> QED
    BY <1>2, <2>1
<1> QED
  BY <1>0, <1>1, <1>3, <1>4 DEF Join

\* Of two texts of one length the padded ones tell which they are.
LEMMA PaddedSame ==
  ASSUME NEW s \in Seq(Units), NEW t \in Seq(Units), Len(s) = Len(t),
         F!M!Padded(s) = F!M!Padded(t)
  PROVE  s = t
<1>1. \A i \in 1..Len(s) : s[i] = t[i]
  BY PaddedFacts
<1> QED
  BY <1>1, SeqEqual

\* A text of whole blocks and the next chunk, with and without padding between.
LEMMA ChunkPadded ==
  ASSUME NEW s \in Seq(Units), NEW t \in Seq(Units), Len(s) % BlockUnits = 0
  PROVE  /\ F!M!Padded(s \o F!M!Padded(t)) = F!M!Padded(s \o t)
         /\ Len(F!M!Padded(s \o t)) = Len(s) + F!M!ToBlock(Len(t))
         /\ Len(t) % BlockUnits = 0 => F!M!Padded(t) = t /\ (Len(s) + Len(t)) % BlockUnits = 0
<1>1. PICK l \in Nat, m \in Nat : l = Len(s) /\ m = Len(t)
  OBVIOUS
<1>2. PICK b \in Nat : b = F!M!ToBlock(m) /\ b >= m /\ b % BlockUnits = 0
  BY ToBlockFacts
<1>3. F!M!ToBlock(l + m) = l + b /\ (l + b) % BlockUnits = 0
      /\ (m % BlockUnits = 0 => (l + m) % BlockUnits = 0)
  BY <1>1, <1>2, ToBlockAfter
<1>4. PICK u \in Seq(Units) : u = F!M!Padded(t) /\ Len(u) = b
         /\ (\A i \in 1..m : u[i] = t[i]) /\ (\A i \in (m + 1)..b : u[i] = F!M!Pad)
  BY <1>1, <1>2, PaddedFacts
<1>5. PICK v \in Seq(Units) : v = s \o u /\ Len(v) = l + b
         /\ (\A i \in 1..l : v[i] = s[i]) /\ (\A i \in 1..b : v[l + i] = u[i])
  <2>1. Join(s \o u, Units, s, u)
    BY Joined
  <2> QED
    BY <1>1, <1>4, <2>1 DEF Join
<1>6. PICK w \in Seq(Units) : w = s \o t /\ Len(w) = l + m
         /\ (\A i \in 1..l : w[i] = s[i]) /\ (\A i \in 1..m : w[l + i] = t[i])
  <2>1. Join(s \o t, Units, s, t)
    BY Joined
  <2> QED
    BY <1>1, <2>1 DEF Join
<1>7. F!M!Padded(v) = v
  BY <1>3, <1>5, PaddedFacts
<1>8. PICK x0 \in Seq(Units) : x0 = F!M!Padded(w) /\ Len(x0) = l + b
         /\ (\A i \in 1..(l + m) : x0[i] = w[i]) /\ (\A i \in (l + m + 1)..(l + b) : x0[i] = F!M!Pad)
  <2>1. /\ F!M!Padded(w) \in Seq(Units) /\ Len(F!M!Padded(w)) = F!M!ToBlock(Len(w))
        /\ \A i \in 1..Len(w) : F!M!Padded(w)[i] = w[i]
        /\ \A i \in (Len(w) + 1)..F!M!ToBlock(Len(w)) : F!M!Padded(w)[i] = F!M!Pad
    BY PaddedFacts
  <2>2. Len(w) = l + m /\ F!M!ToBlock(Len(w)) = l + b
    BY <1>3, <1>6
  <2> QED
    BY <2>1, <2>2
<1>9. \A i \in 1..(l + b) : x0[i] = v[i]
  <2> SUFFICES ASSUME NEW i \in 1..(l + b) PROVE x0[i] = v[i]
    OBVIOUS
  <2>1. CASE i \in 1..l
    <3>1. i \in 1..(l + m)
      BY <2>1
    <3>2. x0[i] = w[i]
      BY <1>8, <3>1
    <3>3. w[i] = s[i] /\ v[i] = s[i]
      BY <1>5, <1>6, <2>1
    <3> QED
      BY <3>2, <3>3
  <2>2. CASE i \in (l + 1)..(l + m)
    <3>1. PICK j \in 1..m : i = l + j
      <4>1. i - l \in 1..m /\ i = l + (i - l)
        BY <2>2
      <4> QED
        BY <4>1
    <3>2. j \in 1..b /\ i \in 1..(l + m)
      BY <1>2, <3>1
    <3>3. w[l + j] = t[j]
      BY <1>6
    <3>4. v[l + j] = u[j]
      BY <1>5, <3>2
    <3>5. u[j] = t[j]
      BY <1>4
    <3>6. x0[i] = w[i]
      BY <1>8, <3>2
    <3> QED
      BY <3>1, <3>3, <3>4, <3>5, <3>6
  <2>3. CASE i \in (l + m + 1)..(l + b)
    <3>1. PICK j \in (m + 1)..b : i = l + j
      <4>1. i - l \in (m + 1)..b /\ i = l + (i - l)
        BY <2>3
      <4> QED
        BY <4>1
    <3>2. j \in 1..b
      BY <3>1
    <3>3. v[l + j] = u[j]
      BY <1>5, <3>2
    <3>4. u[j] = F!M!Pad
      BY <1>4
    <3>5. x0[i] = F!M!Pad
      BY <1>8, <2>3
    <3> QED
      BY <3>1, <3>3, <3>4, <3>5
  <2> QED
    BY <2>1, <2>2, <2>3
<1>10. x0 = v
  BY <1>5, <1>8, <1>9, SeqEqual, SMTT(30)
<1>11. Len(F!M!Padded(w)) = l + b
  BY <1>8
<1>12. m % BlockUnits = 0 => F!M!Padded(t) = t
  BY <1>1, PaddedFacts
<1> QED
  BY <1>1, <1>2, <1>3, <1>4, <1>5, <1>6, <1>7, <1>8, <1>10, <1>11, <1>12

GcmContext == [mode : {"ENCRYPT", "DECRYPT"}, key : Nat, ad : {""}, at : Nat, text : Seq(Units)]

\* A context of a stream; mbedtls.c authenticates whole blocks only.
Context(c, lib, mode, f) ==
    /\ c \in GcmContext /\ c.mode = mode /\ c.key = f
    /\ lib = "mbedtls" => Len(c.text) % BlockUnits = 0

Fresh(mode, f) == [mode |-> mode, key |-> f, ad |-> "", at |-> 0, text |-> <<>>]

LEMMA NewContext ==
  ASSUME NEW lib, NEW mode \in {"ENCRYPT", "DECRYPT"}, NEW f \in Nat
  PROVE  F!ContextNew(lib, f, mode) = <<Fresh(mode, f)>> /\ Context(Fresh(mode, f), lib, mode, f)
<1>1. F!ContextNew(lib, f, mode) = <<Fresh(mode, f)>>
  BY DEF F!ContextNew, F!M!bctbx_aes_gcm_context_new, F!O!bctbx_aes_gcm_context_new,
         F!O!get_evp_aes_gcm, Fresh
<1>2. <<>> \in Seq(Units) /\ Len(<<>>) = 0 /\ 0 % BlockUnits = 0
  BY CryptoAssumption
<1>3. Context(Fresh(mode, f), lib, mode, f)
  BY <1>2 DEF Context, Fresh, GcmContext
<1> QED
  BY <1>1, <1>3

\* A chunk of n units, what the cipher makes of it, and the one of them that is
\* cipher text.
ChunkOf(c, n, input, out, coded) ==
    /\ DOMAIN input = 1..n /\ Len(input) = n
    /\ out = [i \in 1..n |-> F!M!Crypt(c.mode, c.key, c.at + i, input[i])]
    /\ coded = IF c.mode = "ENCRYPT" THEN out ELSE input
    /\ coded \in Seq(Units) /\ Len(coded) = n

\* A chunk of n units that follows whole blocks: both libraries make the same
\* units of it and authenticate the same text, padded at the end of the stream.
LEMMA Processed ==
  ASSUME NEW lib, NEW mode, NEW f, NEW c, Context(c, lib, mode, f), Len(c.text) % BlockUnits = 0,
         NEW n \in Nat, NEW input, NEW out, NEW coded, ChunkOf(c, n, input, out, coded)
  PROVE  LET done == F!ProcessChunk(lib, c, input)
         IN  /\ done.out = out
             /\ Context(done.ctx, lib, mode, f)
             /\ F!M!Padded(done.ctx.text) = F!M!Padded(c.text \o coded)
             /\ n % BlockUnits = 0 => done.ctx.at = c.at + n /\ done.ctx.text = c.text \o coded
<1> USE DEF ChunkOf
<1> DEFINE done == F!ProcessChunk(lib, c, input)
<1>1. c \in GcmContext /\ c.text \in Seq(Units) /\ c.at \in Nat
  BY DEF Context, GcmContext
<1>2. PICK pad \in Seq(Units) : pad = F!M!Padded(coded) /\ Len(pad) = F!M!ToBlock(n)
  <2>1. F!M!Padded(coded) \in Seq(Units) /\ Len(F!M!Padded(coded)) = F!M!ToBlock(n)
    BY PaddedFacts
  <2> QED
    BY <2>1
<1>3. F!M!ToBlock(n) \in Nat /\ F!M!ToBlock(n) % BlockUnits = 0
      /\ (n % BlockUnits = 0 => F!M!ToBlock(n) = n)
  BY ToBlockFacts
<1>4. /\ F!M!Padded(c.text \o pad) = F!M!Padded(c.text \o coded)
      /\ n % BlockUnits = 0 => pad = coded
  BY <1>1, <1>2, ChunkPadded
<1>5. Join(c.text \o pad, Units, c.text, pad) /\ Join(c.text \o coded, Units, c.text, coded)
  BY <1>1, Joined
<1>6. CASE lib = "mbedtls"
  <2>1. done.out = out /\ done.ctx = [c EXCEPT !.at = c.at + F!M!ToBlock(n), !.text = c.text \o pad]
    BY <1>2, <1>6 DEF F!ProcessChunk, F!M!bctbx_aes_gcm_process_chunk
  <2>2. PICK a \in Nat, t \in Seq(Units) : a = c.at + F!M!ToBlock(n) /\ t = c.text \o pad
    <3>1. c.at + F!M!ToBlock(n) \in Nat /\ c.text \o pad \in Seq(Units)
      BY <1>1, <1>3, <1>5 DEF Join
    <3> QED
      BY <3>1
  <2>3. Len(t) % BlockUnits = 0
    <3>1. Len(t) = Len(c.text) + F!M!ToBlock(n)
      BY <1>2, <1>5, <2>2 DEF Join
    <3>2. (Len(c.text) + F!M!ToBlock(n)) % BlockUnits = 0
      <4>1. PICK l \in Nat, b \in Nat : l = Len(c.text) /\ b = F!M!ToBlock(n)
        BY <1>1, <1>3
      <4>2. l % BlockUnits = 0 /\ b % BlockUnits = 0
        BY <1>3, <4>1
      <4> QED
        BY <4>1, <4>2, ToBlockAfter
    <3> QED
      BY <3>1, <3>2
  <2>4. done.ctx = [c EXCEPT !.at = a, !.text = t]
    BY <2>1, <2>2
  <2> HIDE DEF done
  <2>5. Context(done.ctx, lib, mode, f) /\ done.ctx.at = a /\ done.ctx.text = t
    BY <2>3, <2>4 DEF Context, GcmContext
  <2> QED
    BY <1>3, <1>4, <2>1, <2>2, <2>5 DEF done
<1>7. CASE lib # "mbedtls"
  <2>1. done.out = out /\ done.ctx = [c EXCEPT !.at = c.at + n, !.text = c.text \o coded]
    BY <1>7 DEF F!ProcessChunk, F!O!bctbx_aes_gcm_process_chunk, F!O!Data!Crypt, F!M!Crypt
  <2>2. PICK a \in Nat, t \in Seq(Units) : a = c.at + n /\ t = c.text \o coded
    <3>1. c.at + n \in Nat /\ c.text \o coded \in Seq(Units)
      BY <1>1, <1>5 DEF Join
    <3> QED
      BY <3>1
  <2>3. done.ctx = [c EXCEPT !.at = a, !.text = t]
    BY <2>1, <2>2
  <2> HIDE DEF done
  <2>4. Context(done.ctx, lib, mode, f) /\ done.ctx.at = a /\ done.ctx.text = t
    BY <1>7, <2>3 DEF Context, GcmContext
  <2> QED
    BY <2>1, <2>2, <2>4 DEF done
<1> QED
  BY <1>6, <1>7

\* The end of a stream.
EndOf(lib, mode, f, c, t) ==
    LET expectedTag == <<f, "", F!M!Padded(c.text)>>
    IN  /\ F!Finish(lib, c, t).tag = expectedTag
        /\ F!Finish(lib, c, t).ret # "none"
        /\ mode = "DECRYPT" => (F!Finish(lib, c, t).ret = "0" <=> t = expectedTag)

LEMMA Finished ==
  ASSUME NEW lib, NEW mode, NEW f, NEW c, Context(c, lib, mode, f), NEW t
  PROVE  EndOf(lib, mode, f, c, t)
<1> DEFINE expectedTag == <<f, "", F!M!Padded(c.text)>>
<1>1. c.text \in Seq(Units) /\ c.key = f /\ c.ad = "" /\ c.mode = mode
      /\ (lib = "mbedtls" => Len(c.text) % BlockUnits = 0) /\ mode \in {"ENCRYPT", "DECRYPT"}
  BY DEF Context, GcmContext
<1>2. expectedTag # <<>>
  OBVIOUS
<1>3. CASE lib = "mbedtls"
  <2>1. F!M!Padded(c.text) = c.text
    BY <1>1, <1>3, PaddedFacts
  <2>2. <<c.key, c.ad, c.text>> = expectedTag
    BY <1>1, <2>1
  <2> HIDE DEF expectedTag
  <2>3. /\ F!Finish(lib, c, t).tag = expectedTag
        /\ F!Finish(lib, c, t).ret = IF c.mode = "ENCRYPT" THEN "0" ELSE IF t = <<>> THEN "BAD_INPUT"
                                     ELSE IF t = expectedTag THEN "0" ELSE "DIFFERENT"
    BY <1>3, <2>2 DEF F!Finish, F!M!bctbx_aes_gcm_finish
  <2> QED
    BY <1>1, <1>2, <2>3 DEF expectedTag, EndOf
<1>4. CASE lib # "mbedtls"
  <2>1. F!O!Data!Padded(c.text) = F!M!Padded(c.text)
    BY <1>1, SamePadding
  <2>2. <<c.key, c.ad, F!O!Data!Padded(c.text)>> = expectedTag
    BY <1>1, <2>1
  <2> HIDE DEF expectedTag
  <2>3. /\ F!Finish(lib, c, t).tag = expectedTag
        /\ F!Finish(lib, c, t).ret = IF c.mode = "ENCRYPT" \/ t = expectedTag THEN "0"
                                     ELSE "UNSPECIFIED_ERROR"
    BY <1>4, <2>2 DEF F!Finish, F!O!bctbx_aes_gcm_finish
  <2> QED
    BY <1>1, <1>2, <2>3 DEF expectedTag, EndOf
<1> QED
  BY <1>3, <1>4

\* The cipher text of the first t units of file f.
Enc(f, t) == [i \in 1..t |-> <<f, i, i>>]

\* A sender whose chunks were all encrypted, after t units, and one that lost
\* at least one of them.
GoodAt(c, f, t) ==
    /\ t < FileUnits => c.at = t /\ c.text = Enc(f, t)
    /\ t = FileUnits => F!M!Padded(c.text) = F!M!Padded(Enc(f, t))

BehindAt(c, t) ==
    /\ t < FileUnits => Len(c.text) % BlockUnits = 0 /\ Len(c.text) < t
    /\ t = FileUnits => Len(F!M!Padded(c.text)) < F!M!ToBlock(FileUnits)

\* Where the next chunk ends.
NextEnd(t, n) == /\ t < FileUnits /\ t % BlockUnits = 0 /\ t + n <= FileUnits
                 /\ n % BlockUnits = 0 \/ t + n = FileUnits

LEMMA EncFacts ==
  ASSUME NEW f \in Nat, NEW t \in Nat
  PROVE  /\ Enc(f, t) \in Seq(Units) /\ Len(Enc(f, t)) = t
         /\ \A i \in 1..t : Enc(f, t)[i] = <<f, i, i>>
<1>1. Enc(f, t) \in [1..t -> Units]
  BY DEF Enc, Units
<1>2. \A i \in 1..t : Enc(f, t)[i] = <<f, i, i>>
  BY DEF Enc
<1> QED
  BY <1>1, <1>2

\* The cipher text of the n units after the first t.
EncChunk(f, t, n, out) ==
    out \in Seq(Units) /\ Len(out) = n /\ \A i \in 1..n : out[i] = <<f, t + i, t + i>>

EncAfter(f, t, n, out) == Enc(f, t) \o out = Enc(f, t + n)

LEMMA EncMore ==
  ASSUME NEW f \in Nat, NEW t \in Nat, NEW n \in Nat, NEW out, EncChunk(f, t, n, out)
  PROVE  EncAfter(f, t, n, out)
<1> USE DEF EncChunk
<1>1. PICK e \in Seq(Units) : e = Enc(f, t) /\ Len(e) = t /\ \A i \in 1..t : e[i] = <<f, i, i>>
  BY EncFacts
<1>2. PICK g \in Seq(Units) : g = Enc(f, t + n) /\ Len(g) = t + n
                              /\ \A i \in 1..(t + n) : g[i] = <<f, i, i>>
  <2>1. PICK k \in Nat : k = t + n
    OBVIOUS
  <2> QED
    BY <2>1, EncFacts
<1>3. PICK w : w = e \o out
  OBVIOUS
<1>4. Join(w, Units, e, out)
  BY <1>3, Joined
<1>5. w \in Seq(Units) /\ Len(w) = t + n /\ (\A i \in 1..t : w[i] = e[i])
      /\ (\A i \in 1..n : w[t + i] = out[i])
  BY <1>1, <1>4 DEF Join
<1>6. \A i \in 1..(t + n) : w[i] = g[i]
  <2> SUFFICES ASSUME NEW i \in 1..(t + n) PROVE w[i] = g[i]
    OBVIOUS
  <2>1. CASE i <= t
    <3>1. i \in 1..t
      BY <2>1
    <3> QED
      BY <1>1, <1>2, <1>5, <3>1
  <2>2. CASE i > t
    <3>1. i - t \in 1..n /\ t + (i - t) = i
      BY <2>2
    <3> QED
      BY <1>2, <1>5, <3>1
  <2> QED
    BY <2>1, <2>2
<1>7. w = g
  BY <1>2, <1>5, <1>6, SeqEqual
<1> QED
  BY <1>1, <1>2, <1>3, <1>7 DEF EncAfter

\* One more chunk, encrypted, after whole blocks.
LEMMA GoodNext ==
  ASSUME NEW f \in Nat, NEW t \in Nat, NEW n \in Nat \ {0}, NextEnd(t, n), NEW c, NEW d,
         GoodAt(c, f, t), NEW out, EncChunk(f, t, n, out),
         F!M!Padded(d.text) = F!M!Padded(c.text \o out),
         n % BlockUnits = 0 => d.at = c.at + n /\ d.text = c.text \o out
  PROVE  GoodAt(d, f, t + n)
<1>1. c.at = t /\ c.text = Enc(f, t)
  BY DEF GoodAt, NextEnd
<1>2. c.text \o out = Enc(f, t + n)
  <2>1. n \in Nat
    OBVIOUS
  <2>2. EncAfter(f, t, n, out)
    BY <2>1, EncMore
  <2> QED
    BY <1>1, <2>2 DEF EncAfter
<1> QED
  BY <1>1, <1>2 DEF GoodAt, NextEnd

LEMMA BehindNext ==
  ASSUME NEW t \in Nat, NEW n \in Nat \ {0}, NextEnd(t, n), NEW c, NEW d,
         BehindAt(c, t), c.text \in Seq(Units), NEW out \in Seq(Units), Len(out) = n,
         F!M!Padded(d.text) = F!M!Padded(c.text \o out),
         n % BlockUnits = 0 => d.text = c.text \o out
  PROVE  BehindAt(d, t + n)
<1>0. FileUnits \in Nat /\ BlockUnits \in Nat \ {0}
  BY CryptoAssumption
<1>1. PICK l \in Nat : l = Len(c.text) /\ l % BlockUnits = 0 /\ l < t
  BY DEF BehindAt, NextEnd
<1>2. PICK b \in Nat : b = F!M!ToBlock(n)
  BY ToBlockFacts
<1>3. /\ Len(F!M!Padded(c.text \o out)) = l + b
      /\ n % BlockUnits = 0 => (l + n) % BlockUnits = 0
  BY <1>1, <1>2, ChunkPadded
<1>4. F!M!ToBlock(t + n) = t + b
  BY <1>2, ToBlockAfter DEF NextEnd
<1>5. ASSUME t + n = FileUnits PROVE Len(F!M!Padded(d.text)) < F!M!ToBlock(FileUnits)
  BY <1>1, <1>3, <1>4, <1>5
<1>6. ASSUME t + n < FileUnits PROVE Len(d.text) % BlockUnits = 0 /\ Len(d.text) < t + n
  <2>1. n % BlockUnits = 0
    BY <1>0, <1>6 DEF NextEnd
  <2>2. Join(c.text \o out, Units, c.text, out)
    BY Joined
  <2>3. Len(c.text \o out) = l + n
    BY <1>1, <2>2 DEF Join
  <2>4. Len(d.text) = l + n
    BY <2>1, <2>3
  <2> QED
    BY <1>1, <1>3, <2>1, <2>4
<1> QED
  BY <1>5, <1>6 DEF BehindAt

\* One more chunk that was not encrypted.
LEMMA ChunkLost ==
  ASSUME NEW f \in Nat, NEW t \in Nat, NEW n \in Nat \ {0}, NextEnd(t, n), NEW c,
         c.text \in Seq(Units), GoodAt(c, f, t) \/ BehindAt(c, t)
  PROVE  BehindAt(c, t + n)
<1>0. FileUnits \in Nat /\ t < FileUnits /\ t % BlockUnits = 0
  BY CryptoAssumption DEF NextEnd
<1>1. PICK l \in Nat : l = Len(c.text) /\ l % BlockUnits = 0 /\ l <= t
  <2>1. CASE GoodAt(c, f, t)
    <3>1. c.text = Enc(f, t)
      BY <1>0, <2>1 DEF GoodAt
    <3>2. Len(c.text) = t
      BY <3>1, EncFacts
    <3> QED
      BY <1>0, <3>2
  <2>2. CASE BehindAt(c, t)
    BY <1>0, <2>2 DEF BehindAt
  <2> QED
    BY <2>1, <2>2
<1>2. F!M!Padded(c.text) = c.text
  BY <1>1, PaddedFacts
<1>3. F!M!ToBlock(FileUnits) \in Nat /\ F!M!ToBlock(FileUnits) >= FileUnits
  BY <1>0, ToBlockFacts
<1> QED
  BY <1>0, <1>1, <1>2, <1>3 DEF BehindAt

\* A unit of the text on its way is not what was encrypted, if it is spoiled.
Hit(w, t, sp) == sp => \E i \in 1..t : w[i] = F!M!Pad

Sends(c) ==
    /\ Context(c, library["sender"], "ENCRYPT", file)
    /\ \/ GoodAt(c, file, taken) /\ Hit(wire, taken, spoiled)
       \/ spoiled /\ BehindAt(c, taken)

Sent(text) ==
    \/ text = F!M!Padded(Enc(file, FileUnits)) /\ Hit(wire, FileUnits, spoiled)
    \/ spoiled /\ Len(text) < F!M!ToBlock(FileUnits)

FileType ==
    /\ file \in Nat \ {0} /\ taken \in 0..FileUnits /\ read \in 0..taken /\ spoiled \in BOOLEAN
    /\ taken = FileUnits \/ taken % BlockUnits = 0
    /\ read = FileUnits \/ read % BlockUnits = 0
    /\ wire \in Seq(Units) /\ Len(wire) = taken

SenderInv ==
    /\ ~spoiled => wire = Enc(file, taken)
    /\ tag = <<>> /\ send = <<>> => taken = 0 /\ ~spoiled
    /\ tag = <<>> /\ send # <<>> => \E c : send = <<c>> /\ Sends(c)
    /\ tag # <<>> => /\ send = <<>> /\ taken = FileUnits
                     /\ \E text \in Seq(Units) : tag = <<file, "", text>> /\ Sent(text)

\* A call of the sender with data.
LEMMA SenderContext ==
  ASSUME FileType, SenderInv, tag = <<>>, NEW key0 \in {0, file},
         NEW held, held = F!CallContext(send, library["sender"], key0, "ENCRYPT"), held # <<>>
  PROVE  \E c : held = <<c>> /\ Sends(c)
<1>1. CASE send # <<>>
  <2>1. held = send
    BY <1>1 DEF F!CallContext
  <2> QED
    BY <1>1, <2>1 DEF SenderInv
<1>2. CASE send = <<>>
  <2>1. key0 = file /\ key0 # 0
    BY <1>2 DEF F!CallContext
  <2>2. held = F!ContextNew(library["sender"], file, "ENCRYPT")
    BY <1>2, <2>1 DEF F!CallContext
  <2> DEFINE c == Fresh("ENCRYPT", file)
  <2>3. held = <<c>> /\ Context(c, library["sender"], "ENCRYPT", file)
    BY <2>2, NewContext DEF FileType
  <2>4. taken = 0 /\ ~spoiled
    BY <1>2 DEF SenderInv
  <2>5. c.at = 0 /\ c.text = <<>> /\ Enc(file, 0) = <<>>
    BY DEF Fresh, Enc
  <2>6. GoodAt(c, file, taken) /\ Hit(wire, taken, spoiled)
    BY <2>4, <2>5 DEF GoodAt, Hit
  <2> QED
    BY <2>3, <2>6 DEF Sends
<1> QED
  BY <1>1, <1>2

LEMMA ContentChunk ==
  ASSUME NEW t \in Nat, NEW n \in Nat, t + n <= FileUnits
  PROVE  LET input == SubSeq(F!Content, t + 1, t + n)
         IN  DOMAIN input = 1..n /\ Len(input) = n /\ \A i \in 1..n : input[i] = t + i
<1> DEFINE all == F!Content
<1>1. FileUnits \in Nat
  BY CryptoAssumption
<1>2. all \in Seq(Nat) /\ Len(all) = FileUnits /\ \A i \in 1..FileUnits : all[i] = i
  <2>1. all \in [1..FileUnits -> Nat] /\ \A i \in 1..FileUnits : all[i] = i
    BY <1>1 DEF F!Content
  <2> HIDE DEF all
  <2> QED
    BY <1>1, <2>1
<1> HIDE DEF all
<1>3. PICK a \in Nat, b \in Nat : a = t + 1 /\ b = t + n /\ a \in 1..(Len(all) + 1) /\ b \in 0..Len(all)
                                  /\ b - a + 1 = n
  BY <1>1, <1>2
<1>4. PICK input : input = SubSeq(all, a, b)
  OBVIOUS
<1>5. Len(input) = n /\ DOMAIN input = 1..n
  BY <1>2, <1>3, <1>4
<1>6. \A i \in 1..n : input[i] = all[a + i - 1]
  BY <1>2, <1>3, <1>4
<1>7. \A i \in 1..n : input[i] = t + i
  <2> SUFFICES ASSUME NEW i \in 1..n PROVE input[i] = t + i
    OBVIOUS
  <2>1. a + i - 1 = t + i /\ t + i \in 1..FileUnits
    BY <1>1, <1>3
  <2> QED
    BY <1>2, <1>6, <2>1
<1> QED
  BY <1>3, <1>4, <1>5, <1>7 DEF all

\* More units on their way.
LEMMA WireMore ==
  ASSUME FileType, NEW out \in Seq(Units), NEW n \in Nat, Len(out) = n, NextEnd(taken, n),
         wire' = wire \o out, taken' = taken + n, UNCHANGED <<file, read>>, spoiled' \in BOOLEAN
  PROVE  /\ FileType'
         /\ \A i \in 1..taken : wire'[i] = wire[i]
         /\ \A i \in 1..n : wire'[taken + i] = out[i]
<1>0. FileUnits \in Nat /\ BlockUnits \in Nat \ {0}
  BY CryptoAssumption
<1>1. PICK w : w = wire'
  OBVIOUS
<1>2. Join(w, Units, wire, out)
  BY <1>1, Joined DEF FileType
<1>3. w \in Seq(Units) /\ Len(w) = taken + n /\ (\A i \in 1..taken : w[i] = wire[i])
      /\ (\A i \in 1..n : w[taken + i] = out[i])
  BY <1>2 DEF Join, FileType
<1>4. taken \in Nat /\ taken + n \in 0..FileUnits /\ read \in 0..(taken + n)
  BY <1>0 DEF FileType, NextEnd
<1>5. taken + n = FileUnits \/ (taken + n) % BlockUnits = 0
  BY <1>4, ToBlockAfter DEF NextEnd
<1>6. FileType'
  BY <1>1, <1>3, <1>4, <1>5 DEF FileType, Units
<1> QED
  BY <1>1, <1>3, <1>6

LEMMA EncryptKeeps ==
  ASSUME FileType, SenderInv, F!bctbx_aes_gcm_encryptFile
  PROVE  FileType' /\ SenderInv' /\ \A i \in 1..taken : wire'[i] = wire[i]
<1>1. PICK n \in 1..(FileUnits - taken), key0 \in {0, file} :
         LET held == F!CallContext(send, library["sender"], key0, "ENCRYPT")
             done == F!ProcessChunk(library["sender"], held[1], SubSeq(F!Content, taken + 1, taken + n))
         IN  /\ F!Aligned(n, FileUnits - taken) /\ held # <<>>
             /\ taken' = taken + n
             /\ \/ /\ send' = <<done.ctx>> /\ wire' = wire \o done.out
                   /\ UNCHANGED spoiled
                \/ /\ send' = held /\ wire' = wire \o [i \in 1..n |-> F!M!Pad]
                   /\ spoiled' = TRUE
  BY DEF F!bctbx_aes_gcm_encryptFile
<1>2. tag = <<>> /\ taken < FileUnits /\ UNCHANGED <<library, file, recv, tag, read, plain, verdict, offered>>
  BY DEF F!bctbx_aes_gcm_encryptFile
<1>3. PICK held : held = F!CallContext(send, library["sender"], key0, "ENCRYPT") /\ held # <<>>
  BY <1>1
<1>4. PICK c : held = <<c>> /\ Sends(c)
  BY <1>2, <1>3, SenderContext
<1>5. PICK input : input = SubSeq(F!Content, taken + 1, taken + n)
  OBVIOUS
<1>6. PICK done : done = F!ProcessChunk(library["sender"], c, input)
  OBVIOUS
<1>7. /\ F!Aligned(n, FileUnits - taken) /\ taken' = taken + n
      /\ \/ send' = <<done.ctx>> /\ wire' = wire \o done.out /\ spoiled' = spoiled
         \/ send' = <<c>> /\ wire' = wire \o [i \in 1..n |-> F!M!Pad] /\ spoiled' = TRUE
  <2>1. held[1] = c
    BY <1>4
  <2> QED
    BY <1>1, <1>3, <1>4, <1>5, <1>6, <2>1
<1>8. FileUnits \in Nat /\ taken \in Nat /\ n \in Nat \ {0} /\ n \in Nat /\ file \in Nat /\ taken + n \in Nat
  BY CryptoAssumption DEF FileType
<1>9. NextEnd(taken, n)
  BY <1>2, <1>7, <1>8 DEF NextEnd, F!Aligned, FileType
<1>10. DOMAIN input = 1..n /\ Len(input) = n /\ \A i \in 1..n : input[i] = taken + i
  BY <1>5, <1>8, <1>9, ContentChunk DEF NextEnd
<1>11. /\ Context(c, library["sender"], "ENCRYPT", file) /\ c.text \in Seq(Units) /\ c.at \in Nat
       /\ c.mode = "ENCRYPT" /\ c.key = file
  BY <1>4 DEF Sends, Context, GcmContext
<1>12. Len(c.text) % BlockUnits = 0
  <2>1. CASE GoodAt(c, file, taken)
    <3>1. c.text = Enc(file, taken) /\ Len(Enc(file, taken)) = taken
      BY <1>2, <1>8, <2>1, EncFacts DEF GoodAt
    <3> QED
      BY <1>9, <3>1 DEF NextEnd
  <2>2. CASE BehindAt(c, taken)
    BY <1>2, <2>2 DEF BehindAt
  <2> QED
    BY <1>4, <2>1, <2>2 DEF Sends
<1>13. PICK out \in Seq(Units) : /\ Len(out) = n
                                 /\ out = [i \in 1..n |-> F!M!Crypt(c.mode, c.key, c.at + i, input[i])]
                                 /\ \A i \in 1..n : out[i] = <<file, c.at + i, taken + i>>
  <2> DEFINE o == [i \in 1..n |-> F!M!Crypt(c.mode, c.key, c.at + i, input[i])]
  <2>1. \A i \in 1..n : F!M!Crypt(c.mode, c.key, c.at + i, input[i]) = <<file, c.at + i, taken + i>>
    BY <1>10, <1>11 DEF F!M!Crypt
  <2>2. \A i \in 1..n : o[i] = <<file, c.at + i, taken + i>>
    BY <2>1
  <2>3. o \in [1..n -> Units]
    BY <1>8, <1>11, <2>1 DEF Units
  <2> HIDE DEF o
  <2>4. o \in Seq(Units) /\ Len(o) = n
    BY <1>8, <2>3
  <2>5. o = [i \in 1..n |-> F!M!Crypt(c.mode, c.key, c.at + i, input[i])]
    BY DEF o
  <2> QED
    BY <2>2, <2>4, <2>5
<1>14. /\ done.out = out
       /\ Context(done.ctx, library["sender"], "ENCRYPT", file)
       /\ F!M!Padded(done.ctx.text) = F!M!Padded(c.text \o out)
       /\ n % BlockUnits = 0 => done.ctx.at = c.at + n /\ done.ctx.text = c.text \o out
  <2>1. ChunkOf(c, n, input, out, out)
    BY <1>10, <1>11, <1>13 DEF ChunkOf
  <2>2. PICK lib : lib = library["sender"]
    OBVIOUS
  <2>3. Context(c, lib, "ENCRYPT", file)
    BY <1>11, <2>2
  <2>4. LET d == F!ProcessChunk(lib, c, input)
        IN  /\ d.out = out
            /\ Context(d.ctx, lib, "ENCRYPT", file)
            /\ F!M!Padded(d.ctx.text) = F!M!Padded(c.text \o out)
            /\ n % BlockUnits = 0 => d.ctx.at = c.at + n /\ d.ctx.text = c.text \o out
    BY <1>8, <1>12, <2>1, <2>3, Processed
  <2> QED
    BY <1>6, <2>2, <2>4
<1>15. ASSUME send' = <<done.ctx>>, wire' = wire \o done.out, spoiled' = spoiled
       PROVE  /\ FileType' /\ \A i \in 1..taken : wire'[i] = wire[i]
              /\ ~spoiled' => wire' = Enc(file', taken')
              /\ \E e : send' = <<e>> /\ Sends(e)'
  <2>1. /\ FileType' /\ (\A i \in 1..taken : wire'[i] = wire[i])
        /\ \A i \in 1..n : wire'[taken + i] = out[i]
    <3>1. spoiled' \in BOOLEAN /\ wire' = wire \o out /\ UNCHANGED <<file, read>>
      BY <1>2, <1>14, <1>15 DEF FileType
    <3> QED
      BY <1>7, <1>8, <1>9, <1>13, <3>1, WireMore
  <2>2. PICK d : d = done.ctx
    OBVIOUS
  <2>3. Context(d, library'["sender"], "ENCRYPT", file')
    BY <1>2, <1>14, <2>2
  <2>4. CASE GoodAt(c, file, taken) /\ Hit(wire, taken, spoiled)
    <3>1. c.at = taken
      BY <1>2, <2>4 DEF GoodAt
    <3>2. EncChunk(file, taken, n, out)
      BY <1>13, <3>1 DEF EncChunk
    <3>3. GoodAt(d, file, taken + n)
      BY <1>8, <1>9, <1>14, <2>2, <2>4, <3>2, GoodNext
    <3>4. Hit(wire', taken + n, spoiled)
      <4> SUFFICES ASSUME spoiled PROVE \E i \in 1..(taken + n) : wire'[i] = F!M!Pad
        BY DEF Hit
      <4>1. PICK i \in 1..taken : wire[i] = F!M!Pad
        BY <2>4 DEF Hit
      <4>2. i \in 1..(taken + n) /\ wire'[i] = F!M!Pad
        BY <1>8, <2>1, <4>1
      <4> QED
        BY <4>2
    <3>5. ~spoiled => wire' = Enc(file, taken + n)
      <4>1. EncAfter(file, taken, n, out)
        BY <1>8, <3>2, EncMore
      <4> QED
        BY <1>14, <1>15, <4>1 DEF SenderInv, EncAfter
    <3>6. GoodAt(d, file', taken') /\ Hit(wire', taken', spoiled')
      BY <1>2, <1>7, <1>15, <3>3, <3>4
    <3>7. send' = <<d>> /\ Sends(d)'
      BY <1>15, <2>2, <2>3, <3>6 DEF Sends, Context, GoodAt, Hit, Enc, GcmContext, Units
    <3> QED
      BY <1>2, <1>7, <1>15, <2>1, <3>5, <3>7
  <2>5. CASE spoiled /\ BehindAt(c, taken)
    <3>1. BehindAt(d, taken + n)
      BY <1>8, <1>9, <1>11, <1>13, <1>14, <2>2, <2>5, BehindNext
    <3>2. spoiled' /\ BehindAt(d, taken')
      BY <1>7, <1>15, <2>5, <3>1
    <3>3. send' = <<d>> /\ Sends(d)'
      BY <1>15, <2>2, <2>3, <3>2 DEF Sends, Context, BehindAt, GcmContext, Units
    <3> QED
      BY <2>1, <3>2, <3>3
  <2> QED
    BY <1>4, <2>4, <2>5 DEF Sends
<1>16. ASSUME send' = <<c>>, wire' = wire \o [i \in 1..n |-> F!M!Pad], spoiled' = TRUE
       PROVE  /\ FileType' /\ \A i \in 1..taken : wire'[i] = wire[i]
              /\ ~spoiled' => wire' = Enc(file', taken')
              /\ \E e : send' = <<e>> /\ Sends(e)'
  <2>1. PICK pad \in Seq(Units) : pad = [i \in 1..n |-> F!M!Pad] /\ Len(pad) = n
    <3> DEFINE pad == [i \in 1..n |-> F!M!Pad]
    <3>1. pad \in [1..n -> Units]
      BY <1>8 DEF Units, F!M!Pad
    <3> HIDE DEF pad
    <3>2. pad \in Seq(Units) /\ Len(pad) = n
      BY <1>8, <3>1
    <3> QED
      BY <3>2 DEF pad
  <2>2. /\ FileType' /\ (\A i \in 1..taken : wire'[i] = wire[i])
    BY <1>2, <1>7, <1>8, <1>9, <1>16, <2>1, WireMore
  <2>3. BehindAt(c, taken + n)
    BY <1>4, <1>8, <1>9, <1>11, ChunkLost DEF Sends
  <2>4. Context(c, library'["sender"], "ENCRYPT", file') /\ spoiled' /\ BehindAt(c, taken')
    BY <1>2, <1>7, <1>11, <1>16, <2>3
  <2>5. send' = <<c>> /\ Sends(c)'
    BY <1>16, <2>4 DEF Sends, Context, BehindAt, GcmContext, Units
  <2> QED
    BY <2>2, <2>4, <2>5
<1>17. /\ FileType' /\ \A i \in 1..taken : wire'[i] = wire[i]
       /\ ~spoiled' => wire' = Enc(file', taken')
       /\ \E e : send' = <<e>> /\ Sends(e)'
  BY <1>7, <1>15, <1>16
<1>18. SenderInv'
  BY <1>2, <1>17 DEF SenderInv, Enc
<1> QED
  BY <1>17, <1>18

\* A receiver after t units of w.
ReadAt(c, w, t) ==
    /\ t < FileUnits => c.at = t /\ Len(c.text) = t /\ \A i \in 1..t : c.text[i] = w[i]
    /\ t = FileUnits => F!M!Padded(c.text) = F!M!Padded(w)

Receives(c) == Context(c, library["receiver"], "DECRYPT", file) /\ ReadAt(c, wire, read)

Judged ==
    /\ verdict = "0" => tag = <<file, "", F!M!Padded(wire)>>
    /\ verdict # "0" /\ offered => tag # <<>> /\ tag # <<file, "", F!M!Padded(wire)>>

RecvInv ==
    /\ plain \in Seq(Nat) /\ Len(plain) = read
    /\ \A i \in 1..read : plain[i] = F!M!Crypt("DECRYPT", file, i, wire[i])
    /\ verdict = "none" /\ recv = <<>> => read = 0
    /\ verdict = "none" /\ recv # <<>> => \E c : recv = <<c>> /\ Receives(c)
    /\ verdict # "none" => recv = <<>>
    /\ verdict # "none" /\ read = FileUnits => Judged

\* What the receiver knows does not depend on what it has not read yet.
LEMMA RecvSame ==
  ASSUME FileType, RecvInv, UNCHANGED <<library, file, recv, read, plain, verdict, offered>>,
         \A i \in 1..read : wire'[i] = wire[i],
         read = FileUnits => wire' = wire /\ (tag' = tag \/ tag = <<>>)
  PROVE  RecvInv'
<1>1. \A i \in 1..read : plain[i] = F!M!Crypt("DECRYPT", file, i, wire'[i])
  BY DEF RecvInv
<1>2. ASSUME NEW c, Receives(c) PROVE Receives(c)'
  <2>1. ReadAt(c, wire', read)
    BY <1>2 DEF Receives, ReadAt
  <2> QED
    BY <1>2, <2>1 DEF Receives, Context, ReadAt
<1>3. ASSUME verdict # "none", read = FileUnits PROVE Judged'
  <2>1. Judged
    BY <1>3 DEF RecvInv
  <2>2. CASE tag' = tag
    BY <1>3, <2>1, <2>2 DEF Judged
  <2>3. CASE tag = <<>>
    <3>1. verdict # "0" /\ ~offered
      BY <2>1, <2>3 DEF Judged
    <3> QED
      BY <3>1 DEF Judged
  <2> QED
    BY <1>3, <2>2, <2>3
<1> QED
  BY <1>1, <1>2, <1>3 DEF RecvInv

FileInv == FileType /\ SenderInv /\ RecvInv

LEMMA EncryptStep == FileInv /\ F!bctbx_aes_gcm_encryptFile => FileInv'
<1> SUFFICES ASSUME FileInv, F!bctbx_aes_gcm_encryptFile PROVE FileInv'
  OBVIOUS
<1>1. FileType' /\ SenderInv' /\ \A i \in 1..taken : wire'[i] = wire[i]
  BY EncryptKeeps DEF FileInv
<1>2. taken < FileUnits /\ UNCHANGED <<library, file, recv, read, plain, verdict, offered>>
  BY DEF F!bctbx_aes_gcm_encryptFile
<1>3. FileUnits \in Nat /\ taken \in Nat /\ read \in 0..taken
  BY CryptoAssumption DEF FileInv, FileType
<1>4. read # FileUnits /\ \A i \in 1..read : wire'[i] = wire[i]
  BY <1>1, <1>2, <1>3
<1>5. RecvInv'
  BY <1>2, <1>4, RecvSame DEF FileInv
<1> QED
  BY <1>1, <1>5 DEF FileInv

\* The end of the stream of the sender.
LEMMA TagMade ==
  ASSUME NEW c, Context(c, library["sender"], "ENCRYPT", file), taken = FileUnits, Sends(c)
  PROVE  \E text \in Seq(Units) : /\ F!Finish(library["sender"], c, <<>>).tag = <<file, "", text>>
                                  /\ Sent(text)
<1>1. c.text \in Seq(Units) /\ FileUnits \in Nat
  BY CryptoAssumption DEF Context, GcmContext
<1>2. PICK text \in Seq(Units) : text = F!M!Padded(c.text)
  BY <1>1, PaddedFacts
<1>3. F!Finish(library["sender"], c, <<>>).tag = <<file, "", text>>
  <2>1. PICK lib : lib = library["sender"]
    OBVIOUS
  <2>2. Context(c, lib, "ENCRYPT", file)
    BY <2>1
  <2>3. EndOf(lib, "ENCRYPT", file, c, <<>>)
    BY <2>2, Finished
  <2> QED
    BY <1>2, <2>1, <2>3 DEF EndOf
<1>4. CASE GoodAt(c, file, taken) /\ Hit(wire, taken, spoiled)
  BY <1>2, <1>3, <1>4 DEF GoodAt, Sent
<1>5. CASE spoiled /\ BehindAt(c, taken)
  <2>1. Len(text) < F!M!ToBlock(FileUnits)
    BY <1>2, <1>5 DEF BehindAt
  <2> QED
    BY <1>3, <1>5, <2>1 DEF Sent
<1> QED
  BY <1>4, <1>5 DEF Sends

LEMMA EncryptFinish == FileInv /\ F!bctbx_aes_gcm_encryptFile_finish => FileInv'
<1> SUFFICES ASSUME FileInv, F!bctbx_aes_gcm_encryptFile_finish PROVE FileInv'
  OBVIOUS
<1>1. PICK key0 \in {0, file} :
         LET held == F!CallContext(send, library["sender"], key0, "ENCRYPT")
         IN  held # <<>> /\ tag' = F!Finish(library["sender"], held[1], <<>>).tag
  BY DEF F!bctbx_aes_gcm_encryptFile_finish
<1>2. /\ tag = <<>> /\ taken = FileUnits /\ send' = <<>>
      /\ UNCHANGED <<library, file, recv, taken, wire, read, plain, verdict, spoiled, offered>>
  BY DEF F!bctbx_aes_gcm_encryptFile_finish
<1>3. PICK held : held = F!CallContext(send, library["sender"], key0, "ENCRYPT") /\ held # <<>>
  BY <1>1
<1>4. PICK c : held = <<c>> /\ Sends(c)
  BY <1>2, <1>3, SenderContext DEF FileInv
<1>5. tag' = F!Finish(library["sender"], c, <<>>).tag
  <2>1. held[1] = c
    BY <1>4
  <2> QED
    BY <1>1, <1>3, <2>1
<1>6. PICK text \in Seq(Units) : tag' = <<file, "", text>> /\ Sent(text)
  <2>1. Context(c, library["sender"], "ENCRYPT", file)
    BY <1>4 DEF Sends
  <2>2. \E text \in Seq(Units) : /\ F!Finish(library["sender"], c, <<>>).tag = <<file, "", text>>
                                 /\ Sent(text)
    BY <1>2, <1>4, <2>1, TagMade
  <2> QED
    BY <1>5, <2>2
<1>7. FileType'
  BY <1>2 DEF FileInv, FileType
<1>8. SenderInv'
  <2>1. ~spoiled' => wire' = Enc(file', taken')
    BY <1>2 DEF FileInv, SenderInv, Enc
  <2>2. Sent(text)'
    BY <1>2, <1>6 DEF Sent, Hit, Enc
  <2>3. tag' # <<>> /\ send' = <<>> /\ taken' = FileUnits /\ tag' = <<file', "", text>>
    BY <1>2, <1>6
  <2> QED
    BY <2>1, <2>2, <2>3 DEF SenderInv, Units
<1>9. RecvInv'
  BY <1>2, RecvSame DEF FileInv
<1> QED
  BY <1>7, <1>8, <1>9 DEF FileInv

LEMMA CorruptStep == FileInv /\ F!Corrupt => FileInv'
<1> SUFFICES ASSUME FileInv, F!Corrupt PROVE FileInv'
  OBVIOUS
<1>1. PICK k \in (read + 1)..Len(wire) : wire' = [wire EXCEPT ![k] = F!M!Pad]
  BY DEF F!Corrupt
<1>2. /\ ~spoiled /\ spoiled' = TRUE
      /\ UNCHANGED <<library, file, send, recv, taken, tag, read, plain, verdict, offered>>
  BY DEF F!Corrupt
<1>3. FileUnits \in Nat /\ taken \in 0..FileUnits /\ read \in 0..taken /\ wire \in Seq(Units) /\ Len(wire) = taken
  BY CryptoAssumption DEF FileInv, FileType
<1>4. k \in 1..taken /\ k > read /\ read # FileUnits
  BY <1>1, <1>3
<1>5. PICK w \in Seq(Units) : w = wire' /\ Len(w) = taken /\ w[k] = F!M!Pad
                              /\ \A i \in 1..read : w[i] = wire[i]
  <2>1. PICK pad \in Units : pad = F!M!Pad
    BY DEF Units, F!M!Pad
  <2>2. PICK w : w = [wire EXCEPT ![k] = pad]
    OBVIOUS
  <2>3. w \in Seq(Units) /\ Len(w) = taken /\ w[k] = pad
    BY <1>3, <1>4, <2>2
  <2>4. \A i \in 1..read : w[i] = wire[i]
    BY <1>3, <1>4, <2>2
  <2> QED
    BY <1>1, <2>1, <2>2, <2>3, <2>4
<1>6. FileType'
  BY <1>2, <1>5 DEF FileInv, FileType, Units
<1>7. Hit(wire', taken, TRUE) /\ (taken = FileUnits => Hit(wire', FileUnits, TRUE))
  BY <1>4, <1>5 DEF Hit
<1>8. SenderInv'
  <2>1. tag = <<>> /\ send = <<>> => FALSE
    BY <1>3, <1>4 DEF FileInv, SenderInv
  <2>2. ASSUME NEW c, Sends(c) PROVE Sends(c)'
    <3>1. Context(c, library["sender"], "ENCRYPT", file) /\ GoodAt(c, file, taken)
      BY <1>2, <2>2 DEF Sends
    <3> QED
      BY <1>2, <1>7, <3>1 DEF Sends, Context, GoodAt, Hit, Enc
  <2>3. ASSUME NEW text, Sent(text), taken = FileUnits PROVE Sent(text)'
    BY <1>2, <1>7, <2>3 DEF Sent, Hit, Enc
  <2> QED
    BY <1>2, <2>1, <2>2, <2>3 DEF FileInv, SenderInv
<1>9. RecvInv'
  BY <1>2, <1>4, <1>5, RecvSame DEF FileInv
<1> QED
  BY <1>6, <1>8, <1>9 DEF FileInv

\* A call of the receiver.
LEMMA ReceiverContext ==
  ASSUME FileInv, verdict = "none", NEW key0 \in {0, file},
         NEW held, held = F!CallContext(recv, library["receiver"], key0, "DECRYPT"), held # <<>>
  PROVE  \E c : held = <<c>> /\ Receives(c)
<1>1. CASE recv # <<>>
  <2>1. held = recv
    BY <1>1 DEF F!CallContext
  <2> QED
    BY <1>1, <2>1 DEF FileInv, RecvInv
<1>2. CASE recv = <<>>
  <2>1. key0 = file /\ key0 # 0
    BY <1>2 DEF F!CallContext
  <2>2. held = F!ContextNew(library["receiver"], file, "DECRYPT")
    BY <1>2, <2>1 DEF F!CallContext
  <2> DEFINE c == Fresh("DECRYPT", file)
  <2>3. held = <<c>> /\ Context(c, library["receiver"], "DECRYPT", file)
    BY <2>2, NewContext DEF FileInv, FileType
  <2>4. read = 0 /\ FileUnits \in Nat \ {0}
    BY <1>2, CryptoAssumption DEF FileInv, RecvInv
  <2>5. c.at = 0 /\ Len(c.text) = 0
    BY DEF Fresh
  <2>6. ReadAt(c, wire, read)
    BY <2>4, <2>5 DEF ReadAt
  <2> QED
    BY <2>3, <2>6 DEF Receives
<1> QED
  BY <1>1, <1>2

\* n units of the cipher text from the one after the first t on.
ChunkIn(w, t, n, input) ==
    /\ input \in Seq(Units) /\ Len(input) = n /\ DOMAIN input = 1..n
    /\ \A i \in 1..n : input[i] = w[t + i]

LEMMA WireChunk ==
  ASSUME NEW w \in Seq(Units), NEW t \in Nat, NEW n \in Nat, t + n <= Len(w)
  PROVE  ChunkIn(w, t, n, SubSeq(w, t + 1, t + n))
<1>1. PICK a \in Nat, b \in Nat : a = t + 1 /\ b = t + n /\ a \in 1..(Len(w) + 1) /\ b \in 0..Len(w)
                                  /\ b - a + 1 = n
  OBVIOUS
<1>2. PICK input : input = SubSeq(w, a, b)
  OBVIOUS
<1>3. Len(input) = n /\ DOMAIN input = 1..n /\ input \in Seq(Units)
  BY <1>1, <1>2
<1>4. \A i \in 1..n : input[i] = w[a + i - 1]
  BY <1>1, <1>2
<1>5. \A i \in 1..n : input[i] = w[t + i]
  <2> SUFFICES ASSUME NEW i \in 1..n PROVE input[i] = w[t + i]
    OBVIOUS
  <2>1. a + i - 1 = t + i
    BY <1>1
  <2> QED
    BY <1>4, <2>1
<1> QED
  BY <1>1, <1>2, <1>3, <1>5 DEF ChunkIn

\* What the receiver has after n more units.
LEMMA ReadMore ==
  ASSUME NEW w \in Seq(Units), NEW t \in Nat, NEW n \in Nat \ {0}, NextEnd(t, n),
         t + n <= Len(w), Len(w) <= FileUnits, NEW input, ChunkIn(w, t, n, input),
         NEW c, NEW d, c.text \in Seq(Units), ReadAt(c, w, t),
         F!M!Padded(d.text) = F!M!Padded(c.text \o input),
         n % BlockUnits = 0 => d.at = c.at + n /\ d.text = c.text \o input
  PROVE  ReadAt(d, w, t + n)
<1>0. FileUnits \in Nat /\ t < FileUnits
  BY CryptoAssumption DEF NextEnd
<1>1. PICK s \in Seq(Units) : s = c.text /\ Len(s) = t /\ \A i \in 1..t : s[i] = w[i]
  BY <1>0 DEF ReadAt
<1>2. input \in Seq(Units) /\ Len(input) = n /\ \A i \in 1..n : input[i] = w[t + i]
  BY DEF ChunkIn
<1>3. PICK g : g = s \o input
  OBVIOUS
<1>4. Join(g, Units, s, input)
  BY <1>2, <1>3, Joined
<1>5. g \in Seq(Units) /\ Len(g) = t + n /\ (\A i \in 1..t : g[i] = s[i])
      /\ (\A i \in 1..n : g[t + i] = input[i])
  BY <1>1, <1>2, <1>4 DEF Join
<1>6. \A i \in 1..(t + n) : g[i] = w[i]
  <2> SUFFICES ASSUME NEW i \in 1..(t + n) PROVE g[i] = w[i]
    OBVIOUS
  <2>1. CASE i <= t
    <3>1. i \in 1..t
      BY <2>1
    <3> QED
      BY <1>1, <1>5, <3>1
  <2>2. CASE i > t
    <3>1. i - t \in 1..n /\ t + (i - t) = i
      BY <2>2
    <3> QED
      BY <1>2, <1>5, <3>1
  <2> QED
    BY <2>1, <2>2
<1>7. ASSUME t + n < FileUnits
      PROVE  d.at = t + n /\ Len(d.text) = t + n /\ \A i \in 1..(t + n) : d.text[i] = w[i]
  <2>1. n % BlockUnits = 0
    BY <1>0, <1>7 DEF NextEnd
  <2>2. d.text = g /\ d.at = t + n
    BY <1>0, <1>1, <1>3, <2>1 DEF ReadAt
  <2> QED
    BY <1>5, <1>6, <2>2
<1>8. ASSUME t + n = FileUnits PROVE F!M!Padded(d.text) = F!M!Padded(w)
  <2>1. Len(w) = t + n
    BY <1>0, <1>8
  <2>2. g = w
    BY <1>5, <1>6, <2>1, SeqEqual
  <2> QED
    BY <1>1, <1>3, <2>2
<1> QED
  BY <1>7, <1>8 DEF ReadAt

LEMMA SenderSame ==
  ASSUME SenderInv, UNCHANGED <<library, file, send, taken, wire, tag, spoiled>>
  PROVE  SenderInv'
<1>1. ASSUME NEW c, Sends(c) PROVE Sends(c)'
  <2>1. CASE GoodAt(c, file, taken) /\ Hit(wire, taken, spoiled)
    BY <1>1, <2>1 DEF Sends, Context, GoodAt, Hit, Enc
  <2>2. CASE spoiled /\ BehindAt(c, taken)
    BY <1>1, <2>2 DEF Sends, Context, BehindAt
  <2> QED
    BY <1>1, <2>1, <2>2 DEF Sends
<1>2. ASSUME NEW text, Sent(text) PROVE Sent(text)'
  BY <1>2 DEF Sent, Hit, Enc
<1>3. ~spoiled' => wire' = Enc(file', taken')
  BY DEF SenderInv, Enc
<1> QED
  BY <1>1, <1>2, <1>3 DEF SenderInv

LEMMA DecryptStep == FileInv /\ F!bctbx_aes_gcm_decryptFile => FileInv'
<1> SUFFICES ASSUME FileInv, F!bctbx_aes_gcm_decryptFile PROVE FileInv'
  OBVIOUS
<1>1. PICK n \in 1..(Len(wire) - read), key0 \in {0, file} :
         LET held == F!CallContext(recv, library["receiver"], key0, "DECRYPT")
             done == F!ProcessChunk(library["receiver"], held[1], SubSeq(wire, read + 1, read + n))
         IN  /\ F!Aligned(n, FileUnits - read) /\ held # <<>>
             /\ recv' = <<done.ctx>> /\ plain' = plain \o done.out /\ read' = read + n
  BY DEF F!bctbx_aes_gcm_decryptFile
<1>2. verdict = "none" /\ UNCHANGED <<library, file, send, taken, wire, tag, verdict, spoiled, offered>>
  BY DEF F!bctbx_aes_gcm_decryptFile
<1>3. PICK held : held = F!CallContext(recv, library["receiver"], key0, "DECRYPT") /\ held # <<>>
  BY <1>1
<1>4. PICK c : held = <<c>> /\ Receives(c)
  BY <1>2, <1>3, ReceiverContext
<1>5. PICK input : input = SubSeq(wire, read + 1, read + n)
  OBVIOUS
<1>6. PICK done : done = F!ProcessChunk(library["receiver"], c, input)
  OBVIOUS
<1>7. F!Aligned(n, FileUnits - read) /\ recv' = <<done.ctx>> /\ plain' = plain \o done.out /\ read' = read + n
  <2>1. held[1] = c
    BY <1>4
  <2> QED
    BY <1>1, <1>3, <1>5, <1>6, <2>1
<1>8. /\ FileUnits \in Nat /\ taken \in 0..FileUnits /\ read \in Nat /\ wire \in Seq(Units)
      /\ Len(wire) = taken /\ n \in Nat \ {0} /\ n \in Nat /\ read + n <= taken /\ read + n \in Nat
      /\ read < FileUnits /\ read % BlockUnits = 0 /\ file \in Nat
  BY CryptoAssumption DEF FileInv, FileType
<1>9. NextEnd(read, n)
  BY <1>7, <1>8 DEF NextEnd, F!Aligned
<1>10. ChunkIn(wire, read, n, input)
  BY <1>5, <1>8, WireChunk
<1>11. /\ Context(c, library["receiver"], "DECRYPT", file) /\ c.text \in Seq(Units) /\ c.at = read
       /\ c.mode = "DECRYPT" /\ c.key = file /\ Len(c.text) % BlockUnits = 0 /\ ReadAt(c, wire, read)
  BY <1>4, <1>8 DEF Receives, ReadAt, Context, GcmContext
<1>12. PICK out \in Seq(Nat) : /\ Len(out) = n
                               /\ out = [i \in 1..n |-> F!M!Crypt(c.mode, c.key, c.at + i, input[i])]
                               /\ \A i \in 1..n : out[i] = F!M!Crypt("DECRYPT", file, read + i, wire[read + i])
  <2> DEFINE o == [i \in 1..n |-> F!M!Crypt(c.mode, c.key, c.at + i, input[i])]
  <2>1. \A i \in 1..n : o[i] = F!M!Crypt("DECRYPT", file, read + i, wire[read + i])
    BY <1>10, <1>11 DEF ChunkIn
  <2>2. \A i \in 1..n : wire[read + i] \in Units
    BY <1>8
  <2>3. o \in [1..n -> Nat]
    <3>1. \A u \in Units, a \in Nat : F!M!Crypt("DECRYPT", file, a, u) \in Nat
      BY DEF Units, F!M!Crypt
    <3>2. \A i \in 1..n : read + i \in Nat
      BY <1>8
    <3>3. \A i \in 1..n : o[i] \in Nat
      BY <2>1, <2>2, <3>1, <3>2
    <3> QED
      BY <3>3
  <2>4. o = [i \in 1..n |-> F!M!Crypt(c.mode, c.key, c.at + i, input[i])]
    OBVIOUS
  <2> HIDE DEF o
  <2>5. o \in Seq(Nat) /\ Len(o) = n
    BY <1>8, <2>3
  <2> QED
    BY <2>1, <2>4, <2>5
<1>13. /\ done.out = out
       /\ Context(done.ctx, library["receiver"], "DECRYPT", file)
       /\ F!M!Padded(done.ctx.text) = F!M!Padded(c.text \o input)
       /\ n % BlockUnits = 0 => done.ctx.at = c.at + n /\ done.ctx.text = c.text \o input
  <2>1. ChunkOf(c, n, input, out, input)
    BY <1>10, <1>11, <1>12 DEF ChunkOf, ChunkIn
  <2>2. PICK lib : lib = library["receiver"]
    OBVIOUS
  <2>3. Context(c, lib, "DECRYPT", file)
    BY <1>11, <2>2
  <2>4. LET d == F!ProcessChunk(lib, c, input)
        IN  /\ d.out = out
            /\ Context(d.ctx, lib, "DECRYPT", file)
            /\ F!M!Padded(d.ctx.text) = F!M!Padded(c.text \o input)
            /\ n % BlockUnits = 0 => d.ctx.at = c.at + n /\ d.ctx.text = c.text \o input
    BY <1>8, <1>11, <2>1, <2>3, Processed
  <2> QED
    BY <1>6, <2>2, <2>4
<1>14. FileType'
  <2>1. read + n = FileUnits \/ (read + n) % BlockUnits = 0
    BY <1>8, <1>9, ToBlockAfter DEF NextEnd
  <2>2. read + n \in 0..taken
    BY <1>8
  <2> QED
    BY <1>2, <1>7, <2>1, <2>2 DEF FileInv, FileType, Units
<1>15. SenderInv'
  BY <1>2, SenderSame DEF FileInv
<1>16. PICK d : d = done.ctx
  OBVIOUS
<1>17. ReadAt(d, wire, read + n)
  <2>1. PICK w \in Seq(Units) : w = wire /\ read + n <= Len(w) /\ Len(w) <= FileUnits
    BY <1>8
  <2>2. ChunkIn(w, read, n, input) /\ ReadAt(c, w, read)
    BY <1>10, <1>11, <2>1
  <2>3. /\ F!M!Padded(d.text) = F!M!Padded(c.text \o input)
        /\ n % BlockUnits = 0 => d.at = c.at + n /\ d.text = c.text \o input
    BY <1>13, <1>16
  <2>4. ReadAt(d, w, read + n)
    BY <1>8, <1>9, <1>11, <2>1, <2>2, <2>3, ReadMore
  <2> QED
    BY <2>1, <2>4
<1>18. Receives(d)' /\ recv' = <<d>>
  BY <1>2, <1>7, <1>13, <1>16, <1>17 DEF Receives, Context, ReadAt, GcmContext, Units
<1>19. PICK p \in Seq(Nat) : /\ p = plain' /\ Len(p) = read + n /\ (\A i \in 1..read : p[i] = plain[i])
                             /\ \A i \in 1..n : p[read + i] = out[i]
  <2>1. PICK p : p = plain \o out
    OBVIOUS
  <2>2. plain \in Seq(Nat) /\ Len(plain) = read
    BY DEF FileInv, RecvInv
  <2>3. Join(p, Nat, plain, out)
    BY <1>12, <2>1, <2>2, Joined
  <2> QED
    BY <1>7, <1>12, <1>13, <2>1, <2>2, <2>3 DEF Join
<1>20. \A i \in 1..(read + n) : p[i] = F!M!Crypt("DECRYPT", file, i, wire[i])
  <2> SUFFICES ASSUME NEW i \in 1..(read + n) PROVE p[i] = F!M!Crypt("DECRYPT", file, i, wire[i])
    OBVIOUS
  <2>1. CASE i <= read
    <3>1. i \in 1..read
      BY <1>8, <2>1
    <3> QED
      BY <1>19, <3>1 DEF FileInv, RecvInv
  <2>2. CASE i > read
    <3>1. PICK j \in 1..n : i = read + j
      <4>1. i - read \in 1..n /\ i = read + (i - read)
        BY <1>8, <2>2
      <4> QED
        BY <4>1
    <3> QED
      BY <1>12, <1>19, <3>1
  <2> QED
    BY <1>8, <2>1, <2>2
<1>21. RecvInv'
  BY <1>2, <1>7, <1>18, <1>19, <1>20 DEF RecvInv
<1> QED
  BY <1>14, <1>15, <1>21 DEF FileInv

LEMMA DecryptFinish == FileInv /\ F!bctbx_aes_gcm_decryptFile_finish => FileInv'
<1> SUFFICES ASSUME FileInv, F!bctbx_aes_gcm_decryptFile_finish PROVE FileInv'
  OBVIOUS
<1>1. PICK key0 \in {0, file}, t \in {<<>>, tag} :
         LET held == F!CallContext(recv, library["receiver"], key0, "DECRYPT")
         IN  /\ held # <<>>
             /\ verdict' = F!Finish(library["receiver"], held[1], t).ret
             /\ offered' = (t # <<>>)
  BY DEF F!bctbx_aes_gcm_decryptFile_finish
<1>2. /\ verdict = "none" /\ recv' = <<>>
      /\ UNCHANGED <<library, file, send, taken, wire, tag, read, plain, spoiled>>
  BY DEF F!bctbx_aes_gcm_decryptFile_finish
<1>3. PICK held : held = F!CallContext(recv, library["receiver"], key0, "DECRYPT") /\ held # <<>>
  BY <1>1
<1>4. PICK c : held = <<c>> /\ Receives(c)
  BY <1>2, <1>3, ReceiverContext
<1>5. verdict' = F!Finish(library["receiver"], c, t).ret /\ offered' = (t # <<>>)
  <2>1. held[1] = c
    BY <1>4
  <2> QED
    BY <1>1, <1>3, <2>1
<1>6. /\ verdict' # "none"
      /\ verdict' = "0" <=> t = <<file, "", F!M!Padded(c.text)>>
  <2>1. PICK lib : lib = library["receiver"]
    OBVIOUS
  <2>2. Context(c, lib, "DECRYPT", file)
    BY <1>4, <2>1 DEF Receives
  <2>3. EndOf(lib, "DECRYPT", file, c, t)
    BY <2>2, Finished
  <2> QED
    BY <1>5, <2>1, <2>3 DEF EndOf
<1>7. ASSUME read = FileUnits PROVE Judged'
  <2>1. F!M!Padded(c.text) = F!M!Padded(wire)
    BY <1>4, <1>7 DEF Receives, ReadAt
  <2>2. PICK whole : whole = <<file, "", F!M!Padded(wire)>>
    OBVIOUS
  <2>3. verdict' = "0" <=> t = whole
    BY <1>6, <2>1, <2>2
  <2>4. whole # <<>>
    BY <2>2
  <2>5. /\ verdict' = "0" => tag = whole
        /\ verdict' # "0" /\ offered' => tag # <<>> /\ tag # whole
    BY <1>1, <1>5, <2>3, <2>4
  <2> QED
    BY <1>2, <2>2, <2>5 DEF Judged
<1>8. FileType'
  BY <1>2 DEF FileInv, FileType, Units
<1>9. SenderInv'
  BY <1>2, SenderSame DEF FileInv
<1>10. RecvInv'
  BY <1>2, <1>6, <1>7 DEF FileInv, RecvInv
<1> QED
  BY <1>8, <1>9, <1>10 DEF FileInv

LEMMA NextFileStep == FileInv /\ F!NextFile => FileInv'
<1> SUFFICES ASSUME FileInv, F!NextFile PROVE FileInv'
  OBVIOUS
<1>1. /\ tag # <<>> /\ verdict # "none" /\ file' = file + 1
      /\ taken' = 0 /\ wire' = <<>> /\ tag' = <<>> /\ read' = 0 /\ plain' = <<>>
      /\ verdict' = "none" /\ spoiled' = FALSE /\ offered' = FALSE
      /\ UNCHANGED <<library, send, recv>>
  BY DEF F!NextFile
<1>2. send' = <<>> /\ recv' = <<>>
  BY <1>1 DEF FileInv, SenderInv, RecvInv
<1>3. FileUnits \in Nat /\ file' \in Nat \ {0} /\ 0 % BlockUnits = 0
  BY <1>1, CryptoAssumption DEF FileInv, FileType
<1>4. FileType'
  <2>1. <<>> \in Seq(Units) /\ Len(<<>>) = 0
    OBVIOUS
  <2>2. wire' \in Seq(Units) /\ Len(wire') = 0
    BY <1>1, <2>1
  <2>3. taken' \in 0..FileUnits /\ read' \in 0..taken' /\ taken' = 0 /\ read' = 0
    BY <1>1, <1>3
  <2> QED
    BY <1>1, <1>3, <2>2, <2>3 DEF FileType, Units
<1>5. SenderInv'
  <2>1. Enc(file', 0) = <<>>
    BY DEF Enc
  <2>2. wire' = Enc(file', taken')
    BY <1>1, <2>1
  <2> QED
    BY <1>1, <1>2, <2>2 DEF SenderInv
<1>6. RecvInv'
  BY <1>1, <1>2 DEF RecvInv
<1> QED
  BY <1>4, <1>5, <1>6 DEF FileInv

\* One call for the whole text.
EncryptedWhole(lib, f) ==
    LET whole == F!AEADEncrypt(lib, f, 32, F!Content, "")
    IN  whole[1] = Enc(f, FileUnits) /\ whole[2] = <<f, "", F!M!Padded(Enc(f, FileUnits))>>

LEMMA WholeEncrypted ==
  ASSUME NEW f \in Nat, NEW lib \in {"mbedtls", "openssl"}
  PROVE  EncryptedWhole(lib, f)
<1>1. FileUnits \in Nat
  BY CryptoAssumption
<1>2. PICK text : text = F!Content /\ DOMAIN text = 1..FileUnits /\ \A i \in 1..FileUnits : text[i] = i
  <2>1. DOMAIN F!Content = 1..FileUnits /\ \A i \in 1..FileUnits : F!Content[i] = i
    BY DEF F!Content
  <2> QED
    BY <2>1
<1>3. PICK out \in Seq(Units) : out = Enc(f, FileUnits)
  BY <1>1, EncFacts
<1>0. PICK sealed : sealed = <<f, "", F!M!Padded(out)>>
  OBVIOUS
<1>4. CASE lib = "mbedtls"
  <2>1. [i \in DOMAIN text |-> F!M!Crypt("ENCRYPT", f, i, text[i])] = out
    BY <1>2, <1>3 DEF F!M!Crypt, Enc
  <2>2. PICK r : r = F!M!bctbx_aes_gcm_encrypt_and_tag(f, 32, text, "")
    OBVIOUS
  <2>3. r = [ret |-> "0", out |-> out, tag |-> sealed]
    BY <1>0, <2>1, <2>2 DEF F!M!bctbx_aes_gcm_encrypt_and_tag
  <2>4. r.ret = "0" /\ r.out = out /\ r.tag = sealed
    BY <2>3
  <2>5. F!AEADEncrypt(lib, f, 32, text, "") = <<out, sealed>>
    BY <1>4, <2>2, <2>4 DEF F!AEADEncrypt
  <2>6. PICK whole : whole = <<out, sealed>>
    OBVIOUS
  <2>7. whole[1] = out /\ whole[2] = sealed
    BY <2>6
  <2> QED
    BY <1>0, <1>2, <1>3, <2>5, <2>6, <2>7 DEF EncryptedWhole
<1>5. CASE lib = "openssl"
  <2> DEFINE c == Fresh("ENCRYPT", f)
  <2>1. F!O!bctbx_aes_gcm_context_new(f, 32, "", "ENCRYPT") = <<c>>
    BY DEF F!O!bctbx_aes_gcm_context_new, F!O!get_evp_aes_gcm, Fresh
  <2>2. c.mode = "ENCRYPT" /\ c.key = f /\ c.ad = "" /\ c.at = 0 /\ c.text = <<>>
    BY DEF Fresh
  <2>3. PICK done : done = F!O!bctbx_aes_gcm_process_chunk(c, text)
    OBVIOUS
  <2>4. [i \in DOMAIN text |-> F!O!Data!Crypt(c.mode, c.key, c.at + i, text[i])] = out
    <3>1. out = [i \in 1..FileUnits |-> <<f, i, i>>]
      BY <1>3 DEF Enc
    <3>2. ASSUME NEW i \in 1..FileUnits PROVE F!O!Data!Crypt("ENCRYPT", f, 0 + i, text[i]) = <<f, i, i>>
      <4>1. i \in Nat
        BY <1>1
      <4>2. 0 + i = i /\ text[i] = i
        BY <1>2, <4>1
      <4> QED
        BY <4>2 DEF F!O!Data!Crypt
    <3>3. [i \in DOMAIN text |-> F!O!Data!Crypt("ENCRYPT", f, 0 + i, text[i])] = out
      BY <1>2, <3>1, <3>2
    <3> QED
      BY <2>2, <3>3
  <2>5. done.out = out /\ done.ctx = [c EXCEPT !.at = c.at + Len(text), !.text = c.text \o out]
    BY <2>2, <2>3, <2>4 DEF F!O!bctbx_aes_gcm_process_chunk
  <2>6. done.ctx.mode = "ENCRYPT" /\ done.ctx.key = f /\ done.ctx.ad = "" /\ done.ctx.text = out
    <3>1. <<>> \o out = out
      BY <1>3
    <3> QED
      BY <2>2, <2>5, <3>1 DEF Fresh
  <2>7. F!O!bctbx_aes_gcm_finish(done.ctx, <<>>).tag = <<f, "", F!M!Padded(out)>>
    <3>1. F!O!Data!Padded(out) = F!M!Padded(out)
      BY SamePadding
    <3> QED
      BY <2>6, <3>1 DEF F!O!bctbx_aes_gcm_finish
  <2>8. <<c>> # <<>> /\ <<c>>[1] = c
    OBVIOUS
  <2> HIDE DEF c
  <2>9. PICK r : r = F!O!bctbx_aes_gcm_encrypt_and_tag(f, 32, text, "")
    OBVIOUS
  <2>10. r = [ret |-> "0", out |-> out, tag |-> sealed]
    BY <1>0, <2>1, <2>3, <2>5, <2>7, <2>8, <2>9 DEF F!O!bctbx_aes_gcm_encrypt_and_tag
  <2>11. r.ret = "0" /\ r.out = out /\ r.tag = sealed
    BY <2>10
  <2>12. F!AEADEncrypt(lib, f, 32, text, "") = <<out, sealed>>
    BY <1>5, <2>9, <2>11 DEF F!AEADEncrypt
  <2>13. PICK whole : whole = <<out, sealed>>
    OBVIOUS
  <2>14. whole[1] = out /\ whole[2] = sealed
    BY <2>13
  <2> QED
    BY <1>0, <1>2, <1>3, <2>12, <2>13, <2>14 DEF EncryptedWhole
<1> QED
  BY <1>4, <1>5

Uncovered(f, w) == [i \in DOMAIN w |-> F!M!Crypt("DECRYPT", f, i, w[i])]

WholeOf(lib, f, w, t) ==
    LET tagged == <<f, "", F!M!Padded(w)>>
    IN  F!AEADDecrypt(lib, f, 32, w, "", t) = IF t = tagged THEN Uncovered(f, w) ELSE "thrown"

LEMMA WholeDecrypted ==
  ASSUME NEW f \in Nat, NEW lib \in {"mbedtls", "openssl"}, NEW w \in Seq(Units), NEW t
  PROVE  WholeOf(lib, f, w, t)
<1>1. PICK tagged : tagged = <<f, "", F!M!Padded(w)>>
  OBVIOUS
<1>2. tagged # <<>>
  BY <1>1
<1>3. PICK text : text = Uncovered(f, w)
  OBVIOUS
<1>4. CASE lib = "mbedtls"
  <2>1. PICK r : r = F!M!bctbx_aes_gcm_decrypt_and_auth(f, 32, w, "", t)
    OBVIOUS
  <2>2. r = IF t # tagged THEN [ret |-> "AUTHENTICATION_FAILED", out |-> <<>>]
                          ELSE [ret |-> "0", out |-> text]
    BY <1>1, <1>3, <2>1 DEF F!M!bctbx_aes_gcm_decrypt_and_auth, Uncovered
  <2>3. (t # tagged => r.ret # "0") /\ (t = tagged => r.ret = "0" /\ r.out = text)
    BY <2>2
  <2>4. F!AEADDecrypt(lib, f, 32, w, "", t) = IF t = tagged THEN text ELSE "thrown"
    BY <1>2, <1>4, <2>1, <2>3 DEF F!AEADDecrypt
  <2> QED
    BY <1>1, <1>3, <2>4 DEF WholeOf
<1>5. CASE lib = "openssl"
  <2> DEFINE c == Fresh("DECRYPT", f)
  <2>1. F!O!bctbx_aes_gcm_context_new(f, 32, "", "DECRYPT") = <<c>>
    BY DEF F!O!bctbx_aes_gcm_context_new, F!O!get_evp_aes_gcm, Fresh
  <2>2. c.mode = "DECRYPT" /\ c.key = f /\ c.ad = "" /\ c.at = 0 /\ c.text = <<>>
    BY DEF Fresh
  <2>3. PICK done : done = F!O!bctbx_aes_gcm_process_chunk(c, w)
    OBVIOUS
  <2>4. [i \in DOMAIN w |-> F!O!Data!Crypt(c.mode, c.key, c.at + i, w[i])] = text
    <3>1. text = [i \in DOMAIN w |-> F!M!Crypt("DECRYPT", f, i, w[i])]
      BY <1>3 DEF Uncovered
    <3>2. ASSUME NEW i \in DOMAIN w
          PROVE  F!O!Data!Crypt("DECRYPT", f, 0 + i, w[i]) = F!M!Crypt("DECRYPT", f, i, w[i])
      <4>1. i \in Nat
        OBVIOUS
      <4>2. 0 + i = i
        BY <4>1
      <4> QED
        BY <4>2 DEF F!O!Data!Crypt, F!M!Crypt
    <3>3. [i \in DOMAIN w |-> F!O!Data!Crypt("DECRYPT", f, 0 + i, w[i])] = text
      BY <3>1, <3>2
    <3> QED
      BY <2>2, <3>3
  <2>5. done.out = text /\ done.ctx = [c EXCEPT !.at = c.at + Len(w), !.text = c.text \o w]
    BY <2>2, <2>3, <2>4 DEF F!O!bctbx_aes_gcm_process_chunk
  <2>6. done.ctx.mode = "DECRYPT" /\ done.ctx.key = f /\ done.ctx.ad = "" /\ done.ctx.text = w
    <3>1. <<>> \o w = w
      OBVIOUS
    <3> QED
      BY <2>2, <2>5, <3>1 DEF Fresh
  <2>7. F!O!bctbx_aes_gcm_finish(done.ctx, t).ret = IF t = tagged THEN "0" ELSE "UNSPECIFIED_ERROR"
    <3>1. F!O!Data!Padded(w) = F!M!Padded(w)
      BY SamePadding
    <3> QED
      BY <1>1, <2>6, <3>1 DEF F!O!bctbx_aes_gcm_finish
  <2>8. <<c>> # <<>> /\ <<c>>[1] = c
    OBVIOUS
  <2> HIDE DEF c
  <2>9. PICK r : r = F!O!bctbx_aes_gcm_decrypt_and_auth(f, 32, w, "", t)
    OBVIOUS
  <2>10. r = [ret |-> F!O!bctbx_aes_gcm_finish(done.ctx, t).ret, out |-> text]
    BY <2>1, <2>3, <2>5, <2>8, <2>9 DEF F!O!bctbx_aes_gcm_decrypt_and_auth
  <2>11. (t # tagged => r.ret # "0") /\ (t = tagged => r.ret = "0") /\ r.out = text
    BY <2>7, <2>10
  <2>12. F!AEADDecrypt(lib, f, 32, w, "", t) = IF t = tagged THEN text ELSE "thrown"
    BY <1>2, <1>5, <2>9, <2>11 DEF F!AEADDecrypt
  <2> QED
    BY <1>1, <1>3, <2>12 DEF WholeOf
<1> QED
  BY <1>4, <1>5

\* What was not changed is what is uncovered.
LEMMA Recovered ==
  ASSUME NEW f \in Nat
  PROVE  Uncovered(f, Enc(f, FileUnits)) = F!Content
<1>1. FileUnits \in Nat
  BY CryptoAssumption
<1>2. DOMAIN Enc(f, FileUnits) = 1..FileUnits
  BY DEF Enc
<1>3. \A i \in 1..FileUnits : F!M!Crypt("DECRYPT", f, i, Enc(f, FileUnits)[i]) = i
  BY <1>1 DEF Enc, F!M!Crypt
<1> QED
  BY <1>2, <1>3 DEF Uncovered, F!Content

LEMMA SamePadded ==
  ASSUME NEW s \in Seq(Units), NEW t \in Seq(Units), Len(s) = Len(t), F!M!Padded(s) = F!M!Padded(t)
  PROVE  s = t
<1>1. \A i \in 1..Len(s) : s[i] = t[i]
  <2>1. (\A i \in 1..Len(s) : F!M!Padded(s)[i] = s[i]) /\ (\A i \in 1..Len(t) : F!M!Padded(t)[i] = t[i])
    BY PaddedFacts
  <2> QED
    BY <2>1
<1> QED
  BY <1>1, SeqEqual

LEMMA FileInvImplies == FileInv => FileTransfer
<1> SUFFICES ASSUME FileInv PROVE FileTransfer
  OBVIOUS
<1>0. /\ FileUnits \in Nat /\ file \in Nat \ {0} /\ taken \in 0..FileUnits /\ read \in 0..taken
      /\ wire \in Seq(Units) /\ Len(wire) = taken
  BY CryptoAssumption DEF FileInv, FileType
<1>1. PICK enc \in Seq(Units) : /\ enc = Enc(file, FileUnits) /\ Len(enc) = FileUnits
                                /\ \A i \in 1..FileUnits : enc[i] = <<file, i, i>>
  BY <1>0, EncFacts
<1>2. PICK authentic : authentic = <<file, "", F!M!Padded(wire)>>
  OBVIOUS
\* The tag is the one of the text on its way only if that was not changed.
<1>3. ASSUME tag = authentic, taken = FileUnits PROVE ~spoiled /\ wire = enc
  <2>1. tag # <<>>
    BY <1>2, <1>3
  <2>2. PICK text \in Seq(Units) : tag = <<file, "", text>> /\ Sent(text)
    BY <2>1 DEF FileInv, SenderInv
  <2>3. text = F!M!Padded(wire) /\ Len(F!M!Padded(wire)) = F!M!ToBlock(FileUnits)
    <3>1. Len(F!M!Padded(wire)) = F!M!ToBlock(Len(wire))
      BY <1>0, PaddedFacts
    <3>2. Len(wire) = FileUnits
      BY <1>0, <1>3
    <3>3. PICK padded : padded = F!M!Padded(wire)
      OBVIOUS
    <3>4. text = padded
      <4>1. <<file, "", text>> = <<file, "", padded>>
        BY <1>2, <1>3, <2>2, <3>3
      <4>2. <<file, "", text>>[3] = text /\ <<file, "", padded>>[3] = padded
        OBVIOUS
      <4> QED
        BY <4>1, <4>2
    <3> QED
      BY <3>1, <3>2, <3>3, <3>4
  <2>4. F!M!ToBlock(FileUnits) \in Nat
    BY <1>0, ToBlockFacts
  <2>5. F!M!Padded(wire) = F!M!Padded(enc) /\ Hit(wire, FileUnits, spoiled)
    <3>1. ~(Len(text) < F!M!ToBlock(FileUnits))
      <4>1. PICK b \in Nat : b = F!M!ToBlock(FileUnits)
        BY <2>4
      <4>2. Len(text) = b
        BY <2>3, <4>1
      <4> QED
        BY <4>1, <4>2
    <3>2. text = F!M!Padded(Enc(file, FileUnits)) /\ Hit(wire, FileUnits, spoiled)
      BY <2>2, <3>1 DEF Sent
    <3> QED
      BY <1>1, <2>3, <3>2
  <2>6. wire = enc
    BY <1>0, <1>1, <1>3, <2>5, SamePadded
  <2>7. ~spoiled
    <3> SUFFICES ASSUME spoiled PROVE FALSE
      OBVIOUS
    <3>1. PICK i \in 1..FileUnits : wire[i] = F!M!Pad
      BY <2>5 DEF Hit
    <3>2. enc[i] = <<file, i, i>> /\ enc[i] = <<0, 0, 0>>
      BY <1>1, <2>6, <3>1 DEF F!M!Pad
    <3> QED
      BY <1>0, <3>2
  <2> QED
    BY <2>6, <2>7
<1>4. ASSUME ~spoiled, taken = FileUnits PROVE wire = enc /\ (tag # <<>> => tag = authentic)
  <2>1. wire = enc
    BY <1>1, <1>4 DEF FileInv, SenderInv
  <2>2. ASSUME tag # <<>> PROVE tag = authentic
    <3>1. PICK text \in Seq(Units) : tag = <<file, "", text>> /\ Sent(text)
      BY <2>2 DEF FileInv, SenderInv
    <3>2. text = F!M!Padded(enc)
      BY <1>1, <1>4, <3>1 DEF Sent
    <3> QED
      BY <1>2, <2>1, <3>1, <3>2
  <2> QED
    BY <2>1, <2>2
<1>5. read = FileUnits => taken = FileUnits
  BY <1>0
<1>6. ASSUME verdict = "0", read = FileUnits PROVE plain = F!Content
  <2>1. tag = authentic
    BY <1>2, <1>6 DEF FileInv, RecvInv, Judged
  <2>2. wire = enc
    BY <1>3, <1>5, <1>6, <2>1
  <2>3. PICK p \in Seq(Nat) : /\ p = plain /\ Len(p) = FileUnits
                              /\ \A i \in 1..FileUnits : p[i] = F!M!Crypt("DECRYPT", file, i, wire[i])
    BY <1>6 DEF FileInv, RecvInv
  <2>4. \A i \in 1..FileUnits : p[i] = i
    <3> SUFFICES ASSUME NEW i \in 1..FileUnits PROVE p[i] = i
      OBVIOUS
    <3>1. wire[i] = <<file, i, i>>
      BY <1>1, <2>2
    <3> QED
      BY <2>3, <3>1, SMTT(30) DEF F!M!Crypt
  <2>5. p = [i \in 1..FileUnits |-> i]
    <3>1. DOMAIN p = 1..FileUnits /\ p = [i \in DOMAIN p |-> p[i]]
      BY <1>0, <2>3
    <3> QED
      BY <2>4, <3>1
  <2> QED
    BY <2>3, <2>5 DEF F!Content
<1>7. ASSUME verdict \notin {"none", "0"}, read = FileUnits, offered PROVE spoiled
  <2>1. tag # <<>> /\ tag # authentic
    BY <1>2, <1>7 DEF FileInv, RecvInv, Judged
  <2> QED
    BY <1>4, <1>5, <1>7, <2>1
<1>8. ASSUME NEW c \in {send, recv}, c # <<>> PROVE c[1].key = file
  <2>1. PICK x0 : c = <<x0>> /\ x0.key = file
    <3>1. CASE c = send
      <4>1. tag = <<>>
        BY <1>8, <3>1 DEF FileInv, SenderInv
      <4>2. PICK x0 : send = <<x0>> /\ Sends(x0)
        BY <1>8, <3>1, <4>1 DEF FileInv, SenderInv
      <4> QED
        BY <3>1, <4>2 DEF Sends, Context
    <3>2. CASE c = recv
      <4>1. verdict = "none"
        BY <1>8, <3>2 DEF FileInv, RecvInv
      <4>2. PICK x0 : recv = <<x0>> /\ Receives(x0)
        BY <1>8, <3>2, <4>1 DEF FileInv, RecvInv
      <4> QED
        BY <3>2, <4>2 DEF Receives, Context
    <3> QED
      BY <3>1, <3>2
  <2> QED
    BY <2>1
<1>9. ASSUME taken = FileUnits, ~spoiled, NEW lib \in {"mbedtls", "openssl"}
      PROVE  /\ wire = F!AEADEncrypt(lib, file, 32, F!Content, "")[1]
             /\ tag # <<>> => /\ tag = F!AEADEncrypt(lib, file, 32, F!Content, "")[2]
                              /\ F!AEADDecrypt(lib, file, 32, wire, "", tag) = F!Content
  <2>1. EncryptedWhole(lib, file) /\ WholeOf(lib, file, wire, tag)
    BY <1>0, WholeEncrypted, WholeDecrypted
  <2>2. wire = enc /\ (tag # <<>> => tag = authentic)
    BY <1>4, <1>9
  <2>3. Uncovered(file, enc) = F!Content
    BY <1>0, <1>1, Recovered
  <2>4. PICK whole : whole = F!AEADEncrypt(lib, file, 32, F!Content, "")
    OBVIOUS
  <2>5. whole[1] = enc /\ whole[2] = authentic
    BY <1>1, <1>2, <2>1, <2>2, <2>4 DEF EncryptedWhole
  <2>6. tag = authentic => F!AEADDecrypt(lib, file, 32, wire, "", tag) = F!Content
    BY <1>2, <2>1, <2>2, <2>3 DEF WholeOf
  <2> QED
    BY <2>2, <2>4, <2>5, <2>6
<1>10. ASSUME spoiled, tag # <<>>, taken = FileUnits, read = 0, NEW lib \in {"mbedtls", "openssl"}
       PROVE  F!AEADDecrypt(lib, file, 32, wire, "", tag) = "thrown"
  <2>1. tag # authentic
    BY <1>3, <1>10
  <2>2. WholeOf(lib, file, wire, tag)
    BY <1>0, WholeDecrypted
  <2> QED
    BY <1>2, <2>1, <2>2 DEF WholeOf
<1> QED
  BY <1>6, <1>7, <1>8, <1>9, <1>10 DEF FileTransfer

\* crypto.c, mbedtls.c and openssl.c, for a file of any size and blocks of any
\* size, in any chunks, whichever library each side has: see FileTransfer.
THEOREM FileHolds == Spec => []FileTransfer
<1>1. Init => FileInv
  <2> SUFFICES ASSUME Init PROVE FileInv
    OBVIOUS
  <2>1. /\ file = 1 /\ send = <<>> /\ recv = <<>> /\ taken = 0 /\ wire = <<>> /\ tag = <<>>
        /\ read = 0 /\ plain = <<>> /\ verdict = "none" /\ spoiled = FALSE
    BY DEF Init, F!Init
  <2>2. FileUnits \in Nat /\ 0 % BlockUnits = 0
    BY CryptoAssumption
  <2>3. wire \in Seq(Units) /\ Len(wire) = 0 /\ plain \in Seq(Nat) /\ Len(plain) = 0
    BY <2>1
  <2>4. FileType
    <3>1. file \in Nat \ {0} /\ taken \in 0..FileUnits /\ read \in 0..taken
      BY <2>1, <2>2
    <3> QED
      BY <2>1, <2>2, <2>3, <3>1 DEF FileType
  <2>5. Enc(file, 0) = <<>>
    BY DEF Enc
  <2>6. SenderInv
    BY <2>1, <2>5 DEF SenderInv
  <2>7. RecvInv
    BY <2>1, <2>3 DEF RecvInv
  <2> QED
    BY <2>4, <2>6, <2>7 DEF FileInv
<1>2. FileInv /\ [Next]_vars => FileInv'
  <2> SUFFICES ASSUME FileInv, [Next]_vars PROVE FileInv'
    OBVIOUS
  <2>1. CASE F!Next
    BY <2>1, EncryptStep, EncryptFinish, CorruptStep, DecryptStep, DecryptFinish, NextFileStep DEF F!Next
  <2>2. CASE UNCHANGED fileVars
    <3>1. UNCHANGED <<library, file, send, recv, taken, wire, tag, read, plain, verdict, spoiled, offered>>
      BY <2>2 DEF fileVars
    <3>2. FileType'
      BY <3>1 DEF FileInv, FileType
    <3>3. SenderInv'
      BY <3>1, SenderSame DEF FileInv
    <3>4. RecvInv'
      BY <3>1, RecvSame DEF FileInv
    <3> QED
      BY <3>2, <3>3, <3>4 DEF FileInv
  <2> QED
    BY <2>1, <2>2 DEF Next, vars
<1> QED
  BY <1>1, <1>2, FileInvImplies, PTL DEF Spec
=============================================================================
