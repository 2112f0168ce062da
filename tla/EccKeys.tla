------------------------------- MODULE EccKeys -------------------------------
(***************************************************************************)
(* ECDH and EdDSA contexts of ecc.cc (a build with decaf): one of each for *)
(* two parties, which send each other public keys and signed messages.  A  *)
(* key is its curve and a number; a secret key, its public key and the two *)
(* keys converted from them have one number.                               *)
(***************************************************************************)
EXTENDS Naturals, FiniteSets

CONSTANTS XAlgos,   \* curves the ECDH contexts and
          EdAlgos,  \* the EdDSA contexts are made for: bound, both or one of Curves
          Numbers   \* bound: secret keys generated in a behaviour

VARIABLES
    ed, x,          \* the contexts of each party
    made,           \* numbers of secret keys used so far
    edPaired,       \* TRUE while the public key in ed was made from the secret
    xPaired,        \* one, as far as the caller asked; the same of x
    current,        \* TRUE while sharedSecret is of the present keys
    signature,      \* the signature that travels
    verified        \* what bctbx_EDDSA_verify last said, and of what

vars == <<ed, x, made, edPaired, xPaired, current, signature, verified>>

Party == {"alice", "bob"}

Curves == {25519, 448}

NoKey == [curve |-> 0, n |-> 0]

Key(c, n) == [curve |-> c, n |-> n]

NoEd == [live |-> FALSE, algo |-> 0, secretKey |-> NoKey, publicKey |-> NoKey]

NoX == [live |-> FALSE, algo |-> 0, secret |-> NoKey, selfPublic |-> NoKey, peerPublic |-> NoKey,
        sharedSecret |-> {}]

NoSignature == [key |-> NoKey, message |-> 0, length |-> 0]

NotVerified == [ret |-> "none", public |-> NoKey, message |-> 0, signature |-> NoSignature]

Init == /\ ed = [p \in Party |-> NoEd] /\ x = [p \in Party |-> NoX]
        /\ made = 0
        /\ edPaired = [p \in Party |-> FALSE] /\ xPaired = [p \in Party |-> FALSE]
        /\ current = [p \in Party |-> FALSE]
        /\ signature = NoSignature /\ verified = NotVerified

SignatureBytes(curve) == IF curve = 25519 THEN 64 ELSE 114

-----------------------------------------------------------------------------
(* ECDH.  A key of another length than the context's is ignored.           *)

bctbx_CreateECDHContext(p, algo) ==
    /\ ~x[p].live
    /\ x' = [x EXCEPT ![p] = IF algo \in Curves THEN [NoX EXCEPT !.live = TRUE, !.algo = algo] ELSE NoX]

ECDHSetSecretKey(c, k) == IF c.algo = k.curve THEN [c EXCEPT !.secret = k] ELSE c

ECDHSetSelfPublicKey(c, k) == IF c.algo = k.curve THEN [c EXCEPT !.selfPublic = k] ELSE c

ECDHSetPeerPublicKey(c, k) == IF c.algo = k.curve THEN [c EXCEPT !.peerPublic = k] ELSE c

ECDHDerivePublicKey(c) == IF c.secret # NoKey THEN [c EXCEPT !.selfPublic = c.secret] ELSE c

ECDHCreateKeyPair(c, n) == ECDHDerivePublicKey([c EXCEPT !.secret = Key(c.algo, n)])

\* decaf refuses a peer key of small order (ok = FALSE): the secret is freed.
ECDHComputeSecret(c, ok) ==
    IF c.secret = NoKey \/ c.peerPublic = NoKey THEN c
    ELSE [c EXCEPT !.sharedSecret = IF ok THEN {c.secret, c.peerPublic} ELSE {}]

bctbx_DestroyECDHContext(p) == x[p].live /\ x' = [x EXCEPT ![p] = NoX]

-----------------------------------------------------------------------------
(* EdDSA.                                                                  *)

bctbx_CreateEDDSAContext(p, algo) ==
    /\ ~ed[p].live
    /\ ed' = [ed EXCEPT ![p] = IF algo \in Curves THEN [NoEd EXCEPT !.live = TRUE, !.algo = algo] ELSE NoEd]

EDDSADerivePublicKey(c) == IF c.secretKey # NoKey THEN [c EXCEPT !.publicKey = c.secretKey] ELSE c

EDDSACreateKeyPair(c, n) == EDDSADerivePublicKey([c EXCEPT !.secretKey = Key(c.algo, n)])

EDDSA_setPublicKey(c, k) == IF c.algo = k.curve THEN [c EXCEPT !.publicKey = k] ELSE c

EDDSA_setSecretKey(c, k) == IF c.algo = k.curve THEN [c EXCEPT !.secretKey = k] ELSE c

bctbx_DestroyEDDSAContext(p) == ed[p].live /\ ed' = [ed EXCEPT ![p] = NoEd]

\* A buffer that is too small gets no signature, and its length becomes 0.
EDDSA_sign(c, message, room) ==
    IF room >= SignatureBytes(c.algo)
    THEN [key |-> c.secretKey, message |-> message, length |-> SignatureBytes(c.algo)]
    ELSE NoSignature

EDDSA_verify(c, message, s) ==
    s.length = SignatureBytes(c.algo) /\ s.key = c.publicKey /\ s.message = message

-----------------------------------------------------------------------------
(* Conversions, between contexts of one curve.                             *)

EDDSA_ECDH_privateKeyConversion(e, c) ==
    IF e.secretKey # NoKey /\ e.algo = c.algo THEN [c EXCEPT !.secret = e.secretKey] ELSE c

\* Mutant: self and peer change places.
publicKeyConversion_swapped(e, c, isSelf) ==
    IF e.publicKey = NoKey \/ e.algo # c.algo THEN c
    ELSE IF isSelf THEN [c EXCEPT !.peerPublic = e.publicKey] ELSE [c EXCEPT !.selfPublic = e.publicKey]

EDDSA_ECDH_publicKeyConversion(e, c, isSelf) ==
    IF e.publicKey = NoKey \/ e.algo # c.algo THEN c
    ELSE IF isSelf THEN [c EXCEPT !.selfPublic = e.publicKey] ELSE [c EXCEPT !.peerPublic = e.publicKey]

-----------------------------------------------------------------------------
(* The calls.  SetX(p, c, paired) is a call on the ECDH context of p that  *)
(* leaves it as c.  The last result is kept until the next call, and the    *)
(* signature that travels until a call on an ECDH context.                 *)

SetX(p, c, paired) ==
    /\ x[p].live
    /\ x' = [x EXCEPT ![p] = c]
    /\ xPaired' = [xPaired EXCEPT ![p] = IF c = x[p] THEN @ ELSE paired]
    /\ current' = [current EXCEPT ![p] = @ /\ c = x[p]]
    /\ verified' = NotVerified /\ signature' = NoSignature
    /\ UNCHANGED <<ed, edPaired>>

SetEd(p, c, paired) ==
    /\ ed[p].live
    /\ ed' = [ed EXCEPT ![p] = c]
    /\ edPaired' = [edPaired EXCEPT ![p] = IF c = ed[p] THEN @ ELSE paired]
    /\ verified' = NotVerified
    /\ UNCHANGED <<x, xPaired, current, signature>>

\* A party makes its two contexts, and later destroys them, together.
Contexts(p) ==
    /\ \/ /\ \E algo \in XAlgos : bctbx_CreateECDHContext(p, algo)
          /\ \E algo \in EdAlgos : bctbx_CreateEDDSAContext(p, algo)
       \/ bctbx_DestroyECDHContext(p) /\ bctbx_DestroyEDDSAContext(p)
    /\ xPaired' = [xPaired EXCEPT ![p] = FALSE] /\ edPaired' = [edPaired EXCEPT ![p] = FALSE]
    /\ current' = [current EXCEPT ![p] = FALSE]
    /\ verified' = NotVerified /\ signature' = NoSignature
    /\ UNCHANGED made

NewKey(p) ==
    /\ made < Numbers /\ made' = made + 1
    /\ \/ SetX(p, ECDHCreateKeyPair(x[p], made'), TRUE)
       \/ \E c \in Curves : SetX(p, ECDHSetSecretKey(x[p], Key(c, made')), FALSE)
       \/ SetEd(p, EDDSACreateKeyPair(ed[p], made'), TRUE)
       \/ \E c \in Curves : SetEd(p, EDDSA_setSecretKey(ed[p], Key(c, made')), FALSE)

Other(p) == IF p = "alice" THEN "bob" ELSE "alice"

\* A public key of the other party is put in a context, possibly as its own.
ReceiveKey(p) ==
    /\ \/ /\ x[Other(p)].selfPublic # NoKey
          /\ \/ SetX(p, ECDHSetPeerPublicKey(x[p], x[Other(p)].selfPublic), xPaired[p])
             \/ SetX(p, ECDHSetSelfPublicKey(x[p], x[Other(p)].selfPublic), FALSE)
       \/ /\ ed[Other(p)].publicKey # NoKey
          /\ SetEd(p, EDDSA_setPublicKey(ed[p], ed[Other(p)].publicKey), FALSE)
    /\ UNCHANGED made

Derive(p) ==
    /\ \/ x[p].secret # NoKey /\ SetX(p, ECDHDerivePublicKey(x[p]), TRUE)
       \/ ed[p].secretKey # NoKey /\ SetEd(p, EDDSADerivePublicKey(ed[p]), TRUE)
    /\ UNCHANGED made

Convert(p) ==
    /\ ed[p].live
    /\ \/ SetX(p, EDDSA_ECDH_privateKeyConversion(ed[p], x[p]), FALSE)
       \/ SetX(p, EDDSA_ECDH_publicKeyConversion(ed[p], x[p], TRUE),
               edPaired[p] /\ x[p].secret = ed[p].secretKey)
       \/ SetX(p, EDDSA_ECDH_publicKeyConversion(ed[p], x[p], FALSE), xPaired[p])
    /\ UNCHANGED made

Compute(p) ==
    /\ x[p].live
    /\ \E ok \in BOOLEAN :
          /\ x' = [x EXCEPT ![p] = ECDHComputeSecret(@, ok)]
          /\ current' = [current EXCEPT ![p] = x[p].secret # NoKey /\ x[p].peerPublic # NoKey /\ ok]
    /\ verified' = NotVerified /\ signature' = NoSignature
    /\ UNCHANGED <<ed, made, edPaired, xPaired>>

\* A caller signs only with a secret key, and verifies only with a public one.
Sign(p) ==
    /\ ed[p].live /\ ed[p].secretKey # NoKey
    /\ \E message \in 1..2, room \in {63, 113, 114} :
          signature' = EDDSA_sign(ed[p], message, room)
    /\ verified' = NotVerified
    /\ UNCHANGED <<ed, x, made, edPaired, xPaired, current>>

Verify(p) ==
    /\ ed[p].live /\ ed[p].publicKey # NoKey
    /\ verified' = [ret |-> IF EDDSA_verify(ed[p], 1, signature) THEN "SUCCESS" ELSE "FAILED",
                    public |-> ed[p].publicKey, message |-> 1, signature |-> signature]
    /\ UNCHANGED <<ed, x, made, edPaired, xPaired, current, signature>>

Next == \E p \in Party : \/ Contexts(p) \/ NewKey(p) \/ ReceiveKey(p) \/ Derive(p) \/ Convert(p)
                         \/ Compute(p) \/ Sign(p) \/ Verify(p)
=============================================================================
