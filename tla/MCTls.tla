-------------------------------- MODULE MCTls --------------------------------
(***************************************************************************)
(* The two TLS backends behind crypto.h, one of which a build contains.    *)
(* Both are driven by the same callers and must show them the same.        *)
(***************************************************************************)
EXTENDS Naturals, Sequences, FiniteSets, TLC

CONSTANTS Contexts,         \* with OpenSSL, whose contexts share callback data
          OneContext,       \* with mbedtls, where contexts share nothing but the configuration
          ProfileLists, AuthModes, MaxConfigs, MaxSessions,                   \* with mbedtls
          OpensslProfileLists, CallbackData, OpensslConfigs, OpensslSessions  \* with OpenSSL

ASSUME TlsAssumption ==
    /\ IsFiniteSet(Contexts) /\ "none" \notin CallbackData
    /\ ProfileLists \subseteq Seq(STRING) /\ OpensslProfileLists \subseteq Seq(STRING)

VARIABLES
    backend,                        \* chosen when the library is built
    cfg, lib, ctx, made, sessions, ret, \* of either backend
    cb                              \* of SslOpenssl

MCProfileLists == {<<"sha1_80", "undefined", "sha1_32">>}
MCOpensslProfileLists == {<<"undefined", "sha1_32">>}

Symmetry == Permutations(Contexts)

M == INSTANCE SslMbedtls WITH Contexts <- OneContext

O == INSTANCE SslOpenssl WITH MaxConfigs <- OpensslConfigs, MaxSessions <- OpensslSessions,
                              ProfileLists <- OpensslProfileLists

vars == <<backend, cfg, lib, ctx, made, sessions, ret, cb>>

Init == \/ backend = "mbedtls" /\ M!Init /\ cb = <<>>
        \/ backend = "openssl" /\ O!Init

Next == \/ backend = "mbedtls" /\ M!Next /\ UNCHANGED <<backend, cb>>
        \/ backend = "openssl" /\ O!Next /\ UNCHANGED backend

Spec == Init /\ [][Next]_vars

\* The contexts whose set up succeeded.
SetUp == {c \in DOMAIN ctx : ctx[c].conf # "none"}

-----------------------------------------------------------------------------

\* What a context that is set up points to is alive, with the arrays it
\* points to in turn; an SSL_CTX has a reference for the wrapper that owns it
\* (or the caller) and one for each context.  Callback data a context has is
\* alive, and no data is freed twice, unless it was given to several set ups
\* on one SSL_CTX: each of these contexts frees it (openssl.c l.772, l.1538),
\* under the others, and nothing in the headers forbids it.
LifetimesKept ==
    IF backend = "mbedtls"
    THEN \A c \in SetUp : LET o == lib[ctx[c].conf]
                          IN  /\ o.live
                              /\ "dangling" \notin {o.suites, o.profiles}
                              /\ o.suites = "array" => cfg.live /\ cfg.suites
    ELSE /\ \A o \in DOMAIN lib :
               lib[o].refs = Cardinality({c \in DOMAIN ctx : ctx[c].conf = o})
                             + (IF o = "ext" \/ (o = cfg.object /\ ~cfg.external) THEN 1 ELSE 0)
         /\ \A c \in SetUp : ctx[c].cb # "none" =>
               cb[ctx[c].cb].state = "live" \/ cb[ctx[c].cb].given > 1
         /\ \A d \in DOMAIN cb : cb[d].state = "freed twice" => cb[d].given > 1

\* After a handshake that agreed on an SRTP profile the key material is that
\* of the session, and so is the certificate kept as the peer's.
SessionData ==
    \A c \in SetUp : ctx[c].phase = "over" =>
        /\ ctx[c].profile # "undefined" =>
              (IF backend = "mbedtls" THEN M!bctbx_ssl_get_dtls_srtp_key_material(c)
                                      ELSE O!bctbx_ssl_get_dtls_srtp_key_material(c)) = ctx[c].session
        /\ backend = "openssl" => ctx[c].peer \in {0, ctx[c].session}

\* Once defaults are set, endpoint and transport are the ones asked for last,
\* however the calls follow each other.
ConfigAsAsked ==
    cfg.live /\ cfg.asked # <<>> =>
        cfg.asked = IF backend = "mbedtls"
                    THEN <<lib[cfg.object].endpoint, lib[cfg.object].transport>>
                    ELSE lib[cfg.object].method

\* A callback that would block is reported as such by the call that ran it:
\* by a read for data to come, a write for room, the handshake for both.
CodesComeBack ==
    \/ ret.op = "read" /\ ret.cb # "WANT_READ"
    \/ ret.op = "write" /\ ret.cb # "WANT_WRITE"
    \/ ret.cb \notin {"WANT_READ", "WANT_WRITE"}
    \/ ret.res \in {ret.cb, "MBEDTLS_BAD_INPUT"}
    \/ ret.op = "handshake" /\ backend = "openssl" /\ ret.res = "CONN_RESET"
=============================================================================
