----------------------------- MODULE SslOpenssl -----------------------------
(***************************************************************************)
(* The same functions over OpenSSL (openssl.c).  The configuration is an   *)
(* SSL_CTX, counted: the wrapper and every SSL made from it hold one       *)
(* reference.  The data of the client certificate callback hangs on the    *)
(* SSL_CTX, is handed to every context set up on it, and is freed by each  *)
(* of them: nothing counts its users.                                      *)
(*                                                                         *)
(* The caller keeps the rules the code cannot check: a context is set up   *)
(* once, a session is reset while the configuration is alive, and the      *)
(* certificate of the peer is asked for once it has come.  Verification    *)
(* modes are not modelled.                                                 *)
(***************************************************************************)
EXTENDS Naturals, Sequences

CONSTANTS Contexts,      \* bctbx_ssl_context_t objects
          CallbackData,  \* data a client certificate callback may be given
          ProfileLists,  \* lists of SRTP profiles a caller may ask for
          MaxConfigs,    \* bound: configurations made in a behaviour
          MaxSessions    \* bound: completed handshakes of a behaviour

VARIABLES
    cfg,        \* the wrapper bctbx_ssl_config_t
    lib,        \* SSL_CTX objects: the wrapper's own, the caller's
    ctx,        \* bctbx_ssl_context_t objects and their SSL
    cb,         \* data of client certificate callbacks, and how many set ups were given it
    made,       \* configurations made so far
    sessions,   \* handshakes completed so far
    ret         \* last I/O call: its kind, what the callback gave, what it gave

vars == <<cfg, lib, ctx, cb, made, sessions, ret>>

Endpoints == {"client", "server"}

Transports == {"stream", "datagram"}

CallbackCodes == {"done", "WANT_READ", "WANT_WRITE", "CONN_RESET"}

\* SSL_METHODs: DTLS_method() is neither a client's nor a server's.
Method(e, t) == <<e, t>>

DTLS_method == <<"any", "datagram">>

NoObject == [refs |-> 0, method |-> DTLS_method, profiles |-> {}, cb |-> "none"]

NoConfig == [live |-> FALSE, object |-> "none", external |-> FALSE, method |-> DTLS_method,
             asked |-> <<>>]

NoContext == [live |-> FALSE, conf |-> "none", io |-> FALSE, role |-> "none", phase |-> "none",
              cb |-> "none", peer |-> 0, session |-> 0, profile |-> "undefined"]

\* A third set up that is given the data adds nothing: 2 stands for several.
NoData == [state |-> "unused", given |-> 0]

NoCall == [op |-> "none", cb |-> "done", res |-> "done"]

\* The caller's SSL_CTX is held by the caller.
Init == /\ cfg = NoConfig
        /\ lib = [own |-> NoObject, ext |-> [NoObject EXCEPT !.refs = 1]]
        /\ ctx = [c \in Contexts |-> NoContext]
        /\ cb = [d \in CallbackData |-> NoData]
        /\ made = 0
        /\ sessions = 0
        /\ ret = NoCall

Object == lib[cfg.object]

\* SSL_CTX_free() and SSL_free() give up one reference, the last one the object.
Unref(o) ==
    [lib EXCEPT ![o] = IF lib[o].refs = 1 THEN NoObject
                       ELSE [lib[o] EXCEPT !.refs = lib[o].refs - 1]]

-----------------------------------------------------------------------------
(* Configuration *)

bctbx_ssl_config_new ==
    /\ ~cfg.live
    /\ made < MaxConfigs
    /\ made' = made + 1
    /\ lib.own.refs = 0    \* the contexts of the previous one were freed
    /\ cfg' = [NoConfig EXCEPT !.live = TRUE, !.object = "own"]
    /\ lib' = [lib EXCEPT !.own = [NoObject EXCEPT !.refs = 1]]
    /\ UNCHANGED <<ctx, cb, sessions>>
    /\ ret' = NoCall

\* Caller's rule: before contexts are set up.
bctbx_ssl_config_set_crypto_library_config ==
    /\ cfg.live
    /\ \A c \in Contexts : ctx[c].conf = "none"
    /\ cfg' = [cfg EXCEPT !.object = "ext", !.external = TRUE, !.asked = <<>>]
    /\ lib' = IF cfg.external THEN lib ELSE Unref(cfg.object)
    /\ UNCHANGED <<ctx, cb, sessions, made>>
    /\ ret' = NoCall

\* Mutant: the SSL_CTX of the caller is freed too.
config_free_always ==
    /\ cfg.live
    /\ cfg' = NoConfig
    /\ lib' = Unref(cfg.object)
    /\ UNCHANGED <<ctx, cb, sessions, made>>
    /\ ret' = NoCall

bctbx_ssl_config_free ==
    /\ cfg.live
    /\ cfg' = NoConfig
    /\ lib' = IF cfg.external THEN lib ELSE Unref(cfg.object)
    /\ UNCHANGED <<ctx, cb, sessions, made>>
    /\ ret' = NoCall

\* Wrapper and SSL_CTX get the method; the history of what was asked grows.
bctbx_SSL_CTX_set_ssl_version(e, t, asked) ==
    /\ cfg.live
    /\ cfg' = [cfg EXCEPT !.method = Method(e, t), !.asked = asked]
    /\ lib' = [lib EXCEPT ![cfg.object].method = Method(e, t)]
    /\ UNCHANGED <<ctx, cb, sessions, made>>
    /\ ret' = NoCall

bctbx_ssl_config_defaults(e, t) == bctbx_SSL_CTX_set_ssl_version(e, t, <<e, t>>)

\* Mutant: DTLS clients are forgotten.
TransportOfServer(method) == IF method = Method("server", "datagram") THEN "datagram" ELSE "stream"

\* The other half is told from the method: any but DTLS client and server is
\* taken for a stream, any but a client's for a server.
TransportOf(method) ==
    IF method \in {Method("server", "datagram"), Method("client", "datagram")}
    THEN "datagram" ELSE "stream"

EndpointOf(method) ==
    IF method \in {Method("client", "stream"), Method("client", "datagram")}
    THEN "client" ELSE "server"

bctbx_ssl_config_set_endpoint(e) ==
    bctbx_SSL_CTX_set_ssl_version(e, TransportOf(cfg.method),
        IF cfg.asked = <<>> THEN <<>> ELSE <<e, cfg.asked[2]>>)

bctbx_ssl_config_set_transport(t) ==
    bctbx_SSL_CTX_set_ssl_version(EndpointOf(cfg.method), t,
        IF cfg.asked = <<>> THEN <<>> ELSE <<cfg.asked[1], t>>)

\* Data is allocated; what the SSL_CTX held before is forgotten, not freed.
bctbx_ssl_config_set_callback_cli_cert ==
    /\ cfg.live
    /\ \E d \in DOMAIN cb :
          /\ cb[d].state = "unused"
          /\ cb' = [cb EXCEPT ![d].state = "live"]
          /\ lib' = [lib EXCEPT ![cfg.object].cb = d]
    /\ UNCHANGED <<cfg, ctx, sessions, made>>
    /\ ret' = NoCall

bctbx_srtp_profile_bctoolbox2openssl(p) == IF p = "undefined" THEN "" ELSE p

\* Names joined with colons, the empty ones left out.
join(strings) == {strings[i] : i \in DOMAIN strings} \ {""}

\* SSL_CTX_set_tlsext_use_srtp() refuses an empty list and keeps the old one.
bctbx_ssl_config_set_dtls_srtp_protection_profiles(list) ==
    LET profiles == join([i \in DOMAIN list |-> bctbx_srtp_profile_bctoolbox2openssl(list[i])])
    IN  /\ cfg.live
        /\ profiles # {}
        /\ lib' = [lib EXCEPT ![cfg.object].profiles = profiles]
        /\ UNCHANGED <<cfg, ctx, cb, sessions, made>>
        /\ ret' = NoCall

-----------------------------------------------------------------------------
(* Contexts *)

bctbx_ssl_context_new(c) ==
    /\ ~ctx[c].live
    /\ ctx' = [ctx EXCEPT ![c] = [NoContext EXCEPT !.live = TRUE]]
    /\ UNCHANGED <<cfg, lib, cb, sessions, made>>
    /\ ret' = NoCall

\* What free() makes of data: whoever has it keeps a pointer to it.
Freed(data) == [data EXCEPT !.state = IF data.state = "live" THEN "freed" ELSE "freed twice"]

\* The context frees the callback data found on its SSL, then the SSL.
bctbx_ssl_context_free(c) ==
    /\ ctx[c].live
    /\ ctx' = [ctx EXCEPT ![c] = NoContext]
    /\ cb' = IF ctx[c].cb = "none" THEN cb ELSE [cb EXCEPT ![ctx[c].cb] = Freed(@)]
    /\ lib' = IF ctx[c].conf = "none" THEN lib ELSE Unref(ctx[c].conf)
    /\ UNCHANGED <<cfg, sessions, made>>
    /\ ret' = NoCall

\* The SSL takes a reference on the SSL_CTX, its callback data, and its role
\* from the method the wrapper remembers.  Caller's rule: once.
bctbx_ssl_context_setup(c) ==
    /\ ctx[c].live /\ ctx[c].conf = "none" /\ cfg.live
    /\ ctx' = [ctx EXCEPT ![c].conf = cfg.object, ![c].phase = "hello", ![c].cb = Object.cb,
                          ![c].role = IF cfg.method[1] = "server" THEN "server" ELSE "client"]
    /\ lib' = [lib EXCEPT ![cfg.object].refs = @ + 1]
    /\ cb' = IF Object.cb = "none" THEN cb
             ELSE [cb EXCEPT ![Object.cb].given = IF @ = 0 THEN 1 ELSE 2]
    /\ UNCHANGED <<cfg, sessions, made>>
    /\ ret' = NoCall

bctbx_ssl_set_io_callbacks(c) ==
    /\ ctx[c].conf # "none"
    /\ ctx' = [ctx EXCEPT ![c].io = TRUE]
    /\ UNCHANGED <<cfg, lib, cb, sessions, made>>
    /\ ret' = NoCall

\* A new SSL of the same SSL_CTX: no BIO, no role, no callback data; the
\* certificate of the peer stays cached.  The reference is given up before
\* it is taken again (caller's rule: somebody else holds one).
bctbx_ssl_session_reset(c) ==
    /\ ctx[c].conf # "none"
    /\ lib[ctx[c].conf].refs > 1
    /\ ctx' = [ctx EXCEPT ![c].phase = "hello", ![c].io = FALSE, ![c].role = "none", ![c].cb = "none",
                          ![c].session = 0, ![c].profile = "undefined"]
    /\ UNCHANGED <<cfg, lib, cb, sessions, made>>
    /\ ret' = NoCall

Call(op, code, res) == ret' = [op |-> op, cb |-> code, res |-> res]

\* The retry flags a callback's code leaves on the BIO, and what
\* SSL_get_error() makes of them for the handshake.
bctbx_ssl_recv_callback(code) ==
    IF code \in {"WANT_READ", "WANT_WRITE"} THEN code ELSE "no_retry"

HandshakeError(retry) == IF retry = "no_retry" THEN "CONN_RESET" ELSE retry

\* Without a role or a BIO the handshake fails; otherwise it stops in a callback.
HandshakeStops(c, code) ==
    /\ ctx[c].phase \in {"hello", "keyed"}
    /\ code # "done"
    /\ Call("handshake", code,
            IF ctx[c].io /\ ctx[c].role # "none"
            THEN HandshakeError(bctbx_ssl_recv_callback(code)) ELSE "CONN_RESET")
    /\ UNCHANGED <<cfg, lib, ctx, cb, sessions, made>>

\* The caller's callback runs when the server asks for a certificate: it is
\* given the subjects of the peer's, which this caches.
client_cert_callback(x) == IF x.cb # "none" /\ x.role = "client" /\ x.peer = 0 THEN sessions + 1 ELSE x.peer

HandshakeKeys(c) ==
    /\ ctx[c].phase = "hello" /\ ctx[c].io /\ ctx[c].role # "none"
    /\ sessions < MaxSessions
    /\ \E p \in lib[ctx[c].conf].profiles \cup {"undefined"}, asks \in BOOLEAN :
          ctx' = [ctx EXCEPT ![c].phase = "keyed", ![c].session = sessions + 1,
                             ![c].peer = IF asks THEN client_cert_callback(ctx[c]) ELSE @,
                             ![c].profile = IF lib[ctx[c].conf].method[2] = "datagram"
                                            THEN p ELSE "undefined"]
    /\ sessions' = sessions + 1
    /\ Call("handshake", "WANT_READ", "WANT_READ")
    /\ UNCHANGED <<cfg, lib, cb, made>>

HandshakeOver(c) ==
    /\ ctx[c].phase \in {"keyed", "over"}
    /\ ctx' = [ctx EXCEPT ![c].phase = "over"]
    /\ Call("handshake", "done", "done")
    /\ UNCHANGED <<cfg, lib, cb, sessions, made>>

\* Read and write give the caller what the callback gave: SSL_get_error() is
\* called for the log only.
bctbx_ssl_read(c, code) ==
    /\ ctx[c].phase = "over"
    /\ Call("read", code, code)
    /\ UNCHANGED <<cfg, lib, ctx, cb, sessions, made>>

bctbx_ssl_write(c, code) ==
    /\ ctx[c].phase = "over"
    /\ Call("write", code, code)
    /\ UNCHANGED <<cfg, lib, ctx, cb, sessions, made>>

\* The certificate of the peer is fetched once and kept with the context.
bctbx_ssl_get_peer_certificate(c) ==
    /\ ctx[c].phase \in {"keyed", "over"}
    /\ ctx' = [ctx EXCEPT ![c].peer = IF @ = 0 THEN ctx[c].session ELSE @]
    /\ UNCHANGED <<cfg, lib, cb, sessions, made>>
    /\ ret' = NoCall

\* SSL_export_keying_material() serves an established session only.
bctbx_ssl_get_dtls_srtp_key_material(c) == IF ctx[c].phase = "over" THEN ctx[c].session ELSE 0

bctbx_ssl_get_dtls_srtp_protection_profile(c) == ctx[c].profile

Next ==
    \/ bctbx_ssl_config_new \/ bctbx_ssl_config_free
    \/ bctbx_ssl_config_set_crypto_library_config
    \/ \E e \in Endpoints, t \in Transports : bctbx_ssl_config_defaults(e, t)
    \/ \E e \in Endpoints : bctbx_ssl_config_set_endpoint(e)
    \/ \E t \in Transports : bctbx_ssl_config_set_transport(t)
    \/ bctbx_ssl_config_set_callback_cli_cert
    \/ \E list \in ProfileLists : bctbx_ssl_config_set_dtls_srtp_protection_profiles(list)
    \/ \E c \in Contexts :
          \/ bctbx_ssl_context_new(c) \/ bctbx_ssl_context_free(c) \/ bctbx_ssl_context_setup(c)
          \/ bctbx_ssl_set_io_callbacks(c) \/ bctbx_ssl_session_reset(c)
          \/ HandshakeKeys(c) \/ HandshakeOver(c) \/ bctbx_ssl_get_peer_certificate(c)
          \/ \E code \in CallbackCodes :
                HandshakeStops(c, code) \/ bctbx_ssl_read(c, code) \/ bctbx_ssl_write(c, code)
=============================================================================
