----------------------------- MODULE SslMbedtls -----------------------------
(***************************************************************************)
(* TLS contexts and their configuration over mbedtls (mbedtls.c).          *)
(* A bctbx_ssl_config_t owns a library configuration, or borrows the       *)
(* caller's; the library configuration points into the wrapper (cipher     *)
(* suites, SRTP profiles); a context                                       *)
(* points to the library configuration it was set up on.  "dangling"       *)
(* stands for a pointer whose target was freed.                            *)
(*                                                                         *)
(* The caller keeps two rules that the code cannot check: what a context   *)
(* was set up on stays alive and in place as long as the context, and SRTP *)
(* profiles are set before a context is set up.                            *)
(* Arguments are valid (the code answers the others with an error and      *)
(* changes nothing), and the peer and the network do as they like.         *)
(***************************************************************************)
EXTENDS Naturals, Sequences

CONSTANTS Contexts,      \* bctbx_ssl_context_t objects
          AuthModes,     \* among "none", "optional", "required"
          ProfileLists,  \* lists of SRTP profiles a caller may ask for
          MaxConfigs,    \* bound: configurations made in a behaviour
          MaxSessions    \* bound: completed handshakes of a behaviour

VARIABLES
    cfg,        \* the wrapper bctbx_ssl_config_t
    lib,        \* mbedtls_ssl_config objects: the wrapper's own, the caller's
    ctx,        \* bctbx_ssl_context_t objects
    made,       \* configurations made so far
    sessions,   \* handshakes completed so far
    ret         \* last I/O call: its kind, what the callback gave, what it gave

vars == <<cfg, lib, ctx, made, sessions, ret>>

Endpoints == {"client", "server"}

Transports == {"stream", "datagram"}

\* BCTBX_ERROR_NET_*, and "done" for a positive count or success.
CallbackCodes == {"done", "WANT_READ", "WANT_WRITE", "CONN_RESET"}

NoObject == [live |-> FALSE, ready |-> FALSE, endpoint |-> "client", transport |-> "stream",
             authmode |-> "none", suites |-> "preset", profiles |-> "none"]

\* mbedtls_ssl_config_init() and the two settings the wrapper adds.
NewObject == [NoObject EXCEPT !.live = TRUE]

NoConfig == [live |-> FALSE, object |-> "none", external |-> FALSE, suites |-> FALSE,
             profiles |-> <<>>, asked |-> <<>>]

NoContext == [live |-> FALSE, conf |-> "none", io |-> FALSE, phase |-> "none",
              keycb |-> FALSE, keys |-> 0, session |-> 0, profile |-> "undefined"]

NoCall == [op |-> "none", cb |-> "done", res |-> "done"]

Init == /\ cfg = NoConfig
        /\ lib = [own |-> NoObject, ext |-> NewObject]
        /\ ctx = [c \in Contexts |-> NoContext]
        /\ made = 0
        /\ sessions = 0
        /\ ret = NoCall

\* The library configuration the wrapper works on.
Object == lib[cfg.object]

\* What the caller last asked of the present configuration (history).
Asked(e, t) == <<e, t>>

\* The caller's rule for what frees, replaces or re-profiles a configuration.
ConfigUnused == \A c \in Contexts : ctx[c].conf # cfg.object

-----------------------------------------------------------------------------
(* Configuration *)

bctbx_ssl_config_new ==
    /\ ~cfg.live
    /\ made < MaxConfigs
    /\ made' = made + 1
    /\ cfg' = [NoConfig EXCEPT !.live = TRUE, !.object = "own"]
    /\ lib' = [lib EXCEPT !.own = NewObject]
    /\ UNCHANGED <<ctx, sessions>>
    /\ ret' = NoCall

\* The arrays the wrapper keeps for the library configuration are gone.
WithoutArrays(o) ==
    [o EXCEPT !.suites = IF @ = "array" THEN "dangling" ELSE @,
              !.profiles = IF @ = "array" THEN "dangling" ELSE @]

\* The library configuration is replaced by one of the caller: it is never freed here.
bctbx_ssl_config_set_crypto_library_config ==
    /\ cfg.live
    /\ ConfigUnused
    /\ cfg' = [cfg EXCEPT !.object = "ext", !.external = TRUE, !.asked = <<>>]
    /\ lib' = IF cfg.external THEN lib ELSE [lib EXCEPT !.own = NoObject]
    /\ UNCHANGED <<ctx, sessions, made>>
    /\ ret' = NoCall

bctbx_ssl_config_free ==
    /\ cfg.live
    /\ ConfigUnused
    /\ cfg' = NoConfig
    /\ lib' = IF cfg.external THEN [lib EXCEPT !.ext = WithoutArrays(@)]
                              ELSE [lib EXCEPT !.own = NoObject]
    /\ UNCHANGED <<ctx, sessions, made>>
    /\ ret' = NoCall

\* A setter works on the library configuration through the wrapper.
Configure(object, asked) ==
    /\ cfg.live
    /\ lib' = [lib EXCEPT ![cfg.object] = object]
    /\ cfg' = [cfg EXCEPT !.asked = asked]
    /\ UNCHANGED <<ctx, sessions, made>>
    /\ ret' = NoCall

\* mbedtls_ssl_config_defaults() also sets the library's own cipher suites,
\* and asks a client to verify its server.
bctbx_ssl_config_defaults(e, t) ==
    Configure([Object EXCEPT !.ready = TRUE, !.endpoint = e, !.transport = t, !.suites = "preset",
                             !.authmode = IF e = "client" THEN "required" ELSE @],
              Asked(e, t))

bctbx_ssl_config_set_endpoint(e) ==
    Configure([Object EXCEPT !.endpoint = e],
              IF cfg.asked = <<>> THEN <<>> ELSE Asked(e, cfg.asked[2]))

bctbx_ssl_config_set_transport(t) ==
    Configure([Object EXCEPT !.transport = t],
              IF cfg.asked = <<>> THEN <<>> ELSE Asked(cfg.asked[1], t))

bctbx_ssl_config_set_authmode(mode) == Configure([Object EXCEPT !.authmode = mode], cfg.asked)

\* The array of the wrapper is freed, allocated anew and handed to the library.
\* It has one byte per suite: the ids, not modelled, are written past its end.
bctbx_ssl_config_set_ciphersuites ==
    /\ cfg.live
    /\ cfg' = [cfg EXCEPT !.suites = TRUE]
    /\ lib' = [lib EXCEPT ![cfg.object].suites = "array"]
    /\ UNCHANGED <<ctx, sessions, made>>
    /\ ret' = NoCall

\* Unknown profiles become MBEDTLS_TLS_SRTP_UNSET, which ends the list.
bctbx_srtp_profile_bctoolbox2mbedtls(p) == IF p = "undefined" THEN "unset" ELSE p

bctbx_srtp_profile_mbedtls2bctoolbox(p) == IF p = "unset" THEN "undefined" ELSE p

MaxProfiles == 4

StoredProfiles(list) ==
    [i \in 1..MaxProfiles + 1 |->
        IF i <= Len(list) /\ i <= MaxProfiles
        THEN bctbx_srtp_profile_bctoolbox2mbedtls(list[i]) ELSE "unset"]

\* What the library makes of the array: the profiles before the first UNSET.
Offered(stored) == {stored[i] : i \in {j \in DOMAIN stored : \A k \in 1..j : stored[k] # "unset"}}

bctbx_ssl_config_set_dtls_srtp_protection_profiles(list) ==
    /\ cfg.live
    /\ ConfigUnused
    /\ cfg' = [cfg EXCEPT !.profiles = StoredProfiles(list)]
    /\ lib' = [lib EXCEPT ![cfg.object].profiles = "array"]
    /\ UNCHANGED <<ctx, sessions, made>>
    /\ ret' = NoCall

-----------------------------------------------------------------------------
(* Contexts *)

bctbx_ssl_context_new(c) ==
    /\ ~ctx[c].live
    /\ ctx' = [ctx EXCEPT ![c] = [NoContext EXCEPT !.live = TRUE]]
    /\ UNCHANGED <<cfg, lib, sessions, made>>
    /\ ret' = NoCall

bctbx_ssl_context_free(c) ==
    /\ ctx[c].live
    /\ ctx' = [ctx EXCEPT ![c] = NoContext]
    /\ UNCHANGED <<cfg, lib, sessions, made>>
    /\ ret' = NoCall

\* The first entry decides whether key material will be exported.
HasProfiles == cfg.profiles # <<>> /\ cfg.profiles[1] # "unset"

\* mbedtls_ssl_setup() refuses a configuration without defaults.
bctbx_ssl_context_setup(c) ==
    /\ ctx[c].live /\ ctx[c].phase = "none" /\ cfg.live
    /\ "dangling" \notin {Object.suites, Object.profiles}
    /\ ctx' = [ctx EXCEPT ![c].conf = IF Object.ready THEN cfg.object ELSE @,
                          ![c].phase = IF Object.ready THEN "hello" ELSE @,
                          ![c].keycb = IF Object.ready THEN HasProfiles ELSE @]
    /\ UNCHANGED <<cfg, lib, sessions, made>>
    /\ ret' = NoCall

bctbx_ssl_set_io_callbacks(c) ==
    /\ ctx[c].live
    /\ ctx' = [ctx EXCEPT ![c].io = TRUE]
    /\ UNCHANGED <<cfg, lib, sessions, made>>
    /\ ret' = NoCall

\* The export callback, the session and the certificate of the peer: the
\* library forgets the last two, the wrapper keeps the exported keys.
bctbx_ssl_session_reset(c) ==
    /\ ctx[c].phase # "none"
    /\ ctx' = [ctx EXCEPT ![c].phase = "hello", ![c].session = 0, ![c].profile = "undefined"]
    /\ UNCHANGED <<cfg, lib, sessions, made>>
    /\ ret' = NoCall

\* Mutant: a code is left as the callback gave it.
remap_reads_only(code) == IF code = "WANT_READ" THEN "MBEDTLS_WANT_READ" ELSE "MBEDTLS_CONN_RESET"

\* What a callback's code becomes inside the library.
bctbx_ssl_sendrecv_callback_return_remap(code) ==
    CASE code = "WANT_READ"  -> "MBEDTLS_WANT_READ"
      [] code = "WANT_WRITE" -> "MBEDTLS_WANT_WRITE"
      [] code = "CONN_RESET" -> "MBEDTLS_CONN_RESET"
      [] OTHER               -> code

\* What the library's code becomes for the caller, when the function remaps it.
Remapped(code, known) ==
    CASE code = "MBEDTLS_WANT_READ" /\ "WANT_READ" \in known   -> "WANT_READ"
      [] code = "MBEDTLS_WANT_WRITE" /\ "WANT_WRITE" \in known -> "WANT_WRITE"
      [] code = "MBEDTLS_CLOSE_NOTIFY" /\ "CLOSE_NOTIFY" \in known -> "CLOSE_NOTIFY"
      [] OTHER -> code

Call(op, code, res) == ret' = [op |-> op, cb |-> code, res |-> res]

\* Mutant: the keys are exported once.
key_derivation_once(x) == [x EXCEPT !.keys = IF x.keycb /\ @ = 0 THEN sessions + 1 ELSE @]

\* The secret of a TLS 1.2 handshake is copied into the context, if it asked
\* for it when it was set up; a session's secret is named by its number.
bctbx_ssl_dtls_srtp_key_derivation(x) == [x EXCEPT !.keys = IF x.keycb THEN sessions + 1 ELSE @]

\* A call of bctbx_ssl_handshake(): it stops in a callback, which it must
\* have, derives the keys, or ends with the agreed profile.
HandshakeStops(c, code) ==
    /\ ctx[c].phase \in {"hello", "keyed"}
    /\ code # "done"
    /\ Call("handshake", code,
            IF ctx[c].io
            THEN Remapped(bctbx_ssl_sendrecv_callback_return_remap(code), {"WANT_READ", "WANT_WRITE"})
            ELSE "MBEDTLS_BAD_INPUT")
    /\ UNCHANGED <<cfg, lib, ctx, sessions, made>>

HandshakeKeys(c) ==
    /\ ctx[c].phase = "hello" /\ ctx[c].io
    /\ sessions < MaxSessions
    /\ \E p \in IF lib[ctx[c].conf].transport = "datagram" /\ lib[ctx[c].conf].profiles = "array"
                THEN Offered(cfg.profiles) \cup {"unset"} ELSE {"unset"} :
          ctx' = [ctx EXCEPT ![c] = [bctbx_ssl_dtls_srtp_key_derivation(@) EXCEPT
                                         !.phase = "keyed", !.session = sessions + 1,
                                         !.profile = bctbx_srtp_profile_mbedtls2bctoolbox(p)]]
    /\ sessions' = sessions + 1
    /\ Call("handshake", "WANT_READ", "WANT_READ")
    /\ UNCHANGED <<cfg, lib, made>>

HandshakeOver(c) ==
    /\ ctx[c].phase \in {"keyed", "over"} /\ ctx[c].io
    /\ ctx' = [ctx EXCEPT ![c].phase = "over"]
    /\ Call("handshake", "done", "done")
    /\ UNCHANGED <<cfg, lib, sessions, made>>

\* Reads go on while session tickets come in, so these are not seen here.
bctbx_ssl_read(c, code) ==
    /\ ctx[c].phase = "over"
    /\ \E res \in {bctbx_ssl_sendrecv_callback_return_remap(code)}
                  \cup (IF code = "done" THEN {"MBEDTLS_CLOSE_NOTIFY"} ELSE {}) :
          Call("read", code, Remapped(res, {"WANT_READ", "CLOSE_NOTIFY"}))
    /\ UNCHANGED <<cfg, lib, ctx, sessions, made>>

bctbx_ssl_write(c, code) ==
    /\ ctx[c].phase = "over"
    /\ Call("write", code, Remapped(bctbx_ssl_sendrecv_callback_return_remap(code), {"WANT_WRITE"}))
    /\ UNCHANGED <<cfg, lib, ctx, sessions, made>>

\* The keys exported last, whatever the state of the session: 0 stands for
\* the zeroes of a context that exported none, answered with success too.
bctbx_ssl_get_dtls_srtp_key_material(c) == ctx[c].keys

bctbx_ssl_get_dtls_srtp_protection_profile(c) == ctx[c].profile

Next ==
    \/ bctbx_ssl_config_new \/ bctbx_ssl_config_free
    \/ bctbx_ssl_config_set_crypto_library_config
    \/ \E e \in Endpoints, t \in Transports : bctbx_ssl_config_defaults(e, t)
    \/ \E e \in Endpoints : bctbx_ssl_config_set_endpoint(e)
    \/ \E t \in Transports : bctbx_ssl_config_set_transport(t)
    \/ \E mode \in AuthModes : bctbx_ssl_config_set_authmode(mode)
    \/ bctbx_ssl_config_set_ciphersuites
    \/ \E list \in ProfileLists : bctbx_ssl_config_set_dtls_srtp_protection_profiles(list)
    \/ \E c \in Contexts :
          \/ bctbx_ssl_context_new(c) \/ bctbx_ssl_context_free(c) \/ bctbx_ssl_context_setup(c)
          \/ bctbx_ssl_set_io_callbacks(c) \/ bctbx_ssl_session_reset(c)
          \/ HandshakeKeys(c) \/ HandshakeOver(c)
          \/ \E code \in CallbackCodes :
                HandshakeStops(c, code) \/ bctbx_ssl_read(c, code) \/ bctbx_ssl_write(c, code)
=============================================================================
