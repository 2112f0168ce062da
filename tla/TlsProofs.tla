------------------------------ MODULE TlsProofs ------------------------------
(***************************************************************************)
(* Theorems about the two TLS backends, for any number of contexts,        *)
(* configurations and sessions.                                            *)
(***************************************************************************)
EXTENDS MCTls, FiniteSetTheorems, TLAPS

Objects == {"own", "ext"}
Phases == {"none", "hello", "keyed", "over"}
Endpoints == {"client", "server"}
Transports == {"stream", "datagram"}
Asked == {<<>>} \cup (Endpoints \X Transports)

\* The names of SRTP profiles, with those for none.
Names == {"undefined", "unset", ""}
         \cup UNION {{list[i] : i \in DOMAIN list} : list \in ProfileLists \cup OpensslProfileLists}

-----------------------------------------------------------------------------
(* The invariant with mbedtls.                                             *)

MObject ==
    [live : BOOLEAN, ready : BOOLEAN, endpoint : Endpoints, transport : Transports,
     authmode : AuthModes \cup {"none", "required"},
     suites : {"preset", "array", "dangling"}, profiles : {"none", "array", "dangling"}]

MContext ==
    [live : BOOLEAN, conf : Objects \cup {"none"}, io : BOOLEAN, phase : Phases,
     keycb : BOOLEAN, keys : Nat, session : Nat, profile : Names]

MType ==
    /\ cfg \in [live : BOOLEAN, object : Objects \cup {"none"}, external : BOOLEAN,
                suites : BOOLEAN, profiles : {<<>>} \cup [1 .. 5 -> Names], asked : Asked]
    /\ lib \in [Objects -> MObject]
    /\ ctx \in [OneContext -> MContext]
    /\ sessions \in Nat

\* The wrapper works on its own configuration or on the caller's, which is alive, and the
\* library points to cipher suites of the wrapper only.
MConfig ==
    /\ IF cfg.live THEN cfg.object = IF cfg.external THEN "ext" ELSE "own" ELSE cfg = M!NoConfig
    /\ lib["ext"].live
    /\ cfg.live => lib[cfg.object].live
    /\ \A o \in Objects : lib[o].suites = "array" => cfg.live /\ cfg.object = o /\ cfg.suites
    /\ cfg.live /\ cfg.asked # <<>> =>
          cfg.asked = <<lib[cfg.object].endpoint, lib[cfg.object].transport>>

\* A context that is set up is on the configuration of the wrapper, which has not changed
\* its mind about key material since.
MContexts ==
    \A c \in OneContext :
        /\ ctx[c].phase = "none" <=> ctx[c].conf = "none"
        /\ ctx[c].conf = "none" => ctx[c].profile = "undefined"
        /\ ctx[c].conf # "none" =>
              /\ cfg.live /\ ctx[c].conf = cfg.object
              /\ M!HasProfiles => ctx[c].keycb
              /\ lib[cfg.object].suites # "dangling" /\ lib[cfg.object].profiles # "dangling"
        /\ ctx[c].profile # "undefined" => ctx[c].keys = ctx[c].session

MInv == MType /\ MConfig /\ MContexts /\ CodesComeBack

-----------------------------------------------------------------------------
(* The invariant with OpenSSL.                                             *)

Methods == (Endpoints \X Transports) \cup {O!DTLS_method}
Data == CallbackData \cup {"none"}

Callback == [state : {"unused", "live", "freed", "freed twice"}, given : {0, 1, 2}]

OObject == [refs : Nat, method : Methods, profiles : SUBSET Names, cb : Data]

OContext ==
    [live : BOOLEAN, conf : Objects \cup {"none"}, io : BOOLEAN,
     role : {"none", "client", "server"}, phase : Phases, cb : Data,
     peer : Nat, session : Nat, profile : Names]

OType ==
    /\ cfg \in [live : BOOLEAN, object : Objects \cup {"none"}, external : BOOLEAN,
                method : Methods, asked : Asked]
    /\ lib \in [Objects -> OObject]
    /\ ctx \in [Contexts -> OContext]
    /\ cb \in [CallbackData -> Callback]
    /\ sessions \in Nat

\* The contexts that hold a reference on an SSL_CTX, and who else holds one.
Users(o) == {c \in Contexts : ctx[c].conf = o}
Owner(o) == IF o = "ext" \/ (o = cfg.object /\ ~cfg.external) THEN 1 ELSE 0

ORefs == \A o \in Objects : lib[o].refs = Cardinality(Users(o)) + Owner(o)

OConfig ==
    /\ IF cfg.live THEN cfg.object = IF cfg.external THEN "ext" ELSE "own" ELSE cfg = O!NoConfig
    /\ cfg.asked # <<>> => cfg.asked = cfg.method /\ cfg.method = lib[cfg.object].method

\* A certificate is cached for the only session a context completes: after a
\* reset it has no role, and its handshakes fail.
OContexts ==
    \A c \in Contexts :
        /\ ~ctx[c].live => ctx[c].conf = "none"
        /\ ctx[c].conf = "none" => ctx[c].cb = "none" /\ ctx[c].phase = "none" /\ ctx[c].peer = 0
        /\ ctx[c].phase = "hello" /\ ctx[c].role # "none" => ctx[c].peer = 0
        /\ ctx[c].phase \in {"keyed", "over"} => ctx[c].peer \in {0, ctx[c].session}

\* Callback data a context has was given to it; when it was given to no other
\* it is alive and that context's own.
OOwned(k) ==
    ctx[k].cb # "none" =>
        /\ cb[ctx[k].cb].given # 0
        /\ cb[ctx[k].cb].given = 1 =>
              cb[ctx[k].cb].state = "live" /\ \A j \in Contexts : j # k => ctx[j].cb # ctx[k].cb

\* Data is freed after it was given, twice only when it was given twice, and
\* what hangs on an SSL_CTX was allocated.
OCallbacks ==
    /\ \A d \in CallbackData :
          /\ cb[d].state = "unused" => cb[d].given = 0
          /\ cb[d].given = 0 => cb[d].state \in {"unused", "live"}
          /\ cb[d].given = 1 => cb[d].state # "freed twice"
    /\ \A o \in Objects : lib[o].cb # "none" => cb[lib[o].cb].state # "unused"
    /\ \A k \in Contexts : OOwned(k)

OInv == OType /\ ORefs /\ OConfig /\ OContexts /\ OCallbacks /\ CodesComeBack

IInv == \/ backend = "mbedtls" /\ MInv
        \/ backend = "openssl" /\ OInv

-----------------------------------------------------------------------------
(* With mbedtls.                                                           *)

\* A call without I/O says nothing about codes.
LEMMA NoCode ==
  ASSUME ret' = M!NoCall \/ ret' = O!NoCall
  PROVE  CodesComeBack'
  BY DEF CodesComeBack, M!NoCall, O!NoCall

\* What the wrapper keeps of a list of SRTP profiles is five names.
LEMMA StoredType ==
  ASSUME NEW list \in ProfileLists
  PROVE  M!StoredProfiles(list) \in [1 .. 5 -> Names]
<1>1. list \in Seq(STRING)
  BY TlsAssumption
<1>2. ASSUME NEW i \in 1 .. Len(list) PROVE list[i] \in Names
  <2>1. i \in DOMAIN list
    BY <1>1
  <2>2. list[i] \in {list[j] : j \in DOMAIN list}
    BY <2>1
  <2> QED
    BY <2>2, Zenon DEF Names
<1>3. Len(list) \in Nat
  BY <1>1
<1>4. ASSUME NEW i \in 1 .. 5
      PROVE  (IF i <= Len(list) /\ i <= 4
              THEN M!bctbx_srtp_profile_bctoolbox2mbedtls(list[i]) ELSE "unset") \in Names
  <2>1. CASE i <= Len(list)
    <3>1. list[i] \in Names
      BY <1>2, <1>3, <2>1
    <3>2. M!bctbx_srtp_profile_bctoolbox2mbedtls(list[i]) \in Names
      BY <3>1 DEF Names, M!bctbx_srtp_profile_bctoolbox2mbedtls
    <3> QED
      BY <3>2 DEF Names
  <2> QED
    BY <2>1 DEF Names
<1>5. M!StoredProfiles(list) =
        [i \in 1 .. 5 |-> IF i <= Len(list) /\ i <= 4
                          THEN M!bctbx_srtp_profile_bctoolbox2mbedtls(list[i]) ELSE "unset"]
  BY DEF M!StoredProfiles, M!MaxProfiles
<1> QED
  BY <1>4, <1>5

\* A profile is offered only if the first one stored is one.
LEMMA OfferedFirst ==
  ASSUME NEW stored \in {<<>>} \cup [1 .. 5 -> Names], NEW p \in M!Offered(stored)
  PROVE  p \in Names /\ stored # <<>> /\ stored[1] # "unset"
<1>1. PICK i \in DOMAIN stored : p = stored[i] /\ \A k \in 1 .. i : stored[k] # "unset"
  BY DEF M!Offered
<1>2. CASE stored = <<>>
  BY <1>1, <1>2
<1>3. CASE stored \in [1 .. 5 -> Names]
  <2>1. i \in 1 .. 5 /\ 1 \in 1 .. i
    BY <1>1, <1>3
  <2>2. DOMAIN stored = 1 .. 5 /\ DOMAIN << >> = {}
    BY <1>3
  <2> QED
    BY <1>1, <1>3, <2>1, <2>2
<1> QED
  BY <1>2, <1>3

\* A call of a setter: the library configuration keeps its life and its profiles.
LEMMA MSetter ==
  ASSUME MInv, NEW ob \in MObject, NEW as \in Asked, M!Configure(ob, as),
         ob.live = M!Object.live, ob.suites = M!Object.suites \/ ob.suites = "preset",
         ob.profiles = M!Object.profiles,
         as # <<>> => as = <<ob.endpoint, ob.transport>>
  PROVE  MInv'
<1>1. /\ cfg.live /\ cfg.object \in Objects
      /\ lib' = [lib EXCEPT ![cfg.object] = ob] /\ cfg' = [cfg EXCEPT !.asked = as]
      /\ ctx' = ctx /\ sessions' = sessions /\ ret' = M!NoCall
  BY DEF M!Configure, MInv, MConfig, Objects
<1>2. MType'
  BY <1>1 DEF MInv, MType
<1>3. /\ lib'[cfg.object] = ob /\ cfg'.object = cfg.object /\ cfg'.live /\ cfg'.asked = as
      /\ cfg'.external = cfg.external /\ cfg'.suites = cfg.suites /\ cfg'.profiles = cfg.profiles
      /\ \A o \in Objects : o # cfg.object => lib'[o] = lib[o]
  BY <1>1 DEF MInv, MType
<1>4. MConfig'
  BY <1>1, <1>3, ZenonT(40) DEF MInv, MConfig, M!Object, Objects
<1>5. MContexts'
  BY <1>1, <1>3 DEF MInv, MContexts, M!Object, M!HasProfiles
<1> QED
  BY <1>1, <1>2, <1>4, <1>5, NoCode DEF MInv

\* Every call on the configuration preserves the invariant.
LEMMA MConfigStep ==
  ASSUME MInv,
         \/ M!bctbx_ssl_config_new \/ M!bctbx_ssl_config_free
         \/ M!bctbx_ssl_config_set_crypto_library_config
         \/ \E e \in M!Endpoints, t \in M!Transports : M!bctbx_ssl_config_defaults(e, t)
         \/ \E e \in M!Endpoints : M!bctbx_ssl_config_set_endpoint(e)
         \/ \E t \in M!Transports : M!bctbx_ssl_config_set_transport(t)
         \/ \E mode \in AuthModes : M!bctbx_ssl_config_set_authmode(mode)
         \/ M!bctbx_ssl_config_set_ciphersuites
         \/ \E list \in ProfileLists : M!bctbx_ssl_config_set_dtls_srtp_protection_profiles(list)
  PROVE  MInv'
<1>0. M!NoObject \in MObject /\ M!NewObject \in MObject
  BY DEF M!NoObject, M!NewObject, MObject, Endpoints, Transports
<1>1. CASE M!bctbx_ssl_config_new
  <2>1. /\ ~cfg.live /\ cfg' = [M!NoConfig EXCEPT !.live = TRUE, !.object = "own"]
        /\ lib' = [lib EXCEPT !["own"] = M!NewObject] /\ ctx' = ctx /\ sessions' = sessions
        /\ ret' = M!NoCall
    BY <1>1 DEF M!bctbx_ssl_config_new
  <2>2. MType'
    BY <1>0, <2>1 DEF MInv, MType, M!NoConfig, Objects, Asked
  <2>3. /\ lib'["own"] = M!NewObject /\ lib'["ext"] = lib["ext"]
        /\ cfg'.live /\ cfg'.object = "own" /\ ~cfg'.external /\ cfg'.asked = <<>>
    BY <2>1 DEF MInv, MType, M!NoConfig, Objects
  <2>4. MConfig'
    BY <2>1, <2>3 DEF MInv, MConfig, M!NewObject, M!NoObject, Objects
  <2>5. MContexts'
    BY <2>1 DEF MInv, MContexts
  <2> QED
    BY <2>1, <2>2, <2>4, <2>5, NoCode DEF MInv
<1>2. CASE M!bctbx_ssl_config_free
  <2>1. /\ cfg.live /\ M!ConfigUnused /\ cfg' = M!NoConfig
        /\ lib' = IF cfg.external THEN [lib EXCEPT !["ext"] = M!WithoutArrays(@)]
                                  ELSE [lib EXCEPT !["own"] = M!NoObject]
        /\ ctx' = ctx /\ sessions' = sessions /\ ret' = M!NoCall
    BY <1>2 DEF M!bctbx_ssl_config_free
  <2>2. M!WithoutArrays(lib["ext"]) \in MObject /\ M!WithoutArrays(lib["ext"]).suites # "array"
        /\ M!WithoutArrays(lib["ext"]).live = lib["ext"].live
    BY DEF MInv, MType, MObject, M!WithoutArrays, Objects
  <2>3. MType'
    BY <1>0, <2>1, <2>2 DEF MInv, MType, M!NoConfig, Objects, Asked
  <2>4. \A o \in Objects : lib'[o].suites # "array"
    BY <2>1, <2>2 DEF MInv, MType, MConfig, M!NoObject, Objects
  <2>5. lib'["ext"].live
    BY <2>1, <2>2 DEF MInv, MType, MConfig, Objects
  <2>6. MConfig'
    BY <2>1, <2>4, <2>5 DEF MConfig, M!NoConfig
  <2>7. MContexts'
    BY <2>1 DEF MInv, MContexts, M!ConfigUnused
  <2> QED
    BY <2>1, <2>3, <2>6, <2>7, NoCode DEF MInv
<1>3. CASE M!bctbx_ssl_config_set_crypto_library_config
  <2>1. /\ cfg.live /\ M!ConfigUnused
        /\ cfg' = [cfg EXCEPT !.object = "ext", !.external = TRUE, !.asked = <<>>]
        /\ lib' = IF cfg.external THEN lib ELSE [lib EXCEPT !["own"] = M!NoObject]
        /\ ctx' = ctx /\ sessions' = sessions /\ ret' = M!NoCall
    BY <1>3 DEF M!bctbx_ssl_config_set_crypto_library_config
  <2>2. MType'
    BY <1>0, <2>1 DEF MInv, MType, Objects, Asked
  <2>3. /\ cfg'.live /\ cfg'.object = "ext" /\ cfg'.external /\ cfg'.asked = <<>>
        /\ cfg'.suites = cfg.suites
    BY <2>1 DEF MInv, MType
  <2>4. MConfig'
    BY <2>1, <2>3 DEF MInv, MType, MConfig, M!NoObject, Objects
  <2>5. MContexts'
    BY <2>1 DEF MInv, MContexts, M!ConfigUnused
  <2> QED
    BY <2>1, <2>2, <2>4, <2>5, NoCode DEF MInv
<1>4. cfg.live => M!Object \in MObject /\ cfg.object \in Objects
  BY DEF MInv, MType, MConfig, M!Object, Objects
<1>5. ASSUME NEW e \in M!Endpoints, NEW t \in M!Transports, M!bctbx_ssl_config_defaults(e, t)
      PROVE  MInv'
  <2> DEFINE ob == [M!Object EXCEPT !.ready = TRUE, !.endpoint = e, !.transport = t,
                        !.suites = "preset", !.authmode = IF e = "client" THEN "required" ELSE @]
  <2>1. M!Configure(ob, <<e, t>>) /\ cfg.live
    BY <1>5 DEF M!bctbx_ssl_config_defaults, M!Asked, M!Configure
  <2>2. ob \in MObject /\ <<e, t>> \in Asked
    BY <1>4, <2>1 DEF MObject, Asked, Endpoints, Transports, M!Endpoints, M!Transports
  <2>3. /\ ob.live = M!Object.live /\ ob.suites = "preset" /\ ob.profiles = M!Object.profiles
        /\ ob.endpoint = e /\ ob.transport = t
    BY <1>4, <2>1 DEF MObject
  <2> HIDE DEF ob
  <2> QED
    BY <2>1, <2>2, <2>3, MSetter
<1>6. ASSUME NEW e \in M!Endpoints, M!bctbx_ssl_config_set_endpoint(e) PROVE MInv'
  <2> DEFINE ob == [M!Object EXCEPT !.endpoint = e]
             as == IF cfg.asked = <<>> THEN <<>> ELSE <<e, cfg.asked[2]>>
  <2>1. M!Configure(ob, as) /\ cfg.live
    BY <1>6 DEF M!bctbx_ssl_config_set_endpoint, M!Asked, M!Configure
  <2>2. /\ ob \in MObject
        /\ ob.live = M!Object.live /\ ob.suites = M!Object.suites
        /\ ob.profiles = M!Object.profiles /\ ob.endpoint = e /\ ob.transport = M!Object.transport
    BY <1>4, <2>1 DEF MObject, Endpoints, M!Endpoints
  <2>3. as \in Asked /\ (as # <<>> => as = <<e, M!Object.transport>>)
    BY <1>4, <2>1
       DEF MInv, MConfig, M!Object, MObject, Asked, Endpoints, Transports, M!Endpoints
  <2> HIDE DEF ob, as
  <2> QED
    BY <2>1, <2>2, <2>3, MSetter
<1>7. ASSUME NEW t \in M!Transports, M!bctbx_ssl_config_set_transport(t) PROVE MInv'
  <2> DEFINE ob == [M!Object EXCEPT !.transport = t]
             as == IF cfg.asked = <<>> THEN <<>> ELSE <<cfg.asked[1], t>>
  <2>1. M!Configure(ob, as) /\ cfg.live
    BY <1>7 DEF M!bctbx_ssl_config_set_transport, M!Asked, M!Configure
  <2>2. /\ ob \in MObject
        /\ ob.live = M!Object.live /\ ob.suites = M!Object.suites
        /\ ob.profiles = M!Object.profiles /\ ob.endpoint = M!Object.endpoint /\ ob.transport = t
    BY <1>4, <2>1 DEF MObject, Transports, M!Transports
  <2>3. as \in Asked /\ (as # <<>> => as = <<M!Object.endpoint, t>>)
    BY <1>4, <2>1
       DEF MInv, MConfig, M!Object, MObject, Asked, Endpoints, Transports, M!Transports
  <2> HIDE DEF ob, as
  <2> QED
    BY <2>1, <2>2, <2>3, MSetter
<1>8. ASSUME NEW mode \in AuthModes, M!bctbx_ssl_config_set_authmode(mode) PROVE MInv'
  <2> DEFINE ob == [M!Object EXCEPT !.authmode = mode]
  <2>1. M!Configure(ob, cfg.asked) /\ cfg.live
    BY <1>8 DEF M!bctbx_ssl_config_set_authmode, M!Configure
  <2>2. /\ ob \in MObject
        /\ ob.live = M!Object.live /\ ob.suites = M!Object.suites
        /\ ob.profiles = M!Object.profiles /\ ob.endpoint = M!Object.endpoint
        /\ ob.transport = M!Object.transport
    BY <1>4, <2>1 DEF MObject
  <2>3. cfg.asked \in Asked
        /\ (cfg.asked # <<>> => cfg.asked = <<M!Object.endpoint, M!Object.transport>>)
    BY <2>1 DEF MInv, MType, MConfig, M!Object
  <2> HIDE DEF ob
  <2> QED
    BY <2>1, <2>2, <2>3, MSetter
<1>9. CASE M!bctbx_ssl_config_set_ciphersuites
  <2>1. /\ cfg.live /\ cfg' = [cfg EXCEPT !.suites = TRUE]
        /\ lib' = [lib EXCEPT ![cfg.object] = [@ EXCEPT !.suites = "array"]]
        /\ ctx' = ctx /\ sessions' = sessions /\ ret' = M!NoCall
    BY <1>9 DEF M!bctbx_ssl_config_set_ciphersuites
  <2>2. MType'
    BY <1>4, <2>1 DEF MInv, MType, MObject, M!Object
  <2>3. /\ cfg'.suites /\ cfg'.live /\ cfg'.object = cfg.object /\ cfg'.external = cfg.external
        /\ cfg'.asked = cfg.asked /\ cfg'.profiles = cfg.profiles
        /\ lib'[cfg.object] = [lib[cfg.object] EXCEPT !.suites = "array"]
        /\ \A o \in Objects : o # cfg.object => lib'[o] = lib[o]
    BY <1>4, <2>1 DEF MInv, MType
  <2>4. /\ lib'[cfg.object].suites = "array" /\ lib'[cfg.object].live = lib[cfg.object].live
        /\ lib'[cfg.object].endpoint = lib[cfg.object].endpoint
        /\ lib'[cfg.object].transport = lib[cfg.object].transport
        /\ lib'[cfg.object].profiles = lib[cfg.object].profiles
    BY <1>4, <2>1, <2>3 DEF MObject, M!Object
  <2>5. MConfig'
    BY <1>4, <2>1, <2>3, <2>4 DEF MInv, MConfig, Objects
  <2>6. MContexts'
    BY <2>1, <2>3, <2>4 DEF MInv, MContexts, M!HasProfiles
  <2> QED
    BY <2>1, <2>2, <2>5, <2>6, NoCode DEF MInv
<1>10. ASSUME NEW list \in ProfileLists,
              M!bctbx_ssl_config_set_dtls_srtp_protection_profiles(list)
       PROVE  MInv'
  <2>1. /\ cfg.live /\ M!ConfigUnused
        /\ cfg' = [cfg EXCEPT !.profiles = M!StoredProfiles(list)]
        /\ lib' = [lib EXCEPT ![cfg.object] = [@ EXCEPT !.profiles = "array"]]
        /\ ctx' = ctx /\ sessions' = sessions /\ ret' = M!NoCall
    BY <1>10 DEF M!bctbx_ssl_config_set_dtls_srtp_protection_profiles
  <2>2. MType'
    BY <1>4, <2>1, StoredType DEF MInv, MType, MObject, M!Object
  <2>3. /\ cfg'.live /\ cfg'.object = cfg.object /\ cfg'.external = cfg.external
        /\ cfg'.asked = cfg.asked /\ cfg'.suites = cfg.suites
        /\ lib'[cfg.object] = [lib[cfg.object] EXCEPT !.profiles = "array"]
        /\ \A o \in Objects : o # cfg.object => lib'[o] = lib[o]
    BY <1>4, <2>1 DEF MInv, MType
  <2>4. /\ lib'[cfg.object].suites = lib[cfg.object].suites
        /\ lib'[cfg.object].live = lib[cfg.object].live
        /\ lib'[cfg.object].endpoint = lib[cfg.object].endpoint
        /\ lib'[cfg.object].transport = lib[cfg.object].transport
    BY <1>4, <2>1, <2>3 DEF MObject, M!Object
  <2>5. MConfig'
    BY <1>4, <2>1, <2>3, <2>4 DEF MInv, MConfig, Objects
  <2>6. MContexts'
    BY <2>1 DEF MInv, MContexts, M!ConfigUnused
  <2> QED
    BY <2>1, <2>2, <2>5, <2>6, NoCode DEF MInv
<1> QED
  BY <1>1, <1>2, <1>3, <1>5, <1>6, <1>7, <1>8, <1>9, <1>10

\* A call on one context, which leaves the configuration alone.
LEMMA MOneContext ==
  ASSUME MInv, NEW c \in OneContext, NEW x \in MContext,
         cfg' = cfg, lib' = lib, ctx' = [ctx EXCEPT ![c] = x], sessions' \in Nat,
         CodesComeBack',
         x.phase = "none" <=> x.conf = "none",
         x.conf = "none" => x.profile = "undefined",
         x.conf # "none" =>
              /\ cfg.live /\ x.conf = cfg.object
              /\ M!HasProfiles => x.keycb
              /\ lib[cfg.object].suites # "dangling" /\ lib[cfg.object].profiles # "dangling",
         x.profile # "undefined" => x.keys = x.session
  PROVE  MInv'
<1>1. MType'
  BY DEF MInv, MType
<1>2. MConfig'
  BY DEF MInv, MConfig
<1>3. ctx'[c] = x /\ \A k \in OneContext : k # c => ctx'[k] = ctx[k]
  BY DEF MInv, MType
<1>4. MContexts'
  <2> SUFFICES ASSUME NEW k \in OneContext
               PROVE  /\ ctx'[k].phase = "none" <=> ctx'[k].conf = "none"
                      /\ ctx'[k].conf = "none" => ctx'[k].profile = "undefined"
                      /\ ctx'[k].conf # "none" =>
                            /\ cfg.live /\ ctx'[k].conf = cfg.object
                            /\ M!HasProfiles => ctx'[k].keycb
                            /\ lib[cfg.object].suites # "dangling"
                            /\ lib[cfg.object].profiles # "dangling"
                      /\ ctx'[k].profile # "undefined" => ctx'[k].keys = ctx'[k].session
    BY DEF MContexts, M!HasProfiles
  <2>1. CASE k = c
    BY <1>3, <2>1
  <2>2. CASE k # c
    BY <1>3, <2>2 DEF MInv, MContexts
  <2> QED
    BY <2>1, <2>2
<1> QED
  BY <1>1, <1>2, <1>4 DEF MInv

\* Every call on a context preserves the invariant.
LEMMA MContextStep ==
  ASSUME MInv, backend = "mbedtls", backend' = backend, NEW c \in OneContext,
         \/ M!bctbx_ssl_context_new(c) \/ M!bctbx_ssl_context_free(c)
         \/ M!bctbx_ssl_context_setup(c)
         \/ M!bctbx_ssl_set_io_callbacks(c) \/ M!bctbx_ssl_session_reset(c)
         \/ M!HandshakeKeys(c) \/ M!HandshakeOver(c)
         \/ \E code \in M!CallbackCodes :
               M!HandshakeStops(c, code) \/ M!bctbx_ssl_read(c, code) \/ M!bctbx_ssl_write(c, code)
  PROVE  MInv'
<1>0. /\ ctx[c] \in MContext /\ sessions \in Nat
      /\ ctx[c].phase = "none" <=> ctx[c].conf = "none"
      /\ ctx[c].conf = "none" => ctx[c].profile = "undefined"
      /\ ctx[c].conf # "none" =>
            /\ cfg.live /\ ctx[c].conf = cfg.object
            /\ M!HasProfiles => ctx[c].keycb
            /\ lib[cfg.object].suites # "dangling" /\ lib[cfg.object].profiles # "dangling"
      /\ ctx[c].profile # "undefined" => ctx[c].keys = ctx[c].session
  BY DEF MInv, MType, MContexts
<1>1. ASSUME NEW x \in MContext, x.phase = "none", x.conf = "none", x.profile = "undefined",
             ctx' = [ctx EXCEPT ![c] = x], cfg' = cfg, lib' = lib, sessions' = sessions,
             ret' = M!NoCall
      PROVE  MInv'
  BY <1>0, <1>1, NoCode, MOneContext
<1>2. CASE M!bctbx_ssl_context_new(c)
  <2> DEFINE x == [M!NoContext EXCEPT !.live = TRUE]
  <2>1. x \in MContext /\ x.phase = "none" /\ x.conf = "none" /\ x.profile = "undefined"
    BY DEF M!NoContext, MContext, Phases, Names
  <2> HIDE DEF x
  <2> QED
    BY <1>1, <1>2, <2>1 DEF M!bctbx_ssl_context_new, x
<1>3. CASE M!bctbx_ssl_context_free(c)
  <2> DEFINE x == M!NoContext
  <2>1. x \in MContext /\ x.phase = "none" /\ x.conf = "none" /\ x.profile = "undefined"
    BY DEF M!NoContext, MContext, Phases, Names
  <2> HIDE DEF x
  <2> QED
    BY <1>1, <1>3, <2>1 DEF M!bctbx_ssl_context_free, x
<1>4. CASE M!bctbx_ssl_context_setup(c)
  <2>1. /\ ctx[c].phase = "none" /\ cfg.live
        /\ M!Object.suites # "dangling" /\ M!Object.profiles # "dangling"
        /\ cfg' = cfg /\ lib' = lib /\ sessions' = sessions /\ ret' = M!NoCall
    BY <1>4 DEF M!bctbx_ssl_context_setup
  <2>2. CASE M!Object.ready
    <3> DEFINE x == [ctx[c] EXCEPT !.conf = cfg.object, !.phase = "hello", !.keycb = M!HasProfiles]
    <3>1. ctx' = [ctx EXCEPT ![c] = x]
      BY <1>4, <2>2 DEF M!bctbx_ssl_context_setup
    <3>2. cfg.object \in Objects
      BY <2>1 DEF MInv, MConfig, Objects
    <3>3. M!HasProfiles \in BOOLEAN
      BY DEF M!HasProfiles
    <3>4. /\ x \in MContext /\ x.conf = cfg.object /\ x.phase = "hello"
          /\ x.profile = ctx[c].profile /\ x.keycb = M!HasProfiles
      BY <1>0, <3>2, <3>3 DEF MContext, Phases
    <3> HIDE DEF x
    <3> QED
      BY <1>0, <2>1, <3>1, <3>2, <3>4, NoCode, MOneContext DEF M!Object, Objects
  <2>3. CASE ~M!Object.ready
    <3>1. ctx' = [ctx EXCEPT ![c] = ctx[c]]
      BY <1>0, <1>4, <2>3 DEF M!bctbx_ssl_context_setup, MInv, MType, MContext
    <3> QED
      BY <1>0, <2>1, <3>1, NoCode, MOneContext
  <2> QED
    BY <2>2, <2>3
<1>5. CASE M!bctbx_ssl_set_io_callbacks(c)
  <2> DEFINE x == [ctx[c] EXCEPT !.io = TRUE]
  <2>1. /\ ctx' = [ctx EXCEPT ![c] = x] /\ cfg' = cfg /\ lib' = lib /\ sessions' = sessions
        /\ ret' = M!NoCall
    BY <1>5 DEF M!bctbx_ssl_set_io_callbacks
  <2>2. /\ x \in MContext /\ x.conf = ctx[c].conf /\ x.phase = ctx[c].phase
        /\ x.profile = ctx[c].profile /\ x.keycb = ctx[c].keycb /\ x.keys = ctx[c].keys
        /\ x.session = ctx[c].session
    BY <1>0 DEF MContext
  <2> HIDE DEF x
  <2> QED
    BY <1>0, <2>1, <2>2, NoCode, MOneContext
<1>6. CASE M!bctbx_ssl_session_reset(c)
  <2> DEFINE x == [ctx[c] EXCEPT !.phase = "hello", !.session = 0, !.profile = "undefined"]
  <2>1. /\ ctx' = [ctx EXCEPT ![c] = x] /\ cfg' = cfg /\ lib' = lib /\ sessions' = sessions
        /\ ret' = M!NoCall /\ ctx[c].phase # "none"
    BY <1>6 DEF M!bctbx_ssl_session_reset
  <2>2. /\ x \in MContext /\ x.conf = ctx[c].conf /\ x.phase = "hello"
        /\ x.profile = "undefined" /\ x.keycb = ctx[c].keycb
    BY <1>0 DEF MContext, Phases, Names
  <2> HIDE DEF x
  <2> QED
    BY <1>0, <2>1, <2>2, NoCode, MOneContext
<1>7. CASE M!HandshakeKeys(c)
  <2>1. /\ ctx[c].phase = "hello" /\ cfg' = cfg /\ lib' = lib /\ sessions' = sessions + 1
        /\ ret' = [op |-> "handshake", cb |-> "WANT_READ", res |-> "WANT_READ"]
    BY <1>7 DEF M!HandshakeKeys, M!Call
  <2>2. PICK p \in IF lib[ctx[c].conf].transport = "datagram" /\ lib[ctx[c].conf].profiles = "array"
                   THEN M!Offered(cfg.profiles) \cup {"unset"} ELSE {"unset"} :
          ctx' = [ctx EXCEPT ![c] = [M!bctbx_ssl_dtls_srtp_key_derivation(@) EXCEPT
                                         !.phase = "keyed", !.session = sessions + 1,
                                         !.profile = M!bctbx_srtp_profile_mbedtls2bctoolbox(p)]]
    BY <1>7 DEF M!HandshakeKeys
  <2> DEFINE prof == M!bctbx_srtp_profile_mbedtls2bctoolbox(p)
             y == M!bctbx_ssl_dtls_srtp_key_derivation(ctx[c])
             x == [y EXCEPT !.phase = "keyed", !.session = sessions + 1, !.profile = prof]
  <2>3. ctx' = [ctx EXCEPT ![c] = x]
    BY <2>2
  <2>4. cfg.profiles \in {<<>>} \cup [1 .. 5 -> Names]
    BY DEF MInv, MType
  <2>5. prof \in Names /\ (prof # "undefined" => M!HasProfiles)
    <3>1. CASE p = "unset"
      BY <3>1 DEF M!bctbx_srtp_profile_mbedtls2bctoolbox, Names
    <3>2. CASE p \in M!Offered(cfg.profiles)
      <4>1. p \in Names /\ cfg.profiles # <<>> /\ cfg.profiles[1] # "unset"
        BY <2>4, <3>2, OfferedFirst
      <4>2. M!HasProfiles
        BY <4>1 DEF M!HasProfiles
      <4> QED
        BY <4>1, <4>2 DEF M!bctbx_srtp_profile_mbedtls2bctoolbox, Names
    <3> QED
      BY <2>2, <3>1, <3>2
  <2> HIDE DEF prof
  <2>6. /\ x \in MContext /\ x.conf = ctx[c].conf /\ x.phase = "keyed" /\ x.profile = prof
        /\ x.session = sessions + 1 /\ x.keycb = ctx[c].keycb
        /\ ctx[c].keycb => x.keys = sessions + 1
    <3>1. /\ y \in MContext /\ y.conf = ctx[c].conf /\ y.keycb = ctx[c].keycb
          /\ ctx[c].keycb => y.keys = sessions + 1
      BY <1>0 DEF MContext, M!bctbx_ssl_dtls_srtp_key_derivation
    <3> HIDE DEF y
    <3>2. sessions + 1 \in Nat /\ "keyed" \in Phases
      BY <1>0 DEF Phases
    <3>3. x \in MContext
      BY <2>5, <3>1, <3>2 DEF MContext
    <3>4. /\ x.conf = y.conf /\ x.phase = "keyed" /\ x.profile = prof /\ x.keycb = y.keycb
          /\ x.session = sessions + 1 /\ x.keys = y.keys
      BY <3>1 DEF MContext
    <3> HIDE DEF x
    <3> QED
      BY <3>1, <3>3, <3>4
  <2> HIDE DEF x
  <2>7. CodesComeBack'
    BY <2>1 DEF CodesComeBack
  <2>8. sessions' \in Nat
    BY <1>0, <2>1
  <2> QED
    BY <1>0, <2>1, <2>3, <2>5, <2>6, <2>7, <2>8, MOneContext
<1>8. CASE M!HandshakeOver(c)
  <2> DEFINE x == [ctx[c] EXCEPT !.phase = "over"]
  <2>1. /\ ctx' = [ctx EXCEPT ![c] = x] /\ cfg' = cfg /\ lib' = lib /\ sessions' = sessions
        /\ ctx[c].phase # "none"
        /\ ret' = [op |-> "handshake", cb |-> "done", res |-> "done"]
    BY <1>8 DEF M!HandshakeOver, M!Call
  <2>2. /\ x \in MContext /\ x.conf = ctx[c].conf /\ x.phase = "over"
        /\ x.profile = ctx[c].profile /\ x.keycb = ctx[c].keycb /\ x.keys = ctx[c].keys
        /\ x.session = ctx[c].session
    BY <1>0 DEF MContext, Phases
  <2> HIDE DEF x
  <2>3. CodesComeBack'
    BY <2>1 DEF CodesComeBack
  <2> QED
    BY <1>0, <2>1, <2>2, <2>3, MOneContext
<1>9. ASSUME cfg' = cfg, lib' = lib, ctx' = ctx, sessions' = sessions, CodesComeBack'
      PROVE  MInv'
  BY <1>9 DEF MInv, MType, MConfig, MContexts, M!HasProfiles
<1>10. ASSUME NEW code \in M!CallbackCodes,
              M!HandshakeStops(c, code) \/ M!bctbx_ssl_read(c, code) \/ M!bctbx_ssl_write(c, code)
       PROVE  MInv'
  <2>1. CASE M!HandshakeStops(c, code)
    <3>1. ret'.cb = code /\ ret'.res \in {"MBEDTLS_BAD_INPUT",
            M!Remapped(M!bctbx_ssl_sendrecv_callback_return_remap(code), {"WANT_READ", "WANT_WRITE"})}
      BY <2>1 DEF M!HandshakeStops, M!Call
    <3>2. CodesComeBack'
      BY <3>1 DEF CodesComeBack, M!Remapped, M!bctbx_ssl_sendrecv_callback_return_remap
    <3> QED
      BY <1>9, <2>1, <3>2 DEF M!HandshakeStops
  <2>2. CASE M!bctbx_ssl_read(c, code)
    <3>1. PICK res \in {M!bctbx_ssl_sendrecv_callback_return_remap(code)}
                  \cup (IF code = "done" THEN {"MBEDTLS_CLOSE_NOTIFY"} ELSE {}) :
            ret' = [op |-> "read", cb |-> code, res |-> M!Remapped(res, {"WANT_READ", "CLOSE_NOTIFY"})]
      BY <2>2 DEF M!bctbx_ssl_read, M!Call
    <3>2. CodesComeBack'
      BY <3>1 DEF CodesComeBack, M!Remapped, M!bctbx_ssl_sendrecv_callback_return_remap
    <3> QED
      BY <1>9, <2>2, <3>2 DEF M!bctbx_ssl_read
  <2>3. CASE M!bctbx_ssl_write(c, code)
    <3>1. ret' = [op |-> "write", cb |-> code,
             res |-> M!Remapped(M!bctbx_ssl_sendrecv_callback_return_remap(code), {"WANT_WRITE"})]
      BY <2>3 DEF M!bctbx_ssl_write, M!Call
    <3>2. CodesComeBack'
      BY <3>1 DEF CodesComeBack, M!Remapped, M!bctbx_ssl_sendrecv_callback_return_remap
    <3> QED
      BY <1>9, <2>3, <3>2 DEF M!bctbx_ssl_write
  <2> QED
    BY <1>10, <2>1, <2>2, <2>3
<1> QED
  BY <1>2, <1>3, <1>4, <1>5, <1>6, <1>7, <1>8, <1>10

-----------------------------------------------------------------------------
(* With OpenSSL.                                                           *)

\* The contexts on an SSL_CTX can be counted.
LEMMA UsersCount ==
  ASSUME NEW o
  PROVE  IsFiniteSet(Users(o)) /\ Cardinality(Users(o)) \in Nat
<1>1. Users(o) \subseteq Contexts
  BY DEF Users
<1> QED
  BY <1>1, TlsAssumption, FS_Subset, FS_CardinalityType

\* Giving up a reference: the SSL_CTX lives on with its method unless it was the last one.
LEMMA UnrefFacts ==
  ASSUME OType, NEW o \in Objects, lib[o].refs \in Nat \ {0}, lib' = O!Unref(o)
  PROVE  /\ lib' \in [Objects -> OObject]
         /\ lib'[o].refs = lib[o].refs - 1
         /\ lib[o].refs > 1 => lib'[o].method = lib[o].method
         /\ lib'[o].cb \in {lib[o].cb, "none"}
         /\ \A q \in Objects : q # o => lib'[q] = lib[q]
<1> DEFINE l == lib[o]
           y == IF l.refs = 1 THEN O!NoObject ELSE [l EXCEPT !.refs = l.refs - 1]
<1>1. lib' = [lib EXCEPT ![o] = y]
  BY DEF O!Unref
<1>2. l \in OObject
  BY DEF OType
<1>3. /\ O!NoObject \in OObject /\ O!NoObject.refs = 0 /\ O!NoObject.cb = "none"
  BY DEF O!NoObject, OObject, Methods, Data
<1>4. y \in OObject /\ y.refs = l.refs - 1 /\ (l.refs > 1 => y.method = l.method) /\ y.cb \in {l.cb, "none"}
  <2>1. CASE l.refs = 1
    BY <1>3, <2>1
  <2>2. CASE l.refs # 1
    <3>1. y = [l EXCEPT !.refs = l.refs - 1] /\ l.refs - 1 \in Nat
      BY <2>2
    <3> QED
      BY <1>2, <3>1 DEF OObject
  <2> QED
    BY <2>1, <2>2
<1> HIDE DEF y
<1> QED
  BY <1>1, <1>4 DEF OType

\* What the invariant says of one context.
OFine(x) ==
    /\ ~x.live => x.conf = "none"
    /\ x.conf = "none" => x.cb = "none" /\ x.phase = "none" /\ x.peer = 0
    /\ x.phase = "hello" /\ x.role # "none" => x.peer = 0
    /\ x.phase \in {"keyed", "over"} => x.peer \in {0, x.session}

LEMMA OContextsParts == OContexts <=> \A c \in Contexts : OFine(ctx[c])
  BY DEF OContexts, OFine

\* Data that nobody is given and nobody frees.
LEMMA OCallbacksKept ==
  ASSUME OCallbacks, cb' = cb, \A o \in Objects : lib'[o].cb \in {lib[o].cb, "none"},
         \A k \in Contexts : ctx'[k].cb \in {ctx[k].cb, "none"}
  PROVE  OCallbacks'
<1>1. (\A k \in Contexts : OOwned(k))'
  <2> SUFFICES ASSUME NEW k \in Contexts, ctx'[k].cb # "none"
               PROVE  /\ cb[ctx'[k].cb].given # 0
                      /\ cb[ctx'[k].cb].given = 1 =>
                            cb[ctx'[k].cb].state = "live" /\ \A j \in Contexts : j # k => ctx'[j].cb # ctx'[k].cb
    BY DEF OOwned
  <2>1. ctx'[k].cb = ctx[k].cb /\ OOwned(k)
    BY DEF OCallbacks
  <2> QED
    BY <2>1 DEF OOwned
<1>2. (\A o \in Objects : lib[o].cb # "none" => cb[lib[o].cb].state # "unused")'
  BY DEF OCallbacks
<1> QED
  BY <1>1, <1>2 DEF OCallbacks

\* A call on one context that leaves the configuration alone and frees no data.
LEMMA OOneContext ==
  ASSUME OInv, NEW c \in Contexts, NEW x \in OContext, OFine(x), x.conf = ctx[c].conf,
         x.cb \in {ctx[c].cb, "none"},
         cfg' = cfg, lib' = lib, cb' = cb, ctx' = [ctx EXCEPT ![c] = x], sessions' \in Nat,
         CodesComeBack'
  PROVE  OInv'
<1>1. OType'
  BY DEF OInv, OType
<1>2. OConfig'
  BY DEF OInv, OConfig
<1>3. ctx'[c] = x /\ \A k \in Contexts : k # c => ctx'[k] = ctx[k]
  BY DEF OInv, OType
<1>4. \A o \in Objects : Users(o)' = Users(o) /\ Owner(o)' = Owner(o)
  BY <1>3 DEF Users, Owner
<1>5. ORefs'
  BY <1>4 DEF OInv, ORefs
<1>6. OContexts'
  <2>1. \A k \in Contexts : OFine(ctx[k])
    BY OContextsParts DEF OInv
  <2>2. ASSUME NEW k \in Contexts PROVE OFine(ctx'[k])
    BY <1>3, <2>1
  <2> QED
    BY <2>2 DEF OContexts, OFine
<1>7. OCallbacks'
  <2>1. \A k \in Contexts : ctx'[k].cb \in {ctx[k].cb, "none"}
    BY <1>3
  <2> QED
    BY <2>1, OCallbacksKept DEF OInv
<1> QED
  BY <1>1, <1>2, <1>5, <1>6, <1>7 DEF OInv

\* A call on the configuration that keeps the contexts.
LEMMA OOnConfig ==
  ASSUME OInv, OType', OConfig', ORefs', OCallbacks', ctx' = ctx, ret' = O!NoCall
  PROVE  OInv'
<1>1. OContexts'
  BY DEF OInv, OContexts
<1> QED
  BY <1>1, NoCode DEF OInv

\* Every call on the configuration preserves the invariant.
LEMMA OConfigStep ==
  ASSUME OInv,
         \/ O!bctbx_ssl_config_new \/ O!bctbx_ssl_config_free
         \/ O!bctbx_ssl_config_set_crypto_library_config
         \/ \E e \in O!Endpoints, t \in O!Transports : O!bctbx_ssl_config_defaults(e, t)
         \/ \E e \in O!Endpoints : O!bctbx_ssl_config_set_endpoint(e)
         \/ \E t \in O!Transports : O!bctbx_ssl_config_set_transport(t)
         \/ O!bctbx_ssl_config_set_callback_cli_cert
         \/ \E list \in OpensslProfileLists :
               O!bctbx_ssl_config_set_dtls_srtp_protection_profiles(list)
  PROVE  OInv'
<1>0. /\ cfg.live => cfg.object \in Objects /\ Owner(cfg.object) = 1 /\ lib[cfg.object] \in OObject
      /\ ~cfg.live => cfg = O!NoConfig
      /\ \A o : Cardinality(Users(o)) \in Nat
      /\ \A o \in Objects : lib[o].refs = Cardinality(Users(o)) + Owner(o) /\ Owner(o) \in Nat
  <2>1. \A o \in Objects : Owner(o) \in Nat
    BY DEF Owner
  <2>2. cfg.live => cfg.object \in Objects
    BY DEF OInv, OConfig, Objects
  <2>3. cfg.live => Owner(cfg.object) = 1
    BY DEF OInv, OConfig, Owner
  <2>4. cfg.live => lib[cfg.object] \in OObject
    BY <2>2 DEF OInv, OType
  <2>5. ~cfg.live => cfg = O!NoConfig
    BY DEF OInv, OConfig
  <2> QED
    BY <2>1, <2>2, <2>3, <2>4, <2>5, UsersCount DEF OInv, ORefs
<1>1. CASE O!bctbx_ssl_config_new
  <2> DEFINE fresh == [O!NoObject EXCEPT !.refs = 1]
  <2>1. /\ ~cfg.live /\ lib["own"].refs = 0
        /\ cfg' = [O!NoConfig EXCEPT !.live = TRUE, !.object = "own"]
        /\ lib' = [lib EXCEPT !["own"] = fresh]
        /\ ctx' = ctx /\ cb' = cb /\ sessions' = sessions /\ ret' = O!NoCall
    BY <1>1 DEF O!bctbx_ssl_config_new
  <2>2. fresh \in OObject /\ fresh.refs = 1 /\ fresh.cb = "none"
    BY DEF O!NoObject, OObject, Methods, Data
  <2> HIDE DEF fresh
  <2>3. /\ cfg'.live /\ cfg'.object = "own" /\ ~cfg'.external /\ cfg'.asked = <<>>
        /\ lib'["own"] = fresh /\ lib'["ext"] = lib["ext"]
    BY <2>1 DEF O!NoConfig, OInv, OType, Objects
  <2>4. OType'
    BY <2>1, <2>2 DEF OInv, OType, O!NoConfig, Objects, Methods, Asked
  <2>5. OConfig'
    BY <2>3 DEF OConfig
  <2>6. \A o \in Objects : Users(o)' = Users(o)
    BY <2>1 DEF Users
  <2>7. Owner("own") = 0 /\ Owner("own")' = 1 /\ Owner("ext") = 1 /\ Owner("ext")' = 1
    BY <1>0, <2>1, <2>3 DEF Owner, O!NoConfig
  <2>8. Cardinality(Users("own")) = 0
    BY <1>0, <2>1, <2>7 DEF Objects
  <2>9. ORefs'
    <3>1. lib'["own"].refs = Cardinality(Users("own")) + 1
      BY <2>2, <2>3, <2>8
    <3>2. lib'["ext"].refs = Cardinality(Users("ext")) + 1
      BY <1>0, <2>3, <2>7 DEF Objects
    <3> QED
      BY <2>6, <2>7, <3>1, <3>2 DEF ORefs, Objects
  <2>10. OCallbacks'
    <3>1. \A o \in Objects : lib'[o].cb \in {lib[o].cb, "none"}
      BY <2>2, <2>3 DEF Objects
    <3> QED
      BY <2>1, <3>1, OCallbacksKept DEF OInv
  <2> QED
    BY <2>1, <2>4, <2>5, <2>9, <2>10, OOnConfig
<1>2. ASSUME cfg.live, NEW g, cfg' = g, g.external => g.object = "ext",
             ~g.external => g.object = "none", OType', g.asked = <<>>,
             g.live => g.object = "ext" /\ g.external, ~g.live => g = O!NoConfig,
             lib' = IF cfg.external THEN lib ELSE O!Unref(cfg.object),
             ctx' = ctx, cb' = cb, sessions' = sessions, ret' = O!NoCall
      PROVE  OInv'
  <2>1. OConfig'
    BY <1>2 DEF OConfig
  <2>2. \A o \in Objects : Users(o)' = Users(o)
    BY <1>2 DEF Users
  <2>3. Owner("own")' = 0 /\ Owner("ext")' = 1 /\ Owner("ext") = 1
    BY <1>2 DEF Owner
  <2>4. CASE cfg.external
    <3>1. cfg.object = "ext" /\ Owner("own") = 0
      BY <1>2, <2>4 DEF OInv, OConfig, Owner
    <3>2. ORefs'
      BY <1>0, <1>2, <2>2, <2>3, <2>4, <3>1 DEF ORefs, Objects
    <3>3. OCallbacks'
      BY <1>2, <2>4, OCallbacksKept DEF OInv
    <3> QED
      BY <1>2, <2>1, <3>2, <3>3, OOnConfig
  <2>5. CASE ~cfg.external
    <3>1. cfg.object = "own" /\ Owner("own") = 1
      BY <1>2, <2>5 DEF OInv, OConfig, Owner
    <3>2. lib["own"].refs \in Nat \ {0} /\ "own" \in Objects
      BY <1>0, <3>1 DEF Objects
    <3>3. /\ lib'["own"].refs = lib["own"].refs - 1 /\ lib'["ext"] = lib["ext"]
          /\ lib'["own"].cb \in {lib["own"].cb, "none"}
      BY <1>2, <2>5, <3>1, <3>2, UnrefFacts DEF Objects, OInv
    <3>4. ORefs'
      BY <1>0, <2>2, <2>3, <3>1, <3>3 DEF ORefs, Objects
    <3>5. OCallbacks'
      <4>1. \A o \in Objects : lib'[o].cb \in {lib[o].cb, "none"}
        BY <3>3 DEF Objects
      <4> QED
        BY <1>2, <4>1, OCallbacksKept DEF OInv
    <3> QED
      BY <1>2, <2>1, <3>4, <3>5, OOnConfig
  <2> QED
    BY <2>4, <2>5
<1>3. ASSUME cfg.live, lib' = IF cfg.external THEN lib ELSE O!Unref(cfg.object)
      PROVE  lib' \in [Objects -> OObject]
  <2>1. CASE cfg.external
    BY <1>3, <2>1 DEF OInv, OType
  <2>2. CASE ~cfg.external
    <3>1. lib[cfg.object].refs \in Nat \ {0}
      BY <1>0, <1>3
    <3> QED
      BY <1>0, <1>3, <2>2, <3>1, UnrefFacts DEF OInv
  <2> QED
    BY <2>1, <2>2
<1>4. CASE O!bctbx_ssl_config_free
  <2>1. /\ cfg.live /\ cfg' = O!NoConfig
        /\ lib' = IF cfg.external THEN lib ELSE O!Unref(cfg.object)
        /\ ctx' = ctx /\ cb' = cb /\ sessions' = sessions /\ ret' = O!NoCall
    BY <1>4 DEF O!bctbx_ssl_config_free
  <2>2. /\ ~O!NoConfig.live /\ ~O!NoConfig.external /\ O!NoConfig.object = "none"
        /\ O!NoConfig.asked = <<>>
    BY DEF O!NoConfig
  <2>3. OType'
    BY <1>3, <2>1 DEF OInv, OType, O!NoConfig, Methods, Asked
  <2> QED
    BY <1>2, <2>1, <2>2, <2>3
<1>5. CASE O!bctbx_ssl_config_set_crypto_library_config
  <2> DEFINE g == [cfg EXCEPT !.object = "ext", !.external = TRUE, !.asked = <<>>]
  <2>1. /\ cfg.live /\ cfg' = g
        /\ lib' = IF cfg.external THEN lib ELSE O!Unref(cfg.object)
        /\ ctx' = ctx /\ cb' = cb /\ sessions' = sessions /\ ret' = O!NoCall
    BY <1>5 DEF O!bctbx_ssl_config_set_crypto_library_config
  <2>2. g.live /\ g.external /\ g.object = "ext" /\ g.asked = <<>>
    BY <2>1 DEF OInv, OType
  <2>3. OType'
    BY <1>3, <2>1 DEF OInv, OType, Asked, Objects
  <2> HIDE DEF g
  <2> QED
    BY <1>2, <2>1, <2>2, <2>3
<1>6. ASSUME NEW e \in Endpoints, NEW t \in Transports, NEW as \in Asked,
             as = <<>> \/ as = <<e, t>>, O!bctbx_SSL_CTX_set_ssl_version(e, t, as)
      PROVE  OInv'
  <2>1. /\ cfg.live /\ cfg' = [cfg EXCEPT !.method = <<e, t>>, !.asked = as]
        /\ lib' = [lib EXCEPT ![cfg.object] = [lib[cfg.object] EXCEPT !.method = <<e, t>>]]
        /\ ctx' = ctx /\ cb' = cb /\ sessions' = sessions /\ ret' = O!NoCall
    BY <1>6 DEF O!bctbx_SSL_CTX_set_ssl_version, O!Method
  <2>2. <<e, t>> \in Methods
    BY DEF Methods
  <2>3. /\ cfg'.live /\ cfg'.object = cfg.object /\ cfg'.external = cfg.external
        /\ cfg'.asked = as /\ cfg'.method = <<e, t>>
    BY <2>1 DEF OInv, OType
  <2>4. /\ [lib[cfg.object] EXCEPT !.method = <<e, t>>] \in OObject
        /\ [lib[cfg.object] EXCEPT !.method = <<e, t>>].refs = lib[cfg.object].refs
        /\ [lib[cfg.object] EXCEPT !.method = <<e, t>>].method = <<e, t>>
        /\ [lib[cfg.object] EXCEPT !.method = <<e, t>>].cb = lib[cfg.object].cb
    BY <1>0, <2>1, <2>2 DEF OObject
  <2>5. /\ lib' \in [Objects -> OObject] /\ lib'[cfg.object].method = <<e, t>>
        /\ \A o \in Objects : lib'[o].refs = lib[o].refs /\ lib'[o].cb = lib[o].cb
    BY <1>0, <2>1, <2>4 DEF OInv, OType
  <2>6. OType'
    BY <2>1, <2>2, <2>5 DEF OInv, OType
  <2>7. OConfig'
    BY <1>6, <2>1, <2>3, <2>5 DEF OInv, OConfig
  <2>8. ORefs'
    BY <2>1, <2>3, <2>5 DEF OInv, ORefs, Users, Owner
  <2>9. OCallbacks'
    BY <2>1, <2>5, OCallbacksKept DEF OInv
  <2> QED
    BY <2>1, <2>6, <2>7, <2>8, <2>9, OOnConfig
<1>7. ASSUME NEW e \in O!Endpoints, NEW t \in O!Transports, O!bctbx_ssl_config_defaults(e, t)
      PROVE  OInv'
  <2>1. e \in Endpoints /\ t \in Transports /\ <<e, t>> \in Asked
    BY DEF O!Endpoints, O!Transports, Endpoints, Transports, Asked
  <2> QED
    BY <1>6, <1>7, <2>1 DEF O!bctbx_ssl_config_defaults
<1>8. cfg.asked # <<>> =>
        /\ cfg.asked \in Endpoints \X Transports /\ cfg.asked = cfg.method
        /\ O!EndpointOf(cfg.method) = cfg.asked[1] /\ O!TransportOf(cfg.method) = cfg.asked[2]
  <2> SUFFICES ASSUME cfg.asked # <<>>
               PROVE  /\ cfg.asked \in Endpoints \X Transports /\ cfg.asked = cfg.method
                      /\ O!EndpointOf(cfg.method) = cfg.asked[1]
                      /\ O!TransportOf(cfg.method) = cfg.asked[2]
    OBVIOUS
  <2>1. cfg.asked \in Endpoints \X Transports /\ cfg.asked = cfg.method
    BY DEF OInv, OType, OConfig, Asked
  <2>2. PICK e \in Endpoints, t \in Transports : cfg.method = <<e, t>>
    BY <2>1
  <2> QED
    BY <2>1, <2>2 DEF O!EndpointOf, O!TransportOf, O!Method, Endpoints, Transports
<1>9. ASSUME NEW e \in O!Endpoints, O!bctbx_ssl_config_set_endpoint(e) PROVE OInv'
  <2> DEFINE t == O!TransportOf(cfg.method)
             as == IF cfg.asked = <<>> THEN <<>> ELSE <<e, cfg.asked[2]>>
  <2>1. e \in Endpoints /\ t \in Transports
    BY DEF O!Endpoints, Endpoints, O!TransportOf, Transports
  <2>2. as = <<>> \/ as = <<e, t>>
    BY <1>8
  <2>3. as \in Asked
    BY <2>1, <2>2 DEF Asked
  <2>4. O!bctbx_SSL_CTX_set_ssl_version(e, t, as)
    BY <1>9 DEF O!bctbx_ssl_config_set_endpoint
  <2> HIDE DEF t, as
  <2> QED
    BY <1>6, <2>1, <2>2, <2>3, <2>4
<1>10. ASSUME NEW t \in O!Transports, O!bctbx_ssl_config_set_transport(t) PROVE OInv'
  <2> DEFINE e == O!EndpointOf(cfg.method)
             as == IF cfg.asked = <<>> THEN <<>> ELSE <<cfg.asked[1], t>>
  <2>1. e \in Endpoints /\ t \in Transports
    BY DEF O!Transports, Transports, O!EndpointOf, Endpoints
  <2>2. as = <<>> \/ as = <<e, t>>
    BY <1>8
  <2>3. as \in Asked
    BY <2>1, <2>2 DEF Asked
  <2>4. O!bctbx_SSL_CTX_set_ssl_version(e, t, as)
    BY <1>10 DEF O!bctbx_ssl_config_set_transport
  <2> HIDE DEF e, as
  <2> QED
    BY <1>6, <2>1, <2>2, <2>3, <2>4
<1>11. ASSUME cfg.live, NEW y \in OObject, lib' = [lib EXCEPT ![cfg.object] = y],
              y.refs = lib[cfg.object].refs, y.method = lib[cfg.object].method,
              cfg' = cfg, ctx' = ctx, sessions' = sessions, ret' = O!NoCall,
              cb' \in [CallbackData -> Callback], OCallbacks'
       PROVE  OInv'
  <2>1. /\ lib' \in [Objects -> OObject] /\ lib'[cfg.object].method = lib[cfg.object].method
        /\ \A o \in Objects : lib'[o].refs = lib[o].refs
    BY <1>0, <1>11 DEF OInv, OType
  <2>2. OType'
    BY <1>11, <2>1 DEF OInv, OType
  <2>3. OConfig'
    BY <1>11, <2>1 DEF OInv, OConfig
  <2>4. ORefs'
    BY <1>11, <2>1 DEF OInv, ORefs, Users, Owner
  <2> QED
    BY <1>11, <2>2, <2>3, <2>4, OOnConfig
<1>12. CASE O!bctbx_ssl_config_set_callback_cli_cert
  <2>1. PICK d \in DOMAIN cb :
          /\ cb[d].state = "unused" /\ cb' = [cb EXCEPT ![d] = [cb[d] EXCEPT !.state = "live"]]
          /\ lib' = [lib EXCEPT ![cfg.object] = [lib[cfg.object] EXCEPT !.cb = d]]
    BY <1>12 DEF O!bctbx_ssl_config_set_callback_cli_cert
  <2>2. cfg.live /\ cfg' = cfg /\ ctx' = ctx /\ sessions' = sessions /\ ret' = O!NoCall
    BY <1>12 DEF O!bctbx_ssl_config_set_callback_cli_cert
  <2>3. d \in CallbackData /\ cb[d] \in Callback /\ cb[d].given = 0
    BY <2>1 DEF OInv, OType, OCallbacks
  <2> DEFINE y == [lib[cfg.object] EXCEPT !.cb = d]
             new == [cb[d] EXCEPT !.state = "live"]
  <2>4. /\ y \in OObject /\ y.refs = lib[cfg.object].refs /\ y.method = lib[cfg.object].method /\ y.cb = d
    BY <1>0, <2>2, <2>3 DEF OObject, Data
  <2>5. new \in Callback /\ new.state = "live" /\ new.given = 0
    BY <2>3 DEF Callback
  <2> HIDE DEF y, new
  <2>6. /\ cb' \in [CallbackData -> Callback] /\ cb'[d] = new
        /\ \A q \in CallbackData : q # d => cb'[q] = cb[q]
    BY <2>1, <2>3, <2>5 DEF OInv, OType, new
  <2>7. lib'[cfg.object] = y /\ \A o \in Objects : o # cfg.object => lib'[o] = lib[o]
    BY <1>0, <2>1, <2>2 DEF OInv, OType, y
  <2>8. OCallbacks'
    <3>1. \A q \in CallbackData :
            /\ cb'[q].state = "unused" => cb'[q].given = 0
            /\ cb'[q].given = 0 => cb'[q].state \in {"unused", "live"}
            /\ cb'[q].given = 1 => cb'[q].state # "freed twice"
      BY <2>5, <2>6 DEF OInv, OCallbacks
    <3>2. ASSUME NEW o \in Objects, lib'[o].cb # "none" PROVE cb'[lib'[o].cb].state # "unused"
      <4>1. CASE o = cfg.object
        BY <2>4, <2>5, <2>6, <2>7, <4>1
      <4>2. CASE o # cfg.object
        <5>1. lib'[o].cb = lib[o].cb /\ lib[o].cb \in CallbackData /\ cb[lib[o].cb].state # "unused"
          BY <2>7, <3>2, <4>2 DEF OInv, OType, OObject, Data, OCallbacks
        <5> QED
          BY <2>1, <2>6, <5>1
      <4> QED
        BY <4>1, <4>2
    <3>3. ASSUME NEW k \in Contexts, ctx[k].cb # "none" PROVE cb'[ctx[k].cb] = cb[ctx[k].cb] /\ OOwned(k)
      <4>1. ctx[k].cb \in CallbackData /\ OOwned(k)
        BY <3>3 DEF OInv, OType, OContext, OCallbacks, Data
      <4>2. ctx[k].cb # d
        BY <2>3, <3>3, <4>1 DEF OOwned
      <4> QED
        BY <2>6, <4>1, <4>2
    <3>4. (\A k \in Contexts : OOwned(k))'
      BY <2>2, <3>3 DEF OOwned
    <3> QED
      BY <3>1, <3>2, <3>4 DEF OCallbacks
  <2> QED
    BY <1>11, <2>1, <2>2, <2>4, <2>6, <2>8 DEF y
<1>13. ASSUME NEW list \in OpensslProfileLists,
              O!bctbx_ssl_config_set_dtls_srtp_protection_profiles(list)
       PROVE  OInv'
  <2> DEFINE ps == O!join([i \in DOMAIN list |-> O!bctbx_srtp_profile_bctoolbox2openssl(list[i])])
             y == [lib[cfg.object] EXCEPT !.profiles = ps]
  <2>1. /\ cfg.live /\ lib' = [lib EXCEPT ![cfg.object] = y]
        /\ cfg' = cfg /\ ctx' = ctx /\ cb' = cb /\ sessions' = sessions /\ ret' = O!NoCall
    BY <1>13 DEF O!bctbx_ssl_config_set_dtls_srtp_protection_profiles
  <2>2. ps \in SUBSET Names
    <3>1. ASSUME NEW i \in DOMAIN list PROVE O!bctbx_srtp_profile_bctoolbox2openssl(list[i]) \in Names
      <4>1. list[i] \in {list[j] : j \in DOMAIN list}
        OBVIOUS
      <4>2. list[i] \in Names
        BY <4>1, Zenon DEF Names
      <4> QED
        BY <4>2 DEF O!bctbx_srtp_profile_bctoolbox2openssl, Names
    <3> QED
      BY <3>1 DEF O!join
  <2> HIDE DEF ps
  <2>3. /\ y \in OObject /\ y.refs = lib[cfg.object].refs /\ y.method = lib[cfg.object].method
        /\ y.cb = lib[cfg.object].cb
    BY <1>0, <2>1, <2>2 DEF OObject
  <2> HIDE DEF y
  <2>4. cb' \in [CallbackData -> Callback]
    BY <2>1 DEF OInv, OType
  <2>5. OCallbacks'
    <3>1. \A o \in Objects : lib'[o].cb = lib[o].cb
      BY <1>0, <2>1, <2>3 DEF OInv, OType
    <3> QED
      BY <2>1, <3>1, OCallbacksKept DEF OInv
  <2> QED
    BY <1>11, <2>1, <2>3, <2>4, <2>5
<1> QED
  BY <1>1, <1>4, <1>5, <1>7, <1>9, <1>10, <1>12, <1>13

\* Every call on a context preserves the invariant.
LEMMA OContextStep ==
  ASSUME OInv, backend = "openssl", backend' = backend, NEW c \in Contexts,
         \/ O!bctbx_ssl_context_new(c) \/ O!bctbx_ssl_context_free(c)
         \/ O!bctbx_ssl_context_setup(c)
         \/ O!bctbx_ssl_set_io_callbacks(c) \/ O!bctbx_ssl_session_reset(c)
         \/ O!HandshakeKeys(c) \/ O!HandshakeOver(c) \/ O!bctbx_ssl_get_peer_certificate(c)
         \/ \E code \in O!CallbackCodes :
               O!HandshakeStops(c, code) \/ O!bctbx_ssl_read(c, code) \/ O!bctbx_ssl_write(c, code)
  PROVE  OInv'
<1>0. /\ ctx[c] \in OContext /\ sessions \in Nat /\ OFine(ctx[c])
      /\ \A k \in Contexts : OFine(ctx[k]) /\ OOwned(k) /\ ctx[k] \in OContext
      /\ \A d \in CallbackData : cb[d] \in Callback
  BY OContextsParts DEF OInv, OType, OCallbacks
<1>1. CASE O!bctbx_ssl_context_new(c)
  <2> DEFINE x == [O!NoContext EXCEPT !.live = TRUE]
  <2>1. /\ ~ctx[c].live /\ cfg' = cfg /\ lib' = lib /\ cb' = cb /\ sessions' = sessions
        /\ ctx' = [ctx EXCEPT ![c] = x] /\ ret' = O!NoCall
    BY <1>1 DEF O!bctbx_ssl_context_new
  <2>2. /\ x \in OContext /\ x.conf = "none" /\ x.cb = "none" /\ x.phase = "none" /\ x.peer = 0
    BY DEF O!NoContext, OContext, Phases, Data, Names
  <2> HIDE DEF x
  <2>3. OFine(x) /\ ctx[c].conf = "none"
    BY <1>0, <2>1, <2>2 DEF OFine
  <2> QED
    BY <1>0, <2>1, <2>2, <2>3, NoCode, OOneContext
<1>2. CASE O!bctbx_ssl_context_free(c)
  <2> DEFINE x == O!NoContext
  <2>1. /\ ctx[c].live /\ ctx' = [ctx EXCEPT ![c] = x]
        /\ cb' = IF ctx[c].cb = "none" THEN cb ELSE [cb EXCEPT ![ctx[c].cb] = O!Freed(cb[ctx[c].cb])]
        /\ lib' = IF ctx[c].conf = "none" THEN lib ELSE O!Unref(ctx[c].conf)
        /\ cfg' = cfg /\ sessions' = sessions /\ ret' = O!NoCall
    BY <1>2 DEF O!bctbx_ssl_context_free
  <2>2. /\ x \in OContext /\ x.conf = "none" /\ x.cb = "none" /\ x.phase = "none" /\ x.peer = 0
    BY DEF O!NoContext, OContext, Phases, Data, Names
  <2> HIDE DEF x
  <2>3. OFine(x)
    BY <2>2 DEF OFine
  <2>4. CASE ctx[c].conf = "none"
    <3>1. ctx[c].cb = "none" /\ cb' = cb /\ lib' = lib
      BY <1>0, <2>1, <2>4 DEF OFine
    <3> QED
      BY <1>0, <2>1, <2>2, <2>3, <2>4, <3>1, NoCode, OOneContext
  <2>5. CASE ctx[c].conf # "none"
    <3>1. PICK o \in Objects : o = ctx[c].conf /\ lib' = O!Unref(o)
      BY <1>0, <2>1, <2>5 DEF OContext
    <3>2. ctx'[c] = x /\ \A k \in Contexts : k # c => ctx'[k] = ctx[k]
      BY <2>1 DEF OInv, OType
    <3>3. /\ c \in Users(o) /\ Users(o)' = Users(o) \ {c}
          /\ \A q \in Objects : q # o => Users(q)' = Users(q)
      BY <2>2, <3>1, <3>2 DEF Users, Objects
    <3>4. /\ Cardinality(Users(o)) \in Nat \ {0}
          /\ Cardinality(Users(o) \ {c}) = Cardinality(Users(o)) - 1
      <4>1. IsFiniteSet(Users(o)) /\ Cardinality(Users(o)) \in Nat
        BY UsersCount
      <4>2. Cardinality(Users(o) \ {c}) = Cardinality(Users(o)) - 1
        BY <3>3, <4>1, FS_RemoveElement
      <4>3. Cardinality(Users(o)) # 0
        BY <3>3, <4>1, FS_EmptySet
      <4> QED
        BY <4>1, <4>2, <4>3
    <3>5. \A q \in Objects : Owner(q)' = Owner(q) /\ Owner(q) \in {0, 1}
      BY <2>1 DEF Owner
    <3>6. \A q \in Objects : lib[q].refs = Cardinality(Users(q)) + Owner(q)
      BY DEF OInv, ORefs
    <3>7. lib[o].refs \in Nat \ {0} /\ (Owner(o) = 1 => lib[o].refs > 1)
      BY <3>1, <3>4, <3>5, <3>6
    <3>8. /\ lib' \in [Objects -> OObject] /\ lib'[o].refs = lib[o].refs - 1
          /\ lib[o].refs > 1 => lib'[o].method = lib[o].method
          /\ lib'[o].cb \in {lib[o].cb, "none"}
          /\ \A q \in Objects : q # o => lib'[q] = lib[q]
      BY <3>1, <3>7, UnrefFacts DEF OInv
    <3>9. ORefs'
      <4>1. lib'[o].refs = Cardinality(Users(o))' + Owner(o)'
        BY <3>1, <3>3, <3>4, <3>5, <3>6, <3>8
      <4>2. ASSUME NEW q \in Objects, q # o PROVE lib'[q].refs = Cardinality(Users(q))' + Owner(q)'
        BY <3>3, <3>5, <3>6, <3>8, <4>2
      <4> QED
        BY <4>1, <4>2 DEF ORefs
    <3>10. OConfig'
      <4>1. ASSUME cfg.asked # <<>> PROVE cfg.method = lib'[cfg.object].method
        <5>1. cfg.live /\ cfg.method = lib[cfg.object].method
          BY <4>1 DEF OInv, OConfig, O!NoConfig
        <5>2. cfg.object \in Objects /\ Owner(cfg.object) = 1
          BY <5>1 DEF OInv, OConfig, Owner, Objects
        <5> QED
          BY <3>7, <3>8, <5>1, <5>2
      <4> QED
        BY <2>1, <4>1 DEF OInv, OConfig
    <3>11. /\ cb' \in [CallbackData -> Callback]
           /\ \A q \in CallbackData : q # ctx[c].cb => cb'[q] = cb[q]
           /\ ctx[c].cb # "none" =>
                 /\ ctx[c].cb \in CallbackData /\ cb'[ctx[c].cb].given = cb[ctx[c].cb].given
                 /\ cb'[ctx[c].cb].state = IF cb[ctx[c].cb].state = "live" THEN "freed" ELSE "freed twice"
      <4>1. CASE ctx[c].cb = "none"
        BY <2>1, <4>1 DEF OInv, OType
      <4>2. CASE ctx[c].cb # "none"
        <5>1. ctx[c].cb \in CallbackData
          BY <1>0, <4>2 DEF OContext, Data
        <5> DEFINE d == ctx[c].cb
                   new == O!Freed(cb[d])
        <5>2. /\ new \in Callback /\ new.given = cb[d].given
              /\ new.state = IF cb[d].state = "live" THEN "freed" ELSE "freed twice"
          BY <1>0, <5>1 DEF Callback, O!Freed
        <5>3. cb' = [cb EXCEPT ![d] = new]
          BY <2>1, <4>2
        <5> HIDE DEF d, new
        <5>4. d \in CallbackData
          BY <5>1 DEF d
        <5>5. cb' \in [CallbackData -> Callback] /\ cb'[d] = new /\ \A q \in CallbackData : q # d => cb'[q] = cb[q]
          BY <5>2, <5>3, <5>4 DEF OInv, OType
        <5> QED
          BY <5>2, <5>4, <5>5 DEF d
      <4> QED
        BY <4>1, <4>2
    <3>12. OType'
      BY <2>1, <2>2, <3>8, <3>11 DEF OInv, OType
    <3>13. OContexts'
      <4>1. ASSUME NEW k \in Contexts PROVE OFine(ctx'[k])
        BY <1>0, <2>3, <3>2
      <4> QED
        BY <4>1 DEF OContexts, OFine
    <3>14. OCallbacks'
      <4>0. OCallbacks /\ OOwned(c)
        BY <1>0 DEF OInv
      <4>1. ASSUME NEW q \in CallbackData
            PROVE  /\ cb'[q].state = "unused" => cb'[q].given = 0 /\ cb[q].state = "unused"
                   /\ cb'[q].given = 0 => cb'[q].state \in {"unused", "live"}
                   /\ cb'[q].given = 1 => cb'[q].state # "freed twice"
        <5>1. CASE q # ctx[c].cb
          BY <3>11, <4>0, <5>1 DEF OCallbacks
        <5>2. CASE q = ctx[c].cb
          <6>1. q # "none"
            BY TlsAssumption
          <6> QED
            BY <3>11, <4>0, <5>2, <6>1 DEF OOwned
        <5> QED
          BY <5>1, <5>2
      <4>2. ASSUME NEW q \in Objects, lib'[q].cb # "none" PROVE cb'[lib'[q].cb].state # "unused"
        <5>1. lib'[q].cb = lib[q].cb /\ lib[q].cb \in CallbackData
          BY <3>8, <4>2 DEF OInv, OType, OObject, Data
        <5> QED
          BY <4>0, <4>1, <4>2, <5>1 DEF OCallbacks
      <4>3. ASSUME NEW k \in Contexts, ctx'[k].cb # "none"
            PROVE  /\ cb'[ctx'[k].cb].given # 0
                   /\ cb'[ctx'[k].cb].given = 1 => /\ cb'[ctx'[k].cb].state = "live"
                                                   /\ \A j \in Contexts : j # k => ctx'[j].cb # ctx'[k].cb
        <5>1. k # c /\ ctx'[k] = ctx[k] /\ OOwned(k)
          BY <1>0, <2>2, <3>2, <4>3
        <5>2. ctx[k].cb \in CallbackData /\ ctx[k].cb # "none"
          BY <1>0, <4>3, <5>1 DEF OContext, Data
        <5>3. CASE ctx[k].cb = ctx[c].cb
          <6>1. cb[ctx[k].cb].given # 0 /\ cb[ctx[k].cb].given # 1
            BY <5>1, <5>2, <5>3 DEF OOwned
          <6> QED
            BY <3>11, <5>1, <5>2, <5>3, <6>1
        <5>4. CASE ctx[k].cb # ctx[c].cb
          <6>1. cb'[ctx[k].cb] = cb[ctx[k].cb]
            BY <3>11, <5>2, <5>4
          <6>2. \A j \in Contexts : ctx'[j].cb \in {ctx[j].cb, "none"}
            BY <2>2, <3>2
          <6> QED
            BY <5>1, <5>2, <6>1, <6>2 DEF OOwned
        <5> QED
          BY <5>3, <5>4
      <4> QED
        BY <4>1, <4>2, <4>3 DEF OCallbacks, OOwned
    <3> QED
      BY <2>1, <3>9, <3>10, <3>12, <3>13, <3>14, NoCode DEF OInv
  <2> QED
    BY <2>4, <2>5
<1>3. CASE O!bctbx_ssl_context_setup(c)
  <2>0. cfg.live
    BY <1>3 DEF O!bctbx_ssl_context_setup
  <2>1. PICK o \in Objects : o = cfg.object
    BY <2>0 DEF OInv, OConfig, Objects
  <2> DEFINE role == IF cfg.method[1] = "server" THEN "server" ELSE "client"
             x == [ctx[c] EXCEPT !.conf = o, !.phase = "hello", !.cb = lib[o].cb, !.role = role]
             y == [lib[o] EXCEPT !.refs = lib[o].refs + 1]
             given == [cb[lib[o].cb] EXCEPT !.given = IF cb[lib[o].cb].given = 0 THEN 1 ELSE 2]
  <2>2. /\ ctx[c].live /\ ctx[c].conf = "none" /\ cfg.live
        /\ cb' = IF lib[o].cb = "none" THEN cb ELSE [cb EXCEPT ![lib[o].cb] = given]
        /\ ctx' = [ctx EXCEPT ![c] = x] /\ lib' = [lib EXCEPT ![o] = y]
        /\ cfg' = cfg /\ sessions' = sessions /\ ret' = O!NoCall
    BY <1>3, <2>1 DEF O!bctbx_ssl_context_setup, O!Object
  <2>3. /\ y \in OObject /\ y.refs = lib[o].refs + 1 /\ y.method = lib[o].method /\ y.cb = lib[o].cb
    <3>1. lib[o] \in OObject
      BY DEF OInv, OType
    <3> QED
      BY <3>1 DEF OObject
  <2>4. lib[o].cb \in Data /\ role \in {"none", "client", "server"} /\ ctx[c].peer = 0
    BY <1>0, <2>2 DEF OInv, OType, OObject, OFine
  <2>12. ASSUME lib[o].cb # "none"
         PROVE  /\ lib[o].cb \in CallbackData /\ cb' = [cb EXCEPT ![lib[o].cb] = given]
                /\ given \in Callback /\ given.state = cb[lib[o].cb].state
                /\ given.given = IF cb[lib[o].cb].given = 0 THEN 1 ELSE 2
    <3>1. lib[o].cb \in CallbackData
      BY <2>4, <2>12 DEF Data
    <3>2. cb[lib[o].cb] \in Callback
      BY <3>1 DEF OInv, OType
    <3>3. /\ given.state = cb[lib[o].cb].state
          /\ given.given = IF cb[lib[o].cb].given = 0 THEN 1 ELSE 2
      BY <3>2 DEF Callback
    <3>4. given \in Callback
      BY <3>2, <3>3, Zenon DEF Callback
    <3>5. cb' = [cb EXCEPT ![lib[o].cb] = given]
      BY <2>2, <2>12
    <3> QED
      BY <3>1, <3>3, <3>4, <3>5
  <2> HIDE DEF y, role, given
  <2>13. /\ cb' \in [CallbackData -> Callback]
         /\ \A q \in CallbackData : q # lib[o].cb => cb'[q] = cb[q]
         /\ lib[o].cb # "none" => cb'[lib[o].cb] = given
    <3>1. CASE lib[o].cb = "none"
      BY <2>2, <3>1 DEF OInv, OType
    <3>2. CASE lib[o].cb # "none"
      BY <2>12, <3>2 DEF OInv, OType
    <3> QED
      BY <3>1, <3>2
  <2>5. /\ x \in OContext /\ x.conf = o /\ x.phase = "hello" /\ x.cb = lib[o].cb /\ x.live
        /\ x.peer = 0
    BY <1>0, <2>2, <2>4 DEF OContext, Phases
  <2> HIDE DEF x
  <2>6. OFine(x)
    BY <2>2, <2>5 DEF OFine, Objects
  <2>7. /\ ctx'[c] = x /\ \A k \in Contexts : k # c => ctx'[k] = ctx[k]
        /\ lib'[o] = y /\ \A q \in Objects : q # o => lib'[q] = lib[q]
    BY <2>2 DEF OInv, OType
  <2>8. OType'
    BY <2>2, <2>3, <2>5, <2>13 DEF OInv, OType
  <2>9. ORefs'
    <3>1. /\ c \notin Users(o) /\ Users(o)' = Users(o) \cup {c}
          /\ \A q \in Objects : q # o => Users(q)' = Users(q)
      BY <2>2, <2>5, <2>7 DEF Users, Objects
    <3>2. /\ Cardinality(Users(o)) \in Nat
          /\ Cardinality(Users(o) \cup {c}) = Cardinality(Users(o)) + 1
      BY <3>1, UsersCount, FS_AddElement
    <3>3. \A q \in Objects : Owner(q)' = Owner(q) /\ Owner(q) \in Nat
      BY <2>2 DEF Owner
    <3>4. \A q \in Objects : lib[q].refs = Cardinality(Users(q)) + Owner(q)
      BY DEF OInv, ORefs
    <3>5. lib'[o].refs = Cardinality(Users(o))' + Owner(o)'
      BY <2>2, <2>3, <2>7, <3>1, <3>2, <3>3, <3>4
    <3>6. ASSUME NEW q \in Objects, q # o PROVE lib'[q].refs = Cardinality(Users(q))' + Owner(q)'
      BY <2>7, <3>1, <3>3, <3>4, <3>6
    <3> QED
      BY <3>5, <3>6 DEF ORefs
  <2>10. OConfig'
    <3>1. lib'[cfg.object].method = lib[cfg.object].method
      BY <2>1, <2>3, <2>7
    <3> QED
      BY <2>2, <3>1 DEF OInv, OConfig
  <2>11. OContexts'
    <3>1. ASSUME NEW k \in Contexts PROVE OFine(ctx'[k])
      BY <1>0, <2>6, <2>7
    <3> QED
      BY <3>1 DEF OContexts, OFine
  <2>14. OCallbacks'
    <3>0. OCallbacks
      BY DEF OInv
    <3>1. lib[o].cb # "none" => cb[lib[o].cb].state # "unused"
      BY <3>0 DEF OCallbacks
    <3>2. ASSUME NEW q \in CallbackData
          PROVE  /\ cb'[q].state = cb[q].state /\ (cb'[q].given = 1 => cb[q].given \in {0, 1})
                 /\ cb'[q].state = "unused" => cb'[q].given = 0
                 /\ cb'[q].given = 0 => cb'[q].state \in {"unused", "live"}
                 /\ cb'[q].given = 1 => cb'[q].state # "freed twice"
      <4>1. CASE q # lib[o].cb
        BY <2>13, <3>0, <4>1 DEF OCallbacks
      <4>2. CASE q = lib[o].cb
        <5>1. lib[o].cb # "none"
          BY <4>2, TlsAssumption
        <5>2. /\ cb'[q] = given /\ given.state = cb[q].state /\ given \in Callback
              /\ given.given = IF cb[q].given = 0 THEN 1 ELSE 2
          BY <2>12, <2>13, <4>2, <5>1
        <5>3. /\ cb[q].state # "unused" /\ cb[q] \in Callback
              /\ cb[q].given = 0 => cb[q].state \in {"unused", "live"}
          BY <3>0, <3>1, <4>2, <5>1 DEF OCallbacks, OInv, OType
        <5>4. cb[q].given \in {0, 1, 2}
          BY <5>3 DEF Callback
        <5>5. given.given # 0 /\ (given.given = 1 => cb[q].given = 0)
          BY <5>2, <5>4
        <5> QED
          BY <5>2, <5>3, <5>5
      <4> QED
        BY <4>1, <4>2
    <3>3. ASSUME NEW q \in Objects, lib'[q].cb # "none" PROVE cb'[lib'[q].cb].state # "unused"
      <4>1. lib'[q].cb = lib[q].cb /\ lib[q].cb \in CallbackData
        BY <2>3, <2>7, <3>3 DEF OInv, OType, OObject, Data
      <4> QED
        BY <3>0, <3>2, <3>3, <4>1 DEF OCallbacks
    <3>4. ASSUME NEW k \in Contexts, ctx'[k].cb # "none"
          PROVE  /\ cb'[ctx'[k].cb].given # 0
                 /\ cb'[ctx'[k].cb].given = 1 => /\ cb'[ctx'[k].cb].state = "live"
                                                 /\ \A j \in Contexts : j # k => ctx'[j].cb # ctx'[k].cb
      <4>1. CASE k = c
        <5>1. ctx'[k].cb = lib[o].cb /\ lib[o].cb \in CallbackData /\ lib[o].cb # "none"
          BY <2>5, <2>7, <2>12, <3>4, <4>1
        <5>2. cb'[lib[o].cb].given # 0
          BY <2>12, <2>13, <5>1
        <5>3. ASSUME cb'[lib[o].cb].given = 1
              PROVE  /\ cb'[lib[o].cb].state = "live" /\ \A j \in Contexts : j # c => ctx[j].cb # lib[o].cb
          <6>1. cb[lib[o].cb].given = 0
            BY <2>12, <2>13, <5>1, <5>3
          <6>2. cb'[lib[o].cb].state = "live"
            BY <3>0, <3>1, <3>2, <5>1, <6>1 DEF OCallbacks
          <6>3. \A j \in Contexts : ctx[j].cb # lib[o].cb
            BY <1>0, <5>1, <6>1 DEF OOwned
          <6> QED
            BY <6>2, <6>3
        <5> QED
          BY <2>7, <4>1, <5>1, <5>2, <5>3
      <4>2. CASE k # c
        <5>1. ctx'[k] = ctx[k] /\ OOwned(k) /\ ctx[k].cb \in CallbackData
          BY <1>0, <2>7, <3>4, <4>2 DEF OContext, Data
        <5>2. CASE ctx[k].cb # lib[o].cb
          <6>1. cb'[ctx[k].cb] = cb[ctx[k].cb] /\ ctx'[c].cb # ctx[k].cb
            BY <2>5, <2>7, <2>13, <5>1, <5>2
          <6> QED
            BY <2>7, <3>4, <5>1, <6>1 DEF OOwned
        <5>3. CASE ctx[k].cb = lib[o].cb
          <6>1. cb[lib[o].cb].given # 0 /\ lib[o].cb # "none"
            BY <3>4, <5>1, <5>3 DEF OOwned
          <6>2. cb'[lib[o].cb].given = 2
            BY <2>12, <2>13, <6>1
          <6> QED
            BY <5>1, <5>3, <6>2
        <5> QED
          BY <5>2, <5>3
      <4> QED
        BY <4>1, <4>2
    <3> QED
      BY <3>2, <3>3, <3>4 DEF OCallbacks, OOwned
  <2> QED
    BY <2>2, <2>8, <2>9, <2>10, <2>11, <2>14, NoCode DEF OInv
<1>4. CASE O!bctbx_ssl_set_io_callbacks(c)
  <2> DEFINE x == [ctx[c] EXCEPT !.io = TRUE]
  <2>1. /\ ctx' = [ctx EXCEPT ![c] = x] /\ cfg' = cfg /\ lib' = lib /\ cb' = cb
        /\ sessions' = sessions /\ ret' = O!NoCall
    BY <1>4 DEF O!bctbx_ssl_set_io_callbacks
  <2>2. /\ x \in OContext /\ x.live = ctx[c].live /\ x.conf = ctx[c].conf /\ x.cb = ctx[c].cb
        /\ x.phase = ctx[c].phase /\ x.role = ctx[c].role /\ x.peer = ctx[c].peer
        /\ x.session = ctx[c].session
    BY <1>0 DEF OContext
  <2> HIDE DEF x
  <2>3. OFine(x)
    BY <1>0, <2>2 DEF OFine
  <2> QED
    BY <1>0, <2>1, <2>2, <2>3, NoCode, OOneContext
<1>5. CASE O!bctbx_ssl_session_reset(c)
  <2> DEFINE x == [ctx[c] EXCEPT !.phase = "hello", !.io = FALSE, !.role = "none", !.cb = "none",
                                 !.session = 0, !.profile = "undefined"]
  <2>1. /\ ctx[c].conf # "none" /\ ctx' = [ctx EXCEPT ![c] = x] /\ cfg' = cfg /\ lib' = lib
        /\ cb' = cb /\ sessions' = sessions /\ ret' = O!NoCall
    BY <1>5 DEF O!bctbx_ssl_session_reset
  <2>2. /\ x \in OContext /\ x.live = ctx[c].live /\ x.conf = ctx[c].conf /\ x.cb = "none"
        /\ x.phase = "hello" /\ x.role = "none"
    BY <1>0 DEF OContext, Phases, Data, Names
  <2> HIDE DEF x
  <2>3. OFine(x)
    BY <1>0, <2>1, <2>2 DEF OFine
  <2> QED
    BY <1>0, <2>1, <2>2, <2>3, NoCode, OOneContext
<1>6. CASE O!HandshakeKeys(c)
  <2>1. /\ ctx[c].phase = "hello" /\ ctx[c].role # "none" /\ cfg' = cfg /\ lib' = lib /\ cb' = cb
        /\ sessions' = sessions + 1
        /\ ret' = [op |-> "handshake", cb |-> "WANT_READ", res |-> "WANT_READ"]
    BY <1>6 DEF O!HandshakeKeys, O!Call
  <2>2. PICK p \in lib[ctx[c].conf].profiles \cup {"undefined"}, asks \in BOOLEAN :
          ctx' = [ctx EXCEPT ![c].phase = "keyed", ![c].session = sessions + 1,
                             ![c].peer = IF asks THEN O!client_cert_callback(ctx[c]) ELSE @,
                             ![c].profile = IF lib[ctx[c].conf].method[2] = "datagram"
                                            THEN p ELSE "undefined"]
    BY <1>6 DEF O!HandshakeKeys
  <2> DEFINE peer == IF asks THEN O!client_cert_callback(ctx[c]) ELSE ctx[c].peer
             prof == IF lib[ctx[c].conf].method[2] = "datagram" THEN p ELSE "undefined"
             x == [ctx[c] EXCEPT !.phase = "keyed", !.session = sessions + 1, !.peer = peer,
                                 !.profile = prof]
  <2>3. ctx' = [ctx EXCEPT ![c] = x]
    BY <1>0, <2>2 DEF OInv, OType
  <2>4. peer \in {0, sessions + 1}
    BY <1>0, <2>1 DEF O!client_cert_callback, OFine
  <2>5. prof \in Names
    <3>1. ctx[c].conf \in Objects
      BY <1>0, <2>1 DEF OFine, OContext
    <3>2. lib[ctx[c].conf].profiles \in SUBSET Names
      BY <3>1 DEF OInv, OType, OObject
    <3> QED
      BY <2>2, <3>2 DEF Names
  <2> HIDE DEF peer, prof
  <2>6. /\ x \in OContext /\ x.live = ctx[c].live /\ x.conf = ctx[c].conf /\ x.cb = ctx[c].cb
        /\ x.phase = "keyed" /\ x.peer = peer /\ x.session = sessions + 1
    <3>1. peer \in Nat /\ sessions + 1 \in Nat /\ "keyed" \in Phases
      BY <1>0, <2>4 DEF Phases
    <3> QED
      BY <1>0, <2>5, <3>1 DEF OContext
  <2> HIDE DEF x
  <2>7. OFine(x)
    BY <1>0, <2>1, <2>4, <2>6 DEF OFine
  <2>8. CodesComeBack'
    BY <2>1 DEF CodesComeBack
  <2>9. sessions' \in Nat
    BY <1>0, <2>1
  <2> QED
    BY <1>0, <2>1, <2>3, <2>6, <2>7, <2>8, <2>9, OOneContext
<1>7. CASE O!HandshakeOver(c)
  <2> DEFINE x == [ctx[c] EXCEPT !.phase = "over"]
  <2>1. /\ ctx[c].phase \in {"keyed", "over"} /\ ctx' = [ctx EXCEPT ![c] = x] /\ cfg' = cfg
        /\ lib' = lib /\ cb' = cb /\ sessions' = sessions
        /\ ret' = [op |-> "handshake", cb |-> "done", res |-> "done"]
    BY <1>7 DEF O!HandshakeOver, O!Call
  <2>2. /\ x \in OContext /\ x.live = ctx[c].live /\ x.conf = ctx[c].conf /\ x.cb = ctx[c].cb
        /\ x.phase = "over" /\ x.peer = ctx[c].peer /\ x.session = ctx[c].session
    BY <1>0 DEF OContext, Phases
  <2> HIDE DEF x
  <2>3. OFine(x)
    BY <1>0, <2>1, <2>2 DEF OFine
  <2>4. CodesComeBack'
    BY <2>1 DEF CodesComeBack
  <2> QED
    BY <1>0, <2>1, <2>2, <2>3, <2>4, OOneContext
<1>8. CASE O!bctbx_ssl_get_peer_certificate(c)
  <2> DEFINE peer == IF ctx[c].peer = 0 THEN ctx[c].session ELSE ctx[c].peer
             x == [ctx[c] EXCEPT !.peer = peer]
  <2>1. /\ ctx[c].phase \in {"keyed", "over"} /\ cfg' = cfg /\ lib' = lib /\ cb' = cb
        /\ sessions' = sessions /\ ret' = O!NoCall
        /\ ctx' = [ctx EXCEPT ![c].peer = IF @ = 0 THEN ctx[c].session ELSE @]
    BY <1>8 DEF O!bctbx_ssl_get_peer_certificate
  <2>2. ctx' = [ctx EXCEPT ![c] = x]
    BY <2>1
  <2>3. peer \in Nat /\ peer \in {0, ctx[c].session}
    BY <1>0, <2>1 DEF OFine, OContext
  <2> HIDE DEF peer
  <2>4. /\ x \in OContext /\ x.live = ctx[c].live /\ x.conf = ctx[c].conf /\ x.cb = ctx[c].cb
        /\ x.phase = ctx[c].phase /\ x.peer = peer /\ x.session = ctx[c].session
    BY <1>0, <2>3 DEF OContext
  <2> HIDE DEF x
  <2>5. OFine(x)
    BY <1>0, <2>1, <2>3, <2>4 DEF OFine
  <2> QED
    BY <1>0, <2>1, <2>2, <2>4, <2>5, NoCode, OOneContext
<1>9. ASSUME cfg' = cfg, lib' = lib, ctx' = ctx, cb' = cb, sessions' = sessions, CodesComeBack'
      PROVE  OInv'
  <2>1. OCallbacks'
    BY <1>9, OCallbacksKept DEF OInv
  <2> QED
    BY <1>9, <2>1 DEF OInv, OType, OConfig, OContexts, ORefs, Users, Owner
<1>10. ASSUME NEW code \in O!CallbackCodes,
              O!HandshakeStops(c, code) \/ O!bctbx_ssl_read(c, code) \/ O!bctbx_ssl_write(c, code)
       PROVE  OInv'
  <2>1. CASE O!HandshakeStops(c, code)
    <3>1. \/ ret' = [op |-> "handshake", cb |-> code, res |-> "CONN_RESET"]
          \/ ret' = [op |-> "handshake", cb |-> code,
                     res |-> O!HandshakeError(O!bctbx_ssl_recv_callback(code))]
      BY <2>1 DEF O!HandshakeStops, O!Call
    <3>2. CodesComeBack'
      BY <3>1 DEF CodesComeBack, O!HandshakeError, O!bctbx_ssl_recv_callback
    <3> QED
      BY <1>9, <2>1, <3>2 DEF O!HandshakeStops
  <2>2. CASE O!bctbx_ssl_read(c, code)
    <3>1. CodesComeBack'
      BY <2>2 DEF CodesComeBack, O!bctbx_ssl_read, O!Call
    <3> QED
      BY <1>9, <2>2, <3>1 DEF O!bctbx_ssl_read
  <2>3. CASE O!bctbx_ssl_write(c, code)
    <3>1. CodesComeBack'
      BY <2>3 DEF CodesComeBack, O!bctbx_ssl_write, O!Call
    <3> QED
      BY <1>9, <2>3, <3>1 DEF O!bctbx_ssl_write
  <2> QED
    BY <1>10, <2>1, <2>2, <2>3
<1> QED
  BY <1>1, <1>2, <1>3, <1>4, <1>5, <1>6, <1>7, <1>8, <1>10

-----------------------------------------------------------------------------
(* Either backend.                                                         *)

LEMMA TlsInit == Init => IInv
<1> SUFFICES ASSUME Init PROVE IInv
  OBVIOUS
<1>1. CASE backend = "mbedtls" /\ M!Init
  <2>1. M!NoObject \in MObject /\ M!NewObject \in MObject /\ M!NoContext \in MContext
    BY DEF M!NoObject, M!NewObject, MObject, M!NoContext, MContext, Endpoints, Transports,
           Phases, Names
  <2>2. /\ cfg = M!NoConfig /\ lib = [own |-> M!NoObject, ext |-> M!NewObject]
        /\ ctx = [c \in OneContext |-> M!NoContext] /\ sessions = 0 /\ ret = M!NoCall
    BY <1>1 DEF M!Init
  <2>3. MType
    BY <2>1, <2>2 DEF MType, M!NoConfig, Objects, Asked
  <2>4. MConfig
    BY <2>2 DEF MConfig, M!NoConfig, M!NoObject, M!NewObject, Objects
  <2>5. MContexts
    BY <2>2 DEF MContexts, M!NoContext
  <2>6. CodesComeBack
    BY <2>2 DEF CodesComeBack, M!NoCall
  <2> QED
    BY <1>1, <2>3, <2>4, <2>5, <2>6 DEF IInv, MInv
<1>2. CASE backend = "openssl" /\ O!Init
  <2> DEFINE held == [O!NoObject EXCEPT !.refs = 1]
  <2>1. /\ O!NoObject \in OObject /\ O!NoContext \in OContext /\ O!NoObject.refs = 0
        /\ held \in OObject /\ held.refs = 1 /\ held.cb = "none" /\ O!NoObject.cb = "none"
        /\ O!NoContext.cb = "none"
    BY DEF O!NoObject, OObject, O!NoContext, OContext, Methods, Data, Phases, Names
  <2>0. O!NoData \in Callback /\ O!NoData.state = "unused" /\ O!NoData.given = 0
    BY DEF O!NoData, Callback
  <2>2. /\ cfg = O!NoConfig /\ lib = [own |-> O!NoObject, ext |-> held]
        /\ ctx = [c \in Contexts |-> O!NoContext] /\ cb = [d \in CallbackData |-> O!NoData]
        /\ sessions = 0 /\ ret = O!NoCall
    BY <1>2 DEF O!Init
  <2> HIDE DEF held
  <2>3. OType
    BY <2>0, <2>1, <2>2 DEF OType, O!NoConfig, Objects, Asked, Methods
  <2>4. OConfig
    BY <2>2 DEF OConfig, O!NoConfig
  <2>5. OContexts
    BY <2>2 DEF OContexts, O!NoContext
  <2>6. CodesComeBack /\ OCallbacks
    <3>1. CodesComeBack
      BY <2>2 DEF CodesComeBack, O!NoCall
    <3>2. /\ \A d \in CallbackData : cb[d].state = "unused" /\ cb[d].given = 0
          /\ \A o \in Objects : lib[o].cb = "none"
          /\ \A k \in Contexts : ctx[k].cb = "none"
      BY <2>0, <2>1, <2>2 DEF Objects
    <3> QED
      BY <3>1, <3>2 DEF OCallbacks, OOwned
  <2>7. ORefs
    <3>1. \A o \in Objects : Users(o) = {}
      BY <2>2 DEF Users, Objects, O!NoContext
    <3>2. Owner("own") = 0 /\ Owner("ext") = 1
      BY <2>2 DEF Owner, O!NoConfig
    <3>3. lib["own"].refs = 0 /\ lib["ext"].refs = 1
      BY <2>1, <2>2
    <3>4. Cardinality({}) = 0
      BY FS_EmptySet
    <3> QED
      BY <3>1, <3>2, <3>3, <3>4 DEF ORefs, Objects
  <2> QED
    BY <1>2, <2>3, <2>4, <2>5, <2>6, <2>7 DEF IInv, OInv
<1> QED
  BY <1>1, <1>2 DEF Init

LEMMA TlsStep == IInv /\ [Next]_vars => IInv'
<1> SUFFICES ASSUME IInv, [Next]_vars PROVE IInv'
  OBVIOUS
<1>1. CASE backend = "mbedtls" /\ M!Next /\ UNCHANGED <<backend, cb>>
  <2>1. MInv
    BY <1>1 DEF IInv
  <2>2. MInv'
    BY <1>1, <2>1, MConfigStep, MContextStep DEF M!Next
  <2> QED
    BY <1>1, <2>2 DEF IInv
<1>2. CASE backend = "openssl" /\ O!Next /\ UNCHANGED backend
  <2>1. OInv
    BY <1>2 DEF IInv
  <2>2. OInv'
    BY <1>2, <2>1, OConfigStep, OContextStep DEF O!Next
  <2> QED
    BY <1>2, <2>2 DEF IInv
<1>3. CASE UNCHANGED vars
  <2>1. CodesComeBack => CodesComeBack'
    BY <1>3 DEF vars, CodesComeBack
  <2>2. MInv => MInv'
    BY <1>3, <2>1 DEF vars, MInv, MType, MConfig, MContexts, M!HasProfiles
  <2>3. OInv => OInv'
    <3>1. OCallbacks => OCallbacks'
      BY <1>3, OCallbacksKept DEF vars
    <3> QED
      BY <1>3, <2>1, <3>1 DEF vars, OInv, OType, OConfig, OContexts, ORefs, Users, Owner
  <2> QED
    BY <1>3, <2>2, <2>3 DEF vars, IInv
<1> QED
  BY <1>1, <1>2, <1>3 DEF Next

LEMMA TlsInvariant == Spec => []IInv
  BY TlsInit, TlsStep, PTL DEF Spec

\* Whatever the order of the calls, no context that is set up reaches freed memory, and an
\* SSL_CTX is counted once for its owner and once for each of any number of contexts; only
\* callback data that openssl.c gave to several contexts is freed under one of them or twice.
THEOREM LifetimesHold == Spec => []LifetimesKept
<1>1. IInv => LifetimesKept
  <2> SUFFICES ASSUME IInv PROVE LifetimesKept
    OBVIOUS
  <2>1. CASE backend = "mbedtls" /\ MInv
    <3>1. DOMAIN ctx = OneContext
      BY <2>1 DEF MInv, MType
    <3> SUFFICES ASSUME NEW c \in OneContext, ctx[c].conf # "none"
                 PROVE  /\ lib[ctx[c].conf].live
                        /\ "dangling" \notin {lib[ctx[c].conf].suites, lib[ctx[c].conf].profiles}
                        /\ lib[ctx[c].conf].suites = "array" => cfg.live /\ cfg.suites
      BY <2>1, <3>1 DEF LifetimesKept, SetUp
    <3>2. /\ cfg.live /\ ctx[c].conf = cfg.object
          /\ lib[cfg.object].suites # "dangling" /\ lib[cfg.object].profiles # "dangling"
      BY <2>1 DEF MInv, MContexts
    <3>3. cfg.object \in Objects
      BY <2>1, <3>2 DEF MInv, MConfig, Objects
    <3> QED
      BY <2>1, <3>2, <3>3 DEF MInv, MConfig
  <2>2. CASE backend = "openssl" /\ OInv
    <3>1. DOMAIN ctx = Contexts /\ DOMAIN lib = Objects
      BY <2>2 DEF OInv, OType
    <3>2. ASSUME NEW o \in DOMAIN lib
          PROVE  lib[o].refs = Cardinality({c \in DOMAIN ctx : ctx[c].conf = o})
                    + (IF o = "ext" \/ (o = cfg.object /\ ~cfg.external) THEN 1 ELSE 0)
      BY <2>2, <3>1 DEF OInv, ORefs, Users, Owner
    <3>3. ASSUME NEW c \in SetUp, ctx[c].cb # "none"
          PROVE  cb[ctx[c].cb].state = "live" \/ cb[ctx[c].cb].given > 1
      <4>1. ctx[c].cb \in CallbackData /\ OOwned(c)
        BY <2>2, <3>1, <3>3 DEF OInv, OType, OContext, Data, OCallbacks, SetUp
      <4>2. cb[ctx[c].cb].given \in {0, 1, 2}
        BY <2>2, <4>1 DEF OInv, OType, Callback
      <4> QED
        BY <3>3, <4>1, <4>2 DEF OOwned
    <3>4. ASSUME NEW d \in DOMAIN cb, cb[d].state = "freed twice" PROVE cb[d].given > 1
      <4>1. d \in CallbackData
        BY <2>2 DEF OInv, OType
      <4>2. cb[d].given \in {0, 1, 2} /\ cb[d].given # 0 /\ cb[d].given # 1
        BY <2>2, <3>4, <4>1 DEF OInv, OType, Callback, OCallbacks
      <4> QED
        BY <4>2
    <3> QED
      BY <2>2, <3>2, <3>3, <3>4 DEF LifetimesKept
  <2> QED
    BY <2>1, <2>2 DEF IInv
<1> QED
  BY <1>1, TlsInvariant, PTL

\* Key material and the cached certificate are those of the session, also after resets and
\* second handshakes on the same context.
THEOREM SessionDataHolds == Spec => []SessionData
<1>1. IInv => SessionData
  <2> SUFFICES ASSUME IInv, NEW c \in SetUp, ctx[c].phase = "over"
               PROVE  /\ ctx[c].profile # "undefined" =>
                           (IF backend = "mbedtls"
                            THEN M!bctbx_ssl_get_dtls_srtp_key_material(c)
                            ELSE O!bctbx_ssl_get_dtls_srtp_key_material(c)) = ctx[c].session
                      /\ backend = "openssl" => ctx[c].peer \in {0, ctx[c].session}
    BY DEF SessionData
  <2>1. CASE backend = "mbedtls" /\ MInv
    <3>1. c \in OneContext
      BY <2>1 DEF MInv, MType, SetUp
    <3> QED
      BY <2>1, <3>1 DEF MInv, MContexts, M!bctbx_ssl_get_dtls_srtp_key_material
  <2>2. CASE backend = "openssl" /\ OInv
    <3>1. c \in Contexts
      BY <2>2 DEF OInv, OType, SetUp
    <3> QED
      BY <2>2, <3>1 DEF OInv, OContexts, O!bctbx_ssl_get_dtls_srtp_key_material
  <2> QED
    BY <2>1, <2>2 DEF IInv
<1> QED
  BY <1>1, TlsInvariant, PTL

\* Endpoint and transport are what was asked for last, though openssl.c has to tell each
\* from an SSL_METHOD when it sets the other.
THEOREM ConfigHolds == Spec => []ConfigAsAsked
<1>1. IInv => ConfigAsAsked
  <2>1. CASE backend = "mbedtls" /\ MInv
    BY <2>1 DEF MInv, MConfig, ConfigAsAsked
  <2>2. CASE backend = "openssl" /\ OInv
    BY <2>2 DEF OInv, OConfig, ConfigAsAsked
  <2> QED
    BY <2>1, <2>2 DEF IInv
<1> QED
  BY <1>1, TlsInvariant, PTL

\* The code of a callback that would block survives the two translations of mbedtls.c and the
\* retry flags of openssl.c.
THEOREM CodesHold == Spec => []CodesComeBack
<1>1. IInv => CodesComeBack
  BY DEF IInv, MInv, OInv
<1> QED
  BY <1>1, TlsInvariant, PTL

=============================================================================
