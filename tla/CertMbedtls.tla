---------------------------- MODULE CertMbedtls ----------------------------
(***************************************************************************)
(* Signing keys, certificate chains and verification flags over mbedtls    *)
(* (mbedtls.c).  A certificate is its key, its common name, its            *)
(* alternative names and the hash of its signature; a PEM text is what     *)
(* parsing it finds, in order: a block that does not parse has key 0.      *)
(***************************************************************************)
EXTENDS Integers, Sequences

CONSTANTS Texts,        \* PEM texts of certificates a caller may parse
          Directories,  \* sequences of texts: the files of a directory
          PemLengths,   \* lengths of the PEM buffer of a caller, 0 for none
          FlagSets,     \* flags of bctoolbox a verification callback may set or clear
          SizeMax,      \* the largest size_t
          MaxKeys,      \* bound: keys generated in a behaviour
          MaxChain      \* bound: length of a chain that is added to

VARIABLES
    crt,        \* the bctbx_x509_certificate_t object: live, and its chain
    pkey,       \* the bctbx_signing_key_t object: live, and its key, 0 for none
    pem,        \* text in the PEM buffer of the caller: <<>> or <<key, chain>>
    keys,       \* keys generated so far
    flags,      \* flags the verification callback was handed
    wanted,     \* the same flags as the callback means them
    loaded,     \* certificates of the texts whose parsing returned 0
    paired      \* TRUE while crt and pkey are those of one generation

vars == <<crt, pkey, pem, keys, flags, wanted, loaded, paired>>

Certificate(k, alt, hash) == [key |-> k, cn |-> "cn", alt |-> alt, hash |-> hash]

\* The blocks that parse, one after the other.
Good(text) ==
    LET good[i \in 0..Len(text)] ==
            IF i = 0 THEN <<>> ELSE IF text[i].key = 0 THEN good[i - 1] ELSE Append(good[i - 1], text[i])
    IN  good[Len(text)]

\* The text has every certificate in it, and mbedtls writes 3 units for one and
\* 2 for a key.
PemSize(chain) == 2 + 3 * Len(chain)

Init == /\ crt = [live |-> FALSE, chain |-> <<>>]
        /\ pkey = [live |-> FALSE, key |-> 0]
        /\ pem = <<>> /\ keys = 0
        /\ flags = {} /\ wanted = {}
        /\ loaded = <<>> /\ paired = FALSE

bctbx_signing_key_new ==
    /\ ~pkey.live
    /\ pkey' = [live |-> TRUE, key |-> 0]
    /\ UNCHANGED <<crt, pem, keys, flags, wanted, loaded, paired>>

bctbx_signing_key_free ==
    /\ pkey.live
    /\ pkey' = [live |-> FALSE, key |-> 0] /\ paired' = FALSE
    /\ UNCHANGED <<crt, pem, keys, flags, wanted, loaded>>

\* The key is read back from the text a generation left; any other text does
\* not parse.  The context is an empty one.
bctbx_signing_key_parse ==
    /\ pkey.live /\ pkey.key = 0
    /\ \/ pem # <<>> /\ pkey' = [pkey EXCEPT !.key = pem[1]]
       \/ UNCHANGED pkey                 \* BCTBX_ERROR_UNABLE_TO_PARSE_KEY
    /\ UNCHANGED <<crt, pem, keys, flags, wanted, loaded, paired>>

bctbx_x509_certificate_new ==
    /\ ~crt.live
    /\ crt' = [live |-> TRUE, chain |-> <<>>] /\ loaded' = <<>>
    /\ UNCHANGED <<pkey, pem, keys, flags, wanted, paired>>

bctbx_x509_certificate_free ==
    /\ crt.live
    /\ crt' = [live |-> FALSE, chain |-> <<>>] /\ loaded' = <<>> /\ paired' = FALSE
    /\ UNCHANGED <<pkey, pem, keys, flags, wanted>>

\* mbedtls_x509_crt_parse: the blocks that parse are added, and the result is
\* the number of the others, or an error when there is no certificate at all.
CrtParse(text) == [adds |-> Good(text), zero |-> Good(text) = text]

parse_replaces ==
    /\ crt.live /\ Len(crt.chain) <= MaxChain
    /\ \E text \in Texts : /\ crt' = [crt EXCEPT !.chain = CrtParse(text).adds]
                           /\ loaded' = IF CrtParse(text).zero THEN loaded \o text ELSE loaded
    /\ UNCHANGED <<pkey, pem, keys, flags, wanted, paired>>

bctbx_x509_certificate_parse ==
    /\ crt.live /\ Len(crt.chain) <= MaxChain
    /\ \E text \in Texts \cup (IF pem = <<>> THEN {} ELSE {pem[2]}) :
          /\ crt' = [crt EXCEPT !.chain = @ \o CrtParse(text).adds]
          /\ loaded' = IF CrtParse(text).zero THEN loaded \o text ELSE loaded
    /\ UNCHANGED <<pkey, pem, keys, flags, wanted, paired>>

\* mbedtls_x509_crt_parse_path goes on after a file that does not parse.
bctbx_x509_certificate_parse_path ==
    /\ crt.live /\ Len(crt.chain) <= MaxChain
    /\ \E d \in Directories :
          /\ crt' = [crt EXCEPT !.chain = @ \o Good(d[1]) \o Good(d[2])]
          /\ loaded' = IF Good(d[1]) = d[1] /\ Good(d[2]) = d[2] THEN loaded \o d[1] \o d[2]
                                                                 ELSE loaded
    /\ UNCHANGED <<pkey, pem, keys, flags, wanted, paired>>

\* The certificate context is an empty one.  A key context in use makes
\* mbedtls_pk_setup fail; a step of the library that fails after that leaves
\* the key, a PEM buffer that is too short is noticed with the key made and no
\* certificate, and the buffer is filled before the text is parsed.
bctbx_x509_certificate_generate_selfsigned ==
    /\ crt.live /\ crt.chain = <<>> /\ pkey.live /\ keys < MaxKeys
    /\ \/ UNCHANGED <<crt, pkey, pem, keys, paired>>          \* seed or pk_setup failed
       \/ /\ pkey.key = 0
          /\ pkey' = [pkey EXCEPT !.key = keys + 1] /\ keys' = keys + 1
          /\ UNCHANGED <<crt, pem, paired>>                   \* a name, the serial or the text failed
       \/ /\ pkey.key = 0
          /\ pkey' = [pkey EXCEPT !.key = keys + 1] /\ keys' = keys + 1
          /\ \E n \in PemLengths :
                LET chain == <<Certificate(keys + 1, <<>>, "SHA-256")>>
                IN  IF n # 0 /\ PemSize(chain) + 1 > n
                    THEN UNCHANGED <<crt, pem, paired>>       \* BCTBX_ERROR_OUTPUT_BUFFER_TOO_SMALL
                    ELSE /\ pem' = IF n = 0 THEN pem ELSE <<keys + 1, chain>>
                         /\ \/ crt' = [crt EXCEPT !.chain = chain] /\ paired' = TRUE
                            \/ UNCHANGED <<crt, paired>>      \* BCTBX_ERROR_CERTIFICATE_PARSE_PEM
    /\ UNCHANGED <<flags, wanted, loaded>>

-----------------------------------------------------------------------------
\* Questions about a chain, which is not empty.

\* The text is that of the first certificate.
bctbx_x509_certificates_chain_get_pem(chain) == SubSeq(chain, 1, 1)

\* The first certificate, whose length is its number of alternative names and 1.
bctbx_x509_certificate_get_der_length(chain) == 1 + Len(chain[1].alt)

get_der_without_null(chain, buffer_length) ==
    IF bctbx_x509_certificate_get_der_length(chain) > buffer_length
    THEN "OUTPUT_BUFFER_TOO_SMALL" ELSE "0"

\* The subtraction of two size_t.
Minus(a, b) == IF a < b THEN a - b + SizeMax + 1 ELSE a - b

bctbx_x509_certificate_get_der(chain, buffer_length) ==
    IF bctbx_x509_certificate_get_der_length(chain) > Minus(buffer_length, 1)
    THEN "OUTPUT_BUFFER_TOO_SMALL" ELSE "0"

bctbx_x509_certificate_get_subjects(chain) == Append(chain[1].alt, chain[1].cn)

HashLengths == [h \in {"SHA-1", "SHA-224", "SHA-256", "SHA-384", "SHA-512"} |->
                   CASE h = "SHA-1" -> 20 [] h = "SHA-224" -> 28 [] h = "SHA-256" -> 32
                     [] h = "SHA-384" -> 48 [] OTHER -> 64]

NameLength(h) == IF h = "SHA-1" THEN 5 ELSE 7

bctbx_x509_certificate_get_signature_hash_function(chain) ==
    IF chain[1].hash \in DOMAIN HashLengths THEN chain[1].hash ELSE "UNSUPPORTED_HASH_FUNCTION"

\* The hash asked for, or that of the signature; the result is the size.
bctbx_x509_certificate_get_fingerprint(chain, fingerprint_length, hash_algorithm) ==
    LET hash == IF hash_algorithm \in DOMAIN HashLengths THEN hash_algorithm ELSE chain[1].hash
        size == NameLength(hash) + 3 * HashLengths[hash] + 1
    IN  IF hash \notin DOMAIN HashLengths THEN "UNSUPPORTED_HASH_FUNCTION"
        ELSE IF fingerprint_length < size THEN "OUTPUT_BUFFER_TOO_SMALL" ELSE hash

-----------------------------------------------------------------------------
\* Flags are sets of bit numbers.  LibraryBit takes a bit of bctoolbox's
\* BCTBX_CERTIFICATE_VERIFY_ flags to that of the MBEDTLS_X509_ flag.
LibraryBit == [b \in (0..5) \cup (8..21) |->
                  CASE b \in {4, 5} -> b + 2 [] b \in 10..15 -> b + 1 [] b = 16 -> 10
                    [] b \in {17, 18} -> b - 13 [] b \in 19..21 -> b - 2 [] OTHER -> b]

remap_flag_same_bits(s) == s \cap DOMAIN LibraryBit

bctbx_x509_certificate_remap_flag(s) == {b \in DOMAIN LibraryBit : LibraryBit[b] \in s}

bctbx_x509_certificate_set_flag ==
    /\ \E bits \in FlagSets :
          /\ flags' = flags \cup {LibraryBit[b] : b \in bits \cap DOMAIN LibraryBit}
          /\ wanted' = wanted \cup (bits \cap DOMAIN LibraryBit)
    /\ UNCHANGED <<crt, pkey, pem, keys, loaded, paired>>

bctbx_x509_certificate_unset_flag ==
    /\ \E bits \in FlagSets :
          /\ flags' = flags \ {LibraryBit[b] : b \in bits \cap DOMAIN LibraryBit}
          /\ wanted' = wanted \ bits
    /\ UNCHANGED <<crt, pkey, pem, keys, loaded, paired>>

Next == \/ bctbx_signing_key_new \/ bctbx_signing_key_free \/ bctbx_signing_key_parse
        \/ bctbx_x509_certificate_new \/ bctbx_x509_certificate_free
        \/ bctbx_x509_certificate_parse \/ bctbx_x509_certificate_parse_path
        \/ bctbx_x509_certificate_generate_selfsigned
        \/ bctbx_x509_certificate_set_flag \/ bctbx_x509_certificate_unset_flag

Spec == Init /\ [][Next]_vars
=============================================================================
