---------------------------- MODULE CertOpenssl ----------------------------
(***************************************************************************)
(* The same functions over OpenSSL (openssl.c), where the certificate      *)
(* object is a stack of X509.  Verification flags are not supported: the   *)
(* three functions do nothing (l. 572-593).                                *)
(***************************************************************************)
EXTENDS Naturals, Sequences

CONSTANTS Texts, Directories, PemLengths, MaxKeys, MaxChain  \* as in CertMbedtls

VARIABLES crt, pkey, pem, keys, loaded, paired         \* as in CertMbedtls

vars == <<crt, pkey, pem, keys, loaded, paired>>

Certificate(k, alt, hash) == [key |-> k, cn |-> "cn", alt |-> alt, hash |-> hash]

PemSize(chain) == 2 + 3 * Len(chain)

Init == /\ crt = [live |-> FALSE, chain |-> <<>>]
        /\ pkey = [live |-> FALSE, key |-> 0]
        /\ pem = <<>> /\ keys = 0
        /\ loaded = <<>> /\ paired = FALSE

bctbx_signing_key_new ==
    /\ ~pkey.live
    /\ pkey' = [live |-> TRUE, key |-> 0]
    /\ UNCHANGED <<crt, pem, keys, loaded, paired>>

bctbx_signing_key_free ==
    /\ pkey.live
    /\ pkey' = [live |-> FALSE, key |-> 0] /\ paired' = FALSE
    /\ UNCHANGED <<crt, pem, keys, loaded>>

bctbx_signing_key_parse ==
    /\ pkey.live /\ pkey.key = 0
    /\ \/ pem # <<>> /\ pkey' = [pkey EXCEPT !.key = pem[1]]
       \/ UNCHANGED pkey
    /\ UNCHANGED <<crt, pem, keys, loaded, paired>>

bctbx_x509_certificate_new ==
    /\ ~crt.live
    /\ crt' = [live |-> TRUE, chain |-> <<>>] /\ loaded' = <<>>
    /\ UNCHANGED <<pkey, pem, keys, paired>>

bctbx_x509_certificate_free ==
    /\ crt.live
    /\ crt' = [live |-> FALSE, chain |-> <<>>] /\ loaded' = <<>> /\ paired' = FALSE
    /\ UNCHANGED <<pkey, pem, keys>>

\* PEM_X509_INFO_read gives nothing when one of the blocks does not parse.
Parses(text) == \A i \in DOMAIN text : text[i].key # 0

\* What stack_x509_info_to_x509 adds: nothing, or every certificate.
stack_x509_info_to_x509(text) == IF Parses(text) THEN text ELSE <<>>

bctbx_x509_certificate_parse ==
    /\ crt.live /\ Len(crt.chain) <= MaxChain
    /\ \E text \in Texts \cup (IF pem = <<>> THEN {} ELSE {pem[2]}) :
          /\ crt' = [crt EXCEPT !.chain = @ \o stack_x509_info_to_x509(text)]
          /\ loaded' = IF Parses(text) THEN loaded \o text ELSE loaded
    /\ UNCHANGED <<pkey, pem, keys, paired>>

\* The loop ends at the first file that does not parse; the certificates of
\* the files before it stay.
bctbx_x509_certificate_parse_path ==
    /\ crt.live /\ Len(crt.chain) <= MaxChain
    /\ \E d \in Directories :
          LET second == IF Parses(d[1]) THEN stack_x509_info_to_x509(d[2]) ELSE <<>>
          IN  /\ crt' = [crt EXCEPT !.chain = @ \o stack_x509_info_to_x509(d[1]) \o second]
              /\ loaded' = IF Parses(d[1]) /\ Parses(d[2]) THEN loaded \o d[1] \o d[2] ELSE loaded
    /\ UNCHANGED <<pkey, pem, keys, paired>>

generate_x509_before_key(k) == Certificate(k - 1, <<>>, "SHA-1")

\* The certificate generate_x509 makes has the new key and is signed with it.
generate_x509(k) == Certificate(k, <<>>, "SHA-1")

\* The key of the object is replaced, and the certificate is pushed before the
\* texts are made and their room is checked.
bctbx_x509_certificate_generate_selfsigned ==
    /\ crt.live /\ crt.chain = <<>> /\ pkey.live /\ keys < MaxKeys
    /\ \/ /\ pkey' = [pkey EXCEPT !.key = 0]                  \* no key generated
          /\ UNCHANGED <<crt, pem, keys, paired>>
       \/ /\ pkey' = [pkey EXCEPT !.key = keys + 1] /\ keys' = keys + 1
          /\ crt' = [crt EXCEPT !.chain = Append(@, generate_x509(keys + 1))]
          /\ paired' = TRUE
          /\ \/ UNCHANGED pem                                 \* a text could not be made
             \/ \E n \in PemLengths :
                   pem' = IF n <= PemSize(crt'.chain) + 1 THEN pem ELSE <<keys + 1, crt'.chain>>
    /\ UNCHANGED loaded

-----------------------------------------------------------------------------
\* Questions about a chain, which is not empty.

bctbx_x509_certificates_chain_get_pem(chain) == chain

bctbx_x509_certificate_get_der_length(chain) ==
    IF Len(chain) # 1 THEN "INVALID_INPUT_DATA" ELSE 1 + Len(chain[1].alt)

bctbx_x509_certificate_get_der(chain, buffer_length) ==
    IF Len(chain) # 1 THEN "INVALID_INPUT_DATA"
    ELSE IF bctbx_x509_certificate_get_der_length(chain) + 1 > buffer_length
    THEN "OUTPUT_BUFFER_TOO_SMALL" ELSE "0"

\* The loop over the alternative names of certificate i asks for the i-th name
\* at every turn; asked past the end the library gives nothing.
bctbx_x509_certificate_get_subjects(chain) ==
    LET names(i) == IF i > Len(chain[i].alt) THEN <<>> ELSE [j \in DOMAIN chain[i].alt |-> chain[i].alt[i]]
        from[i \in 1..(Len(chain) + 1)] ==
            IF i > Len(chain) THEN <<>> ELSE <<chain[i].cn>> \o names(i) \o from[i + 1]
    IN  from[1]

HashLengths == [h \in {"SHA-1", "SHA-224", "SHA-256", "SHA-384", "SHA-512"} |->
                   CASE h = "SHA-1" -> 20 [] h = "SHA-224" -> 28 [] h = "SHA-256" -> 32
                     [] h = "SHA-384" -> 48 [] OTHER -> 64]

NameLength(h) == IF h = "SHA-1" THEN 5 ELSE IF h \in DOMAIN HashLengths THEN 7 ELSE 9

bctbx_x509_certificate_get_signature_hash_function(chain) ==
    IF Len(chain) # 1 THEN "INVALID_CERTIFICATE"
    ELSE IF chain[1].hash \in DOMAIN HashLengths THEN chain[1].hash ELSE "UNSUPPORTED_HASH_FUNCTION"

\* A hash without a name of its own is called UNDEFINED; MD5 has 16 bytes.
bctbx_x509_certificate_get_fingerprint(chain, fingerprint_length, hash_algorithm) ==
    LET hash == IF hash_algorithm \in DOMAIN HashLengths THEN hash_algorithm ELSE chain[1].hash
        written == IF hash \in DOMAIN HashLengths THEN HashLengths[hash] ELSE 16
    IN  IF Len(chain) # 1 THEN "INVALID_CERTIFICATE"
        ELSE IF fingerprint_length < NameLength(hash) + 3 * written + 1 THEN "OUTPUT_BUFFER_TOO_SMALL"
        ELSE IF hash \in DOMAIN HashLengths THEN hash ELSE "UNDEFINED"

Next == \/ bctbx_signing_key_new \/ bctbx_signing_key_free \/ bctbx_signing_key_parse
        \/ bctbx_x509_certificate_new \/ bctbx_x509_certificate_free
        \/ bctbx_x509_certificate_parse \/ bctbx_x509_certificate_parse_path
        \/ bctbx_x509_certificate_generate_selfsigned

Spec == Init /\ [][Next]_vars
=============================================================================
