---------------------------- MODULE CodecOpenssl ----------------------------
(***************************************************************************)
(* The functions of CodecMbedtls in openssl.c and openssl.cc.              *)
(***************************************************************************)
EXTENDS Naturals

\* output_given is FALSE for a call that asks for the size.
bctbx_base64_encode(n, output_given, room) ==
    LET need == 4 * (n \div 3) + (IF n % 3 > 0 THEN 4 ELSE 0)
    IN  IF output_given /\ room < need THEN [ret |-> "OUTPUT_BUFFER_TOO_SMALL", length |-> room]
        ELSE [ret |-> "0", length |-> need]

\* EVP_DecodeBlock counts the bytes of the padding: those of the padding that
\* was added, then those of the '=' in the input, are taken off.
bctbx_base64_decode(t, output_given, room) ==
    LET missing == IF t.chars % 4 = 0 THEN 0 ELSE 4 - (t.chars % 4)
        most == 3 * ((t.chars + missing) \div 4)
    IN  IF ~output_given THEN [ret |-> "0", length |-> most]
        ELSE IF room < most THEN [ret |-> "OUTPUT_BUFFER_TOO_SMALL", length |-> room]
        ELSE [ret |-> "0", length |-> (most - missing) - (IF t.eq >= 2 THEN 2 ELSE t.eq)]

encodeBase64(n) ==
    LET need == bctbx_base64_encode(n, FALSE, 0).length
        r == bctbx_base64_encode(n, TRUE, need)
    IN  IF need = 0 \/ r.ret # "0" THEN [chars |-> 0, eq |-> 0]
        ELSE [chars |-> r.length, eq |-> (3 - (n % 3)) % 3]

decodeBase64(t) ==
    LET need == bctbx_base64_decode(t, FALSE, 0).length
        r == bctbx_base64_decode(t, TRUE, need)
    IN  IF need = 0 \/ r.ret # "0" THEN 0 ELSE r.length

-----------------------------------------------------------------------------

HashSize == [SHA1 |-> 20, SHA256 |-> 32, SHA384 |-> 48, SHA512 |-> 64]

Output(kind, alg, key, n) == [kind |-> kind, alg |-> alg, key |-> key, bytes |-> n]

\* Without a key (NULL, here "") the text is hashed and not authenticated.
bctbx_hmac(alg, key, output_length) ==
    LET copied == IF output_length > HashSize[alg] THEN HashSize[alg] ELSE output_length
    IN  IF key = "" THEN Output("digest", alg, "", copied) ELSE Output("hmac", alg, key, copied)

bctbx_digest(alg, output_length) == bctbx_hmac(alg, "", output_length)

\* HMAC_KDF: EVP_KDF_derive fails past 255 hashes, and the result is empty.
HKDF(alg, outputSize) ==
    [thrown |-> FALSE, bytes |-> IF outputSize > 255 * HashSize[alg] THEN 0 ELSE outputSize]
=============================================================================
