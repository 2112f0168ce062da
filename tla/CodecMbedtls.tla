---------------------------- MODULE CodecMbedtls ----------------------------
(***************************************************************************)
(* Base64, digests and key derivation of mbedtls.c and mbedtls.cc, by the  *)
(* sizes they give and take.  A base64 text is its number of characters    *)
(* and how many of them, at the end, are '='; an output is what was hashed *)
(* and how many bytes of the result were copied.                           *)
(***************************************************************************)
EXTENDS Naturals

\* Characters for n bytes, with the null byte the library adds and counts.
mbedtls_base64_encode(n, room) ==
    LET chars == 4 * ((n + 2) \div 3)
    IN  IF n = 0 THEN [ret |-> "0", length |-> 0]
        ELSE IF room < chars + 1 THEN [ret |-> "BUFFER_TOO_SMALL", length |-> chars + 1]
        ELSE [ret |-> "0", length |-> chars]

mbedtls_base64_decode(t, room) ==
    LET bytes == 3 * (t.chars \div 4) - t.eq
    IN  [ret |-> IF room < bytes THEN "BUFFER_TOO_SMALL" ELSE "0", length |-> bytes]

\* Mutant: the characters past the last group are counted, not the missing ones.
MissingPadding_remainder(t) == t.chars % 4

MissingPadding(t) == IF t.chars % 4 = 0 THEN 0 ELSE 4 - (t.chars % 4)

\* The text with the padding it lacks.
Restored(t) == [chars |-> t.chars + MissingPadding(t), eq |-> t.eq + MissingPadding(t)]

bctbx_base64_encode(n, room) ==
    LET r == mbedtls_base64_encode(n, room)
    IN  [r EXCEPT !.ret = IF @ = "BUFFER_TOO_SMALL" THEN "OUTPUT_BUFFER_TOO_SMALL" ELSE @]

bctbx_base64_decode(t, room) ==
    LET r == mbedtls_base64_decode(Restored(t), room)
    IN  [r EXCEPT !.ret = IF @ = "BUFFER_TOO_SMALL" THEN "OUTPUT_BUFFER_TOO_SMALL" ELSE @]

\* Two calls each: for the size, and for the text.
encodeBase64(n) ==
    LET need == mbedtls_base64_encode(n, 0).length
        r == mbedtls_base64_encode(n, need)
    IN  IF need = 0 \/ r.ret # "0" THEN [chars |-> 0, eq |-> 0]
        ELSE [chars |-> r.length, eq |-> (3 - (n % 3)) % 3]

decodeBase64(t) ==
    LET need == mbedtls_base64_decode(Restored(t), 0).length
        r == mbedtls_base64_decode(Restored(t), need)
    IN  IF r.ret # "0" THEN 0 ELSE need

-----------------------------------------------------------------------------

HashSize == [SHA1 |-> 20, SHA256 |-> 32, SHA384 |-> 48, SHA512 |-> 64]

AtMost(n, max) == IF n > max THEN max ELSE n

Output(kind, alg, key, n) == [kind |-> kind, alg |-> alg, key |-> key, bytes |-> n]

bctbx_hmacSha512(key, hmacLength) == Output("hmac", "SHA512", key, AtMost(hmacLength, 64))

bctbx_hmacSha384(key, hmacLength) == Output("hmac", "SHA384", key, AtMost(hmacLength, 48))

bctbx_hmacSha256(key, hmacLength) == Output("hmac", "SHA256", key, AtMost(hmacLength, 32))

bctbx_hmacSha1(key, hmacLength) == Output("hmac", "SHA1", key, AtMost(hmacLength, 20))

bctbx_sha512(hashLength) == Output("digest", "SHA512", "", AtMost(hashLength, 64))

bctbx_sha384(hashLength) == Output("digest", "SHA384", "", AtMost(hashLength, 48))

bctbx_sha256(hashLength) == Output("digest", "SHA256", "", AtMost(hashLength, 32))

\* HKDF<SHA256>, HKDF<SHA384>, HKDF<SHA512>: mbedtls_hkdf makes 255 hashes at most.
HKDF(alg, outputSize) ==
    IF outputSize > 255 * HashSize[alg] THEN [thrown |-> TRUE, bytes |-> 0]
    ELSE [thrown |-> FALSE, bytes |-> outputSize]
=============================================================================
