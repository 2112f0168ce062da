----------------------------- MODULE GcmMbedtls -----------------------------
(***************************************************************************)
(* AES-GCM of mbedtls.c.  Data are sequences of units, a block has         *)
(* BlockUnits of them; a unit of cipher text is the key, the place in the  *)
(* key stream and the unit it hides; a tag is the key, the authenticated   *)
(* data and the cipher text with the padding of its blocks.                *)
(***************************************************************************)
EXTENDS Naturals, Sequences

CONSTANTS BlockUnits, KeyLengths

Pad == <<0, 0, 0>>

\* The unit a key stream makes of another one: hidden, uncovered, or unreadable.
Crypt(mode, key, at, u) ==
    IF mode = "ENCRYPT" THEN <<key, at, u>>
    ELSE IF u[1] = key /\ u[2] = at THEN u[3] ELSE 0

ToBlock(n) == ((n + BlockUnits - 1) \div BlockUnits) * BlockUnits

Padded(s) == s \o [i \in 1..(ToBlock(Len(s)) - Len(s)) |-> Pad]

\* The context, or <<>> for NULL: mbedtls_gcm_setkey refuses other lengths.
bctbx_aes_gcm_context_new(key, keyLength, ad, mode) ==
    IF keyLength \notin KeyLengths THEN <<>>
    ELSE <<[mode |-> mode, key |-> key, ad |-> ad, at |-> 0, text |-> <<>>]>>

\* mbedtls_gcm_update takes each chunk from a new block on, and the cipher
\* text of a chunk is authenticated with the padding of its last block.
bctbx_aes_gcm_process_chunk(ctx, input) ==
    LET out == [i \in DOMAIN input |-> Crypt(ctx.mode, ctx.key, ctx.at + i, input[i])]
        cipher == IF ctx.mode = "ENCRYPT" THEN out ELSE input
    IN  [out |-> out,
         ctx |-> [ctx EXCEPT !.at = @ + ToBlock(Len(input)), !.text = @ \o Padded(cipher)]]

\* The tag computed, and what comparing it with the tag given returns; a tag
\* of no length is refused by mbedtls_gcm_finish.
bctbx_aes_gcm_finish(ctx, tag) ==
    LET computed == <<ctx.key, ctx.ad, ctx.text>>
    IN  [tag |-> computed,
         ret |-> IF ctx.mode = "ENCRYPT" THEN "0"
                 ELSE IF tag = <<>> THEN "BAD_INPUT" ELSE IF tag = computed THEN "0" ELSE "DIFFERENT"]

bctbx_aes_gcm_encrypt_and_tag(key, keyLength, plain, ad) ==
    IF keyLength \notin KeyLengths THEN [ret |-> "BAD_INPUT", out |-> <<>>, tag |-> <<>>]
    ELSE LET out == [i \in DOMAIN plain |-> Crypt("ENCRYPT", key, i, plain[i])]
         IN  [ret |-> "0", out |-> out, tag |-> <<key, ad, Padded(out)>>]

bctbx_aes_gcm_decrypt_and_auth(key, keyLength, cipher, ad, tag) ==
    IF keyLength \notin KeyLengths THEN [ret |-> "BAD_INPUT", out |-> <<>>]
    ELSE IF tag # <<key, ad, Padded(cipher)>> THEN [ret |-> "AUTHENTICATION_FAILED", out |-> <<>>]
    ELSE [ret |-> "0", out |-> [i \in DOMAIN cipher |-> Crypt("DECRYPT", key, i, cipher[i])]]
=============================================================================
