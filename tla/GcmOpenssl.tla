----------------------------- MODULE GcmOpenssl -----------------------------
(***************************************************************************)
(* AES-GCM of openssl.c, with the data of GcmMbedtls.  The library keeps   *)
(* its place inside a block from one chunk to the next, and pads once.     *)
(***************************************************************************)
EXTENDS Naturals, Sequences

CONSTANTS BlockUnits

Data == INSTANCE GcmMbedtls WITH KeyLengths <- {}

\* get_evp_aes_gcm: the lengths that have a cipher.
get_evp_aes_gcm(keyLength) == keyLength \in {16, 24, 32}

bctbx_aes_gcm_context_new(key, keyLength, ad, mode) ==
    IF ~get_evp_aes_gcm(keyLength) THEN <<>>
    ELSE <<[mode |-> mode, key |-> key, ad |-> ad, at |-> 0, text |-> <<>>]>>

bctbx_aes_gcm_process_chunk(ctx, input) ==
    LET out == [i \in DOMAIN input |-> Data!Crypt(ctx.mode, ctx.key, ctx.at + i, input[i])]
    IN  [out |-> out,
         ctx |-> [ctx EXCEPT !.at = @ + Len(input),
                             !.text = @ \o (IF ctx.mode = "ENCRYPT" THEN out ELSE input)]]

\* EVP_CTRL_GCM_SET_TAG refuses a tag of no length; EVP_CipherFinal_ex compares.
bctbx_aes_gcm_finish(ctx, tag) ==
    LET computed == <<ctx.key, ctx.ad, Data!Padded(ctx.text)>>
    IN  [tag |-> computed,
         ret |-> IF ctx.mode = "ENCRYPT" \/ tag = computed THEN "0" ELSE "UNSPECIFIED_ERROR"]

bctbx_aes_gcm_encrypt_and_tag(key, keyLength, plain, ad) ==
    LET ctx == bctbx_aes_gcm_context_new(key, keyLength, ad, "ENCRYPT")
        done == bctbx_aes_gcm_process_chunk(ctx[1], plain)
    IN  IF ctx = <<>> THEN [ret |-> "INVALID_INPUT_DATA", out |-> <<>>, tag |-> <<>>]
        ELSE [ret |-> "0", out |-> done.out, tag |-> bctbx_aes_gcm_finish(done.ctx, <<>>).tag]

\* The text is in the caller's buffer when the tag is found to be wrong.
bctbx_aes_gcm_decrypt_and_auth(key, keyLength, cipher, ad, tag) ==
    LET ctx == bctbx_aes_gcm_context_new(key, keyLength, ad, "DECRYPT")
        done == bctbx_aes_gcm_process_chunk(ctx[1], cipher)
    IN  IF ctx = <<>> THEN [ret |-> "INVALID_INPUT_DATA", out |-> <<>>]
        ELSE [ret |-> bctbx_aes_gcm_finish(done.ctx, tag).ret, out |-> done.out]
=============================================================================
