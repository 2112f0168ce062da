----------------------------- MODULE AesGcmFile -----------------------------
(***************************************************************************)
(* The transfer of encrypted files (crypto.c): a sender encrypts a file    *)
(* chunk by chunk with bctbx_aes_gcm_encryptFile, a receiver decrypts it   *)
(* with bctbx_aes_gcm_decryptFile, each with the library of its build.     *)
(* The context is made by the first call of a stream and freed, and the    *)
(* pointer reset, by the call without data that ends it.  What travels may *)
(* be changed on its way.  By the rule at mbedtls.c l. 1882 only the last  *)
(* chunk of a stream may be no multiple of a block.                        *)
(***************************************************************************)
EXTENDS Naturals, Sequences

CONSTANTS BlockUnits,   \* units in a block of the cipher
          FileUnits,    \* units in a file
          Files         \* bound: files of a behaviour

VARIABLES
    library,    \* the library of the sender and of the receiver
    file,       \* number of the file in transfer, which is also its key
    send, recv, \* *cryptoContext: <<>> for NULL
    taken,      \* units of the file handed to the sender
    wire,       \* cipher text on its way
    tag,        \* tag that was sent, <<>> before
    read,       \* units of the cipher text handed to the receiver
    plain,      \* what the receiver made of them
    verdict,    \* result of the receiver's last call, "none" before the stream ends
    spoiled,    \* TRUE once a chunk failed to encrypt or was changed
    offered     \* TRUE if the receiver ended the stream with the tag that was sent

vars == <<library, file, send, recv, taken, wire, tag, read, plain, verdict, spoiled, offered>>

M == INSTANCE GcmMbedtls WITH KeyLengths <- {16, 24, 32}

O == INSTANCE GcmOpenssl

ContextNew(lib, key, mode) ==
    IF lib = "mbedtls" THEN M!bctbx_aes_gcm_context_new(key, 24, "", mode)
                       ELSE O!bctbx_aes_gcm_context_new(key, 24, "", mode)

ProcessChunk(lib, ctx, input) ==
    IF lib = "mbedtls" THEN M!bctbx_aes_gcm_process_chunk(ctx, input)
                       ELSE O!bctbx_aes_gcm_process_chunk(ctx, input)

Finish(lib, ctx, t) ==
    IF lib = "mbedtls" THEN M!bctbx_aes_gcm_finish(ctx, t) ELSE O!bctbx_aes_gcm_finish(ctx, t)

\* One call for the whole text (crypto.cc): a key of 32 bytes, a tag of 16,
\* and an exception, here "thrown", for any result but 0.
AEADEncrypt(lib, key, keyLength, text, ad) ==
    LET r == IF lib = "mbedtls" THEN M!bctbx_aes_gcm_encrypt_and_tag(key, keyLength, text, ad)
                                ELSE O!bctbx_aes_gcm_encrypt_and_tag(key, keyLength, text, ad)
    IN  IF keyLength # 32 \/ r.ret # "0" THEN "thrown" ELSE <<r.out, r.tag>>

AEADDecrypt(lib, key, keyLength, cipher, ad, t) ==
    LET r == IF lib = "mbedtls" THEN M!bctbx_aes_gcm_decrypt_and_auth(key, keyLength, cipher, ad, t)
                                ELSE O!bctbx_aes_gcm_decrypt_and_auth(key, keyLength, cipher, ad, t)
    IN  IF keyLength # 32 \/ t = <<>> \/ r.ret # "0" THEN "thrown" ELSE r.out

Content == [i \in 1..FileUnits |-> i]

Aligned(n, left) == n = left \/ n % BlockUnits = 0

Init == /\ library \in [{"sender", "receiver"} -> {"mbedtls", "openssl"}]
        /\ file = 1 /\ send = <<>> /\ recv = <<>> /\ taken = 0 /\ wire = <<>> /\ tag = <<>>
        /\ read = 0 /\ plain = <<>> /\ verdict = "none" /\ spoiled = FALSE /\ offered = FALSE

\* The context of a call: the one of the stream, or a new one if a key is given.
CallContext(ctx, lib, key, mode) == IF ctx # <<>> \/ key = 0 THEN ctx ELSE ContextNew(lib, key, mode)

\* A call with data.  Its result is 0 even when the chunk failed, and the
\* buffer that is sent holds then what it held before.
bctbx_aes_gcm_encryptFile ==
    /\ tag = <<>> /\ taken < FileUnits
    /\ \E n \in 1..(FileUnits - taken), key \in {0, file} :
          LET ctx == CallContext(send, library["sender"], key, "ENCRYPT")
              done == ProcessChunk(library["sender"], ctx[1], SubSeq(Content, taken + 1, taken + n))
          IN  /\ Aligned(n, FileUnits - taken) /\ ctx # <<>>
              /\ taken' = taken + n
              /\ \/ /\ send' = <<done.ctx>> /\ wire' = wire \o done.out
                    /\ UNCHANGED spoiled
                 \/ /\ send' = ctx /\ wire' = wire \o [i \in 1..n |-> M!Pad]
                    /\ spoiled' = TRUE
    /\ UNCHANGED <<library, file, recv, tag, read, plain, verdict, offered>>

\* Mutant: the pointer to the context is not reset.
encryptFile_finish_keeps ==
    /\ tag = <<>> /\ taken = FileUnits
    /\ \E key \in {0, file} :
          LET ctx == CallContext(send, library["sender"], key, "ENCRYPT")
          IN  /\ ctx # <<>>
              /\ tag' = Finish(library["sender"], ctx[1], <<>>).tag
              /\ send' = ctx
    /\ UNCHANGED <<library, file, recv, taken, wire, read, plain, verdict, spoiled, offered>>

\* The call without data, once all was sent: the tag is made and sent.
bctbx_aes_gcm_encryptFile_finish ==
    /\ tag = <<>> /\ taken = FileUnits
    /\ \E key \in {0, file} :
          LET ctx == CallContext(send, library["sender"], key, "ENCRYPT")
          IN  /\ ctx # <<>>
              /\ tag' = Finish(library["sender"], ctx[1], <<>>).tag
    /\ send' = <<>>
    /\ UNCHANGED <<library, file, recv, taken, wire, read, plain, verdict, spoiled, offered>>

\* A unit of the cipher text is changed on its way.
Corrupt ==
    /\ ~spoiled
    /\ \E i \in (read + 1)..Len(wire) : wire' = [wire EXCEPT ![i] = M!Pad]
    /\ spoiled' = TRUE
    /\ UNCHANGED <<library, file, send, recv, taken, tag, read, plain, verdict, offered>>

bctbx_aes_gcm_decryptFile ==
    /\ verdict = "none"
    /\ \E n \in 1..(Len(wire) - read), key \in {0, file} :
          LET ctx == CallContext(recv, library["receiver"], key, "DECRYPT")
              done == ProcessChunk(library["receiver"], ctx[1], SubSeq(wire, read + 1, read + n))
          IN  /\ Aligned(n, FileUnits - read) /\ ctx # <<>>
              /\ recv' = <<done.ctx>> /\ plain' = plain \o done.out /\ read' = read + n
    /\ UNCHANGED <<library, file, send, taken, wire, tag, verdict, spoiled, offered>>

\* The call without data: with the tag, or without one, as when the transfer
\* is cancelled.
bctbx_aes_gcm_decryptFile_finish ==
    /\ verdict = "none"
    /\ \E key \in {0, file}, t \in {<<>>, tag} :
          LET ctx == CallContext(recv, library["receiver"], key, "DECRYPT")
          IN  /\ ctx # <<>>
              /\ verdict' = Finish(library["receiver"], ctx[1], t).ret
              /\ offered' = (t # <<>>)
    /\ recv' = <<>>
    /\ UNCHANGED <<library, file, send, taken, wire, tag, read, plain, spoiled>>

\* The next file has another key; both contexts are the ones the calls left.
NextFile ==
    /\ tag # <<>> /\ verdict # "none" /\ file < Files
    /\ file' = file + 1
    /\ taken' = 0 /\ wire' = <<>> /\ tag' = <<>> /\ read' = 0 /\ plain' = <<>>
    /\ verdict' = "none" /\ spoiled' = FALSE /\ offered' = FALSE
    /\ UNCHANGED <<library, send, recv>>

Next == \/ bctbx_aes_gcm_encryptFile \/ bctbx_aes_gcm_encryptFile_finish \/ Corrupt
        \/ bctbx_aes_gcm_decryptFile \/ bctbx_aes_gcm_decryptFile_finish \/ NextFile

Spec == Init /\ [][Next]_vars
=============================================================================
