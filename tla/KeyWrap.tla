------------------------------- MODULE KeyWrap -------------------------------
(***************************************************************************)
(* AES key wrap with padding: the loops of mbedtls.cc, and what openssl.cc *)
(* has the library do.  AES is an ideal cipher: encrypting a pair of half  *)
(* blocks under a key for the first time gives a number never seen before, *)
(* of which "hi" and "lo" are the halves.  The left half A also carries    *)
(* the counters it was combined with by exclusive or, as a set.            *)
(***************************************************************************)
EXTENDS Integers, Sequences, FiniteSetsExt

CONSTANTS Keys,         \* key encryption keys
          Sizes         \* sizes in bytes of the texts that are wrapped

VARIABLES
    size,       \* size of the text that was wrapped, and
    key,        \* the key it was wrapped with
    aes,        \* pairs encrypted so far: the n-th has number n
    cipher,     \* the wrapped text, an initial half and half blocks; <<>> before
    changed,    \* TRUE once the wrapped text is no longer what was written
    plain       \* what unwrapping gave: by whose code, with which key, and the text

vars == <<size, key, aes, cipher, changed, plain>>

\* Half blocks: one of the text, or a half of a number.
Half(v, h) == [of |-> v, half |-> h, mask |-> {}]

Text(i) == Half(i, "text")

\* The initial value of A: the constant of RFC 5649 and the size of the text.
Header(m) == Half(m, "A65959A6")

Xor(a, t) == [a EXCEPT !.mask = SymDiff(@, {t})]

AesEncrypt(table, k, a, r) == [table |-> Append(table, <<k, a, r>>),
                               a |-> Half(Len(table) + 1, "hi"), r |-> Half(Len(table) + 1, "lo")]

\* Two halves of one number give the pair back; any others, nothing that has a meaning.
AesDecrypt(table, k, a, r) ==
    IF a.half = "hi" /\ r.half = "lo" /\ a.of = r.of /\ a.mask = {} /\ table[a.of][1] = k
    THEN [a |-> table[a.of][2], r |-> table[a.of][3]]
    ELSE [a |-> Half(0, "noise"), r |-> Half(0, "noise")]

Blocks(m) == (m + 7) \div 8

\* Step s of the two loops of AES_key_wrap, from 1 to 6 n: A and R[i] are
\* encrypted, then A is combined with the counter.
WrapStep(st, s, n, k) ==
    LET i == ((s - 1) % n) + 1
        e == AesEncrypt(st.table, k, st.a, st.r[i])
    IN  [table |-> e.table, a |-> Xor(e.a, s), r |-> [st.r EXCEPT ![i] = e.r]]

\* The registers after the steps from 1 on.
Wrapped(st, n, k) ==
    LET after[s \in 0..(6 * n)] == IF s = 0 THEN st ELSE WrapStep(after[s - 1], s, n, k)
    IN  after[6 * n]

\* A text of one block is encrypted once.
AES_key_wrap ==
    /\ cipher = <<>>
    /\ \E m \in Sizes, k \in Keys :
          LET n == Blocks(m)
              st == [table |-> aes, a |-> Header(m), r |-> [i \in 1..n |-> Text(i)]]
              one == AesEncrypt(aes, k, Header(m), Text(1))
              end == Wrapped(st, n, k)
          IN  /\ size' = m /\ key' = k
              /\ aes' = IF n = 1 THEN one.table ELSE end.table
              /\ cipher' = IF n = 1 THEN <<one.a, one.r>> ELSE <<end.a>> \o end.r
    /\ UNCHANGED <<changed, plain>>

\* On its way a wrapped text loses its last half block or two of them change places.
Change ==
    /\ cipher # <<>> /\ ~changed /\ plain.by = "none"
    /\ \/ Len(cipher) > 2 /\ cipher' = SubSeq(cipher, 1, Len(cipher) - 1)
       \/ \E i, j \in DOMAIN cipher :
             i < j /\ cipher' = [cipher EXCEPT ![i] = cipher[j], ![j] = cipher[i]]
    /\ changed' = TRUE
    /\ UNCHANGED <<size, key, aes, plain>>

UnwrapStep(st, s, n, k) ==
    LET i == ((s - 1) % n) + 1
        d == AesDecrypt(aes, k, Xor(st.a, s), st.r[i])
    IN  [a |-> d.a, r |-> [st.r EXCEPT ![i] = d.r]]

\* The same steps from the last one back.
Unwrapped(st, n, k) ==
    LET before[s \in 1..(6 * n + 1)] ==
            IF s > 6 * n THEN st ELSE UnwrapStep(before[s + 1], s, n, k)
    IN  before[1]

\* The state of the registers after the loops of AES_key_unwrap.
Registers(k) ==
    LET n == Len(cipher) - 1
        d == AesDecrypt(aes, k, cipher[1], cipher[2])
    IN  IF n = 1 THEN [a |-> d.a, r |-> <<d.r>>]
        ELSE Unwrapped([a |-> cipher[1], r |-> Tail(cipher)], n, k)

\* Mutant: one byte in the last block is not enough.
SizeAccepted_two_bytes(m, n) == ~(m <= 8 * (n - 1) + 1 \/ 8 * n <= m)

\* The sizes the check at mbedtls.cc l. 459 lets through: m <= 8 (n - 1) and
\* 8 n <= m are refused.
SizeAccepted(m, n) == ~(m <= 8 * (n - 1) \/ 8 * n <= m)

\* The sizes RFC 5649 gives n blocks, which EVP_CipherFinal_ex accepts.
SizeOfRfc(m, n) == 8 * (n - 1) < m /\ m <= 8 * n

NotYet == [by |-> "none", key |-> key, ok |-> FALSE, size |-> 0, text |-> <<>>]

Unwrap(by, Accepts(_, _), k) ==
    LET st == Registers(k)
        ok == st.a.half = "A65959A6" /\ st.a.mask = {} /\ Accepts(st.a.of, Len(cipher) - 1)
    IN  [by |-> by, key |-> k, ok |-> ok,
         size |-> IF ok THEN st.a.of ELSE 0, text |-> IF ok THEN st.r ELSE <<>>]

AES_key_unwrap ==
    /\ cipher # <<>> /\ plain.by = "none"
    /\ \E k \in Keys : plain' = Unwrap("mbedtls", SizeAccepted, k)
    /\ UNCHANGED <<size, key, aes, cipher, changed>>

\* openssl.cc wraps the same way (AES_key_wrap) and unwraps by the RFC.
evp_aes_key_wrap ==
    /\ cipher # <<>> /\ plain.by = "none"
    /\ \E k \in Keys : plain' = Unwrap("openssl", SizeOfRfc, k)
    /\ UNCHANGED <<size, key, aes, cipher, changed>>

Init == /\ size = 0 /\ key \in Keys /\ aes = <<>> /\ cipher = <<>>
        /\ changed = FALSE /\ plain = NotYet

Next == AES_key_wrap \/ Change \/ AES_key_unwrap \/ evp_aes_key_wrap

Spec == Init /\ [][Next]_vars
=============================================================================
