------------------------------ MODULE MCCrypto ------------------------------
(***************************************************************************)
(* The cryptographic wrappers, one part in each behaviour: the transfer of *)
(* an encrypted file, the wrapping of a key, the agreement on a secret,    *)
(* keys on elliptic curves, base64 and digests, and keys and certificates. *)
(***************************************************************************)
EXTENDS Naturals, Sequences, FiniteSets

CONSTANTS BlockUnits, FileUnits, Files, Keys, Sizes, Secrets, XAlgos, EdAlgos, Numbers, Bytes,
          Texts, Directories, PemLengths, FlagSets, SizeMax, MaxKeys, MaxChain

VARIABLES
    part,                                                           \* the part of this behaviour
    library, file, send, recv, taken, wire, tag, read, plain, verdict, spoiled, offered,
    size, key, aes, cipher, changed, unwrapped,
    backend, ctx, made, short, sent, current,
    ed, x, numbers, edPaired, xPaired, computed, signature, verified,
    sample,                                                         \* bytes, and characters cut off
    build,                                                          \* the library of certificates
    crt, pkey, pem, keys, flags, wanted, loaded, paired

\* A block of a text: a certificate, or with key 0 one that does not parse.
Block == [key : Nat, cn : STRING, alt : Seq(STRING), hash : STRING]

\* A block of the cipher and a file have a size, and what is wrapped or encoded
\* is not empty; a directory has two files.
ASSUME CryptoAssumption ==
    /\ BlockUnits \in Nat \ {0} /\ FileUnits \in Nat \ {0} /\ Files \in Nat
    /\ Sizes \subseteq Nat \ {0} /\ Bytes \subseteq Nat \ {0}
    /\ SizeMax \in Nat
    /\ \A text \in Texts : text \in Seq(Block)
    /\ \A d \in Directories : d \in Seq(Seq(Block)) /\ Len(d) = 2

\* Certificates of the texts: one with two names besides its common name, one
\* with none, and one signed with a hash that has no fingerprint.
Leaf == [key |-> 101, cn |-> "leaf", alt |-> <<"a", "b">>, hash |-> "SHA-256"]
Ca   == [key |-> 102, cn |-> "ca", alt |-> <<>>, hash |-> "SHA-384"]
Bad  == [key |-> 0, cn |-> "", alt |-> <<>>, hash |-> ""]
Old  == [key |-> 103, cn |-> "old", alt |-> <<>>, hash |-> "MD5"]

MCTexts == {<<Leaf>>, <<Old>>, <<Leaf, Ca>>, <<Bad, Ca>>, <<Bad>>}

MCDirectories == {<<<<Leaf>>, <<Ca>>>>, <<<<Ca>>, <<Bad>>>>, <<<<Bad>>, <<Ca>>>>}

MCFlagSets == {{4}, {5, 10}, {17, 18}, 0..31}

F == INSTANCE AesGcmFile
W == INSTANCE KeyWrap WITH plain <- unwrapped
D == INSTANCE DhmAgreement
E == INSTANCE EccKeys WITH made <- numbers, current <- computed
CM == INSTANCE CodecMbedtls
CO == INSTANCE CodecOpenssl
M == INSTANCE CertMbedtls
O == INSTANCE CertOpenssl

fileVars == <<library, file, send, recv, taken, wire, tag, read, plain, verdict, spoiled, offered>>
wrapVars == <<size, key, aes, cipher, changed, unwrapped>>
dhmVars == <<backend, ctx, made, short, sent, current>>
eccVars == <<ed, x, numbers, edPaired, xPaired, computed, signature, verified>>
certVars == <<build, crt, pkey, pem, keys, flags, wanted, loaded, paired>>
vars == <<part, fileVars, wrapVars, dhmVars, eccVars, sample, certVars>>

\* The parts that are not of a behaviour stay in one of their initial states.
Init ==
    /\ part \in {"file", "wrap", "agree", "curves", "codec", "certificates"}
    /\ F!Init /\ W!Init /\ D!Init /\ E!Init /\ M!Init
    /\ build \in IF part = "certificates" THEN {"mbedtls", "openssl"} ELSE {"mbedtls"}
    /\ part # "file" => library = [e \in DOMAIN library |-> "mbedtls"]
    /\ part # "wrap" => key = CHOOSE k \in Keys : TRUE
    /\ part # "agree" => backend = [p \in DOMAIN backend |-> "mbedtls"] /\ short = {}
    /\ sample = [bytes |-> 1, cut |-> 0]

\* The samples of the codecs, one after the other.
NextSample ==
    \E n \in Bytes, c \in 0..2 : sample' = [bytes |-> n, cut |-> c]

Certificates ==
    \/ build = "mbedtls" /\ M!Next /\ UNCHANGED build
    \/ build = "openssl" /\ O!Next /\ UNCHANGED <<build, flags, wanted>>

Next ==
    /\ UNCHANGED part
    /\ \/ part = "file" /\ F!Next /\ UNCHANGED <<wrapVars, dhmVars, eccVars, sample, certVars>>
       \/ part = "wrap" /\ W!Next /\ UNCHANGED <<fileVars, dhmVars, eccVars, sample, certVars>>
       \/ part = "agree" /\ D!Next /\ UNCHANGED <<fileVars, wrapVars, eccVars, sample, certVars>>
       \/ part = "curves" /\ E!Next /\ UNCHANGED <<fileVars, wrapVars, dhmVars, sample, certVars>>
       \/ part = "codec" /\ NextSample /\ UNCHANGED <<fileVars, wrapVars, dhmVars, eccVars, certVars>>
       \/ part = "certificates" /\ Certificates /\ UNCHANGED <<fileVars, wrapVars, dhmVars, eccVars, sample>>

Spec == Init /\ [][Next]_vars

-----------------------------------------------------------------------------

\* crypto.c: a receiver that read to the end is told 0 only for the file that
\* was sent, whatever chunks each side used and whatever happened to the files
\* before, and, if it gave the tag, always for a file that did not change; a
\* context left by a call is the one of the stream in progress; and one call
\* of either library for the whole text (crypto.cc) gives what the stream gave.
FileTransfer ==
    /\ verdict = "0" /\ read = FileUnits => plain = F!Content
    /\ verdict \notin {"none", "0"} /\ read = FileUnits /\ offered => spoiled
    /\ \A c \in {send, recv} : c # <<>> => c[1].key = file
    /\ taken = FileUnits /\ ~spoiled =>
          LET whole(lib) == F!AEADEncrypt(lib, file, 32, F!Content, "")
          IN  /\ \A lib \in {"mbedtls", "openssl"} : wire = whole(lib)[1]
              /\ tag # <<>> => \A lib \in {"mbedtls", "openssl"} :
                    /\ tag = whole(lib)[2]
                    /\ F!AEADDecrypt(lib, file, 32, wire, "", tag) = F!Content
    /\ spoiled /\ tag # <<>> /\ taken = FileUnits /\ read = 0 =>
          \A lib \in {"mbedtls", "openssl"} : F!AEADDecrypt(lib, file, 32, wire, "", tag) = "thrown"

\* AES_key_unwrap: what is accepted is the text that was wrapped, under the
\* key it was wrapped with; and a text that did not change is accepted, by
\* mbedtls.cc as long as its size is no multiple of 8.
UnwrapGivesWrapped ==
    unwrapped.by # "none" =>
        /\ unwrapped.ok => /\ unwrapped.key = key /\ ~changed /\ unwrapped.size = size
                           /\ unwrapped.text = [i \in 1..W!Blocks(size) |-> W!Text(i)]
        /\ unwrapped.key = key /\ ~changed /\ (unwrapped.by = "openssl" \/ size % 8 # 0)
              => unwrapped.ok

\* crypto.hh l. 348: "AES Key Unwrap with Padding Algorithm described by the
\* RFC 5649 Section 4.2", "Used to decrypt the AES keys".
WrappedKeysUnwrap ==
    unwrapped.by # "none" /\ unwrapped.key = key /\ ~changed => unwrapped.ok

\* bctbx_DHMComputeSecret: two parties that computed the key from the value
\* the other one has now, after any earlier exchanges, refused values and
\* failed generations, have the same result, in the same bytes unless it
\* starts with a zero byte and only one of them uses openssl.c.
SameSecret ==
    LET a == ctx["alice"]  b == ctx["bob"]
    IN  current["alice"] /\ current["bob"] /\ a.peer = b.self /\ b.peer = a.self
            => /\ a.key.from = b.key.from /\ a.key.from = {a.self, b.self}
               /\ (a.key.from \in short /\ backend["alice"] # backend["bob"]) \/ a.key = b.key

\* ecc.cc: parties that computed the shared secret with each other's public
\* keys, each made or converted from its own secret key, have the same one; a
\* signature verifies with the public key of its signer, for its message only.
CurveKeysAgree ==
    /\ LET a == x["alice"]  b == x["bob"]
       IN  /\ \A p \in E!Party : computed[p] /\ xPaired[p]
           /\ a.peerPublic = b.selfPublic /\ b.peerPublic = a.selfPublic
           => a.sharedSecret = b.sharedSecret /\ a.sharedSecret = {a.selfPublic, b.selfPublic}
    /\ verified.ret = "SUCCESS" => /\ verified.signature.key = verified.public
                                   /\ verified.signature.message = verified.message
    /\ verified.ret = "FAILED" => \/ verified.signature.length = 0
                                  \/ verified.signature.key # verified.public
                                  \/ verified.signature.message # verified.message

\* Base64 and digests: what either library encodes, with any '=' of its end
\* cut off, either library decodes to the bytes there were, into a buffer of
\* the size it asked for; and for a key that is not NULL the two libraries
\* copy the same bytes of the same hash, up to the size of the hash.
CodecsAgree ==
    LET Cut(t) == LET c == IF sample.cut > t.eq THEN t.eq ELSE sample.cut
                  IN  [chars |-> t.chars - c, eq |-> t.eq - c]
        n == sample.bytes
    IN  /\ \A t \in {Cut(CM!encodeBase64(n)), Cut(CO!encodeBase64(n))} :
              /\ CM!decodeBase64(t) = n /\ CO!decodeBase64(t) = n
              /\ CM!bctbx_base64_decode(t, n) = [ret |-> "0", length |-> n]
        /\ CO!bctbx_base64_encode(n, FALSE, 0).length + 1 = CM!bctbx_base64_encode(n, 0).length
        /\ \A length \in {n, 20, 32, 48, 64, 65} :
              /\ CM!bctbx_hmacSha1("k", length) = CO!bctbx_hmac("SHA1", "k", length)
              /\ CM!bctbx_hmacSha256("k", length) = CO!bctbx_hmac("SHA256", "k", length)
              /\ CM!bctbx_hmacSha384("k", length) = CO!bctbx_hmac("SHA384", "k", length)
              /\ CM!bctbx_hmacSha512("k", length) = CO!bctbx_hmac("SHA512", "k", length)
              /\ CM!bctbx_sha256(length) = CO!bctbx_digest("SHA256", length)
              /\ CM!bctbx_sha384(length) = CO!bctbx_digest("SHA384", length)
              /\ CM!bctbx_sha512(length) = CO!bctbx_digest("SHA512", length)
        /\ \A alg \in {"SHA256", "SHA384", "SHA512"}, blocks \in {1, 255} :
              CM!HKDF(alg, blocks * CM!HashSize[alg]) = CO!HKDF(alg, blocks * CM!HashSize[alg])

\* bctbx_x509_certificate_generate_selfsigned: however it ended, and whatever
\* is parsed later, the first certificate has the key of the key object made
\* with it; and the text in the buffer of the caller, which may be older than
\* both objects, reads back as a key and a certificate of that key.
GeneratedPair ==
    /\ paired => crt.live /\ pkey.live /\ Head(crt.chain).key = pkey.key
    /\ pem # <<>> => Len(pem[2]) = 1 /\ Head(pem[2]).key = pem[1]

\* The certificates of every text a parse function accepted are in the chain,
\* in that order, whatever other texts failed in part before and after.
LoadedKept ==
    \E at \in [DOMAIN loaded -> DOMAIN crt.chain] :
        \A i, j \in DOMAIN loaded : /\ crt.chain[at[i]] = loaded[i]
                                   /\ i < j => at[i] < at[j]

\* Of a chain of one certificate signed with a hash of the SHA family the two
\* libraries say the same: its length, its hash, its fingerprint, and for every
\* size of buffer but 0 whether it is large enough.  At 0 they differ: openssl.c
\* refuses, and in mbedtls.c (l. 238-239) buffer_length - 1 is the largest
\* size_t, so any certificate below that is copied.
BackendsAgree ==
    Len(crt.chain) = 1 /\ crt.chain[1].hash \in DOMAIN M!HashLengths =>
        LET c == crt.chain
        IN  /\ M!bctbx_x509_certificate_get_der_length(c) = O!bctbx_x509_certificate_get_der_length(c)
            /\ \A n \in 1..SizeMax : M!bctbx_x509_certificate_get_der(c, n)
                                         = O!bctbx_x509_certificate_get_der(c, n)
            /\ O!bctbx_x509_certificate_get_der(c, 0) = "OUTPUT_BUFFER_TOO_SMALL"
            /\ M!bctbx_x509_certificate_get_der_length(c) <= SizeMax =>
                  M!bctbx_x509_certificate_get_der(c, 0) = "0"
            /\ M!bctbx_x509_certificate_get_signature_hash_function(c)
                   = O!bctbx_x509_certificate_get_signature_hash_function(c)
            /\ M!bctbx_x509_certificates_chain_get_pem(c) = O!bctbx_x509_certificates_chain_get_pem(c)
            /\ \A n \in {65, 66, 91, 92, 103, 104, 151, 152, 199, 200}, h \in {"UNDEFINED", "SHA-1", "SHA-512"} :
                  M!bctbx_x509_certificate_get_fingerprint(c, n, h)
                      = O!bctbx_x509_certificate_get_fingerprint(c, n, h)

\* A verification callback reads back the flags it set and did not clear:
\* the two numberings of the flags are not confused.
FlagsFollow == M!bctbx_x509_certificate_remap_flag(flags) = wanted
=============================================================================
