------------------------------ MODULE Backends ------------------------------
(***************************************************************************)
(* The signature back ends of src/src/pq_backends: ML-DSA-65 (libcrux),    *)
(* SLH-DSA-SHAKE-128f, whose sign consumes the encoded secret key it is    *)
(* given, and the scaffold for FN-DSA, which does not sign yet.            *)
(*                                                                         *)
(* The schemes themselves are external.  A key is the seed it was derived  *)
(* from, a signature what it was made of; Wiped stands for the encoded key *)
(* of zeros that zeroize_bytes leaves behind, which a back end may decode  *)
(* or refuse.                                                              *)
(***************************************************************************)
EXTENDS Integers, Sequences

CONSTANTS
  Seeds,      \* seeds that keys are derived from
  Messages,   \* messages
  Wiped,      \* the zeroised key
  MaxSigned   \* bound on the calls of sign with one key

ASSUME BackendsAssumption == Wiped \notin Seeds /\ MaxSigned \in Nat \ {0}

Schemes == {"ml_dsa", "slh_dsa", "fn_dsa"}
NoKey == <<"none">>

VARIABLES
  scheme,     \* the back end in use
  secretKey, publicKey,  \* the caller's key buffer, and the public key
  signatures, \* what sign has returned so far, in order
  refusals,   \* calls of sign that returned nothing
  accepted    \* the signatures and messages that verify said yes to

backendVars == <<scheme, secretKey, publicKey, signatures, refusals, accepted>>

\* Decoded keys; the context of an ML-DSA signature separates its uses.
Signature(sch, key, msg, ctx) == [scheme |-> sch, by |-> key, of |-> msg, ctx |-> ctx]

\* dsa_sign and dsa_verify.
dsa_sign(seed, msg, ctx) == Signature("ml_dsa", seed, msg, ctx)
dsa_verify(vk, msg, ctx, sig) == sig = Signature("ml_dsa", vk, msg, ctx)

BackendInit ==
  /\ scheme = "none" /\ secretKey = NoKey /\ publicKey = NoKey
  /\ signatures = << >> /\ refusals = 0 /\ accepted = {}

\* dsa_keygen, and derive_secret_key with public_key.
Keygen(sch, seed) ==
  /\ scheme = "none" /\ sch \in {"ml_dsa", "slh_dsa"}
  /\ scheme' = sch /\ secretKey' = <<seed>> /\ publicKey' = <<seed>>
  /\ UNCHANGED <<signatures, refusals, accepted>>

\* derive_secret_key of the scaffold returns no key.
KeygenDeferred ==
  /\ scheme = "none" /\ scheme' = "fn_dsa"
  /\ UNCHANGED <<secretKey, publicKey, signatures, refusals, accepted>>

\* Mutant of KeyAfterSign: the key is kept.
KeyAfterSignKept == secretKey

\* SLH-DSA wipes the encoded key on both paths; ML-DSA borrows it.
KeyAfterSign == IF scheme = "slh_dsa" THEN <<Wiped>> ELSE secretKey

SignOk(msg) ==
  /\ secretKey # NoKey
  /\ signatures' = Append(signatures, Signature(scheme, secretKey[1], msg, "ctx"))
  /\ secretKey' = KeyAfterSign
  /\ UNCHANGED <<scheme, publicKey, refusals, accepted>>

\* libcrux reports a failure, the key cannot be decoded, or there is no scheme yet.
SignFails ==
  /\ scheme # "none"
  /\ scheme = "slh_dsa" => secretKey = <<Wiped>>
  /\ refusals' = refusals + 1 /\ secretKey' = KeyAfterSign
  /\ UNCHANGED <<scheme, publicKey, signatures, accepted>>

\* verify of the scheme in use; the scaffold has none and always answers 0.
SchemeAccepts(sig, msg, ctx) ==
  /\ scheme # "fn_dsa" /\ publicKey = <<sig.by>>
  /\ sig = Signature(scheme, sig.by, msg, ctx)

\* A signature the caller made, or one that somebody else made with another key, for
\* another context or with another scheme.
Shown == {signatures[k] : k \in DOMAIN signatures} \cup
           {Signature(sch, k, m, c) : sch \in Schemes, k \in {Wiped} \cup Seeds, m \in Messages,
                                      c \in {"other"}}

SchemeVerify(sig, msg, ctx) ==
  /\ scheme # "none" /\ SchemeAccepts(sig, msg, ctx)
  /\ accepted' = accepted \cup {<<sig, msg>>}
  /\ UNCHANGED <<scheme, secretKey, publicKey, signatures, refusals>>

\* The caller drops its keys.
DropKeys ==
  /\ Len(signatures) + refusals = MaxSigned
  /\ scheme' = "none" /\ secretKey' = NoKey /\ publicKey' = NoKey
  /\ signatures' = << >> /\ refusals' = 0 /\ accepted' = {}

BackendNext ==
  \/ KeygenDeferred \/ \E sch \in Schemes, seed \in Seeds : Keygen(sch, seed)
  \/ Len(signatures) + refusals < MaxSigned /\ (SignFails \/ \E m \in Messages : SignOk(m))
  \/ DropKeys
  \/ \E sig \in Shown, m \in Messages : SchemeVerify(sig, m, "ctx")

BackendSpec == BackendInit /\ [][BackendNext]_backendVars

----------------------------------------------------------------------------
(* Properties                                                              *)

\* What verifies was signed, for that message, while the key was whole: a signature
\* that SLH-DSA makes with a key that an earlier sign has wiped, one for another
\* context or by another scheme, and whatever the scaffold is shown, are all refused.
VerifiedWasSigned ==
  \A a \in accepted :
    \E k \in DOMAIN signatures :
      signatures[k] = a[1] /\ a[1].of = a[2] /\ (scheme = "slh_dsa" => k = 1)
=============================================================================
