----------------------------- MODULE CliProofs ------------------------------
(***************************************************************************)
(* Theorems about Sealing, Stream and Cli: commit and reveal, blinding,    *)
(* the masking hasher and the reader for any claims and any number of      *)
(* calls in any order; what an Ok verdict covers and the chunk buffer, for *)
(* every file system, chunk size and cut of the reads; and the command     *)
(* line for any arguments, any files and any sequence of invocations.      *)
(***************************************************************************)
EXTENDS Sealing, Cli, SequenceTheorems, FiniteSetTheorems, WellFoundedInduction, TLAPS

(* Commit and reveal                                                       *)

Tokens == [digest : Seq(Nat), claim : Claims, nonce : Nat, kept : BOOLEAN]
Reveals == [digest : Seq(Nat), claim : Claims]

Typed == drawn \in Nat /\ tokens \in Seq(Tokens) /\ reveals \in Seq(Reveals)

\* A token is the digest of its claim and of a draw that was made for it alone.
Issued ==
  /\ \A k \in DOMAIN tokens :
       /\ tokens[k].digest = Digest(tokens[k].nonce, tokens[k].claim)
       /\ Nonce(0) < tokens[k].nonce /\ tokens[k].nonce <= Nonce(drawn)
  /\ \A j, k \in DOMAIN tokens : j # k => tokens[j].nonce # tokens[k].nonce

\* The inductive invariant.
IInv == Typed /\ Issued /\ RevealedAsCommitted

----------------------------------------------------------------------------
\* The nonce has a fixed length: a digest determines nonce and claim.
LEMMA DigestTells ==
  ASSUME NEW n \in Nat, NEW m \in Nat, NEW c \in Claims, NEW d \in Claims,
         Digest(n, c) = Digest(m, d)
  PROVE  n = m /\ c = d
<1>1. c \in Seq(Nat) /\ d \in Seq(Nat)
  BY SealingAssumption
<1>2. <<n>> \in Seq(Nat) /\ <<m>> \in Seq(Nat)
  OBVIOUS
<1>3. <<n>> \o c = <<m>> \o d
  BY DEF Digest
<1>4. (<<n>> \o c)[1] = n /\ (<<m>> \o d)[1] = m
  BY <1>1
<1>5. n = m
  BY <1>3, <1>4
<1>6. <<n>> \o c = <<n>> \o d
  BY <1>3, <1>5
<1>7. c = d
  <2>1. Len(<<n>> \o c) = 1 + Len(c) /\ Len(<<n>> \o d) = 1 + Len(d)
    BY <1>1, <1>2
  <2>2. Len(c) = Len(d) /\ Len(c) \in Nat
    BY <1>1, <1>6, <2>1
  <2>3. ASSUME NEW i \in 1 .. Len(c) PROVE c[i] = d[i]
    <3>1. (<<n>> \o c)[i + 1] = c[i] /\ (<<n>> \o d)[i + 1] = d[i]
      BY <1>1, <2>2, SMTT(30)
    <3> QED BY <1>6, <3>1
  <2> QED BY <1>1, <2>2, <2>3, SeqEqual
<1> QED BY <1>5, <1>7

LEMMA DigestTyped ==
  ASSUME NEW n \in Nat, NEW c \in Claims
  PROVE  Digest(n, c) \in Seq(Nat)
<1>1. c \in Seq(Nat)
  BY SealingAssumption
<1> QED BY <1>1 DEF Digest

LEMMA TokenTyped ==
  ASSUME Typed, NEW k \in DOMAIN tokens
  PROVE  /\ tokens[k] \in Tokens /\ tokens[k].nonce \in Nat
         /\ tokens[k].claim \in Claims /\ tokens[k].digest \in Seq(Nat)
<1>1. tokens[k] \in Tokens
  BY DEF Typed
<1> QED BY <1>1 DEF Tokens

LEMMA CommitStep ==
  ASSUME IInv, NEW c \in Claims, NEW kept \in BOOLEAN, Commit(c, kept)
  PROVE  IInv'
<1> DEFINE n == Nonce(drawn + 1)
           t == [digest |-> Digest(n, c), claim |-> c, nonce |-> n, kept |-> kept]
<1>1. drawn \in Nat /\ drawn' = drawn + 1 /\ n \in Nat /\ tokens \in Seq(Tokens)
  BY DEF IInv, Typed, Commit, Nonce
<1>2. tokens' = Append(tokens, t) /\ reveals' = reveals
  BY <1>1 DEF Commit, Nonce
<1>3. t \in Tokens
  BY <1>1, DigestTyped DEF Tokens
<1>4. t.digest = Digest(t.nonce, t.claim) /\ t.nonce = n
  OBVIOUS
<1>5. Nonce(0) < n /\ n = Nonce(drawn') /\ Nonce(drawn) < n
  BY <1>1 DEF Nonce
<1> HIDE DEF t, n
<1>6. /\ tokens' \in Seq(Tokens) /\ DOMAIN tokens' = DOMAIN tokens \cup {Len(tokens) + 1}
      /\ tokens'[Len(tokens) + 1] = t
      /\ \A k \in DOMAIN tokens : tokens'[k] = tokens[k] /\ k # Len(tokens) + 1
  BY <1>1, <1>2, <1>3
<1>7. Typed'
  BY <1>1, <1>2, <1>6 DEF IInv, Typed
<1>8. ASSUME NEW k \in DOMAIN tokens
      PROVE  /\ tokens[k].nonce \in Nat /\ tokens[k].nonce # n
             /\ Nonce(0) < tokens[k].nonce /\ tokens[k].nonce <= Nonce(drawn')
             /\ tokens[k].digest = Digest(tokens[k].nonce, tokens[k].claim)
  <2>1. tokens[k].nonce \in Nat
    BY TokenTyped DEF IInv
  <2>2. /\ Nonce(0) < tokens[k].nonce /\ tokens[k].nonce <= Nonce(drawn)
        /\ tokens[k].digest = Digest(tokens[k].nonce, tokens[k].claim)
    BY DEF IInv, Issued
  <2>3. Nonce(drawn) \in Nat
    BY <1>1 DEF Nonce
  <2> QED BY <1>1, <1>5, <2>1, <2>2, <2>3
<1>9. ASSUME NEW k \in DOMAIN tokens'
      PROVE  /\ tokens'[k].digest = Digest(tokens'[k].nonce, tokens'[k].claim)
             /\ Nonce(0) < tokens'[k].nonce /\ tokens'[k].nonce <= Nonce(drawn')
  <2>1. CASE k \in DOMAIN tokens
    BY <1>6, <1>8, <2>1
  <2>2. CASE k = Len(tokens) + 1
    BY <1>1, <1>4, <1>5, <1>6, <2>2
  <2> QED BY <1>6, <2>1, <2>2
<1>10. ASSUME NEW j \in DOMAIN tokens', NEW k \in DOMAIN tokens', j # k
       PROVE  tokens'[j].nonce # tokens'[k].nonce
  <2>1. CASE j \in DOMAIN tokens /\ k \in DOMAIN tokens
    BY <1>6, <1>10, <2>1 DEF IInv, Issued
  <2>2. CASE j = Len(tokens) + 1 \/ k = Len(tokens) + 1
    BY <1>4, <1>6, <1>8, <1>10, <2>2
  <2> QED BY <1>6, <2>1, <2>2
<1>11. Issued'
  BY <1>9, <1>10 DEF Issued, Digest, Nonce
<1>12. RevealedAsCommitted'
  BY <1>2, <1>6 DEF IInv, RevealedAsCommitted
<1> QED BY <1>7, <1>11, <1>12 DEF IInv

LEMMA RevealStep ==
  ASSUME IInv, NEW k \in DOMAIN tokens, NEW nonce \in Known, NEW c \in Claims,
         Reveal(k, nonce, c)
  PROVE  IInv'
<1> DEFINE r == [digest |-> tokens[k].digest, claim |-> c]
<1>1. drawn' = drawn /\ tokens' = tokens /\ tokens \in Seq(Tokens) /\ drawn \in Nat
  BY DEF Reveal, IInv, Typed
<1>2. Issued'
  BY <1>1 DEF IInv, Issued
<1>3. CASE UNCHANGED reveals
  BY <1>1, <1>2, <1>3 DEF IInv, Typed, RevealedAsCommitted
<1>4. CASE Digest(nonce, c) = tokens[k].digest /\ reveals' = Append(reveals, r)
  <2>1. tokens[k] \in Tokens /\ tokens[k].digest = Digest(tokens[k].nonce, tokens[k].claim)
    BY <1>1 DEF IInv, Issued
  <2>2. nonce \in Nat
    <3>1. \A j \in DOMAIN tokens : tokens[j].nonce \in Nat
      BY TokenTyped DEF IInv
    <3>2. Nonce(0) \in Nat
      BY DEF Nonce
    <3> QED BY <3>1, <3>2 DEF Known
  <2>3. nonce = tokens[k].nonce /\ c = tokens[k].claim
    BY <1>4, <2>1, <2>2, DigestTells DEF Tokens
  <2>4. nonce # Nonce(0)
    BY <2>2, <2>3 DEF IInv, Issued, Nonce
  <2>5. PICK j \in DOMAIN tokens : tokens[j].kept /\ tokens[j].nonce = nonce
    BY <2>4 DEF Known
  <2>6. tokens[k].kept
    BY <2>3, <2>5 DEF IInv, Issued
  <2>7. r \in Reveals /\ r.claim = c /\ r.digest = tokens[k].digest
    BY <2>1 DEF Reveals, Tokens
  <2>8. reveals \in Seq(Reveals)
    BY DEF IInv, Typed
  <2> HIDE DEF r
  <2>9. /\ reveals' \in Seq(Reveals) /\ DOMAIN reveals' = DOMAIN reveals \cup {Len(reveals) + 1}
        /\ reveals'[Len(reveals) + 1] = r
        /\ \A i \in DOMAIN reveals : reveals'[i] = reveals[i]
    BY <1>4, <2>7, <2>8
  <2>10. RevealedAsCommitted'
    <3>1. ASSUME NEW i \in DOMAIN reveals'
          PROVE  \E h \in DOMAIN tokens' : /\ tokens'[h].kept
                                           /\ tokens'[h].claim = reveals'[i].claim
                                           /\ tokens'[h].digest = reveals'[i].digest
      <4>1. CASE i \in DOMAIN reveals
        BY <1>1, <2>9, <4>1 DEF IInv, RevealedAsCommitted
      <4>2. CASE i = Len(reveals) + 1
        BY <1>1, <2>3, <2>6, <2>7, <2>9, <4>2
      <4> QED BY <2>9, <4>1, <4>2
    <3> QED BY <3>1 DEF RevealedAsCommitted
  <2> QED BY <1>1, <1>2, <2>9, <2>10 DEF IInv, Typed
<1> QED BY <1>3, <1>4 DEF Reveal

\* The other calls leave the tokens alone, or start over.
LEMMA OtherStep ==
  ASSUME IInv, drawn' \in Nat, drawn' >= drawn, UNCHANGED <<tokens, reveals>>
  PROVE  IInv'
<1>1. ASSUME NEW k \in DOMAIN tokens PROVE tokens[k].nonce <= Nonce(drawn')
  <2>1. tokens[k].nonce \in Nat /\ drawn \in Nat /\ tokens[k].nonce <= Nonce(drawn)
    <3>1. tokens[k].nonce \in Nat
      BY TokenTyped DEF IInv
    <3>2. tokens[k].nonce <= Nonce(drawn)
      BY DEF IInv, Issued
    <3> QED BY <3>1, <3>2 DEF IInv, Typed
  <2> QED BY <2>1 DEF Nonce
<1>2. Issued'
  BY <1>1 DEF IInv, Issued, Digest, Nonce
<1> QED BY <1>2 DEF IInv, Typed, RevealedAsCommitted

LEMMA ForgetStep == ASSUME IInv, Forget PROVE IInv'
<1>1. drawn' = 0 /\ tokens' = << >> /\ reveals' = << >>
  BY DEF Forget
<1>2. \A S : << >> \in Seq(S) /\ DOMAIN << >> = {}
  OBVIOUS
<1> QED BY <1>1, <1>2 DEF IInv, Typed, Issued, RevealedAsCommitted

LEMMA NextStep == IInv /\ [SealingNext]_sealingVars => IInv'
<1> SUFFICES ASSUME IInv, [SealingNext]_sealingVars PROVE IInv'
  OBVIOUS
<1>0. drawn \in Nat /\ drawn + 1 \in Nat /\ drawn <= drawn + 1 /\ drawn <= drawn
  BY DEF IInv, Typed
<1>1. CASE CommitReveal
  <2>1. CASE DrawFails
    BY <1>0, <2>1, OtherStep DEF DrawFails
  <2> QED BY <1>1, <2>1, CommitStep, RevealStep DEF CommitReveal
<1>2. ASSUME NEW c \in Claims, NEW fresh \in BOOLEAN, Blind(c, fresh) PROVE IInv'
  BY <1>0, <1>2, OtherStep DEF Blind
<1>3. CASE NewHasher
  BY <1>0, <1>3, OtherStep DEF NewHasher
<1>4. CASE ct_finalize
  BY <1>0, <1>4, OtherStep DEF ct_finalize
<1>5. ASSUME NEW len \in DataLens, ct_update(len) \/ update_public(len) \/ read(len) PROVE IInv'
  BY <1>0, <1>5, OtherStep DEF ct_update, update_public, read
<1>6. CASE UNCHANGED sealingVars
  BY <1>0, <1>6, OtherStep DEF sealingVars
<1> QED BY <1>1, <1>2, <1>3, <1>4, <1>5, <1>6, ForgetStep DEF SealingNext, Blinding, Hashing

----------------------------------------------------------------------------
\* Every token is the digest of a nonce of its own, and every reveal that ended in a
\* verdict opened one.
THEOREM Invariance == SealingSpec => []IInv
<1>1. SealingInit => IInv
  <2>1. \A S : << >> \in Seq(S) /\ DOMAIN << >> = {}
    OBVIOUS
  <2> QED BY <2>1 DEF SealingInit, IInv, Typed, Issued, RevealedAsCommitted
<1> QED BY <1>1, NextStep, PTL DEF SealingSpec

\* Binding (commit_reveal.rs:76-152): no token is revealed as another claim, with whatever
\* nonce and however often, and no two tokens are equal.
THEOREM Binding == SealingSpec => []TokensBind
<1>1. IInv => TokensBind
  <2> SUFFICES ASSUME IInv PROVE TokensDiffer
    BY DEF IInv, TokensBind
  <2>1. ASSUME NEW j \in DOMAIN tokens, NEW k \in DOMAIN tokens, j # k
        PROVE  tokens[j].digest # tokens[k].digest
    <3>1. tokens[j] \in Tokens /\ tokens[k] \in Tokens
      BY DEF IInv, Typed
    <3>2. /\ tokens[j].digest = Digest(tokens[j].nonce, tokens[j].claim)
          /\ tokens[k].digest = Digest(tokens[k].nonce, tokens[k].claim)
          /\ tokens[j].nonce # tokens[k].nonce
      BY <2>1 DEF IInv, Issued
    <3> QED BY <3>1, <3>2, DigestTells DEF Tokens
  <2> QED BY <2>1 DEF TokensDiffer
<1> QED BY <1>1, Invariance, PTL

----------------------------------------------------------------------------
(* Lists, and induction                                                    *)

\* A sequence, whatever it is of.
IsList(s) == s \in Seq({s[k] : k \in DOMAIN s})

LEMMA ListFacts ==
  ASSUME NEW s, IsList(s)
  PROVE  Len(s) \in Nat /\ DOMAIN s = 1 .. Len(s)
<1>1. s \in Seq({s[k] : k \in DOMAIN s})
  BY DEF IsList
<1> QED BY <1>1

LEMMA ListMade ==
  ASSUME NEW m \in Nat, NEW f, f = [k \in 1 .. m |-> f[k]]
  PROVE  IsList(f) /\ Len(f) = m
<1>1. DOMAIN f = 1 .. m
  OBVIOUS
<1>2. f \in Seq({f[k] : k \in DOMAIN f})
  BY <1>1
<1> QED BY <1>1, <1>2 DEF IsList

LEMMA ListAppend ==
  ASSUME NEW s, IsList(s), NEW e
  PROVE  /\ IsList(Append(s, e)) /\ Len(Append(s, e)) = Len(s) + 1
         /\ Append(s, e)[Len(s) + 1] = e
         /\ \A k \in 1 .. Len(s) : Append(s, e)[k] = s[k]
<1> DEFINE S == {s[k] : k \in DOMAIN s} \cup {e}
<1>1. s \in Seq(S)
  BY SeqMonotonic DEF IsList
<1>2. Append(s, e) \in Seq(S) /\ e \in S
  BY <1>1
<1> HIDE DEF S
<1>3. /\ Len(Append(s, e)) = Len(s) + 1 /\ Append(s, e)[Len(s) + 1] = e
      /\ \A k \in 1 .. Len(s) : Append(s, e)[k] = s[k]
  BY <1>1, <1>2, AppendProperties
<1>4. Append(s, e) = [k \in 1 .. Len(s) + 1 |-> Append(s, e)[k]]
  <2>1. Append(s, e) \in [1 .. Len(Append(s, e)) -> S]
    BY <1>2, LenProperties
  <2> QED BY <2>1, <1>3
<1>5. Len(s) + 1 \in Nat
  BY <1>1
<1> QED BY <1>3, <1>4, <1>5, ListMade

LEMMA Least ==
  ASSUME NEW T \in SUBSET Nat, T # {}
  PROVE  \E x \in T : \A y \in T : x <= y
<1> DEFINE R == {p \in Nat \X Nat : p[1] < p[2]}
<1>1. IsWellFoundedOn(R, Nat)
  BY NatLessThanWellFounded DEF OpToRel
<1> HIDE DEF R
<1>2. PICK x \in T : \A y \in T : ~(<<y, x>> \in R)
  BY <1>1, WFMin
<1>3. ASSUME NEW y \in T PROVE x <= y
  <2>1. y \in Nat /\ x \in Nat
    OBVIOUS
  <2>2. y < x => <<y, x>> \in R
    BY <2>1 DEF R
  <2> QED BY <1>2, <2>1, <2>2
<1> QED BY <1>3

LEMMA Induction ==
  ASSUME NEW S, 0 \in S, \A k \in Nat : k \in S => k + 1 \in S
  PROVE  \A k \in Nat : k \in S
<1> DEFINE T == {k \in Nat : k \notin S}
<1>1. SUFFICES ASSUME T # {} PROVE FALSE
  OBVIOUS
<1>2. PICK x \in T : \A y \in T : x <= y
  BY <1>1, Least
<1>3. x # 0 /\ x \in Nat /\ x - 1 \in Nat /\ x - 1 \notin T
  BY <1>2
<1>4. x - 1 + 1 \in S
  BY <1>3
<1> QED BY <1>4, <1>3

----------------------------------------------------------------------------
(* Blinding                                                                *)

\* What the engine was given is a claim under the factor of that call.
BlindInv ==
  /\ IsList(sightings) /\ IsList(factors) /\ Len(sightings) = Len(factors)
  /\ \A k \in 1 .. Len(sightings) : \E c \in Claims : sightings[k] = blind_claim(c, factors[k])

LEMMA NoList == IsList(<< >>) /\ Len(<< >>) = 0
<1>1. << >> \in Seq({<< >>[j] : j \in DOMAIN << >>})
  OBVIOUS
<1> QED BY <1>1 DEF IsList

LEMMA BlindStep ==
  ASSUME BlindInv, NEW c \in Claims, NEW fresh \in BOOLEAN, Blind(c, fresh)
  PROVE  BlindInv'
<1> DEFINE f == IF fresh THEN Nonce(drawn') ELSE factors[Len(factors)]
           n == Len(factors)
<1>1. factors' = Append(factors, f) /\ IsList(factors) /\ IsList(sightings) /\ Len(sightings) = n
  BY DEF Blind, NewFactor, BlindInv
<1> HIDE DEF f
<1>2. /\ IsList(factors') /\ Len(factors') = n + 1 /\ factors'[n + 1] = f
      /\ \A k \in 1 .. n : factors'[k] = factors[k]
  BY <1>1, ListAppend
<1>3. sightings' = Append(sightings, blind_claim(c, f))
  BY <1>2 DEF Blind
<1>4. /\ IsList(sightings') /\ Len(sightings') = n + 1 /\ sightings'[n + 1] = blind_claim(c, f)
      /\ \A k \in 1 .. n : sightings'[k] = sightings[k]
  BY <1>1, <1>3, ListAppend
<1>5. n \in Nat
  BY <1>1, ListFacts
<1>6. ASSUME NEW k \in 1 .. Len(sightings')
      PROVE  \E e \in Claims : sightings'[k] = blind_claim(e, factors'[k])
  <2>1. CASE k = n + 1
    BY <1>2, <1>4, <2>1
  <2>2. CASE k \in 1 .. n
    BY <1>1, <1>2, <1>4, <2>2 DEF BlindInv
  <2> QED BY <1>4, <1>5, <2>1, <2>2
<1> QED BY <1>2, <1>4, <1>6 DEF BlindInv, blind_claim, mask

LEMMA BlindKept == ASSUME BlindInv, UNCHANGED <<factors, sightings>> PROVE BlindInv'
<1>1. factors' = factors /\ sightings' = sightings
  OBVIOUS
<1>2. IsList(sightings') /\ IsList(factors') /\ Len(sightings') = Len(factors')
  BY <1>1 DEF BlindInv
<1>3. ASSUME NEW k \in 1 .. Len(sightings')
      PROVE  \E c \in Claims : sightings'[k] = blind_claim(c, factors'[k])
  BY <1>1 DEF BlindInv
<1> QED BY <1>2, <1>3 DEF BlindInv, blind_claim, mask

LEMMA BlindStart == ASSUME factors = << >>, sightings = << >> PROVE BlindInv
BY NoList DEF BlindInv

\* The mask is what is left of a blinded byte beside its claim.
LEMMA BlindedByte ==
  ASSUME NEW c \in Claims, NEW f, NEW i \in DOMAIN c
  PROVE  /\ <<"mask", f, (i - 1) % MaskLen>> \in blind_claim(c, f)[i]
         /\ \A x \in blind_claim(c, f)[i] : x[1] = "mask" => x = <<"mask", f, (i - 1) % MaskLen>>
<1> DEFINE x == <<"claim", c[i]>>
           y == <<"mask", f, (i - 1) % MaskLen>>
<1>1. blind_claim(c, f)[i] = ({x} \ {y}) \cup ({y} \ {x})
  BY DEF blind_claim, mask, SymDiff
<1>2. x[1] = "claim" /\ y[1] = "mask" /\ x # y
  OBVIOUS
<1> HIDE DEF x, y
<1>3. y \in blind_claim(c, f)[i] /\ \A z \in blind_claim(c, f)[i] : z[1] = "mask" => z = y
  BY <1>1, <1>2
<1> QED BY <1>3 DEF y

\* Of the bytes of short claims under factors of their own, each has a mask that no other
\* one has, so that an exclusive or of any of them keeps the mask of each.
LEMMA BlindHides == BlindInv => BlindedIsHidden
<1> DEFINE Own == {o \in Seen : /\ Len(sightings[o[1]]) <= MaskLen
                               /\ \A j \in DOMAIN factors : j # o[1] => factors[j] # factors[o[1]]}
           X(o) == <<"mask", factors[o[1]], (o[2] - 1) % MaskLen>>
<1> SUFFICES ASSUME BlindInv, NEW S \in SUBSET Own, S # {}
             PROVE  \E x \in Together(S) : x[1] = "mask"
  BY DEF BlindedIsHidden
<1>1. /\ DOMAIN sightings = 1 .. Len(sightings) /\ DOMAIN factors = 1 .. Len(sightings)
      /\ MaskLen \in Nat /\ MaskLen > 0
  BY ListFacts, SealingAssumption DEF BlindInv
<1>2. ASSUME NEW o \in S
      PROVE  /\ o = <<o[1], o[2]>> /\ o[1] \in 1 .. Len(sightings) /\ o[2] \in 1 .. MaskLen
             /\ X(o) \in sightings[o[1]][o[2]]
             /\ \A x \in sightings[o[1]][o[2]] : x[1] = "mask" => x = X(o)
  <2>1. o \in Seen /\ Len(sightings[o[1]]) <= MaskLen
    OBVIOUS
  <2>2. PICK k \in DOMAIN sightings : o \in {<<k, i>> : i \in DOMAIN sightings[k]}
    BY <2>1 DEF Seen
  <2>3. PICK i \in DOMAIN sightings[k] : o = <<k, i>>
    BY <2>2
  <2>4. o[1] = k /\ o[2] = i /\ o = <<o[1], o[2]>>
    BY <2>3
  <2>5. PICK c \in Claims : sightings[k] = blind_claim(c, factors[k])
    BY <1>1 DEF BlindInv
  <2>6. DOMAIN sightings[k] = DOMAIN c
    BY <2>5 DEF blind_claim
  <2>7. c \in Seq(Nat)
    BY SealingAssumption
  <2>8. sightings[k] = [j \in 1 .. Len(c) |-> sightings[k][j]]
    BY <2>5, <2>7 DEF blind_claim
  <2>9. Len(sightings[k]) = Len(c) /\ Len(c) \in Nat /\ DOMAIN c = 1 .. Len(c)
    BY <2>7, <2>8, ListMade
  <2>10. i \in 1 .. MaskLen
    BY <1>1, <2>1, <2>4, <2>6, <2>9
  <2>11. /\ <<"mask", factors[k], (i - 1) % MaskLen>> \in sightings[k][i]
         /\ \A x \in sightings[k][i] : x[1] = "mask" => x = <<"mask", factors[k], (i - 1) % MaskLen>>
    BY <2>5, <2>6, BlindedByte
  <2> QED BY <1>1, <2>4, <2>10, <2>11
<1>3. ASSUME NEW o \in S, NEW q \in S, X(o) = X(q) PROVE o = q
  <2>1. factors[o[1]] = factors[q[1]] /\ (o[2] - 1) % MaskLen = (q[2] - 1) % MaskLen
    BY <1>3
  <2>2. o[1] = q[1]
    BY <1>1, <1>2, <2>1
  <2>3. o[2] = q[2]
    <3>1. o[2] \in 1 .. MaskLen /\ q[2] \in 1 .. MaskLen
      BY <1>2
    <3>2. \A y \in 1 .. MaskLen : (y - 1) % MaskLen = y - 1
      BY <1>1
    <3> QED BY <2>1, <3>1, <3>2
  <2> QED BY <1>2, <2>2, <2>3
<1>4. PICK o \in S : TRUE
  OBVIOUS
<1>5. X(o)[1] = "mask" /\ X(o) \in sightings[o[1]][o[2]]
  BY <1>2
<1> DEFINE x == X(o)
<1>6. \A q \in S : x \in sightings[q[1]][q[2]] => q = o
  BY <1>2, <1>3, <1>5
<1>7. x \in sightings[o[1]][o[2]] /\ x[1] = "mask"
  BY <1>5
<1> HIDE DEF x, X, Own
<1>8. {q \in S : x \in sightings[q[1]][q[2]]} = {o}
  BY <1>4, <1>6, <1>7
<1>9. Cardinality({q \in S : x \in sightings[q[1]][q[2]]}) % 2 = 1
  <2>1. Cardinality({o}) = 1
    BY FS_Singleton
  <2>2. 1 % 2 = 1
    OBVIOUS
  <2> QED BY <1>8, <2>1, <2>2, Zenon
<1>10. x \in UNION {sightings[q[1]][q[2]] : q \in S}
  BY <1>4, <1>7
<1>11. x \in Together(S)
  BY <1>9, <1>10, Zenon DEF Together
<1> QED BY <1>7, <1>11

----------------------------------------------------------------------------
(* The masking hasher                                                      *)

\* A row of public bytes, and one of secret bytes, absorbed as number k under the mask m
\* and the counter c.
PublicRow(L) == [i \in 1 .. L |-> {}]
SecretRow(k, m, c, L) ==
  [i \in 1 .. L |-> SymDiff({<<"secret", k - 1, i>>},
                            IF i > XofLen THEN {} ELSE {<<"stream", m, c, L, i>>})]

\* The rows R absorbed under the mask m, C[k] being the counter and Z[k] the length of row
\* k: counters are not used twice, and none of them is n yet.
Rows(R, m, n, C, Z) ==
  /\ \A k \in 1 .. Len(R) : /\ Z[k] \in Nat
                            /\ R[k] = PublicRow(Z[k]) \/ R[k] = SecretRow(k, m, C[k], Z[k])
  /\ \A j, k \in 1 .. Len(R) :
       j # k => R[j] = PublicRow(Z[j]) \/ R[k] = PublicRow(Z[k]) \/ C[j] # C[k]
  /\ Len(R) < MaxAbsorbs =>
       /\ n <= Len(R)
       /\ \A k \in 1 .. Len(R) : R[k] = PublicRow(Z[k]) \/ C[k] \in 0 .. n - 1

HashInv ==
  /\ drawn \in Nat
  /\ hasher = [mask |-> hasher.mask, call_counter |-> hasher.call_counter,
               absorbed |-> hasher.absorbed]
  /\ hasher.mask \in Int /\ hasher.call_counter \in Nat /\ IsList(hasher.absorbed)
  /\ hasher.mask = 0 => hasher = NoHasher
  /\ hasher.mask > 0 =>
       \E C, Z : Rows(hasher.absorbed, hasher.mask, hasher.call_counter, C, Z)

LEMMA RowAbsorbed ==
  ASSUME NEW R, IsList(R), NEW m, NEW n \in Nat, NEW C, NEW Z, Rows(R, m, n, C, Z),
         Len(R) < MaxAbsorbs, NEW L \in Nat, NEW row, NEW p \in Nat,
         \/ row = PublicRow(L) /\ p = n
         \/ row = SecretRow(Len(R) + 1, m, n, L) /\ (Len(R) + 1 < MaxAbsorbs => p = n + 1)
  PROVE  \E D, Y : Rows(Append(R, row), m, p, D, Y)
<1> DEFINE N == Len(R) + 1
           Q == Append(R, row)
           D == [k \in 1 .. N |-> IF k = N THEN n ELSE C[k]]
           Y == [k \in 1 .. N |-> IF k = N THEN L ELSE Z[k]]
<1>1. /\ Len(R) \in Nat /\ N \in Nat /\ MaxAbsorbs \in Nat
      /\ Len(Q) = N /\ Q[N] = row /\ \A k \in 1 .. Len(R) : Q[k] = R[k]
  BY ListFacts, ListAppend, SealingAssumption
<1>2. /\ D[N] = n /\ Y[N] = L
      /\ \A k \in 1 .. Len(R) : D[k] = C[k] /\ Y[k] = Z[k]
      /\ \A k \in 1 .. N : k \in 1 .. Len(R) \/ k = N
  BY <1>1
<1> HIDE DEF Q, D, Y
<1>3. n <= Len(R) /\ \A k \in 1 .. Len(R) : R[k] = PublicRow(Z[k]) \/ C[k] \in 0 .. n - 1
  BY DEF Rows
<1>4. ASSUME NEW k \in 1 .. N
      PROVE  Y[k] \in Nat /\ (Q[k] = PublicRow(Y[k]) \/ Q[k] = SecretRow(k, m, D[k], Y[k]))
  <2>1. CASE k = N
    BY <1>1, <1>2, <2>1
  <2>2. CASE k \in 1 .. Len(R)
    BY <1>1, <1>2, <2>2 DEF Rows
  <2> QED BY <1>2, <2>1, <2>2
<1>5. ASSUME NEW j \in 1 .. N, NEW k \in 1 .. N, j # k
      PROVE  Q[j] = PublicRow(Y[j]) \/ Q[k] = PublicRow(Y[k]) \/ D[j] # D[k]
  <2>1. CASE j \in 1 .. Len(R) /\ k \in 1 .. Len(R)
    BY <1>1, <1>2, <1>5, <2>1 DEF Rows
  <2>2. \A h \in 1 .. Len(R) : Q[h] = PublicRow(Y[h]) \/ D[h] # D[N]
    BY <1>1, <1>2, <1>3
  <2> QED BY <1>2, <1>5, <2>1, <2>2
<1>6. ASSUME N < MaxAbsorbs
      PROVE  p <= N /\ \A k \in 1 .. N : Q[k] = PublicRow(Y[k]) \/ D[k] \in 0 .. p - 1
  <2>1. p \in {n, n + 1}
    BY <1>1, <1>6
  <2>2. p <= N
    BY <1>1, <1>3, <2>1
  <2>3. ASSUME NEW k \in 1 .. Len(R) PROVE Q[k] = PublicRow(Y[k]) \/ D[k] \in 0 .. p - 1
    BY <1>1, <1>2, <1>3, <2>1
  <2>4. Q[N] = PublicRow(Y[N]) \/ D[N] \in 0 .. p - 1
    BY <1>1, <1>2, <1>6
  <2> QED BY <1>2, <2>2, <2>3, <2>4
<1>7. Rows(Q, m, p, D, Y)
  BY <1>1, <1>4, <1>5, <1>6 DEF Rows
<1> QED BY <1>7 DEF Q

\* One more row, public or secret, under the mask that is there.
LEMMA RowStep ==
  ASSUME HashInv, drawn' = drawn, Len(hasher.absorbed) < MaxAbsorbs,
         NEW L \in Nat, NEW row, NEW p \in Nat,
         hasher.mask # 0,
         hasher' = [mask |-> hasher.mask, call_counter |-> p, absorbed |-> Append(hasher.absorbed, row)],
         hasher.mask > 0 =>
           \/ row = PublicRow(L) /\ p = hasher.call_counter
           \/ /\ row = SecretRow(Len(hasher.absorbed) + 1, hasher.mask, hasher.call_counter, L)
              /\ Len(hasher.absorbed) + 1 < MaxAbsorbs => p = hasher.call_counter + 1
  PROVE  HashInv'
<1>1. /\ hasher'.mask = hasher.mask /\ hasher'.call_counter = p
      /\ hasher'.absorbed = Append(hasher.absorbed, row)
  OBVIOUS
<1>2. IsList(hasher'.absorbed)
  BY <1>1, ListAppend DEF HashInv
<1>3. ASSUME hasher.mask > 0
      PROVE  \E C, Z : Rows(hasher'.absorbed, hasher'.mask, hasher'.call_counter, C, Z)
  <2>1. PICK C, Z : Rows(hasher.absorbed, hasher.mask, hasher.call_counter, C, Z)
    BY <1>3 DEF HashInv
  <2> QED BY <1>1, <1>3, <2>1, RowAbsorbed DEF HashInv
<1> QED BY <1>1, <1>2, <1>3 DEF HashInv, Rows, PublicRow, SecretRow

LEMMA UpdateStep ==
  ASSUME HashInv, NEW len \in DataLens, ct_update(len)
  PROVE  HashInv'
<1> DEFINE row == [i \in 1 .. len |->
             SymDiff({<<"secret", Len(hasher.absorbed), i>>}, mask_stream(len, i))]
           c == hasher.call_counter
           n == Len(hasher.absorbed)
<1>1. /\ len \in Nat /\ Counters \in Nat /\ Counters > 0 /\ MaxAbsorbs <= Counters
      /\ MaxAbsorbs \in Nat
  BY SealingAssumption
<1>2. c \in Nat /\ n \in Nat /\ n < MaxAbsorbs /\ hasher.mask # 0 /\ drawn' = drawn
  BY ListFacts DEF HashInv, ct_update
<1>3. NextCounter \in Nat
  BY <1>1, <1>2 DEF NextCounter
<1>4. hasher' = [mask |-> hasher.mask, call_counter |-> NextCounter,
                 absorbed |-> Append(hasher.absorbed, row)]
  BY DEF ct_update, HashInv
<1>5. ASSUME hasher.mask > 0
      PROVE  row = SecretRow(n + 1, hasher.mask, c, len) /\ (n + 1 < MaxAbsorbs => NextCounter = c + 1)
  <2>1. n + 1 - 1 = n /\ hasher.mask # -1
    BY <1>2, <1>5 DEF HashInv
  <2>2. row = SecretRow(n + 1, hasher.mask, c, len)
    BY <2>1 DEF SecretRow, mask_stream
  <2>3. PICK C, Z : Rows(hasher.absorbed, hasher.mask, c, C, Z)
    BY <1>5 DEF HashInv
  <2>4. c <= n
    BY <1>2, <2>3 DEF Rows
  <2>5. n + 1 < MaxAbsorbs => c + 1 < Counters
    BY <1>1, <1>2, <2>4
  <2>6. n + 1 < MaxAbsorbs => NextCounter = c + 1
    BY <1>1, <1>2, <2>5 DEF NextCounter
  <2> QED BY <2>2, <2>6
<1> HIDE DEF row
<1> QED BY <1>1, <1>2, <1>3, <1>4, <1>5, RowStep

LEMMA PublicStep ==
  ASSUME HashInv, NEW len \in DataLens, update_public(len)
  PROVE  HashInv'
<1>1. len \in Nat /\ hasher.call_counter \in Nat /\ hasher.mask # 0 /\ drawn' = drawn
  BY SealingAssumption DEF HashInv, update_public
<1>2. Len(hasher.absorbed) < MaxAbsorbs
  BY DEF update_public
<1>3. hasher' = [mask |-> hasher.mask, call_counter |-> hasher.call_counter,
                 absorbed |-> Append(hasher.absorbed, PublicRow(len))]
  BY DEF update_public, HashInv, PublicRow
<1> QED BY <1>1, <1>2, <1>3, RowStep

LEMMA HashKept == ASSUME HashInv, hasher' = hasher, drawn' \in Nat PROVE HashInv'
<1>1. ASSUME hasher.mask > 0
      PROVE  \E C, Z : Rows(hasher'.absorbed, hasher'.mask, hasher'.call_counter, C, Z)
  BY <1>1 DEF HashInv
<1>2. hasher'.mask = 0 => hasher' = NoHasher
  BY DEF HashInv
<1> QED BY <1>1, <1>2 DEF HashInv, Rows, PublicRow, SecretRow, NoHasher

\* A hasher that has absorbed nothing.
LEMMA EmptyRows == ASSUME NEW m, NEW n, n = 0 PROVE \E C, Z : Rows(<< >>, m, n, C, Z)
<1>1. 1 .. Len(<< >>) = {} /\ Len(<< >>) = 0
  OBVIOUS
<1>2. Rows(<< >>, m, n, << >>, << >>)
  BY <1>1 DEF Rows
<1> QED BY <1>2

LEMMA HashStart == ASSUME drawn \in Nat, hasher = NoHasher PROVE HashInv
BY NoList DEF HashInv, NoHasher

LEMMA HashForget == ASSUME drawn' \in Nat, hasher' = NoHasher PROVE HashInv'
<1>1. hasher'.mask = 0 /\ hasher'.call_counter = 0 /\ IsList(hasher'.absorbed)
  BY NoList DEF NoHasher
<1> QED BY <1>1 DEF HashInv, NoHasher

LEMMA HasherMade == ASSUME HashInv, NewHasher PROVE HashInv'
<1>1. drawn' \in Nat /\ drawn' > 0
  BY DEF NewHasher, HashInv
<1>2. hasher' = [mask |-> drawn', call_counter |-> 0, absorbed |-> << >>]
  BY DEF NewHasher, NoHasher
<1>3. \E C, Z : Rows(hasher'.absorbed, hasher'.mask, hasher'.call_counter, C, Z)
  BY <1>2, EmptyRows
<1>4. IsList(hasher'.absorbed)
  BY <1>2, NoList
<1> QED BY <1>1, <1>2, <1>3, <1>4 DEF HashInv, Rows, PublicRow, SecretRow

LEMMA FinalizeStep == ASSUME HashInv, ct_finalize PROVE HashInv'
<1>1. /\ drawn' = drawn
      /\ hasher' = [mask |-> -1, call_counter |-> hasher.call_counter, absorbed |-> << >>]
  BY DEF ct_finalize, HashInv
<1>2. IsList(hasher'.absorbed)
  BY <1>1, NoList
<1> QED BY <1>1, <1>2 DEF HashInv

\* What masks a secret byte within reach of the stream.
LEMMA MaskOfByte ==
  ASSUME NEW k \in Nat, NEW m, NEW c, NEW L \in Nat, NEW i \in 1 .. L, i <= XofLen
  PROVE  {x \in SecretRow(k, m, c, L)[i] : x[1] = "stream"} = {<<"stream", m, c, L, i>>}
<1> DEFINE x == <<"secret", k - 1, i>>
           y == <<"stream", m, c, L, i>>
<1>1. XofLen \in Nat
  BY SealingAssumption
<1>2. SecretRow(k, m, c, L)[i] = ({x} \ {y}) \cup ({y} \ {x})
  BY <1>1 DEF SecretRow, SymDiff
<1>3. x[1] = "secret" /\ y[1] = "stream" /\ x # y
  OBVIOUS
<1> HIDE DEF x, y
<1>4. {z \in SecretRow(k, m, c, L)[i] : z[1] = "stream"} = {y}
  BY <1>2, <1>3
<1> QED BY <1>4 DEF y

LEMMA HashHides == HashInv => SecretsAreMasked
<1> SUFFICES ASSUME HashInv, hasher.mask > 0 PROVE SecretsAreMasked
  BY DEF SecretsAreMasked
<1> DEFINE R == hasher.absorbed
           m == hasher.mask
           near == {<<k, i>> : k \in DOMAIN R, i \in 1 .. XofLen}
           at == {o \in near : o[2] \in DOMAIN R[o[1]] /\ R[o[1]][o[2]] # {}}
           masks(o) == {x \in R[o[1]][o[2]] : x[1] = "stream"}
<1>1. PICK C, Z : Rows(R, m, hasher.call_counter, C, Z)
  BY DEF HashInv
<1>2. DOMAIN R = 1 .. Len(R) /\ Len(R) \in Nat /\ XofLen \in Nat
  BY ListFacts, SealingAssumption DEF HashInv
<1>3. ASSUME NEW o \in at
      PROVE  /\ o = <<o[1], o[2]>> /\ o[1] \in 1 .. Len(R) /\ o[2] \in 1 .. XofLen
             /\ R[o[1]] # PublicRow(Z[o[1]])
             /\ masks(o) = {<<"stream", m, C[o[1]], Z[o[1]], o[2]>>}
  <2>1. /\ o = <<o[1], o[2]>> /\ o[1] \in 1 .. Len(R) /\ o[2] \in 1 .. XofLen
        /\ o[2] \in DOMAIN R[o[1]] /\ R[o[1]][o[2]] # {}
    BY <1>2
  <2> DEFINE k == o[1]
             i == o[2]
  <2>2. Z[k] \in Nat /\ (R[k] = PublicRow(Z[k]) \/ R[k] = SecretRow(k, m, C[k], Z[k]))
    BY <1>1, <2>1 DEF Rows
  <2>3. i \in 1 .. Z[k]
    BY <2>1, <2>2 DEF PublicRow, SecretRow
  <2>4. R[k] # PublicRow(Z[k])
    BY <2>1, <2>3 DEF PublicRow
  <2>5. masks(o) = {<<"stream", m, C[k], Z[k], i>>}
    BY <1>2, <2>1, <2>2, <2>3, <2>4, MaskOfByte, SMTT(40)
  <2> QED BY <2>1, <2>4, <2>5
<1>4. ASSUME NEW o \in at, NEW q \in at, o # q
      PROVE  masks(o) \cap masks(q) = {}
  <2> DEFINE x == <<"stream", m, C[o[1]], Z[o[1]], o[2]>>
             y == <<"stream", m, C[q[1]], Z[q[1]], q[2]>>
  <2>1. x # y
    <3>1. CASE o[1] = q[1]
      <4>1. o[2] # q[2]
        BY <1>3, <1>4, <3>1
      <4> QED BY <4>1
    <3>2. CASE o[1] # q[1]
      <4>1. C[o[1]] # C[q[1]]
        BY <1>1, <1>3, <3>2, SMTT(40) DEF Rows
      <4> QED BY <4>1
    <3> QED BY <3>1, <3>2
  <2>2. masks(o) = {x} /\ masks(q) = {y}
    BY <1>3
  <2> HIDE DEF x, y, masks
  <2> QED BY <2>1, <2>2
<1>5. ASSUME NEW o \in at PROVE masks(o) # {}
  <2> DEFINE x == <<"stream", m, C[o[1]], Z[o[1]], o[2]>>
  <2>1. masks(o) = {x}
    BY <1>3
  <2> HIDE DEF masks, x
  <2> QED BY <2>1
<1> QED BY <1>4, <1>5 DEF SecretsAreMasked

----------------------------------------------------------------------------
(* The reader                                                              *)

\* The reads s, before which B[k - 1] bytes had been asked for in read k, the position
\* being at.
Reads(s, at, B) ==
  /\ B[0] = 0 /\ \A k \in 0 .. Len(s) : B[k] \in Nat
  /\ \A k \in 1 .. Len(s) :
       /\ IsList(s[k]) /\ B[k] = B[k - 1] + Len(s[k])
       /\ \A i \in 1 .. Len(s[k]) : s[k][i] = IF B[k - 1] + i <= XofLen THEN B[k - 1] + i ELSE 0
  /\ at = IF B[Len(s)] < XofLen THEN B[Len(s)] ELSE XofLen

ReadInv ==
  /\ reader = [open |-> reader.open, pos |-> reader.pos, served |-> reader.served]
  /\ IsList(reader.served)
  /\ \E B : Reads(reader.served, reader.pos, B)

LEMMA ReadsGrow ==
  ASSUME NEW s, IsList(s), NEW at, NEW B, Reads(s, at, B), NEW len \in Nat, NEW row,
         row = [i \in 1 .. len |-> IF at + i <= XofLen THEN at + i ELSE 0]
  PROVE  \E D : Reads(Append(s, row), at + (IF len < XofLen - at THEN len ELSE XofLen - at), D)
<1> DEFINE N == Len(s) + 1
           Q == Append(s, row)
           D == [k \in 0 .. N |-> IF k = N THEN B[Len(s)] + len ELSE B[k]]
           to == at + (IF len < XofLen - at THEN len ELSE XofLen - at)
<1>1. /\ Len(s) \in Nat /\ N \in Nat /\ XofLen \in Nat
      /\ Len(Q) = N /\ Q[N] = row /\ \A k \in 1 .. Len(s) : Q[k] = s[k]
  BY ListFacts, ListAppend, SealingAssumption
<1>2. B[Len(s)] \in Nat /\ at = IF B[Len(s)] < XofLen THEN B[Len(s)] ELSE XofLen
  BY <1>1 DEF Reads
<1>3. D[N] = B[Len(s)] + len /\ \A k \in 0 .. Len(s) : D[k] = B[k]
  BY <1>1
<1>4. IsList(row) /\ Len(row) = len
  <2>1. row = [i \in 1 .. len |-> row[i]]
    OBVIOUS
  <2> QED BY <2>1, ListMade
<1>5. \A i \in 1 .. len : row[i] = IF B[Len(s)] + i <= XofLen THEN B[Len(s)] + i ELSE 0
  BY <1>1, <1>2
<1>6. to = IF B[Len(s)] + len < XofLen THEN B[Len(s)] + len ELSE XofLen
  BY <1>1, <1>2
<1> HIDE DEF Q, D, to
<1>7. D[0] = 0 /\ \A k \in 0 .. N : D[k] \in Nat
  <2>1. B[0] = 0 /\ \A k \in 0 .. Len(s) : B[k] \in Nat
    BY DEF Reads
  <2>2. \A k \in 0 .. N : k = N \/ k \in 0 .. Len(s)
    BY <1>1
  <2>3. 0 \in 0 .. Len(s)
    BY <1>1
  <2> QED BY <1>2, <1>3, <2>1, <2>2, <2>3
<1>8. ASSUME NEW k \in 1 .. N
      PROVE  /\ IsList(Q[k]) /\ D[k] = D[k - 1] + Len(Q[k])
             /\ \A i \in 1 .. Len(Q[k]) :
                  Q[k][i] = IF D[k - 1] + i <= XofLen THEN D[k - 1] + i ELSE 0
  <2>1. CASE k = N
    <3>1. k - 1 = Len(s) /\ D[k - 1] = B[Len(s)]
      BY <1>1, <1>3, <2>1
    <3> QED BY <1>1, <1>3, <1>4, <1>5, <2>1, <3>1
  <2>2. CASE k \in 1 .. Len(s)
    <3>1. D[k] = B[k] /\ D[k - 1] = B[k - 1] /\ Q[k] = s[k]
      BY <1>1, <1>3, <2>2, SMTT(40)
    <3> QED BY <2>2, <3>1 DEF Reads
  <2> QED BY <1>1, <2>1, <2>2
<1>9. Reads(Q, to, D)
  BY <1>1, <1>3, <1>6, <1>7, <1>8 DEF Reads
<1> QED BY <1>9 DEF Q, to

LEMMA ReadStep ==
  ASSUME ReadInv, NEW len \in DataLens, read(len)
  PROVE  ReadInv'
<1> DEFINE s == reader.served
           at == reader.pos
           row == [i \in 1 .. len |-> IF at + i <= XofLen THEN at + i ELSE 0]
<1>1. len \in Nat /\ IsList(s)
  BY SealingAssumption DEF ReadInv
<1>2. reader' = [open |-> reader.open, pos |-> Position(len), served |-> Append(s, row)]
  BY DEF read, ReadInv
<1>3. PICK B : Reads(s, at, B)
  BY DEF ReadInv
<1>4. \E D : Reads(Append(s, row), Position(len), D)
  BY <1>1, <1>3, ReadsGrow DEF Position
<1>5. IsList(Append(s, row))
  BY <1>1, ListAppend
<1> HIDE DEF row
<1>6. \E D : Reads(reader'.served, reader'.pos, D)
  BY <1>2, <1>4
<1> QED BY <1>2, <1>5, <1>6 DEF ReadInv, Reads

LEMMA ReadKept == ASSUME ReadInv, reader' = reader PROVE ReadInv'
<1>1. \E B : Reads(reader'.served, reader'.pos, B)
  BY DEF ReadInv
<1>2. IsList(reader'.served)
  BY DEF ReadInv
<1> QED BY <1>1, <1>2 DEF ReadInv, Reads

\* A reader from which nothing was read yet.
LEMMA NoReads == \E B : Reads(<< >>, 0, B)
<1> DEFINE B == [k \in {0} |-> 0]
<1>1. Len(<< >>) = 0 /\ 0 .. 0 = {0} /\ 1 .. 0 = {}
  OBVIOUS
<1>2. XofLen \in Nat /\ XofLen > 0
  BY SealingAssumption
<1>3. Reads(<< >>, 0, B)
  BY <1>1, <1>2 DEF Reads
<1> QED BY <1>3

LEMMA ReaderFresh ==
  ASSUME NEW o \in BOOLEAN, reader' = [open |-> o, pos |-> 0, served |-> << >>]
  PROVE  ReadInv'
<1>1. reader' = [open |-> o, pos |-> 0, served |-> << >>]
  OBVIOUS
<1>2. \E B : Reads(reader'.served, reader'.pos, B)
  BY <1>1, NoReads
<1>3. IsList(reader'.served)
  BY <1>1, NoList
<1> QED BY <1>1, <1>2, <1>3 DEF ReadInv, Reads

\* The sums that the recursive function computes are the ones of the invariant.
LEMMA ReadTells == ReadInv => ReadsAreConsecutive
<1> SUFFICES ASSUME ReadInv PROVE ReadsAreConsecutive
  OBVIOUS
<1> DEFINE s == reader.served
           n == Len(s)
           eq(f) == f = [k \in 0 .. n |-> IF k = 0 THEN 0 ELSE f[k - 1] + Len(s[k])]
           before == CHOOSE f : eq(f)
<1>1. PICK B : Reads(s, reader.pos, B)
  BY DEF ReadInv
<1>2. n \in Nat /\ DOMAIN s = 1 .. n
  BY ListFacts DEF ReadInv
<1> DEFINE g == [k \in 0 .. n |-> B[k]]
<1>3. eq(g)
  <2>1. ASSUME NEW k \in 0 .. n PROVE g[k] = IF k = 0 THEN 0 ELSE g[k - 1] + Len(s[k])
    <3>1. CASE k = 0
      BY <1>1, <1>2, <3>1 DEF Reads
    <3>2. CASE k # 0
      <4>1. k \in 1 .. n /\ k - 1 \in 0 .. n
        BY <1>2, <3>2
      <4>2. B[k] = B[k - 1] + Len(s[k])
        BY <1>1, <4>1 DEF Reads
      <4> QED BY <3>2, <4>1, <4>2
    <3> QED BY <3>1, <3>2
  <2> QED BY <2>1
<1> HIDE DEF g
<1>4. eq(before)
  BY <1>3
<1>5. ReadsAreConsecutive =
        \A k \in 1 .. n : \A i \in DOMAIN s[k] :
          s[k][i] = IF before[k - 1] + i <= XofLen THEN before[k - 1] + i ELSE 0
  BY DEF ReadsAreConsecutive
<1> HIDE DEF before
<1>6. /\ before[0] = 0
      /\ \A k \in 1 .. n : before[k] = before[k - 1] + Len(s[k])
  <2>1. \A k \in 0 .. n : before[k] = IF k = 0 THEN 0 ELSE before[k - 1] + Len(s[k])
    BY <1>4
  <2>2. 0 \in 0 .. n /\ \A k \in 1 .. n : k \in 0 .. n /\ k # 0
    BY <1>2
  <2> QED BY <2>1, <2>2
<1> DEFINE S == {k \in Nat : k \in 0 .. n => before[k] = B[k]}
<1>7. 0 \in S
  BY <1>1, <1>6 DEF Reads
<1>8. ASSUME NEW k \in Nat, k \in S PROVE k + 1 \in S
  <2>1. SUFFICES ASSUME k + 1 \in 0 .. n PROVE before[k + 1] = B[k + 1]
    OBVIOUS
  <2>2. k \in 0 .. n /\ k + 1 \in 1 .. n /\ k + 1 - 1 = k
    BY <1>2, <2>1
  <2>3. before[k] = B[k]
    BY <1>8, <2>2
  <2>4. before[k + 1] = before[k] + Len(s[k + 1])
    BY <1>6, <2>2
  <2>5. B[k + 1] = B[k] + Len(s[k + 1])
    BY <1>1, <2>2 DEF Reads
  <2> QED BY <2>3, <2>4, <2>5
<1>9. \A k \in 0 .. n : before[k] = B[k]
  <2>1. \A k \in Nat : k \in S
    BY <1>7, <1>8, Induction
  <2> QED BY <1>2, <2>1
<1>10. ASSUME NEW k \in 1 .. n, NEW i \in DOMAIN s[k]
       PROVE  s[k][i] = IF before[k - 1] + i <= XofLen THEN before[k - 1] + i ELSE 0
  <2>1. before[k - 1] = B[k - 1]
    BY <1>2, <1>9
  <2>2. DOMAIN s[k] = 1 .. Len(s[k])
    BY <1>1, ListFacts DEF Reads
  <2> QED BY <1>1, <2>1, <2>2 DEF Reads
<1> QED BY <1>5, <1>10

----------------------------------------------------------------------------
StreamInv == BlindInv /\ HashInv /\ ReadInv

LEMMA StreamStep == StreamInv /\ [SealingNext]_sealingVars => StreamInv'
<1> SUFFICES ASSUME StreamInv, [SealingNext]_sealingVars PROVE StreamInv'
  OBVIOUS
<1> USE DEF StreamInv
<1>0. drawn \in Nat /\ drawn + 1 \in Nat
  BY DEF HashInv
<1>1. CASE CommitReveal
  BY <1>0, <1>1, BlindKept, HashKept, ReadKept DEF CommitReveal, DrawFails, Commit, Reveal
<1>2. ASSUME NEW c \in Claims, NEW fresh \in BOOLEAN, Blind(c, fresh) PROVE StreamInv'
  <2>1. drawn' \in Nat /\ hasher' = hasher /\ reader' = reader
    BY <1>0, <1>2 DEF Blind
  <2> QED BY <1>2, <2>1, BlindStep, HashKept, ReadKept
<1>3. CASE NewHasher
  <2>1. UNCHANGED <<factors, sightings, reader>>
    BY <1>3 DEF NewHasher
  <2> QED BY <1>3, <2>1, BlindKept, HasherMade, ReadKept
<1>4. CASE ct_finalize
  <2>1. UNCHANGED <<factors, sightings>> /\ reader' = [open |-> TRUE, pos |-> 0, served |-> << >>]
    BY <1>4 DEF ct_finalize, NoReader
  <2> QED BY <1>4, <2>1, BlindKept, FinalizeStep, ReaderFresh
<1>5. ASSUME NEW len \in DataLens, ct_update(len) PROVE StreamInv'
  <2>1. UNCHANGED <<factors, sightings, reader>>
    BY <1>5 DEF ct_update
  <2> QED BY <1>5, <2>1, BlindKept, UpdateStep, ReadKept
<1>6. ASSUME NEW len \in DataLens, update_public(len) PROVE StreamInv'
  <2>1. UNCHANGED <<factors, sightings, reader>>
    BY <1>6 DEF update_public
  <2> QED BY <1>6, <2>1, BlindKept, PublicStep, ReadKept
<1>7. ASSUME NEW len \in DataLens, read(len) PROVE StreamInv'
  <2>1. UNCHANGED <<factors, sightings, drawn, hasher>>
    BY <1>7 DEF read
  <2> QED BY <1>0, <1>7, <2>1, BlindKept, HashKept, ReadStep
<1>8. CASE Forget
  <2>1. /\ drawn' = 0 /\ factors' = << >> /\ sightings' = << >> /\ hasher' = NoHasher
        /\ reader' = [open |-> FALSE, pos |-> 0, served |-> << >>]
    BY <1>8 DEF Forget, NoReader
  <2>2. BlindInv'
    BY <2>1, NoList DEF BlindInv
  <2> QED BY <2>1, <2>2, HashForget, ReaderFresh
<1>9. CASE UNCHANGED sealingVars
  BY <1>0, <1>9, BlindKept, HashKept, ReadKept DEF sealingVars
<1> QED BY <1>1, <1>2, <1>3, <1>4, <1>5, <1>6, <1>7, <1>8, <1>9
        DEF SealingNext, Blinding, Hashing

\* No byte of a random stream is used twice, whatever calls are made and in whatever order:
\* a blinded claim keeps its mask (blind.rs), a secret byte that the masking hasher absorbs
\* has a stream byte of its own (keccak_ct.rs), and a reader serves its output once
\* (shake256.rs).
THEOREM StreamBytesAreUsedOnce == SealingSpec => []NoStreamByteTwice
<1>1. SealingInit => StreamInv
  <2> SUFFICES ASSUME SealingInit PROVE StreamInv
    OBVIOUS
  <2>1. ReadInv
    <3>1. reader = [open |-> FALSE, pos |-> 0, served |-> << >>]
      BY DEF SealingInit, NoReader
    <3> QED BY <3>1, NoReads, NoList DEF ReadInv
  <2> QED BY <2>1, BlindStart, HashStart DEF SealingInit, StreamInv
<1>2. StreamInv => NoStreamByteTwice
  BY BlindHides, HashHides, ReadTells DEF StreamInv, NoStreamByteTwice
<1> QED BY <1>1, <1>2, StreamStep, PTL DEF SealingSpec

----------------------------------------------------------------------------
(* The chunk buffer of a stream                                            *)

\* Between a read and the absorb that follows it, and only there, the buffer holds bytes.
\* No failure is possible in between: that is what an early return relies on.
HeldOnlyWhileFilled == phase # "filled" => buf = << >>

LEMMA HeldStep == HeldOnlyWhileFilled /\ [Next]_vars => HeldOnlyWhileFilled'
<1> SUFFICES ASSUME HeldOnlyWhileFilled, [Next]_vars PROVE HeldOnlyWhileFilled'
  OBVIOUS
<1> USE DEF HeldOnlyWhileFilled
<1>1. CASE phase = "idle" /\ Call
  BY <1>1 DEF Call, BeginStream, BeginFiles, BeginDirectory, BeginChain, Begin
<1>2. CASE (\E p \in unlisted : List(p)) \/ EndListing \/ ListFails
  BY <1>2 DEF List, EndListing, ListFails
<1>3. CASE Open \/ OpenMissing \/ OpenFails
  BY <1>3 DEF Open, OpenMissing, OpenFails
<1>4. ASSUME NEW n \in 1 .. size, Read(n) PROVE HeldOnlyWhileFilled'
  BY <1>4 DEF Read
<1>5. CASE AbsorbChunk \/ Eof
  BY <1>5 DEF AbsorbChunk, Eof
<1>6. CASE ReadFails \/ ReadDirectory
  BY <1>6 DEF ReadFails, ReadDirectory
<1>7. CASE FinalizeFails \/ Attest \/ Return
  BY <1>7 DEF FinalizeFails, Attest, Return
<1>8. CASE UNCHANGED vars
  BY <1>8 DEF vars
<1> QED BY <1>1, <1>2, <1>3, <1>4, <1>5, <1>6, <1>7, <1>8 DEF Next, Progress

\* No byte of a file is in the chunk buffer once a call has returned, also by an error in
\* the middle of a file (interface.rs:127-150), which skips the final wipe.
THEOREM BufferWiped == Spec => []BufferIsWiped
<1>1. Init => HeldOnlyWhileFilled
  BY DEF Init, HeldOnlyWhileFilled
<1>2. HeldOnlyWhileFilled => BufferIsWiped
  BY DEF HeldOnlyWhileFilled, BufferIsWiped
<1> QED BY <1>1, <1>2, HeldStep, PTL DEF Spec

LEMMA ListEqual ==
  ASSUME NEW s, NEW t, IsList(s), IsList(t), Len(s) = Len(t),
         \A k \in 1 .. Len(s) : s[k] = t[k]
  PROVE  s = t
<1> DEFINE S == {s[k] : k \in DOMAIN s}
           T == {t[k] : k \in DOMAIN t}
<1>1. s \in Seq(S) /\ t \in Seq(T)
  BY DEF IsList
<1>2. s = [k \in 1 .. Len(s) |-> s[k]] /\ t = [k \in 1 .. Len(t) |-> t[k]]
  BY <1>1, LenProperties
<1> QED BY <1>2

LEMMA SeqIsList == ASSUME NEW U, NEW s \in Seq(U) PROVE IsList(s)
<1>1. Len(s) \in Nat /\ s = [k \in 1 .. Len(s) |-> s[k]]
  BY LenProperties
<1> QED BY <1>1, ListMade

LEMMA Concatenated ==
  ASSUME NEW U, NEW a \in Seq(U), NEW b \in Seq(U)
  PROVE  /\ a \o b \in Seq(U) /\ Len(a \o b) = Len(a) + Len(b)
         /\ \A k \in 1 .. Len(a) : (a \o b)[k] = a[k]
         /\ \A k \in 1 .. Len(b) : (a \o b)[Len(a) + k] = b[k]
  OBVIOUS

----------------------------------------------------------------------------
(* FlattenSeq                                                              *)

\* What the recursion of FlattenSeq says of its values.
Flattens(f, S) ==
  \A i \in 1 .. Len(S) : f[i] = IF i = 1 THEN S[i] ELSE f[i - 1] \o S[i]

LEMMA FlatteningExists ==
  ASSUME NEW S, IsList(S)
  PROVE  \E f : f = [i \in 1 .. Len(S) |-> IF i = 1 THEN S[i] ELSE f[i - 1] \o S[i]]
<1> DEFINE L == Len(S)
           V(f, i) == IF i = 1 THEN S[i] ELSE f[i - 1] \o S[i]
           Good(m, f) == \A i \in 1 .. L : i <= m => f[i] = V(f, i)
           A == {m \in Nat : \E f : Good(m, f)}
<1>0. L \in Nat
  BY ListFacts
<1>1. 0 \in A
  <2>1. Good(0, << >>)
    BY <1>0
  <2> QED BY <2>1
<1>2. ASSUME NEW m \in Nat, m \in A PROVE m + 1 \in A
  <2>1. PICK f : Good(m, f)
    BY <1>2
  <2> DEFINE g == [i \in 1 .. L |-> IF i = m + 1 THEN V(f, i) ELSE f[i]]
  <2>2. ASSUME NEW i \in 1 .. L, i <= m + 1 PROVE g[i] = V(g, i)
    <3>1. i # 1 => i - 1 \in 1 .. L /\ i - 1 # m + 1
      BY <1>0, <2>2
    <3>2. V(g, i) = V(f, i)
      BY <3>1
    <3>3. g[i] = V(f, i)
      BY <1>0, <2>1, <2>2
    <3> QED BY <3>2, <3>3
  <2> HIDE DEF g
  <2>3. Good(m + 1, g)
    BY <2>2
  <2> QED BY <2>3
<1>3. L \in A
  <2> HIDE DEF A
  <2>1. \A m \in Nat : m \in A
    BY <1>1, <1>2, Induction
  <2> QED BY <1>0, <2>1
<1>4. PICK f : Good(L, f)
  BY <1>3
<1> DEFINE g == [i \in 1 .. L |-> f[i]]
<1>5. ASSUME NEW i \in 1 .. L PROVE g[i] = V(g, i)
  <2>1. i # 1 => i - 1 \in 1 .. L
    BY <1>0
  <2>2. V(g, i) = V(f, i)
    BY <2>1
  <2> QED BY <1>0, <1>4, <2>2
<1>6. g = [i \in 1 .. L |-> V(g, i)]
  <2>1. g = [i \in 1 .. L |-> g[i]]
    OBVIOUS
  <2> HIDE DEF g
  <2> QED BY <1>5, <2>1
<1> QED BY <1>6

LEMMA FlattenRecursion ==
  ASSUME NEW S, IsList(S), Len(S) # 0
  PROVE  \E f : FlattenSeq(S) = f[Len(S)] /\ Flattens(f, S)
<1> DEFINE V(f, i) == IF i = 1 THEN S[i] ELSE f[i - 1] \o S[i]
           eq(f) == f = [i \in 1 .. Len(S) |-> V(f, i)]
           flat == CHOOSE f : eq(f)
<1>1. FlattenSeq(S) = flat[Len(S)]
  BY DEF FlattenSeq
<1>2. \E f : eq(f)
  BY FlatteningExists
<1>3. eq(flat)
  BY <1>2
<1> HIDE DEF flat
<1>4. \A i \in 1 .. Len(S) : flat[i] = V(flat, i)
  <2> DEFINE D(i) == V(flat, i)
  <2>1. flat = [i \in 1 .. Len(S) |-> D(i)]
    BY <1>3
  <2> HIDE DEF D
  <2>2. \A i \in 1 .. Len(S) : flat[i] = D(i)
    BY <2>1
  <2> QED BY <2>2 DEF D
<1> QED BY <1>1, <1>4 DEF Flattens

\* The recursion determines its values.
LEMMA FlattenIs ==
  ASSUME NEW S, IsList(S), Len(S) # 0, NEW g, Flattens(g, S)
  PROVE  FlattenSeq(S) = g[Len(S)]
<1>1. PICK f : FlattenSeq(S) = f[Len(S)] /\ Flattens(f, S)
  BY FlattenRecursion
<1> DEFINE A == {i \in Nat : i \in 1 .. Len(S) => f[i] = g[i]}
<1>2. Len(S) \in Nat
  BY ListFacts
<1>3. 0 \in A
  BY <1>2
<1>4. ASSUME NEW i \in Nat, i \in A PROVE i + 1 \in A
  <2> SUFFICES ASSUME i + 1 \in 1 .. Len(S) PROVE f[i + 1] = g[i + 1]
    OBVIOUS
  <2>1. /\ f[i + 1] = IF i + 1 = 1 THEN S[i + 1] ELSE f[i + 1 - 1] \o S[i + 1]
        /\ g[i + 1] = IF i + 1 = 1 THEN S[i + 1] ELSE g[i + 1 - 1] \o S[i + 1]
    BY <1>1 DEF Flattens
  <2>2. i + 1 - 1 = i /\ (i + 1 # 1 => f[i] = g[i])
    BY <1>2, <1>4
  <2> QED BY <2>1, <2>2
<1> HIDE DEF A
<1>5. \A i \in Nat : i \in A
  BY <1>3, <1>4, Induction
<1> QED BY <1>1, <1>2, <1>5 DEF A

LEMMA FlattenEmpty == FlattenSeq(<< >>) = << >>
<1>1. Len(<< >>) = 0
  BY NoList
<1> QED BY <1>1 DEF FlattenSeq

LEMMA EmptyIs == ASSUME NEW s, IsList(s), Len(s) = 0 PROVE s = << >>
<1>1. \A k \in 1 .. Len(s) : s[k] = << >>[k]
  OBVIOUS
<1> QED BY <1>1, NoList, ListEqual

LEMMA FlattenTyped ==
  ASSUME NEW U, NEW S, IsList(S), \A k \in 1 .. Len(S) : S[k] \in Seq(U)
  PROVE  FlattenSeq(S) \in Seq(U)
<1>0. Len(S) \in Nat
  BY ListFacts
<1>1. CASE Len(S) = 0
  <2>1. FlattenSeq(S) = << >>
    BY <1>1, EmptyIs, FlattenEmpty
  <2>2. << >> \in Seq(U)
    OBVIOUS
  <2> QED BY <2>1, <2>2
<1>2. CASE Len(S) # 0
  <2>1. PICK f : FlattenSeq(S) = f[Len(S)] /\ Flattens(f, S)
    BY <1>2, FlattenRecursion
  <2> DEFINE A == {i \in Nat : i \in 1 .. Len(S) => f[i] \in Seq(U)}
  <2>2. 0 \in A
    BY <1>0
  <2>3. ASSUME NEW i \in Nat, i \in A PROVE i + 1 \in A
    <3> SUFFICES ASSUME i + 1 \in 1 .. Len(S) PROVE f[i + 1] \in Seq(U)
      OBVIOUS
    <3>1. f[i + 1] = IF i + 1 = 1 THEN S[i + 1] ELSE f[i + 1 - 1] \o S[i + 1]
      BY <2>1 DEF Flattens
    <3>2. i + 1 - 1 = i /\ (i + 1 # 1 => f[i] \in Seq(U)) /\ S[i + 1] \in Seq(U)
      BY <1>0, <2>3
    <3>3. CASE i + 1 = 1
      BY <3>1, <3>2, <3>3
    <3>4. CASE i + 1 # 1
      <4>1. f[i + 1] = f[i] \o S[i + 1] /\ f[i] \in Seq(U)
        BY <3>1, <3>2, <3>4
      <4> DEFINE a == f[i]
                 b == S[i + 1]
      <4> HIDE DEF a, b
      <4>2. a \in Seq(U) /\ b \in Seq(U)
        BY <3>2, <4>1 DEF a, b
      <4>3. a \o b \in Seq(U)
        BY <4>2
      <4> QED BY <4>1, <4>3 DEF a, b
    <3> QED BY <3>3, <3>4
  <2> HIDE DEF A
  <2>4. \A i \in Nat : i \in A
    BY <2>2, <2>3, Induction
  <2> QED BY <1>0, <1>2, <2>1, <2>4 DEF A
<1> QED BY <1>1, <1>2

----------------------------------------------------------------------------
(* What the command line prints and takes                                  *)

\* A list of events as the command line makes them, and one of single words.
EventList(evs) ==
  IsList(evs) /\ Len(evs) # 0 /\ \A k \in 1 .. Len(evs) : IsList(evs[k]) /\ Len(evs[k]) # 0
WordList(evs) == IsList(evs) /\ Len(evs) # 0 /\ \A k \in 1 .. Len(evs) : \E a : evs[k] = <<a>>

LEMMA OneElement == ASSUME NEW a PROVE IsList(<<a>>) /\ Len(<<a>>) = 1 /\ <<a>>[1] = a
<1>1. <<a>> \in Seq({<<a>>[k] : k \in DOMAIN <<a>>})
  OBVIOUS
<1> QED BY <1>1 DEF IsList

LEMMA PairMade == ASSUME NEW a, NEW b PROVE <<a>> \o <<b>> = <<a, b>>
<1> DEFINE U == {a, b}
           s == <<a>>
           t == <<b>>
<1>1. s \in Seq(U) /\ t \in Seq(U) /\ Len(s) = 1 /\ Len(t) = 1 /\ s[1] = a /\ t[1] = b
  OBVIOUS
<1> HIDE DEF U, s, t
<1>2. s \o t \in Seq(U) /\ Len(s \o t) = 2 /\ (s \o t)[1] = a /\ (s \o t)[2] = b
  <2>1. /\ s \o t \in Seq(U) /\ Len(s \o t) = Len(s) + Len(t)
        /\ \A i \in 1 .. Len(s) + Len(t) : (s \o t)[i] = IF i <= Len(s) THEN s[i] ELSE t[i - Len(s)]
    BY <1>1, ConcatProperties
  <2> QED BY <1>1, <2>1
<1> DEFINE v == s \o t
<1>3. v \in Seq(U) /\ Len(v) = 2 /\ v[1] = a /\ v[2] = b
  BY <1>2
<1> HIDE DEF v
<1>4. v = <<a, b>>
  BY <1>3
<1> QED BY <1>4 DEF v, s, t

\* A list of one element.
LEMMA OneIs == ASSUME NEW w, IsList(w), Len(w) = 1 PROVE w = <<w[1]>>
<1>1. IsList(<<w[1]>>) /\ Len(<<w[1]>>) = 1 /\ <<w[1]>>[1] = w[1]
  BY OneElement
<1>2. \A k \in 1 .. Len(w) : w[k] = <<w[1]>>[k]
  BY <1>1
<1> HIDE DEF IsList
<1> QED BY <1>1, <1>2, ListEqual

LEMMA PlainWords == ASSUME NEW evs, EventList(evs), Plain(evs) PROVE WordList(evs)
<1>1. DOMAIN evs = 1 .. Len(evs)
  BY ListFacts DEF EventList
<1>2. \A k \in 1 .. Len(evs) : evs[k] = <<evs[k][1]>>
  BY <1>1, OneIs DEF EventList, Plain
<1> QED BY <1>2 DEF EventList, WordList

\* Two lists, one after the other.
LEMMA ListConcat ==
  ASSUME NEW s, IsList(s), NEW u, IsList(u)
  PROVE  /\ IsList(s \o u) /\ Len(s \o u) = Len(s) + Len(u)
         /\ \A k \in 1 .. Len(s) : (s \o u)[k] = s[k]
         /\ \A k \in 1 .. Len(u) : (s \o u)[Len(s) + k] = u[k]
<1> DEFINE S == {s[k] : k \in DOMAIN s}
           T == {u[k] : k \in DOMAIN u}
           U == S \cup T
<1>1. s \in Seq(S) /\ u \in Seq(T)
  BY DEF IsList
<1> HIDE DEF S, T
<1>2. s \in Seq(U) /\ u \in Seq(U)
  BY <1>1
<1> HIDE DEF U
<1>3. /\ s \o u \in Seq(U) /\ Len(s \o u) = Len(s) + Len(u)
      /\ \A k \in 1 .. Len(s) : (s \o u)[k] = s[k]
      /\ \A k \in 1 .. Len(u) : (s \o u)[Len(s) + k] = u[k]
  BY <1>2, Concatenated
<1>4. IsList(s \o u)
  BY <1>3, SeqIsList
<1> QED BY <1>3, <1>4

\* What is taken as text is a list.
LEMMA TextIs == ASSUME NEW a PROVE IsList(Text(a)) /\ Len(Text(a)) # 0
<1>1. CASE a.form = "joined"
  <2> DEFINE x == a.val[1]
             y == a.val[2]
             U == {x, STEP, y}
             w == <<x, STEP, y>>
  <2>1. Text(a) = w
    BY <1>1 DEF Text
  <2> HIDE DEF x, y
  <2>2. w \in Seq(U) /\ Len(w) = 3
    OBVIOUS
  <2> HIDE DEF U, w
  <2>3. IsList(w)
    BY <2>2, SeqIsList
  <2> QED BY <2>1, <2>2, <2>3
<1>2. CASE a.form # "joined"
  BY <1>2, OneElement DEF Text
<1> QED BY <1>1, <1>2

\* A root is a list, whatever the events are.
LEMMA RootIsList == ASSUME NEW evs, EventList(evs) PROVE IsList(chain_root(evs))
<1> DEFINE L == Len(evs)
           R(k) == {evs[k][i] : i \in DOMAIN evs[k]}
           U == {HEAD, STEP} \cup UNION {R(k) : k \in 1 .. L}
           T == [k \in DOMAIN evs |-> <<STEP>> \o evs[k]]
<1>1. L \in Nat /\ DOMAIN evs = 1 .. L
  BY ListFacts DEF EventList
<1>2. IsList(T) /\ Len(T) = L
  <2>1. T = [k \in 1 .. L |-> T[k]]
    BY <1>1
  <2> HIDE DEF T
  <2> QED BY <1>1, <2>1, ListMade
<1>3. ASSUME NEW k \in 1 .. L PROVE T[k] \in Seq(U)
  <2>1. evs[k] \in Seq(R(k))
    BY DEF EventList, IsList
  <2>2. R(k) \subseteq U
    OBVIOUS
  <2>3. STEP \in U
    OBVIOUS
  <2>4. T[k] = <<STEP>> \o evs[k]
    BY <1>1
  <2> HIDE DEF T, U, R
  <2>5. evs[k] \in Seq(U) /\ <<STEP>> \in Seq(U)
    BY <2>1, <2>2, <2>3
  <2> QED BY <2>4, <2>5, Concatenated
<1>4. chain_root(evs) = <<HEAD>> \o FlattenSeq(T) /\ HEAD \in U
  BY DEF chain_root
<1> HIDE DEF T, U
<1>5. FlattenSeq(T) \in Seq(U) /\ <<HEAD>> \in Seq(U)
  BY <1>2, <1>3, <1>4, FlattenTyped
<1>6. <<HEAD>> \o FlattenSeq(T) \in Seq(U)
  BY <1>5, Concatenated
<1> QED BY <1>4, <1>6, SeqIsList

\* Where chain_root has its events.
LEMMA RootMade ==
  ASSUME NEW evs, WordList(evs)
  PROVE  /\ IsList(chain_root(evs)) /\ Len(chain_root(evs)) = 2 * Len(evs) + 1
         /\ \A k \in 1 .. Len(evs) : chain_root(evs)[2 * k + 1] = evs[k][1]
<1> DEFINE L == Len(evs)
           E(k) == evs[k][1]
           U == {HEAD, STEP} \cup {E(k) : k \in 1 .. L}
           T == [k \in DOMAIN evs |-> <<STEP>> \o evs[k]]
<1>1. L \in Nat /\ L # 0 /\ DOMAIN evs = 1 .. L
  BY ListFacts DEF WordList
<1>2. IsList(T) /\ Len(T) = L
  <2>1. T = [k \in 1 .. L |-> T[k]]
    BY <1>1
  <2> HIDE DEF T
  <2> QED BY <1>1, <2>1, ListMade
<1>3. HEAD \in U /\ STEP \in U /\ \A k \in 1 .. L : E(k) \in U
  OBVIOUS
<1>4. \A k \in 1 .. L : T[k] = <<STEP, E(k)>>
  <2> SUFFICES ASSUME NEW j \in 1 .. L PROVE T[j] = <<STEP, E(j)>>
    OBVIOUS
  <2>1. PICK a : evs[j] = <<a>>
    BY DEF WordList
  <2>2. T[j] = <<STEP>> \o evs[j]
    BY <1>1
  <2>3. <<STEP>> \o <<a>> = <<STEP, a>> /\ <<a>>[1] = a
    BY PairMade
  <2> HIDE DEF T
  <2> QED BY <2>1, <2>2, <2>3
<1> HIDE DEF T, E, U
<1>5. PICK f : FlattenSeq(T) = f[L] /\ Flattens(f, T)
  BY <1>1, <1>2, FlattenRecursion
<1> DEFINE Made(w, i) == /\ w \in Seq(U) /\ Len(w) = 2 * i
                         /\ \A k \in 1 .. i : w[2 * k] = E(k)
           A == {i \in Nat : i \in 1 .. L => Made(f[i], i)}
<1>6. 0 \in A
  BY <1>1
<1>7. ASSUME NEW w, NEW i \in Nat, Made(w, i), i + 1 \in 1 .. L
      PROVE  Made(w \o <<STEP, E(i + 1)>>, i + 1)
  <2> DEFINE v == w \o <<STEP, E(i + 1)>>
  <2>1. E(i + 1) \in U /\ STEP \in U /\ w \in Seq(U) /\ Len(w) = 2 * i
    BY <1>3, <1>7
  <2>2. v \in Seq(U) /\ Len(v) = 2 * (i + 1) /\ v[2 * i + 2] = E(i + 1)
    BY <2>1
  <2>3. \A k \in 1 .. 2 * i : v[k] = w[k]
    BY <2>1
  <2> HIDE DEF v
  <2>4. ASSUME NEW k \in 1 .. i + 1 PROVE v[2 * k] = E(k)
    <3>1. CASE k = i + 1
      <4>1. 2 * k = 2 * i + 2
        BY <3>1
      <4> QED BY <2>2, <3>1, <4>1
    <3>2. CASE k # i + 1
      <4>1. k \in 1 .. i /\ 2 * k \in 1 .. 2 * i
        BY <3>2
      <4> QED BY <1>7, <2>3, <4>1
    <3> QED BY <3>1, <3>2
  <2>5. Made(v, i + 1)
    BY <2>2, <2>4
  <2> HIDE DEF Made
  <2> QED BY <2>5 DEF v
<1>8. ASSUME NEW i \in Nat, i \in A PROVE i + 1 \in A
  <2> SUFFICES ASSUME i + 1 \in 1 .. L PROVE Made(f[i + 1], i + 1)
    OBVIOUS
  <2>1. f[i + 1] = IF i + 1 = 1 THEN T[i + 1] ELSE f[i + 1 - 1] \o T[i + 1]
    BY <1>2, <1>5 DEF Flattens
  <2>2. T[i + 1] = <<STEP, E(i + 1)>> /\ i + 1 - 1 = i
    BY <1>4
  <2>3. CASE i = 0
    <3>1. f[i + 1] = << >> \o <<STEP, E(i + 1)>>
      BY <2>1, <2>2, <2>3
    <3>2. Made(<< >>, i)
      BY <2>3
    <3> HIDE DEF Made
    <3> QED BY <1>7, <3>1, <3>2
  <2>4. CASE i # 0
    <3>1. f[i + 1] = f[i] \o <<STEP, E(i + 1)>>
      BY <2>1, <2>2, <2>4
    <3>2. Made(f[i], i)
      BY <1>8, <2>4
    <3> HIDE DEF Made
    <3> QED BY <1>7, <3>1, <3>2
  <2> QED BY <2>3, <2>4
<1> HIDE DEF A
<1>9. \A i \in Nat : i \in A
  BY <1>6, <1>8, Induction
<1>10. Made(f[L], L)
  <2>1. L \in A /\ L \in 1 .. L
    BY <1>1, <1>9
  <2> QED BY <2>1 DEF A
<1> DEFINE r == f[L]
           w == <<HEAD>> \o r
<1>11. chain_root(evs) = w
  BY <1>5 DEF chain_root, T
<1>12. r \in Seq(U) /\ Len(r) = 2 * L /\ \A k \in 1 .. L : r[2 * k] = E(k)
  BY <1>10
<1> HIDE DEF r, L
<1>13. /\ w \in Seq(U) /\ Len(w) = 2 * L + 1
       /\ \A k \in 1 .. 2 * L : w[k + 1] = r[k]
  <2> DEFINE h == <<HEAD>>
  <2>1. h \in Seq(U) /\ Len(h) = 1
    BY <1>3
  <2>2. w = h \o r /\ 2 * L \in Nat
    BY <1>1
  <2> HIDE DEF h, w
  <2>3. w \in Seq(U) /\ Len(w) = 1 + Len(r) /\ \A k \in 1 .. Len(r) : w[1 + k] = r[k]
    <3>1. /\ h \o r \in Seq(U) /\ Len(h \o r) = Len(h) + Len(r)
          /\ \A i \in 1 .. Len(h) + Len(r) : (h \o r)[i] = IF i <= Len(h) THEN h[i] ELSE r[i - Len(h)]
      BY <1>12, <2>1, ConcatProperties
    <3> QED BY <1>12, <2>1, <2>2, <3>1
  <2>4. \A k \in 1 .. 2 * L : 1 + k = k + 1
    OBVIOUS
  <2> QED BY <1>12, <2>2, <2>3, <2>4
<1> HIDE DEF w
<1>14. \A k \in 1 .. L : w[2 * k + 1] = E(k)
  <2> SUFFICES ASSUME NEW k \in 1 .. L PROVE w[2 * k + 1] = E(k)
    OBVIOUS
  <2>1. 2 * k \in 1 .. 2 * L
    BY <1>1
  <2> QED BY <1>12, <1>13, <2>1
<1>15. IsList(w)
  BY <1>13, SeqIsList
<1> QED BY <1>11, <1>13, <1>14, <1>15 DEF L, E

\* chain_root is injective on lists of words.
LEMMA RootTells ==
  ASSUME NEW a, NEW b, WordList(a), WordList(b), chain_root(a) = chain_root(b)
  PROVE  a = b
<1> DEFINE R == chain_root(a)
<1>1. /\ Len(R) = 2 * Len(a) + 1 /\ Len(R) = 2 * Len(b) + 1
      /\ \A k \in 1 .. Len(a) : R[2 * k + 1] = a[k][1]
      /\ \A k \in 1 .. Len(b) : R[2 * k + 1] = b[k][1]
  BY RootMade
<1> HIDE DEF R
<1>2. IsList(a) /\ IsList(b) /\ Len(a) \in Nat /\ Len(b) \in Nat
  BY ListFacts DEF WordList
<1>3. Len(a) = Len(b)
  BY <1>1, <1>2
<1>4. ASSUME NEW k \in 1 .. Len(a) PROVE a[k] = b[k]
  <2>1. a[k][1] = b[k][1]
    BY <1>1, <1>3
  <2>2. PICK x, y : a[k] = <<x>> /\ b[k] = <<y>>
    BY <1>3 DEF WordList
  <2> QED BY <2>1, <2>2
<1> QED BY <1>2, <1>3, <1>4, ListEqual

\* Arguments: a list; what is typed as hex or as a number has a value.
ArgList(args) ==
  /\ IsList(args)
  /\ \A k \in 1 .. Len(args) :
       IsList(args[k].val) /\ (args[k].form = "num" => args[k].val[1] \in Nat)

\* Callers type lists of such arguments, whatever list of bytes was printed before.
ArgvsAreLists == \A c \in Commands : \A v : IsList(v) => \A args \in Argvs(c, v) : ArgList(args)

\* A chain entry as recorded: linked by what was typed, or the first of its chain.
Placed(e) ==
  /\ IsList(e.event) /\ Len(e.event) # 0
  /\ e.data = e.prev \o e.event
  /\ e.prev = IF Hex(e.typed) THEN <<e.typed.val>> ELSE << >>

\* What was printed and what was recorded.
Histories ==
  /\ \A evs \in roots : EventList(evs)
  /\ IsList(entries) /\ \A k \in 1 .. Len(entries) : Placed(entries[k])

\* Nothing is printed or given to the engine while an invocation is under way.
Silent ==
  /\ stage \in {"vetting", "reading"} => stdout = << >> /\ attested = << >>
  /\ disk.size \in Int
  /\ stage = "reading" => cmd \in FileCommands /\ vetted \in Int /\ vetted <= MAX_FILE_SIZE

\* The inductive invariant of the command line.
CliInv ==
  /\ ArgvsAreLists /\ ArgList(argv) /\ IsList(told) /\ Histories /\ Silent
  /\ OneHonestAnswer /\ VerifyTellsEvents

----------------------------------------------------------------------------
LEMMA NoArgs == ArgList(<< >>)
<1>1. IsList(<< >>) /\ Len(<< >>) = 0
  BY NoList
<1>2. 1 .. 0 = {}
  OBVIOUS
<1> QED BY <1>1, <1>2 DEF ArgList

\* Which arguments there are.
LEMMA ArgFacts ==
  ASSUME ArgList(argv)
  PROVE  /\ Len(argv) \in Nat /\ DOMAIN argv = 1 .. Len(argv)
         /\ argv # << >> => Len(argv) # 0
         /\ \A k \in 1 .. Len(argv) : Arg(k) = argv[k]
         /\ \A k \in Nat : k > Len(argv) => Arg(k) = Missing
<1>1. IsList(argv)
  BY DEF ArgList
<1>2. Len(argv) \in Nat /\ DOMAIN argv = 1 .. Len(argv)
  BY <1>1, ListFacts
<1>3. argv # << >> => Len(argv) # 0
  <2>1. ASSUME Len(argv) = 0 PROVE argv = << >>
    <3>1. \A k \in 1 .. Len(argv) : argv[k] = << >>[k]
      BY <2>1
    <3> QED BY <1>1, <2>1, <3>1, NoList, ListEqual
  <2> QED BY <2>1
<1> QED BY <1>2, <1>3 DEF Arg

\* The list of the arguments from one on, as events.
LEMMA TextsMade ==
  ASSUME NEW from \in 1 .. 2, ArgList(argv), Len(argv) >= from
  PROVE  EventList(Texts(from))
<1> DEFINE m == Len(argv) - from + 1
           t == Texts(from)
<1>1. m \in Nat /\ m # 0
  BY ArgFacts
<1>2. t = [k \in 1 .. m |-> Text(argv[from + k - 1])]
  BY DEF Texts
<1> HIDE DEF m, t
<1>3. t = [k \in 1 .. m |-> t[k]] /\ \A k \in 1 .. m : t[k] = Text(argv[from + k - 1])
  BY <1>2
<1>4. IsList(t) /\ Len(t) = m
  BY <1>1, <1>3, ListMade
<1>5. EventList(t)
  BY <1>1, <1>3, <1>4, TextIs DEF EventList
<1> QED BY <1>5 DEF t

\* One line more on an empty output.
LEMMA OneLine ==
  ASSUME stdout = << >>, NEW line, Print1(line)
  PROVE  /\ stage' = "exit" /\ told' = line.val
         /\ stdout' = <<line>> /\ Len(stdout') = 1 /\ DOMAIN stdout' = {1} /\ stdout'[1] = line
<1>1. stdout' = Append(<< >>, line)
  BY DEF Print1
<1>2. Append(<< >>, line) = <<line>>
  OBVIOUS
<1> QED BY <1>1, <1>2 DEF Print1

\* A command that is not about files has answered.
LEMMA AnswerStep ==
  ASSUME CliInv, stage = "vetting", cmd # "help", cmd \notin FileCommands,
         NEW line, Print1(line), IsList(line.val), UNCHANGED <<cmd, argv, disk, vetted>>,
         Histories', line.valid = 1 => MalformedIsRefused',
         cmd = "verify" => VerifyTellsEvents'
  PROVE  CliInv'
<1>1. /\ stage' = "exit" /\ told' = line.val
      /\ stdout' = <<line>> /\ Len(stdout') = 1 /\ DOMAIN stdout' = {1} /\ stdout'[1] = line
  BY OneLine DEF CliInv, Silent
<1>2. ArgvsAreLists' /\ ArgList(argv)' /\ IsList(told)' /\ Silent'
  <2>1. IsList(told') /\ ArgList(argv')
    BY <1>1 DEF CliInv
  <2>2. ArgvsAreLists'
    BY DEF CliInv, ArgvsAreLists, ArgList, IsList
  <2>3. ArgList(argv)'
    BY <2>1 DEF ArgList, IsList
  <2>4. IsList(told)'
    BY <2>1 DEF IsList
  <2>5. Silent'
    BY <1>1 DEF CliInv, Silent
  <2> QED BY <2>2, <2>3, <2>4, <2>5
<1>3. OneAnswer' /\ LimitHolds' /\ (cmd # "verify" => VerifyTellsEvents')
  BY <1>1 DEF OneAnswer, LimitHolds, VerifyTellsEvents
<1>4. line.valid # 1 => MalformedIsRefused'
  <2> SUFFICES ASSUME line.valid # 1 PROVE ~ \E k \in DOMAIN stdout' : stdout'[k].valid = 1
    BY DEF MalformedIsRefused
  <2> QED BY <1>1
<1> QED BY <1>2, <1>3, <1>4 DEF CliInv, OneHonestAnswer

\* What was printed and recorded before is still so.
LEMMA HistoriesKept ==
  ASSUME CliInv, UNCHANGED <<roots, entries>> PROVE Histories'
<1>1. /\ \A evs \in roots' : EventList(evs)
      /\ IsList(entries') /\ \A k \in 1 .. Len(entries') : Placed(entries'[k])
  BY DEF CliInv, Histories
<1>2. IsList(entries)'
  BY <1>1 DEF IsList
<1>3. (\A evs \in roots : EventList(evs))'
  BY <1>1 DEF EventList, IsList
<1>4. (\A k \in 1 .. Len(entries) : Placed(entries[k]))'
  BY <1>1 DEF Placed, IsList, Hex
<1> QED BY <1>2, <1>3, <1>4 DEF Histories

LEMMA AnswersAreLists ==
  ASSUME NEW k, NEW line \in Answers(k)
  PROVE  IsList(line.val) /\ (line.valid = 1 => line # Refusal)
<1>1. IsList(<<2000 + k>>) /\ IsList(<< >>)
  BY OneElement, NoList
<1>2. \A val, w : Line(val, w).val = w /\ Line(val, w).valid = val
  BY DEF Line
<1> QED BY <1>1, <1>2 DEF Answers, Refusal, Dash, Transcript

LEMMA RefusalFacts == Refusal.valid = 0 /\ IsList(Refusal.val)
BY NoList DEF Refusal, Line, Dash

\* A command whose malformed arguments are refused asks the engine, or refuses.
LEMMA EngineStep ==
  ASSUME CliInv, stage = "vetting", cmd # "help", cmd \notin FileCommands, cmd # "verify",
         NEW data, Engine(data) \/ Refuse,
         Engine(data) => MalformedIsRefused',
         UNCHANGED <<cmd, argv, disk, vetted, roots, entries>>
  PROVE  CliInv'
<1>1. Histories'
  BY HistoriesKept
<1>2. CASE Engine(data)
  <2>1. PICK line \in Answers(runs) : Print1(line)
    BY <1>2 DEF Engine
  <2> QED BY <1>1, <1>2, <2>1, AnswersAreLists, AnswerStep
<1>3. CASE Refuse
  <2>1. Print1(Refusal) /\ Refusal.valid # 1
    BY <1>3, RefusalFacts DEF Refuse
  <2> QED BY <1>1, <2>1, RefusalFacts, AnswerStep
<1> QED BY <1>2, <1>3

\* A step that ends no invocation.
LEMMA QuietStep ==
  ASSUME CliInv, stage' # "exit", ArgList(argv'), IsList(told'), Histories', Silent'
  PROVE  CliInv'
<1>1. ArgvsAreLists'
  BY DEF CliInv, ArgvsAreLists, ArgList, IsList
<1>2. ArgList(argv)' /\ IsList(told)'
  BY DEF ArgList, IsList
<1>3. OneHonestAnswer' /\ VerifyTellsEvents'
  BY DEF OneHonestAnswer, OneAnswer, MalformedIsRefused, LimitHolds, VerifyTellsEvents
<1> QED BY <1>1, <1>2, <1>3 DEF CliInv

LEMMA InvokeStep ==
  ASSUME CliInv, NEW c \in Commands, NEW args \in Argvs(c, told), Invoke(c, args)
  PROVE  CliInv'
<1>1. ArgList(argv') /\ IsList(told')
  BY DEF CliInv, ArgvsAreLists, Invoke
<1>2. disk'.size \in Int
  <2>1. CASE c \in FileCommands
    <3>1. disk' \in [path : {"blocked", "plain"}, kind : {"file", "special", "absent"},
                    size : FileSizes]
      BY <2>1 DEF Invoke
    <3>2. disk'.size \in FileSizes
      BY <3>1
    <3>3. \A x \in FileSizes : x \in Int
      BY CliAssumption
    <3> QED BY <3>2, <3>3
  <2>2. CASE c \notin FileCommands
    BY <2>2 DEF Invoke, NoFile
  <2> QED BY <2>1, <2>2
<1>3. Silent'
  BY <1>2 DEF Silent, Invoke
<1> QED BY <1>1, <1>3, HistoriesKept, QuietStep DEF Invoke

LEMMA HelpStep == ASSUME CliInv, Help PROVE CliInv'
<1>1. stage' = "exit" /\ cmd' = "help" /\ stdout' = << >> /\ told' = << >> /\ argv' = argv
  BY DEF Help, CliInv, Silent, Dash
<1>2. ArgList(argv') /\ IsList(told')
  BY <1>1, NoList DEF CliInv
<1>3. ArgvsAreLists' /\ ArgList(argv)' /\ IsList(told)'
  <2>1. ArgvsAreLists'
    BY DEF CliInv, ArgvsAreLists, ArgList, IsList
  <2> QED BY <1>2, <2>1 DEF ArgList, IsList
<1>4. Silent'
  BY <1>1 DEF Silent, Help, CliInv
<1>5. OneHonestAnswer' /\ VerifyTellsEvents'
  BY <1>1, NoList DEF OneHonestAnswer, OneAnswer, MalformedIsRefused, LimitHolds, VerifyTellsEvents,
             FileCommands
<1>6. Histories'
  BY HistoriesKept DEF Help
<1> QED BY <1>3, <1>4, <1>5, <1>6 DEF CliInv

\* Commands that take anything.
LEMMA TextStep ==
  ASSUME CliInv, NEW data, Engine(data) \/ Refuse, stage = "vetting",
         cmd \in TextCommands \cup {"batch-sign", "prove range-proof"},
         UNCHANGED <<cmd, argv, disk, vetted, roots, entries>>
  PROVE  CliInv'
<1>1. MalformedIsRefused'
  BY DEF MalformedIsRefused, TextCommands, SeedCommands
<1> QED BY <1>1, EngineStep DEF TextCommands, FileCommands

\* A refusal is as good an answer as any.
LEMMA RefuseStep ==
  ASSUME CliInv, stage = "vetting", cmd # "help", cmd # "verify", cmd \notin FileCommands, Refuse,
         UNCHANGED <<cmd, argv, disk, vetted, roots, entries>>
  PROVE  CliInv'
<1>1. Print1(Refusal) /\ Refusal.valid # 1
  BY RefusalFacts DEF Refuse
<1> QED BY <1>1, RefusalFacts, HistoriesKept, AnswerStep

\* So is a panic where one can happen.
LEMMA AbortStep ==
  ASSUME CliInv, stage = "vetting", cmd # "help", cmd # "verify", cmd \notin FileCommands, Abort,
         CanAbort, UNCHANGED <<cmd, argv, disk, vetted, roots, entries>>
  PROVE  CliInv'
<1>1. stage' = "exit" /\ stdout' = << >> /\ told' = << >>
  BY DEF Abort, CliInv, Silent, Dash
<1>2. CanAbort'
  BY DEF CanAbort, Number, Arg
<1>3. ArgvsAreLists' /\ ArgList(argv)' /\ IsList(told)' /\ Silent'
  <2>1. IsList(told') /\ ArgList(argv')
    BY <1>1, NoList DEF CliInv
  <2>2. ArgvsAreLists'
    BY DEF CliInv, ArgvsAreLists, ArgList, IsList
  <2>3. ArgList(argv)'
    BY <2>1 DEF ArgList, IsList
  <2>4. IsList(told)'
    BY <2>1 DEF IsList
  <2>5. Silent'
    BY <1>1 DEF CliInv, Silent
  <2> QED BY <2>2, <2>3, <2>4, <2>5
<1>4. OneAnswer' /\ LimitHolds' /\ VerifyTellsEvents'
  BY <1>1, <1>2 DEF OneAnswer, LimitHolds, VerifyTellsEvents
<1>5. MalformedIsRefused'
  <2>1. DOMAIN stdout' = {}
    BY <1>1
  <2> QED BY <2>1 DEF MalformedIsRefused
<1> QED BY <1>3, <1>4, <1>5, HistoriesKept DEF CliInv, OneHonestAnswer

\* A line whose validity says nothing wrong.
LEMMA LineFacts ==
  ASSUME NEW valid, NEW w PROVE Line(valid, w).valid = valid /\ Line(valid, w).val = w
BY DEF Line

LEMMA TranscriptIsList == ASSUME NEW k PROVE IsList(Transcript(k))
BY OneElement DEF Transcript

LEMMA VmRootIsList == ASSUME NEW k PROVE IsList(VmRoot(k))
<1> DEFINE U == {3000 + k, 0}
           w == <<3000 + k, 0>>
<1>1. w \in Seq(U)
  OBVIOUS
<1>2. VmRoot(k) = w
  BY DEF VmRoot
<1> HIDE DEF U, w
<1> QED BY <1>1, <1>2, SeqIsList

LEMMA ThresholdStep == ASSUME CliInv, Threshold PROVE CliInv'
<1> DEFINE n == Number(Arg(1))
           m == Number(Arg(2))
<1>1. /\ stage = "vetting" /\ cmd = "threshold" /\ cmd' = cmd /\ argv' = argv
      /\ UNCHANGED <<cmd, argv, disk, vetted, roots, entries>>
  BY DEF Threshold
<1>2. IF n = 0 \/ m = 0 \/ n > m THEN Refuse ELSE Verdicts(m, Text(Arg(3)))
  BY DEF Threshold
<1>3. n \in Nat /\ m \in Nat
  <2>1. \A k \in 1 .. 2 : Number(Arg(k)) \in Nat
    <3> SUFFICES ASSUME NEW k \in 1 .. 2 PROVE Number(Arg(k)) \in Nat
      OBVIOUS
    <3>1. CASE k \in 1 .. Len(argv)
      BY <3>1, ArgFacts DEF CliInv, ArgList, Number
    <3>2. CASE k \notin 1 .. Len(argv)
      BY <3>2, ArgFacts DEF CliInv, Number, Missing
    <3> QED BY <3>1, <3>2
  <2> QED BY <2>1
<1>4. ASSUME Engine(<<Text(Arg(3))>>), ~(n = 0 \/ m = 0 \/ n > m) PROVE MalformedIsRefused'
  <2>1. n \in 1 .. m
    BY <1>3, <1>4
  <2>2. Len(argv) >= 2
    <3>1. Number(Missing) = 0
      BY DEF Number, Missing
    <3> QED BY <1>4, <3>1, ArgFacts DEF CliInv
  <2>3. n = Number(argv[1]) /\ m = Number(argv[2])
    BY <2>2, ArgFacts DEF CliInv
  <2>4. Len(argv') >= 2 /\ Number(argv'[1]) \in 1 .. Number(argv'[2])
    BY <1>1, <2>1, <2>2, <2>3
  <2> HIDE DEF n, m
  <2> QED BY <1>1, <2>4 DEF MalformedIsRefused, SeedCommands, Number
<1> HIDE DEF n, m
<1> DEFINE data == <<Text(Arg(3))>>
<1>5. m > MaxAlloc \/ m > MAX_COUNT => CanAbort
  BY <1>1 DEF CanAbort, m
<1>6. CASE n = 0 \/ m = 0 \/ n > m
  <2>1. Refuse
    BY <1>2, <1>6
  <2> QED BY <1>1, <2>1, RefuseStep DEF FileCommands
<1>7. CASE ~(n = 0 \/ m = 0 \/ n > m)
  <2>1. Engine(data) \/ (Abort /\ (m > MaxAlloc \/ m > MAX_COUNT))
    BY <1>2, <1>7 DEF Verdicts
  <2>2. CASE Abort /\ (m > MaxAlloc \/ m > MAX_COUNT)
    BY <1>1, <1>5, <2>2, AbortStep DEF FileCommands
  <2>3. CASE Engine(data)
    <3>1. MalformedIsRefused'
      BY <1>4, <1>7, <2>3
    <3> HIDE DEF data
    <3> QED BY <1>1, <2>3, <3>1, EngineStep DEF FileCommands
  <2> QED BY <2>1, <2>2, <2>3
<1> QED BY <1>6, <1>7

LEMMA BatchStep == ASSUME CliInv, BatchSign PROVE CliInv'
<1> DEFINE data == Texts(1)
<1>1. /\ stage = "vetting" /\ cmd = "batch-sign" /\ (Engine(data) \/ Refuse)
      /\ UNCHANGED <<cmd, argv, disk, vetted, roots, entries>>
  BY DEF BatchSign
<1> HIDE DEF data
<1> QED BY <1>1, TextStep

LEMMA SignStep ==
  ASSUME CliInv, NEW c \in TextCommands, SignAs(c) PROVE CliInv'
<1> DEFINE data == <<Text(Arg(1))>>
<1>1. /\ stage = "vetting" /\ cmd \in TextCommands /\ Engine(data)
      /\ UNCHANGED <<cmd, argv, disk, vetted, roots, entries>>
  BY DEF SignAs
<1> HIDE DEF data
<1> QED BY <1>1, TextStep

LEMMA RangeStep == ASSUME CliInv, ProveRange PROVE CliInv'
<1>1. /\ stage = "vetting" /\ cmd = "prove range-proof"
      /\ UNCHANGED <<cmd, argv, disk, vetted, roots, entries>>
  BY DEF ProveRange
<1>2. PICK line : Print1(line) /\ line \in {Line(0, Transcript(runs)), Line(1, Transcript(runs)), Refusal}
  BY DEF ProveRange
<1>3. IsList(line.val)
  BY <1>2, LineFacts, TranscriptIsList, RefusalFacts
<1>4. MalformedIsRefused'
  BY <1>1 DEF MalformedIsRefused, SeedCommands
<1> QED BY <1>1, <1>2, <1>3, <1>4, HistoriesKept, AnswerStep DEF FileCommands

\* A root has been printed.
LEMMA RootStep ==
  ASSUME CliInv, stage = "vetting", cmd \in {"chain", "chain-root"},
         NEW valid, PrintRoot(valid), cmd = "chain-root" => valid = 0,
         UNCHANGED <<cmd, argv, disk, vetted, entries>>
  PROVE  CliInv'
<1> DEFINE evs == Texts(1)
           line == Line(valid, chain_root(evs))
<1>1. argv # << >> /\ roots' = roots \cup {evs} /\ Print1(line)
  BY DEF PrintRoot
<1>2. EventList(evs)
  BY <1>1, ArgFacts, TextsMade DEF CliInv
<1>3. IsList(line.val) /\ line.valid = valid
  BY <1>2, RootIsList, LineFacts
<1> HIDE DEF evs, line
<1>4. Histories'
  <2>1. /\ \A e \in roots' : EventList(e)
        /\ IsList(entries') /\ \A k \in 1 .. Len(entries') : Placed(entries'[k])
    BY <1>1, <1>2 DEF CliInv, Histories
  <2>2. IsList(entries)'
    BY <2>1 DEF IsList
  <2>3. (\A e \in roots : EventList(e))'
    BY <2>1 DEF EventList, IsList
  <2>4. (\A k \in 1 .. Len(entries) : Placed(entries[k]))'
    BY <2>1 DEF Placed, IsList, Hex
  <2> QED BY <2>2, <2>3, <2>4 DEF Histories
<1>5. line.valid = 1 => MalformedIsRefused'
  <2> SUFFICES ASSUME line.valid = 1 PROVE MalformedIsRefused'
    OBVIOUS
  <2>1. cmd' = "chain"
    BY <1>3
  <2> QED BY <2>1 DEF MalformedIsRefused, SeedCommands
<1> QED BY <1>1, <1>3, <1>4, <1>5, AnswerStep DEF FileCommands

LEMMA ChainStep == ASSUME CliInv, Chain \/ ChainRoot PROVE CliInv'
<1>1. /\ stage = "vetting" /\ cmd \in {"chain", "chain-root"}
      /\ UNCHANGED <<cmd, argv, disk, vetted, entries>>
  BY DEF Chain, ChainRoot
<1>2. \/ \E valid : PrintRoot(valid) /\ (cmd = "chain-root" => valid = 0)
      \/ Refuse /\ UNCHANGED roots
  BY DEF Chain, ChainRoot
<1>3. ASSUME NEW valid, PrintRoot(valid), cmd = "chain-root" => valid = 0 PROVE CliInv'
  BY <1>1, <1>3, RootStep
<1>4. CASE Refuse /\ UNCHANGED roots
  BY <1>1, <1>4, RefuseStep DEF FileCommands
<1> QED BY <1>2, <1>3, <1>4

\* An argument that parses is there.
LEMMA HexArg ==
  ASSUME ArgList(argv), NEW k \in Nat, parse_hex_root(Arg(k)) # << >>
  PROVE  k \in 1 .. Len(argv) /\ Hex(argv[k])
<1>1. DOMAIN argv = 1 .. Len(argv)
  BY ArgFacts
<1>2. CASE k \notin DOMAIN argv
  BY <1>2 DEF Arg, Missing, parse_hex_root
<1>3. CASE k \in DOMAIN argv
  BY <1>1, <1>3 DEF Arg, parse_hex_root, Hex
<1> QED BY <1>2, <1>3

\* Relations whose witness is a list of hashes.
LEMMA SeedStep ==
  ASSUME CliInv, NEW c, NEW n, Prove(c, n),
         (c \in SeedCommands /\ n = 1) \/ (c = "prove pedersen" /\ n = 2)
  PROVE  CliInv'
<1> DEFINE data == [i \in 1 .. n |-> parse_hex_root(Arg(i))[1]]
           bad == \E i \in 1 .. n : parse_hex_root(Arg(i)) = << >>
<1>1. /\ stage = "vetting" /\ cmd = c /\ cmd' = c /\ argv' = argv
      /\ UNCHANGED <<cmd, argv, disk, vetted, roots, entries>>
      /\ IF bad THEN Refuse ELSE Engine(data)
  BY DEF Prove
<1>2. cmd # "help" /\ cmd # "verify" /\ cmd \notin FileCommands
  BY <1>1 DEF SeedCommands, FileCommands
<1>3. ASSUME ~bad PROVE MalformedIsRefused'
  <2>1. ArgList(argv) /\ Len(argv) \in Nat
    BY ArgFacts DEF CliInv
  <2>2. parse_hex_root(Arg(1)) # << >> => 1 \in 1 .. Len(argv) /\ Hex(argv[1])
    BY <2>1, HexArg
  <2>3. parse_hex_root(Arg(2)) # << >> => 2 \in 1 .. Len(argv) /\ Hex(argv[2])
    BY <2>1, HexArg
  <2>4. CASE n = 1 /\ c \in SeedCommands
    <3>1. 1 \in 1 .. n
      BY <2>4
    <3>2. Hex(argv[1])
      BY <1>3, <2>2, <3>1
    <3>3. Hex(argv'[1])
      BY <1>1, <3>2
    <3> QED BY <1>1, <2>4, <3>3 DEF MalformedIsRefused, SeedCommands, Hex
  <2>5. CASE n = 2 /\ c = "prove pedersen"
    <3>1. n = 2
      BY <2>5
    <3>4. \A i \in 1 .. 2 : parse_hex_root(Arg(i)) # << >>
      BY <1>3, <3>1
    <3>5. parse_hex_root(Arg(1)) # << >> /\ parse_hex_root(Arg(2)) # << >>
      BY ONLY <3>4
    <3>6. Hex(argv[1]) /\ Hex(argv[2]) /\ 2 \in 1 .. Len(argv)
      BY ONLY <2>2, <2>3, <3>5
    <3>2. Hex(argv[1]) /\ Hex(argv[2]) /\ Len(argv) >= 2
      BY ONLY <2>1, <3>6
    <3>3. Hex(argv'[1]) /\ Hex(argv'[2]) /\ Len(argv') >= 2
      BY <1>1, <3>2
    <3> QED BY <1>1, <2>5, <3>3 DEF MalformedIsRefused, SeedCommands, Hex
  <2> QED BY <2>4, <2>5
<1>4. CASE bad
  BY <1>1, <1>2, <1>4, RefuseStep
<1>5. CASE ~bad
  <2>1. Engine(data) /\ MalformedIsRefused'
    BY <1>1, <1>3, <1>5
  <2> HIDE DEF data
  <2> QED BY <1>1, <1>2, <2>1, EngineStep
<1> QED BY <1>4, <1>5

LEMMA VmStep == ASSUME CliInv, VmExecute PROVE CliInv'
<1>1. /\ stage = "vetting" /\ cmd = "vm-execute" /\ cmd' = "vm-execute" /\ argv' = argv
      /\ UNCHANGED <<cmd, argv, disk, vetted, roots, entries>>
  BY DEF VmExecute
<1>2. CASE Refuse
  BY <1>1, <1>2, RefuseStep DEF FileCommands
<1>3. CASE hex_decode(Arg(1)) # << >> /\ Print1(Line(1, VmRoot(runs)))
  <2> DEFINE line == Line(1, VmRoot(runs))
  <2>1. IsList(line.val) /\ Print1(line)
    BY <1>3, LineFacts, VmRootIsList
  <2>2. 1 \in DOMAIN argv /\ argv[1].form \in {"hex", "HEX", "long"}
    BY <1>3 DEF hex_decode, Arg, Missing
  <2>3. Hex(argv'[1]) \/ argv'[1].form = "long"
    BY <1>1, <2>2 DEF Hex
  <2>4. MalformedIsRefused'
    BY <1>1, <2>3 DEF MalformedIsRefused, SeedCommands, Hex
  <2> HIDE DEF line
  <2> QED BY <1>1, <2>1, <2>4, HistoriesKept, AnswerStep DEF FileCommands
<1> QED BY <1>2, <1>3 DEF VmExecute

LEMMA MerkleRootStep == ASSUME CliInv, ProveMerkleRoot PROVE CliInv'
<1>1. /\ stage = "vetting" /\ cmd = "prove merkle-root"
      /\ UNCHANGED <<cmd, argv, disk, vetted, roots, entries>>
  BY DEF ProveMerkleRoot
<1>2. CASE Refuse
  BY <1>1, <1>2, RefuseStep DEF FileCommands
<1>3. CASE Print1(Line(0, Transcript(runs)))
  <2> DEFINE line == Line(0, Transcript(runs))
  <2>1. IsList(line.val) /\ Print1(line) /\ line.valid # 1
    BY <1>3, LineFacts, TranscriptIsList
  <2> HIDE DEF line
  <2> QED BY <1>1, <2>1, HistoriesKept, AnswerStep DEF FileCommands
<1> QED BY <1>2, <1>3 DEF ProveMerkleRoot

LEMMA IncludeStep == ASSUME CliInv, Include PROVE CliInv'
<1>1. /\ stage = "vetting" /\ cmd = "prove merkle-include" /\ cmd' = cmd /\ argv' = argv
      /\ UNCHANGED <<cmd, argv, disk, vetted, roots, entries>>
  BY DEF Include
<1>2. CASE Refuse
  BY <1>1, <1>2, RefuseStep DEF FileCommands
<1>4. CASE ~(Len(argv) < 3) /\ Len(argv) - 3 >= UsizeBits /\ Abort
  <2>1. Len(argv) \in Nat /\ UsizeBits \in Nat
    BY ArgFacts, CliAssumption DEF CliInv
  <2>2. Len(argv) >= 3 + UsizeBits
    BY <1>4, <2>1
  <2>3. CanAbort
    BY <1>1, <2>2 DEF CanAbort
  <2> QED BY <1>1, <1>4, <2>3, AbortStep DEF FileCommands
<1>3. ASSUME ~(Len(argv) < 3), \A k \in DOMAIN argv \ {3} : parse_hex_root(argv[k]) # << >>,
             NEW valid \in 0 .. 1, Print1(Line(valid, argv[2].val))
      PROVE  CliInv'
  <2> DEFINE line == Line(valid, argv[2].val)
  <2>1. Len(argv) \in Nat /\ DOMAIN argv = 1 .. Len(argv) /\ Len(argv) >= 3
    BY <1>3, ArgFacts DEF CliInv
  <2>2. IsList(line.val) /\ Print1(line)
    BY <1>3, <2>1, LineFacts DEF CliInv, ArgList
  <2>3. \A k \in DOMAIN argv : k # 3 => Hex(argv[k])
    <3> SUFFICES ASSUME NEW k \in DOMAIN argv, k # 3 PROVE Hex(argv[k])
      OBVIOUS
    <3>1. parse_hex_root(argv[k]) # << >>
      BY <1>3
    <3> QED BY <3>1 DEF parse_hex_root, Hex
  <2>4. Len(argv') >= 3 /\ \A k \in DOMAIN argv' : k # 3 => Hex(argv'[k])
    BY <1>1, <2>1, <2>3
  <2>5. MalformedIsRefused'
    BY <1>1, <2>4 DEF MalformedIsRefused, SeedCommands, Hex
  <2> HIDE DEF line
  <2> QED BY <1>1, <2>2, <2>5, HistoriesKept, AnswerStep DEF FileCommands
<1> QED BY <1>2, <1>3, <1>4 DEF Include

\* The events that verify is given are those the property speaks of.
LEMMA AuditedIs ==
  ASSUME ArgList(argv)
  PROVE  Audited = [k \in 1 .. Len(argv) - 1 |-> Text(argv[k + 1])]
<1>1. Len(argv) \in Nat
  BY ArgFacts
<1>2. Len(argv) - 2 + 1 = Len(argv) - 1 /\ \A k \in 1 .. Len(argv) - 1 : 2 + k - 1 = k + 1
  BY <1>1
<1> QED BY <1>2 DEF Audited, Texts

LEMMA VerifyStep == ASSUME CliInv, Verify PROVE CliInv'
<1>1. /\ stage = "vetting" /\ cmd = "verify" /\ cmd' = cmd /\ argv' = argv /\ roots' = roots
      /\ UNCHANGED <<cmd, argv, disk, vetted, roots, entries>>
  BY DEF Verify
<1> DEFINE expected == parse_hex_root(Arg(1))
           evs == [k \in 1 .. Len(argv) - 1 |-> Text(argv[k + 1])]
<1>2. Len(argv) \in Nat /\ ArgList(argv) /\ \A e \in roots : EventList(e)
  BY ArgFacts DEF CliInv, Histories
<1>3. CASE expected = << >> \/ Len(argv) < 2
  <2>1. Print1(Refusal) /\ Refusal.valid # 1
    BY <1>3, RefusalFacts DEF Verify
  <2>5. stdout = << >>
    BY <1>1 DEF CliInv, Silent
  <2>2. stdout'[1] = Refusal
    BY <2>1, <2>5, OneLine
  <2>3. ASSUME argv # << >>, Hex(argv[1]), NEW e \in roots PROVE e # evs
    <3>1. Arg(1) = argv[1]
      BY <1>2, <2>3, ArgFacts
    <3>2. expected # << >>
      BY <2>3, <3>1 DEF Hex, parse_hex_root
    <3>3. Len(argv) - 1 <= 0
      BY <1>2, <1>3, <3>2
    <3>4. 1 .. Len(argv) - 1 = {}
      BY <1>2, <3>3
    <3>5. DOMAIN evs = {}
      BY <3>4
    <3>6. DOMAIN e # {}
      BY <1>2, ListFacts DEF EventList
    <3> HIDE DEF evs
    <3> QED BY <3>5, <3>6
  <2>4. VerifyTellsEvents'
    <3>1. ASSUME argv' # << >>, Hex(argv'[1]), NEW e \in roots' PROVE
            /\ e # [k \in 1 .. Len(argv') - 1 |-> Text(argv'[k + 1])]
            /\ stdout'[1].valid # 1
      BY <1>1, <2>1, <2>2, <2>3, <3>1
    <3> QED BY <3>1 DEF VerifyTellsEvents, Hex, Text
  <2> QED BY <1>1, <2>1, <2>4, RefusalFacts, HistoriesKept, AnswerStep DEF FileCommands
<1>4. CASE ~(expected = << >> \/ Len(argv) < 2)
  <2> DEFINE val == expected[1]
             line == IF chain_verify(Audited, val) THEN Line(1, val) ELSE Line(0, chain_root(Audited))
  <2>1. Print1(line)
    BY <1>4 DEF Verify
  <2>2. 1 \in 1 .. Len(argv) /\ Hex(argv[1]) /\ Len(argv) >= 2
    BY <1>2, <1>4, HexArg
  <2>3. val = argv[1].val /\ IsList(val)
    <3>1. Arg(1) = argv[1]
      BY <1>2, <2>2, ArgFacts
    <3>2. expected = <<argv[1].val>>
      BY <2>2, <3>1 DEF parse_hex_root, Hex
    <3>3. IsList(argv[1].val)
      BY <1>2, <2>2 DEF ArgList
    <3> QED BY <3>2, <3>3
  <2>4. EventList(Audited) /\ Audited = evs
    <3>1. EventList(Texts(2))
      BY <1>2, <2>2, TextsMade
    <3> QED BY <1>2, <3>1, AuditedIs DEF Audited
  <2> HIDE DEF val, expected
  <2>5. /\ line.valid = 1 <=> chain_root(Audited) = val
        /\ IsList(line.val)
    <3>1. Audited # << >>
      BY <2>4, NoList DEF EventList
    <3>2. IsList(chain_root(Audited))
      BY <2>4, RootIsList
    <3> QED BY <2>3, <3>1, <3>2, LineFacts DEF chain_verify
  <2> HIDE DEF line, evs
  <2>10. stdout = << >>
    BY <1>1 DEF CliInv, Silent
  <2>6. stdout'[1] = line
    BY <2>1, <2>10, OneLine
  <2>7. ASSUME NEW e \in roots, argv[1].val = chain_root(e)
        PROVE  /\ e = evs => line.valid = 1
               /\ line.valid = 1 /\ Plain(e) /\ Plain(evs) => e = evs
    <3>1. EventList(e)
      BY <1>2
    <3>2. chain_root(Audited) = chain_root(e) /\ Plain(e) /\ Plain(evs) => Audited = e
      BY <2>4, <3>1, PlainWords, RootTells
    <3> QED BY <2>3, <2>4, <2>5, <2>7, <3>2
  <2>8. VerifyTellsEvents'
    <3>1. ASSUME NEW e \in roots', argv'[1].val = chain_root(e)
          PROVE  LET given == [k \in 1 .. Len(argv') - 1 |-> Text(argv'[k + 1])]
                 IN  /\ e = given => stdout'[1].valid = 1
                     /\ stdout'[1].valid = 1 /\ Plain(e) /\ Plain(given) => e = given
      BY <1>1, <2>6, <2>7, <3>1 DEF evs
    <3> QED BY <3>1 DEF VerifyTellsEvents, Text, chain_root, Plain
  <2>9. MalformedIsRefused'
    <3>1. Len(argv') >= 2 /\ Hex(argv'[1])
      BY <1>1, <2>2
    <3> QED BY <1>1, <3>1 DEF MalformedIsRefused, SeedCommands, Hex
  <2> QED BY <1>1, <2>1, <2>5, <2>8, <2>9, HistoriesKept, AnswerStep DEF FileCommands
<1> QED BY <1>3, <1>4

----------------------------------------------------------------------------
(* Files                                                                   *)

\* A file command has answered.
LEMMA FileStep ==
  ASSUME CliInv, stage \in {"vetting", "reading"}, cmd \in FileCommands,
         NEW line, Print1(line), IsList(line.val),
         UNCHANGED <<cmd, argv, disk, roots, entries>>, LimitHolds'
  PROVE  CliInv'
<1>1. stdout = << >>
  BY DEF CliInv, Silent
<1>2. /\ stage' = "exit" /\ told' = line.val
      /\ stdout' = <<line>> /\ Len(stdout') = 1
  BY <1>1, OneLine
<1>3. ArgvsAreLists' /\ ArgList(argv)' /\ IsList(told)' /\ Silent'
  <2>1. IsList(told') /\ ArgList(argv')
    BY <1>2 DEF CliInv
  <2>2. ArgvsAreLists'
    BY DEF CliInv, ArgvsAreLists, ArgList, IsList
  <2>3. ArgList(argv)'
    BY <2>1 DEF ArgList, IsList
  <2>4. IsList(told)'
    BY <2>1 DEF IsList
  <2>5. Silent'
    BY <1>2 DEF CliInv, Silent
  <2> QED BY <2>2, <2>3, <2>4, <2>5
<1>4. OneAnswer' /\ VerifyTellsEvents'
  BY <1>2 DEF OneAnswer, VerifyTellsEvents, FileCommands
<1>5. MalformedIsRefused'
  BY DEF MalformedIsRefused, SeedCommands, FileCommands
<1> QED BY <1>3, <1>4, <1>5, HistoriesKept DEF CliInv, OneHonestAnswer

LEMMA BlockedStep == ASSUME CliInv, Blocked PROVE CliInv'
<1>1. /\ stage = "vetting" /\ cmd \in FileCommands /\ Print1(Refusal)
      /\ UNCHANGED <<cmd, argv, disk, roots, entries>> /\ attested' = attested
  BY DEF Blocked, Refuse
<1>2. LimitHolds'
  BY <1>1 DEF CliInv, Silent, LimitHolds
<1> QED BY <1>1, <1>2, RefusalFacts, FileStep

LEMMA VetStep == ASSUME CliInv, Vet PROVE CliInv'
<1>1. /\ stage = "vetting" /\ cmd \in FileCommands
      /\ UNCHANGED <<cmd, argv, disk, roots, entries>>
      /\ stdout = << >> /\ attested = << >> /\ disk.size \in Int
  BY DEF Vet, CliInv, Silent
<1>2. CASE Refuse
  <2>1. LimitHolds'
    BY <1>1, <1>2 DEF Refuse, LimitHolds
  <2> QED BY <1>1, <1>2, <2>1, RefusalFacts, FileStep DEF Refuse
<1>3. CASE ~Refuse
  <2>1. stage' = "reading" /\ UNCHANGED <<stdout, told, attested>>
    BY <1>3 DEF Vet
  <2>2. vetted' \in Int /\ vetted' <= MAX_FILE_SIZE
    <3>1. vetted' = -1 \/ (vetted' = Reported /\ ~(Reported > MAX_FILE_SIZE))
      BY <1>3 DEF Vet, is_file_too_large
    <3>2. MAX_FILE_SIZE \in Nat /\ Reported \in Int
      BY <1>1, CliAssumption DEF Reported
    <3> QED BY <3>1, <3>2
  <2>3. Silent'
    BY <1>1, <2>1, <2>2 DEF Silent
  <2> QED BY <1>1, <2>1, <2>3, HistoriesKept, QuietStep DEF CliInv
<1> QED BY <1>2, <1>3

LEMMA ChangeStep == ASSUME CliInv, FileChanges PROVE CliInv'
<1>1. /\ stage = "reading" /\ stage' = stage
      /\ UNCHANGED <<cmd, argv, vetted, stdout, attested, told, roots, entries>>
  BY DEF FileChanges
<1>2. disk'.size \in Int
  <2>1. disk' \in [path : {disk.path}, kind : {"file", "absent"}, size : FileSizes]
    BY DEF FileChanges
  <2>2. disk'.size \in FileSizes
    BY <2>1
  <2>3. \A x \in FileSizes : x \in Int
    BY CliAssumption
  <2> QED BY <2>2, <2>3
<1>3. Silent'
  BY <1>1, <1>2 DEF CliInv, Silent
<1> QED BY <1>1, <1>3, HistoriesKept, QuietStep DEF CliInv

LEMMA ReadFileStep == ASSUME CliInv, ReadFile PROVE CliInv'
<1>1. /\ stage = "reading" /\ cmd \in FileCommands
      /\ UNCHANGED <<cmd, argv, disk, roots, entries>> /\ vetted' = vetted
      /\ attested = << >> /\ disk.size \in Int /\ vetted \in Int /\ vetted <= MAX_FILE_SIZE
  BY DEF ReadFile, CliInv, Silent
<1>2. CASE Refuse
  <2>1. LimitHolds'
    BY <1>1, <1>2 DEF Refuse, LimitHolds
  <2> QED BY <1>1, <1>2, <2>1, RefusalFacts, FileStep DEF Refuse
<1>3. CASE Engine(<<disk.size>>)
  <2>1. PICK line \in Answers(runs) : Print1(line)
    BY <1>3 DEF Engine
  <2>2. attested'[1] = disk.size
    BY <1>3 DEF Engine
  <2>3. LimitHolds'
    <3>1. MAX_FILE_SIZE \in Nat
      BY CliAssumption
    <3>2. attested'[1] <= MAX_FILE_SIZE \/ vetted' # attested'[1]
      BY <1>1, <2>2, <3>1
    <3> QED BY <3>2 DEF LimitHolds
  <2> QED BY <1>1, <2>1, <2>3, AnswersAreLists, FileStep
<1> QED BY <1>2, <1>3 DEF ReadFile

LEMMA ExitStep == ASSUME CliInv, Exit PROVE CliInv'
<1>1. /\ stage' = "shell" /\ disk' = NoFile /\ argv' = << >> /\ UNCHANGED <<told, roots, entries>>
  BY DEF Exit
<1>2. Silent'
  BY <1>1 DEF Silent, NoFile
<1> QED BY <1>1, <1>2, NoArgs, HistoriesKept, QuietStep DEF CliInv

LEMMA ShellStep == ASSUME CliInv, NewShell PROVE CliInv'
<1>1. /\ stage = "shell" /\ stage' = "shell" /\ disk' = disk /\ argv' = argv /\ told' = << >>
      /\ roots' = {} /\ entries' = << >>
  BY DEF NewShell, Dash
<1>2. Silent'
  BY <1>1 DEF CliInv, Silent
<1>3. Histories'
  <2>1. 1 .. 0 = {}
    OBVIOUS
  <2>2. IsList(entries') /\ Len(entries') = 0
    BY <1>1, NoList
  <2>3. IsList(entries)'
    BY <2>2 DEF IsList
  <2>4. \A k \in 1 .. Len(entries') : FALSE
    BY <2>1, <2>2
  <2>5. (\A k \in 1 .. Len(entries) : Placed(entries[k]))'
    BY <2>4
  <2> QED BY <1>1, <2>3, <2>5 DEF Histories
<1>4. ArgList(argv') /\ IsList(told')
  BY <1>1, NoList DEF CliInv
<1> QED BY <1>1, <1>2, <1>3, <1>4, QuietStep

----------------------------------------------------------------------------
(* Chain entries                                                           *)

\* The recorded entries, one more.
LEMMA EntryKept ==
  ASSUME CliInv, NEW event, NEW prev, NEW typed, Entry(event, prev, typed), roots' = roots,
         IsList(event), Len(event) # 0,
         prev = IF Hex(typed) THEN <<typed.val>> ELSE << >>
  PROVE  Histories'
<1> DEFINE e == [event |-> event, prev |-> prev, typed |-> typed, data |-> attested']
<1>1. entries' = Append(entries, e) /\ attested' = prev \o event
  BY DEF Entry, chain_data
<1>2. e.event = event /\ e.prev = prev /\ e.typed = typed /\ e.data = prev \o event
  BY <1>1
<1> HIDE DEF e
<1>3. Placed(e)
  BY <1>2 DEF Placed
<1>4. IsList(entries) /\ Len(entries) \in Nat /\ \A k \in 1 .. Len(entries) : Placed(entries[k])
  BY ListFacts DEF CliInv, Histories
<1>5. /\ IsList(entries') /\ Len(entries') = Len(entries) + 1
      /\ entries'[Len(entries) + 1] = e
      /\ \A k \in 1 .. Len(entries) : entries'[k] = entries[k]
  BY <1>1, <1>4, ListAppend
<1>6. ASSUME NEW k \in 1 .. Len(entries') PROVE Placed(entries'[k])
  <2>1. CASE k = Len(entries) + 1
    BY <1>3, <1>5, <2>1
  <2>2. CASE k # Len(entries) + 1
    <3>1. k \in 1 .. Len(entries)
      BY <1>4, <1>5, <2>2
    <3> QED BY <1>4, <1>5, <3>1
  <2> QED BY <2>1, <2>2
<1>7. IsList(entries)'
  BY <1>5 DEF IsList
<1>8. (\A evs \in roots : EventList(evs))'
  <2>1. \A evs \in roots' : EventList(evs)
    BY DEF CliInv, Histories
  <2> QED BY <2>1 DEF EventList, IsList
<1>9. (\A k \in 1 .. Len(entries) : Placed(entries[k]))'
  BY <1>6 DEF Placed, IsList, Hex
<1> QED BY <1>7, <1>8, <1>9 DEF Histories

LEMMA ChainEntryStep == ASSUME CliInv, ChainEntry PROVE CliInv'
<1> DEFINE event == Text(Arg(1))
           typed == Arg(2)
           prev == Previous(typed)
<1>1. /\ stage = "vetting" /\ cmd = "chain-entry" /\ Entry(event, prev, typed)
      /\ UNCHANGED <<cmd, argv, disk, vetted>> /\ roots' = roots
  BY DEF ChainEntry
<1>2. PICK line \in Answers(runs) : Print1(line)
  BY DEF ChainEntry
<1>3. IsList(event) /\ Len(event) # 0
  BY TextIs
<1>4. prev = IF Hex(typed) THEN <<typed.val>> ELSE << >>
  BY DEF Previous, parse_hex_root, Hex
<1> HIDE DEF event, typed, prev
<1>6. Histories'
  BY <1>1, <1>3, <1>4, EntryKept
<1>7. MalformedIsRefused'
  BY <1>1 DEF MalformedIsRefused, SeedCommands
<1> QED BY <1>1, <1>2, <1>6, <1>7, AnswersAreLists, AnswerStep DEF FileCommands

LEMMA LibraryStep ==
  ASSUME CliInv, NEW event, NEW prev, LibraryEntry(event, prev),
         prev = << >> \/ \E v : prev = <<v>>, IsList(event), Len(event) # 0
  PROVE  CliInv'
<1> DEFINE typed == IF prev = << >> THEN Missing ELSE [form |-> "hex", val |-> prev[1]]
<1>1. /\ stage = "shell" /\ stage' = stage /\ Entry(event, prev, typed)
      /\ argv' = argv /\ disk' = disk /\ roots' = roots
  BY DEF LibraryEntry
<1>2. PICK line \in Answers(runs') : told' = line.val
  BY DEF LibraryEntry
<1>3. prev = IF Hex(typed) THEN <<typed.val>> ELSE << >>
  <2>1. CASE prev = << >>
    BY <2>1 DEF Hex, Missing
  <2>2. CASE prev # << >>
    <3>1. PICK v : prev = <<v>>
      BY <2>2
    <3>2. prev[1] = v
      BY <3>1, OneElement
    <3>3. typed.form = "hex" /\ typed.val = v
      BY <2>2, <3>2
    <3> HIDE DEF typed
    <3> QED BY <3>1, <3>3 DEF Hex
  <2> QED BY <2>1, <2>2
<1> HIDE DEF typed
<1>4. Histories'
  BY <1>1, <1>3, EntryKept
<1>5. IsList(told')
  BY <1>2, AnswersAreLists
<1>6. Silent'
  BY <1>1 DEF CliInv, Silent
<1> QED BY <1>1, <1>4, <1>5, <1>6, QuietStep DEF CliInv

\* An old transcript and a word, together.
LEMMA OneMore ==
  ASSUME NEW s, IsList(s), NEW a
  PROVE  /\ IsList(s \o <<a>>) /\ Len(s \o <<a>>) = Len(s) + 1
         /\ (s \o <<a>>)[Len(s) + 1] = a
         /\ \A k \in 1 .. Len(s) : (s \o <<a>>)[k] = s[k]
<1> DEFINE U == {s[k] : k \in DOMAIN s} \cup {a}
           t == <<a>>
           v == s \o t
<1>1. s \in Seq(U) /\ t \in Seq(U) /\ Len(t) = 1 /\ t[1] = a
  BY DEF IsList
<1> HIDE DEF U, t
<1>2. /\ v \in Seq(U) /\ Len(v) = Len(s) + Len(t)
      /\ \A i \in 1 .. Len(s) + Len(t) : v[i] = IF i <= Len(s) THEN s[i] ELSE t[i - Len(s)]
  BY <1>1, ConcatProperties
<1>3. Len(s) \in Nat
  BY ListFacts
<1> HIDE DEF v
<1>4. IsList(v) /\ Len(v) = Len(s) + 1
  BY <1>1, <1>2, SeqIsList
<1>5. v[Len(s) + 1] = a
  <2>1. Len(s) + 1 \in 1 .. Len(s) + Len(t) /\ ~(Len(s) + 1 <= Len(s)) /\ Len(s) + 1 - Len(s) = 1
    BY <1>1, <1>3
  <2> QED BY <1>1, <1>2, <2>1
<1>6. \A k \in 1 .. Len(s) : v[k] = s[k]
  BY <1>1, <1>2, <1>3
<1> QED BY <1>4, <1>5, <1>6 DEF v, t

LEMMA TranscriptsAre ==
  ASSUME NEW old \in Transcripts PROVE IsList(old) /\ (old = << >> \/ \E v : old = <<v>>)
<1>1. old = << >> \/ \E v : old = <<v>>
  BY DEF Transcripts
<1> QED BY <1>1, NoList, OneElement

\* Every step keeps the invariant.
LEMMA CliStep == CliInv /\ [CliNext]_cliVars => CliInv'
<1> SUFFICES ASSUME CliInv, [CliNext]_cliVars PROVE CliInv'
  OBVIOUS
<1>1. ASSUME NEW c \in Commands, NEW args \in Argvs(c, told), Invoke(c, args) PROVE CliInv'
  BY <1>1, InvokeStep
<1>2. ASSUME NEW a, NEW old \in Transcripts,
             LibraryEntry(old \o Text(a[1]), << >>) \/ LibraryEntry(Text(a[1]), old)
      PROVE  CliInv'
  <2> DEFINE event == Text(a[1])
             long == old \o event
  <2>1. IsList(old) /\ (old = << >> \/ \E v : old = <<v>>) /\ Len(old) \in Nat
    BY TranscriptsAre, ListFacts
  <2>2. IsList(event) /\ Len(event) # 0 /\ Len(event) \in Nat
    BY TextIs, ListFacts
  <2> HIDE DEF event
  <2>3. IsList(long) /\ Len(long) = Len(old) + Len(event)
    BY <2>1, <2>2, ListConcat
  <2> HIDE DEF long
  <2>4. CASE LibraryEntry(long, << >>)
    <3>1. Len(long) # 0
      BY <2>1, <2>2, <2>3
    <3> QED BY <2>3, <2>4, <3>1, LibraryStep
  <2>5. CASE LibraryEntry(event, old)
    BY <2>1, <2>2, <2>5, LibraryStep
  <2> QED BY <1>2, <2>4, <2>5 DEF long, event
<1>3. CASE Help
  BY <1>3, HelpStep
<1>4. CASE Sign \/ BlindSign \/ HybridSign
  BY <1>4, SignStep DEF Sign, BlindSign, HybridSign, TextCommands
<1>5. CASE Threshold
  BY <1>5, ThresholdStep
<1>6. CASE BatchSign
  BY <1>6, BatchStep
<1>7. CASE Chain \/ ChainRoot
  BY <1>7, ChainStep
<1>8. CASE Verify
  BY <1>8, VerifyStep
<1>9. CASE ProveHashPreimage \/ ProveMlDsa \/ ProvePedersen
  BY <1>9, SeedStep DEF ProveHashPreimage, ProveMlDsa, ProvePedersen, SeedCommands
<1>10. CASE ProveRange
  BY <1>10, RangeStep
<1>11. CASE VmExecute
  BY <1>11, VmStep
<1>12. CASE ProveMerkleRoot
  BY <1>12, MerkleRootStep
<1>13. CASE Include
  BY <1>13, IncludeStep
<1>14. CASE ChainEntry
  BY <1>14, ChainEntryStep
<1>15. CASE Blocked
  BY <1>15, BlockedStep
<1>16. CASE Vet
  BY <1>16, VetStep
<1>17. CASE FileChanges
  BY <1>17, ChangeStep
<1>18. CASE ReadFile
  BY <1>18, ReadFileStep
<1>19. CASE Exit
  BY <1>19, ExitStep
<1>20. CASE NewShell
  BY <1>20, ShellStep
<1>21. CASE UNCHANGED cliVars
  <2>1. UNCHANGED <<stage, cmd, argv, disk, vetted, stdout, attested, told, roots, entries, runs>>
    BY <1>21 DEF cliVars
  <2>2. ArgList(argv') /\ IsList(told') /\ Histories'
    BY <2>1, HistoriesKept DEF CliInv
  <2>3. ArgList(argv)' /\ IsList(told)' /\ ArgvsAreLists'
    <3>1. ArgvsAreLists'
      BY DEF CliInv, ArgvsAreLists, ArgList, IsList
    <3> QED BY <2>2, <3>1 DEF ArgList, IsList
  <2>4. Silent'
    BY <2>1 DEF CliInv, Silent
  <2>5. OneHonestAnswer'
    BY <2>1 DEF CliInv, OneHonestAnswer, OneAnswer, CanAbort, Arg, MalformedIsRefused, LimitHolds, Hex,
               Number
  <2>6. VerifyTellsEvents'
    BY <2>1 DEF CliInv, VerifyTellsEvents, Hex, Text, chain_root, Plain
  <2> QED BY <2>2, <2>3, <2>4, <2>5, <2>6 DEF CliInv
<1> QED BY <1>1, <1>2, <1>3, <1>4, <1>5, <1>6, <1>7, <1>8, <1>9, <1>10, <1>11, <1>12, <1>13,
           <1>14, <1>15, <1>16, <1>17, <1>18, <1>19, <1>20, <1>21 DEF CliNext

LEMMA CliStart == ASSUME ArgvsAreLists, CliInit PROVE CliInv
<1>1. /\ stage = "shell" /\ argv = << >> /\ disk = NoFile /\ told = << >> /\ roots = {}
      /\ entries = << >>
  BY DEF CliInit, Dash
<1>2. Silent
  BY <1>1 DEF Silent, NoFile
<1>3. Histories
  <2>1. 1 .. 0 = {}
    OBVIOUS
  <2>2. IsList(entries) /\ Len(entries) = 0
    BY <1>1, NoList
  <2> QED BY <1>1, <2>1, <2>2 DEF Histories
<1>4. OneHonestAnswer /\ VerifyTellsEvents
  BY <1>1 DEF OneHonestAnswer, OneAnswer, MalformedIsRefused, LimitHolds, VerifyTellsEvents
<1> QED BY <1>1, <1>2, <1>3, <1>4, NoArgs, NoList DEF CliInv

\* What an entry is linked to comes before its event, and is one symbol.
LEMMA LinkedData ==
  ASSUME NEW e, Placed(e), NEW v, e.prev = <<v>>
  PROVE  /\ IsList(e.data) /\ Len(e.data) = 1 + Len(e.event) /\ e.data[1] = v
         /\ \A k \in 1 .. Len(e.event) : e.data[1 + k] = e.event[k]
<1> DEFINE p == <<v>>
           x == e.event
           U == {v} \cup {x[k] : k \in DOMAIN x}
           d == e.data
<1>1. IsList(x) /\ d = p \o x
  BY DEF Placed
<1>2. p \in Seq(U) /\ Len(p) = 1 /\ p[1] = v
  OBVIOUS
<1> HIDE DEF p, x, d
<1>3. x \in Seq(U)
  BY <1>1 DEF IsList
<1> HIDE DEF U
<1>4. /\ p \o x \in Seq(U) /\ Len(p \o x) = Len(p) + Len(x)
      /\ \A i \in 1 .. Len(p) + Len(x) : (p \o x)[i] = IF i <= Len(p) THEN p[i] ELSE x[i - Len(p)]
  BY <1>2, <1>3, ConcatProperties
<1>5. IsList(d)
  BY <1>1, <1>4, SeqIsList
<1>6. Len(x) \in Nat /\ Len(d) = 1 + Len(x) /\ d[1] = v
  BY <1>1, <1>2, <1>3, <1>4
<1>7. ASSUME NEW k \in 1 .. Len(x) PROVE d[1 + k] = x[k]
  <2>1. 1 + k \in 1 .. Len(p) + Len(x) /\ ~(1 + k <= Len(p)) /\ 1 + k - Len(p) = k
    BY <1>2, <1>6
  <2> QED BY <1>1, <1>4, <2>1
<1> QED BY <1>5, <1>6, <1>7 DEF d, x

LEMMA FirstData == ASSUME NEW e, Placed(e), e.prev = << >> PROVE e.data = e.event
<1> DEFINE x == e.event
<1>1. IsList(x) /\ e.data = << >> \o x
  BY DEF Placed
<1> HIDE DEF x
<1>2. x \in Seq({x[k] : k \in DOMAIN x})
  BY <1>1 DEF IsList
<1>3. << >> \o x = x
  BY <1>2
<1> QED BY <1>1, <1>3 DEF x

\* Entries whose data are equal are one, or one of them is a first entry with an event
\* that is no single word.
LEMMA PlacesTold ==
  ASSUME NEW d, NEW e, Placed(d), Placed(e), d.data = e.data,
         ~(d.prev = << >> /\ Len(d.event) > 1), ~(e.prev = << >> /\ Len(e.event) > 1)
  PROVE  d.event = e.event /\ d.prev = e.prev
<1>1. /\ d.prev = << >> \/ \E v : d.prev = <<v>>
      /\ e.prev = << >> \/ \E v : e.prev = <<v>>
  BY DEF Placed
<1>2. /\ IsList(d.event) /\ IsList(e.event) /\ Len(d.event) \in Nat \ {0} /\ Len(e.event) \in Nat \ {0}
  BY ListFacts DEF Placed
<1>3. CASE d.prev = << >> /\ e.prev = << >>
  BY <1>3, FirstData
<1>4. ASSUME NEW v, d.prev = <<v>>, NEW w, e.prev = <<w>>
      PROVE  d.event = e.event /\ d.prev = e.prev
  <2>1. /\ Len(d.data) = 1 + Len(d.event) /\ d.data[1] = v
        /\ \A k \in 1 .. Len(d.event) : d.data[1 + k] = d.event[k]
    BY <1>4, LinkedData
  <2>2. /\ Len(e.data) = 1 + Len(e.event) /\ e.data[1] = w
        /\ \A k \in 1 .. Len(e.event) : e.data[1 + k] = e.event[k]
    BY <1>4, LinkedData
  <2>3. Len(d.event) = Len(e.event) /\ v = w
    BY <1>2, <2>1, <2>2
  <2>4. \A k \in 1 .. Len(d.event) : d.event[k] = e.event[k]
    BY <2>1, <2>2, <2>3
  <2> QED BY <1>2, <1>4, <2>3, <2>4, ListEqual
<1>5. ASSUME NEW a, NEW b, Placed(a), Placed(b), a.data = b.data, a.prev = << >>,
             Len(b.event) \in Nat \ {0}, NEW v, b.prev = <<v>>
      PROVE  Len(a.event) > 1
  <2>1. Len(b.data) = 1 + Len(b.event) /\ a.data = a.event
    BY <1>5, LinkedData, FirstData
  <2> QED BY <1>5, <2>1
<1>6. CASE d.prev = << >> /\ \E v : e.prev = <<v>>
  BY <1>2, <1>5, <1>6
<1>7. CASE e.prev = << >> /\ \E v : d.prev = <<v>>
  BY <1>2, <1>5, <1>7
<1> QED BY <1>1, <1>3, <1>4, <1>6, <1>7

LEMMA EntriesTold == ASSUME CliInv PROVE TypedTranscriptLinks /\ EntryTellsPlace
<1>1. DOMAIN entries = 1 .. Len(entries) /\ \A k \in DOMAIN entries : Placed(entries[k])
  BY ListFacts DEF CliInv, Histories
<1>2. TypedTranscriptLinks
  BY <1>1 DEF TypedTranscriptLinks, Placed
<1>3. ASSUME NEW i \in DOMAIN entries, NEW j \in DOMAIN entries,
             entries[i].data = entries[j].data,
             ~\E k \in {i, j} : entries[k].prev = << >> /\ Len(entries[k].event) > 1
      PROVE  entries[i].event = entries[j].event /\ entries[i].prev = entries[j].prev
  BY <1>1, <1>3, PlacesTold
<1> QED BY <1>2, <1>3 DEF EntryTellsPlace

\* Whatever is typed, and in whichever order commands follow each other, an invocation
\* prints one line (none for help, none when it aborts, which CanAbort bounds), says
\* valid=1 to no malformed argument, and reads no more of a file that is not replaced than
\* is_file_too_large allows (main.rs:25-303, 304-447).
THEOREM HonestAnswers == ArgvsAreLists /\ CliSpec => []OneHonestAnswer
<1>1. CliInv => OneHonestAnswer
  BY DEF CliInv
<1>2. ArgvsAreLists /\ CliInit => CliInv
  BY CliStart
<1> QED BY <1>1, <1>2, CliStep, PTL DEF CliSpec

\* A root that chain or chain-root prints is accepted by verify for its own events, and
\* for no others that are free of the separator (chain.rs:47-89); 64 digits that are typed
\* link the entry to them in either case, and nothing else does (main.rs:255-280,
\* 492-504); and what is attested for an entry tells its event and its place, but for
\* first entries with an event of more than one word (interface.rs:507-525).
THEOREM PrintedIsTaken == ArgvsAreLists /\ CliSpec => []PrintedIsUnderstood
<1>1. CliInv => PrintedIsUnderstood
  BY EntriesTold DEF CliInv, PrintedIsUnderstood
<1>2. ArgvsAreLists /\ CliInit => CliInv
  BY CliStart
<1> QED BY <1>1, <1>2, CliStep, PTL DEF CliSpec

----------------------------------------------------------------------------
(* Appending to what is flattened                                          *)

\* One part more.
LEMMA FlattenMore ==
  ASSUME NEW S, IsList(S), NEW T, IsList(T), Len(T) = Len(S) + 1,
         \A k \in 1 .. Len(S) : T[k] = S[k],
         NEW U, T[Len(S) + 1] \in Seq(U)
  PROVE  FlattenSeq(T) = FlattenSeq(S) \o T[Len(S) + 1]
<1> DEFINE n == Len(S)
           t == T[n + 1]
<1>0. n \in Nat
  BY ListFacts
<1>1. PICK f : FlattenSeq(T) = f[n + 1] /\ Flattens(f, T)
  BY <1>0, FlattenRecursion
<1>2. f[n + 1] = IF n + 1 = 1 THEN t ELSE f[n + 1 - 1] \o t
  BY <1>0, <1>1 DEF Flattens
<1>3. CASE n = 0
  <2>1. FlattenSeq(T) = t
    BY <1>1, <1>2, <1>3
  <2>2. FlattenSeq(S) = << >>
    BY <1>3, EmptyIs, FlattenEmpty
  <2>3. << >> \o t = t
    BY DEF t
  <2> QED BY <2>1, <2>2, <2>3
<1>4. CASE n # 0
  <2>1. FlattenSeq(T) = f[n] \o t
    <3>1. n + 1 # 1 /\ n + 1 - 1 = n
      BY <1>0, <1>4
    <3> HIDE DEF n, t
    <3> QED BY <1>1, <1>2, <3>1
  <2>2. Flattens(f, S)
    <3>1. ASSUME NEW i \in 1 .. n PROVE f[i] = IF i = 1 THEN S[i] ELSE f[i - 1] \o S[i]
      <4>1. i \in 1 .. Len(T) /\ T[i] = S[i]
        BY <1>0
      <4> QED BY <1>1, <4>1 DEF Flattens
    <3> QED BY <3>1 DEF Flattens
  <2>3. FlattenSeq(S) = f[n]
    BY <1>4, <2>2, FlattenIs
  <2> QED BY <2>1, <2>3
<1> QED BY <1>3, <1>4

----------------------------------------------------------------------------
(* What an accumulator holds                                               *)

\* The part of Content that comes from one byte.
Kept(b) == IF b \in Bytes THEN <<b>> ELSE << >>

LEMMA KeptTyped == ASSUME NEW b PROVE Kept(b) \in Seq(Bytes)
BY DEF Kept

LEMMA ContentParts ==
  ASSUME NEW x, IsList(x)
  PROVE  /\ Content(x) = FlattenSeq([k \in 1 .. Len(x) |-> Kept(x[k])])
         /\ IsList([k \in 1 .. Len(x) |-> Kept(x[k])])
         /\ Len([k \in 1 .. Len(x) |-> Kept(x[k])]) = Len(x)
         /\ Content(x) \in Seq(Bytes)
<1> DEFINE T == [k \in 1 .. Len(x) |-> Kept(x[k])]
<1>1. Len(x) \in Nat /\ DOMAIN x = 1 .. Len(x)
  BY ListFacts
<1>2. Content(x) = FlattenSeq(T)
  BY <1>1 DEF Content, Kept
<1>3. T = [k \in 1 .. Len(x) |-> T[k]] /\ \A k \in 1 .. Len(x) : T[k] = Kept(x[k])
  OBVIOUS
<1> HIDE DEF T
<1>4. IsList(T) /\ Len(T) = Len(x)
  BY <1>1, <1>3, ListMade
<1>5. \A k \in 1 .. Len(T) : T[k] \in Seq(Bytes)
  BY <1>3, <1>4, KeptTyped
<1>6. FlattenSeq(T) \in Seq(Bytes)
  BY <1>4, <1>5, FlattenTyped
<1> QED BY <1>2, <1>4, <1>6 DEF T

LEMMA ContentEmpty == Content(<< >>) = << >>
<1> DEFINE T == [k \in 1 .. Len(<< >>) |-> Kept(<< >>[k])]
<1>1. Content(<< >>) = FlattenSeq(T) /\ IsList(T) /\ Len(T) = 0
  BY NoList, ContentParts
<1> HIDE DEF T
<1> QED BY <1>1, EmptyIs, FlattenEmpty

\* One byte more.
LEMMA ContentMore ==
  ASSUME NEW x, IsList(x), NEW y, IsList(y), Len(y) = Len(x) + 1,
         \A k \in 1 .. Len(x) : y[k] = x[k]
  PROVE  Content(y) = Content(x) \o Kept(y[Len(x) + 1])
<1> DEFINE S == [k \in 1 .. Len(x) |-> Kept(x[k])]
           T == [k \in 1 .. Len(y) |-> Kept(y[k])]
<1>0. Len(x) \in Nat
  BY ListFacts
<1>1. Content(x) = FlattenSeq(S) /\ IsList(S) /\ Len(S) = Len(x)
  BY ContentParts
<1>2. Content(y) = FlattenSeq(T) /\ IsList(T) /\ Len(T) = Len(y)
  BY ContentParts
<1>3. \A k \in 1 .. Len(x) : T[k] = S[k]
  <2> SUFFICES ASSUME NEW k \in 1 .. Len(x) PROVE T[k] = S[k]
    OBVIOUS
  <2>1. k \in 1 .. Len(y) /\ y[k] = x[k]
    BY <1>0
  <2> QED BY <2>1
<1>4. T[Len(x) + 1] = Kept(y[Len(x) + 1]) /\ Kept(y[Len(x) + 1]) \in Seq(Bytes)
  <2>1. Len(x) + 1 \in 1 .. Len(y)
    BY <1>0
  <2>2. T[Len(x) + 1] = Kept(y[Len(x) + 1])
    BY <2>1
  <2> QED BY <2>2, KeptTyped
<1> HIDE DEF S, T
<1>5. FlattenSeq(T) = FlattenSeq(S) \o T[Len(S) + 1]
  BY <1>1, <1>2, <1>3, <1>4, FlattenMore
<1> QED BY <1>1, <1>2, <1>4, <1>5

LEMMA BytesAreNumbers == /\ \A b \in Bytes : b \in Nat /\ b < 256
                         /\ \A b \in Names : b \in Bytes
                         /\ \A s \in Seq(Bytes) : s \in Seq(Nat)
                         /\ HEAD \notin Bytes /\ STEP \notin Bytes
<1>1. Bytes \subseteq 0 .. 255 /\ Names \subseteq Bytes
  BY StreamAssumption
<1>2. \A b \in Bytes : b \in Nat /\ b < 256
  BY <1>1
<1>3. Bytes \subseteq Nat
  BY <1>2
<1>4. \A s \in Seq(Bytes) : s \in Seq(Nat)
  BY <1>3, SeqMonotonic
<1>5. HEAD \notin Bytes /\ STEP \notin Bytes
  BY <1>2 DEF HEAD, STEP
<1> QED BY <1>1, <1>2, <1>4, <1>5

\* A sequence and one element more, at once as concatenation.
LEMMA ContentOne ==
  ASSUME NEW x \in Seq(Nat), NEW b \in Nat
  PROVE  Content(x \o <<b>>) = Content(x) \o Kept(b)
<1> DEFINE y == x \o <<b>>
<1>1. IsList(x)
  BY SeqIsList
<1>2. /\ IsList(y) /\ Len(y) = Len(x) + 1 /\ y[Len(x) + 1] = b
      /\ \A k \in 1 .. Len(x) : y[k] = x[k]
  BY <1>1, OneMore
<1> HIDE DEF y
<1>3. Content(y) = Content(x) \o Kept(y[Len(x) + 1])
  BY <1>1, <1>2, ContentMore
<1> QED BY <1>2, <1>3 DEF y

\* What follows the separator is kept as it is.
LEMMA ContentBytes ==
  ASSUME NEW x \in Seq(Nat), NEW e \in Seq(Bytes)
  PROVE  Content(x \o e) = Content(x) \o e
<1> DEFINE P(m) == SubSeq(e, 1, m)
           C == Content(x)
           A == {m \in Nat : m <= Len(e) => Content(x \o P(m)) = C \o P(m)}
<1>1. Len(e) \in Nat /\ e \in Seq(Nat)
  BY BytesAreNumbers
<1>2. C \in Seq(Bytes)
  BY SeqIsList, ContentParts
<1>3. ASSUME NEW m \in Nat, m <= Len(e) PROVE P(m) \in Seq(Bytes) /\ P(m) \in Seq(Nat)
  <2>1. \A i \in 1 .. m : e[i] \in Bytes
    BY <1>1, <1>3, ElementOfSeq
  <2>2. SubSeq(e, 1, m) \in Seq(Bytes)
    BY <2>1, SubSeqProperties
  <2> QED BY <2>2, BytesAreNumbers
<1>4. 0 \in A
  <2>1. P(0) = << >>
    BY SubSeqEmpty
  <2>2. x \o << >> = x /\ C \o << >> = C
    BY <1>2, ConcatEmptySeq
  <2> HIDE DEF P
  <2> QED BY <2>1, <2>2
<1>5. ASSUME NEW m \in Nat, m \in A PROVE m + 1 \in A
  <2> SUFFICES ASSUME m + 1 <= Len(e) PROVE Content(x \o P(m + 1)) = C \o P(m + 1)
    OBVIOUS
  <2> DEFINE p == P(m)
             q == P(m + 1)
             b == e[m + 1]
             bs == <<b>>
  <2>1. m <= Len(e) /\ m + 1 \in 1 .. Len(e) /\ b \in Bytes
    BY <1>1, ElementOfSeq
  <2>2. q = p \o <<b>>
    <3>1. 1 \in 1 .. Len(e) /\ m + 1 \in 1 .. Len(e) /\ m + 1 - 1 = m
      BY <1>1, <2>1
    <3>2. SubSeq(e, 1, m + 1) = SubSeq(e, 1, m + 1 - 1) \o <<e[m + 1]>>
      BY <3>1, SubSeqRecursiveSecond
    <3> QED BY <3>1, <3>2
  <2>3. Content(x \o p) = C \o p
    BY <1>5, <2>1
  <2>4. p \in Seq(Nat) /\ p \in Seq(Bytes) /\ b \in Nat /\ Kept(b) = bs /\ bs \in Seq(Nat)
    <3>1. p \in Seq(Nat) /\ p \in Seq(Bytes)
      BY <1>3, <2>1
    <3>2. b \in Nat
      BY <2>1, BytesAreNumbers
    <3> HIDE DEF b
    <3> QED BY <2>1, <3>1, <3>2 DEF Kept
  <2> HIDE DEF p, q, b, C, P
  <2>5. x \o q = (x \o p) \o <<b>> /\ C \o q = (C \o p) \o <<b>> /\ x \o p \in Seq(Nat)
    <3>1. C \in Seq(Nat) /\ x \in Seq(Nat)
      BY <1>2, BytesAreNumbers
    <3> HIDE DEF bs
    <3>5. p \in Seq(Nat) /\ bs \in Seq(Nat)
      BY <2>4
    <3>2. (x \o p) \o bs = x \o (p \o bs)
      BY ONLY <3>1, <3>5, SMTT(60)
    <3>3. (C \o p) \o bs = C \o (p \o bs)
      BY ONLY <3>1, <3>5, SMTT(60)
    <3>4. x \o p \in Seq(Nat)
      BY <2>4, <3>1, ConcatProperties
    <3> QED BY <2>2, <3>2, <3>3, <3>4 DEF bs
  <2> DEFINE xp == x \o p
  <2>6. Content(xp \o <<b>>) = Content(xp) \o Kept(b)
    <3>1. xp \in Seq(Nat)
      BY <2>5
    <3> HIDE DEF xp
    <3> QED BY <2>4, <3>1, ContentOne
  <2>7. Content(x \o q) = C \o q
    BY <2>3, <2>4, <2>5, <2>6
  <2> QED BY <2>7 DEF q
<1> HIDE DEF A, P, C
<1>6. \A m \in Nat : m \in A
  BY <1>4, <1>5, Induction
<1>7. Content(x \o P(Len(e))) = C \o P(Len(e))
  BY <1>1, <1>6 DEF A
<1>8. P(Len(e)) = e
  BY SubSeqFull DEF P
<1> QED BY <1>7, <1>8 DEF C

\* An event more in the accumulator.
LEMMA ContentAbsorbed ==
  ASSUME NEW x \in Seq(Nat), NEW e \in Seq(Bytes)
  PROVE  Content(Absorbed(x, e)) = Content(x) \o e /\ Absorbed(x, e) \in Seq(Nat)
<1> DEFINE t == <<STEP>>
           y == x \o t
<1>1. Content(x \o <<STEP>>) = Content(x) \o Kept(STEP)
  <2>1. STEP \in Nat
    BY DEF STEP
  <2> QED BY <2>1, ContentOne
<1>2. Kept(STEP) = << >>
  BY BytesAreNumbers DEF Kept
<1>3. Content(x) \o << >> = Content(x)
  <2> DEFINE C == Content(x)
  <2>1. C \in Seq(Bytes)
    BY SeqIsList, ContentParts
  <2> HIDE DEF C
  <2>2. C \o << >> = C
    BY <2>1, ConcatEmptySeq
  <2> QED BY <2>2 DEF C
<1>4. t \in Seq(Nat)
  BY DEF STEP
<1> HIDE DEF t
<1>5. y \in Seq(Nat)
  BY <1>4, ConcatProperties
<1> HIDE DEF y
<1>6. Content(y \o e) = Content(y) \o e /\ y \o e \in Seq(Nat)
  BY <1>5, ContentBytes, BytesAreNumbers, ConcatProperties
<1>7. Absorbed(x, e) = y \o e
  BY DEF Absorbed, y, t
<1> QED BY <1>1, <1>2, <1>3, <1>6, <1>7 DEF y, t

----------------------------------------------------------------------------
(* The one-shot root, event by event                                       *)

\* What chain_root absorbs for one event.
Stepped(e) == <<STEP>> \o e

LEMMA SteppedTyped == ASSUME NEW e \in Seq(Bytes) PROVE Stepped(e) \in Seq(Nat)
<1>1. e \in Seq(Nat) /\ <<STEP>> \in Seq(Nat)
  BY BytesAreNumbers DEF STEP
<1> QED BY <1>1, ConcatProperties DEF Stepped

LEMMA RootParts ==
  ASSUME NEW evs \in Seq(Seq(Bytes))
  PROVE  /\ chain_root(evs) = <<HEAD>> \o FlattenSeq([k \in 1 .. Len(evs) |-> Stepped(evs[k])])
         /\ IsList([k \in 1 .. Len(evs) |-> Stepped(evs[k])])
         /\ Len([k \in 1 .. Len(evs) |-> Stepped(evs[k])]) = Len(evs)
         /\ FlattenSeq([k \in 1 .. Len(evs) |-> Stepped(evs[k])]) \in Seq(Nat)
<1> DEFINE T == [k \in 1 .. Len(evs) |-> Stepped(evs[k])]
<1>1. Len(evs) \in Nat /\ DOMAIN evs = 1 .. Len(evs)
  OBVIOUS
<1>2. chain_root(evs) = <<HEAD>> \o FlattenSeq(T)
  BY <1>1 DEF chain_root, Stepped
<1>3. T = [k \in 1 .. Len(evs) |-> T[k]] /\ \A k \in 1 .. Len(evs) : T[k] = Stepped(evs[k])
  OBVIOUS
<1> HIDE DEF T
<1>4. IsList(T) /\ Len(T) = Len(evs)
  BY <1>1, <1>3, ListMade
<1>5. \A k \in 1 .. Len(T) : T[k] \in Seq(Nat)
  <2>1. \A k \in 1 .. Len(evs) : evs[k] \in Seq(Bytes)
    BY ElementOfSeq
  <2> QED BY <1>3, <1>4, <2>1, SteppedTyped
<1>6. FlattenSeq(T) \in Seq(Nat)
  BY <1>4, <1>5, FlattenTyped
<1> QED BY <1>2, <1>4, <1>6 DEF T

LEMMA RootEmpty == chain_root(<< >>) = <<HEAD>>
<1> DEFINE T == [k \in 1 .. Len(<< >>) |-> Stepped(<< >>[k])]
<1>1. << >> \in Seq(Seq(Bytes))
  OBVIOUS
<1>2. chain_root(<< >>) = <<HEAD>> \o FlattenSeq(T) /\ IsList(T) /\ Len(T) = 0
  BY <1>1, NoList, RootParts
<1> HIDE DEF T
<1>3. FlattenSeq(T) = << >>
  BY <1>2, EmptyIs, FlattenEmpty
<1>4. <<HEAD>> \o << >> = <<HEAD>>
  OBVIOUS
<1> QED BY <1>2, <1>3, <1>4

LEMMA RootTyped == ASSUME NEW evs \in Seq(Seq(Bytes)) PROVE chain_root(evs) \in Seq(Nat)
<1> DEFINE F == FlattenSeq([k \in 1 .. Len(evs) |-> Stepped(evs[k])])
           h == <<HEAD>>
<1>1. chain_root(evs) = h \o F /\ F \in Seq(Nat)
  BY RootParts
<1>2. h \in Seq(Nat)
  BY DEF HEAD
<1> HIDE DEF h, F
<1> QED BY <1>1, <1>2, ConcatProperties

\* The root of a longer list is the accumulator after one more event.
LEMMA RootMore ==
  ASSUME NEW evs \in Seq(Seq(Bytes)), NEW e \in Seq(Bytes)
  PROVE  chain_root(Append(evs, e)) = Absorbed(chain_root(evs), e)
<1> DEFINE more == Append(evs, e)
           S == [k \in 1 .. Len(evs) |-> Stepped(evs[k])]
           T == [k \in 1 .. Len(more) |-> Stepped(more[k])]
           n == Len(evs)
<1>1. /\ more \in Seq(Seq(Bytes)) /\ Len(more) = n + 1 /\ n \in Nat
      /\ more[n + 1] = e /\ \A k \in 1 .. n : more[k] = evs[k]
  BY AppendProperties
<1> HIDE DEF more
<1>2. /\ chain_root(evs) = <<HEAD>> \o FlattenSeq(S) /\ IsList(S) /\ Len(S) = n
      /\ FlattenSeq(S) \in Seq(Nat)
  BY RootParts
<1>3. /\ chain_root(more) = <<HEAD>> \o FlattenSeq(T) /\ IsList(T) /\ Len(T) = n + 1
  BY <1>1, RootParts
<1>4. \A k \in 1 .. n : T[k] = S[k]
  <2> SUFFICES ASSUME NEW k \in 1 .. n PROVE T[k] = S[k]
    OBVIOUS
  <2>1. k \in 1 .. Len(more) /\ more[k] = evs[k]
    BY <1>1
  <2> QED BY <2>1
<1>5. T[n + 1] = Stepped(e) /\ Stepped(e) \in Seq(Nat)
  <2>1. n + 1 \in 1 .. Len(more)
    BY <1>1
  <2> QED BY <1>1, <2>1, SteppedTyped
<1> HIDE DEF S, T, n
<1>6. FlattenSeq(T) = FlattenSeq(S) \o T[n + 1]
  <2>1. T[Len(S) + 1] \in Seq(Nat) /\ Len(T) = Len(S) + 1 /\ \A k \in 1 .. Len(S) : T[k] = S[k]
    BY <1>2, <1>3, <1>4, <1>5
  <2>2. FlattenSeq(T) = FlattenSeq(S) \o T[Len(S) + 1]
    BY <1>2, <1>3, <2>1, FlattenMore
  <2> QED BY <1>2, <2>2
<1> DEFINE h == <<HEAD>>
           t == <<STEP>>
           F == FlattenSeq(S)
<1>7. h \in Seq(Nat) /\ t \in Seq(Nat) /\ e \in Seq(Nat) /\ F \in Seq(Nat)
  BY <1>2, BytesAreNumbers DEF HEAD, STEP
<1>8. chain_root(more) = h \o (F \o (t \o e)) /\ Absorbed(chain_root(evs), e) = ((h \o F) \o t) \o e
  BY <1>2, <1>3, <1>5, <1>6 DEF Stepped, Absorbed
<1> HIDE DEF h, t, F
<1>9. h \o (F \o (t \o e)) = ((h \o F) \o t) \o e
  <2>1. ASSUME NEW a \in Seq(Nat), NEW b \in Seq(Nat), NEW c \in Seq(Nat)
        PROVE  (a \o b) \o c = a \o (b \o c)
    OBVIOUS
  <2>2. h \o F \in Seq(Nat) /\ t \o e \in Seq(Nat)
    BY <1>7, ConcatProperties
  <2> DEFINE hF == h \o F
             te == t \o e
  <2>3. hF \in Seq(Nat) /\ te \in Seq(Nat)
    BY <2>2
  <2>4. hF \o te = h \o (F \o te)
    <3> HIDE DEF te
    <3> QED BY <1>7, <2>1, <2>3, SMTT(30)
  <2>5. (hF \o t) \o e = hF \o (t \o e)
    <3>1. hF \in Seq(Nat) /\ t \in Seq(Nat) /\ e \in Seq(Nat)
      BY <1>7, <2>3
    <3> HIDE DEF hF
    <3> QED BY ONLY <3>1
  <2> QED BY <2>4, <2>5
<1> QED BY <1>8, <1>9 DEF more

\* The last events of a list, and those before.
LEMMA PrefixMore ==
  ASSUME NEW U, NEW s \in Seq(U), NEW m \in Nat, m + 1 <= Len(s)
  PROVE  /\ SubSeq(s, 1, m) \in Seq(U) /\ s[m + 1] \in U /\ Len(SubSeq(s, 1, m)) = m
         /\ SubSeq(s, 1, m + 1) = Append(SubSeq(s, 1, m), s[m + 1])
<1> DEFINE p == SubSeq(s, 1, m)
<1>0. Len(s) \in Nat
  OBVIOUS
<1>1. s[m + 1] \in U /\ 1 \in 1 .. Len(s) /\ m + 1 \in 1 .. Len(s) /\ m + 1 - 1 = m
  BY <1>0, ElementOfSeq
<1>2. p \in Seq(U) /\ Len(p) = m
  <2>1. \A i \in 1 .. m : s[i] \in U
    BY <1>0, ElementOfSeq
  <2>2. SubSeq(s, 1, m) \in Seq(U) /\ Len(SubSeq(s, 1, m)) = IF 1 <= m THEN m - 1 + 1 ELSE 0
    BY <2>1, SubSeqProperties
  <2> QED BY <2>2
<1>3. SubSeq(s, 1, m + 1) = SubSeq(s, 1, m + 1 - 1) \o <<s[m + 1]>>
  BY <1>1, SubSeqRecursiveSecond
<1>4. SubSeq(s, 1, m + 1) = p \o <<s[m + 1]>>
  BY <1>1, <1>3
<1> HIDE DEF p
<1>5. Append(p, s[m + 1]) = p \o <<s[m + 1]>>
  BY <1>1, <1>2, AppendIsConcat
<1> QED BY <1>1, <1>2, <1>4, <1>5 DEF p

LEMMA FlattenAppend ==
  ASSUME NEW U, NEW S \in Seq(Seq(U)), NEW a \in Seq(U)
  PROVE  FlattenSeq(Append(S, a)) = FlattenSeq(S) \o a
<1> DEFINE T == Append(S, a)
<1>1. IsList(S) /\ Len(S) \in Nat
  BY SeqIsList
<1>2. IsList(T) /\ Len(T) = Len(S) + 1 /\ T[Len(S) + 1] = a /\ \A k \in 1 .. Len(S) : T[k] = S[k]
  BY <1>1, ListAppend
<1> HIDE DEF T
<1>3. FlattenSeq(T) = FlattenSeq(S) \o T[Len(S) + 1]
  BY <1>1, <1>2, FlattenMore
<1> QED BY <1>2, <1>3 DEF T

\* A root holds the bytes of its events.
LEMMA ContentRoot ==
  ASSUME NEW evs \in Seq(Seq(Bytes))
  PROVE  Content(chain_root(evs)) = FlattenSeq(evs)
<1> DEFINE P(m) == SubSeq(evs, 1, m)
           A == {m \in Nat : m <= Len(evs) => Content(chain_root(P(m))) = FlattenSeq(P(m))}
<1>0. Len(evs) \in Nat
  OBVIOUS
<1>1. 0 \in A
  <2>1. P(0) = << >>
    BY SubSeqEmpty
  <2>2. Content(<<HEAD>>) = << >>
    <3>1. << >> \in Seq(Nat) /\ HEAD \in Nat
      BY DEF HEAD
    <3>2. Content(<< >> \o <<HEAD>>) = Content(<< >>) \o Kept(HEAD)
      BY <3>1, ContentOne
    <3>3. << >> \o <<HEAD>> = <<HEAD>> /\ << >> \o << >> = << >>
      OBVIOUS
    <3>4. Kept(HEAD) = << >>
      BY BytesAreNumbers DEF Kept
    <3> QED BY <3>2, <3>3, <3>4, ContentEmpty
  <2>3. Content(chain_root(<< >>)) = FlattenSeq(<< >>)
    BY <2>2, RootEmpty, FlattenEmpty
  <2> HIDE DEF P
  <2> QED BY <2>1, <2>3
<1>2. ASSUME NEW m \in Nat, m \in A PROVE m + 1 \in A
  <2> SUFFICES ASSUME m + 1 <= Len(evs) PROVE Content(chain_root(P(m + 1))) = FlattenSeq(P(m + 1))
    OBVIOUS
  <2> DEFINE p == P(m)
             q == P(m + 1)
             e == evs[m + 1]
  <2>1. p \in Seq(Seq(Bytes)) /\ e \in Seq(Bytes) /\ q = Append(p, e)
    BY PrefixMore
  <2>2. Content(chain_root(p)) = FlattenSeq(p)
    BY <1>0, <1>2
  <2> HIDE DEF p, q, e, P
  <2>3. chain_root(q) = Absorbed(chain_root(p), e) /\ chain_root(p) \in Seq(Nat)
    BY <2>1, RootMore, RootTyped
  <2> DEFINE r == chain_root(p)
  <2>4. Content(Absorbed(r, e)) = Content(r) \o e
    <3>1. r \in Seq(Nat)
      BY <2>3
    <3> HIDE DEF r
    <3> QED BY <2>1, <3>1, ContentAbsorbed
  <2>5. FlattenSeq(q) = FlattenSeq(p) \o e
    BY <2>1, FlattenAppend
  <2> QED BY <2>2, <2>3, <2>4, <2>5 DEF q
<1> HIDE DEF A, P
<1>3. \A m \in Nat : m \in A
  BY <1>1, <1>2, Induction
<1>4. Content(chain_root(P(Len(evs)))) = FlattenSeq(P(Len(evs)))
  BY <1>0, <1>3 DEF A
<1>5. P(Len(evs)) = evs
  BY SubSeqFull DEF P
<1> QED BY <1>4, <1>5

----------------------------------------------------------------------------
(* Sorting                                                                 *)

LEMMA BijectionIs ==
  ASSUME NEW n \in Nat, NEW f
  PROVE  f \in Bijection(1 .. n, 1 .. n) <=>
           /\ f \in [1 .. n -> 1 .. n]
           /\ \A i, j \in 1 .. n : f[i] = f[j] => i = j
           /\ \A k \in 1 .. n : \E i \in 1 .. n : f[i] = k
BY DEF Bijection, Injection, Surjection, IsInjective

\* f puts the values of g in order.
Orders(f, g, n) == \A i, j \in 1 .. n : i < j => g[f[i]] <= g[f[j]]

\* The last value has its place among the others.
LEMMA InsertionPoint ==
  ASSUME NEW n \in Nat, NEW g \in [1 .. n + 1 -> Int],
         NEW f \in [1 .. n -> 1 .. n], Orders(f, g, n)
  PROVE  \E at \in 1 .. n + 1 : /\ \A i \in 1 .. n : i < at => g[f[i]] <= g[n + 1]
                                /\ \A i \in 1 .. n : i >= at => g[n + 1] <= g[f[i]]
<1> DEFINE T == {i \in 1 .. n + 1 : i = n + 1 \/ g[f[i]] > g[n + 1]}
<1>1. T \in SUBSET Nat /\ T # {}
  <2>1. n + 1 \in T
    OBVIOUS
  <2>2. \A x \in T : x \in Nat
    OBVIOUS
  <2> QED BY <2>1, <2>2
<1>2. PICK at \in T : \A y \in T : at <= y
  BY <1>1, Least
<1>3. at \in 1 .. n + 1
  OBVIOUS
<1>4. ASSUME NEW i \in 1 .. n, i < at PROVE g[f[i]] <= g[n + 1]
  <2>1. i \notin T
    <3>1. ~(at <= i)
      BY <1>3, <1>4
    <3> QED BY <1>2, <3>1
  <2>2. f[i] \in 1 .. n + 1 /\ n + 1 \in 1 .. n + 1
    OBVIOUS
  <2>3. g[f[i]] \in Int /\ g[n + 1] \in Int
    BY <2>2
  <2> QED BY <2>1, <2>3
<1>5. ASSUME NEW i \in 1 .. n, i >= at PROVE g[n + 1] <= g[f[i]]
  <2>1. at \in 1 .. n /\ g[f[at]] > g[n + 1]
    BY <1>5
  <2>2. f[i] \in 1 .. n + 1 /\ n + 1 \in 1 .. n + 1 /\ f[at] \in 1 .. n + 1
    BY <2>1
  <2>3. g[f[i]] \in Int /\ g[n + 1] \in Int /\ g[f[at]] \in Int
    BY <2>2
  <2>4. g[f[at]] <= g[f[i]]
    BY <1>5, <2>1, <2>3 DEF Orders
  <2> QED BY <2>1, <2>3, <2>4, SMTT(40)
<1> QED BY <1>3, <1>4, <1>5

LEMMA InsertionSorts ==
  ASSUME NEW n \in Nat, NEW g \in [1 .. n + 1 -> Int],
         NEW f \in Bijection(1 .. n, 1 .. n), Orders(f, g, n)
  PROVE  \E h \in Bijection(1 .. n + 1, 1 .. n + 1) : Orders(h, g, n + 1)
<1>1. /\ f \in [1 .. n -> 1 .. n]
      /\ \A i, j \in 1 .. n : f[i] = f[j] => i = j
      /\ \A k \in 1 .. n : \E i \in 1 .. n : f[i] = k
  BY BijectionIs
<1>2. PICK at \in 1 .. n + 1 : /\ \A i \in 1 .. n : i < at => g[f[i]] <= g[n + 1]
                               /\ \A i \in 1 .. n : i >= at => g[n + 1] <= g[f[i]]
  BY <1>1, InsertionPoint
<1> DEFINE h == [k \in 1 .. n + 1 |-> IF k < at THEN f[k] ELSE IF k = at THEN n + 1 ELSE f[k - 1]]
<1>3. \A k \in 1 .. n + 1 : /\ k < at => k \in 1 .. n /\ h[k] = f[k] /\ f[k] \in 1 .. n
                            /\ k = at => h[k] = n + 1
                            /\ k > at => k - 1 \in 1 .. n /\ h[k] = f[k - 1] /\ f[k - 1] \in 1 .. n
  <2> SUFFICES ASSUME NEW k \in 1 .. n + 1
               PROVE  /\ k < at => k \in 1 .. n /\ h[k] = f[k] /\ f[k] \in 1 .. n
                      /\ k = at => h[k] = n + 1
                      /\ k > at => k - 1 \in 1 .. n /\ h[k] = f[k - 1] /\ f[k - 1] \in 1 .. n
    OBVIOUS
  <2>1. h[k] = IF k < at THEN f[k] ELSE IF k = at THEN n + 1 ELSE f[k - 1]
    OBVIOUS
  <2> HIDE DEF h
  <2>2. k < at => k \in 1 .. n
    OBVIOUS
  <2>3. k > at => k - 1 \in 1 .. n /\ ~(k < at) /\ k # at
    OBVIOUS
  <2>4. \A i \in 1 .. n : f[i] \in 1 .. n
    BY <1>1
  <2>5. k = at => ~(k < at)
    OBVIOUS
  <2> QED BY <2>1, <2>2, <2>3, <2>4, <2>5
<1>4. h \in [1 .. n + 1 -> 1 .. n + 1]
  <2>1. \A k \in 1 .. n + 1 : k < at \/ k = at \/ k > at
    OBVIOUS
  <2>2. \A k \in 1 .. n : k \in 1 .. n + 1
    OBVIOUS
  <2>3. n + 1 \in 1 .. n + 1
    OBVIOUS
  <2>4. h = [k \in 1 .. n + 1 |-> h[k]]
    OBVIOUS
  <2> HIDE DEF h
  <2>5. \A k \in 1 .. n + 1 : h[k] \in 1 .. n + 1
    BY <1>3, <2>1, <2>2, <2>3
  <2> QED BY <2>4, <2>5
<1> HIDE DEF h
<1>10. \A k \in 1 .. n + 1 : k # at => h[k] # n + 1
  <2>1. \A k \in 1 .. n + 1 : k < at \/ k = at \/ k > at
    OBVIOUS
  <2>2. n + 1 \notin 1 .. n
    OBVIOUS
  <2>3. ASSUME NEW k \in 1 .. n + 1, k # at PROVE h[k] \in 1 .. n
    <3>1. CASE k < at
      BY <1>3, <3>1
    <3>2. CASE k > at
      BY <1>3, <3>2
    <3> QED BY <2>1, <2>3, <3>1, <3>2
  <2> QED BY <2>2, <2>3
<1>5. ASSUME NEW i \in 1 .. n + 1, NEW j \in 1 .. n + 1, h[i] = h[j] PROVE i = j
  <2>1. CASE i = at
    BY <1>3, <1>5, <1>10, <2>1
  <2>2. CASE j = at
    BY <1>3, <1>5, <1>10, <2>2
  <2>3. CASE i < at /\ j < at
    BY <1>1, <1>3, <1>5, <2>3
  <2>4. CASE i > at /\ j > at
    <3>1. i - 1 = j - 1
      BY <1>1, <1>3, <1>5, <2>4
    <3> QED BY <3>1
  <2>5. CASE i < at /\ j > at
    <3>1. i = j - 1
      BY <1>1, <1>3, <1>5, <2>5
    <3> QED BY <2>5, <3>1
  <2>6. CASE i > at /\ j < at
    <3>1. j = i - 1
      BY <1>1, <1>3, <1>5, <2>6
    <3> QED BY <2>6, <3>1
  <2> QED BY <2>1, <2>2, <2>3, <2>4, <2>5, <2>6
<1>6. ASSUME NEW k \in 1 .. n + 1 PROVE \E i \in 1 .. n + 1 : h[i] = k
  <2>1. CASE k = n + 1
    BY <1>3, <2>1
  <2>2. CASE k # n + 1
    <3>1. k \in 1 .. n
      BY <2>2
    <3>2. PICK i \in 1 .. n : f[i] = k
      BY <1>1, <3>1
    <3>3. CASE i < at
      BY <1>3, <3>2, <3>3
    <3>4. CASE i >= at
      <4>1. i + 1 \in 1 .. n + 1 /\ i + 1 > at /\ i + 1 - 1 = i
        BY <3>4
      <4>2. h[i + 1] = k
        BY <1>3, <3>2, <4>1
      <4> QED BY <4>1, <4>2
    <3> QED BY <3>3, <3>4
  <2> QED BY <2>1, <2>2
<1>7. ASSUME NEW i \in 1 .. n + 1, NEW j \in 1 .. n + 1, i < j PROVE g[h[i]] <= g[h[j]]
  <2>1. CASE i = at
    <3>1. j > at /\ j - 1 >= at /\ j - 1 \in 1 .. n
      BY <1>7, <2>1
    <3> QED BY <1>2, <1>3, <2>1, <3>1
  <2>2. CASE j = at
    BY <1>2, <1>3, <1>7, <2>2
  <2>3. CASE j < at
    <3>1. i < at
      BY <1>7, <2>3
    <3> QED BY <1>3, <1>7, <2>3, <3>1 DEF Orders
  <2>4. CASE i > at
    <3>1. j > at /\ i - 1 < j - 1
      BY <1>7, <2>4
    <3> QED BY <1>3, <2>4, <3>1, ZenonT(30) DEF Orders
  <2>5. CASE i < at /\ j > at
    <3>1. i \in 1 .. n /\ j - 1 \in 1 .. n /\ j - 1 >= at
      BY <2>5
    <3>2. g[f[i]] <= g[n + 1] /\ g[n + 1] <= g[f[j - 1]]
      BY <1>2, <2>5, <3>1
    <3>3. f[i] \in 1 .. n + 1 /\ f[j - 1] \in 1 .. n + 1 /\ n + 1 \in 1 .. n + 1
      <4>1. f[i] \in 1 .. n /\ f[j - 1] \in 1 .. n
        BY <1>3, <2>5
      <4>2. \A k \in 1 .. n : k \in 1 .. n + 1
        OBVIOUS
      <4>3. n + 1 \in 1 .. n + 1
        OBVIOUS
      <4> QED BY <4>1, <4>2, <4>3
    <3>4. g[f[i]] \in Int /\ g[f[j - 1]] \in Int /\ g[n + 1] \in Int
      BY <3>3
    <3>5. h[i] = f[i] /\ h[j] = f[j - 1]
      BY <1>3, <2>5
    <3> QED BY <3>2, <3>4, <3>5
  <2> QED BY <2>1, <2>2, <2>3, <2>4, <2>5
<1>8. h \in Bijection(1 .. n + 1, 1 .. n + 1)
  <2>1. n + 1 \in Nat
    OBVIOUS
  <2> QED BY <1>4, <1>5, <1>6, <2>1, BijectionIs
<1>9. Orders(h, g, n + 1)
  BY <1>7 DEF Orders
<1> QED BY <1>8, <1>9

LEMMA SortingExists ==
  ASSUME NEW n \in Nat, NEW g \in [1 .. n -> Int]
  PROVE  \E f \in Bijection(1 .. n, 1 .. n) : Orders(f, g, n)
<1> DEFINE Sortable(m) == \A w \in [1 .. m -> Int] : \E f \in Bijection(1 .. m, 1 .. m) : Orders(f, w, m)
           A == {m \in Nat : Sortable(m)}
<1>1. 0 \in A
  <2> SUFFICES ASSUME NEW w \in [1 .. 0 -> Int]
               PROVE  \E f \in Bijection(1 .. 0, 1 .. 0) : Orders(f, w, 0)
    OBVIOUS
  <2> DEFINE f == [k \in 1 .. 0 |-> k]
  <2>1. f \in [1 .. 0 -> 1 .. 0] /\ 1 .. 0 = {}
    OBVIOUS
  <2> HIDE DEF f
  <2>2. f \in Bijection(1 .. 0, 1 .. 0)
    BY <2>1, BijectionIs
  <2>3. Orders(f, w, 0)
    BY <2>1 DEF Orders
  <2> QED BY <2>2, <2>3
<1>2. ASSUME NEW m \in Nat, m \in A PROVE m + 1 \in A
  <2> SUFFICES ASSUME NEW w \in [1 .. m + 1 -> Int]
               PROVE  \E f \in Bijection(1 .. m + 1, 1 .. m + 1) : Orders(f, w, m + 1)
    OBVIOUS
  <2> DEFINE v == [k \in 1 .. m |-> w[k]]
  <2>1. v \in [1 .. m -> Int] /\ \A k \in 1 .. m : v[k] = w[k]
    OBVIOUS
  <2> HIDE DEF v
  <2>2. PICK f \in Bijection(1 .. m, 1 .. m) : Orders(f, v, m)
    BY <1>2, <2>1
  <2>3. Orders(f, w, m)
    <3>1. f \in [1 .. m -> 1 .. m]
      BY BijectionIs
    <3>2. ASSUME NEW i \in 1 .. m, NEW j \in 1 .. m, i < j PROVE w[f[i]] <= w[f[j]]
      <4>1. f[i] \in 1 .. m /\ f[j] \in 1 .. m
        BY <3>1
      <4>2. v[f[i]] = w[f[i]] /\ v[f[j]] = w[f[j]]
        BY <2>1, <4>1
      <4>3. v[f[i]] <= v[f[j]]
        BY <2>2, <3>2 DEF Orders
      <4> QED BY <4>2, <4>3
    <3> QED BY <3>2 DEF Orders
  <2> QED BY <2>3, InsertionSorts
<1> HIDE DEF A
<1>3. \A m \in Nat : m \in A
  BY <1>1, <1>2, Induction
<1>4. Sortable(n)
  BY <1>3 DEF A
<1> QED BY <1>4

\* What Sorted makes of a listing without repetitions.
LEMMA SortedIs ==
  ASSUME NEW ps \in Seq(Names), \A i, j \in DOMAIN ps : ps[i] = ps[j] => i = j
  PROVE  /\ Sorted(ps) \in Seq(Names) /\ Len(Sorted(ps)) = Len(ps)
         /\ {Sorted(ps)[k] : k \in DOMAIN Sorted(ps)} = {ps[k] : k \in DOMAIN ps}
         /\ \A i, j \in DOMAIN Sorted(ps) : i < j => Sorted(ps)[i] < Sorted(ps)[j]
<1> DEFINE n == Len(ps)
           B == Bijection(1 .. n, 1 .. n)
           Q == {[k \in 1 .. n |-> ps[f[k]]] : f \in B}
           InOrder(qs) == \A i, j \in 1 .. n : i < j => qs[i] <= qs[j]
           qs == CHOOSE q \in Q : InOrder(q)
<1>1. n \in Nat /\ DOMAIN ps = 1 .. n /\ ps \in [1 .. n -> Int]
  <2>1. n \in Nat /\ DOMAIN ps = 1 .. n /\ ps \in [1 .. n -> Names]
    BY LenProperties
  <2>2. \A p \in Names : p \in Int
    BY BytesAreNumbers
  <2> QED BY <2>1, <2>2
<1>2. Sorted(ps) = qs
  BY <1>1 DEF Sorted
<1>3. \E q \in Q : InOrder(q)
  <2>1. PICK f \in B : Orders(f, ps, n)
    BY <1>1, SortingExists
  <2> DEFINE q == [k \in 1 .. n |-> ps[f[k]]]
  <2>2. q \in Q
    OBVIOUS
  <2>3. InOrder(q)
    BY <2>1 DEF Orders
  <2> QED BY <2>2, <2>3
<1>4. qs \in Q /\ InOrder(qs)
  BY <1>3
<1> HIDE DEF qs
<1>5. PICK f \in B : qs = [k \in 1 .. n |-> ps[f[k]]]
  BY <1>4
<1>6. /\ f \in [1 .. n -> 1 .. n]
      /\ \A i, j \in 1 .. n : f[i] = f[j] => i = j
      /\ \A k \in 1 .. n : \E i \in 1 .. n : f[i] = k
  BY <1>1, BijectionIs
<1> HIDE DEF B, Q
<1>7. qs \in Seq(Names) /\ Len(qs) = n /\ DOMAIN qs = 1 .. n /\ \A k \in 1 .. n : qs[k] = ps[f[k]]
  <2>1. qs \in [1 .. n -> Names]
    BY <1>1, <1>5, <1>6
  <2> QED BY <1>1, <1>5, <2>1
<1>10. \A k \in 1 .. n : f[k] \in 1 .. n /\ ps[f[k]] \in Int
  <2>1. \A k \in 1 .. n : f[k] \in 1 .. n
    BY <1>6
  <2>2. \A k \in 1 .. n : ps[k] \in Int
    BY <1>1
  <2> QED BY <2>1, <2>2
<1>8. {qs[k] : k \in 1 .. n} = {ps[k] : k \in 1 .. n}
  <2>1. ASSUME NEW k \in 1 .. n PROVE qs[k] \in {ps[i] : i \in 1 .. n}
    BY <1>7, <1>10
  <2>2. ASSUME NEW k \in 1 .. n PROVE ps[k] \in {qs[i] : i \in 1 .. n}
    <3>1. PICK i \in 1 .. n : f[i] = k
      BY <1>6
    <3>2. qs[i] = ps[k]
      BY <1>7, <3>1
    <3> QED BY <3>2
  <2> QED BY <2>1, <2>2
<1>9. ASSUME NEW i \in 1 .. n, NEW j \in 1 .. n, i < j PROVE qs[i] < qs[j]
  <2>1. qs[i] <= qs[j]
    BY <1>4, <1>9
  <2>2. qs[i] # qs[j]
    <3>1. f[i] # f[j] /\ f[i] \in 1 .. n /\ f[j] \in 1 .. n
      <4>1. i # j
        BY <1>1, <1>9
      <4> QED BY <1>6, <1>10, <4>1
    <3>2. ps[f[i]] # ps[f[j]]
      BY <1>1, <3>1
    <3> QED BY <1>7, <3>2
  <2>3. qs[i] \in Int /\ qs[j] \in Int
    BY <1>7, <1>10
  <2> QED BY <2>1, <2>2, <2>3
<1> HIDE DEF n
<1>11. DOMAIN Sorted(ps) = 1 .. n
  BY <1>2, <1>7
<1>12. {Sorted(ps)[k] : k \in DOMAIN Sorted(ps)} = {ps[k] : k \in DOMAIN ps}
  BY <1>1, <1>2, <1>8, <1>11
<1>13. \A i, j \in DOMAIN Sorted(ps) : i < j => Sorted(ps)[i] < Sorted(ps)[j]
  BY <1>2, <1>9, <1>11
<1>14. Sorted(ps) \in Seq(Names) /\ Len(Sorted(ps)) = Len(ps)
  BY <1>2, <1>7 DEF n
<1> QED BY <1>12, <1>13, <1>14

----------------------------------------------------------------------------
(* What a call has covered so far                                          *)

World(w) == \A p \in Names : w[p].kind \in Kinds /\ w[p].data \in Seq(Bytes)

\* What is absorbed for a file: in a list of files its name, then its bytes.
Name(e, p) == IF e \in {"files", "directory"} THEN <<p>> ELSE << >>
Item(e, w, ps, k) == Name(e, ps[k]) \o w[ps[k]].data
Flat(e, w, ps, m) == FlattenSeq([k \in 1 .. m |-> Item(e, w, ps, k)])

\* What precedes the bytes of the file that is being read.
Begun(e, w, ps, f) == IF e = "merkle" THEN << >> ELSE Flat(e, w, ps, f - 1) \o Name(e, ps[f])

\* The leaves of the first m files.
Leaves(w, ps, hs, m) ==
  /\ hs \in Seq(Seq(Nat)) /\ Len(hs) = m
  /\ \A k \in 1 .. m : Content(hs[k]) = w[ps[k]].data

\* The paths of a directory that is being listed: each file once.
Listed(w, ps, left) ==
  /\ {ps[k] : k \in DOMAIN ps} = {p \in Names \ left : w[p].kind = "file"}
  /\ \A i, j \in DOMAIN ps : ps[i] = ps[j] => i = j

\* The paths once they are sorted.
Visible(w, ps) ==
  /\ {ps[k] : k \in DOMAIN ps} = {p \in Names : w[p].kind = "file"}
  /\ \A i, j \in DOMAIN ps : i < j => ps[i] < ps[j]

FileEntries == {"stream", "files", "directory", "merkle"}

\* What r, a root or the leaves of one, says about a call.
Covered(e, w, ps, evs, r) ==
  /\ e \in FileEntries \cup {"chain"}
  /\ e = "directory" => Visible(w, ps)
  /\ e # "merkle" => r[1] = chain_root(evs)
  /\ e = "stream" => Len(ps) = 1
  /\ e \in FileEntries \ {"merkle"} => Content(r[1]) = Flat(e, w, ps, Len(ps))
  /\ e = "merkle" => Leaves(w, ps, r, Len(ps))

Result == IF entry = "merkle" THEN hashes ELSE <<xof>>

Phases == {"idle", "listing", "opening", "reading", "filled", "ending", "done"}

\* The accumulator is the root of its events.
Chained == events \in Seq(Seq(Bytes)) /\ xof = chain_root(events) /\ count = Len(events)

Files == World(fs) /\ paths \in Seq(Names)

Untouched == events = << >> /\ hashes = << >>

Listing == Untouched /\ entry = "directory" /\ file = 1 /\ Listed(fs, paths, unlisted) /\ unlisted \subseteq Names

Underway ==
  /\ entry \in FileEntries /\ file \in 1 .. Len(paths)
  /\ entry = "stream" => Len(paths) = 1
  /\ entry = "directory" => Visible(fs, paths)
  /\ entry = "merkle" => Leaves(fs, paths, hashes, file - 1)

Opening == entry # "merkle" => Content(xof) = Flat(entry, fs, paths, file - 1)

Data == fs[paths[file]].data

Reading ==
  /\ pos \in 0 .. Len(Data)
  /\ Content(xof) = Begun(entry, fs, paths, file) \o SubSeq(Data, 1, pos)

Filled == buf \in Seq(Bytes) /\ pos + Len(buf) <= Len(Data) /\ buf = SubSeq(Data, pos + 1, pos + Len(buf))

\* The inductive invariant of a call.
CoverInv ==
  /\ phase \in Phases /\ Chained /\ Files
  /\ phase = "idle" => Untouched
  /\ phase = "listing" => Listing
  /\ phase \in {"opening", "reading", "filled"} => Underway
  /\ phase = "opening" => Opening
  /\ phase \in {"reading", "filled"} => Reading
  /\ phase = "filled" => Filled
  /\ phase = "ending" => Covered(entry, fs, paths, events, Result)
  /\ Done => Covered(entry, fs, paths, events, root) /\ (entry # "merkle" => events # << >>)

----------------------------------------------------------------------------
LEMMA NameTyped == ASSUME NEW e, NEW p \in Names PROVE Name(e, p) \in Seq(Bytes)
<1>1. p \in Bytes
  BY BytesAreNumbers
<1> QED BY <1>1 DEF Name

LEMMA ItemTyped ==
  ASSUME NEW e, NEW w, World(w), NEW ps \in Seq(Names), NEW k \in 1 .. Len(ps)
  PROVE  Item(e, w, ps, k) \in Seq(Bytes) /\ w[ps[k]].data \in Seq(Bytes) /\ ps[k] \in Names
<1>1. ps[k] \in Names
  BY ElementOfSeq
<1> DEFINE a == Name(e, ps[k])
           b == w[ps[k]].data
<1>2. a \in Seq(Bytes) /\ b \in Seq(Bytes)
  BY <1>1, NameTyped DEF World
<1> HIDE DEF a, b
<1>3. a \o b \in Seq(Bytes)
  BY <1>2
<1> QED BY <1>1, <1>2, <1>3 DEF a, b, Item

LEMMA FlatParts ==
  ASSUME NEW e, NEW w, World(w), NEW ps \in Seq(Names), NEW m \in 0 .. Len(ps),
         NEW T, DOMAIN T = 1 .. m, T = [k \in 1 .. m |-> T[k]],
         \A k \in 1 .. m : T[k] = Item(e, w, ps, k)
  PROVE  T \in Seq(Seq(Bytes)) /\ Len(T) = m /\ FlattenSeq(T) \in Seq(Bytes)
<1>0. Len(ps) \in Nat /\ m \in Nat /\ \A k \in 1 .. m : k \in 1 .. Len(ps)
  OBVIOUS
<1>1. \A k \in 1 .. m : Item(e, w, ps, k) \in Seq(Bytes)
  BY <1>0, ItemTyped
<1>2. T \in [1 .. m -> Seq(Bytes)]
  BY <1>1
<1>6. T \in Seq(Seq(Bytes)) /\ Len(T) = m
  BY <1>0, <1>2
<1>3. IsList(T) /\ \A k \in 1 .. Len(T) : T[k] \in Seq(Bytes)
  BY <1>2, <1>6, SeqIsList
<1>4. FlattenSeq(T) \in Seq(Bytes)
  BY <1>3, FlattenTyped
<1> QED BY <1>6, <1>4

LEMMA FlatNone == ASSUME NEW e, NEW w, NEW ps PROVE Flat(e, w, ps, 0) = << >>
<1> DEFINE T == [k \in 1 .. 0 |-> Item(e, w, ps, k)]
<1>1. T = [k \in 1 .. 0 |-> T[k]]
  OBVIOUS
<1> HIDE DEF T
<1>2. IsList(T) /\ Len(T) = 0
  BY <1>1, ListMade
<1>3. FlattenSeq(T) = << >>
  BY <1>2, EmptyIs, FlattenEmpty
<1> QED BY <1>3 DEF Flat, T

LEMMA FlatMore ==
  ASSUME NEW e, NEW w, World(w), NEW ps \in Seq(Names), NEW f \in 1 .. Len(ps)
  PROVE  Flat(e, w, ps, f) = (Flat(e, w, ps, f - 1) \o Name(e, ps[f])) \o w[ps[f]].data
<1> DEFINE S == [k \in 1 .. f - 1 |-> Item(e, w, ps, k)]
           T == [k \in 1 .. f |-> Item(e, w, ps, k)]
           a == FlattenSeq(S)
           b == Name(e, ps[f])
           c == w[ps[f]].data
<1>0. Len(ps) \in Nat /\ f \in 0 .. Len(ps) /\ f - 1 \in 0 .. Len(ps) /\ f - 1 + 1 = f
  OBVIOUS
<1>1. S \in Seq(Seq(Bytes)) /\ Len(S) = f - 1 /\ a \in Seq(Bytes)
  <2>1. /\ DOMAIN S = 1 .. f - 1 /\ S = [k \in 1 .. f - 1 |-> S[k]]
        /\ \A k \in 1 .. f - 1 : S[k] = Item(e, w, ps, k)
    OBVIOUS
  <2> HIDE DEF S
  <2> QED BY <1>0, <2>1, FlatParts
<1>2. T \in Seq(Seq(Bytes)) /\ Len(T) = f /\ FlattenSeq(T) \in Seq(Bytes)
  <2>1. /\ DOMAIN T = 1 .. f /\ T = [k \in 1 .. f |-> T[k]]
        /\ \A k \in 1 .. f : T[k] = Item(e, w, ps, k)
    OBVIOUS
  <2>2. f \in 0 .. Len(ps)
    BY <1>0
  <2> HIDE DEF T, S, a, b, c
  <2>3. World(w) /\ ps \in Seq(Names)
    OBVIOUS
  <2> QED BY ONLY <2>1, <2>2, <2>3, FlatParts
<1>3. \A k \in 1 .. f - 1 : T[k] = S[k]
  <2> SUFFICES ASSUME NEW k \in 1 .. f - 1 PROVE T[k] = S[k]
    OBVIOUS
  <2>1. k \in 1 .. f
    BY <1>0
  <2> QED BY <2>1
<1>4. T[f] = Item(e, w, ps, f) /\ Item(e, w, ps, f) \in Seq(Bytes)
  <2>1. f \in 1 .. f
    BY <1>0
  <2> QED BY <2>1, ItemTyped
<1> HIDE DEF S, T
<1>5. FlattenSeq(T) = a \o (b \o c)
  <2>1. IsList(S) /\ IsList(T) /\ Len(T) = Len(S) + 1 /\ T[Len(S) + 1] \in Seq(Bytes)
    BY <1>0, <1>1, <1>2, <1>4, SeqIsList
  <2>2. \A k \in 1 .. Len(S) : T[k] = S[k]
    BY <1>1, <1>3
  <2>3. FlattenSeq(T) = FlattenSeq(S) \o T[Len(S) + 1]
    BY <2>1, <2>2, FlattenMore
  <2> QED BY <1>0, <1>1, <1>4, <2>3 DEF Item
<1>6. b \in Seq(Bytes) /\ c \in Seq(Bytes)
  BY ItemTyped, NameTyped
<1>7. Flat(e, w, ps, f) = FlattenSeq(T) /\ Flat(e, w, ps, f - 1) = a
  BY DEF Flat, S, T
<1> HIDE DEF a, b, c
<1>8. a \o (b \o c) = (a \o b) \o c
  BY <1>1, <1>6, SMTT(60)
<1> QED BY <1>5, <1>7, <1>8 DEF b, c

LEMMA CoverStart == Init => CoverInv
<1> SUFFICES ASSUME Init PROVE CoverInv
  OBVIOUS
<1>1. events \in Seq(Seq(Bytes)) /\ xof = chain_root(events) /\ count = Len(events)
  BY RootEmpty, NoList DEF Init
<1>2. World(fs) /\ paths \in Seq(Names)
  <2>1. ASSUME NEW p \in Names PROVE fs[p].kind \in Kinds /\ fs[p].data \in Seq(Bytes)
    <3>1. fs[p] = [kind |-> "absent", data |-> << >>]
      BY DEF Init, Nothing
    <3>2. << >> \in Seq(Bytes)
      OBVIOUS
    <3> QED BY <3>1, <3>2 DEF Kinds
  <2> QED BY <2>1 DEF World, Init
<1> QED BY <1>1, <1>2 DEF CoverInv, Init, Phases, Chained, Files, Untouched, Done

\* An early return, with an error.
LEMMA ErrStep ==
  ASSUME CoverInv, Err, Chained', Files' PROVE CoverInv'
<1>1. phase' = "done" /\ result' = "err"
  BY DEF Err
<1> QED BY <1>1 DEF CoverInv, Phases, Done

LEMMA KeptAsIs == ASSUME CoverInv, UNCHANGED <<chain, fs, paths>> PROVE Chained' /\ Files'
BY DEF CoverInv, Chained, Files, World, chain

LEMMA AbsorbFacts ==
  ASSUME CoverInv, NEW e \in Seq(Bytes), Absorb(e)
  PROVE  Chained' /\ Content(xof') = Content(xof) \o e /\ Content(xof) \in Seq(Bytes)
<1>1. /\ events \in Seq(Seq(Bytes)) /\ xof = chain_root(events) /\ count = Len(events)
      /\ xof' = Absorbed(xof, e) /\ count' = count + 1 /\ events' = Append(events, e)
  BY DEF CoverInv, Chained, Absorb
<1>2. xof \in Seq(Nat)
  BY <1>1, RootTyped
<1>3. Content(Absorbed(xof, e)) = Content(xof) \o e
  BY <1>2, ContentAbsorbed
<1>4. chain_root(Append(events, e)) = Absorbed(chain_root(events), e)
  BY <1>1, RootMore
<1>5. events' \in Seq(Seq(Bytes)) /\ Len(events') = Len(events) + 1
  BY <1>1, AppendProperties
<1>6. Content(xof) \in Seq(Bytes)
  BY <1>2, SeqIsList, ContentParts
<1>7. xof' = chain_root(events')
  BY <1>1, <1>4
<1> QED BY <1>1, <1>3, <1>5, <1>6, <1>7 DEF Chained

LEMMA NoContent == Content(chain_root(<< >>)) = << >>
<1>1. << >> \in Seq(Seq(Bytes))
  OBVIOUS
<1> QED BY <1>1, ContentRoot, FlattenEmpty

LEMMA FreshFacts == ASSUME Fresh PROVE Chained' /\ Content(xof') = << >>
<1>1. xof' = <<HEAD>> /\ count' = 0 /\ events' = << >>
  BY DEF Fresh
<1>2. events' \in Seq(Seq(Bytes)) /\ count' = Len(events') /\ xof' = chain_root(events')
  BY <1>1, RootEmpty, NoList
<1> QED BY <1>1, <1>2, NoContent DEF Chained

\* A call that goes on to open its first file.
LEMMA OpeningStep ==
  ASSUME CoverInv, phase = "idle", phase' = "opening", UNCHANGED <<chain, hashes>>, file' = 1,
         World(fs'), paths' \in Seq(Names), Len(paths') >= 1,
         entry' \in {"stream", "files", "merkle"}, entry' = "stream" => Len(paths') = 1
  PROVE  CoverInv'
<1>1. events' = << >> /\ hashes' = << >> /\ xof' = chain_root(<< >>)
  BY DEF CoverInv, Untouched, Chained, chain
<1>2. Chained' /\ Files'
  <2>1. Chained'
    BY DEF CoverInv, Chained, chain
  <2> QED BY <2>1 DEF Files
<1>3. Opening'
  <2>1. file' - 1 = 0
    OBVIOUS
  <2>2. Flat(entry', fs', paths', file' - 1) = << >>
    BY <2>1, FlatNone
  <2> QED BY <1>1, <2>2, NoContent DEF Opening
<1>4. Underway'
  <2>1. file' \in 1 .. Len(paths')
    <3>1. Len(paths') \in Nat
      OBVIOUS
    <3> QED BY <3>1
  <2>2. Leaves(fs', paths', hashes', file' - 1)
    <3>1. hashes' \in Seq(Seq(Nat)) /\ Len(hashes') = 0
      BY <1>1, NoList
    <3>2. file' - 1 = 0 /\ 1 .. 0 = {}
      OBVIOUS
    <3> QED BY <3>1, <3>2 DEF Leaves
  <2> QED BY <2>1, <2>2 DEF Underway, FileEntries
<1> QED BY <1>2, <1>3, <1>4 DEF CoverInv, Phases, Done

LEMMA WorldsTyped == ASSUME NEW w \in Worlds PROVE World(w)
BY StreamAssumption DEF World

LEMMA StreamBegun ==
  ASSUME CoverInv, NEW w \in Worlds, NEW p \in Names, NEW n, BeginStream(w, p, n) PROVE CoverInv'
<1>1. /\ phase = "idle" /\ entry' = "stream" /\ fs' = w /\ paths' = <<p>> /\ file' = 1
      /\ UNCHANGED <<chain, hashes>>
  BY DEF BeginStream, Begin
<1>2. World(fs') /\ paths' \in Seq(Names) /\ Len(paths') = 1
  BY <1>1, WorldsTyped
<1>3. CASE Err
  <2>1. Chained' /\ Files'
    BY <1>1, <1>2 DEF CoverInv, Chained, Files, chain
  <2> QED BY <1>3, <2>1, ErrStep
<1>4. CASE phase' = "opening"
  BY <1>1, <1>2, <1>4, OpeningStep
<1> QED BY <1>3, <1>4 DEF BeginStream

LEMMA FilesBegun ==
  ASSUME CoverInv, NEW w \in Worlds, NEW e \in {"files", "merkle"}, NEW ps \in ArgLists, NEW n,
         BeginFiles(e, w, ps, n)
  PROVE  CoverInv'
<1>1. /\ phase = "idle" /\ entry' = e /\ fs' = w /\ paths' = ps /\ file' = 1
      /\ UNCHANGED <<chain, hashes>>
  BY DEF BeginFiles, Begin
<1>2. World(fs') /\ paths' \in Seq(Names) /\ ps \in Seq(Names)
  BY <1>1, WorldsTyped, StreamAssumption
<1>3. CASE Err
  <2>1. Chained' /\ Files'
    BY <1>1, <1>2 DEF CoverInv, Chained, Files, chain
  <2> QED BY <1>3, <2>1, ErrStep
<1>4. CASE ps # << >> /\ phase' = "opening"
  <2>1. Len(paths') >= 1
    <3>1. Len(ps) \in Nat \ {0}
      BY <1>2, <1>4, EmptySeq
    <3> QED BY <1>1, <3>1
  <2> QED BY <1>1, <1>2, <1>4, <2>1, OpeningStep
<1> QED BY <1>3, <1>4 DEF BeginFiles

LEMMA DirectoryBegun ==
  ASSUME CoverInv, NEW w \in Worlds, NEW n, BeginDirectory(w, n) PROVE CoverInv'
<1>1. /\ phase = "idle" /\ entry' = "directory" /\ fs' = w /\ paths' = << >> /\ file' = 1
      /\ UNCHANGED <<chain, hashes>>
  BY DEF BeginDirectory, Begin
<1>2. World(fs') /\ paths' \in Seq(Names)
  BY <1>1, WorldsTyped
<1>3. Chained' /\ Files'
  BY <1>1, <1>2 DEF CoverInv, Chained, Files, chain
<1>4. CASE Err
  BY <1>3, <1>4, ErrStep
<1>5. CASE phase' = "listing" /\ unlisted' = {p \in Names : w[p].kind # "absent"}
  <2>1. Untouched'
    BY <1>1 DEF CoverInv, Untouched, chain
  <2>2. Listed(fs', paths', unlisted')
    <3>1. DOMAIN paths' = {}
      BY <1>1
    <3>2. {p \in Names \ unlisted' : fs'[p].kind = "file"} = {}
      BY <1>1, <1>5
    <3> QED BY <3>1, <3>2 DEF Listed
  <2>3. Listing'
    BY <1>1, <1>5, <2>1, <2>2 DEF Listing
  <2> QED BY <1>3, <1>5, <2>3 DEF CoverInv, Phases, Done
<1> QED BY <1>4, <1>5 DEF BeginDirectory

LEMMA ChainBegun ==
  ASSUME CoverInv, NEW evs \in EventLists, BeginChain(evs) PROVE CoverInv'
<1>1. phase = "idle" /\ entry' = "chain" /\ fs' = Nothing /\ paths' = << >>
  BY DEF BeginChain, Begin
<1>2. Files'
  <2>1. ASSUME NEW p \in Names PROVE Nothing[p].kind \in Kinds /\ Nothing[p].data \in Seq(Bytes)
    <3>1. Nothing[p] = [kind |-> "absent", data |-> << >>]
      BY DEF Nothing
    <3>2. << >> \in Seq(Bytes)
      OBVIOUS
    <3> QED BY <3>1, <3>2 DEF Kinds
  <2>2. World(fs')
    BY <1>1, <2>1 DEF World
  <2>3. paths' \in Seq(Names)
    BY <1>1
  <2> QED BY <2>2, <2>3 DEF Files
<1>3. CASE Err /\ UNCHANGED chain
  <2>1. Chained'
    BY <1>3 DEF CoverInv, Chained, chain
  <2> QED BY <1>2, <1>3, <2>1, ErrStep
<1>4. CASE phase' = "ending" /\ xof' = chain_root(evs) /\ count' = Len(evs) /\ events' = evs
  <2>1. evs \in Seq(Seq(Bytes))
    BY StreamAssumption
  <2>2. Chained'
    BY <1>4, <2>1 DEF Chained
  <2>3. Result'[1] = xof'
    BY <1>1 DEF Result
  <2>4. Covered(entry', fs', paths', events', Result')
    BY <1>1, <1>4, <2>3 DEF Covered, FileEntries
  <2> QED BY <1>2, <1>4, <2>2, <2>4 DEF CoverInv, Phases, Done
<1> QED BY <1>3, <1>4 DEF BeginChain

----------------------------------------------------------------------------
LEMMA ListStep == ASSUME CoverInv, NEW p, List(p) PROVE CoverInv'
<1>1. /\ phase = "listing" /\ phase' = "listing" /\ p \in unlisted /\ unlisted' = unlisted \ {p}
      /\ paths' = IF fs[p].kind = "file" THEN Append(paths, p) ELSE paths
      /\ UNCHANGED <<entry, fs, file, chain, hashes>>
  BY DEF List, call
<1>2. Listing /\ Files /\ p \in Names /\ paths \in Seq(Names)
  BY <1>1 DEF CoverInv, Listing, Files
<1>3. Chained'
  BY <1>1 DEF CoverInv, Chained, chain
<1>4. paths' \in Seq(Names) /\ Listed(fs, paths', unlisted')
  <2> DEFINE n == Len(paths)
  <2>0. n \in Nat /\ DOMAIN paths = 1 .. n
    BY <1>2
  <2>1. CASE fs[p].kind = "file"
    <3>1. /\ paths' \in Seq(Names) /\ Len(paths') = n + 1 /\ paths'[n + 1] = p
          /\ \A k \in 1 .. n : paths'[k] = paths[k]
      BY <1>1, <1>2, <2>1, AppendProperties
    <3>2. DOMAIN paths' = 1 .. n + 1
      BY <3>1
    <3>3. p \notin {paths[k] : k \in 1 .. n}
      BY <1>1, <1>2, <2>0 DEF Listing, Listed
    <3>4. \A k \in 1 .. n : paths[k] # p
      BY <3>3
    <3>5. \A i, j \in 1 .. n : paths[i] = paths[j] => i = j
      BY <1>2, <2>0 DEF Listing, Listed
    <3> HIDE DEF n
    <3>6. \A k \in 1 .. n + 1 : k \in 1 .. n \/ k = n + 1
      BY <2>0
    <3>7. \A i, j \in 1 .. n + 1 : paths'[i] = paths'[j] => i = j
      BY <3>1, <3>4, <3>5, <3>6
    <3>8. {paths'[k] : k \in 1 .. n + 1} = {paths[k] : k \in 1 .. n} \cup {p}
      <4>1. \A k \in 1 .. n : k \in 1 .. n + 1
        BY <2>0
      <4>2. n + 1 \in 1 .. n + 1
        BY <2>0
      <4> QED BY <3>1, <3>6, <4>1, <4>2
    <3>9. {paths[k] : k \in 1 .. n} = {q \in Names \ unlisted : fs[q].kind = "file"}
      BY <1>2, <2>0 DEF Listing, Listed
    <3>10. {q \in Names \ unlisted' : fs[q].kind = "file"}
             = {q \in Names \ unlisted : fs[q].kind = "file"} \cup {p}
      BY <1>1, <1>2, <2>1
    <3> QED BY <3>1, <3>2, <3>7, <3>8, <3>9, <3>10 DEF Listed
  <2>2. CASE fs[p].kind # "file"
    <3>1. paths' = paths
      BY <1>1, <2>2
    <3>2. {q \in Names \ unlisted' : fs[q].kind = "file"} = {q \in Names \ unlisted : fs[q].kind = "file"}
      BY <1>1, <2>2
    <3> QED BY <1>2, <3>1, <3>2 DEF Listing, Listed
  <2> QED BY <2>1, <2>2
<1>5. Listing'
  <2>1. Untouched'
    BY <1>1, <1>2 DEF Listing, Untouched, chain
  <2>2. Listed(fs', paths', unlisted') /\ unlisted' \subseteq Names
    BY <1>1, <1>2, <1>4 DEF Listing
  <2> QED BY <1>1, <1>2, <2>1, <2>2 DEF Listing
<1>6. Files'
  BY <1>1, <1>2, <1>4 DEF Files, World
<1> QED BY <1>1, <1>3, <1>5, <1>6 DEF CoverInv, Phases, Done

LEMMA EndListingStep == ASSUME CoverInv, EndListing PROVE CoverInv'
<1>1. /\ phase = "listing" /\ unlisted = {} /\ UNCHANGED <<entry, fs, file, chain, hashes>>
  BY DEF EndListing, call
<1>2. Listing /\ Files /\ paths \in Seq(Names) /\ World(fs)
  BY <1>1 DEF CoverInv, Files
<1>3. Chained'
  BY <1>1 DEF CoverInv, Chained, chain
<1>4. CASE Err /\ UNCHANGED paths
  BY <1>1, <1>2, <1>3, <1>4, ErrStep DEF Files, World
<1>5. CASE paths # << >> /\ phase' = "opening" /\ paths' = Sorted(paths)
  <2>1. \A i, j \in DOMAIN paths : paths[i] = paths[j] => i = j
    BY <1>2 DEF Listing, Listed
  <2>2. /\ paths' \in Seq(Names) /\ Len(paths') = Len(paths)
        /\ {paths'[k] : k \in DOMAIN paths'} = {paths[k] : k \in DOMAIN paths}
        /\ \A i, j \in DOMAIN paths' : i < j => paths'[i] < paths'[j]
    BY <1>2, <1>5, <2>1, SortedIs
  <2>3. {paths[k] : k \in DOMAIN paths} = {p \in Names : fs[p].kind = "file"}
    BY <1>1, <1>2 DEF Listing, Listed
  <2>4. Visible(fs', paths')
    BY <1>1, <2>2, <2>3 DEF Visible
  <2>5. Len(paths') \in Nat \ {0}
    BY <1>2, <1>5, <2>2, EmptySeq
  <2>6. entry' = "directory" /\ file' = 1 /\ events' = << >> /\ xof' = chain_root(<< >>)
    BY <1>1, <1>2 DEF Listing, Untouched, CoverInv, Chained, chain
  <2>7. Underway'
    <3>1. file' \in 1 .. Len(paths')
      BY <2>5, <2>6
    <3> QED BY <2>4, <2>6, <3>1 DEF Underway, FileEntries
  <2>8. Opening'
    <3>1. file' - 1 = 0
      BY <2>6
    <3>2. Flat(entry', fs', paths', file' - 1) = << >>
      BY <3>1, FlatNone
    <3> QED BY <2>6, <3>2, NoContent DEF Opening
  <2>9. Files'
    BY <1>1, <1>2, <2>2 DEF Files, World
  <2> QED BY <1>3, <1>5, <2>7, <2>8, <2>9 DEF CoverInv, Phases, Done
<1> QED BY <1>4, <1>5 DEF EndListing

\* The file that is being read.
LEMMA DataTyped ==
  ASSUME Files, Underway
  PROVE  /\ paths[file] \in Names /\ Data \in Seq(Bytes) /\ Len(Data) \in Nat
         /\ Name(entry, paths[file]) \in Seq(Bytes) /\ Flat(entry, fs, paths, file - 1) \in Seq(Bytes)
<1>1. file \in 1 .. Len(paths) /\ paths \in Seq(Names) /\ World(fs)
  BY DEF Files, Underway
<1>2. paths[file] \in Names /\ Data \in Seq(Bytes)
  BY <1>1, ItemTyped DEF Data
<1>3. Name(entry, paths[file]) \in Seq(Bytes)
  BY <1>2, NameTyped
<1>4. Flat(entry, fs, paths, file - 1) \in Seq(Bytes)
  <2> DEFINE T == [k \in 1 .. file - 1 |-> Item(entry, fs, paths, k)]
  <2>1. /\ DOMAIN T = 1 .. file - 1 /\ T = [k \in 1 .. file - 1 |-> T[k]]
        /\ \A k \in 1 .. file - 1 : T[k] = Item(entry, fs, paths, k)
    OBVIOUS
  <2>2. file - 1 \in 0 .. Len(paths)
    <3>1. Len(paths) \in Nat
      BY <1>1
    <3> QED BY <1>1, <3>1
  <2> HIDE DEF T
  <2>3. FlattenSeq(T) \in Seq(Bytes)
    BY <1>1, <2>1, <2>2, FlatParts
  <2> QED BY <2>3 DEF T, Flat
<1> QED BY <1>2, <1>3, <1>4

LEMMA OpenStep == ASSUME CoverInv, Open PROVE CoverInv'
<1>1. /\ phase = "opening" /\ phase' = "reading" /\ pos' = 0
      /\ UNCHANGED <<entry, fs, paths, file, hashes>>
  BY DEF Open, call
<1>2. Underway /\ Opening /\ Files /\ Chained
  BY <1>1 DEF CoverInv
<1>3. Files' /\ Underway'
  BY <1>1, <1>2 DEF Files, World, Underway, Visible, Leaves
<1>4. SubSeq(Data', 1, pos') = << >> /\ pos' \in 0 .. Len(Data') /\ Data' = Data
  <2>1. Data' = Data
    BY <1>1 DEF Data
  <2>2. Len(Data) \in Nat
    BY <1>2, DataTyped
  <2>3. SubSeq(Data', 1, pos') = << >>
    BY <1>1, SubSeqEmpty
  <2> QED BY <1>1, <2>1, <2>2, <2>3
<1> DEFINE F == Flat(entry, fs, paths, file - 1)
           N == Name(entry, paths[file])
<1>5. F \in Seq(Bytes) /\ N \in Seq(Bytes) /\ paths[file] \in Names
  BY <1>2, DataTyped
<1>6. Chained' /\ Content(xof') = Begun(entry, fs, paths, file)
  <2>1. CASE entry \in {"files", "directory"}
    <3>1. Absorb(<<paths[file]>>) /\ N = <<paths[file]>>
      BY <2>1 DEF Open, Name, Path
    <3>2. <<paths[file]>> \in Seq(Bytes)
      BY <1>5, <3>1
    <3>3. Chained' /\ Content(xof') = Content(xof) \o <<paths[file]>>
      BY <3>1, <3>2, AbsorbFacts
    <3>4. Content(xof) = F
      BY <1>2, <2>1 DEF Opening
    <3> QED BY <2>1, <3>1, <3>3, <3>4 DEF Begun
  <2>2. CASE entry = "merkle"
    <3>1. Fresh
      BY <2>2 DEF Open
    <3> QED BY <2>2, <3>1, FreshFacts DEF Begun
  <2>3. CASE entry = "stream"
    <3>1. UNCHANGED chain
      BY <2>3 DEF Open
    <3>2. Chained' /\ xof' = xof
      BY <1>2, <3>1 DEF Chained, chain
    <3>3. Content(xof) = F /\ N = << >>
      BY <1>2, <2>3 DEF Opening, Name
    <3> HIDE DEF F, N
    <3>4. F \o << >> = F
      BY <1>5
    <3>5. Content(xof') = F \o N
      BY <3>2, <3>3, <3>4
    <3> QED BY <2>3, <3>2, <3>5 DEF Begun, F, N
  <2> QED BY <1>2, <2>1, <2>2, <2>3 DEF Underway, FileEntries
<1>7. Reading'
  <2> DEFINE B == Begun(entry, fs, paths, file)
  <2>1. B \in Seq(Bytes)
    <3> HIDE DEF F, N
    <3>1. F \o N \in Seq(Bytes)
      BY <1>5
    <3>2. << >> \in Seq(Bytes)
      OBVIOUS
    <3> QED BY <3>1, <3>2 DEF Begun, F, N
  <2> HIDE DEF B
  <2>2. B \o << >> = B
    BY <2>1
  <2>3. Content(xof') = B \o << >>
    BY <1>6, <2>2 DEF B
  <2> QED BY <1>1, <1>4, <2>3 DEF Reading, B, Data
<1> QED BY <1>1, <1>3, <1>6, <1>7 DEF CoverInv, Phases, Done

LEMMA ReadChunkStep == ASSUME CoverInv, NEW n, Read(n) PROVE CoverInv'
<1>1. /\ phase = "reading" /\ phase' = "filled" /\ n \in 1 .. size /\ n <= Rest
      /\ buf' = SubSeq(Data, pos + 1, pos + n)
      /\ UNCHANGED <<entry, fs, paths, file, hashes, pos, chain>>
  BY DEF Read, call, Data, Path
<1>2. Underway /\ Reading /\ Files /\ Chained
  BY <1>1 DEF CoverInv
<1>3. Files' /\ Underway' /\ Chained'
  BY <1>1, <1>2 DEF Files, World, Underway, Visible, Leaves, Chained, chain
<1>4. Reading' /\ Data' = Data
  BY <1>1, <1>2 DEF Reading, Data, Begun, Flat, Item, Name, chain
<1>5. n \in Nat /\ n <= Len(Data) - pos /\ pos \in Nat /\ Len(Data) \in Nat /\ n >= 1
  <2>1. Len(Data) \in Nat /\ Rest = Len(Data) - pos
    BY <1>2, DataTyped DEF Rest, Data, Path
  <2>2. pos \in 0 .. Len(Data)
    BY <1>2 DEF Reading
  <2> QED BY <1>1, <2>1, <2>2
<1>6. buf' \in Seq(Bytes) /\ Len(buf') = n
  <2> DEFINE d == Data
  <2>1. d \in Seq(Bytes)
    BY <1>2, DataTyped
  <2> HIDE DEF d
  <2>2. \A i \in pos + 1 .. pos + n : d[i] \in Bytes
    <3>1. \A i \in pos + 1 .. pos + n : i \in 1 .. Len(d)
      BY <1>5 DEF d
    <3> QED BY <2>1, <3>1, ElementOfSeq
  <2>3. /\ SubSeq(d, pos + 1, pos + n) \in Seq(Bytes)
        /\ Len(SubSeq(d, pos + 1, pos + n)) = IF pos + 1 <= pos + n THEN pos + n - (pos + 1) + 1 ELSE 0
    BY <1>5, <2>2, SubSeqProperties
  <2>4. (IF pos + 1 <= pos + n THEN pos + n - (pos + 1) + 1 ELSE 0) = n
    BY <1>5
  <2> QED BY <1>1, <2>3, <2>4 DEF d
<1>7. Filled'
  <2>1. pos' = pos /\ pos' + Len(buf') <= Len(Data')
    BY <1>1, <1>4, <1>5, <1>6
  <2>2. buf' = SubSeq(Data', pos' + 1, pos' + Len(buf'))
    BY <1>1, <1>4, <1>6, <2>1
  <2> QED BY <1>6, <2>1, <2>2 DEF Filled
<1> QED BY <1>1, <1>3, <1>4, <1>7 DEF CoverInv, Phases, Done

LEMMA ChunkStep == ASSUME CoverInv, AbsorbChunk PROVE CoverInv'
<1>1. /\ phase = "filled" /\ phase' = "reading" /\ Absorb(buf) /\ pos' = pos + Len(buf)
      /\ UNCHANGED <<entry, fs, paths, file, hashes>>
  BY DEF AbsorbChunk, call
<1>2. Underway /\ Reading /\ Filled /\ Files
  BY <1>1 DEF CoverInv
<1>3. Files' /\ Underway'
  BY <1>1, <1>2 DEF Files, World, Underway, Visible, Leaves
<1>4. Chained' /\ Content(xof') = Content(xof) \o buf /\ Data' = Data
  BY <1>1, <1>2, AbsorbFacts DEF Filled, Data
<1> DEFINE d == Data
           B == Begun(entry, fs, paths, file)
           p == SubSeq(d, 1, pos)
           q == SubSeq(d, 1, pos + Len(buf))
<1>5. /\ d \in Seq(Bytes) /\ Len(d) \in Nat /\ pos \in 0 .. Len(d) /\ buf \in Seq(Bytes)
      /\ pos + Len(buf) <= Len(d) /\ buf = SubSeq(d, pos + 1, pos + Len(buf))
      /\ Content(xof) = B \o p
  BY <1>2, DataTyped DEF Reading, Filled
<1>6. B \in Seq(Bytes)
  <2> DEFINE F == Flat(entry, fs, paths, file - 1)
             N == Name(entry, paths[file])
  <2>1. F \in Seq(Bytes) /\ N \in Seq(Bytes)
    BY <1>2, DataTyped
  <2>2. B = IF entry = "merkle" THEN << >> ELSE F \o N
    BY DEF Begun
  <2> HIDE DEF F, N
  <2>3. F \o N \in Seq(Bytes) /\ << >> \in Seq(Bytes)
    BY <2>1
  <2> QED BY <2>2, <2>3
<1>11. pos' \in 0 .. Len(d)
  BY <1>1, <1>5
<1> HIDE DEF d, B
<1>7. p \o buf = q
  <2>1. /\ 1 \in 1 .. Len(d) + 1 /\ pos \in 1 - 1 .. Len(d) /\ pos + Len(buf) \in pos .. Len(d)
    BY <1>5
  <2>2. SubSeq(d, 1, pos) \o SubSeq(d, pos + 1, pos + Len(buf)) = SubSeq(d, 1, pos + Len(buf))
    BY <1>5, <2>1, ConcatAdjacentSubSeq
  <2> QED BY <1>5, <2>2
<1>8. p \in Seq(Bytes)
  <2>1. \A i \in 1 .. pos : d[i] \in Bytes
    BY <1>5, ElementOfSeq
  <2> QED BY <1>5, <2>1, SubSeqProperties
<1> HIDE DEF p, q
<1>9. (B \o p) \o buf = B \o (p \o buf)
  <2>1. B \in Seq(Bytes) /\ p \in Seq(Bytes) /\ buf \in Seq(Bytes)
    BY <1>5, <1>6, <1>8
  <2> QED BY ONLY <2>1
<1>10. Content(xof') = B \o q
  BY <1>4, <1>5, <1>7, <1>9
<1>12. Reading'
  <2>1. q = SubSeq(Data', 1, pos') /\ B = Begun(entry', fs', paths', file') /\ pos' \in 0 .. Len(Data')
    BY <1>1, <1>4, <1>11 DEF q, d, B
  <2> QED BY <1>10, <2>1 DEF Reading
<1> QED BY <1>1, <1>3, <1>4, <1>12 DEF CoverInv, Phases, Done

\* At its end a file is covered.
LEMMA AtEof ==
  ASSUME Files, Underway, Reading, Rest = 0
  PROVE  /\ entry = "merkle" => Content(xof) = Data
         /\ entry # "merkle" => Content(xof) = Flat(entry, fs, paths, file)
<1> DEFINE d == Data
<1>1. d \in Seq(Bytes) /\ Len(d) \in Nat /\ pos = Len(d)
  <2>1. Data \in Seq(Bytes) /\ Len(Data) \in Nat
    BY DataTyped
  <2>2. pos \in 0 .. Len(Data) /\ Len(Data) - pos = 0
    BY DEF Reading, Rest, Data, Path
  <2> QED BY <2>1, <2>2
<1>2. Content(xof) = Begun(entry, fs, paths, file) \o SubSeq(d, 1, pos)
  BY DEF Reading
<1> HIDE DEF d
<1>3. SubSeq(d, 1, pos) = d
  BY <1>1, SubSeqFull
<1>4. CASE entry = "merkle"
  <2>1. << >> \o d = d
    BY <1>1
  <2> QED BY <1>2, <1>3, <1>4, <2>1 DEF Begun, d
<1>5. CASE entry # "merkle"
  <2>1. file \in 1 .. Len(paths) /\ paths \in Seq(Names) /\ World(fs)
    BY DEF Files, Underway
  <2>2. Flat(entry, fs, paths, file)
          = (Flat(entry, fs, paths, file - 1) \o Name(entry, paths[file])) \o fs[paths[file]].data
    BY <2>1, FlatMore
  <2> QED BY <1>2, <1>3, <1>5, <2>2 DEF Begun, d, Data
<1> QED BY <1>4, <1>5

LEMMA EofStep == ASSUME CoverInv, Eof PROVE CoverInv'
<1>1. /\ phase = "reading" /\ Rest = 0 /\ UNCHANGED <<entry, fs, paths, chain>>
  BY DEF Eof, call
<1>2. Underway /\ Reading /\ Files
  BY <1>1 DEF CoverInv
<1>3. Files' /\ Chained'
  BY <1>1, KeptAsIs
<1>4. /\ entry = "merkle" => Content(xof) = Data
      /\ entry # "merkle" => Content(xof) = Flat(entry, fs, paths, file)
  BY <1>1, <1>2, AtEof
<1>5. file \in 1 .. Len(paths) /\ Len(paths) \in Nat /\ paths \in Seq(Names) /\ xof \in Seq(Nat)
  <2>1. file \in 1 .. Len(paths) /\ paths \in Seq(Names)
    BY <1>2 DEF Files, Underway
  <2>2. xof \in Seq(Nat)
    BY RootTyped DEF CoverInv, Chained
  <2> QED BY <2>1, <2>2
<1>6. CASE Err
  BY <1>3, <1>6, ErrStep
<1>7. CASE /\ NextFile
           /\ entry = "merkle" => hashes' = Append(hashes, xof)
           /\ entry # "merkle" => hashes' = hashes
           /\ result' = result
  <2>1. entry = "merkle" => Leaves(fs, paths, hashes', file)
    <3> SUFFICES ASSUME entry = "merkle" PROVE Leaves(fs, paths, hashes', file)
      OBVIOUS
    <3>1. /\ hashes \in Seq(Seq(Nat)) /\ Len(hashes) = file - 1
          /\ \A k \in 1 .. file - 1 : Content(hashes[k]) = fs[paths[k]].data
      BY <1>2 DEF Underway, Leaves
    <3>2. /\ hashes' \in Seq(Seq(Nat)) /\ Len(hashes') = file - 1 + 1 /\ hashes'[file - 1 + 1] = xof
          /\ \A k \in 1 .. file - 1 : hashes'[k] = hashes[k]
      <4>1. hashes' = Append(hashes, xof) /\ xof \in Seq(Nat) /\ hashes \in Seq(Seq(Nat))
        BY <1>5, <1>7, <3>1
      <4>2. /\ hashes' \in Seq(Seq(Nat)) /\ Len(hashes') = Len(hashes) + 1
            /\ hashes'[Len(hashes) + 1] = xof
            /\ \A k \in 1 .. Len(hashes) : hashes'[k] = hashes[k]
        BY <4>1, AppendProperties
      <4> QED BY <3>1, <4>2
    <3>3. file - 1 + 1 = file /\ \A k \in 1 .. file : k \in 1 .. file - 1 \/ k = file
      BY <1>5
    <3>4. Len(hashes') = file /\ hashes'[file] = xof
      BY <3>2, <3>3
    <3>5. Content(xof) = fs[paths[file]].data
      BY <1>4 DEF Data
    <3>6. ASSUME NEW k \in 1 .. file PROVE Content(hashes'[k]) = fs[paths[k]].data
      BY <3>1, <3>2, <3>3, <3>4, <3>5
    <3> QED BY <3>2, <3>4, <3>6 DEF Leaves
  <2>2. CASE file < Len(paths)
    <3>1. phase' = "opening" /\ file' = file + 1 /\ file' - 1 = file /\ file' \in 1 .. Len(paths)
      BY <1>5, <1>7, <2>2 DEF NextFile
    <3>2. Underway'
      <4>1. entry' \in FileEntries /\ file' \in 1 .. Len(paths')
        BY <1>1, <1>2, <3>1 DEF Underway
      <4>2. entry' = "stream" => Len(paths') = 1
        BY <1>1, <1>2 DEF Underway
      <4>3. entry' = "directory" => Visible(fs', paths')
        BY <1>1, <1>2 DEF Underway
      <4>4. entry' = "merkle" => Leaves(fs', paths', hashes', file' - 1)
        BY <1>1, <2>1, <3>1
      <4> QED BY <4>1, <4>2, <4>3, <4>4 DEF Underway
    <3>3. Opening'
      BY <1>1, <1>4, <3>1 DEF Opening, chain
    <3> QED BY <1>3, <3>1, <3>2, <3>3 DEF CoverInv, Phases, Done
  <2>3. CASE ~(file < Len(paths))
    <3>1. phase' = "ending" /\ file = Len(paths)
      BY <1>5, <1>7, <2>3 DEF NextFile
    <3>2. Covered(entry', fs', paths', events', Result')
      <4>1. entry' \in FileEntries \cup {"chain"} /\ (entry' = "stream" => Len(paths') = 1)
        BY <1>1, <1>2 DEF Underway
      <4>2. entry' = "directory" => Visible(fs', paths')
        BY <1>1, <1>2 DEF Underway
      <4>3. entry' # "merkle" => Result'[1] = xof /\ xof = chain_root(events')
        BY <1>1 DEF Result, CoverInv, Chained, chain
      <4>4. entry' # "merkle" => Content(Result'[1]) = Flat(entry', fs', paths', Len(paths'))
        BY <1>1, <1>4, <3>1, <4>3
      <4>5. entry' = "merkle" => Leaves(fs', paths', Result', Len(paths'))
        BY <1>1, <2>1, <3>1 DEF Result
      <4> QED BY <4>1, <4>2, <4>3, <4>4, <4>5 DEF Covered
    <3> QED BY <1>3, <3>1, <3>2 DEF CoverInv, Phases, Done
  <2> QED BY <2>2, <2>3
<1> QED BY <1>6, <1>7 DEF Eof

LEMMA AttestStep == ASSUME CoverInv, Attest PROVE CoverInv'
<1>1. phase = "ending" /\ (entry # "merkle" => count # 0) /\ UNCHANGED <<entry, fs, paths, chain>>
  BY DEF Attest, call
<1>2. Files' /\ Chained'
  BY <1>1, KeptAsIs
<1>3. CASE Err
  BY <1>2, <1>3, ErrStep
<1>4. CASE phase' = "done" /\ root' = Result
  <2>1. Covered(entry', fs', paths', events', root')
    BY <1>1, <1>4 DEF CoverInv, chain
  <2>2. entry' # "merkle" => events' # << >>
    BY <1>1, NoList DEF CoverInv, Chained, chain
  <2> QED BY <1>2, <1>4, <2>1, <2>2 DEF CoverInv, Phases, Done
<1> QED BY <1>3, <1>4 DEF Attest, Result

LEMMA ReturnStep == ASSUME CoverInv, Return PROVE CoverInv'
<1>1. phase' = "idle" /\ fs' = Nothing /\ paths' = << >> /\ Fresh /\ hashes' = << >>
  BY DEF Return
<1>2. Files'
  <2>1. ASSUME NEW p \in Names PROVE Nothing[p].kind \in Kinds /\ Nothing[p].data \in Seq(Bytes)
    <3>1. Nothing[p] = [kind |-> "absent", data |-> << >>]
      BY DEF Nothing
    <3>2. << >> \in Seq(Bytes)
      OBVIOUS
    <3> QED BY <3>1, <3>2 DEF Kinds
  <2>2. World(fs')
    BY <1>1, <2>1 DEF World
  <2>3. paths' \in Seq(Names)
    BY <1>1
  <2> QED BY <2>2, <2>3 DEF Files
<1>3. Chained' /\ events' = << >>
  BY <1>1, FreshFacts DEF Fresh
<1> QED BY <1>1, <1>2, <1>3 DEF CoverInv, Phases, Untouched, Done

LEMMA CoverStep == CoverInv /\ [Next]_vars => CoverInv'
<1> SUFFICES ASSUME CoverInv, [Next]_vars PROVE CoverInv'
  OBVIOUS
<1>1. CASE Call
  <2>1. ASSUME NEW w \in Worlds, NEW n \in Sizes, NEW p \in Names, BeginStream(w, p, n) PROVE CoverInv'
    BY <2>1, StreamBegun
  <2>2. ASSUME NEW w \in Worlds, NEW n \in Sizes, NEW e \in {"files", "merkle"}, NEW ps \in ArgLists,
               BeginFiles(e, w, ps, n)
        PROVE  CoverInv'
    BY <2>2, FilesBegun
  <2>3. ASSUME NEW w \in Worlds, NEW n \in Sizes, BeginDirectory(w, n) PROVE CoverInv'
    BY <2>3, DirectoryBegun
  <2>4. ASSUME NEW evs \in EventLists, BeginChain(evs) PROVE CoverInv'
    BY <2>4, ChainBegun
  <2> QED BY <1>1, <2>1, <2>2, <2>3, <2>4 DEF Call
<1>2. ASSUME NEW p \in unlisted, List(p) PROVE CoverInv'
  BY <1>2, ListStep
<1>3. CASE EndListing
  BY <1>3, EndListingStep
<1>4. CASE Open
  BY <1>4, OpenStep
<1>5. ASSUME NEW n \in 1 .. size, Read(n) PROVE CoverInv'
  BY <1>5, ReadChunkStep
<1>6. CASE AbsorbChunk
  BY <1>6, ChunkStep
<1>7. CASE Eof
  BY <1>7, EofStep
<1>8. CASE Attest
  BY <1>8, AttestStep
<1>9. CASE Return
  BY <1>9, ReturnStep
<1>10. CASE OpenMissing \/ OpenFails \/ ReadFails \/ ReadDirectory \/ FinalizeFails \/ ListFails
  <2>1. Err /\ UNCHANGED <<chain, fs, paths>>
    BY <1>10 DEF OpenMissing, OpenFails, ReadFails, ReadDirectory, FinalizeFails, ListFails, call
  <2> QED BY <2>1, KeptAsIs, ErrStep
<1>11. CASE UNCHANGED vars
  <2>1. UNCHANGED <<phase, entry, fs, unlisted, paths, file, buf, pos, xof, count, events, hashes,
                    root, result>>
    BY <1>11 DEF vars
  <2>2. Chained' /\ Files' /\ phase' \in Phases
    BY <2>1 DEF CoverInv, Chained, Files
  <2>3. /\ Untouched' = Untouched /\ Listing' = Listing /\ Underway' = Underway
        /\ Opening' = Opening
    BY <2>1 DEF Untouched, Listing, Underway, Opening
  <2>4. Reading' = Reading /\ Filled' = Filled /\ Result' = Result /\ Done' = Done
    BY <2>1 DEF Reading, Filled, Result, Done, Data
  <2> QED BY <2>1, <2>2, <2>3, <2>4 DEF CoverInv
<1> QED BY <1>1, <1>2, <1>3, <1>4, <1>5, <1>6, <1>7, <1>8, <1>9, <1>10, <1>11 DEF Next, Progress

\* An Ok verdict over a file, a list of files, a directory, a Merkle tree or a list of
\* events covers every byte of it once and in order, for files of any length, any chunk
\* size, any cut of the reads, any order of the listing and wherever an error strikes; and
\* its root is the one that chain_root computes from the events (interface.rs:117-170,
\* 235-375, chain.rs:47-148).
THEOREM VerdictsCover == Spec => []OkCoversEverything
<1>1. CoverInv => OkCoversEverything
  <2> SUFFICES ASSUME CoverInv PROVE OkCoversEverything
    OBVIOUS
  <2>1. CASE ~Done
    BY <2>1 DEF OkCoversEverything, ListingOrderIrrelevant, IncrementalIsOneShot
  <2>2. CASE Done
    <3>1. /\ Covered(entry, fs, paths, events, root) /\ (entry # "merkle" => events # << >>)
          /\ events \in Seq(Seq(Bytes)) /\ World(fs) /\ paths \in Seq(Names)
      BY <2>2 DEF CoverInv, Chained, Files
    <3>0. DOMAIN paths = 1 .. Len(paths) /\ Len(paths) \in Nat
      BY <3>1
    <3>2. ListingOrderIrrelevant
      BY <3>1 DEF ListingOrderIrrelevant, Covered, Visible, Range
    <3>3. IncrementalIsOneShot
      BY <3>1 DEF IncrementalIsOneShot, Covered, chain_verify
    <3>4. entry = "stream" => Content(root[1]) = fs[paths[1]].data
      <4> SUFFICES ASSUME entry = "stream" PROVE Content(root[1]) = fs[paths[1]].data
        OBVIOUS
      <4>1. Len(paths) = 1 /\ Content(root[1]) = Flat(entry, fs, paths, Len(paths))
        BY <3>1 DEF Covered, FileEntries
      <4>2. 1 \in 1 .. Len(paths) /\ 1 - 1 = 0
        BY <4>1
      <4>3. Flat(entry, fs, paths, 1) = (Flat(entry, fs, paths, 1 - 1) \o Name(entry, paths[1])) \o fs[paths[1]].data
        BY <3>1, <4>2, FlatMore
      <4>4. Name(entry, paths[1]) = << >> /\ Flat(entry, fs, paths, 0) = << >>
        BY FlatNone DEF Name
      <4> DEFINE d == fs[paths[1]].data
      <4>5. d \in Seq(Bytes)
        BY <3>1, <4>2, ItemTyped
      <4>7. Flat(entry, fs, paths, 1) = (<< >> \o << >>) \o d
        BY <4>2, <4>3, <4>4
      <4> HIDE DEF d
      <4>6. (<< >> \o << >>) \o d = d
        BY <4>5
      <4> QED BY <4>1, <4>6, <4>7 DEF d
    <3>5. entry \in {"files", "directory"} =>
            Content(root[1]) = FlattenSeq([k \in DOMAIN paths |-> <<paths[k]>> \o fs[paths[k]].data])
      BY <3>0, <3>1 DEF Covered, FileEntries, Flat, Item, Name
    <3>6. entry = "merkle" => /\ Len(root) = Len(paths)
                              /\ \A k \in DOMAIN paths : Content(root[k]) = fs[paths[k]].data
      BY <3>0, <3>1 DEF Covered, Leaves
    <3>7. entry = "chain" => Content(root[1]) = FlattenSeq(events)
      BY <3>1, ContentRoot DEF Covered
    <3>8. entry \in {"stream", "files", "directory", "merkle", "chain"}
      BY <3>1 DEF Covered, FileEntries
    <3> QED BY <3>2, <3>3, <3>4, <3>5, <3>6, <3>7, <3>8 DEF OkCoversEverything
  <2> QED BY <2>1, <2>2
<1> QED BY <1>1, CoverStart, CoverStep, PTL DEF Spec
=============================================================================
