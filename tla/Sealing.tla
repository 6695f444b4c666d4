------------------------------ MODULE Sealing -------------------------------
(***************************************************************************)
(* What veil7 does to keep a claim from view: commit and reveal            *)
(* (src/src/commit_reveal.rs), blinding (src/src/blind.rs), and the        *)
(* masking hasher (src/src/keccak_ct.rs) over the buffered SHAKE256 reader *)
(* (src/src/shake256.rs).                                                  *)
(*                                                                         *)
(* A hash is the term of the bytes it absorbed.  A byte that may be masked *)
(* is the set of the symbols it is the exclusive or of, so exclusive or is *)
(* symmetric difference.  Random draws are numbered and never repeat.      *)
(***************************************************************************)
EXTENDS Integers, Sequences, FiniteSets, FiniteSetsExt

CONSTANTS
  Claims,      \* claims: sequences of bytes
  MaskLen,     \* bytes of a blinding mask; 32 in the code
  XofLen,      \* bytes that a Shake256Reader holds; 256 in the code
  Counters,    \* values of call_counter; 2^64 in the code
  DataLens,    \* lengths of the data given to the masking hasher and to read
  MaxTokens, MaxReveals, MaxBlinds, MaxAbsorbs, MaxReads  \* bounds on calls

ASSUME SealingAssumption ==
  /\ {MaskLen, XofLen, Counters} \subseteq Nat \ {0} /\ DataLens \subseteq Nat
  /\ Claims \subseteq Seq(Nat) /\ MaxAbsorbs \in Nat /\ MaxAbsorbs <= Counters

VARIABLES
  drawn,     \* random draws so far
  tokens,    \* the tokens issued: digest, and the claim and nonce behind it
  reveals,   \* the reveals that ended in a verdict: digest and claim
  factors,   \* nonces of the blinding factors in use
  sightings, \* what the engine has been given: nonce and blinded bytes
  hasher,    \* CtShake256: mask, call_counter and absorbed bytes
  reader,    \* Shake256Reader: position, and what it has served
  last       \* how the last call ended

sealingVars == <<drawn, tokens, reveals, factors, sightings, hasher, reader, last>>

NoHasher == [mask |-> 0, call_counter |-> 0, absorbed |-> << >>]
NoReader == [open |-> FALSE, pos |-> 0, served |-> << >>]

SealingInit ==
  /\ drawn = 0 /\ tokens = << >> /\ reveals = << >> /\ factors = << >> /\ sightings = << >>
  /\ hasher = NoHasher /\ reader = NoReader /\ last = "none"

\* The program is done with what it holds, and another one starts.
Forget ==
  /\ Len(sightings) = MaxBlinds \/ Len(reader.served) = MaxReads
  /\ drawn' = 0 /\ tokens' = << >> /\ reveals' = << >> /\ factors' = << >> /\ sightings' = << >>
  /\ hasher' = NoHasher /\ reader' = NoReader /\ last' = "none"

\* getrandom fails: nothing else has happened.
DrawFails ==
  /\ last' = "entropy"
  /\ UNCHANGED <<drawn, tokens, reveals, factors, sightings, hasher, reader>>

----------------------------------------------------------------------------
(* Commit and reveal                                                       *)

\* Mutant of Digest: the claim is left out.
DigestOfNonce(nonce, c) == <<nonce>>

\* Mutant of Digest: the nonce is left out.
DigestOfClaim(nonce, c) == c

\* SHAKE256(CR_COMMIT || nonce || claim).
Digest(nonce, c) == <<nonce>> \o c

Nonce(k) == 1000 + k

\* commit_phase returns the nonce to the caller; commit drops it.
Commit(c, kept) ==
  /\ Len(tokens) < MaxTokens /\ drawn' = drawn + 1
  /\ tokens' = Append(tokens, [digest |-> Digest(Nonce(drawn'), c), claim |-> c,
                               nonce |-> Nonce(drawn'), kept |-> kept])
  /\ last' = "ok" /\ UNCHANGED <<reveals, factors, sightings, hasher, reader>>

\* The nonces that a caller can present: those it was given, and a guess.
Known == {tokens[k].nonce : k \in {j \in DOMAIN tokens : tokens[j].kept}} \cup {Nonce(0)}

\* reveal_phase borrows the token and the nonce: neither is used up.
Reveal(k, nonce, c) ==
  /\ Len(reveals) < MaxReveals
  /\ \/ /\ Digest(nonce, c) # tokens[k].digest
        /\ last' = "crypto" /\ UNCHANGED reveals
     \/ /\ Digest(nonce, c) = tokens[k].digest
        /\ \/ last' = "ok" /\ reveals' = Append(reveals, [digest |-> tokens[k].digest, claim |-> c])
           \/ last' = "pipeline" /\ UNCHANGED reveals
  /\ UNCHANGED <<drawn, tokens, factors, sightings, hasher, reader>>

----------------------------------------------------------------------------
(* Blinding                                                                *)

\* Mutant of mask: one byte short, so the last byte repeats the first.
mask_short(nonce, i) == {<<"mask", nonce, (i - 1) % (MaskLen - 1)>>}

\* Byte i of the mask, which repeats.
mask(nonce, i) == {<<"mask", nonce, (i - 1) % MaskLen>>}

blind_claim(c, nonce) == [i \in DOMAIN c |-> SymDiff({<<"claim", c[i]>>}, mask(nonce, i))]

\* BlindFactor::fresh, and from_nonce of a nonce that was used before.
NewFactor(nonce) == factors' = Append(factors, nonce)

\* blind_claim and attest_blinded, or blind_attest in one call: the engine is given
\* the blinded claim, and answers with a transcript or with an error.
Blind(c, fresh) ==
  /\ Len(sightings) < MaxBlinds /\ (~fresh => factors # << >>)
  /\ drawn' = IF fresh THEN drawn + 1 ELSE drawn
  /\ NewFactor(IF fresh THEN Nonce(drawn') ELSE factors[Len(factors)])
  /\ sightings' = Append(sightings, blind_claim(c, factors'[Len(factors')]))
  /\ last' \in {"ok", "pipeline"}
  /\ UNCHANGED <<tokens, reveals, hasher, reader>>

----------------------------------------------------------------------------
(* The masking hasher and the reader                                       *)

\* CtShake256::new, or with_mask.
NewHasher ==
  /\ hasher = NoHasher
  /\ drawn' = drawn + 1 /\ hasher' = [NoHasher EXCEPT !.mask = drawn']
  /\ last' = "ok" /\ UNCHANGED <<tokens, reveals, factors, sightings, reader>>

\* The mask stream comes from a reader, which fills up with zeros past XofLen; the
\* stream of a wiped mask is known to everybody.
mask_stream(len, i) ==
  IF i > XofLen \/ hasher.mask = -1 THEN {}
  ELSE {<<"stream", hasher.mask, hasher.call_counter, len, i>>}

\* Mutant of NextCounter: every call uses the same stream.
NextCounterSame == hasher.call_counter

NextCounter == (hasher.call_counter + 1) % Counters

\* A secret byte of its own for each position of each call.
ct_update(len) ==
  /\ hasher.mask # 0 /\ Len(hasher.absorbed) < MaxAbsorbs
  /\ hasher' = [hasher EXCEPT
       !.absorbed = Append(@, [i \in 1 .. len |->
         SymDiff({<<"secret", Len(hasher.absorbed), i>>}, mask_stream(len, i))]),
       !.call_counter = NextCounter]
  /\ last' = "ok" /\ UNCHANGED <<drawn, tokens, reveals, factors, sightings, reader>>

update_public(len) ==
  /\ hasher.mask # 0 /\ Len(hasher.absorbed) < MaxAbsorbs
  /\ hasher' = [hasher EXCEPT !.absorbed = Append(@, [i \in 1 .. len |-> {}])]
  /\ last' = "ok" /\ UNCHANGED <<drawn, tokens, reveals, factors, sightings, reader>>

\* ct_finalize takes the inner hasher, leaving a fresh one, reads it, and wipes the
\* mask, not the counter.
ct_finalize ==
  /\ hasher.mask # 0
  /\ hasher' = [hasher EXCEPT !.mask = -1, !.absorbed = << >>]
  /\ reader' = [NoReader EXCEPT !.open = TRUE]
  /\ last' = "ok" /\ UNCHANGED <<drawn, tokens, reveals, factors, sightings>>

\* Mutant of Position: a read starts over.
PositionOfFirst(len) == 0

\* pos after a read of len bytes.
Position(len) ==
  reader.pos + (IF len < XofLen - reader.pos THEN len ELSE XofLen - reader.pos)

\* Shake256Reader::read: the bytes are numbered from 1, and 0 fills up.
read(len) ==
  /\ reader.open /\ Len(reader.served) < MaxReads
  /\ reader' = [reader EXCEPT !.pos = Position(len),
       !.served = Append(@, [i \in 1 .. len |->
         IF reader.pos + i <= XofLen THEN reader.pos + i ELSE 0])]
  /\ last' = "ok" /\ UNCHANGED <<drawn, tokens, reveals, factors, sightings, hasher>>

----------------------------------------------------------------------------
CommitReveal ==
  \/ DrawFails
  \/ \E c \in Claims, kept \in BOOLEAN : Commit(c, kept)
  \/ \E k \in DOMAIN tokens, nonce \in Known, c \in Claims : Reveal(k, nonce, c)

Blinding == Forget \/ \E c \in Claims, fresh \in BOOLEAN : Blind(c, fresh)

Hashing ==
  \/ NewHasher \/ ct_finalize \/ Forget
  \/ \E len \in DataLens : ct_update(len) \/ update_public(len) \/ read(len)

SealingNext == CommitReveal \/ Blinding \/ Hashing

SealingSpec == SealingInit /\ [][SealingNext]_sealingVars

----------------------------------------------------------------------------
(* Properties                                                              *)

\* A token is revealed only as the claim it was issued for, however often it is
\* presented and with whatever nonce.
RevealedAsCommitted ==
  \A r \in DOMAIN reveals :
    \E k \in DOMAIN tokens : /\ tokens[k].kept /\ tokens[k].claim = reveals[r].claim
                             /\ tokens[k].digest = reveals[r].digest

\* No two tokens are equal, not even for one claim: equal bids cannot be told from
\* different ones by their tokens.
TokensDiffer == \A i, j \in DOMAIN tokens : i # j => tokens[i].digest # tokens[j].digest

\* "Phase 2 (Reveal): the caller submits the same claim along with the token"
\* (commit_reveal.rs:10): whatever was committed, there is a nonce to reveal it with.  The
\* run Cli_unrevealed refutes it: commit drops the nonce that reveal_phase asks for.
EveryTokenCanBeRevealed ==
  \A k \in DOMAIN tokens : \E nonce \in Known : Digest(nonce, tokens[k].claim) = tokens[k].digest

\* A byte that the engine has seen, and the symbols of several of them together.
Seen == UNION {{<<k, i>> : i \in DOMAIN sightings[k]} : k \in DOMAIN sightings}
Together(S) ==
  LET all == UNION {sightings[o[1]][o[2]] : o \in S}
  IN  {x \in all : Cardinality({o \in S : x \in sightings[o[1]][o[2]]}) % 2 = 1}

\* Claims no longer than the mask, each with a factor of its own, are hidden from the
\* engine: whatever it combines of all that it was given, a mask is left over.
BlindedIsHidden ==
  \A S \in SUBSET {o \in Seen : /\ Len(sightings[o[1]]) <= MaskLen
                                 /\ \A j \in DOMAIN factors : j # o[1] => factors[j] # factors[o[1]]} :
    S # {} => \E x \in Together(S) : x[1] = "mask"

\* A secret byte absorbed before the mask is wiped, within the reach of the mask
\* stream, has a mask of its own: no other byte of this or of another call shares it.
SecretsAreMasked ==
  hasher.mask > 0 =>
    LET near == {<<k, i>> : k \in DOMAIN hasher.absorbed, i \in 1 .. XofLen}
        at == {o \in near : o[2] \in DOMAIN hasher.absorbed[o[1]] /\ hasher.absorbed[o[1]][o[2]] # {}}
        masks(o) == {x \in hasher.absorbed[o[1]][o[2]] : x[1] = "stream"}
    IN  \A o, q \in at : masks(o) # {} /\ (o # q => masks(o) \cap masks(q) = {})

\* Reading in pieces is reading at once: the bytes served are consecutive, none is
\* served twice, and past the end of the buffer there are only zeros.
ReadsAreConsecutive ==
  LET n == Len(reader.served)
      before[k \in 0 .. n] == IF k = 0 THEN 0 ELSE before[k - 1] + Len(reader.served[k])
  IN  \A k \in 1 .. n : \A i \in DOMAIN reader.served[k] :
        reader.served[k][i] =
          IF before[k - 1] + i <= XofLen THEN before[k - 1] + i ELSE 0

\* A token stands for one claim, and no two tokens are equal (commit_reveal.rs:76-152).
\* Nothing is said of a second reveal, which succeeds as the first did, nor of a token
\* whose nonce is gone.
TokensBind == RevealedAsCommitted /\ TokensDiffer

\* No byte of a random stream is used twice: not of the mask of a blinded claim, not of
\* the mask stream of the hasher, not of the output that the reader serves.
NoStreamByteTwice == BlindedIsHidden /\ SecretsAreMasked /\ ReadsAreConsecutive
=============================================================================
