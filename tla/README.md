# A TLA+ verification of veil7

veil7 is a Rust library and command line that turns a claim (some bytes) into a
*verdict*: a bit and a 64-byte transcript. One *iteration* harvests entropy,
derives a post-quantum key pair, commits, signs, verifies, destroys the keys and
emits the verdict. Nothing is meant to survive an iteration. This directory holds
TLA+ models of its parts, TLC configurations that check them on small instances,
and TLAPS proofs that hold for every value of the constants. `PROJECT.json` lists
every run, every property, the source lines each definition models, and the
hazards the properties are aimed at.

Source paths below are relative to `src/src/`.

## The system

| Part | State it keeps | Operations | Depends on |
|---|---|---|---|
| L0 `layers/l0_memlock.rs` | process-wide counter of locked bytes, kernel page locks, heap buffers `Locked<N>` | `Locked::new`, fill, `Drop`, `zeroize_*`, `poison_bytes` | libc |
| L1 `layers/l1_entropy.rs` | a 64-byte pool during a call | `harvest` (`mix_round` x 12) and `harvest_multi_source` (12 methods), final squeeze into a `Seed` | L0, OS generator, `entropy_sources.rs` |
| L2 `layers/l2_keygen.rs` | `EphemeralKeys` | `derive_keys`, `derive_keys_multi_source`, the generators, two validations, `Drop` | PQ back ends |
| L3-L5 `layers/l3..l5` | none | `commit`, `prove`, `verify` with a KEM round trip, their variants and validators | PQ back ends |
| L6, L7 | none | `scrub`, multi-pass wipes; `Verdict::new`, `from_statement_digest`, `from_batch`, `verdict_multi_source`, `verdict_blind` | |
| `pipeline.rs`, `hybrid.rs` | the locals of one call | seven entry points, `verify_batch`, `hybrid_attest` | L1-L7, VM, ORAM |
| `threshold.rs`, `audit.rs` | an accumulator | n-of-m verdicts, offline recomputation of a batch | `pipeline` |
| `execution/vm.rs` | operand stack, stack pointer, canary | `new`, `execute`, `Drop` | SHAKE256 |
| `storage/oram.rs` | 256 slots | `read`, `write`, `read_modify_write`, `swap`, `Drop` | SHAKE256 |
| `chain.rs` | a running root | `chain_root`, `chain_verify`, `ChainState` | SHAKE256 |
| `relations/` | none | Merkle, range proof, Pedersen, preimage, n-of-m signature | L1, SHAKE256 |
| `shamir.rs` | coefficients | `split`, `reconstruct` in GF(256) | OS generator |
| `commit_reveal.rs`, `blind.rs` | a nonce, a blinding factor | two-phase commitment, blinded claims | `pipeline` |
| `common/transcript.rs`, `shake256.rs`, `keccak_ct.rs` | a sponge | absorb, squeeze, framing | Keccak |
| `entropy_sources.rs`, `entropy_health.rs` | four threads and a barrier during one method | the methods, the hardware generator; repetition, proportion, min-entropy and correlation tests | OS |
| `interface.rs`, `main.rs` | none between invocations, but what was printed can be typed again | facade, argument handling, vetting of files | all |
| `pq_backends/` | none | calls of ML-KEM, ML-DSA, SLH-DSA, FN-DSA libraries | libraries |

What makes it hard to get right, and how it shows up in the code:

* **Interleaving.** Two places have threads: L0, with an atomic counter that is
  read before `mlock` and charged after it and page locks that do not nest, and
  `memory_contention_timing`, which starts four threads, meets them at a barrier and
  joins them. The command line races whoever else writes the file that it has
  just vetted. Everything else is per call.
* **Partial failure.** Any of twelve draws, two key validations, the signature
  and (in pluggable pipelines) the verification can fail half way, with secrets in
  local variables of three kinds: types that wipe themselves, arrays that only an
  explicit call wipes, and copies. A secondary source may be missing and the harvest
  goes on.
* **Flat hashes.** Most hashes absorb their inputs one after the other. Whether two
  different inputs can meet depends on which of them have a fixed length.
* **Sequences of calls.** "Stateless" is a statement about histories: two calls
  must not share a context, whatever failed in between and whichever entry points
  were used.
* **Limits.** Stack depth, code size, immediates at the end of the code, word
  arithmetic without branches, an n that is wider than the counter it is compared
  with, addresses that wrap.
* **Obliviousness.** The ORAM's results would be right with a leaking scan, too.

What makes each part correct is stated as a property, listed with its run below.

## Modules

`MC*` modules instantiate a specification for TLC; `*Proofs` hold its theorems.

### MemLock - L0

Threads create, fill and drop buffers. Each system call and each atomic
operation is a step: `Locked::new` is `Alloc`, `CheckBudget`, `MlockOk` or
`MlockFails`, `Count`; `Drop` is `BeginDrop`, `Zeroize`, `PoisonPass`, `Rezeroize`,
`Munlock`, `Uncount`, `Free`. `usage` is `LOCKED_MEMORY_USAGE` with its wrap-around
(`Word`), `pinned` the kernel's table, `owner` the borrow checker's guarantee that
a buffer has one owner. `Fill` stands for `fill_from` and for the squeeze into
`as_mut_bytes`. `mlock` may be refused at any time: the kernel counts pages,
the code bytes, and some platforms refuse always. All `Locked` values of the
engine have one size (`SEED_LEN`), so N is a constant.

### Attest, Iteration - L1 to L7, pipeline, hybrid

`Iteration` runs one call at a time through any entry point, one action per
layer and one per failure, and records every result in `calls`. Values are
modelled by provenance: a seed is the set of OS draws (or the VM root, or the
caller's bytes) it was computed from, a transcript is a tag, a seed and a claim.
Secret bytes are in two kinds of places. `live` is the set of local variables that hold
them; a return, by value or by `?`, removes those whose type has a wiping `Drop` and
records the rest as `left`. `stray` is the set of secrets of which there may be a copy
that no variable names any more: the seeds that `kem_keygen` and `dsa_keygen` take by
value (`l2_keygen.rs:190`, `:195`), what the `Vec` of `Shake256` held before it grew
(`shake256.rs:47`: OS bytes in a mix round, the MAC key in `hybrid_attest`), a reader that
`finalize_xof` returns by value, a key pair that moves. Nothing in the code clears those;
whether they are there depends on the build and the allocator, so the model says "may",
and the properties say of which secrets. Calls of different threads share nothing in these layers but the OS
generator, so a sequence of calls covers them.

`Attest` is the promise to a caller, in two steps `Start` and `Finish`: one result
per call, never revised; an `Ok` of a harvesting entry has a transcript nobody
had before; an `Ok` of a tidy entry leaves no secret in a variable, and what may be left
elsewhere tells about the draws of this call and of no other. An `Err` promises nothing
about its own memory, because the code does not keep such a promise. Tidy are all entries
but two: `verify_once_with_vm` leaves the VM's root, and a relation whatever its prover
derives (`ml_dsa.rs:137-146` leaves the key pair and the signing randomness).

Assumed: SHAKE256 and key generation are functions without collisions; two draws
of the OS generator differ; the KEM's shared secrets are not counted as secret
variables, since they are derived from public values (`l5_verify.rs:264`); copies
that the cryptographic libraries make inside belong to those libraries. The personalization
string of `harvest` is left out: it adds no secret and no failure.

### Aggregate - verify_batch, threshold_verify, verify_batch_transcripts

One action per iteration answered or failed, then `FinishCall`, or `Abort` where the
`u32` count overflows (the release profile has `overflow-checks` and
`panic = "abort"`). An iteration is what `Attest` promises of it. The accumulator
is the sequence of the fixed-size blocks it absorbed.

### MicroVM, VmAlu - execution/vm.rs

One action per opcode class, `Trap` for every early return inside the loop,
`Refuse` for those before it, `Finish` for the end with the second canary check.
One cell of the model stands for the eight bytes of an immediate, and for the
eight bytes of an absorbed word; the root is modelled by the absorbed trace, the
all-zero root by the empty one. `VmAlu` has the branchless formulas of the code,
with the bit operators of the community module Bitwise. `Reference` is a second,
independent evaluator, written from the opcode table in the module documentation
(`Effect` of one instruction, `Evaluate` of a whole program); the arithmetic of that
table is the constant `Table`. `MCMicroVM` gives it in plain numbers, and TLC
verifies that it is what the formulas compute on every pair of words
(`FormulasAreTheTables`).

### HashedMemory, Oram - storage/oram.rs

`Oram` scans slot by slot with a mask, and records the traffic on the bus and
the local buffers that hold contents. `HashedMemory` is the same memory with
operations that are requested, take effect at once and only then return. The
refinement maps a writing scan to its outcome from its first slot on (`MemBar`):
the values to write are decided by then.

### Merkle - relations/merkle.rs

The prover folds the leaves one level per step (`Reduce`), and `Proved` hands over
statement and proof. The verifier replays one level per step from a leaf hash, an
index, a count and siblings, which are either the prover's or anything from
`Offers`. `verify` and `merkle_verify_path` have the same body and are one set of
actions. A hash is the term it was computed from, with its tag; data can be two
hashes put together, which is how an inner node would pass for a leaf. The reference,
`MTH` and `PATH`, is the tree and the audit path of RFC 6962 as its section 2.1 has
them, by splitting at a power of two. The verifier hashes the leaf's data itself; a leaf hash taken from somebody
else is not covered. The count is part of the proof, not of the statement, so a
position means something only together with the right count: hence the premise
of `PositionIsBound`. `merkle-include` at the command line has no count either and
guesses it from the length of the path, which is right for paths without a promotion
(`FullPathsAreIncluded`), and aborts when the path is as long as a `usize` has bits
(`Overflows`).

### GaloisField, Shamir - shamir.rs

`split` and `reconstruct` are a step each, with the bit-serial multiplication, the
inversion by a fixed power and the interpolation as the code does them. The 64
bytes of a secret are shared independently, so the model shares one. The shares
come back to `reconstruct` in any order and number, and repeated. `FieldAssumption`
says that the polynomial is what the comment on `POLY` calls it, irreducible: no product
of two elements other than zero is zero (products commute, so each pair is tried once).
TLC evaluates it for the field of the model, GF(8), and in `MCRelations` for that of the
code, GF(2^8) with 0x11B (`ByteAssumption`).

### Stream - chain.rs, and the file functions of interface.rs

One call at a time, one action per call of the file system: `Open`, `Read` (any
number of bytes up to the chunk size), `Eof`, a failure of each, and `List` for an
entry of a directory. `AbsorbChunk` absorbs what was read and overwrites it. The
accumulator is the byte sequence that `Shake256` buffers; a name and a file hold
bytes of one alphabet, the two domain tags are symbols of their own. Sorting a
listing is choosing its ordered rearrangement (`Sorted`), and what a root says of
files is its byte sequence (`Content`). The root of a
Merkle tree over files is modelled by its leaves (see `Merkle`). Files do not
change while a call reads them. `MCStreamTwice` remembers the last verdict to
compare two.

### Entropy, EntropyHealth - harvest_multi_source, entropy_sources.rs, entropy_health.rs

A harvest is one action per method, in the order of the code, then one per source
folded into the pool, and `Squeeze`. An OS draw is its number; every other method
reads whatever the environment lets it read, the same as another method or as in the
call before included. Whitening is one-way and free of collisions, so the XOR of
whitened outputs is a symmetric difference, in which equal outputs cancel.
`memory_contention_timing` is modelled thread by thread: spawn (which may abort
the process), the barrier, the work, the join. `secret` is the set of variables
that hold raw or whitened bytes. `stray` has the values that may be left elsewhere: a
constructor's array is passed to `from_raw` by value (`entropy_sources.rs:158-164`), the
`Vec` of sources moves them when it grows (`l1_entropy.rs:298-323`), and
`for mut src in sources` wipes what it has moved out of the `Vec` (`:360`), whose storage
is freed as it is. `hardware_rng`, which no harvest calls, is an
action of its own over instructions that may flag a failure. `EntropyHealth` has
the tests as operators on a buffer; `log2` is replaced by a comparison of powers, and
the correlation coefficient by its integer numerator and variances, sums in the order
of the loops. The rounding of `f64` is left out. What a buffer is compared with
(`Others`) is a constant, because there is no bound on the values.

### Layers - the layer functions outside of the pipeline

`derive_keys_multi_source` and the generators, `commit_multi_source`, the provers
and verifiers, the validators, the derived verdicts, and the multi-pass wipe, pass by
pass. The seeds are those that `Entropy` has harvested. A hash is the term of its
flat input, so inputs without a length can run into each other in the model as they
do in the code.

### Transcript, Backends, Relations - common/transcript.rs, pq_backends/, relations/

`Transcript` runs a prover and a verifier that may hear something else; bytes and
length prefixes are numbers of one stream. `Backends` has key generation, signing
and verification of the three schemes, each a term of key, message and context: SLH-DSA's
`sign` wipes the key it was given, FN-DSA is a scaffold that refuses everything.
`Relations` proves and verifies every relation but Merkle inclusion, with the
statements and proofs of other witnesses, other ranges and other share lists shown to
the verifier as well. The challenge of a Lamport key is a random oracle: all of its
functions are tried.

### Sealing - commit_reveal.rs, blind.rs, keccak_ct.rs, shake256.rs

Tokens are issued with or without the nonce being kept and presented in any
combination with known nonces and claims, again and again, because the code borrows
them. A blinded byte is the set of symbols that it is the XOR of, and the
observer may combine all that it has seen. The masking hasher and the
`Shake256Reader` are modelled byte by byte, with the reader's end of buffer.

### Cli - main.rs, and interface.rs where main.rs calls it

One action per command, from its arguments through its early returns to the one line
it prints; an argument is a form (text, number, hex in either case, malformed) and
a value, and may be what an earlier invocation printed; a VM root, of twice as many
digits, has a form of its own, and an event may contain the separator of a chain.
`Abort` is a panic, which ends the process (`panic = "abort"`): `threshold` allocates a
vector of m verdicts (`threshold.rs:70`) and counts in a checked `u32` (`:91`),
`merkle-include` shifts by the number of siblings (`main.rs:383`). `Vet` and `ReadFile` are
two steps, and `FileChanges` may come between them. `LibraryEntry` is the call of
`attest_chain_entry` by a program: nothing is printed, and its event may be any
bytes, those of an old transcript included.

`MCMachines`, `MCLayers`, `MCRelations` and `MCCli` put modules that share no state into
one run: `script` chooses which of them a behaviour exercises. `MCMachines` has
`Iteration`, `Aggregate`, `MicroVM` and `Oram`; `MCLayers` has `MemLock`, `Entropy`,
`EntropyHealth` and `Layers`, of which the last takes the seeds that `Entropy` has
harvested and runs after it.

## Runs

"States" are distinct states.

| Run | States | What it shows |
|---|---|---|
| `Machines` | 1,715,663 | *Iteration:* `ImplementsAttest`, `HarvestedContextsAreFresh`, `OnlyKeysAfterL2` (the variables with pool and seed are gone when L3 starts, and copies may be left only of the secrets that the entry point is known to copy). *Aggregate:* `VerdictIsExact`: a verdict says of its iterations what the documentation says. `OkIsAuditable`: no failed iteration is behind an Ok, and the audit accepts the transcripts of a batch in their order and no other list. *MicroVM:* `RootIsReference`: the answer is that of the opcode table, whatever ran before. `TraceTellsCode`: the trace determines the program. `TypeOK` (the stack pointer), `NoStaleSlots`, `EveryStepAdvances`. *Oram:* `ImplementsMemory`, `Oblivious`. |
| `Layers_calls` | 58,438 | *MemLock:* `UsageExact`: the counter is exact, so it never wraps and disables locking. `OvershootBounded`: racing threads exceed the 80% threshold by at most a buffer each. `NoPinLeak`: a locked page has a buffer that will unlock it. `WipedBeforeRelease`: bytes are zero before the page is unlocked and before the block is free. `AloneIsPinned`: a buffer alone on its page is pinned as long as it says so. `EventuallyReleased`: every locked buffer is released. *Harvests:* `EveryDrawCounts`: no method's bytes cancel another's, and no failed hardware word is used. `SeedsAreFresh`. `HarvestCleansUp`: no thread outlives a harvest or passes the barrier early, and of its variables one is left unwiped. `HarvestReturns`. *The rest:* `HealthTestsAreExact`. `LayersBindInputs`: distinct seeds do not cancel, a commitment is accepted for its claim and context put together and for no other bytes, and a derived verdict tells its steps. `WipeEndsInZeros`. |
| `Relations_proofs` | 3,079,034 | `ProverIsRFC6962`: the level-by-level fold with promotion is the RFC 6962 tree, path included, and its verifier believes it. `AcceptedIsIncluded`: no proof put together from the tree's hashes passes for other data, or for another position under the right count. `RoundTrip`: t or more distinct shares in any order give the secret. `Secrecy`: t - 1 shares agree with every secret equally often. `ChallengesBindHistory`: two transcripts agree exactly when they heard the same, and no challenge comes twice. `OneLeafPerPosition`: proofs never reveal both Lamport leaves of a position. `VerifyIsExact`: `verify` accepts what `prove` made of a true statement, and refuses what the relation's documentation and its code both rule out. |
| `Cli_calls` | 1,700,232 | `OkCoversEverything`: a verdict over files covers every byte, once and in order, wherever reads were cut or failed and however a directory was listed, and an auditor computes the same root. `BufferIsWiped`, also after a failed read. `EventuallyReturns`. `TokensBind`: a token is revealed as its own claim only, and no two are equal. `NoStreamByteTwice`: masks, mask streams and the reader never serve a byte twice within their reach. `OneHonestAnswer`: one line per invocation that does not abort, only two commands can abort, and valid=1 is never said to what was to be refused. `PrintedIsUnderstood`: what one invocation prints, another takes for what it was, and takes nothing else for it. |
| `Aggregate_wide` | violated | `VerdictIsExact` for an n that `n as u32` truncates. |
| `Shamir_limit` | violated | `SplitAlwaysReturns`: a threshold beyond the coefficient array aborts. |
| `Stream_boundaries` | violated | `FileContentsAreBound`: what a file holds can pass for a file's name. |
| `Oram_wipe` | violated | `OldValueWiped`: what is wiped is a copy. |
| `Layers_cutoff` | violated | `CutoffIsAllowed`: as many equal samples as the "maximum allowed" are refused. |
| `Layers_context` | violated | `ContextIsBound`: bytes can move from the claim to the context of a commitment. |
| `Cli_unrevealed` | violated | `EveryTokenCanBeRevealed`: a token of `commit` has no nonce. |
| `Relations_shares` | violated | `SharesAreProven`: the threshold relation accepts shares that are not the witness's. |

Bounds, and why they are enough to make the cases happen:

* MemLock: two threads, three buffers, two of them on one page, and a limit that
  one buffer exceeds. Every race is between two threads; a third buffer keeps
  an exclusive page in play while the shared one is being unlocked.
* Iteration: two mix rounds stand for twelve (one that succeeded before one that
  fails), two claims of which one is a valid VM program, one caller's seed, and
  histories of three calls, so that a failed call or one of another entry can lie
  between the two that are compared. Two witnesses share a statement. In `MCMachines`
  only a full history stops (`HistoryIsFull`), so that deadlock is checked of everything
  else.
* Aggregate: up to four iterations and `U32 = 4`, so that the count reaches and
  passes its limit. `MaxN = 3` are the n that fit, `MaxN = 4` the first that does
  not: `U32` stands for 2^32, which a `usize` argument can reach.
* MicroVM: words of 8 bits (a power of two, as 64 is, and wide enough for every
  opcode to be an immediate), a stack of three, code of up to six cells and
  programs one cell longer. Programs: every opcode sequence of length two from an
  empty stack and of length three from two operands, all sequences of five stack
  instructions, and every operation on operands around 0, the shift width, the
  sign bit and the largest word. Any number of programs in any order.
* Oram: three slots, addresses that wrap, a hash that is not the identity.
* Merkle: up to nine leaves, which has levels of every parity (9, 5, 3, 2, 1), a
  tree with a repeated leaf, and for the untrusted verifier every path of up to
  three siblings (one more than a tree of four leaves has), every index, and counts
  from 0 to one more than there are leaves.
* Shamir: GF(8) with x^3 + x + 1; three coefficients stand for 32, and four shares,
  so that a threshold can exceed the array. All secrets, all polynomials. `Mul # Add` in
  `MCNext` is true and only makes TLC keep the tables of the field.
* Relations: integers of 3 bits, so that all values, bounds and shifts of a range are
  tried; two Lamport positions and all four challenges; `U8 = 4` with witnesses of up to
  five shares, so that the number of shares wraps; three calls per transcript with the
  empty string and a string that looks like a length. `UsizeBits = 4` is a path longer than
  those of the trees.
* Layers: the twelve methods and four threads of the code, two harvests, two
  environments (all methods read the same; all but the clock read something else);
  four samples and two bits of min-entropy stand for 64 and six; buffers of four
  bytes over zero, 0xFF, the poison pattern and two others. `MaxSeeds = 2` (a seed that
  is given twice), `MaxText = 1` (claim and context are empty or not, so that the border
  between them can move) and two derived verdicts. The layers are called after harvests
  that made both draws on a machine that reads zeros: to them a seed is a value, however
  it was made. `CHECK_DEADLOCK FALSE`, because a caller may have nothing left to ask for,
  and because the process may have aborted.
* Sealing: a mask of two bytes, claims that are shorter, as long and longer; a reader
  of three bytes and reads of 0, 2 and 4; two tokens, two reveals.
* Cli: two invocations with up to three arguments of every form, `MAX_FILE_SIZE = 2`
  with files below, at and above it; `MAX_COUNT = 2` and `MaxAlloc = 3` with counts on
  either side of both, `UsizeBits = 2` with paths of no, one and two siblings.
* Stream: two files that may be missing, empty, or longer than a chunk of one or
  two bytes, and an entry that is hidden or a directory; a file can hold the name
  of the other. Chunk size 0 is asked for, too.

Fairness. In `MemLock!FairSpec`, `WF` of `Advance(t)`: a thread inside
`Locked::new` or `Drop` is scheduled, none of those steps waits for another
thread. `SF` of `BeginDrop`: every value goes out of scope (nothing in the
repository forgets or leaks a `Locked`), but its owner may be in the middle
of another call again and again, which disables the step, hence strong fairness.
`MCLayers!Spec` has the same for the threads that own buffers.
In `Stream!Spec`, `WF` of `Progress`: a call that has begun runs on, it waits for
nothing but the file system. `Progress` leaves out the failures that could also
not happen, so that no call is said to end only because a read must fail. `MCCli`
has the same fairness. In `MCLayers!Spec`, too, `WF` of the steps of the calling thread
and of each worker: the scheduler runs them, `getrandom` and `thread::spawn` return,
with a result or an error, and the barrier releases who waits once the last arrives.

## Proofs

All for every value of the constants under the named `ASSUME`s; a further hypothesis is
part of the theorem's statement and named below.

Induction. The theorems of the library that take a predicate cannot be instantiated
here, but well-foundedness is a fact about sets: a set of numbers that is not empty has
a least element (`Least`), hence a set with 0 and closed under successor has them all
(`Induction`). With it the proofs reach recursive functions: such a function is a
`CHOOSE`, so one shows on finite prefixes that a function with its equation exists
(`CountingExists`, `AddingExists`), and argues from the equation.

* **MemLockProofs.** `UsageExact` is not inductive. The invariant adds the
  structure of the calls (a thread's `cur` is a buffer that only it owns, and
  what `pc` says about its `locked`), and, for the overshoot, that a thread which
  passed the budget test is charged at once (`AdmittedCharged`): `usage` plus N per
  admitted thread never exceeds the threshold plus N per thread. From it: `TypeCorrect`,
  `UsageIsExact`, `OvershootIsBounded`, `WipedBeforeReleased`, `PinsAreNotLeaked`,
  `PinnedWhenAlone`.
* **IterationProofs.** Freshness rests on: the pool holds only draws made since
  the last result, every seed recorded so far is built from earlier draws, and a
  pool after a round is not empty (`PoolIsNew`, `PastIsDisjoint`, `SeedIsPool`,
  `RoundsFillPool`, `HarvestedSeed`, `OkRecords`). Live secrets rest on a bound of
  `live` by step and entry (`Contained`), copies on one of `stray` by entry (`StrayIn`),
  and what leftovers tell on the draws being those of one call (`PastTells`). From these:
  `TypeCorrect`, `ContextsAreFresh`, `OnlyKeys` and `Refinement`, which shows that each
  step is a step of `Attest` or changes nothing it sees.
* **AggregateProofs.** While a call runs, the accumulator, the running AND and the
  collected choices say what the iterations answered (`Running`), and a returned
  verdict says it of those iterations (`Answered`). From these `Auditable`, and
  `ExactBelowWidth` under the premise `MaxN < U32`: without it `Aggregate_wide` is the
  counterexample.
* **MicroVMProofs.** `TypeCorrect` contains `sp \in 0 .. Depth`, which is what
  keeps `stack[sp - 1]`, `stack[sp - 2]` and `stack[sp]` inside the array;
  `NothingIsLeftBehind` (`NoStaleSlots`) needs it; `StepsAdvance` is the
  termination argument of the loop. `TracesTellCode`: while a program runs there is
  a list of the instructions read so far, each with its place in the code and in the trace
  (`Parsed`), and a downward induction along that list shows that the decoder gives the
  code back. `AnswersAreTheTables`: the slots below `sp` are the reference's stack, and the
  trace so far followed by what the reference absorbs from here on is what it absorbs of
  the whole program (`OnTheWay`). Its hypothesis `TableAgrees` is that the arithmetic is
  the table's; TLC verifies it for all words of 8 bits, not of 64.
* **OramProofs.** `Refinement` to `HashedMemory`, from four facts: what a reading
  scan has gathered so far, what a writing scan has stored so far, that only
  `swap` has two targets, and that `read` never writes.
  `ScansAreOblivious` is inductive with the types and with the fact that only
  `write` begins with a writing scan; the rest is about sequences that grow.
* **RelationsProofs.** `MerkleIsSound`, for trees of any size and proofs of any content:
  the prover's levels, indices and used siblings form a tower (`Tower`), and a verifier
  that was told the right count stands on a level of it and has the tower's hash only if
  it began with the right leaf and took the prover's siblings (`Follows`). Under a wrong
  count only membership is left, from the set of hashes that the tree closes over
  (`Closed`). `TranscriptsBindHistory`: a state of the sponge is reached by one history
  only (`Apart`), because lengths frame what is absorbed (`FrameSplits`). `RelationsAreExact`:
  bits put together again are the number (an induction over the width), and the
  masked comparisons and saturating sums are those of the integers as long as nothing saturates; `VerifiedWasSigned`
  follows the key that SLH-DSA wipes (`BackendInv`). `LamportOpensOneLeaf`: the challenge
  is a function of the statement, so all proofs of one witness open the same leaves.

  `ProverBuildsTheTree`. The prover pairs neighbours level by level and promotes the odd
  one; the reference splits the list at a power of two. They meet in `PartHashes`: d
  levels up, a node is the reference's hash of 2^d leaves, or of those left at the end,
  and folding keeps that (`NodesFold`), because the parts that a fold joins are the parts
  that the reference splits (`PartsJoin`). The path grows with the level in the same way
  (`PathGoesOn`). For the verifier with the guessed count, `GuessInv` follows the replay
  along the tower of a path without promotions, which is that of a full tree (`Climbs`),
  and a promoted position lies beyond the leaves that a full tree with so many siblings
  has (`PromotedIsFar`).

  `SharesRoundTrip` and `SharesHide`, for every width, polynomial, threshold, number of
  shares and order, from `FieldAssumption` and the code's loops alone. No axiom of a field
  is assumed; the laws are derived. Bits determine a number and `Xor` adds them without
  carry (`XorLaws`); each round of `gf_mul` is linear, hence products distribute
  (`MulAdds`), commute and associate (`MulShuffles`); without zero divisors the multiples
  of an element permute the others, which is Fermat's little theorem (`Fermat`), and the
  exponent 2^Bits - 2 of `gf_inv` is an inverse (`InverseIs`). `gf_eval` is Horner's rule
  (`Horner`), a polynomial with a root has a factor less (`PolyFactors`), so one with m
  coefficients has fewer than m roots (`PolyRoots`) and two that agree at m points are one
  (`PolySame`), coefficient by coefficient (`OneList`); the basis polynomials interpolate
  (`Interpolates`), and at zero they are the weights that `reconstruct` computes
  (`RebuiltIs`). The invariant is `SharingInv`: the shares are those of some draw of
  the coefficients with the secret in front. `RoundTrip` alone is not inductive, it says
  nothing of the shares. For `Secrecy`, at t - 1 points other than zero exactly one list
  of t - 1 coefficients has any given values (`OneExplanation`).
* **LayersProofs.** Any number of harvests, threads and environments. `SeedsAreFresh`
  rests on: every method is collected once (`Once`), so that no whitened output
  cancels another and the pool is the set of those folded so far
  (`EveryMethodCounts`); the draws in sources and seeds have been made (`Drawn`);
  hence the primary draw of the call in progress is in no earlier seed
  (`PrimaryIsNew`) and is in the pool when it is squeezed. `HarvestCleansUp` rests on
  where the threads can be while the caller is at a step (`Threads`); that the barrier
  releases everyone at once is a fact about cardinalities (`BarrierMeets`). From these:
  `SeedsFresh`, `DrawsCount`, `CleansUp`. Every step of `Layers` is a step of
  `EntropySpec` or leaves its variables alone. `WipesEndInZeros`: the passes that are
  left always end with zeros (`WipeInv`), and a buffer of zeros is refused by each
  validator. `InputsAreBound`: the seeds of a key are a symmetric difference, in which
  distinct seeds stay (`DistinctSeedsAdd`), a flat text tells its bytes (`TextTells`)
  though not where one input ends, and a derived verdict is told down to its first
  step by induction (`Derivation`, `HistoryIsTold`). `HealthTestsDecide`: the counter
  of the repetition test is the length of the run that ends there (`CountIsLongestRun`);
  a buffer of `2^MinEntropy` bytes passes exactly if the largest count is one
  (`HealthyIsDistinct`); the correlation is at most 1 by the inequality of Cauchy and
  Schwarz, which comes from sums of squares (`CauchySchwarz`), and vanishes on a
  source and its twin only for a source that is stuck.
* **CliProofs.** `Binding`: a digest begins with a nonce of fixed length, so it
  determines nonce and claim (`DigestTells`), and no two tokens share a nonce (`Issued`).
  `StreamBytesAreUsedOnce`: the counters of the masking hasher are not used twice
  (`Rows`), the reader's position is what was asked for, up to its end (`Reads`), and a
  factor is XORed with claims only (`BlindInv`). `BufferWiped`: the buffer holds bytes
  between a read and its absorb only, where nothing can fail. `VerdictsCover`: what is
  absorbed is the files before this one and a prefix of it, and the buffer is what
  comes next (`CoverInv`); a sorted listing has each visible file once, the root of
  events is unfolded event by event. `HonestAnswers` and `PrintedIsTaken`: what was
  printed is a root of events of one symbol each, or an entry linked to what was typed
  (`Histories`), `chain_root` is injective on those (`RootTells`), and nothing is printed
  while a file is vetted (`Silent`). Lists of events that contain the separator are
  outside of `RootTells`, and of the property. Both assume `ArgvsAreLists`: arguments are finite
  lists of finite texts, which `std::env::args` gives.

Only model-checked:

* `EventuallyReleased`, `EventuallyReturns` and `HarvestReturns`: liveness is out of the
  prover's reach;
* `FieldAssumption` for 0x11B, a fact about the products of bytes that TLC evaluates.

## Where the code and its documentation disagree

Eight disagreements are runs that TLC refutes; `PROJECT.json` quotes the lines:

* the truncated n of `threshold_verify` (`Aggregate_wide`);
* the threshold of `shamir::split` beyond 32 (`Shamir_limit`);
* the framing of `attest_chain_files` (`Stream_boundaries`);
* the copy that `read_modify_write` wipes (`Oram_wipe`);
* `repetition_count_test` refuses a run of exactly `cutoff`, which `entropy_health.rs:29`
  calls the maximum allowed (`Layers_cutoff`);
* `commit_multi_source` binds claim and context put together and not each of them, against
  `docs/L3_LAYER.md:334-335` (`Layers_context`);
* a token of `commit`, which drops the nonce, can never be revealed, against
  `commit_reveal.rs:10-12` (`Cli_unrevealed`);
* the threshold relation hashes the shares and compares the hashes with nothing, against
  `threshold_verify.rs:15-25` (`Relations_shares`).

Others met while modelling, without a run:

* `munlock` works on whole pages: the `Drop` of a `Locked` buffer unlocks the page of
  a neighbour whose `locked` stays true, against the invariant of
  `l0_memlock.rs:449` (`SECURITY.md` mentions the effect). `AloneIsPinned` is what
  holds.
* When a draw fails in a later round, `?` leaves `harvest` before the pool is wiped
  (`l1_entropy.rs:201`), and `hybrid_attest` leaves `mac_key` behind in the same way
  (`hybrid.rs:85`). The model records it in `left`; `Attest` promises nothing for
  an `Err`.
* `verify_once_with_vm` uses the VM root as the seed (`pipeline.rs:247`): two calls
  with one claim have the same keys, against `pipeline.rs:12`.
  `HarvestedContextsAreFresh` leaves this entry out.
* `shamir::reconstruct` does not know t, so fewer than t shares give a wrong value
  and not the `None` that `shamir.rs:164` announces for an "insufficient count".
* `Shake256` buffers everything it absorbs (`shake256.rs:47`), so the streaming
  functions do hold the whole file in memory, against `interface.rs:104`. A short
  read changes the chunks and with them the root, so the same contents need not
  give the same root (`interface.rs:114`).
* The chain has no lengths, and `CHAIN_STEP` is printable (`domain.rs:77`): an event that
  contains its bytes has the root of two events, against `chain.rs:9-10`. `Cli` types such
  events, and `VerifyTellsEvents` claims nothing of them (`Plain`); `Stream` keeps the
  tags outside the alphabet of its files.
* The budget test counts bytes, the kernel pages, so `mlock` can fail although the
  test, described as preventing that (`l0_memlock.rs:89`), passed. Nothing depends
  on it: the proofs allow `mlock` to fail at any time.
* In `verify_once_with_oram` slot 0 holds the bytes of the seed in use until the
  function returns (`pipeline.rs:219`), and `vm_root` (`pipeline.rs:244`) and the
  by-value argument of `ObliviousRAM::write` (`oram.rs:100`) are never wiped.
  `OnlyKeysAfterL2` leaves these two entries out for that reason, and `Tidy` the VM's.
* `MicroVM::new` discards the result of `getrandom` (`vm.rs:128`); a failed
  draw gives canary 0 and zero roots. `RootIsReference` includes the canary.
* `read_modify_write` and `swap` scan twice (`oram.rs:129` and `:172` say once), and
  `read` returns what is stored, not its hash (`oram.rs:62`).
* Secrets are copied where nothing wipes them (`stray` in `Iteration` and `Entropy`), against
  "Only the `Locked<64>` seed survives" (`l1_entropy.rs:271-273`, also `:19-20` and `:127`) and
  `pipeline.rs:63-66`. "Wipe every intermediate" (`l1_entropy.rs:356`) does not reach
  `whitened` either, nor the storage of the `Vec` that the sources were moved out of.
* `harvest_multi_source` uses twelve methods, its documentation lists six
  (`l1_entropy.rs:243`). A failing secondary source is skipped without a trace, which the
  freshness of seeds survives and `SeedsAreFresh` includes.
* `hardware_rng` whitens with the tag of the hardware counter; it would share it with
  that method if a harvest called it.
* The health check takes 64 samples and asks for six bits of min-entropy, so it
  passes only buffers of 64 distinct bytes, which good sources seldom deliver. The cutoff of
  the proportion test is refused in the same way as that of the repetition test
  (`entropy_health.rs:68`).
* `commit_reveal.rs:140` says that the nonce is wiped; it is borrowed, and a token can
  be revealed again. `RevealedAsCommitted` says as what.
* `threshold` aborts for an m that cannot be allocated or counted (`threshold.rs:70`, `:91`),
  `merkle-include` for 64 siblings (`main.rs:383`): no line is printed. `OneAnswer` names
  these two and no other.
* `keccak_ct.rs:43-47` promises the same output as the unmasked hash: the mask is never
  removed. The mask stream is zero past 256 bytes, and known after `ct_finalize`;
  `NoStreamByteTwice` is limited to what lies before. A blinding mask repeats
  after 32 bytes, and is reused by `from_nonce` with an old nonce.
* The number of shares is taken modulo 256 (`threshold_verify.rs:111`): `prove` succeeds with
  256 shares or more, and its proof is refused. `ThresholdIsExact` is about fewer.
* A range proof binds the distance of the value from the minimum, and the sum of the
  two saturates: with a maximum of `u64::MAX` any distance is accepted
  (`range_proof.rs:232`), against `:17-18`. `RangeIsExact` is exact where the sum is
  a number.
* `attest_chain_entry` (`interface.rs:514-525`) does not frame its two inputs: a first entry
  whose event begins with a transcript passes for one that follows it
  (`EntryTellsPlace`).
* `derive_keys_multi_source` XORs its seeds: one that is given twice cancels, against
  `docs/L2_LAYER.md:314-319`; `OnlyTwinsCancel` says that nothing else does. The
  generators derive with HKDF and give other keys than `derive_keys` from one seed.
* SLH-DSA's `sign` wipes the caller's key: a second signature is made with zeros and
  does not verify (`VerifiedWasSigned`).
* `main.rs`: a malformed previous transcript makes a first entry (`:265-269`); a word
  counts as 0 where a number is expected; the size is checked before the file is
  opened, and a failing `metadata` passes (`:296-301`); `merkle-include` knows
  complete trees only (`:380-384`); the exit code is 0 whatever the answer.
* `is_memory_locked` compares a number of pages with a number of bytes. Nothing in
  the engine uses its answer.

## Not modelled, and what is left

* The permutation of Keccak and the post-quantum schemes are libraries, and enter as
  functions without collisions. The functions of `pq_backends` around the KEM are single
  calls into one; the KEM round trip of L5 is in `Iteration`.
* What clocks, addresses and ids read is pure I/O: a free choice.
* `BytecodeBuilder`, which appends the bytes of an opcode to a vector, `unblind_verdict`
  (a pure XOR), `is_memory_locked` (reads only), `verify_transcript` (one comparison),
  the panic hook and the re-exports of `lib.rs` have no state to model.
* `harvest_external` exists in `no_std` builds only. `proofs/kani_proofs.rs` is a
  verification harness of its own, for functions that are modelled here.
* The remaining functions of `interface.rs` are single calls of a pipeline or of a
  relation.

Still worth doing:

* A composition of `Iteration` and `MemLock`: two threads run iterations whose
  seeds are `Locked` buffers. The two modules share only the lifetime of a seed, and
  each covers its side of it for any number of threads or calls.
