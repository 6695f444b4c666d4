------------------------------ MODULE Entropy ------------------------------
(***************************************************************************)
(* harvest_multi_source of src/src/layers/l1_entropy.rs over the methods   *)
(* of src/src/entropy_sources.rs, and the hardware generator.              *)
(*                                                                         *)
(* The bytes of a source are modelled by where they come from: an answer   *)
(* of getrandom by its number, everything else (clock, addresses, ids,     *)
(* timings) by a small reading that the environment is free to repeat.     *)
(* Whitening is one-way and free of collisions, so the whitened output is  *)
(* the pair of tag and raw bytes, and the XOR of two outputs is their      *)
(* symmetric difference: equal outputs cancel.                             *)
(***************************************************************************)
EXTENDS Integers, Sequences, FiniteSets, FiniteSetsExt

CONSTANTS
  Environments, \* [Ambient -> readings]: what the non-CSPRNG methods may read
  Workers,      \* threads of memory_contention_timing; 4 in the code
  MaxHarvests,  \* bound on the number of calls
  HwAnswers     \* what the hardware generator may answer to one hardware_rng

Ambient == <<"wall_clock", "stack_addr", "thread_id", "hw_counter", "process_id",
             "memory_alloc", "cpu_cache", "page_fault", "interrupt">>

Contention == "memory_contention"
AmbientNames == {Ambient[k] : k \in DOMAIN Ambient} \cup {Contention}
Names == AmbientNames \cup {"os_primary", "os_secondary"}

ASSUME EntropyAssumption ==
  /\ \A e \in Environments : DOMAIN e = AmbientNames
  /\ Environments # {} /\ IsFiniteSet(Workers) /\ MaxHarvests \in Nat
  /\ \A a \in HwAnswers : DOMAIN a \subseteq Nat \ {0}

VARIABLES
  step,     \* where harvest_multi_source is
  env,      \* what the ambient methods read during this call
  drawn,    \* answers of getrandom since the start
  sources,  \* the sources collected so far, in their order
  worker,   \* each thread of memory_contention_timing
  pool,     \* the XOR of the whitened outputs folded so far
  folded,   \* sources folded so far
  secret,   \* values that variables of the call hold: raw bytes by method, pool, whitened
  stray,    \* values of which a copy may be left that no variable names any more
  seeds,    \* history: the pools that the seeds were squeezed from
  outcome,  \* how the last call ended
  hw        \* the last hardware_rng: what was answered and the source it made

harvestVars == <<step, env, drawn, sources, worker, pool, folded, secret,
                stray, seeds, outcome>>
entropyVars == <<harvestVars, hw>>

Steps == {"idle", "primary", "secondary", "ambient", "spawn", "barrier", "join",
          "fold", "squeeze", "aborted"}

EntropyInit ==
  /\ step = "idle" /\ env \in Environments /\ drawn = 0
  /\ sources = << >> /\ worker = [w \in Workers |-> "none"]
  /\ pool = {} /\ folded = 0 /\ secret = {} /\ stray = {} /\ seeds = << >> /\ outcome = "none"
  /\ hw = [answers |-> << >>, name |-> "none", words |-> << >>]

----------------------------------------------------------------------------
(* Sources                                                                 *)

\* Mutant of Tag: a method was added with the tag of the one above it.
TagCopied(name) == IF name = "page_fault" THEN "cpu_cache" ELSE name

\* domain::ENTROPY_SOURCE_*: one tag per method of the harvest.
Tag(name) == name

Source(name, raw) == [name |-> name, raw |-> raw]
OsDraw(k) == <<"os", k>>
Reading(v) == <<"reading", v>>

\* EntropySource::whiten: SHAKE256(domain_tag || raw).
whiten(s) == <<Tag(s.name), s.raw>>

\* from_raw takes the constructor's array by value, push moves the source into a Vec,
\* and the Vec moves all of its sources when it grows: a copy may stay behind each time.
Collect(s) ==
  /\ sources' = Append(sources, s)
  /\ secret' = secret \cup {s.name}
  /\ stray' = stray \cup {s.name}

----------------------------------------------------------------------------
(* harvest_multi_source                                                    *)

Harvest(e) ==
  /\ step = "idle" /\ Len(seeds) < MaxHarvests
  /\ step' = "primary" /\ env' = e /\ secret' = {} /\ stray' = {}
  /\ worker' = [w \in Workers |-> "none"]
  /\ UNCHANGED <<drawn, sources, pool, folded, seeds, outcome>>

Primary ==
  /\ step = "primary" /\ step' = "secondary"
  /\ drawn' = drawn + 1
  /\ Collect(Source("os_primary", OsDraw(drawn + 1)))
  /\ UNCHANGED <<env, worker, pool, folded, seeds, outcome>>

\* Mutant of PrimaryFails: the error is dropped and the zeroed buffer used.
PrimaryFailsSilently ==
  /\ step = "primary" /\ step' = "secondary"
  /\ Collect(Source("os_primary", OsDraw(0)))
  /\ UNCHANGED <<env, drawn, worker, pool, folded, seeds, outcome>>

\* getrandom fails for the primary source: nothing was collected yet.
PrimaryFails ==
  /\ step = "primary" /\ step' = "idle"
  /\ outcome' = "entropy"
  /\ UNCHANGED <<env, drawn, sources, worker, pool, folded, secret, stray, seeds>>

Secondary ==
  /\ step = "secondary" /\ step' = "ambient"
  /\ drawn' = drawn + 1
  /\ Collect(Source("os_secondary", OsDraw(drawn + 1)))
  /\ UNCHANGED <<env, worker, pool, folded, seeds, outcome>>

\* `if let Ok(s)`: a failing secondary source is skipped.
SecondarySkipped ==
  /\ step = "secondary" /\ step' = "ambient"
  /\ UNCHANGED <<env, drawn, sources, worker, pool, folded, secret, stray, seeds, outcome>>

Collected(name) == \E k \in DOMAIN sources : sources[k].name = name

\* The infallible methods, in the order of the code.
ReadAmbient(k) ==
  /\ step = "ambient"
  /\ \A j \in 1 .. k - 1 : Collected(Ambient[j])
  /\ ~Collected(Ambient[k])
  /\ Collect(Source(Ambient[k], Reading(env[Ambient[k]])))
  /\ step' = IF k = Len(Ambient) THEN "spawn" ELSE "ambient"
  /\ UNCHANGED <<env, drawn, worker, pool, folded, seeds, outcome>>

(* memory_contention_timing                                                *)

Spawn(w) ==
  /\ step = "spawn" /\ worker[w] = "none"
  /\ worker' = [worker EXCEPT ![w] = "running"]
  /\ UNCHANGED <<step, env, drawn, sources, pool, folded, secret, stray, seeds, outcome>>

\* thread::spawn panics when the OS refuses a thread, and panic = "abort".
SpawnFails ==
  /\ step = "spawn" /\ \E w \in Workers : worker[w] = "none"
  /\ step' = "aborted" /\ outcome' = "aborted"
  /\ UNCHANGED <<env, drawn, sources, worker, pool, folded, secret, stray, seeds>>

\* The caller starts the clock and waits at the barrier.
MeetWorkers ==
  /\ step = "spawn" /\ \A w \in Workers : worker[w] # "none"
  /\ step' = "barrier"
  /\ UNCHANGED <<env, drawn, sources, worker, pool, folded, secret, stray, seeds, outcome>>

WorkerArrives(w) ==
  /\ worker[w] = "running"
  /\ worker' = [worker EXCEPT ![w] = "waiting"]
  /\ UNCHANGED <<step, env, drawn, sources, pool, folded, secret, stray, seeds, outcome>>

\* Mutants of BarrierSize: the caller was not counted, or twice.
BarrierSizeTooSmall == Cardinality(Workers)
BarrierSizeTooLarge == Cardinality(Workers) + 2

\* Barrier::new(5): the workers and the caller.
BarrierSize == Cardinality(Workers) + 1

Waiting == {w \in Workers : worker[w] = "waiting"}

\* The last arrival releases everyone who waits.
Release ==
  /\ step = "barrier" /\ Cardinality(Waiting) + 1 >= BarrierSize
  /\ step' = "join"
  /\ worker' = [w \in Workers |-> IF w \in Waiting THEN "working" ELSE worker[w]]
  /\ UNCHANGED <<env, drawn, sources, pool, folded, secret, stray, seeds, outcome>>

WorkerExits(w) ==
  /\ worker[w] = "working"
  /\ worker' = [worker EXCEPT ![w] = "gone"]
  /\ UNCHANGED <<step, env, drawn, sources, pool, folded, secret, stray, seeds, outcome>>

\* Mutant of Join: the handles are dropped, which detaches the threads.
JoinNobody ==
  /\ step = "join" /\ step' = "fold"
  /\ Collect(Source(Contention, Reading(env[Contention])))
  /\ UNCHANGED <<env, drawn, worker, pool, folded, seeds, outcome>>

\* Every handle is joined, and the elapsed time becomes the source.
Join ==
  /\ step = "join" /\ \A w \in Workers : worker[w] = "gone"
  /\ step' = "fold"
  /\ Collect(Source(Contention, Reading(env[Contention])))
  /\ UNCHANGED <<env, drawn, worker, pool, folded, seeds, outcome>>

(* The pool                                                                *)

\* `whitened` is a plain array that whiten returns by value: nothing wipes it.
Fold ==
  /\ step = "fold" /\ folded < Len(sources)
  /\ pool' = SymDiff(pool, {whiten(sources[folded + 1])})
  /\ folded' = folded + 1
  /\ secret' = secret \cup {"pool", "whitened"} /\ stray' = stray \cup {"whitened"}
  /\ step' = IF folded + 1 = Len(sources) THEN "squeeze" ELSE "fold"
  /\ UNCHANGED <<env, drawn, sources, worker, seeds, outcome>>

\* Mutant of WipedAtEnd: the explicit wipes are forgotten and only Drop runs.
WipedByDropOnly == Names

\* The variables wiped before harvest_multi_source returns: the loop's `src`, into which
\* each source was moved, and the pool.
WipedAtEnd == Names \cup {"pool"}

\* The seed is squeezed into a Locked buffer, out of a reader that finalize_xof returns
\* by value.  `for mut src in sources` moves each source out of the Vec before it is
\* wiped, and the storage of the Vec is freed as it is.
Squeeze ==
  /\ step = "squeeze" /\ step' = "idle"
  /\ seeds' = Append(seeds, pool)
  /\ sources' = << >> /\ pool' = {} /\ folded' = 0
  /\ stray' = stray \cup {sources[k].name : k \in DOMAIN sources} \cup {"seed"}
  /\ secret' = secret \ WipedAtEnd
  /\ outcome' = "ok"
  /\ UNCHANGED <<env, drawn, worker>>

(* hardware_rng: a source of its own, which the harvest does not use       *)

Failed == -1

\* Mutant of hw_random_u64: the carry flag is not looked at.
hw_random_u64_unchecked(r) == r.value

\* rdrand and rndr: a value, unless the CPU has no generator or flags a failure.
hw_random_u64(r) == IF r.available /\ r.flag THEN r.value ELSE Failed

\* The words of raw: those before the first failure, which ends the loop.
Words(answers) ==
  LET good == {k \in DOMAIN answers : \A j \in 1 .. k : hw_random_u64(answers[j]) # Failed}
  IN  [k \in good |-> hw_random_u64(answers[k])]

hardware_rng(answers) ==
  /\ step = "idle"
  /\ hw' = [answers |-> answers, words |-> Words(answers),
            name |-> IF Words(answers) = << >> THEN "hw_rng_unavailable" ELSE "hw_rng"]
  /\ UNCHANGED harvestVars

\* The steps of the calling thread.
CallerStep ==
  \/ Primary \/ PrimaryFails \/ Secondary \/ SecondarySkipped
  \/ \E k \in DOMAIN Ambient : ReadAmbient(k)
  \/ \E w \in Workers : Spawn(w)
  \/ SpawnFails \/ MeetWorkers \/ Release \/ Join \/ Fold \/ Squeeze

WorkerStep(w) == WorkerArrives(w) \/ WorkerExits(w)

HarvestNext ==
  \/ CallerStep
  \/ \E w \in Workers : WorkerStep(w)
  \/ \E e \in Environments : Harvest(e)

EntropyNext == (HarvestNext /\ UNCHANGED hw) \/ \E a \in HwAnswers : hardware_rng(a)

EntropySpec == EntropyInit /\ [][EntropyNext]_entropyVars

----------------------------------------------------------------------------
(* Properties                                                              *)

\* No method's contribution is lost: whatever the methods read, also when several
\* read the same bytes, the pool holds the whitened output of each source folded
\* so far, because no two of them share a tag (l1_entropy.rs:334).
EveryMethodCounts ==
  pool = {whiten(sources[k]) : k \in 1 .. folded}

\* Seeds are fresh: two harvests never yield the same seed, even when the secondary
\* source fails both times and every other method reads the same (a stopped clock,
\* the same addresses), because a call without a primary draw is refused.
SeedsAreFresh ==
  \A i, j \in DOMAIN seeds : i # j => seeds[i] # seeds[j]

\* What a harvest wipes and what it does not.  On every return its variables are
\* cleared but for one plain array, the whitened output folded last; of the pool there
\* is no copy either, and a refused harvest leaves nothing at all.  Of the raw bytes and
\* of what is returned by value there may be copies, in freed storage and in variables
\* that were moved from, whatever "Only the Locked<64> seed survives" (l1_entropy.rs:273)
\* says.
VariablesAreWiped ==
  step = "idle" =>
    /\ secret \subseteq {"whitened"} /\ "pool" \notin stray
    /\ outcome = "entropy" => secret \cup stray = {}

\* No thread of memory_contention_timing outlives the source it was started for.
NoThreadOutlives ==
  step \in {"fold", "squeeze", "idle"} =>
    \A w \in Workers : worker[w] \in {"none", "gone"}

\* Nobody passes the barrier before all have arrived: no worker works while one of
\* them, or the caller, has still to come (entropy_sources.rs:432).
TimedUnderContention ==
  \A w \in Workers :
    worker[w] = "working" => \A v \in Workers : worker[v] \in {"working", "gone"}

\* A word that the instruction flagged as a failure never becomes entropy, and the
\* source says so when there was none (entropy_sources.rs:491).
NoFailedWordIsUsed ==
  /\ \A k \in DOMAIN hw.words : hw.answers[k].available /\ hw.answers[k].flag
  /\ hw.name = "hw_rng" <=> hw.words # << >>

\* Every draw that counts is in the seed, and nothing else is: no method's bytes cancel
\* another's, and no word of a failed instruction passes for one.
EveryDrawCounts == EveryMethodCounts /\ NoFailedWordIsUsed

\* A harvest leaves nothing running, no pool and only one variable unwiped, and its
\* threads have worked while it measured.
HarvestCleansUp == VariablesAreWiped /\ NoThreadOutlives /\ TimedUnderContention
=============================================================================
