-------------------------------- MODULE Cli ---------------------------------
(***************************************************************************)
(* The command line of src/src/main.rs, and the entry points of            *)
(* src/src/interface.rs that it calls: arguments are parsed, files are     *)
(* vetted, the engine is called, one line is printed.  A caller may type   *)
(* what an earlier call has printed.                                       *)
(*                                                                         *)
(* An argument has a form and a value: a text, two texts with the bytes of *)
(* CHAIN_STEP between them ("joined"), a number, 64 digits of hex as       *)
(* printed or in capitals, 128 digits ("long"), malformed hex.  The engine *)
(* answers with a verdict of either kind or with an error; transcripts are *)
(* numbered.  A panic aborts the process (Cargo.toml:45-51).               *)
(***************************************************************************)
EXTENDS Stream

CONSTANTS
  Argvs(_, _),    \* arguments of a command, given what was printed before
  FileSizes,      \* sizes of the file that is signed
  MAX_FILE_SIZE,  \* 100 MB in the code
  MAX_COUNT,      \* the largest u32
  MaxAlloc,       \* the bytes that a Vec can have, less than 2^63 in the code
  UsizeBits,      \* 64 in the code
  MaxInvocations  \* bound on the invocations of a behaviour

ASSUME CliAssumption ==
  /\ FileSizes \subseteq Nat
  /\ {MAX_FILE_SIZE, MAX_COUNT, MaxAlloc, UsizeBits, MaxInvocations} \subseteq Nat

VARIABLES
  stage,    \* "shell", "vetting", "reading" or "exit"
  cmd, argv,  \* the command and its arguments
  disk,     \* the file named by sign-file: how its path looks, its kind and size
  vetted,   \* the size that is_file_too_large saw, -1 if metadata failed
  stdout,   \* the lines printed: validity and the value behind transcript= or root=
  attested, \* what the engine was given last
  told,     \* the value that the last invocation printed
  roots,    \* event lists of the roots printed so far
  entries,  \* the chain entries attested so far
  runs      \* invocations so far

cliVars == <<stage, cmd, argv, disk, vetted, stdout, attested, told, roots, entries, runs>>

TextCommands == {"sign", "blind-sign", "hybrid-sign"}
FileCommands == {"sign-file", "sign-stream"}
ListCommands == {"batch-sign", "chain", "chain-root", "prove merkle-root"}
SeedCommands == {"prove hash-preimage", "prove ml-dsa"}
Commands == TextCommands \cup FileCommands \cup ListCommands \cup SeedCommands \cup
  {"verify", "threshold", "vm-execute", "chain-entry", "prove pedersen",
   "prove range-proof", "prove merkle-include", "help"}

NoFile == [path |-> "plain", kind |-> "absent", size |-> 0]
Dash == << >>   \* transcript=-

CliInit ==
  /\ stage = "shell" /\ cmd = "help" /\ argv = << >> /\ disk = NoFile /\ vetted = 0
  /\ stdout = << >> /\ attested = << >> /\ told = Dash /\ roots = {} /\ entries = << >>
  /\ runs = 0

----------------------------------------------------------------------------
(* Parsing                                                                 *)

Missing == [form |-> "text", val |-> << >>]   \* unwrap_or_default
Arg(k) == IF k \in DOMAIN argv THEN argv[k] ELSE Missing

\* Mutant of parse_hex_root: the length is not checked, the first 64 digits are taken.
parse_hex_root_prefix(a) ==
  IF a.form \in {"hex", "HEX"} THEN <<a.val>>
  ELSE IF a.form = "long" THEN <<<<a.val[1]>>>> ELSE << >>

\* 64 digits of either case; none if malformed or of another length.
parse_hex_root(a) == IF a.form \in {"hex", "HEX"} THEN <<a.val>> ELSE << >>

\* Mutant of hex_decode: malformed hex is no bytes.
hex_decode_lossy(a) == IF a.form \in {"hex", "HEX", "long"} THEN <<a.val>> ELSE <<Dash>>

\* Digits of either case, any even number of them.
hex_decode(a) == IF a.form \in {"hex", "HEX", "long"} THEN <<a.val>> ELSE << >>

\* parse().ok().unwrap_or(0).
Number(a) == IF a.form = "num" THEN a.val[1] ELSE 0

\* The bytes of an argument that is taken as text.  CHAIN_STEP is printable ASCII
\* (domain.rs:77), so a text may contain it.
Text(a) == IF a.form = "joined" THEN <<a.val[1], STEP, a.val[2]>> ELSE <<a>>
Texts(from) == [k \in 1 .. Len(argv) - from + 1 |-> Text(argv[from + k - 1])]

----------------------------------------------------------------------------
(* Printing                                                                *)

Line(valid, val) == [valid |-> valid, val |-> val]
Refusal == Line(0, Dash)

Print1(line) ==
  /\ stage' = "exit" /\ stdout' = Append(stdout, line) /\ told' = line.val

Transcript(k) == <<2000 + k>>
VmRoot(k) == <<3000 + k, 0>>   \* twice as long

\* print_verdict of what the engine may answer to invocation k: a verdict, or an error.
Answers(k) == {Line(valid, Transcript(k)) : valid \in 0 .. 1} \cup {Refusal}

\* The answer to an engine call on the given data.
Engine(data) == attested' = data /\ \E line \in Answers(runs) : Print1(line)

Refuse == Print1(Refusal) /\ UNCHANGED attested

\* A panic: the process is gone, and nothing is printed to stdout.
Abort == stage' = "exit" /\ told' = Dash /\ UNCHANGED stdout

----------------------------------------------------------------------------
(* Commands                                                                *)

\* main: the arguments are collected and the command is looked up.
Invoke(c, args) ==
  /\ stage = "shell" /\ runs < MaxInvocations
  /\ stage' = "vetting" /\ cmd' = c /\ argv' = args /\ runs' = runs + 1
  /\ stdout' = << >> /\ attested' = << >> /\ vetted' = 0
  /\ disk' \in IF c \in FileCommands
               THEN [path : {"blocked", "plain"}, kind : {"file", "special", "absent"},
                     size : FileSizes]
               ELSE {NoFile}
  /\ UNCHANGED <<told, roots, entries>>

\* print_help writes to stderr only.
Help ==
  /\ stage = "vetting" /\ cmd = "help"
  /\ stage' = "exit" /\ told' = Dash
  /\ UNCHANGED <<cmd, argv, disk, vetted, stdout, attested, roots, entries, runs>>

\* The text that is signed; a missing argument is the empty one.
SignAs(c) ==
  /\ stage = "vetting" /\ cmd = c /\ Engine(<<Text(Arg(1))>>)
  /\ UNCHANGED <<cmd, argv, disk, vetted, roots, entries, runs>>

Sign == SignAs("sign")
BlindSign == SignAs("blind-sign")
HybridSign == SignAs("hybrid-sign")

\* m iterations: the vector of their verdicts is allocated first, and the count of the
\* valid ones is a u32, checked for overflow.
Verdicts(m, text) ==
  \/ m > MaxAlloc /\ Abort /\ UNCHANGED attested
  \/ m <= MaxAlloc /\ Engine(<<text>>)
  \/ m <= MaxAlloc /\ m > MAX_COUNT /\ attested' = <<text>> /\ Abort

\* The engine refuses n = 0, m = 0 and n > m.
Threshold ==
  /\ stage = "vetting" /\ cmd = "threshold"
  /\ LET n == Number(Arg(1))
         m == Number(Arg(2))
     IN  IF n = 0 \/ m = 0 \/ n > m THEN Refuse ELSE Verdicts(m, Text(Arg(3)))
  /\ UNCHANGED <<cmd, argv, disk, vetted, roots, entries, runs>>

BatchSign ==
  /\ stage = "vetting" /\ cmd = "batch-sign"
  /\ IF argv = << >> THEN Refuse ELSE Engine(Texts(1))
  /\ UNCHANGED <<cmd, argv, disk, vetted, roots, entries, runs>>

PrintRoot(valid) ==
  /\ argv # << >> /\ attested' = Texts(1) /\ roots' = roots \cup {Texts(1)}
  /\ Print1(Line(valid, chain_root(Texts(1))))

\* chain attests the root, which may fail, and prints it; chain-root only prints it.
Chain ==
  /\ stage = "vetting" /\ cmd = "chain"
  /\ (\E valid \in 0 .. 1 : PrintRoot(valid)) \/ (Refuse /\ UNCHANGED roots)
  /\ UNCHANGED <<cmd, argv, disk, vetted, entries, runs>>

ChainRoot ==
  /\ stage = "vetting" /\ cmd = "chain-root"
  /\ PrintRoot(0) \/ (argv = << >> /\ Refuse /\ UNCHANGED roots)
  /\ UNCHANGED <<cmd, argv, disk, vetted, entries, runs>>

\* Mutant of Audited: the root is taken for the first event.
AuditedFromRoot == Texts(1)

\* The events that verify checks: all arguments but the first.
Audited == Texts(2)

\* A mismatch prints the root that the events have.
Verify ==
  /\ stage = "vetting" /\ cmd = "verify"
  /\ LET expected == parse_hex_root(Arg(1))
     IN  IF expected = << >> \/ Len(argv) < 2 THEN Print1(Refusal)
         ELSE Print1(IF chain_verify(Audited, expected[1]) THEN Line(1, expected[1])
                     ELSE Line(0, chain_root(Audited)))
  /\ UNCHANGED <<cmd, argv, disk, vetted, attested, roots, entries, runs>>

\* run_prove of a relation whose witness is k values of 32 bytes.
Prove(c, k) ==
  /\ stage = "vetting" /\ cmd = c
  /\ IF \E i \in 1 .. k : parse_hex_root(Arg(i)) = << >> THEN Refuse
     ELSE Engine([i \in 1 .. k |-> parse_hex_root(Arg(i))[1]])
  /\ UNCHANGED <<cmd, argv, disk, vetted, roots, entries, runs>>

ProveHashPreimage == Prove("prove hash-preimage", 1)
ProveMlDsa == Prove("prove ml-dsa", 1)
ProvePedersen == Prove("prove pedersen", 2)

\* Whatever is not a number counts as zero; the verdict is exact (module Relations).
ProveRange ==
  /\ stage = "vetting" /\ cmd = "prove range-proof"
  /\ LET n == [k \in 1 .. 3 |-> Number(Arg(k))]
         valid == IF n[2] <= n[1] /\ n[1] <= n[3] THEN 1 ELSE 0
     IN  attested' = n /\ (Print1(Line(valid, Transcript(runs))) \/ Print1(Refusal))
  /\ UNCHANGED <<cmd, argv, disk, vetted, roots, entries, runs>>

\* The VM answers with a root, of 64 bytes, or with zeros.
VmExecute ==
  /\ stage = "vetting" /\ cmd = "vm-execute"
  /\ LET bytecode == hex_decode(Arg(1))
     IN  \/ Refuse
         \/ bytecode # << >> /\ attested' = bytecode /\ Print1(Line(1, VmRoot(runs)))
  /\ UNCHANGED <<cmd, argv, disk, vetted, roots, entries, runs>>

ProveMerkleRoot ==
  /\ stage = "vetting" /\ cmd = "prove merkle-root"
  /\ IF argv = << >> \/ \E k \in DOMAIN argv : hex_decode(argv[k]) = << >> THEN Refuse
     ELSE /\ attested' = [k \in DOMAIN argv |-> hex_decode(argv[k])[1]]
          /\ Print1(Line(0, Transcript(runs)))
  /\ UNCHANGED <<cmd, argv, disk, vetted, roots, entries, runs>>

\* merkle-include: a leaf, a root, an index and siblings.  The leaf count is one shifted
\* by the number of siblings, checked for overflow; module Merkle has the check itself.
Include ==
  /\ stage = "vetting" /\ cmd = "prove merkle-include"
  /\ IF \/ Len(argv) < 3 \/ argv[3].form # "num"
        \/ \E k \in DOMAIN argv \ {3} : parse_hex_root(argv[k]) = << >>
     THEN Refuse
     ELSE IF Len(argv) - 3 >= UsizeBits THEN Abort /\ UNCHANGED attested
     ELSE /\ attested' = [k \in {1, 2} |-> argv[k].val]
          /\ \E valid \in 0 .. 1 : Print1(Line(valid, argv[2].val))
  /\ UNCHANGED <<cmd, argv, disk, vetted, roots, entries, runs>>

\* Mutant of chain_data: the event alone.
chain_data_unlinked(event, prev) == event

\* attest_chain_entry: the previous transcript, if any, and the event.  The 32 bytes of
\* a transcript are one symbol here.
chain_data(event, prev) == prev \o event

Entry(event, prev, typed) ==
  /\ attested' = chain_data(event, prev)
  /\ entries' = Append(entries, [event |-> event, prev |-> prev, typed |-> typed,
                                 data |-> attested'])

\* Mutant of Previous: only the case that print_verdict writes is taken.
PreviousLower(a) == IF a.form = "hex" THEN <<a.val>> ELSE << >>

\* The previous transcript that is typed; one that does not parse counts as none.
Previous(a) == parse_hex_root(a)

ChainEntry ==
  /\ stage = "vetting" /\ cmd = "chain-entry"
  /\ Entry(Text(Arg(1)), Previous(Arg(2)), Arg(2)) /\ \E line \in Answers(runs) : Print1(line)
  /\ UNCHANGED <<cmd, argv, disk, vetted, roots, runs>>

\* attest_chain_entry called by a program: the event may be any bytes, those of an
\* earlier transcript included.  The verdict is returned, nothing is printed.
LibraryEntry(event, prev) ==
  /\ stage = "shell" /\ runs < MaxInvocations /\ runs' = runs + 1
  /\ Entry(event, prev, IF prev = << >> THEN Missing ELSE [form |-> "hex", val |-> prev[1]])
  /\ \E line \in Answers(runs') : told' = line.val
  /\ stdout' = << >> /\ UNCHANGED <<stage, cmd, argv, disk, vetted, roots>>

----------------------------------------------------------------------------
(* sign-file and sign-stream                                               *)

\* Mutant of Blocked: the refusal is printed and the command goes on.
BlockedGoesOn ==
  /\ stage = "vetting" /\ cmd \in FileCommands /\ disk.path = "blocked"
  /\ stage' = "reading" /\ stdout' = Append(stdout, Refusal) /\ told' = Dash
  /\ UNCHANGED <<cmd, argv, disk, vetted, attested, roots, entries, runs>>

\* is_blocked_path.
Blocked ==
  /\ stage = "vetting" /\ cmd \in FileCommands /\ disk.path = "blocked"
  /\ Refuse
  /\ UNCHANGED <<cmd, argv, disk, vetted, roots, entries, runs>>

\* The size that metadata reports; a special file has none.
Reported == IF disk.kind = "file" THEN disk.size ELSE 0

\* Mutant of is_file_too_large: the limit is one too high.
is_file_too_large_late(len) == len > MAX_FILE_SIZE + 1

is_file_too_large(len) == len > MAX_FILE_SIZE

\* metadata fails for a file that is absent, and may fail for another.
Vet ==
  /\ stage = "vetting" /\ cmd \in FileCommands /\ disk.path = "plain"
  /\ \/ vetted' = -1 /\ stage' = "reading" /\ UNCHANGED <<stdout, told, attested>>
     \/ /\ disk.kind # "absent" /\ vetted' = Reported
        /\ IF is_file_too_large(Reported) THEN Refuse
           ELSE stage' = "reading" /\ UNCHANGED <<stdout, told, attested>>
  /\ UNCHANGED <<cmd, argv, disk, roots, entries, runs>>

\* Another process replaces the file between the check and the read.
FileChanges ==
  /\ stage = "reading"
  /\ disk' \in [path : {disk.path}, kind : {"file", "absent"}, size : FileSizes]
  /\ UNCHANGED <<stage, cmd, argv, vetted, stdout, attested, told, roots, entries, runs>>

\* attest_file and attest_file_streaming (module Stream): the path is opened anew.
ReadFile ==
  /\ stage = "reading"
  /\ \/ disk.kind # "absent" /\ Engine(<<disk.size>>)
     \/ Refuse
  /\ UNCHANGED <<cmd, argv, disk, vetted, roots, entries, runs>>

\* The process ends; what it printed is left, and what it returned to its callers.
Exit ==
  /\ stage = "exit" /\ stage' = "shell" /\ disk' = NoFile /\ vetted' = 0
  /\ cmd' = "help" /\ argv' = << >> /\ stdout' = << >> /\ attested' = << >>
  /\ UNCHANGED <<told, roots, entries, runs>>

\* Another caller, who knows of nothing that was printed.
NewShell ==
  /\ stage = "shell" /\ runs = MaxInvocations
  /\ told' = Dash /\ roots' = {} /\ entries' = << >> /\ runs' = 0 /\ attested' = << >>
  /\ UNCHANGED <<stage, cmd, argv, disk, vetted, stdout>>

\* The transcripts that a program may pass: none, one of an earlier session, the last.
Transcripts == {<< >>, <<Transcript(0)>>} \cup {<<v>> : v \in {w \in {told} : Len(w) = 1}}

CliNext ==
  \/ /\ stage = "shell" /\ runs < MaxInvocations
     /\ \/ \E c \in Commands : \E args \in Argvs(c, told) : Invoke(c, args)
        \/ \E a \in Argvs("sign", Dash), old \in Transcripts :
             /\ a # << >>
             /\ LibraryEntry(old \o Text(a[1]), << >>) \/ LibraryEntry(Text(a[1]), old)
  \/ Help \/ Sign \/ BlindSign \/ HybridSign \/ Threshold \/ BatchSign \/ Chain \/ ChainRoot
  \/ Verify \/ ProveHashPreimage \/ ProveMlDsa \/ ProvePedersen \/ ProveRange
  \/ VmExecute \/ ProveMerkleRoot \/ Include \/ ChainEntry \/ Blocked \/ Vet \/ FileChanges \/ ReadFile \/ Exit
  \/ NewShell

CliSpec == CliInit /\ [][CliNext]_cliVars

----------------------------------------------------------------------------
(* Properties                                                              *)

Hex(a) == a.form \in {"hex", "HEX"}

\* Where the arithmetic or an allocation of the code gives up.
CanAbort ==
  \/ cmd = "threshold" /\ (Number(Arg(2)) > MaxAlloc \/ Number(Arg(2)) > MAX_COUNT)
  \/ cmd = "prove merkle-include" /\ Len(argv) >= 3 + UsizeBits

\* An invocation prints one line and no more, whichever early return it takes, and help
\* none.  It prints nothing if it aborts, which only a threshold over more iterations than
\* can be counted or allocated and a path as long as a usize has bits can do.
OneAnswer ==
  stage = "exit" /\ runs > 0 =>
    IF cmd = "help" THEN stdout = << >> ELSE Len(stdout) = 1 \/ (CanAbort /\ stdout = << >>)

\* valid=1 is never the answer to malformed hex, to hex of another length than a hash
\* has, to a number that is none or to a missing list.  Left out are the texts, where
\* anything goes, the bounds of a range proof, where a word counts as zero, and the
\* previous transcript of a chain entry.
MalformedIsRefused ==
  stage = "exit" /\ argv # << >> /\ (\E k \in DOMAIN stdout : stdout[k].valid = 1) =>
    CASE cmd \in SeedCommands -> Hex(argv[1])
      [] cmd = "vm-execute" -> Hex(argv[1]) \/ argv[1].form = "long"
      [] cmd = "prove pedersen" -> Len(argv) >= 2 /\ Hex(argv[1]) /\ Hex(argv[2])
      [] cmd = "prove merkle-include" ->
           Len(argv) >= 3 /\ \A k \in DOMAIN argv : k # 3 => Hex(argv[k])
      [] cmd = "verify" -> Len(argv) >= 2 /\ Hex(argv[1])
      [] cmd = "threshold" -> Len(argv) >= 2 /\ Number(argv[1]) \in 1 .. Number(argv[2])
      [] OTHER -> cmd # "prove merkle-root" /\ cmd # "chain-root"

\* An event that contains the bytes of CHAIN_STEP has the root of two (chain.rs:57-60).
Plain(evs) == \A k \in DOMAIN evs : Len(evs[k]) = 1

\* What chain and chain-root print is what verify accepts, typed in either case, for the
\* same events in the same order, and for no others as long as no event contains the
\* separator.
VerifyTellsEvents ==
  stage = "exit" /\ cmd = "verify" /\ argv # << >> /\ Hex(argv[1]) =>
    LET given == [k \in 1 .. Len(argv) - 1 |-> Text(argv[k + 1])]
    IN  \A evs \in roots : argv[1].val = chain_root(evs) =>
          /\ evs = given => stdout[1].valid = 1
          /\ stdout[1].valid = 1 /\ Plain(evs) /\ Plain(given) => evs = given

\* A chain entry is linked to the 64 digits that the caller types, in either case, and to
\* nothing else: not to a 128-digit root of the VM, whose entry is, like one with a
\* malformed transcript, the first of a chain.
TypedTranscriptLinks ==
  \A k \in DOMAIN entries :
    entries[k].prev = IF Hex(entries[k].typed) THEN <<entries[k].typed.val>> ELSE << >>

\* What is attested for a chain entry tells its event and the entry before it.  The
\* exception are first entries whose event is no single word: it may begin with the bytes
\* of a transcript, and then passes for an entry that follows it.
EntryTellsPlace ==
  \A i, j \in DOMAIN entries :
    entries[i].data = entries[j].data =>
      \/ entries[i].event = entries[j].event /\ entries[i].prev = entries[j].prev
      \/ \E k \in {i, j} : entries[k].prev = << >> /\ Len(entries[k].event) > 1

\* No more than MAX_FILE_SIZE is read of a file that metadata described and that is still
\* of that size: nothing is said of a file that is replaced after the check.
LimitHolds ==
  stage = "exit" /\ cmd \in FileCommands /\ attested # << >> /\ disk.kind = "file"
    => attested[1] <= MAX_FILE_SIZE \/ vetted # attested[1]

\* An invocation of the program that does not abort gives one answer, and does not say
\* yes to input that it was to refuse: malformed arguments, and files over the limit.
OneHonestAnswer == OneAnswer /\ MalformedIsRefused /\ LimitHolds

\* What one invocation prints, another one understands as what it was, with the
\* exceptions that the three parts name.
PrintedIsUnderstood == VerifyTellsEvents /\ TypedTranscriptLinks /\ EntryTellsPlace
=============================================================================
