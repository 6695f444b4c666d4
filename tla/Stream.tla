------------------------------- MODULE Stream -------------------------------
(***************************************************************************)
(* The chain accumulator of src/src/chain.rs and the file front ends of    *)
(* src/src/interface.rs that feed it chunk by chunk: one file, a list of   *)
(* files, a directory, a Merkle tree over files, and a list of events.     *)
(*                                                                         *)
(* The accumulator is the sequence of bytes it has absorbed (shake256.rs   *)
(* keeps exactly that) and stands for its root, SHAKE256 being assumed     *)
(* free of collisions.  Files do not change while a call reads them.       *)
(***************************************************************************)
EXTENDS Integers, Sequences, FiniteSets, SequencesExt

CONSTANTS
  Bytes,       \* the bytes that names and files consist of
  Names,       \* names of files; a name is one byte long
  Worlds,      \* the states of the file system
  ArgLists,    \* the lists of names that callers pass
  EventLists,  \* the lists of events that callers pass
  Sizes        \* the chunk sizes that callers ask for

HEAD == 1000  \* domain::CHAIN_HEAD
STEP == 1001  \* domain::CHAIN_STEP

Kinds == {"file", "hidden", "dir", "absent"}

ASSUME StreamAssumption ==
  /\ Bytes \subseteq 0 .. 255 /\ Names \subseteq Bytes /\ Sizes \subseteq Nat
  /\ \A w \in Worlds : \A p \in Names : w[p].kind \in Kinds /\ w[p].data \in Seq(Bytes)
  /\ \A ps \in ArgLists : ps \in Seq(Names)
  /\ \A evs \in EventLists : evs \in Seq(Seq(Bytes))

VARIABLES
  phase,   \* "idle", "listing", "opening", "reading", "filled", "ending", "done"
  entry,   \* "stream", "files", "directory", "merkle" or "chain"
  fs,      \* name -> kind and data
  unlisted,    \* entries of the directory not yet visited
  paths, file, \* the files to read and the position in that list
  size, buf,   \* length of the chunk buffer, and the bytes in it that are not wiped
  pos,         \* how far the current file has been read
  xof, count,  \* ChainState
  events,      \* the events absorbed (history)
  hashes,      \* roots of the files that are done
  root,        \* what attest_bytes was given: one root, or the leaves of a Merkle root
  result       \* "none", "ok" or "err"

vars == <<phase, entry, fs, unlisted, paths, file, size, buf, pos, xof, count,
          events, hashes, root, result>>
call == <<entry, fs, size>>
chain == <<xof, count, events>>

Nothing == [p \in Names |-> [kind |-> "absent", data |-> << >>]]

Init ==
  /\ phase = "idle" /\ entry = "none" /\ fs = Nothing /\ unlisted = {}
  /\ paths = << >> /\ file = 0 /\ size = 0 /\ buf = << >> /\ pos = 0
  /\ xof = <<HEAD>> /\ count = 0 /\ events = << >>
  /\ hashes = << >> /\ root = << >> /\ result = "none"

----------------------------------------------------------------------------
(* The accumulator                                                         *)

\* Mutant of Absorbed: the separator is left out.
AbsorbedUntagged(x, e) == x \o e

\* The accumulator x after one more event.
Absorbed(x, e) == x \o <<STEP>> \o e

\* ChainState::absorb.
Absorb(e) ==
  /\ xof' = Absorbed(xof, e) /\ count' = count + 1 /\ events' = Append(events, e)

\* ChainState::new.
Fresh == xof' = <<HEAD>> /\ count' = 0 /\ events' = << >>

\* chain_root, the one-shot fold.
chain_root(evs) == <<HEAD>> \o FlattenSeq([k \in DOMAIN evs |-> <<STEP>> \o evs[k]])

\* chain_verify.
chain_verify(evs, r) == evs # << >> /\ chain_root(evs) = r

----------------------------------------------------------------------------
(* Calls                                                                   *)

\* An early return with an error.
Err == phase' = "done" /\ result' = "err"

Begin(e, w, ps, n) ==
  /\ phase = "idle" /\ entry' = e /\ fs' = w /\ paths' = ps /\ size' = n
  /\ file' = 1 /\ UNCHANGED <<buf, pos, hashes, root>>

BeginStream(w, p, n) ==
  /\ Begin("stream", w, <<p>>, n)
  /\ \/ n = 0 /\ Err
     \/ n # 0 /\ phase' = "opening" /\ UNCHANGED result
  /\ UNCHANGED <<unlisted, chain>>

\* attest_chain_files and attest_file_merkle.
BeginFiles(e, w, ps, n) ==
  /\ Begin(e, w, ps, n)
  /\ \/ ps = << >> /\ Err
     \/ ps # << >> /\ phase' = "opening" /\ UNCHANGED result
  /\ UNCHANGED <<unlisted, chain>>

\* read_dir may fail.
BeginDirectory(w, n) ==
  /\ Begin("directory", w, << >>, n)
  /\ \/ Err /\ UNCHANGED unlisted
     \/ /\ phase' = "listing" /\ UNCHANGED result
        /\ unlisted' = {p \in Names : w[p].kind # "absent"}
  /\ UNCHANGED chain

\* attest_chain: chain_root of no event is an error.
BeginChain(evs) ==
  /\ Begin("chain", Nothing, << >>, 0)
  /\ \/ evs = << >> /\ Err /\ UNCHANGED chain
     \/ /\ evs # << >> /\ phase' = "ending" /\ UNCHANGED result
        /\ xof' = chain_root(evs) /\ count' = Len(evs) /\ events' = evs
  /\ UNCHANGED unlisted

\* The directory is listed in any order; what is no file or hidden is skipped.
List(p) ==
  /\ phase = "listing" /\ p \in unlisted
  /\ unlisted' = unlisted \ {p}
  /\ paths' = IF fs[p].kind = "file" THEN Append(paths, p) ELSE paths
  /\ UNCHANGED <<phase, call, file, buf, pos, chain, hashes, root, result>>

ListFails ==
  /\ phase = "listing" /\ unlisted # {} /\ Err
  /\ UNCHANGED <<call, unlisted, paths, file, buf, pos, chain, hashes, root>>

\* Mutant of Sorted: the order of the listing is kept.
SortedNot(ps) == ps

Sorted(ps) ==
  CHOOSE qs \in {[k \in DOMAIN ps |-> ps[f[k]]] : f \in Bijection(DOMAIN ps, DOMAIN ps)} :
    \A i, j \in DOMAIN ps : i < j => qs[i] <= qs[j]

EndListing ==
  /\ phase = "listing" /\ unlisted = {}
  /\ \/ paths = << >> /\ Err /\ UNCHANGED paths
     \/ paths # << >> /\ phase' = "opening" /\ paths' = Sorted(paths) /\ UNCHANGED result
  /\ UNCHANGED <<call, unlisted, file, buf, pos, chain, hashes, root>>

----------------------------------------------------------------------------
(* Reading                                                                 *)

Path == paths[file]
Rest == Len(fs[Path].data) - pos

\* The next file is opened.  A list of files absorbs the name first; a Merkle tree
\* starts an accumulator for each file.
Open ==
  /\ phase = "opening" /\ fs[Path].kind # "absent"
  /\ phase' = "reading" /\ pos' = 0
  /\ CASE entry \in {"files", "directory"} -> Absorb(<<Path>>)
       [] entry = "merkle" -> Fresh
       [] entry = "stream" -> UNCHANGED chain
  /\ UNCHANGED <<call, unlisted, paths, file, buf, hashes, root, result>>

OpenMissing ==
  /\ phase = "opening" /\ fs[Path].kind = "absent" /\ Err
  /\ UNCHANGED <<call, unlisted, paths, file, buf, pos, chain, hashes, root>>

OpenFails ==
  /\ phase = "opening" /\ fs[Path].kind # "absent" /\ Err
  /\ UNCHANGED <<call, unlisted, paths, file, buf, pos, chain, hashes, root>>

\* read returns any number of bytes that fit the buffer.
Read(n) ==
  /\ phase = "reading" /\ fs[Path].kind # "dir"
  /\ n \in 1 .. size /\ n <= Rest
  /\ buf' = SubSeq(fs[Path].data, pos + 1, pos + n)
  /\ phase' = "filled"
  /\ UNCHANGED <<call, unlisted, paths, file, pos, chain, hashes, root, result>>

\* Mutant of AbsorbChunk: the consumed part of the buffer is not overwritten.
AbsorbChunkUnwiped ==
  /\ phase = "filled"
  /\ Absorb(buf) /\ pos' = pos + Len(buf)
  /\ phase' = "reading"
  /\ UNCHANGED <<call, unlisted, paths, file, buf, hashes, root, result>>

\* The chunk is absorbed and overwritten.
AbsorbChunk ==
  /\ phase = "filled"
  /\ Absorb(buf) /\ pos' = pos + Len(buf) /\ buf' = << >>
  /\ phase' = "reading"
  /\ UNCHANGED <<call, unlisted, paths, file, hashes, root, result>>

\* On to the next file, or to the end.
NextFile ==
  IF file < Len(paths) THEN phase' = "opening" /\ file' = file + 1
  ELSE phase' = "ending" /\ UNCHANGED file

\* Mutant of ReadFails: the error ends the file.
ReadFailsAsEof ==
  /\ phase = "reading" /\ fs[Path].kind # "dir" /\ count # 0 /\ NextFile
  /\ hashes' = IF entry = "merkle" THEN Append(hashes, xof) ELSE hashes
  /\ UNCHANGED <<call, unlisted, paths, buf, pos, chain, root, result>>

ReadFails ==
  /\ phase = "reading" /\ fs[Path].kind # "dir" /\ Err
  /\ UNCHANGED <<call, unlisted, paths, file, buf, pos, chain, hashes, root>>

\* A directory opens but cannot be read.
ReadDirectory ==
  /\ phase = "reading" /\ fs[Path].kind = "dir" /\ Err
  /\ UNCHANGED <<call, unlisted, paths, file, buf, pos, chain, hashes, root>>

\* Mutant of Eof: the loop goes on.
EofRereads ==
  /\ phase = "reading" /\ fs[Path].kind # "dir" /\ Rest = 0
  /\ UNCHANGED vars

\* read returns 0: the buffer is wiped, and a Merkle leaf is finalised, which is
\* an error for an empty file.
Eof ==
  /\ phase = "reading" /\ fs[Path].kind # "dir" /\ Rest = 0
  /\ buf' = << >>
  /\ \/ entry = "merkle" /\ count = 0 /\ Err /\ UNCHANGED <<file, hashes>>
     \/ entry = "merkle" /\ count # 0 /\ hashes' = Append(hashes, xof) /\ NextFile /\ UNCHANGED result
     \/ entry # "merkle" /\ NextFile /\ UNCHANGED <<hashes, result>>
  /\ UNCHANGED <<call, unlisted, paths, pos, chain, root>>

----------------------------------------------------------------------------
(* The end of a call                                                       *)

\* finalize without an event is an error: an empty file was streamed.
FinalizeFails ==
  /\ phase = "ending" /\ entry # "merkle" /\ count = 0 /\ Err
  /\ UNCHANGED <<call, unlisted, paths, file, buf, pos, chain, hashes, root>>

\* attest_bytes of the root.
Attest ==
  /\ phase = "ending" /\ (entry # "merkle" => count # 0)
  /\ \/ /\ phase' = "done" /\ result' = "ok"
        /\ root' = IF entry = "merkle" THEN hashes ELSE <<xof>>
     \/ Err /\ UNCHANGED root
  /\ UNCHANGED <<call, unlisted, paths, file, buf, pos, chain, hashes>>

\* The caller takes the answer.
Return ==
  /\ phase = "done"
  /\ phase' = "idle" /\ entry' = "none" /\ fs' = Nothing /\ unlisted' = {}
  /\ paths' = << >> /\ file' = 0 /\ size' = 0 /\ pos' = 0
  /\ Fresh /\ hashes' = << >> /\ root' = << >> /\ result' = "none"
  /\ UNCHANGED buf

Call ==
  \/ \E w \in Worlds, n \in Sizes :
       \/ \E p \in Names : BeginStream(w, p, n)
       \/ /\ n # 0
          /\ \/ \E e \in {"files", "merkle"}, ps \in ArgLists : BeginFiles(e, w, ps, n)
             \/ BeginDirectory(w, n)
  \/ \E evs \in EventLists : BeginChain(evs)

Progress ==
  \/ (\E p \in unlisted : List(p)) \/ EndListing
  \/ Open \/ OpenMissing \/ (\E n \in 1 .. size : Read(n)) \/ AbsorbChunk \/ Eof
  \/ ReadDirectory \/ FinalizeFails \/ Attest

Next ==
  \/ phase = "idle" /\ Call
  \/ Progress \/ Return
  \/ ListFails \/ OpenFails \/ ReadFails

\* A call that has begun runs on: nothing in it waits for anything but the file
\* system, whose calls return.  No failure is ever due.
Spec == Init /\ [][Next]_vars /\ WF_vars(Progress)

----------------------------------------------------------------------------
(* Properties                                                              *)

Done == phase = "done" /\ result = "ok"
Content(x) == FlattenSeq([k \in DOMAIN x |-> IF x[k] \in Bytes THEN <<x[k]>> ELSE << >>])

\* The verdict over a directory covers the visible files, all of them and in the
\* order of their names, whatever order read_dir lists them in.
ListingOrderIrrelevant ==
  Done /\ entry = "directory" =>
    /\ Range(paths) = {p \in Names : fs[p].kind = "file"}
    /\ \A i, j \in DOMAIN paths : i < j => paths[i] < paths[j]

\* The incremental ChainState and the one-shot chain_root agree: an auditor with
\* the events of a streamed chain gets the root that was attested.
IncrementalIsOneShot ==
  Done /\ entry # "merkle" => chain_verify(events, root[1])

\* An Ok verdict covers every byte of every file, and the names of a list of files,
\* once and in order, however the reads were cut, wherever an error struck and however
\* a directory was listed: no failure of the file system ends in a verdict over part of
\* the data, and an auditor with the events computes the root that was attested.
OkCoversEverything ==
  /\ ListingOrderIrrelevant /\ IncrementalIsOneShot
  /\ Done =>
       CASE entry = "stream" -> Content(root[1]) = fs[paths[1]].data
         [] entry \in {"files", "directory"} ->
              Content(root[1]) = FlattenSeq([k \in DOMAIN paths |-> <<paths[k]>> \o fs[paths[k]].data])
         [] entry = "merkle" ->
              /\ Len(root) = Len(paths)
              /\ \A k \in DOMAIN paths : Content(root[k]) = fs[paths[k]].data
         [] entry = "chain" -> Content(root[1]) = FlattenSeq(events)

\* No byte of a file is left in the chunk buffer when a call returns, also by an
\* error in the middle of a file, which skips the final wipe.
BufferIsWiped == phase \in {"done", "idle"} => buf = << >>

\* A call returns: the read loop makes progress with every chunk and ends with the
\* file.
EventuallyReturns == (phase # "idle") ~> (phase = "done")
=============================================================================
