------------------------------ MODULE Watcher ------------------------------
(***************************************************************************)
(* The watch folder (cmd/torrnado/watch.go): a goroutine of each daemon    *)
(* that reads the directory every two seconds, takes the files whose size  *)
(* has not changed since its previous scan, and renames what it has taken. *)
(*                                                                         *)
(* A file has a name (its suffix), a size and a content that parses or     *)
(* does not. Somebody else writes it in pieces. What taking a file does to *)
(* the engine is in module Daemon.                                         *)
(***************************************************************************)
EXTENDS Naturals, FiniteSets

CONSTANTS Daemons,    \* daemon processes, each started at most once
          Files,      \* the files dropped into the directory
          NoFile,     \* not a file
          Full        \* the number of pieces a writer writes a file in

ASSUME WatcherAssumption == NoFile \notin Files /\ Full \in Nat \ {0, 1}

VARIABLES name,    \* the suffix of each file: ".torrent", ".added", ".failed", or "" while it is not there
          size,    \* the pieces of each file written so far
          good,    \* the files whose whole content parses
          watch    \* the watcher of each daemon

watchVars == <<name, size, good, watch>>

Unmeasured == 0   \* what w.sizes says of a file it does not name

\* on: the goroutine runs; sizes: w.sizes; scanning, todo, seen: the locals
\* of scan; taken, ok: the file inside take and how its add went.
Watching ==
  [on: BOOLEAN, scanning: BOOLEAN, sizes: [Files -> 0 .. Full], seen: [Files -> 0 .. Full],
   todo: SUBSET Files, taken: Files \cup {NoFile}, ok: BOOLEAN]

newWatcher ==
  [on |-> FALSE, scanning |-> FALSE, sizes |-> [f \in Files |-> Unmeasured],
   seen |-> [f \in Files |-> Unmeasured], todo |-> {}, taken |-> NoFile, ok |-> FALSE]

\* The types of the variables.
WatchTypes ==
  /\ name \in [Files -> {"", ".torrent", ".added", ".failed"}]
  /\ size \in [Files -> 0 .. Full]
  /\ good \in SUBSET Files
  /\ watch \in [Daemons -> Watching]

WatchInit ==
  /\ name = [f \in Files |-> ""]
  /\ size = [f \in Files |-> 0]
  /\ good \in SUBSET Files
  /\ watch = [d \in Daemons |-> newWatcher]

Parses(f) == f \in good /\ size[f] = Full

(***************************************************************************)
(* The writer.                                                             *)
(***************************************************************************)
Drop(f) ==
  /\ name[f] = ""
  /\ name' = [name EXCEPT ![f] = ".torrent"]
  /\ size' = [size EXCEPT ![f] = 1]
  /\ UNCHANGED <<good, watch>>

Write(f) ==
  /\ name[f] = ".torrent" /\ size[f] < Full
  /\ size' = [size EXCEPT ![f] = @ + 1]
  /\ UNCHANGED <<name, good, watch>>

(***************************************************************************)
(* The scan. WriterKeepsUp is the assumption the size check rests on: a    *)
(* file that is not finished has grown since it was last measured.         *)
(***************************************************************************)
WriterKeepsUp(d, f) == size[f] < Full => watch[d].sizes[f] # size[f]

\* The tick and os.ReadDir.
ScanStart(d) ==
  /\ watch[d].on /\ ~watch[d].scanning
  /\ watch' = [watch EXCEPT ![d].scanning = TRUE,
                            ![d].todo = {f \in Files : name[f] = ".torrent"},
                            ![d].seen = [f \in Files |-> Unmeasured]]
  /\ UNCHANGED <<name, size, good>>

Looking(d, f) == watch[d].scanning /\ watch[d].taken = NoFile /\ f \in watch[d].todo

SettledAtOnce(d, f) == TRUE
Settled(d, f) == watch[d].sizes[f] # Unmeasured /\ watch[d].sizes[f] = size[f]

\* The entry has gone, or it is new or still being written.
ScanSkip(d, f) ==
  /\ Looking(d, f)
  /\ WriterKeepsUp(d, f)
  /\ name[f] = ".torrent" => ~Settled(d, f)
  /\ watch' = [watch EXCEPT ![d].todo = @ \ {f},
                            ![d].seen[f] = IF name[f] = ".torrent" THEN size[f] ELSE Unmeasured]
  /\ UNCHANGED <<name, size, good>>

\* take: the call of add, whose answer is ok. The file is left out of seen.
TakeAdd(d, f, ok) ==
  /\ Looking(d, f)
  /\ WriterKeepsUp(d, f)
  /\ name[f] = ".torrent" /\ Settled(d, f)
  /\ watch' = [watch EXCEPT ![d].todo = @ \ {f}, ![d].taken = f, ![d].ok = ok]
  /\ UNCHANGED <<name, size, good>>

\* rename, which may fail; the failure is only logged.
TakeRename(d, renamed) ==
  LET f == watch[d].taken IN
  /\ f # NoFile
  /\ name' = [name EXCEPT ![f] = IF ~renamed \/ @ # ".torrent" THEN @
                                 ELSE IF watch[d].ok THEN ".added" ELSE ".failed"]
  /\ watch' = [watch EXCEPT ![d].taken = NoFile]
  /\ UNCHANGED <<size, good>>

ScanEndForgets(d) ==
  /\ watch[d].scanning /\ watch[d].taken = NoFile /\ watch[d].todo = {}
  /\ watch' = [watch EXCEPT ![d].scanning = FALSE, ![d].sizes = [f \in Files |-> Unmeasured]]
  /\ UNCHANGED <<name, size, good>>
ScanEnd(d) ==
  /\ watch[d].scanning /\ watch[d].taken = NoFile /\ watch[d].todo = {}
  /\ watch' = [watch EXCEPT ![d].scanning = FALSE, ![d].sizes = watch[d].seen]
  /\ UNCHANGED <<name, size, good>>

\* go w.run, and its end once done is closed (select picks either case).
WatchStart(d) ==
  /\ watch' = [watch EXCEPT ![d] = [newWatcher EXCEPT !.on = TRUE]]
  /\ UNCHANGED <<name, size, good>>

WatchEnd(d) ==
  /\ watch[d].on /\ ~watch[d].scanning
  /\ watch' = [watch EXCEPT ![d].on = FALSE]
  /\ UNCHANGED <<name, size, good>>

\* The process ends, and the goroutine with it.
WatchGone(d) ==
  /\ watch' = [watch EXCEPT ![d] = newWatcher]
  /\ UNCHANGED <<name, size, good>>
=============================================================================
