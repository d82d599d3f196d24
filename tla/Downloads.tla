------------------------------ MODULE Downloads ------------------------------
(***************************************************************************)
(* Overlapping downloads of one path into one output directory, Download   *)
(* of internal/client/client.go as two listener runs execute it: a stopped *)
(* listener whose download is still going on, and its successor.  Both use *)
(* the same name dest.part, without a lock.                                *)
(*                                                                         *)
(* The file system is here at the level at which the two meet: a name      *)
(* refers to a file (an inode); os.Create truncates the file that has the  *)
(* name or makes one; a writer keeps its file, and its own offset, whatever *)
(* happens to the name; a write beyond the end leaves a gap of zeroes; and *)
(* os.Rename moves whichever file has the name then.                       *)
(*                                                                         *)
(* The protocol with the server is in Transfer.tla.  Here a session is     *)
(* promised a content, gets it byte by byte, and may break off.  Empty     *)
(* files are left out: a file just truncated could not be told from one.   *)
(***************************************************************************)
EXTENDS Naturals, Sequences

CONSTANTS
  Listener,    \* the listener runs that download
  Content,     \* contents that a sender may offer
  MaxSessions  \* bound: how many downloads one behaviour may start

ASSUME DownloadsAssumption ==
  /\ Content \subseteq Seq(Nat \ {0}) /\ <<>> \notin Content
  /\ MaxSessions \in Nat

Gap    == 0
Byte   == {Gap} \cup UNION {{c[k] : k \in 1 .. Len(c)} : c \in Content}
NoFile == 0
Inode  == 1 .. MaxSessions + 1

VARIABLES
  data,      \* what the files contain
  newest,    \* the newest file
  dest,      \* the file with the name dest
  part,      \* the file with the name dest.part
  at,        \* where each download is
  promised,  \* the content whose size and hash the manifest has
  file,      \* the file it writes
  offset,    \* how far it has written
  sessions,  \* how many downloads were started
  truncator, \* history: the download that created or truncated a file last
  cut,       \* history: files whose truncator broke off
  shared,    \* history: files truncated while another download used them,
             \* or renamed by one that never wrote them
  placed,    \* history: files that were given the name dest
  offers     \* history: all contents promised so far

fileVars    == <<data, newest, dest, part>>
clientVars  == <<at, promised, file, offset, sessions>>
historyVars == <<truncator, cut, shared, placed, offers>>
vars == <<fileVars, clientVars, historyVars>>

TypeOK ==
  /\ data \in [Inode -> Seq(Byte)]
  /\ newest \in Inode \cup {NoFile}
  /\ dest \in 0 .. newest /\ part \in 0 .. newest
  /\ dest # NoFile => dest # part
  /\ at \in [Listener -> {"over", "check", "create", "write", "rename"}]
  /\ promised \in [Listener -> Content]
  /\ file \in [Listener -> 0 .. newest]
  /\ offset \in [Listener -> Nat]
  /\ \A d \in Listener : offset[d] <= Len(promised[d])
  /\ sessions \in 0 .. MaxSessions
  /\ truncator \in [Inode -> Listener]
  /\ cut \subseteq 1 .. newest /\ shared \subseteq 1 .. newest /\ placed \subseteq 1 .. newest
  /\ offers \subseteq Content

(* The name dest may be taken by an earlier version.                         *)
Init ==
  /\ \/ newest = 0 /\ data = [n \in Inode |-> <<>>]
     \/ newest = 1 /\ \E c \in Content : data = [n \in Inode |-> IF n = 1 THEN c ELSE <<>>]
  /\ dest = newest /\ part = NoFile
  /\ at = [d \in Listener |-> "over"]
  /\ promised \in {[d \in Listener |-> c] : c \in Content}
  /\ file = [d \in Listener |-> NoFile] /\ offset = [d \in Listener |-> 0]
  /\ sessions = 0
  /\ truncator \in {[n \in Inode |-> d] : d \in Listener}
  /\ cut = {} /\ shared = {} /\ placed = {} /\ offers = {}

-----------------------------------------------------------------------------

Goto(d, label) == at' = [at EXCEPT ![d] = label]

(* The manifest is read.                                                     *)
Begin(d) ==
  /\ at[d] = "over" /\ sessions < MaxSessions /\ sessions' = sessions + 1
  /\ \E c \in Content :
       promised' = [promised EXCEPT ![d] = c] /\ offers' = offers \cup {c}
  /\ file' = [file EXCEPT ![d] = NoFile] /\ offset' = [offset EXCEPT ![d] = 0]
  /\ Goto(d, "check")
  /\ UNCHANGED <<fileVars, truncator, cut, shared, placed>>

(* hashIfExists, and the decision sent to the server.  The file is read as   *)
(* a whole here; one that is being written meanwhile hardly has the hash.    *)
Check(d) ==
  /\ at[d] = "check"
  /\ Goto(d, IF dest # NoFile /\ data[dest] = promised[d] THEN "over" ELSE "create")
  /\ UNCHANGED <<fileVars, promised, file, offset, sessions, historyVars>>

(* The downloads that write f, or are about to rename it.                    *)
Users(f) == {d \in Listener : at[d] \in {"write", "rename"} /\ file[d] = f}

(* Mutant of Create: an old .part file is not truncated.                     *)
CreateKeeps(d) ==
  /\ at[d] = "create"
  /\ LET f == IF part # NoFile THEN part ELSE newest + 1 IN
     /\ newest' = IF part # NoFile THEN newest ELSE f
     /\ part' = f
     /\ file' = [file EXCEPT ![d] = f]
     /\ truncator' = [truncator EXCEPT ![f] = d]
     /\ cut' = cut \ {f}
     /\ shared' = IF Users(f) = {} THEN shared ELSE shared \cup {f}
  /\ Goto(d, "write")
  /\ UNCHANGED <<data, dest, promised, offset, sessions, placed, offers>>

(* os.Create: an existing .part file is truncated, also under a writer.      *)
Create(d) ==
  /\ at[d] = "create"
  /\ LET f == IF part # NoFile THEN part ELSE newest + 1 IN
     /\ newest' = IF part # NoFile THEN newest ELSE f
     /\ part' = f
     /\ data' = [data EXCEPT ![f] = <<>>]
     /\ file' = [file EXCEPT ![d] = f]
     /\ truncator' = [truncator EXCEPT ![f] = d]
     /\ cut' = cut \ {f}
     /\ shared' = IF Users(f) = {} THEN shared ELSE shared \cup {f}
  /\ Goto(d, "write")
  /\ UNCHANGED <<dest, promised, offset, sessions, placed, offers>>

(* The bytes s with b written at position k.                                 *)
Written(s, k, b) ==
  [n \in 1 .. IF Len(s) < k THEN k ELSE Len(s) |->
     IF n = k THEN b ELSE IF n <= Len(s) THEN s[n] ELSE Gap]

(* Mutant of Write: one byte more than announced is read.                    *)
WriteTooMuch(d) ==
  /\ at[d] = "write"
  /\ LET k == offset[d] + 1 IN
     /\ offset' = [offset EXCEPT ![d] = k]
     /\ data' = [data EXCEPT ![file[d]] = Written(@, k, promised[d][1])]
     /\ IF k > Len(promised[d]) THEN Goto(d, "rename") ELSE UNCHANGED at
  /\ UNCHANGED <<newest, dest, part, promised, file, sessions, historyVars>>

(* copyExactly: each byte goes to the writer's own file and offset; after    *)
(* the announced number the file is closed.                                  *)
Write(d) ==
  /\ at[d] = "write"
  /\ LET k == offset[d] + 1 IN
     /\ offset' = [offset EXCEPT ![d] = k]
     /\ data' = [data EXCEPT ![file[d]] = Written(@, k, promised[d][k])]
     /\ IF k = Len(promised[d]) THEN Goto(d, "rename") ELSE UNCHANGED at
  /\ UNCHANGED <<newest, dest, part, promised, file, sessions, historyVars>>

(* os.Rename moves the file that has the name now, which may be another      *)
(* download's; if none has, Download returns an error.                       *)
Rename(d) ==
  /\ at[d] = "rename"
  /\ \/ /\ part # NoFile
        /\ dest' = part /\ part' = NoFile /\ placed' = placed \cup {part}
        /\ shared' = IF part = file[d] THEN shared ELSE shared \cup {part}
     \/ part = NoFile /\ UNCHANGED <<dest, part, placed, shared>>
  /\ Goto(d, "over")
  /\ UNCHANGED <<data, newest, promised, file, offset, sessions, truncator, cut, offers>>

(* The files left unfinished when d breaks off.                              *)
Abandoned(d) ==
  IF at[d] = "write" /\ truncator[file[d]] = d THEN {file[d]} ELSE {}

(* Mutant of BreakOff: the .part file is removed.                            *)
BreakOffAndRemove(d) ==
  /\ at[d] # "over"
  /\ cut' = cut \cup Abandoned(d)
  /\ part' = NoFile
  /\ Goto(d, "over")
  /\ UNCHANGED <<data, newest, dest, promised, file, offset, sessions, truncator, shared,
                 placed, offers>>

(* The connection is lost, a system call fails or the process ends: the      *)
(* .part file stays.                                                         *)
BreakOff(d) ==
  /\ at[d] # "over"
  /\ cut' = cut \cup Abandoned(d)
  /\ Goto(d, "over")
  /\ UNCHANGED <<fileVars, promised, file, offset, sessions, truncator, shared, placed,
                 offers>>

Next ==
  \E d \in Listener :
    Begin(d) \/ Check(d) \/ Create(d) \/ Write(d) \/ Rename(d) \/ BreakOff(d)

Spec == Init /\ [][Next]_vars

-----------------------------------------------------------------------------
(* Under the name dest there is a whole file, unless two downloads got into  *)
(* each other's way; and even then, if only one content was ever promised,   *)
(* the one that truncated it last is still writing it or has broken off.  So *)
(* when two runs fetch the same files, the last writer repairs what they     *)
(* broke.                                                                    *)
TornOnlyBySharing ==
  (dest # NoFile /\ data[dest] \notin Content) =>
    /\ dest \in shared
    /\ (\A b, c \in offers : b = c) =>
         dest \in cut \/ truncator[dest] \in Users(dest)

(* A download that has written everything finds its file under the name      *)
(* .part, unless another one has already made that very file dest: no file   *)
(* is lost between two of them, and of two downloads that do not break off   *)
(* one succeeds.                                                             *)
NothingIsLost ==
  \A d \in Listener :
    at[d] = "rename" /\ part # file[d] => file[d] \in placed

=============================================================================
