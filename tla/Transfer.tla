------------------------------ MODULE Transfer ------------------------------
(***************************************************************************)
(* The file transfer: handleConn of internal/server/server.go on one side, *)
(* Download of internal/client/client.go on the other, and the protocol    *)
(* between them (internal/server/protocol.go).  The server sends a         *)
(* manifest; for each entry the client answers with one byte, send or      *)
(* skip, and the server streams exactly the announced number of bytes; the *)
(* client collects them in a .part file and renames it.                    *)
(*                                                                         *)
(* Source files may change at any moment, between stat, hash, open and the *)
(* reads.  The connection may break, the client may fail or die at any     *)
(* step, and sessions follow one another, each on what the one before left *)
(* in the output directory.  One session at a time uses the directory.     *)
(*                                                                         *)
(* A file's content is a short sequence, its hash is the content itself,   *)
(* and the TLS connection is a reliable byte stream until it breaks.       *)
(***************************************************************************)
EXTENDS Naturals, Sequences

CONSTANTS
  File,     \* paths of regular files
  Dir,      \* paths of directories
  List,     \* what ListFiles returns
  Content,  \* contents that a file can have
  Absent,   \* no such file
  MaxEdits,    \* bound: how often source files change
  MaxSessions  \* bound: how many sessions there are

Byte  == UNION {{c[k] : k \in 1 .. Len(c)} : c \in Content}
Size  == {Len(c) : c \in Content}
Entry == [path : File, size : Size, hash : Content]

ASSUME TransferAssumption ==
  /\ File \cap Dir = {}
  /\ List \in Seq(File \cup Dir)
  /\ \A m, n \in 1 .. Len(List) : List[m] = List[n] => m = n
  /\ Content \subseteq Seq(Byte) /\ Absent \notin Seq(Byte)
  /\ MaxEdits \in Nat /\ MaxSessions \in Nat

VARIABLES
  src,       \* the files at the sender
  dest,      \* the files in the output directory
  part,      \* the .part files in the output directory
  quiet,     \* history: no source file changed since the session began
  edits,     \* how many changes there were
  sessions,  \* how many sessions were begun
  server,    \* where handleConn is
  si,        \* the index in files that the scan has reached
  size,      \* info.Size() of that file
  entries,   \* the manifest
  sj,        \* the index in entries that the server has reached
  opened,    \* the content of the file that the server opened
  sent,      \* bytes of it sent
  client,    \* where Download is
  cj,        \* the index in manifest.Files that the client has reached
  manifest,  \* whether the manifest is unsent, on the wire or read
  toServer,  \* decisions on the wire
  toClient,  \* bytes of files on the wire
  broken     \* the connection is broken

diskVars   == <<src, dest, part, quiet, edits, sessions>>
serverVars == <<server, si, size, entries, sj, opened, sent>>
clientVars == <<client, cj>>
wireVars   == <<manifest, toServer, toClient, broken>>
vars == <<diskVars, serverVars, clientVars, wireVars>>

Over == {"off", "ok", "error"}

TypeOK ==
  /\ src \in [File -> Content \cup {Absent}]
  /\ dest \in [File -> Seq(Byte) \cup {Absent}]
  /\ part \in [File -> Seq(Byte) \cup {Absent}]
  /\ quiet \in BOOLEAN
  /\ edits \in 0 .. MaxEdits /\ sessions \in 0 .. MaxSessions
  /\ server \in Over \cup {"stat", "hash", "decision", "open", "copy"}
  /\ si \in 1 .. Len(List) + 1
  /\ size \in Size \cup {0}
  /\ entries \in Seq(Entry) /\ Len(entries) < si
  /\ sj \in 1 .. Len(entries) + 1
  /\ opened \in Content \cup {Absent}
  /\ sent \in Nat
  /\ server = "copy" => sj <= Len(entries) /\ sent <= entries[sj].size
  /\ client \in Over \cup {"manifest", "decide", "create", "receive"}
  /\ cj \in 1 .. Len(entries) + 1
  /\ manifest \in {"unsent", "wire", "read"}
  /\ toServer \in Seq({"send", "skip"})
  /\ toClient \in Seq(Byte)
  /\ broken \in BOOLEAN

ServerIdle == server \in Over /\ si = 1 /\ size = 0 /\ entries = <<>> /\ sj = 1
              /\ opened = Absent /\ sent = 0

(* Some of the files may have been transferred before.                       *)
Init ==
  /\ src \in [File -> Content \cup {Absent}]
  /\ \E had \in SUBSET File :
       dest = [p \in File |-> IF p \in had THEN src[p] ELSE Absent]
  /\ part = [p \in File |-> Absent]
  /\ quiet = TRUE /\ edits = 0 /\ sessions = 0
  /\ server = "off" /\ ServerIdle
  /\ client = "off" /\ cj = 1
  /\ manifest = "unsent" /\ toServer = <<>> /\ toClient = <<>> /\ broken = FALSE

-----------------------------------------------------------------------------
(* The environment.                                                          *)

(* A source file is written, replaced or removed.                            *)
Edit ==
  /\ edits < MaxEdits /\ edits' = edits + 1
  /\ \E p \in File, c \in Content \cup {Absent} :
       /\ src[p] # c
       /\ src' = [src EXCEPT ![p] = c]
  /\ quiet' = FALSE
  /\ UNCHANGED <<dest, part, sessions, serverVars, clientVars, wireVars>>

(* The client dials, the server accepts and starts a handler.                *)
Connect ==
  /\ client \in Over /\ server \in Over
  /\ sessions < MaxSessions /\ sessions' = sessions + 1
  /\ quiet' = TRUE
  /\ server' = "stat" /\ si' = 1 /\ size' = 0 /\ entries' = <<>> /\ sj' = 1
  /\ opened' = Absent /\ sent' = 0
  /\ client' = "manifest" /\ cj' = 1
  /\ manifest' = "unsent" /\ toServer' = <<>> /\ toClient' = <<>> /\ broken' = FALSE
  /\ UNCHANGED <<src, dest, part, edits>>

(* What is on the wire is lost; both ends see errors from now on.            *)
Break ==
  /\ ~broken /\ ~(client \in Over /\ server \in Over)
  /\ broken' = TRUE
  /\ toServer' = <<>> /\ toClient' = <<>>
  /\ manifest' = IF manifest = "wire" THEN "unsent" ELSE manifest
  /\ UNCHANGED <<diskVars, serverVars, clientVars>>

ServerGone == broken \/ server \in Over
ClientGone == broken \/ client \in Over

-----------------------------------------------------------------------------
(* handleConn.                                                               *)

(* os.Stat: a missing file ends the session, a directory is left out.        *)
StatFile ==
  /\ server = "stat" /\ si <= Len(List)
  /\ LET p == List[si] IN
     \/ p \in Dir /\ si' = si + 1 /\ UNCHANGED <<server, size>>
     \/ /\ p \in File /\ src[p] # Absent
        /\ size' = Len(src[p]) /\ server' = "hash" /\ UNCHANGED si
     \/ p \in File /\ src[p] = Absent /\ server' = "error" /\ UNCHANGED <<si, size>>
  /\ UNCHANGED <<diskVars, entries, sj, opened, sent, clientVars, wireVars>>

HashFile ==
  /\ server = "hash"
  /\ LET p == List[si] IN
     \/ /\ src[p] # Absent
        /\ entries' = Append(entries, [path |-> p, size |-> size, hash |-> src[p]])
        /\ server' = "stat" /\ si' = si + 1 /\ size' = 0
     \/ src[p] = Absent /\ server' = "error" /\ UNCHANGED <<si, size, entries>>
  /\ UNCHANGED <<diskVars, sj, opened, sent, clientVars, wireVars>>

WriteManifest ==
  /\ server = "stat" /\ si > Len(List)
  /\ \/ ~broken /\ manifest' = "wire" /\ server' = "decision"
     \/ ClientGone /\ server' = "error" /\ UNCHANGED manifest
  /\ UNCHANGED <<diskVars, si, size, entries, sj, opened, sent, clientVars, toServer,
                 toClient, broken>>

ReadDecision ==
  /\ server = "decision" /\ sj <= Len(entries)
  /\ \/ /\ toServer # <<>> /\ Head(toServer) = "send"
        /\ server' = "open" /\ UNCHANGED sj
        /\ toServer' = Tail(toServer)
     \/ /\ toServer # <<>> /\ Head(toServer) = "skip"
        /\ sj' = sj + 1 /\ UNCHANGED server
        /\ toServer' = Tail(toServer)
     \/ /\ toServer = <<>> /\ ClientGone
        /\ server' = "error" /\ UNCHANGED <<sj, toServer>>
  /\ UNCHANGED <<diskVars, si, size, entries, opened, sent, clientVars, manifest,
                 toClient, broken>>

Regular(p) == IF p \in File THEN src[p] ELSE Absent

(* os.Open(files[i]), where i counts entries: a directory opens too.         *)
OpenFile ==
  /\ server = "open"
  /\ LET p == List[sj] IN
     \/ /\ p \in File /\ Regular(p) = Absent
        /\ server' = "error" /\ UNCHANGED <<opened, sent>>
     \/ /\ p \in File => Regular(p) # Absent
        /\ opened' = Regular(p)
        /\ server' = "copy" /\ sent' = 0
  /\ UNCHANGED <<diskVars, si, size, entries, sj, clientVars, wireVars>>

(* What the next read may see: the file as opened, if it was replaced or     *)
(* removed since, or as it is now, if it was written in place.               *)
Readable ==
  (IF opened = Absent THEN {} ELSE {opened, src[List[sj]]}) \ {Absent}

CanRead == {c \in Readable : Len(c) > sent}

(* Mutant of CopyByte: io.Copy, up to the end of the file.                   *)
CopyToTheEnd ==
  /\ server = "copy"
  /\ \/ /\ ~broken
        /\ \E c \in CanRead : toClient' = Append(toClient, c[sent + 1])
        /\ sent' = sent + 1 /\ UNCHANGED <<server, sj>>
     \/ /\ CanRead = {}
        /\ server' = "decision" /\ sj' = sj + 1 /\ sent' = 0 /\ UNCHANGED toClient
     \/ ClientGone /\ server' = "error" /\ UNCHANGED <<toClient, sent, sj>>
  /\ UNCHANGED <<diskVars, si, size, entries, opened, clientVars, manifest, toServer,
                 broken>>

(* io.CopyN(pw, f, entry.Size), a byte at a time: it fails at the end of a   *)
(* file that is too short, on a directory, and if nobody is there to read.   *)
CopyByte ==
  /\ server = "copy"
  /\ \/ /\ ~broken /\ sent < entries[sj].size
        /\ \E c \in CanRead : toClient' = Append(toClient, c[sent + 1])
        /\ sent' = sent + 1 /\ UNCHANGED <<server, sj>>
     \/ /\ sent = entries[sj].size
        /\ server' = "decision" /\ sj' = sj + 1 /\ sent' = 0 /\ UNCHANGED toClient
     \/ /\ sent < entries[sj].size
        /\ ClientGone \/ (\E c \in Readable : Len(c) <= sent) \/ CanRead = {}
        /\ server' = "error" /\ UNCHANGED <<toClient, sent, sj>>
  /\ UNCHANGED <<diskVars, si, size, entries, opened, clientVars, manifest, toServer,
                 broken>>

ServerFinishes ==
  /\ server = "decision" /\ sj > Len(entries)
  /\ server' = "ok"
  /\ UNCHANGED <<diskVars, si, size, entries, sj, opened, sent, clientVars, wireVars>>

-----------------------------------------------------------------------------
(* Download.                                                                 *)

ReadManifest ==
  /\ client = "manifest"
  /\ \/ manifest = "wire" /\ manifest' = "read" /\ client' = "decide"
     \/ manifest = "unsent" /\ ServerGone /\ client' = "error" /\ UNCHANGED manifest
  /\ UNCHANGED <<diskVars, serverVars, cj, toServer, toClient, broken>>

Wanted == entries[cj]

(* Mutant of Decide: the server is not told about a file that is skipped.    *)
DecideSilently ==
  /\ client = "decide" /\ cj <= Len(entries) /\ ~broken
  /\ IF dest[Wanted.path] # Wanted.hash
       THEN toServer' = Append(toServer, "send") /\ client' = "create" /\ UNCHANGED cj
       ELSE cj' = cj + 1 /\ UNCHANGED <<client, toServer>>
  /\ UNCHANGED <<diskVars, serverVars, manifest, toClient, broken>>

(* Hash what is there and send one byte.                                     *)
Decide ==
  /\ client = "decide" /\ cj <= Len(entries) /\ ~broken
  /\ IF dest[Wanted.path] # Wanted.hash
       THEN toServer' = Append(toServer, "send") /\ client' = "create" /\ UNCHANGED cj
       ELSE toServer' = Append(toServer, "skip") /\ cj' = cj + 1 /\ UNCHANGED client
  /\ UNCHANGED <<diskVars, serverVars, manifest, toClient, broken>>

(* Mutant of Create: an old .part file is continued.                         *)
CreateResumes ==
  /\ client = "create"
  /\ part' = [part EXCEPT ![Wanted.path] = IF @ = Absent THEN <<>> ELSE @]
  /\ client' = "receive"
  /\ UNCHANGED <<src, dest, quiet, edits, sessions, serverVars, cj, wireVars>>

(* os.Create truncates what an earlier session left.                         *)
Create ==
  /\ client = "create"
  /\ part' = [part EXCEPT ![Wanted.path] = <<>>]
  /\ client' = "receive"
  /\ UNCHANGED <<src, dest, quiet, edits, sessions, serverVars, cj, wireVars>>

Missing == Len(part[Wanted.path]) < Wanted.size

Receive ==
  /\ client = "receive" /\ Missing
  /\ \/ /\ toClient # <<>>
        /\ part' = [part EXCEPT ![Wanted.path] = Append(@, Head(toClient))]
        /\ toClient' = Tail(toClient) /\ UNCHANGED client
     \/ /\ toClient = <<>> /\ ServerGone
        /\ client' = "error" /\ UNCHANGED <<part, toClient>>
  /\ UNCHANGED <<src, dest, quiet, edits, sessions, serverVars, cj, manifest, toServer, broken>>

Rename ==
  /\ client = "receive" /\ ~Missing
  /\ dest' = [dest EXCEPT ![Wanted.path] = part[Wanted.path]]
  /\ part' = [part EXCEPT ![Wanted.path] = Absent]
  /\ client' = "decide" /\ cj' = cj + 1
  /\ UNCHANGED <<src, quiet, edits, sessions, serverVars, wireVars>>

ClientFinishes ==
  /\ client = "decide" /\ cj > Len(entries)
  /\ client' = "ok"
  /\ UNCHANGED <<diskVars, serverVars, cj, wireVars>>

(* A failing system call, a write on a broken connection, or the end of the  *)
(* process: the connection is closed and the .part file stays.               *)
ClientFails ==
  /\ client \notin Over
  /\ client' = "error"
  /\ UNCHANGED <<diskVars, serverVars, cj, wireVars>>

-----------------------------------------------------------------------------

ServerStep ==
  StatFile \/ HashFile \/ WriteManifest \/ ReadDecision \/ OpenFile \/ CopyByte
    \/ ServerFinishes

ClientStep ==
  ReadManifest \/ Decide \/ Create \/ Receive \/ Rename \/ ClientFinishes

Next == Edit \/ Connect \/ Break \/ ServerStep \/ ClientStep \/ ClientFails

Spec == Init /\ [][Next]_vars

(* Both processes run, and a client that meets a broken connection fails.    *)
(* Nobody has to connect, nothing has to break and no file has to change.    *)
Fairness ==
  WF_vars(ServerStep) /\ WF_vars(ClientStep) /\ WF_vars(broken /\ ClientFails)

FairSpec == Spec /\ Fairness

-----------------------------------------------------------------------------
(* Manifest lists the files the server will stream: a download that ended    *)
(* without an error left the sender's files in the output directory, unless  *)
(* they changed meanwhile.                                                   *)
SessionDelivers ==
  (client = "ok" /\ quiet) =>
    \A n \in 1 .. Len(List) : List[n] \in File => dest[List[n]] = src[List[n]]

(* The two sides stay in step, also when files shrink or grow after the      *)
(* manifest: bytes on the wire belong to the entry the client waits for, the *)
(* server goes on to the next entry only after all of them, and it gives up  *)
(* on a waiting client only if a file is missing or files were changing.     *)
InStep ==
  (~broken /\ client \notin Over) =>
    /\ toClient # <<>> => client \in {"create", "receive"} /\ server # "open"
    /\ client = "receive" =>
         LET delivered == Len(part[Wanted.path]) + Len(toClient) IN
         /\ delivered <= Wanted.size
         /\ server \in {"decision", "ok"} /\ sj > cj => delivered = Wanted.size
    /\ client = "decide" => toClient = <<>>
    /\ server = "error" /\ quiet =>
         \E n \in 1 .. Len(List) : List[n] \in File /\ src[List[n]] = Absent

(* Neither side waits for ever: a session ends on both sides, whether it     *)
(* succeeds, fails at either end or loses its connection.                    *)
SessionEnds ==
  (client \notin Over \/ server \notin Over) ~> (client \in Over /\ server \in Over)
(* The protocol is a Delivery to the client: the manifest is the promise     *)
(* once it is read, and what the client has passed in it is settled.         *)
Protocol == INSTANCE Delivery WITH
  phase   <- CASE client = "manifest" -> "begun"
               [] client \in {"decide", "create", "receive"} -> "settling"
               [] client = "ok" -> "complete"
               [] OTHER -> "over",
  promise <- IF manifest = "read" THEN entries ELSE <<>>,
  settled <- cj - 1

(* The output directory never shows part of a transfer, or a rest of an      *)
(* older one, but whole files of the promised size, with the promised        *)
(* content unless source files changed meanwhile; what a failed session      *)
(* left in .part files does no harm to the next; a session that ends well    *)
(* has delivered every file, and each session ends.                          *)
IsDelivery == Protocol!Spec

=============================================================================
