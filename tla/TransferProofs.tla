--------------------------- MODULE TransferProofs ---------------------------
(***************************************************************************)
(* The safety of the transfer protocol, for any files of any size, any     *)
(* number of changes to them and any number of sessions.                   *)
(***************************************************************************)
EXTENDS Transfer, SequenceTheorems, TLAPS

(* Whoever works on a file of the list or an entry of the manifest has one.  *)
WorkFits ==
  /\ server = "hash" => si <= Len(List) /\ List[si] \in File /\ size \in Size
  /\ server = "open" => sj <= Len(entries)
  /\ server = "copy" /\ opened # Absent => List[sj] \in File
  /\ client \in {"create", "receive"} => cj <= Len(entries)
  /\ client = "receive" => part[Wanted.path] # Absent

TypeInv == TypeOK /\ WorkFits

(* The manifest is complete once it is written, and it is read once, before  *)
(* the first decision.                                                       *)
ManifestFits ==
  /\ server \in {"stat", "hash"} => manifest = "unsent" /\ sj = 1
  /\ manifest # "unsent" => si > Len(List)
  /\ client = "manifest" => manifest # "read" /\ cj = 1 /\ toServer = <<>>
  /\ client \in {"decide", "create", "receive"} => manifest = "read"

(* What the client has of the file it waits for, and with what is on the     *)
(* wire.                                                                     *)
Have    == IF client = "receive" THEN Len(part[Wanted.path]) ELSE 0
Carried == Have + Len(toClient)

Due == client \in {"create", "receive"}

(* The client never gets more of a file than was announced.                  *)
NothingSpare ==
  /\ client \in {"manifest", "decide"} => toClient = <<>>
  /\ Due => Carried <= Wanted.size

(* Decisions that the client made and that the server has read.              *)
Decided == IF Due THEN cj ELSE cj - 1
Heard   == IF server \in {"open", "copy"} THEN sj ELSE sj - 1

(* The client has asked for entry n and waits for it, or it was empty.       *)
Asked(n) == IF Due /\ n = cj THEN TRUE ELSE n < cj /\ entries[n].size = 0

Positions ==
  (~broken /\ client \notin Over /\ server # "error") =>
    /\ Decided = Heard + Len(toServer)
    /\ \A k \in 1 .. Len(toServer) :
         IF toServer[k] = "send" THEN Asked(Heard + k) ELSE Heard + k < cj
    /\ server = "open" => Asked(sj)
    /\ server = "copy" => (Due /\ sj = cj) \/ (sj < cj /\ sent = entries[sj].size)
    /\ Due => Carried = IF sj > cj THEN Wanted.size
                        ELSE IF sj = cj /\ server = "copy" THEN sent ELSE 0
    /\ server \in {"decision", "open", "copy", "ok"} => manifest # "unsent"

(* The manifest so far: the files of the list, in its order, as they are if  *)
(* none changed since the session began.                                     *)
Scanned == {n \in 1 .. Len(List) : n < si}

EntriesFit ==
  /\ \A k \in 1 .. Len(entries) : \E n \in Scanned : List[n] = entries[k].path
  /\ \A n \in Scanned : List[n] \in File => \E k \in 1 .. Len(entries) : entries[k].path = List[n]
  /\ \A j, k \in 1 .. Len(entries), m, n \in Scanned :
       j < k /\ List[m] = entries[j].path /\ List[n] = entries[k].path => m < n

QuietFits ==
  quiet =>
    /\ server = "hash" /\ src[List[si]] # Absent => size = Len(src[List[si]])
    /\ \A k \in 1 .. Len(entries) : /\ entries[k].hash = src[entries[k].path]
                                    /\ entries[k].size = Len(src[entries[k].path])

(* No directory comes before a file, so the server opens what it announced.  *)
DirsLast ==
  \A m, n \in 1 .. Len(List) : List[m] \in File /\ List[n] \in Dir => m < n

PathsFit ==
  /\ (\A n \in Scanned : List[n] \in File) => Len(entries) = si - 1
  /\ \A k \in 1 .. Len(entries) : entries[k].path = List[k]

OpenedFits == quiet /\ server = "copy" => opened = src[entries[sj].path]

MissingEnds ==
  quiet /\ server = "error" /\ ~broken /\ client \notin Over =>
    \E n \in 1 .. Len(List) : List[n] \in File /\ src[List[n]] = Absent

(* What arrives is the announced file from its beginning.                    *)
ContentFits ==
  quiet =>
    /\ client = "receive" =>
         \A k \in 1 .. Len(part[Wanted.path]) : part[Wanted.path][k] = Wanted.hash[k]
    /\ Due => \A k \in 1 .. Len(toClient) :
                toClient[k] = Wanted.hash[Have + k]

(* Only a file that is not there is asked for, and nobody else puts it there *)
(* while it is on its way.                                                   *)
DueIsMissing == Due => dest[Wanted.path] # Wanted.hash

-----------------------------------------------------------------------------
(* Contents and entries.                                                     *)

LEMMA ContentFacts ==
  /\ Content \subseteq Seq(Byte) /\ Absent \notin Seq(Byte) /\ Absent \notin Content
  /\ Size \subseteq Nat
  /\ \A c \in Content : Len(c) \in Size /\ Len(c) \in Nat /\ \A k \in 1 .. Len(c) : c[k] \in Byte
  /\ MaxEdits \in Nat /\ MaxSessions \in Nat
  /\ List \in Seq(File \cup Dir) /\ Len(List) \in Nat
  /\ \A n \in 1 .. Len(List) : List[n] \in File \cup Dir
<1>1. Content \subseteq Seq(Byte)
  BY TransferAssumption
<1>2. \A c \in Content : Len(c) \in Nat /\ \A k \in 1 .. Len(c) : c[k] \in Byte
  BY <1>1, LenProperties, ElementOfSeq
<1>3. Size \subseteq Nat /\ \A c \in Content : Len(c) \in Size
  BY <1>2 DEF Size
<1>4. List \in Seq(File \cup Dir)
  BY TransferAssumption
<1>5. Len(List) \in Nat /\ \A n \in 1 .. Len(List) : List[n] \in File \cup Dir
  BY <1>4, LenProperties, ElementOfSeq
<1> QED
  BY <1>1, <1>2, <1>3, <1>4, <1>5, TransferAssumption

LEMMA EntryFacts ==
  ASSUME TypeOK
  PROVE  /\ si \in Nat /\ sj \in Nat /\ cj \in Nat /\ sent \in Nat
         /\ si >= 1 /\ sj >= 1 /\ cj >= 1 /\ si <= Len(List) + 1
         /\ Len(entries) \in Nat /\ sj <= Len(entries) + 1 /\ cj <= Len(entries) + 1
         /\ \A k \in 1 .. Len(entries) :
              /\ entries[k] \in Entry
              /\ entries[k].path \in File /\ entries[k].size \in Nat
              /\ entries[k].hash \in Content
<1>1. entries \in Seq(Entry)
  BY DEF TypeOK
<1>2. Len(entries) \in Nat /\ \A k \in 1 .. Len(entries) : entries[k] \in Entry
  BY <1>1, LenProperties, ElementOfSeq
<1>3. \A e \in Entry : e.path \in File /\ e.size \in Nat /\ e.hash \in Content
  BY ContentFacts DEF Entry
<1>4. /\ si \in 1 .. Len(List) + 1 /\ sj \in 1 .. Len(entries) + 1
      /\ cj \in 1 .. Len(entries) + 1 /\ sent \in Nat
  BY DEF TypeOK
<1> QED
  BY <1>2, <1>3, <1>4, ContentFacts

-----------------------------------------------------------------------------
(* Types.                                                                    *)

LEMMA TypesBegin ==
  ASSUME Init
  PROVE  TypeInv
<1> USE DEF Over
<1>1. src \in [File -> Content \cup {Absent}]
  BY DEF Init
<1>2. dest \in [File -> Seq(Byte) \cup {Absent}]
  <2>1. PICK had \in SUBSET File : dest = [p \in File |-> IF p \in had THEN src[p] ELSE Absent]
    BY DEF Init
  <2> QED
    BY <2>1, <1>1, ContentFacts
<1>3. part \in [File -> Seq(Byte) \cup {Absent}]
  BY DEF Init
<1>4. entries = <<>> /\ entries \in Seq(Entry) /\ Len(entries) = 0
  BY DEF Init, ServerIdle
<1>5. toServer \in Seq({"send", "skip"}) /\ toClient \in Seq(Byte)
  BY DEF Init
<1>6. si \in 1 .. Len(List) + 1 /\ sj \in 1 .. Len(entries) + 1 /\ cj \in 1 .. Len(entries) + 1
      /\ Len(entries) < si
  BY <1>4, ContentFacts DEF Init, ServerIdle
<1>7. edits \in 0 .. MaxEdits /\ sessions \in 0 .. MaxSessions
  BY ContentFacts DEF Init
<1>8. TypeOK
  BY <1>1, <1>2, <1>3, <1>4, <1>5, <1>6, <1>7 DEF Init, ServerIdle, TypeOK
<1> QED
  BY <1>8 DEF TypeInv, WorkFits, Init

LEMMA TypesKeptByServer ==
  ASSUME TypeInv, ServerStep
  PROVE  TypeInv'
<1> USE DEF Over, diskVars, clientVars, wireVars
<1>1. TypeOK
  BY DEF TypeInv
<1>2. WorkFits
  BY DEF TypeInv
<1>3. entries \in Seq(Entry) /\ src \in [File -> Content \cup {Absent}] /\ toClient \in Seq(Byte)
      /\ toServer \in Seq({"send", "skip"}) /\ Len(entries) < si
  BY <1>1 DEF TypeOK
<1>4. CASE StatFile
  <2>1. si <= Len(List) /\ server = "stat"
    BY <1>4 DEF StatFile
  <2>2. si' \in 1 .. Len(List) + 1 /\ Len(entries) < si'
    BY <1>4, <1>1, <1>3, EntryFacts, ContentFacts, SMTT(60) DEF StatFile
  <2>3. size' \in Size \cup {0} /\ (server' = "hash" => List[si'] \in File /\ size' \in Size)
        /\ (server' = "hash" => si' = si)
    BY <1>4, <1>1, <1>3, ContentFacts, SMTT(60) DEF StatFile, TypeOK
  <2>4. server' \in {"stat", "hash", "error"}
    BY <1>4 DEF StatFile
  <2>5. TypeOK'
    BY <1>4, <1>1, <2>2, <2>3, <2>4, SMTT(60) DEF StatFile, TypeOK
  <2>6. WorkFits'
    BY <1>4, <1>2, <2>1, <2>3, <2>4 DEF StatFile, WorkFits, Wanted
  <2> QED
    BY <2>5, <2>6 DEF TypeInv
<1>5. CASE HashFile
  <2>1. /\ si <= Len(List) /\ List[si] \in File /\ size \in Size /\ server = "hash"
    BY <1>5, <1>2 DEF HashFile, WorkFits
  <2>2. CASE server' = "error" /\ UNCHANGED <<si, size, entries>>
    <3>1. TypeOK'
      BY <1>5, <1>1, <2>2 DEF HashFile, TypeOK
    <3>2. WorkFits'
      BY <1>5, <1>2, <2>2 DEF HashFile, WorkFits, Wanted
    <3> QED
      BY <3>1, <3>2 DEF TypeInv
  <2>3. CASE /\ src[List[si]] # Absent
             /\ entries' = Append(entries, [path |-> List[si], size |-> size, hash |-> src[List[si]]])
             /\ server' = "stat" /\ si' = si + 1 /\ size' = 0
    <3> DEFINE e == [path |-> List[si], size |-> size, hash |-> src[List[si]]]
    <3>1. e \in Entry
      BY <2>1, <2>3, <1>3 DEF Entry
    <3> HIDE DEF e
    <3>2. entries' = Append(entries, e)
      BY <2>3 DEF e
    <3>3. /\ entries' \in Seq(Entry) /\ Len(entries') = Len(entries) + 1
          /\ \A k \in 1 .. Len(entries) : entries'[k] = entries[k]
      BY <3>1, <3>2, <1>3, AppendProperties
    <3>4. si' \in 1 .. Len(List) + 1 /\ Len(entries') < si'
      <4>1. /\ si \in Nat /\ 1 <= si /\ si <= Len(List) /\ si' = si + 1
            /\ Len(entries) < si /\ Len(entries') = Len(entries) + 1
        BY <2>1, <2>3, <3>3, <1>1 DEF TypeOK
      <4>2. Len(List) \in Nat /\ Len(entries) \in Nat
        BY <1>1, EntryFacts, ContentFacts
      <4> QED
        BY <4>1, <4>2
    <3>5. sj' \in 1 .. Len(entries') + 1 /\ cj' \in 1 .. Len(entries') + 1
      BY <1>5, <1>1, <3>3, EntryFacts DEF HashFile
    <3>6. TypeOK'
      BY <1>5, <1>1, <2>3, <3>3, <3>4, <3>5, SMTT(60) DEF HashFile, TypeOK
    <3>7. client \in {"create", "receive"} => entries'[cj] = entries[cj] /\ cj <= Len(entries')
      BY <1>1, <1>2, <3>3, EntryFacts DEF WorkFits
    <3>8. WorkFits'
      BY <1>5, <1>2, <2>3, <3>7 DEF HashFile, WorkFits, Wanted
    <3> QED
      BY <3>6, <3>8 DEF TypeInv
  <2> QED
    BY <2>2, <2>3, <1>5 DEF HashFile
<1>6. CASE WriteManifest
  <2>1. server' \in {"decision", "error"} /\ manifest' \in {"unsent", "wire", "read"}
    BY <1>6, <1>1 DEF WriteManifest, TypeOK
  <2>2. TypeOK'
    BY <1>6, <1>1, <2>1, SMTT(60) DEF WriteManifest, TypeOK
  <2>3. WorkFits'
    BY <1>6, <1>2, <2>1 DEF WriteManifest, WorkFits, Wanted
  <2> QED
    BY <2>2, <2>3 DEF TypeInv
<1>7. CASE ReadDecision
  <2>1. server = "decision" /\ sj <= Len(entries) /\ entries' = entries
    BY <1>7 DEF ReadDecision
  <2>2. toServer' \in Seq({"send", "skip"})
    <3>1. toServer' = toServer \/ (toServer # <<>> /\ toServer' = Tail(toServer))
      BY <1>7 DEF ReadDecision
    <3> QED
      BY <3>1, <1>3, HeadTailProperties
  <2>3. sj' \in 1 .. Len(entries) + 1
    BY <1>7, <2>1, <1>1, EntryFacts, SMTT(60) DEF ReadDecision
  <2>4. server' \in {"open", "decision", "error"} /\ (server' = "open" => sj' = sj)
    BY <1>7 DEF ReadDecision
  <2>5. TypeOK'
    BY <1>7, <1>1, <2>2, <2>3, <2>4, SMTT(60) DEF ReadDecision, TypeOK
  <2>6. WorkFits'
    BY <1>7, <1>2, <2>1, <2>4 DEF ReadDecision, WorkFits, Wanted
  <2> QED
    BY <2>5, <2>6 DEF TypeInv
<1>8. CASE OpenFile
  <2>1. server = "open" /\ sj <= Len(entries)
    BY <1>8, <1>2 DEF OpenFile, WorkFits
  <2>2. opened' \in Content \cup {Absent} /\ sent' \in Nat
    BY <1>8, <1>1, <1>3, EntryFacts, SMTT(60) DEF OpenFile, Regular, TypeOK
  <2>3. server' \in {"copy", "error"} /\ (server' = "copy" => sent' = 0)
    BY <1>8 DEF OpenFile
  <2>4. entries[sj].size \in Nat
    BY <2>1, <1>1, EntryFacts
  <2>5. server' = "copy" => sj <= Len(entries) /\ sent' <= entries[sj].size
    BY <2>1, <2>3, <2>4
  <2>6. TypeOK'
    BY <1>8, <1>1, <2>2, <2>3, <2>5, SMTT(60) DEF OpenFile, TypeOK
  <2>7. server' = "copy" /\ opened' # Absent => List[sj] \in File
    BY <1>8, <2>3 DEF OpenFile, Regular
  <2>8. WorkFits'
    BY <1>8, <1>2, <2>3, <2>7 DEF OpenFile, WorkFits, Wanted
  <2> QED
    BY <2>6, <2>8 DEF TypeInv
<1>9. CASE CopyByte
  <2>1. server = "copy" /\ sj <= Len(entries) /\ sent <= entries[sj].size
        /\ entries[sj].size \in Nat /\ sent \in Nat
    BY <1>9, <1>1, EntryFacts, SMTT(60) DEF CopyByte, TypeOK
  <2>2. toClient' \in Seq(Byte)
    <3>1. ASSUME NEW c \in CanRead, toClient' = Append(toClient, c[sent + 1])
          PROVE  toClient' \in Seq(Byte)
      <4>1. c \in Content /\ Len(c) > sent
        <5>1. opened \in Content \cup {Absent}
          BY <1>1 DEF TypeOK
        <5>2. c # Absent /\ c \in {opened, src[List[sj]]} /\ Len(c) > sent /\ opened # Absent
          BY <3>1 DEF CanRead, Readable
        <5>3. src[List[sj]] \in Content \cup {Absent}
          BY <5>2, <2>1, <1>2, <1>3 DEF WorkFits
        <5> QED
          BY <5>1, <5>2, <5>3
      <4>2. c[sent + 1] \in Byte
        BY <4>1, <2>1, ContentFacts
      <4> QED
        BY <4>2, <3>1, <1>3, AppendProperties
    <3> QED
      BY <3>1, <1>9, <1>3 DEF CopyByte
  <2>3. /\ server' \in {"copy", "decision", "error"} /\ sent' \in Nat
        /\ sj' \in 1 .. Len(entries) + 1
        /\ server' = "copy" => sj' = sj /\ sent' <= entries[sj].size
    <3>1. /\ sj \in Nat /\ sj >= 1 /\ sj <= Len(entries) /\ Len(entries) \in Nat
          /\ sent \in Nat /\ entries[sj].size \in Nat
      BY <2>1, <1>1, EntryFacts
    <3>2. CASE sent < entries[sj].size /\ sent' = sent + 1 /\ server' = server /\ sj' = sj
      BY <3>1, <3>2, <2>1
    <3>3. CASE server' = "decision" /\ sj' = sj + 1 /\ sent' = 0
      BY <3>1, <3>3
    <3>4. CASE server' = "error" /\ UNCHANGED <<sent, sj>>
      BY <3>1, <3>4
    <3> QED
      BY <1>9, <3>2, <3>3, <3>4 DEF CopyByte
  <2>4. TypeOK'
    <3>1. /\ UNCHANGED <<diskVars, clientVars>> /\ UNCHANGED <<si, size, entries, opened>>
          /\ UNCHANGED <<manifest, toServer, broken>>
      BY <1>9 DEF CopyByte
    <3>2. server' \in Over \cup {"stat", "hash", "decision", "open", "copy"}
      BY <2>3
    <3>3. server' = "copy" => sj' <= Len(entries') /\ sent' <= entries'[sj'].size
      BY <3>1, <2>1, <2>3
    <3> QED
      BY <3>1, <3>2, <3>3, <1>1, <2>2, <2>3, SMTT(60) DEF TypeOK
  <2>5. WorkFits'
    BY <1>9, <1>2, <2>3 DEF CopyByte, WorkFits, Wanted
  <2> QED
    BY <2>4, <2>5 DEF TypeInv
<1>10. CASE ServerFinishes
  <2>1. TypeOK'
    BY <1>10, <1>1 DEF ServerFinishes, TypeOK
  <2>2. WorkFits'
    BY <1>10, <1>2 DEF ServerFinishes, WorkFits, Wanted
  <2> QED
    BY <2>1, <2>2 DEF TypeInv
<1> QED
  BY <1>4, <1>5, <1>6, <1>7, <1>8, <1>9, <1>10 DEF ServerStep

LEMMA WantedFacts ==
  ASSUME TypeOK, cj <= Len(entries)
  PROVE  /\ Wanted \in Entry /\ Wanted.path \in File /\ Wanted.size \in Nat
         /\ Wanted.hash \in Content /\ cj \in 1 .. Len(entries)
  BY EntryFacts DEF Wanted

(* A file that is being received.                                            *)
LEMMA PartFacts ==
  ASSUME TypeInv, client = "receive"
  PROVE  /\ part[Wanted.path] \in Seq(Byte) /\ Len(part[Wanted.path]) \in Nat
         /\ cj <= Len(entries)
<1>1. cj <= Len(entries) /\ part[Wanted.path] # Absent
  BY DEF TypeInv, WorkFits
<1>2. Wanted.path \in File
  BY <1>1, WantedFacts DEF TypeInv
<1>3. part[Wanted.path] \in Seq(Byte)
  BY <1>1, <1>2 DEF TypeInv, TypeOK
<1> QED
  BY <1>1, <1>3, LenProperties

LEMMA TypesKeptByClient ==
  ASSUME TypeInv, ClientStep \/ ClientFails
  PROVE  TypeInv'
<1> USE DEF Over, diskVars, serverVars, wireVars
<1>1. TypeOK
  BY DEF TypeInv
<1>2. WorkFits
  BY DEF TypeInv
<1>3. /\ part \in [File -> Seq(Byte) \cup {Absent}] /\ dest \in [File -> Seq(Byte) \cup {Absent}]
      /\ toClient \in Seq(Byte) /\ toServer \in Seq({"send", "skip"})
  BY <1>1 DEF TypeOK
<1>4. CASE ReadManifest
  <2>1. client' \in {"decide", "error"} /\ manifest' \in {"unsent", "wire", "read"}
    BY <1>4, <1>1 DEF ReadManifest, TypeOK
  <2>2. TypeOK'
    BY <1>4, <1>1, <2>1 DEF ReadManifest, TypeOK
  <2>3. WorkFits'
    BY <1>4, <1>2, <2>1 DEF ReadManifest, WorkFits
  <2> QED
    BY <2>2, <2>3 DEF TypeInv
<1>5. CASE Decide
  <2>1. cj <= Len(entries) /\ client' \in {"create", "decide"} /\ (client' = "create" => cj' = cj)
    BY <1>5 DEF Decide
  <2>2. cj' \in 1 .. Len(entries) + 1
    BY <1>5, <2>1, <1>1, EntryFacts, SMTT(60) DEF Decide
  <2>3. toServer' \in Seq({"send", "skip"})
    <3>1. PICK d \in {"send", "skip"} : toServer' = Append(toServer, d)
      BY <1>5 DEF Decide
    <3>2. toServer \in Seq({"send", "skip"})
      BY <1>3
    <3>3. Append(toServer, d) \in Seq({"send", "skip"})
      BY <3>2, AppendProperties, Zenon
    <3> QED
      BY <3>1, <3>3, Zenon
  <2>4. TypeOK'
    BY <1>5, <1>1, <2>1, <2>2, <2>3, SMTT(60) DEF Decide, TypeOK
  <2>5. WorkFits'
    BY <1>5, <1>2, <2>1 DEF Decide, WorkFits
  <2> QED
    BY <2>4, <2>5 DEF TypeInv
<1>6. CASE Create
  <2>1. client = "create" /\ cj <= Len(entries)
    BY <1>6, <1>2 DEF Create, WorkFits
  <2>2. part' = [part EXCEPT ![Wanted.path] = <<>>]
    BY <1>6 DEF Create
  <2>3. part' \in [File -> Seq(Byte) \cup {Absent}]
    BY <2>2, <1>3, EmptySeq
  <2>4. <<>> \in Seq(Byte) /\ <<>> # Absent
    BY EmptySeq, TransferAssumption
  <2>5. TypeOK'
    BY <1>6, <1>1, <2>3 DEF Create, TypeOK
  <2>6. part'[Wanted.path] # Absent
    BY <2>1, <2>2, <2>4, <1>1, <1>3, WantedFacts
  <2>7. WorkFits'
    BY <1>6, <1>2, <2>1, <2>6 DEF Create, WorkFits, Wanted
  <2> QED
    BY <2>5, <2>7 DEF TypeInv
<1>7. CASE Receive
  <2>1. client = "receive" /\ Missing
    BY <1>7 DEF Receive
  <2>2. part[Wanted.path] \in Seq(Byte) /\ cj <= Len(entries) /\ Wanted.path \in File
    BY <2>1, <1>1, PartFacts, WantedFacts
  <2>3. CASE /\ toClient # <<>>
             /\ part' = [part EXCEPT ![Wanted.path] = Append(@, Head(toClient))]
             /\ toClient' = Tail(toClient) /\ UNCHANGED client
    <3>1. Head(toClient) \in Byte /\ toClient' \in Seq(Byte)
      BY <2>3, <1>3, HeadTailProperties
    <3>2. Append(part[Wanted.path], Head(toClient)) \in Seq(Byte)
      BY <3>1, <2>2, AppendProperties
    <3>3. part' = [part EXCEPT ![Wanted.path] = Append(part[Wanted.path], Head(toClient))]
      BY <2>3
    <3>4. part' \in [File -> Seq(Byte) \cup {Absent}]
      BY <3>2, <3>3, <1>3
    <3>5. TypeOK'
      BY <1>7, <1>1, <2>3, <3>1, <3>4, SMTT(60) DEF Receive, TypeOK
    <3>6. part'[Wanted.path] # Absent
      BY <3>2, <3>3, <2>2, <1>3, TransferAssumption
    <3>7. WorkFits'
      BY <1>7, <1>2, <2>3, <3>6 DEF Receive, WorkFits, Wanted
    <3> QED
      BY <3>5, <3>7 DEF TypeInv
  <2>4. CASE client' = "error" /\ UNCHANGED <<part, toClient>>
    <3>1. TypeOK'
      BY <1>7, <1>1, <2>4 DEF Receive, TypeOK
    <3>2. WorkFits'
      BY <1>7, <1>2, <2>4 DEF Receive, WorkFits, Wanted
    <3> QED
      BY <3>1, <3>2 DEF TypeInv
  <2> QED
    BY <2>3, <2>4, <1>7 DEF Receive
<1>8. CASE Rename
  <2>1. part[Wanted.path] \in Seq(Byte) /\ cj <= Len(entries)
    BY <1>8, PartFacts DEF Rename
  <2>2. dest' \in [File -> Seq(Byte) \cup {Absent}] /\ part' \in [File -> Seq(Byte) \cup {Absent}]
    BY <1>8, <1>3, <2>1 DEF Rename
  <2>3. cj' \in 1 .. Len(entries) + 1
    BY <1>8, <2>1, <1>1, EntryFacts, SMTT(60) DEF Rename
  <2>4. TypeOK'
    BY <1>8, <1>1, <2>2, <2>3 DEF Rename, TypeOK
  <2>5. WorkFits'
    BY <1>8, <1>2 DEF Rename, WorkFits
  <2> QED
    BY <2>4, <2>5 DEF TypeInv
<1>9. CASE ClientFinishes \/ ClientFails
  <2>1. client' \in {"ok", "error"}
    BY <1>9 DEF ClientFinishes, ClientFails
  <2>2. TypeOK'
    BY <1>9, <1>1, <2>1, SMTT(60) DEF ClientFinishes, ClientFails, TypeOK
  <2>3. WorkFits'
    BY <1>9, <1>2, <2>1 DEF ClientFinishes, ClientFails, WorkFits
  <2> QED
    BY <2>2, <2>3 DEF TypeInv
<1> QED
  BY <1>4, <1>5, <1>6, <1>7, <1>8, <1>9 DEF ClientStep

LEMMA TypesKept ==
  ASSUME TypeInv, [Next]_vars
  PROVE  TypeInv'
<1> USE DEF Over, diskVars, serverVars, clientVars, wireVars
<1>1. TypeOK
  BY DEF TypeInv
<1>2. WorkFits
  BY DEF TypeInv
<1>3. CASE Edit
  <2>1. src' \in [File -> Content \cup {Absent}] /\ edits' \in 0 .. MaxEdits
    BY <1>3, <1>1, ContentFacts DEF Edit, TypeOK
  <2>2. TypeOK'
    <3>1. /\ quiet' \in BOOLEAN
          /\ UNCHANGED <<part, dest, sessions, clientVars, serverVars, wireVars>>
      BY <1>3 DEF Edit
    <3> QED
      BY <3>1, <1>1, <2>1 DEF TypeOK
  <2>3. WorkFits'
    BY <1>3, <1>2 DEF Edit, WorkFits, Wanted
  <2> QED
    BY <2>2, <2>3 DEF TypeInv
<1>4. CASE Connect
  <2>1. entries' = <<>> /\ entries' \in Seq(Entry) /\ Len(entries') = 0
    BY <1>4 DEF Connect
  <2>2. /\ si' \in 1 .. Len(List) + 1 /\ sj' \in 1 .. Len(entries') + 1
        /\ cj' \in 1 .. Len(entries') + 1 /\ Len(entries') < si'
    BY <1>4, <2>1, ContentFacts DEF Connect
  <2>3. toServer' \in Seq({"send", "skip"}) /\ toClient' \in Seq(Byte)
    BY <1>4 DEF Connect
  <2>4. sessions' \in 0 .. MaxSessions
    BY <1>4, <1>1, ContentFacts DEF Connect, TypeOK
  <2>5. TypeOK'
    BY <1>4, <1>1, <2>1, <2>2, <2>3, <2>4 DEF Connect, TypeOK
  <2>6. WorkFits'
    BY <1>4 DEF Connect, WorkFits
  <2> QED
    BY <2>5, <2>6 DEF TypeInv
<1>5. CASE Break
  <2>1. toServer' \in Seq({"send", "skip"}) /\ toClient' \in Seq(Byte)
    BY <1>5 DEF Break
  <2>2. manifest' \in {"unsent", "wire", "read"}
    BY <1>5, <1>1 DEF Break, TypeOK
  <2>3. TypeOK'
    BY <1>5, <1>1, <2>1, <2>2 DEF Break, TypeOK
  <2>4. WorkFits'
    BY <1>5, <1>2 DEF Break, WorkFits, Wanted
  <2> QED
    BY <2>3, <2>4 DEF TypeInv
<1>6. CASE UNCHANGED vars
  <2>1. TypeOK'
    BY <1>6, <1>1 DEF vars, TypeOK
  <2>2. WorkFits'
    BY <1>6, <1>2 DEF vars, WorkFits, Wanted
  <2> QED
    BY <2>1, <2>2 DEF TypeInv
<1> QED
  BY <1>3, <1>4, <1>5, <1>6, TypesKeptByServer, TypesKeptByClient DEF Next

THEOREM TransferInvariant == Spec => []TypeInv
<1>1. Init => TypeInv
  BY TypesBegin
<1>2. TypeInv /\ [Next]_vars => TypeInv'
  BY TypesKept
<1> QED
  BY <1>1, <1>2, PTL DEF Spec

(* Every variable has its type, whatever happens to source files and the     *)
(* connection; in particular the server never streams beyond the size that   *)
(* it announced (server.go:176).                                             *)
THEOREM TransferTypeCorrect == Spec => []TypeOK
<1>1. TypeInv => TypeOK
  BY DEF TypeInv
<1> QED
  BY <1>1, TransferInvariant, PTL

-----------------------------------------------------------------------------
(* The manifest, and how much of a file is under way.                        *)

LEMMA ManifestKept ==
  ASSUME TypeInv, ManifestFits, [Next]_vars
  PROVE  ManifestFits'
<1> USE DEF Over, diskVars, serverVars, clientVars, wireVars
<1>1. TypeOK /\ WorkFits
  BY DEF TypeInv
<1>2. si \in Nat /\ Len(List) \in Nat
  BY <1>1, EntryFacts, ContentFacts
<1>3. CASE Edit \/ UNCHANGED vars
  BY <1>3 DEF Edit, vars, ManifestFits
<1>4. CASE Connect
  BY <1>4 DEF Connect, ManifestFits
<1>5. CASE Break
  BY <1>5 DEF Break, ManifestFits
<1>6. CASE StatFile
  BY <1>6, <1>2 DEF StatFile, ManifestFits
<1>7. CASE HashFile
  BY <1>7, <1>2 DEF HashFile, ManifestFits
<1>8. CASE WriteManifest
  BY <1>8, <1>2 DEF WriteManifest, ManifestFits
<1>9. CASE ReadDecision
  <2>1. client = "manifest" => toServer = <<>>
    BY DEF ManifestFits
  <2> QED
    BY <1>9, <2>1 DEF ReadDecision, ManifestFits
<1>10. CASE OpenFile
  BY <1>10 DEF OpenFile, ManifestFits
<1>11. CASE CopyByte
  BY <1>11 DEF CopyByte, ManifestFits
<1>12. CASE ServerFinishes
  BY <1>12 DEF ServerFinishes, ManifestFits
<1>13. CASE ReadManifest
  BY <1>13 DEF ReadManifest, ManifestFits
<1>14. CASE Decide
  BY <1>14 DEF Decide, ManifestFits
<1>15. CASE Create
  BY <1>15 DEF Create, ManifestFits
<1>16. CASE Receive
  BY <1>16 DEF Receive, ManifestFits
<1>17. CASE Rename
  BY <1>17 DEF Rename, ManifestFits
<1>18. CASE ClientFinishes \/ ClientFails
  BY <1>18 DEF ClientFinishes, ClientFails, ManifestFits
<1> QED
  BY <1>3, <1>4, <1>5, <1>6, <1>7, <1>8, <1>9, <1>10, <1>11, <1>12, <1>13, <1>14, <1>15, <1>16,
     <1>17, <1>18 DEF Next, ServerStep, ClientStep

(* While the client works through the manifest it does not change.           *)
LEMMA EntriesStay ==
  ASSUME TypeInv, ManifestFits, ServerStep
  PROVE  /\ client' = client /\ cj' = cj /\ part' = part /\ dest' = dest /\ src' = src
         /\ quiet' = quiet /\ broken' = broken
         /\ entries' = entries \/ HashFile
         /\ client \in {"decide", "create", "receive"} => entries' = entries /\ ~HashFile
<1> USE DEF diskVars, clientVars, wireVars
<1>1. /\ client' = client /\ cj' = cj /\ part' = part /\ dest' = dest /\ src' = src
      /\ quiet' = quiet /\ broken' = broken
  BY DEF ServerStep, StatFile, HashFile, WriteManifest, ReadDecision, OpenFile, CopyByte,
         ServerFinishes
<1>2. entries' = entries \/ HashFile
  BY DEF ServerStep, StatFile, WriteManifest, ReadDecision, OpenFile, CopyByte, ServerFinishes
<1>3. client \in {"decide", "create", "receive"} => ~HashFile
  BY DEF HashFile, ManifestFits
<1> QED
  BY <1>1, <1>2, <1>3

LEMMA CarriedType ==
  ASSUME TypeInv
  PROVE  /\ Len(toClient) \in Nat /\ Have \in Nat /\ Carried \in Nat
         /\ (toClient = <<>> <=> Len(toClient) = 0)
<1>1. toClient \in Seq(Byte)
  BY DEF TypeInv, TypeOK
<1>2. Len(toClient) \in Nat /\ (toClient = <<>> <=> Len(toClient) = 0)
  BY <1>1, LenProperties, EmptySeq
<1>3. Have \in Nat
  BY PartFacts DEF Have
<1> QED
  BY <1>2, <1>3 DEF Carried

(* A byte that the server writes.                                            *)
LEMMA CopyShape ==
  ASSUME TypeInv, CopyByte
  PROVE  \/ /\ ~broken /\ sent < entries[sj].size /\ server = "copy"
            /\ sent' = sent + 1 /\ server' = server /\ sj' = sj
            /\ \E c \in CanRead : toClient' = Append(toClient, c[sent + 1])
            /\ Len(toClient') = Len(toClient) + 1
            /\ \A k \in 1 .. Len(toClient) : toClient'[k] = toClient[k]
         \/ toClient' = toClient
<1>1. toClient \in Seq(Byte) /\ toClient' \in Seq(Byte)
  <2>1. TypeInv'
    BY TypesKept DEF Next, ServerStep
  <2> QED
    BY <2>1 DEF TypeInv, TypeOK
<1>2. ASSUME NEW c, toClient' = Append(toClient, c)
      PROVE  /\ Len(toClient') = Len(toClient) + 1
             /\ \A k \in 1 .. Len(toClient) : toClient'[k] = toClient[k]
  BY <1>1, <1>2
<1>3. CASE /\ ~broken /\ sent < entries[sj].size
           /\ \E c \in CanRead : toClient' = Append(toClient, c[sent + 1])
           /\ sent' = sent + 1 /\ UNCHANGED <<server, sj>>
  BY <1>2, <1>3 DEF CopyByte
<1>4. CASE toClient' = toClient
  BY <1>4
<1> QED
  BY <1>3, <1>4 DEF CopyByte

(* A byte that the client reads.                                             *)
LEMMA ReceiveShape ==
  ASSUME TypeInv, Receive
  PROVE  \/ /\ client = "receive" /\ client' = client /\ Wanted' = Wanted
            /\ Have' = Have + 1 /\ Len(toClient') = Len(toClient) - 1
            /\ \A k \in 1 .. Len(toClient') : toClient'[k] = toClient[k + 1]
            /\ \A k \in 1 .. Have : part'[Wanted.path][k] = part[Wanted.path][k]
            /\ part'[Wanted.path][Have + 1] = toClient[1]
         \/ client' = "error" /\ UNCHANGED <<part, toClient>>
<1> DEFINE p == Wanted.path
<1>1. client = "receive" /\ Wanted' = Wanted
  BY DEF Receive, Wanted, serverVars
<1>2. part[p] \in Seq(Byte) /\ p \in File /\ toClient \in Seq(Byte) /\ Have = Len(part[p])
      /\ part \in [File -> Seq(Byte) \cup {Absent}]
  BY <1>1, PartFacts, WantedFacts DEF TypeInv, TypeOK, Have
<1>3. CASE /\ toClient # <<>>
           /\ part' = [part EXCEPT ![p] = Append(@, Head(toClient))]
           /\ toClient' = Tail(toClient) /\ UNCHANGED client
  <2>1. Head(toClient) = toClient[1] /\ Head(toClient) \in Byte
    BY <1>2, <1>3, HeadTailProperties
  <2>2. /\ Len(toClient') = Len(toClient) - 1
        /\ \A k \in 1 .. Len(toClient') : toClient'[k] = toClient[k + 1]
    BY <1>2, <1>3, HeadTailProperties
  <2>3. part'[p] = Append(part[p], toClient[1])
    BY <1>2, <1>3, <2>1
  <2>4. /\ Len(part'[p]) = Len(part[p]) + 1
        /\ \A k \in 1 .. Len(part[p]) : part'[p][k] = part[p][k]
        /\ part'[p][Len(part[p]) + 1] = toClient[1]
    BY <1>2, <2>1, <2>3, AppendProperties
  <2>5. Have' = Len(part'[p])
    BY <1>1, <1>3 DEF Have
  <2> QED
    BY <1>1, <1>2, <1>3, <2>2, <2>4, <2>5
<1> QED
  BY <1>3 DEF Receive

LEMMA SpareKept ==
  ASSUME TypeInv, ManifestFits, NothingSpare, Positions, [Next]_vars
  PROVE  NothingSpare'
<1> USE DEF Over, diskVars, serverVars, clientVars, wireVars
<1>1. Len(toClient) \in Nat /\ Have \in Nat /\ Carried = Have + Len(toClient)
      /\ (toClient = <<>> <=> Len(toClient) = 0)
  BY CarriedType DEF Carried
<1>2. Len(<<>>) = 0
  OBVIOUS
<1>3. client \in {"create", "receive"} => Wanted.size \in Nat /\ Wanted.path \in File
  BY WantedFacts DEF TypeInv, WorkFits
<1>4. ASSUME client' = client, part' = part, cj' = cj, Due => entries' = entries
      PROVE  Due' = Due /\ (Due => Have' = Have /\ Wanted' = Wanted)
  BY <1>4 DEF Due, Have, Wanted
<1>5. CASE Edit \/ UNCHANGED vars
  BY <1>5 DEF Edit, vars, NothingSpare, Due, Carried, Have, Wanted
<1>6. CASE Connect
  BY <1>6 DEF Connect, NothingSpare, Due
<1>7. CASE Break
  <2>1. client' = client /\ part' = part /\ cj' = cj /\ entries' = entries /\ toClient' = <<>>
    BY <1>7 DEF Break
  <2>2. Due' = Due /\ (Due => Have' = Have /\ Wanted' = Wanted)
    BY <1>4, <2>1
  <2>3. Len(toClient') = 0
    BY <1>2, <2>1
  <2>4. Carried' = Have' + Len(toClient')
    BY DEF Carried
  <2> QED
    BY <1>1, <1>3, <2>1, <2>2, <2>3, <2>4 DEF NothingSpare, Due
<1>8. CASE ServerStep /\ toClient' = toClient
  <2>1. client' = client /\ part' = part /\ cj' = cj /\ (Due => entries' = entries)
    BY <1>8, EntriesStay DEF Due
  <2>2. Due' = Due /\ (Due => Have' = Have /\ Wanted' = Wanted)
    BY <1>4, <2>1
  <2>3. Due => Carried' = Carried
    BY <1>8, <2>2 DEF Carried
  <2> QED
    BY <1>8, <2>1, <2>2, <2>3 DEF NothingSpare
<1> DEFINE Writes == /\ CopyByte /\ ~broken /\ sent < entries[sj].size /\ server = "copy"
                     /\ Len(toClient') = Len(toClient) + 1
<1>9. CASE Writes
  <2>1. client' = client /\ part' = part /\ cj' = cj /\ entries' = entries
    BY <1>9 DEF CopyByte
  <2>2. Due' = Due /\ (Due => Have' = Have /\ Wanted' = Wanted)
    BY <1>4, <2>1
  <2>3. /\ sj \in Nat /\ cj \in Nat /\ sent \in Nat
        /\ sj <= Len(entries) /\ entries[sj].size \in Nat
    BY <1>9, EntryFacts, SMTT(60) DEF TypeInv, TypeOK
  <2>4. client \notin Over => Due /\ sj = cj /\ Carried = sent
    BY <1>9, <2>3 DEF Positions
  <2>5. client \notin {"manifest", "decide"}
    BY <2>4 DEF Due
  <2>6. Due => Carried + 1 <= Wanted.size
    BY <2>3, <2>4, <1>9 DEF Due, Wanted
  <2>7. Due => Carried' = Carried + 1
    BY <1>1, <1>9, <2>2 DEF Carried
  <2> QED
    BY <2>1, <2>2, <2>5, <2>6, <2>7 DEF NothingSpare
<1>10. ServerStep => toClient' = toClient \/ Writes
  <2>1. CopyByte => toClient' = toClient \/ Writes
    BY CopyShape
  <2>2. ServerStep => CopyByte \/ toClient' = toClient
    BY DEF ServerStep, StatFile, HashFile, WriteManifest, ReadDecision, OpenFile,
           ServerFinishes
  <2> QED
    BY <2>1, <2>2
<1>11. CASE ReadManifest
  BY <1>11 DEF ReadManifest, NothingSpare, Due
<1>12. CASE Decide
  <2>1. toClient' = <<>> /\ client' \in {"decide", "create"}
    BY <1>12 DEF Decide, NothingSpare
  <2>2. Carried' = 0
    BY <2>1, <1>2 DEF Carried, Have
  <2>3. client' = "create" => Wanted' = Wanted /\ cj <= Len(entries)
    BY <1>12 DEF Decide, Wanted
  <2>4. client' = "create" => Wanted'.size \in Nat
    BY <2>3, WantedFacts DEF TypeInv
  <2> QED
    BY <2>1, <2>2, <2>4 DEF NothingSpare, Due
<1>13. CASE Create
  <2>1. client = "create" /\ client' = "receive" /\ Wanted' = Wanted /\ toClient' = toClient
        /\ part' = [part EXCEPT ![Wanted.path] = <<>>]
    BY <1>13 DEF Create, Wanted
  <2>2. part'[Wanted.path] = <<>>
    BY <2>1, <1>3 DEF TypeInv, TypeOK
  <2>3. Have = 0 /\ Have' = 0
    BY <2>1, <2>2, <1>2 DEF Have
  <2>4. Carried' = Carried
    BY <2>1, <2>3 DEF Carried
  <2> QED
    BY <2>1, <2>4 DEF NothingSpare, Due
<1>14. CASE Receive
  <2>1. CASE client' = "error"
    BY <2>1 DEF NothingSpare, Due
  <2>2. CASE /\ client = "receive" /\ client' = client /\ Wanted' = Wanted
             /\ Have' = Have + 1 /\ Len(toClient') = Len(toClient) - 1
    <3>1. Carried' = Carried
      BY <2>2, <1>1 DEF Carried
    <3> QED
      BY <2>2, <3>1 DEF NothingSpare, Due
  <2> QED
    BY <1>14, <2>1, <2>2, ReceiveShape
<1>15. CASE Rename
  <2>1. client = "receive" /\ client' = "decide" /\ toClient' = toClient /\ ~Missing
    BY <1>15 DEF Rename
  <2>2. Have >= Wanted.size
    BY <2>1, <1>1, <1>3 DEF Missing, Have
  <2>3. Carried <= Wanted.size
    BY <2>1 DEF NothingSpare, Due
  <2>4. toClient = <<>>
    BY <2>1, <2>2, <2>3, <1>1, <1>3
  <2> QED
    BY <2>1, <2>4 DEF NothingSpare, Due
<1>16. CASE ClientFinishes \/ ClientFails
  BY <1>16 DEF ClientFinishes, ClientFails, NothingSpare, Due
<1> QED
  BY <1>5, <1>6, <1>7, <1>8, <1>9, <1>10, <1>11, <1>12, <1>13, <1>14, <1>15, <1>16
     DEF Next, ClientStep

-----------------------------------------------------------------------------
(* Who has got how far.                                                      *)

(* Neither the scan nor a step outside the session moves the positions.      *)
LEMMA PositionsStay ==
  ASSUME TypeInv, Positions, ManifestFits,
         broken' = broken, manifest' = manifest, client' = client, cj' = cj, part' = part,
         toServer' = toServer, toClient' = toClient, sj' = sj, sent' = sent,
         \/ server' = server /\ entries' = entries
         \/ server \in {"stat", "hash"} /\ server' \in {"stat", "hash", "error"}
  PROVE  Positions'
<1>1. CASE server' = server /\ entries' = entries
  BY <1>1 DEF Positions, Decided, Heard, Asked, Due, Carried, Have, Wanted
<1>2. CASE server \in {"stat", "hash"} /\ server' \in {"stat", "hash", "error"}
  <2> SUFFICES ASSUME ~broken, client \notin Over, server' # "error"
               PROVE  Positions'
    BY DEF Positions
  <2>1. server # "error" /\ server' \in {"stat", "hash"} /\ sj = 1 /\ manifest = "unsent"
    BY <1>2 DEF ManifestFits
  <2>2. client = "manifest" /\ cj = 1 /\ toServer = <<>>
    BY <2>1 DEF ManifestFits, TypeInv, TypeOK
  <2>3. ~Due /\ ~Due' /\ Decided' = 0 /\ Heard' = 0
    BY <2>1, <2>2 DEF Due, Decided, Heard
  <2>4. Len(toServer') = 0
    BY <2>2
  <2> QED
    BY <2>1, <2>3, <2>4 DEF Positions
<1> QED
  BY <1>1, <1>2

LEMMA PositionsKeptByServer ==
  ASSUME TypeInv, ManifestFits, Positions, ServerStep
  PROVE  Positions'
<1> USE DEF Over, diskVars, clientVars, wireVars
<1>1. /\ sj \in Nat /\ cj \in Nat /\ sent \in Nat /\ cj >= 1 /\ sj >= 1
      /\ \A k \in 1 .. Len(entries) : entries[k].size \in Nat
  BY EntryFacts DEF TypeInv
<1>2. toServer \in Seq({"send", "skip"}) /\ Len(toServer) \in Nat
      /\ \A k \in 1 .. Len(toServer) : toServer[k] \in {"send", "skip"}
  <2>1. toServer \in Seq({"send", "skip"})
    BY DEF TypeInv, TypeOK
  <2> QED
    BY <2>1, LenProperties, ElementOfSeq
<1>3. Carried \in Nat /\ Carried = Have + Len(toClient) /\ Have \in Nat /\ Len(toClient) \in Nat
  BY CarriedType DEF Carried
<1>4. CASE StatFile \/ HashFile
  BY <1>4, PositionsStay DEF StatFile, HashFile
<1> SUFFICES ASSUME ~broken, client \notin Over, server # "error", server' # "error",
                    ~StatFile, ~HashFile
             PROVE  Positions'
  <2>1. broken' = broken /\ client' = client
    BY EntriesStay
  <2>2. server # "error"
    BY DEF ServerStep, StatFile, HashFile, WriteManifest, ReadDecision, OpenFile, CopyByte,
           ServerFinishes
  <2> QED
    BY <2>1, <2>2, <1>4 DEF Positions
<1>5. /\ Decided = Heard + Len(toServer)
      /\ \A k \in 1 .. Len(toServer) :
           IF toServer[k] = "send" THEN Asked(Heard + k) ELSE Heard + k < cj
      /\ server = "open" => Asked(sj)
      /\ server = "copy" => (Due /\ sj = cj) \/ (sj < cj /\ sent = entries[sj].size)
      /\ Due => Carried = IF sj > cj THEN Wanted.size
                          ELSE IF sj = cj /\ server = "copy" THEN sent ELSE 0
      /\ server \in {"decision", "open", "copy", "ok"} => manifest # "unsent"
  BY DEF Positions
<1>6. /\ client' = client /\ cj' = cj /\ part' = part /\ entries' = entries
      /\ (broken' = broken)
  BY EntriesStay
<1>7. /\ Due' = Due /\ Decided' = Decided /\ Wanted' = Wanted /\ Have' = Have
      /\ \A n : Asked(n)' = Asked(n)
  BY <1>6 DEF Due, Decided, Wanted, Have, Asked
<1>8. CASE WriteManifest
  <2>1. server = "stat" /\ server' = "decision" /\ manifest' = "wire"
        /\ UNCHANGED <<sj, sent, toServer, toClient>>
    BY <1>8 DEF WriteManifest
  <2>2. Heard' = Heard /\ Carried' = Carried
    BY <2>1, <1>7 DEF Heard, Carried
  <2> QED
    BY <2>1, <2>2, <1>5, <1>6, <1>7 DEF Positions
<1>9. CASE OpenFile
  <2>1. server = "open" /\ server' = "copy" /\ sent' = 0 /\ manifest' = manifest
        /\ UNCHANGED <<sj, toServer, toClient>>
    BY <1>9 DEF OpenFile
  <2>2. Heard' = Heard /\ Carried' = Carried
    BY <2>1, <1>7 DEF Heard, Carried
  <2>3. (Due /\ sj = cj) \/ (sj < cj /\ sent' = entries[sj].size)
    BY <2>1, <1>5 DEF Asked
  <2>4. Due => Carried' = IF sj > cj THEN Wanted.size
                          ELSE IF sj = cj THEN sent' ELSE 0
    BY <2>1, <2>2, <1>5
  <2> QED
    BY <2>1, <2>2, <2>3, <2>4, <1>5, <1>6, <1>7 DEF Positions
<1>10. CASE ServerFinishes
  <2>1. server = "decision" /\ server' = "ok" /\ manifest' = manifest
        /\ UNCHANGED <<sj, sent, toServer, toClient>>
    BY <1>10 DEF ServerFinishes
  <2>2. Heard' = Heard /\ Carried' = Carried
    BY <2>1, <1>7 DEF Heard, Carried
  <2> QED
    BY <2>1, <2>2, <1>5, <1>6, <1>7 DEF Positions
<1>11. CASE ReadDecision
  <2>1. /\ server = "decision" /\ sj <= Len(entries) /\ toServer # <<>> /\ toServer' = Tail(toServer)
        /\ manifest' = manifest /\ toClient' = toClient /\ sent' = sent
        /\ \/ toServer[1] = "send" /\ server' = "open" /\ sj' = sj
           \/ toServer[1] = "skip" /\ server' = "decision" /\ sj' = sj + 1
    BY <1>11, <1>2, HeadTailProperties DEF ReadDecision
  <2>2. /\ Len(toServer') = Len(toServer) - 1 /\ Len(toServer) >= 1
        /\ \A k \in 1 .. Len(toServer') : toServer'[k] = toServer[k + 1]
    BY <2>1, <1>2, HeadTailProperties, EmptySeq
  <2>3. Heard = sj - 1 /\ Heard' = sj
    <3>1. sj \in Nat
      BY <1>1
    <3>2. Heard = sj - 1
      BY <2>1 DEF Heard
    <3>3. CASE server' = "open" /\ sj' = sj
      BY <3>2, <3>3 DEF Heard
    <3>4. CASE server' = "decision" /\ sj' = sj + 1
      BY <3>1, <3>2, <3>4 DEF Heard
    <3> QED
      BY <2>1, <3>2, <3>3, <3>4
  <2>4. Carried' = Carried
    BY <2>1, <1>7 DEF Carried
  <2>5. IF toServer[1] = "send" THEN Asked(sj) ELSE sj < cj
    <3>1. 1 \in 1 .. Len(toServer) /\ Heard + 1 = sj
      BY <2>2, <2>3, <1>1, <1>2
    <3> QED
      BY <3>1, <1>5
  <2>6. sj <= cj
    BY <2>5, <1>1 DEF Asked
  <2>7. Decided' = Heard' + Len(toServer')
    BY <2>2, <2>3, <1>1, <1>2, <1>5, <1>7
  <2>8. ASSUME NEW k \in 1 .. Len(toServer')
        PROVE  IF toServer'[k] = "send" THEN Asked(Heard' + k) ELSE Heard' + k < cj
    <3>1. k + 1 \in 1 .. Len(toServer) /\ Heard + (k + 1) = Heard' + k
      BY <2>2, <2>3, <1>1, <1>2
    <3>2. toServer'[k] = toServer[k + 1]
      BY <2>2
    <3> QED
      BY <3>1, <3>2, <1>5
  <2>9. server' = "open" => Asked(sj')
    BY <2>1, <2>5
  <2>10. Due => Carried' = IF sj' > cj THEN Wanted.size ELSE 0
    BY <2>1, <2>4, <2>5, <2>6, <1>1, <1>5
  <2>11. ~(server' = "copy") /\ manifest' # "unsent"
    BY <2>1, <1>5
  <2> QED
    BY <2>7, <2>8, <2>9, <2>10, <2>11, <1>6, <1>7 DEF Positions
<1>12. CASE CopyByte
  <2>1. server = "copy" /\ manifest' = manifest /\ toServer' = toServer /\ manifest # "unsent"
    BY <1>12, <1>5 DEF CopyByte
  <2>2. sj <= Len(entries) /\ entries[sj].size \in Nat /\ sent <= entries[sj].size
    BY <2>1, <1>1 DEF TypeInv, TypeOK
  <2>3. CASE /\ ~broken /\ sent < entries[sj].size
             /\ sent' = sent + 1 /\ server' = server /\ sj' = sj
             /\ Len(toClient') = Len(toClient) + 1
    <3>1. Due /\ sj = cj /\ Carried = sent
      BY <2>1, <2>3, <1>1, <1>5
    <3>2. Heard' = Heard /\ Carried' = Carried + 1
      BY <2>3, <1>3, <1>7 DEF Heard, Carried
    <3> QED
      BY <2>1, <2>3, <3>1, <3>2, <1>1, <1>5, <1>6, <1>7 DEF Positions
  <2>4. CASE /\ sent = entries[sj].size /\ server' = "decision" /\ sj' = sj + 1 /\ sent' = 0
             /\ toClient' = toClient
    <3>1. Heard = sj /\ Heard' = sj /\ Carried' = Carried
      BY <2>1, <2>4, <1>1, <1>7 DEF Heard, Carried
    <3>2. Due => Carried' = IF sj' > cj THEN Wanted.size ELSE 0
      BY <2>1, <2>4, <3>1, <1>1, <1>5 DEF Wanted
    <3> QED
      BY <2>1, <2>4, <3>1, <3>2, <1>5, <1>6, <1>7 DEF Positions
  <2> QED
    BY <2>3, <2>4, <1>12, CopyShape DEF CopyByte
<1> QED
  BY <1>8, <1>9, <1>10, <1>11, <1>12 DEF ServerStep

LEMMA PositionsKeptByClient ==
  ASSUME TypeInv, ManifestFits, NothingSpare, Positions, ClientStep \/ ClientFails
  PROVE  Positions'
<1> USE DEF Over, diskVars, serverVars, wireVars
<1>1. /\ sj \in Nat /\ cj \in Nat /\ sent \in Nat /\ cj >= 1 /\ sj >= 1
      /\ Len(toServer) \in Nat /\ toServer \in Seq({"send", "skip"})
  BY EntryFacts, LenProperties DEF TypeInv, TypeOK
<1>2. Carried \in Nat /\ Carried = Have + Len(toClient) /\ Have \in Nat /\ Len(toClient) \in Nat
  BY CarriedType DEF Carried
<1>3. /\ UNCHANGED serverVars /\ broken' = broken
      /\ client \notin Over
  BY DEF ClientStep, ReadManifest, Decide, Create, Receive, Rename, ClientFinishes, ClientFails
<1> SUFFICES ASSUME ~broken, client' \notin Over, server # "error"
             PROVE  Positions'
  BY <1>3 DEF Positions
<1>4. /\ Decided = Heard + Len(toServer)
      /\ \A k \in 1 .. Len(toServer) :
           IF toServer[k] = "send" THEN Asked(Heard + k) ELSE Heard + k < cj
      /\ server = "open" => Asked(sj)
      /\ server = "copy" => (Due /\ sj = cj) \/ (sj < cj /\ sent = entries[sj].size)
      /\ Due => Carried = IF sj > cj THEN Wanted.size
                          ELSE IF sj = cj /\ server = "copy" THEN sent ELSE 0
      /\ server \in {"decision", "open", "copy", "ok"} => manifest # "unsent"
  BY <1>3 DEF Positions
<1>5. Heard' = Heard /\ Heard \in Int
  BY <1>1, <1>3 DEF Heard
<1>6. CASE ReadManifest
  <2>1. client = "manifest" /\ client' = "decide" /\ manifest' = "read" /\ UNCHANGED <<cj, toServer>>
    BY <1>6 DEF ReadManifest
  <2>2. ~Due /\ ~Due' /\ Decided' = Decided
    BY <2>1 DEF Due, Decided
  <2>3. \A n : Asked(n)' = Asked(n)
    BY <1>3, <2>1, <2>2 DEF Asked
  <2> QED
    BY <2>1, <2>2, <2>3, <1>3, <1>4, <1>5 DEF Positions
<1>7. CASE Decide
  <2>1. client = "decide" /\ cj <= Len(entries) /\ toClient = <<>> /\ toClient' = <<>> /\ manifest' = manifest
    BY <1>7 DEF Decide, NothingSpare
  <2>2. \/ toServer' = Append(toServer, "send") /\ client' = "create" /\ cj' = cj
        \/ toServer' = Append(toServer, "skip") /\ client' = "decide" /\ cj' = cj + 1
    BY <1>7, <2>1 DEF Decide
  <2>3. ~Due /\ Decided = cj - 1 /\ Decided' = cj
    BY <2>1, <2>2, <1>1 DEF Due, Decided
  <2>4. /\ Len(toServer') = Len(toServer) + 1
        /\ \A k \in 1 .. Len(toServer) : toServer'[k] = toServer[k]
        /\ toServer'[Len(toServer) + 1] = IF client' = "create" THEN "send" ELSE "skip"
    BY <2>2, <1>1, AppendProperties
  <2>5. Decided' = Heard' + Len(toServer')
    BY <2>3, <2>4, <1>1, <1>4, <1>5
  <2>6. Heard + Len(toServer) + 1 = cj
    BY <2>3, <1>1, <1>4, <1>5
  <2>7. cj' >= cj /\ cj' \in Nat /\ (Due' => cj' = cj) /\ (~Due' => cj' = cj + 1) /\ (Due' <=> client' = "create")
    BY <2>2, <1>1 DEF Due
  <2> DEFINE AskedNext(n) == IF Due' /\ n = cj' THEN TRUE ELSE n < cj' /\ entries[n].size = 0
  <2>8. ASSUME NEW n \in Int, Asked(n)
        PROVE  AskedNext(n)
    BY <2>3, <2>7, <2>8, <1>1 DEF Asked
  <2>9. ASSUME NEW k \in 1 .. Len(toServer')
        PROVE  IF toServer'[k] = "send" THEN AskedNext(Heard' + k) ELSE Heard' + k < cj'
    <3>1. CASE k \in 1 .. Len(toServer)
      <4>1. Heard + k \in Int /\ toServer'[k] = toServer[k]
        BY <3>1, <2>4, <1>1, <1>5
      <4>2. IF toServer[k] = "send" THEN Asked(Heard + k) ELSE Heard + k < cj
        BY <3>1, <1>4
      <4>3. CASE toServer[k] = "send"
        <5>1. AskedNext(Heard + k)
          BY <4>1, <4>2, <4>3, <2>8
        <5> QED
          BY <5>1, <4>1, <4>3, <1>5
      <4>4. CASE toServer[k] # "send"
        BY <4>1, <4>2, <4>4, <2>7, <1>1, <1>5
      <4> QED
        BY <4>3, <4>4
    <3>2. CASE k = Len(toServer) + 1
      <4>1. Heard + k = cj /\ Heard' + k = cj
        BY <3>2, <2>6, <1>1, <1>5
      <4>2. CASE client' = "create"
        <5>1. Due' /\ cj' = cj /\ toServer'[k] = "send"
          BY <4>2, <3>2, <2>4, <2>7
        <5> QED
          BY <5>1, <4>1
      <4>3. CASE client' # "create"
        <5>1. toServer'[k] = "skip" /\ cj < cj'
          BY <4>3, <3>2, <2>4, <2>7, <1>1
        <5> QED
          BY <5>1, <4>1
      <4> QED
        BY <4>2, <4>3
    <3> QED
      BY <3>1, <3>2, <2>4, <1>1
  <2>10. server = "open" => AskedNext(sj)
    BY <2>8, <1>1, <1>4
  <2>11. server = "copy" => sj < cj' /\ sent = entries[sj].size
    BY <2>3, <2>7, <1>1, <1>4
  <2>12. Due' => Carried' = 0 /\ sj <= cj' /\ ~(sj = cj' /\ server = "copy")
    <3>1. Len(<<>>) = 0
      OBVIOUS
    <3>2. Due' => Have' = 0
      BY <2>7 DEF Have
    <3>3. Due' => Carried' = 0
      BY <2>1, <3>1, <3>2 DEF Carried
    <3>4. sj <= cj /\ (server = "copy" => sj < cj)
      BY <2>3, <2>6, <1>1, <1>4 DEF Heard
    <3> QED
      BY <3>3, <3>4, <2>7, <1>1
  <2>13. UNCHANGED <<server, sj, sent, entries>>
    BY <1>3
  <2>14. \A k \in 1 .. Len(toServer') :
           IF toServer'[k] = "send" THEN Asked(Heard + k)' ELSE Heard' + k < cj'
    BY <2>9, <2>13 DEF Asked
  <2>15. server' = "open" => Asked(sj)'
    BY <2>10, <2>13 DEF Asked
  <2> HIDE DEF AskedNext
  <2>16. Due' => Carried' = IF sj' > cj' THEN Wanted.size'
                           ELSE IF sj' = cj' /\ server' = "copy" THEN sent' ELSE 0
    BY <2>12, <2>13, <2>7, <1>1
  <2>17. server' = "copy" => sj' < cj' /\ sent' = entries'[sj'].size
    BY <2>11, <2>13
  <2>18. server' \in {"decision", "open", "copy", "ok"} => manifest' # "unsent"
    BY <2>1, <2>13, <1>4
  <2> QED
    BY <2>5, <2>14, <2>15, <2>16, <2>17, <2>18 DEF Positions
<1>8. CASE Create
  <2>1. client = "create" /\ client' = "receive" /\ UNCHANGED <<cj, toServer, toClient, manifest>>
        /\ part' = [part EXCEPT ![Wanted.path] = <<>>] /\ Wanted.path \in File
    BY <1>8, WantedFacts DEF Create, Wanted, TypeInv, WorkFits
  <2>2. Due /\ Due' /\ Decided' = Decided /\ Wanted' = Wanted
    BY <1>3, <2>1 DEF Due, Decided, Wanted
  <2>3. \A n : Asked(n)' = Asked(n)
    BY <1>3, <2>1, <2>2 DEF Asked
  <2>4. part'[Wanted.path] = <<>> /\ Len(<<>>) = 0
    BY <2>1 DEF TypeInv, TypeOK
  <2>5. Have = 0 /\ Have' = 0
    BY <2>1, <2>2, <2>4 DEF Have
  <2>6. Carried' = Carried
    BY <2>1, <2>5 DEF Carried
  <2> QED
    BY <2>1, <2>2, <2>3, <2>6, <1>3, <1>4, <1>5 DEF Positions
<1>9. CASE Receive
  <2>1. /\ client = "receive" /\ client' = client /\ Wanted' = Wanted
        /\ Have' = Have + 1 /\ Len(toClient') = Len(toClient) - 1
    BY <1>9, ReceiveShape
  <2>2. UNCHANGED <<cj, toServer, manifest>>
    BY <1>9 DEF Receive
  <2>3. Due' = Due /\ Decided' = Decided
    BY <2>1, <2>2 DEF Due, Decided
  <2>4. \A n : Asked(n)' = Asked(n)
    BY <1>3, <2>2, <2>3 DEF Asked
  <2>5. Carried' = Carried
    BY <2>1, <1>2 DEF Carried
  <2> QED
    BY <2>1, <2>2, <2>3, <2>4, <2>5, <1>3, <1>4, <1>5 DEF Positions
<1>10. CASE Rename
  <2>1. /\ client = "receive" /\ client' = "decide" /\ cj' = cj + 1 /\ ~Missing
        /\ UNCHANGED <<toServer, toClient, manifest>> /\ cj <= Len(entries)
    BY <1>10, PartFacts DEF Rename
  <2>2. Due /\ ~Due' /\ Decided = cj /\ Decided' = cj
    BY <2>1, <1>1 DEF Due, Decided
  <2>3. Carried = Wanted.size /\ Wanted.size \in Nat /\ Wanted = entries[cj]
    <3>1. Wanted.size \in Nat
      BY <2>1, WantedFacts DEF TypeInv
    <3>2. Have >= Wanted.size
      BY <2>1, <3>1, <1>2 DEF Missing, Have
    <3>3. Carried <= Wanted.size
      BY <2>2 DEF NothingSpare
    <3> QED
      BY <3>1, <3>2, <3>3, <1>2 DEF Wanted
  <2>4. ASSUME NEW n \in Int, Asked(n), n = cj => entries[cj].size = 0
        PROVE  n < cj' /\ entries[n].size = 0
    BY <2>1, <2>4, <1>1 DEF Asked
  <2>5. sj <= cj /\ server # "copy" => entries[cj].size = 0
    BY <2>2, <2>3, <1>1, <1>4
  <2>7. ASSUME NEW k \in 1 .. Len(toServer)
        PROVE  IF toServer[k] = "send" THEN Heard + k < cj' /\ entries[Heard + k].size = 0
                                       ELSE Heard + k < cj'
    <3>1. Heard + k \in Int /\ Heard < cj
      BY <2>2, <1>1, <1>4, <1>5
    <3>2. entries[cj].size = 0
      <4>1. CASE server \in {"open", "copy"}
        <5>1. sj < cj
          BY <3>1, <4>1 DEF Heard
        <5> QED
          BY <5>1, <2>2, <2>3, <1>1, <1>4
      <4>2. CASE server \notin {"open", "copy"}
        <5>1. sj <= cj
          BY <3>1, <4>2, <1>1 DEF Heard
        <5> QED
          BY <5>1, <4>2, <2>5
      <4> QED
        BY <4>1, <4>2
    <3>3. IF toServer[k] = "send" THEN Asked(Heard + k) ELSE Heard + k < cj
      BY <1>4
    <3>4. CASE toServer[k] = "send"
      BY <3>1, <3>2, <3>3, <3>4, <2>4
    <3>5. CASE toServer[k] # "send"
      BY <3>1, <3>3, <3>5, <2>1, <1>1
    <3> QED
      BY <3>4, <3>5
  <2>6. server = "open" => sj < cj' /\ entries[sj].size = 0
    <3>1. ASSUME server = "open" PROVE sj < cj' /\ entries[sj].size = 0
      <4>1. Asked(sj) /\ sj <= cj
        BY <3>1, <1>1, <1>4 DEF Asked
      <4>2. entries[cj].size = 0
        BY <3>1, <4>1, <2>5
      <4> QED
        BY <4>1, <4>2, <2>4, <1>1
    <3> QED
      BY <3>1
  <2>8. server = "copy" => sj < cj' /\ sent = entries[sj].size
    BY <2>1, <2>2, <2>3, <1>1, <1>4
  <2> QED
    BY <2>1, <2>2, <2>6, <2>7, <2>8, <1>3, <1>4, <1>5 DEF Positions, Asked
<1> QED
  BY <1>6, <1>7, <1>8, <1>9, <1>10 DEF ClientStep, ClientFinishes, ClientFails

LEMMA PositionsKept ==
  ASSUME TypeInv, ManifestFits, NothingSpare, Positions, [Next]_vars
  PROVE  Positions'
<1> USE DEF diskVars, serverVars, clientVars, wireVars
<1>1. CASE Edit \/ UNCHANGED vars
  BY <1>1, PositionsStay DEF Edit, vars
<1>2. CASE Connect
  <2>1. /\ client' = "manifest" /\ cj' = 1 /\ sj' = 1 /\ server' = "stat"
        /\ toServer' = <<>> /\ toClient' = <<>>
    BY <1>2 DEF Connect
  <2>2. ~Due' /\ Decided' = 0 /\ Heard' = 0 /\ Len(toServer') = 0
    BY <2>1 DEF Due, Decided, Heard
  <2> QED
    BY <2>1, <2>2 DEF Positions
<1>3. CASE Break
  BY <1>3 DEF Break, Positions
<1> QED
  BY <1>1, <1>2, <1>3, PositionsKeptByServer, PositionsKeptByClient DEF Next

(* All that follows rests on these.                                          *)
StepInv == TypeInv /\ ManifestFits /\ NothingSpare /\ Positions

THEOREM StepInvariant == Spec => []StepInv
<1>1. Init => StepInv
  <2>1. Init => TypeInv
    BY TypesBegin
  <2>2. Init => ManifestFits /\ NothingSpare /\ Positions
    BY DEF Init, ServerIdle, Over, ManifestFits, NothingSpare, Positions, Due
  <2> QED
    BY <2>1, <2>2 DEF StepInv
<1>2. StepInv /\ [Next]_vars => StepInv'
  BY TypesKept, ManifestKept, SpareKept, PositionsKept DEF StepInv
<1> QED
  BY <1>1, <1>2, PTL DEF Spec

(* What each side may wait for: the manifest or a byte; a decision.          *)
ClientWaits ==
  \/ client = "manifest" /\ manifest = "unsent"
  \/ client = "receive" /\ Missing /\ toClient = <<>>

ServerWaits == server = "decision" /\ sj <= Len(entries) /\ toServer = <<>>

NeverBothWait == ~broken => ~(ClientWaits /\ ServerWaits)

(* Download and handleConn never wait for each other at the same time,       *)
(* whatever the files and sizes: a server that waits for a decision has sent *)
(* all that the decisions so far asked for.                                  *)
THEOREM TransferNeverBothWait == Spec => []NeverBothWait
<1>1. StepInv => NeverBothWait
  <2> SUFFICES ASSUME StepInv, ~broken, ClientWaits, ServerWaits PROVE FALSE
    BY DEF NeverBothWait
  <2>1. /\ server = "decision" /\ toServer = <<>> /\ Len(toServer) = 0
        /\ client \in {"manifest", "receive"} /\ client \notin Over
    BY DEF ServerWaits, ClientWaits, Over
  <2>2. Positions /\ TypeInv
    BY DEF StepInv
  <2>3. manifest # "unsent" /\ Decided = Heard + 0
    BY <2>1, <2>2 DEF Positions
  <2>4. client = "receive" /\ Missing /\ toClient = <<>>
    BY <2>3 DEF ClientWaits
  <2>5. Due /\ Decided = cj /\ Heard = sj - 1 /\ cj \in Nat /\ sj \in Nat
    BY <2>1, <2>2, <2>4, EntryFacts DEF Due, Decided, Heard, TypeInv
  <2>6. sj > cj
    BY <2>3, <2>5
  <2>7. Carried = Wanted.size
    BY <2>1, <2>2, <2>5, <2>6 DEF Positions
  <2>8. Have = Len(part[Wanted.path]) /\ Have \in Nat /\ Len(toClient) = 0
    BY <2>2, <2>4, CarriedType DEF Have
  <2>9. Len(part[Wanted.path]) = Wanted.size
    BY <2>7, <2>8 DEF Carried
  <2>10. Len(part[Wanted.path]) < Wanted.size
    BY <2>4 DEF Missing
  <2> QED
    BY <2>8, <2>9, <2>10
<1> QED
  BY <1>1, StepInvariant, PTL

(* The client that ends well has read all that will be sent, the server that *)
(* ends well all decisions, and every byte the client still needs is on the  *)
(* wire.                                                                     *)
EndsTogether ==
  /\ ClientFinishes =>
       /\ toClient = <<>>
       /\ ~broken /\ server = "open" => entries[sj].size = 0
       /\ ~broken /\ server = "copy" => sent = entries[sj].size
  /\ ServerFinishes /\ ~ClientGone =>
       /\ toServer = <<>> /\ Decided = Len(entries)
       /\ Due => Carried = Wanted.size

(* The side of a session that ends well first neither misses what the other  *)
(* still sends nor keeps back what the other still needs.                    *)
THEOREM TransferEndsTogether == Spec => [][EndsTogether]_vars
<1>1. StepInv => EndsTogether
  <2> SUFFICES ASSUME StepInv PROVE EndsTogether
    OBVIOUS
  <2>1. TypeInv /\ NothingSpare /\ Positions
    BY DEF StepInv
  <2>2. /\ cj \in Nat /\ sj \in Nat /\ Len(entries) \in Nat
        /\ cj <= Len(entries) + 1 /\ sj <= Len(entries) + 1
    BY <2>1, EntryFacts DEF TypeInv
  <2>3. ASSUME ClientFinishes
        PROVE  /\ toClient = <<>>
               /\ ~broken /\ server = "open" => entries[sj].size = 0
               /\ ~broken /\ server = "copy" => sent = entries[sj].size
    <3>1. client = "decide" /\ client \notin Over /\ ~Due
      BY <2>3 DEF ClientFinishes, Over, Due
    <3> QED
      BY <2>1, <3>1 DEF NothingSpare, Positions, Asked
  <2>4. ASSUME ServerFinishes, ~ClientGone
        PROVE  /\ toServer = <<>> /\ Decided = Len(entries)
               /\ Due => Carried = Wanted.size
    <3>1. server = "decision" /\ sj > Len(entries) /\ ~broken /\ client \notin Over
      BY <2>4 DEF ServerFinishes, ClientGone
    <3>2. /\ Decided = Heard + Len(toServer)
          /\ Due => Carried = IF sj > cj THEN Wanted.size
                              ELSE IF sj = cj /\ server = "copy" THEN sent ELSE 0
      BY <2>1, <3>1 DEF Positions
    <3>3. Heard = Len(entries)
      BY <2>2, <3>1 DEF Heard
    <3>4. Due => cj <= Len(entries)
      BY <2>1 DEF Due, TypeInv, WorkFits
    <3>5. Decided <= Len(entries)
      BY <2>2, <3>4 DEF Decided
    <3>6. Len(toServer) \in Nat /\ (Len(toServer) = 0 => toServer = <<>>)
      BY <2>1, LenProperties, EmptySeq DEF TypeInv, TypeOK
    <3>7. Len(toServer) = 0 /\ Decided = Len(entries)
      BY <2>2, <3>2, <3>3, <3>5, <3>6
    <3>8. Due => sj > cj
      BY <2>2, <3>1, <3>4
    <3> QED
      BY <3>2, <3>6, <3>7, <3>8
  <2> QED
    BY <2>3, <2>4 DEF EndsTogether
<1> QED
  BY <1>1, StepInvariant, PTL DEF Spec

-----------------------------------------------------------------------------
(* The manifest is that of the list and of the files.                        *)

(* Only the scan works on the manifest.                                      *)
LEMMA ScanShape ==
  ASSUME [Next]_vars
  PROVE  \/ Edit \/ Connect \/ StatFile \/ HashFile
         \/ UNCHANGED <<src, quiet, entries, si, size>> /\ (server' = "hash" <=> server = "hash")
<1> USE DEF diskVars, serverVars, clientVars, wireVars
<1>1. CASE ServerStep
  BY <1>1 DEF ServerStep, WriteManifest, ReadDecision, OpenFile, CopyByte, ServerFinishes
<1>2. CASE ClientStep \/ ClientFails
  BY <1>2 DEF ClientStep, ReadManifest, Decide, Create, Receive, Rename, ClientFinishes,
              ClientFails
<1>3. CASE Break \/ UNCHANGED vars
  BY <1>3 DEF Break, vars
<1> QED
  BY <1>1, <1>2, <1>3 DEF Next

LEMMA HashShape ==
  ASSUME TypeInv, HashFile
  PROVE  \/ /\ si <= Len(List) /\ List[si] \in File /\ si' = si + 1 /\ server' = "stat"
            /\ Len(entries') = Len(entries) + 1
            /\ \A k \in 1 .. Len(entries) : entries'[k] = entries[k]
            /\ entries'[Len(entries) + 1].path = List[si]
            /\ entries'[Len(entries) + 1].size = size
            /\ entries'[Len(entries) + 1].hash = src[List[si]]
            /\ src[List[si]] # Absent
         \/ server' = "error" /\ src[List[si]] = Absent /\ UNCHANGED <<si, size, entries>>
<1>1. entries \in Seq(Entry) /\ src \in [File -> Content \cup {Absent}]
  BY DEF TypeInv, TypeOK
<1>2. si <= Len(List) /\ List[si] \in File /\ size \in Size
  BY DEF TypeInv, WorkFits, HashFile
<1>3. CASE server' = "error" /\ src[List[si]] = Absent /\ UNCHANGED <<si, size, entries>>
  BY <1>3
<1>4. CASE /\ src[List[si]] # Absent
           /\ entries' = Append(entries, [path |-> List[si], size |-> size, hash |-> src[List[si]]])
           /\ server' = "stat" /\ si' = si + 1 /\ size' = 0
  <2> DEFINE e == [path |-> List[si], size |-> size, hash |-> src[List[si]]]
  <2>1. /\ e \in Entry /\ e.path = List[si] /\ e.size = size /\ e.hash = src[List[si]]
        /\ entries' = Append(entries, e)
    BY <1>1, <1>2, <1>4 DEF Entry
  <2> HIDE DEF e
  <2>2. /\ Len(entries') = Len(entries) + 1
        /\ \A k \in 1 .. Len(entries) : entries'[k] = entries[k]
        /\ entries'[Len(entries) + 1] = e
    BY <2>1, <1>1, AppendProperties
  <2> QED
    BY <2>1, <2>2, <1>2, <1>4
<1> QED
  BY <1>3, <1>4 DEF HashFile

LEMMA EntriesKept ==
  ASSUME TypeInv, EntriesFit, [Next]_vars
  PROVE  EntriesFit'
<1>1. /\ si \in Nat /\ si >= 1 /\ Len(entries) \in Nat
      /\ \A k \in 1 .. Len(entries) : entries[k].path \in File
  BY EntryFacts DEF TypeInv
<1>2. /\ \A k \in 1 .. Len(entries) : \E n \in Scanned : List[n] = entries[k].path
      /\ \A n \in Scanned : List[n] \in File => \E k \in 1 .. Len(entries) : entries[k].path = List[n]
      /\ \A j, k \in 1 .. Len(entries), m, n \in Scanned :
           j < k /\ List[m] = entries[j].path /\ List[n] = entries[k].path => m < n
  BY DEF EntriesFit
<1>3. Len(List) \in Nat /\ File \cap Dir = {} /\ \A m, n \in 1 .. Len(List) : List[m] = List[n] => m = n
  BY TransferAssumption, ContentFacts
<1>4. Scanned = {n \in 1 .. Len(List) : n < si} /\ Scanned' = {n \in 1 .. Len(List) : n < si'}
  BY DEF Scanned
<1>5. CASE UNCHANGED <<entries, si>>
  BY <1>5 DEF EntriesFit, Scanned
<1>6. CASE Connect
  <2>1. Scanned' = {} /\ Len(entries') = 0
    BY <1>6, <1>4 DEF Connect
  <2> QED
    BY <2>1 DEF EntriesFit
<1>7. CASE StatFile /\ si' # si
  <2>1. si <= Len(List) /\ List[si] \in Dir /\ si' = si + 1 /\ entries' = entries
    BY <1>7 DEF StatFile
  <2>2. Scanned' = Scanned \cup {si} /\ List[si] \notin File
    BY <2>1, <1>1, <1>3, <1>4
  <2>3. \A k \in 1 .. Len(entries') : \E n \in Scanned' : List[n] = entries'[k].path
    BY <2>1, <2>2, <1>2
  <2>4. \A n \in Scanned' : List[n] \in File => \E k \in 1 .. Len(entries') : entries'[k].path = List[n]
    BY <2>1, <2>2, <1>2
  <2>5. \A j, k \in 1 .. Len(entries'), m, n \in Scanned' :
           j < k /\ List[m] = entries'[j].path /\ List[n] = entries'[k].path => m < n
    <3> SUFFICES ASSUME NEW j \in 1 .. Len(entries), NEW k \in 1 .. Len(entries),
                        NEW m \in Scanned', NEW n \in Scanned',
                        j < k, List[m] = entries[j].path, List[n] = entries[k].path
                 PROVE  m < n
      BY <2>1
    <3>1. m \in Scanned /\ n \in Scanned
      BY <2>2, <1>1
    <3> QED
      BY <3>1, <1>2
  <2> QED
    BY <2>3, <2>4, <2>5 DEF EntriesFit
<1>8. CASE HashFile /\ si' # si
  <2>1. /\ si <= Len(List) /\ List[si] \in File /\ si' = si + 1
        /\ Len(entries') = Len(entries) + 1
        /\ \A k \in 1 .. Len(entries) : entries'[k] = entries[k]
        /\ entries'[Len(entries) + 1].path = List[si]
    BY <1>8, HashShape
  <2>2. Scanned' = Scanned \cup {si} /\ si \in Scanned'
    BY <2>1, <1>1, <1>3, <1>4
  <2>3. \A k \in 1 .. Len(entries') : \E n \in Scanned' : List[n] = entries'[k].path
    <3> SUFFICES ASSUME NEW k \in 1 .. Len(entries')
                 PROVE  \E n \in Scanned' : List[n] = entries'[k].path
      OBVIOUS
    <3>1. CASE k \in 1 .. Len(entries)
      BY <3>1, <2>1, <2>2, <1>2, SMTT(60)
    <3>2. CASE k = Len(entries) + 1
      BY <3>2, <2>1, <2>2
    <3> QED
      BY <3>1, <3>2, <2>1, <1>1
  <2>4. \A n \in Scanned' : List[n] \in File => \E k \in 1 .. Len(entries') : entries'[k].path = List[n]
    <3> SUFFICES ASSUME NEW n \in Scanned', List[n] \in File
                 PROVE  \E k \in 1 .. Len(entries') : entries'[k].path = List[n]
      OBVIOUS
    <3>1. CASE n \in Scanned
      <4>1. PICK k \in 1 .. Len(entries) : entries[k].path = List[n]
        BY <3>1, <1>2
      <4>2. k \in 1 .. Len(entries') /\ entries'[k].path = List[n]
        BY <4>1, <2>1, <1>1
      <4> QED
        BY <4>2
    <3>2. CASE n = si
      <4>1. Len(entries) + 1 \in 1 .. Len(entries')
        BY <2>1, <1>1
      <4> QED
        BY <4>1, <3>2, <2>1
    <3> QED
      BY <3>1, <3>2, <2>2
  <2>5. \A j, k \in 1 .. Len(entries'), m, n \in Scanned' :
           j < k /\ List[m] = entries'[j].path /\ List[n] = entries'[k].path => m < n
    <3> SUFFICES ASSUME NEW j \in 1 .. Len(entries'), NEW k \in 1 .. Len(entries'),
                        NEW m \in Scanned', NEW n \in Scanned',
                        j < k, List[m] = entries'[j].path, List[n] = entries'[k].path
                 PROVE  m < n
      OBVIOUS
    <3>1. j \in 1 .. Len(entries) /\ List[m] = entries[j].path
      BY <2>1, <1>1, SMTT(60)
    <3>2. m \in Scanned /\ m < si /\ m \in 1 .. Len(List) /\ n \in 1 .. Len(List)
      <4>1. PICK l \in Scanned : List[l] = entries[j].path
        BY <3>1, <1>2
      <4>2. l \in 1 .. Len(List) /\ m \in 1 .. Len(List) /\ n \in 1 .. Len(List) /\ l < si
        BY <1>4
      <4>3. m = l
        BY <4>1, <4>2, <3>1, <1>3
      <4> QED
        BY <4>2, <4>3
    <3>3. CASE k \in 1 .. Len(entries)
      <4>1. List[n] = entries[k].path
        BY <3>3, <2>1
      <4>2. PICK l \in Scanned : List[l] = entries[k].path
        BY <3>3, <1>2
      <4>3. n = l
        BY <4>1, <4>2, <3>2, <1>3, <1>4
      <4> QED
        BY <4>1, <4>2, <4>3, <3>1, <3>2, <3>3, <1>2
    <3>4. CASE k = Len(entries) + 1
      <4>1. List[n] = List[si] /\ si \in 1 .. Len(List)
        BY <3>4, <2>1, <1>1, <1>3
      <4>2. n = si
        BY <4>1, <3>2, <1>3
      <4> QED
        BY <4>2, <3>2
    <3>5. k \in 1 .. Len(entries) \/ k = Len(entries) + 1
      BY <2>1, <1>1, SMTT(60)
    <3> QED
      BY <3>3, <3>4, <3>5
  <2> QED
    BY <2>3, <2>4, <2>5 DEF EntriesFit
<1>9. (Edit => UNCHANGED <<entries, si>>) /\ (StatFile /\ si' = si => entries' = entries)
  BY DEF Edit, StatFile, serverVars
<1>10. HashFile /\ si' = si => entries' = entries
  BY <1>1, HashShape
<1> QED
  BY <1>5, <1>6, <1>7, <1>8, <1>9, <1>10, ScanShape

LEMMA QuietKept ==
  ASSUME TypeInv, QuietFits, [Next]_vars
  PROVE  QuietFits'
<1>1. Len(entries) \in Nat /\ si \in Nat
  BY EntryFacts DEF TypeInv
<1>2. CASE Edit
  BY <1>2 DEF Edit, QuietFits
<1>3. CASE Connect
  <2>1. server' = "stat" /\ Len(entries') = 0
    BY <1>3 DEF Connect
  <2> QED
    BY <2>1 DEF QuietFits
<1>4. CASE StatFile
  <2>1. UNCHANGED <<src, quiet, entries>>
    BY <1>4 DEF StatFile, diskVars
  <2>2. server' = "hash" => size' = Len(src[List[si]]) /\ si' = si
    BY <1>4 DEF StatFile
  <2> QED
    BY <2>1, <2>2 DEF QuietFits
<1>5. CASE HashFile
  <2>1. UNCHANGED <<src, quiet>> /\ server = "hash"
    BY <1>5 DEF HashFile, diskVars
  <2>2. CASE server' = "error" /\ UNCHANGED <<si, size, entries>>
    BY <2>1, <2>2 DEF QuietFits
  <2>3. CASE /\ server' = "stat" /\ Len(entries') = Len(entries) + 1
             /\ \A k \in 1 .. Len(entries) : entries'[k] = entries[k]
             /\ entries'[Len(entries) + 1].path = List[si]
             /\ entries'[Len(entries) + 1].size = size
             /\ entries'[Len(entries) + 1].hash = src[List[si]]
             /\ src[List[si]] # Absent
    <3> SUFFICES ASSUME quiet, NEW k \in 1 .. Len(entries')
                 PROVE  /\ entries'[k].hash = src[entries'[k].path]
                        /\ entries'[k].size = Len(src[entries'[k].path])
      BY <2>1, <2>3 DEF QuietFits
    <3>1. CASE k \in 1 .. Len(entries)
      BY <3>1, <2>3 DEF QuietFits
    <3>2. CASE k = Len(entries) + 1
      <4>1. size = Len(src[List[si]])
        BY <2>1, <2>3 DEF QuietFits
      <4> QED
        BY <4>1, <3>2, <2>3
    <3> QED
      BY <3>1, <3>2, <2>3, <1>1
  <2> QED
    BY <2>2, <2>3, <1>5, HashShape
<1>6. CASE UNCHANGED <<src, quiet, entries, si, size>> /\ (server' = "hash" <=> server = "hash")
  BY <1>6 DEF QuietFits
<1> QED
  BY <1>2, <1>3, <1>4, <1>5, <1>6, ScanShape

-----------------------------------------------------------------------------
(* With the directories last, what is opened is what was announced.          *)

LEMMA PathsKept ==
  ASSUME DirsLast, TypeInv, PathsFit, [Next]_vars
  PROVE  PathsFit'
<1>1. si \in Nat /\ si >= 1 /\ Len(entries) \in Nat
  BY EntryFacts DEF TypeInv
<1>2. /\ Len(List) \in Nat /\ File \cap Dir = {}
      /\ \A n \in 1 .. Len(List) : List[n] \in File \cup Dir
  BY TransferAssumption, ContentFacts
<1>3. Scanned = {n \in 1 .. Len(List) : n < si} /\ Scanned' = {n \in 1 .. Len(List) : n < si'}
  BY DEF Scanned
<1>4. CASE UNCHANGED <<entries, si>>
  BY <1>4 DEF PathsFit, Scanned
<1>5. CASE Connect
  <2>1. si' = 1 /\ Len(entries') = 0
    BY <1>5 DEF Connect
  <2> QED
    BY <2>1 DEF PathsFit
<1>6. CASE StatFile /\ si' # si
  <2>1. si <= Len(List) /\ List[si] \in Dir /\ si' = si + 1 /\ entries' = entries
    BY <1>6 DEF StatFile
  <2>2. si \in Scanned' /\ List[si] \notin File
    BY <2>1, <1>1, <1>2, <1>3
  <2> QED
    BY <2>1, <2>2 DEF PathsFit
<1>7. CASE HashFile /\ si' # si
  <2>1. /\ si <= Len(List) /\ List[si] \in File /\ si' = si + 1
        /\ Len(entries') = Len(entries) + 1
        /\ \A k \in 1 .. Len(entries) : entries'[k] = entries[k]
        /\ entries'[Len(entries) + 1].path = List[si]
    BY <1>7, HashShape
  <2>2. ASSUME NEW n \in Scanned
        PROVE  List[n] \in File
    <3>1. n \in 1 .. Len(List) /\ si \in 1 .. Len(List) /\ n < si /\ n \in Nat
      BY <2>1, <1>1, <1>2, <1>3
    <3>2. List[n] \notin Dir
      BY <3>1, <2>1, <1>1 DEF DirsLast
    <3> QED
      BY <3>1, <3>2, <1>2
  <2>3. Len(entries) = si - 1
    BY <2>2 DEF PathsFit
  <2>4. ASSUME NEW k \in 1 .. Len(entries')
        PROVE  entries'[k].path = List[k]
    <3>1. CASE k \in 1 .. Len(entries)
      BY <3>1, <2>1 DEF PathsFit
    <3>2. CASE k = si
      BY <3>2, <2>1, <2>3, <1>1
    <3>3. k \in 1 .. Len(entries) \/ k = si
      BY <2>1, <2>3, <1>1, SMTT(60)
    <3> QED
      BY <3>1, <3>2, <3>3
  <2>5. Len(entries') = si' - 1
    BY <2>1, <2>3, <1>1
  <2> QED
    BY <2>4, <2>5 DEF PathsFit
<1>8. (Edit => UNCHANGED <<entries, si>>) /\ (StatFile /\ si' = si => entries' = entries)
  BY DEF Edit, StatFile, serverVars
<1>9. HashFile /\ si' = si => entries' = entries
  BY <1>1, HashShape
<1> QED
  BY <1>4, <1>5, <1>6, <1>7, <1>8, <1>9, ScanShape

LEMMA OpenedKept ==
  ASSUME TypeInv, PathsFit, OpenedFits, [Next]_vars
  PROVE  OpenedFits'
<1> USE DEF diskVars, serverVars, clientVars, wireVars
<1>1. /\ sj >= 1 /\ sj \in Nat /\ Len(entries) \in Nat
      /\ \A k \in 1 .. Len(entries) : entries[k].path \in File
  BY EntryFacts DEF TypeInv
<1>2. CASE Edit
  BY <1>2 DEF Edit, OpenedFits
<1>3. CASE OpenFile
  <2>1. sj \in 1 .. Len(entries) /\ server = "open"
    BY <1>1, <1>3 DEF OpenFile, TypeInv, WorkFits
  <2>2. List[sj] = entries[sj].path /\ List[sj] \in File
    BY <2>1, <1>1 DEF PathsFit
  <2>3. UNCHANGED <<src, quiet, entries, sj>> /\ (server' = "copy" => opened' = src[List[sj]])
    BY <1>3, <2>2 DEF OpenFile, Regular
  <2> QED
    BY <2>2, <2>3 DEF OpenedFits
<1>4. CASE UNCHANGED <<src, quiet, entries, sj, opened, server>>
  BY <1>4 DEF OpenedFits
<1>5. CASE server' # "copy"
  BY <1>5 DEF OpenedFits
<1>6. CASE ServerStep
  <2>1. OpenFile \/ server' # "copy" \/ UNCHANGED <<src, quiet, entries, sj, opened, server>>
    BY <1>6 DEF ServerStep, StatFile, HashFile, WriteManifest, ReadDecision, CopyByte,
                ServerFinishes
  <2> QED
    BY <2>1, <1>3, <1>4, <1>5
<1>7. CASE Connect
  BY <1>5, <1>7 DEF Connect
<1>8. CASE Break \/ ClientStep \/ ClientFails \/ UNCHANGED vars
  <2>1. UNCHANGED <<src, quiet, entries, sj, opened, server>>
    BY <1>8 DEF Break, ClientStep, ReadManifest, Decide, Create, Receive, Rename,
                ClientFinishes, ClientFails, vars
  <2> QED
    BY <2>1, <1>4
<1> QED
  BY <1>2, <1>6, <1>7, <1>8 DEF Next

(* While nothing changes, the server reads what it announced.                *)
LEMMA QuietReads ==
  ASSUME TypeInv, PathsFit, QuietFits, OpenedFits, quiet, server = "copy"
  PROVE  /\ sj \in 1 .. Len(entries)
         /\ opened = entries[sj].hash /\ Len(opened) = entries[sj].size
         /\ Readable = {entries[sj].hash}
<1>1. sj \in 1 .. Len(entries)
  BY EntryFacts DEF TypeInv, TypeOK
<1>2. entries[sj].hash \in Content /\ entries[sj].path \in File
  BY <1>1, EntryFacts DEF TypeInv
<1>3. /\ entries[sj].hash = src[entries[sj].path]
      /\ entries[sj].size = Len(src[entries[sj].path])
      /\ List[sj] = entries[sj].path
  BY <1>1 DEF QuietFits, PathsFit
<1>4. opened = src[entries[sj].path]
  BY DEF OpenedFits
<1>5. opened # Absent
  BY <1>2, <1>3, <1>4, ContentFacts
<1>6. Readable = {opened, src[List[sj]]} \ {Absent}
  BY <1>5 DEF Readable
<1>7. Readable = {opened}
  BY <1>3, <1>4, <1>5, <1>6
<1> QED
  BY <1>1, <1>3, <1>4, <1>7

LEMMA MissingKept ==
  ASSUME TypeInv, PathsFit, QuietFits, OpenedFits, MissingEnds, [Next]_vars
  PROVE  MissingEnds'
<1> USE DEF diskVars, serverVars, clientVars, wireVars
<1> SUFFICES ASSUME quiet', server' = "error", ~broken', client' \notin Over
             PROVE  \E n \in 1 .. Len(List) : List[n] \in File /\ src'[List[n]] = Absent
  BY DEF MissingEnds
<1>1. /\ sj >= 1 /\ sj \in Nat /\ Len(entries) \in Nat /\ si \in Nat /\ si >= 1 /\ sent \in Nat
      /\ Len(List) \in Nat /\ si <= Len(List) + 1
      /\ \A k \in 1 .. Len(entries) : entries[k].path \in File /\ entries[k].size \in Nat
  BY EntryFacts, ContentFacts DEF TypeInv
<1>2. CASE Edit \/ Connect
  BY <1>2 DEF Edit, Connect
<1>4. CASE ServerStep
  <2>1. UNCHANGED <<src, quiet, broken, client>>
    BY <1>4 DEF ServerStep, StatFile, HashFile, WriteManifest, ReadDecision, OpenFile, CopyByte,
                ServerFinishes
  <2>2. ~ClientGone
    BY <2>1 DEF ClientGone
  <2>3. CASE StatFile \/ HashFile
    <3>1. si <= Len(List) /\ List[si] \in File /\ src[List[si]] = Absent
      <4>1. StatFile => si <= Len(List) /\ List[si] \in File /\ src[List[si]] = Absent
        BY DEF StatFile
      <4>2. HashFile => si <= Len(List) /\ List[si] \in File /\ src[List[si]] = Absent
        BY HashShape DEF HashFile, TypeInv, WorkFits
      <4> QED
        BY <4>1, <4>2, <2>3
    <3>2. si \in 1 .. Len(List)
      BY <3>1, <1>1
    <3> QED
      BY <3>1, <3>2, <2>1
  <2>4. CASE OpenFile
    <3>1. sj \in 1 .. Len(entries) /\ List[sj] \in File /\ src[List[sj]] = Absent
      BY <2>4, <1>1 DEF OpenFile, Regular, TypeInv, WorkFits
    <3>2. sj \in 1 .. Len(List)
      BY <3>1, <1>1 DEF TypeInv, TypeOK
    <3> QED
      BY <3>1, <3>2, <2>1
  <2>5. CASE CopyByte
    <3>1. /\ server = "copy" /\ sent < entries[sj].size
          /\ (\E c \in Readable : Len(c) <= sent) \/ CanRead = {}
      BY <2>2, <2>5 DEF CopyByte
    <3>2. /\ Readable = {entries[sj].hash} /\ Len(entries[sj].hash) = entries[sj].size
          /\ sj \in 1 .. Len(entries)
      BY <2>1, <3>1, QuietReads
    <3>3. entries[sj].size > sent /\ ~(entries[sj].size <= sent)
      BY <3>1, <3>2, <1>1
    <3>4. CanRead = {entries[sj].hash}
      BY <3>2, <3>3 DEF CanRead
    <3> QED
      BY <3>1, <3>2, <3>3, <3>4
  <2> QED
    BY <2>2, <2>3, <2>4, <2>5, <1>4 DEF ServerStep, WriteManifest, ReadDecision, ServerFinishes
<1>5. CASE ClientStep \/ ClientFails \/ UNCHANGED vars
  <2>1. UNCHANGED <<src, quiet, server, broken>> /\ client \notin Over
    BY <1>5 DEF ClientStep, ReadManifest, Decide, Create, Receive, Rename,
                ClientFinishes, ClientFails, vars, Over
  <2> QED
    BY <2>1 DEF MissingEnds
<1>6. CASE Break
  BY <1>6 DEF Break
<1> QED
  BY <1>2, <1>4, <1>5, <1>6 DEF Next

-----------------------------------------------------------------------------
(* While nothing changes, what arrives is what was announced.                *)

LEMMA ContentKeptByServer ==
  ASSUME TypeInv, ManifestFits, Positions, PathsFit, QuietFits, OpenedFits, ContentFits,
         ServerStep
  PROVE  ContentFits'
<1>1. /\ client' = client /\ cj' = cj /\ part' = part /\ quiet' = quiet
      /\ client \in {"decide", "create", "receive"} => entries' = entries
  BY EntriesStay
<1>2. Due' = Due /\ (Due => Wanted' = Wanted /\ Have' = Have)
  BY <1>1 DEF Due, Wanted, Have
<1>3. client = "receive" => Due
  BY DEF Due
<1>4. quiet /\ client = "receive" =>
        \A k \in 1 .. Len(part[Wanted.path]) : part[Wanted.path][k] = Wanted.hash[k]
  BY DEF ContentFits
<1>5. quiet' /\ client' = "receive" =>
        \A k \in 1 .. Len(part'[Wanted'.path]) : part'[Wanted'.path][k] = Wanted'.hash[k]
  BY <1>1, <1>2, <1>3, <1>4
<1>6. ASSUME quiet, Due, NEW k \in 1 .. Len(toClient')
      PROVE  toClient'[k] = Wanted.hash[Have + k]
  <2>1. \A l \in 1 .. Len(toClient) : toClient[l] = Wanted.hash[Have + l]
    BY <1>6 DEF ContentFits
  <2>2. CASE toClient' = toClient
    BY <1>6, <2>1, <2>2
  <2>3. CASE toClient' # toClient
    <3>1. CopyByte
      BY <2>3 DEF ServerStep, StatFile, HashFile, WriteManifest, ReadDecision, OpenFile,
                  ServerFinishes, wireVars
    <3>2. /\ ~broken /\ sent < entries[sj].size /\ server = "copy"
          /\ \E c \in CanRead : toClient' = Append(toClient, c[sent + 1])
          /\ Len(toClient') = Len(toClient) + 1
          /\ \A l \in 1 .. Len(toClient) : toClient'[l] = toClient[l]
      BY <2>3, <3>1, CopyShape
    <3>3. client \notin Over
      BY <1>6 DEF Due, Over
    <3>4. sj \in Nat /\ sent \in Nat /\ Len(toClient) \in Nat /\ Have \in Nat
      BY EntryFacts, CarriedType DEF TypeInv
    <3>5. sj = cj /\ Carried = sent
      <4>1. /\ (Due /\ sj = cj) \/ (sj < cj /\ sent = entries[sj].size)
            /\ Carried = IF sj > cj THEN Wanted.size
                         ELSE IF sj = cj /\ server = "copy" THEN sent ELSE 0
        BY <1>6, <3>2, <3>3 DEF Positions
      <4>2. sj \in 1 .. Len(entries) /\ entries[sj].size \in Nat
        BY <1>6, <3>2, QuietReads, EntryFacts DEF TypeInv
      <4>3. sj = cj
        BY <4>1, <4>2, <3>2, <3>4
      <4> QED
        BY <4>1, <4>3, <3>2, <3>4
    <3>6. Have + Len(toClient) = sent
      BY <3>5 DEF Carried
    <3>7. CanRead \subseteq {Wanted.hash}
      BY <1>6, <3>2, <3>5, QuietReads DEF CanRead, Wanted
    <3>8. toClient' = Append(toClient, Wanted.hash[sent + 1])
      BY <3>2, <3>7
    <3>9. toClient'[Len(toClient) + 1] = Wanted.hash[sent + 1]
      <4>1. toClient \in Seq(Byte)
        BY DEF TypeInv, TypeOK
      <4>2. Wanted.hash \in Content /\ Wanted.size = Len(Wanted.hash)
        BY <1>6, <3>2, <3>5, QuietReads, EntryFacts DEF Wanted, TypeInv
      <4>3. sent + 1 \in 1 .. Len(Wanted.hash)
        BY <4>2, <3>2, <3>4, <3>5, ContentFacts, SMTT(60) DEF Wanted
      <4>4. Wanted.hash[sent + 1] \in Byte
        BY <4>2, <4>3, ContentFacts
      <4> QED
        BY <3>8, <4>1, <4>4, AppendProperties
    <3>10. CASE k \in 1 .. Len(toClient)
      BY <3>10, <3>2, <2>1
    <3>11. CASE k = Len(toClient) + 1
      <4>1. Have + k = sent + 1
        BY <3>11, <3>4, <3>6
      <4> QED
        BY <4>1, <3>9, <3>11
    <3> QED
      BY <3>2, <3>4, <3>10, <3>11
  <2> QED
    BY <2>2, <2>3
<1>7. quiet' /\ Due' => \A k \in 1 .. Len(toClient') : toClient'[k] = Wanted'.hash[Have' + k]
  BY <1>1, <1>2, <1>6
<1> QED
  BY <1>5, <1>7 DEF ContentFits

LEMMA ContentKeptByClient ==
  ASSUME TypeInv, ManifestFits, NothingSpare, ContentFits, ClientStep \/ ClientFails
  PROVE  ContentFits'
<1> USE DEF serverVars, wireVars, diskVars
<1>1. quiet' = quiet /\ entries' = entries
  BY DEF ClientStep, ReadManifest, Decide, Create, Receive, Rename, ClientFinishes, ClientFails
<1>2. CASE client' \notin {"create", "receive"}
  BY <1>2 DEF ContentFits, Due
<1>3. CASE Decide /\ client' = "create"
  <2>1. toClient' = <<>>
    BY <1>3 DEF Decide, NothingSpare
  <2>2. Len(toClient') = 0
    BY <2>1
  <2> QED
    BY <1>3, <2>2 DEF ContentFits
<1>4. CASE Create
  <2>1. client = "create" /\ client' = "receive" /\ UNCHANGED <<cj, toClient>>
        /\ part' = [part EXCEPT ![Wanted.path] = <<>>] /\ Wanted.path \in File
    BY <1>4, WantedFacts DEF Create, Wanted, TypeInv, WorkFits
  <2>2. Due /\ Due' /\ Wanted' = Wanted
    BY <1>1, <2>1 DEF Due, Wanted
  <2>3. part'[Wanted.path] = <<>> /\ Len(<<>>) = 0
    BY <2>1 DEF TypeInv, TypeOK
  <2>4. Have = 0 /\ Have' = 0
    BY <2>1, <2>2, <2>3 DEF Have
  <2>5. quiet => \A k \in 1 .. Len(toClient) : toClient[k] = Wanted.hash[Have + k]
    BY <2>2 DEF ContentFits
  <2>6. quiet' => \A k \in 1 .. Len(toClient') : toClient'[k] = Wanted'.hash[Have' + k]
    BY <1>1, <2>1, <2>2, <2>4, <2>5
  <2>7. Len(part'[Wanted'.path]) = 0
    BY <2>2, <2>3, Zenon
  <2>8. \A k \in 1 .. Len(part'[Wanted'.path]) : part'[Wanted'.path][k] = Wanted'.hash[k]
    BY <2>7
  <2> QED
    BY <2>6, <2>8 DEF ContentFits
<1>5. CASE Receive /\ client' = client
  <2>1. /\ client = "receive" /\ client' = client /\ Wanted' = Wanted
        /\ Have' = Have + 1 /\ Len(toClient') = Len(toClient) - 1
        /\ \A k \in 1 .. Len(toClient') : toClient'[k] = toClient[k + 1]
        /\ \A k \in 1 .. Have : part'[Wanted.path][k] = part[Wanted.path][k]
        /\ part'[Wanted.path][Have + 1] = toClient[1]
    BY <1>5, ReceiveShape DEF Receive
  <2>2. /\ Have \in Nat /\ Len(toClient) \in Nat
        /\ Have = Len(part[Wanted.path]) /\ Have' = Len(part'[Wanted'.path])
    BY <2>1, CarriedType DEF Have
  <2>3. Len(toClient) >= 1
    <3>1. Receive /\ toClient # <<>>
      BY <1>5, <2>1 DEF Receive
    <3> QED
      BY <3>1, CarriedType
  <2>4. SUFFICES ASSUME quiet
                 PROVE  ContentFits'
    BY <1>1 DEF ContentFits
  <2>5. /\ \A k \in 1 .. Have : part[Wanted.path][k] = Wanted.hash[k]
        /\ \A k \in 1 .. Len(toClient) : toClient[k] = Wanted.hash[Have + k]
    BY <2>1, <2>2, <2>4 DEF ContentFits, Due
  <2>6. ASSUME NEW k \in 1 .. Have + 1
        PROVE  part'[Wanted.path][k] = Wanted.hash[k]
    <3>1. CASE k \in 1 .. Have
      BY <3>1, <2>1, <2>5
    <3>2. CASE k = Have + 1
      <4>1. 1 \in 1 .. Len(toClient)
        BY <2>2, <2>3
      <4> QED
        BY <4>1, <3>2, <2>1, <2>5
    <3> QED
      BY <3>1, <3>2, <2>2
  <2>7. ASSUME NEW k \in 1 .. Len(toClient')
        PROVE  toClient'[k] = Wanted.hash[Have' + k]
    <3>1. Len(toClient') = Len(toClient) - 1 /\ Have' = Have + 1 /\ Have \in Nat /\ Len(toClient) \in Nat
      BY <2>1, <2>2
    <3>2. k + 1 \in 1 .. Len(toClient) /\ Have + (k + 1) = Have' + k
      BY <3>1
    <3> QED
      BY <3>2, <2>1, <2>5
  <2>8. \A k \in 1 .. Len(part'[Wanted'.path]) : part'[Wanted'.path][k] = Wanted'.hash[k]
    BY <2>1, <2>2, <2>6
  <2>9. \A k \in 1 .. Len(toClient') : toClient'[k] = Wanted'.hash[Have' + k]
    BY <2>1, <2>7
  <2> QED
    BY <2>8, <2>9 DEF ContentFits
<1>6. ReadManifest \/ Rename \/ ClientFinishes \/ ClientFails => client' \notin {"create", "receive"}
  BY DEF ReadManifest, Rename, ClientFinishes, ClientFails
<1>7. (Decide => client' = "create" \/ client' \notin {"create", "receive"})
      /\ (Receive => client' = client \/ client' \notin {"create", "receive"})
  BY DEF Decide, Receive
<1> QED
  BY <1>2, <1>3, <1>4, <1>5, <1>6, <1>7 DEF ClientStep

LEMMA ContentKept ==
  ASSUME TypeInv, ManifestFits, NothingSpare, Positions, PathsFit, QuietFits, OpenedFits,
         ContentFits, [Next]_vars
  PROVE  ContentFits'
<1> USE DEF diskVars, serverVars, clientVars, wireVars
<1>1. CASE Edit
  BY <1>1 DEF Edit, ContentFits
<1>2. CASE Connect
  BY <1>2 DEF Connect, ContentFits, Due
<1>3. CASE Break
  <2>1. UNCHANGED <<part, quiet, client, cj, entries>> /\ toClient' = <<>>
    BY <1>3 DEF Break
  <2>2. Len(toClient') = 0
    BY <2>1
  <2>3. Wanted' = Wanted
    BY <2>1 DEF Wanted
  <2> QED
    BY <2>1, <2>2, <2>3 DEF ContentFits
<1>4. CASE UNCHANGED vars
  <2>1. UNCHANGED <<part, quiet, client, cj, entries, toClient>>
    BY <1>4 DEF vars
  <2>2. UNCHANGED <<Wanted, Due, Have>>
    BY <2>1 DEF Wanted, Due, Have
  <2> QED
    BY <2>1, <2>2 DEF ContentFits
<1> QED
  BY <1>1, <1>2, <1>3, <1>4, ContentKeptByServer, ContentKeptByClient DEF Next

LEMMA DueKept ==
  ASSUME TypeInv, ManifestFits, DueIsMissing, [Next]_vars
  PROVE  DueIsMissing'
<1> USE DEF diskVars, serverVars, clientVars, wireVars
<1>1. CASE ServerStep
  BY <1>1, EntriesStay DEF DueIsMissing, Due, Wanted
<1>2. CASE Decide /\ client' = "create"
  BY <1>2 DEF Decide, DueIsMissing, Due, Wanted
<1>3. CASE Create \/ Edit \/ Break \/ UNCHANGED vars
  <2>1. UNCHANGED <<dest, entries, cj>> /\ (Due' => Due)
    BY <1>3 DEF Create, Edit, Break, vars, Due
  <2> QED
    BY <2>1 DEF DueIsMissing, Wanted
<1>4. CASE Receive
  <2>1. UNCHANGED <<dest, entries, cj>> /\ Due
    BY <1>4 DEF Receive, Due
  <2> QED
    BY <2>1 DEF DueIsMissing, Wanted
<1>5. CASE Connect \/ ReadManifest \/ Rename \/ ClientFinishes \/ ClientFails
           \/ (Decide /\ client' # "create")
  <2>1. ~Due'
    BY <1>5 DEF Connect, ReadManifest, Rename, ClientFinishes, ClientFails, Decide, Due
  <2> QED
    BY <2>1 DEF DueIsMissing
<1> QED
  BY <1>1, <1>2, <1>3, <1>4, <1>5 DEF Next, ClientStep

-----------------------------------------------------------------------------
(* The invariants together.                                                  *)

QuietInv == StepInv /\ EntriesFit /\ QuietFits

(* What a client reads is a manifest of the list: every regular file of it   *)
(* and nothing else, in its order, and if no file changed since the session  *)
(* began, with the files' sizes and contents (handleConn's scan), whatever   *)
(* the list and however it mixes files and directories.                      *)
THEOREM TransferManifestFits == Spec => []QuietInv
<1>1. Init => EntriesFit /\ QuietFits
  <2> SUFFICES ASSUME Init PROVE EntriesFit /\ QuietFits
    OBVIOUS
  <2>1. si = 1 /\ Len(entries) = 0 /\ server = "off"
    BY DEF Init, ServerIdle
  <2>2. Scanned = {}
    BY <2>1, ContentFacts DEF Scanned
  <2> QED
    BY <2>1, <2>2 DEF EntriesFit, QuietFits
<1>2. StepInv /\ EntriesFit /\ QuietFits /\ [Next]_vars => EntriesFit' /\ QuietFits'
  BY EntriesKept, QuietKept DEF StepInv
<1> QED
  BY <1>1, <1>2, StepInvariant, PTL DEF Spec, QuietInv

DeliveryInv ==
  QuietInv /\ PathsFit /\ OpenedFits /\ MissingEnds /\ ContentFits /\ DueIsMissing

LEMMA DeliveryInvariant ==
  ASSUME DirsLast
  PROVE  Spec => []DeliveryInv
<1> DEFINE Rest == PathsFit /\ OpenedFits /\ MissingEnds /\ ContentFits /\ DueIsMissing
<1>1. Init => Rest
  <2> SUFFICES ASSUME Init PROVE Rest
    OBVIOUS
  <2>1. si = 1 /\ Len(entries) = 0 /\ server = "off" /\ client = "off"
    BY DEF Init, ServerIdle
  <2> QED
    BY <2>1 DEF PathsFit, OpenedFits, MissingEnds, ContentFits, DueIsMissing, Due
<1>2. QuietInv /\ Rest /\ [Next]_vars => Rest'
  <2> SUFFICES ASSUME QuietInv, Rest, [Next]_vars PROVE Rest'
    OBVIOUS
  <2>1. TypeInv /\ ManifestFits /\ NothingSpare /\ Positions /\ QuietFits
    BY DEF QuietInv, StepInv
  <2> QED
    BY <2>1, PathsKept, OpenedKept, MissingKept, ContentKept, DueKept
<1> HIDE DEF Rest
<1>3. QuietInv /\ Rest => DeliveryInv
  BY DEF Rest, DeliveryInv
<1> QED
  BY <1>1, <1>2, <1>3, TransferManifestFits, PTL DEF Spec

(* A file is renamed when it is complete, and has not grown beyond that.     *)
LEMMA ReceivedWhole ==
  ASSUME TypeInv, NothingSpare, client = "receive", ~Missing
  PROVE  Len(part[Wanted.path]) = Wanted.size
<1>1. Len(part[Wanted.path]) \in Nat /\ Wanted.size \in Nat
  BY PartFacts, WantedFacts DEF TypeInv
<1>2. Carried <= Wanted.size
  BY DEF NothingSpare, Due
<1>3. Carried >= Len(part[Wanted.path])
  BY <1>1, CarriedType DEF Carried, Have
<1> QED
  BY <1>1, <1>2, <1>3, CarriedType DEF Missing

(* InStep but for its last part.                                             *)
BytesInStep ==
  (~broken /\ client \notin Over) =>
    /\ toClient # <<>> => client \in {"create", "receive"} /\ server # "open"
    /\ client = "receive" =>
         LET delivered == Len(part[Wanted.path]) + Len(toClient) IN
         /\ delivered <= Wanted.size
         /\ server \in {"decision", "ok"} /\ sj > cj => delivered = Wanted.size
    /\ client = "decide" => toClient = <<>>

(* handleConn and Download stay in step, whatever the list and whatever      *)
(* becomes of the files, also where the server opens another file than it    *)
(* announced: what is on the wire belongs to the entry that the client waits *)
(* for, and the server goes on to the next entry only when all of it was     *)
(* sent.                                                                     *)
THEOREM TransferBytesInStep == Spec => []BytesInStep
<1>1. StepInv => BytesInStep
  <2> SUFFICES ASSUME StepInv, ~broken, client \notin Over
               PROVE  BytesInStep
    BY DEF BytesInStep
  <2>1. TypeInv /\ ManifestFits /\ NothingSpare /\ Positions
    BY DEF StepInv
  <2>2. /\ Len(toClient) \in Nat /\ Have \in Nat /\ Carried = Have + Len(toClient)
        /\ (toClient = <<>> <=> Len(toClient) = 0)
    BY <2>1, CarriedType DEF Carried
  <2>3. client \in {"manifest", "decide", "create", "receive"}
    BY <2>1 DEF TypeInv, TypeOK
  <2>4. sj \in Nat /\ cj \in Nat
    BY <2>1, EntryFacts DEF TypeInv
  <2>5. toClient # <<>> => client \in {"create", "receive"} /\ server # "open"
    <3> SUFFICES ASSUME toClient # <<>>
                 PROVE  client \in {"create", "receive"} /\ server # "open"
      OBVIOUS
    <3>1. Due
      BY <2>1, <2>3 DEF NothingSpare, Due
    <3>2. ASSUME server = "open" PROVE FALSE
      <4>1. Asked(sj) /\ Carried = IF sj > cj THEN Wanted.size
                                   ELSE IF sj = cj /\ server = "copy" THEN sent ELSE 0
        BY <2>1, <3>1, <3>2 DEF Positions
      <4>2. sj <= cj
        BY <4>1, <2>4 DEF Asked
      <4>3. Carried = 0
        BY <4>1, <4>2, <2>4, <3>2
      <4> QED
        BY <4>3, <2>2
    <3> QED
      BY <3>1, <3>2 DEF Due
  <2>6. ASSUME client = "receive"
        PROVE  LET delivered == Len(part[Wanted.path]) + Len(toClient) IN
               /\ delivered <= Wanted.size
               /\ server \in {"decision", "ok"} /\ sj > cj => delivered = Wanted.size
    <3>1. Due /\ Carried = Len(part[Wanted.path]) + Len(toClient)
      BY <2>6 DEF Due, Carried, Have
    <3>2. Carried <= Wanted.size
      BY <2>1, <3>1 DEF NothingSpare
    <3>3. server \in {"decision", "ok"} /\ sj > cj => Carried = Wanted.size
      BY <2>1, <3>1 DEF Positions
    <3> QED
      BY <3>1, <3>2, <3>3
  <2>7. client = "decide" => toClient = <<>>
    BY <2>1 DEF NothingSpare
  <2> QED
    BY <2>5, <2>6, <2>7 DEF BytesInStep
<1> QED
  BY <1>1, StepInvariant, PTL

(* And the server gives up on a waiting client only if a file is missing or  *)
(* files were changing.  A list with a directory before a file is excluded:  *)
(* there the server reads another file than it announced, which may be too   *)
(* short.                                                                    *)
THEOREM TransferInStep ==
  ASSUME DirsLast
  PROVE  Spec => []InStep
<1>1. DeliveryInv /\ BytesInStep => InStep
  BY DEF DeliveryInv, MissingEnds, BytesInStep, InStep
<1> QED
  BY <1>1, DeliveryInvariant, TransferBytesInStep, PTL

(* Whatever the list, what is renamed to a final name is a whole file of the *)
(* size announced for it, and there is no other write to the output          *)
(* directory's files than the rename of Download.                            *)
WritesWhole ==
  \A p \in File : dest'[p] # dest[p] =>
    \E k \in 1 .. Len(entries) :
      entries[k].path = p /\ Len(dest'[p]) = entries[k].size

THEOREM TransferWritesWhole == Spec => [][WritesWhole]_vars
<1>1. StepInv /\ [Next]_vars => [WritesWhole]_vars
  <2> SUFFICES ASSUME StepInv, Next, NEW p \in File, dest'[p] # dest[p]
               PROVE  \E k \in 1 .. Len(entries) :
                        entries[k].path = p /\ Len(dest'[p]) = entries[k].size
    BY DEF WritesWhole
  <2>1. Rename
    BY DEF Next, Edit, Connect, Break, ServerStep, StatFile, HashFile, WriteManifest, ReadDecision,
           OpenFile, CopyByte, ServerFinishes, ClientStep, ReadManifest, Decide, Create, Receive,
           ClientFinishes, ClientFails, diskVars
  <2>2. cj \in 1 .. Len(entries) /\ Wanted = entries[cj] /\ client = "receive"
    BY <2>1, PartFacts, WantedFacts DEF Rename, Wanted, StepInv, TypeInv
  <2>3. Len(part[Wanted.path]) = Wanted.size
    BY <2>1, ReceivedWhole DEF StepInv, Rename
  <2>4. dest' = [dest EXCEPT ![Wanted.path] = part[Wanted.path]]
        /\ dest \in [File -> Seq(Byte) \cup {Absent}]
    BY <2>1 DEF Rename, StepInv, TypeInv, TypeOK
  <2>5. p = Wanted.path /\ dest'[p] = part[Wanted.path]
    BY <2>4
  <2> QED
    BY <2>2, <2>3, <2>5
<1> QED
  BY <1>1, StepInvariant, PTL DEF Spec

-----------------------------------------------------------------------------
(* The transfer implements Delivery.                                         *)

LEMMA SeqOfElements ==
  ASSUME NEW R, NEW S, NEW s \in Seq(R), \A k \in 1 .. Len(s) : s[k] \in S
  PROVE  s \in Seq(S)
<1>1. Len(s) \in Nat /\ s \in [1 .. Len(s) -> R]
  BY LenProperties
<1>2. s \in [1 .. Len(s) -> S]
  BY <1>1
<1> QED
  BY <1>1, <1>2

(* The scan is complete: a promise is made.                                  *)
LEMMA ReadAnnounces ==
  ASSUME QuietInv, ReadManifest
  PROVE  Protocol!Announce \/ Protocol!Fail
<1> USE DEF diskVars, serverVars
<1>1. /\ TypeOK /\ ManifestFits /\ EntriesFit /\ QuietFits
  BY DEF QuietInv, StepInv, TypeInv
<1>2. UNCHANGED <<src, dest, quiet, entries, cj>> /\ client = "manifest"
  BY DEF ReadManifest
<1>3. CASE manifest = "unsent" /\ client' = "error" /\ manifest' = manifest
  BY <1>2, <1>3 DEF Protocol!Fail
<1>4. CASE manifest = "wire" /\ manifest' = "read" /\ client' = "decide"
  <2>1. si > Len(List) /\ Scanned = 1 .. Len(List)
    BY <1>1, <1>4, EntryFacts, ContentFacts DEF ManifestFits, Scanned
  <2>2. \A k \in 1 .. Len(entries) : entries[k].path \in Protocol!Offered
    BY <1>1, <2>1, EntryFacts DEF EntriesFit, Protocol!Offered
  <2>3. entries \in Seq([path : Protocol!Offered, size : Nat, hash : Content])
    <3>1. \A k \in 1 .. Len(entries) : entries[k] \in [path : Protocol!Offered, size : Nat, hash : Content]
      BY <2>2, <1>1, EntryFacts DEF Entry
    <3>2. entries \in Seq(Entry)
      BY <1>1 DEF TypeOK
    <3> QED
      BY <3>1, <3>2, SeqOfElements
  <2>4. \A p \in Protocol!Offered : \E n \in 1 .. Len(entries) : entries[n].path = p
    BY <1>1, <2>1, SMTT(60) DEF EntriesFit, Protocol!Offered
  <2>5. \A j, k \in 1 .. Len(entries) : j < k => Protocol!Before(entries[j].path, entries[k].path)
    <3> SUFFICES ASSUME NEW j \in 1 .. Len(entries), NEW k \in 1 .. Len(entries), j < k
                 PROVE  Protocol!Before(entries[j].path, entries[k].path)
      OBVIOUS
    <3>1. PICK m \in Scanned : List[m] = entries[j].path
      BY <1>1 DEF EntriesFit
    <3>2. PICK n \in Scanned : List[n] = entries[k].path
      BY <1>1 DEF EntriesFit
    <3>3. m < n
      BY <1>1, <3>1, <3>2 DEF EntriesFit
    <3> QED
      BY <2>1, <3>1, <3>2, <3>3 DEF Protocol!Before
  <2>6. quiet => \A n \in 1 .. Len(entries) : /\ entries[n].hash = src[entries[n].path]
                                              /\ entries[n].size = Len(src[entries[n].path])
    BY <1>1 DEF QuietFits
  <2> QED
    BY <1>2, <1>4, <2>3, <2>4, <2>5, <2>6 DEF Protocol!Announce
<1> QED
  BY <1>3, <1>4 DEF ReadManifest

(* A whole file, and if no file changed the promised one.                    *)
LEMMA RenameDelivers ==
  ASSUME DeliveryInv, Rename
  PROVE  Protocol!Deliver
<1> USE DEF diskVars, serverVars, wireVars
<1>1. /\ TypeInv /\ TypeOK /\ ManifestFits /\ NothingSpare /\ QuietFits /\ ContentFits
      /\ DueIsMissing
  BY DEF DeliveryInv, QuietInv, StepInv, TypeInv
<1>2. /\ client = "receive" /\ client' = "decide" /\ cj' = cj + 1 /\ manifest = "read"
      /\ UNCHANGED <<src, quiet, manifest, entries>> /\ ~Missing
      /\ dest' = [dest EXCEPT ![Wanted.path] = part[Wanted.path]]
  BY <1>1 DEF Rename, ManifestFits
<1>3. /\ cj \in Nat /\ cj <= Len(entries) /\ Len(entries) \in Nat /\ cj >= 1
      /\ Wanted \in Entry /\ Wanted.size \in Nat /\ Wanted.hash \in Content
      /\ cj \in 1 .. Len(entries)
      /\ part[Wanted.path] \in Seq(Byte) /\ Len(part[Wanted.path]) \in Nat
  BY <1>1, <1>2, PartFacts, WantedFacts, EntryFacts
<1>4. Len(part[Wanted.path]) = Wanted.size
  BY <1>1, <1>2, ReceivedWhole
<1>5. part[Wanted.path] \in [1 .. Wanted.size -> Byte]
  BY <1>3, <1>4, LenProperties
<1>6. ASSUME quiet PROVE part[Wanted.path] = Wanted.hash
  <2>1. Wanted.size = Len(src[Wanted.path]) /\ Wanted.hash = src[Wanted.path]
    BY <1>1, <1>3, <1>6 DEF QuietFits, Wanted
  <2>2. Len(Wanted.hash) = Len(part[Wanted.path])
    BY <2>1, <1>4
  <2>3. \A k \in 1 .. Len(part[Wanted.path]) : part[Wanted.path][k] = Wanted.hash[k]
    BY <1>1, <1>2, <1>6 DEF ContentFits
  <2>4. Wanted.hash \in Seq(Byte)
    BY <1>3, ContentFacts
  <2> QED
    BY <2>2, <2>3, <2>4, <1>3, SeqEqual
<1>7. Protocol!Due = Wanted
  <2>1. cj - 1 + 1 = cj
    BY <1>3
  <2> QED
    BY <1>2, <2>1 DEF Protocol!Due, Wanted
<1>8. cj - 1 < Len(entries) /\ cj' - 1 = (cj - 1) + 1
  BY <1>2, <1>3
<1>9. \E file \in [1 .. Protocol!Due.size -> Byte] :
        /\ quiet => file = Protocol!Due.hash
        /\ dest' = [dest EXCEPT ![Protocol!Due.path] = file]
  BY <1>2, <1>5, <1>6, <1>7
<1>10. dest[Protocol!Due.path] # Protocol!Due.hash
  BY <1>1, <1>2, <1>7 DEF DueIsMissing, Due
<1> QED
  BY <1>2, <1>8, <1>9, <1>10 DEF Protocol!Deliver


LEMMA ServerStepHides ==
  ASSUME QuietInv, ServerStep \/ Break
  PROVE  UNCHANGED Protocol!vars
<1> USE DEF diskVars, clientVars, wireVars
<1>1. TypeInv /\ TypeOK /\ ManifestFits
  BY DEF QuietInv, StepInv, TypeInv
<1>2. UNCHANGED <<src, dest, quiet, client, cj>>
  BY DEF ServerStep, StatFile, HashFile, WriteManifest, ReadDecision, OpenFile, CopyByte,
         ServerFinishes, Break
<1>3. manifest' = "read" <=> manifest = "read"
  BY <1>1 DEF ServerStep, StatFile, HashFile, WriteManifest, ReadDecision, OpenFile, CopyByte,
         ServerFinishes, Break, ManifestFits
<1>4. manifest = "read" => entries' = entries
  BY <1>1 DEF ServerStep, StatFile, HashFile, WriteManifest, ReadDecision, OpenFile, CopyByte,
         ServerFinishes, Break, ManifestFits, serverVars
<1> QED
  BY <1>2, <1>3, <1>4 DEF Protocol!vars

LEMMA ClientStepDelivers ==
  ASSUME DeliveryInv, ClientStep \/ ClientFails
  PROVE  [Protocol!Next]_(Protocol!vars)
<1> USE DEF diskVars, serverVars, wireVars
<1>1. QuietInv /\ TypeInv /\ TypeOK /\ ManifestFits
  BY DEF DeliveryInv, QuietInv, StepInv, TypeInv
<1>2. cj \in Nat /\ cj >= 1 /\ Len(entries) \in Nat /\ cj <= Len(entries) + 1
  BY <1>1, EntryFacts
<1>3. CASE ReadManifest
  BY <1>1, <1>3, ReadAnnounces DEF Protocol!Next
<1>4. CASE Decide
  <2>1. /\ client = "decide" /\ manifest = "read" /\ cj <= Len(entries)
        /\ UNCHANGED <<src, dest, quiet, manifest, entries>>
    BY <1>1, <1>4 DEF Decide, ManifestFits
  <2>2. CASE client' = "create" /\ cj' = cj
    BY <2>1, <2>2 DEF Protocol!vars
  <2>3. CASE dest[Wanted.path] = Wanted.hash /\ cj' = cj + 1 /\ client' = client
    <3>1. cj - 1 < Len(entries) /\ cj' - 1 = (cj - 1) + 1 /\ cj - 1 + 1 = cj
      BY <2>1, <2>3, <1>2
    <3>2. Protocol!Due = Wanted
      BY <2>1, <3>1 DEF Protocol!Due, Wanted
    <3>3. Protocol!Keep
      BY <2>1, <2>3, <3>1, <3>2 DEF Protocol!Keep
    <3> QED
      BY <3>3 DEF Protocol!Next
  <2> QED
    BY <2>2, <2>3, <1>4 DEF Decide
<1>5. CASE Create \/ (Receive /\ client' = client)
  <2>1. /\ client \in {"create", "receive"} /\ client' \in {"create", "receive"}
        /\ UNCHANGED <<src, dest, quiet, manifest, entries, cj>>
    BY <1>5 DEF Create, Receive
  <2> QED
    BY <2>1 DEF Protocol!vars
<1>6. CASE ClientFails \/ (Receive /\ client' # client)
  <2>1. /\ client \in {"manifest", "decide", "create", "receive"} /\ client' = "error"
        /\ UNCHANGED <<src, dest, quiet, manifest, entries, cj>>
    BY <1>1, <1>6 DEF ClientFails, Receive, Over, TypeOK
  <2>2. Protocol!Fail
    BY <2>1 DEF Protocol!Fail
  <2> QED
    BY <2>2 DEF Protocol!Next
<1>7. CASE Rename
  BY <1>7, RenameDelivers DEF Protocol!Next
<1>8. CASE ClientFinishes
  <2>1. /\ client = "decide" /\ client' = "ok" /\ manifest = "read" /\ cj > Len(entries)
        /\ UNCHANGED <<src, dest, quiet, manifest, entries, cj>>
    BY <1>1, <1>8 DEF ClientFinishes, ManifestFits
  <2>2. cj - 1 = Len(entries)
    BY <2>1, <1>2
  <2>3. Protocol!Complete
    BY <2>1, <2>2 DEF Protocol!Complete
  <2> QED
    BY <2>3 DEF Protocol!Next
<1> QED
  BY <1>3, <1>4, <1>5, <1>6, <1>7, <1>8 DEF ClientStep

(* Download with handleConn is a Delivery: whatever breaks, fails or changes *)
(* at any moment and however sessions follow one another, the only thing     *)
(* that ever happens to the output directory is that the next file of the    *)
(* announced manifest, if the one that is there has another hash, is         *)
(* replaced by a whole file of the announced size, which is the announced    *)
(* content if no file changed meanwhile; the manifest                        *)
(* is that of the list, nothing is passed over but what was there already,   *)
(* and a session that ends well has passed all of it.  For files and lists   *)
(* of any size, any number of changes and sessions; a list with a directory  *)
(* before a file is excluded, as in TransferInStep.                          *)
THEOREM TransferImplementsDelivery ==
  ASSUME DirsLast
  PROVE  Spec => Protocol!Init /\ [][Protocol!Next]_(Protocol!vars)
<1>1. Init => Protocol!Init
  <2> SUFFICES ASSUME Init PROVE Protocol!Init
    OBVIOUS
  <2>1. \A p \in File : dest[p] \in {src[p], Absent}
    BY DEF Init
  <2> QED
    BY <2>1 DEF Init, Protocol!Init
<1>2. DeliveryInv /\ DeliveryInv' /\ [Next]_vars => [Protocol!Next]_(Protocol!vars)
  <2> SUFFICES ASSUME DeliveryInv, DeliveryInv', [Next]_vars
               PROVE  [Protocol!Next]_(Protocol!vars)
    OBVIOUS
  <2>1. CASE Edit
    <3>1. src' \in [File -> Content \cup {Absent}]
      BY DEF DeliveryInv, QuietInv, StepInv, TypeInv, TypeOK
    <3>2. Protocol!Edit
      BY <2>1, <3>1 DEF Edit, serverVars, clientVars, wireVars, Protocol!Edit
    <3> QED
      BY <3>2 DEF Protocol!Next
  <2>2. CASE Connect
    <3>1. client \in Over /\ client' = "manifest" /\ cj' = 1 /\ manifest' = "unsent"
          /\ quiet' = TRUE /\ UNCHANGED <<src, dest>>
      BY <2>2 DEF Connect
    <3>2. Protocol!Begin
      BY <3>1 DEF Over, Protocol!Begin
    <3> QED
      BY <3>2 DEF Protocol!Next
  <2>3. CASE Break \/ ServerStep
    BY <2>3, ServerStepHides DEF DeliveryInv
  <2>4. CASE ClientStep \/ ClientFails
    BY <2>4, ClientStepDelivers
  <2>5. CASE UNCHANGED vars
    BY <2>5 DEF vars, diskVars, serverVars, clientVars, wireVars, Protocol!vars
  <2> QED
    BY <2>1, <2>2, <2>3, <2>4, <2>5 DEF Next
<1> QED
  BY <1>1, <1>2, DeliveryInvariant, PTL DEF Spec


(* What the client has passed is there.                                      *)
SettledFits ==
  /\ client = "ok" => manifest = "read" /\ cj > Len(entries)
  /\ quiet /\ client \notin {"off", "error"} =>
       \A k \in 1 .. Len(entries) : k < cj => dest[entries[k].path] = src[entries[k].path]

LEMMA SettledKept ==
  ASSUME DeliveryInv, SettledFits, [Next]_vars
  PROVE  SettledFits'
<1> USE DEF diskVars, serverVars, clientVars, wireVars
<1>1. QuietInv /\ TypeInv /\ TypeOK /\ ManifestFits /\ QuietFits
  BY DEF DeliveryInv, QuietInv, StepInv, TypeInv
<1>2. /\ cj \in Nat /\ cj >= 1 /\ Len(entries) \in Nat /\ cj <= Len(entries) + 1
      /\ dest \in [File -> Seq(Byte) \cup {Absent}]
      /\ \A k \in 1 .. Len(entries) : entries[k].path \in File
  BY <1>1, EntryFacts DEF TypeOK
<1>3. CASE Edit
  BY <1>3 DEF Edit, SettledFits
<1>4. CASE Connect
  BY <1>4 DEF Connect, SettledFits
<1>5. CASE ServerStep \/ Break
  <2>1. UNCHANGED <<src, dest, quiet, client, cj>>
    BY <1>5 DEF ServerStep, StatFile, HashFile, WriteManifest, ReadDecision, OpenFile, CopyByte,
                ServerFinishes, Break
  <2>2. manifest = "read" => manifest' = "read" /\ entries' = entries
    BY <1>1, <1>5 DEF ServerStep, StatFile, HashFile, WriteManifest, ReadDecision, OpenFile,
                CopyByte, ServerFinishes, Break, ManifestFits
  <2>3. client \in {"manifest", "decide", "create", "receive", "ok", "off", "error"}
    BY <1>1 DEF TypeOK, Over
  <2>4. client \in {"decide", "create", "receive", "ok"} => entries' = entries
    BY <1>1, <2>2 DEF ManifestFits, SettledFits
  <2>5. client = "manifest" => cj = 1
    BY <1>1 DEF ManifestFits
  <2>6. client = "ok" => manifest' = "read" /\ cj > Len(entries) /\ entries' = entries
    BY <2>2 DEF SettledFits
  <2>7. CASE client = "manifest"
    BY <2>1, <2>5, <2>7 DEF SettledFits
  <2>8. CASE client \in {"decide", "create", "receive", "ok"}
    BY <2>1, <2>4, <2>6, <2>8 DEF SettledFits
  <2>9. CASE client \in {"off", "error"}
    BY <2>1, <2>9 DEF SettledFits
  <2> QED
    BY <2>3, <2>7, <2>8, <2>9
<1>6. CASE Decide /\ cj' # cj
  <2>1. /\ client = "decide" /\ client' = client /\ cj <= Len(entries) /\ cj' = cj + 1
        /\ UNCHANGED <<src, dest, quiet, entries>> /\ dest[Wanted.path] = Wanted.hash
    BY <1>6 DEF Decide
  <2>2. quiet => dest[entries[cj].path] = src[entries[cj].path]
    BY <2>1, <1>1, <1>2 DEF QuietFits, Wanted
  <2>3. ASSUME quiet, NEW k \in 1 .. Len(entries), k < cj'
        PROVE  dest[entries[k].path] = src[entries[k].path]
    <3>1. k < cj \/ k = cj
      BY <2>1, <2>3, <1>2
    <3> QED
      BY <3>1, <2>1, <2>2, <2>3 DEF SettledFits
  <2> QED
    BY <2>1, <2>3 DEF SettledFits
<1>7. CASE Rename
  <2>1. /\ client = "receive" /\ client' = "decide" /\ cj' = cj + 1 /\ manifest = "read"
        /\ UNCHANGED <<src, quiet, entries>> /\ cj \in 1 .. Len(entries) /\ cj - 1 + 1 = cj
    BY <1>1, <1>2, <1>7, PartFacts DEF Rename, ManifestFits
  <2>2. PICK file : /\ quiet => file = entries[cj].hash
                    /\ dest' = [dest EXCEPT ![entries[cj].path] = file]
    BY <1>7, <2>1, RenameDelivers DEF Protocol!Deliver, Protocol!Due
  <2>3. quiet => dest'[entries[cj].path] = src[entries[cj].path]
    BY <2>1, <2>2, <1>1, <1>2 DEF QuietFits
  <2>4. ASSUME quiet, NEW k \in 1 .. Len(entries), k < cj'
        PROVE  dest'[entries[k].path] = src[entries[k].path]
    <3>1. CASE entries[k].path = entries[cj].path
      BY <3>1, <2>3, <2>4
    <3>2. CASE entries[k].path # entries[cj].path
      <4>1. k < cj
        BY <3>2, <2>1, <2>4, <1>2
      <4>2. dest'[entries[k].path] = dest[entries[k].path]
        BY <3>2, <2>2, <1>2
      <4> QED
        BY <4>1, <4>2, <2>1, <2>4 DEF SettledFits
    <3> QED
      BY <3>1, <3>2
  <2> QED
    BY <2>1, <2>4 DEF SettledFits
<1>8. CASE ClientFinishes
  BY <1>1, <1>8 DEF ClientFinishes, ManifestFits, SettledFits
<1>9. CASE ReadManifest \/ Create \/ Receive \/ ClientFails \/ (Decide /\ cj' = cj)
  <2>1. /\ client \in {"manifest", "decide", "create", "receive"} /\ client' # "ok"
        /\ UNCHANGED <<src, dest, quiet, entries, cj>>
    BY <1>1, <1>9 DEF ReadManifest, Create, Receive, ClientFails, Decide, Over, TypeOK
  <2> QED
    BY <2>1 DEF SettledFits
<1>10. CASE UNCHANGED vars
  BY <1>10 DEF vars, SettledFits
<1> QED
  BY <1>3, <1>4, <1>5, <1>6, <1>7, <1>8, <1>9, <1>10 DEF Next, ClientStep

(* A download that ended without an error left the sender's files in the     *)
(* output directory, unless they changed meanwhile: the promise that         *)
(* handleConn breaks for a list with a directory before a file, and only for *)
(* such a list.                                                              *)
THEOREM TransferSessionDelivers ==
  ASSUME DirsLast
  PROVE  Spec => []SessionDelivers
<1>1. Init => SettledFits
  BY DEF Init, SettledFits
<1>2. DeliveryInv /\ SettledFits /\ [Next]_vars => SettledFits'
  BY SettledKept
<1>3. DeliveryInv /\ SettledFits => SessionDelivers
  <2> SUFFICES ASSUME DeliveryInv, SettledFits, client = "ok", quiet,
                      NEW n \in 1 .. Len(List), List[n] \in File
               PROVE  dest[List[n]] = src[List[n]]
    BY DEF SessionDelivers
  <2>1. TypeOK /\ ManifestFits /\ EntriesFit
    BY DEF DeliveryInv, QuietInv, StepInv, TypeInv
  <2>2. si > Len(List) /\ cj > Len(entries)
    BY <2>1 DEF ManifestFits, SettledFits
  <2>3. n \in Scanned
    BY <2>1, <2>2, EntryFacts, ContentFacts DEF Scanned
  <2>4. PICK k \in 1 .. Len(entries) : entries[k].path = List[n]
    BY <2>1, <2>3 DEF EntriesFit
  <2>5. k < cj
    BY <2>1, <2>2, <2>4, EntryFacts
  <2> QED
    BY <2>4, <2>5 DEF SettledFits
<1> QED
  BY <1>1, <1>2, <1>3, DeliveryInvariant, PTL DEF Spec

=============================================================================
