--------------------------- MODULE DownloadsProofs ---------------------------
(***************************************************************************)
(* The safety of overlapping downloads, for any set of listener runs, any  *)
(* contents and any number of downloads.                                   *)
(***************************************************************************)
EXTENDS Downloads, SequenceTheorems, FiniteSetTheorems, TLAPS

(* Downloads that may still make a file.                                     *)
Pending == {d \in Listener : at[d] \in {"check", "create"}}

(* There are files enough: every download makes at most one.                 *)
FilesSuffice ==
  IsFiniteSet(Pending) /\ newest + Cardinality(Pending) <= sessions + 1

(* Where a download is and how far it has got.                               *)
OffsetFits ==
  \A d \in Listener :
    /\ at[d] \in {"check", "create"} => offset[d] = 0
    /\ at[d] \in {"write", "rename"} => file[d] # NoFile
    /\ at[d] = "write" => offset[d] < Len(promised[d])
    /\ at[d] = "rename" => offset[d] = Len(promised[d])
    /\ at[d] # "over" => promised[d] \in offers

TypeInv == TypeOK /\ FilesSuffice /\ OffsetFits

(* A file in use is named .part or was given the name dest.                  *)
KeptOrPlaced ==
  \A d \in Listener :
    at[d] \in {"write", "rename"} /\ part # file[d] => file[d] \in placed

(* Nobody but the download that truncated it uses a file that is not shared, *)
(* which holds what that download has written; when its name .part is gone   *)
(* it is whole and nobody uses it.                                           *)
UnsharedIsSound ==
  \A f \in 1 .. newest : f \notin shared =>
    /\ \A d \in Users(f) :
         /\ d = truncator[f] /\ Len(data[f]) = offset[d]
         /\ \A n \in 1 .. offset[d] : data[f][n] = promised[d][n]
    /\ f # part => data[f] \in Content /\ Users(f) = {}

(* The files that downloads made; the other one is the earlier version.      *)
Made == placed \cup ({part} \ {NoFile})

(* One file f, when c is the only content that was ever promised: it is      *)
(* right as far as the download that truncated it last has written, and      *)
(* whole when that one is through.                                           *)
Repaired(f, c) ==
  LET t == truncator[f] IN
  /\ Len(data[f]) <= Len(c)
  /\ t \in Users(f) => /\ offset[t] <= Len(data[f])
                       /\ \A n \in 1 .. offset[t] : data[f][n] = c[n]
  /\ t \in Users(f) \/ f \in cut \/ data[f] = c

SameIsRepaired ==
  \A c \in offers : offers \subseteq {c} => \A f \in Made : Repaired(f, c)

MadeFiles == shared \subseteq Made /\ (offers = {} => Made = {})

FilesInv == KeptOrPlaced /\ UnsharedIsSound /\ MadeFiles /\ SameIsRepaired

-----------------------------------------------------------------------------
(* Data.                                                                     *)

LEMMA ContentType ==
  ASSUME NEW c \in Content
  PROVE  /\ c \in Seq(Byte) /\ Len(c) \in Nat \ {0}
         /\ \A k \in 1 .. Len(c) : c[k] \in Byte
<1>1. c \in Seq(Nat \ {0}) /\ c # <<>>
  BY DownloadsAssumption
<1>2. Len(c) \in Nat \ {0} /\ c \in [1 .. Len(c) -> Nat \ {0}]
  BY <1>1, EmptySeq, LenProperties
<1>3. ASSUME NEW k \in 1 .. Len(c) PROVE c[k] \in Byte
  <2>1. c[k] \in {c[j] : j \in 1 .. Len(c)}
    OBVIOUS
  <2>2. {c[j] : j \in 1 .. Len(c)} \in {{b[j] : j \in 1 .. Len(b)} : b \in Content}
    OBVIOUS
  <2> QED
    BY <2>1, <2>2 DEF Byte
<1>4. c \in [1 .. Len(c) -> Byte]
  BY <1>2, <1>3
<1>5. c \in Seq(Byte)
  BY <1>2, <1>4, SeqDef
<1> QED
  BY <1>2, <1>3, <1>5

(* One byte of a write: the file gets as long as it has to.                  *)
LEMMA WrittenType ==
  ASSUME NEW s \in Seq(Byte), NEW k \in Nat \ {0}, NEW b \in Byte
  PROVE  /\ Written(s, k, b) \in Seq(Byte)
         /\ Len(Written(s, k, b)) = IF Len(s) < k THEN k ELSE Len(s)
         /\ \A n \in 1 .. Len(Written(s, k, b)) :
              Written(s, k, b)[n] = IF n = k THEN b ELSE IF n <= Len(s) THEN s[n] ELSE Gap
<1> DEFINE m == IF Len(s) < k THEN k ELSE Len(s)
           w == Written(s, k, b)
<1>1. m \in Nat
  BY LenProperties
<1>2. \A n \in 1 .. Len(s) : s[n] \in Byte
  BY ElementOfSeq
<1>3. w = [n \in 1 .. m |-> IF n = k THEN b ELSE IF n <= Len(s) THEN s[n] ELSE Gap]
  BY DEF Written
<1>4. w \in [1 .. m -> Byte]
  <2>1. Len(s) \in Nat /\ Gap \in Byte
    BY LenProperties DEF Byte
  <2> HIDE DEF m
  <2>2. \A n \in 1 .. m : n \notin 1 .. Len(s) => ~(n <= Len(s))
    BY <1>1, <2>1
  <2>3. \A n \in 1 .. m : (IF n = k THEN b ELSE IF n <= Len(s) THEN s[n] ELSE Gap) \in Byte
    BY <1>2, <2>1, <2>2
  <2> QED
    BY <1>3, <2>3
<1> HIDE DEF m, w
<1>5. w \in Seq(Byte) /\ Len(w) = m
  <2>1. w \in Seq(Byte)
    BY <1>1, <1>4, SeqDef
  <2>2. DOMAIN w = 1 .. m /\ DOMAIN w = 1 .. Len(w) /\ Len(w) \in Nat
    BY <1>4, <2>1, LenProperties
  <2> QED
    BY <1>1, <2>1, <2>2
<1> QED
  BY <1>3, <1>5 DEF m, w

-----------------------------------------------------------------------------
(* Types.                                                                    *)

LEMMA InitTypes == Init => TypeInv
<1> SUFFICES ASSUME Init PROVE TypeInv
  OBVIOUS
<1>1. Pending = {} /\ IsFiniteSet(Pending) /\ Cardinality(Pending) = 0
  BY FS_EmptySet DEF Init, Pending
<1>2. newest \in {0, 1} /\ 1 \in Inode
  BY DownloadsAssumption DEF Init, Inode
<1>3. data \in [Inode -> Seq(Byte)]
  BY ContentType, EmptySeq, ZenonT(60) DEF Init
<1>4. PICK c \in Content : promised = [d \in Listener |-> c]
  BY DEF Init
<1>5. \A d \in Listener : offset[d] <= Len(promised[d])
  <2>1. \A d \in Listener : promised[d] = c /\ offset[d] = 0
    <3>1. offset = [d \in Listener |-> 0]
      BY DEF Init
    <3> QED
      BY <1>4, <3>1
  <2>2. 0 <= Len(c)
    BY ContentType
  <2>3. \A d \in Listener : Len(promised[d]) = Len(c)
    BY <2>1, Zenon
  <2> QED
    BY <2>1, <2>2, <2>3
<1>6. TypeOK
  BY <1>2, <1>3, <1>4, <1>5, DownloadsAssumption DEF Init, TypeOK, NoFile, Inode
<1>7. FilesSuffice
  BY <1>1, <1>2 DEF Init, FilesSuffice
<1>8. OffsetFits
  BY DEF Init, OffsetFits
<1> QED
  BY <1>6, <1>7, <1>8 DEF TypeInv

(* The files that are counted: one download more or less.                    *)
LEMMA PendingCounts ==
  ASSUME TypeOK, FilesSuffice, NEW d \in Listener, NEW label, Goto(d, label)
  PROVE  /\ Pending' = IF label \in {"check", "create"} THEN Pending \cup {d} ELSE Pending \ {d}
         /\ IsFiniteSet(Pending') /\ Cardinality(Pending') \in Nat
         /\ Cardinality(Pending) \in Nat
         /\ Cardinality(Pending') <= Cardinality(Pending) + 1
         /\ d \in Pending => /\ Cardinality(Pending') <= Cardinality(Pending)
                             /\ label \notin {"check", "create"} =>
                                  Cardinality(Pending') = Cardinality(Pending) - 1
         /\ label \notin {"check", "create"} => Cardinality(Pending') <= Cardinality(Pending)
<1>1. Pending' = IF label \in {"check", "create"} THEN Pending \cup {d} ELSE Pending \ {d}
  BY DEF Goto, TypeOK, Pending
<1>2. IsFiniteSet(Pending) /\ Cardinality(Pending) \in Nat
  BY FS_CardinalityType DEF FilesSuffice
<1>3. CASE label \in {"check", "create"}
  BY <1>1, <1>2, <1>3, FS_AddElement, FS_CardinalityType, SMTT(60)
<1>4. CASE label \notin {"check", "create"}
  <2>1. /\ IsFiniteSet(Pending \ {d}) /\ Cardinality(Pending \ {d}) \in Nat
        /\ Cardinality(Pending \ {d}) =
             IF d \in Pending THEN Cardinality(Pending) - 1 ELSE Cardinality(Pending)
    BY <1>2, FS_RemoveElement, FS_CardinalityType
  <2>2. Pending' = Pending \ {d}
    BY <1>1, <1>4
  <2> QED
    BY <1>2, <1>4, <2>1, <2>2
<1> QED
  BY <1>1, <1>2, <1>3, <1>4

(* The promised content of a download that is going on.                      *)
LEMMA PromisedType ==
  ASSUME TypeOK, NEW d \in Listener
  PROVE  /\ promised[d] \in Content /\ promised[d] \in Seq(Byte)
         /\ Len(promised[d]) \in Nat \ {0} /\ offset[d] \in Nat
         /\ \A k \in 1 .. Len(promised[d]) : promised[d][k] \in Byte
<1>1. promised[d] \in Content /\ offset[d] \in Nat
  BY DEF TypeOK
<1> QED
  BY <1>1, ContentType

(* A write goes to a file that exists, and adds the next promised byte.      *)
LEMMA WriteType ==
  ASSUME TypeInv, NEW d \in Listener, Write(d)
  PROVE  LET f == file[d]  k == offset[d] + 1 IN
         /\ f \in 1 .. newest /\ f \in Inode /\ d \in Users(f)
         /\ k \in 1 .. Len(promised[d]) /\ offset' = [offset EXCEPT ![d] = k]
         /\ data'[f] = Written(data[f], k, promised[d][k])
         /\ data' \in [Inode -> Seq(Byte)]
         /\ \A g \in Inode \ {f} : data'[g] = data[g]
         /\ at' = IF k = Len(promised[d]) THEN [at EXCEPT ![d] = "rename"] ELSE at
<1> DEFINE f == file[d]  k == offset[d] + 1
<1>1. f \in 0 .. newest /\ f # NoFile /\ newest \in Nat /\ newest <= MaxSessions + 1
  BY DownloadsAssumption DEF TypeInv, TypeOK, OffsetFits, Write, Inode, NoFile
<1>2. f \in 1 .. newest /\ f \in Inode
  BY <1>1, DownloadsAssumption DEF Inode, NoFile
<1>3. offset[d] < Len(promised[d]) /\ at[d] = "write"
  BY DEF TypeInv, OffsetFits, Write
<1>4. k \in 1 .. Len(promised[d]) /\ promised[d][k] \in Byte
  BY <1>3, PromisedType DEF TypeInv
<1>5. data \in [Inode -> Seq(Byte)] /\ data[f] \in Seq(Byte)
  BY <1>2 DEF TypeInv, TypeOK
<1>6. Written(data[f], k, promised[d][k]) \in Seq(Byte)
  BY <1>4, <1>5, WrittenType
<1>7. data' = [data EXCEPT ![f] = Written(data[f], k, promised[d][k])]
  BY DEF Write
<1> HIDE DEF f, k
<1>8. /\ data'[f] = Written(data[f], k, promised[d][k])
      /\ data' \in [Inode -> Seq(Byte)]
      /\ \A g \in Inode \ {f} : data'[g] = data[g]
  BY <1>2, <1>5, <1>6, <1>7
<1>9. /\ offset' = [offset EXCEPT ![d] = k]
      /\ at' = IF k = Len(promised[d]) THEN [at EXCEPT ![d] = "rename"] ELSE at
  BY DEF Write, Goto, f, k
<1>10. d \in Users(f)
  BY <1>3 DEF Users, f
<1> QED
  BY <1>2, <1>4, <1>8, <1>9, <1>10 DEF f, k

(* The file that os.Create opens: the one named .part, or a new one.         *)
LEMMA CreateType ==
  ASSUME TypeInv, NEW d \in Listener, Create(d)
  PROVE  LET f == file'[d] IN
         /\ f = (IF part # NoFile THEN part ELSE newest + 1) /\ f \in Inode
         /\ part' = f /\ f # dest /\ newest' \in Nat /\ newest <= newest'
         /\ newest \in Nat /\ 1 .. newest' = 1 .. newest \cup {f}
         /\ data' \in [Inode -> Seq(Byte)] /\ data'[f] = <<>>
         /\ \A g \in Inode \ {f} : data'[g] = data[g]
         /\ truncator' \in [Inode -> Listener] /\ truncator'[f] = d
         /\ \A g \in Inode \ {f} : truncator'[g] = truncator[g]
         /\ \A e \in Listener \ {d} : file'[e] = file[e]
         /\ newest' + Cardinality(Pending') <= sessions + 1
<1> DEFINE f == IF part # NoFile THEN part ELSE newest + 1
<1>1. /\ d \in Pending /\ Goto(d, "write") /\ sessions \in Nat /\ sessions <= MaxSessions
      /\ newest \in Nat /\ part \in 0 .. newest /\ newest + Cardinality(Pending) <= sessions + 1
  BY DownloadsAssumption DEF Create, Pending, TypeInv, TypeOK, FilesSuffice, Inode, NoFile
<1>2. /\ Cardinality(Pending) \in Nat /\ Cardinality(Pending') \in Nat
      /\ Cardinality(Pending') = Cardinality(Pending) - 1
  BY <1>1, PendingCounts DEF TypeInv
<1>3. newest' = IF part # NoFile THEN newest ELSE newest + 1
  BY DEF Create
<1>4. f \in Inode /\ f \in Nat /\ newest' \in Nat /\ newest <= newest'
      /\ newest' + Cardinality(Pending') <= sessions + 1
  BY <1>1, <1>2, <1>3, DownloadsAssumption DEF Inode, NoFile
<1>5. 1 .. newest' = 1 .. newest \cup {f}
  BY <1>1, <1>3 DEF NoFile
<1>6. f # dest
  BY <1>1 DEF TypeInv, TypeOK, NoFile
<1>7. /\ file' = [file EXCEPT ![d] = f] /\ data' = [data EXCEPT ![f] = <<>>]
      /\ truncator' = [truncator EXCEPT ![f] = d] /\ part' = f
  BY DEF Create
<1> HIDE DEF f
<1>8. /\ file'[d] = f /\ \A e \in Listener \ {d} : file'[e] = file[e]
      /\ truncator' \in [Inode -> Listener] /\ truncator'[f] = d
      /\ \A g \in Inode \ {f} : truncator'[g] = truncator[g]
  BY <1>4, <1>7 DEF TypeInv, TypeOK
<1>9. /\ data' \in [Inode -> Seq(Byte)] /\ data'[f] = <<>>
      /\ \A g \in Inode \ {f} : data'[g] = data[g]
  BY <1>4, <1>7, EmptySeq DEF TypeInv, TypeOK
<1>10. file'[d] = (IF part # NoFile THEN part ELSE newest + 1)
  BY <1>8 DEF f
<1> QED
  BY <1>1, <1>4, <1>5, <1>6, <1>7, <1>8, <1>9, <1>10

LEMMA StepKeepsTypes == TypeInv /\ [Next]_vars => TypeInv'
<1> SUFFICES ASSUME TypeInv, [Next]_vars PROVE TypeInv'
  OBVIOUS
<1> USE DEF fileVars, clientVars, historyVars
<1>1. /\ newest \in Nat /\ dest \in 0 .. newest /\ part \in 0 .. newest
      /\ \A d \in Listener : file[d] \in 0 .. newest
  BY DownloadsAssumption DEF TypeInv, TypeOK, Inode, NoFile
<1>2. CASE UNCHANGED vars
  BY <1>2 DEF vars, TypeInv, TypeOK, FilesSuffice, OffsetFits, Pending
<1>3. ASSUME NEW d \in Listener, Begin(d) PROVE TypeInv'
  <2>1. PICK c \in Content : promised' = [promised EXCEPT ![d] = c] /\ offers' = offers \cup {c}
    BY <1>3 DEF Begin
  <2>2. Len(c) \in Nat \ {0}
    BY ContentType
  <2>3. /\ promised'[d] = c /\ offset'[d] = 0 /\ file'[d] = NoFile /\ at'[d] = "check"
        /\ \A e \in Listener \ {d} : /\ promised'[e] = promised[e] /\ offset'[e] = offset[e]
                                     /\ file'[e] = file[e] /\ at'[e] = at[e]
    BY <1>3, <2>1 DEF Begin, Goto, TypeInv, TypeOK
  <2>4. \A e \in Listener : offset'[e] <= Len(promised'[e])
    <3>1. Len(promised'[d]) = Len(c)
      BY <2>3, Zenon
    <3>2. \A e \in Listener \ {d} : Len(promised'[e]) = Len(promised[e])
      BY <2>3, Zenon
    <3>3. \A e \in Listener \ {d} : offset[e] <= Len(promised[e])
      BY DEF TypeInv, TypeOK
    <3> QED
      BY <2>2, <2>3, <3>1, <3>2, <3>3
  <2>5. TypeOK'
    <3>1. /\ promised' \in [Listener -> Content] /\ offset' \in [Listener -> Nat]
          /\ file' \in [Listener -> 0 .. newest] /\ offers' \subseteq Content
          /\ at' \in [Listener -> {"over", "check", "create", "write", "rename"}]
      BY <1>1, <1>3, <2>1, SMTT(60) DEF Begin, Goto, TypeInv, TypeOK, NoFile
    <3>2. sessions' \in 0 .. MaxSessions
      BY <1>3, DownloadsAssumption DEF Begin, TypeInv, TypeOK
    <3>3. UNCHANGED <<data, newest, dest, part, truncator, cut, shared, placed>>
      BY <1>3 DEF Begin
    <3> QED
      BY <2>4, <3>1, <3>2, <3>3 DEF TypeInv, TypeOK
  <2>6. FilesSuffice'
    <3>1. /\ IsFiniteSet(Pending') /\ Cardinality(Pending') <= Cardinality(Pending) + 1
          /\ Cardinality(Pending) \in Nat /\ Cardinality(Pending') \in Nat
      BY <1>3, PendingCounts DEF Begin, TypeInv
    <3>2. /\ newest' = newest /\ sessions' = sessions + 1 /\ sessions \in Nat
          /\ newest + Cardinality(Pending) <= sessions + 1
      BY <1>3, DownloadsAssumption DEF Begin, TypeInv, TypeOK, FilesSuffice
    <3> QED
      BY <1>1, <3>1, <3>2 DEF FilesSuffice
  <2>7. OffsetFits'
    <3>1. promised'[d] \in offers' /\ offers \subseteq offers'
      BY <2>1, <2>3
    <3> QED
      BY <2>3, <3>1 DEF TypeInv, OffsetFits
  <2> QED
    BY <2>5, <2>6, <2>7 DEF TypeInv
<1>4. ASSUME NEW d \in Listener, NEW label \in {"over", "create"},
             Goto(d, label), at[d] # "over", label = "create" => at[d] = "check",
             UNCHANGED <<data, newest, promised, file, offset, sessions, truncator, offers>>,
             dest' \in 0 .. newest, part' \in 0 .. newest, dest' # NoFile => dest' # part',
             cut' \subseteq 1 .. newest, shared' \subseteq 1 .. newest, placed' \subseteq 1 .. newest
      PROVE  TypeInv'
  <2>1. /\ at' \in [Listener -> {"over", "check", "create", "write", "rename"}]
        /\ at'[d] = label /\ \A e \in Listener \ {d} : at'[e] = at[e]
    BY <1>4 DEF Goto, TypeInv, TypeOK
  <2>2. TypeOK'
    BY <1>4, <2>1 DEF TypeInv, TypeOK
  <2>3. FilesSuffice'
    <3>1. /\ IsFiniteSet(Pending') /\ Cardinality(Pending') <= Cardinality(Pending)
          /\ Cardinality(Pending) \in Nat /\ Cardinality(Pending') \in Nat
      BY <1>4, PendingCounts DEF Pending, TypeInv
    <3>2. newest + Cardinality(Pending) <= sessions + 1 /\ sessions \in Nat
      BY DownloadsAssumption DEF TypeInv, TypeOK, FilesSuffice
    <3> QED
      BY <1>1, <1>4, <3>1, <3>2 DEF FilesSuffice
  <2>4. OffsetFits'
    BY <1>4, <2>1 DEF TypeInv, OffsetFits
  <2> QED
    BY <2>2, <2>3, <2>4 DEF TypeInv
<1>5. ASSUME NEW d \in Listener, Check(d) PROVE TypeInv'
  <2>1. /\ (Goto(d, "over") \/ Goto(d, "create")) /\ at[d] = "check" /\ at[d] # "over"
        /\ UNCHANGED <<fileVars, promised, file, offset, sessions, historyVars>>
    BY <1>5 DEF Check
  <2>2. cut \subseteq 1 .. newest /\ shared \subseteq 1 .. newest /\ placed \subseteq 1 .. newest
        /\ (dest # NoFile => dest # part)
    BY DEF TypeInv, TypeOK
  <2> QED
    BY <1>1, <1>4, <1>5, <2>1, <2>2 DEF Check
<1>6. ASSUME NEW d \in Listener, Create(d) PROVE TypeInv'
  <2> DEFINE f == file'[d]
  <2>1. /\ f \in Inode /\ part' = f /\ f # dest /\ newest' \in Nat /\ newest <= newest'
        /\ 1 .. newest' = 1 .. newest \cup {f} /\ f \in 1 .. newest'
        /\ data' \in [Inode -> Seq(Byte)] /\ truncator' \in [Inode -> Listener]
        /\ \A e \in Listener \ {d} : file'[e] = file[e]
        /\ newest' + Cardinality(Pending') <= sessions + 1
    BY <1>6, CreateType
  <2>2. /\ at' = [at EXCEPT ![d] = "write"] /\ at[d] = "create"
        /\ UNCHANGED <<dest, promised, offset, sessions, placed, offers>>
    BY <1>6 DEF Create, Goto
  <2>3. /\ at' \in [Listener -> {"over", "check", "create", "write", "rename"}]
        /\ at'[d] = "write" /\ \A e \in Listener \ {d} : at'[e] = at[e]
    BY <2>2 DEF TypeInv, TypeOK
  <2>4. file' \in [Listener -> 0 .. newest']
    <3>1. DOMAIN file' = Listener /\ file' = [e \in Listener |-> file'[e]]
      BY <1>6 DEF Create, TypeInv, TypeOK
    <3>2. \A e \in Listener : file'[e] \in 0 .. newest'
      BY <1>1, <2>1, SMTT(60)
    <3> QED
      BY <3>1, <3>2
  <2>5. /\ 1 .. newest \subseteq 1 .. newest' /\ 0 .. newest \subseteq 0 .. newest'
        /\ f \in 0 .. newest'
    BY <1>1, <2>1
  <2>6. cut' \subseteq 1 .. newest' /\ shared' \subseteq 1 .. newest' /\ placed' \subseteq 1 .. newest'
    <3>1. cut' \subseteq cut /\ shared' \subseteq shared \cup {f} /\ placed' = placed
      BY <1>6, <2>1 DEF Create
    <3> QED
      BY <2>1, <2>5, <3>1 DEF TypeInv, TypeOK
  <2>7. newest' \in Inode \cup {NoFile}
    <3>1. Cardinality(Pending') \in Nat
      BY <1>6, PendingCounts DEF Create, TypeInv
    <3>2. sessions \in Nat /\ sessions <= MaxSessions
      BY DownloadsAssumption DEF TypeInv, TypeOK
    <3>3. newest' <= MaxSessions + 1
      BY <2>1, <3>1, <3>2, DownloadsAssumption
    <3> QED
      BY <2>1, <3>3, DownloadsAssumption DEF Inode, NoFile
  <2>8. TypeOK'
    BY <1>1, <2>1, <2>2, <2>3, <2>4, <2>5, <2>6, <2>7 DEF TypeInv, TypeOK
  <2>9. FilesSuffice'
    <3>1. IsFiniteSet(Pending')
      BY <1>6, PendingCounts DEF Create, TypeInv
    <3> QED
      BY <2>1, <2>2, <3>1 DEF FilesSuffice
  <2>10. OffsetFits'
    <3>1. offset[d] = 0 /\ promised[d] \in offers
      BY <2>2 DEF TypeInv, OffsetFits
    <3>2. 0 < Len(promised[d])
      BY PromisedType DEF TypeInv
    <3>3. f # NoFile
      BY <2>1 DEF NoFile
    <3> QED
      BY <2>1, <2>2, <2>3, <3>1, <3>2, <3>3 DEF TypeInv, OffsetFits
  <2> QED
    BY <2>8, <2>9, <2>10 DEF TypeInv
<1>7. ASSUME NEW d \in Listener, Write(d) PROVE TypeInv'
  <2> DEFINE k == offset[d] + 1
  <2>1. /\ k \in 1 .. Len(promised[d]) /\ offset' = [offset EXCEPT ![d] = k]
        /\ data' \in [Inode -> Seq(Byte)]
        /\ at' = IF k = Len(promised[d]) THEN [at EXCEPT ![d] = "rename"] ELSE at
    BY <1>7, WriteType
  <2>2. at[d] = "write" /\ UNCHANGED <<newest, dest, part, promised, file, sessions, historyVars>>
    BY <1>7 DEF Write
  <2>3. Len(promised[d]) \in Nat \ {0} /\ offset[d] \in Nat
    BY PromisedType DEF TypeInv
  <2>4. /\ offset' \in [Listener -> Nat] /\ offset'[d] = k
        /\ \A e \in Listener \ {d} : offset'[e] = offset[e]
        /\ at' \in [Listener -> {"over", "check", "create", "write", "rename"}]
        /\ at'[d] = IF k = Len(promised[d]) THEN "rename" ELSE "write"
        /\ \A e \in Listener \ {d} : at'[e] = at[e]
    BY <2>1, <2>2, <2>3, SMTT(60) DEF TypeInv, TypeOK
  <2>5. TypeOK'
    <3>1. \A e \in Listener : offset'[e] <= Len(promised[e])
      <4>1. offset'[d] <= Len(promised[d])
        BY <2>1, <2>3, <2>4
      <4>2. \A e \in Listener : offset[e] <= Len(promised[e])
        BY DEF TypeInv, TypeOK
      <4> QED
        BY <2>4, <4>1, <4>2
    <3> QED
      BY <2>1, <2>2, <2>4, <3>1 DEF TypeInv, TypeOK
  <2>6. Pending' = Pending
    BY <2>2, <2>4 DEF Pending
  <2>7. FilesSuffice'
    BY <2>2, <2>6 DEF TypeInv, FilesSuffice
  <2>8. OffsetFits'
    BY <2>1, <2>2, <2>3, <2>4 DEF TypeInv, OffsetFits
  <2> QED
    BY <2>5, <2>7, <2>8 DEF TypeInv
<1>8. ASSUME NEW d \in Listener, Rename(d) PROVE TypeInv'
  <2>1. /\ at[d] # "over" /\ Goto(d, "over")
        /\ UNCHANGED <<data, newest, promised, file, offset, sessions, truncator, cut, offers>>
    BY <1>8 DEF Rename
  <2>2. /\ dest' \in 0 .. newest /\ part' \in 0 .. newest /\ (dest' # NoFile => dest' # part')
        /\ shared' \subseteq 1 .. newest /\ placed' \subseteq 1 .. newest
    <3>1. part # NoFile => part \in 1 .. newest
      BY <1>1 DEF NoFile
    <3>2. 0 \in 0 .. newest
      BY <1>1
    <3> QED
      BY <1>1, <1>8, <3>1, <3>2 DEF Rename, TypeInv, TypeOK, NoFile
  <2>3. cut' \subseteq 1 .. newest
    BY <2>1 DEF TypeInv, TypeOK
  <2> QED
    BY <1>4, <2>1, <2>2, <2>3
<1>9. ASSUME NEW d \in Listener, BreakOff(d) PROVE TypeInv'
  <2>1. /\ at[d] # "over" /\ Goto(d, "over")
        /\ UNCHANGED <<fileVars, promised, file, offset, sessions, truncator, shared, placed, offers>>
    BY <1>9 DEF BreakOff
  <2>2. Abandoned(d) \subseteq 1 .. newest
    BY <1>1 DEF Abandoned, TypeInv, OffsetFits, NoFile
  <2>3. cut' \subseteq 1 .. newest
    BY <1>9, <2>2 DEF BreakOff, TypeInv, TypeOK
  <2>4. shared \subseteq 1 .. newest /\ placed \subseteq 1 .. newest /\ (dest # NoFile => dest # part)
    BY DEF TypeInv, TypeOK
  <2> QED
    BY <1>1, <1>4, <2>1, <2>3, <2>4
<1> QED
  BY <1>2, <1>3, <1>5, <1>6, <1>7, <1>8, <1>9 DEF Next

(* Every reachable state has its type; in particular there are files for all *)
(* downloads that are started.                                               *)
THEOREM DownloadsTypeCorrect == Spec => []TypeOK
<1>1. Spec => []TypeInv
  BY InitTypes, StepKeepsTypes, PTL DEF Spec
<1>2. TypeInv => TypeOK
  BY DEF TypeInv
<1> QED
  BY <1>1, <1>2, PTL

-----------------------------------------------------------------------------
(* Files.                                                                    *)

LEMMA InitFiles == Init => FilesInv
<1> SUFFICES ASSUME Init PROVE FilesInv
  OBVIOUS
<1>1. KeptOrPlaced /\ SameIsRepaired
  BY DEF Init, KeptOrPlaced, SameIsRepaired
<1>2. Made = {} /\ MadeFiles
  BY DEF Init, Made, MadeFiles
<1>3. UnsharedIsSound
  <2> SUFFICES ASSUME NEW f \in 1 .. newest PROVE data[f] \in Content /\ Users(f) = {}
    BY DEF UnsharedIsSound
  <2>1. newest = 1 /\ f = 1 /\ 1 \in Inode
    BY DownloadsAssumption DEF Init, Inode
  <2>2. data[1] \in Content
    BY <2>1 DEF Init
  <2> QED
    BY <2>1, <2>2 DEF Init, Users
<1> QED
  BY <1>1, <1>2, <1>3 DEF FilesInv

(* What a download has that has written everything.                          *)
LEMMA WrittenIsWhole ==
  ASSUME NEW s \in Seq(Byte), NEW c \in Content, Len(s) = Len(c),
         \A n \in 1 .. Len(c) : s[n] = c[n]
  PROVE  s = c
  BY ContentType, SeqEqual

LEMMA RenamedIsWhole ==
  ASSUME TypeInv, NEW c \in offers, offers \subseteq {c}, NEW f \in 1 .. newest, Repaired(f, c),
         truncator[f] \in Users(f), at[truncator[f]] = "rename"
  PROVE  data[f] = c
<1> DEFINE t == truncator[f]
<1>1. f \in Inode
  BY DownloadsAssumption DEF TypeInv, TypeOK, Inode, NoFile
<1>2. t \in Listener /\ data[f] \in Seq(Byte) /\ c \in Content
  BY <1>1 DEF TypeInv, TypeOK
<1>3. promised[t] = c /\ offset[t] = Len(promised[t])
  BY <1>2 DEF TypeInv, OffsetFits
<1>4. offset[t] = Len(c)
  BY <1>3
<1>5. /\ Len(data[f]) <= Len(c) /\ offset[t] <= Len(data[f])
      /\ \A n \in 1 .. offset[t] : data[f][n] = c[n]
  BY DEF Repaired
<1>6. Len(data[f]) \in Nat /\ Len(c) \in Nat
  BY <1>2, ContentType, LenProperties
<1>7. Len(data[f]) = Len(c)
  BY <1>4, <1>5, <1>6
<1> QED
  BY <1>2, <1>4, <1>5, <1>7, WrittenIsWhole

(* Steps of a download that leave the files alone.                           *)
LEMMA LeavesFiles ==
  ASSUME TypeInv, FilesInv, NEW d \in Listener, Begin(d) \/ Check(d) \/ BreakOff(d)
  PROVE  FilesInv'
<1>1. /\ UNCHANGED <<fileVars, truncator, shared, placed>>
      /\ cut \subseteq cut' /\ offers \subseteq offers' /\ (offers # {} => offers' # {})
      /\ at'[d] \notin {"write", "rename"}
      /\ \A e \in Listener \ {d} : /\ at'[e] = at[e] /\ file'[e] = file[e]
                                   /\ promised'[e] = promised[e] /\ offset'[e] = offset[e]
  BY SMTT(60) DEF Begin, Check, BreakOff, Goto, historyVars, TypeInv, TypeOK
<1>2. \A f : Users(f)' = Users(f) \ {d}
  BY <1>1 DEF Users
<1>3. KeptOrPlaced'
  BY <1>1 DEF fileVars, FilesInv, KeptOrPlaced
<1>4. UnsharedIsSound'
  <2> SUFFICES ASSUME NEW f \in 1 .. newest, f \notin shared
               PROVE  /\ \A e \in Users(f)' :
                           /\ e = truncator[f] /\ Len(data[f]) = offset'[e]
                           /\ \A n \in 1 .. offset'[e] : data[f][n] = promised'[e][n]
                      /\ f # part => data[f] \in Content /\ Users(f)' = {}
    BY <1>1 DEF fileVars, UnsharedIsSound
  <2>1. /\ \A e \in Users(f) :
             /\ e = truncator[f] /\ Len(data[f]) = offset[e]
             /\ \A n \in 1 .. offset[e] : data[f][n] = promised[e][n]
        /\ f # part => data[f] \in Content /\ Users(f) = {}
    BY DEF FilesInv, UnsharedIsSound
  <2>2. \A e \in Users(f)' : e \in Users(f) /\ offset'[e] = offset[e] /\ promised'[e] = promised[e]
    BY <1>1, <1>2 DEF Users
  <2> QED
    BY <1>2, <2>1, <2>2
<1>5. Made' = Made
  BY <1>1 DEF fileVars, Made
<1>6. MadeFiles'
  BY <1>1, <1>5 DEF FilesInv, MadeFiles
<1>7. SameIsRepaired'
  <2> SUFFICES ASSUME NEW c \in offers', offers' \subseteq {c}, NEW f \in Made
               PROVE  Repaired(f, c)'
    BY <1>5 DEF SameIsRepaired
  <2> DEFINE t == truncator[f]
  <2>1. c \in offers /\ offers \subseteq {c} /\ Repaired(f, c)
    BY <1>1 DEF FilesInv, MadeFiles, SameIsRepaired
  <2>2. f \in 1 .. newest /\ t \in Listener
    <3>1. /\ placed \subseteq 1 .. newest /\ part \in 0 .. newest /\ newest \in Inode \cup {NoFile}
          /\ truncator \in [Inode -> Listener]
      BY DEF TypeInv, TypeOK
    <3>2. f \in 1 .. newest
      BY <3>1 DEF Made, NoFile
    <3>3. f \in Inode
      BY <3>1, <3>2, DownloadsAssumption DEF Inode, NoFile
    <3> QED
      BY <3>1, <3>2, <3>3
  <2>3. truncator'[f] = t /\ data'[f] = data[f]
    BY <1>1 DEF fileVars
  <2>4. t \in Users(f)' => t \in Users(f) /\ offset'[t] = offset[t]
    BY <1>1, <1>2 DEF Users
  <2>5. t \in Users(f) \ Users(f)' => f \in cut' \/ data[f] = c
    <3> SUFFICES ASSUME t \in Users(f), t \notin Users(f)' PROVE f \in cut' \/ data[f] = c
      OBVIOUS
    <3>1. t = d /\ at[d] \in {"write", "rename"} /\ file[d] = f
      BY <1>2 DEF Users
    <3>2. BreakOff(d)
      BY <3>1 DEF Begin, Check
    <3>3. CASE at[d] = "write"
      BY <3>1, <3>2, <3>3 DEF BreakOff, Abandoned
    <3>4. CASE at[d] = "rename"
      BY <2>1, <2>2, <3>1, <3>4, RenamedIsWhole
    <3> QED
      BY <3>1, <3>3, <3>4
  <2> QED
    BY <1>1, <2>1, <2>3, <2>4, <2>5 DEF Repaired
<1> QED
  BY <1>3, <1>4, <1>6, <1>7 DEF FilesInv

LEMMA CreateKeepsFiles ==
  ASSUME TypeInv, FilesInv, NEW d \in Listener, Create(d)
  PROVE  FilesInv'
<1>1. PICK f \in Inode :
      /\ f = (IF part # NoFile THEN part ELSE newest + 1) /\ f = file'[d]
      /\ part' = f /\ newest \in Nat /\ 1 .. newest' = 1 .. newest \cup {f}
      /\ data' \in [Inode -> Seq(Byte)] /\ data'[f] = <<>>
      /\ \A g \in Inode \ {f} : data'[g] = data[g]
      /\ truncator'[f] = d /\ \A g \in Inode \ {f} : truncator'[g] = truncator[g]
      /\ \A e \in Listener \ {d} : file'[e] = file[e]
  BY CreateType
<1>2. /\ at[d] = "create" /\ at'[d] = "write"
      /\ \A e \in Listener \ {d} : at'[e] = at[e]
      /\ UNCHANGED <<dest, promised, offset, sessions, placed, offers>>
      /\ offset[d] = 0 /\ promised[d] \in offers
  BY DEF Create, Goto, TypeInv, TypeOK, OffsetFits
<1>3. /\ shared' = IF Users(f) = {} THEN shared ELSE shared \cup {f}
      /\ cut' = cut \ {f}
  BY <1>1 DEF Create
<1>4. f \in Nat \ {0} /\ f # NoFile
  BY <1>1 DEF Inode, NoFile
<1>5. Users(f)' = Users(f) \cup {d} /\ \A g : g # f => Users(g)' = Users(g) /\ d \notin Users(g)
  <2>1. \A e \in Listener \ {d} : at'[e] = at[e] /\ file'[e] = file[e]
    BY <1>1, <1>2
  <2>2. /\ at'[d] \in {"write", "rename"} /\ at[d] \notin {"write", "rename"}
        /\ file'[d] = f
    BY <1>1, <1>2
  <2> QED
    BY <2>1, <2>2 DEF Users
<1>6. \A g \in 1 .. newest : g \in Inode /\ (g # f => g # NoFile)
  BY <1>1, DownloadsAssumption DEF TypeInv, TypeOK, Inode, NoFile
<1>7. KeptOrPlaced'
  <2> SUFFICES ASSUME NEW e \in Listener, at'[e] \in {"write", "rename"}, part' # file'[e]
               PROVE  file'[e] \in placed
    BY <1>2 DEF KeptOrPlaced
  <2>1. e # d /\ file'[e] = file[e] /\ at'[e] = at[e]
    BY <1>1, <1>2
  <2>2. file[e] # part
    BY <1>1, <2>1 DEF TypeInv, OffsetFits
  <2> QED
    BY <2>1, <2>2 DEF FilesInv, KeptOrPlaced
<1>8. UnsharedIsSound'
  <2> SUFFICES ASSUME NEW g \in 1 .. newest', g \notin shared'
               PROVE  /\ \A e \in Users(g)' :
                           /\ e = truncator'[g] /\ Len(data'[g]) = offset[e]
                           /\ \A n \in 1 .. offset[e] : data'[g][n] = promised[e][n]
                      /\ g # part' => data'[g] \in Content /\ Users(g)' = {}
    BY <1>2 DEF UnsharedIsSound
  <2>1. CASE g = f
    <3>1. Users(g)' = {d}
      BY <1>3, <1>5, <2>1
    <3>2. Len(data'[g]) = 0
      BY <1>1, <2>1, EmptySeq
    <3>3. \A n \in 1 .. offset[d] : FALSE
      BY <1>2
    <3> QED
      BY <1>1, <1>2, <2>1, <3>1, <3>2, <3>3
  <2>2. CASE g # f
    <3>1. g \in 1 .. newest /\ g \notin shared /\ g \in Inode /\ g # part
      BY <1>1, <1>3, <1>6, <2>2
    <3>2. data'[g] = data[g] /\ truncator'[g] = truncator[g] /\ Users(g)' = Users(g)
      BY <1>1, <1>5, <2>2, <3>1
    <3> QED
      BY <3>1, <3>2 DEF FilesInv, UnsharedIsSound
  <2> QED
    BY <2>1, <2>2
<1>9. Made' = Made \cup {f}
  BY <1>1, <1>2, <1>4 DEF Made
<1>10. MadeFiles'
  BY <1>2, <1>3, <1>9 DEF FilesInv, MadeFiles
<1>11. SameIsRepaired'
  <2> SUFFICES ASSUME NEW c \in offers, offers \subseteq {c}, NEW g \in Made \cup {f}
               PROVE  Repaired(g, c)'
    BY <1>2, <1>9 DEF SameIsRepaired
  <2>1. c \in Content
    BY DEF TypeInv, TypeOK
  <2>2. CASE g = f
    <3>1. Len(data'[g]) = 0
      BY <1>1, <2>2, EmptySeq
    <3>2. 0 <= Len(c)
      BY <2>1, ContentType
    <3>3. truncator'[g] = d /\ d \in Users(g)' /\ offset'[d] = 0
      BY <1>1, <1>2, <1>5, <2>2, Zenon
    <3>4. \A n \in 1 .. offset'[d] : FALSE
      BY <3>3
    <3> QED
      BY <3>1, <3>2, <3>3, <3>4 DEF Repaired
  <2>3. CASE g # f
    <3>1. g \in Made /\ g \in Inode /\ Repaired(g, c)
      <4>1. g \in Made
        BY <2>3
      <4>2. g \in 1 .. newest
        BY <1>1, <4>1, SMTT(60) DEF TypeInv, TypeOK, Made, NoFile
      <4> QED
        BY <1>6, <4>1, <4>2 DEF FilesInv, SameIsRepaired
    <3>2. data'[g] = data[g] /\ truncator'[g] = truncator[g] /\ Users(g)' = Users(g)
      BY <1>1, <1>5, <2>3, <3>1
    <3> QED
      BY <1>2, <1>3, <2>3, <3>1, <3>2 DEF Repaired
  <2> QED
    BY <2>2, <2>3
<1> QED
  BY <1>7, <1>8, <1>10, <1>11 DEF FilesInv

LEMMA RenameKeepsFiles ==
  ASSUME TypeInv, FilesInv, NEW d \in Listener, Rename(d)
  PROVE  FilesInv'
<1>1. /\ at[d] = "rename" /\ at'[d] = "over" /\ \A e \in Listener \ {d} : at'[e] = at[e]
      /\ UNCHANGED <<data, newest, promised, file, offset, truncator, cut, offers>>
      /\ part' = NoFile
      /\ placed' = placed \cup ({part} \ {NoFile})
      /\ shared' = shared \cup ({part} \ {NoFile, file[d]})
  <2>1. CASE part # NoFile
    BY <2>1 DEF Rename, Goto, TypeInv, TypeOK
  <2>2. CASE part = NoFile
    BY <2>2 DEF Rename, Goto, TypeInv, TypeOK
  <2> QED
    BY <2>1, <2>2
<1>2. \A f : Users(f)' = Users(f) \ {d}
  BY <1>1 DEF Users
<1>3. newest \in Nat /\ \A f \in 1 .. newest : f \in Inode /\ f # NoFile
  BY DownloadsAssumption DEF TypeInv, TypeOK, Inode, NoFile
<1>4. KeptOrPlaced'
  <2> SUFFICES ASSUME NEW e \in Listener, at'[e] \in {"write", "rename"}
               PROVE  file[e] \in placed'
    BY <1>1 DEF KeptOrPlaced
  <2>1. e # d /\ at[e] = at'[e]
    BY <1>1
  <2>2. CASE file[e] = part
    BY <1>1, <2>1, <2>2 DEF TypeInv, OffsetFits
  <2>3. CASE file[e] # part
    BY <1>1, <2>1, <2>3 DEF FilesInv, KeptOrPlaced
  <2> QED
    BY <2>2, <2>3
<1>5. UnsharedIsSound'
  <2> SUFFICES ASSUME NEW f \in 1 .. newest, f \notin shared'
               PROVE  /\ \A e \in Users(f)' :
                           /\ e = truncator[f] /\ Len(data[f]) = offset[e]
                           /\ \A n \in 1 .. offset[e] : data[f][n] = promised[e][n]
                      /\ data[f] \in Content /\ Users(f)' = {}
    BY <1>1 DEF UnsharedIsSound
  <2>1. /\ f \notin shared
        /\ \A e \in Users(f) :
             /\ e = truncator[f] /\ Len(data[f]) = offset[e]
             /\ \A n \in 1 .. offset[e] : data[f][n] = promised[e][n]
        /\ f # part => data[f] \in Content /\ Users(f) = {}
    BY <1>1 DEF FilesInv, UnsharedIsSound
  <2>2. CASE f = part
    <3>1. file[d] = f /\ d \in Users(f)
      BY <1>1, <1>3, <2>2 DEF Users
    <3>2. Users(f)' = {}
      BY <1>2, <2>1, <3>1
    <3>3. data[f] = promised[d]
      <4>1. /\ offset[d] = Len(promised[d]) /\ Len(data[f]) = offset[d]
            /\ \A n \in 1 .. offset[d] : data[f][n] = promised[d][n]
        BY <1>1, <2>1, <3>1 DEF TypeInv, OffsetFits
      <4>2. data[f] \in Seq(Byte) /\ promised[d] \in Content
        BY <1>3 DEF TypeInv, TypeOK
      <4> QED
        BY <4>1, <4>2, WrittenIsWhole
    <3>4. promised[d] \in Content
      BY PromisedType DEF TypeInv
    <3> QED
      BY <3>2, <3>3, <3>4
  <2>3. CASE f # part
    BY <1>2, <2>1, <2>3
  <2> QED
    BY <2>2, <2>3
<1>6. Made' = Made
  BY <1>1 DEF Made
<1>7. MadeFiles'
  BY <1>1, <1>6 DEF FilesInv, MadeFiles, Made
<1>8. SameIsRepaired'
  <2> SUFFICES ASSUME NEW c \in offers, offers \subseteq {c}, NEW f \in Made
               PROVE  Repaired(f, c)'
    BY <1>1, <1>6 DEF SameIsRepaired
  <2> DEFINE t == truncator[f]
  <2>1. f \in 1 .. newest /\ t \in Listener
    BY <1>3, SMTT(60) DEF TypeInv, TypeOK, Made, NoFile
  <2>2. Repaired(f, c)
    BY DEF FilesInv, SameIsRepaired
  <2>3. CASE t # d
    BY <1>1, <1>2, <2>2, <2>3 DEF Repaired
  <2>4. CASE t = d /\ t \in Users(f)
    <3>1. data[f] = c
      BY <1>1, <2>1, <2>2, <2>4, RenamedIsWhole
    <3> QED
      BY <1>1, <1>2, <2>2, <2>4, <3>1 DEF Repaired
  <2>5. CASE t = d /\ t \notin Users(f)
    BY <1>1, <1>2, <2>2, <2>5 DEF Repaired
  <2> QED
    BY <2>3, <2>4, <2>5
<1> QED
  BY <1>4, <1>5, <1>7, <1>8 DEF FilesInv

LEMMA WriteKeepsFiles ==
  ASSUME TypeInv, FilesInv, NEW d \in Listener, Write(d)
  PROVE  FilesInv'
<1> DEFINE f == file[d]  k == offset[d] + 1
<1>1. /\ f \in 1 .. newest /\ f \in Inode /\ d \in Users(f)
      /\ k \in 1 .. Len(promised[d]) /\ offset' = [offset EXCEPT ![d] = k]
      /\ data'[f] = Written(data[f], k, promised[d][k])
      /\ \A g \in Inode \ {f} : data'[g] = data[g]
      /\ at' = IF k = Len(promised[d]) THEN [at EXCEPT ![d] = "rename"] ELSE at
  BY WriteType
<1>2. /\ at[d] = "write" /\ UNCHANGED <<newest, dest, part, promised, file, historyVars>>
      /\ offset[d] \in Nat /\ k \in Nat \ {0} /\ promised[d] \in Content
      /\ promised[d][k] \in Byte /\ data[f] \in Seq(Byte) /\ Len(promised[d]) \in Nat
      /\ promised[d] \in offers
  <2>1. at[d] = "write" /\ UNCHANGED <<newest, dest, part, promised, file, historyVars>>
    BY DEF Write
  <2>2. /\ offset[d] \in Nat /\ promised[d] \in Content /\ Len(promised[d]) \in Nat
        /\ \A n \in 1 .. Len(promised[d]) : promised[d][n] \in Byte
    BY PromisedType DEF TypeInv
  <2>3. data[f] \in Seq(Byte)
    BY <1>1 DEF TypeInv, TypeOK
  <2>4. promised[d] \in offers
    BY <2>1 DEF TypeInv, OffsetFits
  <2> QED
    BY <1>1, <2>1, <2>2, <2>3, <2>4
<1>3. /\ offset'[d] = k /\ \A e \in Listener \ {d} : offset'[e] = offset[e]
      /\ \A e \in Listener : at'[e] \in {"write", "rename"} <=> at[e] \in {"write", "rename"}
  BY <1>1, <1>2 DEF TypeInv, TypeOK
<1>4. \A g : Users(g)' = Users(g)
  BY <1>2, <1>3 DEF Users
<1>5. /\ Len(data'[f]) = (IF Len(data[f]) < k THEN k ELSE Len(data[f])) /\ Len(data[f]) \in Nat
      /\ data'[f] \in Seq(Byte)
      /\ \A n \in 1 .. Len(data'[f]) :
           data'[f][n] = IF n = k THEN promised[d][k]
                         ELSE IF n <= Len(data[f]) THEN data[f][n] ELSE Gap
  <2> DEFINE b == promised[d][k]  w == Written(data[f], k, b)
  <2>1. /\ w \in Seq(Byte)
        /\ Len(w) = IF Len(data[f]) < k THEN k ELSE Len(data[f])
        /\ \A n \in 1 .. Len(w) :
             w[n] = IF n = k THEN b ELSE IF n <= Len(data[f]) THEN data[f][n] ELSE Gap
    <3>1. data[f] \in Seq(Byte) /\ k \in Nat \ {0} /\ b \in Byte
      BY <1>2, Zenon
    <3>2. PICK s \in Seq(Byte), m \in Nat \ {0}, c \in Byte : s = data[f] /\ m = k /\ c = b
      BY <3>1, Zenon
    <3>3. /\ Written(s, m, c) \in Seq(Byte)
          /\ Len(Written(s, m, c)) = IF Len(s) < m THEN m ELSE Len(s)
          /\ \A n \in 1 .. Len(Written(s, m, c)) :
               Written(s, m, c)[n] = IF n = m THEN c ELSE IF n <= Len(s) THEN s[n] ELSE Gap
      BY WrittenType, ZenonT(60)
    <3> QED
      BY <3>2, <3>3, Zenon
  <2>2. data'[f] = w
    BY <1>1
  <2> HIDE DEF w, f, k
  <2>3. Len(data[f]) \in Nat
    BY <1>2, LenProperties
  <2> QED
    BY <2>1, <2>2, <2>3, Zenon
<1>6. \A g \in 1 .. newest : g \in Inode
  BY DownloadsAssumption DEF TypeInv, TypeOK, Inode, NoFile
<1> HIDE DEF f, k
<1>7. KeptOrPlaced'
  BY <1>2, <1>3 DEF historyVars, FilesInv, KeptOrPlaced
<1>8. UnsharedIsSound'
  <2> SUFFICES ASSUME NEW g \in 1 .. newest, g \notin shared
               PROVE  /\ \A e \in Users(g) :
                           /\ e = truncator[g] /\ Len(data'[g]) = offset'[e]
                           /\ \A n \in 1 .. offset'[e] : data'[g][n] = promised[e][n]
                      /\ g # part => data'[g] \in Content /\ Users(g) = {}
    BY <1>2, <1>4 DEF historyVars, UnsharedIsSound
  <2>1. /\ \A e \in Users(g) :
             /\ e = truncator[g] /\ Len(data[g]) = offset[e]
             /\ \A n \in 1 .. offset[e] : data[g][n] = promised[e][n]
        /\ g # part => data[g] \in Content /\ Users(g) = {}
    BY DEF FilesInv, UnsharedIsSound
  <2>2. CASE g = f
    <3>1. d \in Users(g) /\ g = part /\ \A e \in Users(g) : e = d
      BY <1>1, <2>1, <2>2
    <3>2. Len(data[g]) = offset[d] /\ \A n \in 1 .. offset[d] : data[g][n] = promised[d][n]
      BY <2>1, <3>1
    <3>3. Len(data[f]) = offset[d] /\ Len(data'[f]) = k /\ k = offset[d] + 1
      BY <1>2, <1>5, <2>2, <3>2 DEF k
    <3>4. \A n \in 1 .. k : data'[f][n] = promised[d][n]
      <4> SUFFICES ASSUME NEW n \in 1 .. k PROVE data'[f][n] = promised[d][n]
        OBVIOUS
      <4>1. CASE n = k
        BY <1>2, <1>5, <3>3, <4>1
      <4>2. CASE n # k
        <5>1. n \in 1 .. offset[d]
          BY <1>2, <3>3, <4>2
        <5> QED
          BY <1>2, <1>5, <2>2, <3>2, <3>3, <4>2, <5>1
      <4> QED
        BY <4>1, <4>2
    <3> QED
      BY <1>3, <2>1, <2>2, <3>1, <3>3, <3>4
  <2>3. CASE g # f
    <3>1. data'[g] = data[g]
      BY <1>1, <1>6, <2>3
    <3>2. \A e \in Users(g) : offset'[e] = offset[e]
      BY <1>3, <2>3 DEF Users, f
    <3> QED
      BY <2>1, <3>1, <3>2
  <2> QED
    BY <2>2, <2>3
<1>9. MadeFiles'
  BY <1>2 DEF historyVars, FilesInv, MadeFiles, Made
<1>10. SameIsRepaired'
  <2> SUFFICES ASSUME NEW c \in offers, offers \subseteq {c}, NEW g \in Made
               PROVE  Repaired(g, c)'
    BY <1>2 DEF historyVars, SameIsRepaired, Made
  <2> DEFINE t == truncator[g]
  <2>1. /\ Len(data[g]) <= Len(c)
        /\ t \in Users(g) => /\ offset[t] <= Len(data[g])
                             /\ \A n \in 1 .. offset[t] : data[g][n] = c[n]
        /\ t \in Users(g) \/ g \in cut \/ data[g] = c
    BY DEF FilesInv, SameIsRepaired, Repaired
  <2>2. truncator'[g] = t /\ cut' = cut /\ Users(g)' = Users(g)
    BY <1>2, <1>4 DEF historyVars
  <2>3. CASE g # f
    <3>1. g \in Inode
      BY <1>1, <1>6 DEF TypeInv, TypeOK, Made, Inode, NoFile
    <3>2. data'[g] = data[g] /\ (t \in Users(g) => offset'[t] = offset[t])
      BY <1>1, <1>3, <2>3, <3>1 DEF Users, f
    <3> QED
      BY <2>1, <2>2, <3>2 DEF Repaired
  <2>4. CASE g = f
    <3>1. promised[d] = c /\ c \in Content /\ Len(c) \in Nat /\ k <= Len(c)
      BY <1>1, <1>2
    <3>2. Len(data'[f]) <= Len(c)
      BY <1>5, <2>1, <2>4, <3>1
    <3>3. ASSUME t \in Users(g)
          PROVE  /\ offset'[t] <= Len(data'[f])
                 /\ \A n \in 1 .. offset'[t] : data'[f][n] = c[n]
      <4>1. t \in Listener /\ offset[t] \in Nat
        BY <3>3 DEF Users, TypeInv, TypeOK
      <4>2. offset[t] <= Len(data[f]) /\ \A n \in 1 .. offset[t] : data[f][n] = c[n]
        BY <2>1, <2>4, <3>3
      <4>3. offset'[t] = IF t = d THEN k ELSE offset[t]
        BY <1>3, <4>1
      <4>4. t = d => k = offset[t] + 1
        BY DEF k
      <4>5. offset'[t] <= Len(data'[f]) /\ offset'[t] \in Nat
        BY <1>2, <1>5, <4>1, <4>2, <4>3
      <4> HIDE DEF t
      <4>6. ASSUME NEW n \in 1 .. offset'[t] PROVE data'[f][n] = c[n]
        <5>1. n \in 1 .. Len(data'[f])
          BY <1>5, <4>5
        <5>2. CASE n = k
          BY <1>5, <3>1, <5>1, <5>2
        <5>3. CASE n # k
          <6>1. n \in 1 .. offset[t]
            BY <1>2, <4>1, <4>3, <4>4, <5>3
          <6>2. n <= Len(data[f])
            BY <1>5, <4>1, <4>2, <6>1
          <6> QED
            BY <1>5, <4>2, <5>1, <5>3, <6>1, <6>2
        <5> QED
          BY <5>2, <5>3
      <4> QED
        BY <4>5, <4>6
    <3>4. ASSUME data[f] = c PROVE data'[f] = c
      <4>1. Len(data[f]) = Len(c)
        BY <3>4, Zenon
      <4>2. Len(data'[f]) = Len(c)
        BY <1>2, <1>5, <3>1, <4>1
      <4>3. \A n \in 1 .. Len(c) : data'[f][n] = c[n]
        BY <1>5, <3>1, <3>4, <4>1, <4>2
      <4> QED
        BY <1>5, <3>1, <4>2, <4>3, WrittenIsWhole
    <3> QED
      BY <2>1, <2>2, <2>4, <3>2, <3>3, <3>4 DEF Repaired
  <2> QED
    BY <2>3, <2>4
<1> QED
  BY <1>7, <1>8, <1>9, <1>10 DEF FilesInv

LEMMA StepKeepsFiles == TypeInv /\ FilesInv /\ [Next]_vars => FilesInv'
<1> SUFFICES ASSUME TypeInv, FilesInv, [Next]_vars PROVE FilesInv'
  OBVIOUS
<1>1. CASE UNCHANGED vars
  BY <1>1 DEF vars, fileVars, clientVars, historyVars, FilesInv, KeptOrPlaced, UnsharedIsSound,
              MadeFiles, SameIsRepaired, Made, Repaired, Users
<1> QED
  BY <1>1, LeavesFiles, CreateKeepsFiles, WriteKeepsFiles, RenameKeepsFiles DEF Next

LEMMA FilesInvHolds == Spec => [](TypeInv /\ FilesInv)
<1>1. Init => TypeInv /\ FilesInv
  BY InitTypes, InitFiles
<1>2. TypeInv /\ FilesInv /\ [Next]_vars => TypeInv' /\ FilesInv'
  BY StepKeepsTypes, StepKeepsFiles
<1> QED
  BY <1>1, <1>2, PTL DEF Spec

(* However many downloads share the name .part, one that has written         *)
(* everything finds its file there or already under the name dest.           *)
THEOREM DownloadsNothingIsLost == Spec => []NothingIsLost
<1>1. FilesInv => NothingIsLost
  BY DEF FilesInv, KeptOrPlaced, NothingIsLost
<1> QED
  BY <1>1, FilesInvHolds, PTL

(* Under the name dest there is a whole file unless two downloads shared it, *)
(* and if all were promised the same content the last one repairs it.        *)
THEOREM DownloadsTornOnlyBySharing == Spec => []TornOnlyBySharing
<1>1. TypeInv /\ FilesInv => TornOnlyBySharing
  <2> SUFFICES ASSUME TypeInv, FilesInv, dest # NoFile, data[dest] \notin Content
               PROVE  /\ dest \in shared
                      /\ (\A b, c \in offers : b = c) =>
                           dest \in cut \/ truncator[dest] \in Users(dest)
    BY DEF TornOnlyBySharing
  <2>1. dest \in 1 .. newest /\ dest # part
    BY DEF TypeInv, TypeOK, NoFile, Inode
  <2>2. dest \in shared
    BY <2>1 DEF FilesInv, UnsharedIsSound
  <2>3. ASSUME \A b, c \in offers : b = c
        PROVE  dest \in cut \/ truncator[dest] \in Users(dest)
    <3>1. dest \in Made /\ offers # {}
      BY <2>2 DEF FilesInv, MadeFiles
    <3>2. PICK c \in offers : offers \subseteq {c}
      BY <2>3, <3>1
    <3>3. Repaired(dest, c) /\ c \in Content
      BY <3>1, <3>2 DEF FilesInv, SameIsRepaired, TypeInv, TypeOK
    <3> QED
      BY <3>3 DEF Repaired
  <2> QED
    BY <2>2, <2>3
<1> QED
  BY <1>1, FilesInvHolds, PTL

=============================================================================
