----------------------------- MODULE JournalProofs -----------------------------
(***************************************************************************)
(* Proofs about the telemetry journal, for every size of a record, every   *)
(* maxBytes and any number of acknowledged records.                        *)
(***************************************************************************)
EXTENDS TelemetryJournal, SequenceTheorems, TLAPS

(* A piece of a file in a process that has acknowledged "last" records.     *)
Sound(piece, last) ==
    /\ piece.end <= MaxBytes
    /\ piece.acked => piece.synced
    /\ piece.mine => /\ piece.number <= last + 1
                     /\ piece.acked => piece.number <= last

(* What Numbered says of two pieces, the first of which is the older one.   *)
Follows(older, newer) ==
    older.mine /\ newer.mine =>
        IF older.acked THEN older.number < newer.number
        ELSE older.number <= newer.number

File(f, last) ==
    /\ f \in Seq(Pieces)
    /\ \A i \in 1 .. Len(f) : Sound(f[i], last)
    /\ \A i, j \in 1 .. Len(f) : i < j => Follows(f[i], f[j])

Files(older, newer, last) ==
    /\ File(older, last) /\ File(newer, last)
    /\ \A i \in 1 .. Len(older), j \in 1 .. Len(newer) :
           Follows(older[i], newer[j])

(* A record is written only where it fits, and its number is the next one   *)
(* until fsync has succeeded.                                               *)
JournalInv ==
    /\ JournalTypeOK
    /\ Files(prior, current, sequence)
    /\ step = "write" => incoming \in RecordSizes /\ Fits(incoming)
    /\ step # "idle" => sequence < SequenceBound
    /\ step = "sync" => current # <<>>

-----------------------------------------------------------------------------
(* What each operation on a file leaves of it.                              *)

LEMMA EmptyFile ==
    ASSUME NEW last \in Nat
    PROVE  File(<<>>, last) /\ Len(<<>>) = 0 /\ FileSize(<<>>) = 0
BY EmptySeq DEF File, FileSize

LEMMA SizeBounded ==
    ASSUME NEW last \in Nat, NEW f, File(f, last)
    PROVE  FileSize(f) \in Nat /\ FileSize(f) <= MaxBytes
<1>1. CASE f = <<>>
  BY <1>1, JournalAssumption DEF FileSize
<1>2. CASE f # <<>>
  <2>1. Len(f) \in Nat \ {0}
    BY <1>2, EmptySeq DEF File
  <2>2. f[Len(f)] \in Pieces /\ Sound(f[Len(f)], last)
    BY <2>1, ElementOfSeq DEF File
  <2> QED
    BY <1>2, <2>2 DEF FileSize, Pieces, Sound
<1> QED
  BY <1>1, <1>2

LEMMA FileAppended ==
    ASSUME NEW last \in Nat, NEW f, File(f, last), NEW piece \in Pieces,
           Sound(piece, last), \A i \in 1 .. Len(f) : Follows(f[i], piece)
    PROVE  File(Append(f, piece), last) /\ Append(f, piece) # <<>>
<1>1. /\ Append(f, piece) \in Seq(Pieces) /\ Append(f, piece) # <<>>
      /\ Len(Append(f, piece)) = Len(f) + 1 /\ Len(f) \in Nat
      /\ \A i \in 1 .. Len(f) : Append(f, piece)[i] = f[i]
      /\ Append(f, piece)[Len(f) + 1] = piece
  BY AppendProperties, LenProperties DEF File
<1>2. ASSUME NEW i \in 1 .. Len(Append(f, piece))
      PROVE  Sound(Append(f, piece)[i], last)
  <2>1. CASE i \in 1 .. Len(f)
    BY <1>1, <2>1 DEF File
  <2>2. CASE i = Len(f) + 1
    BY <1>1, <2>2
  <2> QED
    BY <1>1, <2>1, <2>2
<1>3. ASSUME NEW i \in 1 .. Len(Append(f, piece)),
             NEW j \in 1 .. Len(Append(f, piece)), i < j
      PROVE  Follows(Append(f, piece)[i], Append(f, piece)[j])
  <2>1. i \in 1 .. Len(f)
    BY <1>1, <1>3
  <2>2. CASE j \in 1 .. Len(f)
    BY <1>1, <1>3, <2>1, <2>2 DEF File
  <2>3. CASE j = Len(f) + 1
    BY <1>1, <2>1, <2>3
  <2> QED
    BY <1>1, <2>2, <2>3
<1> QED
  BY <1>1, <1>2, <1>3 DEF File

(* A sequence of the same length with a piece in each place.                *)
LEMMA PiecewiseSeq ==
    ASSUME NEW f \in Seq(Pieces), NEW g, DOMAIN g = DOMAIN f,
           g = [i \in DOMAIN f |-> g[i]],
           \A i \in DOMAIN f : g[i] \in Pieces
    PROVE  g \in Seq(Pieces) /\ Len(g) = Len(f)
<1>1. DOMAIN f = 1 .. Len(f) /\ Len(f) \in Nat
  BY LenProperties
<1>2. g \in [1 .. Len(f) -> Pieces]
  BY <1>1
<1>3. g \in Seq(Pieces)
  BY <1>1, <1>2, SeqDef
<1> QED
  BY <1>1, <1>3, LenProperties

LEMMA NotMineFacts ==
    ASSUME NEW f \in Seq(Pieces)
    PROVE  /\ NotMine(f) \in Seq(Pieces) /\ Len(NotMine(f)) = Len(f)
           /\ \A i \in 1 .. Len(f) :
                  NotMine(f)[i] = [f[i] EXCEPT !.mine = FALSE]
<1>1. DOMAIN f = 1 .. Len(f) /\ \A i \in 1 .. Len(f) : f[i] \in Pieces
  BY LenProperties, ElementOfSeq
<1>2. \A i \in DOMAIN f : [f[i] EXCEPT !.mine = FALSE] \in Pieces
  BY <1>1 DEF Pieces
<1>3. /\ DOMAIN NotMine(f) = DOMAIN f
      /\ NotMine(f) = [i \in DOMAIN f |-> NotMine(f)[i]]
      /\ \A i \in DOMAIN f : NotMine(f)[i] = [f[i] EXCEPT !.mine = FALSE]
  BY DEF NotMine
<1> HIDE DEF NotMine
<1> QED
  BY <1>1, <1>2, <1>3, PiecewiseSeq

(* The files of an ended process: nothing in them is numbered by this one.  *)
LEMMA FileNotMine ==
    ASSUME NEW last \in Nat, NEW f, File(f, last)
    PROVE  /\ File(NotMine(f), 0) /\ Len(NotMine(f)) = Len(f)
           /\ \A i \in 1 .. Len(f) :
                  NotMine(f)[i] = [f[i] EXCEPT !.mine = FALSE]
           /\ \A i \in 1 .. Len(f) : ~NotMine(f)[i].mine
<1>1. f \in Seq(Pieces) /\ \A i \in 1 .. Len(f) : Sound(f[i], last)
  BY DEF File
<1>2. \A i \in 1 .. Len(f) : f[i] \in Pieces
  BY <1>1, ElementOfSeq
<1>3. \A i \in 1 .. Len(f) :
          /\ ~NotMine(f)[i].mine
          /\ NotMine(f)[i].end = f[i].end
          /\ NotMine(f)[i].acked = f[i].acked
          /\ NotMine(f)[i].synced = f[i].synced
  <2>1. \A i \in 1 .. Len(f) : NotMine(f)[i] = [f[i] EXCEPT !.mine = FALSE]
    BY <1>1, NotMineFacts
  <2> HIDE DEF NotMine
  <2>2. \A p \in Pieces :
            LET q == [p EXCEPT !.mine = FALSE]
            IN  /\ ~q.mine /\ q.end = p.end
                /\ q.acked = p.acked /\ q.synced = p.synced
    BY Zenon DEF Pieces
  <2> QED
    BY <1>2, <2>1, <2>2
<1>4. \A i \in 1 .. Len(f) : Sound(NotMine(f)[i], 0)
  BY <1>1, <1>3 DEF Sound
<1>5. \A i, j \in 1 .. Len(f) : Follows(NotMine(f)[i], NotMine(f)[j])
  BY <1>3 DEF Follows
<1> QED
  BY <1>1, <1>3, <1>4, <1>5, NotMineFacts DEF File


(* What is left of a file that is cut after n pieces.                       *)
LEMMA FileCut ==
    ASSUME NEW last \in Nat, NEW f, File(f, last), NEW n \in 0 .. Len(f)
    PROVE  /\ File(SubSeq(f, 1, n), last) /\ Len(SubSeq(f, 1, n)) = n
           /\ \A i \in 1 .. n : SubSeq(f, 1, n)[i] = f[i]
<1>1. f \in Seq(Pieces) /\ Len(f) \in Nat /\ \A i \in 1 .. Len(f) : f[i] \in Pieces
  BY LenProperties, ElementOfSeq DEF File
<1>2. 1 \in Int /\ n \in Int /\ \A i \in 1 .. n : i \in 1 .. Len(f)
  BY <1>1
<1>3. /\ SubSeq(f, 1, n) \in Seq(Pieces)
      /\ Len(SubSeq(f, 1, n)) = IF 1 <= n THEN n - 1 + 1 ELSE 0
      /\ \A i \in 1 .. n - 1 + 1 : SubSeq(f, 1, n)[i] = f[1 + i - 1]
  BY <1>1, <1>2, SubSeqProperties
<1>4. Len(SubSeq(f, 1, n)) = n /\ \A i \in 1 .. n : SubSeq(f, 1, n)[i] = f[i]
  BY <1>1, <1>3
<1> DEFINE g == SubSeq(f, 1, n)
<1> HIDE DEF g
<1>5. /\ g \in Seq(Pieces) /\ Len(g) = n /\ \A i \in 1 .. n : g[i] = f[i]
  BY <1>3, <1>4 DEF g
<1>6. File(g, last)
  BY <1>2, <1>5 DEF File
<1> QED
  BY <1>4, <1>6 DEF g

(* The n-th piece of a file is torn.                                        *)
Torn(f, n) == [f EXCEPT ![n].whole = FALSE]

LEMMA FileTorn ==
    ASSUME NEW last \in Nat, NEW f, File(f, last), NEW n \in 1 .. Len(f),
           NEW g, g = Torn(f, n)
    PROVE  /\ File(g, last) /\ Len(g) = Len(f)
           /\ \A i \in 1 .. Len(f) :
                  /\ g[i] \in Pieces /\ g[i].number = f[i].number
                  /\ g[i].end = f[i].end /\ g[i].acked = f[i].acked
                  /\ g[i].synced = f[i].synced /\ g[i].mine = f[i].mine
<1> DEFINE torn == [f[n] EXCEPT !.whole = FALSE]
<1>1. f \in Seq(Pieces) /\ f[n] \in Pieces /\ \A i \in 1 .. Len(f) : f[i] \in Pieces
  BY ElementOfSeq DEF File
<1>2. /\ torn \in Pieces /\ torn.number = f[n].number /\ torn.end = f[n].end
      /\ torn.acked = f[n].acked /\ torn.synced = f[n].synced
      /\ torn.mine = f[n].mine
  BY <1>1, Zenon DEF Pieces
<1>3. g = [f EXCEPT ![n] = torn]
  BY DEF Torn
<1> HIDE DEF torn
<1>4. /\ g \in Seq(Pieces) /\ Len(g) = Len(f)
      /\ \A i \in 1 .. Len(f) : g[i] = IF i = n THEN torn ELSE f[i]
  <2> DEFINE h == [f EXCEPT ![n] = torn]
  <2>1. /\ h \in Seq(Pieces) /\ Len(h) = Len(f)
        /\ \A i \in 1 .. Len(f) : h[i] = IF i = n THEN torn ELSE f[i]
    BY <1>1, <1>2, ExceptSeq
  <2>2. g = h
    BY <1>3
  <2> HIDE DEF h
  <2> QED
    BY <2>1, <2>2
<1>5. \A i \in 1 .. Len(f) :
          /\ g[i] \in Pieces /\ g[i].number = f[i].number
          /\ g[i].end = f[i].end /\ g[i].acked = f[i].acked
          /\ g[i].synced = f[i].synced /\ g[i].mine = f[i].mine
  BY <1>1, <1>2, <1>4
<1>6. File(g, last)
  BY <1>4, <1>5 DEF File, Sound, Follows
<1> QED
  BY <1>4, <1>5, <1>6

(* What a power failure leaves of a file: a part from its beginning that    *)
(* has every synced piece.                                                  *)
Prefix(g, f) ==
    /\ Len(g) <= Len(f)
    /\ \A i \in 1 .. Len(g) :
           /\ g[i] \in Pieces /\ g[i].number = f[i].number
           /\ g[i].end = f[i].end /\ g[i].acked = f[i].acked
           /\ g[i].mine = f[i].mine
    /\ \A i \in 1 .. Len(f) : f[i].synced => i \in 1 .. Len(g)

LEMMA FileRemains ==
    ASSUME NEW last \in Nat, NEW f, File(f, last), NEW g \in Remains(f)
    PROVE  File(g, last) /\ Prefix(g, f)
<1>0. /\ Len(f) \in Nat /\ f \in Seq(Pieces)
      /\ \A i \in 1 .. Len(f) : f[i] \in Pieces
  BY LenProperties, ElementOfSeq DEF File
<1>1. PICK n \in 0 .. Len(f) :
          /\ \A i \in n + 1 .. Len(f) : ~f[i].synced
          /\ \/ g = SubSeq(f, 1, n)
             \/ n > 0 /\ g = Torn(SubSeq(f, 1, n), n)
  BY DEF Remains, Torn
<1> DEFINE cut == SubSeq(f, 1, n)
<1>2. /\ File(cut, last) /\ Len(cut) = n
      /\ \A i \in 1 .. n : cut[i] = f[i]
  BY FileCut
<1> HIDE DEF cut
<1>3. \A i \in 1 .. Len(f) : f[i].synced => i \in 1 .. n
  BY <1>0, <1>1
<1>4. CASE g = cut
  BY <1>0, <1>2, <1>3, <1>4 DEF Prefix
<1>5. CASE n > 0 /\ g = Torn(cut, n)
  <2>1. /\ File(g, last) /\ Len(g) = Len(cut)
        /\ \A i \in 1 .. Len(cut) :
               /\ g[i] \in Pieces /\ g[i].number = cut[i].number
               /\ g[i].end = cut[i].end /\ g[i].acked = cut[i].acked
               /\ g[i].synced = cut[i].synced /\ g[i].mine = cut[i].mine
    <3>1. n \in 1 .. Len(cut) /\ File(cut, last)
      BY <1>2, <1>5
    <3> QED
      BY <1>5, <3>1, FileTorn
  <2> QED
    BY <1>0, <1>2, <1>3, <2>1 DEF Prefix
<1> QED
  BY <1>1, <1>4, <1>5 DEF cut

(* After fsync every piece is synced, and the last one is acknowledged.     *)
LEMMA AcknowledgedFacts ==
    ASSUME NEW f \in Seq(Pieces), f # <<>>
    PROVE  LET g == Acknowledged(f)
           IN  /\ g \in Seq(Pieces) /\ Len(g) = Len(f)
               /\ \A i \in 1 .. Len(f) :
                      /\ g[i].number = f[i].number /\ g[i].end = f[i].end
                      /\ g[i].mine = f[i].mine /\ g[i].synced
                      /\ f[i].acked => g[i].acked
                      /\ i # Len(f) => g[i].acked = f[i].acked
<1> DEFINE s == Synced(f)
           n == Len(f)
           last == [s[n] EXCEPT !.acked = TRUE]
<1>1. /\ DOMAIN f = 1 .. n /\ n \in 1 .. Len(f)
      /\ \A i \in 1 .. n : f[i] \in Pieces
  BY LenProperties, ElementOfSeq, EmptySeq
<1>2. \A p \in Pieces :
          LET q == [p EXCEPT !.synced = TRUE]
          IN  /\ q \in Pieces /\ q.number = p.number /\ q.end = p.end
              /\ q.mine = p.mine /\ q.acked = p.acked /\ q.synced
  BY Zenon DEF Pieces
<1>3. \A p \in Pieces :
          LET q == [p EXCEPT !.acked = TRUE]
          IN  /\ q \in Pieces /\ q.number = p.number /\ q.end = p.end
              /\ q.mine = p.mine /\ q.synced = p.synced /\ q.acked
  BY Zenon DEF Pieces
<1>4. /\ DOMAIN s = DOMAIN f /\ s = [i \in DOMAIN f |-> s[i]]
      /\ \A i \in DOMAIN f : s[i] = [f[i] EXCEPT !.synced = TRUE]
  BY DEF Synced
<1> HIDE DEF s
<1>5. \A i \in 1 .. n :
          /\ s[i] \in Pieces /\ s[i].number = f[i].number
          /\ s[i].end = f[i].end /\ s[i].mine = f[i].mine
          /\ s[i].acked = f[i].acked /\ s[i].synced
  <2> SUFFICES ASSUME NEW i \in 1 .. n
               PROVE  /\ s[i] \in Pieces /\ s[i].number = f[i].number
                      /\ s[i].end = f[i].end /\ s[i].mine = f[i].mine
                      /\ s[i].acked = f[i].acked /\ s[i].synced
    OBVIOUS
  <2>1. f[i] \in Pieces /\ s[i] = [f[i] EXCEPT !.synced = TRUE]
    BY <1>1, <1>4
  <2> HIDE DEF n
  <2> QED
    BY <1>2, <2>1, Zenon
<1>6. s \in Seq(Pieces) /\ Len(s) = n
  BY <1>1, <1>4, <1>5, PiecewiseSeq
<1>7. /\ last \in Pieces /\ last.number = s[n].number
      /\ last.end = s[n].end /\ last.mine = s[n].mine
      /\ last.synced = s[n].synced /\ last.acked
  BY <1>1, <1>3, <1>5
<1>8. Acknowledged(f) = [s EXCEPT ![n] = last]
  BY DEF Acknowledged, s
<1> DEFINE g == Acknowledged(f)
<1> HIDE DEF last, g
<1>9. /\ g \in Seq(Pieces) /\ Len(g) = n
      /\ \A i \in 1 .. n : g[i] = IF i = n THEN last ELSE s[i]
  <2>1. n \in 1 .. Len(s)
    BY <1>1, <1>6
  <2>2. g = [s EXCEPT ![n] = last]
    BY <1>8 DEF g
  <2> HIDE DEF n
  <2> QED
    BY <1>6, <1>7, <2>1, <2>2, ExceptSeq
<1>10. \A i \in 1 .. n :
           /\ g[i].number = f[i].number /\ g[i].end = f[i].end
           /\ g[i].mine = f[i].mine /\ g[i].synced
           /\ f[i].acked => g[i].acked
           /\ i # n => g[i].acked = f[i].acked
  BY <1>1, <1>5, <1>7, <1>9
<1> QED
  BY <1>9, <1>10 DEF g

-----------------------------------------------------------------------------
(* The invariant, action by action.                                         *)

LEMMA JournalInitInv == JournalInit => JournalInv
<1> SUFFICES ASSUME JournalInit PROVE JournalInv
  OBVIOUS
<1>1. current = <<>> /\ prior = <<>> /\ sequence = 0 /\ sequence \in Nat
  BY DEF JournalInit
<1>2. File(current, sequence) /\ File(prior, sequence)
      /\ Len(current) = 0 /\ Len(prior) = 0
  BY <1>1, EmptyFile
<1>3. Files(prior, current, sequence)
  BY <1>2 DEF Files
<1>4. current \in Seq(Pieces) /\ prior \in Seq(Pieces)
  BY <1>2 DEF File
<1> QED
  BY <1>3, <1>4, JournalAssumption
     DEF JournalInit, JournalInv, JournalTypeOK

LEMMA BeginAppendInv ==
    ASSUME JournalInv, NEW size \in RecordSizes, BeginAppend(size)
    PROVE  JournalInv'
<1>1. /\ step = "idle" /\ sequence < SequenceBound /\ sequence' = sequence
      /\ RotateIfNeeded(size) /\ sequence \in Nat
  BY JournalAssumption DEF BeginAppend, JournalInv, JournalTypeOK
<1>2. size \in Nat /\ size <= MaxBytes /\ size \in RecordSizes /\ MaxBytes \in Nat
  BY JournalAssumption
<1>3. File(<<>>, sequence) /\ Len(<<>>) = 0 /\ FileSize(<<>>) = 0
  BY <1>1, EmptyFile
<1>4. File(prior, sequence) /\ File(current, sequence)
  BY DEF JournalInv, Files
<1>5. current \in Seq(Pieces) /\ prior \in Seq(Pieces) /\ <<>> \in Seq(Pieces)
  BY <1>3, <1>4 DEF File
<1>6. CASE Fits(size) /\ step' = "write" /\ incoming' = size
           /\ UNCHANGED <<current, prior>>
  BY <1>1, <1>2, <1>6 DEF JournalInv, JournalTypeOK, Fits
<1>7. CASE step' = "write" /\ incoming' = size
           /\ prior' = current /\ current' = <<>>
  <2>1. Files(prior', current', sequence')
    BY <1>1, <1>3, <1>4, <1>7 DEF Files
  <2>2. FileSize(current') + size <= MaxBytes
    BY <1>2, <1>3, <1>7
  <2>3. JournalTypeOK'
    BY <1>1, <1>2, <1>5, <1>7 DEF JournalInv, JournalTypeOK
  <2> QED
    BY <1>1, <1>2, <1>7, <2>1, <2>2, <2>3 DEF JournalInv, Fits
<1>8. CASE prior' = <<>> /\ UNCHANGED <<current, step, incoming>>
  <2>1. Files(prior', current', sequence')
    BY <1>1, <1>3, <1>4, <1>8 DEF Files
  <2> QED
    BY <1>1, <1>5, <1>8, <2>1 DEF JournalInv, JournalTypeOK
<1> QED
  BY <1>1, <1>6, <1>7, <1>8 DEF RotateIfNeeded

(* A new piece of at most the size of the record, at the end of the file.   *)
LEMMA PieceWritten ==
    ASSUME JournalInv, step = "write", NEW bytes \in 1 .. incoming,
           NEW whole \in BOOLEAN, UNCHANGED <<prior, sequence>>,
           current' = Append(current, Piece(bytes, whole))
    PROVE  /\ Files(prior', current', sequence')
           /\ current' \in Seq(Pieces) /\ current' # <<>>
<1> DEFINE piece == Piece(bytes, whole)
<1>1. /\ sequence \in Nat /\ incoming \in Nat /\ MaxBytes \in Nat
      /\ FileSize(current) + incoming <= MaxBytes
  BY JournalAssumption DEF JournalInv, JournalTypeOK, Fits
<1>2. /\ File(current, sequence) /\ File(prior, sequence)
      /\ \A i \in 1 .. Len(prior), j \in 1 .. Len(current) :
             Follows(prior[i], current[j])
  BY DEF JournalInv, Files
<1>3. FileSize(current) \in Nat
  BY <1>1, <1>2, SizeBounded
<1>4. /\ piece \in Pieces /\ Sound(piece, sequence)
      /\ piece.number = sequence + 1 /\ piece.mine
  BY <1>1, <1>3 DEF Piece, Pieces, Sound
<1> HIDE DEF piece
<1>5. ASSUME NEW f, File(f, sequence), NEW i \in 1 .. Len(f)
      PROVE  Follows(f[i], piece)
  <2>1. f[i] \in Pieces /\ Sound(f[i], sequence)
    BY <1>5, ElementOfSeq DEF File
  <2>2. f[i].number \in Nat
    BY <2>1 DEF Pieces
  <2> QED
    BY <1>1, <1>4, <2>1, <2>2 DEF Follows, Sound
<1>6. File(Append(current, piece), sequence) /\ Append(current, piece) # <<>>
  BY <1>1, <1>2, <1>4, <1>5, FileAppended
<1>7. /\ Len(Append(current, piece)) = Len(current) + 1 /\ Len(current) \in Nat
      /\ \A i \in 1 .. Len(current) : Append(current, piece)[i] = current[i]
      /\ Append(current, piece)[Len(current) + 1] = piece
  BY <1>2, <1>4, AppendProperties, LenProperties DEF File
<1>8. current' = Append(current, piece) /\ prior' = prior /\ sequence' = sequence
  BY DEF piece
<1>9. ASSUME NEW i \in 1 .. Len(prior), NEW j \in 1 .. Len(current')
      PROVE  Follows(prior[i], current'[j])
  <2>1. CASE j \in 1 .. Len(current)
    BY <1>2, <1>7, <1>8, <2>1
  <2>2. CASE j = Len(current) + 1
    BY <1>2, <1>5, <1>7, <1>8, <2>2
  <2> QED
    BY <1>7, <1>8, <2>1, <2>2
<1>10. Files(prior', current', sequence')
  BY <1>2, <1>6, <1>8, <1>9 DEF Files
<1> QED
  BY <1>6, <1>8, <1>10 DEF File

LEMMA WriteInv == JournalInv /\ Write => JournalInv'
<1> SUFFICES ASSUME JournalInv, Write PROVE JournalInv'
  OBVIOUS
<1>1. step = "write" /\ UNCHANGED <<prior, sequence>> /\ incoming \in 1 .. MaxBytes
      /\ MaxBytes \in Nat
  BY JournalAssumption DEF Write, JournalInv
<1>2. CASE step' = "idle" /\ incoming' = 0 /\ UNCHANGED current
  BY <1>1, <1>2 DEF JournalInv, JournalTypeOK
<1>3. ASSUME NEW bytes \in 1 .. incoming - 1, step' = "idle", incoming' = 0,
             current' = Append(current, Piece(bytes, FALSE))
      PROVE  JournalInv'
  <2>1. bytes \in 1 .. incoming
    BY <1>1
  <2>2. Files(prior', current', sequence') /\ current' \in Seq(Pieces)
    BY <1>1, <1>3, <2>1, PieceWritten
  <2> QED
    BY <1>1, <1>3, <2>2 DEF JournalInv, JournalTypeOK
<1>4. CASE /\ current' = Append(current, Piece(incoming, TRUE))
           /\ step' = "sync" /\ UNCHANGED incoming
  <2>1. incoming \in 1 .. incoming
    BY <1>1
  <2>2. /\ Files(prior', current', sequence') /\ current' \in Seq(Pieces)
        /\ current' # <<>>
    BY <1>1, <1>4, <2>1, PieceWritten
  <2> QED
    BY <1>1, <1>4, <2>2 DEF JournalInv, JournalTypeOK
<1> QED
  BY <1>2, <1>3, <1>4 DEF Write

LEMMA SyncInv == JournalInv /\ Sync => JournalInv'
<1> SUFFICES ASSUME JournalInv, Sync PROVE JournalInv'
  OBVIOUS
<1>1. /\ step = "sync" /\ step' = "idle" /\ incoming' = 0 /\ prior' = prior
      /\ sequence \in Nat /\ SequenceBound \in Nat /\ sequence < SequenceBound
  BY JournalAssumption DEF Sync, JournalInv, JournalTypeOK
<1>2. CASE UNCHANGED <<current, sequence>>
  BY <1>1, <1>2 DEF JournalInv, JournalTypeOK
<1>3. CASE current' = Acknowledged(current) /\ sequence' = sequence + 1
  <2> DEFINE g == Acknowledged(current)
             n == Len(current)
             last == sequence + 1
  <2>1. /\ current \in Seq(Pieces) /\ prior \in Seq(Pieces) /\ current # <<>>
        /\ \A i \in 1 .. n : current[i] \in Pieces
        /\ \A i \in 1 .. Len(prior) : prior[i] \in Pieces
    BY <1>1, ElementOfSeq DEF JournalInv, JournalTypeOK
  <2>2. n \in Nat \ {0}
    BY <2>1, EmptySeq
  <2>3. /\ g \in Seq(Pieces) /\ Len(g) = n
        /\ \A i \in 1 .. n :
               /\ g[i].number = current[i].number /\ g[i].end = current[i].end
               /\ g[i].mine = current[i].mine /\ g[i].synced
               /\ i # n => g[i].acked = current[i].acked
    BY <2>1, AcknowledgedFacts
  <2> HIDE DEF g
  <2>4. /\ \A i \in 1 .. n : Sound(current[i], sequence)
        /\ \A i \in 1 .. Len(prior) : Sound(prior[i], sequence)
        /\ \A i, j \in 1 .. n : i < j => Follows(current[i], current[j])
        /\ \A i, j \in 1 .. Len(prior) : i < j => Follows(prior[i], prior[j])
        /\ \A i \in 1 .. Len(prior), j \in 1 .. n : Follows(prior[i], current[j])
    BY DEF JournalInv, Files, File
  <2>5. \A i \in 1 .. n : Sound(g[i], last)
    <3> SUFFICES ASSUME NEW i \in 1 .. n PROVE Sound(g[i], last)
      OBVIOUS
    <3>1. current[i].number \in Nat
      BY <2>1 DEF Pieces
    <3> QED
      BY <1>1, <2>3, <2>4, <3>1 DEF Sound
  <2>6. \A i \in 1 .. Len(prior) : Sound(prior[i], last)
    <3> SUFFICES ASSUME NEW i \in 1 .. Len(prior) PROVE Sound(prior[i], last)
      OBVIOUS
    <3>1. prior[i].number \in Nat
      BY <2>1 DEF Pieces
    <3> QED
      BY <1>1, <2>4, <3>1 DEF Sound
  <2>7. \A i, j \in 1 .. n : i < j => Follows(g[i], g[j])
    <3> SUFFICES ASSUME NEW i \in 1 .. n, NEW j \in 1 .. n, i < j
                 PROVE  Follows(g[i], g[j])
      OBVIOUS
    <3>1. i # n
      BY <2>2
    <3> QED
      BY <2>3, <2>4, <3>1 DEF Follows
  <2>8. \A i \in 1 .. Len(prior), j \in 1 .. n : Follows(prior[i], g[j])
    BY <2>3, <2>4 DEF Follows
  <2>9. Files(prior, g, last)
    BY <2>1, <2>3, <2>4, <2>5, <2>6, <2>7, <2>8 DEF Files, File
  <2>10. sequence' = last /\ last \in 0 .. SequenceBound /\ current' = g
    BY <1>1, <1>3 DEF g
  <2> HIDE DEF last
  <2> QED
    BY <1>1, <2>1, <2>3, <2>9, <2>10 DEF JournalInv, JournalTypeOK
<1> QED
  BY <1>2, <1>3 DEF Sync

(* After a restart nothing in the files is numbered by the new process.     *)
LEMMA NewProcess ==
    ASSUME NEW last \in Nat, NEW f, File(f, last), NEW g, File(g, last),
           current' = NotMine(f), prior' = NotMine(g),
           sequence' = 0, step' = "idle", incoming' = 0
    PROVE  JournalInv'
<1>1. /\ File(current', 0) /\ \A i \in 1 .. Len(current') : ~current'[i].mine
      /\ File(prior', 0) /\ \A i \in 1 .. Len(prior') : ~prior'[i].mine
  BY FileNotMine
<1>2. Files(prior', current', sequence')
  BY <1>1 DEF Files, Follows
<1>3. current' \in Seq(Pieces) /\ prior' \in Seq(Pieces)
  BY <1>1 DEF File
<1> QED
  BY <1>2, <1>3, JournalAssumption DEF JournalInv, JournalTypeOK

LEMMA RestartInv == JournalInv /\ (Restart \/ PowerFailure) => JournalInv'
<1> SUFFICES ASSUME JournalInv, Restart \/ PowerFailure PROVE JournalInv'
  OBVIOUS
<1>1. /\ sequence \in Nat /\ File(current, sequence) /\ File(prior, sequence)
  BY JournalAssumption DEF JournalInv, JournalTypeOK, Files
<1>2. CASE Restart
  BY <1>1, <1>2, NewProcess DEF Restart
<1>3. CASE PowerFailure
  <2>1. PICK f \in Remains(current) : current' = NotMine(f)
    BY <1>3 DEF PowerFailure
  <2>2. PICK g \in Remains(prior) : prior' = NotMine(g)
    BY <1>3 DEF PowerFailure
  <2>3. File(f, sequence) /\ File(g, sequence)
    BY <1>1, <2>1, <2>2, FileRemains
  <2> QED
    BY <1>1, <1>3, <2>1, <2>2, <2>3, NewProcess DEF PowerFailure
<1> QED
  BY <1>2, <1>3

LEMMA JournalInvariant == JournalSpec => []JournalInv
<1>1. JournalInv /\ [JournalNext]_journalVars => JournalInv'
  <2> SUFFICES ASSUME JournalInv, [JournalNext]_journalVars
               PROVE  JournalInv'
    OBVIOUS
  <2>1. CASE UNCHANGED journalVars
    BY <2>1 DEF JournalInv, JournalTypeOK, Fits, journalVars
  <2> QED
    BY <2>1, BeginAppendInv, WriteInv, SyncInv, RestartInv DEF JournalNext
<1> QED
  BY <1>1, JournalInitInv, PTL DEF JournalSpec

-----------------------------------------------------------------------------
(* The theorems.                                                            *)

(* The two files are sequences of records, sequence_ is the number of those *)
(* acknowledged, and append writes records of the configured sizes only.    *)
THEOREM JournalTypes == JournalSpec => []JournalTypeOK
<1>1. JournalInv => JournalTypeOK
  BY DEF JournalInv
<1> QED
  BY <1>1, JournalInvariant, PTL

(* Neither file outgrows maxBytes: rotateIfNeeded compares before every     *)
(* write, and a failed rename leaves append without a write.                *)
THEOREM JournalBoundedSafe == JournalSpec => []JournalBounded
<1>1. JournalInv => JournalBounded
  <2> SUFFICES ASSUME JournalInv PROVE JournalBounded
    OBVIOUS
  <2>1. sequence \in Nat /\ File(current, sequence) /\ File(prior, sequence)
    BY JournalAssumption DEF JournalInv, JournalTypeOK, Files
  <2> QED
    BY <2>1, SizeBounded DEF JournalBounded
<1> QED
  BY <1>1, JournalInvariant, PTL

(* The numbers in what one process has written never go back, and an        *)
(* acknowledged number is never used again, across rotations, short writes  *)
(* and failed syncs.                                                        *)
THEOREM NumberedSafe == JournalSpec => []Numbered
<1>1. JournalInv => Numbered
  <2> SUFFICES ASSUME JournalInv PROVE Numbered
    OBVIOUS
  <2> DEFINE m == Len(prior)
             n == Len(current)
  <2>1. /\ current \in Seq(Pieces) /\ prior \in Seq(Pieces)
        /\ m \in Nat /\ n \in Nat
    BY LenProperties DEF JournalInv, JournalTypeOK
  <2>2. /\ \A i, j \in 1 .. n : i < j => Follows(current[i], current[j])
        /\ \A i, j \in 1 .. m : i < j => Follows(prior[i], prior[j])
        /\ \A i \in 1 .. m, j \in 1 .. n : Follows(prior[i], current[j])
    BY DEF JournalInv, Files, File
  <2>3. /\ Journal \in Seq(Pieces) /\ Len(Journal) = m + n
        /\ \A i \in 1 .. m + n :
               Journal[i] = IF i <= m THEN prior[i] ELSE current[i - m]
    BY <2>1, ConcatProperties DEF Journal
  <2>4. DOMAIN Journal = 1 .. m + n
    BY <2>3, LenProperties
  <2> HIDE DEF m, n
  <2>5. ASSUME NEW i \in 1 .. m + n, NEW j \in 1 .. m + n, i < j
        PROVE  Follows(Journal[i], Journal[j])
    <3>1. CASE j <= m
      BY <2>1, <2>2, <2>3, <2>5, <3>1
    <3>2. CASE i <= m /\ j > m
      <4>1. j - m \in 1 .. n /\ i \in 1 .. m
        BY <2>1, <3>2
      <4>2. Follows(prior[i], current[j - m])
        BY <2>2, <4>1
      <4> QED
        BY <2>1, <2>3, <3>2, <4>2
    <3>3. CASE i > m
      <4>1. j - m \in 1 .. n /\ i - m \in 1 .. n /\ i - m < j - m
        BY <2>1, <2>5, <3>3
      <4>2. Follows(current[i - m], current[j - m])
        BY <2>2, <4>1
      <4>3. i <= m <=> FALSE
        BY <2>1, <3>3
      <4>4. j <= m <=> FALSE
        BY <2>1, <2>5, <3>3
      <4> QED
        BY <2>3, <4>2, <4>3, <4>4
    <3> QED
      BY <2>1, <2>5, <3>1, <3>2, <3>3
  <2> QED
    BY <2>4, <2>5 DEF Numbered, Follows
<1> QED
  BY <1>1, JournalInvariant, PTL

(* The acknowledged records of a file are still in it, in their places.     *)
Keeps(before, after) ==
    \A i \in 1 .. Len(before) :
        before[i].acked =>
            /\ i \in 1 .. Len(after)
            /\ after[i].acked /\ after[i].number = before[i].number

(* rotateIfNeeded makes room: the journal becomes its predecessor, or the   *)
(* rename fails and the predecessor is gone.                                *)
MakesRoom ==
    \E size \in RecordSizes :
        /\ ~Fits(size)
        /\ \/ prior' = current /\ current' = <<>>
           \/ prior' = <<>> /\ current' = current

LEMMA KeepsUnchanged ==
    ASSUME NEW f
    PROVE  Keeps(f, f)
BY DEF Keeps

LEMMA KeepsStep ==
    JournalInv /\ [JournalNext]_journalVars =>
        \/ Keeps(prior, prior') /\ Keeps(current, current')
        \/ MakesRoom
<1> SUFFICES ASSUME JournalInv, [JournalNext]_journalVars, ~MakesRoom
             PROVE  Keeps(prior, prior') /\ Keeps(current, current')
  OBVIOUS
<1>1. /\ sequence \in Nat /\ File(current, sequence) /\ File(prior, sequence)
      /\ current \in Seq(Pieces) /\ prior \in Seq(Pieces)
  BY JournalAssumption DEF JournalInv, JournalTypeOK, Files
<1>2. CASE UNCHANGED <<current, prior>>
  BY <1>2, KeepsUnchanged
<1>3. ASSUME NEW size \in RecordSizes, BeginAppend(size)
      PROVE  Keeps(prior, prior') /\ Keeps(current, current')
  BY <1>2, <1>3 DEF BeginAppend, RotateIfNeeded, MakesRoom
<1>4. CASE Write
  <2>1. prior' = prior /\ JournalInv'
    BY <1>4, WriteInv DEF Write
  <2>2. ASSUME NEW bytes, NEW whole,
               current' = Append(current, Piece(bytes, whole))
        PROVE  Keeps(current, current')
    <3> DEFINE any == Pieces \cup {Piece(bytes, whole)}
    <3>1. current \in Seq(any)
      BY <1>1, SeqMonotonic
    <3>2. /\ Len(current') = Len(current) + 1 /\ Len(current) \in Nat
          /\ \A i \in 1 .. Len(current) : current'[i] = current[i]
      BY <2>2, <3>1, AppendProperties, LenProperties
    <3> QED
      BY <3>2 DEF Keeps
  <2> QED
    BY <1>2, <1>4, <2>1, <2>2, KeepsUnchanged DEF Write
<1>5. CASE Sync
  <2>1. prior' = prior /\ current # <<>>
    BY <1>5 DEF Sync, JournalInv
  <2>2. CASE current' = Acknowledged(current)
    <3>1. /\ Len(current') = Len(current)
          /\ \A i \in 1 .. Len(current) :
                 /\ current'[i].number = current[i].number
                 /\ current[i].acked => current'[i].acked
      BY <1>1, <2>1, <2>2, AcknowledgedFacts
    <3> QED
      BY <2>1, <3>1, KeepsUnchanged DEF Keeps
  <2> QED
    BY <1>2, <1>5, <2>1, <2>2 DEF Sync
<1>6. ASSUME NEW f, File(f, sequence), NEW g, File(g, sequence), Prefix(g, f)
      PROVE  Keeps(f, NotMine(g))
  <2>1. File(g, sequence) /\ Prefix(g, f)
    BY <1>6
  <2>2. /\ Len(NotMine(g)) = Len(g) /\ Len(f) \in Nat
        /\ \A i \in 1 .. Len(g) :
               /\ g[i] \in Pieces
               /\ NotMine(g)[i] = [g[i] EXCEPT !.mine = FALSE]
        /\ \A i \in 1 .. Len(f) : Sound(f[i], sequence)
    BY <1>1, <1>6, <2>1, FileNotMine, LenProperties, ElementOfSeq DEF File
  <2>3. \A p \in Pieces : LET q == [p EXCEPT !.mine = FALSE]
                          IN  q.number = p.number /\ q.acked = p.acked
    BY Zenon DEF Pieces
  <2>4. \A i \in 1 .. Len(g) :
            /\ NotMine(g)[i].number = g[i].number
            /\ NotMine(g)[i].acked = g[i].acked
    BY <2>2, <2>3, Zenon
  <2> QED
    BY <2>1, <2>2, <2>4 DEF Keeps, Prefix, Sound
<1>7. CASE Restart
  <2>1. Prefix(current, current) /\ Prefix(prior, prior)
    BY <1>1, LenProperties, ElementOfSeq DEF Prefix
  <2> QED
    BY <1>1, <1>6, <1>7, <2>1 DEF Restart
<1>8. CASE PowerFailure
  BY <1>1, <1>6, <1>8, FileRemains DEF PowerFailure
<1> QED
  BY <1>2, <1>3, <1>4, <1>5, <1>7, <1>8 DEF JournalNext, journalVars

(* An acknowledged record stays where it is through short writes, failed    *)
(* syncs, restarts and power failures; only rotateIfNeeded gives records    *)
(* up, the oldest file first and only when a record would not fit.          *)
THEOREM AcknowledgedKept ==
    JournalSpec =>
        [][\/ Keeps(prior, prior') /\ Keeps(current, current')
           \/ MakesRoom]_journalVars
BY KeepsStep, JournalInvariant, PTL DEF JournalSpec
=============================================================================
