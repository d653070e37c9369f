-------------------------- MODULE TelemetryJournal --------------------------
(***************************************************************************)
(* The local telemetry journal of the ROCK Pi: a file that append extends, *)
(* syncs and numbers, and rotateIfNeeded renames to ".1" before a record   *)
(* would take it past maxBytes.                                            *)
(*                                                                         *)
(* A file is the sequence of the pieces written to it; the content of a    *)
(* record is left out.  A missing file is an empty one: rotateIfNeeded     *)
(* treats them alike.  The file system is external: every call can fail, a *)
(* write can be cut short, and a power failure can take what was not       *)
(* synced.  Directory operations take effect in order and are durable.     *)
(***************************************************************************)
EXTENDS Naturals, Sequences

CONSTANTS
    RecordSizes,      \* bytes of a record, with its line feed
    MaxBytes,         \* config_.maxBytes
    SequenceBound     \* records acknowledged in one run at most

ASSUME JournalAssumption ==
    /\ MaxBytes \in Nat /\ RecordSizes \subseteq 1 .. MaxBytes
    /\ SequenceBound \in Nat

VARIABLES
    current,      \* the journal
    prior,        \* its predecessor, ".1"
    sequence,     \* sequence_
    step,         \* where append is
    incoming      \* size of the record it writes

journalVars == <<current, prior, sequence, step, incoming>>

(* A piece of a file.  "end" is the size of the file up to it, "mine" says  *)
(* that the running process wrote it, "acked" that append returned true.    *)
Pieces == [number : Nat, end : Nat, whole : BOOLEAN, synced : BOOLEAN,
           acked : BOOLEAN, mine : BOOLEAN]

FileSize(f) == IF f = <<>> THEN 0 ELSE f[Len(f)].end

(* Every variable has its type.                                             *)
JournalTypeOK ==
    /\ current \in Seq(Pieces) /\ prior \in Seq(Pieces)
    /\ sequence \in 0 .. SequenceBound
    /\ step \in {"idle", "write", "sync"}
    /\ incoming \in RecordSizes \cup {0}

JournalInit ==
    /\ current = <<>> /\ prior = <<>> /\ sequence = 0
    /\ step = "idle" /\ incoming = 0

-----------------------------------------------------------------------------
(* Faulty variant: only what is already in the file is compared.            *)
FitsBefore(size) == FileSize(current) <= MaxBytes

Fits(size) == FileSize(current) + size <= MaxBytes

(* rotateIfNeeded.  The predecessor is gone also when the rename fails.     *)
RotateIfNeeded(size) ==
    \/ /\ Fits(size)
       /\ step' = "write" /\ incoming' = size /\ UNCHANGED <<current, prior>>
    \/ /\ ~Fits(size)
       /\ step' = "write" /\ incoming' = size
       /\ prior' = current /\ current' = <<>>
    \/ /\ ~Fits(size)
       /\ prior' = <<>> /\ UNCHANGED <<current, step, incoming>>

(* append, up to the call of open.                                          *)
BeginAppend(size) ==
    /\ step = "idle" /\ sequence < SequenceBound
    /\ RotateIfNeeded(size)
    /\ UNCHANGED sequence

Piece(bytes, whole) ==
    [number |-> sequence + 1, end |-> FileSize(current) + bytes,
     whole |-> whole, synced |-> FALSE, acked |-> FALSE, mine |-> TRUE]

(* open and write: nothing, a part of the record or all of it.              *)
Write ==
    /\ step = "write"
    /\ \/ step' = "idle" /\ incoming' = 0 /\ UNCHANGED current
       \/ /\ \E bytes \in 1 .. incoming - 1 :
                 current' = Append(current, Piece(bytes, FALSE))
          /\ step' = "idle" /\ incoming' = 0
       \/ /\ current' = Append(current, Piece(incoming, TRUE))
          /\ step' = "sync" /\ UNCHANGED incoming
    /\ UNCHANGED <<prior, sequence>>

Synced(f) == [i \in DOMAIN f |-> [f[i] EXCEPT !.synced = TRUE]]

(* Faulty variant: the record is acknowledged without fsync.                *)
AcknowledgedUnsynced(f) == [f EXCEPT ![Len(f)].acked = TRUE]

Acknowledged(f) == [Synced(f) EXCEPT ![Len(f)].acked = TRUE]

(* Faulty variant: the number advances twice.                               *)
SyncCountsTwice ==
    /\ step = "sync"
    /\ \/ current' = Acknowledged(current) /\ sequence' = sequence + 2
       \/ UNCHANGED <<current, sequence>>
    /\ step' = "idle" /\ incoming' = 0
    /\ UNCHANGED prior

(* Faulty variant: the number does not advance.                             *)
SyncUnnumbered ==
    /\ step = "sync"
    /\ current' \in {current, Acknowledged(current)}
    /\ step' = "idle" /\ incoming' = 0
    /\ UNCHANGED <<prior, sequence>>

(* fsync, and the number advances if it succeeds.                           *)
Sync ==
    /\ step = "sync"
    /\ \/ current' = Acknowledged(current) /\ sequence' = sequence + 1
       \/ UNCHANGED <<current, sequence>>
    /\ step' = "idle" /\ incoming' = 0
    /\ UNCHANGED prior

(* What a power failure can leave of a file: what was synced, and some of   *)
(* the rest, of which the last piece may be torn.                           *)
Remains(f) ==
    LET lengths == {n \in 0 .. Len(f) : \A i \in n + 1 .. Len(f) : ~f[i].synced}
    IN  {SubSeq(f, 1, n) : n \in lengths} \cup
        {[SubSeq(f, 1, n) EXCEPT ![n].whole = FALSE] :
            n \in {k \in lengths : k > 0 /\ ~f[k].synced}}

NotMine(f) == [i \in DOMAIN f |-> [f[i] EXCEPT !.mine = FALSE]]

(* The process ends, at any point of append, and is started again.          *)
Restart ==
    /\ current' = NotMine(current) /\ prior' = NotMine(prior)
    /\ sequence' = 0 /\ step' = "idle" /\ incoming' = 0

PowerFailure ==
    /\ \E f \in Remains(current) : current' = NotMine(f)
    /\ \E f \in Remains(prior) : prior' = NotMine(f)
    /\ sequence' = 0 /\ step' = "idle" /\ incoming' = 0

JournalNext ==
    \/ \E size \in RecordSizes : BeginAppend(size)
    \/ Write \/ Sync \/ Restart \/ PowerFailure

JournalSpec == JournalInit /\ [][JournalNext]_journalVars

-----------------------------------------------------------------------------
(* Properties.                                                              *)

(* The journal and its predecessor each stay within maxBytes, through       *)
(* failed renames, short writes and restarts.                               *)
JournalBounded == FileSize(current) <= MaxBytes /\ FileSize(prior) <= MaxBytes

Journal == prior \o current

(* In what one process has written, numbers never go back, and a number is  *)
(* used again only if the record that had it was not acknowledged.          *)
Numbered ==
    \A i, j \in DOMAIN Journal :
        i < j /\ Journal[i].mine /\ Journal[j].mine =>
            IF Journal[i].acked THEN Journal[i].number < Journal[j].number
            ELSE Journal[i].number <= Journal[j].number

Acked(f) == SelectSeq(f, LAMBDA piece : piece.acked)

Log == INSTANCE BoundedLog WITH
    log <- [i \in DOMAIN Acked(Journal) |-> Acked(Journal)[i].number],
    last <- sequence

(* The acknowledged records form a bounded log: append acknowledges the     *)
(* next number, an acknowledged record survives every failure, and records  *)
(* are given up oldest first.                                               *)
JournalIsLog == Log!LogSpec
=============================================================================
