------------------------------ MODULE LinkProofs ------------------------------
(***************************************************************************)
(* Proofs about the connection between the ROCK Pi and a node, for any     *)
(* number of connections and any range of transaction numbers.             *)
(***************************************************************************)
EXTENDS NodeLink, SequenceTheorems, TLAPS

(* A connection is in one place, and that of the client is the last one.    *)
Places ==
    /\ \A i \in 1 .. Len(backlog) : backlog[i] # client
    /\ \A i, j \in 1 .. Len(backlog) : backlog[i] = backlog[j] => i = j
    /\ socket \in Connections /\ Held(socket) =>
           IF client = socket THEN backlog = <<>>
           ELSE backlog # <<>> /\ backlog[Len(backlog)] = socket

(* The parts of a request follow each other.                                *)
Second(item) == [item EXCEPT !.part = 2]
Stream(f) ==
    \A i \in 1 .. Len(f) - 1 :
        IF f[i].part = 1 THEN f[i + 1] = Second(f[i]) ELSE f[i + 1].part = 1

Streams ==
    /\ \A c \in Connections :
           /\ Stream(up[c])
           /\ ~Held(c) => up[c] = <<>>
           /\ c # socket => down[c] = <<>> /\ ~Fresh(up[c])
           /\ c # client /\ up[c] # <<>> => up[c][1].part = 1
    /\ client \in Connections /\ up[client] # <<>> =>
           IF Len(rx) = 1 THEN up[client][1] = Second(rx[1])
           ELSE up[client][1].part = 1
    /\ \A i \in 1 .. Len(rx) :
           rx[i].part = 2 /\ rx[i].fresh =>
               client = socket /\ socket \in Connections

(* The request under way is in one place, or it has been handled.           *)
Sent(t, k, n) == [transaction |-> t, kind |-> k, part |-> n, fresh |-> TRUE]
Answer(t, k) == [transaction |-> t, kind |-> k, fresh |-> TRUE]
Request(n) == Sent(transactionId, exchange, n)
Reply == Answer(transactionId, exchange)
RxEmpty == client = socket => rx = <<>>

Nothing == up[socket] = <<>> /\ down[socket] = <<>> /\ RxEmpty
Waiting ==
    /\ Held(socket) /\ RxEmpty
    /\ up[socket] = <<Request(1), Request(2)>> /\ down[socket] = <<>>
Half ==
    /\ client = socket /\ rx = <<Request(1)>>
    /\ up[socket] = <<Request(2)>> /\ down[socket] = <<>>
Whole ==
    /\ client = socket /\ rx = <<Request(1), Request(2)>>
    /\ up[socket] = <<>> /\ down[socket] = <<>>
Handled == up[socket] = <<>> /\ down[socket] = <<Reply>> /\ RxEmpty

Current ==
    /\ socket = NoConnection => exchange = "idle"
    /\ socket # NoConnection /\ exchange = "idle" => Nothing
    /\ exchange # "idle" => Nothing \/ Waiting \/ Half \/ Whole \/ Handled

LinkFlags == {allowed, restartRequested, calm} \subseteq BOOLEAN

LinkTypes ==
    /\ socket \in Connections \cup {NoConnection}
    /\ client \in Connections \cup {NoConnection}
    /\ transactionId \in 0 .. Transactions - 1
    /\ exchange \in Kinds \cup {"idle"}
    /\ outcome \in {"none", "answered", "refused", "failed"}
    /\ backlog \in Seq(Connections) /\ ended \subseteq Connections
    /\ rx \in Seq(Parts) /\ Len(rx) <= 2
    /\ \A i \in 1 .. Len(rx) : rx[i] = [rx[1] EXCEPT !.part = i]
    /\ up \in [Connections -> Seq(Parts)]
    /\ down \in [Connections -> Seq(Answers)]

LinkInv == LinkTypes /\ Places /\ Streams /\ Current

-----------------------------------------------------------------------------
(* Parts, answers and short sequences of them.                              *)

LEMMA ShortSequences ==
    /\ \A a : /\ <<a>> # <<>> /\ Len(<<a>>) = 1 /\ <<a>>[1] = a
             /\ Head(<<a>>) = a /\ Tail(<<a>>) = <<>>
    /\ \A a, b : /\ <<a, b>> # <<>> /\ Len(<<a, b>>) = 2
                /\ <<a, b>>[1] = a /\ <<a, b>>[2] = b
                /\ Head(<<a, b>>) = a /\ Tail(<<a, b>>) = <<b>>
    /\ Len(<<>>) = 0
BY SMT

LEMMA ShortTyped ==
    ASSUME NEW S, NEW a \in S, NEW b \in S
    PROVE  /\ <<a>> \in Seq(S) /\ <<a, b>> \in Seq(S) /\ <<>> \in Seq(S)
           /\ Append(<<>>, a) = <<a>> /\ Append(<<a>>, b) = <<a, b>>
           /\ <<>> \o <<a, b>> = <<a, b>>
<1>1. <<a>> \in Seq(S) /\ <<a, b>> \in Seq(S) /\ <<>> \in Seq(S)
  BY SMT
<1>2. <<>> \o <<a, b>> = <<a, b>>
  BY <1>1, ConcatEmptySeq
<1>3. Append(<<>>, a) = <<a>>
  <2>1. /\ Append(<<>>, a) \in Seq(S) /\ Len(Append(<<>>, a)) = 1
        /\ Append(<<>>, a)[1] = a
    BY <1>1, AppendProperties, ShortSequences
  <2>2. Len(<<a>>) = 1 /\ <<a>>[1] = a
    BY ShortSequences
  <2>3. \A i \in 1 .. 1 : Append(<<>>, a)[i] = <<a>>[i]
    BY <2>1, <2>2
  <2> QED
    BY <1>1, <2>1, <2>2, <2>3, SeqEqual
<1>4. Append(<<a>>, b) = <<a, b>>
  <2>1. /\ Append(<<a>>, b) \in Seq(S) /\ Len(Append(<<a>>, b)) = 2
        /\ Append(<<a>>, b)[1] = a /\ Append(<<a>>, b)[2] = b
    BY <1>1, AppendProperties, ShortSequences
  <2>2. Len(<<a, b>>) = 2 /\ <<a, b>>[1] = a /\ <<a, b>>[2] = b
    BY ShortSequences
  <2>3. \A i \in 1 .. 2 : Append(<<a>>, b)[i] = <<a, b>>[i]
    BY <2>1, <2>2
  <2> QED
    BY <1>1, <2>1, <2>2, <2>3, SeqEqual
<1> QED
  BY <1>1, <1>2, <1>3, <1>4

(* A part of an exchange that is over.                                      *)
StalePart(p) == [p EXCEPT !.fresh = FALSE]

LEMMA PartFacts ==
    ASSUME NEW p \in Parts
    PROVE  /\ Second(p) \in Parts /\ Second(p).part = 2
           /\ Second(p).fresh = p.fresh /\ p.part \in {1, 2}
           /\ StalePart(p) \in Parts /\ ~StalePart(p).fresh
           /\ StalePart(p).part = p.part
           /\ Second(StalePart(p)) = StalePart(Second(p))
<1>1. /\ StalePart(p) \in Parts /\ ~StalePart(p).fresh
      /\ StalePart(p).part = p.part
  BY Zenon DEF Parts, StalePart
<1>2. /\ Second(p) \in Parts /\ Second(p).part = 2
      /\ Second(p).fresh = p.fresh /\ p.part \in {1, 2}
  <2>1. 2 \in {1, 2}
    OBVIOUS
  <2> QED
    BY <2>1, Zenon DEF Parts, Second
<1>3. Second(StalePart(p)) = StalePart(Second(p))
  BY DEF Parts, Second, StalePart
<1> QED
  BY <1>1, <1>2, <1>3

LEMMA RequestFacts ==
    ASSUME NEW t \in 0 .. Transactions - 1, NEW k \in Kinds
    PROVE  /\ Sent(t, k, 1) \in Parts /\ Sent(t, k, 2) \in Parts
           /\ Sent(t, k, 1).part = 1 /\ Sent(t, k, 2).part = 2
           /\ Sent(t, k, 1).fresh /\ Sent(t, k, 2).fresh
           /\ Sent(t, k, 2) = Second(Sent(t, k, 1))
           /\ Answer(t, k) \in Answers /\ Answer(t, k).fresh
           /\ Answer(t, k).transaction = t /\ Answer(t, k).kind = k
<1>1. 1 \in {1, 2} /\ 2 \in {1, 2} /\ TRUE \in BOOLEAN
  OBVIOUS
<1>2. /\ Sent(t, k, 1) \in Parts /\ Sent(t, k, 2) \in Parts
      /\ Answer(t, k) \in Answers
  BY <1>1, Zenon DEF Sent, Answer, Parts, Answers
<1>3. Sent(t, k, 1).fresh /\ Sent(t, k, 2).fresh /\ Answer(t, k).fresh
  BY Zenon DEF Sent, Answer
<1>4. Sent(t, k, 2) = Second(Sent(t, k, 1))
  <2> DEFINE p == Sent(t, k, 1)
             q == Second(p)
  <2>1. p = [transaction |-> p.transaction, kind |-> p.kind, part |-> p.part,
             fresh |-> p.fresh]
    BY DEF Sent
  <2>2. p.transaction = t /\ p.kind = k /\ p.fresh = TRUE
    BY Zenon DEF Sent
  <2>3. q = [transaction |-> p.transaction, kind |-> p.kind, part |-> 2,
             fresh |-> p.fresh]
    BY <2>1 DEF Second
  <2> QED
    BY <2>2, <2>3, Zenon DEF Sent
<1> QED
  BY <1>2, <1>3, <1>4 DEF Sent, Answer

LEMMA StaleFacts ==
    ASSUME NEW f \in Seq(Parts)
    PROVE  /\ Stale(f) \in Seq(Parts) /\ Len(Stale(f)) = Len(f)
           /\ \A i \in 1 .. Len(f) : Stale(f)[i] = StalePart(f[i])
           /\ ~Fresh(Stale(f))
           /\ Stream(f) => Stream(Stale(f))
           /\ Stale(f) = <<>> <=> f = <<>>
<1>1. /\ DOMAIN f = 1 .. Len(f) /\ Len(f) \in Nat
      /\ \A i \in 1 .. Len(f) : f[i] \in Parts
  BY LenProperties, ElementOfSeq
<1> DEFINE s == Stale(f)
<1>2. /\ DOMAIN s = 1 .. Len(f) /\ s = [i \in 1 .. Len(f) |-> s[i]]
      /\ \A i \in 1 .. Len(f) : s[i] = StalePart(f[i])
  BY <1>1 DEF Stale, StalePart
<1> HIDE DEF s
<1>3. \A i \in 1 .. Len(f) :
          /\ s[i] \in Parts /\ ~s[i].fresh /\ s[i].part = f[i].part
          /\ Second(s[i]) = StalePart(Second(f[i]))
  BY <1>1, <1>2, PartFacts
<1>4. s \in [1 .. Len(f) -> Parts]
  BY <1>2, <1>3
<1>5. s \in Seq(Parts) /\ Len(s) = Len(f)
  BY <1>1, <1>2, <1>4, SeqDef, LenProperties
<1>6. ~Fresh(s)
  BY <1>2, <1>3 DEF Fresh
<1>7. Stream(f) => Stream(s)
  <2> SUFFICES ASSUME Stream(f), NEW i \in 1 .. Len(f) - 1
               PROVE  IF s[i].part = 1 THEN s[i + 1] = Second(s[i])
                      ELSE s[i + 1].part = 1
    BY <1>5 DEF Stream
  <2>1. i \in 1 .. Len(f) /\ i + 1 \in 1 .. Len(f)
    BY <1>1
  <2>2. IF f[i].part = 1 THEN f[i + 1] = Second(f[i]) ELSE f[i + 1].part = 1
    BY DEF Stream
  <2>3. CASE f[i].part = 1
    BY <1>2, <1>3, <2>1, <2>2, <2>3, Zenon
  <2>4. CASE f[i].part # 1
    BY <1>2, <1>3, <2>1, <2>2, <2>4
  <2> QED
    BY <2>3, <2>4
<1>8. s = <<>> <=> f = <<>>
  BY <1>1, <1>5, EmptySeq
<1> QED
  BY <1>2, <1>5, <1>6, <1>7, <1>8 DEF s

(* What has been given up of a sequence of parts.                           *)
LEMMA LateFacts ==
    ASSUME NEW f \in Seq(Parts)
    PROVE  /\ LateRequest(f) <=> \E i \in 1 .. Len(f) : f[i].part = 2 /\ ~f[i].fresh
           /\ Fresh(f) <=> \E i \in 1 .. Len(f) : f[i].fresh
           /\ ~Fresh(f) => (LateRequest(Stale(f)) <=> LateRequest(f))
<1>1. DOMAIN f = 1 .. Len(f) /\ \A i \in 1 .. Len(f) : f[i] \in Parts
  BY LenProperties, ElementOfSeq
<1>2. /\ Stale(f) \in Seq(Parts) /\ Len(Stale(f)) = Len(f)
      /\ \A i \in 1 .. Len(f) : Stale(f)[i] = StalePart(f[i])
  BY StaleFacts
<1>3. DOMAIN Stale(f) = 1 .. Len(f)
  BY <1>2, LenProperties
<1>4. \A i \in 1 .. Len(f) :
          ~Stale(f)[i].fresh /\ Stale(f)[i].part = f[i].part
  BY <1>1, <1>2, PartFacts
<1> QED
  BY <1>1, <1>3, <1>4 DEF LateRequest, Fresh

(* The beginning of a sequence of parts, and the rest of one.               *)
LEMMA CutFacts ==
    ASSUME NEW f \in Seq(Parts), NEW n \in 0 .. Len(f)
    PROVE  LET g == SubSeq(f, 1, n)
           IN  /\ g \in Seq(Parts) /\ Len(g) = n
               /\ \A i \in 1 .. n : g[i] = f[i]
               /\ Stream(f) => Stream(g)
               /\ Fresh(g) => Fresh(f)
               /\ LateRequest(g) => LateRequest(f)
               /\ g # <<>> => f # <<>> /\ g[1] = f[1]
<1> DEFINE g == SubSeq(f, 1, n)
<1>1. Len(f) \in Nat /\ \A i \in 1 .. Len(f) : f[i] \in Parts
  BY LenProperties, ElementOfSeq
<1>2. \A i \in 1 .. n : f[i] \in Parts
  BY <1>1
<1>3. /\ g \in Seq(Parts) /\ Len(g) = IF 1 <= n THEN n - 1 + 1 ELSE 0
      /\ \A i \in 1 .. n - 1 + 1 : g[i] = f[1 + i - 1]
  BY <1>2, SubSeqProperties
<1> HIDE DEF g
<1>4. Len(g) = n /\ \A i \in 1 .. n : g[i] = f[i]
  BY <1>1, <1>3
<1>5. Stream(f) => Stream(g)
  BY <1>1, <1>4 DEF Stream
<1>6. \A i \in 1 .. n : i \in 1 .. Len(f)
  BY <1>1
<1>7. (Fresh(g) => Fresh(f)) /\ (LateRequest(g) => LateRequest(f))
  BY <1>3, <1>4, <1>6, LateFacts
<1>8. g # <<>> => f # <<>> /\ g[1] = f[1]
  BY <1>1, <1>3, <1>4, EmptySeq
<1> QED
  BY <1>3, <1>4, <1>5, <1>7, <1>8 DEF g

LEMMA TailFacts ==
    ASSUME NEW f \in Seq(Parts), f # <<>>
    PROVE  LET g == Tail(f)
           IN  /\ g \in Seq(Parts) /\ Len(g) = Len(f) - 1 /\ Len(f) \in Nat \ {0}
               /\ \A i \in 1 .. Len(g) : g[i] = f[i + 1]
               /\ Head(f) = f[1] /\ f[1] \in Parts
               /\ Stream(f) => Stream(g)
               /\ Fresh(f) <=> Fresh(g) \/ f[1].fresh
               /\ LateRequest(f) <=>
                      LateRequest(g) \/ (f[1].part = 2 /\ ~f[1].fresh)
               /\ Stream(f) /\ g # <<>> =>
                      IF f[1].part = 1 THEN g[1] = Second(f[1]) ELSE g[1].part = 1
<1> DEFINE g == Tail(f)
<1>1. Len(f) \in Nat \ {0} /\ 1 \in 1 .. Len(f)
  BY EmptySeq
<1>2. /\ g \in Seq(Parts) /\ Len(g) = Len(f) - 1 /\ Head(f) = f[1]
      /\ \A i \in 1 .. Len(g) : g[i] = f[i + 1]
  BY HeadTailProperties
<1>3. f[1] \in Parts
  BY <1>1, ElementOfSeq
<1> HIDE DEF g
<1>4. \A i \in 1 .. Len(f) : i = 1 \/ (i - 1 \in 1 .. Len(g) /\ g[i - 1] = f[i])
  BY <1>1, <1>2
<1>5. \A i \in 1 .. Len(g) : i + 1 \in 1 .. Len(f)
  BY <1>1, <1>2
<1>6. Fresh(f) <=> Fresh(g) \/ f[1].fresh
  <2>1. Fresh(f) => Fresh(g) \/ f[1].fresh
    BY <1>2, <1>4, LateFacts
  <2>2. Fresh(g) \/ f[1].fresh => Fresh(f)
    BY <1>1, <1>2, <1>5, LateFacts
  <2> QED
    BY <2>1, <2>2
<1>7. LateRequest(f) <=> LateRequest(g) \/ (f[1].part = 2 /\ ~f[1].fresh)
  <2>1. LateRequest(f) => LateRequest(g) \/ (f[1].part = 2 /\ ~f[1].fresh)
    BY <1>2, <1>4, LateFacts
  <2>2. LateRequest(g) \/ (f[1].part = 2 /\ ~f[1].fresh) => LateRequest(f)
    BY <1>1, <1>2, <1>5, LateFacts
  <2> QED
    BY <2>1, <2>2
<1>8. Stream(f) => Stream(g)
  <2> SUFFICES ASSUME Stream(f), NEW i \in 1 .. Len(g) - 1
               PROVE  IF g[i].part = 1 THEN g[i + 1] = Second(g[i])
                      ELSE g[i + 1].part = 1
    BY DEF Stream
  <2>1. /\ i \in 1 .. Len(g) /\ i + 1 \in 1 .. Len(g)
        /\ i + 1 \in 1 .. Len(f) - 1
    BY <1>1, <1>2
  <2>2. g[i] = f[i + 1] /\ g[i + 1] = f[i + 1 + 1]
    BY <1>2, <2>1
  <2> QED
    BY <2>1, <2>2 DEF Stream
<1>9. Stream(f) /\ g # <<>> =>
          IF f[1].part = 1 THEN g[1] = Second(f[1]) ELSE g[1].part = 1
  <2> SUFFICES ASSUME Stream(f), g # <<>>
               PROVE  IF f[1].part = 1 THEN g[1] = Second(f[1])
                      ELSE g[1].part = 1
    OBVIOUS
  <2>1. Len(g) \in Nat \ {0}
    BY <1>2, EmptySeq
  <2>2. 1 \in 1 .. Len(f) - 1 /\ g[1] = f[1 + 1]
    BY <1>1, <1>2, <2>1
  <2> QED
    BY <2>2 DEF Stream
<1> QED
  BY <1>1, <1>2, <1>3, <1>6, <1>7, <1>8, <1>9 DEF g

-----------------------------------------------------------------------------
(* The state.                                                               *)

LEMMA TypesSplit == LinkTypeOK <=> LinkTypes /\ LinkFlags
<1>1. rx \in Seq(Parts) => DOMAIN rx = 1 .. Len(rx)
  BY LenProperties
<1> QED
  BY <1>1, Zenon DEF LinkTypeOK, LinkTypes, LinkFlags

LEMMA RxFacts ==
    ASSUME LinkTypes
    PROVE  /\ Len(rx) \in {0, 1, 2} /\ (Len(rx) = 0 <=> rx = <<>>)
           /\ \A i \in 1 .. Len(rx) : rx[i] \in Parts /\ rx[i].part = i
           /\ Len(rx) = 2 => rx[2] = Second(rx[1])
<1>1. /\ rx \in Seq(Parts) /\ Len(rx) \in Nat /\ Len(rx) <= 2
      /\ \A i \in 1 .. Len(rx) : rx[i] \in Parts
      /\ \A i \in 1 .. Len(rx) : rx[i] = [rx[1] EXCEPT !.part = i]
  BY LenProperties, ElementOfSeq DEF LinkTypes
<1>2. Len(rx) \in {0, 1, 2} /\ (Len(rx) = 0 <=> rx = <<>>)
  <2>1. Len(rx) \in {0, 1, 2}
    <3> DEFINE n == Len(rx)
    <3>1. n \in Nat /\ n <= 2
      BY <1>1
    <3> HIDE DEF n
    <3>2. n \in {0, 1, 2}
      BY <3>1
    <3> QED
      BY <3>2 DEF n
  <2>2. Len(rx) = 0 <=> rx = <<>>
    BY <1>1, EmptySeq
  <2> QED
    BY <2>1, <2>2
<1>3. \A i \in 1 .. Len(rx) : rx[i].part = i
  <2> SUFFICES ASSUME NEW i \in 1 .. Len(rx) PROVE rx[i].part = i
    OBVIOUS
  <2>1. rx[1] \in Parts
    BY <1>1, <1>2
  <2>2. rx[i] = [rx[1] EXCEPT !.part = i]
    BY <1>1
  <2>3. [rx[1] EXCEPT !.part = i].part = i
    BY <2>1, Zenon DEF Parts
  <2> QED
    BY <2>2, <2>3
<1>4. Len(rx) = 2 => rx[2] = Second(rx[1])
  BY <1>1 DEF Second
<1> QED
  BY <1>1, <1>2, <1>3, <1>4

(* What rx_ can hold.                                                       *)
LEMMA RxTyped ==
    ASSUME NEW p \in Parts, p.part = 1, NEW r, r \in {<<>>, <<p>>, <<p, Second(p)>>}
    PROVE  /\ r \in Seq(Parts) /\ Len(r) <= 2
           /\ \A i \in 1 .. Len(r) : r[i] = [r[1] EXCEPT !.part = i]
<1>1. Second(p) \in Parts
  BY PartFacts
<1>2. [p EXCEPT !.part = 1] = p /\ [p EXCEPT !.part = 2] = Second(p)
  BY DEF Second, Parts
<1>3. CASE r = <<>>
  BY <1>3, ShortSequences, ShortTyped
<1>4. CASE r = <<p>>
  <2>1. Len(r) = 1 /\ r[1] = p
    BY <1>4, ShortSequences
  <2> QED
    BY <1>2, <1>4, <2>1, ShortTyped
<1>5. CASE r = <<p, Second(p)>>
  <2>1. Len(r) = 2 /\ r[1] = p /\ r[2] = Second(p)
    BY <1>5, ShortSequences
  <2>2. \A i \in 1 .. 2 : i = 1 \/ i = 2
    OBVIOUS
  <2> QED
    BY <1>1, <1>2, <1>5, <2>1, <2>2, ShortTyped
<1> QED
  BY <1>3, <1>4, <1>5

LEMMA LinkInitInv == LinkInit => LinkInv
<1> SUFFICES ASSUME LinkInit PROVE LinkInv
  OBVIOUS
<1>1. /\ Len(<<>>) = 0 /\ <<>> \in Seq(Parts) /\ <<>> \in Seq(Answers)
      /\ <<>> \in Seq(Connections)
  BY EmptySeq
<1>2. /\ up \in [Connections -> Seq(Parts)]
      /\ down \in [Connections -> Seq(Answers)]
      /\ \A c \in Connections : up[c] = <<>> /\ down[c] = <<>>
  BY <1>1 DEF LinkInit
<1>3. LinkTypes
  BY <1>1, <1>2, LinkAssumption DEF LinkInit, LinkTypes
<1>4. Stream(<<>>) /\ ~Fresh(<<>>)
  BY <1>1 DEF Stream, Fresh
<1>5. Places
  BY <1>1, LinkAssumption DEF LinkInit, Places
<1>6. Streams
  BY <1>1, <1>2, <1>4, LinkAssumption DEF LinkInit, Streams
<1>7. Current
  BY DEF LinkInit, Current
<1> QED
  BY <1>3, <1>5, <1>6, <1>7 DEF LinkInv

(* The members the connections of the client and the backlog have.          *)
LEMMA HeldFacts ==
    ASSUME LinkTypes
    PROVE  /\ \A c : Held(c) <=>
                  c = client \/ \E i \in 1 .. Len(backlog) : backlog[i] = c
           /\ Len(backlog) \in Nat /\ (backlog = <<>> <=> Len(backlog) = 0)
           /\ \A i \in 1 .. Len(backlog) : backlog[i] \in Connections
<1>1. backlog \in Seq(Connections)
  BY DEF LinkTypes
<1> QED
  BY <1>1, LenProperties, ElementOfSeq, EmptySeq DEF Held

(* The served connection is dropped, and perhaps others; the next one is    *)
(* served or none.                                                          *)
LEMMA DropInv ==
    ASSUME LinkInv, NEW gone \in SUBSET Connections, Dropped(gone),
           UNCHANGED <<clientVars, down>>,
           client \in Connections => client \in gone,
           client' \in (Connections \ gone) \cup {NoConnection},
           rx' = <<>> \/ (rx' = rx /\ client' = NoConnection /\ Len(rx) < 2),
           backlog' \in Seq(Connections), Places',
           \A c \in Connections \ gone : Held(c) => Held(c)'
    PROVE  LinkInv'
<1>1. /\ socket' = socket /\ transactionId' = transactionId
      /\ exchange' = exchange /\ outcome' = outcome /\ down' = down
  BY DEF clientVars
<1>2. LinkTypes /\ Places /\ Streams /\ Current
  BY DEF LinkInv
<1>3. /\ up' = [c \in Connections |-> IF c \in gone THEN <<>> ELSE up[c]]
      /\ ended' = ended \ gone
  BY DEF Dropped
<1>4. /\ <<>> \in Seq(Parts) /\ Len(<<>>) = 0 /\ Stream(<<>>) /\ ~Fresh(<<>>)
  BY EmptySeq DEF Stream, Fresh
<1>5. /\ up' \in [Connections -> Seq(Parts)]
      /\ \A c \in Connections : c \in gone => up'[c] = <<>>
      /\ \A c \in Connections : c \notin gone => up'[c] = up[c]
  BY <1>2, <1>3, <1>4 DEF LinkTypes
<1>6. LinkTypes'
  <2>1. /\ rx' \in Seq(Parts) /\ Len(rx') <= 2
        /\ \A i \in 1 .. Len(rx') : rx'[i] = [rx'[1] EXCEPT !.part = i]
    <3>1. CASE rx' = <<>>
      BY <1>4, <3>1
    <3>2. CASE rx' = rx
      BY <1>2, <3>2, Zenon DEF LinkTypes
    <3> QED
      BY <3>1, <3>2
  <2>2. client' \in Connections \cup {NoConnection} /\ ended' \subseteq Connections
    BY <1>2, <1>3 DEF LinkTypes
  <2> QED
    BY <1>1, <1>2, <1>5, <2>1, <2>2, Zenon DEF LinkTypes
<1>7. \A i \in 1 .. Len(rx') : client' = NoConnection /\ rx'[i].part = 1
  <2>1. CASE rx' = <<>>
    BY <1>4, <2>1
  <2>2. CASE rx' = rx /\ client' = NoConnection /\ Len(rx) < 2
    <3>1. \A i \in 1 .. Len(rx) : i = 1
      BY <1>2, <2>2, RxFacts
    <3> QED
      BY <1>2, <2>2, <3>1, RxFacts
  <2> QED
    BY <2>1, <2>2
<1>8. client' \in Connections => rx' = <<>> /\ client' # client
  BY LinkAssumption
<1>9. Streams'
  <2>1. ASSUME NEW c \in Connections
        PROVE  /\ Stream(up'[c])
               /\ ~Held(c)' => up'[c] = <<>>
               /\ c # socket => down[c] = <<>> /\ ~Fresh(up'[c])
               /\ c # client' /\ up'[c] # <<>> => up'[c][1].part = 1
    BY <1>2, <1>4, <1>5 DEF Streams
  <2>2. client' \in Connections /\ up'[client'] # <<>> =>
            IF Len(rx') = 1 THEN up'[client'][1] = Second(rx'[1])
            ELSE up'[client'][1].part = 1
    BY <1>2, <1>4, <1>5, <1>8 DEF Streams
  <2>3. \A i \in 1 .. Len(rx') : rx'[i].part # 2
    BY <1>7
  <2> QED
    BY <1>1, <2>1, <2>2, <2>3 DEF Streams
<1>10. Current'
  <2>1. CASE socket = NoConnection
    BY <1>1, <1>2, <2>1 DEF Current
  <2>2. CASE socket # NoConnection
    <3>1. socket \in Connections /\ RxEmpty'
      BY <1>1, <1>2, <1>8, <2>2 DEF LinkTypes, RxEmpty
    <3>2. CASE exchange = "idle"
      BY <1>1, <1>2, <1>5, <2>2, <3>1, <3>2 DEF Current, Nothing
    <3>3. CASE exchange # "idle" /\ socket \in gone
      BY <1>1, <1>2, <1>5, <2>2, <3>1, <3>3
         DEF Current, Nothing, Waiting, Half, Whole, Handled, Reply
    <3>4. CASE exchange # "idle" /\ socket \notin gone
      <4>1. client # socket
        BY <3>1, <3>4
      <4>2. Nothing \/ Waiting \/ Handled
        BY <1>2, <3>4, <4>1 DEF Current, Half, Whole
      <4>3. Held(socket) => Held(socket)'
        BY <1>1, <3>1, <3>4
      <4>4. up'[socket] = up[socket]
        BY <1>5, <3>1, <3>4
      <4>5. CASE Nothing
        BY <1>1, <2>2, <3>1, <3>4, <4>4, <4>5 DEF Current, Nothing
      <4>6. CASE Waiting
        BY <1>1, <2>2, <3>1, <3>4, <4>3, <4>4, <4>6
           DEF Current, Waiting, Request, Held
      <4>7. CASE Handled
        BY <1>1, <2>2, <3>1, <3>4, <4>4, <4>7 DEF Current, Handled, Reply
      <4> QED
        BY <4>2, <4>5, <4>6, <4>7
    <3> QED
      BY <3>2, <3>3, <3>4
  <2> QED
    BY <2>1, <2>2
<1> QED
  BY <1>6, <1>9, <1>10 DEF LinkInv

(* Steps after which no connection is served.                               *)
LEMMA StoppedInv ==
    ASSUME LinkInv, NEW gone \in SUBSET Connections, Dropped(gone),
           UNCHANGED <<clientVars, down>>, client' = NoConnection,
           client \in Connections => client \in gone,
           rx' = <<>> \/ (rx' = rx /\ Len(rx) < 2),
           backlog' = backlog \/ (backlog' = <<>> /\ gone = Connections)
    PROVE  LinkInv'
<1>1. LinkTypes /\ Places
  BY DEF LinkInv
<1>2. /\ <<>> \in Seq(Connections) /\ Len(<<>>) = 0
      /\ backlog \in Seq(Connections)
  BY <1>1, EmptySeq DEF LinkTypes
<1>3. backlog' \in Seq(Connections) /\ DOMAIN backlog' = 1 .. Len(backlog')
  BY <1>2, LenProperties
<1>4. \A c \in Connections :
          Held(c)' => \E i \in 1 .. Len(backlog') : backlog'[i] = c
  BY <1>3, LinkAssumption DEF Held
<1>5. Places'
  <2>1. CASE backlog' = <<>>
    <3>1. \A c \in Connections : ~Held(c)'
      BY <1>2, <1>4, <2>1
    <3> QED
      BY <1>2, <2>1, <3>1, LinkAssumption DEF Places
  <2>2. CASE backlog' = backlog
    <3>1. \A i \in 1 .. Len(backlog') : backlog'[i] # client'
      BY <1>1, <2>2, HeldFacts, LinkAssumption
    <3>2. ASSUME socket' \in Connections, Held(socket)'
          PROVE  /\ client' # socket' /\ backlog' # <<>>
                 /\ backlog'[Len(backlog')] = socket'
      <4>1. PICK i \in 1 .. Len(backlog) : backlog[i] = socket
        BY <1>4, <2>2, <3>2 DEF clientVars
      <4>2. Held(socket) /\ client # socket
        BY <1>1, <4>1, HeldFacts DEF Places
      <4> QED
        BY <1>1, <2>2, <3>2, <4>2, LinkAssumption DEF Places, clientVars
    <3> QED
      BY <1>1, <2>2, <3>1, <3>2 DEF Places
  <2> QED
    BY <2>1, <2>2
<1>6. \A c \in Connections \ gone : Held(c) => Held(c)'
  BY <1>1, <1>3, HeldFacts DEF Held
<1> QED
  BY <1>3, <1>5, <1>6, DropInv

LEMMA StopClientInv == LinkInv /\ StopClient => LinkInv'
BY StoppedInv DEF StopClient, FramesDone, LinkInv, LinkTypes

LEMMA RxTimeoutInv == LinkInv /\ RxTimeout => LinkInv'
BY StoppedInv DEF RxTimeout, LinkInv, LinkTypes

LEMMA RestartControlInv == LinkInv /\ RestartControl => LinkInv'
BY StoppedInv DEF RestartControl

LEMMA NodeResetInv == LinkInv /\ NodeReset => LinkInv'
BY StoppedInv DEF NodeReset

LEMMA SetRockPiAddressInv == LinkInv /\ SetRockPiAddress => LinkInv'
BY StoppedInv DEF SetRockPiAddress, FramesDone

(* The next connection is taken from the backlog.                           *)
LEMMA AcceptClientInv == LinkInv /\ AcceptClient => LinkInv'
<1> SUFFICES ASSUME LinkInv, AcceptClient PROVE LinkInv'
  OBVIOUS
<1>1. LinkTypes /\ Places
  BY DEF LinkInv
<1>2. /\ Len(rx) < 2 /\ backlog # <<>> /\ backlog' = Tail(backlog)
      /\ UNCHANGED <<clientVars, down>>
  BY DEF AcceptClient, FramesDone
<1>3. /\ backlog \in Seq(Connections) /\ Len(backlog) \in Nat \ {0}
      /\ 1 \in 1 .. Len(backlog)
  BY <1>1, <1>2, HeldFacts DEF LinkTypes
<1>4. /\ backlog' \in Seq(Connections) /\ Len(backlog') = Len(backlog) - 1
      /\ \A i \in 1 .. Len(backlog') : backlog'[i] = backlog[i + 1]
      /\ Head(backlog) = backlog[1] /\ backlog[1] \in Connections
      /\ DOMAIN backlog' = 1 .. Len(backlog')
  BY <1>2, <1>3, HeadTailProperties, ElementOfSeq, LenProperties
<1>5. /\ \A i \in 1 .. Len(backlog') : i + 1 \in 1 .. Len(backlog)
      /\ \A i \in 1 .. Len(backlog) : i = 1 \/ i - 1 \in 1 .. Len(backlog')
  BY <1>3, <1>4
<1>6. /\ \A i \in 1 .. Len(backlog') : /\ backlog'[i] # backlog[1]
                                     /\ backlog'[i] # client
                                     /\ backlog'[i] # NoConnection
      /\ \A i, j \in 1 .. Len(backlog') : backlog'[i] = backlog'[j] => i = j
      /\ backlog[1] # client
  <2>1. \A i \in 1 .. Len(backlog') : backlog[i + 1] # backlog[1]
    BY <1>1, <1>3, <1>5 DEF Places
  <2>2. \A i, j \in 1 .. Len(backlog') : backlog[i + 1] = backlog[j + 1] => i = j
    BY <1>1, <1>5 DEF Places
  <2>3. \A i \in 1 .. Len(backlog) : backlog[i] # client /\ backlog[i] # NoConnection
    BY <1>1, HeldFacts, LinkAssumption DEF Places
  <2> QED
    BY <1>3, <1>4, <1>5, <2>1, <2>2, <2>3
<1>7. \A c \in Connections :
          Held(c)' <=> c = client' \/ \E i \in 1 .. Len(backlog') : backlog'[i] = c
  BY <1>4 DEF Held
<1>8. client' \in {backlog[1], NoConnection}
  BY <1>4 DEF AcceptClient
<1>9. ASSUME socket \in Connections, NEW i \in 1 .. Len(backlog),
             backlog[i] = socket
      PROVE  backlog[Len(backlog)] = socket /\ client # socket
  BY <1>1, <1>9, HeldFacts DEF Places
<1>10. Places'
  <2>1. ASSUME socket \in Connections, Held(socket)', client' = socket
        PROVE  backlog' = <<>>
    <3>1. backlog[1] = socket
      BY <1>8, <2>1, LinkAssumption
    <3>2. Len(backlog) = 1
      BY <1>1, <1>3, <1>9, <2>1, <3>1 DEF Places
    <3> QED
      BY <1>4, <3>2, EmptySeq
  <2>2. ASSUME socket \in Connections, Held(socket)', client' # socket
        PROVE  backlog' # <<>> /\ backlog'[Len(backlog')] = socket
    <3>1. PICK i \in 1 .. Len(backlog') : backlog'[i] = socket
      <4>1. socket' = socket
        BY <1>2 DEF clientVars
      <4> QED
        BY <1>7, <2>2, <4>1
    <3>2. backlog[i + 1] = socket /\ i + 1 \in 1 .. Len(backlog)
      BY <1>4, <1>5, <3>1
    <3>3. backlog[Len(backlog)] = socket
      BY <1>9, <2>2, <3>2
    <3>4. Len(backlog') \in 1 .. Len(backlog') /\ Len(backlog') + 1 = Len(backlog)
      BY <1>3, <1>4, <3>2
    <3> QED
      BY <1>4, <3>3, <3>4, EmptySeq
  <2>3. socket' = socket
    BY <1>2 DEF clientVars
  <2> QED
    BY <1>6, <1>8, <2>1, <2>2, <2>3 DEF Places
<1>11. ASSUME NEW c \in Connections, Held(c), c # client, c # backlog[1]
       PROVE  Held(c)'
  <2>1. PICK i \in 1 .. Len(backlog) : backlog[i] = c
    BY <1>1, <1>11, HeldFacts
  <2>2. i - 1 \in 1 .. Len(backlog') /\ backlog'[i - 1] = c
    BY <1>3, <1>4, <1>5, <1>11, <2>1
  <2> QED
    BY <1>7, <2>2
<1>12. CASE allowed
  <2> DEFINE gone == {client} \cap Connections
  <2>1. client' = backlog[1] /\ rx' = <<>> /\ Dropped(gone)
    BY <1>4, <1>12 DEF AcceptClient, RxForNewClient
  <2>2. \A c \in Connections \ gone : Held(c) => Held(c)'
    BY <1>7, <1>11, <2>1
  <2>3. client' \in Connections \ gone
    BY <1>4, <1>6, <2>1
  <2> HIDE DEF gone
  <2>4. gone \in SUBSET Connections /\ (client \in Connections => client \in gone)
    BY DEF gone
  <2> QED
    BY <1>2, <1>4, <1>10, <2>1, <2>2, <2>3, <2>4, DropInv
<1>13. CASE ~allowed
  <2> DEFINE gone == {client, backlog[1]} \cap Connections
  <2>1. client' = NoConnection /\ rx' = rx /\ Dropped(gone)
    BY <1>4, <1>13 DEF AcceptClient
  <2>2. \A c \in Connections \ gone : Held(c) => Held(c)'
    BY <1>11
  <2> HIDE DEF gone
  <2>3. gone \in SUBSET Connections /\ (client \in Connections => client \in gone)
    BY DEF gone
  <2> QED
    BY <1>2, <1>4, <1>10, <2>1, <2>2, <2>3, DropInv
<1> QED
  BY <1>12, <1>13

LEMMA SameInv ==
    ASSUME LinkInv, UNCHANGED networkVars,
           UNCHANGED <<socket, transactionId, exchange, backlog, client, rx>>,
           outcome' \in {"none", "answered", "refused", "failed"}
    PROVE  LinkInv'
<1>1. up' = up /\ down' = down /\ ended' = ended
  BY DEF networkVars
<1>2. LinkTypes' /\ Places'
  BY <1>1, Zenon DEF LinkInv, LinkTypes, Places, Held
<1>3. Streams'
  BY <1>1, Zenon DEF LinkInv, Streams, Held
<1>4. Current'
  BY <1>1, Zenon
     DEF LinkInv, Current, Nothing, Waiting, Half, Whole, Handled, RxEmpty,
         Request, Reply, Held
<1> QED
  BY <1>2, <1>3, <1>4 DEF LinkInv

LEMMA EnvironmentInv == LinkInv /\ (CalmChanges \/ EthernetEvent) => LinkInv'
BY SameInv DEF CalmChanges, EthernetEvent, clientVars, serverVars, LinkInv,
               LinkTypes

(* A connection that nobody uses becomes the last of the backlog.           *)
LEMMA ConnectLockedInv == LinkInv /\ ConnectLocked => LinkInv'
<1> SUFFICES ASSUME LinkInv, ConnectLocked PROVE LinkInv'
  OBVIOUS
<1>1. LinkTypes /\ Places /\ Streams
  BY DEF LinkInv
<1>2. /\ exchange = "idle" /\ socket = NoConnection /\ up' = up /\ down' = down
      /\ ended' = ended
      /\ UNCHANGED <<transactionId, exchange, client, rx>>
  BY DEF ConnectLocked, networkVars
<1>3. CASE outcome' = "failed" /\ UNCHANGED <<socket, backlog>>
  BY <1>2, <1>3, SameInv DEF networkVars
<1>4. ASSUME NEW s \in Connections, Free(s), socket' = s,
             backlog' = Append(backlog, s), outcome' = outcome
      PROVE  LinkInv'
  <2>1. /\ s # client /\ s # socket /\ s # NoConnection
        /\ \A i \in 1 .. Len(backlog) : backlog[i] # s
    BY <1>1, <1>4, HeldFacts, LinkAssumption DEF Free
  <2>2. /\ backlog' \in Seq(Connections) /\ Len(backlog') = Len(backlog) + 1
        /\ \A i \in 1 .. Len(backlog) : backlog'[i] = backlog[i]
        /\ backlog'[Len(backlog) + 1] = s
        /\ Len(backlog) \in Nat /\ DOMAIN backlog' = 1 .. Len(backlog) + 1
    BY <1>1, <1>4, AppendProperties, LenProperties DEF LinkTypes
  <2>3. \A i \in 1 .. Len(backlog') :
            i \in 1 .. Len(backlog) \/ i = Len(backlog) + 1
    BY <2>2
  <2>4. backlog' # <<>>
    BY <2>2, EmptySeq
  <2>5. Places'
    <3>1. \A i \in 1 .. Len(backlog') : backlog'[i] # client'
      BY <1>1, <1>2, <2>1, <2>2, <2>3 DEF Places
    <3>2. \A i, j \in 1 .. Len(backlog') : backlog'[i] = backlog'[j] => i = j
      BY <1>1, <2>1, <2>2, <2>3 DEF Places
    <3>3. client' # socket' /\ backlog'[Len(backlog')] = socket'
      BY <1>2, <1>4, <2>1, <2>2
    <3> QED
      BY <2>4, <3>1, <3>2, <3>3 DEF Places
  <2>6. \A c \in Connections : Held(c) => Held(c)'
    <3>1. \A i \in 1 .. Len(backlog) :
              i \in DOMAIN backlog' /\ backlog'[i] = backlog[i]
      BY <2>2
    <3> QED
      BY <1>1, <1>2, <3>1, HeldFacts DEF Held
  <2>7. ~Held(s) /\ up[s] = <<>> /\ down[s] = <<>>
    BY <1>1, <1>4, <2>1 DEF Free, Streams
  <2>8. LinkTypes'
    <3>1. socket' \in Connections
      BY <1>4
    <3> QED
      BY <1>1, <1>2, <1>4, <2>2, <3>1, Zenon DEF LinkTypes
  <2>9. Streams'
    <3>1. ASSUME NEW c \in Connections
          PROVE  /\ Stream(up'[c])
                 /\ ~Held(c)' => up'[c] = <<>>
                 /\ c # socket' => down'[c] = <<>> /\ ~Fresh(up'[c])
                 /\ c # client' /\ up'[c] # <<>> => up'[c][1].part = 1
      BY <1>1, <1>2, <2>6, LinkAssumption, Zenon DEF Streams
    <3>2. client' \in Connections /\ up'[client'] # <<>> =>
              IF Len(rx') = 1 THEN up'[client'][1] = Second(rx'[1])
              ELSE up'[client'][1].part = 1
      BY <1>1, <1>2, Zenon DEF Streams
    <3>3. \A i \in 1 .. Len(rx') : ~(rx'[i].part = 2 /\ rx'[i].fresh)
      BY <1>1, <1>2, LinkAssumption, Zenon DEF Streams
    <3> QED
      BY <3>1, <3>2, <3>3, Zenon DEF Streams
  <2>10. Current'
    BY <1>2, <1>4, <2>1, <2>7 DEF Current, Nothing, RxEmpty
  <2> QED
    BY <2>5, <2>8, <2>9, <2>10 DEF LinkInv
<1>5. (\E c \in Connections : Free(c)) =>
          (CHOOSE c \in Connections : Free(c)) \in {c \in Connections : Free(c)}
  OBVIOUS
<1> QED
  BY <1>3, <1>4, <1>5 DEF ConnectLocked

(* A request is sent on a connection that holds nothing.                    *)
LEMMA TransactInv ==
    ASSUME LinkInv, NEW kind \in Kinds, Transact(kind)
    PROVE  /\ LinkInv' /\ ~Fresh(down[socket]) /\ ~LateRequest(up[socket])
           /\ \A c \in Connections : c # socket => up'[c] = up[c]
           /\ ~LateRequest(up'[socket])
<1>1. LinkTypes /\ Places /\ Streams /\ Current
  BY DEF LinkInv
<1>2. /\ exchange = "idle" /\ exchange' = kind /\ socket \in Connections
      /\ UNCHANGED <<socket, outcome, backlog, client, rx, ended, down>>
  BY <1>1 DEF Transact, serverVars, LinkTypes
<1>3. up[socket] = <<>> /\ down[socket] = <<>> /\ RxEmpty
  BY <1>1, <1>2, LinkAssumption DEF Current, Nothing
<1>4. transactionId' = (transactionId + 1) % Transactions
  BY DEF Transact
<1>5. transactionId' \in 0 .. Transactions - 1
  BY <1>1, <1>4, LinkAssumption DEF LinkTypes
<1> DEFINE p == Sent(transactionId', kind, 1)
           q == Sent(transactionId', kind, 2)
<1>6. /\ p \in Parts /\ q \in Parts /\ p.part = 1 /\ q.part = 2 /\ q = Second(p)
      /\ p.fresh /\ q.fresh
  BY <1>5, RequestFacts
<1>7. up' = IF Held(socket) THEN [up EXCEPT ![socket] = @ \o <<p, q>>] ELSE up
  BY DEF Transact, Sent
<1>8. Request(1)' = p /\ Request(2)' = q
  BY <1>2 DEF Request
<1> HIDE DEF p, q
<1>9. <<>> \o <<p, q>> = <<p, q>> /\ <<p, q>> \in Seq(Parts)
  BY <1>6, ShortTyped
<1>10. /\ Len(<<p, q>>) = 2 /\ <<p, q>>[1] = p /\ <<p, q>>[2] = q
       /\ <<p, q>> # <<>>
  BY ShortSequences
<1>11. \A c : Held(c)' <=> Held(c)
  BY <1>2 DEF Held
<1>12. ~Fresh(<<>>) /\ ~LateRequest(<<>>)
  BY DEF Fresh, LateRequest
<1>13. ~LateRequest(<<p, q>>)
  <2> DEFINE f == <<p, q>>
  <2>1. f \in Seq(Parts) /\ Len(f) = 2 /\ f[1] = p /\ f[2] = q
    BY <1>9, <1>10
  <2> HIDE DEF f
  <2>2. \A i \in 1 .. Len(f) : f[i].fresh
    <3>1. \A i \in 1 .. Len(f) : i = 1 \/ i = 2
      BY <2>1
    <3> QED
      BY <1>6, <2>1, <3>1, Zenon
  <2>3. ~LateRequest(f)
    BY <2>1, <2>2, LateFacts, Zenon
  <2> QED
    BY <2>3 DEF f
<1>14. Stream(<<p, q>>)
  <2>1. \A i \in 1 .. 2 - 1 : i = 1
    OBVIOUS
  <2> QED
    BY <1>6, <1>10, <2>1 DEF Stream
<1>15. CASE Held(socket)
  <2>1. /\ up' \in [Connections -> Seq(Parts)] /\ up'[socket] = <<p, q>>
        /\ \A c \in Connections : c # socket => up'[c] = up[c]
    BY <1>1, <1>2, <1>3, <1>7, <1>9, <1>15 DEF LinkTypes
  <2>2. LinkTypes'
    BY <1>1, <1>2, <1>5, <2>1, Zenon DEF LinkTypes
  <2>3. Places'
    BY <1>1, <1>2, <1>11, Zenon DEF Places
  <2>4. ASSUME NEW c \in Connections
        PROVE  /\ Stream(up'[c])
               /\ ~Held(c)' => up'[c] = <<>>
               /\ c # socket' => down'[c] = <<>> /\ ~Fresh(up'[c])
               /\ c # client' /\ up'[c] # <<>> => up'[c][1].part = 1
    <3>1. CASE c = socket
      BY <1>2, <1>6, <1>10, <1>11, <1>14, <1>15, <2>1, <3>1, Zenon
    <3>2. CASE c # socket
      BY <1>1, <1>2, <1>11, <2>1, <3>2, Zenon DEF Streams
    <3> QED
      BY <3>1, <3>2
  <2>5. ASSUME client' \in Connections, up'[client'] # <<>>
        PROVE  IF Len(rx') = 1 THEN up'[client'][1] = Second(rx'[1])
               ELSE up'[client'][1].part = 1
    <3>1. CASE client = socket
      <4>1. Len(rx') # 1
        BY <1>2, <1>3, <3>1, ShortSequences DEF RxEmpty
      <4> QED
        BY <1>2, <1>6, <1>10, <2>1, <3>1, <4>1
    <3>2. CASE client # socket
      BY <1>1, <1>2, <2>1, <2>5, <3>2, Zenon DEF Streams
    <3> QED
      BY <3>1, <3>2
  <2>6. Streams'
    BY <1>1, <1>2, <2>4, <2>5, Zenon DEF Streams
  <2>7. Waiting'
    BY <1>2, <1>3, <1>8, <1>11, <1>15, <2>1 DEF Waiting, RxEmpty
  <2>8. Current'
    BY <1>2, <2>7, LinkAssumption DEF Current
  <2> QED
    BY <1>2, <1>3, <1>12, <1>13, <2>1, <2>2, <2>3, <2>6, <2>8 DEF LinkInv
<1>16. CASE ~Held(socket)
  <2>1. up' = up
    BY <1>7, <1>16
  <2>2. LinkTypes'
    BY <1>1, <1>2, <1>5, <2>1, Zenon DEF LinkTypes
  <2>3. Places'
    BY <1>1, <1>2, <1>11, Zenon DEF Places
  <2>4. Streams'
    BY <1>1, <1>2, <1>11, <2>1, Zenon DEF Streams
  <2>5. Nothing'
    BY <1>2, <1>3, <2>1 DEF Nothing, RxEmpty
  <2>6. Current'
    BY <1>2, <2>5, LinkAssumption DEF Current
  <2> QED
    BY <1>3, <1>12, <2>1, <2>2, <2>3, <2>4, <2>6 DEF LinkInv
<1> QED
  BY <1>15, <1>16

(* What may be left on a connection once the exchange is over.              *)
Left(g, f) == g = Stale(f) \/ \E n \in 0 .. Len(f) : g = SubSeq(Stale(f), 1, n)

LEMMA LeftFacts ==
    ASSUME NEW f \in Seq(Parts), NEW g, Left(g, f)
    PROVE  /\ g \in Seq(Parts) /\ ~Fresh(g)
           /\ Stream(f) => Stream(g)
           /\ LateRequest(g) => LateRequest(Stale(f))
           /\ g # <<>> => f # <<>> /\ f[1] \in Parts /\ g[1] = StalePart(f[1])
<1> DEFINE s == Stale(f)
<1>1. /\ s \in Seq(Parts) /\ Len(s) = Len(f) /\ ~Fresh(s)
      /\ Stream(f) => Stream(s)
      /\ s = <<>> <=> f = <<>>
      /\ \A i \in 1 .. Len(f) : s[i] = StalePart(f[i])
  BY StaleFacts
<1> HIDE DEF s
<1>2. f # <<>> => 1 \in 1 .. Len(f) /\ f[1] \in Parts
  <2> SUFFICES ASSUME f # <<>> PROVE 1 \in 1 .. Len(f) /\ f[1] \in Parts
    OBVIOUS
  <2>1. Len(f) \in Nat \ {0}
    BY EmptySeq
  <2> QED
    BY <2>1, ElementOfSeq
<1>3. g = s \/ \E n \in 0 .. Len(s) : g = SubSeq(s, 1, n)
  BY <1>1 DEF Left, s
<1>4. CASE g = s
  BY <1>1, <1>2, <1>4 DEF s
<1>5. ASSUME NEW n \in 0 .. Len(s), g = SubSeq(s, 1, n)
      PROVE  /\ g \in Seq(Parts) /\ ~Fresh(g)
             /\ Stream(f) => Stream(g)
             /\ LateRequest(g) => LateRequest(s)
             /\ g # <<>> => f # <<>> /\ f[1] \in Parts /\ g[1] = StalePart(f[1])
  <2>1. /\ g \in Seq(Parts) /\ (Stream(s) => Stream(g)) /\ (Fresh(g) => Fresh(s))
        /\ LateRequest(g) => LateRequest(s)
        /\ g # <<>> => s # <<>> /\ g[1] = s[1]
    BY <1>1, <1>5, CutFacts
  <2> QED
    BY <1>1, <1>2, <2>1
<1> QED
  BY <1>3, <1>4, <1>5 DEF s

(* rx_ keeps its shape when the exchange is over.                           *)
LEMMA StaleRx ==
    ASSUME LinkTypes
    PROVE  /\ Stale(rx) \in Seq(Parts) /\ Len(Stale(rx)) = Len(rx)
           /\ \A i \in 1 .. Len(rx) :
                  /\ Stale(rx)[i] = [Stale(rx)[1] EXCEPT !.part = i]
                  /\ Stale(rx)[i] = StalePart(rx[i]) /\ ~Stale(rx)[i].fresh
<1>1. /\ rx \in Seq(Parts) /\ Len(rx) \in {0, 1, 2}
      /\ \A i \in 1 .. Len(rx) : rx[i] \in Parts
      /\ \A i \in 1 .. Len(rx) : rx[i] = [rx[1] EXCEPT !.part = i]
  BY RxFacts DEF LinkTypes
<1>2. /\ Stale(rx) \in Seq(Parts) /\ Len(Stale(rx)) = Len(rx)
      /\ \A i \in 1 .. Len(rx) : Stale(rx)[i] = StalePart(rx[i])
  BY <1>1, StaleFacts
<1>3. ASSUME NEW i \in 1 .. Len(rx)
      PROVE  /\ Stale(rx)[i] = [Stale(rx)[1] EXCEPT !.part = i]
             /\ ~Stale(rx)[i].fresh
  <2>1. 1 \in 1 .. Len(rx) /\ rx[1] \in Parts
    BY <1>1
  <2>2. StalePart([rx[1] EXCEPT !.part = i]) = [StalePart(rx[1]) EXCEPT !.part = i]
    BY <2>1 DEF StalePart, Parts
  <2>3. ~StalePart(rx[i]).fresh
    BY <1>1, PartFacts
  <2> QED
    BY <1>1, <1>2, <2>1, <2>2, <2>3
<1> QED
  BY <1>2, <1>3

(* An exchange is over, with or without the connection.                     *)
LEMMA EndedInv ==
    ASSUME LinkInv, exchange' = "idle", rx' = Stale(rx),
           outcome' \in {"none", "answered", "refused", "failed"},
           transactionId' \in 0 .. Transactions - 1,
           up' \in [Connections -> Seq(Parts)],
           \A c \in Connections : Left(up'[c], up[c]),
           down' \in [Connections -> Seq(Answers)],
           \A c \in Connections : down'[c] = <<>>,
           ended' \subseteq Connections, UNCHANGED <<backlog, client>>,
           socket' = NoConnection \/ (socket' = socket /\ Nothing')
    PROVE  LinkInv'
<1>1. LinkTypes /\ Places /\ Streams
  BY DEF LinkInv
<1>2. /\ rx' \in Seq(Parts) /\ Len(rx') = Len(rx)
      /\ \A i \in 1 .. Len(rx) :
             /\ rx'[i] = [rx'[1] EXCEPT !.part = i]
             /\ rx'[i] = StalePart(rx[i]) /\ ~rx'[i].fresh
  BY <1>1, StaleRx
<1>3. LinkTypes'
  <2>1. /\ socket' \in Connections \cup {NoConnection}
        /\ exchange' \in Kinds \cup {"idle"}
    BY <1>1 DEF LinkTypes
  <2>2. /\ rx' \in Seq(Parts) /\ Len(rx') <= 2
        /\ \A i \in 1 .. Len(rx') : rx'[i] = [rx'[1] EXCEPT !.part = i]
    BY <1>1, <1>2, Zenon DEF LinkTypes
  <2> QED
    BY <1>1, <2>1, <2>2, Zenon DEF LinkTypes
<1>4. \A c : Held(c)' <=> Held(c)
  BY DEF Held
<1>5. Places'
  BY <1>1, <1>4, LinkAssumption DEF Places
<1>6. ASSUME NEW c \in Connections
      PROVE  /\ Stream(up'[c]) /\ ~Fresh(up'[c])
             /\ up'[c] # <<>> =>
                    /\ up[c] # <<>> /\ up[c][1] \in Parts
                    /\ up'[c][1] = StalePart(up[c][1])
                    /\ up'[c][1].part = up[c][1].part
  <2>1. up[c] \in Seq(Parts) /\ Stream(up[c]) /\ Left(up'[c], up[c])
    BY <1>1 DEF LinkTypes, Streams
  <2> DEFINE f == up[c]
             g == up'[c]
  <2> HIDE DEF f, g
  <2>2. /\ ~Fresh(g) /\ (Stream(f) => Stream(g))
        /\ g # <<>> => f # <<>> /\ f[1] \in Parts /\ g[1] = StalePart(f[1])
    BY <2>1, LeftFacts DEF f, g
  <2>3. g # <<>> => StalePart(f[1]).part = f[1].part
    BY <2>2, PartFacts
  <2> QED
    BY <2>1, <2>2, <2>3 DEF f, g
<1>7. Streams'
  <2>1. ASSUME NEW c \in Connections
        PROVE  /\ Stream(up'[c])
               /\ ~Held(c)' => up'[c] = <<>>
               /\ c # socket' => down'[c] = <<>> /\ ~Fresh(up'[c])
               /\ c # client' /\ up'[c] # <<>> => up'[c][1].part = 1
    BY <1>1, <1>4, <1>6 DEF Streams
  <2>2. ASSUME client' \in Connections, up'[client'] # <<>>
        PROVE  IF Len(rx') = 1 THEN up'[client'][1] = Second(rx'[1])
               ELSE up'[client'][1].part = 1
    <3>1. /\ client \in Connections /\ up[client] # <<>>
          /\ up'[client][1] = StalePart(up[client][1])
          /\ up'[client][1].part = up[client][1].part
      BY <1>6, <2>2
    <3>2. CASE Len(rx) = 1
      <4>1. up[client][1] = Second(rx[1])
        BY <1>1, <3>1, <3>2 DEF Streams
      <4>2. rx[1] \in Parts /\ rx'[1] = StalePart(rx[1])
        BY <1>1, <1>2, <3>2, RxFacts
      <4> QED
        BY <1>2, <3>1, <3>2, <4>1, <4>2, PartFacts
    <3>3. CASE Len(rx) # 1
      BY <1>1, <1>2, <3>1, <3>3 DEF Streams
    <3> QED
      BY <3>2, <3>3
  <2>3. \A i \in 1 .. Len(rx') : ~rx'[i].fresh
    BY <1>2, Zenon
  <2> QED
    BY <2>1, <2>2, <2>3, Zenon DEF Streams
<1>8. Current'
  BY LinkAssumption DEF Current
<1> QED
  BY <1>3, <1>5, <1>7, <1>8 DEF LinkInv

LEMMA EmptyStale ==
    /\ Stale(<<>>) = <<>> /\ \A n \in 0 .. Len(<<>>) : SubSeq(<<>>, 1, n) = <<>>
    /\ ~LateRequest(<<>>) /\ ~Fresh(<<>>)
<1>1. <<>> \in Seq(Parts) /\ Len(<<>>) = 0
  BY EmptySeq
<1>2. Stale(<<>>) = <<>>
  BY <1>1, StaleFacts
<1>3. ASSUME NEW n \in 0 .. Len(<<>>) PROVE SubSeq(<<>>, 1, n) = <<>>
  <2>1. SubSeq(<<>>, 1, n) \in Seq(Parts) /\ Len(SubSeq(<<>>, 1, n)) = n
    BY <1>1, CutFacts
  <2> QED
    BY <1>1, <2>1, EmptySeq
<1> QED
  BY <1>2, <1>3 DEF LateRequest, Fresh

LEMMA DisconnectInv ==
    ASSUME LinkInv, socket # NoConnection, NEW how, EndExchange(how),
           how \in {"none", "answered", "refused", "failed"}, DisconnectLocked,
           transactionId' \in 0 .. Transactions - 1, UNCHANGED <<backlog, client>>
    PROVE  /\ LinkInv' /\ socket \in Connections
           /\ up[socket] = <<>> => up'[socket] = <<>>
           /\ \A c \in Connections : c # socket => up'[c] = Stale(up[c])
<1>1. LinkTypes /\ Streams /\ socket \in Connections
  BY DEF LinkInv, LinkTypes
<1>2. PICK n \in 0 .. Len(up[socket]) :
          up' = [c \in Connections |->
                  IF c = socket THEN SubSeq(Stale(up[c]), 1, n)
                  ELSE Stale(up[c])]
  BY DEF DisconnectLocked
<1>3. /\ up'[socket] = SubSeq(Stale(up[socket]), 1, n)
      /\ \A c \in Connections : c # socket => up'[c] = Stale(up[c])
  BY <1>1, <1>2
<1>4. \A c \in Connections : up[c] \in Seq(Parts) /\ Left(up'[c], up[c])
  BY <1>1, <1>3 DEF Left, LinkTypes
<1>5. up' \in [Connections -> Seq(Parts)]
  <2>1. \A c \in Connections : up'[c] \in Seq(Parts)
    BY <1>4, LeftFacts
  <2>2. up' = [c \in Connections |-> up'[c]]
    BY <1>2
  <2> QED
    BY <2>1, <2>2
<1>6. /\ down' \in [Connections -> Seq(Answers)]
      /\ \A c \in Connections : down'[c] = <<>>
  <2>1. <<>> \in Seq(Answers) /\ down' = [down EXCEPT ![socket] = <<>>]
    BY EmptySeq DEF DisconnectLocked
  <2> QED
    BY <1>1, <2>1 DEF LinkTypes, Streams
<1>7. ended' \subseteq Connections
  BY <1>1 DEF DisconnectLocked, LinkTypes
<1>8. LinkInv'
  BY <1>4, <1>5, <1>6, <1>7, EndedInv DEF EndExchange, DisconnectLocked
<1>9. up[socket] = <<>> => up'[socket] = <<>>
  BY <1>2, <1>3, EmptyStale
<1> QED
  BY <1>1, <1>3, <1>8, <1>9

(* The node has handled the request exactly when its answer is there.       *)
LEMMA AnswerFacts ==
    ASSUME LinkInv, exchange # "idle"
    PROVE  /\ socket \in Connections
           /\ Fresh(down[socket]) => Handled
           /\ down[socket] # <<>> => Handled
           /\ Handled => Fresh(down[socket]) /\ Head(down[socket]) = Reply
                         /\ Tail(down[socket]) = <<>>
<1>1. socket \in Connections /\ exchange \in Kinds
  BY DEF LinkInv, LinkTypes, Current
<1>2. Nothing \/ Waiting \/ Half \/ Whole \/ Handled
  BY DEF LinkInv, Current
<1>3. down[socket] # <<>> => Handled
  BY <1>2 DEF Nothing, Waiting, Half, Whole
<1>4. ASSUME Handled
      PROVE  Fresh(down[socket]) /\ Head(down[socket]) = Reply
             /\ Tail(down[socket]) = <<>>
  <2>1. Reply \in Answers /\ Reply.fresh
    BY <1>1, RequestFacts DEF Reply, LinkInv, LinkTypes
  <2> DEFINE f == down[socket]
             r == Reply
  <2>2. f = <<r>>
    BY <1>4 DEF Handled
  <2>3. r.fresh
    BY <2>1
  <2> HIDE DEF f, r
  <2>4. Len(f) = 1 /\ f[1] = r /\ Head(f) = r /\ Tail(f) = <<>>
    BY <2>2, ShortSequences
  <2>5. 1 \in DOMAIN f
    BY <2>2
  <2>6. Fresh(f)
    BY <2>3, <2>4, <2>5, Zenon DEF Fresh
  <2> QED
    BY <2>4, <2>6 DEF f, r
<1>5. Fresh(down[socket]) => down[socket] # <<>>
  BY EmptyStale
<1> QED
  BY <1>1, <1>3, <1>4, <1>5

(* What was given up and the node may still handle.                         *)
Late == LateRequest(rx) \/ \E c \in Connections : LateRequest(up[c])

(* An exchange that is over leaves nothing behind when the node had handled *)
(* its request.                                                             *)
LEMMA EndedLate ==
    ASSUME LinkInv, socket \in Connections, up[socket] = <<>>, RxEmpty,
           rx' = Stale(rx), up'[socket] = <<>>,
           \A c \in Connections : c # socket => up'[c] = Stale(up[c])
    PROVE  Late' <=> Late
<1>1. LinkTypes /\ Streams
  BY DEF LinkInv
<1>2. ~LateRequest(up[socket]) /\ ~LateRequest(up'[socket])
  BY EmptyStale
<1>3. \A c \in Connections :
          c # socket => (LateRequest(up'[c]) <=> LateRequest(up[c]))
  <2> SUFFICES ASSUME NEW c \in Connections, c # socket
               PROVE  LateRequest(up'[c]) <=> LateRequest(up[c])
    OBVIOUS
  <2>1. up[c] \in Seq(Parts) /\ ~Fresh(up[c])
    BY <1>1 DEF LinkTypes, Streams
  <2> QED
    BY <2>1, LateFacts
<1>4. LateRequest(rx') <=> LateRequest(rx)
  <2>1. \A i \in 1 .. Len(rx) : rx[i].part = 2 => ~rx[i].fresh
    <3>1. CASE client = socket
      BY <3>1, ShortSequences DEF RxEmpty
    <3>2. CASE client # socket
      BY <1>1, <3>2, Zenon DEF Streams
    <3> QED
      BY <3>1, <3>2
  <2> DEFINE s == Stale(rx)
  <2>2. /\ rx \in Seq(Parts) /\ s \in Seq(Parts) /\ Len(s) = Len(rx)
        /\ \A i \in 1 .. Len(rx) : ~s[i].fresh /\ s[i].part = rx[i].part
    <3>1. \A i \in 1 .. Len(rx) : rx[i] \in Parts
      BY <1>1, RxFacts
    <3> QED
      BY <1>1, <3>1, StaleRx, PartFacts DEF LinkTypes
  <2> HIDE DEF s
  <2>3. LateRequest(s) <=> LateRequest(rx)
    <3>1. /\ LateRequest(s) <=>
                 \E i \in 1 .. Len(rx) : s[i].part = 2 /\ ~s[i].fresh
          /\ LateRequest(rx) <=>
                 \E i \in 1 .. Len(rx) : rx[i].part = 2 /\ ~rx[i].fresh
      BY <2>2, LateFacts
    <3> QED
      BY <2>1, <2>2, <3>1, Zenon
  <2> QED
    BY <2>3 DEF s
<1> QED
  BY <1>2, <1>3, <1>4 DEF Late

(* The answer that has come is the answer to this request.                  *)
LEMMA ReceiveAnswerFacts ==
    ASSUME LinkInv, ReceiveAnswer
    PROVE  /\ LinkInv' /\ Handled /\ exchange' = "idle" /\ (Late' <=> Late)
           /\ outcome' = IF exchange = "known" THEN "answered" ELSE "refused"
<1>1. /\ exchange # "idle" /\ down[socket] # <<>>
      /\ UNCHANGED <<transactionId, backlog, client>>
  BY DEF ReceiveAnswer
<1>2. /\ LinkTypes /\ Streams /\ Handled
      /\ socket \in Connections /\ exchange \in Kinds
      /\ Head(down[socket]) = Reply /\ Tail(down[socket]) = <<>>
  BY <1>1, AnswerFacts DEF LinkInv, LinkTypes
<1>3. Reply.transaction = transactionId /\ Reply.kind = exchange
  BY <1>2, RequestFacts DEF Reply, LinkTypes
<1>4. /\ EndExchange(IF exchange = "known" THEN "answered" ELSE "refused")
      /\ down' = [down EXCEPT ![socket] = Stale(Tail(down[socket]))]
      /\ up' = [c \in Connections |-> Stale(up[c])]
      /\ UNCHANGED <<socket, ended>>
  BY <1>2, <1>3 DEF ReceiveAnswer
<1>5. /\ exchange' = "idle" /\ rx' = Stale(rx)
      /\ outcome' = IF exchange = "known" THEN "answered" ELSE "refused"
  BY <1>4 DEF EndExchange
<1>6. \A c \in Connections :
          up'[c] = Stale(up[c]) /\ up[c] \in Seq(Parts) /\ Left(up'[c], up[c])
  BY <1>2, <1>4 DEF Left, LinkTypes
<1>7. up' \in [Connections -> Seq(Parts)]
  <2>1. \A c \in Connections : up'[c] \in Seq(Parts)
    BY <1>6, LeftFacts
  <2>2. up' = [c \in Connections |-> up'[c]]
    BY <1>4
  <2> QED
    BY <2>1, <2>2
<1>8. /\ down' \in [Connections -> Seq(Answers)]
      /\ \A c \in Connections : down'[c] = <<>>
  <2>1. <<>> \in Seq(Answers) /\ down' = [down EXCEPT ![socket] = <<>>]
    BY <1>2, <1>4, EmptySeq, EmptyStale
  <2> QED
    BY <1>2, <2>1 DEF LinkTypes, Streams
<1>9. up[socket] = <<>> /\ up'[socket] = <<>> /\ RxEmpty
  BY <1>2, <1>6, EmptyStale DEF Handled
<1>10. Nothing'
  BY <1>1, <1>2, <1>4, <1>5, <1>8, <1>9, EmptyStale DEF Nothing, RxEmpty
<1>11. LinkInv'
  <2>1. /\ outcome' \in {"none", "answered", "refused", "failed"}
        /\ transactionId' \in 0 .. Transactions - 1 /\ ended' \subseteq Connections
    BY <1>1, <1>2, <1>4, <1>5 DEF LinkTypes
  <2> QED
    BY <1>1, <1>4, <1>5, <1>6, <1>7, <1>8, <1>10, <2>1, EndedInv
<1>12. Late' <=> Late
  BY <1>2, <1>5, <1>6, <1>9, EndedLate
<1> QED
  BY <1>2, <1>5, <1>11, <1>12

(* A part of a request is read: what is late stays late.                    *)
LEMMA ReadPartFacts ==
    ASSUME LinkInv, ReadPart
    PROVE  LinkInv' /\ (Late' <=> Late)
<1>1. LinkTypes /\ Places /\ Streams /\ Current
  BY DEF LinkInv
<1> DEFINE f == up[client]
           p == f[1]
           g == Tail(f)
<1>2. /\ client \in Connections /\ f # <<>> /\ Len(rx) < 2
      /\ rx' = Append(rx, Head(f)) /\ up' = [up EXCEPT ![client] = g]
      /\ UNCHANGED <<socket, transactionId, exchange, outcome, backlog, client,
                     ended, down>>
  BY <1>1 DEF ReadPart, FramesDone, clientVars, LinkTypes
<1>3. f \in Seq(Parts) /\ Stream(f)
  BY <1>1, <1>2 DEF LinkTypes, Streams
<1>4. /\ g \in Seq(Parts) /\ Head(f) = p /\ p \in Parts /\ Stream(g)
      /\ Fresh(f) <=> Fresh(g) \/ p.fresh
      /\ LateRequest(f) <=> LateRequest(g) \/ (p.part = 2 /\ ~p.fresh)
      /\ g # <<>> => IF p.part = 1 THEN g[1] = Second(p) ELSE g[1].part = 1
  BY <1>2, <1>3, TailFacts
<1>5. /\ up' \in [Connections -> Seq(Parts)] /\ up'[client] = g
      /\ \A c \in Connections : c # client => up'[c] = up[c]
  BY <1>1, <1>2, <1>4 DEF LinkTypes
<1>6. p.part = 2 /\ p.fresh => client = socket /\ socket \in Connections
  BY <1>1, <1>2, <1>4 DEF Streams
<1>7. IF Len(rx) = 1 THEN p = Second(rx[1]) ELSE p.part = 1
  BY <1>1, <1>2 DEF Streams
<1> HIDE DEF p, g
<1>8. \/ rx = <<>> /\ p.part = 1 /\ rx' = <<p>> /\ Len(rx) = 0
      \/ \E q \in Parts : /\ q.part = 1 /\ q = rx[1] /\ rx = <<q>> /\ p = Second(q)
                          /\ rx' = <<q, p>> /\ Len(rx) = 1
  <2>1. Len(rx) \in {0, 1} /\ (Len(rx) = 0 <=> rx = <<>>)
    BY <1>1, <1>2, RxFacts
  <2>2. CASE Len(rx) = 0
    BY <1>2, <1>4, <1>7, <2>1, <2>2, ShortTyped
  <2>3. CASE Len(rx) = 1
    <3>1. rx[1] \in Parts /\ rx[1].part = 1
      BY <1>1, <2>3, RxFacts
    <3> DEFINE q == rx[1]
    <3>2. rx = <<q>>
      <4>1. /\ rx \in Seq(Parts) /\ <<q>> \in Seq(Parts)
            /\ Len(<<q>>) = 1 /\ <<q>>[1] = q
        BY <1>1, <3>1, ShortTyped, ShortSequences DEF LinkTypes
      <4>2. \A i \in 1 .. 1 : rx[i] = <<q>>[i]
        BY <4>1
      <4> QED
        BY <2>3, <4>1, <4>2, SeqEqual
    <3> HIDE DEF q
    <3>3. q \in Parts /\ q.part = 1 /\ q = rx[1]
      BY <3>1 DEF q
    <3>4. rx' = <<q, p>>
      BY <1>2, <1>4, <3>2, <3>3, ShortTyped
    <3> QED
      BY <1>7, <2>3, <3>2, <3>3, <3>4
  <2> QED
    BY <2>1, <2>2, <2>3
<1>9. PICK q \in Parts : q.part = 1 /\ rx' \in {<<q>>, <<q, Second(q)>>}
                         /\ (rx' = <<q>> => q = p /\ rx = <<>>)
                         /\ (rx' # <<q>> => rx = <<q>> /\ p = Second(q) /\ q = rx[1]
                                            /\ Len(rx) = 1)
  <2>1. \A q \in Parts : <<q>> # <<q, p>>
    <3>1. \A q \in Parts : Len(<<q>>) = 1 /\ Len(<<q, p>>) = 2
      BY ShortSequences
    <3> QED
      BY <3>1
  <2> QED
    BY <1>4, <1>8, <2>1
<1>10. /\ rx' \in Seq(Parts) /\ Len(rx') <= 2
       /\ \A i \in 1 .. Len(rx') : rx'[i] = [rx'[1] EXCEPT !.part = i]
  BY <1>9, RxTyped
<1>11. /\ rx' = <<q>> => Len(rx') = 1 /\ rx'[1] = p
       /\ rx' # <<q>> => Len(rx') = 2 /\ rx'[1] = q /\ rx'[2] = p
  BY <1>9, ShortSequences
<1>12. LinkTypes'
  BY <1>1, <1>2, <1>5, <1>10, Zenon DEF LinkTypes
<1>13. \A c : Held(c)' <=> Held(c)
  BY <1>2 DEF Held
<1>14. Places'
  BY <1>1, <1>2, <1>13, Zenon DEF Places
<1>15. Streams'
  <2>1. ASSUME NEW c \in Connections
        PROVE  /\ Stream(up'[c])
               /\ ~Held(c)' => up'[c] = <<>>
               /\ c # socket' => down'[c] = <<>> /\ ~Fresh(up'[c])
               /\ c # client' /\ up'[c] # <<>> => up'[c][1].part = 1
    <3>1. CASE c = client
      <4>1. Held(c)
        BY <3>1 DEF Held
      <4>2. c # socket => down[c] = <<>> /\ ~Fresh(f)
        BY <1>1, <3>1, Zenon DEF Streams
      <4> QED
        BY <1>2, <1>4, <1>5, <1>13, <3>1, <4>1, <4>2, Zenon
    <3>2. CASE c # client
      BY <1>1, <1>2, <1>5, <1>13, <3>2, Zenon DEF Streams
    <3> QED
      BY <3>1, <3>2
  <2>2. ASSUME client' \in Connections, up'[client'] # <<>>
        PROVE  IF Len(rx') = 1 THEN up'[client'][1] = Second(rx'[1])
               ELSE up'[client'][1].part = 1
    <3>1. g # <<>> /\ up'[client'] = g
      BY <1>2, <1>5, <2>2
    <3>2. CASE rx' = <<q>>
      BY <1>4, <1>9, <1>11, <3>1, <3>2
    <3>3. CASE rx' # <<q>>
      <4>1. p.part = 2
        BY <1>9, <3>3, PartFacts
      <4> QED
        BY <1>4, <1>11, <3>1, <3>3, <4>1
    <3> QED
      BY <3>2, <3>3
  <2>3. ASSUME NEW i \in 1 .. Len(rx'), rx'[i].part = 2, rx'[i].fresh
        PROVE  client' = socket' /\ socket' \in Connections
    <3>1. rx'[i] = p
      BY <1>9, <1>11, <2>3
    <3> QED
      BY <1>2, <1>6, <2>3, <3>1
  <2> QED
    BY <2>1, <2>2, <2>3, Zenon DEF Streams
<1>16. Current'
  <2>1. CASE client # socket
    <3>1. /\ ~Half /\ ~Whole
      BY <2>1 DEF Half, Whole
    <3>2. socket # NoConnection => socket \in Connections /\ up'[socket] = up[socket]
      BY <1>1, <1>5, <2>1 DEF LinkTypes
    <3>3. RxEmpty'
      BY <1>2, <2>1 DEF RxEmpty
    <3>4. /\ socket # NoConnection /\ Nothing => Nothing'
          /\ socket # NoConnection /\ Handled => Handled'
      BY <1>2, <3>2, <3>3 DEF Nothing, Handled, Reply
    <3>5. socket # NoConnection /\ Waiting => Waiting'
      BY <1>2, <1>13, <3>2, <3>3 DEF Waiting, Request
    <3> QED
      BY <1>1, <1>2, <3>1, <3>4, <3>5 DEF Current
  <2>2. CASE client = socket
    <3>1. socket # NoConnection /\ ~Nothing /\ ~Handled
      BY <1>2, <2>2, LinkAssumption DEF Nothing, Handled
    <3>2. exchange # "idle" /\ ~Whole
      <4>1. Whole => up[socket] = <<>>
        BY DEF Whole
      <4> QED
        BY <1>1, <1>2, <2>2, <3>1, <4>1 DEF Current
    <3>3. Waiting \/ Half
      BY <1>1, <3>1, <3>2 DEF Current
    <3>4. Request(1)' = Request(1) /\ Request(2)' = Request(2)
      BY <1>2 DEF Request
    <3>5. CASE Waiting
      <4>1. rx = <<>> /\ f = <<Request(1), Request(2)>> /\ down[socket] = <<>>
        BY <2>2, <3>5 DEF Waiting, RxEmpty
      <4>2. p = Request(1) /\ g = <<Request(2)>>
        BY <4>1, ShortSequences DEF p, g
      <4>3. rx' = <<Request(1)>>
        <5>1. Len(rx) # 1
          BY <4>1, ShortSequences
        <5> QED
          BY <1>9, <4>2, <5>1
      <4>4. Half'
        BY <1>2, <1>5, <2>2, <3>4, <4>1, <4>2, <4>3 DEF Half
      <4> QED
        BY <1>2, <3>1, <3>2, <4>4 DEF Current
    <3>6. CASE Half
      <4>1. rx = <<Request(1)>> /\ f = <<Request(2)>> /\ down[socket] = <<>>
        BY <2>2, <3>6 DEF Half
      <4>2. p = Request(2) /\ g = <<>> /\ rx # <<>> /\ rx[1] = Request(1)
        BY <4>1, ShortSequences DEF p, g
      <4>3. rx' = <<Request(1), Request(2)>>
        <5>1. rx' # <<q>> /\ q = Request(1) /\ p = Second(q)
          BY <1>9, <4>2
        <5> QED
          BY <1>9, <4>2, <5>1
      <4>4. Whole'
        BY <1>2, <1>5, <2>2, <3>4, <4>1, <4>2, <4>3 DEF Whole
      <4> QED
        BY <1>2, <3>1, <3>2, <4>4 DEF Current
    <3> QED
      BY <3>3, <3>5, <3>6
  <2> QED
    BY <2>1, <2>2
<1>17. Late' <=> Late
  <2>1. LateRequest(rx') <=> LateRequest(rx) \/ (p.part = 2 /\ ~p.fresh)
    <3>1. CASE rx' = <<q>>
      <4>1. /\ rx = <<>> /\ p.part = 1 /\ Len(rx') = 1 /\ rx'[1] = p
            /\ rx' \in Seq(Parts)
        BY <1>9, <1>10, <1>11, <3>1
      <4>2. ~LateRequest(rx)
        BY <4>1, EmptyStale
      <4>3. \A i \in 1 .. Len(rx') : rx'[i].part # 2
        BY <4>1
      <4>4. ~LateRequest(rx')
        BY <4>1, <4>3, LateFacts
      <4> QED
        BY <4>1, <4>2, <4>4
    <3>2. CASE rx' # <<q>>
      <4>1. /\ rx = <<q>> /\ p.part = 2 /\ Len(rx') = 2 /\ rx'[1] = q /\ rx'[2] = p
            /\ rx' \in Seq(Parts) /\ Len(rx) = 1 /\ rx[1] = q
        BY <1>9, <1>10, <1>11, <3>2, PartFacts
      <4>2. \A i \in 1 .. Len(rx) : rx[i].part # 2
        BY <1>9, <4>1
      <4>3. ~LateRequest(rx)
        BY <1>1, <4>2, LateFacts DEF LinkTypes
      <4>4. \A i \in 1 .. Len(rx') : i = 1 \/ i = 2
        BY <4>1
      <4>5. rx'[1].part # 2 /\ 2 \in 1 .. Len(rx') /\ rx'[2].part = 2
        BY <1>9, <4>1
      <4>6. LateRequest(rx') <=> ~rx'[2].fresh
        <5>1. LateRequest(rx') => ~rx'[2].fresh
          BY <1>10, <4>4, <4>5, LateFacts
        <5>2. ~rx'[2].fresh => LateRequest(rx')
          BY <1>10, <4>5, LateFacts
        <5> QED
          BY <5>1, <5>2
      <4> QED
        BY <4>1, <4>3, <4>6, Zenon
    <3> QED
      BY <3>1, <3>2
  <2>2. (\E c \in Connections : LateRequest(up[c]))
            <=> LateRequest(f)
                \/ \E c \in Connections : c # client /\ LateRequest(up[c])
    BY <1>2, Zenon
  <2>3. (\E c \in Connections : LateRequest(up'[c]))
            <=> LateRequest(g)
                \/ \E c \in Connections : c # client /\ LateRequest(up[c])
    BY <1>2, <1>5, Zenon
  <2> QED
    BY <1>4, <2>1, <2>2, <2>3, Zenon DEF Late
<1> QED
  BY <1>12, <1>14, <1>15, <1>16, <1>17 DEF LinkInv

(* A frame is handled: it answers this request, or one that was given up.   *)
LEMMA ProcessFramesFacts ==
    ASSUME LinkInv, ProcessFrames
    PROVE  /\ LinkInv'
           /\ client = socket => /\ exchange # "idle" /\ ~Late'
                                 /\ ~Fresh(down[socket]) /\ Fresh(down'[socket])
           /\ client # socket => down' = down /\ LateRequest(rx)
           /\ Late' => Late
<1>1. LinkTypes /\ Places /\ Streams /\ Current
  BY DEF LinkInv
<1>2. /\ client \in Connections /\ Len(rx) = 2 /\ rx' = <<>>
      /\ UNCHANGED <<socket, transactionId, exchange, outcome, backlog, client, up>>
  BY <1>1 DEF ProcessFrames, clientVars, LinkTypes
<1>3. rx # <<>> /\ Len(rx) # 1 /\ rx[2] \in Parts /\ rx[2].part = 2
  BY <1>1, <1>2, ShortSequences, RxFacts
<1>4. /\ rx' \in Seq(Parts) /\ Len(rx') = 0
      /\ \A i \in 1 .. Len(rx') : rx'[i] = [rx'[1] EXCEPT !.part = i]
  BY <1>2, EmptySeq
<1>5. \A c : Held(c)' <=> Held(c)
  BY <1>2 DEF Held
<1>6. Places'
  BY <1>1, <1>2, <1>5, Zenon DEF Places
<1>7. ~LateRequest(rx')
  BY <1>2, EmptyStale
<1>8. Late' => Late
  BY <1>2, <1>7, Zenon DEF Late
<1>9. ASSUME \A c \in Connections : c # socket => down'[c] = down[c] PROVE Streams'
  <2>1. ASSUME NEW c \in Connections
        PROVE  /\ Stream(up'[c])
               /\ ~Held(c)' => up'[c] = <<>>
               /\ c # socket' => down'[c] = <<>> /\ ~Fresh(up'[c])
               /\ c # client' /\ up'[c] # <<>> => up'[c][1].part = 1
    BY <1>1, <1>2, <1>5, <1>9, Zenon DEF Streams
  <2>2. client' \in Connections /\ up'[client'] # <<>> =>
            IF Len(rx') = 1 THEN up'[client'][1] = Second(rx'[1])
            ELSE up'[client'][1].part = 1
    BY <1>1, <1>2, <1>3, <1>4 DEF Streams
  <2>3. \A i \in 1 .. Len(rx') : ~rx'[i].fresh
    BY <1>4
  <2> QED
    BY <2>1, <2>2, <2>3, Zenon DEF Streams
<1>10. CASE client # socket
  <2>1. down' = down /\ ended' = ended \cup {client}
    BY <1>10 DEF ProcessFrames
  <2>2. LinkTypes'
    <3>1. ended' \subseteq Connections
      BY <1>1, <1>2, <2>1 DEF LinkTypes
    <3>2. Len(rx') <= 2
      BY <1>4
    <3> QED
      BY <1>1, <1>2, <1>4, <2>1, <3>1, <3>2, Zenon DEF LinkTypes
  <2>3. Streams'
    BY <1>9, <2>1
  <2>4. Current'
    <3>1. ~Half /\ ~Whole /\ RxEmpty'
      BY <1>2, <1>10 DEF Half, Whole, RxEmpty
    <3>2. /\ Nothing => Nothing'
          /\ Handled => Handled'
      BY <1>2, <2>1, <3>1 DEF Nothing, Handled, Reply
    <3>3. Waiting => Waiting'
      BY <1>2, <1>5, <2>1, <3>1 DEF Waiting, Request
    <3> QED
      BY <1>1, <1>2, <3>1, <3>2, <3>3 DEF Current
  <2>5. LateRequest(rx)
    <3>1. ~rx[2].fresh /\ 2 \in 1 .. Len(rx)
      BY <1>1, <1>2, <1>3, <1>10 DEF Streams
    <3> QED
      BY <1>1, <1>3, <3>1, LateFacts DEF LinkTypes
  <2> QED
    BY <1>6, <1>8, <1>10, <2>1, <2>2, <2>3, <2>4, <2>5 DEF LinkInv
<1>11. CASE client = socket
  <2>1. exchange \in Kinds /\ socket # NoConnection /\ Whole
    <3>1. ~RxEmpty
      BY <1>3, <1>11 DEF RxEmpty
    <3>2. ~Half
      BY <1>2, ShortSequences DEF Half
    <3> QED
      BY <1>1, <1>2, <1>11, <3>1, <3>2, LinkAssumption
         DEF Current, Nothing, Waiting, Handled, LinkTypes
  <2>2. /\ rx = <<Request(1), Request(2)>>
        /\ up[socket] = <<>> /\ down[socket] = <<>>
        /\ rx[1] = Request(1)
    BY <2>1, ShortSequences DEF Whole
  <2>3. /\ [transaction |-> rx[1].transaction, kind |-> rx[1].kind,
            fresh |-> rx[1].fresh] = Reply
        /\ Reply \in Answers
    <3>1. /\ Request(1).transaction = transactionId /\ Request(1).kind = exchange
          /\ Request(1).fresh = TRUE
      BY Zenon DEF Request, Sent
    <3> QED
      BY <1>1, <2>1, <2>2, <3>1, RequestFacts, Zenon DEF Reply, Answer, LinkTypes
  <2>4. down' = [down EXCEPT ![socket] = Append(down[socket], Reply)] /\ ended' = ended
    BY <1>11, <2>3 DEF ProcessFrames
  <2>5. Append(down[socket], Reply) = <<Reply>> /\ <<Reply>> \in Seq(Answers)
    BY <2>2, <2>3, ShortTyped
  <2>6. /\ down' \in [Connections -> Seq(Answers)] /\ down'[socket] = <<Reply>>
        /\ \A c \in Connections : c # socket => down'[c] = down[c]
    BY <1>1, <1>2, <1>11, <2>4, <2>5 DEF LinkTypes
  <2>7. LinkTypes'
    <3>1. Len(rx') <= 2
      BY <1>4
    <3> QED
      BY <1>1, <1>2, <1>4, <2>4, <2>6, <3>1, Zenon DEF LinkTypes
  <2>8. Handled'
    BY <1>2, <2>2, <2>6 DEF Handled, Reply, RxEmpty
  <2>9. Current'
    BY <1>2, <2>1, <2>8, LinkAssumption DEF Current, LinkTypes
  <2>10. ~Late'
    <3>1. backlog = <<>>
      BY <1>1, <1>2, <1>11 DEF Places, Held
    <3>2. \A c \in Connections : c # socket => ~Held(c)
      BY <1>1, <1>11, <3>1, HeldFacts
    <3>3. \A c \in Connections : up[c] = <<>>
      BY <1>1, <2>2, <3>2 DEF Streams
    <3> QED
      BY <1>2, <1>7, <3>3, EmptyStale DEF Late
  <2>11. ~Fresh(down[socket]) /\ Fresh(down'[socket])
    <3>1. Reply.fresh
      BY <1>1, <2>1, RequestFacts DEF Reply, LinkTypes
    <3> DEFINE r == Reply
               f == down'[socket]
    <3>2. f = <<r>>
      BY <2>6
    <3> HIDE DEF r, f
    <3>3. 1 \in DOMAIN f /\ f[1] = r
      BY <3>2
    <3>4. Fresh(f)
      BY <3>1, <3>3, Zenon DEF Fresh, r
    <3> QED
      BY <2>2, <3>4, EmptyStale DEF f
  <2>12. exchange # "idle"
    BY <1>1, <1>3, <1>11, <2>1 DEF Current, Nothing, RxEmpty
  <2> QED
    BY <1>6, <1>8, <1>9, <1>11, <2>6, <2>7, <2>9, <2>10, <2>11, <2>12 DEF LinkInv
<1> QED
  BY <1>10, <1>11

(* Steps of the node's other functions lose what was given up, or nothing.  *)
LEMMA DroppedLate ==
    ASSUME LinkTypes, NEW gone, Dropped(gone), rx' = <<>> \/ rx' = rx
    PROVE  Late' => Late
<1>1. \A c \in Connections : up'[c] = <<>> \/ up'[c] = up[c]
  BY DEF Dropped
<1>2. ~LateRequest(<<>>)
  BY EmptyStale
<1> QED
  BY <1>1, <1>2, Zenon DEF Late

-----------------------------------------------------------------------------
(* The invariant.                                                           *)

(* The connection is dropped: after a timeout, or when the service ends.    *)
LEMMA FailFacts ==
    ASSUME LinkInv, Fail
    PROVE  /\ LinkInv' /\ exchange # "idle" /\ exchange' = "idle"
           /\ outcome' = "failed"
           /\ Fresh(down[socket]) => (Late' <=> Late)
<1>1. /\ exchange # "idle" /\ exchange' = "idle" /\ outcome' = "failed"
      /\ rx' = Stale(rx) /\ EndExchange("failed") /\ DisconnectLocked
      /\ UNCHANGED <<transactionId, backlog, client>>
  BY DEF Fail, EndExchange
<1>2. /\ socket # NoConnection /\ transactionId' \in 0 .. Transactions - 1
  BY <1>1 DEF LinkInv, Current, LinkTypes
<1>3. /\ LinkInv' /\ socket \in Connections
      /\ up[socket] = <<>> => up'[socket] = <<>>
      /\ \A c \in Connections : c # socket => up'[c] = Stale(up[c])
  BY <1>1, <1>2, DisconnectInv
<1>4. Fresh(down[socket]) => up[socket] = <<>> /\ RxEmpty
  BY <1>1, AnswerFacts DEF Handled
<1> QED
  BY <1>1, <1>3, <1>4, EndedLate

LEMMA ServiceEndsFacts ==
    ASSUME LinkInv, ServiceEnds
    PROVE  /\ LinkInv' /\ exchange' = "idle" /\ outcome' = "none"
           /\ exchange = "idle" \/ Fresh(down[socket]) => (Late' <=> Late)
<1>1. /\ socket # NoConnection /\ exchange' = "idle" /\ outcome' = "none"
      /\ rx' = Stale(rx) /\ EndExchange("none") /\ DisconnectLocked
      /\ UNCHANGED <<backlog, client>> /\ transactionId' = 0
  BY DEF ServiceEnds, EndExchange
<1>2. transactionId' \in 0 .. Transactions - 1
  BY <1>1, LinkAssumption
<1>3. /\ LinkInv' /\ socket \in Connections
      /\ up[socket] = <<>> => up'[socket] = <<>>
      /\ \A c \in Connections : c # socket => up'[c] = Stale(up[c])
  BY <1>1, <1>2, DisconnectInv
<1>4. exchange = "idle" => up[socket] = <<>> /\ RxEmpty
  BY <1>1 DEF LinkInv, Current, Nothing
<1>5. exchange # "idle" /\ Fresh(down[socket]) => up[socket] = <<>> /\ RxEmpty
  BY AnswerFacts DEF Handled
<1> QED
  BY <1>1, <1>3, <1>4, <1>5, EndedLate

LEMMA LinkNextInv == LinkInv /\ [LinkNext]_linkVars => LinkInv'
<1> SUFFICES ASSUME LinkInv, [LinkNext]_linkVars PROVE LinkInv'
  OBVIOUS
<1>1. CASE ConnectLocked
  BY <1>1, ConnectLockedInv
<1>2. ASSUME NEW kind \in Kinds, Transact(kind) PROVE LinkInv'
  BY <1>2, TransactInv
<1>3. CASE ReceiveAnswer
  BY <1>3, ReceiveAnswerFacts
<1>4. CASE Fail
  BY <1>4, FailFacts
<1>5. CASE ServiceEnds
  BY <1>5, ServiceEndsFacts
<1>6. CASE AcceptClient
  BY <1>6, AcceptClientInv
<1>7. CASE StopClient
  BY <1>7, StopClientInv
<1>8. CASE ReadPart
  BY <1>8, ReadPartFacts
<1>9. CASE ProcessFrames
  BY <1>9, ProcessFramesFacts
<1>10. CASE RxTimeout
  BY <1>10, RxTimeoutInv
<1>11. CASE RestartControl
  BY <1>11, RestartControlInv
<1>12. CASE SetRockPiAddress
  BY <1>12, SetRockPiAddressInv
<1>13. CASE CalmChanges \/ EthernetEvent
  BY <1>13, EnvironmentInv
<1>14. CASE NodeReset
  BY <1>14, NodeResetInv
<1>15. CASE UNCHANGED linkVars
  BY <1>15, SameInv
     DEF linkVars, clientVars, serverVars, networkVars, LinkInv, LinkTypes
<1> QED
  BY <1>1, <1>2, <1>3, <1>4, <1>5, <1>6, <1>7, <1>8, <1>9, <1>10, <1>11, <1>12,
     <1>13, <1>14, <1>15 DEF LinkNext, ClientStep, ServerStep

LEMMA LinkNextFlags == LinkFlags /\ [LinkNext]_linkVars => LinkFlags'
<1> SUFFICES ASSUME LinkFlags, [LinkNext]_linkVars PROVE LinkFlags'
  OBVIOUS
<1> USE Zenon DEF LinkFlags
<1>1. CASE ClientStep
  BY <1>1 DEF ClientStep, ConnectLocked, Transact, ReceiveAnswer, Fail, serverVars
<1>2. CASE ServiceEnds
  BY <1>2 DEF ServiceEnds
<1>3. CASE ServerStep
  BY <1>3 DEF ServerStep, AcceptClient, StopClient, ReadPart, ProcessFrames,
              RxTimeout, RestartControl
<1>4. CASE SetRockPiAddress
  BY <1>4 DEF SetRockPiAddress
<1>5. CASE CalmChanges
  BY <1>5 DEF CalmChanges, serverVars
<1>6. CASE EthernetEvent
  BY <1>6 DEF EthernetEvent
<1>7. CASE NodeReset
  BY <1>7 DEF NodeReset
<1>8. CASE UNCHANGED linkVars
  BY <1>8 DEF linkVars, serverVars
<1> QED
  BY <1>1, <1>2, <1>3, <1>4, <1>5, <1>6, <1>7, <1>8 DEF LinkNext

(* TLAPS: the variables have their types and rx_ never holds parts of two   *)
(* requests, whatever is lost or late: the next request a node reads on a   *)
(* connection is put together from its own parts only.                      *)
THEOREM LinkTypesSafe == LinkSpec => []LinkTypeOK
<1>1. LinkInit => LinkInv /\ LinkFlags
  <2>1. LinkInit => LinkFlags
    BY Zenon DEF LinkInit, LinkFlags
  <2> QED
    BY <2>1, LinkInitInv
<1>2. LinkInv /\ LinkFlags /\ [LinkNext]_linkVars => LinkInv' /\ LinkFlags'
  BY LinkNextInv, LinkNextFlags
<1>3. LinkInv /\ LinkFlags => LinkTypeOK
  BY TypesSplit DEF LinkInv
<1> QED
  BY <1>1, <1>2, <1>3, PTL DEF LinkSpec

-----------------------------------------------------------------------------
(* The abstract specification.                                              *)

(* How far the current exchange is.                                         *)
Now == IF exchange = "idle" THEN "idle"
       ELSE IF Fresh(down[socket]) THEN "handled" ELSE "sent"

Answered == outcome = "answered"

(* Nothing changes, but a request that was given up may be gone.            *)
LEMMA QuietStep ==
    ASSUME UNCHANGED <<exchange, outcome, socket, down>>, Late' => Late
    PROVE  [Line!LineNext]_(Line!lineVars)
<1>1. Now' = Now /\ Answered' = Answered
  BY DEF Now, Answered
<1>2. CASE Late' <=> Late
  BY <1>1, <1>2 DEF Line!lineVars, Late, Now, Answered
<1>3. CASE Late /\ ~Late'
  BY <1>1, <1>3 DEF Line!LineNext, Line!LateEnds, Late, Now, Answered
<1> QED
  BY <1>2, <1>3

(* The exchange ends without success.                                       *)
LEMMA GiveUpStep ==
    ASSUME exchange' = "idle", outcome' # "answered",
           exchange = "idle" \/ Fresh(down[socket]) => (Late' <=> Late)
    PROVE  Line!LineNext
<1>1. Now' = "idle" /\ ~Answered'
  BY DEF Now, Answered
<1>2. CASE exchange = "idle"
  <2>1. Now = "idle" /\ (Late' <=> Late)
    BY <1>2 DEF Now
  <2> QED
    BY <1>1, <2>1 DEF Line!LineNext, Line!NoExchange, Late, Now, Answered
<1>3. CASE exchange # "idle"
  <2>1. Now # "idle" /\ (Late' => Late \/ Now = "sent")
    BY <1>3 DEF Now
  <2> QED
    BY <1>1, <2>1 DEF Line!LineNext, Line!GiveUp, Late, Now, Answered
<1> QED
  BY <1>2, <1>3

LEMMA LineStep == LinkInv /\ [LinkNext]_linkVars => [Line!LineNext]_(Line!lineVars)
<1> SUFFICES ASSUME LinkInv, [LinkNext]_linkVars
             PROVE  [Line!LineNext]_(Line!lineVars)
  OBVIOUS
<1>1. LinkTypes
  BY DEF LinkInv
<1>2. CASE ConnectLocked
  <2>1. /\ exchange = "idle" /\ exchange' = "idle"
        /\ rx' = rx /\ up' = up /\ down' = down
    BY <1>2 DEF ConnectLocked, networkVars
  <2>2. Late' <=> Late
    BY <2>1, Zenon DEF Late
  <2>3. CASE outcome' = "failed"
    BY <2>1, <2>2, <2>3, GiveUpStep
  <2>4. CASE outcome' = outcome
    <3>1. Now' = Now /\ Answered' = Answered
      BY <2>1, <2>4 DEF Now, Answered
    <3> QED
      BY <2>2, <3>1 DEF Line!lineVars, Late, Now, Answered
  <2> QED
    BY <1>2, <2>3, <2>4 DEF ConnectLocked
<1>3. ASSUME NEW kind \in Kinds, Transact(kind)
      PROVE  [Line!LineNext]_(Line!lineVars)
  <2>1. /\ ~Fresh(down[socket])
        /\ ~LateRequest(up[socket]) /\ ~LateRequest(up'[socket])
        /\ \A c \in Connections : c # socket => up'[c] = up[c]
    BY <1>3, TransactInv
  <2>2. /\ exchange = "idle" /\ exchange' = kind /\ outcome' = outcome
        /\ socket' = socket /\ down' = down /\ rx' = rx
    BY <1>3 DEF Transact, serverVars
  <2>3. Late' <=> Late
    BY <2>1, <2>2, Zenon DEF Late
  <2>4. Now = "idle" /\ Now' = "sent" /\ Answered' = Answered
    <3>1. kind # "idle"
      BY LinkAssumption
    <3> QED
      BY <2>1, <2>2, <3>1 DEF Now, Answered
  <2> QED
    BY <2>3, <2>4 DEF Line!LineNext, Line!BeginExchange, Late, Now, Answered
<1>4. CASE ReceiveAnswer
  <2>1. /\ Handled /\ exchange' = "idle" /\ (Late' <=> Late)
        /\ outcome' = IF exchange = "known" THEN "answered" ELSE "refused"
        /\ exchange # "idle" /\ Fresh(down[socket])
    BY <1>4, ReceiveAnswerFacts, AnswerFacts DEF ReceiveAnswer
  <2>2. CASE exchange = "known"
    <3>1. Now = "handled" /\ Now' = "idle" /\ Answered'
      BY <2>1, <2>2 DEF Now, Answered
    <3> QED
      BY <2>1, <3>1 DEF Line!LineNext, Line!Succeed, Late, Now, Answered
  <2>3. CASE exchange # "known"
    BY <2>1, <2>3, GiveUpStep
  <2> QED
    BY <2>2, <2>3
<1>5. CASE Fail
  BY <1>5, FailFacts, GiveUpStep
<1>6. CASE ServiceEnds
  BY <1>6, ServiceEndsFacts, GiveUpStep
<1>7. ASSUME NEW gone, Dropped(gone), rx' = <<>> \/ rx' = rx,
             UNCHANGED <<clientVars, down>>
      PROVE  [Line!LineNext]_(Line!lineVars)
  BY <1>1, <1>7, DroppedLate, QuietStep DEF clientVars
<1>8. CASE AcceptClient
  BY <1>7, <1>8 DEF AcceptClient, RxForNewClient
<1>9. CASE StopClient
  BY <1>7, <1>9 DEF StopClient
<1>10. CASE ReadPart
  BY <1>10, ReadPartFacts, QuietStep DEF ReadPart, clientVars
<1>11. CASE ProcessFrames
  <2>1. /\ UNCHANGED <<exchange, outcome, socket>> /\ (Late' => Late)
    BY <1>11, ProcessFramesFacts DEF ProcessFrames, clientVars
  <2>2. CASE client # socket
    BY <1>11, <2>1, <2>2, ProcessFramesFacts, QuietStep
  <2>3. CASE client = socket
    <3>1. /\ exchange # "idle" /\ ~Late'
          /\ ~Fresh(down[socket]) /\ Fresh(down'[socket])
      BY <1>11, <2>3, ProcessFramesFacts
    <3>2. Now = "sent" /\ Now' = "handled" /\ Answered' = Answered
      BY <2>1, <3>1 DEF Now, Answered
    <3> QED
      BY <3>1, <3>2 DEF Line!LineNext, Line!Handle, Late, Now, Answered
  <2> QED
    BY <2>2, <2>3
<1>12. CASE RxTimeout
  BY <1>7, <1>12 DEF RxTimeout
<1>13. CASE RestartControl
  BY <1>7, <1>13 DEF RestartControl
<1>14. CASE SetRockPiAddress
  BY <1>7, <1>14 DEF SetRockPiAddress
<1>15. CASE NodeReset
  BY <1>7, <1>15 DEF NodeReset
<1>16. CASE CalmChanges \/ EthernetEvent \/ UNCHANGED linkVars
  <2>1. UNCHANGED <<exchange, outcome, socket, down, up, rx>>
    BY <1>16
       DEF CalmChanges, EthernetEvent, linkVars, clientVars, serverVars, networkVars
  <2>2. Late' <=> Late
    BY <2>1, Zenon DEF Late
  <2> QED
    BY <2>1, <2>2, QuietStep
<1> QED
  BY <1>2, <1>3, <1>4, <1>5, <1>6, <1>8, <1>9, <1>10, <1>11, <1>12, <1>13, <1>14,
     <1>15, <1>16 DEF LinkNext, ClientStep, ServerStep

(* TLAPS: an exchange succeeds only if the node has handled this very       *)
(* request, and one that was given up is handled before any newer one or    *)
(* never: through timeouts, lost parts, restarts of both ends, and with     *)
(* transaction numbers that come again.                                     *)
THEOREM LinkIsLineSafe == LinkSpec => LinkIsLine
<1>1. LinkInit => Line!LineInit
  <2> SUFFICES ASSUME LinkInit PROVE Line!LineInit
    OBVIOUS
  <2>1. \A c \in Connections : up[c] = <<>>
    BY DEF LinkInit
  <2>2. ~Late
    BY <2>1, EmptyStale DEF LinkInit, Late
  <2>3. Now = "idle" /\ ~Answered
    BY DEF LinkInit, Now, Answered
  <2> QED
    BY <2>2, <2>3 DEF Line!LineInit, Late, Now, Answered
<1>2. LinkInit => LinkInv
  BY LinkInitInv
<1>3. LinkInv /\ [LinkNext]_linkVars => LinkInv'
  BY LinkNextInv
<1>4. LinkInv /\ [LinkNext]_linkVars => [Line!LineNext]_(Line!lineVars)
  BY LineStep
<1> QED
  BY <1>1, <1>2, <1>3, <1>4, PTL DEF LinkSpec, LinkIsLine, Line!LineSpec
=============================================================================
