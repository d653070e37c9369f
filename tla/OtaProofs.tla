------------------------------- MODULE OtaProofs -------------------------------
(***************************************************************************)
(* Proofs about the firmware update, for any number of clients, any files  *)
(* and any combination of the failures the model has.                      *)
(***************************************************************************)
EXTENDS OtaUpdate, SequenceTheorems, TLAPS

ClientRuns ==
    [pc : {"idle", "sized", "hashed", "sending", "waiting"}, digest : Digests,
     sent : Nat, exit : {"none", "success", "failure"}, stored : BOOLEAN]
Headers == {Header(digest, Token) : digest \in Digests}
Chunks == {Chunk(data) : data \in Data}
Items == Headers \cup Chunks \cup {BodyEnd}
Connections ==
    [items : Seq(Items), state : ConnStates, reply : {0, 200, 422}]
OtaStates ==
    [accepted : BOOLEAN, completed : BOOLEAN, expected : Digests,
     received : Seq(Data), restartPending : BOOLEAN]

(* Every variable has its type, down to the fields of the records.          *)
ClientTypes == file \in StagedFiles /\ client \in [Clients -> ClientRuns]

ConnTypes ==
    /\ conn \in [Clients -> Connections]
    /\ \A c \in Clients : Len(conn[c].items) <= Window

LoopTypes ==
    /\ backlog \in Seq(Clients) /\ serving \in Clients \cup {NoClient}
    /\ loopAt \in {"http", "header", "body", "result", "timer"}
    /\ ota \in OtaStates /\ Len(ota.received) <= MaxChunks

FlashTypes ==
    /\ slots \in [{0, 1} -> Images \cup {Broken}]
    /\ active \in {0, 1} /\ bootSlot \in {0, 1} /\ named \subseteq Digests

(* A request is being served.                                               *)
Serves == loopAt \in {"header", "body", "result"}

(* A connection that waits or is served has not been closed by the node,    *)
(* and it is in one place only.                                             *)
Reaches(q) == q.state \in {"open", "silent", "cut"}

Queue ==
    /\ \A i \in 1 .. Len(backlog) : Reaches(conn[backlog[i]])
    /\ \A i, j \in 1 .. Len(backlog) : backlog[i] = backlog[j] => i = j
    /\ Serves => /\ serving \in Clients /\ Reaches(conn[serving])
                 /\ \A i \in 1 .. Len(backlog) : backlog[i] # serving

(* Of a run and its connection: an open connection carries the header of    *)
(* that very run, and the answer 200 means that its file is stored.         *)
Matches(run, q) ==
    /\ run.pc \in {"sized", "hashed"} => q = NoConn
    /\ q.state = "open" =>
           \A i \in 1 .. Len(q.items) :
               q.items[i] \in Headers => q.items[i] = Header(run.digest, Token)
    /\ q.state = "closed" /\ q.reply = 200 => run.stored
    /\ run.exit = "success" => run.stored

(* The upload that is received is the one the served run has announced.     *)
Upload ==
    /\ loopAt = "body" => ~ota.completed
    /\ loopAt = "body" /\ ota.accepted /\ conn[serving].state = "open" =>
           ota.expected = client[serving].digest
    /\ loopAt = "result" /\ ota.completed /\ conn[serving].state = "open" =>
           client[serving].stored

(* What is accepted was announced, and the running slot is never written.   *)
Flash ==
    /\ ota.accepted => ota.expected \in named
    /\ slots[active] # Broken

OtaInv ==
    /\ ClientTypes /\ ConnTypes /\ LoopTypes /\ FlashTypes
    /\ Queue /\ Upload /\ Flash
    /\ \A c \in Clients : Matches(client[c], conn[c])

-----------------------------------------------------------------------------
(* Digests, items and records.                                              *)

LEMMA DigestFacts ==
    /\ NoKey \in Digests
    /\ \A a, b : Sha256(a) = Sha256(b) => a = b
    /\ \A a : Sha256(a) # NoKey
    /\ \A f \in StagedFiles : Sha256(f) \in Digests
BY DEF Digests, Sha256, NoKey

LEMMA ItemFacts ==
    /\ \A d \in Digests : Header(d, Token) \in Items /\ Header(d, Token) \in Headers
    /\ \A d, t : Header(d, t)[2] = d
    /\ \A x \in Data : Chunk(x) \in Items /\ Chunk(x) \notin Headers
    /\ BodyEnd \in Items /\ BodyEnd \notin Headers
    /\ \A item \in Items : item[1] = "header" => item \in Headers
    /\ \A item \in Items : item[1] = "chunk" => item[2] \in Data
    /\ \A item \in Headers : item[2] \in Digests
<1>1. /\ \A d, t : Header(d, t)[1] = "header" /\ Header(d, t)[2] = d
      /\ \A x : Chunk(x)[1] = "chunk" /\ Chunk(x)[2] = x
      /\ BodyEnd[1] = "end"
  BY DEF Header, Chunk, BodyEnd
<1>2. "header" # "chunk" /\ "header" # "end" /\ "chunk" # "end"
  OBVIOUS
<1> QED
  BY <1>1, <1>2 DEF Items, Headers, Chunks

LEMMA NewRecords ==
    /\ NewClient \in ClientRuns /\ NewClient.exit = "none"
    /\ NewClient.pc = "idle"
    /\ NoConn \in Connections /\ NoConn.state = "none" /\ NoConn.items = <<>>
    /\ Len(NoConn.items) = 0 /\ Len(NoConn.items) <= Window
    /\ NewOta \in OtaStates /\ ~NewOta.accepted /\ ~NewOta.completed
    /\ NewOta.received = <<>> /\ Len(NewOta.received) <= MaxChunks
<1>1. <<>> \in Seq(Items) /\ <<>> \in Seq(Data) /\ Len(<<>>) = 0
  BY EmptySeq
<1>2. Window \in Nat /\ MaxChunks \in Nat
  BY OtaAssumption
<1>3. NewOta \in OtaStates
  BY <1>1, DigestFacts, Zenon DEF NewOta, OtaStates
<1>4. NewClient \in ClientRuns
  <2>1. 0 \in Nat /\ FALSE \in BOOLEAN /\ NoKey \in Digests
    BY DigestFacts
  <2> QED
    BY <2>1, Zenon DEF NewClient, ClientRuns
<1> QED
  BY <1>1, <1>2, <1>3, <1>4 DEF NewClient, NoConn, NewOta, Connections, ConnStates

(* A connection after the node has lost or closed its end.                  *)
LEMMA LostRecord ==
    LET q == [NoConn EXCEPT !.state = "lost"]
    IN  q \in Connections /\ q.state = "lost" /\ q.items = NoConn.items
<1>1. "lost" \in ConnStates
  BY DEF ConnStates
<1> QED
  BY <1>1, NewRecords, Zenon DEF Connections

LEMMA ClosedRecord ==
    ASSUME NEW reply \in {0, 200, 422}
    PROVE  LET q == [NoConn EXCEPT !.state = "closed", !.reply = reply]
           IN  /\ q \in Connections /\ q.state = "closed"
               /\ q.reply = reply /\ q.items = NoConn.items
<1>1. "closed" \in ConnStates
  BY DEF ConnStates
<1>2. NoConn \in Connections
  BY NewRecords
<1> QED
  BY <1>1, <1>2, Zenon DEF Connections

(* An upload that has ended or begins.                                      *)
LEMMA UploadRecords ==
    ASSUME NEW o \in OtaStates
    PROVE  /\ Ended(o) \in OtaStates /\ ~Ended(o).accepted
           /\ Ended(o).received = <<>> /\ Len(Ended(o).received) = 0
           /\ Ended(o).completed = o.completed
           /\ [Ended(o) EXCEPT !.completed = TRUE] \in OtaStates
           /\ ~[Ended(o) EXCEPT !.completed = TRUE].accepted
           /\ [Ended(o) EXCEPT !.completed = TRUE].received = <<>>
           /\ [o EXCEPT !.restartPending = TRUE] \in OtaStates
           /\ [o EXCEPT !.restartPending = TRUE].accepted = o.accepted
           /\ [o EXCEPT !.restartPending = TRUE].expected = o.expected
           /\ [o EXCEPT !.restartPending = TRUE].received = o.received
<1>1. <<>> \in Seq(Data) /\ Len(<<>>) = 0 /\ NoKey \in Digests
  BY EmptySeq, DigestFacts
<1> QED
  BY <1>1, Zenon DEF Ended, OtaStates

LEMMA BegunRecord ==
    ASSUME ota \in OtaStates, NEW accepted \in BOOLEAN, NEW digest \in Digests
    PROVE  /\ Begun(accepted, digest) \in OtaStates
           /\ Begun(accepted, digest).accepted = accepted
           /\ Begun(accepted, digest).expected = digest
           /\ Begun(accepted, digest).completed = FALSE
           /\ Begun(accepted, digest).received = <<>>
           /\ Len(Begun(accepted, digest).received) = 0
<1>1. <<>> \in Seq(Data) /\ Len(<<>>) = 0
  BY EmptySeq
<1> QED
  BY <1>1, Zenon DEF Begun, OtaStates

LEMMA TypesSuffice ==
    ClientTypes /\ ConnTypes /\ LoopTypes /\ FlashTypes => OtaTypeOK
BY DEF ClientTypes, ConnTypes, LoopTypes, FlashTypes, OtaTypeOK, ClientRuns,
       Connections, OtaStates


-----------------------------------------------------------------------------
(* gridex_ota_apply.                                                        *)

LEMMA OtaInitInv == OtaInit => OtaInv
<1> SUFFICES ASSUME OtaInit PROVE OtaInv
  OBVIOUS
<1>1. /\ client \in [Clients -> ClientRuns] /\ conn \in [Clients -> Connections]
      /\ \A c \in Clients : client[c] = NewClient /\ conn[c] = NoConn
  BY NewRecords DEF OtaInit
<1>2. ClientTypes /\ ConnTypes
  BY <1>1, NewRecords DEF OtaInit, ClientTypes, ConnTypes
<1>3. LoopTypes /\ backlog = <<>> /\ Len(backlog) = 0
  BY NewRecords, EmptySeq DEF OtaInit, LoopTypes
<1>4. FactoryImage \in Images /\ FactoryImage # Broken
  BY OtaAssumption DEF Images, Broken
<1>5. FlashTypes /\ slots[active] # Broken
  BY <1>4 DEF OtaInit, FlashTypes
<1>6. \A c \in Clients : Matches(client[c], conn[c])
  BY <1>1, NewRecords DEF Matches
<1>7. Queue
  BY <1>3 DEF OtaInit, Queue, Serves
<1>8. Upload /\ Flash
  BY <1>5, NewRecords DEF OtaInit, Upload, Flash
<1> QED
  BY <1>2, <1>3, <1>5, <1>6, <1>7, <1>8 DEF OtaInv

(* A step of one run, which leaves the node alone.                          *)
LEMMA OneRun ==
    ASSUME OtaInv, NEW c \in Clients,
           NEW run \in ClientRuns, NEW q \in Connections,
           Len(q.items) <= Window, Matches(run, q),
           Reaches(conn[c]) => Reaches(q),
           q.state = "open" =>
               /\ conn[c].state = "open" /\ run.digest = client[c].digest
               /\ run.stored = client[c].stored,
           file' \in StagedFiles,
           client' = [client EXCEPT ![c] = run],
           conn' = [conn EXCEPT ![c] = q],
           UNCHANGED <<backlog, nodeVars>>
    PROVE  OtaInv'
<1>1. /\ serving' = serving /\ loopAt' = loopAt /\ ota' = ota
      /\ backlog' = backlog /\ slots' = slots /\ active' = active
      /\ bootSlot' = bootSlot /\ named' = named
  BY DEF nodeVars, flashVars
<1>2. /\ client \in [Clients -> ClientRuns] /\ conn \in [Clients -> Connections]
      /\ \A d \in Clients : Len(conn[d].items) <= Window
      /\ \A d \in Clients : Matches(client[d], conn[d])
  BY DEF OtaInv, ClientTypes, ConnTypes
<1>3. /\ client' \in [Clients -> ClientRuns] /\ conn' \in [Clients -> Connections]
      /\ client'[c] = run /\ conn'[c] = q
      /\ \A d \in Clients \ {c} : client'[d] = client[d] /\ conn'[d] = conn[d]
  BY <1>2
<1>4. ClientTypes' /\ ConnTypes'
  BY <1>2, <1>3 DEF ClientTypes, ConnTypes
<1>5. LoopTypes' /\ FlashTypes' /\ Flash'
  BY <1>1 DEF OtaInv, LoopTypes, FlashTypes, Flash
<1>6. \A d \in Clients : Reaches(conn[d]) => Reaches(conn'[d])
  BY <1>3
<1>7. Queue'
  <2>1. \A i \in 1 .. Len(backlog) : backlog[i] \in Clients
    BY ElementOfSeq DEF OtaInv, LoopTypes
  <2> QED
    BY <1>1, <1>6, <2>1 DEF OtaInv, Queue, Serves
<1>8. \A d \in Clients : Matches(client'[d], conn'[d])
  BY <1>2, <1>3
<1>9. \A d \in Clients :
          conn'[d].state = "open" =>
              /\ conn[d].state = "open" /\ client'[d].digest = client[d].digest
              /\ client'[d].stored = client[d].stored
  BY <1>3
<1>10. Upload'
  <2>1. loopAt \in {"body", "result"} => serving \in Clients
    BY DEF OtaInv, Queue, Serves
  <2>2. Upload
    BY DEF OtaInv
  <2>3. CASE loopAt \in {"body", "result"}
    BY <1>1, <1>9, <2>1, <2>2, <2>3 DEF Upload
  <2>4. CASE loopAt \notin {"body", "result"}
    BY <1>1, <2>4 DEF Upload
  <2> QED
    BY <2>3, <2>4
<1> QED
  BY <1>4, <1>5, <1>7, <1>8, <1>10 DEF OtaInv

(* What Exit leaves of a run.                                               *)
Left(c, status) ==
    [NewClient EXCEPT !.exit = status,
                      !.stored = status = "success" /\ client[c].stored]

LEMMA ExitFacts ==
    ASSUME ClientTypes, NEW c \in Clients, NEW status \in {"success", "failure"}
    PROVE  /\ Left(c, status) \in ClientRuns
           /\ Left(c, status).pc = "idle" /\ Left(c, status).exit = status
           /\ status = "success" /\ client[c].stored => Left(c, status).stored
           /\ Exit(c, status) => client' = [client EXCEPT ![c] = Left(c, status)]
<1>1. NewClient \in ClientRuns /\ NewClient.pc = "idle"
  BY NewRecords
<1>2. client[c].stored \in BOOLEAN
  BY DEF ClientTypes, ClientRuns
<1>3. (status = "success" /\ client[c].stored) \in BOOLEAN
  BY Zenon
<1>4. /\ Left(c, status) \in ClientRuns /\ Left(c, status).pc = "idle"
      /\ Left(c, status).exit = status
  BY <1>1, <1>3, Zenon DEF Left, ClientRuns
<1>5. status = "success" /\ client[c].stored => Left(c, status).stored
  BY <1>1, Zenon DEF Left, ClientRuns
<1>6. Exit(c, status) => client' = [client EXCEPT ![c] = Left(c, status)]
  BY DEF Exit, Left
<1> QED
  BY <1>4, <1>5, <1>6

(* A run ends whose connection is gone, or is left to the node.             *)
LEMMA RunLeaves ==
    ASSUME OtaInv, NEW c \in Clients, NEW status \in {"success", "failure"},
           Exit(c, status), status = "success" => client[c].stored,
           NEW q \in Connections, Len(q.items) <= Window,
           q = NoConn \/ q.state = "cut", Reaches(conn[c]) => q.state = "cut",
           file' = file, conn' = [conn EXCEPT ![c] = q],
           UNCHANGED <<backlog, nodeVars>>
    PROVE  OtaInv'
<1>1. ClientTypes
  BY DEF OtaInv
<1> DEFINE run == Left(c, status)
<1>2. /\ run \in ClientRuns /\ run.pc = "idle" /\ run.exit = status
      /\ status = "success" => run.stored
      /\ client' = [client EXCEPT ![c] = run]
  BY <1>1, ExitFacts
<1> HIDE DEF run
<1>3. q.state \in {"none", "cut"}
  BY NewRecords
<1>4. Matches(run, q)
  BY <1>2, <1>3 DEF Matches
<1>5. Reaches(conn[c]) => Reaches(q)
  BY DEF Reaches
<1>6. file' \in StagedFiles
  BY <1>1 DEF ClientTypes
<1>7. q.state # "open"
  BY <1>3
<1> QED
  BY <1>2, <1>4, <1>5, <1>6, <1>7, OneRun

LEMMA StageFileInv == OtaInv /\ StageFile => OtaInv'
<1> SUFFICES ASSUME OtaInv, StageFile PROVE OtaInv'
  OBVIOUS
<1>1. /\ file' \in StagedFiles /\ client' = client /\ conn' = conn
      /\ backlog' = backlog /\ serving' = serving /\ loopAt' = loopAt
      /\ ota' = ota /\ UNCHANGED flashVars /\ named' = named
  BY DEF StageFile, nodeVars
<1> QED
  BY <1>1 DEF OtaInv, ClientTypes, ConnTypes, LoopTypes, FlashTypes, Queue,
              Serves, Upload, Flash, flashVars

LEMMA CheckFileInv ==
    ASSUME OtaInv, NEW c \in Clients, CheckFile(c)
    PROVE  OtaInv'
<1>1. /\ conn[c] = NoConn /\ conn \in [Clients -> Connections]
      /\ file \in StagedFiles /\ file' = file /\ UNCHANGED <<backlog, nodeVars>>
  BY DEF CheckFile, OtaInv, ConnTypes, ClientTypes
<1>2. conn' = [conn EXCEPT ![c] = NoConn]
  BY <1>1 DEF CheckFile
<1>3. CASE client' = [client EXCEPT ![c] = [NewClient EXCEPT !.pc = "sized"]]
  <2> DEFINE run == [NewClient EXCEPT !.pc = "sized"]
  <2>1. run \in ClientRuns /\ run.exit = NewClient.exit
    BY NewRecords, Zenon DEF ClientRuns
  <2>2. client' = [client EXCEPT ![c] = run]
    BY <1>3
  <2> HIDE DEF run
  <2>3. Matches(run, NoConn)
    BY <2>1, NewRecords DEF Matches
  <2> QED
    BY <1>1, <1>2, <2>1, <2>2, <2>3, NewRecords, OneRun DEF Reaches
<1>4. CASE Exit(c, "failure")
  BY <1>1, <1>2, <1>4, NewRecords, RunLeaves DEF Reaches
<1> QED
  BY <1>3, <1>4 DEF CheckFile

LEMMA HashFileInv ==
    ASSUME OtaInv, NEW c \in Clients, HashFile(c)
    PROVE  OtaInv'
<1>1. /\ client[c].pc = "sized" /\ Matches(client[c], conn[c])
      /\ conn \in [Clients -> Connections] /\ client[c] \in ClientRuns
      /\ file \in StagedFiles /\ file' = file /\ conn' = conn
      /\ UNCHANGED <<backlog, nodeVars>>
  BY DEF HashFile, OtaInv, ConnTypes, ClientTypes
<1>2. conn[c] = NoConn /\ conn' = [conn EXCEPT ![c] = NoConn]
  BY <1>1 DEF Matches
<1>3. CASE client' = [client EXCEPT ![c].pc = "hashed", ![c].digest = Sha256(file)]
  <2> DEFINE run == [client[c] EXCEPT !.pc = "hashed", !.digest = Sha256(file)]
  <2>1. /\ run \in ClientRuns /\ run.exit = client[c].exit
        /\ run.stored = client[c].stored
    <3>1. Sha256(file) \in Digests
      BY <1>1, DigestFacts
    <3> QED
      BY <1>1, <3>1, Zenon DEF ClientRuns
  <2>2. client' = [client EXCEPT ![c] = run]
    <3>1. client \in [Clients -> ClientRuns]
      BY DEF OtaInv, ClientTypes
    <3> QED
      BY <1>3, <3>1
  <2> HIDE DEF run
  <2>3. Matches(run, NoConn)
    BY <1>1, <2>1, NewRecords DEF Matches
  <2> QED
    BY <1>1, <1>2, <2>1, <2>2, <2>3, NewRecords, OneRun DEF Reaches
<1>4. CASE Exit(c, "failure")
  BY <1>1, <1>2, <1>4, NewRecords, RunLeaves DEF Reaches
<1> QED
  BY <1>3, <1>4 DEF HashFile

(* The run connects: its connection is the last one that waits.             *)
LEMMA ConnectInv ==
    ASSUME OtaInv, NEW c \in Clients, Connect(c)
    PROVE  OtaInv'
<1>1. /\ client[c].pc = "hashed" /\ file' = file /\ UNCHANGED nodeVars
      /\ client \in [Clients -> ClientRuns] /\ conn \in [Clients -> Connections]
      /\ \A d \in Clients : Matches(client[d], conn[d])
      /\ \A d \in Clients : Len(conn[d].items) <= Window
      /\ file \in StagedFiles
  BY DEF Connect, OtaInv, ConnTypes, ClientTypes
<1>2. conn[c] = NoConn
  BY <1>1 DEF Matches
<1>3. CASE Exit(c, "failure") /\ UNCHANGED <<conn, backlog>>
  <2>1. conn' = [conn EXCEPT ![c] = NoConn]
    BY <1>1, <1>2, <1>3
  <2> QED
    BY <1>1, <1>2, <1>3, <2>1, NewRecords, RunLeaves DEF Reaches
<1>4. CASE /\ client' = [client EXCEPT ![c].pc = "sending"]
           /\ conn' = [conn EXCEPT ![c] =
                  [NoConn EXCEPT !.state = "open",
                      !.items = <<Header(client[c].digest, Token)>>]]
           /\ backlog' = Append(backlog, c)
  <2> DEFINE header == Header(client[c].digest, Token)
             run == [client[c] EXCEPT !.pc = "sending"]
             q == [NoConn EXCEPT !.state = "open", !.items = <<header>>]
  <2>1. /\ run \in ClientRuns /\ run.pc = "sending"
        /\ run.digest = client[c].digest /\ run.exit = client[c].exit
        /\ run.stored = client[c].stored /\ client[c].digest \in Digests
    BY <1>1, Zenon DEF ClientRuns
  <2>2. header \in Items
    BY <2>1, ItemFacts
  <2>3. <<header>> \in Seq(Items) /\ Len(<<header>>) = 1 /\ <<header>>[1] = header
    BY <2>2
  <2>4. q \in Connections /\ q.state = "open" /\ q.items = <<header>>
    <3>1. "open" \in ConnStates
      BY DEF ConnStates
    <3> QED
      BY <2>3, <3>1, NewRecords, Zenon DEF Connections
  <2>5. client' = [client EXCEPT ![c] = run] /\ conn' = [conn EXCEPT ![c] = q]
    BY <1>4
  <2>6. Matches(run, q)
    BY <1>1, <2>1, <2>3, <2>4 DEF Matches
  <2> HIDE DEF run, q
  <2>7. /\ client' \in [Clients -> ClientRuns] /\ conn' \in [Clients -> Connections]
        /\ client'[c] = run /\ conn'[c] = q
        /\ \A d \in Clients \ {c} : client'[d] = client[d] /\ conn'[d] = conn[d]
    BY <1>1, <2>1, <2>4, <2>5
  <2>8. Len(q.items) <= Window
    BY <2>3, <2>4, OtaAssumption
  <2>9. ClientTypes' /\ ConnTypes'
    BY <1>1, <2>7, <2>8 DEF ClientTypes, ConnTypes
  <2>10. \A d \in Clients : Matches(client'[d], conn'[d])
    BY <1>1, <2>6, <2>7
  <2>11. /\ serving' = serving /\ loopAt' = loopAt /\ ota' = ota
         /\ slots' = slots /\ active' = active
         /\ bootSlot' = bootSlot /\ named' = named
    BY <1>1 DEF nodeVars, flashVars
  <2>12. ~Reaches(conn[c]) /\ Reaches(q)
    BY <1>2, <2>4, NewRecords DEF Reaches
  <2>13. backlog \in Seq(Clients) /\ Queue /\ LoopTypes
    BY DEF OtaInv, LoopTypes
  <2>14. /\ backlog' \in Seq(Clients) /\ Len(backlog') = Len(backlog) + 1
         /\ \A i \in 1 .. Len(backlog) :
                backlog'[i] = backlog[i] /\ backlog[i] \in Clients
         /\ backlog'[Len(backlog) + 1] = c /\ Len(backlog) \in Nat
    BY <1>4, <2>13, AppendProperties, ElementOfSeq, LenProperties
  <2>15. \A i \in 1 .. Len(backlog) : backlog[i] # c
    BY <2>12, <2>13 DEF Queue
  <2>16. \A i \in 1 .. Len(backlog') :
             i \in 1 .. Len(backlog) \/ i = Len(backlog) + 1
    BY <2>14
  <2>17. Queue'
    <3>1. \A i \in 1 .. Len(backlog') : Reaches(conn'[backlog'[i]])
      BY <2>7, <2>12, <2>13, <2>14, <2>16 DEF Queue
    <3>2. \A i, j \in 1 .. Len(backlog') : backlog'[i] = backlog'[j] => i = j
      BY <2>13, <2>14, <2>15, <2>16 DEF Queue
    <3>3. Serves => /\ serving \in Clients /\ Reaches(conn[serving])
                    /\ serving # c
      BY <2>12, <2>13 DEF Queue
    <3>4. Serves => \A i \in 1 .. Len(backlog') : backlog'[i] # serving
      BY <2>13, <2>14, <2>16, <3>3 DEF Queue
    <3> QED
      BY <2>7, <2>11, <3>1, <3>2, <3>3, <3>4 DEF Queue, Serves
  <2>18. Upload'
    <3>1. loopAt \in {"body", "result"} => serving \in Clients /\ serving # c
      BY <2>12, <2>13 DEF Queue, Serves
    <3>2. Upload
      BY DEF OtaInv
    <3>3. CASE loopAt \in {"body", "result"}
      BY <2>7, <2>11, <3>1, <3>2, <3>3 DEF Upload
    <3>4. CASE loopAt \notin {"body", "result"}
      BY <2>11, <3>4 DEF Upload
    <3> QED
      BY <3>3, <3>4
  <2>19. LoopTypes' /\ FlashTypes' /\ Flash'
    BY <2>11, <2>13, <2>14 DEF OtaInv, LoopTypes, FlashTypes, Flash
  <2> QED
    BY <2>9, <2>10, <2>17, <2>18, <2>19 DEF OtaInv
<1> QED
  BY <1>3, <1>4 DEF Connect

LEMMA SendInv ==
    ASSUME OtaInv, NEW c \in Clients, Send(c)
    PROVE  OtaInv'
<1> DEFINE more == client[c].sent < Len(file)
           item == IF more THEN Chunk(file[client[c].sent + 1]) ELSE BodyEnd
           run == IF more THEN [client[c] EXCEPT !.sent = @ + 1]
                  ELSE [client[c] EXCEPT !.pc = "waiting"]
           q == [conn[c] EXCEPT !.items = Append(@, item)]
<1>1. /\ client[c].pc = "sending" /\ conn[c].state \in {"open", "silent", "lost"}
      /\ Len(conn[c].items) < Window /\ file' = file
      /\ UNCHANGED <<backlog, nodeVars>>
      /\ conn' = IF conn[c].state = "open"
                 THEN [conn EXCEPT ![c].items = Append(@, item)] ELSE conn
      /\ client' = IF more THEN [client EXCEPT ![c].sent = @ + 1]
                   ELSE [client EXCEPT ![c].pc = "waiting"]
  BY DEF Send
<1>2. /\ client[c] \in ClientRuns /\ conn[c] \in Connections
      /\ Matches(client[c], conn[c]) /\ file \in Seq(Data) /\ file \in StagedFiles
  BY OtaAssumption DEF OtaInv, ClientTypes, ConnTypes
<1>3. item \in Items /\ item \notin Headers
  <2>1. CASE more
    <3>1. client[c].sent \in Nat /\ Len(file) \in Nat
      BY <1>2, LenProperties DEF ClientRuns
    <3>2. client[c].sent + 1 \in 1 .. Len(file)
      BY <2>1, <3>1
    <3>3. file[client[c].sent + 1] \in Data
      BY <1>2, <3>2, ElementOfSeq
    <3> QED
      BY <2>1, <3>3, ItemFacts
  <2>2. CASE ~more
    BY <2>2, ItemFacts
  <2> QED
    BY <2>1, <2>2
<1>4. /\ run \in ClientRuns /\ run.pc \notin {"sized", "hashed"}
      /\ run.digest = client[c].digest /\ run.exit = client[c].exit
      /\ run.stored = client[c].stored
  <2>1. CASE more
    <3>1. client[c].sent + 1 \in Nat
      BY <1>2 DEF ClientRuns
    <3>2. /\ [client[c] EXCEPT !.sent = @ + 1] \in ClientRuns
          /\ [client[c] EXCEPT !.sent = @ + 1].pc = client[c].pc
          /\ [client[c] EXCEPT !.sent = @ + 1].digest = client[c].digest
          /\ [client[c] EXCEPT !.sent = @ + 1].exit = client[c].exit
          /\ [client[c] EXCEPT !.sent = @ + 1].stored = client[c].stored
      BY <1>2, <3>1, Zenon DEF ClientRuns
    <3>3. run = [client[c] EXCEPT !.sent = @ + 1]
      BY <2>1
    <3> QED
      BY <1>1, <3>2, <3>3
  <2>2. CASE ~more
    <3>1. /\ [client[c] EXCEPT !.pc = "waiting"] \in ClientRuns
          /\ [client[c] EXCEPT !.pc = "waiting"].pc = "waiting"
          /\ [client[c] EXCEPT !.pc = "waiting"].digest = client[c].digest
          /\ [client[c] EXCEPT !.pc = "waiting"].exit = client[c].exit
          /\ [client[c] EXCEPT !.pc = "waiting"].stored = client[c].stored
      BY <1>2, Zenon DEF ClientRuns
    <3>2. run = [client[c] EXCEPT !.pc = "waiting"]
      BY <2>2
    <3> QED
      BY <3>1, <3>2
  <2> QED
    BY <2>1, <2>2
<1>5. /\ client' = [client EXCEPT ![c] = run]
      /\ conn[c].state = "open" => conn' = [conn EXCEPT ![c] = q]
      /\ conn[c].state # "open" => conn' = [conn EXCEPT ![c] = conn[c]]
  <2>1. conn \in [Clients -> Connections]
    BY DEF OtaInv, ConnTypes
  <2> QED
    BY <1>1, <2>1
<1> HIDE DEF item, run, more
<1>6. /\ Append(conn[c].items, item) \in Seq(Items)
      /\ Len(Append(conn[c].items, item)) = Len(conn[c].items) + 1
      /\ \A i \in 1 .. Len(conn[c].items) :
             Append(conn[c].items, item)[i] = conn[c].items[i]
      /\ Append(conn[c].items, item)[Len(conn[c].items) + 1] = item
      /\ Len(conn[c].items) \in Nat
  BY <1>2, <1>3, AppendProperties, LenProperties DEF Connections
<1>7. /\ q \in Connections /\ q.items = Append(conn[c].items, item)
      /\ q.state = conn[c].state
  BY <1>2, <1>6, Zenon DEF Connections
<1> HIDE DEF q
<1>8. CASE conn[c].state = "open"
  <2>1. Len(q.items) <= Window
    BY <1>1, <1>6, <1>7, OtaAssumption
  <2>2. Matches(run, q)
    <3>1. \A i \in 1 .. Len(q.items) :
              i \in 1 .. Len(conn[c].items) \/ i = Len(conn[c].items) + 1
      BY <1>6, <1>7
    <3>2. \A i \in 1 .. Len(q.items) :
              q.items[i] \in Headers => q.items[i] = Header(run.digest, Token)
      BY <1>2, <1>3, <1>4, <1>6, <1>7, <1>8, <3>1 DEF Matches
    <3> QED
      BY <1>2, <1>4, <1>7, <1>8, <3>2 DEF Matches
  <2> QED
    BY <1>1, <1>2, <1>4, <1>5, <1>7, <1>8, <2>1, <2>2, OneRun DEF Reaches
<1>9. CASE conn[c].state # "open"
  <2>1. Matches(run, conn[c]) /\ Len(conn[c].items) <= Window
    BY <1>1, <1>2, <1>4, <1>9 DEF Matches, OtaInv, ConnTypes
  <2> QED
    BY <1>1, <1>2, <1>4, <1>5, <1>9, <2>1, OneRun
<1> QED
  BY <1>8, <1>9

LEMMA ReceiveInv ==
    ASSUME OtaInv, NEW c \in Clients, Receive(c)
    PROVE  OtaInv'
<1>1. /\ ~Reaches(conn[c]) /\ file' = file
      /\ UNCHANGED <<backlog, nodeVars>>
      /\ conn' = [conn EXCEPT ![c] = NoConn]
  BY DEF Receive, Reaches
<1>2. Matches(client[c], conn[c])
  BY DEF OtaInv
<1>3. CASE conn[c].reply = 200
  BY <1>1, <1>2, <1>3, NewRecords, RunLeaves DEF Receive, Matches
<1>4. CASE Exit(c, "failure")
  BY <1>1, <1>4, NewRecords, RunLeaves
<1> QED
  BY <1>3, <1>4 DEF Receive

(* A run that gives up leaves what has reached the node.                    *)
LEMMA GiveUpInv ==
    ASSUME OtaInv, NEW c \in Clients, SendFails(c) \/ Break(c)
    PROVE  OtaInv'
<1>1. /\ Exit(c, "failure") /\ file' = file /\ UNCHANGED <<backlog, nodeVars>>
      /\ conn[c] \in Connections /\ Len(conn[c].items) <= Window
      /\ conn \in [Clients -> Connections] /\ Leave(c)
  BY DEF SendFails, Break, OtaInv, ConnTypes
<1>2. CASE conn[c].state \notin {"closed", "lost"}
  <2> DEFINE q == [conn[c] EXCEPT !.state = "cut"]
  <2>1. q \in Connections /\ q.state = "cut" /\ q.items = conn[c].items
    <3>1. "cut" \in ConnStates
      BY DEF ConnStates
    <3> QED
      BY <1>1, <3>1, Zenon DEF Connections
  <2>2. conn' = [conn EXCEPT ![c] = q]
    BY <1>1, <1>2 DEF Leave
  <2> HIDE DEF q
  <2> QED
    BY <1>1, <2>1, <2>2, RunLeaves
<1>3. CASE conn[c].state \in {"closed", "lost"}
  <2>1. conn' = [conn EXCEPT ![c] = NoConn]
    BY <1>1, <1>3 DEF Leave
  <2> QED
    BY <1>1, <1>3, <2>1, NewRecords, RunLeaves DEF Reaches
<1> QED
  BY <1>2, <1>3

(* What a connection becomes when it loses its link.                        *)
LEMMA LoseLinkInv ==
    ASSUME OtaInv, NEW c \in Clients, LoseLink(c)
    PROVE  OtaInv'
<1>1. /\ file' = file /\ client' = client /\ UNCHANGED <<backlog, nodeVars>>
      /\ conn[c] \in Connections /\ Len(conn[c].items) <= Window
      /\ conn \in [Clients -> Connections] /\ client \in [Clients -> ClientRuns]
      /\ Matches(client[c], conn[c]) /\ file \in StagedFiles
  BY DEF LoseLink, clientVars, OtaInv, ConnTypes, ClientTypes
<1>2. client' = [client EXCEPT ![c] = client[c]]
  BY <1>1
<1>3. ASSUME NEW n \in 0 .. Len(conn[c].items), conn[c].state \in {"open", "cut"},
             conn' = [conn EXCEPT ![c].items = SubSeq(@, 1, n),
                         ![c].state = IF @ = "open" THEN "silent" ELSE "cut"]
      PROVE  OtaInv'
  <2> DEFINE items == SubSeq(conn[c].items, 1, n)
             state == IF conn[c].state = "open" THEN "silent" ELSE "cut"
             q == [conn[c] EXCEPT !.items = items, !.state = state]
  <2>1. conn[c].items \in Seq(Items) /\ Len(conn[c].items) \in Nat
    BY <1>1, LenProperties DEF Connections
  <2>2. \A i \in 1 .. n : conn[c].items[i] \in Items
    BY <2>1, ElementOfSeq
  <2>3. items \in Seq(Items) /\ Len(items) = IF 1 <= n THEN n - 1 + 1 ELSE 0
    BY <2>1, <2>2, SubSeqProperties
  <2>4. Len(items) <= Window
    BY <1>1, <2>1, <2>3, OtaAssumption
  <2>5. conn' = [conn EXCEPT ![c] = q]
    <3> DEFINE first == [conn[c] EXCEPT !.items = items]
               h == [conn EXCEPT ![c] = first]
    <3>1. conn' = [h EXCEPT ![c].state = IF @ = "open" THEN "silent" ELSE "cut"]
      BY <1>3
    <3>2. first.state = conn[c].state
      BY <1>1 DEF Connections
    <3>3. h[c] = first /\ h[c].state = conn[c].state
      BY <1>1, <3>2
    <3>4. [first EXCEPT !.state = state] = q
      OBVIOUS
    <3> HIDE DEF first
    <3>5. conn' = [h EXCEPT ![c] = [first EXCEPT !.state = state]]
      BY <3>1, <3>3
    <3> HIDE DEF q
    <3> QED
      BY <1>1, <3>4, <3>5
  <2>6. state \in {"silent", "cut"} /\ state \in ConnStates
    BY DEF ConnStates
  <2> HIDE DEF items, state
  <2>7. q \in Connections /\ q.state = state /\ q.items = items
    BY <1>1, <2>3, <2>6, Zenon DEF Connections
  <2> HIDE DEF q
  <2>8. Matches(client[c], q) /\ Reaches(q) /\ q.state # "open"
    BY <1>1, <1>3, <2>6, <2>7, NewRecords DEF Matches, Reaches
  <2> QED
    BY <1>1, <1>2, <2>4, <2>5, <2>7, <2>8, OneRun
<1>4. CASE conn[c].state = "closed"
           /\ conn' = [conn EXCEPT ![c] = [NoConn EXCEPT !.state = "lost"]]
  <2> DEFINE q == [NoConn EXCEPT !.state = "lost"]
  <2>1. /\ q \in Connections /\ q.state = "lost" /\ q.items = NoConn.items
        /\ conn' = [conn EXCEPT ![c] = q]
    BY <1>4, LostRecord
  <2> HIDE DEF q
  <2>2. /\ Matches(client[c], q) /\ ~Reaches(conn[c]) /\ q.state # "open"
        /\ Len(q.items) <= Window
    BY <1>1, <1>4, <2>1, NewRecords DEF Matches, Reaches
  <2> QED
    BY <1>1, <1>2, <2>1, <2>2, OneRun
<1> QED
  BY <1>3, <1>4 DEF LoseLink

-----------------------------------------------------------------------------
(* EspOtaService.                                                           *)

LEMMA TakeClientInv == OtaInv /\ TakeClient => OtaInv'
<1> SUFFICES ASSUME OtaInv, TakeClient PROVE OtaInv'
  OBVIOUS
<1>1. /\ loopAt = "http" /\ backlog # <<>> /\ loopAt' = "header"
      /\ serving' = Head(backlog) /\ backlog' = Tail(backlog)
      /\ file' = file /\ client' = client /\ conn' = conn /\ ota' = ota
      /\ slots' = slots /\ active' = active /\ bootSlot' = bootSlot
      /\ named' = named
  BY DEF TakeClient, clientVars, flashVars
<1>2. backlog \in Seq(Clients) /\ Len(backlog) \in Nat \ {0}
  BY <1>1, EmptySeq DEF OtaInv, LoopTypes
<1>3. /\ serving' = backlog[1] /\ backlog[1] \in Clients
      /\ backlog' \in Seq(Clients) /\ Len(backlog') = Len(backlog) - 1
      /\ \A i \in 1 .. Len(backlog') : backlog'[i] = backlog[i + 1]
  BY <1>1, <1>2, HeadTailProperties, ElementOfSeq
<1>4. \A i \in 1 .. Len(backlog') : i + 1 \in 1 .. Len(backlog) /\ i + 1 # 1
  BY <1>2, <1>3
<1>5. /\ \A i \in 1 .. Len(backlog) : Reaches(conn[backlog[i]])
      /\ \A i, j \in 1 .. Len(backlog) : backlog[i] = backlog[j] => i = j
      /\ 1 \in 1 .. Len(backlog)
  BY <1>2 DEF OtaInv, Queue
<1>6. Queue'
  <2>1. \A i \in 1 .. Len(backlog') : Reaches(conn[backlog'[i]])
    BY <1>3, <1>4, <1>5
  <2>2. \A i, j \in 1 .. Len(backlog') : backlog'[i] = backlog'[j] => i = j
    <3> SUFFICES ASSUME NEW i \in 1 .. Len(backlog'), NEW j \in 1 .. Len(backlog'),
                        backlog'[i] = backlog'[j]
                 PROVE  i = j
      OBVIOUS
    <3>1. i + 1 = j + 1
      BY <1>3, <1>4, <1>5
    <3> QED
      BY <3>1
  <2>3. \A i \in 1 .. Len(backlog') : backlog'[i] # serving'
    BY <1>3, <1>4, <1>5
  <2> QED
    BY <1>1, <1>3, <1>5, <2>1, <2>2, <2>3 DEF Queue
<1>7. ClientTypes' /\ ConnTypes' /\ FlashTypes' /\ Flash'
  BY <1>1 DEF OtaInv, ClientTypes, ConnTypes, FlashTypes, Flash
<1>8. LoopTypes' /\ Upload'
  BY <1>1, <1>3 DEF OtaInv, LoopTypes, Upload
<1>9. \A c \in Clients : Matches(client'[c], conn'[c])
  BY <1>1 DEF OtaInv
<1> QED
  BY <1>6, <1>7, <1>8, <1>9 DEF OtaInv

(* Steps that only move the loop, or nothing the invariant speaks of.       *)
LEMMA LoopMoves ==
    ASSUME OtaInv, UNCHANGED <<clientVars, conn, backlog, serving, flashVars, named>>,
           \/ loopAt' = loopAt
           \/ loopAt' \in {"http", "timer"},
           ota' = ota
    PROVE  OtaInv'
<1>1. /\ file' = file /\ client' = client /\ conn' = conn /\ backlog' = backlog
      /\ serving' = serving /\ slots' = slots /\ active' = active
      /\ bootSlot' = bootSlot /\ named' = named /\ ota' = ota
  BY DEF clientVars, flashVars
<1>2. ClientTypes' /\ ConnTypes' /\ FlashTypes' /\ Flash' /\ LoopTypes'
  BY <1>1 DEF OtaInv, ClientTypes, ConnTypes, FlashTypes, Flash, LoopTypes
<1>3. \A c \in Clients : Matches(client'[c], conn'[c])
  BY <1>1 DEF OtaInv
<1>4. Queue'
  BY <1>1 DEF OtaInv, Queue, Serves
<1>5. Upload'
  BY <1>1 DEF OtaInv, Upload
<1> QED
  BY <1>2, <1>3, <1>4, <1>5 DEF OtaInv

(* The next item of the served connection is taken off.                     *)
LEMMA NextItemFacts ==
    ASSUME OtaInv, Serves, NEW kind, NextItem(kind)
    PROVE  /\ ConnTypes' /\ serving \in Clients
           /\ Head(conn[serving].items) \in Items
           /\ Head(conn[serving].items)[1] = kind
           /\ conn[serving].state = "open"
                  /\ Head(conn[serving].items) \in Headers
              => Head(conn[serving].items)
                     = Header(client[serving].digest, Token)
           /\ \A c \in Clients : conn'[c].state = conn[c].state
           /\ \A c \in Clients : Matches(client[c], conn'[c])
<1> DEFINE items == conn[serving].items
           q == [conn[serving] EXCEPT !.items = Tail(@)]
<1>1. /\ serving \in Clients /\ Reaches(conn[serving])
      /\ conn \in [Clients -> Connections]
      /\ \A c \in Clients : Matches(client[c], conn[c])
      /\ \A c \in Clients : Len(conn[c].items) <= Window
  BY DEF OtaInv, Queue, ConnTypes
<1>2. /\ items # <<>> /\ Head(items)[1] = kind
      /\ conn' = [conn EXCEPT ![serving] = q]
  BY DEF NextItem
<1>3. items \in Seq(Items) /\ Len(items) \in Nat \ {0}
  BY <1>1, <1>2, EmptySeq DEF Connections
<1>4. /\ Head(items) \in Items /\ Tail(items) \in Seq(Items)
      /\ Head(items) = items[1] /\ Len(Tail(items)) = Len(items) - 1
      /\ \A i \in 1 .. Len(Tail(items)) : Tail(items)[i] = items[i + 1]
  BY <1>2, <1>3, HeadTailProperties
<1>5. q \in Connections /\ q.items = Tail(items) /\ q.state = conn[serving].state
      /\ q.reply = conn[serving].reply
  <2>1. conn[serving] \in Connections
    BY <1>1
  <2>2. Tail(conn[serving].items) \in Seq(Items)
    BY <1>4
  <2> QED
    BY <2>1, <2>2, Zenon DEF Connections
<1>6. Len(q.items) <= Window
  BY <1>1, <1>3, <1>4, <1>5, OtaAssumption
<1> HIDE DEF q
<1>7. /\ conn' \in [Clients -> Connections] /\ conn'[serving] = q
      /\ \A c \in Clients \ {serving} : conn'[c] = conn[c]
  BY <1>1, <1>2, <1>5
<1>8. ConnTypes' /\ \A c \in Clients : conn'[c].state = conn[c].state
  BY <1>1, <1>5, <1>6, <1>7 DEF ConnTypes
<1>9. Matches(client[serving], q)
  <2>1. conn[serving] # NoConn /\ conn[serving].state # "closed" /\ q # NoConn
    BY <1>1, <1>5, NewRecords DEF Reaches
  <2>2. \A i \in 1 .. Len(q.items) :
            i + 1 \in 1 .. Len(items) /\ q.items[i] = items[i + 1]
    BY <1>3, <1>4, <1>5
  <2> QED
    BY <1>1, <1>5, <2>1, <2>2 DEF Matches
<1>10. conn[serving].state = "open" /\ Head(items) \in Headers =>
           Head(items) = Header(client[serving].digest, Token)
  BY <1>1, <1>3, <1>4 DEF Matches
<1> QED
  BY <1>1, <1>2, <1>4, <1>7, <1>8, <1>9, <1>10

(* The states of the connections, and the queue, are as they were.          *)
LEMMA QueueKept ==
    ASSUME OtaInv, UNCHANGED <<backlog, serving>>,
           \A c \in Clients : conn'[c].state = conn[c].state,
           Serves' => Serves
    PROVE  Queue'
<1>1. Queue /\ \A i \in 1 .. Len(backlog) : backlog[i] \in Clients
  BY ElementOfSeq DEF OtaInv, LoopTypes
<1> QED
  BY <1>1 DEF Queue, Reaches

LEMMA UploadStartInv == OtaInv /\ UploadStart => OtaInv'
<1> SUFFICES ASSUME OtaInv, UploadStart PROVE OtaInv'
  OBVIOUS
<1> DEFINE header == Head(conn[serving].items)
           authorized == RequestAuthorized(serving, header[3])
<1>1. /\ loopAt = "header" /\ NextItem("header") /\ loopAt' = "body"
      /\ file' = file /\ client' = client /\ backlog' = backlog
      /\ serving' = serving /\ slots' = slots /\ active' = active
      /\ bootSlot' = bootSlot
      /\ \/ ota' = Begun(authorized, header[2])
         \/ FlashFails /\ ota' = Begun(FALSE, header[2])
      /\ named' = IF Genuine(serving, header[3])
                  THEN named \cup {header[2]} ELSE named
      /\ authorized => Genuine(serving, header[3])
  <2>1. authorized => Genuine(serving, header[3])
    BY DEF RequestAuthorized, Genuine
  <2> QED
    BY <2>1 DEF UploadStart, clientVars, flashVars
<1>2. Serves /\ Serves'
  BY <1>1 DEF Serves
<1>3. /\ ConnTypes' /\ serving \in Clients /\ header \in Items
      /\ header[1] = "header"
      /\ conn[serving].state = "open" /\ header \in Headers =>
             header = Header(client[serving].digest, Token)
      /\ \A c \in Clients : conn'[c].state = conn[c].state
      /\ \A c \in Clients : Matches(client[c], conn'[c])
  BY <1>1, <1>2, NextItemFacts
<1>4. header \in Headers /\ header[2] \in Digests
  BY <1>3, ItemFacts
<1>5. conn[serving].state = "open" => header[2] = client[serving].digest
  BY <1>3, <1>4, ItemFacts
<1>6. authorized \in BOOLEAN
  BY Zenon DEF RequestAuthorized
<1> HIDE DEF authorized, header
<1>7. ota \in OtaStates /\ MaxChunks \in Nat
  BY OtaAssumption DEF OtaInv, LoopTypes
<1>8. /\ ota' \in OtaStates /\ ota'.expected = header[2]
      /\ ota'.completed = FALSE /\ Len(ota'.received) = 0
      /\ ota'.accepted => authorized
  <2>1. CASE ota' = Begun(authorized, header[2])
    BY <1>4, <1>6, <1>7, <2>1, BegunRecord, Zenon
  <2>2. CASE ota' = Begun(FALSE, header[2])
    <3>1. FALSE \in BOOLEAN
      OBVIOUS
    <3> QED
      BY <1>4, <1>7, <2>2, <3>1, BegunRecord, Zenon
  <2> QED
    BY <1>1, <2>1, <2>2
<1>9. Len(ota'.received) <= MaxChunks
  BY <1>7, <1>8
<1>10. ClientTypes' /\ LoopTypes'
  BY <1>1, <1>8, <1>9 DEF OtaInv, ClientTypes, LoopTypes
<1>11. FlashTypes' /\ Flash'
  BY <1>1, <1>4, <1>8 DEF OtaInv, FlashTypes, Flash
<1>12. Queue'
  BY <1>1, <1>2, <1>3, QueueKept
<1>13. Upload'
  BY <1>1, <1>3, <1>5, <1>8 DEF Upload
<1>14. \A c \in Clients : Matches(client'[c], conn'[c])
  BY <1>1, <1>3
<1> QED
  BY <1>3, <1>10, <1>11, <1>12, <1>13, <1>14 DEF OtaInv

LEMMA SlotWrittenFacts ==
    ASSUME FlashTypes, slots[active] # Broken, SlotWritten
    PROVE  /\ slots' \in [{0, 1} -> Images \cup {Broken}]
           /\ active' = active /\ bootSlot' = bootSlot
           /\ slots'[active] = slots[active]
           /\ slots'[1 - active] \in {slots[1 - active], Broken}
<1>1. active \in {0, 1} /\ 1 - active \in {0, 1} /\ 1 - active # active
  BY DEF FlashTypes
<1>2. slots \in [{0, 1} -> Images \cup {Broken}]
  BY DEF FlashTypes
<1> QED
  BY <1>1, <1>2 DEF SlotWritten

LEMMA UploadWriteInv == OtaInv /\ UploadWrite => OtaInv'
<1> SUFFICES ASSUME OtaInv, UploadWrite PROVE OtaInv'
  OBVIOUS
<1> DEFINE data == Head(conn[serving].items)[2]
<1>1. /\ loopAt = "body" /\ NextItem("chunk") /\ loopAt' = "body"
      /\ file' = file /\ client' = client /\ backlog' = backlog
      /\ serving' = serving /\ named' = named
  BY DEF UploadWrite, clientVars
<1>2. Serves /\ Serves'
  BY <1>1 DEF Serves
<1>3. /\ ConnTypes' /\ serving \in Clients
      /\ Head(conn[serving].items) \in Items
      /\ Head(conn[serving].items)[1] = "chunk"
      /\ \A c \in Clients : conn'[c].state = conn[c].state
      /\ \A c \in Clients : Matches(client[c], conn'[c])
  BY <1>1, <1>2, NextItemFacts
<1>4. data \in Data
  BY <1>3, ItemFacts
<1> HIDE DEF data
<1>5. /\ ota \in OtaStates /\ Len(ota.received) <= MaxChunks /\ FlashTypes
      /\ slots[active] # Broken /\ Upload /\ MaxChunks \in Nat
      /\ ota.received \in Seq(Data) /\ Len(ota.received) \in Nat
  BY OtaAssumption, LenProperties DEF OtaInv, LoopTypes, Flash, OtaStates
<1>6. /\ slots' \in [{0, 1} -> Images \cup {Broken}]
      /\ active' = active /\ bootSlot' = bootSlot
      /\ slots'[active] # Broken
  <2>1. UNCHANGED flashVars \/ SlotWritten
    BY DEF UploadWrite
  <2> QED
    BY <1>5, <2>1, SlotWrittenFacts DEF flashVars, FlashTypes
<1>7. /\ ota' \in OtaStates /\ Len(ota'.received) <= MaxChunks
      /\ ota'.completed = ota.completed
      /\ ota'.accepted => ota.accepted /\ ota'.expected = ota.expected
  <2>1. CASE ota' = ota
    BY <1>5, <2>1
  <2>2. CASE /\ ota.accepted /\ Fits
             /\ ota' = [ota EXCEPT !.received = Append(@, data)]
    <3>1. /\ Append(ota.received, data) \in Seq(Data)
          /\ Len(Append(ota.received, data)) = Len(ota.received) + 1
      BY <1>4, <1>5, AppendProperties
    <3>2. Len(Append(ota.received, data)) <= MaxChunks
      BY <1>5, <2>2, <3>1 DEF Fits
    <3>3. /\ ota' \in OtaStates /\ ota'.received = Append(ota.received, data)
          /\ ota'.completed = ota.completed /\ ota'.expected = ota.expected
      BY <1>5, <2>2, <3>1, Zenon DEF OtaStates
    <3> QED
      BY <2>2, <3>2, <3>3
  <2>3. CASE ota' = Ended(ota)
    <3>1. /\ ota' \in OtaStates /\ ~ota'.accepted
          /\ ota'.completed = ota.completed
      BY <1>5, <2>3, UploadRecords, Zenon
    <3>2. Len(ota'.received) = 0
      BY <1>5, <2>3, UploadRecords, Zenon
    <3>3. Len(ota'.received) <= MaxChunks
      BY <1>5, <3>2
    <3> QED
      BY <3>1, <3>3
  <2> QED
    BY <2>1, <2>2, <2>3 DEF UploadWrite, data
<1>8. ClientTypes' /\ LoopTypes'
  BY <1>1, <1>7 DEF OtaInv, ClientTypes, LoopTypes
<1>9. FlashTypes' /\ Flash'
  BY <1>1, <1>6, <1>7 DEF OtaInv, FlashTypes, Flash
<1>10. Queue'
  BY <1>1, <1>2, <1>3, QueueKept
<1>11. Upload'
  BY <1>1, <1>3, <1>5, <1>7 DEF Upload
<1>12. \A c \in Clients : Matches(client'[c], conn'[c])
  BY <1>1, <1>3
<1> QED
  BY <1>3, <1>8, <1>9, <1>10, <1>11, <1>12 DEF OtaInv

(* An upload with the announced digest is a staged file as a whole: SHA-256 *)
(* is taken as injective.                                                   *)
LEMMA VerifiedFacts ==
    ASSUME OtaInv, Verified
    PROVE  /\ ota.received \in Images /\ ota.received # Broken
           /\ Sha256(ota.received) = ota.expected
<1>1. /\ ota.received # <<>> /\ Sha256(ota.received) = ota.expected
      /\ ota.expected \in Digests /\ ota.received \in Seq(Data)
      /\ Len(ota.received) <= MaxChunks
  BY DEF Verified, OtaInv, LoopTypes, OtaStates
<1>2. ota.expected # NoKey
  BY <1>1, DigestFacts
<1>3. PICK f \in StagedFiles : ota.expected = Sha256(f)
  BY <1>1, <1>2 DEF Digests
<1>4. ota.received = f
  BY <1>1, <1>3, DigestFacts
<1>5. Len(ota.received) \in Nat \ {0}
  BY <1>1, EmptySeq
<1>6. Len(ota.received) \in 1 .. MaxChunks
  BY <1>1, <1>5, OtaAssumption
<1> QED
  BY <1>1, <1>3, <1>4, <1>6 DEF Images, Broken

(* Update.end: every run that announced this file has it stored.            *)
StoredNow(c) ==
    [client[c] EXCEPT !.stored = @ \/ client[c].digest = Sha256(ota.received)]

LEMMA StoredFacts ==
    ASSUME OtaInv, NEW c \in Clients
    PROVE  /\ StoredNow(c) \in ClientRuns
           /\ StoredNow(c).pc = client[c].pc /\ StoredNow(c).exit = client[c].exit
           /\ StoredNow(c).digest = client[c].digest
           /\ client[c].stored => StoredNow(c).stored
           /\ client[c].digest = Sha256(ota.received) => StoredNow(c).stored
<1>1. client[c] \in ClientRuns
  BY DEF OtaInv, ClientTypes
<1>2. (client[c].stored \/ client[c].digest = Sha256(ota.received)) \in BOOLEAN
  BY Zenon
<1>3. /\ StoredNow(c) \in ClientRuns
      /\ StoredNow(c).pc = client[c].pc /\ StoredNow(c).exit = client[c].exit
      /\ StoredNow(c).digest = client[c].digest
      /\ StoredNow(c).stored
             = (client[c].stored \/ client[c].digest = Sha256(ota.received))
  BY <1>1, <1>2, Zenon DEF StoredNow, ClientRuns
<1> QED
  BY <1>3, Zenon

LEMMA UploadEndInv == OtaInv /\ UploadEnd => OtaInv'
<1> SUFFICES ASSUME OtaInv, UploadEnd PROVE OtaInv'
  OBVIOUS
<1>1. /\ loopAt = "body" /\ NextItem("end") /\ loopAt' = "result"
      /\ file' = file /\ backlog' = backlog /\ serving' = serving
      /\ named' = named
  BY DEF UploadEnd
<1>2. Serves /\ Serves'
  BY <1>1 DEF Serves
<1>3. /\ ConnTypes' /\ serving \in Clients
      /\ \A c \in Clients : conn'[c].state = conn[c].state
      /\ \A c \in Clients : Matches(client[c], conn'[c])
  BY <1>1, <1>2, NextItemFacts
<1>4. /\ ota \in OtaStates /\ FlashTypes /\ slots[active] # Broken /\ Upload
      /\ ~ota.completed /\ MaxChunks \in Nat /\ file \in StagedFiles
      /\ client \in [Clients -> ClientRuns] /\ Flash
  BY <1>1, OtaAssumption DEF OtaInv, LoopTypes, Flash, Upload, ClientTypes
<1>5. Queue'
  BY <1>1, <1>2, <1>3, QueueKept
<1>6. CASE /\ ota.accepted /\ Verified /\ UpdateEnd
           /\ ota' = [Ended(ota) EXCEPT !.completed = TRUE]
           /\ client' = [c \in Clients |-> StoredNow(c)]
  <2>1. /\ ota.received \in Images /\ ota.received # Broken
        /\ Sha256(ota.received) = ota.expected
    BY <1>6, VerifiedFacts
  <2>2. /\ client' \in [Clients -> ClientRuns]
        /\ \A c \in Clients : client'[c] = StoredNow(c)
    BY <1>6, StoredFacts
  <2>3. \A c \in Clients : Matches(client'[c], conn'[c])
    <3> SUFFICES ASSUME NEW c \in Clients PROVE Matches(client'[c], conn'[c])
      OBVIOUS
    <3>1. /\ client'[c].pc = client[c].pc /\ client'[c].exit = client[c].exit
          /\ client'[c].digest = client[c].digest
          /\ client[c].stored => client'[c].stored
      BY <2>2, StoredFacts
    <3>2. Matches(client[c], conn'[c])
      BY <1>3
    <3> QED
      BY <3>1, <3>2 DEF Matches
  <2>4. conn'[serving].state = "open" => client'[serving].stored
    <3>1. conn[serving].state = "open" => ota.expected = client[serving].digest
      BY <1>1, <1>4, <1>6 DEF Upload
    <3> QED
      BY <1>3, <2>1, <2>2, <3>1, StoredFacts
  <2>5. ota' \in OtaStates /\ ~ota'.accepted /\ ota'.received = <<>>
    BY <1>4, <1>6, UploadRecords, Zenon
  <2>6. LoopTypes'
    <3>1. Len(ota'.received) <= MaxChunks
      BY <1>4, <2>5, EmptySeq
    <3> QED
      BY <1>1, <2>5, <3>1 DEF OtaInv, LoopTypes
  <2>7. /\ slots' = [slots EXCEPT ![1 - active] = ota.received]
        /\ bootSlot' = 1 - active /\ active' = active
    BY <1>6 DEF UpdateEnd
  <2>8. 1 - active \in {0, 1} /\ 1 - active # active /\ active \in {0, 1}
    BY <1>4 DEF FlashTypes
  <2>9. FlashTypes' /\ Flash'
    BY <1>1, <1>4, <2>1, <2>5, <2>7, <2>8 DEF FlashTypes, Flash
  <2>10. ClientTypes' /\ Upload'
    BY <1>1, <1>4, <2>2, <2>4 DEF ClientTypes, Upload
  <2> QED
    BY <1>3, <1>5, <2>3, <2>6, <2>9, <2>10 DEF OtaInv
<1>7. CASE ota' = Ended(ota) /\ client' = client /\ (UNCHANGED flashVars \/ SlotWritten)
  <2>1. /\ ota' \in OtaStates /\ ~ota'.accepted /\ ota'.received = <<>>
        /\ ~ota'.completed
    BY <1>4, <1>7, UploadRecords, Zenon
  <2>2. LoopTypes'
    <3>1. Len(ota'.received) <= MaxChunks
      BY <1>4, <2>1, EmptySeq
    <3> QED
      BY <1>1, <2>1, <3>1 DEF OtaInv, LoopTypes
  <2>3. /\ slots' \in [{0, 1} -> Images \cup {Broken}]
        /\ active' = active /\ bootSlot' = bootSlot
        /\ slots'[active] # Broken
    BY <1>4, <1>7, SlotWrittenFacts DEF flashVars, FlashTypes
  <2>4. FlashTypes' /\ Flash'
    BY <1>1, <1>4, <2>1, <2>3 DEF FlashTypes, Flash
  <2>5. ClientTypes' /\ Upload' /\ \A c \in Clients : Matches(client'[c], conn'[c])
    BY <1>1, <1>3, <1>4, <1>7, <2>1 DEF ClientTypes, Upload
  <2> QED
    BY <1>3, <1>5, <2>2, <2>4, <2>5 DEF OtaInv
<1> QED
  BY <1>6, <1>7 DEF UploadEnd, StoredNow

(* The served connection is closed, with 200 only if the file of the run    *)
(* that still holds its other end is stored.                                *)
LEMMA CloseInv ==
    ASSUME OtaInv, Serves, NEW reply \in {0, 200, 422}, Close(reply),
           reply = 200 /\ conn[serving].state = "open" => client[serving].stored,
           ota' \in OtaStates, Len(ota'.received) <= MaxChunks,
           ota'.accepted => ota.accepted /\ ota'.expected = ota.expected,
           UNCHANGED <<clientVars, backlog, flashVars, named>>
    PROVE  OtaInv'
<1>1. /\ file' = file /\ client' = client /\ backlog' = backlog
      /\ slots' = slots /\ active' = active /\ bootSlot' = bootSlot
      /\ named' = named /\ serving' = NoClient /\ loopAt' = "timer"
  BY DEF clientVars, flashVars, Close
<1>2. /\ serving \in Clients /\ Reaches(conn[serving]) /\ Queue
      /\ conn \in [Clients -> Connections] /\ client \in [Clients -> ClientRuns]
      /\ \A c \in Clients : Matches(client[c], conn[c])
      /\ \A c \in Clients : Len(conn[c].items) <= Window
      /\ \A i \in 1 .. Len(backlog) : backlog[i] \in Clients /\ backlog[i] # serving
  BY ElementOfSeq DEF OtaInv, Queue, ConnTypes, ClientTypes, LoopTypes
<1> DEFINE q == CASE conn[serving].state = "cut" -> NoConn
                  [] conn[serving].state = "silent" -> [NoConn EXCEPT !.state = "lost"]
                  [] OTHER -> [NoConn EXCEPT !.state = "closed", !.reply = reply]
<1>3. conn' = [conn EXCEPT ![serving] = q]
  BY DEF Close
<1>4. Len(NoConn.items) <= Window
  BY NewRecords
<1>5. /\ q \in Connections /\ Len(q.items) <= Window
      /\ \/ q = NoConn \/ q.state = "lost"
         \/ /\ conn[serving].state = "open"
            /\ q.state = "closed" /\ q.reply = reply
  <2> DEFINE closed == [NoConn EXCEPT !.state = "closed", !.reply = reply]
  <2>1. /\ closed \in Connections /\ closed.state = "closed"
        /\ closed.reply = reply /\ closed.items = NoConn.items
    BY ClosedRecord
  <2>2. CASE conn[serving].state = "cut"
    <3>1. q = NoConn
      BY <2>2
    <3> QED
      BY <1>4, <3>1, NewRecords
  <2>3. CASE conn[serving].state = "silent"
    <3>1. q = [NoConn EXCEPT !.state = "lost"]
      BY <2>3
    <3> QED
      BY <1>4, <3>1, LostRecord
  <2>4. CASE conn[serving].state = "open"
    <3>1. q = closed
      BY <2>4
    <3> HIDE DEF closed, q
    <3> QED
      BY <1>4, <2>1, <2>4, <3>1
  <2> QED
    BY <1>2, <2>2, <2>3, <2>4 DEF Reaches
<1> HIDE DEF q
<1>6. /\ conn' \in [Clients -> Connections] /\ conn'[serving] = q
      /\ \A c \in Clients \ {serving} : conn'[c] = conn[c]
  BY <1>2, <1>3, <1>5
<1>7. Matches(client[serving], q)
  <2>1. conn[serving] # NoConn
    BY <1>2, NewRecords DEF Reaches
  <2>2. client[serving].pc \notin {"sized", "hashed"} /\
            (client[serving].exit = "success" => client[serving].stored)
    BY <1>2, <2>1 DEF Matches
  <2> QED
    BY <1>5, <2>2, NewRecords DEF Matches
<1>8. \A c \in Clients : Matches(client'[c], conn'[c])
  BY <1>1, <1>2, <1>6, <1>7
<1>9. ClientTypes' /\ ConnTypes'
  BY <1>1, <1>2, <1>5, <1>6 DEF OtaInv, ClientTypes, ConnTypes
<1>10. LoopTypes' /\ FlashTypes' /\ Flash'
  BY <1>1 DEF OtaInv, LoopTypes, FlashTypes, Flash
<1>11. Queue'
  BY <1>1, <1>2, <1>6 DEF Queue, Serves
<1>12. Upload'
  BY <1>1 DEF Upload
<1> QED
  BY <1>8, <1>9, <1>10, <1>11, <1>12 DEF OtaInv

LEMMA ClosingInv ==
    OtaInv /\ (NoRequest \/ UploadAborted \/ HandleResult) => OtaInv'
<1> SUFFICES ASSUME OtaInv, NoRequest \/ UploadAborted \/ HandleResult
             PROVE  OtaInv'
  OBVIOUS
<1>1. /\ ota \in OtaStates /\ Len(ota.received) <= MaxChunks
      /\ MaxChunks \in Nat /\ Upload
  BY OtaAssumption DEF OtaInv, LoopTypes
<1>2. CASE NoRequest
  <2>1. Serves /\ Close(0) /\ ota' = ota
        /\ UNCHANGED <<clientVars, backlog, flashVars, named>>
    BY <1>2 DEF NoRequest, Serves
  <2> QED
    BY <1>1, <2>1, CloseInv
<1>3. CASE UploadAborted
  <2>1. Serves /\ Close(0) /\ ota' = Ended(ota)
        /\ UNCHANGED <<clientVars, backlog, flashVars, named>>
    BY <1>3 DEF UploadAborted, Serves
  <2>2. ota' \in OtaStates /\ ~ota'.accepted /\ ota'.received = <<>>
    BY <1>1, <2>1, UploadRecords, Zenon
  <2>3. Len(ota'.received) <= MaxChunks
    BY <1>1, <2>2, EmptySeq
  <2> QED
    BY <2>1, <2>2, <2>3, CloseInv
<1>4. CASE HandleResult
  <2>1. /\ Serves /\ loopAt = "result"
        /\ UNCHANGED <<clientVars, backlog, flashVars, named>>
    BY <1>4 DEF HandleResult, Serves
  <2>2. CASE ota.completed
    <3>1. Close(200) /\ ota' = [ota EXCEPT !.restartPending = TRUE]
      BY <1>4, <2>2 DEF HandleResult
    <3>2. conn[serving].state = "open" => client[serving].stored
      BY <1>1, <2>1, <2>2 DEF Upload
    <3>3. /\ ota' \in OtaStates /\ ota'.received = ota.received
          /\ ota'.accepted = ota.accepted /\ ota'.expected = ota.expected
      BY <1>1, <3>1, UploadRecords, Zenon
    <3> QED
      BY <1>1, <2>1, <3>1, <3>2, <3>3, CloseInv
  <2>3. CASE ~ota.completed
    <3>1. Close(422) /\ ota' = ota
      BY <1>4, <2>3 DEF HandleResult
    <3> QED
      BY <1>1, <2>1, <3>1, CloseInv
  <2> QED
    BY <2>2, <2>3
<1> QED
  BY <1>2, <1>3, <1>4

(* A boot ends every connection and starts a slot that is whole.            *)
LEMMA BootInv == OtaInv /\ Boot => OtaInv'
<1> SUFFICES ASSUME OtaInv, Boot PROVE OtaInv'
  OBVIOUS
<1>1. /\ file' = file /\ client' = client /\ slots' = slots
      /\ bootSlot' = bootSlot /\ named' = named /\ ota' = NewOta
      /\ serving' = NoClient /\ loopAt' = "http" /\ backlog' = <<>>
      /\ active' = IF slots[bootSlot] # Broken THEN bootSlot ELSE 1 - bootSlot
  BY DEF Boot, clientVars
<1>2. /\ conn \in [Clients -> Connections]
      /\ \A c \in Clients : Matches(client[c], conn[c])
      /\ \A c \in Clients : Len(conn[c].items) <= Window
  BY DEF OtaInv, ConnTypes
<1>3. ASSUME NEW c \in Clients
      PROVE  /\ conn'[c] \in Connections /\ Len(conn'[c].items) <= Window
             /\ Matches(client[c], conn'[c])
  <2> DEFINE lost == [NoConn EXCEPT !.state = "lost"]
  <2>1. lost \in Connections /\ lost.state = "lost" /\ lost.items = NoConn.items
    BY LostRecord
  <2>2. CASE conn[c].state \in {"open", "silent"}
    <3>1. conn'[c] = lost
      BY <2>2 DEF Boot
    <3>2. client[c].pc \notin {"sized", "hashed"}
      BY <1>2, <2>2, NewRecords DEF Matches
    <3> HIDE DEF lost
    <3> QED
      BY <1>2, <2>1, <3>1, <3>2, NewRecords DEF Matches
  <2>3. CASE conn[c].state = "cut"
    <3>1. conn'[c] = NoConn
      BY <2>3 DEF Boot
    <3> QED
      BY <1>2, <3>1, NewRecords DEF Matches
  <2>4. CASE conn[c].state \notin {"open", "silent", "cut"}
    <3>1. conn'[c] = conn[c]
      BY <2>4 DEF Boot
    <3> QED
      BY <1>2, <3>1
  <2> QED
    BY <2>2, <2>3, <2>4
<1>4. conn' = [c \in Clients |-> conn'[c]]
  BY DEF Boot
<1>5. ConnTypes'
  BY <1>3, <1>4 DEF ConnTypes
<1>6. active' \in {0, 1} /\ slots[active'] # Broken
  <2>1. /\ bootSlot \in {0, 1} /\ active \in {0, 1} /\ slots[active] # Broken
    BY DEF OtaInv, FlashTypes, Flash
  <2> QED
    BY <1>1, <2>1
<1>7. FlashTypes' /\ Flash'
  BY <1>1, <1>6, NewRecords DEF OtaInv, FlashTypes, Flash
<1>8. LoopTypes' /\ Len(backlog') = 0
  BY <1>1, NewRecords, EmptySeq DEF LoopTypes
<1>9. ClientTypes' /\ Queue' /\ Upload'
  BY <1>1, <1>8 DEF OtaInv, ClientTypes, Queue, Upload, Serves
<1>10. \A c \in Clients : Matches(client'[c], conn'[c])
  BY <1>1, <1>3
<1> QED
  BY <1>5, <1>7, <1>8, <1>9, <1>10 DEF OtaInv

LEMMA OtaInvariant == OtaSpec => []OtaInv
<1>1. OtaInv /\ [OtaNext]_otaVars => OtaInv'
  <2> SUFFICES ASSUME OtaInv, [OtaNext]_otaVars PROVE OtaInv'
    OBVIOUS
  <2>1. CASE UNCHANGED otaVars
    BY <2>1, LoopMoves DEF otaVars, nodeVars
  <2>2. ASSUME NEW c \in Clients, ClientStep(c) \/ Break(c) \/ LoseLink(c)
        PROVE  OtaInv'
    BY <2>2, CheckFileInv, HashFileInv, ConnectInv, SendInv, ReceiveInv,
       GiveUpInv, LoseLinkInv
       DEF ClientStep
  <2>3. CASE NodeStep
    <3>1. CASE NobodyWaits
      BY <3>1, LoopMoves DEF NobodyWaits
    <3>2. CASE RestartCheck
      BY <3>2, LoopMoves, BootInv DEF RestartCheck
    <3> QED
      BY <2>3, <3>1, <3>2, TakeClientInv, ClosingInv, UploadStartInv,
         UploadWriteInv, UploadEndInv DEF NodeStep
  <2>4. CASE RestartComesDue
    BY <2>4, LoopMoves DEF RestartComesDue
  <2>5. CASE Reset \/ SetKey \/ ClearKey
    BY <2>5, BootInv DEF Reset, SetKey, ClearKey
  <2>6. CASE SetRockPi
    BY <2>6, LoopMoves DEF SetRockPi
  <2> QED
    BY <2>1, <2>2, <2>3, <2>4, <2>5, <2>6, StageFileInv DEF OtaNext
<1> QED
  BY <1>1, OtaInitInv, PTL DEF OtaSpec

-----------------------------------------------------------------------------
(* The theorems.                                                            *)

(* The node's slots hold whole images or nothing that can be booted, and a  *)
(* connection never holds more than its window, whatever fails.             *)
THEOREM OtaTypesSafe == OtaSpec => []OtaTypeOK
<1>1. OtaInv => OtaTypeOK
  BY TypesSuffice DEF OtaInv
<1> QED
  BY <1>1, OtaInvariant, PTL

(* A run of gridex_ota_apply that ends with 0 has had the file it hashed    *)
(* verified and selected for the next boot, although connections of runs    *)
(* that were given up are still served.                                     *)
THEOREM SuccessMeansStoredSafe == OtaSpec => []SuccessMeansStored
<1>1. OtaInv => SuccessMeansStored
  BY DEF OtaInv, Matches, SuccessMeansStored
<1> QED
  BY <1>1, OtaInvariant, PTL

NamedImages == {f \in Images : Sha256(f) \in named}

(* A step of the update that the abstract specification does not see.       *)
LEMMA Unseen ==
    ASSUME UNCHANGED flashVars, UNCHANGED named
    PROVE  UNCHANGED Update!updateVars
BY DEF Update!updateVars, flashVars, Candidate

(* What announces a digest announces the image that has it, if there is one.*)
LEMMA NamingStep == OtaInv /\ UploadStart => [Update!UpdateNext]_(Update!updateVars)
<1> SUFFICES ASSUME OtaInv, UploadStart
             PROVE  [Update!UpdateNext]_(Update!updateVars)
  OBVIOUS
<1>1. UNCHANGED flashVars
  BY DEF UploadStart
<1>2. slots' = slots /\ active' = active /\ bootSlot' = bootSlot
      /\ Candidate' = Candidate /\ slots'[active'] = slots[active]
  BY <1>1 DEF flashVars, Candidate
<1>3. PICK digest : named' = named \/ named' = named \cup {digest}
  BY DEF UploadStart
<1>4. CASE NamedImages' = NamedImages
  BY <1>2, <1>4 DEF NamedImages, Update!updateVars
<1>5. CASE NamedImages' # NamedImages
  <2>1. named' = named \cup {digest}
    BY <1>3, <1>5 DEF NamedImages
  <2>2. PICK image \in Images : digest = Sha256(image)
    BY <1>5, <2>1 DEF NamedImages
  <2>3. \A f \in Images : Sha256(f) \in named' <=> (Sha256(f) \in named \/ f = image)
    BY <2>1, <2>2, DigestFacts
  <2>4. NamedImages' = NamedImages \cup {image}
    BY <2>2, <2>3 DEF NamedImages
  <2>5. Update!Name(image)
    BY <1>2, <2>4 DEF NamedImages, Update!Name
  <2> QED
    BY <2>2, <2>5 DEF Update!UpdateNext
<1> QED
  BY <1>4, <1>5

(* A write can only take the candidate away.                                *)
LEMMA WritingStep ==
    ASSUME OtaInv, SlotWritten, named' = named
    PROVE  [Update!UpdateNext]_(Update!updateVars)
<1>1. /\ active' = active /\ bootSlot' = bootSlot
      /\ slots'[active] = slots[active]
      /\ slots'[1 - active] \in {slots[1 - active], Broken}
      /\ active \in {0, 1} /\ bootSlot \in {0, 1}
  BY SlotWrittenFacts DEF OtaInv, Flash, FlashTypes
<1>2. Candidate' \in {Candidate, Broken}
  <2>1. CASE bootSlot = active
    BY <1>1, <2>1 DEF Candidate
  <2>2. CASE bootSlot = 1 - active
    BY <1>1, <2>2 DEF Candidate
  <2> QED
    BY <1>1, <2>1, <2>2
<1>3. CASE Candidate' = Candidate
  BY <1>1, <1>3 DEF Update!updateVars
<1>4. CASE Candidate' = Broken /\ Candidate # Broken
  BY <1>1, <1>4 DEF Update!UpdateNext, Update!Discard
<1> QED
  BY <1>2, <1>3, <1>4

(* What Update.end selects was announced.                                   *)
LEMMA InstallStep ==
    ASSUME OtaInv, ota.accepted, Verified, UpdateEnd, named' = named
    PROVE  [Update!UpdateNext]_(Update!updateVars)
<1>1. /\ ota.received \in Images /\ ota.received # Broken
      /\ Sha256(ota.received) \in named
  BY VerifiedFacts DEF OtaInv, Flash
<1>2. /\ slots \in [{0, 1} -> Images \cup {Broken}] /\ active \in {0, 1}
      /\ 1 - active \in {0, 1} /\ 1 - active # active
  BY DEF OtaInv, FlashTypes
<1>3. /\ slots' = [slots EXCEPT ![1 - active] = ota.received]
      /\ bootSlot' = 1 - active /\ active' = active
  BY DEF UpdateEnd
<1>4. Candidate' = ota.received /\ slots'[active'] = slots[active]
  BY <1>1, <1>2, <1>3 DEF Candidate
<1>5. Update!Install(ota.received)
  BY <1>1, <1>4 DEF Update!Install
<1> QED
  BY <1>1, <1>5 DEF Update!UpdateNext

(* A boot starts the candidate, or the image that ran before.               *)
LEMMA BootStep == OtaInv /\ Boot => [Update!UpdateNext]_(Update!updateVars)
<1> SUFFICES ASSUME OtaInv, Boot PROVE [Update!UpdateNext]_(Update!updateVars)
  OBVIOUS
<1>1. /\ slots' = slots /\ bootSlot' = bootSlot /\ named' = named
      /\ active' = IF slots[bootSlot] # Broken THEN bootSlot ELSE 1 - bootSlot
  BY DEF Boot
<1>2. /\ active \in {0, 1} /\ bootSlot \in {0, 1} /\ slots[active] # Broken
  BY DEF OtaInv, FlashTypes, Flash
<1>3. CASE Candidate # Broken
  <2>1. /\ bootSlot # active /\ slots[bootSlot] # Broken
        /\ Candidate = slots[bootSlot]
    BY <1>3 DEF Candidate
  <2>2. slots'[active'] = Candidate /\ Candidate' = Broken
    BY <1>1, <2>1 DEF Candidate
  <2>3. Update!Boot
    BY <1>1, <1>3, <2>2 DEF Update!Boot
  <2> QED
    BY <2>3 DEF Update!UpdateNext
<1>4. CASE Candidate = Broken
  <2>1. bootSlot = active \/ slots[bootSlot] = Broken
    BY <1>4 DEF Candidate
  <2>2. active' = active
    BY <1>1, <1>2, <2>1
  <2> QED
    BY <1>1, <2>2, Unseen DEF flashVars
<1> QED
  BY <1>3, <1>4

LEMMA UpdateStep ==
    OtaInv /\ [OtaNext]_otaVars => [Update!UpdateNext]_(Update!updateVars)
<1> SUFFICES ASSUME OtaInv, [OtaNext]_otaVars
             PROVE  [Update!UpdateNext]_(Update!updateVars)
  OBVIOUS
<1>1. CASE UNCHANGED flashVars /\ UNCHANGED named
  BY <1>1, Unseen
<1>2. CASE UploadWrite
  BY <1>1, <1>2, WritingStep DEF UploadWrite
<1>3. CASE UploadEnd
  BY <1>1, <1>3, WritingStep, InstallStep DEF UploadEnd
<1>4. CASE UNCHANGED otaVars
  BY <1>1, <1>4 DEF otaVars, nodeVars
<1>5. ASSUME NEW c \in Clients, ClientStep(c) \/ Break(c) \/ LoseLink(c)
      PROVE  UNCHANGED flashVars /\ UNCHANGED named
  BY <1>5 DEF ClientStep, CheckFile, HashFile, Connect, Send, Receive,
              SendFails, Break, LoseLink, nodeVars
<1>6. CASE StageFile
  BY <1>1, <1>6 DEF StageFile, nodeVars
<1>7. CASE NodeStep
  BY <1>1, <1>2, <1>3, <1>7, NamingStep, BootStep
     DEF NodeStep, TakeClient, NobodyWaits, NoRequest, UploadAborted,
         HandleResult, RestartCheck
<1>8. CASE RestartComesDue \/ SetRockPi
  BY <1>1, <1>8 DEF RestartComesDue, SetRockPi
<1>9. CASE Reset \/ SetKey \/ ClearKey
  BY <1>9, BootStep DEF Reset, SetKey, ClearKey
<1> QED
  BY <1>1, <1>4, <1>5, <1>6, <1>7, <1>8, <1>9 DEF OtaNext

LEMMA UpdateStart == OtaInit => Update!UpdateInit
<1> SUFFICES ASSUME OtaInit PROVE Update!UpdateInit
  OBVIOUS
<1>1. slots[active] = FactoryImage /\ bootSlot = active /\ named = {}
  BY DEF OtaInit
<1> QED
  BY <1>1 DEF Update!UpdateInit, Candidate

(* The update implements the abstract one: through replaced files, broken   *)
(* connections, flash failures and resets at any moment, the node runs      *)
(* whole images only, changes image only at a boot, and only to one that a  *)
(* request from the configured source with the configured key has announced.*)
THEOREM UpdateIsAtomicSafe == OtaSpec => UpdateIsAtomic
<1>1. OtaSpec => [][Update!UpdateNext]_(Update!updateVars)
  BY UpdateStep, OtaInvariant, PTL DEF OtaSpec
<1> QED
  BY <1>1, UpdateStart, PTL DEF OtaSpec, UpdateIsAtomic, Update!UpdateSpec
=============================================================================
