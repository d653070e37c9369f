----------------------------- MODULE OtaUpdate -----------------------------
(***************************************************************************)
(* A firmware update of an ESP32 node: gridex_ota_apply on the ROCK Pi,    *)
(* which hashes a staged file and posts it, and EspOtaService on the node, *)
(* which checks the request, writes the inactive flash slot, compares the  *)
(* digest and restarts; with the serial console that stores the source     *)
(* address and the key.                                                    *)
(*                                                                         *)
(* A firmware image is a sequence of chunks.  SHA-256 is an injective      *)
(* function of its input.  A request is a sequence of items on a TCP       *)
(* connection: a header, the chunks and the end of the multipart body.     *)
(*                                                                         *)
(* External, modelled as the code uses them: WebServer, which serves one   *)
(* request at a time and gives up a silent client; Update, which writes    *)
(* the inactive slot through a buffer and selects it in Update.end; and    *)
(* the bootloader, which starts the selected slot, or the other one if     *)
(* the selected one is not whole.                                          *)
(***************************************************************************)
EXTENDS Naturals, Sequences

CONSTANTS
    Clients,         \* runs of gridex_ota_apply that can be under way
    ClientAddress,   \* the address each of them connects from
    Addresses,       \* addresses that "rockpi" can store
    Data,            \* chunks of an image
    StagedFiles,     \* contents of the staged firmware file
    FactoryImage,    \* the image the node was delivered with
    MaxChunks,       \* 3 MiB, for both ends
    Token,           \* the token in the file the clients read
    Tokens,          \* arguments of "ota-key"
    Window,          \* items that a connection holds at most
    OtaEvents        \* which of the events below occur

Events == {"stage", "break", "reset", "flash", "source", "key"}

ASSUME OtaAssumption ==
    /\ ClientAddress \in [Clients -> Addresses]
    /\ StagedFiles \subseteq Seq(Data)
    /\ FactoryImage \in Seq(Data) /\ FactoryImage # <<>>
    /\ MaxChunks \in Nat \ {0} /\ Window \in Nat \ {0}
    /\ OtaEvents \subseteq Events

VARIABLES
    file,        \* the staged firmware
    client,      \* the runs of gridex_ota_apply
    conn,        \* their connections to the node
    backlog,     \* connections that wait to be served, in order
    serving,     \* the connection handleClient works on
    loopAt,      \* where EspOtaService::loop is
    ota,         \* members of EspOtaService
    due,         \* has restartAtMs_ come?
    config,      \* config_ of EspOtaService
    nvs,         \* the same two entries in the flash of the node
    slots,       \* the two firmware slots
    active,      \* the slot that runs
    bootSlot,    \* the slot selected for the next boot
    named        \* history: digests of genuine requests

clientVars == <<file, client>>
flashVars == <<slots, active, bootSlot>>
nodeVars == <<serving, loopAt, ota, due, config, nvs, flashVars, named>>
otaVars == <<clientVars, conn, backlog, nodeVars>>

NoClient == "no client"
NoAddress == "no address"
NoKey == <<"no digest">>
Broken == <<>>

Sha256(value) == <<"sha256", value>>

Header(digest, token) == <<"header", digest, token>>
Chunk(data) == <<"chunk", data>>
BodyEnd == <<"end">>

NewClient == [pc |-> "idle", digest |-> NoKey, sent |-> 0,
              exit |-> "none", stored |-> FALSE]
NoConn == [items |-> <<>>, state |-> "none", reply |-> 0]
NewOta == [accepted |-> FALSE, completed |-> FALSE, expected |-> NoKey,
           received |-> <<>>, restartPending |-> FALSE]

(* EspOtaService::enabled.                                                  *)
Enabled(c) == c.rockpi # NoAddress /\ c.key # NoKey

(* What a slot can be made to boot: only files that were staged as a whole. *)
Images == {f \in StagedFiles : Len(f) \in 1 .. MaxChunks} \cup {FactoryImage}
Digests == {Sha256(f) : f \in StagedFiles} \cup {NoKey}

(* "cut": the client is gone.  "silent": nothing passes any more, and       *)
(* neither end knows.  "closed": the node has answered and closed.  "lost": *)
(* the node has closed or restarted, and the client will hear nothing.      *)
ConnStates == {"none", "open", "cut", "silent", "closed", "lost"}

(* Every variable has its type.                                             *)
OtaTypeOK ==
    /\ file \in StagedFiles
    /\ \A c \in Clients :
           /\ client[c].pc \in {"idle", "sized", "hashed", "sending", "waiting"}
           /\ client[c].digest \in Digests
           /\ client[c].exit \in {"none", "success", "failure"}
           /\ Len(conn[c].items) <= Window
           /\ conn[c].state \in ConnStates
           /\ conn[c].reply \in {0, 200, 422}
    /\ serving \in Clients \cup {NoClient}
    /\ loopAt \in {"http", "header", "body", "result", "timer"}
    /\ ota.expected \in Digests /\ Len(ota.received) <= MaxChunks
    /\ slots \in [{0, 1} -> Images \cup {Broken}]
    /\ active \in {0, 1} /\ bootSlot \in {0, 1} /\ named \subseteq Digests

OtaInit ==
    /\ file \in StagedFiles
    /\ client = [c \in Clients |-> NewClient]
    /\ conn = [c \in Clients |-> NoConn] /\ backlog = <<>>
    /\ serving = NoClient /\ loopAt = "http" /\ ota = NewOta /\ due = FALSE
    /\ nvs \in {[rockpi |-> NoAddress, key |-> NoKey]} \cup
               [rockpi : Addresses, key : {Sha256(Token)}]
    /\ config = nvs
    /\ slots = [s \in {0, 1} |-> IF s = 0 THEN FactoryImage ELSE Broken]
    /\ active = 0 /\ bootSlot = 0 /\ named = {}

-----------------------------------------------------------------------------
(* gridex_ota_apply.  The file can change at any time: between its size     *)
(* check and its hash, and while it is sent.                                *)

StageFile ==
    /\ "stage" \in OtaEvents
    /\ file' \in StagedFiles
    /\ UNCHANGED <<client, conn, backlog, nodeVars>>

(* The run ends; its memory of the file is gone.                            *)
Exit(c, status) ==
    client' = [client EXCEPT ![c] =
        [NewClient EXCEPT !.exit = status,
                          !.stored = status = "success" /\ client[c].stored]]

(* The size check.                                                          *)
CheckFile(c) ==
    /\ client[c].pc = "idle" /\ conn[c] = NoConn
    /\ \/ /\ Len(file) \in 1 .. MaxChunks
          /\ client' = [client EXCEPT ![c] = [NewClient EXCEPT !.pc = "sized"]]
       \/ Exit(c, "failure")
    /\ UNCHANGED <<file, conn, backlog, nodeVars>>

(* readToken and hashFile.  The token file may be missing or readable by    *)
(* others, and the firmware may be another than the one whose size was      *)
(* looked at.                                                               *)
HashFile(c) ==
    /\ client[c].pc = "sized"
    /\ \/ client' = [client EXCEPT ![c].pc = "hashed",
                                   ![c].digest = Sha256(file)]
       \/ Exit(c, "failure")
    /\ UNCHANGED <<file, conn, backlog, nodeVars>>

(* connectIpv4 and the first sendAll.  A node whose OTA is not configured   *)
(* does not listen, and any node can be out of reach.                       *)
Connect(c) ==
    /\ client[c].pc = "hashed"
    /\ \/ /\ Enabled(config)
          /\ client' = [client EXCEPT ![c].pc = "sending"]
          /\ conn' = [conn EXCEPT ![c] =
                 [NoConn EXCEPT !.state = "open",
                     !.items = <<Header(client[c].digest, Token)>>]]
          /\ backlog' = Append(backlog, c)
       \/ Exit(c, "failure") /\ UNCHANGED <<conn, backlog>>
    /\ UNCHANGED <<file, nodeVars>>

(* The next part of the file as it is now, or the end of the body.  What is *)
(* sent on a connection through which nothing passes goes nowhere.          *)
Send(c) ==
    /\ client[c].pc = "sending" /\ conn[c].state \in {"open", "silent", "lost"}
    /\ Len(conn[c].items) < Window
    /\ LET more == client[c].sent < Len(file)
           item == IF more THEN Chunk(file[client[c].sent + 1]) ELSE BodyEnd
       IN  /\ conn' = IF conn[c].state = "open"
                      THEN [conn EXCEPT ![c].items = Append(@, item)] ELSE conn
           /\ client' = IF more THEN [client EXCEPT ![c].sent = @ + 1]
                        ELSE [client EXCEPT ![c].pc = "waiting"]
    /\ UNCHANGED <<file, backlog, nodeVars>>

(* recv returns the status line, or nothing from a closed connection.  It   *)
(* has no timeout: on a silent connection it waits.                         *)
Receive(c) ==
    /\ client[c].pc = "waiting" /\ conn[c].state = "closed"
    /\ Exit(c, IF conn[c].reply = 200 THEN "success" ELSE "failure")
    /\ conn' = [conn EXCEPT ![c] = NoConn]
    /\ UNCHANGED <<file, backlog, nodeVars>>

(* The client's end of the connection is gone; what has reached the node    *)
(* can still be read there.                                                 *)
Leave(c) ==
    conn' = [conn EXCEPT ![c] =
        IF @.state \in {"closed", "lost"} THEN NoConn
        ELSE [@ EXCEPT !.state = "cut"]]

(* send fails because the node has closed the connection, or because TCP    *)
(* has given up to repeat what is never acknowledged.                       *)
SendFails(c) ==
    /\ client[c].pc = "sending" /\ conn[c].state \in {"silent", "closed", "lost"}
    /\ Exit(c, "failure") /\ Leave(c)
    /\ UNCHANGED <<file, backlog, nodeVars>>

(* The connection is aborted, or the run is ended.                          *)
Break(c) ==
    /\ "break" \in OtaEvents
    /\ client[c].pc \in {"sending", "waiting"}
    /\ Exit(c, "failure") /\ Leave(c)
    /\ UNCHANGED <<file, backlog, nodeVars>>

(* Some of what was sent, or the answer, is lost on the way, and with it    *)
(* everything after it; the client is not told.                             *)
LoseLink(c) ==
    /\ "break" \in OtaEvents
    /\ \/ /\ conn[c].state \in {"open", "cut"}
          /\ \E n \in 0 .. Len(conn[c].items) :
                 conn' = [conn EXCEPT ![c].items = SubSeq(@, 1, n),
                             ![c].state = IF @ = "open" THEN "silent" ELSE "cut"]
       \/ /\ conn[c].state = "closed"
          /\ conn' = [conn EXCEPT ![c] = [NoConn EXCEPT !.state = "lost"]]
    /\ UNCHANGED <<clientVars, backlog, nodeVars>>

-----------------------------------------------------------------------------
(* EspOtaService.  Its loop serves at most one request, from its header to  *)
(* its answer, and then looks whether a restart is due.                     *)

TakeClient ==
    /\ loopAt = "http" /\ backlog # <<>>
    /\ serving' = Head(backlog) /\ backlog' = Tail(backlog)
    /\ loopAt' = "header"
    /\ UNCHANGED <<clientVars, conn, ota, due, config, nvs, flashVars, named>>

NobodyWaits ==
    /\ loopAt = "http" /\ backlog = <<>>
    /\ loopAt' = "timer"
    /\ UNCHANGED <<clientVars, conn, backlog, serving, ota, due, config, nvs,
                   flashVars, named>>

NextItem(kind) ==
    /\ conn[serving].items # <<>> /\ Head(conn[serving].items)[1] = kind
    /\ conn' = [conn EXCEPT ![serving].items = Tail(@)]

(* The connection has no more items for now; WebServer stops waiting.       *)
Silent == conn[serving].items = <<>>

(* What is left of an upload that no longer counts: the next one begins by  *)
(* overwriting the rest.                                                    *)
Ended(o) == [o EXCEPT !.accepted = FALSE, !.expected = NoKey, !.received = <<>>]

(* The node's end of the served connection is closed after "reply".         *)
Close(reply) ==
    /\ conn' = [conn EXCEPT ![serving] =
           CASE @.state = "cut" -> NoConn
             [] @.state = "silent" -> [NoConn EXCEPT !.state = "lost"]
             [] OTHER -> [NoConn EXCEPT !.state = "closed", !.reply = reply]]
    /\ serving' = NoClient /\ loopAt' = "timer"

FlashFails == "flash" \in OtaEvents

(* Faulty variants: the address is not compared; the token is not.          *)
RequestAuthorizedAnySource(c, token) ==
    Enabled(config) /\ Sha256(token) = config.key

RequestAuthorizedAnyToken(c, token) ==
    Enabled(config) /\ ClientAddress[c] = config.rockpi

RequestAuthorized(c, token) ==
    /\ Enabled(config) /\ ClientAddress[c] = config.rockpi
    /\ Sha256(token) = config.key

(* History: what a request must be for the digest it names to count.        *)
Genuine(c, token) ==
    <<config.rockpi, config.key>> = <<ClientAddress[c], Sha256(token)>>

(* Faulty variant: the outcome of the previous upload is not reset.         *)
BegunNoReset(accepted, digest) ==
    [ota EXCEPT !.accepted = accepted, !.expected = digest, !.received = <<>>]

Begun(accepted, digest) ==
    [ota EXCEPT !.accepted = accepted, !.completed = FALSE,
                !.expected = digest, !.received = <<>>]

(* handleUpload, UPLOAD_FILE_START.  Update.begin can fail.                 *)
UploadStart ==
    /\ loopAt = "header" /\ NextItem("header")
    /\ LET header == Head(conn[serving].items)
           authorized == RequestAuthorized(serving, header[3])
       IN  /\ \/ ota' = Begun(authorized, header[2])
              \/ FlashFails /\ ota' = Begun(FALSE, header[2])
           /\ named' = IF Genuine(serving, header[3])
                        THEN named \cup {header[2]} ELSE named
    /\ loopAt' = "body"
    /\ UNCHANGED <<clientVars, backlog, serving, due, config, nvs, flashVars>>

(* A connection without a request.                                          *)
NoRequest ==
    /\ loopAt = "header" /\ Silent
    /\ Close(0)
    /\ UNCHANGED <<clientVars, backlog, ota, due, config, nvs, flashVars, named>>

(* A write goes through a buffer: it may leave the slot alone or begin to   *)
(* overwrite it, and the slot cannot be booted before Update.end.           *)
SlotWritten ==
    /\ slots' \in {slots, [slots EXCEPT ![1 - active] = Broken]}
    /\ UNCHANGED <<active, bootSlot>>

(* Faulty variant: the limit is off by one.                                 *)
FitsOneMore == Len(ota.received) <= MaxChunks

Fits == Len(ota.received) < MaxChunks

(* handleUpload, UPLOAD_FILE_WRITE.                                         *)
UploadWrite ==
    /\ loopAt = "body" /\ NextItem("chunk")
    /\ \/ ~ota.accepted /\ UNCHANGED <<ota, flashVars>>
       \/ /\ ota.accepted /\ Fits
          /\ ota' = [ota EXCEPT !.received =
                         Append(@, Head(conn[serving].items)[2])]
          /\ SlotWritten
       \/ /\ ota.accepted /\ ~Fits
          /\ ota' = Ended(ota) /\ UNCHANGED flashVars
       \/ /\ ota.accepted /\ FlashFails
          /\ ota' = Ended(ota) /\ SlotWritten
    /\ UNCHANGED <<clientVars, backlog, serving, loopAt, due, config, nvs, named>>

(* Faulty variant: the digest is not compared.                              *)
VerifiedAnyDigest == ota.received # <<>>

Verified == ota.received # <<>> /\ Sha256(ota.received) = ota.expected

(* Update.end: the slot is whole and selected for the next boot.            *)
UpdateEnd ==
    /\ slots' = [slots EXCEPT ![1 - active] = ota.received]
    /\ bootSlot' = 1 - active
    /\ UNCHANGED active

(* handleUpload, UPLOAD_FILE_END.                                           *)
UploadEnd ==
    /\ loopAt = "body" /\ NextItem("end")
    /\ \/ /\ ota.accepted /\ Verified
          /\ UpdateEnd
          /\ ota' = [Ended(ota) EXCEPT !.completed = TRUE]
          /\ client' = [c \in Clients |->
                 [client[c] EXCEPT !.stored =
                     @ \/ client[c].digest = Sha256(ota.received)]]
       \/ /\ ota.accepted /\ Verified /\ FlashFails
          /\ ota' = Ended(ota) /\ SlotWritten /\ UNCHANGED client
       \/ /\ ~(ota.accepted /\ Verified)
          /\ ota' = Ended(ota) /\ UNCHANGED <<flashVars, client>>
    /\ loopAt' = "result"
    /\ UNCHANGED <<file, backlog, serving, due, config, nvs, named>>

(* handleUpload, UPLOAD_FILE_ABORTED: no answer is sent.                    *)
UploadAborted ==
    /\ loopAt = "body" /\ Silent
    /\ ota' = Ended(ota)
    /\ Close(0)
    /\ UNCHANGED <<clientVars, backlog, due, config, nvs, flashVars, named>>

(* Faulty variant: a refused upload is not answered.                        *)
HandleResultSilent ==
    /\ loopAt = "result"
    /\ IF ota.completed
       THEN /\ ota' = [ota EXCEPT !.restartPending = TRUE] /\ due' = FALSE
            /\ Close(200)
       ELSE /\ serving' = NoClient /\ loopAt' = "timer"
            /\ UNCHANGED <<conn, ota, due>>
    /\ UNCHANGED <<clientVars, backlog, config, nvs, flashVars, named>>

HandleResult ==
    /\ loopAt = "result"
    /\ Close(IF ota.completed THEN 200 ELSE 422)
    /\ IF ota.completed
       THEN ota' = [ota EXCEPT !.restartPending = TRUE] /\ due' = FALSE
       ELSE UNCHANGED <<ota, due>>
    /\ UNCHANGED <<clientVars, backlog, config, nvs, flashVars, named>>

(* 250 ms have passed.                                                      *)
RestartComesDue ==
    /\ ota.restartPending /\ ~due
    /\ due' = TRUE
    /\ UNCHANGED <<clientVars, conn, backlog, serving, loopAt, ota, config, nvs,
                   flashVars, named>>

(* A boot: the connections are gone without a word, setup reads the         *)
(* configuration again, and the bootloader chooses the slot.                *)
Boot ==
    /\ active' = IF slots[bootSlot] # Broken THEN bootSlot ELSE 1 - bootSlot
    /\ config' = nvs' /\ ota' = NewOta /\ due' = FALSE
    /\ serving' = NoClient /\ loopAt' = "http" /\ backlog' = <<>>
    /\ conn' = [c \in Clients |->
           CASE conn[c].state \in {"open", "silent"} ->
                    [NoConn EXCEPT !.state = "lost"]
             [] conn[c].state = "cut" -> NoConn
             [] OTHER -> conn[c]]
    /\ UNCHANGED <<clientVars, slots, bootSlot, named>>

(* Faulty variant: a later upload takes the restart back.                   *)
RestartDueIfCompleted == ota.restartPending /\ ota.completed /\ due

RestartDue == ota.restartPending /\ due

RestartCheck ==
    /\ loopAt = "timer"
    /\ IF RestartDue
       THEN UNCHANGED nvs /\ Boot
       ELSE /\ loopAt' = "http"
            /\ UNCHANGED <<clientVars, conn, backlog, serving, ota, due, config,
                           nvs, flashVars, named>>

(* A power failure, or the task watchdog: an upload runs inside one         *)
(* iteration of loop(), which feeds it only at its end.                     *)
Reset ==
    /\ "reset" \in OtaEvents
    /\ UNCHANGED nvs /\ Boot

-----------------------------------------------------------------------------
(* The serial console, which loop() reads before it serves OTA requests.    *)

(* "rockpi": stored, and used by the Modbus server from now on; the OTA     *)
(* service keeps the configuration it was constructed with.                 *)
SetRockPi ==
    /\ "source" \in OtaEvents /\ loopAt = "http"
    /\ \E address \in Addresses : nvs' = [nvs EXCEPT !.rockpi = address]
    /\ UNCHANGED <<clientVars, conn, backlog, serving, loopAt, ota, due, config,
                   flashVars, named>>

(* "ota-key" and "ota-clear" restart the node.                              *)
SetKey ==
    /\ "key" \in OtaEvents /\ loopAt = "http"
    /\ \E token \in Tokens : nvs' = [nvs EXCEPT !.key = Sha256(token)]
    /\ Boot

ClearKey ==
    /\ "key" \in OtaEvents /\ loopAt = "http"
    /\ nvs' = [nvs EXCEPT !.key = NoKey]
    /\ Boot

-----------------------------------------------------------------------------
ClientStep(c) ==
    \/ CheckFile(c) \/ HashFile(c) \/ Connect(c)
    \/ Send(c) \/ Receive(c) \/ SendFails(c)

NodeStep ==
    \/ TakeClient \/ NobodyWaits \/ NoRequest \/ UploadStart \/ UploadWrite
    \/ UploadEnd \/ UploadAborted \/ HandleResult \/ RestartCheck

OtaNext ==
    \/ StageFile \/ \E c \in Clients : ClientStep(c) \/ Break(c) \/ LoseLink(c)
    \/ NodeStep \/ RestartComesDue \/ Reset
    \/ SetRockPi \/ SetKey \/ ClearKey

(* The node's loop never blocks for good, since WebServer gives up a silent *)
(* connection; time passes; and a run of gridex_ota_apply that has begun    *)
(* takes its next step.                                                     *)
OtaFairness ==
    /\ WF_otaVars(NodeStep) /\ WF_otaVars(RestartComesDue)
    /\ \A c \in Clients : WF_otaVars(Send(c) \/ Receive(c) \/ SendFails(c))

OtaSpec == OtaInit /\ [][OtaNext]_otaVars

FairOtaSpec == OtaSpec /\ OtaFairness

-----------------------------------------------------------------------------
(* Properties.                                                              *)

(* The image the next boot starts, if it is another than the running one.   *)
Candidate ==
    IF bootSlot # active /\ slots[bootSlot] # Broken THEN slots[bootSlot]
    ELSE Broken

Update == INSTANCE AtomicUpdate WITH
    Images <- Images, Factory <- FactoryImage, Nothing <- Broken,
    running <- slots[active], candidate <- Candidate,
    named <- {f \in Images : Sha256(f) \in named}

(* Through replaced files, broken connections, flash failures and resets at *)
(* any moment of an upload, the node runs whole images only, changes image  *)
(* only at a boot, and only to one whose digest came in a request from the  *)
(* configured source with the configured key.                               *)
UpdateIsAtomic == Update!UpdateSpec

(* gridex_ota_apply ends with 0 only if the file it hashed was verified and *)
(* selected for the next boot while it ran.                                 *)
SuccessMeansStored == \A c \in Clients : client[c].exit = "success" => client[c].stored

(* An image the node has answered 200 for runs in the end, unless another   *)
(* upload begins to overwrite it or is verified in its turn, which puts the *)
(* restart off by another 250 ms.                                           *)
AcceptedRuns ==
    \A image \in Images :
        ota.restartPending /\ Candidate = image
            ~> \/ slots[active] = image \/ Candidate # image
               \/ loopAt = "result" /\ ota.completed

(* A run that has connected ends, unless it waits on a connection that the  *)
(* node has closed or lost without the run hearing of it: there is no       *)
(* timeout on recv.                                                         *)
ClientEnds ==
    \A c \in Clients :
        client[c].pc \in {"sending", "waiting"}
            ~> \/ client[c].pc = "idle"
               \/ client[c].pc = "waiting" /\ conn[c].state = "lost"
=============================================================================
