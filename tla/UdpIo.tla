------------------------------- MODULE UdpIo -------------------------------
(***************************************************************************)
(* The UDP IO port of Udp4Io.c: one UDP_IO_PORT over a UDP4 child, the     *)
(* list of sent datagrams (UDP_TX_TOKENs in SentDatagram), the single      *)
(* receive request (RecvRequest), the event callbacks UdpIoOnDgramSent and *)
(* UdpIoOnDgramRcvd, and the cancel, clean and free paths.                 *)
(*                                                                         *)
(* The caller of the port is one thread of control; the UDP driver below   *)
(* it and the event dispatcher are its environment.  A token's event is    *)
(* signalled by UDP (on completion, or from Cancel and Configure(NULL));   *)
(* its notify function runs at TPL_CALLBACK.  Two cases:                   *)
(*   SyncNotify = FALSE: the caller runs at TPL_CALLBACK, so a notify runs *)
(*     only when the caller has returned (pc = Idle), and a notify still   *)
(*     pending when the token's event is closed never runs;               *)
(*   SyncNotify = TRUE: the caller runs below TPL_CALLBACK, so every       *)
(*     signalled notify runs as soon as UDP restores the TPL, i.e. before  *)
(*     the UDP call that signalled it returns to the port.                 *)
(* The port code takes several steps (pc) where it calls into UDP, so that *)
(* a notify can run between the call and the code after it.                *)
(*                                                                         *)
(* A TX token is named by the packet it wraps: the port's user never       *)
(* posts a packet again before its callback, and UdpIoCancelSingleDgram    *)
(* selects tokens by exactly that identity.                                *)
(***************************************************************************)
EXTENDS Integers

CONSTANTS
  Packets,     \* the NET_BUFs the user sends through the port
  RxTokens,    \* the memory the allocator can hand out for UDP_RX_TOKENs
  NoToken,     \* NULL
  SyncNotify,  \* TRUE: the caller runs below TPL_CALLBACK
  NestedCancel \* TRUE: a TX callback may cancel another sent datagram

ASSUME ConstantsAssumption ==
  /\ NoToken \notin RxTokens
  /\ SyncNotify \in BOOLEAN
  /\ NestedCancel \in BOOLEAN

VARIABLES
  port,        \* "Absent" (never created or freed), "Configured", "Unconfigured"
  child,       \* the UDP4 service child exists (NetLibCreateServiceChild)
  opened,      \* gEfiUdp4ProtocolGuid is opened BY_DRIVER on it
  sent,        \* packets whose TX token is linked in UdpIo->SentDatagram
  udpTx,       \* TX tokens queued in UDP by Transmit, not yet completed
  txSignaled,  \* TX tokens whose event is signalled, notify not yet run
  owed,        \* per packet: callbacks the port still owes its user
  recvReq,     \* UdpIo->RecvRequest
  rxLive,      \* allocated UDP_RX_TOKENs (event open)
  udpRx,       \* RX tokens queued in UDP by Receive, not yet completed
  rxSignaled,  \* RX tokens whose event is signalled, notify not yet run
  rxData,      \* signalled RX tokens that carry RxData (Status success)
  rxHeld,      \* RX tokens whose NET_BUF the user holds (not yet recycled)
  udpBufs,     \* UDP receive buffers handed out, by token, not yet recycled
  rxRet,       \* status returned by UdpIoRecvDatagram in this step, or "None"
  pc           \* where the caller is inside the port's code

portVars == <<port, child, opened>>
txVars   == <<sent, udpTx, txSignaled, owed>>
rxVars   == <<recvReq, rxLive, udpRx, rxSignaled, rxData, rxHeld, udpBufs>>
vars     == <<portVars, txVars, rxVars, rxRet, pc>>

PortStates == {"Absent", "Configured", "Unconfigured"}
RecvStatus == {"None", "Success", "AlreadyStarted", "OutOfResources", "Error"}

\* What the caller does once the cancel loop of UdpIoCancelDgrams is done:
\* return (UdpIoCancelSentDatagram), or go on with UdpIoFreePort or
\* UdpIoCleanPort.
Conts == {"None", "Free", "Clean"}

Idle == [op |-> "Idle"]

PcStates ==
       {Idle}
  \cup [op : {"SendInsert"}, pkt : Packets]
  \cup [op : {"RecvSet"}, tok : RxTokens]
  \cup [op : {"Cancel"}, todo : SUBSET Packets, then : Conts]
  \cup [op : {"CancelCb"}, pkt : Packets, todo : SUBSET Packets, then : Conts]
  \cup [op : {"CancelFreed"}, pkt : Packets, sel : BOOLEAN,
        todo : SUBSET Packets, then : Conts]
  \cup [op : {"RxFree"}, tok : RxTokens, then : {"Free", "Clean"}]

\* A step of the caller: below TPL_CALLBACK no notify can stay pending
\* while the caller runs.
CallerMayRun == SyncNotify => (txSignaled = {} /\ rxSignaled = {})

\* A notify function may run: at TPL_CALLBACK only once the caller is out
\* of the port's code.
CanDispatch == ~SyncNotify => pc = Idle

-----------------------------------------------------------------------------
(***************************************************************************)
(* UdpIoCreatePort.  The failure points, in the order the code meets them, *)
(* and the goto ladder that unwinds them.                                  *)
(***************************************************************************)
FailPoints == {"None", "Alloc", "Child", "Open", "Config", "Mode"}

ChildCreated(f)   == f \notin {"Alloc", "Child"}
ProtocolOpened(f) == f \notin {"Alloc", "Child", "Open"}

\* CLOSE_PROTOCOL: reached from a failed Configure or GetModeData.
\* (Mutant: a failed Configure jumps to FREE_CHILD.)
ReachesCloseProtocolMutant(f) == f = "Mode"
ReachesCloseProtocol(f) == f \in {"Config", "Mode"}

\* FREE_CHILD: reached from a failed OpenProtocol and from CLOSE_PROTOCOL.
ReachesFreeChild(f) == f \in {"Open", "Config", "Mode"}

UdpIoCreatePort ==
  /\ pc = Idle /\ CallerMayRun
  /\ port = "Absent"
  /\ \E f \in FailPoints :
       /\ child'  = (ChildCreated(f) /\ ~ReachesFreeChild(f))
       /\ opened' = (ProtocolOpened(f) /\ ~ReachesCloseProtocol(f))
       /\ port'   = IF f = "None" THEN "Configured" ELSE "Absent"
  /\ rxRet' = "None"
  /\ UNCHANGED <<txVars, rxVars, pc>>

-----------------------------------------------------------------------------
(***************************************************************************)
(* Transmit.                                                               *)
(***************************************************************************)

\* UdpIoSendDatagram up to the return of Udp->Transmit.  UdpIoWrapTx fails
\* on NetAllocatePool or CreateEvent, and Transmit can reject the token (it
\* must when the child is not configured); both return an error with the
\* token freed.  Otherwise UDP owns the token and the port owes the user one
\* callback; UDP may have completed it (signalled) before Transmit returns.
UdpIoSendDatagram(p) ==
  /\ pc = Idle /\ CallerMayRun
  /\ port # "Absent"
  /\ owed[p] = 0
  /\ \/ UNCHANGED <<txVars, pc>>
     \/ /\ port = "Configured"
        /\ \E done \in BOOLEAN :
             /\ udpTx'      = IF done THEN udpTx ELSE udpTx \cup {p}
             /\ txSignaled' = IF done THEN txSignaled \cup {p} ELSE txSignaled
        /\ owed' = [owed EXCEPT ![p] = @ + 1]
        /\ pc'   = [op |-> "SendInsert", pkt |-> p]
        /\ UNCHANGED sent
  /\ rxRet' = "None"
  /\ UNCHANGED <<portVars, rxVars>>

\* NetListInsertHead (&UdpIo->SentDatagram, &Token->Link) after Transmit
\* returned success.
SendInsert ==
  /\ pc.op = "SendInsert" /\ CallerMayRun
  /\ sent' = sent \cup {pc.pkt}
  /\ pc'   = Idle
  /\ rxRet' = "None"
  /\ UNCHANGED <<portVars, udpTx, txSignaled, owed, rxVars>>

\* UDP completes a queued transmit (with success or an error) and signals
\* the token's event.
UdpTransmitDone(p) ==
  /\ p \in udpTx
  /\ udpTx'      = udpTx \ {p}
  /\ txSignaled' = txSignaled \cup {p}
  /\ rxRet' = "None"
  /\ UNCHANGED <<portVars, sent, owed, rxVars, pc>>

\* (Mutant: the notify leaves the token linked in SentDatagram.)
UdpIoOnDgramSentKeepsLink(p) ==
  /\ p \in txSignaled /\ CanDispatch
  /\ owed'       = [owed EXCEPT ![p] = @ - 1]
  /\ txSignaled' = txSignaled \ {p}
  /\ rxRet' = "None"
  /\ UNCHANGED <<portVars, sent, udpTx, rxVars, pc>>

\* UdpIoOnDgramSent: unlink the token, call the owner back with the token's
\* status, free the token (closing its event).
UdpIoOnDgramSent(p) ==
  /\ p \in txSignaled /\ CanDispatch
  /\ sent'       = sent \ {p}
  /\ owed'       = [owed EXCEPT ![p] = @ - 1]
  /\ txSignaled' = txSignaled \ {p}
  /\ rxRet' = "None"
  /\ UNCHANGED <<portVars, udpTx, rxVars, pc>>

-----------------------------------------------------------------------------
(***************************************************************************)
(* UdpIoCancelDgrams: the NET_LIST_FOR_EACH_SAFE loop over SentDatagram.   *)
(* pc.todo holds the selected tokens the loop has not reached yet; a token *)
(* already unlinked when the loop gets to it is not visited.               *)
(***************************************************************************)

\* UdpIoCancelSingleDgram: Token->Packet == Packet.
UdpIoCancelSingleDgram(q, p) == q = p

\* UdpIoCancelSentDatagram: the loop with ToCancel = UdpIoCancelSingleDgram.
UdpIoCancelSentDatagram(p) ==
  /\ pc = Idle /\ CallerMayRun
  /\ port # "Absent"
  /\ pc' = [op |-> "Cancel",
            todo |-> {q \in sent : UdpIoCancelSingleDgram(q, p)},
            then |-> "None"]
  /\ rxRet' = "None"
  /\ UNCHANGED <<portVars, txVars, rxVars>>

\* One iteration up to the return of Udp->Cancel: NetListRemoveEntry, then
\* Cancel, which aborts and signals the token if UDP still has it.  Or the
\* loop's Next is the entry of a token a callback freed (CancelFreed): the
\* freed memory still holds the token, ToCancel selects it as it did, and
\* the body runs on it again, its Cancel finding nothing in UDP.
CancelDgram ==
  /\ CallerMayRun
  /\ \/ /\ pc.op = "Cancel"
        /\ \E p \in pc.todo \cap sent :
             /\ sent'       = sent \ {p}
             /\ udpTx'      = udpTx \ {p}
             /\ txSignaled' = IF p \in udpTx THEN txSignaled \cup {p}
                                             ELSE txSignaled
             /\ pc' = [op |-> "CancelCb", pkt |-> p, todo |-> pc.todo \ {p},
                       then |-> pc.then]
     \/ /\ pc.op = "CancelFreed"
        /\ pc' = IF pc.sel
                 THEN [op |-> "CancelCb", pkt |-> pc.pkt, todo |-> pc.todo,
                       then |-> pc.then]
                 ELSE [op |-> "Cancel", todo |-> pc.todo, then |-> pc.then]
        /\ UNCHANGED <<sent, udpTx, txSignaled>>
  /\ rxRet' = "None"
  /\ UNCHANGED <<portVars, owed, rxVars>>

\* (Mutant: the cancel loop frees the token without calling back.)
CancelCallBackSilent ==
  /\ pc.op = "CancelCb" /\ CallerMayRun
  /\ txSignaled' = txSignaled \ {pc.pkt}
  /\ pc' = [op |-> "Cancel", todo |-> pc.todo, then |-> pc.then]
  /\ rxRet' = "None"
  /\ UNCHANGED <<portVars, sent, udpTx, owed, rxVars>>

\* The rest of the iteration: Token->CallBack with IoStatus, then
\* UdpIoFreeTxToken, whose CloseEvent drops a notify still pending.  With
\* NestedCancel the user's callback may call UdpIoCancelSentDatagram for a
\* packet q still linked; at TPL_CALLBACK that call unlinks, cancels, calls
\* back and frees q before it returns.  The loop read Next before the body:
\* if Next was q, the loop goes on at q's freed entry (CancelFreed),
\* otherwise it no longer reaches q.
CancelCallBack ==
  /\ pc.op = "CancelCb" /\ CallerMayRun
  /\ \/ /\ owed'       = [owed EXCEPT ![pc.pkt] = @ - 1]
        /\ txSignaled' = txSignaled \ {pc.pkt}
        /\ pc' = [op |-> "Cancel", todo |-> pc.todo, then |-> pc.then]
        /\ UNCHANGED <<sent, udpTx>>
     \/ /\ NestedCancel /\ ~SyncNotify
        /\ \E q \in sent :
             /\ sent'       = sent \ {q}
             /\ udpTx'      = udpTx \ {q}
             /\ owed'       = [owed EXCEPT ![pc.pkt] = @ - 1, ![q] = @ - 1]
             /\ txSignaled' = txSignaled \ {pc.pkt, q}
             /\ \/ pc' = [op |-> "Cancel", todo |-> pc.todo \ {q},
                          then |-> pc.then]
                \/ pc' = [op |-> "CancelFreed", pkt |-> q, sel |-> q \in pc.todo,
                          todo |-> pc.todo \ {q}, then |-> pc.then]
  /\ rxRet' = "None"
  /\ UNCHANGED <<portVars, rxVars>>

\* The loop is over and UdpIoCancelSentDatagram returns.
CancelDone ==
  /\ pc.op = "Cancel" /\ pc.then = "None" /\ CallerMayRun
  /\ pc.todo \cap sent = {}
  /\ pc' = Idle
  /\ rxRet' = "None"
  /\ UNCHANGED <<portVars, txVars, rxVars>>

-----------------------------------------------------------------------------
(***************************************************************************)
(* UdpIoFreePort and UdpIoCleanPort: cancel every sent datagram, then the  *)
(* receive request without calling its callback, then destroy the child    *)
(* or configure it NULL.                                                   *)
(***************************************************************************)

UdpIoFreePort ==
  /\ pc = Idle /\ CallerMayRun
  /\ port # "Absent"
  /\ pc' = [op |-> "Cancel", todo |-> sent, then |-> "Free"]
  /\ rxRet' = "None"
  /\ UNCHANGED <<portVars, txVars, rxVars>>

UdpIoCleanPort ==
  /\ pc = Idle /\ CallerMayRun
  /\ port # "Absent"
  /\ pc' = [op |-> "Cancel", todo |-> sent, then |-> "Clean"]
  /\ rxRet' = "None"
  /\ UNCHANGED <<portVars, txVars, rxVars>>

\* The tail of either function, with rxSig the signalled RX tokens left by
\* the steps before it.  UdpIoFreePort closes the protocol and destroys the
\* child; UdpIoCleanPort calls Udp->Configure (NULL).  Either way UDP aborts
\* and signals every token it still has queued.
PortTail(kind, rxSig) ==
  /\ port'   = IF kind = "Free" THEN "Absent" ELSE "Unconfigured"
  /\ child'  = (kind = "Clean" /\ child)
  /\ opened' = (kind = "Clean" /\ opened)
  /\ udpTx'      = {}
  /\ txSignaled' = txSignaled \cup udpTx
  /\ udpRx'      = {}
  /\ rxSignaled' = rxSig \cup udpRx

\* RecvRequest is NULL: go straight to the tail.
ReleaseWithoutRecv ==
  /\ pc.op = "Cancel" /\ pc.then # "None" /\ CallerMayRun
  /\ pc.todo \cap sent = {}
  /\ recvReq = NoToken
  /\ PortTail(pc.then, rxSignaled)
  /\ pc' = Idle
  /\ rxRet' = "None"
  /\ UNCHANGED <<sent, owed, recvReq, rxLive, rxData, rxHeld, udpBufs>>

\* UdpIo->RecvRequest = NULL, then Udp->Cancel on the receive token.
CancelRecvRequest ==
  /\ pc.op = "Cancel" /\ pc.then # "None" /\ CallerMayRun
  /\ pc.todo \cap sent = {}
  /\ recvReq # NoToken
  /\ recvReq'    = NoToken
  /\ udpRx'      = udpRx \ {recvReq}
  /\ rxSignaled' = IF recvReq \in udpRx THEN rxSignaled \cup {recvReq}
                                        ELSE rxSignaled
  /\ pc' = [op |-> "RxFree", tok |-> recvReq, then |-> pc.then]
  /\ rxRet' = "None"
  /\ UNCHANGED <<portVars, txVars, rxLive, rxData, rxHeld, udpBufs>>

\* UdpIoFreeRxToken on the cancelled request (its pending notify, if any,
\* is dropped with the event), then the tail.
FreeRecvRequest ==
  /\ pc.op = "RxFree" /\ CallerMayRun
  /\ rxLive' = rxLive \ {pc.tok}
  /\ rxData' = rxData \ {pc.tok}
  /\ PortTail(pc.then, rxSignaled \ {pc.tok})
  /\ pc' = Idle
  /\ rxRet' = "None"
  /\ UNCHANGED <<sent, owed, recvReq, rxHeld, udpBufs>>

-----------------------------------------------------------------------------
(***************************************************************************)
(* Receive.                                                                *)
(***************************************************************************)

\* The outcomes of a call of UdpIoRecvDatagram that sees RecvRequest = req
\* while the tokens in live are allocated: ret is its status, tok the new
\* token and at where Udp->Receive left it ("Queued", or completed before
\* returning, with data or with an error).
NoCall == [ret |-> "None", tok |-> NoToken, at |-> "None"]

\* (Mutant: no EFI_ALREADY_STARTED check.)
RecvOutcomesUnchecked(req, live) ==
  {[ret |-> "OutOfResources", tok |-> NoToken, at |-> "None"],
   [ret |-> "Error", tok |-> NoToken, at |-> "None"]}
  \cup
  (IF port = "Configured"
   THEN [ret : {"Success"}, tok : RxTokens \ live,
         at : {"Queued", "DoneData", "DoneErr"}]
   ELSE {})

RecvOutcomes(req, live) ==
  IF req # NoToken
  THEN {[ret |-> "AlreadyStarted", tok |-> NoToken, at |-> "None"]}
  ELSE {[ret |-> "OutOfResources", tok |-> NoToken, at |-> "None"],
        [ret |-> "Error", tok |-> NoToken, at |-> "None"]}
       \cup
       (IF port = "Configured"
        THEN [ret : {"Success"}, tok : RxTokens \ live,
              at : {"Queued", "DoneData", "DoneErr"}]
        ELSE {})

\* (Mutant: the token is recorded whatever Receive returned.)
AddTokUnconditional(S, o, places) == S \cup {o.tok}

\* The new token o.tok added to S when Receive left it in one of places.
AddTok(S, o, places) == IF o.at \in places THEN S \cup {o.tok} ELSE S

\* UdpIoRecvDatagram up to the return of Udp->Receive.
UdpIoRecvDatagram ==
  /\ pc = Idle /\ CallerMayRun
  /\ port # "Absent"
  /\ \E o \in RecvOutcomes(recvReq, rxLive) :
       /\ rxLive'     = AddTok(rxLive, o, {"Queued", "DoneData", "DoneErr"})
       /\ udpRx'      = AddTok(udpRx, o, {"Queued"})
       /\ rxSignaled' = AddTok(rxSignaled, o, {"DoneData", "DoneErr"})
       /\ rxData'     = AddTok(rxData, o, {"DoneData"})
       /\ udpBufs'    = AddTok(udpBufs, o, {"DoneData"})
       /\ IF o.ret = "Success"
          THEN pc' = [op |-> "RecvSet", tok |-> o.tok] /\ rxRet' = "None"
          ELSE pc' = pc /\ rxRet' = o.ret
  /\ UNCHANGED <<portVars, txVars, recvReq, rxHeld>>

\* UdpIo->RecvRequest = Token after Receive returned success.
RecvSet ==
  /\ pc.op = "RecvSet" /\ CallerMayRun
  /\ recvReq' = pc.tok
  /\ pc'      = Idle
  /\ rxRet'   = "Success"
  /\ UNCHANGED <<portVars, txVars, rxLive, udpRx, rxSignaled, rxData, rxHeld,
                 udpBufs>>

\* UDP completes a queued receive, with a datagram or with an error.
UdpReceiveDone(t) ==
  /\ t \in udpRx
  /\ udpRx'      = udpRx \ {t}
  /\ rxSignaled' = rxSignaled \cup {t}
  /\ \E d \in BOOLEAN :
       /\ rxData'  = IF d THEN rxData \cup {t} ELSE rxData
       /\ udpBufs' = IF d THEN udpBufs \cup {t} ELSE udpBufs
  /\ rxRet' = "None"
  /\ UNCHANGED <<portVars, txVars, recvReq, rxLive, rxHeld, pc>>

\* The value of RecvRequest the callback sees: cleared first "in case that
\* the caller wants to restart the receive in the callback".
ClearRecvRequest(t) == NoToken

\* How UdpIoOnDgramRcvd delivers token t: "Error" (bad status or no
\* RxData), "NoBuf" (NetbufFromExt fails), or the NET_BUF goes up and the
\* user keeps it ("Keep") or frees it inside the callback ("FreeInCb").
Deliveries(t) ==
  IF t \in rxData THEN {"NoBuf", "Keep", "FreeInCb"} ELSE {"Error"}

\* The delivery paths that free the token: after the callback on the two
\* error paths, and in UdpIoRecycleDgram when the user frees the NET_BUF
\* inside the callback.  (Mutant: the NetbufFromExt failure path keeps it.)
FreesTokenMutant(k) == k \in {"Error", "FreeInCb"}
FreesToken(k) == k \in {"Error", "NoBuf", "FreeInCb"}

\* The delivery paths that signal RecycleSignal, giving UDP its buffer back.
RecyclesBuffer(k) == k \in {"NoBuf", "FreeInCb"}

\* UdpIoOnDgramRcvd for token t, with the user's callback, which may call
\* UdpIoRecvDatagram again (outcome o; NoCall if it does not).  The token is
\* freed after the callback on the error paths, and by UdpIoRecycleDgram
\* when the user frees the NET_BUF; the recycle paths signal RecycleSignal.
UdpIoOnDgramRcvd(t) ==
  /\ t \in rxSignaled /\ CanDispatch
  /\ LET req == ClearRecvRequest(t) IN
     \E k \in Deliveries(t), o \in RecvOutcomes(req, rxLive) \cup {NoCall} :
       /\ recvReq'    = IF o.ret = "Success" THEN o.tok ELSE req
       /\ rxLive'     = AddTok(IF FreesToken(k) THEN rxLive \ {t} ELSE rxLive, o,
                               {"Queued", "DoneData", "DoneErr"})
       /\ udpRx'      = AddTok(udpRx, o, {"Queued"})
       /\ rxSignaled' = AddTok(rxSignaled \ {t}, o, {"DoneData", "DoneErr"})
       /\ rxData'     = AddTok(rxData \ {t}, o, {"DoneData"})
       /\ udpBufs'    = AddTok(IF RecyclesBuffer(k) THEN udpBufs \ {t} ELSE udpBufs, o,
                               {"DoneData"})
       /\ rxHeld'     = IF k = "Keep" THEN rxHeld \cup {t} ELSE rxHeld
       /\ rxRet'      = o.ret
  /\ UNCHANGED <<portVars, txVars, pc>>

\* The user frees a NET_BUF it kept: UdpIoRecycleDgram signals
\* RecycleSignal (UDP takes its buffer back) and frees the token.
UdpIoRecycleDgram(t) ==
  /\ pc = Idle /\ CallerMayRun
  /\ t \in rxHeld
  /\ rxHeld'  = rxHeld \ {t}
  /\ udpBufs' = udpBufs \ {t}
  /\ rxLive'  = rxLive \ {t}
  /\ rxRet' = "None"
  /\ UNCHANGED <<portVars, txVars, recvReq, udpRx, rxSignaled, rxData, pc>>

\* The user configures the cleaned child again (Udp->Configure with its
\* own data, as the UDP_IO_CONFIG function does at creation).
UserConfigure ==
  /\ pc = Idle /\ CallerMayRun
  /\ port = "Unconfigured"
  /\ port' = "Configured"
  /\ rxRet' = "None"
  /\ UNCHANGED <<child, opened, txVars, rxVars, pc>>

-----------------------------------------------------------------------------
Init ==
  /\ port = "Absent" /\ child = FALSE /\ opened = FALSE
  /\ sent = {} /\ udpTx = {} /\ txSignaled = {}
  /\ owed = [p \in Packets |-> 0]
  /\ recvReq = NoToken
  /\ rxLive = {} /\ udpRx = {} /\ rxSignaled = {} /\ rxData = {}
  /\ rxHeld = {} /\ udpBufs = {}
  /\ rxRet = "None"
  /\ pc = Idle

Caller ==
  \/ UdpIoCreatePort
  \/ \E p \in Packets : UdpIoSendDatagram(p)
  \/ SendInsert
  \/ \E p \in Packets : UdpIoCancelSentDatagram(p)
  \/ CancelDgram
  \/ CancelCallBack
  \/ CancelDone
  \/ UdpIoFreePort
  \/ UdpIoCleanPort
  \/ ReleaseWithoutRecv
  \/ CancelRecvRequest
  \/ FreeRecvRequest
  \/ UdpIoRecvDatagram
  \/ RecvSet
  \/ \E t \in RxTokens : UdpIoRecycleDgram(t)
  \/ UserConfigure

Environment ==
  \/ \E p \in Packets : UdpTransmitDone(p)
  \/ \E p \in Packets : UdpIoOnDgramSent(p)
  \/ \E t \in RxTokens : UdpReceiveDone(t)
  \/ \E t \in RxTokens : UdpIoOnDgramRcvd(t)

Next == Caller \/ Environment

Spec == Init /\ [][Next]_vars

\* UDP completes every transmit it accepted (a timeout or an error is a
\* completion too); the caller, which never blocks inside the port, returns
\* from every call.  A notify can run only while the caller is out of the
\* port (at TPL_CALLBACK), which the caller may leave and enter again
\* without end; but every time the TPL drops the dispatcher runs the
\* pending notifies, so a notify enabled again and again does run: strong
\* fairness.
Fairness ==
  /\ \A p \in Packets : WF_vars(UdpTransmitDone(p))
  /\ \A p \in Packets : SF_vars(UdpIoOnDgramSent(p))
  /\ WF_vars(SendInsert \/ CancelDgram \/ CancelCallBack \/ CancelDone
             \/ ReleaseWithoutRecv \/ CancelRecvRequest \/ FreeRecvRequest
             \/ RecvSet)

FairSpec == Spec /\ Fairness

-----------------------------------------------------------------------------
(***************************************************************************)
(* Properties.                                                             *)
(***************************************************************************)

TypeOK ==
  /\ port \in PortStates
  /\ child \in BOOLEAN /\ opened \in BOOLEAN
  /\ sent \subseteq Packets /\ udpTx \subseteq Packets
  /\ txSignaled \subseteq Packets
  /\ owed \in [Packets -> Int]
  /\ recvReq \in RxTokens \cup {NoToken}
  /\ rxLive \subseteq RxTokens /\ udpRx \subseteq RxTokens
  /\ rxSignaled \subseteq RxTokens /\ rxData \subseteq RxTokens
  /\ rxHeld \subseteq RxTokens /\ udpBufs \subseteq RxTokens
  /\ rxRet \in RecvStatus
  /\ pc \in PcStates

\* The packets the port has accepted and not yet called back: linked in
\* SentDatagram, or held by the caller between Transmit and the insert, or
\* between unlinking and the callback in the cancel loop.
InFlight ==
  sent \cup (IF pc.op \in {"SendInsert", "CancelCb"} THEN {pc.pkt} ELSE {})

\* Every packet UdpIoSendDatagram accepted gets exactly one callback, from
\* UdpIoOnDgramSent or from the cancel loop: the port owes one callback for
\* each packet in flight and none for any other, and every token UDP holds
\* or has signalled is in flight.
TxCallbackOwed ==
  /\ \A p \in Packets : owed[p] = IF p \in InFlight THEN 1 ELSE 0
  /\ udpTx \cup txSignaled \subseteq InFlight
  /\ udpTx \cap txSignaled = {}

\* No packet is called back more often than UdpIoSendDatagram accepted it
\* (the user frees the packet in the callback: a second one frees it again).
TxCallbackAtMostOnce == \A p \in Packets : owed[p] >= 0

\* The receive token the port is tracking: RecvRequest, or the token the
\* caller holds between Receive and recording it, or between cancelling and
\* freeing it.
RxTracked ==
  ({recvReq} \cup (IF pc.op \in {"RecvSet", "RxFree"} THEN {pc.tok} ELSE {}))
    \ {NoToken}

\* "Only one receive request is supported": UDP holds or has completed at
\* most one receive of the port, it is the tracked one, and a non-NULL
\* RecvRequest really is outstanding in UDP.
RxOneRequest ==
  /\ udpRx \cup rxSignaled \subseteq RxTracked
  /\ \A a, b \in RxTracked : a = b
  /\ recvReq # NoToken => recvReq \in udpRx \cup rxSignaled

\* Every allocated UDP_RX_TOKEN is either the tracked request or the token
\* of a NET_BUF the user holds (no token leaks on an error path, none is
\* freed while still in use), and only signalled tokens carry RxData.
RxTokensAccounted ==
  /\ rxLive = RxTracked \cup rxHeld
  /\ RxTracked \cap rxHeld = {}
  /\ rxData \subseteq rxSignaled

\* Every receive buffer UDP has handed out is still owned by a live token
\* that will signal its RecycleSignal: one signalled with RxData, or one
\* whose NET_BUF the user holds.
RxBufferRecycled == udpBufs = rxData \cup rxHeld

\* The RecycleSignal that UdpIoRecycleDgram signals when the user frees a
\* NET_BUF belongs to the UDP child that delivered it: the child still
\* exists whenever a held buffer is recycled.
RecycleSignalsLiveChild ==
  [][\A t \in RxTokens : t \in rxHeld /\ t \notin rxHeld' => child]_vars

\* A port that is freed or was never created leaves no UDP child, no open
\* protocol and no request behind, and an unconfigured child holds none.
PortAbsentClean ==
  /\ child = (port # "Absent")
  /\ opened = (port # "Absent")
  /\ port = "Absent" => sent = {} /\ recvReq = NoToken
  /\ port # "Configured" /\ pc = Idle => udpTx = {} /\ udpRx = {}

\* The port implements its user's view of transmission (UdpIoTxContract):
\* UdpIoSendDatagram accepts a packet only while the port exists and no
\* callback is owed for it, every callback settles one owed callback, and
\* UdpIoFreePort destroys the child only once every accepted packet was
\* called back.
TxContract == INSTANCE UdpIoTxContract WITH open <- (port # "Absent"), due <- owed

TxContractRefinement == TxContract!Spec

\* Every packet UdpIoSendDatagram accepted is eventually called back.
TxCallbackEventually == \A p \in Packets : owed[p] > 0 ~> owed[p] = 0

=============================================================================
