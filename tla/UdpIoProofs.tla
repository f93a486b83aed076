---------------------------- MODULE UdpIoProofs ----------------------------
(***************************************************************************)
(* Proofs about the UDP IO port model UdpIo.                               *)
(***************************************************************************)
EXTENDS UdpIo, TLAPS

\* Where the caller holds a TX token outside SentDatagram, that token is not
\* linked: between Transmit and NetListInsertHead, and between unlinking and
\* the callback, when UDP no longer has it queued either.
PcTokenUnlinked ==
  /\ pc.op = "SendInsert" => pc.pkt \notin sent
  /\ pc.op = "CancelCb"   => pc.pkt \notin sent \cup udpTx
  /\ pc.op # "CancelFreed"

\* The inductive strengthening of TxCallbackOwed.  Its last conjunct of
\* PcTokenUnlinked says the loop never reaches a freed entry: it needs
\* ~NestedCancel.
TxInv == TxCallbackOwed /\ PcTokenUnlinked

USE ConstantsAssumption

\* The records the caller's program counter takes are in PcStates.
LEMMA PcRecords ==
  /\ Idle \in PcStates
  /\ \A p \in Packets : [op |-> "SendInsert", pkt |-> p] \in PcStates
  /\ \A t \in RxTokens : [op |-> "RecvSet", tok |-> t] \in PcStates
  /\ \A S \in SUBSET Packets, c \in Conts :
       [op |-> "Cancel", todo |-> S, then |-> c] \in PcStates
  /\ \A p \in Packets, S \in SUBSET Packets, c \in Conts :
       [op |-> "CancelCb", pkt |-> p, todo |-> S, then |-> c] \in PcStates
  /\ \A p \in Packets, b \in BOOLEAN, S \in SUBSET Packets, c \in Conts :
       [op |-> "CancelFreed", pkt |-> p, sel |-> b, todo |-> S, then |-> c]
         \in PcStates
  /\ \A t \in RxTokens, c \in {"Free", "Clean"} :
       [op |-> "RxFree", tok |-> t, then |-> c] \in PcStates
BY DEF PcStates, Idle

\* The fields of a program counter in PcStates, by its op.
LEMMA PcFields ==
  ASSUME NEW q \in PcStates
  PROVE  /\ q.op \in {"Idle", "SendInsert", "RecvSet", "Cancel", "CancelCb",
                     "CancelFreed", "RxFree"}
         /\ q.op = "Idle" => q = Idle
         /\ q.op = "SendInsert" => q.pkt \in Packets
         /\ q.op = "RecvSet" => q.tok \in RxTokens
         /\ q.op = "Cancel" => q.todo \in SUBSET Packets /\ q.then \in Conts
         /\ q.op = "CancelCb" => /\ q.pkt \in Packets
                                 /\ q.todo \in SUBSET Packets /\ q.then \in Conts
         /\ q.op = "CancelFreed" => /\ q.pkt \in Packets /\ q.sel \in BOOLEAN
                                    /\ q.todo \in SUBSET Packets /\ q.then \in Conts
         /\ q.op = "RxFree" => q.tok \in RxTokens /\ q.then \in {"Free", "Clean"}
BY DEF PcStates, Idle

\* A receive outcome names a new token exactly when Receive accepted it.
LEMMA RecvOutcomeType ==
  ASSUME NEW req, NEW live \in SUBSET RxTokens,
         NEW o \in RecvOutcomes(req, live) \cup {NoCall}
  PROVE  /\ o.ret \in RecvStatus
         /\ o.at \in {"None", "Queued", "DoneData", "DoneErr"}
         /\ o.at # "None" => o.tok \in RxTokens \ live /\ o.ret = "Success"
         /\ o.ret = "Success" => o.at # "None"
BY DEF RecvOutcomes, NoCall, RecvStatus

\* UdpIoRecvDatagram succeeds only when RecvRequest is NULL and the child
\* is configured, and reports EFI_ALREADY_STARTED only when it is not NULL.
LEMMA RecvOutcomeGuard ==
  ASSUME NEW req, NEW live, NEW o \in RecvOutcomes(req, live)
  PROVE  /\ o.ret = "Success" => req = NoToken /\ port = "Configured"
         /\ o.ret = "AlreadyStarted" => req # NoToken
BY DEF RecvOutcomes

\* AddTok keeps a set of tokens a set of tokens.
LEMMA AddTokType ==
  ASSUME NEW S \in SUBSET RxTokens, NEW req, NEW live \in SUBSET RxTokens,
         NEW o \in RecvOutcomes(req, live) \cup {NoCall}, NEW places,
         places \subseteq {"Queued", "DoneData", "DoneErr"}
  PROVE  AddTok(S, o, places) \in SUBSET RxTokens
BY RecvOutcomeType DEF AddTok

\* Every step keeps every variable in its type.
LEMMA TypeStep == TypeOK /\ [Next]_vars => TypeOK'
<1> SUFFICES ASSUME TypeOK, [Next]_vars PROVE TypeOK'
  OBVIOUS
<1> USE DEF TypeOK, portVars, txVars, rxVars
<1>a. pc \in PcStates
  OBVIOUS
<1>1. CASE UdpIoCreatePort
  BY <1>1 DEF UdpIoCreatePort, PortStates, RecvStatus
<1>2. ASSUME NEW p \in Packets, UdpIoSendDatagram(p) PROVE TypeOK'
  BY <1>2, PcRecords DEF UdpIoSendDatagram, RecvStatus
<1>3. CASE SendInsert
  BY <1>3, <1>a, PcFields, PcRecords DEF SendInsert, RecvStatus
<1>4. ASSUME NEW p \in Packets, UdpIoCancelSentDatagram(p) PROVE TypeOK'
  <2>1. pc' \in PcStates
    BY <1>4, PcRecords DEF UdpIoCancelSentDatagram, Conts
  <2>2. QED
    BY <1>4, <2>1 DEF UdpIoCancelSentDatagram, RecvStatus
<1>5. CASE CancelDgram
  <2>1. CASE pc.op = "Cancel"
    BY <1>5, <2>1, <1>a, PcFields, PcRecords DEF CancelDgram, RecvStatus
  <2>2. CASE pc.op = "CancelFreed"
    <3>1. pc.pkt \in Packets /\ pc.sel \in BOOLEAN
          /\ pc.todo \in SUBSET Packets /\ pc.then \in Conts
      BY <2>2, <1>a, PcFields
    <3>2. pc' \in PcStates
      BY <1>5, <2>2, <3>1, PcRecords DEF CancelDgram
    <3>3. QED
      BY <1>5, <2>2, <3>2 DEF CancelDgram, RecvStatus
  <2>3. QED
    BY <1>5, <2>1, <2>2 DEF CancelDgram
<1>6. CASE CancelCallBack
  <2>1. pc.op = "CancelCb"
    BY <1>6 DEF CancelCallBack
  <2>2. pc.pkt \in Packets /\ pc.todo \in SUBSET Packets /\ pc.then \in Conts
    BY <2>1, <1>a, PcFields
  <2>3. CASE /\ owed'       = [owed EXCEPT ![pc.pkt] = @ - 1]
             /\ txSignaled' = txSignaled \ {pc.pkt}
             /\ pc' = [op |-> "Cancel", todo |-> pc.todo, then |-> pc.then]
             /\ UNCHANGED <<sent, udpTx>>
    BY <1>6, <2>2, <2>3, PcRecords DEF CancelCallBack, RecvStatus
  <2>4. CASE \E q \in sent :
           /\ sent'       = sent \ {q}
           /\ udpTx'      = udpTx \ {q}
           /\ owed'       = [owed EXCEPT ![pc.pkt] = @ - 1, ![q] = @ - 1]
           /\ txSignaled' = txSignaled \ {pc.pkt, q}
           /\ \/ pc' = [op |-> "Cancel", todo |-> pc.todo \ {q},
                        then |-> pc.then]
              \/ pc' = [op |-> "CancelFreed", pkt |-> q, sel |-> q \in pc.todo,
                        todo |-> pc.todo \ {q}, then |-> pc.then]
    <3>1. PICK q \in sent :
           /\ sent'       = sent \ {q}
           /\ udpTx'      = udpTx \ {q}
           /\ owed'       = [owed EXCEPT ![pc.pkt] = @ - 1, ![q] = @ - 1]
           /\ txSignaled' = txSignaled \ {pc.pkt, q}
           /\ \/ pc' = [op |-> "Cancel", todo |-> pc.todo \ {q},
                        then |-> pc.then]
              \/ pc' = [op |-> "CancelFreed", pkt |-> q, sel |-> q \in pc.todo,
                        todo |-> pc.todo \ {q}, then |-> pc.then]
      BY <2>4
    <3>2. (q \in pc.todo) \in BOOLEAN
      OBVIOUS
    <3>3. q \in Packets /\ pc.todo \ {q} \in SUBSET Packets
      BY <2>2
    <3>6. pc' \in PcStates
      <4>1. [op |-> "Cancel", todo |-> pc.todo \ {q}, then |-> pc.then]
              \in PcStates
        BY <3>3, <2>2, PcRecords
      <4>2. [op |-> "CancelFreed", pkt |-> q, sel |-> q \in pc.todo,
             todo |-> pc.todo \ {q}, then |-> pc.then] \in PcStates
        BY <3>2, <3>3, <2>2, PcRecords
      <4>3. QED
        BY <3>1, <4>1, <4>2
    <3>4. owed' \in [Packets -> Int]
      BY <3>1, <2>2
    <3>5. QED
      BY <1>6, <3>1, <3>6, <3>4 DEF CancelCallBack, RecvStatus
  <2>5. QED
    BY <1>6, <2>3, <2>4 DEF CancelCallBack
<1>7. CASE CancelDone
  BY <1>7, PcRecords DEF CancelDone, RecvStatus
<1>8. CASE UdpIoFreePort
  BY <1>8, PcRecords DEF UdpIoFreePort, RecvStatus, Conts
<1>9. CASE UdpIoCleanPort
  BY <1>9, PcRecords DEF UdpIoCleanPort, RecvStatus, Conts
<1>10. CASE ReleaseWithoutRecv
  BY <1>10, <1>a, PcFields, PcRecords DEF ReleaseWithoutRecv, PortTail,
     PortStates, RecvStatus
<1>11. CASE CancelRecvRequest
  BY <1>11, <1>a, PcFields, PcRecords DEF CancelRecvRequest, RecvStatus, Conts
<1>12. CASE FreeRecvRequest
  BY <1>12, <1>a, PcFields, PcRecords DEF FreeRecvRequest, PortTail,
     PortStates, RecvStatus
<1>13. CASE UdpIoRecvDatagram
  <2>1. PICK o \in RecvOutcomes(recvReq, rxLive) :
          /\ rxLive'     = AddTok(rxLive, o, {"Queued", "DoneData", "DoneErr"})
          /\ udpRx'      = AddTok(udpRx, o, {"Queued"})
          /\ rxSignaled' = AddTok(rxSignaled, o, {"DoneData", "DoneErr"})
          /\ rxData'     = AddTok(rxData, o, {"DoneData"})
          /\ udpBufs'    = AddTok(udpBufs, o, {"DoneData"})
          /\ IF o.ret = "Success"
             THEN pc' = [op |-> "RecvSet", tok |-> o.tok] /\ rxRet' = "None"
             ELSE pc' = pc /\ rxRet' = o.ret
    BY <1>13 DEF UdpIoRecvDatagram
  <2>2. o \in RecvOutcomes(recvReq, rxLive) \cup {NoCall}
    BY <2>1
  <2>3. pc' \in PcStates /\ rxRet' \in RecvStatus
    BY <2>1, <2>2, RecvOutcomeType, PcRecords DEF RecvStatus
  <2>4. /\ rxLive' \in SUBSET RxTokens /\ udpRx' \in SUBSET RxTokens
        /\ rxSignaled' \in SUBSET RxTokens /\ rxData' \in SUBSET RxTokens
        /\ udpBufs' \in SUBSET RxTokens
    BY <2>1, <2>2, AddTokType
  <2>5. QED
    BY <1>13, <2>3, <2>4 DEF UdpIoRecvDatagram
<1>14. CASE RecvSet
  BY <1>14, <1>a, PcFields, PcRecords DEF RecvSet, RecvStatus
<1>15. ASSUME NEW t \in RxTokens, UdpIoRecycleDgram(t) PROVE TypeOK'
  BY <1>15 DEF UdpIoRecycleDgram, RecvStatus
<1>16. CASE UserConfigure
  BY <1>16 DEF UserConfigure, PortStates, RecvStatus
<1>17. ASSUME NEW p \in Packets, UdpTransmitDone(p) PROVE TypeOK'
  BY <1>17 DEF UdpTransmitDone, RecvStatus
<1>18. ASSUME NEW p \in Packets, UdpIoOnDgramSent(p) PROVE TypeOK'
  BY <1>18 DEF UdpIoOnDgramSent, RecvStatus
<1>19. ASSUME NEW t \in RxTokens, UdpReceiveDone(t) PROVE TypeOK'
  BY <1>19 DEF UdpReceiveDone, RecvStatus
<1>20. ASSUME NEW t \in RxTokens, UdpIoOnDgramRcvd(t) PROVE TypeOK'
  <2> DEFINE req == ClearRecvRequest(t)
  <2>1. PICK k \in Deliveries(t), o \in RecvOutcomes(req, rxLive) \cup {NoCall} :
          /\ recvReq'    = IF o.ret = "Success" THEN o.tok ELSE req
          /\ rxLive'     = AddTok(IF FreesToken(k) THEN rxLive \ {t} ELSE rxLive, o,
                                  {"Queued", "DoneData", "DoneErr"})
          /\ udpRx'      = AddTok(udpRx, o, {"Queued"})
          /\ rxSignaled' = AddTok(rxSignaled \ {t}, o, {"DoneData", "DoneErr"})
          /\ rxData'     = AddTok(rxData \ {t}, o, {"DoneData"})
          /\ udpBufs'    = AddTok(IF RecyclesBuffer(k) THEN udpBufs \ {t} ELSE udpBufs, o,
                                  {"DoneData"})
          /\ rxHeld'     = IF k = "Keep" THEN rxHeld \cup {t} ELSE rxHeld
          /\ rxRet'      = o.ret
    BY <1>20 DEF UdpIoOnDgramRcvd
  <2>2. recvReq' \in RxTokens \cup {NoToken} /\ rxRet' \in RecvStatus
    BY <2>1, RecvOutcomeType DEF ClearRecvRequest
  <2>3. /\ rxLive' \in SUBSET RxTokens /\ udpRx' \in SUBSET RxTokens
        /\ rxSignaled' \in SUBSET RxTokens /\ rxData' \in SUBSET RxTokens
        /\ udpBufs' \in SUBSET RxTokens /\ rxHeld' \in SUBSET RxTokens
    BY <2>1, AddTokType
  <2>4. QED
    BY <1>20, <2>2, <2>3 DEF UdpIoOnDgramRcvd
<1>21. CASE UNCHANGED vars
  BY <1>21 DEF vars, portVars, txVars, rxVars
<1>22. QED
  BY <1>1, <1>2, <1>3, <1>4, <1>5, <1>6, <1>7, <1>8, <1>9, <1>10, <1>11,
     <1>12, <1>13, <1>14, <1>15, <1>16, <1>17, <1>18, <1>19, <1>20, <1>21
  DEF Next, Caller, Environment

\* The initial state is well typed.
LEMMA TypeInit == Init => TypeOK
<1> SUFFICES ASSUME Init PROVE TypeOK
  OBVIOUS
<1>1. pc \in PcStates
  BY PcRecords DEF Init
<1>2. owed \in [Packets -> Int]
  BY DEF Init
<1>3. child \in BOOLEAN /\ opened \in BOOLEAN
  BY Zenon DEF Init
<1>4. QED
  BY <1>1, <1>2, <1>3 DEF Init, TypeOK, RecvStatus, PortStates

\* The type invariant holds in every reachable state, whether or not the
\* caller runs below TPL_CALLBACK.
THEOREM TypeCorrect == Spec => []TypeOK
BY TypeInit, TypeStep, PTL DEF Spec

\* Every step keeps TxInv when the caller runs at TPL_CALLBACK and no
\* callback cancels another datagram.
LEMMA TxInvStep ==
  ~SyncNotify /\ ~NestedCancel => (TypeOK /\ TxInv /\ [Next]_vars => TxInv')
<1> SUFFICES ASSUME ~SyncNotify, ~NestedCancel
             PROVE  TypeOK /\ TxInv /\ [Next]_vars => TxInv'
  OBVIOUS
<1>1. TypeOK /\ TxInv /\ [Next]_vars => TxInv'
  <2> SUFFICES ASSUME TypeOK, TxInv, [Next]_vars PROVE TxInv'
    OBVIOUS
  <2> USE DEF TypeOK, TxInv, TxCallbackOwed, PcTokenUnlinked, InFlight,
              portVars, txVars, rxVars
  <2>a. pc \in PcStates
    OBVIOUS
  <2>b. Idle.op = "Idle"
    BY DEF Idle
  <2>1. CASE UdpIoCreatePort
    BY <2>1 DEF UdpIoCreatePort
  <2>2. ASSUME NEW p \in Packets, UdpIoSendDatagram(p) PROVE TxInv'
    <3>1. pc = Idle /\ owed[p] = 0
      BY <2>2 DEF UdpIoSendDatagram
    <3>2. p \notin sent \cup udpTx \cup txSignaled
      BY <3>1, <2>b
    <3>3. CASE UNCHANGED <<txVars, pc>>
      BY <3>3
    <3>4. CASE /\ \E done \in BOOLEAN :
                    /\ udpTx'      = IF done THEN udpTx ELSE udpTx \cup {p}
                    /\ txSignaled' = IF done THEN txSignaled \cup {p} ELSE txSignaled
               /\ owed' = [owed EXCEPT ![p] = @ + 1]
               /\ pc'   = [op |-> "SendInsert", pkt |-> p]
               /\ UNCHANGED sent
      BY <3>1, <3>2, <3>4, <2>b
    <3>5. QED
      BY <2>2, <3>3, <3>4 DEF UdpIoSendDatagram
  <2>3. CASE SendInsert
    BY <2>3 DEF SendInsert, Idle
  <2>4. ASSUME NEW p \in Packets, UdpIoCancelSentDatagram(p) PROVE TxInv'
    BY <2>4, <2>b DEF UdpIoCancelSentDatagram
  <2>5. CASE CancelDgram
    <3>1. pc.op = "Cancel"
      BY <2>5 DEF CancelDgram
    <3>2. QED
      BY <2>5, <3>1 DEF CancelDgram
  <2>6. CASE CancelCallBack
    <3>1. pc.op = "CancelCb" /\ pc.pkt \in Packets
      BY <2>6, <2>a, PcFields DEF CancelCallBack
    <3>2. /\ owed'       = [owed EXCEPT ![pc.pkt] = @ - 1]
          /\ txSignaled' = txSignaled \ {pc.pkt}
          /\ pc' = [op |-> "Cancel", todo |-> pc.todo, then |-> pc.then]
          /\ UNCHANGED <<sent, udpTx>>
      BY <2>6 DEF CancelCallBack
    <3>3. QED
      BY <2>6, <3>1, <3>2 DEF CancelCallBack
  <2>7. CASE CancelDone
    BY <2>7, <2>b DEF CancelDone
  <2>8. CASE UdpIoFreePort
    BY <2>8, <2>b DEF UdpIoFreePort
  <2>9. CASE UdpIoCleanPort
    BY <2>9, <2>b DEF UdpIoCleanPort
  <2>10. CASE ReleaseWithoutRecv
    BY <2>10, <2>b DEF ReleaseWithoutRecv, PortTail
  <2>11. CASE CancelRecvRequest
    BY <2>11 DEF CancelRecvRequest
  <2>12. CASE FreeRecvRequest
    BY <2>12, <2>b DEF FreeRecvRequest, PortTail
  <2>13. CASE UdpIoRecvDatagram
    <3>1. pc = Idle /\ UNCHANGED txVars
      BY <2>13 DEF UdpIoRecvDatagram
    <3>2. pc' = Idle \/ pc'.op = "RecvSet"
      BY <2>13 DEF UdpIoRecvDatagram
    <3>3. QED
      BY <3>1, <3>2, <2>b
  <2>14. CASE RecvSet
    BY <2>14, <2>b DEF RecvSet
  <2>15. ASSUME NEW t \in RxTokens, UdpIoRecycleDgram(t) PROVE TxInv'
    BY <2>15 DEF UdpIoRecycleDgram
  <2>16. CASE UserConfigure
    BY <2>16 DEF UserConfigure
  <2>17. ASSUME NEW p \in Packets, UdpTransmitDone(p) PROVE TxInv'
    BY <2>17 DEF UdpTransmitDone
  <2>18. ASSUME NEW p \in Packets, UdpIoOnDgramSent(p) PROVE TxInv'
    <3>1. pc = Idle
      BY <2>18 DEF UdpIoOnDgramSent, CanDispatch
    <3>2. QED
      BY <2>18, <3>1, <2>b DEF UdpIoOnDgramSent
  <2>19. ASSUME NEW t \in RxTokens, UdpReceiveDone(t) PROVE TxInv'
    BY <2>19 DEF UdpReceiveDone
  <2>20. ASSUME NEW t \in RxTokens, UdpIoOnDgramRcvd(t) PROVE TxInv'
    BY <2>20 DEF UdpIoOnDgramRcvd
  <2>21. CASE UNCHANGED vars
    BY <2>21 DEF vars
  <2>22. QED
    BY <2>1, <2>2, <2>3, <2>4, <2>5, <2>6, <2>7, <2>8, <2>9, <2>10, <2>11,
       <2>12, <2>13, <2>14, <2>15, <2>16, <2>17, <2>18, <2>19, <2>20, <2>21
    DEF Next, Caller, Environment
<1>. QED  BY <1>1

\* With the caller at TPL_CALLBACK, every packet UdpIoSendDatagram accepted
\* is owed exactly one callback until UdpIoOnDgramSent or the cancel loop
\* of UdpIoCancelDgrams delivers it, and UDP only holds or signals tokens
\* of packets in flight (TxCallbackOwed).
THEOREM TxSafety == ~SyncNotify /\ ~NestedCancel => (Spec => []TxCallbackOwed)
<1> SUFFICES ASSUME ~SyncNotify, ~NestedCancel PROVE Spec => []TxCallbackOwed
  OBVIOUS
<1>1. Init => TxInv
  BY DEF Init, TxInv, TxCallbackOwed, PcTokenUnlinked, InFlight, Idle
<1>2. TypeOK /\ TxInv /\ [Next]_vars => TxInv'
  BY TxInvStep
<1>3. TxInv => TxCallbackOwed
  BY DEF TxInv
<1>4. QED
  BY <1>1, <1>2, <1>3, TypeCorrect, PTL DEF Spec
\* At TPL_CALLBACK, and with no callback cancelling another datagram, no
\* packet is called back twice: the property the runs with SyncNotify = TRUE
\* and with NestedCancel = TRUE violate.
THEOREM TxAtMostOnceAtCallback ==
  ~SyncNotify /\ ~NestedCancel => (Spec => []TxCallbackAtMostOnce)
<1>1. TxCallbackOwed => TxCallbackAtMostOnce
  <2> SUFFICES ASSUME TxCallbackOwed, NEW p \in Packets PROVE owed[p] >= 0
    BY DEF TxCallbackAtMostOnce
  <2>1. owed[p] = IF p \in InFlight THEN 1 ELSE 0
    BY DEF TxCallbackOwed
  <2>2. QED
    BY <2>1
<1>2. QED
  BY <1>1, TxSafety, PTL
-----------------------------------------------------------------------------
(***************************************************************************)
(* The receive request and the port's lifetime.  RxOneRequest,             *)
(* RxTokensAccounted and PortAbsentClean are not inductive by themselves:  *)
(* RxPcInv adds what holds where the caller is inside the port's code      *)
(* (RecvRequest is NULL between Receive and recording the token, and      *)
(* between cancelling and freeing it; the cancel loop of UdpIoFreePort    *)
(* and UdpIoCleanPort has every linked token still ahead of it), that a   *)
(* completed receive is no longer queued, and that UDP holds nothing of   *)
(* a port that is not configured.                                          *)
(***************************************************************************)
RxPcInv ==
  /\ pc.op = "RecvSet" => recvReq = NoToken /\ pc.tok \in udpRx \cup rxSignaled
  /\ pc.op = "RxFree" => recvReq = NoToken /\ pc.tok \notin udpRx /\ sent = {}
  /\ pc.op \in {"Cancel", "CancelCb", "CancelFreed"} /\ pc.then # "None"
       => sent \subseteq pc.todo
  /\ pc # Idle => port # "Absent"
  /\ udpRx \cap rxSignaled = {}
  /\ port # "Configured" => udpTx = {} /\ udpRx = {}

RxInv ==
  TypeOK /\ RxPcInv /\ RxOneRequest /\ RxTokensAccounted /\ PortAbsentClean

\* Every step keeps RxInv when the caller runs at TPL_CALLBACK.
LEMMA RxInvStep == ~SyncNotify /\ RxInv /\ [Next]_vars => RxInv'
<1> SUFFICES ASSUME ~SyncNotify, RxInv, [Next]_vars PROVE RxInv'
  OBVIOUS
<1>t. TypeOK'
  BY TypeStep DEF RxInv
<1> USE DEF RxInv, TypeOK, RxPcInv, RxOneRequest, RxTokensAccounted,
            RxTracked, CanDispatch, CallerMayRun, Idle
<1>p. pc \in PcStates
  OBVIOUS
<1> DEFINE Goal  == /\ RxPcInv' /\ RxOneRequest' /\ RxTokensAccounted'
                    /\ port' = "Absent" => sent' = {} /\ recvReq' = NoToken
                    /\ port' # "Configured" /\ pc' = Idle
                         => udpTx' = {} /\ udpRx' = {}
           Bools == /\ child'  = (port' # "Absent")
                    /\ opened' = (port' # "Absent")
<1>g. Goal /\ Bools => RxInv'
  BY <1>t, Zenon DEF PortAbsentClean
<1>a. /\ port = "Absent" => sent = {} /\ recvReq = NoToken
      /\ port # "Configured" /\ pc = Idle => udpTx = {} /\ udpRx = {}
  BY Zenon DEF PortAbsentClean
<1>1. CASE UdpIoCreatePort
  <2>1. Goal
    BY <1>1, <1>a DEF Goal, UdpIoCreatePort,
       portVars, txVars, rxVars
  <2>2. Bools
    BY <1>1, Zenon DEF PortAbsentClean, Bools, UdpIoCreatePort, ReachesFreeChild, ReachesCloseProtocol, ChildCreated, ProtocolOpened, FailPoints
  <2>. QED  BY <2>1, <2>2, <1>g
<1>2. ASSUME NEW p \in Packets, UdpIoSendDatagram(p) PROVE RxInv'
  <2>1. Goal
    BY <1>2, PcFields, <1>a DEF Goal, UdpIoSendDatagram,
       portVars, txVars, rxVars
  <2>2. Bools
    BY <1>2, Zenon DEF PortAbsentClean, Bools, UdpIoSendDatagram, portVars
  <2>. QED  BY <2>1, <2>2, <1>g
<1>3. CASE SendInsert
  <2>1. Goal
    BY <1>3, PcFields, <1>a DEF Goal, SendInsert, Idle,
       portVars, txVars, rxVars
  <2>2. Bools
    BY <1>3, Zenon DEF PortAbsentClean, Bools, SendInsert, portVars
  <2>. QED  BY <2>1, <2>2, <1>g
<1>4. ASSUME NEW p \in Packets, UdpIoCancelSentDatagram(p) PROVE RxInv'
  <2>1. Goal
    BY <1>4, PcFields, <1>a DEF Goal, UdpIoCancelSentDatagram,
       portVars, txVars, rxVars
  <2>2. Bools
    BY <1>4, Zenon DEF PortAbsentClean, Bools, UdpIoCancelSentDatagram, portVars
  <2>. QED  BY <2>1, <2>2, <1>g
<1>5. CASE CancelDgram
  <2>1. Goal
    BY <1>5, PcFields, <1>a DEF Goal, CancelDgram,
       portVars, txVars, rxVars
  <2>2. Bools
    BY <1>5, Zenon DEF PortAbsentClean, Bools, CancelDgram, portVars
  <2>. QED  BY <2>1, <2>2, <1>g
<1>6. CASE CancelCallBack
  <2>1. Goal
    BY <1>6, PcFields, <1>a DEF Goal, CancelCallBack,
       portVars, txVars, rxVars
  <2>2. Bools
    BY <1>6, Zenon DEF PortAbsentClean, Bools, CancelCallBack, portVars
  <2>. QED  BY <2>1, <2>2, <1>g
<1>7. CASE CancelDone
  <2>1. Goal
    BY <1>7, PcFields, <1>a DEF Goal, CancelDone,
       portVars, txVars, rxVars
  <2>2. Bools
    BY <1>7, Zenon DEF PortAbsentClean, Bools, CancelDone, portVars
  <2>. QED  BY <2>1, <2>2, <1>g
<1>8. CASE UdpIoFreePort
  <2>1. Goal
    BY <1>8, PcFields, <1>a DEF Goal, UdpIoFreePort,
       portVars, txVars, rxVars
  <2>2. Bools
    BY <1>8, Zenon DEF PortAbsentClean, Bools, UdpIoFreePort, portVars
  <2>. QED  BY <2>1, <2>2, <1>g
<1>9. CASE UdpIoCleanPort
  <2>1. Goal
    BY <1>9, PcFields, <1>a DEF Goal, UdpIoCleanPort,
       portVars, txVars, rxVars
  <2>2. Bools
    BY <1>9, Zenon DEF PortAbsentClean, Bools, UdpIoCleanPort, portVars
  <2>. QED  BY <2>1, <2>2, <1>g
<1>10. CASE ReleaseWithoutRecv
  <2>1. Goal
    BY <1>10, PcFields, <1>a DEF Goal, ReleaseWithoutRecv, PortTail,
       portVars, txVars, rxVars
  <2>2. Bools
    <3>1. port # "Absent" /\ pc.then \in {"Free", "Clean"}
      BY <1>10, PcFields DEF ReleaseWithoutRecv, Conts
    <3>. QED  BY <1>10, <3>1, Zenon DEF PortAbsentClean, Bools, ReleaseWithoutRecv, PortTail
  <2>. QED  BY <2>1, <2>2, <1>g
<1>11. CASE CancelRecvRequest
  <2>1. Goal
    BY <1>11, PcFields, <1>a DEF Goal, CancelRecvRequest,
       portVars, txVars, rxVars
  <2>2. Bools
    BY <1>11, Zenon DEF PortAbsentClean, Bools, CancelRecvRequest, portVars
  <2>. QED  BY <2>1, <2>2, <1>g
<1>12. CASE FreeRecvRequest
  <2>1. Goal
    BY <1>12, PcFields, <1>a DEF Goal, FreeRecvRequest, PortTail,
       portVars, txVars, rxVars
  <2>2. Bools
    <3>1. port # "Absent" /\ pc.then \in {"Free", "Clean"}
      BY <1>12, PcFields DEF FreeRecvRequest, Conts
    <3>. QED  BY <1>12, <3>1, Zenon DEF PortAbsentClean, Bools, FreeRecvRequest, PortTail
  <2>. QED  BY <2>1, <2>2, <1>g
<1>13. CASE UdpIoRecvDatagram
  <2>1. Goal
    <3>1. PICK o \in RecvOutcomes(recvReq, rxLive) :
            /\ rxLive'     = AddTok(rxLive, o, {"Queued", "DoneData", "DoneErr"})
            /\ udpRx'      = AddTok(udpRx, o, {"Queued"})
            /\ rxSignaled' = AddTok(rxSignaled, o, {"DoneData", "DoneErr"})
            /\ rxData'     = AddTok(rxData, o, {"DoneData"})
            /\ udpBufs'    = AddTok(udpBufs, o, {"DoneData"})
            /\ IF o.ret = "Success"
               THEN pc' = [op |-> "RecvSet", tok |-> o.tok] /\ rxRet' = "None"
               ELSE pc' = pc /\ rxRet' = o.ret
      BY <1>13 DEF UdpIoRecvDatagram
    <3>2. /\ o.at \in {"None", "Queued", "DoneData", "DoneErr"}
          /\ o.at # "None" => o.tok \in RxTokens \ rxLive /\ o.ret = "Success"
          /\ o.ret = "Success" => o.at # "None"
          /\ o.ret = "Success" => recvReq = NoToken /\ port = "Configured"
      BY RecvOutcomeType, RecvOutcomeGuard
    <3>3. pc = Idle /\ port # "Absent"
      BY <1>13 DEF UdpIoRecvDatagram
    <3>4. UNCHANGED <<port, child, opened, sent, udpTx, recvReq, rxHeld>>
      BY <1>13 DEF UdpIoRecvDatagram, portVars, txVars
    <3>5. CASE o.ret = "Success"
      BY <3>1, <3>2, <3>3, <3>4, <3>5, <1>a DEF Goal, AddTok
    <3>6. CASE o.ret # "Success"
      BY <3>1, <3>2, <3>3, <3>4, <3>6, <1>a DEF Goal, AddTok
    <3>. QED  BY <3>5, <3>6
  <2>2. Bools
    BY <1>13, Zenon DEF PortAbsentClean, Bools, UdpIoRecvDatagram, portVars
  <2>. QED  BY <2>1, <2>2, <1>g
<1>14. CASE RecvSet
  <2>1. Goal
    BY <1>14, PcFields, <1>a DEF Goal, RecvSet,
       portVars, txVars, rxVars
  <2>2. Bools
    BY <1>14, Zenon DEF PortAbsentClean, Bools, RecvSet, portVars
  <2>. QED  BY <2>1, <2>2, <1>g
<1>15. ASSUME NEW t \in RxTokens, UdpIoRecycleDgram(t) PROVE RxInv'
  <2>1. Goal
    BY <1>15, <1>a DEF Goal, UdpIoRecycleDgram,
       portVars, txVars, rxVars
  <2>2. Bools
    BY <1>15, Zenon DEF PortAbsentClean, Bools, UdpIoRecycleDgram, portVars
  <2>. QED  BY <2>1, <2>2, <1>g
<1>16. CASE UserConfigure
  <2>1. Goal
    BY <1>16, <1>a DEF Goal, UserConfigure,
       portVars, txVars, rxVars
  <2>2. Bools
    BY <1>16, Zenon DEF PortAbsentClean, Bools, UserConfigure, portVars
  <2>. QED  BY <2>1, <2>2, <1>g
<1>17. ASSUME NEW p \in Packets, UdpTransmitDone(p) PROVE RxInv'
  <2>1. Goal
    BY <1>17, <1>a DEF Goal, UdpTransmitDone,
       portVars, txVars, rxVars
  <2>2. Bools
    BY <1>17, Zenon DEF PortAbsentClean, Bools, UdpTransmitDone, portVars
  <2>. QED  BY <2>1, <2>2, <1>g
<1>18. ASSUME NEW p \in Packets, UdpIoOnDgramSent(p) PROVE RxInv'
  <2>1. Goal
    BY <1>18, <1>a DEF Goal, UdpIoOnDgramSent,
       portVars, txVars, rxVars
  <2>2. Bools
    BY <1>18, Zenon DEF PortAbsentClean, Bools, UdpIoOnDgramSent, portVars
  <2>. QED  BY <2>1, <2>2, <1>g
<1>19. ASSUME NEW t \in RxTokens, UdpReceiveDone(t) PROVE RxInv'
  <2>1. Goal
    BY <1>19, <1>a DEF Goal, UdpReceiveDone,
       portVars, txVars, rxVars
  <2>2. Bools
    BY <1>19, Zenon DEF PortAbsentClean, Bools, UdpReceiveDone, portVars
  <2>. QED  BY <2>1, <2>2, <1>g
<1>20. ASSUME NEW t \in RxTokens, UdpIoOnDgramRcvd(t) PROVE RxInv'
  <2>1. Goal
    <3>1. PICK k \in Deliveries(t), o \in RecvOutcomes(NoToken, rxLive) \cup {NoCall} :
            /\ recvReq'    = IF o.ret = "Success" THEN o.tok ELSE NoToken
            /\ rxLive'     = AddTok(IF FreesToken(k) THEN rxLive \ {t} ELSE rxLive, o,
                                    {"Queued", "DoneData", "DoneErr"})
            /\ udpRx'      = AddTok(udpRx, o, {"Queued"})
            /\ rxSignaled' = AddTok(rxSignaled \ {t}, o, {"DoneData", "DoneErr"})
            /\ rxData'     = AddTok(rxData \ {t}, o, {"DoneData"})
            /\ rxHeld'     = IF k = "Keep" THEN rxHeld \cup {t} ELSE rxHeld
      BY <1>20 DEF UdpIoOnDgramRcvd, ClearRecvRequest
    <3>2. /\ o.at \in {"None", "Queued", "DoneData", "DoneErr"}
          /\ o.at # "None" => o.tok \in RxTokens \ rxLive /\ o.ret = "Success"
          /\ o.ret = "Success" => o.at # "None"
          /\ o.ret = "Success" => port = "Configured"
      <4>1. o.ret = "Success" => o \in RecvOutcomes(NoToken, rxLive)
        BY DEF NoCall
      <4>. QED  BY <4>1, RecvOutcomeType, RecvOutcomeGuard
    <3>3. pc = Idle /\ t = recvReq /\ udpRx = {} /\ rxSignaled = {t}
      BY <1>20 DEF UdpIoOnDgramRcvd
    <3>4. UNCHANGED <<port, child, opened, sent, udpTx, pc>>
      BY <1>20 DEF UdpIoOnDgramRcvd, portVars, txVars
    <3>5. /\ (IF FreesToken(k) THEN rxLive \ {t} ELSE rxLive) = rxHeld'
          /\ t \notin rxHeld
      BY <3>1, <3>3 DEF Deliveries, FreesToken
    <3>6. CASE o.ret = "Success"
      BY <3>1, <3>2, <3>3, <3>4, <3>5, <3>6, <1>a DEF Goal, AddTok
    <3>7. CASE o.ret # "Success"
      BY <3>1, <3>2, <3>3, <3>4, <3>5, <3>7, <1>a DEF Goal, AddTok
    <3>. QED  BY <3>6, <3>7
  <2>2. Bools
    BY <1>20, Zenon DEF PortAbsentClean, Bools, UdpIoOnDgramRcvd, portVars
  <2>. QED  BY <2>1, <2>2, <1>g
<1>21. CASE UNCHANGED vars
  BY <1>21, <1>g, Zenon DEF vars, portVars, txVars, rxVars, Goal, Bools, PortAbsentClean
<1>. QED
  BY <1>1, <1>2, <1>3, <1>4, <1>5, <1>6, <1>7, <1>8, <1>9, <1>10, <1>11,
     <1>12, <1>13, <1>14, <1>15, <1>16, <1>17, <1>18, <1>19, <1>20, <1>21
  DEF Next, Caller, Environment

\* At TPL_CALLBACK the receive side and the port's lifetime keep RxInv in
\* every reachable state, for any number of packets and receive tokens.
THEOREM RxInvariant == ~SyncNotify => (Spec => []RxInv)
<1> SUFFICES ASSUME ~SyncNotify PROVE Spec => []RxInv
  OBVIOUS
<1>1. Init => RxInv
  <2> SUFFICES ASSUME Init PROVE RxInv
    OBVIOUS
  <2>1. TypeOK
    BY TypeInit
  <2>2. RxPcInv /\ RxOneRequest /\ RxTokensAccounted
    BY DEF Init, Idle, RxPcInv, RxOneRequest, RxTokensAccounted, RxTracked
  <2>3. PortAbsentClean
    BY Zenon DEF Init, PortAbsentClean
  <2>. QED  BY <2>1, <2>2, <2>3 DEF RxInv
<1>. QED  BY <1>1, RxInvStep, PTL DEF Spec

\* "Only one receive request is supported": UDP holds or has completed at
\* most one receive of the port, the one UdpIoRecvDatagram recorded in
\* RecvRequest (or is about to record, or is cancelling), and a non-NULL
\* RecvRequest is outstanding in UDP.
THEOREM RxOneRequestHolds == ~SyncNotify => (Spec => []RxOneRequest)
BY RxInvariant, PTL DEF RxInv

\* Every allocated UDP_RX_TOKEN is the tracked request or the token of a
\* NET_BUF the user holds: no error path of UdpIoRecvDatagram or
\* UdpIoOnDgramRcvd leaks one, and none is freed while still in use.
THEOREM RxTokensAccountedHolds == ~SyncNotify => (Spec => []RxTokensAccounted)
BY RxInvariant, PTL DEF RxInv

\* Every unwinding of UdpIoCreatePort, and UdpIoFreePort, leaves no child,
\* no open protocol, no linked datagram and no receive request behind.
THEOREM PortAbsentCleanHolds == ~SyncNotify => (Spec => []PortAbsentClean)
BY RxInvariant, PTL DEF RxInv

-----------------------------------------------------------------------------
(***************************************************************************)
(* Refinement of the user's view of transmission, UdpIoTxContract.  Under  *)
(* the mapping open <- port # "Absent", due <- owed, UdpIoCreatePort's     *)
(* success is Create, a datagram Transmit accepted is Accept, the callback *)
(* of UdpIoOnDgramSent or of the cancel loop is CallBack of one packet,    *)
(* and the tail of UdpIoFreePort is Free; every other step leaves both     *)
(* unchanged.  Free needs no callback owed: the cancel loop has unlinked   *)
(* every datagram when the tail runs (RxPcInv) and none is then in flight  *)
(* outside SentDatagram, so TxCallbackOwed gives owed = 0 everywhere.      *)
(***************************************************************************)
RefInv == TxInv /\ RxInv

LEMMA RefInvInit == Init => RefInv
<1> SUFFICES ASSUME Init PROVE RefInv
  OBVIOUS
<1>1. TypeOK
  BY TypeInit
<1>2. TxInv
  BY DEF Init, TxInv, TxCallbackOwed, PcTokenUnlinked, InFlight, Idle
<1>3. RxPcInv /\ RxOneRequest /\ RxTokensAccounted
  BY DEF Init, Idle, RxPcInv, RxOneRequest, RxTokensAccounted, RxTracked
<1>4. PortAbsentClean
  BY Zenon DEF Init, PortAbsentClean
<1>. QED  BY <1>1, <1>2, <1>3, <1>4 DEF RefInv, RxInv

LEMMA RefInvStep ==
  ~SyncNotify /\ ~NestedCancel => (RefInv /\ [Next]_vars => RefInv')
BY TxInvStep, RxInvStep DEF RefInv, RxInv

\* The initial state of the port is the contract's: no port, nothing owed.
LEMMA TxContractInit == Init => TxContract!Init
BY DEF Init, TxContract!Init

\* Every step of the port is a step of the contract or leaves the user's
\* view unchanged.
LEMMA TxContractStep ==
  ~SyncNotify /\ ~NestedCancel
    => (RefInv /\ [Next]_vars => [TxContract!Next]_(TxContract!vars))
<1> SUFFICES ASSUME ~SyncNotify, ~NestedCancel, RefInv, [Next]_vars
             PROVE  [TxContract!Next]_(TxContract!vars)
  OBVIOUS
<1> USE DEF portVars, txVars, rxVars
<1>t. TypeOK /\ TxCallbackOwed /\ RxPcInv
  BY DEF RefInv, RxInv, TxInv
<1>p. pc \in PcStates
  BY <1>t DEF TypeOK
<1>o. owed \in [Packets -> Int]
  BY <1>t DEF TypeOK
<1>w. \A p \in Packets : owed[p] = IF p \in InFlight THEN 1 ELSE 0
  BY <1>t DEF TxCallbackOwed
<1>x. txSignaled \subseteq InFlight
  BY <1>t DEF TxCallbackOwed
<1>s. ASSUME (port' # "Absent") = (port # "Absent"), owed' = owed
      PROVE  [TxContract!Next]_(TxContract!vars)
  BY <1>s DEF TxContract!vars
\* The callback of packet q, owed one callback, is CallBack({q}).
<1>c. ASSUME NEW q \in Packets, owed[q] = 1, port' = port,
             owed' = [owed EXCEPT ![q] = @ - 1]
      PROVE  TxContract!Next
  <2>1. owed' = [owed EXCEPT ![q] = 0]
    BY <1>c, <1>o
  <2>2. owed' = [p \in Packets |-> IF p \in {q} THEN 0 ELSE owed[p]]
    BY <2>1, <1>o, Zenon
  <2>3. TxContract!CallBack({q})
    BY <1>c, <2>2 DEF TxContract!CallBack
  <2>. QED  BY <2>3 DEF TxContract!Next
\* Destroying the port once the cancel loop is done, with sent empty and no
\* packet held by the caller, is Free.
<1>f. ASSUME sent = {}, pc.op \notin {"SendInsert", "CancelCb"},
             port # "Absent", port' = "Absent", owed' = owed
      PROVE  TxContract!Next
  <2>1. \A p \in Packets : owed[p] = 0
    BY <1>f, <1>w DEF InFlight
  <2>2. TxContract!Free
    BY <1>f, <2>1 DEF TxContract!Free
  <2>. QED  BY <2>2 DEF TxContract!Next
<1>1. CASE UdpIoCreatePort
  <2>1. CASE port' = port
    BY <1>1, <2>1, <1>s DEF UdpIoCreatePort
  <2>2. CASE port' # port
    <3>1. port = "Absent" /\ port' = "Configured" /\ owed' = owed
      BY <1>1, <2>2 DEF UdpIoCreatePort
    <3>2. TxContract!Create
      BY <3>1 DEF TxContract!Create
    <3>. QED  BY <3>2 DEF TxContract!Next
  <2>. QED  BY <2>1, <2>2
<1>2. ASSUME NEW p \in Packets, UdpIoSendDatagram(p)
      PROVE  [TxContract!Next]_(TxContract!vars)
  <2>1. CASE UNCHANGED <<txVars, pc>>
    BY <1>2, <2>1, <1>s DEF UdpIoSendDatagram
  <2>2. CASE owed' = [owed EXCEPT ![p] = @ + 1]
    <3>1. port # "Absent" /\ owed[p] = 0 /\ port' = port
      BY <1>2 DEF UdpIoSendDatagram
    <3>2. TxContract!Accept(p)
      BY <2>2, <3>1 DEF TxContract!Accept
    <3>. QED  BY <3>2 DEF TxContract!Next
  <2>. QED  BY <1>2, <2>1, <2>2 DEF UdpIoSendDatagram
<1>3. CASE CancelCallBack
  <2>1. pc.op = "CancelCb" /\ pc.pkt \in Packets
    BY <1>3, <1>p, PcFields DEF CancelCallBack
  <2>2. owed' = [owed EXCEPT ![pc.pkt] = @ - 1] /\ port' = port
    BY <1>3 DEF CancelCallBack
  <2>3. owed[pc.pkt] = 1
    BY <2>1, <1>w DEF InFlight
  <2>. QED  BY <2>1, <2>2, <2>3, <1>c
<1>4. ASSUME NEW p \in Packets, UdpIoOnDgramSent(p)
      PROVE  [TxContract!Next]_(TxContract!vars)
  <2>1. owed[p] = 1 /\ port' = port /\ owed' = [owed EXCEPT ![p] = @ - 1]
    BY <1>4, <1>w, <1>x DEF UdpIoOnDgramSent
  <2>. QED  BY <2>1, <1>c
<1>5. CASE ReleaseWithoutRecv
  <2>1. pc.op = "Cancel" /\ pc.then \in {"Free", "Clean"}
    BY <1>5, <1>p, PcFields DEF ReleaseWithoutRecv, Conts
  <2>2. sent = {} /\ port # "Absent"
    BY <1>5, <1>t, <2>1 DEF ReleaseWithoutRecv, RxPcInv, Idle
  <2>3. UNCHANGED owed /\ port' = IF pc.then = "Free" THEN "Absent" ELSE "Unconfigured"
    BY <1>5 DEF ReleaseWithoutRecv, PortTail
  <2>4. CASE pc.then = "Free"
    BY <2>1, <2>2, <2>3, <2>4, <1>f
  <2>5. CASE pc.then = "Clean"
    BY <2>2, <2>3, <2>5, <1>s
  <2>. QED  BY <2>1, <2>4, <2>5
<1>6. CASE FreeRecvRequest
  <2>1. pc.op = "RxFree" /\ pc.then \in {"Free", "Clean"}
    BY <1>6, <1>p, PcFields DEF FreeRecvRequest
  <2>2. sent = {} /\ port # "Absent"
    BY <1>t, <2>1 DEF RxPcInv, Idle
  <2>3. UNCHANGED owed /\ port' = IF pc.then = "Free" THEN "Absent" ELSE "Unconfigured"
    BY <1>6 DEF FreeRecvRequest, PortTail
  <2>4. CASE pc.then = "Free"
    BY <2>1, <2>2, <2>3, <2>4, <1>f
  <2>5. CASE pc.then = "Clean"
    BY <2>2, <2>3, <2>5, <1>s
  <2>. QED  BY <2>1, <2>4, <2>5
<1>7. CASE UserConfigure
  <2>1. port = "Unconfigured" /\ port' = "Configured" /\ UNCHANGED owed
    BY <1>7 DEF UserConfigure
  <2>. QED  BY <2>1 DEF TxContract!vars, TxContract!Next
<1>8. CASE \/ SendInsert \/ \E p \in Packets : UdpIoCancelSentDatagram(p)
           \/ CancelDgram \/ CancelDone \/ UdpIoFreePort \/ UdpIoCleanPort
           \/ CancelRecvRequest \/ UdpIoRecvDatagram \/ RecvSet
           \/ \E t \in RxTokens : UdpIoRecycleDgram(t)
           \/ \E p \in Packets : UdpTransmitDone(p)
           \/ \E t \in RxTokens : UdpReceiveDone(t)
           \/ \E t \in RxTokens : UdpIoOnDgramRcvd(t)
           \/ UNCHANGED vars
  <2>1. UNCHANGED <<port, owed>>
    BY <1>8 DEF SendInsert, UdpIoCancelSentDatagram, CancelDgram, CancelDone,
                UdpIoFreePort, UdpIoCleanPort, CancelRecvRequest,
                UdpIoRecvDatagram, RecvSet, UdpIoRecycleDgram, UdpTransmitDone,
                UdpReceiveDone, UdpIoOnDgramRcvd, vars
  <2>. QED  BY <2>1, <1>s
<1>. QED
  BY <1>1, <1>2, <1>3, <1>4, <1>5, <1>6, <1>7, <1>8
  DEF Next, Caller, Environment

\* At TPL_CALLBACK, and with no callback cancelling another datagram, the
\* port implements UdpIoTxContract: UdpIoSendDatagram accepts a packet only
\* while the port exists and none is owed for it, each callback settles one
\* owed callback, and UdpIoFreePort destroys the child only after every
\* accepted packet was called back.
THEOREM TxContractRefines ==
  ~SyncNotify /\ ~NestedCancel => (Spec => TxContractRefinement)
<1> SUFFICES ASSUME ~SyncNotify, ~NestedCancel PROVE Spec => TxContract!Spec
  BY DEF TxContractRefinement
<1>. QED
  BY RefInvInit, RefInvStep, TxContractInit, TxContractStep, PTL
  DEF Spec, TxContract!Spec

=============
