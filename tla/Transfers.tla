------------------------------ MODULE Transfers ------------------------------
(***************************************************************************)
(* Blocking transfers of one USB device (dwhcidevice.cpp, ControlMessage,  *)
(* Transfer and SubmitBlockingRequest; dwhcixferstagedata.cpp;             *)
(* usbendpoint.cpp) and the device at the other end.  A request runs       *)
(* through its stages, a stage moves its packets in one transaction or,    *)
(* behind a hub, in one for every packet.  How a transaction is carried    *)
(* out is the subject of Dwhci; here it succeeds or fails.  The host and   *)
(* the device each keep track of the packet identifier that comes next,    *)
(* and neither can see what the other one expects.                         *)
(***************************************************************************)
EXTENDS UsbEndpoint, Sequences

CONSTANTS
  Control,          (* endpoint 0 of the device                             *)
  BulkIn, BulkOut,  (* its bulk endpoints                                   *)
  MaxPackets,       (* the most packets of a data stage                     *)
  None

Endpoints == {Control} \cup BulkIn \cup BulkOut

Requests ==
  [endpoint : {Control}, kind : {"none"}, packets : {0}]
    \cup [endpoint : {Control}, kind : {"read", "write"}, packets : 1 .. MaxPackets]
    \cup [endpoint : BulkIn, kind : {"read"}, packets : 1 .. MaxPackets]
    \cup [endpoint : BulkOut, kind : {"write"}, packets : 1 .. MaxPackets]

\* The stage data (m_nPackets, m_nPacketsPerTransaction and the buffer of a stage).
StageRecords ==
  [in : BOOLEAN, status : BOOLEAN, buffer : {"temp", "setup", "data", "null"},
   packets : 0 .. MaxPackets, perTransaction : 0 .. MaxPackets, moved : 0 .. MaxPackets]

ASSUME ConstantsAssumption ==
  /\ Control \notin BulkIn \cup BulkOut /\ BulkIn \cap BulkOut = {}
  /\ MaxPackets \in Nat \ {0}
  /\ None \notin Requests \cup StageRecords

VARIABLES
  split,    (* m_bSplitTransaction: the device is behind a hub, and not fast*)
  nextPID,  (* m_NextPID of every endpoint                                  *)
  request,  (* the last request                                             *)
  state,    (* "idle", "busy", and how the last request ended: "ok", "failed"*)
  step,     (* the stage of the request that runs or comes next             *)
  stage,    (* the stage data, or None                                      *)
  result,   (* m_nResultLen: which buffer was counted, and its packets      *)
  function, (* what the device makes of the control requests                *)
  toggle,   (* the identifier the device expects on its bulk endpoints      *)
  failed    (* the endpoints on which a transfer failed                     *)

vars == <<split, nextPID, request, state, step, stage, result, function, toggle, failed>>

Idle == [phase |-> "idle", request |-> None, left |-> 0, sent |-> 0, pid |-> "Data1"]

Init ==
  /\ split \in BOOLEAN
  /\ nextPID = [e \in Endpoints |-> InitialPID(e = Control)]
  /\ request = None /\ state = "idle" /\ step = 1 /\ stage = None
  /\ result = [of |-> None, packets |-> 0]
  /\ function = Idle
  /\ toggle = [e \in BulkIn \cup BulkOut |-> "Data0"]
  /\ failed = {}

-----------------------------------------------------------------------------
(* SubmitBlockingRequest: the stages of a request.                           *)

OutData   == [in |-> FALSE, status |-> FALSE]
InData    == [in |-> TRUE,  status |-> FALSE]
OutStatus == [in |-> FALSE, status |-> TRUE]
InStatus  == [in |-> TRUE,  status |-> TRUE]

Stages(r) ==
  CASE r.endpoint = Control /\ r.kind = "read"  -> <<OutData, InData, OutStatus>>
    [] r.endpoint = Control /\ r.kind = "none"  -> <<OutData, InStatus>>
    [] r.endpoint = Control /\ r.kind = "write" -> <<OutData, OutData, InStatus>>
    [] r.endpoint \in BulkIn                    -> <<InData>>
    [] r.endpoint \in BulkOut                   -> <<OutData>>

Endpoint == request.endpoint

SubmitBlockingRequest(r) ==
  /\ state # "busy"
  /\ state' = "busy" /\ request' = r /\ step' = 1
  /\ result' = [of |-> None, packets |-> 0]
  /\ UNCHANGED <<split, nextPID, stage, function, toggle, failed>>

-----------------------------------------------------------------------------
(* The stage data.  Whether a stage is the setup stage is decided by the     *)
(* identifier of the endpoint, not by the place of the stage in the request. *)

BufferOf(s) ==
  CASE s.status -> "temp"
    [] ~s.status /\ nextPID[Endpoint] = "Setup" -> "setup"
    [] ~s.status /\ nextPID[Endpoint] # "Setup" ->
         IF request.kind = "none" THEN "null" ELSE "data"

PacketsOf(s) == IF BufferOf(s) \in {"temp", "setup"} THEN 1 ELSE request.packets

NewStage(s) ==
  [in |-> s.in, status |-> s.status, buffer |-> BufferOf(s),
   packets |-> PacketsOf(s), perTransaction |-> IF split THEN 1 ELSE PacketsOf(s), moved |-> 0]

TransferStage ==
  /\ state = "busy" /\ stage = None
  /\ stage' = NewStage(Stages(request)[step])
  /\ UNCHANGED <<split, nextPID, request, state, step, result, function, toggle, failed>>

-----------------------------------------------------------------------------
(* The device.  It takes every setup packet; anything else it answers only   *)
(* if it comes in the right stage, direction and with the right identifier.  *)

PID == GetNextPID(nextPID[Endpoint], stage.status)

Accepts ==
  IF Endpoint # Control THEN PID = toggle[Endpoint]
  ELSE \/ PID = "Setup" /\ stage.buffer = "setup" /\ ~stage.in
       \/ /\ function.phase = "data"
          /\ PID = function.pid /\ stage.in = (function.request.kind = "read")
          /\ stage.buffer = "data" /\ (stage.in \/ stage.perTransaction <= function.left)
       \/ /\ function.phase = "status"
          /\ PID = "Data1" /\ stage.in = (function.request.kind # "read")
          /\ stage.status

(***************************************************************************)
(* The packets a transaction can move: all of them, or fewer if the device *)
(* has less to send.  Behind a hub a stage ends only with its last packet, *)
(* whatever the device sends, so the drivers must ask for no more than the *)
(* device has.                                                             *)
(***************************************************************************)
Answers ==
  IF split \/ stage.buffer # "data" \/ ~stage.in THEN {stage.perTransaction}
  ELSE IF Endpoint = Control THEN {function.left}
  ELSE 1 .. stage.perTransaction

\* A setup packet: the device learns the request and decides what to send.
AfterSetup(left) ==
  [phase |-> IF request.kind = "none" THEN "status" ELSE "data",
   request |-> request, left |-> left, sent |-> 0, pid |-> "Data1"]

AfterData(n) ==
  [function EXCEPT !.left = @ - n, !.sent = @ + n, !.pid = Toggled(@, n),
                   !.phase = IF function.left = n THEN "status" ELSE "data"]

Lengths ==
  IF request.kind = "read" /\ ~split THEN 1 .. request.packets ELSE {request.packets}

\* The device has taken or sent n packets of the transaction.
DeviceMoves(n) ==
  IF Endpoint # Control
  THEN toggle' = [toggle EXCEPT ![Endpoint] = Toggled(@, n)] /\ UNCHANGED function
  ELSE /\ UNCHANGED toggle
       /\ \/ n = 0 /\ UNCHANGED function
          \/ n > 0 /\ stage.buffer = "setup" /\ \E left \in Lengths : function' = AfterSetup(left)
          \/ n > 0 /\ stage.buffer = "data" /\ function' = AfterData(n)
          \/ n > 0 /\ stage.status /\ function' = [function EXCEPT !.phase = "idle"]

-----------------------------------------------------------------------------
(* The transactions.                                                         *)

\* Slip: the status stage overwrites the length of the data.
LengthOfEveryStage(moved) == [of |-> stage.buffer, packets |-> moved]

Length(moved) == IF stage.status THEN result ELSE [of |-> stage.buffer, packets |-> moved]

Continues(n) == split /\ stage.packets > n

Succeed(n) ==
  /\ state = "busy" /\ stage # None
  /\ Accepts /\ n \in Answers
  /\ DeviceMoves(n)
  /\ nextPID' = [nextPID EXCEPT ![Endpoint] = SkipPID(@, n, stage.status)]
  /\ IF Continues(n)
     THEN /\ stage' = [stage EXCEPT !.packets = @ - n, !.moved = @ + n]
          /\ UNCHANGED <<state, step, result>>
     ELSE /\ stage' = None
          /\ result' = Length(stage.moved + n)
          /\ IF step < Len(Stages(request))
             THEN step' = step + 1 /\ UNCHANGED state
             ELSE state' = "ok" /\ UNCHANGED step
  /\ UNCHANGED <<split, request, failed>>

(***************************************************************************)
(* An error, after n packets that the host does not count.  The rest of    *)
(* the request is given up; m_NextPID stays as it is.                      *)
(***************************************************************************)
Fail(n) ==
  /\ state = "busy" /\ stage # None
  /\ n = 0 \/ (Accepts /\ \E all \in Answers : n \in 1 .. all)
  /\ DeviceMoves(n)
  /\ state' = "failed" /\ stage' = None
  /\ failed' = failed \cup {Endpoint}
  /\ UNCHANGED <<split, nextPID, request, step, result>>

-----------------------------------------------------------------------------

Next ==
  \/ \E r \in Requests : SubmitBlockingRequest(r)
  \/ TransferStage
  \/ \E n \in 1 .. MaxPackets : Succeed(n)
  \/ \E n \in 0 .. MaxPackets : Fail(n)

Spec == Init /\ [][Next]_vars

-----------------------------------------------------------------------------

TypeOK ==
  /\ split \in BOOLEAN
  /\ nextPID \in [Endpoints -> PIDs]
  /\ request \in Requests \cup {None}
  /\ state \in {"idle", "busy", "ok", "failed"} /\ (state # "idle" => request # None)
  /\ step \in 1 .. 3
  /\ stage \in StageRecords \cup {None}
  /\ (stage # None /\ stage.buffer # "null" => stage.perTransaction <= stage.packets)
  /\ result \in [of : {None, "setup", "data", "null"}, packets : 0 .. MaxPackets]
  /\ function \in [phase : {"idle", "data", "status"}, request : Requests \cup {None},
                   left : 0 .. MaxPackets, sent : 0 .. MaxPackets, pid : PIDs]
  /\ toggle \in [BulkIn \cup BulkOut -> PIDs]
  /\ failed \subseteq Endpoints

(***************************************************************************)
(* As long as no transfer on an endpoint failed, the device accepts every  *)
(* transaction there: stage, direction and identifier are what it expects, *)
(* over requests of any kind, short answers and any number of packets.     *)
(***************************************************************************)
DeviceAccepts ==
  /\ TypeOK
  /\ state = "busy" /\ stage # None /\ Endpoint \notin failed => Accepts

(***************************************************************************)
(* A control request that succeeded is the one the device carried out, to  *)
(* its last stage, and a read returns the length of what the device sent,  *)
(* not of the setup or status stage.                                       *)
(***************************************************************************)
SuccessMeansDone ==
  state = "ok" /\ Endpoint = Control /\ Control \notin failed =>
    /\ function.phase = "idle" /\ function.request = request
    /\ request.kind = "read" => result = [of |-> "data", packets |-> function.sent]

(***************************************************************************)
(* DWHCITransferStageData asserts that m_pBufferPointer is not 0.          *)
(***************************************************************************)
BufferPointerIsSet == stage # None => stage.buffer # "null"
=============================================================================
