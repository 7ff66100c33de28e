--------------------------- MODULE TransfersProofs ---------------------------
(***************************************************************************)
(* Proofs about Transfers, for any number of bulk endpoints and packets.   *)
(***************************************************************************)
EXTENDS Transfers, TLAPS

Bulk == BulkIn \cup BulkOut

(***************************************************************************)
(* The inductive invariant.  A stage is the one the request has at this    *)
(* step, and has counted no more packets than it was built for.            *)
(***************************************************************************)
StageSound ==
  stage # None =>
    /\ state = "busy"
    /\ stage.in = Stages(request)[step].in /\ stage.status = Stages(request)[step].status
    /\ stage.buffer = "temp" <=> stage.status
    /\ stage.buffer = "null" => Endpoint = Control
    /\ stage.buffer \in {"temp", "setup"} => stage.packets = 1
    /\ stage.moved + stage.packets <= MaxPackets
    /\ stage.buffer # "null" =>
         /\ stage.packets >= 1
         /\ stage.perTransaction = IF split THEN 1 ELSE stage.packets
         /\ ~split => stage.moved = 0

\* The device is in its data stage as long as something is left to move.
FunctionSound ==
  /\ function.phase = "data" => function.left >= 1
  /\ function.left + function.sent <= MaxPackets

StepSound == state = "busy" => step <= Len(Stages(request))

\* Both ends of a bulk endpoint expect the same identifier.
BulkInStep ==
  \A e \in Bulk \ failed : nextPID[e] = toggle[e] /\ nextPID[e] \in {"Data0", "Data1"}

SetupStage == step = 1 /\ nextPID[Control] = "Setup" /\ (stage # None => stage.buffer = "setup")

\* Host and device agree on the identifier and on the packets left.
DataStage ==
  /\ step = 2 /\ request.kind # "none"
  /\ function.phase = "data" /\ function.request = request
  /\ nextPID[Control] = function.pid /\ function.pid \in {"Data0", "Data1"}
  /\ stage = None =>
       /\ function.sent = 0
       /\ split \/ request.kind = "write" => function.left = request.packets
  /\ stage # None =>
       /\ stage.buffer = "data" /\ stage.moved = function.sent
       /\ split \/ request.kind = "write" => function.left = stage.packets

StatusStage ==
  /\ step = Len(Stages(request)) /\ step # 1
  /\ function.phase = "status" /\ function.request = request
  /\ request.kind = "read" => result = [of |-> "data", packets |-> function.sent]

ControlInStep ==
  Control \notin failed =>
    IF state = "busy" /\ Endpoint = Control
    THEN SetupStage \/ DataStage \/ StatusStage
    ELSE nextPID[Control] = "Setup"

IInv ==
  /\ TypeOK
  /\ StageSound
  /\ FunctionSound
  /\ StepSound
  /\ BulkInStep
  /\ ControlInStep
  /\ SuccessMeansDone

-----------------------------------------------------------------------------
(* Requests, their stages, and the identifiers.                              *)

\* What SubmitBlockingRequest makes of a control request.
LEMMA ControlStages ==
  ASSUME NEW r \in Requests, r.endpoint = Control
  PROVE  /\ Len(Stages(r)) = (IF r.kind = "none" THEN 2 ELSE 3)
         /\ Stages(r)[1] = OutData
         /\ r.kind = "none" => Stages(r)[2] = InStatus
         /\ r.kind = "read" => Stages(r)[2] = InData /\ Stages(r)[3] = OutStatus
         /\ r.kind = "write" => Stages(r)[2] = OutData /\ Stages(r)[3] = InStatus
<1>1. r.kind \in {"none", "read", "write"}
  BY DEF Requests
<1>2. CASE r.kind = "none"
  <2>1. Stages(r) = <<OutData, InStatus>>
    BY <1>2, ConstantsAssumption DEF Stages
  <2>2. QED
    BY <1>2, <2>1
<1>3. CASE r.kind = "read"
  <2>1. Stages(r) = <<OutData, InData, OutStatus>>
    BY <1>3, ConstantsAssumption DEF Stages
  <2>2. QED
    BY <1>3, <2>1
<1>4. CASE r.kind = "write"
  <2>1. Stages(r) = <<OutData, OutData, InStatus>>
    BY <1>4, ConstantsAssumption DEF Stages
  <2>2. QED
    BY <1>4, <2>1
<1>5. QED
  BY <1>1, <1>2, <1>3, <1>4

\* And of a bulk request.
LEMMA BulkStages ==
  ASSUME NEW r \in Requests, r.endpoint # Control
  PROVE  /\ r.endpoint \in Bulk
         /\ Len(Stages(r)) = 1
         /\ Stages(r)[1] \in {InData, OutData}
<1>1. CASE r.endpoint \in BulkIn
  <2>1. Stages(r) = <<InData>>
    BY <1>1, ConstantsAssumption DEF Stages
  <2>2. QED
    BY <1>1, <2>1 DEF Bulk
<1>2. CASE r.endpoint \in BulkOut
  <2>1. Stages(r) = <<OutData>>
    BY <1>2, ConstantsAssumption DEF Stages
  <2>2. QED
    BY <1>2, <2>1 DEF Bulk
<1>3. QED
  BY <1>1, <1>2 DEF Requests

\* What the fields of a request may be.
LEMMA RequestFields ==
  ASSUME NEW r \in Requests
  PROVE  /\ r.endpoint \in Endpoints /\ r.kind \in {"none", "read", "write"}
         /\ r.packets \in 0 .. MaxPackets /\ (r.kind # "none" => r.packets >= 1)
         /\ r.endpoint # Control => r.kind # "none"
         /\ Len(Stages(r)) \in 1 .. 3
<1>1. /\ r.endpoint \in Endpoints /\ r.kind \in {"none", "read", "write"}
      /\ r.packets \in 0 .. MaxPackets /\ (r.kind # "none" => r.packets >= 1)
      /\ r.endpoint # Control => r.kind # "none"
  BY ConstantsAssumption DEF Requests, Endpoints
<1>2. QED
  BY <1>1, ControlStages, BulkStages

\* A stage descriptor: only the last stage of a control request is its status stage.
Descriptors == [in : BOOLEAN, status : BOOLEAN]

LEMMA StageDescriptor ==
  ASSUME NEW r \in Requests, NEW i \in 1 .. Len(Stages(r))
  PROVE  /\ Stages(r)[i] \in Descriptors
         /\ r.endpoint # Control => i = 1 /\ Stages(r)[i].status = FALSE
         /\ r.endpoint = Control => (Stages(r)[i].status <=> i # 1 /\ i = Len(Stages(r)))
<1>1. /\ OutData \in Descriptors /\ InData \in Descriptors
      /\ OutStatus \in Descriptors /\ InStatus \in Descriptors
      /\ OutData.status = FALSE /\ InData.status = FALSE
      /\ OutStatus.status = TRUE /\ InStatus.status = TRUE
  BY DEF OutData, InData, OutStatus, InStatus, Descriptors
<1>2. CASE r.endpoint # Control
  <2>1. Len(Stages(r)) = 1 /\ Stages(r)[1] \in {InData, OutData}
    BY <1>2, BulkStages
  <2>2. i = 1
    BY <2>1
  <2>3. QED
    BY <1>1, <1>2, <2>1, <2>2
<1>3. CASE r.endpoint = Control
  <2>1. Len(Stages(r)) \in {2, 3} /\ r.kind \in {"none", "read", "write"}
    BY <1>3, ControlStages, RequestFields
  <2>2. CASE i = 1
    <3>1. Stages(r)[i] = OutData
      BY <1>3, <2>2, ControlStages
    <3>2. QED
      BY <1>1, <1>3, <2>2, <3>1
  <2>3. CASE i = 2
    <3>1. Stages(r)[i] = IF r.kind = "none" THEN InStatus ELSE IF r.kind = "read" THEN InData ELSE OutData
      BY <1>3, <2>1, <2>3, ControlStages
    <3>2. Len(Stages(r)) = IF r.kind = "none" THEN 2 ELSE 3
      BY <1>3, ControlStages
    <3>3. QED
      BY <1>1, <1>3, <2>3, <3>1, <3>2
  <2>4. CASE i = 3
    <3>1. r.kind # "none" /\ Len(Stages(r)) = 3
      BY <1>3, <2>1, <2>4, ControlStages
    <3>2. Stages(r)[i] = IF r.kind = "read" THEN OutStatus ELSE InStatus
      BY <1>3, <2>1, <2>4, <3>1, ControlStages
    <3>3. QED
      BY <1>1, <1>3, <2>4, <3>1, <3>2
  <2>5. i = 1 \/ i = 2 \/ i = 3
    <3>1. PICK n \in {2, 3} : Len(Stages(r)) = n
      BY <2>1
    <3>2. i \in 1 .. n
      BY <3>1
    <3>3. QED
      BY <3>2
  <2>6. QED
    BY <2>2, <2>3, <2>4, <2>5
<1>4. QED
  BY <1>2, <1>3

\* A data identifier toggles into one.
LEMMA ToggledPID ==
  ASSUME NEW pid \in PIDs, NEW n
  PROVE  Toggled(pid, n) \in PIDs /\ (pid # "Setup" => Toggled(pid, n) # "Setup")
BY DEF Toggled, PIDs

\* SkipPID behind a setup, a data and a status stage.
LEMMA SkippedPID ==
  ASSUME NEW pid \in PIDs, NEW n, NEW status \in BOOLEAN
  PROVE  /\ status => SkipPID(pid, n, status) = "Setup"
         /\ ~status /\ pid = "Setup" => SkipPID(pid, n, status) = "Data1"
         /\ ~status /\ pid # "Setup" => SkipPID(pid, n, status) = Toggled(pid, n)
         /\ SkipPID(pid, n, status) \in PIDs
<1>1. CASE status
  BY <1>1 DEF SkipPID, PIDs
<1>2. CASE ~status /\ pid = "Setup"
  BY <1>2 DEF SkipPID, PIDs
<1>3. CASE ~status /\ pid # "Setup"
  <2>1. SkipPID(pid, n, status) = Toggled(pid, n)
    BY <1>3 DEF SkipPID
  <2>2. QED
    BY <1>3, <2>1, ToggledPID
<1>4. QED
  BY <1>1, <1>2, <1>3

-----------------------------------------------------------------------------
(* A transaction.                                                            *)

\* What a stage that runs knows of its request.
LEMMA RunningStage ==
  ASSUME TypeOK, StageSound, StepSound, stage # None
  PROVE  /\ stage \in StageRecords /\ request \in Requests /\ Endpoint \in Endpoints
         /\ state = "busy" /\ step \in 1 .. Len(Stages(request)) /\ Len(Stages(request)) \in 1 .. 3
         /\ Endpoint # Control => ~stage.status /\ step = 1 /\ Len(Stages(request)) = 1
         /\ Endpoint = Control => (stage.status <=> step # 1 /\ step = Len(Stages(request)))
<1>1. stage \in StageRecords /\ state = "busy" /\ request \in Requests
  BY DEF TypeOK, StageSound
<1>2. Endpoint \in Endpoints /\ Len(Stages(request)) \in 1 .. 3
  BY <1>1, RequestFields DEF Endpoint
<1>3. step \in 1 .. Len(Stages(request))
  BY <1>1, <1>2 DEF TypeOK, StepSound
<1>4. Endpoint # Control => Len(Stages(request)) = 1
  BY <1>1, BulkStages DEF Endpoint
<1>5. stage.status = Stages(request)[step].status
  BY DEF StageSound
<1>6. QED
  BY <1>1, <1>2, <1>3, <1>4, <1>5, StageDescriptor DEF Endpoint

\* What the device moves, it has been asked for.
LEMMA MovedByDevice ==
  ASSUME TypeOK, StageSound, StepSound, FunctionSound, stage # None, Endpoint = Control,
         Accepts, NEW all \in Answers, NEW n \in 1 .. all
  PROVE  /\ all <= MaxPackets
         /\ \/ stage.buffer = "setup"
            \/ stage.buffer = "data" /\ function.phase = "data" /\ n <= function.left /\ ~stage.status
            \/ stage.buffer = "temp" /\ stage.status /\ function.phase = "status"
<1>1. stage \in StageRecords /\ (stage.buffer = "temp" <=> stage.status)
  BY RunningStage DEF StageSound
<1>2. \/ PID = "Setup" /\ stage.buffer = "setup" /\ ~stage.in
      \/ /\ function.phase = "data" /\ stage.buffer = "data"
         /\ stage.in \/ stage.perTransaction <= function.left
      \/ function.phase = "status" /\ stage.status
  BY DEF Accepts
<1>3. stage.buffer # "null"
  BY <1>1, <1>2
<1>4. /\ stage.packets >= 1 /\ stage.perTransaction = IF split THEN 1 ELSE stage.packets
      /\ stage.perTransaction \in 1 .. MaxPackets
  BY <1>1, <1>3, ConstantsAssumption DEF StageSound, StageRecords
<1>5. /\ function.left \in 0 .. MaxPackets /\ (function.phase = "data" => function.left >= 1)
      /\ split \in BOOLEAN
  BY DEF TypeOK, FunctionSound
<1>6. \/ all = stage.perTransaction /\ (split \/ stage.buffer # "data" \/ ~stage.in)
      \/ ~split /\ all = function.left /\ stage.buffer = "data" /\ stage.in
  BY DEF Answers
<1>7. all <= MaxPackets
  BY <1>4, <1>5, <1>6, ConstantsAssumption
<1>8. stage.buffer = "data" => function.phase = "data" /\ n <= function.left /\ ~stage.status
  <2>1. CASE stage.buffer = "data"
    <3>1. function.phase = "data" /\ ~stage.status
      BY <1>1, <1>2, <2>1
    <3>2. all <= function.left
      BY <1>2, <1>4, <1>5, <1>6, <2>1, <3>1, <1>1 DEF StageRecords
    <3>3. QED
      BY <1>5, <1>6, <1>4, <3>1, <3>2, ConstantsAssumption
  <2>2. QED
    BY <2>1
<1>9. QED
  BY <1>1, <1>2, <1>3, <1>7, <1>8 DEF StageRecords

FunctionRecords ==
  [phase : {"idle", "data", "status"}, request : Requests \cup {None},
   left : 0 .. MaxPackets, sent : 0 .. MaxPackets, pid : PIDs]

GoodFunctions ==
  {f \in FunctionRecords : (f.phase = "data" => f.left >= 1) /\ f.left + f.sent <= MaxPackets}

\* The device learns a request, and how much it will move.
LEMMA AfterSetupGood ==
  ASSUME request \in Requests, NEW left \in Lengths
  PROVE  LET f == AfterSetup(left) IN
         /\ f \in GoodFunctions
         /\ f.phase = IF request.kind = "none" THEN "status" ELSE "data"
         /\ f.request = request /\ f.left = left /\ f.sent = 0 /\ f.pid = "Data1"
         /\ split \/ request.kind # "read" => left = request.packets
<1>1. request.packets \in 0 .. MaxPackets /\ (request.kind # "none" => request.packets >= 1)
  BY RequestFields
<1>2. left \in 0 .. MaxPackets /\ (request.kind # "none" => left >= 1)
      /\ (split \/ request.kind # "read" => left = request.packets)
  BY <1>1, ConstantsAssumption DEF Lengths
<1> DEFINE phase == IF request.kind = "none" THEN "status" ELSE "data"
<1>3. AfterSetup(left) = [phase |-> phase, request |-> request, left |-> left, sent |-> 0, pid |-> "Data1"]
  BY DEF AfterSetup
<1>4. phase \in {"data", "status"} /\ (phase = "data" => request.kind # "none")
  OBVIOUS
<1>5. AfterSetup(left).phase = phase
  BY <1>3
<1> HIDE DEF phase
<1>6. 0 \in 0 .. MaxPackets /\ left + 0 <= MaxPackets
  BY <1>2, ConstantsAssumption
<1>7. AfterSetup(left) \in GoodFunctions
  BY <1>2, <1>3, <1>4, <1>6 DEF GoodFunctions, FunctionRecords, PIDs
<1>8. QED
  BY <1>2, <1>3, <1>5, <1>7 DEF phase

\* The device has moved n of the packets that were left.
LEMMA AfterDataGood ==
  ASSUME function \in GoodFunctions, NEW n \in Nat, n >= 1, n <= function.left
  PROVE  LET f == AfterData(n) IN
         /\ f \in GoodFunctions
         /\ f.phase = IF function.left = n THEN "status" ELSE "data"
         /\ f.request = function.request /\ f.left = function.left - n /\ f.sent = function.sent + n
         /\ f.pid = Toggled(function.pid, n)
<1> DEFINE phase == IF function.left = n THEN "status" ELSE "data"
           left == function.left - n
           sent == function.sent + n
           pid == Toggled(function.pid, n)
<1>1. AfterData(n) = [function EXCEPT !.left = left, !.sent = sent, !.pid = pid, !.phase = phase]
  BY DEF AfterData
<1>2. /\ function \in FunctionRecords /\ function.left \in 0 .. MaxPackets
      /\ function.sent \in 0 .. MaxPackets /\ function.pid \in PIDs
      /\ function.left + function.sent <= MaxPackets
  BY DEF GoodFunctions, FunctionRecords
<1>3. /\ left \in 0 .. MaxPackets /\ sent \in 0 .. MaxPackets /\ left + sent <= MaxPackets
      /\ phase \in {"data", "status"} /\ (phase = "data" => left >= 1)
  BY <1>2, ConstantsAssumption
<1>4. pid \in PIDs
  BY <1>2, ToggledPID
<1> HIDE DEF phase, left, sent, pid
<1>5. AfterData(n) \in FunctionRecords
  BY <1>1, <1>2, <1>3, <1>4 DEF FunctionRecords
<1>6. /\ AfterData(n).phase = phase /\ AfterData(n).left = left /\ AfterData(n).sent = sent
      /\ AfterData(n).pid = pid /\ AfterData(n).request = function.request
  BY <1>1, <1>2 DEF FunctionRecords
<1>7. AfterData(n) \in GoodFunctions
  BY <1>3, <1>5, <1>6 DEF GoodFunctions
<1>8. QED
  BY <1>6, <1>7 DEF phase, left, sent, pid

\* Every transaction, also one that fails half-way, leaves the device well formed.
LEMMA DeviceState ==
  ASSUME IInv, stage # None, NEW n \in Nat, DeviceMoves(n),
         n = 0 \/ (Accepts /\ \E all \in Answers : n \in 1 .. all)
  PROVE  /\ function' \in GoodFunctions
         /\ toggle' \in [Bulk -> PIDs]
         /\ \A e \in Bulk \ {Endpoint} : toggle'[e] = toggle[e]
         /\ Endpoint # Control =>
              function' = function /\ toggle'[Endpoint] = Toggled(toggle[Endpoint], n)
         /\ Endpoint = Control /\ n > 0 =>
              \/ stage.buffer = "setup" /\ \E left \in Lengths : function' = AfterSetup(left)
              \/ stage.buffer = "data" /\ n <= function.left /\ function' = AfterData(n)
              \/ /\ stage.buffer = "temp"
                 /\ function' = [function EXCEPT !.phase = "idle"] /\ function'.phase = "idle"
                 /\ function'.request = function.request /\ function'.sent = function.sent
<1>1. /\ stage \in StageRecords /\ request \in Requests /\ Endpoint \in Endpoints
      /\ (stage.buffer = "temp" <=> stage.status) /\ function \in GoodFunctions
      /\ toggle \in [Bulk -> PIDs] /\ (Endpoint # Control => Endpoint \in Bulk)
  BY RunningStage DEF IInv, TypeOK, StageSound, FunctionSound, GoodFunctions, FunctionRecords,
                      Endpoints, Bulk
<1>2. CASE Endpoint # Control
  <2>1. function' = function /\ toggle' = [toggle EXCEPT ![Endpoint] = Toggled(toggle[Endpoint], n)]
    BY <1>2 DEF DeviceMoves
  <2>2. Toggled(toggle[Endpoint], n) \in PIDs
    BY <1>1, <1>2, ToggledPID
  <2>3. QED
    BY <1>1, <1>2, <2>1, <2>2
<1>3. CASE Endpoint = Control /\ n = 0
  <2>1. UNCHANGED <<toggle, function>>
    BY <1>3 DEF DeviceMoves
  <2>2. QED
    BY <1>1, <1>3, <2>1
<1>4. CASE Endpoint = Control /\ n > 0
  <2>1. \/ stage.buffer = "setup"
        \/ stage.buffer = "data" /\ n <= function.left /\ ~stage.status
        \/ stage.buffer = "temp" /\ stage.status
    BY <1>4, MovedByDevice DEF IInv
  <2>2. toggle' = toggle
    BY <1>4 DEF DeviceMoves
  <2>3. CASE stage.buffer = "setup"
    <3>1. PICK left \in Lengths : function' = AfterSetup(left)
      BY <1>1, <1>4, <2>3 DEF DeviceMoves
    <3>2. QED
      BY <1>1, <1>4, <2>2, <2>3, <3>1, AfterSetupGood
  <2>4. CASE stage.buffer = "data" /\ n <= function.left /\ ~stage.status
    <3>1. function' = AfterData(n)
      BY <1>4, <2>4 DEF DeviceMoves
    <3>2. QED
      BY <1>1, <1>4, <2>2, <2>4, <3>1, AfterDataGood
  <2>5. CASE stage.buffer = "temp" /\ stage.status
    <3>1. function' = [function EXCEPT !.phase = "idle"]
      BY <1>4, <2>5 DEF DeviceMoves
    <3>2. /\ function' \in GoodFunctions /\ function'.phase = "idle"
          /\ function'.request = function.request /\ function'.sent = function.sent
      BY <1>1, <3>1 DEF GoodFunctions, FunctionRecords
    <3>3. QED
      BY <1>1, <1>4, <2>2, <2>5, <3>1, <3>2
  <2>6. QED
    BY <2>1, <2>3, <2>4, <2>5
<1>5. QED
  BY <1>2, <1>3, <1>4

-----------------------------------------------------------------------------
(* The invariant is inductive.                                               *)

LEMMA FailPreserves ==
  ASSUME IInv, NEW n \in 0 .. MaxPackets, Fail(n)
  PROVE  IInv'
<1>1. /\ state = "busy" /\ stage # None /\ n \in Nat /\ DeviceMoves(n)
      /\ n = 0 \/ (Accepts /\ \E all \in Answers : n \in 1 .. all)
      /\ state' = "failed" /\ stage' = None /\ failed' = failed \cup {Endpoint}
      /\ UNCHANGED <<split, nextPID, request, step, result>>
  BY ConstantsAssumption DEF Fail
<1>2. /\ function' \in GoodFunctions /\ toggle' \in [Bulk -> PIDs]
      /\ \A e \in Bulk \ {Endpoint} : toggle'[e] = toggle[e]
  BY <1>1, DeviceState
<1>3. Endpoint \in Endpoints /\ request \in Requests
  BY <1>1, RunningStage DEF IInv
<1>4. TypeOK'
  <2>1. request # None
    BY <1>3, ConstantsAssumption
  <2>2. QED
    BY <1>1, <1>2, <1>3, <2>1 DEF IInv, TypeOK, GoodFunctions, FunctionRecords, Bulk
<1>5. StageSound' /\ StepSound' /\ SuccessMeansDone'
  BY <1>1 DEF StageSound, StepSound, SuccessMeansDone
<1>6. FunctionSound'
  BY <1>2 DEF FunctionSound, GoodFunctions
<1>7. BulkInStep'
  BY <1>1, <1>2 DEF IInv, BulkInStep
<1>8. ControlInStep'
  BY <1>1 DEF IInv, ControlInStep
<1>9. QED
  BY <1>4, <1>5, <1>6, <1>7, <1>8 DEF IInv

\* SubmitBlockingRequest finds a device at rest.
LEMMA SubmitPreserves ==
  ASSUME IInv, NEW r \in Requests, SubmitBlockingRequest(r)
  PROVE  IInv'
<1>1. /\ state # "busy" /\ state' = "busy" /\ request' = r /\ step' = 1
      /\ result' = [of |-> None, packets |-> 0]
      /\ UNCHANGED <<split, nextPID, stage, function, toggle, failed>>
  BY DEF SubmitBlockingRequest
<1>2. stage = None
  BY <1>1 DEF IInv, StageSound
<1>3. r # None
  BY ConstantsAssumption
<1>4. TypeOK'
  <2>1. result' \in [of : {None, "setup", "data", "null"}, packets : 0 .. MaxPackets]
    BY <1>1, ConstantsAssumption
  <2>2. QED
    BY <1>1, <1>2, <1>3, <2>1 DEF IInv, TypeOK
<1>5. StageSound' /\ FunctionSound' /\ BulkInStep' /\ SuccessMeansDone'
  BY <1>1, <1>2 DEF IInv, StageSound, FunctionSound, BulkInStep, SuccessMeansDone
<1>6. StepSound'
  BY <1>1, RequestFields DEF StepSound
<1>7. ControlInStep'
  BY <1>1, <1>2 DEF IInv, ControlInStep, SetupStage
<1>8. QED
  BY <1>4, <1>5, <1>6, <1>7 DEF IInv

\* The buffer of a stage follows from the stage and the identifier of the endpoint.
LEMMA StageBuffer ==
  ASSUME request \in Requests, NEW s \in Descriptors
  PROVE  /\ s.status => BufferOf(s) = "temp"
         /\ ~s.status /\ nextPID[Endpoint] = "Setup" => BufferOf(s) = "setup"
         /\ ~s.status /\ nextPID[Endpoint] # "Setup" =>
              BufferOf(s) = IF request.kind = "none" THEN "null" ELSE "data"
         /\ BufferOf(s) \in {"temp", "setup", "data", "null"}
         /\ BufferOf(s) = "temp" <=> s.status
         /\ BufferOf(s) = "null" => Endpoint = Control
         /\ PacketsOf(s) \in 0 .. MaxPackets /\ (BufferOf(s) # "null" => PacketsOf(s) >= 1)
<1>1. s.status \in BOOLEAN
  BY DEF Descriptors
<1>2. /\ s.status => BufferOf(s) = "temp"
      /\ ~s.status /\ nextPID[Endpoint] = "Setup" => BufferOf(s) = "setup"
      /\ ~s.status /\ nextPID[Endpoint] # "Setup" =>
           BufferOf(s) = IF request.kind = "none" THEN "null" ELSE "data"
  <2>1. CASE s.status
    BY <2>1 DEF BufferOf
  <2>2. CASE ~s.status /\ nextPID[Endpoint] = "Setup"
    BY <2>2 DEF BufferOf
  <2>3. CASE ~s.status /\ nextPID[Endpoint] # "Setup"
    BY <2>3 DEF BufferOf
  <2>4. QED
    BY <1>1, <2>1, <2>2, <2>3
<1>3. /\ request.kind \in {"none", "read", "write"} /\ request.packets \in 0 .. MaxPackets
      /\ request.kind # "none" => request.packets >= 1
      /\ Endpoint # Control => request.kind # "none"
  BY RequestFields DEF Endpoint
<1>4. PacketsOf(s) = IF BufferOf(s) \in {"temp", "setup"} THEN 1 ELSE request.packets
  BY DEF PacketsOf
<1> HIDE DEF BufferOf, PacketsOf
<1>5. QED
  BY <1>1, <1>2, <1>3, <1>4, ConstantsAssumption

LEMMA TransferStagePreserves ==
  ASSUME IInv, TransferStage
  PROVE  IInv'
<1> DEFINE s == Stages(request)[step]
<1>1. /\ state = "busy" /\ stage = None /\ stage' = NewStage(s)
      /\ UNCHANGED <<split, nextPID, request, state, step, result, function, toggle, failed>>
  BY DEF TransferStage
<1>2. request \in Requests /\ step \in 1 .. Len(Stages(request)) /\ split \in BOOLEAN
  BY <1>1, RequestFields DEF IInv, TypeOK, StepSound
<1>3. s \in Descriptors
  BY <1>2, StageDescriptor
<1> DEFINE buffer == BufferOf(s)
           packets == PacketsOf(s)
           perTransaction == IF split THEN 1 ELSE packets
<1>4. stage' = [in |-> s.in, status |-> s.status, buffer |-> buffer, packets |-> packets,
                perTransaction |-> perTransaction, moved |-> 0]
  BY <1>1 DEF NewStage
<1>5. /\ s.in \in BOOLEAN /\ s.status \in BOOLEAN
      /\ buffer \in {"temp", "setup", "data", "null"} /\ packets \in 0 .. MaxPackets
      /\ buffer = "temp" <=> s.status
      /\ buffer = "null" => Endpoint = Control
      /\ buffer # "null" => packets >= 1
      /\ buffer \in {"temp", "setup"} => packets = 1
      /\ buffer \notin {"temp", "setup"} => packets = request.packets
  BY <1>2, <1>3, StageBuffer DEF Descriptors, PacketsOf
<1>6. Endpoint' = Endpoint /\ Stages(request)' = Stages(request)
  BY <1>1 DEF Endpoint, Stages
<1>7. perTransaction \in 0 .. MaxPackets /\ (buffer # "null" => perTransaction <= packets)
  BY <1>2, <1>5, ConstantsAssumption
<1> HIDE DEF s, buffer, packets, perTransaction
<1>8. /\ stage' \in StageRecords
      /\ stage'.in = s.in /\ stage'.status = s.status /\ stage'.buffer = buffer
      /\ stage'.packets = packets /\ stage'.perTransaction = perTransaction /\ stage'.moved = 0
  BY <1>4, <1>5, <1>7, ConstantsAssumption DEF StageRecords
<1>9. TypeOK'
  BY <1>1, <1>7, <1>8 DEF IInv, TypeOK
<1>10. StageSound'
  <2>1. stage'.in = Stages(request')[step'].in /\ stage'.status = Stages(request')[step'].status
    BY <1>1, <1>8 DEF s
  <2>2. stage'.moved + stage'.packets <= MaxPackets
    BY <1>5, <1>8, ConstantsAssumption
  <2>3. /\ stage'.buffer = "temp" <=> stage'.status
        /\ stage'.buffer = "null" => Endpoint' = Control
        /\ stage'.buffer \in {"temp", "setup"} => stage'.packets = 1
    BY <1>5, <1>6, <1>8
  <2>4. stage'.buffer # "null" =>
          /\ stage'.packets >= 1
          /\ stage'.perTransaction = IF split' THEN 1 ELSE stage'.packets
          /\ ~split' => stage'.moved = 0
    BY <1>1, <1>5, <1>8 DEF perTransaction
  <2>5. QED
    BY <1>1, <2>1, <2>2, <2>3, <2>4 DEF StageSound
<1>11. FunctionSound' /\ StepSound' /\ BulkInStep' /\ SuccessMeansDone'
  BY <1>1 DEF IInv, FunctionSound, StepSound, BulkInStep, SuccessMeansDone
<1>12. ControlInStep'
  <2>1. SUFFICES ASSUME Control \notin failed, Endpoint = Control
                 PROVE  (SetupStage \/ DataStage \/ StatusStage)'
    BY <1>1, <1>6 DEF IInv, ControlInStep
  <2>2. SetupStage \/ DataStage \/ StatusStage
    BY <1>1, <2>1 DEF IInv, ControlInStep
  <2>3. s.status <=> step # 1 /\ step = Len(Stages(request))
    BY <1>2, <2>1, StageDescriptor DEF s, Endpoint
  <2>4. CASE SetupStage
    <3>1. buffer = "setup"
      BY <1>2, <1>3, <2>1, <2>3, <2>4, StageBuffer DEF SetupStage, buffer
    <3>2. QED
      BY <1>1, <1>8, <2>4, <3>1 DEF SetupStage
  <2>5. CASE DataStage
    <3>1. request.kind \in {"read", "write"} /\ Len(Stages(request)) = 3
      BY <1>2, <2>1, <2>5, ControlStages, RequestFields DEF DataStage, Endpoint
    <3>2. ~s.status
      BY <2>3, <2>5, <3>1 DEF DataStage
    <3>3. buffer = "data"
      BY <1>2, <1>3, <2>1, <2>5, <3>1, <3>2, StageBuffer DEF DataStage, buffer
    <3>4. packets = request.packets
      BY <1>5, <3>3
    <3>5. QED
      BY <1>1, <1>8, <2>5, <3>3, <3>4 DEF DataStage
  <2>6. CASE StatusStage
    BY <1>1, <2>6 DEF StatusStage
  <2>7. QED
    BY <2>2, <2>4, <2>5, <2>6
<1>13. QED
  BY <1>9, <1>10, <1>11, <1>12 DEF IInv

\* What a transaction moves, and when it leaves some of its stage to the next one.
LEMMA Moved ==
  ASSUME IInv, stage # None, Accepts, NEW n \in Answers, n \in 1 .. MaxPackets
  PROVE  /\ stage.buffer # "null" /\ stage.moved + n <= MaxPackets
         /\ stage.buffer \in {"temp", "setup"} => n = 1 /\ ~Continues(n)
         /\ split => n = 1
         /\ Endpoint = Control /\ ~split /\ stage.buffer = "data" /\ stage.in => n = function.left
         /\ ~split /\ stage.buffer = "data" /\ ~stage.in => n = stage.packets
<1>1. /\ stage \in StageRecords /\ (stage.buffer = "temp" <=> stage.status) /\ split \in BOOLEAN
      /\ stage.moved + stage.packets <= MaxPackets
      /\ stage.buffer = "null" => Endpoint = Control
      /\ stage.buffer \in {"temp", "setup"} => stage.packets = 1
  BY RunningStage DEF IInv, TypeOK, StageSound
<1>2. stage.buffer # "null"
  BY <1>1 DEF Accepts, StageRecords
<1>3. /\ stage.packets >= 1 /\ stage.perTransaction = IF split THEN 1 ELSE stage.packets
      /\ ~split => stage.moved = 0
      /\ stage.packets \in Nat /\ stage.moved \in Nat /\ stage.in \in BOOLEAN
      /\ stage.buffer \in {"temp", "setup", "data"}
  BY <1>1, <1>2 DEF IInv, StageSound, StageRecords
<1>4. \/ (split \/ stage.buffer # "data" \/ ~stage.in) /\ n = stage.perTransaction
      \/ ~split /\ stage.buffer = "data" /\ stage.in /\ Endpoint = Control /\ n = function.left
      \/ ~split /\ stage.buffer = "data" /\ stage.in /\ Endpoint # Control
  BY <1>3 DEF Answers
<1>5. stage.moved + n <= MaxPackets
  BY <1>1, <1>3, <1>4, ConstantsAssumption
<1>6. QED
  BY <1>1, <1>2, <1>3, <1>4, <1>5 DEF Continues

\* What Succeed does to the stage and the request.
StageContinues(n) ==
  /\ split /\ stage.packets > n
  /\ stage' = [stage EXCEPT !.packets = @ - n, !.moved = @ + n]
  /\ UNCHANGED <<state, step, result>>

StageEnds(n) ==
  /\ ~(split /\ stage.packets > n)
  /\ stage' = None
  /\ result' = Length(stage.moved + n)
  /\ \/ step < Len(Stages(request)) /\ step' = step + 1 /\ state' = state
     \/ ~(step < Len(Stages(request))) /\ state' = "ok" /\ step' = step

LEMMA StageGoesOn ==
  ASSUME IInv, stage # None, Accepts, NEW n \in Answers, n \in 1 .. MaxPackets, StageContinues(n)
  PROVE  /\ n = 1 /\ stage' \in StageRecords /\ stage.buffer = "data" /\ stage'.buffer = "data"
         /\ stage'.in = stage.in /\ stage'.status = stage.status
         /\ stage'.packets = stage.packets - 1 /\ stage'.moved = stage.moved + 1
         /\ stage'.packets >= 1 /\ stage'.perTransaction = 1
         /\ stage'.moved + stage'.packets = stage.moved + stage.packets
<1>1. n = 1 /\ stage.buffer = "data" /\ stage.moved + n <= MaxPackets
  BY Moved, RunningStage DEF IInv, StageContinues, Continues, StageRecords
<1>2. stage \in StageRecords /\ stage.packets > 1 /\ stage.packets \in Nat /\ stage.moved \in Nat
  BY <1>1, RunningStage DEF IInv, StageContinues, StageRecords
<1>3. stage.perTransaction = 1
  BY <1>1 DEF IInv, StageSound, StageContinues
<1> DEFINE packets == stage.packets - 1
           moved == stage.moved + 1
<1>4. stage' = [stage EXCEPT !.packets = packets, !.moved = moved]
  BY <1>1 DEF StageContinues
<1>5. packets \in 0 .. MaxPackets /\ moved \in 0 .. MaxPackets /\ packets >= 1
      /\ moved + packets = stage.moved + stage.packets
  BY <1>1, <1>2, ConstantsAssumption DEF StageRecords
<1> HIDE DEF packets, moved
<1>6. /\ stage' \in StageRecords /\ stage'.packets = packets /\ stage'.moved = moved
      /\ stage'.in = stage.in /\ stage'.status = stage.status /\ stage'.buffer = stage.buffer
      /\ stage'.perTransaction = stage.perTransaction
  BY <1>2, <1>4, <1>5 DEF StageRecords
<1>7. QED
  BY <1>1, <1>3, <1>5, <1>6 DEF packets, moved

LEMMA SucceedPreserves ==
  ASSUME IInv, NEW n \in 1 .. MaxPackets, Succeed(n)
  PROVE  IInv'
<1>1. /\ state = "busy" /\ stage # None /\ Accepts /\ n \in Answers /\ DeviceMoves(n)
      /\ nextPID' = [nextPID EXCEPT ![Endpoint] = SkipPID(nextPID[Endpoint], n, stage.status)]
      /\ UNCHANGED <<split, request, failed>>
  BY DEF Succeed
<1>2. StageContinues(n) \/ StageEnds(n)
  BY DEF Succeed, Continues, StageContinues, StageEnds
<1>3. /\ stage \in StageRecords /\ request \in Requests /\ Endpoint \in Endpoints
      /\ step \in 1 .. Len(Stages(request)) /\ Len(Stages(request)) \in 1 .. 3
      /\ Endpoint # Control => ~stage.status /\ step = 1 /\ Len(Stages(request)) = 1
      /\ Endpoint = Control => (stage.status <=> step # 1 /\ step = Len(Stages(request)))
      /\ Endpoint' = Endpoint /\ Stages(request') = Stages(request)
      /\ nextPID \in [Endpoints -> PIDs] /\ stage.status \in BOOLEAN
      /\ stage.buffer = "temp" <=> stage.status
      /\ Control \in Endpoints /\ Bulk \subseteq Endpoints /\ Control \notin Bulk
      /\ split \in BOOLEAN
  BY <1>1, RunningStage, ConstantsAssumption
  DEF IInv, TypeOK, Endpoint, StageRecords, StageSound, Endpoints, Bulk
<1>4. /\ n \in Nat /\ n >= 1 /\ n \in 1 .. n
      /\ stage.buffer # "null" /\ stage.moved + n <= MaxPackets
      /\ stage.buffer \in {"temp", "setup"} => n = 1 /\ ~Continues(n)
      /\ split => n = 1
      /\ Endpoint = Control /\ ~split /\ stage.buffer = "data" /\ stage.in => n = function.left
      /\ ~split /\ stage.buffer = "data" /\ ~stage.in => n = stage.packets
  BY <1>1, Moved, ConstantsAssumption
<1>5. /\ function' \in GoodFunctions
      /\ toggle' \in [Bulk -> PIDs]
      /\ \A e \in Bulk \ {Endpoint} : toggle'[e] = toggle[e]
      /\ Endpoint # Control =>
           function' = function /\ toggle'[Endpoint] = Toggled(toggle[Endpoint], n)
      /\ Endpoint = Control =>
           \/ stage.buffer = "setup" /\ \E left \in Lengths : function' = AfterSetup(left)
           \/ stage.buffer = "data" /\ n <= function.left /\ function' = AfterData(n)
           \/ /\ stage.buffer = "temp"
              /\ function' = [function EXCEPT !.phase = "idle"] /\ function'.phase = "idle"
              /\ function'.request = function.request /\ function'.sent = function.sent
  BY <1>1, <1>4, DeviceState
<1>6. SkipPID(nextPID[Endpoint], n, stage.status) \in PIDs
  BY <1>3, SkippedPID
<1>7. /\ nextPID' \in [Endpoints -> PIDs]
      /\ nextPID'[Endpoint] = SkipPID(nextPID[Endpoint], n, stage.status)
      /\ \A e \in Endpoints \ {Endpoint} : nextPID'[e] = nextPID[e]
  BY <1>1, <1>3, <1>6
<1>8. /\ state' \in {"busy", "ok"} /\ step' \in 1 .. 3
      /\ state' = "busy" => step' <= Len(Stages(request))
      /\ result' \in [of : {None, "setup", "data", "null"}, packets : 0 .. MaxPackets]
  <2>1. result \in [of : {None, "setup", "data", "null"}, packets : 0 .. MaxPackets]
    BY DEF IInv, TypeOK
  <2>2. CASE StageContinues(n)
    <3>1. state' = "busy" /\ step' = step /\ result' = result
      BY <1>1, <2>2 DEF StageContinues
    <3>2. step \in 1 .. 3 /\ step <= Len(Stages(request))
      BY <1>1 DEF IInv, TypeOK, StepSound
    <3>3. QED
      BY <2>1, <3>1, <3>2
  <2>3. CASE StageEnds(n)
    <3>1. state' \in {"busy", "ok"} /\ step' \in 1 .. 3 /\ (state' = "busy" => step' <= Len(Stages(request)))
      BY <1>1, <1>3, <2>3, SMTT(30) DEF StageEnds
    <3>2. stage.moved + n \in 0 .. MaxPackets
      BY <1>3, <1>4, ConstantsAssumption DEF StageRecords
    <3>3. result' = IF stage.status THEN result ELSE [of |-> stage.buffer, packets |-> stage.moved + n]
      BY <2>3 DEF StageEnds, Length
    <3>4. ~stage.status => stage.buffer \in {"setup", "data"}
      BY <1>3, <1>4 DEF StageRecords
    <3>5. QED
      BY <1>3, <2>1, <3>1, <3>2, <3>3, <3>4
  <2>4. QED
    BY <1>2, <2>2, <2>3
<1>9. /\ stage' \in StageRecords \cup {None}
      /\ stage' # None => stage'.perTransaction <= stage'.packets
      /\ StageSound'
  <2>1. CASE StageContinues(n)
    <3>1. /\ n = 1 /\ stage' \in StageRecords /\ stage.buffer = "data" /\ stage'.buffer = "data"
          /\ stage'.in = stage.in /\ stage'.status = stage.status
          /\ stage'.packets >= 1 /\ stage'.perTransaction = 1
          /\ stage'.moved + stage'.packets = stage.moved + stage.packets
      BY <1>1, <2>1, StageGoesOn
    <3>2. split' /\ state' = state /\ step' = step
      BY <1>1, <2>1 DEF StageContinues
    <3>3. StageSound'
      BY <1>1, <1>3, <3>1, <3>2 DEF IInv, StageSound
    <3>4. QED
      BY <3>1, <3>3 DEF StageRecords
  <2>2. CASE StageEnds(n)
    BY <2>2 DEF StageEnds, StageSound
  <2>3. QED
    BY <1>2, <2>1, <2>2
<1>10. TypeOK'
  <2>1. request' # None
    BY <1>1, <1>3, ConstantsAssumption
  <2>2. function' \in FunctionRecords
    BY <1>5 DEF GoodFunctions
  <2>3. QED
    BY <1>1, <1>3, <1>5, <1>7, <1>8, <1>9, <2>1, <2>2 DEF IInv, TypeOK, FunctionRecords, Bulk
<1>11. FunctionSound' /\ StepSound'
  BY <1>1, <1>3, <1>5, <1>8 DEF FunctionSound, StepSound, GoodFunctions
<1>12. BulkInStep'
  <2>1. SUFFICES ASSUME NEW e \in Bulk \ failed
                 PROVE  nextPID'[e] = toggle'[e] /\ nextPID'[e] \in {"Data0", "Data1"}
    BY <1>1 DEF BulkInStep
  <2>2. nextPID[e] = toggle[e] /\ nextPID[e] \in {"Data0", "Data1"}
    BY DEF IInv, BulkInStep
  <2>3. CASE e # Endpoint
    BY <1>3, <1>5, <1>7, <2>2, <2>3
  <2>4. CASE e = Endpoint
    <3>1. Endpoint # Control /\ ~stage.status
      BY <1>3, <2>4
    <3>2. nextPID'[e] = Toggled(nextPID[e], n)
      BY <1>3, <1>7, <2>2, <2>4, <3>1, SkippedPID
    <3>3. Toggled(nextPID[e], n) \in PIDs /\ Toggled(nextPID[e], n) # "Setup"
      BY <1>3, <2>2, ToggledPID
    <3>4. QED
      BY <1>5, <2>2, <2>4, <3>1, <3>2, <3>3 DEF PIDs
  <2>5. QED
    BY <2>3, <2>4
<1>13. ControlInStep' /\ SuccessMeansDone'
  <2>1. CASE Control \in failed
    BY <1>1, <2>1 DEF ControlInStep, SuccessMeansDone
  <2>2. CASE Endpoint # Control
    BY <1>1, <1>3, <1>7, <2>2 DEF IInv, ControlInStep, SuccessMeansDone
  <2>3. CASE Control \notin failed /\ Endpoint = Control
    <3>1. SetupStage \/ DataStage \/ StatusStage
      BY <1>1, <2>3 DEF IInv, ControlInStep
    <3>2. /\ request.kind \in {"none", "read", "write"}
          /\ Len(Stages(request)) = (IF request.kind = "none" THEN 2 ELSE 3)
          /\ Stages(request)[2] = IF request.kind = "none" THEN InStatus
                                 ELSE IF request.kind = "read" THEN InData ELSE OutData
      BY <1>3, <2>3, ControlStages, RequestFields DEF Endpoint
    <3>3. /\ (stage.status => nextPID'[Control] = "Setup")
          /\ ~stage.status /\ nextPID[Control] = "Setup" => nextPID'[Control] = "Data1"
          /\ ~stage.status /\ nextPID[Control] # "Setup" => nextPID'[Control] = Toggled(nextPID[Control], n)
      BY <1>3, <1>7, <2>3, SkippedPID
    <3>4. CASE SetupStage
      <4>1. /\ stage.buffer = "setup" /\ ~stage.status /\ n = 1 /\ step = 1
            /\ nextPID'[Control] = "Data1"
        BY <1>1, <1>3, <1>4, <3>3, <3>4 DEF SetupStage
      <4>2. StageEnds(n)
        BY <1>2, <1>4, <4>1 DEF StageContinues, Continues
      <4>3. stage' = None /\ step' = 2 /\ state' = "busy"
        BY <1>1, <3>2, <4>1, <4>2 DEF StageEnds
      <4>4. PICK left \in Lengths : function' = AfterSetup(left)
        BY <1>5, <2>3, <4>1
      <4>5. /\ function'.phase = (IF request.kind = "none" THEN "status" ELSE "data")
            /\ function'.request = request /\ function'.left = left
            /\ function'.sent = 0 /\ function'.pid = "Data1"
            /\ split \/ request.kind # "read" => left = request.packets
        BY <1>3, <4>4, AfterSetupGood
      <4>6. CASE request.kind = "none"
        <5>1. StatusStage'
          BY <1>1, <1>3, <3>2, <4>3, <4>5, <4>6 DEF StatusStage
        <5>2. QED
          BY <1>3, <2>3, <4>3, <5>1 DEF ControlInStep, SuccessMeansDone
      <4>7. CASE request.kind # "none"
        <5>1. DataStage'
          BY <1>1, <3>2, <4>1, <4>3, <4>5, <4>7 DEF DataStage
        <5>2. QED
          BY <1>3, <2>3, <4>3, <5>1 DEF ControlInStep, SuccessMeansDone
      <4>8. QED
        BY <4>6, <4>7
    <3>5. CASE DataStage
      <4>1. /\ step = 2 /\ request.kind \in {"read", "write"} /\ Len(Stages(request)) = 3
            /\ stage.buffer = "data" /\ ~stage.status /\ stage.moved = function.sent
            /\ split \/ request.kind = "write" => function.left = stage.packets
            /\ function.request = request /\ function.phase = "data"
            /\ nextPID[Control] = function.pid /\ function.pid \in {"Data0", "Data1"}
        BY <1>1, <1>3, <3>2, <3>5 DEF DataStage
      <4>2. n <= function.left /\ function' = AfterData(n)
        BY <1>5, <2>3, <4>1
      <4>3. function \in GoodFunctions
        BY DEF IInv, TypeOK, FunctionSound, GoodFunctions, FunctionRecords
      <4>4. /\ function'.phase = (IF function.left = n THEN "status" ELSE "data")
            /\ function'.request = request /\ function'.left = function.left - n
            /\ function'.sent = function.sent + n /\ function'.pid = Toggled(function.pid, n)
        BY <1>4, <4>1, <4>2, <4>3, AfterDataGood
      <4>5. /\ nextPID'[Control] = function'.pid /\ function'.pid \in {"Data0", "Data1"}
        <5>1. Toggled(function.pid, n) \in PIDs /\ Toggled(function.pid, n) # "Setup"
          BY <4>1, ToggledPID DEF PIDs
        <5>2. QED
          BY <3>3, <4>1, <4>4, <5>1 DEF PIDs
      <4>6. CASE StageContinues(n)
        <5>1. /\ n = 1 /\ stage'.buffer = "data" /\ stage' \in StageRecords
              /\ stage'.packets = stage.packets - 1 /\ stage'.moved = stage.moved + 1
          BY <1>1, <4>6, StageGoesOn
        <5>2. split /\ stage.packets > n /\ state' = "busy" /\ step' = step /\ stage' # None
          BY <1>1, <4>6, <5>1, ConstantsAssumption DEF StageContinues
        <5>3. stage.packets \in Nat /\ function.left = stage.packets /\ function.left # n
          BY <1>3, <4>1, <5>1, <5>2 DEF StageRecords
        <5>4. DataStage'
          BY <1>1, <4>1, <4>4, <4>5, <5>1, <5>2, <5>3 DEF DataStage
        <5>5. QED
          BY <1>3, <2>3, <5>2, <5>4 DEF ControlInStep, SuccessMeansDone
      <4>7. CASE StageEnds(n)
        <5>1. function.left = n
          <6>1. stage.in = (request.kind = "read")
            <7>1. stage.in = Stages(request)[2].in
              BY <1>1, <4>1 DEF IInv, StageSound
            <7>2. Stages(request)[2] = IF request.kind = "read" THEN InData ELSE OutData
              BY <3>2, <4>1
            <7>3. InData.in = TRUE /\ OutData.in = FALSE
              BY DEF InData, OutData
            <7>4. CASE request.kind = "read"
              BY <7>1, <7>2, <7>3, <7>4
            <7>5. CASE request.kind = "write"
              BY <7>1, <7>2, <7>3, <7>5
            <7>6. QED
              BY <4>1, <7>4, <7>5
          <6>2. function.left \in Nat /\ stage.packets \in Nat
            BY <1>3, <4>3 DEF GoodFunctions, FunctionRecords, StageRecords
          <6>3. CASE split
            BY <1>4, <4>1, <4>2, <4>7, <6>2, <6>3 DEF StageEnds
          <6>4. CASE ~split
            BY <1>4, <2>3, <4>1, <6>1, <6>4
          <6>5. QED
            BY <6>3, <6>4
        <5>2. /\ stage' = None /\ step' = 3 /\ state' = "busy"
              /\ result' = [of |-> "data", packets |-> function'.sent]
          BY <1>1, <4>1, <4>4, <4>7 DEF StageEnds, Length
        <5>3. StatusStage'
          BY <1>1, <1>3, <4>1, <4>4, <5>1, <5>2 DEF StatusStage
        <5>4. QED
          BY <1>3, <2>3, <5>2, <5>3 DEF ControlInStep, SuccessMeansDone
      <4>8. QED
        BY <1>2, <4>6, <4>7
    <3>6. CASE StatusStage
      <4>1. stage.status /\ stage.buffer = "temp" /\ n = 1 /\ nextPID'[Control] = "Setup"
        BY <1>3, <1>4, <2>3, <3>3, <3>6 DEF StatusStage
      <4>2. StageEnds(n)
        BY <1>2, <1>4, <4>1 DEF StageContinues, Continues
      <4>3. state' = "ok" /\ result' = result
        BY <1>3, <3>6, <4>1, <4>2 DEF StageEnds, Length, StatusStage
      <4>4. function'.phase = "idle" /\ function'.request = function.request /\ function'.sent = function.sent
        BY <1>5, <2>3, <4>1
      <4>5. QED
        BY <1>1, <3>6, <4>1, <4>3, <4>4 DEF StatusStage, ControlInStep, SuccessMeansDone
    <3>7. QED
      BY <3>1, <3>4, <3>5, <3>6
  <2>4. QED
    BY <2>1, <2>2, <2>3
<1>14. QED
  BY <1>9, <1>10, <1>11, <1>12, <1>13 DEF IInv

LEMMA InitIInv == Init => IInv
<1> SUFFICES ASSUME Init PROVE IInv
  OBVIOUS
<1>1. TypeOK
  BY ConstantsAssumption DEF Init, TypeOK, InitialPID, Idle, PIDs
<1>2. StageSound /\ StepSound /\ SuccessMeansDone
  BY DEF Init, StageSound, StepSound, SuccessMeansDone
<1>3. FunctionSound
  BY ConstantsAssumption DEF Init, FunctionSound, Idle
<1>4. BulkInStep
  BY ConstantsAssumption DEF Init, BulkInStep, Bulk, InitialPID, Endpoints
<1>5. ControlInStep
  BY DEF Init, ControlInStep, InitialPID, Endpoints
<1>6. QED
  BY <1>1, <1>2, <1>3, <1>4, <1>5 DEF IInv

(***************************************************************************)
(* The invariant, for any endpoints and any number of packets.             *)
(***************************************************************************)
THEOREM Invariance == Spec => []IInv
<1>1. IInv /\ [Next]_vars => IInv'
  <2> SUFFICES ASSUME IInv, [Next]_vars PROVE IInv'
    OBVIOUS
  <2>1. CASE \E r \in Requests : SubmitBlockingRequest(r)
    BY <2>1, SubmitPreserves
  <2>2. CASE TransferStage
    BY <2>2, TransferStagePreserves
  <2>3. CASE \E n \in 1 .. MaxPackets : Succeed(n)
    BY <2>3, SucceedPreserves
  <2>4. CASE \E n \in 0 .. MaxPackets : Fail(n)
    BY <2>4, FailPreserves
  <2>5. CASE UNCHANGED vars
    BY <2>5 DEF vars, IInv, TypeOK, StageSound, FunctionSound, StepSound, BulkInStep,
                ControlInStep, SetupStage, DataStage, StatusStage, SuccessMeansDone, Endpoint
  <2>6. QED
    BY <2>1, <2>2, <2>3, <2>4, <2>5 DEF Next
<1>2. QED
  BY InitIInv, <1>1, PTL DEF Spec

(***************************************************************************)
(* A control request that succeeded was carried out to its last stage, and *)
(* a read returns the length of what the device sent.                      *)
(***************************************************************************)
THEOREM SuccessIsDone == Spec => []SuccessMeansDone
<1>1. IInv => SuccessMeansDone
  BY DEF IInv
<1>2. QED
  BY Invariance, <1>1, PTL

(***************************************************************************)
(* While no transfer on an endpoint failed, host and device agree on the   *)
(* stage, the direction and the identifier of every transaction there.     *)
(***************************************************************************)
THEOREM DeviceAlwaysAccepts == Spec => []DeviceAccepts
<1>1. IInv => DeviceAccepts
  <2> SUFFICES ASSUME IInv, state = "busy", stage # None, Endpoint \notin failed PROVE Accepts
    BY DEF IInv, DeviceAccepts
  <2>1. /\ stage \in StageRecords /\ request \in Requests /\ Endpoint \in Endpoints
        /\ Endpoint # Control => ~stage.status /\ step = 1
        /\ Endpoint = Control => (stage.status <=> step # 1 /\ step = Len(Stages(request)))
        /\ stage.in = Stages(request)[step].in
        /\ split \in BOOLEAN
    BY RunningStage DEF IInv, TypeOK, StageSound
  <2>2. PID = IF stage.status THEN "Data1" ELSE nextPID[Endpoint]
    BY DEF PID, GetNextPID
  <2>3. CASE Endpoint # Control
    <3>1. Endpoint \in Bulk \ failed
      BY <2>1, <2>3 DEF Endpoints, Bulk
    <3>2. QED
      BY <2>1, <2>2, <2>3, <3>1 DEF IInv, BulkInStep, Accepts
  <2>4. CASE Endpoint = Control
    <3>1. SetupStage \/ DataStage \/ StatusStage
      BY <2>4 DEF IInv, ControlInStep
    <3>2. /\ request.kind \in {"none", "read", "write"}
          /\ Len(Stages(request)) = (IF request.kind = "none" THEN 2 ELSE 3)
          /\ Stages(request)[1] = OutData
          /\ request.kind = "none" => Stages(request)[2] = InStatus
          /\ request.kind = "read" => Stages(request)[2] = InData /\ Stages(request)[3] = OutStatus
          /\ request.kind = "write" => Stages(request)[2] = OutData /\ Stages(request)[3] = InStatus
      BY <2>1, <2>4, ControlStages, RequestFields DEF Endpoint
    <3>3. InData.in = TRUE /\ OutData.in = FALSE /\ InStatus.in = TRUE /\ OutStatus.in = FALSE
      BY DEF InData, OutData, InStatus, OutStatus
    <3>4. CASE SetupStage
      <4>1. stage.in = FALSE
        BY <2>1, <3>2, <3>3, <3>4 DEF SetupStage
      <4>2. QED
        BY <2>1, <2>2, <2>4, <3>4, <4>1 DEF SetupStage, Accepts
    <3>5. CASE DataStage
      <4>1. ~stage.status /\ stage.buffer = "data" /\ PID = function.pid /\ function.phase = "data"
        BY <2>1, <2>2, <2>4, <3>2, <3>5 DEF DataStage
      <4>2. CASE request.kind = "read"
        <5>1. stage.in = TRUE
          BY <2>1, <3>2, <3>3, <3>5, <4>2 DEF DataStage
        <5>2. QED
          BY <2>4, <3>5, <4>1, <4>2, <5>1 DEF DataStage, Accepts
      <4>3. CASE request.kind = "write"
        <5>1. stage.in = FALSE
          BY <2>1, <3>2, <3>3, <3>5, <4>3 DEF DataStage
        <5>2. stage.perTransaction <= function.left
          BY <2>1, <3>5, <4>1, <4>3 DEF IInv, DataStage, StageSound, StageRecords
        <5>3. QED
          BY <2>4, <3>5, <4>1, <4>3, <5>1, <5>2 DEF DataStage, Accepts
      <4>4. QED
        BY <3>2, <3>5, <4>2, <4>3 DEF DataStage
    <3>6. CASE StatusStage
      <4>1. stage.status /\ PID = "Data1" /\ function.phase = "status" /\ function.request = request
        BY <2>1, <2>2, <2>4, <3>6 DEF StatusStage
      <4>2. stage.in = (request.kind # "read")
        <5>1. CASE request.kind = "read"
          BY <2>1, <3>2, <3>3, <3>6, <5>1 DEF StatusStage
        <5>2. CASE request.kind \in {"none", "write"}
          BY <2>1, <3>2, <3>3, <3>6, <5>2 DEF StatusStage
        <5>3. QED
          BY <3>2, <5>1, <5>2
      <4>3. QED
        BY <2>4, <4>1, <4>2 DEF Accepts
    <3>7. QED
      BY <3>1, <3>4, <3>5, <3>6
  <2>5. QED
    BY <2>3, <2>4
<1>2. QED
  BY Invariance, <1>1, PTL
====
