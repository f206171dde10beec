---------------------------- MODULE ActionsProofs ----------------------------
(***************************************************************************)
(* Proofs about Actions, for any command, any payload and captures of any  *)
(* length: what a call reports of a trace is what the capture and the      *)
(* upload did, and neither the call nor its goroutine waits for nothing.   *)
(***************************************************************************)
EXTENDS Actions, TLAPS

-----------------------------------------------------------------------------
(* The inductive invariant                                                 *)

\* Before the capture, and while a failure is reported.
Early == {"received", "select", "executing", "execute", "create_temp"}
Failing == {"fail_status", "fail_result"}
Ending == Failing \cup {"returned"}

\* What Handle has published at each stage.
MessageInv ==
    /\ pc \notin Ending => code = NoCode
    /\ pc # "returned" => ~err
    /\ pc \notin {"result"} \cup Ending => sent = {}
    /\ pc = "result" => sent = {"success_status"}
    /\ pc \in Failing => "success_result" \notin sent
    /\ ReturnMatchesMessages

\* A capture starts only in real mode, with a valid payload, and runs only while its
\* executor waits for it; one that could not start was cancelled, not out of time.
CaptureInv ==
    /\ pc \in Early => tcpdump = "off"
    /\ pc = "run" => tcpdump # "off"
    /\ tcpdump = "running" => pc = "run"
    /\ tcpdump = "unstarted" => timer = "canceled"
    /\ pc = "create_temp" \/ tcpdump # "off" => mode = "real" /\ ValidPayload(cmd.payload)
    /\ code = "invalid_action_payload" => tcpdump = "off" /\ ~ValidPayload(cmd.payload)

\* The server accepts only a body that its writer closed after the last part, and a
\* request is never under way for a capture that was cut short.
UploadInv ==
    /\ pc \in Early \cup {"run"} => http = "off"
    /\ pc = "upload" => http # "off"
    /\ http = "off" => writer = "off" /\ pipe = "open" /\ parts = 0
    /\ http # "off" => tcpdump \in {"ok", "failed"}
    /\ parts \in 0 .. BodyParts
    /\ pipe = "closed" => parts = BodyParts /\ writer = "done"
    /\ http = "accepted" => pipe = "closed"
    /\ cut => cancelled /\ tcpdump # "off" /\ http \in {"off", "error"}

\* In real mode only an accepted upload leads to a success.
SuccessInv ==
    mode = "real" /\ (pc \in {"completed_status", "result"} \/ sent \cap SuccessMessages # {}) =>
        http = "accepted"

IInv == TypeOK /\ MessageInv /\ CaptureInv /\ UploadInv /\ SuccessInv
-----------------------------------------------------------------------------
(* What the steps leave alone                                              *)

\* A step of Handle that starts or ends neither capture nor upload, a step of the
\* capture, and a step of the upload.
ReportStep ==
    \/ PublishRunning \/ SelectExecutor \/ Execute
    \/ CompletedStatus \/ PublishResult \/ PublishFailure
CaptureStep == CapturePacket \/ TcpdumpExits \/ KillTcpdump \/ CaptureTimeout
UploadStep ==
    \/ OpenCapture \/ WritePart \/ CloseBody \/ WriterFails
    \/ ServerAccepts \/ ServerRefuses \/ RefusalEnds \/ ConnectionFails \/ AbortRequest

\* Every step is one of these, or starts or ends a capture or an upload, or cancels.
LEMMA StepCases ==
    ASSUME [Next]_vars
    PROVE  \/ ReportStep \/ CaptureStep \/ UploadStep
           \/ StartCapture \/ EndCapture \/ EndUpload \/ Cancel \/ UNCHANGED vars
  BY DEF Next, HandleStep, WriterStep, ReportStep, CaptureStep, UploadStep

\* The three parts of a command's state are changed by their own steps only.
LEMMA Shapes ==
    /\ ReportStep => UNCHANGED <<cancelled, timer, tcpdump, packets, cut,
                                 writer, pipe, parts, http>>
    /\ CaptureStep => UNCHANGED <<mode, cmd, pc, code, err, sent, cancelled, cut,
                                  writer, pipe, parts, http>>
    /\ UploadStep => UNCHANGED <<mode, cmd, pc, code, err, sent, cancelled,
                                 timer, tcpdump, packets, cut>>
<1>1. ReportStep => UNCHANGED <<cancelled, timer, tcpdump, packets, cut,
                                writer, pipe, parts, http>>
  BY DEF ReportStep, PublishRunning, SelectExecutor, Execute, CompletedStatus,
     PublishResult, PublishFailure, Rest, capture, upload
<1>2. CaptureStep => UNCHANGED <<mode, cmd, pc, code, err, sent, cancelled, cut,
                                 writer, pipe, parts, http>>
  BY DEF CaptureStep, CapturePacket, TcpdumpExits, KillTcpdump, CaptureTimeout, handle, upload
<1>3. UploadStep => UNCHANGED <<mode, cmd, pc, code, err, sent, cancelled,
                                timer, tcpdump, packets, cut>>
  BY DEF UploadStep, OpenCapture, WritePart, CloseBody, WriterFails, ServerAccepts,
     ServerRefuses, RefusalEnds, ConnectionFails, AbortRequest, handle, capture
<1> QED
  BY <1>1, <1>2, <1>3

\* No step changes the command or the executor in use, so a valid payload stays valid.
LEMMA CommandIsFixed ==
    ASSUME [Next]_vars
    PROVE  /\ UNCHANGED <<mode, cmd>>
           /\ ValidPayload(cmd.payload)' = ValidPayload(cmd.payload)
<1>1. UNCHANGED <<mode, cmd>>
  <2>1. ReportStep => UNCHANGED <<mode, cmd>>
    BY DEF ReportStep, PublishRunning, SelectExecutor, Execute, CompletedStatus,
       PublishResult, PublishFailure, Report, Goto, Fail
  <2>2. StartCapture \/ EndCapture \/ EndUpload => UNCHANGED <<mode, cmd>>
    BY DEF StartCapture, EndCapture, EndUpload, Goto, Fail
  <2>3. Cancel \/ UNCHANGED vars => UNCHANGED <<mode, cmd>>
    BY DEF Cancel, handle, vars
  <2> QED
    BY <2>1, <2>2, <2>3, StepCases, Shapes
<1> QED
  BY <1>1 DEF ValidPayload, PlaceholderAccepts, VyOSAccepts

\* A duration that is not given is never taken for one that is over.
LEMMA CaptureTakesTime ==
    ASSUME TypeOK
    PROVE  CaptureContext \in {"live", "canceled"} /\ (CaptureContext = "canceled" <=> cancelled)
<1>1. cmd.payload.duration \in Int
  BY PayloadsAssumption DEF TypeOK, Commands, PayloadTypes
<1>2. CaptureSeconds > 0
  BY <1>1 DEF CaptureSeconds
<1>3. CaptureSeconds \in Int
  BY <1>1 DEF CaptureSeconds
<1> QED
  BY <1>2, <1>3 DEF CaptureContext

-----------------------------------------------------------------------------
(* The invariant holds and is preserved                                    *)

\* The invariant holds initially.
LEMMA IInvInit == Init => IInv
<1> SUFFICES ASSUME Init PROVE IInv
  OBVIOUS
<1>1. TypeOK
  <2>1. mode \in {"real", "placeholder"} /\ cmd \in Commands
    BY ModesAssumption DEF Init
  <2>2. packets \in 0 .. MaxPackets /\ parts \in 0 .. MaxPackets + 2
    BY PacketsAssumption DEF Init
  <2>3. cancelled \in BOOLEAN /\ err \in BOOLEAN /\ cut \in BOOLEAN
    BY DEF Init
  <2> QED
    BY <2>1, <2>2, <2>3 DEF Init, TypeOK, PCs
<1>2. MessageInv /\ CaptureInv
  BY DEF Init, MessageInv, CaptureInv, ReturnMatchesMessages, Early, Failing, Ending, NoCode
<1>3. UploadInv /\ SuccessInv
  BY DEF Init, UploadInv, SuccessInv, Early, BodyParts
<1> QED
  BY <1>1, <1>2, <1>3 DEF IInv

\* Every step keeps the types.
LEMMA TypeStep == IInv /\ [Next]_vars => TypeOK'
<1> SUFFICES ASSUME IInv, [Next]_vars PROVE TypeOK'
  OBVIOUS
<1> USE DEF IInv, TypeOK
<1>1. UNCHANGED <<mode, cmd>>
  BY CommandIsFixed
<1>2. CASE ReportStep
  <2>1. pc' \in PCs /\ code' \in Codes \cup {NoCode}
    BY <1>2 DEF ReportStep, PublishRunning, SelectExecutor, Execute, CompletedStatus,
       PublishResult, PublishFailure, Report, Goto, Fail, PCs, Codes
  <2>2. sent' \subseteq SuccessMessages \cup FailureMessages
    BY <1>2 DEF ReportStep, PublishRunning, SelectExecutor, Execute, CompletedStatus,
       PublishResult, PublishFailure, Report, Goto, Fail, SuccessMessages, FailureMessages
  <2>3. err' \in BOOLEAN
    BY <1>2 DEF ReportStep, PublishRunning, SelectExecutor, Execute, CompletedStatus,
       PublishResult, PublishFailure, Report, OriginalError, Goto, Fail
  <2> QED
    BY <1>1, <1>2, <2>1, <2>2, <2>3, Shapes
<1>3. CASE CaptureStep
  <2>1. packets' \in 0 .. MaxPackets
    BY <1>3, PacketsAssumption DEF CaptureStep, CapturePacket, TcpdumpExits, KillTcpdump,
       CaptureTimeout
  <2>2. /\ timer' \in {"off", "live", "deadline", "canceled"}
        /\ tcpdump' \in {"off", "unstarted", "running", "ok", "failed"}
    BY <1>3 DEF CaptureStep, CapturePacket, TcpdumpExits, KillTcpdump, CaptureTimeout
  <2> QED
    BY <1>3, <2>1, <2>2, Shapes
<1>4. CASE UploadStep
  <2>1. parts' \in 0 .. MaxPackets + 2
    BY <1>4, PacketsAssumption DEF UploadStep, OpenCapture, WritePart, CloseBody, WriterFails,
       ServerAccepts, ServerRefuses, RefusalEnds, ConnectionFails, AbortRequest, BodyParts
  <2>2. writer' \in {"off", "open", "copy", "done"}
    BY <1>4 DEF UploadStep, OpenCapture, WritePart, CloseBody, WriterFails,
       ServerAccepts, ServerRefuses, RefusalEnds, ConnectionFails, AbortRequest
  <2>3. pipe' \in {"open", "closed", "error", "broken"}
    BY <1>4 DEF UploadStep, OpenCapture, WritePart, CloseBody, WriterFails,
       ServerAccepts, ServerRefuses, RefusalEnds, ConnectionFails, AbortRequest,
       BreakPipe, ClosedOnError
  <2>4. http' \in {"off", "sending", "accepted", "refusing", "refused", "error"}
    BY <1>4 DEF UploadStep, OpenCapture, WritePart, CloseBody, WriterFails,
       ServerAccepts, ServerRefuses, RefusalEnds, ConnectionFails, AbortRequest
  <2> QED
    BY <1>4, <2>1, <2>2, <2>3, <2>4, Shapes
<1>5. CASE StartCapture
  BY <1>1, <1>5, CaptureTakesTime DEF StartCapture, Goto, Fail, capture, upload, PCs, Codes
<1>6. CASE EndCapture
  BY <1>1, <1>6 DEF EndCapture, Goto, Fail, capture, upload, PCs, Codes
<1>7. CASE EndUpload
  BY <1>1, <1>7 DEF EndUpload, CloseResponse, BreakPipe, Goto, Fail, capture, PCs, Codes
<1>8. CASE Cancel
  BY <1>8 DEF Cancel, handle, upload
<1>9. CASE UNCHANGED vars
  BY <1>9 DEF vars, handle, capture, upload
<1> QED
  BY <1>2, <1>3, <1>4, <1>5, <1>6, <1>7, <1>8, <1>9, StepCases

\* Every step keeps the messages in step with the stage.
LEMMA MessageStep == IInv /\ [Next]_vars => MessageInv'
<1> SUFFICES ASSUME IInv, [Next]_vars PROVE MessageInv'
  OBVIOUS
<1> USE DEF IInv, MessageInv, ReturnMatchesMessages, Failing, Ending
<1>1. CASE PublishRunning \/ SelectExecutor \/ Execute
  BY <1>1 DEF PublishRunning, SelectExecutor, Execute, Goto, Fail
<1>2. CASE CompletedStatus
  BY <1>2 DEF CompletedStatus, Report, Fail
<1>3. CASE PublishResult
  BY <1>3 DEF PublishResult, Report, Fail, SuccessMessages
<1>4. CASE PublishFailure
  BY <1>4 DEF PublishFailure, OriginalError
<1>5. CASE CaptureStep \/ UploadStep
  BY <1>5, Shapes
<1>6. CASE StartCapture \/ EndCapture \/ EndUpload
  BY <1>6 DEF StartCapture, EndCapture, EndUpload, Goto, Fail
<1>7. CASE Cancel \/ UNCHANGED vars
  BY <1>7 DEF Cancel, vars, handle
<1> QED
  BY <1>1, <1>2, <1>3, <1>4, <1>5, <1>6, <1>7, StepCases DEF ReportStep

\* Every step keeps the capture where its executor expects it.
LEMMA CaptureStepInv == IInv /\ [Next]_vars => CaptureInv'
<1> SUFFICES ASSUME IInv, [Next]_vars PROVE CaptureInv'
  OBVIOUS
<1> USE CommandIsFixed DEF IInv, MessageInv, CaptureInv, Early, Failing, Ending, NoCode
<1>1. CASE PublishRunning \/ SelectExecutor
  BY <1>1, Shapes DEF ReportStep, PublishRunning, SelectExecutor, Goto, Fail
<1>2. CASE Execute
  BY <1>2, Shapes DEF ReportStep, Execute, Goto, Fail, TypeOK
<1>3. CASE CompletedStatus \/ PublishResult \/ PublishFailure
  BY <1>3, Shapes DEF ReportStep, CompletedStatus, PublishResult, PublishFailure, Report, Fail
<1>4. CASE CaptureStep
  BY <1>4, Shapes DEF CaptureStep, CapturePacket, TcpdumpExits, KillTcpdump, CaptureTimeout,
     Expires
<1>5. CASE UploadStep
  BY <1>5, Shapes
<1>6. CASE StartCapture
  BY <1>6, CaptureTakesTime DEF StartCapture, Goto, Fail, capture
<1>7. CASE EndCapture \/ EndUpload
  BY <1>7 DEF EndCapture, EndUpload, Goto, Fail, capture
<1>8. CASE Cancel \/ UNCHANGED vars
  BY <1>8 DEF Cancel, vars, handle, capture
<1> QED
  BY <1>1, <1>2, <1>3, <1>4, <1>5, <1>6, <1>7, <1>8, StepCases DEF ReportStep

\* Every step keeps the request, the pipe and its writer in step.
LEMMA UploadStepInv == IInv /\ [Next]_vars => UploadInv'
<1> SUFFICES ASSUME IInv, [Next]_vars PROVE UploadInv'
  OBVIOUS
<1> USE DEF IInv, TypeOK, CaptureInv, UploadInv, Early, BodyParts
<1>1. CASE ReportStep
  <2>1. pc' \in Early \cup {"run", "upload"} => pc \in Early
    BY <1>1 DEF ReportStep, PublishRunning, SelectExecutor, Execute, CompletedStatus,
       PublishResult, PublishFailure, Report, Goto, Fail
  <2>2. pc' # "upload" /\ pc' # "run"
    BY <1>1 DEF ReportStep, PublishRunning, SelectExecutor, Execute, CompletedStatus,
       PublishResult, PublishFailure, Report, Goto, Fail
  <2> QED
    BY <1>1, <2>1, <2>2, Shapes
<1>2. CASE CaptureStep
  BY <1>2, Shapes DEF CaptureStep, CapturePacket, TcpdumpExits, KillTcpdump, CaptureTimeout
<1>3. CASE OpenCapture \/ WriterFails \/ WritePart
  BY <1>3, Shapes DEF UploadStep, OpenCapture, WriterFails, WritePart, ClosedOnError
<1>4. CASE CloseBody
  BY <1>4, Shapes DEF UploadStep, CloseBody
<1>5. CASE ServerAccepts \/ ServerRefuses \/ RefusalEnds \/ ConnectionFails \/ AbortRequest
  BY <1>5, Shapes DEF UploadStep, ServerAccepts, ServerRefuses, RefusalEnds, ConnectionFails,
     AbortRequest, BreakPipe, Pending
<1>6. CASE StartCapture
  BY <1>6, CaptureTakesTime DEF StartCapture, Goto, Fail, capture, upload
<1>7. CASE EndCapture
  BY <1>7 DEF EndCapture, CaptureComplete, RequestContextDone, Goto, Fail, capture, upload
<1>8. CASE EndUpload
  BY <1>8 DEF EndUpload, CloseResponse, BreakPipe, Goto, Fail, capture
<1>9. CASE Cancel
  BY <1>9 DEF Cancel, handle, upload
<1>10. CASE UNCHANGED vars
  BY <1>10 DEF vars, handle, capture, upload
<1> QED
  BY <1>1, <1>2, <1>3, <1>4, <1>5, <1>6, <1>7, <1>8, <1>9, <1>10, StepCases DEF UploadStep

\* Every step keeps successes for accepted uploads.
LEMMA SuccessStep == IInv /\ [Next]_vars => SuccessInv'
<1> SUFFICES ASSUME IInv, [Next]_vars, mode' = "real",
                    \/ pc' \in {"completed_status", "result"}
                    \/ sent' \cap SuccessMessages # {}
             PROVE  http' = "accepted"
  BY DEF SuccessInv
<1> USE DEF IInv, SuccessInv, SuccessMessages
<1>1. mode = "real"
  BY CommandIsFixed
<1>2. CASE ReportStep
  <2>1. pc \in {"completed_status", "result"} \/ sent \cap SuccessMessages # {}
    BY <1>1, <1>2 DEF ReportStep, PublishRunning, SelectExecutor, Execute, CompletedStatus,
       PublishResult, PublishFailure, Report, Goto, Fail
  <2> QED
    BY <1>1, <1>2, <2>1, Shapes
<1>3. CASE CaptureStep
  BY <1>1, <1>3, Shapes
<1>4. CASE UploadStep
  <2>1. http = "accepted"
    BY <1>1, <1>4, Shapes
  <2> QED
    BY <1>4, <2>1 DEF UploadStep, OpenCapture, WritePart, CloseBody, WriterFails,
       ServerAccepts, ServerRefuses, RefusalEnds, ConnectionFails, AbortRequest, Pending
<1>5. CASE StartCapture
  BY <1>1, <1>5 DEF StartCapture, Goto, Fail, upload
<1>6. CASE EndCapture
  BY <1>1, <1>6 DEF EndCapture, Goto, Fail, MessageInv, Ending, Failing, SuccessMessages
<1>7. CASE EndUpload
  BY <1>1, <1>7 DEF EndUpload, Goto, Fail
<1>8. CASE Cancel \/ UNCHANGED vars
  BY <1>1, <1>8 DEF Cancel, vars, handle, upload
<1> QED
  BY <1>2, <1>3, <1>4, <1>5, <1>6, <1>7, <1>8, StepCases

\* In every behavior the messages, the capture and the upload of a command fit together.
THEOREM InvariantHolds == Spec => []IInv
<1>1. IInv /\ [Next]_vars => IInv'
  BY TypeStep, MessageStep, CaptureStepInv, UploadStepInv, SuccessStep DEF IInv
<1> QED
  BY IInvInit, <1>1, PTL DEF Spec

-----------------------------------------------------------------------------
(* What follows                                                            *)

\* Every variable has its type; the server never reads more parts than the body has.
THEOREM TypeCorrect == Spec => []TypeOK
<1>1. IInv => TypeOK
  BY DEF IInv
<1> QED
  BY InvariantHolds, <1>1, PTL

\* A trace reported completed is with the controller, every packet of it.
THEOREM CompletedTracesAreUploaded == Spec => []CompletedIsUploaded
<1>1. IInv => CompletedIsUploaded
  BY DEF IInv, SuccessInv, UploadInv, CompletedIsUploaded
<1> QED
  BY InvariantHolds, <1>1, PTL

\* A trace reported completed was captured, with a valid payload; an invalid payload is
\* refused before anything runs.
THEOREM CompletedTracesWereCaptured == Spec => []CompletedWasCaptured
<1>1. IInv => CompletedWasCaptured
  BY DEF IInv, SuccessInv, UploadInv, CaptureInv, CompletedWasCaptured
<1> QED
  BY InvariantHolds, <1>1, PTL

\* A trace whose call was cancelled while tcpdump ran is never reported completed.
THEOREM CancelledTracesFail == Spec => []CancelledTraceFails
<1>1. IInv => CancelledTraceFails
  BY DEF IInv, SuccessInv, UploadInv, CaptureInv, CancelledTraceFails
<1> QED
  BY InvariantHolds, <1>1, PTL

\* What Handle returns agrees with the messages the bus accepted.
THEOREM ReturnsMatchMessages == Spec => []ReturnMatchesMessages
<1>1. IInv => ReturnMatchesMessages
  BY DEF IInv, MessageInv
<1> QED
  BY InvariantHolds, <1>1, PTL
-----------------------------------------------------------------------------
(* No call is stuck                                                        *)

\* What keeps the goroutines of a call from waiting on each other: a running tcpdump has a
\* context that is done or will be, and a writer has a reader or a broken pipe.
WaitInv ==
    /\ tcpdump = "running" => timer # "off"
    /\ cancelled => timer # "live"
    /\ writer = "off" => http = "off"
    /\ writer \in {"open", "copy"} => pipe \in {"open", "broken"}
    /\ http # "off" /\ pc # "upload" => pipe # "open"

\* The guards of HandleStep, KillTcpdump, CaptureTimeout and AbortRequest, and of the steps
\* the writer takes without the server.  Handle waits in client.Do and in io.ReadAll.
HandleReady ==
    /\ pc # "returned"
    /\ pc = "run" => tcpdump \in {"unstarted", "ok", "failed"}
    /\ pc = "upload" => http \in {"accepted", "refused", "error"}
KillReady == tcpdump = "running" /\ timer \in {"deadline", "canceled"}
TimeoutReady == pc = "run" /\ timer = "live"
AbortReady == http \in {"sending", "refusing"} /\ (cancelled \/ pipe = "error")
WriterReady ==
    \/ writer = "open"
    \/ writer = "copy" /\ (pipe = "broken" \/ (pipe = "open" /\ parts = BodyParts))

\* How many steps Handle may still take.
StagesLeft(s) ==
    CASE s = "received" -> 11
      [] s = "select" -> 10
      [] s = "executing" -> 9
      [] s = "execute" -> 8
      [] s = "create_temp" -> 7
      [] s = "run" -> 6
      [] s = "upload" -> 5
      [] s = "completed_status" -> 4
      [] s = "result" -> 3
      [] s = "fail_status" -> 2
      [] s = "fail_result" -> 1
      [] OTHER -> 0

\* Every step keeps it.
LEMMA WaitStep == IInv /\ WaitInv /\ [Next]_vars => WaitInv'
<1> SUFFICES ASSUME IInv, WaitInv, [Next]_vars PROVE WaitInv'
  OBVIOUS
<1> USE DEF WaitInv
<1>0. TypeOK
  BY DEF IInv
<1>1. CASE ReportStep
  <2>1. UNCHANGED <<cancelled, timer, tcpdump, writer, pipe, http>>
    BY <1>1, Shapes
  <2>2. pc # "upload"
    BY <1>1 DEF ReportStep, PublishRunning, SelectExecutor, Execute, CompletedStatus,
       PublishResult, PublishFailure
  <2> QED
    BY <2>1, <2>2
<1>2. CASE CaptureStep
  BY <1>2, Shapes DEF CaptureStep, CapturePacket, TcpdumpExits, KillTcpdump, CaptureTimeout
<1>3. CASE UploadStep
  <2>1. UNCHANGED <<pc, cancelled, timer, tcpdump>>
    BY <1>3, Shapes
  <2>2. CASE OpenCapture \/ WritePart \/ CloseBody \/ WriterFails
    BY <1>0, <2>1, <2>2 DEF OpenCapture, WritePart, CloseBody, WriterFails, ClosedOnError, TypeOK
  <2>3. CASE ServerAccepts \/ ServerRefuses \/ RefusalEnds \/ ConnectionFails \/ AbortRequest
    BY <1>0, <2>1, <2>3 DEF ServerAccepts, ServerRefuses, RefusalEnds, ConnectionFails,
       AbortRequest, BreakPipe, Pending, TypeOK
  <2> QED
    BY <1>3, <2>2, <2>3 DEF UploadStep
<1>4. CASE StartCapture
  <2>1. UNCHANGED <<cancelled, writer, pipe, http>> /\ pc = "create_temp"
    BY <1>4 DEF StartCapture, upload
  <2>2. \/ UNCHANGED <<timer, tcpdump>>
        \/ timer' = CaptureContext
    BY <1>4 DEF StartCapture, capture
  <2>3. pc \in Early
    BY <2>1 DEF Early
  <2> QED
    BY <1>0, <2>1, <2>2, <2>3, CaptureTakesTime DEF IInv, UploadInv, CaptureInv
<1>5. CASE EndCapture
  <2>1. UNCHANGED <<cancelled, timer, tcpdump>> /\ pc = "run"
    BY <1>5 DEF EndCapture, capture
  <2>2. \/ /\ pc' = "upload" /\ writer' = "open"
           /\ pipe' \in {pipe, "broken"}
        \/ UNCHANGED <<writer, pipe, http>>
    BY <1>5 DEF EndCapture, Goto, upload
  <2>3. http = "off" /\ pipe = "open"
    BY <2>1 DEF IInv, UploadInv
  <2> QED
    BY <2>1, <2>2, <2>3
<1>6. CASE EndUpload
  <2>1. UNCHANGED <<cancelled, timer, tcpdump, writer, http>>
    BY <1>6 DEF EndUpload, capture
  <2>2. pipe' = IF pipe = "open" THEN "broken" ELSE pipe
    BY <1>6 DEF EndUpload, CloseResponse, BreakPipe
  <2> QED
    BY <2>1, <2>2
<1>7. CASE Cancel
  BY <1>7 DEF Cancel, handle, upload
<1>8. CASE UNCHANGED vars
  BY <1>8 DEF vars, handle, capture, upload
<1> QED
  BY <1>1, <1>2, <1>3, <1>4, <1>5, <1>6, <1>7, <1>8, StepCases

\* The safety half of CaptureEnds, CancelEndsCall and WriterEnds: in no state do the goroutines
\* of a call wait for each other.  During a capture Handle, the kill or the timeout has a
\* step to take; after a cancellation Handle, the kill or the transport, whatever the
\* server does or leaves undone; and while a cancelled call, or one that has left the
\* upload, has a writer, that writer, the transport or Handle, which will break its pipe.
\* Of a call that is not cancelled and waits for its server nothing is claimed.
THEOREM NoCallIsStuck ==
    Spec => [](/\ pc = "run" => HandleReady \/ KillReady \/ TimeoutReady
               /\ cancelled /\ pc # "returned" => HandleReady \/ KillReady \/ AbortReady
               /\ writer \notin {"off", "done"} /\ (cancelled \/ pc # "upload") =>
                     WriterReady \/ AbortReady \/ (pc = "upload" /\ HandleReady))
<1>1. Init => WaitInv
  BY DEF Init, WaitInv
<1>2. ASSUME IInv, WaitInv
      PROVE  /\ pc = "run" => HandleReady \/ KillReady \/ TimeoutReady
             /\ cancelled /\ pc # "returned" => HandleReady \/ KillReady \/ AbortReady
             /\ writer \notin {"off", "done"} /\ (cancelled \/ pc # "upload") =>
                   WriterReady \/ AbortReady \/ (pc = "upload" /\ HandleReady)
  <2>1. /\ timer \in {"off", "live", "deadline", "canceled"}
        /\ tcpdump \in {"off", "unstarted", "running", "ok", "failed"}
        /\ http \in {"off", "sending", "accepted", "refusing", "refused", "error"}
        /\ writer \in {"off", "open", "copy", "done"}
        /\ pc = "run" => tcpdump # "off"
        /\ pc = "upload" => http # "off"
        /\ http = "off" => writer = "off"
    BY <1>2 DEF IInv, TypeOK, CaptureInv, UploadInv
  <2> QED
    BY <1>2, <2>1 DEF WaitInv, HandleReady, KillReady, TimeoutReady, AbortReady, WriterReady
<1> QED
  BY InvariantHolds, WaitStep, <1>1, <1>2, PTL DEF Spec

\* Handle never goes back: each of its steps leaves it fewer, at most eleven, and no step of
\* tcpdump, the writer, the server or the transport changes their number.
THEOREM HandleOnlyAdvances ==
    Spec => [][IF HandleStep THEN StagesLeft(pc') < StagesLeft(pc) ELSE pc' = pc]_vars
<1>1. IInv /\ [Next]_vars =>
          [IF HandleStep THEN StagesLeft(pc') < StagesLeft(pc) ELSE pc' = pc]_vars
  <2> SUFFICES ASSUME IInv, Next
               PROVE  IF HandleStep THEN StagesLeft(pc') < StagesLeft(pc) ELSE pc' = pc
    OBVIOUS
  <2>1. CASE HandleStep
    BY <2>1 DEF HandleStep, PublishRunning, SelectExecutor, Execute, StartCapture, EndCapture,
       EndUpload, CompletedStatus, PublishResult, PublishFailure, Report, Goto, Fail, StagesLeft
  <2>2. CASE ~HandleStep
    BY <2>2, StepCases, Shapes DEF HandleStep, ReportStep, Cancel, handle, vars
  <2> QED
    BY <2>1, <2>2
<1> QED
  BY InvariantHolds, <1>1, PTL DEF Spec

=============================================================================
