------------------------------- MODULE Actions -------------------------------
(***************************************************************************)
(* internal/actions: one action command from its arrival to the return of  *)
(* Service.Handle.  In real mode the trace executor runs tcpdump into a    *)
(* temporary file until its packet limit, its duration or the              *)
(* cancellation of the call, then streams the file to the controller: a    *)
(* goroutine writes the multipart body into a pipe while the HTTP client   *)
(* reads it.  Commands share nothing (each capture has a file and a pipe   *)
(* of its own), so one command is all there is to model.                   *)
(*                                                                         *)
(* The controller's server answers 2xx only once it has the whole body; it *)
(* may refuse earlier and never finish its answer, break the connection,   *)
(* or never answer.                                                        *)
(***************************************************************************)
EXTENDS Integers

CONSTANTS
    Enabled,    \* agent.actions.enabled
    Trace,      \* the action that has an executor
    Names,      \* the actions a command may name
    Modes,      \* agent.actions.mode: "real", "placeholder"
    Payloads,   \* the payloads a command may carry, of PayloadTypes
    MaxPackets  \* bound: how many packets tcpdump captures at most

ASSUME NamesAssumption == Trace \in Names /\ Enabled \subseteq Names
ASSUME ModesAssumption == Modes \subseteq {"real", "placeholder"}
ASSUME PacketsAssumption == MaxPackets \in Nat

\* vyos_trace.go: seconds and packets of one capture.
maxDuration == 300
maxPackets == 10000

\* What a payload may be: no JSON, JSON whose fields do not decode to their types, or
\* the fields; of an interface name, whether it is there, could leave the directory
\* it is looked up in, exists and matches the pattern of VyOS names; of the URI,
\* whether it is there and is an HTTP URI.
PayloadTypes == [json : {"malformed", "mistyped", "fields"},
                 interface : SUBSET {"named", "path", "exists", "matches"},
                 uri : {"absent", "other", "http"},
                 duration : Int, packets : Int]

ASSUME PayloadsAssumption == Payloads \subseteq PayloadTypes

VARIABLES
    mode,       \* the executor in use
    cmd,        \* the command: its action, whether a field is missing, its payload
    cancelled,  \* the context of Handle is cancelled
    pc,         \* where Handle, or the executor it calls, stands
    code,       \* the error code of the failure being reported
    err,        \* whether Handle returns an error
    sent,       \* the messages the bus accepted
    timer,      \* captureCtx: "off", "live", "deadline", "canceled"
    tcpdump,    \* "off", "unstarted", "running", "ok", "failed"
    packets,    \* how many packets the temporary file holds
    cut,        \* whether the call was cancelled while tcpdump ran (history)
    writer,     \* the goroutine that writes the body: "off", "open", "copy", "done"
    pipe,       \* the pipe: "open", "closed" or "error" by its writer, "broken" by its reader
    parts,      \* how many parts of the body the server has read
    http        \* the request: "off", "sending", "accepted"; "refusing" while the answer of
                \* a server that refuses arrives, "refused" once it has ended; "error"

handle == <<mode, cmd, pc, code, err, sent>>
capture == <<timer, tcpdump, packets, cut>>
upload == <<writer, pipe, parts, http>>
vars == <<handle, cancelled, capture, upload>>

\* complete: neither target nor rpc_id is empty.
Commands == [action : Names, complete : BOOLEAN, payload : Payloads]

Codes == {"status_publish_failed", "disabled_action", "unsupported_action",
          "action_execute_failed", "invalid_action_payload", "result_publish_failed"}
NoCode == "none"
SuccessMessages == {"success_status", "success_result"}
FailureMessages == {"failure_status", "failure_result"}
PCs == {"received", "select", "executing", "execute", "create_temp", "run", "upload",
        "completed_status", "result", "fail_status", "fail_result", "returned"}

Init ==
    /\ mode \in Modes
    /\ cmd \in Commands
    /\ cancelled = FALSE
    /\ pc = "received"
    /\ code = NoCode
    /\ err = FALSE
    /\ sent = {}
    /\ timer = "off"
    /\ tcpdump = "off"
    /\ packets = 0
    /\ cut = FALSE
    /\ writer = "off"
    /\ pipe = "open"
    /\ parts = 0
    /\ http = "off"

-----------------------------------------------------------------------------
(* Service.Handle                                                          *)

Goto(label) == pc' = label /\ UNCHANGED <<mode, cmd, code, err, sent>>

Fail(c) == pc' = "fail_status" /\ code' = c /\ UNCHANGED <<mode, cmd, err, sent>>

Rest == UNCHANGED <<cancelled, capture, upload>>

\* The running statuses: the bus accepts each, or the command fails.
PublishRunning ==
    /\ pc \in {"received", "executing"}
    /\ \/ Goto(IF pc = "received" THEN "select" ELSE "execute")
       \/ Fail("status_publish_failed")
    /\ Rest

\* The action must be enabled and must have an executor.
SelectExecutor ==
    /\ pc = "select"
    /\ \/ cmd.action \notin Enabled /\ Fail("disabled_action")
       \/ cmd.action \in Enabled /\ cmd.action # Trace /\ Fail("unsupported_action")
       \/ cmd.action \in Enabled /\ cmd.action = Trace /\ Goto("executing")
    /\ Rest

\* The bounds of a capture; 0 stands for a default duration and for no packet limit.
InBounds(p) == p.duration \in 0 .. maxDuration /\ p.packets \in 0 .. maxPackets

\* An interface that exists, or is named as VyOS names them; never a path.
ValidInterface(i) == "named" \in i /\ "path" \notin i /\ i \cap {"exists", "matches"} # {}

\* The placeholder looks at nothing but whether the payload is JSON.
PlaceholderAccepts(p) == p.json # "malformed"

VyOSAccepts(p) ==
    p.json = "fields" /\ InBounds(p) /\ ValidInterface(p.interface) /\ p.uri = "http"

ValidPayload(p) == IF mode = "placeholder" THEN PlaceholderAccepts(p) ELSE VyOSAccepts(p)

\* Execute: its checks, in the code's order; the placeholder is done after them.
Execute ==
    /\ pc = "execute"
    /\ \/ /\ cancelled \/ ~cmd.complete
          /\ Fail("action_execute_failed")
       \/ /\ ~cancelled /\ cmd.complete /\ ~ValidPayload(cmd.payload)
          /\ Fail("invalid_action_payload")
       \/ /\ ~cancelled /\ cmd.complete /\ ValidPayload(cmd.payload)
          /\ Goto(IF mode = "real" THEN "create_temp" ELSE "completed_status")
    /\ Rest

\* The bus accepts the message and Handle goes on, or the command fails.
Report(m, next, c) ==
    \/ pc' = next /\ sent' = sent \cup {m} /\ UNCHANGED <<mode, cmd, code, err>>
    \/ Fail(c)

CompletedStatus ==
    /\ pc = "completed_status"
    /\ Report("success_status", "result", "status_publish_failed")
    /\ Rest

PublishResult ==
    /\ pc = "result"
    /\ Report("success_result", "returned", "result_publish_failed")
    /\ Rest

\* Mutant: the error of the command itself is forgotten.
OriginalErrorForgotten == UNCHANGED err

\* errors.Join(originalErr, ...)
OriginalError == err' = TRUE

\* Service.fail attempts both messages and returns the error.
PublishFailure ==
    /\ \/ /\ pc = "fail_status" /\ pc' = "fail_result"
          /\ sent' \in {sent, sent \cup {"failure_status"}}
          /\ UNCHANGED err
       \/ /\ pc = "fail_result" /\ pc' = "returned"
          /\ sent' \in {sent, sent \cup {"failure_result"}}
          /\ OriginalError
    /\ UNCHANGED <<mode, cmd, code>> /\ Rest

-----------------------------------------------------------------------------
(* The capture                                                             *)

\* Mutant: a duration that is not given is taken literally.
GivenSeconds == cmd.payload.duration

\* The duration of the capture, 60 seconds by default.
CaptureSeconds == IF cmd.payload.duration <= 0 THEN 60 ELSE cmd.payload.duration

\* context.WithTimeout(ctx, duration): no time left is a deadline that has passed.
CaptureContext ==
    IF cancelled THEN "canceled" ELSE IF CaptureSeconds <= 0 THEN "deadline" ELSE "live"

\* os.CreateTemp, captureCtx, and the start of tcpdump, which a done context prevents.
StartCapture ==
    /\ pc = "create_temp"
    /\ \/ Fail("action_execute_failed") /\ UNCHANGED capture
       \/ /\ Goto("run")
          /\ timer' = CaptureContext
          /\ tcpdump' = IF CaptureContext = "live" THEN "running" ELSE "unstarted"
          /\ UNCHANGED <<packets, cut>>
    /\ UNCHANGED <<cancelled, upload>>

\* tcpdump writes a packet through to the file (-U).
CapturePacket ==
    /\ tcpdump = "running"
    /\ packets < MaxPackets
    /\ cmd.payload.packets > 0 => packets < cmd.payload.packets
    /\ packets' = packets + 1
    /\ UNCHANGED <<handle, cancelled, timer, tcpdump, cut, upload>>

\* tcpdump ends by itself: its packet limit is reached, or it fails, at once when it
\* cannot be started.
TcpdumpExits ==
    /\ tcpdump = "running"
    /\ \/ cmd.payload.packets > 0 /\ packets = cmd.payload.packets /\ tcpdump' = "ok"
       \/ tcpdump' = "failed"
    /\ UNCHANGED <<handle, cancelled, timer, packets, cut, upload>>

\* exec.CommandContext kills it once captureCtx is done.
KillTcpdump ==
    /\ tcpdump = "running"
    /\ timer \in {"deadline", "canceled"}
    /\ tcpdump' = "failed"
    /\ UNCHANGED <<handle, cancelled, timer, packets, cut, upload>>

\* Mutant: the capture runs under the context of the call, without a timeout.
NeverExpires == FALSE

\* captureCtx expires CaptureSeconds after it was made.
Expires == timer = "live"

CaptureTimeout ==
    /\ Expires
    /\ pc = "run"
    /\ timer' = "deadline"
    /\ UNCHANGED <<handle, cancelled, tcpdump, packets, cut, upload>>

\* Run's error counts unless the duration expired first.
CaptureComplete == tcpdump = "ok" \/ timer = "deadline"

\* Whether the temporary file is gone: the deferred os.Remove runs when Execute returns.
Removed == pc # "upload"

\* Mutant: the request does not carry the context of the call.
BackgroundContextDone == FALSE

\* NewRequestWithContext(ctx, ...): the request ends with the call's context.
RequestContextDone == cancelled

\* cmd.Run() has returned: upload the capture, or fail.  The upload starts the writer;
\* a request whose context is done already fails, and its body is closed.
EndCapture ==
    /\ pc = "run"
    /\ tcpdump \in {"unstarted", "ok", "failed"}
    /\ \/ /\ CaptureComplete
          /\ Goto("upload")
          /\ writer' = "open"
          /\ \/ ~RequestContextDone /\ http' = "sending" /\ UNCHANGED pipe
             \/ RequestContextDone /\ http' = "error" /\ pipe' = "broken"
          /\ UNCHANGED parts
       \/ /\ ~CaptureComplete
          /\ Fail("action_execute_failed")
          /\ UNCHANGED upload
    /\ UNCHANGED <<cancelled, capture>>

-----------------------------------------------------------------------------
(* The upload                                                              *)

\* Mutant: the header is written twice.
TwoHeaders == packets + 3

\* The parts of the multipart body: its header, the packets, its trailer.
BodyParts == packets + 2

\* Mutant: the deferred close ignores the error of the writer.
ClosedAnyway == "closed"

\* pw.CloseWithError(err): the reader sees the error, not the end of the body.
ClosedOnError == "error"

\* Opening or reading the file fails, or the reader has closed the pipe.
WriterFails ==
    /\ writer \in {"open", "copy"}
    /\ writer' = "done"
    /\ pipe' = IF pipe = "broken" THEN pipe ELSE ClosedOnError
    /\ UNCHANGED <<handle, cancelled, capture, parts, http>>

OpenCapture ==
    /\ writer = "open"
    /\ ~Removed
    /\ writer' = "copy"
    /\ UNCHANGED <<handle, cancelled, capture, pipe, parts, http>>

\* The request is under way: client.Do, or the read of a refusal, may have to wait.
Pending == http \in {"sending", "refusing"}

\* A write into the pipe returns when the transport has read it, which it may go on
\* doing while a refusal arrives.
WritePart ==
    /\ writer = "copy" /\ pipe = "open" /\ Pending
    /\ parts < BodyParts
    /\ parts' = parts + 1
    /\ UNCHANGED <<handle, cancelled, capture, writer, pipe, http>>

\* pw.Close() after the trailer.
CloseBody ==
    /\ writer = "copy" /\ pipe = "open"
    /\ parts = BodyParts
    /\ writer' = "done"
    /\ pipe' = "closed"
    /\ UNCHANGED <<handle, cancelled, capture, parts, http>>

\* The server has the whole body, as far as it can tell, and accepts it.
ServerAccepts ==
    /\ http = "sending" /\ pipe = "closed"
    /\ http' = "accepted"
    /\ UNCHANGED <<handle, cancelled, capture, writer, pipe, parts>>

\* The server answers with another status, before the end of the body or after it:
\* client.Do returns with the headers.
ServerRefuses ==
    /\ http = "sending"
    /\ http' = "refusing"
    /\ UNCHANGED <<handle, cancelled, capture, writer, pipe, parts>>

\* The transport closes the body it was sending.
BreakPipe == pipe' = IF pipe = "open" THEN "broken" ELSE pipe

\* The body of the refusal ends; the transport may drop its connection with it.
RefusalEnds ==
    /\ http = "refusing"
    /\ http' = "refused"
    /\ BreakPipe \/ UNCHANGED pipe
    /\ UNCHANGED <<handle, cancelled, capture, writer, parts>>

\* The connection breaks.
ConnectionFails ==
    /\ Pending
    /\ http' = "error"
    /\ BreakPipe
    /\ UNCHANGED <<handle, cancelled, capture, writer, parts>>

\* The transport gives the request up: its context is done, or its body failed.
AbortRequest ==
    /\ Pending
    /\ RequestContextDone \/ pipe = "error"
    /\ http' = "error"
    /\ BreakPipe
    /\ UNCHANGED <<handle, cancelled, capture, writer, parts>>

\* Mutant: the response body is never closed.
KeepResponse == UNCHANGED pipe

\* resp.Body.Close(): the transport drops a connection whose request is unfinished.
CloseResponse == BreakPipe

\* client.Do failed, or io.ReadAll of the refusal has come to the end of its body or of
\* its connection: it waits for the server as long as the request's context allows.
RefusalRead == http \in {"refused", "error"}

\* uploadFile returns, closing the response on its way, and so does Execute.
EndUpload ==
    /\ pc = "upload"
    /\ \/ http = "accepted" /\ Goto("completed_status")
       \/ RefusalRead /\ Fail("action_execute_failed")
    /\ CloseResponse
    /\ UNCHANGED <<cancelled, capture, writer, parts, http>>

-----------------------------------------------------------------------------

\* The client cancels the context of its handlers.
Cancel ==
    /\ ~cancelled
    /\ pc # "returned"
    /\ cancelled' = TRUE
    /\ timer' = IF timer = "live" THEN "canceled" ELSE timer
    /\ cut' = (tcpdump = "running")
    /\ UNCHANGED <<handle, tcpdump, packets, upload>>

HandleStep ==
    \/ PublishRunning \/ SelectExecutor \/ Execute \/ StartCapture \/ EndCapture
    \/ EndUpload \/ CompletedStatus \/ PublishResult \/ PublishFailure

\* What the writer does without the server reading from its pipe.
WriterStep ==
    \/ OpenCapture \/ CloseBody
    \/ ((writer = "open" /\ Removed) \/ pipe = "broken") /\ WriterFails

Next ==
    \/ Cancel
    \/ HandleStep
    \/ CapturePacket \/ TcpdumpExits \/ KillTcpdump \/ CaptureTimeout
    \/ WriterStep \/ WritePart \/ WriterFails
    \/ ServerAccepts \/ ServerRefuses \/ RefusalEnds \/ ConnectionFails \/ AbortRequest

\* The goroutines run, the duration expires, a killed tcpdump dies and the HTTP
\* transport gives a request up; tcpdump and Cancel owe nothing, and the server owes
\* neither an answer, nor the end of one, nor a single read of the body.
Fairness ==
    /\ WF_vars(HandleStep) /\ WF_vars(WriterStep)
    /\ WF_vars(CaptureTimeout) /\ WF_vars(KillTcpdump) /\ WF_vars(AbortRequest)

Spec == Init /\ [][Next]_vars /\ Fairness

-----------------------------------------------------------------------------
(* Properties                                                              *)

\* Every variable has its type; the server never reads more parts than the body has.
TypeOK ==
    /\ mode \in {"real", "placeholder"} /\ cmd \in Commands
    /\ cancelled \in BOOLEAN /\ err \in BOOLEAN /\ cut \in BOOLEAN
    /\ pc \in PCs
    /\ code \in Codes \cup {NoCode}
    /\ sent \subseteq SuccessMessages \cup FailureMessages
    /\ timer \in {"off", "live", "deadline", "canceled"}
    /\ tcpdump \in {"off", "unstarted", "running", "ok", "failed"}
    /\ packets \in 0 .. MaxPackets
    /\ writer \in {"off", "open", "copy", "done"}
    /\ pipe \in {"open", "closed", "error", "broken"}
    /\ parts \in 0 .. MaxPackets + 2
    /\ http \in {"off", "sending", "accepted", "refusing", "refused", "error"}

\* A trace reported completed is with the controller, whole: every packet tcpdump
\* wrote was read by the server that accepted the upload.  A file that could not be
\* opened or read must not look to the server like a shorter body.
CompletedIsUploaded ==
    mode = "real" /\ sent \cap SuccessMessages # {} => parts = BodyParts

\* A trace reported completed was a capture: tcpdump ran, within the bounds of a valid
\* payload and for more than no time.  An expired captureCtx is how a capture ends
\* well, so a duration of 0 must never reach it.  A payload is refused as invalid
\* only before anything ran.
CompletedWasCaptured ==
    /\ mode = "real" /\ sent \cap SuccessMessages # {} =>
          tcpdump \in {"ok", "failed"} /\ ValidPayload(cmd.payload)
    /\ code = "invalid_action_payload" => tcpdump = "off" /\ ~ValidPayload(cmd.payload)

\* A trace whose call was cancelled while tcpdump ran is never reported completed,
\* not even when its duration expired in the meantime.
CancelledTraceFails == cut => sent \cap SuccessMessages = {}

\* The return value and the messages agree: nil means that the success status and
\* result were accepted and nothing else was, an error that no success result was.
ReturnMatchesMessages ==
    pc = "returned" =>
        IF err THEN "success_result" \notin sent ELSE sent = SuccessMessages

\* A capture ends, with or without a packet limit, traffic or a cancellation.
CaptureEnds == pc = "run" ~> pc # "run"

\* A cancelled call returns, even from an upload the server never answers or whose
\* refusal it never finishes.
CancelEndsCall == cancelled ~> pc = "returned"

\* Once its call is cancelled, or has left the upload on whatever path, the goroutine
\* that writes the body ends, even one blocked in the pipe to a server that answered
\* early and reads no more.
WriterEnds == writer # "off" /\ (cancelled \/ pc # "upload") ~> writer = "done"
=============================================================================
