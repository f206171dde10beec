\* An action that can be executed, one that is enabled but has no executor (which
\* actions.NewService allows and config.Validate does not) and one that is not enabled;
\* both executors; payloads at and beyond each bound; captures of up to three packets.
CONSTANTS
    Trace = trace
    ping = ping
    reboot = reboot
    Names <- MCNames
    Enabled <- MCEnabled
    Modes <- MCModes
    Payloads <- MCPayloads
    MaxPackets = 3
SPECIFICATION Spec
INVARIANTS
    TypeOK
    CompletedIsUploaded
    CompletedWasCaptured
    CancelledTraceFails
    ReturnMatchesMessages
PROPERTIES
    CaptureEnds
    CancelEndsCall
    WriterEnds
\* The command ends.
CHECK_DEADLOCK FALSE
