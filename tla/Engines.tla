------------------------------- MODULE Engines -------------------------------
(***************************************************************************)
(* The engines between the configure service and the device, for one       *)
(* record: the VyOS renderer adapter (internal/renderervyos), which finds  *)
(* the schema of the payload and unwraps it, the VyOS apply adapter        *)
(* (internal/applyvyos), which plans and applies the commands, and the     *)
(* placeholders (internal/renderer, internal/apply).                       *)
(*                                                                         *)
(* A payload is what the adapter tells apart of the JSON: at each of the   *)
(* four places that may declare a schema name or version, whether the      *)
(* field is there and decodes to a string.  A string is the place it was   *)
(* found at.                                                               *)
(***************************************************************************)
EXTENDS Naturals, FiniteSets

CONSTANTS
    Blank,      \* the empty string
    Target,     \* the record's target, unless it is blank
    UUID,       \* the record's UUID, unless it is blank
    Fields      \* what a schema field may hold, of FieldValues

\* A string, null (which decodes to the empty string), a value that does not decode
\* to a string, or no such field.
FieldValues == {"text", "null", "other", "absent"}

ASSUME FieldsAssumption == Fields \subseteq FieldValues
ASSUME NamesAssumption == Blank # Target /\ Blank # UUID

VARIABLES
    mode,       \* agent.configure.mode: "real", "placeholder"
    preparer,   \* whether the apply engine can prepare a plan
    record,     \* the desired record: target, uuid, payload
    cancelled,  \* the context of the call is cancelled
    pc,         \* what comes next
    input,      \* the input of the VyOS renderer, or None
    output,     \* renderer.Output, or None
    planned,    \* the apply input the plan was prepared for, or None
    applied     \* the apply input whose commands the device committed, or None

vars == <<mode, preparer, record, cancelled, pc, input, output, planned, applied>>

None == [kind |-> "none"]

\* Objects that may declare a schema by the fields schema_name and schema_version and
\* by an object "schema" with name and version; the root may wrap a "config".
Schema == [name : Fields, version : Fields]
NotAnObject == [kind |-> "other"]
Missing == [kind |-> "absent"]
Objects == [name : Fields, version : Fields, schema : Schema \cup {NotAnObject, Missing}]
Root == [own : Objects, config : Objects \cup {NotAnObject, Missing}]

\* A payload that is null decodes to an object without fields; any other that is no
\* object is refused.
Payloads == Root \cup {Missing, NotAnObject}

Places == {"root", "root.schema", "config", "config.schema"}
Strings == Places \cup {"supported", Blank}

-----------------------------------------------------------------------------
(* renderervyos: metadata and payload                                      *)

\* Mutant: null is taken for a field that is not there.
StringFieldSkipsNull(v, place, otherwise) == IF v = "text" THEN place ELSE otherwise

\* stringField, and what it leaves in place.
StringField(v, place, otherwise) ==
    CASE v = "text" -> place
      [] v = "null" -> Blank
      [] OTHER -> otherwise

MergeFields(fields, place, meta) ==
    [name |-> StringField(fields.name, place, meta.name),
     version |-> StringField(fields.version, place, meta.version)]

\* Mutant: the fields of the object itself win over its "schema".
MergeSchemaFirst(obj, place, schemaPlace, meta) ==
    IF obj.schema \in Schema
    THEN MergeFields(obj, place, MergeFields(obj.schema, schemaPlace, meta))
    ELSE MergeFields(obj, place, meta)

\* mergeMetadata: the object's own fields, then those of its "schema".
MergeMetadata(obj, place, schemaPlace, meta) ==
    LET own == MergeFields(obj, place, meta)
    IN  IF obj.schema \in Schema THEN MergeFields(obj.schema, schemaPlace, own) ELSE own

\* firstSupportedSchemaVersion and the name beside it: what the library supports.
SupportedSchema == [name |-> "supported", version |-> "supported"]

\* payloadAndMetadata of an object: the wrapped configuration's fields win.
Metadata(payload) ==
    LET outer == MergeMetadata(payload.own, "root", "root.schema", SupportedSchema)
    IN  IF payload.config \in Objects
        THEN MergeMetadata(payload.config, "config", "config.schema", outer)
        ELSE outer

\* The part of the payload that is rendered: whatever "config" holds, if it is there.
Body(payload) == IF payload.config = Missing THEN payload ELSE payload.config

\* renderervyos.BuildInput
RendererInput ==
    LET p == record.payload
    IN  [target |-> record.target, uuid |-> record.uuid,
         meta |-> IF p = Missing THEN SupportedSchema ELSE Metadata(p),
         body |-> IF p = Missing THEN p ELSE Body(p)]

\* The commands the library renders for such an input.
Commands(i) == [from |-> i.body, schema |-> i.meta]
PlaceholderText == [from |-> "placeholder"]
NoText == [from |-> "nothing"]

-----------------------------------------------------------------------------

\* The VyOS adapters look at neither target nor UUID, and the placeholders not at the
\* payload.
Init ==
    /\ mode \in {"real", "placeholder"}
    /\ preparer \in BOOLEAN
    /\ \E t \in {Target, Blank}, u \in {UUID, Blank}, p \in Payloads :
          /\ mode = "real" => t = Target
          /\ mode = "placeholder" => p = Missing
          /\ record = [target |-> t, uuid |-> u, payload |-> p]
    /\ cancelled = FALSE
    /\ pc = "render"
    /\ input = None
    /\ output = None
    /\ planned = None
    /\ applied = None

Goto(label) == pc' = label /\ UNCHANGED <<mode, preparer, record, cancelled>>

\* The context of the call is cancelled; each engine looks at it when it likes.
Cancel ==
    /\ ~cancelled
    /\ cancelled' = TRUE
    /\ UNCHANGED <<mode, preparer, record, pc, input, output, planned, applied>>

-----------------------------------------------------------------------------
(* Render                                                                  *)

\* What the placeholder renderer requires of a record.
Complete == record.target # Blank /\ record.uuid # Blank

PlaceholderRender ==
    /\ pc = "render" /\ mode = "placeholder"
    /\ \/ /\ ~cancelled /\ Complete
          /\ output' = [target |-> record.target, uuid |-> record.uuid,
                        text |-> PlaceholderText]
          /\ Goto("rendered")
       \/ /\ cancelled \/ ~Complete
          /\ Goto("render_failed")
          /\ UNCHANGED output
    /\ UNCHANGED <<input, planned, applied>>

\* BuildInput; a payload that is no object is refused here.
BuildInput ==
    /\ pc = "render" /\ mode = "real"
    /\ \/ record.payload = NotAnObject /\ Goto("render_failed") /\ UNCHANGED input
       \/ record.payload # NotAnObject /\ Goto("backend_render") /\ input' = RendererInput
    /\ UNCHANGED <<output, planned, applied>>

\* The library renders the input, answers for the record it was given, or fails.
BackendRender ==
    /\ pc = "backend_render"
    /\ \/ /\ output' \in {[target |-> input.target, uuid |-> input.uuid, text |-> text] :
                             text \in {Commands(input), NoText}}
          /\ Goto("rendered")
       \/ Goto("render_failed") /\ UNCHANGED output
    /\ UNCHANGED <<input, planned, applied>>

-----------------------------------------------------------------------------
(* Apply                                                                   *)

PlaceholderApply ==
    /\ pc = "rendered" /\ mode = "placeholder"
    /\ \/ /\ ~cancelled /\ output.uuid # Blank /\ output.text # NoText
          /\ Goto("applied")
       \/ /\ cancelled \/ output.uuid = Blank \/ output.text = NoText
          /\ Goto("apply_failed")
    /\ UNCHANGED <<input, output, planned, applied>>

\* Mutant: the apply adapter swaps two fields.
SwappedInput(o) == [target |-> o.uuid, uuid |-> o.target, commands |-> o.text]

\* applyvyos.BuildInput
ApplyInput(o) == [target |-> o.target, uuid |-> o.uuid, commands |-> o.text]

\* Mutant: a plan that cannot be prepared does not stop the apply.
ApplyUnplanned == "backend_apply"

\* "prepare vyos apply plan" is an error return.
PrepareFails == "apply_failed"

\* Prepare plans the very input that Apply then gets; without a preparer the adapter
\* goes straight on.
Prepare ==
    /\ pc = "rendered" /\ mode = "real"
    /\ \/ preparer /\ Goto("backend_apply") /\ planned' = ApplyInput(output)
       \/ preparer /\ Goto(PrepareFails) /\ UNCHANGED planned
       \/ ~preparer /\ Goto("backend_apply") /\ UNCHANGED planned
    /\ UNCHANGED <<input, output, applied>>

\* The library commits, fails before the commit, or fails after it.
BackendApply ==
    /\ pc = "backend_apply"
    /\ \/ applied' = ApplyInput(output) /\ Goto("applied")
       \/ applied' \in {None, ApplyInput(output)} /\ Goto("apply_failed")
    /\ UNCHANGED <<input, output, planned>>

Next ==
    \/ Cancel
    \/ PlaceholderRender \/ BuildInput \/ BackendRender
    \/ PlaceholderApply \/ Prepare \/ BackendApply

Spec == Init /\ [][Next]_vars

-----------------------------------------------------------------------------
(* Properties                                                              *)

ApplyInputs ==
    [target : {Target, Blank}, uuid : {UUID, Blank},
     commands : [from : Objects \cup Payloads, schema : [name : Strings, version : Strings]]
                \cup {NoText}]

\* Every variable has its type; metadata is always a pair of strings.
TypeOK ==
    /\ mode \in {"real", "placeholder"}
    /\ preparer \in BOOLEAN /\ cancelled \in BOOLEAN
    /\ record.payload \in Payloads
    /\ pc \in {"render", "render_failed", "backend_render", "rendered",
               "backend_apply", "applied", "apply_failed"}
    /\ input # None => input.meta \in [name : Strings, version : Strings]
    /\ planned = None \/ planned \in ApplyInputs
    /\ applied = None \/ applied \in ApplyInputs

\* The declarations of a field that decode, with their rank: the more deeply nested the
\* place, the more specific.
Declarations(payload, f) ==
    LET at(rank, place, fields) ==
            IF fields[f] \in {"text", "null"}
            THEN {<<rank, IF fields[f] = "text" THEN place ELSE Blank>>} ELSE {}
        under(rank, place, schemaPlace, obj) ==
            at(rank, place, obj) \cup
            (IF obj.schema \in Schema THEN at(rank + 1, schemaPlace, obj.schema) ELSE {})
    IN  under(1, "root", "root.schema", payload.own) \cup
        (IF payload.config \in Objects
         THEN under(3, "config", "config.schema", payload.config) ELSE {})

\* The renderer is told the most specific schema name and the most specific version that
\* the payload declares, each by itself, and otherwise the one the library
\* supports: five merges in sequence never let an outer declaration win.
MetadataIsMostSpecific ==
    input # None /\ record.payload \in Root =>
        \A f \in {"name", "version"} :
            LET D == Declarations(record.payload, f)
            IN  IF D = {} THEN input.meta[f] = "supported"
                ELSE \E d \in D : d[2] = input.meta[f] /\ \A e \in D : e[1] <= d[1]

\* What the device commits are the commands rendered from the record's own payload under
\* the record's own target and UUID, and they were planned first if the engine
\* can plan; an error before the commit commits nothing.
CommitsTheRecord ==
    applied # None =>
        /\ pc \in {"applied", "apply_failed"}
        /\ applied.target = record.target /\ applied.uuid = record.uuid
        /\ applied.commands \in {Commands(RendererInput), NoText}
        /\ preparer => planned = applied
=============================================================================
