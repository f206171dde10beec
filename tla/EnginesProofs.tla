---------------------------- MODULE EnginesProofs ----------------------------
(***************************************************************************)
(* Proofs about Engines, for any strings and any values of a schema field. *)
(***************************************************************************)
EXTENDS Engines, TLAPS

-----------------------------------------------------------------------------
(* Metadata                                                                *)

FieldNames == {"name", "version"}

\* A field that is there and decodes to a string.
Declared(v) == v \in {"text", "null"}

\* The string such a field holds.
TextOf(v, place) == IF v = "text" THEN place ELSE Blank

\* What remains of a field of the metadata when an object is merged into it.
AfterFields(fields, place, old, f) ==
    IF Declared(fields[f]) THEN TextOf(fields[f], place) ELSE old

AfterObject(obj, place, schemaPlace, old, f) ==
    IF obj.schema \in Schema
    THEN AfterFields(obj.schema, schemaPlace, AfterFields(obj, place, old, f), f)
    ELSE AfterFields(obj, place, old, f)

\* A merge replaces exactly the fields the object declares.
LEMMA MergeFieldsValue ==
    ASSUME NEW fields, NEW place, NEW meta, NEW f \in FieldNames
    PROVE  MergeFields(fields, place, meta)[f] = AfterFields(fields, place, meta[f], f)
<1>1. MergeFields(fields, place, meta).name = AfterFields(fields, place, meta.name, "name")
  BY DEF MergeFields, StringField, AfterFields, Declared, TextOf
<1>2. MergeFields(fields, place, meta).version =
          AfterFields(fields, place, meta.version, "version")
  BY DEF MergeFields, StringField, AfterFields, Declared, TextOf
<1> QED
  BY <1>1, <1>2 DEF FieldNames

\* The declarations of a "schema" come after the object's own.
LEMMA MergeMetadataValue ==
    ASSUME NEW obj, NEW place, NEW schemaPlace, NEW meta, NEW f \in FieldNames
    PROVE  MergeMetadata(obj, place, schemaPlace, meta)[f] =
               AfterObject(obj, place, schemaPlace, meta[f], f)
  BY MergeFieldsValue DEF MergeMetadata, AfterObject

\* The wrapped configuration's declarations come last.
LEMMA MetadataValue ==
    ASSUME NEW payload, NEW f \in FieldNames
    PROVE  LET outer == AfterObject(payload.own, "root", "root.schema", "supported", f)
           IN  Metadata(payload)[f] =
                   IF payload.config \in Objects
                   THEN AfterObject(payload.config, "config", "config.schema", outer, f)
                   ELSE outer
<1>1. SupportedSchema[f] = "supported"
  BY DEF SupportedSchema, FieldNames
<1> QED
  BY <1>1, MergeMetadataValue DEF Metadata

\* The declarations of one object, ranked from the given rank on.
At(rank, place, fields, f) ==
    IF Declared(fields[f]) THEN {<<rank, TextOf(fields[f], place)>>} ELSE {}

Under(rank, place, schemaPlace, obj, f) ==
    At(rank, place, obj, f) \cup
    (IF obj.schema \in Schema THEN At(rank + 1, schemaPlace, obj.schema, f) ELSE {})

\* Merging one object leaves its most specific declaration, or what was there before.
LEMMA ObjectWins ==
    ASSUME NEW obj, NEW rank \in Nat, NEW place, NEW schemaPlace, NEW old, NEW f
    PROVE  LET D == Under(rank, place, schemaPlace, obj, f)
               value == AfterObject(obj, place, schemaPlace, old, f)
           IN  /\ \A e \in D : e[1] \in rank .. rank + 1
               /\ D = {} => value = old
               /\ D # {} => \E d \in D : d[2] = value /\ \A e \in D : e[1] <= d[1]
<1> USE DEF Under, At, AfterObject, AfterFields
<1> DEFINE D == Under(rank, place, schemaPlace, obj, f)
           value == AfterObject(obj, place, schemaPlace, old, f)
<1>1. CASE obj.schema \in Schema /\ Declared(obj.schema[f])
  <2> DEFINE d == <<rank + 1, TextOf(obj.schema[f], schemaPlace)>>
  <2>1. d \in D /\ d[2] = value
    BY <1>1
  <2>2. \A e \in D : e[1] \in rank .. rank + 1 /\ e[1] <= d[1]
    OBVIOUS
  <2> HIDE DEF d, D, value
  <2>3. /\ \A e \in D : e[1] \in rank .. rank + 1
        /\ D # {} /\ \E e \in D : e[2] = value /\ \A x \in D : x[1] <= e[1]
    BY <2>1, <2>2
  <2> QED
    BY <2>3 DEF D, value
<1>2. CASE ~(obj.schema \in Schema /\ Declared(obj.schema[f])) /\ Declared(obj[f])
  <2> DEFINE d == <<rank, TextOf(obj[f], place)>>
  <2>1. D = {d} /\ d[2] = value
    BY <1>2
  <2>2. d[1] = rank /\ rank \in rank .. rank + 1 /\ rank <= rank
    OBVIOUS
  <2> HIDE DEF d, D, value
  <2>3. /\ \A e \in D : e[1] \in rank .. rank + 1
        /\ D # {} /\ \E e \in D : e[2] = value /\ \A x \in D : x[1] <= e[1]
    BY <2>1, <2>2
  <2> QED
    BY <2>3 DEF D, value
<1>3. CASE ~(obj.schema \in Schema /\ Declared(obj.schema[f])) /\ ~Declared(obj[f])
  BY <1>3
<1> QED
  BY <1>1, <1>2, <1>3

\* The most specific declaration wins, whatever the payload declares where.
LEMMA MostSpecificWins ==
    ASSUME NEW payload, NEW f \in FieldNames
    PROVE  LET D == Declarations(payload, f)
           IN  IF D = {} THEN Metadata(payload)[f] = "supported"
               ELSE \E d \in D : d[2] = Metadata(payload)[f] /\ \A e \in D : e[1] <= d[1]
<1> DEFINE outer == Under(1, "root", "root.schema", payload.own, f)
           inner == Under(3, "config", "config.schema", payload.config, f)
           below == AfterObject(payload.own, "root", "root.schema", "supported", f)
           D == Declarations(payload, f)
<1>1. D = outer \cup (IF payload.config \in Objects THEN inner ELSE {})
  BY DEF Declarations, Declared, TextOf, Under, At
<1>2. /\ \A e \in outer : e[1] \in 1 .. 2
      /\ outer = {} => below = "supported"
      /\ outer # {} => \E d \in outer : d[2] = below /\ \A e \in outer : e[1] <= d[1]
  BY ObjectWins
<1>3. CASE payload.config \in Objects
  <2>1. Metadata(payload)[f] = AfterObject(payload.config, "config", "config.schema", below, f)
    BY <1>3, MetadataValue
  <2>2. /\ \A e \in inner : e[1] \in 3 .. 4
        /\ inner = {} => Metadata(payload)[f] = below
        /\ inner # {} =>
              \E d \in inner : d[2] = Metadata(payload)[f] /\ \A e \in inner : e[1] <= d[1]
    BY <2>1, ObjectWins
  <2> HIDE DEF outer, inner, below
  <2>3. CASE inner = {}
    BY <1>1, <1>2, <1>3, <2>2, <2>3
  <2>4. CASE inner # {}
    BY <1>1, <1>2, <1>3, <2>2, <2>4
  <2> QED
    BY <2>3, <2>4
<1>4. CASE payload.config \notin Objects
  <2>1. Metadata(payload)[f] = below
    BY <1>4, MetadataValue
  <2> HIDE DEF outer, inner, below
  <2> QED
    BY <1>1, <1>2, <1>4, <2>1
<1> QED
  BY <1>3, <1>4

-----------------------------------------------------------------------------
(* The inductive invariant                                                 *)

\* The record is one the adapters may be given.
RecordInv ==
    /\ mode \in {"real", "placeholder"}
    /\ record.target \in {Target, Blank} /\ record.uuid \in {UUID, Blank}
    /\ record.payload \in Payloads

\* The adapter's input is the one it built from the record, whose payload it accepted.
InputInv ==
    /\ input # None => input = RendererInput /\ record.payload # NotAnObject
    /\ pc = "backend_render" => input # None /\ mode = "real"

\* Whatever was rendered was rendered for this record.
OutputInv ==
    /\ pc \in {"render", "backend_render"} => output = None
    /\ pc \in {"rendered", "backend_apply"} => output # None
    /\ output # None =>
          /\ output.target = record.target /\ output.uuid = record.uuid
          /\ mode = "real" =>
                record.payload # NotAnObject /\ output.text \in {Commands(RendererInput), NoText}

\* What is applied is the rendered output, and so is what was planned.
ApplyInv ==
    /\ pc = "backend_apply" => mode = "real" /\ (preparer => planned = ApplyInput(output))
    /\ planned # None => mode = "real" /\ output # None /\ planned = ApplyInput(output)
    /\ applied # None =>
          /\ pc \in {"applied", "apply_failed"}
          /\ mode = "real" /\ output # None /\ applied = ApplyInput(output)
          /\ preparer => planned = applied

PCInv ==
    /\ preparer \in BOOLEAN /\ cancelled \in BOOLEAN
    /\ pc \in {"render", "render_failed", "backend_render", "rendered",
               "backend_apply", "applied", "apply_failed"}

IInv == RecordInv /\ PCInv /\ InputInv /\ OutputInv /\ ApplyInv

\* The inductive invariant holds initially.
LEMMA IInvInit == Init => IInv
<1> SUFFICES ASSUME Init PROVE IInv
  OBVIOUS
<1>1. RecordInv
  BY DEF Init, RecordInv
<1>2. PCInv /\ InputInv /\ OutputInv /\ ApplyInv
  BY DEF Init, PCInv, InputInv, OutputInv, ApplyInv
<1> QED
  BY <1>1, <1>2 DEF IInv

\* The record itself never changes, and what each stage was built from stays.
LEMMA IInvStep == IInv /\ [Next]_vars => IInv'
<1> SUFFICES ASSUME IInv, [Next]_vars PROVE IInv'
  OBVIOUS
<1> USE DEF IInv, RecordInv, PCInv, InputInv, OutputInv, ApplyInv, Goto
<1>0. /\ RendererInput # None
      /\ \A o : ApplyInput(o) # None
      /\ \A t, u, x : [target |-> t, uuid |-> u, text |-> x] # None
  BY DEF RendererInput, ApplyInput, None
<1>1. CASE Cancel
  BY <1>1 DEF Cancel, RendererInput
<1>2. CASE PlaceholderRender
  BY <1>0, <1>2 DEF PlaceholderRender, RendererInput
<1>3. CASE BuildInput
  BY <1>0, <1>3 DEF BuildInput, RendererInput
<1>4. CASE BackendRender
  <2>1. /\ UNCHANGED <<mode, record, input, planned, applied>>
        /\ input = RendererInput /\ mode = "real" /\ record.payload # NotAnObject
        /\ output = None /\ planned = None /\ applied = None
    BY <1>4 DEF BackendRender
  <2>2. input.target = record.target /\ input.uuid = record.uuid
    BY <2>1 DEF RendererInput
  <2> HIDE DEF Goto
  <2>3. \/ /\ output' # None
           /\ output'.target = record.target /\ output'.uuid = record.uuid
           /\ output'.text \in {Commands(RendererInput), NoText}
           /\ Goto("rendered")
        \/ output' = None /\ Goto("render_failed")
    BY <1>0, <1>4, <2>1, <2>2 DEF BackendRender
  <2> USE DEF Goto
  <2>4. RendererInput' = RendererInput /\ Commands(RendererInput)' = Commands(RendererInput)
    BY <2>1 DEF RendererInput, Commands
  <2>5. pc' \in {"rendered", "render_failed"} /\ UNCHANGED <<preparer, cancelled>>
    BY <2>3
  <2>6. OutputInv'
    BY <2>1, <2>3, <2>4, <2>5
  <2> QED
    BY <2>1, <2>4, <2>5, <2>6
<1>5. CASE PlaceholderApply
  BY <1>5 DEF PlaceholderApply, RendererInput
<1>6. CASE Prepare
  BY <1>0, <1>6 DEF Prepare, PrepareFails, RendererInput
<1>7. CASE BackendApply
  BY <1>0, <1>7 DEF BackendApply, RendererInput
<1>8. CASE UNCHANGED vars
  BY <1>8 DEF vars, RendererInput
<1> QED
  BY <1>1, <1>2, <1>3, <1>4, <1>5, <1>6, <1>7, <1>8 DEF Next

-----------------------------------------------------------------------------
(* The theorems                                                            *)

\* What each engine works on was built from the record, in every state.
THEOREM InvariantHolds == Spec => []IInv
  BY IInvInit, IInvStep, PTL DEF Spec

\* Metadata is a pair of strings, whatever the payload declares where.
LEMMA MetadataType ==
    ASSUME NEW payload PROVE Metadata(payload) \in [name : Strings, version : Strings]
<1> DEFINE Meta == [name : Strings, version : Strings]
<1>1. ASSUME NEW fields, NEW place \in Strings, NEW meta \in Meta
      PROVE  MergeFields(fields, place, meta) \in Meta
  <2>1. \A v : \A old \in Strings : StringField(v, place, old) \in Strings
    BY DEF StringField, Strings
  <2> QED
    BY <2>1 DEF MergeFields
<1>2. ASSUME NEW obj, NEW place \in Strings, NEW schemaPlace \in Strings, NEW meta \in Meta
      PROVE  MergeMetadata(obj, place, schemaPlace, meta) \in Meta
  BY <1>1 DEF MergeMetadata
<1>3. SupportedSchema \in Meta
  BY DEF SupportedSchema, Strings
<1>4. {"root", "root.schema", "config", "config.schema"} \subseteq Strings
  BY DEF Strings, Places
<1> HIDE DEF Meta
<1>5. Metadata(payload) \in Meta
  BY <1>2, <1>3, <1>4 DEF Metadata
<1> QED
  BY <1>5 DEF Meta

\* What the adapter builds for the renderer is well typed.
LEMMA RendererInputType ==
    ASSUME RecordInv, record.payload # NotAnObject
    PROVE  /\ RendererInput.meta \in [name : Strings, version : Strings]
           /\ Commands(RendererInput) \in
                 [from : Objects \cup Payloads, schema : [name : Strings, version : Strings]]
<1>1. SupportedSchema \in [name : Strings, version : Strings]
  BY DEF SupportedSchema, Strings
<1>2. RendererInput.meta \in [name : Strings, version : Strings]
  BY <1>1, MetadataType DEF RendererInput
<1>3. RendererInput.body \in Objects \cup Payloads
  <2>1. CASE record.payload = Missing
    BY <2>1 DEF RendererInput, Payloads
  <2>2. CASE record.payload \in Root
    <3>1. Body(record.payload) \in Objects \cup Payloads
      BY <2>2 DEF Body, Root, Payloads
    <3> QED
      BY <2>2, <3>1 DEF RendererInput, Payloads
  <2> QED
    BY <2>1, <2>2 DEF RecordInv, Payloads
<1> QED
  BY <1>2, <1>3 DEF Commands

\* Every variable has its type in every state.
THEOREM TypeCorrect == Spec => []TypeOK
<1>1. IInv => TypeOK
  <2> SUFFICES ASSUME IInv PROVE TypeOK
    OBVIOUS
  <2> USE DEF IInv
  <2>1. input # None => input.meta \in [name : Strings, version : Strings]
    BY RendererInputType DEF InputInv
  <2>2. ASSUME mode = "real", output # None PROVE ApplyInput(output) \in ApplyInputs
    <3>1. Commands(RendererInput) \in
              [from : Objects \cup Payloads, schema : [name : Strings, version : Strings]]
      BY <2>2, RendererInputType DEF OutputInv
    <3>2. output.text \in {Commands(RendererInput), NoText}
      BY <2>2 DEF OutputInv
    <3>3. output.target \in {Target, Blank} /\ output.uuid \in {UUID, Blank}
      BY <2>2 DEF OutputInv, RecordInv
    <3> QED
      BY <3>1, <3>2, <3>3 DEF ApplyInput, ApplyInputs
  <2>3. planned = None \/ planned \in ApplyInputs
    BY <2>2 DEF ApplyInv
  <2>4. applied = None \/ applied \in ApplyInputs
    BY <2>2 DEF ApplyInv
  <2> QED
    BY <2>1, <2>3, <2>4 DEF RecordInv, PCInv, TypeOK
<1> QED
  BY InvariantHolds, <1>1, PTL

\* The renderer is always told the most specific schema name and version the payload
\* declares.
THEOREM RendererIsToldMostSpecific == Spec => []MetadataIsMostSpecific
<1>1. IInv => MetadataIsMostSpecific
  <2> SUFFICES ASSUME IInv, input # None, record.payload \in Root,
                      NEW f \in {"name", "version"}
               PROVE  LET D == Declarations(record.payload, f)
                      IN  IF D = {} THEN input.meta[f] = "supported"
                          ELSE \E d \in D : d[2] = input.meta[f] /\ \A e \in D : e[1] <= d[1]
    BY DEF MetadataIsMostSpecific
  <2>1. record.payload # Missing
    BY DEF Root, Missing
  <2>2. input.meta = Metadata(record.payload)
    BY <2>1 DEF IInv, InputInv, RendererInput
  <2> QED
    BY <2>2, MostSpecificWins DEF FieldNames
<1> QED
  BY InvariantHolds, <1>1, PTL

\* The device commits only what was rendered from the record, under its target and
\* UUID, and what was planned if the engine can plan.
THEOREM OnlyTheRecordIsCommitted == Spec => []CommitsTheRecord
<1>1. IInv => CommitsTheRecord
  BY DEF IInv, OutputInv, ApplyInv, ApplyInput, CommitsTheRecord
<1> QED
  BY InvariantHolds, <1>1, PTL

=============================================================================
