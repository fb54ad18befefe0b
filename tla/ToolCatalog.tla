---------------------------- MODULE ToolCatalog ----------------------------
(* The tool catalog of a Responses request and its rewriting: the router   *)
(* takes Codex's editing tool away, keeps the tool that can carry a        *)
(* translated result and adds its own tools (internal/router:              *)
(* responses_tools.go, tool_carrier.go, replaceCodeModeTools and           *)
(* replaceNativeTools of mekugi_proxy.go).  A tool is its name, its type,  *)
(* the tools nested in it when it is a namespace, and, for the Code Mode   *)
(* executor, the sections of its description that document nested tools.   *)
EXTENDS Naturals, FiniteSets, SequencesExt

CONSTANTS
  Installed,  \* names of the tools the router installs
  MaxTop,     \* bound on the tools of the top-level array
  MaxExtra    \* bound on the tools of an additional_tools item

ASSUME InstalledAssumption ==
  /\ IsFiniteSet(Installed) /\ "shell" \in Installed
  /\ MaxTop \in Nat /\ MaxExtra \in Nat

(* responsesToolDefinition: the fields that the rewriting reads.           *)
Tool(name, type, sections) ==
  [name |-> name, type |-> type, sections |-> sections, nested |-> <<>>]

Plain ==
  {Tool("exec", "custom", {"apply_patch", "exec_command"}), Tool("exec", "custom", {}),
   Tool("exec", "function", {"apply_patch"}), Tool("apply_patch", "custom", {}),
   Tool("apply_patch", "function", {}), Tool("exec_command", "function", {}),
   Tool("exec_command", "custom", {}), Tool("shell", "custom", {}),
   Tool("functions.exec", "custom", {}), Tool("update_plan", "function", {})}

Nestable ==
  {Tool("exec", "custom", {"apply_patch", "exec_command"}), Tool("apply_patch", "custom", {}),
   Tool("exec_command", "function", {}), Tool("shell", "custom", {}), Tool("update_plan", "function", {})}

\* A namespace groups tools under its name (responsesToolNode).
Namespaces ==
  {[Tool(n, "namespace", {}) EXCEPT !.nested = <<t>>] : n \in {"functions", "exec", "mcp"}, t \in Nestable}

(* responsesToolCatalog: the top-level array, absent or present, and one   *)
(* additional_tools item of the input, absent when it holds no tools.      *)
(* Either may hold namespaces.                                             *)
Catalogs ==
  LET extras == SeqOf(Plain \cup Namespaces, MaxExtra)
  IN  [present : {TRUE}, top : SeqOf(Plain \cup Namespaces, MaxTop), extra : extras]
      \cup [present : {FALSE}, top : {<<>>}, extra : extras]

Nested(section) == UNION {Range(t.nested) : t \in {u \in Range(section) : u.type = "namespace"}}
Leaves(section) == {t \in Range(section) : t.type # "namespace"} \cup Nested(section)

(* The tools that buildCodeModeCarrierCatalog adds: those of the top-level *)
(* array itself, and those of an additional item with its namespaces.      *)
Listed(cat) == {t \in Range(cat.top) : t.type # "namespace"} \cup Leaves(cat.extra)

\* How often the listed tools define a name.
Defines(t, name) == t.name = name /\ t.type \in {"custom", "function"}
Direct(section, name) == {k \in 1..Len(section) : Defines(section[k], name)}
Inner(section, name) ==
  UNION {{<<n, m>> : m \in Direct(section[n].nested, name)} :
         n \in {k \in 1..Len(section) : section[k].type = "namespace"}}
Times(cat, name) ==
  Cardinality(Direct(cat.top, name)) + Cardinality(Direct(cat.extra, name)) + Cardinality(Inner(cat.extra, name))

(* buildCodeModeCarrierCatalog: no tool of the router's own names, and no  *)
(* carrier defined twice; apply_patch is no carrier.                       *)
CarriersClash(cat) ==
  \/ \E t \in Range(cat.top) \cup Leaves(cat.extra) : t.name \in Installed
  \/ \E t \in Listed(cat) : t.name # "apply_patch" /\ Times(cat, t.name) > 1

(* require: the carrier a translation needs is in the catalog, of the kind *)
(* that it needs.                                                          *)
Carries(cat, name, kind) == \E t \in Listed(cat) : t.name = name /\ t.type = kind

\* Only the Code Mode executor whose description documents apply_patch owns editing.
OwnsEditing(t) == t.name = "exec" /\ t.type = "custom" /\ "apply_patch" \in t.sections

(* findCodeModeApplyPatch: where claim looks.  At the top level only exec  *)
(* itself is considered, in an additional item every tool is, and a        *)
(* namespace other than functions is not entered.                          *)
Claimed(cat) ==
  [top   |-> {t \in Range(cat.top) : t.name = "exec"},
   flat  |-> {t \in Range(cat.extra) : t.type # "namespace"},
   inner |-> UNION {Range(t.nested) : t \in {u \in Range(cat.extra) :
                        u.type = "namespace" /\ u.name = "functions"}}]

Owners(cat) ==
  {t \in Claimed(cat).top \cup Claimed(cat).flat \cup Claimed(cat).inner : OwnsEditing(t)}

\* The additional item may expose no direct editing tool and no flat executor alias.
ClaimFails(cat) ==
  \/ \E t \in Claimed(cat).flat \cup Claimed(cat).inner :
       t.name \in Installed \cup {"apply_patch"}
  \/ \E t \in Claimed(cat).flat : t.name = "functions.exec"
  \/ \E t \in Range(cat.extra) :
       t.type = "namespace" /\ t.name \in Installed \cup {"exec", "functions.exec", "apply_patch"}

(* stripCodeModeApplyPatchSection and stripCodeModeExecCommandContract:    *)
(* the executor stops documenting the two tools that the router replaces.  *)
Stripped(t) == IF OwnsEditing(t) THEN [t EXCEPT !.sections = {}] ELSE t
\* The executor is an entry of the section, or, in an additional item, one of its
\* functions namespace; every other entry stays as it is.
StripFlat(section) == [n \in 1..Len(section) |-> Stripped(section[n])]
StripAdditional(section) ==
  [n \in 1..Len(section) |->
     IF section[n].type = "namespace" /\ section[n].name = "functions"
     THEN [section[n] EXCEPT !.nested = StripFlat(@)]
     ELSE Stripped(section[n])]

\* appendTop: the router's tools follow the client's.
RouterTools == {Tool(n, "custom", {}) : n \in Installed}
AppendTop(top) == top \o SetToSeq(RouterTools)

Refused == [verdict |-> "refused"]
Unmatched == [verdict |-> "unmatched"]

\* codeModeToolChoiceRestricted: the request forces the tool that is rewritten.
Restricted(choice) == choice = <<"custom", "exec">>

\* exposeStandaloneMekugi: the executor is stripped, the router's tools are added.
Exposed(cat) ==
  [verdict |-> "code", carrier |-> "exec", kind |-> "custom",
   top |-> AppendTop(StripFlat(cat.top)), extra |-> StripAdditional(cat.extra)]

(* replaceCodeModeTools.                                                   *)
ReplaceCodeModeTools(cat, choice) ==
  IF ClaimFails(cat) THEN Refused
  ELSE IF Owners(cat) = {} THEN Unmatched
  ELSE IF \/ \E t \in Range(cat.top) : ~OwnsEditing(t) /\
                 t.name \in Installed \cup {"apply_patch", "exec", "functions.exec"}
          \/ Restricted(choice)
       THEN Refused
       ELSE Exposed(cat)

(* replaceNativeTools: apply_patch is removed, exec_command stays as the   *)
(* carrier.                                                                *)
ReplaceNativeTools(cat, choice) ==
  LET named(n) == {k \in 1..Len(cat.top) : cat.top[k].name = n}
  IN  IF ~cat.present THEN Unmatched
      ELSE IF \/ \E t \in Range(cat.top) : t.name \in Installed \cup {"exec", "functions.exec"}
              \/ \E t \in Range(cat.top) : t.name = "apply_patch" /\ t.type # "custom"
              \/ \E t \in Range(cat.top) : t.name = "exec_command" /\ t.type # "function"
              \/ Cardinality(named("apply_patch")) > 1 \/ Cardinality(named("exec_command")) > 1
              \/ (named("apply_patch") = {}) # (named("exec_command") = {})
           THEN Refused
      ELSE IF named("apply_patch") = {} THEN Unmatched
      ELSE IF choice[2] \in {"apply_patch", "exec_command"} THEN Refused
      ELSE [verdict |-> "native", carrier |-> "exec_command", kind |-> "function",
            top |-> AppendTop(RemoveAt(cat.top, CHOOSE k \in named("apply_patch") : TRUE)),
            extra |-> cat.extra]

(* prepareRequest: Code Mode first, then native tools; a catalog that      *)
(* neither recognises is refused as unsupported.                           *)
Replace(cat, choice) ==
  IF CarriersClash(cat) THEN Refused
  ELSE LET code == ReplaceCodeModeTools(cat, choice)
           native == ReplaceNativeTools(cat, choice)
       IN  IF code.verdict # "unmatched" THEN code
           ELSE IF native.verdict # "unmatched" THEN native ELSE Refused
=============================================================================
