------------------------------ MODULE Contracts ------------------------------
(***************************************************************************)
(* contracts/prompt_interpretation.rs and contracts/content_draft.rs: what *)
(* becomes of a provider's answer before the pipeline uses it.             *)
(*                                                                         *)
(* An answer is the JSON shape found under each field the code looks at:   *)
(* "absent", "null", "blank" (an empty string), "text" (a string within    *)
(* the field's limit), "long" (a string over every limit but that of       *)
(* teacher_prompt), "over" (a string cut by truncate_str, which is three   *)
(* characters over its limit), "number", "string" where a structure is     *)
(* expected, "object", "array" and the partial forms named at each field.  *)
(***************************************************************************)
EXTENDS Integers, Sequences, FiniteSets, FiniteSetsExt, SequencesExt

Formats == {"docx", "pdf", "pptx"}

\* Any answer to the interpretation request: a shape for every field, `named'
\* and `score' as explained at FixCandidates and FixConfidence, the usable
\* bullets of each section, the assessment blocks with instructions, and
\* whether an asset is to be shown.
InterpretationAnswer ==
  [envelope : STRING, schema_version : STRING, teacher_prompt : STRING,
   language : STRING, reasoning : STRING, delivery : STRING,
   intent : STRING, goal : STRING, clarify : STRING,
   constraints : STRING, preferred : STRING, duration : STRING,
   candidates : STRING, named : Seq(STRING \X Int),
   blueprint : STRING, title : STRING, summary : STRING, sections : STRING,
   usable : Seq(Nat), activities : Nat, visual : BOOLEAN,
   confidence : STRING, score : Int, audience : STRING, integrity : STRING,
   assets : STRING, objectives : STRING, plan : STRING, active : STRING,
   fields : STRING, difficulty : STRING, questions : STRING, counts : STRING,
   missing : STRING]

\* Any answer to the draft request (`blocks' as explained at DraftSections).
DraftAnswer ==
  [envelope : STRING, schema_version : STRING, title : STRING, summary : STRING,
   delivery : STRING, sections : STRING, blocks : Seq(Int), slides : STRING,
   objectives : STRING]

NotThere == {"absent", "null"}
Unset    == {"absent", "null", "blank"}

\* obj.insert(f, shape) when the field holds one of the given shapes.
Fill(r, f, shapes, shape) == IF r[f] \in shapes THEN [r EXCEPT ![f] = shape] ELSE r

\* truncate_str keeps `max' characters and then adds "...".
TruncateStr(s) == IF s = "long" THEN "over" ELSE s

\* The braces of a padded answer are found; an empty one never gets here.
ExtractObject(r) == Fill(r, "envelope", {"padded"}, "object")

----------------------------------------------------------------------------
(* repair_interpretation_json, one operator per numbered step. *)

\* The string the defaults are made of.  Anything but a string gives "Learning
\* material"; an empty string gives the empty string.
PromptString(r) == IF r.teacher_prompt \in {"text", "long", "blank"} THEN r.teacher_prompt
                   ELSE "text"

FixSchemaVersion(r) == Fill(r, "schema_version", NotThere, "text")

FixTeacherPrompt(r) == Fill(r, "teacher_prompt", Unset, PromptString(r))

NormalizeOutputType(s) ==
  CASE s = "pdf" -> "pdf"
    [] s \in {"docx", "doc", "word"} -> "docx"
    [] s \in {"pptx", "ppt", "powerpoint", "slide", "slides"} -> "pptx"
    [] OTHER -> "pdf"

\* Three candidates, the named one first (scores in units of 0.0001).
NormalizeOutputTypeCandidatesString(s) ==
  LET primary == NormalizeOutputType(s)
      second  == IF primary = "pdf" THEN "docx" ELSE "pdf"
      third   == IF primary = "pptx" THEN "docx" ELSE "pptx"
  IN  << <<primary, 8200>>, <<second, 6400>>, <<third, 4600>> >>

\* The object's "preferred", "type" or "format", else pdf.
NormalizeOutputTypeCandidatesObject(s) == NormalizeOutputTypeCandidatesString(s)

DefaultCandidates == << <<"pdf", 8200>>, <<"docx", 6400>>, <<"pptx", 4600>> >>

\* `candidates' is the shape, `named' the pairs of type and score in it (a
\* score of -1 is one that is not there).  null, a number or an array with
\* something other than strings and objects in it stay as they are.
FixCandidates(r) ==
  LET First == IF r.named = << >> THEN "pdf" ELSE r.named[1][1]
      Scored(c) == <<NormalizeOutputType(c[1]), IF c[2] < 0 THEN 7000 ELSE c[2]>>
  IN  CASE r.candidates = "string" ->
             [r EXCEPT !.candidates = "array", !.named = NormalizeOutputTypeCandidatesString(First)]
        [] r.candidates = "object" ->
             [r EXCEPT !.candidates = "array", !.named = NormalizeOutputTypeCandidatesObject(First)]
        [] r.candidates = "absent" ->
             [r EXCEPT !.candidates = "array", !.named = DefaultCandidates]
        [] r.candidates \in {"array", "strings"} ->
             [r EXCEPT !.candidates = "array", !.named = [i \in DOMAIN r.named |-> Scored(r.named[i])]]
        [] OTHER -> r

\* A duration written as a string becomes a number or is removed.
FixDuration(r) ==
  Fill(Fill(r, "duration", {"digits"}, "number"), "duration", {"text", "blank"}, "absent")

\* repair_section on every section: a string becomes a section, an object gets
\* its missing parts and, without a usable bullet, its purpose as the only
\* one; anything else is passed through.
RepairSection(shape) ==
  CASE shape \in {"strings", "bulletless", "objects", "untitled"} -> "objects"
    [] shape = "long_titles" -> "over_titles"
    [] OTHER -> shape

\* A string becomes a blueprint; a missing one is taken from the aliases
\* "blueprint" and "document", whatever they hold, or made of the prompt.
FixBlueprintShape(r) ==
  CASE r.blueprint = "string" ->
         [r EXCEPT !.blueprint = "object", !.title = TruncateStr(r.title),
                   !.summary = TruncateStr(r.title), !.sections = "objects"]
    [] r.blueprint = "alias" -> [r EXCEPT !.blueprint = "object"]
    [] r.blueprint = "alias_string" -> [r EXCEPT !.blueprint = "unrepaired_string"]
    [] r.blueprint \in NotThere ->
         [r EXCEPT !.blueprint = "object", !.title = TruncateStr(PromptString(r)),
                   !.summary = TruncateStr(PromptString(r)), !.sections = "objects"]
    [] OTHER -> r

\* Title, summary and sections of a blueprint that is an object.
FixBlueprint(r) ==
  LET b == FixBlueprintShape(r)
      p == TruncateStr(PromptString(r))
      c == Fill(Fill(b, "title", Unset, p), "summary", Unset, p)
  IN  IF b.blueprint # "object" THEN b
      ELSE [c EXCEPT !.sections = IF c.sections \in {"absent", "null", "empty", "not_array"}
                                  THEN "objects" ELSE RepairSection(c.sections)]

\* A missing intent is made of the prompt; an object gets its missing parts;
\* null and a string stay.
FixTeacherIntent(r) ==
  CASE r.intent = "absent" ->
         [r EXCEPT !.intent = "object", !.goal = TruncateStr(PromptString(r)),
                   !.clarify = "false"]
    [] r.intent = "object" ->
         Fill(Fill(r, "goal", Unset, TruncateStr(PromptString(r))), "clarify", NotThere, "false")
    [] OTHER -> r

FixConstraints(r) ==
  CASE r.constraints = "absent" -> [r EXCEPT !.constraints = "object", !.preferred = "auto"]
    [] r.constraints = "object" -> Fill(r, "preferred", Unset, "auto")
    [] OTHER -> r

\* Whatever is there becomes a score and a label; `score' is in tenths, -1 when
\* it is missing or does not parse.
FixConfidence(r) ==
  [r EXCEPT !.confidence = "object", !.score = IF @ < 0 \/ r.confidence \in NotThere THEN 6 ELSE @]

\* Mutant: the summary is always made of the prompt.
MutantFixDeliverySummary(r) == [r EXCEPT !.delivery = TruncateStr(PromptString(r))]

FixDeliverySummary(r) ==
  Fill(r, "delivery", Unset, TruncateStr(PromptString(r)))

FixLanguage(r)  == Fill(r, "language", Unset, "text")
FixReasoning(r) == Fill(r, "reasoning", Unset, "text")

\* An object gets its integrity_score and its source; the rest stays.
FixContentIntegrity(r) == Fill(r, "integrity", {"scoreless"}, "object")

\* Each asset that is an object gets a Boolean "required".
FixAssets(r) == Fill(r, "assets", {"unmarked"}, "array")

\* Items of an array become strings.
FixLearningObjectives(r) ==
  Fill(Fill(r, "objectives", NotThere, "empty"), "objectives", {"objects"}, "array")

\* Without a plan mode it follows from the intent and the confidence; one that
\* is an object gets its "active".
FixPlanMode(r) ==
  CASE r.plan \in NotThere ->
         [r EXCEPT !.plan = "object",
                   !.active = IF r.clarify = "true" \/ r.score < 5 THEN "true" ELSE "false"]
    [] r.plan = "object" -> Fill(r, "active", NotThere, "false")
    [] OTHER -> r

\* Interpreted fields are made of the parts, or get the counts the prompt
\* names; `counts' says whether the prompt names a number of slides or pages.
FixInterpretedFields(r, counts) ==
  CASE r.fields \in NotThere ->
         [r EXCEPT !.fields = "object", !.difficulty = "null", !.questions = "null",
                   !.counts = IF counts THEN "text" ELSE "null"]
    [] r.fields = "object" ->
         IF counts THEN Fill(r, "counts", NotThere, "text") ELSE r
    [] OTHER -> r

\* Entries without an id or a question are dropped.
FixMissingFields(r) ==
  Fill(Fill(r, "missing", NotThere, "empty"), "missing", {"partial"}, "array")

RepairInterpretation(r, counts) ==
  LET x == ExtractObject(r)
      a == FixDuration(FixCandidates(FixTeacherPrompt(FixSchemaVersion(x))))
      b == FixConfidence(FixConstraints(FixTeacherIntent(FixBlueprint(a))))
      c == FixReasoning(FixLanguage(FixDeliverySummary(b)))
      d == FixLearningObjectives(FixAssets(FixContentIntegrity(c)))
      e == FixMissingFields(FixInterpretedFields(FixPlanMode(d), counts))
  IN  IF x.envelope = "object" THEN e ELSE r

\* Decoding and validation: serde's types, then garde's lengths.  The lenient
\* deserializers take any shape for the numbers, the Booleans and the optional
\* strings; null under a field that only has a default is an error.
DecodesInterpretation(r) ==
  /\ r.envelope = "object"
  /\ r.schema_version = "text"
  /\ r.teacher_prompt \in {"text", "long"}
  /\ r.language = "text" /\ r.reasoning = "text" /\ r.delivery = "text"
  /\ r.intent = "object" /\ r.goal = "text" /\ r.clarify # "absent"
  /\ r.constraints = "object" /\ r.preferred \notin {"null", "number"}
  /\ r.candidates = "array" /\ r.named # << >>
  /\ \A i \in DOMAIN r.named : r.named[i][2] >= 0
  /\ r.blueprint = "object" /\ r.title = "text" /\ r.summary = "text"
  /\ r.sections = "objects"
  /\ r.confidence = "object" /\ r.score >= 0
  /\ r.audience \in {"absent", "null", "object"}
  /\ r.integrity \in {"absent", "null", "object"}
  /\ r.assets \in {"absent", "empty", "array"}
  /\ r.objectives \in {"absent", "empty", "array"}
  /\ r.plan \in {"absent", "object"} /\ (r.plan = "object" => r.active # "absent")
  /\ r.fields \in {"absent", "null", "object"}
  /\ r.fields = "object" => r.questions \in {"absent", "null", "number"}
  /\ r.missing \in {"absent", "empty", "array"}

----------------------------------------------------------------------------
(* repair_draft_json. *)

DraftSchema(d) == Fill(d, "schema_version", Unset, "text")

\* Only a non-empty string is kept; the others become the title, and the title
\* "Untitled Draft"; all three are then truncated.
DraftStrings(d) ==
  LET Kept(s, default) == IF s \in {"text", "long"} THEN s ELSE default
      title == Kept(d.title, "text")
  IN  [d EXCEPT !.title = TruncateStr(title),
                !.summary = TruncateStr(Kept(d.summary, title)),
                !.delivery = TruncateStr(Kept(d.delivery, title))]

\* repair_draft_section: each section that is an object ends with at least one
\* block; a section that is a string is passed through.
RepairDraftSection(blocks) == IF blocks < 0 THEN blocks ELSE Max({1, blocks})

\* `sections' is "array" or the shape found instead, `blocks' the usable blocks
\* of each section, -1 for a section that is no object.  A deck has slides in
\* place of sections.
DraftSections(d) ==
  LET some == d.sections = "array" /\ d.blocks # << >>
  IN  CASE some -> [d EXCEPT !.blocks = [i \in DOMAIN @ |-> RepairDraftSection(@[i])]]
        [] ~some /\ d.slides \in {"array", "incomplete"} ->
             [d EXCEPT !.sections = "array", !.blocks = << >>]
        [] OTHER -> [d EXCEPT !.sections = "array", !.blocks = <<1>>]

DraftObjectives(d) ==
  Fill(Fill(d, "objectives", NotThere, "empty"), "objectives", {"objects"}, "array")

RepairDraft(d) ==
  LET x == ExtractObject(d)
  IN  IF x.envelope = "object"
      THEN DraftObjectives(DraftSections(DraftStrings(DraftSchema(x)))) ELSE d

\* A number under a string field is taken as its digits; slides are optional
\* but each needs its number, layout and title.
DecodesDraft(d) ==
  /\ d.envelope = "object"
  /\ d.schema_version \in {"text", "number"}
  /\ {d.title, d.summary, d.delivery} \subseteq {"text", "number"}
  /\ d.sections \in {"absent", "array"}
  /\ d.sections = "array" => \A i \in DOMAIN d.blocks : d.blocks[i] >= 1
  /\ d.slides \in {"absent", "null", "array", "empty"}
  /\ d.objectives \in {"absent", "empty", "array"}
=============================================================================
