------------------------------ MODULE Pipeline ------------------------------
(***************************************************************************)
(* From the prompt to the renderer's specification: the dialogue of        *)
(* Clarification, then the interpretation of the submitted prompt (a       *)
(* provider's answer repaired and decoded, or the fallback), a cache hit   *)
(* on it, the draft of the content, and the decision.  The crash and retry *)
(* behaviour around these steps is in Workflow and LlmCall; here is what   *)
(* they compute.                                                           *)
(***************************************************************************)
EXTENDS Clarification, Contracts, Decision

CONSTANTS Answers,        \* a provider's answers to the interpretation request
          DraftAnswers    \* a provider's answers to the draft request

ASSUME AnswersAssumption == Answers \subseteq InterpretationAnswer /\ DraftAnswers \subseteq DraftAnswer

VARIABLES payload,    \* the InterpretationPayload, as far as the later steps read it
          usable,     \* usable blocks of each section the specification is made of
          decision,   \* the DecisionOutput
          spec        \* the generation specification

vars == <<text, pref, phase, response, draft, written, rounds, payload, usable, decision, spec>>

NoPayload == [answer |-> "none"]
NoSpec == [export_format |-> "none"]
Undecided == [format |-> "none", source |-> "none", tie |-> FALSE]

----------------------------------------------------------------------------
(* The decoded payload. *)

DetectSlideCountFromPrompt(t) ==
  SomeIf(FirstNumber(t, "slide") # NoNumber, FirstNumber(t, "slide"))
DetectPageCountFromPrompt(t) ==
  SomeIf(FirstNumber(t, "halaman") # NoNumber, FirstNumber(t, "halaman"))

NamesCounts(t) == DetectSlideCountFromPrompt(t) \cup DetectPageCountFromPrompt(t) # {}

\* InterpretedFields, each an Option; r is the answer as repaired.  The counts
\* a provider gives itself are modelled as 8, the others are the prompt's.
ProviderCount == 8

FieldsOfAnswer(raw, r, t) ==
  [target_audience     |-> SomeIf(r.audience = "object", "said"),
   output_type         |-> SomeIf(r.preferred \in Formats, r.preferred),
   learning_objectives |-> SomeIf(r.objectives = "array", "said"),
   difficulty_level    |-> SomeIf(r.difficulty = "text", "said"),
   question_count      |-> SomeIf(r.questions = "number", "said"),
   slide_count         |-> IF raw.fields = "object" /\ raw.counts = "text" THEN {ProviderCount}
                           ELSE DetectSlideCountFromPrompt(t),
   page_count          |-> IF raw.fields = "object" /\ raw.counts = "text" THEN {ProviderCount}
                           ELSE DetectPageCountFromPrompt(t)]

NoFields == [f \in {"target_audience", "output_type", "learning_objectives", "difficulty_level",
                    "question_count", "slide_count", "page_count"} |-> None]

\* The provider echoes the prompt, or leaves it out and gets "Learning
\* material", which has none of the keywords.
Echoed(raw, t) == IF raw.teacher_prompt \in {"text", "long"} THEN t ELSE << >>

Repaired(raw, t) == RepairInterpretation(raw, NamesCounts(Echoed(raw, t)))

\* What decode_and_validate returns for an answer that decodes once repaired.
Decoded(raw, t) ==
  LET r    == Repaired(raw, t)
      said == Echoed(raw, t)
  IN  [answer     |-> "decoded",
       text       |-> said,
       title      |-> r.title,
       audience   |-> r.audience = "object",
       preferred  |-> r.preferred,
       objectives |-> r.objectives = "array",
       candidates |-> r.named,
       reasoning  |-> {},
       visual     |-> r.visual,
       usable     |-> IF raw.sections = "objects" THEN raw.usable ELSE <<1>>,
       activities |-> r.activities,
       active     |-> r.active = "true",
       clarify    |-> r.clarify = "true",
       missing    |-> {},
       fields     |-> FieldsOfAnswer(raw, r, said)]

\* fallback: the format the words of the prompt suggest.
FallbackFormat(t, p) ==
  IF p # "auto" THEN p
  ELSE IF Mentions(t, {"ppt", "powerpoint", "slide", "presentasi"}) THEN "pptx"
  ELSE IF Mentions(t, {"word", "docx", "dokumen"}) THEN "docx" ELSE "pdf"

\* Its candidates: 0.95 for that format, 0.40 for the others, in a stable sort;
\* its reasoning names the first, which the decision later reads as a keyword.
Fallback(t, p) ==
  LET top    == FallbackFormat(t, p)
      second == IF top = "pdf" THEN "docx" ELSE "pdf"
      third  == IF top = "pptx" THEN "docx" ELSE "pptx"
  IN  [answer     |-> "fallback",
       text       |-> t,
       title      |-> "text",
       audience   |-> FALSE,
       preferred  |-> p,
       objectives |-> FALSE,
       candidates |-> << <<top, 9500>>, <<second, 4000>>, <<third, 4000>> >>,
       reasoning  |-> {top},
       visual     |-> FALSE,
       usable     |-> <<1>>,
       activities |-> 0,
       active     |-> FALSE,
       clarify    |-> FALSE,
       missing    |-> {},
       fields     |-> NoFields]

----------------------------------------------------------------------------
(* regenerate_plan_mode_from_interpretation. *)

ContentTypeKeywords ==
  << <<"slide_presentasi", {"slide", "presentasi", "powerpoint", "pptx", "tayangan"}>>,
     <<"rpp", {"rpp", "rencana pelaksanaan", "lesson plan", "perencanaan pembelajaran"}>>,
     <<"lembar_kerja", {"lembar kerja", "worksheet", "latihan", "praktik"}>>,
     <<"penilaian", {"penilaian", "asesmen", "assessment", "soal", "ujian", "tes"}>>,
     <<"silabus", {"silabus", "syllabus", "kurikulum"}>>,
     <<"materi_pembelajaran", {"materi", "modul", "handout", "bahan ajar", "pelajaran",
                               "belajar"}>> >>

\* The most keywords, the first of equals; none at all is a lesson.
DetectContentTypeFromPayload(p) ==
  LET Hits(i) == Cardinality(KeywordsOf(p.text) \cap ContentTypeKeywords[i][2])
      top == Max({Hits(i) : i \in DOMAIN ContentTypeKeywords})
  IN  IF top = 0 THEN "materi_pembelajaran"
      ELSE ContentTypeKeywords[Min({i \in DOMAIN ContentTypeKeywords : Hits(i) = top})][1]

ContentTypeRequiredFields(ct) ==
  CASE ct \in {"slide_presentasi", "materi_pembelajaran"} -> {"target_audience", "output_type"}
    [] ct = "rpp"          -> {"target_audience", "learning_objectives"}
    [] ct = "lembar_kerja" -> {"target_audience", "difficulty_level"}
    [] ct = "penilaian"    -> {"target_audience", "difficulty_level", "question_count"}
    [] OTHER               -> {"target_audience"}

FindMissingRequiredFields(p, required) ==
  {f \in required :
     ~CASE f = "target_audience"     -> p.audience
        [] f = "output_type"         -> p.preferred # "auto"
        [] f = "learning_objectives" -> p.objectives
        [] OTHER                     -> p.fields[f] # None}

\* Mutant: what was extracted before is not carried over.
MutantBuildInterpretedFields(p) ==
  [NoFields EXCEPT
     !.target_audience     = IF p.audience THEN {"said"} ELSE @,
     !.output_type         = {p.preferred},
     !.learning_objectives = IF p.objectives THEN {"said"} ELSE @]

\* What the payload itself says goes before what was extracted; the first
\* candidate stands in for a format nobody constrained.
BuildInterpretedFields(p) ==
  [p.fields EXCEPT
     !.target_audience     = IF p.audience THEN {"said"} ELSE @,
     !.output_type         = IF p.preferred # "auto" THEN {p.preferred}
                             ELSE {p.candidates[1][1]},
     !.learning_objectives = IF p.objectives THEN {"said"} ELSE @]

\* Each missing field becomes one required question.
GenerateContextualMissingField(f) == <<f, "required">>

RegeneratePlanMode(p) ==
  LET missing == FindMissingRequiredFields(p,
                   ContentTypeRequiredFields(DetectContentTypeFromPayload(p)))
  IN  [p EXCEPT !.fields  = BuildInterpretedFields(p),
                !.missing = {GenerateContextualMissingField(f) : f \in missing},
                !.active  = missing # {},
                !.clarify = missing # {}]

----------------------------------------------------------------------------
(* The steps. *)

Init == /\ DialogueInit
        /\ payload = NoPayload /\ usable = << >> /\ decision = Undecided /\ spec = NoSpec

\* What submission makes of the preference.
Preferred == NormalizePreferredOutputType(pref)

Dialogue == DialogueNext /\ UNCHANGED <<payload, usable, decision, spec>>

\* One provider answer: decoded after repair, or replaced by the fallback.
Interpret ==
  /\ phase = "submitted"
  /\ \E raw \in Answers :
       payload' = IF DecodesInterpretation(Repaired(raw, text))
                  THEN Decoded(raw, text) ELSE Fallback(text, Preferred)
  /\ phase' = "interpreted"
  /\ UNCHANGED <<text, pref, response, draft, written, rounds, usable, decision, spec>>

\* A later request is answered from the cache, where no fallback is stored.
CacheHit ==
  /\ phase = "interpreted" /\ payload.answer = "decoded"
  /\ payload' = RegeneratePlanMode(payload)
  /\ UNCHANGED <<text, pref, phase, response, draft, written, rounds, usable, decision, spec>>

\* The draft, or fallback_from_interpretation when it does not decode.
Draft ==
  /\ phase = "interpreted"
  /\ \E raw \in DraftAnswers :
       LET d == RepairDraft(raw)
       IN  usable' = IF DecodesDraft(d) THEN d.blocks ELSE <<1>>
  /\ phase' = "drafted"
  /\ UNCHANGED <<text, pref, response, draft, written, rounds, payload, decision, spec>>

\* Without a draft the blueprint's sections are used.
SkipDraft ==
  /\ phase = "interpreted"
  /\ usable' = payload.usable
  /\ phase' = "drafted"
  /\ UNCHANGED <<text, pref, response, draft, written, rounds, payload, decision, spec>>

Haystack(p) == KeywordsOf(p.text) \cup p.reasoning

ScoresOf(p) == Scores(p.candidates, Haystack(p), p.visual)

Resolve ==
  /\ phase = "drafted"
  /\ \E order \in HashOrders :
       decision' = Decide(Preferred, payload.preferred, ScoresOf(payload), order)
  /\ spec' = BuildGenerationSpec(decision'.format, payload.title, "text", usable,
                                 payload.fields.page_count, payload.fields.slide_count, payload.activities)
  /\ phase' = "decided"
  /\ UNCHANGED <<text, pref, response, draft, written, rounds, payload, usable>>

Done == phase = "decided" /\ UNCHANGED vars
Stop == phase = "compose" /\ rounds = MaxRounds /\ UNCHANGED vars

Next == Dialogue \/ Interpret \/ CacheHit \/ Draft \/ SkipDraft \/ Resolve \/ Done \/ Stop

Spec == Init /\ [][Next]_vars

----------------------------------------------------------------------------
(* Properties. *)

\* Repair never makes an answer worse: what decodes as the provider wrote it
\* still decodes once repaired, and repairing twice is repairing once.
RepairOnlyHelps ==
  phase = "submitted" =>
    \A raw \in Answers :
      LET counts == NamesCounts(Echoed(raw, text))
          once   == RepairInterpretation(raw, counts)
      IN  /\ DecodesInterpretation(raw) => DecodesInterpretation(once)
          /\ RepairInterpretation(once, counts) = once

\* A cache hit asks the same questions however often it happens, and asks for
\* a clarification exactly when it has a question to ask.
PlanModeIsStable ==
  phase = "interpreted" /\ payload.answer = "decoded" =>
    LET once == RegeneratePlanMode(payload)
    IN  RegeneratePlanMode(once) = once /\ (once.clarify <=> once.missing # {})

\* The decision is a function of the interpretation: the order in which the
\* HashMap yields the formats does not show, unless two scores are 0.0001
\* apart and the f64 difference takes them for equal.  And when the provider's
\* answer is useless, the keyword signals do not overrule the format that the
\* fallback took from the prompt.
DecisionIsSettled ==
  /\ phase = "drafted" =>
       LET scores == ScoresOf(payload)
       IN  (\A f, g \in AllowedFormats : scores[f] - scores[g] # 1) =>
           Cardinality({Decide(Preferred, payload.preferred, scores, order) :
                          order \in HashOrders}) = 1
  /\ phase = "decided" /\ payload.answer = "fallback" =>
       decision.format = FallbackFormat(text, Preferred)

\* Whatever the providers answered, the renderer gets a title within its
\* limit, at least one section, a block in every section, hints that count
\* them, and at least one unit unless the prompt itself asks for none.
SpecIsRenderable ==
  phase = "decided" =>
    /\ spec.export_format \in AllowedFormats
    /\ spec.title = "text"
    /\ spec.sections # << >> /\ spec.section_count = Len(spec.sections)
    /\ \A i \in DOMAIN spec.sections : spec.sections[i] >= 1
    /\ spec.total_units >= 1 \/ spec.requested = {0}
=============================================================================
