---------------------------- MODULE Clarification ----------------------------
(***************************************************************************)
(* llm/clarification.rs and the preflight handler of                       *)
(* api/rest/clarification.rs: the dialogue that asks a teacher for what a  *)
(* prompt leaves out.  The service keeps no state; the client holds the    *)
(* prompt, posts it for a preflight, lets the teacher answer some of the   *)
(* questions, and goes on with the prompt enrich_prompt makes of the       *)
(* answers.  The suggested prompt and the wording of the questions are     *)
(* left out: no decision reads them.                                       *)
(***************************************************************************)
EXTENDS ContentStandards, TLC

CONSTANTS Prompts,        \* the typed prompts: sequences of members of Typed
          Preferences,    \* values of preferred_output_type, "auto" and "" included
          Pickable,       \* the chip values a teacher picks in the instance
          FreeText,       \* [field -> what a teacher writes in a free input]
          Tokens,         \* [audience value -> the words enrich_prompt looks for]
          Cleaned,        \* [method value -> it with '_' replaced by ' ']
          SlideLists,     \* the sets of slide indexes the provider may suggest
          MaxRounds,      \* bound: preflights of one dialogue
          MaxAnswers,     \* bound: questions answered in one round
          MaxPieces       \* bound: pieces of a prompt that is submitted

ASSUME RoundsAssumption == {MaxRounds, MaxAnswers, MaxPieces} \subseteq Nat \ {0}
ASSUME PickableAssumption ==
  Pickable \subseteq UNION {GradeLevelSuggestions, OutputTypeSuggestions, PageCountSuggestions,
                            SlideCountSuggestions, MeetingDurationSuggestions,
                            TeachingMethodSuggestions, AssessmentMethodSuggestions,
                            DifficultyLevelSuggestions, VisualDensitySuggestions,
                            QuestionTypeSuggestions, YesNo}

VARIABLES text,       \* the prompt as the client holds it
          pref,       \* preferred_output_type of the requests
          phase,      \* "compose", "asked", "submitted"
          response,   \* the last PreflightResponseData
          draft,      \* the answers being given: [fields -> values]
          written,    \* the fields enrich_prompt has written into the prompt
          rounds      \* preflights so far

dialogue == <<text, pref, phase, response, draft, written, rounds>>

Idle == [content_type |-> "unknown", output |-> None, gaps |-> << >>, ready |-> FALSE,
         slides |-> {}]

NoAnswers == [f \in {} |-> ""]

----------------------------------------------------------------------------
(* Gaps. *)

\* A preference that names a format goes before what the text says.
PreferredOr(p, detected) == IF p \in {"", "auto"} THEN detected ELSE {p}

\* compute_gaps: the fields of the table that neither the preference nor the
\* text settles.  No table has a field "subject", so subject_id settles none.
ComputeGaps(fields, t, output) ==
  SelectSeq(fields, LAMBDA d : /\ ~(d.id = "output_type" /\ output # None)
                               /\ DetectFieldValueFromPrompt(d.id, t) = None)

RequiredOf(gaps) == {gaps[i].id : i \in {j \in DOMAIN gaps : gaps[j].priority = "required"}}
FieldsOf(gaps)   == {gaps[i].id : i \in DOMAIN gaps}

\* ClarificationService::preflight.
Preflight(t, p) ==
  LET ct     == DetectContentType(t)
      output == PreferredOr(p, DetectOutputType(t))
      gaps   == ComputeGaps(GetClarificationFields(ct), t, output)
  IN  [content_type |-> ct, output |-> output, gaps |-> gaps,
       ready |-> RequiredOf(gaps) = {}, slides |-> {}]

\* The JSON an interpreter may leave under a field.
JsonShapes == {"absent", "null", "blank", "auto", "empty_array", "empty_object",
               "text", "number", "bool", "array", "object"}

IsFieldPresentInJson(shape) ==
  shape \notin {"absent", "null", "blank", "auto", "empty_array", "empty_object"}

\* compute_gaps_from_interpretation: `interpreted' gives the shape found under
\* each field; the recommended ones are cut to what is left of five questions
\* before they are looked at.
ComputeGapsFromInterpretation(reqs, interpreted, t) ==
  LET Missing(f) == /\ ~IsFieldPresentInJson(interpreted[f])
                    /\ DetectFieldValueFromPrompt(f, t) = None
      required == SelectSeq(reqs.required, Missing)
      left     == MaxQuestions - Len(required)
      looked   == SubSeq(reqs.recommended, 1, Min({left, Len(reqs.recommended)}))
  IN  [required |-> required, recommended |-> SelectSeq(looked, Missing)]

\* preflight_with_interpretation: an interpreted content type that is not in
\* the list falls back on the keywords.
PreflightWithInterpretation(interpretedType, interpreted, t, p) ==
  LET ct == IF interpretedType \in ContentTypes \ {"unknown"} THEN interpretedType
            ELSE DetectContentType(t)
      gaps == ComputeGapsFromInterpretation(GetMinimumRequirements(ct), interpreted, t)
  IN  [content_type |-> ct,
       output |-> PreferredOr(p, IF IsFieldPresentInJson(interpreted["output_type"])
                                 THEN {"interpreted"} ELSE DetectOutputType(t)),
       gaps |-> gaps, ready |-> gaps.required = << >>]

----------------------------------------------------------------------------
(* enrich_prompt. *)

ContainsAllTokens(t, tokens) == tokens # {} /\ tokens \subseteq KeywordsOf(t)

\* A digit anywhere and a unit anywhere.
PromptHasQuantity(t, units) == "digit" \in KeywordsOf(t) /\ Mentions(t, units)

FormatWords(v) ==
  CASE v = "pptx" -> {"ppt", "pptx", "powerpoint", "slide", "slides", "presentasi",
                      "presentation", "slideshow"}
    [] v = "pdf"  -> {"pdf", "dokumen pdf"}
    [] v = "docx" -> {"docx", "doc", "word", "dokumen word", "lembar kerja"}
    [] OTHER      -> {v}

\* Whether enrich_prompt finds the answer in the prompt already.
AlreadySays(t, f, v) ==
  CASE f = "target_audience"     -> ContainsAllTokens(t, Tokens[v])
    [] f = "output_type"         -> Mentions(t, FormatWords(v))
    [] f = "page_count"          -> PromptHasQuantity(t, {"halaman", "hal", "page", "pages",
                                                          "pg", "pgs"})
    [] f = "slide_count"         -> PromptHasQuantity(t, {"slide", "slides", "halaman", "hal",
                                                          "ppt", "pptx", "deck", "presentasi"})
    [] f = "learning_objectives" -> v \in KeywordsOf(t)
    [] f = "difficulty_level"    -> v \in KeywordsOf(t)
    [] f = "question_count"      -> PromptHasQuantity(t, {"soal", "pertanyaan", "kuis", "quiz",
                                                          "question", "questions"})
    [] f = "teaching_method"     -> Cleaned[v] \in KeywordsOf(t)
    [] f = "include_activities"  -> Mentions(t, {"latihan", "soal", "kuis", "aktivitas",
                                                 "activity", "exercise", "quiz"})

\* The fields enrich_prompt reads, in the order it appends them.
EnrichOrder == << "target_audience", "output_type", "page_count", "slide_count",
                  "learning_objectives", "difficulty_level", "question_count",
                  "teaching_method", "include_activities" >>

\* Which answers are written: the ones it reads, that the raw prompt does not
\* say already; for the activities only a "yes".
Written(t, answers) ==
  SelectSeq(EnrichOrder,
            LAMBDA f : /\ f \in DOMAIN answers
                       /\ f = "include_activities" => answers[f] = "yes"
                       /\ ~AlreadySays(t, f, answers[f]))

\* Slides 1 to 20 only; their contents close the prompt.
SlidesRead == 1..20

EnrichPrompt(t, answers, slides) ==
  LET order == Written(t, answers)
  IN  t \o [i \in DOMAIN order |-> <<order[i], answers[order[i]]>>]
        \o (IF slides \cap SlidesRead # {} THEN << <<"slides", "contents">> >> ELSE << >>)

----------------------------------------------------------------------------
(* The dialogue. *)

DialogueInit ==
  /\ \E s \in Prompts : text = [i \in DOMAIN s |-> <<"typed", s[i]>>]
  /\ pref \in Preferences
  /\ phase = "compose" /\ response = Idle
  /\ draft = NoAnswers /\ written = {} /\ rounds = 0

\* parse::<usize> of the slide count, else the page count, else 5; "specified"
\* does not parse, and hides a page count.
SlideCount(t) ==
  LET said == IF DetectSlideCount(t) # None THEN FirstNumber(t, "slide")
              ELSE FirstNumber(t, "halaman")
  IN  IF said = NoNumber THEN 5 ELSE said

\* POST /preflight.  For a deck the handler asks about every slide: the list
\* the provider suggests, or slides 1 to the count when it suggests none (no
\* key, an error, or nothing usable), and then the answer is never "ready".
PostPreflight ==
  /\ phase = "compose" /\ rounds < MaxRounds
  /\ \E suggested \in SlideLists :
       LET r == Preflight(text, pref)
       IN  IF r.output = {"pptx"}
           THEN response' = [r EXCEPT !.ready = FALSE,
                                      !.slides = IF suggested # {} THEN suggested
                                                 ELSE 1..SlideCount(text)]
           ELSE suggested = {} /\ response' = r
  /\ phase' = "asked"
  /\ rounds' = rounds + 1
  /\ UNCHANGED <<text, pref, draft, written>>

Offers(d) == IF d.chips = {} THEN FreeText[d.id] ELSE d.chips \cap Pickable

\* The teacher answers one of the questions.
Answer ==
  /\ phase = "asked" /\ Cardinality(DOMAIN draft) < MaxAnswers
  /\ \E i \in DOMAIN response.gaps :
       LET d == response.gaps[i]
       IN  /\ d.id \notin DOMAIN draft
           /\ \E v \in Offers(d) : draft' = draft @@ (d.id :> v)
  /\ UNCHANGED <<text, pref, phase, response, written, rounds>>

\* The client makes the enriched prompt of the answers, the ones about the
\* slides too, and either asks again or submits and forgets the dialogue;
\* skip_clarification is the case of no answer.
Enrich ==
  /\ phase = "asked"
  /\ \E slides \in {{}, response.slides}, next \in {"compose", "submitted"} :
       /\ text' = EnrichPrompt(text, draft, slides)
       /\ phase' = next
       /\ next = "submitted" => Len(text') <= MaxPieces
       /\ IF next = "compose"
          THEN /\ written' = written \cup Range(Written(text, draft))
               /\ UNCHANGED <<response, rounds>>
          ELSE written' = {} /\ response' = Idle /\ rounds' = 0
  /\ draft' = NoAnswers
  /\ UNCHANGED pref

DialogueNext == PostPreflight \/ Answer \/ Enrich

----------------------------------------------------------------------------
(* Properties. *)

AllFields == Range(EnrichOrder) \cup {"meeting_duration", "assessment_method", "question_type",
                                      "visual_density", "speaker_notes"}

\* The two preflights ask alike: when nothing was interpreted and no format is
\* preferred, the path over the minimum requirements asks the required questions
\* of the path over the standards, and an interpreted field removes only its own.
PathsAgree ==
  LET byStandards == RequiredOf(Preflight(text, "auto").gaps)
      By(interpreted) ==
        Range(PreflightWithInterpretation("unknown", interpreted, text, "auto").gaps.required)
  IN  /\ By([f \in AllFields |-> "absent"]) = byStandards
      /\ \A f \in byStandards, shape \in {"auto", "text"} :
           By([[g \in AllFields |-> "absent"] EXCEPT ![f] = shape])
             = byStandards \ (IF IsFieldPresentInJson(shape) THEN {f} ELSE {})

\* What enrich_prompt writes, the detectors read: a question whose answer was
\* written into the prompt is never asked again, whatever content type the
\* longer prompt is taken for and whatever else was answered.  On every prompt
\* that is short enough to be submitted the two preflights ask alike.
WrittenAnswersSettle ==
  phase = "compose" =>
    /\ written \cap FieldsOf(Preflight(text, pref).gaps) = {}
    /\ Len(text) <= MaxPieces => PathsAgree
=============================================================================
