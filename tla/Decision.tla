------------------------------ MODULE Decision ------------------------------
(***************************************************************************)
(* The pure part of orchestrator/decision.rs: the output format of a       *)
(* generation and the specification handed to the renderer.                *)
(* Scores are in units of 0.0001, to which the code rounds them.           *)
(***************************************************************************)
EXTENDS Integers, Sequences, FiniteSets, FiniteSetsExt, SequencesExt

CONSTANT OneApartTies
  \* Whether the f64 difference of two scores one unit apart falls below the
  \* 0.0001 of the comparison: it does for 0.7001 - 0.7000 and does not for
  \* 0.3001 - 0.3000.
ASSUME OneApartAssumption == OneApartTies \in BOOLEAN

AllowedFormats == {"docx", "pdf", "pptx"}

TypePriority(f) == CASE f = "pptx" -> 0 [] f = "pdf" -> 1 [] f = "docx" -> 2

\* Anything but an allowed format counts as "auto".
NormalizePreferredOutputType(p) == IF p \in AllowedFormats THEN p ELSE "auto"

KeywordSignals == [pptx |-> {"slide", "slides", "deck", "presentasi", "presentation",
                             "slideshow", "ppt", "pptx"},
                   pdf  |-> {"handout", "printable", "print", "cetak", "pdf", "booklet"},
                   docx |-> {"editable", "edit", "docx", "word", "worksheet", "lembar kerja",
                             "template"}]
\* Mutant: a keyword outweighs the candidates.
MutantSignalWeight == [pptx |-> 3500, pdf |-> 25000, docx |-> 25000]

SignalWeight == [pptx |-> 3500, pdf |-> 2500, docx |-> 2500]

VisualBonus == 1200

\* The haystack is the keywords of the prompt, the goal, the reasoning, the
\* blueprint and the format preferences together.
SignalScore(f, haystack, visual) ==
  (IF haystack \cap KeywordSignals[f] # {} THEN SignalWeight[f] ELSE 0)
  + (IF f = "pptx" /\ visual THEN VisualBonus ELSE 0)

\* Every candidate of a format adds its score.
CandidateScore(f, candidates) ==
  FoldLeft(LAMBDA sum, c : sum + (IF c[1] = f THEN c[2] ELSE 0), 0, candidates)

Scores(candidates, haystack, visual) ==
  [f \in AllowedFormats |-> CandidateScore(f, candidates) + SignalScore(f, haystack, visual)]

\* The comparison of the sort: by score, and by priority within 0.0001.
Tied(x, y) == x = y \/ (OneApartTies /\ x - y \in {1, -1})
Before(scores, a, b) == IF Tied(scores[a], scores[b]) THEN TypePriority(a) < TypePriority(b)
                        ELSE scores[a] > scores[b]

\* sort_by on three elements: each is moved left past those it goes before.
InsertSorted(scores, sorted, x) ==
  LET k == Max({0} \cup {i \in DOMAIN sorted : ~Before(scores, x, sorted[i])})
  IN  InsertAt(sorted, k + 1, x)

\* rank_candidates: `order' is the order in which the HashMap yields the formats.
RankCandidates(scores, order) ==
  LET one == InsertSorted(scores, << >>, order[1])
      two == InsertSorted(scores, one, order[2])
  IN  InsertSorted(scores, two, order[3])

HashOrders == {s \in [1..3 -> AllowedFormats] : IsInjective(s)}

\* build_ranking_reasoning names the order of the tie-breaker in its text.
ReasoningOrder == << "pdf", "docx", "pptx" >>

BuildDecision(format, source, tie) == [format |-> format, source |-> source, tie |-> tie]

\* decide: the teacher, then the interpretation, then the ranking.
Decide(preferred, constraint, scores, order) ==
  LET teacher == NormalizePreferredOutputType(preferred)
      llm     == NormalizePreferredOutputType(constraint)
      ranked  == RankCandidates(scores, order)
  IN  CASE teacher # "auto" -> BuildDecision(teacher, "teacher_override", FALSE)
        [] teacher = "auto" /\ llm # "auto" ->
             BuildDecision(llm, "interpretation_constraint", FALSE)
        [] OTHER -> BuildDecision(ranked[1], "candidate_ranking",
                                  Tied(scores[ranked[1]], scores[ranked[2]]))

----------------------------------------------------------------------------
(* build_generation_spec. *)

\* truncate_field keeps within the limit, dots included; a string that is not
\* there is replaced by the prompt.
TruncateField(s) == IF s \in {"long", "over"} THEN "text" ELSE s
RequireStrBounded(s, fallback) == TruncateField(IF s \in {"absent", "null"} THEN fallback ELSE s)

\* One section of the prompt alone: its title is cut to 200 characters.
DefaultSection == <<1>>

\* Mutant: nothing stands in for sections that are not there.
MutantSectionBlocks(usable) == [i \in DOMAIN usable |-> Max({1, usable[i]})]

\* The blocks of each section: the usable ones, or the purpose as the only one.
SectionBlocks(usable) ==
  IF usable = << >> THEN DefaultSection ELSE [i \in DOMAIN usable |-> Max({1, usable[i]})]

\* The interpreted counts of pages and slides are {} when they do not parse.
TargetUnits(format, pages, slides) == IF format = "pptx" THEN slides ELSE pages

\* `usable' is the number of usable blocks of each section of the draft, or of
\* usable bullets of each section of the blueprint when there is no draft;
\* `activities' the assessment blocks with instructions.
BuildGenerationSpec(format, title, prompt, usable, pages, slides, activities) ==
  LET sections == SectionBlocks(usable)
      target   == TargetUnits(format, pages, slides)
      natural  == 1 + Len(sections) + (IF activities > 0 THEN 1 ELSE 0)
  IN  [export_format |-> format,
       unit_type     |-> IF format = "pptx" THEN "slide" ELSE "page",
       title         |-> RequireStrBounded(title, prompt),
       sections      |-> sections,
       section_count |-> Len(sections),
       requested     |-> target,
       total_units   |-> IF target = {} THEN natural ELSE CHOOSE n \in target : TRUE]
=============================================================================
