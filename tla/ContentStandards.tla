-------------------------- MODULE ContentStandards --------------------------
(***************************************************************************)
(* standards/content_standards.rs: what a prompt says and what a kind of   *)
(* material must say.                                                      *)
(*                                                                         *)
(* A text is a sequence of pieces, each <<"typed", name>> for what the     *)
(* teacher wrote or <<field, value>> for what enrich_prompt appended.  A   *)
(* piece is known by the keywords found in it by `contains' (Inside), the  *)
(* whole words a \b regex finds (Words) and the number standing before a   *)
(* unit (Quantity, NoNumber when there is none).  Pieces are joined by a   *)
(* comma, so no keyword spans two of them.                                 *)
(***************************************************************************)
EXTENDS Integers, Sequences, FiniteSets, FiniteSetsExt, SequencesExt

CONSTANTS Typed,      \* the phrases a teacher may type
          Inside,     \* [Typed \cup values -> keywords contained in them]
          Words,      \* [Typed \cup values -> whole words in them]
          Quantity    \* [Typed -> [Units -> number before the unit or NoNumber]]

NoNumber == -1
Units == {"halaman", "slide", "soal", "menit"}

ASSUME QuantityAssumption ==
  \A x \in Typed, u \in Units : Quantity[x][u] \in Nat \cup {NoNumber}

ContentTypes == {"materi_pembelajaran", "slide_presentasi", "rpp",
                 "lembar_kerja", "silabus", "penilaian", "unknown"}

\* An Option is a set of at most one value.
None == {}
SomeIf(condition, value) == IF condition THEN {value} ELSE None

\* A value that a text announces without the detector reading it.
Specified == "specified"

(***************************************************************************)
(* The pieces enrich_prompt writes: the words of its templates and of the  *)
(* answer put into them.  "10+ halaman" and "25+ slide" keep the number    *)
(* and the unit apart, so only `contains' sees them.                       *)
(***************************************************************************)
PieceKeywords(f, v) ==
  CASE f = "typed"               -> Inside[v]
    [] f = "target_audience"     -> {"untuk"} \cup Inside[v]
    [] f = "output_type"         -> Inside[v]
    [] f = "page_count"          -> {"halaman", "hal", "digit"}
                                    \cup IF v = "long" THEN {"10+ halaman"} ELSE {}
    [] f = "slide_count"         -> {"slide", "digit"}
                                    \cup IF v = "long" THEN {"25+ slide"} ELSE {}
    [] f = "learning_objectives" -> {"tujuan pembelajaran", "pembelajaran",
                                     "pelajaran", "belajar"} \cup Inside[v]
    [] f = "difficulty_level"    -> {"tingkat kesulitan", "kesulitan"} \cup Inside[v]
    [] f = "question_count"      -> {"soal", "digit"}
    [] f = "teaching_method"     -> {"metode"} \cup Inside[v]
    [] f = "include_activities"  -> {"sertakan latihan", "latihan", "soal"}
    [] f = "slides"              -> {"slide", "digit"}

\* The number a piece puts before a unit.
PieceQuantity(f, v, u) ==
  CASE f = "typed" /\ v \in Typed -> Quantity[v][u]
    [] f = "page_count" /\ u = "halaman" ->
         CASE v = "short" -> 3 [] v = "medium" -> 7 [] OTHER -> NoNumber
    [] f = "slide_count" /\ u = "slide" ->
         CASE v = "short" -> 10 [] v = "medium" -> 20 [] OTHER -> NoNumber
    [] f = "question_count" /\ u = "soal" -> 10
    [] OTHER -> NoNumber

PieceWords(f, v) ==
  IF f \in {"typed", "target_audience", "difficulty_level"} THEN Words[v] ELSE {}

KeywordsOf(text) == UNION {PieceKeywords(text[i][1], text[i][2]) : i \in DOMAIN text}
WordsOf(text)    == UNION {PieceWords(text[i][1], text[i][2]) : i \in DOMAIN text}

Mentions(text, K) == KeywordsOf(text) \cap K # {}

\* The leftmost number before the unit.
FirstNumber(text, u) ==
  LET at == {i \in DOMAIN text : PieceQuantity(text[i][1], text[i][2], u) # NoNumber}
  IN  IF at = {} THEN NoNumber ELSE PieceQuantity(text[Min(at)][1], text[Min(at)][2], u)

----------------------------------------------------------------------------
(* Detection of the content type. *)

SlideSignals     == {"slide", "presentasi", "pptx", "powerpoint", "slideshow"}
RppSignals       == {"rpp", "lesson plan", "rencana pelaksanaan", "rencana pembelajaran"}
WorksheetSignals == {"lembar kerja", "worksheet", "latihan", "soal", "ujian", "tes",
                     "assessment", "penilaian"}
SyllabusSignals  == {"silabus", "syllabus", "kurikulum"}
MateriSignals    == {"materi", "modul", "belajar", "pembelajaran", "handout", "bahan ajar"}

\* count_signals: the share of the signals present, in 120ths (the signal
\* lists have 5, 4, 8, 3 and 6 members, so every share is a whole number).
CountSignals(text, signals) ==
  (120 * Cardinality(KeywordsOf(text) \cap signals)) \div Cardinality(signals)

\* 0.15 in 120ths.
SignalThreshold == 18

\* max_by keeps the last of equal maxima; below the threshold: unknown.
DetectContentType(text) ==
  LET scores == << <<"slide_presentasi", CountSignals(text, SlideSignals)>>,
                   <<"rpp", CountSignals(text, RppSignals)>>,
                   <<"lembar_kerja", CountSignals(text, WorksheetSignals)>>,
                   <<"silabus", CountSignals(text, SyllabusSignals)>>,
                   <<"materi_pembelajaran", CountSignals(text, MateriSignals)>> >>
      top == Max({scores[i][2] : i \in DOMAIN scores})
  IN  IF top < SignalThreshold THEN "unknown"
      ELSE scores[Max({i \in DOMAIN scores : scores[i][2] = top})][1]

----------------------------------------------------------------------------
(* Detection of one field each; None when the text does not say. *)

DetectOutputType(text) ==
  LET kw == KeywordsOf(text)
      deck == \/ kw \cap {"pptx", "ppt", "powerpoint", "slide presentasi", "presentasi"} # {}
              \/ "slide" \in kw /\ "handout" \notin kw
      print == kw \cap {"pdf", "cetak", "print"} # {}
      doc == kw \cap {"docx", "doc", "word", "dokumen", "edit"} # {}
  IN  IF deck THEN {"pptx"} ELSE IF print THEN {"pdf"} ELSE SomeIf(doc, "docx")

\* The patterns in the order they are tried: `contains "kelas 1"' also finds
\* the classes 10 to 12, `contains "kelas x"' also finds xi and xii.
GradePatterns ==
  << "kelas 1", "kelas 2", "kelas 3", "kelas 4", "kelas 5", "kelas 6", "kelas 7", "kelas 8",
     "kelas 9", "kelas 10", "kelas 11", "kelas 12", "kelas x", "kelas xi", "kelas xii",
     "grade 1", "grade 2", "grade 3", "grade 4", "grade 5", "grade 6", "grade 7", "grade 8",
     "grade 9", "grade 10", "grade 11", "grade 12" >>

\* The class the i-th pattern stands for.
GradeOf(i) == CASE i \in 1..12 -> i [] i \in 13..15 -> i - 3 [] i \in 16..27 -> i - 15

StandaloneLevels == {"sd", "smp", "sma", "smk", "paud", "tk"}

DetectTargetAudience(text) ==
  LET found == {i \in DOMAIN GradePatterns : GradePatterns[i] \in KeywordsOf(text)}
  IN  IF found # {} THEN {GradeOf(Min(found))}
      ELSE SomeIf(WordsOf(text) \cap StandaloneLevels # {}, "level")

\* Mutant: only a number before the unit counts.
MutantDetectPageCount(text) ==
  SomeIf(FirstNumber(text, "halaman") # NoNumber, FirstNumber(text, "halaman"))

DetectPageCount(text) ==
  IF FirstNumber(text, "halaman") # NoNumber THEN {FirstNumber(text, "halaman")}
  ELSE SomeIf(Mentions(text, {"jumlah halaman", "2-3 halaman", "5-7 halaman", "10+ halaman"}),
              Specified)

DetectSlideCount(text) ==
  IF FirstNumber(text, "slide") # NoNumber THEN {FirstNumber(text, "slide")}
  ELSE SomeIf(Mentions(text, {"jumlah slide", "8-10 slide", "15-20 slide", "25+ slide"}),
              Specified)

DetectQuestionCount(text) ==
  IF FirstNumber(text, "soal") # NoNumber THEN {FirstNumber(text, "soal")}
  ELSE SomeIf(Mentions(text, {"jumlah soal"}), Specified)

DetectDifficultyLevel(text) ==
  SomeIf(\/ WordsOf(text) \cap {"mudah", "easy", "sedang", "medium", "sulit", "hard", "hots",
                                "campuran", "mixed"} # {}
         \/ Mentions(text, {"tingkat kesulitan", "kesulitan"}),
         Specified)

DetectIncludeActivities(text) ==
  SomeIf(Mentions(text, {"sertakan latihan", "dengan latihan", "ada latihan", "tanpa latihan",
                         "latihan soal"}), "yes")

DetectMeetingDuration(text) ==
  SomeIf(FirstNumber(text, "menit") # NoNumber \/ Mentions(text, {"2x45", "durasi pertemuan"}),
         Specified)

DetectTeachingMethod(text) ==
  SomeIf(Mentions(text, {"metode", "ceramah", "diskusi", "inquiry", "inkuiri", "pbl", "pjbl",
                         "problem based", "project based"}), Specified)

DetectAssessmentMethod(text) ==
  SomeIf(Mentions(text, {"tes tertulis", "tes lisan", "portofolio", "observasi",
                         "cara penilaian"}), Specified)

DetectQuestionType(text) ==
  SomeIf(Mentions(text, {"pilihan ganda", "pg", "essay", "esai", "uraian", "benar/salah",
                         "benar salah", "isian singkat", "mcq"}), Specified)

DetectLearningObjectives(text) ==
  SomeIf(Mentions(text, {"tujuan pembelajaran", "tujuan:", "agar siswa", "supaya siswa",
                         "capaian pembelajaran"}), Specified)

DetectVisualDensity(text) ==
  SomeIf(Mentions(text, {"banyak gambar", "fokus teks", "tampilan slide", "seimbang visual"}),
         Specified)

DetectSpeakerNotes(text) ==
  SomeIf(Mentions(text, {"catatan presenter", "catatan pembicara", "speaker notes"}),
         Specified)

DetectFieldValueFromPrompt(f, text) ==
  CASE f = "target_audience"     -> DetectTargetAudience(text)
    [] f = "output_type"         -> DetectOutputType(text)
    [] f = "page_count"          -> DetectPageCount(text)
    [] f = "slide_count"         -> DetectSlideCount(text)
    [] f = "question_count"      -> DetectQuestionCount(text)
    [] f = "difficulty_level"    -> DetectDifficultyLevel(text)
    [] f = "include_activities"  -> DetectIncludeActivities(text)
    [] f = "meeting_duration"    -> DetectMeetingDuration(text)
    [] f = "teaching_method"     -> DetectTeachingMethod(text)
    [] f = "assessment_method"   -> DetectAssessmentMethod(text)
    [] f = "question_type"       -> DetectQuestionType(text)
    [] f = "learning_objectives" -> DetectLearningObjectives(text)
    [] f = "visual_density"      -> DetectVisualDensity(text)
    [] f = "speaker_notes"       -> DetectSpeakerNotes(text)
    [] OTHER                     -> None

----------------------------------------------------------------------------
(* The standards: the fields of each content type, in order, each with its  *)
(* priority and the values its chips offer ({} for a free input).           *)

FieldDefinition(f, priority, chips) == [id |-> f, priority |-> priority, chips |-> chips]
Required(f, chips)    == FieldDefinition(f, "required", chips)
Recommended(f, chips) == FieldDefinition(f, "recommended", chips)
Optional(f, chips)    == FieldDefinition(f, "optional", chips)

GradeLevelSuggestions ==
  {"SD_Kelas_1", "SD_Kelas_2", "SD_Kelas_3", "SD_Kelas_4", "SD_Kelas_5", "SD_Kelas_6",
   "SMP_Kelas_7", "SMP_Kelas_8", "SMP_Kelas_9", "SMA_Kelas_10", "SMA_Kelas_11", "SMA_Kelas_12"}
OutputTypeSuggestions == {"pdf", "docx", "pptx"}
PageCountSuggestions  == {"short", "medium", "long"}
SlideCountSuggestions == {"short", "medium", "long"}
MeetingDurationSuggestions == {"35", "40", "45", "2x45"}
TeachingMethodSuggestions ==
  {"ceramah", "diskusi", "praktik", "inquiry", "problem_based", "project_based"}
AssessmentMethodSuggestions ==
  {"written_test", "oral", "practical", "portfolio", "observation"}
DifficultyLevelSuggestions == {"mudah", "sedang", "sulit", "campuran"}
VisualDensitySuggestions == {"visual", "balanced", "text_focused"}
QuestionTypeSuggestions ==
  {"pilihan_ganda", "essay", "uraian", "benar_salah", "isian_singkat"}
YesNo == {"yes", "no"}

MateriPembelajaranStandards ==
  << Required("target_audience", GradeLevelSuggestions),
     Required("output_type", OutputTypeSuggestions),
     Recommended("learning_objectives", {}),
     Recommended("page_count", PageCountSuggestions),
     Recommended("include_activities", YesNo) >>

SlidePresentasiStandards ==
  << Required("target_audience", GradeLevelSuggestions),
     Required("output_type", {"pptx"}),
     Recommended("slide_count", SlideCountSuggestions),
     Recommended("visual_density", VisualDensitySuggestions),
     Optional("speaker_notes", YesNo) >>

RppStandards ==
  << Required("target_audience", GradeLevelSuggestions),
     Required("learning_objectives", {}),
     Recommended("meeting_duration", MeetingDurationSuggestions),
     Recommended("teaching_method", TeachingMethodSuggestions),
     Recommended("assessment_method", AssessmentMethodSuggestions) >>

LembarKerjaStandards ==
  << Required("target_audience", GradeLevelSuggestions),
     Required("difficulty_level", DifficultyLevelSuggestions),
     Recommended("page_count", PageCountSuggestions),
     Recommended("question_count", {}),
     Optional("output_type", OutputTypeSuggestions) >>

SilabusStandards ==
  << Required("target_audience", GradeLevelSuggestions),
     Recommended("learning_objectives", {}),
     Optional("output_type", OutputTypeSuggestions) >>

PenilaianStandards ==
  << Required("target_audience", GradeLevelSuggestions),
     Required("difficulty_level", DifficultyLevelSuggestions),
     Required("question_count", {}),
     Recommended("question_type", QuestionTypeSuggestions),
     Optional("output_type", OutputTypeSuggestions) >>

DefaultStandards == MateriPembelajaranStandards

GetStandardsForContentType(ct) ==
  CASE ct = "materi_pembelajaran" -> MateriPembelajaranStandards
    [] ct = "slide_presentasi"    -> SlidePresentasiStandards
    [] ct = "rpp"                 -> RppStandards
    [] ct = "lembar_kerja"        -> LembarKerjaStandards
    [] ct = "silabus"             -> SilabusStandards
    [] ct = "penilaian"           -> PenilaianStandards
    [] ct = "unknown"             -> DefaultStandards

MaxQuestions == 5

\* Optional fields are dropped, five are kept, and a stable sort puts the
\* required ones first.
GetClarificationFields(ct) ==
  LET kept == SelectSeq(GetStandardsForContentType(ct), LAMBDA d : d.priority # "optional")
      five == SubSeq(kept, 1, Min({MaxQuestions, Len(kept)}))
      Of(p) == SelectSeq(five, LAMBDA d : d.priority = p)
  IN  Of("required") \o Of("recommended")

----------------------------------------------------------------------------
(* The second table, read on the path that starts from an interpretation.  *)

Requirements(required, recommended) == [required |-> required, recommended |-> recommended]

MateriRequirements ==
  Requirements(<<"target_audience", "output_type">>,
               <<"learning_objectives", "page_count", "include_activities">>)

SlideRequirements ==
  Requirements(<<"target_audience", "output_type">>,
               <<"slide_count", "visual_density", "speaker_notes">>)

RppRequirements ==
  Requirements(<<"target_audience", "learning_objectives">>,
               <<"meeting_duration", "teaching_method", "assessment_method">>)

LembarKerjaRequirements ==
  Requirements(<<"target_audience", "difficulty_level">>,
               <<"page_count", "question_count", "output_type">>)

SilabusRequirements ==
  Requirements(<<"target_audience">>, <<"learning_objectives", "output_type">>)

PenilaianRequirements ==
  Requirements(<<"target_audience", "difficulty_level", "question_count">>,
               <<"question_type", "output_type">>)

UnknownRequirements == Requirements(<<"target_audience", "output_type">>, << >>)

GetMinimumRequirements(ct) ==
  CASE ct = "materi_pembelajaran" -> MateriRequirements
    [] ct = "slide_presentasi"    -> SlideRequirements
    [] ct = "rpp"                 -> RppRequirements
    [] ct = "lembar_kerja"        -> LembarKerjaRequirements
    [] ct = "silabus"             -> SilabusRequirements
    [] ct = "penilaian"           -> PenilaianRequirements
    [] ct = "unknown"             -> UnknownRequirements
=============================================================================
