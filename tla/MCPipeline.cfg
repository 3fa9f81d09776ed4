SPECIFICATION Spec
CONSTANTS
  Typed <- MCTyped
  Prompts <- MCPrompts
  Inside <- MCInside
  Words <- MCWords
  Quantity <- MCQuantity
  Preferences <- MCPreferences
  Pickable <- MCPickable
  FreeText <- MCFreeText
  Tokens <- MCTokens
  Cleaned <- MCCleaned
  SlideLists <- MCSlideLists
  MaxRounds = 2
  MaxAnswers = 2
  MaxPieces = 2
  Answers <- MCAnswers
  DraftAnswers <- MCDraftAnswers
  OneApartTies = TRUE
INVARIANTS WrittenAnswersSettle  PlanModeIsStable DecisionIsSettled 
