------------------------------- MODULE AuditTrail ------------------------------
(***************************************************************************)
(* The orchestration_audit_payload of one media generation and the three   *)
(* transactions of src/orchestrator/audit_trail.rs that rewrite it.  Each  *)
(* transaction locks the row (SELECT ... FOR UPDATE), so it is one step:   *)
(* an operator from the row it read to the row it commits.                 *)
(*                                                                         *)
(* Of the payload the operators keep current_status and status_history;    *)
(* timings, job metadata, provider names and error texts are left out.     *)
(***************************************************************************)
EXTENDS Lifecycle, Sequences

CONSTANT HistoryLimit       \* HISTORY_LIMIT: entries kept in status_history

\* A history holds at most one entry per position of the lifecycle order, so a
\* limit of nine or more (the code has 50) never drops one.
ASSUME HistoryLimitAssumption == HistoryLimit \in Nat /\ HistoryLimit >= 9

\* from_status of the entry that records the creation, and a NULL payload.
NoStatus == "null"

HistoryEntry == [from : Status \cup {NoStatus}, to : Status]

Payload == [current : Status \cup {NoStatus}, history : Seq(HistoryEntry)]

NullPayload == [current |-> NoStatus, history |-> <<>>]

BasePayload ==
  [current |-> "queued",
   history |-> <<[from |-> NoStatus, to |-> "queued"]>>]

PayloadOrBase(payload) ==
  IF payload = NullPayload THEN BasePayload ELSE payload

\* The newest HistoryLimit entries are kept.
AppendHistory(history, entry) ==
  LET longer == Append(history, entry)
  IN  IF Len(longer) > HistoryLimit
      THEN SubSeq(longer, Len(longer) - HistoryLimit + 1, Len(longer))
      ELSE longer

\* The payload after a recorded move from one status to another.
Moved(payload, from, to) ==
  [current |-> to,
   history |-> AppendHistory(payload.history, [from |-> from, to |-> to])]

\* initialize(): idempotent, writes the base payload over NULL.
Initialize(payload) == PayloadOrBase(payload)

\* Mutant: any later status may be entered.
TransitionAllowedAhead(status, to) ==
  status = to \/ StatusBefore(status, to)

\* transition(): refused when the matrix refuses it; asking for the status the
\* row already has only refreshes current_status.
TransitionAllowed(status, to) == status = to \/ CanTransition(status, to)

TransitionPayload(status, payload, to) ==
  IF status = to
  THEN [PayloadOrBase(payload) EXCEPT !.current = to]
  ELSE Moved(PayloadOrBase(payload), status, to)

\* mark_failed(): refused for a completed or cancelled generation; records a
\* move unless the generation has failed already.
MarkFailedAllowed(status) == status \notin {"completed", "cancelled"}

MarkFailedPayload(status, payload) ==
  IF CanTransition(status, "failed")
  THEN Moved(PayloadOrBase(payload), status, "failed")
  ELSE [PayloadOrBase(payload) EXCEPT !.current = "failed"]

--------------------------------------------------------------------------------
\* The audit trail of a generation whose status column holds `status`: it starts
\* at the creation, every later entry continues the one before along the
\* lifecycle matrix, nothing has been dropped, and the last entry and
\* current_status agree with the column.
IsPathTo(payload, status) ==
  LET h == payload.history
  IN  /\ h # <<>>
      /\ h[1] = [from |-> NoStatus, to |-> "queued"]
      /\ \A i \in 2..Len(h) : /\ h[i].from = h[i-1].to
                              /\ CanTransition(h[i].from, h[i].to)
      /\ h[Len(h)].to = status
      /\ payload.current = status
================================================================================
