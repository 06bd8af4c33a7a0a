------------------------------ MODULE LogPages ------------------------------
(***************************************************************************)
(* GET /replay/decisions and GET /audit/logs: pages of an append-only      *)
(* file, counted from its end, read by a client while rows are added.      *)
(* Rows are numbered in the order of the file; a filter picks a            *)
(* subsequence, which is append-only too.                                  *)
(***************************************************************************)
EXTENDS Integers

CONSTANTS DefaultLimit, MaxLimit, RawLimits, MaxRows

ASSUME PageLimits ==
  DefaultLimit \in Nat \ {0} /\ MaxLimit \in Nat \ {0} /\ RawLimits \subseteq Int /\ MaxRows \in Nat

VARIABLES rows,                   \* rows in the file
          first, offset, seen     \* the client: total at its first page, rows it read
pageVars == <<rows, first, offset, seen>>

PagesInit == rows = 0 /\ first = 0 /\ offset = 0 /\ seen = {}

Larger(a, b) == IF a > b THEN a ELSE b
\* What is no number counts like 0.
ParseLimit(raw) ==
  IF raw <= 0 THEN DefaultLimit
  ELSE IF raw < MaxLimit THEN raw ELSE MaxLimit

\* The last row before the offset is left out, for a mutant.
PageMutant(total, off, limit) == (Larger(0, total - off - limit) + 1)..Larger(0, total - off - 1)
\* all.slice(start, end) of total rows.
Page(total, off, limit) == (Larger(0, total - off - limit) + 1)..Larger(0, total - off)

AppendRow == rows < MaxRows /\ rows' = rows + 1 /\ UNCHANGED <<first, offset, seen>>

\* The client goes on where it stopped: offset is the number of rows it was given.
ReadPage(raw) ==
  LET page == Page(rows, offset, ParseLimit(raw))
  IN /\ first' = IF offset = 0 THEN rows ELSE first
     /\ seen' = IF offset = 0 THEN page ELSE seen \cup page
     /\ offset' = offset + (IF page = {} THEN 0 ELSE
                            (CHOOSE i \in page : \A j \in page : j <= i)
                            - (CHOOSE i \in page : \A j \in page : i <= j) + 1)
     /\ UNCHANGED rows

PagesNext == AppendRow \/ \E raw \in RawLimits : ReadPage(raw)
PagesSpec == PagesInit /\ [][PagesNext]_pageVars

\* Rows appended while a client turns pages shift them: it may see a row twice,
\* but of those its first page counted it has skipped none above its oldest.
PagesLeaveNoGap ==
  \A i \in 1..first : (\E j \in seen : j < i) => i \in seen
=============================================================================
