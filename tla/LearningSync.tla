---------------------------- MODULE LearningSync ---------------------------
(***************************************************************************)
(* How cycle commitments reach LearningRootOracle.sol.  The engine appends *)
(* a row to cycle_commitments.jsonl and fires onCycleComplete, whose hook  *)
(* submits the row's root; `arena sync-learning`, another process, replays *)
(* the file from a cursor it keeps.  Both go through                       *)
(* CastLearningRootSubmitter.submit, which asks the oracle first and then  *)
(* sends: two awaits, with the other process in between.                   *)
(*                                                                         *)
(* Row r is the r-th line of the file.  Every row ends in a newline, so    *)
(* splitting n rows at newlines gives n + 1 lines, the last one empty.     *)
(***************************************************************************)
EXTENDS Naturals, FiniteSets

CONSTANTS
    MaxRows,    \* bound: rows appended
    Limit       \* --limit of a sync

ASSUME SyncAssumption == MaxRows \in Nat \ {0} /\ Limit \in Nat \ {0}

VARIABLES
    rows,       \* rows in cycle_commitments.jsonl
    hook,       \* the submission the engine's hook runs for each row
    roots,      \* cycleRoots of the oracle: the rows it has
    cycleCount, \* seasonCycleCount, over all seasons
    paused,     \* the oracle's pause switch
    cursorFile, \* sync_learning_cursor.json: lines consumed
    sync,       \* the sync-learning process
    overrun     \* history: rows that were not there yet when a sync passed their line

vars == <<rows, hook, roots, cycleCount, paused, cursorFile, sync, overrun>>

Rows == 1..MaxRows
Idle == [pc |-> "idle", lines |-> 0, from |-> 0, cursor |-> 0, left |-> 0]

Init ==
    /\ rows = 0 /\ hook = [r \in Rows |-> "none"]
    /\ roots = {} /\ cycleCount = 0 /\ paused = FALSE
    /\ cursorFile = 0 /\ sync = Idle /\ overrun = {}
-----------------------------------------------------------------------------
(* The oracle, and one call of it by `cast`.                               *)

\* A plausible slip: the duplicate is not refused.
MaySubmitMutant(r) == ~paused

MaySubmit(r) == ~paused /\ r \notin roots

SubmitCycleRoot(r) ==
    /\ MaySubmit(r)
    /\ roots' = roots \cup {r} /\ cycleCount' = cycleCount + 1

Pause == paused' = ~paused /\ UNCHANGED <<rows, hook, roots, cycleCount, cursorFile, sync, overrun>>
-----------------------------------------------------------------------------
(* The engine's side.                                                      *)

\* The process may die between the append and the hook.
AppendRow ==
    /\ rows < MaxRows
    /\ rows' = rows + 1
    /\ \E h \in {"check", "lost"} : hook' = [hook EXCEPT ![rows + 1] = h]
    /\ UNCHANGED <<roots, cycleCount, paused, cursorFile, sync, overrun>>

HookMoves(r, from, to) == hook[r] = from /\ hook' = [hook EXCEPT ![r] = to]

\* isAlreadySubmitted
Asked(r) == IF r \in roots THEN "skipped" ELSE "send"

HookAsks(r) ==
    /\ HookMoves(r, "check", Asked(r))
    /\ UNCHANGED <<rows, roots, cycleCount, paused, cursorFile, sync, overrun>>

\* The transaction lands; the caller may still see an error.
HookSends(r) ==
    /\ \E to \in {"submitted", "failed"} : HookMoves(r, "send", to)
    /\ SubmitCycleRoot(r)
    /\ UNCHANGED <<rows, paused, cursorFile, sync, overrun>>

\* The call fails, or reverts: an alert, and no retry.
HookFails(r) ==
    /\ \E from \in {"check", "send"} : HookMoves(r, from, "failed")
    /\ UNCHANGED <<rows, roots, cycleCount, paused, cursorFile, sync, overrun>>

EngineDies ==
    /\ \E r \in Rows : hook[r] \in {"check", "send"}
    /\ hook' = [r \in Rows |-> IF hook[r] \in {"check", "send"} THEN "lost" ELSE hook[r]]
    /\ UNCHANGED <<rows, roots, cycleCount, paused, cursorFile, sync, overrun>>
-----------------------------------------------------------------------------
(* arena sync-learning.                                                    *)

\* Reads the file once, the cursor once.
SyncStart(reset) ==
    /\ sync.pc = "idle" /\ rows > 0
    /\ LET lines == rows + 1
           read  == IF reset THEN 0 ELSE cursorFile
           at    == IF read > lines THEN lines ELSE read
       IN  /\ cursorFile' = read
           /\ sync' = [pc |-> "next", lines |-> lines, from |-> at, cursor |-> at, left |-> Limit]
    /\ UNCHANGED <<rows, hook, roots, cycleCount, paused, overrun>>

More == sync.cursor < sync.lines /\ sync.left > 0
OnEmptyLine == sync.cursor = sync.lines - 1
Row == sync.cursor + 1

\* The line is done with: the scan moves on.
Consumed == [sync EXCEPT !.pc = "next", !.cursor = @ + 1, !.left = @ - 1]

SyncSkipsEmptyLine ==
    /\ sync.pc = "next" /\ More /\ OnEmptyLine
    /\ sync' = Consumed
    /\ overrun' = overrun \cup {Row}
    /\ UNCHANGED <<rows, hook, roots, cycleCount, paused, cursorFile>>

SyncTakesRow ==
    /\ sync.pc = "next" /\ More /\ ~OnEmptyLine
    /\ sync' = [sync EXCEPT !.pc = "check"]
    /\ UNCHANGED <<rows, hook, roots, cycleCount, paused, cursorFile, overrun>>

SyncAsks ==
    /\ sync.pc = "check"
    /\ sync' = IF Asked(Row) = "skipped" THEN Consumed ELSE [sync EXCEPT !.pc = "send"]
    /\ UNCHANGED <<rows, hook, roots, cycleCount, paused, cursorFile, overrun>>

\* Lost answers count as failures here too.
SyncSends(seen) ==
    /\ sync.pc = "send"
    /\ SubmitCycleRoot(Row)
    /\ sync' = IF seen THEN Consumed ELSE [sync EXCEPT !.pc = "end"]
    /\ UNCHANGED <<rows, hook, paused, cursorFile, overrun>>

\* A plausible slip: a failed row is counted and passed over.
AfterFailureMutant == Consumed

\* break, with the cursor at the failed row
AfterFailure == [sync EXCEPT !.pc = "end"]

SyncFails ==
    /\ sync.pc \in {"check", "send"}
    /\ sync' = AfterFailure
    /\ UNCHANGED <<rows, hook, roots, cycleCount, paused, cursorFile, overrun>>

\* A plausible slip: the length of what was read is saved.
SavedMutant == sync.lines

Saved == sync.cursor

SyncEnds ==
    /\ sync.pc = "end" \/ (sync.pc = "next" /\ ~More)
    /\ cursorFile' = Saved
    /\ sync' = Idle
    /\ UNCHANGED <<rows, hook, roots, cycleCount, paused, overrun>>

\* Killed: the cursor is not written.
SyncDies ==
    /\ sync.pc # "idle" /\ sync' = Idle
    /\ UNCHANGED <<rows, hook, roots, cycleCount, paused, cursorFile, overrun>>

Next ==
    \/ AppendRow \/ EngineDies \/ Pause
    \/ \E r \in Rows : HookAsks(r) \/ HookSends(r) \/ HookFails(r)
    \/ \E reset \in BOOLEAN : SyncStart(reset)
    \/ SyncSkipsEmptyLine \/ SyncTakesRow \/ SyncAsks \/ SyncFails
    \/ \E seen \in BOOLEAN : SyncSends(seen)
    \/ SyncEnds \/ SyncDies

Spec == Init /\ [][Next]_vars

\* A call of cast returns in the end, and for no row does it fail for ever.
\* The operator runs the sync again and again; from some time on without
\* --reset-cursor, and never killed with progress it has not saved.
Fairness ==
    /\ WF_vars(SyncSkipsEmptyLine \/ SyncTakesRow) /\ WF_vars(SyncEnds)
    /\ WF_vars(SyncFails)
    /\ SF_vars(SyncStart(FALSE))
    /\ \A r \in Rows : /\ SF_vars(SyncTakesRow /\ Row = r)
                       /\ SF_vars(SyncAsks /\ Row = r)
                       /\ SF_vars(SyncSends(TRUE) /\ Row = r)
    /\ <>[][cursorFile' >= cursorFile /\ (SyncDies => cursorFile = Saved)]_vars

FairSpec == Spec /\ Fairness
-----------------------------------------------------------------------------
(* Properties.                                                             *)

\* Types; the scan stays inside the lines it read, and submits none but rows.
TypeOK ==
    /\ rows \in 0..MaxRows
    /\ hook \in [Rows -> {"none", "check", "send", "submitted", "skipped", "failed", "lost"}]
    /\ \A r \in Rows : hook[r] # "none" => r <= rows
    /\ roots \subseteq 1..rows /\ cycleCount \in 0..MaxRows /\ paused \in BOOLEAN
    /\ cursorFile \in 0..rows + 1
    /\ sync \in [pc : {"idle", "next", "check", "send", "end"}, lines : 0..rows + 1,
                 from : 0..rows + 1, cursor : 0..rows + 1, left : 0..Limit]
    /\ sync.from <= sync.cursor /\ sync.cursor <= sync.lines
    /\ sync.pc \in {"check", "send"} => Row < sync.lines /\ sync.left > 0
    /\ overrun \subseteq 1..rows + 1

\* The hook and the sync may both find a row missing and both send it: the
\* oracle still counts each cycle once.
CountedOnce == cycleCount = Cardinality(roots)

\* Whatever fails, races or is lost, a scan moves its cursor only past rows
\* that are on chain.
ScannedOnChain ==
    \A r \in (sync.from + 1)..sync.cursor : r < sync.lines => r \in roots

\* Every row behind the saved cursor that is not on chain is one that was
\* appended where an earlier sync had passed the empty last line.
MissedOnlyByOverrun ==
    \A r \in 1..rows : r <= cursorFile => r \in roots \cup overrun

\* However hook and replay race, fail and die, the oracle counts right and no row is
\* passed over but through the empty last line.
ScanSound == CountedOnce /\ ScannedOnChain /\ MissedOnlyByOverrun

\* No hook reports a submission, or skips one, for a root that is not on chain.
ReportsAreTrue ==
    \A r \in Rows : hook[r] \in {"submitted", "skipped"} => r \in roots

\* A row the engine's hook failed to submit, or never tried, is brought on
\* chain by the repeated syncs, unless the oracle is paused or an earlier sync
\* had already passed its line.
BacklogRecovered ==
    \A r \in Rows : (r <= rows) ~> (r \in roots \/ r \in overrun \/ paused)

\* The runbook's claim that the sync may be run repeatedly and resumes where it
\* left off: whatever lies behind the saved cursor is on chain.
NothingLeftBehind ==
    \A r \in 1..rows : r <= cursorFile => r \in roots
=============================================================================
