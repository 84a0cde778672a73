---------------------------- MODULE RunSelection ----------------------------
(***************************************************************************)
(* The groups and runs an operator has selected (models/operator.ts and    *)
(* selectionStorage.ts): kept in the browser's storage, and restored from  *)
(* it, or from a link, while the operator may already be at work.          *)
(***************************************************************************)
EXTENDS Integers, FiniteSets

CONSTANTS
    SelGroups,
    SelRuns,        \* runs, each of whichever group it is selected for
    MaxEdits,       \* bound: selections by the operator
    MaxMishaps      \* bound: requests that fail

ASSUME SelectionAssumption == {MaxEdits, MaxMishaps} \subseteq Nat

VARIABLES
    known,          \* the runs the backend knows
    stored,         \* localStorage: the selection of this operator, or Nothing
    selection,
    edits,          \* selectionEdits
    owner,          \* selectionOwner is set
    restoring,      \* where the restoring effect is: "session", "validating", "done"
    mishaps

selectionVars == <<known, stored, selection, edits, owner, restoring, mishaps>>

NoRun == "none"
Nothing == [group |-> "none", runs |-> [g \in SelGroups |-> NoRun]]
Default == CHOOSE g \in SelGroups : TRUE
AtDefault == [Nothing EXCEPT !.group = Default]
Selections == [group : SelGroups, runs : [SelGroups -> SelRuns \cup {NoRun}]]

SelectionInit ==
    /\ known \in SUBSET SelRuns
    /\ stored \in {Nothing} \cup Selections
    /\ selection = AtDefault /\ edits = 0 /\ owner = FALSE /\ restoring = "session" /\ mishaps = 0

-----------------------------------------------------------------------------
\* A run appears.
Runs(r) ==
    /\ r \notin known /\ known' = known \cup {r}
    /\ UNCHANGED <<stored, selection, edits, owner, restoring, mishaps>>

\* Seeded fault: every selection is kept.
Kept_Early(s, known1) == s

\* What an effect does after each render: the selection of an operator who is known is kept.
Kept(s, known1) == IF known1 THEN s ELSE stored

\* setSelectedGroup, setSelectedRuns
EditSelection(s) ==
    /\ edits < MaxEdits /\ edits' = edits + 1 /\ s # selection
    /\ s.group = selection.group \/ s.runs = selection.runs
    /\ selection' = s /\ stored' = Kept(s, owner)
    /\ UNCHANGED <<known, owner, restoring, mishaps>>

\* Seeded fault: what was stored is restored whatever was selected meanwhile.
Untouched_Always == TRUE

\* selectionEdits.current === 0
Untouched == edits = 0

\* validateSelection: runs that the backend does not know, or could not tell, are dropped.
Validated(s, unanswered) ==
    [s EXCEPT !.runs = [g \in SelGroups |-> IF @[g] \in known /\ g \notin unanswered THEN @[g] ELSE NoRun]]

\* The session is there: what was stored for its operator is read, or the link that the page
\* was opened with.
ReadSelection ==
    /\ restoring = "session" /\ restoring' = "validating"
    /\ UNCHANGED <<known, stored, selection, edits, owner, mishaps>>

Restore(unanswered) ==
    /\ restoring = "validating" /\ restoring' = "done" /\ owner' = TRUE
    /\ mishaps + Cardinality(unanswered) <= MaxMishaps /\ mishaps' = mishaps + Cardinality(unanswered)
    /\ \E s \in {IF stored = Nothing THEN AtDefault ELSE stored} \cup {[stored EXCEPT !.group = g] : g \in SelGroups} :
         selection' = IF Untouched THEN Validated(s, unanswered) ELSE selection
    /\ stored' = Kept(selection', TRUE)
    /\ UNCHANGED <<known, edits>>

\* The session or the listing of the groups fails: nothing is restored, or kept.
RestoreFails ==
    /\ restoring \in {"session", "validating"} /\ restoring' = "done"
    /\ mishaps < MaxMishaps /\ mishaps' = mishaps + 1
    /\ UNCHANGED <<known, stored, selection, edits, owner>>

-----------------------------------------------------------------------------
SelectionNext ==
    \/ \E r \in SelRuns : Runs(r)
    \/ \E s \in Selections : EditSelection(s)
    \/ ReadSelection \/ RestoreFails
    \/ \E unanswered \in SUBSET SelGroups : Restore(unanswered)

-----------------------------------------------------------------------------
SelectionTypeOK ==
    /\ known \subseteq SelRuns /\ selection \in Selections /\ stored \in Selections \cup {Nothing}
    /\ edits \in 0 .. MaxEdits /\ owner \in BOOLEAN /\ restoring \in {"session", "validating", "done"}
    /\ mishaps \in 0 .. MaxMishaps

\* What the operator has selected is not undone by the selection that is being restored.
EditsWin == [][selection' # selection /\ edits > 0 => edits' > edits]_selectionVars

\* What is stored is never replaced by a selection the operator has not seen: it is the
\* selection on the screen, or still what it was when the page was opened.
StoredIsShown == [][stored' # stored => stored' = selection' /\ restoring' = "done"]_selectionVars

\* The selection on the screen and the one in the browser's storage are the operator's.
SelectionIsKept == EditsWin /\ StoredIsShown
=============================================================================
