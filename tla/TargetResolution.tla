-------------------------- MODULE TargetResolution --------------------------
(***************************************************************************)
(* Which component a change described in plain words is about.  Pure       *)
(* operators on a listing of the manifest: a function from component ids   *)
(* to rows with a set of files.  The row of the codebase index is among    *)
(* them; its files are the paths whose symbols it holds.  A mention is a   *)
(* value; what it matches after trimming, folding and the boundary rules   *)
(* is what it is equal to here.  Scores order the list that is shown and   *)
(* decide nothing: several components are several.                         *)
(***************************************************************************)
EXTENDS FiniteSets

CONSTANT IndexId   \* the row that holds the symbols of the whole codebase

\* The mention that equals the name of the symbol indexed at a path.
SymbolAt(path) == <<"symbol", path>>

Targets(list) == DOMAIN list \ {IndexId}

Symbols(list) == IF IndexId \in DOMAIN list THEN list[IndexId].files ELSE {}

ById(list, mentions) == Targets(list) \intersect mentions

ByPath(list, mentions) == {x \in Targets(list) : list[x].files \intersect mentions # {}}

\* A symbol leads to the component that owns the file it was indexed in; a
\* symbol without an owner is skipped, and of two owners the first row counts.
BySymbol(list, mentions) ==
    LET named == {path \in Symbols(list) : SymbolAt(path) \in mentions}
        owners(path) == {x \in Targets(list) : path \in list[x].files}
    IN {CHOOSE x \in owners(path) : TRUE : path \in {q \in named : owners(q) # {}}}

Candidates(list, mentions) ==
    ById(list, mentions) \union ByPath(list, mentions) \union BySymbol(list, mentions)

\* resolveTarget
Outcome(candidates) ==
    IF candidates = {} THEN "none"
    ELSE IF Cardinality(candidates) = 1 THEN "single" ELSE "multiple"

The(candidates) == CHOOSE x \in candidates : TRUE

AllProposed(proposed, words) == proposed   \* mutant: the model's spellings are trusted
\* filterVerbatimMentions: what the model proposes counts if the intent says it.
Verbatim(proposed, words) == proposed \intersect words
=============================================================================
