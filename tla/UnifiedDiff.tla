---------------------------- MODULE UnifiedDiff ----------------------------
(***************************************************************************)
(* `purix ingest` and its tool from the text of a diff to the files that   *)
(* go to the sandbox: the parser and the application of hunks in           *)
(* entrypoints/ingest.ts, then the checks and the merge of the two         *)
(* commands.  What follows (sandbox, repair, TrustGate, commit) is         *)
(* ModifyPipeline's.                                                       *)
(*                                                                         *)
(* A file is the sequence of its lines, content.split("\n").  A diff is    *)
(* what its author meant, a sequence of sections; Rendered is the text the *)
(* program gets, line by line, and the parser knows nothing else.  A       *)
(* removed line "-- x" is written "--- x" and an added line "++ x" is      *)
(* written "+++ x": both read as the header of a file.  Of a section       *)
(* without hunks (an empty file added or deleted, a renamed file, a        *)
(* changed mode) git writes no line that the parser looks at.              *)
(***************************************************************************)
EXTENDS Integers, SequencesExt

CONSTANTS
    ProjectPaths,   \* files inside the project, Ghost among them
    Outside,        \* a path that resolveSafePath refuses
    NoPath,         \* /dev/null
    Missing,        \* what a path without a file holds
    Tracked,        \* the files of the component, all on disk (no drift)
    Ghost,          \* the path read out of a line that looks like a header
    Texts,          \* what a line can hold
    Blank,          \* undefined, joined as an empty line
    MinusMinus,     \* a line of a file that starts with "-- "
    PlusPlus,       \* a line of a file that starts with "++ "
    Requests        \* the diffs and disks to begin with

DiffPaths == ProjectPaths \cup {Outside, NoPath}
DiffLines == [mark : {" ", "-", "+"}, text : Texts]
DiffHunks == [start : Nat, body : Seq(DiffLines)]
DiffSections == [old : DiffPaths, new : DiffPaths, hunks : Seq(DiffHunks)]

ASSUME PathAssumption ==
    /\ Tracked \subseteq ProjectPaths /\ Ghost \in ProjectPaths
    /\ NoPath \notin ProjectPaths /\ Outside \notin ProjectPaths
ASSUME RequestAssumption ==
    \A r \in Requests :
        /\ r.diff \in Seq(DiffSections)
        /\ DOMAIN r.disk = ProjectPaths
        /\ \A p \in ProjectPaths : r.disk[p] = Missing \/ r.disk[p] \in Seq(Texts)

VARIABLES
    meant,          \* the diff its author meant
    onDisk,         \* path -> lines or Missing
    pc,             \* "parse", "read", "check", "accepted", "refused"
    sections,       \* what the parser found
    results,        \* files of the sections applied so far
    final           \* path -> lines: what goes to the sandbox

diffVars == <<meant, onDisk, pc, sections, results, final>>

-----------------------------------------------------------------------------
(* The text of a diff, as git writes it. *)

NoiseLine == [kind |-> "noise"]

BodyLine(l) ==
    IF l.mark = "-" /\ l.text = MinusMinus THEN [kind |-> "old", path |-> Ghost]
    ELSE IF l.mark = "+" /\ l.text = PlusPlus THEN [kind |-> "new", path |-> Ghost]
    ELSE [kind |-> "body", line |-> l]

HunkText(h) ==
    <<[kind |-> "range", start |-> h.start]>> \o [i \in DOMAIN h.body |-> BodyLine(h.body[i])]

\* The two headers stand before hunks only; the rest ("diff --git", "new file mode",
\* "rename from", "index") is noise.
SectionText(s) ==
    IF s.hunks = <<>> THEN <<NoiseLine>>
    ELSE <<NoiseLine, [kind |-> "old", path |-> s.old], [kind |-> "new", path |-> s.new]>>
            \o FlattenSeq([i \in DOMAIN s.hunks |-> HunkText(s.hunks[i])]) \o <<NoiseLine>>

Rendered(diff) == FlattenSeq([i \in DOMAIN diff |-> SectionText(diff[i])])

-----------------------------------------------------------------------------
(* The parser. *)

NewSection(old, new) == [old |-> old, new |-> new, hunks |-> <<>>]

\* `current` is the section being read, if any; `open` says whether its last hunk takes lines.
ParseLine(s, l) ==
    CASE l.kind = "old" ->
            [files |-> s.files \o s.current, current |-> <<NewSection(l.path, NoPath)>>, open |-> FALSE]
      [] l.kind = "new" ->
            [s EXCEPT !.current = IF @ = <<>> THEN <<NewSection(NoPath, l.path)>>
                                  ELSE <<[@[1] EXCEPT !.new = l.path]>>,
                      !.open = FALSE]
      [] l.kind = "range" /\ s.current # <<>> ->
            [s EXCEPT !.current[1].hunks = Append(@, [start |-> l.start, body |-> <<>>]),
                      !.open = TRUE]
      [] l.kind = "body" /\ s.open ->
            [s EXCEPT !.current[1].hunks[Len(s.current[1].hunks)].body = Append(@, l.line)]
      [] OTHER -> s

Keep(kept, s) == IF s.hunks # <<>> \/ s.old = NoPath \/ s.new = NoPath THEN Append(kept, s) ELSE kept

ParseUnifiedDiff(text) ==
    LET end == FoldLeft(ParseLine, [files |-> <<>>, current |-> <<>>, open |-> FALSE], text)
    IN  FoldLeft(Keep, <<>>, end.files \o end.current)

-----------------------------------------------------------------------------
(* The application of hunks to the lines of a file; `at` lines are consumed. *)

HunkStart(h) == IF h.start > 0 THEN h.start - 1 ELSE 0

Copied(base, from, to) == [i \in 1 .. to - from |-> IF from + i <= Len(base) THEN base[from + i] ELSE Blank]

\* Mutant: a removed line is not compared with the file.
TrustingApplyLine(base, s, l) ==
    IF ~s.ok THEN s
    ELSE IF l.mark = "+" THEN [s EXCEPT !.out = Append(@, l.text)]
    ELSE IF s.at >= Len(base) \/ (l.mark = " " /\ base[s.at + 1] # l.text) THEN [s EXCEPT !.ok = FALSE]
    ELSE [s EXCEPT !.at = @ + 1, !.out = IF l.mark = " " THEN Append(@, l.text) ELSE @]

ApplyLine(base, s, l) ==
    IF ~s.ok THEN s
    ELSE IF l.mark = "+" THEN [s EXCEPT !.out = Append(@, l.text)]
    ELSE IF s.at >= Len(base) \/ base[s.at + 1] # l.text THEN [s EXCEPT !.ok = FALSE]
    ELSE [s EXCEPT !.at = @ + 1, !.out = IF l.mark = " " THEN Append(@, l.text) ELSE @]

ApplyHunk(base, s, h) ==
    IF ~s.ok \/ HunkStart(h) < s.at THEN [s EXCEPT !.ok = FALSE]
    ELSE FoldLeft(LAMBDA t, l : ApplyLine(base, t, l),
                  [s EXCEPT !.at = HunkStart(h), !.out = @ \o Copied(base, s.at, HunkStart(h))],
                  h.body)

ApplyHunks(base, hunks) ==
    LET end == FoldLeft(LAMBDA s, h : ApplyHunk(base, s, h), [at |-> 0, out |-> <<>>, ok |-> TRUE], hunks)
    IN  [ok |-> end.ok, lines |-> end.out \o SubSeq(base, end.at + 1, Len(base))]

-----------------------------------------------------------------------------
(* The sections, one after the other, and the commands' own checks. *)

RelPath(s) == IF s.new # NoPath THEN s.new ELSE s.old

Status(s) == IF s.new = NoPath THEN "deleted" ELSE IF s.old = NoPath THEN "added" ELSE "modified"

\* A new file starts from nothing, whatever the disk holds.
Base(s) == IF s.old = NoPath THEN <<>> ELSE onDisk[RelPath(s)]

Unreadable(s) ==
    \/ RelPath(s) \in {NoPath, Outside}
    \/ s.old # NoPath /\ onDisk[RelPath(s)] = Missing

DiffInit ==
    /\ \E r \in Requests : meant = r.diff /\ onDisk = r.disk
    /\ pc = "parse"
    /\ sections = <<>> /\ results = <<>>
    /\ final = <<>>

Parse ==
    /\ pc = "parse"
    /\ sections' = ParseUnifiedDiff(Rendered(meant))
    /\ pc' = IF sections' = <<>> THEN "refused" ELSE "read"
    /\ UNCHANGED <<meant, onDisk, results, final>>

ReadSection ==
    /\ pc = "read"
    /\ Len(results) < Len(sections)
    /\ LET s == sections[Len(results) + 1] IN
       IF Unreadable(s) \/ ~ApplyHunks(Base(s), s.hunks).ok
       THEN pc' = "refused" /\ UNCHANGED results
       ELSE /\ results' = Append(results, [path |-> RelPath(s), status |-> Status(s),
                                           lines |-> ApplyHunks(Base(s), s.hunks).lines])
            /\ pc' = IF Len(results') = Len(sections) THEN "check" ELSE "read"
    /\ UNCHANGED <<meant, onDisk, sections, final>>

\* The component's files with the first change found for each, then the added ones.
Merged ==
    LET changes(p) == {i \in DOMAIN results : results[i].path = p}
        added(p)   == {i \in changes(p) : results[i].status = "added"}
    IN  [p \in Tracked \cup {c.path : c \in {d \in ToSet(results) : d.status = "added"}} |->
            IF added(p) # {} THEN results[Max(added(p))].lines
            ELSE IF changes(p) # {} THEN results[Min(changes(p))].lines
            ELSE onDisk[p]]

CheckChanges ==
    /\ pc = "check"
    /\ IF \E c \in ToSet(results) : c.status = "deleted" \/ (c.status = "modified" /\ c.path \notin Tracked)
       THEN pc' = "refused" /\ UNCHANGED final
       ELSE pc' = "accepted" /\ final' = Merged
    /\ UNCHANGED <<meant, onDisk, sections, results>>

DiffNext == Parse \/ ReadSection \/ CheckChanges

DiffSpec == DiffInit /\ [][DiffNext]_diffVars

-----------------------------------------------------------------------------
(* What a diff means, without parser or cursor: every hunk replaces its    *)
(* old side, found where it says, by its new side; applied from the last   *)
(* hunk to the first, no hunk moves the place of another.                  *)

Side(h, mark) ==
    FoldLeft(LAMBDA side, l : IF l.mark \in {" ", mark} THEN Append(side, l.text) ELSE side,
             <<>>, h.body)

HunkEnd(h) == HunkStart(h) + Len(Side(h, "-"))

Fits(base, hunks) ==
    \A i \in DOMAIN hunks :
        /\ HunkEnd(hunks[i]) <= Len(base)
        /\ SubSeq(base, HunkStart(hunks[i]) + 1, HunkEnd(hunks[i])) = Side(hunks[i], "-")
        /\ \A j \in 1 .. i - 1 : HunkEnd(hunks[j]) <= HunkStart(hunks[i])

Patched(base, hunks) ==
    FoldRight(LAMBDA h, lines : SubSeq(lines, 1, HunkStart(h)) \o Side(h, "+")
                                    \o SubSeq(lines, HunkEnd(h) + 1, Len(lines)),
              hunks, base)

LooksLikeOld(s) == \E h \in ToSet(s.hunks) : [mark |-> "-", text |-> MinusMinus] \in ToSet(h.body)
LooksLikeNew(s) == \E h \in ToSet(s.hunks) : [mark |-> "+", text |-> PlusPlus] \in ToSet(h.body)

\* The sections that the text shows; the others are passed over without a word.
Shown == {s \in ToSet(meant) : s.hunks # <<>>}

\* A file renamed and changed in one section.
Renames(s) == NoPath \notin {s.old, s.new} /\ s.old # s.new

\* The diffs the property speaks of: one section per file; lines that look like headers
\* are not of both kinds, and "+++ x" is none of a new file, nor x the component's; a
\* file is not renamed onto one that exists; and a hunk has a line to find, or is put
\* before the first: after line k, git writes k for the start of an old side without
\* lines, where the code takes it for the next line's number.
Regular ==
    /\ \A i, j \in DOMAIN meant :
        {meant[i], meant[j]} \subseteq Shown /\ RelPath(meant[i]) = RelPath(meant[j]) => i = j
    /\ \A s \in Shown :
        /\ LooksLikeNew(s) => ~LooksLikeOld(s) /\ s.old # NoPath /\ Ghost \notin Tracked
        /\ Renames(s) => Unreadable(s)
        /\ \A h \in ToSet(s.hunks) : Side(h, "-") # <<>> \/ h.start = 0

Acceptable(s) ==
    /\ s.new # NoPath
    /\ ~Unreadable(s)
    /\ s.old # NoPath => RelPath(s) \in Tracked
    /\ Fits(Base(s), s.hunks)

Exact ==
    /\ DOMAIN final = Tracked \cup {RelPath(s) : s \in Shown}
    /\ \A s \in Shown : Acceptable(s) /\ final[RelPath(s)] = Patched(Base(s), s.hunks)
    /\ \A p \in Tracked : (\A s \in Shown : RelPath(s) # p) => final[p] = onDisk[p]

Refusable ==
    \/ Shown = {}
    \/ \E s \in Shown : ~Acceptable(s) \/ LooksLikeOld(s) \/ LooksLikeNew(s)

\* A diff is taken only if every hunk, removed lines that look like headers included,
\* lies on the lines it was made from; then the files are exactly what its hunks say and
\* the others stay, those too of which a section without hunks would change the name or
\* the mode; and a diff that shows something and fits is not turned away, unless its text
\* reads as the header of another file (ingest.ts, lifecycle.ts:885, server.ts:1196).
AppliedAsMeant ==
    Regular => (pc = "accepted" => Exact) /\ (pc = "refused" => Refusable)

=============================================================================
