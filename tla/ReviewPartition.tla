-------------------------- MODULE ReviewPartition --------------------------
(***************************************************************************)
(* How the diff of one checkpoint is split into review units               *)
(* (internal/reviewunits/partition.go).  Bytes are numbered from 1; a line *)
(* is its kind and its length in bytes, a hunk the length of its header,   *)
(* whether that header can be parsed, the source lines at which it starts, *)
(* and its body; a file the length of its header, whether it announces a   *)
(* change without lines, and its hunks.                                    *)
(***************************************************************************)
EXTENDS Naturals, Sequences, FiniteSets, FiniteSetsExt, SequencesExt, Functions

CONSTANT Checkpoints   \* diffs to be reviewed, each with the policy of its round

VARIABLES split,      \* how far the partition has come
          checkpoint, \* the diff with its policy
          manifest    \* the units

splitVars == <<split, checkpoint, manifest>>

\* partition.go:19-28
DefaultMaxUnitBytes == 65536
DefaultMaxUnits == 4
DefaultContextLines == 10

NormalizePolicy(p) ==
  [maxBytes |-> IF p.maxBytes = 0 THEN DefaultMaxUnitBytes ELSE p.maxBytes,
   maxUnits |-> IF p.maxUnits = 0 THEN DefaultMaxUnits ELSE p.maxUnits,
   context |-> IF p.context \notin 1..DefaultContextLines THEN DefaultContextLines ELSE p.context]

-----------------------------------------------------------------------------
(* Parsing: where everything lies *)

SumOf(sizes) == FoldLeft(+, 0, sizes)
SizesOf(lines) == [i \in DOMAIN lines |-> lines[i].size]
HunkSize(h) == h.header + SumOf(SizesOf(h.body))
HunkSizes(hunks) == [i \in DOMAIN hunks |-> HunkSize(hunks[i])]
FileSize(f) == f.header + SumOf(HunkSizes(f.hunks))
FileSizes(diff) == [i \in DOMAIN diff |-> FileSize(diff[i])]
DiffSize(diff) == SumOf(FileSizes(diff))

\* The bytes of the k-th of consecutive parts that begin after byte start.
Extent(start, sizes, k) ==
  LET before == start + SumOf(SubSeq(sizes, 1, k - 1))
  IN [from |-> before + 1, to |-> before + sizes[k]]

\* The source line a diff line stands for on one side of its hunk.
SourceLine(h, k, sides) ==
  (IF sides = {"both", "old"} THEN h.old ELSE h.new)
  + Cardinality({j \in 1..k - 1 : h.body[j].kind \in sides})

ParseHunk(h, bytes) ==
  [headerFrom |-> bytes.from, headerTo |-> bytes.from + h.header - 1,
   body |-> [k \in DOMAIN h.body |->
     [kind |-> h.body[k].kind, size |-> h.body[k].size,
      from |-> Extent(bytes.from + h.header - 1, SizesOf(h.body), k).from,
      to |-> Extent(bytes.from + h.header - 1, SizesOf(h.body), k).to,
      old |-> SourceLine(h, k, {"both", "old"}), new |-> SourceLine(h, k, {"both", "new"})]]]

\* A hunk whose header can not be parsed is passed over.
ParseHunks(f, start) ==
  LET parsed == [k \in DOMAIN f.hunks |->
        [ok |-> f.hunks[k].parses, hunk |-> ParseHunk(f.hunks[k], Extent(start, HunkSizes(f.hunks), k))]]
      kept == SelectSeq(parsed, LAMBDA p : p.ok)
  IN [k \in DOMAIN kept |-> kept[k].hunk]

ParseFiles(diff) ==
  [i \in DOMAIN diff |->
     LET bytes == Extent(0, FileSizes(diff), i)
         hunks == ParseHunks(diff[i], bytes.from + diff[i].header - 1)
     IN [path |-> i, from |-> bytes.from, to |-> bytes.to, hunks |-> hunks,
         nonText |-> diff[i].nonText \/ hunks = <<>>]]

-----------------------------------------------------------------------------
(* Fragments: what is never split further *)

ChangedRange(path, hunk, line) ==
  IF line.kind \notin {"old", "new"} THEN <<>>
  ELSE <<[path |-> path, hunk |-> hunk, side |-> line.kind, line |-> line[line.kind]]>>

\* An unchanged line at most width lines from a change.
ContextRange(path, hunk, body, k, width) ==
  IF body[k].kind = "both" /\ \E j \in DOMAIN body :
       j # k /\ j <= k + width /\ k <= j + width /\ body[j].kind \in {"old", "new"}
  THEN <<[path |-> path, hunk |-> hunk, side |-> "both", line |-> body[k].new]>>
  ELSE <<>>

Changes(path, hunk, body, first, last) ==
  FlattenSeq([k \in 1..last - first + 1 |-> ChangedRange(path, hunk, body[first + k - 1])])
Surroundings(path, hunk, body, first, last, width) ==
  FlattenSeq([k \in 1..last - first + 1 |-> ContextRange(path, hunk, body, first + k - 1, width)])

RangesForAllHunks(f, width) ==
  [primary |-> FlattenSeq([h \in DOMAIN f.hunks |->
      Changes(f.path, h, f.hunks[h].body, 1, Len(f.hunks[h].body))]),
   context |-> FlattenSeq([h \in DOMAIN f.hunks |->
      Surroundings(f.path, h, f.hunks[h].body, 1, Len(f.hunks[h].body), width)])]

NonTextOwnership(f) == IF f.nonText THEN <<f.path>> ELSE <<>>

Fragment(bytes, primary, context, owned) ==
  [bytes |-> bytes, primary |-> primary, context |-> context, nonText |-> owned]

\* Consecutive windows of a hunk, each as long as the header-bearing evidence
\* fits, then widened by context that fits too: up first, then down.
HunkWindows(f, number, prefix, p) ==
  LET body == f.hunks[number].body
      base == Cardinality(prefix)
      Fits(i, j) == base + body[j].to - body[i].from + 1 <= p.maxBytes
      LastFrom(k) == Max({j \in k..Len(body) : Fits(k, j)})
      Window(k, end) ==
        LET up == Min({i \in 1..k : k <= i + p.context /\ Fits(i, end)})
            down == Max({j \in end..Len(body) : j <= end + p.context /\ Fits(up, j)})
        IN Fragment(prefix \cup body[up].from .. body[down].to,
                    Changes(f.path, number, body, k, end),
                    Surroundings(f.path, number, body, up, down, p.context), <<>>)
      From[k \in 1..Len(body) + 1] ==
        IF k > Len(body) THEN <<>>
        ELSE LET end == LastFrom(k) IN <<Window(k, end)>> \o From[end + 1]
  IN From[1]

\* A line that no window can hold.
LineTooLong(f, number, prefix, p) ==
  \E k \in DOMAIN f.hunks[number].body :
    Cardinality(prefix) + f.hunks[number].body[k].size > p.maxBytes

\* What lies behind the last hunk goes with its last window or, if that is
\* full, into a fragment of its own.
WithTrailing(windows, trailing, prefix, p) ==
  LET last == Last(windows)
  IN IF trailing = {} THEN windows
     ELSE IF Cardinality(last.bytes \cup trailing) <= p.maxBytes
     THEN Append(Front(windows), [last EXCEPT !.bytes = @ \cup trailing])
     ELSE Append(windows, Fragment(prefix \cup trailing, <<>>, <<>>, <<>>))

Refused == <<>>

\* A file that fits stays whole; any other one is split at its hunks and lines.
\* A split file announces its non-text change in its first fragment.  Refused
\* if something in it can not be made to fit.
FragmentsForFile(f, p) ==
  LET ranges == RangesForAllHunks(f, p.context)
      Prefix(h) == f.from .. f.hunks[1].headerFrom - 1 \cup f.hunks[h].headerFrom .. f.hunks[h].headerTo
      Body(h) == f.hunks[h].body
      trailing == IF Body(Len(f.hunks)) = <<>> THEN {} ELSE Last(Body(Len(f.hunks))).to + 1 .. f.to
      OfHunk(h) ==
        IF Body(h) = <<>> THEN <<Fragment(Prefix(h), <<>>, <<>>, <<>>)>>
        ELSE WithTrailing(HunkWindows(f, h, Prefix(h), p),
                          IF h = Len(f.hunks) THEN trailing ELSE {}, Prefix(h), p)
  IN IF f.to - f.from + 1 <= p.maxBytes
     THEN <<Fragment(f.from .. f.to, ranges.primary, ranges.context, NonTextOwnership(f))>>
     ELSE IF f.hunks = <<>> \/ \E h \in DOMAIN f.hunks :
                 \/ Cardinality(Prefix(h)) > p.maxBytes
                 \/ LineTooLong(f, h, Prefix(h), p)
     THEN Refused
     ELSE LET parts == FlattenSeq([h \in DOMAIN f.hunks |-> OfHunk(h)])
          IN IF \E s \in Range(parts) : Cardinality(s.bytes) > p.maxBytes THEN Refused
             ELSE [parts EXCEPT ![1].nonText = NonTextOwnership(f)]

-----------------------------------------------------------------------------
(* Units: fragments packed in diff order *)

\* unionSegments: what several fragments repeat, a file header or a context
\* line, is in a unit once.
UnionSegments(unit, part) == unit.bytes \cup part.bytes
SegmentWorkload(bytes) == Cardinality(bytes)

\* Mutant: the limit is compared before the fragment is added.
PackBeforeLimit(units, part, p) ==
  IF units = <<>> \/ SegmentWorkload(Last(units).bytes) > p.maxBytes
  THEN Append(units, part)
  ELSE LET unit == Last(units)
       IN Append(Front(units),
            Fragment(UnionSegments(unit, part), unit.primary \o part.primary,
                     unit.context \o part.context, unit.nonText \o part.nonText))

Pack(units, part, p) ==
  IF units = <<>> \/ SegmentWorkload(UnionSegments(Last(units), part)) > p.maxBytes
  THEN Append(units, part)
  ELSE LET unit == Last(units)
       IN Append(Front(units),
            Fragment(UnionSegments(unit, part), unit.primary \o part.primary,
                     unit.context \o part.context, unit.nonText \o part.nonText))

\* The manifest of a diff; an empty diff has one unit without anything in it.
Build(diff, policy) ==
  LET p == NormalizePolicy(policy)
      files == ParseFiles(diff)
      ofFile == [i \in DOMAIN files |-> FragmentsForFile(files[i], p)]
      AddPart(units, part) == Pack(units, part, p)
  IN IF diff = <<>> THEN <<Fragment({}, <<>>, <<>>, <<>>)>>
     ELSE IF \E i \in DOMAIN files : ofFile[i] = Refused THEN Refused
     ELSE FoldLeft(AddPart, <<>>, FlattenSeq(ofFile))

\* The check every manifest passes before it is used and after it is loaded.
VerifyPrimaryCoverage(units) ==
  LET primary == FlattenSeq([u \in DOMAIN units |-> units[u].primary])
      nonText == FlattenSeq([u \in DOMAIN units |-> units[u].nonText])
  IN IsInjective(primary) /\ IsInjective(nonText)

\* The evidence of a unit lies within the diff.
UnitDiff(diff, unit) == unit.bytes \subseteq 1..DiffSize(diff)

-----------------------------------------------------------------------------
(* The manifest of a round *)

SplitInit == split = "whole" /\ checkpoint \in Checkpoints /\ manifest = <<>>

\* The first launch of a round builds the manifest and verifies it before it
\* is stored; a diff that can not be split is a problem for a person.
BuildManifest ==
  /\ split = "whole"
  /\ manifest' = Build(checkpoint.diff, checkpoint.policy)
  /\ split' = IF manifest' = Refused THEN "refused"
              ELSE IF VerifyPrimaryCoverage(manifest') THEN "stored" ELSE "invalid"
  /\ UNCHANGED checkpoint

\* Every later launch loads it and takes its unit's bytes from the diff.
LoadUnit ==
  /\ split = "stored"
  /\ \E unit \in Range(manifest) : split' = IF UnitDiff(checkpoint.diff, unit) THEN "loaded" ELSE "invalid"
  /\ UNCHANGED <<checkpoint, manifest>>

SplitNext == BuildManifest \/ LoadUnit

-----------------------------------------------------------------------------
(* What a partition is for, stated without the algorithm *)

\* The lines of a diff that are changed, in order, with the bytes a reviewer
\* needs to read each of them: the line, its hunk header and its file header.
ChangedLines(diff) ==
  LET OfLine(f, h, line) ==
        IF line.kind \notin {"old", "new"} THEN <<>>
        ELSE <<[range |-> [path |-> f.path, hunk |-> h, side |-> line.kind, line |-> line[line.kind]],
                needs |-> f.from .. f.hunks[1].headerFrom - 1
                          \cup f.hunks[h].headerFrom .. f.hunks[h].headerTo
                          \cup line.from .. line.to]>>
      OfHunk(f, h) == FlattenSeq([k \in DOMAIN f.hunks[h].body |-> OfLine(f, h, f.hunks[h].body[k])])
      OfFile(f) == FlattenSeq([h \in DOMAIN f.hunks |-> OfHunk(f, h)])
      files == ParseFiles(diff)
  IN FlattenSeq([i \in DOMAIN files |-> OfFile(files[i])])

\* Every changed line is assigned once and in order, to a unit in which it can
\* be read; every byte is evidence of some unit and no unit is above the limit;
\* a change without lines is owned once.
IsPartition(units, diff, p) ==
  LET lines == ChangedLines(diff)
      files == ParseFiles(diff)
  IN /\ FlattenSeq([u \in DOMAIN units |-> units[u].primary]) = [k \in DOMAIN lines |-> lines[k].range]
     /\ \A u \in DOMAIN units : \A k \in DOMAIN lines :
          lines[k].range \in Range(units[u].primary) => lines[k].needs \subseteq units[u].bytes
     /\ UNION {units[u].bytes : u \in DOMAIN units} = 1..DiffSize(diff)
     /\ \A u \in DOMAIN units : Cardinality(units[u].bytes) <= p.maxBytes
     /\ FlattenSeq([u \in DOMAIN units |-> units[u].nonText])
          = SelectSeq([i \in DOMAIN files |-> i], LAMBDA i : files[i].nonText)

\* No partition is possible: a file without hunks is too large, or something
\* of a file that must be split does not fit beside its headers.
CannotFit(diff, p) ==
  \E i \in DOMAIN diff :
    /\ FileSize(diff[i]) > p.maxBytes
    /\ \/ ParseFiles(diff)[i].hunks = <<>>
       \/ \E h \in DOMAIN diff[i].hunks :
            IF diff[i].hunks[h].parses
            THEN diff[i].header + diff[i].hunks[h].header + Max({0} \cup Range(SizesOf(diff[i].hunks[h].body))) > p.maxBytes
            ELSE diff[i].header + diff[i].hunks[h - 1].header + HunkSize(diff[i].hunks[h]) > p.maxBytes

\* A diff is refused only because something in it can not fit; any other one is
\* partitioned without loss and within the limit, and what was built passes
\* the checks of every later load (partition.go Build, VerifyPrimaryCoverage,
\* UnitDiff).
UnitsCoverTheDiff ==
  /\ split # "invalid"
  /\ split = "refused" => CannotFit(checkpoint.diff, checkpoint.policy)
  /\ split \in {"stored", "loaded"} => IsPartition(manifest, checkpoint.diff, checkpoint.policy)
=============================================================================
