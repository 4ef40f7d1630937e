--------------------------- MODULE FilterPipeline ----------------------------
(***************************************************************************)
(* What one filter job does with its sources and formats: _execute_job of  *)
(* backend/filter_manager.py, from the first source to the reports.        *)
(*                                                                         *)
(* For every source the job filters, may exclude and may reduce; it        *)
(* publishes the PBF; it exports once and converts the export to each      *)
(* other format, publishing one by one.  Beside the work it keeps the      *)
(* books: the phase the interface shows and the history times, the list of *)
(* outputs, the reports.                                                   *)
(*                                                                         *)
(* A file is what the passes made of it: which source, which build of the  *)
(* source, which passes.  A command may fail anywhere, and every failure   *)
(* but that of ogrinfo fails the job; the source may be replaced by a      *)
(* download at any time.  The temporary directory may be on another file   *)
(* system than the data, where a move is a copy.  Slots, cancels and the   *)
(* job list are FilterJobs.                                                *)
(*                                                                         *)
(* An operator named ..._<fault> is the definition after it with a fault   *)
(* seeded; no behaviour of the specification uses it.                      *)
(***************************************************************************)
EXTENDS Integers, Sequences, FiniteSets

CONSTANTS
  Sources,     \* the extracts a job may name
  MaxSources,  \* bound: how many of them it names
  MaxBuild     \* bound: the last build of an extract

ASSUME BoundsAssumption == MaxSources \in Nat /\ MaxBuild \in Nat

Exports == {"geojson", "gpkg"}
Formats == Exports \union {"pbf"}
Paths == Sources \X Formats

\* Lists without a repetition, as the validator leaves the formats.  (A source
\* named twice is accepted and is done twice; it is not asked for here.)
Lists(S, n) ==
  UNION {{q \in [1..m -> S] : \A i, k \in 1..m : q[i] = q[k] => i = k} : m \in 0..n}

\* What can be asked for: sources, none included, at least one format, an exclude
\* filter, and the columns. "manual" stands for a manual selection that names a
\* key; without one the code treats it as "all".
Requests ==
  {r \in [sources : Lists(Sources, MaxSources),
          pbf     : BOOLEAN,
          exports : Lists(Exports, 2),
          exclude : BOOLEAN,
          columns : {"other_tags", "all", "manual"}] :
     r.pbf \/ r.exports # <<>>}

\* "columns": the names of the columns are known to the conversion.
Passes == {"filter", "exclude", "reduce", "export", "columns", "fold", "convert"}
Made == [from : Sources, build : 0..MaxBuild, passes : SUBSET Passes]
Absent == [from |-> "nothing"]
Old == [from |-> "an earlier job"]
Copied == [from |-> "a copy"]  \* what a copy has written so far
NoReport == [data |-> -1, dropped |-> -1]

VARIABLES
  job,        \* the request
  pc,         \* the next thing _execute_job does
  src, fmt,   \* the source and the export format it is at
  index,      \* current_phase_index
  ticking,    \* phase_started_at is set
  timed,      \* the phases that were timed, each with the work it was timed for
  build,      \* the build each source file has on disk
  work,       \* the filtered PBF in the temporary directory
  shared,     \* shared_geojson
  errors,     \* geometry_errors; -1 before the first export
  dropped,    \* how many features the export of each source really dropped
  final,      \* what lies at the output paths
  outputs,    \* output_files and published
  empty,      \* empty_sources
  report,     \* what the report beside each output says
  status

vars == <<job, pc, src, fmt, index, ticking, timed, build, work, shared, errors,
          dropped, final, outputs, empty, report, status>>

books == <<timed, index, ticking>>
files == <<work, shared, final, outputs>>
notes == <<errors, dropped, empty, report, status>>

(***************************************************************************)
(* _build_phases.                                                          *)
(***************************************************************************)
Reduces == job.pbf /\ job.columns = "manual"

\* The steps of one source, in their order.
StepsOfSource ==
  <<[step |-> "filter", fmt |-> "pbf"]>>
  \o (IF job.exclude THEN <<[step |-> "exclude", fmt |-> "pbf"]>> ELSE <<>>)
  \o (IF Reduces THEN <<[step |-> "reduce", fmt |-> "pbf"]>> ELSE <<>>)
  \o [i \in 1..Len(job.exports) |-> [step |-> "export_convert", fmt |-> job.exports[i]]]

PhaseOf(s, step, f) == [source |-> s, step |-> step, fmt |-> f]
ReportPhase == PhaseOf("", "report", "txt")

\* The phases of all sources, and the one that belongs to the whole job.
Phases ==
  LET steps == StepsOfSource
      each  == Len(steps)
      all   == Len(job.sources) * each
  IN [n \in 1..all + 1 |->
        IF n > all THEN ReportPhase
        ELSE LET of == steps[((n - 1) % each) + 1]
             IN  PhaseOf(job.sources[((n - 1) \div each) + 1], of.step, of.fmt)]

\* _start_phase does nothing past the last phase.
StartPhase ==
  /\ ticking' = (ticking \/ index < Len(Phases))
  /\ UNCHANGED <<index, timed>>

\* _finish_phase: the phase at the index is credited with the work just done.
FinishPhase(done) ==
  IF ticking /\ index < Len(Phases)
    THEN /\ timed' = timed \union {[shown |-> Phases[index + 1], done |-> done]}
         /\ index' = index + 1
         /\ ticking' = FALSE
    ELSE UNCHANGED books

(***************************************************************************)
(* The pipeline.                                                           *)
(***************************************************************************)
Source == job.sources[src]
Format == job.exports[fmt]
Work(step, f) == PhaseOf(Source, step, f)
Goto(next) == pc' = next
After(file, pass) == [file EXCEPT !.passes = @ \union {pass}]

\* The intermediate PBF every export reads.
Intermediate == IF job.pbf THEN final[<<Source, "pbf">>] ELSE work

Init ==
  /\ job \in Requests
  /\ pc = "source" /\ src = 1 /\ fmt = 1
  /\ index = 0 /\ ticking = TRUE /\ timed = {}
  /\ build = [s \in Sources |-> 0]
  /\ work = Absent /\ shared = Absent
  /\ errors = -1 /\ dropped = [s \in Sources |-> 0]
  /\ final = [p \in Paths |-> Old]
  /\ outputs = {} /\ empty = {}
  /\ report = [p \in Paths |-> NoReport]
  /\ status = "running"

BeginSource ==
  /\ pc = "source" /\ src <= Len(job.sources)
  /\ Goto("filtering")
  /\ StartPhase
  /\ UNCHANGED <<job, src, fmt, build, files, notes>>

\* What follows a pass over the PBF.
AfterExclude ==
  IF Reduces THEN "reduce" ELSE IF job.pbf THEN "place_pbf" ELSE "export"
AfterFilter_Publishes == IF job.pbf THEN "place_pbf" ELSE "export"
AfterFilter == IF job.exclude THEN "exclude" ELSE AfterExclude

\* osmium tags-filter has read the source as it is now.
Filter ==
  /\ pc = "filtering"
  /\ work' = [from |-> Source, build |-> build[Source], passes |-> {"filter"}]
  /\ FinishPhase(Work("filter", "pbf"))
  /\ Goto(AfterFilter)
  /\ UNCHANGED <<job, src, fmt, build, shared, final, outputs, notes>>

BeginPass ==
  /\ \/ pc = "exclude" /\ Goto("excluding")
     \/ pc = "reduce" /\ Goto("reducing")
  /\ StartPhase
  /\ UNCHANGED <<job, src, fmt, build, files, notes>>

\* The inverted filter, moved over the work file.
Exclude_Untimed ==
  /\ pc = "excluding"
  /\ work' = After(work, "exclude")
  /\ Goto(AfterExclude)
  /\ UNCHANGED <<job, src, fmt, books, build, shared, final, outputs, notes>>

Exclude ==
  /\ pc = "excluding"
  /\ work' = After(work, "exclude")
  /\ FinishPhase(Work("exclude", "pbf"))
  /\ Goto(AfterExclude)
  /\ UNCHANGED <<job, src, fmt, build, shared, final, outputs, notes>>

\* _reduce_pbf_tags, in place.
Reduce ==
  /\ pc = "reducing"
  /\ work' = After(work, "reduce")
  /\ FinishPhase(Work("reduce", "pbf"))
  /\ Goto("place_pbf")
  /\ UNCHANGED <<job, src, fmt, build, shared, final, outputs, notes>>

Publish(p, file) ==
  /\ final' = [final EXCEPT ![p] = file]
  /\ outputs' = outputs \union {p}

\* shutil.move renames; on another file system it copies over what lies at the
\* path, and only then is the file there.
BeginCopy ==
  /\ \/ /\ pc = "place_pbf" /\ Goto("copying_pbf")
        /\ final' = [final EXCEPT ![<<Source, "pbf">>] = Copied]
     \/ /\ pc = "placing" /\ Goto("copying")
        /\ final' = [final EXCEPT ![<<Source, Format>>] = Copied]
  /\ UNCHANGED <<job, src, fmt, books, build, work, shared, outputs, notes>>

\* The work file is at its final path; exports read it from there.
PlacePbf ==
  /\ pc \in {"place_pbf", "copying_pbf"}
  /\ Publish(<<Source, "pbf">>, work)
  /\ work' = Absent
  /\ Goto("export")
  /\ UNCHANGED <<job, src, fmt, books, build, shared, notes>>

\* The loop over the other formats: one phase each, one export for all.
BeginExport ==
  /\ pc = "export" /\ fmt <= Len(job.exports)
  /\ Goto(IF shared = Absent THEN "exporting" ELSE "converting")
  /\ StartPhase
  /\ UNCHANGED <<job, src, fmt, build, files, notes>>

\* osmium export says how many features it could not build, 0 included.
Drop_Truthy(n) ==
  /\ errors' = IF n > 0 THEN n ELSE errors
  /\ dropped' = [dropped EXCEPT ![Source] = n]

Drop(n) ==
  /\ errors' = n
  /\ dropped' = [dropped EXCEPT ![Source] = n]

Export ==
  /\ pc = "exporting"
  /\ \E n \in 0..1 : Drop(n)
  /\ shared' = After(Intermediate, "export")
  /\ Goto(IF job.columns = "other_tags" THEN "folding" ELSE "fields")
  /\ UNCHANGED <<job, src, fmt, books, build, work, final, outputs, empty,
                 report, status>>

NextSource ==
  /\ src' = src + 1 /\ fmt' = 1
  /\ work' = Absent /\ shared' = Absent
  /\ Goto("source")

\* Nothing matched: the source is noted, its phase closed, the other formats
\* are passed over.
ExportEmpty_EndsJob ==
  /\ pc = "exporting"
  /\ \E n \in 0..1 : Drop(n)
  /\ empty' = empty \union {Source}
  /\ FinishPhase(Work("export_convert", Format))
  /\ src' = Len(job.sources) + 1 /\ fmt' = 1
  /\ work' = Absent /\ shared' = Absent
  /\ Goto("source")
  /\ UNCHANGED <<job, build, final, outputs, report, status>>

ExportEmpty ==
  /\ pc = "exporting"
  /\ \E n \in 0..1 : Drop(n)
  /\ empty' = empty \union {Source}
  /\ FinishPhase(Work("export_convert", Format))
  /\ NextSource
  /\ UNCHANGED <<job, build, final, outputs, report, status>>

\* geojsonseq_fold.py, for the standard columns only.
Fold ==
  /\ pc = "folding"
  /\ shared' = After(shared, "fold")
  /\ Goto("converting")
  /\ UNCHANGED <<job, src, fmt, books, build, work, final, outputs, notes>>

\* _get_fields asks ogrinfo for the columns. Its exit code is ignored: if it
\* fails or is killed, the columns go missing and the job goes on.
GetFields ==
  /\ pc = "fields"
  /\ shared' \in {shared, After(shared, "columns")}
  /\ Goto("converting")
  /\ UNCHANGED <<job, src, fmt, books, build, work, final, outputs, notes>>

\* ogr2ogr wrote the work file; what lay at the output path goes, ...
Convert ==
  /\ pc = "converting"
  /\ final' = [final EXCEPT ![<<Source, Format>>] = Absent]
  /\ Goto("placing")
  /\ UNCHANGED <<job, src, fmt, books, build, work, shared, outputs, notes>>

\* ... and the new file takes its place.
PlaceExport_Repeats ==
  /\ pc \in {"placing", "copying"}
  /\ Publish(<<Source, Format>>, After(shared, "convert"))
  /\ FinishPhase(Work("export_convert", Format))
  /\ Goto("export")
  /\ UNCHANGED <<job, src, fmt, build, work, shared, notes>>

PlaceExport ==
  /\ pc \in {"placing", "copying"}
  /\ Publish(<<Source, Format>>, After(shared, "convert"))
  /\ FinishPhase(Work("export_convert", Format))
  /\ fmt' = fmt + 1
  /\ Goto("export")
  /\ UNCHANGED <<job, src, build, work, shared, notes>>

\* The shared export is removed with the last format.
EndSource_KeepsExport ==
  /\ pc = "export" /\ fmt > Len(job.exports)
  /\ src' = src + 1 /\ fmt' = 1
  /\ work' = Absent
  /\ Goto("source")
  /\ UNCHANGED <<job, books, build, shared, final, outputs, notes>>

EndSource ==
  /\ pc = "export" /\ fmt > Len(job.exports)
  /\ NextSource
  /\ UNCHANGED <<job, books, build, final, outputs, notes>>

BeginReports ==
  /\ pc = "source" /\ src > Len(job.sources)
  /\ Goto("reporting")
  /\ StartPhase
  /\ UNCHANGED <<job, src, fmt, build, files, notes>>

\* One report per output, each of them best effort; then the job is over.
Report_AsAtFirst(p) == [data |-> 0, dropped |-> errors]

Report(p) == [data |-> build[p[1]], dropped |-> errors]

WriteReports ==
  /\ pc = "reporting"
  /\ \E written \in SUBSET outputs :
       report' = [p \in Paths |-> IF p \in written THEN Report(p) ELSE report[p]]
  /\ FinishPhase(ReportPhase)
  /\ status' = IF empty # {} /\ outputs = {} THEN "no_matches" ELSE "done"
  /\ Goto("end")
  /\ UNCHANGED <<job, src, fmt, build, files, errors, dropped, empty>>

\* Any command, move or check of the pipeline may raise; the phase clock stops.
\* What a copy has written stays where it is.
Fail ==
  /\ pc \notin {"end", "reporting"}
  /\ status' = "error"
  /\ ticking' = FALSE
  /\ Goto("end")
  /\ UNCHANGED <<job, src, fmt, index, timed, build, files, errors, dropped,
                 empty, report>>

\* A download finishes and takes the place of the source.
ReplaceSource ==
  /\ pc # "end"
  /\ \E s \in Sources :
       /\ build[s] < MaxBuild
       /\ build' = [build EXCEPT ![s] = @ + 1]
  /\ UNCHANGED <<job, pc, src, fmt, books, files, notes>>

Next ==
  \/ BeginSource \/ Filter \/ BeginPass \/ Exclude \/ Reduce \/ PlacePbf
  \/ BeginExport \/ Export \/ ExportEmpty \/ Fold \/ GetFields \/ Convert \/ PlaceExport
  \/ BeginCopy \/ EndSource \/ BeginReports \/ WriteReports \/ Fail
  \/ ReplaceSource

Spec == Init /\ [][Next]_vars

(***************************************************************************)
(* Properties.                                                             *)
(***************************************************************************)
\* The variables hold what the code can put there (timed is what
\* PhasesTellTheWork is about); the clock runs only for a phase that exists.
TypeOK ==
  /\ job \in Requests
  /\ pc \in {"source", "filtering", "exclude", "excluding", "reduce", "reducing",
             "place_pbf", "copying_pbf", "export", "exporting", "folding", "fields",
             "converting", "placing", "copying", "reporting", "end"}
  /\ src \in 1..Len(job.sources) + 1 /\ fmt \in 1..Len(job.exports) + 1
  /\ index \in 0..Len(Phases)
  /\ ticking \in BOOLEAN /\ (ticking => index < Len(Phases))
  /\ build \in [Sources -> 0..MaxBuild]
  /\ work \in Made \union {Absent} /\ shared \in Made \union {Absent}
  /\ errors \in -1..1 /\ dropped \in [Sources -> 0..1]
  /\ final \in [Paths -> Made \union {Absent, Old, Copied}]
  /\ outputs \subseteq Paths /\ empty \subseteq Sources
  /\ report \in [Paths -> [data : -1..MaxBuild, dropped : -1..1]]
  /\ status \in {"running", "done", "no_matches", "error"}

\* What has to have been done to a file before it may lie at its output path; the
\* names of its columns it may have or not.
PassesFor(f) ==
  {"filter"}
  \union (IF job.exclude THEN {"exclude"} ELSE {})
  \union (IF Reduces THEN {"reduce"} ELSE {})
  \union (IF f = "pbf" THEN {} ELSE {"export", "convert"})
  \union (IF f # "pbf" /\ job.columns = "other_tags" THEN {"fold"} ELSE {})

\* "Only a complete run reaches the final path": what the job has published is
\* the complete work on that very source and stays so. Every other path has what
\* an earlier job left, or nothing; what a copy has written lies only at a path of
\* the source at hand, while it is copied or after the job has failed.
OutputsAreFinished ==
  \A p \in Paths :
    IF p \in outputs
      THEN /\ final[p] \in Made
           /\ final[p].from = p[1] /\ final[p].passes \ {"columns"} = PassesFor(p[2])
      ELSE \/ final[p] \in {Old, Absent}
           \/ /\ final[p] = Copied /\ src <= Len(job.sources) /\ p[1] = Source
              /\ pc \in {"copying_pbf", "copying"} \/ status = "error"

\* A job that ends well has published every format of every source that matched
\* anything, and says no_matches exactly when it had sources and has published
\* nothing of them.
DoneIsComplete ==
  status \in {"done", "no_matches"} =>
    /\ (status = "no_matches") = (outputs = {} /\ job.sources # <<>>)
    /\ \A i \in 1..Len(job.sources) :
         /\ job.pbf => <<job.sources[i], "pbf">> \in outputs
         /\ job.sources[i] \in empty \/
            \A k \in 1..Len(job.exports) : <<job.sources[i], job.exports[k]>> \in outputs

\* What is left to do: the sources, the formats of one, the steps of both.
ToDo ==
  [source |-> 14, filtering |-> 13, exclude |-> 12, excluding |-> 11, reduce |-> 10,
   reducing |-> 9, place_pbf |-> 8, copying_pbf |-> 7, export |-> 6, exporting |-> 5,
   folding |-> 4, fields |-> 4, converting |-> 3, placing |-> 2, copying |-> 1]
StepsLeft ==
  CASE pc = "end" -> 0
    [] pc = "reporting" -> 1
    [] OTHER ->
         25 * (Len(job.sources) + 1 - src) + 6 * (Len(job.exports) + 1 - fmt) + ToDo[pc]

\* The loops of _execute_job end: with each step of the job less is left to do,
\* whatever fails, matches nothing or is replaced meanwhile.
JobRunsOut == [][StepsLeft' < StepsLeft \/ ReplaceSource]_vars

\* As long as every source has matched something, each phase was shown and
\* timed for the work it is named after, and a job that is done has timed them
\* all.
PhasesTellTheWork ==
  empty = {} =>
    /\ \A t \in timed : t.shown = t.done
    /\ status = "done" => {t.shown : t \in timed} = {Phases[n] : n \in 1..Len(Phases)}

\* ... also when a source has matched nothing (it does not hold then).
EveryPhaseIsNamed == \A t \in timed : t.shown = t.done

\* One figure of dropped features serves all reports, and is read after the last
\* export: the reports of the last source tell the truth, with one source all.
LastDroppedIsTold ==
  LET last == job.sources[Len(job.sources)]
  IN  \A p \in outputs :
        p[1] = last /\ p[2] \in Exports /\ report[p] # NoReport =>
          report[p].dropped = dropped[last]

\* The source is dated again when the reports are written, and may have been
\* replaced: a report never calls its data older than they are, nor newer than
\* what the source is replaced by. Without a replacement the date is right.
ReportIsNotOlder ==
  \A p \in outputs :
    report[p] # NoReport =>
      final[p].build <= report[p].data /\ report[p].data <= build[p[1]]

\* The report of an export says so when features were dropped from it (it does
\* not always).
DroppedIsTold ==
  \A p \in outputs :
    p[2] \in Exports /\ report[p] # NoReport /\ dropped[p[1]] > 0 => report[p].dropped > 0

\* The data timestamp of a report is that of the data in the file beside it (it
\* is not always).
ReportDatesTheData ==
  \A p \in outputs : report[p] # NoReport => report[p].data = final[p].build

\* A failure leaves nothing at an output path that could be mistaken for a result
\* (a copy that fails does).
FailureLeavesNothing == status = "error" => \A p \in Paths : final[p] # Copied

\* An export that was published has the columns that were asked for (after a
\* failed ogrinfo it has none).
ColumnsAreThere ==
  \A p \in outputs :
    p[2] \in Exports /\ job.columns # "other_tags" => "columns" \in final[p].passes

\* A job that is done has published something (one without sources has not).
DoneHasOutputs == status = "done" => outputs # {}

\* What an export holds does not depend on whether PBF was selected as well (it
\* does).
ExportIgnoresPbf ==
  \A p \in outputs : p[2] \in Exports => "reduce" \notin final[p].passes
==============================================================================
